------------------------- MODULE ProtocolServer_proofs -------------------------
(***************************************************************************)
(* Proofs about ProtocolServer, for any number of connections, send and    *)
(* receive threads and local threads, any messages and any buffer sizes.   *)
(***************************************************************************)
EXTENDS ProtocolServer, TLAPS

Distinct(s) == \A i, j \in DOMAIN s : s[i] = s[j] => i = j
In(x, s) == \E i \in DOMAIN s : s[i] = x

(* Pushing to the ready queue an entry that is not in it.                  *)
LEMMA PushLemma ==
  ASSUME NEW s \in Seq(Entry), NEW x \in Entry
  PROVE  /\ Append(s, x) \in Seq(Entry)
         /\ \A y : In(y, Append(s, x)) <=> In(y, s) \/ y = x
         /\ Distinct(s) /\ ~In(x, s) => Distinct(Append(s, x))
<1> DEFINE t == Append(s, x)
<1>1. t \in Seq(Entry) /\ Len(t) = Len(s) + 1 /\ Len(s) \in Nat
  OBVIOUS
<1>2. DOMAIN s = 1..Len(s) /\ DOMAIN t = 1..(Len(s) + 1)
  BY <1>1
<1>3. t[Len(s) + 1] = x /\ \A i \in 1..Len(s) : t[i] = s[i]
  OBVIOUS
<1> HIDE DEF t
<1>4. ASSUME NEW y PROVE In(y, t) <=> In(y, s) \/ y = x
  <2>1. ASSUME In(y, t) PROVE In(y, s) \/ y = x
    <3>1. PICK i \in 1..(Len(s) + 1) : t[i] = y
      BY <1>2, <2>1 DEF In
    <3>2. CASE i = Len(s) + 1
      BY <1>3, <3>1, <3>2
    <3>3. CASE i \in 1..Len(s)
      BY <1>2, <1>3, <3>1, <3>3 DEF In
    <3>4. QED
      BY <1>1, <3>2, <3>3
  <2>2. ASSUME In(y, s) PROVE In(y, t)
    <3>1. PICK i \in 1..Len(s) : s[i] = y
      BY <1>2, <2>2 DEF In
    <3>2. i \in DOMAIN t /\ t[i] = y
      BY <1>1, <1>2, <1>3, <3>1
    <3>3. QED
      BY <3>2 DEF In
  <2>3. In(x, t)
    <3>1. Len(s) + 1 \in DOMAIN t
      BY <1>1, <1>2
    <3>2. QED
      BY <1>3, <3>1 DEF In
  <2>4. QED
    BY <2>1, <2>2, <2>3
<1>5. ASSUME Distinct(s), ~In(x, s), NEW i \in DOMAIN t, NEW j \in DOMAIN t, t[i] = t[j]
      PROVE  i = j
  <2>1. \A k \in 1..Len(s) : t[k] # x
    BY <1>2, <1>3, <1>5 DEF In
  <2>2. CASE i = Len(s) + 1 \/ j = Len(s) + 1
    BY <1>1, <1>2, <1>3, <1>5, <2>1, <2>2
  <2>3. CASE i \in 1..Len(s) /\ j \in 1..Len(s)
    BY <1>2, <1>3, <1>5, <2>3 DEF Distinct
  <2>4. QED
    BY <1>1, <1>2, <2>2, <2>3
<1>6. Distinct(s) /\ ~In(x, s) => Distinct(t)
  BY <1>5 DEF Distinct
<1>7. QED
  BY <1>1, <1>4, <1>6 DEF t

(* Popping the first entry of the ready queue.                             *)
LEMMA PopLemma ==
  ASSUME NEW s \in Seq(Entry), s # <<>>, Distinct(s)
  PROVE  /\ Tail(s) \in Seq(Entry) /\ Head(s) \in Entry /\ In(Head(s), s)
         /\ Distinct(Tail(s))
         /\ \A y : In(y, Tail(s)) <=> In(y, s) /\ y # Head(s)
<1> DEFINE t == Tail(s)
<1>1. Len(s) \in Nat /\ Len(s) > 0 /\ t \in Seq(Entry) /\ Len(t) = Len(s) - 1
  OBVIOUS
<1>2. DOMAIN s = 1..Len(s) /\ DOMAIN t = 1..(Len(s) - 1)
  BY <1>1
<1>3. Head(s) = s[1] /\ \A i \in 1..(Len(s) - 1) : t[i] = s[i + 1]
  BY <1>1
<1> HIDE DEF t
<1>4. Head(s) \in Entry /\ In(Head(s), s)
  BY <1>1, <1>2, <1>3 DEF In
<1>5. Distinct(t)
  <2>1. ASSUME NEW i \in DOMAIN t, NEW j \in DOMAIN t, t[i] = t[j] PROVE i = j
    <3>1. i + 1 \in DOMAIN s /\ j + 1 \in DOMAIN s /\ s[i + 1] = s[j + 1]
      BY <1>1, <1>2, <1>3, <2>1
    <3>2. i + 1 = j + 1
      BY <3>1 DEF Distinct
    <3>3. QED
      BY <1>1, <1>2, <3>2
  <2>2. QED
    BY <2>1 DEF Distinct
<1>6. ASSUME NEW y PROVE In(y, t) <=> In(y, s) /\ y # Head(s)
  <2>1. ASSUME In(y, t) PROVE In(y, s) /\ y # Head(s)
    <3>1. PICK i \in 1..(Len(s) - 1) : t[i] = y
      BY <1>2, <2>1 DEF In
    <3>2. i + 1 \in DOMAIN s /\ 1 \in DOMAIN s /\ i + 1 # 1 /\ s[i + 1] = y
      BY <1>1, <1>2, <1>3, <3>1
    <3>3. QED
      BY <1>3, <3>2 DEF In, Distinct
  <2>2. ASSUME In(y, s), y # Head(s) PROVE In(y, t)
    <3>1. PICK i \in 1..Len(s) : s[i] = y
      BY <1>2, <2>2 DEF In
    <3>2. i - 1 \in 1..(Len(s) - 1) /\ (i - 1) + 1 = i
      BY <1>1, <1>3, <2>2, <3>1
    <3>3. t[i - 1] = y
      BY <1>3, <3>1, <3>2
    <3>4. QED
      BY <1>2, <3>2, <3>3 DEF In
  <2>3. QED
    BY <2>1, <2>2
<1>7. QED
  BY <1>1, <1>4, <1>5, <1>6 DEF t

-----------------------------------------------------------------------------
(* The inductive invariant.  Every entry is in one place (SingleOwner) and *)
(* nothing open is forgotten (NothingForgotten); a new connection is in no *)
(* place because its socket is not open yet.  The rest ties the places to  *)
(* the program counters: the select thread has entries only while it scans *)
(* or distributes, a thread works on a connection or on the listening      *)
(* socket, and nothing moves before Start or after Stop.                   *)

Types ==
  /\ state_ \in {"NOT_STARTED", "STARTING", "RUNNING", "STOPPING", "STOPPED"}
  /\ ready_connections_ \in Seq(Entry)
  /\ blocked_connections_ \subseteq Entry /\ temp \subseteq Entry /\ todo \subseteq temp
  /\ held \in [Workers -> Entry]
  /\ worker_pc \in [Workers -> WorkerPc]
  /\ socket \in [Conn -> {"none", "backlog", "open", "closed"}]

Phases ==
  /\ select_pc \in {"loop", "clear", "swap", "done"} => temp = {}
  /\ select_pc = "distribute" => todo = temp
  /\ \A w \in Workers :
       /\ worker_pc[w] = "accept" => held[w] = NULL
       /\ worker_pc[w] \in {"recv", "send"} => held[w] # NULL

Owned(x) == x \in blocked_connections_ \cup temp \/ Queued(x) \/ Held(x)

AtRest ==
  /\ state_ = "STARTING" => crashed
  /\ state_ = "NOT_STARTED" => \A x \in Entry : ~Owned(x)
  /\ state_ = "NOT_STARTED" => \A c \in Conn : socket[c] = "none"
  /\ state_ = "NOT_STARTED" => select_pc = "loop" /\ \A w \in Workers : worker_pc[w] = "pop"
  /\ state_ = "STOPPED" => select_pc = "done" /\ \A w \in Workers : worker_pc[w] = "done"

IInv ==
  Types /\ Phases /\ AtRest /\ SingleOwner /\ NothingForgotten /\ CrashOnlyInStop

Owners ==
  /\ \A v, w \in Workers, x \in Entry : Holds(v, x) /\ Holds(w, x) => v = w
  /\ \A x \in Entry :
       /\ ~(x \in blocked_connections_ /\ x \in temp)
       /\ Queued(x) => x \notin blocked_connections_ \cup temp
       /\ Held(x) => x \notin blocked_connections_ \cup temp /\ ~Queued(x)

LEMMA OwnersLemma == SingleOwner <=> Distinct(ready_connections_) /\ Owners
  BY DEF SingleOwner, Distinct, Owners

LEMMA OwnersLemmaPrime == SingleOwner' <=> Distinct(ready_connections_') /\ Owners'
  BY DEF SingleOwner, Distinct, Owners

LEMMA ForgottenLemma ==
  NothingForgotten <=>
    (~crashed /\ state_ \in {"RUNNING", "STOPPING"} =>
       \A x \in Entry : Owned(x) <=> x = NULL \/ socket[x] = "open")
  BY DEF NothingForgotten, Owned

LEMMA ForgottenLemmaPrime ==
  NothingForgotten' <=>
    (~crashed' /\ state_' \in {"RUNNING", "STOPPING"} =>
       \A x \in Entry : Owned(x)' <=> x = NULL \/ socket'[x] = "open")
  BY DEF NothingForgotten, Owned

LEMMA Pushed ==
  ASSUME Types, SingleOwner, NEW x \in Entry, ~Queued(x), AddConnectionToReadyConnections(x)
  PROVE  /\ ready_connections_' \in Seq(Entry)
         /\ Distinct(ready_connections_')
         /\ \/ draining_ /\ crashed' /\ \A y \in Entry : Queued(y)' <=> Queued(y)
            \/ /\ ~draining_ /\ crashed' = crashed
               /\ \A y \in Entry : Queued(y)' <=> Queued(y) \/ y = x
<1>1. /\ \A y \in Entry : Queued(y) <=> In(y, ready_connections_)
      /\ \A y \in Entry : Queued(y)' <=> In(y, ready_connections_')
  BY DEF Queued, In
<1>2. Distinct(ready_connections_) /\ ready_connections_ \in Seq(Entry)
  BY OwnersLemma DEF Types
<1>3. CASE draining_
  BY <1>1, <1>2, <1>3 DEF AddConnectionToReadyConnections
<1>4. CASE ~draining_
  <2>1. ready_connections_' = Append(ready_connections_, x) /\ crashed' = crashed
    BY <1>4 DEF AddConnectionToReadyConnections
  <2>2. ~In(x, ready_connections_)
    BY <1>1
  <2>3. QED
    BY <1>1, <1>2, <1>4, <2>1, <2>2, PushLemma
<1>5. QED
  BY <1>3, <1>4

ownerVars == <<state_, ready_connections_, draining_, blocked_connections_, select_pc, temp,
               todo, worker_pc, held, socket, crashed>>

LEMMA Untouched == ASSUME IInv, UNCHANGED ownerVars PROVE IInv'
<1> USE DEF IInv, ownerVars
<1>1. Types' /\ Phases' /\ CrashOnlyInStop'
  BY DEF Types, Phases, CrashOnlyInStop
<1>2. SingleOwner' /\ NothingForgotten' /\ AtRest'
  BY DEF SingleOwner, NothingForgotten, AtRest, Owned, Queued, Held, Holds
<1>3. QED
  BY <1>1, <1>2

LEMMA IInvInit == Init => IInv
<1> SUFFICES ASSUME Init PROVE IInv
  OBVIOUS
<1>1. Types /\ Phases /\ CrashOnlyInStop
  BY DEF Init, Types, Phases, CrashOnlyInStop, Entry, WorkerPc
<1>2. \A x \in Entry : ~Queued(x) /\ ~Held(x) /\ ~Owned(x)
  BY DEF Init, Queued, Held, Holds, Owned
<1>3. SingleOwner
  BY <1>2, OwnersLemma DEF Init, Distinct, Owners, Held
<1>4. AtRest /\ NothingForgotten
  BY <1>2 DEF Init, AtRest, NothingForgotten
<1>5. QED
  BY <1>1, <1>3, <1>4 DEF IInv

LEMMA SameQueue ==
  ASSUME UNCHANGED ready_connections_
  PROVE  \A x \in Entry : Queued(x)' <=> Queued(x)
  BY DEF Queued

LEMMA SameHeld ==
  ASSUME UNCHANGED <<worker_pc, held>>
  PROVE  /\ \A v \in Workers, x \in Entry : Holds(v, x)' <=> Holds(v, x)
         /\ \A x \in Entry : Held(x)' <=> Held(x)
  BY DEF Holds, Held

Working == {"accept", "recv", "send", "check", "insert"}

(* A step of thread w from pc old to pc new, with entry y in its hands.    *)
LEMMA OneWorker ==
  ASSUME Types, NEW w \in Workers, NEW new \in WorkerPc, NEW y \in Entry,
         worker_pc' = [worker_pc EXCEPT ![w] = new], held' = [held EXCEPT ![w] = y]
  PROVE  /\ worker_pc' \in [Workers -> WorkerPc] /\ held' \in [Workers -> Entry]
         /\ worker_pc'[w] = new /\ held'[w] = y
         /\ \A v \in Workers \ {w} : worker_pc'[v] = worker_pc[v] /\ held'[v] = held[v]
         /\ \A v \in Workers \ {w}, x \in Entry : Holds(v, x)' <=> Holds(v, x)
         /\ \A x \in Entry : Holds(w, x)' <=> x = y /\ new \in Working
         /\ \A x \in Entry :
              Held(x)' <=> \/ x = y /\ new \in Working
                           \/ \E v \in Workers \ {w} : Holds(v, x)
<1>1. /\ worker_pc' \in [Workers -> WorkerPc] /\ held' \in [Workers -> Entry]
      /\ worker_pc'[w] = new /\ held'[w] = y
      /\ \A v \in Workers \ {w} : worker_pc'[v] = worker_pc[v] /\ held'[v] = held[v]
  BY DEF Types
<1>2. \A v \in Workers \ {w}, x \in Entry : Holds(v, x)' <=> Holds(v, x)
  BY <1>1 DEF Holds
<1>3. \A x \in Entry : Holds(w, x)' <=> x = y /\ new \in Working
  BY <1>1 DEF Holds, Working
<1>4. ASSUME NEW x \in Entry
      PROVE  Held(x)' <=> \/ x = y /\ new \in Working
                          \/ \E v \in Workers \ {w} : Holds(v, x)
  <2>1. Held(x)' <=> \E v \in Workers : Holds(v, x)'
    BY DEF Held
  <2>2. QED
    BY <1>2, <1>3, <2>1
<1>5. QED
  BY <1>1, <1>2, <1>3, <1>4

-----------------------------------------------------------------------------
(* Start and Stop.                                                         *)

LEMMA StartKeeps ==
  ASSUME IInv, NEW addresses \in AddressLists, Start(addresses)
  PROVE  IInv'
<1>1. /\ ~crashed /\ state_ = "NOT_STARTED"
      /\ UNCHANGED <<draining_, blocked_connections_, select_pc, temp, todo, worker_pc,
                     held, socket>>
      /\ \/ state_' = "STARTING" /\ crashed' = TRUE /\ UNCHANGED ready_connections_
         \/ state_' = "RUNNING" /\ AddConnectionToReadyConnections(NULL)
  BY DEF Start, Running, selectVars, workerVars, connVars
<1>2. Types /\ Phases /\ AtRest /\ SingleOwner /\ NULL \in Entry
  BY DEF IInv, Entry
<1>3. \A x \in Entry : ~Owned(x) /\ ~Queued(x) /\ ~Held(x)
  BY <1>1, <1>2 DEF AtRest, Owned
<1>4. \A x \in Entry : ~Held(x)'
  BY <1>1, <1>3, SameHeld
<1>5. \A v \in Workers, x \in Entry : ~Holds(v, x)'
  BY <1>4 DEF Held
<1>6. CASE state_' = "STARTING" /\ crashed' = TRUE /\ UNCHANGED ready_connections_
  <2>1. Distinct(ready_connections_') /\ \A x \in Entry : ~Queued(x)'
    BY <1>2, <1>3, <1>6, SameQueue, OwnersLemma
  <2>2. SingleOwner'
    BY <1>1, <1>2, <1>3, <1>4, <1>5, <2>1, OwnersLemmaPrime DEF Owners, Owned
  <2>3. Types' /\ Phases' /\ AtRest' /\ CrashOnlyInStop' /\ NothingForgotten'
    BY <1>1, <1>2, <1>6
    DEF Types, Phases, AtRest, CrashOnlyInStop, NothingForgotten
  <2>4. QED
    BY <2>2, <2>3 DEF IInv
<1>7. CASE state_' = "RUNNING" /\ AddConnectionToReadyConnections(NULL)
  <2>1. /\ ready_connections_' \in Seq(Entry) /\ Distinct(ready_connections_')
        /\ \/ draining_ /\ crashed' /\ \A y \in Entry : ~Queued(y)'
           \/ crashed' = crashed /\ \A y \in Entry : Queued(y)' <=> y = NULL
    BY <1>2, <1>3, <1>7, Pushed
  <2>2. SingleOwner'
    BY <1>1, <1>2, <1>3, <1>4, <1>5, <2>1, OwnersLemmaPrime DEF Owners, Owned
  <2>3. Types' /\ Phases' /\ AtRest' /\ CrashOnlyInStop'
    BY <1>1, <1>2, <1>7, <2>1
    DEF Types, Phases, AtRest, CrashOnlyInStop
  <2>4. NothingForgotten'
    <3>1. CASE draining_ /\ crashed'
      BY <3>1 DEF NothingForgotten
    <3>2. CASE \A y \in Entry : Queued(y)' <=> y = NULL
      <4>1. \A x \in Entry : Owned(x)' <=> x = NULL
        BY <1>1, <1>3, <1>4, <3>2 DEF Owned
      <4>2. \A x \in Entry : x # NULL => socket'[x] # "open"
        BY <1>1, <1>2 DEF AtRest, Entry
      <4>3. QED
        BY <4>1, <4>2, ForgottenLemmaPrime
    <3>3. QED
      BY <2>1, <3>1, <3>2
  <2>5. QED
    BY <2>2, <2>3, <2>4 DEF IInv
<1>8. QED
  BY <1>1, <1>6, <1>7, Zenon

(* A step that changes no entry's place, only the state or a counter.      *)
LEMMA SamePlaces ==
  ASSUME SingleOwner, NothingForgotten, ~crashed, state_ \in {"RUNNING", "STOPPING"},
         UNCHANGED <<ready_connections_, blocked_connections_, temp, socket>>,
         \A v \in Workers, x \in Entry : Holds(v, x)' <=> Holds(v, x)
  PROVE  SingleOwner' /\ NothingForgotten'
<1>1. \A x \in Entry : (Held(x)' <=> Held(x)) /\ (Queued(x)' <=> Queued(x))
  BY SameQueue DEF Held
<1>2. \A x \in Entry : Owned(x)' <=> Owned(x)
  BY <1>1 DEF Owned
<1>3. SingleOwner'
  BY <1>1, OwnersLemma, OwnersLemmaPrime DEF Owners
<1>4. NothingForgotten'
  BY <1>2, ForgottenLemma, ForgottenLemmaPrime
<1>5. QED
  BY <1>3, <1>4

LEMMA StopKeeps ==
  ASSUME IInv, Stop \/ StopDrain \/ StopSignal
  PROVE  IInv'
<1>1. /\ ~crashed /\ state_ \in {"RUNNING", "STOPPING"} /\ state_' = "STOPPING"
      /\ UNCHANGED <<ready_connections_, blocked_connections_, select_pc, temp, todo,
                     worker_pc, held, socket, crashed>>
  BY DEF Stop, StopDrain, StopSignal, Running, localVars, selectVars, workerVars, connVars
<1>2. SingleOwner' /\ NothingForgotten'
  BY <1>1, SameHeld, SamePlaces DEF IInv
<1>3. Types' /\ Phases' /\ AtRest' /\ CrashOnlyInStop'
  BY <1>1 DEF IInv, Types, Phases, AtRest, CrashOnlyInStop
<1>4. QED
  BY <1>2, <1>3 DEF IInv

LEMMA StopCloseKeeps ==
  ASSUME IInv, StopClose
  PROVE  IInv'
<1>1. /\ ~crashed /\ state_' = "STOPPED" /\ select_pc = "done"
      /\ \A w \in Workers : worker_pc[w] = "done"
      /\ blocked_connections_' = {} /\ ready_connections_' = <<>>
      /\ socket' \in [Conn -> {"none", "backlog", "open", "closed"}]
      /\ UNCHANGED <<draining_, select_pc, temp, todo, worker_pc, held, crashed>>
  BY DEF StopClose, Running, selectVars, workerVars, IInv, Types
<1>2. temp' = {}
  BY <1>1 DEF IInv, Phases
<1>3. \A v \in Workers, x \in Entry : ~Holds(v, x)'
  BY <1>1 DEF Holds
<1>4. \A x \in Entry : ~Queued(x)' /\ ~Held(x)'
  BY <1>1, <1>3 DEF Queued, Held
<1>5. SingleOwner'
  BY <1>1, <1>2, <1>3, <1>4, OwnersLemmaPrime DEF Owners, Distinct
<1>6. NothingForgotten' /\ CrashOnlyInStop' /\ AtRest'
  BY <1>1 DEF NothingForgotten, CrashOnlyInStop, AtRest
<1>7. Types' /\ Phases'
  BY <1>1 DEF IInv, Types, Phases
<1>8. QED
  BY <1>5, <1>6, <1>7 DEF IInv

-----------------------------------------------------------------------------
(* The select thread.                                                      *)

LEMMA SelectActive ==
  ASSUME IInv, ~crashed, select_pc # "done", state_ # "NOT_STARTED"
  PROVE  state_ \in {"RUNNING", "STOPPING"}
  BY DEF IInv, Types, AtRest

LEMMA SelectTurnKeeps ==
  ASSUME IInv, SelectLoop \/ SelectClear \/ Select, state_ # "NOT_STARTED"
  PROVE  IInv'
<1>1. /\ ~crashed /\ select_pc # "done"
      /\ UNCHANGED <<state_, draining_, ready_connections_, blocked_connections_, temp,
                     worker_pc, held, socket, crashed>>
      /\ \/ select_pc = "loop" /\ select_pc' \in {"clear", "done"} /\ todo' = todo
         \/ select_pc = "clear" /\ select_pc' = "swap" /\ todo' = todo
         \/ select_pc' = (IF temp = {} THEN "loop" ELSE "distribute") /\ todo' = temp
  BY DEF SelectLoop, SelectClear, Select, Running, serverVars, workerVars, connVars
<1>2. SingleOwner' /\ NothingForgotten'
  BY <1>1, SameHeld, SamePlaces, SelectActive DEF IInv
<1>3. Types' /\ Phases'
  BY <1>1 DEF IInv, Types, Phases
<1>4. AtRest' /\ CrashOnlyInStop'
  <2>1. state_ \in {"RUNNING", "STOPPING"}
    BY <1>1, SelectActive
  <2>2. QED
    BY <1>1, <2>1 DEF IInv, AtRest, CrashOnlyInStop
<1>5. QED
  BY <1>2, <1>3, <1>4 DEF IInv

LEMMA SelectSwapKeeps ==
  ASSUME IInv, SelectSwap, state_ # "NOT_STARTED"
  PROVE  IInv'
<1>1. /\ ~crashed /\ select_pc = "swap" /\ select_pc' = "scan"
      /\ temp' = blocked_connections_ /\ todo' = blocked_connections_
      /\ blocked_connections_' = {}
      /\ UNCHANGED <<state_, draining_, ready_connections_, worker_pc, held, socket, crashed>>
  BY DEF SelectSwap, Running, workerVars, connVars
<1>2. temp = {} /\ state_ \in {"RUNNING", "STOPPING"}
  BY <1>1, SelectActive DEF IInv, Phases
<1>3. /\ \A v \in Workers, x \in Entry : Holds(v, x)' <=> Holds(v, x)
      /\ \A x \in Entry : (Held(x)' <=> Held(x)) /\ (Queued(x)' <=> Queued(x))
  BY <1>1, SameHeld, SameQueue
<1>4. SingleOwner'
  BY <1>1, <1>3, OwnersLemma, OwnersLemmaPrime DEF IInv, Owners
<1>5. \A x \in Entry : Owned(x)' <=> Owned(x)
  BY <1>1, <1>2, <1>3 DEF Owned
<1>6. NothingForgotten'
  BY <1>1, <1>2, <1>5, ForgottenLemma, ForgottenLemmaPrime DEF IInv
<1>7. Types' /\ Phases' /\ AtRest' /\ CrashOnlyInStop'
  <2>1. blocked_connections_ \subseteq Entry
    BY DEF IInv, Types
  <2>2. QED
    BY <1>1, <1>2, <2>1 DEF IInv, Types, Phases, AtRest, CrashOnlyInStop
<1>8. QED
  BY <1>4, <1>6, <1>7 DEF IInv

(* x leaves the hands of the select thread: for the ready queue, for the   *)
(* blocked set, or because its socket is closed.                           *)
LEMMA SelectHandsOver ==
  ASSUME IInv, ~crashed, state_ \in {"RUNNING", "STOPPING"},
         NEW x \in todo, temp' = temp \ {x}, todo' = todo \ {x},
         UNCHANGED <<state_, draining_, worker_pc, held>>,
         select_pc \in {"scan", "distribute"},
         \/ select_pc' = select_pc
         \/ select_pc = "distribute" /\ todo = {x} /\ select_pc' = "loop",
         \/ /\ AddConnectionToReadyConnections(x)
            /\ UNCHANGED <<blocked_connections_, socket>>
         \/ /\ InsertIntoBlockedConnections(x)
            /\ UNCHANGED <<ready_connections_, socket>>
         \/ /\ x # NULL /\ socket' = [socket EXCEPT ![x] = "closed"]
            /\ UNCHANGED <<ready_connections_, blocked_connections_, crashed>>
  PROVE  IInv'
<1>1. Types /\ Phases /\ AtRest /\ SingleOwner /\ NothingForgotten /\ CrashOnlyInStop /\ Owners
  BY OwnersLemma DEF IInv
<1>2. /\ x \in Entry /\ x \in temp
      /\ x \notin blocked_connections_ /\ ~Queued(x) /\ ~Held(x)
  BY <1>1 DEF Types, Owners
<1>3. /\ \A v \in Workers, y \in Entry : Holds(v, y)' <=> Holds(v, y)
      /\ \A y \in Entry : Held(y)' <=> Held(y)
  BY SameHeld
<1>4. Phases' /\ AtRest'
  BY <1>1 DEF Phases, AtRest
<1>5. \A y \in Entry : Owned(y) <=> y = NULL \/ socket[y] = "open"
  BY <1>1, ForgottenLemma
<1>6. CASE AddConnectionToReadyConnections(x) /\ UNCHANGED <<blocked_connections_, socket>>
  <2>1. /\ ready_connections_' \in Seq(Entry) /\ Distinct(ready_connections_')
        /\ \/ draining_ /\ crashed' /\ \A y \in Entry : Queued(y)' <=> Queued(y)
           \/ crashed' = crashed /\ \A y \in Entry : Queued(y)' <=> Queued(y) \/ y = x
    BY <1>1, <1>2, <1>6, Pushed
  <2>2. SingleOwner'
    BY <1>1, <1>2, <1>3, <1>6, <2>1, OwnersLemmaPrime DEF Owners
  <2>3. ~crashed' => \A y \in Entry : Owned(y)' <=> Owned(y)
    BY <1>2, <1>3, <1>6, <2>1 DEF Owned
  <2>4. NothingForgotten'
    BY <1>5, <1>6, <2>3, ForgottenLemmaPrime
  <2>5. Types' /\ CrashOnlyInStop'
    BY <1>1, <1>6, <2>1 DEF Types, CrashOnlyInStop
  <2>6. QED
    BY <1>4, <2>2, <2>4, <2>5 DEF IInv
<1>7. CASE InsertIntoBlockedConnections(x) /\ UNCHANGED <<ready_connections_, socket>>
  <2>1. blocked_connections_' = blocked_connections_ \cup {x} /\ crashed' = crashed
    BY <1>2, <1>7 DEF InsertIntoBlockedConnections
  <2>2. \A y \in Entry : Queued(y)' <=> Queued(y)
    BY <1>7, SameQueue
  <2>3. SingleOwner'
    BY <1>1, <1>2, <1>3, <1>7, <2>1, <2>2, OwnersLemma, OwnersLemmaPrime DEF Owners
  <2>4. \A y \in Entry : Owned(y)' <=> Owned(y)
    BY <1>2, <1>3, <2>1, <2>2 DEF Owned
  <2>5. NothingForgotten'
    BY <1>5, <1>7, <2>4, ForgottenLemmaPrime
  <2>6. Types' /\ CrashOnlyInStop'
    BY <1>1, <1>2, <1>7, <2>1 DEF Types, CrashOnlyInStop
  <2>7. QED
    BY <1>4, <2>3, <2>5, <2>6 DEF IInv
<1>8. CASE /\ x # NULL /\ socket' = [socket EXCEPT ![x] = "closed"]
           /\ UNCHANGED <<ready_connections_, blocked_connections_, crashed>>
  <2>1. \A y \in Entry : Queued(y)' <=> Queued(y)
    BY <1>8, SameQueue
  <2>2. SingleOwner'
    BY <1>1, <1>3, <1>8, <2>1, OwnersLemma, OwnersLemmaPrime DEF Owners
  <2>3. \A y \in Entry : Owned(y)' <=> Owned(y) /\ y # x
    BY <1>2, <1>3, <1>8, <2>1 DEF Owned
  <2>4. /\ socket' \in [Conn -> {"none", "backlog", "open", "closed"}]
        /\ socket'[x] = "closed" /\ \A y \in Conn \ {x} : socket'[y] = socket[y]
    BY <1>1, <1>2, <1>8 DEF Types, Entry
  <2>5. NothingForgotten'
    BY <1>5, <1>8, <2>3, <2>4, ForgottenLemmaPrime DEF Entry
  <2>6. Types' /\ CrashOnlyInStop'
    BY <1>1, <1>8, <2>4 DEF Types, CrashOnlyInStop
  <2>7. QED
    BY <1>4, <2>2, <2>5, <2>6 DEF IInv
<1>9. QED
  BY <1>6, <1>7, <1>8

LEMMA SelectScanKeeps ==
  ASSUME IInv, NEW x \in Entry, SelectScan(x), state_ # "NOT_STARTED"
  PROVE  IInv'
<1>1. /\ ~crashed /\ select_pc = "scan" /\ x \in todo /\ todo' = todo \ {x}
      /\ UNCHANGED <<state_, draining_, blocked_connections_, select_pc, worker_pc, held>>
  BY DEF SelectScan, Running, workerVars
<1>2. state_ \in {"RUNNING", "STOPPING"}
  BY <1>1, SelectActive
<1>3. CASE UNCHANGED <<ready_connections_, temp, socket, crashed>>
  <2>1. SingleOwner' /\ NothingForgotten'
    BY <1>1, <1>2, <1>3, SameHeld, SamePlaces DEF IInv
  <2>2. Types' /\ Phases' /\ AtRest' /\ CrashOnlyInStop'
    BY <1>1, <1>2, <1>3 DEF IInv, Types, Phases, AtRest, CrashOnlyInStop
  <2>3. QED
    BY <2>1, <2>2 DEF IInv
<1>4. CASE /\ x # NULL /\ socket' = [socket EXCEPT ![x] = "closed"]
           /\ temp' = temp \ {x} /\ UNCHANGED <<ready_connections_, crashed>>
  BY <1>1, <1>2, <1>4, SelectHandsOver, Zenon
<1>5. CASE /\ AddConnectionToReadyConnections(x)
           /\ temp' = temp \ {x} /\ UNCHANGED socket
  BY <1>1, <1>2, <1>5, SelectHandsOver
<1>6. QED
  BY <1>3, <1>4, <1>5 DEF SelectScan

LEMMA SelectOutputKeeps ==
  ASSUME IInv, SelectOutput
  PROVE  IInv'
<1>1. UNCHANGED ownerVars
  BY Zenon DEF SelectOutput, ownerVars, serverVars, workerVars
<1>2. QED
  BY <1>1, Untouched

LEMMA SelectDistributeKeeps ==
  ASSUME IInv, NEW x \in Entry, SelectDistribute(x), state_ # "NOT_STARTED"
  PROVE  IInv'
<1>1. /\ ~crashed /\ select_pc = "distribute" /\ x \in todo
      /\ todo' = todo \ {x} /\ temp' = temp \ {x}
      /\ UNCHANGED <<state_, draining_, worker_pc, held, socket>>
      /\ \/ select_pc' = select_pc
         \/ todo = {x} /\ select_pc' = "loop"
      /\ \/ AddConnectionToReadyConnections(x) /\ UNCHANGED blocked_connections_
         \/ InsertIntoBlockedConnections(x) /\ UNCHANGED ready_connections_
  BY DEF SelectDistribute, Running, workerVars, connVars
<1>2. state_ \in {"RUNNING", "STOPPING"}
  BY <1>1, SelectActive
<1>3. QED
  BY <1>1, <1>2, SelectHandsOver

-----------------------------------------------------------------------------
(* A send/receive thread.                                                  *)

LEMMA WorkerActive ==
  ASSUME IInv, NEW w \in Workers, ~crashed, worker_pc[w] # "done",
         worker_pc[w] # "pop" \/ state_ # "NOT_STARTED"
  PROVE  state_ \in {"RUNNING", "STOPPING"}
  BY DEF IInv, Types, AtRest

(* The conjuncts that a step of a thread leaves alone.                     *)
LEMMA WorkerFrame ==
  ASSUME IInv, NEW w \in Workers, NEW new \in WorkerPc, NEW y \in Entry,
         worker_pc' = [worker_pc EXCEPT ![w] = new], held' = [held EXCEPT ![w] = y],
         new = "accept" => y = NULL, new \in {"recv", "send"} => y # NULL,
         state_ \in {"RUNNING", "STOPPING"},
         UNCHANGED <<state_, select_pc, temp, todo>>
  PROVE  Phases' /\ AtRest'
<1>1. /\ worker_pc'[w] = new /\ held'[w] = y
      /\ \A v \in Workers \ {w} : worker_pc'[v] = worker_pc[v] /\ held'[v] = held[v]
  BY OneWorker, Zenon DEF IInv
<1>2. Phases'
  BY <1>1 DEF IInv, Phases
<1>3. AtRest'
  BY DEF AtRest
<1>4. QED
  BY <1>2, <1>3

(* WorkerLoop, WorkerReceive, WorkerSend, WorkerSignal and the steps that  *)
(* only move on: the thread keeps what it has.                             *)
LEMMA WorkerMovesOn ==
  ASSUME IInv, NEW w \in Workers, NEW new \in WorkerPc,
         ~crashed, state_ \in {"RUNNING", "STOPPING"},
         worker_pc' = [worker_pc EXCEPT ![w] = new],
         worker_pc[w] \in Working <=> new \in Working,
         new = "accept" => held[w] = NULL, new \in {"recv", "send"} => held[w] # NULL,
         UNCHANGED <<state_, ready_connections_, draining_, blocked_connections_, select_pc,
                     temp, todo, held, socket, crashed>>
  PROVE  IInv'
<1>1. /\ held[w] \in Entry /\ held' = [held EXCEPT ![w] = held[w]]
  BY DEF IInv, Types
<1>2. Phases' /\ AtRest'
  BY <1>1, WorkerFrame, Zenon
<1>3. /\ worker_pc' \in [Workers -> WorkerPc]
      /\ \A v \in Workers \ {w}, x \in Entry : Holds(v, x)' <=> Holds(v, x)
      /\ \A x \in Entry : Holds(w, x)' <=> x = held[w] /\ new \in Working
  BY <1>1, OneWorker, Zenon DEF IInv
<1>4. \A x \in Entry : Holds(w, x)' <=> Holds(w, x)
  BY <1>3 DEF Holds, Working
<1>5. SingleOwner' /\ NothingForgotten'
  <2>1. \A v \in Workers, x \in Entry : Holds(v, x)' <=> Holds(v, x)
    BY <1>3, <1>4
  <2>2. QED
    BY <2>1, SamePlaces DEF IInv
<1>6. Types' /\ CrashOnlyInStop'
  BY <1>3 DEF IInv, Types, CrashOnlyInStop
<1>7. QED
  BY <1>2, <1>5, <1>6, Zenon DEF IInv

(* The thread hands its entry to the ready queue or to the blocked set.    *)
LEMMA WorkerHandsOver ==
  ASSUME IInv, NEW w \in Workers, NEW new \in {"pop", "signal"},
         ~crashed, state_ \in {"RUNNING", "STOPPING"},
         worker_pc[w] \in Working,
         worker_pc' = [worker_pc EXCEPT ![w] = new], held' = [held EXCEPT ![w] = NULL],
         UNCHANGED <<state_, draining_, select_pc, temp, todo, socket>>,
         \/ AddConnectionToReadyConnections(held[w]) /\ UNCHANGED blocked_connections_
         \/ InsertIntoBlockedConnections(held[w]) /\ UNCHANGED ready_connections_
  PROVE  IInv'
<1> DEFINE x == held[w]
<1>1. Types /\ SingleOwner /\ NothingForgotten /\ CrashOnlyInStop /\ Owners
  BY OwnersLemma DEF IInv
<1>2. new \in WorkerPc /\ new \notin Working /\ new \notin {"accept", "recv", "send"} /\ NULL \in Entry
  BY DEF WorkerPc, Working, Entry
<1>3. x \in Entry /\ Holds(w, x)
  BY <1>1 DEF Types, Holds, Working
<1>4. /\ Held(x) /\ x \notin blocked_connections_ \cup temp /\ ~Queued(x)
      /\ \A v \in Workers \ {w} : ~Holds(v, x)
  BY <1>1, <1>3 DEF Owners, Held
<1>5. /\ worker_pc' \in [Workers -> WorkerPc] /\ held' \in [Workers -> Entry]
      /\ \A v \in Workers \ {w}, y \in Entry : Holds(v, y)' <=> Holds(v, y)
      /\ \A y \in Entry : ~Holds(w, y)'
  BY <1>1, <1>2, OneWorker, Zenon
<1>6. \A y \in Entry : Holds(w, y) => y = x
  BY DEF Holds
<1>7. \A y \in Entry : Held(y)' <=> Held(y) /\ y # x
  BY <1>4, <1>5, <1>6 DEF Held
<1>8. Phases' /\ AtRest'
  BY <1>2, WorkerFrame, Zenon
<1>9. \A y \in Entry : Owned(y) <=> y = NULL \/ socket[y] = "open"
  BY <1>1, ForgottenLemma
<1> HIDE DEF x
<1>10. CASE AddConnectionToReadyConnections(x) /\ UNCHANGED blocked_connections_
  <2>1. /\ ready_connections_' \in Seq(Entry) /\ Distinct(ready_connections_')
        /\ \/ draining_ /\ crashed' /\ \A y \in Entry : Queued(y)' <=> Queued(y)
           \/ crashed' = crashed /\ \A y \in Entry : Queued(y)' <=> Queued(y) \/ y = x
    BY <1>1, <1>3, <1>4, <1>10, Pushed
  <2>2. SingleOwner'
    BY <1>1, <1>3, <1>4, <1>5, <1>7, <1>10, <2>1, OwnersLemmaPrime DEF Owners
  <2>3. ~crashed' => \A y \in Entry : Owned(y)' <=> Owned(y)
    BY <1>4, <1>7, <1>10, <2>1 DEF Owned
  <2>4. NothingForgotten'
    BY <1>9, <2>3, ForgottenLemmaPrime
  <2>5. Types'
    BY <1>1, <1>5, <1>10, <2>1, Zenon DEF Types
  <2>6. CrashOnlyInStop'
    BY <1>1, <2>1, Zenon DEF CrashOnlyInStop
  <2>7. QED
    BY <1>8, <2>2, <2>4, <2>5, <2>6 DEF IInv
<1>11. CASE InsertIntoBlockedConnections(x) /\ UNCHANGED ready_connections_
  <2>1. blocked_connections_' = blocked_connections_ \cup {x} /\ crashed' = crashed
    BY <1>4, <1>11 DEF InsertIntoBlockedConnections
  <2>2. \A y \in Entry : Queued(y)' <=> Queued(y)
    BY <1>11, SameQueue
  <2>3. SingleOwner'
    BY <1>1, <1>3, <1>4, <1>5, <1>7, <1>11, <2>1, <2>2, OwnersLemma, OwnersLemmaPrime DEF Owners
  <2>4. \A y \in Entry : Owned(y)' <=> Owned(y)
    BY <1>4, <1>7, <2>1, <2>2 DEF Owned
  <2>5. NothingForgotten'
    BY <1>9, <2>4, ForgottenLemmaPrime
  <2>6. Types' /\ CrashOnlyInStop'
    BY <1>1, <1>3, <1>5, <1>11, <2>1, Zenon DEF Types, CrashOnlyInStop
  <2>7. QED
    BY <1>8, <2>3, <2>5, <2>6 DEF IInv
<1>12. QED
  BY <1>10, <1>11 DEF x

(* The steps of a thread that move on, or hand its entry over.             *)
LEMMA WorkerSimpleKeeps ==
  ASSUME IInv, NEW w \in Workers,
         \/ WorkerLoop(w) \/ WorkerReceive(w) \/ WorkerSend(w) \/ WorkerCheck(w)
         \/ WorkerInsert(w) \/ WorkerSignal(w)
  PROVE  IInv'
<1> USE DEF Running, serverVars, selectVars, connVars
<1>1. CASE WorkerLoop(w)
  <2>1. PICK new \in {"waiting", "done"} : worker_pc' = [worker_pc EXCEPT ![w] = new]
    BY <1>1, Zenon DEF WorkerLoop
  <2>2. /\ ~crashed /\ worker_pc[w] = "pop" /\ state_ # "NOT_STARTED"
        /\ UNCHANGED <<state_, ready_connections_, draining_, blocked_connections_, select_pc,
                       temp, todo, held, socket, crashed>>
    BY <1>1 DEF WorkerLoop
  <2>3. state_ \in {"RUNNING", "STOPPING"}
    BY <2>2, WorkerActive
  <2>4. new \in WorkerPc /\ new \notin Working /\ worker_pc[w] \notin Working
    BY <2>2 DEF WorkerPc, Working
  <2>5. new \notin {"accept", "recv", "send"}
    OBVIOUS
  <2>6. QED
    BY <2>1, <2>2, <2>3, <2>4, <2>5, WorkerMovesOn, Zenon
<1>2. CASE WorkerReceive(w)
  <2>1. /\ ~crashed /\ worker_pc[w] = "recv" /\ worker_pc' = [worker_pc EXCEPT ![w] = "send"]
        /\ UNCHANGED <<state_, ready_connections_, draining_, blocked_connections_, select_pc,
                       temp, todo, held, socket, crashed>>
    BY <1>2, Zenon DEF WorkerReceive
  <2>2. state_ \in {"RUNNING", "STOPPING"}
    BY <2>1, WorkerActive
  <2>3. "send" \in WorkerPc /\ "send" \in Working /\ worker_pc[w] \in Working /\ held[w] # NULL
    BY <2>1 DEF WorkerPc, Working, IInv, Phases
  <2>4. QED
    BY <2>1, <2>2, <2>3, WorkerMovesOn, Zenon
<1>3. CASE WorkerSend(w)
  <2>1. /\ ~crashed /\ worker_pc[w] = "send" /\ worker_pc' = [worker_pc EXCEPT ![w] = "check"]
        /\ UNCHANGED <<state_, ready_connections_, draining_, blocked_connections_, select_pc,
                       temp, todo, held, socket, crashed>>
    BY <1>3, Zenon DEF WorkerSend
  <2>2. state_ \in {"RUNNING", "STOPPING"}
    BY <2>1, WorkerActive
  <2>3. "check" \in WorkerPc /\ "check" \in Working /\ worker_pc[w] \in Working
    BY <2>1 DEF WorkerPc, Working
  <2>4. QED
    BY <2>1, <2>2, <2>3, WorkerMovesOn, Zenon
<1>4. CASE WorkerCheck(w)
  <2>1. /\ ~crashed /\ worker_pc[w] = "check"
        /\ UNCHANGED <<state_, draining_, blocked_connections_, select_pc, temp, todo, socket>>
    BY <1>4, Zenon DEF WorkerCheck
  <2>2. state_ \in {"RUNNING", "STOPPING"} /\ worker_pc[w] \in Working
    BY <2>1, WorkerActive DEF Working
  <2>3. CASE /\ worker_pc' = [worker_pc EXCEPT ![w] = "insert"]
             /\ UNCHANGED <<held, ready_connections_, crashed>>
    <3>1. "insert" \in WorkerPc /\ "insert" \in Working
      BY DEF WorkerPc, Working
    <3>2. QED
      BY <2>1, <2>2, <2>3, <3>1, WorkerMovesOn, Zenon
  <2>4. CASE /\ AddConnectionToReadyConnections(held[w])
             /\ worker_pc' = [worker_pc EXCEPT ![w] = "pop"]
             /\ held' = [held EXCEPT ![w] = NULL]
    BY <2>1, <2>2, <2>4, WorkerHandsOver, Zenon
  <2>5. QED
    BY <1>4, <2>3, <2>4, Zenon DEF WorkerCheck
<1>5. CASE WorkerInsert(w)
  <2>1. /\ ~crashed /\ worker_pc[w] = "insert"
        /\ worker_pc' = [worker_pc EXCEPT ![w] = "signal"] /\ held' = [held EXCEPT ![w] = NULL]
        /\ InsertIntoBlockedConnections(held[w])
        /\ UNCHANGED <<state_, ready_connections_, draining_, select_pc, temp, todo, socket>>
    BY <1>5 DEF WorkerInsert
  <2>2. state_ \in {"RUNNING", "STOPPING"} /\ worker_pc[w] \in Working
    BY <2>1, WorkerActive DEF Working
  <2>3. QED
    BY <2>1, <2>2, WorkerHandsOver, Zenon
<1>6. CASE WorkerSignal(w)
  <2>1. /\ ~crashed /\ worker_pc[w] = "signal" /\ worker_pc' = [worker_pc EXCEPT ![w] = "pop"]
        /\ UNCHANGED <<state_, ready_connections_, draining_, blocked_connections_, select_pc,
                       temp, todo, held, socket, crashed>>
    BY <1>6 DEF WorkerSignal
  <2>2. state_ \in {"RUNNING", "STOPPING"}
    BY <2>1, WorkerActive
  <2>3. "pop" \in WorkerPc /\ "pop" \notin Working /\ worker_pc[w] \notin Working
    BY <2>1 DEF WorkerPc, Working
  <2>4. QED
    BY <2>1, <2>2, <2>3, WorkerMovesOn, Zenon
<1>7. QED
  BY <1>1, <1>2, <1>3, <1>4, <1>5, <1>6

LEMMA WorkerPopKeeps ==
  ASSUME IInv, NEW w \in Workers, WorkerPop(w)
  PROVE  IInv'
<1>1. /\ ~crashed /\ worker_pc[w] = "waiting"
      /\ UNCHANGED <<state_, draining_, blocked_connections_, select_pc, temp, todo, socket, crashed>>
  BY DEF WorkerPop, Running, selectVars, connVars
<1>2. state_ \in {"RUNNING", "STOPPING"} /\ worker_pc[w] \notin Working
  BY <1>1, WorkerActive DEF Working
<1>3. Types /\ SingleOwner /\ NothingForgotten /\ CrashOnlyInStop /\ Owners
      /\ Distinct(ready_connections_)
  BY OwnersLemma DEF IInv
<1>4. CASE /\ ready_connections_ = <<>>
           /\ worker_pc' = [worker_pc EXCEPT ![w] = "pop"]
           /\ UNCHANGED <<ready_connections_, held>>
  <2>1. "pop" \in WorkerPc /\ "pop" \notin Working
    BY DEF WorkerPc, Working
  <2>2. QED
    BY <1>1, <1>2, <1>4, <2>1, WorkerMovesOn, Zenon
<1>5. CASE /\ ready_connections_ # <<>>
           /\ ready_connections_' = Tail(ready_connections_)
           /\ held' = [held EXCEPT ![w] = Head(ready_connections_)]
           /\ worker_pc' = [worker_pc EXCEPT ![w] =
                              IF Head(ready_connections_) = NULL THEN "accept" ELSE "recv"]
  <2> DEFINE h == Head(ready_connections_)
             new == IF h = NULL THEN "accept" ELSE "recv"
  <2>1. ready_connections_ \in Seq(Entry)
    BY <1>3 DEF Types
  <2>2. /\ ready_connections_' \in Seq(Entry) /\ h \in Entry
        /\ Distinct(ready_connections_') /\ In(h, ready_connections_)
        /\ \A y : In(y, ready_connections_') <=> In(y, ready_connections_) /\ y # h
    BY <1>3, <1>5, <2>1, PopLemma
  <2>3. Queued(h) /\ \A y \in Entry : Queued(y)' <=> Queued(y) /\ y # h
    <3>1. \A y \in Entry : Queued(y) <=> In(y, ready_connections_)
      BY DEF Queued, In
    <3>2. \A y \in Entry : Queued(y)' <=> In(y, ready_connections_')
      BY DEF Queued, In
    <3>3. QED
      BY <2>2, <3>1, <3>2
  <2>4. new \in WorkerPc /\ new \in Working
    BY DEF WorkerPc, Working
  <2>5. worker_pc' = [worker_pc EXCEPT ![w] = new] /\ held' = [held EXCEPT ![w] = h]
    BY <1>5
  <2>6. (new = "accept" => h = NULL) /\ (new \in {"recv", "send"} => h # NULL)
    OBVIOUS
  <2> HIDE DEF h, new
  <2>7. /\ worker_pc' \in [Workers -> WorkerPc] /\ held' \in [Workers -> Entry]
        /\ \A v \in Workers \ {w}, x \in Entry : Holds(v, x)' <=> Holds(v, x)
        /\ \A x \in Entry : Holds(w, x)' <=> x = h
        /\ \A x \in Entry : Held(x)' <=> x = h \/ \E v \in Workers \ {w} : Holds(v, x)
    BY <1>3, <2>2, <2>4, <2>5, OneWorker, Zenon
  <2>8. \A x \in Entry : ~Holds(w, x)
    BY <1>2 DEF Holds, Working
  <2>9. \A x \in Entry : Held(x)' <=> x = h \/ Held(x)
    BY <2>7, <2>8 DEF Held
  <2>10. ~Held(h) /\ h \notin blocked_connections_ \cup temp /\ \A v \in Workers : ~Holds(v, h)
    BY <1>3, <2>2, <2>3 DEF Owners, Held
  <2>11. SingleOwner'
    BY <1>1, <1>3, <2>2, <2>3, <2>7, <2>9, <2>10, OwnersLemmaPrime DEF Owners
  <2>12. \A x \in Entry : Owned(x)' <=> Owned(x)
    BY <1>1, <2>3, <2>9 DEF Owned
  <2>13. NothingForgotten'
    BY <1>1, <1>2, <1>3, <2>12, ForgottenLemma, ForgottenLemmaPrime
  <2>14. Phases' /\ AtRest'
    BY <1>1, <1>2, <2>2, <2>4, <2>5, <2>6, WorkerFrame, Zenon
  <2>15. Types' /\ CrashOnlyInStop'
    BY <1>1, <1>3, <2>2, <2>7 DEF Types, CrashOnlyInStop
  <2>16. QED
    BY <2>11, <2>13, <2>14, <2>15 DEF IInv
<1>6. QED
  BY <1>4, <1>5 DEF WorkerPop

-----------------------------------------------------------------------------
(* New connections.                                                        *)

LEMMA NewConnection ==
  ASSUME IInv, NEW c \in Conn, ~crashed, state_ \in {"RUNNING", "STOPPING"},
         socket[c] # "open", socket' = [socket EXCEPT ![c] = "open"],
         AddConnectionToReadyConnections(c),
         \A v \in Workers, x \in Entry : Holds(v, x)' <=> Holds(v, x),
         UNCHANGED <<state_, draining_, blocked_connections_, temp, todo>>
  PROVE  SingleOwner' /\ NothingForgotten' /\ CrashOnlyInStop'
         /\ ready_connections_' \in Seq(Entry)
         /\ socket' \in [Conn -> {"none", "backlog", "open", "closed"}]
<1>1. Types /\ SingleOwner /\ NothingForgotten /\ CrashOnlyInStop /\ Owners
  BY OwnersLemma DEF IInv
<1>2. c \in Entry /\ c # NULL
  BY ServerAssumption DEF Entry
<1>3. \A x \in Entry : Owned(x) <=> x = NULL \/ socket[x] = "open"
  BY <1>1, ForgottenLemma
<1>4. c \notin blocked_connections_ \cup temp /\ ~Queued(c) /\ ~Held(c)
  BY <1>2, <1>3 DEF Owned
<1>5. \A x \in Entry : Held(x)' <=> Held(x)
  BY DEF Held
<1>6. /\ ready_connections_' \in Seq(Entry) /\ Distinct(ready_connections_')
      /\ \/ draining_ /\ crashed' /\ \A y \in Entry : Queued(y)' <=> Queued(y)
         \/ crashed' = crashed /\ \A y \in Entry : Queued(y)' <=> Queued(y) \/ y = c
  BY <1>1, <1>2, <1>4, Pushed
<1>7. SingleOwner'
  BY <1>1, <1>2, <1>4, <1>5, <1>6, OwnersLemmaPrime DEF Owners
<1>8. /\ socket' \in [Conn -> {"none", "backlog", "open", "closed"}]
      /\ socket'[c] = "open" /\ \A y \in Conn \ {c} : socket'[y] = socket[y]
  BY <1>1 DEF Types
<1>9. ~crashed' => \A x \in Entry : Owned(x)' <=> Owned(x) \/ x = c
  BY <1>5, <1>6 DEF Owned
<1>10. NothingForgotten'
  BY <1>2, <1>3, <1>8, <1>9, ForgottenLemmaPrime DEF Entry
<1>11. CrashOnlyInStop'
  BY <1>1, <1>6, Zenon DEF CrashOnlyInStop
<1>12. QED
  BY <1>6, <1>7, <1>8, <1>10, <1>11

LEMMA WorkerAcceptKeeps ==
  ASSUME IInv, NEW w \in Workers, WorkerAccept(w)
  PROVE  IInv'
<1>1. /\ ~crashed /\ worker_pc[w] = "accept"
      /\ UNCHANGED <<state_, draining_, blocked_connections_, select_pc, temp, todo, held>>
  BY DEF WorkerAccept, Running, selectVars
<1>2. /\ state_ \in {"RUNNING", "STOPPING"} /\ worker_pc[w] \in Working
      /\ "check" \in WorkerPc /\ "check" \in Working
      /\ "insert" \in WorkerPc /\ "insert" \in Working
  BY <1>1, WorkerActive DEF Working, WorkerPc
<1>3. CASE /\ worker_pc' = [worker_pc EXCEPT ![w] = "insert"]
           /\ UNCHANGED <<ready_connections_, socket, crashed>>
  BY <1>1, <1>2, <1>3, WorkerMovesOn, Zenon
<1>4. ASSUME NEW c \in Accepted, socket[c] = "backlog",
             socket' = [socket EXCEPT ![c] = "open"], AddConnectionToReadyConnections(c),
             worker_pc' = [worker_pc EXCEPT ![w] = "check"]
      PROVE  IInv'
  <2>1. c \in Conn /\ held[w] \in Entry /\ held' = [held EXCEPT ![w] = held[w]]
    BY <1>1 DEF Conn, IInv, Types
  <2>2. /\ worker_pc' \in [Workers -> WorkerPc]
        /\ \A v \in Workers \ {w}, x \in Entry : Holds(v, x)' <=> Holds(v, x)
        /\ \A x \in Entry : Holds(w, x)' <=> x = held[w]
    BY <1>2, <1>4, <2>1, OneWorker, Zenon DEF IInv
  <2>3. \A x \in Entry : Holds(w, x) <=> x = held[w]
    BY <1>2 DEF Holds, Working
  <2>4. \A v \in Workers, x \in Entry : Holds(v, x)' <=> Holds(v, x)
    BY <2>2, <2>3
  <2>5. SingleOwner' /\ NothingForgotten' /\ CrashOnlyInStop'
        /\ ready_connections_' \in Seq(Entry)
        /\ socket' \in [Conn -> {"none", "backlog", "open", "closed"}]
    BY <1>1, <1>2, <1>4, <2>1, <2>4, NewConnection, Zenon
  <2>6. Phases' /\ AtRest'
    BY <1>1, <1>2, <1>4, <2>1, WorkerFrame, Zenon
  <2>7. Types'
    BY <1>1, <2>2, <2>5 DEF IInv, Types
  <2>8. QED
    BY <2>5, <2>6, <2>7 DEF IInv
<1>5. QED
  BY <1>3, <1>4 DEF WorkerAccept

(* AcceptConnection ends the process: the thread no longer counts as an    *)
(* owner of the listening socket, and nothing else moves.                  *)
LEMMA WorkerAcceptFailsKeeps ==
  ASSUME IInv, NEW w \in Workers, WorkerAcceptFails(w)
  PROVE  IInv'
<1>1. /\ ~crashed /\ crashed' /\ worker_pc[w] = "accept"
      /\ worker_pc' = [worker_pc EXCEPT ![w] = "failed"]
      /\ UNCHANGED <<state_, ready_connections_, draining_, blocked_connections_, select_pc,
                     temp, todo, held, socket>>
  BY DEF WorkerAcceptFails, Running, serverVars, selectVars, connVars
<1>2. /\ worker_pc' \in [Workers -> WorkerPc] /\ worker_pc'[w] = "failed"
      /\ \A v \in Workers \ {w} : worker_pc'[v] = worker_pc[v]
  BY <1>1 DEF IInv, Types, WorkerPc
<1>3. /\ \A v \in Workers, x \in Entry : Holds(v, x)' => Holds(v, x)
      /\ \A x \in Entry : (Held(x)' => Held(x)) /\ (Queued(x)' <=> Queued(x))
  BY <1>1, <1>2, SameQueue DEF Holds, Held
<1>4. SingleOwner'
  BY <1>1, <1>3, OwnersLemma, OwnersLemmaPrime DEF IInv, Owners
<1>5. NothingForgotten' /\ CrashOnlyInStop'
  BY <1>1, <1>2 DEF NothingForgotten, CrashOnlyInStop
<1>6. state_ \in {"RUNNING", "STOPPING"}
  BY <1>1, WorkerActive
<1>7. Types' /\ Phases' /\ AtRest'
  BY <1>1, <1>2, <1>6 DEF IInv, Types, Phases, AtRest
<1>8. QED
  BY <1>4, <1>5, <1>7 DEF IInv

LEMMA OpenConnectionKeeps ==
  ASSUME IInv, NEW s \in Senders, NEW c \in Conn, NEW addresses \in AddressLists,
         OpenConnection(s, c, addresses)
  PROVE  IInv'
<1>1. /\ ~crashed /\ state_ = "RUNNING" /\ socket[c] = "none"
      /\ UNCHANGED <<state_, draining_, blocked_connections_, select_pc, temp, todo, worker_pc, held>>
  BY DEF OpenConnection, Running, selectVars, workerVars
<1>2. CASE UNCHANGED <<ready_connections_, socket, crashed>>
  BY <1>1, <1>2, Untouched DEF ownerVars
<1>3. CASE socket' = [socket EXCEPT ![c] = "open"] /\ AddConnectionToReadyConnections(c)
  <2>1. SingleOwner' /\ NothingForgotten' /\ CrashOnlyInStop'
        /\ ready_connections_' \in Seq(Entry)
        /\ socket' \in [Conn -> {"none", "backlog", "open", "closed"}]
    BY <1>1, <1>3, SameHeld, NewConnection, Zenon
  <2>2. Types' /\ Phases' /\ AtRest'
    BY <1>1, <2>1 DEF IInv, Types, Phases, AtRest
  <2>3. QED
    BY <2>1, <2>2 DEF IInv
<1>4. QED
  BY <1>2, <1>3 DEF OpenConnection

LEMMA ConnectKeeps ==
  ASSUME IInv, NEW c \in Conn, Connect(c)
  PROVE  IInv'
<1>1. /\ ~crashed /\ state_ \in {"RUNNING", "STOPPING"} /\ socket[c] = "none"
      /\ socket' = [socket EXCEPT ![c] = "backlog"]
      /\ UNCHANGED <<state_, ready_connections_, draining_, blocked_connections_, select_pc,
                     temp, todo, worker_pc, held, crashed>>
  BY Zenon DEF Connect, Running, serverVars, selectVars, workerVars
<1>2. /\ \A v \in Workers, x \in Entry : Holds(v, x)' <=> Holds(v, x)
      /\ \A x \in Entry : (Held(x)' <=> Held(x)) /\ (Queued(x)' <=> Queued(x))
  BY <1>1, SameHeld, SameQueue
<1>3. SingleOwner'
  BY <1>1, <1>2, OwnersLemma, OwnersLemmaPrime DEF IInv, Owners
<1>4. /\ socket' \in [Conn -> {"none", "backlog", "open", "closed"}]
      /\ \A x \in Conn : socket'[x] = "open" <=> socket[x] = "open"
  BY <1>1 DEF IInv, Types
<1>5. \A x \in Entry : Owned(x)' <=> Owned(x)
  BY <1>1, <1>2 DEF Owned
<1>6. NothingForgotten'
  BY <1>1, <1>4, <1>5, ForgottenLemma, ForgottenLemmaPrime DEF IInv, Entry
<1>7. Types' /\ Phases' /\ AtRest' /\ CrashOnlyInStop'
  BY <1>1, <1>4 DEF IInv, Types, Phases, AtRest, CrashOnlyInStop
<1>8. QED
  BY <1>3, <1>6, <1>7 DEF IInv

-----------------------------------------------------------------------------
LEMMA IInvNext == IInv /\ [Next]_vars => IInv'
<1> SUFFICES ASSUME IInv, [Next]_vars PROVE IInv'
  OBVIOUS
<1>1. CASE UNCHANGED vars
  BY <1>1, Untouched DEF vars, ownerVars, serverVars, selectVars, workerVars, connVars
<1>2. ASSUME NEW addresses \in AddressLists, Start(addresses) PROVE IInv'
  BY <1>2, StartKeeps
<1>3. CASE Stop \/ StopDrain \/ StopSignal
  BY <1>3, StopKeeps
<1>4. CASE StopClose
  BY <1>4, StopCloseKeeps
<1>5. CASE SelectStep
  <2>1. SelectOutput \/ state_ # "NOT_STARTED"
    BY <1>5, Zenon DEF SelectStep, SelectLoop, SelectClear, SelectSwap, Select, SelectScan,
                SelectDistribute, IInv, AtRest
  <2>2. QED
    BY <1>5, <2>1, SelectOutputKeeps, SelectTurnKeeps, SelectSwapKeeps, SelectScanKeeps, SelectDistributeKeeps
    DEF SelectStep
<1>6. ASSUME NEW w \in Workers, WorkerStep(w) PROVE IInv'
  BY <1>6, WorkerSimpleKeeps, WorkerPopKeeps, WorkerAcceptKeeps, WorkerAcceptFailsKeeps
  DEF WorkerStep
<1>7. ASSUME NEW s \in Senders, NotifyConnectionsChanged(s) PROVE IInv'
  BY <1>7, Untouched DEF NotifyConnectionsChanged, ownerVars, selectVars, workerVars, connVars
<1>8. ASSUME NEW s \in Senders, NEW c \in Conn, QueueMessage(s, c) PROVE IInv'
  BY <1>8, Untouched, Zenon DEF QueueMessage, ownerVars, serverVars, selectVars, workerVars
<1>9. ASSUME NEW s \in Senders, NEW c \in Conn, NEW addresses \in AddressLists,
             OpenConnection(s, c, addresses)
      PROVE  IInv'
  BY <1>9, OpenConnectionKeeps
<1>10. ASSUME NEW c \in Conn, FarStep(c) PROVE IInv'
  <2>1. CASE Connect(c)
    BY <2>1, ConnectKeeps
  <2>2. CASE FarWrite(c) \/ FarRead(c) \/ FarClose(c) \/ Reset(c)
    BY <2>2, Untouched, Zenon
    DEF FarWrite, FarRead, FarClose, Reset, ownerVars, serverVars, selectVars, workerVars, connVars
  <2>3. QED
    BY <1>10, <2>1, <2>2 DEF FarStep
<1>11. QED
  BY <1>1, <1>2, <1>3, <1>4, <1>5, <1>6, <1>7, <1>8, <1>9, <1>10 DEF Next

(* For any number of send/receive threads and connections, every entry has *)
(* at most one owner: no two threads call SendAndReceive or CloseSocket on *)
(* one ProtocolConnectionImpl.                                             *)
THEOREM OneOwner == Spec => []SingleOwner
<1>1. IInv => SingleOwner
  BY DEF IInv
<1>2. QED
  BY <1>1, IInvInit, IInvNext, PTL DEF Spec

(* For any number of threads, the select thread and the send/receive       *)
(* threads drop no connection that is open, and keep none that is closed.  *)
THEOREM EntriesKept == Spec => []NothingForgotten
<1>1. IInv => NothingForgotten
  BY DEF IInv
<1>2. QED
  BY <1>1, IInvInit, IInvNext, PTL DEF Spec

(* The CHECKs on the ready queue and on the blocked set cannot fail until  *)
(* Stop drains the queue: until then only a failed system call in          *)
(* AcceptConnection, or Start without an address, ends the process.        *)
THEOREM ServingChecks == Spec => []CrashOnlyInStop
<1>1. IInv => CrashOnlyInStop
  BY DEF IInv
<1>2. QED
  BY <1>1, IInvInit, IInvNext, PTL DEF Spec
================================================================================
