----------------------------- MODULE NodeProofs -----------------------------
(***************************************************************************)
(* For any number of instances, peers, rounds and places in the channels:  *)
(* main of a node reports a completed shutdown only when every task of the *)
(* node has ended; the channels stay within their capacities; and no       *)
(* instance is started twice.                                              *)
(***************************************************************************)
EXTENDS Node, SequenceTheorems, TLAPS

States ==
  {"init", "select", "send", "ask", "wait", "answered", "deliver", "ok", "err", "panic"}

\* Who waits for the key manager: at most one command of the instance manager is queued, only
\* while that one waits; and none when the key manager has ended.
KeyQueue ==
  /\ keycmds \in Seq(KeyCommand)
  /\ \A j \in DOMAIN keycmds : keycmds[j] = "manager" => task["manager"] = "wait"
  /\ \A j, k \in DOMAIN keycmds : keycmds[j] = "manager" /\ keycmds[k] = "manager" => j = k
  /\ Ended("keys") => keycmds = << >>

\* What main knows: a task without a handle has ended, a task whose handle is polled to its end
\* in the list has panicked.
Handles ==
  /\ main \in {"monitor", "join", "done", "panic"}
  /\ handles \in Seq(Tasks)
  /\ \A t \in Tasks : Ended(t) \/ \E j \in DOMAIN handles : handles[j] = t
  /\ joined \subseteq Tasks
  /\ \A t \in joined : task[t] = "panic"

TasksOK ==
  /\ task \in [Tasks -> States]
  /\ woken \subseteq {t \in Tasks : task[t] = "select"}

\* The inductive invariant.
JoinInv == TasksOK /\ KeyQueue /\ Handles /\ JoinedAll

\* A step of the task t that is not the answer it waits for.
Moves(t) ==
  /\ t \in Tasks
  /\ task[t] \notin {"ok", "err", "panic"}
  /\ \E pc \in States : task' = [task EXCEPT ![t] = pc]
  /\ woken' \subseteq woken
  /\ t \notin woken'

\* The initial states satisfy the invariant: every task has its handle.
LEMMA JoinInit == Init => JoinInv
<1> SUFFICES ASSUME Init PROVE JoinInv
  OBVIOUS
<1>1. TasksOK
  BY DEF Init, TasksOK, Tasks, States
<1>2. KeyQueue
  BY DEF Init, KeyQueue, KeyCommand, Ended, Tasks
<1>3. Handles
  <2>1. handles = <<"network", "keys", "emitter", "manager", "rpc">> /\ handles \in Seq(Tasks)
    BY DEF Init, Tasks
  <2>2. \A t \in Tasks : \E j \in DOMAIN handles : handles[j] = t
    <3>1. DOMAIN handles = 1..5
      BY <2>1
    <3>2. handles[1] = "network" /\ handles[2] = "keys" /\ handles[3] = "emitter" /\ handles[4] = "manager" /\ handles[5] = "rpc"
      BY <2>1
    <3> QED
      BY <3>1, <3>2 DEF Tasks
  <2> QED
    BY <2>1, <2>2 DEF Init, Handles
<1>4. JoinedAll
  BY DEF Init, JoinedAll
<1> QED
  BY <1>1, <1>2, <1>3, <1>4 DEF JoinInv

\* A task that has ended stays ended, and panicked if it panicked, when a task moves.
LEMMA MovesKeep ==
  ASSUME TasksOK, NEW t \in Tasks, Moves(t)
  PROVE  /\ TasksOK'
         /\ \A u \in Tasks : Ended(u) => task'[u] = task[u]
<1>1. PICK pc \in States : task' = [task EXCEPT ![t] = pc]
  BY Zenon DEF Moves
<1>2. \A u \in Tasks \ {t} : task'[u] = task[u]
  BY <1>1 DEF TasksOK
<1>3. ~Ended(t)
  BY DEF Moves, Ended
<1>4. task' \in [Tasks -> States]
  BY <1>1 DEF TasksOK
<1>5. woken' \subseteq {u \in Tasks : task'[u] = "select"}
  BY <1>2 DEF Moves, TasksOK
<1> QED
  BY <1>2, <1>3, <1>4, <1>5 DEF TasksOK

\* What main knows stays true as long as it does nothing and the tasks that ended stay as they are.
LEMMA HandlesKept ==
  ASSUME TasksOK, Handles, JoinedAll, UNCHANGED server,
         \A u \in Tasks : Ended(u) => task'[u] = task[u]
  PROVE  Handles' /\ JoinedAll'
<1>1. main' = main /\ handles' = handles /\ joined' = joined
  BY DEF server
<1>2. \A u \in Tasks : Ended(u) => Ended(u)'
  BY DEF Ended
<1>3. \A u \in Tasks : task[u] = "panic" => task'[u] = "panic"
  BY DEF Ended
<1>4. Handles'
  BY <1>1, <1>2, <1>3 DEF Handles
<1>5. JoinedAll'
  BY <1>1, <1>2, <1>3 DEF JoinedAll
<1> QED
  BY <1>4, <1>5

\* A task that moves keeps the invariant if the queue of the key manager is in order afterwards.
LEMMA MovesInv ==
  ASSUME JoinInv, NEW t \in Tasks, Moves(t), UNCHANGED server, KeyQueue'
  PROVE  JoinInv'
<1>1. TasksOK /\ Handles /\ JoinedAll
  BY DEF JoinInv
<1>2. TasksOK' /\ \A u \in Tasks : Ended(u) => task'[u] = task[u]
  BY <1>1, MovesKeep
<1>3. Handles' /\ JoinedAll'
  BY <1>1, <1>2, HandlesKept
<1> QED
  BY <1>2, <1>3 DEF JoinInv

\* The queue stays in order when another task than the two it concerns moves.
LEMMA QueueKept ==
  ASSUME TasksOK, KeyQueue, NEW t \in Tasks, Moves(t), UNCHANGED keycmds,
         t = "keys" => keycmds = << >> \/ \E pc \in States \ {"ok", "err", "panic"} : task' = [task EXCEPT ![t] = pc],
         t = "manager" => task["manager"] # "wait" \/ keycmds = << >>
  PROVE  KeyQueue'
<1>1. PICK pc \in States : task' = [task EXCEPT ![t] = pc]
  BY Zenon DEF Moves
<1>2. \A u \in Tasks \ {t} : task'[u] = task[u]
  BY <1>1 DEF TasksOK
<1>3. "keys" \in Tasks /\ "manager" \in Tasks
  BY DEF Tasks
<1>4. Ended("keys")' => keycmds' = << >>
  <2>1. CASE t # "keys"
    BY <2>1, <1>2, <1>3 DEF Ended, KeyQueue
  <2>2. CASE t = "keys" /\ keycmds = << >>
    BY <2>2
  <2>3. CASE t = "keys" /\ \E q \in States \ {"ok", "err", "panic"} : task' = [task EXCEPT ![t] = q]
    BY <2>3, <1>3 DEF Ended, TasksOK
  <2> QED
    BY <2>1, <2>2, <2>3
<1>5. \A j \in DOMAIN keycmds' : keycmds'[j] = "manager" => task'["manager"] = "wait"
  <2>1. CASE t # "manager"
    BY <2>1, <1>2, <1>3 DEF KeyQueue
  <2>2. CASE t = "manager"
    BY <2>2 DEF KeyQueue
  <2> QED
    BY <2>1, <2>2
<1> QED
  BY <1>4, <1>5 DEF KeyQueue

\* What is left of a sequence without its i-th element: all the others.
LEMMA WithoutKeeps ==
  ASSUME NEW S, NEW s \in Seq(S), NEW i \in 1..Len(s)
  PROVE  /\ Without(s, i) \in Seq(S)
         /\ \A j \in 1..Len(s) : j # i => \E k \in DOMAIN Without(s, i) : Without(s, i)[k] = s[j]
<1> DEFINE a == SubSeq(s, 1, i - 1)
           b == SubSeq(s, i + 1, Len(s))
<1>1. Len(s) \in Nat /\ i \in Nat /\ i >= 1 /\ i <= Len(s)
  OBVIOUS
<1>2. a \in Seq(S) /\ Len(a) = i - 1 /\ \A j \in 1..(i - 1) : a[j] = s[j]
  BY <1>1
<1>3. b \in Seq(S) /\ Len(b) = Len(s) - i /\ \A j \in 1..(Len(s) - i) : b[j] = s[i + j]
  BY <1>1
<1>4. Without(s, i) = a \o b
  BY DEF Without
<1> HIDE DEF a, b
<1>5. /\ a \o b \in Seq(S) /\ DOMAIN (a \o b) = 1..(Len(s) - 1)
      /\ \A k \in 1..(Len(s) - 1) : (a \o b)[k] = IF k < i THEN a[k] ELSE b[k - (i - 1)]
  <2>1. /\ a \o b \in Seq(S) /\ Len(a \o b) = Len(a) + Len(b)
        /\ \A k \in 1..(Len(a) + Len(b)) : (a \o b)[k] = IF k <= Len(a) THEN a[k] ELSE b[k - Len(a)]
    BY <1>2, <1>3, ConcatProperties, ZenonT(30)
  <2>2. Len(a) + Len(b) = Len(s) - 1 /\ \A k \in 1..(Len(s) - 1) : k <= i - 1 <=> k < i
    BY <1>1, <1>2, <1>3
  <2>3. DOMAIN (a \o b) = 1..(Len(s) - 1)
    BY <2>1, <2>2, LenProperties
  <2>4. ASSUME NEW k \in 1..(Len(s) - 1) PROVE (a \o b)[k] = IF k < i THEN a[k] ELSE b[k - (i - 1)]
    BY <2>1, <2>2, <2>4, <1>2, Zenon
  <2> QED
    BY <2>1, <2>3, <2>4, Zenon
<1>6. ASSUME NEW j \in 1..Len(s), j # i PROVE \E k \in DOMAIN (a \o b) : (a \o b)[k] = s[j]
  <2>1. CASE j < i
    <3>1. j \in 1..(Len(s) - 1) /\ j \in 1..(i - 1)
      BY <2>1, <1>1
    <3>2. (a \o b)[j] = a[j] /\ a[j] = s[j] /\ j \in DOMAIN (a \o b)
      BY <2>1, <3>1, <1>2, <1>5
    <3> QED
      BY <3>2, Zenon
  <2>2. CASE j > i
    <3>1. j - 1 \in 1..(Len(s) - 1) /\ j - i \in 1..(Len(s) - i) /\ ~(j - 1 < i) /\ (j - 1) - (i - 1) = j - i /\ i + (j - i) = j
      BY <2>2, <1>1
    <3>2. (a \o b)[j - 1] = b[(j - 1) - (i - 1)] /\ j - 1 \in DOMAIN (a \o b)
      BY <3>1, <1>5, Zenon
    <3>3. b[j - i] = s[i + (j - i)]
      BY <3>1, <1>3, Zenon
    <3> QED
      BY <3>1, <3>2, <3>3, Zenon
  <2>3. j < i \/ j > i
    BY <1>6, <1>1
  <2> QED
    BY <2>1, <2>2, <2>3, Zenon
<1> QED
  BY <1>4, <1>5, <1>6, Zenon

\* Steps of executors and forwarding tasks, which touch nothing of this.
LEMMA ExecutorInv ==
  ASSUME JoinInv, UNCHANGED <<server, task, woken, keycmds>>
  PROVE  JoinInv'
<1>1. main' = main /\ handles' = handles /\ joined' = joined /\ task' = task /\ woken' = woken /\ keycmds' = keycmds
  BY DEF server
<1> QED
  BY <1>1, Zenon DEF JoinInv, TasksOK, KeyQueue, Handles, JoinedAll, Ended

\* A call of a client can only append a command that nobody but the client waits for.
LEMMA ClientInv ==
  ASSUME JoinInv, Client
  PROVE  JoinInv'
<1>1. UNCHANGED server /\ task' = task /\ woken' = woken
  BY DEF Client
<1>2. keycmds' = keycmds \/ (~Ended("keys") /\ keycmds' = Append(keycmds, "client"))
  BY Zenon DEF Client, ClientRequests, ClientAsksStatus, ClientListsKeys
<1>3. CASE keycmds' = keycmds
  BY <1>1, <1>3, ExecutorInv
<1>4. CASE ~Ended("keys") /\ keycmds' = Append(keycmds, "client")
  <2>1. KeyQueue
    BY DEF JoinInv
  <2>2. keycmds' \in Seq(KeyCommand) /\ DOMAIN keycmds' = 1..(Len(keycmds) + 1)
    BY <1>4, <2>1 DEF KeyQueue, KeyCommand
  <2>3. \A j \in DOMAIN keycmds' : keycmds'[j] = "manager" => j \in DOMAIN keycmds /\ keycmds[j] = "manager"
    BY <1>4, <2>1, <2>2 DEF KeyQueue
  <2>4. KeyQueue'
    BY <1>1, <1>4, <2>1, <2>2, <2>3 DEF KeyQueue, Ended
  <2>5. TasksOK' /\ Handles' /\ JoinedAll'
    BY <1>1, Zenon DEF JoinInv, TasksOK, Handles, JoinedAll, Ended, server
  <2> QED
    BY <2>4, <2>5 DEF JoinInv
<1> QED
  BY <1>2, <1>3, <1>4

\* main: the handle that is removed is that of a task which has returned.
LEMMA MainInv ==
  ASSUME JoinInv, Main \/ Operator
  PROVE  JoinInv'
<1> USE DEF JoinInv
<1>1. task' = task /\ keycmds' = keycmds
  BY DEF Main, Operator, notMain
<1>2. KeyQueue'
  BY <1>1, Zenon DEF KeyQueue, Ended
<1>3. ASSUME Notify PROVE TasksOK'
  BY <1>1, <1>3 DEF Notify, TasksOK
<1>4. CASE Operator
  <2>1. main' = "join" /\ handles' = handles /\ joined' = joined /\ Notify
    BY <1>4 DEF Operator, CtrlC
  <2>2. Handles' /\ JoinedAll'
    BY <1>1, <2>1 DEF Handles, JoinedAll, Ended
  <2> QED
    BY <1>2, <1>3, <2>1, <2>2
<1>5. ASSUME NEW i \in DOMAIN handles, TaskFailure(i) PROVE JoinInv'
  <2>1. main' = "join" /\ Notify /\ Ended(handles[i])
    BY <1>5 DEF TaskFailure
  <2>2. TasksOK'
    BY <1>3, <2>1
  <2>3. JoinedAll'
    BY <2>1 DEF JoinedAll
  <2>4. CASE task[handles[i]] = "panic"
    <3>1. handles' = handles /\ joined' = joined \cup {handles[i]}
      BY <2>4, <1>5 DEF TaskFailure
    <3>2. handles[i] \in Tasks
      BY DEF Handles
    <3>3. Handles'
      BY <1>1, <2>1, <2>4, <3>1, <3>2 DEF Handles, Ended
    <3> QED
      BY <1>2, <2>2, <2>3, <3>3
  <2>5. CASE task[handles[i]] # "panic"
    <3>1. handles' = Without(handles, i) /\ joined' = joined
      BY <2>5, <1>5 DEF TaskFailure
    <3>2. handles \in Seq(Tasks) /\ i \in 1..Len(handles) /\ Len(handles) \in Nat
      BY DEF Handles
    <3>3. /\ handles' \in Seq(Tasks)
          /\ \A j \in 1..Len(handles) : j # i => \E k \in DOMAIN handles' : handles'[k] = handles[j]
      BY <3>1, <3>2, WithoutKeeps
    <3>4. \A t \in Tasks : Ended(t)' \/ \E k \in DOMAIN handles' : handles'[k] = t
      <4> SUFFICES ASSUME NEW t \in Tasks, ~Ended(t)' PROVE \E k \in DOMAIN handles' : handles'[k] = t
        OBVIOUS
      <4>1. ~Ended(t)
        BY <1>1 DEF Ended
      <4>2. PICK j \in DOMAIN handles : handles[j] = t
        BY <4>1 DEF Handles
      <4>3. j # i /\ j \in 1..Len(handles)
        BY <4>1, <4>2, <2>1, <3>2
      <4> QED
        BY <4>2, <4>3, <3>3
    <3>5. Handles'
      BY <1>1, <2>1, <3>1, <3>3, <3>4 DEF Handles
    <3> QED
      BY <1>2, <2>2, <2>3, <3>5
  <2> QED
    BY <2>4, <2>5
<1>6. ASSUME NEW k \in 1..(Len(handles) + 1), Join(k) PROVE JoinInv'
  <2>1. handles' = handles /\ joined' = joined /\ woken' = woken
    BY <1>6 DEF Join
  <2>2. TasksOK'
    BY <1>1, <2>1 DEF TasksOK
  <2>3. main' \in {"done", "panic"}
    BY <1>6 DEF Join
  <2>4. Handles'
    BY <1>1, <2>1, <2>3, Zenon DEF Handles, Ended
  <2>5. JoinedAll'
    <3>1. CASE k > Len(handles)
      <4>1. main' = "done" /\ \A j \in 1..Len(handles) : Ended(handles[j])
        BY <1>6, <3>1 DEF Join, Handles
      <4>2. \A t \in Tasks : Ended(t)
        BY <4>1 DEF Handles
      <4> QED
        BY <4>1, <4>2, <1>1 DEF JoinedAll, Ended
    <3>2. CASE ~(k > Len(handles))
      <4>1. main' = "panic" /\ handles[k] \in joined
        BY <1>6, <3>2 DEF Join
      <4>2. task[handles[k]] = "panic" /\ handles[k] \in Tasks
        BY <4>1 DEF Handles
      <4> QED
        BY <4>1, <4>2, <1>1 DEF JoinedAll
    <3> QED
      BY <3>1, <3>2
  <2> QED
    BY <1>2, <2>2, <2>4, <2>5
<1> QED
  BY <1>4, <1>5, <1>6 DEF Main

\* The network manager and the emitter.
LEMMA NetworkInv ==
  ASSUME JoinInv, Network \/ EmitterStep
  PROVE  JoinInv'
<1>1. UNCHANGED server /\ keycmds' = keycmds
  BY Zenon DEF Network, EmitterStep, EmitterWrites, notHelper
<1>2. TasksOK /\ KeyQueue
  BY Zenon DEF JoinInv
<1>3. CASE Network
  <2>1. Moves("network")
    <3>1. \/ Goto("network", "init", "select")
          \/ Select("network", "send")
          \/ Select("network", "select")
          \/ Goto("network", "send", "select")
      BY <1>3, Zenon DEF Network, NetworkInit, NetworkOutgoing, NetworkGossip, NetworkSkips, NetworkSends
    <3> QED
      BY <3>1, <1>2 DEF Goto, Select, Moves, TasksOK, States, Tasks
  <2>2. KeyQueue'
    BY <1>1, <1>2, <2>1, QueueKept DEF Tasks
  <2> QED
    BY <1>1, <2>1, <2>2, MovesInv DEF Tasks
<1>4. CASE EmitterStep
  <2>1. Moves("emitter")
    BY <1>4, <1>2 DEF EmitterStep, EmitterWrites, Select, Moves, TasksOK, States, Tasks
  <2>2. KeyQueue'
    BY <1>1, <1>2, <2>1, QueueKept DEF Tasks
  <2> QED
    BY <1>1, <2>1, <2>2, MovesInv DEF Tasks
<1> QED
  BY <1>3, <1>4

\* An answer of the key manager: the instance manager that gets it was waiting for it.
LEMMA KeysInv ==
  ASSUME JoinInv, KeysStep
  PROVE  JoinInv'
<1>1. UNCHANGED server /\ keycmds # << >> /\ task["keys"] = "select" /\ woken' = woken \ {"keys"} /\ keycmds' = Tail(keycmds)
  BY Zenon DEF KeysStep, KeysAnswer, notHelper
<1>2. task' = IF Head(keycmds) = "manager" THEN [task EXCEPT !["manager"] = "answered"] ELSE task
  BY Zenon DEF KeysStep, KeysAnswer
<1>3. TasksOK /\ KeyQueue /\ Handles /\ JoinedAll
  BY Zenon DEF JoinInv
<1>4. /\ keycmds' \in Seq(KeyCommand)
      /\ \A j \in DOMAIN keycmds' : j + 1 \in DOMAIN keycmds /\ keycmds'[j] = keycmds[j + 1]
      /\ \A j \in DOMAIN keycmds' : j \in Nat /\ j >= 1
      /\ 1 \in DOMAIN keycmds /\ Head(keycmds) = keycmds[1]
  BY <1>1, <1>3 DEF KeyQueue
<1>5. \A j, k \in DOMAIN keycmds' : keycmds'[j] = "manager" /\ keycmds'[k] = "manager" => j = k
  BY <1>3, <1>4 DEF KeyQueue
<1>6. CASE Head(keycmds) = "manager"
  <2>1. task["manager"] = "wait" /\ task' = [task EXCEPT !["manager"] = "answered"]
    BY <1>2, <1>3, <1>4, <1>6 DEF KeyQueue
  <2>2. Moves("manager")
    BY <2>1, <1>1, <1>3 DEF Moves, TasksOK, States, Tasks
  <2>3. \A j \in DOMAIN keycmds' : keycmds'[j] # "manager"
    BY <1>3, <1>4, <1>6 DEF KeyQueue
  <2>4. task'["keys"] = "select"
    BY <2>1, <1>1, <1>3 DEF TasksOK, Tasks
  <2>5. KeyQueue'
    BY <1>4, <1>5, <2>3, <2>4 DEF KeyQueue, Ended
  <2> QED
    BY <1>1, <2>2, <2>5, MovesInv DEF Tasks
<1>7. CASE Head(keycmds) # "manager"
  <2>1. task' = task
    BY <1>2, <1>7
  <2>2. KeyQueue'
    BY <1>1, <1>3, <1>4, <1>5, <2>1 DEF KeyQueue, Ended
  <2>3. TasksOK'
    BY <1>1, <1>3, <2>1 DEF TasksOK
  <2>4. Handles' /\ JoinedAll'
    BY <1>1, <1>3, <2>1, HandlesKept
  <2> QED
    BY <2>2, <2>3, <2>4 DEF JoinInv
<1> QED
  BY <1>6, <1>7

\* The instance manager: it waits for the key manager with one command queued, and stops waiting
\* without an answer only when the key manager, and its queue, are gone.
LEMMA ManagerInv ==
  ASSUME JoinInv, Manager
  PROVE  JoinInv'
<1>1. UNCHANGED server
  BY Zenon DEF Manager
<1>2. TasksOK /\ KeyQueue
  BY Zenon DEF JoinInv
<1>3. "manager" \in Tasks /\ "keys" \in Tasks
  BY DEF Tasks
<1>4. CASE ManagerAsks /\ ~Ended("keys")
  <2>1. Goto("manager", "ask", "wait") /\ keycmds' = Append(keycmds, "manager")
    BY <1>4, Zenon DEF ManagerAsks
  <2>2. Moves("manager") /\ task'["manager"] = "wait" /\ task'["keys"] = task["keys"]
    BY <2>1, <1>2, <1>3 DEF Goto, Moves, TasksOK, States
  <2>3. /\ keycmds' \in Seq(KeyCommand) /\ DOMAIN keycmds' = 1..(Len(keycmds) + 1)
        /\ \A j \in DOMAIN keycmds' : j # Len(keycmds) + 1 => j \in DOMAIN keycmds /\ keycmds'[j] = keycmds[j]
    BY <2>1, <1>2 DEF KeyQueue, KeyCommand
  <2>4. \A j \in DOMAIN keycmds : keycmds[j] # "manager"
    BY <2>1, <1>2 DEF KeyQueue, Goto
  <2>5. \A j \in DOMAIN keycmds' : keycmds'[j] = "manager" => j = Len(keycmds) + 1
    BY <2>3, <2>4
  <2>6. KeyQueue'
    BY <2>2, <2>3, <2>5, <1>4 DEF KeyQueue, Ended
  <2> QED
    BY <1>1, <1>3, <2>2, <2>6, MovesInv
<1>5. CASE ~(ManagerAsks /\ ~Ended("keys"))
  <2>1. keycmds' = keycmds
    BY <1>5, Zenon DEF Manager, ManagerCreate, ManagerAsks, ManagerGetsNoAnswer, ManagerStarts, ManagerStores,
         ManagerStatus, ManagerIncoming, ManagerDelivers, ManagerTick
  <2>2. \/ \E pc \in {"select", "ask", "deliver"} : Select("manager", pc)
        \/ \E from \in {"ask", "answered", "deliver"} : Goto("manager", from, "select")
        \/ Ended("keys") /\ Goto("manager", "wait", "select")
    BY <1>5, Zenon DEF Manager, ManagerCreate, ManagerAsks, ManagerGetsNoAnswer, ManagerStarts, ManagerStores,
         ManagerStatus, ManagerIncoming, ManagerDelivers, ManagerTick
  <2>3. Moves("manager") /\ (task["manager"] # "wait" \/ Ended("keys"))
    BY <2>2, <1>2, <1>3 DEF Goto, Select, Moves, TasksOK, States
  <2>4. KeyQueue'
    BY <2>1, <2>3, <1>2, <1>3, QueueKept DEF KeyQueue
  <2> QED
    BY <1>1, <1>3, <2>3, <2>4, MovesInv
<1> QED
  BY <1>4, <1>5

\* A task that ends; with the key manager goes its queue.
LEMMA EndsInv ==
  ASSUME JoinInv, NEW t \in Tasks, NEW pc \in {"ok", "err", "panic"}, Ends(t, pc)
  PROVE  JoinInv'
<1>1. UNCHANGED server /\ task' = [task EXCEPT ![t] = pc] /\ woken' = woken \ {t} /\ Returns(t, pc)
  BY Zenon DEF Ends
<1>2. keycmds' = IF t = "keys" THEN << >> ELSE keycmds
  BY Zenon DEF Ends
<1>3. TasksOK /\ KeyQueue
  BY Zenon DEF JoinInv
<1>4. task[t] \in {"select", "init"}
  BY <1>1, <1>3 DEF Returns, NetworkReturns, KeysReturns, EmitterReturns, ManagerReturns, RpcReturns, TasksOK
<1>5. Moves(t)
  BY <1>1, <1>3, <1>4, ZenonT(30) DEF Moves, TasksOK, States
<1>6. KeyQueue'
  <2>1. CASE t = "keys"
    BY <2>1, <1>2 DEF KeyQueue
  <2>2. CASE t # "keys"
    <3>1. keycmds' = keycmds /\ (t = "manager" => task["manager"] # "wait")
      BY <2>2, <1>2, <1>4
    <3> QED
      BY <2>2, <3>1, <1>3, <1>5, QueueKept
  <2> QED
    BY <2>1, <2>2
<1> QED
  BY <1>1, <1>5, <1>6, MovesInv

\* Every step keeps the invariant.
LEMMA JoinNext == JoinInv /\ [Next]_vars => JoinInv'
<1> SUFFICES ASSUME JoinInv, [Next]_vars PROVE JoinInv'
  OBVIOUS
<1>1. CASE Main \/ Operator
  BY <1>1, MainInv
<1>2. CASE Network \/ EmitterStep
  BY <1>2, NetworkInv
<1>3. CASE KeysStep
  BY <1>3, KeysInv
<1>4. CASE Manager
  BY <1>4, ManagerInv
<1>5. CASE Client
  BY <1>5, ClientInv
<1>6. ASSUME NEW t \in Tasks, NEW pc \in {"ok", "err", "panic"}, Ends(t, pc) PROVE JoinInv'
  BY <1>6, EndsInv
<1>7. ASSUME NEW i \in Instances, ExecutorStep(i) \/ ForwardStep(i) PROVE JoinInv'
  <2>1. UNCHANGED <<server, task, woken, keycmds>>
    BY <1>7, Zenon DEF ExecutorStep, ForwardStep, notExecutor
  <2> QED
    BY <2>1, ExecutorInv
<1>8. CASE UNCHANGED vars
  <2>1. UNCHANGED <<server, task, woken, keycmds>>
    BY <1>8, Zenon DEF vars
  <2> QED
    BY <2>1, ExecutorInv
<1> QED
  BY <1>1, <1>2, <1>3, <1>4, <1>5, <1>6, <1>7, <1>8, Zenon DEF Next, Step, Environment, Tasks

\* main says "Shutdown complete" only when no task of the node is left, and panics while it waits
\* for them only when one of them panicked: for every configuration of the node.
THEOREM ShutdownJoinsAll == Spec => []JoinedAll
<1>1. JoinInv => JoinedAll
  BY Zenon DEF JoinInv
<1> QED
  BY JoinInit, JoinNext, <1>1, PTL DEF Spec

-----------------------------------------------------------------------------
(* Types *)

\* Which states a task can be in.
PlacesOK ==
  /\ task["network"] \in {"init", "select", "send", "ok", "err", "panic"}
  /\ task["keys"] \in {"select", "ok", "err", "panic"}
  /\ task["emitter"] \in {"select", "ok", "err", "panic"}
  /\ task["manager"] \in {"select", "ask", "wait", "answered", "deliver", "ok", "err", "panic"}
  /\ task["rpc"] \in {"select", "ok", "err"}

\* What the clients have asked for.
ClientsOK == serving \in BOOLEAN /\ requests \in 0..MaxRequests /\ lists \in 0..MaxLists

\* A channel of a capacity.
QueueOK(q, S, cap) == q \in Seq(S) /\ Len(q) <= cap

\* The queues of the network manager.
NetworkOK ==
  /\ net \subseteq Message
  /\ QueueOK(outgoing, Message, OutCap)
  /\ QueueOK(incoming, Message, InCap)

\* The queues of the instance manager, the key manager and the emitter.
CommandsOK ==
  /\ QueueOK(commands, Command, CmdCap)
  /\ QueueOK(keycmds, KeyCommand, CmdCap)
  /\ events \in 0..EvCap

\* What a task holds: a message while it sends one, the id of an instance that is not in the
\* cache while it asks for the key.
HeldOK ==
  /\ held \in [{"network", "manager"} -> Message \cup {NoMessage}]
  /\ task["network"] = "send" => held["network"] \in Message
  /\ task["manager"] = "deliver" => held["manager"] \in Message
  /\ task["manager"] \in {"ask", "wait", "answered"} =>
       held["manager"] \in Message /\ cached[held["manager"].inst] = "absent"

\* The cache of the instance manager, its backlog and what is handed over of it.
CacheOK ==
  /\ cached \in [Instances -> {"absent", "running", "finished"}]
  /\ backlog \in [Instances -> Seq(Message)]
  /\ forward \in [Instances -> Seq(Message)]

\* Where an executor is.
ExecPlaces == {"none", "started", "round", "receive", "finish", "report", "done", "panic"}

\* An executor that is to do a round has one left, and an instance the manager does not know
\* has no executor.
ExecOK ==
  /\ exec \in [Instances -> [pc : ExecPlaces, round : 0..Rounds]]
  /\ \A i \in Instances : exec[i].pc \in {"started", "round"} => exec[i].round < Rounds
  /\ \A i \in Instances : exec[i].pc = "none" => exec[i].round = 0
  /\ ~Ended("manager") => \A i \in Instances : cached[i] = "absent" => exec[i].pc = "none"

\* The channels of the executors.
ChanOK == \A i \in Instances : QueueOK(chan[i], Message, ChanCap)
ChanType == chan \in [Instances -> Seq(Message)]

\* The inductive invariant of the types.
TypeInv ==
  /\ JoinInv /\ PlacesOK /\ ClientsOK /\ NetworkOK /\ CommandsOK /\ HeldOK /\ CacheOK
  /\ ExecOK /\ ChanType /\ ChanOK

\* The invariant has the conjuncts of TypeOK.
LEMMA TypeInvType == TypeInv => TypeOK
<1> SUFFICES ASSUME TypeInv PROVE TypeOK
  OBVIOUS
<1>1. /\ main \in {"monitor", "join", "done", "panic"}
      /\ handles \in Seq(Tasks) /\ joined \subseteq Tasks
  BY DEF TypeInv, JoinInv, Handles
<1>2. task \in TaskStates
  BY DEF TypeInv, JoinInv, TasksOK, PlacesOK, TaskStates, Tasks
<1>3. woken \subseteq {t \in Tasks : task[t] = "select"}
  BY DEF TypeInv, JoinInv, TasksOK
<1> QED
  BY <1>1, <1>2, <1>3, Zenon DEF TypeOK, TypeInv, ClientsOK, NetworkOK, CommandsOK, HeldOK, CacheOK,
     ExecOK, ChanOK, ChanType, QueueOK, ExecPlaces

\* What the assumptions say of every capacity and bound.
LEMMA CapacitiesType ==
  /\ OutCap \in Nat /\ InCap \in Nat /\ CmdCap \in Nat /\ EvCap \in Nat /\ ChanCap \in Nat
  /\ OutCap >= 1 /\ InCap >= 1 /\ CmdCap >= 1 /\ EvCap >= 1 /\ ChanCap >= 1
  /\ Rounds \in Nat /\ Rounds >= 1 /\ MaxRequests \in Nat /\ MaxLists \in Nat
<1>1. \A c \in {OutCap, InCap, CmdCap, EvCap, ChanCap, Rounds} : c \in Nat /\ c >= 1
  <2>1. \A c \in Nat \ {0} : c \in Nat /\ c >= 1
    OBVIOUS
  <2> QED
    BY <2>1, CapAssumption, Zenon
<1>2. MaxRequests \in Nat /\ MaxLists \in Nat
  BY BoundAssumption
<1> QED
  BY <1>1, <1>2, Zenon

\* A channel is created empty, and left empty by a receiver that goes away.
LEMMA QueueEmpty ==
  ASSUME NEW S, NEW cap \in Nat
  PROVE  QueueOK(<< >>, S, cap)
  BY DEF QueueOK

\* A send that found room leaves the channel within its capacity.
LEMMA QueueSend ==
  ASSUME NEW S, NEW cap \in Nat, NEW q, QueueOK(q, S, cap), Len(q) < cap, NEW m \in S
  PROVE  QueueOK(Append(q, m), S, cap)
  BY DEF QueueOK

\* What a receiver takes is what was sent.
LEMMA QueueReceive ==
  ASSUME NEW S, NEW cap \in Nat, NEW q, QueueOK(q, S, cap), q # << >>
  PROVE  QueueOK(Tail(q), S, cap) /\ Head(q) \in S
  BY DEF QueueOK

\* The initial states have their types.
LEMMA TypeInit == Init => TypeInv
<1> SUFFICES ASSUME Init PROVE TypeInv
  OBVIOUS
<1>1. JoinInv
  BY JoinInit
<1>2. PlacesOK
  BY DEF Init, PlacesOK, Tasks
<1>3. ClientsOK
  BY CapacitiesType DEF Init, ClientsOK
<1>4. NetworkOK
  BY CapacitiesType, QueueEmpty DEF Init, NetworkOK, Message
<1>5. CommandsOK
  BY CapacitiesType, QueueEmpty DEF Init, CommandsOK
<1>6. HeldOK
  BY DEF Init, HeldOK, Tasks
<1>7. CacheOK
  BY DEF Init, CacheOK
<1>8. ExecOK
  BY CapacitiesType DEF Init, ExecOK, ExecPlaces
<1>9. ChanOK /\ ChanType
  BY CapacitiesType, QueueEmpty DEF Init, ChanOK, ChanType
<1> QED
  BY <1>1, <1>2, <1>3, <1>4, <1>5, <1>6, <1>7, <1>8, <1>9 DEF TypeInv

\* What a step leaves alone stays of its type.
LEMMA Stay ==
  ASSUME TypeInv
  PROVE  /\ UNCHANGED <<serving, requests, lists>> => ClientsOK'
         /\ UNCHANGED <<net, outgoing, incoming>> => NetworkOK'
         /\ UNCHANGED <<commands, keycmds, events>> => CommandsOK'
         /\ UNCHANGED <<cached, backlog, forward>> => CacheOK'
         /\ UNCHANGED <<task, held, cached>> => HeldOK'
         /\ UNCHANGED <<task, cached, exec>> => ExecOK'
         /\ UNCHANGED chan => ChanType' /\ ChanOK'
         /\ UNCHANGED task => PlacesOK'
<1>1. UNCHANGED <<serving, requests, lists>> => ClientsOK'
  BY DEF TypeInv, ClientsOK
<1>2. UNCHANGED <<net, outgoing, incoming>> => NetworkOK'
  BY DEF TypeInv, NetworkOK
<1>3. UNCHANGED <<commands, keycmds, events>> => CommandsOK'
  BY DEF TypeInv, CommandsOK
<1>4. UNCHANGED <<cached, backlog, forward>> => CacheOK'
  BY DEF TypeInv, CacheOK
<1>5. UNCHANGED <<task, held, cached>> => HeldOK'
  BY DEF TypeInv, HeldOK
<1>6. UNCHANGED <<task, cached, exec>> => ExecOK'
  BY DEF TypeInv, ExecOK, Ended
<1>7. UNCHANGED chan => ChanType' /\ ChanOK'
  BY DEF TypeInv, ChanOK, ChanType
<1>8. UNCHANGED task => PlacesOK'
  BY DEF TypeInv, PlacesOK
<1> QED
  BY <1>1, <1>2, <1>3, <1>4, <1>5, <1>6, <1>7, <1>8, Zenon

\* One task moves.
LEMMA OneTask ==
  ASSUME TypeInv, NEW t \in Tasks, NEW pc, task' = [task EXCEPT ![t] = pc]
  PROVE  /\ task'[t] = pc
         /\ \A u \in Tasks : u # t => task'[u] = task[u]
         /\ {"network", "keys", "emitter", "manager", "rpc"} = Tasks
  BY DEF TypeInv, JoinInv, TasksOK, Tasks

\* main and the operator touch none of the channels.
LEMMA MainType ==
  ASSUME TypeInv, Main \/ Operator
  PROVE  PlacesOK' /\ ClientsOK' /\ NetworkOK' /\ CommandsOK' /\ HeldOK' /\ CacheOK' /\ ExecOK'
         /\ ChanType' /\ ChanOK'
<1>1. UNCHANGED <<task, serving, requests, lists, net, outgoing, incoming, commands, keycmds, events,
                  held, cached, backlog, forward, chan, exec>>
  BY Zenon DEF Main, Operator, notMain, clients, network, manager
<1> QED
  BY <1>1, Stay, Zenon

\* A call of a client: a send that waits for room, or fails when the receiver has ended.
LEMMA ClientType ==
  ASSUME TypeInv, Client
  PROVE  PlacesOK' /\ ClientsOK' /\ NetworkOK' /\ CommandsOK' /\ HeldOK' /\ CacheOK' /\ ExecOK'
         /\ ChanType' /\ ChanOK'
<1>1. UNCHANGED <<task, serving, net, outgoing, incoming, events, held, cached, backlog, forward, chan, exec>>
  BY Zenon DEF Client, network, manager
<1>2. ClientsOK /\ CommandsOK
  BY DEF TypeInv
<1>3. ASSUME NEW i \in Instances, ClientRequests(i) PROVE ClientsOK' /\ CommandsOK'
  <2>1. ClientsOK'
    BY <1>1, <1>2, <1>3, CapacitiesType DEF ClientRequests, ClientsOK
  <2>2. keycmds' = keycmds /\ (commands' = commands \/ (Len(commands) < CmdCap /\ commands' = Append(commands, [op |-> "create", inst |-> i])))
    BY <1>3, Zenon DEF ClientRequests
  <2>3. [op |-> "create", inst |-> i] \in Command
    BY DEF Command
  <2>4. QueueOK(commands', Command, CmdCap)
    BY <1>2, <2>2, <2>3, QueueSend, CapacitiesType, Zenon DEF CommandsOK
  <2> QED
    BY <1>1, <1>2, <2>1, <2>2, <2>4 DEF CommandsOK
<1>4. ASSUME NEW i \in Instances, ClientAsksStatus(i) PROVE ClientsOK' /\ CommandsOK'
  <2>1. ClientsOK'
    BY <1>1, <1>2, <1>4, CapacitiesType DEF ClientAsksStatus, ClientsOK
  <2>2. keycmds' = keycmds /\ (commands' = commands \/ (Len(commands) < CmdCap /\ commands' = Append(commands, [op |-> "status", inst |-> i])))
    BY <1>4, Zenon DEF ClientAsksStatus
  <2>3. [op |-> "status", inst |-> i] \in Command
    BY DEF Command
  <2>4. QueueOK(commands', Command, CmdCap)
    BY <1>2, <2>2, <2>3, QueueSend, CapacitiesType, Zenon DEF CommandsOK
  <2> QED
    BY <1>1, <1>2, <2>1, <2>2, <2>4 DEF CommandsOK
<1>5. ASSUME ClientListsKeys PROVE ClientsOK' /\ CommandsOK'
  <2>1. ClientsOK'
    BY <1>1, <1>2, <1>5, CapacitiesType DEF ClientListsKeys, ClientsOK
  <2>2. commands' = commands /\ (keycmds' = keycmds \/ (Len(keycmds) < CmdCap /\ keycmds' = Append(keycmds, "client")))
    BY <1>5, Zenon DEF ClientListsKeys
  <2>3. "client" \in KeyCommand
    BY DEF KeyCommand
  <2>4. QueueOK(keycmds', KeyCommand, CmdCap)
    BY <1>2, <2>2, <2>3, QueueSend, CapacitiesType, Zenon DEF CommandsOK
  <2> QED
    BY <1>1, <1>2, <2>1, <2>2, <2>4 DEF CommandsOK
<1>6. ClientsOK' /\ CommandsOK'
  BY <1>3, <1>4, <1>5, Zenon DEF Client
<1> QED
  BY <1>1, <1>6, Stay, Zenon

\* The network manager holds a message between its two queues.
LEMMA NetworkType ==
  ASSUME TypeInv, Network
  PROVE  PlacesOK' /\ ClientsOK' /\ NetworkOK' /\ CommandsOK' /\ HeldOK' /\ CacheOK' /\ ExecOK'
         /\ ChanType' /\ ChanOK'
<1>1. UNCHANGED <<serving, requests, lists, commands, keycmds, events, cached, backlog, forward, chan, exec>>
  BY Zenon DEF Network, clients, manager
<1>2. NetworkOK /\ HeldOK /\ PlacesOK /\ ExecOK
  BY DEF TypeInv
<1>3. PICK pc \in {"select", "send"} : task' = [task EXCEPT !["network"] = pc]
  BY Zenon DEF Network, NetworkInit, NetworkOutgoing, NetworkGossip, NetworkSkips, NetworkSends, Goto, Select
<1>4. /\ task'["network"] = pc /\ task'["manager"] = task["manager"] /\ task'["keys"] = task["keys"]
      /\ task'["emitter"] = task["emitter"] /\ task'["rpc"] = task["rpc"]
  BY <1>3, OneTask, Zenon DEF Tasks
<1>5. PlacesOK'
  BY <1>2, <1>4 DEF PlacesOK
<1>6. ExecOK'
  BY <1>1, <1>2, <1>4 DEF ExecOK, Ended
<1>7. CASE NetworkInit
  <2>1. UNCHANGED <<net, outgoing, incoming, held>> /\ task'["network"] = "select"
    BY <1>7, OneTask, Zenon DEF NetworkInit, network, Goto, Tasks
  <2>2. HeldOK'
    BY <1>1, <1>2, <1>4, <2>1 DEF HeldOK
  <2> QED
    BY <1>1, <1>5, <1>6, <2>1, <2>2, Stay, Zenon
<1>8. ASSUME NEW m \in Message, held' = [held EXCEPT !["network"] = m] PROVE HeldOK'
  BY <1>1, <1>2, <1>4, <1>8 DEF HeldOK
<1>9. CASE NetworkOutgoing
  <2>1. /\ outgoing # << >> /\ held' = [held EXCEPT !["network"] = Head(outgoing)]
        /\ outgoing' = Tail(outgoing) /\ net' = net /\ incoming' = incoming
    BY <1>9, Zenon DEF NetworkOutgoing
  <2>2. QueueOK(outgoing', Message, OutCap) /\ Head(outgoing) \in Message
    BY <1>2, <2>1, QueueReceive, CapacitiesType DEF NetworkOK
  <2>3. NetworkOK'
    BY <1>2, <2>1, <2>2 DEF NetworkOK
  <2>4. HeldOK'
    BY <1>8, <2>1, <2>2, Zenon
  <2> QED
    BY <1>1, <1>5, <1>6, <2>3, <2>4, Stay, Zenon
<1>10. ASSUME NEW m \in net, NetworkGossip(m) PROVE NetworkOK' /\ HeldOK'
  <2>1. /\ held' = [held EXCEPT !["network"] = m] /\ net' = net \ {m}
        /\ outgoing' = outgoing /\ incoming' = incoming
    BY <1>10, Zenon DEF NetworkGossip
  <2>2. m \in Message
    BY <1>2 DEF NetworkOK
  <2>3. NetworkOK'
    BY <1>2, <2>1 DEF NetworkOK
  <2> QED
    BY <1>8, <2>1, <2>2, <2>3, Zenon
<1>11. ASSUME NEW m \in net, NetworkSkips(m) PROVE NetworkOK' /\ HeldOK'
  <2>1. /\ net' = net \ {m} /\ outgoing' = outgoing /\ incoming' = incoming /\ held' = held
        /\ task'["network"] = "select"
    BY <1>11, OneTask, Zenon DEF NetworkSkips, Select, Tasks
  <2>2. NetworkOK'
    BY <1>2, <2>1 DEF NetworkOK
  <2>3. HeldOK'
    BY <1>1, <1>2, <1>4, <2>1 DEF HeldOK
  <2> QED
    BY <2>2, <2>3
<1>12. CASE NetworkSends
  <2>1. /\ task["network"] = "send" /\ task'["network"] = "select"
        /\ held' = [held EXCEPT !["network"] = NoMessage] /\ net' = net /\ outgoing' = outgoing
        /\ incoming' = incoming \/ (Len(incoming) < InCap /\ incoming' = Append(incoming, held["network"]))
    BY <1>12, OneTask, Zenon DEF NetworkSends, Goto, Tasks
  <2>2. held["network"] \in Message
    BY <1>2, <2>1 DEF HeldOK
  <2>3. QueueOK(incoming', Message, InCap)
    BY <1>2, <2>1, <2>2, QueueSend, CapacitiesType, Zenon DEF NetworkOK
  <2>4. NetworkOK'
    BY <1>2, <2>1, <2>3 DEF NetworkOK
  <2>5. HeldOK'
    BY <1>1, <1>2, <1>4, <2>1 DEF HeldOK
  <2> QED
    BY <1>1, <1>5, <1>6, <2>4, <2>5, Stay, Zenon
<1>13. NetworkOK' /\ HeldOK'
  BY <1>7, <1>9, <1>10, <1>11, <1>12, Zenon DEF Network
<1> QED
  BY <1>1, <1>5, <1>6, <1>13, Stay, Zenon

\* The key manager and the emitter; the answer finds the instance manager waiting, so what that
\* one holds is kept.
LEMMA HelperType ==
  ASSUME TypeInv, KeysStep \/ EmitterStep
  PROVE  PlacesOK' /\ ClientsOK' /\ NetworkOK' /\ CommandsOK' /\ HeldOK' /\ CacheOK' /\ ExecOK'
         /\ ChanType' /\ ChanOK'
<1>1. UNCHANGED <<serving, requests, lists, net, outgoing, incoming, commands, held, cached, backlog,
                  forward, chan, exec>>
  BY Zenon DEF KeysStep, EmitterStep, notHelper, clients, network, manager
<1>2. CommandsOK /\ HeldOK /\ PlacesOK /\ ExecOK /\ KeyQueue
  BY DEF TypeInv, JoinInv
<1>3. CASE EmitterStep
  <2>1. events > 0 /\ task["emitter"] = "select" /\ task' = [task EXCEPT !["emitter"] = "select"]
        /\ events' = events - 1 /\ keycmds' = keycmds
    BY <1>3, Zenon DEF EmitterStep, EmitterWrites, Select
  <2>2. task' = task
    BY <2>1 DEF TypeInv, JoinInv, TasksOK
  <2>3. CommandsOK'
    BY <1>1, <1>2, <2>1, CapacitiesType DEF CommandsOK
  <2> QED
    BY <1>1, <2>2, <2>3, Stay, Zenon
<1>4. CASE KeysStep
  <2>1. /\ keycmds # << >> /\ keycmds' = Tail(keycmds) /\ events' = events
        /\ task' = IF Head(keycmds) = "manager" THEN [task EXCEPT !["manager"] = "answered"] ELSE task
    BY <1>4, Zenon DEF KeysStep, KeysAnswer
  <2>2. QueueOK(keycmds', KeyCommand, CmdCap)
    BY <1>2, <2>1, QueueReceive, CapacitiesType DEF CommandsOK
  <2>3. CommandsOK'
    BY <1>1, <1>2, <2>1, <2>2 DEF CommandsOK
  <2>4. CASE Head(keycmds) = "manager"
    <3>1. task["manager"] = "wait"
      BY <1>2, <2>1, <2>4 DEF KeyQueue
    <3>2. /\ task'["network"] = task["network"] /\ task'["manager"] = "answered"
          /\ task'["keys"] = task["keys"] /\ task'["emitter"] = task["emitter"]
          /\ task'["rpc"] = task["rpc"]
      BY <2>1, <2>4, OneTask, Zenon DEF Tasks
    <3>3. PlacesOK'
      BY <1>2, <3>2 DEF PlacesOK
    <3>4. HeldOK'
      BY <1>1, <1>2, <3>1, <3>2 DEF HeldOK
    <3>5. ExecOK'
      BY <1>1, <1>2, <3>1, <3>2 DEF ExecOK, Ended
    <3> QED
      BY <1>1, <2>3, <3>3, <3>4, <3>5, Stay, Zenon
  <2>5. CASE Head(keycmds) # "manager"
    BY <1>1, <2>1, <2>3, <2>5, Stay, Zenon
  <2> QED
    BY <2>4, <2>5
<1> QED
  BY <1>3, <1>4

\* The instance manager moves, outside of what it holds for a send or a start.
LEMMA ManagerPlace ==
  ASSUME TypeInv, NEW pc \in {"select", "ask", "wait", "deliver"}, task' = [task EXCEPT !["manager"] = pc]
  PROVE  /\ task'["manager"] = pc /\ task'["network"] = task["network"]
         /\ PlacesOK'
<1>1. /\ task'["manager"] = pc /\ task'["network"] = task["network"] /\ task'["keys"] = task["keys"]
      /\ task'["emitter"] = task["emitter"] /\ task'["rpc"] = task["rpc"]
  BY OneTask, Zenon DEF Tasks
<1> QED
  BY <1>1 DEF TypeInv, PlacesOK

\* The head of the command queue, and what is left of the queue.
LEMMA CommandTaken ==
  ASSUME TypeInv, commands # << >>, commands' = Tail(commands), UNCHANGED <<keycmds, events>>
  PROVE  CommandsOK' /\ Head(commands).inst \in Instances
<1>1. QueueOK(commands', Command, CmdCap) /\ Head(commands) \in Command
  BY QueueReceive, CapacitiesType DEF TypeInv, CommandsOK
<1>2. Head(commands).inst \in Instances
  BY <1>1 DEF Command
<1> QED
  BY <1>1, <1>2 DEF TypeInv, CommandsOK

\* What the instance manager holds is dropped when it is back in its select!.
LEMMA ManagerLetsGo ==
  ASSUME TypeInv, task' = [task EXCEPT !["manager"] = "select"],
         held' = held \/ held' = [held EXCEPT !["manager"] = NoMessage]
  PROVE  HeldOK'
<1>1. task'["manager"] = "select" /\ task'["network"] = task["network"]
  BY ManagerPlace
<1> QED
  BY <1>1 DEF TypeInv, HeldOK

\* The executors are not concerned when the manager keeps its cache.
LEMMA ExecKeeps ==
  ASSUME TypeInv, ~Ended("manager"), UNCHANGED <<cached, exec>>
  PROVE  ExecOK'
  BY DEF TypeInv, ExecOK

\* A message is put into the channel of an executor.
LEMMA ChanSend ==
  ASSUME ChanType, ChanOK, NEW i \in Instances, NEW m \in Message, ChanCap \in Nat,
         chan' = chan \/ (Len(chan[i]) < ChanCap /\ chan' = [chan EXCEPT ![i] = Append(@, m)])
  PROVE  ChanType' /\ ChanOK'
<1>1. chan[i] \in Seq(Message)
  BY DEF ChanType
<1>2. Append(chan[i], m) \in Seq(Message) /\ Len(Append(chan[i], m)) = Len(chan[i]) + 1
  BY <1>1
<1>3. CASE chan' = chan
  BY <1>3 DEF ChanType, ChanOK
<1>4. CASE Len(chan[i]) < ChanCap /\ chan' = [chan EXCEPT ![i] = Append(@, m)]
  <2>1. ChanType'
    BY <1>2, <1>4 DEF ChanType
  <2>2. \A j \in Instances : chan'[j] = IF j = i THEN Append(chan[i], m) ELSE chan[j]
    BY <1>4 DEF ChanType
  <2>3. QueueOK(Append(chan[i], m), Message, ChanCap)
    BY <1>2, <1>4, QueueSend DEF ChanOK
  <2> QED
    BY <2>1, <2>2, <2>3, Zenon DEF ChanOK
<1> QED
  BY <1>3, <1>4

\* The instance manager: the id it holds while it awaits the key is still absent from the cache
\* when the answer comes, because nobody else writes the cache.
LEMMA ManagerType ==
  ASSUME TypeInv, Manager
  PROVE  PlacesOK' /\ ClientsOK' /\ NetworkOK' /\ CommandsOK' /\ HeldOK' /\ CacheOK' /\ ExecOK'
         /\ ChanType' /\ ChanOK'
<1> DEFINE Good == PlacesOK' /\ NetworkOK' /\ CommandsOK' /\ HeldOK' /\ CacheOK' /\ ExecOK' /\ ChanType' /\ ChanOK'
<1>1. UNCHANGED <<serving, requests, lists, net, outgoing, events>>
  BY Zenon DEF Manager, clients
<1>2. NetworkOK /\ CommandsOK /\ HeldOK /\ CacheOK /\ ExecOK /\ ChanType /\ ChanOK
  BY DEF TypeInv
<1>3. CASE ManagerCreate
  <2>1. /\ commands # << >> /\ commands' = Tail(commands) /\ task["manager"] = "select"
        /\ UNCHANGED <<incoming, keycmds, cached, backlog, forward, chan, exec>>
    BY <1>3, Zenon DEF ManagerCreate, HeadCommand, manager, Select
  <2>2. CommandsOK' /\ Head(commands).inst \in Instances
    BY <1>1, <2>1, CommandTaken
  <2>3. ExecOK'
    BY <2>1, ExecKeeps DEF Ended
  <2>4. PlacesOK' /\ HeldOK'
    <3>1. CASE cached[Head(commands).inst] # "absent"
      <4>1. task' = [task EXCEPT !["manager"] = "select"] /\ held' = held
        BY <1>3, <3>1, Zenon DEF ManagerCreate, Select
      <4> QED
        BY <4>1, ManagerPlace, ManagerLetsGo
    <3>2. CASE cached[Head(commands).inst] = "absent"
      <4>1. /\ task' = [task EXCEPT !["manager"] = "ask"]
            /\ held' = [held EXCEPT !["manager"] = [inst |-> Head(commands).inst, from |-> "self"]]
        BY <1>3, <3>2 DEF ManagerCreate, Select
      <4>2. task'["manager"] = "ask" /\ task'["network"] = task["network"] /\ PlacesOK'
        BY <4>1, ManagerPlace
      <4>3. [inst |-> Head(commands).inst, from |-> "self"] \in Message
        BY <2>2 DEF Message
      <4>4. HeldOK'
        BY <1>2, <2>1, <3>2, <4>1, <4>2, <4>3, Zenon DEF HeldOK
      <4> QED
        BY <4>2, <4>4
    <3> QED
      BY <3>1, <3>2
  <2> QED
    BY <1>1, <2>1, <2>2, <2>3, <2>4, Stay, Zenon
<1>4. CASE ManagerAsks
  <2>1. task["manager"] = "ask" /\ UNCHANGED <<commands, incoming, cached, backlog, forward, chan, exec>>
    BY <1>4, Zenon DEF ManagerAsks, Goto, manager
  <2>2. ExecOK'
    BY <2>1, ExecKeeps DEF Ended
  <2>3. CASE Ended("keys")
    <3>1. /\ task' = [task EXCEPT !["manager"] = "select"] /\ keycmds' = keycmds
          /\ held' = [held EXCEPT !["manager"] = NoMessage]
      BY <1>4, <2>3, Zenon DEF ManagerAsks, Goto
    <3>2. PlacesOK' /\ HeldOK'
      BY <3>1, ManagerPlace, ManagerLetsGo
    <3> QED
      BY <1>1, <2>1, <2>2, <3>1, <3>2, Stay, Zenon
  <2>4. CASE ~Ended("keys")
    <3>1. /\ task' = [task EXCEPT !["manager"] = "wait"] /\ held' = held
          /\ Len(keycmds) < CmdCap /\ keycmds' = Append(keycmds, "manager")
      BY <1>4, <2>4, Zenon DEF ManagerAsks, Goto
    <3>2. task'["manager"] = "wait" /\ task'["network"] = task["network"] /\ PlacesOK'
      BY <3>1, ManagerPlace
    <3>3. HeldOK'
      BY <1>2, <2>1, <3>1, <3>2 DEF HeldOK
    <3>4. "manager" \in KeyCommand
      BY DEF KeyCommand
    <3>5. QueueOK(keycmds', KeyCommand, CmdCap)
      BY <1>2, <3>1, <3>4, QueueSend, CapacitiesType DEF CommandsOK
    <3>6. CommandsOK'
      BY <1>1, <1>2, <2>1, <3>5 DEF CommandsOK
    <3> QED
      BY <1>1, <2>1, <2>2, <3>2, <3>3, <3>6, Stay, Zenon
  <2> QED
    BY <2>3, <2>4
<1>5. CASE ManagerGetsNoAnswer
  <2>1. /\ task["manager"] = "wait" /\ task' = [task EXCEPT !["manager"] = "select"]
        /\ held' = [held EXCEPT !["manager"] = NoMessage]
        /\ UNCHANGED <<commands, incoming, keycmds, cached, backlog, forward, chan, exec>>
    BY <1>5, Zenon DEF ManagerGetsNoAnswer, Goto, manager
  <2>2. ExecOK'
    BY <2>1, ExecKeeps DEF Ended
  <2>3. PlacesOK' /\ HeldOK'
    BY <2>1, ManagerPlace, ManagerLetsGo
  <2> QED
    BY <1>1, <2>1, <2>2, <2>3, Stay, Zenon
<1>6. ASSUME NEW found \in BOOLEAN, ManagerStarts(found) PROVE Good
  <2>1. /\ task["manager"] = "answered" /\ task' = [task EXCEPT !["manager"] = "select"]
        /\ held' = [held EXCEPT !["manager"] = NoMessage]
        /\ UNCHANGED <<commands, incoming, keycmds, chan>>
    BY <1>6, Zenon DEF ManagerStarts, Goto
  <2>2. PlacesOK' /\ HeldOK'
    BY <2>1, ManagerPlace, ManagerLetsGo
  <2>3. CASE found
    <3> DEFINE i == held["manager"].inst
    <3>1. /\ cached' = [cached EXCEPT ![i] = "running"] /\ exec' = [exec EXCEPT ![i].pc = "started"]
          /\ forward' = [forward EXCEPT ![i] = backlog[i]] /\ backlog' = [backlog EXCEPT ![i] = << >>]
      BY <1>6, <2>3, Zenon DEF ManagerStarts
    <3>2. held["manager"] \in Message /\ cached[i] = "absent"
      BY <1>2, <2>1 DEF HeldOK
    <3>3. i \in Instances
      BY <3>2 DEF Message
    <3> HIDE DEF i
    <3>4. exec[i].pc = "none" /\ exec[i].round = 0
      BY <1>2, <2>1, <3>2, <3>3 DEF ExecOK, Ended
    <3>5. CacheOK'
      BY <1>2, <3>1, <3>3 DEF CacheOK
    <3>6. exec' \in [Instances -> [pc : ExecPlaces, round : 0..Rounds]]
      BY <1>2, <3>1, <3>3 DEF ExecOK, ExecPlaces
    <3>7. \A j \in Instances : exec'[j] = IF j = i THEN [exec[i] EXCEPT !.pc = "started"] ELSE exec[j]
      BY <1>2, <3>1, <3>3 DEF ExecOK
    <3>8. exec'[i].pc = "started" /\ exec'[i].round = 0
      BY <1>2, <3>3, <3>4, <3>7 DEF ExecOK
    <3>9. \A j \in Instances : cached'[j] = "absent" => j # i /\ cached[j] = "absent"
      BY <1>2, <3>1, <3>3 DEF CacheOK
    <3>10. ExecOK'
      BY <1>2, <2>1, <3>6, <3>7, <3>8, <3>9, CapacitiesType DEF ExecOK, Ended
    <3> QED
      BY <1>1, <2>1, <2>2, <3>5, <3>10, Stay, Zenon
  <2>4. CASE ~found
    <3>1. UNCHANGED <<cached, backlog, forward, exec>>
      BY <1>6, <2>4, Zenon DEF ManagerStarts, manager
    <3>2. ExecOK'
      BY <2>1, <3>1, ExecKeeps DEF Ended
    <3> QED
      BY <1>1, <2>1, <2>2, <3>1, <3>2, Stay, Zenon
  <2> QED
    BY <2>3, <2>4
<1>7. CASE ManagerStores
  <2>1. /\ commands # << >> /\ commands' = Tail(commands) /\ task["manager"] = "select"
        /\ task' = [task EXCEPT !["manager"] = "select"]
        /\ cached' = [cached EXCEPT ![Head(commands).inst] = "finished"]
        /\ UNCHANGED <<incoming, keycmds, held, backlog, forward, chan, exec>>
    BY <1>7, Zenon DEF ManagerStores, HeadCommand, Select
  <2>2. CommandsOK' /\ Head(commands).inst \in Instances
    BY <1>1, <2>1, CommandTaken
  <2>3. PlacesOK' /\ HeldOK'
    BY <2>1, ManagerPlace, ManagerLetsGo
  <2>4. CacheOK' /\ \A j \in Instances : cached'[j] = "absent" => cached[j] = "absent"
    BY <1>2, <2>1, <2>2 DEF CacheOK
  <2>5. ExecOK'
    BY <1>2, <2>1, <2>4 DEF ExecOK, Ended
  <2> QED
    BY <1>1, <2>1, <2>2, <2>3, <2>4, <2>5, Stay, Zenon
<1>8. CASE ManagerStatus
  <2>1. /\ commands # << >> /\ commands' = Tail(commands) /\ task["manager"] = "select"
        /\ task' = [task EXCEPT !["manager"] = "select"]
        /\ UNCHANGED <<incoming, keycmds, held, cached, backlog, forward, chan, exec>>
    BY <1>8, Zenon DEF ManagerStatus, HeadCommand, Select, manager
  <2>2. CommandsOK'
    BY <1>1, <2>1, CommandTaken
  <2>3. PlacesOK' /\ HeldOK'
    BY <2>1, ManagerPlace, ManagerLetsGo
  <2>4. ExecOK'
    BY <2>1, ExecKeeps DEF Ended
  <2> QED
    BY <1>1, <2>1, <2>2, <2>3, <2>4, Stay, Zenon
<1>9. CASE ManagerIncoming
  <2> DEFINE m == Head(incoming)
  <2>1. /\ incoming # << >> /\ incoming' = Tail(incoming) /\ task["manager"] = "select"
        /\ UNCHANGED <<commands, keycmds, cached, forward, chan, exec>>
    BY <1>9, Zenon DEF ManagerIncoming, Select
  <2>2. QueueOK(incoming', Message, InCap) /\ m \in Message
    BY <1>2, <2>1, QueueReceive, CapacitiesType DEF NetworkOK
  <2>3. NetworkOK'
    BY <1>1, <1>2, <2>2 DEF NetworkOK
  <2>4. ExecOK'
    BY <2>1, ExecKeeps DEF Ended
  <2>5. m.inst \in Instances
    BY <2>2 DEF Message
  <2>6. \/ /\ task' = [task EXCEPT !["manager"] = "deliver"]
           /\ held' = [held EXCEPT !["manager"] = m] /\ backlog' = backlog
        \/ /\ task' = [task EXCEPT !["manager"] = "select"] /\ held' = held
           /\ backlog' = backlog \/ backlog' = [backlog EXCEPT ![m.inst] = Append(@, m)]
    BY <1>9, Zenon DEF ManagerIncoming, Select
  <2> HIDE DEF m
  <2>7. CacheOK'
    <3>1. backlog[m.inst] \in Seq(Message)
      BY <1>2, <2>5 DEF CacheOK
    <3>2. Append(backlog[m.inst], m) \in Seq(Message)
      BY <2>2, <3>1
    <3>3. backlog' = backlog \/ backlog' = [backlog EXCEPT ![m.inst] = Append(backlog[m.inst], m)]
      BY <2>6, Zenon
    <3> QED
      BY <1>2, <2>1, <2>5, <3>2, <3>3, Zenon DEF CacheOK
  <2>8. CASE task' = [task EXCEPT !["manager"] = "select"] /\ held' = held
    BY <1>1, <2>1, <2>3, <2>4, <2>7, <2>8, ManagerPlace, ManagerLetsGo, Stay
  <2>9. CASE task' = [task EXCEPT !["manager"] = "deliver"] /\ held' = [held EXCEPT !["manager"] = m]
    <3>1. task'["manager"] = "deliver" /\ task'["network"] = task["network"] /\ PlacesOK'
      BY <2>9, ManagerPlace
    <3>2. HeldOK'
      BY <1>2, <2>2, <2>9, <3>1 DEF HeldOK
    <3> QED
      BY <1>1, <2>1, <2>3, <2>4, <2>7, <3>1, <3>2, Stay
  <2> QED
    BY <2>6, <2>8, <2>9, Zenon
<1>10. CASE ManagerDelivers
  <2> DEFINE i == held["manager"].inst
  <2>1. /\ task["manager"] = "deliver" /\ task' = [task EXCEPT !["manager"] = "select"]
        /\ held' = [held EXCEPT !["manager"] = NoMessage]
        /\ UNCHANGED <<commands, incoming, keycmds, cached, backlog, forward, exec>>
        /\ chan' = chan \/ (Len(chan[i]) < ChanCap /\ chan' = [chan EXCEPT ![i] = Append(@, held["manager"])])
    BY <1>10, Zenon DEF ManagerDelivers, Goto, manager
  <2>2. ExecOK'
    BY <2>1, ExecKeeps DEF Ended
  <2>3. PlacesOK' /\ HeldOK'
    BY <2>1, ManagerPlace, ManagerLetsGo
  <2>4. held["manager"] \in Message
    BY <1>2, <2>1 DEF HeldOK
  <2>5. i \in Instances
    BY <2>4 DEF Message
  <2> HIDE DEF i
  <2>6. ChanType' /\ ChanOK'
    BY <1>2, <2>1, <2>4, <2>5, ChanSend, CapacitiesType
  <2> QED
    BY <1>1, <2>1, <2>2, <2>3, <2>6, Stay, Zenon
<1>11. ASSUME NEW I \in SUBSET Instances, ManagerTick(I) PROVE Good
  <2>1. /\ task["manager"] = "select" /\ task' = [task EXCEPT !["manager"] = "select"]
        /\ backlog' = [i \in Instances |-> IF i \in I THEN << >> ELSE backlog[i]]
        /\ UNCHANGED <<commands, incoming, keycmds, held, cached, forward, chan, exec>>
    BY <1>11, Zenon DEF ManagerTick, Select
  <2>2. CacheOK'
    BY <1>2, <2>1 DEF CacheOK
  <2>3. PlacesOK' /\ HeldOK'
    BY <2>1, ManagerPlace, ManagerLetsGo
  <2>4. ExecOK'
    BY <2>1, ExecKeeps DEF Ended
  <2> QED
    BY <1>1, <2>1, <2>2, <2>3, <2>4, Stay, Zenon
<1>12. Good
  BY <1>3, <1>4, <1>5, <1>6, <1>7, <1>8, <1>9, <1>10, <1>11, Zenon DEF Manager
<1> QED
  BY <1>1, <1>12, Stay, Zenon

\* A task that ends; with the instance manager goes its cache, and with it the question which
\* instances have an executor.
LEMMA EndsType ==
  ASSUME TypeInv, NEW t \in Tasks, NEW pc \in {"ok", "err", "panic"}, Ends(t, pc)
  PROVE  PlacesOK' /\ ClientsOK' /\ NetworkOK' /\ CommandsOK' /\ HeldOK' /\ CacheOK' /\ ExecOK'
         /\ ChanType' /\ ChanOK'
<1>1. /\ Returns(t, pc) /\ task' = [task EXCEPT ![t] = pc]
      /\ serving' = (serving /\ (t = "rpc" => t \in woken /\ pc = "ok"))
      /\ outgoing' = (IF t = "network" THEN << >> ELSE outgoing)
      /\ keycmds' = (IF t = "keys" THEN << >> ELSE keycmds)
      /\ events' = (IF t = "emitter" THEN 0 ELSE events)
      /\ UNCHANGED <<requests, lists, net, held, forward, chan, exec>>
  BY Zenon DEF Ends
<1>2. \/ t = "manager" /\ incoming' = << >> /\ commands' = << >>
         /\ cached' = [i \in Instances |-> "absent"] /\ backlog' = [i \in Instances |-> << >>]
      \/ t # "manager" /\ UNCHANGED <<incoming, commands, cached, backlog>>
  BY Zenon DEF Ends
<1>3. task'[t] = pc /\ \A u \in Tasks : u # t => task'[u] = task[u]
  BY <1>1, OneTask, Zenon
<1>4. ClientsOK /\ NetworkOK /\ CommandsOK /\ HeldOK /\ CacheOK /\ ExecOK /\ PlacesOK
  BY DEF TypeInv
<1>5. PlacesOK'
  <2>1. t = "rpc" => pc \in {"ok", "err"}
    BY <1>1, Zenon DEF Returns, RpcReturns
  <2> QED
    BY <1>3, <1>4, <2>1 DEF PlacesOK, Tasks
<1>6. ClientsOK'
  <2>1. serving' \in BOOLEAN
    BY <1>1, Zenon
  <2> QED
    BY <1>1, <1>4, <2>1 DEF ClientsOK
<1>7. NetworkOK'
  <2>1. QueueOK(outgoing', Message, OutCap)
    BY <1>1, <1>4, QueueEmpty, CapacitiesType, Zenon DEF NetworkOK
  <2>2. QueueOK(incoming', Message, InCap)
    BY <1>2, <1>4, QueueEmpty, CapacitiesType, Zenon DEF NetworkOK
  <2> QED
    BY <1>1, <1>4, <2>1, <2>2 DEF NetworkOK
<1>8. CommandsOK'
  <2>1. QueueOK(commands', Command, CmdCap)
    BY <1>2, <1>4, QueueEmpty, CapacitiesType, Zenon DEF CommandsOK
  <2>2. QueueOK(keycmds', KeyCommand, CmdCap)
    BY <1>1, <1>4, QueueEmpty, CapacitiesType, Zenon DEF CommandsOK
  <2>3. events' \in 0..EvCap
    BY <1>1, <1>4, CapacitiesType DEF CommandsOK
  <2> QED
    BY <2>1, <2>2, <2>3 DEF CommandsOK
<1>9. HeldOK'
  <2>1. task'["network"] = "send" => task["network"] = "send"
    BY <1>3 DEF Tasks
  <2>2. CASE t = "manager"
    BY <1>1, <1>3, <1>4, <2>1, <2>2 DEF HeldOK
  <2>3. CASE t # "manager"
    <3>1. task'["manager"] = task["manager"] /\ cached' = cached /\ held' = held
      BY <1>1, <1>2, <1>3, <2>3 DEF Tasks
    <3> QED
      BY <1>4, <2>1, <3>1 DEF HeldOK
  <2> QED
    BY <2>2, <2>3
<1>10. CacheOK'
  <2>1. cached' \in [Instances -> {"absent", "running", "finished"}]
    BY <1>2, <1>4 DEF CacheOK
  <2>2. << >> \in Seq(Message)
    OBVIOUS
  <2>3. backlog' \in [Instances -> Seq(Message)]
    BY <1>2, <1>4, <2>2, Zenon DEF CacheOK
  <2> QED
    BY <1>1, <1>4, <2>1, <2>3 DEF CacheOK
<1>11. ExecOK'
  <2>1. CASE t = "manager"
    <3>1. Ended("manager")'
      BY <1>3, <2>1 DEF Ended
    <3> QED
      BY <1>1, <1>4, <3>1, Zenon DEF ExecOK
  <2>2. CASE t # "manager"
    <3>1. task'["manager"] = task["manager"] /\ cached' = cached /\ exec' = exec
      BY <1>1, <1>2, <1>3, <2>2 DEF Tasks
    <3> QED
      BY <1>4, <3>1 DEF ExecOK, Ended
  <2> QED
    BY <2>1, <2>2
<1> QED
  BY <1>1, <1>5, <1>6, <1>7, <1>8, <1>9, <1>10, <1>11, Stay, Zenon

\* A started executor moves on, with the number of its round.
LEMMA ExecMoves ==
  ASSUME TypeInv, NEW i \in Instances, exec[i].pc # "none", NEW pc \in ExecPlaces \ {"none"},
         NEW r \in 0..Rounds, pc \in {"started", "round"} => r < Rounds,
         UNCHANGED <<task, cached>>,
         exec' = [exec EXCEPT ![i] = [pc |-> pc, round |-> r]]
  PROVE  ExecOK'
<1>1. ExecOK
  BY DEF TypeInv
<1>2. exec' \in [Instances -> [pc : ExecPlaces, round : 0..Rounds]]
  BY <1>1 DEF ExecOK
<1>3. exec'[i].pc = pc /\ exec'[i].round = r /\ \A j \in Instances : j # i => exec'[j] = exec[j]
  BY <1>1 DEF ExecOK
<1>4. \A j \in Instances : exec'[j].pc \in {"started", "round"} => exec'[j].round < Rounds
  BY <1>1, <1>3 DEF ExecOK
<1>5. \A j \in Instances : exec'[j].pc = "none" => exec'[j].round = 0
  BY <1>1, <1>3 DEF ExecOK
<1>6. Ended("manager")' = Ended("manager")
  BY DEF Ended
<1>7. ~Ended("manager") => \A j \in Instances : cached'[j] = "absent" => exec'[j].pc = "none"
  BY <1>1, <1>3 DEF ExecOK
<1> QED
  BY <1>2, <1>4, <1>5, <1>6, <1>7 DEF ExecOK

\* exec' = [exec EXCEPT ![i].pc = pc] in the form of ExecMoves.
LEMMA ExecRecord ==
  ASSUME TypeInv, NEW i \in Instances, NEW pc
  PROVE  /\ [exec EXCEPT ![i].pc = pc] = [exec EXCEPT ![i] = [pc |-> pc, round |-> exec[i].round]]
         /\ exec[i].round \in 0..Rounds
<1>1. exec[i] \in [pc : ExecPlaces, round : 0..Rounds]
  BY DEF TypeInv, ExecOK
<1>2. [exec[i] EXCEPT !.pc = pc] = [pc |-> pc, round |-> exec[i].round] /\ exec[i].round \in 0..Rounds
  BY <1>1
<1>3. [exec EXCEPT ![i].pc = pc] = [exec EXCEPT ![i] = [exec[i] EXCEPT !.pc = pc]]
  BY Zenon
<1> QED
  BY <1>2, <1>3, Zenon

\* The channel of an executor that ends is emptied; another one loses its head at most.
LEMMA ChanTaken ==
  ASSUME TypeInv, NEW i \in Instances,
         chan' = chan \/ chan' = [chan EXCEPT ![i] = << >>]
           \/ (chan[i] # << >> /\ chan' = [chan EXCEPT ![i] = Tail(@)])
  PROVE  ChanType' /\ ChanOK'
<1>1. ChanType /\ ChanOK /\ chan[i] \in Seq(Message) /\ QueueOK(chan[i], Message, ChanCap)
  BY DEF TypeInv, ChanType, ChanOK
<1>2. ASSUME NEW q, QueueOK(q, Message, ChanCap), chan' = [chan EXCEPT ![i] = q] PROVE ChanType' /\ ChanOK'
  <2>1. q \in Seq(Message)
    BY <1>2 DEF QueueOK
  <2>2. ChanType'
    BY <1>1, <1>2, <2>1 DEF ChanType
  <2>3. \A j \in Instances : chan'[j] = IF j = i THEN q ELSE chan[j]
    BY <1>1, <1>2 DEF ChanType
  <2> QED
    BY <1>1, <1>2, <2>2, <2>3, Zenon DEF ChanOK
<1>3. QueueOK(<< >>, Message, ChanCap) /\ (chan[i] # << >> => QueueOK(Tail(chan[i]), Message, ChanCap))
  BY <1>1, QueueEmpty, QueueReceive, CapacitiesType
<1>4. CASE chan' = chan
  BY <1>1, <1>4 DEF ChanType, ChanOK
<1>5. CASE chan' = [chan EXCEPT ![i] = << >>]
  BY <1>2, <1>3, <1>5, Zenon
<1>6. CASE chan[i] # << >> /\ chan' = [chan EXCEPT ![i] = Tail(@)]
  BY <1>2, <1>3, <1>6, Zenon
<1> QED
  BY <1>4, <1>5, <1>6

\* ExecGoto.
LEMMA ExecGotoType ==
  ASSUME TypeInv, NEW i \in Instances, exec[i].pc # "none",
         NEW pc \in {"round", "finish", "report", "done", "panic"},
         pc = "round" => exec[i].round < Rounds,
         ExecGoto(i, pc), UNCHANGED <<task, cached>>
  PROVE  ExecOK' /\ ChanType' /\ ChanOK'
<1>1. exec' = [exec EXCEPT ![i] = [pc |-> pc, round |-> exec[i].round]] /\ exec[i].round \in 0..Rounds
  BY ExecRecord, Zenon DEF ExecGoto
<1>2. ExecOK'
  BY <1>1, ExecMoves, Zenon DEF ExecPlaces
<1>3. chan' = chan \/ chan' = [chan EXCEPT ![i] = << >>]
  BY Zenon DEF ExecGoto
<1> QED
  BY <1>2, <1>3, ChanTaken

\* An executor takes a further round only while one is left.
LEMMA ExecutorType ==
  ASSUME TypeInv, NEW i \in Instances, ExecutorStep(i)
  PROVE  PlacesOK' /\ ClientsOK' /\ NetworkOK' /\ CommandsOK' /\ HeldOK' /\ CacheOK' /\ ExecOK'
         /\ ChanType' /\ ChanOK'
<1> DEFINE Good == NetworkOK' /\ CommandsOK' /\ CacheOK' /\ ExecOK' /\ ChanType' /\ ChanOK'
<1>1. UNCHANGED <<task, serving, requests, lists, net, incoming, keycmds, held, cached, backlog>>
  BY Zenon DEF ExecutorStep, notExecutor, clients
<1>2. ExecOK /\ CommandsOK /\ NetworkOK
  BY DEF TypeInv
<1>3. ASSUME NEW from \in {"started", "finish"}, NEW pc \in {"round", "report"},
             from = "finish" => pc = "report", ExecEmits(i, from, pc)
      PROVE  Good
  <2>1. exec[i].pc = from /\ UNCHANGED <<outgoing, commands, forward>>
    BY <1>3, Zenon DEF ExecEmits
  <2>2. pc = "round" => exec[i].round < Rounds
    BY <1>2, <1>3, <2>1 DEF ExecOK
  <2>3. \/ ExecGoto(i, "panic") /\ events' = events
        \/ ExecGoto(i, pc) /\ events < EvCap /\ events' = events + 1
    BY <1>3, Zenon DEF ExecEmits
  <2>4. events' \in 0..EvCap
    BY <1>2, <2>3, CapacitiesType DEF CommandsOK
  <2>5. CommandsOK'
    BY <1>1, <1>2, <2>1, <2>4 DEF CommandsOK
  <2>6. ExecOK' /\ ChanType' /\ ChanOK'
    BY <1>1, <2>1, <2>2, <2>3, ExecGotoType
  <2> QED
    BY <1>1, <2>1, <2>5, <2>6, Stay, Zenon
<1>4. ASSUME exec[i].pc = "round", exec' = [exec EXCEPT ![i] = [pc |-> "receive", round |-> @.round + 1]]
      PROVE  ExecOK'
  <2>1. exec[i].round \in 0..Rounds /\ exec[i].round < Rounds
    BY <1>2, <1>4 DEF ExecOK
  <2>2. exec[i].round + 1 \in 0..Rounds
    BY <2>1, CapacitiesType
  <2>3. exec' = [exec EXCEPT ![i] = [pc |-> "receive", round |-> exec[i].round + 1]]
    BY <1>4, Zenon
  <2>4. "receive" \in ExecPlaces \ {"none"}
    BY DEF ExecPlaces
  <2> QED
    BY <1>1, <1>4, <2>2, <2>3, <2>4, ExecMoves, Zenon
<1>5. CASE ExecRoundSilent(i)
  <2>1. UNCHANGED <<chan, outgoing, events, commands, forward>>
    BY <1>5, Zenon DEF ExecRoundSilent
  <2>2. ExecOK'
    BY <1>4, <1>5 DEF ExecRoundSilent
  <2> QED
    BY <1>1, <2>1, <2>2, Stay, Zenon
<1>6. CASE ExecRound(i)
  <2>1. exec[i].pc = "round" /\ UNCHANGED <<events, commands, forward>>
    BY <1>6, Zenon DEF ExecRound
  <2>2. CASE Ended("network")
    <3>1. ExecGoto(i, "panic") /\ outgoing' = outgoing
      BY <1>6, <2>2, Zenon DEF ExecRound
    <3>2. ExecOK' /\ ChanType' /\ ChanOK'
      BY <1>1, <2>1, <3>1, ExecGotoType
    <3> QED
      BY <1>1, <2>1, <3>1, <3>2, Stay, Zenon
  <2>3. CASE ~Ended("network")
    <3>1. /\ Len(outgoing) < OutCap /\ outgoing' = Append(outgoing, [inst |-> i, from |-> "self"])
          /\ chan' = chan
      BY <1>6, <2>3, Zenon DEF ExecRound
    <3>2. ExecOK'
      BY <1>4, <1>6, <2>1, <2>3 DEF ExecRound
    <3>3. [inst |-> i, from |-> "self"] \in Message
      BY DEF Message
    <3>4. QueueOK(outgoing', Message, OutCap)
      BY <1>2, <3>1, <3>3, QueueSend, CapacitiesType DEF NetworkOK
    <3>5. NetworkOK'
      BY <1>1, <1>2, <3>4 DEF NetworkOK
    <3> QED
      BY <1>1, <2>1, <3>1, <3>2, <3>5, Stay, Zenon
  <2> QED
    BY <2>2, <2>3
<1>7. CASE ExecRoundFails(i) \/ ExecClosed(i)
  <2>1. /\ exec[i].pc \in {"round", "receive"} /\ ExecGoto(i, "finish")
        /\ UNCHANGED <<outgoing, events, commands, forward>>
    BY <1>7 DEF ExecRoundFails, ExecClosed
  <2>2. ExecOK' /\ ChanType' /\ ChanOK'
    BY <1>1, <2>1, ExecGotoType
  <2> QED
    BY <1>1, <2>1, <2>2, Stay, Zenon
<1>8. ASSUME NEW pc \in {"receive", "round", "finish", "panic"}, ExecReceives(i, pc) PROVE Good
  <2>1. /\ exec[i].pc = "receive" /\ chan[i] # << >> /\ (pc = "round" => exec[i].round < Rounds)
        /\ exec' = [exec EXCEPT ![i].pc = pc]
        /\ chan' = [chan EXCEPT ![i] = IF pc = "panic" THEN << >> ELSE Tail(@)]
        /\ UNCHANGED <<outgoing, events, commands, forward>>
    BY <1>8, Zenon DEF ExecReceives
  <2>2. exec' = [exec EXCEPT ![i] = [pc |-> pc, round |-> exec[i].round]] /\ exec[i].round \in 0..Rounds
    BY <2>1, ExecRecord, Zenon
  <2>3. ExecOK'
    BY <1>1, <2>1, <2>2, ExecMoves, Zenon DEF ExecPlaces
  <2>4. chan' = [chan EXCEPT ![i] = << >>] \/ chan' = [chan EXCEPT ![i] = Tail(@)]
    BY <2>1, Zenon
  <2>5. ChanType' /\ ChanOK'
    BY <2>1, <2>4, ChanTaken, Zenon
  <2> QED
    BY <1>1, <2>1, <2>3, <2>5, Stay, Zenon
<1>9. CASE ExecReports(i)
  <2>1. /\ exec[i].pc = "report" /\ ExecGoto(i, "done") /\ UNCHANGED <<outgoing, events, forward>>
        /\ commands' = commands \/ (Len(commands) < CmdCap /\ commands' = Append(commands, [op |-> "store", inst |-> i]))
    BY <1>9, Zenon DEF ExecReports
  <2>2. [op |-> "store", inst |-> i] \in Command
    BY DEF Command
  <2>3. QueueOK(commands', Command, CmdCap)
    BY <1>2, <2>1, <2>2, QueueSend, CapacitiesType, Zenon DEF CommandsOK
  <2>4. CommandsOK'
    BY <1>1, <1>2, <2>1, <2>3, Zenon DEF CommandsOK
  <2>5. ExecOK' /\ ChanType' /\ ChanOK'
    BY <1>1, <2>1, ExecGotoType
  <2> QED
    BY <1>1, <2>1, <2>4, <2>5, Stay, Zenon
<1>10. ExecEmits(i, "started", "round") \/ ExecEmits(i, "finish", "report") => Good
  BY <1>3
<1>11. Good
  BY <1>5, <1>6, <1>7, <1>8, <1>9, <1>10, Zenon DEF ExecutorStep
<1> QED
  BY <1>1, <1>11, Stay, Zenon

\* The backlog of an instance goes into its channel message by message.
LEMMA ForwardType ==
  ASSUME TypeInv, NEW i \in Instances, ForwardStep(i)
  PROVE  PlacesOK' /\ ClientsOK' /\ NetworkOK' /\ CommandsOK' /\ HeldOK' /\ CacheOK' /\ ExecOK'
         /\ ChanType' /\ ChanOK'
<1>1. UNCHANGED <<task, serving, requests, lists, net, outgoing, incoming, commands, keycmds, events, held,
                  cached, backlog, exec>>
  BY Zenon DEF ForwardStep, Forward, notExecutor, clients
<1>2. /\ forward[i] # << >> /\ forward' = [forward EXCEPT ![i] = Tail(@)]
      /\ chan' = chan \/ (Len(chan[i]) < ChanCap /\ chan' = [chan EXCEPT ![i] = Append(@, Head(forward[i]))])
  BY Zenon DEF ForwardStep, Forward
<1>3. CacheOK /\ ChanType /\ ChanOK
  BY DEF TypeInv
<1>4. forward[i] \in Seq(Message)
  BY <1>3 DEF CacheOK
<1>5. Head(forward[i]) \in Message /\ Tail(forward[i]) \in Seq(Message)
  BY <1>2, <1>4
<1>6. CacheOK'
  BY <1>1, <1>2, <1>3, <1>5 DEF CacheOK
<1>7. ChanType' /\ ChanOK'
  BY <1>2, <1>3, <1>5, ChanSend, CapacitiesType
<1> QED
  BY <1>1, <1>6, <1>7, Stay, Zenon

\* Every step keeps the types.
LEMMA TypeNext == TypeInv /\ [Next]_vars => TypeInv'
<1> SUFFICES ASSUME TypeInv, [Next]_vars PROVE TypeInv'
  OBVIOUS
<1> DEFINE Good == PlacesOK' /\ ClientsOK' /\ NetworkOK' /\ CommandsOK' /\ HeldOK' /\ CacheOK' /\ ExecOK'
                   /\ ChanType' /\ ChanOK'
<1>1. JoinInv'
  BY JoinNext DEF TypeInv
<1>2. ASSUME UNCHANGED vars PROVE Good
  <2>1. UNCHANGED <<task, serving, requests, lists, net, outgoing, incoming, commands, keycmds, events,
                    held, cached, backlog, forward, chan, exec>>
    BY <1>2, Zenon DEF vars, clients, network, manager
  <2> QED
    BY <2>1, Stay, Zenon
<1>3. ASSUME Next PROVE Good
  <2>1. \/ Main \/ Operator \/ Client \/ Network \/ KeysStep \/ EmitterStep \/ Manager
        \/ \E t \in Tasks, pc \in {"ok", "err", "panic"} : Ends(t, pc)
        \/ \E i \in Instances : ExecutorStep(i) \/ ForwardStep(i)
    BY <1>3 DEF Next, Step, Environment, Tasks
  <2>2. Main \/ Operator \/ Client \/ Network => Good
    BY MainType, ClientType, NetworkType, Zenon
  <2>3. KeysStep \/ EmitterStep \/ Manager => Good
    BY HelperType, ManagerType, Zenon
  <2>4. (\E t \in Tasks, pc \in {"ok", "err", "panic"} : Ends(t, pc)) => Good
    BY EndsType, Zenon
  <2>5. (\E i \in Instances : ExecutorStep(i) \/ ForwardStep(i)) => Good
    BY ExecutorType, ForwardType, Zenon
  <2> QED
    BY <2>1, <2>2, <2>3, <2>4, <2>5, Zenon
<1> QED
  BY <1>1, <1>2, <1>3, Zenon DEF TypeInv

\* Every variable of the node has its type and every channel stays within its capacity, for every
\* number of instances, peers, rounds and places: the sends of main, the managers, the RPC
\* handlers and the executors wait for room or fail, none overfills.
THEOREM TypeCorrect == Spec => []TypeOK
<1>1. Spec => []TypeInv
  BY TypeInit, TypeNext, PTL DEF Spec
<1> QED
  BY <1>1, TypeInvType, PTL

-----------------------------------------------------------------------------
(* start checks the cache before it awaits the key manager.                *)

\* An executor is spawned for an instance that has none and is not in the cache.
Spawns(i) ==
  exec'[i].pc = "started" /\ exec[i].pc # "started" => exec[i].pc = "none" /\ cached[i] = "absent"

\* No step spawns an executor for an instance that has one.
StartedOnce == [][\A i \in Instances : Spawns(i)]_vars

\* An executor never goes back to its start.
LEMMA ExecutorSpawns ==
  ASSUME TypeInv, NEW j \in Instances, ExecutorStep(j)
  PROVE  \A i \in Instances : Spawns(i)
<1> SUFFICES ASSUME NEW i \in Instances, exec'[i].pc = "started" PROVE exec[i].pc = "started"
  BY Zenon DEF Spawns
<1>1. exec \in [Instances -> [pc : ExecPlaces, round : 0..Rounds]]
  BY DEF TypeInv, ExecOK
<1>2. PICK pc \in ExecPlaces \ {"started"} :
        exec' = [exec EXCEPT ![j].pc = pc] \/ exec' = [exec EXCEPT ![j] = [pc |-> pc, round |-> @.round + 1]]
  <2>1. ASSUME NEW p \in ExecPlaces \ {"started"}, ExecGoto(j, p)
        PROVE  \E pc \in ExecPlaces \ {"started"} : exec' = [exec EXCEPT ![j].pc = pc]
    BY <2>1, Zenon DEF ExecGoto
  <2>2. /\ "round" \in ExecPlaces \ {"started"} /\ "receive" \in ExecPlaces \ {"started"}
        /\ "finish" \in ExecPlaces \ {"started"} /\ "report" \in ExecPlaces \ {"started"}
        /\ "done" \in ExecPlaces \ {"started"} /\ "panic" \in ExecPlaces \ {"started"}
    BY DEF ExecPlaces
  <2>3. CASE ExecEmits(j, "started", "round") \/ ExecEmits(j, "finish", "report")
    BY <2>1, <2>2, <2>3, Zenon DEF ExecEmits
  <2>4. CASE ExecRoundSilent(j)
    BY <2>2, <2>4, Zenon DEF ExecRoundSilent
  <2>5. CASE ExecRound(j)
    BY <2>1, <2>2, <2>5, Zenon DEF ExecRound
  <2>6. CASE ExecRoundFails(j) \/ ExecClosed(j) \/ ExecReports(j)
    BY <2>1, <2>2, <2>6, Zenon DEF ExecRoundFails, ExecClosed, ExecReports
  <2>7. CASE \E pc \in {"receive", "round", "finish", "panic"} : ExecReceives(j, pc)
    BY <2>7, Zenon DEF ExecReceives, ExecPlaces
  <2> QED
    BY <2>3, <2>4, <2>5, <2>6, <2>7, Zenon DEF ExecutorStep
<1>3. exec'[j].pc = pc /\ (i # j => exec'[i] = exec[i])
  BY <1>1, <1>2
<1> QED
  BY <1>2, <1>3

\* The instance manager spawns for the id it found absent before it asked for the key.
LEMMA ManagerSpawns ==
  ASSUME TypeInv, Manager
  PROVE  \A i \in Instances : Spawns(i)
<1>1. CASE exec' = exec
  BY <1>1, Zenon DEF Spawns
<1>2. CASE exec' # exec
  <2>1. task["manager"] = "answered" /\ exec' = [exec EXCEPT ![held["manager"].inst].pc = "started"]
    BY <1>2, Zenon DEF Manager, ManagerCreate, ManagerAsks, ManagerGetsNoAnswer, ManagerStarts, ManagerStores,
       ManagerStatus, ManagerIncoming, ManagerDelivers, ManagerTick, Goto
  <2> DEFINE k == held["manager"].inst
  <2>2. held["manager"] \in Message /\ cached[k] = "absent"
    BY <2>1 DEF TypeInv, HeldOK
  <2>3. k \in Instances
    BY <2>2 DEF Message
  <2>4. exec' = [exec EXCEPT ![k].pc = "started"]
    BY <2>1
  <2> HIDE DEF k
  <2>5. exec[k].pc = "none"
    BY <2>1, <2>2, <2>3 DEF TypeInv, ExecOK, Ended
  <2>6. \A i \in Instances : i # k => exec'[i] = exec[i]
    BY <2>3, <2>4 DEF TypeInv, ExecOK
  <2> QED
    BY <2>2, <2>5, <2>6, Zenon DEF Spawns
<1> QED
  BY <1>1, <1>2

\* The other tasks spawn nothing.
LEMMA SpawnStep == TypeInv /\ [Next]_vars => [\A i \in Instances : Spawns(i)]_vars
<1> SUFFICES ASSUME TypeInv, Next PROVE \A i \in Instances : Spawns(i)
  OBVIOUS
<1>1. ASSUME exec' = exec PROVE \A i \in Instances : Spawns(i)
  BY <1>1, Zenon DEF Spawns
<1>2. \/ exec' = exec
      \/ Manager
      \/ \E j \in Instances : ExecutorStep(j)
  <2>1. Main \/ Operator \/ Client \/ Network \/ KeysStep \/ EmitterStep => exec' = exec
    BY Zenon DEF Main, Operator, notMain, Client, Network, KeysStep, EmitterStep, notHelper
  <2>2. \A t, pc : Ends(t, pc) => exec' = exec
    BY Zenon DEF Ends
  <2>3. \A j : ForwardStep(j) => exec' = exec
    BY Zenon DEF ForwardStep, Forward
  <2> QED
    BY <2>1, <2>2, <2>3, Zenon DEF Next, Step, Environment
<1> QED
  BY <1>1, <1>2, ManagerSpawns, ExecutorSpawns, Zenon

\* InstanceManager::start looks for the id in the cache before it awaits the key manager and
\* spawns the executor after the answer: what it found still holds then, so that no instance is
\* started twice, however the requests, the answers, the shutdown and the failures of other tasks
\* interleave.
THEOREM InstanceStartedOnce == Spec => StartedOnce
<1>1. Spec => []TypeInv
  BY TypeInit, TypeNext, PTL DEF Spec
<1> QED
  BY <1>1, SpawnStep, PTL DEF Spec, StartedOnce
=============================================================================
