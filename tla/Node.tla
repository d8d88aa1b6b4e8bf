-------------------------------- MODULE Node --------------------------------
(***************************************************************************)
(* One server: main, which starts the tasks of a node, watches them and    *)
(* stops them; the network manager, the key manager, the event emitter,    *)
(* the instance manager, the RPC server and the executors; the bounded     *)
(* channels between them; and the Notify by which main asks them to stop.  *)
(*                                                                         *)
(* What the instance manager keeps of an instance, and what a protocol     *)
(* computes, is abstracted here to whether the instance runs: module       *)
(* InstanceManager has the detail.                                         *)
(*                                                                         *)
(* A task that waits in its select! is registered with the Notify, any     *)
(* other is not, and notify_waiters reaches only those registered.  A task *)
(* that was reached may still find another branch ready and take it; the   *)
(* notification is then gone.                                              *)
(***************************************************************************)
EXTENDS Integers, Sequences, Functions

CONSTANTS
  Instances,    \* instance ids
  Peers,        \* the other nodes
  OutCap,       \* places in the channel from the executors to the network manager
  InCap,        \* places in the channel from the network manager to the instance manager
  CmdCap,       \* places in the command channels of instance manager and key manager
  EvCap,        \* places in the channel to the emitter
  ChanCap,      \* places in the channel of an instance
  Rounds,       \* rounds of a protocol
  MaxRequests,  \* bound: requests of clients
  MaxLists      \* bound: get_public_keys calls of clients

ASSUME CapAssumption == {OutCap, InCap, CmdCap, EvCap, ChanCap, Rounds} \subseteq Nat \ {0}
ASSUME BoundAssumption == {MaxRequests, MaxLists} \subseteq Nat

VARIABLES
  main,      \* where main is
  handles,   \* the JoinHandles main has yet to await
  joined,    \* tasks whose JoinHandle was polled to its end and is still in handles
  task,      \* where every task is
  woken,     \* tasks that notify_waiters has reached and that were not polled since
  serving,   \* whether the tonic server, with the senders of RpcRequestHandler, is there
  requests,  \* how many requests clients have made
  lists,     \* how many get_public_keys calls clients have made
  net,       \* messages of other nodes that gossip has not delivered
  outgoing,  \* prot_to_net
  incoming,  \* net_to_prot
  commands,  \* the command channel of the instance manager
  keycmds,   \* the command channel of the key manager
  events,    \* how many events are in the channel of the emitter
  held,      \* the message a task is trying to send
  cached,    \* what the instance manager knows of an instance
  backlog,   \* messages for instances not started
  chan,      \* the channels of the instances
  forward,   \* what forward_backlogged_messages has still to send
  exec       \* where every executor is

server == <<main, handles, joined>>
clients == <<serving, requests, lists>>
network == <<net, outgoing, incoming>>
manager == <<cached, backlog, forward>>
vars == <<server, task, woken, clients, network, commands, keycmds, events, held, manager, chan, exec>>

Tasks == {"network", "keys", "emitter", "manager", "rpc"}

Ended(t) == task[t] \in {"ok", "err", "panic"}

ExecEnded(i) == exec[i].pc \in {"none", "done", "panic"}

\* A share of this node, or of another one, for an instance.
Message == [inst : Instances, from : Peers \cup {"self"}]

NoMessage == [inst |-> "none", from |-> "none"]

\* What start_server leaves, when every task has been polled once.
Init ==
  /\ main = "monitor"
  /\ handles = <<"network", "keys", "emitter", "manager", "rpc">>
  /\ joined = {}
  /\ task = [t \in Tasks |-> IF t = "network" THEN "init" ELSE "select"]
  /\ woken = {}
  /\ serving = TRUE
  /\ requests = 0
  /\ lists = 0
  /\ net = [inst : Instances, from : Peers]
  /\ outgoing = << >>
  /\ incoming = << >>
  /\ commands = << >>
  /\ keycmds = << >>
  /\ events = 0
  /\ held = [t \in {"network", "manager"} |-> NoMessage]
  /\ cached = [i \in Instances |-> "absent"]
  /\ backlog = [i \in Instances |-> << >>]
  /\ chan = [i \in Instances |-> << >>]
  /\ forward = [i \in Instances |-> << >>]
  /\ exec = [i \in Instances |-> [pc |-> "none", round |-> 0]]

-----------------------------------------------------------------------------
(* main.                                                                   *)

\* Mutant: the notification also reaches the tasks that are in a handler.
NotifyEveryone == woken' = {t \in Tasks : ~Ended(t)}

\* shutdown_notify.notify_waiters(): it reaches the tasks that wait in their select!.
Notify == woken' = {t \in Tasks : task[t] = "select"}

CtrlC ==
  /\ main = "monitor"
  /\ main' = "join"
  /\ Notify
  /\ UNCHANGED <<handles, joined>>

\* Vec::remove.
Without(s, i) == SubSeq(s, 1, i - 1) \o SubSeq(s, i + 1, Len(s))

\* Mutant: the first handle is removed instead of the one that was ready.
TaskFailureFirst(i) ==
  /\ main = "monitor"
  /\ Ended(handles[i])
  /\ main' = "join"
  /\ Notify
  /\ IF task[handles[i]] = "panic"
     THEN joined' = joined \cup {handles[i]} /\ UNCHANGED handles
     ELSE handles' = Tail(handles) /\ UNCHANGED joined

\* Mutant: a task that panicked is not seen, only one that returned.
TaskFailureReturned(i) ==
  /\ main = "monitor"
  /\ Ended(handles[i]) /\ task[handles[i]] # "panic"
  /\ main' = "join"
  /\ Notify
  /\ handles' = Without(handles, i)
  /\ UNCHANGED joined

\* monitor_for_task_failure: the handle of a task that returned is removed, the handle of
\* one that panicked stays in the list.
TaskFailure(i) ==
  /\ main = "monitor"
  /\ Ended(handles[i])
  /\ main' = "join"
  /\ Notify
  /\ IF task[handles[i]] = "panic"
     THEN joined' = joined \cup {handles[i]} /\ UNCHANGED handles
     ELSE handles' = Without(handles, i) /\ UNCHANGED joined

\* The handles are awaited in their order, up to the k-th: all of them, or up to one that the
\* monitor has polled to its end already, where a second await panics.
Join(k) ==
  /\ main = "join"
  /\ \A j \in 1..(k - 1) : Ended(handles[j]) /\ handles[j] \notin joined
  /\ IF k > Len(handles) THEN main' = "done" ELSE handles[k] \in joined /\ main' = "panic"
  /\ UNCHANGED <<handles, joined, woken>>

notMain == <<task, clients, network, commands, keycmds, events, held, manager, chan, exec>>

Main ==
  /\ (\E i \in DOMAIN handles : TaskFailure(i)) \/ (\E k \in 1..(Len(handles) + 1) : Join(k))
  /\ UNCHANGED notMain

Operator == CtrlC /\ UNCHANGED notMain

-----------------------------------------------------------------------------
(* What all tasks have in common.                                          *)

\* A branch of the select! other than the shutdown is taken; pc is where it leads.
Select(t, pc) ==
  /\ task[t] = "select"
  /\ task' = [task EXCEPT ![t] = pc]
  /\ woken' = woken \ {t}

\* The task goes on, or ends, outside of its select!.
Goto(t, from, pc) ==
  /\ task[t] = from
  /\ task' = [task EXCEPT ![t] = pc]
  /\ UNCHANGED woken

-----------------------------------------------------------------------------
(* Clients, as the handlers of RpcRequestHandler.                          *)

Command == [op : {"create", "store", "status"}, inst : Instances]

\* A command of the key manager is told by who waits for its answer.
KeyCommand == {"client", "manager"}

\* A handler whose command channel is closed panics in its own task.
ClientRequests(i) ==
  /\ serving /\ requests < MaxRequests
  /\ requests' = requests + 1
  /\ IF Ended("manager") THEN UNCHANGED commands
     ELSE /\ Len(commands) < CmdCap
          /\ commands' = Append(commands, [op |-> "create", inst |-> i])
  /\ UNCHANGED <<lists, keycmds>>

ClientAsksStatus(i) ==
  /\ serving /\ lists < MaxLists
  /\ lists' = lists + 1
  /\ IF Ended("manager") THEN UNCHANGED commands
     ELSE /\ Len(commands) < CmdCap
          /\ commands' = Append(commands, [op |-> "status", inst |-> i])
  /\ UNCHANGED <<requests, keycmds>>

ClientListsKeys ==
  /\ serving /\ lists < MaxLists
  /\ lists' = lists + 1
  /\ IF Ended("keys") THEN UNCHANGED keycmds
     ELSE /\ Len(keycmds) < CmdCap
          /\ keycmds' = Append(keycmds, "client")
  /\ UNCHANGED <<requests, commands>>

Client ==
  /\ (\E i \in Instances : ClientRequests(i) \/ ClientAsksStatus(i)) \/ ClientListsKeys
  /\ UNCHANGED <<server, task, woken, serving, network, events, held, manager, chan, exec>>

-----------------------------------------------------------------------------
(* The network manager.                                                    *)

\* P2PComponent::init has found a first peer.
NetworkInit ==
  /\ Goto("network", "init", "select")
  /\ UNCHANGED <<network, held>>

\* Mutant: the message is published and not kept.
NetworkPublishes ==
  /\ outgoing # << >>
  /\ Select("network", "select")
  /\ outgoing' = Tail(outgoing)
  /\ UNCHANGED <<net, incoming, held>>

\* An outgoing message is published, whether that succeeds or not, and kept to be looped back.
NetworkOutgoing ==
  /\ outgoing # << >>
  /\ Select("network", "send")
  /\ held' = [held EXCEPT !["network"] = Head(outgoing)]
  /\ outgoing' = Tail(outgoing)
  /\ UNCHANGED <<net, incoming>>

\* A message of another node, of Channel::Gossip or addressed to this node.
NetworkGossip(m) ==
  /\ m \in net
  /\ Select("network", "send")
  /\ held' = [held EXCEPT !["network"] = m]
  /\ net' = net \ {m}
  /\ UNCHANGED <<outgoing, incoming>>

\* A message of Channel::PointToPoint that is addressed to others.
NetworkSkips(m) ==
  /\ m \in net
  /\ Select("network", "select")
  /\ net' = net \ {m}
  /\ UNCHANGED <<outgoing, incoming, held>>

\* send(..).await on incoming returns when there is room, or an error when there is no receiver.
NetworkSends ==
  /\ Goto("network", "send", "select")
  /\ IF Ended("manager") THEN UNCHANGED incoming
     ELSE Len(incoming) < InCap /\ incoming' = Append(incoming, held["network"])
  /\ held' = [held EXCEPT !["network"] = NoMessage]
  /\ UNCHANGED <<net, outgoing>>

Network ==
  /\ \/ NetworkInit
     \/ NetworkOutgoing
     \/ \E m \in net : NetworkGossip(m) \/ NetworkSkips(m)
     \/ NetworkSends
  /\ UNCHANGED <<server, clients, commands, keycmds, events, manager, chan, exec>>

-----------------------------------------------------------------------------
(* The key manager and the emitter.                                        *)

\* The answer to the instance manager lets its start go on.
KeysAnswer ==
  /\ keycmds # << >>
  /\ task["keys"] = "select"
  /\ woken' = woken \ {"keys"}
  /\ task' = IF Head(keycmds) = "manager" THEN [task EXCEPT !["manager"] = "answered"] ELSE task
  /\ keycmds' = Tail(keycmds)
  /\ UNCHANGED events

EmitterWrites ==
  /\ events > 0
  /\ Select("emitter", "select")
  /\ events' = events - 1
  /\ UNCHANGED keycmds

notHelper == <<server, clients, network, commands, held, manager, chan, exec>>

KeysStep == KeysAnswer /\ UNCHANGED notHelper

EmitterStep == EmitterWrites /\ UNCHANGED notHelper

-----------------------------------------------------------------------------
(* The instance manager.                                                   *)

HeadCommand(op) == commands # << >> /\ Head(commands).op = op

\* start: an id that is in the cache is not started again, otherwise the key is asked for.
ManagerCreate ==
  /\ HeadCommand("create")
  /\ LET i == Head(commands).inst
     IN  IF cached[i] # "absent" THEN Select("manager", "select") /\ UNCHANGED held
         ELSE /\ Select("manager", "ask")
              /\ held' = [held EXCEPT !["manager"] = [inst |-> i, from |-> "self"]]
  /\ commands' = Tail(commands)
  /\ UNCHANGED <<incoming, keycmds, manager, chan, exec>>

\* get_key_by_id, get_key_by_scheme_and_group: the command, then the answer.
ManagerAsks ==
  /\ IF Ended("keys")
     THEN /\ Goto("manager", "ask", "select")
          /\ held' = [held EXCEPT !["manager"] = NoMessage]
          /\ UNCHANGED keycmds
     ELSE /\ Goto("manager", "ask", "wait")
          /\ Len(keycmds) < CmdCap
          /\ keycmds' = Append(keycmds, "manager")
          /\ UNCHANGED held
  /\ UNCHANGED <<commands, incoming, manager, chan, exec>>

ManagerGetsNoAnswer ==
  /\ Ended("keys")
  /\ Goto("manager", "wait", "select")
  /\ held' = [held EXCEPT !["manager"] = NoMessage]
  /\ UNCHANGED <<commands, incoming, keycmds, manager, chan, exec>>

\* With the key the instance is cached, its executor spawned and the backlog handed over to
\* a task of its own; without a key nothing is started.
ManagerStarts(found) ==
  /\ Goto("manager", "answered", "select")
  /\ LET i == held["manager"].inst
     IN  IF found
         THEN /\ cached' = [cached EXCEPT ![i] = "running"]
              /\ exec' = [exec EXCEPT ![i].pc = "started"]
              /\ forward' = [forward EXCEPT ![i] = backlog[i]]
              /\ backlog' = [backlog EXCEPT ![i] = << >>]
         ELSE UNCHANGED <<manager, exec>>
  /\ held' = [held EXCEPT !["manager"] = NoMessage]
  /\ UNCHANGED <<commands, incoming, keycmds, chan>>

\* StoreResult and UpdateInstanceStatus.
ManagerStores ==
  /\ HeadCommand("store")
  /\ Select("manager", "select")
  /\ cached' = [cached EXCEPT ![Head(commands).inst] = "finished"]
  /\ commands' = Tail(commands)
  /\ UNCHANGED <<incoming, keycmds, held, backlog, forward, chan, exec>>

\* The answer to a status request.
ManagerStatus ==
  /\ HeadCommand("status")
  /\ Select("manager", "select")
  /\ commands' = Tail(commands)
  /\ UNCHANGED <<incoming, keycmds, held, manager, chan, exec>>

ManagerIncoming ==
  /\ incoming # << >>
  /\ LET m == Head(incoming)
     IN  \/ /\ cached[m.inst] = "running"
            /\ Select("manager", "deliver")
            /\ held' = [held EXCEPT !["manager"] = m]
            /\ UNCHANGED backlog
         \/ /\ cached[m.inst] = "finished"
            /\ Select("manager", "select")
            /\ UNCHANGED <<held, backlog>>
         \/ /\ cached[m.inst] = "absent"
            /\ Select("manager", "select")
            /\ backlog' = [backlog EXCEPT ![m.inst] = Append(@, m)]
            /\ UNCHANGED held
  /\ incoming' = Tail(incoming)
  /\ UNCHANGED <<commands, keycmds, cached, forward, chan, exec>>

\* send_message: it returns when there is room, or an error when the executor is gone.
ManagerDelivers ==
  /\ Goto("manager", "deliver", "select")
  /\ LET i == held["manager"].inst
     IN  IF ExecEnded(i) THEN UNCHANGED chan
         ELSE Len(chan[i]) < ChanCap /\ chan' = [chan EXCEPT ![i] = Append(@, held["manager"])]
  /\ held' = [held EXCEPT !["manager"] = NoMessage]
  /\ UNCHANGED <<commands, incoming, keycmds, manager, exec>>

\* A tick of the backlog interval deletes the old entries: any, or none, without their age.
ManagerTick(I) ==
  /\ Select("manager", "select")
  /\ backlog' = [i \in Instances |-> IF i \in I THEN << >> ELSE backlog[i]]
  /\ UNCHANGED <<commands, incoming, keycmds, held, cached, forward, chan, exec>>

Manager ==
  /\ \/ ManagerCreate
     \/ ManagerAsks
     \/ ManagerGetsNoAnswer
     \/ \E found \in BOOLEAN : ManagerStarts(found)
     \/ ManagerStores
     \/ ManagerStatus
     \/ ManagerIncoming
     \/ ManagerDelivers
     \/ \E I \in SUBSET Instances : ManagerTick(I)
  /\ UNCHANGED <<server, clients, net, outgoing, events>>

-----------------------------------------------------------------------------
(* Executors, and the tasks that hand over the backlog.                    *)

\* The executor reaches pc; its channel goes with it when it ends.
ExecGoto(i, pc) ==
  /\ exec' = [exec EXCEPT ![i].pc = pc]
  /\ chan' = IF pc \in {"done", "panic"} THEN [chan EXCEPT ![i] = << >>] ELSE chan

\* Mutant: the channel to an emitter that has ended is not closed.
ExecEmitsWaits(i, from, pc) ==
  /\ exec[i].pc = from
  /\ events < EvCap /\ events' = events + 1 /\ ExecGoto(i, pc)
  /\ UNCHANGED <<outgoing, commands, forward>>

\* An event is sent to the emitter; if it has ended the unwrap panics.
ExecEmits(i, from, pc) ==
  /\ exec[i].pc = from
  /\ IF Ended("emitter") THEN ExecGoto(i, "panic") /\ UNCHANGED events
     ELSE events < EvCap /\ events' = events + 1 /\ ExecGoto(i, pc)
  /\ UNCHANGED <<outgoing, commands, forward>>

\* do_round without a message, as on a node that is not among the signers.
ExecRoundSilent(i) ==
  /\ exec[i].pc = "round"
  /\ exec' = [exec EXCEPT ![i] = [pc |-> "receive", round |-> @.round + 1]]
  /\ UNCHANGED <<chan, outgoing, events, commands, forward>>

\* do_round, and its message to the network manager; if that has ended the unwrap panics.
ExecRound(i) ==
  /\ exec[i].pc = "round"
  /\ IF Ended("network") THEN ExecGoto(i, "panic") /\ UNCHANGED outgoing
     ELSE /\ Len(outgoing) < OutCap
          /\ outgoing' = Append(outgoing, [inst |-> i, from |-> "self"])
          /\ exec' = [exec EXCEPT ![i] = [pc |-> "receive", round |-> @.round + 1]]
          /\ UNCHANGED chan
  /\ UNCHANGED <<events, commands, forward>>

\* do_round fails.
ExecRoundFails(i) ==
  /\ exec[i].pc = "round"
  /\ ExecGoto(i, "finish")
  /\ UNCHANGED <<outgoing, events, commands, forward>>

\* One message: update, and then another message, another round, or the end; the unwrap
\* panics on a message that is not one of the protocol.
ExecReceives(i, pc) ==
  /\ exec[i].pc = "receive"
  /\ chan[i] # << >>
  /\ pc = "round" => exec[i].round < Rounds
  /\ exec' = [exec EXCEPT ![i].pc = pc]
  /\ chan' = [chan EXCEPT ![i] = IF pc = "panic" THEN << >> ELSE Tail(@)]
  /\ UNCHANGED <<outgoing, events, commands, forward>>

\* The senders are gone: the instance in the manager's cache and the forwarding task.
ExecClosed(i) ==
  /\ exec[i].pc = "receive"
  /\ chan[i] = << >> /\ forward[i] = << >> /\ Ended("manager")
  /\ ExecGoto(i, "finish")
  /\ UNCHANGED <<outgoing, events, commands, forward>>

\* execute_protocol reports to the instance manager, if that is still there.
ExecReports(i) ==
  /\ exec[i].pc = "report"
  /\ IF Ended("manager") THEN UNCHANGED commands
     ELSE /\ Len(commands) < CmdCap
          /\ commands' = Append(commands, [op |-> "store", inst |-> i])
  /\ ExecGoto(i, "done")
  /\ UNCHANGED <<outgoing, events, forward>>

Forward(i) ==
  /\ forward[i] # << >>
  /\ IF ExecEnded(i) THEN UNCHANGED chan
     ELSE Len(chan[i]) < ChanCap /\ chan' = [chan EXCEPT ![i] = Append(@, Head(forward[i]))]
  /\ forward' = [forward EXCEPT ![i] = Tail(@)]
  /\ UNCHANGED <<outgoing, events, commands, exec>>

notExecutor == <<server, task, woken, clients, net, incoming, keycmds, held, cached, backlog>>

ExecutorStep(i) ==
  /\ \/ ExecEmits(i, "started", "round")
     \/ ExecRoundSilent(i)
     \/ ExecRound(i)
     \/ ExecRoundFails(i)
     \/ \E pc \in {"receive", "round", "finish", "panic"} : ExecReceives(i, pc)
     \/ ExecClosed(i)
     \/ ExecEmits(i, "finish", "report")
     \/ ExecReports(i)
  /\ UNCHANGED notExecutor

ForwardStep(i) == Forward(i) /\ UNCHANGED notExecutor

-----------------------------------------------------------------------------
(* How tasks end.                                                          *)

\* Nobody holds a sender of the channel any more: senders of outgoing are in the instance
\* manager and the executors, one of incoming in the network manager, those of the key
\* manager and the emitter in the instance manager and the RPC handler as well.
OutgoingClosed == outgoing = << >> /\ Ended("manager") /\ \A i \in Instances : ExecEnded(i)

IncomingClosed == incoming = << >> /\ Ended("network")

KeysClosed == keycmds = << >> /\ Ended("manager") /\ ~serving

EventsClosed == events = 0 /\ Ended("manager") /\ ~serving /\ \A i \in Instances : ExecEnded(i)

\* init finds no first peer within 30 seconds, or cannot listen, and panics on an address that
\* does not parse; the executors and the instance manager have dropped their senders; deliver
\* panics on a message that does not decode, and run on one of Channel::TOB.
NetworkReturns(pc) ==
  \/ task["network"] = "init" /\ pc \in {"err", "panic"}
  \/ task["network"] = "select" /\ OutgoingClosed /\ pc = "err"
  \/ task["network"] = "select" /\ net # {} /\ pc = "panic"

\* The panic: the client that waited for the answer has gone.
KeysReturns(pc) ==
  /\ task["keys"] = "select"
  /\ \/ KeysClosed /\ pc = "err"
     \/ keycmds # << >> /\ Head(keycmds) = "client" /\ pc = "panic"

\* The panic: an event cannot be written.
EmitterReturns(pc) ==
  /\ task["emitter"] = "select"
  /\ (EventsClosed /\ pc = "err") \/ (events > 0 /\ pc = "panic")

\* The panic: the client that waited for the status has gone.
ManagerReturns(pc) ==
  /\ task["manager"] = "select"
  /\ (IncomingClosed /\ pc = "err") \/ (HeadCommand("status") /\ pc = "panic")

\* The RPC server ends before it serves anybody: it cannot bind, which run reports as Ok, or the
\* address does not parse and its task panics, which run reports as Err.
RpcReturns(pc) == task["rpc"] = "select" /\ requests = 0 /\ lists = 0 /\ pc \in {"ok", "err"}

\* The ways out of run, for every task: the shutdown branch and its own.
Returns(t, pc) ==
  \/ t \in woken /\ pc = "ok"
  \/ t = "network" /\ NetworkReturns(pc)
  \/ t = "keys" /\ KeysReturns(pc)
  \/ t = "emitter" /\ EmitterReturns(pc)
  \/ t = "manager" /\ ManagerReturns(pc)
  \/ t = "rpc" /\ RpcReturns(pc)

\* A task that ends drops what it owns: the receiver of its channel with what is in it, and the
\* instance manager its cache and backlog.  The spawned RPC server goes on when the task that
\* waits for it is told to stop.
Ends(t, pc) ==
  /\ Returns(t, pc)
  /\ task' = [task EXCEPT ![t] = pc]
  /\ woken' = woken \ {t}
  /\ serving' = (serving /\ (t = "rpc" => t \in woken /\ pc = "ok"))
  /\ outgoing' = IF t = "network" THEN << >> ELSE outgoing
  /\ keycmds' = IF t = "keys" THEN << >> ELSE keycmds
  /\ events' = IF t = "emitter" THEN 0 ELSE events
  /\ IF t = "manager"
     THEN /\ incoming' = << >> /\ commands' = << >>
          /\ cached' = [i \in Instances |-> "absent"]
          /\ backlog' = [i \in Instances |-> << >>]
     ELSE UNCHANGED <<incoming, commands, cached, backlog>>
  /\ UNCHANGED <<server, requests, lists, net, held, forward, chan, exec>>

-----------------------------------------------------------------------------
\* The process is there until main returns or panics.
Up == main \notin {"done", "panic"}

\* What the runtime does by itself.
Step ==
  \/ Main
  \/ Network
  \/ KeysStep
  \/ EmitterStep
  \/ Manager
  \/ \E t \in Tasks, pc \in {"ok", "err", "panic"} : (t = "rpc" => t \in woken) /\ Ends(t, pc)
  \/ \E i \in Instances : ExecutorStep(i) \/ ForwardStep(i)

\* What need not happen: an operator, the clients, an RPC server that fails.
Environment ==
  \/ Operator
  \/ Client
  \/ \E pc \in {"ok", "err"} : "rpc" \notin woken /\ Ends("rpc", pc)

Next == Up /\ (Step \/ Environment)

Spec == Init /\ [][Next]_vars

\* The runtime polls some task that can get on, as long as there is one.  Which one is open, and
\* so is whether a peer is found and whether an event can be written.
Fairness == WF_vars(Up /\ Step)

FairSpec == Spec /\ Fairness

-----------------------------------------------------------------------------
TaskStates ==
  [network : {"init", "select", "send", "ok", "err", "panic"},
   keys : {"select", "ok", "err", "panic"},
   emitter : {"select", "ok", "err", "panic"},
   manager : {"select", "ask", "wait", "answered", "deliver", "ok", "err", "panic"},
   rpc : {"select", "ok", "err"}]

\* The values of the variables, the channels within their capacities.
TypeOK ==
  /\ main \in {"monitor", "join", "done", "panic"}
  /\ handles \in Seq(Tasks) /\ joined \subseteq Tasks
  /\ task \in TaskStates /\ woken \subseteq {t \in Tasks : task[t] = "select"}
  /\ serving \in BOOLEAN /\ requests \in 0..MaxRequests /\ lists \in 0..MaxLists
  /\ net \subseteq Message
  /\ outgoing \in Seq(Message) /\ Len(outgoing) <= OutCap
  /\ incoming \in Seq(Message) /\ Len(incoming) <= InCap
  /\ commands \in Seq(Command) /\ Len(commands) <= CmdCap
  /\ keycmds \in Seq(KeyCommand) /\ Len(keycmds) <= CmdCap
  /\ events \in 0..EvCap
  /\ held \in [{"network", "manager"} -> Message \cup {NoMessage}]
  /\ cached \in [Instances -> {"absent", "running", "finished"}]
  /\ backlog \in [Instances -> Seq(Message)] /\ forward \in [Instances -> Seq(Message)]
  /\ chan \in [Instances -> Seq(Message)] /\ \A i \in Instances : Len(chan[i]) <= ChanCap
  /\ exec \in [Instances -> [pc : {"none", "started", "round", "receive", "finish", "report", "done", "panic"},
                             round : 0..Rounds]]

\* main says "Shutdown complete" only when no task is left: also when the monitor removed the
\* handle of the task that failed, by its index.  It panics instead, on a JoinHandle awaited
\* twice, only after a task panicked.
JoinedAll ==
  /\ main = "done" => \A t \in Tasks : Ended(t)
  /\ main = "panic" => \E t \in Tasks : task[t] = "panic"

\* An executor that sends an event, a share or its report gets on: the receiver makes room, or
\* has ended and the send fails.  That takes a channel with room for all the messages of an
\* instance: otherwise the instance manager waits for the executor, the network manager for
\* the instance manager, and the executor for the network manager.
SendersGetOn ==
  \A i \in Instances :
    exec[i].pc \in {"started", "round", "finish", "report"} ~> (exec[i].pc \in {"receive", "done", "panic"} \/ ~Up)

Own(i) == [inst |-> i, from |-> "self"]

\* The share a node sends counts on the node itself: the network manager loops it back and the
\* instance manager delivers it, unless one of the three has ended before.
OwnShareReturns ==
  \A i \in Instances :
    Own(i) \in Range(outgoing) ~>
      (Own(i) \in Range(chan[i]) \/ ExecEnded(i) \/ Ended("network") \/ Ended("manager") \/ ~Up)

Quiet ==
  /\ outgoing = << >> /\ incoming = << >> /\ commands = << >> /\ keycmds = << >> /\ events = 0
  /\ net = {} /\ task["network"] # "send"

\* A node on which nothing arrives any more stops, all of its tasks, when the operator asks and
\* when one of its tasks has ended, even with a panic: the other tasks are in their select! and
\* hear of it, and the RPC server that goes on does not keep them.  An instance manager whose
\* backlog interval ticks at that moment misses the shutdown, but ends when the network manager
\* has closed its channel.
QuietNodeStops ==
  (/\ main = "join" \/ \E t \in Tasks : Ended(t)
   /\ \A t \in Tasks : Ended(t) \/ (task[t] = "select" /\ (main = "join" => t \in woken))
   /\ []Quiet) ~> ~Up

\* What the messages of main promise: all components are notified, and awaited, of the shutdown.
ShutdownCompletes == main = "join" ~> ~Up
=============================================================================
