--------------------------- MODULE InstanceManager ---------------------------
(***************************************************************************)
(* The InstanceManager of one node with everything it shares state with:   *)
(* the RPC handlers that send it commands and wait on oneshot responders,  *)
(* one executor task per protocol instance, the tasks that forward         *)
(* backlogged messages, and the channel of messages from the network.      *)
(*                                                                         *)
(* An RPC that creates an instance creates at most one, so a call also     *)
(* names the incarnation it created: its executor, its message channel and *)
(* its forwarding task.  The id of an instance is a hash of the request,   *)
(* so several calls may have the same id, at once or one after another.    *)
(* A result is the outcome of one executor: [ok, of], of being the call    *)
(* whose executor computed it.                                             *)
(***************************************************************************)
EXTENDS Integers, Sequences, FiniteSets

CONSTANTS
  Ids,         \* instance ids
  Calls,       \* RPC calls
  Tags,        \* messages that the network may hand to this node
  BadTags,     \* those whose payload is not a message of the protocol
  Kinds,       \* the kinds of RPC that the clients use
  NoResult,    \* the None of Instance::result
  Capacity,    \* InstanceCache::capacity
  ScanLength,  \* INSTANCE_CACHE_CLEANUP_SCAN_LENGTH
  CmdCap,      \* capacity of the command channel
  ChanCap      \* capacity of the message channel of an instance

Result == [ok : BOOLEAN, of : Calls]

CreateKinds == {"sync", "async", "coin"}

ASSUME KindsAssumption == Kinds \subseteq CreateKinds \cup {"status"}
ASSUME BadTagsAssumption == BadTags \subseteq Tags
ASSUME NoResultAssumption == NoResult \notin Result
ASSUME CacheAssumption == Capacity \in Nat /\ ScanLength \in Nat
ASSUME ChannelAssumption == CmdCap \in Nat \ {0} /\ ChanCap \in Nat \ {0}

VARIABLES
  request,              \* what each call asks for
  pc,                   \* where the RPC handler of each call is
  reply,                \* what the client was answered
  commands,             \* the InstanceManagerCommand channel
  net,                  \* tags the network has not handed over yet
  incoming,             \* the channel of messages from the network
  manager,              \* where the manager's select loop is
  held,                 \* the message the manager is sending, and to whom
  instance_data,        \* InstanceCache: id -> Instance, a partial function
  terminated_instances, \* InstanceCache: ids eligible for ejection, oldest first
  backlog,              \* id -> BacklogData, a partial function
  executor,             \* where the executor task of each call is
  chan,                 \* the message channel of each instance
  forward               \* messages each forwarding task still has to send

rpcVars == <<request, pc, reply>>
cacheVars == <<instance_data, terminated_instances>>
msgVars == <<net, incoming, held, backlog, chan, forward>>
vars == <<request, pc, reply, commands, net, incoming, manager, held,
          instance_data, terminated_instances, backlog, executor, chan, forward>>

-----------------------------------------------------------------------------
(* Types *)

\* The calls are created once and for all with what their client will ask for.
Request == [kind : Kinds, id : Ids]

\* "send": wants to put its command in the channel; "wait": waits on the first
\* responder; "waitResult": a synchronous call that waits on the second one;
\* "gone": the client went away and the handler's future was dropped.
PcStates == {"idle", "send", "wait", "waitResult", "done", "gone"}

\* "id": Ok with the instance id only; "result" and "error": the outcome of the
\* protocol; "pending", "notfound": answers of get_status; "aborted": the
\* instance could not be created; "unable_id", "unable_result": the first, the
\* second responder was dropped unused; "panic": the handler panicked.
Answers == {"none", "id", "result", "error", "pending", "notfound", "aborted",
            "unable_id", "unable_result", "panic"}

Reply == [what : Answers, of : Calls]

\* InstanceManagerCommand.  call: the call whose responder a "create" or "status"
\* carries, or whose executor computed the result that a "store" (StoreResult) or a
\* "failed" (UpdateInstanceStatus with an error) carries.
Command == [type : {"create", "status", "store", "failed"}, call : Calls, id : Ids]

Message == [tag : Tags, id : Ids]

\* owner: the call that created the instance.  Its message_channel_sender is Some
\* exactly as long as finished is false.  result_sender: whether that is Some.
Instance == [owner : Calls, finished : BOOLEAN, result : Result \cup {NoResult},
             result_sender : BOOLEAN]

BacklogData == [messages : Seq(Message), checked : BOOLEAN]

\* "none": never started; "init": spawned, first round not done; "run": waiting for
\* messages; "ok", "err": run returned, the terminal command is not yet sent;
\* "done": the task ended; "panic": the task panicked in run.
ExecStates == {"none", "init", "run", "ok", "err", "done", "panic"}

EmptyMap == [i \in {} |-> {}]

-----------------------------------------------------------------------------
Init ==
  /\ request \in [Calls -> Request]
  /\ pc = [c \in Calls |-> "idle"]
  /\ reply = [c \in Calls |-> [what |-> "none", of |-> c]]
  /\ commands = <<>>
  /\ net = Tags
  /\ incoming = <<>>
  /\ manager = "select"
  /\ held = <<>>
  /\ instance_data = EmptyMap
  /\ terminated_instances = <<>>
  /\ backlog = EmptyMap
  /\ executor = [c \in Calls |-> "none"]
  /\ chan = [c \in Calls |-> <<>>]
  /\ forward = [c \in Calls |-> <<>>]

-----------------------------------------------------------------------------
(* The RPC handlers: decrypt, sign, flip_coin, get_status. *)

\* A client's request reaches the handler.
RpcStart(c) ==
  /\ pc[c] = "idle"
  /\ pc' = [pc EXCEPT ![c] = "send"]
  /\ UNCHANGED <<request, reply, commands, manager, cacheVars, msgVars, executor>>

\* The handler's send on the command channel finds room.
RpcSend(c) ==
  /\ pc[c] = "send"
  /\ manager # "down"
  /\ Len(commands) < CmdCap
  /\ commands' = Append(commands,
       [type |-> IF request[c].kind = "status" THEN "status" ELSE "create",
        call |-> c, id |-> request[c].id])
  /\ pc' = [pc EXCEPT ![c] = "wait"]
  /\ UNCHANGED <<request, reply, manager, cacheVars, msgVars, executor>>

\* The command channel is closed.  The expect on the send panics; an asynchronous sign
\* has none, and finds the responder dropped with the command it could not send.
RpcSendFails(c) ==
  /\ pc[c] = "send"
  /\ manager = "down"
  /\ pc' = [pc EXCEPT ![c] = "done"]
  /\ \E what \in IF request[c].kind = "async" THEN {"panic", "unable_id"} ELSE {"panic"} :
       reply' = [reply EXCEPT ![c] = [what |-> what, of |-> c]]
  /\ UNCHANGED <<request, commands, manager, cacheVars, msgVars, executor>>

\* The client goes away: the RPC server drops the handler's future and with it the
\* receiving ends of its responders.
ClientGone(c) ==
  /\ pc[c] \in {"send", "wait", "waitResult"}
  /\ pc' = [pc EXCEPT ![c] = "gone"]
  /\ UNCHANGED <<request, reply, commands, manager, cacheVars, msgVars, executor>>

\* A responder of c is used.  If the client is gone the send returns Err, which the
\* manager only logs.
Answer(c, what, of) ==
  /\ pc' = [pc EXCEPT ![c] = IF @ = "gone" THEN @ ELSE "done"]
  /\ reply' = [reply EXCEPT ![c] = IF pc[c] = "gone" THEN @
                                   ELSE [what |-> what, of |-> of]]

\* What the handler of a waiting call makes of a responder dropped unused.
OnDropped(c) ==
  CASE pc[c] = "waitResult" -> "unable_result"
    [] request[c].kind \in {"sync", "async"} -> "unable_id"
    [] OTHER -> "panic"

-----------------------------------------------------------------------------
(* InstanceCache *)

\* How many terminated instances attempt_eject removes: all it may look at.
EjectCount == IF Len(terminated_instances) < ScanLength
              THEN Len(terminated_instances) ELSE ScanLength

\* Mutant: the ids are popped from the queue and their instances stay in the cache.
EjectedNone == {}

\* Mutant: at capacity everything is ejected, running instances included.
EjectedAny == IF Cardinality(DOMAIN instance_data) >= Capacity
              THEN DOMAIN instance_data ELSE {}

\* What attempt_eject removes, when insert calls it.
Ejected == IF Cardinality(DOMAIN instance_data) >= Capacity
           THEN {terminated_instances[k] : k \in 1..EjectCount}
           ELSE {}

insert(id, instance) ==
  /\ instance_data' = [i \in (DOMAIN instance_data \ Ejected) \cup {id} |->
                         IF i = id THEN instance ELSE instance_data[i]]
  /\ terminated_instances' =
       IF Cardinality(DOMAIN instance_data) >= Capacity
       THEN SubSeq(terminated_instances, EjectCount + 1, Len(terminated_instances))
       ELSE terminated_instances

-----------------------------------------------------------------------------
(* The manager's select loop. *)

\* The command branch of select is taken for a command of the given types.
Receive(types) ==
  /\ manager = "select"
  /\ commands # <<>>
  /\ Head(commands).type \in types
  /\ commands' = Tail(commands)

\* CreateInstance or CreateInstanceSync while the id is in the cache: start returns
\* Ok(id), and the synchronous responder that it was given is dropped.
CreateExisting ==
  /\ Receive({"create"})
  /\ Head(commands).id \in DOMAIN instance_data
  /\ LET c == Head(commands).call IN
       Answer(c, IF request[c].kind = "sync" THEN "unable_result" ELSE "id", c)
  /\ UNCHANGED <<request, manager, cacheVars, msgVars, executor>>

\* The key manager has no key, or no private share, for the request.  Only the
\* synchronous command answers the error; the other drops its responder.
CreateWithoutKey ==
  /\ Receive({"create"})
  /\ Head(commands).id \notin DOMAIN instance_data
  /\ LET c == Head(commands).call IN
       Answer(c, IF request[c].kind = "sync" THEN "aborted" ELSE OnDropped(c), c)
  /\ UNCHANGED <<request, manager, cacheVars, msgVars, executor>>

\* Mutant: the entry of the backlog is forwarded and not removed.
BacklogKept(id) == backlog

\* The last step of forward_backlogged_messages.
BacklogWithout(id) == [i \in DOMAIN backlog \ {id} |-> backlog[i]]

\* The instance is created: cache, executor task, forwarding task for the messages
\* in the backlog, and the answer to the RPC.
CreateNew ==
  /\ Receive({"create"})
  /\ Head(commands).id \notin DOMAIN instance_data
  /\ LET c == Head(commands).call
         id == Head(commands).id
     IN  /\ insert(id, [owner |-> c, finished |-> FALSE, result |-> NoResult,
                        result_sender |-> request[c].kind = "sync"])
         /\ executor' = [executor EXCEPT ![c] = "init"]
         /\ forward' = [forward EXCEPT ![c] =
                          IF id \in DOMAIN backlog THEN backlog[id].messages ELSE @]
         /\ backlog' = BacklogWithout(id)
         /\ IF request[c].kind = "sync"
            THEN /\ pc' = [pc EXCEPT ![c] = IF @ = "gone" THEN @ ELSE "waitResult"]
                 /\ UNCHANGED reply
            ELSE Answer(c, "id", c)
  /\ UNCHANGED <<request, manager, net, incoming, held, chan>>

\* The manager's task ends and drops what it owns: both channels' receivers, the
\* cache with the senders of its instances, and every responder it holds.
Down ==
  /\ manager' = "down"
  /\ commands' = <<>>
  /\ incoming' = <<>>
  /\ held' = <<>>
  /\ instance_data' = EmptyMap
  /\ terminated_instances' = <<>>
  /\ backlog' = EmptyMap
  /\ pc' = [c \in Calls |-> IF pc[c] \in {"wait", "waitResult"} THEN "done" ELSE pc[c]]
  /\ reply' = [c \in Calls |-> IF pc[c] \in {"wait", "waitResult"}
                               THEN [what |-> OnDropped(c), of |-> c] ELSE reply[c]]
  /\ UNCHANGED <<request, net, executor, chan, forward>>

\* GetInstanceStatus, and the rest of the get_status handler: it unwraps the result
\* of a finished instance, and panics if that is an error.
Status ==
  /\ Receive({"status"})
  /\ pc[Head(commands).call] # "gone"
  /\ LET c == Head(commands).call
         id == Head(commands).id
     IN  IF id \notin DOMAIN instance_data THEN Answer(c, "notfound", c)
         ELSE IF ~instance_data[id].finished THEN Answer(c, "pending", c)
         ELSE IF instance_data[id].result.ok
              THEN Answer(c, "result", instance_data[id].result.of)
         ELSE Answer(c, "panic", c)
  /\ UNCHANGED <<request, manager, cacheVars, msgVars, executor>>

\* GetInstanceStatus of a client that is gone: the expect on the responder panics and
\* ends the manager.
StatusPanics ==
  /\ manager = "select"
  /\ commands # <<>>
  /\ Head(commands).type = "status"
  /\ pc[Head(commands).call] = "gone"
  /\ Down

\* StoreResult, and UpdateInstanceStatus with an error: set_result, then
\* inform_of_termination, which takes the result_sender and uses it.  No code sends
\* UpdateInstanceStatus without an error.
Terminate ==
  /\ Receive({"store", "failed"})
  /\ LET cmd == Head(commands)
         i == instance_data[cmd.id]
     IN  IF cmd.id \in DOMAIN instance_data
         THEN /\ instance_data' = [instance_data EXCEPT ![cmd.id] =
                   [owner |-> i.owner, finished |-> TRUE,
                    result |-> [ok |-> cmd.type = "store", of |-> cmd.call],
                    result_sender |-> FALSE]]
              /\ terminated_instances' = Append(terminated_instances, cmd.id)
              /\ IF i.result_sender
                 THEN Answer(i.owner, IF cmd.type = "store" THEN "result" ELSE "error",
                             cmd.call)
                 ELSE UNCHANGED <<pc, reply>>
         ELSE UNCHANGED <<pc, reply, cacheVars>>
  /\ UNCHANGED <<request, manager, msgVars, executor>>

\* The receiver of the message channel of c exists until the executor task ends.
Open(c) == executor[c] \in {"init", "run", "ok", "err"}

\* Mutant: a send on a closed channel is tried again instead of returning Err.
SendRetried(c, m) ==
  /\ Open(c)
  /\ Len(chan[c]) < ChanCap
  /\ chan' = [chan EXCEPT ![c] = Append(@, m)]

\* A send of m on the message channel of c returns: the channel had room, or its
\* receiver is gone and the Err is ignored.
SendReturns(c, m) ==
  \/ /\ Open(c)
     /\ Len(chan[c]) < ChanCap
     /\ chan' = [chan EXCEPT ![c] = Append(@, m)]
  \/ /\ ~Open(c)
     /\ UNCHANGED chan

\* The incoming branch of select: a message for an instance that is running.  The
\* await on the full channel of the instance holds up the whole manager.
Deliver ==
  /\ manager = "select"
  /\ incoming # <<>>
  /\ LET m == Head(incoming) IN
       /\ m.id \in DOMAIN instance_data
       /\ ~instance_data[m.id].finished
       /\ held' = <<[msg |-> m, to |-> instance_data[m.id].owner]>>
  /\ incoming' = Tail(incoming)
  /\ manager' = "sending"
  /\ UNCHANGED <<rpcVars, commands, net, cacheVars, backlog, executor, chan, forward>>

\* Mutant: the message the manager was sending is kept.
BackToSelectHolding == manager' = "select" /\ UNCHANGED held

BackToSelect == manager' = "select" /\ held' = <<>>

\* The end of that send: the message is in the channel, or the channel is closed.
Delivered ==
  /\ manager = "sending"
  /\ SendReturns(held[1].to, held[1].msg)
  /\ BackToSelect
  /\ UNCHANGED <<rpcVars, commands, net, incoming, cacheVars, backlog, executor, forward>>

\* A message for an instance that has finished is dropped.
Discard ==
  /\ manager = "select"
  /\ incoming # <<>>
  /\ Head(incoming).id \in DOMAIN instance_data
  /\ instance_data[Head(incoming).id].finished
  /\ incoming' = Tail(incoming)
  /\ UNCHANGED <<rpcVars, commands, net, manager, held, cacheVars, backlog, executor,
                 chan, forward>>

\* A message for an id that is not in the cache goes to the backlog.  An entry that
\* exists keeps its checked flag.
Backlog ==
  /\ manager = "select"
  /\ incoming # <<>>
  /\ LET m == Head(incoming) IN
       /\ m.id \notin DOMAIN instance_data
       /\ backlog' = [i \in DOMAIN backlog \cup {m.id} |->
                        IF i # m.id THEN backlog[i]
                        ELSE IF m.id \in DOMAIN backlog
                        THEN [messages |-> Append(backlog[i].messages, m),
                              checked |-> backlog[i].checked]
                        ELSE [messages |-> <<m>>, checked |-> FALSE]]
  /\ incoming' = Tail(incoming)
  /\ UNCHANGED <<rpcVars, commands, net, manager, held, cacheVars, executor, chan, forward>>

\* The backlog_interval branch of select.
Tick ==
  /\ manager = "select"
  /\ backlog' = [i \in {j \in DOMAIN backlog : ~backlog[j].checked} |->
                   [messages |-> backlog[i].messages, checked |-> TRUE]]
  /\ UNCHANGED <<rpcVars, commands, net, incoming, manager, held, cacheVars, executor,
                 chan, forward>>

\* The shutdown branch of select, or the network's end of incoming is closed.
Stop ==
  /\ manager = "select"
  /\ Down

-----------------------------------------------------------------------------
(* The other tasks. *)

\* The network manager hands over a message, for an id it may never have seen.
NetReceive(t, id) ==
  /\ t \in net
  /\ manager # "down"
  /\ net' = net \ {t}
  /\ incoming' = Append(incoming, [tag |-> t, id |-> id])
  /\ UNCHANGED <<rpcVars, commands, manager, held, cacheVars, backlog, executor, chan, forward>>

\* forward_backlogged_messages: the spawned task sends the next message.
Forward(c) ==
  /\ forward[c] # <<>>
  /\ SendReturns(c, Head(forward[c]))
  /\ forward' = [forward EXCEPT ![c] = Tail(@)]
  /\ UNCHANGED <<rpcVars, commands, net, incoming, manager, held, cacheVars, backlog, executor>>

ExecUnchanged == UNCHANGED <<rpcVars, net, incoming, manager, held, cacheVars, backlog, forward>>

\* The first do_round succeeds, or its error ends run.  Here and below run panics if it
\* has an event or a message to send and the emitter's or the network's task has ended.
ExecFirstRound(c) ==
  /\ executor[c] = "init"
  /\ \E next \in {"run", "err", "panic"} : executor' = [executor EXCEPT ![c] = next]
  /\ UNCHANGED <<commands, chan>>
  /\ ExecUnchanged

\* One turn of the loop of run: it takes a message, goes on, finalizes or fails; a
\* message that does not convert is unwrapped, which panics and drops the receiver.
ExecMessage(c) ==
  /\ executor[c] = "run"
  /\ chan[c] # <<>>
  /\ chan' = [chan EXCEPT ![c] = Tail(@)]
  /\ \E next \in IF Head(chan[c]).tag \in BadTags THEN {"panic"}
                ELSE {"run", "ok", "err", "panic"} :
       executor' = [executor EXCEPT ![c] = next]
  /\ UNCHANGED commands
  /\ ExecUnchanged

\* The senders of the channel of c: its unfinished instance in the cache, and its
\* forwarding task.
HasSender(c) ==
  \/ \E i \in DOMAIN instance_data :
       instance_data[i].owner = c /\ ~instance_data[i].finished
  \/ forward[c] # <<>>

\* The message channel is empty and has no sender left: run returns NotFinished.
ExecChannelClosed(c) ==
  /\ executor[c] = "run"
  /\ chan[c] = <<>>
  /\ ~HasSender(c)
  /\ \E next \in {"err", "panic"} : executor' = [executor EXCEPT ![c] = next]
  /\ UNCHANGED <<commands, chan>>
  /\ ExecUnchanged

\* Mutant: an error of run is returned without telling the manager.
ReportOnlyOk(c) ==
  IF executor[c] = "ok" /\ manager # "down"
  THEN /\ Len(commands) < CmdCap
       /\ commands' = Append(commands, [type |-> "store", call |-> c, id |-> request[c].id])
  ELSE UNCHANGED commands

\* The terminal command: StoreResult, or UpdateInstanceStatus with the error.
Report(c) ==
  \/ /\ manager # "down"
     /\ Len(commands) < CmdCap
     /\ commands' = Append(commands,
          [type |-> IF executor[c] = "ok" THEN "store" ELSE "failed",
           call |-> c, id |-> request[c].id])
  \/ /\ manager = "down"
     /\ UNCHANGED commands

\* execute_protocol reports to the manager, once the command channel has room; a
\* closed command channel also ends the task.
ExecReport(c) ==
  /\ executor[c] \in {"ok", "err"}
  /\ Report(c)
  /\ executor' = [executor EXCEPT ![c] = "done"]
  /\ UNCHANGED chan
  /\ ExecUnchanged

-----------------------------------------------------------------------------
Rpc(c) == RpcStart(c) \/ RpcSend(c) \/ RpcSendFails(c) \/ ClientGone(c)

Manager == \/ CreateExisting \/ CreateWithoutKey \/ CreateNew
           \/ Status \/ StatusPanics \/ Terminate
           \/ Deliver \/ Delivered \/ Discard \/ Backlog \/ Tick \/ Stop

Executor(c) == ExecFirstRound(c) \/ ExecMessage(c) \/ ExecChannelClosed(c) \/ ExecReport(c)

Next == \/ \E c \in Calls : Rpc(c) \/ Executor(c) \/ Forward(c)
        \/ \E t \in Tags, id \in Ids : NetReceive(t, id)
        \/ Manager

Spec == Init /\ [][Next]_vars

Commanded == CreateExisting \/ CreateWithoutKey \/ CreateNew \/ Status \/ StatusPanics \/ Terminate

Delivery == Deliver \/ Discard \/ Backlog

\* The steps a task takes by itself once it is polled.
Step ==
  \/ \E c \in Calls : RpcSend(c) \/ RpcSendFails(c) \/ Forward(c) \/ Executor(c)
  \/ Commanded \/ Delivery \/ Delivered

\* The scheduling that tokio provides: as long as some task can go on, some task is polled
\* again.  (There are finitely many calls and messages, so fairness to each task would say
\* no more.)  Nothing is assumed of the clients, of the network, of the timer, or of
\* shutdown.
Fairness == WF_vars(Step)

FairSpec == Spec /\ Fairness
-----------------------------------------------------------------------------
(* Properties *)

TypeOK ==
  /\ request \in [Calls -> Request]
  /\ pc \in [Calls -> PcStates]
  /\ reply \in [Calls -> Reply]
  /\ commands \in Seq(Command)
  /\ net \subseteq Tags
  /\ incoming \in Seq(Message)
  /\ manager \in {"select", "sending", "down"}
  /\ held \in Seq([msg : Message, to : Calls])
  /\ Len(held) = IF manager = "sending" THEN 1 ELSE 0
  /\ DOMAIN instance_data \subseteq Ids
  /\ \A i \in DOMAIN instance_data : instance_data[i] \in Instance
  /\ terminated_instances \in Seq(Ids)
  /\ DOMAIN backlog \subseteq Ids
  /\ \A i \in DOMAIN backlog : backlog[i] \in BacklogData
  /\ executor \in [Calls -> ExecStates]
  /\ chan \in [Calls -> Seq(Message)]
  /\ forward \in [Calls -> Seq(Message)]

\* The queue of terminated instances names each finished instance of the cache exactly
\* once and nothing else: attempt_eject never pops an id that is gone or was created
\* anew and is running, and no finished instance escapes ejection.
TerminatedAreFinished ==
  /\ \A j, k \in 1..Len(terminated_instances) :
       terminated_instances[j] = terminated_instances[k] => j = k
  /\ \A i \in Ids :
       (\E k \in 1..Len(terminated_instances) : terminated_instances[k] = i)
         <=> (i \in DOMAIN instance_data /\ instance_data[i].finished)

\* StoreResult and UpdateInstanceStatus carry only an id, and an id may be ejected and
\* created again; still the result an instance holds is the one its own executor
\* computed, and a synchronous caller is answered with the result of the instance that
\* its own call created, never with that of another incarnation.
ResultsOfOwnExecutor ==
  /\ \A i \in DOMAIN instance_data : instance_data[i].finished =>
       /\ instance_data[i].result \in Result
       /\ instance_data[i].result.of = instance_data[i].owner
  /\ \A c \in Calls :
       (request[c].kind = "sync" /\ reply[c].what \in {"result", "error"}) => reply[c].of = c

\* The terminal command of c's executor is in the command channel.
ReportQueued(c) == \E k \in 1..Len(commands) :
  commands[k].type \in {"store", "failed"} /\ commands[k].call = c

\* A synchronous caller that waits for its result is not forgotten: its instance is in
\* the cache with the result_sender, and its executor is still going to report, has
\* reported, or panicked (the one case in which the caller waits for ever).
WaiterHasRunner ==
  \A c \in Calls : pc[c] = "waitResult" =>
    /\ request[c].id \in DOMAIN instance_data
    /\ instance_data[request[c].id].owner = c
    /\ ~instance_data[request[c].id].finished
    /\ instance_data[request[c].id].result_sender
    /\ Open(c) \/ ReportQueued(c) \/ executor[c] = "panic"

\* No message is left behind in the backlog of an instance that has started: start and
\* the incoming branch agree on who takes over a message.
BacklogOnlyForAbsent == DOMAIN backlog \cap DOMAIN instance_data = {}

\* The tags of a sequence of messages; that it holds none of them twice.
TagsIn(s) == {s[k].tag : k \in 1..Len(s)}
NoRepeats(s) == \A j, k \in 1..Len(s) : s[j].tag = s[k].tag => j = k

\* What may hold messages, and the tags it holds.
Holders ==
  ({"net", "incoming", "held"} \X {"node"})
    \cup ({"backlog"} \X Ids) \cup ({"forward", "chan"} \X Calls)

Tagged(h) ==
  CASE h[1] = "net"      -> net
    [] h[1] = "incoming" -> TagsIn(incoming)
    [] h[1] = "held"     -> {held[k].msg.tag : k \in 1..Len(held)}
    [] h[1] = "backlog"  -> IF h[2] \in DOMAIN backlog THEN TagsIn(backlog[h[2]].messages)
                            ELSE {}
    [] h[1] = "forward"  -> TagsIn(forward[h[2]])
    [] h[1] = "chan"     -> TagsIn(chan[h[2]])

\* A message the network handed over once reaches at most one executor, once: the
\* incoming channel, the backlog, the manager's pending send, the forwarding tasks and
\* the channels of the instances hold together at most one copy of it.
OneCopy ==
  /\ \A t \in Tags : \A g, h \in Holders : t \in Tagged(g) /\ t \in Tagged(h) => g = h
  /\ NoRepeats(incoming)
  /\ \A i \in DOMAIN backlog : NoRepeats(backlog[i].messages)
  /\ \A c \in Calls : NoRepeats(forward[c]) /\ NoRepeats(chan[c])

\* An executor that has not yet reported owns the unfinished instance of its id.
LiveExecutorsOwn ==
  \A c \in Calls : (manager # "down" /\ executor[c] \notin {"none", "done"}) =>
    /\ request[c].id \in DOMAIN instance_data
    /\ instance_data[request[c].id].owner = c
    /\ ~instance_data[request[c].id].finished

\* So does an executor whose report is in the command channel; a "create" or "status"
\* there is that of a call that waits or is gone.
CommandMatches(e) ==
  LET c == e.call IN
  /\ e.id = request[c].id
  /\ e.type \in {"store", "failed"} =>
       /\ executor[c] = "done"
       /\ request[c].id \in DOMAIN instance_data
       /\ instance_data[request[c].id].owner = c
       /\ ~instance_data[request[c].id].finished
  /\ e.type \in {"create", "status"} =>
       /\ executor[c] = "none"
       /\ pc[c] \in {"wait", "gone"}
       /\ e.type = "status" <=> request[c].kind = "status"

CommandsMatch == \A k \in 1..Len(commands) : CommandMatches(commands[k])

\* No call has two commands in the channel.
CommandsDistinct ==
  \A j, k \in 1..Len(commands) : commands[j].call = commands[k].call => j = k

\* An instance of the cache has the id of its owner; until it is finished, its executor
\* runs or has its report in the channel.
InstancesHaveOwner ==
  \A i \in DOMAIN instance_data :
    LET c == instance_data[i].owner IN
    /\ request[c].id = i
    /\ executor[c] # "none"
    /\ instance_data[i].finished => ~instance_data[i].result_sender
    /\ instance_data[i].result_sender => request[c].kind = "sync"
    /\ (~instance_data[i].finished /\ executor[c] = "done") => ReportQueued(c)

\* Nothing has been started for a call whose command is not sent; a manager that ended
\* holds nothing.
NotYetStarted == \A c \in Calls : pc[c] \in {"idle", "send"} => executor[c] = "none"
DownHoldsNothing ==
  manager = "down" => DOMAIN instance_data = {} /\ commands = <<>>

\* The inductive invariant: what ties commands, executors and cache together, with the
\* properties above that follow from it step by step.
IInv ==
  /\ TypeOK
  /\ LiveExecutorsOwn
  /\ CommandsMatch
  /\ CommandsDistinct
  /\ InstancesHaveOwner
  /\ NotYetStarted
  /\ DownHoldsNothing
  /\ TerminatedAreFinished
  /\ ResultsOfOwnExecutor
  /\ WaiterHasRunner
  /\ BacklogOnlyForAbsent

\* A running instance is neither ejected nor replaced: it leaves the cache only when
\* the manager itself ends, and it changes only by finishing.
RunningStays ==
  [][\A i \in DOMAIN instance_data :
       (~instance_data[i].finished /\ manager' # "down") =>
         /\ i \in DOMAIN instance_data'
         /\ instance_data'[i].owner = instance_data[i].owner]_vars

\* Every command with a responder is eventually handled: the RPC handler does not wait
\* for ever for the id or for the status.  (With instance channels that do not fill up.)
CommandsAnswered == \A c \in Calls : pc[c] = "wait" ~> pc[c] # "wait"

\* Once the executor of a synchronous call has returned, with a result or an error, its
\* caller gets an answer.  (With instance channels that do not fill up.)
ResultReachesCaller ==
  \A c \in Calls : (pc[c] = "waitResult" /\ executor[c] \in {"ok", "err"})
                      ~> pc[c] \in {"done", "gone"}

=============================================================================
