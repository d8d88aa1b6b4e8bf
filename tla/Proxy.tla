-------------------------------- MODULE Proxy --------------------------------
(***************************************************************************)
(* The integration mode of the network layer: every node talks to one      *)
(* proxy, the blockchain stub, instead of to its peers.  A node's P2PProxy *)
(* (network/src/proxy/proxyp2p.rs) hands a message to the stub; the stub   *)
(* (quorumcrypt_blockchain_stub/src/bin/server.rs) opens a connection to   *)
(* every peer of its configuration and hands the message on; the service a *)
(* peer runs queues it for its network manager.  Blocks submitted for      *)
(* total order pass through the stub's Blockchain task first.              *)
(*                                                                         *)
(* Every hop is a detached task that tries its connection once.  The model *)
(* lets a connection fail exactly when nobody listens; a call that was     *)
(* connected is not lost.                                                  *)
(***************************************************************************)
EXTENDS Integers, Sequences, Functions

CONSTANTS
    Nodes,     \* the peers of stub.json: every node
    Messages,  \* what the protocols broadcast, one member per broadcast
    Blocks,    \* what is submitted for total order
    Ids,       \* instance ids
    IdOf,      \* the instance id of a block
    InCap,     \* capacity of a P2PProxy's channel (32)
    ChainCap   \* capacity of the channel to the Blockchain task (100)

ASSUME SetsAssumption ==
    /\ Messages \cap Blocks = {}
    /\ IdOf \in [Blocks -> Ids]
ASSUME CapAssumption == InCap \in Nat \ {0} /\ ChainCap \in Nat \ {0}

Items == Messages \cup Blocks

VARIABLES
    stubUp,      \* the stub listens
    up,          \* the nodes whose proxy service listens
    sent,        \* messages given to P2PProxy::broadcast
    connecting,  \* messages whose task is connecting to the stub
    relaying,    \* messages in a forward_share call to the stub
    asked,       \* blocks in an atomic_broadcast call, or past it
    offered,     \* blocks whose call waits to put them into the queue
    queue,       \* the channel to the Blockchain task
    registry,    \* ids of the blocks on the chain
    chain,       \* the blocks on the chain, in order
    dropped,     \* blocks turned down because of their id
    dialing,     \* <<item, node>>: a task of the stub connects to the node
    calling,     \* <<item, node>>: a forward_share call to the node
    channel,     \* node -> the channel of its P2PProxy
    passed,      \* <<item, node>>: deliver gave the item to the node
    lost         \* <<item, node>>: a connection on the way was refused

nodeVars  == <<channel, passed>>
hopVars   == <<dialing, calling, lost>>
sendVars  == <<sent, connecting, relaying>>
chainVars == <<asked, offered, queue, registry, chain, dropped>>
vars == <<stubUp, up, sendVars, chainVars, hopVars, nodeVars>>

Init ==
    /\ stubUp = FALSE /\ up = {}
    /\ sent = {} /\ connecting = {} /\ relaying = {}
    /\ asked = {} /\ offered = {} /\ queue = <<>>
    /\ registry = {} /\ chain = <<>> /\ dropped = {}
    /\ dialing = {} /\ calling = {} /\ lost = {}
    /\ channel = [p \in Nodes |-> <<>>] /\ passed = {}

-----------------------------------------------------------------------------
(* Starting up *)

\* main of the stub: the service begins to listen.
StubListens ==
    /\ ~stubUp
    /\ stubUp' = TRUE
    /\ UNCHANGED <<up, sendVars, chainVars, hopVars, nodeVars>>

\* P2PProxy::init spawns the server task and returns before it listens.
init(p) ==
    /\ p \notin up
    /\ up' = up \cup {p}
    /\ UNCHANGED <<stubUp, sendVars, chainVars, hopVars, nodeVars>>

-----------------------------------------------------------------------------
(* P2PProxy on the sending side *)

\* Ok is returned at once; the task goes on by itself.
broadcast(m) ==
    /\ m \notin sent
    /\ sent' = sent \cup {m}
    /\ connecting' = connecting \cup {m}
    /\ UNCHANGED <<stubUp, up, relaying, chainVars, hopVars, nodeVars>>

Connected(m) ==
    /\ m \in connecting /\ stubUp
    /\ connecting' = connecting \ {m}
    /\ relaying' = relaying \cup {m}
    /\ UNCHANGED <<stubUp, up, sent, chainVars, hopVars, nodeVars>>

\* The error is logged in the task; broadcast has long returned Ok.
Refused(m) ==
    /\ m \in connecting /\ ~stubUp
    /\ connecting' = connecting \ {m}
    /\ lost' = lost \cup ({m} \X Nodes)
    /\ UNCHANGED <<stubUp, up, sent, relaying, chainVars, dialing, calling,
                   nodeVars>>

-----------------------------------------------------------------------------
(* The stub *)

\* One task for every peer of the configuration, the sender among them.
forward_to_all(x) == dialing' = dialing \cup ({x} \X Nodes)

\* Mutant: the call is repeated although it was answered.
ForwardTwice(m) ==
    /\ m \in relaying
    /\ dialing' = dialing \cup ({m} \X Nodes)
    /\ UNCHANGED <<stubUp, up, sent, connecting, relaying, chainVars, calling,
                   lost, nodeVars>>

forward_share(m) ==
    /\ m \in relaying
    /\ relaying' = relaying \ {m}
    /\ forward_to_all(m)
    /\ UNCHANGED <<stubUp, up, sent, connecting, chainVars, calling, lost,
                   nodeVars>>

\* A call of atomic_broadcast; it is answered once the queue took the block.
AtomicBroadcastCalled(b) ==
    /\ stubUp /\ b \notin asked
    /\ asked' = asked \cup {b}
    /\ offered' = offered \cup {b}
    /\ UNCHANGED <<stubUp, up, sendVars, queue, registry, chain, dropped,
                   hopVars, nodeVars>>

\* Mutant: the channel has no bound.
BroadcastUnbounded(b) ==
    /\ b \in offered
    /\ offered' = offered \ {b}
    /\ queue' = Append(queue, b)
    /\ UNCHANGED <<stubUp, up, sendVars, asked, registry, chain, dropped,
                   hopVars, nodeVars>>

atomic_broadcast(b) ==
    /\ b \in offered /\ Len(queue) < ChainCap
    /\ offered' = offered \ {b}
    /\ queue' = Append(queue, b)
    /\ UNCHANGED <<stubUp, up, sendVars, asked, registry, chain, dropped,
                   hopVars, nodeVars>>

\* Mutant: the registry is not consulted.
ChainAlways ==
    /\ queue # <<>>
    /\ queue' = Tail(queue)
    /\ registry' = registry \cup {IdOf[Head(queue)]}
    /\ chain' = Append(chain, Head(queue))
    /\ forward_to_all(Head(queue))
    /\ UNCHANGED <<stubUp, up, sendVars, asked, offered, dropped, calling,
                   lost, nodeVars>>

\* Blockchain::start_and_run: the first block of an id is kept; the others
\* are taken out of the queue and discarded for good.
start_and_run ==
    /\ queue # <<>>
    /\ queue' = Tail(queue)
    /\ \/ /\ IdOf[Head(queue)] \notin registry
          /\ registry' = registry \cup {IdOf[Head(queue)]}
          /\ chain' = Append(chain, Head(queue))
          /\ forward_to_all(Head(queue))
          /\ UNCHANGED dropped
       \/ /\ IdOf[Head(queue)] \in registry
          /\ dropped' = dropped \cup {Head(queue)}
          /\ UNCHANGED <<registry, chain, dialing>>
    /\ UNCHANGED <<stubUp, up, sendVars, asked, offered, calling, lost, nodeVars>>

\* The task of forward_to_all for item x and peer p.
PeerConnected(x, p) ==
    /\ <<x, p>> \in dialing /\ p \in up
    /\ dialing' = dialing \ {<<x, p>>}
    /\ calling' = calling \cup {<<x, p>>}
    /\ UNCHANGED <<stubUp, up, sendVars, chainVars, lost, nodeVars>>

PeerRefused(x, p) ==
    /\ <<x, p>> \in dialing /\ p \notin up
    /\ dialing' = dialing \ {<<x, p>>}
    /\ lost' = lost \cup {<<x, p>>}
    /\ UNCHANGED <<stubUp, up, sendVars, chainVars, calling, nodeVars>>

-----------------------------------------------------------------------------
(* P2PProxy on the receiving side *)

\* Mutant: what does not fit is thrown away.
ServiceTrySend(x, p) ==
    /\ <<x, p>> \in calling
    /\ calling' = calling \ {<<x, p>>}
    /\ channel' = IF Len(channel[p]) < InCap
                  THEN [channel EXCEPT ![p] = Append(@, x)] ELSE channel
    /\ UNCHANGED <<stubUp, up, sendVars, chainVars, dialing, lost, passed>>

\* P2PProxyService::forward_share waits while the channel is full.
service_forward_share(x, p) ==
    /\ <<x, p>> \in calling /\ Len(channel[p]) < InCap
    /\ calling' = calling \ {<<x, p>>}
    /\ channel' = [channel EXCEPT ![p] = Append(@, x)]
    /\ UNCHANGED <<stubUp, up, sendVars, chainVars, dialing, lost, passed>>

deliver(p) ==
    /\ channel[p] # <<>>
    /\ channel' = [channel EXCEPT ![p] = Tail(@)]
    /\ passed' = passed \cup {<<Head(channel[p]), p>>}
    /\ UNCHANGED <<stubUp, up, sendVars, chainVars, hopVars>>

-----------------------------------------------------------------------------
Environment ==
    \/ StubListens
    \/ \E p \in Nodes : init(p)
    \/ \E m \in Messages : broadcast(m)
    \/ \E b \in Blocks : AtomicBroadcastCalled(b)

Step ==
    \/ \E m \in Messages : Connected(m) \/ Refused(m) \/ forward_share(m)
    \/ \E b \in Blocks : atomic_broadcast(b)
    \/ start_and_run
    \/ \E x \in Items, p \in Nodes :
          \/ PeerConnected(x, p)
          \/ PeerRefused(x, p)
          \/ service_forward_share(x, p)
    \/ \E p \in Nodes : deliver(p)

Next == Environment \/ Step

Spec == Init /\ [][Next]_vars

\* The tasks of the stub and of the nodes are run by their schedulers, and a
\* connection attempt ends.  Every step moves an item one hop further, so
\* fairness of their disjunction is enough.
Fairness == WF_vars(Step)

FairSpec == Spec /\ Fairness

-----------------------------------------------------------------------------
(* Properties *)

TypeOK ==
    /\ stubUp \in BOOLEAN /\ up \subseteq Nodes
    /\ sent \subseteq Messages /\ connecting \subseteq sent /\ relaying \subseteq sent
    /\ asked \subseteq Blocks /\ offered \subseteq asked /\ dropped \subseteq asked
    /\ queue \in Seq(Blocks) /\ chain \in Seq(Blocks)
    /\ registry \subseteq Ids
    /\ dialing \subseteq Items \X Nodes /\ calling \subseteq Items \X Nodes
    /\ passed \subseteq Items \X Nodes /\ lost \subseteq Items \X Nodes
    /\ channel \in [Nodes -> Seq(Items)]
    /\ Len(queue) <= ChainCap
    /\ \A p \in Nodes : Len(channel[p]) <= InCap

\* The items the stub has not decided on yet.
Upstream == connecting \cup relaying \cup offered \cup Range(queue)

If(condition, place) == IF condition THEN {place} ELSE {}

\* Where item x is on its way to node p.
Places(x, p) ==
    If(x \in Upstream, "upstream") \cup If(x \in dropped, "dropped")
      \cup If(<<x, p>> \in dialing, "dialing") \cup If(<<x, p>> \in calling, "calling")
      \cup If(x \in Range(channel[p]), "channel")
      \cup If(<<x, p>> \in passed, "passed") \cup If(<<x, p>> \in lost, "lost")

\* Another block of b's instance is on the chain.
Superseded(b) == \E c \in Range(chain) : c # b /\ IdOf[c] = IdOf[b]

(***************************************************************************)
(* Every message broadcast and every block submitted is, for every node,   *)
(* in exactly one place: on its way, delivered, lost at a connection that  *)
(* was refused, or dropped by the registry of Blockchain::start_and_run.   *)
(* No hop duplicates an item or forgets it, a node cannot receive again    *)
(* what it has delivered, and a block is dropped only in favour of another *)
(* block of its instance that is on the chain.                             *)
(***************************************************************************)
OnePlace ==
    /\ \A x \in sent \cup asked, p \in Nodes :
          \E place \in Places(x, p) : Places(x, p) = {place}
    /\ \A b \in dropped : Superseded(b)

(***************************************************************************)
(* Of the blocks of an instance at most one is put on the chain, and only  *)
(* that one is ever forwarded to a node, so that deliver gives no node two *)
(* blocks of one id (the registry of Blockchain::start_and_run).           *)
(***************************************************************************)
OneBlockPerId ==
    \A b, c \in asked : b # c /\ IdOf[b] = IdOf[c] =>
        \A p, q \in Nodes :
            ~(<<b, p>> \in passed \cup calling \cup dialing
                /\ <<c, q>> \in passed \cup calling \cup dialing)

(***************************************************************************)
(* A message that is broadcast when the stub and node p listen is          *)
(* delivered at p, whatever else is on its way and however small the       *)
(* channels are; and a block submitted when p listens is delivered at p    *)
(* unless the registry turns it down.                                      *)
(***************************************************************************)
Arrives ==
    /\ \A m \in Messages, p \in Nodes :
          (m \in connecting /\ stubUp /\ p \in up) ~> <<m, p>> \in passed
    /\ \A b \in Blocks, p \in Nodes :
          (b \in offered /\ p \in up) ~> (<<b, p>> \in passed \/ b \in dropped)

=============================================================================
