# Verification of quorumcrypt

quorumcrypt is a service for threshold cryptography: `n` nodes hold shares of private
keys, a client sends the same request to the nodes, each node starts an instance of a
threshold protocol, the nodes exchange shares, and any `t` valid shares give the result.
This directory holds TLA+ modules translated from the code under `src/`, the TLC
configurations that check them on small instances, and theorems that TLAPS proves for
every value of their constants. `PROJECT.json` says, for each definition, which lines of
the code it stands for.

## The system

| part | code | state | operations |
|---|---|---|---|
| RPC request handler | `service/src/rpc_request_handler.rs` | none of its own; a future per call with one or two oneshot receivers | `decrypt`, `sign`, `flip_coin`, `get_status`, `get_public_keys`, `encrypt` |
| instance manager | `core/orchestration/src/instance_manager/` | cache of instances, queue of terminated ids, backlog of early messages, command channel | select loop over commands, network messages, backlog tick and shutdown |
| protocol executor | `protocol_executor.rs` | one task per instance, its message channel, a protocol object | first round, one message per turn, finalize, report |
| one-round protocols | `core/protocols/src/threshold_{cipher,coin,signature}` | received ids, valid shares | `do_round`, `update`, `is_ready_to_finalize`, `finalize` |
| FROST | `core/protocols/src/frost` | round, nonce, commitments, shares, unverified ids, signer group | the same, in two rounds; precomputation |
| key manager, key store | `core/orchestration/src/key_manager`, `core/schemes/src/keys` | keys with default flags, FROST precomputations | look-ups by id, by scheme and group; insertion; load and save |
| network manager | `network/src/network_manager`, `p2p`, `proxy` | channels to and from the instance manager, gossip transport | outgoing with loopback, incoming, shutdown |
| event emitter | `events/src/event.rs` | bounded channel, batch of events | receive, write, shutdown |
| server | `bin/server.rs` | the handles of the tasks, the shutdown notification | start, monitor, stop |
| schemes | `core/schemes/src` | none | share, partial evaluation, verification, assembly: SG02, BZ03, BLS04, CKS05, SH00, FROST |
| blockchain stub | `quorumcrypt_blockchain_stub` | registry of broadcast messages | atomic broadcast, forwarding of shares |

All parts of a node are tokio tasks that talk over bounded `mpsc` channels and answer over
`oneshot` responders. A call creates at most one instance, but the id of an instance is
a hash of the request: several calls may share an id, at once or after the instance was
ejected from the cache. Messages of other nodes may arrive before the local request (they go
to the backlog), after the instance has finished (they are dropped) or while the manager is
busy. Executors may return an error, panic, or be waiting for a full channel.

What is hard about it, and what the models are for (`hazards` in `PROJECT.json` lists each
case at its line):

- ids that are reused while commands, reports and messages of an earlier instance are queued;
- messages that come early, late, twice or never, in two rounds that overtake one another;
- tasks that wait for each other's bounded channels;
- clients that go away, executors that fail or panic, a node that starts an instance again;
- thresholds and groups: one share too few, one signer too many;
- key-store files that are written by one program, torn by a crash, and read by another;
- a shutdown that reaches only the tasks that happen to listen;
- arithmetic that is right for the first `t` shares and wrong for others;
- eventually a result: what is guaranteed depends on who delivers what.

## Modules

| module | models | status |
|---|---|---|
| `InstanceManager` | manager, cache, backlog, executors, RPC handlers of one node | checked and proved |
| `ThresholdService` | what a threshold request promises, seen from outside | abstract specification |
| `ThresholdRound` | the one-round protocols on all nodes | checked, proved, implements `ThresholdService` |
| `Frost` | FROST on all nodes | checked, proved, implements `ThresholdService` |
| `KeyStore` | key-store files, quorumcli's commands on them, the key managers that load them | checked and proved |
| `Node` | a whole server: main, its five tasks, the executors, the channels between them, shutdown | checked and proved |
| `DlSchemes`, `RsaScheme` | the algorithms of the six schemes | operators, used by `Schemes`; the arithmetic of `DlSchemes` proved |
| `Schemes` | a key and a request of a scheme from key generation to the result | checked, and proved but for SH00 |
| `Proxy` | the transport through the blockchain stub | checked and proved |
| `MC*` | the instances for TLC; the constants are in the `.cfg` files | |
| `*Proofs` | the theorems and their proofs | |

`InstanceManager` and `Node` look at the same code with different detail: the first has ids that
are reused, results and responders, and takes the other tasks as given; the second has all the
tasks and channels of a node and knows of an instance only whether it runs. `ThresholdRound` and
`Frost` take a share as something that verifies or does not; `Schemes` is where that is computed.

## InstanceManager

`InstanceManager.tla` models one node's manager with everything that shares state with it.

| state | code |
|---|---|
| `request`, `pc`, `reply` | the RPC handlers: what a call asks for, where its future is, what the client was told |
| `commands` | the `InstanceManagerCommand` channel (bounded by `CmdCap`) |
| `net`, `incoming` | messages the network has not handed over, the `incoming_p2p` channel |
| `manager`, `held` | the select loop: at `select`, awaiting a send of `held`, or ended |
| `instance_data`, `terminated_instances` | `InstanceCache` |
| `backlog` | `InstanceManager::backlog` |
| `executor`, `chan`, `forward` | per creating call: the executor task, its message channel (bounded by `ChanCap`), what its forwarding task has left to send |

One action stands for one handler up to the next await that can hold it up: `RpcStart`,
`RpcSend`, `RpcSendFails`, `ClientGone` for the calls; `CreateExisting`, `CreateWithoutKey`,
`CreateNew`, `Status`, `StatusPanics`, `Terminate` for the commands; `Deliver`/`Delivered`
(the await of `send_message`), `Discard`, `Backlog` for the incoming branch; `Tick`, `Stop`;
`NetReceive`, `Forward`, and `ExecFirstRound`, `ExecMessage`, `ExecChannelClosed`,
`ExecReport` for the tasks. What a protocol computes is a nondeterministic choice between
going on, success, an error and a panic. The call that created an instance names that
incarnation of its id, so that a result that reaches the wrong incarnation is visible.

The clients of the model may go away at any moment, the network hands over messages for
any id at any moment, each tag once, and shutdown may come at any moment. The look-up of a
key is part of the create actions: the manager awaits the key manager's answer and does
nothing else meanwhile. A panic of the manager and its regular end are the same step `Down`: the
task's state is dropped, and with it every responder.

### Runs

All runs set `CHECK_DEADLOCK FALSE`: calls and messages are finite and the manager may stop.

| run | instance | shows |
|---|---|---|
| `im_cache` | 3 calls, 2 ids, 1 message, capacity 1 | an id is created, finished, ejected and created again while older reports, status requests and departures are pending: `TerminatedAreFinished`, `ResultsOfOwnExecutor`, `WaiterHasRunner`, `RunningStays`, and the invariant `IInv` of the proofs |
| `im_messages` | 2 calls, 2 ids, 2 messages, one undecodable | early, late and concurrent messages: `OneCopy`, `BacklogOnlyForAbsent`; under `Fairness` also `CommandsAnswered` and `ResultReachesCaller` |

Three calls are the smallest number with which one id has a running incarnation, an earlier
one that was ejected, and a bystander that forces the ejection; capacity 1 makes every
second insertion eject. `Fairness` is weak fairness of `Step`, the steps of the tasks together:
as long as some task can go on, one does. That is less than tokio provides (it polls every task
whose channel operation can complete), and is enough here because no task can go on for ever
alone. Nothing is assumed of clients, network, ticks and shutdown. The channels of the instances
have room for both messages: with one place the manager may wait on the full channel of an
executor that has returned and that waits for the manager's full command channel, and the
liveness properties fail.

What the code does and the model contains, but no run asks about, since no property of the
system is at stake or none holds:

- An insertion at capacity ejects every terminated instance within the scan length
  (`instance_manager.rs:116`), where the comment at lines 36-37 speaks of the oldest one.
- `send_message` is awaited in the select loop (`instance_manager.rs:360`), and the comment at
  line 358 expects it to return, at worst with an error: see the wait cycle just described.
- A second synchronous request for an id in the cache is told `Ok(id)` and its responder is
  dropped (`instance_manager.rs:436`); the handler, which takes this for a request that "started
  correctly" (`rpc_request_handler.rs:111`), returns an error to its client.
- A status request whose client has gone ends the manager, by the `expect` at
  `instance_manager.rs:306`. `Node` has what follows from it.
- `flip_coin` panics when its instance cannot be created, since `CreateInstance` drops the
  responder, and `get_status` panics when the protocol has failed. When the manager is down every
  handler panics on its send, except an asynchronous `sign`, which answers an error.

### Proofs

`InstanceManagerProofs` assumes of the constants what the `ASSUME`s of `InstanceManager` say:
channels have at least one place, the other bounds are natural numbers, `NoResult` is not a result.
The sets of calls, ids and messages are arbitrary.

None of the properties is inductive. That a result is stored in the instance that its executor
belongs to depends on what is in the command channel: a report carries only an id, and the
id could have been ejected and created again. `IInv` therefore says, besides the
properties, that
- an executor that has not reported, or whose report is queued, owns the unfinished
  instance of its id (`LiveExecutorsOwn`, `CommandsMatch`): only finished instances are
  ejected, and an instance finishes by that very report;
- a call has at most one command queued (`CommandsDistinct`), and nothing runs for a call
  whose command is queued or not sent (`NotYetStarted`);
- an instance has its owner's id, and if its executor has ended without the instance being
  finished then the report is queued (`InstancesHaveOwner`);
- a manager that has ended holds nothing (`DownHoldsNothing`).

The theorems are `Invariance`, `TypeCorrect`, `EjectionQueueExact`, `ResultsNeverCross`,
`NoWaiterForgotten`, `BacklogHandedOver`, `MessagesNeverCopied` and the action property
`RunningNeverEjected`. `OneCopy` is inductive beside `IInv`: it says that a tag has one holder
at most and that no sequence of messages has a tag twice, and each action only drops tags or
moves a set of them from one holder to another (`TagsMove`). `CreateNew` is the one action that
moves more than one, the whole backlog of an id. The liveness properties are model-checked only.

## ThresholdRound and ThresholdService

`ThresholdService` is the promise: nodes release valid shares, an observer ends once, with the
value or with an error, and with the value only when `Threshold` nodes have released theirs.

`ThresholdRound` is one request on all nodes: the protocol objects of the threshold cipher,
coin and signature (they are one state machine), their executors, and the network between
them.

| state | code |
|---|---|
| `status`, `result` | where `ThresholdProtocolExecutor::run` is, what it returned |
| `received_share_ids`, `valid_shares` | the fields of the protocol object |
| `net` | what was published; a message stays there, so it is reordered and duplicated, and lost if it is never taken |

`Start` and `StartFails` are the first round, `Receive` is one turn of the executor's loop
(`update`, then `finalize`, which may fail on what is not the value, another round, or neither), and
`Undecodable` is its panic on a message that does not decode (`protocol_executor.rs:89`). `Stray`
lets a node with a bad key share send any number of further shares, valid or not, under its own id,
and shares that do not verify under the ids in `Forged`: nothing ties the id of a share to its
sender. A share is its id and whether it verifies; `assemble` yields the value exactly from enough
valid shares of distinct ids.

Run `round` (3 nodes, threshold 2, one faulty, which also uses the id of another) checks the
inductive invariant, `ResultsCorrect`, the refinement `ImplementsService` and, under `Fairness`,
`RunningFinish`. The safety properties hold whoever's ids are used. `RunningFinish` is for requests
in which nobody uses the id of a correct node (`Unforged`): `update` records an id before it
verifies the share, so that a forged one keeps out the true one. It also leaves aside the instances
that a message which does not decode has ended. Three nodes with one
faulty are the smallest system in which a valid and an invalid share compete for the last place;
the theorems cover every other size. `Fairness` says that the shares of correct nodes reach the
instances that run, which is what gossip and the loopback of the network manager provide while
nodes stay connected; nothing is assumed of the start of requests nor of faulty nodes.

`ThresholdRoundProofs` proves `Invariance`, `TypeCorrect`, `FinishedCorrect` and `Refinement`, for
all nodes, thresholds, faulty sets and forged ids. `IInv` adds to the result that the shares a node
has pushed carry distinct ids, are recorded as received, are still on the network, and are valid
unless the node's own is not. For the refinement, a node that finishes has `Threshold` shares with
distinct ids, each released before: their number is compared with that of the released shares by an
injection.

## Frost

`Frost` is one signing request on all nodes, signers and others.

| state | code |
|---|---|
| `signer_group` | `SignerGroup::new`, a function of the message: one of `SignerGroups` |
| `restarting` | the nodes that may create the instance again, after a restart or an ejection from the cache: one of `Restarts` |
| `status`, `starts`, `output` | the executor, how often the instance was created, whether the returned signature verifies |
| `round`, `nonce`, `commitment_list`, `shares`, `not_verified_shares` | the fields of `FrostProtocol` |
| `inbox` | what was ever sent to a node |

`Start` creates the instance (up to `MaxStarts` times on a restarting node) and does the first
round; `Receive` is one turn of the executor's loop with `update`, `is_ready_to_finalize`,
`is_ready_for_next_round`, `do_round` and `finalize`. A nonce is the number of the incarnation that
drew it, and a share is made of what its verification depends on.

| run | instance | shows |
|---|---|---|
| `frost` | 2 signers and a bystander; every instance created once, or those of the signers twice | every order of the two rounds, with duplicates and with messages of earlier incarnations under way: `IInv`, `NeverFails`, `NonceSignsOnce`; if no instance is created again also `UndisturbedVerifies`, `ImplementsService`, and `AllFinish` under `Fairness` |
| `frost_invalid_share` | 2 signers, one with a bad key share | said: an invalid share is refused; done: `update` looks only at the error of `verify_share`, and the signature does not verify |
| `frost_group` | the readme's 4 servers and threshold 3 | said: `t` of `n` nodes can sign; done: the group is drawn from `3(t-1)+1` ids, and with an id that nobody has no node finishes |

At the bystander the share of a signer may overtake the commitment of either signer; that a
signer gets the share of a third party before its commitment takes three signers, which only the
proofs cover. Both signers must be created twice: a nonce that signs twice shows when the list of
commitments has changed in between. Two incarnations suffice to mix an old commitment with a new
share. `Fairness`: every node gets the request, and a message that the object still needs, or the
node's own one of the current round, is delivered. The second part is what makes a signer finish
whose own share is the last: it asks whether it is ready only after the next message, and the
loopback provides that. No fairness is assumed where instances are created again: what the earlier
one got is not sent a second time.

`FrostProofs` proves `Invariance`, `NonceUsedOnce`, `RunSucceeds`, `SignaturesVerify` and
`Refinement`, for all nodes, thresholds, groups, faulty and restarting nodes and numbers of
incarnations. `IInv` says that the maps of an object hold only members of the group, that a share is
kept with its commitment or marked unverified, and that a share on the network was made by an
incarnation that reached its second round: an incarnation signs when it enters that round, and only
then. `WithinLimit` adds that lists and shares speak of incarnations the request allows: of the
first only, if nothing is created again, so that all lists agree. `SignaturesVerify` is for requests
that nothing disturbs (`Undisturbed`); otherwise a signature may not verify, as
`frost_invalid_share` shows, and an instance that is created again while others keep its earlier
commitment has the same effect.

`Refinement` is for such requests too, and maps a disturbed one to a service that is never used: a
node that finishes maps to one that has the value. The mapping counts a node as having released its
share when a valid share of it is on the network. A node finishes with a share of every member of
the group; a share it holds is still on the network, and the group has `Threshold` members, so that
as many have released theirs. To start, to commit and to store what was received are stutters of the
service.

## KeyStore

`KeyStore` is a deployment's key-store files with the programs that read and write them.

| state | code |
|---|---|
| `disk` | the file of every node: a list of entries, or one that cannot be read |
| `cli` | the running command of quorumcli: what it has loaded, inserted and still has to write |
| `srv` | the key manager of every server, from `KeyStore::load` on |
| `generated`, `commands` | the keys there are, the number of commands started (bounded by `MaxCommands`) |

`Keygen`, `Add` and `Fetch` begin a command; `Open`, `LoadNext`, `InsertNext`, `Truncate`, `Write`,
`WriteFails` and `Continue` are its steps; `Killed` ends it anywhere. A write fails before the file
is emptied, and then the old one stays, or afterwards. `to_file` drops the default
flags and writes the entries in the order of a `HashMap`, so a file is one of all orders, and
loading is one insertion per entry. What `to_file` wrote decodes: the entries that `from` would skip
otherwise (`key_store.rs:72-77`) do not occur.

Run `keys` (2 nodes, 3 keys of two kinds and one operation, 3 commands or starts of servers) checks
`AgreeOnKey`, `LoadedKept` and `IInv`, and run `keys_default`, with the same constants, `OneDefault`.
Three keys give a store with two keys of a kind and one
of the other; three commands let a file be made, torn or extended, and read. There is no liveness:
commands are sequential and may be killed.

`KeyStoreProofs` proves `KeyStoreInvariant`, `FlagsDetermined`, `NoShareLost` and
`ServersAgreeOnKey` for all sets of keys, kinds and nodes. The flags look as if they depended on
the order of the insertions. `DefaultsDetermined` says what they are in every store that is built
by insertions: a share is default exactly if it is the only share of its operation, and at most one
public key of an operation is. With it two servers that hold shares of the same keys choose the
same key whatever the order of their files. It also says when there is none: with two shares of one
operation no share is default (`key_store.rs:250`), and the look-up by scheme and group fails if
the operation has two keys of that scheme and group. This is what the code does and not what it
says: the comments at `key_store.rs:221-222` make the first key created the default, and those at
316 and 338 expect one default at any time. `OneDefault` states that, and `keys_default` shows a
server for which it does not hold. `LoadInv` says that the store holds exactly the entries before the
position reached, which needs that no key is in a file twice.

A torn file is outside these properties: quorumcli empties a file before it writes it, keygen takes
a file it cannot read for an empty store, and a server starts with no key (`key_manager.rs:54`).

## Node

`Node` is one server after `start_server` has succeeded.

| state | code |
|---|---|
| `main`, `handles`, `joined` | `main` of `server.rs`: monitoring or joining, the handles it has, those already polled to their end |
| `task`, `woken` | where the network manager, key manager, emitter, instance manager and RPC server are; which of them the notification has reached |
| `outgoing`, `incoming`, `commands`, `keycmds`, `events`, `chan` | the bounded channels |
| `held`, `cached`, `backlog`, `forward`, `exec` | the message a task waits to send, the instances, their executors |

A task in its `select!` takes any branch that is ready. `Notify` reaches the tasks that wait there,
and a task that was reached may still take another branch, after which it has forgotten (`woken`).
Clients go away without a sign, and then the `expect`s of the instance manager
(`instance_manager.rs:306`) and of the key manager (`key_manager.rs:86`) panic; executors fail or
panic; any channel may be full. A message of a peer is handed over (`NetworkGossip`), dropped since
it is for others (`NetworkSkips`), or ends the network task: what does not decode
(`p2p_component.rs:105`) and a message for the TOB channel (`network_manager.rs:94`) panic
(`NetworkReturns`). How each task ends is its own `...Returns`: the RPC task also with an error,
when its address does not parse (`rpc_request_handler.rs:517`). The tick of the backlog comes at any
moment, also when there is nothing in it. The emitter is the one that writes a file; a null emitter
differs only in that it outlives its channel.

| run | instance | shows |
|---|---|---|
| `node` | one instance of 2 rounds, one peer, one request, one listing of keys, channels of one place but for the instance's | `JoinedAll`; `SendersGetOn`, `OwnShareReturns` and `QuietNodeStops` under `Fairness` |
| `node_shutdown` | one round, no listing | said: all components are notified of a shutdown, and awaited; done: a task in a handler, or one that takes another branch, never hears of it and main waits for ever (`ShutdownCompletes`) |

`SendersGetOn` and `OwnShareReturns` are about the cycle executor, network manager, instance
manager. Every channel in it has one place in the run, except that of the instance, which has room
for what its instance is sent: with one place there too and five peers the three wait for each
other. The code has 32 places. `QuietNodeStops` is what remains of an orderly shutdown: if every
task is in its `select!` when main notifies and nothing arrives any more, from peers or clients, the
node stops. All three
hold also when tasks have panicked. `Fairness` is weak fairness of `Step`, the
steps of main and the tasks together: some task that can go on does. Which one is open, and so is
whether a first peer is found or its timeout ends the network manager, and whether an event can be
written. Nothing is assumed of the operator, the clients and a failure of the RPC server.

`NodeProofs` proves `ShutdownJoinsAll`, for all instances, peers and capacities: main says that the
shutdown is complete only when all tasks have ended, and panics only if a task did (the handle of a
panicked task stays in the list and is awaited twice, `server.rs:99`). The invariant `JoinInv` says
that every task that has not ended has its handle in the list and that a task notified is in its
`select!`; the lemmas show that no step of a task brings back one that has ended or touches the
handles.

It also proves `TypeCorrect`, that every task is in one of its places, panics and errors included,
and every channel within its capacity, and
`InstanceStartedOnce`. `start` looks for an id in the cache, awaits the key manager and then inserts
the id and spawns the executor: the action property `StartedOnce` says that no step spawns an
executor for an instance that has one or is in the cache. The invariant `TypeInv` says for it that
the id the instance manager holds while it awaits the answer is absent from the cache (nobody else
writes the cache, and the manager does nothing else meanwhile), and that an instance which is absent
has no executor as long as the manager lives. No run checks `StartedOnce`: it takes two requests,
with which the state space of `Node` is too large for a run with liveness.

## DlSchemes, RsaScheme and Schemes

`DlSchemes` and `RsaScheme` hold the algorithms of `core/schemes` as operators with the names of
the code: sharing and interpolation, encryption, partial evaluation, verification and assembly of
SG02, BZ03, CKS05, BLS04, FROST and SH00. A group has a small prime order and an element is its
exponent; the RSA modulus has two small safe primes. A hash is a constant operator `Hash`, and
the random numbers are parameters. Hashes to scalars are reduced where the code reduces them. CKS05
drops the reduced number (`cks05.rs:454`), so its challenge is any number, and the shares verify all
the same; `cks05.rs:411` and `bls04.rs:456` drop it too, but there the number is an exponent of the
generator and the element is the same.

`Schemes` runs them: keys are dealt, a ciphertext is made or a message chosen, FROST's signers
commit, nodes compute shares in any order, any set of at least `k` shares is assembled.

Run `schemes` (order 5, modulus 11 * 23, 3 nodes, every threshold, a few secrets, coefficients,
nonces and messages) checks `HonestAccepted`, `AssembleRight`, `ShareExact` and `BelowThreshold`. Of
the two groups with a pairing it has BLS12-381: the model does the same for BN254.
What goes wrong in such code, signs, indices, degrees, one node's key for another's, shows with
numbers of this size and sets of shares that have gaps. The messages have Jacobi symbols 1, -1 and
0, so that both branches of SH00 and its panic occur. Nothing is said of the strength of a scheme:
the order is small enough to try everything. `BelowThreshold` is about the sharing alone.

`DlSchemesProofs` and `SchemesProofs` prove the same for every prime order, every number of nodes
below it, every threshold and all random numbers, in the five schemes of the discrete logarithm:
`HonestSharesAccepted`, `AssembledResultRight`, `SharesExact` and `SecretHiddenBelowThreshold`, and
`TypeCorrect` for all six. That the order is prime is `OrderAssumption`, in the form in which it is
used: it divides no product of two smaller positive numbers. Of the hash functions the theorems use
that they return numbers (`HashIsNumber`, a hypothesis of the theorems, since it quantifies over
all inputs), and nothing else.

The argument is the one of the textbooks, for what the code computes. `lagrange_coeff` takes `j - i`
modulo the order by cases, and `inv_mod` of it exists because the order is prime (`ModInverse`, by
counting: multiplication with a number that is not 0 is injective on the scalars). `Interpolation`
says that the sum `interpolate` forms over any set of at least as many ids as the polynomial has
coefficients is the constant term. It goes by induction on that number: for a node `s` of the set
the polynomial is `(x - s) q(x) + f(s)`, the terms of the first part are those of `q` over the set
without `s`, and the coefficients add up to 1. `AnyValues` is the converse for `BelowThreshold`: a
polynomial through any values at distinct points, one of which is 0 for the secret. The folds over
sets that the operators are written with give the same result in any order (`OrderIrrelevant`),
which is what makes the result independent of the order in which shares arrive. These inductions are
over an explicit set, the set of the numbers or of the subsets for which the claim holds, and use
that a nonempty set of numbers has a least element: the induction rules of the library take an
operator as parameter and cannot be instantiated.

The state machine adds little: `IInv` says that the key is one that `shamir_share` deals, that a
ciphertext was made by `encrypt` under it, and that every share is the one its node computes from
the key, the request and the commitments there are now. The last is what needs an argument, for
FROST: all signers have committed before the first share is made, so that the list no longer
changes.

SH00 is checked by the run only. Its shares are exponents in the group of squares modulo a product
of two primes, and its interpolation is one of integers: the proofs would need the order of that
group and the exact division in `lag_coeff`.

Two limits of the code are in the model: the RSA interpolation casts ids to `u8`
(`rsa_schemes/common.rs:276`), so `Schemes` assumes fewer than `2^IdBits` nodes; and keys of FROST
can be generated for groups for which its hash functions panic.

## Proxy

`Proxy` is the transport of the integration mode: `P2PProxy` on every node, the stub, and the tasks
both spawn for every hop. `connecting`, `relaying`, `dialing` and `calling` are those tasks and
calls; `queue`, `registry` and `chain` are the stub's; `channel` is a node's channel of incoming
shares, and `passed` is what `deliver` has returned. A connection is refused exactly if nobody
listens, and a call that was connected arrives.

Run `proxy` (2 nodes that begin to listen at any time, 2 messages, 2 blocks of one id, channels of
one place) checks `OnePlace`, `OneBlockPerId` and, under weak fairness of the tasks, `Arrives`.
`OnePlace` names every place an item can be in on its way to a node, and two of them are ends: a
refused connection (`lost`), and for a block the registry (`dropped`), which turns it down exactly
because another block of its id is on the chain (`Superseded`). `Arrives` says that a
message sent while stub and node listen reaches the node, and that a block offered while a node
listens reaches it or is turned down.
`ProxyProofs` proves `TypeCorrect`, `NothingLostOrDoubled` and `OneBlockForwarded` for all sets and
capacities.
The inductive invariant `PlaceInv` adds to `OnePlace` that channel and queue hold nothing twice,
that the stages before the stub's tasks are disjoint, that the id of a forwarded block is in the
registry and belongs to no other forwarded block, and that the ids in the registry are those of
blocks on the chain.

A refused connection loses a share although `broadcast` returned `Ok`, and nothing sends it
again: liveness of the protocols in this mode needs the stub and the nodes to listen before the
first request. The stub hands a share also to its sender, which has looped it back already; the
protocols, whose modules deliver copies, take it once. The stub's readme promises the same order of
blocks to all nodes, but each block goes to each node by a task of its own; since no code
of the repository submits blocks, and the network manager has no branch for them
(`network_manager.rs:94`), the order is not the subject of a run.

## Only model-checked

Liveness and the properties stated with it (`CommandsAnswered`, `ResultReachesCaller`,
`RunningFinish`, `AllFinish`, `SendersGetOn`, `OwnShareReturns`, `QuietNodeStops`, `Arrives`), since
the prover does not handle fairness. The conjuncts of `HonestAccepted` and `AssembleRight` that are
about SH00. And, by their nature, the disagreements between documentation and code that the runs
with an expected violation show.

## Not modelled

- MIRACL core (`core/schemes/mcore`), nearly three quarters of the lines under `src/`: vendored
  third-party arithmetic. The models use what its operations compute.
- Encodings, accessors and the derive macros (`keys.rs`, `sizedint.rs`, `message_types.rs`,
  `schemes/derive`, most of `interface.rs`): a message or key is taken to survive its encoding.
  An incoming message that cannot be decoded is an input of `InstanceManager`, `Node` and
  `ThresholdRound`; in `Frost` all messages decode.
- FROST's precomputation and the key manager's commands for it: the instance manager creates the
  protocol without it and nothing sends the commands.
- `assign_instance_id`: ids are inputs, so requests that share an id are covered; which requests do
  depends on a hash.
- Time: the tick of the backlog may come at any moment. How long a message is kept at least is
  therefore not stated; `checked` belongs to the entry (`instance_manager.rs:398`), so a message that
  joins an old entry may be dropped at the next tick.
- libp2p, tonic and tokio: external. Gossip loses, copies and reorders; its content-addressed
  ids, by which the shares of an instance that is created again are not sent on a second time
  (`p2p_component.rs:294`), are not modelled, and `AllFinish` is for instances created once.
- The start of a server before its tasks run. (If `start_server` fails, `main` goes on to
  `select_all` over an empty list, which panics: `server.rs:77`.)
- The client, confgen, key_example and quorumcli's `enc` and `verify`: sequential input and output.
