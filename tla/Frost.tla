-------------------------------- MODULE Frost --------------------------------
(***************************************************************************)
(* One signing request answered by FROST on all nodes: two rounds among a  *)
(* signer group that every node derives from the message.  Signers commit  *)
(* to a nonce, sign once they have the commitments of the group, and       *)
(* every node, signer or not, assembles the signature from the shares of   *)
(* the whole group.                                                        *)
(*                                                                         *)
(* A nonce is the number of the incarnation of the instance that drew it,  *)
(* a commitment is the nonce it commits to, and a share is what decides    *)
(* whether it verifies: the nonce and the commitments it was made with and *)
(* whether the signer's key share fits the public key.  An instance may be *)
(* created again, after a restart of the server or after its ejection from *)
(* the cache, while messages of its earlier incarnation are under way.     *)
(***************************************************************************)
EXTENDS Integers, FiniteSets

CONSTANTS
  Nodes,         \* the share ids of the nodes there are
  Threshold,     \* get_threshold() of the key
  SignerGroups,  \* the groups that messages may hash to
  Faulty,        \* nodes whose key share does not fit the public key
  Restarts,      \* the sets of nodes that a request may find restarting
  MaxStarts      \* bound: how often an instance is created on a restarting node

ASSUME NodesAssumption == IsFiniteSet(Nodes) /\ Nodes \subseteq Nat \ {0}
ASSUME ThresholdAssumption == Threshold \in Nat \ {0}
ASSUME StartsAssumption == Restarts \subseteq SUBSET Nodes /\ MaxStarts \in Nat \ {0}

\* SignerGroup::new draws Threshold different ids below the number of nodes it assumes.
AssumedNodes == 1..(3 * (Threshold - 1) + 1)

ASSUME GroupsAssumption ==
  \A g \in SignerGroups : g \subseteq AssumedNodes /\ Cardinality(g) = Threshold

VARIABLES
  signer_group,         \* the group of the message of this request
  restarting,           \* the nodes that may create its instance again
  status,               \* where the executor of each node is
  starts,               \* how often the instance was created on each node
  round,
  nonce,                \* 0 stands for None
  commitment_list,
  shares,
  not_verified_shares,
  output,               \* whether the signature that was returned verifies
  inbox                 \* what was ever sent to each node

vars == <<signer_group, restarting, status, starts, round, nonce, commitment_list,
          shares, not_verified_shares, output, inbox>>

Ids == Nodes \cup UNION SignerGroups

Incarnations == 1..MaxStarts

\* How often the instance is created on node i, at most.
Limit(i) == IF i \in restarting THEN MaxStarts ELSE 1

\* The HashMaps of the protocol object.
PartialMap(V) == UNION {[D -> V] : D \in SUBSET Ids}

NoEntries == [i \in {} |-> 0]

\* HashMap::insert.
insert(map, id, v) == [i \in DOMAIN map \cup {id} |-> IF i = id THEN v ELSE map[i]]

FrostSignatureShare ==
  [id : Nodes, nonce : Incarnations, list : PartialMap(Incarnations), good : BOOLEAN]

\* FrostData; Default is never sent.
Message ==
  [data : {"Commitment"}, id : Nodes, commitment : Incarnations]
    \cup [data : {"Share"}, id : Nodes, share : FrostSignatureShare]

IsCommitment(m) == m.data = "Commitment"

Statuses == {"idle", "run", "finished", "failed"}

Init ==
  /\ signer_group \in SignerGroups
  /\ restarting \in Restarts
  /\ status = [p \in Nodes |-> "idle"]
  /\ starts = [p \in Nodes |-> 0]
  /\ round = [p \in Nodes |-> 0]
  /\ nonce = [p \in Nodes |-> 0]
  /\ commitment_list = [p \in Nodes |-> NoEntries]
  /\ shares = [p \in Nodes |-> NoEntries]
  /\ not_verified_shares = [p \in Nodes |-> {}]
  /\ output = [p \in Nodes |-> "none"]
  /\ inbox = [p \in Nodes |-> {}]

-----------------------------------------------------------------------------
(* The scheme. *)

\* Mutant: a re-created instance keeps the nonce that the one before it signed with.
CommitAgain(p) == IF round[p] = 2 THEN nonce[p] ELSE starts[p] + 1

\* commit draws a fresh nonce.
commit(p) == starts[p] + 1

partial_sign(p, list) ==
  [id |-> p, nonce |-> nonce[p], list |-> list, good |-> p \notin Faulty]

\* verify_share: the error is that of a missing commitment.
verify_share(share, list) ==
  IF share.id \notin DOMAIN list THEN "err"
  ELSE IF share.good /\ share.list = list /\ share.nonce = list[share.id] THEN "true"
  ELSE "false"

\* finalize adds up the shares under the commitment of the group: the signature verifies
\* if they are the ones of the committed signers and each belongs to the list.
assemble(list, shs) ==
  IF /\ DOMAIN shs = DOMAIN list
     /\ \A i \in DOMAIN shs : verify_share(shs[i], list) = "true"
  THEN "signature" ELSE "garbage"

-----------------------------------------------------------------------------
(* The protocol object. *)

\* Mutant: one commitment is not waited for.
ReadyForRoundTwoTooEarly(list) == Cardinality(DOMAIN list) + 1 >= Threshold

\* is_ready_for_next_round in round 1.
ReadyForRoundTwo(list) ==
  Cardinality(DOMAIN list) >= Threshold /\ signer_group \subseteq DOMAIN list

\* is_ready_for_next_round in round 2.
ReadyForRoundThree(shs, unverified) ==
  /\ Cardinality(DOMAIN shs) >= Threshold
  /\ unverified = {}
  /\ signer_group \subseteq DOMAIN shs

is_ready_for_next_round(p, list, shs, unverified) ==
  \/ round[p] = 1 /\ ReadyForRoundTwo(list)
  \/ round[p] = 2 /\ ReadyForRoundThree(shs, unverified)

\* Mutant: shares that came before their commitment are not waited for.
ReadyUnverified(shs, unverified) ==
  /\ Cardinality(DOMAIN shs) = Threshold
  /\ signer_group \subseteq DOMAIN shs

\* Mutant: one share more is waited for.
ReadyTooLate(shs, unverified) ==
  /\ Cardinality(DOMAIN shs) > Threshold
  /\ unverified = {}
  /\ signer_group \subseteq DOMAIN shs

\* Mutant: one share less is enough.
ReadyTooEarly(shs, unverified) ==
  Cardinality(DOMAIN shs) + 1 >= Threshold /\ unverified = {}

is_ready_to_finalize(shs, unverified) ==
  /\ Cardinality(DOMAIN shs) = Threshold
  /\ unverified = {}
  /\ signer_group \subseteq DOMAIN shs

\* update takes the commitment or the share of m: the first one of a member of the group.
TakesCommitment(p, m) ==
  IsCommitment(m) /\ m.id \in signer_group \ DOMAIN commitment_list[p]

TakesShare(p, m) ==
  ~IsCommitment(m) /\ m.id \in signer_group \ DOMAIN shares[p]

CommitmentsWith(p, m) ==
  IF TakesCommitment(p, m) THEN insert(commitment_list[p], m.id, m.commitment)
  ELSE commitment_list[p]

SharesWith(p, m) ==
  IF TakesShare(p, m) THEN insert(shares[p], m.id, m.share) ELSE shares[p]

\* A share whose commitment is missing is kept and looked at when the commitment comes.
UnverifiedWith(p, m) ==
  IF TakesShare(p, m) /\ m.id \notin DOMAIN commitment_list[p]
  THEN not_verified_shares[p] \cup {m.id}
  ELSE IF TakesCommitment(p, m) THEN not_verified_shares[p] \ {m.id}
  ELSE not_verified_shares[p]

\* update ends with InvalidShare: it asks for an error of verify_share, not for its answer.
UpdateFails(p, m) ==
  /\ \/ TakesCommitment(p, m) /\ m.id \in DOMAIN shares[p]
     \/ TakesShare(p, m) /\ m.id \in DOMAIN commitment_list[p]
  /\ verify_share(SharesWith(p, m)[m.id], CommitmentsWith(p, m)) = "err"

-----------------------------------------------------------------------------
(* The executor. *)

\* Mutant: the network manager does not give a node its own messages.
NoLoopback(p, m) == [q \in Nodes |-> IF q = p THEN inbox[q] ELSE inbox[q] \cup {m}]

\* The network manager publishes a message and gives it back to its own node.
Broadcast(p, m) == [q \in Nodes |-> inbox[q] \cup {m}]

\* The instance is created, in place of an earlier one if there was one, and run does the
\* first round, in which only signers commit and send.
Start(p) ==
  /\ starts[p] < Limit(p)
  /\ starts' = [starts EXCEPT ![p] = @ + 1]
  /\ status' = [status EXCEPT ![p] = "run"]
  /\ output' = [output EXCEPT ![p] = "none"]
  /\ round' = [round EXCEPT ![p] = 1]
  /\ shares' = [shares EXCEPT ![p] = NoEntries]
  /\ not_verified_shares' = [not_verified_shares EXCEPT ![p] = {}]
  /\ IF p \in signer_group
     THEN /\ nonce' = [nonce EXCEPT ![p] = commit(p)]
          /\ commitment_list' = [commitment_list EXCEPT ![p] = insert(NoEntries, p, commit(p))]
          /\ inbox' = Broadcast(p, [data |-> "Commitment", id |-> p, commitment |-> commit(p)])
     ELSE /\ nonce' = [nonce EXCEPT ![p] = 0]
          /\ commitment_list' = [commitment_list EXCEPT ![p] = NoEntries]
          /\ UNCHANGED inbox
  /\ UNCHANGED <<signer_group, restarting>>

\* do_round after the first: round one ends with the share of a signer, which it signs
\* unless it has one of itself; there is no round after the second.
do_round(p, list, shs) ==
  IF round[p] # 1
  THEN /\ status' = [status EXCEPT ![p] = "failed"]
       /\ shares' = [shares EXCEPT ![p] = shs]
       /\ UNCHANGED <<round, inbox>>
  ELSE /\ round' = [round EXCEPT ![p] = 2]
       /\ IF p \in signer_group \ DOMAIN shs
          THEN LET share == partial_sign(p, list)
               IN  /\ shares' = [shares EXCEPT ![p] = insert(shs, p, share)]
                   /\ inbox' = Broadcast(p, [data |-> "Share", id |-> p, share |-> share])
          ELSE /\ shares' = [shares EXCEPT ![p] = shs]
               /\ UNCHANGED inbox
       /\ UNCHANGED status

\* One turn of the loop of run: update, then finalize, the next round, or neither.
Receive(p, m) ==
  /\ status[p] = "run"
  /\ m \in inbox[p]
  /\ LET list == CommitmentsWith(p, m)
         shs == SharesWith(p, m)
         unverified == UnverifiedWith(p, m)
     IN  /\ commitment_list' = [commitment_list EXCEPT ![p] = list]
         /\ not_verified_shares' = [not_verified_shares EXCEPT ![p] = unverified]
         /\ IF UpdateFails(p, m)
            THEN /\ status' = [status EXCEPT ![p] = "failed"]
                 /\ UNCHANGED <<shares, round, inbox, output>>
            ELSE IF is_ready_to_finalize(shs, unverified)
            THEN /\ status' = [status EXCEPT ![p] = "finished"]
                 /\ output' = [output EXCEPT ![p] = assemble(list, shs)]
                 /\ shares' = [shares EXCEPT ![p] = shs]
                 /\ UNCHANGED <<round, inbox>>
            ELSE IF is_ready_for_next_round(p, list, shs, unverified)
            THEN do_round(p, list, shs) /\ UNCHANGED output
            ELSE /\ shares' = [shares EXCEPT ![p] = shs]
                 /\ UNCHANGED <<status, round, inbox, output>>
  /\ UNCHANGED <<signer_group, restarting, starts, nonce>>

Next == \E p \in Nodes : Start(p) \/ \E m \in inbox[p] : Receive(p, m)

Spec == Init /\ [][Next]_vars

\* m is new to p, or p's own message of the current round.  Only these are certain to be
\* delivered: gossip propagates a message to every other node once, and the loopback is a
\* channel within the node.
Expected(p, m) ==
  \/ TakesCommitment(p, m)
  \/ TakesShare(p, m)
  \/ m.id = p /\ IsCommitment(m) = (round[p] = 1)

\* Every node gets the request, and every message is given to a running instance.  Where
\* instances are created again nothing is certain: what the earlier one got is not sent twice.
Fairness ==
  \A p \in Nodes :
    /\ WF_vars(restarting = {} /\ Start(p))
    /\ WF_vars(restarting = {} /\ \E m \in inbox[p] : Expected(p, m) /\ Receive(p, m))

FairSpec == Spec /\ Fairness

-----------------------------------------------------------------------------
(* Properties *)

TypeOK ==
  /\ signer_group \in SignerGroups
  /\ restarting \in Restarts
  /\ status \in [Nodes -> Statuses]
  /\ starts \in [Nodes -> 0..MaxStarts]
  /\ round \in [Nodes -> 0..2]
  /\ nonce \in [Nodes -> 0..MaxStarts]
  /\ commitment_list \in [Nodes -> PartialMap(Incarnations)]
  /\ DOMAIN shares = Nodes
  /\ \A p \in Nodes : /\ DOMAIN shares[p] \subseteq Ids
                      /\ shares[p] \in [DOMAIN shares[p] -> FrostSignatureShare]
  /\ not_verified_shares \in [Nodes -> SUBSET Ids]
  /\ output \in [Nodes -> {"none", "signature", "garbage"}]
  /\ inbox \in [Nodes -> SUBSET Message]

\* The signature that an instance returns verifies, although update accepts shares that it
\* could not check against the complete list of commitments: the commitments of all
\* signers are there when finalize runs, and they are the ones that the signers signed.
OutputVerifies == \A p \in Nodes : output[p] # "garbage"

\* run never ends with an error: update finds the commitment of every share it verifies,
\* and do_round is not called after the second round.
NeverFails == \A p \in Nodes : status[p] # "failed"

\* A nonce signs one list of commitments: two shares that a node ever sent from the same
\* nonce are the same share, also if the instance was created again in between.
NonceSignsOnce ==
  \A p, q \in Nodes : \A m1 \in inbox[p], m2 \in inbox[q] :
    (~IsCommitment(m1) /\ ~IsCommitment(m2) /\ m1.id = m2.id /\ m1.share.nonce = m2.share.nonce)
      => m1.share = m2.share

ShareSound(share, i) ==
  share.id = i /\ DOMAIN share.list = signer_group /\ (share.good \/ i \in Faulty)

\* The inductive invariant.  What the object of a node holds is of the signer group; a
\* share belongs to the id it is kept under, was made with a complete list, and is either
\* marked as not verified or has its commitment.
ObjectsSound ==
  \A p \in Nodes :
    /\ DOMAIN commitment_list[p] \subseteq signer_group
    /\ DOMAIN shares[p] \subseteq signer_group
    /\ DOMAIN shares[p] \subseteq not_verified_shares[p] \cup DOMAIN commitment_list[p]
    /\ \A i \in DOMAIN shares[p] : ShareSound(shares[p][i], i)
    /\ status[p] # "idle" => round[p] \in {1, 2}
    /\ status[p] # "idle" /\ p \in signer_group =>
         nonce[p] = starts[p] /\ starts[p] > 0 /\ p \in DOMAIN commitment_list[p]

\* A share that was sent was made by an incarnation there was, in its second round.
MessagesSound ==
  \A p \in Nodes : \A m \in inbox[p] : ~IsCommitment(m) =>
    /\ ShareSound(m.share, m.id)
    /\ m.share.nonce <= starts[m.id]
    /\ m.share.nonce = starts[m.id] => round[m.id] = 2

\* A share that a node holds was sent to it.
SharesWereSent ==
  \A p \in Nodes : \A i \in DOMAIN shares[p] :
    i \in Nodes /\ \E m \in inbox[p] :
      ~IsCommitment(m) /\ m.id = i /\ m.share = shares[p][i]

\* An instance that was never created is idle, and one that has not ended has no output.
OutputsAtEnd ==
  \A p \in Nodes :
    /\ starts[p] = 0 => status[p] = "idle"
    /\ status[p] # "finished" => output[p] = "none"

ListWithin(list) == \A i \in DOMAIN list : list[i] <= Limit(i)

ShareWithin(share, i) == share.nonce <= Limit(i) /\ ListWithin(share.list)

\* Lists and messages speak of incarnations there may be.
WithinLimit ==
  \A p \in Nodes :
    /\ starts[p] <= Limit(p)
    /\ ListWithin(commitment_list[p])
    /\ \A m \in inbox[p] : IF IsCommitment(m) THEN m.commitment <= Limit(m.id)
                            ELSE ShareWithin(m.share, m.id)

\* Nothing disturbs the request: all keys fit, and no instance is created again.
Undisturbed == Faulty = {} /\ restarting = {}

\* If nothing disturbs the request, the signature that an instance returns verifies.  An
\* instance that is created again commits again, and who has its first commitment cannot
\* assemble a signature with its second share.
UndisturbedVerifies == Undisturbed => OutputVerifies

IInv ==
  /\ TypeOK
  /\ ObjectsSound
  /\ MessagesSound
  /\ NonceSignsOnce
  /\ SharesWereSent
  /\ OutputsAtEnd
  /\ WithinLimit
  /\ NeverFails
  /\ UndisturbedVerifies

\* The nodes of which a valid share is on the network.
Released ==
  {p \in Nodes : \E q \in Nodes : \E m \in inbox[q] :
     ~IsCommitment(m) /\ m.id = p /\ m.share.good}

\* What the executor of each node ended with.
Outcome ==
  [p \in Nodes |-> IF status[p] = "failed" THEN "failed"
                   ELSE IF output[p] = "signature" THEN "value" ELSE output[p]]

\* The service is promised to requests that nothing disturbs.
PromisedReleased == IF Undisturbed THEN Released ELSE {}

PromisedOutcome == IF Undisturbed THEN Outcome ELSE [p \in Nodes |-> "none"]

Service == INSTANCE ThresholdService WITH
  Observers <- Nodes, released <- PromisedReleased, outcome <- PromisedOutcome

\* On a request that nothing disturbs FROST implements the service that the one-round
\* protocols implement: a node ends once, with a signature that verifies, and only after
\* Threshold nodes released a share.
ImplementsService == Service!Spec

\* If nothing disturbs the request, every node, signer or not, gets the signature, in
\* whatever order the messages of the two rounds arrive.
AllFinish == Undisturbed => \A p \in Nodes : <>(status[p] = "finished")
=============================================================================
