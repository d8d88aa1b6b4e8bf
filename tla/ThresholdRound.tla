---------------------------- MODULE ThresholdRound ----------------------------
(***************************************************************************)
(* One request answered by a one-round threshold protocol (threshold       *)
(* cipher, threshold coin, threshold signature) on all nodes: the executor *)
(* of each node releases its share, collects the shares of the others and  *)
(* assembles the result from the first Threshold valid ones.               *)
(*                                                                         *)
(* A share is what decides its fate: the id it carries and whether it      *)
(* verifies.  Nodes in Faulty hold a key share that does not fit the       *)
(* public key and may send several shares, of either kind, under their id, *)
(* shares that do not verify under the ids in Forged, since nothing ties   *)
(* the id of a share to its sender, and messages that do not decode.       *)
(* The network keeps every message for ever, so it reorders, duplicates    *)
(* and delays; a message that is never delivered is lost.                  *)
(***************************************************************************)
EXTENDS Integers, Sequences, FiniteSets

CONSTANTS
  Nodes,       \* share ids
  Threshold,   \* get_threshold() of the key
  Faulty,
  Forged       \* other nodes' ids that faulty nodes use

ASSUME NodesAssumption ==
  IsFiniteSet(Nodes) /\ Faulty \subseteq Nodes /\ Forged \subseteq Nodes
ASSUME ThresholdAssumption == Threshold \in Nat \ {0}

VARIABLES
  status,              \* where the executor of each node is
  received_share_ids,
  valid_shares,        \* in the order they were pushed
  result,              \* what run returned
  net                  \* messages on the network and in the node's own loopback

vars == <<status, received_share_ids, valid_shares, result, net>>

Correct == Nodes \ Faulty

Share == [id : Nodes, valid : BOOLEAN]

Message == [to : Nodes, share : Share]

\* "idle": no instance yet, messages for it wait in the backlog; "failed": run returned
\* an error; "panicked": its task panicked.
Statuses == {"idle", "run", "finished", "failed", "panicked"}

Init ==
  /\ status = [p \in Nodes |-> "idle"]
  /\ received_share_ids = [p \in Nodes |-> {}]
  /\ valid_shares = [p \in Nodes |-> <<>>]
  /\ result = [p \in Nodes |-> "none"]
  /\ net = {}

-----------------------------------------------------------------------------
(* The protocol object. *)

\* The share that node p computes from its key.
ShareOf(p) == [id |-> p, valid |-> p \notin Faulty]

\* Mutant: one share less is enough.
ReadyTooEarly(shares) == Len(shares) + 1 >= Threshold

is_ready_to_finalize(shares) == Len(shares) >= Threshold

is_ready_for_next_round(shares) == Len(shares) >= Threshold

\* Mutant: an id that was seen before is not held against a share.
AcceptsDuplicates(p, share) == share.valid

\* Mutant: a share is taken without verification.
AcceptsUnverified(p, share) == share.id \notin received_share_ids[p]

\* Mutant: the id is recorded before it is looked up.
AcceptsNone(p, share) == share.id \notin received_share_ids[p] \cup {share.id} /\ share.valid

\* update pushes the share: its id is new, and it verifies.
Accepts(p, share) == share.id \notin received_share_ids[p] /\ share.valid

\* The valid shares after update.
update(p, share) ==
  IF Accepts(p, share) THEN Append(valid_shares[p], share) ELSE valid_shares[p]

\* assemble interpolates over the ids of the shares it is given: it yields the value
\* that belongs to the request if they are enough, valid and of distinct nodes.
assemble(shares) ==
  IF /\ Len(shares) >= Threshold
     /\ \A k \in 1..Len(shares) : shares[k].valid
     /\ \A j, k \in 1..Len(shares) : shares[j].id = shares[k].id => j = k
  THEN "value" ELSE "garbage"

\* The network manager publishes a message and gives it back to its own node.
Broadcast(p, share) == {[to |-> q, share |-> share] : q \in Nodes}

-----------------------------------------------------------------------------
(* The executor. *)

\* The instance is created and run does the first round.
Start(p) ==
  /\ status[p] = "idle"
  /\ status' = [status EXCEPT ![p] = "run"]
  /\ received_share_ids' = [received_share_ids EXCEPT ![p] = {p}]
  /\ valid_shares' = [valid_shares EXCEPT ![p] = <<ShareOf(p)>>]
  /\ net' = net \cup Broadcast(p, ShareOf(p))
  /\ UNCHANGED result

\* The first round fails: the ciphertext is invalid, or the scheme returns an error.
StartFails(p) ==
  /\ status[p] = "idle"
  /\ status' = [status EXCEPT ![p] = "failed"]
  /\ UNCHANGED <<received_share_ids, valid_shares, result, net>>

\* One turn of the loop of run: update, then finalize, a further round, or neither.  Some
\* schemes tell from what they assemble that it is not right, and then finalize fails.
Receive(p, share) ==
  /\ status[p] = "run"
  /\ [to |-> p, share |-> share] \in net
  /\ received_share_ids' = [received_share_ids EXCEPT ![p] = @ \cup {share.id}]
  /\ LET shares == update(p, share)
     IN  IF is_ready_to_finalize(shares)
         THEN /\ valid_shares' = [valid_shares EXCEPT ![p] = shares]
              /\ \/ /\ result' = [result EXCEPT ![p] = assemble(shares)]
                    /\ status' = [status EXCEPT ![p] = "finished"]
                 \/ /\ assemble(shares) = "garbage"
                    /\ status' = [status EXCEPT ![p] = "failed"]
                    /\ UNCHANGED result
              /\ UNCHANGED net
         ELSE IF is_ready_for_next_round(shares)
         THEN /\ valid_shares' = [valid_shares EXCEPT ![p] = Append(shares, ShareOf(p))]
              /\ net' = net \cup Broadcast(p, ShareOf(p))
              /\ UNCHANGED <<result, status>>
         ELSE /\ valid_shares' = [valid_shares EXCEPT ![p] = shares]
              /\ UNCHANGED <<result, status, net>>

\* A message of a faulty node does not decode: the unwrap in run panics.
Undecodable(p) ==
  /\ Faulty # {}
  /\ status[p] = "run"
  /\ status' = [status EXCEPT ![p] = "panicked"]
  /\ UNCHANGED <<received_share_ids, valid_shares, result, net>>

\* A faulty node sends one more share, to one node.
Stray(m) ==
  /\ Faulty # {}
  /\ m.share.id \in Faulty \/ (m.share.id \in Forged /\ ~m.share.valid)
  /\ net' = net \cup {m}
  /\ UNCHANGED <<status, received_share_ids, valid_shares, result>>

Next == \/ \E p \in Nodes : Start(p) \/ StartFails(p) \/ Undecodable(p)
        \/ \E p \in Nodes, share \in Share : Receive(p, share)
        \/ \E m \in Message : Stray(m)

Spec == Init /\ [][Next]_vars

\* What a correct node sent reaches every node whose instance runs: gossip propagates it,
\* and the loopback is a channel within the node.  Nothing is assumed of the requests and
\* of faulty nodes.
Fairness == \A p \in Nodes, q \in Correct : WF_vars(Receive(p, ShareOf(q)))

FairSpec == Spec /\ Fairness

-----------------------------------------------------------------------------
(* Properties *)

TypeOK ==
  /\ status \in [Nodes -> Statuses]
  /\ received_share_ids \in [Nodes -> SUBSET Nodes]
  /\ valid_shares \in [Nodes -> Seq(Share)]
  /\ result \in [Nodes -> {"none", "value", "garbage"}]
  /\ net \subseteq Message

\* No node that holds a proper key share ends with a wrong result, whatever shares the
\* faulty nodes send and in whatever order and number of copies shares arrive: update
\* lets only verified shares of distinct ids into valid_shares, the node's own one is
\* there once, and finalize runs when there are Threshold of them.
ResultsCorrect ==
  \A p \in Correct : status[p] = "finished" => result[p] = "value"

\* The inductive invariant: what a node has pushed are shares of distinct ids, all of them
\* recorded as received and still on the network, and, unless its own is not, valid; a
\* node that has not finished has no result.
SharesSound ==
  \A p \in Nodes :
    /\ \A k \in 1..Len(valid_shares[p]) :
         /\ valid_shares[p][k].id \in received_share_ids[p]
         /\ valid_shares[p][k].valid \/ p \in Faulty
         /\ [to |-> p, share |-> valid_shares[p][k]] \in net
    /\ \A j, k \in 1..Len(valid_shares[p]) :
         valid_shares[p][j].id = valid_shares[p][k].id => j = k
    /\ status[p] # "finished" => result[p] = "none"

IInv == TypeOK /\ SharesSound /\ ResultsCorrect

\* The nodes of which a valid share is on the network.
Released == {p \in Nodes : \E m \in net : m.share.id = p /\ m.share.valid}

\* The executors implement the service: in particular no correct node has a result before
\* Threshold nodes released theirs.
Service == INSTANCE ThresholdService WITH
  Observers <- Correct,
  released <- Released,
  outcome <- [p \in Correct |-> IF status[p] = "failed" THEN "failed" ELSE result[p]]

ImplementsService == Service!Spec

\* Nobody uses the id of a correct node.
Unforged == \A m \in net : m.share.id \in Correct => m.share.valid

EnoughCorrect ==
  Cardinality({q \in Correct : status[q] \in {"run", "finished", "panicked"}}) >= Threshold

\* Once Threshold correct nodes have released their shares, every correct node whose
\* instance runs ends with a result, unless a message that does not decode ends it: no
\* invalid share and no duplicate can hold it up or make it fail, and the executor, which
\* looks at is_ready_to_finalize only after a message, gets one.  This needs Unforged:
\* update records an id before it verifies, so a forged share keeps out the true one.
RunningFinish ==
  []Unforged => \A p \in Correct :
    (status[p] = "run" /\ EnoughCorrect) ~> status[p] \in {"finished", "panicked"}
=============================================================================
