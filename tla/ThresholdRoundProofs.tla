------------------------ MODULE ThresholdRoundProofs ------------------------
(* The one-round protocols are correct for any finite set of nodes, any threshold and *)
(* any set of faulty nodes, and they implement ThresholdService.                      *)
EXTENDS ThresholdRound, FiniteSetTheorems, TLAPS

-----------------------------------------------------------------------------
\* A share of an id not seen before keeps the shares of a node distinct and sound.
LEMMA PushByIndex ==
  ASSUME NEW S, NEW s \in Seq(S), NEW e \in S
  PROVE  /\ Append(s, e) \in Seq(S)
         /\ Len(Append(s, e)) = Len(s) + 1
         /\ Append(s, e)[Len(s) + 1] = e
         /\ \A k \in 1..Len(s) : Append(s, e)[k] = s[k]
  OBVIOUS

LEMMA OneShare == ASSUME NEW S, NEW e \in S PROVE <<e>> \in Seq(S)
  BY SMTT(30)

\* update: what it pushes, if anything.
LEMMA Pushed ==
  ASSUME IInv, NEW p \in Nodes, NEW share \in Share,
         [to |-> p, share |-> share] \in net
  PROVE  LET shares == update(p, share)
         IN  /\ shares \in Seq(Share)
             /\ \A k \in 1..Len(shares) :
                  /\ shares[k].id \in received_share_ids[p] \cup {share.id}
                  /\ shares[k].valid \/ p \in Faulty
                  /\ [to |-> p, share |-> shares[k]] \in net
             /\ \A j, k \in 1..Len(shares) : shares[j].id = shares[k].id => j = k
<1>1. /\ valid_shares[p] \in Seq(Share)
      /\ \A k \in 1..Len(valid_shares[p]) :
           /\ valid_shares[p][k].id \in received_share_ids[p]
           /\ valid_shares[p][k].valid \/ p \in Faulty
           /\ [to |-> p, share |-> valid_shares[p][k]] \in net
      /\ \A j, k \in 1..Len(valid_shares[p]) :
           valid_shares[p][j].id = valid_shares[p][k].id => j = k
  BY DEF IInv, TypeOK, SharesSound
<1>2. CASE ~Accepts(p, share)
  <2>1. update(p, share) = valid_shares[p]
    BY Zenon, <1>2 DEF update
  <2> QED
    BY <1>1, <2>1
<1>3. CASE Accepts(p, share)
  <2> DEFINE shares == Append(valid_shares[p], share)
             n == Len(valid_shares[p])
  <2>1. /\ shares \in Seq(Share) /\ Len(shares) = n + 1 /\ n \in Nat
        /\ shares[n + 1] = share
        /\ \A k \in 1..n : shares[k] = valid_shares[p][k]
    BY <1>1, PushByIndex
  <2>2. share.id \notin received_share_ids[p] /\ share.valid
    BY <1>3 DEF Accepts
  <2> HIDE DEF shares, n
  <2>3. \A k \in 1..Len(shares) : k \in 1..n \/ k = n + 1
    BY <2>1
  <2>4. \A k \in 1..n : /\ shares[k].id \in received_share_ids[p]
                        /\ shares[k].valid \/ p \in Faulty
                        /\ [to |-> p, share |-> shares[k]] \in net
    BY <1>1, <2>1 DEF n
  <2>5. \A j, k \in 1..n : shares[j].id = shares[k].id => j = k
    BY SMTT(30), <1>1, <2>1 DEF n
  <2>6. \A k \in 1..Len(shares) :
          /\ shares[k].id \in received_share_ids[p] \cup {share.id}
          /\ shares[k].valid \/ p \in Faulty
          /\ [to |-> p, share |-> shares[k]] \in net
    BY <2>1, <2>2, <2>3, <2>4
  <2>7. \A j, k \in 1..Len(shares) : shares[j].id = shares[k].id => j = k
    BY Zenon, <2>1, <2>2, <2>3, <2>4, <2>5
  <2>8. update(p, share) = shares
    BY Zenon, <1>3 DEF update, shares
  <2> QED
    BY <2>1, <2>6, <2>7, <2>8
<1> QED
  BY Zenon, <1>2, <1>3

-----------------------------------------------------------------------------
LEMMA InitIInv == Init => IInv
  BY DEF Init, IInv, TypeOK, Statuses, SharesSound, ResultsCorrect, Correct

\* The share of a node is a share, and its broadcast reaches the node itself.
LEMMA OwnShare ==
  ASSUME NEW p \in Nodes
  PROVE  /\ ShareOf(p) \in Share /\ ShareOf(p).id = p
         /\ ShareOf(p).valid \/ p \in Faulty
         /\ Broadcast(p, ShareOf(p)) \subseteq Message
         /\ [to |-> p, share |-> ShareOf(p)] \in Broadcast(p, ShareOf(p))
<1>1. (p \notin Faulty) \in BOOLEAN
  OBVIOUS
<1>2. ShareOf(p) \in Share /\ ShareOf(p).id = p /\ (ShareOf(p).valid \/ p \in Faulty)
  BY <1>1, Zenon DEF ShareOf, Share
<1>3. /\ Broadcast(p, ShareOf(p)) \subseteq Message
      /\ [to |-> p, share |-> ShareOf(p)] \in Broadcast(p, ShareOf(p))
  BY <1>2 DEF Broadcast, Message
<1> QED
  BY <1>2, <1>3

LEMMA StartStep == ASSUME IInv, NEW p \in Nodes, Start(p) PROVE IInv'
<1> USE DEF IInv, Start
<1>1. TypeOK'
  <2>1. <<ShareOf(p)>> \in Seq(Share)
    BY Zenon, OwnShare, OneShare
  <2>2. net' \subseteq Message
    BY OwnShare, Zenon DEF TypeOK
  <2> QED
    BY <2>1, <2>2 DEF TypeOK, Statuses
<1>2. /\ Len(valid_shares'[p]) = 1 /\ valid_shares'[p][1] = ShareOf(p)
      /\ received_share_ids'[p] = {p}
      /\ status'[p] = "run" /\ result'[p] = "none"
      /\ net \subseteq net' /\ [to |-> p, share |-> ShareOf(p)] \in net'
  BY OwnShare DEF TypeOK, SharesSound
<1>3. \A q \in Nodes : q # p =>
        /\ valid_shares'[q] = valid_shares[q] /\ received_share_ids'[q] = received_share_ids[q]
        /\ status'[q] = status[q] /\ result'[q] = result[q]
  BY DEF TypeOK
<1>4. SharesSound'
  BY <1>2, <1>3, OwnShare DEF SharesSound
<1>5. ResultsCorrect'
  BY <1>2, <1>3 DEF ResultsCorrect, Correct
<1> QED
  BY <1>1, <1>4, <1>5

LEMMA StartFailsStep == ASSUME IInv, NEW p \in Nodes, StartFails(p) PROVE IInv'
  BY DEF IInv, StartFails, TypeOK, Statuses, SharesSound, ResultsCorrect, Correct

LEMMA UndecodableStep == ASSUME IInv, NEW p \in Nodes, Undecodable(p) PROVE IInv'
  BY DEF IInv, Undecodable, TypeOK, Statuses, SharesSound, ResultsCorrect, Correct

LEMMA StrayStep == ASSUME IInv, NEW m \in Message, Stray(m) PROVE IInv'
  BY DEF IInv, Stray, TypeOK, SharesSound, ResultsCorrect, Correct

\* The branch of run for a further round is never taken: both questions are the same.
LEMMA ReceiveStep ==
  ASSUME IInv, NEW p \in Nodes, NEW share \in Share, Receive(p, share)
  PROVE  IInv'
<1> DEFINE shares == update(p, share)
<1> USE DEF IInv
<1>1. /\ status[p] = "run"
      /\ received_share_ids' = [received_share_ids EXCEPT ![p] = @ \cup {share.id}]
      /\ valid_shares' = [valid_shares EXCEPT ![p] = shares]
      /\ UNCHANGED net
      /\ \/ /\ Len(shares) >= Threshold
            /\ result' = [result EXCEPT ![p] = assemble(shares)]
            /\ status' = [status EXCEPT ![p] = "finished"]
         \/ /\ Len(shares) >= Threshold /\ assemble(shares) = "garbage"
            /\ status' = [status EXCEPT ![p] = "failed"] /\ UNCHANGED result
         \/ UNCHANGED <<result, status>>
  BY DEF Receive, is_ready_to_finalize, is_ready_for_next_round
<1>2. /\ shares \in Seq(Share)
      /\ \A k \in 1..Len(shares) :
           /\ shares[k].id \in received_share_ids[p] \cup {share.id}
           /\ shares[k].valid \/ p \in Faulty
           /\ [to |-> p, share |-> shares[k]] \in net
      /\ \A j, k \in 1..Len(shares) : shares[j].id = shares[k].id => j = k
  BY Pushed, Zenon DEF Receive
<1> HIDE DEF shares
<1>3. assemble(shares) \in {"value", "garbage"}
  BY DEF assemble
<1>4. (p \in Correct /\ Len(shares) >= Threshold) => assemble(shares) = "value"
  BY <1>2, Zenon DEF assemble, Correct
<1>5. share.id \in Nodes
  BY DEF Share
<1>6. TypeOK'
  <2>1. status' \in [Nodes -> Statuses]
    BY <1>1, Zenon DEF TypeOK, Statuses
  <2>2. received_share_ids' \in [Nodes -> SUBSET Nodes]
    BY <1>1, <1>5 DEF TypeOK
  <2>3. valid_shares' \in [Nodes -> Seq(Share)]
    BY <1>1, <1>2, Zenon DEF TypeOK
  <2>4. result' \in [Nodes -> {"none", "value", "garbage"}]
    BY <1>1, <1>3, Zenon DEF TypeOK
  <2> QED
    BY <1>1, <2>1, <2>2, <2>3, <2>4 DEF TypeOK
<1>7. /\ valid_shares'[p] = shares
      /\ received_share_ids'[p] = received_share_ids[p] \cup {share.id}
      /\ status'[p] # "finished" => result'[p] = "none"
      /\ (p \in Correct /\ status'[p] = "finished") => result'[p] = "value"
  BY <1>1, <1>4 DEF TypeOK, SharesSound
<1>8. \A q \in Nodes : q # p =>
        /\ valid_shares'[q] = valid_shares[q] /\ received_share_ids'[q] = received_share_ids[q]
        /\ status'[q] = status[q] /\ result'[q] = result[q]
  BY <1>1 DEF TypeOK
<1>9. SharesSound'
  BY <1>1, <1>2, <1>7, <1>8 DEF SharesSound
<1>10. ResultsCorrect'
  BY <1>7, <1>8 DEF ResultsCorrect, Correct
<1> QED
  BY <1>6, <1>9, <1>10

\* Every reachable state satisfies the inductive invariant: what a node has collected are
\* verified shares of distinct nodes, after any number of copies in any order.
THEOREM Invariance == Spec => []IInv
<1>1. IInv /\ [Next]_vars => IInv'
  <2> SUFFICES ASSUME IInv, [Next]_vars PROVE IInv'
    OBVIOUS
  <2>1. ASSUME NEW p \in Nodes, Start(p) PROVE IInv'
    BY <2>1, StartStep
  <2>2. ASSUME NEW p \in Nodes, StartFails(p) PROVE IInv'
    BY <2>2, StartFailsStep
  <2>6. ASSUME NEW p \in Nodes, Undecodable(p) PROVE IInv'
    BY <2>6, UndecodableStep
  <2>3. ASSUME NEW p \in Nodes, NEW share \in Share, Receive(p, share) PROVE IInv'
    BY <2>3, ReceiveStep
  <2>4. ASSUME NEW m \in Message, Stray(m) PROVE IInv'
    BY <2>4, StrayStep
  <2>5. CASE UNCHANGED vars
    BY <2>5 DEF vars, IInv, TypeOK, SharesSound, ResultsCorrect
  <2> QED
    BY <2>1, <2>2, <2>3, <2>4, <2>5, <2>6 DEF Next
<1> QED
  BY InitIInv, <1>1, PTL DEF Spec

\* Type correctness.
THEOREM TypeCorrect == Spec => []TypeOK
<1>1. IInv => TypeOK
  BY DEF IInv
<1> QED
  BY <1>1, Invariance, PTL

\* A node with a proper key share that finishes has the value of the request, for any
\* number of nodes, any threshold and any faulty nodes: update, is_ready_to_finalize and
\* finalize never assemble invalid or repeated shares.
THEOREM FinishedCorrect == Spec => []ResultsCorrect
<1>1. IInv => ResultsCorrect
  BY DEF IInv
<1> QED
  BY <1>1, Invariance, PTL

-----------------------------------------------------------------------------
(* Refinement *)

\* The shares of a correct node come from as many nodes that released one.
LEMMA SharesReleased ==
  ASSUME IInv, NEW p \in Correct, NEW shares \in Seq(Share), Len(shares) >= Threshold,
         \A k \in 1..Len(shares) :
           /\ shares[k].valid \/ p \in Faulty
           /\ [to |-> p, share |-> shares[k]] \in net,
         \A j, k \in 1..Len(shares) : shares[j].id = shares[k].id => j = k
  PROVE  Cardinality(Released) >= Threshold
<1> DEFINE n == Len(shares)
           f == [k \in 1..n |-> shares[k].id]
<1>1. n \in Nat /\ IsFiniteSet(1..n) /\ Cardinality(1..n) = n
  <2>1. n \in Nat /\ 1 \in Int /\ n \in Int
    OBVIOUS
  <2> HIDE DEF n
  <2>2. /\ IsFiniteSet(1..n)
        /\ Cardinality(1..n) = IF 1 > n THEN 0 ELSE n - 1 + 1
    BY <2>1, FS_Interval
  <2> QED
    BY <2>1, <2>2
<1>2. IsFiniteSet(Released) /\ Cardinality(Released) \in Nat
  <2>1. Released \subseteq Nodes
    BY DEF Released
  <2>2. IsFiniteSet(Released)
    BY <2>1, NodesAssumption, FS_Subset
  <2> QED
    BY <2>2, FS_CardinalityType
<1>3. f \in [1..n -> Released]
  <2> SUFFICES ASSUME NEW k \in 1..n PROVE shares[k].id \in Released
    OBVIOUS
  <2>1. shares[k] \in Share
    OBVIOUS
  <2>2. shares[k].valid /\ [to |-> p, share |-> shares[k]] \in net
    BY DEF Correct
  <2> DEFINE m == [to |-> p, share |-> shares[k]]
  <2>3. m \in net /\ m.share = shares[k]
    BY <2>2
  <2> HIDE DEF m
  <2> QED
    BY <2>1, <2>2, <2>3 DEF Released, Share
<1>4. \A j, k \in 1..n : f[j] = f[k] => j = k
  OBVIOUS
<1>5. ~(Cardinality(Released) < n)
  <2> SUFFICES ASSUME Cardinality(Released) < n PROVE FALSE
    OBVIOUS
  <2>1. PICK j, k \in 1..n : j # k /\ f[j] = f[k]
    <3> HIDE DEF f, n
    <3>1. Cardinality(Released) < Cardinality(1..n)
      BY <1>1
    <3> QED
      BY <1>1, <1>2, <1>3, <3>1, FS_PigeonHole
  <2> QED
    BY <2>1, <1>4
<1> HIDE DEF n
<1> QED
  BY <1>1, <1>2, <1>5, ThresholdAssumption DEF n

\* What Released gains when messages are added: the nodes whose valid share they carry.
LEMMA ReleasedBy ==
  ASSUME NEW M \in SUBSET Message, net' = net \cup M, NEW p \in Nodes,
         \A m \in M : m.share.id = p
  PROVE  Released' \in {Released, Released \cup {p}}
  BY DEF Released, Message, Share

\* What ThresholdService sees of the results.
Outcome == [p \in Correct |-> IF status[p] = "failed" THEN "failed" ELSE result[p]]

\* One turn of the executor: the shares of a correct node that finishes are enough.
LEMMA ReceiveRefines ==
  ASSUME IInv, NEW p \in Nodes, NEW share \in Share, Receive(p, share)
  PROVE  /\ Released' = Released
         /\ \/ Outcome' = Outcome
            \/ /\ p \in Correct /\ Outcome[p] = "none"
               /\ Cardinality(Released) >= Threshold
               /\ Outcome' = [Outcome EXCEPT ![p] = "value"]
<1> DEFINE shares == update(p, share)
<1>1. /\ status[p] = "run" /\ net' = net
      /\ \/ /\ Len(shares) >= Threshold
            /\ result' = [result EXCEPT ![p] = assemble(shares)]
            /\ status' = [status EXCEPT ![p] = "finished"]
         \/ /\ Len(shares) >= Threshold /\ assemble(shares) = "garbage"
            /\ status' = [status EXCEPT ![p] = "failed"] /\ UNCHANGED result
         \/ UNCHANGED <<result, status>>
  BY SMTT(30) DEF Receive, is_ready_to_finalize, is_ready_for_next_round
<1>2. /\ shares \in Seq(Share)
      /\ \A k \in 1..Len(shares) :
           /\ shares[k].valid \/ p \in Faulty
           /\ [to |-> p, share |-> shares[k]] \in net
      /\ \A j, k \in 1..Len(shares) : shares[j].id = shares[k].id => j = k
  BY Pushed DEF Receive
<1> HIDE DEF shares
<1>3. Released' = Released
  BY <1>1 DEF Released
<1>4. result[p] = "none" /\ status \in [Nodes -> Statuses]
      /\ result \in [Nodes -> {"none", "value", "garbage"}]
  BY <1>1 DEF IInv, SharesSound, TypeOK
<1>5. CASE UNCHANGED <<result, status>>
  BY <1>3, <1>5 DEF Outcome
<1>6. CASE p \notin Correct
  <2>1. \A q \in Correct : status'[q] = status[q] /\ result'[q] = result[q]
    BY <1>1, <1>4, <1>6 DEF Correct
  <2>2. Outcome' = Outcome
    BY <2>1 DEF Outcome
  <2> QED
    BY <1>3, <2>2
<1>7. CASE /\ p \in Correct
           /\ Len(shares) >= Threshold
           /\ result' = [result EXCEPT ![p] = assemble(shares)]
           /\ status' = [status EXCEPT ![p] = "finished"]
  <2>1. assemble(shares) = "value"
    BY <1>2, <1>7, Zenon DEF assemble, Correct
  <2>2. Outcome[p] = "none"
    BY <1>1, <1>4, <1>7 DEF Outcome
  <2>3. \A q \in Correct : Outcome'[q] = IF q = p THEN "value" ELSE Outcome[q]
    BY <1>4, <1>7, <2>1 DEF Outcome, Correct
  <2>4. Outcome' = [Outcome EXCEPT ![p] = "value"]
    BY <2>3, Zenon DEF Outcome
  <2>5. Cardinality(Released) >= Threshold
    BY <1>2, <1>7, SharesReleased
  <2> QED
    BY <1>3, <1>7, <2>2, <2>4, <2>5
<1>8. CASE p \in Correct /\ Len(shares) >= Threshold /\ assemble(shares) = "garbage"
  BY <1>2, <1>8, Zenon DEF assemble, Correct
<1> QED
  BY <1>1, <1>5, <1>6, <1>7, <1>8

LEMMA SameCardinality == Service!Cardinality(Released) = Cardinality(Released)
  BY Zenon DEF Cardinality, Service!Cardinality

\* The executors of all nodes together implement the service: a correct node ends with the
\* value or an error, once, and with the value only if Threshold nodes released a share.
THEOREM Refinement == Spec => ImplementsService
<1> USE DEF Outcome
<1>1. Init => Service!Init
  BY DEF Init, Service!Init, Released, Correct
<1>2. IInv /\ [Next]_vars => [Service!Next]_<<Released, Outcome>>
  <2> SUFFICES ASSUME IInv, [Next]_vars
               PROVE  Service!Next \/ UNCHANGED <<Released, Outcome>>
    OBVIOUS
  <2>1. ASSUME NEW p \in Nodes, Start(p)
        PROVE  Service!Next \/ UNCHANGED <<Released, Outcome>>
    <3>1. Released' \in {Released, Released \cup {p}}
      <4>1. /\ Broadcast(p, ShareOf(p)) \in SUBSET Message
            /\ net' = net \cup Broadcast(p, ShareOf(p))
        BY <2>1, OwnShare, Zenon DEF Start
      <4>2. \A m \in Broadcast(p, ShareOf(p)) : m.share = ShareOf(p)
        BY DEF Broadcast
      <4>3. \A m \in Broadcast(p, ShareOf(p)) : m.share.id = p
        BY Zenon, <4>2, OwnShare
      <4> QED
        BY Zenon, <4>1, <4>3, ReleasedBy
    <3>2. Outcome' = Outcome
      BY <2>1 DEF Start, IInv, TypeOK, Correct
    <3> QED
      BY <3>1, <3>2 DEF Service!Next, Service!Release
  <2>2. ASSUME NEW p \in Nodes, StartFails(p)
        PROVE  Service!Next \/ UNCHANGED <<Released, Outcome>>
    <3>1. Released' = Released
      BY <2>2 DEF StartFails, Released
    <3>2. CASE p \in Correct
      <4>1. Outcome[p] = "none"
        BY <2>2, <3>2 DEF StartFails, IInv, SharesSound, Correct
      <4>2. Outcome' = [Outcome EXCEPT ![p] = "failed"]
        BY <2>2, <3>2, Zenon DEF StartFails, IInv, TypeOK, Correct
      <4> QED
        BY <3>1, <3>2, <4>1, <4>2, Zenon DEF Service!Next, Service!Fail
    <3>3. CASE p \notin Correct
      <4>1. Outcome' = Outcome
        BY <2>2, <3>3 DEF StartFails, IInv, TypeOK, Correct
      <4> QED
        BY <3>1, <4>1
    <3> QED
      BY <3>2, <3>3
  <2>6. ASSUME NEW p \in Nodes, Undecodable(p)
        PROVE  Service!Next \/ UNCHANGED <<Released, Outcome>>
    <3>1. Released' = Released
      BY <2>6 DEF Undecodable, Released
    <3>2. Outcome' = Outcome
      BY <2>6 DEF Undecodable, IInv, TypeOK, Correct
    <3> QED
      BY <3>1, <3>2
  <2>3. ASSUME NEW p \in Nodes, NEW share \in Share, Receive(p, share)
        PROVE  Service!Next \/ UNCHANGED <<Released, Outcome>>
    <3>1. /\ Released' = Released
          /\ \/ Outcome' = Outcome
             \/ /\ p \in Correct /\ Outcome[p] = "none"
                /\ Cardinality(Released) >= Threshold
                /\ Outcome' = [Outcome EXCEPT ![p] = "value"]
      BY <2>3, ReceiveRefines
    <3>2. CASE Outcome' = Outcome
      BY <3>1, <3>2
    <3>3. CASE Outcome' # Outcome
      <4>1. p \in Correct /\ Service!Finish(p)
        BY <3>1, <3>3, SameCardinality DEF Service!Finish
      <4> QED
        BY <4>1 DEF Service!Next
    <3> QED
      BY <3>2, <3>3
  <2>4. ASSUME NEW m \in Message, Stray(m)
        PROVE  Service!Next \/ UNCHANGED <<Released, Outcome>>
    <3>1. m.share.id \in Nodes /\ {m} \in SUBSET Message /\ net' = net \cup {m}
      BY <2>4 DEF Stray, Message, Share
    <3>2. Released' \in {Released, Released \cup {m.share.id}}
      BY Zenon, <3>1, ReleasedBy
    <3>3. Outcome' = Outcome
      BY <2>4 DEF Stray
    <3> QED
      BY <3>1, <3>2, <3>3 DEF Service!Next, Service!Release
  <2>5. CASE UNCHANGED vars
    BY <2>5 DEF vars, Released
  <2> QED
    BY <2>1, <2>2, <2>3, <2>4, <2>5, <2>6 DEF Next
<1> QED
  BY <1>1, <1>2, Invariance, PTL DEF Spec, ImplementsService, Service!Spec
=============================================================================
