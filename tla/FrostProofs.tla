----------------------------- MODULE FrostProofs -----------------------------
(* FROST for any nodes, threshold and signer groups: no nonce signs twice and run never *)
(* ends with an error, whatever is faulty or created again; and an undisturbed request  *)
(* ends with a signature that verifies.                                                 *)
EXTENDS Frost, FiniteSetTheorems, TLAPS

-----------------------------------------------------------------------------
(* Maps *)

LEMMA PartialMapByDomain ==
  ASSUME NEW V, NEW f
  PROVE  f \in PartialMap(V) <=> DOMAIN f \subseteq Ids /\ f \in [DOMAIN f -> V]
  BY DEF PartialMap

LEMMA EmptyMap ==
  ASSUME NEW V
  PROVE  NoEntries \in PartialMap(V) /\ DOMAIN NoEntries = {}
<1>1. DOMAIN NoEntries = {}
  BY DEF NoEntries
<1>2. NoEntries \in [{} -> V]
  BY DEF NoEntries
<1> QED
  BY Zenon, <1>1, <1>2, PartialMapByDomain

-----------------------------------------------------------------------------
(* update *)

LEMMA MessageParts ==
  ASSUME NEW m \in Message
  PROVE  /\ m.id \in Nodes /\ m.id \in Ids
         /\ IsCommitment(m) => m.commitment \in Incarnations
         /\ ~IsCommitment(m) => m.share \in FrostSignatureShare
  BY DEF Message, IsCommitment, Ids

\* What update leaves in the object, and that it does not fail.
LEMMA UpdateSound ==
  ASSUME IInv, NEW p \in Nodes, NEW m \in inbox[p]
  PROVE  LET list == CommitmentsWith(p, m)
             shs == SharesWith(p, m)
             unverified == UnverifiedWith(p, m)
         IN  /\ DOMAIN list \subseteq Ids /\ list \in [DOMAIN list -> Incarnations]
             /\ DOMAIN list \subseteq signer_group
             /\ DOMAIN commitment_list[p] \subseteq DOMAIN list
             /\ DOMAIN shs \subseteq Ids /\ shs \in [DOMAIN shs -> FrostSignatureShare]
             /\ DOMAIN shs \subseteq signer_group
             /\ \A i \in DOMAIN shs : ShareSound(shs[i], i)
             /\ unverified \subseteq Ids
             /\ DOMAIN shs \subseteq unverified \cup DOMAIN list
             /\ ~UpdateFails(p, m)
<1> DEFINE list == CommitmentsWith(p, m)
           shs == SharesWith(p, m)
           unverified == UnverifiedWith(p, m)
<1>1. /\ m \in Message
      /\ DOMAIN commitment_list[p] \subseteq Ids
      /\ commitment_list[p] \in [DOMAIN commitment_list[p] -> Incarnations]
      /\ DOMAIN shares[p] \subseteq Ids
      /\ shares[p] \in [DOMAIN shares[p] -> FrostSignatureShare]
      /\ not_verified_shares[p] \subseteq Ids
  BY PartialMapByDomain DEF IInv, TypeOK
<1>2. /\ DOMAIN commitment_list[p] \subseteq signer_group
      /\ DOMAIN shares[p] \subseteq signer_group
      /\ DOMAIN shares[p] \subseteq not_verified_shares[p] \cup DOMAIN commitment_list[p]
      /\ \A i \in DOMAIN shares[p] : ShareSound(shares[p][i], i)
  BY DEF IInv, ObjectsSound
<1>3. /\ m.id \in Ids
      /\ IsCommitment(m) => m.commitment \in Incarnations
      /\ ~IsCommitment(m) => m.share \in FrostSignatureShare /\ ShareSound(m.share, m.id)
  BY <1>1, MessageParts DEF IInv, MessagesSound
<1>4. CASE TakesCommitment(p, m)
  <2>1. IsCommitment(m) /\ ~TakesShare(p, m) /\ m.id \in signer_group
    BY <1>4 DEF TakesCommitment, TakesShare
  <2>2. /\ list = insert(commitment_list[p], m.id, m.commitment)
        /\ shs = shares[p] /\ unverified = not_verified_shares[p] \ {m.id}
    BY <1>4, <2>1 DEF CommitmentsWith, SharesWith, UnverifiedWith
  <2> HIDE DEF list, shs, unverified
  <2>3. /\ DOMAIN list = DOMAIN commitment_list[p] \cup {m.id}
        /\ DOMAIN list \subseteq Ids /\ list \in [DOMAIN list -> Incarnations]
    BY <1>1, <1>3, <2>1, <2>2 DEF insert
  <2>4. ~UpdateFails(p, m)
    <3> SUFFICES ASSUME m.id \in DOMAIN shares[p]
                 PROVE  verify_share(SharesWith(p, m)[m.id], CommitmentsWith(p, m)) # "err"
      BY <2>1 DEF UpdateFails
    <3>1. SharesWith(p, m)[m.id].id = m.id
      BY <1>2, <2>2 DEF ShareSound, shs
    <3>2. m.id \in DOMAIN CommitmentsWith(p, m)
      BY <2>3 DEF list
    <3> QED
      BY <3>1, <3>2 DEF verify_share
  <2> QED
    BY <1>1, <1>2, <2>1, <2>2, <2>3, <2>4 DEF list, shs, unverified
<1>5. CASE TakesShare(p, m)
  <2>1. ~IsCommitment(m) /\ ~TakesCommitment(p, m) /\ m.id \in signer_group
        /\ m.id \notin DOMAIN shares[p]
    BY <1>5 DEF TakesCommitment, TakesShare
  <2>2. /\ list = commitment_list[p] /\ shs = insert(shares[p], m.id, m.share)
        /\ unverified = IF m.id \notin DOMAIN commitment_list[p]
                        THEN not_verified_shares[p] \cup {m.id} ELSE not_verified_shares[p]
    BY <1>5, <2>1 DEF CommitmentsWith, SharesWith, UnverifiedWith
  <2> HIDE DEF list, shs, unverified
  <2>3. /\ DOMAIN shs = DOMAIN shares[p] \cup {m.id}
        /\ DOMAIN shs \subseteq Ids /\ shs \in [DOMAIN shs -> FrostSignatureShare]
        /\ shs[m.id] = m.share
        /\ \A j \in DOMAIN shares[p] : j # m.id => shs[j] = shares[p][j]
    BY <1>1, <1>3, <2>1, <2>2 DEF insert
  <2>4. \A i \in DOMAIN shs : ShareSound(shs[i], i)
    BY <1>2, <1>3, <2>1, <2>3
  <2>5. ~UpdateFails(p, m)
    <3> SUFFICES ASSUME m.id \in DOMAIN commitment_list[p]
                 PROVE  verify_share(SharesWith(p, m)[m.id], CommitmentsWith(p, m)) # "err"
      BY <2>1 DEF UpdateFails
    <3>1. SharesWith(p, m)[m.id].id = m.id
      BY <1>3, <2>1, <2>3 DEF ShareSound, shs
    <3>2. m.id \in DOMAIN CommitmentsWith(p, m)
      BY <2>2 DEF list
    <3> QED
      BY <3>1, <3>2 DEF verify_share
  <2> QED
    BY <1>1, <1>2, <1>3, <2>1, <2>2, <2>3, <2>4, <2>5 DEF list, shs, unverified
<1>6. CASE ~TakesCommitment(p, m) /\ ~TakesShare(p, m)
  <2>1. /\ list = commitment_list[p] /\ shs = shares[p]
        /\ unverified = not_verified_shares[p] /\ ~UpdateFails(p, m)
    BY <1>6 DEF CommitmentsWith, SharesWith, UnverifiedWith, UpdateFails
  <2> HIDE DEF list, shs, unverified
  <2> QED
    BY <1>1, <1>2, <2>1 DEF list, shs, unverified
<1> QED
  BY <1>4, <1>5, <1>6

-----------------------------------------------------------------------------
(* What a turn of the executor does, once it is known not to fail. *)

Finalizes(p, list, shs, unverified) ==
  /\ unverified = {} /\ DOMAIN shs = signer_group
  /\ status' = [status EXCEPT ![p] = "finished"]
  /\ output' = [output EXCEPT ![p] = assemble(list, shs)]
  /\ shares' = [shares EXCEPT ![p] = shs]
  /\ UNCHANGED <<round, inbox>>

Signs(p, list, shs) ==
  /\ round[p] = 1 /\ DOMAIN list = signer_group /\ p \in signer_group
  /\ round' = [round EXCEPT ![p] = 2]
  /\ shares' = [shares EXCEPT ![p] = insert(shs, p, partial_sign(p, list))]
  /\ inbox' = Broadcast(p, [data |-> "Share", id |-> p, share |-> partial_sign(p, list)])
  /\ UNCHANGED <<status, output>>

Collects(p, shs) ==
  /\ round' \in {round, [round EXCEPT ![p] = 2]}
  /\ shares' = [shares EXCEPT ![p] = shs]
  /\ UNCHANGED <<status, output, inbox>>

\* There is no third round: a node that is ready for it is ready to finalize.
LEMMA ReceiveCases ==
  ASSUME IInv, NEW p \in Nodes, NEW m \in inbox[p], Receive(p, m)
  PROVE  LET list == CommitmentsWith(p, m)
             shs == SharesWith(p, m)
             unverified == UnverifiedWith(p, m)
         IN  /\ status[p] = "run"
             /\ commitment_list' = [commitment_list EXCEPT ![p] = list]
             /\ not_verified_shares' = [not_verified_shares EXCEPT ![p] = unverified]
             /\ UNCHANGED <<signer_group, restarting, starts, nonce>>
             /\ \/ Finalizes(p, list, shs, unverified)
                \/ Signs(p, list, shs)
                \/ Collects(p, shs)
<1> DEFINE list == CommitmentsWith(p, m)
           shs == SharesWith(p, m)
           unverified == UnverifiedWith(p, m)
<1>1. /\ DOMAIN list \subseteq signer_group /\ DOMAIN shs \subseteq signer_group
      /\ ~UpdateFails(p, m)
  BY UpdateSound
<1>2. Cardinality(signer_group) = Threshold
  BY GroupsAssumption DEF IInv, TypeOK
<1>3. round[p] \in {1, 2}
  BY DEF IInv, ObjectsSound, Receive
<1>4. /\ status[p] = "run"
      /\ commitment_list' = [commitment_list EXCEPT ![p] = list]
      /\ not_verified_shares' = [not_verified_shares EXCEPT ![p] = unverified]
      /\ UNCHANGED <<signer_group, restarting, starts, nonce>>
      /\ IF is_ready_to_finalize(shs, unverified)
         THEN /\ status' = [status EXCEPT ![p] = "finished"]
              /\ output' = [output EXCEPT ![p] = assemble(list, shs)]
              /\ shares' = [shares EXCEPT ![p] = shs]
              /\ UNCHANGED <<round, inbox>>
         ELSE IF is_ready_for_next_round(p, list, shs, unverified)
         THEN do_round(p, list, shs) /\ UNCHANGED output
         ELSE /\ shares' = [shares EXCEPT ![p] = shs]
              /\ UNCHANGED <<status, round, inbox, output>>
  BY <1>1 DEF Receive
<1> HIDE DEF list, shs, unverified
<1>5. CASE is_ready_to_finalize(shs, unverified)
  <2>1. unverified = {} /\ DOMAIN shs = signer_group
    BY <1>1, <1>5 DEF is_ready_to_finalize
  <2>2. Finalizes(p, list, shs, unverified)
    BY <1>4, <1>5, <2>1 DEF Finalizes
  <2> QED
    BY <1>4, <2>2 DEF list, shs, unverified
<1>6. CASE ~is_ready_to_finalize(shs, unverified)
           /\ is_ready_for_next_round(p, list, shs, unverified)
  <2>1. round[p] = 1 /\ ReadyForRoundTwo(list)
    <3> SUFFICES ASSUME round[p] = 2, ReadyForRoundThree(shs, unverified) PROVE FALSE
      BY <1>3, <1>6 DEF is_ready_for_next_round
    <3>1. DOMAIN shs = signer_group /\ unverified = {}
      BY <1>1 DEF ReadyForRoundThree
    <3>2. Cardinality(DOMAIN shs) = Threshold
      BY <1>2, <3>1
    <3> QED
      BY <1>6, <3>1, <3>2 DEF is_ready_to_finalize
  <2>2. DOMAIN list = signer_group
    BY <1>1, <2>1 DEF ReadyForRoundTwo
  <2>3. do_round(p, list, shs) /\ UNCHANGED output
    BY <1>4, <1>6
  <2>4. Signs(p, list, shs) \/ Collects(p, shs)
    BY <2>1, <2>2, <2>3 DEF do_round, Signs, Collects
  <2> QED
    BY <1>4, <2>4 DEF list, shs, unverified
<1>7. CASE ~is_ready_to_finalize(shs, unverified)
           /\ ~is_ready_for_next_round(p, list, shs, unverified)
  <2>1. Collects(p, shs)
    BY <1>4, <1>7 DEF Collects
  <2> QED
    BY <1>4, <2>1 DEF list, shs, unverified
<1> QED
  BY <1>5, <1>6, <1>7

-----------------------------------------------------------------------------
(* The steps *)

LEMMA LimitBounds ==
  ASSUME NEW i
  PROVE  Limit(i) \in Nat /\ 1 <= Limit(i) /\ Limit(i) <= MaxStarts
  BY StartsAssumption DEF Limit

LEMMA InitIInv == Init => IInv
<1> SUFFICES ASSUME Init PROVE IInv
  OBVIOUS
<1>1. NoEntries \in PartialMap(Incarnations) /\ DOMAIN NoEntries = {}
      /\ NoEntries \in [{} -> FrostSignatureShare]
  BY EmptyMap DEF NoEntries
<1>2. TypeOK
  BY <1>1, StartsAssumption DEF Init, TypeOK, Statuses
<1>3. ObjectsSound
  BY <1>1 DEF Init, ObjectsSound
<1>4. MessagesSound /\ NonceSignsOnce /\ NeverFails /\ UndisturbedVerifies
  BY DEF Init, MessagesSound, NonceSignsOnce, NeverFails, OutputVerifies, UndisturbedVerifies
<1>5. SharesWereSent /\ OutputsAtEnd
  BY <1>1 DEF Init, SharesWereSent, OutputsAtEnd
<1>6. WithinLimit
  BY <1>1, LimitBounds DEF Init, WithinLimit, ListWithin
<1> QED
  BY <1>2, <1>3, <1>4, <1>5, <1>6 DEF IInv

\* The commitment that a started signer sends.
CommitmentOf(p) == [data |-> "Commitment", id |-> p, commitment |-> commit(p)]

\* A created instance: a fresh nonce, its own commitment, no shares.
LEMMA StartEffect ==
  ASSUME IInv, NEW p \in Nodes, Start(p)
  PROVE  /\ starts[p] + 1 \in Incarnations
         /\ starts'[p] = starts[p] + 1 /\ status'[p] = "run" /\ round'[p] = 1
         /\ shares'[p] = NoEntries /\ not_verified_shares'[p] = {} /\ output'[p] = "none"
         /\ DOMAIN shares' = Nodes
         /\ DOMAIN commitment_list'[p] \subseteq signer_group
         /\ commitment_list'[p] \in PartialMap(Incarnations)
         /\ p \in signer_group => /\ nonce'[p] = starts[p] + 1
                                  /\ p \in DOMAIN commitment_list'[p]
         /\ \A q \in Nodes : q # p =>
              /\ starts'[q] = starts[q] /\ status'[q] = status[q] /\ round'[q] = round[q]
              /\ shares'[q] = shares[q] /\ not_verified_shares'[q] = not_verified_shares[q]
              /\ output'[q] = output[q] /\ commitment_list'[q] = commitment_list[q]
              /\ nonce'[q] = nonce[q]
         /\ CommitmentOf(p) \in Message /\ IsCommitment(CommitmentOf(p))
         /\ inbox' \in {inbox, [q \in Nodes |-> inbox[q] \cup {CommitmentOf(p)}]}
         /\ signer_group' = signer_group /\ restarting' = restarting
         /\ starts[p] + 1 <= Limit(p) /\ ListWithin(commitment_list'[p])
<1> USE DEF IInv
<1>1. starts[p] + 1 \in Incarnations /\ starts[p] + 1 <= Limit(p)
  BY StartsAssumption, LimitBounds DEF Start, TypeOK, Incarnations
<1>2. CommitmentOf(p) \in Message /\ IsCommitment(CommitmentOf(p))
  BY <1>1 DEF CommitmentOf, commit, Message, IsCommitment
<1>3. /\ starts'[p] = starts[p] + 1 /\ status'[p] = "run" /\ round'[p] = 1
      /\ shares'[p] = NoEntries /\ not_verified_shares'[p] = {} /\ output'[p] = "none"
      /\ DOMAIN shares' = Nodes
      /\ signer_group' = signer_group /\ restarting' = restarting
  BY DEF Start, TypeOK
<1>4. \A q \in Nodes : q # p =>
        /\ starts'[q] = starts[q] /\ status'[q] = status[q] /\ round'[q] = round[q]
        /\ shares'[q] = shares[q] /\ not_verified_shares'[q] = not_verified_shares[q]
        /\ output'[q] = output[q] /\ commitment_list'[q] = commitment_list[q]
        /\ nonce'[q] = nonce[q]
  BY DEF Start, TypeOK
<1>5. inbox' \in {inbox, [q \in Nodes |-> inbox[q] \cup {CommitmentOf(p)}]}
  BY DEF Start, Broadcast, CommitmentOf
<1>6. CASE p \in signer_group
  <2> DEFINE list == insert(NoEntries, p, starts[p] + 1)
  <2>1. commitment_list'[p] = list /\ nonce'[p] = starts[p] + 1
    BY <1>6 DEF Start, TypeOK, commit
  <2>2. DOMAIN list = {p} /\ list \in [{p} -> Incarnations] /\ {p} \subseteq Ids
    BY <1>1 DEF insert, NoEntries, Ids
  <2>3. list \in PartialMap(Incarnations)
    BY <2>2, PartialMapByDomain
  <2>4. ListWithin(list)
    BY <1>1 DEF ListWithin, insert, NoEntries
  <2> HIDE DEF list
  <2> QED
    BY <1>1, <1>2, <1>3, <1>4, <1>5, <1>6, <2>1, <2>2, <2>3, <2>4
<1>7. CASE p \notin signer_group
  <2>1. commitment_list'[p] = NoEntries
    BY <1>7 DEF Start, TypeOK
  <2>2. NoEntries \in PartialMap(Incarnations) /\ DOMAIN NoEntries = {}
    BY EmptyMap
  <2>3. ListWithin(NoEntries)
    BY <2>2 DEF ListWithin
  <2> QED
    BY <1>1, <1>2, <1>3, <1>4, <1>5, <1>7, <2>1, <2>2, <2>3
<1> QED
  BY <1>6, <1>7

\* The limits do not change with a step.
LEMMA WithinLimitAfter ==
  ASSUME restarting' = restarting,
         \A q \in Nodes : starts'[q] <= Limit(q) /\ ListWithin(commitment_list'[q]),
         \A q \in Nodes : \A m \in inbox'[q] :
           IF IsCommitment(m) THEN m.commitment <= Limit(m.id) ELSE ShareWithin(m.share, m.id)
  PROVE  WithinLimit'
  BY DEF WithinLimit, ListWithin, ShareWithin, Limit, IsCommitment

LEMMA WithinLimitParts ==
  ASSUME IInv, NEW q \in Nodes
  PROVE  /\ starts[q] <= Limit(q) /\ ListWithin(commitment_list[q])
         /\ \A m \in inbox[q] :
              IF IsCommitment(m) THEN m.commitment <= Limit(m.id) ELSE ShareWithin(m.share, m.id)
  BY DEF IInv, WithinLimit

LEMMA StartStep == ASSUME IInv, NEW p \in Nodes, Start(p) PROVE IInv'
<1>1. TypeOK'
  <2>1. NoEntries \in [{} -> FrostSignatureShare] /\ DOMAIN NoEntries = {}
    BY DEF NoEntries
  <2>2. /\ starts' \in [Nodes -> 0..MaxStarts] /\ status' \in [Nodes -> Statuses]
        /\ round' \in [Nodes -> 0..2] /\ nonce' \in [Nodes -> 0..MaxStarts]
        /\ not_verified_shares' \in [Nodes -> SUBSET Ids]
        /\ output' \in [Nodes -> {"none", "signature", "garbage"}]
    <3>1. starts[p] + 1 \in 0..MaxStarts /\ 0 \in 0..MaxStarts
      BY StartEffect, StartsAssumption DEF Incarnations
    <3>2. nonce' \in [Nodes -> 0..MaxStarts]
      <4>1. /\ nonce \in [Nodes -> 0..MaxStarts]
            /\ \/ nonce' = [nonce EXCEPT ![p] = starts[p] + 1]
               \/ nonce' = [nonce EXCEPT ![p] = 0]
        BY DEF IInv, TypeOK, Start, commit
      <4> QED
        BY <3>1, <4>1
    <3>3. starts' \in [Nodes -> 0..MaxStarts]
      BY <3>1 DEF IInv, TypeOK, Start
    <3>4. /\ status' \in [Nodes -> Statuses] /\ round' \in [Nodes -> 0..2]
          /\ not_verified_shares' \in [Nodes -> SUBSET Ids]
          /\ output' \in [Nodes -> {"none", "signature", "garbage"}]
      BY DEF IInv, TypeOK, Start, Statuses
    <3> QED
      BY <3>2, <3>3, <3>4
  <2>3. commitment_list' \in [Nodes -> PartialMap(Incarnations)]
    <3>1. /\ commitment_list \in [Nodes -> PartialMap(Incarnations)]
          /\ \E l : commitment_list' = [commitment_list EXCEPT ![p] = l]
      BY DEF IInv, TypeOK, Start
    <3>2. commitment_list'[p] \in PartialMap(Incarnations)
      BY StartEffect
    <3> QED
      BY <3>1, <3>2
  <2>4. inbox' \in [Nodes -> SUBSET Message]
    <3>1. /\ inbox \in [Nodes -> SUBSET Message] /\ CommitmentOf(p) \in Message
          /\ inbox' \in {inbox, [q \in Nodes |-> inbox[q] \cup {CommitmentOf(p)}]}
      BY StartEffect DEF IInv, TypeOK
    <3> QED
      BY <3>1
  <2>5. /\ DOMAIN shares' = Nodes
        /\ \A q \in Nodes : /\ DOMAIN shares'[q] \subseteq Ids
                            /\ shares'[q] \in [DOMAIN shares'[q] -> FrostSignatureShare]
    <3>1. \A q \in Nodes : /\ DOMAIN shares[q] \subseteq Ids
                           /\ shares[q] \in [DOMAIN shares[q] -> FrostSignatureShare]
      BY DEF IInv, TypeOK
    <3>2. /\ DOMAIN shares' = Nodes /\ shares'[p] = NoEntries
          /\ \A q \in Nodes : q # p => shares'[q] = shares[q]
      BY StartEffect
    <3>3. /\ DOMAIN shares'[p] \subseteq Ids
          /\ shares'[p] \in [DOMAIN shares'[p] -> FrostSignatureShare]
      BY <2>1, <3>2
    <3> QED
      BY <3>1, <3>2, <3>3
  <2>6. signer_group' \in SignerGroups /\ restarting' \in Restarts
    BY StartEffect DEF IInv, TypeOK
  <2> QED
    BY <2>2, <2>3, <2>4, <2>5, <2>6 DEF TypeOK
<1>2. ObjectsSound'
  <2>1. DOMAIN NoEntries = {}
    BY DEF NoEntries
  <2>2. starts[p] \in Nat
    BY StartsAssumption DEF IInv, TypeOK
  <2> SUFFICES ASSUME NEW q \in Nodes
               PROVE  /\ DOMAIN commitment_list'[q] \subseteq signer_group
                      /\ DOMAIN shares'[q] \subseteq signer_group
                      /\ DOMAIN shares'[q]
                           \subseteq not_verified_shares'[q] \cup DOMAIN commitment_list'[q]
                      /\ \A i \in DOMAIN shares'[q] : ShareSound(shares'[q][i], i)
                      /\ status'[q] # "idle" => round'[q] \in {1, 2}
                      /\ status'[q] # "idle" /\ q \in signer_group =>
                           nonce'[q] = starts'[q] /\ starts'[q] > 0
                             /\ q \in DOMAIN commitment_list'[q]
    BY StartEffect DEF ObjectsSound, ShareSound
  <2>3. CASE q = p
    BY <2>1, <2>2, <2>3, StartEffect
  <2>4. CASE q # p
    BY <2>4, StartEffect DEF IInv, ObjectsSound
  <2> QED
    BY <2>3, <2>4
<1>3. \A q \in Nodes : \A m \in inbox'[q] : ~IsCommitment(m) => m \in inbox[q]
  BY StartEffect DEF IInv, TypeOK
<1>4. MessagesSound'
  <2> SUFFICES ASSUME NEW q \in Nodes, NEW m \in inbox'[q], ~IsCommitment(m)
               PROVE  /\ ShareSound(m.share, m.id)
                      /\ m.share.nonce <= starts'[m.id]
                      /\ m.share.nonce = starts'[m.id] => round'[m.id] = 2
    BY StartEffect DEF MessagesSound, ShareSound, IsCommitment
  <2>1. /\ m \in inbox[q] /\ m \in Message /\ m.id \in Nodes
        /\ m.share \in FrostSignatureShare
    BY <1>3, MessageParts DEF IInv, TypeOK
  <2>2. m.share.nonce \in Nat /\ starts[m.id] \in Nat
    BY <2>1, StartsAssumption DEF FrostSignatureShare, Incarnations, IInv, TypeOK
  <2>3. /\ ShareSound(m.share, m.id)
        /\ m.share.nonce <= starts[m.id]
        /\ m.share.nonce = starts[m.id] => round[m.id] = 2
    BY <2>1 DEF IInv, MessagesSound
  <2>4. CASE m.id = p
    BY <2>2, <2>3, <2>4, StartEffect
  <2>5. CASE m.id # p
    BY <2>1, <2>3, <2>5, StartEffect
  <2> QED
    BY <2>4, <2>5
<1>5. NonceSignsOnce'
  BY <1>3 DEF IInv, NonceSignsOnce, IsCommitment
<1>6. NeverFails' /\ UndisturbedVerifies'
  BY StartEffect DEF IInv, NeverFails, OutputVerifies, UndisturbedVerifies, Undisturbed
<1>7. SharesWereSent'
  <2>1. \A q \in Nodes : inbox[q] \subseteq inbox'[q]
    <3>1. inbox' \in {inbox, [q \in Nodes |-> inbox[q] \cup {CommitmentOf(p)}]}
      BY StartEffect, Zenon
    <3> QED
      BY <3>1, Zenon
  <2>2. DOMAIN shares'[p] = {} /\ \A q \in Nodes : q # p => shares'[q] = shares[q]
    BY StartEffect DEF NoEntries
  <2>3. SharesWereSent
    BY DEF IInv
  <2> QED
    BY <2>1, <2>2, <2>3 DEF SharesWereSent, IsCommitment
<1>8. OutputsAtEnd'
  <2>1. starts[p] \in Nat
    BY StartsAssumption DEF IInv, TypeOK
  <2> QED
    BY <2>1, StartEffect DEF IInv, OutputsAtEnd
<1>9. WithinLimit'
  <2>1. \A q \in Nodes : starts'[q] <= Limit(q) /\ ListWithin(commitment_list'[q])
    <3> SUFFICES ASSUME NEW q \in Nodes
                 PROVE  starts'[q] <= Limit(q) /\ ListWithin(commitment_list'[q])
      OBVIOUS
    <3>1. CASE q = p
      BY <3>1, StartEffect
    <3>2. CASE q # p
      BY <3>2, StartEffect, WithinLimitParts
    <3> QED
      BY <3>1, <3>2
  <2>2. ASSUME NEW q \in Nodes, NEW m \in inbox'[q]
        PROVE  IF IsCommitment(m) THEN m.commitment <= Limit(m.id)
               ELSE ShareWithin(m.share, m.id)
    <3>1. CASE m \in inbox[q]
      BY <3>1, WithinLimitParts
    <3>2. CASE m \notin inbox[q]
      <4>1. m = CommitmentOf(p) /\ IsCommitment(CommitmentOf(p)) /\ starts[p] + 1 <= Limit(p)
        BY <2>2, <3>2, StartEffect
      <4>2. CommitmentOf(p).id = p /\ CommitmentOf(p).commitment = starts[p] + 1
        BY DEF CommitmentOf, commit
      <4> QED
        BY <4>1, <4>2
    <3> QED
      BY <3>1, <3>2
  <2>3. restarting' = restarting
    BY StartEffect
  <2> QED
    BY Zenon, <2>1, <2>2, <2>3, WithinLimitAfter
<1> QED
  BY <1>1, <1>2, <1>4, <1>5, <1>6, <1>7, <1>8, <1>9 DEF IInv

\* The share that a signer makes with a complete list.
LEMMA SignedShare ==
  ASSUME IInv, NEW p \in Nodes, p \in signer_group, status[p] = "run", NEW list,
         DOMAIN list \subseteq Ids, list \in [DOMAIN list -> Incarnations],
         DOMAIN list = signer_group
  PROVE  /\ partial_sign(p, list) \in FrostSignatureShare
         /\ ShareSound(partial_sign(p, list), p)
         /\ partial_sign(p, list).nonce = starts[p]
<1>1. nonce[p] = starts[p] /\ nonce[p] \in Incarnations
  BY StartsAssumption DEF IInv, TypeOK, ObjectsSound, Incarnations
<1>2. list \in PartialMap(Incarnations)
  BY PartialMapByDomain
<1>3. (p \notin Faulty) \in BOOLEAN
  OBVIOUS
<1>4. partial_sign(p, list) \in FrostSignatureShare
  BY <1>1, <1>2, <1>3 DEF partial_sign, FrostSignatureShare
<1> QED
  BY <1>1, <1>4, Zenon DEF partial_sign, ShareSound

\* The shares that a turn leaves in the object.
LEMMA SharesEffect ==
  ASSUME IInv, NEW p \in Nodes, NEW m \in inbox[p], Receive(p, m)
  PROVE  /\ DOMAIN shares' = Nodes
         /\ \A q \in Nodes : q # p => shares'[q] = shares[q]
         /\ DOMAIN shares'[p] \subseteq Ids
         /\ shares'[p] \in [DOMAIN shares'[p] -> FrostSignatureShare]
         /\ DOMAIN shares'[p] \subseteq signer_group
         /\ \A i \in DOMAIN shares'[p] : ShareSound(shares'[p][i], i)
         /\ DOMAIN shares'[p] \subseteq UnverifiedWith(p, m) \cup DOMAIN CommitmentsWith(p, m)
<1> DEFINE list == CommitmentsWith(p, m)
           shs == SharesWith(p, m)
           unverified == UnverifiedWith(p, m)
<1>1. /\ DOMAIN list \subseteq Ids /\ list \in [DOMAIN list -> Incarnations]
      /\ DOMAIN shs \subseteq Ids /\ shs \in [DOMAIN shs -> FrostSignatureShare]
      /\ DOMAIN shs \subseteq signer_group
      /\ \A i \in DOMAIN shs : ShareSound(shs[i], i)
      /\ DOMAIN shs \subseteq unverified \cup DOMAIN list
  BY UpdateSound
<1>2. /\ status[p] = "run"
      /\ \/ Finalizes(p, list, shs, unverified)
         \/ Signs(p, list, shs)
         \/ Collects(p, shs)
  BY ReceiveCases
<1>3. DOMAIN shares = Nodes
  BY DEF IInv, TypeOK
<1> HIDE DEF list, shs, unverified
<1>4. CASE shares' = [shares EXCEPT ![p] = shs]
  BY <1>1, <1>3, <1>4 DEF list, unverified
<1>5. CASE Signs(p, list, shs)
  <2> DEFINE share == partial_sign(p, list)
  <2>1. DOMAIN list = signer_group /\ p \in signer_group
        /\ shares' = [shares EXCEPT ![p] = insert(shs, p, share)]
    BY <1>5 DEF Signs
  <2>2. share \in FrostSignatureShare /\ ShareSound(share, p)
    BY <1>1, <1>2, <2>1, SignedShare
  <2> HIDE DEF share
  <2>3. /\ DOMAIN shares' = Nodes
        /\ \A q \in Nodes : q # p => shares'[q] = shares[q]
        /\ shares'[p] = insert(shs, p, share)
    BY <1>3, <2>1
  <2>4. /\ DOMAIN insert(shs, p, share) = DOMAIN shs \cup {p}
        /\ insert(shs, p, share) \in [DOMAIN shs \cup {p} -> FrostSignatureShare]
        /\ insert(shs, p, share)[p] = share
        /\ \A j \in DOMAIN shs : j # p => insert(shs, p, share)[j] = shs[j]
    BY <1>1, <2>2 DEF insert
  <2>5. p \in Ids
    BY DEF Ids
  <2> QED
    BY <1>1, <2>1, <2>2, <2>3, <2>4, <2>5 DEF list, unverified
<1> QED
  BY <1>2, <1>4, <1>5 DEF Finalizes, Collects

\* The share that a turn sends, if any, is the first of its nonce.
LEMMA InboxEffect ==
  ASSUME IInv, NEW p \in Nodes, NEW m \in inbox[p], Receive(p, m)
  PROVE  \/ UNCHANGED inbox
         \/ \E msg \in Message :
              /\ inbox' = [q \in Nodes |-> inbox[q] \cup {msg}]
              /\ ~IsCommitment(msg) /\ msg.id = p /\ ShareSound(msg.share, p)
              /\ msg.share.nonce = starts[p] /\ msg.share.list = CommitmentsWith(p, m)
              /\ round[p] = 1 /\ round'[p] = 2
<1> DEFINE list == CommitmentsWith(p, m)
           shs == SharesWith(p, m)
           unverified == UnverifiedWith(p, m)
<1>1. /\ DOMAIN list \subseteq Ids /\ list \in [DOMAIN list -> Incarnations]
  BY UpdateSound
<1>2. /\ status[p] = "run"
      /\ \/ Finalizes(p, list, shs, unverified)
         \/ Signs(p, list, shs)
         \/ Collects(p, shs)
  BY ReceiveCases
<1> HIDE DEF list, shs, unverified
<1>3. CASE Signs(p, list, shs)
  <2> DEFINE share == partial_sign(p, list)
             msg == [data |-> "Share", id |-> p, share |-> share]
  <2>1. /\ DOMAIN list = signer_group /\ p \in signer_group
        /\ inbox' = [q \in Nodes |-> inbox[q] \cup {msg}]
        /\ round[p] = 1 /\ round' = [round EXCEPT ![p] = 2]
    BY <1>3 DEF Signs, Broadcast
  <2>2. share \in FrostSignatureShare /\ ShareSound(share, p) /\ share.nonce = starts[p]
    BY <1>1, <1>2, <2>1, SignedShare
  <2>5. share.list = CommitmentsWith(p, m)
    BY DEF partial_sign, list
  <2> HIDE DEF share
  <2>3. /\ msg \in Message /\ ~IsCommitment(msg) /\ msg.id = p /\ msg.share = share
    BY <2>2 DEF Message, IsCommitment
  <2>4. round'[p] = 2
    BY <2>1 DEF IInv, TypeOK
  <2> HIDE DEF msg
  <2> QED
    BY <2>1, <2>2, <2>3, <2>4, <2>5
<1> QED
  BY <1>2, <1>3 DEF Finalizes, Collects

\* An undisturbed request: all commitments are to the first nonce, so the shares of the
\* group belong to the list of whoever has the whole list.
LEMMA UndisturbedSignature ==
  ASSUME Undisturbed, NEW list, NEW shs,
         list \in [DOMAIN list -> Incarnations], DOMAIN list \subseteq signer_group,
         shs \in [DOMAIN shs -> FrostSignatureShare], DOMAIN shs = signer_group,
         \A i \in DOMAIN shs : ShareSound(shs[i], i) /\ ShareWithin(shs[i], i),
         DOMAIN shs \subseteq DOMAIN list, ListWithin(list)
  PROVE  assemble(list, shs) = "signature"
<1>1. /\ DOMAIN list = signer_group
      /\ \A n \in Incarnations : \A i : n <= Limit(i) => n = 1
  BY DEF Undisturbed, Incarnations, Limit
<1> SUFFICES ASSUME NEW i \in signer_group PROVE verify_share(shs[i], list) = "true"
  BY <1>1 DEF assemble
<1>2. /\ shs[i] \in FrostSignatureShare
      /\ shs[i].id = i /\ DOMAIN shs[i].list = signer_group /\ shs[i].good
  BY DEF ShareSound, Undisturbed
<1>3. /\ shs[i].list \in PartialMap(Incarnations) /\ ListWithin(shs[i].list)
      /\ shs[i].nonce = 1
  BY <1>1, <1>2 DEF FrostSignatureShare, ShareWithin
<1>4. shs[i].list \in [signer_group -> {1}]
  <2> DEFINE l == shs[i].list
  <2>1. /\ l \in [DOMAIN l -> Incarnations] /\ DOMAIN l = signer_group
        /\ \A j \in DOMAIN l : l[j] <= Limit(j)
    BY <1>2, <1>3, PartialMapByDomain DEF ListWithin
  <2> HIDE DEF l
  <2>2. l \in [signer_group -> {1}]
    BY <1>1, <2>1
  <2> QED
    BY <2>2 DEF l
<1>5. list \in [signer_group -> {1}]
  BY <1>1 DEF ListWithin
<1>6. shs[i].list = list
  <2> DEFINE l == shs[i].list
  <2>1. l \in [signer_group -> {1}]
    BY <1>4
  <2> HIDE DEF l
  <2>2. l = list
    BY <1>5, <2>1
  <2> QED
    BY <2>2 DEF l
<1>7. list[i] = 1
  BY <1>5
<1> QED
  BY <1>1, <1>2, <1>3, <1>6, <1>7 DEF verify_share

\* What update leaves in the object was sent to it.
LEMMA SharesWithWereSent ==
  ASSUME IInv, NEW p \in Nodes, NEW m \in inbox[p]
  PROVE  \A i \in DOMAIN SharesWith(p, m) :
           i \in Nodes /\ \E x \in inbox[p] :
             ~IsCommitment(x) /\ x.id = i /\ x.share = SharesWith(p, m)[i]
<1>1. \A i \in DOMAIN shares[p] :
        i \in Nodes /\ \E x \in inbox[p] :
          ~IsCommitment(x) /\ x.id = i /\ x.share = shares[p][i]
  BY DEF IInv, SharesWereSent
<1>2. m \in Message /\ m.id \in Nodes
  BY MessageParts DEF IInv, TypeOK
<1>3. CASE TakesShare(p, m)
  <2>1. /\ ~IsCommitment(m)
        /\ SharesWith(p, m) = insert(shares[p], m.id, m.share)
    BY <1>3 DEF SharesWith, TakesShare
  <2>2. /\ DOMAIN SharesWith(p, m) = DOMAIN shares[p] \cup {m.id}
        /\ \A i \in DOMAIN SharesWith(p, m) :
             SharesWith(p, m)[i] = IF i = m.id THEN m.share ELSE shares[p][i]
    BY <2>1 DEF insert
  <2> QED
    BY <1>1, <1>2, <2>1, <2>2
<1>4. CASE ~TakesShare(p, m)
  BY <1>1, <1>4 DEF SharesWith
<1> QED
  BY <1>3, <1>4

\* What update leaves in the object is within the limits.
LEMMA UpdateWithin ==
  ASSUME IInv, NEW p \in Nodes, NEW m \in inbox[p]
  PROVE  /\ ListWithin(CommitmentsWith(p, m))
         /\ \A i \in DOMAIN SharesWith(p, m) : ShareWithin(SharesWith(p, m)[i], i)
<1>1. /\ ListWithin(commitment_list[p])
      /\ \A x \in inbox[p] :
           IF IsCommitment(x) THEN x.commitment <= Limit(x.id) ELSE ShareWithin(x.share, x.id)
  BY WithinLimitParts
<1>2. ListWithin(CommitmentsWith(p, m))
  <2>1. CASE TakesCommitment(p, m)
    <3>1. IsCommitment(m) /\ m.commitment <= Limit(m.id)
      BY <1>1, <2>1 DEF TakesCommitment
    <3>2. CommitmentsWith(p, m) = insert(commitment_list[p], m.id, m.commitment)
      BY <2>1 DEF CommitmentsWith
    <3> QED
      BY <1>1, <3>1, <3>2 DEF ListWithin, insert
  <2>2. CASE ~TakesCommitment(p, m)
    BY <1>1, <2>2 DEF CommitmentsWith
  <2> QED
    BY <2>1, <2>2
<1>3. ASSUME NEW i \in DOMAIN SharesWith(p, m) PROVE ShareWithin(SharesWith(p, m)[i], i)
  <2>1. PICK x \in inbox[p] : ~IsCommitment(x) /\ x.id = i /\ x.share = SharesWith(p, m)[i]
    BY <1>3, SharesWithWereSent
  <2>2. ShareWithin(x.share, x.id)
    BY <1>1, <2>1
  <2> QED
    BY <2>1, <2>2
<1> QED
  BY <1>2, <1>3

\* A node keeps its own share when it sends it, and the shares of others as they came.
LEMMA SharesStaySent ==
  ASSUME IInv, NEW p \in Nodes, NEW m \in inbox[p], Receive(p, m)
  PROVE  SharesWereSent'
<1> DEFINE list == CommitmentsWith(p, m)
           shs == SharesWith(p, m)
           unverified == UnverifiedWith(p, m)
<1>1. \/ Finalizes(p, list, shs, unverified)
      \/ Signs(p, list, shs)
      \/ Collects(p, shs)
  BY ReceiveCases
<1>2. \A i \in DOMAIN shs :
        i \in Nodes /\ \E x \in inbox[p] : ~IsCommitment(x) /\ x.id = i /\ x.share = shs[i]
  BY SharesWithWereSent
<1>3. SharesWereSent /\ DOMAIN shares = Nodes
  BY DEF IInv, TypeOK
<1>4. inbox \in [Nodes -> SUBSET Message]
  BY DEF IInv, TypeOK
<1>5. \A q \in Nodes : inbox[q] \subseteq inbox'[q]
  BY <1>4, InboxEffect
<1> HIDE DEF list, shs, unverified
<1>6. CASE shares' = [shares EXCEPT ![p] = shs]
  BY <1>2, <1>3, <1>5, <1>6 DEF SharesWereSent, IsCommitment
<1>7. CASE Signs(p, list, shs)
  <2> DEFINE share == partial_sign(p, list)
             msg == [data |-> "Share", id |-> p, share |-> share]
  <2>1. /\ shares' = [shares EXCEPT ![p] = insert(shs, p, share)]
        /\ inbox' = [q \in Nodes |-> inbox[q] \cup {msg}]
    BY <1>7 DEF Signs, Broadcast
  <2> HIDE DEF share
  <2>2. ~IsCommitment(msg) /\ msg.id = p /\ msg.share = share /\ msg \in inbox'[p]
    BY <2>1 DEF IsCommitment
  <2>3. /\ DOMAIN insert(shs, p, share) = DOMAIN shs \cup {p}
        /\ \A i \in DOMAIN shs \cup {p} :
             insert(shs, p, share)[i] = IF i = p THEN share ELSE shs[i]
    BY DEF insert
  <2> HIDE DEF msg
  <2>4. shares'[p] = insert(shs, p, share)
        /\ \A q \in Nodes : q # p => shares'[q] = shares[q]
    BY <1>3, <2>1
  <2>5. ASSUME NEW i \in DOMAIN shares'[p]
        PROVE  i \in Nodes /\ \E x \in inbox'[p] :
                 ~IsCommitment(x) /\ x.id = i /\ x.share = shares'[p][i]
    <3>1. CASE i = p
      BY <2>2, <2>3, <2>4, <3>1
    <3>2. CASE i # p
      BY <1>2, <1>5, <2>3, <2>4, <3>2
    <3> QED
      BY <3>1, <3>2
  <2>6. ASSUME NEW q \in Nodes, q # p, NEW i \in DOMAIN shares'[q]
        PROVE  i \in Nodes /\ \E x \in inbox'[q] :
                 ~IsCommitment(x) /\ x.id = i /\ x.share = shares'[q][i]
    BY <1>3, <1>5, <2>4, <2>6 DEF SharesWereSent
  <2> QED
    BY <2>5, <2>6 DEF SharesWereSent, IsCommitment
<1> QED
  BY <1>1, <1>6, <1>7 DEF Finalizes, Collects

LEMMA ReceiveStep == ASSUME IInv, NEW p \in Nodes, NEW m \in inbox[p], Receive(p, m) PROVE IInv'
<1> DEFINE list == CommitmentsWith(p, m)
           shs == SharesWith(p, m)
           unverified == UnverifiedWith(p, m)
<1>1. /\ DOMAIN list \subseteq Ids /\ list \in [DOMAIN list -> Incarnations]
      /\ DOMAIN list \subseteq signer_group
      /\ DOMAIN commitment_list[p] \subseteq DOMAIN list
      /\ shs \in [DOMAIN shs -> FrostSignatureShare]
      /\ \A i \in DOMAIN shs : ShareSound(shs[i], i)
      /\ unverified \subseteq Ids
      /\ DOMAIN shs \subseteq unverified \cup DOMAIN list
  BY UpdateSound
<1>2. /\ status[p] = "run"
      /\ commitment_list' = [commitment_list EXCEPT ![p] = list]
      /\ not_verified_shares' = [not_verified_shares EXCEPT ![p] = unverified]
      /\ UNCHANGED <<signer_group, restarting, starts, nonce>>
      /\ \/ Finalizes(p, list, shs, unverified)
         \/ Signs(p, list, shs)
         \/ Collects(p, shs)
  BY ReceiveCases
<1> HIDE DEF list, shs, unverified
<1>3. /\ status' \in {status, [status EXCEPT ![p] = "finished"]}
      /\ round' \in {round, [round EXCEPT ![p] = 2]}
      /\ \/ output' = output
         \/ /\ output' = [output EXCEPT ![p] = assemble(list, shs)]
            /\ unverified = {} /\ DOMAIN shs = signer_group
  BY <1>2 DEF Finalizes, Signs, Collects
<1>4. TypeOK'
  <2>1. commitment_list' \in [Nodes -> PartialMap(Incarnations)]
    <3>1. list \in PartialMap(Incarnations)
      BY <1>1, PartialMapByDomain
    <3> QED
      BY <1>2, <3>1 DEF IInv, TypeOK
  <2>2. /\ status' \in [Nodes -> Statuses] /\ round' \in [Nodes -> 0..2]
        /\ not_verified_shares' \in [Nodes -> SUBSET Ids]
    BY <1>1, <1>2, <1>3 DEF IInv, TypeOK, Statuses
  <2>3. output' \in [Nodes -> {"none", "signature", "garbage"}]
    <3>1. assemble(list, shs) \in {"signature", "garbage"}
      BY DEF assemble
    <3> QED
      BY <1>3, <3>1 DEF IInv, TypeOK
  <2>4. inbox' \in [Nodes -> SUBSET Message]
    <3>1. inbox \in [Nodes -> SUBSET Message]
      BY DEF IInv, TypeOK
    <3> QED
      BY <3>1, InboxEffect
  <2>5. /\ DOMAIN shares' = Nodes
        /\ \A q \in Nodes : /\ DOMAIN shares'[q] \subseteq Ids
                            /\ shares'[q] \in [DOMAIN shares'[q] -> FrostSignatureShare]
    <3>1. \A q \in Nodes : /\ DOMAIN shares[q] \subseteq Ids
                           /\ shares[q] \in [DOMAIN shares[q] -> FrostSignatureShare]
      BY DEF IInv, TypeOK
    <3> QED
      BY <3>1, SharesEffect
  <2>6. /\ signer_group' \in SignerGroups /\ restarting' \in Restarts
        /\ starts' \in [Nodes -> 0..MaxStarts] /\ nonce' \in [Nodes -> 0..MaxStarts]
    BY SMTT(30), <1>2 DEF IInv, TypeOK
  <2> QED
    BY SMTT(30), <2>1, <2>2, <2>3, <2>4, <2>5, <2>6 DEF TypeOK
<1>5. /\ commitment_list'[p] = list /\ not_verified_shares'[p] = unverified
      /\ \A q \in Nodes : q # p =>
           /\ commitment_list'[q] = commitment_list[q]
           /\ not_verified_shares'[q] = not_verified_shares[q]
      /\ \A q \in Nodes : /\ status'[q] = "idle" => status[q] = "idle"
                          /\ status[q] = "idle" => status'[q] = "idle"
                          /\ round'[q] = round[q] \/ round'[q] = 2
  BY <1>2, <1>3 DEF IInv, TypeOK
<1>6. ObjectsSound'
  <2> SUFFICES ASSUME NEW q \in Nodes
               PROVE  /\ DOMAIN commitment_list'[q] \subseteq signer_group
                      /\ DOMAIN shares'[q] \subseteq signer_group
                      /\ DOMAIN shares'[q]
                           \subseteq not_verified_shares'[q] \cup DOMAIN commitment_list'[q]
                      /\ \A i \in DOMAIN shares'[q] : ShareSound(shares'[q][i], i)
                      /\ status'[q] # "idle" => round'[q] \in {1, 2}
                      /\ status'[q] # "idle" /\ q \in signer_group =>
                           nonce'[q] = starts'[q] /\ starts'[q] > 0
                             /\ q \in DOMAIN commitment_list'[q]
    BY <1>2 DEF ObjectsSound, ShareSound
  <2>1. /\ DOMAIN commitment_list[q] \subseteq signer_group
        /\ DOMAIN shares[q] \subseteq signer_group
        /\ DOMAIN shares[q] \subseteq not_verified_shares[q] \cup DOMAIN commitment_list[q]
        /\ \A i \in DOMAIN shares[q] : ShareSound(shares[q][i], i)
        /\ status[q] # "idle" => round[q] \in {1, 2}
        /\ status[q] # "idle" /\ q \in signer_group =>
             nonce[q] = starts[q] /\ starts[q] > 0 /\ q \in DOMAIN commitment_list[q]
    BY DEF IInv, ObjectsSound
  <2>2. CASE q = p
    <3>1. /\ DOMAIN shares'[q] \subseteq signer_group
          /\ \A i \in DOMAIN shares'[q] : ShareSound(shares'[q][i], i)
          /\ DOMAIN shares'[q] \subseteq unverified \cup DOMAIN list
      BY <2>2, SharesEffect DEF list, unverified
    <3>2. commitment_list'[q] = list /\ not_verified_shares'[q] = unverified
      BY <1>5, <2>2
    <3>3. DOMAIN list \subseteq signer_group /\ DOMAIN commitment_list[q] \subseteq DOMAIN list
      BY <1>1, <2>2
    <3>4. status'[q] # "idle" => round'[q] \in {1, 2}
      BY <1>5, <2>1
    <3>5. status'[q] # "idle" /\ q \in signer_group =>
            nonce'[q] = starts'[q] /\ starts'[q] > 0 /\ q \in DOMAIN list
      BY Zenon, <1>2, <1>5, <2>1, <3>3
    <3> QED
      BY <3>1, <3>2, <3>3, <3>4, <3>5
  <2>3. CASE q # p
    <3>1. shares'[q] = shares[q] /\ commitment_list'[q] = commitment_list[q]
          /\ not_verified_shares'[q] = not_verified_shares[q]
      BY SMTT(30), <1>5, <2>3, SharesEffect
    <3>2. status'[q] # "idle" => round'[q] \in {1, 2}
      BY SMTT(30), <1>5, <2>1
    <3>3. status'[q] # "idle" /\ q \in signer_group =>
            nonce'[q] = starts'[q] /\ starts'[q] > 0 /\ q \in DOMAIN commitment_list[q]
      BY <1>2, <1>5, <2>1
    <3> QED
      BY <2>1, <3>1, <3>2, <3>3
  <2> QED
    BY <2>2, <2>3
<1>7. MessagesSound'
  <2> SUFFICES ASSUME NEW q \in Nodes, NEW x \in inbox'[q], ~IsCommitment(x)
               PROVE  /\ ShareSound(x.share, x.id)
                      /\ x.share.nonce <= starts[x.id]
                      /\ x.share.nonce = starts[x.id] => round'[x.id] = 2
    BY <1>2 DEF MessagesSound, ShareSound, IsCommitment
  <2>1. CASE x \in inbox[q]
    <3>1. x.id \in Nodes
      BY <2>1, MessageParts DEF IInv, TypeOK
    <3>2. /\ ShareSound(x.share, x.id)
          /\ x.share.nonce <= starts[x.id]
          /\ x.share.nonce = starts[x.id] => round[x.id] = 2
      BY <2>1 DEF IInv, MessagesSound
    <3>3. round'[x.id] = round[x.id] \/ round'[x.id] = 2
      BY <1>5, <3>1
    <3> QED
      BY <3>2, <3>3
  <2>2. CASE x \notin inbox[q]
    <3>1. /\ x.id = p /\ ShareSound(x.share, p) /\ x.share.nonce = starts[p]
          /\ round'[p] = 2
      BY <2>2, InboxEffect
    <3>2. starts[p] <= starts[p]
      BY StartsAssumption DEF IInv, TypeOK
    <3> QED
      BY <3>1, <3>2
  <2> QED
    BY <2>1, <2>2
<1>8. NonceSignsOnce'
  <2> SUFFICES ASSUME NEW q \in Nodes, NEW r \in Nodes,
                      NEW x \in inbox'[q], NEW y \in inbox'[r],
                      ~IsCommitment(x), ~IsCommitment(y), x.id = y.id,
                      x.share.nonce = y.share.nonce
               PROVE  x.share = y.share
    BY DEF NonceSignsOnce, IsCommitment
  <2>1. CASE UNCHANGED inbox
    BY <2>1 DEF IInv, NonceSignsOnce
  <2>2. CASE ~UNCHANGED inbox
    <3>1. PICK msg \in Message :
            /\ inbox' = [n \in Nodes |-> inbox[n] \cup {msg}]
            /\ msg.id = p /\ msg.share.nonce = starts[p] /\ round[p] = 1
      BY <2>2, InboxEffect
    <3>2. /\ x \in inbox[q] \/ x = msg
          /\ y \in inbox[r] \/ y = msg
      BY <3>1
    <3>3. \A n \in Nodes : \A z \in inbox[n] :
            ~IsCommitment(z) /\ z.id = p => z.share.nonce # starts[p]
      BY <3>1, SMTT(20) DEF IInv, MessagesSound
    <3>4. CASE x \in inbox[q] /\ y \in inbox[r]
      BY <3>4, SMTT(20) DEF IInv, NonceSignsOnce
    <3>5. CASE x = msg /\ y = msg
      BY <3>5
    <3>6. CASE x = msg /\ y \in inbox[r]
      BY <3>1, <3>3, <3>6
    <3>7. CASE x \in inbox[q] /\ y = msg
      BY <3>1, <3>3, <3>7
    <3> QED
      BY <3>2, <3>4, <3>5, <3>6, <3>7
  <2> QED
    BY <2>1, <2>2
<1>9. NeverFails'
  BY <1>3 DEF IInv, NeverFails, TypeOK
<1>10. UndisturbedVerifies'
  <2> SUFFICES ASSUME Undisturbed PROVE OutputVerifies'
    BY <1>2 DEF UndisturbedVerifies, Undisturbed
  <2>1. CASE output' = output
    BY <2>1 DEF IInv, UndisturbedVerifies, OutputVerifies
  <2>2. CASE output' = [output EXCEPT ![p] = assemble(list, shs)]
             /\ unverified = {} /\ DOMAIN shs = signer_group
    <3>1. ListWithin(list) /\ \A i \in DOMAIN shs : ShareWithin(shs[i], i)
      BY UpdateWithin DEF list, shs
    <3>2. assemble(list, shs) = "signature"
      BY <1>1, <2>2, <3>1, UndisturbedSignature
    <3> QED
      BY <2>2, <3>2 DEF IInv, UndisturbedVerifies, OutputVerifies, TypeOK
  <2> QED
    BY <1>3, <2>1, <2>2
<1>11. OutputsAtEnd'
  <2>1. \/ /\ status' = [status EXCEPT ![p] = "finished"]
           /\ \A q \in Nodes : q # p => output'[q] = output[q]
        \/ UNCHANGED <<status, output>>
    BY <1>2 DEF Finalizes, Signs, Collects, IInv, TypeOK
  <2>2. status \in [Nodes -> Statuses] /\ OutputsAtEnd /\ starts' = starts
    BY <1>2 DEF IInv, TypeOK
  <2> QED
    BY <1>2, <2>1, <2>2 DEF OutputsAtEnd
<1>12. WithinLimit'
  <2>1. \A q \in Nodes : starts'[q] <= Limit(q) /\ ListWithin(commitment_list'[q])
    <3> SUFFICES ASSUME NEW q \in Nodes
                 PROVE  starts'[q] <= Limit(q) /\ ListWithin(commitment_list'[q])
      OBVIOUS
    <3>1. starts'[q] <= Limit(q) /\ ListWithin(commitment_list[q]) /\ ListWithin(list)
      BY <1>2, WithinLimitParts, UpdateWithin DEF list
    <3> QED
      BY <1>5, <3>1
  <2>2. ASSUME NEW q \in Nodes, NEW x \in inbox'[q]
        PROVE  IF IsCommitment(x) THEN x.commitment <= Limit(x.id)
               ELSE ShareWithin(x.share, x.id)
    <3>1. CASE x \in inbox[q]
      BY <3>1, WithinLimitParts
    <3>2. CASE x \notin inbox[q]
      <4>1. /\ ~IsCommitment(x) /\ x.id = p /\ x.share.nonce = starts[p]
            /\ x.share.list = list
        BY <2>2, <3>2, InboxEffect DEF list
      <4>2. starts[p] <= Limit(p) /\ ListWithin(list)
        BY WithinLimitParts, UpdateWithin DEF list
      <4> QED
        BY <4>1, <4>2 DEF ShareWithin
    <3> QED
      BY <3>1, <3>2
  <2>3. restarting' = restarting
    BY <1>2
  <2> QED
    BY Zenon, <2>1, <2>2, <2>3, WithinLimitAfter
<1> QED
  BY <1>4, <1>6, <1>7, <1>8, <1>9, <1>10, <1>11, <1>12, SharesStaySent DEF IInv

-----------------------------------------------------------------------------
(* Theorems *)

\* Every reachable state satisfies the inductive invariant.
THEOREM Invariance == Spec => []IInv
<1>1. IInv /\ [Next]_vars => IInv'
  <2> SUFFICES ASSUME IInv, [Next]_vars PROVE IInv'
    OBVIOUS
  <2>1. ASSUME NEW p \in Nodes, Start(p) PROVE IInv'
    BY <2>1, StartStep
  <2>2. ASSUME NEW p \in Nodes, NEW m \in inbox[p], Receive(p, m) PROVE IInv'
    BY Zenon, <2>2, ReceiveStep
  <2>3. CASE UNCHANGED vars
    <3>1. TypeOK'
      BY Zenon, <2>3 DEF vars, IInv, TypeOK
    <3>2. ObjectsSound'
      <4>1. /\ signer_group' = signer_group /\ status' = status /\ starts' = starts
            /\ round' = round /\ nonce' = nonce /\ commitment_list' = commitment_list
            /\ shares' = shares /\ not_verified_shares' = not_verified_shares
        BY Zenon, <2>3 DEF vars
      <4>2. ObjectsSound
        BY Zenon DEF IInv
      <4> QED
        BY Zenon, <4>1, <4>2 DEF ObjectsSound, ShareSound
    <3>3. MessagesSound'
      BY Zenon, <2>3 DEF vars, IInv, MessagesSound, ShareSound, IsCommitment
    <3>4. NonceSignsOnce'
      <4>1. inbox' = inbox /\ NonceSignsOnce
        BY Zenon, <2>3 DEF vars, IInv
      <4> QED
        BY SMTT(20), <4>1 DEF NonceSignsOnce, IsCommitment
    <3>5. NeverFails' /\ UndisturbedVerifies'
      BY Zenon, <2>3 DEF vars, IInv, NeverFails, OutputVerifies, UndisturbedVerifies,
                         Undisturbed
    <3>6. SharesWereSent' /\ OutputsAtEnd'
      <4>1. /\ inbox' = inbox /\ shares' = shares /\ starts' = starts
            /\ status' = status /\ output' = output
        BY Zenon, <2>3 DEF vars
      <4>2. SharesWereSent /\ OutputsAtEnd
        BY Zenon DEF IInv
      <4> QED
        BY <4>1, <4>2, SMT DEF SharesWereSent, OutputsAtEnd, IsCommitment
    <3>7. WithinLimit'
      <4>1. /\ starts' = starts /\ commitment_list' = commitment_list /\ inbox' = inbox
            /\ restarting' = restarting
        BY Zenon, <2>3 DEF vars
      <4> QED
        BY Zenon, <4>1, WithinLimitParts, WithinLimitAfter
    <3> QED
      BY Zenon, <3>1, <3>2, <3>3, <3>4, <3>5, <3>6, <3>7 DEF IInv
  <2> QED
    BY <2>1, <2>2, <2>3 DEF Next
<1> QED
  BY InitIInv, <1>1, PTL DEF Spec

\* No nonce signs two lists of commitments, however often instances are created again and
\* in whatever order their messages arrive: do_round signs once per nonce, in round one.
THEOREM NonceUsedOnce == Spec => []NonceSignsOnce
<1>1. IInv => NonceSignsOnce
  BY DEF IInv
<1> QED
  BY <1>1, Invariance, PTL

\* run never returns an error: update never misses a commitment, and no node asks for a
\* round after the second.
THEOREM RunSucceeds == Spec => []NeverFails
<1>1. IInv => NeverFails
  BY DEF IInv
<1> QED
  BY <1>1, Invariance, PTL

\* If all keys fit and no instance is created again, every signature that finalize returns
\* verifies, although update took shares that it did not or could not verify.
THEOREM SignaturesVerify == Spec => []UndisturbedVerifies
<1>1. IInv => UndisturbedVerifies
  BY DEF IInv
<1> QED
  BY <1>1, Invariance, PTL

-----------------------------------------------------------------------------
(* FROST implements the service of the one-round protocols. *)

\* A node that has the shares of the whole group has them from signers that sent them, and
\* if all keys fit they are valid.
LEMMA GroupReleased ==
  ASSUME Undisturbed, IInv, NEW p \in Nodes, NEW m \in inbox[p],
         DOMAIN SharesWith(p, m) = signer_group
  PROVE  Cardinality(Released) >= Threshold
<1>1. signer_group \subseteq Released
  <2> SUFFICES ASSUME NEW i \in signer_group PROVE i \in Released
    OBVIOUS
  <2>1. PICK x \in inbox[p] :
          i \in Nodes /\ ~IsCommitment(x) /\ x.id = i /\ x.share = SharesWith(p, m)[i]
    BY SharesWithWereSent
  <2>2. ShareSound(x.share, i)
    BY <2>1, UpdateSound
  <2>3. x.share.good
    BY <2>2 DEF ShareSound, Undisturbed
  <2> QED
    BY <2>1, <2>3 DEF Released
<1>2. IsFiniteSet(Released)
  <2>1. Released \subseteq Nodes
    BY DEF Released
  <2> QED
    BY <2>1, NodesAssumption, FS_Subset
<1>3. Cardinality(signer_group) <= Cardinality(Released)
  BY <1>1, <1>2, FS_Subset
<1>4. Cardinality(signer_group) = Threshold
  BY GroupsAssumption DEF IInv, TypeOK
<1>5. Cardinality(Released) \in Nat
  BY <1>2, FS_CardinalityType
<1> QED
  BY <1>3, <1>4, <1>5, ThresholdAssumption

LEMMA ReleasedAfter ==
  Released' = {p \in Nodes : \E q \in Nodes : \E m \in inbox'[q] :
                 ~IsCommitment(m) /\ m.id = p /\ m.share.good}
  BY DEF Released, IsCommitment

\* A created instance sends a commitment at most, and the outcome of a node that never ran
\* stays open.
LEMMA StartRefines ==
  ASSUME Undisturbed, IInv, NEW p \in Nodes, Start(p)
  PROVE  UNCHANGED <<Released, Outcome>>
<1>1. Released' = Released
  <2>1. \A q \in Nodes : \A m : ~IsCommitment(m) => (m \in inbox'[q] <=> m \in inbox[q])
    <3>1. /\ inbox' \in {inbox, [q \in Nodes |-> inbox[q] \cup {CommitmentOf(p)}]}
          /\ IsCommitment(CommitmentOf(p))
      BY StartEffect, Zenon
    <3> QED
      BY <3>1, Zenon
  <2> QED
    BY <2>1, ReleasedAfter DEF Released
<1>2. status[p] = "idle" /\ output[p] = "none"
  <2>1. starts[p] \in Nat /\ starts[p] < 1
    BY StartsAssumption DEF IInv, TypeOK, Start, Undisturbed, Limit
  <2>2. OutputsAtEnd
    BY DEF IInv
  <2> QED
    BY <2>1, <2>2, SMTT(20) DEF OutputsAtEnd
<1>3. status'[p] = "run" /\ output'[p] = "none"
      /\ \A q \in Nodes : q # p => status'[q] = status[q] /\ output'[q] = output[q]
  BY StartEffect
<1>4. Outcome' = Outcome
  BY <1>2, <1>3 DEF Outcome
<1> QED
  BY <1>1, <1>4

\* A turn of the executor is a release of its share, the end of its run with the
\* signature, or nothing that the service knows of.
LEMMA ReceiveRefines ==
  ASSUME Undisturbed, IInv, NEW p \in Nodes, NEW m \in inbox[p], Receive(p, m)
  PROVE  \/ Released' \in {Released, Released \cup {p}} /\ UNCHANGED Outcome
         \/ /\ Outcome[p] = "none"
            /\ Cardinality(Released) >= Threshold
            /\ Outcome' = [Outcome EXCEPT ![p] = "value"]
            /\ UNCHANGED Released
<1> DEFINE list == CommitmentsWith(p, m)
           shs == SharesWith(p, m)
           unverified == UnverifiedWith(p, m)
<1>1. /\ status[p] = "run"
      /\ \/ Finalizes(p, list, shs, unverified)
         \/ Signs(p, list, shs)
         \/ Collects(p, shs)
  BY ReceiveCases
<1>2. CASE Signs(p, list, shs) \/ Collects(p, shs)
  <2>1. UNCHANGED <<status, output>>
    BY <1>2 DEF Signs, Collects
  <2>2. UNCHANGED Outcome
    BY <2>1 DEF Outcome
  <2>3. CASE UNCHANGED inbox
    BY <2>2, <2>3, ReleasedAfter DEF Released
  <2>4. CASE ~UNCHANGED inbox
    <3>1. PICK msg \in Message :
            /\ inbox' = [q \in Nodes |-> inbox[q] \cup {msg}]
            /\ ~IsCommitment(msg) /\ msg.id = p /\ ShareSound(msg.share, p)
      BY <2>4, InboxEffect
    <3>2. msg.share.good
      BY <3>1 DEF ShareSound, Undisturbed
    <3>3. Released' = Released \cup {p}
      BY <3>1, <3>2, ReleasedAfter DEF Released
    <3> QED
      BY <2>2, <3>3
  <2> QED
    BY <2>3, <2>4
<1>3. CASE Finalizes(p, list, shs, unverified)
  <2>1. /\ list \in [DOMAIN list -> Incarnations] /\ DOMAIN list \subseteq signer_group
        /\ shs \in [DOMAIN shs -> FrostSignatureShare]
        /\ \A i \in DOMAIN shs : ShareSound(shs[i], i)
        /\ DOMAIN shs \subseteq unverified \cup DOMAIN list
    BY UpdateSound
  <2>2. unverified = {} /\ DOMAIN shs = signer_group
    BY <1>3 DEF Finalizes
  <2>3. Cardinality(Released) >= Threshold
    BY <2>2, GroupReleased
  <2> HIDE DEF list, shs, unverified
  <2>4. assemble(list, shs) = "signature"
    <3>1. ListWithin(list) /\ \A i \in DOMAIN shs : ShareWithin(shs[i], i)
      BY UpdateWithin DEF list, shs
    <3> QED
      BY <2>1, <2>2, <3>1, UndisturbedSignature
  <2>5. /\ status' = [status EXCEPT ![p] = "finished"]
        /\ output' = [output EXCEPT ![p] = "signature"]
        /\ UNCHANGED inbox
    BY <1>3, <2>4 DEF Finalizes
  <2>6. status \in [Nodes -> Statuses]
        /\ output \in [Nodes -> {"none", "signature", "garbage"}] /\ output[p] = "none"
    BY <1>1 DEF IInv, TypeOK, OutputsAtEnd
  <2>7. Outcome[p] = "none"
    BY <1>1, <2>6 DEF Outcome
  <2>8. \A q \in Nodes : Outcome'[q] = IF q = p THEN "value" ELSE Outcome[q]
    BY <2>5, <2>6 DEF Outcome
  <2>9. Outcome' = [Outcome EXCEPT ![p] = "value"]
    BY <2>8, Zenon DEF Outcome
  <2>10. UNCHANGED Released
    BY <2>5, ReleasedAfter DEF Released
  <2> QED
    BY <2>3, <2>7, <2>9, <2>10
<1> QED
  BY <1>1, <1>2, <1>3

LEMMA SameCardinality ==
  Service!Cardinality(PromisedReleased) = Cardinality(PromisedReleased)
  BY Zenon DEF Cardinality, Service!Cardinality

\* FROST among nodes whose keys fit, each running the request once, implements the service
\* that the one-round protocols implement: every node, signer or bystander, ends at most
\* once, with a signature that verifies, and only after Threshold nodes released a share.
THEOREM Refinement == Spec => ImplementsService
<1>1. Init => Service!Init
  BY DEF Init, Service!Init, PromisedReleased, PromisedOutcome, Released, Outcome
<1>2. IInv /\ [Next]_vars => [Service!Next]_<<PromisedReleased, PromisedOutcome>>
  <2> SUFFICES ASSUME IInv, [Next]_vars
               PROVE  Service!Next \/ UNCHANGED <<PromisedReleased, PromisedOutcome>>
    OBVIOUS
  <2>1. Undisturbed' <=> Undisturbed
    <3>1. restarting' = restarting
      BY Zenon DEF Next, Start, Receive, vars
    <3> QED
      BY <3>1 DEF Undisturbed
  <2>2. CASE ~Undisturbed
    BY Zenon, <2>1, <2>2 DEF PromisedReleased, PromisedOutcome
  <2>3. CASE Undisturbed
    <3>1. /\ PromisedReleased = Released /\ PromisedReleased' = Released'
          /\ PromisedOutcome = Outcome /\ PromisedOutcome' = Outcome'
      BY Zenon, <2>1, <2>3 DEF PromisedReleased, PromisedOutcome
    <3>2. ASSUME NEW p \in Nodes, Start(p)
          PROVE  UNCHANGED <<PromisedReleased, PromisedOutcome>>
      <4>1. UNCHANGED <<Released, Outcome>>
        BY <2>3, <3>2, StartRefines
      <4> QED
        BY <3>1, <4>1
    <3>3. ASSUME NEW p \in Nodes, NEW m \in inbox[p], Receive(p, m)
          PROVE  Service!Next \/ UNCHANGED <<PromisedReleased, PromisedOutcome>>
      <4>1. CASE Released' = Released /\ UNCHANGED Outcome
        BY <3>1, <4>1
      <4>2. CASE Released' = Released \cup {p} /\ UNCHANGED Outcome
        BY <3>1, <4>2 DEF Service!Next, Service!Release
      <4>3. CASE /\ Outcome[p] = "none"
                 /\ Cardinality(Released) >= Threshold
                 /\ Outcome' = [Outcome EXCEPT ![p] = "value"]
                 /\ UNCHANGED Released
        <5>1. Service!Finish(p)
          BY <3>1, <4>3, SameCardinality DEF Service!Finish
        <5> QED
          BY <5>1 DEF Service!Next
      <4> QED
        BY <2>3, <3>3, <4>1, <4>2, <4>3, ReceiveRefines
    <3>4. CASE UNCHANGED vars
      <4>1. Released' = Released
        BY <3>4, ReleasedAfter DEF vars, Released
      <4>2. Outcome' = Outcome
        BY <3>4, Zenon DEF vars, Outcome
      <4> QED
        BY <3>1, <4>1, <4>2
    <3> QED
      BY <3>2, <3>3, <3>4 DEF Next
  <2> QED
    BY <2>2, <2>3
<1> QED
  BY <1>1, <1>2, Invariance, PTL DEF Spec, ImplementsService, Service!Spec
=============================================================================
