----------------------------- MODULE ProxyProofs -----------------------------
(***************************************************************************)
(* For any number of nodes, messages and blocks and any capacities, the    *)
(* proxy path duplicates no item, loses one only at a refused connection,  *)
(* drops a block only for another block of its instance, and forwards at   *)
(* most one block of an instance id.                                       *)
(***************************************************************************)
EXTENDS Proxy, SequenceTheorems, TLAPS

\* What the stub has not handed on: undecided, or turned down.
Held == Upstream \cup dropped

Distinct(s) == \A i, j \in DOMAIN s : s[i] = s[j] => i = j

\* The places between broadcast and deliver exclude each other.
Apart(x, p) ==
  /\ x \in Held =>
       /\ <<x, p>> \notin dialing \cup calling \cup passed \cup lost
       /\ x \notin Range(channel[p])
  /\ <<x, p>> \in dialing =>
       <<x, p>> \notin calling \cup passed \cup lost /\ x \notin Range(channel[p])
  /\ <<x, p>> \in calling =>
       <<x, p>> \notin passed \cup lost /\ x \notin Range(channel[p])
  /\ x \in Range(channel[p]) => <<x, p>> \notin passed \cup lost
  /\ <<x, p>> \in passed => <<x, p>> \notin lost

\* An item is somewhere exactly when it has been handed in.
Somewhere(x, p) ==
  x \in sent \cup asked <=>
    \/ x \in Held \/ <<x, p>> \in dialing \/ <<x, p>> \in calling
    \/ x \in Range(channel[p]) \/ <<x, p>> \in passed \/ <<x, p>> \in lost

\* So do the places before the stub's tasks.
StagesApart ==
  /\ connecting \cap relaying = {}
  /\ offered \cap Range(queue) = {}
  /\ offered \cap dropped = {}
  /\ Range(queue) \cap dropped = {}
  /\ Range(queue) \subseteq asked

\* The sequences hold nothing twice.
NoRepeats ==
  /\ Distinct(queue)
  /\ \A p \in Nodes : Distinct(channel[p])

\* A block the stub has forwarded: its id is registered, and no other such block has that id.
\* A registered id is that of a block on the chain, and a dropped block has lost to one of them.
Forwarded(b) == b \in asked /\ b \notin Held

Registered ==
  /\ \A b \in Blocks : Forwarded(b) => IdOf[b] \in registry
  /\ \A b, c \in Blocks : Forwarded(b) /\ Forwarded(c) /\ IdOf[b] = IdOf[c] => b = c
  /\ \A i \in registry : \E c \in Range(chain) : IdOf[c] = i
  /\ \A c \in Range(chain) : Forwarded(c)
  /\ \A b \in dropped : Superseded(b)

\* The inductive invariant.
PlaceInv ==
  /\ TypeOK
  /\ StagesApart
  /\ NoRepeats
  /\ \A x \in Items, p \in Nodes : Apart(x, p) /\ Somewhere(x, p)
  /\ Registered

-----------------------------------------------------------------------------
(* Sequences *)

\* Append adds its element to the range and keeps a sequence free of repetitions.
LEMMA AppendKeeps ==
  ASSUME NEW S, NEW s \in Seq(S), NEW e \in S
  PROVE  /\ Append(s, e) \in Seq(S)
         /\ Len(Append(s, e)) = Len(s) + 1
         /\ Range(Append(s, e)) = Range(s) \cup {e}
         /\ e \notin Range(s) /\ Distinct(s) => Distinct(Append(s, e))
<1> DEFINE t == Append(s, e)
<1>1. t \in Seq(S) /\ Len(t) = Len(s) + 1 /\ DOMAIN t = 1 .. Len(s) + 1 /\ DOMAIN s = 1 .. Len(s)
  OBVIOUS
<1>2. t[Len(s) + 1] = e /\ \A i \in 1 .. Len(s) : t[i] = s[i]
  OBVIOUS
<1>3. Len(s) \in Nat
  OBVIOUS
<1> HIDE DEF t
<1>4. Range(t) = Range(s) \cup {e}
  BY <1>1, <1>2, <1>3 DEF Range
<1>5. ASSUME e \notin Range(s), Distinct(s) PROVE Distinct(t)
  BY <1>1, <1>2, <1>3, <1>5 DEF Range, Distinct
<1> QED
  BY <1>1, <1>4, <1>5 DEF t

\* The head of a sequence without repetitions is gone from its tail, and nothing else is.
LEMMA TailKeeps ==
  ASSUME NEW S, NEW s \in Seq(S), s # <<>>
  PROVE  /\ Head(s) \in S /\ Head(s) \in Range(s)
         /\ Tail(s) \in Seq(S)
         /\ Len(Tail(s)) = Len(s) - 1
         /\ Distinct(s) => Range(Tail(s)) = Range(s) \ {Head(s)} /\ Distinct(Tail(s))
<1> DEFINE t == Tail(s)
           h == Head(s)
<1>1. Len(s) \in Nat /\ Len(s) >= 1 /\ DOMAIN s = 1 .. Len(s)
  OBVIOUS
<1>2. t \in Seq(S) /\ Len(t) = Len(s) - 1 /\ DOMAIN t = 1 .. Len(s) - 1
  BY <1>1
<1>3. h = s[1] /\ h \in S /\ \A i \in 1 .. Len(s) - 1 : t[i] = s[i + 1]
  BY <1>1
<1> HIDE DEF t, h
<1>4. h \in Range(s)
  BY <1>1, <1>3 DEF Range
<1>5. ASSUME Distinct(s) PROVE Range(t) = Range(s) \ {h} /\ Distinct(t)
  <2>1. Distinct(t)
    <3> SUFFICES ASSUME NEW i \in DOMAIN t, NEW j \in DOMAIN t, t[i] = t[j]
                 PROVE  i = j
      BY DEF Distinct
    <3>1. i + 1 \in DOMAIN s /\ j + 1 \in DOMAIN s /\ s[i + 1] = s[j + 1]
      BY <1>1, <1>2, <1>3
    <3>2. i + 1 = j + 1
      BY <3>1, <1>5 DEF Distinct
    <3> QED
      BY <3>2, <1>1, <1>2
  <2>2. ASSUME NEW x \in Range(t) PROVE x \in Range(s) \ {h}
    <3>1. PICK i \in 1 .. Len(s) - 1 : x = s[i + 1]
      BY <2>2, <1>2, <1>3 DEF Range
    <3>2. i + 1 \in DOMAIN s /\ i + 1 # 1 /\ 1 \in DOMAIN s
      BY <1>1
    <3> QED
      BY <3>1, <3>2, <1>3, <1>5 DEF Range, Distinct
  <2>3. ASSUME NEW x \in Range(s), x # h PROVE x \in Range(t)
    <3>1. PICK i \in 1 .. Len(s) : x = s[i]
      BY <1>1 DEF Range
    <3>2. i # 1 /\ i - 1 \in 1 .. Len(s) - 1 /\ t[i - 1] = s[i - 1 + 1] /\ i - 1 + 1 = i
      BY <3>1, <2>3, <1>1, <1>3
    <3> QED
      BY <3>1, <3>2, <1>2 DEF Range
  <2> QED
    BY <2>1, <2>2, <2>3
<1> QED
  BY <1>2, <1>3, <1>4, <1>5 DEF t, h

\* Nothing is in an empty sequence.
LEMMA EmptyRange == Range(<<>>) = {} /\ Distinct(<<>>)
  BY DEF Range, Distinct

-----------------------------------------------------------------------------
(* The invariant *)

\* Nothing is anywhere at the start.
LEMMA PlaceInit == Init => PlaceInv
<1> SUFFICES ASSUME Init PROVE PlaceInv
  OBVIOUS
<1> USE EmptyRange DEF Init
<1>1. TypeOK
  <2>1. <<>> \in Seq(Items) /\ <<>> \in Seq(Blocks) /\ Len(<<>>) = 0
    OBVIOUS
  <2>2. channel \in [Nodes -> Seq(Items)] /\ \A p \in Nodes : Len(channel[p]) <= InCap
    BY <2>1, CapAssumption
  <2>3. Len(queue) <= ChainCap
    BY <2>1, CapAssumption
  <2> QED
    BY <2>1, <2>2, <2>3, Zenon DEF TypeOK
<1>2. Held = {}
  BY DEF Held, Upstream
<1>3. StagesApart /\ NoRepeats
  BY DEF StagesApart, NoRepeats
<1>4. \A x \in Items, p \in Nodes : Apart(x, p) /\ Somewhere(x, p)
  BY <1>2 DEF Apart, Somewhere
<1>5. Registered
  BY DEF Registered, Forwarded, Superseded
<1> QED
  BY <1>1, <1>3, <1>4, <1>5 DEF PlaceInv

\* Messages and blocks: what the stub has not handed on.
LEMMA HeldTypes ==
  ASSUME PlaceInv
  PROVE  /\ Held \subseteq sent \cup asked
         /\ Held \subseteq Items
         /\ \A m \in Messages : m \in Held <=> m \in connecting \cup relaying
         /\ \A b \in Blocks : b \in Held <=> b \in offered \cup Range(queue) \cup dropped
  BY SetsAssumption DEF PlaceInv, TypeOK, StagesApart, Held, Upstream, Items

\* Connections that are set up and calls that are accepted move nothing: listening, waking up and
\* stuttering leave every place as it is.
LEMMA QuietStep ==
  ASSUME PlaceInv, StubListens \/ (\E p \in Nodes : init(p)) \/ UNCHANGED vars
  PROVE  PlaceInv'
<1>1. UNCHANGED <<sendVars, chainVars, hopVars, nodeVars>> /\ stubUp' \in BOOLEAN /\ up' \subseteq Nodes
  BY Zenon DEF StubListens, init, vars, PlaceInv, TypeOK
<1>2. TypeOK'
  BY <1>1 DEF PlaceInv, TypeOK, sendVars, chainVars, hopVars, nodeVars
<1>3. Held' = Held
  BY <1>1 DEF Held, Upstream, sendVars, chainVars
<1>4. StagesApart' /\ NoRepeats'
  BY <1>1 DEF PlaceInv, StagesApart, NoRepeats, sendVars, chainVars, nodeVars
<1>5. ASSUME NEW x \in Items, NEW p \in Nodes PROVE Apart(x, p)' /\ Somewhere(x, p)'
  <2>1. Apart(x, p) /\ Somewhere(x, p)
    BY DEF PlaceInv
  <2> QED
    BY <1>1, <1>3, <2>1 DEF Apart, Somewhere, sendVars, chainVars, hopVars, nodeVars
<1>6. Registered'
  BY <1>1, <1>3 DEF PlaceInv, Registered, Forwarded, Superseded, chainVars
<1> QED
  BY <1>2, <1>4, <1>5, <1>6 DEF PlaceInv

\* A message handed in is upstream, and was nowhere before.
LEMMA BroadcastStep ==
  ASSUME PlaceInv, NEW m \in Messages, broadcast(m)
  PROVE  PlaceInv'
<1> USE SetsAssumption DEF Items
<1>1. TypeOK'
  BY DEF broadcast, PlaceInv, TypeOK, chainVars, hopVars, nodeVars
<1>2. Held' = Held \cup {m} /\ m \notin asked /\ m \notin sent
  BY DEF broadcast, Held, Upstream, chainVars, PlaceInv, TypeOK
<1>3. StagesApart' /\ NoRepeats'
  BY DEF broadcast, PlaceInv, TypeOK, StagesApart, NoRepeats, chainVars, nodeVars
<1>4. ASSUME NEW x \in Items, NEW p \in Nodes PROVE Apart(x, p)' /\ Somewhere(x, p)'
  <2>1. Apart(x, p) /\ Somewhere(x, p) /\ Somewhere(m, p)
    BY DEF PlaceInv
  <2> QED
    BY <1>2, <2>1 DEF broadcast, Apart, Somewhere, chainVars, hopVars, nodeVars
<1>5. Registered'
  BY <1>2 DEF broadcast, PlaceInv, TypeOK, Registered, Forwarded, Superseded, chainVars
<1> QED
  BY <1>1, <1>3, <1>4, <1>5 DEF PlaceInv

\* The connection to the stub is set up: upstream stays what it is.
LEMMA ConnectedStep ==
  ASSUME PlaceInv, NEW m \in Messages, Connected(m)
  PROVE  PlaceInv'
<1>1. TypeOK'
  BY DEF Connected, PlaceInv, TypeOK, chainVars, hopVars, nodeVars
<1>2. Held' = Held
  BY DEF Connected, Held, Upstream, chainVars
<1>3. StagesApart' /\ NoRepeats'
  BY DEF Connected, PlaceInv, StagesApart, NoRepeats, chainVars, nodeVars
<1>4. ASSUME NEW x \in Items, NEW p \in Nodes PROVE Apart(x, p)' /\ Somewhere(x, p)'
  <2>1. Apart(x, p) /\ Somewhere(x, p)
    BY DEF PlaceInv
  <2> QED
    BY <1>2, <2>1 DEF Connected, Apart, Somewhere, chainVars, hopVars, nodeVars
<1>5. Registered'
  BY <1>2 DEF Connected, PlaceInv, Registered, Forwarded, Superseded, chainVars
<1> QED
  BY <1>1, <1>3, <1>4, <1>5 DEF PlaceInv

\* The stub does not listen: the message moves from upstream to lost, for every node.
LEMMA RefusedStep ==
  ASSUME PlaceInv, NEW m \in Messages, Refused(m)
  PROVE  PlaceInv'
<1> USE SetsAssumption DEF Items
<1>1. TypeOK'
  BY DEF Refused, PlaceInv, TypeOK, chainVars, hopVars, nodeVars
<1>2. Held' = Held \ {m} /\ m \in Held /\ m \notin Blocks
  BY HeldTypes DEF Refused, Held, Upstream, chainVars, PlaceInv, TypeOK, StagesApart
<1>3. StagesApart' /\ NoRepeats'
  BY DEF Refused, PlaceInv, StagesApart, NoRepeats, chainVars, nodeVars
<1>4. ASSUME NEW x \in Items, NEW p \in Nodes PROVE Apart(x, p)' /\ Somewhere(x, p)'
  <2>1. Apart(x, p) /\ Somewhere(x, p)
    BY DEF PlaceInv
  <2>2. <<x, p>> \in lost' <=> <<x, p>> \in lost \/ x = m
    BY DEF Refused
  <2> QED
    BY <1>2, <2>1, <2>2 DEF Refused, Apart, Somewhere, chainVars, hopVars, nodeVars
<1>5. Registered'
  BY <1>2 DEF Refused, PlaceInv, Registered, Forwarded, Superseded, chainVars
<1> QED
  BY <1>1, <1>3, <1>4, <1>5 DEF PlaceInv

\* The stub takes the call: the message moves from upstream to one task for every node.
LEMMA ForwardStep ==
  ASSUME PlaceInv, NEW m \in Messages, forward_share(m)
  PROVE  PlaceInv'
<1> USE SetsAssumption DEF Items
<1>1. TypeOK'
  BY DEF forward_share, forward_to_all, PlaceInv, TypeOK, chainVars, hopVars, nodeVars
<1>2. Held' = Held \ {m} /\ m \in Held /\ m \notin Blocks
  BY HeldTypes DEF forward_share, Held, Upstream, chainVars, PlaceInv, TypeOK, StagesApart
<1>3. StagesApart' /\ NoRepeats'
  BY DEF forward_share, PlaceInv, StagesApart, NoRepeats, chainVars, nodeVars
<1>4. ASSUME NEW x \in Items, NEW p \in Nodes PROVE Apart(x, p)' /\ Somewhere(x, p)'
  <2>1. Apart(x, p) /\ Somewhere(x, p)
    BY DEF PlaceInv
  <2>2. <<x, p>> \in dialing' <=> <<x, p>> \in dialing \/ x = m
    BY DEF forward_share, forward_to_all
  <2> QED
    BY <1>2, <2>1, <2>2 DEF forward_share, Apart, Somewhere, chainVars, hopVars, nodeVars
<1>5. Registered'
  BY <1>2 DEF forward_share, PlaceInv, Registered, Forwarded, Superseded, chainVars
<1> QED
  BY <1>1, <1>3, <1>4, <1>5 DEF PlaceInv

\* A block handed in is upstream, and was nowhere before.
LEMMA AskedStep ==
  ASSUME PlaceInv, NEW b \in Blocks, AtomicBroadcastCalled(b)
  PROVE  PlaceInv'
<1> USE SetsAssumption DEF Items
<1>1. TypeOK'
  BY DEF AtomicBroadcastCalled, PlaceInv, TypeOK, sendVars, hopVars, nodeVars
<1>2. Held' = Held \cup {b} /\ b \notin asked /\ b \notin sent
  BY DEF AtomicBroadcastCalled, Held, Upstream, sendVars, PlaceInv, TypeOK
<1>3. StagesApart' /\ NoRepeats'
  BY DEF AtomicBroadcastCalled, PlaceInv, TypeOK, StagesApart, NoRepeats, sendVars, nodeVars
<1>4. ASSUME NEW x \in Items, NEW p \in Nodes PROVE Apart(x, p)' /\ Somewhere(x, p)'
  <2>1. Apart(x, p) /\ Somewhere(x, p) /\ Somewhere(b, p)
    BY DEF PlaceInv
  <2> QED
    BY <1>2, <2>1 DEF AtomicBroadcastCalled, Apart, Somewhere, sendVars, hopVars, nodeVars
<1>5. Registered'
  BY <1>2 DEF AtomicBroadcastCalled, PlaceInv, Registered, Forwarded, Superseded
<1> QED
  BY <1>1, <1>3, <1>4, <1>5 DEF PlaceInv

\* A block taken into the queue stays upstream.
LEMMA QueuedStep ==
  ASSUME PlaceInv, NEW b \in Blocks, atomic_broadcast(b)
  PROVE  PlaceInv'
<1>1. queue \in Seq(Blocks) /\ queue' = Append(queue, b) /\ b \notin Range(queue) /\ Distinct(queue)
      /\ b \in offered /\ Len(queue) < ChainCap
  BY DEF atomic_broadcast, PlaceInv, TypeOK, StagesApart, NoRepeats
<1>2. queue' \in Seq(Blocks) /\ Len(queue') = Len(queue) + 1 /\ Range(queue)' = Range(queue) \cup {b} /\ Distinct(queue')
  BY <1>1, AppendKeeps
<1>3. Len(queue') <= ChainCap
  BY <1>1, <1>2, CapAssumption
<1>4. TypeOK'
  BY <1>2, <1>3 DEF atomic_broadcast, PlaceInv, TypeOK, sendVars, hopVars, nodeVars
<1>5. Held' = Held
  BY <1>1, <1>2 DEF atomic_broadcast, Held, Upstream, sendVars
<1>6. StagesApart' /\ NoRepeats'
  BY <1>1, <1>2 DEF atomic_broadcast, PlaceInv, TypeOK, StagesApart, NoRepeats, sendVars, nodeVars
<1>7. ASSUME NEW x \in Items, NEW p \in Nodes PROVE Apart(x, p)' /\ Somewhere(x, p)'
  <2>1. Apart(x, p) /\ Somewhere(x, p)
    BY DEF PlaceInv
  <2> QED
    BY <1>5, <2>1 DEF atomic_broadcast, Apart, Somewhere, sendVars, hopVars, nodeVars
<1>8. Registered'
  BY <1>5 DEF atomic_broadcast, PlaceInv, Registered, Forwarded, Superseded
<1> QED
  BY <1>4, <1>6, <1>7, <1>8 DEF PlaceInv

\* The Blockchain task forwards the first block of an id and drops the others.
LEMMA ChainStep ==
  ASSUME PlaceInv, start_and_run
  PROVE  PlaceInv'
<1> DEFINE h == Head(queue)
<1> USE SetsAssumption DEF Items
<1>1. queue \in Seq(Blocks) /\ queue # <<>> /\ queue' = Tail(queue) /\ Distinct(queue) /\ Len(queue) <= ChainCap
  BY DEF start_and_run, PlaceInv, TypeOK, NoRepeats
<1>2. h \in Blocks /\ h \in Range(queue) /\ queue' \in Seq(Blocks) /\ Len(queue') = Len(queue) - 1
      /\ Range(queue)' = Range(queue) \ {h} /\ Distinct(queue')
  BY <1>1, TailKeeps
<1>3. Len(queue') <= ChainCap
  BY <1>1, <1>2, CapAssumption
<1>4. Append(chain, h) \in Seq(Blocks) /\ IdOf[h] \in Ids /\ h \in asked /\ h \in Held /\ h \notin Messages
  <2>1. chain \in Seq(Blocks) /\ Range(queue) \subseteq asked
    BY DEF PlaceInv, TypeOK, StagesApart
  <2> QED
    BY <1>2, <2>1, AppendKeeps DEF Held, Upstream
<1> HIDE DEF h
<1>5. CASE IdOf[h] \notin registry
  <2>1. registry' = registry \cup {IdOf[h]} /\ chain' = Append(chain, h) /\ dialing' = dialing \cup ({h} \X Nodes)
        /\ UNCHANGED <<stubUp, up, sent, connecting, relaying, asked, offered, dropped, calling, lost, channel, passed>>
    BY <1>5 DEF start_and_run, forward_to_all, sendVars, nodeVars, h
  <2>2. TypeOK'
    BY <1>2, <1>3, <1>4, <2>1 DEF PlaceInv, TypeOK
  <2>3. StagesApart' /\ NoRepeats'
    BY <1>2, <2>1 DEF PlaceInv, StagesApart, NoRepeats
  <2>4. Held' = Held \ {h}
    BY <1>2, <2>1, HeldTypes DEF PlaceInv, TypeOK, StagesApart, Held, Upstream
  <2>5. ASSUME NEW x \in Items, NEW p \in Nodes PROVE Apart(x, p)' /\ Somewhere(x, p)'
    <3>1. Apart(x, p) /\ Somewhere(x, p)
      BY DEF PlaceInv
    <3>2. <<x, p>> \in dialing' <=> <<x, p>> \in dialing \/ x = h
      BY <2>1
    <3> QED
      BY <1>4, <2>1, <2>4, <3>1, <3>2 DEF Apart, Somewhere
  <2>6. Registered'
    <3>1. \A b \in Blocks : Forwarded(b)' <=> Forwarded(b) \/ b = h
      BY <1>4, <2>1, <2>4 DEF Forwarded
    <3>2. \A b \in Blocks : Forwarded(b) => IdOf[b] # IdOf[h]
      BY <1>5 DEF PlaceInv, Registered
    <3>3. Range(chain)' = Range(chain) \cup {h} /\ Range(chain) \subseteq Blocks
      <4>1. chain \in Seq(Blocks)
        BY DEF PlaceInv, TypeOK
      <4>2. Range(chain) \subseteq Blocks
        BY <4>1 DEF Range
      <4> QED
        BY <1>2, <2>1, <4>1, <4>2, AppendKeeps
    <3>4. \A b \in Blocks : Forwarded(b)' => IdOf[b] \in registry'
      BY <2>1, <3>1 DEF PlaceInv, Registered
    <3>5. \A b, c \in Blocks : Forwarded(b)' /\ Forwarded(c)' /\ IdOf[b] = IdOf[c] => b = c
      BY <3>1, <3>2 DEF PlaceInv, Registered
    <3>6. \A i \in registry' : \E c \in Range(chain)' : IdOf[c] = i
      BY <2>1, <3>3 DEF PlaceInv, Registered
    <3>7. \A c \in Range(chain)' : Forwarded(c)'
      BY <1>2, <3>1, <3>3 DEF PlaceInv, Registered
    <3>8. \A b \in dropped' : Superseded(b)'
      BY <2>1, <3>3 DEF PlaceInv, Registered, Superseded
    <3> QED
      BY <2>1, <3>4, <3>5, <3>6, <3>7, <3>8 DEF Registered
  <2> QED
    BY <2>2, <2>3, <2>5, <2>6 DEF PlaceInv
<1>6. CASE IdOf[h] \in registry
  <2>1. dropped' = dropped \cup {h}
        /\ UNCHANGED <<stubUp, up, sent, connecting, relaying, asked, offered, registry, chain, dialing, calling, lost, channel, passed>>
    BY <1>6 DEF start_and_run, sendVars, nodeVars, h
  <2>2. TypeOK'
    BY <1>2, <1>3, <1>4, <2>1 DEF PlaceInv, TypeOK
  <2>3. StagesApart' /\ NoRepeats'
    BY <1>2, <2>1 DEF PlaceInv, StagesApart, NoRepeats
  <2>4. Held' = Held
    BY <1>2, <2>1 DEF Held, Upstream
  <2>5. ASSUME NEW x \in Items, NEW p \in Nodes PROVE Apart(x, p)' /\ Somewhere(x, p)'
    <3>1. Apart(x, p) /\ Somewhere(x, p)
      BY DEF PlaceInv
    <3> QED
      BY <2>1, <2>4, <3>1 DEF Apart, Somewhere
  <2>6. Registered'
    <3>1. PICK c \in Range(chain) : IdOf[c] = IdOf[h]
      BY <1>6 DEF PlaceInv, Registered
    <3>2. c # h
      BY <1>4, <3>1 DEF PlaceInv, Registered, Forwarded
    <3>3. Superseded(h)
      BY <3>1, <3>2 DEF Superseded
    <3> QED
      BY <2>1, <2>4, <3>3 DEF PlaceInv, Registered, Forwarded, Superseded
  <2> QED
    BY <2>2, <2>3, <2>5, <2>6 DEF PlaceInv
<1> QED
  BY <1>5, <1>6

\* A task of the stub that has its connection makes its call.
LEMMA PeerConnectedStep ==
  ASSUME PlaceInv, NEW x \in Items, NEW p \in Nodes, PeerConnected(x, p)
  PROVE  PlaceInv'
<1>1. TypeOK'
  BY DEF PeerConnected, PlaceInv, TypeOK, sendVars, chainVars, nodeVars
<1>2. Held' = Held
  BY DEF PeerConnected, Held, Upstream, sendVars, chainVars
<1>3. StagesApart' /\ NoRepeats'
  BY DEF PeerConnected, PlaceInv, StagesApart, NoRepeats, sendVars, chainVars, nodeVars
<1>4. ASSUME NEW y \in Items, NEW q \in Nodes PROVE Apart(y, q)' /\ Somewhere(y, q)'
  <2>1. Apart(y, q) /\ Somewhere(y, q)
    BY DEF PlaceInv
  <2>2. /\ <<y, q>> \in dialing' <=> <<y, q>> \in dialing /\ <<y, q>> # <<x, p>>
        /\ <<y, q>> \in calling' <=> <<y, q>> \in calling \/ <<y, q>> = <<x, p>>
        /\ <<x, p>> \in dialing
        /\ UNCHANGED <<sent, asked, lost, channel, passed>>
    BY DEF PeerConnected, sendVars, chainVars, nodeVars
  <2> QED
    BY <1>2, <2>1, <2>2 DEF Apart, Somewhere
<1>5. Registered'
  BY <1>2 DEF PeerConnected, PlaceInv, Registered, Forwarded, Superseded, chainVars
<1> QED
  BY <1>1, <1>3, <1>4, <1>5 DEF PlaceInv

\* A task of the stub that is refused loses its item for that node.
LEMMA PeerRefusedStep ==
  ASSUME PlaceInv, NEW x \in Items, NEW p \in Nodes, PeerRefused(x, p)
  PROVE  PlaceInv'
<1>1. TypeOK'
  BY DEF PeerRefused, PlaceInv, TypeOK, sendVars, chainVars, nodeVars
<1>2. Held' = Held
  BY DEF PeerRefused, Held, Upstream, sendVars, chainVars
<1>3. StagesApart' /\ NoRepeats'
  BY DEF PeerRefused, PlaceInv, StagesApart, NoRepeats, sendVars, chainVars, nodeVars
<1>4. ASSUME NEW y \in Items, NEW q \in Nodes PROVE Apart(y, q)' /\ Somewhere(y, q)'
  <2>1. Apart(y, q) /\ Somewhere(y, q)
    BY DEF PlaceInv
  <2>2. /\ <<y, q>> \in dialing' <=> <<y, q>> \in dialing /\ <<y, q>> # <<x, p>>
        /\ <<y, q>> \in lost' <=> <<y, q>> \in lost \/ <<y, q>> = <<x, p>>
        /\ <<x, p>> \in dialing
        /\ UNCHANGED <<sent, asked, calling, channel, passed>>
    BY DEF PeerRefused, sendVars, chainVars, nodeVars
  <2> QED
    BY <1>2, <2>1, <2>2 DEF Apart, Somewhere
<1>5. Registered'
  BY <1>2 DEF PeerRefused, PlaceInv, Registered, Forwarded, Superseded, chainVars
<1> QED
  BY <1>1, <1>3, <1>4, <1>5 DEF PlaceInv

\* The service of a node moves an item from the call into the channel.
LEMMA ServiceStep ==
  ASSUME PlaceInv, NEW x \in Items, NEW p \in Nodes, service_forward_share(x, p)
  PROVE  PlaceInv'
<1>1. channel[p] \in Seq(Items) /\ channel' = [channel EXCEPT ![p] = Append(channel[p], x)]
      /\ channel \in [Nodes -> Seq(Items)] /\ <<x, p>> \in calling /\ Len(channel[p]) < InCap
      /\ x \notin Range(channel[p]) /\ Distinct(channel[p])
  BY DEF service_forward_share, PlaceInv, TypeOK, Apart, NoRepeats
<1>2. /\ Append(channel[p], x) \in Seq(Items) /\ Len(Append(channel[p], x)) = Len(channel[p]) + 1
      /\ Range(Append(channel[p], x)) = Range(channel[p]) \cup {x} /\ Distinct(Append(channel[p], x))
  BY <1>1, AppendKeeps
<1>3. /\ channel' \in [Nodes -> Seq(Items)]
      /\ channel'[p] = Append(channel[p], x)
      /\ \A q \in Nodes : q # p => channel'[q] = channel[q]
  BY <1>1, <1>2
<1>4. \A q \in Nodes : Len(channel'[q]) <= InCap
  <2>1. Len(channel[p]) + 1 <= InCap
    BY <1>1, CapAssumption
  <2> QED
    BY <1>2, <1>3, <2>1, ZenonT(60) DEF PlaceInv, TypeOK
<1>5. UNCHANGED <<stubUp, up, sent, connecting, relaying, asked, offered, queue, registry, chain, dropped, dialing, lost, passed>>
      /\ calling' = calling \ {<<x, p>>}
  BY DEF service_forward_share, sendVars, chainVars
<1>6. TypeOK'
  BY <1>3, <1>4, <1>5 DEF PlaceInv, TypeOK
<1>7. Held' = Held
  BY <1>5 DEF Held, Upstream
<1>8. StagesApart' /\ NoRepeats'
  BY <1>2, <1>3, <1>5, ZenonT(60) DEF PlaceInv, StagesApart, NoRepeats
<1>9. ASSUME NEW y \in Items, NEW q \in Nodes PROVE Apart(y, q)' /\ Somewhere(y, q)'
  <2>1. Apart(y, q) /\ Somewhere(y, q)
    BY DEF PlaceInv
  <2>2. /\ <<y, q>> \in calling' <=> <<y, q>> \in calling /\ <<y, q>> # <<x, p>>
        /\ y \in Range(channel'[q]) <=> y \in Range(channel[q]) \/ <<y, q>> = <<x, p>>
    BY <1>2, <1>3, <1>5, ZenonT(60)
  <2> QED
    BY <1>1, <1>5, <1>7, <2>1, <2>2, ZenonT(60) DEF Apart, Somewhere
<1>10. Registered'
  BY <1>5, <1>7 DEF PlaceInv, Registered, Forwarded, Superseded
<1> QED
  BY <1>6, <1>8, <1>9, <1>10 DEF PlaceInv

\* deliver moves the oldest item of the channel to the network manager.
LEMMA DeliverStep ==
  ASSUME PlaceInv, NEW p \in Nodes, deliver(p)
  PROVE  PlaceInv'
<1> DEFINE x == Head(channel[p])
<1>1. channel[p] \in Seq(Items) /\ channel' = [channel EXCEPT ![p] = Tail(channel[p])] /\ channel[p] # <<>>
      /\ channel \in [Nodes -> Seq(Items)] /\ Distinct(channel[p])
  BY DEF deliver, PlaceInv, TypeOK, NoRepeats
<1>2. /\ Tail(channel[p]) \in Seq(Items) /\ Len(Tail(channel[p])) = Len(channel[p]) - 1
      /\ Range(Tail(channel[p])) = Range(channel[p]) \ {x} /\ Distinct(Tail(channel[p]))
      /\ x \in Items /\ x \in Range(channel[p])
  BY <1>1, TailKeeps
<1>3. UNCHANGED <<stubUp, up, sent, connecting, relaying, asked, offered, queue, registry, chain, dropped, dialing, calling, lost>>
      /\ passed' = passed \cup {<<x, p>>}
  BY DEF deliver, sendVars, chainVars, hopVars
<1> HIDE DEF x
<1>4. /\ channel' \in [Nodes -> Seq(Items)]
      /\ channel'[p] = Tail(channel[p])
      /\ \A q \in Nodes : q # p => channel'[q] = channel[q]
  BY <1>1, <1>2
<1>5. \A q \in Nodes : Len(channel'[q]) <= InCap
  <2>1. Len(channel[p]) <= InCap /\ Len(channel[p]) \in Nat
    BY <1>1 DEF PlaceInv, TypeOK
  <2>2. Len(channel[p]) - 1 <= InCap
    BY <2>1, CapAssumption
  <2> QED
    BY <1>2, <1>4, <2>2, ZenonT(60) DEF PlaceInv, TypeOK
<1>6. TypeOK'
  <2>1. passed' \subseteq Items \X Nodes
    BY <1>2, <1>3 DEF PlaceInv, TypeOK
  <2> QED
    BY <1>3, <1>4, <1>5, <2>1, ZenonT(60) DEF PlaceInv, TypeOK
<1>7. Held' = Held
  BY <1>3 DEF Held, Upstream
<1>8. StagesApart' /\ NoRepeats'
  BY <1>2, <1>3, <1>4, ZenonT(60) DEF PlaceInv, StagesApart, NoRepeats
<1>9. ASSUME NEW y \in Items, NEW q \in Nodes PROVE Apart(y, q)' /\ Somewhere(y, q)'
  <2>1. Apart(y, q) /\ Somewhere(y, q)
    BY DEF PlaceInv
  <2>2. /\ <<y, q>> \in passed' <=> <<y, q>> \in passed \/ <<y, q>> = <<x, p>>
        /\ y \in Range(channel'[q]) <=> y \in Range(channel[q]) /\ <<y, q>> # <<x, p>>
    BY <1>2, <1>3, <1>4, ZenonT(60)
  <2> QED
    BY <1>2, <1>3, <1>7, <2>1, <2>2, ZenonT(60) DEF Apart, Somewhere
<1>10. Registered'
  BY <1>3, <1>7 DEF PlaceInv, Registered, Forwarded, Superseded
<1> QED
  BY <1>6, <1>8, <1>9, <1>10 DEF PlaceInv

\* Every step keeps the invariant.
LEMMA PlaceStep == PlaceInv /\ [Next]_vars => PlaceInv'
<1> SUFFICES ASSUME PlaceInv, [Next]_vars PROVE PlaceInv'
  OBVIOUS
<1>1. CASE StubListens \/ (\E p \in Nodes : init(p)) \/ UNCHANGED vars
  BY <1>1, QuietStep
<1>2. CASE \E m \in Messages : broadcast(m)
  BY <1>2, BroadcastStep
<1>3. CASE \E m \in Messages : Connected(m)
  BY <1>3, ConnectedStep
<1>4. CASE \E m \in Messages : Refused(m)
  BY <1>4, RefusedStep
<1>5. CASE \E m \in Messages : forward_share(m)
  BY <1>5, ForwardStep
<1>6. CASE \E b \in Blocks : AtomicBroadcastCalled(b)
  BY <1>6, AskedStep
<1>7. CASE \E b \in Blocks : atomic_broadcast(b)
  BY <1>7, QueuedStep
<1>8. CASE start_and_run
  BY <1>8, ChainStep
<1>9. CASE \E x \in Items, p \in Nodes : PeerConnected(x, p)
  BY <1>9, PeerConnectedStep
<1>10. CASE \E x \in Items, p \in Nodes : PeerRefused(x, p)
  BY <1>10, PeerRefusedStep
<1>11. CASE \E x \in Items, p \in Nodes : service_forward_share(x, p)
  BY <1>11, ServiceStep
<1>12. CASE \E p \in Nodes : deliver(p)
  BY <1>12, DeliverStep
<1> QED
  BY <1>1, <1>2, <1>3, <1>4, <1>5, <1>6, <1>7, <1>8, <1>9, <1>10, <1>11, <1>12, Zenon DEF Next, Environment, Step

-----------------------------------------------------------------------------
(* The theorems *)

\* The invariant leaves exactly one place for every item that was handed in.
LEMMA InvOnePlace == PlaceInv => OnePlace
<1> SUFFICES ASSUME PlaceInv, NEW x \in sent \cup asked, NEW p \in Nodes
             PROVE  \E place \in Places(x, p) : Places(x, p) = {place}
  BY DEF OnePlace, PlaceInv, Registered
<1>1. x \in Items
  BY DEF PlaceInv, TypeOK, Items
<1>2. Apart(x, p) /\ Somewhere(x, p)
  BY <1>1 DEF PlaceInv
<1>3. CASE x \in Held
  <2>1. <<x, p>> \notin dialing /\ <<x, p>> \notin calling /\ <<x, p>> \notin passed /\ <<x, p>> \notin lost
        /\ x \notin Range(channel[p])
    BY <1>2, <1>3 DEF Apart
  <2>2. x \in Upstream => x \notin dropped
    BY SetsAssumption DEF PlaceInv, TypeOK, StagesApart, Upstream
  <2> QED
    BY <1>3, <2>1, <2>2 DEF Held, Places, If
<1>4. CASE <<x, p>> \in dialing
  BY <1>2, <1>4 DEF Apart, Held, Places, If
<1>5. CASE <<x, p>> \in calling
  BY <1>2, <1>5 DEF Apart, Held, Places, If
<1>6. CASE x \in Range(channel[p])
  BY <1>2, <1>6 DEF Apart, Held, Places, If
<1>7. CASE <<x, p>> \in passed
  BY <1>2, <1>7 DEF Apart, Held, Places, If
<1>8. CASE <<x, p>> \in lost
  BY <1>2, <1>8 DEF Apart, Held, Places, If
<1> QED
  BY <1>2, <1>3, <1>4, <1>5, <1>6, <1>7, <1>8 DEF Somewhere

\* Of two blocks with one id at most one has left the Blockchain task.
LEMMA InvOneBlock == PlaceInv => OneBlockPerId
<1> SUFFICES ASSUME PlaceInv, NEW b \in asked, NEW c \in asked, b # c, IdOf[b] = IdOf[c],
                    NEW p \in Nodes, NEW q \in Nodes,
                    <<b, p>> \in passed \cup calling \cup dialing,
                    <<c, q>> \in passed \cup calling \cup dialing
             PROVE  FALSE
  BY DEF OneBlockPerId
<1>1. b \in Blocks /\ c \in Blocks /\ b \in Items /\ c \in Items
  BY DEF PlaceInv, TypeOK, Items
<1>2. Apart(b, p) /\ Apart(c, q)
  BY <1>1 DEF PlaceInv
<1>3. Forwarded(b) /\ Forwarded(c)
  BY <1>2 DEF Apart, Forwarded
<1> QED
  BY <1>1, <1>3 DEF PlaceInv, Registered

\* The invariant holds in every reachable state.
LEMMA PlaceInvariant == Spec => []PlaceInv
  BY PlaceInit, PlaceStep, PTL DEF Spec

\* Every item is where items of its kind go, for every number of nodes, blocks and messages.
THEOREM TypeCorrect == Spec => []TypeOK
<1>1. PlaceInv => TypeOK
  BY Zenon DEF PlaceInv
<1> QED
  BY PlaceInvariant, <1>1, PTL

\* An item is in exactly one place for every node, delivered, lost at a refused connection and
\* dropped by the registry among them, and a block is dropped only for another block of its
\* instance on the chain: P2PProxy, forward_to_all, the Blockchain task and the proxy service.
THEOREM NothingLostOrDoubled == Spec => []OnePlace
  BY PlaceInvariant, InvOnePlace, PTL

\* Blockchain::start_and_run forwards at most one block of an instance id.
THEOREM OneBlockForwarded == Spec => []OneBlockPerId
  BY PlaceInvariant, InvOneBlock, PTL

=============================================================================
