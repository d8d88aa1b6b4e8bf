--------------------------- MODULE KeyStoreProofs ---------------------------
(***************************************************************************)
(* For any keys, kinds, operations and number of nodes: insertions keep    *)
(* the default flags determined, no command and no server loses or         *)
(* replaces a share it loaded, and servers with shares of the same keys    *)
(* agree on the key of a request.                                          *)
(***************************************************************************)
EXTENDS KeyStore, FiniteSetTheorems, TLAPS

-----------------------------------------------------------------------------
(* Key entries.                                                            *)

LEMMA EntriesByParts ==
  ASSUME NEW kc \in KeyEntries
  PROVE  /\ kc = [sk |-> kc.sk, is_default |-> kc.is_default]
         /\ Entries(kc) \subseteq Keys
         /\ kc.sk \in [Entries(kc) -> 0..N]
         /\ kc.is_default \subseteq Keys
  BY DEF KeyEntries, Entries

LEMMA EntriesFromParts ==
  ASSUME NEW S \in SUBSET Keys, NEW f \in [S -> 0..N], NEW D \in SUBSET Keys
  PROVE  [sk |-> f, is_default |-> D] \in KeyEntries
<1>1. f \in UNION {[E -> 0..N] : E \in SUBSET Keys}
  OBVIOUS
<1> QED
  BY <1>1 DEF KeyEntries

LEMMA EmptyEntries ==
  NoEntries \in KeyEntries /\ Entries(NoEntries) = {} /\ Determined(NoEntries)
<1>1. Entries(NoEntries) = {} /\ NoEntries.is_default = {}
  BY DEF NoEntries, Entries
<1>2. NoEntries \in KeyEntries
  <2>1. [k \in {} |-> 0] \in [{} -> 0..N]
    OBVIOUS
  <2> QED
    BY <2>1, EntriesFromParts, Zenon DEF NoEntries
<1>3. Determined(NoEntries)
  BY <1>1 DEF Determined, Private, PublicOnly
<1> QED
  BY <1>1, <1>2, <1>3

\* What an insertion may change in the entries of a store.
PrivateChange(kc, k, i, new) ==
  /\ new \in KeyEntries
  /\ Entries(new) = Entries(kc) \cup {k}
  /\ new.sk[k] = i
  /\ \A j \in Entries(kc) \ {k} : new.sk[j] = kc.sk[j]
  /\ Private(new) = Private(kc) \cup {k}
  /\ PublicOnly(new) = PublicOnly(kc) \ {k}
  /\ new.is_default = IF SameOperation(Private(kc), k) = {} THEN kc.is_default \cup {k}
                      ELSE kc.is_default \ (SameOperation(Private(kc), k) \cup {k})

PublicChange(kc, k, new) ==
  /\ new \in KeyEntries
  /\ Entries(new) = Entries(kc) \cup {k}
  /\ new.sk[k] = 0
  /\ \A j \in Entries(kc) : new.sk[j] = kc.sk[j]
  /\ Private(new) = Private(kc)
  /\ PublicOnly(new) = PublicOnly(kc) \cup {k}
  /\ new.is_default = IF SameOperation(Entries(kc), k) = {} THEN kc.is_default \cup {k}
                      ELSE kc.is_default

LEMMA PrivateInserted ==
  ASSUME NEW kc \in KeyEntries, NEW k \in Keys, NEW i \in 1..N, k \notin Private(kc)
  PROVE  PrivateChange(kc, k, i, insert_private_key(kc, k, i))
<1> DEFINE new == insert_private_key(kc, k, i)
<1> DEFINE same == SameOperation(Private(kc), k)
<1>1. /\ new.sk = insert(kc.sk, k, i)
      /\ new.is_default = IF same = {} THEN kc.is_default \cup {k}
                          ELSE kc.is_default \ (same \cup {k})
      /\ new = [sk |-> new.sk, is_default |-> new.is_default]
  BY DEF insert_private_key, DuplicatePrivate
<1> HIDE DEF new
<1>2. i \in 0..N /\ i # 0
  BY NodesAssumption
<1>3. /\ Entries(kc) \subseteq Keys /\ kc.sk \in [Entries(kc) -> 0..N]
      /\ kc.is_default \subseteq Keys
  BY EntriesByParts
<1>4. /\ new.sk \in [Entries(kc) \cup {k} -> 0..N]
      /\ new.sk[k] = i
      /\ \A j \in Entries(kc) \ {k} : new.sk[j] = kc.sk[j]
  <2>1. new.sk = [j \in Entries(kc) \cup {k} |-> IF j = k THEN i ELSE kc.sk[j]]
    BY <1>1 DEF insert, Entries
  <2> QED
    BY <1>2, <1>3, <2>1
<1>5. new.is_default \subseteq Keys
  BY <1>1, <1>3
<1>6. Entries(new) = Entries(kc) \cup {k}
  BY <1>4 DEF Entries
<1>7. new \in KeyEntries
  <2>1. Entries(kc) \cup {k} \in SUBSET Keys
    BY <1>3
  <2> QED
    BY <1>1, <1>4, <1>5, <2>1, EntriesFromParts
<1>8. Private(new) = Private(kc) \cup {k} /\ PublicOnly(new) = PublicOnly(kc) \ {k}
  BY <1>2, <1>4, <1>6 DEF Private, PublicOnly
<1>9. PrivateChange(kc, k, i, new)
  BY <1>1, <1>4, <1>6, <1>7, <1>8 DEF PrivateChange
<1> QED
  BY <1>9 DEF new

LEMMA PublicInserted ==
  ASSUME NEW kc \in KeyEntries, NEW k \in Keys, k \notin Entries(kc)
  PROVE  PublicChange(kc, k, insert_public_key(kc, k))
<1> DEFINE new == insert_public_key(kc, k)
<1>1. /\ new.sk = insert(kc.sk, k, 0)
      /\ new.is_default = IF SameOperation(Entries(kc), k) = {} THEN kc.is_default \cup {k}
                          ELSE kc.is_default
      /\ new = [sk |-> new.sk, is_default |-> new.is_default]
  BY DEF insert_public_key, DuplicatePublic
<1> HIDE DEF new
<1>2. 0 \in 0..N
  BY NodesAssumption
<1>3. /\ Entries(kc) \subseteq Keys /\ kc.sk \in [Entries(kc) -> 0..N]
      /\ kc.is_default \subseteq Keys
  BY EntriesByParts
<1>4. /\ new.sk \in [Entries(kc) \cup {k} -> 0..N]
      /\ new.sk[k] = 0
      /\ \A j \in Entries(kc) : new.sk[j] = kc.sk[j]
  <2>1. new.sk = [j \in Entries(kc) \cup {k} |-> IF j = k THEN 0 ELSE kc.sk[j]]
    BY <1>1 DEF insert, Entries
  <2> QED
    BY <1>2, <1>3, <2>1
<1>5. new.is_default \subseteq Keys
  BY <1>1, <1>3
<1>6. Entries(new) = Entries(kc) \cup {k}
  BY <1>4 DEF Entries
<1>7. new \in KeyEntries
  <2>1. Entries(kc) \cup {k} \in SUBSET Keys
    BY <1>3
  <2> QED
    BY <1>1, <1>4, <1>5, <2>1, EntriesFromParts
<1>8. Private(new) = Private(kc) /\ PublicOnly(new) = PublicOnly(kc) \cup {k}
  BY <1>4, <1>6 DEF Private, PublicOnly
<1>9. PublicChange(kc, k, new)
  BY <1>1, <1>4, <1>6, <1>7, <1>8 DEF PublicChange
<1> QED
  BY <1>9 DEF new

\* An insertion keeps the flags determined.
LEMMA PrivateDetermined ==
  ASSUME NEW kc \in KeyEntries, Determined(kc), NEW k \in Keys, NEW i \in 1..N,
         k \notin Private(kc)
  PROVE  Determined(insert_private_key(kc, k, i))
<1> DEFINE new == insert_private_key(kc, k, i)
           same == SameOperation(Private(kc), k)
<1>1. /\ Entries(new) = Entries(kc) \cup {k}
      /\ Private(new) = Private(kc) \cup {k}
      /\ PublicOnly(new) = PublicOnly(kc) \ {k}
      /\ new.is_default = IF same = {} THEN kc.is_default \cup {k}
                          ELSE kc.is_default \ (same \cup {k})
  <2>1. PrivateChange(kc, k, i, new)
    BY PrivateInserted
  <2> QED
    BY <2>1 DEF PrivateChange
<1>2. /\ Private(kc) \subseteq Entries(kc) /\ PublicOnly(kc) \subseteq Entries(kc)
      /\ kc.is_default \subseteq Entries(kc)
      /\ \A j \in Private(kc) : j \in kc.is_default <=> SameOperation(Private(kc), j) = {j}
  BY DEF Private, PublicOnly, Determined
<1>3. same = {j \in Private(kc) : OperationOf(j) = OperationOf(k)}
  BY DEF SameOperation
<1> HIDE DEF new, same
<1>4. ASSUME NEW j \in Private(new)
      PROVE  j \in new.is_default <=> SameOperation(Private(new), j) = {j}
  <2>1. CASE j = k
    <3>1. SameOperation(Private(new), k) = {k} <=> same = {}
      BY <1>1, <1>3 DEF SameOperation
    <3>2. k \in new.is_default <=> same = {}
      BY <1>1
    <3> QED
      BY <2>1, <3>1, <3>2
  <2>2. CASE j # k /\ OperationOf(j) = OperationOf(k)
    <3>1. j \in same /\ k \in SameOperation(Private(new), j)
      BY <1>1, <1>3, <2>2 DEF SameOperation
    <3> QED
      BY <1>1, <2>2, <3>1
  <2>3. CASE j # k /\ OperationOf(j) # OperationOf(k)
    <3>1. j \in Private(kc) /\ j \notin same
      BY <1>1, <1>3, <2>3
    <3>2. SameOperation(Private(new), j) = SameOperation(Private(kc), j)
      BY <1>1, <2>3 DEF SameOperation
    <3> QED
      BY <1>1, <1>2, <2>3, <3>1, <3>2
  <2> QED
    BY <2>1, <2>2, <2>3
<1>5. ASSUME NEW j \in PublicOnly(new) \cap new.is_default,
             NEW l \in PublicOnly(new) \cap new.is_default,
             OperationOf(j) = OperationOf(l)
      PROVE  j = l
  <2>1. j \in PublicOnly(kc) \cap kc.is_default /\ l \in PublicOnly(kc) \cap kc.is_default
    BY <1>1
  <2> QED
    BY <1>5, <2>1 DEF Determined
<1>6. new.is_default \subseteq Entries(new)
  BY <1>1, <1>2
<1>7. Determined(new)
  BY <1>4, <1>5, <1>6 DEF Determined
<1> QED
  BY <1>7 DEF new

LEMMA PublicDetermined ==
  ASSUME NEW kc \in KeyEntries, Determined(kc), NEW k \in Keys, k \notin Entries(kc)
  PROVE  Determined(insert_public_key(kc, k))
<1> DEFINE new == insert_public_key(kc, k)
           same == SameOperation(Entries(kc), k)
<1>1. /\ Entries(new) = Entries(kc) \cup {k}
      /\ Private(new) = Private(kc)
      /\ PublicOnly(new) = PublicOnly(kc) \cup {k}
      /\ new.is_default = IF same = {} THEN kc.is_default \cup {k} ELSE kc.is_default
  <2>1. PublicChange(kc, k, new)
    BY PublicInserted
  <2> QED
    BY <2>1 DEF PublicChange
<1>2. /\ Private(kc) \subseteq Entries(kc) /\ PublicOnly(kc) \subseteq Entries(kc)
      /\ kc.is_default \subseteq Entries(kc)
      /\ \A j \in Private(kc) : j \in kc.is_default <=> SameOperation(Private(kc), j) = {j}
  BY DEF Private, PublicOnly, Determined
<1>3. same = {j \in Entries(kc) : OperationOf(j) = OperationOf(k)}
  BY DEF SameOperation
<1> HIDE DEF new, same
<1>4. \A j \in Private(new) : j \in new.is_default <=> SameOperation(Private(new), j) = {j}
  BY <1>1, <1>2
<1>5. ASSUME NEW j \in PublicOnly(new) \cap new.is_default,
             NEW l \in PublicOnly(new) \cap new.is_default,
             OperationOf(j) = OperationOf(l)
      PROVE  j = l
  <2>1. CASE j = k \/ l = k
    BY <1>1, <1>2, <1>3, <1>5, <2>1
  <2>2. CASE j # k /\ l # k
    <3>1. j \in PublicOnly(kc) \cap kc.is_default /\ l \in PublicOnly(kc) \cap kc.is_default
      BY <1>1, <2>2
    <3> QED
      BY <1>5, <3>1 DEF Determined
  <2> QED
    BY <2>1, <2>2
<1>6. new.is_default \subseteq Entries(new)
  BY <1>1, <1>2
<1>7. Determined(new)
  BY <1>4, <1>5, <1>6 DEF Determined
<1> QED
  BY <1>7 DEF new

\* The loop body of the load and of the commands: an insertion, failed or not, keeps the
\* store well-formed and forgets and replaces nothing.
LEMMA EntryInserted ==
  ASSUME NEW kc \in KeyEntries, Determined(kc), NEW e \in SerializedKeyEntry,
         NEW new, new = insert_entry(kc, e)
  PROVE  /\ new \in KeyEntries /\ Determined(new)
         /\ Entries(new) = Entries(kc) \cup {e.key}
         /\ \A j \in Entries(kc) : kc.sk[j] # 0 => new.sk[j] = kc.sk[j]
         /\ \A j \in Entries(kc) \ {e.key} : new.sk[j] = kc.sk[j]
         /\ e.key \notin Entries(kc) => new.sk[e.key] = e.sk
<1>1. e.key \in Keys /\ e.sk \in 0..N
  BY DEF SerializedKeyEntry
<1>2. Private(kc) = {j \in Entries(kc) : kc.sk[j] # 0}
  BY DEF Private
<1>3. CASE e.sk # 0 /\ e.key \in Private(kc)
  <2>1. new = kc
    BY <1>3 DEF insert_entry, insert_private_key, DuplicatePrivate
  <2> QED
    BY <1>2, <1>3, <2>1
<1>4. CASE e.sk = 0 /\ e.key \in Entries(kc)
  <2>1. new = kc
    BY <1>4 DEF insert_entry, insert_public_key, DuplicatePublic
  <2> QED
    BY <1>4, <2>1
<1>5. CASE e.sk # 0 /\ e.key \notin Private(kc)
  <2>1. new = insert_private_key(kc, e.key, e.sk) /\ e.sk \in 1..N
    BY <1>1, <1>5, NodesAssumption DEF insert_entry
  <2>2. Determined(new)
    BY <1>1, <1>5, <2>1, PrivateDetermined
  <2>3. /\ new \in KeyEntries
        /\ Entries(new) = Entries(kc) \cup {e.key}
        /\ new.sk[e.key] = e.sk
        /\ \A j \in Entries(kc) \ {e.key} : new.sk[j] = kc.sk[j]
    <3>1. PrivateChange(kc, e.key, e.sk, new)
      BY <1>1, <1>5, <2>1, PrivateInserted
    <3> QED
      BY <3>1 DEF PrivateChange
  <2> QED
    BY <1>2, <1>5, <2>2, <2>3
<1>6. CASE e.sk = 0 /\ e.key \notin Entries(kc)
  <2>1. new = insert_public_key(kc, e.key)
    BY <1>6 DEF insert_entry
  <2>2. Determined(new)
    BY <1>1, <1>6, <2>1, PublicDetermined
  <2>3. /\ new \in KeyEntries
        /\ Entries(new) = Entries(kc) \cup {e.key}
        /\ new.sk[e.key] = 0
        /\ \A j \in Entries(kc) : new.sk[j] = kc.sk[j]
    <3>1. PublicChange(kc, e.key, new)
      BY <1>1, <1>6, <2>1, PublicInserted
    <3> QED
      BY <3>1 DEF PublicChange
  <2> QED
    BY <1>6, <2>2, <2>3
<1> QED
  BY <1>3, <1>4, <1>5, <1>6

\* In a store of shares only, the defaults follow from the set of keys.
LEMMA DefaultsOfShares ==
  ASSUME NEW kc, Determined(kc), PublicOnly(kc) = {}
  PROVE  kc.is_default = {k \in Entries(kc) : SameOperation(Entries(kc), k) = {k}}
<1>1. Private(kc) = Entries(kc)
  BY DEF PublicOnly, Private
<1>2. /\ kc.is_default \subseteq Entries(kc)
      /\ \A k \in Entries(kc) : k \in kc.is_default <=> SameOperation(Entries(kc), k) = {k}
  BY <1>1 DEF Determined
<1> QED
  BY <1>2

-----------------------------------------------------------------------------
(* Files.                                                                  *)

LEMMA EmptyFile ==
  /\ << >> \in Seq(SerializedKeyEntry) /\ DistinctKeys(<< >>)
  /\ \A kc : Kept(<< >>, Len(<< >>), kc)
  BY DEF DistinctKeys, Kept

\* A walk of a finite map is a sequence without repetitions.
LEMMA OrderIsSequence ==
  ASSUME NEW K, K \subseteq Keys, NEW o \in Orders(K)
  PROVE  /\ o \in Seq(K)
         /\ DOMAIN o = 1..Len(o)
         /\ \A i, j \in DOMAIN o : o[i] = o[j] => i = j
<1>1. IsFiniteSet(K)
  BY KeysAssumption, FS_Subset
<1>2. Cardinality(K) \in Nat
  BY <1>1, FS_CardinalityType
<1>3. /\ o \in [1..Cardinality(K) -> K]
      /\ \A i, j \in 1..Cardinality(K) : o[i] = o[j] => i = j
  BY Zenon DEF Orders, Bijection, Injection, IsInjective
<1> QED
  BY <1>2, <1>3

\* What to_file writes lists every key once.
LEMMA FileWritten ==
  ASSUME NEW kc \in KeyEntries, NEW content \in to_file(kc)
  PROVE  content \in Seq(SerializedKeyEntry) /\ DistinctKeys(content)
<1>1. PICK o \in Orders(Entries(kc)) :
        content = [i \in DOMAIN o |-> [key |-> o[i], sk |-> kc.sk[o[i]]]]
  BY DEF to_file
<1>2. Entries(kc) \subseteq Keys /\ kc.sk \in [Entries(kc) -> 0..N]
  BY EntriesByParts
<1>3. /\ o \in Seq(Entries(kc)) /\ DOMAIN o = 1..Len(o)
      /\ \A i, j \in DOMAIN o : o[i] = o[j] => i = j
  BY <1>2, OrderIsSequence
<1>4. \A i \in DOMAIN o : o[i] \in Entries(kc)
  BY <1>3
<1>5. \A i \in DOMAIN o : content[i] \in SerializedKeyEntry /\ content[i].key = o[i]
  BY <1>1, <1>2, <1>4 DEF SerializedKeyEntry
<1>6. content \in [1..Len(o) -> SerializedKeyEntry] /\ Len(o) \in Nat
  BY <1>1, <1>3, <1>5
<1>7. content \in Seq(SerializedKeyEntry)
  BY <1>6
<1>8. DistinctKeys(content)
  BY <1>1, <1>3, <1>5 DEF DistinctKeys
<1> QED
  BY <1>7, <1>8

LEMMA LoadBegins ==
  ASSUME NEW input \in Seq(SerializedKeyEntry)
  PROVE  Loading(input, 1, NoEntries)
  BY EmptyEntries DEF Loading, Kept

\* One entry more of the file is in the store.
LEMMA LoadContinues ==
  ASSUME NEW input \in Seq(SerializedKeyEntry), DistinctKeys(input),
         NEW pos \in Nat \ {0}, pos <= Len(input),
         NEW kc \in KeyEntries, Determined(kc), Loading(input, pos, kc)
  PROVE  Loading(input, pos + 1, insert_entry(kc, input[pos]))
<1> DEFINE e == input[pos]
           new == insert_entry(kc, e)
<1>1. pos \in DOMAIN input /\ e \in SerializedKeyEntry
  OBVIOUS
<1>2. e.key \in Keys /\ e = [key |-> e.key, sk |-> e.sk]
  BY <1>1 DEF SerializedKeyEntry
<1>3. \A k \in Entries(kc) : \E i \in DOMAIN input : i < pos /\ input[i] = [key |-> k, sk |-> kc.sk[k]]
  BY DEF Loading
<1>4. e.key \notin Entries(kc)
  <2>1. SUFFICES ASSUME e.key \in Entries(kc) PROVE FALSE
    OBVIOUS
  <2>2. PICK i \in DOMAIN input : i < pos /\ input[i] = [key |-> e.key, sk |-> kc.sk[e.key]]
    BY <1>3, <2>1
  <2> QED
    BY <1>1, <2>2 DEF DistinctKeys
<1> HIDE DEF e
<1>5. /\ Entries(new) = Entries(kc) \cup {e.key}
      /\ \A j \in Entries(kc) \ {e.key} : new.sk[j] = kc.sk[j]
      /\ new.sk[e.key] = e.sk
  BY <1>1, <1>4, EntryInserted
<1> HIDE DEF new
<1>6. Kept(input, pos, new)
  <2>1. SUFFICES ASSUME NEW i \in DOMAIN input, i <= pos
                 PROVE  /\ input[i].key \in Entries(new)
                        /\ input[i].sk # 0 => new.sk[input[i].key] = input[i].sk
    BY DEF Kept
  <2>2. CASE i = pos
    BY <1>5, <2>2 DEF e
  <2>3. CASE i # pos
    <3>1. i <= pos - 1
      BY <2>1, <2>3
    <3>2. /\ input[i].key \in Entries(kc)
          /\ input[i].sk # 0 => kc.sk[input[i].key] = input[i].sk
      BY <3>1 DEF Loading, Kept
    <3> QED
      BY <1>4, <1>5, <3>2
  <2> QED
    BY <2>2, <2>3
<1>7. ASSUME NEW k \in Entries(new)
      PROVE  \E i \in DOMAIN input : i < pos + 1 /\ input[i] = [key |-> k, sk |-> new.sk[k]]
  <2>1. CASE k = e.key
    BY <1>1, <1>2, <1>5, <2>1 DEF e
  <2>2. CASE k # e.key
    <3>1. k \in Entries(kc) /\ new.sk[k] = kc.sk[k]
      BY <1>5, <2>2
    <3>2. PICK i \in DOMAIN input : i < pos /\ input[i] = [key |-> k, sk |-> kc.sk[k]]
      BY <1>3, <3>1
    <3> QED
      BY <3>1, <3>2
  <2> QED
    BY <2>1, <2>2
<1>8. Loading(input, pos + 1, new)
  BY <1>6, <1>7 DEF Loading
<1> QED
  BY <1>8 DEF new, e

LEMMA LoadEnds ==
  ASSUME NEW input \in Seq(SerializedKeyEntry), NEW pos \in Nat \ {0}, ~(pos <= Len(input)),
         NEW kc, Loading(input, pos, kc)
  PROVE  Kept(input, Len(input), kc)
  BY DEF Loading, Kept

\* What a command inserts takes nothing of the file away.
LEMMA KeptByInsertion ==
  ASSUME NEW input \in Seq(SerializedKeyEntry), NEW m, NEW kc \in KeyEntries, Determined(kc),
         NEW e \in SerializedKeyEntry, Kept(input, m, kc)
  PROVE  Kept(input, m, insert_entry(kc, e))
<1> DEFINE new == insert_entry(kc, e)
<1>1. /\ Entries(new) = Entries(kc) \cup {e.key}
      /\ \A j \in Entries(kc) : kc.sk[j] # 0 => new.sk[j] = kc.sk[j]
  BY EntryInserted
<1> HIDE DEF new
<1>2. Kept(input, m, new)
  BY <1>1 DEF Kept
<1> QED
  BY <1>2 DEF new

-----------------------------------------------------------------------------
(* The inductive invariant, by the files, the command and the servers.     *)

Files == [state : {"absent", "torn", "ok"}, keys : Seq(SerializedKeyEntry)]

Commands ==
  [pc : Pcs, cmd : {"none", "keygen", "add", "fetch"}, new : BOOLEAN, node : Nodes,
   input : Seq(SerializedKeyEntry), pos : Nat \ {0}, kc : KeyEntries,
   fresh : SUBSET SerializedKeyEntry, todo : SUBSET SerializedKeyEntry]

Managers ==
  [pc : {"down", "load", "up"}, input : Seq(SerializedKeyEntry), pos : Nat \ {0}, kc : KeyEntries]

FileInv(f) == f \in Files /\ DistinctKeys(f.keys)

CliInv(c) ==
  /\ c \in Commands
  /\ Determined(c.kc)
  /\ DistinctKeys(c.input)
  /\ c.pc = "load" => Loading(c.input, c.pos, c.kc)
  /\ c.pc \in {"insert", "write"} => Kept(c.input, Len(c.input), c.kc)

SrvInv(s) ==
  /\ s \in Managers
  /\ Determined(s.kc)
  /\ DistinctKeys(s.input)
  /\ s.pc = "load" => Loading(s.input, s.pos, s.kc)

CountInv == commands \in 0..MaxCommands /\ generated \subseteq Keys

PartsInv ==
  /\ CountInv
  /\ DOMAIN disk = Nodes /\ disk = [n \in Nodes |-> disk[n]] /\ \A n \in Nodes : FileInv(disk[n])
  /\ CliInv(cli)
  /\ DOMAIN srv = Nodes /\ srv = [n \in Nodes |-> srv[n]] /\ \A n \in Nodes : SrvInv(srv[n])

LEMMA IInvByParts == IInv <=> PartsInv
<1>1. TypeOK <=> /\ CountInv
                 /\ disk \in [Nodes -> Files]
                 /\ cli \in Commands
                 /\ srv \in [Nodes -> Managers]
  BY Zenon DEF TypeOK, CountInv, Files, Commands, Managers
<1>2. disk \in [Nodes -> Files] <=>
        DOMAIN disk = Nodes /\ disk = [n \in Nodes |-> disk[n]] /\ \A n \in Nodes : disk[n] \in Files
  OBVIOUS
<1>3. srv \in [Nodes -> Managers] <=>
        DOMAIN srv = Nodes /\ srv = [n \in Nodes |-> srv[n]] /\ \A n \in Nodes : srv[n] \in Managers
  OBVIOUS
<1>4. DefaultsDetermined <=> Determined(cli.kc) /\ \A n \in Nodes : Determined(srv[n].kc)
  BY DEF DefaultsDetermined, Stores
<1> QED
  BY <1>1, <1>2, <1>3, <1>4, Zenon DEF IInv, PartsInv, FileInv, CliInv, SrvInv, LoadInv

LEMMA IdleInv == CliInv(Idle)
<1>1. Idle \in Commands
  <2>1. 1 \in Nodes
    BY NodesAssumption DEF Nodes
  <2> QED
    BY <2>1, EmptyEntries DEF Idle, Commands, Pcs
<1> QED
  BY <1>1, EmptyEntries, EmptyFile DEF Idle, CliInv

LEMMA CommandInv ==
  ASSUME NEW cmd \in {"keygen", "add", "fetch"}, NEW new \in BOOLEAN, NEW n \in Nodes,
         NEW fresh \in SUBSET SerializedKeyEntry
  PROVE  CliInv(Command(cmd, new, n, fresh))
<1> DEFINE c == Command(cmd, new, n, fresh)
<1>1. c \in Commands
  <2>1. << >> \in Seq(SerializedKeyEntry) /\ 1 \in Nat \ {0} /\ NoEntries \in KeyEntries
    BY EmptyEntries
  <2> QED
    BY <2>1 DEF Command, Commands, Pcs
<1>2. c.pc = "open" /\ c.input = << >> /\ c.kc = NoEntries
  BY DEF Command
<1> HIDE DEF c
<1>3. CliInv(c)
  BY <1>1, <1>2, EmptyEntries, EmptyFile DEF CliInv
<1> QED
  BY <1>3 DEF c

LEMMA ManagerInv ==
  ASSUME NEW pc \in {"down", "load"}, NEW input \in Seq(SerializedKeyEntry), DistinctKeys(input)
  PROVE  SrvInv([pc |-> pc, input |-> input, pos |-> 1, kc |-> NoEntries])
<1>1. [pc |-> pc, input |-> input, pos |-> 1, kc |-> NoEntries] \in Managers
  BY EmptyEntries DEF Managers
<1> QED
  BY <1>1, EmptyEntries, LoadBegins DEF SrvInv

LEMMA InitIInv == Init => IInv
<1> SUFFICES ASSUME Init PROVE PartsInv
  BY IInvByParts
<1>1. CountInv
  BY CommandsAssumption DEF Init, CountInv
<1>2. PICK o \in [Nodes -> Orders(generated)] :
        disk = [n \in Nodes |->
                 IF generated = {} THEN NoFile
                 ELSE [state |-> "ok",
                       keys |-> [i \in DOMAIN o[n] |-> [key |-> o[n][i], sk |-> n]]]]
  BY Zenon DEF Init
<1>3. ASSUME NEW n \in Nodes PROVE FileInv(disk[n])
  <2>1. CASE generated = {}
    <3>1. disk[n] = NoFile
      BY <1>2, <2>1
    <3> QED
      BY <3>1, EmptyFile DEF FileInv, Files, NoFile
  <2>2. CASE generated # {}
    <3> DEFINE keys == [i \in DOMAIN o[n] |-> [key |-> o[n][i], sk |-> n]]
    <3>1. disk[n] = [state |-> "ok", keys |-> keys]
      BY <1>2, <2>2
    <3>2. o[n] \in Orders(generated) /\ generated \subseteq Keys
      BY <1>1 DEF CountInv
    <3>3. /\ o[n] \in Seq(generated) /\ DOMAIN o[n] = 1..Len(o[n])
          /\ \A i, j \in DOMAIN o[n] : o[n][i] = o[n][j] => i = j
      BY <3>2, OrderIsSequence
    <3>4. n \in 0..N
      BY NodesAssumption DEF Nodes
    <3>5. \A i \in DOMAIN o[n] : keys[i] \in SerializedKeyEntry /\ keys[i].key = o[n][i]
      BY <3>2, <3>3, <3>4 DEF SerializedKeyEntry
    <3>6. keys \in [1..Len(o[n]) -> SerializedKeyEntry] /\ Len(o[n]) \in Nat
      BY <3>3, <3>5
    <3>7. DOMAIN keys = DOMAIN o[n]
      OBVIOUS
    <3> HIDE DEF keys
    <3>8. keys \in Seq(SerializedKeyEntry)
      BY <3>6
    <3>9. DistinctKeys(keys)
      BY <3>3, <3>5, <3>7 DEF DistinctKeys
    <3> QED
      BY <3>1, <3>8, <3>9 DEF FileInv, Files
  <2> QED
    BY <2>1, <2>2
<1>4. CliInv(cli)
  BY IdleInv DEF Init
<1>5. ASSUME NEW n \in Nodes PROVE SrvInv(srv[n])
  BY EmptyFile, ManagerInv, Zenon DEF Init
<1>6. DOMAIN disk = Nodes /\ disk = [n \in Nodes |-> disk[n]]
  BY <1>2
<1>7. DOMAIN srv = Nodes /\ srv = [n \in Nodes |-> srv[n]]
  BY DEF Init
<1> QED
  BY <1>1, <1>3, <1>4, <1>5, <1>6, <1>7 DEF PartsInv

-----------------------------------------------------------------------------
(* The steps.                                                              *)

LEMMA CliStep ==
  ASSUME PartsInv, CliInv(cli'), UNCHANGED <<disk, srv>>, CountInv'
  PROVE  PartsInv'
  BY DEF PartsInv

LEMMA FileStep ==
  ASSUME PartsInv, CliInv(cli'), UNCHANGED <<srv, commands, generated>>,
         NEW f, FileInv(f), disk' = [disk EXCEPT ![cli.node] = f]
  PROVE  PartsInv'
<1>1. \A n \in Nodes : FileInv(disk'[n])
  BY DEF PartsInv
<1>2. DOMAIN disk' = Nodes /\ disk' = [n \in Nodes |-> disk'[n]]
  BY DEF PartsInv
<1> QED
  BY <1>1, <1>2, Zenon DEF PartsInv, CountInv

LEMMA SrvStep ==
  ASSUME PartsInv, UNCHANGED <<disk, cli>>, CountInv',
         NEW n \in Nodes, NEW s, SrvInv(s), srv' = [srv EXCEPT ![n] = s]
  PROVE  PartsInv'
<1>1. \A m \in Nodes : SrvInv(srv'[m])
  BY DEF PartsInv
<1>2. DOMAIN srv' = Nodes /\ srv' = [m \in Nodes |-> srv'[m]]
  BY DEF PartsInv
<1> QED
  BY <1>1, <1>2, Zenon DEF PartsInv

LEMMA Started ==
  ASSUME PartsInv, Start, generated' \subseteq Keys
  PROVE  CountInv'
  BY CommandsAssumption DEF PartsInv, CountInv, Start

LEMMA NotStarted ==
  ASSUME PartsInv, UNCHANGED <<commands, generated>>
  PROVE  CountInv'
  BY DEF PartsInv, CountInv

LEMMA CliFields ==
  ASSUME PartsInv
  PROVE  /\ cli = [pc |-> cli.pc, cmd |-> cli.cmd, new |-> cli.new, node |-> cli.node,
                   input |-> cli.input, pos |-> cli.pos, kc |-> cli.kc,
                   fresh |-> cli.fresh, todo |-> cli.todo]
         /\ cli.node \in Nodes /\ cli.input \in Seq(SerializedKeyEntry) /\ cli.pos \in Nat \ {0}
         /\ cli.kc \in KeyEntries
         /\ cli.fresh \subseteq SerializedKeyEntry /\ cli.todo \subseteq SerializedKeyEntry
  BY DEF PartsInv, CliInv, Commands

LEMMA KeygenStep ==
  ASSUME PartsInv, NEW new \in BOOLEAN, NEW K \in SUBSET Keys, Keygen(new, K)
  PROVE  PartsInv'
<1>1. generated' \subseteq Keys
  BY DEF Keygen, PartsInv, CountInv
<1>2. CountInv'
  BY <1>1, Started DEF Keygen
<1>3. 1 \in Nodes /\ 1 \in 0..N
  BY NodesAssumption DEF Nodes
<1>4. {[key |-> k, sk |-> 1] : k \in K} \in SUBSET SerializedKeyEntry
  BY <1>3 DEF SerializedKeyEntry
<1>5. CliInv(cli')
  BY <1>3, <1>4, CommandInv, Zenon DEF Keygen
<1> QED
  BY <1>2, <1>5, CliStep DEF Keygen

LEMMA AddStep ==
  ASSUME PartsInv, NEW n \in Nodes, NEW k \in Keys, NEW i \in 0..N, Add(n, k, i)
  PROVE  PartsInv'
<1>1. generated' \subseteq Keys
  BY DEF Add, PartsInv, CountInv
<1>2. CountInv'
  BY <1>1, Started DEF Add
<1>3. {[key |-> k, sk |-> i]} \in SUBSET SerializedKeyEntry
  BY DEF SerializedKeyEntry
<1>4. CliInv(cli')
  BY <1>3, CommandInv, Zenon DEF Add
<1> QED
  BY <1>2, <1>4, CliStep DEF Add

LEMMA FetchStep ==
  ASSUME PartsInv, NEW new \in BOOLEAN, NEW n \in Nodes, NEW m \in Nodes, Fetch(new, n, m)
  PROVE  PartsInv'
<1>1. generated' \subseteq Keys
  BY DEF Fetch, PartsInv, CountInv
<1>2. CountInv'
  BY <1>1, Started DEF Fetch
<1>3. srv[m].kc \in KeyEntries
  BY DEF PartsInv, SrvInv, Managers
<1>4. Entries(srv[m].kc) \subseteq Keys /\ 0 \in 0..N
  BY <1>3, EntriesByParts, NodesAssumption
<1>5. {[key |-> k, sk |-> 0] : k \in Entries(srv[m].kc)} \in SUBSET SerializedKeyEntry
  BY <1>4 DEF SerializedKeyEntry
<1>6. CliInv(cli')
  BY <1>5, CommandInv, Zenon DEF Fetch
<1> QED
  BY <1>2, <1>6, CliStep DEF Fetch

LEMMA OpenStep ==
  ASSUME PartsInv, Open
  PROVE  PartsInv'
<1>1. CountInv'
  BY NotStarted DEF Open
<1>2. CliInv(cli')
  <2>1. CASE ~cli.new /\ disk[cli.node].state = "ok"
    <3>1. cli' = [cli EXCEPT !.pc = "load", !.input = disk[cli.node].keys, !.pos = 1,
                             !.kc = NoEntries, !.todo = cli.fresh]
      BY <2>1, Zenon DEF Open
    <3>2. disk[cli.node].keys \in Seq(SerializedKeyEntry) /\ DistinctKeys(disk[cli.node].keys)
      BY CliFields DEF PartsInv, FileInv, Files
    <3>3. /\ cli' \in Commands
          /\ cli'.pc = "load" /\ cli'.input = disk[cli.node].keys /\ cli'.pos = 1 /\ cli'.kc = NoEntries
      <4>1. cli \in Commands /\ cli.fresh \in SUBSET SerializedKeyEntry
        BY CliFields DEF PartsInv, CliInv
      <4>2. "load" \in Pcs /\ 1 \in Nat \ {0} /\ NoEntries \in KeyEntries
        BY EmptyEntries DEF Pcs
      <4> QED
        BY <3>1, <3>2, <4>1, <4>2, ZenonT(60) DEF Commands
    <3> QED
      BY <3>2, <3>3, EmptyEntries, LoadBegins DEF CliInv
  <2>2. CASE ~(~cli.new /\ disk[cli.node].state = "ok") /\ (cli.new \/ cli.cmd = "keygen")
    <3>1. cli' = [cli EXCEPT !.pc = "insert", !.input = << >>, !.pos = 1,
                             !.kc = NoEntries, !.todo = cli.fresh]
      BY <2>2, Zenon DEF Open
    <3>2. cli' \in Commands /\ cli'.pc = "insert" /\ cli'.input = << >> /\ cli'.kc = NoEntries
      <4>1. cli \in Commands /\ cli.fresh \in SUBSET SerializedKeyEntry
        BY CliFields DEF PartsInv, CliInv
      <4>2. /\ "insert" \in Pcs /\ 1 \in Nat \ {0} /\ NoEntries \in KeyEntries
            /\ << >> \in Seq(SerializedKeyEntry)
        BY EmptyEntries DEF Pcs
      <4> QED
        BY <3>1, <4>1, <4>2, Zenon DEF Commands
    <3> QED
      BY <3>2, EmptyEntries, EmptyFile DEF CliInv
  <2>3. CASE ~(~cli.new /\ disk[cli.node].state = "ok") /\ ~(cli.new \/ cli.cmd = "keygen")
    <3>1. cli' = Idle
      BY <2>3, Zenon DEF Open
    <3> QED
      BY <3>1, IdleInv
  <2> QED
    BY <2>1, <2>2, <2>3
<1> QED
  BY <1>1, <1>2, CliStep DEF Open

LEMMA LoadNextStep ==
  ASSUME PartsInv, LoadNext
  PROVE  PartsInv'
<1>1. CountInv'
  BY NotStarted DEF LoadNext
<1>2. /\ cli.input \in Seq(SerializedKeyEntry) /\ cli.pos \in Nat \ {0} /\ cli.kc \in KeyEntries
      /\ DistinctKeys(cli.input) /\ Determined(cli.kc) /\ Loading(cli.input, cli.pos, cli.kc)
      /\ cli \in Commands
  BY CliFields DEF LoadNext, PartsInv, CliInv
<1>3. CliInv(cli')
  <2>1. CASE cli.pos <= Len(cli.input)
    <3> DEFINE new == insert_entry(cli.kc, cli.input[cli.pos])
    <3>1. cli' = [cli EXCEPT !.kc = new, !.pos = @ + 1] /\ cli.pc = "load"
      BY <2>1 DEF LoadNext
    <3>2. cli.input[cli.pos] \in SerializedKeyEntry
      BY <1>2, <2>1
    <3>3. new \in KeyEntries /\ Determined(new)
      BY <1>2, <3>2, EntryInserted
    <3>4. Loading(cli.input, cli.pos + 1, new)
      BY <1>2, <2>1, LoadContinues
    <3> HIDE DEF new
    <3>5. /\ cli' \in Commands /\ cli'.pc = "load"
          /\ cli'.input = cli.input /\ cli'.pos = cli.pos + 1 /\ cli'.kc = new
      <4>1. cli.pos + 1 \in Nat \ {0}
        BY <1>2
      <4> QED
        BY <1>2, <3>1, <3>3, <4>1, Zenon DEF Commands
    <3> QED
      BY <1>2, <3>3, <3>4, <3>5 DEF CliInv
  <2>2. CASE ~(cli.pos <= Len(cli.input))
    <3>1. cli' = [cli EXCEPT !.pc = "insert"]
      BY <2>2 DEF LoadNext
    <3>2. cli' \in Commands /\ cli'.pc = "insert" /\ cli'.input = cli.input /\ cli'.kc = cli.kc
      BY <1>2, <3>1 DEF Commands, Pcs
    <3>3. Kept(cli.input, Len(cli.input), cli.kc)
      BY <1>2, <2>2, LoadEnds
    <3> QED
      BY <1>2, <3>2, <3>3 DEF CliInv
  <2> QED
    BY <2>1, <2>2
<1> QED
  BY <1>1, <1>3, CliStep DEF LoadNext

LEMMA InsertNextStep ==
  ASSUME PartsInv, NEW e \in cli.todo, InsertNext(e)
  PROVE  PartsInv'
<1>1. CountInv'
  BY NotStarted DEF InsertNext
<1>2. /\ cli.input \in Seq(SerializedKeyEntry) /\ cli.kc \in KeyEntries /\ e \in SerializedKeyEntry
      /\ DistinctKeys(cli.input) /\ Determined(cli.kc) /\ Kept(cli.input, Len(cli.input), cli.kc)
      /\ cli \in Commands /\ cli.pc = "insert"
  BY CliFields DEF InsertNext, PartsInv, CliInv
<1>3. CliInv(cli')
  <2>1. CASE cli.cmd = "add" /\ Rejected(cli.kc, e)
    <3>1. cli' = Idle
      BY <2>1, Zenon DEF InsertNext
    <3> QED
      BY <3>1, IdleInv
  <2>2. CASE ~(cli.cmd = "add" /\ Rejected(cli.kc, e))
    <3> DEFINE new == insert_entry(cli.kc, e)
    <3>1. cli' = [cli EXCEPT !.kc = new, !.todo = @ \ {e}]
      BY <2>2 DEF InsertNext
    <3>2. new \in KeyEntries /\ Determined(new)
      BY <1>2, EntryInserted
    <3>3. Kept(cli.input, Len(cli.input), new)
      BY <1>2, KeptByInsertion
    <3> HIDE DEF new
    <3>4. cli' \in Commands /\ cli'.pc = "insert" /\ cli'.input = cli.input /\ cli'.kc = new
      BY <1>2, <3>1, <3>2, Zenon DEF Commands
    <3> QED
      BY <1>2, <3>2, <3>3, <3>4 DEF CliInv
  <2> QED
    BY <2>1, <2>2
<1> QED
  BY <1>1, <1>3, CliStep DEF InsertNext

LEMMA TruncateStep ==
  ASSUME PartsInv, Truncate
  PROVE  PartsInv'
<1>1. /\ cli \in Commands /\ cli.pc = "insert" /\ Determined(cli.kc) /\ DistinctKeys(cli.input)
      /\ Kept(cli.input, Len(cli.input), cli.kc)
  BY DEF Truncate, PartsInv, CliInv
<1>2. cli' = [cli EXCEPT !.pc = "write"] /\ "write" \in Pcs
  BY DEF Truncate, Pcs
<1>3. cli' \in Commands /\ cli'.pc = "write" /\ cli'.input = cli.input /\ cli'.kc = cli.kc
  BY <1>1, <1>2, Zenon DEF Commands
<1>4. CliInv(cli')
  BY <1>1, <1>3 DEF CliInv
<1>5. FileInv([state |-> "torn", keys |-> << >>])
  BY EmptyFile DEF FileInv, Files
<1> QED
  BY <1>4, <1>5, FileStep, Zenon DEF Truncate

LEMMA ContinueStep ==
  ASSUME PartsInv, Continue
  PROVE  CliInv(cli')
<1>1. CASE cli.cmd = "keygen" /\ cli.node < N
  <2> DEFINE fresh == {[key |-> e.key, sk |-> cli.node + 1] : e \in cli.fresh}
  <2>1. cli' = [cli EXCEPT !.pc = "open", !.node = @ + 1, !.fresh = fresh]
    BY <1>1, Zenon DEF Continue
  <2>2. cli \in Commands /\ Determined(cli.kc) /\ DistinctKeys(cli.input)
    BY DEF PartsInv, CliInv
  <2>3. cli.node + 1 \in Nodes /\ cli.node + 1 \in 0..N
    BY <1>1, CliFields, NodesAssumption DEF Nodes
  <2>4. fresh \in SUBSET SerializedKeyEntry
    BY <2>3, CliFields DEF SerializedKeyEntry
  <2>5. "open" \in Pcs
    BY DEF Pcs
  <2> HIDE DEF fresh
  <2>6. cli' \in Commands /\ cli'.pc = "open" /\ cli'.input = cli.input /\ cli'.kc = cli.kc
    BY <2>1, <2>2, <2>3, <2>4, <2>5, Zenon DEF Commands
  <2> QED
    BY <2>2, <2>6 DEF CliInv
<1>2. CASE ~(cli.cmd = "keygen" /\ cli.node < N)
  BY <1>2, IdleInv, Zenon DEF Continue
<1> QED
  BY <1>1, <1>2

LEMMA WriteStep ==
  ASSUME PartsInv, NEW content, Write(content)
  PROVE  PartsInv'
<1>1. CliInv(cli')
  BY ContinueStep DEF Write
<1>2. content \in Seq(SerializedKeyEntry) /\ DistinctKeys(content)
  BY CliFields, FileWritten DEF Write
<1>3. FileInv([state |-> "ok", keys |-> content])
  BY <1>2 DEF FileInv, Files
<1> QED
  BY <1>1, <1>3, FileStep, Zenon DEF Write

LEMMA QuietStep ==
  ASSUME PartsInv, WriteFails \/ Killed
  PROVE  PartsInv'
<1>1. CountInv'
  BY NotStarted DEF WriteFails, Killed
<1>2. CliInv(cli')
  BY ContinueStep, IdleInv DEF WriteFails, Killed
<1> QED
  BY <1>1, <1>2, CliStep DEF WriteFails, Killed

LEMMA StartServerStep ==
  ASSUME PartsInv, NEW n \in Nodes, StartServer(n)
  PROVE  PartsInv'
<1>1. generated' \subseteq Keys
  BY DEF StartServer, PartsInv, CountInv
<1>2. CountInv'
  BY <1>1, Started DEF StartServer
<1>3. disk[n].keys \in Seq(SerializedKeyEntry) /\ DistinctKeys(disk[n].keys)
  BY DEF PartsInv, FileInv, Files
<1>4. SrvInv([pc |-> "load", input |-> disk[n].keys, pos |-> 1, kc |-> NoEntries])
  BY <1>3, ManagerInv
<1> QED
  BY <1>2, <1>4, SrvStep, Zenon DEF StartServer

LEMMA ServerLoadsStep ==
  ASSUME PartsInv, NEW n \in Nodes, ServerLoads(n)
  PROVE  PartsInv'
<1> DEFINE s == srv[n]
<1>1. CountInv'
  BY NotStarted DEF ServerLoads
<1>2. /\ s \in Managers /\ s.pc = "load" /\ s.input \in Seq(SerializedKeyEntry)
      /\ s.pos \in Nat \ {0} /\ s.kc \in KeyEntries
      /\ DistinctKeys(s.input) /\ Determined(s.kc) /\ Loading(s.input, s.pos, s.kc)
  BY DEF ServerLoads, PartsInv, SrvInv, Managers
<1>3. DOMAIN srv = Nodes
  BY DEF PartsInv
<1>4. CASE s.pos <= Len(s.input)
  <2> DEFINE new == insert_entry(s.kc, s.input[s.pos])
             t == [s EXCEPT !.kc = new, !.pos = @ + 1]
  <2>1. srv' = [srv EXCEPT ![n] = t]
    BY <1>3, <1>4, ZenonT(60) DEF ServerLoads
  <2>2. s.input[s.pos] \in SerializedKeyEntry
    BY <1>2, <1>4
  <2>3. new \in KeyEntries /\ Determined(new)
    BY <1>2, <2>2, EntryInserted
  <2>4. Loading(s.input, s.pos + 1, new)
    BY <1>2, <1>4, LoadContinues
  <2>5. s.pos + 1 \in Nat \ {0}
    BY <1>2
  <2> HIDE DEF new, s
  <2>6. t \in Managers /\ t.pc = "load" /\ t.input = s.input /\ t.pos = s.pos + 1 /\ t.kc = new
    BY <1>2, <2>3, <2>5, ZenonT(60) DEF Managers
  <2> HIDE DEF t
  <2>7. SrvInv(t)
    BY <1>2, <2>3, <2>4, <2>6 DEF SrvInv
  <2>8. UNCHANGED <<disk, cli>>
    BY DEF ServerLoads
  <2> QED
    BY <1>1, <2>1, <2>7, <2>8, SrvStep, ZenonT(60)
<1>5. CASE ~(s.pos <= Len(s.input))
  <2> DEFINE t == [s EXCEPT !.pc = "up", !.input = << >>, !.pos = 1]
  <2>1. srv' = [srv EXCEPT ![n] = t]
    BY <1>3, <1>5, ZenonT(60) DEF ServerLoads
  <2>2. t \in Managers /\ t.pc = "up" /\ t.input = << >> /\ t.kc = s.kc
    <3>1. "up" \in {"down", "load", "up"} /\ << >> \in Seq(SerializedKeyEntry) /\ 1 \in Nat \ {0}
      OBVIOUS
    <3> HIDE DEF s
    <3> QED
      BY <1>2, <3>1, ZenonT(60) DEF Managers
  <2> HIDE DEF t
  <2>3. SrvInv(t)
    BY <1>2, <2>2, EmptyFile DEF SrvInv
  <2>4. UNCHANGED <<disk, cli>>
    BY DEF ServerLoads
  <2> QED
    BY <1>1, <2>1, <2>3, <2>4, SrvStep, Zenon
<1> QED
  BY <1>4, <1>5

LEMMA StopServerStep ==
  ASSUME PartsInv, NEW n \in Nodes, StopServer(n)
  PROVE  PartsInv'
<1>1. CountInv'
  BY NotStarted DEF StopServer
<1>2. SrvInv([pc |-> "down", input |-> << >>, pos |-> 1, kc |-> NoEntries])
  BY EmptyFile, ManagerInv, Zenon
<1> QED
  BY <1>1, <1>2, SrvStep, Zenon DEF StopServer

-----------------------------------------------------------------------------
(* The theorems.                                                           *)

\* The flags, files and loads stay well-formed whatever commands run, are killed or fail to
\* write, and whenever servers start: IInv holds for any number of keys and nodes.
THEOREM KeyStoreInvariant == Spec => []IInv
<1>1. Init => IInv
  BY InitIInv
<1>2. IInv /\ [Next]_vars => IInv'
  <2> SUFFICES ASSUME PartsInv, [Next]_vars PROVE PartsInv'
    BY IInvByParts, PTL
  <2>1. ASSUME NEW new \in BOOLEAN, NEW K \in SUBSET Keys \ {{}}, Keygen(new, K) PROVE PartsInv'
    BY <2>1, KeygenStep
  <2>2. ASSUME NEW n \in Nodes, NEW k \in Keys, NEW i \in 0..N, Add(n, k, i) PROVE PartsInv'
    BY <2>2, AddStep
  <2>3. ASSUME NEW new \in BOOLEAN, NEW n \in Nodes, NEW m \in Nodes, Fetch(new, n, m) PROVE PartsInv'
    BY <2>3, FetchStep
  <2>4. CASE Open
    BY <2>4, OpenStep
  <2>5. CASE LoadNext
    BY <2>5, LoadNextStep
  <2>6. ASSUME NEW e \in cli.todo, InsertNext(e) PROVE PartsInv'
    BY <2>6, InsertNextStep
  <2>7. CASE Truncate
    BY <2>7, TruncateStep
  <2>8. ASSUME NEW content \in to_file(cli.kc), Write(content) PROVE PartsInv'
    BY <2>8, WriteStep
  <2>9. CASE WriteFails \/ Killed
    BY <2>9, QuietStep
  <2>10. ASSUME NEW n \in Nodes, StartServer(n) \/ ServerLoads(n) \/ StopServer(n) PROVE PartsInv'
    BY <2>10, StartServerStep, ServerLoadsStep, StopServerStep
  <2>11. CASE UNCHANGED vars
    BY <2>11, Zenon DEF vars, PartsInv, CountInv
  <2> QED
    BY <2>1, <2>2, <2>3, <2>4, <2>5, <2>6, <2>7, <2>8, <2>9, <2>10, <2>11, ZenonT(60) DEF Next
<1> QED
  BY <1>1, <1>2, PTL DEF Spec

\* A share is the default of its operation exactly if it is the only share of that operation,
\* in every store that insert_private_key and insert_public_key can build.
THEOREM FlagsDetermined == Spec => []DefaultsDetermined
<1>1. IInv => DefaultsDetermined
  BY DEF IInv
<1> QED
  BY <1>1, KeyStoreInvariant, PTL

\* A load takes over every key of the file with its share, a server has nothing else, and no
\* insertion of a command takes a loaded share away.
THEOREM NoShareLost == Spec => []LoadedKept
<1>1. IInv => LoadedKept
  <2> SUFFICES ASSUME PartsInv PROVE LoadedKept
    BY IInvByParts
  <2>1. cli.pc \in {"insert", "write"} => Kept(cli.input, Len(cli.input), cli.kc)
    BY DEF PartsInv, CliInv
  <2>2. ASSUME NEW n \in Nodes, srv[n].pc = "load", srv[n].pos > Len(srv[n].input)
        PROVE  /\ Kept(srv[n].input, Len(srv[n].input), srv[n].kc)
               /\ \A k \in Entries(srv[n].kc) : \E i \in DOMAIN srv[n].input :
                    srv[n].input[i] = [key |-> k, sk |-> srv[n].kc.sk[k]]
    <3>1. /\ Loading(srv[n].input, srv[n].pos, srv[n].kc) /\ srv[n].input \in Seq(SerializedKeyEntry)
          /\ srv[n].pos \in Nat \ {0}
      BY <2>2 DEF PartsInv, SrvInv, Managers
    <3>2. ~(srv[n].pos <= Len(srv[n].input))
      BY <2>2, <3>1
    <3>3. Kept(srv[n].input, Len(srv[n].input), srv[n].kc)
      BY <3>1, <3>2, LoadEnds
    <3> QED
      BY <3>1, <3>3 DEF Loading
  <2> QED
    BY <2>1, <2>2 DEF LoadedKept
<1> QED
  BY <1>1, KeyStoreInvariant, PTL

\* Servers that hold shares of the same keys answer get_key_by_scheme_and_group alike, in
\* whatever orders their files list the keys.
THEOREM ServersAgreeOnKey == Spec => []AgreeOnKey
<1>1. IInv => AgreeOnKey
  <2> SUFFICES ASSUME PartsInv, NEW m \in Nodes, NEW n \in Nodes,
                      Entries(srv[m].kc) = Entries(srv[n].kc),
                      PublicOnly(srv[m].kc) = {}, PublicOnly(srv[n].kc) = {},
                      NEW kind \in Kinds
               PROVE  get_key_by_scheme_and_group(srv[m].kc, kind)
                        = get_key_by_scheme_and_group(srv[n].kc, kind)
    BY IInvByParts, Zenon DEF AgreeOnKey
  <2>1. Determined(srv[m].kc) /\ Determined(srv[n].kc)
    BY DEF PartsInv, SrvInv
  <2>2. srv[m].kc.is_default = srv[n].kc.is_default
    BY <2>1, DefaultsOfShares, Zenon
  <2> QED
    BY <2>2, Zenon DEF get_key_by_scheme_and_group, matching_key_entries, default_key_entries
<1> QED
  BY <1>1, KeyStoreInvariant, PTL
=============================================================================
