------------------------------ MODULE KeyStore ------------------------------
(***************************************************************************)
(* The key stores of a deployment: the key-store file of every node, the   *)
(* operator's quorumcli, which reads, extends and rewrites the files, and  *)
(* the key managers of the servers, which load them at start and answer    *)
(* key lookups.  The operator runs one command at a time; a command may be *)
(* killed at any point and a write may fail, and either may leave a file   *)
(* that cannot be read.                                                    *)
(*                                                                         *)
(* The id of a key is the hash of its content, computed where the key is   *)
(* built or decoded, so a key stands for its own id and IdMismatch cannot  *)
(* occur.  A key share is its index; 0 stands for an entry without one.    *)
(* The entries of a file are those that to_file wrote, and decode.         *)
(***************************************************************************)
EXTENDS Integers, Sequences, FiniteSets, Functions

CONSTANTS
  Keys,       \* the public keys there may be
  Kinds,      \* pairs of a scheme and a group
  Kind,       \* the scheme and group of a key
  Operation,  \* get_operation() of a kind: encryption, signature or coin
  N,          \* the number of nodes; node i owns the file and the shares i
  MaxCommands \* bound: how many commands and servers the operator starts

ASSUME NodesAssumption == N \in Nat \ {0}
ASSUME KindAssumption == Kind \in [Keys -> Kinds]
ASSUME OperationAssumption == DOMAIN Operation = Kinds
ASSUME KeysAssumption == IsFiniteSet(Keys)
ASSUME CommandsAssumption == MaxCommands \in Nat

VARIABLES
  commands,   \* how many commands and servers were started
  generated,  \* keys that keygen has made
  disk,       \* the key-store files
  cli,        \* the quorumcli command that is running
  srv         \* the key manager of every server

vars == <<commands, generated, disk, cli, srv>>

Nodes == 1..N

OperationOf(k) == Operation[Kind[k]]

\* A SerializedKeyEntry; key_type is "secret" exactly if there is a share.
SerializedKeyEntry == [key : Keys, sk : 0..N]

\* KeyStore.key_entries: the share of every entry, and the entries with is_default set.
KeyEntries == [sk : UNION {[D -> 0..N] : D \in SUBSET Keys}, is_default : SUBSET Keys]

NoEntries == [sk |-> [k \in {} |-> 0], is_default |-> {}]

Entries(kc) == DOMAIN kc.sk

Private(kc) == {k \in Entries(kc) : kc.sk[k] # 0}

PublicOnly(kc) == Entries(kc) \ Private(kc)

\* HashMap::insert.
insert(map, k, i) == [j \in DOMAIN map \cup {k} |-> IF j = k THEN i ELSE map[j]]

\* The orders in which a HashMap may be walked.
Orders(K) == Bijection(1..Cardinality(K), K)

SameOperation(K, k) == {j \in K : OperationOf(j) = OperationOf(k)}

-----------------------------------------------------------------------------
(* The operations of KeyStore.  An insertion that returns Err leaves the   *)
(* entries as they are.                                                    *)

\* DuplicatePrivate without its test: a second share of a key replaces the first.
DuplicateNever(kc, k) == FALSE

DuplicatePrivate(kc, k) == k \in Private(kc)

DuplicatePublic(kc, k) == k \in Entries(kc)

\* insert_private_key without the loop that clears the other defaults.
InsertKeepsDefault(kc, k, i) ==
  IF DuplicatePrivate(kc, k) THEN kc
  ELSE [sk |-> insert(kc.sk, k, i),
        is_default |-> IF SameOperation(Private(kc), k) = {} THEN kc.is_default \cup {k}
                       ELSE kc.is_default \ {k}]

insert_private_key(kc, k, i) ==
  LET matching_keys == SameOperation(Private(kc), k)
  IN  IF DuplicatePrivate(kc, k) THEN kc
      ELSE [sk |-> insert(kc.sk, k, i),
            is_default |-> IF matching_keys = {} THEN kc.is_default \cup {k}
                           ELSE kc.is_default \ (matching_keys \cup {k})]

\* insert_public_key without looking for other keys of the operation.
InsertAsDefault(kc, k) ==
  IF DuplicatePublic(kc, k) THEN kc
  ELSE [sk |-> insert(kc.sk, k, 0), is_default |-> kc.is_default \cup {k}]

insert_public_key(kc, k) ==
  IF DuplicatePublic(kc, k) THEN kc
  ELSE [sk |-> insert(kc.sk, k, 0),
        is_default |-> IF SameOperation(Entries(kc), k) = {} THEN kc.is_default \cup {k}
                       ELSE kc.is_default]

\* The body of the loop of From<Vec<SerializedKeyEntry>>.
insert_entry(kc, e) ==
  IF e.sk # 0 THEN insert_private_key(kc, e.key, e.sk) ELSE insert_public_key(kc, e.key)

Rejected(kc, e) ==
  IF e.sk # 0 THEN DuplicatePrivate(kc, e.key) ELSE DuplicatePublic(kc, e.key)

\* What to_file may write: the HashMap is walked in any order and is_default is dropped.
to_file(kc) == {[i \in DOMAIN o |-> [key |-> o[i], sk |-> kc.sk[o[i]]]] : o \in Orders(Entries(kc))}

matching_key_entries(kc, kind) == {k \in Entries(kc) : Kind[k] = kind}

default_key_entries(kc, kind) == matching_key_entries(kc, kind) \cap kc.is_default

\* The keys the lookup may return; none is an error, and so are two.
get_key_by_scheme_and_group(kc, kind) ==
  IF Cardinality(matching_key_entries(kc, kind)) <= 1
  THEN matching_key_entries(kc, kind)
  ELSE IF Cardinality(default_key_entries(kc, kind)) = 1 THEN default_key_entries(kc, kind) ELSE {}

-----------------------------------------------------------------------------
(* quorumcli.  todo holds the keys still to be inserted, input what the    *)
(* command read from the file and pos how much of it is in kc already.     *)

Pcs == {"idle", "open", "load", "insert", "write"}

Idle ==
  [pc |-> "idle", cmd |-> "none", new |-> FALSE, node |-> 1, input |-> << >>, pos |-> 1,
   kc |-> NoEntries, fresh |-> {}, todo |-> {}]

Command(cmd, new, node, fresh) ==
  [pc |-> "open", cmd |-> cmd, new |-> new, node |-> node, input |-> << >>, pos |-> 1,
   kc |-> NoEntries, fresh |-> fresh, todo |-> {}]

OnePerKind(K) == \A j, k \in K : Kind[j] = Kind[k] => j = k

NoFile == [state |-> "absent", keys |-> << >>]

\* No files, or those that an earlier keygen left.
Init ==
  /\ commands = 0
  /\ generated \in {K \in SUBSET Keys : OnePerKind(K)}
  /\ \E o \in [Nodes -> Orders(generated)] :
       disk = [n \in Nodes |->
                IF generated = {} THEN NoFile
                ELSE [state |-> "ok",
                      keys |-> [i \in DOMAIN o[n] |-> [key |-> o[n][i], sk |-> n]]]]
  /\ cli = Idle
  /\ srv = [n \in Nodes |-> [pc |-> "down", input |-> << >>, pos |-> 1, kc |-> NoEntries]]

Start ==
  /\ commands < MaxCommands
  /\ commands' = commands + 1

\* keygen makes at most one key of a kind; the shares go to the files of all nodes, one
\* after the other.
Keygen(new, K) ==
  /\ Start
  /\ cli.pc = "idle"
  /\ OnePerKind(K)
  /\ K \cap generated = {}
  /\ generated' = generated \cup K
  /\ cli' = Command("keygen", new, 1, {[key |-> k, sk |-> 1] : k \in K})
  /\ UNCHANGED <<disk, srv>>

\* keystore add: a public key or a share that keygen made goes to one file.
Add(n, k, i) ==
  /\ Start
  /\ cli.pc = "idle"
  /\ k \in generated
  /\ cli' = Command("add", FALSE, n, {[key |-> k, sk |-> i]})
  /\ UNCHANGED <<generated, disk, srv>>

\* keystore fetch: the public keys of a server go to one file.
Fetch(new, n, m) ==
  /\ Start
  /\ cli.pc = "idle"
  /\ srv[m].pc = "up"
  /\ cli' = Command("fetch", new, n, {[key |-> k, sk |-> 0] : k \in Entries(srv[m].kc)})
  /\ UNCHANGED <<generated, disk, srv>>

\* KeyStore::load or from_file: keygen goes on with an empty store if it fails, the
\* other commands give up.
Open ==
  /\ cli.pc = "open"
  /\ IF ~cli.new /\ disk[cli.node].state = "ok"
     THEN cli' = [cli EXCEPT !.pc = "load", !.input = disk[cli.node].keys, !.pos = 1,
                             !.kc = NoEntries, !.todo = cli.fresh]
     ELSE IF cli.new \/ cli.cmd = "keygen"
     THEN cli' = [cli EXCEPT !.pc = "insert", !.input = << >>, !.pos = 1,
                             !.kc = NoEntries, !.todo = cli.fresh]
     ELSE cli' = Idle
  /\ UNCHANGED <<commands, generated, disk, srv>>

LoadNext ==
  /\ cli.pc = "load"
  /\ IF cli.pos <= Len(cli.input)
     THEN cli' = [cli EXCEPT !.kc = insert_entry(cli.kc, cli.input[cli.pos]), !.pos = @ + 1]
     ELSE cli' = [cli EXCEPT !.pc = "insert"]
  /\ UNCHANGED <<commands, generated, disk, srv>>

\* An insertion that fails ends add, while keygen and import_public_keys go on.
InsertNext(e) ==
  /\ cli.pc = "insert"
  /\ e \in cli.todo
  /\ IF cli.cmd = "add" /\ Rejected(cli.kc, e)
     THEN cli' = Idle
     ELSE cli' = [cli EXCEPT !.kc = insert_entry(cli.kc, e), !.todo = @ \ {e}]
  /\ UNCHANGED <<commands, generated, disk, srv>>

\* fs::write empties the file before it writes.
Truncate ==
  /\ cli.pc = "insert"
  /\ cli.todo = {}
  /\ disk' = [disk EXCEPT ![cli.node] = [state |-> "torn", keys |-> << >>]]
  /\ cli' = [cli EXCEPT !.pc = "write"]
  /\ UNCHANGED <<commands, generated, srv>>

\* keygen turns to the next node, whether to_file succeeded or not.
Continue ==
  cli' = IF cli.cmd = "keygen" /\ cli.node < N
         THEN [cli EXCEPT !.pc = "open", !.node = @ + 1,
                          !.fresh = {[key |-> e.key, sk |-> cli.node + 1] : e \in @}]
         ELSE Idle

Write(content) ==
  /\ cli.pc = "write"
  /\ content \in to_file(cli.kc)
  /\ disk' = [disk EXCEPT ![cli.node] = [state |-> "ok", keys |-> content]]
  /\ Continue
  /\ UNCHANGED <<commands, generated, srv>>

\* to_file returns Err: before the file is emptied, when it cannot be opened, or after.
WriteFails ==
  /\ cli.pc = "write" \/ (cli.pc = "insert" /\ cli.todo = {})
  /\ Continue
  /\ UNCHANGED <<commands, generated, disk, srv>>

Killed ==
  /\ cli.pc # "idle"
  /\ cli' = Idle
  /\ UNCHANGED <<commands, generated, disk, srv>>

-----------------------------------------------------------------------------
(* Servers.                                                                *)

\* KeyManager::new: a file that cannot be read leaves the store empty.
StartServer(n) ==
  /\ Start
  /\ srv[n].pc = "down"
  /\ srv' = [srv EXCEPT ![n] = [pc |-> "load", input |-> disk[n].keys, pos |-> 1, kc |-> NoEntries]]
  /\ UNCHANGED <<generated, disk, cli>>

ServerLoads(n) ==
  /\ srv[n].pc = "load"
  /\ srv' = IF srv[n].pos <= Len(srv[n].input)
            THEN [srv EXCEPT ![n].kc = insert_entry(srv[n].kc, srv[n].input[srv[n].pos]),
                             ![n].pos = @ + 1]
            ELSE [srv EXCEPT ![n].pc = "up", ![n].input = << >>, ![n].pos = 1]
  /\ UNCHANGED <<commands, generated, disk, cli>>

StopServer(n) ==
  /\ srv[n].pc # "down"
  /\ srv' = [srv EXCEPT ![n] = [pc |-> "down", input |-> << >>, pos |-> 1, kc |-> NoEntries]]
  /\ UNCHANGED <<commands, generated, disk, cli>>

Next ==
  \/ \E new \in BOOLEAN, K \in SUBSET Keys \ {{}} : Keygen(new, K)
  \/ \E n \in Nodes, k \in Keys, i \in 0..N : Add(n, k, i)
  \/ \E new \in BOOLEAN, n, m \in Nodes : Fetch(new, n, m)
  \/ Open
  \/ LoadNext
  \/ \E e \in cli.todo : InsertNext(e)
  \/ Truncate
  \/ \E content \in to_file(cli.kc) : Write(content)
  \/ WriteFails
  \/ Killed
  \/ \E n \in Nodes : StartServer(n) \/ ServerLoads(n) \/ StopServer(n)

Spec == Init /\ [][Next]_vars

-----------------------------------------------------------------------------
(* Properties.                                                             *)

\* The entries of the key stores in memory, of the command and of the servers.
Stores == {cli.kc} \cup {srv[n].kc : n \in Nodes}

TypeOK ==
  /\ commands \in 0..MaxCommands
  /\ generated \subseteq Keys
  /\ disk \in [Nodes -> [state : {"absent", "torn", "ok"}, keys : Seq(SerializedKeyEntry)]]
  /\ cli \in [pc : Pcs, cmd : {"none", "keygen", "add", "fetch"}, new : BOOLEAN, node : Nodes,
              input : Seq(SerializedKeyEntry), pos : Nat \ {0}, kc : KeyEntries,
              fresh : SUBSET SerializedKeyEntry, todo : SUBSET SerializedKeyEntry]
  /\ srv \in [Nodes -> [pc : {"down", "load", "up"}, input : Seq(SerializedKeyEntry),
                        pos : Nat \ {0}, kc : KeyEntries]]

Determined(kc) ==
  /\ kc.is_default \subseteq Entries(kc)
  /\ \A k \in Private(kc) : k \in kc.is_default <=> SameOperation(Private(kc), k) = {k}
  /\ \A j, k \in PublicOnly(kc) \cap kc.is_default : OperationOf(j) = OperationOf(k) => j = k

\* What insert_private_key and insert_public_key make of the flags, whatever insertions
\* built a key store and in whatever order: a share is the default of its operation exactly
\* if it is the only share of that operation, and no two public keys of an operation are
\* defaults.  That the flags depend on the content alone is what AgreeOnKey rests on; that
\* two shares of an operation leave it without a default is not what the comments of the
\* code say: OneDefault states those.
DefaultsDetermined == \A kc \in Stores : Determined(kc)

\* What the comments of insert_private_key and get_key_by_scheme_and_group say: the first key
\* created is the default, and among several keys of a scheme and group there is one default,
\* so that the look-up finds it.
OneDefault ==
  \A n \in Nodes, kind \in Kinds :
    srv[n].pc = "up" /\ Cardinality(matching_key_entries(srv[n].kc, kind)) > 1
    => Cardinality(default_key_entries(srv[n].kc, kind)) = 1

\* Servers that hold shares of the same keys, and nothing else, take the same key for a
\* request that names only a scheme and a group, although their files list the keys in
\* different orders (get_key_by_scheme_and_group): the shares they make fit together.
AgreeOnKey ==
  \A m, n \in Nodes :
    /\ srv[m].pc = "up" /\ srv[n].pc = "up"
    /\ Entries(srv[m].kc) = Entries(srv[n].kc)
    /\ PublicOnly(srv[m].kc) = {} /\ PublicOnly(srv[n].kc) = {}
    => \A kind \in Kinds :
         get_key_by_scheme_and_group(srv[m].kc, kind) = get_key_by_scheme_and_group(srv[n].kc, kind)

\* The first m entries of a file are in a store, with the very shares the file has.
Kept(input, m, kc) ==
  \A i \in DOMAIN input : i <= m =>
    /\ input[i].key \in Entries(kc)
    /\ input[i].sk # 0 => kc.sk[input[i].key] = input[i].sk

\* A store that was loaded from a file holds every key of the file with the very share the
\* file has for it: what a command then inserts replaces no share by another one and turns
\* no share into a public key, and a server starts with nothing that its file does not have.
LoadedKept ==
  /\ cli.pc \in {"insert", "write"} => Kept(cli.input, Len(cli.input), cli.kc)
  /\ \A n \in Nodes : srv[n].pc = "load" /\ srv[n].pos > Len(srv[n].input) =>
       /\ Kept(srv[n].input, Len(srv[n].input), srv[n].kc)
       /\ \A k \in Entries(srv[n].kc) : \E i \in DOMAIN srv[n].input :
            srv[n].input[i] = [key |-> k, sk |-> srv[n].kc.sk[k]]

\* What makes LoadedKept inductive: no key is twice in a file, and while a file is being
\* loaded the store holds exactly the entries before the position reached.
DistinctKeys(input) == \A i, j \in DOMAIN input : input[i].key = input[j].key => i = j

Loading(input, pos, kc) ==
  /\ Kept(input, pos - 1, kc)
  /\ \A k \in Entries(kc) : \E i \in DOMAIN input :
       i < pos /\ input[i] = [key |-> k, sk |-> kc.sk[k]]

LoadInv ==
  /\ \A n \in Nodes : DistinctKeys(disk[n].keys) /\ DistinctKeys(srv[n].input)
  /\ DistinctKeys(cli.input)
  /\ cli.pc = "load" => Loading(cli.input, cli.pos, cli.kc)
  /\ cli.pc \in {"insert", "write"} => Kept(cli.input, Len(cli.input), cli.kc)
  /\ \A n \in Nodes : srv[n].pc = "load" => Loading(srv[n].input, srv[n].pos, srv[n].kc)

\* The inductive invariant from which the properties above follow.
IInv == TypeOK /\ DefaultsDetermined /\ LoadInv
=============================================================================
