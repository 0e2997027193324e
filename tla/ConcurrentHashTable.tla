-------------------------- MODULE ConcurrentHashTable --------------------------
(***************************************************************************)
(* cap_hash_table of concurrent_hash_table_separate_chaining.h: a          *)
(* ChainedTable under one mutex.  insert has two steps inside its body,    *)
(* the growth of a loaded table and the store; the other bodies have one.  *)
(*                                                                         *)
(* Clients own the elements: a pointer is in the table at most once, and   *)
(* one that deep_erase or deep_free has freed is not used again.  A thread *)
(* frees the table only when no other thread is in a call.                 *)
(***************************************************************************)
EXTENDS PthreadClients, ChainedTable

CONSTANTS CallNames,        \* the operations clients use
          InitialCapacity,  \* init_capacity of cap_hash_table_init
          Reinsert,         \* clients insert keys that are in the table
          MaxNodes          \* bound: the nodes in the table

KeyNames == {"lookup", "contains", "erase", "deep_erase"}
FreeNames == {"free", "deep_free"}
LookNames == {"lookup", "contains", "size", "empty", "bucket_size"}
AllNames == {"insert", "erase", "deep_erase"} \cup LookNames \cup FreeNames

ASSUME HashTableAssumption ==
    /\ CallNames \subseteq AllNames
    /\ InitialCapacity \in Nat \ {0}
    /\ Reinsert \in BOOLEAN
    /\ MaxNodes \in Nat

VARIABLES life,      \* whether there is a table, or what ended the program
          table,     \* the table
          promised,  \* what the calls so far say each key maps to (history)
          released   \* the elements the table has freed

tableVars == <<life, table, promised, released>>
vars == <<callVars, tableVars>>

(* What can end the program: a bucket index out of the array, a pointer      *)
(* freed twice, or CAP_PTHREAD_MUTEX_UNLOCK_STATUS.                          *)
Ended == {"badIndex", "badFree", "exited"}

Calls ==
    [name : CallNames \cap {"insert"}, key : Keys, data : Elements]
        \cup [name : CallNames \cap KeyNames, key : Keys]
        \cup [name : CallNames \ (KeyNames \cup {"insert"})]

NothingPromised == [k \in Keys |-> Null]

Init ==
    /\ ClientsInit
    /\ life = "none"
    /\ table = NewTable(InitialCapacity)
    /\ promised = NothingPromised
    /\ released = {}

-----------------------------------------------------------------------------
(* cap_hash_table_init. *)
Create ==
    /\ life \in {"none", "freed"}
    /\ AllIdle
    /\ life' = "live"
    /\ table' = NewTable(InitialCapacity)
    /\ promised' = NothingPromised
    /\ mtx' = NoThread
    /\ UNCHANGED <<pc, op, ret, released>>

BeingFreed == \E t \in Threads : op[t].name \in FreeNames

InFlight == {op[t] : t \in {u \in Threads : op[u].name = "insert"}}

(* The rule of the clients for a call of insert. *)
MayInsert(c) ==
    /\ Len(AllNodes(table)) + Cardinality(InFlight) < MaxNodes
    /\ c.data \notin released
    /\ c.data \notin {node.data : node \in ToSet(AllNodes(table))}
    /\ \A d \in InFlight : d.data # c.data
    /\ ~Reinsert => /\ ~HasKey(table, c.key)
                    /\ \A d \in InFlight : d.key # c.key

Call(t, c) ==
    /\ life = "live"
    /\ ~BeingFreed
    /\ c.name \in FreeNames => \A u \in Threads \ {t} : pc[u] = "idle"
    /\ c.name = "insert" => MayInsert(c)
    /\ Invoke(t, c)
    /\ UNCHANGED tableVars

Acquire(t) ==
    /\ life = "live"
    /\ Lock(t)
    /\ UNCHANGED tableVars

-----------------------------------------------------------------------------
(* cap_hash_table_insert: first the growth, then the store. *)
InsertGrow(t) ==
    /\ life = "live"
    /\ InBody(t, "insert")
    /\ table' = Grow(table)
    /\ Proceed(t, "rest")
    /\ UNCHANGED <<life, promised, released>>

InsertStore(t) ==
    /\ life = "live"
    /\ pc[t] = "rest"
    /\ op[t].name = "insert"
    /\ table' = Store(table, op[t].key, op[t].data)
    /\ promised' = [promised EXCEPT ![op[t].key] = op[t].data]
    /\ Proceed(t, "unlock")
    /\ UNCHANGED <<life, released>>

(* cap_hash_table_erase and _deep_erase. *)
EraseBody(t) ==
    /\ life = "live"
    /\ \E name \in {"erase", "deep_erase"} :
        /\ InBody(t, name)
        /\ LET k == op[t].key
           IN  /\ table' = Erase(table, k)
               /\ promised' = [promised EXCEPT ![k] = Null]
               /\ released' = IF name = "deep_erase" /\ HasKey(table, k)
                                THEN released \cup {Lookup(table, k)}
                                ELSE released
               /\ Answer(t, IF HasKey(table, k) THEN CTrue ELSE CFalse, "unlock")
    /\ UNCHANGED life

(* The operations that only read. *)
Seen(c) ==
    CASE c.name = "lookup" -> Lookup(table, c.key)
      [] c.name = "contains" -> IF HasKey(table, c.key) THEN CTrue ELSE CFalse
      [] c.name = "size" -> table.size
      [] c.name = "empty" -> IF table.size = 0 THEN CTrue ELSE CFalse
      [] c.name = "bucket_size" -> table.capacity

Look(t) ==
    /\ life = "live"
    /\ pc[t] = "body"
    /\ op[t].name \in LookNames
    /\ Answer(t, Seen(op[t]), "unlock")
    /\ UNCHANGED tableVars

(* cap_hash_table_free and _deep_free visit buckets 0 to size - 1: a size    *)
(* that erase has taken below zero is far outside the array, and the chains  *)
(* of the buckets from size on are not freed.  _deep_free frees the data of  *)
(* every node it visits.                                                     *)
FreeBody(t) ==
    /\ life = "live"
    /\ pc[t] = "body"
    /\ op[t].name \in FreeNames
    /\ IF table.size > table.capacity
         THEN /\ life' = "badIndex"
              /\ UNCHANGED <<callVars, table, promised, released>>
       ELSE LET visited == NodesOfFirst(table, table.size)
                datas == {node.data : node \in ToSet(visited)}
                deep == op[t].name = "deep_free"
            IN  IF deep /\ (Cardinality(datas) < Len(visited) \/ datas \cap released # {})
                  THEN /\ life' = "badFree"
                       /\ UNCHANGED <<callVars, table, promised, released>>
                ELSE /\ life' = "freed"
                     /\ table' = NewTable(InitialCapacity)
                     /\ promised' = NothingPromised
                     /\ released' = IF deep THEN released \cup datas ELSE released
                     /\ Answer(t, Null, "unlock")

-----------------------------------------------------------------------------
Release(t) ==
    /\ life = "live"
    /\ Unlock(t)
    /\ UNCHANGED tableVars

(* The unlock of a mutex inside the freed table: undefined, and in practice  *)
(* it succeeds or returns an error, which ends the program.                  *)
ReleaseFreed(t) ==
    /\ life = "freed"
    /\ \/ Unlock(t) /\ UNCHANGED life
       \/ pc[t] = "unlock" /\ life' = "exited" /\ UNCHANGED callVars
    /\ UNCHANGED <<table, promised, released>>

Finish(t) ==
    /\ life \notin Ended
    /\ Return(t)
    /\ UNCHANGED tableVars

Next ==
    \/ Create
    \/ \E t \in Threads :
        \/ \E c \in Calls : Call(t, c)
        \/ Acquire(t)
        \/ InsertGrow(t) \/ InsertStore(t)
        \/ EraseBody(t)
        \/ Look(t)
        \/ FreeBody(t)
        \/ Release(t) \/ ReleaseFreed(t)
        \/ Finish(t)

Spec == Init /\ [][Next]_vars

-----------------------------------------------------------------------------
(* The type of every variable. *)
TypeOK ==
    /\ pc \in [Threads -> Places]
    /\ op \in [Threads -> Calls \cup {NoCall}]
    /\ ret \in [Threads -> Elements \cup {Null} \cup Nat]
    /\ mtx \in Threads \cup {NoThread}
    /\ life \in {"none", "live", "freed"} \cup Ended
    /\ table.size \in 0..(SizeModulus - 1)
    /\ table.capacity \in Nat \ {0}
    /\ DOMAIN table.buckets = 0..(table.capacity - 1)
    /\ ToSet(AllNodes(table)) \subseteq Nodes
    /\ promised \in [Keys -> Elements \cup {Null}]
    /\ released \subseteq Elements

(***************************************************************************)
(* Every node is in the bucket its key hashes to in the present capacity:  *)
(* no growth, nested or not, leaves a node behind where no lookup finds it.*)
(***************************************************************************)
NodesInTheirBuckets ==
    \A i \in DOMAIN table.buckets :
        \A j \in DOMAIN table.buckets[i] :
            KeyIndex(table, table.buckets[i][j].key) = i

(***************************************************************************)
(* A key that was inserted and not erased since is in the table, after any *)
(* inserts, erases of other keys and growths, however the threads          *)
(* interleave.  It holds even when keys are inserted twice.                *)
(***************************************************************************)
KeysNeverLost ==
    life = "live" => \A k \in Keys : promised[k] # Null => HasKey(table, k)

(***************************************************************************)
(* No node of the table holds an element the table has freed: deep_erase   *)
(* removes the last node that points at what it frees.                     *)
(***************************************************************************)
NoFreedDataInTable ==
    \A node \in ToSet(AllNodes(table)) : node.data \notin released

(***************************************************************************)
(* Growing is invisible: in the step that replaces the buckets every key   *)
(* keeps its answer to lookup.                                             *)
(***************************************************************************)
GrowthIsInvisible ==
    [][life = "live" /\ life' = "live" /\ table'.capacity # table.capacity =>
            \A k \in Keys : Lookup(table', k) = Lookup(table, k)]_vars

(***************************************************************************)
(* When clients insert only absent keys the table is a map with atomic     *)
(* operations: insert takes effect at its store, the others in their body. *)
(***************************************************************************)
Phase ==
    [t \in Threads |->
        CASE pc[t] = "idle" -> "idle"
          [] pc[t] \in {"lock", "body", "rest"} -> "called"
          [] OTHER -> "done"]

AM == INSTANCE AtomicMap WITH
        map <- [k \in Keys |-> Lookup(table, k)],
        exists <- life \notin {"none", "freed", "exited"},
        phase <- Phase,
        request <- op,
        answer <- ret,
        MaxBuckets <- InitialCapacity + 2 * MaxNodes

ImplementsAtomicMap == AM!Spec

-----------------------------------------------------------------------------
(* For TLC.  Keys are numbers and hash to themselves: of 0, 1 and 2 the keys *)
(* 0 and 2 share a bucket of two and part in four, so a growth both moves    *)
(* keys and keeps others together.  Nothing tells two elements, or two       *)
(* threads, apart.                                                           *)
KeysHashToThemselves == [k \in Keys |-> k]

Symmetry == Permutations(Threads) \cup Permutations(Elements)
=============================================================================
