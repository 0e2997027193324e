------------------------------ MODULE SkipListMap ------------------------------
(***************************************************************************)
(* cap_map of map.h: an ordered map kept in a skip list, for a program     *)
(* with one thread and at most one iterator.  The map object is the head   *)
(* of the list; level 0 links every node, and a node of height h is linked *)
(* on the levels below h.  The search loop of insert, find, contains and   *)
(* remove is taken one round at a time.                                    *)
(*                                                                         *)
(* Links are kept as they are, so a link may outlive the node it points    *)
(* at; following it ends the program in the model, and `life` says how.    *)
(***************************************************************************)
EXTENDS CapValues, FiniteSets, TLC

CONSTANTS Keys,          \* the keys, ordered as compare_fn orders them
          Values,        \* the value pointers programs insert
          Nodes,         \* the addresses calloc gives to nodes
          HeadNode,      \* the address of the map object
          Levels,        \* CAP_MAP_MAX_SKIPLIST_SIZE
          CallocMayFail, \* calloc may return NULL in insert
          MaxIndex       \* bound: how many steps a client makes with an iterator

ASSUME SkipListAssumption ==
    /\ Keys \subseteq Int
    /\ Null \notin Values                  \* assert(value != NULL)
    /\ HeadNode \notin Nodes
    /\ Null \notin Nodes \cup {HeadNode}
    /\ Levels \in Nat \ {0}
    /\ CallocMayFail \in BOOLEAN
    /\ MaxIndex \in Nat

VARIABLES life,     \* whether there is a map, or what ended the program
          forward,  \* _forward of the head and of every node
          node,     \* _key, _value and _height of every node
          alive,    \* the nodes calloc gave and nobody freed
          size,     \* _size of the map
          iter,     \* the iterator, or NoIterator
          pc,       \* idle, body or return
          op,       \* the call the program is in
          ret,      \* its result
          scan      \* the locals of the search loop

mapVars == <<life, forward, node, alive, size>>
callVars == <<pc, op, ret, scan>>
vars == <<mapVars, iter, callVars>>

Level == 0..(Levels - 1)
Heights == 1..Levels
Linked == alive \cup {HeadNode}

(* What can end the program: a freed node is followed from a link or from    *)
(* the iterator, or a NULL pointer from the iterator or in deep_free.        *)
Ended == {"freedLink", "emptyBegin", "freedElement", "nullElement", "nullInDeepFree"}

NoCall == [name |-> "none"]

(* changed: the map was changed since the iterator was made (history). *)
NoIterator == [element |-> Null, index |-> 0, key |-> Null, changed |-> FALSE]

NoScan == [at |-> HeadNode, level |-> -1, previous |-> [i \in Level |-> HeadNode], cmp |-> 1]

SearchNames == {"insert", "find", "contains", "remove"}
PlainNames == {"size", "empty", "front", "free", "deep_free"}

Calls ==
    [name : {"insert"}, key : Keys, value : Values]
        \cup [name : SearchNames \ {"insert"}, key : Keys]
        \cup [name : PlainNames]

Success == 0
Failure == -1

NoLinks == [i \in Level |-> Null]
BlankNode == [key |-> Null, value |-> Null, height |-> 0]

Init ==
    /\ life = "none"
    /\ forward = [a \in Nodes \cup {HeadNode} |-> NoLinks]
    /\ node = [a \in Nodes |-> BlankNode]
    /\ alive = {}
    /\ size = 0
    /\ iter = NoIterator
    /\ pc = "idle"
    /\ op = NoCall
    /\ ret = Null
    /\ scan = NoScan

-----------------------------------------------------------------------------
(* cap_map_init.  What an earlier map has leaked is forgotten. *)
Create ==
    /\ life \in {"none", "freed"}
    /\ pc = "idle"
    /\ life' = "live"
    /\ forward' = [a \in Nodes \cup {HeadNode} |-> NoLinks]
    /\ node' = [a \in Nodes |-> BlankNode]
    /\ alive' = {}
    /\ size' = 0
    /\ UNCHANGED <<iter, callVars>>

(* The program enters a function; it frees the map without an iterator. *)
Call(c) ==
    /\ life = "live"
    /\ pc = "idle"
    /\ c.name \in {"free", "deep_free"} => iter = NoIterator
    /\ pc' = "body"
    /\ op' = c
    /\ scan' = [NoScan EXCEPT !.level = Levels - 1]
    /\ UNCHANGED <<mapVars, iter, ret>>

Answer(v) ==
    /\ pc' = "return"
    /\ ret' = v
    /\ scan' = NoScan
    /\ UNCHANGED op

InBody(names) == life = "live" /\ pc = "body" /\ op.name \in names

(* remove of an empty map looks at nothing. *)
Searching ==
    /\ InBody(SearchNames)
    /\ scan.level >= 0
    /\ op.name = "remove" => size # 0

Ahead == forward[scan.at][scan.level]

(* compare_fn(key of the node ahead, key searched for) *)
Compared ==
    LET k == node[Ahead].key
    IN  IF k < op.key THEN -1 ELSE IF k = op.key THEN 0 ELSE 1

(* Variants that do not keep the comparison, or the previous node. *)
DescendUncompared(cmp) ==
    scan' = [scan EXCEPT !.level = @ - 1,
                         !.previous[scan.level] = scan.at]

DescendUnnoted(cmp) ==
    scan' = [scan EXCEPT !.level = @ - 1, !.cmp = cmp]

(* The level is done: the node reached is the previous one there. *)
Descend(cmp) ==
    scan' = [scan EXCEPT !.level = @ - 1,
                         !.previous[scan.level] = scan.at,
                         !.cmp = cmp]

(* _forward[level] is NULL, or the key ahead is not before the one searched. *)
SearchDown ==
    /\ Searching
    /\ \/ Ahead = Null /\ Descend(scan.cmp)
       \/ /\ Ahead \in alive
          /\ \/ Compared > 0
             \/ Compared = 0 /\ op.name = "remove"
          /\ Descend(Compared)
    /\ UNCHANGED <<mapVars, iter, pc, op, ret>>

SearchRight ==
    /\ Searching
    /\ Ahead \in alive
    /\ Compared < 0
    /\ scan' = [scan EXCEPT !.at = Ahead, !.cmp = Compared]
    /\ UNCHANGED <<mapVars, iter, pc, op, ret>>

(* compare_fn is given the key of a freed node. *)
SearchFreed ==
    /\ Searching
    /\ Ahead \notin alive \cup {Null}
    /\ life' = "freedLink"
    /\ UNCHANGED <<forward, node, alive, size, iter, callVars>>

-----------------------------------------------------------------------------
(* insert of a key that is there: the node keeps its place and its key.      *)
InsertReplace ==
    /\ Searching
    /\ op.name = "insert"
    /\ Ahead \in alive
    /\ Compared = 0
    /\ node' = [node EXCEPT ![Ahead].value = op.value]
    /\ Answer(Success)
    /\ UNCHANGED <<life, forward, alive, size, iter>>

(* The addresses calloc may give: one that was freed too, even if a link or   *)
(* the iterator still points at it.                                          *)
Fresh == Nodes \ alive

IterChanged == iter' = [iter EXCEPT !.changed = (iter # NoIterator)]

(* Variant that starts one level too high. *)
LinkBehindAbove(a, h) ==
    [n \in Nodes \cup {HeadNode} |->
        [i \in Level |->
            CASE n = a -> IF i \in 1..h THEN forward[scan.previous[i]][i] ELSE Null
              [] n # a /\ i \in 1..h /\ scan.previous[i] = n -> a
              [] OTHER -> forward[n][i]]]

(* The links once node a of height h stands behind the previous nodes of the *)
(* levels below h; calloc has cleared its other links.                       *)
LinkBehind(a, h) ==
    [n \in Nodes \cup {HeadNode} |->
        [i \in Level |->
            CASE n = a -> IF i < h THEN forward[scan.previous[i]][i] ELSE Null
              [] n # a /\ i < h /\ scan.previous[i] = n -> a
              [] OTHER -> forward[n][i]]]

(* The height is _cap_map_get_rand_level. *)
InsertNode ==
    /\ InBody({"insert"})
    /\ scan.level < 0
    /\ \E a \in Fresh, h \in Heights :
        /\ alive' = alive \cup {a}
        /\ node' = [node EXCEPT ![a] = [key |-> op.key, value |-> op.value, height |-> h]]
        /\ forward' = LinkBehind(a, h)
    /\ size' = size + 1
    /\ IterChanged
    /\ Answer(Success)
    /\ UNCHANGED life

InsertRefused ==
    /\ CallocMayFail
    /\ InBody({"insert"})
    /\ scan.level < 0
    /\ Answer(Failure)
    /\ UNCHANGED <<mapVars, iter>>

-----------------------------------------------------------------------------
(* The node remove has found, if the last comparison says so. *)
FreeMe == forward[scan.at][0]

(* Every level of the previous nodes takes the removed node's link, the      *)
(* levels the node was never on as well: those become NULL there.            *)
Relink(a) ==
    [n \in Nodes \cup {HeadNode} |->
        [i \in Level |->
            CASE n = a -> Null
              [] n # a /\ scan.previous[i] = n -> forward[a][i]
              [] OTHER -> forward[n][i]]]

(* Variants of remove that forget the size, and count where nothing is found.*)
RemoveNodeUncounted ==
    /\ InBody({"remove"})
    /\ size # 0
    /\ scan.level < 0
    /\ scan.cmp = 0
    /\ FreeMe \in alive
    /\ forward' = Relink(FreeMe)
    /\ alive' = alive \ {FreeMe}
    /\ node' = [node EXCEPT ![FreeMe] = BlankNode]
    /\ IterChanged
    /\ Answer(Success)
    /\ UNCHANGED <<life, size>>

RemoveNothingCounts ==
    /\ InBody({"remove"})
    /\ size = 0 \/ (scan.level < 0 /\ scan.cmp # 0)
    /\ size' = size - 1
    /\ Answer(Failure)
    /\ UNCHANGED <<life, forward, node, alive, iter>>

(* The code does not test that there is such a node, LastComparisonDecides   *)
(* shows that there is.                                                      *)
RemoveNode ==
    /\ InBody({"remove"})
    /\ size # 0
    /\ scan.level < 0
    /\ scan.cmp = 0
    /\ FreeMe \in alive
    /\ forward' = Relink(FreeMe)
    /\ alive' = alive \ {FreeMe}
    /\ node' = [node EXCEPT ![FreeMe] = BlankNode]
    /\ size' = size - 1
    /\ IterChanged
    /\ Answer(Success)
    /\ UNCHANGED life

RemoveNothing ==
    /\ InBody({"remove"})
    /\ size = 0 \/ (scan.level < 0 /\ scan.cmp # 0)
    /\ Answer(Failure)
    /\ UNCHANGED <<mapVars, iter>>

-----------------------------------------------------------------------------
Truth(b) == IF b THEN CTrue ELSE CFalse

(* cap_map_find, and cap_map_contains, which asks find. *)
FindHit ==
    /\ Searching
    /\ Ahead \in alive
    /\ Compared = 0
    /\ \/ op.name = "find" /\ Answer(node[Ahead].value)
       \/ op.name = "contains" /\ Answer(CTrue)
    /\ UNCHANGED <<mapVars, iter>>

FindMiss ==
    /\ scan.level < 0
    /\ \/ InBody({"find"}) /\ Answer(Null)
       \/ InBody({"contains"}) /\ Answer(CFalse)
    /\ UNCHANGED <<mapVars, iter>>

(* front answers the first node, here by its key, and pops nothing. *)
Look ==
    /\ \/ InBody({"size"}) /\ Answer(size)
       \/ InBody({"empty"}) /\ Answer(Truth(size = 0))
       \/ /\ InBody({"front"})
          /\ Answer(IF forward[HeadNode][0] = Null THEN Null ELSE node[forward[HeadNode][0]].key)
    /\ UNCHANGED <<mapVars, iter>>

(* The nodes along the bottom level: the head, the first node, ... *)
Bottom[n \in Nat] ==
    IF n = 0 THEN HeadNode
    ELSE IF Bottom[n - 1] = Null THEN Null ELSE forward[Bottom[n - 1]][0]

(* cap_map_free frees the head and, in _size rounds, all nodes but the last. *)
(* cap_map_deep_free makes as many rounds as the first node is high: it      *)
(* leaks the rest, or goes past the last node.                               *)
Rounds == IF op.name = "free" THEN size ELSE node[forward[HeadNode][0]].height

FreeBody ==
    /\ InBody({"free", "deep_free"})
    /\ \/ /\ size = 0
          /\ alive' = {}
          /\ life' = "freed"
          /\ Answer(Null)
       \/ /\ size # 0
          /\ Bottom[Rounds] # Null
          /\ alive' = alive \ {Bottom[n] : n \in 1..(Rounds - 1)}
          /\ life' = "freed"
          /\ Answer(Null)
       \/ /\ size # 0
          /\ Bottom[Rounds] = Null
          /\ life' = "nullInDeepFree"
          /\ UNCHANGED <<alive, callVars>>
    /\ UNCHANGED <<forward, node, size, iter>>

Finish ==
    /\ life \notin Ended
    /\ pc = "return"
    /\ pc' = "idle"
    /\ op' = NoCall
    /\ ret' = Null
    /\ UNCHANGED <<mapVars, iter, scan>>

-----------------------------------------------------------------------------
IteratorAt(a, index, changed) ==
    [element |-> a, index |-> index, key |-> node[a].key, changed |-> changed]

BetweenCalls == life = "live" /\ pc = "idle"

(* cap_map_iterator_init, cap_map_begin: an empty map has no first element.  *)
IterBegin ==
    /\ BetweenCalls
    /\ iter = NoIterator
    /\ IF forward[HeadNode][0] = Null
         THEN life' = "emptyBegin" /\ UNCHANGED iter
         ELSE iter' = IteratorAt(forward[HeadNode][0], 0, FALSE) /\ UNCHANGED life
    /\ UNCHANGED <<forward, node, alive, size, callVars>>

(* Variants with an end that comes one late, and without the index. *)
AtEndLate == size = iter.index

(* The end is told by the size of the map and the steps made. *)
AtEnd == size = iter.index + 1

IterIncrementStays ==
    /\ BetweenCalls
    /\ iter # NoIterator
    /\ ~AtEnd
    /\ iter.element \in alive
    /\ forward[iter.element][0] # Null
    /\ iter.index < MaxIndex
    /\ iter' = IteratorAt(forward[iter.element][0], iter.index, iter.changed)
    /\ UNCHANGED <<mapVars, callVars>>

(* cap_map_iterator_increment, before the end and at the end, where it only  *)
(* forgets the key.                                                          *)
IterIncrement ==
    /\ BetweenCalls
    /\ iter # NoIterator
    /\ ~AtEnd
    /\ iter.element \in alive
    /\ forward[iter.element][0] # Null
    /\ iter.index < MaxIndex
    /\ iter' = IteratorAt(forward[iter.element][0], iter.index + 1, iter.changed)
    /\ UNCHANGED <<mapVars, callVars>>

IterFinish ==
    /\ BetweenCalls
    /\ iter # NoIterator
    /\ AtEnd
    /\ iter' = [iter EXCEPT !.key = Null]
    /\ UNCHANGED <<mapVars, callVars>>

(* increment and next follow the element they are at, freed or last.         *)
IterCrash ==
    /\ BetweenCalls
    /\ iter # NoIterator
    /\ ~AtEnd
    /\ \/ iter.element \notin alive /\ life' = "freedElement"
       \/ /\ iter.element \in alive
          /\ forward[iter.element][0] = Null
          /\ life' = "nullElement"
    /\ UNCHANGED <<forward, node, alive, size, iter, callVars>>

(* cap_map_iterator_free. *)
IterFree ==
    /\ BetweenCalls
    /\ iter # NoIterator
    /\ iter' = NoIterator
    /\ UNCHANGED <<mapVars, callVars>>

Next ==
    \/ Create
    \/ \E c \in Calls : Call(c)
    \/ SearchDown \/ SearchRight \/ SearchFreed
    \/ InsertReplace \/ InsertNode \/ InsertRefused
    \/ RemoveNode \/ RemoveNothing
    \/ FindHit \/ FindMiss \/ Look
    \/ FreeBody
    \/ Finish
    \/ IterBegin \/ IterIncrement \/ IterFinish \/ IterCrash \/ IterFree

Spec == Init /\ [][Next]_vars

(* For TLC: node addresses, and values, are interchangeable. *)
Symmetry == Permutations(Nodes) \cup Permutations(Values)

-----------------------------------------------------------------------------
(* The type of every variable. *)
TypeOK ==
    /\ life \in {"none", "live", "freed"} \cup Ended
    /\ forward \in [Nodes \cup {HeadNode} -> [Level -> Nodes \cup {Null}]]
    /\ node \in [Nodes -> [key : Keys \cup {Null},
                           value : Values \cup {Null},
                           height : {0} \cup Heights]]
    /\ alive \subseteq Nodes
    /\ size \in Nat
    /\ iter \in [element : Nodes \cup {Null}, index : Nat,
                 key : Keys \cup {Null}, changed : BOOLEAN]
    /\ pc \in {"idle", "body", "return"}
    /\ op \in Calls \cup {NoCall}
    /\ ret \in Values \cup {Null} \cup Int
    /\ scan \in [at : Nodes \cup {HeadNode}, level : Level \cup {-1},
                 previous : [Level -> Nodes \cup {HeadNode}], cmp : {-1, 0, 1}]

Before(a, b) == a = HeadNode \/ node[a].key < node[b].key

(***************************************************************************)
(* The bottom level links all nodes in the order of their keys, which are  *)
(* distinct, and the size counts them; whatever has become of the levels   *)
(* above, from which every insert and remove finds its place.              *)
(***************************************************************************)
BottomIsTheMap ==
    life = "live" =>
        /\ size = Cardinality(alive)
        /\ \A a, b \in alive : a # b => node[a].key # node[b].key
        /\ \A a \in Linked :
            LET after == {b \in alive : b # a /\ Before(a, b)}
                next == forward[a][0]
            IN  IF after = {} THEN next = Null
                ELSE next \in after /\ \A b \in after \ {next} : Before(next, b)

(***************************************************************************)
(* On every level a search has left, the node it has noted as the previous *)
(* one is in the map and before its key, and that node's link is NULL or   *)
(* leads to a node of the map whose key is not before it: whatever remove  *)
(* has left on the upper levels, an insert links there and a remove cuts   *)
(* there at the right place.                                               *)
(***************************************************************************)
PreviousEnclose ==
    InBody(SearchNames) =>
        \A i \in Level : scan.level < i =>
            LET a == scan.previous[i]
                next == forward[a][i]
            IN  /\ a \in Linked
                /\ a = HeadNode \/ node[a].key < op.key
                /\ next # Null => next \in alive /\ ~ (node[next].key < op.key)

(***************************************************************************)
(* When remove's loop is over, the last comparison, which may be one of an *)
(* upper level, tells whether the next node at the bottom has the key: so  *)
(* what remove unlinks and frees is the node it was asked for.             *)
(***************************************************************************)
LastComparisonDecides ==
    InBody({"remove"}) /\ size # 0 /\ scan.level < 0 =>
        (scan.cmp = 0 <=> FreeMe \in alive /\ node[FreeMe].key = op.key)

(***************************************************************************)
(* An iterator over a map that has not changed since it was made is at the *)
(* key of its place in the order, and past the last key has none.          *)
(***************************************************************************)
IterationInOrder ==
    BetweenCalls /\ iter # NoIterator /\ ~iter.changed =>
        /\ iter.element \in alive
        /\ Cardinality({a \in alive : Before(a, iter.element)}) = iter.index
        /\ iter.key \in {node[iter.element].key, Null}
        /\ iter.key = Null => iter.index + 1 = size

(***************************************************************************)
(* Only an iterator that outlives a change of the map goes past the last   *)
(* element or follows a freed one.                                         *)
(***************************************************************************)
OnlyStaleIteratorsCrash == life \in {"freedElement", "nullElement"} => iter.changed

(***************************************************************************)
(* The skip list is an ordered map, with answers to match, until it        *)
(* follows a link to a freed node.                                         *)
(***************************************************************************)
ValueOf(k) ==
    IF \E a \in alive : node[a].key = k
      THEN node[CHOOSE a \in alive : node[a].key = k].value ELSE Null

OM == INSTANCE OrderedMap WITH
        map <- [k \in Keys |-> IF life = "freed" THEN Null ELSE ValueOf(k)],
        exists <- life \notin {"none", "freed"},
        phase <- CASE pc = "idle" -> "idle" [] pc = "body" -> "called" [] pc = "return" -> "done",
        request <- op,
        answer <- ret,
        Requests <- Calls

ImplementsOrderedMap == OM!Spec

(***************************************************************************)
(* find gives "the pointer to the element" or, "if the element with key is *)
(* not found, it returns NULL" (:86-87): it, and every other search, looks *)
(* at no node that remove has freed.                                       *)
(***************************************************************************)
NoFreedNodeIsSearched == life # "freedLink"
=============================================================================
