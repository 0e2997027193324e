-------------------------- MODULE SkipListMap_proofs --------------------------
(***************************************************************************)
(* Proofs about SkipListMap, for every set of integer keys, of values and  *)
(* of addresses, every number of levels, and with or without a calloc that *)
(* fails.                                                                  *)
(***************************************************************************)
EXTENDS SkipListMap, FiniteSetTheorems, TLAPS

(* A call is one of the calls programs make; between calls there is none. *)
CallShape ==
    /\ pc = "idle" => op = NoCall /\ ret = Null
    /\ pc # "idle" => op \in Calls
    /\ life = "none" => pc = "idle"

(* The nodes of a map are finitely many, all counted, with distinct keys. *)
NodesHeld ==
    life = "live" =>
        /\ IsFiniteSet(alive)
        /\ size = Cardinality(alive)
        /\ \A a \in alive : node[a].key \in Keys /\ node[a].value \in Values
        /\ \A a, b \in alive : a # b => node[a].key # node[b].key

(* The bottom link of a leads to the closest node after it, or is NULL. *)
Closest(a) ==
    /\ forward[a][0] # Null => /\ forward[a][0] \in alive
                               /\ Before(a, forward[a][0])
    /\ \A b \in alive :
        Before(a, b) => /\ forward[a][0] \in alive
                        /\ b # forward[a][0] => Before(forward[a][0], b)

BottomShape == life = "live" => \A a \in Linked : Closest(a)

(* Where a search for op.key may stand, and what it may have ahead of it. *)
Sooner(a) == a = HeadNode \/ node[a].key < op.key

Later(a) == /\ a \in alive
            /\ ~ (node[a].key < op.key)
            /\ node[a].key = op.key => op.name = "remove"

(***************************************************************************)
(* A search stands before its key, and on each level it has left, between  *)
(* the previous node and the link of that node; and remove has seen a      *)
(* comparison of 0 exactly if the key is there.                            *)
(***************************************************************************)
ScanShape ==
    InBody(SearchNames) =>
        /\ scan.at \in Linked /\ Sooner(scan.at)
        /\ \A i \in Level : scan.level < i =>
            /\ scan.previous[i] \in Linked
            /\ Sooner(scan.previous[i])
            /\ forward[scan.previous[i]][i] # Null => Later(forward[scan.previous[i]][i])
        /\ scan.level < 0 => scan.at = scan.previous[0]
        /\ scan.cmp = 0 => \E a \in alive : node[a].key = op.key
        /\ scan.level < 0 /\ FreeMe \in alive /\ node[FreeMe].key = op.key => scan.cmp = 0

(* The place of an iterator that no change has made stale. *)
InPlace ==
    /\ iter.element \in alive
    /\ Cardinality({a \in alive : Before(a, iter.element)}) = iter.index
    /\ iter.key \in {node[iter.element].key, Null}
    /\ iter.key = Null => iter.index + 1 = size

(* An iterator lives between two calls that free the map. *)
IterShape ==
    /\ iter # NoIterator => iter.element # Null
    /\ life \in {"none", "freed"} => iter = NoIterator
    /\ InBody({"free", "deep_free"}) => iter = NoIterator
    /\ life = "live" /\ iter # NoIterator /\ ~iter.changed => InPlace

(***************************************************************************)
(* The inductive invariant.  BottomIsTheMap is not inductive: an insert    *)
(* links where its search has been, so the invariant has to say of every   *)
(* level a search has left that the place is still the right one.  Links   *)
(* to freed nodes are left out of it: nothing is said of where they lead.  *)
(***************************************************************************)
IInv ==
    /\ TypeOK
    /\ CallShape
    /\ NodesHeld
    /\ BottomShape
    /\ ScanShape
    /\ IterShape
    /\ OnlyStaleIteratorsCrash

-----------------------------------------------------------------------------
(* What the calls are: a search has a key, an insert a value as well. *)
LEMMA CallFacts ==
    ASSUME NEW c \in Calls
    PROVE  /\ c.name \in SearchNames \cup PlainNames
           /\ c.name \in SearchNames => c.key \in Keys /\ c.key \in Int
           /\ c.name = "insert" => c.value \in Values
  BY SkipListAssumption DEF Calls, SearchNames, PlainNames

(* The levels, the head, and NULL. *)
LEMMA ConstantFacts ==
    /\ 0 \in Level
    /\ \A i \in Level : i \in Int /\ i >= 0 /\ i - 1 \in Level \cup {-1}
    /\ Levels - 1 \in Level
    /\ HeadNode \notin Nodes /\ HeadNode # Null /\ Null \notin Nodes
    /\ Null \notin Keys /\ Null \notin Values
    /\ \A k \in Keys : k \in Int
  <1>1. 0 \in Level /\ Levels - 1 \in Level
    BY SkipListAssumption DEF Level
  <1>2. \A i \in Level : i \in Int /\ i >= 0 /\ i - 1 \in Level \cup {-1}
    BY SkipListAssumption DEF Level
  <1>3. HeadNode \notin Nodes /\ HeadNode # Null /\ Null \notin Nodes /\ Null \notin Values
    BY SkipListAssumption
  <1>4. Null \notin Keys /\ \A k \in Keys : k \in Int
    BY SkipListAssumption, NullAssumption
  <1> QED
    BY <1>1, <1>2, <1>3, <1>4

(* The map's parts of IInv are about the map only. *)
LEMMA MapUnchanged ==
    ASSUME NodesHeld, BottomShape,
           UNCHANGED <<forward, node, alive, size>>, life' = "live" => life = "live"
    PROVE  NodesHeld' /\ BottomShape'
  BY DEF NodesHeld, BottomShape, Closest, Linked, Before

(* So is the iterator's, while there is no call that frees. *)
LEMMA IterUnchanged ==
    ASSUME IterShape,
           UNCHANGED <<life, node, alive, size, iter>>,
           InBody({"free", "deep_free"})' => InBody({"free", "deep_free"})
    PROVE  IterShape'
  BY DEF IterShape, InPlace, Before

(* What a search knows of the node ahead. *)
LEMMA SearchFacts ==
    ASSUME IInv, Searching
    PROVE  /\ op \in Calls
           /\ op.name \in SearchNames
           /\ op.key \in Keys /\ op.key \in Int
           /\ scan.level \in Level
           /\ scan.at \in Linked
           /\ Ahead \in Nodes \cup {Null}
           /\ Ahead \in alive => /\ node[Ahead].key \in Int
                                 /\ Compared \in {-1, 0, 1}
                                 /\ Compared < 0 <=> node[Ahead].key < op.key
                                 /\ Compared = 0 <=> node[Ahead].key = op.key
  <1> USE DEF Searching, InBody
  <1>1. op \in Calls /\ op.name \in SearchNames /\ op.key \in Keys /\ op.key \in Int
    BY CallFacts DEF IInv, CallShape
  <1>2. scan.level \in Level /\ scan.at \in Linked
    BY DEF IInv, TypeOK, ScanShape, Level
  <1>3. Ahead \in Nodes \cup {Null}
    BY <1>2 DEF IInv, TypeOK, Ahead, Linked
  <1>4. Ahead \in alive => node[Ahead].key \in Int
    BY ConstantFacts DEF IInv, NodesHeld
  <1> QED
    BY <1>1, <1>2, <1>3, <1>4 DEF Compared

LEMMA InitIInv == Init => IInv
  <1> SUFFICES ASSUME Init PROVE IInv
    OBVIOUS
  <1> USE DEF Init
  <1>1. TypeOK
    BY SkipListAssumption, ConstantFacts
    DEF TypeOK, NoLinks, BlankNode, NoIterator, NoScan, NoCall, Ended
  <1>2. CallShape
    BY DEF CallShape
  <1>3. NodesHeld /\ BottomShape
    BY DEF NodesHeld, BottomShape
  <1>4. ScanShape /\ IterShape /\ OnlyStaleIteratorsCrash
    BY DEF ScanShape, IterShape, OnlyStaleIteratorsCrash, InBody
  <1> QED
    BY <1>1, <1>2, <1>3, <1>4 DEF IInv

-----------------------------------------------------------------------------
(* Every action keeps IInv. *)
LEMMA CreateKeeps == IInv /\ Create => IInv'
  <1> SUFFICES ASSUME IInv, Create PROVE IInv'
    OBVIOUS
  <1> USE DEF Create, callVars
  <1>1. TypeOK'
    BY ConstantFacts DEF IInv, TypeOK, NoLinks, BlankNode
  <1>2. CallShape'
    BY DEF IInv, CallShape
  <1>3. NodesHeld'
    BY FS_EmptySet DEF NodesHeld
  <1>4. BottomShape'
    BY ConstantFacts DEF BottomShape, Closest, Linked, NoLinks
  <1>5. ScanShape' /\ IterShape' /\ OnlyStaleIteratorsCrash'
    BY DEF IInv, ScanShape, IterShape, OnlyStaleIteratorsCrash, InBody
  <1> QED
    BY <1>1, <1>2, <1>3, <1>4, <1>5 DEF IInv

LEMMA CallKeeps ==
    ASSUME IInv, NEW c \in Calls, Call(c)
    PROVE  IInv'
  <1> USE DEF Call, mapVars
  <1>1. TypeOK'
    BY ConstantFacts DEF IInv, TypeOK, NoScan
  <1>2. CallShape'
    BY DEF IInv, CallShape
  <1>3. NodesHeld' /\ BottomShape'
    BY MapUnchanged DEF IInv
  <1>4. ScanShape'
    <2>1. /\ scan'.at = HeadNode
          /\ scan'.level = Levels - 1
          /\ scan'.cmp = 1
      BY DEF NoScan
    <2>2. \A i \in Level : ~ (Levels - 1 < i)
      BY SkipListAssumption DEF Level
    <2> QED
      BY <2>1, <2>2, SkipListAssumption DEF ScanShape, Sooner, Linked
  <1>5. IterShape'
    BY DEF IInv, IterShape, InPlace, InBody, Before
  <1>6. OnlyStaleIteratorsCrash'
    BY DEF IInv, OnlyStaleIteratorsCrash
  <1> QED
    BY <1>1, <1>2, <1>3, <1>4, <1>5, <1>6 DEF IInv

LEMMA SearchDownKeeps == IInv /\ SearchDown => IInv'
  <1> SUFFICES ASSUME IInv, SearchDown PROVE IInv'
    OBVIOUS
  <1> USE DEF SearchDown, mapVars
  <1>1. PICK cmp \in {-1, 0, 1} :
            /\ Descend(cmp)
            /\ \/ Ahead = Null /\ cmp = scan.cmp
               \/ Later(Ahead) /\ cmp = Compared
    BY SearchFacts DEF Later, IInv, TypeOK
  <1>2. TypeOK'
    <2>1. /\ scan.at \in Nodes \cup {HeadNode}
          /\ scan.level - 1 \in Level \cup {-1}
      BY SearchFacts, ConstantFacts DEF IInv, TypeOK
    <2>2. scan' \in [at : Nodes \cup {HeadNode}, level : Level \cup {-1},
                     previous : [Level -> Nodes \cup {HeadNode}], cmp : {-1, 0, 1}]
      BY <1>1, <2>1 DEF IInv, TypeOK, Descend
    <2> QED
      BY <2>2 DEF IInv, TypeOK
  <1>3. CallShape' /\ OnlyStaleIteratorsCrash'
    BY DEF IInv, CallShape, OnlyStaleIteratorsCrash
  <1>4. NodesHeld' /\ BottomShape'
    BY MapUnchanged DEF IInv
  <1>5. IterShape'
    BY IterUnchanged DEF IInv, InBody
  <1>6. ScanShape'
    <2>1. /\ scan'.at = scan.at
          /\ scan'.level = scan.level - 1
          /\ scan'.previous = [scan.previous EXCEPT ![scan.level] = scan.at]
          /\ scan'.cmp = cmp
      BY <1>1 DEF Descend, IInv, TypeOK
    <2>2. scan.at \in Linked /\ Sooner(scan.at)
      BY DEF IInv, ScanShape, Searching, InBody
    <2>3. ASSUME NEW i \in Level, scan'.level < i
          PROVE  /\ scan'.previous[i] \in Linked
                 /\ Sooner(scan'.previous[i])
                 /\ forward[scan'.previous[i]][i] # Null
                        => Later(forward[scan'.previous[i]][i])
      <3>1. CASE i = scan.level
        BY <3>1, <1>1, <2>1, <2>2, SearchFacts DEF Ahead, IInv, TypeOK, Later
      <3>2. CASE i # scan.level
        <4>1. scan'.previous[i] = scan.previous[i]
          BY <3>2, <2>1 DEF IInv, TypeOK
        <4>2. scan.level < i
          BY <3>2, <2>1, <2>3, SearchFacts, SkipListAssumption DEF Level
        <4> QED
          BY <4>1, <4>2 DEF IInv, ScanShape, Searching
      <3> QED
        BY <3>1, <3>2
    <2>4. scan'.level < 0 => scan.level = 0
      BY <2>1, SearchFacts, ConstantFacts
    <2>5. scan'.level < 0 => scan'.at = scan'.previous[0]
      BY <2>1, <2>4, ConstantFacts DEF IInv, TypeOK
    <2>6. scan'.cmp = 0 => \E a \in alive : node[a].key = op.key
      BY <1>1, <2>1, SearchFacts DEF IInv, ScanShape, Searching, Later
    <2>7. ASSUME scan'.level < 0, FreeMe \in alive, node[FreeMe].key = op.key
          PROVE  scan'.cmp = 0
      <3>1. FreeMe = Ahead
        BY <2>4, <2>7 DEF FreeMe, Ahead
      <3> QED
        BY <3>1, <2>7, <1>1, <2>1, SearchFacts, ConstantFacts DEF IInv, TypeOK
    <2>8. FreeMe' = FreeMe
      BY <2>1 DEF FreeMe
    <2> QED
      BY <2>1, <2>2, <2>3, <2>5, <2>6, <2>7, <2>8
      DEF ScanShape, InBody, Linked, Sooner, Later
  <1> QED
    BY <1>2, <1>3, <1>4, <1>5, <1>6 DEF IInv

LEMMA SearchRightKeeps == IInv /\ SearchRight => IInv'
  <1> SUFFICES ASSUME IInv, SearchRight PROVE IInv'
    OBVIOUS
  <1>1. /\ scan' = [scan EXCEPT !.at = Ahead, !.cmp = -1]
        /\ Ahead \in alive
        /\ node[Ahead].key < op.key
    <2>1. Ahead \in alive /\ Compared = -1 /\ node[Ahead].key < op.key
      BY SearchFacts DEF SearchRight
    <2> QED
      BY <2>1 DEF SearchRight
  <1>2. TypeOK'
    <2>1. Ahead \in Nodes
      BY <1>1 DEF IInv, TypeOK
    <2>2. scan' \in [at : Nodes \cup {HeadNode}, level : Level \cup {-1},
                     previous : [Level -> Nodes \cup {HeadNode}], cmp : {-1, 0, 1}]
      BY <1>1, <2>1 DEF IInv, TypeOK
    <2> QED
      BY <2>2 DEF IInv, TypeOK, SearchRight, mapVars
  <1> USE DEF SearchRight, mapVars
  <1>3. CallShape' /\ OnlyStaleIteratorsCrash'
    BY DEF IInv, CallShape, OnlyStaleIteratorsCrash
  <1>4. NodesHeld' /\ BottomShape'
    BY MapUnchanged DEF IInv
  <1>5. IterShape'
    BY IterUnchanged DEF IInv, InBody
  <1>6. ScanShape'
    <2>1. /\ scan'.at = Ahead
          /\ scan'.level = scan.level
          /\ scan'.previous = scan.previous
          /\ scan'.cmp = -1
      BY <1>1 DEF IInv, TypeOK
    <2>2. ~ (scan'.level < 0)
      <3>1. scan.level \in Level
        BY SearchFacts
      <3> QED
        BY <2>1, <3>1, ConstantFacts
    <2>3. \A i \in Level : scan.level < i =>
            /\ scan.previous[i] \in Linked
            /\ Sooner(scan.previous[i])
            /\ forward[scan.previous[i]][i] # Null => Later(forward[scan.previous[i]][i])
      BY DEF IInv, ScanShape, Searching
    <2> QED
      BY <1>1, <2>1, <2>2, <2>3 DEF ScanShape, InBody, Linked, Sooner, Later
  <1> QED
    BY <1>2, <1>3, <1>4, <1>5, <1>6 DEF IInv

(* A step after which the program is done for. *)
LEMMA DoneForKeeps ==
    ASSUME IInv, life' \in Ended, UNCHANGED <<forward, node, size, iter, callVars>>,
           alive' \subseteq Nodes,
           life' \in {"freedElement", "nullElement"} => iter.changed,
           life = "live"
    PROVE  IInv'
  <1> USE DEF callVars, Ended
  <1>1. TypeOK'
    BY DEF IInv, TypeOK
  <1>2. CallShape'
    BY DEF IInv, CallShape
  <1>3. NodesHeld' /\ BottomShape'
    BY DEF NodesHeld, BottomShape
  <1>4. ScanShape' /\ IterShape' /\ OnlyStaleIteratorsCrash'
    BY DEF IInv, ScanShape, IterShape, OnlyStaleIteratorsCrash, InBody
  <1> QED
    BY <1>1, <1>2, <1>3, <1>4 DEF IInv

LEMMA SearchFreedKeeps == IInv /\ SearchFreed => IInv'
  BY DoneForKeeps DEF SearchFreed, Searching, InBody, Ended, IInv, TypeOK

(* An answer that changes nothing of the map. *)
LEMMA AnswerKeeps ==
    ASSUME IInv, NEW v \in Values \cup {Null} \cup Int, Answer(v), pc = "body",
           UNCHANGED <<mapVars, iter>>
    PROVE  IInv'
  <1> USE DEF Answer, mapVars
  <1>1. TypeOK'
    BY DEF IInv, TypeOK, NoScan
  <1>2. CallShape' /\ OnlyStaleIteratorsCrash'
    BY DEF IInv, CallShape, OnlyStaleIteratorsCrash
  <1>3. NodesHeld' /\ BottomShape'
    BY MapUnchanged DEF IInv
  <1>4. ScanShape'
    BY DEF ScanShape, InBody
  <1>5. IterShape'
    BY IterUnchanged DEF IInv, InBody
  <1> QED
    BY <1>1, <1>2, <1>3, <1>4, <1>5 DEF IInv

LEMMA InsertReplaceKeeps == IInv /\ InsertReplace => IInv'
  <1> SUFFICES ASSUME IInv, InsertReplace PROVE IInv'
    OBVIOUS
  <1> DEFINE NodeType == [key : Keys \cup {Null}, value : Values \cup {Null},
                          height : {0} \cup Heights]
  <1>0. /\ Searching /\ op.name = "insert" /\ Ahead \in alive
        /\ node' = [node EXCEPT ![Ahead].value = op.value]
        /\ pc' = "return" /\ ret' = Success /\ scan' = NoScan /\ op' = op
        /\ UNCHANGED <<life, forward, alive, size, iter>>
    BY DEF InsertReplace, Answer
  <1>1. Ahead \in alive /\ Ahead \in Nodes /\ op \in Calls /\ op.value \in Values
    BY <1>0, SearchFacts, CallFacts DEF IInv, TypeOK
  <1>2. /\ node' \in [Nodes -> NodeType]
        /\ \A a \in Nodes : /\ node'[a].key = node[a].key
                            /\ node'[a].height = node[a].height
                            /\ node'[a].value \in {node[a].value, op.value}
    <2>1. node \in [Nodes -> NodeType]
      BY DEF IInv, TypeOK
    <2>2. PICK n \in NodeType : n = node[Ahead]
      BY <1>1, <2>1
    <2>3. PICK r : r = [n EXCEPT !.value = op.value]
      OBVIOUS
    <2>4. r \in NodeType /\ r.key = n.key /\ r.height = n.height /\ r.value = op.value
      BY <1>1, <2>2, <2>3
    <2> HIDE DEF NodeType
    <2>5. node' = [node EXCEPT ![Ahead] = r]
      BY <1>0, <2>2, <2>3
    <2>6. \A a \in Nodes : node'[a] = IF a = Ahead THEN r ELSE node[a]
      BY <2>1, <2>5
    <2>7. node' \in [Nodes -> NodeType]
      BY <2>1, <2>4, <2>5
    <2> QED
      BY <2>2, <2>4, <2>6, <2>7
  <1>3. TypeOK'
    BY <1>0, <1>2 DEF IInv, TypeOK, Success, NoScan
  <1>4. CallShape' /\ OnlyStaleIteratorsCrash' /\ ScanShape'
    BY <1>0 DEF IInv, CallShape, OnlyStaleIteratorsCrash, ScanShape, InBody, Searching
  <1>5. NodesHeld'
    BY <1>0, <1>1, <1>2 DEF IInv, NodesHeld, TypeOK
  <1>6. \A a \in Linked, b \in alive : Before(a, b)' <=> Before(a, b)
    BY <1>0, <1>2 DEF Before, Linked, IInv, TypeOK
  <1>7. /\ UNCHANGED <<alive, forward, life, size, iter>> /\ Linked' = Linked
        /\ alive \subseteq Linked /\ alive \subseteq Nodes
    BY <1>0 DEF Linked, IInv, TypeOK
  <1>8. BottomShape'
    <2>1. ASSUME NEW a \in Linked, Closest(a) PROVE Closest(a)'
      <3>1. \A b \in alive : Before(a, b)' <=> Before(a, b)
        BY <1>6, <2>1
      <3>2. forward[a][0] \in alive =>
                \A b \in alive : Before(forward[a][0], b)' <=> Before(forward[a][0], b)
        BY <1>6, <1>7
      <3> QED
        BY <1>7, <2>1, <3>1, <3>2 DEF Closest
    <2> QED
      BY <1>7, <2>1 DEF IInv, BottomShape
  <1>9. IterShape'
    <2>1. ASSUME InPlace PROVE InPlace'
      <3>1. {a \in alive' : Before(a, iter.element)'} = {a \in alive : Before(a, iter.element)}
        <4>1. iter.element \in alive /\ iter' = iter
          BY <1>7, <2>1 DEF InPlace
        <4>2. \A a \in alive : Before(a, iter.element)' <=> Before(a, iter.element)
          BY <1>6, <1>7, <4>1
        <4> QED
          BY <1>7, <4>1, <4>2
      <3>2. node'[iter.element].key = node[iter.element].key
        BY <1>2, <1>7, <2>1 DEF InPlace
      <3> QED
        BY <1>7, <2>1, <3>1, <3>2 DEF InPlace
    <2> QED
      BY <1>0, <1>7, <2>1 DEF IInv, IterShape, InBody
  <1> QED
    BY <1>3, <1>4, <1>5, <1>8, <1>9 DEF IInv

(* The end of a search that finds nothing: nobody has the key, and on every *)
(* level the previous node is before it and the node ahead, if any, after it.*)
LEMMA MissPlaces ==
    ASSUME IInv, InBody({"insert", "find", "contains"}), scan.level < 0
    PROVE  /\ op \in Calls /\ op.key \in Keys /\ op.key \in Int
           /\ op.name = "insert" => op.value \in Values
           /\ \A i \in Level :
                /\ scan.previous[i] \in Linked
                /\ Sooner(scan.previous[i])
                /\ forward[scan.previous[i]][i] # Null =>
                    /\ forward[scan.previous[i]][i] \in alive
                    /\ op.key < node[forward[scan.previous[i]][i]].key
           /\ \A b \in alive : node[b].key \in Int /\ node[b].key # op.key
  <1> USE DEF InBody
  <1>1. /\ op \in Calls /\ op.key \in Keys /\ op.key \in Int
        /\ op.name = "insert" => op.value \in Values
    BY CallFacts DEF IInv, CallShape, SearchNames
  <1>2. \A b \in alive : node[b].key \in Int
    BY ConstantFacts DEF IInv, NodesHeld
  <1>3. ASSUME NEW i \in Level
        PROVE  /\ scan.previous[i] \in Linked
               /\ Sooner(scan.previous[i])
               /\ forward[scan.previous[i]][i] # Null =>
                    /\ forward[scan.previous[i]][i] \in alive
                    /\ op.key < node[forward[scan.previous[i]][i]].key
    <2>1. scan.level < i
      <3>1. scan.level \in Level \cup {-1}
        BY DEF IInv, TypeOK
      <3> QED
        BY <3>1, SkipListAssumption DEF Level
    <2>2. /\ scan.previous[i] \in Linked
          /\ Sooner(scan.previous[i])
          /\ forward[scan.previous[i]][i] # Null => Later(forward[scan.previous[i]][i])
      BY <2>1 DEF IInv, ScanShape, SearchNames
    <2> QED
      BY <2>2, <1>1, <1>2 DEF Later
  <1>4. ASSUME NEW b \in alive, node[b].key = op.key PROVE FALSE
    <2> DEFINE p == scan.previous[0]
    <2>1. p \in Linked /\ Sooner(p)
      BY <1>3, ConstantFacts
    <2>2. Before(p, b) /\ b \in alive
      BY <2>1, <1>4 DEF Before, Sooner
    <2>3. forward[p][0] \in alive /\ (b # forward[p][0] => Before(forward[p][0], b))
      BY <2>1, <2>2 DEF IInv, BottomShape, Closest
    <2>4. op.key < node[forward[p][0]].key
      BY <2>3, <1>3, ConstantFacts DEF IInv, TypeOK
    <2>5. forward[p][0] # HeadNode
      BY <2>3, ConstantFacts DEF IInv, TypeOK
    <2> QED
      BY <2>3, <2>4, <2>5, <1>1, <1>2, <1>4 DEF Before
  <1> QED
    BY <1>1, <1>2, <1>3, <1>4

(* After a change of the map an iterator is stale, and promises nothing. *)
LEMMA IterChangedKeeps ==
    ASSUME TypeOK, IterShape, IterChanged, life = "live", life' = "live", pc' = "return"
    PROVE  IterShape'
  <1>1. CASE iter = NoIterator
    <2>1. iter' = NoIterator
      BY <1>1 DEF IterChanged, NoIterator
    <2> QED
      BY <2>1 DEF IterShape, InBody
  <1>2. CASE iter # NoIterator
    <2>1. iter'.element = iter.element /\ iter'.changed = TRUE
      BY <1>2 DEF IterChanged, TypeOK
    <2> QED
      BY <1>2, <2>1 DEF IterShape, InBody
  <1> QED
    BY <1>1, <1>2

LEMMA InsertNodeKeeps == IInv /\ InsertNode => IInv'
  <1> SUFFICES ASSUME IInv, InsertNode PROVE IInv'
    OBVIOUS
  <1>1. PICK a \in Fresh, h \in Heights :
            /\ alive' = alive \cup {a}
            /\ node' = [node EXCEPT ![a] = [key |-> op.key, value |-> op.value, height |-> h]]
            /\ forward' = LinkBehind(a, h)
    BY DEF InsertNode
  <1>2. /\ InBody({"insert"}) /\ scan.level < 0
        /\ size' = size + 1 /\ life' = life /\ op' = op
        /\ pc' = "return" /\ ret' = Success /\ scan' = NoScan
        /\ iter' = [iter EXCEPT !.changed = (iter # NoIterator)]
    BY DEF InsertNode, Answer, IterChanged
  <1>3. /\ a \in Nodes /\ a \notin alive /\ a # HeadNode /\ a # Null
    BY ConstantFacts DEF Fresh
  <1>4. /\ h \in Int /\ h > 0 /\ 0 < h
        /\ \A i \in Level : i \in Int
    BY SkipListAssumption DEF Heights, Level
  <1>5. /\ op \in Calls /\ op.key \in Keys /\ op.key \in Int /\ op.value \in Values
        /\ \A i \in Level :
            /\ scan.previous[i] \in Linked
            /\ Sooner(scan.previous[i])
            /\ forward[scan.previous[i]][i] # Null =>
                /\ forward[scan.previous[i]][i] \in alive
                /\ op.key < node[forward[scan.previous[i]][i]].key
        /\ \A b \in alive : node[b].key \in Int /\ node[b].key # op.key
    BY <1>2, MissPlaces DEF InBody
  <1>6. /\ node'[a].key = op.key /\ node'[a].value = op.value /\ node'[a].height = h
        /\ \A b \in alive : node'[b] = node[b]
    BY <1>1, <1>3 DEF IInv, TypeOK
  <1>7. /\ \A i \in Level : forward'[a][i] = IF i < h THEN forward[scan.previous[i]][i] ELSE Null
        /\ \A n \in Linked, i \in Level :
            forward'[n][i] = IF i < h /\ scan.previous[i] = n THEN a ELSE forward[n][i]
    BY <1>1, <1>3 DEF LinkBehind, Linked, IInv, TypeOK
  <1>8. life = "live" /\ Linked' = Linked \cup {a}
    BY <1>1, <1>2 DEF InBody, Linked
  <1>9. TypeOK'
    <2>1. forward' \in [Nodes \cup {HeadNode} -> [Level -> Nodes \cup {Null}]]
      BY <1>1, <1>3 DEF LinkBehind, IInv, TypeOK
    <2>2. node' \in [Nodes -> [key : Keys \cup {Null}, value : Values \cup {Null},
                               height : {0} \cup Heights]]
      BY <1>1, <1>3, <1>5 DEF IInv, TypeOK
    <2>3. iter' \in [element : Nodes \cup {Null}, index : Nat,
                     key : Keys \cup {Null}, changed : BOOLEAN]
      BY <1>2 DEF IInv, TypeOK
    <2>4. scan' \in [at : Nodes \cup {HeadNode}, level : Level \cup {-1},
                     previous : [Level -> Nodes \cup {HeadNode}], cmp : {-1, 0, 1}]
      BY <1>2 DEF NoScan
    <2> QED
      BY <2>1, <2>2, <2>3, <2>4, <1>1, <1>2, <1>3 DEF IInv, TypeOK, Success
  <1>10. CallShape' /\ OnlyStaleIteratorsCrash' /\ ScanShape'
    BY <1>2, <1>8 DEF IInv, CallShape, OnlyStaleIteratorsCrash, ScanShape, InBody
  <1>11. NodesHeld'
    <2>1. IsFiniteSet(alive') /\ size' = Cardinality(alive')
      BY <1>1, <1>2, <1>3, <1>8, FS_AddElement DEF IInv, NodesHeld
    <2>2. \A b \in alive' : node'[b].key \in Keys /\ node'[b].value \in Values
      BY <1>1, <1>5, <1>6, <1>8 DEF IInv, NodesHeld
    <2>3. \A b, c \in alive' : b # c => node'[b].key # node'[c].key
      BY <1>1, <1>5, <1>6, <1>8 DEF IInv, NodesHeld
    <2> QED
      BY <2>1, <2>2, <2>3 DEF NodesHeld
  <1>12. BottomShape'
    <2>0. PICK p : p = scan.previous[0]
      OBVIOUS
    <2>1. /\ p \in Linked /\ Sooner(p) /\ Closest(p)
          /\ forward[p][0] # Null => /\ forward[p][0] \in alive
                                     /\ op.key < node[forward[p][0]].key
      BY <2>0, <1>5, <1>8, ConstantFacts DEF IInv, BottomShape
    <2>2. /\ forward'[a][0] = forward[p][0]
          /\ forward'[p][0] = a
          /\ \A n \in Linked \ {p} : forward'[n][0] = forward[n][0]
      BY <2>0, <2>1, <1>4, <1>7, ConstantFacts
    <2>3. /\ a # HeadNode /\ HeadNode \notin alive /\ Null \notin alive
          /\ \A n \in alive : Before(n, a)' <=> node[n].key < op.key
          /\ \A n \in alive : Before(a, n)' <=> op.key < node[n].key
          /\ \A n \in Linked, b \in alive : Before(n, b)' <=> Before(n, b)
          /\ ~ Before(a, a)' /\ Before(HeadNode, a)'
      BY <1>3, <1>5, <1>6, ConstantFacts DEF Before, Linked, IInv, TypeOK
    <2>4. Closest(a)'
      <3>1. \A b \in alive : op.key < node[b].key => Before(p, b)
        BY <2>1, <1>5 DEF Before, Sooner, Linked
      <3> QED
        BY <2>1, <2>2, <2>3, <3>1, <1>1 DEF Closest, Linked
    <2>5. Closest(p)'
      <3>1. p = HeadNode \/ p \in alive
        BY <2>1 DEF Linked
      <3>2. Before(p, a)'
        BY <2>1, <2>3, <3>1 DEF Sooner
      <3>3. ASSUME NEW b \in alive, Before(p, b)
            PROVE  op.key < node[b].key
        <4>1. forward[p][0] \in alive /\ (b # forward[p][0] => Before(forward[p][0], b))
          BY <2>1, <3>3 DEF Closest
        <4> QED
          BY <4>1, <2>1, <2>3, <1>5 DEF Before
      <3> QED
        BY <2>1, <2>2, <2>3, <3>2, <3>3, <1>1 DEF Closest
    <2>6. ASSUME NEW n \in Linked \ {p} PROVE Closest(n)'
      <3>1. Closest(n) /\ forward'[n][0] = forward[n][0]
        BY <2>2, <2>6, <1>8 DEF IInv, BottomShape
      <3>2. ASSUME Before(n, a)'
            PROVE  forward[n][0] \in alive /\ node[forward[n][0]].key < op.key
        <4>1. n = HeadNode \/ (n \in alive /\ node[n].key < op.key)
          BY <2>3, <2>6, <3>2 DEF Linked
        <4>2. Before(n, p) /\ p \in alive
          <5>1. CASE p = HeadNode
            <6>1. n \in alive /\ node[n].key < op.key /\ Before(p, n)
              BY <4>1, <5>1, <2>6 DEF Before
            <6>2. forward[p][0] \in alive /\ (n # forward[p][0] => Before(forward[p][0], n))
              BY <6>1, <2>1 DEF Closest
            <6> QED
              BY <6>1, <6>2, <2>1, <2>3, <1>5 DEF Before
          <5>2. CASE p \in alive /\ n \in alive
            <6>1. node[n].key # node[p].key
              BY <5>2, <2>6, <1>8 DEF IInv, NodesHeld
            <6>2. ~ Before(p, n)
              <7> SUFFICES ASSUME Before(p, n) PROVE FALSE
                OBVIOUS
              <7>1. forward[p][0] \in alive /\ (n # forward[p][0] => Before(forward[p][0], n))
                BY <5>2, <2>1 DEF Closest
              <7> QED
                BY <7>1, <4>1, <5>2, <2>1, <2>3, <1>5 DEF Before
            <6> QED
              BY <5>2, <6>1, <6>2, <2>3, <1>5 DEF Before
          <5>3. CASE p \in alive /\ n = HeadNode
            BY <5>3 DEF Before
          <5> QED
            BY <5>1, <5>2, <5>3, <4>1, <2>1 DEF Linked
        <4>3. forward[n][0] \in alive /\ (p # forward[n][0] => Before(forward[n][0], p))
          BY <3>1, <4>2 DEF Closest
        <4>4. node[p].key < op.key
          BY <4>2, <2>1, <2>3 DEF Sooner
        <4> QED
          BY <4>2, <4>3, <4>4, <2>3, <1>5 DEF Before
      <3> QED
        BY <2>3, <2>6, <3>1, <3>2, <1>1, <1>3, ConstantFacts DEF Closest, Linked
    <2> QED
      BY <2>4, <2>5, <2>6, <1>8 DEF BottomShape
  <1>13. IterShape'
    BY <1>2, <1>8, IterChangedKeeps DEF IInv, IterChanged
  <1> QED
    BY <1>9, <1>10, <1>11, <1>12, <1>13 DEF IInv

LEMMA InsertRefusedKeeps == IInv /\ InsertRefused => IInv'
  BY AnswerKeeps DEF InsertRefused, InBody, Failure

-----------------------------------------------------------------------------
(* When a remove's search is over: if there is a node with its key, it is   *)
(* the node ahead at the bottom, and the comparison kept is 0.              *)
LEMMA RemovePlaces ==
    ASSUME IInv, InBody({"remove"}), scan.level < 0
    PROVE  /\ op \in Calls /\ op.key \in Keys /\ op.key \in Int
           /\ scan.at \in Linked /\ scan.at = scan.previous[0] /\ Sooner(scan.at)
           /\ \A b \in alive : node[b].key \in Int
           /\ \A i \in Level : scan.previous[i] \in Linked /\ Sooner(scan.previous[i])
           /\ \A b \in alive : node[b].key = op.key => b = FreeMe
           /\ scan.cmp = 0 <=> FreeMe \in alive /\ node[FreeMe].key = op.key
  <1> USE DEF InBody
  <1>1. op \in Calls /\ op.key \in Keys /\ op.key \in Int
    BY CallFacts DEF IInv, CallShape, SearchNames
  <1>2. \A b \in alive : node[b].key \in Int
    BY ConstantFacts DEF IInv, NodesHeld
  <1>3. scan.at \in Linked /\ scan.at = scan.previous[0] /\ Sooner(scan.at)
    BY DEF IInv, ScanShape, SearchNames
  <1>4. ASSUME NEW i \in Level
        PROVE  /\ scan.previous[i] \in Linked
               /\ Sooner(scan.previous[i])
               /\ forward[scan.previous[i]][i] # Null => Later(forward[scan.previous[i]][i])
    <2>1. scan.level < i
      <3>1. scan.level \in Level \cup {-1}
        BY DEF IInv, TypeOK
      <3> QED
        BY <3>1, SkipListAssumption DEF Level
    <2> QED
      BY <2>1 DEF IInv, ScanShape, SearchNames
  <1>5. ASSUME NEW b \in alive, node[b].key = op.key PROVE b = FreeMe
    <2>1. Before(scan.at, b) /\ Closest(scan.at)
      BY <1>3, <1>5 DEF Before, Sooner, IInv, BottomShape
    <2>2. FreeMe \in alive /\ (b # FreeMe => Before(FreeMe, b))
      BY <2>1 DEF Closest, FreeMe
    <2>3. Later(FreeMe) /\ FreeMe # HeadNode
      BY <2>2, <1>3, <1>4, ConstantFacts DEF FreeMe, IInv, TypeOK
    <2> QED
      BY <2>2, <2>3, <1>5 DEF Before, Later
  <1>6. scan.cmp = 0 => FreeMe \in alive /\ node[FreeMe].key = op.key
    BY <1>5 DEF IInv, ScanShape, SearchNames
  <1>7. FreeMe \in alive /\ node[FreeMe].key = op.key => scan.cmp = 0
    BY DEF IInv, ScanShape, SearchNames
  <1> QED
    BY <1>1, <1>2, <1>3, <1>4, <1>5, <1>6, <1>7

LEMMA RemoveNodeKeeps == IInv /\ RemoveNode => IInv'
  <1> SUFFICES ASSUME IInv, RemoveNode PROVE IInv'
    OBVIOUS
  <1>1. PICK f : f = FreeMe
    OBVIOUS
  <1>2. PICK p : p = scan.at
    OBVIOUS
  <1>3. /\ InBody({"remove"}) /\ scan.level < 0 /\ scan.cmp = 0 /\ size # 0
        /\ f \in alive /\ f \in Nodes
        /\ forward' = Relink(f)
        /\ alive' = alive \ {f}
        /\ node' = [node EXCEPT ![f] = BlankNode]
        /\ size' = size - 1 /\ life' = life /\ op' = op
        /\ pc' = "return" /\ ret' = Success /\ scan' = NoScan
        /\ IterChanged
    BY <1>1 DEF RemoveNode, Answer, IInv, TypeOK
  <1>4. /\ op.key \in Int
        /\ p \in Linked /\ p = scan.previous[0] /\ Sooner(p) /\ f = forward[p][0]
        /\ node[f].key = op.key
        /\ \A b \in alive : node[b].key \in Int
        /\ \A i \in Level : scan.previous[i] \in Linked /\ Sooner(scan.previous[i])
    BY <1>1, <1>2, <1>3, RemovePlaces DEF FreeMe
  <1>5. /\ life = "live" /\ f # HeadNode /\ p # f
        /\ alive' \subseteq alive /\ Linked' = Linked \ {f}
        /\ HeadNode \notin alive /\ Null \notin alive
    BY <1>3, <1>4, ConstantFacts DEF InBody, Linked, Sooner, IInv, TypeOK
  <1>6. \A b \in alive' : node'[b] = node[b]
    BY <1>3 DEF IInv, TypeOK
  <1>7. \A n \in Linked', i \in Level :
            forward'[n][i] = IF scan.previous[i] = n THEN forward[f][i] ELSE forward[n][i]
    BY <1>3, <1>5 DEF Relink, Linked, IInv, TypeOK
  <1>8. \A n \in Linked', b \in alive' : Before(n, b)' <=> Before(n, b)
    BY <1>5, <1>6 DEF Before, Linked
  <1>9. TypeOK'
    <2>1. forward' \in [Nodes \cup {HeadNode} -> [Level -> Nodes \cup {Null}]]
      BY <1>3 DEF Relink, IInv, TypeOK
    <2>2. node' \in [Nodes -> [key : Keys \cup {Null}, value : Values \cup {Null},
                               height : {0} \cup Heights]]
      BY <1>3 DEF IInv, TypeOK, BlankNode
    <2>3. iter' \in [element : Nodes \cup {Null}, index : Nat,
                     key : Keys \cup {Null}, changed : BOOLEAN]
      BY <1>3 DEF IInv, TypeOK, IterChanged
    <2>4. scan' \in [at : Nodes \cup {HeadNode}, level : Level \cup {-1},
                     previous : [Level -> Nodes \cup {HeadNode}], cmp : {-1, 0, 1}]
      BY <1>3 DEF NoScan
    <2>5. size' \in Nat /\ alive' \subseteq Nodes
      BY <1>3 DEF IInv, TypeOK
    <2> QED
      BY <2>1, <2>2, <2>3, <2>4, <2>5, <1>3 DEF IInv, TypeOK, Success
  <1>10. CallShape' /\ OnlyStaleIteratorsCrash' /\ ScanShape'
    BY <1>3, <1>5 DEF IInv, CallShape, OnlyStaleIteratorsCrash, ScanShape, InBody
  <1>11. NodesHeld'
    <2>1. IsFiniteSet(alive') /\ size' = Cardinality(alive')
      BY <1>3, <1>5, FS_RemoveElement DEF IInv, NodesHeld
    <2> QED
      BY <2>1, <1>5, <1>6 DEF IInv, NodesHeld
  <1>12. BottomShape'
    <2>1. /\ forward'[p][0] = forward[f][0]
          /\ \A n \in Linked' \ {p} : forward'[n][0] = forward[n][0]
          /\ Closest(f) /\ Closest(p) /\ Before(p, f) /\ ~ Before(f, f)
      <3>1. /\ forward'[p][0] = forward[f][0]
            /\ \A n \in Linked' \ {p} : forward'[n][0] = forward[n][0]
        <4>1. p \in Linked'
          BY <1>4, <1>5
        <4> QED
          BY <4>1, <1>4, <1>7, ConstantFacts
      <3>2. Closest(f) /\ Closest(p)
        BY <1>3, <1>4, <1>5 DEF IInv, BottomShape, Linked
      <3>3. Before(p, f) /\ ~ Before(f, f)
        BY <1>3, <1>4, <1>5 DEF Before, Sooner
      <3> QED
        BY <3>1, <3>2, <3>3
    <2>2. forward[f][0] # f
      BY <2>1, <1>3, <1>5 DEF Closest
    <2>3. Closest(p)'
      <3>1. forward[f][0] # Null => forward[f][0] \in alive' /\ Before(p, forward[f][0])
        <4> SUFFICES ASSUME forward[f][0] # Null
                     PROVE  forward[f][0] \in alive' /\ Before(p, forward[f][0])
          OBVIOUS
        <4>1. forward[f][0] \in alive /\ Before(f, forward[f][0])
          BY <2>1 DEF Closest
        <4>2. p = HeadNode \/ (p \in alive /\ node[p].key < node[f].key)
          BY <1>4 DEF Sooner, Linked
        <4>3. forward[f][0] \in alive'
          BY <4>1, <2>2, <1>3
        <4>4. /\ f \in alive /\ f # HeadNode
              /\ node[f].key \in Int /\ node[forward[f][0]].key \in Int
              /\ p \in alive => node[p].key \in Int
          BY <4>1, <1>3, <1>4, <1>5
        <4> QED
          BY <4>1, <4>2, <4>3, <4>4 DEF Before
      <3>2. ASSUME NEW b \in alive', Before(p, b)
            PROVE  /\ forward[f][0] \in alive'
                   /\ b # forward[f][0] => Before(forward[f][0], b)
        <4>1. Before(f, b)
          BY <2>1, <3>2, <1>3, <1>4 DEF Closest
        <4>2. /\ forward[f][0] \in alive
              /\ b # forward[f][0] => Before(forward[f][0], b)
          BY <2>1, <3>2, <4>1, <1>5 DEF Closest
        <4> QED
          BY <4>2, <2>2, <1>3
      <3>3. p \in Linked' /\ alive' \subseteq Linked'
        BY <1>4, <1>5 DEF Linked
      <3> QED
        BY <2>1, <3>1, <3>2, <3>3, <1>8 DEF Closest
    <2>4. ASSUME NEW n \in Linked' \ {p} PROVE Closest(n)'
      <3>1. Closest(n) /\ forward'[n][0] = forward[n][0] /\ n \in Linked /\ n # f
        BY <2>1, <2>4, <1>5 DEF IInv, BottomShape
      <3>2. forward[n][0] # f
        <4> SUFFICES ASSUME forward[n][0] = f PROVE FALSE
          OBVIOUS
        <4>1. Before(n, f)
          BY <3>1, <1>3, <1>5 DEF Closest
        <4>2. CASE n = HeadNode
          <5>1. p \in alive /\ Before(n, p)
            BY <4>2, <2>4, <1>4 DEF Linked, Before
          <5>2. p = f \/ Before(f, p)
            BY <3>1, <5>1 DEF Closest
          <5>3. node[p].key < node[f].key
            BY <5>1, <2>1, <1>5 DEF Before
          <5>4. p # f /\ f # HeadNode /\ node[p].key \in Int /\ node[f].key \in Int
            BY <5>1, <1>3, <1>4, <1>5
          <5>5. ~ Before(f, p)
            BY <5>3, <5>4 DEF Before
          <5> QED
            BY <5>2, <5>4, <5>5
        <4>3. CASE n \in alive /\ p = HeadNode
          <5>1. n = f \/ Before(f, n)
            BY <4>3, <2>1, <1>4 DEF Closest, Before
          <5>2. f # HeadNode /\ n # HeadNode /\ node[n].key \in Int /\ node[f].key \in Int
            BY <4>3, <1>3, <1>4, <1>5
          <5>3. node[n].key < node[f].key
            BY <4>1, <5>2 DEF Before
          <5>4. ~ Before(f, n)
            BY <5>2, <5>3 DEF Before
          <5> QED
            BY <5>1, <5>4, <3>1
        <4>4. CASE n \in alive /\ p \in alive
          <5>1. node[n].key # node[p].key
            BY <4>4, <2>4, <1>5 DEF IInv, NodesHeld
          <5>2. Before(n, p) => p = f \/ Before(f, p)
            BY <4>4, <3>1 DEF Closest
          <5>3. Before(p, n) => n = f \/ Before(f, n)
            BY <4>4, <2>1, <1>4 DEF Closest
          <5>4. /\ node[n].key < node[f].key /\ node[p].key < node[f].key
                /\ ~ Before(f, n) /\ ~ Before(f, p)
            <6>1. /\ f # HeadNode /\ n # HeadNode /\ p # HeadNode
                  /\ node[f].key \in Int /\ node[n].key \in Int /\ node[p].key \in Int
              BY <4>4, <1>3, <1>4, <1>5
            <6> QED
              BY <6>1, <4>1, <2>1 DEF Before
          <5>5. ~ Before(n, p) /\ ~ Before(p, n)
            BY <5>2, <5>3, <5>4, <3>1, <1>5
          <5> QED
            BY <4>4, <5>1, <5>5, <1>4 DEF Before
        <4> QED
          BY <4>2, <4>3, <4>4, <3>1, <1>4 DEF Linked
      <3>3. forward[n][0] # Null => forward[n][0] \in alive' /\ Before(n, forward[n][0])
        BY <3>1, <3>2, <1>3 DEF Closest
      <3>4. \A b \in alive' : Before(n, b) =>
                /\ forward[n][0] \in alive'
                /\ b # forward[n][0] => Before(forward[n][0], b)
        BY <3>1, <3>2, <1>3 DEF Closest
      <3>5. n \in Linked' /\ alive' \subseteq Linked'
        BY <2>4 DEF Linked
      <3> QED
        BY <3>1, <3>3, <3>4, <3>5, <1>8 DEF Closest
    <2> QED
      BY <2>3, <2>4 DEF BottomShape
  <1>13. IterShape'
    BY <1>3, <1>5, IterChangedKeeps DEF IInv
  <1> QED
    BY <1>9, <1>10, <1>11, <1>12, <1>13 DEF IInv

LEMMA RemoveNothingKeeps == IInv /\ RemoveNothing => IInv'
  BY AnswerKeeps DEF RemoveNothing, InBody, Failure

-----------------------------------------------------------------------------
LEMMA FindHitKeeps == IInv /\ FindHit => IInv'
  <1> SUFFICES ASSUME IInv, FindHit PROVE IInv'
    OBVIOUS
  <1>1. PICK v \in Values \cup {Null} \cup Int : Answer(v)
    <2>1. node[Ahead].value \in Values
      BY SearchFacts DEF FindHit, IInv, NodesHeld, Searching, InBody
    <2> QED
      BY <2>1 DEF FindHit, CTrue
  <1> QED
    BY <1>1, AnswerKeeps DEF FindHit, Searching, InBody

LEMMA FindMissKeeps == IInv /\ FindMiss => IInv'
  BY AnswerKeeps DEF FindMiss, InBody, CFalse

LEMMA LookKeeps == IInv /\ Look => IInv'
  <1> SUFFICES ASSUME IInv, Look PROVE IInv'
    OBVIOUS
  <1>1. CASE InBody({"size"}) /\ Answer(size)
    <2>1. size \in Values \cup {Null} \cup Int
      BY DEF IInv, TypeOK
    <2> QED
      BY <1>1, <2>1, AnswerKeeps DEF Look, InBody
  <1>2. CASE InBody({"empty"}) /\ Answer(Truth(size = 0))
    <2>1. Truth(size = 0) \in Values \cup {Null} \cup Int
      BY DEF Truth, CTrue, CFalse
    <2> QED
      BY <1>2, <2>1, AnswerKeeps DEF Look, InBody
  <1>3. CASE /\ InBody({"front"})
             /\ Answer(IF forward[HeadNode][0] = Null THEN Null
                       ELSE node[forward[HeadNode][0]].key)
    <2>1. forward[HeadNode][0] # Null => node[forward[HeadNode][0]].key \in Int
      BY <1>3, ConstantFacts DEF IInv, BottomShape, Closest, NodesHeld, InBody, Linked
    <2> QED
      BY <1>3, <2>1, AnswerKeeps DEF Look, InBody
  <1> QED
    BY <1>1, <1>2, <1>3 DEF Look

LEMMA FreeBodyKeeps == IInv /\ FreeBody => IInv'
  <1> SUFFICES ASSUME IInv, FreeBody PROVE IInv'
    OBVIOUS
  <1>1. /\ InBody({"free", "deep_free"})
        /\ UNCHANGED <<forward, node, size, iter>>
        /\ alive' \subseteq alive
    BY DEF FreeBody
  <1>2. CASE life' = "freed" /\ Answer(Null)
    <2>1. TypeOK'
      BY <1>1, <1>2 DEF Answer, IInv, TypeOK, NoScan
    <2>2. CallShape'
      BY <1>1, <1>2 DEF Answer, IInv, CallShape, InBody
    <2>3. NodesHeld' /\ BottomShape' /\ ScanShape' /\ OnlyStaleIteratorsCrash'
      BY <1>2 DEF NodesHeld, BottomShape, ScanShape, OnlyStaleIteratorsCrash, InBody
    <2>4. IterShape'
      BY <1>1, <1>2 DEF IInv, IterShape, InBody
    <2> QED
      BY <2>1, <2>2, <2>3, <2>4 DEF IInv
  <1>3. CASE life' = "nullInDeepFree" /\ UNCHANGED <<alive, callVars>>
    BY <1>1, <1>3, DoneForKeeps DEF Ended, IInv, TypeOK, InBody
  <1> QED
    BY <1>2, <1>3 DEF FreeBody

LEMMA FinishKeeps == IInv /\ Finish => IInv'
  <1> SUFFICES ASSUME IInv, Finish PROVE IInv'
    OBVIOUS
  <1> USE DEF Finish, mapVars
  <1>1. TypeOK'
    BY DEF IInv, TypeOK
  <1>2. CallShape' /\ OnlyStaleIteratorsCrash'
    BY DEF IInv, CallShape, OnlyStaleIteratorsCrash
  <1>3. NodesHeld' /\ BottomShape'
    BY MapUnchanged DEF IInv
  <1>4. ScanShape'
    BY DEF ScanShape, InBody
  <1>5. IterShape'
    BY IterUnchanged DEF IInv, InBody
  <1> QED
    BY <1>1, <1>2, <1>3, <1>4, <1>5 DEF IInv

-----------------------------------------------------------------------------
(* A step of the iterator: the map, and the calls, are not in it. *)
LEMMA IteratorStepKeeps ==
    ASSUME IInv, BetweenCalls, UNCHANGED <<mapVars, callVars>>,
           iter' \in [element : Nodes \cup {Null}, index : Nat,
                      key : Keys \cup {Null}, changed : BOOLEAN],
           iter' # NoIterator => iter'.element # Null,
           iter' # NoIterator /\ ~ iter'.changed => InPlace'
    PROVE  IInv'
  <1> USE DEF BetweenCalls, mapVars, callVars
  <1>1. TypeOK'
    BY DEF IInv, TypeOK
  <1>2. CallShape' /\ OnlyStaleIteratorsCrash' /\ ScanShape'
    BY DEF IInv, CallShape, OnlyStaleIteratorsCrash, ScanShape, InBody
  <1>3. NodesHeld' /\ BottomShape'
    BY MapUnchanged DEF IInv
  <1>4. IterShape'
    BY DEF IterShape, InBody
  <1> QED
    BY <1>1, <1>2, <1>3, <1>4 DEF IInv

LEMMA IterBeginKeeps == IInv /\ IterBegin => IInv'
  <1> SUFFICES ASSUME IInv, IterBegin PROVE IInv'
    OBVIOUS
  <1>1. PICK f : f = forward[HeadNode][0]
    OBVIOUS
  <1>2. CASE f = Null
    BY <1>1, <1>2, DoneForKeeps DEF IterBegin, BetweenCalls, Ended, IInv, TypeOK
  <1>3. CASE f # Null
    <2>1. /\ f \in alive /\ f \in Nodes /\ f # HeadNode
          /\ node[f].key \in Keys /\ node[f].key \in Int /\ node[f].key # Null
          /\ \A b \in alive : node[b].key \in Int
          /\ \A b \in alive \ {f} : Before(f, b)
      <3>1. life = "live" /\ HeadNode \in Linked
        BY DEF IterBegin, BetweenCalls, Linked
      <3>2. f \in alive /\ \A b \in alive \ {f} : Before(f, b)
        BY <1>1, <1>3, <3>1 DEF IInv, BottomShape, Closest, Before
      <3>3. \A b \in alive : node[b].key \in Keys /\ node[b].key \in Int
        BY <3>1, ConstantFacts DEF IInv, NodesHeld
      <3> QED
        BY <3>2, <3>3, ConstantFacts DEF IInv, TypeOK
    <2>2. iter' = [element |-> f, index |-> 0, key |-> node[f].key, changed |-> FALSE]
      BY <1>1, <1>3 DEF IterBegin, IteratorAt
    <2>3. {a \in alive : Before(a, f)} = {}
      BY <2>1, ConstantFacts DEF Before, IInv, TypeOK
    <2>4. InPlace'
      <3>1. UNCHANGED <<alive, node, forward, size>>
        BY DEF IterBegin
      <3>2. {a \in alive : Before(a, iter.element)}' = {}
        BY <2>2, <2>3, <3>1 DEF Before
      <3> QED
        BY <2>1, <2>2, <3>1, <3>2, FS_EmptySet DEF InPlace
    <2> QED
      BY <1>1, <1>3, <2>1, <2>2, <2>4, IteratorStepKeeps, ConstantFacts DEF IterBegin, mapVars
  <1> QED
    BY <1>2, <1>3

LEMMA IterIncrementKeeps == IInv /\ IterIncrement => IInv'
  <1> SUFFICES ASSUME IInv, IterIncrement PROVE IInv'
    OBVIOUS
  <1>1. PICK e : e = iter.element
    OBVIOUS
  <1>2. PICK f : f = forward[e][0]
    OBVIOUS
  <1>3. /\ BetweenCalls /\ UNCHANGED <<mapVars, callVars>>
        /\ iter # NoIterator /\ e \in alive /\ f # Null
        /\ iter' = [element |-> f, index |-> iter.index + 1,
                    key |-> node[f].key, changed |-> iter.changed]
    BY <1>1, <1>2 DEF IterIncrement, IteratorAt
  <1>4. /\ f \in alive /\ f \in Nodes /\ e # HeadNode /\ f # HeadNode
        /\ Before(e, f) /\ Closest(e)
    BY <1>2, <1>3, ConstantFacts
    DEF IInv, TypeOK, BottomShape, Closest, BetweenCalls, Linked
  <1>5. /\ \A b \in alive : node[b].key \in Int
        /\ node[f].key \in Keys /\ node[f].key # Null
        /\ IsFiniteSet(alive) /\ HeadNode \notin alive
        /\ \A a, b \in alive : a # b => node[a].key # node[b].key
    BY <1>3, <1>4, ConstantFacts DEF IInv, TypeOK, NodesHeld, BetweenCalls
  <1>6. ASSUME ~ iter.changed PROVE InPlace'
    <2> DEFINE S == {a \in alive : Before(a, e)}
    <2>1. InPlace
      BY <1>3, <1>6 DEF IInv, IterShape, BetweenCalls
    <2>2. {a \in alive : Before(a, f)} = S \cup {e}
      <3>1. \A a \in alive : Before(a, f) => a = e \/ Before(a, e)
        <4> SUFFICES ASSUME NEW a \in alive, Before(a, f), a # e, ~ Before(a, e) PROVE FALSE
          OBVIOUS
        <4>1. node[a].key # node[e].key
          BY <1>3, <1>5
        <4>2. Before(e, a)
          BY <4>1, <1>3, <1>5 DEF Before
        <4>3. a # f => Before(f, a)
          BY <4>2, <1>2, <1>4 DEF Closest
        <4> QED
          BY <4>3, <1>4, <1>5 DEF Before
      <3>2. \A a \in alive : Before(a, e) => Before(a, f)
        BY <1>3, <1>4, <1>5 DEF Before
      <3> QED
        BY <3>1, <3>2, <1>3, <1>4
    <2>3. IsFiniteSet(S) /\ e \notin S /\ Cardinality(S) = iter.index
      BY <2>1, <1>1, <1>3, <1>5, FS_Subset DEF InPlace, Before
    <2>4. Cardinality(S \cup {e}) = iter.index + 1
      BY <2>3, FS_AddElement
    <2>5. {a \in alive : Before(a, iter.element)}' = {a \in alive : Before(a, f)}
      BY <1>3 DEF Before, mapVars
    <2> QED
      BY <2>2, <2>4, <2>5, <1>3, <1>4, <1>5 DEF InPlace, mapVars
  <1>7. iter' \in [element : Nodes \cup {Null}, index : Nat,
                   key : Keys \cup {Null}, changed : BOOLEAN]
    BY <1>3, <1>4, <1>5 DEF IInv, TypeOK
  <1> QED
    BY <1>3, <1>6, <1>7, IteratorStepKeeps

LEMMA IterFinishKeeps == IInv /\ IterFinish => IInv'
  <1> SUFFICES ASSUME IInv, IterFinish PROVE IInv'
    OBVIOUS
  <1>1. /\ BetweenCalls /\ UNCHANGED <<mapVars, callVars>>
        /\ iter # NoIterator /\ size = iter.index + 1
        /\ iter' = [iter EXCEPT !.key = Null]
    BY DEF IterFinish, AtEnd
  <1>2. /\ iter' \in [element : Nodes \cup {Null}, index : Nat,
                      key : Keys \cup {Null}, changed : BOOLEAN]
        /\ iter'.element = iter.element /\ iter'.index = iter.index
        /\ iter'.key = Null /\ iter'.changed = iter.changed
    BY <1>1 DEF IInv, TypeOK
  <1>3. ~ iter.changed => InPlace'
    BY <1>1, <1>2 DEF IInv, IterShape, InPlace, BetweenCalls, Before, mapVars
  <1>4. iter.element # Null
    BY <1>1 DEF IInv, IterShape
  <1> QED
    BY <1>1, <1>2, <1>3, <1>4, IteratorStepKeeps

(* Where no change has made the iterator stale, its element is a node, and  *)
(* only the last one has no link: there the size tells the end.             *)
LEMMA IterCrashKeeps == IInv /\ IterCrash => IInv'
  <1> SUFFICES ASSUME IInv, IterCrash PROVE IInv'
    OBVIOUS
  <1>1. PICK e : e = iter.element
    OBVIOUS
  <1>2. /\ BetweenCalls /\ iter # NoIterator /\ size # iter.index + 1
        /\ \/ e \notin alive /\ life' = "freedElement"
           \/ e \in alive /\ forward[e][0] = Null /\ life' = "nullElement"
        /\ UNCHANGED <<forward, node, alive, size, iter, callVars>>
    BY <1>1 DEF IterCrash, AtEnd
  <1>3. iter.changed
    <2> SUFFICES ASSUME ~ iter.changed PROVE FALSE
      BY DEF IInv, TypeOK
    <2> DEFINE S == {a \in alive : Before(a, e)}
    <2>1. InPlace
      BY <1>2 DEF IInv, IterShape, BetweenCalls
    <2>2. /\ e \in alive /\ forward[e][0] = Null /\ Closest(e)
          /\ HeadNode \notin alive /\ Null \notin alive
          /\ \A b \in alive : node[b].key \in Int
          /\ \A b \in alive \ {e} : node[b].key # node[e].key
          /\ IsFiniteSet(alive) /\ size = Cardinality(alive)
      BY <2>1, <1>1, <1>2, ConstantFacts
      DEF InPlace, IInv, TypeOK, NodesHeld, BottomShape, BetweenCalls, Linked
    <2>3. alive = S \cup {e}
      <3>1. \A b \in alive : ~ Before(e, b)
        BY <2>2 DEF Closest
      <3> QED
        BY <3>1, <2>2 DEF Before
    <2>4. IsFiniteSet(S) /\ e \notin S /\ Cardinality(S) = iter.index
      BY <2>1, <2>2, <1>1, FS_Subset DEF InPlace, Before
    <2>5. Cardinality(S \cup {e}) = iter.index + 1
      BY <2>4, FS_AddElement
    <2> QED
      BY <2>2, <2>3, <2>5, <1>2
  <1> QED
    BY <1>2, <1>3, DoneForKeeps DEF BetweenCalls, Ended, IInv, TypeOK

LEMMA IterFreeKeeps == IInv /\ IterFree => IInv'
  BY IteratorStepKeeps DEF IterFree, NoIterator

-----------------------------------------------------------------------------
LEMMA StepIInv == IInv /\ [Next]_vars => IInv'
  <1> SUFFICES ASSUME IInv, [Next]_vars PROVE IInv'
    OBVIOUS
  <1>1. CASE UNCHANGED vars
    <2> USE <1>1 DEF vars, mapVars, callVars
    <2>1. TypeOK' /\ CallShape' /\ OnlyStaleIteratorsCrash'
      BY DEF IInv, TypeOK, CallShape, OnlyStaleIteratorsCrash
    <2>2. NodesHeld' /\ BottomShape'
      BY MapUnchanged DEF IInv
    <2>3. ScanShape'
      BY DEF IInv, ScanShape, InBody, Linked, Sooner, Later, FreeMe
    <2>4. IterShape'
      BY IterUnchanged DEF IInv, InBody
    <2> QED
      BY <2>1, <2>2, <2>3, <2>4 DEF IInv
  <1>2. CASE Next
    BY <1>2, CreateKeeps, CallKeeps, SearchDownKeeps, SearchRightKeeps, SearchFreedKeeps,
       InsertReplaceKeeps, InsertNodeKeeps, InsertRefusedKeeps, RemoveNodeKeeps,
       RemoveNothingKeeps, FindHitKeeps, FindMissKeeps, LookKeeps, FreeBodyKeeps,
       FinishKeeps, IterBeginKeeps, IterIncrementKeeps, IterFinishKeeps, IterCrashKeeps,
       IterFreeKeeps
    DEF Next
  <1> QED
    BY <1>1, <1>2

(* IInv is an inductive invariant of the ordered map. *)
THEOREM InductiveInvariant == Spec => []IInv
  BY InitIInv, StepIInv, PTL DEF Spec

-----------------------------------------------------------------------------
(* What IInv says in the terms of the properties. *)
LEMMA IInvBottom == IInv => BottomIsTheMap
  <1> SUFFICES ASSUME IInv, life = "live" PROVE BottomIsTheMap
    BY DEF BottomIsTheMap
  <1>1. /\ size = Cardinality(alive)
        /\ \A a, b \in alive : a # b => node[a].key # node[b].key
        /\ \A a \in alive : node[a].key \in Int /\ a # HeadNode /\ a # Null
    BY ConstantFacts DEF IInv, TypeOK, NodesHeld
  <1>2. ASSUME NEW a \in Linked
        PROVE  LET after == {b \in alive : b # a /\ Before(a, b)}
                   next == forward[a][0]
               IN  IF after = {} THEN next = Null
                   ELSE next \in after /\ \A b \in after \ {next} : Before(next, b)
    <2> DEFINE after == {b \in alive : b # a /\ Before(a, b)}
    <2>1. after = {b \in alive : Before(a, b)}
      BY <1>1 DEF Before, Linked
    <2>2. Closest(a)
      BY DEF IInv, BottomShape
    <2>3. after = {} => forward[a][0] = Null
      BY <2>1, <2>2 DEF Closest
    <2>4. after # {} => /\ forward[a][0] \in after
                        /\ \A b \in after \ {forward[a][0]} : Before(forward[a][0], b)
      BY <2>1, <2>2, <1>1 DEF Closest
    <2> QED
      BY <2>3, <2>4
  <1> QED
    BY <1>1, <1>2 DEF BottomIsTheMap

LEMMA IInvLastComparison == IInv => LastComparisonDecides
  BY RemovePlaces DEF LastComparisonDecides

LEMMA IInvPrevious == IInv => PreviousEnclose
  BY DEF IInv, ScanShape, PreviousEnclose, Sooner, Later

LEMMA IInvIteration == IInv => IterationInOrder
  BY DEF IInv, IterShape, InPlace, IterationInOrder, BetweenCalls

(***************************************************************************)
(* Every variable keeps its type: in particular a map is never relinked to *)
(* anything but a node or NULL, and no level is out of range.              *)
(***************************************************************************)
THEOREM TypeCorrect == Spec => []TypeOK
  <1>1. IInv => TypeOK
    BY DEF IInv
  <1> QED
    BY <1>1, InductiveInvariant, PTL

(***************************************************************************)
(* After every insert and remove, of whatever heights, the bottom level    *)
(* links all nodes in the order of their distinct keys, and the size       *)
(* counts them.                                                            *)
(***************************************************************************)
THEOREM BottomAlwaysTheMap == Spec => []BottomIsTheMap
  BY InductiveInvariant, IInvBottom, PTL

(***************************************************************************)
(* On each level a search has left, the previous node it has noted and the *)
(* link of that node enclose the key it searches for.                      *)
(***************************************************************************)
THEOREM PreviousAlwaysEnclose == Spec => []PreviousEnclose
  BY InductiveInvariant, IInvPrevious, PTL

(***************************************************************************)
(* remove frees the node it was asked for or none: the last comparison of  *)
(* its loop, made on whatever level, tells whether the key is there.       *)
(***************************************************************************)
THEOREM LastComparisonAlwaysDecides == Spec => []LastComparisonDecides
  BY InductiveInvariant, IInvLastComparison, PTL

(***************************************************************************)
(* An iterator over a map that has not changed is at the key of its place. *)
(***************************************************************************)
THEOREM IterationAlwaysInOrder == Spec => []IterationInOrder
  BY InductiveInvariant, IInvIteration, PTL

(***************************************************************************)
(* Only an iterator that outlives a change of the map leads to a freed     *)
(* node or past the last one.                                              *)
(***************************************************************************)
THEOREM OnlyStaleCrash == Spec => []OnlyStaleIteratorsCrash
  <1>1. IInv => OnlyStaleIteratorsCrash
    BY DEF IInv
  <1> QED
    BY <1>1, InductiveInvariant, PTL

-----------------------------------------------------------------------------
(***************************************************************************)
(* SkipListMap implements OrderedMap: insert, remove and find take effect  *)
(* in the step that answers; the rounds of the search, the iterator and    *)
(* the steps that end the program are stutters.                            *)
(***************************************************************************)

(* The abstract map and the abstract phase, as ImplementsOrderedMap has them.*)
MapNow == [k \in Keys |-> IF life = "freed" THEN Null ELSE ValueOf(k)]
PhaseNow == CASE pc = "idle" -> "idle" [] pc = "body" -> "called" [] pc = "return" -> "done"
Exists == life \notin {"none", "freed"}

(* ValueOf finds the value of every node, and NULL for the other keys. *)
ValuesFound ==
    /\ \A a \in alive : ValueOf(node[a].key) = node[a].value
    /\ \A k \in Keys : (~ \E a \in alive : node[a].key = k) => ValueOf(k) = Null

(* That is so because the keys of the nodes are distinct. *)
LEMMA ValueFacts == NodesHeld /\ life = "live" => ValuesFound
  <1> SUFFICES ASSUME NodesHeld, life = "live" PROVE ValuesFound
    OBVIOUS
  <1>1. ASSUME NEW a \in alive PROVE ValueOf(node[a].key) = node[a].value
    <2> DEFINE c == CHOOSE b \in alive : node[b].key = node[a].key
    <2>1. c \in alive /\ node[c].key = node[a].key
      OBVIOUS
    <2>2. c = a
      BY <2>1 DEF NodesHeld
    <2> QED
      BY <2>2 DEF ValueOf
  <1> QED
    BY <1>1 DEF ValueOf, ValuesFound

LEMMA ValueFactsNext == (NodesHeld /\ life = "live" => ValuesFound)'
  BY ValueFacts, PTL

(* So a key is present exactly if a node has it. *)
LEMMA PresentFacts ==
    ASSUME NodesHeld, life = "live"
    PROVE  /\ \A k \in Keys : MapNow[k] = ValueOf(k)
           /\ OM!Present = {k \in Keys : MapNow[k] # Null}
           /\ OM!Present = {node[a].key : a \in alive}
           /\ \A k \in Keys : k \in OM!Present <=> \E a \in alive : node[a].key = k
  <1>1. \A k \in Keys : MapNow[k] = ValueOf(k)
    BY DEF MapNow
  <1>2. OM!Present = {k \in Keys : MapNow[k] # Null}
    BY DEF OM!Present, MapNow
  <1>3. ASSUME NEW k \in Keys
        PROVE  k \in OM!Present <=> \E a \in alive : node[a].key = k
    <2>1. CASE \E a \in alive : node[a].key = k
      <3>1. PICK a \in alive : node[a].key = k
        BY <2>1
      <3>2. ValueOf(k) = node[a].value /\ node[a].value # Null
        BY <3>1, ValueFacts, ConstantFacts DEF NodesHeld, ValuesFound
      <3> QED
        BY <1>1, <1>2, <2>1, <3>2
    <2>2. CASE ~ \E a \in alive : node[a].key = k
      BY <1>1, <1>2, <2>2, ValueFacts DEF ValuesFound
    <2> QED
      BY <2>1, <2>2
  <1>4. OM!Present = {node[a].key : a \in alive}
    BY <1>2, <1>3 DEF NodesHeld
  <1> QED
    BY <1>1, <1>2, <1>3, <1>4

(* There are as many keys as nodes. *)
LEMMA PresentCounted ==
    ASSUME NodesHeld, life = "live"
    PROVE  Cardinality(OM!Present) = size
  <1> DEFINE f == [a \in alive |-> node[a].key]
  <1>1. f \in Bijection(alive, OM!Present)
    BY PresentFacts DEF NodesHeld, Bijection, Injection, Surjection, IsInjective
  <1>2. ExistsBijection(alive, OM!Present)
    BY <1>1 DEF ExistsBijection
  <1> QED
    BY <1>2, FS_Bijection DEF NodesHeld

(* A step that leaves the nodes, and the call's place, alone. *)
LEMMA MapStays ==
    ASSUME UNCHANGED <<node, alive>>, life' = "freed" <=> life = "freed"
    PROVE  MapNow' = MapNow
  BY DEF MapNow, ValueOf

(* What a step is for OrderedMap, by the names of this module. *)
LEMMA StutterRefines ==
    ASSUME UNCHANGED <<node, alive, pc, op, ret>>, life = "live", life' \notin {"none", "freed"}
    PROVE  UNCHANGED OM!vars
  <1>1. MapNow' = MapNow /\ PhaseNow' = PhaseNow /\ Exists' = Exists
    BY MapStays DEF PhaseNow, Exists
  <1> QED
    BY <1>1 DEF OM!vars, MapNow, PhaseNow, Exists

LEMMA AnswerTakesEffect ==
    ASSUME NEW name, NEW v, pc = "body", op.name = name, Answer(v)
    PROVE  OM!TakesEffect(name, v)
  BY DEF OM!TakesEffect, Answer

LEMMA InitRefines == Init => OM!Init
  <1> SUFFICES ASSUME Init PROVE OM!Init
    OBVIOUS
  <1>1. MapNow = [k \in Keys |-> Null]
    BY DEF Init, MapNow, ValueOf
  <1> QED
    BY <1>1 DEF Init, OM!Init, OM!EmptyMap, OM!NoRequest, NoCall, MapNow

LEMMA CreateRefines == IInv /\ Create => OM!Create
  <1> SUFFICES ASSUME IInv, Create PROVE OM!Create
    OBVIOUS
  <1>1. MapNow' = [k \in Keys |-> Null]
    BY DEF Create, MapNow, ValueOf
  <1> QED
    BY <1>1 DEF Create, callVars, OM!Create, OM!EmptyMap, MapNow

LEMMA CallRefines ==
    ASSUME IInv, NEW c \in Calls, Call(c)
    PROVE  OM!Call(c)
  <1>1. MapNow' = MapNow
    BY MapStays DEF Call, mapVars
  <1> QED
    BY <1>1 DEF Call, mapVars, OM!Call, MapNow

LEMMA InsertRefines ==
    IInv /\ (InsertReplace \/ InsertNode \/ InsertRefused) => OM!Insert
  <1> SUFFICES ASSUME IInv, InsertReplace \/ InsertNode \/ InsertRefused PROVE OM!Insert
    OBVIOUS
  <1>1. /\ InBody({"insert"}) /\ life' = life
        /\ op \in Calls /\ op.key \in Keys /\ op.value \in Values
    BY CallFacts
    DEF InsertReplace, InsertNode, InsertRefused, Searching, InBody, mapVars, SearchNames,
        IInv, CallShape
  <1>2. CASE InsertRefused
    <2>1. MapNow' = MapNow
      BY <1>2, MapStays DEF InsertRefused, mapVars
    <2>2. OM!TakesEffect("insert", OM!Failure)
      BY <1>1, <1>2, AnswerTakesEffect DEF InsertRefused, InBody, OM!Failure, Failure
    <2> QED
      BY <1>1, <2>1, <2>2 DEF OM!Insert, MapNow
  <1>3. CASE InsertReplace \/ InsertNode
    <2>1. OM!TakesEffect("insert", OM!Success)
      BY <1>1, <1>3, AnswerTakesEffect
      DEF InsertReplace, InsertNode, InBody, OM!Success, Success
    <2>2. PICK a \in alive' :
            /\ node'[a].key = op.key /\ node'[a].value = op.value
            /\ \A b \in alive' \ {a} : b \in alive /\ node'[b] = node[b]
            /\ \A b \in alive : \E d \in alive' : node'[d].key = node[b].key
            /\ a \in alive => node[a].key = op.key
      <3>1. CASE InsertReplace
        <4>1. Ahead \in alive /\ Ahead \in Nodes /\ node[Ahead].key = op.key
          BY <3>1, SearchFacts DEF InsertReplace, IInv, TypeOK
        <4>2. /\ alive' = alive
              /\ node' = [node EXCEPT ![Ahead] = [node[Ahead] EXCEPT !.value = op.value]]
          BY <3>1 DEF InsertReplace
        <4>3. /\ [node[Ahead] EXCEPT !.value = op.value].key = node[Ahead].key
              /\ [node[Ahead] EXCEPT !.value = op.value].value = op.value
          BY <4>1 DEF IInv, TypeOK
        <4> QED
          BY <4>1, <4>2, <4>3 DEF IInv, TypeOK
      <3>2. CASE InsertNode
        <4>1. PICK a \in Fresh, h \in Heights :
                /\ alive' = alive \cup {a}
                /\ node' = [node EXCEPT ![a] =
                                [key |-> op.key, value |-> op.value, height |-> h]]
          BY <3>2 DEF InsertNode
        <4>2. a \in Nodes /\ a \notin alive
          BY DEF Fresh
        <4> QED
          BY <4>1, <4>2 DEF IInv, TypeOK
      <3> QED
        BY <1>3, <3>1, <3>2
    <2>3. NodesHeld /\ NodesHeld' /\ life = "live" /\ life' = "live"
      BY <1>1, StepIInv, <1>3 DEF IInv, InBody, Next
    <2>4. ASSUME NEW k \in Keys
          PROVE  ValueOf(k)' = IF k = op.key THEN op.value ELSE ValueOf(k)
      <3>1. ValuesFound /\ ValuesFound'
        BY <2>3, ValueFacts, ValueFactsNext
      <3>2. CASE k = op.key
        BY <2>2, <3>1, <3>2 DEF ValuesFound
      <3>3. CASE k # op.key /\ \E b \in alive' : node'[b].key = k
        <4>1. PICK b \in alive' : node'[b].key = k
          BY <3>3
        <4>2. b \in alive /\ node'[b] = node[b]
          BY <2>2, <3>3, <4>1
        <4> QED
          BY <3>1, <3>3, <4>1, <4>2 DEF ValuesFound
      <3>4. CASE k # op.key /\ ~ \E b \in alive' : node'[b].key = k
        BY <2>2, <3>1, <3>4 DEF ValuesFound
      <3> QED
        BY <3>2, <3>3, <3>4
    <2>5. MapNow' = [MapNow EXCEPT ![op.key] = op.value]
      BY <1>1, <2>3, <2>4 DEF MapNow
    <2> QED
      BY <1>1, <2>1, <2>5 DEF OM!Insert, MapNow
  <1> QED
    BY <1>2, <1>3

LEMMA RemoveRefines == IInv /\ (RemoveNode \/ RemoveNothing) => OM!Remove
  <1> SUFFICES ASSUME IInv, RemoveNode \/ RemoveNothing PROVE OM!Remove
    OBVIOUS
  <1>1. /\ InBody({"remove"}) /\ life = "live" /\ life' = life
        /\ op \in Calls /\ op.key \in Keys /\ NodesHeld
    BY CallFacts DEF RemoveNode, RemoveNothing, InBody, mapVars, SearchNames, IInv, CallShape
  <1>2. CASE RemoveNothing
    <2>1. ~ \E a \in alive : node[a].key = op.key
      <3>1. CASE size = 0
        BY <1>1, <3>1, FS_EmptySet DEF NodesHeld
      <3>2. CASE scan.level < 0 /\ scan.cmp # 0
        BY <1>1, <3>2, RemovePlaces
      <3> QED
        BY <1>2, <3>1, <3>2 DEF RemoveNothing
    <2>2. op.key \notin OM!Present /\ MapNow[op.key] = Null
      BY <1>1, <2>1, PresentFacts
    <2>3. MapNow' = MapNow
      BY <1>2, MapStays DEF RemoveNothing, mapVars
    <2>4. [MapNow EXCEPT ![op.key] = Null] = MapNow
      BY <2>2 DEF MapNow
    <2>5. OM!TakesEffect("remove", OM!Failure)
      BY <1>1, <1>2, AnswerTakesEffect DEF RemoveNothing, InBody, OM!Failure, Failure
    <2> QED
      BY <1>1, <2>2, <2>3, <2>4, <2>5 DEF OM!Remove, MapNow
  <1>3. CASE RemoveNode
    <2>1. PICK f : f = FreeMe
      OBVIOUS
    <2>2. /\ f \in alive /\ node[f].key = op.key
          /\ alive' = alive \ {f}
          /\ \A b \in alive' : node'[b] = node[b] /\ b \in alive /\ node[b].key # op.key
      BY <1>1, <1>3, <2>1, RemovePlaces DEF RemoveNode, IInv, TypeOK
    <2>3. op.key \in OM!Present
      BY <1>1, <2>2, PresentFacts
    <2>4. OM!TakesEffect("remove", OM!Success)
      BY <1>1, <1>3, AnswerTakesEffect DEF RemoveNode, InBody, OM!Success, Success
    <2>5. ValuesFound /\ ValuesFound'
      <3>1. NodesHeld'
        BY <1>3, StepIInv DEF Next, IInv
      <3> QED
        BY <1>1, <3>1, ValueFacts, ValueFactsNext
    <2>6. ASSUME NEW k \in Keys
          PROVE  ValueOf(k)' = IF k = op.key THEN Null ELSE ValueOf(k)
      <3>1. CASE k # op.key /\ \E b \in alive' : node'[b].key = k
        <4>1. PICK b \in alive' : node'[b].key = k
          BY <3>1
        <4> QED
          BY <2>2, <2>5, <3>1, <4>1 DEF ValuesFound
      <3>2. CASE k = op.key \/ ~ \E b \in alive' : node'[b].key = k
        BY <2>2, <2>5, <3>2 DEF ValuesFound
      <3> QED
        BY <3>1, <3>2
    <2>7. MapNow' = [MapNow EXCEPT ![op.key] = Null]
      BY <1>1, <2>6 DEF MapNow
    <2> QED
      BY <1>1, <2>3, <2>4, <2>7 DEF OM!Remove, MapNow
  <1> QED
    BY <1>2, <1>3

(* OrderedMap has the Cardinality of FiniteSets under a name of its own. *)
LEMMA SameCardinality == \A S : OM!Cardinality(S) = Cardinality(S)
  BY DEF OM!Cardinality, Cardinality

LEMMA LookRefines == IInv /\ (FindHit \/ FindMiss \/ Look) => OM!Look
  <1> SUFFICES ASSUME IInv, FindHit \/ FindMiss \/ Look PROVE OM!Look
    OBVIOUS
  <1>1. /\ life = "live" /\ life' = life /\ pc = "body" /\ op \in Calls /\ NodesHeld
        /\ MapNow' = MapNow
    BY MapStays DEF FindHit, FindMiss, Look, Searching, InBody, mapVars, IInv, CallShape
  <1>2. ASSUME \/ op.key \in Keys /\ OM!TakesEffect("find", ValueOf(op.key))
               \/ OM!TakesEffect("contains", OM!Truth(op.key \in OM!Present))
               \/ OM!TakesEffect("size", Cardinality(OM!Present))
               \/ OM!TakesEffect("empty", OM!Truth(OM!Present = {}))
               \/ OM!TakesEffect("front", OM!Least)
        PROVE  OM!Look
    <2>1. UNCHANGED <<[k \in Keys |-> IF life = "freed" THEN Null ELSE ValueOf(k)],
                      life \notin {"none", "freed"}>>
      BY <1>1 DEF MapNow
    <2>2. op.key \in Keys => [k \in Keys |->
                IF life = "freed" THEN Null ELSE ValueOf(k)][op.key] = ValueOf(op.key)
      BY <1>1
    <2> QED
      BY <2>1, <2>2, <1>2, SameCardinality DEF OM!Look
  <1>3. CASE FindHit
    <2>1. /\ op.key \in Keys /\ Ahead \in alive /\ node[Ahead].key = op.key
      BY <1>3, SearchFacts DEF FindHit
    <2>2. ValueOf(op.key) = node[Ahead].value /\ op.key \in OM!Present
      BY <1>1, <2>1, PresentFacts, ValueFacts DEF ValuesFound
    <2>3. OM!Truth(op.key \in OM!Present) = CTrue
      BY <2>2 DEF OM!Truth, OM!CTrue, CTrue
    <2>4. \/ op.name = "find" /\ Answer(ValueOf(op.key))
          \/ op.name = "contains" /\ Answer(OM!Truth(op.key \in OM!Present))
      BY <1>3, <2>2, <2>3 DEF FindHit
    <2> QED
      BY <1>1, <1>2, <2>1, <2>4, AnswerTakesEffect
  <1>4. CASE FindMiss
    <2>1. /\ op.key \in Keys /\ \A b \in alive : node[b].key # op.key
      BY <1>4, MissPlaces DEF FindMiss, InBody
    <2>2. ValueOf(op.key) = Null /\ op.key \notin OM!Present
      BY <1>1, <2>1, PresentFacts, ValueFacts DEF ValuesFound
    <2>3. OM!Truth(op.key \in OM!Present) = CFalse
      BY <2>2 DEF OM!Truth, OM!CFalse, CFalse
    <2>4. \/ op.name = "find" /\ Answer(ValueOf(op.key))
          \/ op.name = "contains" /\ Answer(OM!Truth(op.key \in OM!Present))
      BY <1>4, <2>2, <2>3 DEF FindMiss, InBody
    <2> QED
      BY <1>1, <1>2, <2>1, <2>4, AnswerTakesEffect
  <1>5. CASE Look
    <2>1. CASE InBody({"size"}) /\ Answer(size)
      BY <1>1, <1>2, <2>1, PresentCounted, AnswerTakesEffect DEF InBody
    <2>2. CASE InBody({"empty"}) /\ Answer(Truth(size = 0))
      <3>1. size = 0 <=> alive = {}
        BY <1>1, FS_EmptySet DEF NodesHeld
      <3>2. alive = {} <=> OM!Present = {}
        BY <1>1, PresentFacts
      <3>3. Truth(size = 0) = OM!Truth(OM!Present = {})
        BY <3>1, <3>2 DEF Truth, OM!Truth, CTrue, CFalse, OM!CTrue, OM!CFalse
      <3> QED
        BY <1>1, <1>2, <2>2, <3>3, AnswerTakesEffect DEF InBody
    <2>3. CASE /\ InBody({"front"})
               /\ Answer(IF forward[HeadNode][0] = Null THEN Null
                         ELSE node[forward[HeadNode][0]].key)
      <3>1. PICK f : f = forward[HeadNode][0]
        OBVIOUS
      <3>2. /\ Closest(HeadNode) /\ HeadNode \notin alive /\ Null \notin alive
            /\ \A b \in alive : node[b].key \in Int /\ Before(HeadNode, b)
        BY <1>1, ConstantFacts DEF IInv, TypeOK, BottomShape, NodesHeld, Linked, Before
      <3>3. CASE f = Null
        <4>1. OM!Present = {}
          BY <3>1, <3>2, <3>3, <1>1, PresentFacts DEF Closest
        <4> QED
          BY <1>1, <1>2, <2>3, <3>1, <3>3, <4>1, AnswerTakesEffect DEF InBody, OM!Least
      <3>4. CASE f # Null
        <4>1. f \in alive /\ \A b \in alive : node[f].key <= node[b].key
          BY <3>1, <3>2, <3>4 DEF Closest, Before
        <4>2. /\ node[f].key \in OM!Present
              /\ \A k \in OM!Present : k \in Int /\ node[f].key <= k
          BY <4>1, <3>2, <1>1, PresentFacts
        <4>3. OM!Least = node[f].key
          <5> DEFINE m == CHOOSE k \in OM!Present : \A j \in OM!Present : k <= j
          <5>1. m \in OM!Present /\ \A j \in OM!Present : m <= j
            BY <4>2
          <5>2. m = node[f].key
            BY <5>1, <4>2
          <5> QED
            BY <4>2, <5>2 DEF OM!Least
        <4> QED
          BY <1>1, <1>2, <2>3, <3>1, <3>4, <4>3, AnswerTakesEffect DEF InBody
      <3> QED
        BY <3>3, <3>4
    <2> QED
      BY <1>5, <2>1, <2>2, <2>3 DEF Look
  <1> QED
    BY <1>3, <1>4, <1>5

LEMMA FreeRefines ==
    IInv /\ FreeBody => OM!Free \/ UNCHANGED OM!vars
  <1> SUFFICES ASSUME IInv, FreeBody PROVE OM!Free \/ UNCHANGED OM!vars
    OBVIOUS
  <1>1. CASE life' = "freed" /\ Answer(Null)
    <2>1. OM!TakesEffect("free", Null) \/ OM!TakesEffect("deep_free", Null)
      BY <1>1, AnswerTakesEffect DEF FreeBody, InBody
    <2>2. MapNow' = [k \in Keys |-> Null]
      BY <1>1 DEF MapNow
    <2> QED
      BY <1>1, <2>1, <2>2 DEF OM!Free, OM!EmptyMap, MapNow
  <1>2. CASE life' = "nullInDeepFree" /\ UNCHANGED <<alive, callVars>>
    BY <1>2, StutterRefines DEF FreeBody, InBody, callVars
  <1> QED
    BY <1>1, <1>2 DEF FreeBody

LEMMA ReturnRefines == IInv /\ Finish => OM!Return
  <1> SUFFICES ASSUME IInv, Finish PROVE OM!Return
    OBVIOUS
  <1>1. MapNow' = MapNow
    BY MapStays DEF Finish, mapVars
  <1> QED
    BY <1>1 DEF Finish, mapVars, OM!Return, OM!NoRequest, NoCall, MapNow

LEMMA RestRefines ==
    ASSUME IInv,
           \/ SearchDown \/ SearchRight \/ SearchFreed
           \/ IterBegin \/ IterIncrement \/ IterFinish \/ IterCrash \/ IterFree
    PROVE  UNCHANGED OM!vars
  <1>1. life = "live" /\ UNCHANGED <<node, alive, pc, op, ret>>
    BY DEF SearchDown, SearchRight, SearchFreed, Searching, InBody, BetweenCalls,
           IterBegin, IterIncrement, IterFinish, IterCrash, IterFree, mapVars, callVars
  <1>2. life' \notin {"none", "freed"}
    BY <1>1 DEF SearchDown, SearchRight, SearchFreed,
                IterBegin, IterIncrement, IterFinish, IterCrash, IterFree, mapVars
  <1> QED
    BY <1>1, <1>2, StutterRefines

LEMMA StepRefines == IInv /\ [Next]_vars => [OM!Next]_(OM!vars)
  <1> SUFFICES ASSUME IInv, [Next]_vars PROVE OM!Next \/ UNCHANGED OM!vars
    OBVIOUS
  <1>1. CASE UNCHANGED vars
    <2>1. MapNow' = MapNow /\ PhaseNow' = PhaseNow /\ Exists' = Exists
      BY <1>1, MapStays DEF vars, mapVars, callVars, PhaseNow, Exists
    <2> QED
      BY <1>1, <2>1 DEF vars, mapVars, callVars, OM!vars, MapNow, PhaseNow, Exists
  <1>2. CASE Next
    BY <1>2, CreateRefines, CallRefines, InsertRefines, RemoveRefines, LookRefines,
       FreeRefines, ReturnRefines, RestRefines
    DEF Next, OM!Next
  <1> QED
    BY <1>1, <1>2

(***************************************************************************)
(* Whatever heights its nodes get and wherever its searches go, the skip   *)
(* list answers as an ordered map does, until it follows a freed link.     *)
(***************************************************************************)
THEOREM SkipListImplementsOrderedMap == Spec => ImplementsOrderedMap
  BY InitRefines, StepRefines, InductiveInvariant, PTL
  DEF Spec, ImplementsOrderedMap, OM!Spec
=============================================================================
