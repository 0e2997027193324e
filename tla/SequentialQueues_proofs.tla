----------------------- MODULE SequentialQueues_proofs -----------------------
(***************************************************************************)
(* Proofs about the fixed and dynamic queues, the stack, the ring, the     *)
(* forward list, the vector and the priority queue of                      *)
(* MCSequentialContainers, for any elements, priorities and capacities.    *)
(*                                                                         *)
(* Each has an invariant of its own that ties its counter and indices to   *)
(* what it holds; from it follows, call by call, that what the client sees *)
(* changes and answers as a sequence does; for the heap, as a bag does.    *)
(***************************************************************************)
EXTENDS MCSequentialContainers, CommonLemmas, FiniteSetTheorems

(* SequenceSpec and the modules of the containers bring copies of the         *)
(* operators on sequences.                                                   *)
LEMMA SameInSequence ==
    /\ \A s, i, x : Seq0!InsertAt(s, i, x) = InsertAt(s, i, x)
    /\ \A s, i : Seq0!RemoveAt(s, i) = RemoveAt(s, i)
    /\ \A s : Seq0!Last(s) = Last(s) /\ Seq0!Front(s) = Front(s)
    /\ \A s, P : Seq0!Matching(s, P) = Matching(s, P) /\ ListM!Matching(s, P) = Matching(s, P)
    /\ Seq0!CTrue = ListM!CTrue /\ Seq0!CFalse = ListM!CFalse
  BY DEF Seq0!InsertAt, InsertAt, Seq0!RemoveAt, RemoveAt, Seq0!Last, Last, Seq0!Front, Front,
         Seq0!Matching, ListM!Matching, Matching, Seq0!CTrue, ListM!CTrue, Seq0!CFalse, ListM!CFalse

-----------------------------------------------------------------------------
(* The fixed and the dynamic queue: the counter is the length of the list,    *)
(* and in a fixed queue within the capacity.  A swap may bring the other      *)
(* queue to the front, so that the invariants speak of both.                  *)
FixedQueues == [list : Seq(Elements), size : Nat, capacity : {Capacity, OtherCapacity}]
FixedCounted(q) == q.size = Len(q.list) /\ q.size <= q.capacity

FixedInv ==
    /\ obj \in FixedQueues /\ FixedCounted(obj)
    /\ other \in FixedQueues /\ FixedCounted(other)
    /\ life \in FixedM!Lives

DynamicQueues == [list : Seq(Elements), size : Nat]
DynamicCounted(q) == q.size = Len(q.list)

DynamicInv ==
    /\ obj \in DynamicQueues /\ DynamicCounted(obj)
    /\ other \in DynamicQueues /\ DynamicCounted(other)
    /\ life \in DynamicM!Lives

(* How the answers of the two queues at their ends are those of a sequence.  *)
LEMMA EndsAre ==
    ASSUME NEW list \in Seq(Elements)
    PROVE  /\ Null \notin Elements
           /\ list = <<>> => FixedM!ListBack(list) = Null /\ FixedM!ListFront(list) = Null
           /\ list # <<>> => /\ FixedM!ListBack(list) = Seq0!Last(list)
                             /\ FixedM!ListBack(list) \in Elements
                             /\ FixedM!ListFront(list) = Head(list)
                             /\ FixedM!ListPopBack(list) = Seq0!Front(list)
                             /\ FixedM!ListPopBack(list) \in Seq(Elements)
                             /\ Len(FixedM!ListPopBack(list)) = Len(list) - 1
           /\ DynamicM!ListBack(list) = FixedM!ListBack(list)
           /\ DynamicM!ListFront(list) = FixedM!ListFront(list)
           /\ DynamicM!ListPopBack(list) = FixedM!ListPopBack(list)
  <1>1. /\ FixedM!ListBack(list) = ListBack(list)
        /\ FixedM!ListFront(list) = ListFront(list)
        /\ FixedM!ListPopBack(list) = ListPopBack(list)
    BY DEF FixedM!ListBack, FixedM!ListFront, FixedM!ListPopBack, ListBack, ListFront, ListPopBack
  <1>2. /\ DynamicM!ListBack(list) = ListBack(list)
        /\ DynamicM!ListFront(list) = ListFront(list)
        /\ DynamicM!ListPopBack(list) = ListPopBack(list)
    BY DEF DynamicM!ListBack, DynamicM!ListFront, DynamicM!ListPopBack, ListBack, ListFront, ListPopBack
  <1>3. /\ ListBack(list) = (IF list = <<>> THEN Null ELSE list[Len(list)])
        /\ ListFront(list) = (IF list = <<>> THEN Null ELSE list[1])
        /\ list # <<>> => ListBack(list) \in Elements
    BY EndsFacts
  <1>4. list # <<>> => /\ ListPopBack(list) \in Seq(Elements)
                       /\ Len(ListPopBack(list)) = Len(list) - 1
    BY PopBackFacts
  <1>5. list # <<>> => /\ Seq0!Last(list) = list[Len(list)] /\ Head(list) = list[1]
                       /\ Seq0!Front(list) = ListPopBack(list)
    BY SameInSequence DEF Last, Front, ListPopBack
  <1> QED
    BY <1>1, <1>2, <1>3, <1>4, <1>5, SequentialAssumption

(* A call of the queue as a call of the sequence. *)
FixedFollows == Items = obj.list /\ Items' = obj'.list /\ OtherItems = other.list /\ OtherItems' = other'.list

LEMMA FixedInitInv == FixedM!Init => FixedInv
  BY SequentialAssumption
  DEF FixedM!Init, FixedM!ClientInit, FixedM!New, FixedM!ListInit, FixedInv, FixedQueues, FixedCounted, FixedM!Lives

LEMMA FixedPushStep ==
    ASSUME FixedInv, NEW x \in Elements, FixedM!Push(x)
    PROVE  FixedInv' /\ (FixedFollows => Seq0!Push(x))
  <1>1. PICK ok \in FixedM!Malloc :
            /\ obj' = IF obj.size < obj.capacity /\ ok
                        THEN [obj EXCEPT !.list = FixedM!ListPushFront(@, x), !.size = @ + 1]
                        ELSE obj
            /\ FixedM!Did("push_front", x, FixedM!Bool(obj.size < obj.capacity /\ ok))
    BY DEF FixedM!Push
  <1>2. other' = other /\ life' = life
    BY <1>1 DEF FixedM!Did
  <1>3. ok \in BOOLEAN /\ Seq0!CTrue = FixedM!CTrue /\ Seq0!CFalse = FixedM!CFalse
    BY DEF FixedM!Malloc, Seq0!CTrue, FixedM!CTrue, Seq0!CFalse, FixedM!CFalse
  <1>4. CASE obj.size < obj.capacity /\ ok
    <2>1. obj' = [obj EXCEPT !.list = FixedM!ListPushFront(@, x), !.size = @ + 1]
      BY <1>1, <1>4
    <2>2. FixedM!ListPushFront(obj.list, x) = <<x>> \o obj.list
      BY DEF FixedM!ListPushFront
    <2>3. <<x>> \o obj.list \in Seq(Elements) /\ Len(<<x>> \o obj.list) = Len(obj.list) + 1
      BY DEF FixedInv, FixedQueues
    <2>4. obj' = [list |-> <<x>> \o obj.list, size |-> obj.size + 1, capacity |-> obj.capacity]
      BY <2>1, <2>2 DEF FixedInv, FixedQueues
    <2>5. obj.size \in Nat /\ obj.capacity \in Nat /\ obj.capacity \in {Capacity, OtherCapacity}
      BY SequentialAssumption DEF FixedInv, FixedQueues
    <2>6. obj' \in FixedQueues /\ FixedCounted(obj')
      BY <1>4, <2>3, <2>4, <2>5 DEF FixedInv, FixedQueues, FixedCounted
    <2>7. last' = [op |-> "push_front", arg |-> x, answer |-> FixedM!CTrue]
      BY <1>1, <1>4 DEF FixedM!Did, FixedM!Makes, FixedM!Bool
    <2>8. FixedFollows => Seq0!Push(x)
      BY <1>2, <1>3, <2>4, <2>7 DEF FixedFollows, Seq0!Push, Seq0!Call
    <2> QED
      BY <1>2, <2>6, <2>8 DEF FixedInv, FixedCounted
  <1>5. CASE ~(obj.size < obj.capacity /\ ok)
    <2>1. obj' = obj
      BY <1>1, <1>5
    <2>2. last' = [op |-> "push_front", arg |-> x, answer |-> FixedM!CFalse]
      BY <1>1, <1>5 DEF FixedM!Did, FixedM!Makes, FixedM!Bool
    <2>3. FixedFollows => Seq0!Call("push_front", x, Seq0!CFalse, Items)
      BY <1>2, <1>3, <2>1, <2>2 DEF FixedFollows, Seq0!Call
    <2>4. FixedFollows => Seq0!Push(x)
      BY <2>3 DEF Seq0!Push
    <2> QED
      BY <1>2, <2>1, <2>4 DEF FixedInv, FixedCounted
  <1> QED
    BY <1>4, <1>5

LEMMA FixedPopStep ==
    ASSUME FixedInv, FixedM!Pop
    PROVE  FixedInv' /\ (FixedFollows => Seq0!Take)
  <1>1. /\ obj.list \in Seq(Elements) /\ obj.size = Len(obj.list) /\ obj.size \in Nat
        /\ obj.capacity \in {Capacity, OtherCapacity} /\ obj.size <= obj.capacity /\ obj.capacity \in Nat
    BY SequentialAssumption DEF FixedInv, FixedQueues, FixedCounted
  <1>2. CASE obj.size <= 0
    <2>1. obj.list = <<>>
      BY <1>1, <1>2
    <2>2. /\ UNCHANGED <<obj, other, life>>
          /\ last' = [op |-> "pop_back", arg |-> Null, answer |-> Null]
      BY <1>2 DEF FixedM!Pop, FixedM!Did, FixedM!Makes
    <2> QED
      BY <2>1, <2>2 DEF FixedInv, FixedCounted, FixedFollows, Seq0!Take, Seq0!Call
  <1>3. CASE ~(obj.size <= 0)
    <2>1. obj.list # <<>>
      BY <1>1, <1>3
    <2> DEFINE back == FixedM!ListBack(obj.list)
               rest == FixedM!ListPopBack(obj.list)
    <2>2. /\ back = Seq0!Last(obj.list) /\ back # Null
          /\ rest = Seq0!Front(obj.list) /\ rest \in Seq(Elements) /\ Len(rest) = Len(obj.list) - 1
      BY <1>1, <2>1, EndsAre
    <2>3. /\ obj' = [obj EXCEPT !.list = rest, !.size = @ - 1]
          /\ UNCHANGED <<other, life>>
          /\ last' = [op |-> "pop_back", arg |-> Null, answer |-> back]
      BY <1>3, <2>2 DEF FixedM!Pop, FixedM!Did, FixedM!Makes
    <2> HIDE DEF back, rest
    <2>4. obj' = [list |-> rest, size |-> obj.size - 1, capacity |-> obj.capacity]
      BY <2>3 DEF FixedInv, FixedQueues
    <2>5. obj.size - 1 \in Nat /\ obj.size - 1 <= obj.capacity /\ obj.size - 1 = Len(rest)
      BY <1>1, <1>3, <2>2
    <2>6. obj' \in FixedQueues /\ FixedCounted(obj')
      BY <1>1, <2>2, <2>4, <2>5 DEF FixedQueues, FixedCounted
    <2>7. FixedFollows => Seq0!Take
      BY <2>1, <2>2, <2>3, <2>4 DEF FixedFollows, Seq0!Take, Seq0!Call
    <2> QED
      BY <2>3, <2>6, <2>7 DEF FixedInv, FixedCounted
  <1> QED
    BY <1>2, <1>3

(* front answers from the back of the list and back from its front. *)
LEMMA FixedLookStep ==
    ASSUME FixedInv, FixedM!QueueFront \/ FixedM!QueueBack \/ FixedM!Size
    PROVE  FixedInv' /\ (FixedFollows => [Seq0!Next]_(Seq0!vars))
  <1>1. obj.list \in Seq(Elements) /\ obj.size = Len(obj.list) /\ obj.size \in Nat
    BY DEF FixedInv, FixedQueues, FixedCounted
  <1>2. UNCHANGED <<obj, other, life>>
    BY DEF FixedM!QueueFront, FixedM!QueueBack, FixedM!Size, FixedM!Did
  <1>3. FixedInv'
    BY <1>2 DEF FixedInv, FixedCounted
  <1>4. CASE FixedM!QueueFront \/ FixedM!QueueBack
    <2>1. CASE obj.list = <<>>
      <3>1. \E op \in {"front", "back"} : last' = [op |-> op, arg |-> Null, answer |-> Null]
        BY <1>1, <1>4, <2>1 DEF FixedM!QueueFront, FixedM!QueueBack, FixedM!Did, FixedM!Makes
      <3> QED
        BY <1>2, <1>3, <2>1, <3>1 DEF FixedFollows, Seq0!Next, Seq0!Take, Seq0!Call
    <2>2. CASE obj.list # <<>>
      <3>1. /\ ~(obj.size <= 0)
            /\ FixedM!ListBack(obj.list) = Seq0!Last(obj.list)
            /\ FixedM!ListFront(obj.list) = Head(obj.list)
        BY <1>1, <2>2, EndsAre
      <3>2. \/ last' = [op |-> "back", arg |-> Null, answer |-> Seq0!Last(obj.list)]
            \/ last' = [op |-> "front", arg |-> Null, answer |-> Head(obj.list)]
        BY <1>4, <3>1 DEF FixedM!QueueFront, FixedM!QueueBack, FixedM!Did, FixedM!Makes
      <3>3. FixedFollows => \/ Seq0!Call("back", Null, Seq0!Last(Items), Items)
                            \/ Seq0!Call("front", Null, Head(Items), Items)
        BY <1>2, <3>2 DEF FixedFollows, Seq0!Call
      <3>4. FixedFollows => Seq0!Take
        BY <2>2, <3>3 DEF FixedFollows, Seq0!Take
      <3> QED
        BY <1>3, <3>4 DEF Seq0!Next
    <2> QED
      BY <2>1, <2>2
  <1>5. CASE FixedM!Size
    <2>1. \/ last' = [op |-> "size", arg |-> Null, answer |-> Len(obj.list)]
          \/ last'.op = "memory"
      BY <1>1, <1>5 DEF FixedM!Size, FixedM!Did, FixedM!Makes
    <2> QED
      BY <1>2, <1>3, <2>1 DEF FixedFollows, Seq0!Next, Seq0!Measure, Seq0!Call, Seq0!Keep, Seq0!vars
  <1> QED
    BY <1>4, <1>5

(* Every step of the fixed queue keeps its counters and is one of the         *)
(* sequence; a free that breaks the program leaves the items alone as well.   *)
LEMMA FixedStep ==
    ASSUME FixedInv, FixedM!Next
    PROVE  FixedInv' /\ (FixedFollows => [Seq0!Next]_(Seq0!vars))
  <1>1. CASE \E x \in Elements : FixedM!Push(x)
    BY <1>1, FixedPushStep DEF Seq0!Next
  <1>2. CASE FixedM!Pop
    BY <1>2, FixedPopStep DEF Seq0!Next
  <1>3. CASE FixedM!QueueFront \/ FixedM!QueueBack \/ FixedM!Size
    BY <1>3, FixedLookStep
  <1>4. CASE FixedM!Swap
    BY <1>4 DEF FixedM!Swap, FixedM!Makes, FixedInv, FixedCounted, FixedFollows, Seq0!Next, Seq0!Swap
  <1>5. CASE FixedM!Free
    <2>1. /\ UNCHANGED <<obj, other>> /\ life' \in FixedM!Lives /\ last'.op = "free"
      BY <1>5 DEF FixedM!Free, FixedM!Breaks, FixedM!Frees, FixedM!Makes, FixedM!Lives
    <2> QED
      BY <2>1 DEF FixedInv, FixedCounted, FixedFollows, Seq0!Next, Seq0!Keep, Seq0!vars
  <1> QED
    BY <1>1, <1>2, <1>3, <1>4, <1>5 DEF FixedM!Next

-----------------------------------------------------------------------------
LEMMA DynamicInitInv == DynamicM!Init => DynamicInv
  BY DEF DynamicM!Init, DynamicM!ClientInit, DynamicM!New, DynamicM!ListInit, DynamicInv, DynamicQueues,
         DynamicCounted, DynamicM!Lives

LEMMA DynamicPushStep ==
    ASSUME DynamicInv, NEW x \in Elements, DynamicM!Push(x)
    PROVE  DynamicInv' /\ (FixedFollows => Seq0!Push(x))
  <1>1. PICK ok \in DynamicM!Malloc :
            /\ DynamicM!Did("push_front", x, DynamicM!Bool(ok))
            /\ obj' = IF ok THEN [list |-> DynamicM!ListPushFront(obj.list, x), size |-> obj.size + 1] ELSE obj
    BY DEF DynamicM!Push
  <1>2. other' = other /\ life' = life
    BY <1>1 DEF DynamicM!Did
  <1>3. ok \in BOOLEAN /\ Seq0!CTrue = DynamicM!CTrue /\ Seq0!CFalse = DynamicM!CFalse
    BY DEF DynamicM!Malloc, Seq0!CTrue, DynamicM!CTrue, Seq0!CFalse, DynamicM!CFalse
  <1>4. CASE ok
    <2>1. obj' = [list |-> <<x>> \o obj.list, size |-> obj.size + 1]
      BY <1>1, <1>4 DEF DynamicM!ListPushFront
    <2>2. <<x>> \o obj.list \in Seq(Elements) /\ Len(<<x>> \o obj.list) = Len(obj.list) + 1
      BY DEF DynamicInv, DynamicQueues
    <2>3. obj' \in DynamicQueues /\ DynamicCounted(obj')
      BY <2>1, <2>2 DEF DynamicInv, DynamicQueues, DynamicCounted
    <2>4. last' = [op |-> "push_front", arg |-> x, answer |-> DynamicM!CTrue]
      BY <1>1, <1>4 DEF DynamicM!Did, DynamicM!Makes, DynamicM!Bool
    <2>5. FixedFollows => Seq0!Push(x)
      BY <1>2, <1>3, <2>1, <2>4 DEF FixedFollows, Seq0!Push, Seq0!Call
    <2> QED
      BY <1>2, <2>3, <2>5 DEF DynamicInv, DynamicCounted
  <1>5. CASE ~ok
    <2>1. obj' = obj /\ last' = [op |-> "push_front", arg |-> x, answer |-> DynamicM!CFalse]
      BY <1>1, <1>5 DEF DynamicM!Did, DynamicM!Makes, DynamicM!Bool
    <2>2. FixedFollows => Seq0!Call("push_front", x, Seq0!CFalse, Items)
      BY <1>2, <1>3, <2>1 DEF FixedFollows, Seq0!Call
    <2>3. FixedFollows => Seq0!Push(x)
      BY <2>2 DEF Seq0!Push
    <2> QED
      BY <1>2, <2>1, <2>3 DEF DynamicInv, DynamicCounted
  <1> QED
    BY <1>3, <1>4, <1>5

LEMMA DynamicPopStep ==
    ASSUME DynamicInv, DynamicM!Pop
    PROVE  DynamicInv' /\ (FixedFollows => Seq0!Take)
  <1>1. obj.list \in Seq(Elements) /\ obj.size = Len(obj.list) /\ obj.size \in Nat
    BY DEF DynamicInv, DynamicQueues, DynamicCounted
  <1>2. CASE obj.size <= 0
    <2>1. obj.list = <<>>
      BY <1>1, <1>2
    <2>2. /\ UNCHANGED <<obj, other, life>>
          /\ last' = [op |-> "pop_back", arg |-> Null, answer |-> Null]
      BY <1>2 DEF DynamicM!Pop, DynamicM!Did, DynamicM!Makes
    <2> QED
      BY <2>1, <2>2 DEF DynamicInv, DynamicCounted, FixedFollows, Seq0!Take, Seq0!Call
  <1>3. CASE ~(obj.size <= 0)
    <2>1. obj.list # <<>>
      BY <1>1, <1>3
    <2> DEFINE back == DynamicM!ListBack(obj.list)
               rest == DynamicM!ListPopBack(obj.list)
    <2>2. /\ back = Seq0!Last(obj.list) /\ back # Null
          /\ rest = Seq0!Front(obj.list) /\ rest \in Seq(Elements) /\ Len(rest) = Len(obj.list) - 1
      BY <1>1, <2>1, EndsAre
    <2>3. /\ obj' = [list |-> rest, size |-> obj.size - 1]
          /\ UNCHANGED <<other, life>>
          /\ last' = [op |-> "pop_back", arg |-> Null, answer |-> back]
      BY <1>3, <2>2 DEF DynamicM!Pop, DynamicM!Did, DynamicM!Makes
    <2> HIDE DEF back, rest
    <2>4. obj' \in DynamicQueues /\ DynamicCounted(obj')
      BY <1>1, <1>3, <2>2, <2>3 DEF DynamicQueues, DynamicCounted
    <2>5. FixedFollows => Seq0!Take
      BY <2>1, <2>2, <2>3 DEF FixedFollows, Seq0!Take, Seq0!Call
    <2> QED
      BY <2>3, <2>4, <2>5 DEF DynamicInv, DynamicCounted
  <1> QED
    BY <1>2, <1>3

LEMMA DynamicLookStep ==
    ASSUME DynamicInv, DynamicM!QueueFront \/ DynamicM!QueueBack \/ DynamicM!Size
    PROVE  DynamicInv' /\ (FixedFollows => [Seq0!Next]_(Seq0!vars))
  <1>1. obj.list \in Seq(Elements) /\ obj.size = Len(obj.list) /\ obj.size \in Nat
    BY DEF DynamicInv, DynamicQueues, DynamicCounted
  <1>2. UNCHANGED <<obj, other, life>>
    BY DEF DynamicM!QueueFront, DynamicM!QueueBack, DynamicM!Size, DynamicM!Did
  <1>3. DynamicInv'
    BY <1>2 DEF DynamicInv, DynamicCounted
  <1>4. CASE DynamicM!QueueFront \/ DynamicM!QueueBack
    <2>1. CASE obj.list = <<>>
      <3>1. DynamicM!ListFront(obj.list) = Null
        BY <1>1, <2>1, EndsAre
      <3>2. \E op \in {"front", "back"} : last' = [op |-> op, arg |-> Null, answer |-> Null]
        BY <1>1, <1>4, <2>1, <3>1 DEF DynamicM!QueueFront, DynamicM!QueueBack, DynamicM!Did, DynamicM!Makes
      <3> QED
        BY <1>2, <1>3, <2>1, <3>2 DEF FixedFollows, Seq0!Next, Seq0!Take, Seq0!Call
    <2>2. CASE obj.list # <<>>
      <3>1. /\ ~(obj.size <= 0)
            /\ DynamicM!ListBack(obj.list) = Seq0!Last(obj.list)
            /\ DynamicM!ListFront(obj.list) = Head(obj.list)
        BY <1>1, <2>2, EndsAre
      <3>2. \/ last' = [op |-> "back", arg |-> Null, answer |-> Seq0!Last(obj.list)]
            \/ last' = [op |-> "front", arg |-> Null, answer |-> Head(obj.list)]
        BY <1>4, <3>1 DEF DynamicM!QueueFront, DynamicM!QueueBack, DynamicM!Did, DynamicM!Makes
      <3>3. FixedFollows => \/ Seq0!Call("back", Null, Seq0!Last(Items), Items)
                            \/ Seq0!Call("front", Null, Head(Items), Items)
        BY <1>2, <3>2 DEF FixedFollows, Seq0!Call
      <3>4. FixedFollows => Seq0!Take
        BY <2>2, <3>3 DEF FixedFollows, Seq0!Take
      <3> QED
        BY <1>3, <3>4 DEF Seq0!Next
    <2> QED
      BY <2>1, <2>2
  <1>5. CASE DynamicM!Size
    <2>1. last' = [op |-> "size", arg |-> Null, answer |-> Len(obj.list)]
      BY <1>1, <1>5 DEF DynamicM!Size, DynamicM!Did, DynamicM!Makes
    <2> QED
      BY <1>2, <1>3, <2>1 DEF FixedFollows, Seq0!Next, Seq0!Measure, Seq0!Call
  <1> QED
    BY <1>4, <1>5

LEMMA DynamicStep ==
    ASSUME DynamicInv, DynamicM!Next
    PROVE  DynamicInv' /\ (FixedFollows => [Seq0!Next]_(Seq0!vars))
  <1>1. CASE \E x \in Elements : DynamicM!Push(x)
    BY <1>1, DynamicPushStep DEF Seq0!Next
  <1>2. CASE DynamicM!Pop
    BY <1>2, DynamicPopStep DEF Seq0!Next
  <1>3. CASE DynamicM!QueueFront \/ DynamicM!QueueBack \/ DynamicM!Size
    BY <1>3, DynamicLookStep
  <1>4. CASE DynamicM!Swap
    BY <1>4 DEF DynamicM!Swap, DynamicM!Makes, DynamicInv, DynamicCounted, FixedFollows, Seq0!Next, Seq0!Swap
  <1>5. CASE DynamicM!Free
    <2>1. /\ UNCHANGED <<obj, other>> /\ life' \in DynamicM!Lives /\ last'.op = "free"
      BY <1>5 DEF DynamicM!Free, DynamicM!Breaks, DynamicM!Frees, DynamicM!Makes, DynamicM!Lives
    <2> QED
      BY <2>1 DEF DynamicInv, DynamicCounted, FixedFollows, Seq0!Next, Seq0!Keep, Seq0!vars
  <1> QED
    BY <1>1, <1>2, <1>3, <1>4, <1>5 DEF DynamicM!Next

-----------------------------------------------------------------------------
(* The stack: the first `size` words of the buffer are elements, and there    *)
(* always is a buffer, so that doubling it makes room.                        *)
Stacks == [buffer : Seq(Elements \cup {Null, Garbage}), size : Nat]
StackFilled(s) ==
    /\ s.size <= Len(s.buffer) /\ Len(s.buffer) # 0
    /\ \A i \in 1..s.size : s.buffer[i] \in Elements

StackInv ==
    /\ obj \in Stacks /\ StackFilled(obj)
    /\ other \in Stacks /\ StackFilled(other)
    /\ life \in StackM!Lives

(* The contents of a stack are the words up to its size. *)
LEMMA StackContents ==
    ASSUME NEW s \in Stacks, StackFilled(s)
    PROVE  /\ StackM!Contents(s) \in Seq(Elements) /\ Len(StackM!Contents(s)) = s.size
           /\ \A i \in 1..s.size : StackM!Contents(s)[i] = s.buffer[i]
  <1>1. PICK N \in Nat, L \in Nat : N = s.size /\ L = Len(s.buffer) /\ N <= L
    BY DEF Stacks, StackFilled
  <1>2. s.buffer \in Seq(Elements \cup {Null, Garbage})
    BY DEF Stacks
  <1> DEFINE c == SubSeq(s.buffer, 1, N)
  <1>3. Len(c) = N /\ \A i \in 1..N : c[i] = s.buffer[i]
    <2>1. 1 \in 1..(Len(s.buffer) + 1) /\ N \in 0..Len(s.buffer) /\ 1 <= N + 1
      BY <1>1
    <2>2. /\ c \in Seq(Elements \cup {Null, Garbage}) /\ Len(c) = N - 1 + 1
          /\ \A j \in 1..(N - 1 + 1) : c[j] = s.buffer[1 + j - 1]
      BY <1>2, <2>1, PartOf
    <2> HIDE DEF c
    <2> QED
      BY <1>1, <2>2
  <1>4. c = [i \in 1..N |-> s.buffer[i]]
    BY <1>1
  <1>5. [i \in 1..N |-> s.buffer[i]] \in [1..N -> Elements]
    BY <1>1 DEF StackFilled
  <1>6. c \in Seq(Elements)
    BY <1>1, <1>4, <1>5, MadeSeq
  <1>7. StackM!Contents(s) = c
    BY <1>1 DEF StackM!Contents
  <1> HIDE DEF c
  <1> QED
    BY <1>1, <1>3, <1>6, <1>7

StackFollows == /\ Items = StackM!Contents(obj) /\ Items' = StackM!Contents(obj')
                /\ OtherItems = StackM!Contents(other) /\ OtherItems' = StackM!Contents(other')

LEMMA StackInitInv == StackM!Init => StackInv
  <1> SUFFICES ASSUME StackM!Init PROVE StackInv
    OBVIOUS
  <1>1. InitialCapacity \in Nat \ {0}
    BY SequentialAssumption
  <1> DEFINE b == [i \in 1..InitialCapacity |-> Null]
  <1>2. b \in Seq(Elements \cup {Null, Garbage}) /\ Len(b) = InitialCapacity
    <2>1. b \in [1..InitialCapacity -> Elements \cup {Null, Garbage}]
      OBVIOUS
    <2> QED
      BY <1>1, <2>1, MadeSeq
  <1>3. obj = [buffer |-> b, size |-> 0] /\ other = [buffer |-> b, size |-> 0] /\ life = "alive"
    BY DEF StackM!Init, StackM!New, StackM!ClientInit
  <1> HIDE DEF b
  <1> QED
    BY <1>1, <1>2, <1>3 DEF StackInv, Stacks, StackFilled, StackM!Lives

LEMMA StackPushStep ==
    ASSUME StackInv, NEW x \in Elements, StackM!Push(x)
    PROVE  StackInv' /\ (StackFollows => Seq0!Push(x))
  <1> DEFINE W == Elements \cup {Null, Garbage}
             full == Len(obj.buffer) <= obj.size
             wide == IF full THEN StackM!Realloc(obj.buffer, 2 * Len(obj.buffer)) ELSE obj.buffer
  <1>1. PICK N \in Nat, L \in Nat :
            /\ N = obj.size /\ L = Len(obj.buffer) /\ N <= L /\ L # 0 /\ obj.buffer \in Seq(W)
            /\ \A i \in 1..N : obj.buffer[i] \in Elements
    BY DEF StackInv, Stacks, StackFilled
  <1>2. other' = other /\ life' = life
    BY DEF StackM!Push, StackM!Did
  <1>3. CASE last' = [op |-> "push_back", arg |-> x, answer |-> StackM!CFalse] /\ obj' = obj
    <2>1. StackFollows => Seq0!Call("push_back", x, Seq0!CFalse, Items)
      BY <1>2, <1>3 DEF StackFollows, Seq0!Call, StackM!CFalse, Seq0!CFalse
    <2>2. StackFollows => Seq0!Push(x)
      BY <2>1 DEF Seq0!Push
    <2> QED
      BY <1>2, <1>3, <2>2 DEF StackInv, StackFilled
  <1>4. CASE /\ last' = [op |-> "push_back", arg |-> x, answer |-> StackM!CTrue]
             /\ obj' = [buffer |-> [wide EXCEPT ![N + 1] = x], size |-> N + 1]
    <2>1. PICK M \in Nat : /\ M >= N + 1 /\ M >= L /\ wide \in [1..M -> W]
                           /\ \A i \in 1..N : wide[i] = obj.buffer[i]
      <3>1. CASE full
        <4>1. wide = [i \in 1..(2 * L) |-> IF i <= L THEN obj.buffer[i] ELSE Garbage]
          BY <1>1, <3>1 DEF StackM!Realloc
        <4>2. \A i \in 1..(2 * L) : (IF i <= L THEN obj.buffer[i] ELSE Garbage) \in W
          BY <1>1
        <4>3. 2 * L \in Nat /\ 2 * L >= N + 1 /\ 2 * L >= L /\ \A i \in 1..N : i \in 1..(2 * L) /\ i <= L
          BY <1>1
        <4> HIDE DEF wide, W
        <4>4. wide \in [1..(2 * L) -> W] /\ \A i \in 1..N : wide[i] = obj.buffer[i]
          BY <4>1, <4>2, <4>3
        <4> QED
          BY <4>3, <4>4
      <3>2. CASE ~full
        <4>1. wide = obj.buffer /\ L >= N + 1
          BY <1>1, <3>2
        <4> HIDE DEF wide, W
        <4> QED
          BY <1>1, <4>1
      <3> QED
        BY <3>1, <3>2
    <2> DEFINE b == [wide EXCEPT ![N + 1] = x]
    <2>2. b \in [1..M -> W] /\ (\A i \in 1..N : b[i] = obj.buffer[i]) /\ b[N + 1] = x
      <3> HIDE DEF wide
      <3> QED
        BY <1>1, <2>1
    <2>3. b \in Seq(W) /\ Len(b) = M
      <3> HIDE DEF b, W
      <3> QED
        BY <2>2, MadeSeq
    <2> HIDE DEF b
    <2>4. \A i \in 1..(N + 1) : b[i] \in Elements
      <3> TAKE i \in 1..(N + 1)
      <3>1. i \in 1..N \/ i = N + 1
        OBVIOUS
      <3> QED
        BY <1>1, <2>2, <3>1
    <2>5. obj' = [buffer |-> b, size |-> N + 1]
      BY <1>4 DEF b
    <2>6. obj' \in Stacks /\ StackFilled(obj')
      <3>1. M # 0 /\ N + 1 <= M /\ N + 1 \in Nat
        BY <2>1
      <3> QED
        BY <2>3, <2>4, <2>5, <3>1 DEF Stacks, StackFilled
    <2>7. StackM!Contents(obj') = Append(StackM!Contents(obj), x)
      <3> DEFINE c == StackM!Contents(obj)
                 d == StackM!Contents(obj')
      <3>1. c \in Seq(Elements) /\ Len(c) = N /\ \A i \in 1..N : c[i] = obj.buffer[i]
        BY <1>1, StackContents DEF StackInv
      <3>2. d \in Seq(Elements) /\ Len(d) = N + 1 /\ \A i \in 1..(N + 1) : d[i] = b[i]
        BY <2>5, <2>6, StackContents
      <3> HIDE DEF c, d
      <3>3. Append(c, x) \in Seq(Elements) /\ Len(Append(c, x)) = N + 1
        BY <3>1
      <3>4. \A i \in 1..(N + 1) : d[i] = Append(c, x)[i]
        <4> TAKE i \in 1..(N + 1)
        <4>1. Append(c, x)[i] = IF i <= N THEN c[i] ELSE x
          BY <3>1
        <4>2. i \in 1..N \/ i = N + 1
          OBVIOUS
        <4> QED
          BY <2>2, <3>1, <3>2, <4>1, <4>2
      <3>5. d = Append(c, x)
        BY <3>2, <3>3, <3>4, SeqEqual
      <3> QED
        BY <3>5 DEF c, d
    <2>8. StackFollows => Seq0!Call("push_back", x, Seq0!CTrue, Append(Items, x))
      BY <1>2, <1>4, <2>7 DEF StackFollows, Seq0!Call, StackM!CTrue, Seq0!CTrue
    <2>9. StackFollows => Seq0!Push(x)
      BY <2>8 DEF Seq0!Push
    <2> QED
      BY <1>2, <2>6, <2>9 DEF StackInv, StackFilled
  <1>5. \/ last' = [op |-> "push_back", arg |-> x, answer |-> StackM!CFalse] /\ obj' = obj
        \/ /\ last' = [op |-> "push_back", arg |-> x, answer |-> StackM!CTrue]
           /\ obj' = [buffer |-> [wide EXCEPT ![N + 1] = x], size |-> N + 1]
    <2>1. obj = [buffer |-> obj.buffer, size |-> N]
      BY <1>1 DEF StackInv, Stacks
    <2>2. StackM!Reserve(obj) = [buffer |-> StackM!Realloc(obj.buffer, 2 * Len(obj.buffer)), size |-> N]
      BY <2>1 DEF StackM!Reserve
    <2>3. (IF full THEN StackM!Reserve(obj) ELSE obj) = [buffer |-> wide, size |-> N]
      BY <2>1, <2>2
    <2> HIDE DEF wide, full
    <2>4. [[buffer |-> wide, size |-> N] EXCEPT !.buffer[N + 1] = x, !.size = @ + 1]
            = [buffer |-> [wide EXCEPT ![N + 1] = x], size |-> N + 1]
      <3>1. PICK r, q : r = [buffer |-> wide, size |-> N] /\ q = [r EXCEPT !.buffer[N + 1] = x]
        OBVIOUS
      <3>2. q = [buffer |-> [wide EXCEPT ![N + 1] = x], size |-> N]
        BY <3>1
      <3>3. [r EXCEPT !.buffer[N + 1] = x, !.size = @ + 1] = [q EXCEPT !.size = @ + 1]
        BY <3>1
      <3>4. [q EXCEPT !.size = @ + 1] = [buffer |-> [wide EXCEPT ![N + 1] = x], size |-> N + 1]
        BY <3>2
      <3> QED
        BY <3>1, <3>3, <3>4
    <2> QED
      BY <1>1, <2>3, <2>4 DEF StackM!Push, StackM!Did, StackM!Makes, full
  <1> QED
    BY <1>3, <1>4, <1>5

LEMMA StackPopStep ==
    ASSUME StackInv, StackM!Pop
    PROVE  StackInv' /\ (StackFollows => Seq0!Take)
  <1>1. PICK N \in Nat, L \in Nat :
            /\ N = obj.size /\ L = Len(obj.buffer) /\ N <= L /\ L # 0
            /\ \A i \in 1..N : obj.buffer[i] \in Elements
    BY DEF StackInv, Stacks, StackFilled
  <1> DEFINE c == StackM!Contents(obj)
  <1>2. c \in Seq(Elements) /\ Len(c) = N /\ \A i \in 1..N : c[i] = obj.buffer[i]
    BY <1>1, StackContents DEF StackInv
  <1>3. CASE N = 0
    <2>1. c = <<>>
      <3> HIDE DEF c
      <3> QED
        BY <1>2, <1>3
    <2>2. UNCHANGED <<obj, other, life>> /\ last' = [op |-> "pop_back", arg |-> Null, answer |-> Null]
      BY <1>1, <1>3 DEF StackM!Pop, StackM!Did, StackM!Makes
    <2> QED
      BY <2>1, <2>2 DEF StackInv, StackFilled, StackFollows, Seq0!Take, Seq0!Call
  <1>4. CASE N # 0
    <2>1. /\ obj' = [obj EXCEPT !.size = @ - 1] /\ UNCHANGED <<other, life>>
          /\ last' = [op |-> "pop_back", arg |-> Null, answer |-> obj.buffer[N]]
      BY <1>1, <1>4 DEF StackM!Pop, StackM!Did, StackM!Makes
    <2>2. obj' = [buffer |-> obj.buffer, size |-> N - 1]
      BY <1>1, <2>1 DEF StackInv, Stacks
    <2>3. obj' \in Stacks /\ StackFilled(obj')
      <3>1. N - 1 \in Nat /\ N - 1 <= L /\ \A i \in 1..(N - 1) : i \in 1..N
        BY <1>1, <1>4
      <3>2. obj.buffer \in Seq(Elements \cup {Null, Garbage})
        BY DEF StackInv, Stacks
      <3> QED
        BY <1>1, <2>2, <3>1, <3>2 DEF Stacks, StackFilled
    <2> DEFINE d == StackM!Contents(obj')
    <2>4. d \in Seq(Elements) /\ Len(d) = N - 1 /\ \A i \in 1..(N - 1) : d[i] = obj.buffer[i]
      BY <2>2, <2>3, StackContents
    <2> HIDE DEF c, d
    <2>5. c # <<>> /\ Last(c) = obj.buffer[N]
      BY <1>2, <1>4 DEF Last
    <2>6. Front(c) \in Seq(Elements) /\ Len(Front(c)) = N - 1 /\ \A i \in 1..(N - 1) : Front(c)[i] = c[i]
      <3>1. c # <<>>
        BY <2>5
      <3>2. /\ ListPopBack(c) \in Seq(Elements)
            /\ Len(ListPopBack(c)) = Len(c) - 1
            /\ \A i \in 1..(Len(c) - 1) : ListPopBack(c)[i] = c[i]
        BY <1>2, <3>1, PopBackFacts
      <3>3. Front(c) = ListPopBack(c)
        BY DEF Front, ListPopBack
      <3> QED
        BY <1>2, <3>2, <3>3
    <2>7. \A i \in 1..(N - 1) : d[i] = Front(c)[i]
      <3>1. \A i \in 1..(N - 1) : i \in 1..N
        OBVIOUS
      <3> QED
        BY <1>2, <2>4, <2>6, <3>1
    <2>8. d = Front(c)
      BY <2>4, <2>6, <2>7, SeqEqual
    <2>9. StackFollows => Seq0!Take
      BY <2>1, <2>5, <2>8, SameInSequence DEF StackFollows, Seq0!Take, Seq0!Call, c, d
    <2> QED
      BY <2>1, <2>3, <2>9 DEF StackInv, StackFilled
  <1> QED
    BY <1>3, <1>4

LEMMA StackLookStep ==
    ASSUME StackInv, StackM!Look
    PROVE  StackInv' /\ (StackFollows => [Seq0!Next]_(Seq0!vars))
  <1>1. UNCHANGED <<obj, other, life>>
    BY DEF StackM!Look, StackM!Did
  <1> DEFINE c == StackM!Contents(obj)
  <1>2. PICK N \in Nat : /\ N = obj.size /\ c \in Seq(Elements) /\ Len(c) = N
                         /\ \A i \in 1..N : c[i] = obj.buffer[i]
    BY StackContents DEF StackInv, Stacks
  <1> HIDE DEF c
  <1>3. \/ N = 0 /\ last' = [op |-> "back", arg |-> Null, answer |-> Null]
        \/ N # 0 /\ last' = [op |-> "back", arg |-> Null, answer |-> obj.buffer[N]]
        \/ last' = [op |-> "size", arg |-> Null, answer |-> N]
        \/ last' = [op |-> "empty", arg |-> Null, answer |-> StackM!Bool(N = 0)]
    BY <1>2 DEF StackM!Look, StackM!Did, StackM!Makes
  <1>4. N = 0 <=> c = <<>>
    BY <1>2
  <1>5. N # 0 => Seq0!Last(c) = obj.buffer[N]
    BY <1>2, SameInSequence DEF Last
  <1>6. ASSUME StackFollows PROVE [Seq0!Next]_(Seq0!vars)
    <2>1. Items = c /\ Items' = Items /\ OtherItems' = OtherItems
      BY <1>1, <1>6 DEF StackFollows, c
    <2>2. \/ Items = <<>> /\ Seq0!Call("back", Null, Null, Items)
          \/ Items # <<>> /\ Seq0!Call("back", Null, Seq0!Last(Items), Items)
          \/ Seq0!Call("size", Null, Len(Items), Items)
          \/ Seq0!Call("empty", Null, IF Items = <<>> THEN Seq0!CTrue ELSE Seq0!CFalse, Items)
      BY <1>2, <1>3, <1>4, <1>5, <2>1
      DEF Seq0!Call, StackM!Bool, StackM!CTrue, Seq0!CTrue, StackM!CFalse, Seq0!CFalse
    <2>3. Seq0!Take \/ Seq0!Measure
      BY <2>2 DEF Seq0!Take, Seq0!Measure
    <2> QED
      BY <2>3 DEF Seq0!Next
  <1> QED
    BY <1>1, <1>6 DEF StackInv, StackFilled

LEMMA StackStep ==
    ASSUME StackInv, StackM!Next
    PROVE  StackInv' /\ (StackFollows => [Seq0!Next]_(Seq0!vars))
  <1>1. CASE \E x \in Elements : StackM!Push(x)
    BY <1>1, StackPushStep DEF Seq0!Next
  <1>2. CASE StackM!Pop
    BY <1>2, StackPopStep DEF Seq0!Next
  <1>3. CASE StackM!Look
    BY <1>3, StackLookStep
  <1>4. CASE StackM!Swap
    BY <1>4 DEF StackM!Swap, StackM!Makes, StackInv, StackFilled, StackFollows, Seq0!Next, Seq0!Swap
  <1> QED
    BY <1>1, <1>2, <1>3, <1>4 DEF StackM!Next

-----------------------------------------------------------------------------
(* The ring.  Remainders first: two numbers below C that differ by a multiple *)
(* of C are one, so that a remainder may be taken before a sum or after it.   *)
LEMMA SameRemainder ==
    ASSUME NEW C \in Nat \ {0}, NEW p \in Int, NEW q \in Int, NEW r \in 0..(C - 1), NEW s \in 0..(C - 1),
           C * p + r = C * q + s
    PROVE  r = s
  <1>1. C * (p - q) = s - r /\ C * (q - p) = r - s
    OBVIOUS
  <1>2. ASSUME NEW k \in Int, k >= 1 PROVE C * k >= C
    BY <1>2
  <1>3. CASE p - q >= 1
    BY <1>1, <1>2, <1>3
  <1>4. CASE q - p >= 1
    BY <1>1, <1>2, <1>4
  <1>5. CASE p = q
    BY <1>5
  <1> QED
    BY <1>3, <1>4, <1>5

Commutes(C, n, b) == ((n % C) + b) % C = (n + b) % C
LEMMA RemainderOfSum ==
    ASSUME NEW C \in Nat \ {0}, NEW n \in Nat, NEW b \in Int
    PROVE  Commutes(C, n, b)
  <1> DEFINE m == (n % C) + b
  <1>1. ASSUME NEW k \in Int PROVE k % C \in 0..(C - 1) /\ k \div C \in Int /\ k = C * (k \div C) + (k % C)
    OBVIOUS
  <1>2. PICK q \in Int, r \in 0..(C - 1) : q = n \div C /\ r = n % C /\ n = C * q + r
    BY <1>1
  <1>3. m \in Int /\ n + b \in Int
    BY <1>2
  <1>4. PICK p \in Int, s \in 0..(C - 1) : p = m \div C /\ s = m % C /\ m = C * p + s
    BY <1>1, <1>3
  <1>5. PICK o \in Int, u \in 0..(C - 1) : o = (n + b) \div C /\ u = (n + b) % C /\ n + b = C * o + u
    BY <1>1, <1>3
  <1>6. C * (p + q) = C * p + C * q /\ p + q \in Int
    OBVIOUS
  <1>7. C * (p + q) + s = C * o + u
    BY <1>2, <1>4, <1>5, <1>6
  <1>8. s = u
    BY <1>6, <1>7, SameRemainder
  <1> QED
    BY <1>4, <1>5, <1>8 DEF Commutes

(* Fewer than C steps from one slot lead to different slots of a ring of C. *)
LEMMA SlotsDiffer ==
    ASSUME NEW C \in Nat \ {0}, NEW h \in 0..(C - 1), NEW k \in Nat, NEW m \in Nat, k < m, m - k < C
    PROVE  (h + k) % C # (h + m) % C
  <1>1. PICK j \in 1..(C - 1) : m = k + j
    <2>1. m - k \in 1..(C - 1) /\ m = k + (m - k)
      OBVIOUS
    <2> QED
      BY <2>1
  <1>2. PICK r \in 0..(C - 1) : r = (h + k) % C
    OBVIOUS
  <1>3. (h + m) % C = (r + j) % C
    <2>1. PICK n \in Nat : n = h + k
      OBVIOUS
    <2>2. Commutes(C, n, j)
      BY RemainderOfSum
    <2>3. h + m = n + j
      BY <1>1, <2>1
    <2> QED
      BY <1>2, <2>1, <2>2, <2>3 DEF Commutes
  <1>4. r + j < C => (r + j) % C = r + j
    OBVIOUS
  <1>5. r + j >= C => (r + j) % C = r + j - C
    <2>1. ASSUME NEW n \in C..(2 * C - 1) PROVE n % C = n - C
      OBVIOUS
    <2>2. r + j >= C => r + j \in C..(2 * C - 1)
      OBVIOUS
    <2> QED
      BY <2>1, <2>2
  <1> QED
    BY <1>2, <1>3, <1>4, <1>5

(* Where the tail is, overfull or not; the words of the slots may be any.     *)
Words == Elements \cup {Garbage}
RingInv ==
    /\ obj \in [buffer : [0..(Capacity - 1) -> Words], head : 0..(Capacity - 1), tail : Nat, size : Nat]
    /\ obj.tail = (obj.head + obj.size) % Capacity
    /\ life \in RingM!Lives

RingContents(r) == [i \in 1..r.size |-> r.buffer[(r.head + i - 1) % Capacity]]
RingFollows == /\ Items = RingContents(obj) /\ Items' = RingContents(obj')
               /\ OtherItems' = OtherItems

LEMMA RingInitInv == RingM!Init => RingInv
  <1> SUFFICES ASSUME RingM!Init PROVE RingInv
    OBVIOUS
  <1>1. Capacity \in Nat \ {0}
    BY SequentialAssumption
  <1>2. 0 \in 0..(Capacity - 1) /\ (0 + 0) % Capacity = 0
    BY <1>1
  <1> DEFINE b == [i \in 0..(Capacity - 1) |-> Garbage]
  <1>3. b \in [0..(Capacity - 1) -> Words]
    BY DEF Words
  <1>4. obj = [buffer |-> b, head |-> 0, tail |-> 0, size |-> 0] /\ life = "alive"
    BY DEF RingM!Init, RingM!ClientInit
  <1> HIDE DEF b
  <1> QED
    BY <1>2, <1>3, <1>4 DEF RingInv, RingM!Lives

(* What a push makes of a ring: it may be overfull already. *)
LEMMA RingPushStep ==
    ASSUME RingInv, NEW x \in Elements, RingM!Push(x)
    PROVE  RingInv' /\ (RingFollows /\ obj'.size <= Capacity => Seq0!Push(x))
  <1>0. PICK C \in Nat \ {0} : C = Capacity
    BY SequentialAssumption
  <1>1. PICK h \in 0..(C - 1), N \in Nat, t \in 0..(C - 1), b \in [0..(C - 1) -> Words] :
            /\ h = obj.head /\ N = obj.size /\ t = obj.tail /\ b = obj.buffer
            /\ t = (h + N) % C
            /\ obj = [buffer |-> b, head |-> h, tail |-> t, size |-> N]
    <2>1. (obj.head + obj.size) % C \in 0..(C - 1)
      BY <1>0 DEF RingInv
    <2> QED
      BY <1>0, <2>1 DEF RingInv
  <1>2. /\ other' = other /\ life' = life
        /\ last' = [op |-> "push_back", arg |-> x, answer |-> RingM!CTrue]
        /\ obj' = [obj EXCEPT !.buffer[t] = x, !.tail = (@ + 1) % C, !.size = @ + 1]
    BY <1>0, <1>1 DEF RingM!Push, RingM!Did, RingM!Makes
  <1>3. PICK z \in Nat : z = (t + 1) % C
    OBVIOUS
  <1> DEFINE a == [b EXCEPT ![t] = x]
  <1>4. /\ a \in [0..(C - 1) -> Words] /\ a[t] = x
        /\ \A j \in 0..(C - 1) : j # t => a[j] = b[j]
    BY DEF Words
  <1>6. obj' = [buffer |-> a, head |-> h, tail |-> z, size |-> N + 1]
    <2>1. PICK q, r : q = [obj EXCEPT !.buffer[t] = x] /\ r = [q EXCEPT !.tail = (@ + 1) % C]
      OBVIOUS
    <2>2. q = [buffer |-> a, head |-> h, tail |-> t, size |-> N]
      BY <1>1, <2>1
    <2> HIDE DEF a
    <2>3. q.tail = t
      BY <2>2
    <2>4. r = [q EXCEPT !.tail = z]
      BY <1>3, <2>1, <2>3, Zenon
    <2>5. r = [buffer |-> a, head |-> h, tail |-> z, size |-> N]
      BY <2>2, <2>4
    <2>6. [r EXCEPT !.size = @ + 1] = [buffer |-> a, head |-> h, tail |-> z, size |-> N + 1]
      BY <2>5
    <2>7. obj' = [r EXCEPT !.size = @ + 1]
      BY <1>2, <2>1
    <2> QED
      BY <2>6, <2>7
  <1>5. z = (h + (N + 1)) % C
    <2>1. PICK n \in Nat : n = h + N
      OBVIOUS
    <2>2. Commutes(C, n, 1)
      BY RemainderOfSum
    <2>3. n + 1 = h + (N + 1)
      BY <2>1
    <2> QED
      BY <1>1, <1>3, <2>1, <2>2, <2>3 DEF Commutes
  <1> HIDE DEF a
  <1>7. RingInv'
    <2>1. /\ obj' \in [buffer : [0..(C - 1) -> Words], head : 0..(C - 1), tail : Nat, size : Nat]
          /\ obj'.tail = z /\ obj'.head = h /\ obj'.size = N + 1
      BY <1>4, <1>6
    <2> QED
      BY <1>0, <1>2, <1>5, <2>1 DEF RingInv
  <1>8. ASSUME N + 1 <= C PROVE RingContents(obj') = Append(RingContents(obj), x)
    <2> DEFINE c == [i \in 1..N |-> b[(h + i - 1) % C]]
               d == [i \in 1..(N + 1) |-> a[(h + i - 1) % C]]
    <2>1. c = RingContents(obj) /\ d = RingContents(obj')
      BY <1>0, <1>1, <1>6 DEF RingContents
    <2>2. \A i \in 1..(N + 1) : (h + i - 1) % C \in 0..(C - 1)
      OBVIOUS
    <2>3. c \in [1..N -> Words] /\ d \in [1..(N + 1) -> Words]
      <3>1. \A i \in 1..N : i \in 1..(N + 1)
        OBVIOUS
      <3> QED
        BY <1>4, <2>2, <3>1
    <2>4. c \in Seq(Words) /\ Len(c) = N /\ d \in Seq(Words) /\ Len(d) = N + 1
      <3>1. N + 1 \in Nat
        OBVIOUS
      <3> HIDE DEF c, d
      <3> QED
        BY <2>3, <3>1, MadeSeq
    <2>5. \A i \in 1..N : c[i] = b[(h + i - 1) % C]
      OBVIOUS
    <2>6. \A i \in 1..(N + 1) : d[i] = a[(h + i - 1) % C]
      OBVIOUS
    <2> HIDE DEF c, d
    <2>7. x \in Words /\ Append(c, x) \in Seq(Words) /\ Len(Append(c, x)) = N + 1
      BY <2>4 DEF Words
    <2>8. ASSUME NEW i \in 1..(N + 1) PROVE d[i] = Append(c, x)[i]
      <3>1. Append(c, x)[i] = IF i <= N THEN c[i] ELSE x
        BY <2>4
      <3>2. CASE i = N + 1
        <4>1. h + i - 1 = h + N
          BY <3>2
        <4> QED
          BY <1>1, <1>4, <2>6, <3>1, <3>2, <4>1
      <3>3. CASE i # N + 1
        <4>1. i \in 1..N /\ i <= N
          BY <3>3
        <4>2. PICK k \in Nat : k = i - 1 /\ k < N /\ N - k < C + 1 /\ (k # 0 \/ N < C)
          BY <1>8, <4>1
        <4>3. (h + k) % C # (h + N) % C
          <5>1. N - k < C
            BY <1>8, <4>2
          <5> QED
            BY <4>2, <5>1, SlotsDiffer
        <4>4. h + i - 1 = h + k
          BY <4>2
        <4>5. (h + i - 1) % C # t
          BY <1>1, <4>3, <4>4
        <4>6. a[(h + i - 1) % C] = b[(h + i - 1) % C]
          BY <1>4, <2>2, <4>5
        <4> QED
          BY <2>5, <2>6, <3>1, <4>1, <4>6
      <3> QED
        BY <3>2, <3>3
    <2>9. d = Append(c, x)
      BY <2>4, <2>7, <2>8, SeqEqual
    <2> QED
      BY <2>1, <2>9
  <1>9. RingFollows /\ obj'.size <= Capacity => Seq0!Push(x)
    <2> SUFFICES ASSUME RingFollows, obj'.size <= Capacity PROVE Seq0!Push(x)
      OBVIOUS
    <2>1. N + 1 <= C
      BY <1>0, <1>6
    <2>2. Items' = Append(Items, x)
      BY <1>8, <2>1 DEF RingFollows
    <2>3. Seq0!Call("push_back", x, Seq0!CTrue, Append(Items, x))
      BY <1>2, <2>2 DEF RingFollows, Seq0!Call, RingM!CTrue, Seq0!CTrue
    <2> QED
      BY <2>3 DEF Seq0!Push
  <1> QED
    BY <1>7, <1>9

LEMMA RingPopStep ==
    ASSUME RingInv, RingM!Pop
    PROVE  RingInv' /\ (RingFollows => Seq0!Take)
  <1>0. PICK C \in Nat \ {0} : C = Capacity
    BY SequentialAssumption
  <1>1. PICK h \in 0..(C - 1), N \in Nat, t \in 0..(C - 1), b \in [0..(C - 1) -> Words] :
            /\ h = obj.head /\ N = obj.size /\ t = obj.tail /\ b = obj.buffer
            /\ t = (h + N) % C
            /\ obj = [buffer |-> b, head |-> h, tail |-> t, size |-> N]
    <2>1. (obj.head + obj.size) % C \in 0..(C - 1)
      BY <1>0 DEF RingInv
    <2> QED
      BY <1>0, <2>1 DEF RingInv
  <1> DEFINE c == [i \in 1..N |-> b[(h + i - 1) % C]]
  <1>2. c = RingContents(obj)
    BY <1>0, <1>1 DEF RingContents
  <1>3. c \in Seq(Words) /\ Len(c) = N /\ \A i \in 1..N : c[i] = b[(h + i - 1) % C]
    <2>1. \A i \in 1..N : (h + i - 1) % C \in 0..(C - 1)
      OBVIOUS
    <2>2. c \in [1..N -> Words] /\ \A i \in 1..N : c[i] = b[(h + i - 1) % C]
      BY <2>1
    <2> HIDE DEF c
    <2> QED
      BY <2>2, MadeSeq
  <1> HIDE DEF c
  <1>4. CASE N = 0
    <2>1. UNCHANGED <<obj, other, life>> /\ last' = [op |-> "pop_front", arg |-> Null, answer |-> Null]
      BY <1>1, <1>4 DEF RingM!Pop, RingM!Did, RingM!Makes
    <2>2. c = <<>>
      BY <1>3, <1>4
    <2> QED
      BY <1>2, <2>1, <2>2 DEF RingInv, RingFollows, Seq0!Take, Seq0!Call
  <1>5. CASE N # 0
    <2>1. /\ UNCHANGED <<other, life>>
          /\ last' = [op |-> "pop_front", arg |-> Null, answer |-> b[h]]
          /\ obj' = [obj EXCEPT !.head = (@ + 1) % C, !.size = @ - 1]
      BY <1>0, <1>1, <1>5 DEF RingM!Pop, RingM!Did, RingM!Makes
    <2>2. obj' = [buffer |-> b, head |-> (h + 1) % C, tail |-> t, size |-> N - 1]
      <3>1. PICK q : q = [obj EXCEPT !.head = (@ + 1) % C]
        OBVIOUS
      <3>2. q = [buffer |-> b, head |-> (h + 1) % C, tail |-> t, size |-> N]
        BY <1>1, <3>1
      <3>3. [q EXCEPT !.size = @ - 1] = [buffer |-> b, head |-> (h + 1) % C, tail |-> t, size |-> N - 1]
        BY <3>2
      <3>4. obj' = [q EXCEPT !.size = @ - 1]
        BY <2>1, <3>1
      <3> QED
        BY <3>3, <3>4
    <2>3. PICK g \in 0..(C - 1), M \in Nat : g = (h + 1) % C /\ M = N - 1
      BY <1>5
    <2>4. ASSUME NEW j \in Nat PROVE (g + j) % C = (h + 1 + j) % C
      <3>1. PICK n \in Nat : n = h + 1
        OBVIOUS
      <3>2. Commutes(C, n, j)
        BY RemainderOfSum
      <3> QED
        BY <2>3, <3>1, <3>2 DEF Commutes
    <2>5. RingInv'
      <3>1. t = (g + M) % C
        <4>1. h + 1 + M = h + N
          BY <2>3
        <4> QED
          BY <1>1, <2>4, <4>1
      <3> QED
        BY <1>0, <1>1, <2>1, <2>2, <2>3, <3>1 DEF RingInv
    <2>6. RingContents(obj') = Tail(c)
      <3> DEFINE d == [i \in 1..M |-> b[(g + i - 1) % C]]
      <3>1. d = RingContents(obj')
        BY <1>0, <1>1, <2>2, <2>3 DEF RingContents
      <3>2. ASSUME NEW i \in 1..M PROVE d[i] = b[(h + (i + 1) - 1) % C] /\ d[i] \in Words
        <4>1. PICK j \in Nat : j = i - 1
          OBVIOUS
        <4>2. g + i - 1 = g + j /\ h + (i + 1) - 1 = h + 1 + j
          BY <4>1
        <4>3. (g + i - 1) % C = (h + (i + 1) - 1) % C
          BY <2>4, <4>2
        <4>4. (g + i - 1) % C \in 0..(C - 1)
          OBVIOUS
        <4> QED
          BY <4>3, <4>4
      <3>3. d \in [1..M -> Words]
        BY <3>2
      <3> HIDE DEF d
      <3>4. d \in Seq(Words) /\ Len(d) = M
        BY <3>3, MadeSeq
      <3>5. Tail(c) \in Seq(Words) /\ Len(Tail(c)) = M /\ \A i \in 1..M : Tail(c)[i] = c[i + 1]
        <4>1. c # <<>>
          BY <1>3, <1>5
        <4> QED
          BY <1>3, <2>3, <4>1
      <3>6. \A i \in 1..M : d[i] = Tail(c)[i]
        <4> TAKE i \in 1..M
        <4>1. i + 1 \in 1..N
          BY <2>3
        <4> QED
          BY <1>3, <3>2, <3>5, <4>1
      <3>7. d = Tail(c)
        BY <3>4, <3>5, <3>6, SeqEqual
      <3> QED
        BY <3>1, <3>7
    <2>7. c # <<>> /\ Head(c) = b[h]
      <3>1. 1 \in 1..N /\ h + 1 - 1 = h /\ h % C = h
        BY <1>5
      <3> QED
        BY <1>3, <1>5, <3>1
    <2>8. RingFollows => Seq0!Take
      <3> SUFFICES ASSUME RingFollows PROVE Seq0!Take
        OBVIOUS
      <3>1. Items = c /\ Items' = Tail(c) /\ OtherItems' = OtherItems
        BY <1>2, <2>6 DEF RingFollows
      <3>2. Seq0!Call("pop_front", Null, Head(Items), Tail(Items))
        BY <2>1, <2>7, <3>1 DEF Seq0!Call
      <3> QED
        BY <2>7, <3>1, <3>2 DEF Seq0!Take
    <2> QED
      BY <2>5, <2>8
  <1> QED
    BY <1>4, <1>5

LEMMA RingStep ==
    ASSUME RingInv, RingM!Next
    PROVE  RingInv' /\ (RingFollows /\ obj'.size <= Capacity => [Seq0!Next]_(Seq0!vars))
  <1>1. CASE \E x \in Elements : RingM!Push(x)
    BY <1>1, RingPushStep DEF Seq0!Next
  <1>2. CASE RingM!Pop
    BY <1>2, RingPopStep DEF Seq0!Next
  <1>3. CASE RingM!Look
    <2>1. UNCHANGED <<obj, other, life>>
      BY <1>3 DEF RingM!Look, RingM!Did
    <2>2. RingFollows => Items' = Items /\ OtherItems' = OtherItems
      BY <2>1 DEF RingFollows
    <2>3. RingInv'
      BY <2>1 DEF RingInv
    <2>4. CASE last' = [op |-> "size", arg |-> Null, answer |-> obj.size]
      <3>1. RingFollows => Len(Items) = obj.size
        <4> DEFINE c == RingContents(obj)
        <4>1. PICK N \in Nat : N = obj.size
          BY DEF RingInv
        <4>2. c = [i \in 1..N |-> obj.buffer[(obj.head + i - 1) % Capacity]]
          BY <4>1 DEF RingContents
        <4>3. Len(c) = N
          BY <4>1, <4>2
        <4> QED
          BY <4>1, <4>3 DEF RingFollows
      <3>2. RingFollows => Seq0!Measure
        BY <2>2, <2>4, <3>1 DEF Seq0!Measure, Seq0!Call
      <3> QED
        BY <2>3, <3>2 DEF Seq0!Next
    <2>5. CASE last' = [op |-> "memory", arg |-> Null, answer |-> Capacity]
      BY <2>2, <2>3, <2>5 DEF Seq0!Next, Seq0!Keep, Seq0!vars
    <2> QED
      BY <1>3, <2>4, <2>5 DEF RingM!Look, RingM!Did, RingM!Makes
  <1>4. CASE RingM!Free
    <2>1. /\ UNCHANGED <<obj, other>> /\ life' \in RingM!Lives /\ last'.op = "free"
      BY <1>4 DEF RingM!Free, RingM!Breaks, RingM!Frees, RingM!Makes, RingM!Lives
    <2> QED
      BY <2>1 DEF RingInv, RingFollows, Seq0!Next, Seq0!Keep, Seq0!vars
  <1> QED
    BY <1>1, <1>2, <1>3, <1>4 DEF RingM!Next

-----------------------------------------------------------------------------
(* The forward list: its counter may be above its length, never below it.    *)
ForwardCounted(l) == l \in [nodes : Seq(Elements), size : Nat] /\ Len(l.nodes) <= l.size
ForwardExact(l) == l.size = Len(l.nodes)
ForwardInv == ForwardCounted(obj) /\ ForwardCounted(other) /\ life \in ForwardM!Lives

ForwardFollows ==
    /\ Items = obj.nodes /\ Items' = obj'.nodes
    /\ OtherItems = other.nodes /\ OtherItems' = other'.nodes
    /\ ForwardExact(obj) /\ ForwardExact(obj')

LEMMA ForwardInitInv == ForwardM!Init => ForwardInv
  BY DEF ForwardM!Init, ForwardM!ClientInit, ForwardM!New, ForwardInv, ForwardCounted, ForwardM!Lives

(* A predicate accepts nothing of a sequence exactly if the members it does   *)
(* not accept are all of them; and no more members are accepted than there    *)
(* are.                                                                      *)
LEMMA Complement ==
    ASSUME NEW S, NEW s \in Seq(S), NEW P
    PROVE  /\ Matching(s, P) = <<>> <=> Matching(s, S \ P) = s
           /\ Matching(s, P) \in Seq(S) /\ Len(Matching(s, P)) <= Len(s)
           /\ Len(Matching(s, S \ P)) = Len(s) - Len(Matching(s, P))
  <1>1. PICK L \in Nat : L = Len(s)
    OBVIOUS
  <1>2. PICK f : Collects(f, s, S, P) /\ Matching(s, P) = f[L]
    BY <1>1, MatchingFacts
  <1>3. PICK g : Collects(g, s, S, S \ P) /\ Matching(s, S \ P) = g[L]
    BY <1>1, MatchingFacts
  <1>4. /\ f \in [0..L -> Seq(S \cap P)] /\ f[0] = <<>>
        /\ g \in [0..L -> Seq(S \cap (S \ P))] /\ g[0] = <<>>
    BY <1>1, <1>2, <1>3 DEF Collects
  <1>5. ASSUME NEW n \in 1..L
        PROVE  /\ f[n - 1] \in Seq(S) /\ g[n - 1] \in Seq(S) /\ s[n] \in S
               /\ \/ f[n] = Append(f[n - 1], s[n]) /\ g[n] = g[n - 1]
                  \/ f[n] = f[n - 1] /\ g[n] = Append(g[n - 1], s[n])
    <2>1. n - 1 \in 0..L /\ s[n] \in S
      BY <1>1, ElementOfSeq
    <2>2. f[n - 1] \in Seq(S \cap P) /\ g[n - 1] \in Seq(S \cap (S \ P))
      BY <1>4, <2>1
    <2>3. f[n - 1] \in Seq(S) /\ g[n - 1] \in Seq(S)
      BY <2>2
    <2>4. /\ f[n] = IF s[n] \in P THEN Append(f[n - 1], s[n]) ELSE f[n - 1]
          /\ g[n] = IF s[n] \in S \ P THEN Append(g[n - 1], s[n]) ELSE g[n - 1]
      BY <1>1, <1>2, <1>3 DEF Collects
    <2> QED
      BY <2>1, <2>3, <2>4
  <1> DEFINE Splits(n) == /\ f[n] \in Seq(S) /\ g[n] \in Seq(S)
                          /\ Len(f[n]) \in 0..n /\ Len(g[n]) = n - Len(f[n])
  <1>6. \A n \in 0..L : Splits(n)
    <2> DEFINE G == {n \in 0..L : Splits(n)}
    <2>1. 0 \in G
      BY <1>4
    <2>2. ASSUME NEW n \in 1..L, n - 1 \in G PROVE n \in G
      <3>1. PICK v \in Seq(S), w \in Seq(S), i \in 0..(n - 1) :
                /\ v = f[n - 1] /\ w = g[n - 1]
                /\ Len(v) = i /\ Len(w) = (n - 1) - i
        BY <2>2
      <3>2. PICK y \in S : y = s[n]
        BY <1>5
      <3>3. /\ Append(v, y) \in Seq(S) /\ Len(Append(v, y)) = i + 1
            /\ Append(w, y) \in Seq(S) /\ Len(Append(w, y)) = n - i
        BY <3>1, <3>2
      <3>4. i + 1 \in 0..n /\ i \in 0..n /\ (n - 1) - i = n - (i + 1) /\ n \in 0..L
        OBVIOUS
      <3>5. CASE f[n] = Append(v, y) /\ g[n] = w
        BY <3>1, <3>3, <3>4, <3>5
      <3>6. CASE f[n] = v /\ g[n] = Append(w, y)
        BY <3>1, <3>3, <3>4, <3>6
      <3>7. \/ f[n] = Append(v, y) /\ g[n] = w
            \/ f[n] = v /\ g[n] = Append(w, y)
        BY <1>5, <3>1, <3>2
      <3> QED
        BY <3>5, <3>6, <3>7
    <2> HIDE DEF G
    <2>3. 0..L \subseteq G
      BY <2>1, <2>2, UpTo
    <2> QED
      BY <2>3 DEF G
  <1> HIDE DEF Splits
  <1>7. L \in 0..L /\ Splits(L)
    BY <1>6
  <1>8. ASSUME f[L] = <<>> PROVE g[L] = s
    <2>1. \A n \in 0..L : f[n] = <<>>
      <3> DEFINE E == {n \in 0..L : f[L - n] = <<>>}
      <3>1. 0 \in E
        BY <1>8
      <3>2. ASSUME NEW n \in 1..L, n - 1 \in E PROVE n \in E
        <4>1. PICK m \in 1..L : m = L - (n - 1)
          OBVIOUS
        <4>2. f[m] = <<>> /\ m - 1 = L - n
          BY <3>2, <4>1
        <4>3. f[m] # Append(f[m - 1], s[m])
          <5>1. PICK v \in Seq(S), y \in S : v = f[m - 1] /\ y = s[m]
            BY <1>5
          <5>2. Append(v, y) # <<>>
            OBVIOUS
          <5> QED
            BY <4>2, <5>1, <5>2
        <4>4. f[m - 1] = <<>>
          BY <1>5, <4>2, <4>3
        <4> QED
          BY <4>2, <4>4
      <3> HIDE DEF E
      <3>3. 0..L \subseteq E
        BY <3>1, <3>2, UpTo
      <3> TAKE n \in 0..L
      <3>4. PICK m \in 0..L : m = L - n
        OBVIOUS
      <3>5. m \in E /\ L - m = n
        BY <3>3, <3>4
      <3> QED
        BY <3>5 DEF E
    <2>2. \A n \in 0..L : \A j \in 1..n : g[n][j] = s[j]
      <3> DEFINE E == {n \in 0..L : \A j \in 1..n : g[n][j] = s[j]}
      <3>1. 0 \in E
        OBVIOUS
      <3>2. ASSUME NEW n \in 1..L, n - 1 \in E PROVE n \in E
        <4>1. PICK k \in 0..L : k = n - 1
          OBVIOUS
        <4>2. n \in 0..L /\ f[n] = <<>> /\ f[k] = <<>>
          BY <2>1
        <4>3. f[k] \in Seq(S) /\ g[k] \in Seq(S) /\ Len(g[k]) = k - Len(f[k])
          BY <1>6 DEF Splits
        <4>8. Len(g[k]) = k /\ s[n] \in S
          BY <1>5, <4>2, <4>3
        <4>4. f[n] # Append(f[k], s[n])
          BY <4>2, <4>8
        <4>5. g[n] = Append(g[k], s[n])
          BY <1>5, <4>1, <4>4
        <4>6. \A j \in 1..k : g[k][j] = s[j]
          BY <3>2, <4>1
        <4>7. ASSUME NEW j \in 1..n PROVE g[n][j] = s[j]
          <5>1. Append(g[k], s[n])[j] = IF j <= k THEN g[k][j] ELSE s[n]
            BY <4>1, <4>3, <4>8
          <5>2. j \in 1..k \/ j = n
            BY <4>1
          <5> QED
            BY <4>1, <4>5, <4>6, <5>1, <5>2
        <4> QED
          BY <4>7
      <3> HIDE DEF E
      <3>3. 0..L \subseteq E
        BY <3>1, <3>2, UpTo
      <3> QED
        BY <3>3 DEF E
    <2>3. g[L] \in Seq(S) /\ Len(g[L]) = L
      <3>1. Len(f[L]) = 0
        BY <1>8
      <3> QED
        BY <1>7, <3>1 DEF Splits
    <2>4. \A j \in 1..L : g[L][j] = s[j]
      BY <1>7, <2>2
    <2> QED
      BY <1>1, <2>3, <2>4, SeqEqual
  <1>9. ASSUME g[L] = s PROVE f[L] = <<>>
    <2>1. f[L] \in Seq(S) /\ Len(f[L]) \in 0..L /\ L = L - Len(f[L])
      BY <1>1, <1>7, <1>9 DEF Splits
    <2> QED
      BY <2>1, EmptySeq
  <1>10. f[L] \in Seq(S) /\ Len(f[L]) <= L /\ Len(g[L]) = L - Len(f[L])
    BY <1>7 DEF Splits
  <1> QED
    BY <1>1, <1>2, <1>3, <1>8, <1>9, <1>10

(* The first member a predicate does not accept. *)
FirstOut(s, P) ==
    LET I == {i \in 1..Len(s) : s[i] \notin P}
    IN  IF I # {} THEN ForwardM!Min(I) ELSE 0

LEMMA FirstKept ==
    ASSUME NEW s \in Seq(Elements), NEW P, NEW first, first = FirstOut(s, P)
    PROVE  \/ first = 0
           \/ first \in 1..Len(s) /\ s[first] \notin P /\ \A i \in 1..(first - 1) : s[i] \in P
  <1> DEFINE I == {i \in 1..Len(s) : s[i] \notin P}
  <1>1. first = IF I # {} THEN ForwardM!Min(I) ELSE 0
    BY DEF FirstOut
  <1>2. CASE I # {}
    <2>1. I \subseteq Nat
      OBVIOUS
    <2>2. \E n \in I : \A m \in I : n <= m
      <3> HIDE DEF I
      <3> QED
        BY <1>2, <2>1, LeastOf
    <2>3. first = CHOOSE n \in I : \A m \in I : n <= m
      BY <1>1, <1>2 DEF ForwardM!Min
    <2>4. first \in I /\ \A m \in I : first <= m
      <3> HIDE DEF I
      <3> QED
        BY <2>2, <2>3
    <2>5. \A i \in 1..(first - 1) : i \in 1..Len(s) /\ ~(first <= i)
      BY <2>4
    <2> QED
      BY <2>4, <2>5
  <1>3. CASE I = {}
    BY <1>1, <1>3
  <1> QED
    BY <1>2, <1>3

LEMMA SameInForward ==
    /\ \A s, P : Seq0!Matching(s, P) = Matching(s, P) /\ ForwardM!Matching(s, P) = Matching(s, P)
    /\ Seq0!CTrue = ForwardM!CTrue /\ Seq0!CFalse = ForwardM!CFalse
  BY DEF Seq0!Matching, ForwardM!Matching, Matching, Seq0!CTrue, ForwardM!CTrue, Seq0!CFalse, ForwardM!CFalse

LEMMA ForwardPushStep ==
    ASSUME ForwardInv, NEW x \in Elements, ForwardM!PushFront(x)
    PROVE  ForwardInv' /\ (ForwardFollows => Seq0!Push(x))
  <1>1. PICK ok \in ForwardM!Malloc :
            /\ ForwardM!Did("push_front", x, ForwardM!Bool(ok))
            /\ obj' = IF ok THEN [nodes |-> <<x>> \o obj.nodes, size |-> obj.size + 1]
                      ELSE [obj EXCEPT !.nodes = <<>>]
    BY DEF ForwardM!PushFront
  <1>2. ok \in BOOLEAN /\ other' = other /\ life' = life
    BY <1>1 DEF ForwardM!Malloc, ForwardM!Did
  <1>3. obj.nodes \in Seq(Elements) /\ obj.size \in Nat /\ Len(obj.nodes) <= obj.size
    BY DEF ForwardInv, ForwardCounted
  <1>4. CASE ok
    <2>1. obj' = [nodes |-> <<x>> \o obj.nodes, size |-> obj.size + 1]
      BY <1>1, <1>4
    <2>2. <<x>> \o obj.nodes \in Seq(Elements) /\ Len(<<x>> \o obj.nodes) = Len(obj.nodes) + 1
      BY <1>3
    <2>3. ForwardCounted(obj')
      BY <1>3, <2>1, <2>2 DEF ForwardCounted
    <2>4. last' = [op |-> "push_front", arg |-> x, answer |-> ForwardM!CTrue]
      BY <1>1, <1>4 DEF ForwardM!Did, ForwardM!Makes, ForwardM!Bool
    <2>5. ForwardFollows => Seq0!Push(x)
      BY <1>2, <2>1, <2>4, SameInForward DEF ForwardFollows, Seq0!Push, Seq0!Call
    <2> QED
      BY <1>2, <2>3, <2>5 DEF ForwardInv, ForwardCounted
  <1>5. CASE ~ok
    <2>1. obj' = [nodes |-> <<>>, size |-> obj.size]
      BY <1>1, <1>5 DEF ForwardInv, ForwardCounted
    <2>2. <<>> \in Seq(Elements) /\ Len(<<>>) <= obj.size
      BY <1>3
    <2>3. ForwardCounted(obj')
      BY <1>3, <2>1, <2>2 DEF ForwardCounted
    <2>4. last' = [op |-> "push_front", arg |-> x, answer |-> ForwardM!CFalse]
      BY <1>1, <1>5 DEF ForwardM!Did, ForwardM!Makes, ForwardM!Bool
    <2>5. ForwardFollows => obj.nodes = <<>>
      BY <1>3, <2>1 DEF ForwardFollows, ForwardExact
    <2>6. ForwardFollows => Seq0!Call("push_front", x, Seq0!CFalse, Items)
      BY <1>2, <2>1, <2>4, <2>5, SameInForward DEF ForwardFollows, Seq0!Call
    <2>7. ForwardFollows => Seq0!Push(x)
      BY <2>6 DEF Seq0!Push
    <2> QED
      BY <1>2, <2>3, <2>7 DEF ForwardInv, ForwardCounted
  <1> QED
    BY <1>2, <1>4, <1>5

LEMMA ForwardPopStep ==
    ASSUME ForwardInv, ForwardM!PopFront
    PROVE  ForwardInv' /\ (ForwardFollows => Seq0!Take)
  <1>1. obj.nodes \in Seq(Elements) /\ obj.size \in Nat /\ Len(obj.nodes) <= obj.size
    BY DEF ForwardInv, ForwardCounted
  <1>2. CASE obj.nodes = <<>>
    <2>1. UNCHANGED <<obj, other, life>> /\ last' = [op |-> "pop_front", arg |-> Null, answer |-> Null]
      BY <1>2 DEF ForwardM!PopFront, ForwardM!Did, ForwardM!Makes
    <2> QED
      BY <1>2, <2>1 DEF ForwardInv, ForwardCounted, ForwardFollows, Seq0!Take, Seq0!Call
  <1>3. CASE obj.nodes # <<>>
    <2>1. /\ UNCHANGED <<other, life>>
          /\ last' = [op |-> "pop_front", arg |-> Null, answer |-> Head(obj.nodes)]
          /\ obj' = [nodes |-> Tail(obj.nodes), size |-> obj.size - 1]
      BY <1>3 DEF ForwardM!PopFront, ForwardM!Did, ForwardM!Makes
    <2>2. Tail(obj.nodes) \in Seq(Elements) /\ Len(Tail(obj.nodes)) = Len(obj.nodes) - 1 /\ Len(obj.nodes) # 0
      BY <1>1, <1>3
    <2>3. obj.size - 1 \in Nat
      BY <1>1, <2>2
    <2>4. ForwardCounted(obj')
      BY <1>1, <2>1, <2>2, <2>3 DEF ForwardCounted
    <2>5. ForwardFollows => Seq0!Take
      BY <1>3, <2>1 DEF ForwardFollows, Seq0!Take, Seq0!Call
    <2> QED
      BY <2>1, <2>4, <2>5 DEF ForwardInv, ForwardCounted
  <1> QED
    BY <1>2, <1>3

LEMMA ForwardLookStep ==
    ASSUME ForwardInv, ForwardM!Look
    PROVE  ForwardInv' /\ (ForwardFollows => [Seq0!Next]_(Seq0!vars))
  <1>1. UNCHANGED <<obj, other, life>>
    BY DEF ForwardM!Look, ForwardM!Did
  <1>2. obj.nodes \in Seq(Elements) /\ obj.size \in Nat
    BY DEF ForwardInv, ForwardCounted
  <1>3. ASSUME ForwardFollows PROVE [Seq0!Next]_(Seq0!vars)
    <2>1. Items = obj.nodes /\ Items' = Items /\ OtherItems' = OtherItems /\ obj.size = Len(obj.nodes)
      BY <1>1, <1>3 DEF ForwardFollows, ForwardExact
    <2>2. obj.size = 0 <=> obj.nodes = <<>>
      BY <1>2, <2>1, EmptySeq
    <2>3. CASE last' = [op |-> "front", arg |-> Null,
                        answer |-> IF obj.nodes = <<>> THEN Null ELSE Head(obj.nodes)]
      <3>1. Seq0!Take
        BY <2>1, <2>3 DEF Seq0!Take, Seq0!Call
      <3> QED
        BY <3>1 DEF Seq0!Next
    <2>4. CASE \/ last' = [op |-> "size", arg |-> Null, answer |-> obj.size]
               \/ last' = [op |-> "empty", arg |-> Null, answer |-> ForwardM!Bool(obj.size = 0)]
      <3>1. ForwardM!Bool(obj.size = 0) = IF Items = <<>> THEN Seq0!CTrue ELSE Seq0!CFalse
        BY <2>1, <2>2, SameInForward DEF ForwardM!Bool
      <3>2. \/ Seq0!Call("size", Null, Len(Items), Items)
            \/ Seq0!Call("empty", Null, IF Items = <<>> THEN Seq0!CTrue ELSE Seq0!CFalse, Items)
        BY <2>1, <2>4, <3>1 DEF Seq0!Call
      <3> QED
        BY <3>2 DEF Seq0!Measure, Seq0!Next
    <2> QED
      BY <2>3, <2>4 DEF ForwardM!Look, ForwardM!Did, ForwardM!Makes
  <1> QED
    BY <1>1, <1>3 DEF ForwardInv, ForwardCounted

LEMMA ForwardFindStep ==
    ASSUME ForwardInv, NEW P \in SUBSET Elements, ForwardM!FindIf(P)
    PROVE  ForwardInv' /\ (ForwardFollows => Seq0!Search(P))
  <1> DEFINE hits == Matching(obj.nodes, P)
  <1>1. /\ UNCHANGED <<obj, other, life>>
        /\ last' = [op |-> "find_if", arg |-> P, answer |-> IF hits = <<>> THEN Null ELSE Head(hits)]
    BY SameInForward DEF ForwardM!FindIf, ForwardM!Did, ForwardM!Makes
  <1>2. ASSUME ForwardFollows PROVE Seq0!Search(P)
    <2>1. Items = obj.nodes /\ Items' = Items /\ OtherItems' = OtherItems
      BY <1>1, <1>2 DEF ForwardFollows
    <2>2. Seq0!Matching(Items, P) = hits
      BY <2>1, SameInForward
    <2> HIDE DEF hits
    <2> QED
      BY <1>1, <2>1, <2>2 DEF Seq0!Search, Seq0!Call
  <1> QED
    BY <1>1, <1>2 DEF ForwardInv, ForwardCounted

(* What remove_if does, by the first node it keeps and the nodes it keeps.    *)
RemovesBy(first, kept, P) ==
    \/ obj.size = 0 /\ ForwardM!Did("remove_if", P, ForwardM!CFalse) /\ UNCHANGED obj
    \/ ForwardM!Breaks("remove_if", P) /\ UNCHANGED obj
    \/ /\ first > 1 /\ ForwardM!Did("remove_if", P, ForwardM!CTrue)
       /\ obj' = [nodes |-> SubSeq(obj.nodes, first, Len(obj.nodes)), size |-> obj.size - (first - 1)]
    \/ /\ first = 1 /\ ForwardM!Did("remove_if", P, ForwardM!Bool(kept # obj.nodes))
       /\ obj' = [nodes |-> kept, size |-> obj.size - (Len(obj.nodes) - Len(kept))]

LEMMA RemoveIfIs ==
    ASSUME NEW P, ForwardM!RemoveIf(P),
           NEW first, first = FirstOut(obj.nodes, P),
           NEW kept, kept = ForwardM!Matching(obj.nodes, Elements \ P)
    PROVE  RemovesBy(first, kept, P)
  BY Zenon DEF ForwardM!RemoveIf, FirstOut, RemovesBy

LEMMA ForwardRemoveStep ==
    ASSUME ForwardInv, NEW P \in SUBSET Elements, ForwardM!RemoveIf(P)
    PROVE  /\ ForwardInv' /\ last'.op = "remove_if" /\ last'.arg = P
           /\ ForwardFollows /\ life' # "undefined" /\ ~(obj.nodes # <<>> /\ Head(obj.nodes) \in P)
                => Seq0!Search(P)
  <1> DEFINE kept == Matching(obj.nodes, Elements \ P)
             found == Matching(obj.nodes, P)
             first == FirstOut(obj.nodes, P)
  <1>1. PICK L \in Nat, N \in Nat : L = Len(obj.nodes) /\ N = obj.size /\ L <= N
    BY DEF ForwardInv, ForwardCounted
  <1>2. /\ obj.nodes \in Seq(Elements)
        /\ other' = other => ForwardCounted(other')
        /\ ForwardM!Matching(obj.nodes, Elements \ P) = kept
    BY SameInForward DEF ForwardInv, ForwardCounted
  <1>3. /\ found = <<>> <=> kept = obj.nodes
        /\ kept \in Seq(Elements) /\ Len(kept) <= L /\ Len(kept) \in Nat
    <2>1. Matching(obj.nodes, P) = <<>> <=> Matching(obj.nodes, Elements \ P) = obj.nodes
      BY <1>2, Complement
    <2>2. /\ Matching(obj.nodes, Elements \ P) \in Seq(Elements)
          /\ Len(Matching(obj.nodes, Elements \ P)) <= Len(obj.nodes)
      BY <1>2, Complement
    <2>3. kept \in Seq(Elements) => Len(kept) \in Nat
      OBVIOUS
    <2> QED
      BY <1>1, <2>1, <2>2, <2>3
  <1>4. \/ first = 0
        \/ /\ first \in 1..L /\ obj.nodes[first] \notin P
           /\ \A i \in 1..(first - 1) : obj.nodes[i] \in P
    <2>1. first = FirstOut(obj.nodes, P)
      OBVIOUS
    <2> HIDE DEF first
    <2> QED
      BY <1>1, <1>2, <2>1, FirstKept
  <1> HIDE DEF kept, found, first
  <1>5. RemovesBy(first, kept, P)
    <2>1. first = FirstOut(obj.nodes, P) /\ kept = ForwardM!Matching(obj.nodes, Elements \ P)
      BY <1>2 DEF first
    <2> QED
      BY <2>1, RemoveIfIs
  <1>6. /\ last'.op = "remove_if" /\ last'.arg = P /\ life = "alive" /\ other' = other
        /\ life' \in {life, "undefined"}
        /\ \/ N = 0 /\ last' = [op |-> "remove_if", arg |-> P, answer |-> ForwardM!CFalse] /\ obj' = obj
           \/ life' = "undefined" /\ obj' = obj
           \/ first > 1 /\ obj' = [nodes |-> SubSeq(obj.nodes, first, Len(obj.nodes)), size |-> N - (first - 1)]
           \/ /\ first = 1
              /\ last' = [op |-> "remove_if", arg |-> P, answer |-> ForwardM!Bool(kept # obj.nodes)]
              /\ obj' = [nodes |-> kept, size |-> N - (L - Len(kept))]
    BY <1>1, <1>5 DEF RemovesBy, ForwardM!Did, ForwardM!Breaks, ForwardM!Makes
  <1>7. ForwardCounted(obj')
    <2>1. CASE obj' = obj
      BY <2>1 DEF ForwardInv, ForwardCounted
    <2>2. CASE /\ first > 1
               /\ obj' = [nodes |-> SubSeq(obj.nodes, first, Len(obj.nodes)), size |-> N - (first - 1)]
      <3>1. first \in 1..(Len(obj.nodes) + 1) /\ Len(obj.nodes) \in 0..Len(obj.nodes) /\ first <= Len(obj.nodes) + 1
        BY <1>1, <1>4, <2>2
      <3>2. /\ SubSeq(obj.nodes, first, Len(obj.nodes)) \in Seq(Elements)
            /\ Len(SubSeq(obj.nodes, first, Len(obj.nodes))) = Len(obj.nodes) - first + 1
        BY <1>2, <3>1, PartOf
      <3>3. N - (first - 1) \in Nat /\ L - first + 1 <= N - (first - 1)
        BY <1>1, <3>1
      <3> QED
        BY <1>1, <2>2, <3>2, <3>3 DEF ForwardCounted
    <2>3. CASE obj' = [nodes |-> kept, size |-> N - (L - Len(kept))]
      <3>1. N - (L - Len(kept)) \in Nat /\ Len(kept) <= N - (L - Len(kept))
        BY <1>1, <1>3
      <3> QED
        BY <1>3, <2>3, <3>1 DEF ForwardCounted
    <2> QED
      BY <1>6, <2>1, <2>2, <2>3
  <1>8. ASSUME ForwardFollows, life' # "undefined", ~(obj.nodes # <<>> /\ Head(obj.nodes) \in P)
        PROVE  Seq0!Search(P)
    <2>1. Items = obj.nodes /\ Items' = obj'.nodes /\ OtherItems' = OtherItems /\ N = L
      BY <1>1, <1>6, <1>8 DEF ForwardFollows, ForwardExact
    <2>2. Seq0!Matching(Items, P) = found /\ Seq0!Matching(Items, Elements \ P) = kept
      BY <2>1, SameInForward DEF found, kept
    <2>3. ~(first > 1)
      <3> SUFFICES ASSUME first > 1 PROVE FALSE
        OBVIOUS
      <3>1. 1 \in 1..(first - 1) /\ L # 0
        BY <1>4
      <3>2. obj.nodes # <<>> /\ Head(obj.nodes) \in P
        BY <1>1, <1>2, <1>4, <3>1
      <3> QED
        BY <1>8, <3>2
    <2>4. CASE N = 0 /\ last' = [op |-> "remove_if", arg |-> P, answer |-> ForwardM!CFalse] /\ obj' = obj
      <3>1. obj.nodes = <<>>
        BY <1>1, <1>2, <2>1, <2>4, EmptySeq
      <3>2. kept = <<>> /\ found = <<>>
        <4>1. Len(kept) = 0
          BY <1>1, <1>3, <2>1, <2>4
        <4>2. kept = <<>>
          BY <1>3, <4>1, EmptySeq
        <4> QED
          BY <1>3, <3>1, <4>2
      <3>3. Seq0!Call("remove_if", P, Seq0!CFalse, kept)
        BY <2>1, <2>4, <3>1, <3>2, SameInForward DEF Seq0!Call
      <3> QED
        BY <2>2, <3>2, <3>3 DEF Seq0!Search
    <2>5. CASE /\ last' = [op |-> "remove_if", arg |-> P, answer |-> ForwardM!Bool(kept # obj.nodes)]
               /\ obj' = [nodes |-> kept, size |-> N - (L - Len(kept))]
      <3>1. ForwardM!Bool(kept # obj.nodes) = IF found = <<>> THEN Seq0!CFalse ELSE Seq0!CTrue
        BY <1>3, SameInForward DEF ForwardM!Bool
      <3>2. Seq0!Call("remove_if", P, IF found = <<>> THEN Seq0!CFalse ELSE Seq0!CTrue, kept)
        BY <2>1, <2>5, <3>1 DEF Seq0!Call
      <3> QED
        BY <2>2, <3>2 DEF Seq0!Search
    <2> QED
      BY <1>6, <1>8, <2>3, <2>4, <2>5
  <1> QED
    BY <1>6, <1>7, <1>8 DEF ForwardInv, ForwardCounted, ForwardM!Lives

LEMMA ForwardStep ==
    ASSUME ForwardInv, ForwardM!Next
    PROVE  /\ ForwardInv'
           /\ (/\ ForwardFollows /\ life' # "undefined"
               /\ ~(last'.op = "remove_if" /\ obj.nodes # <<>> /\ Head(obj.nodes) \in last'.arg))
                => [Seq0!Next]_(Seq0!vars)
  <1>1. CASE \E x \in Elements : ForwardM!PushFront(x)
    BY <1>1, ForwardPushStep DEF Seq0!Next
  <1>2. CASE ForwardM!PopFront
    BY <1>2, ForwardPopStep DEF Seq0!Next
  <1>3. CASE ForwardM!Look
    BY <1>3, ForwardLookStep
  <1>4. CASE ForwardM!Swap
    BY <1>4 DEF ForwardM!Swap, ForwardM!Makes, ForwardInv, ForwardCounted, ForwardFollows, Seq0!Next, Seq0!Swap
  <1>5. CASE ForwardM!Free \/ ForwardM!DeepFree
    <2>1. /\ UNCHANGED <<obj, other>> /\ life' \in ForwardM!Lives /\ last'.op = "free"
      BY <1>5 DEF ForwardM!Free, ForwardM!DeepFree, ForwardM!Breaks, ForwardM!Frees, ForwardM!Makes, ForwardM!Lives
    <2> QED
      BY <2>1 DEF ForwardInv, ForwardCounted, ForwardFollows, Seq0!Next, Seq0!Keep, Seq0!vars
  <1>6. CASE \E P \in SUBSET Elements : ForwardM!FindIf(P)
    BY <1>6, ForwardFindStep DEF Seq0!Next
  <1>7. CASE \E P \in SUBSET Elements : ForwardM!RemoveIf(P)
    BY <1>7, ForwardRemoveStep DEF Seq0!Next
  <1> QED
    BY <1>1, <1>2, <1>3, <1>4, <1>5, <1>6, <1>7 DEF ForwardM!Next

-----------------------------------------------------------------------------
(* The five kinds in the run. *)
QueueKindsInv ==
    /\ kind = "fixed" => FixedInv
    /\ kind = "dynamic" => DynamicInv
    /\ kind = "stack" => StackInv
    /\ kind = "ring" => RingInv
    /\ kind = "forward" => ForwardInv

LEMMA QueueKindsInit == Init => QueueKindsInv
  <1>1. Init => /\ kind = "fixed" => FixedM!Init
                /\ kind = "dynamic" => DynamicM!Init
                /\ kind = "stack" => StackM!Init
                /\ kind = "ring" => RingM!Init
                /\ kind = "forward" => ForwardM!Init
    BY DEF Init
  <1> QED
    BY <1>1, FixedInitInv, DynamicInitInv, StackInitInv, RingInitInv, ForwardInitInv DEF QueueKindsInv

(* A step of the run is a step of the container the client uses. *)
LEMMA QueueStepOf ==
    ASSUME Next
    PROVE  /\ kind' = kind
           /\ kind = "fixed" => FixedM!Next
           /\ kind = "dynamic" => DynamicM!Next
           /\ kind = "stack" => StackM!Next
           /\ kind = "ring" => RingM!Next
           /\ kind = "forward" => ForwardM!Next
  BY DEF Next

(* What clients see of each. *)
LEMMA QueueItems ==
    ASSUME kind' = kind
    PROVE  /\ kind \in {"fixed", "dynamic"} => FixedFollows
           /\ kind = "stack" => StackFollows
           /\ kind = "ring" => RingFollows
           /\ kind = "forward" /\ Regular /\ Regular' => ForwardFollows
  <1>1. CASE kind \in {"fixed", "dynamic"}
    BY <1>1 DEF Items, OtherItems, FixedFollows
  <1>2. CASE kind = "stack"
    BY <1>2 DEF Items, OtherItems, StackFollows
  <1>3. CASE kind = "ring"
    <2>1. RingM!Contents = RingContents(obj) /\ RingM!Contents' = RingContents(obj')
      BY DEF RingM!Contents, RingContents
    <2> QED
      BY <1>3, <2>1 DEF Items, OtherItems, RingFollows
  <1>4. CASE kind = "forward"
    BY <1>4 DEF Items, OtherItems, ForwardFollows, Regular, ForwardExact
  <1> QED
    BY <1>1, <1>2, <1>3, <1>4

(* What the property asks of a step. *)
QueueStepFollows ==
    Regular /\ Regular' /\ Returned
        /\ ~(last'.op = "remove_if" /\ Items # <<>> /\ Head(Items) \in last'.arg)
      => [Seq0!Next]_(Seq0!vars)

LEMMA QueueKindsStep ==
    ASSUME QueueKindsInv, Next
    PROVE  QueueKindsInv' /\ QueueStepFollows
  <1>1. kind' = kind
    BY QueueStepOf
  <1>2. CASE kind = "fixed"
    BY <1>1, <1>2, QueueStepOf, QueueItems, FixedStep DEF QueueKindsInv, QueueStepFollows
  <1>3. CASE kind = "dynamic"
    BY <1>1, <1>3, QueueStepOf, QueueItems, DynamicStep DEF QueueKindsInv, QueueStepFollows
  <1>4. CASE kind = "stack"
    BY <1>1, <1>4, QueueStepOf, QueueItems, StackStep DEF QueueKindsInv, QueueStepFollows
  <1>5. CASE kind = "ring"
    <2>1. Regular' => obj'.size <= Capacity
      BY <1>1, <1>5 DEF Regular
    <2> QED
      BY <1>1, <1>5, <2>1, QueueStepOf, QueueItems, RingStep DEF QueueKindsInv, QueueStepFollows
  <1>6. CASE kind = "forward"
    <2>1. /\ ForwardInv'
          /\ (/\ ForwardFollows /\ life' # "undefined"
              /\ ~(last'.op = "remove_if" /\ obj.nodes # <<>> /\ Head(obj.nodes) \in last'.arg))
               => [Seq0!Next]_(Seq0!vars)
      BY <1>1, <1>6, QueueStepOf, ForwardStep DEF QueueKindsInv
    <2>2. Regular /\ Regular' => ForwardFollows
      BY <1>1, <1>6, QueueItems
    <2>3. Items = obj.nodes
      BY <1>6 DEF Items
    <2> QED
      BY <1>1, <1>6, <2>1, <2>2, <2>3 DEF QueueKindsInv, QueueStepFollows, Returned
  <1>7. CASE kind \notin {"fixed", "dynamic", "stack", "ring", "forward"}
    BY <1>1, <1>7 DEF QueueKindsInv, QueueStepFollows, Regular
  <1> QED
    BY <1>2, <1>3, <1>4, <1>5, <1>6, <1>7

LEMMA QueueKindsStutter ==
    ASSUME QueueKindsInv, UNCHANGED allVars
    PROVE  QueueKindsInv' /\ QueueStepFollows
  <1>1. UNCHANGED <<kind, obj, other, last, life>>
    BY DEF allVars, clientVars
  <1>2. QueueKindsInv'
    BY <1>1 DEF QueueKindsInv, FixedInv, FixedCounted, DynamicInv, DynamicCounted, StackInv, StackFilled, RingInv,
                ForwardInv, ForwardCounted
  <1>3. kind \in {"fixed", "dynamic", "stack", "ring", "forward"} /\ Regular /\ Regular'
            => Items' = Items /\ OtherItems' = OtherItems
    BY <1>1, QueueItems DEF FixedFollows, StackFollows, RingFollows, ForwardFollows
  <1>4. Regular => kind \in {"fixed", "dynamic", "stack", "ring", "forward"}
    BY DEF Regular
  <1> QED
    BY <1>1, <1>2, <1>3, <1>4 DEF QueueStepFollows, Seq0!vars

LEMMA QueueKindsHold == Spec => []QueueKindsInv
  <1>1. QueueKindsInv /\ [Next]_allVars => QueueKindsInv'
    BY QueueKindsStep, QueueKindsStutter
  <1> QED
    BY QueueKindsInit, <1>1, PTL DEF Spec

(* The fixed and dynamic queues, the stack, the ring while it is not overfull *)
(* and the forward list until calloc fails answer as a sequence does, for    *)
(* every capacity, through every growth of the stack's buffer and every turn *)
(* of the ring.                                                              *)
THEOREM QueuesAreSequences == Spec => QueuesImplementSequence
  <1>1. QueueKindsInv /\ [Next]_allVars => QueueStepFollows
    BY QueueKindsStep, QueueKindsStutter
  <1> QED
    BY <1>1, QueueKindsHold, PTL DEF QueuesImplementSequence, QueueStepFollows, Spec

-----------------------------------------------------------------------------
(* Collecting agrees as far as the sequences and the predicates do.          *)
LEMMA CollectsAgree ==
    ASSUME NEW S, NEW s \in Seq(S), NEW t \in Seq(S), NEW P, NEW Q, NEW f, NEW g,
           Collects(f, s, S, P), Collects(g, t, S, Q),
           NEW n \in Nat, n <= Len(s), n <= Len(t),
           \A j \in 1..n : s[j] = t[j] /\ (s[j] \in P <=> t[j] \in Q)
    PROVE  f[n] = g[n]
  <1> DEFINE G == {m \in 0..n : f[m] = g[m]}
  <1>1. 0 \in G
    BY DEF Collects
  <1>2. ASSUME NEW m \in 1..n, m - 1 \in G PROVE m \in G
    <2>1. m \in 1..Len(s) /\ m \in 1..Len(t) /\ m \in 0..n
      OBVIOUS
    <2>2. f[m] = IF s[m] \in P THEN Append(f[m - 1], s[m]) ELSE f[m - 1]
      BY <2>1 DEF Collects
    <2>3. g[m] = IF t[m] \in Q THEN Append(g[m - 1], t[m]) ELSE g[m - 1]
      BY <2>1 DEF Collects
    <2>4. f[m - 1] = g[m - 1]
      BY <1>2
    <2> QED
      BY <2>1, <2>2, <2>3, <2>4
  <1> HIDE DEF G
  <1>3. 0..n \subseteq G
    BY <1>1, <1>2, UpTo
  <1> QED
    BY <1>3 DEF G

(* One more member. *)
LEMMA MatchingOneMore ==
    ASSUME NEW S, NEW s \in Seq(S), NEW t \in Seq(S), NEW P,
           Len(t) = Len(s) + 1, \A j \in 1..Len(s) : t[j] = s[j]
    PROVE  Matching(t, P) = IF t[Len(t)] \in P THEN Append(Matching(s, P), t[Len(t)]) ELSE Matching(s, P)
  <1>1. PICK n \in Nat : n = Len(s)
    OBVIOUS
  <1>2. PICK f : Collects(f, s, S, P) /\ Matching(s, P) = f[n]
    BY <1>1, MatchingFacts
  <1>3. PICK g : Collects(g, t, S, P) /\ Matching(t, P) = g[n + 1]
    <2>1. \E g : Collects(g, t, S, P) /\ Matching(t, P) = g[Len(t)]
      BY MatchingFacts
    <2> QED
      BY <1>1, <2>1
  <1>4. n <= Len(s) /\ n <= Len(t)
    BY <1>1
  <1>5. \A j \in 1..n : s[j] = t[j] /\ (s[j] \in P <=> t[j] \in P)
    BY <1>1
  <1>6. f[n] = g[n]
    BY <1>2, <1>3, <1>4, <1>5, CollectsAgree
  <1>7. n + 1 \in 1..Len(t) /\ (n + 1) - 1 = n
    BY <1>1
  <1>8. g[n + 1] = IF t[n + 1] \in P THEN Append(g[(n + 1) - 1], t[n + 1]) ELSE g[(n + 1) - 1]
    BY <1>3, <1>7 DEF Collects
  <1> QED
    BY <1>1, <1>2, <1>3, <1>6, <1>7, <1>8

(* Predicates that agree on the members. *)
LEMMA MatchingSame ==
    ASSUME NEW S, NEW s \in Seq(S), NEW P, NEW Q, \A x \in S : x \in P <=> x \in Q
    PROVE  Matching(s, P) = Matching(s, Q)
  <1>1. PICK n \in Nat : n = Len(s)
    OBVIOUS
  <1>2. PICK f : Collects(f, s, S, P) /\ Matching(s, P) = f[n]
    BY <1>1, MatchingFacts
  <1>3. PICK g : Collects(g, s, S, Q) /\ Matching(s, Q) = g[n]
    BY <1>1, MatchingFacts
  <1>4. \A j \in 1..n : s[j] \in S
    BY <1>1, ElementOfSeq
  <1>5. \A j \in 1..n : s[j] = s[j] /\ (s[j] \in P <=> s[j] \in Q)
    BY <1>4
  <1>6. n <= Len(s)
    BY <1>1
  <1> QED
    BY <1>2, <1>3, <1>5, <1>6, CollectsAgree

(* Only members that the predicate accepts are collected, and all of them.   *)
LEMMA NoneMatching ==
    ASSUME NEW S, NEW s \in Seq(S), NEW P, Matching(s, P) = <<>>
    PROVE  \A i \in 1..Len(s) : s[i] \notin P
  <1>1. Matching(s, S \ P) = s
    BY Complement
  <1>2. Matching(s, S \ P) \in Seq(S \cap (S \ P))
    <2>1. PICK f : Collects(f, s, S, S \ P) /\ Matching(s, S \ P) = f[Len(s)]
      BY MatchingFacts
    <2>2. Len(s) \in 0..Len(s)
      OBVIOUS
    <2> QED
      BY <2>1, <2>2 DEF Collects
  <1>3. \A i \in 1..Len(s) : s[i] \in S \cap (S \ P)
    BY <1>1, <1>2, ElementOfSeq
  <1> QED
    BY <1>3
-----------------------------------------------------------------------------
(* The vector.  An element is never NULL; a slot within the size may hold     *)
(* Garbage, after a resize that cut elements off.                            *)
VectorElements == Elements \cup {Null, Garbage}

Buffered(v) ==
    /\ v \in [buffer : Seq(VectorElements), size : Nat]
    /\ \A i \in 1..Len(v.buffer) : i <= v.size => v.buffer[i] # Null

VectorInv ==
    /\ Buffered(obj) /\ Buffered(other)
    /\ iterator = Null \/ iterator \in [index : Nat, data : VectorElements]
    /\ life \in VectorM!Lives

(* What a vector holds, front first. *)
Reading(v) == [i \in 1..v.size |-> IF i <= Len(v.buffer) THEN v.buffer[i] ELSE Garbage]

Whole(v) == v.size <= Len(v.buffer)
Inside == iterator # Null => iterator.index < obj.size

(* The calls whose answers are those of a sequence. *)
AnsweredAsSequence ==
    /\ last'.op = "find_if" => last'.answer \in Range(Items) \cup {Null}
    /\ ~(last'.op = "front" /\ Items = <<>>)
    /\ last'.op = "at" => last'.answer = Null

VectorFollows ==
    /\ Items = Reading(obj) /\ Items' = Reading(obj')
    /\ OtherItems = Reading(other) /\ OtherItems' = Reading(other')
    /\ Whole(obj) /\ Whole(obj') /\ Inside /\ Inside'
    /\ AnsweredAsSequence

VectorStepFollows == VectorFollows /\ life' # "undefined" => [Seq0!Next]_(Seq0!vars)

LEMMA ReadingIs ==
    ASSUME NEW v, Buffered(v)
    PROVE  /\ Reading(v) \in Seq(VectorElements) /\ Len(Reading(v)) = v.size
           /\ v.size \in Nat /\ v.buffer \in Seq(VectorElements) /\ Len(v.buffer) \in Nat
           /\ \A i \in 1..v.size : /\ Reading(v)[i] # Null
                                   /\ Reading(v)[i] \in VectorElements
                                   /\ Reading(v)[i] = IF i <= Len(v.buffer) THEN v.buffer[i] ELSE Garbage
  <1>1. v.size \in Nat /\ v.buffer \in Seq(VectorElements) /\ Len(v.buffer) \in Nat
    BY DEF Buffered
  <1>2. \A i \in 1..Len(v.buffer) : v.buffer[i] \in VectorElements
    BY <1>1, ElementOfSeq
  <1>3. ASSUME NEW i \in 1..v.size
        PROVE  /\ Reading(v)[i] # Null /\ Reading(v)[i] \in VectorElements
               /\ Reading(v)[i] = IF i <= Len(v.buffer) THEN v.buffer[i] ELSE Garbage
    BY <1>1, <1>2, <1>3, ClientAssumption DEF Reading, Buffered, VectorElements
  <1>4. Reading(v) \in [1..v.size -> VectorElements]
    BY <1>1, <1>2, ClientAssumption DEF Reading, VectorElements
  <1> HIDE DEF Reading, VectorElements
  <1>5. Reading(v) \in Seq(VectorElements) /\ Len(Reading(v)) = v.size
    BY <1>1, <1>4, MadeSeq
  <1> QED
    BY <1>1, <1>3, <1>5

(* The words the calls look at, and their contents. *)
LEMMA WordIs ==
    ASSUME Buffered(obj)
    PROVE  /\ \A i \in Nat : VectorM!Word(i) = IF i < Len(obj.buffer) THEN obj.buffer[i + 1] ELSE Garbage
           /\ \A i \in Int : VectorM!Word(i) \in VectorElements
           /\ Whole(obj) => \A i \in 0..(obj.size - 1) : VectorM!Word(i) = Reading(obj)[i + 1]
           /\ VectorM!VectorCapacity = Len(obj.buffer)
           /\ VectorM!Contents = Reading(obj)
  <1>1. obj.size \in Nat /\ obj.buffer \in Seq(VectorElements) /\ Len(obj.buffer) \in Nat
    BY DEF Buffered
  <1>2. \A i \in 1..Len(obj.buffer) : obj.buffer[i] \in VectorElements
    BY <1>1, ElementOfSeq
  <1>3. VectorM!VectorCapacity = Len(obj.buffer)
    BY DEF VectorM!VectorCapacity
  <1>4. ASSUME NEW i \in Int
        PROVE  VectorM!Word(i) = IF i \in 0..(Len(obj.buffer) - 1) THEN obj.buffer[i + 1] ELSE Garbage
    BY <1>3 DEF VectorM!Word
  <1>5. \A i \in Int : VectorM!Word(i) \in VectorElements
    <2> TAKE i \in Int
    <2>1. CASE i \in 0..(Len(obj.buffer) - 1)
      <3>1. i + 1 \in 1..Len(obj.buffer)
        BY <1>1, <2>1
      <3> QED
        BY <1>2, <1>4, <2>1, <3>1
    <2>2. CASE i \notin 0..(Len(obj.buffer) - 1)
      BY <1>4, <2>2 DEF VectorElements
    <2> QED
      BY <2>1, <2>2
  <1>6. ASSUME NEW i \in Nat
        PROVE  VectorM!Word(i) = IF i < Len(obj.buffer) THEN obj.buffer[i + 1] ELSE Garbage
    <2>1. i \in 0..(Len(obj.buffer) - 1) <=> i < Len(obj.buffer)
      BY <1>1
    <2> QED
      BY <1>4, <2>1
  <1>7. ASSUME Whole(obj), NEW i \in 0..(obj.size - 1) PROVE VectorM!Word(i) = Reading(obj)[i + 1]
    <2>1. i \in Nat /\ i < Len(obj.buffer) /\ i + 1 \in 1..obj.size /\ i + 1 <= Len(obj.buffer)
      BY <1>1, <1>7 DEF Whole
    <2> QED
      BY <1>6, <2>1 DEF Reading
  <1>8. VectorM!Contents = Reading(obj)
    <2>1. ASSUME NEW i \in 1..obj.size
          PROVE  VectorM!Word(i - 1) = IF i <= Len(obj.buffer) THEN obj.buffer[i] ELSE Garbage
      <3>1. i - 1 \in Nat /\ (i - 1 < Len(obj.buffer) <=> i <= Len(obj.buffer)) /\ (i - 1) + 1 = i
        BY <1>1
      <3> QED
        BY <1>6, <3>1
    <2>2. VectorM!Contents = [i \in 1..obj.size |-> VectorM!Word(i - 1)]
      BY DEF VectorM!Contents, VectorM!Slots
    <2> QED
      BY <2>1, <2>2 DEF Reading
  <1> QED
    BY <1>3, <1>5, <1>6, <1>7, <1>8

(* A vector that reads as given is one: the buffer has its words. *)
LEMMA BufferedIs ==
    ASSUME NEW b \in Seq(VectorElements), NEW n \in Nat, NEW v, v = [buffer |-> b, size |-> n],
           \A i \in 1..Len(b) : i <= n => b[i] # Null
    PROVE  Buffered(v)
  BY DEF Buffered

LEMMA VectorInitInv == VectorM!Init /\ iterator = Null => VectorInv
  <1> SUFFICES ASSUME VectorM!Init, iterator = Null PROVE VectorInv
    OBVIOUS
  <1>1. InitialCapacity \in Nat
    BY SequentialAssumption
  <1> DEFINE b == [i \in 1..InitialCapacity |-> Null]
  <1>2. b \in [1..InitialCapacity -> VectorElements]
    BY DEF VectorElements
  <1>3. b \in Seq(VectorElements) /\ Len(b) \in Nat
    <2> HIDE DEF b
    <2>1. b \in Seq(VectorElements) /\ Len(b) = InitialCapacity
      BY <1>1, <1>2, MadeSeq
    <2> QED
      BY <1>1, <2>1
  <1>4. obj = [buffer |-> b, size |-> 0] /\ other = [buffer |-> b, size |-> 0] /\ life = "alive"
    BY DEF VectorM!Init, VectorM!New, VectorM!ClientInit
  <1>5. Buffered(obj) /\ Buffered(other)
    <2> HIDE DEF b
    <2>1. \A i \in 1..Len(b) : i <= 0 => b[i] # Null
      OBVIOUS
    <2> QED
      BY <1>3, <1>4, <2>1, BufferedIs
  <1> QED
    BY <1>4, <1>5 DEF VectorInv, VectorM!Lives

(* A call that leaves both vectors as they are and is one of those that a     *)
(* sequence does not tell apart.                                             *)
LEMMA VectorQuiet ==
    ASSUME VectorInv, UNCHANGED <<obj, other>>, life' \in VectorM!Lives,
           iterator' = Null \/ iterator' \in [index : Nat, data : VectorElements],
           life' # "undefined" => last'.op \in {"memory", "iterator", "free"}
    PROVE  VectorInv' /\ VectorStepFollows
  <1>1. VectorInv'
    BY DEF VectorInv, Buffered
  <1>2. ASSUME VectorFollows, life' # "undefined" PROVE [Seq0!Next]_(Seq0!vars)
    <2>1. UNCHANGED <<Items, OtherItems>>
      BY <1>2 DEF VectorFollows
    <2>2. CASE last' = last
      BY <2>1, <2>2 DEF Seq0!vars
    <2>3. CASE last' # last
      BY <1>2, <2>1, <2>3 DEF Seq0!Next, Seq0!Keep
    <2> QED
      BY <2>2, <2>3
  <1> QED
    BY <1>1, <1>2 DEF VectorStepFollows

LEMMA VectorReturns ==
    ASSUME NEW op, NEW arg, NEW answer, VectorM!Returns(op, arg, answer)
    PROVE  /\ last' = [op |-> op, arg |-> arg, answer |-> answer]
           /\ life' = life /\ other' = other /\ iterator' = iterator
  BY DEF VectorM!Returns, VectorM!Did, VectorM!Makes

LEMMA VectorDid ==
    ASSUME NEW op, NEW arg, NEW answer, VectorM!Did(op, arg, answer)
    PROVE  last' = [op |-> op, arg |-> arg, answer |-> answer] /\ life' = life /\ other' = other
  BY DEF VectorM!Did, VectorM!Makes

LEMMA VectorFailsStep ==
    ASSUME VectorInv, NEW op, NEW arg, VectorM!Fails(op, arg)
    PROVE  VectorInv' /\ VectorStepFollows
  <1>1. UNCHANGED <<obj, other, iterator>> /\ life' = "undefined"
    BY DEF VectorM!Fails, VectorM!Breaks
  <1> QED
    BY <1>1, VectorQuiet DEF VectorInv, VectorM!Lives

(* realloc of the buffer keeps the words and adds Garbage. *)
LEMMA ReservedIs ==
    ASSUME Buffered(obj), NEW n \in Nat
    PROVE  /\ VectorM!Reserved(n) = [buffer |-> VectorM!Realloc(obj.buffer, n), size |-> obj.size]
           /\ VectorM!Realloc(obj.buffer, n) \in Seq(VectorElements)
           /\ Len(VectorM!Realloc(obj.buffer, n)) = n
           /\ \A i \in 1..n : VectorM!Realloc(obj.buffer, n)[i]
                  = IF i <= Len(obj.buffer) THEN obj.buffer[i] ELSE Garbage
           /\ Buffered(VectorM!Reserved(n))
           /\ Whole(obj) /\ Whole(VectorM!Reserved(n)) => Reading(VectorM!Reserved(n)) = Reading(obj)
  <1> DEFINE b == VectorM!Realloc(obj.buffer, n)
             v == VectorM!Reserved(n)
  <1>1. obj.buffer \in Seq(VectorElements) /\ Len(obj.buffer) \in Nat /\ obj.size \in Nat
    BY DEF Buffered
  <1>2. \A i \in 1..Len(obj.buffer) : obj.buffer[i] \in VectorElements
    BY <1>1, ElementOfSeq
  <1>3. b = [i \in 1..n |-> IF i <= Len(obj.buffer) THEN obj.buffer[i] ELSE Garbage]
    BY DEF VectorM!Realloc
  <1>4. b \in [1..n -> VectorElements]
    BY <1>1, <1>2, <1>3 DEF VectorElements
  <1>5. v = [buffer |-> b, size |-> obj.size]
    BY DEF VectorM!Reserved, Buffered
  <1> HIDE DEF b, v
  <1>6. b \in Seq(VectorElements) /\ Len(b) = n
    BY <1>4, MadeSeq
  <1>7. \A i \in 1..n : b[i] = IF i <= Len(obj.buffer) THEN obj.buffer[i] ELSE Garbage
    BY <1>3
  <1>8. \A i \in 1..Len(b) : i <= obj.size => b[i] # Null
    BY <1>1, <1>6, <1>7, ClientAssumption DEF Buffered
  <1>9. Buffered(v)
    BY <1>1, <1>5, <1>6, <1>8, BufferedIs
  <1>10. ASSUME Whole(obj), Whole(v) PROVE Reading(v) = Reading(obj)
    <2>1. obj.size <= Len(obj.buffer) /\ obj.size <= n
      BY <1>5, <1>6, <1>10 DEF Whole
    <2>2. v.size = obj.size /\ v.buffer = b
      BY <1>5
    <2>3. ASSUME NEW i \in 1..obj.size
          PROVE  (IF i <= Len(b) THEN b[i] ELSE Garbage)
                     = (IF i <= Len(obj.buffer) THEN obj.buffer[i] ELSE Garbage)
      BY <1>1, <1>6, <1>7, <2>1
    <2> QED
      BY <2>2, <2>3 DEF Reading
  <1> QED
    BY <1>5, <1>6, <1>7, <1>9, <1>10 DEF b, v

LEMMA VectorResizeStep ==
    ASSUME VectorInv, NEW n \in Nat, VectorM!Resize(n)
    PROVE  VectorInv' /\ VectorStepFollows
  <1>1. CASE VectorM!Returns("memory", Null, VectorM!CTrue) /\ obj' = VectorM!Reserved(n)
    <2>1. UNCHANGED <<life, other, iterator>> /\ last' = [op |-> "memory", arg |-> Null, answer |-> VectorM!CTrue]
      BY <1>1, VectorReturns
    <2>2. Buffered(obj') /\ (Whole(obj) /\ Whole(obj') => Reading(obj') = Reading(obj))
      BY <1>1, ReservedIs DEF VectorInv
    <2>3. VectorInv'
      BY <2>1, <2>2 DEF VectorInv, Buffered
    <2>4. ASSUME VectorFollows PROVE [Seq0!Next]_(Seq0!vars)
      <3>1. UNCHANGED <<Items, OtherItems>>
        BY <2>1, <2>2, <2>4 DEF VectorFollows
      <3> QED
        BY <2>1, <3>1 DEF Seq0!Next, Seq0!Keep, Seq0!vars
    <2> QED
      BY <2>3, <2>4 DEF VectorStepFollows
  <1>2. CASE VectorM!Returns("memory", Null, VectorM!CFalse) /\ UNCHANGED obj
    <2>1. UNCHANGED <<life, obj, other, iterator>> /\ last'.op = "memory"
      BY <1>2, VectorReturns
    <2> QED
      BY <2>1, VectorQuiet DEF VectorInv
  <1>3. CASE VectorM!Fails("memory", Null)
    BY <1>3, VectorFailsStep
  <1> QED
    BY <1>1, <1>2, <1>3 DEF VectorM!Resize

(* The room a push finds or makes. *)
RoomFor(room) ==
    /\ Buffered(room) /\ room.size = obj.size
    /\ Whole(obj) /\ Whole(room) => Reading(room) = Reading(obj)

(* A vector with one more element than another. *)
OneMore(room, x) == [room EXCEPT !.buffer[obj.size + 1] = x, !.size = @ + 1]

LEMMA VectorOneMore ==
    ASSUME Buffered(obj), NEW x \in Elements, NEW room, RoomFor(room), obj.size < Len(room.buffer),
           NEW v, v = OneMore(room, x)
    PROVE  Buffered(v) /\ (Whole(obj) => Reading(v) = Append(Reading(obj), x))
  <1>1. PICK N \in Nat, L \in Nat, b \in Seq(VectorElements) :
            N = obj.size /\ b = room.buffer /\ L = Len(b)
    BY DEF RoomFor, Buffered
  <1>2. N + 1 \in 1..L /\ room = [buffer |-> b, size |-> N] /\ N < L
    BY <1>1 DEF RoomFor, Buffered
  <1> DEFINE c == [b EXCEPT ![N + 1] = x]
  <1>3. v = [buffer |-> c, size |-> N + 1]
    <2>1. v = [room EXCEPT !.buffer = [room.buffer EXCEPT ![obj.size + 1] = x], !.size = room.size + 1]
      BY DEF OneMore
    <2>2. [room.buffer EXCEPT ![obj.size + 1] = x] = c
      BY <1>1
    <2> HIDE DEF c
    <2> QED
      BY <1>2, <2>1, <2>2
  <1>4. x \in VectorElements /\ x # Null
    BY SequentialAssumption DEF VectorElements
  <1>5. c \in Seq(VectorElements) /\ Len(c) = L
    BY <1>1, <1>2, <1>4
  <1>6. \A i \in 1..L : c[i] = IF i = N + 1 THEN x ELSE b[i]
    BY <1>1
  <1>7. \A i \in 1..L : i <= N => b[i] # Null
    BY <1>1, <1>2 DEF RoomFor, Buffered
  <1> HIDE DEF c
  <1>8. \A i \in 1..Len(c) : i <= N + 1 => c[i] # Null
    BY <1>4, <1>5, <1>6, <1>7
  <1>9. Buffered(v)
    <2>1. N + 1 \in Nat
      OBVIOUS
    <2> QED
      BY <1>3, <1>5, <1>8, <2>1, BufferedIs
  <1>10. ASSUME Whole(obj) PROVE Reading(v) = Append(Reading(obj), x)
    <2>1. Reading(room) = Reading(obj)
      BY <1>1, <1>2, <1>10 DEF RoomFor, Whole
    <2>2. Reading(room) \in Seq(VectorElements) /\ Len(Reading(room)) = N
      BY <1>2, ReadingIs DEF RoomFor
    <2>3. \A i \in 1..N : Reading(room)[i] = b[i]
      <3> TAKE i \in 1..N
      <3>1. i <= L /\ i \in 1..room.size /\ Len(room.buffer) = L
        BY <1>1, <1>2
      <3>2. Reading(room)[i] = IF i <= L THEN b[i] ELSE Garbage
        BY <1>1, <1>2, <3>1 DEF Reading
      <3> QED
        BY <3>1, <3>2
    <2>4. Reading(v) \in Seq(VectorElements) /\ Len(Reading(v)) = N + 1
      BY <1>3, <1>9, ReadingIs
    <2>5. \A i \in 1..(N + 1) : Reading(v)[i] = c[i]
      <3> TAKE i \in 1..(N + 1)
      <3>1. i <= L
        BY <1>2
      <3>2. Reading(v)[i] = IF i <= L THEN c[i] ELSE Garbage
        BY <1>3, <1>5 DEF Reading
      <3> QED
        BY <3>1, <3>2
    <2> DEFINE r == Reading(room)
               a == Append(r, x)
    <2>6. a \in Seq(VectorElements) /\ Len(a) = N + 1 /\ \A i \in 1..(N + 1) : a[i] = IF i = N + 1 THEN x ELSE r[i]
      <3> HIDE DEF r
      <3>1. r \in Seq(VectorElements) /\ Len(r) = N
        BY <2>2 DEF r
      <3> QED
        BY <1>4, <3>1
    <2> HIDE DEF a
    <2>7. \A i \in 1..(N + 1) : Reading(v)[i] = a[i]
      <3> TAKE i \in 1..(N + 1)
      <3>1. i \in 1..L /\ (i # N + 1 => i \in 1..N)
        BY <1>2
      <3> QED
        BY <1>6, <2>3, <2>5, <2>6, <3>1
    <2>8. Reading(v) = a
      BY <2>4, <2>6, <2>7, SeqEqual
    <2> QED
      BY <2>1, <2>8 DEF a
  <1> QED
    BY <1>9, <1>10

LEMMA VectorPushStep ==
    ASSUME VectorInv, NEW x \in Elements, VectorM!PushBack(x)
    PROVE  VectorInv' /\ VectorStepFollows
  <1> DEFINE full == VectorM!VectorCapacity <= obj.size
             room == IF full THEN VectorM!Reserved(2 * VectorM!VectorCapacity) ELSE obj
  <1>1. \/ VectorM!Fails("push_back", x)
        \/ VectorM!Returns("push_back", x, VectorM!CFalse) /\ UNCHANGED obj
        \/ /\ Len(room.buffer) > obj.size
           /\ VectorM!Returns("push_back", x, VectorM!CTrue)
           /\ obj' = OneMore(room, x)
    BY DEF VectorM!PushBack, OneMore
  <1>2. Buffered(obj) /\ VectorM!VectorCapacity = Len(obj.buffer) /\ Len(obj.buffer) \in Nat /\ obj.size \in Nat
    BY WordIs DEF VectorInv, Buffered
  <1>3. RoomFor(room)
    <2>1. CASE full
      <3>1. 2 * VectorM!VectorCapacity \in Nat
        BY <1>2
      <3> DEFINE n == 2 * VectorM!VectorCapacity
      <3>2. /\ VectorM!Reserved(n).size = obj.size
            /\ Buffered(VectorM!Reserved(n))
            /\ Whole(obj) /\ Whole(VectorM!Reserved(n)) => Reading(VectorM!Reserved(n)) = Reading(obj)
        <4> HIDE DEF n
        <4>1. n \in Nat
          BY <3>1 DEF n
        <4> QED
          BY <1>2, <4>1, ReservedIs
      <3>3. room = VectorM!Reserved(n)
        BY <2>1
      <3> HIDE DEF n, room
      <3> QED
        BY <3>2, <3>3 DEF RoomFor
    <2>2. CASE ~full
      BY <1>2, <2>2 DEF RoomFor
    <2> QED
      BY <2>1, <2>2
  <1> HIDE DEF room
  <1>4. CASE VectorM!Returns("push_back", x, VectorM!CFalse) /\ UNCHANGED obj
    <2>1. UNCHANGED <<life, obj, other, iterator>> /\ last' = [op |-> "push_back", arg |-> x, answer |-> VectorM!CFalse]
      BY <1>4, VectorReturns
    <2>2. VectorM!CFalse = Seq0!CFalse
      BY DEF VectorM!CFalse, Seq0!CFalse
    <2>3. VectorFollows => Seq0!Call("push_back", x, Seq0!CFalse, Items)
      BY <2>1, <2>2 DEF VectorFollows, Seq0!Call
    <2>4. VectorFollows => Seq0!Push(x)
      BY <2>3 DEF Seq0!Push
    <2> QED
      BY <2>1, <2>4 DEF VectorStepFollows, VectorInv, Buffered, Seq0!Next
  <1>5. CASE /\ Len(room.buffer) > obj.size
             /\ VectorM!Returns("push_back", x, VectorM!CTrue)
             /\ obj' = OneMore(room, x)
    <2>1. UNCHANGED <<life, other, iterator>> /\ last' = [op |-> "push_back", arg |-> x, answer |-> VectorM!CTrue]
      BY <1>5, VectorReturns
    <2>2. VectorM!CTrue = Seq0!CTrue
      BY DEF VectorM!CTrue, Seq0!CTrue
    <2>3. Buffered(obj') /\ (Whole(obj) => Reading(obj') = Append(Reading(obj), x))
      <3>1. obj.size < Len(room.buffer)
        <4>1. Len(room.buffer) \in Nat
          BY <1>3 DEF RoomFor, Buffered
        <4> QED
          BY <1>2, <1>5, <4>1
      <3> QED
        BY <1>2, <1>3, <1>5, <3>1, VectorOneMore
    <2>4. VectorFollows => Seq0!Call("push_back", x, Seq0!CTrue, Append(Items, x))
      BY <2>1, <2>2, <2>3 DEF VectorFollows, Seq0!Call
    <2>5. VectorFollows => Seq0!Push(x)
      BY <2>4 DEF Seq0!Push
    <2>6. VectorInv'
      BY <2>1, <2>3 DEF VectorInv, Buffered
    <2> QED
      BY <2>5, <2>6 DEF VectorStepFollows, Seq0!Next
  <1> QED
    BY <1>1, <1>4, <1>5, VectorFailsStep

LEMMA VectorPopStep ==
    ASSUME VectorInv, VectorM!PopBack
    PROVE  VectorInv' /\ VectorStepFollows
  <1>1. Buffered(obj) /\ obj.size \in Nat
    BY DEF VectorInv, Buffered
  <1> DEFINE r == Reading(obj)
  <1>2. r \in Seq(VectorElements) /\ Len(r) = obj.size
    BY <1>1, ReadingIs
  <1>3. CASE obj.size = 0
    <2>1. UNCHANGED <<obj, life, other, iterator>> /\ last' = [op |-> "pop_back", arg |-> Null, answer |-> Null]
      BY <1>3, VectorReturns DEF VectorM!PopBack
    <2>2. VectorFollows => Items = <<>> /\ UNCHANGED <<Items, OtherItems>>
      BY <1>2, <1>3, <2>1 DEF VectorFollows
    <2>3. VectorFollows => Seq0!Take
      BY <2>1, <2>2 DEF Seq0!Take, Seq0!Call
    <2> QED
      BY <2>1, <2>3 DEF VectorInv, Buffered, VectorStepFollows, Seq0!Next
  <1>4. CASE obj.size # 0
    <2>1. /\ UNCHANGED <<life, other, iterator>>
          /\ last' = [op |-> "pop_back", arg |-> Null, answer |-> VectorM!Word(obj.size - 1)]
          /\ obj' = [buffer |-> obj.buffer, size |-> obj.size - 1]
      <3>1. VectorM!Returns("pop_back", Null, VectorM!Word(obj.size - 1)) /\ obj' = [obj EXCEPT !.size = @ - 1]
        BY <1>4 DEF VectorM!PopBack
      <3> QED
        BY <1>1, <3>1, VectorReturns DEF Buffered
    <2>2. Buffered(obj')
      BY <1>1, <1>4, <2>1 DEF Buffered
    <2>3. Reading(obj') \in Seq(VectorElements) /\ Len(Reading(obj')) = obj.size - 1
      BY <2>1, <2>2, ReadingIs
    <2>4. ASSUME VectorFollows PROVE Seq0!Take
      <3>1. /\ Seq0!Front(r) \in Seq(VectorElements) /\ Len(Seq0!Front(r)) = obj.size - 1
            /\ \A j \in 1..(obj.size - 1) : Seq0!Front(r)[j] = r[j]
        <4> HIDE DEF r
        <4>1. 1 \in 1..(Len(r) + 1) /\ obj.size - 1 \in 0..Len(r) /\ 1 <= (obj.size - 1) + 1
          BY <1>1, <1>2, <1>4
        <4>2. Seq0!Front(r) = SubSeq(r, 1, obj.size - 1)
          BY <1>2 DEF Seq0!Front
        <4>3. /\ SubSeq(r, 1, obj.size - 1) \in Seq(VectorElements)
              /\ Len(SubSeq(r, 1, obj.size - 1)) = (obj.size - 1) - 1 + 1
              /\ \A j \in 1..((obj.size - 1) - 1 + 1) : SubSeq(r, 1, obj.size - 1)[j] = r[1 + j - 1]
          BY <1>2, <4>1, PartOf
        <4> QED
          BY <1>1, <4>2, <4>3
      <3>2. \A j \in 1..(obj.size - 1) : Reading(obj')[j] = r[j]
        BY <1>1, <2>1 DEF Reading
      <3>3. Reading(obj') = Seq0!Front(r)
        <4> HIDE DEF r
        <4>1. \A j \in 1..Len(Reading(obj')) : Reading(obj')[j] = Seq0!Front(r)[j]
          BY <2>3, <3>1, <3>2
        <4> QED
          BY <2>3, <3>1, <4>1, SeqEqual
      <3>4. VectorM!Word(obj.size - 1) = Seq0!Last(r)
        <4>1. obj.size - 1 \in 0..(obj.size - 1) /\ (obj.size - 1) + 1 = obj.size
          BY <1>1, <1>4
        <4>2. VectorM!Word(obj.size - 1) = Reading(obj)[(obj.size - 1) + 1]
          BY <1>1, <2>4, <4>1, WordIs DEF VectorFollows
        <4> QED
          BY <1>2, <4>1, <4>2 DEF Seq0!Last
      <3>5. Items # <<>>
        BY <1>2, <1>4, <2>4, EmptySeq DEF VectorFollows
      <3>6. Seq0!Call("pop_back", Null, Seq0!Last(Items), Seq0!Front(Items))
        BY <2>1, <2>4, <3>3, <3>4 DEF VectorFollows, Seq0!Call
      <3> QED
        BY <3>5, <3>6 DEF Seq0!Take
    <2> QED
      BY <2>1, <2>2, <2>4 DEF VectorInv, Buffered, VectorStepFollows, Seq0!Next
  <1> QED
    BY <1>3, <1>4

(* memmove of n words from slot i + 1 to slot i. *)
LEMMA MovedIs ==
    ASSUME Buffered(obj), NEW i \in Nat, NEW n \in Int
    PROVE  /\ VectorM!Moved(i, n) \in Seq(VectorElements)
           /\ Len(VectorM!Moved(i, n)) = Len(obj.buffer)
           /\ \A j \in 1..Len(obj.buffer) :
                  VectorM!Moved(i, n)[j] = IF j \in (i + 1)..(i + n) THEN VectorM!Word(j) ELSE obj.buffer[j]
  <1> DEFINE m == VectorM!Moved(i, n)
             L == Len(obj.buffer)
  <1>1. obj.buffer \in Seq(VectorElements) /\ L \in Nat /\ \A j \in 1..L : obj.buffer[j] \in VectorElements
    BY ElementOfSeq DEF Buffered
  <1>2. m = [j \in 1..L |-> IF j \in (i + 1)..(i + n) THEN VectorM!Word(j) ELSE obj.buffer[j]]
    BY WordIs DEF VectorM!Moved
  <1>3. \A j \in 1..L : VectorM!Word(j) \in VectorElements
    BY <1>1, WordIs
  <1>4. m \in [1..L -> VectorElements]
    BY <1>1, <1>2, <1>3
  <1> HIDE DEF m
  <1>5. m \in Seq(VectorElements) /\ Len(m) = L
    BY <1>1, <1>4, MadeSeq
  <1> QED
    BY <1>2, <1>5 DEF m

(* The elements after one that goes move down, whatever lies past the last.   *)
LEMMA MovedReads ==
    ASSUME Buffered(obj), obj.size # 0, NEW i \in Nat, NEW n \in Nat,
           obj.size - 1 <= i + n \/ Len(obj.buffer) - 1 <= i + n,
           NEW v, v = [buffer |-> VectorM!Moved(i, n), size |-> obj.size - 1]
    PROVE  /\ Buffered(v)
           /\ Whole(obj) => \A j \in 1..(obj.size - 1) :
                  Reading(v)[j] = IF j < i + 1 THEN Reading(obj)[j] ELSE Reading(obj)[j + 1]
  <1>1. PICK N \in Nat, L \in Nat : N = obj.size /\ L = Len(obj.buffer) /\ N - 1 \in Nat
    BY DEF Buffered
  <1> DEFINE m == VectorM!Moved(i, n)
  <1>2. /\ m \in Seq(VectorElements) /\ Len(m) = L
        /\ \A j \in 1..L : m[j] = IF j \in (i + 1)..(i + n) THEN VectorM!Word(j) ELSE obj.buffer[j]
    <2>1. n \in Int
      OBVIOUS
    <2>2. /\ VectorM!Moved(i, n) \in Seq(VectorElements)
          /\ Len(VectorM!Moved(i, n)) = Len(obj.buffer)
          /\ \A j \in 1..Len(obj.buffer) :
                 VectorM!Moved(i, n)[j] = IF j \in (i + 1)..(i + n) THEN VectorM!Word(j) ELSE obj.buffer[j]
      BY <2>1, MovedIs
    <2> QED
      BY <1>1, <2>2
  <1> HIDE DEF m
  <1>3. \A j \in 1..L : j <= N => obj.buffer[j] # Null
    BY <1>1 DEF Buffered
  <1>4. \A j \in 1..L : VectorM!Word(j) = IF j + 1 \in 1..L THEN obj.buffer[j + 1] ELSE Garbage
    <2> TAKE j \in 1..L
    <2>1. VectorM!Word(j) = IF j < L THEN obj.buffer[j + 1] ELSE Garbage
      BY <1>1, WordIs
    <2> QED
      BY <2>1
  <1>5. \A j \in 1..L : m[j] \in {obj.buffer[j], Garbage} \/ (j + 1 \in 1..L /\ m[j] = obj.buffer[j + 1])
    <2> TAKE j \in 1..L
    <2>1. m[j] = VectorM!Word(j) \/ m[j] = obj.buffer[j]
      BY <1>2
    <2>2. VectorM!Word(j) = Garbage \/ (j + 1 \in 1..L /\ VectorM!Word(j) = obj.buffer[j + 1])
      BY <1>4
    <2> QED
      BY <2>1, <2>2, Zenon
  <1>6. \A j \in 1..Len(m) : j <= N - 1 => m[j] # Null
    <2> TAKE j \in 1..Len(m)
    <2> HAVE j <= N - 1
    <2>1. j \in 1..L /\ j <= N /\ j + 1 <= N
      BY <1>2
    <2> QED
      BY <1>3, <1>5, <2>1, ClientAssumption
  <1>7. v = [buffer |-> m, size |-> N - 1]
    BY <1>1 DEF m
  <1>8. Buffered(v)
    BY <1>1, <1>2, <1>6, <1>7, BufferedIs
  <1>9. ASSUME Whole(obj), NEW j \in 1..(N - 1)
        PROVE  Reading(v)[j] = IF j < i + 1 THEN Reading(obj)[j] ELSE Reading(obj)[j + 1]
    <2>1. N <= L /\ j \in 1..L /\ j + 1 \in 1..L /\ j \in 1..N /\ j + 1 \in 1..N /\ j <= Len(m) /\ j <= N - 1
      BY <1>1, <1>2, <1>9 DEF Whole
    <2>2. Reading(v)[j] = m[j]
      BY <1>7, <2>1 DEF Reading
    <2>3. Reading(obj)[j] = obj.buffer[j] /\ Reading(obj)[j + 1] = obj.buffer[j + 1]
      BY <1>1, <2>1 DEF Reading
    <2>4. j \in (i + 1)..(i + n) <=> ~(j < i + 1)
      BY <1>1, <2>1
    <2>5. m[j] = IF j < i + 1 THEN obj.buffer[j] ELSE obj.buffer[j + 1]
      BY <1>2, <1>4, <2>1, <2>4
    <2> QED
      BY <2>2, <2>3, <2>5
  <1> QED
    BY <1>1, <1>8, <1>9

LEMMA VectorPopFrontStep ==
    ASSUME VectorInv, VectorM!PopFront
    PROVE  VectorInv' /\ VectorStepFollows
  <1>1. Buffered(obj) /\ obj.size \in Nat /\ Len(obj.buffer) \in Nat /\ VectorM!VectorCapacity = Len(obj.buffer)
    BY WordIs DEF VectorInv, Buffered
  <1> DEFINE r == Reading(obj)
  <1>2. r \in Seq(VectorElements) /\ Len(r) = obj.size
    BY <1>1, ReadingIs
  <1>3. CASE obj.size = 0 /\ VectorM!Returns("pop_front", Null, Null) /\ UNCHANGED obj
    <2>1. UNCHANGED <<obj, life, other, iterator>> /\ last' = [op |-> "pop_front", arg |-> Null, answer |-> Null]
      BY <1>3, VectorReturns
    <2>2. VectorFollows => Items = <<>> /\ UNCHANGED <<Items, OtherItems>>
      BY <1>2, <1>3, <2>1 DEF VectorFollows
    <2>3. VectorFollows => Seq0!Take
      BY <2>1, <2>2 DEF Seq0!Take, Seq0!Call
    <2> QED
      BY <2>1, <2>3 DEF VectorInv, Buffered, VectorStepFollows, Seq0!Next
  <1>4. CASE /\ obj.size \in 1..VectorM!VectorCapacity
             /\ VectorM!Returns("pop_front", Null, VectorM!Word(0))
             /\ obj' = [buffer |-> VectorM!Moved(0, obj.size - 1), size |-> obj.size - 1]
    <2>1. /\ UNCHANGED <<life, other, iterator>>
          /\ last' = [op |-> "pop_front", arg |-> Null, answer |-> VectorM!Word(0)]
      BY <1>4, VectorReturns
    <2>2. obj.size - 1 \in Nat /\ obj.size # 0 /\ Whole(obj)
      BY <1>1, <1>4 DEF Whole
    <2>3. /\ Buffered(obj')
          /\ \A j \in 1..(obj.size - 1) : Reading(obj')[j] = IF j < 0 + 1 THEN r[j] ELSE r[j + 1]
      <3>1. obj.size - 1 <= 0 + (obj.size - 1)
        BY <1>1
      <3> QED
        BY <1>1, <1>4, <2>2, <3>1, MovedReads
    <2>4. Reading(obj') \in Seq(VectorElements) /\ Len(Reading(obj')) = obj.size - 1
      BY <1>4, <2>3, ReadingIs
    <2>5. ASSUME VectorFollows PROVE Seq0!Take
      <3>1. /\ Tail(r) \in Seq(VectorElements) /\ Len(Tail(r)) = obj.size - 1
            /\ \A j \in 1..(obj.size - 1) : Tail(r)[j] = r[j + 1]
        <4> HIDE DEF r
        <4> QED
          BY <1>2, <2>2
      <3>2. Reading(obj') = Tail(r)
        <4> HIDE DEF r
        <4>1. \A j \in 1..Len(Reading(obj')) : Reading(obj')[j] = Tail(r)[j]
          <5> TAKE j \in 1..Len(Reading(obj'))
          <5>1. j \in 1..(obj.size - 1) /\ ~(j < 0 + 1)
            BY <1>1, <2>4
          <5> QED
            BY <2>3, <3>1, <5>1
        <4> QED
          BY <2>4, <3>1, <4>1, SeqEqual
      <3>3. VectorM!Word(0) = Head(r)
        <4>1. 0 \in 0..(obj.size - 1)
          BY <1>1, <2>2
        <4>2. VectorM!Word(0) = Reading(obj)[0 + 1]
          BY <1>1, <2>2, <4>1, WordIs
        <4> QED
          BY <1>2, <4>2
      <3>4. Items # <<>>
        BY <1>2, <2>2, <2>5, EmptySeq DEF VectorFollows
      <3>5. Seq0!Call("pop_front", Null, Head(Items), Tail(Items))
        BY <2>1, <2>5, <3>2, <3>3 DEF VectorFollows, Seq0!Call
      <3> QED
        BY <3>4, <3>5 DEF Seq0!Take
    <2> QED
      BY <2>1, <2>3, <2>5 DEF VectorInv, Buffered, VectorStepFollows, Seq0!Next
  <1>5. CASE VectorM!Fails("pop_front", Null)
    BY <1>5, VectorFailsStep
  <1> QED
    BY <1>3, <1>4, <1>5 DEF VectorM!PopFront

LEMMA SameInVector ==
    /\ \A s, P : Seq0!Matching(s, P) = Matching(s, P) /\ VectorM!Matching(s, P) = Matching(s, P)
    /\ Seq0!CTrue = VectorM!CTrue /\ Seq0!CFalse = VectorM!CFalse
  BY DEF Seq0!Matching, VectorM!Matching, Matching, Seq0!CTrue, VectorM!CTrue, Seq0!CFalse, VectorM!CFalse

(* find_if looks at one word more than the elements.  As long as it does not  *)
(* answer that word, it answers what a sequence does.                        *)
LEMMA FoundIs ==
    ASSUME Buffered(obj), obj.size # 0, NEW P \in SUBSET Elements,
           NEW found, found = Matching(VectorM!Slots(obj.size + 1), P),
           NEW met, met = Matching(Reading(obj), P),
           NEW answer, answer = (IF found = <<>> THEN Null ELSE Head(found)),
           answer \in Range(Reading(obj)) \cup {Null}
    PROVE  answer = IF met = <<>> THEN Null ELSE Head(met)
  <1>1. PICK N \in Nat, r \in Seq(VectorElements) : N = obj.size /\ r = Reading(obj) /\ Len(r) = N
    BY ReadingIs
  <1> DEFINE t == VectorM!Slots(obj.size + 1)
             w == VectorM!Word(N)
  <1>2. t = [j \in 1..(N + 1) |-> VectorM!Word(j - 1)]
    BY <1>1 DEF VectorM!Slots
  <1>3. \A j \in 1..(N + 1) : VectorM!Word(j - 1) \in VectorElements
    <2> TAKE j \in 1..(N + 1)
    <2>1. j - 1 \in Int
      OBVIOUS
    <2> QED
      BY <2>1, WordIs
  <1>4. t \in [1..(N + 1) -> VectorElements]
    BY <1>2, <1>3
  <1>5. t \in Seq(VectorElements) /\ Len(t) = N + 1
    <2> HIDE DEF t
    <2>1. N + 1 \in Nat
      OBVIOUS
    <2> QED
      BY <1>4, <2>1, MadeSeq
  <1>6. t[N + 1] = w /\ \A j \in 1..N : t[j] = r[j]
    <2>1. N + 1 \in 1..(N + 1) /\ (N + 1) - 1 = N
      OBVIOUS
    <2>2. t[N + 1] = w
      BY <1>2, <2>1
    <2>3. VectorM!Contents = [j \in 1..N |-> VectorM!Word(j - 1)]
      BY <1>1 DEF VectorM!Contents, VectorM!Slots
    <2>4. r = VectorM!Contents
      BY <1>1, WordIs
    <2>5. \A j \in 1..N : j \in 1..(N + 1)
      OBVIOUS
    <2> QED
      BY <1>2, <2>2, <2>3, <2>4, <2>5
  <1> HIDE DEF t
  <1>7. found = IF w \in P THEN Append(met, w) ELSE met
    <2>1. Len(t) = Len(r) + 1 /\ \A j \in 1..Len(r) : t[j] = r[j]
      BY <1>1, <1>5, <1>6
    <2>2. Matching(t, P) = IF t[Len(t)] \in P THEN Append(Matching(r, P), t[Len(t)]) ELSE Matching(r, P)
      BY <1>5, <2>1, MatchingOneMore
    <2> QED
      BY <1>1, <1>5, <1>6, <2>2 DEF t
  <1>8. met \in Seq(VectorElements)
    BY <1>1, Complement
  <1>9. CASE w \notin P
    BY <1>7, <1>9
  <1>10. CASE w \in P /\ met # <<>>
    <2>1. Append(met, w) # <<>> /\ Head(Append(met, w)) = Head(met)
      <3>1. w \in VectorElements
        BY <1>10 DEF VectorElements
      <3>2. Len(met) # 0 /\ Len(met) \in Nat
        BY <1>8, <1>10, EmptySeq
      <3>3. Append(met, w)[1] = met[1] /\ Len(Append(met, w)) = Len(met) + 1
        BY <1>8, <3>1, <3>2
      <3>4. Append(met, w) \in Seq(VectorElements)
        BY <1>8, <3>1
      <3> QED
        BY <3>2, <3>3, <3>4, <1>8
    <2> QED
      BY <1>7, <1>10, <2>1
  <1>11. CASE w \in P /\ met = <<>>
    <2>1. Append(met, w) = <<w>> /\ <<w>> # <<>> /\ Head(<<w>>) = w
      BY <1>11
    <2>2. answer = w
      BY <1>7, <1>11, <2>1
    <2>3. w # Null
      BY <1>11, SequentialAssumption
    <2>4. w \in Range(r)
      BY <1>1, <2>2, <2>3
    <2>5. PICK i \in 1..N : r[i] = w
      <3>1. DOMAIN r = 1..N
        BY <1>1
      <3> QED
        BY <2>4, <3>1 DEF Range
    <2>6. Matching(r, P) = <<>>
      BY <1>1, <1>11
    <2>7. \A j \in 1..Len(r) : r[j] \notin P
      BY <2>6, NoneMatching
    <2> QED
      BY <1>1, <1>11, <2>5, <2>7
  <1> QED
    BY <1>9, <1>10, <1>11

LEMMA VectorFindStep ==
    ASSUME VectorInv, NEW P \in SUBSET Elements, VectorM!FindIf(P)
    PROVE  VectorInv' /\ VectorStepFollows
  <1> DEFINE found == Matching(VectorM!Slots(obj.size + 1), P)
             met == Matching(Reading(obj), P)
  <1>1. Buffered(obj)
    BY DEF VectorInv
  <1>2. CASE obj.size = 0
    <2>1. UNCHANGED <<obj, life, other, iterator>> /\ last' = [op |-> "find_if", arg |-> P, answer |-> Null]
      BY <1>2, VectorReturns DEF VectorM!FindIf
    <2>2. met = <<>>
      <3>1. Reading(obj) \in Seq(VectorElements) /\ Len(Reading(obj)) = 0
        BY <1>1, <1>2, ReadingIs
      <3>2. met \in Seq(VectorElements) /\ Len(met) <= Len(Reading(obj))
        BY <3>1, Complement
      <3> HIDE DEF met
      <3>3. Len(met) = 0
        BY <3>1, <3>2
      <3> QED
        BY <3>2, <3>3, EmptySeq
    <2> HIDE DEF met
    <2>3. VectorFollows => Seq0!Call("find_if", P, IF met = <<>> THEN Null ELSE Head(met), Items)
      BY <2>1, <2>2 DEF VectorFollows, Seq0!Call
    <2>4. VectorFollows => Seq0!Matching(Items, P) = met
      BY SameInVector DEF VectorFollows, met
    <2>5. VectorFollows => Seq0!Search(P)
      BY <2>3, <2>4 DEF Seq0!Search
    <2> QED
      BY <2>1, <2>5 DEF VectorInv, Buffered, VectorStepFollows, Seq0!Next
  <1>3. CASE obj.size # 0 /\ VectorM!Fails("find_if", P)
    BY <1>3, VectorFailsStep
  <1>4. CASE /\ obj.size # 0
             /\ VectorM!Returns("find_if", P, IF found = <<>> THEN Null ELSE Head(found))
             /\ UNCHANGED obj
    <2> DEFINE answer == IF found = <<>> THEN Null ELSE Head(found)
    <2>1. UNCHANGED <<obj, life, other, iterator>> /\ last' = [op |-> "find_if", arg |-> P, answer |-> answer]
      <3> HIDE DEF found
      <3> QED
        BY <1>4, VectorReturns
    <2>2. ASSUME VectorFollows PROVE Seq0!Search(P)
      <3>1. answer \in Range(Reading(obj)) \cup {Null}
        <4> HIDE DEF answer
        <4> QED
          BY <2>1, <2>2 DEF VectorFollows, AnsweredAsSequence
      <3>2. answer = IF met = <<>> THEN Null ELSE Head(met)
        BY <1>1, <1>4, <3>1, FoundIs
      <3>3. Seq0!Matching(Items, P) = met
        BY <2>2, SameInVector DEF VectorFollows
      <3> HIDE DEF met, answer
      <3>4. Seq0!Call("find_if", P, IF met = <<>> THEN Null ELSE Head(met), Items)
        BY <2>1, <2>2, <3>2 DEF VectorFollows, Seq0!Call
      <3> QED
        BY <3>3, <3>4 DEF Seq0!Search
    <2> QED
      BY <2>1, <2>2 DEF VectorInv, Buffered, VectorStepFollows, Seq0!Next
  <1>5. \/ obj.size = 0
        \/ obj.size # 0 /\ VectorM!Fails("find_if", P)
        \/ /\ obj.size # 0
           /\ VectorM!Returns("find_if", P, IF found = <<>> THEN Null ELSE Head(found))
           /\ UNCHANGED obj
    <2>1. found = VectorM!Matching(VectorM!Slots(obj.size + 1), P)
      BY SameInVector
    <2> HIDE DEF found
    <2> QED
      BY <2>1 DEF VectorM!FindIf
  <1> QED
    BY <1>2, <1>3, <1>4, <1>5

(* remove_if packs the elements it keeps at the front of the buffer. *)
LEMMA VectorRemoveStep ==
    ASSUME VectorInv, NEW P \in SUBSET Elements, VectorM!RemoveIf(P)
    PROVE  VectorInv' /\ VectorStepFollows
  <1> DEFINE kept == Matching(Reading(obj), VectorElements \ P)
             met == Matching(Reading(obj), P)
             packed == [i \in 1..Len(obj.buffer) |-> IF i <= Len(kept) THEN kept[i] ELSE obj.buffer[i]]
  <1>1. PICK N \in Nat, L \in Nat, r \in Seq(VectorElements) :
            /\ N = obj.size /\ L = Len(obj.buffer) /\ r = Reading(obj) /\ Len(r) = N
            /\ \A i \in 1..N : r[i] # Null /\ r[i] \in VectorElements
                               /\ r[i] = IF i <= L THEN obj.buffer[i] ELSE Garbage
    <2>1. Buffered(obj)
      BY DEF VectorInv
    <2>2. /\ Reading(obj) \in Seq(VectorElements) /\ Len(Reading(obj)) = obj.size
          /\ obj.size \in Nat /\ Len(obj.buffer) \in Nat
          /\ \A i \in 1..obj.size :
                 /\ Reading(obj)[i] # Null /\ Reading(obj)[i] \in VectorElements
                 /\ Reading(obj)[i] = IF i <= Len(obj.buffer) THEN obj.buffer[i] ELSE Garbage
      BY <2>1, ReadingIs
    <2> DEFINE r == Reading(obj)
    <2> HIDE DEF r
    <2> QED
      BY <2>2 DEF r
  <1>2. \/ VectorM!Fails("remove_if", P)
        \/ /\ Garbage \notin Range(r)
           /\ VectorM!Returns("remove_if", P, VectorM!Bool(Len(kept) < N))
           /\ obj' = [buffer |-> packed, size |-> Len(kept)]
    <2>1. VectorM!Contents = r /\ VectorM!VectorCapacity = L
      BY <1>1, WordIs DEF VectorInv
    <2>2. VectorM!Range(r) = Range(r) /\ VectorM!Words = VectorElements
      BY DEF VectorM!Range, Range, VectorM!Words, VectorElements
    <2>3. VectorM!Matching(VectorM!Contents, VectorM!Words \ P) = kept
      BY <1>1, <2>1, <2>2, SameInVector
    <2> HIDE DEF kept
    <2> QED
      BY <1>1, <2>1, <2>2, <2>3 DEF VectorM!RemoveIf
  <1>3. CASE VectorM!Fails("remove_if", P)
    BY <1>3, VectorFailsStep
  <1>4. CASE /\ Garbage \notin Range(r)
             /\ VectorM!Returns("remove_if", P, VectorM!Bool(Len(kept) < N))
             /\ obj' = [buffer |-> packed, size |-> Len(kept)]
    <2>1. /\ UNCHANGED <<life, other, iterator>>
          /\ last' = [op |-> "remove_if", arg |-> P, answer |-> VectorM!Bool(Len(kept) < N)]
      <3> HIDE DEF kept, packed
      <3> QED
        BY <1>4, VectorReturns
    <2>2. \A i \in 1..N : r[i] # Garbage
      <3>1. DOMAIN r = 1..N
        BY <1>1
      <3> QED
        BY <1>4, <3>1 DEF Range
    <2>3. N <= L
      <3>1. ASSUME ~(N <= L) PROVE FALSE
        <4>1. N \in 1..N /\ ~(N <= L)
          BY <3>1
        <4> QED
          BY <1>1, <2>2, <4>1
      <3> QED
        BY <3>1
    <2>4. \A i \in 1..N : r[i] \in Elements
      BY <1>1, <2>2 DEF VectorElements
    <2>5. r \in Seq(Elements)
      BY <1>1, <2>4, SeqDef
    <2>6. kept = Matching(r, Elements \ P)
      <3>1. \A x \in Elements : x \in VectorElements \ P <=> x \in Elements \ P
        BY DEF VectorElements
      <3> QED
        BY <1>1, <2>5, <3>1, MatchingSame
    <2>7. /\ met = <<>> <=> kept = r
          /\ met \in Seq(Elements) /\ Len(met) <= N
          /\ Len(kept) = N - Len(met)
      <3>1. /\ Matching(r, P) = <<>> <=> Matching(r, Elements \ P) = r
            /\ Matching(r, P) \in Seq(Elements) /\ Len(Matching(r, P)) <= Len(r)
            /\ Len(Matching(r, Elements \ P)) = Len(r) - Len(Matching(r, P))
        BY <2>5, Complement
      <3> QED
        BY <1>1, <2>6, <3>1
    <2>8. kept \in Seq(Elements)
      <3>1. Matching(r, Elements \ P) \in Seq(Elements)
        BY <2>5, Complement
      <3> QED
        BY <2>6, <3>1
    <2> HIDE DEF kept, met
    <2>9. PICK K \in Nat : K = Len(kept) /\ K <= N /\ K <= L /\ (K < N <=> met # <<>>)
      <3>1. Len(met) \in Nat /\ (Len(met) = 0 <=> met = <<>>)
        BY <2>7, EmptySeq
      <3>2. Len(kept) \in Nat
        BY <2>8
      <3> QED
        BY <1>1, <2>3, <2>7, <3>1, <3>2
    <2>10. \A i \in 1..K : kept[i] \in Elements
      BY <2>8, <2>9, ElementOfSeq
    <2>11. \A i \in 1..L : obj.buffer[i] \in VectorElements
      BY <1>1, ElementOfSeq DEF VectorInv, Buffered
    <2>12. packed = [i \in 1..L |-> IF i <= K THEN kept[i] ELSE obj.buffer[i]]
      BY <1>1, <2>9
    <2>13. packed \in [1..L -> VectorElements]
      <3>1. \A i \in 1..L : (IF i <= K THEN kept[i] ELSE obj.buffer[i]) \in VectorElements
        <4> TAKE i \in 1..L
        <4>1. i <= K => i \in 1..K
          OBVIOUS
        <4> QED
          BY <2>10, <2>11, <4>1 DEF VectorElements
      <3> QED
        BY <2>12, <3>1
    <2> HIDE DEF packed
    <2>14. packed \in Seq(VectorElements) /\ Len(packed) = L
      BY <1>1, <2>13, MadeSeq
    <2>15. \A i \in 1..K : packed[i] = kept[i]
      <3> TAKE i \in 1..K
      <3>1. i \in 1..L /\ i <= K
        BY <2>9
      <3> QED
        BY <2>12, <3>1
    <2>16. obj' = [buffer |-> packed, size |-> K]
      BY <1>4, <2>9
    <2>17. Buffered(obj')
      <3>1. \A i \in 1..Len(packed) : i <= K => packed[i] # Null
        <4> TAKE i \in 1..Len(packed)
        <4> HAVE i <= K
        <4>1. i \in 1..K
          BY <2>14
        <4> QED
          BY <2>10, <2>15, <4>1, SequentialAssumption
      <3> QED
        BY <2>9, <2>14, <2>16, <3>1, BufferedIs
    <2>18. Reading(obj') = kept
      <3>1. Reading(obj') \in Seq(VectorElements) /\ Len(Reading(obj')) = K
        BY <2>16, <2>17, ReadingIs
      <3>2. \A i \in 1..K : Reading(obj')[i] = kept[i]
        <4> TAKE i \in 1..K
        <4>1. i <= Len(packed)
          BY <2>9, <2>14
        <4>2. Reading(obj')[i] = packed[i]
          BY <2>16, <4>1 DEF Reading
        <4> QED
          BY <2>15, <4>2
      <3> QED
        BY <2>8, <2>9, <3>1, <3>2, SeqEqual
    <2>19. ASSUME VectorFollows PROVE Seq0!Search(P)
      <3>1. Items = r /\ Items' = kept /\ OtherItems' = OtherItems
        BY <1>1, <2>1, <2>18, <2>19 DEF VectorFollows
      <3>2. Seq0!Matching(Items, P) = met /\ Seq0!Matching(Items, Elements \ P) = kept
        BY <1>1, <2>6, <3>1, SameInVector DEF met
      <3>3. VectorM!Bool(Len(kept) < N) = IF met = <<>> THEN Seq0!CFalse ELSE Seq0!CTrue
        BY <2>9, SameInVector DEF VectorM!Bool
      <3>4. Seq0!Call("remove_if", P, IF met = <<>> THEN Seq0!CFalse ELSE Seq0!CTrue, kept)
        BY <2>1, <3>1, <3>3 DEF Seq0!Call
      <3> QED
        BY <3>2, <3>4 DEF Seq0!Search
    <2>20. VectorInv'
      BY <2>1, <2>17 DEF VectorInv, Buffered
    <2> QED
      BY <2>19, <2>20 DEF VectorStepFollows, Seq0!Next
  <1> QED
    BY <1>2, <1>3, <1>4

LEMMA VectorLookStep ==
    ASSUME VectorInv, VectorM!Look
    PROVE  VectorInv' /\ VectorStepFollows
  <1>1. UNCHANGED <<obj, other, life, iterator>>
    BY DEF VectorM!Look, VectorM!Returns, VectorM!Did
  <1>2. Buffered(obj) /\ obj.size \in Nat /\ Reading(obj) \in Seq(VectorElements) /\ Len(Reading(obj)) = obj.size
    BY ReadingIs DEF VectorInv
  <1>3. CASE last'.op = "memory"
    BY <1>1, <1>3, VectorQuiet DEF VectorInv
  <1>4. VectorInv'
    BY <1>1 DEF VectorInv, Buffered
  <1>5. ASSUME VectorFollows, last'.op # "memory" PROVE Seq0!Next
    <2>1. /\ Items = Reading(obj) /\ Items' = Items /\ OtherItems' = OtherItems /\ Whole(obj)
          /\ obj.size = Len(Items) /\ Items \in Seq(VectorElements)
      BY <1>1, <1>2, <1>5 DEF VectorFollows
    <2>2. obj.size = 0 <=> Items = <<>>
      BY <1>2, <2>1, EmptySeq
    <2>3. \/ last' = [op |-> "size", arg |-> Null, answer |-> obj.size]
          \/ last' = [op |-> "empty", arg |-> Null, answer |-> VectorM!Bool(obj.size = 0)]
          \/ last' = [op |-> "back", arg |-> Null,
                      answer |-> IF obj.size = 0 THEN Null ELSE VectorM!Word(obj.size - 1)]
          \/ obj.size # 0 /\ last' = [op |-> "front", arg |-> Null, answer |-> VectorM!Word(0)]
          \/ last' = [op |-> "at", arg |-> obj.size + 1, answer |-> Null]
      <3>1. \/ VectorM!Returns("size", Null, obj.size)
            \/ VectorM!Returns("empty", Null, VectorM!Bool(obj.size = 0))
            \/ VectorM!Returns("memory", Null, VectorM!VectorCapacity)
            \/ VectorM!Returns("memory", Null, VectorM!VectorCapacity - obj.size)
            \/ VectorM!Returns("back", Null, IF obj.size = 0 THEN Null ELSE VectorM!Word(obj.size - 1))
            \/ VectorM!Returns("front", Null, VectorM!Word(0))
            \/ \E i \in 1..(obj.size + 1) : VectorM!Returns("at", i, IF obj.size < i THEN Null ELSE i)
        BY DEF VectorM!Look
      <3>2. CASE VectorM!Returns("front", Null, VectorM!Word(0))
        BY <1>5, <2>2, <3>2, VectorReturns DEF VectorFollows, AnsweredAsSequence
      <3>3. CASE \E i \in 1..(obj.size + 1) : VectorM!Returns("at", i, IF obj.size < i THEN Null ELSE i)
        <4>1. PICK i \in 1..(obj.size + 1) : VectorM!Returns("at", i, IF obj.size < i THEN Null ELSE i)
          BY <3>3
        <4>2. last' = [op |-> "at", arg |-> i, answer |-> IF obj.size < i THEN Null ELSE i]
          BY <4>1, VectorReturns
        <4>3. (IF obj.size < i THEN Null ELSE i) = Null
          BY <1>5, <4>2 DEF VectorFollows, AnsweredAsSequence
        <4>4. i \in Nat /\ i # Null
          BY <1>2, NullAssumption
        <4>5. obj.size < i
          BY <4>3, <4>4
        <4>6. i = obj.size + 1
          BY <1>2, <4>5
        <4> QED
          BY <4>2, <4>5, <4>6
      <3> QED
        BY <1>5, <3>1, <3>2, <3>3, VectorReturns
    <2>4. CASE last' = [op |-> "size", arg |-> Null, answer |-> obj.size]
      <3>1. Seq0!Call("size", Null, Len(Items), Items)
        BY <2>1, <2>4 DEF Seq0!Call
      <3> QED
        BY <3>1 DEF Seq0!Measure, Seq0!Next
    <2>5. CASE last' = [op |-> "empty", arg |-> Null, answer |-> VectorM!Bool(obj.size = 0)]
      <3>1. VectorM!Bool(obj.size = 0) = IF Items = <<>> THEN Seq0!CTrue ELSE Seq0!CFalse
        BY <2>2, SameInVector DEF VectorM!Bool
      <3>2. Seq0!Call("empty", Null, IF Items = <<>> THEN Seq0!CTrue ELSE Seq0!CFalse, Items)
        BY <2>1, <2>5, <3>1 DEF Seq0!Call
      <3> QED
        BY <3>2 DEF Seq0!Measure, Seq0!Next
    <2>6. CASE Items = <<>> /\ last' = [op |-> "back", arg |-> Null,
                                        answer |-> IF obj.size = 0 THEN Null ELSE VectorM!Word(obj.size - 1)]
      <3>1. Seq0!Call("back", Null, Null, Items)
        BY <2>1, <2>2, <2>6 DEF Seq0!Call
      <3> QED
        BY <2>6, <3>1 DEF Seq0!Take, Seq0!Next
    <2>7. CASE Items # <<>> /\ last' = [op |-> "back", arg |-> Null,
                                        answer |-> IF obj.size = 0 THEN Null ELSE VectorM!Word(obj.size - 1)]
      <3>1. VectorM!Word(obj.size - 1) = Seq0!Last(Items)
        <4>1. obj.size - 1 \in 0..(obj.size - 1) /\ (obj.size - 1) + 1 = obj.size
          BY <1>2, <2>2, <2>7
        <4>2. VectorM!Word(obj.size - 1) = Reading(obj)[(obj.size - 1) + 1]
          BY <1>2, <2>1, <4>1, WordIs
        <4> QED
          BY <2>1, <4>1, <4>2 DEF Seq0!Last
      <3>2. Seq0!Call("back", Null, Seq0!Last(Items), Items)
        BY <2>1, <2>2, <2>7, <3>1 DEF Seq0!Call
      <3> QED
        BY <2>7, <3>2 DEF Seq0!Take, Seq0!Next
    <2>8. CASE obj.size # 0 /\ last' = [op |-> "front", arg |-> Null, answer |-> VectorM!Word(0)]
      <3>1. VectorM!Word(0) = Head(Items)
        <4>1. 0 \in 0..(obj.size - 1)
          BY <1>2, <2>8
        <4>2. VectorM!Word(0) = Reading(obj)[0 + 1]
          BY <1>2, <2>1, <4>1, WordIs
        <4> QED
          BY <2>1, <2>2, <2>8, <4>2
      <3>2. Seq0!Call("front", Null, Head(Items), Items)
        BY <2>1, <2>8, <3>1 DEF Seq0!Call
      <3> QED
        BY <2>2, <2>8, <3>2 DEF Seq0!Take, Seq0!Next
    <2>9. CASE last' = [op |-> "at", arg |-> obj.size + 1, answer |-> Null]
      <3>1. Len(Items) + 1 \in 1..(Len(Items) + 1) /\ ~(Len(Items) + 1 <= Len(Items))
        BY <1>2, <2>1
      <3>2. Seq0!At(Len(Items) + 1)
        BY <2>1, <2>9, <3>1 DEF Seq0!At, Seq0!Call
      <3> QED
        BY <3>1, <3>2 DEF Seq0!Next
    <2> QED
      BY <2>3, <2>4, <2>5, <2>6, <2>7, <2>8, <2>9
  <1> QED
    BY <1>3, <1>4, <1>5 DEF VectorStepFollows

LEMMA VectorTwoStep ==
    ASSUME VectorInv, VectorM!Swap \/ VectorM!DeepCopy
    PROVE  VectorInv' /\ VectorStepFollows
  <1>1. CASE VectorM!Swap
    <2>1. /\ obj' = other /\ other' = obj /\ UNCHANGED <<life, iterator>>
          /\ last' = [op |-> "swap", arg |-> Null, answer |-> Null]
      BY <1>1 DEF VectorM!Swap, VectorM!Makes
    <2>2. VectorFollows => Seq0!Swap
      BY <2>1 DEF VectorFollows, Seq0!Swap
    <2> QED
      BY <2>1, <2>2 DEF VectorInv, Buffered, VectorStepFollows, Seq0!Next
  <1>2. CASE VectorM!DeepCopy
    <2>1. /\ UNCHANGED <<obj, life, iterator>> /\ other' = obj
          /\ last' = [op |-> "deep_copy", arg |-> Null, answer |-> Seq0!CTrue]
      BY <1>2 DEF VectorM!DeepCopy, VectorM!Makes, VectorM!CTrue, Seq0!CTrue
    <2>2. VectorFollows => Seq0!Copy
      BY <2>1 DEF VectorFollows, Seq0!Copy
    <2> QED
      BY <2>1, <2>2 DEF VectorInv, Buffered, VectorStepFollows, Seq0!Next
  <1> QED
    BY <1>1, <1>2

LEMMA VectorFreeStep ==
    ASSUME VectorInv, VectorM!Free \/ VectorM!ForEach
    PROVE  VectorInv' /\ VectorStepFollows
  <1>1. /\ UNCHANGED <<obj, other, iterator>> /\ life' \in VectorM!Lives
        /\ life' # "undefined" => last'.op \in {"free", "iterator"}
    <2>1. CASE VectorM!Free
      BY <2>1 DEF VectorM!Free, VectorM!Frees, VectorM!Breaks, VectorM!Makes, VectorM!Lives
    <2>2. CASE VectorM!ForEach
      <3>1. CASE VectorM!Fails("iterator", Null)
        BY <3>1 DEF VectorM!Fails, VectorM!Breaks, VectorM!Lives
      <3>2. CASE VectorM!Returns("iterator", Null, Null) /\ UNCHANGED obj
        BY <3>2, VectorReturns DEF VectorInv
      <3> QED
        BY <2>2, <3>1, <3>2 DEF VectorM!ForEach
    <2> QED
      BY <2>1, <2>2
  <1> QED
    BY <1>1, VectorQuiet DEF VectorInv

(* A step of the iterator that reads. *)
LEMMA VectorGoesStep ==
    ASSUME VectorInv, NEW answer, NEW index \in Nat, NEW data \in VectorElements,
           VectorM!Goes(answer, index, data)
    PROVE  VectorInv' /\ VectorStepFollows
  <1>1. /\ UNCHANGED <<obj, other, life>> /\ iterator' = [index |-> index, data |-> data]
        /\ last'.op = "iterator"
    BY VectorDid DEF VectorM!Goes
  <1>2. iterator' \in [index : Nat, data : VectorElements]
    BY <1>1
  <1> QED
    BY <1>1, <1>2, VectorQuiet DEF VectorInv

LEMMA VectorReadStep ==
    ASSUME VectorInv,
           \/ iterator = Null /\ (VectorM!Begin \/ VectorM!End)
           \/ iterator # Null /\ (VectorM!Increment \/ VectorM!Decrement \/ VectorM!Peek \/ VectorM!IteratorFree)
    PROVE  VectorInv' /\ VectorStepFollows
  <1>1. /\ \A i \in Int : VectorM!Word(i) \in VectorElements
        /\ obj.size \in Nat /\ Null \in VectorElements
    BY WordIs DEF VectorInv, Buffered, VectorElements
  <1>2. ASSUME iterator # Null PROVE iterator.index \in Nat /\ iterator.data \in VectorElements
    BY <1>2 DEF VectorInv
  <1>3. CASE iterator = Null /\ VectorM!Begin
    <2>1. VectorM!Goes(Null, 0, VectorM!Word(0))
      BY <1>3 DEF VectorM!Begin, VectorM!Goes
    <2> QED
      BY <1>1, <2>1, VectorGoesStep
  <1>4. CASE iterator = Null /\ VectorM!End
    <2>1. CASE obj.size = 0
      BY <1>4, <2>1, VectorFailsStep DEF VectorM!End
    <2>2. CASE obj.size # 0
      <3>1. VectorM!Goes(Null, obj.size - 1, VectorM!Word(obj.size - 1))
        BY <1>4, <2>2 DEF VectorM!End, VectorM!Goes
      <3>2. obj.size - 1 \in Nat /\ VectorM!Word(obj.size - 1) \in VectorElements
        BY <1>1, <2>2
      <3> QED
        BY <3>1, <3>2, VectorGoesStep
    <2> QED
      BY <2>1, <2>2
  <1>5. CASE iterator # Null /\ VectorM!Increment
    <2>1. CASE VectorM!Goes(Null, iterator.index, Null)
      BY <1>1, <1>2, <1>5, <2>1, VectorGoesStep
    <2>2. CASE \E i \in {iterator.index, iterator.index + 1} : VectorM!Goes(Null, i, VectorM!Word(i))
      <3>1. PICK i \in Nat : VectorM!Goes(Null, i, VectorM!Word(i))
        BY <1>2, <1>5, <2>2
      <3> QED
        BY <1>1, <3>1, VectorGoesStep
    <2> QED
      BY <1>5, <2>1, <2>2 DEF VectorM!Increment
  <1>6. CASE iterator # Null /\ VectorM!Decrement
    <2>1. CASE iterator.index = 0
      BY <1>1, <1>6, <2>1, VectorGoesStep DEF VectorM!Decrement
    <2>2. CASE iterator.index # 0
      <3>1. PICK i \in Nat : VectorM!Goes(Null, i, VectorM!Word(i))
        <4>1. \E i \in {iterator.index, iterator.index - 1} : VectorM!Goes(Null, i, VectorM!Word(i))
          BY <1>6, <2>2 DEF VectorM!Decrement
        <4>2. {iterator.index, iterator.index - 1} \subseteq Nat
          BY <1>2, <1>6, <2>2
        <4> QED
          BY <4>1, <4>2
      <3> QED
        BY <1>1, <3>1, VectorGoesStep
    <2> QED
      BY <2>1, <2>2
  <1>7. CASE iterator # Null /\ VectorM!Peek
    <2>1. \E answer : VectorM!Goes(answer, iterator.index, iterator.data)
      BY <1>7, Zenon DEF VectorM!Peek
    <2> QED
      BY <1>2, <1>7, <2>1, VectorGoesStep
  <1>8. CASE iterator # Null /\ VectorM!IteratorFree
    <2>1. UNCHANGED <<obj, other, life>> /\ iterator' = Null /\ last'.op = "iterator"
      BY <1>8, VectorDid DEF VectorM!IteratorFree
    <2> QED
      BY <2>1, VectorQuiet DEF VectorInv
  <1> QED
    BY <1>3, <1>4, <1>5, <1>6, <1>7, <1>8

(* iterator_insert overwrites the element it points at. *)
LEMMA VectorReplaceStep ==
    ASSUME VectorInv, iterator # Null, NEW x \in Elements, VectorM!IteratorInsert(x)
    PROVE  VectorInv' /\ VectorStepFollows
  <1>1. PICK N \in Nat, L \in Nat, b \in Seq(VectorElements), i \in Nat :
            /\ obj = [buffer |-> b, size |-> N] /\ L = Len(b) /\ i = iterator.index
            /\ VectorM!VectorCapacity = L
    <2>1. Buffered(obj) /\ iterator.index \in Nat
      BY DEF VectorInv
    <2> QED
      BY <2>1, WordIs DEF Buffered
  <1>2. CASE i >= L
    BY <1>1, <1>2, VectorFailsStep DEF VectorM!IteratorInsert
  <1>3. CASE ~(i >= L)
    <2>1. /\ VectorM!Did("replace", x, i) /\ obj' = [obj EXCEPT !.buffer[i + 1] = x]
          /\ iterator' = [iterator EXCEPT !.data = x]
      BY <1>1, <1>3 DEF VectorM!IteratorInsert
    <2>2. UNCHANGED <<life, other>> /\ last' = [op |-> "replace", arg |-> x, answer |-> i]
      BY <2>1, VectorDid
    <2> DEFINE c == [b EXCEPT ![i + 1] = x]
    <2>3. obj' = [buffer |-> c, size |-> N]
      <3>1. obj' = [obj EXCEPT !.buffer = [obj.buffer EXCEPT ![i + 1] = x]]
        BY <2>1
      <3> QED
        BY <1>1, <3>1
    <2>4. x \in VectorElements /\ x # Null /\ i + 1 \in 1..L
      BY <1>3, SequentialAssumption DEF VectorElements
    <2>5. c \in Seq(VectorElements) /\ Len(c) = L /\ \A j \in 1..L : c[j] = IF j = i + 1 THEN x ELSE b[j]
      BY <1>1, <2>4
    <2> HIDE DEF c
    <2>6. Buffered(obj')
      <3>1. \A j \in 1..L : j <= N => b[j] # Null
        BY <1>1 DEF VectorInv, Buffered
      <3>2. \A j \in 1..Len(c) : j <= N => c[j] # Null
        BY <2>4, <2>5, <3>1
      <3> QED
        BY <2>3, <2>5, <3>2, BufferedIs
    <2>7. iterator' \in [index : Nat, data : VectorElements]
      BY <2>1, <2>4 DEF VectorInv
    <2>8. ASSUME VectorFollows PROVE Seq0!Push(x)
      <3>1. i < N /\ N <= L
        BY <1>1, <2>8 DEF VectorFollows, Inside, Whole
      <3>2. PICK r \in Seq(VectorElements) : r = Reading(obj) /\ Len(r) = N
        BY <1>1, ReadingIs DEF VectorInv
      <3> DEFINE s == [r EXCEPT ![i + 1] = x]
      <3>3. i + 1 \in 1..N /\ (i + 1) - 1 = i
        BY <3>1
      <3>4. s \in Seq(VectorElements) /\ Len(s) = N /\ \A j \in 1..N : s[j] = IF j = i + 1 THEN x ELSE r[j]
        BY <2>4, <3>2, <3>3
      <3>5. Reading(obj') \in Seq(VectorElements) /\ Len(Reading(obj')) = N
        BY <2>3, <2>6, ReadingIs
      <3>6. \A j \in 1..N : r[j] = b[j] /\ Reading(obj')[j] = c[j]
        <4> TAKE j \in 1..N
        <4>1. j <= L /\ j <= Len(b) /\ j <= Len(c)
          BY <1>1, <2>5, <3>1
        <4> QED
          BY <1>1, <2>3, <3>2, <4>1 DEF Reading
      <3> HIDE DEF s
      <3>7. \A j \in 1..N : Reading(obj')[j] = s[j]
        <4> TAKE j \in 1..N
        <4>1. j \in 1..L
          BY <3>1
        <4> QED
          BY <2>5, <3>4, <3>6, <4>1
      <3>8. Reading(obj') = s
        BY <3>4, <3>5, <3>7, SeqEqual
      <3>9. Items = r /\ Items' = [Items EXCEPT ![i + 1] = x] /\ OtherItems' = OtherItems
        BY <2>2, <2>8, <3>2, <3>8 DEF VectorFollows, s
      <3>10. i + 1 \in 1..Len(Items)
        BY <3>2, <3>3, <3>9
      <3>11. Seq0!Call("replace", x, (i + 1) - 1, [Items EXCEPT ![i + 1] = x])
        BY <2>2, <3>3, <3>9 DEF Seq0!Call
      <3> QED
        BY <3>10, <3>11 DEF Seq0!Push
    <2>9. VectorInv'
      BY <2>2, <2>6, <2>7 DEF VectorInv, Buffered
    <2> QED
      BY <2>8, <2>9 DEF VectorStepFollows, Seq0!Next
  <1> QED
    BY <1>2, <1>3

(* iterator_remove takes the element it points at out, unless it is the last, *)
(* after which it points past the end.                                       *)
LEMMA VectorTakeOutStep ==
    ASSUME VectorInv, iterator # Null, VectorM!IteratorRemove
    PROVE  VectorInv' /\ VectorStepFollows
  <1>1. PICK N \in Nat, L \in Nat, b \in Seq(VectorElements), i \in Nat :
            /\ obj = [buffer |-> b, size |-> N] /\ L = Len(b) /\ i = iterator.index
            /\ VectorM!VectorCapacity = L
    <2>1. Buffered(obj) /\ iterator.index \in Nat
      BY DEF VectorInv
    <2> QED
      BY <2>1, WordIs DEF Buffered
  <1>2. Buffered(obj) /\ iterator \in [index : Nat, data : VectorElements]
    BY DEF VectorInv
  <1> DEFINE n == L - (i + 1)
             moved == VectorM!Moved(i, n)
  <1>3. \/ N = 0 /\ VectorM!Goes(Null, i, iterator.data)
        \/ /\ N = i + 1 /\ VectorM!Did("remove_at", Null, i)
           /\ iterator' = [iterator EXCEPT !.data = Null] /\ obj' = [obj EXCEPT !.size = @ - 1]
        \/ VectorM!Fails("remove_at", Null)
        \/ /\ N # 0 /\ ~(i >= L) /\ VectorM!Did("remove_at", Null, i)
           /\ iterator' = [iterator EXCEPT !.data = moved[i + 1]]
           /\ obj' = [buffer |-> moved, size |-> obj.size - 1]
    <2>1. VectorM!Moved(i, VectorM!VectorCapacity - (i + 1)) = moved
      BY <1>1
    <2> HIDE DEF moved
    <2> QED
      BY <1>1, <2>1 DEF VectorM!IteratorRemove
  <1>4. CASE N = 0 /\ VectorM!Goes(Null, i, iterator.data)
    <2>1. iterator.data \in VectorElements
      BY <1>2
    <2> QED
      BY <1>4, <2>1, VectorGoesStep
  <1> DEFINE TakenOut ==
                 /\ Buffered(obj') /\ obj'.size = N - 1 /\ N - 1 \in Nat
                 /\ iterator' \in [index : Nat, data : VectorElements]
                 /\ i < N /\ Whole(obj) => \A j \in 1..(N - 1) :
                        Reading(obj')[j] = IF j < i + 1 THEN Reading(obj)[j] ELSE Reading(obj)[j + 1]
  <1>5. ASSUME N = i + 1, iterator' = [iterator EXCEPT !.data = Null], obj' = [obj EXCEPT !.size = @ - 1]
        PROVE  TakenOut
    <2>1. iterator' = [index |-> i, data |-> Null] /\ obj' = [buffer |-> b, size |-> i]
      BY <1>1, <1>2, <1>5
    <2>2. iterator' \in [index : Nat, data : VectorElements]
      BY <2>1 DEF VectorElements
    <2>3. Buffered(obj')
      <3>1. \A j \in 1..Len(b) : j <= i => b[j] # Null
        BY <1>1, <1>2, <1>5 DEF Buffered
      <3> QED
        BY <2>1, <3>1, BufferedIs
    <2>4. \A j \in 1..i : Reading(obj')[j] = Reading(obj)[j]
      BY <1>1, <1>5, <2>1 DEF Reading
    <2> QED
      BY <1>1, <1>5, <2>1, <2>2, <2>3, <2>4
  <1>6. ASSUME N # 0, ~(i >= L), iterator' = [iterator EXCEPT !.data = moved[i + 1]],
               obj' = [buffer |-> moved, size |-> obj.size - 1]
        PROVE  TakenOut
    <2>1. n \in Nat /\ Len(obj.buffer) - 1 <= i + n /\ obj.size # 0 /\ i + 1 \in 1..L
      BY <1>1, <1>6
    <2>2. moved \in Seq(VectorElements) /\ Len(moved) = L
      <3>1. n \in Int
        BY <2>1
      <3> HIDE DEF n
      <3>2. VectorM!Moved(i, n) \in Seq(VectorElements) /\ Len(VectorM!Moved(i, n)) = Len(obj.buffer)
        BY <1>2, <3>1, MovedIs
      <3> QED
        BY <1>1, <3>2
    <2>3. moved[i + 1] \in VectorElements
      <3> HIDE DEF moved
      <3> QED
        BY <2>1, <2>2, ElementOfSeq
    <2>4. /\ Buffered(obj')
          /\ Whole(obj) => \A j \in 1..(obj.size - 1) :
                 Reading(obj')[j] = IF j < i + 1 THEN Reading(obj)[j] ELSE Reading(obj)[j + 1]
      <3>1. obj' = [buffer |-> VectorM!Moved(i, n), size |-> obj.size - 1]
        BY <1>6
      <3> HIDE DEF n
      <3> QED
        BY <1>2, <2>1, <3>1, MovedReads
    <2> HIDE DEF moved
    <2>5. iterator' \in [index : Nat, data : VectorElements]
      BY <1>2, <1>6, <2>3
    <2>6. obj.size = N /\ obj'.size = N - 1 /\ N - 1 \in Nat
      BY <1>1, <1>6
    <2> QED
      BY <2>4, <2>5, <2>6
  <1>7. ASSUME TakenOut, VectorM!Did("remove_at", Null, i) PROVE VectorInv' /\ VectorStepFollows
    <2>1. UNCHANGED <<life, other>> /\ last' = [op |-> "remove_at", arg |-> Null, answer |-> i]
      BY <1>7, VectorDid
    <2>2. ASSUME VectorFollows PROVE Seq0!Take
      <3>1. i < N /\ Whole(obj)
        BY <1>1, <1>2, <1>7, <2>2 DEF VectorFollows, Inside
      <3>2. PICK r \in Seq(VectorElements) : r = Reading(obj) /\ Len(r) = N
        BY <1>1, <1>2, ReadingIs
      <3>3. i + 1 \in 1..N /\ (i + 1) - 1 = i
        BY <3>1
      <3>4. /\ RemoveAt(r, i + 1) \in Seq(VectorElements)
            /\ Len(RemoveAt(r, i + 1)) = N - 1
            /\ \A j \in 1..(N - 1) : RemoveAt(r, i + 1)[j] = IF j < i + 1 THEN r[j] ELSE r[j + 1]
        <4> DEFINE k == i + 1
        <4>1. k \in 1..Len(r)
          BY <3>2, <3>3
        <4> HIDE DEF k
        <4>2. /\ RemoveAt(r, k) \in Seq(VectorElements)
              /\ Len(RemoveAt(r, k)) = Len(r) - 1
              /\ \A j \in 1..(Len(r) - 1) : RemoveAt(r, k)[j] = IF j < k THEN r[j] ELSE r[j + 1]
          BY <4>1, RemoveAtIs
        <4> QED
          BY <3>2, <4>2 DEF k
      <3>5. Reading(obj') \in Seq(VectorElements) /\ Len(Reading(obj')) = N - 1
        <4>1. Reading(obj') \in Seq(VectorElements) /\ Len(Reading(obj')) = obj'.size
          BY <1>7, ReadingIs
        <4> QED
          BY <1>7, <4>1
      <3>6. \A j \in 1..(N - 1) : Reading(obj')[j] = IF j < i + 1 THEN r[j] ELSE r[j + 1]
        BY <1>7, <3>1, <3>2
      <3>7. Reading(obj') = RemoveAt(r, i + 1)
        <4> DEFINE s == RemoveAt(r, i + 1)
        <4>1. s \in Seq(VectorElements) /\ Len(s) = N - 1
              /\ \A j \in 1..(N - 1) : Reading(obj')[j] = s[j]
          BY <3>4, <3>6
        <4> HIDE DEF s
        <4>2. Reading(obj') = s
          BY <3>5, <4>1, SeqEqual
        <4> QED
          BY <4>2 DEF s
      <3>8. Items = r /\ Items # <<>> /\ i + 1 \in 1..Len(Items) /\ OtherItems' = OtherItems
        BY <2>1, <2>2, <3>2, <3>3, EmptySeq DEF VectorFollows
      <3>9. Items' = Seq0!RemoveAt(Items, i + 1)
        BY <2>2, <3>7, <3>8, SameInSequence DEF VectorFollows
      <3>10. Seq0!Call("remove_at", Null, (i + 1) - 1, Seq0!RemoveAt(Items, i + 1))
        BY <2>1, <3>3, <3>8, <3>9 DEF Seq0!Call
      <3> QED
        BY <3>8, <3>10 DEF Seq0!Take
    <2>3. VectorInv'
      BY <1>7, <2>1 DEF VectorInv, Buffered
    <2> QED
      BY <2>2, <2>3 DEF VectorStepFollows, Seq0!Next
  <1> HIDE DEF TakenOut, moved
  <1> QED
    BY <1>3, <1>4, <1>5, <1>6, <1>7, VectorFailsStep

LEMMA VectorStep ==
    ASSUME VectorInv, VectorM!Next, MaxCapacity \in Nat
    PROVE  VectorInv' /\ VectorStepFollows
  <1>1. CASE \E x \in Elements : VectorM!PushBack(x)
    BY <1>1, VectorPushStep
  <1>2. CASE \E P \in SUBSET Elements : VectorM!FindIf(P)
    BY <1>2, VectorFindStep
  <1>3. CASE \E P \in SUBSET Elements : VectorM!RemoveIf(P)
    BY <1>3, VectorRemoveStep
  <1>4. CASE \E n \in 0..MaxCapacity : VectorM!Resize(n)
    <2>1. PICK n \in Nat : VectorM!Resize(n)
      BY <1>4
    <2> QED
      BY <2>1, VectorResizeStep
  <1>5. CASE VectorM!PopBack
    BY <1>5, VectorPopStep
  <1>6. CASE VectorM!PopFront
    BY <1>6, VectorPopFrontStep
  <1>7. CASE VectorM!ForEach \/ VectorM!Free
    BY <1>7, VectorFreeStep
  <1>8. CASE VectorM!Look
    BY <1>8, VectorLookStep
  <1>9. CASE VectorM!ShrinkToFit
    <2>1. obj.size \in Nat
      BY DEF VectorInv, Buffered
    <2> QED
      BY <1>9, <2>1, VectorResizeStep DEF VectorM!ShrinkToFit
  <1>10. CASE VectorM!Swap \/ VectorM!DeepCopy
    BY <1>10, VectorTwoStep
  <1>11. CASE VectorM!Iterate
    <2>1. \/ iterator = Null /\ (VectorM!Begin \/ VectorM!End)
          \/ iterator # Null /\ (VectorM!Increment \/ VectorM!Decrement \/ VectorM!Peek \/ VectorM!IteratorFree)
          \/ iterator # Null /\ VectorM!IteratorRemove
          \/ iterator # Null /\ \E x \in Elements : VectorM!IteratorInsert(x)
      BY <1>11 DEF VectorM!Iterate
    <2> QED
      BY <2>1, VectorReadStep, VectorTakeOutStep, VectorReplaceStep
  <1> QED
    BY <1>1, <1>2, <1>3, <1>4, <1>5, <1>6, <1>7, <1>8, <1>9, <1>10, <1>11 DEF VectorM!Next

-----------------------------------------------------------------------------
(* The vector in the run. *)
VectorKindInv == kind = "vector" => VectorInv

VectorRunFollows ==
    kind = "vector" /\ Returned /\ VectorM!InBounds /\ VectorM!InBounds'
        /\ AnsweredAsSequence
      => [Seq0!Next]_(Seq0!vars)

LEMMA VectorItems ==
    ASSUME kind = "vector", kind' = "vector", VectorInv, VectorInv', VectorM!InBounds, VectorM!InBounds',
           AnsweredAsSequence
    PROVE  VectorFollows
  <1>1. Items = VectorM!Contents /\ OtherItems = Reading(other)
    BY DEF Items, OtherItems, Realloc, Reading
  <1>2. Items' = VectorM!Contents' /\ OtherItems' = Reading(other')
    BY DEF Items, OtherItems, Realloc, Reading
  <1>3. Buffered(obj) => VectorM!Contents = Reading(obj) /\ VectorM!VectorCapacity = Len(obj.buffer)
    BY WordIs
  <1>4. (Buffered(obj) => VectorM!Contents = Reading(obj) /\ VectorM!VectorCapacity = Len(obj.buffer))'
    BY WordIs, PTL
  <1>5. VectorM!Contents = Reading(obj) /\ VectorM!VectorCapacity = Len(obj.buffer)
    BY <1>3 DEF VectorInv
  <1>6. VectorM!Contents' = Reading(obj') /\ VectorM!VectorCapacity' = Len(obj'.buffer)
    BY <1>4 DEF VectorInv, Buffered, Reading
  <1> QED
    BY <1>1, <1>2, <1>5, <1>6 DEF VectorFollows, Whole, Inside, VectorM!InBounds

LEMMA VectorKindStep ==
    ASSUME VectorKindInv, [Next]_allVars
    PROVE  VectorKindInv' /\ VectorRunFollows
  <1>1. CASE kind = "vector" /\ Next
    <2>1. kind' = "vector" /\ VectorM!Next
      BY <1>1 DEF Next
    <2>2. VectorInv /\ MaxCapacity \in Nat
      BY <1>1, ContainersAssumption DEF VectorKindInv
    <2>3. VectorInv' /\ VectorStepFollows
      BY <2>1, <2>2, VectorStep
    <2>4. VectorKindInv'
      BY <2>3 DEF VectorKindInv
    <2> QED
      BY <1>1, <2>1, <2>2, <2>3, <2>4, VectorItems DEF VectorRunFollows, VectorStepFollows, Returned
  <1>2. CASE kind # "vector" /\ Next
    <2>1. kind' = kind
      BY <1>2 DEF Next
    <2> QED
      BY <1>2, <2>1 DEF VectorKindInv, VectorRunFollows
  <1>3. CASE UNCHANGED allVars
    <2>1. UNCHANGED <<kind, obj, other, last, life, iterator>>
      BY <1>3 DEF allVars, clientVars
    <2>2. VectorKindInv'
      BY <2>1 DEF VectorKindInv, VectorInv, Buffered
    <2>3. ASSUME kind = "vector", VectorM!InBounds, VectorM!InBounds',
                 AnsweredAsSequence
          PROVE  UNCHANGED Seq0!vars
      <3>1. VectorFollows
        BY <2>1, <2>2, <2>3, VectorItems DEF VectorKindInv
      <3> QED
        BY <2>1, <3>1 DEF VectorFollows, Seq0!vars
    <2> QED
      BY <2>2, <2>3 DEF VectorRunFollows
  <1> QED
    BY <1>1, <1>2, <1>3

LEMMA VectorKindHolds == Spec => []VectorKindInv
  <1>1. Init => VectorKindInv
    <2>1. Init /\ kind = "vector" => VectorM!Init /\ iterator = Null
      BY DEF Init
    <2> QED
      BY <2>1, VectorInitInv DEF VectorKindInv
  <1>2. VectorKindInv /\ [Next]_allVars => VectorKindInv'
    BY VectorKindStep
  <1> QED
    BY <1>1, <1>2, PTL DEF Spec

(* A vector is a sequence for its client, whatever its elements and initial   *)
(* capacity, through every growth, every memmove of pop_front and of the     *)
(* iterator, every copy, as long as no resize cuts it short and its iterator *)
(* stays within it.  Said of every call but three, whose answers are not the *)
(* header's: find_if answering the word past the end, front of an empty      *)
(* vector, and at but for the NULL beyond the last element.                  *)
THEOREM VectorIsSequence == Spec => VectorImplementsSequence
  <1>1. VectorKindInv /\ [Next]_allVars => VectorRunFollows
    BY VectorKindStep
  <1> QED
    BY <1>1, VectorKindHolds, PTL DEF VectorImplementsSequence, VectorRunFollows, AnsweredAsSequence, Spec

-----------------------------------------------------------------------------
(* The priority queue.  Swimming and sinking only exchange items, so that     *)
(* each is there as often as before.                                         *)
Slots == Seq(Priorities \cup {Garbage})

(* Where x is among the first n, and how often. *)
Places(s, n, x) == {i \in 1..n : s[i] = x}
Count(s, n, x) == Cardinality(Places(s, n, x))

HeapInv ==
    /\ obj \in [slots : Slots, size : Nat]
    /\ obj.size <= Len(obj.slots) /\ Len(obj.slots) # 0
    /\ \A i \in 1..obj.size : obj.slots[i] \in Priorities
    /\ life \in HeapM!Lives

LEMMA AddIf ==
    ASSUME NEW R, IsFiniteSet(R), NEW i, i \notin R, NEW p, NEW q,
           NEW T, T = IF p = q THEN R \cup {i} ELSE R
    PROVE  IsFiniteSet(T) /\ Cardinality(T) = Cardinality(R) + (IF p = q THEN 1 ELSE 0)
  <1>1. Cardinality(R) \in Nat
    BY FS_CardinalityType
  <1>2. IsFiniteSet(R \cup {i}) /\ Cardinality(R \cup {i}) = Cardinality(R) + 1
    BY FS_AddElement
  <1> QED
    BY <1>1, <1>2

LEMMA PlacesFinite ==
    ASSUME NEW s, NEW n \in Nat, NEW x
    PROVE  IsFiniteSet(Places(s, n, x)) /\ Count(s, n, x) \in Nat
  <1>1. IsFiniteSet(1..n)
    BY FS_Interval
  <1>2. Places(s, n, x) \in SUBSET (1..n)
    BY DEF Places
  <1>3. IsFiniteSet(Places(s, n, x))
    BY <1>1, <1>2, FS_Subset
  <1> QED
    BY <1>3, FS_CardinalityType DEF Count

(* The count with and without the last. *)
LEMMA CountLast ==
    ASSUME NEW s, NEW n \in Nat \ {0}, NEW x
    PROVE  Count(s, n, x) = Count(s, n - 1, x) + (IF s[n] = x THEN 1 ELSE 0)
  <1>1. PICK m \in Nat : m = n - 1 /\ m + 1 = n
    OBVIOUS
  <1> DEFINE R == Places(s, m, x)
             T == Places(s, n, x)
  <1>2. IsFiniteSet(R)
    BY PlacesFinite
  <1>3. n \notin R /\ T = IF s[n] = x THEN R \cup {n} ELSE R
    BY <1>1 DEF Places
  <1> HIDE DEF R, T
  <1>4. Cardinality(T) = Cardinality(R) + (IF s[n] = x THEN 1 ELSE 0)
    BY <1>2, <1>3, AddIf
  <1> QED
    BY <1>1, <1>4 DEF R, T, Count

LEMMA CountSame ==
    ASSUME NEW s, NEW t, NEW n \in Nat, NEW x, \A i \in 1..n : s[i] = t[i]
    PROVE  Count(s, n, x) = Count(t, n, x)
  <1>1. Places(s, n, x) = Places(t, n, x)
    BY DEF Places
  <1> QED
    BY <1>1 DEF Count

(* The exchange of two items. *)
Exchanged(s, i, j, t) ==
    /\ Len(t) = Len(s) /\ t[i] = s[j] /\ t[j] = s[i]
    /\ \A k \in 1..Len(s) : k # i /\ k # j => t[k] = s[k]

LEMMA ExchangeIs ==
    ASSUME NEW S, NEW s \in Seq(S), NEW i \in 1..Len(s), NEW j \in 1..Len(s),
           NEW t, t = HeapM!Exchange(s, i, j)
    PROVE  t \in Seq(S) /\ Exchanged(s, i, j, t)
  <1>1. s[i] \in S /\ s[j] \in S
    BY ElementOfSeq
  <1> DEFINE u == [s EXCEPT ![i] = s[j]]
  <1>2. u \in Seq(S) /\ Len(u) = Len(s) /\ \A k \in 1..Len(s) : u[k] = IF k = i THEN s[j] ELSE s[k]
    BY <1>1
  <1>3. t = [u EXCEPT ![j] = s[i]]
    BY DEF HeapM!Exchange
  <1> HIDE DEF u
  <1>4. t \in Seq(S) /\ Len(t) = Len(s) /\ \A k \in 1..Len(s) : t[k] = IF k = j THEN s[i] ELSE u[k]
    BY <1>1, <1>2, <1>3
  <1> QED
    BY <1>2, <1>4 DEF Exchanged

LEMMA ExchangeCounts ==
    ASSUME NEW S, NEW s \in Seq(S), NEW n \in Nat, n <= Len(s), NEW i \in 1..n, NEW j \in 1..n, NEW x,
           NEW t, t = HeapM!Exchange(s, i, j)
    PROVE  Count(t, n, x) = Count(s, n, x)
  <1>1. i \in 1..Len(s) /\ j \in 1..Len(s) /\ \A k \in 1..n : k \in 1..Len(s)
    OBVIOUS
  <1>2. t[i] = s[j] /\ t[j] = s[i] /\ \A k \in 1..n : k # i /\ k # j => t[k] = s[k]
    <2>1. Exchanged(s, i, j, t)
      BY <1>1, ExchangeIs
    <2> QED
      BY <1>1, <2>1 DEF Exchanged
  <1>3. CASE i = j
    <2>1. \A k \in 1..n : s[k] = t[k]
      BY <1>2, <1>3
    <2> QED
      BY <2>1, CountSame
  <1>4. CASE i # j
    <2> DEFINE R == {k \in 1..n : k # i /\ k # j /\ s[k] = x}
               s1 == IF s[i] = x THEN R \cup {i} ELSE R
               t1 == IF s[j] = x THEN R \cup {i} ELSE R
    <2>1. IsFiniteSet(R) /\ i \notin R /\ j \notin R
      <3>1. R \in SUBSET Places(s, n, x) /\ i \notin R /\ j \notin R
        BY DEF Places
      <3> HIDE DEF R
      <3> QED
        BY <3>1, PlacesFinite, FS_Subset
    <2>2. /\ Places(s, n, x) = IF s[j] = x THEN s1 \cup {j} ELSE s1
          /\ Places(t, n, x) = IF s[i] = x THEN t1 \cup {j} ELSE t1
      <3>1. Places(s, n, x) = IF s[j] = x THEN s1 \cup {j} ELSE s1
        BY DEF Places
      <3>2. Places(t, n, x) = IF s[i] = x THEN t1 \cup {j} ELSE t1
        BY <1>2, <1>4 DEF Places
      <3> QED
        BY <3>1, <3>2
    <2>3. j \notin s1 /\ j \notin t1
      BY <1>4, <2>1
    <2>4. Cardinality(R) \in Nat
      BY <2>1, FS_CardinalityType
    <2>5. /\ IsFiniteSet(s1) /\ Cardinality(s1) = Cardinality(R) + (IF s[i] = x THEN 1 ELSE 0)
          /\ IsFiniteSet(t1) /\ Cardinality(t1) = Cardinality(R) + (IF s[j] = x THEN 1 ELSE 0)
      <3>1. s1 = (IF s[i] = x THEN R \cup {i} ELSE R) /\ t1 = (IF s[j] = x THEN R \cup {i} ELSE R)
        OBVIOUS
      <3> HIDE DEF R, s1, t1
      <3>2. IsFiniteSet(s1) /\ Cardinality(s1) = Cardinality(R) + (IF s[i] = x THEN 1 ELSE 0)
        BY <2>1, <3>1, AddIf
      <3>3. IsFiniteSet(t1) /\ Cardinality(t1) = Cardinality(R) + (IF s[j] = x THEN 1 ELSE 0)
        BY <2>1, <3>1, AddIf
      <3> QED
        BY <3>2, <3>3
    <2> HIDE DEF R, s1, t1
    <2>6. IsFiniteSet(Places(s, n, x)) /\ Cardinality(Places(s, n, x)) = Cardinality(s1) + (IF s[j] = x THEN 1 ELSE 0)
      <3> DEFINE T == Places(s, n, x)
      <3>1. T = (IF s[j] = x THEN s1 \cup {j} ELSE s1) /\ IsFiniteSet(s1) /\ j \notin s1
        BY <2>2, <2>3, <2>5
      <3> HIDE DEF T
      <3>2. IsFiniteSet(T) /\ Cardinality(T) = Cardinality(s1) + (IF s[j] = x THEN 1 ELSE 0)
        BY <3>1, AddIf
      <3> QED
        BY <3>2 DEF T
    <2>7. IsFiniteSet(Places(t, n, x)) /\ Cardinality(Places(t, n, x)) = Cardinality(t1) + (IF s[i] = x THEN 1 ELSE 0)
      <3> DEFINE T == Places(t, n, x)
      <3>1. T = (IF s[i] = x THEN t1 \cup {j} ELSE t1) /\ IsFiniteSet(t1) /\ j \notin t1
        BY <2>2, <2>3, <2>5
      <3> HIDE DEF T
      <3>2. IsFiniteSet(T) /\ Cardinality(T) = Cardinality(t1) + (IF s[i] = x THEN 1 ELSE 0)
        BY <3>1, AddIf
      <3> QED
        BY <3>2 DEF T
    <2> QED
      BY <2>4, <2>5, <2>6, <2>7 DEF Count
  <1> QED
    BY <1>3, <1>4

(* The same items, in another order. *)
Rearranged(s, t, n) ==
    /\ t \in Slots /\ Len(t) = Len(s)
    /\ \A i \in 1..n : t[i] \in Priorities
    /\ \A x \in Priorities : Count(t, n, x) = Count(s, n, x)

LEMMA ExchangeRearranges ==
    ASSUME NEW s \in Slots, NEW n \in Nat, n <= Len(s), NEW t, Rearranged(s, t, n),
           NEW i \in 1..n, NEW j \in 1..n
    PROVE  Rearranged(s, HeapM!Exchange(t, i, j), n)
  <1> DEFINE u == HeapM!Exchange(t, i, j)
  <1>1. t \in Slots /\ Len(t) = Len(s) /\ n <= Len(t) /\ i \in 1..Len(t) /\ j \in 1..Len(t)
    BY DEF Rearranged
  <1>2. /\ u \in Slots /\ Len(u) = Len(t)
        /\ u[i] = t[j] /\ u[j] = t[i]
        /\ \A k \in 1..Len(t) : k # i /\ k # j => u[k] = t[k]
    <2>1. t \in Seq(Priorities \cup {Garbage})
      BY <1>1 DEF Slots
    <2>2. u \in Seq(Priorities \cup {Garbage}) /\ Exchanged(t, i, j, u)
      <3>1. u = HeapM!Exchange(t, i, j)
        OBVIOUS
      <3> HIDE DEF u
      <3> QED
        BY <1>1, <2>1, <3>1, ExchangeIs
    <2> QED
      BY <2>2 DEF Slots, Exchanged
  <1>3. ASSUME NEW x PROVE Count(u, n, x) = Count(t, n, x)
    BY <1>1, ExchangeCounts DEF Slots
  <1> HIDE DEF u
  <1>4. \A k \in 1..n : u[k] \in Priorities
    BY <1>1, <1>2 DEF Rearranged
  <1>5. Rearranged(s, u, n)
    BY <1>1, <1>2, <1>3, <1>4 DEF Rearranged
  <1> QED
    BY <1>5 DEF u

LEMMA RearrangedSelf ==
    ASSUME NEW s \in Slots, NEW n \in Nat, n <= Len(s), \A i \in 1..n : s[i] \in Priorities
    PROVE  Rearranged(s, s, n)
  BY DEF Rearranged

(* The rounds of swim and sink go through rearrangements. *)
Rounds(s, n) == {u \in [slots : Slots, index : Nat \ {0}] : Rearranged(s, u.slots, n)}

SwimRound(u) ==
    IF u.index > 1 /\ u.slots[u.index] > u.slots[u.index \div 2]
    THEN [slots |-> HeapM!Exchange(u.slots, u.index, u.index \div 2), index |-> u.index \div 2]
    ELSE u

LEMMA SwimRearranges ==
    ASSUME NEW s \in Slots, NEW n \in Nat \ {0}, n <= Len(s), \A i \in 1..n : s[i] \in Priorities
    PROVE  Rearranged(s, HeapM!Swim(s, n), n)
  <1> DEFINE first == [slots |-> s, index |-> n]
             T == {u \in Rounds(s, n) : u.index <= n}
             step == [q \in (1..n) \X T |-> SwimRound(q[2])]
             Is(g) == g = [m \in 0..n |-> IF m = 0 THEN first ELSE SwimRound(g[m - 1])]
             f == CHOOSE g : Is(g)
  <1>1. first \in T
    BY RearrangedSelf DEF Rounds
  <1>2. ASSUME NEW u \in T PROVE SwimRound(u) \in T
    <2>1. PICK t \in Slots, i \in 1..n : u = [slots |-> t, index |-> i] /\ Rearranged(s, t, n)
      BY DEF Rounds
    <2>2. CASE i > 1 /\ t[i] > t[i \div 2]
      <3>1. PICK j \in 1..n : j = i \div 2
        BY <2>2
      <3>2. Rearranged(s, HeapM!Exchange(t, i, j), n)
        BY <2>1, <3>1, ExchangeRearranges
      <3>3. HeapM!Exchange(t, i, j) \in Slots
        BY <3>2 DEF Rearranged
      <3>4. SwimRound(u) = [slots |-> HeapM!Exchange(t, i, j), index |-> j]
        BY <2>1, <2>2, <3>1 DEF SwimRound
      <3> QED
        BY <3>1, <3>2, <3>3, <3>4 DEF Rounds
    <2>3. CASE ~(i > 1 /\ t[i] > t[i \div 2])
      BY <2>1, <2>3 DEF SwimRound
    <2> QED
      BY <2>2, <2>3
  <1> HIDE DEF first, T
  <1>3. step \in [(1..n) \X T -> T]
    BY <1>2
  <1>4. PICK h : Recursive(h, n, T, first, step)
    <2> HIDE DEF step
    <2> QED
      BY <1>1, <1>3, RecursionUpTo
  <1>5. Is(h)
    <2>1. h \in [0..n -> T] /\ h[0] = first /\ \A m \in 1..n : h[m] = step[<<m, h[m - 1]>>]
      <3> HIDE DEF step
      <3> QED
        BY <1>4 DEF Recursive
    <2>2. ASSUME NEW m \in 1..n PROVE h[m] = SwimRound(h[m - 1])
      <3>1. m - 1 \in 0..n /\ h[m - 1] \in T
        BY <2>1
      <3> QED
        BY <2>1, <3>1
    <2>3. \A m \in 0..n : h[m] = IF m = 0 THEN first ELSE SwimRound(h[m - 1])
      <3> TAKE m \in 0..n
      <3>1. m = 0 \/ m \in 1..n
        OBVIOUS
      <3> QED
        BY <2>1, <2>2, <3>1
    <2> QED
      BY <2>1, <2>3
  <1>6. Is(f)
    <2> HIDE DEF Is
    <2> QED
      BY <1>5
  <1>7. HeapM!Swim(s, n) = f[n].slots
    BY DEF HeapM!Swim, SwimRound, first
  <1> HIDE DEF f
  <1>8. \A m \in 0..n : f[m] \in T
    <2> DEFINE G == {m \in 0..n : f[m] \in T}
    <2>1. 0 \in G
      BY <1>1, <1>6
    <2>2. ASSUME NEW m \in 1..n, m - 1 \in G PROVE m \in G
      <3>1. m \in 0..n /\ m # 0
        OBVIOUS
      <3>2. f[m] = SwimRound(f[m - 1])
        BY <1>6, <3>1
      <3> QED
        BY <1>2, <2>2, <3>1, <3>2
    <2> HIDE DEF G
    <2>3. 0..n \subseteq G
      BY <2>1, <2>2, UpTo
    <2> QED
      BY <2>3 DEF G
  <1>9. f[n] \in T
    BY <1>8
  <1> QED
    BY <1>7, <1>9 DEF T, Rounds

SinkRound(u, n) ==
    LET t == u.slots
        i == u.index
        child == IF t[i] < t[2 * i] THEN 2 * i ELSE 2 * i + 1
    IN  IF 2 * i > n THEN u
        ELSE [slots |-> IF child <= n THEN HeapM!Exchange(t, i, child) ELSE t,
              index |-> 2 * i]

LEMMA SinkRearranges ==
    ASSUME NEW s \in Slots, NEW n \in Nat, n <= Len(s), \A i \in 1..n : s[i] \in Priorities
    PROVE  Rearranged(s, HeapM!Sink(s, n), n)
  <1> DEFINE first == [slots |-> s, index |-> 1]
             T == Rounds(s, n)
             step == [q \in (1..n) \X T |-> SinkRound(q[2], n)]
             Is(g) == g = [m \in 0..n |-> IF m = 0 THEN first ELSE SinkRound(g[m - 1], n)]
             f == CHOOSE g : Is(g)
  <1>1. first \in T
    BY RearrangedSelf DEF Rounds
  <1>2. ASSUME NEW u \in T PROVE SinkRound(u, n) \in T
    <2>1. PICK t \in Slots, i \in Nat \ {0} : u = [slots |-> t, index |-> i] /\ Rearranged(s, t, n)
      BY DEF Rounds
    <2> DEFINE child == IF t[i] < t[2 * i] THEN 2 * i ELSE 2 * i + 1
               next == IF child <= n THEN HeapM!Exchange(t, i, child) ELSE t
    <2>2. CASE 2 * i > n
      BY <2>1, <2>2 DEF SinkRound
    <2>3. CASE ~(2 * i > n)
      <3>1. SinkRound(u, n) = [slots |-> next, index |-> 2 * i]
        BY <2>1, <2>3 DEF SinkRound
      <3>2. child \in Nat \ {0} /\ i \in 1..n /\ 2 * i \in Nat \ {0}
        BY <2>3
      <3> HIDE DEF child
      <3>3. Rearranged(s, next, n)
        <4>1. CASE child <= n
          <5>1. child \in 1..n
            BY <3>2, <4>1
          <5> QED
            BY <2>1, <3>2, <4>1, <5>1, ExchangeRearranges
        <4>2. CASE ~(child <= n)
          BY <2>1, <4>2
        <4> QED
          BY <4>1, <4>2
      <3> HIDE DEF next
      <3>4. next \in Slots
        BY <3>3 DEF Rearranged
      <3> QED
        BY <3>1, <3>2, <3>3, <3>4 DEF Rounds
    <2> QED
      BY <2>2, <2>3
  <1> HIDE DEF first, T
  <1>3. step \in [(1..n) \X T -> T]
    BY <1>2
  <1>4. PICK h : Recursive(h, n, T, first, step)
    <2> HIDE DEF step
    <2> QED
      BY <1>1, <1>3, RecursionUpTo
  <1>5. Is(h)
    <2>1. h \in [0..n -> T] /\ h[0] = first /\ \A m \in 1..n : h[m] = step[<<m, h[m - 1]>>]
      <3> HIDE DEF step
      <3> QED
        BY <1>4 DEF Recursive
    <2>2. ASSUME NEW m \in 1..n PROVE h[m] = SinkRound(h[m - 1], n)
      <3>1. m - 1 \in 0..n /\ h[m - 1] \in T
        BY <2>1
      <3> QED
        BY <2>1, <3>1
    <2>3. \A m \in 0..n : h[m] = IF m = 0 THEN first ELSE SinkRound(h[m - 1], n)
      <3> TAKE m \in 0..n
      <3>1. m = 0 \/ m \in 1..n
        OBVIOUS
      <3> QED
        BY <2>1, <2>2, <3>1
    <2> QED
      BY <2>1, <2>3
  <1>6. Is(f)
    <2> HIDE DEF Is
    <2> QED
      BY <1>5
  <1>7. HeapM!Sink(s, n) = f[n].slots
    BY DEF HeapM!Sink, SinkRound, first
  <1> HIDE DEF f
  <1>8. \A m \in 0..n : f[m] \in T
    <2> DEFINE G == {m \in 0..n : f[m] \in T}
    <2>1. 0 \in G
      BY <1>1, <1>6
    <2>2. ASSUME NEW m \in 1..n, m - 1 \in G PROVE m \in G
      <3>1. m \in 0..n /\ m # 0
        OBVIOUS
      <3>2. f[m] = SinkRound(f[m - 1], n)
        BY <1>6, <3>1
      <3> QED
        BY <1>2, <2>2, <3>1, <3>2
    <2> HIDE DEF G
    <2>3. 0..n \subseteq G
      BY <2>1, <2>2, UpTo
    <2> QED
      BY <2>3 DEF G
  <1>9. f[n] \in T
    BY <1>8
  <1> QED
    BY <1>7, <1>9 DEF T, Rounds

HeldIn(h) == [x \in Priorities |-> Count(h.slots, h.size, x)]

HeapFollows ==
    /\ Held = HeldIn(obj) /\ Held' = HeldIn(obj')
    /\ HeldCount = obj.size /\ HeldCount' = obj'.size

HeapStepFollows == HeapFollows /\ life' # "undefined" => [Pool!Next]_(Pool!vars)

LEMMA SameInHeap == Pool!CTrue = HeapM!CTrue /\ Pool!CFalse = HeapM!CFalse
  BY DEF Pool!CTrue, HeapM!CTrue, Pool!CFalse, HeapM!CFalse

LEMMA HeapInitInv == HeapM!Init => HeapInv
  <1> SUFFICES ASSUME HeapM!Init PROVE HeapInv
    OBVIOUS
  <1> DEFINE s == [i \in 1..HeapInitial |-> Garbage]
  <1>1. s \in [1..HeapInitial -> Priorities \cup {Garbage}] /\ HeapInitial \in Nat \ {0}
    BY ContainersAssumption
  <1>2. obj = [slots |-> s, size |-> 0] /\ life = "alive"
    BY DEF HeapM!Init, HeapM!ClientInit
  <1> HIDE DEF s
  <1>3. s \in Slots /\ Len(s) = HeapInitial
    BY <1>1, MadeSeq DEF Slots
  <1> QED
    BY <1>1, <1>2, <1>3 DEF HeapInv, HeapM!Lives

LEMMA HeapQuiet ==
    ASSUME HeapInv, UNCHANGED obj, life' \in HeapM!Lives
    PROVE  HeapInv' /\ (HeapFollows => UNCHANGED <<Held, HeldCount>>)
  BY DEF HeapInv, HeapFollows

(* The array a push finds or makes: room for one item more. *)
LEMMA HeapRoomIs ==
    ASSUME HeapInv, NEW room,
           room = IF Len(obj.slots) <= obj.size THEN HeapM!Resized(obj.slots, 2 * Len(obj.slots)) ELSE obj.slots
    PROVE  /\ room \in Slots /\ obj.size < Len(room)
           /\ \A i \in 1..obj.size : room[i] = obj.slots[i] /\ room[i] \in Priorities
  <1>1. PICK L \in Nat \ {0}, N \in Nat, s \in Slots : s = obj.slots /\ L = Len(s) /\ N = obj.size /\ N <= L
    BY DEF HeapInv, Slots
  <1>2. \A i \in 1..N : i \in 1..L /\ s[i] \in Priorities
    BY <1>1 DEF HeapInv
  <1>3. CASE L <= N
    <2> DEFINE n == 2 * L
    <2>1. n \in Nat /\ L < n /\ \A i \in 1..L : i \in 1..n
      OBVIOUS
    <2>2. room = [i \in 1..n |-> IF i <= L THEN s[i] ELSE Garbage]
      BY <1>1, <1>3 DEF HeapM!Resized, HeapM!Realloc
    <2> HIDE DEF n
    <2>3. \A i \in 1..L : s[i] \in Priorities \cup {Garbage}
      BY <1>1, ElementOfSeq DEF Slots
    <2>4. room \in [1..n -> Priorities \cup {Garbage}]
      <3>1. \A i \in 1..n : (IF i <= L THEN s[i] ELSE Garbage) \in Priorities \cup {Garbage}
        BY <1>1, <2>3
      <3> QED
        BY <2>2, <3>1
    <2>5. room \in Slots /\ Len(room) = n
      BY <2>1, <2>4, MadeSeq DEF Slots
    <2>6. \A i \in 1..N : room[i] = s[i]
      BY <1>1, <1>2, <2>1, <2>2
    <2> QED
      BY <1>1, <1>2, <2>1, <2>5, <2>6
  <1>4. CASE ~(L <= N)
    BY <1>1, <1>2, <1>4
  <1> QED
    BY <1>3, <1>4

LEMMA HeapPushStep ==
    ASSUME HeapInv, NEW x \in Priorities, HeapM!Push(x)
    PROVE  HeapInv' /\ HeapStepFollows
  <1> DEFINE full == Len(obj.slots) <= obj.size
             room == IF full THEN HeapM!Resized(obj.slots, 2 * Len(obj.slots)) ELSE obj.slots
             put == [room EXCEPT ![obj.size + 1] = x]
  <1>1. PICK N \in Nat, n \in Nat \ {0} : N = obj.size /\ n = N + 1 /\ n - 1 = N
    BY DEF HeapInv
  <1>2. \/ HeapM!Did("push", x, HeapM!CFalse) /\ UNCHANGED obj
        \/ /\ HeapM!Did("push", x, HeapM!CTrue)
           /\ obj' = [slots |-> HeapM!Swim(put, obj.size + 1), size |-> obj.size + 1]
        \/ HeapM!Breaks("push", x) /\ UNCHANGED obj
    BY DEF HeapM!Push, HeapM!HeapCapacity
  <1>3. /\ room \in Slots /\ N < Len(room)
        /\ \A i \in 1..N : room[i] = obj.slots[i] /\ room[i] \in Priorities
    <2> DEFINE r == room
    <2>1. r = IF Len(obj.slots) <= obj.size THEN HeapM!Resized(obj.slots, 2 * Len(obj.slots)) ELSE obj.slots
      OBVIOUS
    <2> HIDE DEF r
    <2>2. /\ r \in Slots /\ obj.size < Len(r)
          /\ \A i \in 1..obj.size : r[i] = obj.slots[i] /\ r[i] \in Priorities
      BY <2>1, HeapRoomIs
    <2> QED
      BY <1>1, <2>2 DEF r
  <1> HIDE DEF room
  <1>4. CASE HeapM!Did("push", x, HeapM!CFalse) /\ UNCHANGED obj
    <2>1. life' = life /\ last' = [op |-> "push", arg |-> x, answer |-> HeapM!CFalse]
      BY <1>4 DEF HeapM!Did, HeapM!Makes
    <2>2. HeapInv' /\ (HeapFollows => UNCHANGED <<Held, HeldCount>>)
      BY <1>4, <2>1, HeapQuiet DEF HeapInv
    <2>3. HeapFollows => Pool!Push(x)
      BY <2>1, <2>2, SameInHeap DEF Pool!Push, Pool!Made
    <2> QED
      BY <2>2, <2>3 DEF HeapStepFollows, Pool!Next
  <1>5. CASE HeapM!Breaks("push", x) /\ UNCHANGED obj
    <2>1. life' = "undefined"
      BY <1>5 DEF HeapM!Breaks
    <2> QED
      BY <1>5, <2>1, HeapQuiet DEF HeapM!Lives, HeapStepFollows
  <1>6. CASE /\ HeapM!Did("push", x, HeapM!CTrue)
             /\ obj' = [slots |-> HeapM!Swim(put, obj.size + 1), size |-> obj.size + 1]
    <2>1. life' = life /\ last' = [op |-> "push", arg |-> x, answer |-> HeapM!CTrue]
      BY <1>6 DEF HeapM!Did, HeapM!Makes
    <2>2. n \in 1..Len(room) /\ n <= Len(room) /\ Len(room) \in Nat
      BY <1>1, <1>3 DEF Slots
    <2>3. put \in Slots /\ Len(put) = Len(room) /\ put[n] = x /\ \A i \in 1..N : put[i] = room[i]
      BY <1>1, <1>3, <2>2 DEF Slots
    <2>4. \A i \in 1..n : put[i] \in Priorities
      BY <1>1, <1>3, <2>3
    <2>5. obj' = [slots |-> HeapM!Swim(put, n), size |-> n]
      BY <1>1, <1>6
    <2> HIDE DEF put
    <2> DEFINE t == HeapM!Swim(put, n)
    <2>6. Rearranged(put, t, n)
      BY <2>2, <2>3, <2>4, SwimRearranges
    <2>7. t \in Slots /\ Len(t) = Len(room) /\ \A i \in 1..n : t[i] \in Priorities
      BY <2>3, <2>6 DEF Rearranged
    <2> HIDE DEF t
    <2>8. ASSUME NEW y \in Priorities
          PROVE  Count(t, n, y) = Count(obj.slots, N, y) + (IF x = y THEN 1 ELSE 0)
      <3>1. Count(t, n, y) = Count(put, n, y)
        BY <2>6 DEF Rearranged
      <3>2. Count(put, n, y) = Count(put, n - 1, y) + (IF put[n] = y THEN 1 ELSE 0)
        BY CountLast
      <3>3. Count(put, N, y) = Count(obj.slots, N, y)
        <4>1. \A i \in 1..N : put[i] = obj.slots[i]
          BY <1>3, <2>3
        <4> QED
          BY <4>1, CountSame
      <3> QED
        BY <1>1, <2>3, <3>1, <3>2, <3>3
    <2>9. HeapInv'
      <3>1. obj'.slots = t /\ obj'.size = n /\ obj' = [slots |-> t, size |-> n]
        BY <2>5 DEF t
      <3>2. n <= Len(t) /\ Len(t) # 0
        BY <2>2, <2>7
      <3> QED
        BY <1>1, <2>1, <2>7, <3>1, <3>2 DEF HeapInv
    <2>10. ASSUME HeapFollows PROVE Pool!Push(x)
      <3>1. HeldIn(obj') = [HeldIn(obj) EXCEPT ![x] = @ + 1]
        <4>1. obj'.slots = t /\ obj'.size = n
          BY <2>5 DEF t
        <4>2. \A y \in Priorities : Count(obj.slots, N, y) \in Nat
          BY PlacesFinite
        <4>3. HeldIn(obj) = [y \in Priorities |-> Count(obj.slots, N, y)]
          BY <1>1 DEF HeldIn
        <4>4. HeldIn(obj') = [y \in Priorities |-> Count(t, n, y)]
          BY <4>1 DEF HeldIn
        <4>5. HeldIn(obj') = [y \in Priorities |-> Count(obj.slots, N, y) + (IF x = y THEN 1 ELSE 0)]
          BY <2>8, <4>4
        <4> QED
          BY <4>2, <4>3, <4>5
      <3>2. HeldCount' = HeldCount + 1
        BY <1>1, <2>5, <2>10 DEF HeapFollows
      <3>3. Held' = [Held EXCEPT ![x] = @ + 1]
        BY <2>10, <3>1 DEF HeapFollows
      <3> QED
        BY <2>1, <3>2, <3>3, SameInHeap DEF Pool!Push, Pool!Made
    <2> QED
      BY <2>9, <2>10 DEF HeapStepFollows, Pool!Next
  <1> QED
    BY <1>2, <1>4, <1>5, <1>6

(* The item at the top goes, the last one takes its place. *)
LEMMA TopGone ==
    ASSUME NEW s \in Slots, NEW n \in Nat \ {0}, n <= Len(s), NEW y
    PROVE  Count(s, n, y) = Count([s EXCEPT ![1] = s[n]], n - 1, y) + (IF s[1] = y THEN 1 ELSE 0)
  <1> DEFINE t == HeapM!Exchange(s, 1, n)
             moved == [s EXCEPT ![1] = s[n]]
  <1>1. 1 \in 1..n /\ n \in 1..n /\ 1 \in 1..Len(s) /\ n \in 1..Len(s) /\ n - 1 \in Nat
    BY DEF Slots
  <1>2. Count(t, n, y) = Count(s, n, y)
    BY <1>1, ExchangeCounts DEF Slots
  <1>3. Count(t, n, y) = Count(t, n - 1, y) + (IF t[n] = y THEN 1 ELSE 0)
    <2> HIDE DEF t
    <2> QED
      BY CountLast
  <1>4. t[1] = s[n] /\ t[n] = s[1] /\ \A i \in 1..Len(s) : i # 1 /\ i # n => t[i] = s[i]
    <2>1. s \in Seq(Priorities \cup {Garbage})
      BY DEF Slots
    <2>2. Exchanged(s, 1, n, t)
      BY <1>1, <2>1, ExchangeIs
    <2> HIDE DEF t
    <2> QED
      BY <2>2 DEF Exchanged
  <1>5. \A i \in 1..(n - 1) : i \in 1..Len(s) /\ i # n
    BY <1>1 DEF Slots
  <1>6. \A i \in 1..Len(s) : moved[i] = IF i = 1 THEN s[n] ELSE s[i]
    BY DEF Slots
  <1> HIDE DEF t, moved
  <1>7. \A i \in 1..(n - 1) : t[i] = moved[i]
    BY <1>4, <1>5, <1>6
  <1>8. Count(t, n - 1, y) = Count(moved, n - 1, y)
    BY <1>1, <1>7, CountSame
  <1> QED
    BY <1>2, <1>3, <1>4, <1>8 DEF moved

(* An item is counted where it is. *)
LEMMA FirstCounts ==
    ASSUME NEW s, NEW n \in Nat \ {0}
    PROVE  Count(s, n, s[1]) > 0
  <1> DEFINE R == Places(s, n, s[1])
  <1>1. 1 \in R
    BY DEF Places
  <1>2. IsFiniteSet(R) /\ Cardinality(R) \in Nat
    BY PlacesFinite, FS_CardinalityType
  <1> HIDE DEF R
  <1>3. Cardinality(R) # 0
    BY <1>1, <1>2, FS_EmptySet
  <1> QED
    BY <1>2, <1>3 DEF R, Count

LEMMA HeapPopStep ==
    ASSUME HeapInv, HeapM!Pop
    PROVE  HeapInv' /\ HeapStepFollows
  <1>1. CASE obj.size < 1
    <2>1. UNCHANGED <<obj, life>> /\ last' = [op |-> "pop", arg |-> Null, answer |-> Null] /\ obj.size = 0
      BY <1>1 DEF HeapM!Pop, HeapM!Did, HeapM!Makes, HeapInv
    <2>2. HeapInv' /\ (HeapFollows => UNCHANGED <<Held, HeldCount>>)
      BY <2>1, HeapQuiet DEF HeapInv
    <2>3. HeapFollows => Pool!Pop
      BY <2>1, <2>2 DEF HeapFollows, Pool!Pop, Pool!Made
    <2> QED
      BY <2>2, <2>3 DEF HeapStepFollows, Pool!Next
  <1>2. CASE ~(obj.size < 1)
    <2>1. PICK n \in Nat \ {0}, m \in Nat, s \in Slots : n = obj.size /\ m = n - 1 /\ s = obj.slots /\ n <= Len(s)
      BY <1>2 DEF HeapInv
    <2> DEFINE moved == [s EXCEPT ![1] = s[n]]
               t == HeapM!Sink(moved, m)
    <2>2. /\ life' = life /\ last' = [op |-> "pop", arg |-> Null, answer |-> s[1]]
          /\ obj' = [slots |-> t, size |-> m]
      BY <1>2, <2>1 DEF HeapM!Pop, HeapM!Did, HeapM!Makes
    <2>3. \A i \in 1..n : s[i] \in Priorities
      BY <2>1 DEF HeapInv
    <2>4. s[1] \in Priorities /\ s[n] \in Priorities /\ 1 \in 1..Len(s) /\ m <= Len(s) /\ Len(s) \in Nat
      BY <2>1, <2>3 DEF Slots
    <2>5. moved \in Slots /\ Len(moved) = Len(s) /\ \A i \in 1..Len(s) : moved[i] = IF i = 1 THEN s[n] ELSE s[i]
      BY <2>4 DEF Slots
    <2>6. \A i \in 1..m : moved[i] \in Priorities
      BY <2>1, <2>3, <2>4, <2>5
    <2>7. \A y : Count(s, n, y) = Count(moved, m, y) + (IF s[1] = y THEN 1 ELSE 0)
      <3> TAKE y
      <3>1. Count(s, n, y) = Count([s EXCEPT ![1] = s[n]], n - 1, y) + (IF s[1] = y THEN 1 ELSE 0)
        BY <2>1, TopGone
      <3> QED
        BY <2>1, <3>1
    <2> HIDE DEF moved
    <2>8. Rearranged(moved, t, m)
      <3>1. m <= Len(moved)
        BY <2>4, <2>5
      <3> QED
        BY <2>5, <2>6, <3>1, SinkRearranges
    <2>9. t \in Slots /\ Len(t) = Len(s) /\ \A i \in 1..m : t[i] \in Priorities
      BY <2>5, <2>8 DEF Rearranged
    <2> HIDE DEF t
    <2>10. ASSUME NEW y \in Priorities
           PROVE  Count(t, m, y) = Count(s, n, y) - (IF s[1] = y THEN 1 ELSE 0)
      <3>1. Count(t, m, y) = Count(moved, m, y)
        BY <2>8 DEF Rearranged
      <3>2. Count(moved, m, y) \in Nat
        BY PlacesFinite
      <3>3. Count(s, n, y) = Count(moved, m, y) + (IF s[1] = y THEN 1 ELSE 0)
        BY <2>7
      <3> QED
        BY <3>1, <3>2, <3>3
    <2>11. HeapInv'
      <3>1. obj'.slots = t /\ obj'.size = m /\ obj' = [slots |-> t, size |-> m]
        BY <2>2
      <3>2. m <= Len(t) /\ Len(t) # 0
        BY <2>4, <2>9
      <3> QED
        BY <2>2, <2>9, <3>1, <3>2 DEF HeapInv
    <2>12. ASSUME HeapFollows PROVE Pool!Pop
      <3>1. HeldIn(obj) = [y \in Priorities |-> Count(s, n, y)]
        BY <2>1 DEF HeldIn
      <3>2. HeldIn(obj') = [y \in Priorities |-> Count(t, m, y)]
        BY <2>2 DEF HeldIn
      <3>3. HeldIn(obj') = [y \in Priorities |-> Count(s, n, y) - (IF s[1] = y THEN 1 ELSE 0)]
        BY <2>10, <3>2
      <3>4. \A y \in Priorities : Count(s, n, y) \in Nat
        BY PlacesFinite
      <3>5. HeldIn(obj') = [HeldIn(obj) EXCEPT ![s[1]] = @ - 1]
        BY <2>4, <3>1, <3>3, <3>4
      <3>6. Count(s, n, s[1]) > 0
        BY FirstCounts
      <3>7. Held' = [Held EXCEPT ![s[1]] = @ - 1] /\ Held[s[1]] > 0
        BY <2>4, <2>12, <3>1, <3>5, <3>6 DEF HeapFollows
      <3>8. HeldCount' = HeldCount - 1
        BY <2>1, <2>2, <2>12 DEF HeapFollows
      <3> QED
        BY <2>2, <2>4, <3>7, <3>8 DEF Pool!Pop, Pool!Made
    <2> QED
      BY <2>11, <2>12 DEF HeapStepFollows, Pool!Next
  <1> QED
    BY <1>1, <1>2

LEMMA HeapLookStep ==
    ASSUME HeapInv, HeapM!Look
    PROVE  HeapInv' /\ HeapStepFollows
  <1>1. /\ UNCHANGED <<obj, life>>
        /\ \/ last' = [op |-> "top", arg |-> Null, answer |-> obj.slots[1]]
           \/ last' = [op |-> "size", arg |-> Null, answer |-> obj.size]
    BY DEF HeapM!Look, HeapM!Did, HeapM!Makes
  <1>2. HeapInv' /\ (HeapFollows => UNCHANGED <<Held, HeldCount>>)
    BY <1>1, HeapQuiet DEF HeapInv
  <1>3. ASSUME HeapFollows PROVE [Pool!Next]_(Pool!vars)
    <2>1. CASE last' = [op |-> "size", arg |-> Null, answer |-> obj.size]
      BY <1>2, <1>3, <2>1 DEF HeapFollows, Pool!Next, Pool!Look, Pool!Made
    <2>2. CASE last' = [op |-> "top", arg |-> Null, answer |-> obj.slots[1]] /\ obj.size = 0
      <3>1. HeldCount = 0 /\ last'.op = "top" /\ UNCHANGED <<Held, HeldCount>>
        BY <1>2, <1>3, <2>2 DEF HeapFollows
      <3> QED
        BY <3>1 DEF Pool!Next, Pool!Look, Pool!vars
    <2>3. CASE last' = [op |-> "top", arg |-> Null, answer |-> obj.slots[1]] /\ obj.size # 0
      <3>1. PICK n \in Nat \ {0}, x \in Priorities : n = obj.size /\ x = obj.slots[1]
        BY <2>3 DEF HeapInv
      <3>2. Count(obj.slots, n, x) > 0
        BY <3>1, FirstCounts
      <3>3. HeldIn(obj)[x] > 0
        BY <3>1, <3>2 DEF HeldIn
      <3>4. Held[x] > 0 /\ UNCHANGED <<Held, HeldCount>>
        BY <1>2, <1>3, <3>3 DEF HeapFollows
      <3> QED
        BY <2>3, <3>1, <3>4 DEF Pool!Next, Pool!Look, Pool!Made
    <2> QED
      BY <1>1, <2>1, <2>2, <2>3
  <1> QED
    BY <1>2, <1>3 DEF HeapStepFollows

LEMMA HeapFreeStep ==
    ASSUME HeapInv, HeapM!Free
    PROVE  HeapInv' /\ HeapStepFollows
  <1>1. UNCHANGED obj /\ life' = "freed" /\ last' = [op |-> "free", arg |-> Null, answer |-> Null]
    BY DEF HeapM!Free, HeapM!Frees, HeapM!Makes
  <1>2. HeapInv' /\ (HeapFollows => UNCHANGED <<Held, HeldCount>>)
    BY <1>1, HeapQuiet DEF HeapM!Lives
  <1> QED
    BY <1>1, <1>2 DEF HeapStepFollows, Pool!Next, Pool!Look, Pool!Made

LEMMA HeapClearStep ==
    ASSUME HeapInv, HeapM!Clear
    PROVE  HeapInv' /\ HeapStepFollows
  <1>1. /\ life' = life /\ last' = [op |-> "clear", arg |-> Null, answer |-> Null]
        /\ obj' = [obj EXCEPT !.size = 0]
    BY DEF HeapM!Clear, HeapM!Did, HeapM!Makes
  <1>2. obj' = [slots |-> obj.slots, size |-> 0] /\ obj'.slots = obj.slots /\ obj'.size = 0
    BY <1>1 DEF HeapInv
  <1>3. HeapInv'
    BY <1>1, <1>2 DEF HeapInv, Slots
  <1>4. \A s, y : Count(s, 0, y) = 0
    <2> TAKE s, y
    <2>1. Places(s, 0, y) = {}
      BY DEF Places
    <2> QED
      BY <2>1, FS_EmptySet DEF Count
  <1>5. HeldIn(obj') = Pool!None
    BY <1>2, <1>4 DEF HeldIn, Pool!None
  <1>6. HeapFollows => Pool!Clear
    BY <1>1, <1>2, <1>5 DEF HeapFollows, Pool!Clear, Pool!Made
  <1> QED
    BY <1>3, <1>6 DEF HeapStepFollows, Pool!Next

LEMMA HeapStep ==
    ASSUME HeapInv, HeapM!Next
    PROVE  HeapInv' /\ HeapStepFollows
  <1>1. CASE \E x \in Priorities : HeapM!Push(x)
    BY <1>1, HeapPushStep
  <1>2. CASE HeapM!Pop
    BY <1>2, HeapPopStep
  <1>3. CASE HeapM!Look
    BY <1>3, HeapLookStep
  <1>4. CASE HeapM!Free
    BY <1>4, HeapFreeStep
  <1>5. CASE HeapM!Clear
    BY <1>5, HeapClearStep
  <1> QED
    BY <1>1, <1>2, <1>3, <1>4, <1>5 DEF HeapM!Next

HeapKindInv == kind = "heap" => HeapInv

HeapRunFollows == kind = "heap" /\ Returned => [Pool!Next]_(Pool!vars)

(* What the bag of the run reads is what HeldIn counts. *)
LEMMA HeapItems == kind = "heap" /\ kind' = "heap" => HeapFollows
  <1> SUFFICES ASSUME kind = "heap", kind' = "heap" PROVE HeapFollows
    OBVIOUS
  <1>1. Held = HeldIn(obj) /\ HeldCount = obj.size
    BY DEF Held, HeldCount, HeldIn, Count, Places, HeapM!Contents, HeapM!Cardinality, Cardinality
  <1>2. Held' = HeldIn(obj') /\ HeldCount' = obj'.size
    BY DEF Held, HeldCount, HeldIn, Count, Places, HeapM!Contents, HeapM!Cardinality, Cardinality
  <1> QED
    BY <1>1, <1>2 DEF HeapFollows

LEMMA HeapKindStep ==
    ASSUME HeapKindInv, [Next]_allVars
    PROVE  HeapKindInv' /\ HeapRunFollows
  <1>1. CASE kind = "heap" /\ Next
    <2>1. kind' = "heap" /\ HeapM!Next
      BY <1>1 DEF Next
    <2>2. HeapInv' /\ HeapStepFollows
      BY <1>1, <2>1, HeapStep DEF HeapKindInv
    <2> QED
      BY <1>1, <2>1, <2>2, HeapItems DEF HeapKindInv, HeapRunFollows, HeapStepFollows, Returned
  <1>2. CASE kind # "heap" /\ Next
    BY <1>2 DEF Next, HeapKindInv, HeapRunFollows
  <1>3. CASE UNCHANGED allVars
    <2>1. UNCHANGED <<kind, obj, last, life>>
      BY <1>3 DEF allVars, clientVars
    <2>2. HeapKindInv'
      BY <2>1 DEF HeapKindInv, HeapInv
    <2>3. ASSUME kind = "heap" PROVE UNCHANGED Pool!vars
      BY <2>1, <2>3, HeapItems DEF HeapFollows, Pool!vars
    <2> QED
      BY <2>2, <2>3 DEF HeapRunFollows
  <1> QED
    BY <1>1, <1>2, <1>3

LEMMA HeapKindHolds == Spec => []HeapKindInv
  <1>1. Init => HeapKindInv
    BY HeapInitInv DEF Init, HeapKindInv
  <1>2. HeapKindInv /\ [Next]_allVars => HeapKindInv'
    BY HeapKindStep
  <1> QED
    BY <1>1, <1>2, PTL DEF Spec

(* The priority queue is a bag for its client, whatever the priorities and    *)
(* the initial capacity: the exchanges of swim and sink, right or wrong as    *)
(* an order, and the growth of the array lose no item and make none up.      *)
THEOREM HeapIsPool == Spec => HeapKeepsItems
  <1>1. HeapKindInv /\ [Next]_allVars => HeapRunFollows
    BY HeapKindStep
  <1> QED
    BY <1>1, HeapKindHolds, PTL DEF HeapKeepsItems, HeapRunFollows, Spec
=============================================================================
