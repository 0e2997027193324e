-------------------------------- MODULE Vector --------------------------------
(***************************************************************************)
(* vector.h: the growing array and one iterator over it.  Several calls    *)
(* look one word past the elements, or past the allocation; what they find *)
(* there is a word left by an earlier call, NULL from calloc, or Garbage.  *)
(***************************************************************************)
EXTENDS SequentialClient, Functions

CONSTANTS Elements,         \* the pointers clients push
          InitialCapacity,  \* initial_size
          MaxCapacity       \* a bound on the buffers, for TLC

VARIABLES vector,   \* [buffer, size]; the capacity is the length of the buffer
          iterator  \* [index, data], or Null

vars == <<vector, iterator, clientVars>>

Words == Elements \cup {Null, Garbage}

(* cap_vector_init, with calloc. *)
New == [buffer |-> [i \in 1..InitialCapacity |-> Null], size |-> 0]

Init == ClientInit /\ vector = New /\ other = New /\ iterator = Null

VectorCapacity == Len(vector.buffer)

(* _internal_buffer[i], whatever i: the allocation ends at the capacity. *)
Word(i) == IF i \in 0..(VectorCapacity - 1) THEN vector.buffer[i + 1] ELSE Garbage

(* The words of the first n slots. *)
Slots(n) == [i \in 1..n |-> Word(i - 1)]
Contents == Slots(vector.size)

Returns(op, arg, answer) == Did(op, arg, answer) /\ UNCHANGED iterator
Fails(op, arg) == Breaks(op, arg) /\ UNCHANGED <<vector, iterator>>

(* realloc to n words in _cap_vector_reserve, cap_vector_resize and          *)
(* cap_vector_shrink_to_fit.  The size is not clipped.                       *)
Reserved(n) == [vector EXCEPT !.buffer = Realloc(@, n)]

(* cap_vector_resize.  A realloc to no words frees the buffer and answers    *)
(* NULL, so that the vector keeps a dangling pointer, or answers a block.    *)
Resize(n) ==
    \/ Returns("memory", Null, CTrue) /\ vector' = Reserved(n)
    \/ MallocMayFail /\ n # 0 /\ Returns("memory", Null, CFalse) /\ UNCHANGED vector
    \/ n = 0 /\ Fails("memory", Null)

ShrinkToFit == Resize(vector.size)

(* cap_vector_push_back: the capacity doubles when the size has reached it.  *)
(* Twice nothing fails an assert, and after a resize below half the size     *)
(* twice the capacity does not reach the slot.                               *)
PushBack(x) ==
    LET full == VectorCapacity <= vector.size
        room == IF full THEN Reserved(2 * VectorCapacity) ELSE vector
    IN  /\ full => 2 * VectorCapacity <= MaxCapacity
        /\ \/ full /\ (VectorCapacity = 0 \/ Len(room.buffer) <= vector.size) /\ Fails("push_back", x)
           \/ full /\ VectorCapacity # 0 /\ MallocMayFail /\ Returns("push_back", x, CFalse) /\ UNCHANGED vector
           \/ /\ Len(room.buffer) > vector.size
              /\ Returns("push_back", x, CTrue)
              /\ vector' = [room EXCEPT !.buffer[vector.size + 1] = x, !.size = @ + 1]

PopBack ==
    IF vector.size = 0 THEN Returns("pop_back", Null, Null) /\ UNCHANGED vector
    ELSE /\ Returns("pop_back", Null, Word(vector.size - 1))
         /\ vector' = [vector EXCEPT !.size = @ - 1]

(* Variant of pop_front's memmove with a count one too small. *)
MovedShort(i, n) ==
    [j \in 1..VectorCapacity |-> IF j \in (i + 1)..(i + n - 1) THEN Word(j) ELSE vector.buffer[j]]

(* memmove of n words from slot i + 1 to slot i. *)
Moved(i, n) ==
    [j \in 1..VectorCapacity |-> IF j \in (i + 1)..(i + n) THEN Word(j) ELSE vector.buffer[j]]

PopFront ==
    \/ vector.size = 0 /\ Returns("pop_front", Null, Null) /\ UNCHANGED vector
    \/ vector.size > VectorCapacity /\ Fails("pop_front", Null)
    \/ /\ vector.size \in 1..VectorCapacity
       /\ Returns("pop_front", Null, Word(0))
       /\ vector' = [buffer |-> Moved(0, vector.size - 1), size |-> vector.size - 1]

(* The predicate is called with each word that is not NULL: one that is no  *)
(* element may be anything.                                                  *)
Meets(words, P) == Matching(words, P \cup {Garbage})

(* cap_vector_find_if goes one slot past the last element. *)
FindIf(P) ==
    LET looked == Slots(vector.size + 1)
        met == Meets(looked, P)
        found == Matching(looked, P)
    IN  IF vector.size = 0 THEN Returns("find_if", P, Null) /\ UNCHANGED vector
        ELSE \/ met # <<>> /\ Head(met) = Garbage /\ Fails("find_if", P)
             \/ /\ Returns("find_if", P, IF found = <<>> THEN Null ELSE Head(found))
                /\ UNCHANGED vector

(* cap_vector_for_each goes as far as find_if. *)
ForEach ==
    \/ vector.size # 0 /\ Garbage \in Range(Slots(vector.size + 1)) /\ Fails("iterator", Null)
    \/ Returns("iterator", Null, Null) /\ UNCHANGED vector

(* cap_vector_remove_if packs the others; the slots it leaves keep their words. *)
RemoveIf(P) ==
    LET kept == Matching(Contents, Words \ P)
    IN  IF Garbage \in Range(Contents) THEN Fails("remove_if", P)
        ELSE /\ Returns("remove_if", P, Bool(Len(kept) < vector.size))
             /\ vector' = [buffer |-> [i \in 1..VectorCapacity |->
                                          IF i <= Len(kept) THEN kept[i] ELSE vector.buffer[i]],
                           size |-> Len(kept)]

(* cap_vector_front does not ask whether there is an element; cap_vector_at   *)
(* answers the address of a slot, here its number, for the indices from 1 to  *)
(* the size, and NULL beyond.                                                *)
Look ==
    /\ \/ Returns("size", Null, vector.size)
       \/ Returns("empty", Null, Bool(vector.size = 0))
       \/ Returns("memory", Null, VectorCapacity)
       \/ Returns("memory", Null, VectorCapacity - vector.size)
       \/ Returns("back", Null, IF vector.size = 0 THEN Null ELSE Word(vector.size - 1))
       \/ Returns("front", Null, Word(0))
       \/ \E i \in 1..(vector.size + 1) : Returns("at", i, IF vector.size < i THEN Null ELSE i)
    /\ UNCHANGED vector

(* Bounds on the client: it has an iterator or a second vector in use, and    *)
(* the second vector is smaller than MaxCapacity and not cut short.          *)
SecondUse == iterator = Null /\ VectorCapacity < MaxCapacity /\ vector.size <= VectorCapacity

(* cap_vector_swap *)
Swap ==
    /\ SecondUse
    /\ Makes("swap", Null, Null)
    /\ vector' = other
    /\ other' = vector
    /\ UNCHANGED <<life, iterator>>

(* cap_vector_deep_copy: memcpy of the capacity. *)
DeepCopy ==
    /\ SecondUse
    /\ Makes("deep_copy", Null, CTrue)
    /\ other' = vector
    /\ UNCHANGED <<vector, life, iterator>>

(* cap_vector_free, and cap_vector_deep_free, which frees each element: one   *)
(* stored twice is freed twice.                                              *)
Free ==
    /\ \/ Frees("free")
       \/ (~IsInjective(Contents) \/ Garbage \in Range(Contents)) /\ Breaks("free", Null)
    /\ UNCHANGED <<vector, iterator>>

-----------------------------------------------------------------------------
(* cap_vector_iterator_init, cap_vector_begin and cap_vector_end.  The last   *)
(* index of an empty vector is the largest size_t.                           *)
Begin ==
    /\ Did("iterator", Null, Null)
    /\ iterator' = [index |-> 0, data |-> Word(0)]
    /\ UNCHANGED vector

End ==
    IF vector.size = 0 THEN Fails("iterator", Null)
    ELSE /\ Did("iterator", Null, Null)
         /\ iterator' = [index |-> vector.size - 1, data |-> Word(vector.size - 1)]
         /\ UNCHANGED vector

Goes(answer, index, data) ==
    /\ Did("iterator", Null, answer)
    /\ iterator' = [index |-> index, data |-> data]
    /\ UNCHANGED vector

(* cap_vector_iterator_increment and _decrement stay when data is NULL. *)
Increment ==
    IF vector.size = 0 \/ vector.size = iterator.index + 1
    THEN Goes(Null, iterator.index, Null)
    ELSE LET i == IF iterator.data = Null THEN iterator.index ELSE iterator.index + 1
         IN  i <= MaxCapacity /\ Goes(Null, i, Word(i))

Decrement ==
    IF iterator.index = 0 THEN Goes(Null, 0, Null)
    ELSE LET i == IF iterator.data = Null THEN iterator.index ELSE iterator.index - 1
         IN  Goes(Null, i, Word(i))

(* cap_vector_iterator_next looks past the last element, and                 *)
(* cap_vector_iterator_previous in front of the first: an unsigned index is  *)
(* never below 0.  _equals_predicate passes its data on, NULL included.      *)
Peek ==
    LET i == iterator.index
    IN  \/ Goes(IF vector.size < i + 1 THEN Null ELSE Word(i + 1), i, iterator.data)
        \/ Goes(Word(i - 1), i, iterator.data)
        \/ Goes(i, i, iterator.data)

(* cap_vector_iterator_insert overwrites the slot; no element moves. *)
IteratorInsert(x) ==
    IF iterator.index >= VectorCapacity THEN Fails("replace", x)
    ELSE /\ Did("replace", x, iterator.index)
         /\ vector' = [vector EXCEPT !.buffer[iterator.index + 1] = x]
         /\ iterator' = [iterator EXCEPT !.data = x]

(* cap_vector_iterator_remove: the rest of the buffer moves down, wherever    *)
(* the index is, and the size counts down.                                   *)
IteratorRemove ==
    LET i == iterator.index
        moved == Moved(i, VectorCapacity - (i + 1))
    IN  IF vector.size = 0 THEN Goes(Null, i, iterator.data)
        ELSE IF vector.size = i + 1
        THEN /\ Did("remove_at", Null, i)
             /\ iterator' = [iterator EXCEPT !.data = Null]
             /\ vector' = [vector EXCEPT !.size = @ - 1]
        ELSE IF i >= VectorCapacity THEN Fails("remove_at", Null)
        ELSE /\ Did("remove_at", Null, i)
             /\ iterator' = [iterator EXCEPT !.data = moved[i + 1]]
             /\ vector' = [buffer |-> moved, size |-> vector.size - 1]

(* cap_vector_iterator_free *)
IteratorFree ==
    /\ Did("iterator", Null, Null)
    /\ iterator' = Null
    /\ UNCHANGED vector

Iterate ==
    IF iterator = Null THEN other = New /\ (Begin \/ End)
    ELSE \/ Increment \/ Decrement \/ Peek \/ IteratorRemove \/ IteratorFree
         \/ \E x \in Elements : IteratorInsert(x)

Next ==
    \/ \E x \in Elements : PushBack(x)
    \/ \E P \in SUBSET Elements : FindIf(P) \/ RemoveIf(P)
    \/ \E n \in 0..MaxCapacity : Resize(n)
    \/ PopBack \/ PopFront \/ ForEach \/ Look \/ ShrinkToFit
    \/ Swap \/ DeepCopy \/ Free \/ Iterate

Spec == Init /\ [][Next]_vars

-----------------------------------------------------------------------------
TypeOK ==
    /\ {vector, other} \subseteq [buffer : Seq(Words), size : 0..MaxCapacity]
    /\ iterator = Null \/ iterator \in [index : 0..MaxCapacity, data : Words]
    /\ life \in Lives

(* No resize has cut elements off, and no iterator points past the last. *)
InBounds ==
    /\ vector.size <= VectorCapacity
    /\ other.size <= Len(other.buffer)
    /\ iterator # Null => iterator.index < vector.size
=============================================================================
