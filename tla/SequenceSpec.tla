----------------------------- MODULE SequenceSpec -----------------------------
(***************************************************************************)
(* What the vector, the lists, the stack and the queues promise a single   *)
(* client: a sequence read, changed and searched by complete calls, with   *)
(* answers that depend on its items only.  No buffer, link or counter is   *)
(* left.  A push may refuse, and then changes nothing.                     *)
(***************************************************************************)
EXTENDS CapValues, SequencesExt

CONSTANT Elements

VARIABLES items,   \* the items, front first
          others,  \* the items of a second container
          last     \* the last call and its answer

vars == <<items, others, last>>

Init ==
    /\ items = <<>>
    /\ others = <<>>
    /\ last = [op |-> "init", arg |-> Null, answer |-> Null]

Call(op, arg, answer, new) ==
    /\ last'.op = op /\ last'.arg = arg
    /\ last' = [op |-> op, arg |-> arg, answer |-> answer]
    /\ items' = new
    /\ UNCHANGED others

Push(x) ==
    \/ Call("push_front", x, CTrue, <<x>> \o items)
    \/ Call("push_back", x, CTrue, Append(items, x))
    \/ \E i \in 1..Len(items) + 1 : Call("insert_after", x, CTrue, InsertAt(items, i, x))
    \/ \E op \in {"push_front", "push_back", "insert_after"} : Call(op, x, CFalse, items)
    \/ \E i \in 1..Len(items) : Call("replace", x, i - 1, [items EXCEPT ![i] = x])

(* Reading or taking from an empty container answers NULL. *)
Take ==
    IF items = <<>>
    THEN \E op \in {"pop_front", "pop_back", "front", "back"} : Call(op, Null, Null, items)
    ELSE \/ Call("pop_front", Null, Head(items), Tail(items))
         \/ Call("pop_back", Null, Last(items), Front(items))
         \/ Call("front", Null, Head(items), items)
         \/ Call("back", Null, Last(items), items)
         \/ \E i \in 1..Len(items) : Call("remove_at", Null, i - 1, RemoveAt(items, i))

Measure ==
    \/ Call("size", Null, Len(items), items)
    \/ Call("empty", Null, IF items = <<>> THEN CTrue ELSE CFalse, items)

(* The i-th item, or NULL behind the last. *)
At(i) == Call("at", i, IF i <= Len(items) THEN items[i] ELSE Null, items)

(* A predicate is the set of the elements it accepts. *)
Search(P) ==
    LET found == Matching(items, P)
    IN  \/ Call("find_if", P, IF found = <<>> THEN Null ELSE Head(found), items)
        \/ Call("remove_if", P, IF found = <<>> THEN CFalse ELSE CTrue,
                Matching(items, Elements \ P))

Swap ==
    /\ items' = others
    /\ others' = items
    /\ last' = [op |-> "swap", arg |-> Null, answer |-> Null]

(* A second container becomes a copy of the first. *)
Copy ==
    /\ others' = items
    /\ last' = [op |-> "deep_copy", arg |-> Null, answer |-> CTrue]
    /\ UNCHANGED items

(* Calls about memory and iterators, which leave the items alone. *)
Keep == last' # last /\ last'.op \in {"memory", "iterator", "free"} /\ UNCHANGED <<items, others>>

Next ==
    \/ \E x \in Elements : Push(x)
    \/ \E i \in 1..Len(items) + 1 : At(i)
    \/ Take \/ Measure \/ Swap \/ Copy \/ Keep
    \/ \E P \in SUBSET Elements : Search(P)

Spec == Init /\ [][Next]_vars
=============================================================================
