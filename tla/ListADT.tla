------------------------------ MODULE ListADT ------------------------------
(***************************************************************************)
(* What a List of LinkedList.c promises its callers: a sequence of items   *)
(* and a cursor that is on one of them or nowhere.                         *)
(***************************************************************************)
EXTENDS Naturals, Sequences, SequencesExt

CONSTANTS
    Contents,   \* items, each at most once in the list
    Key,        \* Key[c]: what the comparison callbacks look at
    NULL

VARIABLES
    items,      \* the items in the order of the list
    cursor      \* the item the list's cursor is on, or NULL

listVars == <<items, cursor>>

\* What a search accepts: one item (no callback), or all items with one key.
Wanted == {{c} : c \in Contents} \cup {{c \in Contents : Key[c] = Key[d]} : d \in Contents}

Init == items = <<>> /\ cursor = NULL

\* The item a search finds: the one under the cursor if it will do, otherwise
\* the first one.
Found(wanted) ==
    IF cursor \in wanted THEN cursor
    ELSE LET i == SelectInSeq(items, LAMBDA c : c \in wanted)
         IN  IF i = 0 THEN NULL ELSE items[i]

\* The item after c, if there is one.
Successor(c) ==
    LET i == SelectInSeq(items, LAMBDA d : d = c)
    IN  IF i < Len(items) THEN items[i + 1] ELSE NULL

Add(c) == items' = Append(items, c) /\ UNCHANGED cursor

InsertBefore(c, d) ==
    /\ items' = InsertAt(items, SelectInSeq(items, LAMBDA x : x = d), c)
    /\ UNCHANGED cursor

\* A search that finds something puts the cursor there.
Find(wanted) ==
    /\ cursor' = IF Found(wanted) = NULL THEN cursor ELSE Found(wanted)
    /\ UNCHANGED items

\* A removed item takes the cursor to its successor and moves it in no other
\* case.
Drop(wanted) ==
    LET c == Found(wanted)
    IN  /\ items' = RemoveFirst(items, c)
        /\ cursor' = IF c # NULL /\ cursor = c THEN Successor(c) ELSE cursor

DropFirst ==
    /\ items # <<>>
    /\ items' = Tail(items)
    /\ cursor' = IF cursor = Head(items) THEN Successor(cursor) ELSE cursor

\* Taking the last item moves the cursor back.
DropLast ==
    /\ items # <<>>
    /\ items' = Front(items)
    /\ cursor' = IF cursor # Last(items) THEN cursor
                 ELSE IF Len(items) = 1 THEN NULL ELSE items[Len(items) - 1]

Clear == items' = <<>> /\ cursor' = NULL

Next ==
    \/ \E c \in Contents \ ToSet(items) :
        Add(c) \/ \E d \in ToSet(items) : InsertBefore(c, d)
    \/ \E wanted \in Wanted : Find(wanted) \/ Drop(wanted)
    \/ DropFirst \/ DropLast \/ Clear

Spec == Init /\ [][Next]_listVars
=============================================================================
