----------------------------- MODULE LinkedList -----------------------------
(***************************************************************************)
(* LinkedList.c, pointer by pointer: the doubly linked list with a cursor  *)
(* that every other part of the library keeps its state in.  A List has    *)
(* one owner at a time, so an operation is one step.                       *)
(*                                                                         *)
(* A list element is a heap cell, an item's content an opaque pointer with *)
(* the key the comparison callbacks look at.  A cell that is freed loses   *)
(* its contents, so that a pointer to it is of no use.                     *)
(***************************************************************************)
EXTENDS Naturals, Sequences, FiniteSets, SequencesExt

CONSTANTS
    Elems,      \* heap cells for ListElement structures
    Contents,   \* items
    Key,        \* Key[c]: what the comparison callbacks look at
    NULL,
    MaxSize     \* bound: the size field

ASSUME ElemsAssumption == IsFiniteSet(Elems) /\ NULL \notin Elems \cup Contents
ASSUME KeyAssumption == DOMAIN Key = Contents
ASSUME MaxSizeAssumption == MaxSize \in Nat

VARIABLES
    first, last,   \* List.first and List.last
    current,       \* List.current
    count,         \* List.count
    size,          \* List.size, in items
    elem,          \* elem[e]: the ListElement in cell e
    alloc          \* the allocated cells

vars == <<first, last, current, count, size, elem, alloc>>

Freed == [prev |-> NULL, next |-> NULL, content |-> NULL]

\* ListZero
Init ==
    /\ first = NULL /\ last = NULL /\ current = NULL
    /\ count = 0 /\ size = 0
    /\ elem = [e \in Elems |-> Freed] /\ alloc = {}

-----------------------------------------------------------------------------
(* Iteration and search                                                    *)

ListNextElement(pos) == IF pos = NULL THEN first ELSE elem[pos].next
ListPrevElement(pos) == IF pos = NULL THEN last ELSE elem[pos].prev

\* The elements an iteration with step visits.  One more than there are cells
\* is enough to notice that it does not end.
Visited(step(_)) ==
    LET pos[n \in 1..(Cardinality(Elems) + 1)] ==
            IF n = 1 THEN step(NULL)
            ELSE IF pos[n - 1] = NULL THEN NULL ELSE step(pos[n - 1])
    IN  SubSeq(pos, 1, Cardinality({n \in DOMAIN pos : pos[n] # NULL}))

Forward  == Visited(ListNextElement)
Backward == Visited(ListPrevElement)

ItemsOf(order) == [i \in DOMAIN order |-> elem[order[i]].content]

\* What a search accepts: one item (no callback), or all items with one key.
Wanted == {{c} : c \in Contents} \cup {{c \in Contents : Key[c] = Key[d]} : d \in Contents}

\* Mutant: the search does not look at the cursor first.
findItem_FromFirst(wanted) ==
    LET i == SelectInSeq(Forward, LAMBDA e : elem[e].content \in wanted)
    IN  IF i = 0 THEN NULL ELSE Forward[i]

\* The element ListFindItem returns: the current one if it matches, otherwise
\* the first one that does.
findItem(wanted) ==
    IF current # NULL /\ elem[current].content \in wanted THEN current
    ELSE LET i == SelectInSeq(Forward, LAMBDA e : elem[e].content \in wanted)
         IN  IF i = 0 THEN NULL ELSE Forward[i]

ListFindItem(wanted) ==
    /\ findItem(wanted) # NULL
    /\ current' = findItem(wanted)
    /\ UNCHANGED <<first, last, count, size, elem, alloc>>

-----------------------------------------------------------------------------
(* Adding                                                                  *)

\* The caller's item is not on the list yet, and there is memory.
Addable == /\ size < MaxSize
           /\ count' = count + 1 /\ size' = size + 1

ListAppend(c, newel) ==
    /\ Addable
    /\ elem' = [e \in Elems |->
                   IF e = newel THEN [prev |-> last, next |-> NULL, content |-> c]
                   ELSE IF e = last /\ first # NULL
                        THEN [elem[e] EXCEPT !.next = newel]
                        ELSE elem[e]]
    /\ first' = IF first = NULL THEN newel ELSE first
    /\ last' = newel
    /\ alloc' = alloc \cup {newel}
    /\ UNCHANGED current

\* Mutant: the first pointer is not moved to an element put before all others.
ListInsert_NotFirst(c, newel, index) ==
    /\ Addable
    /\ elem' = [e \in Elems |->
                   CASE e = newel -> [prev |-> elem[index].prev, next |-> index,
                                      content |-> c]
                     [] e = index -> [elem[e] EXCEPT !.prev = newel]
                     [] e = elem[index].prev -> [elem[e] EXCEPT !.next = newel]
                     [] OTHER -> elem[e]]
    /\ alloc' = alloc \cup {newel}
    /\ UNCHANGED <<first, last, current>>

\* ListInsert before the element index.
ListInsert(c, newel, index) ==
    /\ Addable
    /\ elem' = [e \in Elems |->
                   CASE e = newel -> [prev |-> elem[index].prev, next |-> index,
                                      content |-> c]
                     [] e = index -> [elem[e] EXCEPT !.prev = newel]
                     [] e = elem[index].prev -> [elem[e] EXCEPT !.next = newel]
                     [] OTHER -> elem[e]]
    /\ first' = IF elem[index].prev = NULL THEN newel ELSE first
    /\ alloc' = alloc \cup {newel}
    /\ UNCHANGED <<last, current>>

-----------------------------------------------------------------------------
(* Removing                                                                *)

\* The cells after e is taken out and freed.
without(e) ==
    [x \in Elems |->
        CASE x = e           -> Freed
          [] x = elem[e].prev -> [elem[x] EXCEPT !.next = elem[e].next]
          [] x = elem[e].next -> [elem[x] EXCEPT !.prev = elem[e].prev]
          [] OTHER            -> elem[x]]

\* Mutant: the cursor gets the content pointer of the removed element.
cursorAfter_Content(e) == IF current = e THEN elem[e].content ELSE current

\* ListUnlink puts the cursor back to where it was before the search, or on
\* the next element if that is the one removed.
cursorAfter(e) == IF current = e THEN elem[e].next ELSE current

\* ListUnlink, and with it ListRemove, ListDetach, ListRemoveItem and
\* ListDetachItem.  size is not reduced.
ListUnlink(wanted) ==
    LET e == findItem(wanted)
    IN  /\ e # NULL
        /\ first' = IF elem[e].prev = NULL THEN elem[e].next ELSE first
        /\ last' = IF elem[e].next = NULL THEN elem[e].prev ELSE last
        /\ elem' = without(e)
        /\ current' = cursorAfter(e)
        /\ alloc' = alloc \ {e}
        /\ count' = count - 1
        /\ UNCHANGED size

\* ListDetachHead and ListRemoveHead
ListDetachHead ==
    /\ count > 0
    /\ current' = IF current = first THEN elem[first].next ELSE current
    /\ last' = IF last = first THEN NULL ELSE last
    /\ first' = elem[first].next
    /\ elem' = without(first)
    /\ alloc' = alloc \ {first}
    /\ count' = count - 1
    /\ UNCHANGED size

\* The cursor goes back when its element is taken from the end.
ListPopTail ==
    /\ count > 0
    /\ current' = IF current = last THEN elem[last].prev ELSE current
    /\ first' = IF first = last THEN NULL ELSE first
    /\ last' = elem[last].prev
    /\ elem' = without(last)
    /\ alloc' = alloc \ {last}
    /\ count' = count - 1
    /\ UNCHANGED size

\* ListEmpty: every element that is reached from first is freed.
ListEmpty ==
    /\ alloc' = alloc \ ToSet(Forward)
    /\ elem' = [e \in Elems |-> IF e \in ToSet(Forward) THEN Freed ELSE elem[e]]
    /\ first' = NULL /\ last' = NULL /\ current' = NULL
    /\ count' = 0 /\ size' = 0

-----------------------------------------------------------------------------

Items == ToSet(ItemsOf(Forward))

Adding == \E c \in Contents \ Items, newel \in Elems \ alloc :
    \/ ListAppend(c, newel)
    \/ \E index \in ToSet(Forward) : ListInsert(c, newel, index)

Next ==
    \/ Adding
    \/ \E wanted \in Wanted : ListFindItem(wanted) \/ ListUnlink(wanted)
    \/ ListDetachHead \/ ListPopTail \/ ListEmpty

Spec == Init /\ [][Next]_vars

-----------------------------------------------------------------------------
(* Properties                                                              *)

Pointer == Elems \cup {NULL}

\* The variables hold the values the C structures can hold.
TypeOK ==
    /\ first \in Pointer /\ last \in Pointer /\ current \in Pointer
    /\ count \in Nat /\ size \in 0..MaxSize
    /\ elem \in [Elems -> [prev : Pointer, next : Pointer,
                           content : Contents \cup {NULL}]]
    /\ alloc \subseteq Elems

\* Iterating forwards and backwards visits the same elements in opposite
\* order, each once, as many as count says, and they are all the cells that
\* are allocated: no operation breaks a link or leaks an element; and the
\* cursor, which ListFindItem looks at first and callers use after a search, is
\* never left on an element that was freed (LinkedList.c:65-371).
WellLinked ==
    LET order == Forward
    IN  /\ order = Reverse(Backward)
        /\ IsInjective(order) /\ ToSet(order) = alloc
        /\ Len(order) = count
        /\ current \in alloc \cup {NULL}

ADT == INSTANCE ListADT
           WITH items <- ItemsOf(Forward),
                cursor <- IF current = NULL THEN NULL ELSE elem[current].content

\* Each operation does to the sequence of items and to the cursor what its
\* callers rely on, whatever pointers it follows to do so.
OperationsImplementADT ==
    /\ \A c \in Contents, newel \in Elems \ alloc :
        /\ ListAppend(c, newel) => ADT!Add(c)
        /\ \A index \in alloc :
            ListInsert(c, newel, index) => ADT!InsertBefore(c, elem[index].content)
    /\ \A wanted \in Wanted :
        /\ ListFindItem(wanted) => ADT!Find(wanted)
        /\ ListUnlink(wanted) => ADT!Drop(wanted)
    /\ ListDetachHead => ADT!DropFirst
    /\ ListPopTail => ADT!DropLast
    /\ ListEmpty => ADT!Clear

\* The list with its pointers implements the abstract list: it starts as one,
\* and each step is a step of it, the one its operation stands for
\* (LinkedList.c:65-371).
ImplementsADT ==
    /\ ADT!Init
    /\ [][UNCHANGED vars \/ ([ADT!Next]_(ADT!listVars) /\ OperationsImplementADT)]_vars
=============================================================================
