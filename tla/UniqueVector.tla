---------------------------- MODULE UniqueVector ----------------------------
(***************************************************************************)
(* unique_vector, the container of members, roles and errors: a vector     *)
(* kept in ascending order by inserting at the lower bound.  Insertion     *)
(* looks at the element at the lower bound before it asks whether there    *)
(* is one: past the last element it reads whatever is there.               *)
(***************************************************************************)
EXTENDS Integers, Sequences

CONSTANTS Values,    \* what the container may hold: numbers, or addresses
          Ranges,    \* what callers pass to insert_range
          MaxLen     \* bound: how long a vector grows

ASSUME VectorAssumption ==
    /\ Values \subseteq Int
    /\ Ranges \subseteq Seq(Values)
    /\ MaxLen \in Nat

VARIABLES
    m_container,   \* the elements
    allocated,     \* capacity() > 0
    call,          \* the call that runs, and the values it is still to handle
    turned,        \* reversed, or grown by resize, since it was last empty
    crashed        \* the process is gone

vars == <<m_container, allocated, call, turned, crashed>>

Idle == [does |-> "nothing", with |-> <<>>]

Call == [does : {"nothing", "insert", "erase"}, with : Seq(Values)]

TypeOK ==
    /\ m_container \in Seq(Values)
    /\ allocated \in BOOLEAN
    /\ call \in Call
    /\ turned \in BOOLEAN
    /\ crashed \in BOOLEAN

Init ==
    /\ m_container = <<>>
    /\ allocated = FALSE
    /\ call = Idle
    /\ turned = FALSE
    /\ crashed = FALSE

-----------------------------------------------------------------------------
Elements(s) == {s[i] : i \in 1 .. Len(s)}

Ascending(s) == \A i, j \in 1 .. Len(s) : i < j => s[i] < s[j]

InsertBefore(s, p, v) ==
    [i \in 1 .. Len(s) + 1 |-> IF i < p THEN s[i] ELSE IF i = p THEN v ELSE s[i - 1]]

\* Without the elements from the first to before the last.
Without(s, first, last) ==
    [i \in 1 .. Len(s) - (last - first) |-> IF i < first THEN s[i] ELSE s[i + last - first]]

Backwards(s) == [i \in 1 .. Len(s) |-> s[Len(s) + 1 - i]]

\* Where the binary search of std::ranges::lower_bound may end.  In an ascending
\* sequence there is one such place; in others the search finds one of them.
LowerBounds(s, v) ==
    {p \in 1 .. Len(s) + 1 : /\ p > 1 => s[p - 1] < v
                             /\ p <= Len(s) => v <= s[p]}

-----------------------------------------------------------------------------
Free == ~crashed /\ call = Idle

Begin(what, values) ==
    /\ Free
    /\ call' = [does |-> what, with |-> values]
    /\ UNCHANGED <<m_container, allocated, turned, crashed>>

insert_range(r) == r \in Ranges /\ r # <<>> /\ Begin("insert", r)

Handled == call' = IF Tail(call.with) = <<>> THEN Idle
                   ELSE [call EXCEPT !.with = Tail(call.with)]

\* Reading *end(): memory that happens to hold the value, or another; there may
\* be none to read, and there is none as long as nothing was ever allocated.
ReadPastEnd(v) ==
    \/ /\ allocated
       /\ m_container' \in {m_container, Append(m_container, v)}
       /\ Handled
       /\ UNCHANGED crashed
    \/ crashed' = TRUE /\ call' = Idle /\ UNCHANGED m_container

\* Mutant of Emplace: the comparison of a sort.
EmplaceIfLess(p, v) ==
    /\ m_container' = IF m_container[p] < v THEN InsertBefore(m_container, p, v)
                      ELSE m_container
    /\ Handled
    /\ UNCHANGED crashed

\* Mutant of Emplace: the element there is overwritten.
Overwrite(p, v) ==
    /\ m_container' = [m_container EXCEPT ![p] = v]
    /\ Handled
    /\ UNCHANGED crashed

\* Mutant of Emplace: what a push_back would do.
EmplaceAtEnd(p, v) ==
    /\ m_container' = IF m_container[p] = v THEN m_container ELSE Append(m_container, v)
    /\ Handled
    /\ UNCHANGED crashed

\* The element found: emplaced before it, unless it is the value.
Emplace(p, v) ==
    /\ m_container' = IF m_container[p] = v THEN m_container
                      ELSE InsertBefore(m_container, p, v)
    /\ Handled
    /\ UNCHANGED crashed

insert(v) ==
    /\ call.does = "insert" /\ ~crashed
    /\ v = Head(call.with)
    /\ Len(m_container) < MaxLen
    /\ \E p \in LowerBounds(m_container, v) :
          IF p > Len(m_container) THEN ReadPastEnd(v) ELSE Emplace(p, v)
    /\ UNCHANGED <<allocated, turned>>

\* erase(value): std::erase takes out every element that equals it.
erase(v) == v \in Values /\ Begin("erase", <<v>>)

EraseOne ==
    /\ call.does = "erase" /\ ~crashed
    /\ IF Head(call.with) \in Elements(m_container)
       THEN /\ \E i \in 1 .. Len(m_container) :
                  /\ m_container[i] = Head(call.with)
                  /\ m_container' = Without(m_container, i, i + 1)
            /\ UNCHANGED call
       ELSE Handled /\ UNCHANGED m_container
    /\ UNCHANGED <<allocated, turned, crashed>>

\* erase(position) and erase(first, last).
erase_range(first, last) ==
    /\ Free
    /\ first <= last /\ last <= Len(m_container) + 1
    /\ m_container' = Without(m_container, first, last)
    /\ UNCHANGED <<allocated, call, turned, crashed>>

pop_back ==
    /\ Free
    /\ IF m_container = <<>> THEN crashed' = TRUE /\ UNCHANGED m_container
       ELSE m_container' = Without(m_container, Len(m_container), Len(m_container) + 1)
              /\ UNCHANGED crashed
    /\ UNCHANGED <<allocated, call, turned>>

clear ==
    /\ Free
    /\ m_container' = <<>> /\ turned' = FALSE
    /\ UNCHANGED <<allocated, call, crashed>>

reverse ==
    /\ Free
    /\ m_container' = Backwards(m_container)
    /\ turned' = TRUE
    /\ UNCHANGED <<allocated, call, crashed>>

\* resize(new_size, value); resize(new_size) fills with T's default value.
resize(new_size, value) ==
    /\ Free
    /\ new_size <= MaxLen
    /\ m_container' = [i \in 1 .. new_size |->
                          IF i <= Len(m_container) THEN m_container[i] ELSE value]
    /\ turned' = (turned \/ new_size > Len(m_container))
    /\ allocated' = (allocated \/ new_size > 0)
    /\ UNCHANGED <<call, crashed>>

reserve == Free /\ allocated' = TRUE /\ UNCHANGED <<m_container, call, turned, crashed>>

\* A copy has as much memory as it has elements.
copy ==
    /\ Free
    /\ allocated' = (m_container # <<>>)
    /\ UNCHANGED <<m_container, call, turned, crashed>>

Next ==
    \/ \E r \in Ranges : insert_range(r)
    \/ \E v \in Values : insert(v) \/ erase(v)
    \/ EraseOne
    \/ \E first, last \in 1 .. MaxLen + 1 : erase_range(first, last)
    \/ pop_back \/ clear \/ reverse \/ reserve \/ copy
    \/ \E n \in 0 .. MaxLen, v \in Values : resize(n, v)

Spec == Init /\ [][Next]_vars

-----------------------------------------------------------------------------
(***************************************************************************)
(* What holds of it.                                                       *)
(***************************************************************************)
\* "This container is always sorted", and its elements are unique (lines 13 to
\* 16), whatever was read past the end, until it is reversed or resized.
SortedAndUnique == ~turned => Ascending(m_container)

\* What a caller gets is a set.
Asked == IF call.does = "insert" THEN Elements(call.with) ELSE {}

Set == INSTANCE UniqueSet WITH elements <- Elements(m_container), asked <- Asked

SetSpec == Set!Spec

\* As long as it is in order, an insertion that finds its value missing and ends
\* without it has lost a value greater than all the others.
OnlyTheGreatestIsLost ==
    [][~turned /\ call.does = "insert" /\ ~crashed' /\ call' # call
          => LET v == Head(call.with)
             IN  v \in Elements(m_container') \/ \A e \in Elements(m_container) : e < v]_vars

\* The first value inserted into a vector nobody reserved for, or into the copy of
\* an empty one, is the end of the process.
FirstInsertCrashes ==
    [][~allocated /\ call.does = "insert" /\ call' # call => crashed']_vars

=============================================================================
