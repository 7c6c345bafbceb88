------------------------- MODULE UniqueVectorProofs -------------------------
(***************************************************************************)
(* Proofs about UniqueVector, for any values, ranges and bound.            *)
(***************************************************************************)
EXTENDS UniqueVector, TLAPS

\* Memory: a vector that has none is empty.
EmptyWithoutMemory == ~allocated => m_container = <<>>

\* A call that runs has values left to handle.
CallHasWork == call.does # "nothing" => call.with # <<>>

VInv == TypeOK /\ SortedAndUnique /\ EmptyWithoutMemory /\ CallHasWork

-----------------------------------------------------------------------------
(***************************************************************************)
(* What the calls do to sequences.                                         *)
(***************************************************************************)
\* Inserting at the lower bound of a value that is not there keeps the order.
LEMMA InsertKeepsOrder ==
    ASSUME NEW s \in Seq(Values), NEW v \in Values, NEW p \in LowerBounds(s, v),
           p <= Len(s)
    PROVE  /\ InsertBefore(s, p, v) \in Seq(Values)
           /\ Elements(InsertBefore(s, p, v)) = Elements(s) \cup {v}
           /\ Ascending(s) /\ s[p] # v => Ascending(InsertBefore(s, p, v))
<1> DEFINE t == InsertBefore(s, p, v)
           n == Len(s)
<1>0. p \in LowerBounds(s, v)
  OBVIOUS
<1>1. /\ n \in Nat /\ p \in 1 .. n
      /\ p > 1 => s[p - 1] < v
      /\ v <= s[p]
      /\ \A i \in 1 .. n : s[i] \in Values /\ s[i] \in Int
      /\ v \in Int
  <2>1. n \in Nat /\ p \in 1 .. n + 1 /\ p <= n
    BY <1>0 DEF LowerBounds
  <2>2. (p > 1 => s[p - 1] < v) /\ v <= s[p]
    BY <1>0 DEF LowerBounds
  <2>3. \A i \in 1 .. n : s[i] \in Values
    OBVIOUS
  <2>4. \A x \in Values : x \in Int
    BY VectorAssumption DEF VectorAssumption
  <2>5. v \in Int /\ \A i \in 1 .. n : s[i] \in Int
    BY <2>3, <2>4
  <2> HIDE DEF n
  <2> QED  BY <2>1, <2>2, <2>3, <2>5
<1>2. /\ t \in Seq(Values)
      /\ Len(t) = n + 1
      /\ \A i \in 1 .. n + 1 :
            t[i] = IF i < p THEN s[i] ELSE IF i = p THEN v ELSE s[i - 1]
  BY <1>1 DEF InsertBefore
<1>3. Elements(t) = Elements(s) \cup {v}
  <2>1. ASSUME NEW i \in 1 .. n + 1 PROVE t[i] \in Elements(s) \cup {v}
    BY <1>1, <1>2 DEF Elements
  <2>2. ASSUME NEW i \in 1 .. n PROVE s[i] \in Elements(t)
    <3>1. CASE i < p
      BY <3>1, <1>1, <1>2 DEF Elements
    <3>2. CASE ~(i < p)
      <4>1. i + 1 \in 1 .. n + 1 /\ t[i + 1] = s[i]
        BY <3>2, <1>1, <1>2
      <4> QED  BY <4>1, <1>2 DEF Elements
    <3> QED  BY <3>1, <3>2
  <2>3. v \in Elements(t)
    <3>1. p \in 1 .. n + 1 /\ t[p] = v
      BY <1>1, <1>2
    <3> QED  BY <3>1, <1>2 DEF Elements
  <2> QED  BY <2>1, <2>2, <2>3, <1>2 DEF Elements
<1>4. ASSUME Ascending(s), s[p] # v PROVE Ascending(t)
  <2>1. v < s[p]
    BY <1>1, <1>4
  <2>2. \A i, j \in 1 .. n : i < j => s[i] < s[j]
    BY <1>4 DEF Ascending
  <2>3. \A i \in 1 .. n : i < p => s[i] < v
    <3>1. TAKE i \in 1 .. n
    <3>2. HAVE i < p
    <3>3. p - 1 \in 1 .. n /\ s[p - 1] < v /\ (i = p - 1 \/ s[i] < s[p - 1])
      BY <3>2, <1>1, <2>2
    <3> QED  BY <3>3, <1>1
  <2>4. \A i \in 1 .. n : p <= i => v < s[i]
    BY <1>1, <2>1, <2>2
  <2>5. ASSUME NEW i \in 1 .. n + 1, NEW j \in 1 .. n + 1, i < j
        PROVE  t[i] < t[j]
    <3>1. CASE j < p
      <4>1. i \in 1 .. n /\ j \in 1 .. n /\ t[i] = s[i] /\ t[j] = s[j]
        BY <3>1, <2>5, <1>1, <1>2
      <4> QED  BY <4>1, <2>2, <2>5
    <3>2. CASE j = p
      BY <3>2, <2>3, <2>5, <1>1, <1>2
    <3>3. CASE p < j
      <4>1. j - 1 \in 1 .. n /\ p <= j - 1 /\ t[j] = s[j - 1]
        BY <3>3, <1>1, <1>2
      <4>2. CASE i < p
        <5>1. i \in 1 .. n /\ t[i] = s[i] /\ i < j - 1
          BY <4>1, <4>2, <1>1, <1>2
        <5> QED  BY <4>1, <5>1, <2>2
      <4>3. CASE i = p
        BY <4>1, <4>3, <2>4, <1>1, <1>2
      <4>4. CASE p < i
        <5>1. i - 1 \in 1 .. n /\ t[i] = s[i - 1] /\ i - 1 < j - 1
          BY <4>1, <4>4, <2>5, <1>1, <1>2
        <5> QED  BY <4>1, <5>1, <2>2
      <4> QED  BY <4>2, <4>3, <4>4, <1>1
    <3> QED  BY <3>1, <3>2, <3>3, <1>1
  <2> QED  BY <2>5, <1>2 DEF Ascending
<1> QED  BY <1>2, <1>3, <1>4

\* Appending a value beyond the lower bound keeps the order.
LEMMA AppendKeepsOrder ==
    ASSUME NEW s \in Seq(Values), NEW v \in Values, NEW p \in LowerBounds(s, v),
           p > Len(s)
    PROVE  /\ Append(s, v) \in Seq(Values)
           /\ Elements(Append(s, v)) = Elements(s) \cup {v}
           /\ Ascending(s) => /\ Ascending(Append(s, v))
                              /\ \A e \in Elements(s) : e < v
<1> DEFINE t == Append(s, v)
           n == Len(s)
<1>0. p \in LowerBounds(s, v)
  OBVIOUS
<1>1. /\ n \in Nat /\ p = n + 1
      /\ n > 0 => s[n] < v
      /\ \A i \in 1 .. n : s[i] \in Int
      /\ v \in Int
  <2>1. n \in Nat /\ p \in 1 .. n + 1
    BY <1>0 DEF LowerBounds
  <2>2. p = n + 1
    BY <2>1
  <2>3. p > 1 => s[p - 1] < v
    BY <1>0 DEF LowerBounds
  <2>4. \A i \in 1 .. n : s[i] \in Values
    OBVIOUS
  <2>5. \A x \in Values : x \in Int
    BY VectorAssumption DEF VectorAssumption
  <2>6. v \in Int /\ \A i \in 1 .. n : s[i] \in Int
    BY <2>4, <2>5
  <2>7. n > 0 => s[n] < v
    BY <2>1, <2>2, <2>3
  <2> HIDE DEF n
  <2> QED  BY <2>1, <2>2, <2>6, <2>7
<1>2. t \in Seq(Values) /\ Len(t) = n + 1
  OBVIOUS
<1>3. /\ \A i \in 1 .. n : t[i] = s[i]
      /\ t[n + 1] = v
  BY <1>1
<1>4. 1 .. Len(t) = (1 .. n) \cup {n + 1}
  BY <1>1, <1>2
<1>5. Elements(t) = Elements(s) \cup {v}
  BY <1>3, <1>4 DEF Elements
<1>6. ASSUME Ascending(s) PROVE Ascending(t) /\ \A e \in Elements(s) : e < v
  <2>1. \A i, j \in 1 .. n : i < j => s[i] < s[j]
    BY <1>6 DEF Ascending
  <2>2. \A i \in 1 .. n : s[i] < v
    <3>1. TAKE i \in 1 .. n
    <3>2. s[n] < v /\ (i = n \/ s[i] < s[n])
      BY <1>1, <2>1
    <3> QED  BY <3>2, <1>1
  <2>3. \A e \in Elements(s) : e < v
    BY <2>2 DEF Elements
  <2>4. ASSUME NEW i \in 1 .. n + 1, NEW j \in 1 .. n + 1, i < j
        PROVE  t[i] < t[j]
    <3>1. i \in 1 .. n /\ (j \in 1 .. n \/ j = n + 1)
      BY <2>4, <1>1
    <3> QED  BY <3>1, <2>1, <2>2, <2>4, <1>3
  <2>5. Ascending(t)
    BY <2>4, <1>2 DEF Ascending
  <2> QED  BY <2>3, <2>5
<1> QED  BY <1>2, <1>5, <1>6

\* Taking elements out of the middle keeps the order and lets nothing in.
LEMMA WithoutKeepsOrder ==
    ASSUME NEW s \in Seq(Values), NEW first \in Int, NEW last \in Int,
           1 <= first, first <= last, last <= Len(s) + 1
    PROVE  /\ Without(s, first, last) \in Seq(Values)
           /\ Elements(Without(s, first, last)) \subseteq Elements(s)
           /\ Ascending(s) => Ascending(Without(s, first, last))
<1> DEFINE t == Without(s, first, last)
           n == Len(s)
           d == last - first
<1>1. /\ n \in Nat /\ d \in Nat /\ n - d \in Nat
      /\ \A i \in 1 .. n : s[i] \in Values
      /\ \A i \in 1 .. n - d : i \in 1 .. n /\ (i >= first => i + d \in 1 .. n)
  OBVIOUS
<1>2. /\ t \in Seq(Values)
      /\ Len(t) = n - d
      /\ \A i \in 1 .. n - d : t[i] = IF i < first THEN s[i] ELSE s[i + d]
  <2>1. t = [i \in 1 .. n - d |-> IF i < first THEN s[i] ELSE s[i + d]]
    BY <1>1 DEF Without
  <2> QED  BY <1>1, <2>1
<1>3. Elements(t) \subseteq Elements(s)
  <2>1. ASSUME NEW i \in 1 .. n - d PROVE t[i] \in Elements(s)
    <3>1. CASE i < first
      <4>1. i \in 1 .. n /\ t[i] = s[i]
        BY <3>1, <1>1, <1>2
      <4> QED  BY <4>1 DEF Elements
    <3>2. CASE ~(i < first)
      <4>1. i + d \in 1 .. n /\ t[i] = s[i + d]
        BY <3>2, <1>1, <1>2
      <4> QED  BY <4>1 DEF Elements
    <3> QED  BY <3>1, <3>2
  <2> HIDE DEF t
  <2>2. Elements(t) = {t[i] : i \in 1 .. n - d}
    BY <1>2 DEF Elements
  <2> QED  BY <2>1, <2>2
<1>4. ASSUME Ascending(s) PROVE Ascending(t)
  <2>1. \A i, j \in 1 .. n : i < j => s[i] < s[j]
    BY <1>4 DEF Ascending
  <2>2. ASSUME NEW i \in 1 .. n - d, NEW j \in 1 .. n - d, i < j
        PROVE  t[i] < t[j]
    <3>1. CASE j < first
      BY <3>1, <2>1, <2>2, <1>1, <1>2
    <3>2. CASE i < first /\ ~(j < first)
      <4>1. t[i] = s[i] /\ t[j] = s[j + d] /\ i < j + d
        BY <3>2, <2>2, <1>1, <1>2
      <4> QED  BY <4>1, <3>2, <2>1, <1>1
    <3>3. CASE ~(i < first)
      <4>1. t[i] = s[i + d] /\ t[j] = s[j + d] /\ i + d < j + d /\ ~(j < first)
        BY <3>3, <2>2, <1>1, <1>2
      <4> QED  BY <4>1, <3>3, <2>1, <1>1
    <3> QED  BY <3>1, <3>2, <3>3
  <2> QED  BY <2>2, <1>2 DEF Ascending
<1> QED  BY <1>2, <1>3, <1>4

\* A reversal keeps the elements.
LEMMA BackwardsKeepsElements ==
    ASSUME NEW s \in Seq(Values)
    PROVE  /\ Backwards(s) \in Seq(Values)
           /\ Elements(Backwards(s)) = Elements(s)
<1> DEFINE t == Backwards(s)
           n == Len(s)
<1>1. n \in Nat /\ \A i \in 1 .. n : s[i] \in Values /\ n + 1 - i \in 1 .. n
  OBVIOUS
<1>2. t \in Seq(Values) /\ Len(t) = n /\ \A i \in 1 .. n : t[i] = s[n + 1 - i]
  BY <1>1 DEF Backwards
<1>3. \A i \in 1 .. n : s[i] = t[n + 1 - i]
  BY <1>1, <1>2
<1> HIDE DEF t
<1>4. Elements(t) = {t[i] : i \in 1 .. n}
  BY <1>2 DEF Elements
<1>5. ASSUME NEW i \in 1 .. n PROVE t[i] \in Elements(s)
  BY <1>1, <1>2 DEF Elements
<1>6. ASSUME NEW i \in 1 .. n PROVE s[i] \in Elements(t)
  BY <1>1, <1>3, <1>4
<1>7. Elements(t) \subseteq Elements(s)
  BY <1>4, <1>5
<1>8. Elements(s) \subseteq Elements(t)
  BY <1>6 DEF Elements
<1> QED  BY <1>2, <1>7, <1>8 DEF t

\* A sequence is its head and its tail.
LEMMA HeadAndTail ==
    ASSUME NEW s \in Seq(Values), s # <<>>
    PROVE  /\ Head(s) \in Values
           /\ Tail(s) \in Seq(Values)
           /\ Elements(s) = Elements(Tail(s)) \cup {Head(s)}
           /\ Elements(s) \subseteq Values
<1> DEFINE t == Tail(s)
           n == Len(s)
<1>1. n \in Nat \ {0} /\ t \in Seq(Values) /\ Len(t) = n - 1 /\ Head(s) = s[1]
  OBVIOUS
<1>2. \A i \in 1 .. n - 1 : t[i] = s[i + 1]
  BY <1>1
<1>3. \A i \in 1 .. n : s[i] \in Values
  BY <1>1
<1> HIDE DEF t
<1>4. Elements(t) = {t[i] : i \in 1 .. n - 1}
  BY <1>1 DEF Elements
<1>5. ASSUME NEW i \in 1 .. n - 1 PROVE t[i] \in Elements(s)
  <2>1. i + 1 \in 1 .. n /\ t[i] = s[i + 1]
    BY <1>1, <1>2
  <2> QED  BY <2>1 DEF Elements
<1>6. ASSUME NEW i \in 1 .. n PROVE s[i] \in Elements(t) \cup {s[1]}
  <2>1. CASE i = 1
    BY <2>1
  <2>2. CASE i # 1
    <3>1. i - 1 \in 1 .. n - 1 /\ t[i - 1] = s[i]
      BY <2>2, <1>1, <1>2
    <3> QED  BY <3>1, <1>4
  <2> QED  BY <2>1, <2>2
<1>7. s[1] \in Elements(s)
  <2>1. 1 \in 1 .. n
    BY <1>1
  <2> QED  BY <2>1 DEF Elements
<1>8. Elements(t) \cup {s[1]} \subseteq Elements(s)
  BY <1>4, <1>5, <1>7
<1>9. Elements(s) \subseteq Elements(t) \cup {s[1]}
  BY <1>6 DEF Elements
<1>10. Elements(s) \subseteq Values
  BY <1>3 DEF Elements
<1> QED  BY <1>1, <1>3, <1>8, <1>9, <1>10 DEF t

-----------------------------------------------------------------------------
(***************************************************************************)
(* The actions.                                                            *)
(***************************************************************************)
\* What an insertion leaves of its call.
LEMMA HandledStep ==
    ASSUME VInv, call.does # "nothing", Handled
    PROVE  /\ call' \in Call
           /\ CallHasWork'
           /\ Asked' \in {Asked, Asked \ {Head(call.with)}}
           /\ call.does = "insert" => Head(call.with) \in Asked
<1>1. call \in Call /\ call.with \in Seq(Values) /\ call.with # <<>>
  BY DEF VInv, TypeOK, CallHasWork, Call
<1>2. /\ Head(call.with) \in Values
      /\ Tail(call.with) \in Seq(Values)
      /\ Elements(call.with) = Elements(Tail(call.with)) \cup {Head(call.with)}
  BY <1>1, HeadAndTail
<1>3. Elements(<<>>) = {}
  BY DEF Elements
<1>4. CASE Tail(call.with) = <<>>
  <2>1. call' = Idle
    BY <1>4 DEF Handled
  <2>2. Asked' = {}
    BY <2>1 DEF Asked, Idle
  <2>3. call.does = "insert" => Asked = {Head(call.with)}
    BY <1>2, <1>3, <1>4 DEF Asked
  <2>4. call.does # "insert" => Asked = {}
    BY DEF Asked
  <2>5. call' \in Call
    BY <2>1 DEF Call, Idle
  <2>6. CallHasWork'
    BY <2>1 DEF CallHasWork, Idle
  <2> QED  BY <2>2, <2>3, <2>4, <2>5, <2>6
<1>5. CASE Tail(call.with) # <<>>
  <2>1. call' = [call EXCEPT !.with = Tail(call.with)]
    BY <1>5 DEF Handled
  <2>2. call'.does = call.does /\ call'.with = Tail(call.with)
    BY <2>1, <1>1 DEF Call
  <2>3. call' \in Call
    BY <2>1, <1>1, <1>2 DEF Call
  <2>4. CallHasWork'
    BY <2>2, <1>5 DEF CallHasWork
  <2>5. CASE call.does = "insert"
    <3>1. Asked = Elements(call.with) /\ Asked' = Elements(Tail(call.with))
      BY <2>2, <2>5 DEF Asked
    <3> QED  BY <3>1, <2>3, <2>4, <1>2
  <2>6. CASE call.does # "insert"
    <3>1. Asked = {} /\ Asked' = {}
      BY <2>2, <2>6 DEF Asked
    <3> QED  BY <3>1, <2>3, <2>4, <2>6
  <2> QED  BY <2>5, <2>6
<1> QED  BY <1>4, <1>5


\* An insertion, whatever it reads past the end.
LEMMA InsertStep ==
    ASSUME VInv, NEW v \in Values, insert(v)
    PROVE  VInv' /\ (Set!Take \/ Set!Crash)
<1>1. /\ m_container \in Seq(Values)
      /\ call \in Call /\ call.with \in Seq(Values)
      /\ allocated \in BOOLEAN /\ turned \in BOOLEAN /\ crashed = FALSE
      /\ ~turned => Ascending(m_container)
      /\ ~allocated => m_container = <<>>
  BY DEF VInv, TypeOK, SortedAndUnique, EmptyWithoutMemory, Call, insert
<1>2. /\ call.does = "insert" /\ v = Head(call.with)
      /\ allocated' = allocated /\ turned' = turned
  BY DEF insert
<1>3. PICK p \in LowerBounds(m_container, v) :
         IF p > Len(m_container) THEN ReadPastEnd(v) ELSE Emplace(p, v)
  BY DEF insert
<1>4. ASSUME m_container' \in {m_container, Append(m_container, v)},
             p > Len(m_container), allocated, Handled, UNCHANGED crashed
      PROVE  VInv' /\ Set!Take
  <2>1. /\ call' \in Call /\ CallHasWork' /\ v \in Asked
        /\ Asked' \in {Asked, Asked \ {v}}
    BY <1>2, <1>4, HandledStep
  <2>2. /\ m_container' \in Seq(Values)
        /\ Elements(m_container') \in {Elements(m_container), Elements(m_container) \cup {v}}
        /\ ~turned => Ascending(m_container')
    BY <1>1, <1>3, <1>4, AppendKeepsOrder
  <2>3. TypeOK' /\ SortedAndUnique' /\ EmptyWithoutMemory'
    BY <1>1, <1>2, <1>4, <2>1, <2>2 DEF TypeOK, SortedAndUnique, EmptyWithoutMemory
  <2> QED  BY <2>1, <2>2, <2>3 DEF VInv, Set!Take
<1>5. ASSUME crashed' = TRUE, call' = Idle, UNCHANGED m_container
      PROVE  VInv' /\ Set!Crash
  <2>1. call' \in Call /\ CallHasWork' /\ Asked' = {}
    BY <1>5 DEF Call, CallHasWork, Asked, Idle
  <2>2. TypeOK' /\ SortedAndUnique' /\ EmptyWithoutMemory'
    BY <1>1, <1>2, <1>5, <2>1 DEF TypeOK, SortedAndUnique, EmptyWithoutMemory
  <2> QED  BY <1>5, <2>1, <2>2 DEF VInv, Set!Crash
<1>6. ASSUME p <= Len(m_container), Emplace(p, v)
      PROVE  VInv' /\ Set!Take
  <2>1. /\ call' \in Call /\ CallHasWork' /\ v \in Asked
        /\ Asked' \in {Asked, Asked \ {v}}
    BY <1>2, <1>6, HandledStep DEF Emplace
  <2>2. /\ crashed' = FALSE
        /\ m_container' = IF m_container[p] = v THEN m_container
                          ELSE InsertBefore(m_container, p, v)
    BY <1>1, <1>6 DEF Emplace
  <2>3. /\ InsertBefore(m_container, p, v) \in Seq(Values)
        /\ Elements(InsertBefore(m_container, p, v)) = Elements(m_container) \cup {v}
        /\ Ascending(m_container) /\ m_container[p] # v
              => Ascending(InsertBefore(m_container, p, v))
    BY <1>1, <1>3, <1>6, InsertKeepsOrder
  <2>4. allocated
    <3>1. SUFFICES ASSUME ~allocated PROVE FALSE
      BY <1>1
    <3>2. Len(m_container) = 0 /\ p \in 1 .. Len(m_container) + 1
      BY <3>1, <1>1, <1>3 DEF LowerBounds
    <3> QED  BY <3>2, <1>6
  <2>5. /\ m_container' \in Seq(Values)
        /\ Elements(m_container') \in {Elements(m_container), Elements(m_container) \cup {v}}
        /\ ~turned => Ascending(m_container')
    BY <1>1, <2>2, <2>3
  <2>6. TypeOK' /\ SortedAndUnique' /\ EmptyWithoutMemory'
    BY <1>1, <1>2, <2>1, <2>2, <2>4, <2>5 DEF TypeOK, SortedAndUnique, EmptyWithoutMemory
  <2> QED  BY <2>1, <2>5, <2>6 DEF VInv, Set!Take
<1>7. p \in Int /\ Len(m_container) \in Nat
  BY <1>1, <1>3 DEF LowerBounds
<1>8. CASE p > Len(m_container)
  <2>1. ReadPastEnd(v)
    BY <1>3, <1>8
  <2>2. \/ /\ allocated /\ Handled /\ UNCHANGED crashed
           /\ m_container' \in {m_container, Append(m_container, v)}
        \/ crashed' = TRUE /\ call' = Idle /\ UNCHANGED m_container
    BY <2>1 DEF ReadPastEnd
  <2> QED  BY <2>2, <1>4, <1>5, <1>8
<1>9. CASE p <= Len(m_container)
  <2>1. Emplace(p, v)
    BY <1>3, <1>7, <1>9
  <2> QED  BY <2>1, <1>6, <1>9
<1> QED  BY <1>7, <1>8, <1>9

\* The calls that remove: none of them lets anything in or disturbs the order.
LEMMA RemoveStep ==
    ASSUME VInv, Asked = {}, UNCHANGED <<allocated, turned, crashed>>,
           call' \in Call, CallHasWork', Asked' = {},
           NEW first \in Int, NEW last \in Int,
           1 <= first, first <= last, last <= Len(m_container) + 1,
           m_container' = Without(m_container, first, last)
    PROVE  VInv' /\ Set!Remove
<1>1. /\ m_container \in Seq(Values)
      /\ ~turned => Ascending(m_container)
  BY DEF VInv, TypeOK, SortedAndUnique
<1>2. /\ m_container' \in Seq(Values)
      /\ Elements(m_container') \subseteq Elements(m_container)
      /\ ~turned => Ascending(m_container')
  BY <1>1, WithoutKeepsOrder
<1>3. TypeOK' /\ SortedAndUnique'
  BY <1>2 DEF VInv, TypeOK, SortedAndUnique
<1>4. EmptyWithoutMemory'
  <2>1. SUFFICES ASSUME ~allocated PROVE m_container' = <<>>
    BY DEF EmptyWithoutMemory
  <2>2. Elements(m_container) = {}
    BY <2>1 DEF VInv, EmptyWithoutMemory, Elements
  <2>3. \A i \in 1 .. Len(m_container') : m_container'[i] \in Elements(m_container')
    BY DEF Elements
  <2>4. Len(m_container') = 0
    BY <1>2, <2>2, <2>3
  <2> QED  BY <1>2, <2>4
<1> QED  BY <1>2, <1>3, <1>4 DEF VInv, Set!Remove

\* A reversal, and a resize that grows, give up the order.
LEMMA TurningStep ==
    ASSUME VInv, reverse \/ \E n \in 0 .. MaxLen, v \in Values : resize(n, v)
    PROVE  VInv' /\ [Set!Next]_<<Elements(m_container), Asked>>
<1>1. /\ m_container \in Seq(Values) /\ allocated \in BOOLEAN
      /\ turned \in BOOLEAN
      /\ ~turned => Ascending(m_container)
      /\ ~allocated => m_container = <<>>
  BY DEF VInv, TypeOK, SortedAndUnique, EmptyWithoutMemory
<1>2. /\ call' = call /\ call = Idle /\ call \in Call
      /\ crashed' = crashed /\ crashed \in BOOLEAN
  BY DEF reverse, resize, Free, VInv, TypeOK
<1>3. Asked = {} /\ Asked' = {} /\ CallHasWork'
  BY <1>2 DEF Asked, CallHasWork, Idle
<1>4. CASE reverse
  <2>1. m_container' = Backwards(m_container) /\ turned' = TRUE /\ allocated' = allocated
    BY <1>4 DEF reverse
  <2>2. m_container' \in Seq(Values) /\ Elements(m_container') = Elements(m_container)
    BY <1>1, <2>1, BackwardsKeepsElements
  <2>3. EmptyWithoutMemory'
    BY <1>1, <2>1 DEF EmptyWithoutMemory, Backwards
  <2>4. TypeOK' /\ SortedAndUnique'
    BY <1>1, <1>2, <2>1, <2>2 DEF TypeOK, SortedAndUnique
  <2> QED  BY <1>3, <2>2, <2>3, <2>4 DEF VInv
<1>5. ASSUME NEW n \in 0 .. MaxLen, NEW v \in Values, resize(n, v)
      PROVE  VInv' /\ [Set!Next]_<<Elements(m_container), Asked>>
  <2> DEFINE k == Len(m_container)
  <2>1. /\ m_container' = [i \in 1 .. n |-> IF i <= k THEN m_container[i] ELSE v]
        /\ turned' = (turned \/ n > k)
        /\ allocated' = (allocated \/ n > 0)
    BY <1>5 DEF resize
  <2>2. n \in Nat /\ k \in Nat /\ \A i \in 1 .. k : m_container[i] \in Values
    <3>1. MaxLen \in Nat
      BY VectorAssumption DEF VectorAssumption
    <3> QED  BY <1>1, <3>1
  <2>3. /\ m_container' \in Seq(Values) /\ Len(m_container') = n
        /\ \A i \in 1 .. n : m_container'[i] = IF i <= k THEN m_container[i] ELSE v
    BY <2>1, <2>2
  <2>4. n <= k => m_container' = Without(m_container, n + 1, k + 1)
    <3>1. HAVE n <= k
    <3>2. k - (k + 1 - (n + 1)) = n
      BY <2>2
    <3>3. \A i \in 1 .. n : i < n + 1 /\ i <= k
      BY <2>2, <3>1
    <3> QED  BY <2>1, <3>2, <3>3 DEF Without
  <2>5. n <= k => /\ Elements(m_container') \subseteq Elements(m_container)
                  /\ ~turned => Ascending(m_container')
    <3>1. HAVE n <= k
    <3>2. n + 1 \in Int /\ k + 1 \in Int /\ 1 <= n + 1 /\ n + 1 <= k + 1
      BY <2>2, <3>1
    <3> QED  BY <3>1, <3>2, <2>4, <1>1, WithoutKeepsOrder
  <2>6. n > k => Elements(m_container') = Elements(m_container) \cup {v}
    <3>1. HAVE n > k
    <3>2. ASSUME NEW i \in 1 .. n PROVE m_container'[i] \in Elements(m_container) \cup {v}
      BY <2>2, <2>3 DEF Elements
    <3>3. ASSUME NEW i \in 1 .. k PROVE i \in 1 .. n /\ m_container'[i] = m_container[i]
      BY <2>2, <2>3, <3>1
    <3>4. n \in 1 .. n /\ m_container'[n] = v
      BY <2>2, <2>3, <3>1
    <3>5. Elements(m_container') = {m_container'[i] : i \in 1 .. n}
      BY <2>3 DEF Elements
    <3>6. Elements(m_container) = {m_container[i] : i \in 1 .. k}
      BY DEF Elements
    <3> QED  BY <3>2, <3>3, <3>4, <3>5, <3>6
  <2>7. EmptyWithoutMemory'
    <3>1. ~allocated' => ~(n > 0)
      BY <2>1, Zenon
    <3>2. ~(n > 0) => n = 0
      BY <2>2
    <3>3. n = 0 => m_container' = <<>>
      BY <2>3
    <3> QED  BY <3>1, <3>2, <3>3 DEF EmptyWithoutMemory
  <2>8. TypeOK' /\ SortedAndUnique'
    <3>1. turned' \in BOOLEAN /\ allocated' \in BOOLEAN
      BY <2>1
    <3>2. TypeOK'
      BY <1>2, <2>3, <3>1 DEF TypeOK
    <3>3. ~turned' => ~turned /\ ~(n > k)
      BY <2>1, Zenon
    <3>4. ~(n > k) => n <= k
      BY <2>2
    <3> QED  BY <2>5, <3>2, <3>3, <3>4, Zenon DEF SortedAndUnique
  <2>9. Set!Fill \/ Set!Remove
    <3>1. n <= k \/ n > k
      BY <2>2
    <3> QED  BY <1>3, <2>5, <2>6, <3>1 DEF Set!Fill, Set!Remove
  <2> QED  BY <1>3, <2>7, <2>8, <2>9 DEF VInv, Set!Next
<1> QED  BY <1>4, <1>5

\* Every step keeps the invariant and is one of a set's.
LEMMA EveryStep ==
    ASSUME VInv, [Next]_vars
    PROVE  VInv' /\ [Set!Next]_<<Elements(m_container), Asked>>
<1>1. ASSUME NEW r \in Ranges, insert_range(r)
      PROVE  VInv' /\ Set!Ask
  <2>1. /\ call = Idle /\ call' = [does |-> "insert", with |-> r]
        /\ r # <<>> /\ r \in Seq(Values)
        /\ UNCHANGED <<m_container, allocated, turned, crashed>>
    BY <1>1, VectorAssumption DEF VectorAssumption, insert_range, Begin, Free
  <2>2. Elements(r) \subseteq Values
    BY <2>1, HeadAndTail
  <2>3. Asked = {} /\ Asked' = Elements(r)
    BY <2>1 DEF Asked, Idle
  <2>4. call' \in Call /\ CallHasWork'
    BY <2>1 DEF Call, CallHasWork
  <2>5. TypeOK' /\ SortedAndUnique' /\ EmptyWithoutMemory'
    BY <2>1, <2>4 DEF VInv, TypeOK, SortedAndUnique, EmptyWithoutMemory
  <2> QED  BY <2>1, <2>2, <2>3, <2>4, <2>5 DEF VInv, Set!Ask
<1>2. ASSUME NEW v \in Values, erase(v)
      PROVE  VInv' /\ UNCHANGED <<Elements(m_container), Asked>>
  <2>1. /\ call = Idle /\ call' = [does |-> "erase", with |-> <<v>>]
        /\ UNCHANGED <<m_container, allocated, turned, crashed>>
    BY <1>2 DEF erase, Begin, Free
  <2>2. Asked = {} /\ Asked' = {}
    BY <2>1 DEF Asked, Idle
  <2>3. call' \in Call /\ CallHasWork'
    BY <2>1 DEF Call, CallHasWork
  <2>4. TypeOK' /\ SortedAndUnique' /\ EmptyWithoutMemory'
    BY <2>1, <2>3 DEF VInv, TypeOK, SortedAndUnique, EmptyWithoutMemory
  <2> QED  BY <2>1, <2>2, <2>3, <2>4 DEF VInv
<1>3. ASSUME EraseOne
      PROVE  VInv' /\ [Set!Next]_<<Elements(m_container), Asked>>
  <2>1. /\ call.does = "erase" /\ Asked = {}
        /\ UNCHANGED <<allocated, turned, crashed>>
    BY <1>3 DEF EraseOne, Asked
  <2>2. CASE Head(call.with) \in Elements(m_container)
    <3>1. PICK i \in 1 .. Len(m_container) : m_container' = Without(m_container, i, i + 1)
      BY <1>3, <2>2 DEF EraseOne
    <3>2. call' = call
      BY <1>3, <2>2 DEF EraseOne
    <3>3. call' \in Call /\ CallHasWork' /\ Asked' = {}
      BY <2>1, <3>2 DEF VInv, TypeOK, CallHasWork, Asked
    <3>4. i \in Int /\ i + 1 \in Int /\ 1 <= i /\ i <= i + 1 /\ i + 1 <= Len(m_container) + 1
      <4>1. Len(m_container) \in Nat
        BY DEF VInv, TypeOK
      <4> QED  BY <4>1
    <3>5. VInv' /\ Set!Remove
      BY <2>1, <3>1, <3>3, <3>4, RemoveStep
    <3> QED  BY <3>5 DEF Set!Next
  <2>3. CASE Head(call.with) \notin Elements(m_container)
    <3>1. Handled /\ m_container' = m_container
      BY <1>3, <2>3 DEF EraseOne
    <3>2. call' \in Call /\ CallHasWork' /\ Asked' \in {Asked, Asked \ {Head(call.with)}}
      BY <2>1, <3>1, HandledStep
    <3>3. Asked' = {}
      BY <2>1, <3>2
    <3>4. TypeOK' /\ SortedAndUnique' /\ EmptyWithoutMemory'
      BY <2>1, <3>1, <3>2 DEF VInv, TypeOK, SortedAndUnique, EmptyWithoutMemory
    <3> QED  BY <2>1, <3>1, <3>2, <3>3, <3>4 DEF VInv
  <2> QED  BY <2>2, <2>3
<1>4. ASSUME NEW first \in 1 .. MaxLen + 1, NEW last \in 1 .. MaxLen + 1,
             erase_range(first, last)
      PROVE  VInv' /\ Set!Remove
  <2>1. /\ call = Idle /\ call' = call /\ UNCHANGED <<allocated, turned, crashed>>
        /\ first <= last /\ last <= Len(m_container) + 1
        /\ m_container' = Without(m_container, first, last)
    BY <1>4 DEF erase_range, Free
  <2>2. call' \in Call /\ CallHasWork' /\ Asked' = {} /\ Asked = {}
    BY <2>1 DEF VInv, TypeOK, CallHasWork, Asked, Idle
  <2>3. first \in Int /\ last \in Int /\ 1 <= first
    OBVIOUS
  <2> QED  BY <2>1, <2>2, <2>3, RemoveStep
<1>5. ASSUME pop_back PROVE VInv' /\ (Set!Remove \/ Set!Crash)
  <2>1. /\ call = Idle /\ call' = call /\ UNCHANGED <<allocated, turned>>
    BY <1>5 DEF pop_back, Free
  <2>2. call' \in Call /\ CallHasWork' /\ Asked' = {} /\ Asked = {}
    BY <2>1 DEF VInv, TypeOK, CallHasWork, Asked, Idle
  <2>3. CASE m_container = <<>>
    <3>1. crashed' = TRUE /\ m_container' = m_container
      BY <1>5, <2>3 DEF pop_back
    <3>2. TypeOK' /\ SortedAndUnique' /\ EmptyWithoutMemory'
      BY <2>1, <2>2, <3>1 DEF VInv, TypeOK, SortedAndUnique, EmptyWithoutMemory
    <3> QED  BY <2>2, <3>1, <3>2 DEF VInv, Set!Crash
  <2>4. CASE m_container # <<>>
    <3> DEFINE k == Len(m_container)
    <3>1. m_container' = Without(m_container, k, k + 1) /\ crashed' = crashed
      BY <1>5, <2>4 DEF pop_back
    <3>2. m_container \in Seq(Values)
      BY DEF VInv, TypeOK
    <3>3. k \in Int /\ k + 1 \in Int /\ 1 <= k /\ k <= k + 1 /\ k + 1 <= Len(m_container) + 1
      BY <2>4, <3>2
    <3> QED  BY <2>1, <2>2, <3>1, <3>3, RemoveStep
  <2> QED  BY <2>3, <2>4
<1>6. ASSUME clear \/ reserve \/ copy
      PROVE  VInv' /\ Set!Remove
  <2>1. /\ call = Idle /\ call' = call /\ crashed' = crashed
        /\ m_container' \in {m_container, <<>>}
        /\ turned' \in BOOLEAN /\ allocated' \in BOOLEAN
        /\ turned' = turned \/ m_container' = <<>>
        /\ m_container' = <<>> \/ allocated' \/ (allocated' = allocated)
    BY <1>6 DEF clear, reserve, copy, Free, VInv, TypeOK
  <2>2. call' \in Call /\ CallHasWork' /\ Asked' = {} /\ Asked = {}
    BY <2>1 DEF VInv, TypeOK, CallHasWork, Asked, Idle
  <2>3. m_container \in Seq(Values) /\ (~turned => Ascending(m_container))
    BY DEF VInv, TypeOK, SortedAndUnique
  <2>4. /\ m_container' \in Seq(Values)
        /\ Elements(m_container') \subseteq Elements(m_container)
        /\ ~turned' => Ascending(m_container')
    <3>1. Ascending(<<>>) /\ Elements(<<>>) = {} /\ <<>> \in Seq(Values)
      BY DEF Ascending, Elements
    <3>2. CASE m_container' = <<>>
      BY <3>1, <3>2
    <3>3. CASE m_container' = m_container /\ turned' = turned
      BY <2>3, <3>3
    <3> QED  BY <2>1, <3>2, <3>3
  <2>5. TypeOK' /\ SortedAndUnique'
    BY <2>1, <2>2, <2>4 DEF VInv, TypeOK, SortedAndUnique
  <2>6. EmptyWithoutMemory'
    BY <2>1 DEF VInv, EmptyWithoutMemory
  <2> QED  BY <2>2, <2>4, <2>5, <2>6 DEF VInv, Set!Remove
<1>7. ASSUME UNCHANGED vars
      PROVE  VInv' /\ UNCHANGED <<Elements(m_container), Asked>>
  BY <1>7 DEF vars, VInv, TypeOK, SortedAndUnique, EmptyWithoutMemory, CallHasWork, Asked
<1>8. ASSUME NEW v \in Values, insert(v)
      PROVE  VInv' /\ (Set!Take \/ Set!Crash)
  BY <1>8, InsertStep
<1>9. CASE Next
  BY <1>1, <1>2, <1>3, <1>4, <1>5, <1>6, <1>8, <1>9, TurningStep DEF Next, Set!Next
<1> QED  BY <1>7, <1>9

-----------------------------------------------------------------------------
LEMMA InitLemma == Init => VInv /\ Set!Init
<1>1. Elements(<<>>) = {} /\ Ascending(<<>>) /\ <<>> \in Seq(Values)
  BY DEF Elements, Ascending
<1>2. Idle \in Call
  BY DEF Idle, Call
<1>3. ASSUME Init PROVE VInv /\ Set!Init
  <2>1. m_container = <<>> /\ allocated = FALSE /\ call = Idle /\ turned = FALSE
        /\ crashed = FALSE
    BY <1>3 DEF Init
  <2>2. TypeOK
    BY <1>1, <1>2, <2>1 DEF TypeOK
  <2>3. SortedAndUnique
    BY <1>1, <2>1 DEF SortedAndUnique
  <2>4. EmptyWithoutMemory
    BY <2>1 DEF EmptyWithoutMemory
  <2>5. call.does = "nothing"
    BY <2>1 DEF Idle
  <2>6. Asked = {} /\ CallHasWork
    BY <2>5 DEF Asked, CallHasWork
  <2>7. Elements(m_container) = {}
    BY <1>1, <2>1
  <2> QED  BY <2>2, <2>3, <2>4, <2>6, <2>7 DEF VInv, Set!Init
<1> QED  BY <1>3

THEOREM Invariance == Spec => []VInv
<1>1. Init => VInv
  BY InitLemma
<1>2. VInv /\ [Next]_vars => VInv'
  BY EveryStep
<1> QED  BY <1>1, <1>2, PTL DEF Spec

\* Every reachable state is well-typed: whatever is read past the end, no call
\* puts anything into the vector (lines 240 to 290) that it was not given.
THEOREM TypeCorrect == Spec => []TypeOK
<1>1. VInv => TypeOK
  BY DEF VInv
<1> QED  BY <1>1, Invariance, PTL

\* "This container is always sorted", for any values and any sequence of calls,
\* until one of them reverses it or makes it grow.
THEOREM StaysSortedAndUnique == Spec => []SortedAndUnique
<1>1. VInv => SortedAndUnique
  BY DEF VInv
<1> QED  BY <1>1, Invariance, PTL

\* unique_vector implements the set of UniqueSet.
THEOREM ImplementsSet == Spec => SetSpec
<1>1. Init => Set!Init
  BY InitLemma
<1>2. VInv /\ [Next]_vars => [Set!Next]_<<Elements(m_container), Asked>>
  BY EveryStep
<1> QED  BY <1>1, <1>2, Invariance, PTL DEF Spec, SetSpec, Set!Spec

\* What a step does while an insertion runs.
LEMMA InsertingStep ==
    ASSUME VInv, [Next]_vars, call.does = "insert", call' # call
    PROVE  \E v \in Values : insert(v)
<1>1. call # Idle
  BY DEF Idle
<1>2. ~Free
  BY <1>1 DEF Free
<1> QED
  BY <1>2 DEF Next, vars, insert_range, erase, Begin, EraseOne, erase_range, pop_back,
     clear, reverse, reserve, copy, resize

\* A value that an insertion into an ordered vector loses is greater than all it
\* holds, for any values: reading *end() (line 260) can go wrong in no other way.
THEOREM OnlyTheGreatestIsEverLost == Spec => OnlyTheGreatestIsLost
<1> DEFINE v == Head(call.with)
           Lost == ~turned /\ call.does = "insert" /\ ~crashed' /\ call' # call
                   => v \in Elements(m_container') \/ \A e \in Elements(m_container) : e < v
<1>1. ASSUME VInv, [Next]_vars PROVE Lost
  <2>1. SUFFICES ASSUME ~turned, call.does = "insert", ~crashed', call' # call
                 PROVE  v \in Elements(m_container') \/ \A e \in Elements(m_container) : e < v
    OBVIOUS
  <2>2. v \in Values /\ insert(v)
    <3>1. PICK w \in Values : insert(w)
      BY <1>1, <2>1, InsertingStep
    <3> QED  BY <3>1 DEF insert
  <2>3. m_container \in Seq(Values) /\ Ascending(m_container)
    BY <1>1, <2>1 DEF VInv, TypeOK, SortedAndUnique
  <2> HIDE DEF v
  <2>4. PICK p \in LowerBounds(m_container, v) :
           IF p > Len(m_container) THEN ReadPastEnd(v) ELSE Emplace(p, v)
    BY <2>2 DEF insert
  <2>5. CASE p > Len(m_container)
    BY <2>2, <2>3, <2>5, AppendKeepsOrder
  <2>6. CASE ~(p > Len(m_container))
    <3>1. p \in 1 .. Len(m_container)
      BY <2>3, <2>4, <2>6 DEF LowerBounds
    <3>2. m_container' = IF m_container[p] = v THEN m_container
                         ELSE InsertBefore(m_container, p, v)
      BY <2>4, <2>6 DEF Emplace
    <3>3. Elements(InsertBefore(m_container, p, v)) = Elements(m_container) \cup {v}
      <4>1. p <= Len(m_container)
        BY <3>1
      <4> QED  BY <2>2, <2>3, <4>1, InsertKeepsOrder
    <3>4. m_container[p] \in Elements(m_container)
      BY <3>1 DEF Elements
    <3> QED  BY <3>2, <3>3, <3>4
  <2> QED  BY <2>5, <2>6
<1>2. VInv /\ [Next]_vars => [Lost]_vars
  BY <1>1
<1> QED  BY <1>2, Invariance, PTL DEF Spec, OnlyTheGreatestIsLost

\* The first value inserted where nothing was reserved ends the process: there is
\* no *end() to read.
THEOREM FirstInsertAlwaysCrashes == Spec => FirstInsertCrashes
<1> DEFINE First == ~allocated /\ call.does = "insert" /\ call' # call => crashed'
<1>1. ASSUME VInv, [Next]_vars PROVE First
  <2>1. SUFFICES ASSUME ~allocated, call.does = "insert", call' # call PROVE crashed'
    OBVIOUS
  <2>2. PICK v \in Values : insert(v)
    BY <1>1, <2>1, InsertingStep
  <2>3. m_container = <<>>
    BY <1>1, <2>1 DEF VInv, EmptyWithoutMemory
  <2>4. PICK p \in LowerBounds(m_container, v) :
           IF p > Len(m_container) THEN ReadPastEnd(v) ELSE Emplace(p, v)
    BY <2>2 DEF insert
  <2>5. p > Len(m_container)
    BY <2>3, <2>4 DEF LowerBounds
  <2> QED  BY <2>1, <2>4, <2>5 DEF ReadPastEnd
<1>2. VInv /\ [Next]_vars => [First]_vars
  BY <1>1
<1> QED  BY <1>2, Invariance, PTL DEF Spec, FirstInsertCrashes

=============================================================================
