--------------------------- MODULE HelpersProofs ---------------------------
(***************************************************************************)
(* What the pure helpers compute for every input: get_tokens cuts a text   *)
(* into its runs, parse_human_time never finds a duration and throws on    *)
(* exactly one kind of text, and join_with_limit keeps every string it can *)
(* show and opens a new slice only where one string more does not fit.     *)
(***************************************************************************)
EXTENDS HumanTime, JoinWithLimit, WellFoundedInduction, SequenceTheorems, TLAPS

-----------------------------------------------------------------------------
(* Induction over a range of numbers, from the well-foundedness of <, and  *)
(* what functions defined by recursion over such a range compute.          *)

\* A set of natural numbers that is not empty has a least element.
LEMMA Least ==
    ASSUME NEW T, T \subseteq Nat, T # {}
    PROVE  \E x \in T : \A y \in T : x <= y
<1>1. PICK R : R = OpToRel(<, Nat)
  OBVIOUS
<1>2. IsWellFoundedOn(R, Nat)
  BY <1>1, NatLessThanWellFounded
<1>3. R = {ss \in Nat \X Nat : ss[1] < ss[2]}
  BY <1>1 DEF OpToRel
<1>4. PICK x \in T : \A y \in T : ~(<<y, x>> \in R)
  BY <1>2, WFMin
<1>5. ASSUME NEW y \in T PROVE x <= y
  <2>1. x \in Nat /\ y \in Nat
    OBVIOUS
  <2>2. <<y, x>> \in Nat \X Nat /\ <<y, x>>[1] = y /\ <<y, x>>[2] = x
    BY <2>1
  <2>3. ~(y < x)
    BY <1>3, <1>4, <2>2
  <2> QED BY <2>1, <2>3
<1> QED BY <1>5

\* What holds at a, and at n whenever at n - 1, holds from a on.
LEMMA Induction ==
    ASSUME NEW a \in Nat, NEW c \in Nat, c = a + 1, NEW b \in Nat,
           NEW T, a \in T, \A n \in c .. b : n - 1 \in T => n \in T
    PROVE  \A n \in a .. b : n \in T
<1> SUFFICES ASSUME (a .. b) \ T # {} PROVE FALSE
  OBVIOUS
<1>1. PICK x \in (a .. b) \ T : \A y \in (a .. b) \ T : x <= y
  BY Least, (a .. b) \ T \subseteq Nat
<1>2. x # a
  BY <1>1
<1>3. x \in c .. b /\ x - 1 \in T
  BY <1>1, <1>2
<1> QED BY <1>1, <1>3

\* A recursion from a value b at a, by a step g from c = a + 1 on up to m; and
\* the functions it defines.
IsRecursion(S, a, c, m, b, g) ==
    /\ a \in Nat /\ c = a + 1 /\ m \in Nat /\ a <= m
    /\ b \in S /\ g \in [(c .. m) \X S -> S]

Builds(S, a, c, m, b, g, f) ==
    /\ f \in [a .. m -> S]
    /\ f[a] = b
    /\ \A k \in c .. m : f[k] = g[<<k, f[k - 1]>>]

\* Every recursion defines a function.
LEMMA Recursion ==
    ASSUME NEW S, NEW a, NEW c, NEW m, NEW b, NEW g, IsRecursion(S, a, c, m, b, g)
    PROVE  \E f : Builds(S, a, c, m, b, g, f)
<1>0. /\ a \in Nat /\ c = a + 1 /\ m \in Nat /\ a <= m
      /\ b \in S /\ g \in [(c .. m) \X S -> S]
  BY DEF IsRecursion
<1> USE <1>0
<1> DEFINE Built(n) == \E f \in [a .. n -> S] :
              f[a] = b /\ \A k \in c .. n : f[k] = g[<<k, f[k - 1]>>]
<1> DEFINE T == {n \in a .. m : Built(n)}
<1>1. a \in T
  <2> DEFINE h == [k \in a .. a |-> b]
  <2>1. h \in [a .. a -> S] /\ h[a] = b
    OBVIOUS
  <2>2. \A k \in c .. a : h[k] = g[<<k, h[k - 1]>>]
    OBVIOUS
  <2> HIDE DEF h
  <2>3. Built(a)
    BY <2>1, <2>2
  <2> QED BY <2>3
<1>2. ASSUME NEW n \in c .. m, n - 1 \in T PROVE n \in T
  <2>1. PICK f \in [a .. n - 1 -> S] :
           f[a] = b /\ \A k \in c .. n - 1 : f[k] = g[<<k, f[k - 1]>>]
    BY <1>2
  <2> DEFINE h == [k \in a .. n |-> IF k = n THEN g[<<n, f[n - 1]>>] ELSE f[k]]
  <2>2. f[n - 1] \in S
    OBVIOUS
  <2>3. g[<<n, f[n - 1]>>] \in S
    BY <2>2
  <2>4. h \in [a .. n -> S]
    BY <2>3
  <2>5. h[a] = b
    BY <2>1
  <2>6. ASSUME NEW k \in c .. n PROVE h[k] = g[<<k, h[k - 1]>>]
    <3>1. CASE k = n
      <4>1. h[k] = g[<<n, f[n - 1]>>] /\ h[n - 1] = f[n - 1]
        BY <3>1
      <4> QED  BY <3>1, <4>1
    <3>2. CASE k \in c .. n - 1
      <4>1. h[k] = f[k] /\ h[k - 1] = f[k - 1] /\ f[k] = g[<<k, f[k - 1]>>]
        BY <2>1, <3>2
      <4> QED  BY <4>1
    <3> QED  BY <3>1, <3>2
  <2> HIDE DEF h
  <2>7. Built(n)
    BY <2>4, <2>5, <2>6
  <2> QED BY <2>7
<1>3. m \in T
  <2> HIDE DEF T
  <2>1. \A n \in a .. m : n \in T
    BY <1>1, <1>2, Induction
  <2> QED BY <2>1
<1> QED BY <1>3 DEF Builds

\* f[k] is the first k of the m sequences, put together.
Flattens(S, seqs, m, f) ==
    /\ f \in [1 .. m -> Seq(S)]
    /\ f[1] = seqs[1]
    /\ \A k \in 2 .. m : f[k] = f[k - 1] \o seqs[k]
    /\ FlattenSeq(seqs) = f[m]

\* FlattenSeq is such a recursion.
LEMMA FlattenFunction ==
    ASSUME NEW S, NEW seqs \in Seq(Seq(S)), seqs # <<>>
    PROVE  \E f : Flattens(S, seqs, Len(seqs), f)
<1>0. PICK m \in Nat : m = Len(seqs) /\ 1 <= m /\ \A k \in 1 .. m : seqs[k] \in Seq(S)
  <2>1. Len(seqs) \in Nat /\ 1 <= Len(seqs) /\ \A k \in 1 .. Len(seqs) : seqs[k] \in Seq(S)
    OBVIOUS
  <2> QED  BY <2>1
<1> DEFINE Eq(f) == f = [j \in 1 .. m |-> IF j = 1 THEN seqs[j] ELSE f[j - 1] \o seqs[j]]
<1>1. PICK g : g = [p \in (2 .. m) \X Seq(S) |-> p[2] \o seqs[p[1]]]
  OBVIOUS
<1>a. \A p \in (2 .. m) \X Seq(S) : p[2] \o seqs[p[1]] \in Seq(S)
  BY <1>0, ConcatProperties
<1>b. g \in [(2 .. m) \X Seq(S) -> Seq(S)]
  BY <1>1, <1>a
<1>2. PICK f \in [1 .. m -> Seq(S)] :
         f[1] = seqs[1] /\ \A k \in 2 .. m : f[k] = g[<<k, f[k - 1]>>]
  <2>1. PICK V, b : V = Seq(S) /\ b = seqs[1] /\ b \in V
    BY <1>0
  <2>2. IsRecursion(V, 1, 2, m, b, g)
    BY <1>0, <1>b, <2>1 DEF IsRecursion
  <2>3. PICK f : Builds(V, 1, 2, m, b, g, f)
    BY <2>2, Recursion
  <2> QED  BY <2>1, <2>3 DEF Builds
<1>3. ASSUME NEW k \in 2 .. m PROVE f[k] = f[k - 1] \o seqs[k]
  <2>1. k \in 2 .. m /\ k - 1 \in 1 .. m
    BY <1>0
  <2>2. <<k, f[k - 1]>> \in (2 .. m) \X Seq(S)
    BY <2>1
  <2> QED BY <1>1, <1>2, <2>1, <2>2
<1>4. Eq(f)
  <2> DEFINE h == [j \in 1 .. m |-> IF j = 1 THEN seqs[j] ELSE f[j - 1] \o seqs[j]]
  <2>1. \A j \in 1 .. m : j = 1 \/ j \in 2 .. m
    BY <1>0
  <2>2. \A j \in 1 .. m : f[j] = h[j]
    BY <1>2, <1>3, <2>1
  <2>3. f = [j \in 1 .. m |-> f[j]] /\ h = [j \in 1 .. m |-> h[j]]
    OBVIOUS
  <2> HIDE DEF h
  <2>4. f = h
    BY <2>2, <2>3
  <2> QED BY <2>4 DEF h
<1>5. PICK h : Eq(h) /\ FlattenSeq(seqs) = h[m]
  <2> DEFINE h == CHOOSE h : Eq(h)
  <2>1. Eq(h)
    BY <1>4
  <2>2. FlattenSeq(seqs) = h[m]
    BY <1>0 DEF FlattenSeq
  <2> HIDE DEF h
  <2> QED BY <2>1, <2>2
<1>6. h[m] = f[m]
  <2>0. PICK T : T = {k \in 1 .. m : h[k] = f[k]}
    OBVIOUS
  <2>1. 1 \in T
    BY <1>5, <1>2, <1>0, <2>0
  <2>2. ASSUME NEW n \in 2 .. m, n - 1 \in T PROVE n \in T
    <3>1. n \in 2 .. m /\ n \in 1 .. m /\ n # 1
      BY <1>0
    <3>2. h[n - 1] = f[n - 1]
      BY <2>0, <2>2
    <3>3. h[n] = h[n - 1] \o seqs[n]
      BY <1>5, <3>1
    <3>4. f[n] = f[n - 1] \o seqs[n]
      BY <1>3, <3>1
    <3>5. h[n] = f[n]
      BY <3>2, <3>3, <3>4
    <3> QED BY <2>0, <3>1, <3>5
  <2>3. \A n \in 1 .. m : n \in T
    BY <1>0, <2>1, <2>2, Induction, 1 \in Nat, 2 \in Nat, 2 = 1 + 1
  <2> QED BY <2>0, <2>3, <1>0
<1>7. f[1] = seqs[1] /\ (\A k \in 2 .. m : f[k] = f[k - 1] \o seqs[k]) /\ FlattenSeq(seqs) = f[m]
  BY <1>2, <1>3, <1>5, <1>6
<1> QED BY <1>0, <1>7 DEF Flattens
\* Flattening one sequence more.
LEMMA FlattenAppend ==
    ASSUME NEW S, NEW seqs \in Seq(Seq(S)), NEW s \in Seq(S)
    PROVE  /\ FlattenSeq(seqs) \in Seq(S)
           /\ FlattenSeq(Append(seqs, s)) = FlattenSeq(seqs) \o s
<1>0. PICK m \in Nat, n \in Nat, ss \in Seq(Seq(S)) :
         /\ m = Len(seqs) /\ n = m + 1 /\ n - 1 = m
         /\ ss = Append(seqs, s) /\ Len(ss) = n /\ ss # <<>>
         /\ \A k \in 1 .. m : ss[k] = seqs[k]
         /\ ss[n] = s
  <2>1. /\ Len(seqs) \in Nat /\ Append(seqs, s) \in Seq(Seq(S))
        /\ Len(Append(seqs, s)) = Len(seqs) + 1 /\ Append(seqs, s) # <<>>
        /\ \A k \in 1 .. Len(seqs) : Append(seqs, s)[k] = seqs[k]
        /\ Append(seqs, s)[Len(seqs) + 1] = s
    BY AppendProperties
  <2>2. /\ Len(seqs) + 1 \in Nat /\ Len(seqs) + 1 - 1 = Len(seqs)
    BY <2>1
  <2> WITNESS Len(seqs) \in Nat, Len(seqs) + 1 \in Nat, Append(seqs, s) \in Seq(Seq(S))
  <2> QED  BY <2>1, <2>2
<1>1. PICK h \in [1 .. n -> Seq(S)] :
         /\ h[1] = ss[1]
         /\ \A k \in 2 .. n : h[k] = h[k - 1] \o ss[k]
         /\ FlattenSeq(ss) = h[n]
  <2>1. PICK h : Flattens(S, ss, Len(ss), h)
    BY FlattenFunction, <1>0
  <2> QED  BY <1>0, <2>1 DEF Flattens
<1>2. CASE m = 0
  <2>1. seqs = <<>> /\ FlattenSeq(seqs) = <<>>
    BY <1>0, <1>2 DEF FlattenSeq
  <2>2. FlattenSeq(ss) = s
    BY <1>0, <1>1, <1>2
  <2>3. <<>> \in Seq(S) /\ <<>> \o s = s
    BY EmptySeq, ConcatEmptySeq
  <2> QED  BY <1>0, <2>1, <2>2, <2>3
<1>3. CASE m # 0
  <2>1. PICK f \in [1 .. m -> Seq(S)] :
           /\ f[1] = seqs[1]
           /\ \A k \in 2 .. m : f[k] = f[k - 1] \o seqs[k]
           /\ FlattenSeq(seqs) = f[m]
    <3>1. PICK f : Flattens(S, seqs, Len(seqs), f)
      BY FlattenFunction, <1>0, <1>3
    <3> QED  BY <1>0, <3>1 DEF Flattens
  <2>2. PICK T : T = {k \in 1 .. m : h[k] = f[k]}
    OBVIOUS
  <2>3. 1 \in T
    BY <1>0, <1>1, <1>3, <2>1, <2>2
  <2>4. ASSUME NEW k \in 2 .. m, k - 1 \in T PROVE k \in T
    <3>1. k \in 2 .. m /\ k \in 1 .. m /\ k \in 2 .. n
      BY <1>0
    <3>2. h[k] = h[k - 1] \o seqs[k] /\ f[k] = f[k - 1] \o seqs[k] /\ h[k - 1] = f[k - 1]
      BY <1>0, <1>1, <2>1, <2>2, <2>4, <3>1
    <3> QED  BY <2>2, <3>1, <3>2
  <2>5. \A k \in 1 .. m : k \in T
    BY <2>3, <2>4, Induction, 1 \in Nat, 2 \in Nat, 2 = 1 + 1
  <2>6. h[m] = f[m] /\ h[n] = h[m] \o s
    <3>1. m \in 1 .. m /\ n \in 2 .. n
      BY <1>0, <1>3
    <3> QED  BY <1>0, <1>1, <2>2, <2>5, <3>1
  <2>7. f[m] \in Seq(S)
    BY <1>3, <2>1
  <2> QED  BY <1>0, <1>1, <2>1, <2>6, <2>7
<1> QED  BY <1>2, <1>3

\* Appending to the second of two sequences appends to the whole.
LEMMA ConcatAppend ==
    ASSUME NEW S, NEW s \in Seq(S), NEW t \in Seq(S), NEW e \in S
    PROVE  s \o Append(t, e) = Append(s \o t, e)
<1>1. <<e>> \in Seq(S) /\ Append(t, e) = t \o <<e>>
  BY AppendIsConcat
<1>2. s \o t \in Seq(S)
  BY ConcatProperties
<1>3. Append(s \o t, e) = (s \o t) \o <<e>>
  BY <1>2, AppendIsConcat
<1>4. (s \o t) \o <<e>> = s \o (t \o <<e>>)
  BY <1>1, ConcatAssociative
<1> QED  BY <1>1, <1>3, <1>4

\* Appending keeps the first element.
LEMMA AppendFirst ==
    ASSUME NEW S, NEW s \in Seq(S), NEW e \in S
    PROVE  Append(s, e) # <<>> /\ (s # <<>> => Append(s, e)[1] = s[1])
<1>1. s # <<>> => 1 \in 1 .. Len(s)
  BY EmptySeq
<1>2. Append(s, e) # <<>> /\ \A k \in 1 .. Len(s) : Append(s, e)[k] = s[k]
  BY AppendProperties
<1> QED  BY <1>1, <1>2

-----------------------------------------------------------------------------
(* join_with_limit.                                                        *)

\* sum[k] is the length of the first k strings of a slice.
Sums(list, slice, m, sum) ==
    /\ sum \in [0 .. m -> Nat]
    /\ sum[0] = 0
    /\ \A k \in 1 .. m : sum[k] = sum[k - 1] + list[slice[k]]
    /\ Total(list, slice) = sum[m]

\* Total is such a recursion.
LEMMA TotalFunction ==
    ASSUME NEW list \in Seq(Nat), NEW slice \in Seq(1 .. Len(list))
    PROVE  \E sum : Sums(list, slice, Len(slice), sum)
<1>0. PICK m \in Nat : m = Len(slice) /\ 0 <= m /\ \A k \in 1 .. m : list[slice[k]] \in Nat
  <2>1. Len(slice) \in Nat /\ \A k \in 1 .. Len(slice) : slice[k] \in 1 .. Len(list)
    OBVIOUS
  <2>2. \A k \in 1 .. Len(slice) : list[slice[k]] \in Nat
    BY <2>1
  <2> QED  BY <2>1, <2>2
<1> DEFINE Eq(f) == f = [k \in 0 .. m |-> IF k = 0 THEN 0 ELSE f[k - 1] + list[slice[k]]]
<1>1. PICK g : g = [p \in (1 .. m) \X Nat |-> p[2] + list[slice[p[1]]]]
  OBVIOUS
<1>2. g \in [(1 .. m) \X Nat -> Nat]
  <2>1. \A p \in (1 .. m) \X Nat : p[2] + list[slice[p[1]]] \in Nat
    BY <1>0
  <2> QED  BY <1>1, <2>1
<1>3. PICK f : Builds(Nat, 0, 1, m, 0, g, f)
  <2>1. IsRecursion(Nat, 0, 1, m, 0, g)
    BY <1>0, <1>2 DEF IsRecursion
  <2> QED  BY <2>1, Recursion
<1>4. f \in [0 .. m -> Nat] /\ f[0] = 0
  BY <1>3 DEF Builds
<1>5. ASSUME NEW k \in 1 .. m PROVE f[k] = f[k - 1] + list[slice[k]]
  <2>0. k - 1 \in 0 .. m
    BY <1>0
  <2>1. <<k, f[k - 1]>> \in (1 .. m) \X Nat
    BY <1>4, <2>0
  <2>2. f[k] = g[<<k, f[k - 1]>>]
    BY <1>3 DEF Builds
  <2> QED  BY <1>1, <2>1, <2>2
<1>6. Eq(f)
  <2> DEFINE h == [k \in 0 .. m |-> IF k = 0 THEN 0 ELSE f[k - 1] + list[slice[k]]]
  <2>1. \A k \in 0 .. m : k = 0 \/ k \in 1 .. m
    BY <1>0
  <2>2. \A k \in 0 .. m : f[k] = h[k]
    BY <1>4, <1>5, <2>1
  <2>3. f = [k \in 0 .. m |-> f[k]] /\ h = [k \in 0 .. m |-> h[k]]
    BY <1>4
  <2> HIDE DEF h
  <2>4. f = h
    BY <2>2, <2>3
  <2> QED  BY <2>4 DEF h
<1>7. PICK h : Eq(h) /\ Total(list, slice) = h[m]
  <2> DEFINE h == CHOOSE h : Eq(h)
  <2>1. Eq(h)
    BY <1>6
  <2>2. Total(list, slice) = h[m]
    BY <1>0 DEF Total
  <2> HIDE DEF h
  <2> QED  BY <2>1, <2>2
<1>8. \A k \in 0 .. m : h[k] = f[k]
  <2>0. PICK T : T = {k \in 0 .. m : h[k] = f[k]}
    OBVIOUS
  <2>1. 0 \in T
    BY <1>7, <1>4, <1>0, <2>0
  <2>2. ASSUME NEW k \in 1 .. m, k - 1 \in T PROVE k \in T
    <3>1. k \in 0 .. m /\ k # 0
      BY <1>0
    <3>2. h[k - 1] = f[k - 1] /\ h[k] = h[k - 1] + list[slice[k]]
      BY <1>7, <2>0, <2>2, <3>1
    <3> QED  BY <1>5, <2>0, <3>1, <3>2
  <2>3. \A k \in 0 .. m : k \in T
    BY <1>0, <2>1, <2>2, Induction, 0 \in Nat, 1 \in Nat, 1 = 0 + 1
  <2> QED  BY <2>0, <2>3
<1>9. Total(list, slice) = f[m]
  BY <1>0, <1>7, <1>8
<1> QED  BY <1>0, <1>4, <1>5, <1>9 DEF Sums

\* One string more in a slice.
LEMMA TotalAppend ==
    ASSUME NEW list \in Seq(Nat), NEW slice \in Seq(1 .. Len(list)), NEW e \in 1 .. Len(list)
    PROVE  /\ Total(list, slice) \in Nat
           /\ Total(list, Append(slice, e)) = Total(list, slice) + list[e]
<1>0. PICK m \in Nat, n \in Nat, more \in Seq(1 .. Len(list)) :
         /\ m = Len(slice) /\ n = m + 1 /\ n - 1 = m
         /\ more = Append(slice, e) /\ Len(more) = n
         /\ \A k \in 1 .. m : more[k] = slice[k]
         /\ more[n] = e
  <2>1. /\ Len(slice) \in Nat /\ Len(slice) + 1 \in Nat /\ Len(slice) + 1 - 1 = Len(slice)
        /\ Append(slice, e) \in Seq(1 .. Len(list))
        /\ Len(Append(slice, e)) = Len(slice) + 1
        /\ \A k \in 1 .. Len(slice) : Append(slice, e)[k] = slice[k]
        /\ Append(slice, e)[Len(slice) + 1] = e
    BY AppendProperties
  <2> WITNESS Len(slice) \in Nat, Len(slice) + 1 \in Nat, Append(slice, e) \in Seq(1 .. Len(list))
  <2> QED  BY <2>1
<1>1. PICK f : Sums(list, slice, m, f)
  BY <1>0, TotalFunction
<1>2. PICK h : Sums(list, more, n, h)
  BY <1>0, TotalFunction
<1>3. f[0] = h[0]
  BY <1>1, <1>2 DEF Sums
<1>4. ASSUME NEW k \in 1 .. m, f[k - 1] = h[k - 1] PROVE f[k] = h[k]
  <2>1. k \in 1 .. n /\ more[k] = slice[k]
    BY <1>0
  <2>2. f[k] = f[k - 1] + list[slice[k]] /\ h[k] = h[k - 1] + list[more[k]]
    BY <1>1, <1>2, <2>1 DEF Sums
  <2> QED  BY <1>4, <2>1, <2>2
<1>5. \A k \in 0 .. m : f[k] = h[k]
  <2>0. PICK T : T = {k \in 0 .. m : f[k] = h[k]}
    OBVIOUS
  <2>1. 0 \in T
    BY <1>0, <1>3, <2>0
  <2>2. ASSUME NEW k \in 1 .. m, k - 1 \in T PROVE k \in T
    BY <1>0, <1>4, <2>0, <2>2
  <2>3. \A k \in 0 .. m : k \in T
    BY <1>0, <2>1, <2>2, Induction, 0 \in Nat, 1 \in Nat, 1 = 0 + 1
  <2> QED  BY <2>0, <2>3
<1>6. f[m] = h[m] /\ m \in 0 .. m /\ n \in 1 .. n
  BY <1>0, <1>5
<1>7. f[m] \in Nat /\ Total(list, slice) = f[m]
  BY <1>1, <1>6 DEF Sums
<1>8. h[n] = h[n - 1] + list[more[n]] /\ Total(list, more) = h[n]
  BY <1>2, <1>6 DEF Sums
<1> QED  BY <1>0, <1>6, <1>7, <1>8

\* No strings have no length, and one string has its own.
LEMMA TotalOfOne ==
    ASSUME NEW list \in Seq(Nat), NEW e \in 1 .. Len(list)
    PROVE  Total(list, <<>>) = 0 /\ Total(list, <<e>>) = list[e]
<1>1. <<>> \in Seq(1 .. Len(list)) /\ Len(<<>>) = 0
  BY EmptySeq
<1>2. PICK f : Sums(list, <<>>, 0, f)
  BY <1>1, TotalFunction
<1>3. Total(list, <<>>) = 0
  BY <1>2 DEF Sums
<1>4. Append(<<>>, e) = <<e>>
  OBVIOUS
<1>5. Total(list, Append(<<>>, e)) = Total(list, <<>>) + list[e]
  BY <1>1, TotalAppend
<1>6. list[e] \in Nat
  OBVIOUS
<1>7. Total(list, <<e>>) = 0 + list[e]
  BY <1>3, <1>4, <1>5
<1> QED  BY <1>3, <1>6, <1>7

\* places[k] are those of the first k strings that fit into a slice.
Places(list, m, places) ==
    /\ places \in [0 .. m -> Seq(1 .. m)]
    /\ places[0] = <<>>
    /\ \A k \in 1 .. m :
          places[k] = IF list[k] <= length THEN Append(places[k - 1], k) ELSE places[k - 1]
    /\ \A k \in 0 .. m : Showable(list, k) = places[k]

\* Showable is such a recursion.
LEMMA ShowableFunction ==
    ASSUME NEW list \in Seq(Nat)
    PROVE  \E places : Places(list, Len(list), places)
<1>0. PICK m \in Nat : m = Len(list) /\ 0 <= m
  <2>1. Len(list) \in Nat /\ 0 <= Len(list)
    OBVIOUS
  <2> QED  BY <2>1
<1> DEFINE Eq(f) == f = [k \in 0 .. m |->
              IF k = 0 THEN <<>>
              ELSE IF list[k] <= length THEN Append(f[k - 1], k) ELSE f[k - 1]]
<1>1. PICK g : g = [p \in (1 .. m) \X Seq(1 .. m) |->
                       IF list[p[1]] <= length THEN Append(p[2], p[1]) ELSE p[2]]
  OBVIOUS
<1>2. g \in [(1 .. m) \X Seq(1 .. m) -> Seq(1 .. m)]
  <2>1. \A p \in (1 .. m) \X Seq(1 .. m) :
           (IF list[p[1]] <= length THEN Append(p[2], p[1]) ELSE p[2]) \in Seq(1 .. m)
    BY AppendProperties
  <2> QED  BY <1>1, <2>1
<1>3. PICK f \in [0 .. m -> Seq(1 .. m)] :
         f[0] = <<>> /\ \A k \in 1 .. m : f[k] = g[<<k, f[k - 1]>>]
  <2>1. PICK V, b : V = Seq(1 .. m) /\ b = <<>> /\ b \in V
    BY EmptySeq
  <2>2. IsRecursion(V, 0, 1, m, b, g)
    BY <1>0, <1>2, <2>1 DEF IsRecursion
  <2>3. PICK f : Builds(V, 0, 1, m, b, g, f)
    BY <2>2, Recursion
  <2> QED  BY <2>1, <2>3 DEF Builds
<1>5. ASSUME NEW k \in 1 .. m
      PROVE  f[k] = IF list[k] <= length THEN Append(f[k - 1], k) ELSE f[k - 1]
  <2>0. k - 1 \in 0 .. m
    BY <1>0
  <2>1. <<k, f[k - 1]>> \in (1 .. m) \X Seq(1 .. m)
    BY <1>3, <2>0
  <2>2. f[k] = g[<<k, f[k - 1]>>]
    BY <1>3
  <2> QED  BY <1>1, <2>1, <2>2
<1>6. Eq(f)
  <2> DEFINE h == [k \in 0 .. m |->
              IF k = 0 THEN <<>>
              ELSE IF list[k] <= length THEN Append(f[k - 1], k) ELSE f[k - 1]]
  <2>1. \A k \in 0 .. m : k = 0 \/ k \in 1 .. m
    BY <1>0
  <2>2. \A k \in 0 .. m : f[k] = h[k]
    BY <1>3, <1>5, <2>1
  <2>3. f = [k \in 0 .. m |-> f[k]] /\ h = [k \in 0 .. m |-> h[k]]
    BY <1>3
  <2> HIDE DEF h
  <2>4. f = h
    BY <2>2, <2>3
  <2> QED  BY <2>4 DEF h
<1>7. PICK h : Eq(h) /\ \A k \in 0 .. m : Showable(list, k) = h[k]
  <2> DEFINE h == CHOOSE h : Eq(h)
  <2>1. Eq(h)
    BY <1>6
  <2>2. \A k \in 0 .. m : Showable(list, k) = h[k]
    BY <1>0 DEF Showable
  <2> HIDE DEF h
  <2> QED  BY <2>1, <2>2
<1>8. \A k \in 0 .. m : h[k] = f[k]
  <2>0. PICK T : T = {k \in 0 .. m : h[k] = f[k]}
    OBVIOUS
  <2>1. 0 \in T
    BY <1>7, <1>3, <1>0, <2>0
  <2>2. ASSUME NEW k \in 1 .. m, k - 1 \in T PROVE k \in T
    <3>1. k \in 0 .. m /\ k # 0
      BY <1>0
    <3>2. h[k - 1] = f[k - 1] /\ h[k] = IF list[k] <= length THEN Append(h[k - 1], k) ELSE h[k - 1]
      BY <1>7, <2>0, <2>2, <3>1
    <3> QED  BY <1>5, <2>0, <3>1, <3>2
  <2>3. \A k \in 0 .. m : k \in T
    BY <1>0, <2>1, <2>2, Induction, 0 \in Nat, 1 \in Nat, 1 = 0 + 1
  <2> QED  BY <2>0, <2>3
<1>9. \A k \in 0 .. m : Showable(list, k) = f[k]
  BY <1>7, <1>8
<1> QED  BY <1>0, <1>3, <1>5, <1>9 DEF Places

\* One string more of the list.
LEMMA ShowableStep ==
    ASSUME NEW list \in Seq(Nat)
    PROVE  /\ Showable(list, 0) = <<>>
           /\ \A n \in 0 .. Len(list) : Showable(list, n) \in Seq(1 .. Len(list))
           /\ \A n \in 1 .. Len(list) :
                 Showable(list, n) = IF list[n] <= length THEN Append(Showable(list, n - 1), n)
                                     ELSE Showable(list, n - 1)
<1>1. PICK m \in Nat : m = Len(list)
  OBVIOUS
<1>2. PICK f : Places(list, m, f)
  BY <1>1, ShowableFunction
<1>3. Showable(list, 0) = <<>>
  BY <1>2 DEF Places
<1>4. \A n \in 0 .. m : Showable(list, n) \in Seq(1 .. m)
  BY <1>2 DEF Places
<1>5. ASSUME NEW n \in 1 .. m
      PROVE  Showable(list, n) = IF list[n] <= length THEN Append(Showable(list, n - 1), n)
                                 ELSE Showable(list, n - 1)
  <2>1. n \in 0 .. m /\ n - 1 \in 0 .. m
    BY <1>1
  <2>2. Showable(list, n) = f[n] /\ Showable(list, n - 1) = f[n - 1]
    BY <1>2, <2>1 DEF Places
  <2>3. f[n] = IF list[n] <= length THEN Append(f[n - 1], n) ELSE f[n - 1]
    BY <1>2 DEF Places
  <2> QED  BY <2>2, <2>3
<1> QED  BY <1>1, <1>3, <1>4, <1>5

\* What SlicesAreTight says of the slices of a list.
Tight(list, slices) ==
    /\ \A n \in 1 .. Len(slices) : Total(list, slices[n]) <= length
    /\ \A n \in 1 .. Len(slices) - 1 : Total(list, slices[n]) + list[slices[n + 1][1]] + 1 > length
    /\ \A n \in 1 .. Len(slices) :
          slices[n] = <<>> => n = 1 /\ (Len(slices) = 1 \/ list[slices[2][1]] = length)

\* A slice that may follow those handed in.
MayFollow(list, slices, slice) ==
    /\ Total(list, slice) <= length
    /\ slices # <<>> =>
          /\ slice # <<>>
          /\ Total(list, slices[Len(slices)]) + list[slice[1]] + 1 > length
          /\ slices[Len(slices)] = <<>> => list[slice[1]] = length

\* The first n strings are in the slices handed in and the one being filled.
SlicedUp(list, n, slices, slice) ==
    /\ slices \in Seq(Seq(1 .. Len(list))) /\ slice \in Seq(1 .. Len(list))
    /\ FlattenSeq(slices) \o slice = Showable(list, n)
    /\ Tight(list, slices)
    /\ MayFollow(list, slices, slice)

\* What join_with_limit maintains from one string to the next.
JoinInv ==
    /\ JoinTypeOK
    /\ Total(vector, to_send) = current_size
    /\ IF Done THEN NothingLostOrReordered /\ SlicesAreTight
       ELSE SlicedUp(vector, string - 1, result, to_send)

\* Handing in a slice that may follow keeps the slices tight.
LEMMA TightAppend ==
    ASSUME NEW list \in Seq(Nat), NEW slices \in Seq(Seq(1 .. Len(list))),
           NEW slice \in Seq(1 .. Len(list)),
           Tight(list, slices), MayFollow(list, slices, slice)
    PROVE  Tight(list, Append(slices, slice))
<1>0. PICK m \in Nat, more \in Seq(Seq(1 .. Len(list))) :
         /\ m = Len(slices) /\ more = Append(slices, slice) /\ Len(more) = m + 1
         /\ \A k \in 1 .. m : more[k] = slices[k]
         /\ more[m + 1] = slice
  <2>1. /\ Len(slices) \in Nat /\ Append(slices, slice) \in Seq(Seq(1 .. Len(list)))
        /\ Len(Append(slices, slice)) = Len(slices) + 1
        /\ \A k \in 1 .. Len(slices) : Append(slices, slice)[k] = slices[k]
        /\ Append(slices, slice)[Len(slices) + 1] = slice
    BY AppendProperties
  <2> QED  BY <2>1
<1>1. ASSUME NEW n \in 1 .. m + 1 PROVE Total(list, more[n]) <= length
  <2>1. CASE n \in 1 .. m
    BY <1>0, <2>1 DEF Tight
  <2>2. CASE n = m + 1
    BY <1>0, <2>2 DEF MayFollow
  <2> QED  BY <2>1, <2>2, <1>0
<1>2. ASSUME NEW n \in 1 .. m PROVE Total(list, more[n]) + list[more[n + 1][1]] + 1 > length
  <2>1. CASE n \in 1 .. m - 1
    <3>1. more[n] = slices[n] /\ more[n + 1] = slices[n + 1]
      BY <1>0, <2>1
    <3>2. Total(list, slices[n]) + list[slices[n + 1][1]] + 1 > length
      BY <1>0, <2>1 DEF Tight
    <3> QED  BY <3>1, <3>2
  <2>2. CASE n = m
    <3>1. more[n] = slices[m] /\ more[n + 1] = slice /\ slices # <<>>
      BY <1>0, <2>2
    <3>2. Total(list, slices[m]) + list[slice[1]] + 1 > length
      BY <1>0, <3>1 DEF MayFollow
    <3> QED  BY <3>1, <3>2
  <2> QED  BY <2>1, <2>2, <1>0
<1>3. ASSUME NEW n \in 1 .. m + 1, more[n] = <<>>
      PROVE  n = 1 /\ (m + 1 = 1 \/ list[more[2][1]] = length)
  <2>1. CASE n = m + 1
    <3>1. slice = <<>> /\ slices = <<>>
      BY <1>0, <1>3, <2>1 DEF MayFollow
    <3>2. m = 0
      BY <1>0, <3>1
    <3> QED  BY <2>1, <3>2
  <2>2. CASE n \in 1 .. m
    <3>1. slices[n] = <<>> /\ slices # <<>>
      BY <1>0, <1>3, <2>2
    <3>2. n = 1 /\ (m = 1 \/ list[slices[2][1]] = length)
      BY <1>0, <2>2, <3>1 DEF Tight
    <3>3. CASE m = 1
      <4>1. slices[m] = <<>> /\ more[2] = slice
        BY <1>0, <3>1, <3>2, <3>3
      <4>2. list[slice[1]] = length
        BY <1>0, <3>1, <4>1 DEF MayFollow
      <4> QED  BY <3>2, <4>1, <4>2
    <3>4. CASE m # 1
      <4>1. more[2] = slices[2]
        BY <1>0, <2>2, <3>4
      <4> QED  BY <3>2, <3>4, <4>1
    <3> QED  BY <3>3, <3>4
  <2> QED  BY <2>1, <2>2, <1>0
<1>4. Len(more) - 1 = m
  BY <1>0
<1>5. Tight(list, more)
  BY <1>0, <1>1, <1>2, <1>3, <1>4 DEF Tight
<1> QED  BY <1>0, <1>5

\* The last slice makes the list complete.
LEMMA HandInSlice ==
    ASSUME NEW list \in Seq(Nat), NEW slices, NEW slice,
           SlicedUp(list, Len(list), slices, slice)
    PROVE  /\ Append(slices, slice) \in Seq(Seq(1 .. Len(list)))
           /\ FlattenSeq(Append(slices, slice)) = Showable(list, Len(list))
           /\ Tight(list, Append(slices, slice))
<1>1. slices \in Seq(Seq(1 .. Len(list))) /\ slice \in Seq(1 .. Len(list))
  BY DEF SlicedUp
<1>2. FlattenSeq(Append(slices, slice)) = FlattenSeq(slices) \o slice
  BY <1>1, FlattenAppend
<1>3. Tight(list, Append(slices, slice))
  BY <1>1, TightAppend DEF SlicedUp
<1>4. Append(slices, slice) \in Seq(Seq(1 .. Len(list)))
  BY <1>1, AppendProperties
<1> QED  BY <1>2, <1>3, <1>4 DEF SlicedUp

\* A string for which there is room.
LEMMA GatherString ==
    ASSUME NEW list \in Seq(Nat), NEW n \in 1 .. Len(list), NEW slices, NEW slice,
           SlicedUp(list, n - 1, slices, slice), Total(list, slice) + list[n] <= length
    PROVE  SlicedUp(list, n, slices, Append(slice, n))
<1>0. length \in Nat /\ list[n] \in Nat /\ Len(list) \in Nat
  BY LimitAssumption
<1>1. slices \in Seq(Seq(1 .. Len(list))) /\ slice \in Seq(1 .. Len(list))
  BY DEF SlicedUp
<1>2. Append(slice, n) \in Seq(1 .. Len(list)) 
  BY <1>1, AppendProperties
<1>3. Total(list, slice) \in Nat /\ Total(list, Append(slice, n)) = Total(list, slice) + list[n]
  BY <1>1, TotalAppend
<1>4. Showable(list, n) = Append(Showable(list, n - 1), n)
  <2>1. list[n] <= length
    BY <1>0, <1>3
  <2> QED  BY <2>1, ShowableStep
<1>5. FlattenSeq(slices) \o Append(slice, n) = Append(FlattenSeq(slices) \o slice, n)
  <2>1. FlattenSeq(slices) \in Seq(1 .. Len(list))
    BY <1>1, FlattenAppend
  <2>2. PICK S : FlattenSeq(slices) \in Seq(S) /\ slice \in Seq(S) /\ n \in S
    BY <1>1, <2>1
  <2> QED  BY <2>2, ConcatAppend
<1>6. MayFollow(list, slices, Append(slice, n))
  <2>1. Append(slice, n) # <<>> /\ (slice # <<>> => Append(slice, n)[1] = slice[1])
    <3>1. PICK S : slice \in Seq(S) /\ n \in S
      BY <1>1
    <3> QED  BY <3>1, AppendFirst
  <2> QED  BY <1>3, <2>1 DEF SlicedUp, MayFollow
<1> QED  BY <1>1, <1>2, <1>4, <1>5, <1>6 DEF SlicedUp

\* A string that opens a slice of its own.
LEMMA StartWithString ==
    ASSUME NEW list \in Seq(Nat), NEW n \in 1 .. Len(list), NEW slices, NEW slice,
           SlicedUp(list, n - 1, slices, slice),
           list[n] <= length, Total(list, slice) + list[n] + 1 > length
    PROVE  SlicedUp(list, n, Append(slices, slice), <<n>>)
<1>1. slices \in Seq(Seq(1 .. Len(list))) /\ slice \in Seq(1 .. Len(list))
  BY DEF SlicedUp
<1>2. Append(slices, slice) \in Seq(Seq(1 .. Len(list))) /\ <<n>> \in Seq(1 .. Len(list))
  BY <1>1, AppendProperties
<1>3. FlattenSeq(Append(slices, slice)) = FlattenSeq(slices) \o slice
  BY <1>1, FlattenAppend
<1>4. /\ Showable(list, n) = Append(Showable(list, n - 1), n)
      /\ Showable(list, n - 1) \in Seq(1 .. Len(list))
  <2>1. n - 1 \in 0 .. Len(list)
    OBVIOUS
  <2> QED  BY <2>1, ShowableStep
<1>5. FlattenSeq(Append(slices, slice)) \o <<n>> = Showable(list, n)
  BY <1>3, <1>4, AppendIsConcat DEF SlicedUp
<1>6. Tight(list, Append(slices, slice))
  BY <1>1, TightAppend DEF SlicedUp
<1>7. MayFollow(list, Append(slices, slice), <<n>>)
  <2>1. Append(slices, slice)[Len(Append(slices, slice))] = slice
    BY <1>1, AppendProperties
  <2>2. Total(list, <<n>>) = list[n] /\ <<n>> # <<>> /\ <<n>>[1] = n
    BY TotalOfOne
  <2>3. slice = <<>> => list[n] = length
    <3>1. list[n] \in Nat /\ length \in Nat /\ Len(list) \in Nat
      BY LimitAssumption
    <3>2. Total(list, <<>>) = 0
      BY TotalOfOne
    <3> QED  BY <3>1, <3>2
  <2> QED  BY <2>1, <2>2, <2>3 DEF MayFollow
<1> QED  BY <1>2, <1>5, <1>6, <1>7 DEF SlicedUp

\* A string that fits into no slice.
LEMMA DropString ==
    ASSUME NEW list \in Seq(Nat), NEW n \in 1 .. Len(list), NEW slices, NEW slice,
           SlicedUp(list, n - 1, slices, slice), list[n] > length
    PROVE  SlicedUp(list, n, slices, slice)
<1>1. ~(list[n] <= length)
  BY LimitAssumption
<1>2. Showable(list, n) = Showable(list, n - 1)
  BY <1>1, ShowableStep
<1> QED  BY <1>2 DEF SlicedUp

\* Before the first string nothing is gathered.
LEMMA JoinInvInit == JoinInit => JoinInv
<1> SUFFICES ASSUME JoinInit PROVE JoinInv
  OBVIOUS
<1>1. vector \in Seq(Nat) /\ Len(vector) \in Nat /\ length \in Nat \ {0}
  BY LimitAssumption DEF JoinInit
<1>2. <<>> \in Seq(1 .. Len(vector)) /\ <<>> \in Seq(Seq(1 .. Len(vector))) /\ Len(<<>>) = 0
  BY EmptySeq
<1>3. JoinTypeOK
  BY <1>1, <1>2 DEF JoinInit, JoinTypeOK
<1>4. Total(vector, <<>>) = 0
  <2>1. PICK f : Sums(vector, <<>>, 0, f)
    BY <1>1, <1>2, TotalFunction
  <2> QED  BY <2>1 DEF Sums
<1>5. FlattenSeq(<<>>) = <<>> /\ Showable(vector, 0) = <<>>
  BY <1>1, <1>2, ShowableStep DEF FlattenSeq
<1>6. Tight(vector, <<>>) /\ MayFollow(vector, <<>>, <<>>)
  BY <1>1, <1>2, <1>4 DEF Tight, MayFollow
<1>7. CASE Done
  <2>1. Len(vector) = 0
    BY <1>1, <1>7 DEF Done, JoinInit
  <2>2. NothingLostOrReordered
    BY <1>5, <2>1 DEF NothingLostOrReordered, JoinInit
  <2>3. SlicesAreTight
    BY <1>2 DEF SlicesAreTight, JoinInit
  <2> QED  BY <1>3, <1>4, <1>7, <2>2, <2>3 DEF JoinInv, JoinInit
<1>8. CASE ~Done
  <2>1. <<>> \o <<>> = <<>>
    BY <1>2, ConcatEmptySeq
  <2>2. SlicedUp(vector, 0, <<>>, <<>>)
    BY <1>2, <1>5, <1>6, <2>1 DEF SlicedUp
  <2> QED  BY <1>3, <1>4, <1>8, <2>2 DEF JoinInv, JoinInit
<1> QED  BY <1>7, <1>8

\* Whatever the string did to the slices, the last one hands in the rest.
LEMMA HandInStep ==
    ASSUME vector \in Vectors, vector' = vector, string \in 1 .. Len(vector), string' = string + 1,
           current_size' \in 0 .. length, Total(vector, to_send') = current_size',
           NEW slices, SlicedUp(vector, string, slices, to_send'), HandIn(slices, to_send')
    PROVE  JoinInv'
<1>1. vector \in Seq(Nat) /\ Len(vector) \in Nat
  BY LimitAssumption
<1>2. slices \in Seq(Seq(1 .. Len(vector))) /\ to_send' \in Seq(1 .. Len(vector))
  BY DEF SlicedUp
<1>3. CASE string = Len(vector)
  <2>1. result' = Append(slices, to_send')
    BY <1>3 DEF HandIn
  <2>2. /\ result' \in Seq(Seq(1 .. Len(vector)))
        /\ FlattenSeq(result') = Showable(vector, Len(vector))
        /\ Tight(vector, result')
    BY <1>1, <1>3, <2>1, HandInSlice
  <2>3. JoinTypeOK'
    BY <1>1, <1>2, <2>2 DEF JoinTypeOK
  <2>4. Done' /\ NothingLostOrReordered'
    BY <1>1, <1>3, <2>2 DEF Done, NothingLostOrReordered
  <2>5. SlicesAreTight'
    <3>1. DOMAIN result' = 1 .. Len(result')
      BY <2>2, LenProperties
    <3> QED  BY <2>2, <3>1 DEF SlicesAreTight, Tight
  <2> QED  BY <2>3, <2>4, <2>5 DEF JoinInv
<1>4. CASE string # Len(vector)
  <2>1. result' = slices /\ ~Done' /\ string' - 1 = string
    BY <1>1, <1>4 DEF HandIn, Done
  <2>2. JoinTypeOK'
    BY <1>1, <1>2, <2>1 DEF JoinTypeOK
  <2>3. SlicedUp(vector, string - 1, result, to_send)'
    BY <2>1
  <2> QED  BY <2>1, <2>2, <2>3 DEF JoinInv
<1> QED  BY <1>3, <1>4

\* Each of the three ways a string can go.
LEMMA JoinInvStep == JoinInv /\ [JoinNext]_joinVars => JoinInv'
<1> SUFFICES ASSUME JoinInv, [JoinNext]_joinVars PROVE JoinInv'
  OBVIOUS
<1>0. vector \in Vectors /\ vector \in Seq(Nat) /\ length \in Nat
  BY LimitAssumption DEF JoinInv, JoinTypeOK
<1>1. CASE UNCHANGED joinVars
  BY <1>1 DEF joinVars, JoinInv, JoinTypeOK, Done, NothingLostOrReordered, SlicesAreTight
<1>2. CASE JoinNext
  <2>1. vector' = vector /\ string' = string + 1 /\ string <= Len(vector)
    BY <1>2 DEF JoinNext, Gather, StartSlice, Drop
  <2>2. string \in 1 .. Len(vector) /\ ~Done
    BY <1>0, <2>1 DEF JoinInv, JoinTypeOK, Done
  <2>3. /\ SlicedUp(vector, string - 1, result, to_send)
        /\ Total(vector, to_send) = current_size
        /\ current_size \in 0 .. length
    BY <2>2 DEF JoinInv, JoinTypeOK
  <2>4. vector[string] \in Nat
    BY <1>0, <2>2
  <2>5. CASE Gather
    <3>1. /\ to_send' = Append(to_send, string)
          /\ current_size' = current_size + vector[string]
          /\ current_size + vector[string] <= length
          /\ HandIn(result, to_send')
      BY <1>0, <2>3, <2>4, <2>5 DEF Gather, Fits
    <3>2. SlicedUp(vector, string, result, to_send')
      BY <1>0, <2>2, <2>3, <3>1, GatherString
    <3>3. Total(vector, to_send') = current_size'
      <4>1. to_send \in Seq(1 .. Len(vector))
        BY <2>3 DEF SlicedUp
      <4> QED  BY <1>0, <2>2, <2>3, <3>1, <4>1, TotalAppend
    <3>4. current_size' \in 0 .. length
      BY <1>0, <2>3, <2>4, <3>1
    <3> QED  BY <1>0, <2>1, <2>2, <3>1, <3>2, <3>3, <3>4, HandInStep
  <2>6. CASE StartSlice
    <3>1. /\ to_send' = <<string>>
          /\ current_size' = vector[string]
          /\ vector[string] <= length
          /\ current_size + vector[string] + 1 > length
          /\ HandIn(Append(result, to_send), to_send')
      BY <1>0, <2>3, <2>4, <2>6 DEF StartSlice, Fits
    <3>2. SlicedUp(vector, string, Append(result, to_send), to_send')
      BY <1>0, <2>2, <2>3, <3>1, StartWithString
    <3>3. Total(vector, to_send') = current_size'
      BY <1>0, <2>2, <3>1, TotalOfOne
    <3>4. current_size' \in 0 .. length
      BY <1>0, <2>4, <3>1
    <3> QED  BY <1>0, <2>1, <2>2, <3>1, <3>2, <3>3, <3>4, HandInStep
  <2>7. CASE Drop
    <3>1. /\ to_send' = to_send
          /\ current_size' = current_size
          /\ vector[string] > length
          /\ HandIn(result, to_send')
      BY <2>7 DEF Drop
    <3>2. SlicedUp(vector, string, result, to_send')
      BY <1>0, <2>2, <2>3, <3>1, DropString
    <3> QED  BY <1>0, <2>1, <2>2, <2>3, <3>1, <3>2, HandInStep
  <2> QED  BY <1>2, <2>5, <2>6, <2>7 DEF JoinNext
<1> QED  BY <1>1, <1>2

\* join_with_limit keeps its counters in range, current_size within the limit.
THEOREM JoinTypes == JoinSpec => []JoinTypeOK
<1>1. JoinInv => JoinTypeOK
  BY DEF JoinInv
<1> QED  BY <1>1, JoinInvInit, JoinInvStep, PTL DEF JoinSpec

\* Every string that fits into a slice at all is in one of the slices
\* join_with_limit returns, once and in order, for lists of any length and
\* strings of any length.
THEOREM NothingIsLost == JoinSpec => []NothingLostOrReordered
<1>1. JoinInv => NothingLostOrReordered
  BY DEF JoinInv, NothingLostOrReordered
<1> QED  BY <1>1, JoinInvInit, JoinInvStep, PTL DEF JoinSpec

\* No slice exceeds the limit, newlines not counted; each but the first is opened
\* by a string that did not fit, with a newline, into the slice before; and an empty
\* slice is the first, alone or before a string as long as the limit: for any lists.
THEOREM SlicesAreAlwaysTight == JoinSpec => []SlicesAreTight
<1>1. JoinInv => SlicesAreTight
  BY DEF JoinInv, SlicesAreTight
<1> QED  BY <1>1, JoinInvInit, JoinInvStep, PTL DEF JoinSpec

-----------------------------------------------------------------------------
(* get_tokens.                                                             *)

Alnum == {"digit", "alpha"}

\* remove_non_alphanumeric keeps nothing but digits and letters.
LEMMA CleanType ==
    ASSUME NEW s \in Seq(Classes)
    PROVE  remove_non_alphanumeric(s) \in Seq(Alnum)
<1>0. PICK m \in Nat : m = Len(s) /\ 0 <= m /\ \A k \in 1 .. m : s[k] \in Classes
  <2>1. Len(s) \in Nat /\ 0 <= Len(s) /\ \A k \in 1 .. Len(s) : s[k] \in Classes
    OBVIOUS
  <2> QED  BY <2>1
<1> DEFINE Eq(f) == f = [n \in 0 .. m |->
              IF n = 0 THEN <<>>
              ELSE IF s[n] = "other" THEN f[n - 1] ELSE Append(f[n - 1], s[n])]
<1>1. PICK g : g = [p \in (1 .. m) \X Seq(Alnum) |->
                       IF s[p[1]] = "other" THEN p[2] ELSE Append(p[2], s[p[1]])]
  OBVIOUS
<1>2. g \in [(1 .. m) \X Seq(Alnum) -> Seq(Alnum)]
  <2>1. ASSUME NEW p \in (1 .. m) \X Seq(Alnum)
        PROVE  (IF s[p[1]] = "other" THEN p[2] ELSE Append(p[2], s[p[1]])) \in Seq(Alnum)
    <3>1. p[1] \in 1 .. m /\ p[2] \in Seq(Alnum)
      OBVIOUS
    <3>2. s[p[1]] # "other" => s[p[1]] \in Alnum
      BY <1>0, <3>1 DEF Classes, Alnum
    <3> QED  BY <3>1, <3>2, AppendProperties
  <2> QED  BY <1>1, <2>1
<1>3. PICK f \in [0 .. m -> Seq(Alnum)] :
         f[0] = <<>> /\ \A k \in 1 .. m : f[k] = g[<<k, f[k - 1]>>]
  <2>1. PICK V, b : V = Seq(Alnum) /\ b = <<>> /\ b \in V
    BY EmptySeq
  <2>2. IsRecursion(V, 0, 1, m, b, g)
    BY <1>0, <1>2, <2>1 DEF IsRecursion
  <2>3. PICK f : Builds(V, 0, 1, m, b, g, f)
    BY <2>2, Recursion
  <2> QED  BY <2>1, <2>3 DEF Builds
<1>4. ASSUME NEW k \in 1 .. m
      PROVE  f[k] = IF s[k] = "other" THEN f[k - 1] ELSE Append(f[k - 1], s[k])
  <2>0. k - 1 \in 0 .. m
    BY <1>0
  <2>1. <<k, f[k - 1]>> \in (1 .. m) \X Seq(Alnum)
    BY <1>3, <2>0
  <2>2. f[k] = g[<<k, f[k - 1]>>]
    BY <1>3
  <2> QED  BY <1>1, <2>1, <2>2
<1>5. Eq(f)
  <2> DEFINE h == [n \in 0 .. m |->
              IF n = 0 THEN <<>>
              ELSE IF s[n] = "other" THEN f[n - 1] ELSE Append(f[n - 1], s[n])]
  <2>1. \A k \in 0 .. m : k = 0 \/ k \in 1 .. m
    BY <1>0
  <2>2. \A k \in 0 .. m : f[k] = h[k]
    BY <1>3, <1>4, <2>1
  <2>3. f = [k \in 0 .. m |-> f[k]] /\ h = [k \in 0 .. m |-> h[k]]
    BY <1>3
  <2> HIDE DEF h
  <2>4. f = h
    BY <2>2, <2>3
  <2> QED  BY <2>4 DEF h
<1>6. PICK h : Eq(h) /\ remove_non_alphanumeric(s) = h[m]
  <2> DEFINE h == CHOOSE h : Eq(h)
  <2>1. Eq(h)
    BY <1>5
  <2>2. remove_non_alphanumeric(s) = h[m]
    BY <1>0 DEF remove_non_alphanumeric
  <2> HIDE DEF h
  <2> QED  BY <2>1, <2>2
<1>7. \A k \in 0 .. m : k \in {n \in 0 .. m : h[n] \in Seq(Alnum)}
  <2>0. PICK T : T = {n \in 0 .. m : h[n] \in Seq(Alnum)}
    OBVIOUS
  <2>1. 0 \in T
    BY <1>0, <1>6, <2>0, EmptySeq
  <2>2. ASSUME NEW k \in 1 .. m, k - 1 \in T PROVE k \in T
    <3>1. k \in 0 .. m /\ k # 0 /\ h[k - 1] \in Seq(Alnum)
      BY <1>0, <2>0, <2>2
    <3>2. h[k] = IF s[k] = "other" THEN h[k - 1] ELSE Append(h[k - 1], s[k])
      BY <1>6, <3>1
    <3>3. s[k] # "other" => s[k] \in Alnum
      BY <1>0 DEF Classes, Alnum
    <3>4. h[k] \in Seq(Alnum)
      BY <3>1, <3>2, <3>3, AppendProperties
    <3> QED  BY <2>0, <3>1, <3>4
  <2>3. \A k \in 0 .. m : k \in T
    BY <1>0, <2>1, <2>2, Induction, 0 \in Nat, 1 \in Nat, 1 = 0 + 1
  <2> QED  BY <2>0, <2>3
<1>8. h[m] \in Seq(Alnum)
  BY <1>0, <1>7
<1> QED  BY <1>6, <1>8

\* Where the cleaned text ends a token: at its end, and where the class
\* changes.  The blank behind it starts none.
LEMMA Marks ==
    ASSUME NEW c \in Seq(Alnum), remove_non_alphanumeric(text) = c
    PROVE  /\ Len(str) = Len(c) + 1
           /\ \A n \in 1 .. Len(c) : str[n] = c[n]
           /\ \A n \in 1 .. Len(c) + 1 :
                 /\ Ends(n) <=> n \in 1 .. Len(c) /\ (n = Len(c) \/ c[n] # c[n + 1])
                 /\ Starts(n) => Ends(n)
<1>1. PICK L \in Nat : L = Len(c) /\ \A n \in 1 .. L : c[n] \in Alnum
  <2>1. Len(c) \in Nat /\ \A n \in 1 .. Len(c) : c[n] \in Alnum
    OBVIOUS
  <2> QED  BY <2>1
<1>2. str = Append(c, "blank") /\ c \in Seq(Alnum \cup {"blank"})
  BY DEF str, Alnum
<1>3. Len(str) = L + 1 /\ (\A n \in 1 .. L : str[n] = c[n]) /\ str[L + 1] = "blank"
  BY <1>1, <1>2, AppendProperties
<1>4. /\ \A n \in 1 .. L : At(n) = c[n] /\ isalnum(At(n))
      /\ At(L + 1) = "blank" /\ ~isalnum(At(L + 1))
      /\ At(L + 2) = "nul" /\ ~isalnum(At(L + 2))
  BY <1>1, <1>3 DEF At, isalnum, Alnum
<1>5. ASSUME NEW n \in 1 .. L + 1
      PROVE  /\ Ends(n) <=> n \in 1 .. L /\ (n = L \/ c[n] # c[n + 1])
             /\ Starts(n) => Ends(n)
  <2>1. CASE n \in 1 .. L - 1
    <3>1. n \in 1 .. L /\ n + 1 \in 1 .. L /\ n # L
      BY <2>1
    <3>2. At(n) = c[n] /\ At(n + 1) = c[n + 1] /\ isalnum(At(n)) /\ isalnum(At(n + 1))
      BY <1>4, <3>1
    <3>3. At(n) # "blank" /\ At(n + 1) # "blank"
      BY <3>2 DEF isalnum
    <3> QED  BY <3>1, <3>2, <3>3 DEF Ends, Starts, Turns
  <2>2. CASE n = L
    <3>1. n \in 1 .. L /\ n + 1 = L + 1
      BY <2>2
    <3>2. isalnum(At(n)) /\ At(n + 1) = "blank" /\ ~isalnum(At(n + 1))
      BY <1>4, <3>1
    <3> QED  BY <2>2, <3>1, <3>2 DEF Ends, Starts, Turns
  <2>3. CASE n = L + 1
    <3>1. ~(n \in 1 .. L) /\ n + 1 = L + 2
      BY <2>3
    <3>2. ~isalnum(At(n)) /\ ~isalnum(At(n + 1))
      BY <1>4, <2>3, <3>1
    <3> QED  BY <3>1, <3>2 DEF Ends, Starts, Turns
  <2> QED  BY <2>1, <2>2, <2>3
<1> QED  BY <1>1, <1>3, <1>5

\* The tokens are the runs of c before place s.
Runs(c, toks, s) ==
    /\ toks \in Seq(Seq(Alnum))
    /\ FlattenSeq(toks) = SubSeq(c, 1, s - 1)
    /\ \A n \in 1 .. Len(toks) :
          toks[n] # <<>> /\ \A k \in 1 .. Len(toks[n]) : toks[n][k] = toks[n][1]
    /\ \A n \in 1 .. Len(toks) - 1 : toks[n][1] # toks[n + 1][1]
    /\ IF toks = <<>> THEN s = 1
       ELSE s > 1 /\ toks[1][1] = c[1] /\ toks[Len(toks)][1] = c[s - 1]

\* The token being read began at s, where the class changed, and still lasts at n.
Scanned(c, toks, s, n) ==
    /\ n \in 1 .. Len(c) + 2 /\ s \in 1 .. Len(c) + 1 /\ s <= n
    /\ n > Len(c) => s = Len(c) + 1
    /\ n <= Len(c) => \A k \in s .. n : c[k] = c[s]
    /\ s > 1 /\ s <= Len(c) => c[s - 1] # c[s]
    /\ Runs(c, toks, s)

\* One run more.
LEMMA RunsAppend ==
    ASSUME NEW c \in Seq(Alnum), NEW toks, NEW e \in 1 .. Len(c), NEW s \in 1 .. e,
           Runs(c, toks, s), \A k \in s .. e : c[k] = c[s], s > 1 => c[s - 1] # c[s]
    PROVE  Runs(c, Append(toks, SubSeq(c, s, e)), e + 1)
<1>1. PICK run : run = SubSeq(c, s, e)
  OBVIOUS
<1>2. /\ run \in Seq(Alnum) /\ run # <<>> /\ run[1] = c[s]
      /\ \A k \in 1 .. Len(run) : run[k] = run[1]
  <2>1. s \in Int /\ e \in Int /\ s <= e /\ \A k \in s .. e : c[k] \in Alnum
    OBVIOUS
  <2>2. /\ run \in Seq(Alnum)
        /\ Len(run) = e - s + 1
        /\ \A k \in 1 .. e - s + 1 : run[k] = c[s + k - 1]
    BY <1>1, <2>1, SubSeqProperties
  <2>3. \A k \in 1 .. e - s + 1 : s + k - 1 \in s .. e
    BY <2>1
  <2>4. \A k \in 1 .. e - s + 1 : run[k] = c[s]
    BY <2>2, <2>3
  <2>5. 1 \in 1 .. e - s + 1 /\ e - s + 1 # 0
    BY <2>1
  <2>6. run # <<>>
    BY <2>2, <2>5
  <2> QED  BY <2>2, <2>4, <2>5, <2>6
<1>3. PICK m \in Nat, more \in Seq(Seq(Alnum)) :
         /\ m = Len(toks) /\ more = Append(toks, run) /\ Len(more) = m + 1 /\ more # <<>>
         /\ \A k \in 1 .. m : more[k] = toks[k]
         /\ more[m + 1] = run
  <2>1. toks \in Seq(Seq(Alnum))
    BY DEF Runs
  <2>2. /\ Len(toks) \in Nat /\ Append(toks, run) \in Seq(Seq(Alnum))
        /\ Len(Append(toks, run)) = Len(toks) + 1 /\ Append(toks, run) # <<>>
        /\ \A k \in 1 .. Len(toks) : Append(toks, run)[k] = toks[k]
        /\ Append(toks, run)[Len(toks) + 1] = run
    BY <1>2, <2>1, AppendProperties
  <2> QED  BY <2>2
<1>4. FlattenSeq(more) = SubSeq(c, 1, e)
  <2>0. toks \in Seq(Seq(Alnum))
    BY DEF Runs
  <2>1. FlattenSeq(more) = FlattenSeq(toks) \o run
    BY <1>2, <1>3, <2>0, FlattenAppend
  <2>2. /\ 1 \in 1 .. Len(c) + 1 /\ s - 1 \in 1 - 1 .. Len(c) /\ e \in s - 1 .. Len(c)
        /\ s - 1 + 1 = s
    OBVIOUS
  <2>3. SubSeq(c, 1, s - 1) \o SubSeq(c, s, e) = SubSeq(c, 1, e)
    BY <2>2, ConcatAdjacentSubSeq
  <2> QED  BY <1>1, <2>1, <2>3 DEF Runs
<1>5. ASSUME NEW n \in 1 .. m + 1
      PROVE  more[n] # <<>> /\ \A k \in 1 .. Len(more[n]) : more[n][k] = more[n][1]
  <2>1. CASE n \in 1 .. m
    BY <1>3, <2>1 DEF Runs
  <2>2. CASE n = m + 1
    BY <1>2, <1>3, <2>2
  <2> QED  BY <2>1, <2>2, <1>3
<1>6. ASSUME NEW n \in 1 .. m PROVE more[n][1] # more[n + 1][1]
  <2>1. CASE n \in 1 .. m - 1
    <3>1. more[n] = toks[n] /\ more[n + 1] = toks[n + 1]
      BY <1>3, <2>1
    <3> QED  BY <1>3, <2>1, <3>1 DEF Runs
  <2>2. CASE n = m
    <3>1. toks # <<>> /\ more[n] = toks[m] /\ more[n + 1] = run
      BY <1>3, <2>2
    <3>2. s > 1 /\ toks[m][1] = c[s - 1]
      BY <1>3, <3>1 DEF Runs
    <3> QED  BY <1>2, <3>1, <3>2
  <2> QED  BY <2>1, <2>2, <1>3
<1>7. more[1][1] = c[1] /\ more[m + 1][1] = c[e] /\ e + 1 > 1 /\ e + 1 - 1 = e
  <2>1. c[e] = c[s]
    OBVIOUS
  <2>2. CASE toks = <<>>
    <3>1. m = 0 /\ s = 1
      BY <1>3, <2>2 DEF Runs
    <3> QED  BY <1>2, <1>3, <2>1, <3>1
  <2>3. CASE toks # <<>>
    <3>1. 1 \in 1 .. m
      BY <1>3, <2>3, EmptySeq DEF Runs
    <3> QED  BY <1>2, <1>3, <2>1, <2>3, <3>1 DEF Runs
  <2> QED  BY <2>2, <2>3
<1>8. PICK z : z = e + 1 /\ z - 1 = e /\ z > 1
  BY <1>7
<1>9. Runs(c, more, z)
  <2>1. Len(more) = m + 1 /\ Len(more) - 1 = m
    BY <1>3
  <2>2. \A n \in 1 .. Len(more) :
           more[n] # <<>> /\ \A k \in 1 .. Len(more[n]) : more[n][k] = more[n][1]
    BY <1>5, <2>1
  <2>3. \A n \in 1 .. Len(more) - 1 : more[n][1] # more[n + 1][1]
    BY <1>6, <2>1
  <2>4. more[1][1] = c[1] /\ more[Len(more)][1] = c[z - 1]
    BY <1>7, <1>8, <2>1
  <2>5. FlattenSeq(more) = SubSeq(c, 1, z - 1)
    BY <1>4, <1>8
  <2> QED  BY <1>3, <1>8, <2>2, <2>3, <2>4, <2>5 DEF Runs
<1> QED  BY <1>1, <1>3, <1>8, <1>9

\* Of alternating classes, the odd ones are the first.
LEMMA OddRuns ==
    ASSUME NEW c, NEW toks, NEW s, Runs(c, toks, s)
    PROVE  \A n \in 1 .. Len(toks) : toks[n][1] = toks[1][1] <=> n % 2 = 1
<1>0. PICK m \in Nat : m = Len(toks)
  BY DEF Runs
<1>1. \A n \in 1 .. m : toks[n][1] \in Alnum
  <2>1. \A n \in 1 .. m : toks[n] \in Seq(Alnum) /\ toks[n] # <<>>
    BY <1>0 DEF Runs
  <2> QED  BY <2>1, EmptySeq
<1>2. PICK T : T = {n \in 1 .. m : toks[n][1] = toks[1][1] <=> n % 2 = 1}
  OBVIOUS
<1>3. CASE m = 0
  BY <1>0, <1>3
<1>4. CASE m # 0
  <2>1. 1 \in T
    BY <1>0, <1>2, <1>4
  <2>2. ASSUME NEW n \in 2 .. m, n - 1 \in T PROVE n \in T
    <3>1. n \in 1 .. m /\ n - 1 \in 1 .. m - 1 /\ n - 1 \in 1 .. m /\ 1 \in 1 .. m /\ n - 1 + 1 = n
      BY <1>0
    <3>2. toks[n - 1][1] # toks[n][1]
      BY <1>0, <3>1 DEF Runs
    <3>3. toks[n][1] = toks[1][1] <=> ~(toks[n - 1][1] = toks[1][1])
      BY <1>1, <3>1, <3>2 DEF Alnum
    <3>4. n % 2 = 1 <=> ~((n - 1) % 2 = 1)
      BY <3>1
    <3>5. toks[n - 1][1] = toks[1][1] <=> (n - 1) % 2 = 1
      BY <1>2, <2>2
    <3> QED  BY <1>2, <3>1, <3>3, <3>4, <3>5
  <2>3. \A n \in 1 .. m : n \in T
    BY <1>0, <2>1, <2>2, Induction, 1 \in Nat, 2 \in Nat, 2 = 1 + 1
  <2> QED  BY <1>0, <1>2, <2>3
<1> QED  BY <1>3, <1>4

-----------------------------------------------------------------------------
(* parse_human_time.                                                       *)

\* The text begins and ends with a digit.
NumberAtBothEnds(c) == c # <<>> /\ c[1] = "digit" /\ Last(c) = "digit"

\* What get_tokens has found so far; then, that it has found all runs, and that
\* pairs are read from an odd number of them, of which one is always left.
ParseInv ==
    /\ text \in Seq(Classes)
    /\ pc \in {"scan", "parse", "done"}
    /\ pc = "scan" => Scanned(remove_non_alphanumeric(text), tokens, start, i)
    /\ pc # "scan" => Runs(remove_non_alphanumeric(text), tokens,
                           Len(remove_non_alphanumeric(text)) + 1)
    /\ pc = "parse" => i \in Nat /\ Len(tokens) % 2 = 1 /\ 2 * i < Len(tokens)
    /\ pc = "done" =>
          (outcome = "throws" <=> NumberAtBothEnds(remove_non_alphanumeric(text)))
    /\ outcome # "value"

\* Nothing is found before the first character.
LEMMA ParseInvInit == ParseInit => ParseInv
<1> SUFFICES ASSUME ParseInit PROVE ParseInv
  OBVIOUS
<1>1. text \in Seq(Classes)
  BY TextAssumption DEF ParseInit
<1>2. PICK c \in Seq(Alnum) : c = remove_non_alphanumeric(text)
  BY <1>1, CleanType
<1>3. Len(c) \in Nat
  OBVIOUS
<1>4. Runs(c, <<>>, 1)
  <2>1. <<>> \in Seq(Seq(Alnum)) /\ Len(<<>>) = 0 /\ FlattenSeq(<<>>) = <<>>
    BY EmptySeq DEF FlattenSeq
  <2>2. SubSeq(c, 1, 1 - 1) = <<>>
    BY SubSeqEmpty
  <2>3. PICK none : none = <<>> /\ none \in Seq(Seq(Alnum)) /\ Len(none) = 0
                    /\ FlattenSeq(none) = SubSeq(c, 1, 1 - 1)
    BY <2>1, <2>2
  <2>4. Runs(c, none, 1)
    BY <2>3 DEF Runs
  <2> QED  BY <2>3, <2>4
<1>5. Scanned(c, <<>>, 1, 1)
  BY <1>3, <1>4 DEF Scanned
<1> QED  BY <1>1, <1>2, <1>5 DEF ParseInit, ParseInv

\* One iteration of the scan.
LEMMA ScanStep == ParseInv /\ Scan => ParseInv'
<1> SUFFICES ASSUME ParseInv, Scan PROVE ParseInv'
  OBVIOUS
<1>0. text' = text /\ text \in Seq(Classes) /\ pc = "scan" /\ pc' = pc /\ outcome' = outcome
  BY DEF ParseInv, Scan
<1>1. PICK c \in Seq(Alnum) : c = remove_non_alphanumeric(text)
  BY <1>0, CleanType
<1>2. PICK L \in Nat : L = Len(c)
  OBVIOUS
<1>3. /\ Scanned(c, tokens, start, i)
      /\ i \in 1 .. L + 2 /\ start \in 1 .. L + 1 /\ start <= i
      /\ i > L => start = L + 1
      /\ i <= L => \A k \in start .. i : c[k] = c[start]
      /\ start > 1 /\ start <= L => c[start - 1] # c[start]
      /\ Runs(c, tokens, start)
  <2>1. Scanned(c, tokens, start, i)
    BY <1>0, <1>1 DEF ParseInv
  <2> QED  BY <1>2, <2>1 DEF Scanned
<1>4. /\ Len(str) = L + 1
      /\ \A n \in 1 .. L : str[n] = c[n]
      /\ \A n \in 1 .. L + 1 :
            /\ Ends(n) <=> n \in 1 .. L /\ (n = L \/ c[n] # c[n + 1])
            /\ Starts(n) => Ends(n)
  BY <1>1, <1>2, Marks
<1>5. i \in 1 .. L + 1 /\ i' = i + 1 /\ i' \in 1 .. L + 2
  BY <1>3, <1>4 DEF Scan
<1>6. CASE Ends(i)
  <2>1. i \in 1 .. L /\ (i = L \/ c[i] # c[i + 1])
    BY <1>4, <1>5, <1>6
  <2>2. start' = i + 1 /\ tokens' = Append(tokens, SubSeq(str, start, i))
    BY <1>6 DEF Scan
  <2>3. SubSeq(str, start, i) = SubSeq(c, start, i)
    <3>1. PICK a, b : a = SubSeq(str, start, i) /\ b = SubSeq(c, start, i)
      OBVIOUS
    <3>2. start \in Int /\ i \in Int /\ \A k \in start .. i : k \in 1 .. L
      BY <1>3, <2>1
    <3>3. \A k \in start .. i : c[k] \in Alnum /\ str[k] = c[k]
      BY <1>2, <1>4, <3>2
    <3>4. /\ b \in Seq(Alnum)
          /\ Len(b) = IF start <= i THEN i - start + 1 ELSE 0
          /\ \A k \in 1 .. i - start + 1 : b[k] = c[start + k - 1]
      BY <3>1, <3>2, <3>3, SubSeqProperties
    <3>5. /\ a \in Seq(Alnum)
          /\ Len(a) = IF start <= i THEN i - start + 1 ELSE 0
          /\ \A k \in 1 .. i - start + 1 : a[k] = str[start + k - 1]
      BY <3>1, <3>2, <3>3, SubSeqProperties
    <3>6. \A k \in 1 .. i - start + 1 : start + k - 1 \in start .. i
      BY <3>2
    <3>7. \A k \in 1 .. Len(a) : a[k] = b[k]
      BY <1>3, <3>2, <3>3, <3>4, <3>5, <3>6
    <3>8. a = b
      BY <3>4, <3>5, <3>7, SeqEqual
    <3> QED  BY <3>1, <3>8
  <2>4. Runs(c, tokens', i + 1)
    <3>1. i \in 1 .. Len(c) /\ start \in 1 .. i
      BY <1>2, <1>3, <2>1
    <3>2. (\A k \in start .. i : c[k] = c[start]) /\ (start > 1 => c[start - 1] # c[start])
      BY <1>2, <1>3, <2>1, <3>1
    <3>3. Runs(c, Append(tokens, SubSeq(c, start, i)), i + 1)
      BY <1>3, <3>1, <3>2, RunsAppend
    <3> QED  BY <2>2, <2>3, <3>3
  <2>5. PICK z : z = i + 1 /\ Scanned(c, tokens', z, z)
    <3>1. PICK z : z = i + 1 /\ z - 1 = i
      BY <2>1
    <3>2. /\ z \in 1 .. L + 2 /\ z \in 1 .. L + 1 /\ z <= z
          /\ z > L => z = L + 1
      BY <2>1, <3>1
    <3>3. \A k \in z .. z : c[k] = c[z]
      BY <3>2
    <3>4. z <= L => c[z - 1] # c[z]
      BY <2>1, <3>1
    <3>5. Runs(c, tokens', z)
      BY <2>4, <3>1
    <3>6. Scanned(c, tokens', z, z)
      BY <1>2, <3>2, <3>3, <3>4, <3>5 DEF Scanned
    <3> QED  BY <3>1, <3>6
  <2> QED  BY <1>0, <1>1, <1>5, <2>2, <2>5 DEF ParseInv
<1>7. CASE ~Ends(i)
  <2>1. start' = start /\ tokens' = tokens /\ ~Starts(i)
    BY <1>4, <1>5, <1>7 DEF Scan
  <2>2. i = L + 1 \/ (i \in 1 .. L - 1 /\ c[i] = c[i + 1])
    BY <1>4, <1>5, <1>7
  <2>3. i + 1 > L => start = L + 1
    BY <1>3, <2>2
  <2>4. i + 1 <= L => \A k \in start .. i + 1 : c[k] = c[start]
    <3>1. SUFFICES ASSUME i + 1 <= L, NEW k \in start .. i + 1 PROVE c[k] = c[start]
      OBVIOUS
    <3>2. k \in start .. i \/ k = i + 1
      BY <1>3, <1>5
    <3>3. c[i + 1] = c[i] /\ c[i] = c[start]
      BY <1>3, <1>5, <2>2, <3>1
    <3> QED  BY <1>3, <1>5, <3>1, <3>2, <3>3
  <2>5. Scanned(c, tokens, start, i + 1)
    BY <1>2, <1>3, <1>5, <2>3, <2>4 DEF Scanned
  <2> QED  BY <1>0, <1>1, <1>5, <2>1, <2>5 DEF ParseInv
<1> QED  BY <1>6, <1>7

\* The runs of a whole text, by the classes of its first and its last
\* character: they agree exactly when the number of runs is odd.
LEMMA WholeText ==
    ASSUME NEW c \in Seq(Alnum), NEW toks, Runs(c, toks, Len(c) + 1)
    PROVE  /\ toks = <<>> <=> c = <<>>
           /\ toks # <<>> => /\ toks[1][1] = c[1]
                             /\ toks[Len(toks)][1] = Last(c)
                             /\ c[1] = Last(c) <=> Len(toks) % 2 = 1
<1>0. Len(c) \in Nat /\ (c = <<>> <=> Len(c) = 0) /\ Len(c) + 1 - 1 = Len(c)
  BY EmptySeq
<1>1. toks = <<>> <=> c = <<>>
  BY <1>0 DEF Runs
<1>2. ASSUME toks # <<>>
      PROVE  /\ toks[1][1] = c[1]
             /\ toks[Len(toks)][1] = Last(c)
             /\ c[1] = Last(c) <=> Len(toks) % 2 = 1
  <2>1. toks[1][1] = c[1] /\ toks[Len(toks)][1] = Last(c)
    BY <1>0, <1>2 DEF Runs, Last
  <2>2. toks \in Seq(Seq(Alnum))
    BY DEF Runs
  <2>3. Len(toks) \in 1 .. Len(toks)
    BY <1>2, <2>2, EmptySeq
  <2>4. \A n \in 1 .. Len(toks) : toks[n][1] = toks[1][1] <=> n % 2 = 1
    BY OddRuns
  <2> QED  BY <2>1, <2>3, <2>4
<1> QED  BY <1>1, <1>2

\* A number that is not even is odd, and an odd one is positive.
LEMMA OddIsPositive ==
    ASSUME NEW n \in Nat
    PROVE  /\ n % 2 # 0 => n % 2 = 1
           /\ n % 2 = 1 => n >= 1 /\ 2 * 0 < n
  OBVIOUS

\* The end of the scan: an even number of runs is refused, and no text of that
\* kind begins and ends with a digit.
LEMMA CountStep == ParseInv /\ CountTokens => ParseInv'
<1> SUFFICES ASSUME ParseInv, CountTokens PROVE ParseInv'
  OBVIOUS
<1>0. /\ text' = text /\ tokens' = tokens /\ text \in Seq(Classes) /\ pc = "scan"
      /\ i' = 0 /\ outcome # "value"
  BY DEF ParseInv, CountTokens
<1>1. PICK c \in Seq(Alnum) : c = remove_non_alphanumeric(text)
  BY <1>0, CleanType
<1>2. PICK L \in Nat : L = Len(c)
  OBVIOUS
<1>3. Runs(c, tokens, Len(c) + 1)
  <2>1. Scanned(c, tokens, start, i)
    BY <1>0, <1>1 DEF ParseInv
  <2>2. Len(str) = L + 1 /\ i > Len(str)
    BY <1>1, <1>2, Marks DEF CountTokens
  <2>3. start = L + 1
    BY <1>2, <2>1, <2>2 DEF Scanned
  <2> QED  BY <1>2, <2>1, <2>3 DEF Scanned
<1>4. tokens \in Seq(Seq(Alnum)) /\ Len(tokens) \in Nat /\ (tokens = <<>> <=> Len(tokens) = 0)
  <2>1. tokens \in Seq(Seq(Alnum))
    BY <1>3 DEF Runs
  <2> QED  BY <2>1, EmptySeq
<1>5. CASE Len(tokens) % 2 = 0
  <2>1. pc' = "done" /\ outcome' = "nullopt"
    BY <1>5 DEF CountTokens, Finish
  <2>2. ~NumberAtBothEnds(c)
    BY <1>3, <1>4, <1>5, WholeText DEF NumberAtBothEnds
  <2> QED  BY <1>0, <1>1, <1>3, <2>1, <2>2 DEF ParseInv
<1>6. CASE Len(tokens) % 2 # 0
  <2>1. pc' = "parse" /\ outcome' = outcome
    BY <1>6 DEF CountTokens
  <2>2. Len(tokens) % 2 = 1 /\ 2 * 0 < Len(tokens)
    BY <1>4, <1>6, OddIsPositive
  <2> QED  BY <1>0, <1>1, <1>3, <2>1, <2>2 DEF ParseInv
<1> QED  BY <1>5, <1>6

\* An odd bound is never reached in steps of two.
LEMMA OddBound ==
    ASSUME NEW n \in Nat, NEW k \in Nat, n % 2 = 1, 2 * k + 1 < n
    PROVE  2 * (k + 1) < n
  OBVIOUS

\* One iteration over the pairs: what it takes for a number is a run as the
\* first one, the word behind it a run as the second.
LEMMA PairStep == ParseInv /\ ReadPair => ParseInv'
<1> SUFFICES ASSUME ParseInv, ReadPair PROVE ParseInv'
  OBVIOUS
<1>0. /\ text' = text /\ tokens' = tokens /\ text \in Seq(Classes) /\ pc = "parse"
      /\ i \in Nat /\ Len(tokens) % 2 = 1 /\ 2 * i < Len(tokens) /\ outcome # "value"
  BY DEF ParseInv, ReadPair
<1>1. PICK c \in Seq(Alnum) : c = remove_non_alphanumeric(text)
  BY <1>0, CleanType
<1>2. Runs(c, tokens, Len(c) + 1)
  BY <1>0, <1>1 DEF ParseInv
<1>3. PICK m \in Nat : m = Len(tokens) /\ m >= 1 /\ tokens # <<>> /\ c # <<>>
  <2>1. tokens \in Seq(Seq(Alnum))
    BY <1>2 DEF Runs
  <2>2. Len(tokens) \in Nat
    BY <2>1
  <2>3. Len(tokens) >= 1 /\ tokens # <<>>
    BY <1>0, <2>2, OddIsPositive, EmptySeq
  <2>4. tokens = <<>> <=> c = <<>>
    BY <1>2, WholeText
  <2> QED  BY <2>2, <2>3, <2>4
<1>4. NumberAtBothEnds(c) <=> tokens[1][1] = "digit"
  BY <1>0, <1>2, <1>3, WholeText DEF NumberAtBothEnds
<1>5. ASSUME NEW n \in 1 .. m
      PROVE  /\ is_all_digit(tokens[n]) <=> tokens[n][1] = "digit"
             /\ tokens[n][1] \in Alnum
             /\ tokens[n][1] = tokens[1][1] <=> n % 2 = 1
  <2>1. /\ tokens[n] \in Seq(Alnum) /\ tokens[n] # <<>>
        /\ \A k \in 1 .. Len(tokens[n]) : tokens[n][k] = tokens[n][1]
    BY <1>2, <1>3 DEF Runs
  <2>2. DOMAIN tokens[n] = 1 .. Len(tokens[n]) /\ 1 \in 1 .. Len(tokens[n])
    BY <2>1, EmptySeq, LenProperties
  <2>3. tokens[n][1] \in Alnum
    BY <2>1, <2>2
  <2>4. is_all_digit(tokens[n]) <=> tokens[n][1] = "digit"
    BY <2>1, <2>2 DEF is_all_digit
  <2> QED  BY <1>2, <1>3, <2>3, <2>4, OddRuns
<1>6. Has(2 * i) /\ ~(i >= Len(tokens)) /\ (Number(2 * i) <=> tokens[1][1] = "digit")
  <2>1. 2 * i + 1 \in 1 .. m /\ (2 * i + 1) % 2 = 1 /\ i < m
    BY <1>0, <1>3
  <2>2. is_all_digit(tokens[2 * i + 1]) <=> tokens[1][1] = "digit"
    BY <1>5, <2>1
  <2> QED  BY <1>0, <1>3, <2>1, <2>2 DEF Has, Number, Token
<1>7. Has(2 * i + 1) => (Number(2 * i + 1) <=> tokens[1][1] # "digit")
  <2>1. SUFFICES ASSUME Has(2 * i + 1) PROVE Number(2 * i + 1) <=> tokens[1][1] # "digit"
    OBVIOUS
  <2>2. 2 * i + 2 \in 1 .. m /\ ~((2 * i + 2) % 2 = 1) /\ 2 * i + 1 + 1 = 2 * i + 2 /\ 1 \in 1 .. m
    BY <1>0, <1>3, <2>1 DEF Has
  <2>3. tokens[2 * i + 2][1] # tokens[1][1]
    BY <1>5, <2>2
  <2>4. tokens[2 * i + 2][1] \in Alnum /\ tokens[1][1] \in Alnum
    BY <1>5, <2>2
  <2>5. is_all_digit(tokens[2 * i + 2]) <=> tokens[1][1] # "digit"
    BY <1>5, <2>2, <2>3, <2>4 DEF Alnum
  <2> QED  BY <2>2, <2>5 DEF Number, Token
<1>8. CASE EndOf(i) = "none"
  <2>1. pc' = pc /\ outcome' = outcome /\ i' = i + 1
    BY <1>8 DEF ReadPair
  <2>2. Has(2 * i + 1)
    BY <1>6, <1>8 DEF EndOf
  <2>3. 2 * (i + 1) < Len(tokens)
    BY <1>0, <1>3, <2>2, OddBound DEF Has
  <2>4. i + 1 \in Nat
    BY <1>0
  <2> QED  BY <1>0, <1>1, <1>2, <2>1, <2>3, <2>4 DEF ParseInv
<1>9. CASE EndOf(i) # "none"
  <2>1. pc' = "done" /\ outcome' = EndOf(i)
    BY <1>9 DEF ReadPair, Finish
  <2>2. CASE tokens[1][1] = "digit"
    <3>1. EndOf(i) = "throws"
      BY <1>6, <1>7, <1>9, <2>2 DEF EndOf
    <3> QED  BY <1>0, <1>1, <1>2, <1>4, <2>1, <2>2, <3>1 DEF ParseInv
  <2>3. CASE tokens[1][1] # "digit"
    <3>1. EndOf(i) = "nullopt"
      BY <1>6, <2>3 DEF EndOf
    <3> QED  BY <1>0, <1>1, <1>2, <1>4, <2>1, <2>3, <3>1 DEF ParseInv
  <2> QED  BY <2>2, <2>3
<1> QED  BY <1>8, <1>9

\* Every step of get_tokens and of parse_human_time.
LEMMA ParseInvStep == ParseInv /\ [ParseNext]_parseVars => ParseInv'
<1>1. ParseInv /\ UNCHANGED parseVars => ParseInv'
  BY DEF parseVars, ParseInv
<1> QED  BY <1>1, ScanStep, CountStep, PairStep DEF ParseNext

\* get_tokens cuts every text, however long, into its runs of digits and of
\* letters: all of them, in order, none mixed and none split.
THEOREM TokensAreAlwaysRuns == ParseSpec => []TokensAreRuns
<1>1. ASSUME ParseInv PROVE TokensAreRuns
  <2>1. SUFFICES ASSUME pc # "scan" PROVE
            /\ FlattenSeq(tokens) = remove_non_alphanumeric(text)
            /\ \A n \in DOMAIN tokens : \A k \in DOMAIN tokens[n] :
                  tokens[n][k] = tokens[n][1]
            /\ \A n \in 1 .. Len(tokens) - 1 : tokens[n][1] # tokens[n + 1][1]
    BY DEF TokensAreRuns
  <2>2. PICK c \in Seq(Alnum) : c = remove_non_alphanumeric(text)
    BY <1>1, CleanType DEF ParseInv
  <2>3. Runs(c, tokens, Len(c) + 1)
    BY <1>1, <2>1, <2>2 DEF ParseInv
  <2>4. FlattenSeq(tokens) = c
    <3>1. Len(c) + 1 - 1 = Len(c) /\ SubSeq(c, 1, Len(c)) = c
      BY SubSeqFull
    <3> QED  BY <2>3, <3>1 DEF Runs
  <2>5. tokens \in Seq(Seq(Alnum)) /\ DOMAIN tokens = 1 .. Len(tokens)
    BY <2>3, LenProperties DEF Runs
  <2>6. \A n \in 1 .. Len(tokens) : DOMAIN tokens[n] = 1 .. Len(tokens[n])
    BY <2>5, LenProperties, ElementOfSeq
  <2> QED  BY <2>2, <2>3, <2>4, <2>5, <2>6 DEF Runs
<1>2. ParseInv => TokensAreRuns
  BY <1>1
<1> QED  BY <1>2, ParseInvInit, ParseInvStep, PTL DEF ParseSpec

\* parse_human_time returns nullopt or throws, on every text of any length: a
\* flaw, but one the other modules rest on when they leave out the branches of a
\* command that was given a duration.
THEOREM NoDuration == ParseSpec => [](outcome # "value")
<1>1. ParseInv => outcome # "value"
  BY DEF ParseInv
<1> QED  BY <1>1, ParseInvInit, ParseInvStep, PTL DEF ParseSpec

\* A parse throws on exactly the texts that begin and end with a digit, for any
\* length of text and any number of digits std::stoull may take.
THEOREM ThrowsExactlyOnNumbers == ParseSpec => []ThrowsOnNumbers
<1>1. ParseInv => ThrowsOnNumbers
  BY DEF ParseInv, ThrowsOnNumbers, NumberAtBothEnds
<1> QED  BY <1>1, ParseInvInit, ParseInvStep, PTL DEF ParseSpec

=============================================================================
