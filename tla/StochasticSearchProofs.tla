------------------------ MODULE StochasticSearchProofs ------------------------
(***************************************************************************)
(* Proofs about the stochastic search, for every set of functions, every   *)
(* configuration and every mutation: what is kept stays what it was when   *)
(* it was scored, an edit that is rejected leaves no trace, the list of    *)
(* candidates holds the best that was seen, and the mark of soundness      *)
(* survives rejections, phases and restarts.                               *)
(***************************************************************************)
EXTENDS StochasticSearch, WellFoundedInduction, TLAPS

-----------------------------------------------------------------------------
(* Sets of places, and folds over them one step at a time.                  *)

\* Of numbers one is the least, of places one is the first and one the last.
LEMMA LeastNatural ==
  ASSUME NEW S, S \subseteq Nat, S # {}
  PROVE  \E m \in S : \A x \in S : m <= x
<1>1. PICK m \in S : \A x \in S : <<x, m>> \notin OpToRel(<, Nat)
  BY NatLessThanWellFounded, WFMin
<1>2. \A x \in S : ~(x < m)
  BY <1>1 DEF OpToRel
<1> QED
  BY <1>2

LEMMA HasLast ==
  ASSUME NEW N \in Nat, NEW S \in SUBSET (1..N), S # {}
  PROVE  Max(S) \in S /\ S \ {Max(S)} \in SUBSET (1..N)
<1>1. {N - y : y \in S} \subseteq Nat /\ {N - y : y \in S} # {}
  <2>1. PICK z \in S : TRUE
    OBVIOUS
  <2>2. N - z \in {N - y : y \in S}
    OBVIOUS
  <2>3. \A y \in S : N - y \in Nat
    OBVIOUS
  <2> QED
    BY <2>2, <2>3
<1>2. PICK d \in {N - y : y \in S} : \A z \in {N - y : y \in S} : d <= z
  BY <1>1, LeastNatural
<1>3. PICK m \in S : d = N - m
  BY <1>2
<1>4. \A y \in S : m >= y
  BY <1>2, <1>3
<1> QED
  BY <1>3, <1>4 DEF Max

LEMMA HasFirst ==
  ASSUME NEW N \in Nat, NEW j \in Nat, NEW S \in SUBSET (j..N), S # {}
  PROVE  Min(S) \in S /\ S \ {Min(S)} \in SUBSET (j..N)
<1>1. S \subseteq Nat
  OBVIOUS
<1>2. PICK m \in S : \A y \in S : m <= y
  BY <1>1, LeastNatural
<1> QED
  BY <1>2 DEF Min

LEMMA LastOf ==
  ASSUME NEW j \in Nat, NEW S \in SUBSET (1..(j + 1))
  PROVE  /\ j + 1 \in S => Max(S) = j + 1 /\ S # {} /\ S \ {j + 1} \in SUBSET (1..j)
         /\ j + 1 \notin S => S \in SUBSET (1..j)
<1>1. ASSUME j + 1 \in S PROVE Max(S) = j + 1
  <2>1. \A y \in S : j + 1 >= y
    OBVIOUS
  <2>2. \A m \in S : (\A y \in S : m >= y) => m = j + 1
    BY <1>1
  <2> QED
    BY <1>1, <2>1, <2>2 DEF Max
<1> QED
  BY <1>1

LEMMA FirstOf ==
  ASSUME NEW N \in Nat, NEW j \in 1..N, NEW S \in SUBSET (j..N)
  PROVE  /\ j \in S => Min(S) = j /\ S # {} /\ S \ {j} \in SUBSET ((j + 1)..N)
         /\ j \notin S => S \in SUBSET ((j + 1)..N)
<1>1. ASSUME j \in S PROVE Min(S) = j
  <2>1. \A y \in S : j <= y
    OBVIOUS
  <2>2. \A m \in S : (\A y \in S : m <= y) => m = j
    BY <1>1
  <2> QED
    BY <1>1, <2>1, <2>2 DEF Min
<1> QED
  BY <1>1

\* The clones of the users at the places in L.
ClonedAt(s, b, x, v, L) == FoldLeft(LAMBDA t, n : CloneUser(t, b, n, x, v), s, L)

LEMMA CloneSteps ==
  ASSUME NEW N \in Nat, NEW L, DOMAIN L = 1..N, NEW s, NEW b, NEW x, NEW v
  PROVE  \E h : /\ h[0] = s /\ \A j \in 1..N : h[j] = CloneUser(h[j - 1], b, L[j], x, v)
                /\ ClonedAt(s, b, x, v, L) = h[N]
<1> DEFINE Step(t, S) == IF S = {} THEN s ELSE CloneUser(t[S \ {Max(S)}], b, L[Max(S)], x, v)
           Good(j) == \E t : \A S \in SUBSET (1..j) : t[S] = Step(t, S)
           Bad == {j \in 0..N : ~Good(j)}
<1>1. Good(0)
  <2>1. \A S \in SUBSET (1..0) : S = {}
    OBVIOUS
  <2> WITNESS [S \in {{}} |-> s]
  <2> QED
    BY <2>1
<1>2. ASSUME NEW j \in Nat, Good(j) PROVE Good(j + 1)
  <2>1. PICK t : \A S \in SUBSET (1..j) : t[S] = Step(t, S)
    BY <1>2
  <2> DEFINE u == [S \in SUBSET (1..(j + 1)) |->
                     IF j + 1 \in S THEN CloneUser(t[S \ {j + 1}], b, L[j + 1], x, v) ELSE t[S]]
  <2>2. ASSUME NEW S \in SUBSET (1..j) PROVE u[S] = t[S]
    OBVIOUS
  <2>3. ASSUME NEW S \in SUBSET (1..(j + 1)) PROVE u[S] = Step(u, S)
    <3>1. CASE j + 1 \in S
      <4>1. Max(S) = j + 1 /\ S # {} /\ S \ {j + 1} \in SUBSET (1..j)
        BY <3>1, LastOf
      <4>2. u[S] = CloneUser(t[S \ {j + 1}], b, L[j + 1], x, v)
        BY <3>1
      <4>3. u[S \ {j + 1}] = t[S \ {j + 1}]
        BY <2>2, <4>1
      <4> HIDE DEF u
      <4> QED
        BY <4>1, <4>2, <4>3
    <3>2. CASE j + 1 \notin S
      <4>1. S \in SUBSET (1..j)
        BY <3>2, LastOf
      <4>2. u[S] = Step(t, S)
        BY <2>1, <2>2, <4>1
      <4>3. S # {} => Max(S) \in S /\ S \ {Max(S)} \in SUBSET (1..j)
        BY <4>1, HasLast
      <4>4. S # {} => u[S \ {Max(S)}] = t[S \ {Max(S)}]
        BY <2>2, <4>3
      <4> HIDE DEF u
      <4> QED
        BY <4>2, <4>4
    <3> QED
      BY <3>1, <3>2
  <2> HIDE DEF u
  <2> QED
    BY <2>3
<1>3. Bad = {}
  <2> SUFFICES ASSUME Bad # {} PROVE FALSE
    OBVIOUS
  <2> HIDE DEF Good
  <2>0. Bad \subseteq Nat
    OBVIOUS
  <2>1. PICK m \in Bad : \A y \in Bad : m <= y
    <3> HIDE DEF Bad
    <3> QED
      BY <2>0, LeastNatural
  <2>2. m \in 0..N /\ m # 0 /\ ~Good(m)
    BY <1>1, <2>1
  <2>3. m - 1 \in 0..N /\ m - 1 \notin Bad
    BY <2>1, <2>2
  <2>4. Good(m - 1)
    BY <2>3
  <2>5. Good((m - 1) + 1)
    BY <1>2, <2>3, <2>4
  <2> QED
    BY <2>2, <2>5
<1>4. Good(N)
  <2> HIDE DEF Good
  <2> QED
    BY <1>3
<1>5. PICK t0 : \A S \in SUBSET (1..N) : t0[S] = Step(t0, S)
  BY <1>4
<1> DEFINE Eq(t) == t = [S \in SUBSET (1..N) |-> Step(t, S)]
           t1 == [S \in SUBSET (1..N) |-> t0[S]]
<1>6. ASSUME NEW S \in SUBSET (1..N), S # {} PROVE Max(S) \in S /\ S \ {Max(S)} \in SUBSET (1..N)
  BY <1>6, HasLast
<1>7. Eq(t1)
  <2>1. ASSUME NEW S \in SUBSET (1..N) PROVE t1[S] = Step(t1, S)
    BY <1>5, <1>6
  <2> QED
    BY <2>1
<1> DEFINE t == CHOOSE r : Eq(r)
<1>8. Eq(t)
  BY <1>7
<1>9. ClonedAt(s, b, x, v, L) = t[1..N]
  BY DEF ClonedAt, FoldLeft, MapThenFoldSet
<1> HIDE DEF t
<1> DEFINE h == [j \in 0..N |-> t[1..j]]
<1>10. h[0] = s
  BY <1>8
<1>11. ASSUME NEW j \in 1..N PROVE h[j] = CloneUser(h[j - 1], b, L[j], x, v)
  <2>1. 1..j \in SUBSET (1..((j - 1) + 1)) /\ (j - 1) + 1 = j /\ j - 1 \in Nat /\ j \in 1..j
    OBVIOUS
  <2>2. Max(1..j) = j /\ 1..j # {}
    BY <2>1, LastOf
  <2>3. (1..j) \ {j} = 1..(j - 1)
    OBVIOUS
  <2>4. t[1..j] = Step(t, 1..j)
    <3>1. 1..j \in SUBSET (1..N)
      OBVIOUS
    <3> QED
      BY <1>8, <3>1
  <2>5. t[1..j] = CloneUser(t[1..(j - 1)], b, L[j], x, v)
    BY <2>2, <2>3, <2>4
  <2> QED
    BY <2>5
<1>12. h[N] = t[1..N]
  OBVIOUS
<1> HIDE DEF h
<1> QED
  BY <1>9, <1>10, <1>11, <1>12
\* The clones of the users in the blocks in L.
ClonedIn(s, x, v, L) == FoldLeft(LAMBDA t, b : CloneUsersIn(t, b, x, v), s, L)

LEMMA BlockSteps ==
  ASSUME NEW N \in Nat, NEW L, DOMAIN L = 1..N, NEW s, NEW x, NEW v
  PROVE  \E h : /\ h[0] = s /\ \A j \in 1..N : h[j] = CloneUsersIn(h[j - 1], L[j], x, v)
                /\ ClonedIn(s, x, v, L) = h[N]
<1> DEFINE Step(t, S) == IF S = {} THEN s ELSE CloneUsersIn(t[S \ {Max(S)}], L[Max(S)], x, v)
           Good(j) == \E t : \A S \in SUBSET (1..j) : t[S] = Step(t, S)
           Bad == {j \in 0..N : ~Good(j)}
<1>1. Good(0)
  <2>1. \A S \in SUBSET (1..0) : S = {}
    OBVIOUS
  <2> WITNESS [S \in {{}} |-> s]
  <2> QED
    BY <2>1
<1>2. ASSUME NEW j \in Nat, Good(j) PROVE Good(j + 1)
  <2>1. PICK t : \A S \in SUBSET (1..j) : t[S] = Step(t, S)
    BY <1>2
  <2> DEFINE u == [S \in SUBSET (1..(j + 1)) |->
                     IF j + 1 \in S THEN CloneUsersIn(t[S \ {j + 1}], L[j + 1], x, v) ELSE t[S]]
  <2>2. ASSUME NEW S \in SUBSET (1..j) PROVE u[S] = t[S]
    OBVIOUS
  <2>3. ASSUME NEW S \in SUBSET (1..(j + 1)) PROVE u[S] = Step(u, S)
    <3>1. CASE j + 1 \in S
      <4>1. Max(S) = j + 1 /\ S # {} /\ S \ {j + 1} \in SUBSET (1..j)
        BY <3>1, LastOf
      <4>2. u[S] = CloneUsersIn(t[S \ {j + 1}], L[j + 1], x, v)
        BY <3>1
      <4>3. u[S \ {j + 1}] = t[S \ {j + 1}]
        BY <2>2, <4>1
      <4> HIDE DEF u
      <4> QED
        BY <4>1, <4>2, <4>3
    <3>2. CASE j + 1 \notin S
      <4>1. S \in SUBSET (1..j)
        BY <3>2, LastOf
      <4>2. u[S] = Step(t, S)
        BY <2>1, <2>2, <4>1
      <4>3. S # {} => Max(S) \in S /\ S \ {Max(S)} \in SUBSET (1..j)
        BY <4>1, HasLast
      <4>4. S # {} => u[S \ {Max(S)}] = t[S \ {Max(S)}]
        BY <2>2, <4>3
      <4> HIDE DEF u
      <4> QED
        BY <4>2, <4>4
    <3> QED
      BY <3>1, <3>2
  <2> HIDE DEF u
  <2> QED
    BY <2>3
<1>3. Bad = {}
  <2> SUFFICES ASSUME Bad # {} PROVE FALSE
    OBVIOUS
  <2> HIDE DEF Good
  <2>0. Bad \subseteq Nat
    OBVIOUS
  <2>1. PICK m \in Bad : \A y \in Bad : m <= y
    <3> HIDE DEF Bad
    <3> QED
      BY <2>0, LeastNatural
  <2>2. m \in 0..N /\ m # 0 /\ ~Good(m)
    BY <1>1, <2>1
  <2>3. m - 1 \in 0..N /\ m - 1 \notin Bad
    BY <2>1, <2>2
  <2>4. Good(m - 1)
    BY <2>3
  <2>5. Good((m - 1) + 1)
    BY <1>2, <2>3, <2>4
  <2> QED
    BY <2>2, <2>5
<1>4. Good(N)
  <2> HIDE DEF Good
  <2> QED
    BY <1>3
<1>5. PICK t0 : \A S \in SUBSET (1..N) : t0[S] = Step(t0, S)
  BY <1>4
<1> DEFINE Eq(t) == t = [S \in SUBSET (1..N) |-> Step(t, S)]
           t1 == [S \in SUBSET (1..N) |-> t0[S]]
<1>6. ASSUME NEW S \in SUBSET (1..N), S # {} PROVE Max(S) \in S /\ S \ {Max(S)} \in SUBSET (1..N)
  BY <1>6, HasLast
<1>7. Eq(t1)
  <2>1. ASSUME NEW S \in SUBSET (1..N) PROVE t1[S] = Step(t1, S)
    BY <1>5, <1>6
  <2> QED
    BY <2>1
<1> DEFINE t == CHOOSE r : Eq(r)
<1>8. Eq(t)
  BY <1>7
<1>9. ClonedIn(s, x, v, L) = t[1..N]
  BY DEF ClonedIn, FoldLeft, MapThenFoldSet
<1> HIDE DEF t
<1> DEFINE h == [j \in 0..N |-> t[1..j]]
<1>10. h[0] = s
  BY <1>8
<1>11. ASSUME NEW j \in 1..N PROVE h[j] = CloneUsersIn(h[j - 1], L[j], x, v)
  <2>1. 1..j \in SUBSET (1..((j - 1) + 1)) /\ (j - 1) + 1 = j /\ j - 1 \in Nat /\ j \in 1..j
    OBVIOUS
  <2>2. Max(1..j) = j /\ 1..j # {}
    BY <2>1, LastOf
  <2>3. (1..j) \ {j} = 1..(j - 1)
    OBVIOUS
  <2>4. t[1..j] = Step(t, 1..j)
    <3>1. 1..j \in SUBSET (1..N)
      OBVIOUS
    <3> QED
      BY <1>8, <3>1
  <2>5. t[1..j] = CloneUsersIn(t[1..(j - 1)], L[j], x, v)
    BY <2>2, <2>3, <2>4
  <2> QED
    BY <2>5
<1>12. h[N] = t[1..N]
  OBVIOUS
<1> HIDE DEF h
<1> QED
  BY <1>9, <1>10, <1>11, <1>12
\* What is left of g when the log L is taken back.
Undone(L, g) == FoldRight(undo_one, L, g)

LEMMA UndoSteps ==
  ASSUME NEW N \in Nat, NEW L, DOMAIN L = 1..N, NEW g
  PROVE  \E h : /\ h[N + 1] = g /\ \A j \in 1..N : h[j] = undo_one(L[j], h[j + 1])
                /\ Undone(L, g) = h[1]
<1> DEFINE Step(t, S) == IF S = {} THEN g ELSE undo_one(L[Min(S)], t[S \ {Min(S)}])
           Good(k) == \E t : \A S \in SUBSET ((N + 1 - k)..N) : t[S] = Step(t, S)
           Bad == {k \in 0..N : ~Good(k)}
<1>1. Good(0)
  <2>1. \A S \in SUBSET ((N + 1 - 0)..N) : S = {}
    OBVIOUS
  <2> WITNESS [S \in {{}} |-> g]
  <2> QED
    BY <2>1
<1>2. ASSUME NEW k \in Nat, k + 1 \in 0..N, Good(k) PROVE Good(k + 1)
  <2>1. PICK j : j = N + 1 - (k + 1) /\ j \in 1..N /\ j + 1 = N + 1 - k
    BY <1>2
  <2>2. PICK t : \A S \in SUBSET ((j + 1)..N) : t[S] = Step(t, S)
    BY <1>2, <2>1
  <2> DEFINE u == [S \in SUBSET (j..N) |-> IF j \in S THEN undo_one(L[j], t[S \ {j}]) ELSE t[S]]
  <2>3. ASSUME NEW S \in SUBSET ((j + 1)..N) PROVE u[S] = t[S]
    <3>1. S \in SUBSET (j..N) /\ j \notin S
      BY <2>1
    <3> QED
      BY <3>1
  <2>4. ASSUME NEW S \in SUBSET (j..N) PROVE u[S] = Step(u, S)
    <3>1. CASE j \in S
      <4>1. Min(S) = j /\ S # {} /\ S \ {j} \in SUBSET ((j + 1)..N)
        <5>1. j \in 1..N
          BY <2>1
        <5> QED
          BY <3>1, <5>1, FirstOf
      <4>2. u[S] = undo_one(L[j], t[S \ {j}])
        BY <3>1
      <4>3. u[S \ {j}] = t[S \ {j}]
        BY <2>3, <4>1
      <4> HIDE DEF u
      <4> QED
        BY <4>1, <4>2, <4>3
    <3>2. CASE j \notin S
      <4>1. S \in SUBSET ((j + 1)..N) /\ j + 1 \in Nat
        BY <2>1, <3>2, FirstOf
      <4>2. u[S] = Step(t, S)
        BY <2>2, <2>3, <4>1
      <4>3. S # {} => Min(S) \in S /\ S \ {Min(S)} \in SUBSET ((j + 1)..N)
        BY <4>1, HasFirst
      <4>4. S # {} => u[S \ {Min(S)}] = t[S \ {Min(S)}]
        BY <2>3, <4>3
      <4> HIDE DEF u
      <4> QED
        BY <4>2, <4>4
    <3> QED
      BY <3>1, <3>2
  <2> HIDE DEF u
  <2> QED
    BY <2>1, <2>4
<1>3. Bad = {}
  <2> SUFFICES ASSUME Bad # {} PROVE FALSE
    OBVIOUS
  <2> HIDE DEF Good
  <2>0. Bad \subseteq Nat
    OBVIOUS
  <2>1. PICK m \in Bad : \A y \in Bad : m <= y
    <3> HIDE DEF Bad
    <3> QED
      BY <2>0, LeastNatural
  <2>2. m \in 0..N /\ m # 0 /\ ~Good(m)
    BY <1>1, <2>1
  <2>3. m - 1 \in 0..N /\ m - 1 \notin Bad /\ (m - 1) + 1 = m
    BY <2>1, <2>2
  <2>4. Good(m - 1)
    BY <2>3
  <2>5. Good((m - 1) + 1)
    BY <1>2, <2>2, <2>3, <2>4
  <2> QED
    BY <2>2, <2>3, <2>5
<1>4. Good(N)
  <2> HIDE DEF Good
  <2> QED
    BY <1>3
<1>5. PICK t0 : \A S \in SUBSET (1..N) : t0[S] = Step(t0, S)
  <2>1. N + 1 - N = 1
    OBVIOUS
  <2> QED
    BY <1>4, <2>1
<1> DEFINE Eq(t) == t = [S \in SUBSET (1..N) |-> Step(t, S)]
           t1 == [S \in SUBSET (1..N) |-> t0[S]]
<1>6. ASSUME NEW S \in SUBSET (1..N), S # {} PROVE Min(S) \in S /\ S \ {Min(S)} \in SUBSET (1..N)
  BY <1>6, HasFirst
<1>7. Eq(t1)
  <2>1. ASSUME NEW S \in SUBSET (1..N) PROVE t1[S] = Step(t1, S)
    BY <1>5, <1>6
  <2> QED
    BY <2>1
<1> DEFINE t == CHOOSE r : Eq(r)
<1>8. Eq(t)
  BY <1>7
<1>9. Undone(L, g) = t[1..N]
  BY DEF Undone, FoldRight, MapThenFoldSet
<1> HIDE DEF t
<1> DEFINE h == [j \in 1..(N + 1) |-> t[j..N]]
<1>10. h[N + 1] = g
  <2>1. (N + 1)..N = {} /\ {} \in SUBSET (1..N) /\ N + 1 \in 1..(N + 1)
    OBVIOUS
  <2>2. t[{}] = g
    BY <1>8, <2>1
  <2> QED
    BY <2>1, <2>2
<1>11. ASSUME NEW j \in 1..N PROVE h[j] = undo_one(L[j], h[j + 1])
  <2>1. j \in j..N /\ j..N \in SUBSET (j..N) /\ j..N \in SUBSET (1..N)
    OBVIOUS
  <2>2. Min(j..N) = j /\ j..N # {}
    BY <2>1, FirstOf
  <2>3. (j..N) \ {j} = (j + 1)..N
    OBVIOUS
  <2>4. t[j..N] = Step(t, j..N)
    BY <1>8, <2>1
  <2>5. t[j..N] = undo_one(L[j], t[(j + 1)..N])
    BY <2>2, <2>3, <2>4
  <2> QED
    BY <2>5
<1>12. h[1] = t[1..N]
  OBVIOUS
<1> HIDE DEF h
<1> QED
  BY <1>9, <1>10, <1>11, <1>12

-----------------------------------------------------------------------------
(* Sequences.                                                               *)

LEMMA SequenceFacts ==
  ASSUME NEW s, IsSequence(s)
  PROVE  /\ Len(s) \in Nat /\ DOMAIN s = 1..Len(s)
         /\ s = [n \in 1..Len(s) |-> s[n]]
         /\ \A n \in 1..Len(s) : s[n] \in Range(s)
BY DEF IsSequence, Range

\* A function on positions is a sequence.
LEMMA SequenceFromFunction ==
  ASSUME NEW N \in Nat, NEW s, s = [n \in 1..N |-> s[n]]
  PROVE  IsSequence(s) /\ Len(s) = N /\ DOMAIN s = 1..N
<1>1. DOMAIN s = 1..N
  OBVIOUS
<1>2. s \in [1..N -> Range(s)]
  BY <1>1 DEF Range
<1>3. s \in Seq(Range(s)) /\ Len(s) = N
  BY <1>2
<1> QED
  BY <1>1, <1>3 DEF IsSequence

\* A sequence that holds what another does is one.
LEMMA SequenceOfSet ==
  ASSUME NEW T, NEW s \in Seq(T)
  PROVE  IsSequence(s)
<1>1. Len(s) \in Nat /\ s = [n \in 1..Len(s) |-> s[n]]
  OBVIOUS
<1> QED
  BY <1>1, SequenceFromFunction

LEMMA Joined ==
  ASSUME NEW T, NEW a \in Seq(T), NEW b \in Seq(T)
  PROVE  a \o b \in Seq(T) /\ Len(a \o b) = Len(a) + Len(b)
OBVIOUS

LEMMA Spelt ==
  ASSUME NEW T, NEW s \in Seq(T)
  PROVE  s = [n \in 1..Len(s) |-> s[n]]
OBVIOUS

\* s without what stands at n, and with e before it.
Without(s, n)    == [k \in 1..(Len(s) - 1) |-> IF k < n THEN s[k] ELSE s[k + 1]]
Holding(s, n, e) == [k \in 1..(Len(s) + 1) |-> IF k < n THEN s[k] ELSE IF k = n THEN e ELSE s[k - 1]]

LEMMA RemovedPlaces ==
  ASSUME NEW s, IsSequence(s), NEW n \in DOMAIN s
  PROVE  /\ RemoveAt(s, n) = Without(s, n)
         /\ IsSequence(RemoveAt(s, n)) /\ Len(RemoveAt(s, n)) = Len(s) - 1
<1>1. /\ Len(s) \in Nat /\ DOMAIN s = 1..Len(s) /\ n \in 1..Len(s) /\ s \in Seq(Range(s))
  BY SequenceFacts DEF IsSequence
<1> DEFINE front == SubSeq(s, 1, n - 1)
           back  == SubSeq(s, n + 1, Len(s))
<1>2. /\ front \in Seq(Range(s)) /\ Len(front) = n - 1
      /\ \A k \in 1..(n - 1) : front[k] = s[k]
  BY <1>1
<1>3. /\ back \in Seq(Range(s)) /\ Len(back) = Len(s) - n
      /\ \A k \in 1..(Len(s) - n) : back[k] = s[n + k]
  BY <1>1
<1> HIDE DEF front, back
<1> DEFINE r == front \o back
<1>4. r \in Seq(Range(s)) /\ Len(r) = Len(s) - 1
  <2>1. r \in Seq(Range(s)) /\ Len(r) = Len(front) + Len(back)
    BY <1>2, <1>3, Joined
  <2> QED
    BY <1>1, <1>2, <1>3, <2>1
<1>5. ASSUME NEW k \in 1..(Len(s) - 1) PROVE r[k] = IF k < n THEN s[k] ELSE s[k + 1]
  <2>1. CASE k < n
    BY <1>1, <1>2, <1>3, <2>1
  <2>2. CASE ~(k < n)
    <3>1. k - (n - 1) \in 1..(Len(s) - n) /\ n + (k - (n - 1)) = k + 1
      BY <1>1, <2>2
    <3>2. r[k] = back[k - (n - 1)]
      BY <1>1, <1>2, <1>3, <2>2
    <3> QED
      BY <1>3, <2>2, <3>1, <3>2
  <2> QED
    BY <2>1, <2>2
<1>6. r = [k \in 1..(Len(s) - 1) |-> r[k]]
  BY <1>4, Spelt
<1> HIDE DEF r
<1>7. r = [k \in 1..(Len(s) - 1) |-> IF k < n THEN s[k] ELSE s[k + 1]]
  BY <1>5, <1>6
<1>8. RemoveAt(s, n) = r
  BY DEF RemoveAt, r, front, back
<1> QED
  BY <1>4, <1>7, <1>8, SequenceOfSet DEF Without

LEMMA InsertedPlaces ==
  ASSUME NEW s, IsSequence(s), NEW n \in 1..(Len(s) + 1), NEW e
  PROVE  /\ InsertAt(s, n, e) = Holding(s, n, e)
         /\ IsSequence(InsertAt(s, n, e)) /\ Len(InsertAt(s, n, e)) = Len(s) + 1
<1> DEFINE T == Range(s) \cup {e}
<1>1. /\ Len(s) \in Nat /\ DOMAIN s = 1..Len(s) /\ s \in Seq(T) /\ e \in T
  BY SequenceFacts DEF IsSequence
<1> HIDE DEF T
<1> DEFINE front == SubSeq(s, 1, n - 1)
           back  == SubSeq(s, n, Len(s))
           mid   == front \o <<e>>
<1>2. /\ front \in Seq(T) /\ Len(front) = n - 1
      /\ \A k \in 1..(n - 1) : front[k] = s[k]
  BY <1>1
<1>3. /\ back \in Seq(T) /\ Len(back) = Len(s) - n + 1
      /\ \A k \in 1..(Len(s) - n + 1) : back[k] = s[n + k - 1]
  BY <1>1
<1> HIDE DEF front, back
<1>4. mid \in Seq(T) /\ Len(mid) = n /\ mid[n] = e /\ \A k \in 1..(n - 1) : mid[k] = s[k]
  <2>1. n - 1 \in Nat /\ (n - 1) + 1 = n
    BY <1>1
  <2>2. mid = Append(front, e)
    BY <1>1, <1>2
  <2>3. Len(Append(front, e)) = n /\ Append(front, e) \in Seq(T)
    BY <1>1, <1>2, <2>1
  <2>4. Append(front, e)[n] = e /\ \A k \in 1..(n - 1) : Append(front, e)[k] = front[k]
    BY <1>1, <1>2, <2>1
  <2> QED
    BY <1>2, <2>2, <2>3, <2>4
<1> HIDE DEF mid
<1> DEFINE r == mid \o back
<1>5. r \in Seq(T) /\ Len(r) = Len(s) + 1
  <2>1. r \in Seq(T) /\ Len(r) = Len(mid) + Len(back)
    BY <1>3, <1>4, Joined
  <2> QED
    BY <1>1, <1>3, <1>4, <2>1
<1>6. ASSUME NEW k \in 1..(Len(s) + 1)
      PROVE  r[k] = IF k < n THEN s[k] ELSE IF k = n THEN e ELSE s[k - 1]
  <2>1. CASE k <= n
    <3>1. r[k] = mid[k]
      BY <1>1, <1>3, <1>4, <2>1
    <3> QED
      BY <1>1, <1>4, <2>1, <3>1
  <2>2. CASE ~(k <= n)
    <3>1. k - n \in 1..(Len(s) - n + 1) /\ n + (k - n) - 1 = k - 1
      BY <1>1, <2>2
    <3>2. r[k] = back[k - n]
      BY <1>1, <1>3, <1>4, <2>2
    <3> QED
      BY <1>3, <2>2, <3>1, <3>2
  <2> QED
    BY <2>1, <2>2
<1>7. r = [k \in 1..(Len(s) + 1) |-> r[k]]
  BY <1>5, Spelt
<1> HIDE DEF r
<1>8. r = [k \in 1..(Len(s) + 1) |-> IF k < n THEN s[k] ELSE IF k = n THEN e ELSE s[k - 1]]
  BY <1>6, <1>7
<1>9. InsertAt(s, n, e) = r
  BY DEF InsertAt, r, mid, front, back
<1> QED
  BY <1>5, <1>8, <1>9, SequenceOfSet DEF Holding

LEMMA InsertedBack ==
  ASSUME NEW s, IsSequence(s), NEW n \in DOMAIN s
  PROVE  InsertAt(RemoveAt(s, n), n, s[n]) = s
<1>1. Len(s) \in Nat /\ n \in 1..Len(s) /\ s = [k \in 1..Len(s) |-> s[k]]
  BY SequenceFacts
<1>2. PICK r : r = RemoveAt(s, n)
  OBVIOUS
<1>3. IsSequence(r) /\ Len(r) = Len(s) - 1 /\ r = Without(s, n)
  BY <1>2, RemovedPlaces
<1>4. n \in 1..(Len(r) + 1) /\ Len(r) + 1 = Len(s)
  BY <1>1, <1>3
<1>5. InsertAt(r, n, s[n]) = Holding(r, n, s[n])
  BY <1>3, <1>4, InsertedPlaces
<1>6. Holding(r, n, s[n]) = [k \in 1..Len(s) |-> IF k < n THEN r[k] ELSE IF k = n THEN s[n] ELSE r[k - 1]]
  BY <1>4 DEF Holding
<1>7. ASSUME NEW k \in 1..Len(s)
      PROVE  s[k] = IF k < n THEN r[k] ELSE IF k = n THEN s[n] ELSE r[k - 1]
  BY <1>1, <1>3 DEF Without
<1>8. Holding(r, n, s[n]) = s
  BY <1>1, <1>6, <1>7
<1> QED
  BY <1>2, <1>5, <1>8

LEMMA RemovedAgain ==
  ASSUME NEW s, IsSequence(s), NEW n \in 1..(Len(s) + 1), NEW e
  PROVE  RemoveAt(InsertAt(s, n, e), n) = s
<1>1. Len(s) \in Nat /\ s = [k \in 1..Len(s) |-> s[k]]
  BY SequenceFacts
<1>2. PICK r : r = InsertAt(s, n, e)
  OBVIOUS
<1>3. IsSequence(r) /\ Len(r) = Len(s) + 1 /\ r = Holding(s, n, e)
  BY <1>2, InsertedPlaces
<1>4. n \in DOMAIN r /\ Len(r) - 1 = Len(s)
  BY <1>1, <1>3 DEF Holding
<1>5. RemoveAt(r, n) = Without(r, n)
  BY <1>3, <1>4, RemovedPlaces
<1>6. Without(r, n) = [k \in 1..Len(s) |-> IF k < n THEN r[k] ELSE r[k + 1]]
  BY <1>4 DEF Without
<1>7. ASSUME NEW k \in 1..Len(s) PROVE s[k] = IF k < n THEN r[k] ELSE r[k + 1]
  BY <1>1, <1>3 DEF Holding
<1>8. Without(r, n) = s
  BY <1>1, <1>6, <1>7
<1> QED
  BY <1>2, <1>5, <1>8

LEMMA AppendedAt ==
  ASSUME NEW L, IsSequence(L), NEW a
  PROVE  /\ IsSequence(Append(L, a)) /\ DOMAIN Append(L, a) = 1..(Len(L) + 1)
         /\ Append(L, a)[Len(L) + 1] = a /\ \A n \in 1..Len(L) : Append(L, a)[n] = L[n]
<1> DEFINE T == Range(L) \cup {a}
<1>1. L \in Seq(T) /\ a \in T
  BY DEF IsSequence
<1> HIDE DEF T
<1>2. /\ Append(L, a) \in Seq(T) /\ Len(Append(L, a)) = Len(L) + 1
      /\ Append(L, a)[Len(L) + 1] = a /\ \A n \in 1..Len(L) : Append(L, a)[n] = L[n]
  BY <1>1
<1>3. IsSequence(Append(L, a))
  BY <1>2, SequenceOfSet
<1> QED
  BY <1>2, <1>3, SequenceFacts

-----------------------------------------------------------------------------
(* Edits of a block of a function.                                          *)

\* f with another block at b.
Rebuilt(f, b, q) ==
  [args |-> f.args, order |-> f.order, body |-> [c \in DOMAIN f.body |-> IF c = b THEN q ELSE f.body[c]]]

LEMMA RebuiltFacts ==
  ASSUME NEW f, NEW b \in DOMAIN f.body, NEW q, NEW g, g = Rebuilt(f, b, q)
  PROVE  /\ g = [args |-> g.args, order |-> g.order, body |-> g.body]
         /\ g.args = f.args /\ g.order = f.order /\ DOMAIN g.body = DOMAIN f.body
         /\ g.body = [c \in DOMAIN g.body |-> g.body[c]]
         /\ g.body[b] = q /\ \A c \in DOMAIN f.body : c # b => g.body[c] = f.body[c]
BY DEF Rebuilt

LEMMA RebuiltFormed ==
  ASSUME NEW f, Formed(f), NEW b \in DOMAIN f.body, NEW q, IsSequence(q)
  PROVE  Formed(Rebuilt(f, b, q))
<1>1. PICK g : g = Rebuilt(f, b, q)
  OBVIOUS
<1>2. /\ g = [args |-> g.args, order |-> g.order, body |-> g.body]
      /\ g.order = f.order /\ DOMAIN g.body = DOMAIN f.body
      /\ g.body = [c \in DOMAIN g.body |-> g.body[c]]
      /\ g.body[b] = q /\ \A c \in DOMAIN f.body : c # b => g.body[c] = f.body[c]
  BY <1>1, RebuiltFacts
<1>3. g.order \in Seq(DOMAIN g.body)
  BY <1>2 DEF Formed
<1>4. \A c \in DOMAIN g.body : IsSequence(g.body[c])
  BY <1>2 DEF Formed
<1>5. Formed(g)
  BY <1>2, <1>3, <1>4 DEF Formed
<1> QED
  BY <1>1, <1>5

LEMMA RebuiltTwice ==
  ASSUME NEW f, Formed(f), NEW b \in DOMAIN f.body, NEW q
  PROVE  Rebuilt(Rebuilt(f, b, q), b, f.body[b]) = f
<1>1. PICK g : g = Rebuilt(f, b, q)
  OBVIOUS
<1>2. /\ g = [args |-> g.args, order |-> g.order, body |-> g.body]
      /\ g.args = f.args /\ g.order = f.order /\ DOMAIN g.body = DOMAIN f.body
      /\ g.body = [c \in DOMAIN g.body |-> g.body[c]]
      /\ g.body[b] = q /\ \A c \in DOMAIN f.body : c # b => g.body[c] = f.body[c]
  BY <1>1, RebuiltFacts
<1>3. [c \in DOMAIN g.body |-> IF c = b THEN f.body[b] ELSE g.body[c]] = [c \in DOMAIN f.body |-> f.body[c]]
  BY <1>2
<1>4. f = [args |-> f.args, order |-> f.order, body |-> [c \in DOMAIN f.body |-> f.body[c]]]
  BY DEF Formed
<1>5. Rebuilt(g, b, f.body[b]) = f
  BY <1>2, <1>3, <1>4 DEF Rebuilt
<1> QED
  BY <1>1, <1>5

\* The three edits.
LEMMA EditRebuilds ==
  ASSUME NEW f, Formed(f), NEW b \in DOMAIN f.body, NEW q
  PROVE  [f EXCEPT !.body[b] = q] = Rebuilt(f, b, q)
<1>1. f = [args |-> f.args, order |-> f.order, body |-> f.body]
      /\ f.body = [c \in DOMAIN f.body |-> f.body[c]]
  BY DEF Formed
<1>2. [f EXCEPT !.body[b] = q] = [f EXCEPT !.body = [f.body EXCEPT ![b] = q]]
  OBVIOUS
<1>3. [f.body EXCEPT ![b] = q] = [c \in DOMAIN f.body |-> IF c = b THEN q ELSE f.body[c]]
  BY <1>1
<1>4. ASSUME NEW r
      PROVE  [f EXCEPT !.body = r] = [args |-> f.args, order |-> f.order, body |-> r]
  <2>1. \A a, o, d : [[args |-> a, order |-> o, body |-> d] EXCEPT !.body = r] =
                       [args |-> a, order |-> o, body |-> r]
    OBVIOUS
  <2>2. [[args |-> f.args, order |-> f.order, body |-> f.body] EXCEPT !.body = r] =
          [args |-> f.args, order |-> f.order, body |-> r]
    BY <2>1
  <2> QED
    BY <1>1, <2>2, Zenon
<1> QED
  BY <1>2, <1>3, <1>4 DEF Rebuilt

LEMMA ReplacedIs ==
  ASSUME NEW f, Formed(f), NEW b \in DOMAIN f.body, NEW n, NEW i, NEW r, r = [f.body[b] EXCEPT ![n] = i]
  PROVE  Replaced(f, b, n, i) = Rebuilt(f, b, r)
<1>1. Replaced(f, b, n, i) = [f EXCEPT !.body[b] = r]
  BY DEF Replaced
<1>2. [f EXCEPT !.body[b] = r] = Rebuilt(f, b, r)
  BY EditRebuilds
<1> QED
  BY <1>1, <1>2, Zenon

LEMMA RemovedIs ==
  ASSUME NEW f, Formed(f), NEW b \in DOMAIN f.body, NEW n, NEW r, r = RemoveAt(f.body[b], n)
  PROVE  Removed(f, b, n) = Rebuilt(f, b, r)
<1>1. Removed(f, b, n) = [f EXCEPT !.body[b] = r]
  BY DEF Removed
<1>2. [f EXCEPT !.body[b] = r] = Rebuilt(f, b, r)
  BY EditRebuilds
<1> QED
  BY <1>1, <1>2, Zenon

LEMMA InsertedIs ==
  ASSUME NEW f, Formed(f), NEW b \in DOMAIN f.body, NEW n, NEW i, NEW r, r = InsertAt(f.body[b], n, i)
  PROVE  Inserted(f, b, n, i) = Rebuilt(f, b, r)
<1>1. Inserted(f, b, n, i) = [f EXCEPT !.body[b] = r]
  BY DEF Inserted
<1>2. [f EXCEPT !.body[b] = r] = Rebuilt(f, b, r)
  BY EditRebuilds
<1> QED
  BY <1>1, <1>2, Zenon

LEMMA ExceptSequence ==
  ASSUME NEW q, IsSequence(q), NEW n \in DOMAIN q, NEW i
  PROVE  /\ IsSequence([q EXCEPT ![n] = i]) /\ DOMAIN [q EXCEPT ![n] = i] = DOMAIN q
         /\ [[q EXCEPT ![n] = i] EXCEPT ![n] = q[n]] = q
<1>1. Len(q) \in Nat /\ DOMAIN q = 1..Len(q) /\ q = [k \in 1..Len(q) |-> q[k]]
  BY SequenceFacts
<1>2. PICK r : r = [q EXCEPT ![n] = i]
  OBVIOUS
<1>3. r = [k \in 1..Len(q) |-> r[k]] /\ DOMAIN r = DOMAIN q
      /\ \A k \in 1..Len(q) : k # n => r[k] = q[k]
  BY <1>1, <1>2
<1>4. IsSequence(r)
  BY <1>1, <1>3, SequenceFromFunction
<1>5. [r EXCEPT ![n] = q[n]] = q
  BY <1>1, <1>3
<1> QED
  BY <1>2, <1>3, <1>4, <1>5

-----------------------------------------------------------------------------
(* The log of a scope leads back to the function.                           *)

\* The last action is taken back first.
LEMMA UndoneLast ==
  ASSUME NEW L, IsSequence(L), NEW a, NEW g
  PROVE  Undone(Append(L, a), g) = Undone(L, undo_one(a, g))
<1>1. PICK N : N = Len(L) /\ N \in Nat /\ DOMAIN L = 1..N
  BY SequenceFacts
<1>2. PICK M : M = N + 1 /\ M \in Nat
  BY <1>1
<1>9. PICK P : P = Append(L, a)
  OBVIOUS
<1>3. DOMAIN P = 1..M /\ P[M] = a /\ \A n \in 1..N : P[n] = L[n]
  BY <1>1, <1>2, <1>9, AppendedAt
<1>4. PICK h : /\ h[M + 1] = g /\ \A j \in 1..M : h[j] = undo_one(P[j], h[j + 1])
               /\ Undone(P, g) = h[1]
  BY <1>2, <1>3, UndoSteps
<1>10. PICK e : e = undo_one(a, g)
  OBVIOUS
<1>5. PICK f : /\ f[N + 1] = e /\ \A j \in 1..N : f[j] = undo_one(L[j], f[j + 1])
               /\ Undone(L, e) = f[1]
  <2>1. N \in Nat /\ DOMAIN L = 1..N
    BY <1>1
  <2> QED
    BY <2>1, UndoSteps
<1> DEFINE Bad == {k \in 0..N : h[N + 1 - k] # f[N + 1 - k]}
<1>6. h[N + 1] = f[N + 1]
  BY <1>1, <1>2, <1>3, <1>4, <1>5, <1>10
<1>7. Bad = {}
  <2> SUFFICES ASSUME Bad # {} PROVE FALSE
    OBVIOUS
  <2>1. PICK m \in Bad : \A y \in Bad : m <= y
    <3>1. Bad \subseteq Nat
      BY <1>1
    <3> HIDE DEF Bad
    <3> QED
      BY <3>1, LeastNatural
  <2>2. m \in 0..N /\ m # 0 /\ h[N + 1 - m] # f[N + 1 - m]
    BY <1>1, <1>6, <2>1
  <2>3. PICK j : j = N + 1 - m /\ j \in 1..N /\ j \in 1..M /\ j + 1 = N + 1 - (m - 1)
    BY <1>1, <1>2, <2>2
  <2>4. h[j + 1] = f[j + 1]
    <3>1. m - 1 \in 0..N /\ m - 1 \notin Bad
      BY <1>1, <2>1, <2>2
    <3> QED
      BY <2>3, <3>1
  <2>5. h[j] = f[j]
    BY <1>3, <1>4, <1>5, <2>3, <2>4
  <2> QED
    BY <2>2, <2>3, <2>5
<1>8. h[1] = f[1]
  <2>1. N \in 0..N /\ N + 1 - N = 1 /\ N \notin Bad
    BY <1>1, <1>7
  <2> QED
    BY <2>1
<1> QED
  BY <1>4, <1>5, <1>8, <1>9, <1>10

\* With nothing done there is nothing to take back.
LEMMA UndoneNothing ==
  ASSUME NEW f
  PROVE  undo_all(ScopeOf(f)) = f
<1>1. DOMAIN (<<>>) = 1..0 /\ 0 \in Nat
  OBVIOUS
<1>2. PICK h : h[0 + 1] = f /\ Undone(<<>>, f) = h[1]
  BY <1>1, UndoSteps
<1>3. Undone(<<>>, f) = f
  BY <1>2
<1> QED
  BY <1>3 DEF undo_all, ScopeOf, Undone

\* s holds a function and, in its log, the way back from it to f.
LeadsBack(s, f) == Formed(s.fn) /\ IsSequence(s.log) /\ Undone(s.log, s.fn) = f
\* The same blocks with as many places.
Alike(g, f) ==
  /\ g.order = f.order /\ DOMAIN g.body = DOMAIN f.body
  /\ \A b \in DOMAIN f.body : DOMAIN g.body[b] = DOMAIN f.body[b]

LEMMA BlocksAre ==
  ASSUME NEW f, Formed(f)
  PROVE  /\ Blocks(f) \subseteq DOMAIN f.body /\ IsSequence(f.order)
         /\ \A b \in DOMAIN f.body : IsSequence(f.body[b])
<1>1. f.order \in Seq(DOMAIN f.body)
  BY DEF Formed
<1>2. Blocks(f) \subseteq DOMAIN f.body
  BY <1>1 DEF Blocks, Range
<1> QED
  BY <1>1, <1>2, SequenceOfSet DEF Formed

\* An action that can be taken back is put at the end of the log.
LEMMA RecordedBack ==
  ASSUME NEW s, NEW f, LeadsBack(s, f), NEW g, Formed(g), NEW type, NEW b, NEW n, NEW saved,
         undo_one([type |-> type, block |-> b, pos |-> n, saved |-> saved], g) = s.fn
  PROVE  LeadsBack(Recorded(s, g, type, b, n, saved), f) /\ Recorded(s, g, type, b, n, saved).fn = g
<1>1. PICK a : a = [type |-> type, block |-> b, pos |-> n, saved |-> saved]
  OBVIOUS
<1>2. PICK t : t = Recorded(s, g, type, b, n, saved)
  OBVIOUS
<1>3. t.fn = g /\ t.log = Append(s.log, a)
  BY <1>1, <1>2 DEF Recorded
<1>4. undo_one(a, g) = s.fn
  BY <1>1
<1>5. IsSequence(s.log) /\ Undone(s.log, s.fn) = f
  BY DEF LeadsBack
<1>6. Undone(Append(s.log, a), g) = Undone(s.log, undo_one(a, g))
  BY <1>5, UndoneLast
<1>7. IsSequence(t.log) /\ Undone(t.log, t.fn) = f
  BY <1>3, <1>4, <1>5, <1>6, AppendedAt
<1> QED
  BY <1>2, <1>3, <1>7 DEF LeadsBack

LEMMA ReplaceBack ==
  ASSUME NEW s, NEW f, LeadsBack(s, f), NEW b \in DOMAIN s.fn.body, NEW n \in DOMAIN s.fn.body[b], NEW i
  PROVE  LeadsBack(record_replace(s, b, n, i), f) /\ Alike(record_replace(s, b, n, i).fn, s.fn)
<1>1. PICK o, q : o = s.fn /\ q = o.body[b]
  OBVIOUS
<1>2. Formed(o) /\ IsSequence(q) /\ b \in DOMAIN o.body /\ n \in DOMAIN q
  BY <1>1 DEF LeadsBack, Formed
<1>3. PICK r : r = [q EXCEPT ![n] = i]
  OBVIOUS
<1>4. IsSequence(r) /\ DOMAIN r = DOMAIN q /\ [r EXCEPT ![n] = q[n]] = q
  BY <1>2, <1>3, ExceptSequence
<1>5. PICK g : g = Rebuilt(o, b, r)
  OBVIOUS
<1>6. Formed(g)
  BY <1>2, <1>4, <1>5, RebuiltFormed
<1>7. /\ g = [args |-> g.args, order |-> g.order, body |-> g.body]
      /\ g.args = o.args /\ g.order = o.order /\ DOMAIN g.body = DOMAIN o.body
      /\ g.body = [c \in DOMAIN g.body |-> g.body[c]]
      /\ g.body[b] = r /\ \A c \in DOMAIN o.body : c # b => g.body[c] = o.body[c]
  BY <1>2, <1>5, RebuiltFacts
<1>8. Replaced(o, b, n, i) = g
  BY <1>1, <1>2, <1>3, <1>5, ReplacedIs
<1>9. Replaced(g, b, n, q[n]) = o
  <2>1. b \in DOMAIN g.body /\ [g.body[b] EXCEPT ![n] = q[n]] = q
    BY <1>2, <1>4, <1>7
  <2>2. Replaced(g, b, n, q[n]) = Rebuilt(g, b, q)
    BY <1>6, <2>1, ReplacedIs
  <2> QED
    BY <1>1, <1>2, <1>5, <2>2, RebuiltTwice
<1>10. PICK a : a = [type |-> "Replace", block |-> b, pos |-> n, saved |-> <<q[n]>>]
  OBVIOUS
<1>11. undo_one(a, g) = o
  <2>1. a.type = "Replace" /\ a.block = b /\ a.pos = n /\ a.saved[1] = q[n]
    BY <1>10
  <2>2. n \in DOMAIN g.body[b]
    BY <1>2, <1>4, <1>7
  <2> QED
    BY <1>9, <2>1, <2>2 DEF undo_one
<1>12. PICK saved : saved = <<q[n]>>
  OBVIOUS
<1>13. LeadsBack(Recorded(s, g, "Replace", b, n, saved), f) /\ Recorded(s, g, "Replace", b, n, saved).fn = g
  BY <1>1, <1>6, <1>10, <1>11, <1>12, RecordedBack
<1>14. record_replace(s, b, n, i) = Recorded(s, g, "Replace", b, n, saved)
  BY <1>1, <1>8, <1>12 DEF record_replace
<1>15. Alike(g, o)
  BY <1>1, <1>4, <1>7 DEF Alike
<1> QED
  BY <1>1, <1>13, <1>14, <1>15

LEMMA RemoveBack ==
  ASSUME NEW s, NEW f, LeadsBack(s, f), NEW b \in DOMAIN s.fn.body, NEW n \in DOMAIN s.fn.body[b]
  PROVE  LeadsBack(record_remove(s, b, n), f)
<1>1. PICK o, q : o = s.fn /\ q = o.body[b]
  OBVIOUS
<1>2. Formed(o) /\ IsSequence(q) /\ b \in DOMAIN o.body /\ n \in DOMAIN q
  BY <1>1 DEF LeadsBack, Formed
<1>3. PICK r : r = RemoveAt(q, n)
  OBVIOUS
<1>4. IsSequence(r) /\ InsertAt(r, n, q[n]) = q
  BY <1>2, <1>3, RemovedPlaces, InsertedBack
<1>5. PICK g : g = Rebuilt(o, b, r)
  OBVIOUS
<1>6. Formed(g)
  BY <1>2, <1>4, <1>5, RebuiltFormed
<1>7. /\ g = [args |-> g.args, order |-> g.order, body |-> g.body]
      /\ g.args = o.args /\ g.order = o.order /\ DOMAIN g.body = DOMAIN o.body
      /\ g.body = [c \in DOMAIN g.body |-> g.body[c]]
      /\ g.body[b] = r /\ \A c \in DOMAIN o.body : c # b => g.body[c] = o.body[c]
  BY <1>2, <1>5, RebuiltFacts
<1>8. Removed(o, b, n) = g
  BY <1>1, <1>2, <1>3, <1>5, RemovedIs
<1>9. Inserted(g, b, n, q[n]) = o
  <2>1. b \in DOMAIN g.body /\ InsertAt(g.body[b], n, q[n]) = q
    BY <1>2, <1>4, <1>7
  <2>2. Inserted(g, b, n, q[n]) = Rebuilt(g, b, q)
    BY <1>6, <2>1, InsertedIs
  <2> QED
    BY <1>1, <1>2, <1>5, <2>2, RebuiltTwice
<1>10. PICK saved : saved = <<q[n]>>
  OBVIOUS
<1>11. undo_one([type |-> "Remove", block |-> b, pos |-> n, saved |-> saved], g) = o
  BY <1>9, <1>10 DEF undo_one
<1>12. LeadsBack(Recorded(s, g, "Remove", b, n, saved), f)
  BY <1>1, <1>6, <1>11, RecordedBack
<1>13. record_remove(s, b, n) = Recorded(s, g, "Remove", b, n, saved)
  BY <1>1, <1>8, <1>10 DEF record_remove
<1> QED
  BY <1>12, <1>13

LEMMA InsertBack ==
  ASSUME NEW s, NEW f, LeadsBack(s, f), NEW b \in DOMAIN s.fn.body, NEW n \in 1..(Len(s.fn.body[b]) + 1), NEW i
  PROVE  LeadsBack(record_insert(s, b, n, i), f)
<1>1. PICK o, q : o = s.fn /\ q = o.body[b]
  OBVIOUS
<1>2. Formed(o) /\ IsSequence(q) /\ b \in DOMAIN o.body /\ n \in 1..(Len(q) + 1)
  BY <1>1 DEF LeadsBack, Formed
<1>3. PICK r : r = InsertAt(q, n, i)
  OBVIOUS
<1>4. IsSequence(r) /\ Len(r) = Len(q) + 1 /\ RemoveAt(r, n) = q
  BY <1>2, <1>3, InsertedPlaces, RemovedAgain
<1>5. PICK g : g = Rebuilt(o, b, r)
  OBVIOUS
<1>6. Formed(g)
  BY <1>2, <1>4, <1>5, RebuiltFormed
<1>7. /\ g = [args |-> g.args, order |-> g.order, body |-> g.body]
      /\ g.args = o.args /\ g.order = o.order /\ DOMAIN g.body = DOMAIN o.body
      /\ g.body = [c \in DOMAIN g.body |-> g.body[c]]
      /\ g.body[b] = r /\ \A c \in DOMAIN o.body : c # b => g.body[c] = o.body[c]
  BY <1>2, <1>5, RebuiltFacts
<1>8. Inserted(o, b, n, i) = g
  BY <1>1, <1>2, <1>3, <1>5, InsertedIs
<1>9. Removed(g, b, n) = o
  <2>1. b \in DOMAIN g.body /\ RemoveAt(g.body[b], n) = q
    BY <1>2, <1>4, <1>7
  <2>2. Removed(g, b, n) = Rebuilt(g, b, q)
    BY <1>6, <2>1, RemovedIs
  <2> QED
    BY <1>1, <1>2, <1>5, <2>2, RebuiltTwice
<1>10. n \in DOMAIN g.body[b]
  BY <1>2, <1>4, <1>7, SequenceFacts
<1>11. PICK saved : saved = <<>>
  OBVIOUS
<1>12. undo_one([type |-> "Insert", block |-> b, pos |-> n, saved |-> saved], g) = o
  BY <1>9, <1>10 DEF undo_one
<1>13. LeadsBack(Recorded(s, g, "Insert", b, n, saved), f)
  BY <1>1, <1>6, <1>12, RecordedBack
<1>14. record_insert(s, b, n, i) = Recorded(s, g, "Insert", b, n, saved)
  BY <1>1, <1>8, <1>11 DEF record_insert
<1> QED
  BY <1>13, <1>14

LEMMA AlikeTransitive ==
  ASSUME NEW f, NEW g, NEW h, Alike(h, g), Alike(g, f)
  PROVE  Alike(h, f)
BY DEF Alike

LEMMA CloneBack ==
  ASSUME NEW s, NEW f, LeadsBack(s, f), NEW b \in DOMAIN s.fn.body, NEW n \in DOMAIN s.fn.body[b],
         NEW x, NEW v
  PROVE  LeadsBack(CloneUser(s, b, n, x, v), f) /\ Alike(CloneUser(s, b, n, x, v).fn, s.fn)
<1>1. CASE x \in Range(s.fn.body[b][n].args)
  <2>1. PICK i : i = Resolved(s.fn.body[b][n], x :> v)
    OBVIOUS
  <2>2. CloneUser(s, b, n, x, v) = record_replace(s, b, n, i)
    BY <1>1, <2>1 DEF CloneUser
  <2> QED
    BY <2>2, ReplaceBack
<1>2. CASE x \notin Range(s.fn.body[b][n].args)
  <2>1. CloneUser(s, b, n, x, v) = s
    BY <1>2 DEF CloneUser
  <2> QED
    BY <2>1 DEF Alike
<1> QED
  BY <1>1, <1>2

\* All places of a block.
LEMMA CloneBlockBack ==
  ASSUME NEW s, NEW f, LeadsBack(s, f), NEW b \in DOMAIN s.fn.body, NEW x, NEW v
  PROVE  LeadsBack(CloneUsersIn(s, b, x, v), f) /\ Alike(CloneUsersIn(s, b, x, v).fn, s.fn)
<1>1. PICK N : N \in Nat /\ DOMAIN s.fn.body[b] = 1..N
  BY SequenceFacts DEF LeadsBack, Formed
<1>2. PICK L : L = [k \in DOMAIN s.fn.body[b] |-> k]
  OBVIOUS
<1>3. DOMAIN L = 1..N /\ \A k \in 1..N : L[k] = k
  BY <1>1, <1>2
<1>4. PICK h : /\ h[0] = s /\ \A j \in 1..N : h[j] = CloneUser(h[j - 1], b, L[j], x, v)
               /\ ClonedAt(s, b, x, v, L) = h[N]
  BY <1>1, <1>3, CloneSteps
<1>5. CloneUsersIn(s, b, x, v) = h[N]
  BY <1>2, <1>4 DEF CloneUsersIn, FoldLeftDomain, ClonedAt
<1> DEFINE Good(j) == LeadsBack(h[j], f) /\ Alike(h[j].fn, s.fn)
           Bad == {j \in 0..N : ~Good(j)}
<1>6. Good(0)
  BY <1>4 DEF Alike
<1>7. ASSUME NEW j \in 1..N, Good(j - 1) PROVE Good(j)
  <2>1. PICK t : t = h[j - 1] /\ LeadsBack(t, f) /\ Alike(t.fn, s.fn)
    BY <1>7
  <2>2. b \in DOMAIN t.fn.body /\ j \in DOMAIN t.fn.body[b]
    BY <1>1, <2>1 DEF Alike
  <2>3. h[j] = CloneUser(t, b, j, x, v)
    BY <1>3, <1>4, <2>1
  <2>4. LeadsBack(h[j], f) /\ Alike(h[j].fn, t.fn)
    BY <2>1, <2>2, <2>3, CloneBack
  <2> QED
    BY <2>1, <2>4, AlikeTransitive
<1> HIDE DEF Good
<1>8. Bad = {}
  <2> SUFFICES ASSUME Bad # {} PROVE FALSE
    OBVIOUS
  <2>1. PICK m \in Bad : \A y \in Bad : m <= y
    <3>1. Bad \subseteq Nat
      BY <1>1
    <3> HIDE DEF Bad
    <3> QED
      BY <3>1, LeastNatural
  <2>2. m \in 1..N /\ m - 1 \in 0..N /\ ~Good(m) /\ m - 1 \notin Bad
    BY <1>1, <1>6, <2>1
  <2> QED
    BY <1>7, <2>2
<1>9. Good(N)
  BY <1>1, <1>8
<1> QED
  BY <1>5, <1>9 DEF Good

\* All blocks.
LEMMA CloneAllBack ==
  ASSUME NEW s, NEW f, LeadsBack(s, f), NEW x, NEW v
  PROVE  /\ LeadsBack(replace_all_uses_scoped(s, x, v), f)
         /\ Alike(replace_all_uses_scoped(s, x, v).fn, s.fn)
<1>1. PICK L : L = s.fn.order
  OBVIOUS
<1>2. PICK N : N \in Nat /\ DOMAIN L = 1..N
  BY <1>1, BlocksAre, SequenceFacts DEF LeadsBack
<1>3. \A k \in 1..N : L[k] \in DOMAIN s.fn.body
  BY <1>1, <1>2, BlocksAre DEF LeadsBack, Blocks, Range
<1>4. PICK h : /\ h[0] = s /\ \A j \in 1..N : h[j] = CloneUsersIn(h[j - 1], L[j], x, v)
               /\ ClonedIn(s, x, v, L) = h[N]
  BY <1>2, BlockSteps
<1>5. replace_all_uses_scoped(s, x, v) = h[N]
  BY <1>1, <1>4 DEF replace_all_uses_scoped, ClonedIn
<1> DEFINE Good(j) == LeadsBack(h[j], f) /\ Alike(h[j].fn, s.fn)
           Bad == {j \in 0..N : ~Good(j)}
<1>6. Good(0)
  BY <1>4 DEF Alike
<1>7. ASSUME NEW j \in 1..N, Good(j - 1) PROVE Good(j)
  <2>1. PICK t : t = h[j - 1] /\ LeadsBack(t, f) /\ Alike(t.fn, s.fn)
    BY <1>7
  <2>2. PICK b : b = L[j]
    OBVIOUS
  <2>3. b \in DOMAIN t.fn.body
    BY <1>3, <2>1, <2>2 DEF Alike
  <2>4. h[j] = CloneUsersIn(t, b, x, v)
    BY <1>4, <2>1, <2>2
  <2>5. LeadsBack(h[j], f) /\ Alike(h[j].fn, t.fn)
    BY <2>1, <2>3, <2>4, CloneBlockBack
  <2> QED
    BY <2>1, <2>5, AlikeTransitive
<1> HIDE DEF Good
<1>8. Bad = {}
  <2> SUFFICES ASSUME Bad # {} PROVE FALSE
    OBVIOUS
  <2>1. PICK m \in Bad : \A y \in Bad : m <= y
    <3>1. Bad \subseteq Nat
      BY <1>2
    <3> HIDE DEF Bad
    <3> QED
      BY <3>1, LeastNatural
  <2>2. m \in 1..N /\ m - 1 \in 0..N /\ ~Good(m) /\ m - 1 \notin Bad
    BY <1>2, <1>6, <2>1
  <2> QED
    BY <1>7, <2>2
<1>9. Good(N)
  BY <1>2, <1>8
<1> QED
  BY <1>5, <1>9 DEF Good

\* The edit of a place whose users are gone.
LEMMA UsesGoneBack ==
  ASSUME NEW s, NEW f, LeadsBack(s, f), NEW b \in DOMAIN s.fn.body, NEW n \in DOMAIN s.fn.body[b], NEW v
  PROVE  LeadsBack(UsesGoneScoped(s, b, n, v), f)
<1>1. PICK x : x = s.fn.body[b][n].name
  OBVIOUS
<1>2. PICK t : t = replace_all_uses_scoped(s, x, v)
  OBVIOUS
<1>3. LeadsBack(t, f) /\ Alike(t.fn, s.fn)
  BY <1>2, CloneAllBack
<1>4. b \in DOMAIN t.fn.body /\ n \in DOMAIN t.fn.body[b]
  BY <1>3 DEF Alike
<1>5. UsesGoneScoped(s, b, n, v) = record_remove(t, b, n)
  BY <1>1, <1>2 DEF UsesGoneScoped
<1> QED
  BY <1>3, <1>4, <1>5, RemoveBack

LEMMA NothingDone ==
  ASSUME NEW f, Formed(f)
  PROVE  LeadsBack(ScopeOf(f), f) /\ ScopeOf(f).fn = f
<1>1. PICK s : s = ScopeOf(f)
  OBVIOUS
<1>2. s.fn = f /\ s.log = <<>> /\ IsSequence(s.log)
  BY <1>1 DEF ScopeOf, IsSequence
<1>3. Undone(s.log, s.fn) = f
  BY <1>1, UndoneNothing DEF undo_all, Undone
<1> QED
  BY <1>1, <1>2, <1>3 DEF LeadsBack

-----------------------------------------------------------------------------
(* Whatever a mutation does can be taken back.                              *)

\* The kinds that have an implementation, and a move of one of them.
InPlaceKinds ==
  {"StrengthReduce", "FoldConstant", "CombineInstructions", "SimplifyIdentity", "EliminateCommonSubexpr",
   "SwapInstructions", "OpcodeReplace", "OperandReplace", "OperandSwap", "InstructionInsert",
   "InstructionReplace", "DeleteInstruction", "ReplaceInstruction", "SubstituteVariable", "UnrollLoop"}
IsMove(f, m) == m.kind \in InPlaceKinds /\ m.block \in Blocks(f)

LEMMA AtFacts ==
  ASSUME NEW f, NEW b, NEW n, NEW i \in At(f, b, n)
  PROVE  b \in Blocks(f) /\ n \in DOMAIN f.body[b]
BY DEF At

\* A replacement of the instruction at a place.
LEMMA OtherAt ==
  ASSUME NEW f, NEW b, NEW n, NEW k, NEW r,
         r \in OtherOpcodes(f, b, n) \cup OtherOperands(f, b, n, k)
                 \cup SwappedOperands(f, b, n) \cup OtherInstructions(f, b, n)
  PROVE  b \in Blocks(f) /\ n \in DOMAIN f.body[b]
<1>1. \E i : i \in At(f, b, n)
  <2>1. CASE r \in OtherOpcodes(f, b, n)
    BY <2>1 DEF OtherOpcodes
  <2>2. CASE r \in OtherOperands(f, b, n, k)
    BY <2>2 DEF OtherOperands
  <2>3. CASE r \in SwappedOperands(f, b, n)
    BY <2>3 DEF SwappedOperands
  <2>4. CASE r \in OtherInstructions(f, b, n)
    BY <2>4 DEF OtherInstructions
  <2> QED
    BY <2>1, <2>2, <2>3, <2>4
<1> QED
  BY <1>1, AtFacts

LEMMA CombinedAt ==
  ASSUME NEW f, NEW b, NEW m, NEW n, NEW c \in build_combined_instruction(f, b, m, n)
  PROVE  b \in Blocks(f) /\ m \in DOMAIN f.body[b] /\ n \in DOMAIN f.body[b]
<1>1. (\E i : i \in At(f, b, m)) /\ \E j : j \in At(f, b, n)
  BY DEF build_combined_instruction
<1> QED
  BY <1>1, AtFacts

LEMMA NewAt ==
  ASSUME NEW f, NEW b, NEW n, NEW k, NEW i \in NewInstructions(f, b, n, k)
  PROVE  b \in Blocks(f) /\ n \in 1..(Len(f.body[b]) + 1)
BY DEF NewInstructions

LEMMA DeadAt ==
  ASSUME NEW f, NEW b, NEW n, is_dead_instruction(f, b, n)
  PROVE  b \in Blocks(f) /\ n \in DOMAIN f.body[b]
BY AtFacts DEF is_dead_instruction

\* Whatever a mutation does to the live function, its log leads back.
LEMMA MutationBack ==
  ASSUME NEW f, Formed(f), NEW m, IsMove(f, m), NEW k, NEW s \in MutationInPlace(ScopeOf(f), m, k)
  PROVE  LeadsBack(s, f)
<1>1. PICK z : z = ScopeOf(f)
  OBVIOUS
<1>2. LeadsBack(z, f) /\ z.fn = f
  BY <1>1, NothingDone
<1>3. PICK b, n : b = m.block /\ n = m.pos
  OBVIOUS
<1>4. b \in Blocks(f) /\ Blocks(f) \subseteq DOMAIN f.body
  BY <1>3, BlocksAre DEF IsMove
<1>5. ASSUME n \in DOMAIN f.body[b], NEW i, s = record_replace(z, b, n, i) PROVE LeadsBack(s, f)
  BY <1>2, <1>4, <1>5, ReplaceBack
<1>6. ASSUME n \in DOMAIN f.body[b], NEW v, s = UsesGoneScoped(z, b, n, v) PROVE LeadsBack(s, f)
  BY <1>2, <1>4, <1>6, UsesGoneBack
<1>7. CASE m.kind = "StrengthReduce"
  <2>1. s \in strength_reduce_in_place(z, b, n)
    BY <1>1, <1>3, <1>7 DEF MutationInPlace
  <2>2. PICK i \in At(f, b, n) : \E r : s = record_replace(z, b, n, r)
    BY <1>2, <2>1 DEF strength_reduce_in_place
  <2> QED
    BY <1>5, <2>2, AtFacts
<1>8. CASE m.kind = "FoldConstant"
  <2>1. s \in fold_constant_in_place(z, b, n)
    BY <1>1, <1>3, <1>8 DEF MutationInPlace
  <2>2. PICK i \in At(f, b, n) : \E v : s = UsesGoneScoped(z, b, n, v)
    BY <1>2, <2>1 DEF fold_constant_in_place
  <2> QED
    BY <1>6, <2>2, AtFacts
<1>9. CASE m.kind = "CombineInstructions"
  <2>1. PICK p : p = SecondOf(m)
    OBVIOUS
  <2>2. s \in combine_instructions_in_place(z, b, n, p)
    BY <1>1, <1>3, <1>9, <2>1 DEF MutationInPlace
  <2>3. PICK c \in build_combined_instruction(f, b, n, p) : s = record_remove(record_replace(z, b, p, c), b, n)
    BY <1>2, <2>2 DEF combine_instructions_in_place
  <2>4. n \in DOMAIN f.body[b] /\ p \in DOMAIN f.body[b]
    BY CombinedAt
  <2>5. PICK t : t = record_replace(z, b, p, c)
    OBVIOUS
  <2>6. LeadsBack(t, f) /\ Alike(t.fn, f)
    BY <1>2, <1>4, <2>4, <2>5, ReplaceBack
  <2>7. b \in DOMAIN t.fn.body /\ n \in DOMAIN t.fn.body[b]
    BY <1>4, <2>4, <2>6 DEF Alike
  <2> QED
    BY <2>3, <2>5, <2>6, <2>7, RemoveBack
<1>10. CASE m.kind = "SimplifyIdentity"
  <2>1. s \in simplify_identity_in_place(z, b, n)
    BY <1>1, <1>3, <1>10 DEF MutationInPlace
  <2>2. PICK i \in At(f, b, n) : \E v : s = UsesGoneScoped(z, b, n, v)
    BY <1>2, <2>1 DEF simplify_identity_in_place
  <2> QED
    BY <1>6, <2>2, AtFacts
<1>11. CASE m.kind = "EliminateCommonSubexpr"
  <2>1. s \in eliminate_cse_in_place(z, b, n, m.aux)
    BY <1>1, <1>3, <1>11 DEF MutationInPlace
  <2>2. n \in DOMAIN f.body[b] /\ \E v : s = UsesGoneScoped(z, b, n, v)
    BY <1>2, <2>1 DEF eliminate_cse_in_place, DuplicateOf
  <2> QED
    BY <1>6, <2>2
<1>12. CASE m.kind = "SwapInstructions"
  <2>1. s \in swap_instructions_in_place(z, b, n)
    BY <1>1, <1>3, <1>12 DEF MutationInPlace
  <2>2. PICK i, j : i = f.body[b][n + 1] /\ j = f.body[b][n]
    OBVIOUS
  <2>3. /\ n \in DOMAIN f.body[b] /\ n + 1 \in DOMAIN f.body[b]
        /\ s = record_replace(record_replace(z, b, n, i), b, n + 1, j)
    BY <1>2, <2>1, <2>2 DEF swap_instructions_in_place, Swappable
  <2>4. PICK t : t = record_replace(z, b, n, i)
    OBVIOUS
  <2>5. LeadsBack(t, f) /\ Alike(t.fn, f)
    BY <1>2, <1>4, <2>3, <2>4, ReplaceBack
  <2>6. b \in DOMAIN t.fn.body /\ n + 1 \in DOMAIN t.fn.body[b]
    BY <1>4, <2>3, <2>5 DEF Alike
  <2> QED
    BY <2>3, <2>4, <2>5, <2>6, ReplaceBack
<1>13. CASE m.kind \in {"OpcodeReplace", "OperandReplace", "OperandSwap", "InstructionReplace"}
  <2>1. s \in opcode_replace_in_place(z, b, n) \cup operand_replace_in_place(z, b, n, m.aux)
                \cup operand_swap_in_place(z, b, n) \cup instruction_replace_in_place(z, b, n)
    BY <1>1, <1>3, <1>13 DEF MutationInPlace
  <2>2. PICK r : /\ s = record_replace(z, b, n, r)
                 /\ r \in OtherOpcodes(f, b, n) \cup OtherOperands(f, b, n, m.aux)
                            \cup SwappedOperands(f, b, n) \cup OtherInstructions(f, b, n)
    BY <1>2, <2>1 DEF opcode_replace_in_place, operand_replace_in_place, operand_swap_in_place,
                      instruction_replace_in_place
  <2>3. n \in DOMAIN f.body[b]
    BY <2>2, OtherAt
  <2> QED
    BY <1>5, <2>2, <2>3
<1>14. CASE m.kind = "InstructionInsert"
  <2>1. s \in instruction_insert_in_place(z, b, n, k)
    BY <1>1, <1>3, <1>14 DEF MutationInPlace
  <2>2. PICK i \in NewInstructions(f, b, n, k) : s = record_insert(z, b, n, i)
    BY <1>2, <2>1 DEF instruction_insert_in_place
  <2>3. n \in 1..(Len(f.body[b]) + 1)
    BY NewAt
  <2> QED
    BY <1>2, <1>4, <2>2, <2>3, InsertBack
<1>15. CASE m.kind \in {"DeleteInstruction", "ReplaceInstruction", "SubstituteVariable", "UnrollLoop"}
  <2>1. s \in delete_dead_code_in_place(z, b, n)
    BY <1>1, <1>3, <1>15 DEF MutationInPlace
  <2>2. is_dead_instruction(f, b, n) /\ s = record_remove(z, b, n)
    BY <1>2, <2>1 DEF delete_dead_code_in_place
  <2>3. n \in DOMAIN f.body[b]
    BY <2>2, DeadAt
  <2> QED
    BY <1>2, <1>4, <2>2, <2>3, RemoveBack
<1> QED
  BY <1>7, <1>8, <1>9, <1>10, <1>11, <1>12, <1>13, <1>14, <1>15 DEF IsMove, InPlaceKinds

\* What is taken back is the function that was edited.
LEMMA TakenBackWhole ==
  ASSUME NEW f, Formed(f), NEW m, IsMove(f, m), NEW k, NEW count,
         NEW s \in apply_mutation_in_place(ScopeOf(f), m, k, count)
  PROVE  undo_all(s) = f /\ Formed(s.fn)
<1>1. LeadsBack(s, f)
  BY MutationBack DEF apply_mutation_in_place
<1> QED
  BY <1>1 DEF LeadsBack, undo_all, Undone

-----------------------------------------------------------------------------
(* What mutations and patterns make of a copy has the form of a function.   *)

LEMMA BodyFormed ==
  ASSUME NEW f, Formed(f), NEW d, d = [c \in DOMAIN f.body |-> d[c]],
         \A c \in DOMAIN f.body : IsSequence(d[c])
  PROVE  Formed([f EXCEPT !.body = d]) /\ [f EXCEPT !.body = d].order = f.order
         /\ [f EXCEPT !.body = d].body = d
<1>1. PICK g : g = [args |-> f.args, order |-> f.order, body |-> d]
  OBVIOUS
<1>2. [f EXCEPT !.body = d] = g
  <2>1. \A a, o, e : [[args |-> a, order |-> o, body |-> e] EXCEPT !.body = d] =
                       [args |-> a, order |-> o, body |-> d]
    OBVIOUS
  <2>2. [[args |-> f.args, order |-> f.order, body |-> f.body] EXCEPT !.body = d] = g
    BY <1>1, <2>1
  <2>3. f = [args |-> f.args, order |-> f.order, body |-> f.body]
    BY DEF Formed
  <2> QED
    BY <2>2, <2>3, Zenon
<1>3. g.args = f.args /\ g.order = f.order /\ g.body = d
  BY <1>1
<1>4. DOMAIN d = DOMAIN f.body
  OBVIOUS
<1>5. Formed(g)
  BY <1>1, <1>3, <1>4 DEF Formed
<1> QED
  BY <1>2, <1>3, <1>5

\* An edit of a block of a function leaves it formed.
LEMMA ReplacedFormed ==
  ASSUME NEW f, Formed(f), NEW b \in DOMAIN f.body, NEW n \in DOMAIN f.body[b], NEW i
  PROVE  Formed(Replaced(f, b, n, i)) /\ Alike(Replaced(f, b, n, i), f)
<1>1. PICK q, r : q = f.body[b] /\ r = [f.body[b] EXCEPT ![n] = i]
  OBVIOUS
<1>2. IsSequence(r) /\ DOMAIN r = DOMAIN q
  BY <1>1, ExceptSequence DEF Formed
<1>3. PICK g : g = Rebuilt(f, b, r)
  OBVIOUS
<1>4. Formed(g) /\ Replaced(f, b, n, i) = g
  BY <1>1, <1>2, <1>3, RebuiltFormed, ReplacedIs
<1>5. /\ g = [args |-> g.args, order |-> g.order, body |-> g.body]
      /\ g.args = f.args /\ g.order = f.order /\ DOMAIN g.body = DOMAIN f.body
      /\ g.body = [c \in DOMAIN g.body |-> g.body[c]]
      /\ g.body[b] = r /\ \A c \in DOMAIN f.body : c # b => g.body[c] = f.body[c]
  BY <1>3, RebuiltFacts
<1>6. Alike(g, f)
  BY <1>1, <1>2, <1>5 DEF Alike
<1> QED
  BY <1>4, <1>6

LEMMA RemovedFormed ==
  ASSUME NEW f, Formed(f), NEW b \in DOMAIN f.body, NEW n \in DOMAIN f.body[b]
  PROVE  Formed(Removed(f, b, n))
<1>1. PICK q, r : q = f.body[b] /\ r = RemoveAt(f.body[b], n)
  OBVIOUS
<1>2. IsSequence(q) /\ n \in DOMAIN q
  BY <1>1 DEF Formed
<1>3. IsSequence(r)
  BY <1>1, <1>2, RemovedPlaces
<1> QED
  BY <1>1, <1>3, RebuiltFormed, RemovedIs

LEMMA InsertedFormed ==
  ASSUME NEW f, Formed(f), NEW b \in DOMAIN f.body, NEW n \in 1..(Len(f.body[b]) + 1), NEW i
  PROVE  Formed(Inserted(f, b, n, i))
<1>1. PICK q, r : q = f.body[b] /\ r = InsertAt(f.body[b], n, i)
  OBVIOUS
<1>2. IsSequence(q) /\ n \in 1..(Len(q) + 1)
  BY <1>1 DEF Formed
<1>3. IsSequence(r)
  BY <1>1, <1>2, InsertedPlaces
<1> QED
  BY <1>1, <1>3, RebuiltFormed, InsertedIs

LEMMA UsesReplacedFormed ==
  ASSUME NEW f, Formed(f), NEW x, NEW v
  PROVE  Formed(replace_all_uses(f, x, v)) /\ Alike(replace_all_uses(f, x, v), f)
<1>1. PICK d : d = [c \in DOMAIN f.body |->
                      [n \in DOMAIN f.body[c] |-> Resolved(f.body[c][n], x :> v)]]
  OBVIOUS
<1>2. d = [c \in DOMAIN f.body |-> d[c]]
  BY <1>1
<1>3. ASSUME NEW c \in DOMAIN f.body PROVE IsSequence(d[c]) /\ DOMAIN d[c] = DOMAIN f.body[c]
  <2>1. PICK q, e : q = f.body[c] /\ e = d[c]
    OBVIOUS
  <2>2. Len(q) \in Nat /\ DOMAIN q = 1..Len(q)
    BY <2>1, SequenceFacts DEF Formed
  <2>3. e = [n \in DOMAIN q |-> Resolved(q[n], x :> v)]
    BY <1>1, <2>1
  <2>4. e = [n \in 1..Len(q) |-> e[n]]
    BY <2>2, <2>3
  <2> QED
    BY <2>1, <2>2, <2>4, SequenceFromFunction
<1>4. PICK g : g = [f EXCEPT !.body = d]
  OBVIOUS
<1>5. Formed(g) /\ g.order = f.order /\ g.body = d
  BY <1>2, <1>3, <1>4, BodyFormed
<1>6. Alike(g, f)
  BY <1>2, <1>3, <1>5 DEF Alike
<1>7. replace_all_uses(f, x, v) = g
  BY <1>1, <1>4 DEF replace_all_uses
<1> QED
  BY <1>5, <1>6, <1>7

LEMMA UsesGoneFormed ==
  ASSUME NEW f, Formed(f), NEW b \in DOMAIN f.body, NEW n \in DOMAIN f.body[b], NEW v
  PROVE  Formed(UsesGone(f, b, n, v))
<1>1. PICK x, g : x = f.body[b][n].name /\ g = replace_all_uses(f, x, v)
  OBVIOUS
<1>2. Formed(g) /\ Alike(g, f)
  BY <1>1, UsesReplacedFormed
<1>3. b \in DOMAIN g.body /\ n \in DOMAIN g.body[b]
  BY <1>2 DEF Alike
<1>4. UsesGone(f, b, n, v) = Removed(g, b, n)
  BY <1>1 DEF UsesGone
<1> QED
  BY <1>2, <1>3, <1>4, RemovedFormed

LEMMA DeletedFormed ==
  ASSUME NEW f, Formed(f), NEW b, NEW n, NEW g \in delete_dead_code(f, b, n)
  PROVE  Formed(g)
<1>1. is_dead_instruction(f, b, n) /\ g = Removed(f, b, n)
  BY DEF delete_dead_code
<1>2. b \in DOMAIN f.body /\ n \in DOMAIN f.body[b]
  BY <1>1, DeadAt, BlocksAre
<1> QED
  BY <1>1, <1>2, RemovedFormed

\* What a mutation makes of a copy is formed.
LEMMA MutationFormed ==
  ASSUME NEW f, Formed(f), NEW m, IsMove(f, m), NEW k, NEW g \in MutationOf(f, m, k)
  PROVE  Formed(g)
<1>1. PICK b, n : b = m.block /\ n = m.pos
  OBVIOUS
<1>2. b \in Blocks(f) /\ b \in DOMAIN f.body
  BY <1>1, BlocksAre DEF IsMove
<1>3. ASSUME n \in DOMAIN f.body[b], NEW i, g = Replaced(f, b, n, i) PROVE Formed(g)
  BY <1>2, <1>3, ReplacedFormed
<1>4. ASSUME n \in DOMAIN f.body[b], NEW v, g = UsesGone(f, b, n, v) PROVE Formed(g)
  BY <1>2, <1>4, UsesGoneFormed
<1>5. CASE m.kind = "StrengthReduce"
  <2>1. g \in strength_reduce(f, b, n)
    BY <1>1, <1>5 DEF MutationOf
  <2>2. PICK i \in At(f, b, n) : \E r : g = Replaced(f, b, n, r)
    BY <2>1 DEF strength_reduce
  <2> QED
    BY <1>3, <2>2, AtFacts
<1>6. CASE m.kind = "FoldConstant"
  <2>1. g \in fold_constant(f, b, n)
    BY <1>1, <1>6 DEF MutationOf
  <2>2. PICK i \in At(f, b, n) : \E v : g = UsesGone(f, b, n, v)
    BY <2>1 DEF fold_constant
  <2> QED
    BY <1>4, <2>2, AtFacts
<1>7. CASE m.kind = "CombineInstructions"
  <2>1. PICK p : p = SecondOf(m)
    OBVIOUS
  <2>2. g \in combine_instructions(f, b, n, p)
    BY <1>1, <1>7, <2>1 DEF MutationOf
  <2>3. PICK c \in build_combined_instruction(f, b, n, p) : g = Removed(Replaced(f, b, p, c), b, n)
    BY <2>2 DEF combine_instructions
  <2>4. n \in DOMAIN f.body[b] /\ p \in DOMAIN f.body[b]
    BY CombinedAt
  <2>5. PICK h : h = Replaced(f, b, p, c)
    OBVIOUS
  <2>6. Formed(h) /\ Alike(h, f)
    BY <1>2, <2>4, <2>5, ReplacedFormed
  <2>7. b \in DOMAIN h.body /\ n \in DOMAIN h.body[b]
    BY <1>2, <2>4, <2>6 DEF Alike
  <2> QED
    BY <2>3, <2>5, <2>6, <2>7, RemovedFormed
<1>8. CASE m.kind = "SimplifyIdentity"
  <2>1. g \in simplify_identity(f, b, n)
    BY <1>1, <1>8 DEF MutationOf
  <2>2. PICK i \in At(f, b, n) : \E v : g = UsesGone(f, b, n, v)
    BY <2>1 DEF simplify_identity
  <2> QED
    BY <1>4, <2>2, AtFacts
<1>9. CASE m.kind = "EliminateCommonSubexpr"
  <2>1. g \in eliminate_cse(f, b, n, m.aux)
    BY <1>1, <1>9 DEF MutationOf
  <2>2. n \in DOMAIN f.body[b] /\ g = UsesGone(f, b, n, f.body[b][m.aux].name)
    BY <2>1 DEF eliminate_cse, DuplicateOf
  <2> QED
    BY <1>4, <2>2
<1>10. CASE m.kind = "SwapInstructions"
  <2>1. g \in swap_instructions(f, b, n)
    BY <1>1, <1>10 DEF MutationOf
  <2>2. PICK i, j : i = f.body[b][n + 1] /\ j = f.body[b][n]
    OBVIOUS
  <2>3. /\ n \in DOMAIN f.body[b] /\ n + 1 \in DOMAIN f.body[b]
        /\ g = Replaced(Replaced(f, b, n, i), b, n + 1, j)
    BY <2>1, <2>2 DEF swap_instructions, Swappable
  <2>4. PICK h : h = Replaced(f, b, n, i)
    OBVIOUS
  <2>5. Formed(h) /\ Alike(h, f)
    BY <1>2, <2>3, <2>4, ReplacedFormed
  <2>6. b \in DOMAIN h.body /\ n + 1 \in DOMAIN h.body[b]
    BY <1>2, <2>3, <2>5 DEF Alike
  <2> QED
    BY <2>3, <2>4, <2>5, <2>6, ReplacedFormed
<1>11. CASE m.kind \in {"OpcodeReplace", "OperandReplace", "OperandSwap", "InstructionReplace"}
  <2>1. g \in opcode_replace(f, b, n) \cup operand_replace(f, b, n, m.aux)
                \cup operand_swap(f, b, n) \cup instruction_replace_full(f, b, n)
    BY <1>1, <1>11 DEF MutationOf
  <2>2. PICK r : /\ g = Replaced(f, b, n, r)
                 /\ r \in OtherOpcodes(f, b, n) \cup OtherOperands(f, b, n, m.aux)
                            \cup SwappedOperands(f, b, n) \cup OtherInstructions(f, b, n)
    BY <2>1 DEF opcode_replace, operand_replace, operand_swap, instruction_replace_full
  <2>3. n \in DOMAIN f.body[b]
    BY <2>2, OtherAt
  <2> QED
    BY <1>3, <2>2, <2>3
<1>12. CASE m.kind = "InstructionInsert"
  <2>1. g \in instruction_insert(f, b, n, k)
    BY <1>1, <1>12 DEF MutationOf
  <2>2. PICK i \in NewInstructions(f, b, n, k) : g = Inserted(f, b, n, i)
    BY <2>1 DEF instruction_insert
  <2>3. n \in 1..(Len(f.body[b]) + 1)
    BY NewAt
  <2> QED
    BY <1>2, <2>2, <2>3, InsertedFormed
<1>13. CASE m.kind \in {"DeleteInstruction", "ReplaceInstruction", "SubstituteVariable", "UnrollLoop"}
  <2>1. g \in delete_dead_code(f, b, n)
    BY <1>1, <1>13 DEF MutationOf
  <2> QED
    BY <2>1, DeletedFormed
<1> QED
  BY <1>5, <1>6, <1>7, <1>8, <1>9, <1>10, <1>11, <1>12, <1>13 DEF IsMove, InPlaceKinds

\* What a pattern makes of a copy is formed.
LEMMA SplicedFormed ==
  ASSUME NEW f, Formed(f), NEW b \in DOMAIN f.body, NEW start, NEW p, IsSequence(p.replacement),
         start \in 0..Len(f.body[b]), Len(p.source) \in Nat
  PROVE  Formed(Spliced(f, b, start, p))
<1>1. PICK q, w : q = f.body[b] /\ w = BindingOf(f.body[b], start, p.source)
  OBVIOUS
<1>2. PICK y : y = [n \in DOMAIN p.replacement |-> Resolved(p.replacement[n], w)]
  OBVIOUS
<1>3. PICK l : l = start + Len(p.source) + 1
  OBVIOUS
<1>4. l \in Nat /\ l >= 1
  BY <1>3
<1>5. IsSequence(q) /\ IsSequence(p.replacement)
  BY <1>1 DEF Formed
<1>6. IsSequence(y)
  <2>1. Len(p.replacement) \in Nat /\ DOMAIN p.replacement = 1..Len(p.replacement)
    BY <1>5, SequenceFacts
  <2>2. y = [n \in 1..Len(p.replacement) |-> y[n]]
    BY <1>2, <2>1
  <2> QED
    BY <2>1, <2>2, SequenceFromFunction
<1> DEFINE T == Range(q) \cup Range(y)
<1>7. q \in Seq(T) /\ y \in Seq(T)
  <2>1. \A A, B : \A z \in Seq(A) : z \in Seq(A \cup B)
    OBVIOUS
  <2>2. \A A, B : \A z \in Seq(B) : z \in Seq(A \cup B)
    OBVIOUS
  <2> QED
    BY <1>5, <1>6, <2>1, <2>2 DEF IsSequence
<1> HIDE DEF T
<1>8. PICK front, back : front = SubSeq(q, 1, start) /\ back = SubSeq(q, l, Len(q))
  OBVIOUS
<1>9. front \in Seq(T) /\ back \in Seq(T)
  <2>1. Len(q) \in Nat /\ start \in 0..Len(q)
    BY <1>1, <1>5, SequenceFacts
  <2>2. \A z \in Seq(T) : \A i \in 1..(Len(z) + 1), j \in 0..Len(z) : SubSeq(z, i, j) \in Seq(T)
    OBVIOUS
  <2>3. front \in Seq(T)
    BY <1>7, <1>8, <2>1, <2>2
  <2>4. CASE l <= Len(q)
    BY <1>4, <1>7, <1>8, <2>1, <2>2, <2>4
  <2>5. CASE l > Len(q)
    BY <1>4, <1>7, <1>8, <2>1, <2>5
  <2> QED
    BY <1>4, <2>1, <2>3, <2>4, <2>5
<1>10. PICK r : r = (front \o y) \o back
  OBVIOUS
<1>11. IsSequence(r)
  BY <1>7, <1>9, <1>10, Joined, SequenceOfSet
<1>12. Spliced(f, b, start, p) = [f EXCEPT !.body[b] = r]
  BY <1>1, <1>2, <1>3, <1>8, <1>10, Zenon DEF Spliced
<1>13. [f EXCEPT !.body[b] = r] = Rebuilt(f, b, r)
  BY EditRebuilds
<1> QED
  BY <1>11, <1>12, <1>13, RebuiltFormed

LEMMA SeedsFormed ==
  ASSUME NEW p \in seed_builtin_patterns \cup ExtraPatterns
  PROVE  IsSequence(p.source) /\ IsSequence(p.replacement)
<1>1. \A a : IsSequence(<<a>>)
  BY DEF IsSequence, Range
<1>2. \A a, b : IsSequence(<<a, b>>)
  BY DEF IsSequence, Range
<1>3. \A a, b, c : IsSequence(<<a, b, c>>)
  BY DEF IsSequence, Range
<1>4. ASSUME NEW id, NEW vendor, NEW s, NEW r
      PROVE  Pattern(id, vendor, s, r).source = s /\ Pattern(id, vendor, s, r).replacement = r
  BY DEF Pattern
<1>5. CASE p \in ExtraPatterns
  BY <1>5, FormedAssumption
<1>6. CASE p \in seed_builtin_patterns
  BY <1>1, <1>2, <1>3, <1>4, <1>6
     DEF seed_builtin_patterns, strength_reduce_mul, constant_fold, dead_code_elim, add_zero_elim,
         mul_one_elim, double_negation
<1> QED
  BY <1>5, <1>6

LEMMA PatternFormed ==
  ASSUME NEW f, Formed(f), NEW p \in seed_builtin_patterns \cup ExtraPatterns,
         NEW at \in match(f, p, target_arch), NEW g \in apply(f, at[1], at[2], p)
  PROVE  Formed(g)
<1>1. PICK b \in Blocks(f) : \E start \in 0..Len(f.body[b]) : at = <<b, start>>
  BY DEF match
<1>2. PICK start \in 0..Len(f.body[b]) : at = <<b, start>>
  BY <1>1
<1>3. at[1] = b /\ at[2] = start
  BY <1>2
<1>4. g = Spliced(f, b, start, p)
  BY <1>3 DEF apply
<1>5. IsSequence(p.replacement) /\ Len(p.source) \in Nat
  BY SeedsFormed, SequenceFacts
<1>6. b \in DOMAIN f.body
  BY BlocksAre
<1> QED
  BY <1>4, <1>5, <1>6, SplicedFormed

-----------------------------------------------------------------------------
(* Lists of candidates.                                                     *)

IsCandidate(c) ==
  c = [fn |-> c.fn, score |-> c.score, hash |-> c.hash, sound |-> c.sound, live |-> c.live]
IsList(cands) ==
  cands \in Seq(Range(cands)) /\ \A n \in DOMAIN cands : IsCandidate(cands[n])

\* The same candidates in the same places, some of them no longer live.
SameButLive(c, d) ==
  /\ d.fn = c.fn /\ d.score = c.score /\ d.hash = c.hash /\ d.sound = c.sound
  /\ d.live => c.live
SameList(a, b) ==
  /\ IsList(a) /\ IsList(b) /\ Len(b) = Len(a)
  /\ \A n \in DOMAIN a : SameButLive(a[n], b[n])

LEMMA ListFacts ==
  ASSUME NEW a, IsList(a)
  PROVE  /\ Len(a) \in Nat /\ DOMAIN a = 1..Len(a)
         /\ a = [n \in 1..Len(a) |-> a[n]]
         /\ \A n \in 1..Len(a) : IsCandidate(a[n]) /\ a[n] \in Range(a)
BY DEF IsList, Range

\* A function on positions whose values are candidates is a list.
LEMMA ListFromFunction ==
  ASSUME NEW N \in Nat, NEW a, a = [n \in 1..N |-> a[n]],
         \A n \in 1..N : IsCandidate(a[n])
  PROVE  IsList(a) /\ Len(a) = N
<1>1. DOMAIN a = 1..N
  OBVIOUS
<1>2. a \in [1..N -> Range(a)]
  BY <1>1 DEF Range
<1>3. a \in Seq(Range(a)) /\ Len(a) = N
  BY <1>2
<1> QED
  BY <1>1, <1>3 DEF IsList

LEMMA SameListReflexive ==
  ASSUME NEW a, IsList(a)
  PROVE  SameList(a, a)
BY DEF SameList, SameButLive

LEMMA SameListTransitive ==
  ASSUME NEW a, NEW b, NEW c, SameList(a, b), SameList(b, c)
  PROVE  SameList(a, c)
<1>1. DOMAIN a = 1..Len(a) /\ DOMAIN b = 1..Len(b) /\ Len(a) = Len(b) /\ Len(c) = Len(b)
  BY ListFacts DEF SameList
<1> QED
  BY <1>1 DEF SameList, SameButLive

\* A candidate whose mark changes keeps the rest.
LEMMA MarkOne ==
  ASSUME NEW c, NEW v, IsCandidate(c)
  PROVE  [c EXCEPT !.live = v] =
           [fn |-> c.fn, score |-> c.score, hash |-> c.hash, sound |-> c.sound, live |-> v]
<1>1. \A f, s, h, o, l :
        [[fn |-> f, score |-> s, hash |-> h, sound |-> o, live |-> l] EXCEPT !.live = v] =
          [fn |-> f, score |-> s, hash |-> h, sound |-> o, live |-> v]
  OBVIOUS
<1>2. [[fn |-> c.fn, score |-> c.score, hash |-> c.hash, sound |-> c.sound, live |-> c.live]
         EXCEPT !.live = v] =
        [fn |-> c.fn, score |-> c.score, hash |-> c.hash, sound |-> c.sound, live |-> v]
  BY <1>1
<1> QED
  BY <1>2, Zenon DEF IsCandidate

LEMMA LetGoOne ==
  ASSUME NEW c, IsCandidate(c)
  PROVE  /\ IsCandidate([c EXCEPT !.live = FALSE])
         /\ SameButLive(c, [c EXCEPT !.live = FALSE])
<1> DEFINE d == [fn |-> c.fn, score |-> c.score, hash |-> c.hash, sound |-> c.sound, live |-> FALSE]
<1>1. [c EXCEPT !.live = FALSE] = d
  BY MarkOne
<1>2. IsCandidate(d) /\ SameButLive(c, d)
  BY DEF IsCandidate, SameButLive
<1> QED
  BY <1>1, <1>2

LEMMA LetGoSame ==
  ASSUME NEW a, IsList(a)
  PROVE  SameList(a, LetGo(a))
<1> DEFINE b == LetGo(a)
<1>1. Len(a) \in Nat /\ DOMAIN a = 1..Len(a) /\ \A n \in 1..Len(a) : IsCandidate(a[n])
  BY ListFacts
<1>2. b = [n \in 1..Len(a) |-> [a[n] EXCEPT !.live = FALSE]]
  BY <1>1 DEF LetGo
<1>3. \A n \in 1..Len(a) : IsCandidate(b[n]) /\ SameButLive(a[n], b[n])
  BY <1>1, <1>2, LetGoOne
<1>4. b = [n \in 1..Len(a) |-> b[n]]
  BY <1>2
<1>5. IsList(b) /\ Len(b) = Len(a)
  BY <1>1, <1>3, <1>4, ListFromFunction
<1> QED
  BY <1>1, <1>3, <1>5 DEF SameList

\* The edit of the live function reaches no candidate unless one is live.
LEMMA EditedSame ==
  ASSUME NEW a, NEW f, IsList(a), \A n \in DOMAIN a : ~a[n].live
  PROVE  Edited(a, f) = a
BY ListFacts DEF Edited

\* A list takes a candidate at its end, in the place of another, or not at all.
LEMMA KeptShape ==
  ASSUME NEW a, NEW c, IsList(a), IsCandidate(c)
  PROVE  /\ IsList(Kept(a, c))
         /\ \/ Kept(a, c) = a
            \/ Kept(a, c) = Append(a, c)
            \/ \E w \in DOMAIN a : Kept(a, c) = [a EXCEPT ![w] = c]
<1>1. Len(a) \in Nat /\ DOMAIN a = 1..Len(a) /\ \A n \in 1..Len(a) : IsCandidate(a[n])
  BY ListFacts
<1>2. CASE Kept(a, c) = a
  BY <1>2
<1>3. CASE Kept(a, c) = Append(a, c)
  <2> DEFINE k == Append(a, c)
  <2>1. a \in Seq(Range(a) \cup {c}) /\ c \in Range(a) \cup {c}
    BY DEF IsList, Range
  <2>2. /\ k \in Seq(Range(a) \cup {c}) /\ Len(k) = Len(a) + 1
        /\ \A n \in 1..(Len(a) + 1) : k[n] = IF n = Len(a) + 1 THEN c ELSE a[n]
    BY <2>1
  <2>3. \A n \in 1..(Len(a) + 1) : n = Len(a) + 1 \/ n \in 1..Len(a)
    BY <1>1
  <2>4. \A n \in 1..(Len(a) + 1) : IsCandidate(k[n])
    BY <1>1, <2>2, <2>3
  <2>5. k = [n \in 1..(Len(a) + 1) |-> k[n]]
    <3>1. \A S : \A s \in Seq(S) : s = [n \in 1..Len(s) |-> s[n]]
      OBVIOUS
    <3> HIDE DEF k
    <3> QED
      BY <2>2, <3>1
  <2>6. IsList(k)
    BY <1>1, <2>4, <2>5, ListFromFunction
  <2> QED
    BY <1>3, <2>6
<1>4. CASE a # <<>> /\ Kept(a, c) = [a EXCEPT ![WorstOf(a)] = c]
  <2> DEFINE w == WorstOf(a)
             k == [a EXCEPT ![w] = c]
  <2>1. k = [n \in 1..Len(a) |-> IF n = w THEN c ELSE a[n]]
    BY <1>1
  <2> HIDE DEF w
  <2>2. \A n \in 1..Len(a) : IsCandidate(k[n])
    BY <1>1, <2>1
  <2>3. k = [n \in 1..Len(a) |-> k[n]]
    BY <2>1
  <2>4. IsList(k)
    BY <1>1, <2>2, <2>3, ListFromFunction
  <2>5. w \in DOMAIN a \/ k = a
    BY <1>1, <2>1, ListFacts
  <2> QED
    BY <1>4, <2>4, <2>5 DEF w
<1> QED
  BY <1>2, <1>3, <1>4 DEF Kept

-----------------------------------------------------------------------------
(* What a turn does, mutation by mutation.                                  *)

\* Where functions are edited in place no candidate is the live one.
ListInv ==
  /\ IsList(candidates)
  /\ \A n \in DOMAIN candidates : candidates[n].live => ~config.use_in_place_mutation

\* g is what a mutation makes of the current function.
Made(g, kind) ==
  \/ \E m \in Picks : kind = m.kind /\ (g \in Outcomes(m) \/ \E s \in OutcomesInPlace(m) : g = s.fn)
  \/ /\ kind = "PatternGuided"
     /\ \E p \in Library : \E at \in match(current_fn, p, target_arch) :
          g \in pattern_guided_mutate(p, at)
\* A candidate as it is scored.
New(c) ==
  /\ IsCandidate(c)
  /\ c.score = score_with_cache(c.fn) /\ c.hash = canonical_structural_hash(c.fn)
  /\ \E kind : Made(c.fn, kind) /\ (c.sound <=> current_sound /\ is_sound_kind(kind))
  /\ c.live => ~config.use_in_place_mutation

\* It was offered to the list.
Looked(c) ==
  \E x : /\ SameList(candidates, x)
         /\ SameList(consider_candidate(x, c)[1], candidates')
         /\ seen_hashes' = consider_candidate(x, c)[2]
         /\ best_score' = consider_candidate(x, c)[3]
\* What the search goes on with: the original, the new one or, perhaps edited
\* and taken back, the old one.
TakenBack(f) == \E m \in Picks : \E s \in OutcomesInPlace(m) : f = undo_all(s)
GoesOn(c) ==
  \/ current_fn' = original /\ current_score' = baseline_score /\ current_sound' = TRUE
  \/ current_fn' = c.fn /\ current_score' = c.score /\ (current_sound' <=> c.sound)
  \/ /\ current_fn' = current_fn \/ TakenBack(current_fn')
     /\ current_score' = current_score /\ (current_sound' <=> current_sound)
Tried(c) == New(c) /\ Looked(c) /\ GoesOn(c) /\ Remember(c.fn)

LEMMA ConsideredList ==
  ASSUME NEW x, NEW c, IsList(x), IsCandidate(c)
  PROVE  /\ IsList(consider_candidate(x, c)[1])
         /\ \A n \in DOMAIN consider_candidate(x, c)[1] :
              \/ consider_candidate(x, c)[1][n] = c /\ Considered(c)
              \/ \E m \in DOMAIN x : consider_candidate(x, c)[1][n] = x[m]
<1>1. \/ consider_candidate(x, c)[1] = x
      \/ consider_candidate(x, c)[1] = Kept(x, c) /\ Considered(c)
  BY DEF consider_candidate
<1>2. Len(x) \in Nat /\ DOMAIN x = 1..Len(x) /\ x \in Seq(Range(x))
  BY ListFacts DEF IsList
<1>3. ASSUME NEW n \in DOMAIN Append(x, c)
      PROVE  Append(x, c)[n] = c \/ \E m \in DOMAIN x : Append(x, c)[n] = x[m]
  <2>1. DOMAIN Append(x, c) = 1..(Len(x) + 1)
    BY <1>2
  <2>2. n = Len(x) + 1 \/ n \in DOMAIN x
    BY <1>2, <1>3, <2>1
  <2> QED
    BY <1>2, <2>2
<1>4. \A w \in DOMAIN x : \A n \in DOMAIN [x EXCEPT ![w] = c] :
        [x EXCEPT ![w] = c][n] = c \/ \E m \in DOMAIN x : [x EXCEPT ![w] = c][n] = x[m]
  OBVIOUS
<1>5. \A n \in DOMAIN Kept(x, c) :
        Kept(x, c)[n] = c \/ \E m \in DOMAIN x : Kept(x, c)[n] = x[m]
  BY <1>3, <1>4, KeptShape
<1>6. IsList(Kept(x, c))
  BY KeptShape
<1> QED
  BY <1>1, <1>5, <1>6

LEMMA EndOfTurnShape ==
  ASSUME NEW f, NEW score, NEW sound, NEW cands, NEW best, IsList(cands),
         EndOfTurn(f, score, sound, cands, best)
  PROVE  /\ best_score' = best /\ SameList(cands, candidates')
         /\ \/ current_fn' = original /\ current_score' = baseline_score /\ current_sound' = TRUE
            \/ current_fn' = f /\ current_score' = score /\ (current_sound' <=> sound)
<1>1. CASE Restarts(best)
  BY <1>1, LetGoSame DEF EndOfTurn
<1>2. CASE ~Restarts(best)
  BY <1>2, SameListReflexive DEF EndOfTurn
<1> QED
  BY <1>1, <1>2

LEMMA Fields ==
  ASSUME NEW f, NEW s, NEW h, NEW o, NEW l
  PROVE  /\ [fn |-> f, score |-> s, hash |-> h, sound |-> o, live |-> l].fn = f
         /\ [fn |-> f, score |-> s, hash |-> h, sound |-> o, live |-> l].score = s
         /\ [fn |-> f, score |-> s, hash |-> h, sound |-> o, live |-> l].hash = h
         /\ [fn |-> f, score |-> s, hash |-> h, sound |-> o, live |-> l].sound = o
         /\ [fn |-> f, score |-> s, hash |-> h, sound |-> o, live |-> l].live = l
         /\ IsCandidate([fn |-> f, score |-> s, hash |-> h, sound |-> o, live |-> l])
BY DEF IsCandidate

LEMMA MarkFields ==
  ASSUME NEW c, NEW v, NEW d, IsCandidate(c), d = [c EXCEPT !.live = v]
  PROVE  /\ d.fn = c.fn /\ d.score = c.score /\ d.hash = c.hash /\ d.sound = c.sound
         /\ d.live = v /\ IsCandidate(d)
<1> DEFINE e == [fn |-> c.fn, score |-> c.score, hash |-> c.hash, sound |-> c.sound, live |-> v]
<1>1. e.fn = c.fn /\ e.score = c.score /\ e.hash = c.hash /\ e.sound = c.sound /\ e.live = v
  OBVIOUS
<1>2. IsCandidate(e)
  BY <1>1 DEF IsCandidate
<1>3. d = e
  BY MarkOne
<1> HIDE DEF e
<1> QED
  BY <1>1, <1>2, <1>3

LEMMA CopyTried ==
  ASSUME ListInv, NEW g, NEW kind, Made(g, kind), OnCopy(g, kind)
  PROVE  \E c : Tried(c)
<1>a. PICK snd : snd = (current_sound /\ is_sound_kind(kind))
  OBVIOUS
<1> DEFINE c0 == Candidate(g, snd, FALSE)
<1>0. c0.fn = g /\ c0.score = score_with_cache(g) /\ c0.sound = snd
  BY Fields, Zenon DEF Candidate
<1>b. CopyMade(c0)
  BY <1>a, Zenon DEF OnCopy
<1> HIDE DEF c0
<1>1. PICK ok \in accept(current_score, c0.score) :
        /\ Remember(g)
        /\ JudgedCopy(g, c0.score, snd, ok,
             consider_candidate(IF ok THEN LetGo(candidates) ELSE candidates,
                                [c0 EXCEPT !.live = SharesLive(ok)]))
  BY <1>0, <1>b, Zenon DEF CopyMade
<1>c. PICK c : c = [c0 EXCEPT !.live = SharesLive(ok)]
  OBVIOUS
<1>d. SharesLive(ok) => ~config.use_in_place_mutation
  BY DEF SharesLive
<1>2. New(c) /\ c.fn = g /\ c.score = score_with_cache(g) /\ c.sound = snd /\ IsCandidate(c)
  <2>1. IsCandidate(c0) /\ c0.hash = canonical_structural_hash(g)
    BY Fields, Zenon DEF Candidate, c0
  <2>2. PICK live : live = SharesLive(ok)
    OBVIOUS
  <2>3. c = [c0 EXCEPT !.live = live]
    BY <1>c, <2>2, Zenon
  <2>4. /\ c.fn = c0.fn /\ c.score = c0.score /\ c.hash = c0.hash /\ c.sound = c0.sound
        /\ c.live = live /\ IsCandidate(c)
    BY <2>1, <2>3, MarkFields
  <2>5. /\ c.fn = g /\ c.score = score_with_cache(g) /\ c.sound = snd
        /\ c.hash = canonical_structural_hash(g) /\ IsCandidate(c)
    BY <1>0, <2>1, <2>4
  <2>6. Made(c.fn, kind) /\ (c.sound <=> current_sound /\ is_sound_kind(kind))
    BY <1>a, <2>5, Zenon
  <2>7. c.live => ~config.use_in_place_mutation
    BY <1>d, <2>2, <2>4, Zenon
  <2> QED
    BY <2>5, <2>6, <2>7, Zenon DEF New
<1> DEFINE x == IF ok THEN LetGo(candidates) ELSE candidates
           k == consider_candidate(x, c)
<1>3. SameList(candidates, x)
  BY LetGoSame, SameListReflexive DEF ListInv
<1>4. IsList(x)
  BY <1>3 DEF SameList
<1>5. IsList(k[1])
  BY <1>2, <1>4, ConsideredList
<1>6. JudgedCopy(g, c0.score, snd, ok, k)
  BY <1>1, <1>c
<1> HIDE DEF x, k
<1>7. seen_hashes' = k[2]
  BY <1>6 DEF JudgedCopy
<1>8. CASE ok
  <2>1. EndOfTurn(g, c0.score, snd, k[1], k[3])
    BY <1>6, <1>8 DEF JudgedCopy
  <2>2. /\ best_score' = k[3] /\ SameList(k[1], candidates')
        /\ \/ current_fn' = original /\ current_score' = baseline_score /\ current_sound' = TRUE
           \/ current_fn' = g /\ current_score' = c0.score /\ (current_sound' <=> snd)
    BY <1>5, <2>1, EndOfTurnShape
  <2>3. GoesOn(c)
    BY <1>0, <1>2, <2>2 DEF GoesOn
  <2>4. Looked(c)
    BY <1>3, <1>7, <2>2 DEF Looked, k
  <2> QED
    BY <1>1, <1>2, <2>3, <2>4 DEF Tried
<1>9. CASE ~ok
  <2>1. EndOfTurn(current_fn, current_score, current_sound, k[1], k[3])
    BY <1>6, <1>9 DEF JudgedCopy
  <2>2. /\ best_score' = k[3] /\ SameList(k[1], candidates')
        /\ \/ current_fn' = original /\ current_score' = baseline_score /\ current_sound' = TRUE
           \/ current_fn' = current_fn /\ current_score' = current_score
              /\ (current_sound' <=> current_sound)
    BY <1>5, <2>1, EndOfTurnShape
  <2>3. GoesOn(c)
    BY <2>2 DEF GoesOn
  <2>4. Looked(c)
    BY <1>3, <1>7, <2>2 DEF Looked, k
  <2> QED
    BY <1>1, <1>2, <2>3, <2>4 DEF Tried
<1> QED
  BY <1>8, <1>9

LEMMA InPlaceTried ==
  ASSUME ListInv, NEW m \in Picks, NEW s \in OutcomesInPlace(m), config.use_in_place_mutation,
         EditedInPlace(s, Candidate(s.fn, current_sound /\ is_sound_kind(m.kind), FALSE))
  PROVE  \E c : Tried(c)
<1> DEFINE snd == current_sound /\ is_sound_kind(m.kind)
           c == Candidate(s.fn, snd, FALSE)
           k == consider_candidate(candidates, c)
<1>1. /\ c.fn = s.fn /\ c.score = score_with_cache(s.fn) /\ c.sound = snd
      /\ c.hash = canonical_structural_hash(s.fn) /\ c.live = FALSE /\ IsCandidate(c)
  BY DEF Candidate, IsCandidate
<1>2. Made(s.fn, m.kind)
  BY DEF Made
<1>3. New(c)
  <2> HIDE DEF c
  <2> QED
    BY <1>1, <1>2 DEF New
<1>4. Edited(candidates, s.fn) = candidates
  BY EditedSame DEF ListInv
<1>5. PICK ok \in accept(current_score, c.score) :
        Remember(s.fn) /\ JudgedInPlace(s, c.score, c.sound, ok, k)
  BY <1>4 DEF EditedInPlace
<1> HIDE DEF c
<1>6. IsList(k[1]) /\ \A n \in DOMAIN k[1] : k[1][n] = c \/ \E q \in DOMAIN candidates : k[1][n] = candidates[q]
  BY <1>1, ConsideredList DEF ListInv
<1> HIDE DEF k
<1>7. \A n \in DOMAIN k[1] : ~k[1][n].live
  BY <1>1, <1>6 DEF ListInv
<1>8. Edited(k[1], undo_all(s)) = k[1]
  BY <1>6, <1>7, EditedSame
<1>9. seen_hashes' = k[2]
  BY <1>5 DEF JudgedInPlace
<1>10. SameList(candidates, candidates)
  BY SameListReflexive DEF ListInv
<1>11. CASE ok
  <2>1. EndOfTurn(s.fn, c.score, c.sound, k[1], k[3])
    BY <1>5, <1>11 DEF JudgedInPlace
  <2>2. /\ best_score' = k[3] /\ SameList(k[1], candidates')
        /\ \/ current_fn' = original /\ current_score' = baseline_score /\ current_sound' = TRUE
           \/ current_fn' = s.fn /\ current_score' = c.score /\ (current_sound' <=> c.sound)
    BY <1>6, <2>1, EndOfTurnShape
  <2>3. GoesOn(c)
    BY <1>1, <2>2 DEF GoesOn
  <2>4. Looked(c)
    BY <1>9, <1>10, <2>2 DEF Looked, k
  <2> QED
    BY <1>1, <1>3, <1>5, <2>3, <2>4 DEF Tried
<1>12. CASE ~ok
  <2>1. EndOfTurn(undo_all(s), current_score, current_sound, k[1], k[3])
    BY <1>5, <1>8, <1>12 DEF JudgedInPlace
  <2>2. /\ best_score' = k[3] /\ SameList(k[1], candidates')
        /\ \/ current_fn' = original /\ current_score' = baseline_score /\ current_sound' = TRUE
           \/ current_fn' = undo_all(s) /\ current_score' = current_score
              /\ (current_sound' <=> current_sound)
    BY <1>6, <2>1, EndOfTurnShape
  <2>3. GoesOn(c)
    BY <2>2 DEF GoesOn, TakenBack
  <2>4. Looked(c)
    BY <1>9, <1>10, <2>2 DEF Looked, k
  <2> QED
    BY <1>1, <1>3, <1>5, <2>3, <2>4 DEF Tried
<1> QED
  BY <1>11, <1>12

\* A turn that is cut short, a full turn, and the end.
Quiet ==
  /\ SameList(candidates, candidates')
  /\ UNCHANGED <<seen_hashes, best_score, returned, current_sound>>
  /\ \/ UNCHANGED <<current_fn, current_score, score_cache_>>
     \/ \E g \in ForcedOutcomes :
          /\ Remember(g)
          /\ \/ UNCHANGED <<current_fn, current_score>>
             \/ current_fn' = g /\ current_score' = score_with_cache(g)
LEMMA StepShape ==
  ASSUME ListInv, SearchNext
  PROVE  /\ config' = config /\ original' = original
         /\ \/ Return
            \/ Quiet
            \/ returned' = FALSE /\ \E c : Tried(c)
<1>1. CASE Return
  BY <1>1 DEF Return
<1>2. CASE ForceDelete
  <2>1. SameList(candidates, candidates) /\ SameList(candidates, LetGo(candidates))
    BY SameListReflexive, LetGoSame DEF ListInv
  <2>2. /\ config' = config /\ original' = original
        /\ UNCHANGED <<seen_hashes, best_score, returned, current_sound>>
    BY <1>2 DEF ForceDelete, Turn, CutShort
  <2>3. CASE ForcedOutcomes = {}
              /\ UNCHANGED <<current_fn, current_score, score_cache_, candidates, mutations_accepted>>
    BY <2>1, <2>2, <2>3 DEF Quiet
  <2>4. ASSUME NEW g \in ForcedOutcomes, NEW ok \in accept(current_score, score_with_cache(g)),
               Remember(g),
               current_fn' = IF ok THEN g ELSE current_fn,
               current_score' = IF ok THEN score_with_cache(g) ELSE current_score,
               candidates' = IF ok THEN LetGo(candidates) ELSE candidates
        PROVE  Quiet
    <3>1. SameList(candidates, candidates')
      BY <2>1, <2>4
    <3>2. \/ UNCHANGED <<current_fn, current_score>>
          \/ current_fn' = g /\ current_score' = score_with_cache(g)
      BY <2>4
    <3> QED
      BY <2>2, <2>4, <3>1, <3>2, Zenon DEF Quiet
  <2> QED
    BY <1>2, <2>2, <2>3, <2>4 DEF ForceDelete
<1>3. CASE Skip
  <2>1. SameList(candidates, candidates)
    BY SameListReflexive DEF ListInv
  <2> QED
    BY <1>3, <2>1 DEF Skip, Turn, CutShort, Quiet
<1>4. CASE MutateInPlace
  <2>1. /\ config' = config /\ original' = original /\ returned' = FALSE
        /\ config.use_in_place_mutation
    BY <1>4 DEF MutateInPlace, Turn
  <2>2. PICK m \in Picks : \E s \in OutcomesInPlace(m) :
          EditedInPlace(s, Candidate(s.fn, current_sound /\ is_sound_kind(m.kind), FALSE))
    BY <1>4, Zenon DEF MutateInPlace
  <2>3. \E c : Tried(c)
    BY <2>1, <2>2, InPlaceTried
  <2> QED
    BY <2>1, <2>3
<1>5. CASE MutateCopy
  <2>1. /\ config' = config /\ original' = original /\ returned' = FALSE
        /\ ~config.use_in_place_mutation
    BY <1>5 DEF MutateCopy, Turn
  <2>2. PICK m \in Picks : \E g \in Outcomes(m) : OnCopy(g, m.kind)
    BY <1>5, Zenon DEF MutateCopy
  <2>3. PICK g \in Outcomes(m) : OnCopy(g, m.kind)
    BY <2>2
  <2>4. Made(g, m.kind)
    BY <2>3 DEF Made
  <2>5. \E c : Tried(c)
    BY <2>1, <2>3, <2>4, CopyTried
  <2> QED
    BY <2>1, <2>5
<1>6. CASE MutateByPattern
  <2>1. config' = config /\ original' = original /\ returned' = FALSE
    BY <1>6 DEF MutateByPattern, Turn
  <2>2. PICK p \in Library : \E at \in match(current_fn, p, target_arch) :
          \E g \in pattern_guided_mutate(p, at) : OnCopy(g, "PatternGuided")
    BY <1>6, Zenon DEF MutateByPattern
  <2>3. PICK at \in match(current_fn, p, target_arch) :
          \E g \in pattern_guided_mutate(p, at) : OnCopy(g, "PatternGuided")
    BY <2>2
  <2>4. PICK g \in pattern_guided_mutate(p, at) : OnCopy(g, "PatternGuided")
    BY <2>3
  <2>5. Made(g, "PatternGuided")
    BY <2>2, <2>3, <2>4 DEF Made
  <2>6. \E c : Tried(c)
    BY <2>1, <2>4, <2>5, CopyTried
  <2> QED
    BY <2>1, <2>6
<1> QED
  BY <1>1, <1>2, <1>3, <1>4, <1>5, <1>6 DEF SearchNext

-----------------------------------------------------------------------------
(* What is kept stays what it was.                                          *)

Distinct(cands) ==
  \A m, n \in DOMAIN cands : cands[m].hash = cands[n].hash => m = n
Seen(cands, hashes) == \A n \in DOMAIN cands : cands[n].hash \in hashes
KeptInv == ListInv /\ Distinct(candidates) /\ Seen(candidates, seen_hashes)

\* The positions and the hashes of lists that differ by what is live.
LEMMA SameListHashes ==
  ASSUME NEW a, NEW b, NEW hashes, SameList(a, b), Distinct(a), Seen(a, hashes)
  PROVE  Distinct(b) /\ Seen(b, hashes)
<1>1. DOMAIN a = DOMAIN b
  BY ListFacts DEF SameList
<1> QED
  BY <1>1 DEF SameList, SameButLive, Distinct, Seen

\* A candidate that is taken has a new hash, which is remembered.
LEMMA KeptHashes ==
  ASSUME NEW x, NEW c, NEW hashes, IsList(x), IsCandidate(c), Distinct(x), Seen(x, hashes),
         c.hash \notin hashes
  PROVE  Distinct(Kept(x, c)) /\ Seen(Kept(x, c), hashes \cup {c.hash})
<1>1. Len(x) \in Nat /\ DOMAIN x = 1..Len(x) /\ x \in Seq(Range(x))
  BY ListFacts DEF IsList
<1>2. CASE Kept(x, c) = x
  BY <1>2 DEF Seen
<1>3. CASE Kept(x, c) = Append(x, c)
  <2> DEFINE k == Append(x, c)
  <2>1. /\ DOMAIN k = 1..(Len(x) + 1) /\ k[Len(x) + 1] = c
        /\ \A n \in 1..Len(x) : k[n] = x[n]
    BY <1>1
  <2> HIDE DEF k
  <2>2. \A n \in DOMAIN k : n = Len(x) + 1 \/ n \in DOMAIN x
    BY <1>1, <2>1
  <2>3. k[Len(x) + 1].hash = c.hash /\ \A n \in DOMAIN x : k[n].hash = x[n].hash
    BY <1>1, <2>1
  <2>4. \A n \in DOMAIN x : k[n].hash # c.hash /\ k[n].hash \in hashes
    BY <2>3 DEF Seen
  <2>5. Distinct(k) /\ Seen(k, hashes \cup {c.hash})
    BY <2>2, <2>3, <2>4 DEF Distinct, Seen
  <2> QED
    BY <1>3, <2>5 DEF k
<1>4. ASSUME NEW w \in DOMAIN x, Kept(x, c) = [x EXCEPT ![w] = c]
      PROVE  Distinct(Kept(x, c)) /\ Seen(Kept(x, c), hashes \cup {c.hash})
  <2> DEFINE k == [x EXCEPT ![w] = c]
  <2>1. DOMAIN k = DOMAIN x /\ k[w] = c /\ \A n \in DOMAIN x \ {w} : k[n] = x[n]
    BY <1>1
  <2> HIDE DEF k
  <2>2. k[w].hash = c.hash /\ \A n \in DOMAIN x \ {w} : k[n].hash = x[n].hash
    BY <2>1
  <2>3. \A n \in DOMAIN x \ {w} : k[n].hash # c.hash /\ k[n].hash \in hashes
    BY <2>2 DEF Seen
  <2>4. Distinct(k) /\ Seen(k, hashes \cup {c.hash})
    BY <2>1, <2>2, <2>3 DEF Distinct, Seen
  <2> QED
    BY <1>4, <2>4 DEF k
<1> QED
  BY <1>2, <1>3, <1>4, KeptShape

LEMMA ConsideredHashes ==
  ASSUME NEW x, NEW c, IsList(x), IsCandidate(c), Distinct(x), Seen(x, seen_hashes)
  PROVE  /\ Distinct(consider_candidate(x, c)[1])
         /\ Seen(consider_candidate(x, c)[1], consider_candidate(x, c)[2])
<1>1. CASE ~Considered(c)
  BY <1>1 DEF consider_candidate
<1>2. CASE Considered(c)
  <2>1. Distinct(Kept(x, c)) /\ Seen(Kept(x, c), seen_hashes \cup {c.hash})
    BY <1>2, KeptHashes DEF Considered
  <2>2. consider_candidate(x, c)[1] = Kept(x, c)
        /\ consider_candidate(x, c)[2] =
             IF Kept(x, c) = x THEN seen_hashes ELSE seen_hashes \cup {c.hash}
    BY <1>2 DEF consider_candidate
  <2> QED
    BY <2>1, <2>2
<1> QED
  BY <1>1, <1>2

\* A sorted list is the same list in another order.
LEMMA SortedList ==
  ASSUME NEW a, NEW b \in SortedByScore(a), IsList(a)
  PROVE  /\ IsList(b) /\ Len(b) = Len(a)
         /\ \E p \in [DOMAIN a -> DOMAIN a] :
              /\ \A m, n \in DOMAIN a : p[m] = p[n] => m = n
              /\ \A m \in DOMAIN a : \E n \in DOMAIN a : p[n] = m
              /\ \A m, n \in DOMAIN a : m < n => a[p[m]].score >= a[p[n]].score
              /\ \A n \in DOMAIN a : b[n] = a[p[n]]
<1>1. PICK p \in Bijection(DOMAIN a, DOMAIN a) :
        /\ \A m, n \in DOMAIN a : m < n => a[p[m]].score >= a[p[n]].score
        /\ b = [n \in DOMAIN a |-> a[p[n]]]
  BY DEF SortedByScore
<1>2. /\ p \in [DOMAIN a -> DOMAIN a]
      /\ \A m, n \in DOMAIN a : p[m] = p[n] => m = n
      /\ \A m \in DOMAIN a : \E n \in DOMAIN a : p[n] = m
  BY <1>1 DEF Bijection, Injection, Surjection, IsInjective
<1>3. Len(a) \in Nat /\ DOMAIN a = 1..Len(a) /\ \A n \in 1..Len(a) : IsCandidate(a[n])
  BY ListFacts
<1>4. b = [n \in 1..Len(a) |-> b[n]] /\ \A n \in 1..Len(a) : IsCandidate(b[n])
  BY <1>1, <1>2, <1>3
<1>5. IsList(b) /\ Len(b) = Len(a)
  BY <1>3, <1>4, ListFromFunction
<1> QED
  BY <1>1, <1>2, <1>5

LEMMA ListInvStep ==
  ASSUME ListInv, [SearchNext]_vars
  PROVE  ListInv'
<1>1. CASE UNCHANGED vars
  BY <1>1 DEF vars, ListInv
<1>2. ASSUME SearchNext PROVE ListInv'
  <2>1. config' = config
    BY <1>2, StepShape
  <2>2. ASSUME NEW b, SameList(b, candidates'),
               \A n \in DOMAIN b : b[n].live => ~config.use_in_place_mutation
        PROVE  ListInv'
    <3>1. DOMAIN b = DOMAIN candidates'
      BY <2>2, ListFacts DEF SameList
    <3> QED
      BY <2>1, <2>2, <3>1 DEF ListInv, SameList, SameButLive
  <2>3. CASE Quiet
    BY <2>2, <2>3 DEF Quiet, ListInv
  <2>4. CASE Return
    <3>1. candidates' \in SortedByScore(candidates)
      BY <2>4 DEF Return
    <3>2. IsList(candidates') /\ DOMAIN candidates' = DOMAIN candidates
          /\ \A n \in DOMAIN candidates : \E m \in DOMAIN candidates : candidates'[n] = candidates[m]
      BY <3>1, SortedList, ListFacts DEF ListInv
    <3> QED
      BY <2>1, <3>2 DEF ListInv
  <2>5. ASSUME NEW c, Tried(c) PROVE ListInv'
    <3>1. PICK x : /\ SameList(candidates, x)
                   /\ SameList(consider_candidate(x, c)[1], candidates')
      BY <2>5 DEF Tried, Looked
    <3>2. IsCandidate(c) /\ (c.live => ~config.use_in_place_mutation)
      BY <2>5 DEF Tried, New
    <3>3. DOMAIN x = DOMAIN candidates
      BY <3>1, ListFacts DEF SameList
    <3>4. \A n \in DOMAIN x : x[n].live => ~config.use_in_place_mutation
      BY <3>1, <3>3 DEF SameList, SameButLive, ListInv
    <3> DEFINE k == consider_candidate(x, c)[1]
    <3>5. \A n \in DOMAIN k : k[n] = c \/ \E m \in DOMAIN x : k[n] = x[m]
      BY <3>1, <3>2, ConsideredList DEF SameList
    <3> HIDE DEF k
    <3>6. \A n \in DOMAIN k : k[n].live => ~config.use_in_place_mutation
      BY <3>2, <3>4, <3>5
    <3> QED
      BY <2>2, <3>1, <3>6 DEF k
  <2> QED
    BY <1>2, <2>3, <2>4, <2>5, StepShape
<1> QED
  BY <1>1, <1>2

LEMMA KeptInvStep ==
  ASSUME KeptInv, [SearchNext]_vars
  PROVE  KeptInv'
<1>0. ListInv'
  BY ListInvStep DEF KeptInv
<1>1. CASE UNCHANGED vars
  BY <1>1 DEF vars, KeptInv, ListInv, Distinct, Seen
<1>2. ASSUME SearchNext PROVE KeptInv'
  <2>1. ASSUME NEW b, NEW hashes, SameList(b, candidates'), Distinct(b), Seen(b, hashes),
               seen_hashes' = hashes
        PROVE  KeptInv'
    <3>1. Distinct(candidates') /\ Seen(candidates', hashes)
      BY <2>1, SameListHashes
    <3> QED
      BY <1>0, <2>1, <3>1 DEF KeptInv, Distinct, Seen
  <2>2. CASE Quiet
    BY <2>1, <2>2 DEF Quiet, KeptInv
  <2>3. CASE Return
    <3>1. candidates' \in SortedByScore(candidates) /\ seen_hashes' = seen_hashes
      BY <2>3 DEF Return
    <3>2. PICK p \in [DOMAIN candidates -> DOMAIN candidates] :
            /\ \A m, n \in DOMAIN candidates : p[m] = p[n] => m = n
            /\ \A n \in DOMAIN candidates : candidates'[n] = candidates[p[n]]
      BY <3>1, SortedList DEF KeptInv, ListInv
    <3>3. DOMAIN candidates' = DOMAIN candidates
      BY <3>1, SortedList, ListFacts DEF KeptInv, ListInv
    <3>4. Distinct(candidates') /\ Seen(candidates', seen_hashes)
      BY <3>2, <3>3 DEF KeptInv, Distinct, Seen
    <3> QED
      BY <1>0, <3>1, <3>4 DEF KeptInv, Distinct, Seen
  <2>4. ASSUME NEW c, Tried(c) PROVE KeptInv'
    <3>1. PICK x : /\ SameList(candidates, x)
                   /\ SameList(consider_candidate(x, c)[1], candidates')
                   /\ seen_hashes' = consider_candidate(x, c)[2]
      BY <2>4 DEF Tried, Looked
    <3>2. IsCandidate(c)
      BY <2>4 DEF Tried, New
    <3>3. IsList(x) /\ Distinct(x) /\ Seen(x, seen_hashes)
      BY <3>1, SameListHashes DEF SameList, KeptInv
    <3>4. /\ Distinct(consider_candidate(x, c)[1])
          /\ Seen(consider_candidate(x, c)[1], consider_candidate(x, c)[2])
      BY <3>2, <3>3, ConsideredHashes
    <3> QED
      BY <2>1, <3>1, <3>4
  <2> QED
    BY <1>2, <2>2, <2>3, <2>4, StepShape DEF KeptInv
<1> QED
  BY <1>1, <1>2

LEMMA KeptInvariant == SearchSpec => []KeptInv
<1>1. Init => KeptInv
  BY DEF Init, KeptInv, ListInv, IsList, Distinct, Seen, Range
<1>2. KeptInv /\ [SearchNext]_vars => KeptInv'
  BY KeptInvStep
<1> QED
  BY <1>1, <1>2, PTL DEF SearchSpec

\* What a step may do to a candidate that is kept.
LEMMA KeptStays ==
  ASSUME KeptInv, SearchNext,
         NEW m \in DOMAIN candidates, NEW n \in DOMAIN candidates',
         candidates[m].hash = candidates'[n].hash
  PROVE  candidates[m].fn = candidates'[n].fn
<1>1. CASE Quiet
  <2>1. DOMAIN candidates = DOMAIN candidates'
    BY <1>1, ListFacts DEF Quiet, SameList
  <2>2. candidates'[n].hash = candidates[n].hash /\ candidates'[n].fn = candidates[n].fn
    BY <1>1, <2>1 DEF Quiet, SameList, SameButLive
  <2> QED
    BY <2>1, <2>2 DEF KeptInv, Distinct
<1>2. CASE Return
  <2>1. candidates' \in SortedByScore(candidates)
    BY <1>2 DEF Return
  <2>2. DOMAIN candidates' = DOMAIN candidates
    BY <2>1, SortedList, ListFacts DEF KeptInv, ListInv
  <2>3. PICK q \in DOMAIN candidates : candidates'[n] = candidates[q]
    BY <2>1, <2>2, SortedList DEF KeptInv, ListInv
  <2> QED
    BY <2>3 DEF KeptInv, Distinct
<1>3. ASSUME NEW c, Tried(c) PROVE candidates[m].fn = candidates'[n].fn
  <2>1. PICK x : /\ SameList(candidates, x)
                 /\ SameList(consider_candidate(x, c)[1], candidates')
    BY <1>3 DEF Tried, Looked
  <2>2. IsCandidate(c)
    BY <1>3 DEF Tried, New
  <2> DEFINE k == consider_candidate(x, c)[1]
  <2>3. (k[n] = c /\ Considered(c)) \/ \E q \in DOMAIN x : k[n] = x[q]
    <3>1. n \in DOMAIN k
      BY <2>1, ListFacts DEF SameList
    <3> QED
      BY <2>1, <2>2, <3>1, ConsideredList DEF SameList
  <2>4. candidates'[n].hash = k[n].hash /\ candidates'[n].fn = k[n].fn
    <3>1. n \in DOMAIN k
      BY <2>1, ListFacts DEF SameList
    <3> QED
      BY <2>1, <3>1 DEF SameList, SameButLive
  <2> HIDE DEF k
  <2>5. DOMAIN x = DOMAIN candidates
    BY <2>1, ListFacts DEF SameList
  <2>6. CASE k[n] = c /\ Considered(c)
    <3>1. c.hash \notin seen_hashes /\ candidates[m].hash \in seen_hashes
      BY <2>6 DEF Considered, KeptInv, Seen
    <3> QED
      BY <2>4, <2>6, <3>1
  <2>7. ASSUME NEW q \in DOMAIN x, k[n] = x[q] PROVE candidates[m].fn = candidates'[n].fn
    <3>1. x[q].hash = candidates[q].hash /\ x[q].fn = candidates[q].fn
      BY <2>1, <2>5 DEF SameList, SameButLive
    <3>2. m = q
      BY <2>4, <2>5, <2>7, <3>1 DEF KeptInv, Distinct
    <3> QED
      BY <2>4, <2>7, <3>1, <3>2
  <2> QED
    BY <2>3, <2>6, <2>7
<1> QED
  BY <1>1, <1>2, <1>3, StepShape DEF KeptInv

\* A candidate that is kept stays what it was when its score was taken: whether
\* functions are edited in place or copied, whether the turn is accepted, taken
\* back or begun again, no later edit of the live function reaches the list.
THEOREM SearchKeptNeverEdited == SearchSpec => KeptNeverEdited
<1>1. ASSUME KeptInv, [SearchNext]_vars
      PROVE  [\A c \in Range(candidates), d \in Range(candidates') :
                c.hash = d.hash => c.fn = d.fn]_vars
  <2> SUFFICES ASSUME SearchNext,
                      NEW c \in Range(candidates), NEW d \in Range(candidates'), c.hash = d.hash
               PROVE  c.fn = d.fn
    BY <1>1
  <2>1. PICK m \in DOMAIN candidates : c = candidates[m]
    BY DEF Range
  <2>2. PICK n \in DOMAIN candidates' : d = candidates'[n]
    BY DEF Range
  <2> QED
    BY <1>1, <2>1, <2>2, KeptStays
<1> QED
  BY KeptInvariant, <1>1, PTL DEF SearchSpec, KeptNeverEdited

-----------------------------------------------------------------------------
(* A rejected edit leaves no trace.                                         *)

\* The functions the search holds are made of blocks.
FormedInv == Formed(original) /\ Formed(current_fn)

\* What is picked is a mutation that has an implementation, in a block.
LEMMA PicksInBlocks ==
  ASSUME NEW m \in Picks
  PROVE  IsMove(current_fn, m)
<1>1. PICK f : f = current_fn
  OBVIOUS
<1>2. ASSUME NEW kind \in InPlaceKinds, NEW b \in Blocks(f), NEW n, NEW aux, m = Site(kind, b, n, aux)
      PROVE  IsMove(f, m)
  BY <1>2 DEF Site, IsMove
<1>3. ASSUME NEW p \in Places(f) PROVE p[1] \in Blocks(f)
  BY DEF Places
<1>4. ASSUME NEW b \in Blocks(f), NEW n, NEW i, m \in SoundSites(f, b, n, i)
      PROVE  IsMove(f, m)
  <2>1. \E kind \in {"DeleteInstruction", "FoldConstant", "StrengthReduce", "SimplifyIdentity",
                     "EliminateCommonSubexpr", "CombineInstructions", "SwapInstructions"} :
          \E k, aux : m = Site(kind, b, k, aux)
    BY <1>4 DEF SoundSites, SiteFor
  <2> QED
    BY <1>2, <2>1 DEF InPlaceKinds
<1>5. ASSUME NEW b \in Blocks(f), NEW n, NEW i, m \in UnsoundSites(b, n, i)
      PROVE  IsMove(f, m)
  <2>1. \E kind \in {"OperandReplace", "OpcodeReplace", "InstructionReplace", "OperandSwap"} :
          \E k, aux : m = Site(kind, b, k, aux)
    BY <1>5 DEF UnsoundSites
  <2> QED
    BY <1>2, <2>1 DEF InPlaceKinds
<1>6. ASSUME NEW b \in Blocks(f), m \in InsertionSites(f, b) PROVE IsMove(f, m)
  BY <1>2, <1>6 DEF InsertionSites, InPlaceKinds
<1>7. CASE m \in collect_mutation_sites(f, effective_allow_unsound)
  <2> DEFINE Sound     == UNION {SoundSites(f, p[1], p[2], f.body[p[1]][p[2]]) : p \in Places(f)}
             Unsound   == UNION {UnsoundSites(p[1], p[2], f.body[p[1]][p[2]]) : p \in Places(f)}
             Insertion == UNION {InsertionSites(f, b) : b \in Blocks(f)}
  <2>1. CASE m \in Sound
    BY <1>1, <1>3, <1>4, <2>1
  <2>2. CASE m \in Unsound
    BY <1>1, <1>3, <1>5, <2>2
  <2>3. CASE m \in Insertion
    BY <1>1, <1>6, <2>3
  <2>4. m \in Sound \cup (IF effective_allow_unsound THEN Unsound \cup Insertion ELSE {})
    BY <1>7, Zenon DEF collect_mutation_sites
  <2> HIDE DEF Sound, Unsound, Insertion
  <2>5. m \in Sound \/ m \in Unsound \/ m \in Insertion
    <3>1. CASE effective_allow_unsound
      BY <2>4, <3>1
    <3>2. CASE ~effective_allow_unsound
      BY <2>4, <3>2
    <3> QED
      BY <3>1, <3>2
  <2> QED
    BY <2>1, <2>2, <2>3, <2>5
<1>8. CASE m \in blind_random_mutation(f, effective_allow_unsound)
  <2>1. PICK kind \in BlindKinds(effective_allow_unsound), p \in Places(f) : \E aux :
          m = Site(kind, p[1], p[2], aux)
    BY <1>8 DEF blind_random_mutation
  <2>2. BlindKinds(effective_allow_unsound) \subseteq InPlaceKinds
    BY DEF BlindKinds, UnsoundKinds, InPlaceKinds
  <2>3. PICK b, n, aux : b = p[1] /\ n = p[2] /\ m = Site(kind, b, n, aux)
    BY <2>1
  <2>4. kind \in InPlaceKinds /\ b \in Blocks(f)
    BY <1>3, <2>2, <2>3
  <2> QED
    BY <1>1, <1>2, <2>3, <2>4
<1> QED
  BY <1>1, <1>7, <1>8 DEF Picks

\* What is taken back is the function as it was.
LEMMA TakenBackIs ==
  ASSUME FormedInv, NEW m \in Picks, NEW s \in OutcomesInPlace(m)
  PROVE  undo_all(s) = current_fn /\ Formed(s.fn)
BY PicksInBlocks, TakenBackWhole DEF FormedInv, OutcomesInPlace

LEMMA TakenBackSame ==
  ASSUME FormedInv, NEW f, TakenBack(f)
  PROVE  f = current_fn
BY TakenBackIs DEF TakenBack

LEMMA MadeFormed ==
  ASSUME FormedInv, NEW g, NEW kind, Made(g, kind)
  PROVE  Formed(g)
<1>1. ASSUME NEW m \in Picks, g \in Outcomes(m) PROVE Formed(g)
  BY <1>1, PicksInBlocks, MutationFormed DEF FormedInv, Outcomes, apply_mutation_impl
<1>2. ASSUME NEW m \in Picks, NEW s \in OutcomesInPlace(m), g = s.fn PROVE Formed(g)
  BY <1>2, TakenBackIs
<1>3. ASSUME NEW p \in Library, NEW at \in match(current_fn, p, target_arch),
             g \in pattern_guided_mutate(p, at)
      PROVE  Formed(g)
  <2>1. p \in seed_builtin_patterns \cup ExtraPatterns
    BY DEF Library
  <2>2. g \in apply(current_fn, at[1], at[2], p)
    BY <1>3 DEF pattern_guided_mutate
  <2> QED
    BY <2>1, <2>2, PatternFormed DEF FormedInv
<1> QED
  BY <1>1, <1>2, <1>3 DEF Made

LEMMA ForcedFormed ==
  ASSUME FormedInv, NEW g \in ForcedOutcomes
  PROVE  Formed(g)
<1>1. PICK m : m = Forced
  OBVIOUS
<1>2. m.kind = "DeleteInstruction"
  BY <1>1 DEF Forced, Site
<1>3. g \in delete_dead_code(current_fn, m.block, m.pos)
  BY <1>1, <1>2 DEF ForcedOutcomes, apply_mutation_impl, MutationOf
<1> QED
  BY <1>3, DeletedFormed DEF FormedInv

LEMMA FormedInvStep ==
  ASSUME ListInv, FormedInv, [SearchNext]_vars
  PROVE  FormedInv'
<1>1. CASE UNCHANGED vars
  BY <1>1 DEF vars, FormedInv
<1>2. ASSUME SearchNext PROVE FormedInv'
  <2>1. original' = original
    BY <1>2, StepShape
  <2>2. ASSUME Formed(current_fn') PROVE FormedInv'
    BY <2>1, <2>2 DEF FormedInv
  <2>3. CASE Return
    BY <2>2, <2>3 DEF Return, FormedInv
  <2>4. CASE Quiet
    BY <2>2, <2>4, ForcedFormed DEF Quiet, FormedInv
  <2>5. ASSUME NEW c, Tried(c) PROVE FormedInv'
    <3>1. PICK kind : Made(c.fn, kind)
      BY <2>5 DEF Tried, New
    <3>2. Formed(c.fn)
      BY <3>1, MadeFormed
    <3> QED
      BY <2>2, <2>5, <3>2, TakenBackSame DEF Tried, GoesOn, FormedInv
  <2> QED
    BY <1>2, <2>3, <2>4, <2>5, StepShape
<1> QED
  BY <1>1, <1>2

LEMMA FormedInvariant == SearchSpec => [](ListInv /\ FormedInv)
<1>1. Init => ListInv /\ FormedInv
  BY FormedAssumption DEF Init, ListInv, IsList, Range, FormedInv
<1>2. ListInv /\ FormedInv /\ [SearchNext]_vars => (ListInv /\ FormedInv)'
  BY ListInvStep, FormedInvStep
<1> QED
  BY <1>1, <1>2, PTL DEF SearchSpec

\* The counters by which a rejected turn is known.
CountInv == mutations_accepted \in Nat /\ stagnation_restarts \in Nat
\* A turn that counts, and one that leaves the function as it was.
Counted(ok, again) ==
  /\ mutations_accepted' = mutations_accepted + (IF ok THEN 1 ELSE 0)
  /\ stagnation_restarts' = stagnation_restarts + (IF again THEN 1 ELSE 0)
  /\ ~ok /\ ~again => current_fn' = current_fn

LEMMA CopyCounted ==
  ASSUME NEW g, NEW kind, OnCopy(g, kind)
  PROVE  \E ok, again : Counted(ok, again)
<1>1. PICK ok, score, sound, k : JudgedCopy(g, score, sound, ok, k)
  <2>1. PICK c : c = Candidate(g, current_sound /\ is_sound_kind(kind), FALSE)
    OBVIOUS
  <2>2. CopyMade(c)
    BY <2>1, Zenon DEF OnCopy
  <2>3. c.fn = g
    BY <2>1, Fields, Zenon DEF Candidate
  <2> QED
    BY <2>2, <2>3, Zenon DEF CopyMade
<1>2. CASE ok
  <2>1. EndOfTurn(g, score, sound, k[1], k[3])
    BY <1>1, <1>2 DEF JudgedCopy
  <2>2. Counted(ok, Restarts(k[3]))
    BY <1>1, <1>2, <2>1 DEF JudgedCopy, EndOfTurn, Counted
  <2> QED
    BY <2>2
<1>3. CASE ~ok
  <2>1. EndOfTurn(current_fn, current_score, current_sound, k[1], k[3])
    BY <1>1, <1>3 DEF JudgedCopy
  <2>2. Counted(ok, Restarts(k[3]))
    BY <1>1, <1>3, <2>1 DEF JudgedCopy, EndOfTurn, Counted
  <2> QED
    BY <2>2
<1> QED
  BY <1>2, <1>3

LEMMA InPlaceCounted ==
  ASSUME FormedInv, NEW m \in Picks, NEW s \in OutcomesInPlace(m), NEW c, EditedInPlace(s, c)
  PROVE  \E ok, again : Counted(ok, again)
<1>1. PICK ok, score, sound, k : JudgedInPlace(s, score, sound, ok, k)
  BY Zenon DEF EditedInPlace
<1>2. undo_all(s) = current_fn
  BY TakenBackIs
<1>3. CASE ok
  <2>1. EndOfTurn(s.fn, score, sound, k[1], k[3])
    BY <1>1, <1>3 DEF JudgedInPlace
  <2>2. Counted(ok, Restarts(k[3]))
    BY <1>1, <1>3, <2>1 DEF JudgedInPlace, EndOfTurn, Counted
  <2> QED
    BY <2>2
<1>4. CASE ~ok
  <2>1. EndOfTurn(undo_all(s), current_score, current_sound, Edited(k[1], undo_all(s)), k[3])
    BY <1>1, <1>4 DEF JudgedInPlace
  <2>2. Counted(ok, Restarts(k[3]))
    BY <1>1, <1>2, <1>4, <2>1 DEF JudgedInPlace, EndOfTurn, Counted
  <2> QED
    BY <2>2
<1> QED
  BY <1>3, <1>4

LEMMA TurnCounted ==
  ASSUME FormedInv, CountInv, SearchNext
  PROVE  \/ \E ok, again : Counted(ok, again)
         \/ UNCHANGED <<current_fn, mutations_accepted, stagnation_restarts>>
<1>1. CASE Return
  BY <1>1 DEF Return
<1>2. CASE Skip
  BY <1>2 DEF Skip, CutShort
<1>3. CASE ForceDelete
  <2>1. stagnation_restarts' = stagnation_restarts
    BY <1>3 DEF ForceDelete, CutShort
  <2>2. CASE UNCHANGED <<current_fn, current_score, score_cache_, candidates, mutations_accepted>>
    BY <2>1, <2>2
  <2>3. ASSUME NEW g, NEW ok, current_fn' = IF ok THEN g ELSE current_fn,
               mutations_accepted' = mutations_accepted + (IF ok THEN 1 ELSE 0)
        PROVE  \/ \E o, again : Counted(o, again)
               \/ UNCHANGED <<current_fn, mutations_accepted, stagnation_restarts>>
    <3>1. Counted(ok, FALSE)
      BY <2>1, <2>3 DEF Counted, CountInv
    <3> QED
      BY <3>1
  <2> QED
    BY <1>3, <2>2, <2>3 DEF ForceDelete
<1>4. CASE MutateInPlace
  <2>1. PICK m \in Picks : \E s \in OutcomesInPlace(m) : \E c : EditedInPlace(s, c)
    BY <1>4, Zenon DEF MutateInPlace
  <2> QED
    BY <2>1, InPlaceCounted
<1>5. CASE MutateCopy
  <2>1. PICK m \in Picks : \E g \in Outcomes(m) : OnCopy(g, m.kind)
    BY <1>5, Zenon DEF MutateCopy
  <2> QED
    BY <2>1, CopyCounted
<1>6. CASE MutateByPattern
  <2>1. PICK g : OnCopy(g, "PatternGuided")
    BY <1>6, Zenon DEF MutateByPattern
  <2> QED
    BY <2>1, CopyCounted
<1> QED
  BY <1>1, <1>2, <1>3, <1>4, <1>5, <1>6 DEF SearchNext

LEMMA CountInvStep ==
  ASSUME FormedInv, CountInv, [SearchNext]_vars
  PROVE  /\ CountInv'
         /\ mutations_accepted' = mutations_accepted /\ stagnation_restarts' = stagnation_restarts
              => current_fn' = current_fn
<1>1. CASE UNCHANGED vars
  BY <1>1 DEF vars, CountInv
<1>2. CASE UNCHANGED <<current_fn, mutations_accepted, stagnation_restarts>>
  BY <1>2 DEF CountInv
<1>3. ASSUME NEW ok, NEW again, Counted(ok, again)
      PROVE  /\ CountInv'
             /\ mutations_accepted' = mutations_accepted /\ stagnation_restarts' = stagnation_restarts
                  => current_fn' = current_fn
  BY <1>3 DEF Counted, CountInv
<1> QED
  BY <1>1, <1>2, <1>3, TurnCounted

\* An edit that is not accepted leaves no trace in the live function, whatever
\* the mutation did to it and in whatever function: each entry of the log is
\* taken back at the place where it was made, in the function that the later
\* ones left, so that the search goes on with the function it had.
THEOREM SearchRejectedLeavesNoTrace == SearchSpec => RejectedLeavesNoTrace
<1>1. Init => CountInv
  BY DEF Init, CountInv
<1>2. FormedInv /\ CountInv /\ [SearchNext]_vars =>
        /\ CountInv'
        /\ mutations_accepted' = mutations_accepted /\ stagnation_restarts' = stagnation_restarts
             => current_fn' = current_fn
  BY CountInvStep
<1> QED
  BY FormedInvariant, <1>1, <1>2, PTL DEF SearchSpec, RejectedLeavesNoTrace

-----------------------------------------------------------------------------
(* The list holds the best.                                                 *)

\* What the list says of the best score.
Scored(cands, best) ==
  /\ Len(cands) <= config.max_candidates
  /\ \A n \in DOMAIN cands : /\ cands[n].score \in Int
                             /\ baseline_score < cands[n].score /\ cands[n].score <= best
  /\ best > baseline_score => \E n \in DOMAIN cands : cands[n].score = best

\* The worst candidate exists, being the first of those with the least score.
LEMMA WorstExists ==
  ASSUME NEW a, IsList(a), a # <<>>, NEW low \in Int,
         \A n \in DOMAIN a : a[n].score \in Int /\ low < a[n].score
  PROVE  WorstOf(a) \in DOMAIN a /\ \A m \in DOMAIN a : a[WorstOf(a)].score <= a[m].score
<1>1. Len(a) \in Nat \ {0} /\ DOMAIN a = 1..Len(a)
  BY ListFacts DEF IsList
<1> DEFINE Over == {a[n].score - low : n \in DOMAIN a}
<1>2. Over \subseteq Nat /\ Over # {}
  <2>1. \A n \in DOMAIN a : a[n].score - low \in Nat
    OBVIOUS
  <2>2. 1 \in DOMAIN a
    BY <1>1
  <2> QED
    BY <2>1, <2>2
<1>3. PICK o \in Over : \A p \in Over : o <= p
  BY <1>2, LeastNatural
<1>4. PICK v \in DOMAIN a : o = a[v].score - low
  OBVIOUS
<1>5. \A m \in DOMAIN a : a[v].score <= a[m].score
  <2> TAKE m \in DOMAIN a
  <2>1. a[v].score - low <= a[m].score - low
    BY <1>3, <1>4
  <2> QED
    BY <2>1
<1> HIDE DEF Over
<1> DEFINE Like == {n \in DOMAIN a : a[n].score = a[v].score}
<1>6. Like \subseteq Nat /\ v \in Like
  BY <1>1
<1>7. PICK w \in Like : \A n \in Like : w <= n
  BY <1>6, LeastNatural
<1>8. w \in DOMAIN a /\ a[w].score = a[v].score
  OBVIOUS
<1>9. \A m \in 1..(w - 1) : a[m].score > a[w].score
  <2> TAKE m \in 1..(w - 1)
  <2>1. m \in DOMAIN a /\ ~(w <= m)
    BY <1>1, <1>8
  <2>2. a[m].score # a[v].score
    BY <1>7, <2>1
  <2> QED
    BY <1>5, <1>8, <2>1, <2>2
<1>10. \A m \in DOMAIN a : a[w].score <= a[m].score
  BY <1>5, <1>8
<1> HIDE DEF Like
<1> QED
  BY <1>8, <1>9, <1>10 DEF WorstOf

\* A candidate that was looked at leaves the list with the best.
LEMMA ConsideredScored ==
  ASSUME NEW x, NEW c, IsList(x), IsCandidate(c), c.score \in Int,
         config.max_candidates \in Nat \ {0}, baseline_score \in Int,
         best_score \in Int, baseline_score <= best_score, Scored(x, best_score)
  PROVE  /\ consider_candidate(x, c)[3] \in Int
         /\ baseline_score <= consider_candidate(x, c)[3]
         /\ Scored(consider_candidate(x, c)[1], consider_candidate(x, c)[3])
<1>1. Len(x) \in Nat /\ DOMAIN x = 1..Len(x) /\ x \in Seq(Range(x))
  BY ListFacts DEF IsList
<1>2. CASE ~Considered(c)
  BY <1>2 DEF consider_candidate
<1>3. CASE Considered(c)
  <2> DEFINE b == IF c.score > best_score THEN c.score ELSE best_score
  <2>1. consider_candidate(x, c)[1] = Kept(x, c) /\ consider_candidate(x, c)[3] = b
    BY <1>3 DEF consider_candidate
  <2>2. b \in Int /\ baseline_score <= b /\ best_score <= b /\ c.score <= b
        /\ (b = c.score \/ b = best_score)
    OBVIOUS
  <2>3. baseline_score < c.score
    BY <1>3 DEF Considered
  <2>4. \A n \in DOMAIN x : /\ x[n].score \in Int /\ baseline_score < x[n].score
                           /\ x[n].score <= best_score /\ x[n].score <= b
    BY <2>2 DEF Scored
  <2>5. b = c.score \/ \E n \in DOMAIN x : x[n].score = b
    BY <2>2, <2>3 DEF Scored
  <2>6. b # c.score => c.score <= best_score /\ b = best_score
    BY <2>2
  <2> HIDE DEF b
  <2>7. CASE Len(x) < config.max_candidates
    <3> DEFINE k == Append(x, c)
    <3>1. Kept(x, c) = k
      BY <2>7 DEF Kept
    <3>2. /\ Len(k) = Len(x) + 1 /\ DOMAIN k = 1..(Len(x) + 1) /\ k[Len(x) + 1] = c
          /\ \A n \in 1..Len(x) : k[n] = x[n]
      BY <1>1
    <3> HIDE DEF k
    <3>3. \A n \in DOMAIN k : n = Len(x) + 1 \/ n \in DOMAIN x
      BY <1>1, <3>2
    <3>4. k[Len(x) + 1].score = c.score /\ \A n \in DOMAIN x : k[n].score = x[n].score
      BY <1>1, <3>2
    <3>5. \A n \in DOMAIN k : k[n].score \in Int /\ baseline_score < k[n].score /\ k[n].score <= b
      BY <2>2, <2>3, <2>4, <3>3, <3>4
    <3>6. \E n \in DOMAIN k : k[n].score = b
      BY <1>1, <2>5, <3>2, <3>4
    <3>7. Scored(k, b)
      BY <1>1, <2>7, <3>2, <3>5, <3>6 DEF Scored
    <3> QED
      BY <2>1, <2>2, <3>1, <3>7
  <2>8. CASE ~(Len(x) < config.max_candidates)
    <3>1. x # <<>>
      BY <1>1, <2>8
    <3>2. WorstOf(x) \in DOMAIN x /\ \A m \in DOMAIN x : x[WorstOf(x)].score <= x[m].score
      BY <2>4, <3>1, WorstExists
    <3> DEFINE w == WorstOf(x)
    <3> HIDE DEF w
    <3>3. w \in DOMAIN x /\ \A m \in DOMAIN x : x[w].score <= x[m].score
      BY <3>2 DEF w
    <3>4. CASE ~(c.score > x[w].score)
      <4>1. Kept(x, c) = x
        BY <2>8, <3>1, <3>4 DEF Kept, w
      <4>2. c.score <= best_score
        BY <2>4, <3>3, <3>4
      <4>3. b = best_score
        BY <4>2 DEF b
      <4> QED
        BY <2>1, <2>2, <4>1, <4>3
    <3>5. CASE c.score > x[w].score
      <4> DEFINE k == [x EXCEPT ![w] = c]
      <4>1. Kept(x, c) = k
        BY <2>8, <3>1, <3>5 DEF Kept, w
      <4>2. DOMAIN k = DOMAIN x /\ k[w] = c /\ \A n \in DOMAIN x \ {w} : k[n] = x[n]
        BY <3>3
      <4>3. Len(k) = Len(x)
        BY <4>1, KeptShape, ListFacts, <4>2, <1>1
      <4> HIDE DEF k
      <4>4. k[w].score = c.score /\ \A n \in DOMAIN x \ {w} : k[n].score = x[n].score
        BY <4>2
      <4>5. \A n \in DOMAIN k : k[n].score \in Int /\ baseline_score < k[n].score /\ k[n].score <= b
        BY <2>2, <2>3, <2>4, <4>2, <4>4
      <4>6. \E n \in DOMAIN k : k[n].score = b
        <5>1. CASE b = c.score
          BY <3>3, <4>2, <4>4, <5>1
        <5>2. CASE b # c.score
          <6>1. PICK n \in DOMAIN x : x[n].score = b
            BY <2>5, <5>2
          <6>2. n # w
            BY <2>4, <2>6, <3>3, <3>5, <5>2, <6>1
          <6> QED
            BY <4>2, <4>4, <6>1, <6>2
        <5> QED
          BY <5>1, <5>2
      <4>7. Scored(k, b)
        BY <4>3, <4>5, <4>6 DEF Scored
      <4> QED
        BY <2>1, <2>2, <4>1, <4>7
    <3> QED
      BY <3>4, <3>5
  <2> QED
    BY <2>7, <2>8
<1> QED
  BY <1>2, <1>3

-----------------------------------------------------------------------------
(* What the search relies on: the functions it may visit.                   *)

MovesOf(f) ==
  {Site("DeleteInstruction", Entry(f), 1, 0)}
    \cup collect_mutation_sites(f, TRUE) \cup blind_random_mutation(f, TRUE)
CopiesOf(f, m, k) == apply_mutation_impl(f, m, k, count_instructions(f))
EditsOf(f, m, k)  == apply_mutation_in_place(ScopeOf(f), m, k, count_instructions(f))
Patterned(f) ==
  UNION {UNION {apply(f, at[1], at[2], p) : at \in match(f, p, target_arch)} :
         p \in seed_builtin_patterns \cup ExtraPatterns}

\* Fns holds, for every function that is searched, functions that have scores
\* and that mutations do not lead out of.
SearchSpace(Fns) ==
  \A o \in Originals :
    /\ o \in Fns[o]
    /\ \A f \in Fns[o] :
         /\ Score(f) \in Int
         /\ Patterned(f) \subseteq Fns[o]
         /\ \A m \in MovesOf(f), k \in Nat \ {0} :
              /\ CopiesOf(f, m, k) \subseteq Fns[o]
              /\ \A s \in EditsOf(f, m, k) : s.fn \in Fns[o]

\* The search stays in that space, and scores are numbers.
SpaceInv(Fns) ==
  /\ original \in Originals /\ config \in Configs
  /\ current_fn \in Fns[original] /\ current_score \in Int
  /\ next_stoke_name \in Nat \ {0}
  /\ \A h \in DOMAIN score_cache_ : score_cache_[h] \in Int

\* The moves that are tried.
LEMMA PicksAreMoves == Picks \subseteq MovesOf(current_fn) /\ Forced \in MovesOf(current_fn)
<1>1. collect_mutation_sites(current_fn, effective_allow_unsound)
        \subseteq collect_mutation_sites(current_fn, TRUE)
  BY DEF collect_mutation_sites
<1>2. BlindKinds(effective_allow_unsound) \subseteq BlindKinds(TRUE)
  BY DEF BlindKinds
<1>3. blind_random_mutation(current_fn, effective_allow_unsound)
        \subseteq blind_random_mutation(current_fn, TRUE)
  <2> DEFINE Blind(A) == {Site(kind, p[1], p[2], IF kind = "OperandReplace" THEN 1 ELSE 0) :
                            kind \in A, p \in Places(current_fn)}
  <2>1. \A A, B : A \subseteq B => Blind(A) \subseteq Blind(B)
    OBVIOUS
  <2>2. /\ blind_random_mutation(current_fn, effective_allow_unsound) =
             Blind(BlindKinds(effective_allow_unsound))
        /\ blind_random_mutation(current_fn, TRUE) = Blind(BlindKinds(TRUE))
    BY DEF blind_random_mutation
  <2>3. PICK A, B : A = BlindKinds(effective_allow_unsound) /\ B = BlindKinds(TRUE)
    OBVIOUS
  <2>4. Blind(A) \subseteq Blind(B)
    <3>1. A \subseteq B
      BY <1>2, <2>3
    <3> HIDE DEF Blind
    <3> QED
      BY <2>1, <3>1
  <2> HIDE DEF Blind
  <2> QED
    BY <2>2, <2>3, <2>4
<1> QED
  BY <1>1, <1>3 DEF Picks, MovesOf, Forced

LEMMA MadeInSpace ==
  ASSUME NEW Fns, SearchSpace(Fns), SpaceInv(Fns), NEW g, NEW kind, Made(g, kind)
  PROVE  g \in Fns[original] /\ Score(g) \in Int
<1>1. original \in Originals /\ current_fn \in Fns[original] /\ next_stoke_name \in Nat \ {0}
  BY DEF SpaceInv
<1>2. /\ Patterned(current_fn) \subseteq Fns[original]
      /\ \A m \in MovesOf(current_fn) :
           /\ CopiesOf(current_fn, m, next_stoke_name) \subseteq Fns[original]
           /\ \A s \in EditsOf(current_fn, m, next_stoke_name) : s.fn \in Fns[original]
  BY <1>1 DEF SearchSpace
<1>3. ASSUME NEW m \in Picks, g \in Outcomes(m) PROVE g \in Fns[original]
  BY <1>2, <1>3, PicksAreMoves DEF Outcomes, CopiesOf
<1>4. ASSUME NEW m \in Picks, NEW s \in OutcomesInPlace(m), g = s.fn PROVE g \in Fns[original]
  BY <1>2, <1>4, PicksAreMoves DEF OutcomesInPlace, EditsOf
<1>5. ASSUME NEW p \in Library, NEW at \in match(current_fn, p, target_arch),
             g \in pattern_guided_mutate(p, at)
      PROVE  g \in Fns[original]
  <2>1. p \in seed_builtin_patterns \cup ExtraPatterns
    BY <1>5 DEF Library
  <2>2. g \in apply(current_fn, at[1], at[2], p)
    BY <1>5 DEF pattern_guided_mutate
  <2>3. g \in UNION {apply(current_fn, a[1], a[2], p) : a \in match(current_fn, p, target_arch)}
    BY <2>2
  <2>4. g \in Patterned(current_fn)
    BY <2>1, <2>3 DEF Patterned
  <2> QED
    BY <1>2, <2>4
<1>6. g \in Fns[original]
  BY <1>3, <1>4, <1>5 DEF Made
<1> QED
  BY <1>1, <1>6 DEF SearchSpace

LEMMA ForcedInSpace ==
  ASSUME NEW Fns, SearchSpace(Fns), SpaceInv(Fns), NEW g \in ForcedOutcomes
  PROVE  g \in Fns[original] /\ Score(g) \in Int
<1>1. original \in Originals /\ current_fn \in Fns[original] /\ next_stoke_name \in Nat \ {0}
  BY DEF SpaceInv
<1>2. g \in CopiesOf(current_fn, Forced, next_stoke_name)
  BY DEF ForcedOutcomes, CopiesOf
<1>3. g \in Fns[original]
  BY <1>1, <1>2, PicksAreMoves DEF SearchSpace
<1> QED
  BY <1>1, <1>3 DEF SearchSpace

\* A score that is cached or computed is a number, and remains one.
LEMMA ScoreNumber ==
  ASSUME NEW Fns, SpaceInv(Fns), NEW g, Score(g) \in Int
  PROVE  score_with_cache(g) \in Int
BY DEF SpaceInv, score_with_cache, ScoreUnder

LEMMA CacheNumbers ==
  ASSUME NEW Fns, SpaceInv(Fns), NEW g, Score(g) \in Int, Remember(g)
  PROVE  \A h \in DOMAIN score_cache_' : score_cache_'[h] \in Int
BY DEF SpaceInv, Remember, ScoreUnder

LEMMA NameStep ==
  ASSUME SearchNext, next_stoke_name \in Nat \ {0}
  PROVE  next_stoke_name' \in Nat \ {0}
<1>1. CASE Return \/ ForceDelete \/ Skip \/ MutateByPattern
  BY <1>1 DEF Return, ForceDelete, Skip, CutShort, MutateByPattern
<1>2. CASE MutateInPlace
  BY <1>2 DEF MutateInPlace, NamesTaken
<1>3. CASE MutateCopy
  BY <1>3 DEF MutateCopy, NamesTaken
<1> QED
  BY <1>1, <1>2, <1>3 DEF SearchNext

LEMMA SpaceInvStep ==
  ASSUME NEW Fns, SearchSpace(Fns), SpaceInv(Fns), ListInv, FormedInv, [SearchNext]_vars
  PROVE  SpaceInv(Fns)'
<1>1. CASE UNCHANGED vars
  BY <1>1 DEF vars, SpaceInv
<1>2. ASSUME SearchNext PROVE SpaceInv(Fns)'
  <2>1. /\ config' = config /\ original' = original /\ next_stoke_name' \in Nat \ {0}
        /\ original \in Originals /\ config \in Configs /\ current_fn \in Fns[original]
        /\ current_score \in Int
    BY <1>2, StepShape, NameStep DEF SpaceInv
  <2>2. CASE Return
    BY <2>1, <2>2 DEF Return, SpaceInv
  <2>3. CASE Quiet
    <3>1. CASE UNCHANGED <<current_fn, current_score, score_cache_>>
      BY <2>1, <3>1 DEF SpaceInv
    <3>2. ASSUME NEW g \in ForcedOutcomes, Remember(g),
                 \/ UNCHANGED <<current_fn, current_score>>
                 \/ current_fn' = g /\ current_score' = score_with_cache(g)
          PROVE  SpaceInv(Fns)'
      BY <2>1, <3>2, ForcedInSpace, ScoreNumber, CacheNumbers DEF SpaceInv
    <3> QED
      BY <2>3, <3>1, <3>2 DEF Quiet
  <2>4. ASSUME NEW c, Tried(c) PROVE SpaceInv(Fns)'
    <3>1. PICK kind : Made(c.fn, kind)
      BY <2>4 DEF Tried, New
    <3>2. c.fn \in Fns[original] /\ Score(c.fn) \in Int
      BY <3>1, MadeInSpace
    <3>3. c.score \in Int
      BY <2>4, <3>2, ScoreNumber DEF Tried, New
    <3>4. \A h \in DOMAIN score_cache_' : score_cache_'[h] \in Int
      BY <2>4, <3>2, CacheNumbers DEF Tried
    <3>5. original \in Fns[original] /\ baseline_score \in Int
      BY <2>1 DEF SearchSpace, baseline_score
    <3>6. current_fn' \in Fns[original] /\ current_score' \in Int
      BY <2>1, <2>4, <3>2, <3>3, <3>5, TakenBackSame DEF Tried, GoesOn
    <3> QED
      BY <2>1, <3>4, <3>6 DEF SpaceInv
  <2> QED
    BY <1>2, <2>2, <2>3, <2>4, StepShape
<1> QED
  BY <1>1, <1>2

LEMMA SpaceInvariant ==
  ASSUME NEW Fns, SearchSpace(Fns)
  PROVE  SearchSpec => [](ListInv /\ FormedInv /\ SpaceInv(Fns))
<1>1. Init => SpaceInv(Fns)
  BY DEF Init, SpaceInv, SearchSpace, baseline_score
<1>2. ListInv /\ FormedInv /\ SpaceInv(Fns) /\ [SearchNext]_vars => SpaceInv(Fns)'
  BY SpaceInvStep
<1> QED
  BY FormedInvariant, <1>1, <1>2, PTL DEF SearchSpec

\* The best score is a candidate's, and the returned list begins with it.
BestInv ==
  /\ best_score \in Int /\ baseline_score <= best_score
  /\ Scored(candidates, best_score)
  /\ returned /\ candidates # <<>> => candidates[1].score = best_score

\* A list keeps its scores when some of it is let go, and when it is sorted.
LEMMA SameScored ==
  ASSUME NEW a, NEW b, NEW best, SameList(a, b), Scored(a, best)
  PROVE  Scored(b, best)
<1>1. DOMAIN a = DOMAIN b /\ Len(a) = Len(b) /\ \A n \in DOMAIN a : b[n].score = a[n].score
  BY ListFacts DEF SameList, SameButLive
<1> QED
  BY <1>1 DEF Scored

LEMMA SortedScored ==
  ASSUME NEW a, NEW b \in SortedByScore(a), NEW best \in Int, IsList(a), Scored(a, best),
         baseline_score \in Int, baseline_score <= best
  PROVE  Scored(b, best) /\ (b # <<>> => b[1].score = best)
<1>1. PICK p \in [DOMAIN a -> DOMAIN a] :
        /\ \A m \in DOMAIN a : \E n \in DOMAIN a : p[n] = m
        /\ \A m, n \in DOMAIN a : m < n => a[p[m]].score >= a[p[n]].score
        /\ \A n \in DOMAIN a : b[n] = a[p[n]]
  BY SortedList
<1>2. Len(a) \in Nat /\ DOMAIN a = 1..Len(a) /\ DOMAIN b = DOMAIN a /\ Len(b) = Len(a) /\ IsList(b)
  BY SortedList, ListFacts
<1>3. \A n \in DOMAIN a : p[n] \in DOMAIN a /\ b[n].score = a[p[n]].score
  BY <1>1
<1>4. \A n \in DOMAIN b : /\ b[n].score \in Int
                         /\ baseline_score < b[n].score /\ b[n].score <= best
  BY <1>2, <1>3 DEF Scored
<1>5. ASSUME best > baseline_score PROVE \E n \in DOMAIN b : b[n].score = best
  <2>1. PICK m \in DOMAIN a : a[m].score = best
    BY <1>5 DEF Scored
  <2>2. PICK n \in DOMAIN a : p[n] = m
    BY <1>1
  <2> QED
    BY <1>2, <1>3, <2>1, <2>2
<1>6. ASSUME b # <<>> PROVE b[1].score = best
  <2>1. 1 \in DOMAIN b
    BY <1>2, <1>6 DEF IsList
  <2>2. best > baseline_score
    BY <1>4, <2>1
  <2>3. PICK n \in DOMAIN b : b[n].score = best
    BY <1>5, <2>2
  <2>4. CASE n = 1
    BY <2>3, <2>4
  <2>5. CASE n # 1
    <3>1. 1 < n
      BY <1>2, <2>5
    <3>2. b[1].score >= b[n].score
      <4>1. 1 \in DOMAIN a /\ n \in DOMAIN a
        BY <1>2, <2>1
      <4>2. a[p[1]].score >= a[p[n]].score
        BY <1>1, <3>1, <4>1
      <4> QED
        BY <1>3, <4>1, <4>2
    <3> QED
      BY <1>4, <2>1, <2>3, <3>2
  <2> QED
    BY <2>4, <2>5
<1> QED
  BY <1>2, <1>4, <1>5, <1>6 DEF Scored

LEMMA BestInvStep ==
  ASSUME NEW Fns, SearchSpace(Fns), SpaceInv(Fns), ListInv, BestInv, [SearchNext]_vars
  PROVE  BestInv'
<1>1. CASE UNCHANGED vars
  BY <1>1 DEF vars, BestInv, Scored, baseline_score
<1>2. ASSUME SearchNext PROVE BestInv'
  <2>1. config' = config /\ baseline_score' = baseline_score
    BY <1>2, StepShape DEF baseline_score
  <2>2. baseline_score \in Int /\ config.max_candidates \in Nat \ {0}
    BY SearchAssumption DEF SpaceInv, SearchSpace, baseline_score
  <2>3. ~returned
    BY <1>2 DEF SearchNext, Return, ForceDelete, Skip, MutateInPlace, MutateCopy, MutateByPattern, Turn
  <2>4. ASSUME NEW best, best_score' = best, best \in Int, baseline_score <= best,
               Scored(candidates', best),
               returned' /\ candidates' # <<>> => candidates'[1].score = best
        PROVE  BestInv'
    BY <2>1, <2>4 DEF BestInv, Scored
  <2>5. CASE Return
    <3>1. candidates' \in SortedByScore(candidates) /\ best_score' = best_score
      BY <2>5 DEF Return
    <3>2. Scored(candidates', best_score) /\ (candidates' # <<>> => candidates'[1].score = best_score)
      BY <2>2, <3>1, SortedScored DEF BestInv, ListInv
    <3> QED
      BY <2>4, <3>1, <3>2 DEF BestInv
  <2>6. CASE Quiet
    BY <2>3, <2>4, <2>6, SameScored DEF Quiet, BestInv
  <2>7. ASSUME NEW c, Tried(c), returned' = FALSE PROVE BestInv'
    <3>1. PICK x : /\ SameList(candidates, x)
                   /\ SameList(consider_candidate(x, c)[1], candidates')
                   /\ best_score' = consider_candidate(x, c)[3]
      BY <2>7 DEF Tried, Looked
    <3>2. IsCandidate(c) /\ IsList(x)
      BY <2>7, <3>1 DEF Tried, New, SameList
    <3>3. PICK kind : Made(c.fn, kind)
      BY <2>7 DEF Tried, New
    <3>4. c.score \in Int
      BY <2>7, <3>3, MadeInSpace, ScoreNumber DEF Tried, New
    <3>5. Scored(x, best_score)
      BY <3>1, SameScored DEF BestInv
    <3>6. /\ consider_candidate(x, c)[3] \in Int
          /\ baseline_score <= consider_candidate(x, c)[3]
          /\ Scored(consider_candidate(x, c)[1], consider_candidate(x, c)[3])
      BY <2>2, <3>2, <3>4, <3>5, ConsideredScored DEF BestInv
    <3>7. Scored(candidates', consider_candidate(x, c)[3])
      BY <3>1, <3>6, SameScored
    <3> QED
      BY <2>4, <2>7, <3>1, <3>6, <3>7
  <2> QED
    BY <1>2, <2>5, <2>6, <2>7, StepShape
<1> QED
  BY <1>1, <1>2

\* The best score, which ends a search with a target, is that of a candidate in
\* the list, however often the list was full; the list holds no candidate twice
\* and no more than it may, and begins with the best once it is returned.
THEOREM SearchKeepsBest ==
  ASSUME NEW Fns, SearchSpace(Fns)
  PROVE  SearchSpec => []BestIsKept
<1>1. ASSUME Init, SpaceInv(Fns) PROVE BestInv
  <2>1. baseline_score \in Int
    BY <1>1 DEF SpaceInv, SearchSpace, baseline_score
  <2>2. config.max_candidates \in Nat \ {0}
    BY <1>1, SearchAssumption DEF SpaceInv
  <2>3. candidates = <<>> /\ best_score = baseline_score
    BY <1>1 DEF Init
  <2> QED
    BY <2>1, <2>2, <2>3 DEF BestInv, Scored
<1>2. ListInv /\ SpaceInv(Fns) /\ BestInv /\ [SearchNext]_vars => BestInv'
  BY BestInvStep
<1>3. ASSUME BestInv, KeptInv PROVE BestIsKept
  <2>1. ASSUME best_score > baseline_score PROVE \E c \in Range(candidates) : c.score = best_score
    BY <1>3, <2>1 DEF BestInv, Scored, Range
  <2>2. \A m, n \in DOMAIN candidates : m # n => candidates[m].hash # candidates[n].hash
    BY <1>3 DEF KeptInv, Distinct
  <2> QED
    BY <1>3, <2>1, <2>2 DEF BestIsKept, BestInv, Scored
<1> QED
  BY SpaceInvariant, KeptInvariant, <1>1, <1>2, <1>3, PTL DEF SearchSpec

-----------------------------------------------------------------------------
(* What the mark of soundness means.                                        *)

\* On the inputs of a function that is searched, and from what refines it, a
\* sound mutation refines what it edits.
SoundMoves(Fns) ==
  \A o \in Originals : \A f \in Fns[o] :
    Refines(f, o, PatternInputs(o)) =>
      \A m \in MovesOf(f), k \in Nat \ {0} :
        is_sound_kind(m.kind) =>
          /\ \A g \in CopiesOf(f, m, k) : Refines(g, f, PatternInputs(o))
          /\ \A s \in EditsOf(f, m, k) : Refines(s.fn, f, PatternInputs(o))

LEMMA RefinesReflexive ==
  ASSUME NEW f, NEW I
  PROVE  Refines(f, f, I)
BY DEF Refines

LEMMA RefinesTransitive ==
  ASSUME NEW f, NEW g, NEW h, NEW I, Refines(h, g, I), Refines(g, f, I)
  PROVE  Refines(h, f, I)
BY DEF Refines

\* A turn from a function with the mark to one with the mark.
LEMMA MadeSound ==
  ASSUME NEW Fns, SearchSpace(Fns), SoundMoves(Fns), SpaceInv(Fns),
         Refines(current_fn, original, PatternInputs(original)),
         NEW g, NEW kind, Made(g, kind), is_sound_kind(kind)
  PROVE  Refines(g, original, PatternInputs(original))
<1>1. original \in Originals /\ current_fn \in Fns[original] /\ next_stoke_name \in Nat \ {0}
  BY DEF SpaceInv
<1>2. \A m \in MovesOf(current_fn) : is_sound_kind(m.kind) =>
        /\ \A h \in CopiesOf(current_fn, m, next_stoke_name) :
             Refines(h, current_fn, PatternInputs(original))
        /\ \A s \in EditsOf(current_fn, m, next_stoke_name) :
             Refines(s.fn, current_fn, PatternInputs(original))
  BY <1>1 DEF SoundMoves
<1>3. kind # "PatternGuided"
  BY DEF is_sound_kind, UnsoundKinds
<1>4. ASSUME NEW m \in Picks, kind = m.kind, g \in Outcomes(m)
      PROVE  Refines(g, current_fn, PatternInputs(original))
  BY <1>2, <1>4, PicksAreMoves DEF Outcomes, CopiesOf
<1>5. ASSUME NEW m \in Picks, kind = m.kind, NEW s \in OutcomesInPlace(m), g = s.fn
      PROVE  Refines(g, current_fn, PatternInputs(original))
  BY <1>2, <1>5, PicksAreMoves DEF OutcomesInPlace, EditsOf
<1>6. Refines(g, current_fn, PatternInputs(original))
  BY <1>3, <1>4, <1>5 DEF Made
<1> QED
  BY <1>6, RefinesTransitive

LEMMA ForcedSound ==
  ASSUME NEW Fns, SearchSpace(Fns), SoundMoves(Fns), SpaceInv(Fns),
         Refines(current_fn, original, PatternInputs(original)),
         NEW g \in ForcedOutcomes
  PROVE  Refines(g, original, PatternInputs(original))
<1>1. original \in Originals /\ current_fn \in Fns[original] /\ next_stoke_name \in Nat \ {0}
  BY DEF SpaceInv
<1>2. g \in CopiesOf(current_fn, Forced, next_stoke_name)
  BY DEF ForcedOutcomes, CopiesOf
<1>3. is_sound_kind(Forced.kind)
  BY DEF Forced, Site, is_sound_kind, UnsoundKinds
<1>4. Refines(g, current_fn, PatternInputs(original))
  BY <1>1, <1>2, <1>3, PicksAreMoves DEF SoundMoves
<1> QED
  BY <1>4, RefinesTransitive

\* The marks of the search and of the list, position by position.
MarksSound ==
  /\ current_sound => Refines(current_fn, original, PatternInputs(original))
  /\ \A n \in DOMAIN candidates :
       candidates[n].sound => Refines(candidates[n].fn, original, PatternInputs(original))

LEMMA MarksSoundStep ==
  ASSUME NEW Fns, SearchSpace(Fns), SoundMoves(Fns), SpaceInv(Fns), ListInv, FormedInv,
         MarksSound, [SearchNext]_vars
  PROVE  MarksSound'
<1>1. CASE UNCHANGED vars
  BY <1>1 DEF vars, MarksSound
<1>2. ASSUME SearchNext PROVE MarksSound'
  <2>1. original' = original
    BY <1>2, StepShape
  <2> DEFINE Works(f) == Refines(f, original, PatternInputs(original))
  <2>2. ASSUME NEW b, SameList(b, candidates'),
               \A n \in DOMAIN b : b[n].sound => Works(b[n].fn),
               current_sound' => Works(current_fn')
        PROVE  MarksSound'
    <3>1. DOMAIN b = DOMAIN candidates'
      BY <2>2, ListFacts DEF SameList
    <3>2. \A n \in DOMAIN candidates' : candidates'[n].sound => Works(candidates'[n].fn)
      BY <2>2, <3>1 DEF SameList, SameButLive
    <3> QED
      BY <2>1, <2>2, <3>2 DEF MarksSound
  <2>3. current_sound => Works(current_fn)
    BY DEF MarksSound
  <2>4. CASE Return
    <3>1. candidates' \in SortedByScore(candidates) /\ UNCHANGED <<current_fn, current_sound>>
      BY <2>4 DEF Return
    <3>2. DOMAIN candidates' = DOMAIN candidates
          /\ \A n \in DOMAIN candidates : \E m \in DOMAIN candidates : candidates'[n] = candidates[m]
      BY <3>1, SortedList, ListFacts DEF ListInv
    <3> QED
      BY <2>1, <3>1, <3>2 DEF MarksSound
  <2>5. CASE Quiet
    <3>1. current_sound' => Works(current_fn')
      BY <2>3, <2>5, ForcedSound DEF Quiet
    <3> QED
      BY <2>2, <2>5, <3>1 DEF Quiet, MarksSound
  <2>6. ASSUME NEW c, Tried(c) PROVE MarksSound'
    <3>1. PICK x : /\ SameList(candidates, x)
                   /\ SameList(consider_candidate(x, c)[1], candidates')
      BY <2>6 DEF Tried, Looked
    <3>2. IsCandidate(c) /\ IsList(x)
      BY <2>6, <3>1 DEF Tried, New, SameList
    <3>3. PICK kind : Made(c.fn, kind) /\ (c.sound <=> current_sound /\ is_sound_kind(kind))
      BY <2>6 DEF Tried, New
    <3>4. c.sound => Works(c.fn)
      BY <2>3, <3>3, MadeSound
    <3>5. DOMAIN x = DOMAIN candidates
      BY <3>1, ListFacts DEF SameList
    <3>6. \A n \in DOMAIN x : x[n].sound => Works(x[n].fn)
      BY <3>1, <3>5 DEF SameList, SameButLive, MarksSound
    <3> DEFINE k == consider_candidate(x, c)[1]
    <3>7. \A n \in DOMAIN k : k[n] = c \/ \E m \in DOMAIN x : k[n] = x[m]
      BY <3>2, ConsideredList
    <3> HIDE DEF k
    <3>8. \A n \in DOMAIN k : k[n].sound => Works(k[n].fn)
      BY <3>4, <3>6, <3>7
    <3>9. CASE current_fn' = original /\ current_sound' = TRUE
      BY <2>2, <3>1, <3>8, <3>9, RefinesReflexive DEF k
    <3>10. CASE current_fn' = c.fn /\ (current_sound' <=> c.sound)
      BY <2>2, <3>1, <3>4, <3>8, <3>10 DEF k
    <3>11. CASE (current_fn' = current_fn \/ TakenBack(current_fn')) /\ (current_sound' <=> current_sound)
      <4>1. current_sound' => Works(current_fn')
        BY <2>3, <3>11, TakenBackSame
      <4> QED
        BY <2>2, <3>1, <3>8, <4>1 DEF k
    <3> QED
      BY <2>6, <3>9, <3>10, <3>11 DEF Tried, GoesOn
  <2> QED
    BY <1>2, <2>4, <2>5, <2>6, StepShape
<1> QED
  BY <1>1, <1>2

\* What is called sound refines the function that was searched, in every turn
\* of every search: the mark is given only to a sound mutation of what has it,
\* stays with what an edit that is taken back leaves, is lost with the first
\* unsound mutation and regained only by a restart.
THEOREM SearchSoundMeansRefines ==
  ASSUME NEW Fns, SearchSpace(Fns), SoundMoves(Fns)
  PROVE  SearchSpec => []SoundMeansRefines
<1>1. Init => MarksSound
  BY RefinesReflexive DEF Init, MarksSound
<1>2. ListInv /\ FormedInv /\ SpaceInv(Fns) /\ MarksSound /\ [SearchNext]_vars => MarksSound'
  BY MarksSoundStep
<1>3. MarksSound => SoundMeansRefines
  BY DEF MarksSound, SoundMeansRefines, Range
<1> QED
  BY SpaceInvariant, <1>1, <1>2, <1>3, PTL DEF SearchSpec

=============================================================================
