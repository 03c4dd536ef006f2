--------------------------- MODULE SequenceFacts ---------------------------
(***************************************************************************)
(* Facts the proofs of the other modules share: induction on the natural   *)
(* numbers with a set for the predicate, functions defined by recursion on *)
(* an interval, and what removing and selecting do to a sequence.          *)
(***************************************************************************)
EXTENDS Selection, Functions, WellFoundedInduction, TLAPS

-----------------------------------------------------------------------------
(* Induction *)

\* A set of natural numbers has a least element.
LEMMA LeastElement ==
  ASSUME NEW T \in SUBSET Nat, T # {}
  PROVE  \E m \in T : \A n \in T : m =< n
  <1> DEFINE R == {ss \in Nat \X Nat : ss[1] < ss[2]}
  <1>1. IsWellFoundedOn(R, Nat)
    BY Zenon, NatLessThanWellFounded DEF OpToRel
  <1>2. PICK m \in T : \A n \in T : ~(<<n, m>> \in R)
    BY Zenon, <1>1, WFMin
  <1>3. ASSUME NEW n \in T PROVE m =< n
    <2>1. m \in Nat /\ n \in Nat
      BY Zenon
    <2>2. ~(n < m)
      BY Zenon, <1>2, <2>1
    <2> QED
      BY <2>1, <2>2
  <1> QED
    BY Zenon, <1>3

\* A set of natural numbers that has 0, and n + 1 with each n below N, has
\* all up to N.
LEMMA IntervalInduction ==
  ASSUME NEW N \in Nat, NEW T, 0 \in T, \A n \in 0..N - 1 : n \in T => n + 1 \in T
  PROVE  0..N \subseteq T
  <1>1. SUFFICES ASSUME (0..N) \ T # {} PROVE FALSE
    BY Zenon
  <1> DEFINE U == (0..N) \ T
  <1>a. U \in SUBSET Nat /\ U # {}
    BY <1>1
  <1> HIDE DEF U
  <1>b. PICK m \in U : \A n \in U : m =< n
    BY Zenon, <1>a, LeastElement
  <1>2. m \in (0..N) \ T /\ \A n \in (0..N) \ T : m =< n
    BY Zenon, <1>b DEF U
  <1>3. m - 1 \in 0..N - 1
    BY <1>2
  <1>4. m - 1 \in T
    BY <1>2, <1>3
  <1> QED
    BY <1>2, <1>3, <1>4

\* f starts at c and goes on by the given steps.
Iterates(f, N, c, step) == f[0] = c /\ \A i \in 1..N : f[i] = step[i][f[i - 1]]

\* Recursion on an interval: whatever the first value and the steps.
LEMMA RecursionExists ==
  ASSUME NEW N \in Nat, NEW X, NEW c \in X, NEW step \in [1..N -> [X -> X]]
  PROVE  \E f \in [0..N -> X] : Iterates(f, N, c, step)
  <1> DEFINE Upto(f, n) == Iterates(f, n, c, step)
             T == {n \in 0..N : \E f \in [0..N -> X] : Upto(f, n)}
  <1>1. 0 \in T
    <2> DEFINE g == [i \in 0..N |-> c]
    <2>1. g \in [0..N -> X] /\ 0 \in 0..N
      OBVIOUS
    <2>2. Upto(g, 0)
      BY DEF Iterates
    <2> HIDE DEF g, Upto
    <2> QED
      BY Zenon, <2>1, <2>2
  <1>2. ASSUME NEW n \in 0..N - 1, n \in T PROVE n + 1 \in T
    <2>1. PICK f \in [0..N -> X] : Upto(f, n)
      BY Zenon, <1>2
    <2> DEFINE g == [f EXCEPT ![n + 1] = step[n + 1][f[n]]]
    <2>2. n + 1 \in 1..N /\ n \in 0..N
      OBVIOUS
    <2>3. g \in [0..N -> X]
      BY Zenon, <2>2
    <2>4. Upto(g, n + 1)
      BY <2>1, <2>2 DEF Iterates
    <2> HIDE DEF g, Upto
    <2>5. n + 1 \in 0..N
      BY <2>2
    <2> QED
      BY Zenon, <2>3, <2>4, <2>5
  <1> HIDE DEF T
  <1>3. 0..N \subseteq T
    BY Zenon, <1>1, <1>2, IntervalInduction
  <1> QED
    BY <1>3 DEF T
-----------------------------------------------------------------------------
(* Removal *)

\* What is left of a sequence once its i-th element is removed.
LEMMA RemoveAtProperties ==
  ASSUME NEW S, NEW s \in Seq(S), NEW i \in 1..Len(s)
  PROVE  /\ RemoveAt(s, i) \in Seq(S)
         /\ Len(RemoveAt(s, i)) = Len(s) - 1
         /\ \A j \in 1..Len(s) - 1 : RemoveAt(s, i)[j] = IF j < i THEN s[j] ELSE s[j + 1]
  BY DEF RemoveAt
-----------------------------------------------------------------------------
(* Selection *)

\* The equation of the function that Selected takes its value from.
SelectionOf(s, S, f) ==
  f = [i \in 0..Len(s) |->
         IF i = 0 THEN <<>>
         ELSE IF s[i] \in S THEN Append(f[i - 1], s[i]) ELSE f[i - 1]]

LEMMA SelectionExists ==
  ASSUME NEW E, NEW s \in Seq(E), NEW S
  PROVE  \E f \in [0..Len(s) -> Seq(E)] : SelectionOf(s, S, f) /\ Selected(s, S) = f[Len(s)]
  <1> DEFINE step == [i \in 1..Len(s) |->
                        [r \in Seq(E) |-> IF s[i] \in S THEN Append(r, s[i]) ELSE r]]
  <1>1. step \in [1..Len(s) -> [Seq(E) -> Seq(E)]]
    OBVIOUS
  <1>2. Len(s) \in Nat /\ <<>> \in Seq(E)
    OBVIOUS
  <1> HIDE DEF step
  <1> DEFINE N == Len(s)
             X == Seq(E)
             c == <<>>
  <1>a. N \in Nat /\ c \in X /\ step \in [1..N -> [X -> X]]
    BY Zenon, <1>1, <1>2
  <1> HIDE DEF N, X, c
  <1>b. \E f \in [0..N -> X] : Iterates(f, N, c, step)
    BY Zenon, <1>a, RecursionExists
  <1>3. PICK f \in [0..Len(s) -> Seq(E)] : f[0] = <<>> /\ \A i \in 1..Len(s) : f[i] = step[i][f[i - 1]]
    BY Zenon, <1>b DEF N, X, c, Iterates
  <1>4. SelectionOf(s, S, f)
    <2>1. ASSUME NEW i \in 0..Len(s)
          PROVE  f[i] = IF i = 0 THEN <<>>
                        ELSE IF s[i] \in S THEN Append(f[i - 1], s[i]) ELSE f[i - 1]
      <3>1. CASE i = 0
        BY Zenon, <1>3, <3>1
      <3>2. CASE i # 0
        <4>1. i \in 1..Len(s) /\ i - 1 \in 0..Len(s)
          BY <1>2, <3>2
        <4>2. f[i - 1] \in Seq(E)
          BY Zenon, <1>3, <4>1
        <4>3. f[i] = step[i][f[i - 1]]
          BY Zenon, <1>3, <4>1
        <4>4. step[i][f[i - 1]] = IF s[i] \in S THEN Append(f[i - 1], s[i]) ELSE f[i - 1]
          BY Zenon, <4>1, <4>2 DEF step
        <4> QED
          BY Zenon, <3>2, <4>3, <4>4
      <3> QED
        BY Zenon, <3>1, <3>2
    <2>2. f = [i \in 0..Len(s) |-> f[i]]
      BY Zenon, <1>3
    <2> QED
      BY <2>1, <2>2, Zenon DEF SelectionOf
  <1>5. PICK g : SelectionOf(s, S, g) /\ Selected(s, S) = g[Len(s)]
    BY <1>4, Zenon DEF SelectionOf, Selected
  <1>6. g \in [0..Len(s) -> Seq(E)]
    <2> DEFINE T == {i \in 0..Len(s) : g[i] \in Seq(E)}
    <2>1. 0 \in T
      BY <1>2, <1>5 DEF SelectionOf
    <2>2. ASSUME NEW n \in 0..Len(s) - 1, n \in T PROVE n + 1 \in T
      <3>1. n + 1 \in 0..Len(s) /\ n + 1 # 0 /\ (n + 1) - 1 = n /\ s[n + 1] \in E
        BY <1>2
      <3>2. g[n + 1] = IF s[n + 1] \in S THEN Append(g[n], s[n + 1]) ELSE g[n]
        BY Zenon, <1>5, <3>1 DEF SelectionOf
      <3>3. g[n] \in Seq(E)
        BY Zenon, <2>2
      <3>4. Append(g[n], s[n + 1]) \in Seq(E)
        BY <3>1, <3>3
      <3> QED
        BY Zenon, <3>1, <3>2, <3>3, <3>4
    <2> HIDE DEF T
    <2>3. 0..Len(s) \subseteq T
      BY Zenon, <1>2, <2>1, <2>2, IntervalInduction
    <2> QED
      BY Zenon, <1>5, <2>3 DEF SelectionOf, T
  <1> QED
    BY Zenon, <1>5, <1>6

\* r takes the elements of s up to its n-th that are in S, in their order: the
\* j-th of r is at[j]-th of s.
Picks(r, s, S, n, at) ==
  /\ at \in [1..Len(r) -> 1..n]
  /\ \A j \in 1..Len(r) : r[j] = s[at[j]]
  /\ \A j, k \in 1..Len(r) : j < k => at[j] < at[k]
  /\ \A i \in 1..n : s[i] \in S <=> \E j \in 1..Len(r) : at[j] = i

LEMMA TakesOneMore ==
  ASSUME NEW E, NEW s \in Seq(E), NEW S, NEW n \in 0..Len(s) - 1, NEW r \in Seq(E), NEW at,
         Picks(r, s, S, n, at), s[n + 1] \in S
  PROVE  \E more : Picks(Append(r, s[n + 1]), s, S, n + 1, more)
  <1> DEFINE q == Append(r, s[n + 1])
             more == [j \in 1..Len(r) + 1 |-> IF j = Len(r) + 1 THEN n + 1 ELSE at[j]]
  <1>1. Len(s) \in Nat /\ Len(r) \in Nat /\ n \in Nat /\ s[n + 1] \in E
    OBVIOUS
  <1>2. Len(q) = Len(r) + 1 /\ q[Len(r) + 1] = s[n + 1] /\ \A j \in 1..Len(r) : q[j] = r[j]
    BY <1>1
  <1>3. \A j \in 1..Len(r) : at[j] \in 1..n
    BY Zenon DEF Picks
  <1>4. more \in [1..Len(q) -> 1..n + 1]
    BY <1>1, <1>2, <1>3
  <1>5. /\ more[Len(r) + 1] = n + 1
        /\ \A j \in 1..Len(r) : more[j] = at[j]
    BY <1>1
  <1> HIDE DEF q, more
  <1>6. \A j \in 1..Len(q) : j \in 1..Len(r) \/ j = Len(r) + 1
    BY <1>1, <1>2
  <1>7. \A j \in 1..Len(q) : q[j] = s[more[j]]
    BY Zenon, <1>2, <1>5, <1>6 DEF Picks
  <1>8. ASSUME NEW j \in 1..Len(q), NEW k \in 1..Len(q), j < k PROVE more[j] < more[k]
    <2>1. j \in 1..Len(r)
      BY <1>1, <1>2, <1>8
    <2>2. CASE k \in 1..Len(r)
      BY Zenon, <1>5, <1>8, <2>1, <2>2 DEF Picks
    <2>3. CASE k = Len(r) + 1
      BY SMTT(30), <1>1, <1>3, <1>5, <2>1, <2>3
    <2> QED
      BY Zenon, <1>6, <2>2, <2>3
  <1>9. ASSUME NEW i \in 1..n + 1 PROVE s[i] \in S <=> \E j \in 1..Len(q) : more[j] = i
    <2>1. CASE i = n + 1
      BY <1>1, <1>2, <1>5, <2>1
    <2>2. CASE i # n + 1
      <3>1. i \in 1..n
        BY <1>1, <2>2
      <3>2. s[i] \in S <=> \E j \in 1..Len(r) : at[j] = i
        BY Zenon, <3>1 DEF Picks
      <3>3. \A j \in 1..Len(q) : more[j] = i => j \in 1..Len(r)
        BY Zenon, <1>5, <1>6, <2>2
      <3>4. \A j \in 1..Len(r) : j \in 1..Len(q)
        BY <1>1, <1>2
      <3> QED
        BY Zenon, <1>5, <3>2, <3>3, <3>4
    <2> QED
      BY Zenon, <2>1, <2>2
  <1>10. Picks(q, s, S, n + 1, more)
    BY Zenon, <1>4, <1>7, <1>8, <1>9 DEF Picks
  <1> QED
    BY Zenon, <1>10 DEF q

LEMMA SelectedTakes ==
  ASSUME NEW E, NEW s \in Seq(E), NEW S
  PROVE  Selected(s, S) \in Seq(E) /\ \E at : Picks(Selected(s, S), s, S, Len(s), at)
  <1>1. PICK f \in [0..Len(s) -> Seq(E)] : SelectionOf(s, S, f) /\ Selected(s, S) = f[Len(s)]
    BY Zenon, SelectionExists
  <1>2. Len(s) \in Nat
    OBVIOUS
  <1> DEFINE T == {n \in 0..Len(s) : \E at : Picks(f[n], s, S, n, at)}
  <1>3. 0 \in T
    <2>1. f[0] = <<>> /\ Len(<<>>) = 0
      BY <1>1, <1>2 DEF SelectionOf
    <2> DEFINE none == [j \in 1..0 |-> 0]
    <2>2. none \in [1..0 -> 1..0]
      OBVIOUS
    <2>3. Picks(f[0], s, S, 0, none)
      BY <2>1, <2>2 DEF Picks
    <2> HIDE DEF none
    <2> QED
      BY <1>2, <2>3
  <1>4. ASSUME NEW n \in 0..Len(s) - 1, n \in T PROVE n + 1 \in T
    <2>1. n + 1 \in 0..Len(s) /\ n \in 0..Len(s) /\ n + 1 # 0 /\ (n + 1) - 1 = n /\ n \in Nat
      BY <1>2
    <2>2. f[n + 1] = IF s[n + 1] \in S THEN Append(f[n], s[n + 1]) ELSE f[n]
      BY Zenon, <1>1, <2>1 DEF SelectionOf
    <2>3. PICK at : Picks(f[n], s, S, n, at)
      BY Zenon, <1>4
    <2>4. f[n] \in Seq(E)
      BY Zenon, <2>1
    <2>5. CASE s[n + 1] \in S
      <3>1. \E more : Picks(Append(f[n], s[n + 1]), s, S, n + 1, more)
        BY Zenon, <2>3, <2>4, <2>5, TakesOneMore
      <3> QED
        BY Zenon, <2>1, <2>2, <2>5, <3>1
    <2>6. CASE s[n + 1] \notin S
      <3>1. \A j \in 1..Len(f[n]) : at[j] \in 1..n
        BY Zenon, <2>3 DEF Picks
      <3>2. at \in [1..Len(f[n]) -> 1..n + 1]
        BY <2>1, <2>3, <3>1 DEF Picks
      <3>3. ASSUME NEW i \in 1..n + 1 PROVE s[i] \in S <=> \E j \in 1..Len(f[n]) : at[j] = i
        <4>1. CASE i = n + 1
          BY <2>1, <2>6, <3>1, <4>1
        <4>2. CASE i # n + 1
          BY <2>1, <2>3, <4>2 DEF Picks
        <4> QED
          BY Zenon, <4>1, <4>2
      <3>4. Picks(f[n], s, S, n + 1, at)
        BY Zenon, <2>3, <3>2, <3>3 DEF Picks
      <3> QED
        BY Zenon, <2>1, <2>2, <2>6, <3>4
    <2> QED
      BY Zenon, <2>5, <2>6
  <1> HIDE DEF T
  <1>5. 0..Len(s) \subseteq T
    BY Zenon, <1>2, <1>3, <1>4, IntervalInduction
  <1> QED
    BY <1>1, <1>2, <1>5 DEF T
-----------------------------------------------------------------------------
(* The elements of a sequence and whether they are distinct *)

LEMMA RangeOfAppend ==
  ASSUME NEW E, NEW s \in Seq(E), NEW e \in E
  PROVE  /\ Append(s, e) \in Seq(E)
         /\ Range(Append(s, e)) = Range(s) \cup {e}
         /\ IsInjective(s) /\ e \notin Range(s) => IsInjective(Append(s, e))
  <1> DEFINE q == Append(s, e)
  <1>1. /\ q \in Seq(E) /\ Len(s) \in Nat /\ Len(q) = Len(s) + 1 /\ q[Len(s) + 1] = e
        /\ \A j \in 1..Len(s) : q[j] = s[j]
    OBVIOUS
  <1>2. DOMAIN q = 1..Len(s) + 1 /\ DOMAIN s = 1..Len(s)
    BY <1>1
  <1> HIDE DEF q
  <1>3. \A j \in DOMAIN q : j \in DOMAIN s \/ j = Len(s) + 1
    BY <1>1, <1>2
  <1>4. \A j \in DOMAIN s : j \in DOMAIN q
    BY <1>1, <1>2
  <1>5. Range(q) = Range(s) \cup {e}
    <2>1. Range(q) \subseteq Range(s) \cup {e}
      BY Zenon, <1>1, <1>2, <1>3 DEF Range
    <2>2. Range(s) \subseteq Range(q)
      BY Zenon, <1>1, <1>2, <1>4 DEF Range
    <2>3. Len(s) + 1 \in DOMAIN q
      BY <1>1, <1>2
    <2>4. e \in Range(q)
      BY Zenon, <1>1, <2>3 DEF Range
    <2> QED
      BY Zenon, <2>1, <2>2, <2>4
  <1>6. ASSUME IsInjective(s), e \notin Range(s) PROVE IsInjective(q)
    BY Zenon, <1>1, <1>2, <1>3, <1>6 DEF IsInjective, Range
  <1> QED
    BY Zenon, <1>1, <1>5, <1>6 DEF q

LEMMA RangeOfRemoveAt ==
  ASSUME NEW E, NEW s \in Seq(E), NEW i \in DOMAIN s, IsInjective(s)
  PROVE  /\ RemoveAt(s, i) \in Seq(E)
         /\ Range(RemoveAt(s, i)) = Range(s) \ {s[i]}
         /\ IsInjective(RemoveAt(s, i))
  <1> DEFINE r == RemoveAt(s, i)
             from(j) == IF j < i THEN j ELSE j + 1
  <1>1. DOMAIN s = 1..Len(s) /\ Len(s) \in Nat /\ i \in 1..Len(s)
    OBVIOUS
  <1>2. /\ r \in Seq(E) /\ Len(r) = Len(s) - 1
        /\ \A j \in 1..Len(s) - 1 : r[j] = IF j < i THEN s[j] ELSE s[j + 1]
    BY Zenon, <1>1, RemoveAtProperties
  <1> HIDE DEF r
  <1>3. DOMAIN r = 1..Len(s) - 1
    BY <1>1, <1>2
  <1>4. \A j \in DOMAIN r : from(j) \in DOMAIN s /\ from(j) # i /\ r[j] = s[from(j)]
    BY <1>1, <1>2, <1>3
  <1>5. \A j, k \in DOMAIN r : from(j) = from(k) => j = k
    BY <1>1, <1>3
  <1>6. \A k \in DOMAIN s : k # i => \E j \in DOMAIN r : from(j) = k
    <2> TAKE k \in DOMAIN s
    <2> HAVE k # i
    <2>1. CASE k < i
      <3>1. k \in DOMAIN r /\ from(k) = k
        BY <1>1, <1>3, <2>1
      <3> QED
        BY Zenon, <3>1
    <2>2. CASE ~(k < i)
      <3>1. k - 1 \in DOMAIN r /\ from(k - 1) = k
        BY <1>1, <1>3, <2>2
      <3> QED
        BY Zenon, <3>1
    <2> QED
      BY Zenon, <2>1, <2>2
  <1> HIDE DEF from
  <1>7. IsInjective(r)
    BY Zenon, <1>4, <1>5 DEF IsInjective
  <1>8. Range(r) = Range(s) \ {s[i]}
    <2>1. Range(r) \subseteq Range(s) \ {s[i]}
      BY <1>4 DEF IsInjective, Range
    <2>2. Range(s) \ {s[i]} \subseteq Range(r)
      BY <1>4, <1>6 DEF Range
    <2> QED
      BY Zenon, <2>1, <2>2
  <1> QED
    BY Zenon, <1>2, <1>7, <1>8 DEF r

LEMMA RangeOfSelected ==
  ASSUME NEW E, NEW s \in Seq(E), NEW S
  PROVE  /\ Selected(s, S) \in Seq(E)
         /\ Range(Selected(s, S)) = Range(s) \cap S
         /\ IsInjective(s) => IsInjective(Selected(s, S))
  <1> DEFINE r == Selected(s, S)
  <1>1. r \in Seq(E)
    BY Zenon, SelectedTakes
  <1>2. PICK at : Picks(r, s, S, Len(s), at)
    BY Zenon, SelectedTakes
  <1> HIDE DEF r
  <1>3. DOMAIN r = 1..Len(r) /\ DOMAIN s = 1..Len(s) /\ Len(r) \in Nat /\ Len(s) \in Nat
    BY <1>1
  <1>4. \A j \in DOMAIN r : at[j] \in DOMAIN s /\ r[j] = s[at[j]] /\ s[at[j]] \in S
    BY Zenon, <1>2, <1>3 DEF Picks
  <1>5. \A i \in DOMAIN s : s[i] \in S => \E j \in DOMAIN r : at[j] = i
    BY Zenon, <1>2, <1>3 DEF Picks
  <1>6. ASSUME NEW j \in DOMAIN r, NEW k \in DOMAIN r, at[j] = at[k] PROVE j = k
    <2>1. j \in Nat /\ k \in Nat /\ at[j] \in Nat /\ at[k] \in Nat
      BY <1>3, <1>4
    <2>2. ~(j < k) /\ ~(k < j)
      BY <1>2, <1>3, <1>6, <2>1 DEF Picks
    <2> QED
      BY <2>1, <2>2
  <1>7. Range(r) = Range(s) \cap S
    BY <1>4, <1>5 DEF Range
  <1>8. IsInjective(s) => IsInjective(r)
    BY <1>4, <1>6 DEF IsInjective
  <1> QED
    BY Zenon, <1>1, <1>7, <1>8 DEF r

LEMMA RangeOfTail ==
  ASSUME NEW E, NEW s \in Seq(E), s # <<>>
  PROVE  /\ Head(s) \in E /\ Tail(s) \in Seq(E)
         /\ Range(s) = {Head(s)} \cup Range(Tail(s))
         /\ IsInjective(s) => IsInjective(Tail(s)) /\ Head(s) \notin Range(Tail(s))
  <1>1. /\ Len(s) \in Nat /\ Len(s) > 0 /\ Head(s) = s[1]
        /\ Tail(s) \in Seq(E) /\ Len(Tail(s)) = Len(s) - 1
        /\ \A j \in 1..Len(s) - 1 : Tail(s)[j] = s[j + 1]
    OBVIOUS
  <1>2. DOMAIN s = 1..Len(s) /\ DOMAIN Tail(s) = 1..Len(s) - 1
    BY <1>1
  <1>3. Range(s) \subseteq {Head(s)} \cup Range(Tail(s))
    <2> SUFFICES ASSUME NEW i \in 1..Len(s) PROVE s[i] \in {Head(s)} \cup Range(Tail(s))
      BY Zenon, <1>2 DEF Range
    <2>1. CASE i = 1
      BY Zenon, <1>1, <2>1
    <2>2. CASE i # 1
      <3>1. i - 1 \in DOMAIN Tail(s) /\ Tail(s)[i - 1] = s[i]
        BY <1>1, <1>2, <2>2
      <3> QED
        BY Zenon, <3>1 DEF Range
    <2> QED
      BY Zenon, <2>1, <2>2
  <1>4. {Head(s)} \cup Range(Tail(s)) \subseteq Range(s)
    <2>1. Head(s) \in Range(s)
      BY <1>1, <1>2 DEF Range
    <2>2. ASSUME NEW j \in 1..Len(s) - 1 PROVE Tail(s)[j] \in Range(s)
      <3>1. j + 1 \in DOMAIN s
        BY <1>1, <1>2
      <3> QED
        BY Zenon, <1>1, <3>1 DEF Range
    <2> QED
      BY Zenon, <1>2, <2>1, <2>2 DEF Range
  <1>5. ASSUME IsInjective(s) PROVE IsInjective(Tail(s)) /\ Head(s) \notin Range(Tail(s))
    <2>1. \A j \in DOMAIN Tail(s) : j + 1 \in DOMAIN s /\ j + 1 # 1 /\ Tail(s)[j] = s[j + 1]
      BY <1>1, <1>2
    <2>2. IsInjective(Tail(s))
      <3> SUFFICES ASSUME NEW j \in DOMAIN Tail(s), NEW k \in DOMAIN Tail(s), Tail(s)[j] = Tail(s)[k]
                   PROVE  j = k
        BY Zenon DEF IsInjective
      <3>1. j + 1 = k + 1
        BY Zenon, <1>5, <2>1 DEF IsInjective
      <3> QED
        BY <1>1, <1>2, <3>1
    <2>3. 1 \in DOMAIN s
      BY <1>1, <1>2
    <2> QED
      BY <1>1, <1>5, <2>1, <2>2, <2>3 DEF IsInjective, Range
  <1> QED
    BY <1>1, <1>3, <1>4, <1>5
-----------------------------------------------------------------------------
(* Vectors *)

LEMMA NotTheLast == ASSUME NEW n \in Nat, NEW i \in 1..n, i # n PROVE i \in 1..n - 1
  OBVIOUS

LEMMA RangeOfSwapRemove ==
  ASSUME NEW E, NEW s \in Seq(E), NEW i \in 1..Len(s)
  PROVE  /\ SwapRemove(s, i) \in Seq(E)
         /\ IsInjective(s) => /\ Range(SwapRemove(s, i)) = Range(s) \ {s[i]}
                              /\ IsInjective(SwapRemove(s, i))
  <1> DEFINE q == [s EXCEPT ![i] = s[Len(s)]]
             r == SubSeq(q, 1, Len(s) - 1)
             from(j) == IF j = i THEN Len(s) ELSE j
  <1>1. Len(s) \in Nat /\ Len(s) \in 1..Len(s) /\ DOMAIN s = 1..Len(s)
    OBVIOUS
  <1>2. q \in Seq(E) /\ Len(q) = Len(s) /\ \A j \in 1..Len(s) : q[j] = s[from(j)]
    BY <1>1
  <1>3. SwapRemove(s, i) = r
    BY Zenon DEF SwapRemove
  <1> HIDE DEF q
  <1>4. r \in Seq(E) /\ Len(r) = Len(s) - 1 /\ \A j \in 1..Len(s) - 1 : r[j] = q[j]
    BY <1>1, <1>2
  <1> HIDE DEF r
  <1>5. DOMAIN r = 1..Len(s) - 1
    BY <1>1, <1>4
  <1>6. \A j \in DOMAIN r : from(j) \in DOMAIN s /\ from(j) # i /\ r[j] = s[from(j)]
    <2> TAKE j \in DOMAIN r
    <2>1. j \in 1..Len(s) - 1 /\ j \in 1..Len(s) /\ j # Len(s)
      BY <1>1, <1>5
    <2>2. r[j] = s[from(j)]
      BY <1>2, <1>4, <2>1, Zenon
    <2>3. CASE j = i
      BY Zenon, <1>1, <2>1, <2>2, <2>3
    <2>4. CASE j # i
      BY Zenon, <1>1, <2>1, <2>2, <2>4
    <2> QED
      BY Zenon, <2>3, <2>4
  <1>7. \A j, k \in DOMAIN r : from(j) = from(k) => j = k
    BY <1>1, <1>5
  <1>8. \A k \in DOMAIN s : k # i => \E j \in DOMAIN r : from(j) = k
    <2> TAKE k \in DOMAIN s
    <2> HAVE k # i
    <2>1. CASE k = Len(s)
      <3>a. i \in 1..Len(s) /\ i # Len(s)
        BY Zenon, <2>1
      <3>b. i \in 1..Len(s) - 1
        BY Zenon, <1>1, <3>a, NotTheLast
      <3>1. i \in DOMAIN r
        BY <1>5, <3>b, Zenon
      <3>2. from(i) = k
        BY Zenon, <2>1
      <3> QED
        BY Zenon, <3>1, <3>2
    <2>2. CASE k # Len(s)
      <3>1. k \in DOMAIN r /\ from(k) = k
        BY <1>1, <1>5, <2>2
      <3> QED
        BY Zenon, <3>1
    <2> QED
      BY Zenon, <2>1, <2>2
  <1> HIDE DEF from
  <1>9. IsInjective(s) => IsInjective(r)
    BY Zenon, <1>6, <1>7 DEF IsInjective
  <1>10. IsInjective(s) => Range(r) = Range(s) \ {s[i]}
    <2>1. IsInjective(s) => Range(r) \subseteq Range(s) \ {s[i]}
      BY <1>1, <1>6 DEF IsInjective, Range
    <2>2. Range(s) \ {s[i]} \subseteq Range(r)
      BY <1>6, <1>8 DEF Range
    <2> QED
      BY Zenon, <2>1, <2>2
  <1> QED
    BY Zenon, <1>3, <1>4, <1>9, <1>10

\* The equation of the function that Sweep takes its value from.
SweepStep(S, skip, w) ==
    IF w.i > Len(w.left) THEN w
    ELSE IF w.left[w.i] \in S
    THEN [i |-> w.i + skip, left |-> SwapRemove(w.left, w.i), taken |-> Append(w.taken, w.left[w.i])]
    ELSE [w EXCEPT !.i = @ + 1]
SweepOf(s, S, skip, f) ==
    f = [n \in 0 .. Len(s) |->
           IF n = 0 THEN [i |-> 1, left |-> s, taken |-> << >>] ELSE SweepStep(S, skip, f[n - 1])]
Sweeps(E) == [i : Nat \ {0}, left : Seq(E), taken : Seq(E)]

LEMMA SweepStepType ==
  ASSUME NEW E, NEW S, NEW skip \in Nat, NEW w \in Sweeps(E)
  PROVE  SweepStep(S, skip, w) \in Sweeps(E)
  <1>1. w.i \in Nat \ {0} /\ w.left \in Seq(E) /\ w.taken \in Seq(E) /\ w = [i |-> w.i, left |-> w.left, taken |-> w.taken]
    BY Zenon DEF Sweeps
  <1>2. CASE w.i > Len(w.left)
    BY Zenon, <1>2 DEF SweepStep
  <1>3. CASE ~(w.i > Len(w.left))
    <2>1. w.i \in 1..Len(w.left)
      BY <1>1, <1>3
    <2>2. SwapRemove(w.left, w.i) \in Seq(E)
      BY Zenon, <1>1, <2>1, RangeOfSwapRemove
    <2>3. Append(w.taken, w.left[w.i]) \in Seq(E)
      BY <1>1, <2>1
    <2>4. w.i + skip \in Nat \ {0} /\ w.i + 1 \in Nat \ {0}
      BY <1>1
    <2>5. [w EXCEPT !.i = @ + 1] \in Sweeps(E)
      BY Zenon, <2>4 DEF Sweeps
    <2> QED
      BY Zenon, <1>1, <1>3, <2>2, <2>3, <2>4, <2>5 DEF SweepStep, Sweeps
  <1> QED
    BY Zenon, <1>2, <1>3

LEMMA SweepExists ==
  ASSUME NEW E, NEW s \in Seq(E), NEW S, NEW skip \in Nat
  PROVE  \E f \in [0..Len(s) -> Sweeps(E)] : SweepOf(s, S, skip, f) /\ Sweep(s, S, skip) = f[Len(s)]
  <1> DEFINE N1 == Len(s)
             X == Sweeps(E)
             c == [i |-> 1, left |-> s, taken |-> << >>]
             step == [n \in 1..N1 |-> [w \in X |-> SweepStep(S, skip, w)]]
  <1>1. N1 \in Nat /\ c \in X
    BY DEF Sweeps
  <1>2. step \in [1..N1 -> [X -> X]]
    <2> HIDE DEF N1, X
    <2>1. \A w \in X : SweepStep(S, skip, w) \in X
      BY Zenon, SweepStepType DEF X
    <2> QED
      BY Zenon, <2>1
  <1>3. \A n \in 1..N1, w \in X : step[n][w] = SweepStep(S, skip, w)
    BY Zenon
  <1> HIDE DEF N1, X, c, step
  <1>4. PICK f \in [0..N1 -> X] : Iterates(f, N1, c, step)
    BY Zenon, <1>1, <1>2, RecursionExists
  <1>5. ASSUME NEW n \in 0..N1 PROVE f[n] = IF n = 0 THEN c ELSE SweepStep(S, skip, f[n - 1])
    <2>1. CASE n = 0
      BY Zenon, <1>4, <2>1 DEF Iterates
    <2>2. CASE n # 0
      <3>1. n \in 1..N1 /\ n - 1 \in 0..N1
        BY <1>1, <2>2
      <3>2. f[n - 1] \in X /\ f[n] = step[n][f[n - 1]]
        BY Zenon, <1>4, <3>1 DEF Iterates
      <3> QED
        BY Zenon, <1>3, <2>2, <3>1, <3>2
    <2> QED
      BY Zenon, <2>1, <2>2
  <1>6. SweepOf(s, S, skip, f)
    <2>1. f = [n \in 0..N1 |-> f[n]]
      BY Zenon
    <2> QED
      BY <1>5, <2>1, Zenon DEF SweepOf, N1, c
  <1>7. PICK g : SweepOf(s, S, skip, g) /\ Sweep(s, S, skip) = g[Len(s)]
    BY <1>6, Zenon DEF SweepOf, Sweep, SweepStep
  <1>8. /\ g[0] = c
        /\ \A n \in 0..N1 - 1 : g[n + 1] = SweepStep(S, skip, g[n])
    <2>1. g = [n \in 0 .. N1 |-> IF n = 0 THEN c ELSE SweepStep(S, skip, g[n - 1])]
      BY Zenon, <1>7 DEF SweepOf, N1, c
    <2>2. \A n \in 0..N1 - 1 : n + 1 \in 0..N1 /\ n + 1 # 0 /\ (n + 1) - 1 = n
      BY <1>1
    <2> QED
      BY <1>1, <2>1, <2>2
  <1>9. g \in [0..N1 -> X]
    <2> DEFINE T == {n \in 0..N1 : g[n] \in X}
    <2>1. 0 \in T
      BY <1>1, <1>8
    <2>2. ASSUME NEW n \in 0..N1 - 1, n \in T PROVE n + 1 \in T
      <3>1. n + 1 \in 0..N1
        BY <1>1
      <3>2. g[n + 1] \in X
        BY <1>8, <2>2, SweepStepType DEF X
      <3> QED
        BY Zenon, <3>1, <3>2
    <2> HIDE DEF T
    <2>3. 0..N1 \subseteq T
      BY Zenon, <1>1, <2>1, <2>2, IntervalInduction
    <2> QED
      BY Zenon, <1>7, <2>3 DEF SweepOf, T, N1
  <1> QED
    BY Zenon, <1>7, <1>9 DEF N1, X

\* A sweep takes elements of S out and keeps the others.
Swept(w, s, S) ==
    /\ IsInjective(w.left)
    /\ Range(s) = Range(w.left) \cup Range(w.taken)
    /\ Range(w.left) \cap Range(w.taken) = {}
    /\ Range(w.taken) \subseteq S

LEMMA SweepSweeps ==
  ASSUME NEW E, NEW s \in Seq(E), NEW S, NEW skip \in Nat, IsInjective(s)
  PROVE  Sweep(s, S, skip) \in Sweeps(E) /\ Swept(Sweep(s, S, skip), s, S)
  <1>1. PICK f \in [0..Len(s) -> Sweeps(E)] : SweepOf(s, S, skip, f) /\ Sweep(s, S, skip) = f[Len(s)]
    BY SweepExists
  <1>2. Len(s) \in Nat
    OBVIOUS
  <1> DEFINE T == {n \in 0..Len(s) : Swept(f[n], s, S)}
  <1>3. 0 \in T
    <2>1. f[0] = [i |-> 1, left |-> s, taken |-> << >>]
      BY <1>1, <1>2 DEF SweepOf
    <2>2. Range(<< >>) = {}
      BY DEF Range
    <2> QED
      BY <1>2, <2>1, <2>2 DEF Swept
  <1>4. ASSUME NEW n \in 0..Len(s) - 1, n \in T PROVE n + 1 \in T
    <2>1. n + 1 \in 0..Len(s) /\ n \in 0..Len(s) /\ n + 1 # 0 /\ (n + 1) - 1 = n
      BY <1>2
    <2> DEFINE w == f[n]
               x == f[n + 1]
    <2>2. x = SweepStep(S, skip, w) /\ w \in Sweeps(E) /\ Swept(w, s, S)
      BY Zenon, <1>1, <1>4, <2>1 DEF SweepOf
    <2> HIDE DEF w, x
    <2>3. w.i \in Nat \ {0} /\ w.left \in Seq(E) /\ w.taken \in Seq(E)
      BY Zenon, <2>2 DEF Sweeps
    <2>4. CASE w.i > Len(w.left)
      BY Zenon, <2>1, <2>2, <2>4 DEF SweepStep, x
    <2>5. CASE ~(w.i > Len(w.left)) /\ w.left[w.i] \in S
      <3>1. w.i \in 1..Len(w.left) /\ w.i \in DOMAIN w.left /\ w.left[w.i] \in E /\ w.left[w.i] \in Range(w.left)
        BY <2>3, <2>5 DEF Range
      <3>2. x.left = SwapRemove(w.left, w.i) /\ x.taken = Append(w.taken, w.left[w.i])
        BY ZenonT(30), <2>2, <2>5 DEF SweepStep
      <3>3. Range(x.left) = Range(w.left) \ {w.left[w.i]} /\ IsInjective(x.left)
        BY <2>2, <2>3, <3>1, <3>2, RangeOfSwapRemove DEF Swept
      <3>4. Range(x.taken) = Range(w.taken) \cup {w.left[w.i]}
        BY <2>3, <3>1, <3>2, RangeOfAppend
      <3>5. Swept(x, s, S)
        BY ZenonT(30), <2>2, <2>5, <3>1, <3>3, <3>4 DEF Swept
      <3> QED
        BY Zenon, <2>1, <3>5 DEF x
    <2>6. CASE ~(w.i > Len(w.left)) /\ w.left[w.i] \notin S
      <3>1. x.left = w.left /\ x.taken = w.taken
        BY Zenon, <2>2, <2>6 DEF SweepStep, Sweeps
      <3>2. Swept(x, s, S)
        BY Zenon, <2>2, <3>1 DEF Swept
      <3> QED
        BY Zenon, <2>1, <3>2 DEF x
    <2> QED
      BY Zenon, <2>4, <2>5, <2>6
  <1> HIDE DEF T
  <1>5. 0..Len(s) \subseteq T
    BY Zenon, <1>2, <1>3, <1>4, IntervalInduction
  <1> QED
    BY <1>1, <1>2, <1>5 DEF T

\* No element but null is twice in a sequence that loses its first element, is
\* filtered, or gets nulls.
LEMMA DistinctTail ==
  ASSUME NEW E, NEW s \in Seq(E), s # << >>, NEW null, Distinct(s, null)
  PROVE  /\ Head(s) \in E /\ Tail(s) \in Seq(E) /\ Range(s) = {Head(s)} \cup Range(Tail(s))
         /\ Distinct(Tail(s), null) /\ (Head(s) # null => Head(s) \notin Range(Tail(s)))
         /\ Len(Tail(s)) = Len(s) - 1
  <1>1. Head(s) \in E /\ Tail(s) \in Seq(E) /\ Range(s) = {Head(s)} \cup Range(Tail(s))
    BY Zenon, RangeOfTail
  <1>2. /\ Len(s) \in Nat /\ Len(s) > 0 /\ Head(s) = s[1] /\ Len(Tail(s)) = Len(s) - 1
        /\ DOMAIN s = 1..Len(s) /\ DOMAIN Tail(s) = 1..Len(s) - 1
        /\ \A j \in 1..Len(s) - 1 : Tail(s)[j] = s[j + 1]
    OBVIOUS
  <1>3. 1 \in DOMAIN s /\ \A j \in DOMAIN Tail(s) : j + 1 \in DOMAIN s /\ j + 1 # 1 /\ Tail(s)[j] = s[j + 1]
    BY <1>2
  <1>4. ASSUME NEW j \in DOMAIN Tail(s), NEW k \in DOMAIN Tail(s), Tail(s)[j] = Tail(s)[k], Tail(s)[j] # null
        PROVE  j = k
    <2>1. j + 1 = k + 1
      BY ZenonT(30), <1>3, <1>4 DEF Distinct
    <2> QED
      BY <1>2, <2>1
  <1>5. Head(s) # null => Head(s) \notin Range(Tail(s))
    BY <1>2, <1>3 DEF Distinct, Range
  <1> QED
    BY Zenon, <1>1, <1>2, <1>4, <1>5 DEF Distinct

LEMMA DistinctSelected ==
  ASSUME NEW E, NEW s \in Seq(E), NEW S, NEW null, Distinct(s, null)
  PROVE  /\ Selected(s, S) \in Seq(E) /\ Range(Selected(s, S)) = Range(s) \cap S
         /\ Distinct(Selected(s, S), null) /\ Len(Selected(s, S)) <= Len(s)
  <1> DEFINE r == Selected(s, S)
  <1>1. r \in Seq(E) /\ Range(r) = Range(s) \cap S
    BY Zenon, RangeOfSelected
  <1>2. PICK f : Picks(r, s, S, Len(s), f)
    BY Zenon, SelectedTakes
  <1> HIDE DEF r
  <1>3. DOMAIN r = 1..Len(r) /\ DOMAIN s = 1..Len(s) /\ Len(r) \in Nat /\ Len(s) \in Nat
    BY <1>1
  <1>4. \A j \in DOMAIN r : f[j] \in DOMAIN s /\ r[j] = s[f[j]]
    BY Zenon, <1>2, <1>3 DEF Picks
  <1>5. ASSUME NEW j \in DOMAIN r, NEW k \in DOMAIN r, f[j] = f[k] PROVE j = k
    <2>1. j \in Nat /\ k \in Nat /\ f[j] \in Nat /\ f[k] \in Nat
      BY <1>3, <1>4
    <2>2. ~(j < k) /\ ~(k < j)
      BY <1>2, <1>3, <1>5, <2>1 DEF Picks
    <2> QED
      BY <2>1, <2>2
  <1>6. Distinct(r, null)
    BY <1>4, <1>5 DEF Distinct
  <1>7. Len(r) <= Len(s)
    <2> DEFINE T == {n \in 0..Len(r) : n = 0 \/ f[n] >= n}
    <2>1. 0 \in T
      BY <1>3
    <2>2. ASSUME NEW n \in 0..Len(r) - 1, n \in T PROVE n + 1 \in T
      <3>1. n + 1 \in 1..Len(r) /\ n + 1 \in 0..Len(r) /\ n \in Nat
        BY <1>3
      <3>2. f[n + 1] \in 1..Len(s)
        BY Zenon, <1>3, <1>4, <3>1
      <3>3. CASE n = 0
        BY <3>1, <3>2, <3>3
      <3>4. CASE n # 0
        <4>1. n \in 1..Len(r) /\ n < n + 1
          BY <1>3, <3>1, <3>4
        <4>2. f[n] < f[n + 1] /\ f[n] \in 1..Len(s)
          BY Zenon, <1>2, <1>3, <1>4, <3>1, <4>1 DEF Picks
        <4>3. f[n] >= n
          BY Zenon, <2>2, <3>4
        <4> QED
          BY <1>3, <3>1, <3>2, <4>2, <4>3
      <3> QED
        BY Zenon, <3>3, <3>4
    <2> HIDE DEF T
    <2>3. 0..Len(r) \subseteq T
      BY Zenon, <1>3, <2>1, <2>2, IntervalInduction
    <2>4. Len(r) = 0 \/ (Len(r) \in 1..Len(r) /\ f[Len(r)] >= Len(r))
      BY <1>3, <2>3 DEF T
    <2> QED
      BY <1>3, <1>4, <2>4
  <1> QED
    BY Zenon, <1>1, <1>6, <1>7 DEF r

LEMMA DistinctNulls ==
  ASSUME NEW E, NEW null \in E, NEW s \in Seq(E), NEW d \in Seq(E), Distinct(s, null),
         \A i \in DOMAIN d : d[i] = null
  PROVE  /\ s \o d \in Seq(E) /\ Distinct(s \o d, null)
         /\ Range(s) \subseteq Range(s \o d) /\ Range(s \o d) \subseteq Range(s) \cup {null}
  <1> DEFINE q == s \o d
             n == Len(d)
  <1>1. n \in Nat /\ DOMAIN d = 1..n
    OBVIOUS
  <1>2. \A i \in 1..n : d[i] = null
    BY Zenon, <1>1
  <1>3. /\ q \in Seq(E) /\ Len(q) = Len(s) + n /\ Len(s) \in Nat
        /\ \A j \in 1..Len(q) : q[j] = IF j <= Len(s) THEN s[j] ELSE d[j - Len(s)]
    BY <1>1
  <1> HIDE DEF q, n
  <1>4. DOMAIN q = 1..Len(s) + n /\ DOMAIN s = 1..Len(s)
    BY <1>3
  <1>5. \A j \in DOMAIN q : (j \in DOMAIN s /\ q[j] = s[j]) \/ q[j] = null
    <2> TAKE j \in DOMAIN q
    <2>1. CASE j <= Len(s)
      BY <1>1, <1>3, <1>4, <2>1
    <2>2. CASE ~(j <= Len(s))
      <3>1. j - Len(s) \in 1..n
        BY <1>1, <1>3, <1>4, <2>2
      <3> QED
        BY ZenonT(30), <1>2, <1>3, <1>4, <2>2, <3>1
    <2> QED
      BY Zenon, <2>1, <2>2
  <1>6. \A j \in DOMAIN s : j \in DOMAIN q /\ q[j] = s[j]
    BY <1>1, <1>3, <1>4
  <1>7. Range(s) \subseteq Range(q) /\ Range(q) \subseteq Range(s) \cup {null}
    BY Zenon, <1>5, <1>6 DEF Range
  <1>8. Distinct(q, null)
    BY Zenon, <1>5 DEF Distinct
  <1> QED
    BY Zenon, <1>3, <1>7, <1>8 DEF q
=============================================================================
