-------------------------- MODULE SubsequenceProofs ---------------------------
(***************************************************************************)
(* What the loops of the renderer keep, and what getSequence returns: the  *)
(* indices of a longest increasing subsequence, whatever the array is.     *)
(***************************************************************************)
EXTENDS Subsequence, TLAPS, FiniteSetTheorems, WellFoundedInduction

--------------------------------------------------------------------------------
(* Loops.  What holds at the start of an interval and goes on from each of its *)
(* numbers to the next holds in all of it.                                     *)

LEMMA Upward ==
  ASSUME NEW a \in Int, NEW b \in Int, NEW P, a \in P,
         \A k \in (a + 1)..b : k - 1 \in P => k \in P
  PROVE  \A k \in a..b : k \in P
<1> SUFFICES ASSUME NEW k \in a..b, k \notin P PROVE FALSE
  OBVIOUS
<1> DEFINE D == {n \in Nat : a + n <= b /\ a + n \notin P}
<1>1. D # {} /\ D \in SUBSET Nat
  <2>1. k - a \in Nat /\ a + (k - a) = k
    OBVIOUS
  <2>2. k - a \in D
    BY <2>1
  <2> QED
    BY <2>2
<1>2. PICK n \in D : \A i \in D : n <= i
  <2> HIDE DEF D
  <2>1. PICK n \in D : \A i \in D : << i, n >> \notin OpToRel(<, Nat)
    BY <1>1, WFMin, NatLessThanWellFounded, Zenon
  <2>2. \A i \in D : ~(i < n)
    BY <1>1, <2>1, Zenon DEF OpToRel
  <2> QED
    BY <1>1, <2>2
<1>3. n # 0
  OBVIOUS
<1>4. n - 1 \in Nat /\ n - 1 \notin D /\ a + (n - 1) = (a + n) - 1
  BY <1>2, <1>3
<1>5. (a + n) - 1 \in P /\ a + n \in (a + 1)..b
  BY <1>3, <1>4
<1> QED
  BY <1>5

LEMMA Downward ==
  ASSUME NEW a \in Int, NEW b \in Int, NEW P, b \in P,
         \A k \in a..(b - 1) : k + 1 \in P => k \in P
  PROVE  \A k \in a..b : k \in P
<1> DEFINE Q == {k \in Int : -k \in P}
<1>1. -b \in Q /\ -b \in Int /\ -a \in Int
  OBVIOUS
<1>2. ASSUME NEW k \in ((-b) + 1)..(-a), k - 1 \in Q PROVE k \in Q
  <2>1. -k \in a..(b - 1) /\ (-k) + 1 = -(k - 1)
    OBVIOUS
  <2> QED
    BY <1>2, <2>1
<1> HIDE DEF Q
<1>3. \A k \in (-b)..(-a) : k \in Q
  BY <1>1, <1>2, Upward
<1> USE DEF Q
<1>4. ASSUME NEW k \in a..b PROVE k \in P
  <2>1. -k \in (-b)..(-a) /\ -(-k) = k
    OBVIOUS
  <2> QED
    BY <1>3, <2>1
<1> QED
  BY <1>4

\* A loop whose step g keeps the invariants I[k] has a run f.
UpKeeps(g, I, a, b) == \A k \in a..b : \A s \in I[k - 1] : g[<< s, k >>] \in I[k]
UpRun(f, st, g, I, a, b) ==
  /\ f[a - 1] = st /\ \A k \in a..b : f[k] = g[<< f[k - 1], k >>]
  /\ \A k \in (a - 1)..b : f[k] \in I[k]
DownKeeps(g, I, a, b) == \A k \in a..b : \A s \in I[k + 1] : g[<< s, k >>] \in I[k]
DownRun(f, st, g, I, a, b) ==
  /\ f[b + 1] = st /\ \A k \in a..b : f[k] = g[<< f[k + 1], k >>]
  /\ \A k \in a..(b + 1) : f[k] \in I[k]

\* A loop upward whose steps lead from each set of states to the next ends in the last.
LEMMA UpRuns ==
  ASSUME NEW a \in Int, NEW b \in Int, a <= b + 1, NEW T, NEW st,
         NEW I \in [(a - 1)..b -> SUBSET T], NEW g, st \in I[a - 1],
         UpKeeps(g, I, a, b)
  PROVE  \E f \in [(a - 1)..b -> T] : UpRun(f, st, g, I, a, b)
<1> DEFINE R(k, f) == /\ f \in [(a - 1)..k -> T] /\ f[a - 1] = st
                      /\ \A i \in a..k : f[i] = g[<< f[i - 1], i >>]
                      /\ \A i \in (a - 1)..k : f[i] \in I[i]
           P == {k \in (a - 1)..b : \E f : R(k, f)}
<1>1. a - 1 \in P /\ a - 1 \in Int
  <2> DEFINE f == [i \in (a - 1)..(a - 1) |-> st]
  <2>1. (a - 1)..(a - 1) = {a - 1} /\ a..(a - 1) = {} /\ a - 1 \in (a - 1)..b
    OBVIOUS
  <2>2. R(a - 1, f)
    BY <2>1
  <2> HIDE DEF R
  <2> QED
    BY <2>1, <2>2
<1>2. ASSUME NEW k \in ((a - 1) + 1)..b, k - 1 \in P PROVE k \in P
  <2>1. PICK f : R(k - 1, f)
    BY <1>2
  <2> DEFINE e == [i \in (a - 1)..k |-> IF i = k THEN g[<< f[k - 1], k >>] ELSE f[i]]
  <2>2. /\ k \in a..b /\ k - 1 \in (a - 1)..(k - 1) /\ k \notin (a - 1)..(k - 1)
        /\ \A i \in (a - 1)..k : i = k \/ i \in (a - 1)..(k - 1)
        /\ \A i \in a..k : i = k \/ i \in a..(k - 1)
        /\ \A i \in a..k : i - 1 \in (a - 1)..(k - 1)
        /\ \A i \in (a - 1)..(k - 1) : i \in (a - 1)..k /\ i # k
        /\ \A i \in (a - 1)..k : i \in (a - 1)..b
    OBVIOUS
  <2>3. g[<< f[k - 1], k >>] \in I[k]
    BY <2>1, <2>2 DEF UpKeeps
  <2>4. /\ e[k] = g[<< f[k - 1], k >>]
        /\ \A i \in (a - 1)..(k - 1) : e[i] = f[i]
    BY <2>2
  <2>5. \A i \in (a - 1)..k : e[i] \in I[i] /\ e[i] \in T
    BY <2>1, <2>2, <2>3, <2>4
  <2>6. e \in [(a - 1)..k -> T]
    BY <2>5
  <2>7. \A i \in a..k : e[i] = g[<< e[i - 1], i >>]
    <3> HIDE DEF e
    <3> TAKE i \in a..k
    <3>1. e[i - 1] = f[i - 1]
      BY <2>2, <2>4
    <3>2. CASE i = k
      BY <2>4, <3>1, <3>2
    <3>3. CASE i # k
      BY <2>1, <2>2, <2>4, <3>1, <3>3
    <3> QED
      BY <3>2, <3>3
  <2>8. e[a - 1] = st
    BY <2>1, <2>2, <2>4
  <2>9. R(k, e)
    <3> HIDE DEF e
    <3> QED
      BY <2>5, <2>6, <2>7, <2>8
  <2> HIDE DEF R
  <2> QED
    BY <2>2, <2>9
<1>3. b \in P
  <2> HIDE DEF P
  <2>1. \A k \in (a - 1)..b : k \in P
    BY <1>1, <1>2, Upward
  <2> QED
    BY <2>1
<1>4. PICK f : R(b, f)
  BY <1>3
<1> QED
  BY <1>4 DEF UpRun

\* The same for a loop downward.
LEMMA DownRuns ==
  ASSUME NEW a \in Int, NEW b \in Int, a <= b + 1, NEW T, NEW st,
         NEW I \in [a..(b + 1) -> SUBSET T], NEW g, st \in I[b + 1],
         DownKeeps(g, I, a, b)
  PROVE  \E f \in [a..(b + 1) -> T] : DownRun(f, st, g, I, a, b)
<1> DEFINE R(k, f) == /\ f \in [k..(b + 1) -> T] /\ f[b + 1] = st
                      /\ \A i \in k..b : f[i] = g[<< f[i + 1], i >>]
                      /\ \A i \in k..(b + 1) : f[i] \in I[i]
           P == {k \in a..(b + 1) : \E f : R(k, f)}
<1>1. b + 1 \in P /\ b + 1 \in Int
  <2> DEFINE f == [i \in (b + 1)..(b + 1) |-> st]
  <2>1. (b + 1)..(b + 1) = {b + 1} /\ (b + 1)..b = {} /\ b + 1 \in a..(b + 1)
    OBVIOUS
  <2>2. R(b + 1, f)
    BY <2>1
  <2> HIDE DEF R
  <2> QED
    BY <2>1, <2>2
<1>2. ASSUME NEW k \in a..((b + 1) - 1), k + 1 \in P PROVE k \in P
  <2>1. PICK f : R(k + 1, f)
    BY <1>2
  <2> DEFINE e == [i \in k..(b + 1) |-> IF i = k THEN g[<< f[k + 1], k >>] ELSE f[i]]
  <2>2. /\ k \in a..b /\ k + 1 \in (k + 1)..(b + 1) /\ k \notin (k + 1)..(b + 1)
        /\ \A i \in k..(b + 1) : i = k \/ i \in (k + 1)..(b + 1)
        /\ \A i \in k..b : i = k \/ i \in (k + 1)..b
        /\ \A i \in k..b : i + 1 \in (k + 1)..(b + 1)
        /\ \A i \in (k + 1)..(b + 1) : i \in k..(b + 1) /\ i # k
        /\ \A i \in k..(b + 1) : i \in a..(b + 1)
    OBVIOUS
  <2>3. g[<< f[k + 1], k >>] \in I[k]
    BY <2>1, <2>2 DEF DownKeeps
  <2>4. /\ e[k] = g[<< f[k + 1], k >>]
        /\ \A i \in (k + 1)..(b + 1) : e[i] = f[i]
    BY <2>2
  <2>5. \A i \in k..(b + 1) : e[i] \in I[i] /\ e[i] \in T
    BY <2>1, <2>2, <2>3, <2>4
  <2>6. e \in [k..(b + 1) -> T]
    BY <2>5
  <2>7. \A i \in k..b : e[i] = g[<< e[i + 1], i >>]
    <3> HIDE DEF e
    <3> TAKE i \in k..b
    <3>1. e[i + 1] = f[i + 1]
      BY <2>2, <2>4
    <3>2. CASE i = k
      BY <2>4, <3>1, <3>2
    <3>3. CASE i # k
      BY <2>1, <2>2, <2>4, <3>1, <3>3
    <3> QED
      BY <3>2, <3>3
  <2>8. e[b + 1] = st
    BY <2>1, <2>2, <2>4
  <2>9. R(k, e)
    <3> HIDE DEF e
    <3> QED
      BY <2>5, <2>6, <2>7, <2>8
  <2> HIDE DEF R
  <2> QED
    BY <2>2, <2>9
<1>3. a \in P
  <2> HIDE DEF P
  <2>1. \A k \in a..(b + 1) : k \in P
    BY <1>1, <1>2, Downward
  <2> QED
    BY <2>1
<1>4. PICK f : R(a, f)
  BY <1>3
<1> QED
  BY <1>4 DEF DownRun

LEMMA UpFixed ==
  ASSUME NEW a \in Int, NEW b \in Int, NEW T, NEW st, NEW I, NEW g,
         NEW f \in [(a - 1)..b -> T], UpRun(f, st, g, I, a, b)
  PROVE  /\ f = [k \in (a - 1)..b |-> IF k < a THEN st ELSE g[<< f[k - 1], k >>]]
         /\ \A k \in a..b : f[k - 1] \in T
<1>1. \A k \in (a - 1)..b : f[k] = IF k < a THEN st ELSE g[<< f[k - 1], k >>]
  <2> TAKE k \in (a - 1)..b
  <2>1. k = a - 1 \/ k \in a..b
    OBVIOUS
  <2> QED
    BY <2>1 DEF UpRun
<1>2. \A k \in a..b : k - 1 \in (a - 1)..b
  OBVIOUS
<1> QED
  BY <1>1, <1>2

\* Whatever runs as the loop does keeps its invariants.
UpGoes(F, T, g, a, b) == \A k \in a..b : F[k - 1] \in T => F[k] = g[<< F[k - 1], k >>]
DownGoes(F, T, g, a, b) == \A k \in a..b : F[k + 1] \in T => F[k] = g[<< F[k + 1], k >>]
LEMMA UpEnds ==
  ASSUME NEW a \in Int, NEW b \in Int, a <= b + 1, NEW T, NEW st,
         NEW I \in [(a - 1)..b -> SUBSET T], NEW g, st \in I[a - 1],
         UpKeeps(g, I, a, b),
         NEW F, F[a - 1] = st, UpGoes(F, T, g, a, b)
  PROVE  F[b] \in I[b]
<1> DEFINE P == {k \in (a - 1)..b : F[k] \in I[k]}
<1>1. a - 1 \in P /\ a - 1 \in Int
  OBVIOUS
<1>2. ASSUME NEW k \in ((a - 1) + 1)..b, k - 1 \in P PROVE k \in P
  <2>1. k \in a..b /\ k - 1 \in (a - 1)..b /\ k \in (a - 1)..b
    OBVIOUS
  <2>2. F[k - 1] \in I[k - 1]
    BY <1>2
  <2>3. F[k - 1] \in T
    BY <2>1, <2>2
  <2>4. g[<< F[k - 1], k >>] \in I[k]
    BY <2>1, <2>2 DEF UpKeeps
  <2> QED
    BY <2>1, <2>3, <2>4 DEF UpGoes
<1> HIDE DEF P
<1>3. \A k \in (a - 1)..b : k \in P
  BY <1>1, <1>2, Upward
<1>4. b \in P
  BY <1>3
<1> QED
  BY <1>4 DEF P

LEMMA DownFixed ==
  ASSUME NEW a \in Int, NEW b \in Int, NEW T, NEW st, NEW I, NEW g,
         NEW f \in [a..(b + 1) -> T], DownRun(f, st, g, I, a, b)
  PROVE  /\ f = [k \in a..(b + 1) |-> IF k > b THEN st ELSE g[<< f[k + 1], k >>]]
         /\ \A k \in a..b : f[k + 1] \in T
<1>1. \A k \in a..(b + 1) : f[k] = IF k > b THEN st ELSE g[<< f[k + 1], k >>]
  <2> TAKE k \in a..(b + 1)
  <2>1. k = b + 1 \/ k \in a..b
    OBVIOUS
  <2> QED
    BY <2>1 DEF DownRun
<1>2. \A k \in a..b : k + 1 \in a..(b + 1)
  OBVIOUS
<1> QED
  BY <1>1, <1>2

LEMMA DownEnds ==
  ASSUME NEW a \in Int, NEW b \in Int, a <= b + 1, NEW T, NEW st,
         NEW I \in [a..(b + 1) -> SUBSET T], NEW g, st \in I[b + 1],
         DownKeeps(g, I, a, b),
         NEW F, F[b + 1] = st, DownGoes(F, T, g, a, b)
  PROVE  F[a] \in I[a]
<1> DEFINE P == {k \in a..(b + 1) : F[k] \in I[k]}
<1>1. b + 1 \in P /\ b + 1 \in Int
  OBVIOUS
<1>2. ASSUME NEW k \in a..((b + 1) - 1), k + 1 \in P PROVE k \in P
  <2>1. k \in a..b /\ k + 1 \in a..(b + 1) /\ k \in a..(b + 1)
    OBVIOUS
  <2>2. F[k + 1] \in I[k + 1]
    BY <1>2
  <2>3. F[k + 1] \in T
    BY <2>1, <2>2
  <2>4. g[<< F[k + 1], k >>] \in I[k]
    BY <2>1, <2>2 DEF DownKeeps
  <2> QED
    BY <2>1, <2>3, <2>4 DEF DownGoes
<1> HIDE DEF P
<1>3. \A k \in a..(b + 1) : k \in P
  BY <1>1, <1>2, Downward
<1>4. a \in P
  BY <1>3
<1> QED
  BY <1>4 DEF P

\* The largest of some numbers.
LEMMA MaxIn ==
  ASSUME NEW S, NEW a \in Int, NEW b \in Int, S \subseteq a..b, S # {}
  PROVE  Max(S) \in S /\ \A x \in S : Max(S) >= x
<1> DEFINE D == {n \in Nat : b - n \in S}
<1>1. D # {} /\ D \in SUBSET Nat
  <2>1. PICK x \in S : x \in a..b
    OBVIOUS
  <2>2. b - x \in Nat /\ b - (b - x) = x
    BY <2>1
  <2>3. b - x \in D
    BY <2>1, <2>2
  <2> QED
    BY <2>3
<1>2. PICK n \in D : \A i \in D : n <= i
  <2> HIDE DEF D
  <2>1. PICK n \in D : \A i \in D : << i, n >> \notin OpToRel(<, Nat)
    BY <1>1, WFMin, NatLessThanWellFounded, Zenon
  <2>2. \A i \in D : ~(i < n)
    BY <1>1, <2>1, Zenon DEF OpToRel
  <2> QED
    BY <1>1, <2>2
<1>3. \A x \in S : b - n >= x
  <2> TAKE x \in S
  <2>1. x \in a..b
    OBVIOUS
  <2>2. b - x \in Nat /\ b - (b - x) = x
    BY <2>1
  <2>3. b - x \in D
    BY <2>2
  <2>4. n <= b - x /\ n \in Nat
    BY <1>2, <2>3
  <2> QED
    BY <2>1, <2>4
<1>4. \E x \in S : \A y \in S : x >= y
  BY <1>2, <1>3
<1> QED
  BY <1>4 DEF Max

--------------------------------------------------------------------------------
(* getSequence: the indices that are followed back are in their order, and so   *)
(* is what arr has at them.                                                     *)

\* The entries of a sequence, and of a function, where one is added or put.
LEMMA Entries ==
  ASSUME NEW S, NEW s \in Seq(S)
  PROVE  Len(s) \in Nat /\ DOMAIN s = 1..Len(s) /\ \A v \in 1..Len(s) : s[v] \in S
OBVIOUS

LEMMA EntryAdded ==
  ASSUME NEW S, NEW s \in Seq(S), NEW x \in S
  PROVE  /\ Append(s, x) \in Seq(S) /\ Len(Append(s, x)) = Len(s) + 1
         /\ Append(s, x)[Len(s) + 1] = x
         /\ \A v \in 1..Len(s) : Append(s, x)[v] = s[v]
OBVIOUS

LEMMA EntryPut ==
  ASSUME NEW S, NEW s \in Seq(S), NEW u \in 1..Len(s), NEW x \in S, NEW t, t = [s EXCEPT ![u] = x]
  PROVE  t \in Seq(S) /\ Len(t) = Len(s) /\ t[u] = x /\ \A v \in 1..Len(s) : v # u => t[v] = s[v]
OBVIOUS

LEMMA Puts ==
  ASSUME NEW n, NEW p \in [1..n -> Nat], NEW i \in 1..n, NEW x \in Nat
  PROVE  /\ [p EXCEPT ![i] = x] \in [1..n -> Nat] /\ [p EXCEPT ![i] = x][i] = x
         /\ \A y \in 1..n : y # i => [p EXCEPT ![i] = x][y] = p[y]
OBVIOUS

\* What is sought lies from u to v, where fewer places are left after each round.
Sought(w, arr, result, x, k) ==
  /\ w.u \in 1..Len(result) /\ w.v \in 1..Len(result)
  /\ w.u > 1 => arr[result[w.u - 1]] < x
  /\ arr[result[w.v]] >= x
  /\ w.u <= w.v /\ w.v - w.u <= Len(result) - k

LEMMA HalfWay ==
  ASSUME NEW u \in Int, NEW v \in Int, u < v
  PROVE  /\ (u + v) \div 2 \in Int
         /\ u <= (u + v) \div 2 /\ (u + v) \div 2 < v
OBVIOUS

LEMMA HalvedPlace ==
  ASSUME NEW n \in Nat, NEW k \in Int, NEW u \in Int, NEW v \in Int, NEW c \in Int,
         1 <= u, u <= c, c < v, v <= n, v - u <= n - (k - 1)
  PROVE  /\ c \in 1..n /\ c + 1 \in 1..n /\ (c + 1) - 1 = c /\ c + 1 <= v
         /\ v - (c + 1) <= n - k /\ c - u <= n - k
OBVIOUS

\* A round of the binary search keeps what is sought between u and v.
LEMMA Halved ==
  ASSUME NEW arr \in Seq(Nat), NEW result \in Seq(1..Len(arr)), NEW x \in Nat,
         NEW s \in [u : 1..Len(result), v : 1..Len(result)], NEW k \in 1..Len(result),
         Sought(s, arr, result, x, k - 1)
  PROVE  /\ Halve(arr, result, x, s) \in [u : 1..Len(result), v : 1..Len(result)]
         /\ Sought(Halve(arr, result, x, s), arr, result, x, k)
<1> DEFINE c == (s.u + s.v) \div 2
           N == Len(result)
           y == arr[result[c]]
           t == Halve(arr, result, x, s)
<1>1. s.u \in 1..N /\ s.v \in 1..N /\ N \in Nat /\ k \in 1..N
  OBVIOUS
<1>4. /\ s.u > 1 => arr[result[s.u - 1]] < x
      /\ arr[result[s.v]] >= x
      /\ s.u <= s.v /\ s.v - s.u <= N - (k - 1)
  BY DEF Sought
<1>5. arr[result[c]] = y
  OBVIOUS
<1>6. \A l \in 1..N : arr[result[l]] \in Nat
  <2>1. \A l \in 1..N : result[l] \in 1..Len(arr)
    BY Entries
  <2>2. \A l \in 1..Len(arr) : arr[l] \in Nat
    BY Entries
  <2> HIDE DEF N
  <2> QED
    BY <2>1, <2>2
<1> HIDE DEF y
<1>2. CASE s.u >= s.v
  <2>1. s.u = s.v /\ Halve(arr, result, x, s) = s
    BY <1>1, <1>2, <1>4 DEF Halve
  <2>2. s.v - s.u <= N - k
    BY <1>1, <2>1
  <2>3. Sought(s, arr, result, x, k)
    BY <1>1, <1>4, <2>2 DEF Sought, N
  <2> QED
    BY <2>1, <2>3
<1>3. CASE ~(s.u >= s.v)
  <2>1. s.u \in Int /\ s.v \in Int /\ s.u < s.v /\ 1 <= s.u /\ s.v <= N
    BY <1>1, <1>3
  <2>2. c \in Int /\ s.u <= c /\ c < s.v
    BY <2>1, HalfWay
  <2>3. t = IF y < x THEN [s EXCEPT !.u = c + 1] ELSE [s EXCEPT !.v = c]
    BY <1>3, <1>5 DEF Halve
  <2> HIDE DEF c, t
  <2>4. /\ c \in 1..N /\ c + 1 \in 1..N /\ (c + 1) - 1 = c /\ c + 1 <= s.v
        /\ s.v - (c + 1) <= N - k /\ c - s.u <= N - k
    <3>1. k \in Int
      BY <1>1
    <3> HIDE DEF N
    <3> QED
      BY <1>1, <1>4, <2>1, <2>2, <3>1, HalvedPlace
  <2>7. y \in Nat /\ arr[result[c]] = y
    BY <1>5, <1>6, <2>4
  <2>5. CASE y < x
    <3>1. t = [s EXCEPT !.u = c + 1]
      BY <2>3, <2>5
    <3>2. t \in [u : 1..N, v : 1..N] /\ t.u = c + 1 /\ t.v = s.v
      BY <2>4, <3>1
    <3>4. t.u <= t.v /\ t.v - t.u <= N - k
      BY <2>4, <3>2
    <3>5. (t.u > 1 => arr[result[t.u - 1]] < x) /\ arr[result[t.v]] >= x
      <4>1. t.u - 1 = c
        BY <2>4, <3>2
      <4>2. arr[result[t.u - 1]] = y
        BY <2>7, <4>1
      <4> QED
        BY <1>4, <2>5, <3>2, <4>2
    <3>3. Sought(t, arr, result, x, k)
      BY <1>1, <2>4, <3>2, <3>4, <3>5 DEF Sought, N
    <3> QED
      BY <3>2, <3>3 DEF t, N
  <2>6. CASE ~(y < x)
    <3>1. t = [s EXCEPT !.v = c]
      BY <2>3, <2>6
    <3>2. t \in [u : 1..N, v : 1..N] /\ t.u = s.u /\ t.v = c
      BY <2>4, <3>1
    <3>4. t.u <= t.v /\ t.v - t.u <= N - k
      BY <2>2, <2>4, <3>2
    <3>5. (t.u > 1 => arr[result[t.u - 1]] < x) /\ arr[result[t.v]] >= x
      <4>1. arr[result[t.v]] = y /\ y >= x
        BY <2>6, <2>7, <3>2
      <4> QED
        BY <1>4, <3>2, <4>1
    <3>3. Sought(t, arr, result, x, k)
      BY <1>1, <2>4, <3>2, <3>4, <3>5 DEF Sought, N
    <3> QED
      BY <3>2, <3>3 DEF t, N
  <2> QED
    BY <2>5, <2>6
<1> QED
  BY <1>2, <1>3

\* The binary search finds the first entry that is not below x.
LEMMA LowerBoundIs ==
  ASSUME NEW arr \in Seq(Nat), NEW result \in Seq(1..Len(arr)), Len(result) # 0, NEW x \in Nat,
         arr[result[Len(result)]] >= x
  PROVE  /\ LowerBound(arr, result, x) \in 1..Len(result)
         /\ arr[result[LowerBound(arr, result, x)]] >= x
         /\ LowerBound(arr, result, x) > 1 => arr[result[LowerBound(arr, result, x) - 1]] < x
<1> DEFINE N == Len(result)
           T == [u : 1..N, v : 1..N]
           a == 1
           b == N
           st == [u |-> 1, v |-> N]
           op(w, k) == Halve(arr, result, x, w)
           J(k) == {w \in T : Sought(w, arr, result, x, k)}
           I == [k \in (a - 1)..b |-> J(k)]
           g == [w \in T \X (a..b) |-> op(w[1], w[2])]
           Body(f) == [k \in (a - 1)..b |-> IF k < a THEN st ELSE op(f[k - 1], k)]
           F == CHOOSE f : f = Body(f)
<1>0. N \in Nat \ {0}
  OBVIOUS
<1>1. a \in Int /\ b \in Int /\ a - 1 \in (a - 1)..b /\ b \in (a - 1)..b /\ a <= b + 1
  BY <1>0
<1>2. st \in J(a - 1)
  BY <1>0 DEF Sought
<1>3. ASSUME NEW k \in a..b, NEW s \in J(k - 1) PROVE op(s, k) \in J(k)
  <2>1. s \in T /\ Sought(s, arr, result, x, k - 1) /\ k \in 1..N
    OBVIOUS
  <2> HIDE DEF N
  <2>2. Halve(arr, result, x, s) \in T /\ Sought(Halve(arr, result, x, s), arr, result, x, k)
    BY <2>1, Halved DEF N
  <2> QED
    BY <2>2
<1>4. /\ \A k \in (a - 1)..b : I[k] = J(k)
      /\ \A k \in a..b : \A s \in T : g[<< s, k >>] = op(s, k)
      /\ I \in [(a - 1)..b -> SUBSET T]
  <2>1. \A k \in a..b : \A s \in T : << s, k >> \in T \X (a..b) /\ << s, k >>[1] = s /\ << s, k >>[2] = k
    OBVIOUS
  <2> QED
    BY <2>1
<1> HIDE DEF I, g, J, op, T, a, b, st, N
<1>5. UpKeeps(g, I, a, b)
  <2> SUFFICES ASSUME NEW k \in a..b, NEW s \in I[k - 1] PROVE g[<< s, k >>] \in I[k]
    BY DEF UpKeeps
  <2>1. k - 1 \in (a - 1)..b /\ k \in (a - 1)..b
    BY <1>1
  <2>2. s \in J(k - 1) /\ s \in T
    BY <1>4, <2>1
  <2> QED
    BY <1>3, <1>4, <2>1, <2>2
<1>6. st \in I[a - 1]
  BY <1>1, <1>2, <1>4
<1>7. F = Body(F)
  <2>1. PICK f \in [(a - 1)..b -> T] : UpRun(f, st, g, I, a, b)
    BY <1>1, <1>4, <1>5, <1>6, UpRuns
  <2>2. /\ f = [k \in (a - 1)..b |-> IF k < a THEN st ELSE g[<< f[k - 1], k >>]]
        /\ \A k \in a..b : f[k - 1] \in T
    BY <1>1, <2>1, UpFixed
  <2>3. \A k \in (a - 1)..b :
          (IF k < a THEN st ELSE g[<< f[k - 1], k >>]) = (IF k < a THEN st ELSE op(f[k - 1], k))
    <3> TAKE k \in (a - 1)..b
    <3>1. CASE k < a
      BY <3>1
    <3>2. CASE ~(k < a)
      <4>1. k \in a..b
        BY <1>1, <3>2
      <4> QED
        BY <1>4, <2>2, <3>2, <4>1
    <3> QED
      BY <3>1, <3>2
  <2>4. f = Body(f)
    BY <2>2, <2>3
  <2> HIDE DEF Body
  <2> QED
    BY <2>4
<1>8. F[a - 1] = st /\ \A k \in a..b : F[k] = op(F[k - 1], k)
  <2> HIDE DEF F
  <2> QED
    BY <1>1, <1>7
<1>9. LowerBound(arr, result, x) = F[b].u
  <2>1. LowerBound(arr, result, x) = (IF b < a THEN st ELSE F[b]).u
    BY DEF LowerBound, Up, op, a, b, st, N
  <2>2. b < a => b = a - 1
    BY <1>1
  <2> QED
    BY <1>8, <2>1, <2>2
<1> HIDE DEF F
<1>10. F[b] \in I[b]
  <2>1. UpGoes(F, T, g, a, b)
    BY <1>4, <1>8 DEF UpGoes
  <2>2. I \in [(a - 1)..b -> SUBSET T] /\ F[a - 1] = st
    BY <1>4, <1>8
  <2> QED
    BY <1>1, <1>5, <1>6, <2>1, <2>2, UpEnds
<1>11. F[b] \in J(b)
  BY <1>1, <1>4, <1>10
<1> DEFINE w == F[b]
<1>12. w.u \in 1..N /\ w.v \in 1..N /\ w.u <= w.v /\ w.v - w.u <= N - N
  BY <1>11 DEF J, Sought, N, b
<1>13. (w.u > 1 => arr[result[w.u - 1]] < x) /\ arr[result[w.v]] >= x
  BY <1>11 DEF J, Sought
<1>14. w.u = w.v
  <2> HIDE DEF w
  <2> QED
    BY <1>0, <1>12
<1> QED
  BY <1>9, <1>12, <1>13, <1>14 DEF N

\* q is the place each index had in a subsequence, 0 if none; p leads from it to
\* an index with the place before, where arr is smaller.
Chained(arr, s, q, i) ==
  /\ s.p \in [1..Len(arr) -> Nat] /\ s.result \in Seq(1..Len(arr)) /\ Len(s.result) # 0
  /\ q \in [1..Len(arr) -> Nat]
  /\ \A u \in 1..Len(s.result) : q[s.result[u]] = u
  /\ \A x \in 1..Len(arr) : q[x] # 0 => x = 1 \/ (x <= i /\ arr[x] # 0)
  /\ \A x \in 1..Len(arr) : q[x] > 1 =>
       s.p[x] \in 1..Len(arr) /\ s.p[x] < x /\ arr[s.p[x]] < arr[x] /\ q[s.p[x]] = q[x] - 1
Chain(arr, s, i) == \E q \in [1..Len(arr) -> Nat] : Chained(arr, s, q, i)

\* t is s with i at the place u, after the index at the place before.
Grown(t, s, arr, i, u) ==
  /\ u \in 1..(Len(s.result) + 1)
  /\ t.result \in Seq(1..Len(arr)) /\ Len(t.result) # 0
  /\ \A v \in 1..Len(t.result) : IF v = u THEN t.result[v] = i
                                 ELSE v \in 1..Len(s.result) /\ t.result[v] = s.result[v]
  /\ t.p \in [1..Len(arr) -> Nat] /\ \A x \in 1..Len(arr) : x # i => t.p[x] = s.p[x]
  /\ u > 1 => t.p[i] = s.result[u - 1] /\ arr[s.result[u - 1]] < arr[i]

\* The index i gets the place after that of y, or the first.
LEMMA ChainGrows ==
  ASSUME NEW arr \in Seq(Nat), NEW s, NEW q, NEW i \in 1..Len(arr), Chained(arr, s, q, i - 1),
         q[i] = 0, arr[i] # 0, NEW t, NEW u, Grown(t, s, arr, i, u)
  PROVE  Chain(arr, t, i)
<1> DEFINE n == Len(arr)
           r == [q EXCEPT ![i] = u]
<1>0. /\ u \in 1..(Len(s.result) + 1)
      /\ t.result \in Seq(1..n) /\ Len(t.result) # 0
      /\ \A v \in 1..Len(t.result) : IF v = u THEN t.result[v] = i
                                     ELSE v \in 1..Len(s.result) /\ t.result[v] = s.result[v]
      /\ t.p \in [1..n -> Nat] /\ \A x \in 1..n : x # i => t.p[x] = s.p[x]
      /\ u > 1 => t.p[i] = s.result[u - 1] /\ arr[s.result[u - 1]] < arr[i]
  BY DEF Grown
<1>1. /\ n \in Nat /\ i \in 1..n /\ q \in [1..n -> Nat] /\ u \in Nat /\ u >= 1
      /\ Len(s.result) \in Nat
      /\ \A v \in 1..Len(s.result) : s.result[v] \in 1..n /\ q[s.result[v]] = v
      /\ \A x \in 1..n : q[x] # 0 => x = 1 \/ (x <= i - 1 /\ arr[x] # 0)
      /\ \A x \in 1..n : q[x] > 1 =>
           s.p[x] \in 1..n /\ s.p[x] < x /\ arr[s.p[x]] < arr[x] /\ q[s.p[x]] = q[x] - 1
  <2>0. s.result \in Seq(1..n)
    BY DEF Chained
  <2>1. n \in Nat /\ i \in 1..n /\ s.result \in Seq(1..n)
    BY <2>0
  <2>2. Len(s.result) \in Nat /\ \A v \in 1..Len(s.result) : s.result[v] \in 1..n
    BY <2>1, Entries
  <2>3. u \in Nat /\ u >= 1
    BY <1>0, <2>2
  <2> QED
    BY <2>1, <2>2, <2>3 DEF Chained
<1>2. r \in [1..n -> Nat] /\ r[i] = u /\ \A x \in 1..n : x # i => r[x] = q[x]
  BY <1>1
<1> HIDE DEF r, n
<1>3. \A v \in 1..Len(t.result) : r[t.result[v]] = v
  <2> TAKE v \in 1..Len(t.result)
  <2>1. CASE v = u
    BY <1>0, <1>2, <2>1
  <2>2. CASE v # u
    <3>1. v \in 1..Len(s.result) /\ t.result[v] = s.result[v]
      BY <1>0, <2>2
    <3>2. s.result[v] \in 1..n /\ q[s.result[v]] = v /\ v # 0
      BY <1>1, <3>1
    <3>3. s.result[v] # i
      BY <3>2
    <3> QED
      BY <1>2, <3>1, <3>2, <3>3
  <2> QED
    BY <2>1, <2>2
<1>4. \A x \in 1..n : r[x] # 0 => x = 1 \/ (x <= i /\ arr[x] # 0)
  BY <1>1, <1>2, SMTT(40)
<1>5. ASSUME NEW x \in 1..n, r[x] > 1
      PROVE  t.p[x] \in 1..n /\ t.p[x] < x /\ arr[t.p[x]] < arr[x] /\ r[t.p[x]] = r[x] - 1
  <2>1. CASE x = i
    <3>1. u > 1 /\ u - 1 \in 1..Len(s.result)
      BY <1>0, <1>1, <1>2, <1>5, <2>1
    <3> DEFINE y == s.result[u - 1]
    <3>2. y \in 1..n /\ q[y] = u - 1 /\ t.p[i] = y /\ arr[y] < arr[i]
      BY <1>0, <1>1, <3>1
    <3> HIDE DEF y
    <3>3. q[y] # 0 /\ y # i /\ y \in Int /\ i \in Int
      <4>1. u - 1 # 0
        BY <1>1, <3>1
      <4>2. y \in Int /\ i \in Int
        BY <1>1, <3>2
      <4> QED
        BY <3>2, <4>1, <4>2
    <3>4. y < i
      BY <1>1, <3>2, <3>3
    <3>5. r[y] = u - 1
      BY <1>2, <3>2, <3>3
    <3> QED
      BY <1>2, <2>1, <3>2, <3>4, <3>5
  <2>2. CASE x # i
    <3>1. q[x] > 1 /\ t.p[x] = s.p[x] /\ r[x] = q[x]
      BY <1>0, <1>2, <1>5, <2>2
    <3> DEFINE y == s.p[x]
    <3>2. y \in 1..n /\ y < x /\ arr[y] < arr[x] /\ q[y] = q[x] - 1
      BY <1>1, <3>1
    <3> HIDE DEF y
    <3>3. q[x] \in Nat
      BY <1>1
    <3>4. y # i
      BY <3>1, <3>2, <3>3
    <3>5. r[y] = q[y]
      BY <1>2, <3>2, <3>4
    <3> QED
      BY <3>1, <3>2, <3>5 DEF y
  <2> QED
    BY <2>1, <2>2
<1>6. Chained(arr, t, r, i)
  BY <1>0, <1>2, <1>3, <1>4, <1>5 DEF Chained, n
<1> QED
  BY <1>2, <1>6 DEF Chain, n

\* One more number of the array is added to the chains.
LEMMA ExtendStep ==
  ASSUME NEW arr \in Seq(Nat), NEW s, NEW i \in 1..Len(arr), Chain(arr, s, i - 1)
  PROVE  Chain(arr, Extend(arr, s, i), i)
<1> DEFINE n == Len(arr)
           N == Len(s.result)
           L == s.result[N]
           u == LowerBound(arr, s.result, arr[i])
           t == Extend(arr, s, i)
<1>1. PICK q \in [1..n -> Nat] : Chained(arr, s, q, i - 1)
  BY DEF Chain
<1>2. s.p \in [1..n -> Nat] /\ s.result \in Seq(1..n) /\ N # 0
  BY <1>1 DEF Chained
<1>3. n \in Nat /\ i \in 1..n /\ i \in Int /\ arr[i] \in Nat
  OBVIOUS
<1>4. N \in Nat /\ N \in 1..N /\ \A v \in 1..N : s.result[v] \in 1..n
  <2>1. N \in Nat /\ \A v \in 1..N : s.result[v] \in 1..n
    BY <1>2, Entries
  <2> QED
    BY <1>2, <2>1
<1>5. /\ \A v \in 1..N : q[s.result[v]] = v
      /\ \A x \in 1..n : q[x] # 0 => x = 1 \/ (x <= i - 1 /\ arr[x] # 0)
  BY <1>1 DEF Chained
<1>6. Chain(arr, s, i)
  <2>1. \A x \in 1..n : q[x] # 0 => x = 1 \/ (x <= i /\ arr[x] # 0)
    BY <1>3, <1>5
  <2>2. Chained(arr, s, q, i)
    BY <1>1, <2>1 DEF Chained
  <2> QED
    BY <2>2 DEF Chain
\* An index at a place of result is not i if what arr has there is not arr[i].
<1>7. ASSUME NEW v \in 1..N, arr[s.result[v]] # arr[i] PROVE q[i] = 0
  <2>1. s.result[v] \in 1..n /\ q[s.result[v]] # 0 /\ s.result[v] # i
    BY <1>4, <1>5, <1>7
  <2>2. i # 1
    BY <1>3, <1>5, <2>1
  <2> QED
    BY <1>3, <1>5, <2>2
<1>8. CASE arr[i] = 0
  BY <1>6, <1>8 DEF Extend
<1>9. CASE arr[i] # 0 /\ arr[L] < arr[i]
  <2> DEFINE p == [s.p EXCEPT ![i] = L]
             r == Append(s.result, i)
  <2>1. t = [p |-> p, result |-> r]
    BY <1>9 DEF Extend, Last
  <2>2. L \in 1..n
    BY <1>4
  <2>3. p \in [1..n -> Nat] /\ p[i] = L /\ \A x \in 1..n : x # i => p[x] = s.p[x]
    <3>1. L \in Nat
      BY <2>2
    <3> HIDE DEF L, n
    <3> QED
      BY <1>2, <1>3, <3>1, Puts
  <2>4. /\ r \in Seq(1..n) /\ Len(r) = N + 1 /\ r[N + 1] = i
        /\ \A v \in 1..N : r[v] = s.result[v]
    BY <1>2, <1>3, EntryAdded
  <2>5. \A v \in 1..Len(r) : IF v = N + 1 THEN r[v] = i ELSE v \in 1..N /\ r[v] = s.result[v]
    <3> HIDE DEF r, N
    <3> QED
      BY <1>4, <2>4, SMTT(40)
  <2>6. q[i] = 0
    <3>1. L \in 1..n /\ arr[L] \in Nat
      BY <1>4
    <3>2. arr[L] # arr[i]
      BY <1>3, <1>9, <3>1
    <3> QED
      BY <1>4, <1>7, <3>2
  <2> HIDE DEF t, p, r
  <2>7. t.p = p /\ t.result = r /\ N + 1 \in 1..(N + 1) /\ Len(r) # 0 /\ N + 1 - 1 = N
    <3> HIDE DEF N
    <3> QED
      BY <1>4, <2>1, <2>4
  <2>8. arr[s.result[N + 1 - 1]] < arr[i] /\ t.p[i] = s.result[N + 1 - 1]
    BY <1>9, <2>3, <2>7
  <2>9. \A x \in 1..n : x # i => t.p[x] = s.p[x]
    BY <2>3, <2>7
  <2>10. /\ t.result \in Seq(1..n) /\ Len(t.result) # 0 /\ t.p \in [1..n -> Nat]
         /\ \A v \in 1..Len(t.result) : IF v = N + 1 THEN t.result[v] = i
                                        ELSE v \in 1..N /\ t.result[v] = s.result[v]
    BY <2>3, <2>4, <2>5, <2>7
  <2>11. Grown(t, s, arr, i, N + 1)
    BY <2>7, <2>8, <2>9, <2>10 DEF Grown
  <2>12. Chain(arr, t, i)
    BY <1>1, <1>9, <2>6, <2>11, ChainGrows
  <2> QED
    BY <2>12 DEF t
<1>10. ASSUME arr[i] # 0, ~(arr[L] < arr[i]), arr[i] >= arr[s.result[u]]
       PROVE  Chain(arr, t, i)
  <2>1. t = s
    BY <1>10 DEF Extend, Last
  <2> QED
    BY <1>6, <2>1
<1>11. ASSUME arr[i] # 0, ~(arr[L] < arr[i]), ~(arr[i] >= arr[s.result[u]])
       PROVE  Chain(arr, t, i)
  <2> DEFINE p == IF u > 1 THEN [s.p EXCEPT ![i] = s.result[u - 1]] ELSE s.p
             r == [s.result EXCEPT ![u] = i]
  <2>1. t = [p |-> p, result |-> r]
    BY <1>11 DEF Extend, Last
  <2>0. arr[s.result[Len(s.result)]] >= arr[i]
    <3>1. L \in 1..n
      BY <1>4
    <3>2. \A y \in 1..n : arr[y] \in Nat
      BY Entries
    <3>3. arr[L] \in Nat
      BY <3>1, <3>2
    <3> QED
      BY <1>3, <1>11, <3>3, SMTT(40)
  <2>2. u \in 1..N /\ (u > 1 => arr[s.result[u - 1]] < arr[i])
    BY <1>2, <1>3, <2>0, LowerBoundIs
  <2> HIDE DEF t, u
  <2>3. u > 1 => s.result[u - 1] \in 1..n
    <3>1. u > 1 => u - 1 \in 1..N
      BY <1>4, <2>2
    <3> HIDE DEF N, n
    <3> QED
      BY <1>4, <3>1
  <2>4. p \in [1..n -> Nat] /\ (u > 1 => p[i] = s.result[u - 1]) /\ \A x \in 1..n : x # i => p[x] = s.p[x]
    <3>1. \A x \in Nat : /\ [s.p EXCEPT ![i] = x] \in [1..n -> Nat] /\ [s.p EXCEPT ![i] = x][i] = x
                         /\ \A y \in 1..n : y # i => [s.p EXCEPT ![i] = x][y] = s.p[y]
      <4> HIDE DEF n
      <4> QED
        BY <1>2, <1>3, Puts
    <3>2. u > 1 => s.result[u - 1] \in Nat
      BY <2>3
    <3> QED
      BY <1>2, <3>1, <3>2
  <2>5. /\ r \in Seq(1..n) /\ Len(r) = N /\ r[u] = i
        /\ \A v \in 1..N : v # u => r[v] = s.result[v]
    <3>1. s.result \in Seq(1..n) /\ u \in 1..Len(s.result) /\ i \in 1..n
      BY <1>2, <1>3, <2>2
    <3>2. r = [s.result EXCEPT ![u] = i]
      OBVIOUS
    <3> HIDE DEF n, N, r
    <3> QED
      BY <3>1, <3>2, EntryPut DEF N
  <2>6. \A v \in 1..Len(r) : IF v = u THEN r[v] = i ELSE v \in 1..N /\ r[v] = s.result[v]
    <3> HIDE DEF r, N
    <3> QED
      BY <2>5
  <2>7. q[i] = 0
    <3>1. s.result[u] \in 1..n
      BY <1>4, <2>2
    <3> QED
      BY <1>3, <1>7, <1>11, <2>2, <3>1
  <2> HIDE DEF p, r
  <2>8. t.p = p /\ t.result = r /\ u \in 1..(N + 1) /\ Len(r) # 0
    BY <1>2, <1>4, <2>1, <2>2, <2>5
  <2>9. /\ t.result \in Seq(1..n) /\ t.p \in [1..n -> Nat]
        /\ \A v \in 1..Len(t.result) : IF v = u THEN t.result[v] = i
                                       ELSE v \in 1..N /\ t.result[v] = s.result[v]
        /\ \A x \in 1..n : x # i => t.p[x] = s.p[x]
        /\ u > 1 => t.p[i] = s.result[u - 1]
    BY <2>4, <2>5, <2>6, <2>8
  <2>10. Grown(t, s, arr, i, u)
    BY <2>2, <2>8, <2>9 DEF Grown
  <2> QED
    BY <1>1, <1>11, <2>7, <2>10, ChainGrows
<1> QED
  BY <1>8, <1>9, <1>10, <1>11

\* The first number is a chain.
LEMMA ChainStarts ==
  ASSUME NEW arr \in Seq(Nat), Len(arr) # 0
  PROVE  Chain(arr, [p |-> arr, result |-> << 1 >>], 0)
<1> DEFINE n == Len(arr)
           q == [x \in 1..n |-> IF x = 1 THEN 1 ELSE 0]
           s == [p |-> arr, result |-> << 1 >>]
           one == << 1 >>
<1>1. n \in Nat /\ 1 \in 1..n /\ arr \in [1..n -> Nat]
  OBVIOUS
<1>2. q \in [1..n -> Nat] /\ q[1] = 1 /\ \A x \in 1..n : x # 1 => q[x] = 0
  BY <1>1
<1>3. one \in Seq(1..n) /\ Len(one) = 1 /\ one[1] = 1
  BY <1>1
<1>4. s.p = arr /\ s.result = one
  OBVIOUS
<1> HIDE DEF q, s, one, n
<1>5. \A u \in 1..Len(one) : q[one[u]] = u
  <2> TAKE u \in 1..Len(one)
  <2>1. u = 1
    BY <1>3
  <2> QED
    BY <1>2, <1>3, <2>1
<1>6. \A x \in 1..n : (q[x] # 0 => x = 1 \/ (x <= 0 /\ arr[x] # 0)) /\ ~(q[x] > 1)
  BY <1>2
<1>7. Chained(arr, s, q, 0)
  <2>1. /\ s.p \in [1..n -> Nat] /\ s.result \in Seq(1..n) /\ Len(s.result) # 0
        /\ q \in [1..n -> Nat]
    <3>1. s.p \in [1..n -> Nat]
      BY <1>1, <1>4, Zenon
    <3>2. s.result \in Seq(1..n)
      BY <1>3, <1>4, Zenon
    <3>3. Len(s.result) = 1
      BY <1>3, <1>4, Zenon
    <3> QED
      BY <1>2, <3>1, <3>2, <3>3
  <2>2. \A u \in 1..Len(s.result) : q[s.result[u]] = u
    BY <1>4, <1>5
  <2> QED
    BY <1>6, <2>1, <2>2 DEF Chained, n
<1> QED
  BY <1>2, <1>7 DEF Chain, s, n

--------------------------------------------------------------------------------
(* Rising indices of numbers other than zero: result is as long as any.         *)

Rising(arr, K) == \A j, k \in K : j < k => arr[j] < arr[k]
Nonzero(arr, i) == {k \in 1..i : arr[k] # 0}
Lead(arr) == IF arr[1] = 0 THEN 1 ELSE 0
Ascending(arr, result) ==
  \A u, v \in 1..Len(result) : u < v => arr[result[u]] < arr[result[v]]

\* No rising indices up to i are more than those of result, where as many end
\* with the smallest number they can.
Reaches(arr, result, K, k) ==
  LET c == Lead(arr) + Cardinality(K) IN c <= Len(result) /\ arr[result[c]] <= arr[k]
Longest(arr, result, i) ==
  /\ result \in Seq(1..Len(arr)) /\ Len(result) # 0 /\ Ascending(arr, result)
  /\ arr[1] = 0 => arr[result[1]] = 0
  /\ \A K \in SUBSET Nonzero(arr, i) : \A k \in K :
       Rising(arr, K) /\ (\A j \in K : j <= k) => Reaches(arr, result, K, k)

\* new is result with i, or what is as small, at the place u.
Supplanted(arr, result, new, i, u) ==
  /\ new \in Seq(1..Len(arr)) /\ u \in 1..Len(new) /\ arr[new[u]] = arr[i]
  /\ Len(new) = Len(result) \/ (Len(new) = Len(result) + 1 /\ u = Len(new))
  /\ \A v \in 1..Len(result) : v # u => new[v] = result[v]
  /\ u > 1 => arr[result[u - 1]] < arr[i]
  /\ u <= Len(result) => arr[result[u]] >= arr[i]

LEMMA Numbers ==
  ASSUME NEW arr \in Seq(Nat), NEW result \in Seq(1..Len(arr))
  PROVE  Len(result) \in Nat /\ \A v \in 1..Len(result) : arr[result[v]] \in Nat
<1>1. Len(result) \in Nat /\ \A v \in 1..Len(result) : result[v] \in 1..Len(arr)
  BY Entries
<1>2. \A l \in 1..Len(arr) : arr[l] \in Nat
  BY Entries
<1> QED
  BY <1>1, <1>2

\* Some indices up to i are finitely many.
LEMMA NonzeroFinite ==
  ASSUME NEW arr \in Seq(Nat), NEW i \in 0..Len(arr), NEW K \in SUBSET Nonzero(arr, i)
  PROVE  /\ K \subseteq 1..i /\ IsFiniteSet(K) /\ Cardinality(K) \in Nat
         /\ \A k \in K : k \in Nat /\ arr[k] \in Nat \ {0}
         /\ Lead(arr) \in {0, 1}
         /\ K # {} => Cardinality(K) # 0
<1>1. K \subseteq 1..i /\ i \in Int /\ \A k \in K : arr[k] # 0
  <2>1. Len(arr) \in Nat
    BY Entries
  <2> QED
    BY <2>1 DEF Nonzero
<1>2. IsFiniteSet(1..i) /\ K \in SUBSET (1..i)
  BY <1>1, FS_Interval
<1>3. IsFiniteSet(K)
  BY <1>2, FS_Subset
<1>4. Cardinality(K) \in Nat
  BY <1>3, FS_CardinalityType
<1>5. ASSUME NEW k \in K PROVE k \in Nat /\ arr[k] \in Nat
  <2>1. k \in 1..i /\ Len(arr) \in Nat /\ i <= Len(arr)
    BY <1>1, Entries
  <2>2. k \in 1..Len(arr) /\ k \in Nat
    BY <1>1, <2>1
  <2> QED
    BY <2>2, Entries
<1>6. K # {} => Cardinality(K) # 0
  BY <1>3, FS_EmptySet
<1> QED
  BY <1>1, <1>3, <1>4, <1>5, <1>6 DEF Lead

LEMMA AscendingGrows ==
  ASSUME NEW arr \in Seq(Nat), NEW result \in Seq(1..Len(arr)), Ascending(arr, result),
         NEW i \in 1..Len(arr), NEW new, NEW u, Supplanted(arr, result, new, i, u)
  PROVE  Ascending(arr, new)
<1> DEFINE R(v) == arr[result[v]]
           S(v) == arr[new[v]]
           N == Len(result)
           M == Len(new)
<1>1. N \in Nat /\ \A v \in 1..N : R(v) \in Nat
  BY Numbers
<1>2. M \in Nat /\ (\A v \in 1..M : S(v) \in Nat) /\ u \in 1..M
  BY Numbers DEF Supplanted
<1>3. arr[i] \in Nat
  BY Entries
<1>4. /\ S(u) = arr[i] /\ (M = N \/ (M = N + 1 /\ u = M))
      /\ \A v \in 1..N : v # u => S(v) = R(v)
      /\ u > 1 => R(u - 1) < arr[i]
      /\ u <= N => R(u) >= arr[i]
  BY DEF Supplanted
<1>5. \A v, w \in 1..N : v < w => R(v) < R(w)
  BY DEF Ascending
<1> SUFFICES \A v, w \in 1..M : v < w => S(v) < S(w)
  BY DEF Ascending
<1> HIDE DEF R, S, N, M
<1> TAKE v, w \in 1..M
<1> HAVE v < w
<1>6. v \in 1..N
  BY <1>1, <1>2, <1>4
<1>7. CASE v = u
  <2>1. w \in 1..N /\ w # u
    BY <1>1, <1>2, <1>4, <1>7
  <2>2. S(w) = R(w) /\ R(v) < R(w) /\ R(u) >= arr[i] /\ R(w) \in Nat /\ R(u) \in Nat
    BY <1>1, <1>2, <1>4, <1>5, <1>6, <1>7, <2>1
  <2> QED
    BY <1>3, <1>4, <1>7, <2>2
<1>8. CASE v # u /\ w = u
  <2>1. u - 1 \in 1..N /\ v \in 1..N /\ v <= u - 1 /\ u > 1
    BY <1>1, <1>2, <1>4, <1>8
  <2>2. R(v) <= R(u - 1)
    <3>1. v = u - 1 \/ v < u - 1
      BY <1>2, <2>1
    <3>2. R(v) \in Nat /\ R(u - 1) \in Nat
      BY <1>1, <2>1
    <3> QED
      BY <1>5, <2>1, <3>1, <3>2
  <2>3. R(v) \in Nat /\ R(u - 1) \in Nat /\ R(u - 1) < arr[i]
    BY <1>1, <1>4, <2>1
  <2> QED
    BY <1>3, <1>4, <1>8, <2>1, <2>2, <2>3
<1>9. CASE v # u /\ w # u
  <2>1. w \in 1..N
    BY <1>1, <1>2, <1>4, <1>9
  <2> QED
    BY <1>4, <1>5, <1>6, <1>9, <2>1
<1> QED
  BY <1>7, <1>8, <1>9

\* What ends with an index before i.
LEMMA ReachesStill ==
  ASSUME NEW arr \in Seq(Nat), NEW result \in Seq(1..Len(arr)), NEW i \in 1..Len(arr),
         NEW new, NEW u, Supplanted(arr, result, new, i, u),
         NEW c \in Nat \ {0}, NEW x \in Nat, c <= Len(result), arr[result[c]] <= x
  PROVE  c <= Len(new) /\ arr[new[c]] <= x
<1>1. Len(result) \in Nat /\ \A v \in 1..Len(result) : arr[result[v]] \in Nat
  BY Numbers
<1>2. Len(new) \in Nat /\ arr[i] \in Nat
  BY Entries DEF Supplanted
<1>3. /\ arr[new[u]] = arr[i] /\ (Len(new) = Len(result) \/ Len(new) = Len(result) + 1)
      /\ \A v \in 1..Len(result) : v # u => new[v] = result[v]
      /\ u <= Len(result) => arr[result[u]] >= arr[i]
  BY DEF Supplanted
<1>4. c \in 1..Len(result) /\ c <= Len(new)
  BY <1>1, <1>2, <1>3, SMTT(40)
<1>5. CASE c = u
  <2> DEFINE y == arr[result[c]]
             z == arr[new[c]]
             w == arr[i]
  <2>1. u \in 1..Len(result) /\ y \in Nat /\ w \in Nat /\ y <= x
    BY <1>1, <1>2, <1>4, <1>5
  <2>2. y >= w
    BY <1>1, <1>3, <1>5, <2>1
  <2>3. z = w
    BY <1>3, <1>5
  <2> HIDE DEF y, z, w
  <2>4. z <= x
    BY <2>1, <2>2, <2>3
  <2> QED
    BY <1>4, <2>4 DEF z
<1>6. CASE c # u
  BY <1>3, <1>4, <1>6
<1> QED
  BY <1>5, <1>6

\* What ends with i.
LEMMA ReachesNow ==
  ASSUME NEW arr \in Seq(Nat), NEW result \in Seq(1..Len(arr)), Ascending(arr, result),
         NEW i \in 1..Len(arr), NEW new, NEW u, Supplanted(arr, result, new, i, u),
         NEW d \in Nat, d <= Len(result), d # 0 => arr[result[d]] < arr[i]
  PROVE  d + 1 <= Len(new) /\ arr[new[d + 1]] <= arr[i]
<1> DEFINE R(v) == arr[result[v]]
           S(v) == arr[new[v]]
           N == Len(result)
           M == Len(new)
<1>1. N \in Nat /\ \A v \in 1..N : R(v) \in Nat
  BY Numbers
<1>2. M \in Nat /\ (\A v \in 1..M : S(v) \in Nat) /\ u \in 1..M
  BY Numbers DEF Supplanted
<1>3. arr[i] \in Nat
  BY Entries
<1>4. /\ S(u) = arr[i]
      /\ u <= N => R(u) >= arr[i]
  BY DEF Supplanted
<1>5. \A v, w \in 1..N : v < w => R(v) < R(w)
  BY DEF Ascending
<1>6. \A v, w \in 1..M : v < w => S(v) < S(w)
  BY AscendingGrows DEF Ascending
<1>7. d <= N /\ (d # 0 => R(d) < arr[i])
  OBVIOUS
<1> SUFFICES d + 1 <= M /\ S(d + 1) <= arr[i]
  OBVIOUS
<1> HIDE DEF R, S, N, M
<1>8. d < u
  <2> SUFFICES ASSUME u <= d PROVE FALSE
    BY <1>2
  <2>1. u \in 1..N /\ d \in 1..N /\ d # 0
    BY <1>1, <1>2, <1>7
  <2>2. R(u) <= R(d)
    <3>1. u = d \/ u < d
      BY <1>2
    <3>2. R(u) \in Nat /\ R(d) \in Nat
      BY <1>1, <2>1
    <3> QED
      BY <1>5, <2>1, <3>1, <3>2, SMTT(40)
  <2>3. R(u) \in Nat /\ R(d) \in Nat /\ u <= N
    BY <1>1, <2>1
  <2> QED
    BY <1>3, <1>4, <1>7, <2>1, <2>2, <2>3, SMTT(40)
<1>9. d + 1 \in 1..M /\ (d + 1 = u \/ d + 1 < u)
  BY <1>2, <1>8
<1>10. S(d + 1) \in Nat /\ S(u) \in Nat
  BY <1>2, <1>9
<1>11. S(d + 1) <= S(u)
  <2>1. CASE d + 1 = u
    BY <1>10, <2>1
  <2>2. CASE d + 1 < u
    BY <1>2, <1>6, <1>9, <1>10, <2>2
  <2> QED
    BY <1>9, <2>1, <2>2
<1> QED
  BY <1>4, <1>9, <1>11

\* Rising indices without the last.
LEMMA WithoutLast ==
  ASSUME NEW arr \in Seq(Nat), NEW i \in 1..Len(arr), NEW result \in Seq(1..Len(arr)),
         Longest(arr, result, i - 1), arr[i] # 0,
         NEW K \in SUBSET Nonzero(arr, i), Rising(arr, K), i \in K
  PROVE  LET d == Lead(arr) + Cardinality(K \ {i})
         IN  d \in Nat /\ d <= Len(result) /\ (d # 0 => arr[result[d]] < arr[i])
<1> DEFINE L == K \ {i}
           d == Lead(arr) + Cardinality(L)
<1>0. /\ Len(arr) \in Nat /\ i - 1 \in 0..Len(arr) /\ i \in 0..Len(arr) /\ i \in Nat
      /\ Len(result) \in Nat
  BY Entries
<1>1. L \in SUBSET Nonzero(arr, i - 1)
  <2>1. \A k \in L : k \in 1..i /\ arr[k] # 0 /\ k # i
    BY DEF Nonzero
  <2>2. \A k \in L : k \in 1..(i - 1) /\ arr[k] # 0
    BY <1>0, <2>1
  <2> QED
    BY <2>2 DEF Nonzero
<1> HIDE DEF L
<1>2. /\ L \subseteq 1..(i - 1) /\ Cardinality(L) \in Nat /\ Lead(arr) \in {0, 1}
      /\ \A k \in L : k \in Nat /\ arr[k] \in Nat \ {0}
      /\ L # {} => Cardinality(L) # 0
  BY <1>0, <1>1, NonzeroFinite
<1>3. d \in Nat /\ (L # {} => d # 0)
  BY <1>2
<1>4. arr[i] \in Nat \ {0} /\ \A v \in 1..Len(result) : arr[result[v]] \in Nat
  BY Entries, Numbers
<1>5. CASE L = {}
  <2>1. d = Lead(arr)
    BY <1>2, <1>5, FS_EmptySet
  <2>2. Len(result) # 0 /\ (arr[1] = 0 => arr[result[1]] = 0)
    BY DEF Longest
  <2>3. d <= Len(result)
    BY <1>0, <1>2, <2>1, <2>2
  <2>4. d # 0 => d = 1 /\ arr[1] = 0
    BY <2>1 DEF Lead
  <2> HIDE DEF d
  <2>5. d # 0 => arr[result[d]] < arr[i]
    BY <1>4, <2>2, <2>4
  <2> QED
    BY <1>3, <2>3, <2>5 DEF d, L
<1>6. CASE L # {}
  <2>1. PICK l \in L : \A j \in L : j <= l
    <3>0. i - 1 \in Int /\ 1 \in Int /\ L \subseteq 1..(i - 1) /\ L # {}
      BY <1>0, <1>2, <1>6
    <3>1. Max(L) \in L /\ \A x \in L : Max(L) >= x
      BY <3>0, MaxIn, Zenon
    <3>2. \A x \in L : x \in Int /\ Max(L) \in Int
      <4>1. \A x \in L : x \in Int
        BY <1>2
      <4> QED
        BY <3>1, <4>1
    <3> QED
      BY <3>1, <3>2
  <2>2. Rising(arr, L) /\ l \in K /\ l < i
    <3>1. l \in 1..(i - 1)
      BY <1>2
    <3>2. l < i
      BY <1>0, <3>1
    <3> QED
      BY <3>2 DEF Rising, L
  <2>3. arr[l] < arr[i]
    BY <2>2 DEF Rising
  <2>4. Reaches(arr, result, L, l)
    BY <1>1, <2>1, <2>2 DEF Longest
  <2>5. d <= Len(result) /\ arr[result[d]] <= arr[l]
    BY <2>4 DEF Reaches
  <2> HIDE DEF d
  <2>6. arr[result[d]] \in Nat /\ arr[l] \in Nat
    <3>1. d \in 1..Len(result)
      BY <1>0, <1>3, <1>6, <2>5
    <3> QED
      BY <1>2, <1>4, <3>1
  <2>7. arr[result[d]] < arr[i]
    BY <1>4, <2>3, <2>5, <2>6
  <2> QED
    BY <1>3, <2>5, <2>7 DEF d, L
<1> QED
  BY <1>5, <1>6

LEMMA LongestGrows ==
  ASSUME NEW arr \in Seq(Nat), NEW result \in Seq(1..Len(arr)), NEW i \in 1..Len(arr),
         Longest(arr, result, i - 1), arr[i] # 0,
         NEW new, NEW u, Supplanted(arr, result, new, i, u)
  PROVE  Longest(arr, new, i)
<1>0. /\ Len(arr) \in Nat /\ i \in 0..Len(arr) /\ i - 1 \in 0..Len(arr) /\ i \in Nat
      /\ Len(result) \in Nat /\ arr[i] \in Nat
  BY Entries
<1>1. /\ Len(result) # 0 /\ Ascending(arr, result)
      /\ arr[1] = 0 => arr[result[1]] = 0
  BY DEF Longest
<1>2. new \in Seq(1..Len(arr)) /\ u \in 1..Len(new)
  BY DEF Supplanted
<1>3. Len(new) \in Nat /\ Len(new) # 0
  BY <1>2, Entries
<1>4. Ascending(arr, new)
  BY <1>1, AscendingGrows
<1>5. ASSUME arr[1] = 0 PROVE arr[new[1]] = 0
  <2>1. 1 <= Len(result) /\ 1 \in 1..Len(result) /\ arr[result[1]] = 0
    BY <1>0, <1>1, <1>5
  <2>2. u # 1
    <3> SUFFICES ASSUME u = 1 PROVE FALSE
      OBVIOUS
    <3>1. arr[result[1]] >= arr[i]
      BY <2>1 DEF Supplanted
    <3> QED
      BY <1>0, <2>1, <3>1
  <2>3. new[1] = result[1]
    BY <2>1, <2>2 DEF Supplanted
  <2> QED
    BY <2>1, <2>3
<1>6. ASSUME NEW K \in SUBSET Nonzero(arr, i), NEW k \in K,
             Rising(arr, K), \A j \in K : j <= k
      PROVE  Reaches(arr, new, K, k)
  <2>1. /\ K \subseteq 1..i /\ IsFiniteSet(K) /\ Cardinality(K) \in Nat /\ Lead(arr) \in {0, 1}
        /\ \A j \in K : j \in Nat /\ arr[j] \in Nat \ {0}
        /\ Cardinality(K) # 0
    BY <1>0, NonzeroFinite
  <2> DEFINE c == Lead(arr) + Cardinality(K)
  <2>2. c \in Nat \ {0}
    BY <2>1
  <2>3. CASE i \notin K
    <3>1. K \in SUBSET Nonzero(arr, i - 1)
      <4>1. \A j \in K : j \in 1..i /\ arr[j] # 0 /\ j # i
        BY <2>3 DEF Nonzero
      <4>2. \A j \in K : j \in 1..(i - 1) /\ arr[j] # 0
        BY <1>0, <4>1
      <4> QED
        BY <4>2 DEF Nonzero
    <3>2. Reaches(arr, result, K, k)
      BY <1>6, <3>1 DEF Longest
    <3>3. c <= Len(result) /\ arr[result[c]] <= arr[k]
      BY <3>2 DEF Reaches
    <3> HIDE DEF c
    <3>4. c <= Len(new) /\ arr[new[c]] <= arr[k]
      BY <2>1, <2>2, <3>3, ReachesStill
    <3> QED
      BY <3>4 DEF Reaches, c
  <2>4. CASE i \in K
    <3>1. k = i
      <4>1. k \in 1..i /\ i <= k
        BY <1>6, <2>1, <2>4
      <4> QED
        BY <1>0, <4>1
    <3> DEFINE d == Lead(arr) + Cardinality(K \ {i})
    <3>2. d \in Nat /\ d <= Len(result) /\ (d # 0 => arr[result[d]] < arr[i])
      BY <1>6, <2>4, WithoutLast
    <3>3. c = d + 1
      <4>1. Cardinality(K \ {i}) = Cardinality(K) - 1
        BY <2>1, <2>4, FS_RemoveElement
      <4> QED
        BY <2>1, <4>1
    <3> HIDE DEF d, c
    <3>4. d + 1 <= Len(new) /\ arr[new[d + 1]] <= arr[i]
      BY <1>1, <3>2, ReachesNow
    <3> QED
      BY <3>1, <3>3, <3>4 DEF Reaches, c
  <2> QED
    BY <2>3, <2>4
<1> QED
  BY <1>2, <1>3, <1>4, <1>5, <1>6 DEF Longest

\* One more number of the array: result stays as long as any rising indices.
LEMMA LongestStep ==
  ASSUME NEW arr \in Seq(Nat), NEW s, NEW i \in 1..Len(arr), Longest(arr, s.result, i - 1)
  PROVE  Longest(arr, Extend(arr, s, i).result, i)
<1> DEFINE n == Len(arr)
           N == Len(s.result)
           L == s.result[N]
           u == LowerBound(arr, s.result, arr[i])
           t == Extend(arr, s, i)
<1>1. s.result \in Seq(1..n) /\ N # 0
  BY DEF Longest
<1>2. n \in Nat /\ i \in 1..n /\ arr[i] \in Nat /\ i \in Nat
  BY Entries
<1>3. N \in Nat /\ (\A v \in 1..N : arr[s.result[v]] \in Nat) /\ N \in 1..N
  <2>1. N \in Nat /\ \A v \in 1..N : arr[s.result[v]] \in Nat
    BY <1>1, Numbers
  <2> HIDE DEF N
  <2> QED
    BY <1>1, <2>1
<1>4. ASSUME NEW new, NEW w, arr[i] # 0, Supplanted(arr, s.result, new, i, w)
      PROVE  Longest(arr, new, i)
  BY <1>1, <1>4, LongestGrows
<1>5. CASE arr[i] = 0
  <2>1. t.result = s.result
    BY <1>5 DEF Extend
  <2>2. Nonzero(arr, i) = Nonzero(arr, i - 1)
    BY <1>2, <1>5 DEF Nonzero
  <2>3. Longest(arr, s.result, i)
    BY <2>2 DEF Longest
  <2> QED
    BY <2>1, <2>3
<1>6. CASE arr[i] # 0 /\ arr[L] < arr[i]
  <2> DEFINE r == Append(s.result, i)
  <2>1. t.result = r
    BY <1>6 DEF Extend, Last
  <2>2. /\ r \in Seq(1..n) /\ Len(r) = N + 1 /\ r[N + 1] = i
        /\ \A v \in 1..N : r[v] = s.result[v]
    BY <1>1, <1>2, EntryAdded
  <2>3. N + 1 - 1 = N /\ N + 1 \in 1..(N + 1) /\ ~(N + 1 <= N)
    <3> HIDE DEF N
    <3> QED
      BY <1>3
  <2>4. arr[s.result[N + 1 - 1]] < arr[i]
    BY <1>6, <2>3
  <2> HIDE DEF r
  <2>5. Supplanted(arr, s.result, r, i, N + 1)
    BY <2>2, <2>3, <2>4 DEF Supplanted
  <2> QED
    BY <1>4, <1>6, <2>1, <2>5
<1>7. CASE arr[i] # 0 /\ ~(arr[L] < arr[i])
  <2>1. arr[s.result[Len(s.result)]] >= arr[i]
    <3>1. arr[L] \in Nat
      BY <1>3
    <3> QED
      BY <1>2, <1>7, <3>1
  <2>2. /\ u \in 1..N /\ arr[s.result[u]] >= arr[i]
        /\ u > 1 => arr[s.result[u - 1]] < arr[i]
    BY <1>1, <1>2, <2>1, LowerBoundIs
  <2>3. t = IF arr[i] >= arr[s.result[u]] THEN s
            ELSE [p |-> IF u > 1 THEN [s.p EXCEPT ![i] = s.result[u - 1]] ELSE s.p,
                  result |-> [s.result EXCEPT ![u] = i]]
    BY <1>7 DEF Extend, Last
  <2> HIDE DEF u, t
  <2>4. CASE arr[i] >= arr[s.result[u]]
    <3>1. arr[s.result[u]] = arr[i]
      <4> DEFINE x == arr[s.result[u]]
      <4>1. x \in Nat /\ x >= arr[i] /\ arr[i] >= x
        BY <1>3, <2>2, <2>4
      <4> HIDE DEF x
      <4>2. x = arr[i]
        BY <1>2, <4>1
      <4> QED
        BY <4>2 DEF x
    <3>2. Supplanted(arr, s.result, s.result, i, u)
      BY <1>1, <2>2, <3>1 DEF Supplanted
    <3>3. t.result = s.result
      BY <2>3, <2>4
    <3> QED
      BY <1>4, <1>7, <3>2, <3>3 DEF t
  <2>5. CASE ~(arr[i] >= arr[s.result[u]])
    <3> DEFINE r == [s.result EXCEPT ![u] = i]
    <3>1. t.result = r
      BY <2>3, <2>5
    <3>2. /\ r \in Seq(1..n) /\ Len(r) = N /\ r[u] = i
          /\ \A v \in 1..N : v # u => r[v] = s.result[v]
      <4>1. s.result \in Seq(1..n) /\ u \in 1..Len(s.result) /\ i \in 1..n
        BY <1>1, <1>2, <2>2
      <4>2. r = [s.result EXCEPT ![u] = i]
        OBVIOUS
      <4> HIDE DEF n, N, r
      <4> QED
        BY <4>1, <4>2, EntryPut DEF N
    <3> HIDE DEF r
    <3>3. Supplanted(arr, s.result, r, i, u)
      BY <2>2, <3>2 DEF Supplanted
    <3> QED
      BY <1>4, <1>7, <3>1, <3>3 DEF t
  <2> QED
    BY <2>4, <2>5
<1> QED
  BY <1>5, <1>6, <1>7

LEMMA LongestStarts ==
  ASSUME NEW arr \in Seq(Nat), Len(arr) # 0, NEW one, one = << 1 >>
  PROVE  Longest(arr, one, 0)
<1>1. Len(arr) \in Nat /\ 1 \in 1..Len(arr)
  OBVIOUS
<1>2. one \in Seq(1..Len(arr)) /\ Len(one) = 1 /\ one[1] = 1
  BY <1>1
<1>3. Ascending(arr, one)
  <2>1. \A u, v \in 1..Len(one) : ~(u < v)
    BY <1>2
  <2> QED
    BY <2>1 DEF Ascending
<1>4. \A K \in SUBSET Nonzero(arr, 0) : K = {}
  <2>1. 1..0 = {}
    OBVIOUS
  <2> QED
    BY <2>1 DEF Nonzero
<1> QED
  BY <1>2, <1>3, <1>4 DEF Longest

--------------------------------------------------------------------------------
(* The loops of getSequence.                                                    *)

Extended(arr, s, i) == Chain(arr, s, i) /\ Longest(arr, s.result, i)

LEMMA ExtendIs ==
  ASSUME NEW arr, NEW s, NEW i
  PROVE  LET t == Extend(arr, s, i) IN t = s \/ t = [p |-> t.p, result |-> t.result]
<1> DEFINE t == Extend(arr, s, i)
           u == LowerBound(arr, s.result, arr[i])
           x == [s.p EXCEPT ![i] = Last(s.result)]
           y == Append(s.result, i)
           z == IF u > 1 THEN [s.p EXCEPT ![i] = s.result[u - 1]] ELSE s.p
           w == [s.result EXCEPT ![u] = i]
<1>1. t = s \/ t = [p |-> x, result |-> y] \/ t = [p |-> z, result |-> w]
  BY DEF Extend
<1> HIDE DEF t, x, y, z, w
<1>2. t = s \/ t = [p |-> t.p, result |-> t.result]
  BY <1>1
<1> QED
  BY <1>2 DEF t

\* The loop that extends the chains.
LEMMA ExtendRuns ==
  ASSUME NEW arr \in Seq(Nat), Len(arr) # 0
  PROVE  Extended(arr, Up(LAMBDA s, i : Extend(arr, s, i), [p |-> arr, result |-> << 1 >>], 1, Len(arr)), Len(arr))
<1> DEFINE T == [p : [1..Len(arr) -> Nat], result : Seq(1..Len(arr))]
           a == 1
           b == Len(arr)
           st == [p |-> arr, result |-> << 1 >>]
           op(s, k) == Extend(arr, s, k)
           J(k) == {s \in T : Extended(arr, s, k)}
           I == [k \in (a - 1)..b |-> J(k)]
           g == [w \in T \X (a..b) |-> op(w[1], w[2])]
           Body(f) == [k \in (a - 1)..b |-> IF k < a THEN st ELSE op(f[k - 1], k)]
           F == CHOOSE f : f = Body(f)
<1>0. Len(arr) \in Nat
  OBVIOUS
<1>1. a \in Int /\ b \in Int /\ a - 1 \in (a - 1)..b /\ b \in (a - 1)..b /\ a <= b + 1
  BY <1>0
<1>2. st \in J(a - 1)
  <2>0. st.result = << 1 >>
    OBVIOUS
  <2>1. Chain(arr, st, 0) /\ Longest(arr, st.result, 0)
    BY <2>0, ChainStarts, LongestStarts
  <2>2. arr \in [1..Len(arr) -> Nat] /\ << 1 >> \in Seq(1..Len(arr))
    BY <1>0
  <2> QED
    BY <2>1, <2>2 DEF Extended
<1>3. ASSUME NEW k \in a..b, NEW s \in J(k - 1) PROVE op(s, k) \in J(k)
  <2>1. s \in T /\ Chain(arr, s, k - 1) /\ Longest(arr, s.result, k - 1)
    BY DEF Extended
  <2>2. Chain(arr, op(s, k), k) /\ Longest(arr, op(s, k).result, k)
    BY <2>1, ExtendStep, LongestStep
  <2>3. op(s, k) \in T
    <3> DEFINE t == op(s, k)
    <3>1. t.p \in [1..Len(arr) -> Nat] /\ t.result \in Seq(1..Len(arr))
      <4> HIDE DEF t
      <4> QED
        BY <2>2 DEF Chain, Chained, t
    <3>2. t = s \/ t = [p |-> t.p, result |-> t.result]
      BY ExtendIs
    <3> HIDE DEF t
    <3>3. t \in T
      BY <2>1, <3>1, <3>2
    <3> QED
      BY <3>3 DEF t
  <2> QED
    BY <2>2, <2>3 DEF Extended
<1>4. /\ \A k \in (a - 1)..b : I[k] = J(k)
      /\ \A k \in a..b : \A s \in T : g[<< s, k >>] = op(s, k)
      /\ I \in [(a - 1)..b -> SUBSET T]
  <2>1. \A k \in a..b : \A s \in T : << s, k >> \in T \X (a..b) /\ << s, k >>[1] = s /\ << s, k >>[2] = k
    OBVIOUS
  <2> QED
    BY <2>1
<1> HIDE DEF I, g, J, op, T, a, b, st
<1>5. UpKeeps(g, I, a, b)
  <2> SUFFICES ASSUME NEW k \in a..b, NEW s \in I[k - 1] PROVE g[<< s, k >>] \in I[k]
    BY DEF UpKeeps
  <2>1. k - 1 \in (a - 1)..b /\ k \in (a - 1)..b
    BY <1>1
  <2>2. s \in J(k - 1) /\ s \in T
    BY <1>4, <2>1
  <2> QED
    BY <1>3, <1>4, <2>1, <2>2
<1>6. st \in I[a - 1]
  BY <1>1, <1>2, <1>4
<1>7. F = Body(F)
  <2>1. PICK f \in [(a - 1)..b -> T] : UpRun(f, st, g, I, a, b)
    BY <1>1, <1>4, <1>5, <1>6, UpRuns
  <2>2. /\ f = [k \in (a - 1)..b |-> IF k < a THEN st ELSE g[<< f[k - 1], k >>]]
        /\ \A k \in a..b : f[k - 1] \in T
    BY <1>1, <2>1, UpFixed
  <2>3. \A k \in (a - 1)..b :
          (IF k < a THEN st ELSE g[<< f[k - 1], k >>]) = (IF k < a THEN st ELSE op(f[k - 1], k))
    BY <1>1, <1>4, <2>2
  <2>4. f = Body(f)
    BY <2>2, <2>3
  <2> HIDE DEF Body
  <2> QED
    BY <2>4
<1>8. F[a - 1] = st /\ \A k \in a..b : F[k] = op(F[k - 1], k)
  <2> HIDE DEF F
  <2> QED
    BY <1>1, <1>7
<1>9. Up(LAMBDA s, i : Extend(arr, s, i), [p |-> arr, result |-> << 1 >>], 1, Len(arr)) = F[b]
  <2>1. Up(LAMBDA s, i : Extend(arr, s, i), [p |-> arr, result |-> << 1 >>], 1, Len(arr)) = IF b < a THEN st ELSE F[b]
    BY DEF Up, op, a, b, st
  <2>2. b < a => b = a - 1
    BY <1>1
  <2> QED
    BY <1>8, <2>1, <2>2
<1> HIDE DEF F
<1>10. F[b] \in I[b]
  <2>1. UpGoes(F, T, g, a, b)
    BY <1>4, <1>8 DEF UpGoes
  <2>2. I \in [(a - 1)..b -> SUBSET T] /\ F[a - 1] = st
    BY <1>4, <1>8
  <2> QED
    BY <1>1, <1>5, <1>6, <2>1, <2>2, UpEnds
<1>11. F[b] \in J(b)
  BY <1>1, <1>4, <1>10
<1> QED
  BY <1>9, <1>11 DEF J, T, a, b, st

\* The places from k on have been followed back, and v leads to the one before.
Traced(arr, s0, q, s, k) ==
  /\ s.result \in Seq(1..Len(arr)) /\ Len(s.result) = Len(s0.result)
  /\ k > 1 => /\ s.v \in 1..Len(arr) /\ q[s.v] = k - 1
              /\ k <= Len(s0.result) => s.v < s.result[k] /\ arr[s.v] < arr[s.result[k]]
  /\ \A w \in k..Len(s0.result) : q[s.result[w]] = w
  /\ \A v, w \in k..Len(s0.result) : v < w =>
       s.result[v] < s.result[w] /\ arr[s.result[v]] < arr[s.result[w]]
Traces(arr) == [result : Seq(1..Len(arr)), v : Nat]

LEMMA LessTwice ==
  ASSUME NEW a \in Nat, NEW b \in Nat, NEW c \in Nat, a < b, b < c
  PROVE  a < c
OBVIOUS

\* One step back through p.
LEMMA BackStep ==
  ASSUME NEW arr \in Seq(Nat), NEW s0, NEW q, Chained(arr, s0, q, Len(arr)),
         NEW k \in 1..Len(s0.result), NEW s \in Traces(arr), Traced(arr, s0, q, s, k + 1)
  PROVE  Back(s0, s, k) \in Traces(arr) /\ Traced(arr, s0, q, Back(s0, s, k), k)
<1> DEFINE n == Len(arr)
           N == Len(s0.result)
           r == [s.result EXCEPT ![k] = s.v]
           x == s0.p[s.v]
           t == Back(s0, s, k)
<1>1. n \in Nat /\ \A y \in 1..n : y \in Nat /\ arr[y] \in Nat
  <2>1. n \in Nat
    BY Entries
  <2>2. \A y \in 1..n : arr[y] \in Nat
    BY Entries
  <2> QED
    BY <2>1, <2>2
<1>2. N \in Nat /\ k \in 1..N /\ k \in Int
  <2>1. s0.result \in Seq(1..n)
    BY DEF Chained
  <2>2. N \in Nat
    BY <2>1, Entries
  <2> QED
    BY <2>2
<1>3. /\ s.result \in Seq(1..n) /\ Len(s.result) = N
      /\ s.v \in 1..n /\ q[s.v] = k
      /\ k + 1 <= N => s.v < s.result[k + 1] /\ arr[s.v] < arr[s.result[k + 1]]
  BY <1>2 DEF Traced
<1>4. /\ s0.p \in [1..n -> Nat]
      /\ k > 1 => x \in 1..n /\ x < s.v /\ arr[x] < arr[s.v] /\ q[x] = k - 1
  BY <1>3 DEF Chained
<1>5. x \in Nat
  BY <1>3, <1>4
<1>6. t = [result |-> r, v |-> x]
  BY DEF Back
<1>7. \A w \in 1..N : s.result[w] \in 1..n
  BY <1>3, Entries
<1> HIDE DEF x, t, r, n, N
<1>8. r \in Seq(1..n) /\ Len(r) = N /\ r[k] = s.v /\ \A v \in 1..N : v # k => r[v] = s.result[v]
  BY <1>2, <1>3, EntryPut DEF r
<1>9. t.result = r /\ t.v = x /\ t \in [result : Seq(1..n), v : Nat]
  BY <1>5, <1>6, <1>8
<1>10. k > 1 => /\ t.v \in 1..n /\ q[t.v] = k - 1
                /\ t.v < t.result[k] /\ arr[t.v] < arr[t.result[k]]
  BY <1>4, <1>8, <1>9
<1>11. ASSUME NEW v \in k..N, NEW w \in k..N, v < w
       PROVE  r[v] < r[w] /\ arr[r[v]] < arr[r[w]]
  <2>1. v \in 1..N /\ w \in (k + 1)..N /\ w # k /\ w \in 1..N /\ k + 1 \in (k + 1)..N
    BY <1>2, <1>11
  <2>2. r[w] = s.result[w]
    BY <1>8, <2>1
  <2>3. \A y, z \in (k + 1)..N : y < z =>
          s.result[y] < s.result[z] /\ arr[s.result[y]] < arr[s.result[z]]
    BY DEF Traced, N
  <2>4. CASE v # k
    <3>1. v \in (k + 1)..N /\ r[v] = s.result[v]
      BY <1>2, <1>8, <2>1, <2>4
    <3> QED
      BY <1>11, <2>1, <2>2, <2>3, <3>1
  <2>5. CASE v = k
    <3> DEFINE a == s.result[k + 1]
               b == s.result[w]
    <3>1. s.v < a /\ arr[s.v] < arr[a]
      BY <1>2, <1>3, <2>1
    <3>2. w = k + 1 \/ k + 1 < w
      BY <1>2, <2>1
    <3>3. w = k + 1 => a = b
      OBVIOUS
    <3>4. k + 1 < w => a < b /\ arr[a] < arr[b]
      BY <2>1, <2>3
    <3>5. a \in 1..n /\ b \in 1..n
      BY <1>2, <1>7, <2>1
    <3> HIDE DEF a, b
    <3>6. /\ a \in Nat /\ b \in Nat /\ s.v \in Nat
          /\ arr[a] \in Nat /\ arr[b] \in Nat /\ arr[s.v] \in Nat
      BY <1>1, <1>3, <3>5
    <3>7. s.v < b /\ arr[s.v] < arr[b]
      <4>1. CASE w = k + 1
        BY <3>1, <3>3, <4>1
      <4>2. CASE k + 1 < w
        BY <3>1, <3>4, <3>6, <4>2, LessTwice
      <4> QED
        BY <3>2, <4>1, <4>2
    <3> QED
      BY <1>8, <2>2, <2>5, <3>7 DEF b
  <2> QED
    BY <2>4, <2>5
<1>13. ASSUME NEW w \in k..N PROVE q[t.result[w]] = w
  <2>1. CASE w = k
    BY <1>3, <1>8, <1>9, <2>1
  <2>2. CASE w # k
    <3>1. w \in (k + 1)..N /\ w \in 1..N
      BY <1>2, <2>2
    <3>2. q[s.result[w]] = w
      BY <3>1 DEF Traced, N
    <3> QED
      BY <1>8, <1>9, <2>2, <3>1, <3>2
  <2> QED
    BY <2>1, <2>2
<1>12. Traced(arr, s0, q, t, k)
  <2>1. t.result \in Seq(1..n) /\ Len(t.result) = N
    BY <1>8, <1>9
  <2>2. \A v, w \in k..N : v < w =>
          t.result[v] < t.result[w] /\ arr[t.result[v]] < arr[t.result[w]]
    BY <1>9, <1>11
  <2> QED
    BY <1>10, <1>13, <2>1, <2>2 DEF Traced, n, N
<1> QED
  BY <1>9, <1>12 DEF Traces, t, n

LEMMA BackStarts ==
  ASSUME NEW arr \in Seq(Nat), NEW s0, NEW q, Chained(arr, s0, q, Len(arr)), NEW s,
         s = [result |-> s0.result, v |-> Last(s0.result)]
  PROVE  s \in Traces(arr) /\ Traced(arr, s0, q, s, Len(s0.result) + 1)
<1> DEFINE n == Len(arr)
           N == Len(s0.result)
           x == s0.result[N]
<1>1. n \in Nat
  BY Entries
<1>2. s0.result \in Seq(1..n) /\ N # 0 /\ \A u \in 1..N : q[s0.result[u]] = u
  BY DEF Chained
<1>3. N \in Nat /\ \A u \in 1..N : s0.result[u] \in 1..n
  BY <1>2, Entries
<1>4. N \in 1..N
  BY <1>2, <1>3
<1>5. x \in 1..n /\ x \in Nat /\ q[x] = N
  <2>1. x \in 1..n /\ q[x] = N
    BY <1>2, <1>3, <1>4
  <2> HIDE DEF x, n
  <2> QED
    BY <1>1, <2>1
<1>6. s = [result |-> s0.result, v |-> x]
  BY DEF Last
<1> HIDE DEF n, x
<1>7. s.result = s0.result /\ s.v = x /\ s \in [result : Seq(1..n), v : Nat]
  BY <1>2, <1>5, <1>6
<1>8. ~(N + 1 <= N) /\ N + 1 - 1 = N /\ (N + 1)..N = {}
  BY <1>3
<1> HIDE DEF N
<1>9. s.result \in Seq(1..n) /\ Len(s.result) = N
  BY <1>2, <1>7 DEF N
<1>10. Traced(arr, s0, q, s, N + 1)
  BY <1>5, <1>7, <1>8, <1>9 DEF Traced, n, N
<1> QED
  BY <1>7, <1>10 DEF Traces, n, N

\* The loop back through p finds the whole chain.
LEMMA BackRuns ==
  ASSUME NEW arr \in Seq(Nat), NEW s0, NEW q, Chained(arr, s0, q, Len(arr))
  PROVE  LET s == Down(LAMBDA s, u : Back(s0, s, u), [result |-> s0.result, v |-> Last(s0.result)], 1, Len(s0.result))
         IN  s \in Traces(arr) /\ Traced(arr, s0, q, s, 1)
<1> DEFINE T == Traces(arr)
           a == 1
           b == Len(s0.result)
           st == [result |-> s0.result, v |-> Last(s0.result)]
           op(s, k) == Back(s0, s, k)
           J(k) == {s \in T : Traced(arr, s0, q, s, k)}
           I == [k \in a..(b + 1) |-> J(k)]
           g == [w \in T \X (a..b) |-> op(w[1], w[2])]
           Body(f) == [k \in a..(b + 1) |-> IF k > b THEN st ELSE op(f[k + 1], k)]
           F == CHOOSE f : f = Body(f)
<1>1. a \in Int /\ b \in Int /\ a \in a..(b + 1) /\ b + 1 \in a..(b + 1) /\ a <= b + 1
  <2>1. s0.result \in Seq(1..Len(arr))
    BY DEF Chained
  <2>2. Len(s0.result) \in Nat
    BY <2>1, Entries
  <2> QED
    BY <2>2
<1>2. st \in J(b + 1)
  BY BackStarts
<1>3. ASSUME NEW k \in a..b, NEW s \in J(k + 1) PROVE op(s, k) \in J(k)
  BY BackStep
<1>4. /\ \A k \in a..(b + 1) : I[k] = J(k)
      /\ \A k \in a..b : \A s \in T : g[<< s, k >>] = op(s, k)
      /\ I \in [a..(b + 1) -> SUBSET T]
  <2>1. \A k \in a..b : \A s \in T : << s, k >> \in T \X (a..b) /\ << s, k >>[1] = s /\ << s, k >>[2] = k
    OBVIOUS
  <2> QED
    BY <2>1
<1> HIDE DEF I, g, J, op, T, a, b, st
<1>5. DownKeeps(g, I, a, b)
  <2> SUFFICES ASSUME NEW k \in a..b, NEW s \in I[k + 1] PROVE g[<< s, k >>] \in I[k]
    BY DEF DownKeeps
  <2>1. k + 1 \in a..(b + 1) /\ k \in a..(b + 1)
    BY <1>1
  <2>2. s \in J(k + 1) /\ s \in T
    BY <1>4, <2>1
  <2> QED
    BY <1>3, <1>4, <2>1, <2>2
<1>6. st \in I[b + 1]
  BY <1>1, <1>2, <1>4
<1>7. F = Body(F)
  <2>1. PICK f \in [a..(b + 1) -> T] : DownRun(f, st, g, I, a, b)
    BY <1>1, <1>4, <1>5, <1>6, DownRuns
  <2>2. /\ f = [k \in a..(b + 1) |-> IF k > b THEN st ELSE g[<< f[k + 1], k >>]]
        /\ \A k \in a..b : f[k + 1] \in T
    BY <1>1, <2>1, DownFixed
  <2>3. \A k \in a..(b + 1) :
          (IF k > b THEN st ELSE g[<< f[k + 1], k >>]) = (IF k > b THEN st ELSE op(f[k + 1], k))
    <3> TAKE k \in a..(b + 1)
    <3>1. CASE k > b
      BY <3>1
    <3>2. CASE ~(k > b)
      <4>1. k \in a..b
        BY <1>1, <3>2
      <4> QED
        BY <1>4, <2>2, <3>2, <4>1
    <3> QED
      BY <3>1, <3>2
  <2>4. f = Body(f)
    BY <2>2, <2>3
  <2> HIDE DEF Body
  <2> QED
    BY <2>4
<1>8. F[b + 1] = st /\ \A k \in a..b : F[k] = op(F[k + 1], k)
  <2> HIDE DEF F
  <2> QED
    BY <1>1, <1>7
<1>9. Down(LAMBDA s, u : Back(s0, s, u), [result |-> s0.result, v |-> Last(s0.result)], 1, Len(s0.result)) = F[a]
  <2>1. Down(LAMBDA s, u : Back(s0, s, u), [result |-> s0.result, v |-> Last(s0.result)], 1, Len(s0.result)) = IF b < a THEN st ELSE F[a]
    BY DEF Down, op, a, b, st
  <2>2. b < a => a = b + 1
    BY <1>1
  <2> QED
    BY <1>8, <2>1, <2>2
<1> HIDE DEF F
<1>10. F[a] \in I[a]
  <2>1. DownGoes(F, T, g, a, b)
    BY <1>4, <1>8 DEF DownGoes
  <2>2. I \in [a..(b + 1) -> SUBSET T] /\ F[b + 1] = st
    BY <1>4, <1>8
  <2> QED
    BY <1>1, <1>5, <1>6, <2>1, <2>2, DownEnds
<1>11. F[a] \in J(a)
  BY <1>1, <1>4, <1>10
<1> QED
  BY <1>9, <1>11 DEF J, T, a, b, st

\* getSequence returns indices in order whose numbers are in order.
LEMMA GetSequenceInOrder ==
  ASSUME NEW arr \in Seq(Nat), Len(arr) # 0
  PROVE  /\ GetSequence(arr) \in Seq(1..Len(arr))
         /\ \A v, w \in 1..Len(GetSequence(arr)) : v < w =>
              /\ GetSequence(arr)[v] < GetSequence(arr)[w]
              /\ arr[GetSequence(arr)[v]] < arr[GetSequence(arr)[w]]
<1> DEFINE s0 == Up(LAMBDA s, i : Extend(arr, s, i), [p |-> arr, result |-> << 1 >>], 1, Len(arr))
           s == Down(LAMBDA s, u : Back(s0, s, u),
                     [result |-> s0.result, v |-> Last(s0.result)], 1, Len(s0.result))
<1>1. Chain(arr, s0, Len(arr))
  BY ExtendRuns DEF Extended
<1>2. GetSequence(arr) = s.result
  BY DEF GetSequence
<1> HIDE DEF s0
<1>3. PICK q \in [1..Len(arr) -> Nat] : Chained(arr, s0, q, Len(arr))
  BY <1>1 DEF Chain
<1>4. s \in Traces(arr) /\ Traced(arr, s0, q, s, 1)
  BY <1>3, BackRuns
<1> HIDE DEF s
<1> QED
  BY <1>2, <1>4 DEF Traced


\* Its indices, where the numbers are not zero but perhaps at the first, are as
\* many as any rising indices, and one more if the first number is zero.
LEMMA GetSequenceReaches ==
  ASSUME NEW arr \in Seq(Nat), Len(arr) # 0
  PROVE  /\ \A w \in 1..Len(GetSequence(arr)) : GetSequence(arr)[w] = 1 \/ arr[GetSequence(arr)[w]] # 0
         /\ \A K \in SUBSET Nonzero(arr, Len(arr)) :
              Rising(arr, K) /\ K # {} => Lead(arr) + Cardinality(K) <= Len(GetSequence(arr))
<1> DEFINE s0 == Up(LAMBDA s, i : Extend(arr, s, i), [p |-> arr, result |-> << 1 >>], 1, Len(arr))
           s == Down(LAMBDA s, u : Back(s0, s, u),
                     [result |-> s0.result, v |-> Last(s0.result)], 1, Len(s0.result))
           n == Len(arr)
<1>1. Chain(arr, s0, n) /\ Longest(arr, s0.result, n)
  BY ExtendRuns DEF Extended
<1>2. GetSequence(arr) = s.result
  BY DEF GetSequence
<1> HIDE DEF s0
<1>3. PICK q \in [1..n -> Nat] : Chained(arr, s0, q, n)
  BY <1>1 DEF Chain
<1>4. Traced(arr, s0, q, s, 1)
  BY <1>3, BackRuns
<1> HIDE DEF s
<1>5. /\ s.result \in Seq(1..n) /\ Len(s.result) = Len(s0.result)
      /\ \A w \in 1..Len(s0.result) : q[s.result[w]] = w
  BY <1>4 DEF Traced
<1>6. n \in Nat /\ n \in 0..n
  <2>1. n \in Nat
    BY Entries
  <2> HIDE DEF n
  <2> QED
    BY <2>1
<1>7. ASSUME NEW w \in 1..Len(s.result) PROVE s.result[w] = 1 \/ arr[s.result[w]] # 0
  <2>1. s.result[w] \in 1..n
    BY <1>5, Entries
  <2>2. q[s.result[w]] = w /\ w # 0
    <3>1. w # 0
      BY <1>5, Entries
    <3> QED
      BY <1>5, <3>1
  <2>3. \A x \in 1..n : q[x] # 0 => x = 1 \/ (x <= n /\ arr[x] # 0)
    BY <1>3 DEF Chained
  <2> QED
    BY <2>1, <2>2, <2>3
<1>8. ASSUME NEW K \in SUBSET Nonzero(arr, n), Rising(arr, K), K # {}
      PROVE  Lead(arr) + Cardinality(K) <= Len(s.result)
  <2>1. K \subseteq 1..n /\ \A k \in K : k \in Nat
    BY <1>6, NonzeroFinite
  <2>2. Max(K) \in K /\ \A x \in K : Max(K) >= x
    <3>1. n \in Int /\ 1 \in Int /\ K \subseteq 1..n /\ K # {}
      BY <1>6, <1>8, <2>1
    <3> HIDE DEF n
    <3> QED
      BY <3>1, MaxIn, Zenon
  <2>3. \A x \in K : x <= Max(K)
    BY <2>1, <2>2
  <2>4. Reaches(arr, s0.result, K, Max(K))
    BY <1>1, <1>8, <2>2, <2>3 DEF Longest
  <2> QED
    BY <1>5, <2>4 DEF Reaches
<1> QED
  BY <1>2, <1>7, <1>8 DEF n

\* The indices it returns, without that of a zero.
Picked(arr) ==
  {k \in 1..Len(arr) : arr[k] # 0 /\ \E w \in 1..Len(GetSequence(arr)) : GetSequence(arr)[w] = k}

\* getSequence finds a longest increasing subsequence: no rising indices of
\* numbers other than zero are more than those it picks, which are rising too.
THEOREM GetSequenceIsLongest ==
  ASSUME NEW arr \in Seq(Nat), Len(arr) # 0
  PROVE  /\ IsFiniteSet(Picked(arr)) /\ Rising(arr, Picked(arr))
         /\ Picked(arr) \subseteq Nonzero(arr, Len(arr))
         /\ \A K \in SUBSET Nonzero(arr, Len(arr)) :
              Rising(arr, K) => Cardinality(K) <= Cardinality(Picked(arr))
<1> DEFINE n == Len(arr)
           G == GetSequence(arr)
           N == Len(G)
           f == [w \in 1..N |-> G[w]]
           E == {G[w] : w \in 1..N}
           P == Picked(arr)
<1>1. n \in Nat /\ n \in 0..n
  <2>1. n \in Nat
    BY Entries
  <2> HIDE DEF n
  <2> QED
    BY <2>1
<1>2. /\ G \in Seq(1..n)
      /\ \A v, w \in 1..N : v < w => G[v] < G[w] /\ arr[G[v]] < arr[G[w]]
  BY GetSequenceInOrder
<1>3. /\ \A w \in 1..N : G[w] = 1 \/ arr[G[w]] # 0
      /\ \A K \in SUBSET Nonzero(arr, n) :
           Rising(arr, K) /\ K # {} => Lead(arr) + Cardinality(K) <= N
  BY GetSequenceReaches
<1> HIDE DEF G
<1>4. N \in Nat /\ \A w \in 1..N : G[w] \in 1..n
  BY <1>2, Entries
<1>5. /\ P \subseteq 1..n /\ \A k \in P : arr[k] # 0 /\ \E w \in 1..N : G[w] = k
      /\ \A w \in 1..N : arr[G[w]] # 0 => G[w] \in P
  BY <1>4 DEF Picked, G
<1>6. P \subseteq Nonzero(arr, n)
  BY <1>5 DEF Nonzero
<1> HIDE DEF N, n, P
<1>7. Rising(arr, P)
  <2> SUFFICES ASSUME NEW j \in P, NEW k \in P, j < k PROVE arr[j] < arr[k]
    BY DEF Rising
  <2>1. PICK v \in 1..N : G[v] = j
    BY <1>5
  <2>2. PICK w \in 1..N : G[w] = k
    BY <1>5
  <2>3. j \in Int /\ k \in Int
    BY <1>5
  <2>4. ~(w < v) /\ w # v
    <3>1. w < v => k < j
      BY <1>2, <2>1, <2>2
    <3> QED
      BY <2>1, <2>2, <2>3, <3>1
  <2>5. v < w
    BY <1>4, <2>4
  <2> QED
    BY <1>2, <2>1, <2>2, <2>5
<1>8. Cardinality(E) = N /\ IsFiniteSet(E)
  <2>1. f \in Surjection(1..N, E)
    BY DEF Surjection
  <2>2. \A v, w \in 1..N : G[v] = G[w] => v = w
    <3> TAKE v, w \in 1..N
    <3> HAVE G[v] = G[w]
    <3>1. G[v] \in Int /\ v \in Int /\ w \in Int
      BY <1>1, <1>4
    <3>2. ~(v < w) /\ ~(w < v)
      <4>1. v < w => G[v] < G[w]
        BY <1>2
      <4>2. w < v => G[w] < G[v]
        BY <1>2
      <4> DEFINE x == G[v]
                 y == G[w]
      <4>3. x = y /\ x \in Int
        BY <3>1
      <4>4. (v < w => x < y) /\ (w < v => y < x)
        BY <4>1, <4>2
      <4> HIDE DEF x, y
      <4> QED
        BY <4>3, <4>4
    <3> QED
      BY <3>1, <3>2
  <2>3. f \in Injection(1..N, E)
    BY <2>1, <2>2 DEF Injection, IsInjective, Surjection
  <2>4. IsFiniteSet(1..N) /\ Cardinality(1..N) = N
    BY <1>4, FS_Interval
  <2> HIDE DEF E, f
  <2>5. Cardinality(E) = Cardinality(1..N) /\ IsFiniteSet(E)
    BY <2>1, <2>3, <2>4, FS_Surjection
  <2> QED
    BY <2>4, <2>5
<1>9. IsFiniteSet(P) /\ Cardinality(P) \in Nat
  <2>1. P \in SUBSET Nonzero(arr, n) /\ n \in 0..Len(arr)
    BY <1>1, <1>6 DEF n
  <2> QED
    BY <2>1, NonzeroFinite
<1>10. N - Lead(arr) <= Cardinality(P)
  <2>1. CASE arr[1] = 0
    <3>1. E \ {1} \subseteq P
      BY <1>3, <1>5
    <3>2. Cardinality(E \ {1}) <= Cardinality(P)
      BY <1>9, <3>1, FS_Subset
    <3>3. Cardinality(E \ {1}) = N \/ Cardinality(E \ {1}) = N - 1
      <4> HIDE DEF E
      <4> QED
        BY <1>8, FS_RemoveElement
    <3> DEFINE c == Cardinality(E \ {1})
    <3>4. c <= Cardinality(P) /\ (c = N \/ c = N - 1)
      BY <3>2, <3>3
    <3> HIDE DEF c
    <3>5. N - 1 <= Cardinality(P)
      BY <1>4, <1>9, <3>4
    <3> QED
      BY <2>1, <3>5 DEF Lead
  <2>2. CASE arr[1] # 0
    <3>1. E \subseteq P
      BY <1>3, <1>5, <2>2
    <3>2. Cardinality(E) <= Cardinality(P)
      BY <1>9, <3>1, FS_Subset
    <3>3. Lead(arr) = 0
      BY <2>2 DEF Lead
    <3> HIDE DEF E
    <3> QED
      BY <1>4, <1>8, <3>2, <3>3
  <2> QED
    BY <2>1, <2>2
<1>11. ASSUME NEW K \in SUBSET Nonzero(arr, n), Rising(arr, K)
       PROVE  Cardinality(K) <= Cardinality(P)
  <2>1. /\ Cardinality(K) \in Nat /\ Lead(arr) \in {0, 1}
        /\ IsFiniteSet(K)
    <3>1. K \in SUBSET Nonzero(arr, n) /\ n \in 0..Len(arr)
      BY <1>1 DEF n
    <3> QED
      BY <3>1, NonzeroFinite
  <2>2. CASE K = {}
    <3>1. Cardinality(K) = 0
      BY <2>2, FS_EmptySet
    <3> QED
      BY <1>9, <3>1
  <2>3. CASE K # {}
    <3>1. Lead(arr) + Cardinality(K) <= N
      BY <1>3, <1>11, <2>3
    <3> QED
      BY <1>4, <1>9, <1>10, <2>1, <3>1
  <2> QED
    BY <2>2, <2>3
<1> QED
  BY <1>6, <1>7, <1>9, <1>11 DEF P, n
================================================================================
