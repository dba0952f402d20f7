---------------------------- MODULE ChildrenProofs -----------------------------
(***************************************************************************)
(* Patching makes the host nodes match the new children, for every list of *)
(* children, every mixture of keys and types, in an element and in a       *)
(* fragment, and it spares the host: it keeps the nodes that it can keep,  *)
(* unmounts the others once and moves no more of them than it has to.      *)
(***************************************************************************)
EXTENDS Children, SubsequenceProofs

--------------------------------------------------------------------------------
(* Host nodes in order.  A rank gives the nodes the order they should have;    *)
(* a sequence is sorted as far as it holds nodes of a set.                     *)

Sorted(d, P, r) ==
  \A i, j \in DOMAIN d : i < j /\ d[i] \in P /\ d[j] \in P => r[d[i]] < r[d[j]]
Below(X, Y, P, r) == \A x \in X \cap P, y \in Y \cap P : r[x] < r[y]

\* Two sequences in order, the first below the second, are one in order.
LEMMA Joined ==
  ASSUME NEW N, NEW s \in Seq(N), NEW t \in Seq(N), NEW r \in [N -> Int], NEW P,
         Sorted(s, P, r), Sorted(t, P, r), Below(ToSet(s), ToSet(t), P, r)
  PROVE  /\ s \o t \in Seq(N)
         /\ ToSet(s \o t) = ToSet(s) \cup ToSet(t)
         /\ Sorted(s \o t, P, r)
<1> DEFINE q == s \o t
<1>1. /\ q \in Seq(N) /\ Len(q) = Len(s) + Len(t)
      /\ \A i \in 1..Len(s) : q[i] = s[i]
      /\ \A i \in 1..Len(t) : q[Len(s) + i] = t[i]
      /\ \A i \in (Len(s) + 1)..(Len(s) + Len(t)) : q[i] = t[i - Len(s)]
      /\ Len(s) \in Nat /\ Len(t) \in Nat
  OBVIOUS
<1> HIDE DEF q
<1>2. /\ DOMAIN s = 1..Len(s) /\ DOMAIN t = 1..Len(t) /\ DOMAIN q = 1..(Len(s) + Len(t))
  BY <1>1
<1>3. \A i \in DOMAIN q : \/ i \in DOMAIN s /\ q[i] = s[i]
                          \/ i \notin DOMAIN s /\ i - Len(s) \in DOMAIN t /\ q[i] = t[i - Len(s)]
  BY <1>1, <1>2
<1>4. ToSet(q) = ToSet(s) \cup ToSet(t)
  <2>1. ASSUME NEW i \in DOMAIN q PROVE q[i] \in ToSet(s) \cup ToSet(t)
    BY <1>3 DEF ToSet
  <2>2. ASSUME NEW i \in DOMAIN s PROVE s[i] \in ToSet(q)
    <3>1. i \in DOMAIN q /\ q[i] = s[i]
      BY <1>1, <1>2
    <3> QED
      BY <3>1 DEF ToSet
  <2>3. ASSUME NEW i \in DOMAIN t PROVE t[i] \in ToSet(q)
    <3>1. Len(s) + i \in DOMAIN q /\ q[Len(s) + i] = t[i]
      BY <1>1, <1>2
    <3> QED
      BY <3>1 DEF ToSet
  <2> QED
    BY <2>1, <2>2, <2>3 DEF ToSet
<1>5. Sorted(q, P, r)
  <2> SUFFICES ASSUME NEW i \in DOMAIN q, NEW j \in DOMAIN q, i < j, q[i] \in P, q[j] \in P
               PROVE  r[q[i]] < r[q[j]]
    BY DEF Sorted
  <2>1. CASE j \in DOMAIN s
    <3>1. i \in DOMAIN s
      BY <1>2, <2>1
    <3> QED
      BY <1>3, <2>1, <3>1 DEF Sorted
  <2>2. CASE i \notin DOMAIN s
    <3>1. j \notin DOMAIN s /\ i - Len(s) < j - Len(s)
      BY <1>1, <1>2, <2>2
    <3> QED
      BY <1>3, <2>2, <3>1 DEF Sorted
  <2>3. CASE i \in DOMAIN s /\ j \notin DOMAIN s
    <3>1. q[i] \in ToSet(s) /\ q[j] \in ToSet(t)
      BY <1>3, <2>3 DEF ToSet
    <3> QED
      BY <3>1 DEF Below
  <2> QED
    BY <2>1, <2>2, <2>3
<1> QED
  BY <1>1, <1>4, <1>5 DEF q

InTurn(s, P, r) ==
  /\ \A i \in DOMAIN s : Sorted(s[i], P, r)
  /\ \A i, k \in DOMAIN s : i < k => Below(ToSet(s[i]), ToSet(s[k]), P, r)

\* So are many, each below those after it.
LEMMA Flattened ==
  ASSUME NEW N, NEW s \in Seq(Seq(N)), NEW r \in [N -> Int], NEW P,
         InTurn(s, P, r)
  PROVE  /\ FlattenSeq(s) \in Seq(N)
         /\ ToSet(FlattenSeq(s)) = UNION {ToSet(s[i]) : i \in DOMAIN s}
         /\ Sorted(FlattenSeq(s), P, r)
<1> DEFINE n == Len(s)
<1>0. n \in Nat /\ DOMAIN s = 1..n /\ \A i \in 1..n : s[i] \in Seq(N)
  OBVIOUS
<1>1. CASE n = 0
  <2>1. FlattenSeq(s) = s /\ s = << >>
    BY <1>1 DEF FlattenSeq
  <2>2. << >> \in Seq(N) /\ DOMAIN << >> = {}
    OBVIOUS
  <2>3. ToSet(<< >>) = {} /\ UNION {ToSet(s[i]) : i \in DOMAIN s} = {}
    <3>1. DOMAIN s = {}
      BY <1>0, <1>1
    <3> QED
      BY <2>2, <3>1 DEF ToSet
  <2> QED
    BY <2>1, <2>2, <2>3 DEF Sorted
<1>2. CASE n # 0
  <2> DEFINE All(k) == UNION {ToSet(s[i]) : i \in 1..k}
             I == [k \in (2 - 1)..n |->
                     {q \in Seq(N) : ToSet(q) = All(k) /\ Sorted(q, P, r)}]
             g == [w \in Seq(N) \X (2..n) |-> w[1] \o s[w[2]]]
  <2>1. I \in [(2 - 1)..n -> SUBSET Seq(N)] /\ 2 <= n + 1 /\ 2 \in Int /\ n \in Int
    BY <1>0, <1>2
  <2>2. s[1] \in I[2 - 1]
    <3>1. 2 - 1 = 1 /\ 1 \in (2 - 1)..n /\ 1 \in DOMAIN s /\ 1..1 = {1}
      BY <1>0, <1>2
    <3>2. All(1) = ToSet(s[1])
      BY <3>1
    <3> QED
      BY <1>0, <3>1, <3>2 DEF InTurn
  <2>3. ASSUME NEW k \in 2..n, NEW q \in I[k - 1] PROVE q \o s[k] \in I[k]
    <3>1. /\ k - 1 \in (2 - 1)..n /\ k \in (2 - 1)..n /\ k \in DOMAIN s
          /\ 1..k = (1..(k - 1)) \cup {k}
          /\ \A i \in 1..(k - 1) : i \in DOMAIN s /\ i < k
      BY <1>0
    <3>2. q \in Seq(N) /\ ToSet(q) = All(k - 1) /\ Sorted(q, P, r)
      BY <3>1
    <3>3. All(k) = All(k - 1) \cup ToSet(s[k])
      BY <3>1
    <3>4. Below(ToSet(q), ToSet(s[k]), P, r)
      BY <3>1, <3>2 DEF Below, InTurn
    <3>5. /\ q \o s[k] \in Seq(N) /\ ToSet(q \o s[k]) = ToSet(q) \cup ToSet(s[k])
          /\ Sorted(q \o s[k], P, r)
      <4>1. s[k] \in Seq(N) /\ Sorted(s[k], P, r)
        BY <1>0, <3>1 DEF InTurn
      <4>2. q \in Seq(N) /\ Sorted(q, P, r)
        BY <3>2
      <4>3. /\ q \in Seq(N) /\ s[k] \in Seq(N) /\ r \in [N -> Int]
            /\ Sorted(q, P, r) /\ Sorted(s[k], P, r) /\ Below(ToSet(q), ToSet(s[k]), P, r)
        BY <3>4, <4>1, <4>2, Zenon
      <4> HIDE DEF All, I
      <4> QED
        BY <4>3, Joined, Zenon
    <3> QED
      BY <3>1, <3>2, <3>3, <3>5
  <2>4. \A k \in 2..n : \A q \in I[k - 1] : g[<< q, k >>] = q \o s[k]
    <3> TAKE k \in 2..n
    <3> TAKE q \in I[k - 1]
    <3>1. k - 1 \in (2 - 1)..n
      OBVIOUS
    <3>2. q \in Seq(N)
      BY <3>1
    <3> QED
      BY <3>2
  <2> DEFINE W(f) == [i \in 1..n |-> IF i = 1 THEN s[i] ELSE f[i - 1] \o s[i]]
  <2>5. \E f : f = W(f)
    <3>1. PICK f \in [(2 - 1)..n -> Seq(N)] : UpRun(f, s[1], g, I, 2, n)
      <4>1. UpKeeps(g, I, 2, n)
        <5> HIDE DEF I, g
        <5> QED
          BY <2>3, <2>4 DEF UpKeeps
      <4> HIDE DEF I, g, n
      <4> QED
        BY <2>1, <2>2, <4>1, UpRuns
    <3> HIDE DEF I, g
    <3>2. 2 - 1 = 1
      OBVIOUS
    <3>3. \A k \in 1..n : f[k] = IF k = 1 THEN s[k] ELSE f[k - 1] \o s[k]
      <4> TAKE k \in 1..n
      <4>1. CASE k = 1
        BY <3>1, <3>2, <4>1 DEF UpRun
      <4>2. CASE k # 1
        <5>1. k \in 2..n /\ k - 1 \in (2 - 1)..n /\ ~(k < 2) /\ k \in (2 - 1)..n
          BY <1>0, <4>2
        <5>2. f[k] = g[<< f[k - 1], k >>] /\ f[k - 1] \in I[k - 1]
          BY <3>1, <5>1 DEF UpRun
        <5> QED
          BY <2>4, <4>2, <5>1, <5>2
      <4> QED
        BY <4>1, <4>2
    <3>4. f = W(f)
      BY <3>1, <3>2, <3>3
    <3> QED
      BY <3>4
  <2> DEFINE F == CHOOSE f : f = W(f)
  <2>6. F = W(F) /\ FlattenSeq(s) = F[n]
    BY <1>2, <2>5 DEF FlattenSeq
  <2>7. F[1] = s[1] /\ \A k \in 2..n : F[k] = F[k - 1] \o s[k]
    <3> HIDE DEF F
    <3>1. 1 \in 1..n /\ \A k \in 2..n : k \in 1..n /\ k # 1
      BY <1>0, <1>2
    <3> QED
      BY <2>6, <3>1
  <2>8. F[n] \in I[n]
    <3> HIDE DEF F, I
    <3> DEFINE Q == {k \in Int : F[k] \in I[k]}
    <3>1. 1 \in Q
      <4>1. 2 - 1 = 1
        OBVIOUS
      <4> QED
        BY <2>2, <2>7, <4>1
    <3>2. ASSUME NEW k \in (1 + 1)..n, k - 1 \in Q PROVE k \in Q
      <4>1. k \in 2..n /\ k \in Int
        OBVIOUS
      <4> QED
        BY <2>3, <2>7, <3>2, <4>1
    <3>3. \A k \in 1..n : k \in Q
      <4> HIDE DEF Q
      <4>1. 1 \in Int /\ n \in Int
        BY <1>0
      <4> QED
        BY <3>1, <3>2, <4>1, Upward
    <3>4. n \in 1..n
      BY <1>0, <1>2
    <3> QED
      BY <3>3, <3>4
  <2>9. n \in (2 - 1)..n
    BY <1>0, <1>2
  <2> QED
    <3> HIDE DEF F
    <3> QED
      BY <1>0, <2>6, <2>8, <2>9
<1> QED
  BY <1>1, <1>2

\* A vnode at the slot i: the ranks of its nodes.
Node == Nat \X (1..3)
At(r, id, i) == r[<< id, 1 >>] = 3 * i + 1 /\ r[<< id, 2 >>] = 3 * i + 2
Others(d, m) == {x \in ToSet(d) : x[1] # m.id}

\* The anchor is the node that follows the slot i among the nodes of P.
Follows(anchor, X, P, r, i) ==
  \/ /\ anchor \in X \cap P /\ r[anchor] > 3 * i + 2
     /\ \A x \in X \cap P : r[x] < r[anchor] => r[x] <= 3 * i
  \/ /\ anchor \notin X
     /\ \A x \in X \cap P : r[x] <= 3 * i

LEMMA NodesEntries ==
  ASSUME NEW m, m.id \in Nat
  PROVE  /\ Nodes(m) \in Seq(Node) /\ ToSet(Nodes(m)) \in SUBSET Node
         /\ << m.id, 1 >> \in ToSet(Nodes(m))
         /\ \A x \in ToSet(Nodes(m)) : x[1] = m.id /\ (x = << m.id, 1 >> \/ x = << m.id, 2 >>)
         /\ ToSet(Nodes(m)) = IF m.type \in Fragments THEN {<< m.id, 1 >>, << m.id, 2 >>}
                                                      ELSE {<< m.id, 1 >>}
<1>0. << m.id, 1 >> \in Node /\ << m.id, 2 >> \in Node
  BY DEF Node
<1>1. CASE m.type \in Fragments
  <2> DEFINE q == << << m.id, 1 >>, << m.id, 2 >> >>
  <2>1. Nodes(m) = q
    BY <1>1 DEF Nodes
  <2>2. q \in Seq(Node) /\ DOMAIN q = {1, 2} /\ q[1] = << m.id, 1 >> /\ q[2] = << m.id, 2 >>
    BY <1>0
  <2> HIDE DEF q
  <2>3. ToSet(q) = {<< m.id, 1 >>, << m.id, 2 >>}
    BY <2>2 DEF ToSet
  <2> QED
    BY <1>0, <1>1, <2>1, <2>2, <2>3
<1>2. CASE m.type \notin Fragments
  <2> DEFINE q == << << m.id, 1 >> >>
  <2>1. Nodes(m) = q
    BY <1>2 DEF Nodes
  <2>2. q \in Seq(Node) /\ DOMAIN q = {1} /\ q[1] = << m.id, 1 >>
    BY <1>0
  <2> HIDE DEF q
  <2>3. ToSet(q) = {<< m.id, 1 >>}
    <3>1. \A x : x \in ToSet(q) <=> \E i \in {1} : x = q[i]
      BY <2>2, Zenon DEF ToSet
    <3>2. \A x : x \in ToSet(q) <=> x = q[1]
      BY <3>1, Zenon
    <3> QED
      BY <2>2, <3>2, Zenon
  <2> QED
    BY <1>0, <1>2, <2>1, <2>2, <2>3
<1> QED
  BY <1>1, <1>2

\* The nodes of a vnode are in order.
LEMMA NodesSorted ==
  ASSUME NEW m, m.id \in Nat, NEW r \in [Node -> Int], NEW P, NEW i \in Int, At(r, m.id, i)
  PROVE  /\ Sorted(Nodes(m), P, r)
         /\ \A x \in ToSet(Nodes(m)) : 3 * i < r[x] /\ r[x] <= 3 * i + 2
<1>1. CASE m.type \in Fragments
  <2> DEFINE q == << << m.id, 1 >>, << m.id, 2 >> >>
  <2>1. Nodes(m) = q
    BY <1>1 DEF Nodes
  <2>2. DOMAIN q = {1, 2} /\ q[1] = << m.id, 1 >> /\ q[2] = << m.id, 2 >>
    OBVIOUS
  <2> HIDE DEF q
  <2> QED
    BY <2>1, <2>2 DEF Sorted, At, ToSet
<1>2. CASE m.type \notin Fragments
  <2> DEFINE q == << << m.id, 1 >> >>
  <2>1. Nodes(m) = q
    BY <1>2 DEF Nodes
  <2>2. DOMAIN q = {1} /\ q[1] = << m.id, 1 >>
    OBVIOUS
  <2> HIDE DEF q
  <2> QED
    BY <2>1, <2>2 DEF Sorted, At, ToSet
<1> QED
  BY <1>1, <1>2

\* Removing the nodes of a vnode leaves the others in order.
LEMMA Removed ==
  ASSUME NEW d \in Seq(Node), NEW m, NEW r \in [Node -> Int], NEW P, Sorted(d, P, r)
  PROVE  /\ RemoveNodes(d, m) \in Seq(Node)
         /\ ToSet(RemoveNodes(d, m)) = Others(d, m)
         /\ Sorted(RemoveNodes(d, m), P, r)
<1> DEFINE s == [k \in DOMAIN d |-> IF d[k][1] = m.id THEN << >> ELSE << d[k] >>]
<1>1. /\ DOMAIN s = DOMAIN d
      /\ \A k \in DOMAIN d : \/ d[k][1] = m.id /\ s[k] = << >>
                             \/ d[k][1] # m.id /\ s[k] = << d[k] >>
  OBVIOUS
<1>2. \A k \in DOMAIN d : d[k] \in Node
  OBVIOUS
<1>3. s \in Seq(Seq(Node))
  <2>1. \A x \in Node : << x >> \in Seq(Node)
    OBVIOUS
  <2>2. << >> \in Seq(Node) /\ DOMAIN d = 1..Len(d) /\ Len(d) \in Nat
    OBVIOUS
  <2>3. \A k \in 1..Len(d) : s[k] \in Seq(Node)
    <3> TAKE k \in 1..Len(d)
    <3> HIDE DEF s
    <3>1. d[k] \in Node /\ << d[k] >> \in Seq(Node) /\ << >> \in Seq(Node)
      BY <1>2, <2>1, <2>2, Zenon
    <3>2. s[k] = << >> \/ s[k] = << d[k] >>
      BY <1>1, <2>2, Zenon
    <3>3. CASE s[k] = << >>
      BY <3>1, <3>3, Zenon
    <3>4. CASE s[k] = << d[k] >>
      BY <3>1, <3>4, Zenon
    <3> QED
      BY <3>2, <3>3, <3>4
  <2>4. s = [k \in 1..Len(d) |-> s[k]]
    BY <2>2
  <2> HIDE DEF s
  <2> QED
    BY <2>2, <2>3, <2>4
<1>4. /\ \A x : DOMAIN << x >> = {1} /\ << x >>[1] = x
      /\ DOMAIN << >> = {}
  OBVIOUS
<1>5. \A x : ToSet(<< x >>) = {x}
  BY <1>4 DEF ToSet
<1>6. ToSet(<< >>) = {}
  BY <1>4 DEF ToSet
<1> HIDE DEF s
<1>7. \A k \in DOMAIN d : \A x \in ToSet(s[k]) : x = d[k] /\ x[1] # m.id
  <2> TAKE k \in DOMAIN d
  <2>1. CASE d[k][1] = m.id
    BY <1>1, <1>6, <2>1
  <2>2. CASE d[k][1] # m.id
    <3>1. ToSet(s[k]) = {d[k]}
      BY <1>1, <1>5, <2>2, Zenon
    <3> QED
      BY <2>2, <3>1
  <2> QED
    BY <2>1, <2>2
<1>8. InTurn(s, P, r)
  <2>1. \A k \in DOMAIN s : Sorted(s[k], P, r)
    <3>1. \A x : Sorted(<< x >>, P, r)
      BY <1>4 DEF Sorted
    <3>2. Sorted(<< >>, P, r)
      BY <1>4 DEF Sorted
    <3> TAKE k \in DOMAIN s
    <3>3. s[k] = << >> \/ s[k] = << d[k] >>
      BY <1>1, Zenon
    <3>4. CASE s[k] = << >>
      BY <3>2, <3>4, Zenon
    <3>5. CASE s[k] = << d[k] >>
      BY <3>1, <3>5, Zenon
    <3> QED
      BY <3>3, <3>4, <3>5
  <2>2. \A k, l \in DOMAIN s : k < l => Below(ToSet(s[k]), ToSet(s[l]), P, r)
    BY <1>1, <1>7 DEF Below, Sorted
  <2> QED
    BY <2>1, <2>2 DEF InTurn
<1>9. /\ FlattenSeq(s) \in Seq(Node) /\ Sorted(FlattenSeq(s), P, r)
      /\ ToSet(FlattenSeq(s)) = UNION {ToSet(s[k]) : k \in DOMAIN s}
  BY <1>3, <1>8, Flattened
<1>10. UNION {ToSet(s[k]) : k \in DOMAIN s} = Others(d, m)
  <2>1. \A k \in DOMAIN d : d[k][1] # m.id => d[k] \in ToSet(s[k])
    BY <1>1, <1>5
  <2> QED
    BY <1>1, <1>7, <2>1, SMTT(40) DEF Others, ToSet
<1>11. RemoveNodes(d, m) = FlattenSeq(s)
  BY DEF RemoveNodes, s
<1> QED
  BY <1>9, <1>10, <1>11

\* Inserting them before their successor leaves all of them in order.
LEMMA Inserted ==
  ASSUME NEW d \in Seq(Node), NEW m, m.id \in Nat, NEW r \in [Node -> Int], NEW P,
         NEW i \in Int, At(r, m.id, i), Sorted(d, P, r), NEW anchor,
         Follows(anchor, Others(d, m), P, r, i)
  PROVE  /\ InsertNodes(d, m, anchor) \in Seq(Node)
         /\ ToSet(InsertNodes(d, m, anchor)) = Others(d, m) \cup ToSet(Nodes(m))
         /\ Sorted(InsertNodes(d, m, anchor), P \cup ToSet(Nodes(m)), r)
<1> DEFINE rest == RemoveNodes(d, m)
           at == IF anchor \in ToSet(rest) THEN CHOOSE k \in DOMAIN rest : rest[k] = anchor
                                           ELSE Len(rest) + 1
           L == SubSeq(rest, 1, at - 1)
           R == SubSeq(rest, at, Len(rest))
           M == ToSet(Nodes(m))
           Q == P \cup M
<1>1. rest \in Seq(Node) /\ ToSet(rest) = Others(d, m) /\ Sorted(rest, P, r)
  BY Removed
<1>2. /\ InsertNodes(d, m, anchor) = L \o Nodes(m) \o R
  BY DEF InsertNodes
<1> HIDE DEF rest
<1>3. Len(rest) \in Nat /\ DOMAIN rest = 1..Len(rest)
  BY <1>1
<1>4. \/ anchor \in ToSet(rest) /\ at \in DOMAIN rest /\ rest[at] = anchor
      \/ anchor \notin ToSet(rest) /\ at = Len(rest) + 1
  BY DEF ToSet
<1>5. at \in 1..(Len(rest) + 1)
  BY <1>3, <1>4
<1>6. \A x \in M : x[1] = m.id /\ x \in Node
  BY NodesEntries
<1>7. \A k \in DOMAIN rest : rest[k] \in Others(d, m) /\ rest[k] \notin M /\ rest[k] \in Node
  <2> TAKE k \in DOMAIN rest
  <2>1. rest[k] \in ToSet(rest) /\ rest[k] \in Node
    BY <1>1 DEF ToSet
  <2> QED
    BY <1>1, <1>6, <2>1 DEF Others
<1>8. /\ \A k \in DOMAIN rest : k < at /\ rest[k] \in P => r[rest[k]] <= 3 * i
      /\ \A k \in DOMAIN rest : k >= at /\ rest[k] \in P => r[rest[k]] > 3 * i + 2
  <2>1. CASE anchor \in ToSet(rest)
    <3>1. /\ at \in DOMAIN rest /\ rest[at] = anchor /\ anchor \in P /\ r[anchor] > 3 * i + 2
          /\ \A x \in Others(d, m) \cap P : r[x] < r[anchor] => r[x] <= 3 * i
      BY <1>1, <1>4, <2>1 DEF Follows
    <3>2. \A k \in DOMAIN rest : r[rest[k]] \in Int
      BY <1>7
    <3> HIDE DEF at
    <3>3. ASSUME NEW k \in DOMAIN rest, rest[k] \in P
          PROVE  /\ k < at => r[rest[k]] < r[anchor]
                 /\ k > at => r[anchor] < r[rest[k]]
      BY <1>1, <3>1, <3>3 DEF Sorted
    <3>4. ASSUME NEW k \in DOMAIN rest, rest[k] \in P, k < at PROVE r[rest[k]] <= 3 * i
      BY <1>7, <3>1, <3>3, <3>4
    <3>5. ASSUME NEW k \in DOMAIN rest, rest[k] \in P, k >= at PROVE r[rest[k]] > 3 * i + 2
      <4>1. k = at \/ k > at
        BY <1>3, <1>5, <3>5
      <4> QED
        BY <3>1, <3>2, <3>3, <3>5, <4>1
    <3> QED
      BY <3>4, <3>5
  <2>2. CASE anchor \notin ToSet(rest)
    <3>1. at = Len(rest) + 1 /\ \A x \in Others(d, m) \cap P : r[x] <= 3 * i
      BY <1>1, <1>4, <2>2 DEF Follows
    <3> HIDE DEF at
    <3> QED
      BY <1>3, <1>7, <3>1
  <2> QED
    BY <2>1, <2>2
<1> HIDE DEF at
<1>9. /\ L \in Seq(Node) /\ Len(L) = at - 1 /\ DOMAIN L = 1..(at - 1)
      /\ \A k \in 1..(at - 1) : L[k] = rest[k]
  BY <1>1, <1>3, <1>5
<1>10. /\ R \in Seq(Node) /\ Len(R) = Len(rest) - at + 1 /\ DOMAIN R = 1..(Len(rest) - at + 1)
       /\ \A k \in 1..(Len(rest) - at + 1) : R[k] = rest[at + k - 1]
  BY <1>1, <1>3, <1>5
<1> HIDE DEF L, R
<1>11. ToSet(L) \cup ToSet(R) = ToSet(rest)
  <2>1. \A k \in DOMAIN L : k \in DOMAIN rest
    BY <1>3, <1>5, <1>9
  <2>2. \A k \in DOMAIN R : at + k - 1 \in DOMAIN rest
    BY <1>3, <1>5, <1>10, SMTT(40)
  <2>3. ASSUME NEW k \in DOMAIN rest PROVE rest[k] \in ToSet(L) \cup ToSet(R)
    <3>1. CASE k < at
      <4>1. k \in DOMAIN L /\ L[k] = rest[k]
        BY <1>3, <1>5, <1>9, <3>1
      <4> QED
        BY <4>1 DEF ToSet
    <3>2. CASE k >= at
      <4>1. k - at + 1 \in 1..(Len(rest) - at + 1) /\ at + (k - at + 1) - 1 = k
        BY <1>3, <1>5, <3>2
      <4>2. k - at + 1 \in DOMAIN R /\ R[k - at + 1] = rest[k]
        BY <1>10, <4>1
      <4> QED
        BY <4>2 DEF ToSet
    <3> QED
      BY <1>3, <1>5, <3>1, <3>2
  <2>4. ASSUME NEW k \in DOMAIN L PROVE L[k] \in ToSet(rest)
    <3>1. k \in DOMAIN rest /\ L[k] = rest[k]
      BY <1>9, <2>1
    <3> QED
      BY <3>1 DEF ToSet
  <2>5. ASSUME NEW k \in DOMAIN R PROVE R[k] \in ToSet(rest)
    <3>1. at + k - 1 \in DOMAIN rest /\ R[k] = rest[at + k - 1]
      BY <1>10, <2>2
    <3> QED
      BY <3>1 DEF ToSet
  <2> QED
    BY <2>3, <2>4, <2>5, Zenon DEF ToSet
<1>12. /\ \A x \in ToSet(L) : x \in Node /\ x \notin M /\ (x \in P => r[x] <= 3 * i)
       /\ \A x \in ToSet(R) : x \in Node /\ x \notin M /\ (x \in P => r[x] > 3 * i + 2)
  <2>1. ASSUME NEW k \in DOMAIN L
        PROVE  L[k] \in Node /\ L[k] \notin M /\ (L[k] \in P => r[L[k]] <= 3 * i)
    <3>1. k \in DOMAIN rest /\ k < at /\ L[k] = rest[k]
      BY <1>3, <1>5, <1>9
    <3> QED
      BY <1>7, <1>8, <3>1
  <2>2. ASSUME NEW k \in DOMAIN R
        PROVE  R[k] \in Node /\ R[k] \notin M /\ (R[k] \in P => r[R[k]] > 3 * i + 2)
    <3>1. at + k - 1 \in DOMAIN rest /\ at + k - 1 >= at /\ R[k] = rest[at + k - 1]
      BY <1>3, <1>5, <1>10, SMTT(40)
    <3> QED
      BY <1>7, <1>8, <3>1
  <2> QED
    BY <2>1, <2>2 DEF ToSet
<1>13. Sorted(L, Q, r)
  <2> SUFFICES ASSUME NEW k \in DOMAIN L, NEW l \in DOMAIN L, k < l, L[k] \in Q, L[l] \in Q
               PROVE  r[L[k]] < r[L[l]]
    BY DEF Sorted
  <2>1. k \in DOMAIN rest /\ l \in DOMAIN rest /\ L[k] = rest[k] /\ L[l] = rest[l]
    BY <1>3, <1>5, <1>9
  <2>2. L[k] \in P /\ L[l] \in P
    BY <1>7, <2>1
  <2> QED
    BY <1>1, <2>1, <2>2 DEF Sorted
<1>14. Sorted(R, Q, r)
  <2> SUFFICES ASSUME NEW k \in DOMAIN R, NEW l \in DOMAIN R, k < l, R[k] \in Q, R[l] \in Q
               PROVE  r[R[k]] < r[R[l]]
    BY DEF Sorted
  <2>1. /\ at + k - 1 \in DOMAIN rest /\ at + l - 1 \in DOMAIN rest /\ at + k - 1 < at + l - 1
        /\ R[k] = rest[at + k - 1] /\ R[l] = rest[at + l - 1]
    <3>1. ASSUME NEW n \in DOMAIN R
          PROVE  at + n - 1 \in DOMAIN rest /\ R[n] = rest[at + n - 1]
      <4>1. n \in 1..(Len(rest) - at + 1)
        BY <1>10
      <4>2. R[n] = rest[at + n - 1]
        BY <1>10, <4>1
      <4> QED
        BY <1>3, <1>5, <4>1, <4>2
    <3>2. at + k - 1 < at + l - 1
      BY <1>3, <1>5, <1>10
    <3> QED
      BY <3>1, <3>2
  <2>2. R[k] \in P /\ R[l] \in P
    BY <1>7, <2>1
  <2> QED
    BY <1>1, <2>1, <2>2 DEF Sorted
<1>15. /\ Nodes(m) \in Seq(Node) /\ Sorted(Nodes(m), Q, r)
       /\ \A x \in M : x \in Node /\ 3 * i < r[x] /\ r[x] <= 3 * i + 2
  BY <1>6, NodesEntries, NodesSorted
<1>16. /\ Below(ToSet(L), M, Q, r) /\ Below(ToSet(L), ToSet(R), Q, r) /\ Below(M, ToSet(R), Q, r)
  <2>1. \A x \in Node : r[x] \in Int
    OBVIOUS
  <2> HIDE DEF M
  <2> QED
    BY <1>12, <1>15, <2>1 DEF Below
<1> HIDE DEF M, Q
<1>17. /\ L \o Nodes(m) \in Seq(Node) /\ ToSet(L \o Nodes(m)) = ToSet(L) \cup M
       /\ Sorted(L \o Nodes(m), Q, r)
  <2>1. M = ToSet(Nodes(m))
    BY DEF M
  <2> QED
    BY <1>9, <1>13, <1>15, <1>16, <2>1, Joined
<1>18. Below(ToSet(L \o Nodes(m)), ToSet(R), Q, r)
  BY <1>16, <1>17 DEF Below
<1>19. /\ (L \o Nodes(m)) \o R \in Seq(Node)
       /\ ToSet((L \o Nodes(m)) \o R) = ToSet(L \o Nodes(m)) \cup ToSet(R)
       /\ Sorted((L \o Nodes(m)) \o R, Q, r)
  <2> DEFINE q == L \o Nodes(m)
  <2>1. q \in Seq(Node) /\ Sorted(q, Q, r) /\ Below(ToSet(q), ToSet(R), Q, r)
    BY <1>17, <1>18
  <2>2. R \in Seq(Node) /\ Sorted(R, Q, r)
    BY <1>10, <1>14
  <2> HIDE DEF q
  <2>3. q \o R \in Seq(Node) /\ ToSet(q \o R) = ToSet(q) \cup ToSet(R) /\ Sorted(q \o R, Q, r)
    BY <2>1, <2>2, Joined, SMTT(40)
  <2> QED
    BY <2>3 DEF q
<1>20. ToSet((L \o Nodes(m)) \o R) = Others(d, m) \cup M
  BY <1>1, <1>11, <1>17, <1>19
<1> QED
  BY <1>2, <1>19, <1>20 DEF M, Q

\* Two sequences of the same nodes that are sorted are the same.
LEMMA SamePrefix ==
  ASSUME NEW d \in Seq(Node), NEW e \in Seq(Node), NEW r \in [Node -> Int], NEW P,
         ToSet(d) = ToSet(e), ToSet(d) \subseteq P, Sorted(d, P, r), Sorted(e, P, r)
  PROVE  Len(d) <= Len(e) /\ \A k \in 1..Len(d) : d[k] = e[k]
<1>1. /\ Len(d) \in Nat /\ Len(e) \in Nat /\ DOMAIN d = 1..Len(d) /\ DOMAIN e = 1..Len(e)
      /\ \A k \in DOMAIN d : d[k] \in Node /\ d[k] \in ToSet(e) /\ d[k] \in P
      /\ \A k \in DOMAIN e : e[k] \in Node /\ e[k] \in ToSet(d) /\ e[k] \in P
  <2>1. \A k \in DOMAIN d : d[k] \in ToSet(d)
    BY DEF ToSet
  <2>2. \A k \in DOMAIN e : e[k] \in ToSet(e)
    BY DEF ToSet
  <2>3. \A k \in DOMAIN d : d[k] \in Node
    OBVIOUS
  <2>4. \A k \in DOMAIN e : e[k] \in Node
    OBVIOUS
  <2> QED
    BY <2>1, <2>2, <2>3, <2>4
<1>2. \A x \in Node : r[x] \in Int
  OBVIOUS
<1> DEFINE Q == {k \in Int : k <= Len(e) /\ \A l \in 1..k : d[l] = e[l]}
<1>3. 0 \in Q
  BY <1>1
<1>4. ASSUME NEW k \in (0 + 1)..Len(d), k - 1 \in Q PROVE k \in Q
  <2>1. k \in DOMAIN d /\ k - 1 <= Len(e) /\ \A l \in 1..(k - 1) : d[l] = e[l]
    BY <1>1, <1>4
  <2>2. PICK m \in DOMAIN e : e[m] = d[k]
    BY <1>1, <2>1 DEF ToSet
  <2>3. m >= k
    <3> SUFFICES ASSUME m < k PROVE FALSE
      BY <1>1, <2>2
    <3>1. m \in 1..(k - 1) /\ m \in DOMAIN d
      BY <1>1, <2>2
    <3>2. r[d[m]] < r[d[k]]
      BY <1>1, <2>1, <3>1 DEF Sorted
    <3> QED
      BY <1>1, <1>2, <2>1, <2>2, <3>1, <3>2
  <2>4. k \in DOMAIN e
    BY <1>1, <2>2, <2>3
  <2>5. PICK n \in DOMAIN d : d[n] = e[k]
    BY <1>1, <2>4 DEF ToSet
  <2>6. n >= k
    <3> SUFFICES ASSUME n < k PROVE FALSE
      BY <1>1, <2>5
    <3>1. n \in 1..(k - 1) /\ n \in DOMAIN e
      BY <1>1, <2>1, <2>4, <2>5, SMTT(40)
    <3>2. r[e[n]] < r[e[k]]
      BY <1>1, <2>4, <3>1 DEF Sorted
    <3> QED
      BY <1>1, <1>2, <2>1, <2>4, <2>5, <3>1, <3>2
  <2>7. n = k
    <3> SUFFICES ASSUME n > k PROVE FALSE
      BY <1>1, <2>5, <2>6
    <3>1. r[d[k]] < r[d[n]]
      BY <1>1, <2>1, <2>5 DEF Sorted
    <3>2. m = k \/ r[e[k]] < r[e[m]]
      <4>1. m = k \/ k < m
        BY <1>1, <2>2, <2>3, <2>4
      <4>2. e[k] \in P /\ e[m] \in P
        BY <1>1, <2>2, <2>4
      <4> QED
        BY <2>2, <2>4, <4>1, <4>2 DEF Sorted
    <3>3. r[e[k]] \in Int /\ r[d[k]] \in Int
      BY <1>1, <1>2, <2>1, <2>4
    <3> QED
      BY <2>2, <2>5, <3>1, <3>2, <3>3
  <2>8. \A l \in 1..k : d[l] = e[l]
    BY <2>1, <2>5, <2>7
  <2> QED
    BY <1>1, <2>4, <2>8
<1>5. \A k \in 0..Len(d) : k \in Q
  <2> HIDE DEF Q
  <2>1. 0 \in Int /\ Len(d) \in Int
    BY <1>1
  <2> QED
    BY <1>3, <1>4, <2>1, Upward
<1>6. Len(d) \in Q
  BY <1>1, <1>5
<1> QED
  BY <1>6

\* What has the same nodes in the same order is the same.
LEMMA SameNodes ==
  ASSUME NEW d \in Seq(Node), NEW e \in Seq(Node), NEW r \in [Node -> Int], NEW P,
         ToSet(d) = ToSet(e), ToSet(d) \subseteq P, Sorted(d, P, r), Sorted(e, P, r)
  PROVE  d = e
<1>1. Len(d) <= Len(e) /\ \A k \in 1..Len(d) : d[k] = e[k]
  BY SamePrefix
<1>2. Len(e) <= Len(d)
  BY SamePrefix
<1> QED
  BY <1>1, <1>2

\* The host nodes of a list of vnodes, each at a slot of its own.
LEMMA NodesOfSorted ==
  ASSUME NEW S, NEW ms \in Seq(S), NEW r \in [Node -> Int], NEW P,
         \A i \in DOMAIN ms : ms[i].id \in Nat /\ At(r, ms[i].id, i)
  PROVE  /\ NodesOf(ms) \in Seq(Node)
         /\ ToSet(NodesOf(ms)) = UNION {ToSet(Nodes(ms[i])) : i \in DOMAIN ms}
         /\ Sorted(NodesOf(ms), P, r)
<1> DEFINE s == [i \in DOMAIN ms |-> Nodes(ms[i])]
<1>1. DOMAIN s = DOMAIN ms /\ \A i \in DOMAIN ms : s[i] = Nodes(ms[i])
  OBVIOUS
<1>2. DOMAIN ms = 1..Len(ms) /\ Len(ms) \in Nat
  OBVIOUS
<1>3. \A i \in 1..Len(ms) : Nodes(ms[i]) \in Seq(Node)
  BY <1>2, NodesEntries
<1>4. s \in Seq(Seq(Node))
  <2>1. s = [i \in 1..Len(ms) |-> Nodes(ms[i])]
    BY <1>2
  <2> HIDE DEF s
  <2> QED
    BY <1>2, <1>3, <2>1
<1> HIDE DEF s
<1>5. InTurn(s, P, r)
  <2>1. \A i \in DOMAIN s : Sorted(s[i], P, r)
    <3> TAKE i \in DOMAIN s
    <3>1. i \in Int /\ ms[i].id \in Nat /\ At(r, ms[i].id, i)
      BY <1>1, <1>2
    <3>2. Sorted(Nodes(ms[i]), P, r)
      BY <3>1, NodesSorted
    <3> QED
      BY <1>1, <3>2
  <2>2. ASSUME NEW i \in DOMAIN s, NEW k \in DOMAIN s, i < k
        PROVE  Below(ToSet(s[i]), ToSet(s[k]), P, r)
    <3>1. /\ i \in Int /\ ms[i].id \in Nat /\ At(r, ms[i].id, i)
          /\ k \in Int /\ ms[k].id \in Nat /\ At(r, ms[k].id, k)
      BY <1>1, <1>2
    <3>2. \A x \in ToSet(Nodes(ms[i])) : r[x] <= 3 * i + 2
      BY <3>1, NodesSorted
    <3>3. \A x \in ToSet(Nodes(ms[k])) : 3 * k < r[x]
      BY <3>1, NodesSorted
    <3>4. \A x \in ToSet(Nodes(ms[i])) : r[x] \in Int
      BY <3>1, NodesEntries
    <3>5. \A x \in ToSet(Nodes(ms[k])) : r[x] \in Int
      BY <3>1, NodesEntries
    <3>6. 3 * i + 2 < 3 * k
      BY <2>2, <3>1
    <3>7. s[i] = Nodes(ms[i]) /\ s[k] = Nodes(ms[k])
      BY <1>1
    <3> QED
      BY <3>1, <3>2, <3>3, <3>4, <3>5, <3>6, <3>7 DEF Below
  <2> QED
    BY <2>1, <2>2 DEF InTurn
<1>6. /\ FlattenSeq(s) \in Seq(Node) /\ Sorted(FlattenSeq(s), P, r)
      /\ ToSet(FlattenSeq(s)) = UNION {ToSet(s[k]) : k \in DOMAIN s}
  BY <1>4, <1>5, Flattened
<1>7. UNION {ToSet(s[k]) : k \in DOMAIN s} = UNION {ToSet(Nodes(ms[i])) : i \in DOMAIN ms}
  BY <1>1
<1>8. NodesOf(ms) = FlattenSeq(s)
  BY DEF NodesOf, s
<1> QED
  BY <1>6, <1>7, <1>8

--------------------------------------------------------------------------------
(* The ids of new children: numbers that no old child has, no two the same.    *)

\* There is a fresh id: the j-th number that no old child has.
LEMMA FreshId ==
  ASSUME NEW S, NEW c1 \in Seq(S), NEW j \in Nat \ {0}
  PROVE  /\ Fresh(c1, j) \in Nat \ {0}
         /\ \A i \in DOMAIN c1 : c1[i].id # Fresh(c1, j)
         /\ Cardinality((1..Fresh(c1, j)) \ {c1[i].id : i \in DOMAIN c1}) = j
<1> DEFINE used == {c1[i].id : i \in DOMAIN c1}
           h(n) == Cardinality((1..n) \ used)
           M == Len(c1) + j
<1>1. Len(c1) \in Nat /\ DOMAIN c1 = 1..Len(c1) /\ M \in Nat
  OBVIOUS
<1>2. IsFiniteSet(used) /\ Cardinality(used) <= Len(c1) /\ Cardinality(used) \in Nat
  <2> DEFINE f == [i \in 1..Len(c1) |-> c1[i].id]
  <2> HIDE DEF h, M
  <2>1. f \in Surjection(1..Len(c1), used)
    BY <1>1 DEF Surjection
  <2>2. IsFiniteSet(1..Len(c1)) /\ Cardinality(1..Len(c1)) = Len(c1)
    BY <1>1, FS_Interval, SMTT(40)
  <2> HIDE DEF f, used
  <2> QED
    BY <2>1, <2>2, FS_Surjection, FS_CardinalityType
<1> HIDE DEF used
<1>3. \A n \in Nat : IsFiniteSet(1..n) /\ Cardinality(1..n) = n
  BY FS_Interval
<1>4. \A n \in Nat : IsFiniteSet((1..n) \ used) /\ h(n) \in Nat
  BY <1>3, FS_Difference, FS_CardinalityType
<1>5. h(0) = 0
  <2>1. (1..0) \ used = {}
    OBVIOUS
  <2> QED
    BY <2>1, FS_EmptySet
<1>6. ASSUME NEW n \in Nat
      PROVE  h(n + 1) = IF n + 1 \in used THEN h(n) ELSE h(n) + 1
  <2>1. CASE n + 1 \in used
    <3>1. (1..(n + 1)) \ used = (1..n) \ used
      BY <2>1
    <3> QED
      BY <2>1, <3>1
  <2>2. CASE n + 1 \notin used
    <3>1. (1..(n + 1)) \ used = ((1..n) \ used) \cup {n + 1} /\ n + 1 \notin (1..n) \ used
      BY <2>2
    <3> QED
      BY <1>4, <2>2, <3>1, FS_AddElement
  <2> QED
    BY <2>1, <2>2
<1>7. h(M) >= j
  <2>1. h(M) = M - Cardinality((1..M) \cap used)
    BY <1>1, <1>3, FS_Difference
  <2>2. Cardinality((1..M) \cap used) <= Cardinality(used)
    BY <1>2, FS_Intersection
  <2>3. Cardinality((1..M) \cap used) \in Nat
    BY <1>2, FS_Intersection, FS_CardinalityType
  <2> QED
    BY <1>1, <1>2, <2>1, <2>2, <2>3
<1> DEFINE D == {n \in Nat : h(n) >= j}
<1>8. PICK n \in D : \A i \in D : n <= i
  <2>1. M \in D /\ D \in SUBSET Nat
    BY <1>1, <1>7
  <2> HIDE DEF D, h, M
  <2>2. PICK n \in D : \A i \in D : << i, n >> \notin OpToRel(<, Nat)
    BY <2>1, WFMin, NatLessThanWellFounded, Zenon
  <2>3. \A i \in D : ~(i < n)
    BY <2>1, <2>2, Zenon DEF OpToRel
  <2>4. n \in Nat /\ \A i \in D : i \in Nat
    BY <2>1, <2>2, Zenon
  <2>5. \A i \in D : n <= i
    BY <2>3, <2>4
  <2> QED
    BY <2>2, <2>5, Zenon
<1>9. n \in Nat /\ h(n) >= j /\ n <= M
  BY <1>1, <1>7, <1>8
<1> HIDE DEF h
<1>10. n # 0
  BY <1>5, <1>9
<1>11. n - 1 \in Nat /\ h(n - 1) < j /\ (n - 1) + 1 = n
  <2>1. n - 1 \in Nat /\ n - 1 \notin D /\ (n - 1) + 1 = n
    BY <1>8, <1>9, <1>10
  <2>2. h(n - 1) \in Nat /\ ~(h(n - 1) >= j)
    BY <1>4, <2>1 DEF h
  <2> QED
    BY <2>1, <2>2
<1>12. n \notin used /\ h(n) = j
  <2>1. h(n) = IF n \in used THEN h(n - 1) ELSE h(n - 1) + 1
    BY <1>6, <1>11
  <2>2. h(n - 1) \in Nat
    BY <1>4, <1>11 DEF h
  <2> QED
    BY <1>9, <1>11, <2>1, <2>2
<1>13. \E k \in 1..M : k \notin used /\ Cardinality((1..k) \ used) = j
  <2>1. n \in 1..M
    BY <1>1, <1>9, <1>10
  <2> QED
    BY <1>12, <2>1 DEF h
<1>14. Fresh(c1, j) = CHOOSE k \in 1..M : k \notin used /\ Cardinality((1..k) \ used) = j
  BY DEF Fresh, used
<1>15. Fresh(c1, j) \in 1..M /\ Fresh(c1, j) \notin used
       /\ Cardinality((1..Fresh(c1, j)) \ used) = j
  <2> HIDE DEF M
  <2> QED
    BY <1>13, <1>14, Zenon
<1> QED
  BY <1>1, <1>15 DEF used

LEMMA FreshDiffers ==
  ASSUME NEW S, NEW c1 \in Seq(S), NEW j \in Nat \ {0}, NEW k \in Nat \ {0},
         Fresh(c1, j) = Fresh(c1, k)
  PROVE  j = k
<1>1. Cardinality((1..Fresh(c1, j)) \ {c1[i].id : i \in DOMAIN c1}) = j
  BY FreshId
<1>2. Cardinality((1..Fresh(c1, k)) \ {c1[i].id : i \in DOMAIN c1}) = k
  BY FreshId
<1> QED
  BY <1>1, <1>2, Zenon

\* Children whose ids differ are as many as their ids.
LEMMA IdsCounted ==
  ASSUME NEW S, NEW ms \in Seq(S), \A i, j \in DOMAIN ms : ms[i].id = ms[j].id => i = j
  PROVE  Cardinality({ms[i].id : i \in DOMAIN ms}) = Len(ms)
<1> DEFINE X == {ms[i].id : i \in DOMAIN ms}
           f == [i \in 1..Len(ms) |-> ms[i].id]
<1>1. DOMAIN ms = 1..Len(ms) /\ Len(ms) \in Nat
  OBVIOUS
<1>2. f \in Surjection(1..Len(ms), X)
  BY <1>1 DEF Surjection
<1>3. f \in Injection(1..Len(ms), X)
  BY <1>1, <1>2 DEF Injection, IsInjective, Surjection
<1>4. IsFiniteSet(1..Len(ms)) /\ Cardinality(1..Len(ms)) = Len(ms)
  BY <1>1, FS_Interval
<1> HIDE DEF X, f
<1>5. Cardinality(X) = Cardinality(1..Len(ms))
  BY <1>2, <1>3, <1>4, FS_Surjection
<1> QED
  BY <1>4, <1>5 DEF X

--------------------------------------------------------------------------------
(* Rows: vnodes at slots, whose host nodes are in that order among the nodes   *)
(* of the container, after and before its siblings W if it has any.            *)

Child == [key : Keys \cup {NoKey}, type : Types]
Mounted == [key : Keys \cup {NoKey}, type : Types, id : Nat \ {0}]
Parts(v) == ToSet(Nodes(v))
RowNodes(o, W) == W \cup UNION {Parts(o[i]) : i \in DOMAIN o}
Ranks(r, o, W, n) ==
  /\ \A i \in DOMAIN o : At(r, o[i].id, i)
  /\ W # {} => r[Before] = 0 /\ r[After] = 3 * n + 3
Slotted(o, n) ==
  /\ DOMAIN o \subseteq 1..n
  /\ \A i \in DOMAIN o : o[i] \in Mounted
  /\ \A i, k \in DOMAIN o : o[i].id = o[k].id => i = k
\* There are no other nodes.
Alone(d, o, W) == ToSet(d) = RowNodes(o, W)
Siblings == {{}, {Before, After}}
Row(d, o, W, n) ==
  /\ d \in Seq(Node) /\ Slotted(o, n) /\ RowNodes(o, W) \subseteq ToSet(d)
  /\ \E r \in [Node -> Int] : Ranks(r, o, W, n) /\ Sorted(d, RowNodes(o, W), r)

LEMMA WrapNodes ==
  /\ Before \in Node /\ After \in Node /\ Before # After
  /\ Before[1] = 0 /\ After[1] = 0
  /\ << >> \notin Node
BY DEF Before, After, Node

Outer(x, r, n) ==
  x[1] = 0 /\ ((x = Before /\ r[x] = 0) \/ (x = After /\ r[x] = 3 * n + 3))
LEMMA RankOf ==
  ASSUME NEW o, NEW n \in Nat, Slotted(o, n), NEW W \in Siblings, NEW r \in [Node -> Int],
         Ranks(r, o, W, n), NEW x \in RowNodes(o, W)
  PROVE  /\ x \in Node /\ r[x] \in Int
         /\ \/ Outer(x, r, n)
            \/ \E i \in DOMAIN o : /\ x \in Parts(o[i]) /\ x[1] = o[i].id
                                   /\ 3 * i < r[x] /\ r[x] <= 3 * i + 2
<1>1. CASE x \in W
  <2>1. W = {Before, After} /\ W # {} /\ (x = Before \/ x = After)
    BY <1>1 DEF Siblings
  <2>2. r[Before] = 0 /\ r[After] = 3 * n + 3
    BY <2>1 DEF Ranks
  <2>3. x \in Node /\ x[1] = 0
    BY <2>1, WrapNodes
  <2>4. r[x] \in Int
    BY <2>3
  <2>5. Outer(x, r, n)
    BY <2>1, <2>2, <2>3 DEF Outer
  <2> QED
    BY <2>3, <2>4, <2>5
<1>2. CASE x \notin W
  <2>1. PICK i \in DOMAIN o : x \in Parts(o[i])
    BY <1>2 DEF RowNodes
  <2>2. o[i].id \in Nat /\ At(r, o[i].id, i) /\ i \in Int
    BY DEF Slotted, Mounted, Ranks
  <2>3. x[1] = o[i].id /\ x \in Node
    BY <2>1, <2>2, NodesEntries DEF Parts
  <2>4. 3 * i < r[x] /\ r[x] <= 3 * i + 2
    BY <2>1, <2>2, NodesSorted DEF Parts
  <2>5. r[x] \in Int
    BY <2>3
  <2> QED
    BY <2>1, <2>3, <2>4, <2>5
<1> QED
  BY <1>1, <1>2

\* Vnodes with ids of their own have ranks.
LEMMA RanksExist ==
  ASSUME NEW o, NEW n \in Nat, Slotted(o, n), NEW W \in Siblings
  PROVE  \E r \in [Node -> Int] : Ranks(r, o, W, n)
<1> DEFINE slot(id) == IF \E i \in DOMAIN o : o[i].id = id
                       THEN CHOOSE i \in DOMAIN o : o[i].id = id ELSE 0
           r == [x \in Node |-> IF x = Before THEN 0 ELSE IF x = After THEN 3 * n + 3
                                ELSE 3 * slot(x[1]) + x[2]]
<1>1. \A id : slot(id) \in Int
  <2> TAKE id
  <2>1. CASE \E i \in DOMAIN o : o[i].id = id
    <3>1. slot(id) \in DOMAIN o
      BY <2>1
    <3> QED
      BY <3>1 DEF Slotted
  <2>2. CASE ~ \E i \in DOMAIN o : o[i].id = id
    BY <2>2
  <2> QED
    BY <2>1, <2>2
<1>2. \A i \in DOMAIN o : slot(o[i].id) = i
  <2> TAKE i \in DOMAIN o
  <2>1. slot(o[i].id) \in DOMAIN o /\ o[slot(o[i].id)].id = o[i].id
    OBVIOUS
  <2> QED
    BY <2>1 DEF Slotted
<1> HIDE DEF slot
<1>3. r \in [Node -> Int]
  <2>1. \A x \in Node : x[2] \in Int
    BY DEF Node
  <2> QED
    BY <1>1, <2>1
<1>4. ASSUME NEW i \in DOMAIN o PROVE At(r, o[i].id, i)
  <2>1. o[i].id \in Nat \ {0} /\ i \in Int
    BY DEF Slotted, Mounted
  <2>2. /\ << o[i].id, 1 >> \in Node /\ << o[i].id, 2 >> \in Node
        /\ << o[i].id, 1 >> # Before /\ << o[i].id, 1 >> # After
        /\ << o[i].id, 2 >> # Before /\ << o[i].id, 2 >> # After
    BY <2>1 DEF Node, Before, After
  <2> QED
    BY <1>2, <2>1, <2>2 DEF At
<1>5. r[Before] = 0 /\ r[After] = 3 * n + 3
  BY WrapNodes
<1> HIDE DEF r
<1> QED
  BY <1>3, <1>4, <1>5 DEF Ranks

\* A sequence that is sorted for some nodes is so for fewer, and for ranks that
\* give these the same order.
LEMMA SortedLess ==
  ASSUME NEW d \in Seq(Node), NEW P, NEW Q, NEW r \in [Node -> Int], NEW e \in [Node -> Int],
         Sorted(d, P, r), Q \cap ToSet(d) \subseteq P,
         \A x, y \in Q \cap ToSet(d) : r[x] < r[y] => e[x] < e[y]
  PROVE  Sorted(d, Q, e)
<1>1. \A k \in DOMAIN d : d[k] \in ToSet(d)
  BY DEF ToSet
<1> QED
  BY <1>1 DEF Sorted

\* A vnode that leaves the container leaves the row.
LeftOut(o, i) == [k \in DOMAIN o \ {i} |-> o[k]]
\* A row goes on without the vnode that is removed from it, ...
LEMMA RowRemove ==
  ASSUME NEW d, NEW o, NEW W \in Siblings, NEW n \in Nat, Row(d, o, W, n), NEW i \in DOMAIN o
  PROVE  /\ Row(RemoveNodes(d, o[i]), LeftOut(o, i), W, n)
         /\ ToSet(RemoveNodes(d, o[i])) = Others(d, o[i])
<1> DEFINE q == LeftOut(o, i)
           e == RemoveNodes(d, o[i])
<1>1. PICK r \in [Node -> Int] : Ranks(r, o, W, n) /\ Sorted(d, RowNodes(o, W), r)
  BY DEF Row
<1>2. d \in Seq(Node) /\ Slotted(o, n) /\ RowNodes(o, W) \subseteq ToSet(d)
  BY DEF Row
<1>3. /\ e \in Seq(Node) /\ ToSet(e) = Others(d, o[i]) /\ Sorted(e, RowNodes(o, W), r)
  BY <1>1, <1>2, Removed
<1>4. DOMAIN q = DOMAIN o \ {i} /\ \A k \in DOMAIN q : q[k] = o[k]
  BY DEF LeftOut
<1> HIDE DEF q, e
<1>5. Slotted(q, n)
  BY <1>2, <1>4 DEF Slotted
<1>6. Ranks(r, q, W, n)
  BY <1>1, <1>4 DEF Ranks
<1>7. RowNodes(q, W) \subseteq RowNodes(o, W)
  BY <1>4 DEF RowNodes
<1>8. RowNodes(q, W) \subseteq ToSet(e)
  <2> SUFFICES ASSUME NEW x \in RowNodes(q, W) PROVE x \in ToSet(e)
    OBVIOUS
  <2>1. x \in ToSet(d)
    BY <1>2, <1>7
  <2>2. x[1] # o[i].id
    <3>1. o[i].id \in Nat \ {0}
      BY <1>2 DEF Slotted, Mounted
    <3>2. x[1] = 0 \/ \E k \in DOMAIN q : x[1] = q[k].id
      BY <1>5, <1>6, RankOf DEF Outer
    <3>3. \A k \in DOMAIN q : q[k].id # o[i].id
      BY <1>2, <1>4 DEF Slotted
    <3> QED
      BY <3>1, <3>2, <3>3
  <2> QED
    BY <1>3, <2>1, <2>2 DEF Others
<1>9. Sorted(e, RowNodes(q, W), r)
  BY <1>3, <1>7 DEF Sorted
<1>10. Row(e, q, W, n)
  BY <1>3, <1>5, <1>6, <1>8, <1>9 DEF Row
<1> QED
  BY <1>3, <1>10 DEF q, e

\* A vnode that is inserted where its slot is enters the row.
PutIn(o, i, v) == [k \in DOMAIN o \cup {i} |-> IF k = i THEN v ELSE o[k]]
Precedes(d, o, W, n, v, i, anchor) ==
  \A r \in [Node -> Int] :
    Ranks(r, o, W, n) /\ Sorted(d, RowNodes(o, W), r)
    => Follows(anchor, Others(d, v), RowNodes(o, W), r, i)
\* and with the one that is inserted at a slot of its own.
LEMMA RowInsert ==
  ASSUME NEW d, NEW o, NEW W \in Siblings, NEW n \in Nat, Row(d, o, W, n),
         NEW i \in 1..n, i \notin DOMAIN o, NEW v \in Mounted,
         \A k \in DOMAIN o : o[k].id # v.id, NEW anchor, Precedes(d, o, W, n, v, i, anchor)
  PROVE  /\ Row(InsertNodes(d, v, anchor), PutIn(o, i, v), W, n)
         /\ ToSet(InsertNodes(d, v, anchor)) = Others(d, v) \cup Parts(v)
<1> DEFINE q == PutIn(o, i, v)
           e == InsertNodes(d, v, anchor)
           P == RowNodes(o, W)
<1>1. PICK s \in [Node -> Int] : Ranks(s, o, W, n) /\ Sorted(d, P, s)
  BY DEF Row
<1>2. d \in Seq(Node) /\ Slotted(o, n) /\ P \subseteq ToSet(d)
  BY DEF Row
<1>3. v.id \in Nat \ {0} /\ << v.id, 1 >> \in Node /\ << v.id, 2 >> \in Node /\ i \in Int
  BY DEF Mounted, Node
<1> DEFINE r == [s EXCEPT ![<< v.id, 1 >>] = 3 * i + 1, ![<< v.id, 2 >>] = 3 * i + 2]
<1>4. /\ r \in [Node -> Int]
      /\ r[<< v.id, 1 >>] = 3 * i + 1 /\ r[<< v.id, 2 >>] = 3 * i + 2
      /\ \A x \in Node : x[1] # v.id => r[x] = s[x]
  BY <1>3
<1> HIDE DEF r
<1>5. \A x \in P : x \in Node /\ x[1] # v.id /\ r[x] = s[x]
  <2> TAKE x \in P
  <2>1. x \in Node /\ (x[1] = 0 \/ \E k \in DOMAIN o : x[1] = o[k].id)
    BY <1>1, <1>2, RankOf DEF Outer
  <2>2. x[1] # v.id
    BY <1>3, <2>1
  <2> QED
    BY <1>4, <2>1, <2>2
<1>6. At(r, v.id, i)
  BY <1>4 DEF At
<1>7. Ranks(r, o, W, n)
  <2>1. ASSUME NEW k \in DOMAIN o PROVE At(r, o[k].id, k)
    <3>1. << o[k].id, 1 >> \in Node /\ << o[k].id, 2 >> \in Node /\ o[k].id # v.id
      BY <1>2 DEF Slotted, Mounted, Node
    <3>2. At(s, o[k].id, k)
      BY <1>1 DEF Ranks
    <3> QED
      BY <1>4, <3>1, <3>2 DEF At
  <2>2. r[Before] = s[Before] /\ r[After] = s[After]
    BY <1>3, <1>4, WrapNodes
  <2> QED
    BY <1>1, <2>1, <2>2 DEF Ranks
<1>8. Sorted(d, P, r)
  BY <1>1, <1>5 DEF Sorted
<1>9. Follows(anchor, Others(d, v), P, r, i)
  BY <1>4, <1>7, <1>8 DEF Precedes
<1>10. /\ e \in Seq(Node) /\ ToSet(e) = Others(d, v) \cup Parts(v)
       /\ Sorted(e, P \cup Parts(v), r)
  <2>1. v.id \in Nat /\ i \in Int /\ d \in Seq(Node) /\ r \in [Node -> Int]
    BY <1>2, <1>3, <1>4
  <2> HIDE DEF P
  <2> QED
    BY <1>6, <1>8, <1>9, <2>1, Inserted, ZenonT(60) DEF Parts
<1>11. DOMAIN q = DOMAIN o \cup {i} /\ q[i] = v /\ \A k \in DOMAIN o : q[k] = o[k]
  BY DEF PutIn
<1> HIDE DEF q, e
<1>12. Slotted(q, n)
  BY <1>2, <1>11 DEF Slotted
<1>13. Ranks(r, q, W, n)
  BY <1>6, <1>7, <1>11 DEF Ranks
<1>14. RowNodes(q, W) = P \cup Parts(v)
  BY <1>11 DEF RowNodes
<1>15. RowNodes(q, W) \subseteq ToSet(e)
  BY <1>2, <1>5, <1>10, <1>14 DEF Others
<1>16. Row(e, q, W, n)
  BY <1>4, <1>10, <1>12, <1>13, <1>14, <1>15 DEF Row
<1> QED
  BY <1>10, <1>16 DEF q, e

\* The node that follows in the row: the first one of the next vnode, else the
\* sibling after the row, else none.
Next1(o, W, i, anchor) ==
  \/ \E k \in DOMAIN o : /\ k > i /\ anchor = el(o[k])
                         /\ \A l \in DOMAIN o : l > i => l >= k
  \/ /\ \A l \in DOMAIN o : l <= i
     /\ anchor = IF W = {} THEN << >> ELSE After
\* The node of the next slot is the anchor for a slot.
LEMMA NextPrecedes ==
  ASSUME NEW d, NEW o, NEW W \in Siblings, NEW n \in Nat, Row(d, o, W, n),
         NEW i \in 1..n, i \notin DOMAIN o, NEW v \in Mounted,
         \A k \in DOMAIN o : o[k].id # v.id, NEW anchor, Next1(o, W, i, anchor)
  PROVE  Precedes(d, o, W, n, v, i, anchor)
<1> DEFINE P == RowNodes(o, W)
           X == Others(d, v)
<1> SUFFICES ASSUME NEW r \in [Node -> Int], Ranks(r, o, W, n) PROVE Follows(anchor, X, P, r, i)
  BY DEF Precedes
<1>1. Slotted(o, n) /\ d \in Seq(Node) /\ P \subseteq ToSet(d) /\ v.id \in Nat \ {0}
  BY DEF Row, Mounted
<1>2. ASSUME NEW x \in P
      PROVE  /\ x \in X /\ r[x] \in Int
             /\ \/ x = Before /\ r[x] = 0
                \/ x = After /\ r[x] = 3 * n + 3
                \/ \E k \in DOMAIN o : 3 * k < r[x] /\ r[x] <= 3 * k + 2
  <2>1. /\ r[x] \in Int
        /\ \/ Outer(x, r, n)
           \/ \E k \in DOMAIN o : x[1] = o[k].id /\ 3 * k < r[x] /\ r[x] <= 3 * k + 2
    BY <1>1, RankOf
  <2>2. x[1] # v.id
    BY <1>1, <2>1 DEF Outer
  <2>3. x \in X
    BY <1>1, <2>2 DEF Others
  <2> HIDE DEF X, P
  <2> QED
    BY <2>1, <2>3 DEF Outer
<1>3. \A k \in DOMAIN o : k \in 1..n /\ k # i
  BY <1>1 DEF Slotted
<1>4. ASSUME NEW k \in DOMAIN o, k > i, anchor = el(o[k]), \A l \in DOMAIN o : l > i => l >= k
      PROVE  Follows(anchor, X, P, r, i)
  <2>1. anchor \in P /\ r[anchor] = 3 * k + 1
    <3>1. o[k].id \in Nat /\ At(r, o[k].id, k)
      BY <1>1 DEF Slotted, Mounted, Ranks
    <3>2. anchor \in Parts(o[k])
      BY <1>4, <3>1, NodesEntries DEF el, Parts
    <3>3. anchor \in P
      BY <3>2 DEF RowNodes
    <3> QED
      BY <1>4, <3>1, <3>3 DEF el, At
  <2>2. ASSUME NEW x \in P, r[x] < r[anchor] PROVE r[x] <= 3 * i
    <3>1. r[x] < 3 * k + 1
      BY <2>1, <2>2
    <3>2. CASE x = Before /\ r[x] = 0
      BY <3>2
    <3>3. CASE x = After /\ r[x] = 3 * n + 3
      BY <1>3, <3>1, <3>3
    <3>4. ASSUME NEW l \in DOMAIN o, 3 * l < r[x], r[x] <= 3 * l + 2 PROVE r[x] <= 3 * i
      <4>1. (l < k + 1 /\ l # k) \/ (l = k /\ r[x] < 3 * k + 1)
        BY <1>2, <1>3, <3>1, <3>4
      <4>2. l # k
        BY <1>2, <1>3, <3>1, <3>4
      <4>3. ~(l > i)
        BY <1>3, <1>4, <4>1, <4>2
      <4>4. l <= i - 1
        BY <1>3, <4>3
      <4> QED
        BY <1>2, <1>3, <3>4, <4>4
    <3> QED
      BY <1>2, <3>2, <3>3, <3>4
  <2>3. r[anchor] > 3 * i + 2
    BY <1>3, <1>4, <2>1
  <2>4. anchor \in X
    BY <1>2, <2>1
  <2> HIDE DEF X, P
  <2> QED
    BY <2>1, <2>2, <2>3, <2>4 DEF Follows
<1>5. ASSUME \A l \in DOMAIN o : l <= i, NEW x \in P, r[x] # 3 * n + 3 \/ x # After
      PROVE  r[x] <= 3 * i
  <2>1. CASE x = Before /\ r[x] = 0
    BY <2>1
  <2>2. CASE x = After /\ r[x] = 3 * n + 3
    BY <1>5, <2>2
  <2>3. ASSUME NEW l \in DOMAIN o, r[x] <= 3 * l + 2 PROVE r[x] <= 3 * i
    <3>1. l <= i - 1
      BY <1>3, <1>5
    <3> QED
      BY <1>2, <1>3, <2>3, <3>1
  <2> QED
    BY <1>2, <2>1, <2>2, <2>3
<1>6. ASSUME \A l \in DOMAIN o : l <= i, anchor = IF W = {} THEN << >> ELSE After
      PROVE  Follows(anchor, X, P, r, i)
  <2>1. CASE W = {}
    <3>1. anchor \notin X
      <4>1. \A x \in X : x \in Node
        BY <1>1 DEF Others, ToSet
      <4> QED
        BY <1>6, <2>1, <4>1, WrapNodes
    <3>2. \A x \in P : x # After
      <4> TAKE x \in P
      <4>1. PICK k \in DOMAIN o : x \in Parts(o[k])
        BY <2>1 DEF RowNodes
      <4>2. o[k].id \in Nat \ {0} /\ x[1] = o[k].id
        BY <1>1, <4>1, NodesEntries DEF Slotted, Mounted, Parts
      <4> QED
        BY <4>2, WrapNodes
    <3> HIDE DEF X, P
    <3> QED
      BY <1>5, <1>6, <3>1, <3>2 DEF Follows
  <2>2. CASE W # {}
    <3>1. anchor = After /\ After \in P /\ r[After] = 3 * n + 3
      BY <1>6, <2>2 DEF Siblings, RowNodes, Ranks
    <3>2. anchor \in X /\ r[anchor] > 3 * i + 2
      BY <1>2, <3>1
    <3>3. \A x \in P : r[x] < r[anchor] => r[x] # 3 * n + 3
      BY <1>2, <3>1
    <3> HIDE DEF X, P
    <3> QED
      BY <1>5, <1>6, <3>1, <3>2, <3>3 DEF Follows
  <2> QED
    BY <2>1, <2>2
<1> QED
  BY <1>4, <1>6 DEF Next1

\* The node that follows the nodes of a vnode of a row that is alone in the
\* container: where the vnode was removed, the anchor keeps its slot.
LEMMA NextHostPrecedes ==
  ASSUME NEW d, NEW o, NEW W \in Siblings, NEW n \in Nat, Row(d, o, W, n),
         Alone(d, o, W), NEW i \in DOMAIN o, NEW v \in Mounted,
         \A k \in DOMAIN o : o[k].id # v.id
  PROVE  Precedes(RemoveNodes(d, o[i]), LeftOut(o, i), W, n, v, i, NextHostNode(d, o[i]))
<1> DEFINE q == LeftOut(o, i)
           e == RemoveNodes(d, o[i])
           P == RowNodes(q, W)
           X == Others(e, v)
           anchor == NextHostNode(d, o[i])
           last == Last(Nodes(o[i]))
<1>1. Slotted(o, n) /\ d \in Seq(Node) /\ v.id \in Nat \ {0} /\ i \in 1..n /\ o[i].id \in Nat \ {0}
  BY DEF Row, Mounted, Slotted
<1>2. /\ ToSet(e) = Others(d, o[i])
      /\ DOMAIN q = DOMAIN o \ {i} /\ \A k \in DOMAIN o \ {i} : q[k] = o[k]
  <2> HIDE DEF q, e
  <2>1. ToSet(RemoveNodes(d, o[i])) = Others(d, o[i])
    BY RowRemove
  <2>2. DOMAIN q = DOMAIN o \ {i} /\ \A k \in DOMAIN o \ {i} : q[k] = o[k]
    BY DEF q, LeftOut
  <2> QED
    BY <2>1, <2>2 DEF e
<1>3. PICK s \in [Node -> Int] : Ranks(s, o, W, n) /\ Sorted(d, ToSet(d), s)
  BY DEF Row, Alone
<1> SUFFICES ASSUME NEW r \in [Node -> Int], Ranks(r, q, W, n) PROVE Follows(anchor, X, P, r, i)
  BY DEF Precedes
<1> HIDE DEF q, e
\* The ranks of the two rows agree.
<1>4. Slotted(q, n)
  BY <1>1, <1>2 DEF Slotted
<1>5. ASSUME NEW x \in P
      PROVE  /\ x \in Node /\ r[x] = s[x] /\ r[x] \in Int
             /\ x \in ToSet(d) /\ x[1] # o[i].id /\ x \in X
             /\ r[x] <= 3 * i \/ r[x] > 3 * i + 2
  <2>1. /\ x \in Node /\ r[x] \in Int
        /\ \/ Outer(x, r, n)
           \/ \E k \in DOMAIN q : x \in Parts(q[k]) /\ x[1] = q[k].id
                                  /\ 3 * k < r[x] /\ r[x] <= 3 * k + 2
    BY <1>4, RankOf
  <2>2. x \in RowNodes(o, W)
    BY <1>2 DEF RowNodes
  <2>3. x[1] # o[i].id /\ x[1] # v.id
    <3>1. \A k \in DOMAIN q : q[k].id # o[i].id /\ q[k].id # v.id
      BY <1>1, <1>2 DEF Slotted
    <3> QED
      BY <1>1, <2>1, <3>1 DEF Outer
  <2>4. x \in X
    BY <1>2, <2>2, <2>3 DEF Others, Alone
  <2>5. r[x] <= 3 * i \/ r[x] > 3 * i + 2
    <3>1. CASE Outer(x, r, n)
      BY <1>1, <3>1 DEF Outer
    <3>2. ASSUME NEW k \in DOMAIN q, 3 * k < r[x], r[x] <= 3 * k + 2
          PROVE  r[x] <= 3 * i \/ r[x] > 3 * i + 2
      <4>1. k \in 1..n /\ k # i
        BY <1>2, <1>4 DEF Slotted
      <4>2. k <= i - 1 \/ k >= i + 1
        BY <1>1, <4>1
      <4> QED
        BY <1>1, <2>1, <3>2, <4>1, <4>2
    <3> QED
      BY <2>1, <3>1, <3>2
  <2>6. r[x] = s[x]
    <3>1. CASE Outer(x, r, n)
      <4>1. x \in W
        <5>1. \A k \in DOMAIN q : x \in Parts(q[k]) => x[1] = q[k].id /\ q[k].id # 0
          BY <1>4, NodesEntries DEF Slotted, Mounted, Parts
        <5> QED
          BY <3>1, <5>1 DEF RowNodes, Outer
      <4>2. W = {Before, After} /\ W # {}
        BY <4>1 DEF Siblings
      <4> QED
        BY <1>3, <3>1, <4>1, <4>2 DEF Ranks, Outer
    <3>2. ASSUME NEW k \in DOMAIN q, x \in Parts(q[k]) PROVE r[x] = s[x]
      <4>1. k \in DOMAIN o /\ q[k] = o[k] /\ o[k].id \in Nat
        BY <1>1, <1>2 DEF Slotted, Mounted
      <4>2. At(r, o[k].id, k) /\ At(s, o[k].id, k)
        BY <1>3, <4>1 DEF Ranks
      <4>3. x = << o[k].id, 1 >> \/ x = << o[k].id, 2 >>
        BY <3>2, <4>1, NodesEntries DEF Parts
      <4> QED
        BY <4>2, <4>3 DEF At
    <3> QED
      BY <2>1, <3>1, <3>2
  <2>7. x \in ToSet(d)
    BY <2>2 DEF Alone
  <2> HIDE DEF X, P
  <2> QED
    BY <2>1, <2>3, <2>4, <2>5, <2>6, <2>7
\* The last node of the vnode, and the one that follows it.
<1>6. /\ Parts(o[i]) \subseteq ToSet(d)
      /\ \A x \in Parts(o[i]) : s[x] \in Int /\ s[x] <= s[last]
      /\ last \in Parts(o[i]) /\ last[1] = o[i].id /\ s[last] \in {3 * i + 1, 3 * i + 2}
  <2>1. Parts(o[i]) \subseteq ToSet(d)
    BY DEF RowNodes, Alone
  <2>2. s[<< o[i].id, 1 >>] = 3 * i + 1 /\ s[<< o[i].id, 2 >>] = 3 * i + 2
    BY <1>3 DEF Ranks, At
  <2>3. CASE o[i].type \in Fragments
    <3>1. Parts(o[i]) = {<< o[i].id, 1 >>, << o[i].id, 2 >>}
      BY <1>1, <2>3, NodesEntries DEF Parts
    <3>2. last = << o[i].id, 2 >>
      BY <2>3 DEF Nodes, Last
    <3> HIDE DEF last
    <3> QED
      BY <1>1, <2>1, <2>2, <3>1, <3>2
  <2>4. CASE o[i].type \notin Fragments
    <3>1. Parts(o[i]) = {<< o[i].id, 1 >>}
      BY <1>1, <2>4, NodesEntries DEF Parts
    <3>2. last = << o[i].id, 1 >>
      BY <2>4 DEF Nodes, Last
    <3> HIDE DEF last
    <3> QED
      BY <1>1, <2>1, <2>2, <3>1, <3>2
  <2> QED
    BY <2>3, <2>4
<1> HIDE DEF last
<1> DEFINE k == CHOOSE k \in DOMAIN d : d[k] = last
<1>7. k \in DOMAIN d /\ d[k] = last
  <2>1. \E l \in DOMAIN d : d[l] = last
    BY <1>6 DEF ToSet
  <2> QED
    BY <2>1
<1>8. anchor = IF k = Len(d) THEN << >> ELSE d[k + 1]
  BY DEF NextHostNode, last
<1> HIDE DEF k, anchor
<1>9. DOMAIN d = 1..Len(d) /\ Len(d) \in Nat /\ \A l \in DOMAIN d : d[l] \in ToSet(d)
  BY <1>1 DEF ToSet
<1>10. ASSUME NEW x \in P PROVE \E l \in DOMAIN d : d[l] = x /\ l # k
  <2>1. PICK l \in DOMAIN d : d[l] = x
    BY <1>5 DEF ToSet
  <2> QED
    BY <1>5, <1>6, <1>7, <2>1
<1> HIDE DEF P, X
\* Nodes before it are of lower slots.
<1>11. ASSUME NEW l \in DOMAIN d, l < k, d[l] \in P PROVE r[d[l]] <= 3 * i
  <2>1. s[d[l]] < s[last]
    BY <1>3, <1>7, <1>9, <1>11 DEF Sorted
  <2> QED
    BY <1>1, <1>5, <1>6, <1>11, <2>1, SMTT(40)
<1>12. CASE k = Len(d)
  <2>1. \A x \in P : r[x] <= 3 * i
    <3> TAKE x \in P
    <3>1. PICK l \in DOMAIN d : d[l] = x /\ l # k
      BY <1>10
    <3>2. l < k
      BY <1>7, <1>9, <1>12, <3>1
    <3> QED
      BY <1>11, <3>1, <3>2
  <2>2. anchor \notin X
    <3>1. \A x \in X : x \in Node
      BY <1>1, <1>2 DEF X, Others, ToSet
    <3> QED
      BY <1>8, <1>12, <3>1, WrapNodes
  <2> QED
    BY <2>1, <2>2 DEF Follows
<1>13. CASE k # Len(d)
  <2>1. k + 1 \in DOMAIN d /\ anchor = d[k + 1] /\ k < k + 1
    BY <1>7, <1>8, <1>9, <1>13
  <2>2. s[last] < s[anchor]
    BY <1>3, <1>7, <1>9, <2>1 DEF Sorted
  <2>3. anchor \in P
    <3>1. anchor \in RowNodes(o, W)
      BY <1>9, <2>1 DEF Alone
    <3>2. anchor \notin Parts(o[i])
      <4>1. s[anchor] \in Int
        BY <1>1, <1>3, <3>1, RankOf
      <4> QED
        BY <1>6, <2>2, <4>1
    <3> QED
      BY <1>2, <3>1, <3>2 DEF P, RowNodes
  <2>4. r[anchor] > 3 * i + 2
    BY <1>1, <1>5, <1>6, <2>2, <2>3
  <2>5. ASSUME NEW x \in P, r[x] < r[anchor] PROVE r[x] <= 3 * i
    <3>1. PICK l \in DOMAIN d : d[l] = x /\ l # k
      BY <1>10
    <3>2. ~(l > k + 1)
      <4> SUFFICES ASSUME l > k + 1 PROVE FALSE
        OBVIOUS
      <4>1. s[anchor] < s[x]
        BY <1>3, <1>9, <2>1, <3>1 DEF Sorted
      <4> QED
        BY <1>5, <2>3, <2>5, <4>1
    <3>3. l # k + 1
      BY <1>5, <2>1, <2>5, <3>1
    <3>4. l < k
      BY <1>7, <1>9, <3>1, <3>2, <3>3
    <3> QED
      BY <1>11, <3>1, <3>4
  <2>6. anchor \in X
    BY <1>5, <2>3
  <2> QED
    BY <2>3, <2>4, <2>5, <2>6 DEF Follows
<1> QED
  BY <1>12, <1>13

\* The same vnodes at other slots, in the same order.
KeepsOrder(q, o, m) ==
  \A j \in DOMAIN q : /\ m[j] \in DOMAIN o /\ o[m[j]] = q[j]
                      /\ \A k \in DOMAIN q : j < k => m[j] < m[k]
\* A row may be numbered anew as long as the order stays.
LEMMA RowResort ==
  ASSUME NEW d, NEW o, NEW W \in Siblings, NEW n \in Nat, Row(d, o, W, n),
         NEW q, NEW l \in Nat, Slotted(q, l), NEW m, KeepsOrder(q, o, m)
  PROVE  Row(d, q, W, l)
<1>1. PICK r \in [Node -> Int] : Ranks(r, o, W, n) /\ Sorted(d, RowNodes(o, W), r)
  BY DEF Row
<1>2. d \in Seq(Node) /\ Slotted(o, n) /\ RowNodes(o, W) \subseteq ToSet(d)
  BY DEF Row
<1>3. PICK e \in [Node -> Int] : Ranks(e, q, W, l)
  BY RanksExist
<1>4. RowNodes(q, W) \subseteq RowNodes(o, W)
  <2>1. \A j \in DOMAIN q : m[j] \in DOMAIN o /\ o[m[j]] = q[j]
    BY DEF KeepsOrder
  <2> QED
    BY <2>1 DEF RowNodes
<1>5. ASSUME NEW x \in RowNodes(q, W)
      PROVE  \/ Outer(x, r, n) /\ Outer(x, e, l)
             \/ \E j \in DOMAIN q, h \in 1..2 :
                  r[x] = 3 * m[j] + h /\ e[x] = 3 * j + h
  <2>1. CASE x \in W
    <3>1. W = {Before, After} /\ W # {} /\ (x = Before \/ x = After)
      BY <2>1 DEF Siblings
    <3> QED
      BY <1>1, <1>3, <3>1, WrapNodes DEF Ranks, Outer
  <2>2. CASE x \notin W
    <3>1. PICK j \in DOMAIN q : x \in Parts(q[j])
      BY <2>2 DEF RowNodes
    <3>2. m[j] \in DOMAIN o /\ o[m[j]] = q[j] /\ q[j].id \in Nat
      BY DEF KeepsOrder, Slotted, Mounted
    <3>3. At(r, q[j].id, m[j]) /\ At(e, q[j].id, j)
      BY <1>1, <1>3, <3>2 DEF Ranks
    <3>4. x = << q[j].id, 1 >> \/ x = << q[j].id, 2 >>
      BY <3>1, <3>2, NodesEntries DEF Parts
    <3>5. \E h \in 1..2 : r[x] = 3 * m[j] + h /\ e[x] = 3 * j + h
      BY <3>3, <3>4 DEF At
    <3> QED
      BY <3>5
  <2> QED
    BY <2>1, <2>2
<1>6. /\ \A j \in DOMAIN q : j \in 1..l /\ m[j] \in 1..n
      /\ \A j, k \in DOMAIN q : j < k => m[j] < m[k]
  BY <1>2 DEF KeepsOrder, Slotted
<1>7. ASSUME NEW x \in RowNodes(q, W), NEW y \in RowNodes(q, W), r[x] < r[y]
      PROVE  e[x] < e[y]
  <2>1. CASE Outer(x, r, n) /\ Outer(x, e, l) /\ Outer(y, r, n) /\ Outer(y, e, l)
    BY <1>7, <2>1 DEF Outer
  <2>2. ASSUME Outer(x, r, n), Outer(x, e, l), NEW j \in DOMAIN q, NEW h \in 1..2,
               r[y] = 3 * m[j] + h, e[y] = 3 * j + h
        PROVE  e[x] < e[y]
    <3>1. j \in 1..l /\ m[j] \in 1..n
      BY <1>6
    <3>2. 3 * m[j] + h <= 3 * n + 2 /\ 3 * j + h <= 3 * l + 2 /\ 3 * j + h > 0 /\ 3 * m[j] + h > 0
      BY <3>1
    <3>3. 3 * m[j] + h \in Int /\ 3 * j + h \in Int
      BY <3>1
    <3>4. x = Before
      BY <1>7, <2>2, <3>2, <3>3 DEF Outer
    <3>5. e[x] = 0
      BY <2>2, <3>4, WrapNodes DEF Outer
    <3> QED
      BY <2>2, <3>2, <3>3, <3>5
  <2>3. ASSUME Outer(y, r, n), Outer(y, e, l), NEW j \in DOMAIN q, NEW h \in 1..2,
               r[x] = 3 * m[j] + h, e[x] = 3 * j + h
        PROVE  e[x] < e[y]
    <3>1. j \in 1..l /\ m[j] \in 1..n
      BY <1>6
    <3>2. 3 * m[j] + h <= 3 * n + 2 /\ 3 * j + h <= 3 * l + 2 /\ 3 * j + h > 0 /\ 3 * m[j] + h > 0
      BY <3>1
    <3>3. 3 * m[j] + h \in Int /\ 3 * j + h \in Int
      BY <3>1
    <3>4. y = After
      BY <1>7, <2>3, <3>2, <3>3 DEF Outer
    <3>5. e[y] = 3 * l + 3
      BY <2>3, <3>4, WrapNodes DEF Outer
    <3> QED
      BY <2>3, <3>2, <3>3, <3>5
  <2>4. ASSUME NEW j \in DOMAIN q, NEW h \in 1..2, r[x] = 3 * m[j] + h, e[x] = 3 * j + h,
               NEW k \in DOMAIN q, NEW g \in 1..2, r[y] = 3 * m[k] + g, e[y] = 3 * k + g
        PROVE  e[x] < e[y]
    <3>1. j \in 1..l /\ k \in 1..l /\ m[j] \in 1..n /\ m[k] \in 1..n
      BY <1>6
    <3>2. ~(k < j)
      <4> SUFFICES ASSUME k < j PROVE FALSE
        OBVIOUS
      <4>1. m[k] < m[j]
        BY <1>6
      <4> QED
        BY <1>7, <2>4, <3>1, <4>1
    <3>3. j = k \/ j < k
      BY <3>1, <3>2
    <3> QED
      BY <1>7, <2>4, <3>1, <3>3
  <2> QED
    BY <1>5, <2>1, <2>2, <2>3, <2>4
<1>8. Sorted(d, RowNodes(q, W), e)
  BY <1>1, <1>2, <1>4, <1>7, SortedLess
<1> QED
  BY <1>2, <1>3, <1>4, <1>8 DEF Row

\* The container of a list of children.
Contents(c, W) == IF W = {} THEN NodesOf(c) ELSE << Before >> \o NodesOf(c) \o << After >>
Distinct(c) == \A i, k \in DOMAIN c : c[i].id = c[k].id => i = k
\* What a container is to hold is in order.
LEMMA ContentsSorted ==
  ASSUME NEW c \in Seq(Mounted), NEW W \in Siblings, NEW r \in [Node -> Int],
         Ranks(r, c, W, Len(c)), NEW P
  PROVE  /\ Contents(c, W) \in Seq(Node)
         /\ ToSet(Contents(c, W)) = RowNodes(c, W)
         /\ Sorted(Contents(c, W), P, r)
<1> DEFINE q == NodesOf(c)
           X == UNION {ToSet(Nodes(c[i])) : i \in DOMAIN c}
<1>0. Len(c) \in Nat /\ DOMAIN c = 1..Len(c) /\ \A i \in DOMAIN c : c[i] \in Mounted
  OBVIOUS
<1>1. /\ q \in Seq(Node) /\ Sorted(q, P, r)
      /\ ToSet(q) = X
  <2>1. \A i \in DOMAIN c : c[i].id \in Nat /\ At(r, c[i].id, i)
    BY <1>0 DEF Mounted, Ranks
  <2> QED
    BY <2>1, NodesOfSorted
<1>2. RowNodes(c, W) = W \cup X
  BY DEF RowNodes, Parts
<1>3. CASE W = {}
  BY <1>1, <1>2, <1>3 DEF Contents
<1>4. CASE W # {}
  <2>1. W = {Before, After} /\ r[Before] = 0 /\ r[After] = 3 * Len(c) + 3
    BY <1>4 DEF Siblings, Ranks
  <2>2. \A x \in X : x \in Node /\ r[x] > 0 /\ r[x] < 3 * Len(c) + 3
    <3> TAKE x \in X
    <3>1. PICK i \in DOMAIN c : x \in ToSet(Nodes(c[i]))
      OBVIOUS
    <3>2. c[i].id \in Nat /\ At(r, c[i].id, i) /\ i \in 1..Len(c)
      BY <1>0 DEF Mounted, Ranks
    <3>3. x \in Node /\ 3 * i < r[x] /\ r[x] <= 3 * i + 2
      <4>1. x \in Node
        BY <3>1, <3>2, NodesEntries
      <4>2. i \in Int
        BY <3>2
      <4>3. 3 * i < r[x] /\ r[x] <= 3 * i + 2
        BY <3>1, <3>2, <4>2, NodesSorted
      <4> QED
        BY <4>1, <4>3
    <3>4. r[x] \in Int
      BY <3>3
    <3> QED
      BY <1>0, <3>2, <3>3, <3>4
  <2> HIDE DEF X, q
  <2>3. /\ << Before >> \in Seq(Node) /\ << After >> \in Seq(Node)
    BY WrapNodes
  <2>4. \A x : DOMAIN << x >> = {1} /\ << x >>[1] = x
    OBVIOUS
  <2>5. ToSet(<< Before >>) = {Before} /\ ToSet(<< After >>) = {After}
    BY <2>4, Zenon DEF ToSet
  <2>6. Sorted(<< Before >>, P, r) /\ Sorted(<< After >>, P, r)
    BY <2>4 DEF Sorted
  <2>7. /\ Below(ToSet(<< Before >>), ToSet(q), P, r)
        /\ Below({Before}, {After}, P, r) /\ Below(X, {After}, P, r)
    <3>1. \A x \in X \cap P, y \in {After} \cap P : r[x] < r[y]
      BY <2>1, <2>2
    <3>2. \A x \in {Before} \cap P, y \in X \cap P : r[x] < r[y]
      BY <2>1, <2>2
    <3>3. r[Before] < r[After]
      BY <1>0, <2>1
    <3> QED
      BY <1>1, <2>5, <3>1, <3>2, <3>3 DEF Below
  <2> DEFINE a == << Before >> \o q
  <2>8. a \in Seq(Node) /\ ToSet(a) = ToSet(<< Before >>) \cup ToSet(q) /\ Sorted(a, P, r)
    <3>1. q \in Seq(Node) /\ Sorted(q, P, r)
      BY <1>1
    <3> QED
      BY <2>3, <2>6, <2>7, <3>1, Joined, ZenonT(60)
  <2> HIDE DEF a
  <2>9. Below(ToSet(a), ToSet(<< After >>), P, r)
    BY <1>1, <2>5, <2>7, <2>8 DEF Below
  <2> DEFINE b == a \o << After >>
  <2>10. b \in Seq(Node) /\ ToSet(b) = ToSet(a) \cup ToSet(<< After >>) /\ Sorted(b, P, r)
    <3>1. a \in Seq(Node) /\ Sorted(a, P, r)
      BY <2>8
    <3> QED
      BY <2>3, <2>6, <2>9, <3>1, Joined, ZenonT(60)
  <2>11. Contents(c, W) = b
    BY <1>4 DEF Contents, b, a, q
  <2>12. ToSet(b) = W \cup X
    BY <1>1, <2>1, <2>5, <2>8, <2>10
  <2> HIDE DEF b
  <2> QED
    BY <1>2, <2>10, <2>11, <2>12
<1> QED
  BY <1>3, <1>4

\* The nodes of mounted children are a row that is alone, ...
LEMMA RowStarts ==
  ASSUME NEW c \in Seq(Mounted), Distinct(c), NEW W \in Siblings
  PROVE  Row(Contents(c, W), c, W, Len(c)) /\ Alone(Contents(c, W), c, W)
<1>1. Len(c) \in Nat /\ Slotted(c, Len(c))
  BY DEF Slotted, Distinct
<1>2. PICK r \in [Node -> Int] : Ranks(r, c, W, Len(c))
  BY <1>1, RanksExist
<1> DEFINE d == Contents(c, W)
<1>3. d \in Seq(Node) /\ ToSet(d) = RowNodes(c, W) /\ Sorted(d, RowNodes(c, W), r)
  BY <1>2, ContentsSorted
<1> HIDE DEF d
<1>4. Row(d, c, W, Len(c))
  BY <1>1, <1>2, <1>3 DEF Row
<1>5. Alone(d, c, W)
  BY <1>3 DEF Alone
<1> QED
  BY <1>4, <1>5 DEF d

\* and a row that is alone is the nodes of its children.
LEMMA RowEnds ==
  ASSUME NEW c \in Seq(Mounted), NEW W \in Siblings, NEW d, Row(d, c, W, Len(c)), Alone(d, c, W)
  PROVE  d = Contents(c, W)
<1>1. PICK r \in [Node -> Int] : Ranks(r, c, W, Len(c)) /\ Sorted(d, RowNodes(c, W), r)
  BY DEF Row
<1>2. d \in Seq(Node) /\ ToSet(d) = RowNodes(c, W)
  BY DEF Row, Alone
<1> DEFINE e == Contents(c, W)
<1>3. e \in Seq(Node) /\ ToSet(e) = RowNodes(c, W) /\ Sorted(e, RowNodes(c, W), r)
  BY <1>1, ContentsSorted
<1> HIDE DEF e
<1>4. d = e
  <2>1. ToSet(d) = ToSet(e) /\ ToSet(d) \subseteq RowNodes(c, W)
    BY <1>2, <1>3
  <2> QED
    BY <1>1, <1>2, <1>3, <2>1, SameNodes
<1> QED
  BY <1>4 DEF e

\* No other nodes are left or come with a removal, ...
LEMMA AloneRemove ==
  ASSUME NEW d, NEW o, NEW W \in Siblings, NEW n \in Nat, Row(d, o, W, n), Alone(d, o, W),
         NEW i \in DOMAIN o
  PROVE  Alone(RemoveNodes(d, o[i]), LeftOut(o, i), W)
<1> DEFINE q == LeftOut(o, i)
           e == RemoveNodes(d, o[i])
<1>1. Row(e, q, W, n) /\ ToSet(e) = Others(d, o[i])
  BY RowRemove
<1>2. DOMAIN q = DOMAIN o \ {i} /\ \A k \in DOMAIN q : q[k] = o[k]
  BY DEF LeftOut
<1>3. o[i].id \in Nat
  BY DEF Row, Slotted, Mounted
<1> HIDE DEF q, e
<1>4. ASSUME NEW x \in ToSet(e) PROVE x \in RowNodes(q, W)
  <2>1. x \in RowNodes(o, W) /\ x[1] # o[i].id
    BY <1>1, <1>4 DEF Others, Alone
  <2>2. x \notin Parts(o[i])
    BY <1>3, <2>1, NodesEntries DEF Parts
  <2> QED
    BY <1>2, <2>1, <2>2 DEF RowNodes
<1>5. RowNodes(q, W) \subseteq ToSet(e)
  BY <1>1 DEF Row
<1>6. ToSet(e) = RowNodes(q, W)
  BY <1>4, <1>5
<1> QED
  BY <1>6 DEF Alone, q, e

\* or with an insertion.
LEMMA AloneInsert ==
  ASSUME NEW d, NEW o, NEW W \in Siblings, NEW n \in Nat, Slotted(o, n), Alone(d, o, W),
         NEW i, i \notin DOMAIN o, NEW v \in Mounted, \A k \in DOMAIN o : o[k].id # v.id,
         NEW e, ToSet(e) = Others(d, v) \cup Parts(v)
  PROVE  Alone(e, PutIn(o, i, v), W)
<1> DEFINE q == PutIn(o, i, v)
<1>1. PICK r \in [Node -> Int] : Ranks(r, o, W, n)
  BY RanksExist
<1>2. DOMAIN q = DOMAIN o \cup {i} /\ q[i] = v /\ \A k \in DOMAIN o : q[k] = o[k]
  BY DEF PutIn
<1> HIDE DEF q
<1>3. RowNodes(q, W) = RowNodes(o, W) \cup Parts(v)
  BY <1>2 DEF RowNodes
<1>4. \A x \in ToSet(d) : x[1] # v.id
  <2> TAKE x \in ToSet(d)
  <2>1. x \in RowNodes(o, W) /\ v.id # 0
    BY DEF Alone, Mounted
  <2>2. x[1] = 0 \/ \E k \in DOMAIN o : x[1] = o[k].id
    BY <1>1, <2>1, RankOf DEF Outer
  <2> QED
    BY <2>1, <2>2
<1>5. Others(d, v) = RowNodes(o, W)
  BY <1>4 DEF Others, Alone
<1>6. ToSet(e) = RowNodes(q, W)
  BY <1>3, <1>5
<1> QED
  BY <1>6 DEF Alone, q

--------------------------------------------------------------------------------
(* Patching: the old children are looked at one by one, and each stays for a   *)
(* new child, is replaced by one in its place, or is unmounted.                *)

\* m[j] is the old child for the new child j, 0 if there is none (yet).
Matches(c1, c2, m) ==
  /\ m \in [1..Len(c2) -> 0..Len(c1)]
  /\ \A j, k \in 1..Len(c2) : m[j] = m[k] /\ m[j] # 0 => j = k
  /\ \A j \in 1..Len(c2) : m[j] # 0 => c1[m[j]].key = c2[j].key
Final(c1, c2, m, j) ==
  Vnode(c2, j, IF m[j] # 0 /\ c1[m[j]].type = c2[j].type THEN c1[m[j]].id ELSE Fresh(c1, j))

LEMMA MountedEntries ==
  ASSUME NEW c \in Seq(Mounted)
  PROVE  /\ Len(c) \in Nat /\ DOMAIN c = 1..Len(c)
         /\ \A i \in 1..Len(c) : c[i] \in Mounted /\ c[i].id \in Nat \ {0}
<1>1. Len(c) \in Nat /\ DOMAIN c = 1..Len(c) /\ \A i \in 1..Len(c) : c[i] \in Mounted
  OBVIOUS
<1>2. \A v \in Mounted : v.id \in Nat \ {0}
  BY DEF Mounted
<1> QED
  BY <1>1, <1>2

LEMMA ChildEntries ==
  ASSUME NEW c \in Seq(Child)
  PROVE  /\ Len(c) \in Nat /\ DOMAIN c = 1..Len(c)
         /\ \A i \in 1..Len(c) : /\ c[i] \in Child
                                  /\ c[i].key \in Keys \cup {NoKey} /\ c[i].type \in Types
<1>1. Len(c) \in Nat /\ DOMAIN c = 1..Len(c) /\ \A i \in 1..Len(c) : c[i] \in Child
  OBVIOUS
<1>2. \A v \in Child : v.key \in Keys \cup {NoKey} /\ v.type \in Types
  BY DEF Child
<1> QED
  BY <1>1, <1>2

\* The new children end up with ids that differ.
LEMMA FinalIds ==
  ASSUME NEW c1 \in Seq(Mounted), Distinct(c1), NEW c2 \in Seq(Child), NEW m, Matches(c1, c2, m)
  PROVE  /\ \A j \in 1..Len(c2) : Final(c1, c2, m, j) \in Mounted
         /\ \A j, k \in 1..Len(c2) : Final(c1, c2, m, j).id = Final(c1, c2, m, k).id => j = k
         /\ \A j \in 1..Len(c2), i \in 1..Len(c1) :
              Final(c1, c2, m, j).id = c1[i].id => m[j] = i
<1> DEFINE V(j) == Final(c1, c2, m, j)
<1> HIDE DEF V
<1>1. DOMAIN c1 = 1..Len(c1) /\ \A i \in 1..Len(c1) : c1[i].id \in Nat \ {0}
  BY MountedEntries
<1>2. ASSUME NEW j \in 1..Len(c2)
      PROVE  /\ V(j) = [key |-> c2[j].key, type |-> c2[j].type, id |-> V(j).id]
             /\ \/ m[j] \in 1..Len(c1) /\ V(j).id = c1[m[j]].id
                \/ V(j).id = Fresh(c1, j)
             /\ Fresh(c1, j) \in Nat \ {0} /\ \A i \in 1..Len(c1) : c1[i].id # Fresh(c1, j)
  <2>1. Fresh(c1, j) \in Nat \ {0} /\ \A i \in DOMAIN c1 : c1[i].id # Fresh(c1, j)
    <3>1. j \in Nat \ {0}
      BY ChildEntries
    <3> QED
      BY <3>1, FreshId
  <2>2. m[j] \in 0..Len(c1)
    BY DEF Matches
  <2> QED
    BY <1>1, <2>1, <2>2 DEF Final, Vnode, V
<1>3. \A j \in 1..Len(c2) : V(j) \in Mounted
  <2> TAKE j \in 1..Len(c2)
  <2>1. c2[j].key \in Keys \cup {NoKey} /\ c2[j].type \in Types
    BY ChildEntries
  <2>2. V(j).id \in Nat \ {0}
    BY <1>1, <1>2
  <2> QED
    BY <1>2, <2>1, <2>2 DEF Mounted
<1>4. ASSUME NEW j \in 1..Len(c2), NEW k \in 1..Len(c2), V(j).id = V(k).id PROVE j = k
  <2>1. CASE V(j).id = Fresh(c1, j) /\ V(k).id = Fresh(c1, k)
    <3>1. j \in Nat \ {0} /\ k \in Nat \ {0} /\ Fresh(c1, j) = Fresh(c1, k)
      <4>1. Len(c2) \in Nat
        BY ChildEntries
      <4>2. Fresh(c1, j) = Fresh(c1, k)
        BY <1>4, <2>1
      <4> QED
        BY <4>1, <4>2
    <3> QED
      BY <3>1, FreshDiffers
  <2>2. CASE m[j] \in 1..Len(c1) /\ V(j).id = c1[m[j]].id /\ V(k).id = Fresh(c1, k)
    BY <1>2, <1>4, <2>2
  <2>3. CASE m[k] \in 1..Len(c1) /\ V(k).id = c1[m[k]].id /\ V(j).id = Fresh(c1, j)
    BY <1>2, <1>4, <2>3
  <2>4. CASE m[j] \in 1..Len(c1) /\ V(j).id = c1[m[j]].id /\ m[k] \in 1..Len(c1) /\ V(k).id = c1[m[k]].id
    <3>1. m[j] = m[k]
      BY <1>1, <1>4, <2>4 DEF Distinct
    <3> QED
      BY <2>4, <3>1 DEF Matches
  <2> QED
    BY <1>2, <2>1, <2>2, <2>3, <2>4
<1>5. ASSUME NEW j \in 1..Len(c2), NEW i \in 1..Len(c1), V(j).id = c1[i].id PROVE m[j] = i
  BY <1>1, <1>2, <1>5 DEF Distinct
<1> QED
  BY <1>3, <1>4, <1>5 DEF V

\* What is at the slots of the old children when those of G have been looked at.
Occupied(c1, c2, m, G) ==
  [i \in {k \in 1..Len(c1) : k \notin G \/ \E j \in 1..Len(c2) : m[j] = k} |->
     IF i \notin G THEN c1[i] ELSE Final(c1, c2, m, CHOOSE j \in 1..Len(c2) : m[j] = i)]
NewIs(new, c1, c2, m, A) ==
  /\ new \in Seq(Child \cup Mounted) /\ Len(new) = Len(c2)
  /\ \A j \in 1..Len(c2) : new[j] = IF j \in A THEN Final(c1, c2, m, j) ELSE c2[j]
Matched(c2, m) == {j \in 1..Len(c2) : m[j] # 0}

Laid(d, new, c1, c2, m, G, W) ==
  /\ Matches(c1, c2, m) /\ G \subseteq 1..Len(c1) /\ \A j \in Matched(c2, m) : m[j] \in G
  /\ NewIs(new, c1, c2, m, Matched(c2, m))
  /\ Row(d, Occupied(c1, c2, m, G), W, Len(c1)) /\ Alone(d, Occupied(c1, c2, m, G), W)

\* The ids in us are those of the old children of G that no new child goes on with.
Lost(c1, c2, m, i) == \A j \in 1..Len(c2) : m[j] = i => c1[i].type # c2[j].type
Gone(us, c1, c2, m, G) ==
  /\ us \in Seq(Nat) /\ \A a, b \in 1..Len(us) : us[a] = us[b] => a = b
  /\ \A a \in 1..Len(us) : \E i \in G : Lost(c1, c2, m, i) /\ us[a] = c1[i].id
  /\ \A i \in G : Lost(c1, c2, m, i) => \E a \in 1..Len(us) : us[a] = c1[i].id

Patching(st, c1, c2, m, G, W) ==
  /\ Laid(st.dom, st.new, c1, c2, m, G, W)
  /\ Gone(st.unmounts, c1, c2, m, G) /\ st.moves = {}

\* An old child that had not been looked at is lost as well, or is not.
LEMMA GoneMore ==
  ASSUME NEW c1 \in Seq(Mounted), Distinct(c1), NEW c2, NEW m, NEW q, NEW G \in SUBSET (1..Len(c1)),
         NEW us, Gone(us, c1, c2, m, G), NEW i \in 1..Len(c1), i \notin G,
         \A k \in G : Lost(c1, c2, q, k) <=> Lost(c1, c2, m, k), Lost(c1, c2, q, i)
  PROVE  Gone(Append(us, c1[i].id), c1, c2, q, G \cup {i})
<1> DEFINE x == c1[i].id
           vs == Append(us, x)
           n == Len(us)
<1>1. /\ us \in Seq(Nat) /\ \A a, b \in 1..n : us[a] = us[b] => a = b
      /\ \A a \in 1..n : \E k \in G : Lost(c1, c2, q, k) /\ us[a] = c1[k].id
      /\ \A k \in G : Lost(c1, c2, q, k) => \E a \in 1..n : us[a] = c1[k].id
  BY DEF Gone
<1>2. x \in Nat /\ \A k \in G : c1[k].id # x
  <2>1. x \in Nat
    BY MountedEntries
  <2>2. DOMAIN c1 = 1..Len(c1)
    BY MountedEntries
  <2> QED
    BY <2>1, <2>2 DEF Distinct
<1>3. /\ vs \in Seq(Nat) /\ Len(vs) = n + 1 /\ vs[n + 1] = x
      /\ \A a \in 1..n : vs[a] = us[a]
  <2> HIDE DEF x
  <2> QED
    BY <1>1, <1>2, EntryAdded
<1>4. n \in Nat
  BY <1>1
<1>5. \A a \in 1..n : us[a] # x
  BY <1>1, <1>2
<1> HIDE DEF vs, n, x
<1>6. \A a \in 1..(n + 1) : a \in 1..n \/ a = n + 1
  BY <1>4
<1>10. 1..n \subseteq 1..(n + 1) /\ n + 1 \in 1..(n + 1)
  BY <1>4
<1>7. \A a, b \in 1..(n + 1) : vs[a] = vs[b] => a = b
  BY <1>1, <1>3, <1>5, <1>6
<1>8. \A a \in 1..(n + 1) : \E k \in G \cup {i} : Lost(c1, c2, q, k) /\ vs[a] = c1[k].id
  <2> TAKE a \in 1..(n + 1)
  <2>1. CASE a \in 1..n
    <3>1. PICK k \in G : Lost(c1, c2, q, k) /\ us[a] = c1[k].id
      BY <1>1, <2>1
    <3>2. vs[a] = us[a]
      BY <1>3, <2>1
    <3> QED
      BY <3>1, <3>2
  <2>2. CASE a = n + 1
    BY <1>3, <2>2 DEF x
  <2> QED
    BY <1>6, <2>1, <2>2
<1>9. ASSUME NEW k \in G \cup {i}, Lost(c1, c2, q, k) PROVE \E a \in 1..(n + 1) : vs[a] = c1[k].id
  BY <1>1, <1>3, <1>9, <1>10 DEF x
<1> QED
  BY <1>3, <1>7, <1>8, <1>9 DEF Gone, vs, x

LEMMA GoneSame ==
  ASSUME NEW c1, NEW c2, NEW m, NEW q, NEW G, NEW us, Gone(us, c1, c2, m, G), NEW i,
         \A k \in G : Lost(c1, c2, q, k) <=> Lost(c1, c2, m, k), ~Lost(c1, c2, q, i)
  PROVE  Gone(us, c1, c2, q, G \cup {i})
BY DEF Gone

\* Which vnode is at each slot of the old children.
LEMMA OccupiedBy ==
  ASSUME NEW c1 \in Seq(Mounted), NEW c2 \in Seq(Child), NEW m, Matches(c1, c2, m), NEW G
  PROVE  /\ \A i \in 1..Len(c1) : i \notin G => i \in DOMAIN Occupied(c1, c2, m, G)
                                                /\ Occupied(c1, c2, m, G)[i] = c1[i]
         /\ \A j \in 1..Len(c2) : m[j] \in G /\ m[j] # 0
              => m[j] \in DOMAIN Occupied(c1, c2, m, G)
                 /\ Occupied(c1, c2, m, G)[m[j]] = Final(c1, c2, m, j)
         /\ \A i \in DOMAIN Occupied(c1, c2, m, G) :
              i \in 1..Len(c1) /\ (i \in G => \E j \in 1..Len(c2) : m[j] = i)
<1> DEFINE O == Occupied(c1, c2, m, G)
           D == {k \in 1..Len(c1) : k \notin G \/ \E j \in 1..Len(c2) : m[j] = k}
<1>1. /\ DOMAIN O = D
      /\ \A i \in D : O[i] = IF i \notin G THEN c1[i]
                             ELSE Final(c1, c2, m, CHOOSE j \in 1..Len(c2) : m[j] = i)
  BY DEF Occupied
<1> HIDE DEF O
<1>2. ASSUME NEW j \in 1..Len(c2), m[j] \in G, m[j] # 0
      PROVE  m[j] \in DOMAIN O /\ O[m[j]] = Final(c1, c2, m, j)
  <2>1. m[j] \in D
    BY <1>2 DEF Matches
  <2> DEFINE k == CHOOSE k \in 1..Len(c2) : m[k] = m[j]
  <2>2. k \in 1..Len(c2) /\ m[k] = m[j]
    OBVIOUS
  <2>3. k = j
    BY <1>2, <2>2 DEF Matches
  <2>4. O[m[j]] = Final(c1, c2, m, k)
    BY <1>1, <1>2, <2>1
  <2> HIDE DEF k, D
  <2> QED
    BY <1>1, <2>1, <2>3, <2>4
<1> QED
  BY <1>1, <1>2 DEF O

\* The states of a patch, and of a keyed one.
PatchState == [dom : Seq(Node), new : Seq(Child \cup Mounted), moves : SUBSET Nat,
               unmounts : Seq(Nat)]
KeyedState(X) == [dom : Seq(Node), new : Seq(Child \cup Mounted), moves : SUBSET Nat,
                  unmounts : Seq(Nat), map : X, moved : BOOLEAN, maxNewIndexSoFar : Int,
                  left : Int]
Like(t, st, X) ==
  /\ st \in PatchState => t \in PatchState
  /\ st \in KeyedState(X) => /\ t \in KeyedState(X) /\ t.map = st.map /\ t.moved = st.moved
                             /\ t.maxNewIndexSoFar = st.maxNewIndexSoFar /\ t.left = st.left

\* The state t has come of st, with these host nodes, new children and ids of the
\* unmounted.
Now(t, st, d, new, us, X) ==
  /\ t.dom = d /\ t.new = new /\ t.unmounts = us /\ t.moves = st.moves
  /\ t \in PatchState \cup KeyedState(X) /\ Like(t, st, X)

\* Unmounting changes the nodes and the history only.
LEMMA UnmountLike ==
  ASSUME NEW X, NEW st \in PatchState \cup KeyedState(X), NEW v \in Mounted,
         RemoveNodes(st.dom, v) \in Seq(Node)
  PROVE  Now(Unmount(st, v), st, RemoveNodes(st.dom, v), st.new, Append(st.unmounts, v.id), X)
<1>1. v.id \in Nat
  BY DEF Mounted
<1>2. /\ Unmount(st, v) = [st EXCEPT !.dom = RemoveNodes(st.dom, v),
                                     !.unmounts = Append(st.unmounts, v.id)]
  BY DEF Unmount, PatchState, KeyedState
<1>4. Append(st.unmounts, v.id) \in Seq(Nat)
  <2>1. st.unmounts \in Seq(Nat)
    BY DEF PatchState, KeyedState
  <2> QED
    BY <1>1, <2>1
<1> DEFINE d == RemoveNodes(st.dom, v)
           u == Append(st.unmounts, v.id)
<1>5. d \in Seq(Node) /\ u \in Seq(Nat) /\ Unmount(st, v) = [st EXCEPT !.dom = d, !.unmounts = u]
  BY <1>2, <1>4
<1>6. d = RemoveNodes(st.dom, v) /\ u = Append(st.unmounts, v.id)
  OBVIOUS
<1> HIDE DEF d, u
<1> DEFINE t == [st EXCEPT !.dom = d, !.unmounts = u]
<1>7. /\ t.dom = d /\ t.new = st.new /\ t.unmounts = u /\ t.moves = st.moves
      /\ st \in PatchState => t \in PatchState
      /\ st \in KeyedState(X) =>
           /\ t \in KeyedState(X) /\ t.map = st.map /\ t.moved = st.moved
           /\ t.maxNewIndexSoFar = st.maxNewIndexSoFar /\ t.left = st.left
  BY <1>5 DEF PatchState, KeyedState
<1>8. Unmount(st, v) = t
  BY <1>5
<1> HIDE DEF t
<1>9. t \in PatchState \cup KeyedState(X) /\ Like(t, st, X)
  BY <1>7 DEF Like
<1> QED
  BY <1>6, <1>7, <1>8, <1>9 DEF Now

\* Mounting changes the nodes and one new child.
LEMMA MountLike ==
  ASSUME NEW X, NEW st \in PatchState \cup KeyedState(X), NEW c1, NEW j \in 1..Len(st.new),
         NEW anchor, NEW v \in Mounted, v = Vnode(st.new, j, Fresh(c1, j)),
         InsertNodes(st.dom, v, anchor) \in Seq(Node)
  PROVE  Now(MountAt(st, c1, j, anchor), st, InsertNodes(st.dom, v, anchor),
             [st.new EXCEPT ![j] = v], st.unmounts, X)
<1> DEFINE e == InsertNodes(st.dom, v, anchor)
<1>1. /\ MountAt(st, c1, j, anchor) = [st EXCEPT !.dom = e, !.new[j] = v]
  BY DEF MountAt, PatchState, KeyedState
<1>2. ASSUME NEW d \in Seq(Node), NEW w \in Mounted
      PROVE  Now([st EXCEPT !.dom = d, !.new[j] = w], st, d, [st.new EXCEPT ![j] = w], st.unmounts, X)
  <2>1. st.new \in Seq(Child \cup Mounted) /\ j \in 1..Len(st.new)
    BY DEF PatchState, KeyedState
  <2> DEFINE q == [st.new EXCEPT ![j] = w]
             t == [st EXCEPT !.dom = d, !.new[j] = w]
  <2>2. q \in Seq(Child \cup Mounted)
    BY <2>1
  <2>3. t = [st EXCEPT !.dom = d, !.new = q]
    BY DEF PatchState, KeyedState
  <2> HIDE DEF q, t
  <2>4. /\ t.dom = d /\ t.new = q /\ t.unmounts = st.unmounts /\ t.moves = st.moves
        /\ st \in PatchState => t \in PatchState
        /\ st \in KeyedState(X) =>
             /\ t \in KeyedState(X) /\ t.map = st.map /\ t.moved = st.moved
             /\ t.maxNewIndexSoFar = st.maxNewIndexSoFar /\ t.left = st.left
    BY <2>2, <2>3 DEF PatchState, KeyedState
  <2>5. t \in PatchState \cup KeyedState(X) /\ Like(t, st, X)
    BY <2>4 DEF Like
  <2>6. Now(t, st, d, q, st.unmounts, X)
    BY <2>4, <2>5 DEF Now
  <2> QED
    BY <2>6 DEF q, t
<1>3. e \in Seq(Node)
  OBVIOUS
<1> HIDE DEF e
<1>4. Now([st EXCEPT !.dom = e, !.new[j] = v], st, e, [st.new EXCEPT ![j] = v], st.unmounts, X)
  BY <1>2, <1>3, Zenon
<1>5. Now(MountAt(st, c1, j, anchor), st, e, [st.new EXCEPT ![j] = v], st.unmounts, X)
  BY <1>1, <1>4, Zenon
<1> QED
  BY <1>5 DEF e

PatchedTo(t, st, c1, c2, m, G, W, X) ==
  /\ Patching(t, c1, c2, m, G, W)
  /\ t \in PatchState \cup KeyedState(X) /\ Like(t, st, X)

\* An old child is unmounted.
LEMMA UnmountStep ==
  ASSUME NEW X, NEW st \in PatchState \cup KeyedState(X),
         NEW c1 \in Seq(Mounted), Distinct(c1), NEW c2 \in Seq(Child), NEW m, NEW G,
         NEW W \in Siblings, Patching(st, c1, c2, m, G, W),
         NEW i \in 1..Len(c1), i \notin G
  PROVE  PatchedTo(Unmount(st, c1[i]), st, c1, c2, m, G \cup {i}, W, X)
<1> DEFINE O == Occupied(c1, c2, m, G)
           Q == Occupied(c1, c2, m, G \cup {i})
<1>1. /\ Matches(c1, c2, m) /\ G \subseteq 1..Len(c1) /\ \A j \in Matched(c2, m) : m[j] \in G
      /\ NewIs(st.new, c1, c2, m, Matched(c2, m))
  BY DEF Patching, Laid
<1>2. Row(st.dom, O, W, Len(c1)) /\ Alone(st.dom, O, W)
  BY DEF Patching, Laid
<1>3. i \in DOMAIN O /\ O[i] = c1[i]
  BY <1>1, OccupiedBy
<1>4. c1[i] \in Mounted /\ Len(c1) \in Nat
  BY MountedEntries
<1>11. \A j \in 1..Len(c2) : m[j] # i
  BY <1>1, <1>4 DEF Matched
<1>5. Q = LeftOut(O, i)
  BY <1>11 DEF LeftOut, Occupied
<1>12. Gone(Append(st.unmounts, c1[i].id), c1, c2, m, G \cup {i})
  <2>1. Gone(st.unmounts, c1, c2, m, G) /\ Lost(c1, c2, m, i)
    BY <1>11 DEF Patching, Lost
  <2> QED
    BY <1>1, <2>1, GoneMore
<1> DEFINE e == RemoveNodes(st.dom, c1[i])
<1> HIDE DEF O, Q
<1>6. Row(e, Q, W, Len(c1))
  BY <1>2, <1>3, <1>4, <1>5, RowRemove
<1>7. Alone(e, Q, W)
  BY <1>2, <1>3, <1>4, <1>5, AloneRemove
<1>8. e \in Seq(Node)
  BY <1>6 DEF Row
<1> HIDE DEF e
<1> DEFINE t == Unmount(st, c1[i])
<1>9. Now(t, st, e, st.new, Append(st.unmounts, c1[i].id), X)
  BY <1>4, <1>8, UnmountLike DEF e
<1> HIDE DEF t
<1>10. Patching(t, c1, c2, m, G \cup {i}, W)
  <2>1. Laid(t.dom, t.new, c1, c2, m, G \cup {i}, W)
    BY <1>1, <1>6, <1>7, <1>9 DEF Laid, Q, Now
  <2> QED
    BY <1>9, <1>12, <2>1 DEF Patching, Now
<1> QED
  BY <1>9, <1>10 DEF t, Now, PatchedTo

\* The old child i is matched to the new child j.
Pairs(c1, c2, m, q, G, i, j) ==
  /\ Matches(c1, c2, q) /\ q[j] = i
  /\ Matched(c2, q) = Matched(c2, m) \cup {j}
  /\ \A k \in 1..Len(c2) : k # j => q[k] = m[k] /\ Final(c1, c2, q, k) = Final(c1, c2, m, k)
  /\ Occupied(c1, c2, q, G \cup {i})
       = PutIn(LeftOut(Occupied(c1, c2, m, G), i), i, Final(c1, c2, q, j))
\* One more pair of an old and a new child keeps the matching.
LEMMA Paired ==
  ASSUME NEW c1 \in Seq(Mounted), NEW c2 \in Seq(Child), NEW m, NEW G, Matches(c1, c2, m),
         \A k \in Matched(c2, m) : m[k] \in G,
         NEW i \in 1..Len(c1), i \notin G, NEW j \in 1..Len(c2), m[j] = 0,
         c1[i].key = c2[j].key
  PROVE  Pairs(c1, c2, m, [m EXCEPT ![j] = i], G, i, j)
<1> DEFINE q == [m EXCEPT ![j] = i]
           O == Occupied(c1, c2, m, G)
           Q == Occupied(c1, c2, q, G \cup {i})
           L == LeftOut(O, i)
           R == PutIn(L, i, Final(c1, c2, q, j))
<1>0. /\ \A k \in 1..Len(c1) : k # 0
      /\ Len(c1) \in Nat
  BY MountedEntries
<1>1. q[j] = i /\ \A k \in 1..Len(c2) : k # j => q[k] = m[k]
  BY DEF Matches
<1>2. \A k \in 1..Len(c2) : m[k] # i
  BY <1>0 DEF Matched
<1>3. Matches(c1, c2, q)
  <2>1. q \in [1..Len(c2) -> 0..Len(c1)]
    BY <1>0 DEF Matches
  <2>2. \A k, l \in 1..Len(c2) : q[k] = q[l] /\ q[k] # 0 => k = l
    BY <1>1, <1>2 DEF Matches
  <2>3. \A k \in 1..Len(c2) : q[k] # 0 => c1[q[k]].key = c2[k].key
    BY <1>1 DEF Matches
  <2> QED
    BY <2>1, <2>2, <2>3 DEF Matches
<1> HIDE DEF q
<1>4. Matched(c2, q) = Matched(c2, m) \cup {j}
  BY <1>0, <1>1 DEF Matched
<1>5. \A k \in 1..Len(c2) : k # j => Final(c1, c2, q, k) = Final(c1, c2, m, k)
  BY <1>1 DEF Final
<1>6. Q = R
  <2>1. /\ DOMAIN L = DOMAIN O \ {i} /\ \A k \in DOMAIN L : L[k] = O[k]
    BY DEF LeftOut
  <2>2. /\ DOMAIN R = DOMAIN L \cup {i} /\ R[i] = Final(c1, c2, q, j)
        /\ \A k \in DOMAIN L : k # i => R[k] = L[k]
    BY DEF PutIn
  <2>3. DOMAIN O = {k \in 1..Len(c1) : k \notin G \/ \E l \in 1..Len(c2) : m[l] = k}
    BY DEF Occupied
  <2>4. DOMAIN Q = {k \in 1..Len(c1) : k \notin G \cup {i} \/ \E l \in 1..Len(c2) : q[l] = k}
    BY DEF Occupied
  <2>5. DOMAIN Q = DOMAIN R
    <3>1. \A k \in 1..Len(c1) : k # i =>
            ((\E l \in 1..Len(c2) : q[l] = k) <=> (\E l \in 1..Len(c2) : m[l] = k))
      BY <1>0, <1>1
    <3> HIDE DEF O, Q, L, R
    <3>2. DOMAIN R = DOMAIN O \cup {i}
      BY <2>1, <2>2
    <3>3. i \in DOMAIN Q
      BY <1>1, <2>4
    <3>4. \A k \in 1..Len(c1) : k # i => (k \in DOMAIN Q <=> k \in DOMAIN O)
      BY <2>3, <2>4, <3>1
    <3>5. DOMAIN Q \subseteq 1..Len(c1) /\ DOMAIN O \subseteq 1..Len(c1)
      BY <2>3, <2>4
    <3> QED
      BY <3>2, <3>3, <3>4, <3>5
  <2>6. Q[i] = R[i]
    BY <1>0, <1>1, <1>3, <2>2, OccupiedBy
  <2>7. ASSUME NEW k \in DOMAIN Q, k # i, k \notin G PROVE Q[k] = R[k]
    <3>1. k \in 1..Len(c1) /\ k \notin G \cup {i} /\ k \in DOMAIN L
      BY <2>2, <2>4, <2>5, <2>7
    <3>2. Q[k] = c1[k]
      BY <1>3, <3>1, OccupiedBy
    <3>3. O[k] = c1[k]
      BY <3>1, OccupiedBy
    <3> QED
      BY <2>1, <2>2, <2>7, <3>1, <3>2, <3>3
  <2>8. ASSUME NEW k \in DOMAIN Q, k # i, k \in G PROVE Q[k] = R[k]
    <3>1. k \in 1..Len(c1) /\ k \in DOMAIN L /\ k \in DOMAIN O
      BY <2>1, <2>2, <2>4, <2>5, <2>8
    <3>2. PICK l \in 1..Len(c2) : m[l] = k
      BY <2>3, <2>8, <3>1
    <3>3. l # j /\ q[l] = k /\ k # 0
      BY <1>0, <1>1, <3>1, <3>2
    <3>4. O[k] = Final(c1, c2, m, l)
      BY <2>8, <3>2, <3>3, OccupiedBy
    <3>5. Q[k] = Final(c1, c2, q, l)
      BY <1>3, <2>8, <3>3, OccupiedBy
    <3> QED
      BY <1>5, <2>1, <2>2, <2>8, <3>1, <3>3, <3>4, <3>5
  <2>9. Q = [k \in DOMAIN Q |-> Q[k]] /\ R = [k \in DOMAIN R |-> R[k]]
    BY DEF Occupied, PutIn
  <2> HIDE DEF Q, R
  <2>10. \A k \in DOMAIN Q : Q[k] = R[k]
    BY <2>6, <2>7, <2>8
  <2> QED
    BY <2>5, <2>9, <2>10
<1> QED
  BY <1>1, <1>3, <1>4, <1>5, <1>6 DEF q, Pairs

LEMMA KeepLike ==
  ASSUME NEW X, NEW st \in PatchState \cup KeyedState(X), NEW j \in 1..Len(st.new), NEW w \in Mounted
  PROVE  Now([st EXCEPT !.new[j] = w], st, st.dom, [st.new EXCEPT ![j] = w], st.unmounts, X)
<1>1. st.new \in Seq(Child \cup Mounted) /\ j \in 1..Len(st.new)
  BY DEF PatchState, KeyedState
<1> DEFINE q == [st.new EXCEPT ![j] = w]
           t == [st EXCEPT !.new[j] = w]
<1>2. q \in Seq(Child \cup Mounted)
  BY <1>1
<1>3. t = [st EXCEPT !.new = q]
  BY DEF PatchState, KeyedState
<1> HIDE DEF q, t
<1>4. /\ t.dom = st.dom /\ t.new = q /\ t.unmounts = st.unmounts /\ t.moves = st.moves
      /\ st \in PatchState => t \in PatchState
      /\ st \in KeyedState(X) =>
           /\ t \in KeyedState(X) /\ t.map = st.map /\ t.moved = st.moved
           /\ t.maxNewIndexSoFar = st.maxNewIndexSoFar /\ t.left = st.left
  BY <1>2, <1>3 DEF PatchState, KeyedState
<1>5. t \in PatchState \cup KeyedState(X) /\ Like(t, st, X)
  BY <1>4 DEF Like
<1> QED
  BY <1>4, <1>5 DEF q, t, Now

LEMMA LikeLike ==
  ASSUME NEW X, NEW s, NEW t, NEW u, Like(t, s, X), Like(u, t, X)
  PROVE  Like(u, s, X)
BY DEF Like

LEMMA NewSet ==
  ASSUME NEW c1, NEW c2 \in Seq(Child), NEW m, NEW q, NEW A, NEW new, NewIs(new, c1, c2, m, A),
         NEW j \in 1..Len(c2), NEW v \in Mounted, v = Final(c1, c2, q, j),
         \A k \in 1..Len(c2) : k # j => Final(c1, c2, q, k) = Final(c1, c2, m, k)
  PROVE  NewIs([new EXCEPT ![j] = v], c1, c2, q, A \cup {j})
<1> DEFINE e == [new EXCEPT ![j] = v]
<1>1. /\ new \in Seq(Child \cup Mounted) /\ Len(new) = Len(c2)
      /\ \A k \in 1..Len(c2) : new[k] = IF k \in A THEN Final(c1, c2, m, k) ELSE c2[k]
  BY DEF NewIs
<1>2. /\ e \in Seq(Child \cup Mounted) /\ Len(e) = Len(c2) /\ e[j] = v
      /\ \A k \in 1..Len(c2) : k # j => e[k] = new[k]
  <2>1. Len(c2) \in Nat
    OBVIOUS
  <2> QED
    BY <1>1, <2>1
<1> HIDE DEF e
<1>3. \A k \in 1..Len(c2) : e[k] = IF k \in A \cup {j} THEN Final(c1, c2, q, k) ELSE c2[k]
  BY <1>1, <1>2
<1> QED
  BY <1>2, <1>3 DEF NewIs, e

\* An old child is patched to a new one with its key.
LEMMA PatchStep ==
  ASSUME NEW X, NEW st \in PatchState \cup KeyedState(X),
         NEW c1 \in Seq(Mounted), Distinct(c1), NEW c2 \in Seq(Child), NEW m, NEW G,
         NEW W \in Siblings, Patching(st, c1, c2, m, G, W),
         NEW i \in 1..Len(c1), i \notin G, NEW j \in 1..Len(c2), m[j] = 0,
         c1[i].key = c2[j].key
  PROVE  PatchedTo(Patch(st, c1, i, j), st, c1, c2, [m EXCEPT ![j] = i], G \cup {i}, W, X)
<1> DEFINE q == [m EXCEPT ![j] = i]
           O == Occupied(c1, c2, m, G)
           L == LeftOut(O, i)
           v == Final(c1, c2, q, j)
           n == Len(c1)
<1>1. /\ Matches(c1, c2, m) /\ G \subseteq 1..n /\ \A k \in Matched(c2, m) : m[k] \in G
      /\ NewIs(st.new, c1, c2, m, Matched(c2, m))
      /\ Row(st.dom, O, W, n) /\ Alone(st.dom, O, W)
  BY DEF Patching, Laid
<1>2. /\ Matches(c1, c2, q) /\ q[j] = i
      /\ Matched(c2, q) = Matched(c2, m) \cup {j}
      /\ \A k \in 1..Len(c2) : k # j => q[k] = m[k] /\ Final(c1, c2, q, k) = Final(c1, c2, m, k)
      /\ Occupied(c1, c2, q, G \cup {i}) = PutIn(L, i, v)
  <2>1. Matches(c1, c2, m) /\ \A k \in Matched(c2, m) : m[k] \in G
    BY <1>1
  <2>2. Pairs(c1, c2, m, q, G, i, j)
    BY <2>1, Paired
  <2> QED
    BY <2>2 DEF Pairs
<1>3. Matched(c2, q) = Matched(c2, m) \cup {j}
  BY <1>2
<1>4. Occupied(c1, c2, q, G \cup {i}) = PutIn(L, i, v)
  BY <1>2
<1>5. i \in DOMAIN O /\ O[i] = c1[i]
  BY <1>1, OccupiedBy
<1>6. /\ c1[i] \in Mounted /\ n \in Nat /\ v \in Mounted /\ i \in Nat \ {0}
      /\ \A k \in 1..n : c1[k].id \in Nat \ {0}
  <2>1. c1[i] \in Mounted /\ n \in Nat /\ \A k \in 1..n : c1[k].id \in Nat \ {0}
    BY MountedEntries
  <2>2. v \in Mounted
    BY <1>2, FinalIds
  <2> QED
    BY <2>1, <2>2
<1>7. st.new[j] = c2[j] /\ j \in 1..Len(st.new)
  BY <1>1 DEF NewIs, Matched
<1> HIDE DEF q, O
<1>8. ASSUME NEW d, NEW new, Row(d, PutIn(L, i, v), W, n), Alone(d, PutIn(L, i, v), W),
             new = [st.new EXCEPT ![j] = v]
      PROVE  Laid(d, new, c1, c2, q, G \cup {i}, W)
  <2>1. NewIs(new, c1, c2, q, Matched(c2, m) \cup {j})
    <3>1. /\ NewIs(st.new, c1, c2, m, Matched(c2, m)) /\ v \in Mounted
          /\ \A k \in 1..Len(c2) : k # j => Final(c1, c2, q, k) = Final(c1, c2, m, k)
      BY <1>1, <1>2, <1>6
    <3> HIDE DEF v
    <3>2. v = Final(c1, c2, q, j)
      BY DEF v
    <3> QED
      BY <1>8, <3>1, <3>2, NewSet
  <2>2. \A k \in Matched(c2, q) : q[k] \in G \cup {i}
    BY <1>1, <1>2, <1>3 DEF Matched
  <2>3. G \cup {i} \subseteq 1..n
    BY <1>1
  <2> HIDE DEF L, v
  <2> QED
    BY <1>2, <1>3, <1>4, <1>8, <2>1, <2>2, <2>3 DEF Laid
<1>11. \A k \in G : Lost(c1, c2, q, k) <=> Lost(c1, c2, m, k)
  <2> SUFFICES ASSUME NEW k \in G PROVE \A l \in 1..Len(c2) : q[l] = k <=> m[l] = k
    BY DEF Lost
  <2>1. k # i /\ k # 0
    BY <1>1, <1>6
  <2> QED
    BY <1>2, <2>1
<1>12. Lost(c1, c2, q, i) <=> c1[i].type # c2[j].type
  <2>1. \A l \in 1..Len(c2) : q[l] = i <=> l = j
    BY <1>1, <1>2, <1>6 DEF Matched
  <2> QED
    BY <2>1 DEF Lost
<1>13. Gone(st.unmounts, c1, c2, m, G) /\ st.moves = {}
  BY DEF Patching
<1>9. CASE c1[i].type = c2[j].type
  <2>1. v = Vnode(c2, j, c1[i].id)
    BY <1>2, <1>6, <1>9 DEF Final
  <2>2. v = c1[i] /\ v = Vnode(st.new, j, c1[i].id)
    BY <1>6, <1>7, <1>9, <2>1 DEF Vnode, Mounted
  <2>3. PutIn(L, i, v) = O
    <3>1. O = [k \in DOMAIN O |-> O[k]]
      BY DEF O, Occupied
    <3>2. DOMAIN L = DOMAIN O \ {i} /\ \A k \in DOMAIN L : L[k] = O[k]
      BY DEF LeftOut
    <3> HIDE DEF v, L
    <3>3. \A k \in DOMAIN O : (IF k = i THEN v ELSE L[k]) = O[k]
      BY <1>5, <2>2, <3>2
    <3>4. DOMAIN L \cup {i} = DOMAIN O
      BY <1>5, <3>2
    <3> QED
      BY <3>1, <3>3, <3>4 DEF PutIn
  <2> DEFINE t == Patch(st, c1, i, j)
  <2>4. t = [st EXCEPT !.new[j] = v]
    <3>1. IsSameVNodeType(c1[i], st.new[j])
      BY <1>7, <1>9 DEF IsSameVNodeType
    <3> QED
      BY <2>2, <3>1 DEF Patch
  <2> HIDE DEF v
  <2>5. /\ t.dom = st.dom /\ t.new = [st.new EXCEPT ![j] = v]
        /\ t.unmounts = st.unmounts /\ t.moves = st.moves
        /\ t \in PatchState \cup KeyedState(X) /\ Like(t, st, X)
    <3>1. v \in Mounted /\ j \in 1..Len(st.new)
      BY <1>6, <1>7
    <3> HIDE DEF t
    <3>2. Now(t, st, st.dom, [st.new EXCEPT ![j] = v], st.unmounts, X)
      BY <2>4, <3>1, KeepLike
    <3> QED
      BY <3>2 DEF Now
  <2> HIDE DEF t, L
  <2>6. Laid(t.dom, t.new, c1, c2, q, G \cup {i}, W)
    BY <1>1, <1>8, <2>3, <2>5
  <2>7. Gone(st.unmounts, c1, c2, q, G \cup {i})
    BY <1>9, <1>11, <1>12, <1>13, GoneSame
  <2>8. Patching(t, c1, c2, q, G \cup {i}, W)
    BY <1>13, <2>5, <2>6, <2>7 DEF Patching
  <2> QED
    BY <2>5, <2>8 DEF t, q, PatchedTo
<1>10. CASE c1[i].type # c2[j].type
  <2>1. v = Vnode(c2, j, Fresh(c1, j))
    BY <1>2, <1>10 DEF Final
  <2>2. v = Vnode(st.new, j, Fresh(c1, j)) /\ v.id = Fresh(c1, j)
    BY <1>7, <2>1 DEF Vnode
  <2>3. \A k \in DOMAIN c1 : c1[k].id # v.id
    <3>1. j \in Nat \ {0}
      BY ChildEntries
    <3>2. \A k \in DOMAIN c1 : c1[k].id # Fresh(c1, j)
      BY <3>1, FreshId
    <3> QED
      BY <2>2, <3>2
  <2>4. \A k \in DOMAIN O : O[k].id # v.id
    <3> TAKE k \in DOMAIN O
    <3>1. k \in 1..n /\ (k \in G => \E l \in 1..Len(c2) : m[l] = k)
      BY <1>1, OccupiedBy DEF O
    <3>2. CASE k \notin G
      <4>1. O[k] = c1[k]
        BY <1>1, <3>1, <3>2, OccupiedBy DEF O
      <4>2. k \in DOMAIN c1
        BY <3>1, MountedEntries
      <4> QED
        BY <2>3, <4>1, <4>2
    <3>3. CASE k \in G
      <4>1. PICK l \in 1..Len(c2) : m[l] = k
        BY <3>1, <3>3
      <4>2. k # 0 /\ l # j
        BY <1>6, <3>1, <4>1
      <4>3. O[k] = Final(c1, c2, m, l)
        BY <1>1, <3>3, <4>1, <4>2, OccupiedBy DEF O
      <4>4. O[k] = Final(c1, c2, q, l)
        BY <1>2, <4>2, <4>3
      <4> QED
        BY <1>2, <4>2, <4>4, FinalIds
    <3> QED
      BY <3>2, <3>3
  <2> DEFINE u == Unmount(st, c1[i])
             anchor == NextHostNode(st.dom, c1[i])
             t == MountAt(u, c1, j, anchor)
             a == RemoveNodes(st.dom, c1[i])
             b == InsertNodes(a, v, anchor)
  <2>5. Patch(st, c1, i, j) = t
    BY <1>7, <1>10 DEF Patch, IsSameVNodeType
  <2> HIDE DEF v
  <2>6. Row(a, L, W, n)
    BY <1>1, <1>5, <1>6, RowRemove
  <2>7. Alone(a, L, W)
    BY <1>1, <1>5, <1>6, AloneRemove
  <2>8. Precedes(a, L, W, n, v, i, anchor)
    BY <1>1, <1>5, <1>6, <2>4, NextHostPrecedes
  <2>9. i \notin DOMAIN L /\ \A k \in DOMAIN L : L[k].id # v.id
    BY <2>4 DEF LeftOut
  <2>10. a \in Seq(Node)
    BY <2>6 DEF Row
  <2>11. /\ u.dom = a /\ u.new = st.new
         /\ u.unmounts = Append(st.unmounts, c1[i].id) /\ u.moves = st.moves
         /\ u \in PatchState \cup KeyedState(X) /\ Like(u, st, X)
    <3>1. c1[i] \in Mounted /\ RemoveNodes(st.dom, c1[i]) \in Seq(Node)
      BY <1>6, <2>10
    <3> HIDE DEF a, u, O, L, n
    <3>2. Now(u, st, RemoveNodes(st.dom, c1[i]), st.new, Append(st.unmounts, c1[i].id), X)
      BY <3>1, UnmountLike DEF u
    <3> QED
      BY <3>2 DEF Now, a
  <2> HIDE DEF u, a, anchor, L
  <2>12. Row(b, PutIn(L, i, v), W, n) /\ ToSet(b) = Others(a, v) \cup Parts(v)
    <3>1. Row(a, L, W, n) /\ Precedes(a, L, W, n, v, i, anchor) /\ W \in Siblings
      BY <2>6, <2>8
    <3>2. n \in Nat /\ i \in 1..n /\ v \in Mounted
      BY <1>6
    <3> HIDE DEF n, b
    <3> QED
      BY <2>9, <3>1, <3>2, RowInsert DEF b
  <2>13. Alone(b, PutIn(L, i, v), W)
    <3>1. Slotted(L, n)
      BY <2>6 DEF Row
    <3> QED
      BY <1>6, <2>7, <2>9, <2>12, <3>1, AloneInsert
  <2>14. b \in Seq(Node)
    BY <2>12 DEF Row
  <2> HIDE DEF b
  <2>15. Vnode(u.new, j, Fresh(c1, j)) = v
    BY <2>2, <2>11
  <2>16. /\ t.dom = b /\ t.new = [st.new EXCEPT ![j] = v]
         /\ t.unmounts = Append(st.unmounts, c1[i].id) /\ t.moves = st.moves
         /\ t \in PatchState \cup KeyedState(X) /\ Like(t, u, X)
    <3>1. j \in 1..Len(u.new) /\ InsertNodes(u.dom, v, anchor) = b
      BY <1>7, <2>11 DEF b
    <3>2. InsertNodes(u.dom, v, anchor) \in Seq(Node)
      BY <2>14, <3>1
    <3>3. Now(t, u, InsertNodes(u.dom, v, anchor), [u.new EXCEPT ![j] = v], u.unmounts, X)
      BY <1>6, <2>11, <2>15, <3>1, <3>2, MountLike
    <3> QED
      BY <2>11, <3>1, <3>3 DEF Now
  <2> HIDE DEF t
  <2>17. Like(t, st, X)
    BY <2>11, <2>16, LikeLike
  <2>18. Laid(t.dom, t.new, c1, c2, q, G \cup {i}, W)
    BY <1>8, <2>12, <2>13, <2>16
  <2>19. Gone(Append(st.unmounts, c1[i].id), c1, c2, q, G \cup {i})
    BY <1>1, <1>10, <1>11, <1>12, <1>13, GoneMore
  <2>20. Patching(t, c1, c2, q, G \cup {i}, W)
    BY <1>13, <2>16, <2>18, <2>19 DEF Patching
  <2> QED
    BY <2>5, <2>16, <2>17, <2>20 DEF q, PatchedTo
<1> QED
  BY <1>9, <1>10

--------------------------------------------------------------------------------
(* Placing: those of the new children that are in the container are the ones   *)
(* of A; those of K are where they belong among each other.                    *)

Placed(c1, c2, m, K) == [j \in K |-> Final(c1, c2, m, j)]
Placing(d, new, c1, c2, m, A, K, W) ==
  /\ Matches(c1, c2, m) /\ Matched(c2, m) \subseteq A /\ A \subseteq 1..Len(c2)
  /\ NewIs(new, c1, c2, m, A)
  /\ Alone(d, Placed(c1, c2, m, A), W)
  /\ K \subseteq A /\ Row(d, Placed(c1, c2, m, K), W, Len(c2))

SameHistory(t, st) == t.moves = st.moves /\ t.unmounts = st.unmounts
PlacedTo(t, st, c1, c2, m, A, K, W, X) ==
  /\ Placing(t.dom, t.new, c1, c2, m, A, K, W) /\ SameHistory(t, st)
  /\ t \in PatchState \cup KeyedState(X) /\ Like(t, st, X)

LEMMA PlacedEntries ==
  ASSUME NEW c1 \in Seq(Mounted), Distinct(c1), NEW c2 \in Seq(Child), NEW m,
         Matches(c1, c2, m), NEW K \in SUBSET (1..Len(c2))
  PROVE  Slotted(Placed(c1, c2, m, K), Len(c2))
<1> DEFINE o == Placed(c1, c2, m, K)
<1>1. DOMAIN o = K /\ \A k \in K : o[k] = Final(c1, c2, m, k)
  BY DEF Placed
<1> HIDE DEF o
<1>2. /\ \A j \in 1..Len(c2) : Final(c1, c2, m, j) \in Mounted
      /\ \A j, k \in 1..Len(c2) : Final(c1, c2, m, j).id = Final(c1, c2, m, k).id => j = k
  BY FinalIds
<1>3. Slotted(o, Len(c2))
  <2>1. \A k \in K : k \in 1..Len(c2) /\ o[k] = Final(c1, c2, m, k) /\ o[k] \in Mounted
    BY <1>1, <1>2
  <2>2. \A i, k \in K : o[i].id = o[k].id => i = k
    BY <1>2, <2>1
  <2> QED
    BY <1>1, <2>1, <2>2 DEF Slotted
<1> QED
  BY <1>3 DEF o

LEMMA PlacedDiffers ==
  ASSUME NEW c1 \in Seq(Mounted), Distinct(c1), NEW c2 \in Seq(Child), NEW m,
         Matches(c1, c2, m), NEW K \in SUBSET (1..Len(c2)), NEW j \in 1..Len(c2), j \notin K
  PROVE  \A k \in DOMAIN Placed(c1, c2, m, K) : Placed(c1, c2, m, K)[k].id # Final(c1, c2, m, j).id
<1>1. /\ DOMAIN Placed(c1, c2, m, K) = K
      /\ \A k \in K : Placed(c1, c2, m, K)[k] = Final(c1, c2, m, k)
  BY DEF Placed
<1>2. \A k \in 1..Len(c2) : Final(c1, c2, m, j).id = Final(c1, c2, m, k).id => j = k
  BY FinalIds
<1> QED
  BY <1>1, <1>2

LEMMA PlacedPut ==
  ASSUME NEW c1, NEW c2, NEW m, NEW K, NEW j
  PROVE  Placed(c1, c2, m, K \cup {j}) = PutIn(Placed(c1, c2, m, K), j, Final(c1, c2, m, j))
BY DEF Placed, PutIn

\* The old children have all been looked at.
LEMMA PlacingStarts ==
  ASSUME NEW c1 \in Seq(Mounted), Distinct(c1), NEW c2 \in Seq(Child), NEW m, NEW d, NEW new,
         NEW W \in Siblings, Laid(d, new, c1, c2, m, 1..Len(c1), W),
         NEW K \in SUBSET Matched(c2, m), \A j, k \in K : j < k => m[j] < m[k]
  PROVE  Placing(d, new, c1, c2, m, Matched(c2, m), K, W)
<1> DEFINE O == Occupied(c1, c2, m, 1..Len(c1))
           A == Matched(c2, m)
           P == Placed(c1, c2, m, A)
           q == Placed(c1, c2, m, K)
<1>1. /\ Matches(c1, c2, m) /\ NewIs(new, c1, c2, m, A)
      /\ Row(d, O, W, Len(c1)) /\ Alone(d, O, W)
  BY DEF Laid
<1>2. A \subseteq 1..Len(c2) /\ \A j \in A : m[j] \in 1..Len(c1) /\ m[j] # 0
  <2>1. Len(c1) \in Nat
    BY MountedEntries
  <2> QED
    BY <1>1, <2>1 DEF Matched, Matches
<1>3. /\ \A j \in A : m[j] \in DOMAIN O /\ O[m[j]] = Final(c1, c2, m, j)
      /\ \A i \in DOMAIN O : \E j \in A : m[j] = i
  <2>1. \A j \in A : m[j] \in DOMAIN O /\ O[m[j]] = Final(c1, c2, m, j)
    BY <1>1, <1>2, OccupiedBy
  <2>2. \A i \in DOMAIN O : i \in 1..Len(c1) /\ \E j \in 1..Len(c2) : m[j] = i
    BY <1>1, OccupiedBy
  <2>3. \A i \in 1..Len(c1) : i # 0
    BY MountedEntries
  <2> QED
    BY <2>1, <2>2, <2>3 DEF Matched
<1>4. DOMAIN P = A /\ \A j \in A : P[j] = Final(c1, c2, m, j)
  BY DEF Placed
<1>5. DOMAIN q = K /\ \A j \in K : q[j] = Final(c1, c2, m, j)
  BY DEF Placed
<1> HIDE DEF P, q, O, A
<1>6. RowNodes(P, W) = RowNodes(O, W)
  <2>1. RowNodes(P, W) \subseteq RowNodes(O, W)
    <3> SUFFICES ASSUME NEW x \in RowNodes(P, W), x \notin W PROVE x \in RowNodes(O, W)
      BY DEF RowNodes
    <3>1. PICK j \in A : x \in Parts(P[j])
      BY <1>4 DEF RowNodes
    <3>2. m[j] \in DOMAIN O /\ x \in Parts(O[m[j]])
      BY <1>3, <1>4, <3>1
    <3> QED
      BY <3>2 DEF RowNodes
  <2>2. RowNodes(O, W) \subseteq RowNodes(P, W)
    <3> SUFFICES ASSUME NEW x \in RowNodes(O, W), x \notin W PROVE x \in RowNodes(P, W)
      BY DEF RowNodes
    <3>1. PICK i \in DOMAIN O : x \in Parts(O[i])
      BY DEF RowNodes
    <3>2. PICK j \in A : m[j] = i
      BY <1>3
    <3>3. x \in Parts(P[j])
      BY <1>3, <1>4, <3>1, <3>2
    <3> QED
      BY <1>4, <3>3 DEF RowNodes
  <2> QED
    BY <2>1, <2>2
<1>7. Alone(d, P, W)
  BY <1>1, <1>6 DEF Alone
<1>8. Slotted(q, Len(c2))
  <2>1. K \in SUBSET (1..Len(c2))
    BY <1>2 DEF A
  <2> QED
    BY <1>1, <2>1, PlacedEntries DEF q
<1>9. KeepsOrder(q, O, m)
  BY <1>3, <1>5 DEF KeepsOrder, A
<1>10. Row(d, q, W, Len(c2))
  <2>1. Len(c1) \in Nat /\ Len(c2) \in Nat
    BY MountedEntries, ChildEntries
  <2> QED
    BY <1>1, <1>8, <1>9, <2>1, RowResort
<1> QED
  BY <1>1, <1>2, <1>7, <1>10 DEF Placing, P, q, A

\* A new child is mounted.
LEMMA PlaceMount ==
  ASSUME NEW X, NEW st \in PatchState \cup KeyedState(X),
         NEW c1 \in Seq(Mounted), Distinct(c1), NEW c2 \in Seq(Child), NEW m, NEW A, NEW K,
         NEW W \in Siblings, Placing(st.dom, st.new, c1, c2, m, A, K, W),
         NEW j \in 1..Len(c2), j \notin A, NEW anchor, Next1(Placed(c1, c2, m, K), W, j, anchor)
  PROVE  PlacedTo(MountAt(st, c1, j, anchor), st, c1, c2, m, A \cup {j}, K \cup {j}, W, X)
<1> DEFINE o == Placed(c1, c2, m, K)
           p == Placed(c1, c2, m, A)
           v == Final(c1, c2, m, j)
           n == Len(c2)
           d == InsertNodes(st.dom, v, anchor)
<1>1. /\ Matches(c1, c2, m) /\ Matched(c2, m) \subseteq A /\ A \subseteq 1..n
      /\ NewIs(st.new, c1, c2, m, A) /\ K \subseteq A
  BY DEF Placing
<1>2. Alone(st.dom, p, W) /\ Row(st.dom, o, W, n)
  BY DEF Placing
<1>3. v \in Mounted /\ n \in Nat
  BY <1>1, FinalIds, ChildEntries
<1>4. st.new[j] = c2[j] /\ j \in 1..Len(st.new)
  BY <1>1 DEF NewIs
<1>5. v = Vnode(st.new, j, Fresh(c1, j))
  <2>1. m[j] = 0
    BY <1>1 DEF Matched
  <2> QED
    BY <1>4, <2>1 DEF Final, Vnode
<1>6. /\ DOMAIN o = K /\ DOMAIN p = A
      /\ \A k \in K : o[k] = Final(c1, c2, m, k)
      /\ \A k \in A : p[k] = Final(c1, c2, m, k)
  BY DEF Placed
<1>7. /\ \A k \in DOMAIN o : o[k].id # v.id
      /\ \A k \in DOMAIN p : p[k].id # v.id
      /\ j \notin DOMAIN o
  <2>1. K \in SUBSET (1..n) /\ A \in SUBSET (1..n) /\ j \notin K
    BY <1>1
  <2>2. \A k \in DOMAIN o : o[k].id # v.id
    BY <1>1, <2>1, PlacedDiffers
  <2>3. \A k \in DOMAIN p : p[k].id # v.id
    BY <1>1, <2>1, PlacedDiffers
  <2> QED
    BY <1>6, <2>1, <2>2, <2>3
<1>8. Placed(c1, c2, m, K \cup {j}) = PutIn(o, j, v)
  BY PlacedPut
<1>9. Placed(c1, c2, m, A \cup {j}) = PutIn(p, j, v)
  BY PlacedPut
<1> HIDE DEF o, p, v
<1>10. Precedes(st.dom, o, W, n, v, j, anchor)
  BY <1>2, <1>3, <1>7, NextPrecedes DEF o
<1>11. Row(d, PutIn(o, j, v), W, n) /\ ToSet(d) = Others(st.dom, v) \cup Parts(v)
  BY <1>2, <1>3, <1>7, <1>10, RowInsert
<1>12. Slotted(p, n)
  <2>1. A \in SUBSET (1..n)
    BY <1>1
  <2> QED
    BY <1>1, <2>1, PlacedEntries DEF p
<1>13. Alone(d, PutIn(p, j, v), W)
  <2>1. j \notin DOMAIN p
    BY <1>6
  <2> HIDE DEF d
  <2> QED
    BY <1>2, <1>3, <1>7, <1>11, <1>12, <2>1, AloneInsert
<1>14. d \in Seq(Node)
  BY <1>11 DEF Row
<1> DEFINE t == MountAt(st, c1, j, anchor)
<1>15. Now(t, st, d, [st.new EXCEPT ![j] = v], st.unmounts, X)
  BY <1>3, <1>4, <1>5, <1>14, MountLike
<1>16. NewIs([st.new EXCEPT ![j] = v], c1, c2, m, A \cup {j})
  BY <1>1, <1>3, NewSet DEF v
<1> HIDE DEF d, t
<1>17. Placing(t.dom, t.new, c1, c2, m, A \cup {j}, K \cup {j}, W)
  <2>1. /\ Matched(c2, m) \subseteq A \cup {j} /\ A \cup {j} \subseteq 1..n
        /\ K \cup {j} \subseteq A \cup {j}
    BY <1>1
  <2> QED
    BY <1>1, <1>8, <1>9, <1>11, <1>13, <1>15, <1>16, <2>1 DEF Placing, Now
<1> QED
  BY <1>15, <1>17 DEF Now, t, PlacedTo, SameHistory

\* A new child that is in the container already is moved.
LEMMA PlaceMove ==
  ASSUME NEW c1 \in Seq(Mounted), Distinct(c1), NEW c2 \in Seq(Child), NEW m, NEW A, NEW K,
         NEW W \in Siblings, NEW d, NEW new, Placing(d, new, c1, c2, m, A, K, W),
         NEW j \in A, j \notin K, NEW anchor, Next1(Placed(c1, c2, m, K), W, j, anchor)
  PROVE  /\ Placing(InsertNodes(d, new[j], anchor), new, c1, c2, m, A, K \cup {j}, W)
         /\ InsertNodes(d, new[j], anchor) \in Seq(Node)
<1> DEFINE o == Placed(c1, c2, m, K)
           p == Placed(c1, c2, m, A)
           v == Final(c1, c2, m, j)
           n == Len(c2)
           e == InsertNodes(d, v, anchor)
<1>1. /\ Matches(c1, c2, m) /\ Matched(c2, m) \subseteq A /\ A \subseteq 1..n
      /\ NewIs(new, c1, c2, m, A) /\ K \subseteq A
  BY DEF Placing
<1>2. Alone(d, p, W) /\ Row(d, o, W, n)
  BY DEF Placing
<1>3. v \in Mounted /\ n \in Nat /\ j \in 1..n /\ new[j] = v
  <2>1. j \in 1..n
    BY <1>1
  <2> QED
    BY <1>1, <2>1, FinalIds, ChildEntries DEF NewIs
<1>4. /\ DOMAIN o = K /\ DOMAIN p = A
      /\ \A k \in K : o[k] = Final(c1, c2, m, k)
      /\ \A k \in A : p[k] = Final(c1, c2, m, k)
  BY DEF Placed
<1>5. (\A k \in DOMAIN o : o[k].id # v.id) /\ j \notin DOMAIN o
  <2>1. K \in SUBSET (1..n)
    BY <1>1
  <2> QED
    BY <1>1, <1>3, <1>4, <2>1, PlacedDiffers
<1>6. Placed(c1, c2, m, K \cup {j}) = PutIn(o, j, v)
  BY PlacedPut
<1>7. p[j] = v
  BY <1>4
<1> HIDE DEF o, p, v
<1>8. Precedes(d, o, W, n, v, j, anchor)
  BY <1>2, <1>3, <1>5, NextPrecedes DEF o
<1>9. Row(e, PutIn(o, j, v), W, n) /\ ToSet(e) = Others(d, v) \cup Parts(v)
  BY <1>2, <1>3, <1>5, <1>8, RowInsert
<1> HIDE DEF e
<1>10. Alone(e, p, W)
  <2>1. Parts(v) \subseteq ToSet(d)
    BY <1>2, <1>4, <1>7 DEF Alone, RowNodes
  <2>2. \A x \in ToSet(d) : x \in Others(d, v) \/ x \in Parts(v)
    <3> TAKE x \in ToSet(d)
    <3>1. d \in Seq(Node)
      BY <1>2 DEF Row
    <3>2. CASE x \in W
      <4>1. x[1] = 0
        BY <3>2, WrapNodes DEF Siblings
      <4> QED
        BY <1>3, <4>1 DEF Others, Mounted
    <3>3. ASSUME NEW k \in A, x \in Parts(p[k]) PROVE x \in Others(d, v) \/ x \in Parts(v)
      <4>1. p[k] \in Mounted
        BY <1>1, <1>4, <3>3, FinalIds
      <4>2. x[1] = p[k].id
        BY <3>3, <4>1, NodesEntries DEF Parts, Mounted
      <4>3. k = j \/ p[k].id # v.id
        BY <1>1, <1>3, <1>4, FinalIds DEF v
      <4> QED
        BY <1>7, <3>3, <4>2, <4>3 DEF Others
    <3> QED
      BY <1>2, <1>4, <3>2, <3>3 DEF Alone, RowNodes
  <2>3. ToSet(e) = ToSet(d)
    BY <1>9, <2>1, <2>2 DEF Others
  <2> QED
    BY <1>2, <2>3 DEF Alone
<1>11. e \in Seq(Node)
  BY <1>9 DEF Row
<1>12. K \cup {j} \subseteq A
  BY <1>1
<1>13. Placing(e, new, c1, c2, m, A, K \cup {j}, W)
  BY <1>1, <1>6, <1>9, <1>10, <1>12 DEF Placing, p
<1>14. e = InsertNodes(d, new[j], anchor)
  BY <1>3 DEF e
<1> QED
  BY <1>11, <1>13, <1>14

\* All the new children are in their places.
LEMMA PlacingEnds ==
  ASSUME NEW c1 \in Seq(Mounted), Distinct(c1), NEW c2 \in Seq(Child), NEW m, NEW d, NEW new,
         NEW W \in Siblings, Placing(d, new, c1, c2, m, 1..Len(c2), 1..Len(c2), W)
  PROVE  /\ new \in Seq(Mounted) /\ Len(new) = Len(c2) /\ Distinct(new)
         /\ \A j \in 1..Len(c2) : new[j].key = c2[j].key
         /\ d = Contents(new, W)
<1> DEFINE n == Len(c2)
           p == Placed(c1, c2, m, 1..n)
<1>1. Matches(c1, c2, m) /\ NewIs(new, c1, c2, m, 1..n) /\ Alone(d, p, W) /\ Row(d, p, W, n)
  BY DEF Placing
<1>2. /\ new \in Seq(Child \cup Mounted) /\ Len(new) = n /\ DOMAIN new = 1..n
      /\ \A j \in 1..n : new[j] = Final(c1, c2, m, j)
  BY <1>1 DEF NewIs
<1>3. new \in Seq(Mounted)
  <2>1. \A j \in 1..n : new[j] \in Mounted
    BY <1>1, <1>2, FinalIds
  <2>2. n \in Nat /\ new = [j \in 1..n |-> new[j]]
    BY <1>2
  <2>3. new \in [1..n -> Mounted]
    BY <2>1, <2>2
  <2> QED
    BY <2>2, <2>3
<1>4. Distinct(new)
  BY <1>1, <1>2, FinalIds DEF Distinct
<1>5. \A j \in 1..n : new[j].key = c2[j].key
  BY <1>2 DEF Final, Vnode
<1>6. p = new
  <2>1. new = [j \in 1..n |-> new[j]]
    BY <1>2
  <2>2. \A j \in 1..n : new[j] = Final(c1, c2, m, j)
    BY <1>2
  <2> QED
    BY <2>1, <2>2 DEF Placed
<1>7. d = Contents(new, W)
  BY <1>1, <1>2, <1>3, <1>6, RowEnds
<1> QED
  BY <1>2, <1>3, <1>4, <1>5, <1>7

--------------------------------------------------------------------------------
(* The loops of patching.                                                      *)

\* The loop that unmounts old children.
LEMMA UnmountFromKeeps ==
  ASSUME NEW X, NEW st \in PatchState \cup KeyedState(X),
         NEW c1 \in Seq(Mounted), Distinct(c1), NEW c2 \in Seq(Child), NEW m, NEW G,
         NEW W \in Siblings, Patching(st, c1, c2, m, G, W),
         NEW a \in 1..(Len(c1) + 1), NEW b \in 0..Len(c1), a <= b + 1, \A k \in a..b : k \notin G
  PROVE  PatchedTo(UnmountFrom(st, c1, a, b), st, c1, c2, m, G \cup (a..b), W, X)
<1> DEFINE T == PatchState \cup KeyedState(X)
           op(s, k) == Unmount(s, c1[k])
           J(k) == {t \in T : PatchedTo(t, st, c1, c2, m, G \cup (a..k), W, X)}
           I == [k \in (a - 1)..b |-> J(k)]
           g == [w \in T \X (a..b) |-> op(w[1], w[2])]
           Body(f) == [k \in (a - 1)..b |-> IF k < a THEN st ELSE op(f[k - 1], k)]
           F == CHOOSE f : f = Body(f)
<1>1. a \in Int /\ b \in Int /\ a - 1 \in (a - 1)..b /\ b \in (a - 1)..b /\ Len(c1) \in Nat
  BY MountedEntries
<1>2. st \in J(a - 1)
  <2>1. G \cup (a..(a - 1)) = G
    BY <1>1
  <2>2. PatchedTo(st, st, c1, c2, m, G, W, X)
    BY Zenon DEF Like, PatchedTo
  <2> QED
    BY <2>1, <2>2, Zenon
<1>3. ASSUME NEW k \in a..b, NEW s \in J(k - 1) PROVE op(s, k) \in J(k)
  <2> DEFINE H == G \cup (a..(k - 1))
  <2>1. k \in 1..Len(c1) /\ k \notin H
    BY <1>1
  <2>2. s \in T /\ PatchedTo(s, st, c1, c2, m, H, W, X)
    BY Zenon
  <2>3. k \notin H /\ Patching(s, c1, c2, m, H, W) /\ Like(s, st, X)
    BY <2>1, <2>2 DEF PatchedTo
  <2> HIDE DEF H
  <2>4. PatchedTo(op(s, k), s, c1, c2, m, H \cup {k}, W, X)
    BY <2>1, <2>2, <2>3, UnmountStep
  <2> HIDE DEF op
  <2>5. PatchedTo(op(s, k), st, c1, c2, m, H \cup {k}, W, X) /\ op(s, k) \in T
    BY <2>3, <2>4, LikeLike DEF PatchedTo
  <2>6. H \cup {k} = G \cup (a..k)
    <3>1. a..k = (a..(k - 1)) \cup {k}
      BY <1>1
    <3> QED
      BY <3>1 DEF H
  <2> HIDE DEF T
  <2> QED
    BY <2>5, <2>6, Zenon
<1>4. /\ \A k \in (a - 1)..b : I[k] = J(k)
      /\ \A k \in a..b : \A s \in T : g[<< s, k >>] = op(s, k)
      /\ I \in [(a - 1)..b -> SUBSET T]
  <2>1. \A k \in a..b : \A s \in T : << s, k >> \in T \X (a..b) /\ << s, k >>[1] = s /\ << s, k >>[2] = k
    OBVIOUS
  <2> QED
    BY <2>1
<1> HIDE DEF I, g, J, op, T
<1>5. UpKeeps(g, I, a, b)
  <2> SUFFICES ASSUME NEW k \in a..b, NEW s \in I[k - 1] PROVE g[<< s, k >>] \in I[k]
    BY DEF UpKeeps
  <2>1. k - 1 \in (a - 1)..b /\ k \in (a - 1)..b
    BY <1>1
  <2>2. s \in J(k - 1) /\ s \in T
    BY <1>4, <2>1
  <2> QED
    BY <1>3, <1>4, <2>1, <2>2
<1>6. st \in I[a - 1]
  BY <1>1, <1>2, <1>4
<1>7. F = Body(F)
  <2>1. PICK f \in [(a - 1)..b -> T] : UpRun(f, st, g, I, a, b)
    BY <1>1, <1>4, <1>5, <1>6, UpRuns
  <2>2. /\ f = [k \in (a - 1)..b |-> IF k < a THEN st ELSE g[<< f[k - 1], k >>]]
        /\ \A k \in a..b : f[k - 1] \in T
    BY <1>1, <2>1, UpFixed
  <2>3. \A k \in (a - 1)..b :
          (IF k < a THEN st ELSE g[<< f[k - 1], k >>]) = (IF k < a THEN st ELSE op(f[k - 1], k))
    BY <1>1, <1>4, <2>2
  <2>4. f = Body(f)
    BY <2>2, <2>3
  <2> HIDE DEF Body
  <2> QED
    BY <2>4
<1>8. F[a - 1] = st /\ \A k \in a..b : F[k] = op(F[k - 1], k)
  <2> HIDE DEF F
  <2> QED
    BY <1>1, <1>7
<1>9. UnmountFrom(st, c1, a, b) = F[b]
  <2>1. UnmountFrom(st, c1, a, b) = IF b < a THEN st ELSE F[b]
    BY DEF UnmountFrom, Up, op
  <2>2. b < a => b = a - 1
    BY <1>1
  <2> QED
    BY <1>8, <2>1, <2>2
<1> HIDE DEF F
<1>10. F[b] \in I[b]
  <2>1. UpGoes(F, T, g, a, b)
    BY <1>4, <1>8 DEF UpGoes
  <2>2. I \in [(a - 1)..b -> SUBSET T] /\ F[a - 1] = st
    BY <1>4, <1>8
  <2> QED
    BY <1>1, <1>5, <1>6, <2>1, <2>2, UpEnds
<1>11. F[b] \in J(b)
  BY <1>1, <1>4, <1>10
<1> QED
  BY <1>9, <1>11 DEF J, T

\* The host node before which the new child b or those before it belong.
AnchorOf(c1, c2, m, W, b) ==
  IF b < Len(c2) THEN el(Final(c1, c2, m, b + 1)) ELSE IF W = {} THEN << >> ELSE After
\* It is the anchor for the slot k as long as those from k to b are empty.
LEMMA AnchorNext ==
  ASSUME NEW c1, NEW c2 \in Seq(Child), NEW m, NEW W, NEW K \in SUBSET (1..Len(c2)),
         NEW k \in 1..Len(c2), NEW b \in k..Len(c2), b < Len(c2) => b + 1 \in K,
         \A l \in K : l > k => l > b
  PROVE  Next1(Placed(c1, c2, m, K), W, k, AnchorOf(c1, c2, m, W, b))
<1> DEFINE o == Placed(c1, c2, m, K)
<1>1. DOMAIN o = K /\ \A l \in K : o[l] = Final(c1, c2, m, l)
  BY DEF Placed
<1>2. Len(c2) \in Nat
  BY ChildEntries
<1>5. b \in Int /\ k \in Int /\ b <= Len(c2) /\ \A l \in K : l \in Int /\ l <= Len(c2)
  BY <1>2
<1> HIDE DEF o
<1>3. CASE b < Len(c2)
  <2>1. b + 1 \in DOMAIN o /\ b + 1 > k /\ AnchorOf(c1, c2, m, W, b) = el(o[b + 1])
    BY <1>1, <1>2, <1>3 DEF AnchorOf
  <2>2. \A l \in DOMAIN o : l > k => l >= b + 1
    <3> TAKE l \in DOMAIN o
    <3>1. l \in K
      BY <1>1
    <3> HAVE l > k
    <3>2. l > b /\ l \in Int /\ b \in Int
      BY <1>5, <3>1
    <3> QED
      BY <3>2
  <2> QED
    BY <2>1, <2>2 DEF Next1, o
<1>4. CASE b >= Len(c2)
  <2>1. \A l \in DOMAIN o : l <= k
    BY <1>1, <1>2, <1>4, <1>5
  <2>2. AnchorOf(c1, c2, m, W, b) = IF W = {} THEN << >> ELSE After
    BY <1>2, <1>4 DEF AnchorOf
  <2> QED
    BY <2>1, <2>2 DEF Next1, o
<1> QED
  BY <1>2, <1>3, <1>4

\* The loop that mounts new children.
LEMMA MountFromKeeps ==
  ASSUME NEW X, NEW st \in PatchState \cup KeyedState(X),
         NEW c1 \in Seq(Mounted), Distinct(c1), NEW c2 \in Seq(Child), NEW m, NEW A, NEW K,
         NEW W \in Siblings, Placing(st.dom, st.new, c1, c2, m, A, K, W),
         NEW a \in 1..(Len(c2) + 1), NEW b \in 0..Len(c2), a <= b + 1,
         \A k \in a..b : k \notin A, b < Len(c2) => b + 1 \in K,
         NEW anchor, anchor = AnchorOf(c1, c2, m, W, b)
  PROVE  PlacedTo(MountFrom(st, c1, a, b, anchor), st, c1, c2, m, A \cup (a..b), K \cup (a..b), W, X)
<1> DEFINE T == PatchState \cup KeyedState(X)
           op(s, k) == MountAt(s, c1, k, anchor)
           J(k) == {t \in T : PlacedTo(t, st, c1, c2, m, A \cup (a..k), K \cup (a..k), W, X)}
           I == [k \in (a - 1)..b |-> J(k)]
           g == [w \in T \X (a..b) |-> op(w[1], w[2])]
           Body(f) == [k \in (a - 1)..b |-> IF k < a THEN st ELSE op(f[k - 1], k)]
           F == CHOOSE f : f = Body(f)
<1>1. a \in Int /\ b \in Int /\ a - 1 \in (a - 1)..b /\ b \in (a - 1)..b /\ Len(c2) \in Nat
  BY ChildEntries
<1>2. st \in J(a - 1)
  <2>1. A \cup (a..(a - 1)) = A /\ K \cup (a..(a - 1)) = K
    BY <1>1
  <2>2. PlacedTo(st, st, c1, c2, m, A, K, W, X)
    BY Zenon DEF Like, PlacedTo, SameHistory
  <2> QED
    BY <2>1, <2>2, Zenon
<1>3. ASSUME NEW k \in a..b, NEW s \in J(k - 1) PROVE op(s, k) \in J(k)
  <2> DEFINE B == A \cup (a..(k - 1))
             H == K \cup (a..(k - 1))
  <2>1. k \in 1..Len(c2) /\ k \notin B
    BY <1>1
  <2>2. s \in T /\ PlacedTo(s, st, c1, c2, m, B, H, W, X)
    BY Zenon
  <2>3. Placing(s.dom, s.new, c1, c2, m, B, H, W) /\ Like(s, st, X) /\ SameHistory(s, st)
    BY <2>2 DEF PlacedTo
  <2>4. Next1(Placed(c1, c2, m, H), W, k, anchor)
    <3>1. K \subseteq A /\ A \subseteq 1..Len(c2)
      BY DEF Placing
    <3>2. H \in SUBSET (1..Len(c2))
      BY <1>1, <3>1
    <3>3. b < Len(c2) => b + 1 \in H
      OBVIOUS
    <3>4. \A l \in H : l > k => l > b
      BY <1>1, <3>1
    <3>5. b \in k..Len(c2)
      BY <1>1
    <3> HIDE DEF H
    <3> QED
      BY <2>1, <3>2, <3>3, <3>4, <3>5, AnchorNext
  <2> HIDE DEF H, B
  <2>5. PlacedTo(op(s, k), s, c1, c2, m, B \cup {k}, H \cup {k}, W, X)
    BY <2>1, <2>2, <2>3, <2>4, PlaceMount
  <2> HIDE DEF op
  <2>6. PlacedTo(op(s, k), st, c1, c2, m, B \cup {k}, H \cup {k}, W, X) /\ op(s, k) \in T
    BY <2>3, <2>5, LikeLike DEF PlacedTo, SameHistory
  <2>7. B \cup {k} = A \cup (a..k) /\ H \cup {k} = K \cup (a..k)
    <3>1. a..k = (a..(k - 1)) \cup {k}
      BY <1>1
    <3> QED
      BY <3>1 DEF H, B
  <2> HIDE DEF T
  <2> QED
    BY <2>6, <2>7, Zenon
<1>4. /\ \A k \in (a - 1)..b : I[k] = J(k)
      /\ \A k \in a..b : \A s \in T : g[<< s, k >>] = op(s, k)
      /\ I \in [(a - 1)..b -> SUBSET T]
  <2>1. \A k \in a..b : \A s \in T : << s, k >> \in T \X (a..b) /\ << s, k >>[1] = s /\ << s, k >>[2] = k
    OBVIOUS
  <2> QED
    BY <2>1
<1> HIDE DEF I, g, J, op, T
<1>5. UpKeeps(g, I, a, b)
  <2> SUFFICES ASSUME NEW k \in a..b, NEW s \in I[k - 1] PROVE g[<< s, k >>] \in I[k]
    BY DEF UpKeeps
  <2>1. k - 1 \in (a - 1)..b /\ k \in (a - 1)..b
    BY <1>1
  <2>2. s \in J(k - 1) /\ s \in T
    BY <1>4, <2>1
  <2> QED
    BY <1>3, <1>4, <2>1, <2>2
<1>6. st \in I[a - 1]
  BY <1>1, <1>2, <1>4
<1>7. F = Body(F)
  <2>1. PICK f \in [(a - 1)..b -> T] : UpRun(f, st, g, I, a, b)
    BY <1>1, <1>4, <1>5, <1>6, UpRuns
  <2>2. /\ f = [k \in (a - 1)..b |-> IF k < a THEN st ELSE g[<< f[k - 1], k >>]]
        /\ \A k \in a..b : f[k - 1] \in T
    BY <1>1, <2>1, UpFixed
  <2>3. \A k \in (a - 1)..b :
          (IF k < a THEN st ELSE g[<< f[k - 1], k >>]) = (IF k < a THEN st ELSE op(f[k - 1], k))
    BY <1>1, <1>4, <2>2
  <2>4. f = Body(f)
    BY <2>2, <2>3
  <2> HIDE DEF Body
  <2> QED
    BY <2>4
<1>8. F[a - 1] = st /\ \A k \in a..b : F[k] = op(F[k - 1], k)
  <2> HIDE DEF F
  <2> QED
    BY <1>1, <1>7
<1>9. MountFrom(st, c1, a, b, anchor) = F[b]
  <2>1. MountFrom(st, c1, a, b, anchor) = IF b < a THEN st ELSE F[b]
    BY DEF MountFrom, Up, op
  <2>2. b < a => b = a - 1
    BY <1>1
  <2> QED
    BY <1>8, <2>1, <2>2
<1> HIDE DEF F
<1>10. F[b] \in I[b]
  <2>1. UpGoes(F, T, g, a, b)
    BY <1>4, <1>8 DEF UpGoes
  <2>2. I \in [(a - 1)..b -> SUBSET T] /\ F[a - 1] = st
    BY <1>4, <1>8
  <2> QED
    BY <1>1, <1>5, <1>6, <2>1, <2>2, UpEnds
<1>11. F[b] \in J(b)
  BY <1>1, <1>4, <1>10
<1> QED
  BY <1>9, <1>11 DEF J, T

LEMMA IntervalGrows ==
  ASSUME NEW a \in Int, NEW b \in Int, a <= b
  PROVE  a..b = (a..(b - 1)) \cup {b}
OBVIOUS

\* The old children after p are matched to the new ones after q, as far as n.
Shifted(c2, m, p, q, n) ==
  [j \in 1..Len(c2) |-> IF j \in (q + 1)..(q + n) THEN p + (j - q) ELSE m[j]]
\* One old child is patched to the new one at the same distance.
LEMMA SyncStep ==
  ASSUME NEW X, NEW st, NEW s \in PatchState \cup KeyedState(X),
         NEW c1 \in Seq(Mounted), Distinct(c1), NEW c2 \in Seq(Child), NEW m, NEW G,
         NEW W \in Siblings,
         NEW p \in Nat, NEW q \in Nat, NEW n \in Nat, p + n <= Len(c1), q + n <= Len(c2),
         \A k \in 1..n : p + k \notin G /\ m[q + k] = 0 /\ c1[p + k].key = c2[q + k].key,
         NEW k \in 1..n,
         PatchedTo(s, st, c1, c2, Shifted(c2, m, p, q, k - 1), G \cup ((p + 1)..(p + (k - 1))), W, X)
  PROVE  PatchedTo(Patch(s, c1, p + k, q + k), st, c1, c2, Shifted(c2, m, p, q, k),
                   G \cup ((p + 1)..(p + k)), W, X)
<1> DEFINE l == Shifted(c2, m, p, q, k - 1)
           H == G \cup ((p + 1)..(p + (k - 1)))
           t == Patch(s, c1, p + k, q + k)
<1>1. Len(c1) \in Nat /\ Len(c2) \in Nat
  BY MountedEntries, ChildEntries
<1>2. p + k \in 1..Len(c1) /\ q + k \in 1..Len(c2) /\ p + k \notin H
  BY <1>1
<1>3. l[q + k] = 0
  <2>1. q + k \notin (q + 1)..(q + (k - 1)) /\ m[q + k] = 0
    OBVIOUS
  <2> QED
    BY <1>2, <2>1 DEF Shifted
<1>4. [l EXCEPT ![q + k] = p + k] = Shifted(c2, m, p, q, k)
  <2>1. \A j \in 1..Len(c2) : [l EXCEPT ![q + k] = p + k][j] = Shifted(c2, m, p, q, k)[j]
    <3> TAKE j \in 1..Len(c2)
    <3>1. CASE j = q + k
      BY <1>1, <1>2, <3>1 DEF Shifted
    <3>2. CASE j # q + k
      <4>1. j \in (q + 1)..(q + k) <=> j \in (q + 1)..(q + (k - 1))
        BY <1>1, <3>2, SMTT(40)
      <4> QED
        BY <1>1, <1>2, <3>2, <4>1 DEF Shifted
    <3> QED
      BY <3>1, <3>2
  <2> QED
    BY <2>1 DEF Shifted
<1>5. H \cup {p + k} = G \cup ((p + 1)..(p + k))
  <2>1. (p + 1)..(p + k) = ((p + 1)..(p + (k - 1))) \cup {p + k}
    <3>1. p + 1 \in Int /\ p + k \in Int /\ p + 1 <= p + k /\ (p + k) - 1 = p + (k - 1)
      OBVIOUS
    <3>2. (p + 1)..(p + k) = ((p + 1)..((p + k) - 1)) \cup {p + k}
      BY <3>1, IntervalGrows
    <3> QED
      BY <3>1, <3>2
  <2> QED
    BY <2>1
<1>6. c1[p + k].key = c2[q + k].key
  OBVIOUS
<1> HIDE DEF l, H, t
<1>7. Patching(s, c1, c2, l, H, W) /\ Like(s, st, X)
  BY DEF PatchedTo, l, H
<1>8. PatchedTo(t, s, c1, c2, [l EXCEPT ![q + k] = p + k], H \cup {p + k}, W, X)
  BY <1>2, <1>3, <1>6, <1>7, PatchStep DEF t
<1>9. PatchedTo(t, st, c1, c2, [l EXCEPT ![q + k] = p + k], H \cup {p + k}, W, X)
  BY <1>7, <1>8, LikeLike DEF PatchedTo
<1> QED
  BY <1>4, <1>5, <1>9 DEF t

\* The loop that patches old children to as many new ones.
LEMMA PatchFromKeeps ==
  ASSUME NEW X, NEW st \in PatchState \cup KeyedState(X),
         NEW c1 \in Seq(Mounted), Distinct(c1), NEW c2 \in Seq(Child), NEW m, NEW G,
         NEW W \in Siblings, Patching(st, c1, c2, m, G, W),
         NEW p \in Nat, NEW q \in Nat, NEW n \in Nat, p + n <= Len(c1), q + n <= Len(c2),
         \A k \in 1..n : p + k \notin G /\ m[q + k] = 0 /\ c1[p + k].key = c2[q + k].key
  PROVE  PatchedTo(PatchFrom(st, c1, p, q, n), st, c1, c2,
                   Shifted(c2, m, p, q, n), G \cup ((p + 1)..(p + n)), W, X)
<1> DEFINE T == PatchState \cup KeyedState(X)
           a == 1
           b == n
           op(s, k) == Patch(s, c1, p + k, q + k)
           J(k) == {t \in T : PatchedTo(t, st, c1, c2, Shifted(c2, m, p, q, k),
                                        G \cup ((p + 1)..(p + k)), W, X)}
           I == [k \in (a - 1)..b |-> J(k)]
           g == [w \in T \X (a..b) |-> op(w[1], w[2])]
           Body(f) == [k \in (a - 1)..b |-> IF k < a THEN st ELSE op(f[k - 1], k)]
           F == CHOOSE f : f = Body(f)
<1>1. a \in Int /\ b \in Int /\ a - 1 \in (a - 1)..b /\ b \in (a - 1)..b /\ a - 1 = 0 /\ a <= b + 1
  OBVIOUS
<1>2. st \in J(a - 1)
  <2>1. G \cup ((p + 1)..(p + 0)) = G
    OBVIOUS
  <2>2. Shifted(c2, m, p, q, 0) = m
    <3>1. m \in [1..Len(c2) -> 0..Len(c1)]
      BY DEF Patching, Laid, Matches
    <3>2. \A j \in 1..Len(c2) : j \notin (q + 1)..(q + 0)
      BY ChildEntries
    <3> QED
      BY <3>1, <3>2 DEF Shifted
  <2>3. PatchedTo(st, st, c1, c2, m, G, W, X)
    BY Zenon DEF Like, PatchedTo
  <2>4. st \in J(0)
    BY <2>1, <2>2, <2>3, Zenon
  <2> QED
    BY <1>1, <2>4
<1>3. ASSUME NEW k \in a..b, NEW s \in J(k - 1) PROVE op(s, k) \in J(k)
  <2>1. s \in T /\ k \in 1..n
    OBVIOUS
  <2>2. PatchedTo(s, st, c1, c2, Shifted(c2, m, p, q, k - 1), G \cup ((p + 1)..(p + (k - 1))), W, X)
    BY Zenon
  <2>3. PatchedTo(op(s, k), st, c1, c2, Shifted(c2, m, p, q, k), G \cup ((p + 1)..(p + k)), W, X)
    BY <2>1, <2>2, SyncStep
  <2> HIDE DEF op
  <2>4. op(s, k) \in T
    BY <2>3 DEF PatchedTo
  <2> HIDE DEF T
  <2> QED
    BY <2>3, <2>4, Zenon
<1>4. /\ \A k \in (a - 1)..b : I[k] = J(k)
      /\ \A k \in a..b : \A s \in T : g[<< s, k >>] = op(s, k)
      /\ I \in [(a - 1)..b -> SUBSET T]
  <2>1. \A k \in a..b : \A s \in T : << s, k >> \in T \X (a..b) /\ << s, k >>[1] = s /\ << s, k >>[2] = k
    OBVIOUS
  <2> QED
    BY <2>1
<1> HIDE DEF I, g, J, op, T, a, b
<1>5. UpKeeps(g, I, a, b)
  <2> SUFFICES ASSUME NEW k \in a..b, NEW s \in I[k - 1] PROVE g[<< s, k >>] \in I[k]
    BY DEF UpKeeps
  <2>1. k - 1 \in (a - 1)..b /\ k \in (a - 1)..b
    BY <1>1
  <2>2. s \in J(k - 1) /\ s \in T
    BY <1>4, <2>1
  <2> QED
    BY <1>3, <1>4, <2>1, <2>2
<1>6. st \in I[a - 1]
  BY <1>1, <1>2, <1>4
<1>7. F = Body(F)
  <2>1. PICK f \in [(a - 1)..b -> T] : UpRun(f, st, g, I, a, b)
    BY <1>1, <1>4, <1>5, <1>6, UpRuns
  <2>2. /\ f = [k \in (a - 1)..b |-> IF k < a THEN st ELSE g[<< f[k - 1], k >>]]
        /\ \A k \in a..b : f[k - 1] \in T
    BY <1>1, <2>1, UpFixed
  <2>3. \A k \in (a - 1)..b :
          (IF k < a THEN st ELSE g[<< f[k - 1], k >>]) = (IF k < a THEN st ELSE op(f[k - 1], k))
    BY <1>1, <1>4, <2>2
  <2>4. f = Body(f)
    BY <2>2, <2>3
  <2> HIDE DEF Body
  <2> QED
    BY <2>4
<1>8. F[a - 1] = st /\ \A k \in a..b : F[k] = op(F[k - 1], k)
  <2> HIDE DEF F
  <2> QED
    BY <1>1, <1>7
<1>9. PatchFrom(st, c1, p, q, n) = F[b]
  <2>1. PatchFrom(st, c1, p, q, n) = IF b < a THEN st ELSE F[b]
    BY DEF PatchFrom, Up, op, a, b
  <2>2. b < a => b = a - 1
    BY <1>1
  <2> QED
    BY <1>8, <2>1, <2>2
<1> HIDE DEF F
<1>10. F[b] \in I[b]
  <2>1. UpGoes(F, T, g, a, b)
    BY <1>4, <1>8 DEF UpGoes
  <2>2. I \in [(a - 1)..b -> SUBSET T] /\ F[a - 1] = st
    BY <1>4, <1>8
  <2> QED
    BY <1>1, <1>5, <1>6, <2>1, <2>2, UpEnds
<1>11. F[b] \in J(b)
  BY <1>1, <1>4, <1>10
<1> QED
  BY <1>9, <1>11 DEF J, T, a, b

--------------------------------------------------------------------------------
(* A whole patch.                                                              *)

Grows(m, K) == \A j, k \in K : j < k => m[j] < m[k]
Unmatched(c2) == [j \in 1..Len(c2) |-> 0]

\* An old and a new child that the keyed diff takes for the same one.
Alike(v, w) == v.key = w.key /\ (v.key # NoKey \/ v.type = w.type)
\* No old child is given up for which there is a new one left.
Thorough(c1, c2, m) ==
  /\ \A i \in 1..Len(c1), j \in 1..Len(c2) :
       m[j] = 0 /\ (\A k \in 1..Len(c2) : m[k] # i) => ~Alike(c1[i], c2[j])
  /\ \A j \in Matched(c2, m) : c2[j].key = NoKey => c1[m[j]].type = c2[j].type
Keyless(c) == \A i \in 1..Len(c) : c[i].key = NoKey
\* The unkeyed diff is for fragments whose children have no keys.
Reuses(c1, c2, m, W) == Thorough(c1, c2, m) \/ (Keyless(c1) /\ Keyless(c2) /\ W # {})
\* Of the matched children, those of ms are moved, and no more could have stayed.
Greatest(K, c2, m) ==
  /\ K \in SUBSET Matched(c2, m) /\ Grows(m, K)
  /\ \A L \in SUBSET Matched(c2, m) : Grows(m, L) => Cardinality(L) <= Cardinality(K)
MovesLeast(ms, c1, c2, m) ==
  \/ ms = {}
  \/ Thorough(c1, c2, m) /\ \E K : Greatest(K, c2, m) /\ ms = Matched(c2, m) \ K
Spares(st, c1, c2, m, W) ==
  /\ Matches(c1, c2, m) /\ \A j \in 1..Len(c2) : st.new[j] = Final(c1, c2, m, j)
  /\ Gone(st.unmounts, c1, c2, m, 1..Len(c1))
  /\ Reuses(c1, c2, m, W) /\ MovesLeast(st.moves, c1, c2, m)
Patched(st, c1, c2, W) ==
  /\ st.new \in Seq(Mounted) /\ Len(st.new) = Len(c2) /\ Distinct(st.new)
  /\ \A j \in 1..Len(c2) : st.new[j].key = c2[j].key
  /\ st.dom = Contents(st.new, W)
  /\ \E m : Spares(st, c1, c2, m, W)

\* All the new children are mounted where they belong.
LEMMA PatchedWhen ==
  ASSUME NEW c1 \in Seq(Mounted), Distinct(c1), NEW c2 \in Seq(Child), NEW m, NEW st,
         NEW W \in Siblings, Placing(st.dom, st.new, c1, c2, m, 1..Len(c2), 1..Len(c2), W),
         Gone(st.unmounts, c1, c2, m, 1..Len(c1)), Reuses(c1, c2, m, W),
         MovesLeast(st.moves, c1, c2, m)
  PROVE  Patched(st, c1, c2, W)
<1>1. /\ st.new \in Seq(Mounted) /\ Len(st.new) = Len(c2) /\ Distinct(st.new)
      /\ \A j \in 1..Len(c2) : st.new[j].key = c2[j].key
      /\ st.dom = Contents(st.new, W)
  BY PlacingEnds
<1>2. Matches(c1, c2, m) /\ \A j \in 1..Len(c2) : st.new[j] = Final(c1, c2, m, j)
  BY DEF Placing, NewIs
<1>3. Spares(st, c1, c2, m, W)
  BY <1>2 DEF Spares
<1> QED
  BY <1>1, <1>3 DEF Patched

\* Before a patch no old child has been looked at.
LEMMA PatchingBegins ==
  ASSUME NEW c1 \in Seq(Mounted), Distinct(c1), NEW c2 \in Seq(Child), NEW W \in Siblings
  PROVE  /\ Laid(Contents(c1, W), c2, c1, c2, Unmatched(c2), {}, W)
         /\ Contents(c1, W) \in Seq(Node) /\ c2 \in Seq(Child \cup Mounted)
<1> DEFINE m == Unmatched(c2)
           d == Contents(c1, W)
           O == Occupied(c1, c2, m, {})
<1>1. Len(c1) \in Nat /\ Len(c2) \in Nat /\ DOMAIN c1 = 1..Len(c1)
  BY MountedEntries, ChildEntries
<1>2. \A j \in 1..Len(c2) : m[j] = 0
  BY DEF Unmatched
<1>3. Matches(c1, c2, m)
  BY <1>1, <1>2 DEF Matches, Unmatched
<1>4. Matched(c2, m) = {}
  BY <1>2 DEF Matched
<1>5. c2 \in Seq(Child \cup Mounted)
  OBVIOUS
<1>6. NewIs(c2, c1, c2, m, {})
  BY <1>5 DEF NewIs
<1> HIDE DEF m
<1>7. O = c1
  <2>1. c1 = [i \in 1..Len(c1) |-> c1[i]]
    BY <1>1
  <2>2. {k \in 1..Len(c1) : k \notin {} \/ \E j \in 1..Len(c2) : m[j] = k} = 1..Len(c1)
    OBVIOUS
  <2>3. O = [i \in 1..Len(c1) |-> c1[i]]
    BY <2>2 DEF Occupied
  <2> QED
    BY <2>1, <2>3
<1>8. Row(d, c1, W, Len(c1)) /\ Alone(d, c1, W)
  BY RowStarts
<1>9. d \in Seq(Node)
  BY <1>8 DEF Row
<1> HIDE DEF O, d
<1>10. Laid(d, c2, c1, c2, m, {}, W)
  BY <1>3, <1>4, <1>6, <1>7, <1>8 DEF Laid, O
<1> QED
  BY <1>5, <1>9, <1>10 DEF m, d

LEMMA PatchStarts ==
  ASSUME NEW c2 \in Seq(Child \cup Mounted), NEW d \in Seq(Node)
  PROVE  /\ StartPatch(c2, d) \in PatchState
         /\ StartPatch(c2, d).dom = d /\ StartPatch(c2, d).new = c2
         /\ StartPatch(c2, d).moves = {} /\ StartPatch(c2, d).unmounts = << >>
BY DEF StartPatch, PatchState

LEMMA NoneGone ==
  ASSUME NEW c1, NEW c2, NEW m, NEW us, us = << >>
  PROVE  Gone(us, c1, c2, m, {})
BY DEF Gone

\* A patch starts with the old children and their nodes.
LEMMA PatchBegins ==
  ASSUME NEW c1 \in Seq(Mounted), Distinct(c1), NEW c2 \in Seq(Child), NEW W \in Siblings,
         NEW s, s = StartPatch(c2, Contents(c1, W))
  PROVE  /\ Patching(s, c1, c2, Unmatched(c2), {}, W) /\ s \in PatchState
         /\ s.dom = Contents(c1, W) /\ s.new = c2
<1>1. /\ Laid(Contents(c1, W), c2, c1, c2, Unmatched(c2), {}, W)
      /\ Contents(c1, W) \in Seq(Node) /\ c2 \in Seq(Child \cup Mounted)
  BY PatchingBegins
<1>2. /\ s \in PatchState /\ s.dom = Contents(c1, W) /\ s.new = c2
      /\ s.moves = {} /\ s.unmounts = << >>
  <2> DEFINE d == Contents(c1, W)
  <2>1. d \in Seq(Node) /\ c2 \in Seq(Child \cup Mounted) /\ s = StartPatch(c2, d)
    BY <1>1
  <2> HIDE DEF d
  <2>2. /\ StartPatch(c2, d) \in PatchState
        /\ StartPatch(c2, d).dom = d /\ StartPatch(c2, d).new = c2
        /\ StartPatch(c2, d).moves = {} /\ StartPatch(c2, d).unmounts = << >>
    BY <2>1, PatchStarts
  <2>3. /\ s \in PatchState /\ s.dom = d /\ s.new = c2
        /\ s.moves = {} /\ s.unmounts = << >>
    BY <2>1, <2>2, Zenon
  <2> QED
    BY <2>3 DEF d
<1>3. Gone(s.unmounts, c1, c2, Unmatched(c2), {})
  BY <1>2, NoneGone
<1> QED
  BY <1>1, <1>2, <1>3 DEF Patching

\* All the new children have been matched.
LEMMA AllMatched ==
  ASSUME NEW c1 \in Seq(Mounted), Distinct(c1), NEW c2 \in Seq(Child), NEW m, NEW st,
         NEW W \in Siblings, Patching(st, c1, c2, m, 1..Len(c1), W),
         Matched(c2, m) = 1..Len(c2), Grows(m, 1..Len(c2)), Reuses(c1, c2, m, W)
  PROVE  Patched(st, c1, c2, W)
<1>1. 1..Len(c2) \in SUBSET Matched(c2, m) /\ \A j, k \in 1..Len(c2) : j < k => m[j] < m[k]
  BY DEF Grows
<1>2. Placing(st.dom, st.new, c1, c2, m, Matched(c2, m), 1..Len(c2), W)
  BY <1>1, PlacingStarts DEF Patching
<1>3. Placing(st.dom, st.new, c1, c2, m, 1..Len(c2), 1..Len(c2), W)
  BY <1>2
<1>4. Gone(st.unmounts, c1, c2, m, 1..Len(c1)) /\ MovesLeast(st.moves, c1, c2, m)
  BY DEF Patching, MovesLeast
<1> QED
  BY <1>3, <1>4, PatchedWhen

\* All but those from a to b have.
LEMMA RestMounted ==
  ASSUME NEW X, NEW st \in PatchState \cup KeyedState(X),
         NEW c1 \in Seq(Mounted), Distinct(c1), NEW c2 \in Seq(Child), NEW m,
         NEW W \in Siblings, Patching(st, c1, c2, m, 1..Len(c1), W),
         NEW a \in 1..(Len(c2) + 1), NEW b \in 0..Len(c2), a <= b + 1,
         \A j \in 1..Len(c2) : j \in Matched(c2, m) <=> j \notin a..b,
         Grows(m, Matched(c2, m)), Reuses(c1, c2, m, W),
         NEW anchor, anchor = AnchorOf(c1, c2, m, W, b)
  PROVE  Patched(MountFrom(st, c1, a, b, anchor), c1, c2, W)
<1> DEFINE A == Matched(c2, m)
           t == MountFrom(st, c1, a, b, anchor)
<1>1. A \in SUBSET Matched(c2, m) /\ \A j, k \in A : j < k => m[j] < m[k]
  BY DEF Grows
<1>2. Placing(st.dom, st.new, c1, c2, m, A, A, W)
  BY <1>1, PlacingStarts DEF Patching
<1>3. Len(c2) \in Nat
  BY ChildEntries
<1>4. (\A k \in a..b : k \notin A) /\ (b < Len(c2) => b + 1 \in A)
  <2>1. \A k \in a..b : k \in 1..Len(c2)
    BY <1>3
  <2>2. b < Len(c2) => b + 1 \in 1..Len(c2) /\ b + 1 \notin a..b
    BY <1>3
  <2> QED
    BY <2>1, <2>2
<1>5. A \cup (a..b) = 1..Len(c2)
  <2>1. A \subseteq 1..Len(c2) /\ a..b \subseteq 1..Len(c2)
    BY <1>3 DEF Matched
  <2>2. \A j \in 1..Len(c2) : j \in A \/ j \in a..b
    OBVIOUS
  <2> HIDE DEF A
  <2> QED
    BY <2>1, <2>2
<1> HIDE DEF A, t
<1>6. PlacedTo(t, st, c1, c2, m, A \cup (a..b), A \cup (a..b), W, X)
  BY <1>2, <1>4, MountFromKeeps DEF t
<1>7. Placing(t.dom, t.new, c1, c2, m, 1..Len(c2), 1..Len(c2), W)
  BY <1>5, <1>6 DEF PlacedTo
<1>9. Gone(t.unmounts, c1, c2, m, 1..Len(c1)) /\ MovesLeast(t.moves, c1, c2, m)
  BY <1>6 DEF Patching, PlacedTo, SameHistory, MovesLeast
<1>8. Patched(t, c1, c2, W)
  BY <1>7, <1>9, PatchedWhen
<1> QED
  BY <1>8 DEF t

LEMMA MinOfTwo ==
  ASSUME NEW a \in Nat, NEW b \in Nat
  PROVE  /\ Min({a, b}) \in Nat /\ Min({a, b}) <= a /\ Min({a, b}) <= b
         /\ Min({a, b}) = a \/ Min({a, b}) = b
<1>1. \E x \in {a, b} : \A y \in {a, b} : x <= y
  <2>1. CASE a <= b
    BY <2>1
  <2>2. CASE b <= a
    BY <2>2
  <2> QED
    BY <2>1, <2>2
<1>2. Min({a, b}) \in {a, b} /\ \A y \in {a, b} : Min({a, b}) <= y
  BY <1>1 DEF Min
<1> QED
  BY <1>2

\* Where the children have no keys.
LEMMA UnkeyedPatched ==
  ASSUME NEW c1 \in Seq(Mounted), Distinct(c1), NEW c2 \in Seq(Child), NEW W \in Siblings, W # {},
         \A i \in 1..Len(c1) : c1[i].key = NoKey, \A j \in 1..Len(c2) : c2[j].key = NoKey,
         NEW anchor, anchor = IF W = {} THEN << >> ELSE After
  PROVE  Patched(PatchUnkeyedChildren(c1, c2, Contents(c1, W), anchor), c1, c2, W)
<1> DEFINE n == Min({Len(c1), Len(c2)})
           s0 == StartPatch(c2, Contents(c1, W))
           st == PatchFrom(s0, c1, 0, 0, n)
           m == Shifted(c2, Unmatched(c2), 0, 0, n)
           X == {}
<1>1. Len(c1) \in Nat /\ Len(c2) \in Nat
  BY MountedEntries, ChildEntries
<1>2. n \in Nat /\ n <= Len(c1) /\ n <= Len(c2) /\ (n = Len(c1) \/ n = Len(c2))
  BY <1>1, MinOfTwo
<1>3. PatchUnkeyedChildren(c1, c2, Contents(c1, W), anchor)
        = IF Len(c1) > Len(c2) THEN UnmountFrom(st, c1, n + 1, Len(c1))
          ELSE MountFrom(st, c1, n + 1, Len(c2), anchor)
  BY DEF PatchUnkeyedChildren
<1>4. /\ s0 \in PatchState \cup KeyedState(X)
      /\ Patching(s0, c1, c2, Unmatched(c2), {}, W)
  BY PatchBegins
<1> HIDE DEF n, s0
<1>13. Reuses(c1, c2, m, W)
  BY DEF Reuses, Keyless
<1>5. PatchedTo(st, s0, c1, c2, m, {} \cup ((0 + 1)..(0 + n)), W, X)
  <2>1. \A k \in 1..n : /\ 0 + k \notin {} /\ Unmatched(c2)[0 + k] = 0
                        /\ c1[0 + k].key = c2[0 + k].key
    BY <1>1, <1>2 DEF Unmatched
  <2>2. 0 \in Nat /\ 0 + n <= Len(c1) /\ 0 + n <= Len(c2)
    BY <1>2
  <2> QED
    BY <1>2, <1>4, <2>1, <2>2, PatchFromKeeps
<1>6. {} \cup ((0 + 1)..(0 + n)) = 1..n
  BY <1>2
<1>7. /\ Patching(st, c1, c2, m, 1..n, W)
      /\ st \in PatchState \cup KeyedState(X)
  BY <1>5, <1>6 DEF PatchedTo
<1>8. \A j \in 1..Len(c2) : m[j] = IF j <= n THEN j ELSE 0
  <2> TAKE j \in 1..Len(c2)
  <2>1. j \in (0 + 1)..(0 + n) <=> j <= n
    BY <1>1, <1>2
  <2> QED
    BY <1>1, <2>1 DEF Shifted, Unmatched
<1> HIDE DEF st, m
<1>9. \A j \in 1..Len(c2) : j \in Matched(c2, m) <=> j <= n
  BY <1>1, <1>8 DEF Matched
<1>10. Grows(m, Matched(c2, m))
  BY <1>1, <1>8, <1>9 DEF Grows, Matched
<1>11. CASE Len(c1) > Len(c2)
  <2> DEFINE t == UnmountFrom(st, c1, n + 1, Len(c1))
  <2>1. n = Len(c2)
    BY <1>1, <1>2, <1>11
  <2>2. PatchedTo(t, st, c1, c2, m, (1..n) \cup ((n + 1)..Len(c1)), W, X)
    <3>1. n + 1 \in 1..(Len(c1) + 1) /\ Len(c1) \in 0..Len(c1) /\ n + 1 <= Len(c1) + 1
      BY <1>1, <1>2
    <3>2. \A k \in (n + 1)..Len(c1) : k \notin 1..n
      BY <1>2
    <3> QED
      BY <1>7, <3>1, <3>2, UnmountFromKeeps
  <2>3. (1..n) \cup ((n + 1)..Len(c1)) = 1..Len(c1)
    BY <1>1, <1>2
  <2> HIDE DEF t
  <2>4. Patching(t, c1, c2, m, 1..Len(c1), W)
    BY <2>2, <2>3 DEF PatchedTo
  <2>5. Matched(c2, m) = 1..Len(c2)
    BY <1>1, <1>9, <2>1 DEF Matched
  <2>7. Grows(m, 1..Len(c2))
    BY <1>10, <2>5
  <2>6. Patched(t, c1, c2, W)
    BY <1>13, <2>4, <2>5, <2>7, AllMatched
  <2> QED
    BY <1>3, <1>11, <2>6 DEF t
<1>12. CASE ~(Len(c1) > Len(c2))
  <2>1. n = Len(c1)
    BY <1>1, <1>2, <1>12
  <2>2. Patching(st, c1, c2, m, 1..Len(c1), W)
    BY <1>7, <2>1
  <2>3. \A j \in 1..Len(c2) : j \in Matched(c2, m) <=> j \notin (n + 1)..Len(c2)
    BY <1>1, <1>2, <1>9
  <2>4. anchor = AnchorOf(c1, c2, m, W, Len(c2))
    BY <1>1 DEF AnchorOf
  <2>5. n + 1 \in 1..(Len(c2) + 1) /\ Len(c2) \in 0..Len(c2) /\ n + 1 <= Len(c2) + 1
    BY <1>1, <1>2
  <2>6. Patched(MountFrom(st, c1, n + 1, Len(c2), anchor), c1, c2, W)
    BY <1>7, <1>10, <1>13, <2>2, <2>3, <2>4, <2>5, RestMounted
  <2> QED
    BY <1>3, <1>12, <2>6
<1> QED
  BY <1>11, <1>12

LEMMA MinIn ==
  ASSUME NEW S, NEW a \in Int, NEW b \in Int, S \subseteq a..b, S # {}
  PROVE  Min(S) \in S
<1> DEFINE D == {n \in Nat : a + n \in S}
<1>1. D # {} /\ D \in SUBSET Nat
  <2>1. PICK x \in S : x \in a..b
    OBVIOUS
  <2>2. x - a \in Nat /\ a + (x - a) = x
    BY <2>1
  <2>3. x - a \in D
    BY <2>1, <2>2
  <2> QED
    BY <2>3
<1>2. PICK n \in D : \A i \in D : n <= i
  <2> HIDE DEF D
  <2>1. PICK n \in D : \A i \in D : << i, n >> \notin OpToRel(<, Nat)
    BY <1>1, WFMin, NatLessThanWellFounded, Zenon
  <2>2. \A i \in D : ~(i < n)
    BY <1>1, <2>1, Zenon DEF OpToRel
  <2> QED
    BY <1>1, <2>2
<1>3. \A x \in S : a + n <= x
  <2> TAKE x \in S
  <2>1. x \in a..b
    OBVIOUS
  <2>2. x - a \in Nat /\ a + (x - a) = x
    BY <2>1
  <2>3. x - a \in D
    BY <2>2
  <2>4. n <= x - a /\ n \in Nat
    BY <1>2, <2>3
  <2> QED
    BY <2>1, <2>4
<1>4. \E x \in S : \A y \in S : x <= y
  BY <1>2, <1>3
<1> QED
  BY <1>4 DEF Min

LEMMA MaxOfTwo ==
  ASSUME NEW a \in Int, NEW b \in Int
  PROVE  Max({a, b}) \in Int /\ Max({a, b}) >= a /\ Max({a, b}) >= b /\ (a >= b => Max({a, b}) = a)
<1>1. \E x \in {a, b} : \A y \in {a, b} : x >= y
  <2>1. CASE a <= b
    BY <2>1
  <2>2. CASE b <= a
    BY <2>2
  <2> QED
    BY <2>1, <2>2
<1>2. Max({a, b}) \in {a, b} /\ \A y \in {a, b} : Max({a, b}) >= y
  BY <1>1 DEF Max
<1> QED
  BY <1>2

\* The children in common at the start, and at the end.
LEMMA SyncStarts ==
  ASSUME NEW S, NEW U, NEW c1 \in Seq(S), NEW c2 \in Seq(U)
  PROVE  /\ SyncStart(c1, c2) \in Nat
         /\ SyncStart(c1, c2) <= Len(c1) /\ SyncStart(c1, c2) <= Len(c2)
         /\ \A k \in 1..SyncStart(c1, c2) : c1[k].key = c2[k].key /\ c1[k].type = c2[k].type
<1> DEFINE n == Min({Len(c1), Len(c2)})
           D == {k \in 0..n : \A i \in 1..k : IsSameVNodeType(c1[i], c2[i])}
<1>1. n \in Nat /\ n <= Len(c1) /\ n <= Len(c2)
  BY MinOfTwo
<1> HIDE DEF n
<1>2. 0 \in D
  BY <1>1
<1>3. D \subseteq 0..n /\ D # {} /\ 0 \in Int /\ n \in Int
  <2>1. D \subseteq 0..n
    OBVIOUS
  <2> HIDE DEF D
  <2> QED
    BY <1>1, <1>2, <2>1
<1>4. Max(D) \in D
  <2> HIDE DEF D
  <2> QED
    BY <1>3, MaxIn
<1>5. SyncStart(c1, c2) = Max(D)
  BY DEF SyncStart, n
<1>6. SyncStart(c1, c2) \in 0..n /\ \A i \in 1..SyncStart(c1, c2) : IsSameVNodeType(c1[i], c2[i])
  BY <1>4, <1>5
<1> QED
  BY <1>1, <1>6 DEF IsSameVNodeType

\* How many children are in common at the end.
LEMMA SyncEnds ==
  ASSUME NEW S, NEW U, NEW c1 \in Seq(S), NEW c2 \in Seq(U), NEW start \in Nat,
         start <= Len(c1), start <= Len(c2)
  PROVE  /\ SyncEnd(c1, c2, start) \in Nat
         /\ start + SyncEnd(c1, c2, start) <= Len(c1) /\ start + SyncEnd(c1, c2, start) <= Len(c2)
         /\ \A k \in 0..(SyncEnd(c1, c2, start) - 1) :
              /\ c1[Len(c1) - k].key = c2[Len(c2) - k].key
              /\ c1[Len(c1) - k].type = c2[Len(c2) - k].type
<1> DEFINE n == Min({Len(c1), Len(c2)})
           D == {l \in 0..(n - start) :
                   \A k \in 0..(l - 1) : IsSameVNodeType(c1[Len(c1) - k], c2[Len(c2) - k])}
<1>1. n \in Nat /\ n <= Len(c1) /\ n <= Len(c2) /\ start <= n
  BY MinOfTwo
<1> HIDE DEF n
<1>2. 0 \in D
  BY <1>1
<1>3. D \subseteq 0..(n - start) /\ D # {} /\ 0 \in Int /\ n - start \in Int
  <2>1. D \subseteq 0..(n - start)
    OBVIOUS
  <2> HIDE DEF D
  <2> QED
    BY <1>1, <1>2, <2>1
<1>4. Max(D) \in D
  <2> HIDE DEF D
  <2> QED
    BY <1>3, MaxIn
<1>5. SyncEnd(c1, c2, start) = Max(D)
  BY DEF SyncEnd, n
<1>6. /\ SyncEnd(c1, c2, start) \in 0..(n - start)
      /\ \A k \in 0..(SyncEnd(c1, c2, start) - 1) : IsSameVNodeType(c1[Len(c1) - k], c2[Len(c2) - k])
  BY <1>4, <1>5
<1> QED
  BY <1>1, <1>6 DEF IsSameVNodeType

--------------------------------------------------------------------------------
(* The sequence of children between the common ends: the old ones are matched  *)
(* to new ones, one by one, and remember whether their order changes.          *)

KeysOnce(c) == \A i, k \in DOMAIN c : c[i].key = c[k].key /\ i # k => c[i].key = NoKey
Middle(c1, c2, m, G, s1, e1, s2, e2) ==
  /\ s1 \in 1..Len(c1) /\ e1 \in s1..Len(c1) /\ s2 \in 1..Len(c2) /\ e2 \in s2..Len(c2)
  /\ \A i \in 1..Len(c1) : i \in G <=> i \notin s1..e1
  /\ \A j \in 1..Len(c2) : m[j] = 0 <=> j \in s2..e2
  /\ \A j \in 1..Len(c2) : (j < s2 => m[j] < s1) /\ (j > e2 => m[j] > e1)
  /\ Grows(m, Matched(c2, m))
With(c2, m, map, s2, e2) == [j \in 1..Len(c2) |-> IF j \in s2..e2 THEN map[j] ELSE m[j]]
Maps(s2, e2) == [s2..e2 -> Nat]
\* The old children up to i have been looked at.
Noted(t, i, s1, s2, e2) ==
  /\ \A j \in s2..e2 : t.map[j] # 0 => t.map[j] \in s1..i /\ j <= t.maxNewIndexSoFar
  /\ t.moved = FALSE => \A j, k \in s2..e2 : j < k /\ t.map[j] # 0 /\ t.map[k] # 0
                                              => t.map[j] < t.map[k]
\* None of them was given up for which there is a new one left.
Tried(map, i, c1, c2, s1, s2, e2) ==
  /\ \A k \in s1..i, j \in s2..e2 :
       map[j] = 0 /\ (\A l \in s2..e2 : map[l] # k) => ~Alike(c1[k], c2[j])
  /\ \A j \in s2..e2 : map[j] # 0 /\ c2[j].key = NoKey => c1[map[j]].type = c2[j].type
Searching(t, i, c1, c2, m, G, W, s1, s2, e2) ==
  /\ t \in KeyedState(Maps(s2, e2)) /\ Tried(t.map, i, c1, c2, s1, s2, e2)
  /\ Patching(t, c1, c2, With(c2, m, t.map, s2, e2), G \cup (s1..i), W)
  /\ Noted(t, i, s1, s2, e2)

NotedOf(u, s, i, j) ==
  /\ u.dom = s.dom /\ u.new = s.new /\ SameHistory(u, s) /\ u.map = [s.map EXCEPT ![j] = i]
  /\ u.moved = FALSE => s.moved = FALSE /\ j >= s.maxNewIndexSoFar
  /\ u.maxNewIndexSoFar \in Int /\ u.maxNewIndexSoFar >= s.maxNewIndexSoFar
  /\ u.maxNewIndexSoFar >= j
LEMMA NoteLike ==
  ASSUME NEW s2 \in Int, NEW e2 \in Int, NEW s \in KeyedState(Maps(s2, e2)),
         NEW j \in s2..e2, NEW i \in Nat
  PROVE  LET u == [s EXCEPT !.map[j] = i, !.moved = @ \/ j < s.maxNewIndexSoFar,
                            !.maxNewIndexSoFar = Max({@, j})] IN
         u \in KeyedState(Maps(s2, e2)) /\ NotedOf(u, s, i, j)
<1> DEFINE p == [s.map EXCEPT ![j] = i]
           b == s.moved \/ j < s.maxNewIndexSoFar
           x == Max({s.maxNewIndexSoFar, j})
           u == [s EXCEPT !.map[j] = i, !.moved = @ \/ j < s.maxNewIndexSoFar,
                          !.maxNewIndexSoFar = Max({@, j})]
<1>1. s.map \in Maps(s2, e2) /\ s.moved \in BOOLEAN /\ s.maxNewIndexSoFar \in Int
  BY DEF KeyedState
<1>2. p \in Maps(s2, e2)
  BY <1>1 DEF Maps
<1>3. x \in Int /\ x >= s.maxNewIndexSoFar /\ x >= j
  <2>1. j \in Int
    OBVIOUS
  <2> QED
    BY <1>1, <2>1, MaxOfTwo
<1>4. b \in BOOLEAN /\ (b = FALSE => s.moved = FALSE /\ ~(j < s.maxNewIndexSoFar))
  BY <1>1
<1>5. u = [s EXCEPT !.map = p, !.moved = b, !.maxNewIndexSoFar = x]
  BY DEF KeyedState
<1>6. p = [s.map EXCEPT ![j] = i]
  OBVIOUS
<1> HIDE DEF p, b, x, u
<1>7. /\ u \in KeyedState(Maps(s2, e2)) /\ u.dom = s.dom /\ u.new = s.new
      /\ u.moves = s.moves /\ u.unmounts = s.unmounts
      /\ u.map = p /\ u.moved = b /\ u.maxNewIndexSoFar = x
  BY <1>2, <1>3, <1>4, <1>5 DEF KeyedState
<1>8. NotedOf(u, s, i, j)
  BY <1>1, <1>3, <1>4, <1>6, <1>7 DEF NotedOf, SameHistory
<1> QED
  BY <1>7, <1>8 DEF u

\* A part of an interval that has as many numbers is all of it.
LEMMA AllFound ==
  ASSUME NEW a \in Int, NEW b \in Int, a <= b, NEW S \in SUBSET (a..b), Cardinality(S) > b - a
  PROVE  S = a..b
<1>1. IsFiniteSet(a..b) /\ Cardinality(a..b) = b - a + 1
  BY FS_Interval
<1>2. /\ IsFiniteSet(S) /\ Cardinality(S) <= Cardinality(a..b)
      /\ Cardinality(a..b) = Cardinality(S) => a..b = S
  BY <1>1, FS_Subset
<1>3. Cardinality(S) \in Nat
  BY <1>2, FS_CardinalityType
<1>4. Cardinality(S) = Cardinality(a..b)
  BY <1>1, <1>2, <1>3
<1> QED
  BY <1>2, <1>4

\* The search for the new child of an old one, and its patch.
LEMMA PatchOldStep ==
  ASSUME NEW c1 \in Seq(Mounted), Distinct(c1), KeysOnce(c1), NEW c2 \in Seq(Child), NEW m, NEW G,
         NEW W \in Siblings, NEW s1, NEW e1, NEW s2, NEW e2,
         Middle(c1, c2, m, G, s1, e1, s2, e2), NEW i \in s1..e1, NEW s,
         Searching(s, i - 1, c1, c2, m, G, W, s1, s2, e2)
  PROVE  Searching(PatchOld(s, c1, i, s2, e2), i, c1, c2, m, G, W, s1, s2, e2)
<1> DEFINE X == Maps(s2, e2)
           q == With(c2, m, s.map, s2, e2)
           H == G \cup (s1..(i - 1))
           at == NewIndices(s, c1, i, s2, e2)
           full == Cardinality({j \in s2..e2 : s.map[j] # 0}) > e2 - s2 \/ at = {}
<1>1. /\ Len(c1) \in Nat /\ Len(c2) \in Nat /\ DOMAIN c1 = 1..Len(c1) /\ s2 \in Int /\ e2 \in Int
      /\ s1 \in Int /\ e1 \in Int /\ i \in 1..Len(c1) /\ i \in Nat
      /\ \A j \in s2..e2 : j \in 1..Len(c2)
  <2>1. Len(c1) \in Nat /\ Len(c2) \in Nat /\ DOMAIN c1 = 1..Len(c1)
    BY MountedEntries, ChildEntries
  <2> QED
    BY <2>1 DEF Middle
<1>2. i \notin H
  BY <1>1 DEF Middle
<1>3. H \cup {i} = G \cup (s1..i)
  <2>1. s1..i = (s1..(i - 1)) \cup {i}
    <3>1. s1 <= i
      BY <1>1
    <3> QED
      BY <1>1, <3>1, IntervalGrows
  <2> QED
    BY <2>1
<1>4. /\ s \in KeyedState(X) /\ Patching(s, c1, c2, q, H, W) /\ Noted(s, i - 1, s1, s2, e2)
      /\ Tried(s.map, i - 1, c1, c2, s1, s2, e2)
  BY DEF Searching
<1>5. s.map \in X /\ \A j \in s2..e2 : s.map[j] \in Nat /\ q[j] = s.map[j]
  BY <1>1, <1>4 DEF KeyedState, Maps, With
<1>6. /\ Matches(c1, c2, q)
      /\ NewIs(s.new, c1, c2, q, Matched(c2, q))
  BY <1>4 DEF Patching, Laid
<1>7. \A j \in s2..e2 : s.new[j].key = c2[j].key
  <2> TAKE j \in s2..e2
  <2>1. Final(c1, c2, q, j).key = c2[j].key
    BY DEF Final, Vnode
  <2>2. s.new[j] = IF j \in Matched(c2, q) THEN Final(c1, c2, q, j) ELSE c2[j]
    BY <1>1, <1>6 DEF NewIs
  <2> HIDE DEF q
  <2> QED
    BY <2>1, <2>2
<1>11. \A j \in s2..e2 : s.map[j] = 0 => s.new[j] = c2[j]
  <2> TAKE j \in s2..e2
  <2> HAVE s.map[j] = 0
  <2>1. j \notin Matched(c2, q) /\ j \in 1..Len(c2)
    BY <1>1, <1>5 DEF Matched
  <2> QED
    BY <1>6, <2>1 DEF NewIs
<1>8. \A j \in at : /\ j \in s2..e2 /\ s.map[j] = 0 /\ c1[i].key = c2[j].key
                   /\ (c1[i].key = NoKey => c1[i].type = c2[j].type)
  <2>1. CASE c1[i].key # NoKey
    <3> TAKE j \in at
    <3>1. j \in s2..e2 /\ s.new[j].key = c1[i].key
      BY <2>1 DEF NewIndices
    <3>2. c2[j].key = c1[i].key
      BY <1>7, <3>1
    <3>3. ASSUME s.map[j] # 0 PROVE FALSE
      <4>1. s.map[j] \in s1..(i - 1) /\ q[j] = s.map[j] /\ j \in 1..Len(c2)
        BY <1>1, <1>4, <1>5, <3>1, <3>3 DEF Noted
      <4>2. c1[s.map[j]].key = c2[j].key
        BY <1>6, <3>3, <4>1 DEF Matches
      <4>3. s.map[j] \in DOMAIN c1 /\ i \in DOMAIN c1 /\ s.map[j] # i
        BY <1>1, <4>1 DEF Middle
      <4> QED
        BY <2>1, <3>2, <4>2, <4>3 DEF KeysOnce
    <3> QED
      BY <2>1, <3>1, <3>2, <3>3
  <2>2. CASE c1[i].key = NoKey
    <3> DEFINE free == {j \in s2..e2 : s.map[j] = 0 /\ IsSameVNodeType(c1[i], s.new[j])}
    <3>1. at = IF free = {} THEN {} ELSE {Min(free)}
      BY <2>2 DEF NewIndices
    <3>2. free \subseteq s2..e2
      OBVIOUS
    <3> HIDE DEF at
    <3> TAKE j \in at
    <3>3. free # {} /\ j = Min(free)
      <4> HIDE DEF free
      <4> QED
        BY <3>1
    <3>4. j \in free
      <4> HIDE DEF free
      <4> QED
        BY <1>1, <3>2, <3>3, MinIn
    <3> QED
      BY <1>11, <3>4 DEF IsSameVNodeType
  <2> QED
    BY <2>1, <2>2
<1>12. ASSUME full, NEW j \in s2..e2, s.map[j] = 0 PROVE ~Alike(c1[i], c2[j])
  <2>1. CASE Cardinality({k \in s2..e2 : s.map[k] # 0}) > e2 - s2
    <3> DEFINE S == {k \in s2..e2 : s.map[k] # 0}
    <3>1. S \in SUBSET (s2..e2) /\ s2 <= e2 /\ j \notin S
      BY <1>1, <1>12
    <3>2. Cardinality(S) > e2 - s2
      BY <2>1
    <3> HIDE DEF S
    <3>3. S = s2..e2
      BY <1>1, <3>1, <3>2, AllFound
    <3> QED
      BY <3>1, <3>3
  <2>2. CASE at = {}
    <3>1. s.new[j] = c2[j]
      BY <1>11, <1>12
    <3>2. CASE c1[i].key # NoKey
      BY <2>2, <3>1, <3>2 DEF NewIndices, Alike
    <3>3. CASE c1[i].key = NoKey
      <4> DEFINE free == {k \in s2..e2 : s.map[k] = 0 /\ IsSameVNodeType(c1[i], s.new[k])}
      <4>1. at = IF free = {} THEN {} ELSE {Min(free)}
        BY <3>3 DEF NewIndices
      <4>2. free = {}
        <5> HIDE DEF free, at
        <5> QED
          BY <2>2, <4>1
      <4> QED
        BY <1>12, <3>1, <3>3, <4>2 DEF Alike, IsSameVNodeType
    <3> QED
      BY <3>2, <3>3
  <2> QED
    BY <1>12, <2>1, <2>2
<1>13. /\ \A k \in s1..(i - 1), j \in s2..e2 :
            s.map[j] = 0 /\ (\A l \in s2..e2 : s.map[l] # k) => ~Alike(c1[k], c2[j])
       /\ \A j \in s2..e2 : s.map[j] # 0 /\ c2[j].key = NoKey => c1[s.map[j]].type = c2[j].type
  BY <1>4 DEF Tried
<1>14. \A k \in s1..i : k \in s1..(i - 1) \/ k = i
  BY <1>1
<1> DEFINE t == PatchOld(s, c1, i, s2, e2)
<1> HIDE DEF at, q, H
<1>9. CASE full
  <2>1. t = Unmount(s, c1[i])
    BY <1>9 DEF PatchOld, at
  <2>5. \A j \in s2..e2 : s.map[j] = 0 => ~Alike(c1[i], c2[j])
    BY <1>9, <1>12
  <2> HIDE DEF t, full
  <2>2. PatchedTo(t, s, c1, c2, q, H \cup {i}, W, X)
    BY <1>1, <1>2, <1>4, <2>1, UnmountStep
  <2>3. /\ t \in KeyedState(X) /\ Patching(t, c1, c2, q, H \cup {i}, W)
        /\ t.map = s.map /\ t.moved = s.moved /\ t.maxNewIndexSoFar = s.maxNewIndexSoFar
    BY <1>4, <2>2 DEF PatchedTo, Like
  <2>4. Noted(t, i, s1, s2, e2)
    BY <1>1, <1>4, <2>3 DEF Noted
  <2>6. Tried(t.map, i, c1, c2, s1, s2, e2)
    BY <1>13, <1>14, <2>3, <2>5 DEF Tried
  <2> QED
    BY <1>3, <2>3, <2>4, <2>6 DEF Searching, q, t
<1>10. CASE ~full
  <2> DEFINE j == CHOOSE j \in at : TRUE
             u == [s EXCEPT !.map[j] = i, !.moved = @ \/ j < s.maxNewIndexSoFar,
                            !.maxNewIndexSoFar = Max({@, j})]
             p == With(c2, m, u.map, s2, e2)
  <2>1. t = Patch(u, c1, i, j)
    BY <1>10 DEF PatchOld, at
  <2>2. j \in at
    BY <1>10
  <2> HIDE DEF t, full, j
  <2>3. /\ j \in s2..e2 /\ s.map[j] = 0 /\ c1[i].key = c2[j].key /\ j \in 1..Len(c2) /\ q[j] = 0
        /\ c1[i].key = NoKey => c1[i].type = c2[j].type
    <3>1. j \in s2..e2 /\ s.map[j] = 0 /\ c1[i].key = c2[j].key
      BY <1>8, <2>2, Zenon
    <3>2. c1[i].key = NoKey => c1[i].type = c2[j].type
      BY <1>8, <2>2, Zenon
    <3>3. j \in 1..Len(c2) /\ q[j] = s.map[j]
      BY <1>1, <1>5, <3>1
    <3> QED
      BY <3>1, <3>2, <3>3
  <2>4. u \in KeyedState(X) /\ NotedOf(u, s, i, j)
    BY <1>1, <1>4, <2>3, NoteLike
  <2> HIDE DEF u
  <2>5. u.map = [s.map EXCEPT ![j] = i] /\ u.dom = s.dom /\ u.new = s.new
    BY <2>4 DEF NotedOf
  <2>6. [q EXCEPT ![j] = i] = p
    BY <1>5, <2>3, <2>5 DEF q, With, Maps
  <2>7. PatchedTo(t, u, c1, c2, [q EXCEPT ![j] = i], H \cup {i}, W, X)
    <3>1. Patching(u, c1, c2, q, H, W)
      BY <1>4, <2>4, <2>5 DEF Patching, NotedOf, SameHistory
    <3> QED
      BY <1>1, <1>2, <2>1, <2>3, <2>4, <3>1, PatchStep
  <2> HIDE DEF p
  <2>8. /\ t \in KeyedState(X) /\ Patching(t, c1, c2, p, H \cup {i}, W)
        /\ t.map = u.map /\ t.moved = u.moved /\ t.maxNewIndexSoFar = u.maxNewIndexSoFar
    BY <2>4, <2>6, <2>7 DEF PatchedTo, Like
  <2>9. Noted(t, i, s1, s2, e2)
    <3>1. t.map[j] = i /\ \A k \in s2..e2 : k # j => t.map[k] = s.map[k]
      BY <1>5, <2>3, <2>5, <2>8 DEF Maps
    <3>2. /\ t.moved = FALSE => s.moved = FALSE /\ j >= s.maxNewIndexSoFar
          /\ t.maxNewIndexSoFar \in Int /\ t.maxNewIndexSoFar >= s.maxNewIndexSoFar
          /\ t.maxNewIndexSoFar >= j /\ s.maxNewIndexSoFar \in Int
      BY <1>4, <2>4, <2>8 DEF NotedOf, KeyedState
    <3>3. \A k \in s2..e2 : s.map[k] # 0 => s.map[k] \in s1..(i - 1) /\ k <= s.maxNewIndexSoFar
      BY <1>4 DEF Noted
    <3>4. ASSUME NEW k \in s2..e2, t.map[k] # 0
          PROVE  t.map[k] \in s1..i /\ k <= t.maxNewIndexSoFar
      <4>1. CASE k = j
        BY <1>1, <3>1, <3>2, <4>1
      <4>2. CASE k # j
        BY <1>1, <3>1, <3>2, <3>3, <3>4, <4>2, SMTT(40)
      <4> QED
        BY <4>1, <4>2
    <3>5. ASSUME t.moved = FALSE, NEW k \in s2..e2, NEW l \in s2..e2, k < l, t.map[k] # 0, t.map[l] # 0
          PROVE  t.map[k] < t.map[l]
      <4>1. s.moved = FALSE /\ j >= s.maxNewIndexSoFar
        BY <3>2, <3>5
      <4>2. k # j
        <5> SUFFICES ASSUME k = j PROVE FALSE
          OBVIOUS
        <5>1. l # j /\ s.map[l] # 0
          BY <1>1, <3>1, <3>5
        <5>2. l <= s.maxNewIndexSoFar
          BY <3>3, <5>1
        <5> QED
          BY <1>1, <3>2, <3>5, <4>1, <5>2
      <4>3. CASE l = j
        BY <1>1, <3>1, <3>3, <3>5, <4>2, <4>3, SMTT(40)
      <4>4. CASE l # j
        BY <1>4, <3>1, <3>5, <4>1, <4>2, <4>4 DEF Noted
      <4> QED
        BY <4>3, <4>4
    <3> QED
      BY <3>4, <3>5 DEF Noted
  <2>10. Tried(t.map, i, c1, c2, s1, s2, e2)
    <3>1. t.map[j] = i /\ \A k \in s2..e2 : k # j => t.map[k] = s.map[k]
      BY <1>5, <2>3, <2>5, <2>8 DEF Maps
    <3>2. i # 0 /\ \A k \in s1..(i - 1) : k # 0
      <4>1. s1 \in Nat \ {0}
        BY <1>1 DEF Middle
      <4> QED
        BY <1>1, <4>1
    <3>3. ASSUME NEW k \in s1..i, NEW l \in s2..e2, t.map[l] = 0, \A y \in s2..e2 : t.map[y] # k
          PROVE  ~Alike(c1[k], c2[l])
      <4>1. k \in s1..(i - 1)
        BY <1>14, <2>3, <3>1, <3>3
      <4>2. s.map[l] = 0 /\ \A y \in s2..e2 : s.map[y] # k
        BY <2>3, <3>1, <3>2, <3>3, <4>1
      <4> QED
        BY <1>13, <4>1, <4>2
    <3>4. \A l \in s2..e2 : t.map[l] # 0 /\ c2[l].key = NoKey => c1[t.map[l]].type = c2[l].type
      BY <1>13, <2>3, <3>1
    <3> QED
      BY <3>3, <3>4 DEF Tried
  <2> QED
    BY <1>3, <2>8, <2>9, <2>10 DEF Searching, p, t
<1> QED
  BY <1>9, <1>10

\* The old children of G have been patched to a new one each, of their type.
Synced(c1, c2, m, G) ==
  /\ \A j \in Matched(c2, m) : c1[m[j]].type = c2[j].type
  /\ \A i \in G : \E j \in 1..Len(c2) : m[j] = i /\ m[j] # 0

LEMMA SyncedGone ==
  ASSUME NEW c1, NEW c2, NEW m, NEW G, Synced(c1, c2, m, G), NEW us, us = << >>
  PROVE  Gone(us, c1, c2, m, G)
<1>1. us \in Seq(Nat) /\ Len(us) = 0
  OBVIOUS
<1>2. \A a \in 1..Len(us) : FALSE
  BY <1>1
<1>3. ASSUME NEW i \in G PROVE ~Lost(c1, c2, m, i)
  <2>1. PICK j \in 1..Len(c2) : m[j] = i /\ m[j] # 0
    BY DEF Synced
  <2>2. c1[m[j]].type = c2[j].type
    BY <2>1 DEF Synced, Matched
  <2> QED
    BY <2>1, <2>2 DEF Lost
<1> QED
  BY <1>1, <1>2, <1>3 DEF Gone

\* The loop over the old children in the unknown sequence.
LEMMA SearchRuns ==
  ASSUME NEW c1 \in Seq(Mounted), Distinct(c1), KeysOnce(c1), NEW c2 \in Seq(Child), NEW m, NEW G,
         NEW W \in Siblings, NEW s1, NEW e1, NEW s2, NEW e2,
         Middle(c1, c2, m, G, s1, e1, s2, e2), NEW st,
         Searching(st, s1 - 1, c1, c2, m, G, W, s1, s2, e2)
  PROVE  Searching(PatchOldFrom(st, c1, s1, e1, s2, e2), e1,
                   c1, c2, m, G, W, s1, s2, e2)
<1> DEFINE T == KeyedState(Maps(s2, e2))
           a == s1
           b == e1
           op(s, k) == PatchOld(s, c1, k, s2, e2)
           J(k) == {t \in T : Searching(t, k, c1, c2, m, G, W, s1, s2, e2)}
           I == [k \in (a - 1)..b |-> J(k)]
           g == [w \in T \X (a..b) |-> op(w[1], w[2])]
           Body(f) == [k \in (a - 1)..b |-> IF k < a THEN st ELSE op(f[k - 1], k)]
           F == CHOOSE f : f = Body(f)
<1>1. a \in Int /\ b \in Int /\ a - 1 \in (a - 1)..b /\ b \in (a - 1)..b /\ a <= b + 1
  <2>1. Len(c1) \in Nat
    BY MountedEntries
  <2> QED
    BY <2>1 DEF Middle
<1>2. st \in J(a - 1)
  BY DEF Searching
<1>3. ASSUME NEW k \in a..b, NEW s \in J(k - 1) PROVE op(s, k) \in J(k)
  <2>1. Searching(s, k - 1, c1, c2, m, G, W, s1, s2, e2) /\ k \in s1..e1
    OBVIOUS
  <2>2. Searching(op(s, k), k, c1, c2, m, G, W, s1, s2, e2)
    BY <2>1, PatchOldStep
  <2> HIDE DEF op
  <2>3. op(s, k) \in T
    BY <2>2 DEF Searching
  <2> HIDE DEF T
  <2> QED
    BY <2>2, <2>3, Zenon
<1>4. /\ \A k \in (a - 1)..b : I[k] = J(k)
      /\ \A k \in a..b : \A s \in T : g[<< s, k >>] = op(s, k)
      /\ I \in [(a - 1)..b -> SUBSET T]
  <2>1. \A k \in a..b : \A s \in T : << s, k >> \in T \X (a..b) /\ << s, k >>[1] = s /\ << s, k >>[2] = k
    OBVIOUS
  <2> QED
    BY <2>1
<1> HIDE DEF I, g, J, op, T, a, b
<1>5. UpKeeps(g, I, a, b)
  <2> SUFFICES ASSUME NEW k \in a..b, NEW s \in I[k - 1] PROVE g[<< s, k >>] \in I[k]
    BY DEF UpKeeps
  <2>1. k - 1 \in (a - 1)..b /\ k \in (a - 1)..b
    BY <1>1
  <2>2. s \in J(k - 1) /\ s \in T
    BY <1>4, <2>1
  <2> QED
    BY <1>3, <1>4, <2>1, <2>2
<1>6. st \in I[a - 1]
  BY <1>1, <1>2, <1>4
<1>7. F = Body(F)
  <2>1. PICK f \in [(a - 1)..b -> T] : UpRun(f, st, g, I, a, b)
    BY <1>1, <1>4, <1>5, <1>6, UpRuns
  <2>2. /\ f = [k \in (a - 1)..b |-> IF k < a THEN st ELSE g[<< f[k - 1], k >>]]
        /\ \A k \in a..b : f[k - 1] \in T
    BY <1>1, <2>1, UpFixed
  <2>3. \A k \in (a - 1)..b :
          (IF k < a THEN st ELSE g[<< f[k - 1], k >>]) = (IF k < a THEN st ELSE op(f[k - 1], k))
    BY <1>1, <1>4, <2>2
  <2>4. f = Body(f)
    BY <2>2, <2>3
  <2> HIDE DEF Body
  <2> QED
    BY <2>4
<1>8. F[a - 1] = st /\ \A k \in a..b : F[k] = op(F[k - 1], k)
  <2> HIDE DEF F
  <2> QED
    BY <1>1, <1>7
<1>9. PatchOldFrom(st, c1, s1, e1, s2, e2) = F[b]
  <2>1. PatchOldFrom(st, c1, s1, e1, s2, e2) = IF b < a THEN st ELSE F[b]
    BY DEF PatchOldFrom, Up, op, a, b
  <2>2. b < a => b = a - 1
    BY <1>1
  <2> QED
    BY <1>8, <2>1, <2>2
<1> HIDE DEF F
<1>10. F[b] \in I[b]
  <2>1. UpGoes(F, T, g, a, b)
    BY <1>4, <1>8 DEF UpGoes
  <2>2. I \in [(a - 1)..b -> SUBSET T] /\ F[a - 1] = st
    BY <1>4, <1>8
  <2> QED
    BY <1>1, <1>5, <1>6, <2>1, <2>2, UpEnds
<1>11. F[b] \in J(b)
  BY <1>1, <1>4, <1>10
<1> QED
  BY <1>9, <1>11 DEF J, T, a, b

--------------------------------------------------------------------------------
(* From the last new child to the first: what is not there yet is mounted, and *)
(* what is not in the sequence is moved.                                       *)

InOrder(sequence, map, s2, e2) ==
  /\ sequence \in Seq(1..(e2 - s2 + 1))
  /\ \A v, w \in 1..Len(sequence) : v < w =>
       sequence[v] < sequence[w] /\ map[s2 + sequence[v] - 1] < map[s2 + sequence[w] - 1]
Stays(sequence, map, moved, s2, e2) ==
  {j \in s2..e2 : /\ map[j] # 0
                  /\ moved = FALSE \/ \E w \in 1..Len(sequence) : sequence[w] = j - s2 + 1}
Kept(sequence, c2, q, map, moved, s2, e2) ==
  {j \in Matched(c2, q) : j \in s2..e2 => j \in Stays(sequence, map, moved, s2, e2)}
\* What is left of the sequence is before k, the rest is not.
Left(left, k, sequence, map, s2) ==
  /\ left \in 0..Len(sequence)
  /\ \A w \in 1..Len(sequence) :
       /\ w > left => s2 + sequence[w] - 1 >= k
       /\ w <= left /\ map[s2 + sequence[w] - 1] # 0 => s2 + sequence[w] - 1 < k
\* From k on, those that were there and are not in the sequence have been moved.
Moving(k, map, moved, sequence, s2, e2) ==
  {j \in k..e2 : map[j] # 0 /\ j \notin Stays(sequence, map, moved, s2, e2)}
Settling(t, k, c1, c2, q, W, us, map, moved, sequence, s2, e2) ==
  /\ t \in KeyedState(Maps(s2, e2)) /\ t.map = map /\ t.moved = moved
  /\ t.moves = Moving(k, map, moved, sequence, s2, e2) /\ t.unmounts = us
  /\ Placing(t.dom, t.new, c1, c2, q, Matched(c2, q) \cup (k..e2),
             Kept(sequence, c2, q, map, moved, s2, e2) \cup (k..e2), W)
  /\ Left(t.left, k, sequence, map, s2)

\* The map q of all the new children has the map of those in the middle.
Inside(c2, q, map, s2, e2) ==
  /\ s2 \in 1..Len(c2) /\ e2 \in s2..Len(c2) /\ map \in Maps(s2, e2)
  /\ \A j \in 1..Len(c2) : IF j \in s2..e2 THEN q[j] = map[j] ELSE q[j] # 0

\* A new child that is not the next in the sequence leaves the rest of it as it is, ...
LEMMA LeftStays ==
  ASSUME NEW s2 \in Int, NEW e2 \in Int, NEW map \in Maps(s2, e2), NEW sequence,
         InOrder(sequence, map, s2, e2), NEW j \in s2..e2, NEW left,
         Left(left, j + 1, sequence, map, s2),
         map[j] = 0 \/ \A w \in 1..Len(sequence) : sequence[w] # j - s2 + 1
  PROVE  Left(left, j, sequence, map, s2)
<1>1. \A w \in 1..Len(sequence) : sequence[w] \in 1..(e2 - s2 + 1)
  BY DEF InOrder
<1>2. ASSUME NEW w \in 1..Len(sequence)
      PROVE  /\ w > left => s2 + sequence[w] - 1 >= j
             /\ w <= left /\ map[s2 + sequence[w] - 1] # 0 => s2 + sequence[w] - 1 < j
  <2>1. sequence[w] \in Int /\ j \in Int
    BY <1>1
  <2>2. /\ w > left => s2 + sequence[w] - 1 >= j + 1
        /\ w <= left /\ map[s2 + sequence[w] - 1] # 0 => s2 + sequence[w] - 1 < j + 1
    BY DEF Left
  <2>3. s2 + sequence[w] - 1 = j => sequence[w] = j - s2 + 1
    BY <2>1
  <2>4. s2 + sequence[w] - 1 = j => map[s2 + sequence[w] - 1] = map[j]
    OBVIOUS
  <2> DEFINE x == s2 + sequence[w] - 1
  <2>5. x \in Int
    BY <2>1
  <2>6. x = j => map[x] = 0
    BY <2>3, <2>4
  <2> HIDE DEF x
  <2> QED
    BY <2>1, <2>2, <2>5, <2>6 DEF x
<1>3. left \in 0..Len(sequence)
  BY DEF Left
<1> QED
  BY <1>2, <1>3 DEF Left

\* one that is in it takes its last entry.
LEMMA LeftGoes ==
  ASSUME NEW s2 \in Int, NEW e2 \in Int, NEW map \in Maps(s2, e2), NEW sequence,
         InOrder(sequence, map, s2, e2), NEW j \in s2..e2, NEW left,
         Left(left, j + 1, sequence, map, s2), left > 0, j - s2 + 1 = sequence[left]
  PROVE  Left(left - 1, j, sequence, map, s2) /\ left - 1 \in Int
<1>1. /\ Len(sequence) \in Nat /\ left \in 1..Len(sequence)
      /\ \A w \in 1..Len(sequence) : sequence[w] \in 1..(e2 - s2 + 1)
  BY DEF InOrder, Left
<1>2. ASSUME NEW w \in 1..Len(sequence)
      PROVE  /\ w > left - 1 => s2 + sequence[w] - 1 >= j
             /\ w <= left - 1 => s2 + sequence[w] - 1 < j
  <2>1. sequence[w] \in Int /\ sequence[left] \in Int /\ j \in Int /\ w \in Int /\ left \in Int
    BY <1>1
  <2>2. w > left => s2 + sequence[w] - 1 >= j + 1
    BY DEF Left
  <2>3. w < left => sequence[w] < sequence[left]
    BY <1>1 DEF InOrder
  <2>4. w = left => sequence[w] = j - s2 + 1
    OBVIOUS
  <2>5. w > left - 1 => w = left \/ w > left
    BY <2>1
  <2>6. w <= left - 1 => w < left
    BY <2>1
  <2> QED
    BY <2>1, <2>2, <2>3, <2>4, <2>5, <2>6
<1>3. left - 1 \in 0..Len(sequence)
  BY <1>1
<1> QED
  BY <1>2, <1>3 DEF Left

\* A child of the sequence is the one that is left.
LEMMA LeftIs ==
  ASSUME NEW s2 \in Int, NEW e2 \in Int, NEW map \in Maps(s2, e2), NEW sequence,
         InOrder(sequence, map, s2, e2), NEW j \in s2..e2, NEW left,
         Left(left, j + 1, sequence, map, s2), map[j] # 0,
         NEW w \in 1..Len(sequence), sequence[w] = j - s2 + 1
  PROVE  left > 0 /\ j - s2 + 1 = sequence[left]
<1>1. /\ Len(sequence) \in Nat /\ left \in 0..Len(sequence)
      /\ \A v \in 1..Len(sequence) : sequence[v] \in 1..(e2 - s2 + 1)
  BY SMTT(40) DEF InOrder, Left
<1>2. s2 + sequence[w] - 1 = j /\ j \in Int /\ w \in Int /\ left \in Int
  BY <1>1
<1>3. w <= left
  <2>1. w > left => j >= j + 1
    BY <1>2 DEF Left
  <2> QED
    BY <1>2, <2>1
<1>4. left \in 1..Len(sequence)
  BY <1>1, <1>3
<1>5. ~(w < left)
  <2> SUFFICES ASSUME w < left PROVE FALSE
    OBVIOUS
  <2>1. sequence[w] < sequence[left] /\ map[j] < map[s2 + sequence[left] - 1]
    BY <1>2, <1>4 DEF InOrder
  <2>2. s2 + sequence[left] - 1 \in s2..e2 /\ map[j] \in Nat
    BY <1>1, <1>4, SMTT(40) DEF Maps
  <2>3. map[s2 + sequence[left] - 1] \in Nat
    BY <2>2 DEF Maps
  <2>4. map[s2 + sequence[left] - 1] # 0
    BY <2>1, <2>2, <2>3
  <2>5. s2 + sequence[left] - 1 < j + 1
    BY <1>4, <2>4 DEF Left
  <2>6. sequence[left] \in Int
    BY <1>1, <1>4
  <2> QED
    BY <1>2, <2>1, <2>5, <2>6
<1>6. w = left
  BY <1>2, <1>3, <1>5
<1> QED
  BY <1>4, <1>6

\* A step of the loop has changed the host nodes and what is left of the sequence.
Held(t, s, d, ms, left, X) ==
  /\ t \in KeyedState(X) /\ t.dom = d /\ t.new = s.new /\ t.moves = ms /\ t.unmounts = s.unmounts
  /\ t.map = s.map /\ t.moved = s.moved /\ t.left = left

LEMMA LeftLike ==
  ASSUME NEW Y, NEW s \in KeyedState(Y)
  PROVE  Held([s EXCEPT !.left = @ - 1], s, s.dom, s.moves, s.left - 1, Y)
<1> DEFINE x == s.left - 1
           t == [s EXCEPT !.left = x]
<1>1. x \in Int
  BY DEF KeyedState
<1> HIDE DEF x
<1>2. Held(t, s, s.dom, s.moves, x, Y)
  BY <1>1 DEF KeyedState, Held
<1> QED
  BY <1>2 DEF x

LEMMA MoveLike ==
  ASSUME NEW Y, NEW s \in KeyedState(Y), NEW d \in Seq(Node), NEW j \in Nat
  PROVE  Held([s EXCEPT !.dom = d, !.moves = @ \cup {j}], s, d, s.moves \cup {j}, s.left, Y)
<1> DEFINE x == s.moves \cup {j}
           t == [s EXCEPT !.dom = d, !.moves = x]
<1>1. x \in SUBSET Nat
  BY DEF KeyedState
<1> HIDE DEF x
<1>2. Held(t, s, d, x, s.left, Y)
  BY <1>1 DEF KeyedState, Held
<1> QED
  BY <1>2 DEF x

\* One new child is mounted, moved or left where it is.
LEMMA PlaceNewStep ==
  ASSUME NEW c1 \in Seq(Mounted), Distinct(c1), NEW c2 \in Seq(Child), NEW q,
         NEW W \in Siblings, NEW us, NEW map, NEW moved \in BOOLEAN, NEW sequence, NEW s2, NEW e2,
         moved = FALSE => sequence = << >>,
         Inside(c2, q, map, s2, e2), InOrder(sequence, map, s2, e2), NEW j \in s2..e2, NEW s,
         Settling(s, j + 1, c1, c2, q, W, us, map, moved, sequence, s2, e2),
         NEW anchor, anchor = IF W = {} THEN << >> ELSE After
  PROVE  Settling(PlaceNew(s, c1, j, s2, e2, sequence, anchor), j,
                  c1, c2, q, W, us, map, moved, sequence, s2, e2)
<1> DEFINE Y == Maps(s2, e2)
           M == Matched(c2, q)
           K0 == Kept(sequence, c2, q, map, moved, s2, e2)
           A == M \cup ((j + 1)..e2)
           K == K0 \cup ((j + 1)..e2)
           before == IF j < Len(s.new) THEN el(s.new[j + 1]) ELSE anchor
           t == PlaceNew(s, c1, j, s2, e2, sequence, anchor)
<1>1. /\ Len(c2) \in Nat /\ s2 \in Int /\ e2 \in Int /\ j \in 1..Len(c2) /\ j \in Nat
      /\ s2 \in 1..Len(c2) /\ e2 <= Len(c2) /\ map \in Y
  <2>1. Len(c2) \in Nat
    BY ChildEntries
  <2> QED
    BY <2>1 DEF Inside
<1>2. /\ s \in KeyedState(Y) /\ s.map = map /\ s.moved = moved
      /\ Placing(s.dom, s.new, c1, c2, q, A, K, W)
      /\ Left(s.left, j + 1, sequence, map, s2)
      /\ s.moves = Moving(j + 1, map, moved, sequence, s2, e2) /\ s.unmounts = us
  BY DEF Settling
<1>3. /\ Matches(c1, c2, q) /\ M \subseteq A /\ A \subseteq 1..Len(c2)
      /\ NewIs(s.new, c1, c2, q, A) /\ K \subseteq A
  BY <1>2 DEF Placing
<1>4. q[j] = map[j]
  BY <1>1 DEF Inside
<1>5. j < Len(c2) => j + 1 \in A /\ j + 1 \in K
  <2> HAVE j < Len(c2)
  <2>1. j + 1 \in 1..Len(c2)
    BY <1>1
  <2>2. CASE j + 1 \in (j + 1)..e2
    BY <2>2
  <2>3. CASE j + 1 \notin (j + 1)..e2
    <3>1. j + 1 \notin s2..e2
      BY <1>1, <2>3
    <3>2. q[j + 1] # 0
      BY <2>1, <3>1 DEF Inside
    <3> QED
      BY <2>1, <3>1, <3>2 DEF Matched, Kept
  <2> QED
    BY <2>2, <2>3
<1>6. before = AnchorOf(c1, c2, q, W, j)
  <2>1. Len(s.new) = Len(c2)
    BY <1>3 DEF NewIs
  <2>2. CASE j < Len(c2)
    <3>1. j + 1 \in A /\ j + 1 \in 1..Len(c2)
      BY <1>1, <1>5, <2>2
    <3>2. s.new[j + 1] = Final(c1, c2, q, j + 1)
      BY <1>3, <3>1 DEF NewIs
    <3> QED
      BY <2>1, <2>2, <3>2 DEF AnchorOf
  <2>3. CASE ~(j < Len(c2))
    BY <2>1, <2>3 DEF AnchorOf
  <2> QED
    BY <2>2, <2>3
<1>7. Next1(Placed(c1, c2, q, K), W, j, before)
  <2>1. K \in SUBSET (1..Len(c2))
    BY <1>3
  <2>2. j \in j..Len(c2) /\ \A l \in K : l > j => l > j
    BY <1>1
  <2> HIDE DEF K, before
  <2> QED
    BY <1>1, <1>5, <1>6, <2>1, <2>2, AnchorNext
<1>8. A \cup {j} = M \cup (j..e2) /\ K \cup {j} = K0 \cup (j..e2)
  <2>1. j..e2 = ((j + 1)..e2) \cup {j}
    BY <1>1
  <2> QED
    BY <2>1
<1>16. Moving(j, map, moved, sequence, s2, e2)
         = IF map[j] = 0 \/ j \in Stays(sequence, map, moved, s2, e2)
           THEN Moving(j + 1, map, moved, sequence, s2, e2)
           ELSE Moving(j + 1, map, moved, sequence, s2, e2) \cup {j}
  <2> DEFINE S == Stays(sequence, map, moved, s2, e2)
  <2>1. \A k : k \in j..e2 <=> k = j \/ k \in (j + 1)..e2
    BY <1>1
  <2>2. j \notin (j + 1)..e2
    BY <1>1
  <2> HIDE DEF S
  <2> QED
    BY <2>1, <2>2 DEF Moving, S
<1> HIDE DEF A, K, M, K0, before, t
<1>9. ASSUME t \in KeyedState(Y), t.map = map, t.moved = moved,
             Placing(t.dom, t.new, c1, c2, q, A \cup {j}, K \cup {j}, W),
             Left(t.left, j, sequence, map, s2), t.unmounts = us,
             t.moves = IF map[j] = 0 \/ j \in Stays(sequence, map, moved, s2, e2)
                       THEN s.moves ELSE s.moves \cup {j}
      PROVE  Settling(t, j, c1, c2, q, W, us, map, moved, sequence, s2, e2)
  <2>1. t.moves = Moving(j, map, moved, sequence, s2, e2)
    BY <1>2, <1>9, <1>16
  <2> QED
    BY <1>8, <1>9, <2>1 DEF Settling, M, K0
<1>10. CASE map[j] = 0
  <2>1. t = MountAt(s, c1, j, before)
    BY <1>2, <1>10 DEF PlaceNew, t, before
  <2>2. j \notin A
    BY <1>1, <1>4, <1>10 DEF A, M, Matched
  <2>3. PlacedTo(t, s, c1, c2, q, A \cup {j}, K \cup {j}, W, Y)
    BY <1>1, <1>2, <1>7, <2>1, <2>2, PlaceMount
  <2>4. /\ t \in KeyedState(Y) /\ t.map = s.map /\ t.moved = s.moved /\ t.left = s.left
        /\ Placing(t.dom, t.new, c1, c2, q, A \cup {j}, K \cup {j}, W)
        /\ t.moves = s.moves /\ t.unmounts = s.unmounts
    BY <1>2, <2>3 DEF PlacedTo, Like, SameHistory
  <2>5. Left(t.left, j, sequence, map, s2)
    BY <1>1, <1>2, <1>10, <2>4, LeftStays
  <2> QED
    BY <1>2, <1>9, <1>10, <2>4, <2>5 DEF t
<1>11. ASSUME map[j] # 0 PROVE A \cup {j} = A
  BY <1>1, <1>4, <1>11 DEF A, M, Matched
<1>12. ASSUME map[j] # 0, j \in Stays(sequence, map, moved, s2, e2) PROVE K \cup {j} = K
  BY <1>1, <1>4, <1>12 DEF K, K0, Kept, Matched
<1>13. CASE map[j] # 0 /\ moved = FALSE
  <2>1. t = s
    BY <1>2, <1>13 DEF PlaceNew, t
  <2>2. j \in Stays(sequence, map, moved, s2, e2)
    BY <1>13 DEF Stays
  <2>3. Placing(t.dom, t.new, c1, c2, q, A \cup {j}, K \cup {j}, W)
    BY <1>2, <1>11, <1>12, <1>13, <2>1, <2>2
  <2>4. Left(t.left, j, sequence, map, s2)
    <3>1. Len(sequence) = 0
      BY <1>13
    <3>2. s.left = 0
      BY <1>2, <3>1 DEF Left
    <3> QED
      BY <2>1, <3>1, <3>2 DEF Left
  <2> QED
    BY <1>2, <1>9, <2>1, <2>2, <2>3, <2>4 DEF t
<1>14. CASE map[j] # 0 /\ moved /\ s.left > 0 /\ j - s2 + 1 = sequence[s.left]
  <2>1. t = [s EXCEPT !.left = @ - 1]
    BY <1>2, <1>14 DEF PlaceNew, t
  <2>2. Left(s.left - 1, j, sequence, map, s2) /\ s.left - 1 \in Int
    BY <1>1, <1>2, <1>14, LeftGoes
  <2>3. /\ t \in KeyedState(Y) /\ t.dom = s.dom /\ t.new = s.new
        /\ t.map = s.map /\ t.moved = s.moved /\ t.left = s.left - 1
        /\ t.moves = s.moves /\ t.unmounts = s.unmounts
    <3>1. Held(t, s, s.dom, s.moves, s.left - 1, Y)
      BY <1>2, <2>1, LeftLike
    <3> QED
      BY <3>1 DEF Held
  <2>4. j \in Stays(sequence, map, moved, s2, e2)
    BY <1>2, <1>14 DEF Stays, Left
  <2>5. Placing(t.dom, t.new, c1, c2, q, A \cup {j}, K \cup {j}, W)
    BY <1>2, <1>11, <1>12, <1>14, <2>3, <2>4
  <2> QED
    BY <1>2, <1>9, <2>2, <2>3, <2>4, <2>5 DEF t
<1>15. CASE map[j] # 0 /\ moved /\ ~(s.left > 0 /\ j - s2 + 1 = sequence[s.left])
  <2> DEFINE d == InsertNodes(s.dom, s.new[j], before)
  <2>1. t = [s EXCEPT !.dom = d, !.moves = @ \cup {j}]
    BY <1>2, <1>15 DEF PlaceNew, t, before
  <2>2. \A w \in 1..Len(sequence) : sequence[w] # j - s2 + 1
    <3> SUFFICES ASSUME NEW w \in 1..Len(sequence), sequence[w] = j - s2 + 1 PROVE FALSE
      OBVIOUS
    <3>1. s2 \in Int /\ e2 \in Int /\ map \in Maps(s2, e2) /\ map[j] # 0
          /\ Left(s.left, j + 1, sequence, map, s2)
      BY <1>1, <1>2, <1>15
    <3>2. s.left > 0 /\ j - s2 + 1 = sequence[s.left]
      BY <3>1, LeftIs
    <3> QED
      BY <1>15, <3>2
  <2>3. j \in A
    BY <1>1, <1>4, <1>15 DEF A, M, Matched
  <2>4. j \notin K
    BY <1>1, <1>15, <2>2 DEF K, K0, Kept, Stays
  <2>5. Placing(d, s.new, c1, c2, q, A, K \cup {j}, W) /\ d \in Seq(Node)
    BY <1>2, <1>7, <2>3, <2>4, PlaceMove
  <2> HIDE DEF d
  <2>6. /\ t \in KeyedState(Y) /\ t.dom = d /\ t.new = s.new
        /\ t.map = s.map /\ t.moved = s.moved /\ t.left = s.left
        /\ t.moves = s.moves \cup {j} /\ t.unmounts = s.unmounts
    <3>1. Held(t, s, d, s.moves \cup {j}, s.left, Y)
      BY <1>1, <1>2, <2>1, <2>5, MoveLike
    <3> QED
      BY <3>1 DEF Held
  <2>7. Left(t.left, j, sequence, map, s2)
    BY <1>1, <1>2, <2>2, <2>6, LeftStays
  <2>8. Placing(t.dom, t.new, c1, c2, q, A \cup {j}, K \cup {j}, W)
    BY <1>11, <1>15, <2>5, <2>6
  <2>9. j \notin Stays(sequence, map, moved, s2, e2)
    BY <1>15, <2>2 DEF Stays
  <2> QED
    BY <1>2, <1>9, <1>15, <2>6, <2>7, <2>8, <2>9 DEF t
<1> QED
  BY <1>10, <1>13, <1>14, <1>15

\* The loop over the new children in the unknown sequence.
LEMMA SettleRuns ==
  ASSUME NEW c1 \in Seq(Mounted), Distinct(c1), NEW c2 \in Seq(Child), NEW q,
         NEW W \in Siblings, NEW us, NEW map, NEW moved \in BOOLEAN, NEW sequence, NEW s2, NEW e2,
         moved = FALSE => sequence = << >>,
         Inside(c2, q, map, s2, e2), InOrder(sequence, map, s2, e2), NEW st,
         Settling(st, e2 + 1, c1, c2, q, W, us, map, moved, sequence, s2, e2),
         NEW anchor, anchor = IF W = {} THEN << >> ELSE After
  PROVE  Settling(PlaceNewFrom(st, c1, s2, e2, sequence, anchor), s2, c1, c2, q, W, us, map, moved, sequence, s2, e2)
<1> DEFINE T == KeyedState(Maps(s2, e2))
           a == s2
           b == e2
           op(s, k) == PlaceNew(s, c1, k, s2, e2, sequence, anchor)
           J(k) == {t \in T : Settling(t, k, c1, c2, q, W, us, map, moved, sequence, s2, e2)}
           I == [k \in a..(b + 1) |-> J(k)]
           g == [w \in T \X (a..b) |-> op(w[1], w[2])]
           Body(f) == [k \in a..(b + 1) |-> IF k > b THEN st ELSE op(f[k + 1], k)]
           F == CHOOSE f : f = Body(f)
<1>1. a \in Int /\ b \in Int /\ a \in a..(b + 1) /\ b + 1 \in a..(b + 1) /\ a <= b + 1
  <2>1. Len(c2) \in Nat
    BY ChildEntries
  <2> QED
    BY <2>1 DEF Inside
<1>2. st \in J(b + 1)
  BY DEF Settling
<1>3. ASSUME NEW k \in a..b, NEW s \in J(k + 1) PROVE op(s, k) \in J(k)
  <2>1. Settling(s, k + 1, c1, c2, q, W, us, map, moved, sequence, s2, e2) /\ k \in s2..e2
    OBVIOUS
  <2>2. Settling(op(s, k), k, c1, c2, q, W, us, map, moved, sequence, s2, e2)
    BY <2>1, PlaceNewStep
  <2> HIDE DEF op
  <2>3. op(s, k) \in T
    BY <2>2 DEF Settling
  <2> HIDE DEF T
  <2> QED
    BY <2>2, <2>3, Zenon
<1>4. /\ \A k \in a..(b + 1) : I[k] = J(k)
      /\ \A k \in a..b : \A s \in T : g[<< s, k >>] = op(s, k)
      /\ I \in [a..(b + 1) -> SUBSET T]
  <2>1. \A k \in a..b : \A s \in T : << s, k >> \in T \X (a..b) /\ << s, k >>[1] = s /\ << s, k >>[2] = k
    OBVIOUS
  <2> QED
    BY <2>1
<1> HIDE DEF I, g, J, op, T, a, b
<1>5. DownKeeps(g, I, a, b)
  <2> SUFFICES ASSUME NEW k \in a..b, NEW s \in I[k + 1] PROVE g[<< s, k >>] \in I[k]
    BY DEF DownKeeps
  <2>1. k + 1 \in a..(b + 1) /\ k \in a..(b + 1)
    BY <1>1
  <2>2. s \in J(k + 1) /\ s \in T
    BY <1>4, <2>1
  <2> QED
    BY <1>3, <1>4, <2>1, <2>2
<1>6. st \in I[b + 1]
  BY <1>1, <1>2, <1>4
<1>7. F = Body(F)
  <2>1. PICK f \in [a..(b + 1) -> T] : DownRun(f, st, g, I, a, b)
    BY <1>1, <1>4, <1>5, <1>6, DownRuns
  <2>2. /\ f = [k \in a..(b + 1) |-> IF k > b THEN st ELSE g[<< f[k + 1], k >>]]
        /\ \A k \in a..b : f[k + 1] \in T
    BY <1>1, <2>1, DownFixed
  <2>3. \A k \in a..(b + 1) :
          (IF k > b THEN st ELSE g[<< f[k + 1], k >>]) = (IF k > b THEN st ELSE op(f[k + 1], k))
    BY <1>1, <1>4, <2>2
  <2>4. f = Body(f)
    BY <2>2, <2>3
  <2> HIDE DEF Body
  <2> QED
    BY <2>4
<1>8. F[b + 1] = st /\ \A k \in a..b : F[k] = op(F[k + 1], k)
  <2> HIDE DEF F
  <2> QED
    BY <1>1, <1>7
<1>9. PlaceNewFrom(st, c1, s2, e2, sequence, anchor) = F[a]
  <2>1. PlaceNewFrom(st, c1, s2, e2, sequence, anchor) = IF b < a THEN st ELSE F[a]
    BY DEF PlaceNewFrom, Down, op, a, b
  <2>2. b < a => a = b + 1
    BY <1>1
  <2> QED
    BY <1>8, <2>1, <2>2
<1> HIDE DEF F
<1>10. F[a] \in I[a]
  <2>1. DownGoes(F, T, g, a, b)
    BY <1>4, <1>8 DEF DownGoes
  <2>2. I \in [a..(b + 1) -> SUBSET T] /\ F[b + 1] = st
    BY <1>4, <1>8
  <2> QED
    BY <1>1, <1>5, <1>6, <2>1, <2>2, DownEnds
<1>11. F[a] \in J(a)
  BY <1>1, <1>4, <1>10
<1> QED
  BY <1>9, <1>11 DEF J, T, a, b

LEMMA FunctionIsSeq ==
  ASSUME NEW S, NEW n \in Nat, NEW f \in [1..n -> S]
  PROVE  f \in Seq(S) /\ Len(f) = n
OBVIOUS

\* The array that getSequence is given.
LEMMA MiddleEntries ==
  ASSUME NEW s2 \in Int, NEW e2 \in Int, s2 <= e2, NEW map \in Maps(s2, e2), NEW arr,
         arr = [k \in 1..(e2 - s2 + 1) |-> map[s2 + k - 1]]
  PROVE  /\ arr \in Seq(Nat) /\ Len(arr) = e2 - s2 + 1 /\ Len(arr) # 0
         /\ \A k \in 1..(e2 - s2 + 1) : arr[k] = map[s2 + k - 1] /\ s2 + k - 1 \in s2..e2
<1> DEFINE n == e2 - s2 + 1
<1>1. n \in Nat /\ n # 0
  OBVIOUS
<1>2. \A k \in 1..n : map[s2 + k - 1] \in Nat /\ s2 + k - 1 \in s2..e2
  <2> TAKE k \in 1..n
  <2>1. s2 + k - 1 \in s2..e2
    OBVIOUS
  <2> QED
    BY <2>1 DEF Maps
<1>3. arr = [k \in 1..n |-> map[s2 + k - 1]]
  OBVIOUS
<1> HIDE DEF n
<1>4. arr \in [1..n -> Nat] /\ \A k \in 1..n : arr[k] = map[s2 + k - 1]
  BY <1>2, <1>3
<1>5. arr \in Seq(Nat) /\ Len(arr) = n
  BY <1>1, <1>4, FunctionIsSeq, Zenon
<1> QED
  BY <1>1, <1>2, <1>4, <1>5 DEF n

\* The sequence of the children between the common ends.
LEMMA SequenceInOrder ==
  ASSUME NEW s2 \in Int, NEW e2 \in Int, s2 <= e2, NEW map \in Maps(s2, e2)
  PROVE  InOrder(GetSequence([k \in 1..(e2 - s2 + 1) |-> map[s2 + k - 1]]), map, s2, e2)
<1> DEFINE n == e2 - s2 + 1
           arr == [k \in 1..n |-> map[s2 + k - 1]]
           r == GetSequence(arr)
<1>1. n \in Nat /\ n # 0
  OBVIOUS
<1>3. arr \in Seq(Nat) /\ Len(arr) = n /\ \A k \in 1..n : arr[k] = map[s2 + k - 1]
  BY MiddleEntries
<1> HIDE DEF arr, n
<1>4. /\ r \in Seq(1..n)
      /\ \A v, w \in 1..Len(r) : v < w => r[v] < r[w] /\ arr[r[v]] < arr[r[w]]
  BY <1>1, <1>3, GetSequenceInOrder
<1> HIDE DEF r
<1>5. \A v \in 1..Len(r) : r[v] \in 1..n
  BY <1>4, Entries
<1>6. InOrder(r, map, s2, e2)
  <2>1. \A v, w \in 1..Len(r) : v < w => map[s2 + r[v] - 1] < map[s2 + r[w] - 1]
    BY <1>3, <1>4, <1>5
  <2> QED
    BY <1>4, <2>1 DEF InOrder, n
<1> QED
  BY <1>6 DEF r, arr, n

\* What fits into a finite set after a shift is not larger.
LEMMA ShiftFits ==
  ASSUME NEW a \in Int, NEW S \in SUBSET Int, NEW T, IsFiniteSet(T), \A x \in S : x + a \in T
  PROVE  Cardinality(S) <= Cardinality(T) /\ IsFiniteSet(S)
<1> DEFINE f == [x \in S |-> x + a]
<1>1. f \in [S -> T] /\ \A x \in S : f[x] = x + a
  OBVIOUS
<1>2. \A x, y \in S : x + a = y + a => x = y
  OBVIOUS
<1> HIDE DEF f
<1>3. f \in Injection(S, T)
  BY <1>1, <1>2 DEF Injection, IsInjective
<1> QED
  BY <1>3, FS_Injection

\* No more children between the common ends could stay than those of the sequence.
LEMMA MostStay ==
  ASSUME NEW s2 \in Int, NEW e2 \in Int, s2 <= e2, NEW map \in Maps(s2, e2), NEW sequence,
         sequence = GetSequence([k \in 1..(e2 - s2 + 1) |-> map[s2 + k - 1]]), NEW moved,
         NEW L \in SUBSET (s2..e2), \A j \in L : map[j] # 0, Rising(map, L)
  PROVE  Cardinality(L) <= Cardinality(Stays(sequence, map, moved, s2, e2))
<1> DEFINE n == e2 - s2 + 1
           arr == [k \in 1..n |-> map[s2 + k - 1]]
           S == Stays(sequence, map, moved, s2, e2)
           D == {k \in 1..n : s2 + k - 1 \in L}
           P == Picked(arr)
<1>1. n \in Nat
  OBVIOUS
<1>2. /\ arr \in Seq(Nat) /\ Len(arr) = n /\ Len(arr) # 0
      /\ \A k \in 1..n : arr[k] = map[s2 + k - 1] /\ s2 + k - 1 \in s2..e2
  BY MiddleEntries
<1>3. sequence = GetSequence(arr)
  OBVIOUS
<1> HIDE DEF arr
<1>4. D \in SUBSET Nonzero(arr, n)
  BY <1>2 DEF Nonzero
<1>5. Rising(arr, D)
  <2> SUFFICES ASSUME NEW j \in D, NEW k \in D, j < k PROVE arr[j] < arr[k]
    BY DEF Rising
  <2>1. j \in 1..n /\ k \in 1..n /\ s2 + j - 1 \in L /\ s2 + k - 1 \in L
    OBVIOUS
  <2>2. s2 + j - 1 < s2 + k - 1
    BY <2>1
  <2>3. map[s2 + j - 1] < map[s2 + k - 1]
    BY <2>1, <2>2 DEF Rising
  <2> QED
    BY <1>2, <2>1, <2>3
<1> HIDE DEF D
<1>6. IsFiniteSet(P) /\ Cardinality(D) <= Cardinality(P)
  BY <1>2, <1>4, <1>5, GetSequenceIsLongest
<1>7. IsFiniteSet(S)
  <2>1. IsFiniteSet(s2..e2)
    BY FS_Interval
  <2>2. S \in SUBSET (s2..e2)
    BY DEF Stays
  <2> HIDE DEF S
  <2> QED
    BY <2>1, <2>2, FS_Subset
<1>8. IsFiniteSet(D)
  <2>1. IsFiniteSet(1..n)
    BY <1>1, FS_Interval
  <2>2. D \in SUBSET (1..n)
    BY DEF D
  <2> QED
    BY <2>1, <2>2, FS_Subset
<1>9. Cardinality(L) <= Cardinality(D)
  <2>1. 1 - s2 \in Int /\ L \in SUBSET Int
    OBVIOUS
  <2>2. \A x \in L : x + (1 - s2) \in D
    <3> TAKE x \in L
    <3>1. x \in s2..e2 /\ x \in Int
      OBVIOUS
    <3>2. x + (1 - s2) \in 1..n /\ s2 + (x + (1 - s2)) - 1 = x
      BY <3>1
    <3> QED
      BY <3>2 DEF D
  <2> QED
    BY <1>8, <2>1, <2>2, ShiftFits
<1>10. P \in SUBSET (1..n) /\ Cardinality(P) <= Cardinality(S)
  <2>1. P \in SUBSET (1..n)
    BY <1>2 DEF Picked
  <2>2. s2 - 1 \in Int /\ P \in SUBSET Int
    BY <2>1
  <2>3. \A x \in P : x + (s2 - 1) \in S
    <3> TAKE x \in P
    <3>1. x \in 1..n /\ arr[x] # 0 /\ \E w \in 1..Len(sequence) : sequence[w] = x
      BY <1>2, <1>3 DEF Picked
    <3>2. x + (s2 - 1) = s2 + x - 1 /\ (x + (s2 - 1)) - s2 + 1 = x
      BY <3>1
    <3>3. x + (s2 - 1) \in s2..e2 /\ map[x + (s2 - 1)] # 0
      BY <1>2, <3>1, <3>2
    <3> QED
      BY <3>1, <3>2, <3>3 DEF Stays
  <2> HIDE DEF P, S
  <2> QED
    BY <1>7, <2>1, <2>2, <2>3, ShiftFits
<1>11. Cardinality(L) \in Nat /\ Cardinality(D) \in Nat /\ Cardinality(P) \in Nat /\ Cardinality(S) \in Nat
  <2>1. IsFiniteSet(L)
    BY FS_Interval, FS_Subset
  <2> HIDE DEF P, S
  <2> QED
    BY <1>6, <1>7, <1>8, <2>1, FS_CardinalityType
<1> HIDE DEF S, P
<1>12. Cardinality(L) <= Cardinality(S)
  BY <1>6, <1>9, <1>10, <1>11
<1> QED
  BY <1>12 DEF S

Blank(d, new, z, s2) ==
  [dom |-> d, new |-> new, moves |-> {}, unmounts |-> << >>,
   map |-> z, moved |-> FALSE, maxNewIndexSoFar |-> s2, left |-> 0]
LEMMA BlankIs ==
  ASSUME NEW X, NEW d \in Seq(Node), NEW new \in Seq(Child \cup Mounted),
         NEW z \in X, NEW s2 \in Int
  PROVE  Blank(d, new, z, s2) \in KeyedState(X)
<1> DEFINE nil == << >>
<1>1. nil \in Seq(Nat)
  OBVIOUS
<1>2. Blank(d, new, z, s2) = [dom |-> d, new |-> new, moves |-> {}, unmounts |-> nil,
                              map |-> z, moved |-> FALSE, maxNewIndexSoFar |-> s2, left |-> 0]
  BY DEF Blank
<1> HIDE DEF nil
<1> QED
  BY <1>1, <1>2 DEF KeyedState

LEMMA BlankParts ==
  ASSUME NEW d, NEW new, NEW z, NEW s2
  PROVE  /\ Blank(d, new, z, s2).dom = d /\ Blank(d, new, z, s2).new = new
         /\ Blank(d, new, z, s2).map = z /\ Blank(d, new, z, s2).moves = {}
         /\ Blank(d, new, z, s2).unmounts = << >>
BY DEF Blank

\* Before the search: nothing in the middle has been matched.
LEMMA SearchStarts ==
  ASSUME NEW c1 \in Seq(Mounted), NEW c2 \in Seq(Child), NEW m, NEW G, NEW W \in Siblings,
         NEW s1, NEW e1, NEW s2, NEW e2, Middle(c1, c2, m, G, s1, e1, s2, e2),
         NEW d, NEW new, Laid(d, new, c1, c2, m, G, W), Synced(c1, c2, m, G), NEW st,
         NEW zeros \in Maps(s2, e2), \A j \in s2..e2 : zeros[j] = 0,
         st = Blank(d, new, zeros, s2)
  PROVE  Searching(st, s1 - 1, c1, c2, m, G, W, s1, s2, e2)
<1>2. /\ s1 \in Int /\ s2 \in Int /\ Len(c2) \in Nat
      /\ \A j \in 1..Len(c2) : m[j] = 0 <=> j \in s2..e2
  <2>1. Len(c1) \in Nat /\ Len(c2) \in Nat
    BY MountedEntries, ChildEntries
  <2> QED
    BY <2>1 DEF Middle
<1>3. d \in Seq(Node) /\ new \in Seq(Child \cup Mounted) /\ m \in [1..Len(c2) -> 0..Len(c1)]
  BY DEF Laid, Row, NewIs, Matches
<1>4. With(c2, m, zeros, s2, e2) = m
  BY <1>2, <1>3 DEF With
<1>7. /\ st \in KeyedState(Maps(s2, e2)) /\ st.dom = d /\ st.new = new /\ st.map = zeros
      /\ st.moves = {} /\ st.unmounts = << >>
  <2>1. s2 \in Int
    BY <1>2
  <2>2. d \in Seq(Node) /\ new \in Seq(Child \cup Mounted)
    BY <1>3
  <2>3. Blank(d, new, zeros, s2) \in KeyedState(Maps(s2, e2))
    BY <2>1, <2>2, BlankIs
  <2>4. /\ Blank(d, new, zeros, s2).dom = d /\ Blank(d, new, zeros, s2).new = new
        /\ Blank(d, new, zeros, s2).map = zeros /\ Blank(d, new, zeros, s2).moves = {}
        /\ Blank(d, new, zeros, s2).unmounts = << >>
    BY BlankParts
  <2> QED
    BY <2>3, <2>4, Zenon
<1>8. G \cup (s1..(s1 - 1)) = G
  BY <1>2
<1>9. Noted(st, s1 - 1, s1, s2, e2)
  BY <1>7 DEF Noted
<1>10. Tried(st.map, s1 - 1, c1, c2, s1, s2, e2)
  BY <1>2, <1>7 DEF Tried
<1>11. Gone(st.unmounts, c1, c2, m, G)
  BY <1>7, SyncedGone
<1>12. Patching(st, c1, c2, m, G, W)
  BY <1>7, <1>11 DEF Patching
<1> QED
  BY <1>4, <1>7, <1>8, <1>9, <1>10, <1>12 DEF Searching

\* Those that keep their place are in the order of the old children.
LEMMA KeptGrows ==
  ASSUME NEW c1 \in Seq(Mounted), NEW c2 \in Seq(Child), NEW m \in [1..Len(c2) -> Nat], NEW G,
         NEW s1, NEW e1, NEW s2, NEW e2, Middle(c1, c2, m, G, s1, e1, s2, e2),
         NEW t, Noted(t, e1, s1, s2, e2), t.map \in Maps(s2, e2),
         NEW sequence, InOrder(sequence, t.map, s2, e2)
  PROVE  LET q == With(c2, m, t.map, s2, e2)
         IN  Grows(q, Kept(sequence, c2, q, t.map, t.moved, s2, e2))
<1> DEFINE q == With(c2, m, t.map, s2, e2)
           map == t.map
           K == Kept(sequence, c2, q, map, t.moved, s2, e2)
           S == Stays(sequence, map, t.moved, s2, e2)
<1>1. /\ s1 \in Int /\ e1 \in Int /\ s2 \in Int /\ e2 \in Int /\ Len(c2) \in Nat
      /\ \A j \in 1..Len(c2) : m[j] = 0 <=> j \in s2..e2
      /\ \A j \in 1..Len(c2) : (j < s2 => m[j] < s1) /\ (j > e2 => m[j] > e1)
      /\ Grows(m, Matched(c2, m))
  <2>1. Len(c1) \in Nat /\ Len(c2) \in Nat
    BY MountedEntries, ChildEntries
  <2> QED
    BY <2>1 DEF Middle
<1>2. \A j \in 1..Len(c2) : q[j] = IF j \in s2..e2 THEN map[j] ELSE m[j]
  BY DEF With
<1>3. \A j \in K : j \in 1..Len(c2) /\ (j \in s2..e2 => j \in S /\ map[j] # 0)
  BY DEF Kept, Matched, Stays
<1>4. \A j \in s2..e2 : map[j] # 0 => map[j] \in s1..e1
  BY DEF Noted
<1> HIDE DEF q, K
<1>5. ASSUME NEW j \in S, NEW k \in S, j < k, j \in s2..e2, k \in s2..e2 PROVE map[j] < map[k]
  <2>1. CASE t.moved = FALSE
    <3>1. map[j] # 0 /\ map[k] # 0
      BY DEF Stays
    <3> QED
      BY <1>5, <2>1, <3>1 DEF Noted
  <2>2. CASE t.moved # FALSE
    <3>1. PICK v \in 1..Len(sequence) : sequence[v] = j - s2 + 1
      BY <2>2 DEF Stays
    <3>2. PICK w \in 1..Len(sequence) : sequence[w] = k - s2 + 1
      BY <2>2 DEF Stays
    <3>0. j \in Int /\ k \in Int /\ v \in Int /\ w \in Int
      BY <1>1, <1>5
    <3>3. sequence[v] < sequence[w] /\ sequence[v] \in Int /\ sequence[w] \in Int
      BY <1>1, <1>5, <3>0, <3>1, <3>2
    <3>4. v < w
      <4>1. ~(w < v)
        <5>1. w < v => sequence[w] < sequence[v]
          BY DEF InOrder
        <5> QED
          BY <3>3, <5>1
      <4>2. v # w
        BY <3>3
      <4> QED
        BY <3>0, <4>1, <4>2
    <3>5. map[s2 + sequence[v] - 1] < map[s2 + sequence[w] - 1]
      BY <3>4 DEF InOrder
    <3>6. s2 + sequence[v] - 1 = j /\ s2 + sequence[w] - 1 = k
      BY <1>1, <3>0, <3>1, <3>2
    <3> QED
      BY <3>5, <3>6
  <2> QED
    BY <2>1, <2>2
<1>6. ASSUME NEW j \in K, NEW k \in K, j < k PROVE q[j] < q[k]
  <2>1. j \in 1..Len(c2) /\ k \in 1..Len(c2) /\ j \in Int /\ k \in Int
    BY <1>1, <1>3
  <2>2. CASE j \in s2..e2 /\ k \in s2..e2
    BY <1>2, <1>3, <1>5, <1>6, <2>1, <2>2
  <2>3. CASE j \in s2..e2 /\ k \notin s2..e2
    <3>1. k > e2 /\ map[j] \in s1..e1
      BY <1>1, <1>3, <1>4, <1>6, <2>1, <2>3
    <3>2. q[j] <= e1 /\ e1 < q[k] /\ q[j] = map[j] /\ q[k] = m[k]
      BY <1>1, <1>2, <2>1, <2>3, <3>1
    <3>3. m[k] \in Nat /\ map[j] \in Int
      BY <1>1, <2>1, <3>1
    <3> QED
      BY <1>1, <3>2, <3>3
  <2>4. CASE j \notin s2..e2 /\ k \in s2..e2
    <3>1. j < s2 /\ map[k] \in s1..e1
      BY <1>1, <1>3, <1>4, <1>6, <2>1, <2>4
    <3>2. q[j] < s1 /\ s1 <= q[k] /\ q[k] = map[k] /\ q[j] = m[j]
      BY <1>1, <1>2, <2>1, <2>4, <3>1
    <3>3. m[j] \in Nat /\ map[k] \in Int
      BY <1>1, <2>1, <3>1
    <3> QED
      BY <1>1, <3>2, <3>3
  <2>5. CASE j \notin s2..e2 /\ k \notin s2..e2
    <3>1. q[j] = m[j] /\ q[k] = m[k] /\ j \in Matched(c2, m) /\ k \in Matched(c2, m)
      BY <1>1, <1>2, <2>1, <2>5 DEF Matched
    <3> QED
      BY <1>1, <1>6, <3>1 DEF Grows
  <2> QED
    BY <2>2, <2>3, <2>4, <2>5
<1> QED
  BY <1>6 DEF Grows, K, q

\* The state between the two loops: the old children have been looked at, and the
\* sequence has been found.
LEMMA SettleStarts ==
  ASSUME NEW c1 \in Seq(Mounted), Distinct(c1), NEW c2 \in Seq(Child), NEW m, NEW G,
         NEW W \in Siblings, NEW s1, NEW e1, NEW s2, NEW e2,
         Middle(c1, c2, m, G, s1, e1, s2, e2), m \in [1..Len(c2) -> Nat],
         NEW st, Searching(st, e1, c1, c2, m, G, W, s1, s2, e2),
         NEW sequence, InOrder(sequence, st.map, s2, e2), NEW t,
         Held(t, st, st.dom, st.moves, Len(sequence), Maps(s2, e2))
  PROVE  /\ Settling(t, e2 + 1, c1, c2, With(c2, m, st.map, s2, e2), W, st.unmounts,
                     st.map, st.moved, sequence, s2, e2)
         /\ Inside(c2, With(c2, m, st.map, s2, e2), st.map, s2, e2)
<1> DEFINE q == With(c2, m, st.map, s2, e2)
           M == Matched(c2, q)
           K == Kept(sequence, c2, q, st.map, st.moved, s2, e2)
<1>1. /\ Len(c1) \in Nat /\ Len(c2) \in Nat
      /\ s1 \in 1..Len(c1) /\ e1 \in s1..Len(c1) /\ s2 \in 1..Len(c2) /\ e2 \in s2..Len(c2)
      /\ \A i \in 1..Len(c1) : i \in G <=> i \notin s1..e1
      /\ \A j \in 1..Len(c2) : m[j] = 0 <=> j \in s2..e2
  <2>1. Len(c1) \in Nat /\ Len(c2) \in Nat
    BY MountedEntries, ChildEntries
  <2> QED
    BY <2>1 DEF Middle
<1>2. /\ st \in KeyedState(Maps(s2, e2))
      /\ Patching(st, c1, c2, q, G \cup (s1..e1), W) /\ Noted(st, e1, s1, s2, e2)
  BY DEF Searching
<1>3. st.map \in Maps(s2, e2)
  BY <1>2 DEF KeyedState
<1>4. \A j \in 1..Len(c2) : q[j] = IF j \in s2..e2 THEN st.map[j] ELSE m[j]
  BY DEF With
<1> HIDE DEF q
<1>5. Inside(c2, q, st.map, s2, e2)
  <2>1. \A j \in 1..Len(c2) : IF j \in s2..e2 THEN q[j] = st.map[j] ELSE q[j] # 0
    BY <1>1, <1>4
  <2> QED
    BY <1>1, <1>3, <2>1 DEF Inside
<1>6. G \cup (s1..e1) = 1..Len(c1)
  <2>1. G \subseteq 1..Len(c1)
    BY <1>2 DEF Patching, Laid
  <2>2. \A i \in s1..e1 : i \in 1..Len(c1)
    BY <1>1
  <2> QED
    BY <1>1, <2>1, <2>2
<1>7. Patching(st, c1, c2, q, 1..Len(c1), W)
  BY <1>2, <1>6
<1>8. Grows(q, K)
  BY <1>2, <1>3, KeptGrows DEF q
<1>9. K \in SUBSET M
  BY DEF Kept
<1>10. Placing(st.dom, st.new, c1, c2, q, M, K, W)
  <2>1. \A j, k \in K : j < k => q[j] < q[k]
    BY <1>8 DEF Grows
  <2> HIDE DEF K, M
  <2> QED
    BY <1>7, <1>9, <2>1, PlacingStarts DEF M, Patching
<1>11. M \cup ((e2 + 1)..e2) = M /\ K \cup ((e2 + 1)..e2) = K
  <2>1. (e2 + 1)..e2 = {}
    BY <1>1
  <2> HIDE DEF M, K
  <2> QED
    BY <2>1
<1>12. Left(Len(sequence), e2 + 1, sequence, st.map, s2)
  <2>1. sequence \in Seq(1..(e2 - s2 + 1))
    BY DEF InOrder
  <2>2. Len(sequence) \in Nat /\ \A w \in 1..Len(sequence) : sequence[w] \in 1..(e2 - s2 + 1)
    BY <2>1, Entries
  <2>3. \A w \in 1..Len(sequence) : ~(w > Len(sequence)) /\ s2 + sequence[w] - 1 < e2 + 1
    <3> TAKE w \in 1..Len(sequence)
    <3>1. sequence[w] \in 1..(e2 - s2 + 1) /\ s2 \in Int /\ e2 \in Int
      BY <1>1, <2>2
    <3> QED
      BY <2>2, <3>1
  <2> QED
    BY <2>2, <2>3 DEF Left
<1> HIDE DEF M, K
<1>13. Settling(t, e2 + 1, c1, c2, q, W, st.unmounts, st.map, st.moved, sequence, s2, e2)
  <2>1. /\ t \in KeyedState(Maps(s2, e2)) /\ t.dom = st.dom /\ t.new = st.new
        /\ t.map = st.map /\ t.moved = st.moved /\ t.left = Len(sequence)
        /\ t.moves = st.moves /\ t.unmounts = st.unmounts
    BY DEF Held
  <2>2. Placing(t.dom, t.new, c1, c2, q, M \cup ((e2 + 1)..e2), K \cup ((e2 + 1)..e2), W)
    BY <1>10, <1>11, <2>1
  <2>3. Left(t.left, e2 + 1, sequence, st.map, s2)
    BY <1>12, <2>1
  <2>4. t.moves = Moving(e2 + 1, st.map, st.moved, sequence, s2, e2)
    <3>1. st.moves = {}
      BY <1>7 DEF Patching
    <3>2. (e2 + 1)..e2 = {}
      BY <1>1
    <3> QED
      BY <2>1, <3>1, <3>2 DEF Moving
  <2> QED
    BY <2>1, <2>2, <2>3, <2>4 DEF Settling, M, K
<1> QED
  BY <1>5, <1>13 DEF q

\* Of the old and new children in a set each, those that keep their place are the
\* most that could.
LEMMA KeptGreatest ==
  ASSUME NEW c2 \in Seq(Child), NEW q, NEW map, NEW moved, NEW sequence, NEW s2, NEW e2,
         Inside(c2, q, map, s2, e2),
         sequence = GetSequence([k \in 1..(e2 - s2 + 1) |-> map[s2 + k - 1]]),
         Grows(q, Kept(sequence, c2, q, map, moved, s2, e2))
  PROVE  Greatest(Kept(sequence, c2, q, map, moved, s2, e2), c2, q)
<1> DEFINE K == Kept(sequence, c2, q, map, moved, s2, e2)
           M == Matched(c2, q)
           S == Stays(sequence, map, moved, s2, e2)
<1>1. /\ Len(c2) \in Nat /\ s2 \in Int /\ e2 \in Int /\ s2 <= e2 /\ map \in Maps(s2, e2)
      /\ \A j \in s2..e2 : j \in 1..Len(c2)
      /\ \A j \in 1..Len(c2) : IF j \in s2..e2 THEN q[j] = map[j] ELSE q[j] # 0
  <2>1. Len(c2) \in Nat
    BY ChildEntries
  <2> QED
    BY <2>1 DEF Inside
<1>2. K \in SUBSET M /\ M \in SUBSET (1..Len(c2))
  BY DEF Kept, Matched
<1>3. IsFiniteSet(M) /\ IsFiniteSet(K)
  <2>1. IsFiniteSet(1..Len(c2))
    BY <1>1, FS_Interval
  <2> HIDE DEF M, K
  <2>2. IsFiniteSet(M)
    BY <1>2, <2>1, FS_Subset
  <2> QED
    BY <1>2, <2>2, FS_Subset
<1>4. S \in SUBSET K /\ S \in SUBSET (s2..e2) /\ \A j \in M : j \notin s2..e2 => j \in K
  BY <1>1 DEF Kept, Stays, Matched
<1> HIDE DEF K, S
<1>5. ASSUME NEW L \in SUBSET M, Grows(q, L) PROVE Cardinality(L) <= Cardinality(K)
  <2> DEFINE A == L \cap (s2..e2)
             B == L \ (s2..e2)
             C == K \ (s2..e2)
  <2>1. Cardinality(A) <= Cardinality(S)
    <3>1. A \in SUBSET (s2..e2) /\ \A j \in A : map[j] # 0 /\ q[j] = map[j]
      BY <1>1 DEF Matched
    <3>2. Rising(map, A)
      BY <1>5, <3>1 DEF Grows, Rising
    <3> HIDE DEF A
    <3> QED
      BY <1>1, <3>1, <3>2, MostStay DEF S
  <2>2. B \in SUBSET C
    BY <1>4
  <2>3. IsFiniteSet(L) /\ IsFiniteSet(A) /\ IsFiniteSet(B) /\ IsFiniteSet(C) /\ IsFiniteSet(S)
    <3>1. IsFiniteSet(L)
      BY <1>3, FS_Subset
    <3>2. A \in SUBSET L /\ B \in SUBSET L /\ C \in SUBSET K
      OBVIOUS
    <3> HIDE DEF A, B, C, M
    <3> QED
      BY <1>3, <1>4, <3>1, <3>2, FS_Subset
  <2>4. Cardinality(B) <= Cardinality(C)
    BY <2>2, <2>3, FS_Subset
  <2>5. Cardinality(L) = Cardinality(A) + Cardinality(B)
    <3>1. A \cup B = L /\ A \cap B = {}
      OBVIOUS
    <3> HIDE DEF A, B
    <3>2. Cardinality(A \cup B) = Cardinality(A) + Cardinality(B) - Cardinality(A \cap B)
      BY <2>3, FS_Union
    <3>3. Cardinality(A \cap B) = 0
      BY <3>1, FS_EmptySet
    <3>4. Cardinality(A) \in Nat /\ Cardinality(B) \in Nat
      BY <2>3, FS_CardinalityType
    <3>5. Cardinality(A \cup B) = Cardinality(A) + Cardinality(B)
      BY <3>2, <3>3, <3>4
    <3> QED
      BY <3>1, <3>5, Zenon
  <2>6. Cardinality(S \cup C) = Cardinality(S) + Cardinality(C) /\ S \cup C \in SUBSET K
    <3>1. S \cap C = {} /\ S \cup C \in SUBSET K
      BY <1>4
    <3> HIDE DEF C
    <3>2. Cardinality(S \cup C) = Cardinality(S) + Cardinality(C) - Cardinality(S \cap C)
      BY <2>3, FS_Union
    <3>3. Cardinality(S \cap C) = 0
      BY <3>1, FS_EmptySet
    <3>4. Cardinality(S) \in Nat /\ Cardinality(C) \in Nat
      BY <2>3, FS_CardinalityType
    <3>5. Cardinality(S \cup C) = Cardinality(S) + Cardinality(C)
      BY <3>2, <3>3, <3>4
    <3> QED
      BY <3>1, <3>5, Zenon
  <2>7. Cardinality(S \cup C) <= Cardinality(K)
    BY <1>3, <2>6, FS_Subset
  <2>8. /\ Cardinality(A) \in Nat /\ Cardinality(B) \in Nat /\ Cardinality(C) \in Nat
        /\ Cardinality(S) \in Nat /\ Cardinality(K) \in Nat
    BY <1>3, <2>3, FS_CardinalityType
  <2> HIDE DEF A, B, C
  <2> QED
    BY <2>1, <2>4, <2>5, <2>6, <2>7, <2>8
<1>6. Grows(q, K)
  BY DEF K
<1> HIDE DEF M
<1>7. Greatest(K, c2, q)
  BY <1>2, <1>5, <1>6 DEF Greatest, M
<1> QED
  BY <1>7 DEF K

\* No more than those have to be moved.
LEMMA LeastMoved ==
  ASSUME NEW c1, NEW c2 \in Seq(Child), NEW q, NEW map, NEW moved \in BOOLEAN, NEW sequence,
         NEW s2, NEW e2, Inside(c2, q, map, s2, e2), Thorough(c1, c2, q),
         moved => sequence = GetSequence([k \in 1..(e2 - s2 + 1) |-> map[s2 + k - 1]]),
         Grows(q, Kept(sequence, c2, q, map, moved, s2, e2))
  PROVE  MovesLeast(Moving(s2, map, moved, sequence, s2, e2), c1, c2, q)
<1>1. CASE moved = FALSE
  <2>1. Moving(s2, map, moved, sequence, s2, e2) = {}
    BY <1>1 DEF Moving, Stays
  <2> QED
    BY <2>1 DEF MovesLeast
<1>2. CASE moved = TRUE
  <2> DEFINE K == Kept(sequence, c2, q, map, moved, s2, e2)
             S == Stays(sequence, map, moved, s2, e2)
  <2>0. sequence = GetSequence([k \in 1..(e2 - s2 + 1) |-> map[s2 + k - 1]])
    BY <1>2
  <2>1. Greatest(K, c2, q)
    BY <2>0, KeptGreatest
  <2>2. /\ \A j \in s2..e2 : j \in 1..Len(c2)
        /\ \A j \in 1..Len(c2) : j \in s2..e2 => q[j] = map[j]
    <3>1. Len(c2) \in Nat
      BY ChildEntries
    <3> QED
      BY <3>1 DEF Inside
  <2>3. K = {j \in Matched(c2, q) : j \in s2..e2 => j \in S}
    BY DEF Kept
  <2>4. Moving(s2, map, moved, sequence, s2, e2) = {j \in s2..e2 : map[j] # 0 /\ j \notin S}
    BY DEF Moving
  <2> HIDE DEF S
  <2>5. Moving(s2, map, moved, sequence, s2, e2) = Matched(c2, q) \ K
    BY <2>2, <2>3, <2>4 DEF Matched
  <2> HIDE DEF K
  <2> QED
    BY <2>1, <2>5 DEF MovesLeast
<1> QED
  BY <1>1, <1>2

\* What has been tried in the middle is thorough in the whole.
LEMMA TriedThorough ==
  ASSUME NEW c1 \in Seq(Mounted), NEW c2 \in Seq(Child), NEW m, NEW G,
         NEW s1, NEW e1, NEW s2, NEW e2, Middle(c1, c2, m, G, s1, e1, s2, e2),
         Synced(c1, c2, m, G), NEW map, Tried(map, e1, c1, c2, s1, s2, e2),
         NEW q, q = With(c2, m, map, s2, e2)
  PROVE  Thorough(c1, c2, q)
<1>1. /\ \A j \in 1..Len(c2) : q[j] = IF j \in s2..e2 THEN map[j] ELSE m[j]
      /\ \A j \in 1..Len(c2) : m[j] = 0 <=> j \in s2..e2
      /\ \A i \in 1..Len(c1) : i \in G <=> i \notin s1..e1
      /\ \A j \in s2..e2 : j \in 1..Len(c2)
  <2>1. Len(c2) \in Nat
    BY ChildEntries
  <2>2. \A j \in 1..Len(c2) : q[j] = IF j \in s2..e2 THEN map[j] ELSE m[j]
    BY DEF With
  <2>3. \A j \in s2..e2 : j \in 1..Len(c2)
    BY <2>1 DEF Middle
  <2> QED
    BY <2>2, <2>3 DEF Middle
<1>2. ASSUME NEW i \in 1..Len(c1), NEW j \in 1..Len(c2), q[j] = 0,
             \A k \in 1..Len(c2) : q[k] # i
      PROVE  ~Alike(c1[i], c2[j])
  <2>1. j \in s2..e2 /\ map[j] = 0
    BY <1>1, <1>2
  <2>2. i \notin G
    <3> SUFFICES ASSUME i \in G PROVE FALSE
      OBVIOUS
    <3>1. PICK k \in 1..Len(c2) : m[k] = i /\ m[k] # 0
      BY DEF Synced
    <3> QED
      BY <1>1, <1>2, <3>1
  <2>3. i \in s1..e1 /\ \A l \in s2..e2 : map[l] # i
    BY <1>1, <1>2, <2>2
  <2> QED
    BY <2>1, <2>3 DEF Tried
<1>3. ASSUME NEW j \in Matched(c2, q), c2[j].key = NoKey PROVE c1[q[j]].type = c2[j].type
  <2>1. j \in 1..Len(c2) /\ q[j] # 0
    BY DEF Matched
  <2>2. CASE j \in s2..e2
    BY <1>1, <1>3, <2>1, <2>2 DEF Tried
  <2>3. CASE j \notin s2..e2
    BY <1>1, <2>1, <2>3 DEF Synced, Matched
  <2> QED
    BY <2>2, <2>3
<1> QED
  BY <1>2, <1>3 DEF Thorough

LEMMA LeftHeld ==
  ASSUME NEW Y, NEW s \in KeyedState(Y), NEW n \in Nat
  PROVE  Held([s EXCEPT !.left = n], s, s.dom, s.moves, n, Y)
BY DEF KeyedState, Held

LEMMA SettleEnds ==
  ASSUME NEW c1 \in Seq(Mounted), Distinct(c1), NEW c2 \in Seq(Child), NEW q,
         NEW W \in Siblings, NEW us, NEW map, NEW moved, NEW sequence, NEW s2, NEW e2,
         Inside(c2, q, map, s2, e2), NEW t,
         Settling(t, s2, c1, c2, q, W, us, map, moved, sequence, s2, e2),
         Gone(us, c1, c2, q, 1..Len(c1)), Reuses(c1, c2, q, W),
         MovesLeast(Moving(s2, map, moved, sequence, s2, e2), c1, c2, q)
  PROVE  Patched(t, c1, c2, W)
<1> DEFINE M == Matched(c2, q)
           K == Kept(sequence, c2, q, map, moved, s2, e2)
<1>1. Len(c2) \in Nat
  BY ChildEntries
<1>2. /\ \A j \in s2..e2 : j \in 1..Len(c2)
      /\ \A j \in 1..Len(c2) : j \notin s2..e2 => j \in M /\ j \in K
  BY <1>1 DEF Inside, Matched, Kept
<1>3. M \subseteq 1..Len(c2) /\ K \subseteq 1..Len(c2)
  BY DEF Matched, Kept
<1>4. Placing(t.dom, t.new, c1, c2, q, M \cup (s2..e2), K \cup (s2..e2), W)
  BY DEF Settling
<1> HIDE DEF M, K
<1>5. M \cup (s2..e2) = 1..Len(c2) /\ K \cup (s2..e2) = 1..Len(c2)
  BY <1>2, <1>3
<1>6. Placing(t.dom, t.new, c1, c2, q, 1..Len(c2), 1..Len(c2), W)
  BY <1>4, <1>5
<1>7. t.moves = Moving(s2, map, moved, sequence, s2, e2) /\ t.unmounts = us
  BY DEF Settling
<1>8. Gone(t.unmounts, c1, c2, q, 1..Len(c1)) /\ MovesLeast(t.moves, c1, c2, q)
  BY <1>7
<1> QED
  BY <1>6, <1>8, PatchedWhen

LEMMA NoEntries ==
  ASSUME NEW S
  PROVE  << >> \in Seq(S) /\ Len(<< >>) = 0
OBVIOUS

\* The unknown sequence between what is in common at both ends.
LEMMA UnknownPatched ==
  ASSUME NEW c1 \in Seq(Mounted), Distinct(c1), KeysOnce(c1), NEW c2 \in Seq(Child), NEW m, NEW G,
         NEW W \in Siblings, NEW s1, NEW e1, NEW s2, NEW e2,
         Middle(c1, c2, m, G, s1, e1, s2, e2), Synced(c1, c2, m, G),
         NEW st0, Laid(st0.dom, st0.new, c1, c2, m, G, W),
         NEW anchor, anchor = IF W = {} THEN << >> ELSE After
  PROVE  Patched(UnknownSequence(st0, c1, s1, e1, s2, e2, anchor), c1, c2, W)
<1> DEFINE zeros == [j \in s2..e2 |-> 0]
           st1 == Blank(st0.dom, st0.new, zeros, s2)
           st2 == PatchOldFrom(st1, c1, s1, e1, s2, e2)
           sequence == IF st2.moved
                       THEN GetSequence([k \in 1..(e2 - s2 + 1) |-> st2.map[s2 + k - 1]])
                       ELSE << >>
           st3 == [st2 EXCEPT !.left = Len(sequence)]
           t == PlaceNewFrom(st3, c1, s2, e2, sequence, anchor)
           q == With(c2, m, st2.map, s2, e2)
<1>1. t = UnknownSequence(st0, c1, s1, e1, s2, e2, anchor)
  BY DEF UnknownSequence, Blank
<1>2. s2 \in Int /\ e2 \in Int /\ s2 <= e2
  <2>1. Len(c2) \in Nat
    BY ChildEntries
  <2> QED
    BY <2>1 DEF Middle
<1>3. m \in [1..Len(c2) -> Nat]
  <2>1. m \in [1..Len(c2) -> 0..Len(c1)] /\ Len(c1) \in Nat
    BY MountedEntries DEF Laid, Matches
  <2> QED
    BY <2>1
<1>4. Searching(st1, s1 - 1, c1, c2, m, G, W, s1, s2, e2)
  <2>1. zeros \in Maps(s2, e2) /\ \A j \in s2..e2 : zeros[j] = 0
    BY DEF Maps
  <2> HIDE DEF zeros
  <2> QED
    BY <2>1, SearchStarts
<1> HIDE DEF st1, zeros, sequence, st3, t, q
<1>5. Searching(st2, e1, c1, c2, m, G, W, s1, s2, e2)
  BY <1>4, SearchRuns
<1> HIDE DEF st2
<1>6. st2 \in KeyedState(Maps(s2, e2)) /\ st2.map \in Maps(s2, e2) /\ st2.moved \in BOOLEAN
  BY <1>5 DEF Searching, KeyedState
<1>7. InOrder(sequence, st2.map, s2, e2) /\ (st2.moved = FALSE => sequence = << >>)
  <2>1. CASE st2.moved
    BY <1>2, <1>6, <2>1, SequenceInOrder DEF sequence
  <2>2. CASE ~st2.moved
    <3>1. sequence = << >>
      BY <2>2 DEF sequence
    <3>2. sequence \in Seq(1..(e2 - s2 + 1)) /\ Len(sequence) = 0
      BY <3>1, NoEntries
    <3> QED
      BY <3>1, <3>2 DEF InOrder
  <2> QED
    BY <2>1, <2>2
<1>8. Len(sequence) \in Nat
  <2>1. sequence \in Seq(1..(e2 - s2 + 1))
    BY <1>7 DEF InOrder
  <2> QED
    BY <2>1, Entries
<1>9. Held(st3, st2, st2.dom, st2.moves, Len(sequence), Maps(s2, e2))
  BY <1>6, <1>8, LeftHeld DEF st3
<1>10. /\ Settling(st3, e2 + 1, c1, c2, q, W, st2.unmounts, st2.map, st2.moved, sequence, s2, e2)
       /\ Inside(c2, q, st2.map, s2, e2)
  BY <1>3, <1>5, <1>7, <1>9, SettleStarts DEF q
<1>11. Settling(t, s2, c1, c2, q, W, st2.unmounts, st2.map, st2.moved, sequence, s2, e2)
  BY <1>6, <1>7, <1>10, SettleRuns DEF t
<1>13. Tried(st2.map, e1, c1, c2, s1, s2, e2) /\ Noted(st2, e1, s1, s2, e2)
  BY <1>5 DEF Searching
<1>14. Thorough(c1, c2, q)
  BY <1>13, TriedThorough DEF q
<1>15. Gone(st2.unmounts, c1, c2, q, 1..Len(c1))
  <2>1. Patching(st2, c1, c2, q, G \cup (s1..e1), W)
    BY <1>5 DEF Searching, q
  <2>2. G \cup (s1..e1) = 1..Len(c1)
    <3>1. Len(c1) \in Nat
      BY MountedEntries
    <3>2. \A i \in s1..e1 : i \in 1..Len(c1)
      BY <3>1 DEF Middle
    <3>3. G \subseteq 1..Len(c1) /\ \A i \in 1..Len(c1) : i \in G <=> i \notin s1..e1
      BY DEF Laid, Middle
    <3> QED
      BY <3>2, <3>3
  <2> QED
    BY <2>1, <2>2 DEF Patching
<1>16. Grows(q, Kept(sequence, c2, q, st2.map, st2.moved, s2, e2))
  BY <1>3, <1>6, <1>7, <1>13, KeptGrows DEF q
<1>17. st2.moved => sequence = GetSequence([k \in 1..(e2 - s2 + 1) |-> st2.map[s2 + k - 1]])
  BY DEF sequence
<1>18. MovesLeast(Moving(s2, st2.map, st2.moved, sequence, s2, e2), c1, c2, q)
  BY <1>6, <1>10, <1>14, <1>16, <1>17, LeastMoved
<1>19. Reuses(c1, c2, q, W)
  BY <1>14 DEF Reuses
<1>12. Patched(t, c1, c2, W)
  BY <1>10, <1>11, <1>15, <1>18, <1>19, SettleEnds
<1> QED
  BY <1>1, <1>12 DEF t

--------------------------------------------------------------------------------
(* Where the children may have keys: the common start and the common end, and   *)
(* what is between them.                                                        *)

\* The children up to start and those after e2 have been patched, to one of their
\* type each.
Ends(c1, c2, m, G, start, e1, e2) ==
  /\ start \in Nat /\ e1 \in Nat /\ e2 \in Nat /\ start <= e1 /\ e1 <= Len(c1)
  /\ start <= e2 /\ e2 <= Len(c2)
  /\ \A j \in 1..Len(c2) : m[j] = IF j <= start THEN j ELSE IF j > e2 THEN e1 + (j - e2) ELSE 0
  /\ \A i \in 1..Len(c1) : i \in G <=> (i <= start \/ i > e1)
  /\ \A j \in 1..start : c1[j].type = c2[j].type
  /\ \A j \in (e2 + 1)..Len(c2) : c1[e1 + (j - e2)].type = c2[j].type
  /\ G \subseteq 1..Len(c1) /\ Len(c1) - e1 = Len(c2) - e2

\* The children in common at the ends are in the same order.
LEMMA EndsGrow ==
  ASSUME NEW c1 \in Seq(Mounted), NEW c2 \in Seq(Child), NEW m, NEW G,
         NEW start, NEW e1, NEW e2, Ends(c1, c2, m, G, start, e1, e2)
  PROVE  /\ Grows(m, Matched(c2, m))
         /\ \A j \in 1..Len(c2) : j \in Matched(c2, m) <=> j \notin (start + 1)..e2
<1>1. /\ Len(c1) \in Nat /\ Len(c2) \in Nat
      /\ start \in Nat /\ e1 \in Nat /\ e2 \in Nat /\ start <= e1 /\ start <= e2
      /\ \A j \in 1..Len(c2) : m[j] = IF j <= start THEN j ELSE IF j > e2 THEN e1 + (j - e2) ELSE 0
  BY MountedEntries, ChildEntries DEF Ends
<1>2. ASSUME NEW j \in 1..Len(c2) PROVE j \in Matched(c2, m) <=> j \notin (start + 1)..e2
  <2>1. j \in Int /\ (m[j] # 0 <=> (j <= start \/ j > e2))
    BY <1>1
  <2>2. j \notin (start + 1)..e2 <=> (j <= start \/ j > e2)
    BY <1>1, <2>1
  <2> QED
    BY <2>1, <2>2 DEF Matched
<1>3. ASSUME NEW j \in Matched(c2, m), NEW k \in Matched(c2, m), j < k PROVE m[j] < m[k]
  <2>1. j \in 1..Len(c2) /\ k \in 1..Len(c2) /\ m[j] # 0 /\ m[k] # 0
    BY DEF Matched
  <2> QED
    BY <1>1, <1>3, <2>1
<1> QED
  BY <1>2, <1>3 DEF Grows

LEMMA EndsMatch ==
  ASSUME NEW c1 \in Seq(Mounted), NEW c2 \in Seq(Child), NEW m, NEW G,
         NEW start, NEW e1, NEW e2, Ends(c1, c2, m, G, start, e1, e2)
  PROVE  Synced(c1, c2, m, G)
<1>1. /\ Len(c1) \in Nat /\ Len(c2) \in Nat
      /\ start \in Nat /\ e1 \in Nat /\ e2 \in Nat /\ start <= e1 /\ start <= e2
      /\ e1 <= Len(c1) /\ e2 <= Len(c2) /\ Len(c1) - e1 = Len(c2) - e2
      /\ \A j \in 1..Len(c2) : m[j] = IF j <= start THEN j ELSE IF j > e2 THEN e1 + (j - e2) ELSE 0
  BY MountedEntries, ChildEntries DEF Ends
<1>2. ASSUME NEW j \in Matched(c2, m) PROVE c1[m[j]].type = c2[j].type
  <2>1. j \in 1..Len(c2) /\ m[j] # 0 /\ j \in Int
    BY <1>1 DEF Matched
  <2>2. CASE j <= start
    <3>1. m[j] = j /\ j \in 1..start
      BY <1>1, <2>1, <2>2
    <3>2. c1[j].type = c2[j].type
      BY <3>1 DEF Ends
    <3> QED
      BY <3>1, <3>2
  <2>3. CASE ~(j <= start)
    <3>1. m[j] = e1 + (j - e2) /\ j \in (e2 + 1)..Len(c2)
      BY <1>1, <2>1, <2>3
    <3>2. c1[e1 + (j - e2)].type = c2[j].type
      BY <3>1 DEF Ends
    <3> QED
      BY <3>1, <3>2
  <2> QED
    BY <2>2, <2>3
<1>3. ASSUME NEW i \in G PROVE \E j \in 1..Len(c2) : m[j] = i /\ m[j] # 0
  <2>1. i \in 1..Len(c1) /\ (i <= start \/ i > e1)
    BY DEF Ends
  <2>2. CASE i <= start
    <3>1. i \in 1..Len(c2) /\ m[i] = i /\ i # 0
      BY <1>1, <2>1, <2>2
    <3> QED
      BY <3>1
  <2>3. CASE i > e1
    <3> DEFINE j == e2 + (i - e1)
    <3>1. j \in 1..Len(c2) /\ j > e2 /\ ~(j <= start) /\ e1 + (j - e2) = i /\ i # 0
      BY <1>1, <2>1, <2>3
    <3> HIDE DEF j
    <3>2. m[j] = i
      BY <1>1, <3>1
    <3> QED
      BY <3>1, <3>2
  <2> QED
    BY <2>1, <2>2, <2>3
<1> QED
  BY <1>2, <1>3 DEF Synced

\* Patching the ends that are in common.
LEMMA EndsSynced ==
  ASSUME NEW X, NEW c1 \in Seq(Mounted), Distinct(c1), NEW c2 \in Seq(Child), NEW W \in Siblings,
         NEW start, start = SyncStart(c1, c2), NEW end, end = SyncEnd(c1, c2, start)
  PROVE  LET e1 == Len(c1) - end
             e2 == Len(c2) - end
             s1 == PatchFrom(StartPatch(c2, Contents(c1, W)), c1, 0, 0, start)
             st == PatchFrom(s1, c1, e1, e2, end)
         IN  /\ st \in PatchState \cup KeyedState(X)
             /\ \E m, G : /\ Patching(st, c1, c2, m, G, W)
                          /\ Ends(c1, c2, m, G, start, e1, e2)
<1> DEFINE e1 == Len(c1) - end
           e2 == Len(c2) - end
           s0 == StartPatch(c2, Contents(c1, W))
           s1 == PatchFrom(s0, c1, 0, 0, start)
           st == PatchFrom(s1, c1, e1, e2, end)
           m0 == Unmatched(c2)
           m1 == Shifted(c2, m0, 0, 0, start)
           G1 == {} \cup ((0 + 1)..(0 + start))
           m2 == Shifted(c2, m1, e1, e2, end)
           G2 == G1 \cup ((e1 + 1)..(e1 + end))
<1>1. Len(c1) \in Nat /\ Len(c2) \in Nat
  BY MountedEntries, ChildEntries
<1>2. /\ start \in Nat /\ start <= Len(c1) /\ start <= Len(c2)
      /\ \A k \in 1..start : c1[k].key = c2[k].key /\ c1[k].type = c2[k].type
  BY SyncStarts
<1>3. /\ end \in Nat /\ start + end <= Len(c1) /\ start + end <= Len(c2)
      /\ \A k \in 0..(end - 1) : /\ c1[Len(c1) - k].key = c2[Len(c2) - k].key
                                  /\ c1[Len(c1) - k].type = c2[Len(c2) - k].type
  BY <1>2, SyncEnds
<1>4. /\ e1 \in Nat /\ e2 \in Nat /\ start <= e1 /\ start <= e2 /\ e1 + end = Len(c1)
      /\ e2 + end = Len(c2)
  BY <1>1, <1>2, <1>3
<1>5. \A k \in 1..end : c1[e1 + k].key = c2[e2 + k].key /\ c1[e1 + k].type = c2[e2 + k].type
  <2> TAKE k \in 1..end
  <2>0. end \in Nat
    BY <1>3, Zenon
  <2>1. end - k \in 0..(end - 1) /\ Len(c1) - (end - k) = e1 + k /\ Len(c2) - (end - k) = e2 + k
    BY <1>1, <2>0
  <2>2. /\ c1[Len(c1) - (end - k)].key = c2[Len(c2) - (end - k)].key
        /\ c1[Len(c1) - (end - k)].type = c2[Len(c2) - (end - k)].type
    BY <1>3, <2>1
  <2> HIDE DEF e1, e2
  <2> QED
    BY <2>1, <2>2
<1>6. /\ s0 \in PatchState \cup KeyedState(X)
      /\ Patching(s0, c1, c2, m0, {}, W)
  BY PatchBegins
<1> HIDE DEF e1, e2, s0
<1>7. \A j \in 1..Len(c2) : m0[j] = 0
  BY DEF Unmatched
<1> HIDE DEF m0
<1>8. PatchedTo(s1, s0, c1, c2, m1, G1, W, X)
  <2>1. \A k \in 1..start : 0 + k \notin {} /\ m0[0 + k] = 0 /\ c1[0 + k].key = c2[0 + k].key
    BY <1>1, <1>2, <1>7
  <2>2. 0 \in Nat /\ 0 + start <= Len(c1) /\ 0 + start <= Len(c2)
    BY <1>2
  <2> QED
    BY <1>2, <1>6, <2>1, <2>2, PatchFromKeeps
<1>9. Patching(s1, c1, c2, m1, G1, W) /\ s1 \in PatchState \cup KeyedState(X)
  BY <1>8 DEF PatchedTo
<1>10. \A j \in 1..Len(c2) : m1[j] = IF j <= start THEN j ELSE 0
  <2> TAKE j \in 1..Len(c2)
  <2>1. j \in (0 + 1)..(0 + start) <=> j <= start
    BY <1>1, <1>2
  <2> QED
    BY <1>1, <1>7, <2>1 DEF Shifted
<1>11. \A i \in Int : i \in G1 <=> 1 <= i /\ i <= start
  BY <1>2
<1> HIDE DEF s1, m1, G1
<1>12. PatchedTo(st, s1, c1, c2, m2, G2, W, X)
  <2>1. \A k \in 1..end : e1 + k \notin G1 /\ m1[e2 + k] = 0 /\ c1[e1 + k].key = c2[e2 + k].key
    <3> TAKE k \in 1..end
    <3>1. e1 + k \in Int /\ e1 + k > start /\ e2 + k \in 1..Len(c2) /\ ~(e2 + k <= start)
      BY <1>1, <1>2, <1>3, <1>4, SMTT(40)
    <3>2. e1 + k \notin G1
      BY <1>2, <1>11, <3>1
    <3> QED
      BY <1>5, <1>10, <3>1, <3>2
  <2>2. e1 + end <= Len(c1) /\ e2 + end <= Len(c2)
    BY <1>1, <1>4
  <2> QED
    BY <1>3, <1>4, <1>9, <2>1, <2>2, PatchFromKeeps
<1>13. Patching(st, c1, c2, m2, G2, W) /\ st \in PatchState \cup KeyedState(X)
  BY <1>12 DEF PatchedTo
<1>14. \A j \in 1..Len(c2) : m2[j] = IF j <= start THEN j ELSE IF j > e2 THEN e1 + (j - e2) ELSE 0
  <2> TAKE j \in 1..Len(c2)
  <2>1. j \in (e2 + 1)..(e2 + end) <=> j > e2
    BY <1>1, <1>4
  <2>2. m2[j] = IF j > e2 THEN e1 + (j - e2) ELSE m1[j]
    BY <2>1 DEF Shifted
  <2>3. j \in Int /\ (j > e2 => ~(j <= start))
    BY <1>1, <1>2, <1>4
  <2> HIDE DEF m2
  <2> QED
    BY <1>10, <2>2, <2>3
<1>15. \A i \in 1..Len(c1) : i \in G2 <=> (i <= start \/ i > e1)
  <2> TAKE i \in 1..Len(c1)
  <2>1. i \in Int /\ (i \in (e1 + 1)..(e1 + end) <=> i > e1)
    BY <1>1, <1>4
  <2> QED
    BY <1>1, <1>11, <2>1
<1>17. G2 \subseteq 1..Len(c1)
  BY <1>13 DEF Patching, Laid
<1> HIDE DEF st, m2, G2
<1>18. \A j \in (e2 + 1)..Len(c2) : c1[e1 + (j - e2)].type = c2[j].type
  <2> TAKE j \in (e2 + 1)..Len(c2)
  <2>1. j - e2 \in 1..end /\ e2 + (j - e2) = j
    BY <1>1, <1>3, <1>4
  <2>2. c1[e1 + (j - e2)].type = c2[e2 + (j - e2)].type
    BY <1>5, <2>1
  <2> QED
    BY <2>1, <2>2
<1>16. Ends(c1, c2, m2, G2, start, e1, e2)
  <2>1. Len(c1) - e1 = Len(c2) - e2 /\ e1 <= Len(c1) /\ e2 <= Len(c2)
    <3>1. end \in Nat /\ Len(c1) \in Nat /\ Len(c2) \in Nat /\ e1 \in Nat /\ e2 \in Nat
          /\ e1 + end = Len(c1) /\ e2 + end = Len(c2)
      BY <1>1, <1>3, <1>4, Zenon
    <3>2. Len(c1) - e1 = end
      BY <3>1
    <3>3. Len(c2) - e2 = end
      BY <3>1
    <3>4. e1 <= Len(c1)
      BY <3>1
    <3>5. e2 <= Len(c2)
      BY <3>1
    <3> QED
      BY <3>2, <3>3, <3>4, <3>5, Zenon
  <2> QED
    BY <1>2, <1>4, <1>14, <1>15, <1>17, <1>18, <2>1 DEF Ends
<1> QED
  BY <1>13, <1>16 DEF st, s1, s0, e1, e2

\* Where the children may have keys.
LEMMA KeyedPatched ==
  ASSUME NEW c1 \in Seq(Mounted), Distinct(c1), KeysOnce(c1), NEW c2 \in Seq(Child),
         NEW W \in Siblings, NEW anchor, anchor = IF W = {} THEN << >> ELSE After
  PROVE  Patched(PatchKeyedChildren(c1, c2, Contents(c1, W), anchor), c1, c2, W)
<1> DEFINE start == SyncStart(c1, c2)
           end == SyncEnd(c1, c2, start)
           e1 == Len(c1) - end
           e2 == Len(c2) - end
           s1 == PatchFrom(StartPatch(c2, Contents(c1, W)), c1, 0, 0, start)
           st == PatchFrom(s1, c1, e1, e2, end)
           behind == IF e2 < Len(c2) THEN el(st.new[e2 + 1]) ELSE anchor
           X == {}
<1>1. PatchKeyedChildren(c1, c2, Contents(c1, W), anchor)
        = IF start >= e1 THEN MountFrom(st, c1, start + 1, e2, behind)
          ELSE IF start >= e2 THEN UnmountFrom(st, c1, start + 1, e1)
          ELSE UnknownSequence(st, c1, start + 1, e1, start + 1, e2, anchor)
  BY DEF PatchKeyedChildren
<1>2. /\ st \in PatchState \cup KeyedState(X)
      /\ \E m, G : Patching(st, c1, c2, m, G, W) /\ Ends(c1, c2, m, G, start, e1, e2)
  BY EndsSynced
<1> HIDE DEF st, start, e1, e2
<1>3. PICK m, G : Patching(st, c1, c2, m, G, W) /\ Ends(c1, c2, m, G, start, e1, e2)
  BY <1>2
<1>4. /\ Len(c1) \in Nat /\ Len(c2) \in Nat /\ start \in Nat /\ e1 \in Nat /\ e2 \in Nat
      /\ start <= e1 /\ e1 <= Len(c1) /\ start <= e2 /\ e2 <= Len(c2)
      /\ \A j \in 1..Len(c2) : m[j] = IF j <= start THEN j ELSE IF j > e2 THEN e1 + (j - e2) ELSE 0
      /\ \A i \in 1..Len(c1) : i \in G <=> (i <= start \/ i > e1)
  BY <1>3, MountedEntries, ChildEntries DEF Ends
<1>5. /\ Grows(m, Matched(c2, m))
      /\ \A j \in 1..Len(c2) : j \in Matched(c2, m) <=> j \notin (start + 1)..e2
  BY <1>3, EndsGrow
<1>6. G \subseteq 1..Len(c1) /\ NewIs(st.new, c1, c2, m, Matched(c2, m))
  BY <1>3 DEF Patching, Laid
<1>10. Synced(c1, c2, m, G) /\ Len(c1) - e1 = Len(c2) - e2
  BY <1>3, EndsMatch DEF Ends
<1>7. CASE start >= e1
  <2>1. G = 1..Len(c1)
    <3>1. \A i \in 1..Len(c1) : i \in G
      BY <1>4, <1>7
    <3> QED
      BY <1>6, <3>1
  <2>2. Patching(st, c1, c2, m, 1..Len(c1), W)
    BY <1>3, <2>1
  <2>3. behind = AnchorOf(c1, c2, m, W, e2)
    <3>1. CASE e2 < Len(c2)
      <4>1. e2 + 1 \in 1..Len(c2) /\ e2 + 1 \notin (start + 1)..e2
        BY <1>4, <3>1
      <4>2. st.new[e2 + 1] = Final(c1, c2, m, e2 + 1)
        BY <1>5, <1>6, <4>1 DEF NewIs
      <4> QED
        BY <3>1, <4>2 DEF AnchorOf
    <3>2. CASE ~(e2 < Len(c2))
      BY <3>2 DEF AnchorOf
    <3> QED
      BY <3>1, <3>2
  <2> HIDE DEF behind
  <2>4. start + 1 \in 1..(Len(c2) + 1) /\ e2 \in 0..Len(c2) /\ start + 1 <= e2 + 1
    BY <1>4
  <2>6. Reuses(c1, c2, m, W)
    <3>1. \A i \in 1..Len(c1) : \E j \in 1..Len(c2) : m[j] = i
      BY <1>10, <2>1 DEF Synced
    <3>2. Thorough(c1, c2, m)
      BY <1>10, <3>1 DEF Thorough, Synced
    <3> QED
      BY <3>2 DEF Reuses
  <2>5. Patched(MountFrom(st, c1, start + 1, e2, behind), c1, c2, W)
    BY <1>2, <1>5, <2>2, <2>3, <2>4, <2>6, RestMounted
  <2> QED
    BY <1>1, <1>7, <2>5
<1>8. CASE ~(start >= e1) /\ start >= e2
  <2> DEFINE t == UnmountFrom(st, c1, start + 1, e1)
  <2>1. PatchedTo(t, st, c1, c2, m, G \cup ((start + 1)..e1), W, X)
    <3>1. start + 1 \in 1..(Len(c1) + 1) /\ e1 \in 0..Len(c1) /\ start + 1 <= e1 + 1
      BY <1>4
    <3>2. \A k \in (start + 1)..e1 : k \notin G
      BY <1>4
    <3> QED
      BY <1>2, <1>3, <3>1, <3>2, UnmountFromKeeps
  <2>2. G \cup ((start + 1)..e1) = 1..Len(c1)
    <3>1. \A k \in (start + 1)..e1 : k \in 1..Len(c1)
      BY <1>4
    <3>2. \A k \in 1..Len(c1) : k \in G \/ k \in (start + 1)..e1
      BY <1>4
    <3> QED
      BY <1>6, <3>1, <3>2
  <2> HIDE DEF t
  <2>3. Patching(t, c1, c2, m, 1..Len(c1), W)
    BY <2>1, <2>2 DEF PatchedTo
  <2>4. Matched(c2, m) = 1..Len(c2)
    <3>1. \A j \in 1..Len(c2) : j \notin (start + 1)..e2
      BY <1>4, <1>8
    <3>2. Matched(c2, m) \subseteq 1..Len(c2)
      BY DEF Matched
    <3> QED
      BY <1>5, <3>1, <3>2
  <2>6. Reuses(c1, c2, m, W)
    <3>1. \A j \in 1..Len(c2) : m[j] # 0
      BY <2>4 DEF Matched
    <3>2. Thorough(c1, c2, m)
      BY <1>10, <3>1 DEF Thorough, Synced
    <3> QED
      BY <3>2 DEF Reuses
  <2>5. Patched(t, c1, c2, W)
    BY <1>5, <2>3, <2>4, <2>6, AllMatched
  <2> QED
    BY <1>1, <1>8, <2>5 DEF t
<1>9. CASE ~(start >= e1) /\ ~(start >= e2)
  <2>1. Middle(c1, c2, m, G, start + 1, e1, start + 1, e2)
    <3>1. /\ start + 1 \in 1..Len(c1) /\ e1 \in (start + 1)..Len(c1)
          /\ start + 1 \in 1..Len(c2) /\ e2 \in (start + 1)..Len(c2)
      BY <1>4, <1>9
    <3>2. \A i \in 1..Len(c1) : i \in G <=> i \notin (start + 1)..e1
      <4> TAKE i \in 1..Len(c1)
      <4>1. i \notin (start + 1)..e1 <=> (i <= start \/ i > e1)
        BY <1>4
      <4> QED
        BY <1>4, <4>1
    <3>3. \A j \in 1..Len(c2) : m[j] = 0 <=> j \in (start + 1)..e2
      BY <1>5 DEF Matched
    <3>4. \A j \in 1..Len(c2) : (j < start + 1 => m[j] < start + 1) /\ (j > e2 => m[j] > e1)
      BY <1>4
    <3> QED
      BY <1>5, <3>1, <3>2, <3>3, <3>4 DEF Middle
  <2>3. Laid(st.dom, st.new, c1, c2, m, G, W)
    BY <1>3 DEF Patching
  <2>2. Patched(UnknownSequence(st, c1, start + 1, e1, start + 1, e2, anchor), c1, c2, W)
    BY <1>10, <2>1, <2>3, UnknownPatched
  <2> QED
    BY <1>1, <1>9, <2>2
<1> QED
  BY <1>7, <1>8, <1>9

--------------------------------------------------------------------------------
(* The states of the container.                                                *)

LEMMA NoneLeft ==
  ASSUME NEW S, NEW c \in Seq(S), Len(c) = 0
  PROVE  c = << >>
OBVIOUS

LEMMA PairJoined ==
  ASSUME NEW x \in Node, NEW y \in Node
  PROVE  << x >> \o << y >> = << x, y >>
<1> DEFINE a == << x >>
           b == << y >>
           c == << x, y >>
<1>1. /\ a \in Seq(Node) /\ Len(a) = 1 /\ a[1] = x
      /\ b \in Seq(Node) /\ Len(b) = 1 /\ b[1] = y
  OBVIOUS
<1>2. c \in Seq(Node) /\ Len(c) = 2 /\ c[1] = x /\ c[2] = y
  OBVIOUS
<1> HIDE DEF a, b, c
<1>3. /\ a \o b \in Seq(Node) /\ Len(a \o b) = 2
      /\ (a \o b)[1] = x /\ (a \o b)[2] = y
  <2> DEFINE q == a \o b
  <2>1. /\ q \in Seq(Node) /\ Len(q) = Len(a) + Len(b)
        /\ \A i \in 1..Len(a) : q[i] = a[i]
        /\ \A i \in 1..Len(b) : q[Len(a) + i] = b[i]
    <3>1. \A s, t \in Seq(Node) :
            /\ s \o t \in Seq(Node) /\ Len(s \o t) = Len(s) + Len(t)
            /\ \A i \in 1..Len(s) : (s \o t)[i] = s[i]
            /\ \A i \in 1..Len(t) : (s \o t)[Len(s) + i] = t[i]
      OBVIOUS
    <3>2. a \in Seq(Node) /\ b \in Seq(Node)
      BY <1>1
    <3> QED
      BY <3>1, <3>2, Zenon
  <2>2. 1 \in 1..Len(a) /\ 1 \in 1..Len(b) /\ Len(a) + 1 = 2 /\ Len(a) + Len(b) = 2
    BY <1>1
  <2> HIDE DEF q
  <2>3. q[1] = x /\ q[2] = y
    BY <1>1, <2>1, <2>2
  <2> QED
    BY <2>1, <2>2, <2>3 DEF q
<1>4. \A i \in 1..2 : (a \o b)[i] = c[i]
  <2>1. \A i \in 1..2 : i = 1 \/ i = 2
    OBVIOUS
  <2> QED
    BY <1>2, <1>3, <2>1
<1>5. a \o b = c
  <2> DEFINE e == a \o b
  <2>1. e \in Seq(Node) /\ Len(e) = 2 /\ \A i \in 1..2 : e[i] = c[i]
    BY <1>3, <1>4
  <2> HIDE DEF e
  <2>2. e = [i \in 1..2 |-> e[i]] /\ c = [i \in 1..2 |-> c[i]]
    BY <1>2, <2>1
  <2>3. e = c
    BY <2>1, <2>2
  <2> QED
    BY <2>3 DEF e
<1> QED
  BY <1>5 DEF a, b, c

\* A container without children shows nothing.
LEMMA NothingShown ==
  ASSUME NEW c \in Seq(Mounted), Len(c) = 0, NEW W \in Siblings
  PROVE  Contents(c, W) = IF W = {} THEN << >> ELSE << Before, After >>
<1>1. c = << >>
  BY NoneLeft
<1>2. NodesOf(c) = << >>
  <2>1. Distinct(c) /\ DOMAIN c = {} /\ {} \in Siblings
    BY <1>1 DEF Distinct, Siblings
  <2> DEFINE d == Contents(c, {})
  <2>2. Row(d, c, {}, Len(c)) /\ Alone(d, c, {})
    BY <2>1, RowStarts
  <2> HIDE DEF d
  <2>3. d \in Seq(Node) /\ ToSet(d) = {}
    BY <2>1, <2>2 DEF Row, Alone, RowNodes
  <2>4. d = << >>
    <3>1. \A i \in DOMAIN d : d[i] \in ToSet(d)
      BY DEF ToSet
    <3>2. DOMAIN d = {}
      BY <2>3, <3>1
    <3> QED
      BY <2>3, <3>2, NoneLeft
  <2> QED
    BY <2>4 DEF d, Contents
<1>3. CASE W = {}
  BY <1>2, <1>3 DEF Contents
<1>4. CASE W # {}
  <2>1. << Before >> \in Seq(Node) /\ << After >> \in Seq(Node)
        /\ Before \in Node /\ After \in Node
    BY WrapNodes DEF Before, After, Node
  <2>2. \A q \in Seq(Node) : q \o << >> = q
    OBVIOUS
  <2>3. << Before >> \o << After >> = << Before, After >>
    BY <2>1, PairJoined
  <2> QED
    BY <1>2, <1>4, <2>1, <2>2, <2>3 DEF Contents
<1> QED
  BY <1>3, <1>4

\* The siblings are there or not.
LEMMA SiblingsShown ==
  ASSUME NEW c \in Seq(Mounted), Distinct(c), NEW W \in Siblings
  PROVE  After \in ToSet(Contents(c, W)) <=> W # {}
<1>1. ToSet(Contents(c, W)) = RowNodes(c, W)
  BY RowStarts DEF Alone
<1>2. After \notin UNION {Parts(c[i]) : i \in DOMAIN c}
  <2> SUFFICES ASSUME NEW i \in DOMAIN c, After \in Parts(c[i]) PROVE FALSE
    OBVIOUS
  <2>1. c[i] \in Mounted
    OBVIOUS
  <2>2. c[i].id \in Nat /\ c[i].id # 0
    BY <2>1 DEF Mounted
  <2>3. After[1] = c[i].id
    BY <2>2, NodesEntries DEF Parts
  <2> QED
    BY <2>2, <2>3 DEF After
<1>3. After \in W <=> W # {}
  BY DEF Siblings
<1> QED
  BY <1>1, <1>2, <1>3 DEF RowNodes

\* Children are mounted where there are none.
LEMMA MountedPatched ==
  ASSUME NEW c1 \in Seq(Mounted), Len(c1) = 0, NEW c2 \in Seq(Child), NEW W \in Siblings,
         NEW anchor, anchor = IF W = {} THEN << >> ELSE After
  PROVE  Patched(MountFrom(StartPatch(c2, Contents(c1, W)), c1, 1, Len(c2), anchor), c1, c2, W)
<1> DEFINE st == StartPatch(c2, Contents(c1, W))
           m == Unmatched(c2)
           X == {}
<1>1. Len(c2) \in Nat /\ Len(c1) \in Nat /\ DOMAIN c1 = 1..Len(c1)
  BY ChildEntries, MountedEntries
<1>2. Distinct(c1)
  BY <1>1 DEF Distinct
<1>4. st \in PatchState \cup KeyedState(X) /\ Patching(st, c1, c2, m, {}, W)
  BY <1>2, PatchBegins
<1>5. 1..Len(c1) = {}
  BY <1>1
<1>6. Matched(c2, m) = {}
  BY DEF Matched, Unmatched
<1> HIDE DEF m, st
<1>7. Patching(st, c1, c2, m, 1..Len(c1), W)
  BY <1>4, <1>5
<1>8. \A j \in 1..Len(c2) : j \in Matched(c2, m) <=> j \notin 1..Len(c2)
  BY <1>6
<1>9. Grows(m, Matched(c2, m))
  BY <1>6 DEF Grows
<1>10. anchor = AnchorOf(c1, c2, m, W, Len(c2))
  BY <1>1 DEF AnchorOf
<1>11. 1 \in 1..(Len(c2) + 1) /\ Len(c2) \in 0..Len(c2) /\ 1 <= Len(c2) + 1
  BY <1>1
<1>13. Reuses(c1, c2, m, W)
  BY <1>5, <1>6 DEF Reuses, Thorough
<1>12. Patched(MountFrom(st, c1, 1, Len(c2), anchor), c1, c2, W)
  BY <1>2, <1>4, <1>7, <1>8, <1>9, <1>10, <1>11, <1>13, RestMounted
<1> QED
  BY <1>12 DEF st

\* All the children are unmounted.
LEMMA Emptied ==
  ASSUME NEW c1 \in Seq(Mounted), Distinct(c1), NEW c2 \in Seq(Child), Len(c2) = 0,
         NEW W \in Siblings
  PROVE  /\ UnmountFrom(StartPatch(c2, Contents(c1, W)), c1, 1, Len(c1)).dom
              = IF W = {} THEN << >> ELSE << Before, After >>
         /\ Patched(UnmountFrom(StartPatch(c2, Contents(c1, W)), c1, 1, Len(c1)), c1, c2, W)
<1> DEFINE st == StartPatch(c2, Contents(c1, W))
           t == UnmountFrom(st, c1, 1, Len(c1))
           m == Unmatched(c2)
           X == {}
<1>1. Len(c1) \in Nat
  BY MountedEntries
<1>3. st \in PatchState \cup KeyedState(X) /\ Patching(st, c1, c2, m, {}, W)
  BY PatchBegins
<1>4. Matched(c2, m) = 1..Len(c2) /\ Grows(m, 1..Len(c2))
  BY DEF Matched, Grows
<1> HIDE DEF m, st
<1>5. PatchedTo(t, st, c1, c2, m, {} \cup (1..Len(c1)), W, X)
  <2>1. 1 \in 1..(Len(c1) + 1) /\ Len(c1) \in 0..Len(c1) /\ 1 <= Len(c1) + 1
        /\ \A k \in 1..Len(c1) : k \notin {}
    BY <1>1
  <2> QED
    BY <1>3, <2>1, UnmountFromKeeps
<1> HIDE DEF t
<1>6. Patching(t, c1, c2, m, 1..Len(c1), W)
  BY <1>5 DEF PatchedTo
<1>2. Reuses(c1, c2, m, W)
  <2>1. \A j \in 1..Len(c2) : FALSE
    OBVIOUS
  <2> QED
    BY <2>1 DEF Reuses, Thorough, Matched
<1>7. Patched(t, c1, c2, W)
  BY <1>2, <1>4, <1>6, AllMatched
<1>8. t.new \in Seq(Mounted) /\ Len(t.new) = 0 /\ t.dom = Contents(t.new, W)
  BY <1>7 DEF Patched
<1>9. t.dom = IF W = {} THEN << >> ELSE << Before, After >>
  BY <1>8, NothingShown
<1> QED
  BY <1>7, <1>9 DEF t, st

--------------------------------------------------------------------------------
(* The inductive invariant: children that have been mounted, with an id each   *)
(* and a key at most once, whose nodes are those of the container, between the *)
(* siblings if it is a fragment.                                               *)

MountedOnce == children \in Seq(Mounted) /\ Distinct(children) /\ KeysOnce(children)
Shown ==
  \/ kind = "none" /\ children = << >> /\ dom = << >>
  \/ kind = "text" /\ children = << >> /\ dom = << Text >>
  \/ kind = "array" /\ \E W \in Siblings : dom = Contents(children, W)
ChildrenInv == MountedOnce /\ Shown

\* The lists that are rendered.
LEMMA ListsAreChildren ==
  ASSUME NEW c \in Lists \cup First
  PROVE  c \in Seq(Child) /\ KeysOnce(c)
BY ChildrenAssumption DEF Child, KeysOnce

\* What a patch leaves.
LEMMA PatchedIsShown ==
  ASSUME NEW c1, NEW c \in Lists \cup First, NEW st, NEW W \in Siblings, Patched(st, c1, c, W)
  PROVE  st.new \in Seq(Mounted) /\ Distinct(st.new) /\ KeysOnce(st.new)
         /\ st.dom = Contents(st.new, W)
<1>1. c \in Seq(Child) /\ KeysOnce(c)
  BY ListsAreChildren
<1>2. /\ st.new \in Seq(Mounted) /\ Distinct(st.new) /\ st.dom = Contents(st.new, W)
      /\ Len(st.new) = Len(c) /\ \A j \in 1..Len(c) : st.new[j].key = c[j].key
  BY DEF Patched
<1>3. DOMAIN c = 1..Len(c) /\ DOMAIN st.new = 1..Len(c)
  BY <1>1, <1>2
<1>4. KeysOnce(st.new)
  BY <1>1, <1>2, <1>3, Zenon DEF KeysOnce
<1> QED
  BY <1>2, <1>4

LEMMA NoChildren ==
  /\ << >> \in Seq(Mounted) /\ << >> \in Seq(Child) /\ Len(<< >>) = 0
  /\ Distinct(<< >>) /\ KeysOnce(<< >>)
BY DEF Distinct, KeysOnce

\* Mounting establishes the invariant, ...
LEMMA InitInv == Init => ChildrenInv
<1> SUFFICES ASSUME Init PROVE ChildrenInv
  OBVIOUS
<1>1. CASE kind = "none" /\ children = << >> /\ dom = << >>
  BY <1>1, NoChildren DEF ChildrenInv, MountedOnce, Shown
<1>2. CASE kind = "text" /\ children = << >> /\ dom = << Text >>
  BY <1>2, NoChildren DEF ChildrenInv, MountedOnce, Shown
<1>3. ASSUME kind = "array", NEW c \in First, NEW W \in Siblings, NEW st,
             Patched(st, << >>, c, W), children = st.new, dom = st.dom
      PROVE  ChildrenInv
  <2>1. st.new \in Seq(Mounted) /\ Distinct(st.new) /\ KeysOnce(st.new)
        /\ st.dom = Contents(st.new, W)
    BY <1>3, PatchedIsShown
  <2> QED
    BY <1>3, <2>1 DEF ChildrenInv, MountedOnce, Shown
<1>4. ASSUME NEW c \in First, NEW W \in Siblings
      PROVE  Patched(Mounting(c, IF W = {} THEN << >> ELSE << Before, After >>,
                              IF W = {} THEN << >> ELSE After), << >>, c, W)
  <2> DEFINE none == << >>
             anchor == IF W = {} THEN << >> ELSE After
  <2>1. none \in Seq(Mounted) /\ Len(none) = 0 /\ c \in Seq(Child)
    BY NoChildren, ListsAreChildren
  <2>2. Contents(none, W) = IF W = {} THEN << >> ELSE << Before, After >>
    BY <2>1, NothingShown
  <2>3. Mounting(c, Contents(none, W), anchor)
          = MountFrom(StartPatch(c, Contents(none, W)), none, 1, Len(c), anchor)
    BY DEF Mounting
  <2>4. anchor = IF W = {} THEN << >> ELSE After
    OBVIOUS
  <2> HIDE DEF none, anchor
  <2>5. Patched(Mounting(c, Contents(none, W), anchor), none, c, W)
    BY <2>1, <2>3, <2>4, MountedPatched
  <2> QED
    BY <2>2, <2>4, <2>5 DEF none
<1>5. {} \in Siblings /\ {Before, After} \in Siblings /\ {Before, After} # {}
  BY DEF Siblings
<1>6. ASSUME kind = "array", NEW c \in First,
             children = Mounting(c, << >>, << >>).new, dom = Mounting(c, << >>, << >>).dom
      PROVE  ChildrenInv
  <2> DEFINE st == Mounting(c, << >>, << >>)
  <2>1. Patched(st, << >>, c, {})
    BY <1>4, <1>5
  <2> HIDE DEF st
  <2>2. children = st.new /\ dom = st.dom
    BY <1>6 DEF st
  <2> QED
    BY <1>3, <1>5, <1>6, <2>1, <2>2
<1>7. ASSUME kind = "array", NEW c \in First,
             children = Mounting(c, << Before, After >>, After).new,
             dom = Mounting(c, << Before, After >>, After).dom
      PROVE  ChildrenInv
  <2> DEFINE st == Mounting(c, << Before, After >>, After)
             W == {Before, After}
  <2>1. Patched(st, << >>, c, W)
    BY <1>4, <1>5
  <2> HIDE DEF st
  <2>2. children = st.new /\ dom = st.dom
    BY <1>7 DEF st
  <2> QED
    BY <1>3, <1>5, <1>7, <2>1, <2>2
<1> QED
  BY <1>1, <1>2, <1>6, <1>7 DEF Init

\* The children have been patched to an array, in an element if there are no siblings.
Rendered(c) ==
  \E W \in Siblings :
    /\ ~InFragment => W = {}
    /\ \E st : Patched(st, children, c, W) /\ Becomes(st)

\* That keeps the invariant.
LEMMA RenderedShown ==
  ASSUME NEW c \in Lists, Rendered(c)
  PROVE  ChildrenInv'
<1>1. PICK W \in Siblings : \E st : Patched(st, children, c, W) /\ Becomes(st)
  BY DEF Rendered
<1>2. PICK st : Patched(st, children, c, W) /\ Becomes(st)
  BY <1>1
<1>3. st.new \in Seq(Mounted) /\ Distinct(st.new) /\ KeysOnce(st.new)
      /\ st.dom = Contents(st.new, W)
  BY <1>2, PatchedIsShown
<1>4. kind' = "array" /\ children' = st.new /\ dom' = st.dom
  BY <1>2 DEF Becomes
<1> QED
  BY <1>3, <1>4 DEF ChildrenInv, MountedOnce, Shown

\* In a fragment the children are an array between the siblings, ...
LEMMA InFragmentIs ==
  ASSUME ChildrenInv, InFragment
  PROVE  /\ kind = "array" /\ {Before, After} \in Siblings
         /\ dom = Contents(children, {Before, After})
         /\ ParentAnchor = After
<1>1. {Before, After} \in Siblings
  BY DEF Siblings
<1>2. After \in ToSet(dom)
  BY DEF InFragment
<1>3. CASE dom = << >>
  BY <1>2, <1>3 DEF ToSet
<1>4. CASE dom = << Text >>
  <2>1. \A x : DOMAIN << x >> = {1} /\ << x >>[1] = x
    OBVIOUS
  <2>2. After = Text
    BY <1>2, <1>4, <2>1, Zenon DEF ToSet
  <2> QED
    BY <2>2 DEF After, Text
<1>5. ASSUME kind = "array", NEW W \in Siblings, dom = Contents(children, W)
      PROVE  dom = Contents(children, {Before, After})
  <2>1. W # {}
    BY <1>2, <1>5, SiblingsShown DEF ChildrenInv, MountedOnce
  <2> QED
    BY <1>5, <2>1 DEF Siblings
<1>6. ParentAnchor = After
  BY DEF ParentAnchor
<1> QED
  BY <1>1, <1>3, <1>4, <1>5, <1>6 DEF ChildrenInv, Shown

\* and in an element they are alone.
LEMMA OutsideIs ==
  ASSUME ChildrenInv, ~InFragment, kind = "array"
  PROVE  {} \in Siblings /\ dom = Contents(children, {})
<1>1. {} \in Siblings
  BY DEF Siblings
<1>2. PICK W \in Siblings : dom = Contents(children, W)
  BY DEF ChildrenInv, Shown
<1>3. W = {}
  BY <1>2, SiblingsShown DEF ChildrenInv, MountedOnce, InFragment
<1> QED
  BY <1>1, <1>2, <1>3

\* Three of the patches are to an array.
LEMMA KeyedFragmentRendered ==
  ASSUME ChildrenInv, NEW c \in Lists, PatchKeyedFragment(c)
  PROVE  Rendered(c)
<1> DEFINE st == PatchKeyedChildren(children, c, dom, ParentAnchor)
           W == {Before, After}
<1>1. Becomes(st) /\ InFragment
  BY DEF PatchKeyedFragment
<1>2. W \in Siblings /\ dom = Contents(children, W) /\ ParentAnchor = After
  BY <1>1, InFragmentIs
<1>3. children \in Seq(Mounted) /\ Distinct(children) /\ KeysOnce(children) /\ c \in Seq(Child)
  BY ListsAreChildren DEF ChildrenInv, MountedOnce
<1>4. ParentAnchor = IF W = {} THEN << >> ELSE After
  BY <1>2
<1> HIDE DEF W
<1>5. Patched(st, children, c, W)
  BY <1>2, <1>3, <1>4, KeyedPatched
<1> HIDE DEF st
<1> QED
  BY <1>1, <1>2, <1>5 DEF Rendered

LEMMA UnkeyedFragmentRendered ==
  ASSUME ChildrenInv, NEW c \in Lists, PatchUnkeyedFragment(c)
  PROVE  Rendered(c)
<1> DEFINE st == PatchUnkeyedChildren(children, c, dom, ParentAnchor)
           W == {Before, After}
<1>1. Becomes(st) /\ InFragment
  BY DEF PatchUnkeyedFragment
<1>2. W \in Siblings /\ dom = Contents(children, W) /\ ParentAnchor = After
  BY <1>1, InFragmentIs
<1>3. children \in Seq(Mounted) /\ Distinct(children) /\ c \in Seq(Child)
  BY ListsAreChildren DEF ChildrenInv, MountedOnce
<1>4. ParentAnchor = IF W = {} THEN << >> ELSE After
  BY <1>2
<1>5. DOMAIN c = 1..Len(c) /\ DOMAIN children = 1..Len(children)
  BY <1>3
<1>6. /\ \A i \in 1..Len(children) : children[i].key = NoKey
      /\ \A j \in 1..Len(c) : c[j].key = NoKey
  BY <1>5 DEF PatchUnkeyedFragment
<1>8. W # {}
  OBVIOUS
<1> HIDE DEF W
<1>7. Patched(st, children, c, W)
  BY <1>2, <1>3, <1>4, <1>6, <1>8, UnkeyedPatched
<1> HIDE DEF st
<1> QED
  BY <1>1, <1>2, <1>7 DEF Rendered

LEMMA ToArrayRendered ==
  ASSUME ChildrenInv, NEW c \in Lists, PatchToArray(c)
  PROVE  Rendered(c)
<1>1. /\ ~InFragment
      /\ Becomes(IF kind = "array" THEN PatchKeyedChildren(children, c, dom, << >>)
                 ELSE MountFrom(StartPatch(c, << >>), << >>, 1, Len(c), << >>))
  BY DEF PatchToArray
<1> DEFINE W == {}
           anchor == << >>
           none == << >>
<1>2. children \in Seq(Mounted) /\ Distinct(children) /\ KeysOnce(children) /\ c \in Seq(Child)
  BY ListsAreChildren DEF ChildrenInv, MountedOnce
<1>3. W \in Siblings /\ anchor = IF W = {} THEN << >> ELSE After
  BY DEF Siblings
<1>4. none \in Seq(Mounted) /\ Len(none) = 0
  BY NoChildren
<1>5. Contents(none, W) = << >>
  <2>1. Contents(none, W) = IF W = {} THEN << >> ELSE << Before, After >>
    BY <1>3, <1>4, NothingShown
  <2> QED
    BY <2>1
<1>6. CASE kind = "array"
  <2> DEFINE st == PatchKeyedChildren(children, c, dom, anchor)
  <2>1. dom = Contents(children, W) /\ Becomes(st)
    BY <1>1, <1>6, OutsideIs
  <2> HIDE DEF W, anchor
  <2>2. Patched(st, children, c, W)
    BY <1>2, <1>3, <2>1, KeyedPatched
  <2> HIDE DEF st
  <2> QED
    BY <1>3, <2>1, <2>2 DEF Rendered, W
<1>7. CASE kind # "array"
  <2> DEFINE st == MountFrom(StartPatch(c, Contents(none, W)), none, 1, Len(c), anchor)
  <2>1. Becomes(st)
    BY <1>1, <1>5, <1>7
  <2>3. children = none
    BY <1>7 DEF ChildrenInv, Shown
  <2> HIDE DEF W, anchor, none
  <2>2. Patched(st, none, c, W)
    BY <1>2, <1>3, <1>4, MountedPatched
  <2> HIDE DEF st
  <2> QED
    BY <1>3, <2>1, <2>2, <2>3 DEF Rendered, W
<1> QED
  BY <1>6, <1>7

\* The other two keep the invariant as well.
LEMMA ToTextInv ==
  ASSUME PatchToText
  PROVE  ChildrenInv'
<1>1. kind' = "text" /\ children' = << >> /\ dom' = << Text >>
  BY DEF PatchToText
<1> QED
  BY <1>1, NoChildren DEF ChildrenInv, MountedOnce, Shown

LEMMA ToNoneInv ==
  ASSUME ChildrenInv, PatchToNone
  PROVE  ChildrenInv'
<1>1. /\ ~InFragment /\ kind' = "none" /\ children' = << >>
      /\ dom' = IF kind = "text" THEN << >> ELSE Unmounted.dom
  BY DEF PatchToNone
<1> DEFINE W == {}
           none == << >>
<1>2. children \in Seq(Mounted) /\ Distinct(children)
  BY DEF ChildrenInv, MountedOnce
<1>3. none \in Seq(Child) /\ none \in Seq(Mounted) /\ Len(none) = 0 /\ W \in Siblings
  BY NoChildren DEF Siblings
<1>4. CASE kind = "text"
  BY <1>1, <1>4, NoChildren DEF ChildrenInv, MountedOnce, Shown
<1>5. CASE kind # "text"
  <2>1. dom = Contents(children, W)
    <3>1. CASE kind = "array"
      BY <1>1, <3>1, OutsideIs
    <3>2. CASE kind # "array"
      <4>1. children = none /\ dom = << >>
        BY <1>5, <3>2 DEF ChildrenInv, Shown
      <4>2. Contents(none, W) = IF W = {} THEN << >> ELSE << Before, After >>
        BY <1>3, NothingShown
      <4> QED
        BY <4>1, <4>2
    <3> QED
      BY <3>1, <3>2
  <2>2. Unmounted = UnmountFrom(StartPatch(none, Contents(children, W)), children, 1, Len(children))
    BY <2>1 DEF Unmounted
  <2>3. UnmountFrom(StartPatch(none, Contents(children, W)), children, 1, Len(children)).dom
          = IF W = {} THEN << >> ELSE << Before, After >>
    <3> HIDE DEF W, none
    <3> QED
      BY <1>2, <1>3, Emptied
  <2>4. dom' = << >>
    BY <1>1, <1>5, <2>2, <2>3
  <2> QED
    BY <1>1, <2>4, NoChildren DEF ChildrenInv, MountedOnce, Shown
<1> QED
  BY <1>4, <1>5

\* So do all the steps, ...
LEMMA NextInv == ChildrenInv /\ [Next]_vars => ChildrenInv'
<1> SUFFICES ASSUME ChildrenInv, [Next]_vars PROVE ChildrenInv'
  OBVIOUS
<1>1. CASE \E c \in Lists : PatchKeyedFragment(c)
  BY <1>1, KeyedFragmentRendered, RenderedShown
<1>2. CASE \E c \in Lists : PatchUnkeyedFragment(c)
  BY <1>2, UnkeyedFragmentRendered, RenderedShown
<1>3. CASE \E c \in Lists : PatchToArray(c)
  BY <1>3, ToArrayRendered, RenderedShown
<1>4. CASE PatchToText
  BY <1>4, ToTextInv
<1>5. CASE PatchToNone
  BY <1>5, ToNoneInv
<1>6. CASE UNCHANGED vars
  BY <1>6 DEF vars, ChildrenInv, MountedOnce, Shown
<1> QED
  BY <1>1, <1>2, <1>3, <1>4, <1>5, <1>6 DEF Next

\* and it says that the nodes are those of the children.
LEMMA InvMatches == ChildrenInv => DomMatches
<1> SUFFICES ASSUME ChildrenInv PROVE DomMatches
  OBVIOUS
<1>1. children \in Seq(Mounted) /\ Distinct(children)
  BY DEF ChildrenInv, MountedOnce
<1>2. Cardinality(Ids) = Len(children)
  BY <1>1, IdsCounted DEF Distinct, Ids
<1>3. CASE InFragment
  <2>1. kind = "array" /\ dom = << Before >> \o NodesOf(children) \o << After >>
    BY <1>3, InFragmentIs DEF Contents
  <2> QED
    BY <1>2, <1>3, <2>1 DEF DomMatches
<1>4. CASE ~InFragment /\ kind = "array"
  <2>1. dom = NodesOf(children)
    BY <1>4, OutsideIs DEF Contents
  <2> QED
    BY <1>2, <1>4, <2>1 DEF DomMatches
<1>5. CASE ~InFragment /\ kind = "none"
  <2>1. dom = << >>
    BY <1>5 DEF ChildrenInv, Shown
  <2> QED
    BY <1>2, <1>5, <2>1 DEF DomMatches
<1>6. CASE ~InFragment /\ kind = "text"
  <2>1. dom = << Text >>
    BY <1>6 DEF ChildrenInv, Shown
  <2> QED
    BY <1>2, <1>6, <2>1 DEF DomMatches
<1> QED
  BY <1>3, <1>4, <1>5, <1>6 DEF ChildrenInv, Shown

\* Whatever lists of children a vnode is rendered with, in an element or in a
\* fragment, with and without keys, and as text or nothing in between, the
\* container holds the host nodes of its children in their order, each once,
\* and nothing else: patchChildren with both of its diffs and getSequence.
THEOREM ChildrenMatch == Spec => []DomMatches
<1>1. ChildrenInv /\ [Next]_vars => ChildrenInv'
  BY NextInv
<1> QED
  BY InitInv, <1>1, InvMatches, PTL DEF Spec

--------------------------------------------------------------------------------
(* What a patch keeps, unmounts and moves.                                     *)

\* What is unmounted is what has no place among the new children.
LEMMA UnmountedAre ==
  ASSUME NEW c1 \in Seq(Mounted), Distinct(c1), NEW c2 \in Seq(Child), NEW m, Matches(c1, c2, m),
         NEW new, DOMAIN new = 1..Len(c2), \A j \in 1..Len(c2) : new[j] = Final(c1, c2, m, j),
         NEW us, Gone(us, c1, c2, m, 1..Len(c1))
  PROVE  /\ IsInjective(us)
         /\ ToSet(us) = {c1[i].id : i \in DOMAIN c1} \ {new[j].id : j \in DOMAIN new}
<1>1. /\ DOMAIN c1 = 1..Len(c1) /\ us \in Seq(Nat) /\ DOMAIN us = 1..Len(us)
      /\ \A a, b \in 1..Len(us) : us[a] = us[b] => a = b
      /\ \A a \in 1..Len(us) : \E i \in 1..Len(c1) : Lost(c1, c2, m, i) /\ us[a] = c1[i].id
      /\ \A i \in 1..Len(c1) : Lost(c1, c2, m, i) => \E a \in 1..Len(us) : us[a] = c1[i].id
  <2>1. /\ us \in Seq(Nat) /\ \A a, b \in 1..Len(us) : us[a] = us[b] => a = b
        /\ \A a \in 1..Len(us) : \E i \in 1..Len(c1) : Lost(c1, c2, m, i) /\ us[a] = c1[i].id
        /\ \A i \in 1..Len(c1) : Lost(c1, c2, m, i) => \E a \in 1..Len(us) : us[a] = c1[i].id
    BY Zenon DEF Gone
  <2>2. DOMAIN us = 1..Len(us)
    BY <2>1
  <2>3. DOMAIN c1 = 1..Len(c1)
    BY MountedEntries
  <2> QED
    BY <2>1, <2>2, <2>3, Zenon
<1>2. IsInjective(us)
  BY <1>1 DEF IsInjective
<1>3. ASSUME NEW i \in 1..Len(c1)
      PROVE  Lost(c1, c2, m, i) <=> \A j \in 1..Len(c2) : new[j].id # c1[i].id
  <2>1. ASSUME Lost(c1, c2, m, i), NEW j \in 1..Len(c2), new[j].id = c1[i].id PROVE FALSE
    <3>1. Final(c1, c2, m, j).id = c1[i].id
      BY <2>1
    <3>2. m[j] = i
      BY <3>1, FinalIds
    <3>3. c1[i].type # c2[j].type
      BY <2>1, <3>2 DEF Lost
    <3>4. Final(c1, c2, m, j).id = Fresh(c1, j)
      BY <3>2, <3>3 DEF Final, Vnode
    <3>5. j \in Nat \ {0}
      BY ChildEntries
    <3>7. \A k \in DOMAIN c1 : c1[k].id # Fresh(c1, j)
      BY <3>5, FreshId
    <3>6. c1[i].id # Fresh(c1, j)
      BY <1>1, <3>7
    <3> QED
      BY <3>1, <3>4, <3>6
  <2>2. ASSUME ~Lost(c1, c2, m, i) PROVE \E j \in 1..Len(c2) : new[j].id = c1[i].id
    <3>1. PICK j \in 1..Len(c2) : m[j] = i /\ c1[i].type = c2[j].type
      BY <2>2 DEF Lost
    <3>2. m[j] # 0
      BY <3>1
    <3>3. Final(c1, c2, m, j).id = c1[i].id
      BY <3>1, <3>2 DEF Final, Vnode
    <3> QED
      BY <3>1, <3>3
  <2> QED
    BY <2>1, <2>2
<1>4. ToSet(us) = {us[a] : a \in 1..Len(us)}
  BY <1>1 DEF ToSet
<1> DEFINE old == {c1[i].id : i \in DOMAIN c1}
           kept == {new[j].id : j \in DOMAIN new}
<1>8. /\ \A x : x \in old <=> \E i \in 1..Len(c1) : x = c1[i].id
      /\ \A x : x \in kept <=> \E j \in 1..Len(c2) : x = new[j].id
  <2>1. \A x : x \in old <=> \E i \in DOMAIN c1 : x = c1[i].id
    OBVIOUS
  <2>2. \A x : x \in kept <=> \E j \in DOMAIN new : x = new[j].id
    OBVIOUS
  <2> HIDE DEF old, kept
  <2>3. DOMAIN c1 = 1..Len(c1) /\ DOMAIN new = 1..Len(c2)
    BY <1>1
  <2> QED
    BY <2>1, <2>2, <2>3, Zenon
<1> HIDE DEF old, kept
<1>5. ASSUME NEW x \in ToSet(us) PROVE x \in old /\ x \notin kept
  <2>1. PICK a \in 1..Len(us) : us[a] = x
    BY <1>4
  <2>2. PICK i \in 1..Len(c1) : Lost(c1, c2, m, i) /\ us[a] = c1[i].id
    BY <1>1
  <2>3. x = c1[i].id /\ \A j \in 1..Len(c2) : new[j].id # x
    BY <1>3, <2>1, <2>2
  <2> QED
    BY <1>8, <2>3
<1>6. ASSUME NEW x \in old, x \notin kept PROVE x \in ToSet(us)
  <2>1. PICK i \in 1..Len(c1) : x = c1[i].id
    BY <1>8
  <2>2. Lost(c1, c2, m, i)
    BY <1>3, <1>6, <1>8, <2>1
  <2> QED
    BY <1>1, <1>4, <2>1, <2>2
<1>7. ToSet(us) = old \ kept
  BY <1>5, <1>6
<1> QED
  BY <1>2, <1>7 DEF old, kept

\* Two children with the same key that are there once each are matched.
LEMMA KeyMatched ==
  ASSUME NEW c1 \in Seq(Mounted), KeysOnce(c1), NEW c2 \in Seq(Child), NEW m, Matches(c1, c2, m),
         NEW i \in 1..Len(c1), NEW j \in 1..Len(c2), m[j] # 0,
         c1[i].key = c2[j].key, c1[i].key # NoKey
  PROVE  m[j] = i
<1>1. m[j] \in 1..Len(c1) /\ c1[m[j]].key = c2[j].key
  <2>1. m[j] \in 0..Len(c1) /\ Len(c1) \in Nat
    BY MountedEntries DEF Matches
  <2> QED
    BY <2>1 DEF Matches
<1>2. DOMAIN c1 = 1..Len(c1)
  BY MountedEntries
<1> QED
  BY <1>1, <1>2 DEF KeysOnce

\* A child whose key and type are in both keeps its id.
LEMMA KeyedKept ==
  ASSUME NEW c1 \in Seq(Mounted), KeysOnce(c1), NEW c2 \in Seq(Child), KeysOnce(c2),
         NEW m, Matches(c1, c2, m), NEW W, Reuses(c1, c2, m, W),
         NEW i \in 1..Len(c1), NEW j \in 1..Len(c2), c1[i].key # NoKey,
         c1[i].key = c2[j].key, c1[i].type = c2[j].type
  PROVE  Final(c1, c2, m, j).id = c1[i].id
<1>1. Thorough(c1, c2, m)
  BY DEF Reuses, Keyless
<1>2. m[j] # 0
  <2> SUFFICES ASSUME m[j] = 0 PROVE FALSE
    OBVIOUS
  <2>1. Alike(c1[i], c2[j])
    BY DEF Alike
  <2>2. PICK k \in 1..Len(c2) : m[k] = i
    BY <1>1, <2>1 DEF Thorough
  <2>3. m[k] # 0
    BY <2>2
  <2>4. c2[k].key = c2[j].key /\ c2[k].key # NoKey
    BY <2>2, <2>3 DEF Matches
  <2>5. k = j
    <3>1. DOMAIN c2 = 1..Len(c2)
      BY ChildEntries
    <3> QED
      BY <2>4, <3>1 DEF KeysOnce
  <2> QED
    BY <2>3, <2>5
<1>3. m[j] = i
  BY <1>2, KeyMatched
<1> QED
  BY <1>2, <1>3 DEF Final, Vnode

\* The ids of the children without key of a type.
IdsLike(c, t) == {c[i].id : i \in {k \in DOMAIN c : c[k].key = NoKey /\ c[k].type = t}}
LEMMA IdsFinite ==
  ASSUME NEW S, NEW c \in Seq(S), NEW t
  PROVE  IsFiniteSet(IdsLike(c, t))
<1> DEFINE D == {k \in DOMAIN c : c[k].key = NoKey /\ c[k].type = t}
           X == IdsLike(c, t)
           f == [i \in D |-> c[i].id]
<1>1. D \in SUBSET (1..Len(c)) /\ Len(c) \in Nat
  OBVIOUS
<1>2. X = {c[i].id : i \in D}
  BY DEF IdsLike
<1> HIDE DEF D, X
<1>3. IsFiniteSet(D)
  <2>1. IsFiniteSet(1..Len(c))
    BY <1>1, FS_Interval
  <2> QED
    BY <1>1, <2>1, FS_Subset
<1>4. f \in [D -> X] /\ \A x \in X : \E i \in D : f[i] = x
  BY <1>2
<1> HIDE DEF f
<1>5. f \in Surjection(D, X)
  BY <1>4 DEF Surjection
<1>6. IsFiniteSet(X)
  BY <1>3, <1>5, FS_Surjection
<1> QED
  BY <1>6 DEF X

LEMMA NestedSets ==
  ASSUME NEW A, NEW B, IsFiniteSet(A), IsFiniteSet(B), A \subseteq B \/ B \subseteq A
  PROVE  Cardinality(A \cap B) = Min({Cardinality(A), Cardinality(B)})
<1> DEFINE a == Cardinality(A)
           b == Cardinality(B)
<1>1. a \in Nat /\ b \in Nat
  BY FS_CardinalityType
<1>2. CASE A \subseteq B
  <2>1. A \cap B = A /\ A \in SUBSET B
    BY <1>2
  <2>2. a <= b
    BY <2>1, FS_Subset
  <2> HIDE DEF a, b
  <2>3. Min({a, b}) = a
    BY <1>1, <2>2, MinOfTwo
  <2> QED
    BY <2>1, <2>3, Zenon DEF a, b
<1>3. CASE B \subseteq A
  <2>1. A \cap B = B /\ B \in SUBSET A
    BY <1>3
  <2>2. b <= a
    BY <2>1, FS_Subset
  <2> HIDE DEF a, b
  <2>3. Min({a, b}) = b
    BY <1>1, <2>2, MinOfTwo
  <2> QED
    BY <2>1, <2>3, Zenon DEF a, b
<1> QED
  BY <1>2, <1>3

\* Of those without key as many are reused as their types allow.
AsManyAsCan(c1, new, t) ==
  Cardinality(IdsLike(c1, t) \cap IdsLike(new, t))
    = Min({Cardinality(IdsLike(c1, t)), Cardinality(IdsLike(new, t))})

LEMMA KeylessReused ==
  ASSUME NEW c1 \in Seq(Mounted), NEW c2 \in Seq(Child), NEW m, Matches(c1, c2, m),
         Thorough(c1, c2, m), NEW new, new \in Seq(Mounted), Len(new) = Len(c2),
         \A j \in 1..Len(c2) : new[j] = Final(c1, c2, m, j), NEW t
  PROVE  AsManyAsCan(c1, new, t)
<1> DEFINE old == IdsLike(c1, t)
           ids == IdsLike(new, t)
<1>1. /\ DOMAIN c1 = 1..Len(c1) /\ DOMAIN new = 1..Len(c2) /\ Len(c1) \in Nat
      /\ \A j \in 1..Len(c2) : new[j].key = c2[j].key /\ new[j].type = c2[j].type
  <2>1. DOMAIN c1 = 1..Len(c1) /\ DOMAIN new = 1..Len(c2) /\ Len(c1) \in Nat
    BY MountedEntries
  <2>2. \A j \in 1..Len(c2) : /\ Final(c1, c2, m, j).key = c2[j].key
                              /\ Final(c1, c2, m, j).type = c2[j].type
    BY DEF Final, Vnode
  <2> QED
    BY <2>1, <2>2
<1>2. ASSUME NEW j \in 1..Len(c2), m[j] # 0, c2[j].key = NoKey
      PROVE  /\ m[j] \in 1..Len(c1) /\ c1[m[j]].key = NoKey /\ c1[m[j]].type = c2[j].type
             /\ new[j].id = c1[m[j]].id
  <2>1. m[j] \in 0..Len(c1) /\ c1[m[j]].key = NoKey
    BY <1>2 DEF Matches
  <2>2. c1[m[j]].type = c2[j].type
    BY <1>2 DEF Thorough, Matched
  <2>3. Final(c1, c2, m, j).id = c1[m[j]].id
    BY <1>2, <2>2 DEF Final, Vnode
  <2>4. m[j] \in 1..Len(c1)
    BY <1>1, <1>2, <2>1
  <2> QED
    BY <2>1, <2>2, <2>3, <2>4
<1>3. /\ \A x : x \in old <=> \E i \in 1..Len(c1) : c1[i].key = NoKey /\ c1[i].type = t /\ x = c1[i].id
      /\ \A x : x \in ids <=> \E j \in 1..Len(c2) : c2[j].key = NoKey /\ c2[j].type = t /\ x = new[j].id
  BY <1>1 DEF IdsLike
<1>4. IsFiniteSet(old) /\ IsFiniteSet(ids)
  BY IdsFinite
<1> HIDE DEF old, ids
<1>5. CASE \E j \in 1..Len(c2) : m[j] = 0 /\ c2[j].key = NoKey /\ c2[j].type = t
  <2>1. PICK j \in 1..Len(c2) : m[j] = 0 /\ c2[j].key = NoKey /\ c2[j].type = t
    BY <1>5
  <2>2. ASSUME NEW x \in old PROVE x \in ids
    <3>1. PICK i \in 1..Len(c1) : c1[i].key = NoKey /\ c1[i].type = t /\ x = c1[i].id
      BY <1>3
    <3>2. Alike(c1[i], c2[j])
      BY <2>1, <3>1 DEF Alike
    <3>3. PICK k \in 1..Len(c2) : m[k] = i
      BY <2>1, <3>2 DEF Thorough
    <3>4. m[k] # 0
      BY <3>3
    <3>5. c2[k].key = NoKey
      BY <3>1, <3>3, <3>4 DEF Matches
    <3>6. c2[k].type = t /\ x = new[k].id
      BY <1>2, <3>1, <3>3, <3>4, <3>5
    <3> QED
      BY <1>3, <3>5, <3>6
  <2>3. Cardinality(old \cap ids) = Min({Cardinality(old), Cardinality(ids)})
    BY <1>4, <2>2, NestedSets
  <2> QED
    BY <2>3, Zenon DEF old, ids, AsManyAsCan
<1>6. CASE ~\E j \in 1..Len(c2) : m[j] = 0 /\ c2[j].key = NoKey /\ c2[j].type = t
  <2>1. ASSUME NEW x \in ids PROVE x \in old
    <3>1. PICK j \in 1..Len(c2) : c2[j].key = NoKey /\ c2[j].type = t /\ x = new[j].id
      BY <1>3
    <3>2. m[j] # 0
      BY <1>6, <3>1
    <3>3. m[j] \in 1..Len(c1) /\ c1[m[j]].key = NoKey /\ c1[m[j]].type = t /\ x = c1[m[j]].id
      BY <1>2, <3>1, <3>2
    <3> QED
      BY <1>3, <3>3
  <2>3. Cardinality(old \cap ids) = Min({Cardinality(old), Cardinality(ids)})
    BY <1>4, <2>1, NestedSets
  <2> QED
    BY <2>3, Zenon DEF old, ids, AsManyAsCan
<1> QED
  BY <1>5, <1>6

\* The old children that a new one has its key or its nodes in common with.
Olds(c1, new, j) ==
  {i \in DOMAIN c1 : c1[i].id = new[j].id \/ (c1[i].key = new[j].key /\ c1[i].key # NoKey)}
Those(c1, new) == {j \in DOMAIN new : Olds(c1, new, j) # {}}
Ascends(c1, new, js) == \A j, k \in js : j < k => Max(Olds(c1, new, j)) < Max(Olds(c1, new, k))

\* It is the one that it was matched to, if any.
LEMMA OldsAre ==
  ASSUME NEW c1 \in Seq(Mounted), Distinct(c1), KeysOnce(c1), NEW c2 \in Seq(Child), KeysOnce(c2),
         NEW m, Matches(c1, c2, m), Thorough(c1, c2, m), NEW new,
         \A j \in 1..Len(c2) : new[j] = Final(c1, c2, m, j), NEW j \in 1..Len(c2)
  PROVE  Olds(c1, new, j) = IF m[j] = 0 THEN {} ELSE {m[j]}
<1>1. /\ DOMAIN c1 = 1..Len(c1) /\ m[j] \in 0..Len(c1) /\ Len(c1) \in Nat
      /\ new[j].key = c2[j].key /\ new[j].type = c2[j].type
      /\ new[j].id = Final(c1, c2, m, j).id
  <2>1. DOMAIN c1 = 1..Len(c1) /\ m[j] \in 0..Len(c1) /\ Len(c1) \in Nat
    BY MountedEntries DEF Matches
  <2>2. Final(c1, c2, m, j).key = c2[j].key /\ Final(c1, c2, m, j).type = c2[j].type
    BY DEF Final, Vnode
  <2> QED
    BY <2>1, <2>2
<1>2. ASSUME NEW i \in Olds(c1, new, j) PROVE m[j] = i /\ m[j] # 0
  <2>1. i \in 1..Len(c1)
    BY <1>1 DEF Olds
  <2>2. CASE c1[i].id = new[j].id
    <3>1. m[j] = i
      BY <1>1, <2>1, <2>2, FinalIds
    <3> QED
      BY <2>1, <3>1
  <2>3. CASE c1[i].key = new[j].key /\ c1[i].key # NoKey
    <3>1. CASE c1[i].type = c2[j].type
      <4>1. Reuses(c1, c2, m, {})
        BY DEF Reuses
      <4>2. Final(c1, c2, m, j).id = c1[i].id
        BY <1>1, <2>1, <2>3, <3>1, <4>1, KeyedKept
      <4> QED
        BY <1>1, <2>2, <4>2
    <3>2. CASE c1[i].type # c2[j].type
      <4>1. m[j] # 0
        <5> SUFFICES ASSUME m[j] = 0 PROVE FALSE
          OBVIOUS
        <5>1. Alike(c1[i], c2[j])
          BY <1>1, <2>3 DEF Alike
        <5>2. PICK k \in 1..Len(c2) : m[k] = i
          BY <2>1, <5>1 DEF Thorough
        <5>3. c2[k].key = c2[j].key /\ c2[k].key # NoKey /\ m[k] # 0
          BY <1>1, <2>1, <2>3, <5>2 DEF Matches
        <5>4. DOMAIN c2 = 1..Len(c2)
          BY ChildEntries
        <5>5. k = j
          BY <5>3, <5>4 DEF KeysOnce
        <5> QED
          BY <5>3, <5>5
      <4> QED
        BY <1>1, <2>1, <2>3, <4>1, KeyMatched
    <3> QED
      BY <3>1, <3>2
  <2> QED
    BY <2>2, <2>3 DEF Olds
<1>3. ASSUME m[j] # 0 PROVE m[j] \in Olds(c1, new, j)
  <2>1. m[j] \in DOMAIN c1 /\ c1[m[j]].key = c2[j].key
    BY <1>1, <1>3 DEF Matches
  <2>2. CASE c2[j].key = NoKey
    <3>1. c1[m[j]].type = c2[j].type
      BY <1>3, <2>2 DEF Thorough, Matched
    <3>2. Final(c1, c2, m, j).id = c1[m[j]].id
      BY <1>3, <3>1 DEF Final, Vnode
    <3> QED
      BY <1>1, <2>1, <3>2 DEF Olds
  <2>3. CASE c2[j].key # NoKey
    BY <1>1, <2>1, <2>3 DEF Olds
  <2> QED
    BY <2>2, <2>3
<1>4. CASE m[j] = 0
  BY <1>2, <1>4
<1>5. CASE m[j] # 0
  BY <1>2, <1>3, <1>5
<1> QED
  BY <1>4, <1>5

LEMMA MaxIs ==
  ASSUME NEW S \in SUBSET Int, NEW x \in S, \A y \in S : y <= x
  PROVE  Max(S) = x
<1>1. \E z \in S : \A y \in S : z >= y
  OBVIOUS
<1>2. Max(S) \in S /\ \A y \in S : Max(S) >= y
  BY <1>1 DEF Max
<1> DEFINE top == Max(S)
<1>3. top \in Int /\ x \in Int /\ top >= x /\ x >= top
  BY <1>2
<1> HIDE DEF top
<1>4. top = x
  BY <1>3
<1> QED
  BY <1>4 DEF top

\* Those that are moved are as many as are not in a largest set that could stay.
LEMMA MovedAre ==
  ASSUME NEW c1 \in Seq(Mounted), Distinct(c1), KeysOnce(c1), NEW c2 \in Seq(Child), KeysOnce(c2),
         NEW m, Matches(c1, c2, m), Thorough(c1, c2, m), NEW new, DOMAIN new = 1..Len(c2),
         \A j \in 1..Len(c2) : new[j] = Final(c1, c2, m, j), NEW K, Greatest(K, c2, m)
  PROVE  Cardinality(Matched(c2, m) \ K)
           = Cardinality(Those(c1, new))
             - Max({Cardinality(js) : js \in {s \in SUBSET Those(c1, new) : Ascends(c1, new, s)}})
<1> DEFINE M == Matched(c2, m)
           Q == {s \in SUBSET M : Ascends(c1, new, s)}
           S == {Cardinality(js) : js \in Q}
<1>1. \A j \in 1..Len(c2) : Olds(c1, new, j) = IF m[j] = 0 THEN {} ELSE {m[j]}
  BY OldsAre
<1>2. Those(c1, new) = M
  BY <1>1 DEF Those, Matched
<1>3. \A j \in M : Max(Olds(c1, new, j)) = m[j]
  <2> TAKE j \in M
  <2>1. j \in 1..Len(c2) /\ m[j] # 0 /\ m[j] \in Int
    <3>1. Len(c1) \in Nat
      BY MountedEntries
    <3> QED
      BY <3>1 DEF Matched, Matches
  <2>2. Olds(c1, new, j) = {m[j]}
    BY <1>1, <2>1
  <2>3. Max({m[j]}) = m[j]
    <3> DEFINE x == m[j]
    <3>1. x \in Int
      BY <2>1
    <3> HIDE DEF x
    <3>2. {x} \in SUBSET Int /\ x \in {x} /\ \A y \in {x} : y <= x
      BY <3>1
    <3>3. Max({x}) = x
      BY <3>2, MaxIs
    <3> QED
      BY <3>3 DEF x
  <2> QED
    BY <2>2, <2>3
<1>4. \A s \in SUBSET M : Ascends(c1, new, s) <=> Grows(m, s)
  BY <1>3, Zenon DEF Ascends, Grows
<1>5. K \in SUBSET M /\ Grows(m, K) /\ \A L \in SUBSET M : Grows(m, L) => Cardinality(L) <= Cardinality(K)
  BY DEF Greatest
<1>6. IsFiniteSet(M)
  <2>1. IsFiniteSet(1..Len(c2)) /\ M \in SUBSET (1..Len(c2))
    BY ChildEntries, FS_Interval DEF Matched
  <2> HIDE DEF M
  <2> QED
    BY <2>1, FS_Subset
<1> HIDE DEF M
<1>7. \A s \in Q : Cardinality(s) \in Int /\ Cardinality(s) <= Cardinality(K)
  <2> TAKE s \in Q
  <2>1. s \in SUBSET M /\ Grows(m, s)
    BY <1>4
  <2>2. IsFiniteSet(s)
    BY <1>6, <2>1, FS_Subset
  <2>3. Cardinality(s) \in Nat
    BY <2>2, FS_CardinalityType
  <2> QED
    BY <1>5, <2>1, <2>3
<1>8. K \in Q
  BY <1>4, <1>5
<1> HIDE DEF Q
<1>9. S \in SUBSET Int /\ Cardinality(K) \in S /\ \A y \in S : y <= Cardinality(K)
  BY <1>7, <1>8
<1> HIDE DEF S
<1>10. Max(S) = Cardinality(K)
  BY <1>9, MaxIs
<1>11. Cardinality(M \ K) = Cardinality(M) - Cardinality(K)
  <2>1. Cardinality(M \ K) = Cardinality(M) - Cardinality(M \cap K)
    BY <1>6, FS_Difference
  <2>2. M \cap K = K
    BY <1>5
  <2> QED
    BY <2>1, <2>2, Zenon
<1>12. Cardinality(M \ K) = Cardinality(M) - Max(S)
  BY <1>10, <1>11, Zenon
<1> QED
  BY <1>2, <1>12, Zenon DEF S, Q, M

\* The two lemmas on unmounts and on keyless nodes, with their hypotheses and
\* conclusions named.
Result(c1, c2, m, new) ==
  /\ c1 \in Seq(Mounted) /\ Distinct(c1) /\ c2 \in Seq(Child) /\ Matches(c1, c2, m)
  /\ new \in Seq(Mounted) /\ DOMAIN new = 1..Len(c2) /\ Len(new) = Len(c2)
  /\ \A j \in 1..Len(c2) : new[j] = Final(c1, c2, m, j)

OnlyLost(us, c1, new) ==
  /\ IsInjective(us)
  /\ ToSet(us) = {c1[i].id : i \in DOMAIN c1} \ {new[j].id : j \in DOMAIN new}

LEMMA OnlyLostUnmounted ==
  ASSUME NEW c1, NEW c2, NEW m, NEW new, Result(c1, c2, m, new),
         NEW us, Gone(us, c1, c2, m, 1..Len(c1))
  PROVE  OnlyLost(us, c1, new)
<1>1. /\ c1 \in Seq(Mounted) /\ Distinct(c1) /\ c2 \in Seq(Child) /\ Matches(c1, c2, m)
      /\ DOMAIN new = 1..Len(c2) /\ \A j \in 1..Len(c2) : new[j] = Final(c1, c2, m, j)
  BY DEF Result
<1> QED
  BY <1>1, UnmountedAre DEF OnlyLost

LEMMA KeylessAsCan ==
  ASSUME NEW c1, NEW c2, NEW m, NEW new, Result(c1, c2, m, new), Thorough(c1, c2, m), NEW t
  PROVE  AsManyAsCan(c1, new, t)
<1>1. /\ c1 \in Seq(Mounted) /\ c2 \in Seq(Child) /\ Matches(c1, c2, m)
      /\ new \in Seq(Mounted) /\ Len(new) = Len(c2)
      /\ \A j \in 1..Len(c2) : new[j] = Final(c1, c2, m, j)
  BY DEF Result
<1> QED
  BY <1>1, KeylessReused

\* Patching to an array spares the nodes, ...
LEMMA RenderedSpares ==
  ASSUME ChildrenInv, NEW c \in Lists, Rendered(c)
  PROVE  KeepsNodes /\ UnmountsOnce /\ MovesFew
<1>0. PICK W \in Siblings : /\ ~InFragment => W = {}
                            /\ \E st : Patched(st, children, c, W) /\ Becomes(st)
  BY DEF Rendered
<1>1. PICK st : /\ Patched(st, children, c, W) /\ Becomes(st)
                /\ ~InFragment => W = {}
  BY <1>0
<1>2. PICK m : Spares(st, children, c, m, W)
  BY <1>1 DEF Patched
<1> DEFINE c1 == children
           new == children'
<1>3. /\ c1 \in Seq(Mounted) /\ Distinct(c1) /\ KeysOnce(c1)
      /\ c \in Seq(Child) /\ KeysOnce(c)
  BY ListsAreChildren DEF ChildrenInv, MountedOnce
<1>4. /\ new = st.new /\ unmounts' = st.unmounts /\ moves' = st.moves
      /\ new \in Seq(Mounted) /\ Len(new) = Len(c)
  BY <1>1 DEF Becomes, Patched
<1>5. DOMAIN c1 = 1..Len(c1) /\ DOMAIN new = 1..Len(c)
  BY <1>3, <1>4
<1>6. /\ Matches(c1, c, m) /\ \A j \in 1..Len(c) : new[j] = Final(c1, c, m, j)
      /\ Gone(unmounts', c1, c, m, 1..Len(c1))
      /\ Reuses(c1, c, m, W) /\ MovesLeast(moves', c1, c, m)
  BY <1>2, <1>4 DEF Spares
<1>7. /\ ToSet(unmounts') = {c1[i].id : i \in DOMAIN c1} \ {new[j].id : j \in DOMAIN new}
      /\ IsInjective(unmounts')
  <2> DEFINE us == unmounts'
  <2> HIDE DEF c1, new, us
  <2>1. Gone(us, c1, c, m, 1..Len(c1))
    BY <1>6 DEF us
  <2>2. /\ IsInjective(us)
        /\ ToSet(us) = {c1[i].id : i \in DOMAIN c1} \ {new[j].id : j \in DOMAIN new}
    BY <1>3, <1>5, <1>6, <2>1, UnmountedAre
  <2> QED
    BY <2>2 DEF us
<1>8. UnmountsOnce
  BY <1>7, Zenon DEF UnmountsOnce, Ids
<1>9. \A j \in DOMAIN new : new[j].key = c[j].key /\ new[j].type = c[j].type
  <2> HIDE DEF c1, new
  <2> TAKE j \in DOMAIN new
  <2>1. Final(c1, c, m, j).key = c[j].key /\ Final(c1, c, m, j).type = c[j].type
    BY DEF Final, Vnode
  <2> QED
    BY <1>5, <1>6, <2>1
<1>10. ASSUME NEW i \in DOMAIN c1, NEW j \in DOMAIN new, c1[i].key # NoKey,
              IsSameVNodeType(c1[i], new[j])
       PROVE  c1[i].id = new[j].id
  <2> HIDE DEF c1, new
  <2>1. i \in 1..Len(c1) /\ j \in 1..Len(c)
    BY <1>5
  <2>2. c1[i].key = c[j].key /\ c1[i].type = c[j].type
    BY <1>9, <1>10 DEF IsSameVNodeType
  <2>3. Final(c1, c, m, j).id = c1[i].id
    BY <1>3, <1>6, <1>10, <2>1, <2>2, KeyedKept
  <2> QED
    BY <1>6, <2>1, <2>3
<1>11. ASSUME ~InFragment, NEW t
       PROVE  Cardinality(IdsLike(c1, t) \cap IdsLike(new, t))
                = Min({Cardinality(IdsLike(c1, t)), Cardinality(IdsLike(new, t))})
  <2> HIDE DEF c1, new
  <2>1. Thorough(c1, c, m)
    BY <1>1, <1>6, <1>11 DEF Reuses
  <2>2. Result(c1, c, m, new)
    BY <1>3, <1>4, <1>5, <1>6 DEF Result
  <2>3. AsManyAsCan(c1, new, t)
    BY <2>1, <2>2, KeylessAsCan, Zenon
  <2> QED
    BY <2>3, Zenon DEF AsManyAsCan
<1>12. KeepsNodes
  BY <1>10, <1>11 DEF KeepsNodes, IdsLike
<1>13. ASSUME moves' # {}
       PROVE  Cardinality(moves')
                = Cardinality(Those(c1, new))
                  - Max({Cardinality(js) : js \in {s \in SUBSET Those(c1, new) : Ascends(c1, new, s)}})
  <2> HIDE DEF c1, new
  <2>1. PICK K : Thorough(c1, c, m) /\ Greatest(K, c, m) /\ moves' = Matched(c, m) \ K
    BY <1>6, <1>13 DEF MovesLeast
  <2> DEFINE most == Max({Cardinality(js) : js \in {s \in SUBSET Those(c1, new) : Ascends(c1, new, s)}})
  <2>2. Cardinality(Matched(c, m) \ K) = Cardinality(Those(c1, new)) - most
    BY <1>3, <1>5, <1>6, <2>1, MovedAre
  <2> HIDE DEF most
  <2>3. Cardinality(moves') = Cardinality(Those(c1, new)) - most
    BY <2>1, <2>2, Zenon
  <2> QED
    BY <2>3 DEF most
<1>14. MovesFew
  BY <1>13, Zenon DEF MovesFew, Those, Ascends, Increasing, Olds, OldOf
<1> QED
  BY <1>8, <1>12, <1>14

\* and so does text, or nothing, in their place.
LEMMA AllUnmounted ==
  ASSUME ChildrenInv, ~InFragment
  PROVE  /\ ToSet(Unmounted.unmounts) = Ids /\ IsInjective(Unmounted.unmounts)
<1> DEFINE c1 == children
           none == << >>
           us == Unmounted.unmounts
<1>1. /\ c1 \in Seq(Mounted) /\ Distinct(c1) /\ KeysOnce(c1)
      /\ none \in Seq(Child) /\ none \in Seq(Mounted) /\ Len(none) = 0 /\ {} \in Siblings
  BY NoChildren DEF ChildrenInv, MountedOnce, Siblings
<1>2. \E m : Matches(c1, none, m) /\ Gone(us, c1, none, m, 1..Len(c1))
  <2>1. CASE kind = "text"
    <3>1. c1 = none
      BY <2>1 DEF ChildrenInv, Shown
    <3>2. us = << >>
      BY <3>1 DEF Unmounted, UnmountFrom, Up, StartPatch
    <3>3. 1..Len(c1) = {}
      BY <3>1
    <3> DEFINE m == Unmatched(none)
    <3>4. Matches(c1, none, m)
      BY DEF Matches, Unmatched
    <3> HIDE DEF m, us, none
    <3>5. Gone(us, c1, none, m, 1..Len(c1))
      BY <3>2, <3>3, NoneGone
    <3> QED
      BY <3>4, <3>5
  <2>2. CASE kind # "text"
    <3>1. dom = Contents(c1, {})
      <4>1. CASE kind = "array"
        BY <4>1, OutsideIs
      <4>2. CASE kind # "array"
        <5>1. c1 = none /\ dom = << >>
          BY <2>2, <4>2 DEF ChildrenInv, Shown
        <5>2. Contents(none, {}) = << >>
          BY <1>1, NothingShown
        <5> QED
          BY <5>1, <5>2
      <4> QED
        BY <4>1, <4>2
    <3> DEFINE t == UnmountFrom(StartPatch(none, Contents(c1, {})), c1, 1, Len(c1))
    <3>2. Unmounted = t
      BY <3>1 DEF Unmounted
    <3>3. Patched(t, c1, none, {})
      <4> HIDE DEF none, c1
      <4> QED
        BY <1>1, Emptied
    <3> HIDE DEF t, none, c1
    <3> QED
      BY <3>2, <3>3 DEF Patched, Spares
  <2> QED
    BY <2>1, <2>2
<1> HIDE DEF us
<1>3. PICK m : Matches(c1, none, m) /\ Gone(us, c1, none, m, 1..Len(c1))
  BY <1>2
<1>4. /\ IsInjective(us)
      /\ ToSet(us) = {c1[i].id : i \in DOMAIN c1} \ {none[j].id : j \in DOMAIN none}
  <2>1. DOMAIN none = 1..Len(none) /\ \A j \in 1..Len(none) : none[j] = Final(c1, none, m, j)
    OBVIOUS
  <2> HIDE DEF none, c1
  <2>2. Result(c1, none, m, none)
    BY <1>1, <1>3, <2>1 DEF Result
  <2>3. OnlyLost(us, c1, none)
    BY <1>3, <2>2, OnlyLostUnmounted, Zenon
  <2> QED
    BY <2>3, Zenon DEF OnlyLost
<1>5. {none[j].id : j \in DOMAIN none} = {}
  OBVIOUS
<1>6. ToSet(us) = {c1[i].id : i \in DOMAIN c1}
  <2> HIDE DEF none
  <2> QED
    BY <1>4, <1>5
<1> QED
  BY <1>4, <1>6 DEF us, Ids

LEMMA EmptiedSpares ==
  ASSUME ChildrenInv, PatchToText \/ PatchToNone
  PROVE  KeepsNodes /\ UnmountsOnce /\ MovesFew
<1>1. /\ ~InFragment /\ kind' # "array" /\ children' = << >> /\ unmounts' = Unmounted.unmounts
  BY DEF PatchToText, PatchToNone
<1>2. ToSet(Unmounted.unmounts) = Ids /\ IsInjective(Unmounted.unmounts)
  BY <1>1, AllUnmounted
<1>3. {children'[j].id : j \in DOMAIN children'} = {}
  BY <1>1
<1>4. UnmountsOnce
  BY <1>1, <1>2, <1>3 DEF UnmountsOnce
<1>5. KeepsNodes /\ MovesFew
  BY <1>1 DEF KeepsNodes, MovesFew, Arrays
<1> QED
  BY <1>4, <1>5

LEMMA NextSpares ==
  ASSUME ChildrenInv, Next
  PROVE  KeepsNodes /\ UnmountsOnce /\ MovesFew
<1>1. CASE \E c \in Lists : PatchKeyedFragment(c)
  BY <1>1, KeyedFragmentRendered, RenderedSpares
<1>2. CASE \E c \in Lists : PatchUnkeyedFragment(c)
  BY <1>2, UnkeyedFragmentRendered, RenderedSpares
<1>3. CASE \E c \in Lists : PatchToArray(c)
  BY <1>3, ToArrayRendered, RenderedSpares
<1>4. CASE PatchToText \/ PatchToNone
  BY <1>4, EmptiedSpares
<1> QED
  BY <1>1, <1>2, <1>3, <1>4 DEF Next

\* Whatever it is that is rendered, patching spares the nodes: of two children with
\* the same key and type the nodes stay, of those without key as many are reused as
\* there can be, what is given up is unmounted once, and no more children are
\* moved than have to be, for those that stay are a longest sequence that is in
\* the order of before: patchKeyedChildren with getSequence, and the unkeyed diff.
THEOREM ChildrenSpared == Spec => NodesKept
<1>1. ChildrenInv /\ [Next]_vars => ChildrenInv'
  BY NextInv
<1>2. ChildrenInv /\ [Next]_vars => [KeepsNodes /\ UnmountsOnce /\ MovesFew]_vars
  BY NextSpares
<1> QED
  BY InitInv, <1>1, <1>2, PTL DEF Spec, NodesKept
================================================================================
