------------------------------- MODULE Children --------------------------------
(***************************************************************************)
(* How the renderer makes the children of a vnode match the next render:   *)
(* patchChildren with its keyed and unkeyed diff, and the longest          *)
(* increasing subsequence the keyed diff spares from moving.               *)
(*                                                                         *)
(* A child is a vnode, its key and its type; a mounted child has an id     *)
(* that names its host nodes: an element has one, a fragment two anchors.  *)
(* Indices are those of TLA+ sequences, one more than in the code.         *)
(***************************************************************************)
EXTENDS Integers, Sequences, FiniteSets, SequencesExt, FiniteSetsExt, Subsequence

CONSTANTS
  Lists,     \* the children a render may produce
  First,     \* those of the first render
  MaxRenders, \* bound: renders after the first
  Keys,      \* the keys of children
  NoKey,     \* the key of a child without one
  Types,     \* the types of children
  Fragments  \* the types whose vnodes are fragments

\* Keys are unique among the children of a vnode.
ASSUME ChildrenAssumption ==
  /\ Lists \cup First \subseteq Seq([key : Keys \cup {NoKey}, type : Types])
  /\ \A c \in Lists \cup First : \A i, j \in DOMAIN c :
       c[i].key = c[j].key /\ i # j => c[i].key = NoKey

VARIABLES
  kind,       \* kind of the children: "none", "text" or "array"
  children,   \* the mounted children
  dom,        \* the host nodes of the container
  renders,    \* the renders after the first
  moves,      \* history: the children the last patch moved
  unmounts    \* history: the children the last patch unmounted, in order

vars == << kind, children, dom, renders, moves, unmounts >>

--------------------------------------------------------------------------------
(* Host nodes. *)

\* The container is a fragment, between siblings, or an element of its own.
Before == << 0, 1 >>
After == << 0, 2 >>
Text == << 0, 3 >>
InFragment == After \in ToSet(dom)
ParentAnchor == IF InFragment THEN After ELSE << >>

el(m) == << m.id, 1 >>
Nodes(m) == IF m.type \in Fragments THEN << << m.id, 1 >>, << m.id, 2 >> >>
                                    ELSE << << m.id, 1 >> >>
NodesOf(ms) == FlattenSeq([i \in DOMAIN ms |-> Nodes(ms[i])])

RemoveNodes(d, m) ==
  FlattenSeq([k \in DOMAIN d |-> IF d[k][1] = m.id THEN << >> ELSE << d[k] >>])
\* hostInsert of the nodes of m, before the anchor, or at the end.
InsertNodes(d, m, anchor) ==
  LET rest == RemoveNodes(d, m)
      at == IF anchor \in ToSet(rest) THEN CHOOSE k \in DOMAIN rest : rest[k] = anchor
                                      ELSE Len(rest) + 1
  IN  SubSeq(rest, 1, at - 1) \o Nodes(m) \o SubSeq(rest, at, Len(rest))
NextHostNode(d, m) ==
  LET k == CHOOSE k \in DOMAIN d : d[k] = Last(Nodes(m))
  IN  IF k = Len(d) THEN << >> ELSE d[k + 1]

--------------------------------------------------------------------------------
(* Patching.  The state of a patch: host nodes, the new children so far, and  *)
(* what was moved and unmounted.                                              *)

IsSameVNodeType(n1, n2) == n1.type = n2.type /\ n1.key = n2.key

\* The new child j gets the j-th id that no old child has.
Fresh(c1, j) ==
  LET used == {c1[i].id : i \in DOMAIN c1}
  IN  CHOOSE n \in 1..(Len(c1) + j) : n \notin used /\ Cardinality((1..n) \ used) = j
Vnode(c2, j, id) == [key |-> c2[j].key, type |-> c2[j].type, id |-> id]

StartPatch(c2, d) == [dom |-> d, new |-> c2, moves |-> {}, unmounts |-> << >>]

Unmount(st, m) == [st EXCEPT !.dom = RemoveNodes(@, m), !.unmounts = Append(@, m.id)]
MountAt(st, c1, j, anchor) ==
  LET m == Vnode(st.new, j, Fresh(c1, j))
  IN  [st EXCEPT !.dom = InsertNodes(@, m, anchor), !.new[j] = m]

\* patch(c1[i], c2[j]): another type takes the place of the old one.
Patch(st, c1, i, j) ==
  IF IsSameVNodeType(c1[i], st.new[j])
  THEN [st EXCEPT !.new[j] = Vnode(st.new, j, c1[i].id)]
  ELSE MountAt(Unmount(st, c1[i]), c1, j, NextHostNode(st.dom, c1[i]))

\* The n children that follow p in c1 and q in c2.
PatchFrom(st, c1, p, q, n) == Up(LAMBDA s, k : Patch(s, c1, p + k, q + k), st, 1, n)
UnmountFrom(st, c1, a, b) == Up(LAMBDA s, i : Unmount(s, c1[i]), st, a, b)
MountFrom(st, c1, a, b, anchor) == Up(LAMBDA s, j : MountAt(s, c1, j, anchor), st, a, b)

PatchUnkeyedChildren(c1, c2, d, anchor) ==
  LET common == Min({Len(c1), Len(c2)})
      st == PatchFrom(StartPatch(c2, d), c1, 0, 0, common)
  IN  IF Len(c1) > Len(c2) THEN UnmountFrom(st, c1, common + 1, Len(c1))
      ELSE MountFrom(st, c1, common + 1, Len(c2), anchor)

--------------------------------------------------------------------------------
(* patchKeyedChildren. *)

\* 1., 2.: how many children the two have in common at the start, and then at
\* the end.
SyncStart(c1, c2) ==
  Max({n \in 0..Min({Len(c1), Len(c2)}) : \A k \in 1..n : IsSameVNodeType(c1[k], c2[k])})
SyncEnd(c1, c2, start) ==
  Max({n \in 0..(Min({Len(c1), Len(c2)}) - start) :
         \A k \in 0..(n - 1) : IsSameVNodeType(c1[Len(c1) - k], c2[Len(c2) - k])})

\* 5.2: the new child that the old one is patched to, if there is one.  The
\* mutant may find a new child without key a second time.
NewIndicesTaken(st, c1, i, s2, e2) ==
  IF c1[i].key # NoKey
  THEN {j \in s2..e2 : st.new[j].key = c1[i].key}
  ELSE LET same == {j \in s2..e2 : IsSameVNodeType(c1[i], st.new[j])}
       IN  IF same = {} THEN {} ELSE {Min(same)}

NewIndices(st, c1, i, s2, e2) ==
  IF c1[i].key # NoKey
  THEN {j \in s2..e2 : st.new[j].key = c1[i].key}
  ELSE LET free == {j \in s2..e2 : st.map[j] = 0 /\ IsSameVNodeType(c1[i], st.new[j])}
       IN  IF free = {} THEN {} ELSE {Min(free)}

\* One old child.  The mutant takes it for superfluous one too early.
PatchOldEarly(st, c1, i, s2, e2) ==
  LET at == NewIndices(st, c1, i, s2, e2) IN
  IF Cardinality({j \in s2..e2 : st.map[j] # 0}) >= e2 - s2 \/ at = {}
  THEN Unmount(st, c1[i])
  ELSE LET j == CHOOSE j \in at : TRUE IN
       Patch([st EXCEPT !.map[j] = i, !.moved = @ \/ j < st.maxNewIndexSoFar,
                        !.maxNewIndexSoFar = Max({@, j})], c1, i, j)
PatchOld(st, c1, i, s2, e2) ==
  LET at == NewIndices(st, c1, i, s2, e2) IN
  IF Cardinality({j \in s2..e2 : st.map[j] # 0}) > e2 - s2 \/ at = {}
  THEN Unmount(st, c1[i])
  ELSE LET j == CHOOSE j \in at : TRUE IN
       Patch([st EXCEPT !.map[j] = i, !.moved = @ \/ j < st.maxNewIndexSoFar,
                        !.maxNewIndexSoFar = Max({@, j})], c1, i, j)

\* 5.3: from the last new child to the first, mount it, move it before the one
\* that follows, or leave it if it is in the sequence.
PlaceNew(st, c1, j, s2, e2, sequence, anchor) ==
  LET before == IF j < Len(st.new) THEN el(st.new[j + 1]) ELSE anchor IN
  IF st.map[j] = 0 THEN MountAt(st, c1, j, before)
  ELSE IF ~st.moved THEN st
  ELSE IF st.left > 0 /\ j - s2 + 1 = sequence[st.left] THEN [st EXCEPT !.left = @ - 1]
  ELSE [st EXCEPT !.dom = InsertNodes(@, st.new[j], before), !.moves = @ \cup {j}]

PatchOldFrom(st, c1, a, b, s2, e2) == Up(LAMBDA s, i : PatchOld(s, c1, i, s2, e2), st, a, b)
PlaceNewFrom(st, c1, s2, e2, sequence, anchor) ==
  Down(LAMBDA s, j : PlaceNew(s, c1, j, s2, e2, sequence, anchor), st, s2, e2)

UnknownSequence(st0, c1, s1, e1, s2, e2, anchor) ==
  LET st1 == [dom |-> st0.dom, new |-> st0.new, moves |-> {}, unmounts |-> << >>,
              map |-> [j \in s2..e2 |-> 0], moved |-> FALSE, maxNewIndexSoFar |-> s2, left |-> 0]
      st2 == PatchOldFrom(st1, c1, s1, e1, s2, e2)
      sequence == IF st2.moved THEN GetSequence([k \in 1..(e2 - s2 + 1) |-> st2.map[s2 + k - 1]])
                               ELSE << >>
  IN  PlaceNewFrom([st2 EXCEPT !.left = Len(sequence)], c1, s2, e2, sequence, anchor)

PatchKeyedChildren(c1, c2, d, anchor) ==
  LET start == SyncStart(c1, c2)
      end == SyncEnd(c1, c2, start)
      e1 == Len(c1) - end
      e2 == Len(c2) - end
      st1 == PatchFrom(StartPatch(c2, d), c1, 0, 0, start)
      st == PatchFrom(st1, c1, e1, e2, end)
  IN  IF start >= e1
      THEN MountFrom(st, c1, start + 1, e2,
                     IF e2 < Len(c2) THEN el(st.new[e2 + 1]) ELSE anchor)
      ELSE IF start >= e2 THEN UnmountFrom(st, c1, start + 1, e1)
      ELSE UnknownSequence(st, c1, start + 1, e1, start + 1, e2, anchor)

--------------------------------------------------------------------------------
(* patchChildren. *)

Render == renders < MaxRenders /\ renders' = renders + 1
Becomes(st) ==
  /\ kind' = "array" /\ children' = st.new /\ dom' = st.dom
  /\ moves' = st.moves /\ unmounts' = st.unmounts

\* The compiler marks the fragment of a v-for.
PatchKeyedFragment(c2) ==
  /\ Render /\ InFragment
  /\ Becomes(PatchKeyedChildren(children, c2, dom, ParentAnchor))
PatchUnkeyedFragment(c2) ==
  /\ Render /\ InFragment /\ \A i \in DOMAIN c2 : c2[i].key = NoKey
  /\ \A i \in DOMAIN children : children[i].key = NoKey
  /\ Becomes(PatchUnkeyedChildren(children, c2, dom, ParentAnchor))

\* Without a mark: arrays are diffed as if they had keys; text replaces whatever
\* is in the element.
PatchToArray(c2) ==
  /\ Render /\ ~InFragment
  /\ Becomes(IF kind = "array" THEN PatchKeyedChildren(children, c2, dom, << >>)
             ELSE MountFrom(StartPatch(c2, << >>), << >>, 1, Len(c2), << >>))
Unmounted == UnmountFrom(StartPatch(<< >>, dom), children, 1, Len(children))
PatchToText ==
  /\ Render /\ ~InFragment
  /\ kind' = "text" /\ dom' = << Text >> /\ children' = << >> /\ moves' = {}
  /\ unmounts' = Unmounted.unmounts
PatchToNone ==
  /\ Render /\ ~InFragment
  /\ kind' = "none" /\ children' = << >> /\ moves' = {}
  /\ dom' = IF kind = "text" THEN << >> ELSE Unmounted.dom
  /\ unmounts' = Unmounted.unmounts

--------------------------------------------------------------------------------
Mounting(c2, d, anchor) ==
  MountFrom(StartPatch(c2, d), << >>, 1, Len(c2), anchor)

Init ==
  /\ renders = 0 /\ moves = {} /\ unmounts = << >>
  /\ \/ kind = "none" /\ children = << >> /\ dom = << >>
     \/ kind = "text" /\ children = << >> /\ dom = << Text >>
     \/ /\ kind = "array"
        /\ \E c \in First :
             \/ LET st == Mounting(c, << >>, << >>) IN children = st.new /\ dom = st.dom
             \/ LET st == Mounting(c, << Before, After >>, After)
                IN  children = st.new /\ dom = st.dom

Next == \/ \E c \in Lists : PatchKeyedFragment(c) \/ PatchUnkeyedFragment(c) \/ PatchToArray(c)
        \/ PatchToText \/ PatchToNone

Spec == Init /\ [][Next]_vars

--------------------------------------------------------------------------------
Ids == {children[i].id : i \in DOMAIN children}
Arrays == kind = "array" /\ kind' = "array"

\* Whatever the children were, the container holds the host nodes of the new
\* ones, in their order, each once, between the siblings, and nothing else.
DomMatches ==
  /\ Cardinality(Ids) = Len(children)
  /\ dom = CASE kind = "none" -> << >>
             [] kind = "text" -> << Text >>
             [] InFragment -> << Before >> \o NodesOf(children) \o << After >>
             [] OTHER -> NodesOf(children)

\* A child whose key and type are in both renders keeps its host nodes; of the
\* children without keys as many are reused as their types allow; the others
\* are unmounted, none of them twice.
KeepsNodes ==
  Arrays =>
    /\ \A i \in DOMAIN children, j \in DOMAIN children' :
         /\ children[i].key # NoKey
         /\ IsSameVNodeType(children[i], children'[j])
         => children[i].id = children'[j].id
    /\ ~InFragment =>
         LET Keyless(c, t) == {c[i].id : i \in {k \in DOMAIN c : c[k].key = NoKey /\ c[k].type = t}}
         IN  \A t \in {children[i].type : i \in DOMAIN children} :
               LET old == Keyless(children, t)
                   new == Keyless(children', t)
               IN  Cardinality(old \cap new) = Min({Cardinality(old), Cardinality(new)})
UnmountsOnce ==
  /\ IsInjective(unmounts')
  /\ ToSet(unmounts') = Ids \ {children'[j].id : j \in DOMAIN children'}

\* The old child that was patched to the new child j, if there is one: they have
\* their key in common, or their nodes.
OldOf(j) ==
  {i \in DOMAIN children : \/ children[i].id = children'[j].id
                           \/ children[i].key = children'[j].key /\ children[i].key # NoKey}
Increasing(js) == \A j, k \in js : j < k => Max(OldOf(j)) < Max(OldOf(k))

\* No more children are moved than have to be: those that stay are as many as
\* can stay, a largest set of children that are in the same order as before.
MovesFew ==
  Arrays /\ moves' # {} =>
    LET matched == {j \in DOMAIN children' : OldOf(j) # {}}
        most == Max({Cardinality(js) : js \in {s \in SUBSET matched : Increasing(s)}})
    IN  Cardinality(moves') = Cardinality(matched) - most

\* Patching spares the host: nodes are kept and unmounted as above, and no more of
\* them are moved than the new order of the children asks for.
NodesKept == [][KeepsNodes /\ UnmountsOnce /\ MovesFew]_vars
================================================================================
