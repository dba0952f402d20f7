--------------------------------- MODULE Patch ---------------------------------
(***************************************************************************)
(* The renderer (runtime-core/src/renderer.ts) and Teleport: how the vnode *)
(* tree of a render is mounted, patched over the one before and unmounted, *)
(* in the build for production.                                            *)
(*                                                                         *)
(* Every operator takes the state and returns it.  The vnode 0 is null, an *)
(* instance 0 is no parent.  s.queue holds the instances whose update job  *)
(* is queued, s.targets names the elements a Teleport finds by selector.   *)
(***************************************************************************)
EXTENDS Instance, Subsequence

RECURSIVE Patch(_, _, _, _, _, _, _), PatchElement(_, _, _, _, _),
          PatchBlockChildren(_, _, _, _, _, _), MountChildren(_, _, _, _, _, _, _),
          PatchChildren(_, _, _, _, _, _, _), Unmount(_, _, _, _), Move(_, _, _, _),
          UpdateInstance(_, _)

SetEl(s, v, el) == [s EXCEPT !.vn[v].el = el]
Created(s, v) == SetEl(s, v, Newest(s))

--------------------------------------------------------------------------------
(* Refs. *)

\* setRef: the element or the instance of a vnode, null when it is removed.
NullRef == << "null", 0 >>
SetRef(s, v, oldRef, removed) ==
  LET vnode == s.vn[v]
      value == CASE removed -> NullRef
                 [] vnode.kind = "component" -> << "instance", vnode.component >>
                 [] OTHER -> << "el", vnode.el >>
      old == IF oldRef \in {None, vnode.ref} THEN NoProps ELSE oldRef :> NullRef
  IN  IF vnode.owner = 0 \/ (value[1] = "instance" /\ value[2] = 0) THEN Throw(s, "ref of null")
      ELSE [s EXCEPT !.inst[vnode.owner].refs = (vnode.ref :> value) @@ old @@ @]

--------------------------------------------------------------------------------
(* Host nodes of a vnode. *)

RECURSIVE GetNextHostNode(_, _), RemoveFragment(_, _, _)
GetNextHostNode(s, v) ==
  LET vnode == s.vn[v] IN
  IF vnode.kind = "component" THEN GetNextHostNode(s, s.inst[vnode.component].subTree)
  ELSE HostNextSibling(s, IF vnode.anchor # 0 THEN vnode.anchor ELSE vnode.el)

RemoveFragment(s, cur, end) ==
  CASE cur = end -> HostRemove(s, end)
    [] cur = 0 -> Throw(s, "remove of null")
    [] OTHER -> RemoveFragment(HostRemove(s, cur), HostNextSibling(s, cur), end)

\* remove, without the transition a vnode may leave with.
RemoveVNode(s, v) ==
  IF s.vn[v].type = "Fragment" THEN RemoveFragment(s, s.vn[v].el, s.vn[v].anchor)
  ELSE HostRemove(s, s.vn[v].el)

RECURSIVE MoveEach(_, _, _, _, _), RemoveEach(_, _)
MoveEach(s, list, container, anchor, i) ==
  IF i > Len(list) THEN s
  ELSE MoveEach(Move(s, list[i], container, anchor), list, container, anchor, i + 1)
RemoveEach(s, list) ==
  IF list = << >> THEN s ELSE RemoveEach(RemoveVNode(s, Head(list)), Tail(list))
ArrayOf(s, v) == IF s.vn[v].ckind = "array" THEN Children(s, v) ELSE << >>

IsTeleportDisabled(vnode) == Prop(vnode.props, "disabled") # None
\* resolveTarget: 0 if there is none.
ResolveTarget(s, vnode) ==
  LET to == Prop(vnode.props, "to")
  IN  IF to # None /\ Head(to) \in DOMAIN s.targets THEN s.targets[Head(to)] ELSE 0

\* moveTeleport.
MoveTeleport(s, v, container, parentAnchor, moveType) ==
  LET vnode == s.vn[v]
      reorder == moveType = "REORDER"
      t0 == IF moveType = "TARGET_CHANGE"
            THEN HostInsert(s, vnode.targetAnchor, container, parentAnchor) ELSE s
      t1 == IF reorder THEN HostInsert(t0, vnode.el, container, parentAnchor) ELSE t0
      t2 == IF reorder /\ ~IsTeleportDisabled(vnode) THEN t1
            ELSE MoveEach(t1, ArrayOf(s, v), container, parentAnchor, 1)
  IN  IF reorder THEN HostInsert(t2, vnode.anchor, container, parentAnchor) ELSE t2

Move(s, v, container, anchor) ==
  LET vnode == s.vn[v] IN
  CASE vnode.kind = "component" ->
         Move(s, s.inst[vnode.component].subTree, container, anchor)
    [] vnode.kind = "Teleport" -> MoveTeleport(s, v, container, anchor, "REORDER")
    [] vnode.type = "Fragment" ->
         HostInsert(MoveEach(HostInsert(s, vnode.el, container, anchor),
                             Children(s, v), container, anchor, 1),
                    vnode.anchor, container, anchor)
    [] OTHER -> HostInsert(s, vnode.el, container, anchor)

--------------------------------------------------------------------------------
(* Unmounting. *)

RECURSIVE UnmountChildren(_, _, _, _)
UnmountChildren(s, list, parent, doRemove) ==
  IF list = << >> THEN s
  ELSE UnmountChildren(Unmount(s, Head(list), parent, doRemove), Tail(list), parent, doRemove)

\* unmountComponent: the update job is stopped; if it is queued it does nothing.
UnmountComponent(s, i, doRemove) ==
  IF i = 0 THEN Throw(s, "component of null")
  ELSE Unmount([s EXCEPT !.inst[i].isUnmounted = TRUE], s.inst[i].subTree, i, doRemove)

\* The children that need it are the dynamic ones, of a stable vnode.
\* Mutant: the fragment of a v-for, whose block is empty, counts as stable.
UnmountListBlock(s, v) == IF s.vn[v].block THEN s.vn[v].dynamicChildren ELSE ArrayOf(s, v)
UnmountList(s, v) ==
  LET vnode == s.vn[v]
      stable == Positive(vnode.patchFlag) /\ "STABLE_FRAGMENT" \in vnode.patchFlag
  IN  IF vnode.block /\ (vnode.type # "Fragment" \/ stable) THEN vnode.dynamicChildren
      ELSE ArrayOf(s, v)

Unmount(s, v, parent, doRemove) ==
  LET vnode == s.vn[v]
      t0 == IF vnode.ref # None /\ parent # 0 THEN SetRef(s, v, None, TRUE) ELSE s
      t1 == UnmountChildren(t0, UnmountList(s, v), parent, FALSE)
      t2 == IF vnode.kind = "Teleport"
            THEN RemoveEach(HostRemove(t1, vnode.anchor), ArrayOf(s, v)) ELSE t1
  IN  CASE vnode.kind = "component" -> UnmountComponent(t0, vnode.component, doRemove)
        [] doRemove -> RemoveVNode(t2, v)
        [] OTHER -> t2

--------------------------------------------------------------------------------
(* Text, comments and elements. *)

ProcessText(s, n1, n2, container, anchor) ==
  LET text == s.vn[n2].text IN
  IF n1 = 0 THEN LET t == Created(HostCreateText(s, text), n2)
                     el == Newest(t)
                 IN  HostInsert(t, el, container, anchor)
  ELSE LET t == SetEl(s, n2, s.vn[n1].el)
       IN  IF text # s.vn[n1].text THEN HostSetText(t, s.vn[n1].el, text) ELSE t

ProcessCommentNode(s, n1, n2, container, anchor) ==
  IF n1 # 0 THEN SetEl(s, n2, s.vn[n1].el)
  ELSE LET t == Created(HostCreateComment(s, s.vn[n2].text), n2)
       IN  HostInsert(t, Newest(t), container, anchor)

RECURSIVE PatchKeys(_, _, _, _)
PatchKeys(s, el, keys, props) ==
  IF keys = {} THEN s
  ELSE LET key == CHOOSE k \in keys : TRUE
       IN  PatchKeys(HostPatchProp(s, el, key, Prop(props, key)), el, keys \ {key}, props)
ChangedProps(old, new) ==
  {k \in (DOMAIN old \cup DOMAIN new) \ ReservedProps : Prop(old, k) # Prop(new, k)}
PatchProps(s, el, old, new) == PatchKeys(s, el, ChangedProps(old, new), new)

\* mountElement.  A hoisted vnode that was mounted before is cloned.
MountElement(s, v, container, anchor, parent, optimized) ==
  LET vnode == s.vn[v]
      clone == vnode.el # 0 /\ "HOISTED" \in vnode.patchFlag
      el == Newest(s) + 1
      t0 == SetEl(IF clone THEN HostCloneNode(s, vnode.el) ELSE HostCreateElement(s, vnode.type),
                  v, el)
      t1 == CASE clone -> t0
              [] vnode.ckind = "text" -> HostSetElementText(t0, el, vnode.text)
              [] vnode.ckind = "array" ->
                   MountChildren(t0, vnode.array, el, 0, parent, optimized \/ vnode.block, 1)
              [] OTHER -> t0
      t2 == IF clone THEN t1 ELSE PatchKeys(t1, el, DOMAIN vnode.props \ ReservedProps, vnode.props)
      t3 == IF clone \/ vnode.dirs = << >> THEN t2 ELSE SetDisplay(t2, el, vnode.dirs[1] # None)
  IN  HostInsert(t3, el, container, anchor)

\* patchElement's props.
PatchFlaggedProps(s, el, n1, n2) ==
  LET flag == s.vn[n2].patchFlag
      old == s.vn[n1].props
      new == s.vn[n2].props
      keys == (IF "CLASS" \in flag THEN {"class"} ELSE {})
              \cup (IF "STYLE" \in flag THEN {"style"} ELSE {})
              \cup (IF "PROPS" \in flag THEN ToSet(s.vn[n2].dynamicProps) ELSE {})
  IN  IF "FULL_PROPS" \in flag THEN PatchProps(s, el, old, new)
      ELSE PatchKeys(s, el, {k \in keys : k = "style" \/ Prop(old, k) # Prop(new, k)}, new)

\* The hook of v-show that runs after the update looks at old and new values.
DirectivesUpdated(s, n1, n2) ==
  LET old == IF s.vn[n1].dirs = << >> THEN None ELSE s.vn[n1].dirs[1]
      new == s.vn[n2].dirs[1]
  IN  IF (new = None) = (old = None) THEN s ELSE SetDisplay(s, s.vn[n2].el, new # None)

PatchElement(s, n1, n2, parent, optimized) ==
  LET el == s.vn[n1].el
      new == s.vn[n2]
      flagged == Positive(new.patchFlag)
      t0 == SetEl(s, n2, el)
      t1 == CASE flagged -> PatchFlaggedProps(t0, el, n1, n2)
              [] ~optimized /\ ~new.block -> PatchProps(t0, el, s.vn[n1].props, new.props)
              [] OTHER -> t0
      t2 == IF flagged /\ "TEXT" \in new.patchFlag /\ s.vn[n1].text # new.text
            THEN HostSetElementText(t1, el, new.text) ELSE t1
      t3 == CASE new.block ->
                   PatchBlockChildren(t2, s.vn[n1].dynamicChildren, new.dynamicChildren, el, parent, 1)
              [] ~optimized -> PatchChildren(t2, n1, n2, el, 0, parent, FALSE)
              [] OTHER -> t2
  IN  IF new.dirs = << >> THEN t3 ELSE DirectivesUpdated(t3, n1, n2)

--------------------------------------------------------------------------------
(* Blocks and fragments. *)

\* patchBlockChildren: the container is looked up where the patch may need it.
PatchBlockChildren(s, old, new, fallback, parent, i) ==
  IF i > Len(new) THEN s
  ELSE IF i > Len(old) THEN Throw(s, "block without its old child")
  ELSE LET n1 == s.vn[old[i]]
           lookup == n1.type = "Fragment" \/ ~IsSameVNodeType(n1, s.vn[new[i]])
                     \/ n1.kind = "component"
           t == IF lookup /\ n1.el = 0 THEN Throw(s, "parent of null") ELSE s
           container == IF lookup THEN HostParentNode(s, n1.el) ELSE fallback
       IN  PatchBlockChildren(Patch(t, old[i], new[i], container, 0, parent, TRUE),
                              old, new, fallback, parent, i + 1)

ProcessFragment(s, n1, n2, container, anchor, parent, optimized) ==
  LET vnode == s.vn[n2]
      flagged == Positive(vnode.patchFlag)
      start == Newest(s) + 1
      ends == HostCreateText(HostCreateText(s, None), None)
      mounted == HostInsert(HostInsert(ends, start, container, anchor), start + 1, container, anchor)
      fresh == [mounted EXCEPT !.vn[n2] = [@ EXCEPT !.el = start, !.anchor = start + 1]]
      kept == [s EXCEPT !.vn[n2] = [@ EXCEPT !.el = s.vn[n1].el, !.anchor = s.vn[n1].anchor]]
      opt == optimized \/ flagged
  IN  CASE n1 = 0 -> MountChildren(fresh, vnode.array, container, start + 1, parent, opt, 1)
        [] n1 # 0 /\ flagged /\ "STABLE_FRAGMENT" \in vnode.patchFlag /\ vnode.block ->
             PatchBlockChildren(kept, s.vn[n1].dynamicChildren, vnode.dynamicChildren,
                                container, parent, 1)
        [] OTHER -> PatchChildren(kept, n1, n2, container, s.vn[n1].anchor, parent, opt)

--------------------------------------------------------------------------------
(* Teleport. *)

ProcessTeleport(s, n1, n2, container, anchor, parent, optimized) ==
  LET vnode == s.vn[n2]
      disabled == IsTeleportDisabled(vnode)
      at == Newest(s) + 1
      made == HostCreateText(HostCreateText(HostCreateText(s, None), None), None)
      placed == HostInsert(HostInsert(made, at, container, anchor), at + 1, container, anchor)
      target == ResolveTarget(s, vnode)
      ended == IF target = 0 THEN placed ELSE HostInsert(placed, at + 2, target, 0)
      fresh == [ended EXCEPT !.vn[n2] = [@ EXCEPT !.el = at, !.anchor = at + 1, !.target = target,
                                                  !.targetAnchor = at + 2]]
      mount(c, a) == IF vnode.ckind = "array"
                     THEN MountChildren(fresh, vnode.array, c, a, parent, optimized, 1) ELSE fresh
      old == s.vn[n1]
      was == IsTeleportDisabled(old)
      kept == [s EXCEPT !.vn[n2] = [@ EXCEPT !.el = old.el, !.anchor = old.anchor,
                                             !.target = old.target,
                                             !.targetAnchor = old.targetAnchor]]
      currentContainer == IF was THEN container ELSE old.target
      currentAnchor == IF was THEN old.anchor ELSE old.targetAnchor
      patched == CASE vnode.block ->
                        PatchBlockChildren(kept, old.dynamicChildren, vnode.dynamicChildren,
                                           currentContainer, parent, 1)
                   [] ~optimized ->
                        PatchChildren(kept, n1, n2, currentContainer, currentAnchor, parent, FALSE)
                   [] OTHER -> kept
  IN  CASE n1 = 0 /\ disabled -> mount(container, at + 1)
        [] n1 = 0 /\ ~disabled -> IF target = 0 THEN fresh ELSE mount(target, at + 2)
        [] n1 # 0 /\ disabled ->
             IF was THEN patched ELSE MoveTeleport(patched, n2, container, old.anchor, "TOGGLE")
        [] n1 # 0 /\ ~disabled /\ Prop(vnode.props, "to") # Prop(old.props, "to") ->
             LET t == [patched EXCEPT !.vn[n2].target = target] IN
             IF target = 0 THEN t ELSE MoveTeleport(t, n2, target, 0, "TARGET_CHANGE")
        [] OTHER ->
             IF was THEN MoveTeleport(patched, n2, old.target, old.targetAnchor, "TOGGLE")
             ELSE patched

--------------------------------------------------------------------------------
(* Components. *)

MountComponent(s, v, container, anchor, parent, optimized) ==
  LET i == Len(s.inst) + 1
      t0 == [s EXCEPT !.inst = Append(@, NewInstance(s.vn[v].type, v, parent, optimized)),
                      !.vn[v].component = i]
      t1 == RenderComponentRoot(InitSlots(InitProps(t0, i), i), i)
      subTree == t1.ret
      t2 == Patch([t1 EXCEPT !.inst[i].subTree = subTree], 0, subTree, container, anchor, i, FALSE)
  IN  [t2 EXCEPT !.vn[v].el = t2.vn[subTree].el, !.inst[i].isMounted = TRUE]

\* trigger: the jobs of the instances that read the keys of instance i (0: of
\* the store), other than the one that runs.
Trigger(s, i, keys, active) ==
  LET readers == SelectSeq([j \in DOMAIN s.inst |-> j], LAMBDA j :
                   /\ j # active /\ j \notin ToSet(s.queue)
                   /\ \E k \in keys : << i, k >> \in s.inst[j].reads)
  IN  [s EXCEPT !.queue = @ \o readers]

\* updateComponentPreRender.
UpdateComponentPreRender(s, i) ==
  LET instance == s.inst[i]
      prev == s.vn[instance.vnode].props
      t0 == [s EXCEPT !.vn[instance.next].component = i,
                      !.inst[i].vnode = instance.next, !.inst[i].next = 0]
      t1 == UpdateProps(t0, i, prev)
      changed == {k \in DOMAIN t1.inst[i].props : t1.inst[i].props[k] # Prop(instance.props, k)}
  IN  UpdateSlots(Trigger(t1, i, changed, i), i)

\* componentEffect of a mounted instance.  The refs start anew.
UpdateInstance(s, i) ==
  LET vnode == s.inst[i].vnode
      prevTree == s.inst[i].subTree
      t0 == IF s.inst[i].next # 0 THEN UpdateComponentPreRender(s, i) ELSE s
      next == t0.inst[i].vnode
      t1 == RenderComponentRoot(t0, i)
      nextTree == t1.ret
      t2 == [t1 EXCEPT !.inst[i].subTree = nextTree, !.inst[i].refs = NoProps,
                       !.vn[next].el = t1.vn[vnode].el]
      t3 == Patch(t2, prevTree, nextTree, HostParentNode(t2, t2.vn[prevTree].el),
                  GetNextHostNode(t2, prevTree), i, FALSE)
  IN  SetEl(t3, next, t3.vn[nextTree].el)

\* updateComponent: an update that is queued is taken out of the queue.
UpdateComponent(s, n1, n2, optimized) ==
  LET i == s.vn[n1].component
      t == [s EXCEPT !.vn[n2].component = i]
  IN  CASE TakesKeysOfNull(s.vn[n1], s.vn[n2]) -> Throw(t, "keys of null")
        [] ShouldUpdateComponent(s.vn[n1], s.vn[n2], optimized) ->
             UpdateInstance([t EXCEPT !.inst[i].next = n2,
                                      !.queue = SelectSeq(@, LAMBDA j : j # i)], i)
        [] OTHER -> SetEl(t, n2, s.vn[n1].el)

--------------------------------------------------------------------------------
(* Children. *)

\* The child i of an array, ready to be patched.
Ready(s, array, i, optimized) ==
  LET r == IF optimized THEN CloneIfMounted(s, s.arrays[array][i])
           ELSE NormalizeVNode(s, s.arrays[array][i])
  IN  [r.s EXCEPT !.arrays[array][i] = r.v]

MountChildren(s, array, container, anchor, parent, optimized, i) ==
  IF i > Len(s.arrays[array]) THEN s
  ELSE LET t == Ready(s, array, i, optimized)
       IN  MountChildren(Patch(t, 0, t.arrays[array][i], container, anchor, parent, optimized),
                         array, container, anchor, parent, optimized, i + 1)

\* Old child i and new child j of the arrays a1 and a2; no anchor is needed for
\* a child that stays.
PatchChild(s, a1, i, a2, j, container, parent, optimized) ==
  Patch(s, s.arrays[a1][i], s.arrays[a2][j], container, 0, parent, optimized)
SameChild(s, a1, i, a2, j) ==
  IsSameVNodeType(s.vn[s.arrays[a1][i]], s.vn[s.arrays[a2][j]])

PatchUnkeyedChildren(s, a1, a2, container, anchor, parent, optimized) ==
  LET l1 == Len(s.arrays[a1])
      l2 == Len(s.arrays[a2])
      common == IF l1 < l2 THEN l1 ELSE l2
      t == Up(LAMBDA u, i : PatchChild(Ready(u, a2, i, optimized), a1, i, a2, i,
                                       container, parent, optimized), s, 1, common)
  IN  IF l1 > l2 THEN UnmountChildren(t, SubSeq(t.arrays[a1], common + 1, l1), parent, TRUE)
      ELSE MountChildren(t, a2, container, anchor, parent, optimized, common + 1)

\* patchKeyedChildren, 1. and 2.: [s, i] and [s, e1, e2].
RECURSIVE SyncFromStart(_, _, _, _, _, _, _), SyncFromEnd(_, _, _, _, _, _, _, _, _)
SyncFromStart(s, a1, a2, i, container, parent, optimized) ==
  IF i > Len(s.arrays[a1]) \/ i > Len(s.arrays[a2]) THEN [s |-> s, i |-> i]
  ELSE LET t == Ready(s, a2, i, optimized) IN
       IF SameChild(t, a1, i, a2, i)
       THEN SyncFromStart(PatchChild(t, a1, i, a2, i, container, parent, optimized),
                          a1, a2, i + 1, container, parent, optimized)
       ELSE [s |-> t, i |-> i]
SyncFromEnd(s, a1, a2, i, e1, e2, container, parent, optimized) ==
  IF i > e1 \/ i > e2 THEN [s |-> s, e1 |-> e1, e2 |-> e2]
  ELSE LET t == Ready(s, a2, e2, optimized) IN
       IF SameChild(t, a1, e1, a2, e2)
       THEN SyncFromEnd(PatchChild(t, a1, e1, a2, e2, container, parent, optimized),
                        a1, a2, i, e1 - 1, e2 - 1, container, parent, optimized)
       ELSE [s |-> t, e1 |-> e1, e2 |-> e2]

\* The element the child j goes before.
AnchorOf(s, a2, j, parentAnchor) ==
  IF j < Len(s.arrays[a2]) THEN s.vn[s.arrays[a2][j + 1]].el ELSE parentAnchor

\* 5.2: the new index of an old child, 0 if it is gone.
NewIndex(st, a1, i, a2, s2, e2, keyToNewIndexMap) ==
  LET key == st.s.vn[st.s.arrays[a1][i]].key
      free == {j \in s2..e2 : st.map[j] = 0 /\ SameChild(st.s, a1, i, a2, j)}
  IN  CASE key # None -> IF key \in DOMAIN keyToNewIndexMap THEN keyToNewIndexMap[key] ELSE 0
        [] free # {} -> CHOOSE j \in free : \A k \in free : j <= k
        [] OTHER -> 0

PatchUnknown(s, a1, a2, i, e1, e2, container, parentAnchor, parent, optimized) ==
  LET ready == Up(LAMBDA u, j : Ready(u, a2, j, optimized), s, i, e2)
      keyOf(j) == ready.vn[ready.arrays[a2][j]].key
      keyed == {j \in i..e2 : keyOf(j) # None}
      keyToNewIndexMap == [key \in {keyOf(j) : j \in keyed} |->
        CHOOSE j \in keyed : keyOf(j) = key /\ \A k \in keyed : keyOf(k) = key => k <= j]
      gone(st, k) == [st EXCEPT !.s = Unmount(st.s, st.s.arrays[a1][k], parent, TRUE)]
      patchOld(st, k) ==
        LET j == NewIndex(st, a1, k, a2, i, e2, keyToNewIndexMap) IN
        IF st.patched >= e2 - i + 1 \/ j = 0 THEN gone(st, k)
        ELSE [st EXCEPT !.map[j] = k,
                        !.maxNewIndexSoFar = IF j >= @ THEN j ELSE @,
                        !.moved = @ \/ j < st.maxNewIndexSoFar,
                        !.s = PatchChild(st.s, a1, k, a2, j, container, parent, optimized),
                        !.patched = @ + 1]
      st1 == Up(patchOld, [s |-> ready, map |-> [j \in i..e2 |-> 0], moved |-> FALSE,
                           maxNewIndexSoFar |-> i, patched |-> 0], i, e1)
      sequence == IF st1.moved THEN GetSequence([k \in 1..(e2 - i + 1) |-> st1.map[i + k - 1]])
                  ELSE << >>
      stays == {i + sequence[k] - 1 : k \in DOMAIN sequence}
      place(u, j) ==
        LET anchor == AnchorOf(u, a2, j, parentAnchor) IN
        CASE st1.map[j] = 0 -> Patch(u, 0, u.arrays[a2][j], container, anchor, parent, FALSE)
          [] st1.map[j] # 0 /\ st1.moved /\ j \notin stays ->
               Move(u, u.arrays[a2][j], container, anchor)
          [] OTHER -> u
  IN  Down(place, st1.s, i, e2)

PatchKeyedChildren(s, a1, a2, container, parentAnchor, parent, optimized) ==
  LET st == SyncFromStart(s, a1, a2, 1, container, parent, optimized)
      en == SyncFromEnd(st.s, a1, a2, st.i, Len(s.arrays[a1]), Len(s.arrays[a2]),
                        container, parent, optimized)
      mount(u, j) ==
        LET t == Ready(u, a2, j, optimized)
        IN  Patch(t, 0, t.arrays[a2][j], container, AnchorOf(en.s, a2, en.e2, parentAnchor),
                  parent, FALSE)
  IN  CASE st.i > en.e1 -> Up(mount, en.s, st.i, en.e2)
        [] st.i <= en.e1 /\ st.i > en.e2 ->
             UnmountChildren(en.s, SubSeq(en.s.arrays[a1], st.i, en.e1), parent, TRUE)
        [] OTHER -> PatchUnknown(en.s, a1, a2, st.i, en.e1, en.e2, container, parentAnchor,
                                 parent, optimized)

\* patchChildren: the flag of a v-for tells which diff; other children may be
\* text, an array or none.
PatchChildren(s, n1, n2, container, anchor, parent, optimized) ==
  LET old == s.vn[n1]
      new == s.vn[n2]
      flag == IF Positive(new.patchFlag) THEN new.patchFlag ELSE {}
  IN  CASE "KEYED_FRAGMENT" \in flag ->
             PatchKeyedChildren(s, old.array, new.array, container, anchor, parent, optimized)
        [] "UNKEYED_FRAGMENT" \in flag ->
             PatchUnkeyedChildren(s, old.array, new.array, container, anchor, parent, optimized)
        [] flag \cap {"KEYED_FRAGMENT", "UNKEYED_FRAGMENT"} = {} /\ new.ckind = "text" ->
             LET t == UnmountChildren(s, ArrayOf(s, n1), parent, FALSE)
             IN  IF old.ckind = "text" /\ new.text = old.text THEN t
                 ELSE HostSetElementText(t, container, new.text)
        [] OTHER ->
             CASE old.ckind = "array" /\ new.ckind = "array" ->
                    PatchKeyedChildren(s, old.array, new.array, container, anchor, parent, optimized)
               [] old.ckind = "array" /\ new.ckind # "array" ->
                    UnmountChildren(s, ArrayOf(s, n1), parent, TRUE)
               [] OTHER ->
                    LET t == IF old.ckind = "text" THEN HostSetElementText(s, container, None) ELSE s
                    IN  IF new.ckind = "array"
                        THEN MountChildren(t, new.array, container, anchor, parent, optimized, 1)
                        ELSE t

--------------------------------------------------------------------------------
(* patch, render and the queue of updates. *)

PatchVNode(s, n1, n2, container, anchor, parent, optimized) ==
  CASE s.vn[n2].kind = "Text" -> ProcessText(s, n1, n2, container, anchor)
    [] s.vn[n2].kind = "Comment" -> ProcessCommentNode(s, n1, n2, container, anchor)
    [] s.vn[n2].kind = "Fragment" ->
         ProcessFragment(s, n1, n2, container, anchor, parent, optimized)
    [] s.vn[n2].kind = "Teleport" ->
         ProcessTeleport(s, n1, n2, container, anchor, parent, optimized)
    [] s.vn[n2].kind = "element" ->
         IF n1 = 0 THEN MountElement(s, n2, container, anchor, parent, optimized)
         ELSE PatchElement(s, n1, n2, parent, optimized)
    [] s.vn[n2].kind = "component" ->
         IF n1 = 0 THEN MountComponent(s, n2, container, anchor, parent, optimized)
         ELSE UpdateComponent(s, n1, n2, optimized)

Patch(s, n1, n2, container, anchor, parent, optimized) ==
  LET replaced == n1 # 0 /\ ~IsSameVNodeType(s.vn[n1], s.vn[n2])
      from == IF replaced THEN 0 ELSE n1
      at == IF replaced THEN GetNextHostNode(s, n1) ELSE anchor
      t0 == IF replaced THEN Unmount(s, n1, parent, TRUE) ELSE s
      bail == "BAIL" \in s.vn[n2].patchFlag
      t1 == IF bail THEN [t0 EXCEPT !.vn[n2] = [@ EXCEPT !.block = FALSE, !.dynamicChildren = << >>]]
            ELSE t0
      t2 == PatchVNode(t1, from, n2, container, at, parent, optimized /\ ~bail)
      oldRef == IF from = 0 THEN None ELSE s.vn[from].ref
  IN  IF s.vn[n2].ref # None /\ parent # 0 THEN SetRef(t2, n2, oldRef, FALSE) ELSE t2

\* flushJobs, of updates: a job that was stopped does nothing.
RECURSIVE FlushUpdates(_)
FlushUpdates(s) ==
  IF s.queue = << >> THEN s
  ELSE LET i == Head(s.queue)
           t == [s EXCEPT !.queue = Tail(@)]
       IN  FlushUpdates(IF s.inst[i].isUnmounted THEN t ELSE UpdateInstance(t, i))
================================================================================
