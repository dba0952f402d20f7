-------------------------------- MODULE Hydrate --------------------------------
(***************************************************************************)
(* Hydration (runtime-core/src/hydration.ts): the first render of an app   *)
(* adopts the nodes that are there, and mounts what it does not find.      *)
(*                                                                         *)
(* The operators take the node that is expected for a vnode and return the *)
(* state s and the node after it, next (0: there is none).  The state has, *)
(* besides that of Patch,                                                  *)
(*   hasMismatch  as in the code;                                          *)
(*   waiting      the asynchronous components: they are hydrated when they *)
(*                are loaded;                                              *)
(*   lpa          where the next Teleport into a target starts.            *)
(***************************************************************************)
EXTENDS Server

IsComment(s, node) == s.dom[node].tag = "#comment"
IsText_(s, node) == s.dom[node].tag = "#text"
IsElement(s, node) == ~IsComment(s, node) /\ ~IsText_(s, node)
HasData(s, node, data) == IsComment(s, node) /\ s.dom[node].text = << data >>
FirstChild(s, el) == IF s.dom[el].kids = << >> THEN 0 ELSE Head(s.dom[el].kids)
At(s, node) == [s |-> s, next |-> node]
Mismatch(s) == [s EXCEPT !.hasMismatch = TRUE]

RECURSIVE HydrateNode(_, _, _, _, _), HydrateChildren(_, _, _, _, _, _, _)

\* locateClosingAsyncAnchor: the node after the end of the fragment that starts
\* at node.
\* Mutant: a fragment inside is not noticed.
RECURSIVE LocateClosing(_, _, _), LocateClosingFirst(_, _, _)
LocateClosingFirst(s, node, match) ==
  LET next == HostNextSibling(s, node) IN
  CASE next = 0 -> 0
    [] next # 0 /\ HasData(s, next, "]") -> HostNextSibling(s, next)
    [] OTHER -> LocateClosingFirst(s, next, match)
LocateClosing(s, node, match) ==
  LET next == HostNextSibling(s, node) IN
  CASE next = 0 -> 0
    [] next # 0 /\ HasData(s, next, "[") -> LocateClosing(s, next, match + 1)
    [] next # 0 /\ HasData(s, next, "]") ->
         IF match = 0 THEN HostNextSibling(s, next) ELSE LocateClosing(s, next, match - 1)
    [] OTHER -> LocateClosing(s, next, match)

\* handleMismtach: the node is removed, with all of its fragment, and the vnode
\* is mounted.
RECURSIVE RemoveUntil(_, _, _)
RemoveUntil(s, node, end) ==
  LET next == HostNextSibling(s, node)
  IN  IF next = 0 \/ next = end THEN s ELSE RemoveUntil(HostRemove(s, next), node, end)
HandleMismatch(s, node, v, parent) ==
  LET start == HasData(s, node, "[")
      t0 == SetEl(Mismatch(s), v, 0)
      t1 == IF start THEN RemoveUntil(t0, node, LocateClosing(s, node, 0)) ELSE t0
      next == HostNextSibling(t1, node)
      container == HostParentNode(t1, node)
  IN  At(Patch(HostRemove(t1, node), 0, v, container, next, parent, FALSE), next)

--------------------------------------------------------------------------------
(* Elements. *)

\* Only the listeners are set.
\* Mutant: of optimised code only those of clicks are.
HydratedKeysClick(vnode, optimized) ==
  DOMAIN vnode.props \cap (IF optimized THEN {"onClick"} ELSE Ons)
HydratedKeys(vnode, optimized) ==
  DOMAIN vnode.props \cap
  (IF ~optimized \/ HasFlag(vnode.patchFlag, "FULL_PROPS") \/ HasFlag(vnode.patchFlag, "HYDRATE_EVENTS")
   THEN Ons ELSE {"onClick"})

RECURSIVE RemoveRest(_, _)
RemoveRest(s, node) ==
  IF node = 0 THEN s ELSE RemoveRest(HostRemove(Mismatch(s), node), HostNextSibling(s, node))

RECURSIVE TextContent(_, _)
TextContent(s, el) ==
  IF IsText_(s, el) THEN s.dom[el].text
  ELSE FoldLeft(LAMBDA text, kid : text \o (IF IsComment(s, kid) THEN None ELSE TextContent(s, kid)),
                None, s.dom[el].kids)

HydrateElement(s, el, v, parent, optimized) ==
  LET vnode == s.vn[v]
      opt == optimized \/ vnode.block
      t0 == PatchKeys(s, el, HydratedKeys(vnode, opt), vnode.props)
      t1 == IF vnode.dirs = << >> THEN t0 ELSE SetDisplay(t0, el, vnode.dirs[1] # None)
      kids == HydrateChildren(t1, FirstChild(t1, el), vnode.array, el, parent, opt, 1)
      t2 == CASE vnode.ckind = "array" -> RemoveRest(kids.s, kids.next)
              [] vnode.ckind = "text" /\ TextContent(t1, el) # vnode.text ->
                   HostSetElementText(Mismatch(t1), el, vnode.text)
              [] OTHER -> t1
      t == IF "HOISTED" \in vnode.patchFlag THEN s ELSE t2
  IN  At(t, HostNextSibling(t, el))

--------------------------------------------------------------------------------
(* Children and fragments. *)

HydrateChildren(s, node, array, container, parent, optimized, k) ==
  IF k > Len(s.arrays[array]) THEN At(s, node)
  ELSE LET r == IF optimized THEN [s |-> s, v |-> s.arrays[array][k]]
                ELSE NormalizeVNode(s, s.arrays[array][k])
           t == [r.s EXCEPT !.arrays[array][k] = r.v]
           h == IF node # 0 THEN HydrateNode(t, node, r.v, parent, optimized)
                ELSE At(Patch(Mismatch(t), 0, r.v, container, 0, parent, FALSE), 0)
       IN  HydrateChildren(h.s, h.next, array, container, parent, optimized, k + 1)

\* Mutant: the end is not remembered.
HydrateFragmentOpen(s, node, v, parent, optimized) ==
  LET h == HydrateChildren(s, HostNextSibling(s, node), s.vn[v].array, HostParentNode(s, node),
                           parent, optimized \/ s.vn[v].block, 1)
  IN  At(h.s, HostNextSibling(h.s, h.next))
HydrateFragment(s, node, v, parent, optimized) ==
  LET container == HostParentNode(s, node)
      h == HydrateChildren(s, HostNextSibling(s, node), s.vn[v].array, container, parent,
                           optimized \/ s.vn[v].block, 1)
      made == HostCreateComment(Mismatch(h.s), << "]" >>)
  IN  IF h.next # 0 /\ HasData(h.s, h.next, "]")
      THEN At([h.s EXCEPT !.vn[v].anchor = h.next], HostNextSibling(h.s, h.next))
      ELSE At(HostInsert([made EXCEPT !.vn[v].anchor = Newest(made)], Newest(made), container, h.next),
              h.next)

--------------------------------------------------------------------------------
(* Components and Teleport. *)

\* mountComponent of a vnode that has an el: what it renders is hydrated, and
\* the el stays.
HydrateComponent(s, v, parent, optimized) ==
  LET i == Len(s.inst) + 1
      t0 == [s EXCEPT !.inst = Append(@, NewInstance(s.vn[v].type, v, parent, optimized)),
                      !.vn[v].component = i]
      t1 == RenderComponentRoot(InitSlots(InitProps(t0, i), i), i)
      subTree == t1.ret
      h == HydrateNode([t1 EXCEPT !.inst[i].subTree = subTree], t1.vn[v].el, subTree, i, FALSE)
  IN  [h.s EXCEPT !.inst[i].isMounted = TRUE]

\* The node after a component is looked for once it is hydrated, unless it is
\* still to be loaded.
HydrateComponentNode(s, node, v, parent, optimized) ==
  LET start == HasData(s, node, "[")
      t == IF s.vn[v].type \in Async
           THEN [s EXCEPT !.waiting = @ \cup {[v |-> v, parent |-> parent, optimized |-> optimized]}]
           ELSE HydrateComponent(s, v, parent, optimized)
  IN  At(t, IF start THEN LocateClosing(t, node, 0) ELSE HostNextSibling(t, node))

\* hydrateTeleport.
HydrateTeleport(s, node, v, parent, optimized) ==
  LET vnode == s.vn[v]
      target == ResolveTarget(s, vnode)
      targetNode == IF s.lpa[target] # 0 THEN s.lpa[target] ELSE FirstChild(s, target)
      t == [s EXCEPT !.vn[v].target = target]
      from == IF IsTeleportDisabled(vnode) THEN HostNextSibling(s, node) ELSE targetNode
      into == IF IsTeleportDisabled(vnode) THEN HostParentNode(s, node) ELSE target
      h == HydrateChildren(t, from, vnode.array, into, parent, optimized \/ vnode.block, 1)
      anchor == IF IsTeleportDisabled(vnode) THEN h.next ELSE HostNextSibling(h.s, node)
      targetAnchor == IF IsTeleportDisabled(vnode) THEN targetNode ELSE h.next
  IN  IF target = 0 \/ vnode.ckind # "array" THEN At(t, 0)
      ELSE At([h.s EXCEPT !.vn[v] = [@ EXCEPT !.anchor = anchor, !.targetAnchor = targetAnchor],
                          !.lpa[target] = HostNextSibling(h.s, targetAnchor)],
              HostNextSibling(h.s, anchor))

--------------------------------------------------------------------------------
(* Vnodes. *)

HydrateText(s, node, v) ==
  LET text == s.vn[v].text
      t == IF s.dom[node].text = text THEN s ELSE HostSetText(Mismatch(s), node, text)
  IN  At(t, HostNextSibling(t, node))

\* What the node of the vnode must be.
Matches(s, node, vnode) ==
  CASE vnode.kind = "Text" -> IsText_(s, node)
    [] vnode.kind = "Comment" -> IsComment(s, node) /\ ~HasData(s, node, "[")
    [] vnode.kind = "Fragment" -> HasData(s, node, "[")
    [] vnode.kind = "element" -> s.dom[node].tag = vnode.type
    [] vnode.kind = "Teleport" -> IsComment(s, node)
    [] vnode.kind = "component" -> TRUE

HydrateNode(s, node, v, parent, optimized) ==
  LET vnode == s.vn[v]
      t == SetEl(s, v, node)
      h == CASE ~Matches(s, node, vnode) -> HandleMismatch(t, node, v, parent)
             [] Matches(s, node, vnode) /\ vnode.kind = "Text" -> HydrateText(t, node, v)
             [] Matches(s, node, vnode) /\ vnode.kind = "Comment" -> At(t, HostNextSibling(t, node))
             [] Matches(s, node, vnode) /\ vnode.kind = "Fragment" ->
                  HydrateFragment(t, node, v, parent, optimized)
             [] Matches(s, node, vnode) /\ vnode.kind = "element" ->
                  HydrateElement(t, node, v, parent, optimized)
             [] Matches(s, node, vnode) /\ vnode.kind = "Teleport" ->
                  HydrateTeleport(t, node, v, parent, optimized)
             [] OTHER -> HydrateComponentNode(t, node, v, parent, optimized)
  IN  IF vnode.ref # None /\ parent # 0 THEN At(SetRef(h.s, v, None, FALSE), h.next) ELSE h

\* createSSRApp(root).mount(container), on the page of the server.
HydrateApp(t, components, store, page) ==
  LET blank == [hasMismatch |-> FALSE, waiting |-> {}, lpa |-> [el \in 0..3 |-> 0]]
               @@ Blank(FALSE, components, store)
      s == Load(Shown(blank, page), Templates[t].uses)
      u == CreateVNode(s, [BlankVNode EXCEPT !.type = Templates[t].root, !.kind = "component"], FALSE)
  IN  HydrateNode(u, FirstChild(u, 1), Latest(u), 0, FALSE).s

\* The component w of waiting is loaded.
Loaded(s, w) ==
  HydrateComponent([s EXCEPT !.waiting = @ \ {w}], w.v, w.parent, w.optimized)
================================================================================
