--------------------------------- MODULE VNode ---------------------------------
(***************************************************************************)
(* Virtual nodes: how a render function builds them, and the tree of       *)
(* blocks that the compiler's output makes of them (runtime-core/src/      *)
(* vnode.ts).                                                              *)
(*                                                                         *)
(* s.vn is the sequence of all vnodes ever created, a vnode is named by    *)
(* its index and 0 is null: two vnodes of a tree are told apart by their   *)
(* identity, and a hoisted or cached vnode is in several trees at once.    *)
(* s.arrays is likewise the sequence of all arrays of children: a clone     *)
(* shares the array of the vnode it copies.                                *)
(* s.blocks is blockStack, s.track is shouldTrack; currentBlock is the     *)
(* last element of the stack, or null.                                     *)
(*                                                                         *)
(* A value of a prop is a sequence of words: class names, the handlers of  *)
(* an event; style has one property.  The empty one is a prop that is      *)
(* undefined.  nullProps says of a component's vnode that its props are    *)
(* null, and not an object without keys.  Patch flags are sets of names;   *)
(* HOISTED and BAIL stand for the negative ones.                           *)
(***************************************************************************)
EXTENDS Dom

BlankVNode ==
  [type |-> "Comment", kind |-> "Comment", key |-> None, props |-> NoProps, nullProps |-> TRUE,
   ckind |-> "none", text |-> None, array |-> 0, slots |-> NoProps, stable |-> FALSE,
   patchFlag |-> {}, dynamicProps |-> << >>,
   block |-> FALSE, dynamicChildren |-> << >>,  \* null while block is FALSE
   dirs |-> << >>, ref |-> None, owner |-> 0,
   el |-> 0, anchor |-> 0, component |-> 0, target |-> 0, targetAnchor |-> 0]

Special(flags) == flags \cap {"HOISTED", "BAIL"} # {}
Positive(flags) == flags # {} /\ ~Special(flags)   \* patchFlag > 0

HandlerKeys == {"onClick", "onFocus"}
ReservedProps == {"key", "ref"}
Prop(props, key) == IF key \in DOMAIN props THEN props[key] ELSE None

NewArray(s, kids) == [s EXCEPT !.arrays = Append(@, kids)]
LatestArray(s) == Len(s.arrays)
Children(s, v) == s.arrays[s.vn[v].array]

IsSameVNodeType(n1, n2) == n1.type = n2.type /\ n1.key = n2.key

Latest(s) == Len(s.vn)  \* the vnode that was created last
TracksBlock(s) == s.blocks # << >> /\ Last(s.blocks).tracks
Track(s, v) == [s EXCEPT !.blocks[Len(s.blocks)].kids = Append(@, v)]

\* A vnode that patching has to visit: one with a flag other than that of its
\* events, or a component.
IsDynamic(vnode) ==
  /\ vnode.patchFlag # {"HYDRATE_EVENTS"}
  /\ Positive(vnode.patchFlag) \/ vnode.kind \in {"component", "Teleport", "Suspense"}

\* The key and the ref of a vnode are taken from its props; the instance that
\* is being rendered owns the ref.
WithProps(s, vnode, props) ==
  [vnode EXCEPT !.props = props, !.key = Prop(props, "key"), !.ref = Prop(props, "ref"),
                !.owner = s.rendering]

\* createVNode adds a dynamic vnode to the block that is open.
CreateVNode(s, vnode, isBlock) ==
  LET t == [s EXCEPT !.vn = Append(@, WithProps(s, vnode, vnode.props))]
  IN  IF s.track > 0 /\ ~isBlock /\ TracksBlock(s) /\ IsDynamic(vnode)
      THEN Track(t, Latest(t)) ELSE t

OpenBlock(s, disableTracking) ==
  [s EXCEPT !.blocks = Append(@, [tracks |-> ~disableTracking, kids |-> << >>])]

SetBlockTracking(s, value) == [s EXCEPT !.track = @ + value]

\* createBlock closes the block and adds it to the one around it, whatever
\* shouldTrack says.  Mutant: the block around it does not hear of it.
CreateBlockAlone(s, vnode) ==
  LET t == CreateVNode(s, vnode, TRUE)
  IN  [t EXCEPT !.vn[Latest(t)] = [@ EXCEPT !.block = TRUE,
                                            !.dynamicChildren = Last(s.blocks).kids],
                !.blocks = Front(@)]

CreateBlock(s, vnode) ==
  LET t == CreateVNode(s, vnode, TRUE)
      u == [t EXCEPT !.vn[Latest(t)] = [@ EXCEPT !.block = TRUE,
                                                 !.dynamicChildren = Last(s.blocks).kids],
                     !.blocks = Front(@)]
  IN  IF TracksBlock(u) THEN Track(u, Latest(u)) ELSE u

TextVNode(text, flag) ==
  [BlankVNode EXCEPT !.type = "Text", !.kind = "Text", !.ckind = "text",
                     !.text = text, !.patchFlag = flag]
FragmentVNode(props, kids, flag) ==
  [BlankVNode EXCEPT !.type = "Fragment", !.kind = "Fragment", !.props = props,
                     !.ckind = "array", !.array = kids, !.patchFlag = flag]

\* The comment of a v-if without v-else is a block of its own.
CreateCommentVNode(s, asBlock) ==
  IF asBlock THEN CreateBlock(OpenBlock(s, FALSE), BlankVNode)
             ELSE CreateVNode(s, BlankVNode, FALSE)

--------------------------------------------------------------------------------
(* Children that are no vnodes yet, as a render function may return them.      *)

RawNull == [BlankVNode EXCEPT !.kind = "raw null"]
RawArray(kids) == [BlankVNode EXCEPT !.kind = "raw array", !.array = kids]

\* mergeProps(a, b): classes and handlers add up, styles override, the rest is
\* replaced.
MergeProps(a, b) ==
  [k \in DOMAIN a \cup DOMAIN b |->
     IF k \notin DOMAIN b THEN a[k]
     ELSE IF k \notin DOMAIN a THEN b[k]
     ELSE IF k = "class" \/ k \in HandlerKeys
          THEN IF a[k] = b[k] THEN a[k] ELSE a[k] \o b[k]
     ELSE IF k = "style" /\ b[k] = None THEN a[k]
     ELSE b[k]]

\* cloneVNode.  With extra props the flag no longer tells what may change: a
\* block keeps its children, another vnode leaves the optimised mode.
CloneVNode(s, v, extra) ==
  LET vnode == s.vn[v]
      props == MergeProps(vnode.props, extra)
      flag == IF extra = NoProps THEN vnode.patchFlag
              ELSE IF vnode.block THEN vnode.patchFlag \cup {"FULL_PROPS"} ELSE {"BAIL"}
  IN  [s EXCEPT !.vn = Append(@, [WithProps(s, vnode, props) EXCEPT
                                    !.patchFlag = flag, !.nullProps = @ /\ extra = NoProps])]

\* cloneIfMounted and normalizeVNode return the state and the vnode to use.
CloneIfMounted(s, v) ==
  IF s.vn[v].el = 0 THEN [s |-> s, v |-> v]
  ELSE [s |-> CloneVNode(s, v, NoProps), v |-> Len(s.vn) + 1]

NormalizeVNode(s, v) ==
  LET vnode == s.vn[v] IN
  CASE vnode.kind = "raw null" ->
         [s |-> CreateVNode(s, BlankVNode, FALSE), v |-> Len(s.vn) + 1]
    [] vnode.kind = "raw array" ->
         [s |-> CreateVNode(s, FragmentVNode(NoProps, vnode.array, {}), FALSE),
          v |-> Len(s.vn) + 1]
    [] OTHER -> CloneIfMounted(s, v)

================================================================================
