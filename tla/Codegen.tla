-------------------------------- MODULE Codegen --------------------------------
(***************************************************************************)
(* What the code that compiler-core generates does when it runs (codegen.ts *)
(* with the helpers it calls), down to the root of a component             *)
(* (componentRenderUtils.ts) and its props and slots.                      *)
(*                                                                         *)
(* s.components holds the components by name: the compiled root (code) and *)
(* the props they declare (props).  s.store is the reactive data of the app that any  *)
(* component may use, s.inst the sequence of all instances.  s.rendering   *)
(* is currentRenderingInstance, s.reads what the running effect depends    *)
(* on: pairs of an instance and a prop of it, or of 0 and a name of the    *)
(* store.  s.ret and s.list are the vnode and the vnodes built last.       *)
(*                                                                         *)
(* An environment env is where code runs: the instance whose code it is    *)
(* and the variables of v-for and v-slot in scope.                         *)
(*                                                                         *)
(* In an app written by hand (s.manual) the same templates stand for       *)
(* render functions: no flags, no blocks, no hoists, null for a v-if that  *)
(* does not hold and nested arrays for v-for and slots.                    *)
(***************************************************************************)
EXTENDS VNode, Compile

Ret(s, v) == [s EXCEPT !.ret = v]
Built(s) == Ret(s, Latest(s))

--------------------------------------------------------------------------------
(* Expressions. *)

InstProp(s, i, name) ==
  IF name \in DOMAIN s.store THEN s.store[name] ELSE Prop(s.inst[i].props, name)
RECURSIVE Value(_, _, _), Vars(_, _, _)
Value(s, env, exp) ==
  CASE exp.type = "SIMPLE" ->
         IF exp.isStatic THEN exp.content
         ELSE IF exp.content \in DOMAIN env.scope THEN env.scope[exp.content]
         ELSE InstProp(s, env.inst, exp.content)
    [] exp.type = "COMPOUND" ->
         LET f[i \in 0..Len(exp.children)] ==
               IF i = 0 THEN None ELSE f[i - 1] \o Value(s, env, exp.children[i])
         IN  f[Len(exp.children)]
    [] exp.type = "INTERPOLATION" -> Value(s, env, exp.content)
    [] exp.type = "TEXT" -> exp.content
    [] OTHER -> None

\* What the value depends on.
Vars(s, env, exp) ==
  CASE exp.type = "SIMPLE" ->
         IF exp.isStatic \/ exp.content \in DOMAIN env.scope THEN {}
         ELSE {<< IF exp.content \in DOMAIN s.store THEN 0 ELSE env.inst, exp.content >>}
    [] exp.type = "COMPOUND" -> UNION {Vars(s, env, exp.children[i]) : i \in DOMAIN exp.children}
    [] exp.type = "INTERPOLATION" -> Vars(s, env, exp.content)
    [] OTHER -> {}
TrackExp(s, env, exp) == [s EXCEPT !.reads = @ \cup Vars(s, env, exp)]
Truthy(value) == value # None

\* A handler closes over the scope, and reads the rest when it is called.
HandlerValue(env, exp) ==
  CASE exp.type = "COMPOUND" ->
         LET f[i \in 0..Len(exp.children)] ==
               IF i = 0 THEN None
               ELSE LET e == exp.children[i] IN
                    f[i - 1] \o (IF e.isStatic THEN e.content
                                 ELSE IF e.content \in DOMAIN env.scope THEN env.scope[e.content]
                                 ELSE << e.content >>)
         IN  f[Len(exp.children)]
    [] OTHER -> << exp.content >>

\* The value of a property: [s, value].  Arrays are normalized as _createVNode
\* does, of a style the last value remains.
RECURSIVE PropValue(_, _, _, _)
PropValue(s, env, name, value) ==
  CASE value.type = "HANDLER" -> [s |-> s, value |-> HandlerValue(env, value.exp)]
    [] value.type = "CACHE" ->
         LET cache == s.inst[env.inst].handlers IN
         IF value.index \in DOMAIN cache THEN [s |-> s, value |-> cache[value.index]]
         ELSE LET h == HandlerValue(env, value.value.exp) IN
              [s |-> [s EXCEPT !.inst[env.inst].handlers = (value.index :> h) @@ @], value |-> h]
    [] value.type = "ARRAY" ->
         LET f[i \in 0..Len(value.elements)] ==
               IF i = 0 THEN [s |-> s, value |-> None]
               ELSE LET r == PropValue(f[i - 1].s, env, name, value.elements[i]) IN
                    [r EXCEPT !.value = IF name # "style" THEN f[i - 1].value \o r.value
                                        ELSE IF r.value = None THEN f[i - 1].value ELSE r.value]
         IN  f[Len(value.elements)]
    [] OTHER -> [s |-> TrackExp(s, env, value), value |-> Value(s, env, value)]

\* genObjectExpression: [s, props].  The last of the properties with a key wins.
RECURSIVE ObjectProps(_, _, _, _)
ObjectProps(s, env, properties, props) ==
  IF properties = << >> THEN [s |-> s, props |-> props]
  ELSE LET p == Head(properties)
           name == IF p.key.isStatic THEN p.key.content ELSE Head(Value(s, env, p.key))
           r == PropValue(TrackExp(s, env, p.key), env, name, p.value)
       IN  ObjectProps(r.s, env, Tail(properties), (name :> r.value) @@ props)

\* An object is the sequence of its keys and values.
Entries(object) ==
  [k \in {object[i] : i \in {j \in DOMAIN object : j % 2 = 1}} |->
     << object[1 + CHOOSE i \in DOMAIN object : i % 2 = 1 /\ object[i] = k] >>]

RECURSIVE PropsOf(_, _, _)
PropsOf(s, env, code) ==
  CASE code.type = "NONE" -> [s |-> s, props |-> NoProps]
    [] code.type = "OBJECT" -> ObjectProps(s, env, code.properties, NoProps)
    [] code.type = "HOISTED" ->
         PropsOf(s, env, s.components[s.inst[env.inst].type].code.hoists[code.index])
    [] code.type = "MERGE" ->
         LET f[i \in 0..Len(code.args)] ==
               IF i = 0 THEN [s |-> s, props |-> NoProps]
               ELSE LET r == PropsOf(f[i - 1].s, env, code.args[i]) IN
                    [r EXCEPT !.props = IF i = 1 THEN @ ELSE MergeProps(f[i - 1].props, @)]
         IN  f[Len(code.args)]
    [] OTHER -> [s |-> TrackExp(s, env, code), props |-> Entries(Value(s, env, code))]   \* v-bind="object"

\* No props, or a v-bind="object" by itself that is undefined: mergeProps always
\* makes an object.
NullProps(s, env, code) ==
  \/ code.type = "NONE"
  \/ code.type \notin {"OBJECT", "HOISTED", "MERGE"} /\ Value(s, env, code) = None

--------------------------------------------------------------------------------
(* Slots: the functions a component is given (buildSlots, createSlots).        *)

SlotFn(nodes, alias, env) == [nodes |-> nodes, alias |-> alias, env |-> env]
NameValue(s, env, name) ==
  IF name.isStatic THEN name.content ELSE Head(Value(s, env, name))
InScope(env, alias, value) == [env EXCEPT !.scope = (alias :> value) @@ @]

TemplateSlot(s, env, template) ==
  LET dir == TheDir(template, "slot")
  IN  NameValue(s, env, SlotName(dir)) :> SlotFn(template.children, dir.alias, env)

\* A template of a v-if is a slot if its condition holds and none before it in
\* the chain does.
Holds(s, env, template, name) ==
  LET exp == TheDir(template, name).exp IN exp = NoExp \/ Truthy(Value(s, env, exp))
ChainStart(node, i) ==
  CHOOSE j \in 1..i : /\ HasDir(node.children[j], "if")
                      /\ \A k \in (j + 1)..i : HasDir(node.children[k], "else")
IsShown(s, env, node, i) ==
  IF HasDir(node.children[i], "if") THEN Holds(s, env, node.children[i], "if")
  ELSE LET start == ChainStart(node, i) IN
       /\ Holds(s, env, node.children[i], "else")
       /\ ~Holds(s, env, node.children[start], "if")
       /\ \A j \in (start + 1)..(i - 1) : ~Holds(s, env, node.children[j], "else")

\* The slots of the first i children of a component; later ones go before.
RECURSIVE StaticSlotsTo(_, _, _, _), DynamicSlotsTo(_, _, _, _)
StaticSlotsTo(s, env, node, i) ==
  IF i = 0 THEN NoProps
  ELSE LET before == StaticSlotsTo(s, env, node, i - 1) IN
       IF i \in StaticSlots(node) THEN before @@ TemplateSlot(s, env, node.children[i]) ELSE before
DynamicSlotsTo(s, env, node, i) ==
  IF i = 0 THEN NoProps
  ELSE LET before == DynamicSlotsTo(s, env, node, i - 1)
           template == node.children[i]
           dir == TheDir(template, "for")
           list == Value(s, env, dir.exp)
           f[k \in 0..Len(list)] ==
             IF k = 0 THEN before
             ELSE TemplateSlot(s, InScope(env, dir.alias, << list[k] >>), template) @@ f[k - 1]
       IN  CASE ~(i \in SlotTemplates(node) /\ IsDynamicSlot(template)) -> before
             [] HasDir(template, "for") -> f[Len(list)]
             [] IsShown(s, env, node, i) -> TemplateSlot(s, env, template) @@ before
             [] OTHER -> before

SlotsOf(s, env, node) ==
  LET n == Len(node.children)
      implicit == ImplicitSlot(node)
      default == "default" :> SlotFn(implicit, "", env)
  IN  IF HasDir(node, "slot")
      THEN LET dir == TheDir(node, "slot") IN
           NameValue(s, env, SlotName(dir)) :> SlotFn(node.children, dir.alias, env)
      ELSE DynamicSlotsTo(s, env, node, n)
           @@ (IF implicit = << >> THEN StaticSlotsTo(s, env, node, n)
               ELSE StaticSlotsTo(s, env, node, n) @@ default)

\* What the names, conditions and lists of the slots depend on: createSlots gets
\* a conditional for each template, and renderList runs at once.
DirVars(s, env, node, name) ==
  IF HasDir(node, name) THEN Vars(s, env, TheDir(node, name).exp) ELSE {}
SlotVars(s, env, node) ==
  UNION {UNION {DirVars(s, env, node.children[i], name) : name \in {"if", "else", "for"}}
         \cup Vars(s, env, SlotNameOf(node, i)) : i \in SlotTemplates(node)}

--------------------------------------------------------------------------------
(* Nodes. *)

\* What a vnode call creates: an element, or what the tag resolves to.
KindOf(s, tag) == CASE tag = "Teleport" -> "Teleport"
                 [] tag \in DOMAIN s.components -> "component"
                 [] OTHER -> "element"
\* resolveDynamicComponent of the value of `is`.
TagOf(s, env, node, code) ==
  IF code.tag # "component" THEN code.tag
  ELSE LET p == Head(IsProps(node)) IN
       Head(IF p.type = "ATTRIBUTE" THEN p.value ELSE Value(s, env, p.exp))
TagReads(s, env, node, code) ==
  IF code.tag = "component" /\ Head(IsProps(node)).type = "DIRECTIVE"
  THEN TrackExp(s, env, Head(IsProps(node)).exp) ELSE s

RECURSIVE BuildNode(_, _, _), BuildNodes(_, _, _, _), BuildItems(_, _, _, _, _),
          BuildVNode(_, _, _, _), BuildCode(_, _, _, _)

\* genNodeList.
BuildNodes(s, env, nodes, done) ==
  IF nodes = << >> THEN [s EXCEPT !.list = done]
  ELSE LET t == BuildNode(s, env, Head(nodes))
       IN  BuildNodes(t, env, Tail(nodes), Append(done, t.ret))

\* renderList of the items of a v-for.
BuildItems(s, env, node, items, done) ==
  IF items = << >> THEN [s EXCEPT !.list = done]
  ELSE LET inner == InScope(env, node.alias, << Head(items) >>)
           t == IF node.item = ChildCode THEN BuildNode(s, inner, node.children[1])
                ELSE BuildVNode(s, inner, node, node.item)
       IN  BuildItems(t, env, node, Tail(items), Append(done, t.ret))

\* genVNodeCall: the block is open while the props and the children are built.
\* withDirectives binds v-show to the vnode.
BuildVNode(s, env, node, code) ==
  LET block == code.isBlock /\ ~s.manual
      tag == TagOf(s, env, node, code)
      opened == IF block THEN OpenBlock(s, code.isForBlock) ELSE s
      p == PropsOf(TagReads(opened, env, node, code), env, code.props)
      built == CASE code.children = "nodes" -> BuildNodes(p.s, env, node.children, << >>)
                 [] code.children = "list" ->
                      BuildItems(TrackExp(p.s, env, node.source), env, node,
                                 Value(p.s, env, node.source), << >>)
                 [] code.children = "text" -> TrackExp(p.s, env, node.children[1])
                 [] code.children = "slots" ->
                      [p.s EXCEPT !.reads = @ \cup SlotVars(p.s, env, node)]
                 [] OTHER -> p.s
      array == code.children \in {"nodes", "list"}
      filled == IF array THEN NewArray(built, built.list) ELSE built
      vnode == [BlankVNode EXCEPT
                  !.type = tag, !.kind = IF tag = "Fragment" THEN tag ELSE KindOf(s, tag),
                  !.props = p.props, !.nullProps = NullProps(s, env, code.props),
                  !.ckind = IF array THEN "array" ELSE code.children,
                  !.array = IF array THEN LatestArray(filled) ELSE 0,
                  !.text = IF code.children = "text" THEN Value(p.s, env, node.children[1]) ELSE @,
                  !.slots = IF code.children = "slots" THEN SlotsOf(p.s, env, node) ELSE @,
                  !.stable = code.children = "slots" /\ ~s.manual,
                  !.patchFlag = IF s.manual THEN {} ELSE code.patchFlag,
                  !.dynamicProps = IF s.manual THEN @ ELSE code.dynamicProps]
      made == IF block THEN CreateBlock(filled, vnode) ELSE CreateVNode(filled, vnode, FALSE)
      exps == [i \in DOMAIN code.directives |-> code.directives[i].exp]
  IN  IF exps = << >> THEN Built(made)
      ELSE Built([made EXCEPT !.vn[Latest(made)].dirs = [i \in DOMAIN exps |-> Value(made, env, exps[i])],
                              !.reads = @ \cup UNION {Vars(made, env, exps[i]) : i \in DOMAIN exps}])

\* genConditionalExpression: the first branch whose condition holds.
RECURSIVE BuildIf(_, _, _)
BuildIf(s, env, branches) ==
  IF branches = << >>
  THEN Built(IF s.manual THEN [s EXCEPT !.vn = Append(@, RawNull)] ELSE CreateCommentVNode(s, TRUE))
  ELSE LET branch == Head(branches)
           t == TrackExp(s, env, branch.condition)
       IN  CASE branch.condition # NoExp /\ ~Truthy(Value(s, env, branch.condition)) ->
                  BuildIf(t, env, Tail(branches))
             [] branch.codegenNode = ChildCode -> BuildNode(t, env, branch.children[1])
             [] OTHER -> BuildVNode(t, env, branch, branch.codegenNode)

\* A hand-written v-for is a nested array.
BuildFor(s, env, node) ==
  IF ~s.manual THEN BuildVNode(s, env, node, node.codegenNode)
  ELSE LET t == BuildItems(TrackExp(s, env, node.source), env, node,
                           Value(s, env, node.source), << >>)
           u == NewArray(t, t.list)
       IN  Built([u EXCEPT !.vn = Append(@, RawArray(LatestArray(u)))])

BuildText(s, env, node) ==
  LET flag == IF s.manual \/ node.content.type = "TEXT" THEN {} ELSE {"TEXT"}
  IN  Built(CreateVNode(TrackExp(s, env, node.content),
                        TextVNode(Value(s, env, node.content), flag), FALSE))

\* genCacheExpression: the vnode is built once per instance, with the tracking
\* of blocks off.  By hand, it is rendered again with the values it had.
\* Mutant: the tracking is not turned on again.
BuildOnceUntracked(s, env, node, code) ==
  LET cache == s.inst[env.inst].once
      t == BuildCode(SetBlockTracking(s, -1), env, node, code.value)
  IN  IF s.manual \/ code.index \in DOMAIN cache THEN BuildCode(s, env, node, code.value)
      ELSE [t EXCEPT !.inst[env.inst].once = (code.index :> t.ret) @@ @]

BuildOnce(s, env, node, code) ==
  LET cache == s.inst[env.inst].once
      kept == IF code.index \in DOMAIN cache THEN cache[code.index]
              ELSE env.scope @@ s.store @@ s.inst[env.inst].props
  IN  CASE s.manual ->
             BuildCode([s EXCEPT !.inst[env.inst].once = (code.index :> kept) @@ @],
                       [env EXCEPT !.scope = kept], node, code.value)
        [] code.index \in DOMAIN cache -> Ret(s, cache[code.index])
        [] OTHER ->
             LET t == BuildCode(SetBlockTracking(s, -1), env, node, code.value) IN
             SetBlockTracking([t EXCEPT !.inst[env.inst].once = (code.index :> t.ret) @@ @], 1)

\* The content of a slot runs as part of the instance whose template it is in
\* (withCtx).  Hand-written slots are normalized.
RECURSIVE NormalizeEach(_, _, _)
NormalizeEach(s, list, done) ==
  IF list = << >> THEN [s EXCEPT !.list = done]
  ELSE LET r == NormalizeVNode(s, Head(list)) IN NormalizeEach(r.s, Tail(list), Append(done, r.v))
CallSlot(s, slot, props, normalized) ==
  LET env == IF slot.alias = "" THEN slot.env
             ELSE InScope(slot.env, slot.alias, Prop(props, slot.alias))
      t == BuildNodes([s EXCEPT !.rendering = slot.env.inst], env, slot.nodes, << >>)
      u == IF normalized THEN NormalizeEach(t, t.list, << >>) ELSE t
  IN  [u EXCEPT !.rendering = s.rendering]

\* renderSlot: a block that is stable if the slots are compiled.
RenderSlot(s, env, node, code) ==
  LET slots == s.inst[env.inst].slots
      compiled == s.inst[env.inst].compiledSlots
      p == PropsOf(IF s.manual THEN s ELSE OpenBlock(s, FALSE), env, code.props)
      name == NameValue(p.s, env, code.name)
      t == IF name \in DOMAIN slots THEN CallSlot(p.s, slots[name], p.props, ~compiled)
           ELSE BuildNodes(p.s, env, node.children, << >>)
      u == NewArray(t, t.list)
      flag == IF s.manual THEN {} ELSE IF compiled THEN {"STABLE_FRAGMENT"} ELSE {"BAIL"}
      vnode == FragmentVNode("key" :> Prop(p.props, "key"), LatestArray(u), flag)
  IN  Built(IF s.manual THEN CreateVNode(u, vnode, FALSE) ELSE CreateBlock(u, vnode))

Hoisted(s, env, index) ==
  LET type == s.inst[env.inst].type IN
  IF ~s.manual THEN Ret(s, s.hoisted[type][index])
  ELSE BuildNode(s, env, s.components[type].code.hoists[index])

\* genNode of the code of an element.
BuildCode(s, env, node, code) ==
  CASE code.type = "VNODE_CALL" -> BuildVNode(s, env, node, code)
    [] code.type = "HOISTED" -> Hoisted(s, env, code.index)
    [] code.type = "CACHE" -> BuildOnce(s, env, node, code)
    [] code.type = "RENDER_SLOT" -> RenderSlot(s, env, node, code)

BuildNode(s, env, node) ==
  CASE node.type = "ELEMENT" -> BuildCode(s, env, node, node.codegenNode)
    [] node.type = "IF" -> BuildIf(s, env, node.branches)
    [] node.type = "FOR" -> BuildFor(s, env, node)
    [] node.type = "TEXT_CALL" /\ node.codegenNode # ChildCode ->
         Hoisted(s, env, node.codegenNode.index)
    [] OTHER -> BuildText(s, env, node)

\* The hoisted vnodes of a component are created with its module.  Props that
\* are hoisted need no state.
IsVNode(hoist) == hoist.type \in {"ELEMENT", "TEXT_CALL"}
RECURSIVE BuildHoists(_, _, _)
BuildHoists(s, hoists, done) ==
  IF hoists = << >> THEN [s EXCEPT !.list = done]
  ELSE LET t == IF IsVNode(Head(hoists))
                THEN BuildNode(s, [inst |-> 0, scope |-> NoProps], Head(hoists)) ELSE Ret(s, 0)
       IN  BuildHoists(t, Tail(hoists), Append(done, t.ret))
================================================================================
