-------------------------------- MODULE Compile --------------------------------
(***************************************************************************)
(* The transforms of compiler-core: from the tree the parser returns to    *)
(* one whose elements have a codegenNode, with the patch flags, blocks,    *)
(* hoists and caches that the renderer relies on.  The build is the one of *)
(* a bundler: identifiers are prefixed, so that scopes are known.          *)
(*                                                                         *)
(* A transform returns a record of the new node and of the context: the    *)
(* identifiers in scope (context.identifiers), the depth of v-for and of   *)
(* v-slot, the hoisted expressions, the number of cache slots, the errors, *)
(* and the options.                                                        *)
(***************************************************************************)
EXTENDS Integers, Sequences, FiniteSets, SequencesExt, TLC

\* The results of Op for the elements of seq, one after the other.
EachOf(Op(_), seq) == FoldLeft(LAMBDA done, x : Append(done, Op(x)), << >>, seq)

--------------------------------------------------------------------------------
(* The tree. *)

NoExp == [type |-> "NONE"]
NoCode == [type |-> "NONE"]
Lit(value) == [type |-> "SIMPLE", content |-> value, isStatic |-> TRUE, isConstant |-> TRUE]
Var(name) == [type |-> "SIMPLE", content |-> name, isStatic |-> FALSE, isConstant |-> FALSE]
Compound(parts) == [type |-> "COMPOUND", children |-> parts]

TextNode(text) == [type |-> "TEXT", content |-> text]
Interpolation(exp) == [type |-> "INTERPOLATION", content |-> exp]
Attr(name, value) == [type |-> "ATTRIBUTE", name |-> name, value |-> value]
\* alias: the variable a v-for or a v-slot declares, "" for none.
Dir(name, arg, exp, alias) ==
  [type |-> "DIRECTIVE", name |-> name, arg |-> arg, exp |-> exp, alias |-> alias]
Element(tag, tagType, props, children) ==
  [type |-> "ELEMENT", tag |-> tag, tagType |-> tagType, props |-> props,
   children |-> children, codegenNode |-> NoCode]

Property(key, value) == [key |-> key, value |-> value]
NoObject == [type |-> "NONE"]
Object(properties) == [type |-> "OBJECT", properties |-> properties]
MergeCall(args) == [type |-> "MERGE", args |-> args]

\* createVNodeCall.  The children are those of the node the code belongs to:
\* "none", "nodes", "text" (its only child), "slots" or "list" (of a v-for).
VNodeCall(tag, props, children, flag, dynamicProps, directives, isBlock, isForBlock) ==
  [type |-> "VNODE_CALL", tag |-> tag, props |-> props, children |-> children,
   patchFlag |-> flag, dynamicProps |-> dynamicProps, directives |-> directives,
   isBlock |-> isBlock, isForBlock |-> isForBlock]
FragmentCall(props) ==
  VNodeCall("Fragment", props, "nodes", {"STABLE_FRAGMENT"}, << >>, << >>, TRUE, FALSE)
\* The code of a branch, an item or a root that is the code of its only child.
ChildCode == [type |-> "CHILD"]

--------------------------------------------------------------------------------
(* utils.ts *)

IsDir(p, name) == p.type = "DIRECTIVE" /\ p.name = name
HasDir(node, name) == \E i \in DOMAIN node.props : IsDir(node.props[i], name)
TheDir(node, name) ==
  node.props[CHOOSE i \in DOMAIN node.props :
               /\ IsDir(node.props[i], name)
               /\ \A j \in 1..(i - 1) : ~IsDir(node.props[j], name)]
WithoutDir(node, name) ==
  [node EXCEPT !.props = SelectSeq(@, LAMBDA p : ~IsDir(p, name))]

IsBindKey(p, name) ==
  IsDir(p, "bind") /\ p.arg.type = "SIMPLE" /\ p.arg.isStatic /\ p.arg.content = name
\* findProp, of the attributes and bindings or of the bindings only.
PropsNamed(node, name, dynamicOnly) ==
  SelectSeq(node.props, LAMBDA p :
    \/ p.type = "ATTRIBUTE" /\ ~dynamicOnly /\ p.name = name
    \/ IsBindKey(p, name) /\ p.exp # NoExp)

IsText(node) == node.type \in {"INTERPOLATION", "TEXT"}
IsTemplate(node) == node.type = "ELEMENT" /\ node.tagType = "TEMPLATE"
IsSlotOutlet(node) == node.type = "ELEMENT" /\ node.tagType = "SLOT"

\* hasScopeRef: whether what node evaluates depends on one of the identifiers.
RECURSIVE HasScopeRef(_, _)
HasScopeRef(node, ids) ==
  LET some(nodes) == \E i \in DOMAIN nodes : HasScopeRef(nodes[i], ids) IN
  /\ ids # {}
  /\ CASE node.type = "ELEMENT" ->
            \/ \E i \in DOMAIN node.props :
                 /\ node.props[i].type = "DIRECTIVE"
                 /\ HasScopeRef(node.props[i].arg, ids) \/ HasScopeRef(node.props[i].exp, ids)
            \/ some(node.children)
       [] node.type = "FOR" -> HasScopeRef(node.source, ids) \/ some(node.children)
       [] node.type = "IF" -> some(node.branches)
       [] node.type = "IF_BRANCH" -> HasScopeRef(node.condition, ids) \/ some(node.children)
       [] node.type = "SIMPLE" -> ~node.isStatic /\ node.content \in ids
       [] node.type = "COMPOUND" -> some(node.children)
       [] node.type \in {"INTERPOLATION", "TEXT_CALL"} -> HasScopeRef(node.content, ids)
       [] OTHER -> FALSE

\* injectProp: the key of a branch or of an item goes first into the props, of
\* a vnode or of a slot outlet.  Other code has none: the compiler throws.
InjectInto(props, prop) ==
  CASE props.type = "NONE" -> Object(<< prop >>)
    [] props.type = "MERGE" ->
         IF Head(props.args).type = "OBJECT"
         THEN MergeCall(<< Object(<< prop >> \o Head(props.args).properties) >> \o Tail(props.args))
         ELSE MergeCall(<< Object(<< prop >>) >> \o props.args)
    [] props.type = "OBJECT" ->
         IF \E i \in DOMAIN props.properties : /\ props.properties[i].key.type = "SIMPLE"
                                              /\ props.properties[i].key.content = prop.key.content
         THEN props ELSE Object(<< prop >> \o props.properties)
    [] OTHER -> MergeCall(<< Object(<< prop >>), props >>)
Injectable(code) == code.type \in {"VNODE_CALL", "RENDER_SLOT"}
InjectProp(code, prop) == [code EXCEPT !.props = InjectInto(@, prop)]

--------------------------------------------------------------------------------
(* transformElement.ts: props, and what may change in them.                    *)

\* The key of v-on:arg.
EventKey(arg) == IF arg = "click" THEN "onClick" ELSE "onFocus"

\* A v-on handler that needs nothing of the scope is cached.
Cacheable(ctx, exp) == ctx.cacheHandlers /\ ~HasScopeRef(exp, ToSet(ctx.ids))

Handler(exp) == [type |-> "HANDLER", exp |-> exp]
CacheCode(index, value, isVNode) ==
  [type |-> "CACHE", index |-> index, value |-> value, isVNode |-> isVNode]

\* A handler, and the context: the cache grows if it is cached.
HandlerCode(ctx, exp) ==
  IF Cacheable(ctx, exp)
  THEN [ctx |-> [ctx EXCEPT !.cached = @ + 1], code |-> CacheCode(ctx.cached + 1, Handler(exp), FALSE)]
  ELSE [ctx |-> ctx, code |-> Handler(exp)]

\* The properties a prop contributes to the object, and the context: a static
\* attribute, transformBind, transformOn and transformModel (of a component).
PropertyOf(ctx, p) ==
  CASE p.type = "ATTRIBUTE" ->
         [ctx |-> ctx, props |-> << Property(Lit(p.name), Lit(p.value)) >>]
    [] IsDir(p, "bind") ->
         [ctx |-> ctx, props |-> << Property(p.arg, p.exp) >>]
    [] IsDir(p, "on") ->
         LET h == HandlerCode(ctx, p.exp) IN
         [ctx |-> h.ctx, props |-> << Property(Lit(EventKey(p.arg.content)), h.code) >>]
    [] IsDir(p, "model") ->
         IF p.exp.content \in ToSet(ctx.ids)
         THEN [ctx |-> [ctx EXCEPT !.errors = @ \cup {"X_V_MODEL_ON_SCOPE_VARIABLE"}],
               props |-> << >>]
         ELSE LET h == HandlerCode(ctx, p.exp) IN
              [ctx |-> h.ctx,
               props |-> << Property(Lit("modelValue"), p.exp),
                            Property(Lit("onUpdate:modelValue"), h.code) >>]

\* dedupeProperties: later values of a class, a style or an event join the
\* first; of another key, they are dropped.
IsMerged(name) == name \in {"class", "style", "onClick", "onFocus"}
Joined(p, q) ==
  [p EXCEPT !.value = IF @.type = "ARRAY" THEN [@ EXCEPT !.elements = Append(@, q.value)]
                      ELSE [type |-> "ARRAY", elements |-> << p.value, q.value >>]]
RECURSIVE Dedupe(_, _)
Dedupe(properties, done) ==
  IF properties = << >> THEN done
  ELSE LET p == Head(properties)
           same == {i \in DOMAIN done : done[i].key.isStatic /\ done[i].key.content = p.key.content}
       IN  IF ~p.key.isStatic \/ same = {} THEN Dedupe(Tail(properties), Append(done, p))
           ELSE LET i == CHOOSE i \in same : TRUE IN
                Dedupe(Tail(properties), IF IsMerged(p.key.content)
                                         THEN [done EXCEPT ![i] = Joined(@, p)] ELSE done)

\* getStaticType of an expression: whether its value never changes.
IsConstantExp(exp) ==
  CASE exp.type = "SIMPLE" -> exp.isConstant
    [] exp.type = "COMPOUND" ->
         \A i \in DOMAIN exp.children :
           CASE exp.children[i].type = "TEXT" -> TRUE
             [] exp.children[i].type = "INTERPOLATION" -> exp.children[i].content.isConstant
             [] OTHER -> exp.children[i].isConstant
    [] OTHER -> FALSE

\* analyzePatchFlag: what a property of the object, p, lets change.
Analyze(b, p, isComponent) ==
  LET name == p.key.content
      constant == p.value.type = "CACHE" \/ IsConstantExp(p.value)
      c == IF p.key.isStatic /\ ~isComponent /\ name = "onFocus"
           THEN [b EXCEPT !.hasHydrationEvent = TRUE] ELSE b
  IN  CASE ~p.key.isStatic -> [c EXCEPT !.hasDynamicKeys = TRUE]
        [] constant -> c
        [] name = "ref" -> [c EXCEPT !.hasRef = TRUE]
        [] name = "class" /\ ~isComponent -> [c EXCEPT !.hasClass = TRUE]
        [] name = "style" /\ ~isComponent -> [c EXCEPT !.hasStyle = TRUE]
        [] name = "key" \/ name \in ToSet(b.dynamicProps) -> c
        [] OTHER -> [c EXCEPT !.dynamicProps = Append(@, name)]
RECURSIVE AnalyzeEach(_, _, _)
AnalyzeEach(b, props, isComponent) ==
  IF props = << >> THEN b
  ELSE AnalyzeEach(Analyze(b, Head(props), isComponent), Tail(props), isComponent)

\* buildProps, one prop after the other: b collects what the code's variables
\* of these names do.
BuildProp(b, p, node) ==
  LET isComponent == node.tagType = "COMPONENT" IN
  CASE IsDir(p, "slot") ->
         IF isComponent THEN b
         ELSE [b EXCEPT !.ctx.errors = @ \cup {"X_V_SLOT_MISPLACED"}]
    [] IsDir(p, "once") -> b
    [] node.tag = "component" /\ (IsBindKey(p, "is") \/ (p.type = "ATTRIBUTE" /\ p.name = "is")) -> b
    [] IsDir(p, "bind") /\ p.arg = NoExp ->    \* v-bind="object"
         [b EXCEPT !.hasDynamicKeys = TRUE, !.properties = << >>,
                   !.mergeArgs = (IF b.properties = << >> THEN @
                                  ELSE Append(@, Object(Dedupe(b.properties, << >>))))
                                 \o << p.exp >>]
    [] p.type = "DIRECTIVE" /\ p.name \notin {"bind", "on", "model"} ->   \* a custom one
         [b EXCEPT !.directives = Append(@, p)]
    [] OTHER ->
         LET r == PropertyOf(b.ctx, p)
             c == [b EXCEPT !.ctx = r.ctx, !.properties = @ \o r.props]
         IN  CASE p.type = "DIRECTIVE" -> AnalyzeEach(c, r.props, isComponent)
               [] p.name = "ref" -> [c EXCEPT !.hasRef = TRUE]
               [] OTHER -> c

RECURSIVE BuildEach(_, _, _)
BuildEach(b, props, node) ==
  IF props = << >> THEN b ELSE BuildEach(BuildProp(b, Head(props), node), Tail(props), node)

PropsExpression(b) ==
  LET object == Object(Dedupe(b.properties, << >>))
      args == IF b.properties = << >> THEN b.mergeArgs ELSE Append(b.mergeArgs, object)
  IN  CASE b.mergeArgs = << >> /\ b.properties = << >> -> NoObject
        [] b.mergeArgs = << >> -> object
        [] Len(args) > 1 -> MergeCall(args)
        [] OTHER -> args[1]

FlagsOf(b) ==
  LET flags == IF b.hasDynamicKeys THEN {"FULL_PROPS"}
               ELSE (IF b.hasClass THEN {"CLASS"} ELSE {})
                    \cup (IF b.hasStyle THEN {"STYLE"} ELSE {})
                    \cup (IF b.dynamicProps # << >> THEN {"PROPS"} ELSE {})
                    \cup (IF b.hasHydrationEvent THEN {"HYDRATE_EVENTS"} ELSE {})
  IN  IF flags \subseteq {"HYDRATE_EVENTS"} /\ (b.hasRef \/ b.directives # << >>)
      THEN flags \cup {"NEED_PATCH"} ELSE flags

BuildProps(ctx, node, props) ==
  LET b == BuildEach([ctx |-> ctx, properties |-> << >>, mergeArgs |-> << >>,
                      directives |-> << >>, dynamicProps |-> << >>,
                      hasRef |-> FALSE, hasClass |-> FALSE, hasStyle |-> FALSE,
                      hasHydrationEvent |-> FALSE, hasDynamicKeys |-> FALSE],
                     props, node)
  IN  [ctx |-> b.ctx, props |-> PropsExpression(b), patchFlag |-> FlagsOf(b),
       dynamicProps |-> b.dynamicProps, directives |-> b.directives]

--------------------------------------------------------------------------------
(* transformText.ts, vSlot.ts, transformElement.ts, transformSlotOutlet.ts and *)
(* vOnce.ts: what the transforms do to a node whose children are done.         *)

\* Adjacent text becomes one expression.
RECURSIVE MergeText(_, _)
MergeText(done, rest) ==
  IF rest = << >> THEN done
  ELSE LET node == Head(rest)
           text == done # << >> /\ IsText(node) /\ (IsText(Last(done)) \/ Last(done).type = "COMPOUND")
           before == IF IsText(Last(done)) THEN << Last(done) >> ELSE Last(done).children
       IN  MergeText(IF text THEN Append(Front(done), Compound(Append(before, node)))
                             ELSE Append(done, node), Tail(rest))

\* Text becomes a call, unless it is all there is in an element or in the root.
TransformText(children, plain) ==
  LET merged == MergeText(<< >>, children)
      text(node) == IsText(node) \/ node.type = "COMPOUND"
      call(node) == IF text(node) THEN [type |-> "TEXT_CALL", content |-> node,
                                        codegenNode |-> ChildCode] ELSE node
  IN  IF plain /\ Len(merged) = 1 THEN merged ELSE EachOf(call, merged)

IsSlotTemplate(node) == IsTemplate(node) /\ HasDir(node, "slot")
SlotName(dir) == IF dir.arg = NoExp THEN Lit("default") ELSE dir.arg
\* A template of a component that takes part in v-if or v-for.
IsDynamicSlot(node) ==
  IsSlotTemplate(node) /\ (HasDir(node, "if") \/ HasDir(node, "else") \/ HasDir(node, "for"))

\* buildSlots: the content of the component's own v-slot, or of the templates
\* and, if there is more, of the default slot.
SlotTemplates(node) == {i \in DOMAIN node.children : IsSlotTemplate(node.children[i])}
ImplicitSlot(node) == SelectSeq(node.children, LAMBDA c : ~IsSlotTemplate(c))
StaticSlots(node) ==
  {i \in SlotTemplates(node) : ~IsDynamicSlot(node.children[i])}
SlotNameOf(node, i) == SlotName(TheDir(node.children[i], "slot"))
SlotErrors(node) ==
  {e \in {"X_V_SLOT_MIXED_SLOT_USAGE", "X_V_SLOT_DUPLICATE_SLOT_NAMES",
          "X_V_SLOT_EXTRANEOUS_DEFAULT_SLOT_CHILDREN", "X_V_ELSE_NO_ADJACENT_IF"} :
     CASE e = "X_V_SLOT_MIXED_SLOT_USAGE" -> HasDir(node, "slot") /\ SlotTemplates(node) # {}
       [] e = "X_V_SLOT_DUPLICATE_SLOT_NAMES" ->
            \E i, j \in StaticSlots(node) : /\ i # j
                                            /\ SlotNameOf(node, i).isStatic
                                            /\ SlotNameOf(node, i) = SlotNameOf(node, j)
       [] e = "X_V_SLOT_EXTRANEOUS_DEFAULT_SLOT_CHILDREN" ->
            /\ ImplicitSlot(node) # << >>
            /\ \E i \in StaticSlots(node) : SlotNameOf(node, i) = Lit("default")
       [] OTHER ->
            \E i \in SlotTemplates(node) :
              /\ HasDir(node.children[i], "else")
              /\ ~(i - 1 \in SlotTemplates(node) /\ (HasDir(node.children[i - 1], "if") \/ HasDir(node.children[i - 1], "else")))}
HasDynamicSlots(ctx, node) ==
  \/ HasScopeRef(node, ToSet(ctx.ids))
  \/ ~HasDir(node, "slot") /\ \E i \in SlotTemplates(node) :
       IsDynamicSlot(node.children[i]) \/ ~SlotNameOf(node, i).isStatic

\* resolveComponentType: <component is> is resolved when it is rendered.
IsProps(node) == IF node.tag = "component" THEN PropsNamed(node, "is", FALSE) ELSE << >>

\* transformElement.
ElementCode(ctx, node) ==
  LET isComponent == node.tagType = "COMPONENT"
      b == BuildProps(ctx, node, node.props)
      kids == node.children
      keepAlive == node.tag = "KeepAlive" /\ kids # << >>
      asSlots == isComponent /\ node.tag \notin {"Teleport", "KeepAlive"} /\ kids # << >>
      only == kids # << >> /\ Len(kids) = 1 /\ node.tag # "Teleport" /\ ~asSlots
      dynamicText == only /\ kids[1].type \in {"INTERPOLATION", "COMPOUND"}
      constant == IF kids[1].type = "INTERPOLATION" THEN kids[1].content.isConstant
                  ELSE IsConstantExp(kids[1])
      useBlock == \/ IsProps(node) # << >>
                  \/ ~isComponent /\ (node.tag = "svg" \/ PropsNamed(node, "key", TRUE) # << >>)
                  \/ keepAlive
      flag == b.patchFlag
              \cup (IF keepAlive \/ (asSlots /\ HasDynamicSlots(ctx, node)) THEN {"DYNAMIC_SLOTS"} ELSE {})
              \cup (IF dynamicText /\ ~constant THEN {"TEXT"} ELSE {})
      children == CASE kids = << >> -> "none"
                    [] asSlots -> "slots"
                    [] dynamicText \/ (only /\ kids[1].type = "TEXT") -> "text"
                    [] OTHER -> "nodes"
  IN  [ctx |-> IF asSlots THEN [b.ctx EXCEPT !.errors = @ \cup SlotErrors(node)] ELSE b.ctx,
       node |-> [node EXCEPT !.codegenNode =
                   VNodeCall(node.tag, b.props, children, flag, b.dynamicProps,
                             b.directives, useBlock, FALSE)]]

\* transformSlotOutlet, before the children: <slot :name>, what it passes, and
\* its children as the fallback.
SlotOutletCode(ctx, node) ==
  LET names == PropsNamed(node, "name", FALSE)
      name == CASE names = << >> -> Lit("default")
                [] Head(names).type = "ATTRIBUTE" -> Lit(Head(Head(names).value))
                [] OTHER -> Head(names).exp
      b == BuildProps(ctx, node, SelectSeq(node.props, LAMBDA p : names = << >> \/ p # Head(names)))
      misplaced == IF b.directives = << >> THEN {}
                   ELSE {"X_V_SLOT_UNEXPECTED_DIRECTIVE_ON_SLOT_OUTLET"}
  IN  [ctx |-> [b.ctx EXCEPT !.errors = @ \cup misplaced],
       node |-> [node EXCEPT !.codegenNode = [type |-> "RENDER_SLOT", name |-> name,
                                              props |-> b.props]]]

\* transformOnce: the code runs once, with the tracking of blocks off.
OnceCode(ctx, node) ==
  [ctx |-> [ctx EXCEPT !.cached = @ + 1],
   node |-> [node EXCEPT !.codegenNode = CacheCode(ctx.cached + 1, @, TRUE)]]

--------------------------------------------------------------------------------
(* vIf.ts and vFor.ts.                                                         *)

IsStructural(node, name) == node.type = "ELEMENT" /\ ~IsSlotTemplate(node) /\ HasDir(node, name)
Contents(node) == IF IsTemplate(node) THEN node.children ELSE << node >>

\* createChildrenCodegenNode: the code of a branch is a block with the branch's
\* number as its key.  Code that takes no props throws.
BranchCode(ctx, branch, index) ==
  LET key == Property(Lit("key"), Lit(<< ToString(index) >>))
      kids == branch.children
      code == kids[1].codegenNode
      child(new) == [branch EXCEPT !.children[1].codegenNode = new, !.codegenNode = ChildCode]
  IN  CASE Len(kids) # 1 \/ kids[1].type \notin {"ELEMENT", "FOR"} ->
             [ctx |-> ctx, branch |-> [branch EXCEPT !.codegenNode = FragmentCall(Object(<< key >>))]]
        [] ~Injectable(code) ->
             [ctx |-> [ctx EXCEPT !.errors = @ \cup {"TypeError"}], branch |-> child(code)]
        [] code.type = "VNODE_CALL" /\ kids[1].type = "ELEMENT"
              /\ (kids[1].tagType # "COMPONENT" \/ code.tag = "Teleport") ->
             [ctx |-> ctx, branch |-> child(InjectProp([code EXCEPT !.isBlock = TRUE], key))]
        [] OTHER -> [ctx |-> ctx, branch |-> child(InjectProp(code, key))]

\* transformFor: a fragment of the items, each a block.
KeyProps(node) == PropsNamed(node, "key", FALSE)
ForFlag(node) == IF KeyProps(node) # << >> THEN {"KEYED_FRAGMENT"} ELSE {"UNKEYED_FRAGMENT"}
KeyOf(node) ==
  LET p == Head(KeyProps(node)) IN
  Property(Lit("key"), IF p.type = "ATTRIBUTE" THEN Lit(p.value) ELSE p.exp)
ItemCode(node, kids) ==
  LET keyed == KeyProps(node) # << >>
      code == kids[1].codegenNode
      child(new) == [kids |-> [kids EXCEPT ![1].codegenNode = new], code |-> ChildCode]
  IN  CASE Len(kids) = 1 /\ IsSlotOutlet(kids[1]) ->
             child(IF IsTemplate(node) /\ keyed THEN InjectProp(code, KeyOf(node)) ELSE code)
        [] Len(kids) > 1 \/ kids[1].type # "ELEMENT" ->
             [kids |-> kids,
              code |-> FragmentCall(IF keyed THEN Object(<< KeyOf(node) >>) ELSE NoObject)]
        [] code.type = "VNODE_CALL" -> child([code EXCEPT !.isBlock = TRUE])
        [] OTHER -> child(code)

--------------------------------------------------------------------------------
(* transform.ts: each node on the way down and up, the transforms of           *)
(* getBaseTransformPreset in their order.                                      *)

RECURSIVE TraverseNode(_, _), TraverseChildren(_, _, _)

\* A branch: its children, then its text, then its code.
TraverseBranch(ctx, node, condition, index) ==
  LET r == TraverseChildren(ctx, << >>, Contents(node)) IN
  BranchCode(r.ctx, [type |-> "IF_BRANCH", condition |-> condition, codegenNode |-> NoCode,
                     children |-> TransformText(r.nodes, FALSE)], index)

TraverseFor(ctx, node, dir) ==
  LET r == TraverseChildren([ctx EXCEPT !.ids = Append(@, dir.alias)], << >>, Contents(node))
      item == ItemCode(node, TransformText(r.nodes, FALSE))
  IN  [ctx |-> [r.ctx EXCEPT !.ids = ctx.ids],
       node |-> [type |-> "FOR", source |-> dir.exp, alias |-> dir.alias,
                 children |-> item.kids, item |-> item.code,
                 codegenNode |-> VNodeCall("Fragment", NoObject, "list", ForFlag(node),
                                           << >>, << >>, TRUE, TRUE)]]

\* trackSlotScopes and trackVForSlotScopes: what the children of node see.
ScopeOf(node) ==
  (IF IsSlotTemplate(node) /\ HasDir(node, "for") THEN << TheDir(node, "for").alias >> ELSE << >>)
  \o (IF node.tagType \in {"COMPONENT", "TEMPLATE"} /\ HasDir(node, "slot")
      THEN << TheDir(node, "slot").alias >> ELSE << >>)

TraverseElement(ctx, node) ==
  LET entered == IF IsSlotOutlet(node) THEN SlotOutletCode(ctx, node) ELSE [ctx |-> ctx, node |-> node]
      r == TraverseChildren([entered.ctx EXCEPT !.ids = @ \o ScopeOf(node)], << >>, node.children)
      back == [r.ctx EXCEPT !.ids = ctx.ids]
      inner == [entered.node EXCEPT !.children =
                  TransformText(r.nodes, node.tagType = "ELEMENT")]
      made == IF node.tagType \in {"ELEMENT", "COMPONENT"} THEN ElementCode(back, inner)
              ELSE [ctx |-> back, node |-> inner]
  IN  IF HasDir(node, "once") /\ made.node.codegenNode # NoCode
      THEN OnceCode(made.ctx, made.node) ELSE made

TraverseNode(ctx, node) ==
  CASE IsStructural(node, "if") ->
         LET r == TraverseBranch(ctx, WithoutDir(node, "if"), TheDir(node, "if").exp, 0) IN
         [ctx |-> r.ctx, node |-> [type |-> "IF", branches |-> << r.branch >>]]
    [] IsStructural(node, "for") -> TraverseFor(ctx, WithoutDir(node, "for"), TheDir(node, "for"))
    [] node.type = "ELEMENT" -> TraverseElement(ctx, node)
    [] OTHER -> [ctx |-> ctx, node |-> node]

\* A v-else (with a condition: v-else-if) joins the v-if before it.
TraverseChildren(ctx, done, rest) ==
  IF rest = << >> THEN [ctx |-> ctx, nodes |-> done]
  ELSE LET node == Head(rest)
           bare == WithoutDir(node, "else")
           before == Last(done)
       IN  CASE ~IsStructural(node, "else") ->
                  LET r == TraverseNode(ctx, node) IN
                  TraverseChildren(r.ctx, Append(done, r.node), Tail(rest))
             [] done # << >> /\ before.type = "IF" ->
                  LET r == TraverseBranch(ctx, bare, TheDir(node, "else").exp, Len(before.branches)) IN
                  TraverseChildren(r.ctx,
                    Append(Front(done), [before EXCEPT !.branches = Append(@, r.branch)]), Tail(rest))
             [] OTHER ->
                  LET r == TraverseNode([ctx EXCEPT !.errors = @ \cup {"X_V_ELSE_NO_ADJACENT_IF"}], bare)
                  IN  TraverseChildren(r.ctx, Append(done, r.node), Tail(rest))

--------------------------------------------------------------------------------
(* hoistStatic.ts: what never changes is created once, outside of render.      *)

HasDynamicKeyOrRef(node) ==
  PropsNamed(node, "key", TRUE) # << >> \/ PropsNamed(node, "ref", TRUE) # << >>
HasCachedProps(node) ==
  LET props == node.codegenNode.props IN
  /\ props.type = "OBJECT"
  /\ \E i \in DOMAIN props.properties :
       LET value == props.properties[i].value IN
       \/ value.type = "CACHE"
       \/ value.type = "ARRAY" /\ \E j \in DOMAIN value.elements : value.elements[j].type = "CACHE"

RECURSIVE IsStatic(_)
IsStatic(node) ==    \* getStaticType(node) > 0
  CASE node.type = "ELEMENT" ->
         /\ node.tagType = "ELEMENT"
         /\ node.codegenNode.type = "VNODE_CALL"
         /\ node.codegenNode.patchFlag = {} /\ ~HasDynamicKeyOrRef(node) /\ ~HasCachedProps(node)
         /\ \A i \in DOMAIN node.children : IsStatic(node.children[i])
    [] node.type = "TEXT" -> TRUE
    [] node.type = "TEXT_CALL" -> IsStatic(node.content)
    [] node.type = "INTERPOLATION" -> IsConstantExp(node.content)
    [] node.type = "COMPOUND" -> IsConstantExp(node)
    [] OTHER -> FALSE

\* A static element is no block.
RECURSIVE Unblocked(_)
Unblocked(node) ==
  IF node.type # "ELEMENT" THEN node
  ELSE [node EXCEPT !.codegenNode.isBlock = FALSE,
                    !.children = EachOf(Unblocked, @)]

HoistedCode(index) == [type |-> "HOISTED", index |-> index]
Hoist(ctx, what) == [ctx EXCEPT !.hoists = Append(@, what)]

\* Whether the props of an element that changes are themselves static.
HasStaticProps(node) ==
  /\ node.codegenNode.type = "VNODE_CALL"
  /\ node.codegenNode.patchFlag \in {{}, {"NEED_PATCH"}, {"TEXT"}}
  /\ ~HasDynamicKeyOrRef(node) /\ ~HasCachedProps(node)
  /\ node.codegenNode.props # NoObject

\* walk, of a node and of a list of nodes.
RECURSIVE Walk(_, _, _), WalkEach(_, _, _, _), WalkBranches(_, _, _)
Walk(ctx, node, doNotHoist) ==
  LET next == Len(ctx.hoists) + 1
      plain == node.type = "ELEMENT" /\ node.tagType = "ELEMENT"
  IN  CASE plain /\ ~doNotHoist /\ IsStatic(node) ->
             LET static == [Unblocked(node) EXCEPT !.codegenNode.patchFlag = {"HOISTED"}] IN
             [ctx |-> Hoist(ctx, static), node |-> [static EXCEPT !.codegenNode = HoistedCode(next)]]
        [] node.type = "TEXT_CALL" /\ IsStatic(node) ->
             [ctx |-> Hoist(ctx, node), node |-> [node EXCEPT !.codegenNode = HoistedCode(next)]]
        [] node.type = "ELEMENT" ->
             LET static == plain /\ HasStaticProps(node)
                 r == WalkEach(IF static THEN Hoist(ctx, node.codegenNode.props) ELSE ctx,
                               << >>, node.children, FALSE)
                 kept == [node EXCEPT !.children = r.nodes]
             IN  [ctx |-> r.ctx,
                  node |-> IF static THEN [kept EXCEPT !.codegenNode.props = HoistedCode(next)]
                                     ELSE kept]
        [] node.type = "FOR" ->
             LET r == WalkEach(ctx, << >>, node.children, Len(node.children) = 1) IN
             [ctx |-> r.ctx, node |-> [node EXCEPT !.children = r.nodes]]
        [] node.type = "IF" ->
             LET r == WalkBranches(ctx, << >>, node.branches) IN
             [ctx |-> r.ctx, node |-> [node EXCEPT !.branches = r.nodes]]
        [] OTHER -> [ctx |-> ctx, node |-> node]
\* The templates of a v-else have left the children of their component.
WalkEach(ctx, done, rest, doNotHoist) ==
  IF rest = << >> THEN [ctx |-> ctx, nodes |-> done]
  ELSE LET node == Head(rest)
           r == IF node.type = "ELEMENT" /\ IsSlotTemplate(node) /\ HasDir(node, "else")
                THEN [ctx |-> ctx, node |-> node] ELSE Walk(ctx, node, doNotHoist)
       IN  WalkEach(r.ctx, Append(done, r.node), Tail(rest), doNotHoist)
WalkBranches(ctx, done, rest) ==
  IF rest = << >> THEN [ctx |-> ctx, nodes |-> done]
  ELSE LET kids == Head(rest).children
           r == WalkEach(ctx, << >>, kids, Len(kids) = 1)
       IN  WalkBranches(r.ctx, Append(done, [Head(rest) EXCEPT !.children = r.nodes]), Tail(rest))

\* createRootCodegen.  The only element of the root is a block.
IsSingleElementRoot(kids) == Len(kids) = 1 /\ kids[1].type = "ELEMENT" /\ ~IsSlotOutlet(kids[1])
RootCode(kids) ==
  CASE IsSingleElementRoot(kids) /\ kids[1].codegenNode.type = "VNODE_CALL" ->
         [children |-> [kids EXCEPT ![1].codegenNode.isBlock = TRUE], codegenNode |-> ChildCode]
    [] Len(kids) = 1 -> [children |-> kids, codegenNode |-> ChildCode]
    [] kids = << >> -> [children |-> kids, codegenNode |-> NoCode]
    [] OTHER -> [children |-> kids, codegenNode |-> FragmentCall(NoObject)]

\* baseCompile, without the parser and the generator: the root, with what it
\* hoists and the errors it reports.
Transform(children, cacheHandlers) ==
  LET ctx == [ids |-> << >>, cached |-> 0, hoists |-> << >>, errors |-> {},
              cacheHandlers |-> cacheHandlers]
      r == TraverseChildren(ctx, << >>, children)
      text == TransformText(r.nodes, TRUE)
      w == WalkEach(r.ctx, << >>, text, IsSingleElementRoot(text))
      root == RootCode(w.nodes)
  IN  [children |-> root.children, codegenNode |-> root.codegenNode,
       hoists |-> w.ctx.hoists, errors |-> w.ctx.errors]
================================================================================
