-------------------------------- MODULE Instance --------------------------------
(***************************************************************************)
(* Component instances: how props, attrs and slots are taken from the      *)
(* vnode of a component (componentProps.ts, componentSlots.ts), what it    *)
(* renders and when it must render again (componentRenderUtils.ts).        *)
(***************************************************************************)
EXTENDS Codegen

\* vnode.patchFlag & flag: the negative flags have almost every bit set.
HasFlag(flags, flag) ==
  flag \in flags \/ "HOISTED" \in flags \/ ("BAIL" \in flags /\ flag # "TEXT")

\* createComponentInstance.  optimized is that of the patch that mounts it.
NewInstance(type, v, parent, optimized) ==
  [type |-> type, parent |-> parent, vnode |-> v, next |-> 0, subTree |-> 0,
   props |-> NoProps, attrs |-> NoProps, slots |-> NoProps, compiledSlots |-> FALSE,
   optimized |-> optimized, isMounted |-> FALSE, isUnmounted |-> FALSE,
   once |-> NoProps, handlers |-> NoProps, refs |-> NoProps, reads |-> {},
   kept |-> {}]  \* history: the props that are gone and were not reset
Declared(s, type) == s.components[type].props
Update(f, g) == g @@ f
Only(f, keys) == [k \in DOMAIN f \cap keys |-> f[k]]

--------------------------------------------------------------------------------
(* Props.  A component declares a name of two words in camelCase, its parent   *)
(* passes it so or hyphenated, and not both ways at once.                      *)

Hyphenate(key) == IF key = "subTitle" THEN "sub-title" ELSE key
Camelize(key) == IF key = "sub-title" THEN "subTitle" ELSE key
Passed(raw, key) == IF key \in DOMAIN raw THEN raw[key] ELSE Prop(raw, Hyphenate(key))

DeclaredOf(s, type, raw) ==
  [key \in {Camelize(k) : k \in DOMAIN raw} \cap Declared(s, type) |-> Passed(raw, key)]
AttrsOf(s, type, raw) ==
  Only(raw, {k \in DOMAIN raw \ ReservedProps : Camelize(k) \notin Declared(s, type)})

InitProps(s, i) ==
  LET type == s.inst[i].type
      raw == s.vn[s.inst[i].vnode].props
  IN  [s EXCEPT !.inst[i].props = DeclaredOf(s, type, raw),
                !.inst[i].attrs = AttrsOf(s, type, raw)]

\* Of compiled code only the dynamic props are looked at; a key that is not
\* among the attrs is a prop if the component declares any.  Otherwise all are
\* set, attrs that are gone are deleted, and props that are gone are undefined;
\* but a prop keeps its value if it was not passed under its hyphenated name, or
\* if no props are passed at all (the name to look up is then not computed).
\* Mutant: attrs and props that are gone stay.
UpdatePropsKept(s, i, prevRaw) ==
  LET type == s.inst[i].type
      raw == s.vn[s.inst[i].vnode].props
  IN  [s EXCEPT !.inst[i].props = Update(@, DeclaredOf(s, type, raw)),
                !.inst[i].attrs = Update(@, AttrsOf(s, type, raw))]

UpdateProps(s, i, prevRaw) ==
  LET instance == s.inst[i]
      vnode == s.vn[instance.vnode]
      raw == vnode.props
      declared == DeclaredOf(s, instance.type, raw)
      gone == DOMAIN instance.props \ DOMAIN declared
      reset == {k \in gone : ~vnode.nullProps /\ Prop(prevRaw, Hyphenate(k)) # None}
      dynamic == IF HasFlag(vnode.patchFlag, "PROPS") THEN ToSet(vnode.dynamicProps) ELSE {}
      toAttrs == IF Declared(s, instance.type) = {} THEN dynamic
                 ELSE dynamic \cap DOMAIN instance.attrs
  IN  IF (instance.optimized \/ Positive(vnode.patchFlag)) /\ ~HasFlag(vnode.patchFlag, "FULL_PROPS")
      THEN [s EXCEPT !.inst[i].attrs = Update(@, [k \in toAttrs |-> Prop(raw, k)]),
                     !.inst[i].props = Update(@, [key \in {Camelize(k) : k \in dynamic \ toAttrs} |->
                                                    Passed(raw, key)])]
      ELSE [s EXCEPT !.inst[i].props = Update(Update(@, declared), [k \in reset |-> None]),
                     !.inst[i].attrs = AttrsOf(s, instance.type, raw),
                     !.inst[i].kept = {k \in gone \ reset : instance.props[k] # None}]

--------------------------------------------------------------------------------
(* Slots. *)

InitSlots(s, i) ==
  LET vnode == s.vn[s.inst[i].vnode] IN
  [s EXCEPT !.inst[i].slots = vnode.slots, !.inst[i].compiledSlots = vnode.stable]

\* Compiled slots that are not dynamic never change.
UpdateSlots(s, i) ==
  LET vnode == s.vn[s.inst[i].vnode] IN
  CASE vnode.stable /\ ~HasFlag(vnode.patchFlag, "DYNAMIC_SLOTS") -> s
    [] OTHER -> [s EXCEPT !.inst[i].slots = vnode.slots,
                          !.inst[i].compiledSlots = @ \/ vnode.stable]

--------------------------------------------------------------------------------
(* Rendering. *)

\* What render returns: text is a string, an empty template is null.
RunRender(s, i) ==
  LET root == s.components[s.inst[i].type].code
      env == [inst |-> i, scope |-> NoProps]
      kids == root.children
  IN  CASE root.codegenNode = NoCode -> Built([s EXCEPT !.vn = Append(@, RawNull)])
        [] root.codegenNode # ChildCode -> BuildVNode(s, env, root, root.codegenNode)
        [] IsText(kids[1]) \/ kids[1].type = "COMPOUND" ->
             Built(CreateVNode(TrackExp(s, env, kids[1]),
                               TextVNode(Value(s, env, kids[1]), {}), FALSE))
        [] OTHER -> BuildNode(s, env, kids[1])

\* renderComponentRoot, in the effect of the instance.  Attrs go to a root that
\* is an element or a component.  The state's ret is the root.
RenderComponentRoot(s, i) ==
  LET t == RunRender([s EXCEPT !.rendering = i, !.reads = {}], i)
      r == NormalizeVNode(t, t.ret)
      instance == s.inst[i]
      dirs == s.vn[instance.vnode].dirs
      falls == instance.attrs # NoProps /\ r.s.vn[r.v].kind \in {"element", "component"}
      root == IF falls THEN Built(CloneVNode(r.s, r.v, instance.attrs)) ELSE Ret(r.s, r.v)
  IN  [root EXCEPT !.vn[root.ret].dirs = IF instance.vnode # 0 /\ dirs # << >> THEN dirs ELSE @,
                   !.rendering = 0, !.inst[i].reads = t.reads]

\* hasPropsChanged, of keys and values; props that are null are not looked into.
HasPropsChanged(prev, next) ==
  IF prev.nullProps \/ next.nullProps THEN prev.nullProps # next.nullProps
  ELSE \/ DOMAIN prev.props # DOMAIN next.props
       \/ \E k \in DOMAIN next.props : next.props[k] # prev.props[k]

\* shouldUpdateComponent; it takes the keys of null if the compiler's flag says
\* that all props may have changed and there are none any more.
TakesKeysOfNull(prev, next) ==
  /\ next.dirs = << >> /\ "FULL_PROPS" \in next.patchFlag /\ "DYNAMIC_SLOTS" \notin next.patchFlag
  /\ next.nullProps /\ ~prev.nullProps
ShouldUpdateComponent(prev, next, optimized) ==
  \/ next.dirs # << >>
  \/ /\ Positive(next.patchFlag)
     /\ \/ "DYNAMIC_SLOTS" \in next.patchFlag
        \/ "FULL_PROPS" \in next.patchFlag /\ HasPropsChanged(prev, next)
        \/ /\ "FULL_PROPS" \notin next.patchFlag /\ "PROPS" \in next.patchFlag
           /\ \E k \in ToSet(next.dynamicProps) : Prop(next.props, k) # Prop(prev.props, k)
  \/ /\ ~Positive(next.patchFlag) /\ ~optimized
     /\ \/ prev.ckind # "none" \/ next.ckind # "none"
        \/ HasPropsChanged(prev, next)
================================================================================
