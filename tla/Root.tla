---------------------------------- MODULE Root ----------------------------------
(***************************************************************************)
(* An app as a whole: its components are compiled and loaded, its root is  *)
(* mounted (apiCreateApp.ts), and its data changes.                        *)
(***************************************************************************)
EXTENDS Patch, Parse

CONSTANTS
  Components,  \* a name -> [source: its template, sloppy: more sources for the
               \* parser, props: those it declares]
  Templates    \* the apps: a name -> [root, uses, frozen, data]

\* root is a component, uses the components of the app and data gives the values
\* each name of the store may have; frozen says that it uses v-once.

Stores(t) ==
  LET data == Templates[t].data IN
  {f \in [DOMAIN data -> UNION Range(data)] : \A n \in DOMAIN f : f[n] \in data[n]}

\* The document: the container of the app, and two elements it may teleport to.
Document == << Node("app", None, 0), Node("modal", None, 0), Node("footer", None, 0) >>
Blank(manual, components, store) ==
  [components |-> components, store |-> store, manual |-> manual, dom |-> Document, err |-> {},
   vn |-> << >>, arrays |-> << >>, blocks |-> << >>, track |-> 1, inst |-> << >>,
   hoisted |-> NoProps, reads |-> {}, rendering |-> 0, ret |-> 0, list |-> << >>, queue |-> << >>,
   targets |-> [modal |-> 2, footer |-> 3]]

\* The components, compiled.
Code == [name \in DOMAIN Components |-> Transform(BaseParse(Components[name].source), TRUE)]
Compiled(names) == [name \in names |-> [code |-> Code[name], props |-> Components[name].props]]

\* The modules of the components are evaluated before anything is rendered.
RECURSIVE Load(_, _)
Load(s, names) ==
  IF names = {} \/ s.manual THEN s
  ELSE LET name == CHOOSE n \in names : TRUE
           t == BuildHoists(s, s.components[name].code.hoists, << >>)
       IN  Load([t EXCEPT !.hoisted = (name :> t.list) @@ @], names \ {name})

\* createApp(root).mount(container).
Mount(t, manual, components, store) ==
  LET s == Load(Blank(manual, components, store), Templates[t].uses)
      root == [BlankVNode EXCEPT !.type = Templates[t].root, !.kind = "component"]
      u == CreateVNode(s, root, FALSE)
  IN  Patch(u, 0, Latest(u), 1, 0, 0, FALSE)

\* The data changes: its readers are queued, and the queue is flushed.
Change(s, store) ==
  FlushUpdates(Trigger([s EXCEPT !.store = store], 0,
                       {n \in DOMAIN store : store[n] # s.store[n]}, 0))

--------------------------------------------------------------------------------
(* What is looked at from outside. *)

Screen(s) == << Visible(s, 1), Visible(s, 2), Visible(s, 3) >>

\* The node is in the document.
RECURSIVE Attached(_, _)
Attached(s, el) == el \in 1..3 \/ (el # 0 /\ Attached(s, s.dom[el].parent))
Live(s) == {i \in DOMAIN s.inst : ~s.inst[i].isUnmounted}

\* The refs name what is there, each something else.
RefsLiveIn(s) ==
  \A i \in Live(s) :
    LET refs == s.inst[i].refs
        set == {n \in DOMAIN refs : refs[n] # NullRef}
    IN  /\ \A n \in set : IF refs[n][1] = "el" THEN Attached(s, refs[n][2])
                          ELSE refs[n][2] \in Live(s)
        /\ \A n, m \in set : refs[n] = refs[m] => n = m

\* Exactly the components whose root is there are not unmounted.
UnmountedIn(s) ==
  \A i \in DOMAIN s.inst : (i \in Live(s)) <=> Attached(s, s.vn[s.inst[i].subTree].el)
================================================================================
