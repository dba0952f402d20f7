---------------------------------- MODULE App ----------------------------------
(***************************************************************************)
(* An app: a template is compiled, mounted, and updated when the data      *)
(* changes.  Next to the app that runs the compiler's code runs one whose  *)
(* render functions are written by hand, without the compiler's hints: the *)
(* two must look the same, and like an app that is mounted only now.       *)
(***************************************************************************)
EXTENDS Root, Markup

CONSTANTS
  \* The runtime: Compiled, Mount, Change and BaseParse, which MCApp names.  As
  \* constants they are evaluated, and not expanded at each of their uses.
  Compilation(_), Mounted(_, _, _, _), Updated(_, _), Parsing(_),
  MaxUpdates  \* bound: changes of the data

VARIABLES
  template,  \* the app that runs
  opt,       \* its state, compiled
  man,       \* its state, written by hand
  updates    \* how often the data changed

vars == << template, opt, man, updates >>

Init ==
  /\ template \in DOMAIN Templates
  /\ \E store \in Stores(template) :
       LET components == Compilation(Templates[template].uses) IN
       /\ opt = Mounted(template, FALSE, components, store)
       /\ man = Mounted(template, TRUE, components, store)
  /\ updates = 0

Set(store) ==
  /\ updates < MaxUpdates
  /\ store # opt.store
  /\ opt' = Updated(opt, store)
  /\ man' = Updated(man, store)
  /\ updates' = updates + 1
  /\ UNCHANGED template

Next == \E store \in Stores(template) : Set(store)
Spec == Init /\ [][Next]_vars

\* A source that lost one of its pieces.  (After an end tag of <pre> that no
\* start tag opens the parser keeps white space for good: such a source is left
\* out.)
Damaged(src) ==
  {SubSeq(src, 1, i - 1) \o SubSeq(src, i + 1, Len(src)) :
     i \in {k \in DOMAIN src : ~(src[k].at = "start" /\ IsPreTag(src[k].tag))}}

--------------------------------------------------------------------------------
(* Properties.                                                                 *)

\* The parser, which calls itself for every element and follows its two flags,
\* finds the tree that a stack of open elements finds, and loses or doubles no
\* text: also in a source in which an end tag, an attribute's tag, a brace or
\* the end of a comment is missing.
ParsesLikeMarkup ==
  updates = 0 =>
    \A name \in Templates[template].uses :
      \A source \in Components[name].sloppy \cup {Components[name].source} :
        \A src \in {source} \cup Damaged(source) : Parsing(src) = Meaning(src)

\* Nothing throws, whatever the order of the updates, and when a flush is over
\* no block is open, blocks are tracked again (setBlockTracking is called in
\* pairs, also around the v-once that is built the first time) and no instance
\* waits for a vnode it was to render.
Settles ==
  /\ opt.err = {} /\ man.err = {}
  /\ opt.blocks = << >> /\ opt.track = 1 /\ opt.rendering = 0 /\ opt.queue = << >>
  /\ \A i \in Live(opt) : opt.inst[i].next = 0

\* The hints of the compiler (patch flags, dynamic props, blocks, hoists, caches,
\* stable slots) only save work: the app that runs with them shows what the app
\* without them shows.
SameAsByHand == Screen(opt) = Screen(man)

\* The history of an app does not show: patched again and again, its document is
\* the one it would have if it were mounted with the data of now.  There is one
\* exception, and no other: an instance that keeps a prop its parent no longer
\* passes, because updateProps() did not find it under its hyphenated name or
\* because nothing at all is passed.
SameAsFresh ==
  \/ Templates[template].frozen
  \/ \E i \in Live(man) : man.inst[i].kept # {}
  \/ Screen(man) = Screen(Mounted(template, TRUE, man.components, man.store))

\* A component is unmounted exactly when its root has left the document: the
\* blocks that an unmount is limited to hold every component inside.  And what a
\* ref of an instance names is in the document, and not also what another ref
\* names, though the vnode of the ref is patched by one instance and the ref is
\* owned by another.
AliveWhileThere == \A s \in {opt, man} : UnmountedIn(s) /\ RefsLiveIn(s)

================================================================================
