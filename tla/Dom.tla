---------------------------------- MODULE Dom ----------------------------------
(***************************************************************************)
(* The host operations of the DOM renderer (runtime-dom/src/nodeOps.ts and *)
(* patchProp.ts) on a small document.                                      *)
(*                                                                         *)
(* A document is part of the state record s of a patch: s.dom is the       *)
(* sequence of all nodes ever created, a node is named by its index, and   *)
(* s.err collects the errors the operations throw.  A node has a tag (the  *)
(* tag of an element, "#text" or "#comment"), a text (a sequence of        *)
(* words), attributes (a function from names to values), its child nodes   *)
(* and its parent (0: none).  0 also stands for the null the operations    *)
(* may be handed.                                                          *)
(***************************************************************************)
EXTENDS Integers, Sequences, FiniteSets, SequencesExt, TLC

None == << >>          \* no text; the value of an attribute that is not there
NoProps == << >>       \* the empty function

Node(tag, text, parent) ==
  [tag |-> tag, text |-> text, attrs |-> NoProps, kids |-> << >>, parent |-> parent]

\* A new node, detached: the operations return the state; the node is the last.
Newest(s) == Len(s.dom)
HostCreateElement(s, tag) == [s EXCEPT !.dom = Append(@, Node(tag, None, 0))]
HostCreateText(s, text) == [s EXCEPT !.dom = Append(@, Node("#text", text, 0))]
HostCreateComment(s, text) == [s EXCEPT !.dom = Append(@, Node("#comment", text, 0))]

Throw(s, what) == [s EXCEPT !.err = @ \cup {what}]

HostParentNode(s, el) == IF el = 0 THEN 0 ELSE s.dom[el].parent
HostNextSibling(s, el) ==
  LET p == HostParentNode(s, el) IN
  IF p = 0 THEN 0
  ELSE LET kids == s.dom[p].kids
           k == CHOOSE k \in DOMAIN kids : kids[k] = el
       IN  IF k = Len(kids) THEN 0 ELSE kids[k + 1]

\* removeChild, when there is a parent.  `child.parentNode` of null throws.
HostRemove(s, el) ==
  IF el = 0 THEN Throw(s, "remove of null")
  ELSE LET p == s.dom[el].parent IN
       IF p = 0 THEN s
       ELSE [s EXCEPT !.dom[p].kids = SelectSeq(@, LAMBDA k : k # el),
                      !.dom[el].parent = 0]

\* insertBefore when there is an anchor, appendChild when there is none; the
\* node leaves its old parent.  insertBefore throws if the anchor is elsewhere.
HostInsert(s, el, container, anchor) ==
  IF el = 0 \/ container = 0 THEN Throw(s, "insert of null")
  ELSE IF anchor = el /\ HostParentNode(s, el) = container THEN s
  ELSE LET t == HostRemove(s, el)
           kids == t.dom[container].kids
       IN  IF anchor = 0
           THEN [t EXCEPT !.dom[container].kids = Append(@, el), !.dom[el].parent = container]
           ELSE IF anchor \notin ToSet(kids) THEN Throw(s, "anchor is not a child")
           ELSE LET k == CHOOSE k \in DOMAIN kids : kids[k] = anchor IN
                [t EXCEPT !.dom[container].kids = InsertAt(@, k, el),
                          !.dom[el].parent = container]

HostSetText(s, el, text) ==
  IF el = 0 THEN Throw(s, "text of null") ELSE [s EXCEPT !.dom[el].text = text]

\* textContent replaces the children of el by one text node, or by none.
HostSetElementText(s, el, text) ==
  IF el = 0 THEN Throw(s, "text of null") ELSE
  LET detach(u, k) == [u EXCEPT !.dom[k].parent = 0]
      t == [FoldLeft(detach, s, s.dom[el].kids) EXCEPT !.dom[el].kids = << >>]
  IN  IF text = None THEN t
      ELSE LET u == HostCreateText(t, text) IN HostInsert(u, Newest(u), el, 0)

\* patchProp: a value that is not there removes the attribute or the listener.
\* The style attribute that patchStyle removes is also what v-show hides with;
\* the listener of v-model on a component is not one of the element.
HostPatchProp(s, el, key, next) ==
  IF el = 0 THEN Throw(s, "prop of null") ELSE IF key = "onUpdate:modelValue" THEN s ELSE
  [s EXCEPT !.dom[el].attrs =
     IF next # None THEN (key :> next) @@ @
     ELSE LET gone == IF key = "style" THEN {"style", "display"} ELSE {key}
          IN  [k \in DOMAIN @ \ gone |-> @[k]]]
\* setDisplay of v-show.
SetDisplay(s, el, shown) ==
  HostPatchProp(s, el, "display", IF shown THEN None ELSE << "none" >>)

\* cloneNode(true): a copy of el and of all below it, detached; the copy of el
\* is the node after those that were there.
RECURSIVE HostCloneNode(_, _), CloneKids(_, _, _, _)
HostCloneNode(s, el) ==
  LET at == Newest(s) + 1
      t == [s EXCEPT !.dom = Append(@, [s.dom[el] EXCEPT !.kids = << >>, !.parent = 0])]
  IN  CloneKids(t, at, s.dom[el].kids, 1)
CloneKids(s, at, kids, i) ==
  IF i > Len(kids) THEN s
  ELSE LET copy == Newest(s) + 1
           t == HostCloneNode(s, kids[i])
       IN  CloneKids(HostInsert(t, copy, at, 0), at, kids, i + 1)

--------------------------------------------------------------------------------
(* What a user sees.  Empty text nodes are not visible: the renderer marks the *)
(* ends of fragments and of teleports with them.                              *)

RECURSIVE Visible(_, _)
Visible(s, el) ==
  [tag |-> s.dom[el].tag, text |-> s.dom[el].text, attrs |-> s.dom[el].attrs,
   kids |-> LET shown == SelectSeq(s.dom[el].kids,
                           LAMBDA k : s.dom[k].tag # "#text" \/ s.dom[k].text # None)
            IN  [i \in DOMAIN shown |-> Visible(s, shown[i])]]

================================================================================
