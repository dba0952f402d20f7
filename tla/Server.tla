--------------------------------- MODULE Server ---------------------------------
(***************************************************************************)
(* Rendering to a string: server-renderer/src/renderToString.ts and its    *)
(* helpers, for components with a render function, and what a browser      *)
(* makes of the result.                                                    *)
(*                                                                         *)
(* The state of a render has, besides that of Codegen,                     *)
(*   buffers    the buffers of all components, in the order created;       *)
(*   pending    the promises: components whose setup is asynchronous, with *)
(*              the buffer each will fill;                                 *)
(*   teleports  __teleportBuffers, by target.                              *)
(* An item of a buffer is a piece of html or another buffer.  Html is a    *)
(* sequence of what a parser tells apart: tags, texts and comments.        *)
(***************************************************************************)
EXTENDS Root

CONSTANT Async  \* the components that are loaded when they are needed

Open(tag, attrs) == [open |-> tag, attrs |-> attrs]
Close == [close |-> TRUE]
TextHtml(text) == [text |-> text]
CommentHtml(text) == [comment |-> text]

Html(tokens) == [html |-> tokens]
BufferItem(b) == [buffer |-> b]
IsHtml(item) == "html" \in DOMAIN item
NewBuffer(s) == [s EXCEPT !.buffers = Append(@, << >>)]

\* push: a string is appended to the string before it.
Push(s, b, tokens) ==
  LET buffer == s.buffers[b] IN
  IF buffer # << >> /\ IsHtml(Last(buffer))
  THEN [s EXCEPT !.buffers[b] = Append(Front(@), Html(Last(@).html \o tokens))]
  ELSE [s EXCEPT !.buffers[b] = Append(@, Html(tokens))]

\* unrollBuffer.
RECURSIVE Unroll(_, _)
Unroll(s, items) ==
  IF items = << >> THEN << >>
  ELSE (IF IsHtml(Head(items)) THEN Head(items).html ELSE Unroll(s, s.buffers[Head(items).buffer]))
       \o Unroll(s, Tail(items))

--------------------------------------------------------------------------------
(* Elements and Teleport. *)

RECURSIVE RenderVNode(_, _, _, _), RenderVNodeChildren(_, _, _, _, _)

\* ssrRenderAttrs: no handlers, and a value that is not there shows nothing.
Ons == HandlerKeys \cup {"onUpdate:modelValue"}
SsrRenderAttrs(props) ==
  Only(props, {k \in DOMAIN props \ (ReservedProps \cup Ons) : props[k] # None})

\* applySSRDirectives, of v-show.
ApplySSRDirectives(vnode) ==
  IF vnode.dirs # << >> /\ vnode.dirs[1] = None
  THEN ("display" :> << "none" >>) @@ vnode.props ELSE vnode.props

VoidTags == {"input"}
RenderElementVNode(s, b, v, parent) ==
  LET vnode == s.vn[v]
      t == Push(s, b, << Open(vnode.type, SsrRenderAttrs(ApplySSRDirectives(vnode))) >>)
      u == CASE vnode.type \in VoidTags -> t
             [] vnode.ckind = "text" -> Push(t, b, << TextHtml(vnode.text) >>)
             [] vnode.ckind = "array" -> RenderVNodeChildren(t, b, vnode.array, parent, 1)
             [] OTHER -> t
  IN  Push(u, b, << Close >>)

\* renderTeleportVNode and ssrRenderTeleport: the children go to the buffers of
\* the target; those of a disabled one stay, and the target gets its end anchor.
AddTeleport(s, target, item) ==
  [s EXCEPT !.teleports = IF target \in DOMAIN @ THEN [@ EXCEPT ![target] = Append(@, item)]
                          ELSE (target :> << item >>) @@ @]
RenderTeleportVNode(s, b, v, parent) ==
  LET vnode == s.vn[v]
      start == Push(s, b, << CommentHtml(<< "teleport start" >>) >>)
      own == Len(start.buffers) + 1
      content == IF IsTeleportDisabled(vnode)
                 THEN RenderVNodeChildren(start, b, vnode.array, parent, 1)
                 ELSE Push(RenderVNodeChildren(NewBuffer(start), own, vnode.array, parent, 1),
                           own, << CommentHtml(None) >>)
      item == IF IsTeleportDisabled(vnode) THEN Html(<< CommentHtml(None) >>) ELSE BufferItem(own)
  IN  IF Prop(vnode.props, "to") = None THEN s
      ELSE Push(AddTeleport(content, Head(vnode.props["to"]), item), b,
                << CommentHtml(<< "teleport end" >>) >>)

--------------------------------------------------------------------------------
(* Components. *)

\* renderComponentSubTree, into the buffer b.
RenderComponentSubTree(s, b, i) ==
  LET t == RenderComponentRoot(s, i)
  IN  RenderVNode([t EXCEPT !.inst[i].subTree = t.ret], b, t.ret, i)

\* renderComponentVNode.  The wrapper of an asynchronous component and the
\* component are one instance here: its setup returns a promise.
\* Mutant: its html is put where the render is when it arrives.
NewRender(s, v, parent) ==
  LET i == Len(s.inst) + 1
      t == [s EXCEPT !.inst = Append(@, NewInstance(s.vn[v].type, v, parent, FALSE))]
  IN  NewBuffer(InitSlots(InitProps(t, i), i))
RenderComponentVNodeLate(s, b, v, parent) ==
  LET t == NewRender(s, v, parent)
      own == Len(t.buffers)
      i == Len(t.inst)
  IN  IF s.vn[v].type \in Async THEN [t EXCEPT !.pending = @ \cup {[buffer |-> b, inst |-> i]}]
      ELSE RenderComponentSubTree([t EXCEPT !.buffers[b] = Append(@, BufferItem(own))], own, i)
RenderComponentVNode(s, b, v, parent) ==
  LET t == NewRender(s, v, parent)
      own == Len(t.buffers)
      i == Len(t.inst)
      u == [t EXCEPT !.buffers[b] = Append(@, BufferItem(own))]
  IN  IF s.vn[v].type \in Async THEN [u EXCEPT !.pending = @ \cup {[buffer |-> own, inst |-> i]}]
      ELSE RenderComponentSubTree(u, own, i)

--------------------------------------------------------------------------------
(* Vnodes. *)

RenderVNode(s, b, v, parent) ==
  LET vnode == s.vn[v] IN
  CASE vnode.kind = "Text" -> Push(s, b, << TextHtml(vnode.text) >>)
    [] vnode.kind = "Comment" -> Push(s, b, << CommentHtml(vnode.text) >>)
    [] vnode.kind = "Fragment" ->
         Push(RenderVNodeChildren(Push(s, b, << CommentHtml(<< "[" >>) >>), b, vnode.array, parent, 1),
              b, << CommentHtml(<< "]" >>) >>)
    [] vnode.kind = "element" -> RenderElementVNode(s, b, v, parent)
    [] vnode.kind = "component" -> RenderComponentVNode(s, b, v, parent)
    [] vnode.kind = "Teleport" -> RenderTeleportVNode(s, b, v, parent)

RenderVNodeChildren(s, b, array, parent, k) ==
  IF k > Len(s.arrays[array]) THEN s
  ELSE LET r == NormalizeVNode(s, s.arrays[array][k])
       IN  RenderVNodeChildren(RenderVNode(r.s, b, r.v, parent), b, array, parent, k + 1)

\* renderToString, up to its first await.
RenderToString(t, components, store) ==
  LET blank == [buffers |-> << << >> >>, pending |-> {}, teleports |-> NoProps]
               @@ Blank(FALSE, components, store)
      s == Load(blank, Templates[t].uses)
      u == CreateVNode(s, [BlankVNode EXCEPT !.type = Templates[t].root, !.kind = "component"], FALSE)
  IN  RenderComponentVNode(u, 1, Latest(u), 0)

\* A promise resolves.
Arrived(s, p) ==
  RenderComponentSubTree([s EXCEPT !.pending = @ \ {p}], p.buffer, p.inst)

--------------------------------------------------------------------------------
(* The browser: html becomes the content of the node el.  A text that follows  *)
(* a text is part of it, and an empty text is nothing.                         *)

RECURSIVE Parse(_, _, _)
Parse(s, el, tokens) ==
  IF tokens = << >> THEN s
  ELSE LET token == Head(tokens)
           last == IF s.dom[el].kids = << >> THEN 0 ELSE Last(s.dom[el].kids)
           added(t) == HostInsert(t, Newest(t), el, 0)
           joins == last # 0 /\ s.dom[last].tag = "#text"
       IN  CASE "open" \in DOMAIN token ->
                  LET t == [added(HostCreateElement(s, token.open)) EXCEPT
                              !.dom[Newest(s) + 1].attrs = token.attrs]
                  IN  Parse(t, Newest(t), Tail(tokens))
             [] "close" \in DOMAIN token -> Parse(s, s.dom[el].parent, Tail(tokens))
             [] "comment" \in DOMAIN token ->
                  Parse(added(HostCreateComment(s, token.comment)), el, Tail(tokens))
             [] OTHER ->
                  Parse(CASE token.text = None -> s
                          [] joins /\ token.text # None -> [s EXCEPT !.dom[last].text = @ \o token.text]
                          [] OTHER -> added(HostCreateText(s, token.text)),
                        el, Tail(tokens))

\* The page: the html of the app and that of each target, in a blank document.
Page(server) ==
  [app |-> Unroll(server, server.buffers[1]),
   teleports |-> [target \in DOMAIN server.teleports |-> Unroll(server, server.teleports[target])]]
RECURSIVE ParseTargets(_, _)
ParseTargets(s, teleports) ==
  IF DOMAIN teleports = {} THEN s
  ELSE LET target == CHOOSE n \in DOMAIN teleports : TRUE
       IN  ParseTargets(Parse(s, s.targets[target], teleports[target]),
                        Only(teleports, DOMAIN teleports \ {target}))
Shown(s, page) == ParseTargets(Parse(s, 1, page.app), page.teleports)
=================================================================================
