--------------------------------- MODULE Markup ---------------------------------
(***************************************************************************)
(* What a source means, said without a parser that calls itself: a stack of *)
(* open elements, worked on piece by piece, and what the ancestors of a     *)
(* text say about its white space.                                          *)
(***************************************************************************)
EXTENDS Parse

\* An open element: its children so far, and whether it or an ancestor is
\* v-pre or <pre>.
Opened(tag, verbatim, pre, props) ==
  [tag |-> tag, verbatim |-> verbatim, pre |-> pre, props |-> props, kids |-> << >>]

\* The white space of finished children: every run is a blank; a text that is
\* but a blank is dropped at both ends, beside a comment and, if a line ends in
\* it, between elements.
Separates(kids, i) ==
  \/ i \in {1, Len(kids)}
  \/ "COMMENT" \in {kids[i - 1].type, kids[i + 1].type}
  \/ HasNewline(kids[i]) /\ {kids[i - 1].type, kids[i + 1].type} = {"ELEMENT"}
Tidy(kids) ==
  LET kept == {i \in DOMAIN kids :
        kids[i].type # "COMMENT" /\ ~(IsTextNode(kids[i]) /\ IsBlank(kids[i]) /\ Separates(kids, i))}
  IN  [k \in 1..Cardinality(kept) |->
         LET n == kids[CHOOSE i \in kept : Cardinality(kept \cap 1..i) = k] IN
         IF IsTextNode(n) THEN Condensed(n) ELSE n]

KidsOf(f) ==
  Bare(CASE TextMode(f.tag) = "RAWTEXT" -> f.kids
         [] TextMode(f.tag) # "RAWTEXT" /\ ~f.pre -> Tidy(f.kids)
         [] OTHER -> IF IsPreTag(f.tag) THEN WithoutFirstLine(f.kids) ELSE f.kids)

AddTo(open, n, from) ==
  [open EXCEPT ![Len(open)].kids = PushNode(@, n, from)]

\* The innermost open element becomes a child of the one around it.
CloseLast(open) ==
  LET f == Last(open) IN
  AddTo(Front(open),
        Element(f.tag, TagType(f.verbatim, f.tag, f.props), f.props, KidsOf(f)), 0)
RECURSIVE CloseDownTo(_, _)
CloseDownTo(open, depth) ==
  IF Len(open) = depth THEN open ELSE CloseDownTo(CloseLast(open), depth)

Opening(open, t) ==
  LET verbatim == Last(open).verbatim \/ \E k \in DOMAIN t.attrs : t.attrs[k].dir = "pre"
      attrs == IF Last(open).verbatim THEN t.attrs
               ELSE SelectSeq(t.attrs, LAMBDA a : a.dir # "pre")
      opened == Append(open, Opened(t.tag, verbatim, Last(open).pre \/ IsPreTag(t.tag),
                                    ParseAttributes(verbatim, attrs)))
  IN  IF t.self \/ IsVoidTag(t.tag) THEN CloseLast(opened) ELSE opened

\* The effect of piece i on the open elements; `next` is the first piece that
\* nothing before it has taken.
Step(src, acc, i) ==
  LET t == src[i]
      open == acc.open
      f == Last(open)
      mode == TextMode(f.tag)
      close == NextPiece(src, i, IF t.at = "{{" THEN "}}" ELSE "-->")
      ended == {k \in 2..Len(open) : open[k].tag = t.tag}
      took(end, n) == [open |-> AddTo(open, n, i), next |-> end]
  IN
  IF i < acc.next THEN acc ELSE
  CASE t.at = "{{" /\ mode # "RAWTEXT" /\ ~f.verbatim /\ close # 0 ->
         took(close + 1, ParseInterpolation(src, i, close))
    [] t.at = "<!--" /\ mode = "DATA" ->
         took(IF close = 0 THEN Len(src) + 1 ELSE close + 1, [type |-> "COMMENT"])
    [] t.at = "start" /\ mode = "DATA" -> [open |-> Opening(open, t), next |-> i + 1]
    [] t.at = "end" /\ (mode = "DATA" \/ f.tag = t.tag) ->
         [next |-> i + 1,
          open |-> IF ended = {} THEN open
                   ELSE CloseDownTo(open, CHOOSE k \in 1..Len(open) : k + 1 \in ended
                                            /\ \A m \in ended : m <= k + 1)]
    [] OTHER -> took(i + 1, TextOf(src, i, i + 1))

Meaning(src) ==
  LET done == FoldLeft(LAMBDA acc, i : Step(src, acc, i),
                       [open |-> << Opened("", FALSE, FALSE, << >>) >>, next |-> 1],
                       [i \in DOMAIN src |-> i])
  IN  KidsOf(CloseDownTo(done.open, 1)[1])
================================================================================
