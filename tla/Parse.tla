--------------------------------- MODULE Parse ---------------------------------
(***************************************************************************)
(* The parser of templates (compiler-core/src/parse.ts).  A source is a     *)
(* sequence of the pieces its regular expressions cut; what a name, a word  *)
(* or an expression is made of is left out.                                 *)
(*                                                                         *)
(*   [at |-> "start", tag, attrs, self]    <tag attrs> or <tag attrs/>      *)
(*   [at |-> "end", tag]                   </tag>                           *)
(*   [at |-> "{{"], [at |-> "}}"], [at |-> "<!--"], [at |-> "-->"]          *)
(*   [at |-> "word", text]                                                  *)
(*   [at |-> "space", newline]             white space, with a line end?    *)
(*                                                                         *)
(* An attribute is [text, dir, arg, exp, alias, value]: `text` is its name  *)
(* as written and `value` its value; when the name starts with v-, :, @ or  *)
(* # the rest is what they say: the name of the directive, its argument,    *)
(* its expression and the variable it declares.                             *)
(***************************************************************************)
EXTENDS Compile

NativeTags == {"div", "p", "b", "i", "s", "u", "ul", "ol", "li", "section", "h1", "h2",
               "input", "pre", "textarea", "style", "template", "slot"}
IsVoidTag(tag) == tag = "input"
IsPreTag(tag) == tag = "pre"
TextMode(tag) ==
  CASE tag = "textarea" -> "RCDATA" [] tag = "style" -> "RAWTEXT" [] OTHER -> "DATA"

\* What the parser keeps while it works: where it is, and its two flags.
Moved(c, i) == [c EXCEPT !.i = i]
IsTextNode(n) == n.type = "TEXT"
IsElementNode(n) == n.type = "ELEMENT"

--------------------------------------------------------------------------------
(* Text *)

\* The text of a tag that is not taken for a tag.
Printed(t) ==
  CASE t.at = "start" -> "<" \o t.tag \o ">"
    [] t.at = "end" -> "</" \o t.tag \o ">"
    [] t.at = "word" -> t.text
    [] t.at = "space" -> IF t.newline THEN "\n" ELSE " "
    [] OTHER -> t.at

\* A text that goes up to, and without, piece `end`.
TextOf(src, i, end) ==
  [type |-> "TEXT", content |-> [k \in 1..end - i |-> Printed(src[i + k - 1])], end |-> end]

IsBlank(n) == \A k \in DOMAIN n.content : n.content[k] \in {" ", "\n"}
HasNewline(n) == \E k \in DOMAIN n.content : n.content[k] = "\n"

\* A run of white space becomes one blank.
Condensed(n) ==
  [n EXCEPT !.content =
     FoldLeft(LAMBDA done, w :
                IF w \notin {" ", "\n"} THEN Append(done, w)
                ELSE IF done # << >> /\ Last(done) = " " THEN done ELSE Append(done, " "),
              << >>, n.content)]

\* Texts next to each other become one; what was skipped keeps them apart.
PushNode(nodes, n, from) ==
  IF IsTextNode(n) /\ nodes # << >> /\ IsTextNode(Last(nodes)) /\ Last(nodes).end = from
    THEN Append(Front(nodes), [n EXCEPT !.content = Last(nodes).content \o n.content])
    ELSE Append(nodes, n)

Gone == [type |-> "NONE"]
\* Mutant: blanks between elements go whether or not a line ends there.
DropsBlankOnLine(nodes, i) ==
  \/ i = 1 \/ i = Len(nodes)
  \/ nodes[i - 1].type \in {"NONE", "COMMENT"} \/ nodes[i + 1].type = "COMMENT"
  \/ IsElementNode(nodes[i - 1]) /\ IsElementNode(nodes[i + 1])
\* White space between children, from left to right: a child that was dropped
\* is no neighbour any more.
DropsBlank(nodes, i) ==
  \/ i = 1 \/ i = Len(nodes)
  \/ nodes[i - 1].type \in {"NONE", "COMMENT"} \/ nodes[i + 1].type = "COMMENT"
  \/ IsElementNode(nodes[i - 1]) /\ IsElementNode(nodes[i + 1]) /\ HasNewline(nodes[i])
Spaced(nodes) ==
  SelectSeq(
    FoldLeft(LAMBDA done, i :
               LET n == nodes[i] IN
               ReplaceAt(done, i,
                 CASE IsTextNode(n) /\ IsBlank(n) /\ DropsBlank(done, i) -> Gone
                   [] IsTextNode(n) -> Condensed(n)
                   [] n.type = "COMMENT" -> Gone
                   [] OTHER -> n),
             nodes, [i \in DOMAIN nodes |-> i]),
    LAMBDA n : n # Gone)

WithoutFirstLine(nodes) ==
  IF nodes # << >> /\ IsTextNode(nodes[1]) /\ nodes[1].content[1] = "\n"
    THEN [nodes EXCEPT ![1].content = Tail(@)] ELSE nodes

\* What parseChildren does with the white space at its end.
WithSpaceDone(c, mode, parent, nodes) ==
  CASE mode = "RAWTEXT" -> nodes
    [] mode # "RAWTEXT" /\ ~c.inPre -> Spaced(nodes)
    [] OTHER -> IF IsPreTag(parent) THEN WithoutFirstLine(nodes) ELSE nodes

Bare(nodes) ==
  [k \in DOMAIN nodes |-> IF IsTextNode(nodes[k]) THEN TextNode(nodes[k].content) ELSE nodes[k]]

--------------------------------------------------------------------------------
(* Tags *)

IsDirective(a) == a.dir # ""

\* In a v-pre an attribute is only its name and its value.
ParseAttribute(inVPre, a) ==
  IF ~inVPre /\ IsDirective(a) THEN Dir(a.dir, a.arg, a.exp, a.alias) ELSE Attr(a.text, a.value)

ParseAttributes(inVPre, attrs) == [k \in DOMAIN attrs |-> ParseAttribute(inVPre, attrs[k])]

SpecialTemplateDirectives == {"if", "else", "for", "slot"}
TagType(inVPre, tag, props) ==
  CASE inVPre -> "ELEMENT"
    [] tag = "slot" /\ ~inVPre -> "SLOT"
    [] /\ tag = "template" /\ ~inVPre
       /\ \E k \in DOMAIN props : props[k].type = "DIRECTIVE" /\ props[k].name \in SpecialTemplateDirectives
       -> "TEMPLATE"
    [] OTHER -> IF tag \in NativeTags THEN "ELEMENT" ELSE "COMPONENT"

\* parseTag, of a start tag: the flags it sets and the element.
ParseStart(c, t) ==
  LET pre == ~c.inVPre /\ \E k \in DOMAIN t.attrs : t.attrs[k].dir = "pre"
      inVPre == c.inVPre \/ pre
      attrs == IF pre THEN SelectSeq(t.attrs, LAMBDA a : a.dir # "pre") ELSE t.attrs
      props == ParseAttributes(inVPre, attrs)
  IN  [c |-> [i |-> c.i + 1, inPre |-> c.inPre \/ IsPreTag(t.tag), inVPre |-> inVPre],
       element |-> Element(t.tag, TagType(inVPre, t.tag, props), props, << >>)]

\* parseTag, of an end tag: the name is looked at as in a start tag.
ParseEnd(c, t) == [c EXCEPT !.i = @ + 1, !.inPre = @ \/ IsPreTag(t.tag)]

--------------------------------------------------------------------------------
(* Children *)

EndsTag(src, i, tag) == src[i].at = "end" /\ src[i].tag = tag

\* Mutant: only the end tag of the parent does.
IsEndOfParent(src, i, mode, ancestors) ==
  \/ i > Len(src)
  \/ ancestors # << >> /\ EndsTag(src, i, Last(ancestors))
\* In plain mode the end tag of any ancestor ends the children: the elements in
\* between were not closed.
IsEnd(src, i, mode, ancestors) ==
  \/ i > Len(src)
  \/ mode = "DATA" /\ \E k \in DOMAIN ancestors : EndsTag(src, i, ancestors[k])
  \/ mode # "DATA" /\ ancestors # << >> /\ EndsTag(src, i, Last(ancestors))

NextPiece(src, i, at) ==
  LET found == {k \in i..Len(src) : src[k].at = at} IN
  IF found = {} THEN 0 ELSE CHOOSE k \in found : \A m \in found : k <= m

\* A comment that is not closed takes the rest of the source.
ParseComment(src, c) ==
  LET close == NextPiece(src, c.i, "-->") IN
  [c |-> Moved(c, IF close = 0 THEN Len(src) + 1 ELSE close + 1), node |-> [type |-> "COMMENT"]]

\* The expression between {{ and }}: the word, or whatever else is there.
ParseInterpolation(src, i, close) ==
  LET inner == SelectSeq(SubSeq(src, i + 1, close - 1), LAMBDA t : t.at # "space") IN
  Interpolation(IF Len(inner) = 1 THEN Var(Printed(inner[1]))
                ELSE [type |-> "SIMPLE", pieces |-> SubSeq(src, i + 1, close - 1)])

\* A text ends before the next < or {{ but has one piece at least.
ParseText(src, i) ==
  LET stops == {k \in i + 1..Len(src) : src[k].at \in {"start", "end", "<!--", "{{"}}
  IN  TextOf(src, i, IF stops = {} THEN Len(src) + 1 ELSE CHOOSE k \in stops : \A m \in stops : k <= m)

RECURSIVE ParseChildren(_, _, _, _, _)
ParseElement(src, c, ancestors) ==
  LET t == src[c.i]
      open == ParseStart(c, t)
      body == ParseChildren(src, open.c, TextMode(t.tag), Append(ancestors, t.tag), << >>)
      closed == IF body.c.i <= Len(src) /\ EndsTag(src, body.c.i, t.tag)
                  THEN ParseEnd(body.c, src[body.c.i]) ELSE body.c
  IN  IF t.self \/ IsVoidTag(t.tag) THEN [c |-> open.c, node |-> open.element]
      ELSE [c |-> [closed EXCEPT !.inPre = @ /\ (c.inPre \/ ~open.c.inPre),
                                 !.inVPre = @ /\ (c.inVPre \/ ~open.c.inVPre)],
            node |-> [open.element EXCEPT !.children = body.nodes]]

ParseChildren(src, c, mode, ancestors, nodes) ==
  LET parent == IF ancestors = << >> THEN "" ELSE Last(ancestors)
      add(d, n) == ParseChildren(src, d, mode, ancestors, PushNode(nodes, n, c.i))
      text == ParseText(src, c.i)
  IN
  IF IsEnd(src, c.i, mode, ancestors)
    THEN [c |-> c, nodes |-> Bare(WithSpaceDone(c, mode, parent, nodes))]
  ELSE
  LET at == src[c.i].at
      close == NextPiece(src, c.i, "}}")
  IN
  CASE at = "{{" /\ mode # "RAWTEXT" /\ ~c.inVPre /\ close # 0 ->
         add(Moved(c, close + 1), ParseInterpolation(src, c.i, close))
    [] at = "<!--" /\ mode = "DATA" ->
         LET e == ParseComment(src, c) IN add(e.c, e.node)
    [] at = "end" /\ mode = "DATA" ->
         ParseChildren(src, ParseEnd(c, src[c.i]), mode, ancestors, nodes)
    [] at = "start" /\ mode = "DATA" ->
         LET e == ParseElement(src, c, ancestors) IN add(e.c, e.node)
    [] OTHER -> add(Moved(c, text.end), text)

BaseParse(src) ==
  ParseChildren(src, [i |-> 1, inPre |-> FALSE, inVPre |-> FALSE], "DATA", << >>, << >>).nodes
================================================================================
