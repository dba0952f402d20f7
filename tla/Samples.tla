-------------------------------- MODULE Samples --------------------------------
(***************************************************************************)
(* Templates for the models of an app: together they use what the compiler *)
(* and the renderer distinguish.  Each is written as HTML in a comment.    *)
(***************************************************************************)
EXTENDS Parse, Dom

E(tag, props, children) == Element(tag, "ELEMENT", props, children)
C(tag, props, children) == Element(tag, "COMPONENT", props, children)
Template(props, children) == Element("template", "TEMPLATE", props, children)
Slot(props, children) == Element("slot", "SLOT", props, children)
Text(word) == TextNode(<< word >>)
Mustache(name) == Interpolation(Var(name))
A(name, word) == Attr(name, << word >>)
Bind(name, exp) == Dir("bind", Lit(name), Var(exp), "")
BindAll(exp) == Dir("bind", NoExp, Var(exp), "")
On(name, exp) == Dir("on", Lit(name), Var(exp), "")
If(exp) == Dir("if", NoExp, Var(exp), "")
ElseIf(exp) == Dir("else", NoExp, Var(exp), "")
Else == Dir("else", NoExp, NoExp, "")
For(item, list) == Dir("for", NoExp, Var(list), item)
Show(exp) == Dir("show", NoExp, Var(exp), "")
Model(exp) == Dir("model", NoExp, Var(exp), "")
Once == Dir("once", NoExp, NoExp, "")
Into(name, alias) == Dir("slot", Lit(name), NoExp, alias)
IntoAny(exp, alias) == Dir("slot", Var(exp), NoExp, alias)

\* The source of a template, laid out in lines: an element that follows another
\* begins on a new line.
Piece(at) == [at |-> at]
Name(p) ==
  IF p.arg = NoExp THEN p.name
  ELSE LET arg == IF p.arg.isStatic THEN p.arg.content ELSE "[" \o p.arg.content \o "]" IN
       CASE p.name = "bind" -> ":" \o arg [] p.name = "on" -> "@" \o arg
         [] p.name = "slot" -> "#" \o arg
AttributeOf(p) ==
  IF p.type = "ATTRIBUTE"
    THEN [text |-> p.name, dir |-> "", value |-> p.value]
    ELSE [text |-> IF p.arg = NoExp THEN "v-" \o p.name ELSE Name(p), dir |-> p.name,
          arg |-> p.arg, exp |-> p.exp, alias |-> p.alias, value |-> << "value" >>]
Space(newline) == [at |-> "space", newline |-> newline]
RECURSIVE Written(_)
Written(nodes) ==
  LET pad(n) == IF n.type = "TEXT" THEN << >> ELSE << Space(TRUE), Space(FALSE) >>
      piece(n) ==
        CASE n.type = "TEXT" -> [k \in DOMAIN n.content |->
                 IF n.content[k] = " " THEN Space(FALSE) ELSE [at |-> "word", text |-> n.content[k]]]
          [] n.type = "INTERPOLATION" ->
               << Piece("{{"), Space(FALSE), [at |-> "word", text |-> n.content.content],
                  Space(FALSE), Piece("}}") >>
          [] n.type = "ELEMENT" ->
               LET self == n.children = << >> /\ n.tagType = "COMPONENT" IN
               << [at |-> "start", tag |-> n.tag, self |-> self,
                   attrs |-> [k \in DOMAIN n.props |-> AttributeOf(n.props[k])]] >>
               \o (IF n.children = << >> THEN << >>
                   ELSE pad(n.children[1]) \o Written(n.children) \o pad(Last(n.children)))
               \o (IF self \/ IsVoidTag(n.tag) THEN << >> ELSE << [at |-> "end", tag |-> n.tag] >>)
      before(i) ==
        IF i > 1 /\ nodes[i].type = "ELEMENT" /\ nodes[i - 1].type = "ELEMENT"
          THEN << Space(TRUE), Space(FALSE) >> ELSE << >>
  IN  FlattenSeq([i \in DOMAIN nodes |-> before(i) \o piece(nodes[i])])

Component(children, props) ==
  [source |-> Written(children), sloppy |-> {}, props |-> props]
AppOf(root, uses, data) ==
  [root |-> root, uses |-> uses \cup {root}, frozen |-> FALSE, data |-> data]
Flag == {None, << "yes" >>}
Word == {<< "a" >>, << "b" >>}
Lists == {None, << "a" >>, << "a", "b", "c" >>, << "c", "a", "b" >>, << "d", "b" >>}

\* <div><p>static</p><b v-if="ok" ref="r">{{msg}}</b><i v-else-if="other"/><template v-else>
\* <s/>{{msg}}</template>tail {{msg}}</div>
Chain == << E("div", << >>,
  << E("p", << >>, << Text("static") >>),
     E("b", << If("ok"), A("ref", "r") >>, << Mustache("msg") >>),
     E("i", << ElseIf("other") >>, << >>),
     Template(<< Else >>, << E("s", << >>, << >>), Mustache("msg") >>),
     Text("tail"), Mustache("msg") >>) >>

\* <ul><li v-for="x in list" :key="x" :class="cls">{{x}}</li></ul>
\* <p v-for="x in list">{{x}} {{cls}}</p><b v-if="cls">end</b>
Keyed == << E("ul", << >>, << E("li", << For("x", "list"), Bind("key", "x"), Bind("class", "cls") >>,
                                << Mustache("x") >>) >>),
            E("p", << For("x", "list") >>, << Mustache("x"), Mustache("cls") >>),
            E("b", << If("cls") >>, << Text("end") >>) >>

\* <div v-if="on"><template v-for="x in list" :key="x"><i :class="x"/>{{x}}<Panel :title="x"/>
\* </template></div>
Groups == << E("div", << If("on") >>,
  << Template(<< For("x", "list"), Bind("key", "x") >>,
       << E("i", << Bind("class", "x") >>, << >>), Mustache("x"),
          C("Panel", << Bind("title", "x") >>, << >>) >>) >>) >>

\* <p class="big" :class="cls" :style="look" v-show="ok" :id="cls" @click="go">static</p>
\* <input v-bind="all" class="in" :value="cls"><u :title="cls" @focus="go"/>
Attributes == << E("p", << A("class", "big"), Bind("class", "cls"), Bind("style", "look"), Show("ok"),
                           Bind("id", "cls"), On("click", "go") >>, << Text("static") >>),
                 E("input", << BindAll("all"), A("class", "in"), Bind("value", "cls") >>, << >>),
                 E("u", << Bind("title", "cls"), On("focus", "go") >>, << >>) >>

\* <section><h1>{{title}}</h1><slot :x="title"/><slot v-if="open" name="foot">none</slot></section>
Panel == << E("section", << >>,
  << E("h1", << >>, << Mustache("title") >>), Slot(<< Bind("x", "title") >>, << >>),
     Slot(<< A("name", "foot"), If("open") >>, << Text("none") >>) >>) >>
\* <div><Panel :title="msg" :open="ok" :class="ok" @click="go" v-slot="x"><b>{{x}}</b>{{msg}}</Panel>
\* <Panel title="fixed" class="c" v-bind="all">{{msg}}</Panel></div>
Slots == << E("div", << >>,
  << C("Panel", << Bind("title", "msg"), Bind("open", "ok"), Bind("class", "ok"), On("click", "go"),
                   Into("default", "x") >>,
       << E("b", << >>, << Mustache("x") >>), Mustache("msg") >>),
     C("Panel", << A("title", "fixed"), A("class", "c"), BindAll("all") >>, << Mustache("msg") >>) >>) >>

\* <ol><slot v-for="n in names" :name="n" :key="n"/></ol>
Rows == << E("ol", << >>, << Slot(<< For("n", "names"), Bind("name", "n"), Bind("key", "n") >>, << >>) >>) >>
\* <Rows :names="list"><template v-for="x in list" v-slot:[x]><li>{{x}} {{msg}}</li></template></Rows>
\* <Panel v-for="x in list" :key="x" :title="msg" ref="p">{{x}}</Panel>
Dynamic == << C("Rows", << Bind("names", "list") >>,
                << Template(<< For("x", "list"), IntoAny("x", "") >>,
                            << E("li", << >>, << Mustache("x"), Mustache("msg") >>) >>) >>),
              C("Panel", << For("x", "list"), Bind("key", "x"), Bind("title", "msg"), A("ref", "p") >>,
                << Mustache("x") >>) >>

\* <div><p v-once :class="msg">{{msg}}<b>{{msg}}</b></p><Panel v-once :title="msg"/>{{msg}}</div>
OnceOnly == << E("div", << >>,
  << E("p", << Once, Bind("class", "msg") >>, << Mustache("msg"), E("b", << >>, << Mustache("msg") >>) >>),
     C("Panel", << Once, Bind("title", "msg") >>, << >>), Mustache("msg") >>) >>

\* <Panel :title="title" class="wrap" :open="open">{{title}}</Panel>
Wrap == << C("Panel", << Bind("title", "title"), A("class", "wrap"), Bind("open", "open") >>,
             << Mustache("title") >>) >>
\* <component :is="which" :title="msg" :class="cls" ref="c" v-show="cls">{{msg}}</component>
\* <Wrap v-if="cls" :title="msg" :open="cls" v-model="msg" :id="msg"/>
Tags == << C("component", << Bind("is", "which"), Bind("title", "msg"), Bind("class", "cls"), A("ref", "c"),
                             Show("cls") >>, << Mustache("msg") >>),
           C("Wrap", << If("cls"), Bind("title", "msg"), Bind("open", "cls"), Model("msg"), Bind("id", "msg") >>,
             << >>) >>

\* <div><Teleport to="modal" :disabled="off"><p>{{msg}}</p><i v-if="ok"/></Teleport>
\* <Teleport v-if="ok" :to="place"><b>{{msg}}</b></Teleport>{{msg}}</div>
Away == << E("div", << >>,
  << C("Teleport", << A("to", "modal"), Bind("disabled", "off") >>,
       << E("p", << >>, << Mustache("msg") >>), E("i", << If("ok") >>, << >>) >>),
     C("Teleport", << If("ok"), Bind("to", "place") >>, << E("b", << >>, << Mustache("msg") >>) >>),
     Mustache("msg") >>) >>

\* <div><Panel title="fixed"><u :ref="msg"/></Panel></div>
Quiet == << E("div", << >>, << C("Panel", << A("title", "fixed") >>, << E("u", << Bind("ref", "msg") >>, << >>) >>) >>) >>

\* <h3>{{title}} {{subTitle}}</h3>
Card == << E("h3", << >>, << Mustache("title"), Mustache("subTitle") >>) >>
\* <Card/>
Plain == << C("Card", << >>, << >>) >>
\* <div><Card class="c" v-bind="all"/><Plain ref="b" v-bind="all"/>
\* <Card title="fixed" :sub-title="msg"/></div>
Given == << E("div", << >>,
  << C("Card", << A("class", "c"), BindAll("all") >>, << >>),
     C("Plain", << A("ref", "b"), BindAll("all") >>, << >>),
     C("Card", << A("title", "fixed"), Bind("sub-title", "msg") >>, << >>) >>) >>

\* <h2>{{title}}</h2><slot/>
Late == << E("h2", << >>, << Mustache("title") >>), Slot(<< >>, << >>) >>
\* <i>{{msg}}</i>
More == << E("i", << >>, << Mustache("msg") >>) >>
\* <div><Late :title="msg"><b @click="go">{{msg}}</b><More/></Late><More v-show="ok"/>
\* <Teleport to="modal"><More/><Panel :title="msg"/></Teleport>{{msg}}</div>
Lazy == << E("div", << >>,
  << C("Late", << Bind("title", "msg") >>,
       << E("b", << On("click", "go") >>, << Mustache("msg") >>), C("More", << >>, << >>) >>),
     C("More", << Show("ok") >>, << >>),
     C("Teleport", << A("to", "modal") >>,
       << C("More", << >>, << >>), C("Panel", << Bind("title", "msg") >>, << >>) >>),
     Mustache("msg") >>) >>

\* Sources that do without end tags or have more than they should.
Start(tag) == [at |-> "start", tag |-> tag, self |-> FALSE, attrs |-> << >>]
StartWith(tag, p) == [Start(tag) EXCEPT !.attrs = << AttributeOf(p) >>]
End(tag) == [at |-> "end", tag |-> tag]
W(text) == [at |-> "word", text |-> text]
S == Space(FALSE)
Line == Space(TRUE)
Pre == Dir("pre", NoExp, NoExp, "")
Mess == {
  \* a <!-- b --> <!-- {{ c --> <i> </i> d
  << W("a"), S, Piece("<!--"), W("b"), Piece("-->"), S, Piece("<!--"), Piece("{{"), W("c"), Piece("-->"),
     S, Start("i"), S, End("i"), S, W("d") >>,
  \* <div><pre>
  \*  a  <b>
  \* {{ c }} </b></pre>
  \*  <p>  d
  << Start("div"), Start("pre"), Line, S, W("a"), S, S, Start("b"), Line, Piece("{{"), W("c"), Piece("}}"),
     S, End("b"), End("pre"), Line, S, Start("p"), S, S, W("d") >>,
  \* <p v-pre :id="e">{{ a }} <i @click="go"> b</i></p> <template v-if="e">{{ b }}</template>
  << [Start("p") EXCEPT !.attrs = << AttributeOf(Pre), AttributeOf(Bind("id", "e")) >>],
     Piece("{{"), W("a"), Piece("}}"), S, StartWith("i", On("click", "go")), S, W("b"), End("i"), End("p"), S,
     StartWith("template", If("e")), Piece("{{"), W("b"), Piece("}}"), End("template") >>,
  \* <textarea> <b> {{ a }} </b></textarea> <style> <b>{{ a }}</p> </style>
  << Start("textarea"), S, Start("b"), S, Piece("{{"), W("a"), Piece("}}"), S, End("b"), End("textarea"), S,
     Start("style"), S, Start("b"), Piece("{{"), W("a"), Piece("}}"), End("p"), S, End("style") >>,
  \* <ul> <li>a <li>b</ul> c</i> d</ul>{{ e <input> f }}</input>
  << Start("ul"), S, Start("li"), W("a"), S, Start("li"), W("b"), End("ul"), S, W("c"), End("i"), S, W("d"),
     End("ul"), Piece("{{"), W("e"), Start("input"), W("f"), Piece("}}"), End("input") >>}

MCComponents == [
  Late |-> Component(Late, {"title"}), More |-> Component(More, {}),
  Lazy |-> Component(Lazy, {}),
  Card |-> Component(Card, {"title", "subTitle"}),
  Plain |-> Component(Plain, {}), Given |-> Component(Given, {}),
  Quiet |-> Component(Quiet, {}),
  OnceOnly |-> Component(OnceOnly, {}), Wrap |-> Component(Wrap, {"title", "open"}),
  Tags |-> Component(Tags, {}), Away |-> Component(Away, {}),
  Chain |-> [Component(Chain, {}) EXCEPT !.sloppy = Mess], Keyed |-> Component(Keyed, {}), Groups |-> Component(Groups, {}),
  Attributes |-> Component(Attributes, {}), Panel |-> Component(Panel, {"title", "open"}),
  Slots |-> Component(Slots, {}), Rows |-> Component(Rows, {"names"}), Dynamic |-> Component(Dynamic, {})]
================================================================================
