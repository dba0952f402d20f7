--------------------------------- MODULE MCApp ---------------------------------
(***************************************************************************)
(* App on the templates of Samples.  A body that is a LET is what the cost *)
(* statistics of TLC stop at, which would unfold the recursive operators.  *)
(***************************************************************************)
EXTENDS App, Samples

MCCompilation(names) == LET components == Compiled(names) IN components
MCMounted(t, manual, components, store) == LET s == Mount(t, manual, components, store) IN s
MCUpdated(s, store) == LET t == Change(s, store) IN t
MCParsing(src) == LET nodes == BaseParse(src) IN nodes
\* In Given, props come and go: of one word, of two with a hyphen, and in camelCase.
MCTemplates == [
  Given |-> AppOf("Given", {"Card", "Plain"},
    [all |-> {None, << "title", "a" >>, << "sub-title", "a" >>, << "subTitle", "a" >>}, msg |-> Word]),
  Quiet |-> AppOf("Quiet", {"Panel"}, [msg |-> Word]),
  OnceOnly |-> [AppOf("OnceOnly", {"Panel"}, [msg |-> Word]) EXCEPT !.frozen = TRUE],
  Tags |-> AppOf("Tags", {"Wrap", "Panel"}, [which |-> {<< "Panel" >>, << "Wrap" >>}, cls |-> Flag, msg |-> Word]),
  Away |-> AppOf("Away", {}, [off |-> Flag, ok |-> Flag, place |-> {<< "modal" >>, << "footer" >>}, msg |-> Word]),
  Chain |-> AppOf("Chain", {}, [ok |-> Flag, other |-> Flag, msg |-> Word]),
  Keyed |-> AppOf("Keyed", {}, [list |-> Lists, cls |-> Flag]),
  Groups |-> AppOf("Groups", {"Panel"}, [list |-> Lists, on |-> Flag]),
  Attributes |-> AppOf("Attributes", {}, [cls |-> Flag, look |-> Word, ok |-> Flag,
                                          all |-> {None, << "id", "a", "value", "b" >>}]),
  Slots |-> AppOf("Slots", {"Panel"}, [msg |-> Word, ok |-> Flag, all |-> {None, << "id", "a" >>}]),
  Dynamic |-> AppOf("Dynamic", {"Rows", "Panel"}, [list |-> Lists, msg |-> Word])]
================================================================================
