------------------------------ MODULE MCHydration ------------------------------
(***************************************************************************)
(* Hydration on the templates of Samples.  The bodies are LETs for the     *)
(* reason that MCApp gives.                                                *)
(***************************************************************************)
EXTENDS Hydration, Samples

MCCompilation(names) == LET components == Compiled(names) IN components
MCMounted(t, manual, components, store) == LET s == Mount(t, manual, components, store) IN s
MCUpdated(s, store) == LET t == Change(s, store) IN t
MCRender(t, components, store) == LET s == RenderToString(t, components, store) IN s
MCResolve(s, p) == LET t == Arrived(s, p) IN t
MCSent(s) == LET p == Page(s) IN p
MCStartFrom(t, components, store, sent) ==
  LET s == HydrateApp(t, components, store, sent) IN s
MCReceive(s, w) == LET t == Loaded(s, w) IN t
MCTemplates == [
  Lazy |-> AppOf("Lazy", {"Late", "More", "Panel"}, [msg |-> Word, ok |-> Flag]),
  OnceOnly |-> [AppOf("OnceOnly", {"Panel"}, [msg |-> Word]) EXCEPT !.frozen = TRUE],
  Tags |-> AppOf("Tags", {"Wrap", "Panel"}, [which |-> {<< "Panel" >>, << "Wrap" >>}, cls |-> Flag, msg |-> Word]),
  Away |-> AppOf("Away", {}, [off |-> Flag, ok |-> Flag, place |-> {<< "modal" >>, << "footer" >>}, msg |-> Word]),
  Chain |-> AppOf("Chain", {}, [ok |-> Flag, other |-> Flag, msg |-> Word]),
  Keyed |-> AppOf("Keyed", {}, [list |-> Lists, cls |-> Flag]),
  Groups |-> AppOf("Groups", {"Panel"}, [list |-> Lists, on |-> Flag]),
  Attributes |-> AppOf("Attributes", {}, [cls |-> Flag, look |-> {<< "a" >>}, ok |-> Flag,
                                          all |-> {None, << "id", "a", "value", "b" >>}]),
  Slots |-> AppOf("Slots", {"Panel"}, [msg |-> Word, ok |-> Flag, all |-> {None, << "id", "a" >>}]),
  Dynamic |-> AppOf("Dynamic", {"Rows", "Panel"}, [list |-> Lists, msg |-> Word])]
MCAsync == {"Late", "More"}
MCDrifting == {"Chain", "Groups", "Attributes", "Slots"}
================================================================================
