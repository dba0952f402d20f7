------------------------------ MODULE MCChildren -------------------------------
(***************************************************************************)
(* Lists of children for TLC: short ones of every mixture, elements and a  *)
(* fragment, with keys and without, one key with two types; and orders of  *)
(* five keys.  Keys are interchangeable, so that the first list of keys is *)
(* taken in one order.                                                     *)
(***************************************************************************)
EXTENDS Children

CONSTANT MaxMixed  \* bound: the length of the lists of every mixture

Child(k, t) == [key |-> k, type |-> t]
Kinds == {Child("a", "div"), Child("b", "div"), Child("b", "span"), Child("c", "frag"),
          Child(NoKey, "div"), Child(NoKey, "frag")}
Unique(c) == \A i, j \in DOMAIN c : c[i].key = c[j].key /\ i # j => c[i].key = NoKey

Mixed == {c \in UNION {[1..n -> Kinds] : n \in 0..MaxMixed} : Unique(c)}
Keyed(ks) == [i \in DOMAIN ks |-> Child(ks[i], "div")]
Orders == {Keyed(ks) : ks \in {f \in UNION {[1..n -> Keys] : n \in 0..Cardinality(Keys)} :
                               IsInjective(f)}}

MCLists == Mixed \cup Orders
MCFirst == Mixed \cup {Keyed(SubSeq(<< "a", "b", "c", "d", "e" >>, 1, n)) : n \in 3..5}

================================================================================
