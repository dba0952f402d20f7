----------------------------- MODULE MCTransition ------------------------------
(* Transition with each mode, alone, around KeepAlive and around v-show. *)
EXTENDS Transition

Three == {"A", "B", "C", Nothing}
App(kind, mode, appear, max, views) ==
  [kind |-> kind, mode |-> mode, appear |-> appear, max |-> max, views |-> views]
MCApps ==
  {App("plain", mode, appear, 0, Three) : mode \in {"default", "out-in"}, appear \in BOOLEAN}
  \cup {App("plain", "in-out", appear, 0, {"A", "B"}) : appear \in BOOLEAN}
  \cup {App("kept", mode, FALSE, 2, Three) : mode \in {"default", "out-in"}}
  \cup {App("kept", "default", FALSE, 1, Three)}
  \cup {App("kept", "in-out", FALSE, max, {"A", "B"}) : max \in 1..2}
  \cup {App("show", "default", appear, 0, {"A", Nothing}) : appear \in BOOLEAN}
================================================================================
