-------------------------------- MODULE MCWatch --------------------------------
(* Instances of Watch for TLC. *)
EXTENDS Watch

\* Two watchers, both of the component or both of a script, one of which reads
\* what the other does not.
MCSetups ==
  {f \in [Watchers -> Options] :
     /\ f[1].source = {"a"} /\ f[2].source = {"a", "b"}
     /\ f[1].owned = f[2].owned
     /\ f[1].kind # "array" /\ f[2].kind # "immediate"}
================================================================================
