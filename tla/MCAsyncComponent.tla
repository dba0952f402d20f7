--------------------------- MODULE MCAsyncComponent ----------------------------
(***************************************************************************)
(* AsyncComponent for TLC: two instances that may time out, the second     *)
(* perhaps after it made a request of its own, and one that a Suspense     *)
(* boundary waits for.  Nobody takes the errors of the second.             *)
(***************************************************************************)
EXTENDS AsyncComponent

CONSTANTS i1, i2, i3

================================================================================
