------------------------------ MODULE DeferredWork ------------------------------
(***************************************************************************)
(* What a scheduler promises to those who hand it work, whatever queues    *)
(* and flags it keeps: work that is handed over runs, once, unless it is   *)
(* cancelled; nothing else runs; and who asks to be told "when that is     *)
(* done" is told when what was due at that time has run.                   *)
(***************************************************************************)
CONSTANTS
  Jobs,   \* work that may be handed over again only when it has run
  Cbs,    \* work that may be handed over again at any time
  Ticks   \* those who ask to be told

VARIABLES
  due,    \* the work that is handed over and has yet to run
  asked,  \* who is still to be told
  waits   \* waits[t]: the work t waits for

vars == << due, asked, waits >>

Init ==
  /\ due = {}
  /\ asked = {}
  /\ waits = [t \in Ticks |-> {}]

Without(f) == [t \in Ticks |-> waits[t] \ {f}]

HandOver(work) ==
  /\ work \subseteq Cbs \/ \E j \in Jobs \ due : work = {j}
  /\ due' = due \cup work
  /\ UNCHANGED << asked, waits >>

Cancel(j) ==
  /\ j \in due
  /\ due' = due \ {j}
  /\ waits' = Without(j)
  /\ UNCHANGED asked

Run(f) ==
  /\ f \in due
  /\ due' = due \ {f} \/ (f \in Cbs /\ due' = due)  \* it was handed over twice
  /\ waits' = Without(f)
  /\ UNCHANGED asked

Ask(t) ==
  /\ t \notin asked
  /\ asked' = asked \cup {t}
  /\ waits' = [waits EXCEPT ![t] = due]
  /\ UNCHANGED due

Tell(t) ==
  /\ t \in asked /\ waits[t] = {}
  /\ asked' = asked \ {t}
  /\ UNCHANGED << due, waits >>

RunSome == \E f \in Jobs \cup Cbs : Run(f)
Next ==
  \/ \E work \in SUBSET (Jobs \cup Cbs) : HandOver(work)
  \/ \E j \in Jobs : Cancel(j)
  \/ RunSome
  \/ \E t \in Ticks : Ask(t) \/ Tell(t)

\* While work is due, work runs.
Spec == Init /\ [][Next]_vars /\ WF_vars(RunSome)
================================================================================
