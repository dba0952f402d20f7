----------------------------- MODULE MCReactivity ------------------------------
(* Instances of Reactivity for TLC. *)
EXTENDS Reactivity, TLC
CONSTANTS s1, s2, c1, c2, e1, e2

\* Two computeds over one source; e1 reads both and writes what e2 reads.
MCCanRead == (c1 :> {s1}) @@ (c2 :> {s1, c1}) @@ (e1 :> {c1, c2}) @@ (e2 :> {c2, s2})
NoFeedback == (c1 :> {}) @@ (c2 :> {}) @@ (e1 :> {s2}) @@ (e2 :> {})
\* One computed; the effects also write its source.
Read1 == (c1 :> {s1}) @@ (e1 :> {c1}) @@ (e2 :> {c1, s1})
Feedback1 == (c1 :> {}) @@ (e1 :> {s1}) @@ (e2 :> {s1})
Calls1 == (c1 :> {}) @@ (e1 :> {e2}) @@ (e2 :> {})
OuterCalls == (c1 :> {}) @@ (c2 :> {}) @@ (e1 :> {e2}) @@ (e2 :> {})
================================================================================
