------------------------------ MODULE Subsequence ------------------------------
(***************************************************************************)
(* The loops of the renderer over indices, and getSequence (renderer.ts):  *)
(* the longest increasing subsequence that tells the keyed diff which      *)
(* children need not move.  Indices are those of TLA+ sequences, one more  *)
(* than in the code.                                                       *)
(***************************************************************************)
EXTENDS Integers, Sequences, SequencesExt

\* The loops over the indices from a to b, up and down.
Up(op(_, _), st, a, b) ==
  LET f[k \in (a - 1)..b] == IF k < a THEN st ELSE op(f[k - 1], k)
  IN  IF b < a THEN st ELSE f[b]
Down(op(_, _), st, a, b) ==
  LET f[k \in a..(b + 1)] == IF k > b THEN st ELSE op(f[k + 1], k)
  IN  IF b < a THEN st ELSE f[a]

(* getSequence(arr): the indices of a longest increasing subsequence of arr. *)

\* The binary search for the first index of result that is not below x: each
\* round leaves fewer indices from u to v, so that Len(result) rounds are enough.
Halve(arr, result, x, s) ==
  LET c == (s.u + s.v) \div 2 IN
  IF s.u >= s.v THEN s
  ELSE IF arr[result[c]] < x THEN [s EXCEPT !.u = c + 1]
  ELSE [s EXCEPT !.v = c]
LowerBound(arr, result, x) ==
  Up(LAMBDA s, k : Halve(arr, result, x, s), [u |-> 1, v |-> Len(result)], 1, Len(result)).u

\* One step of the loop; p[i] is the index before i in the subsequence that
\* ends with it.
Extend(arr, st, i) ==
  IF arr[i] = 0 THEN st
  ELSE IF arr[Last(st.result)] < arr[i]
  THEN [p |-> [st.p EXCEPT ![i] = Last(st.result)], result |-> Append(st.result, i)]
  ELSE LET u == LowerBound(arr, st.result, arr[i]) IN
       IF arr[i] >= arr[st.result[u]] THEN st
       ELSE [p |-> IF u > 1 THEN [st.p EXCEPT ![i] = st.result[u - 1]] ELSE st.p,
             result |-> [st.result EXCEPT ![u] = i]]

\* The indices are followed back at the end.
Back(st, s, u) == [result |-> [s.result EXCEPT ![u] = s.v], v |-> st.p[s.v]]
GetSequence(arr) ==
  LET st == Up(LAMBDA s, i : Extend(arr, s, i), [p |-> arr, result |-> << 1 >>], 1, Len(arr))
  IN  Down(LAMBDA s, u : Back(st, s, u),
           [result |-> st.result, v |-> Last(st.result)], 1, Len(st.result)).result
================================================================================
