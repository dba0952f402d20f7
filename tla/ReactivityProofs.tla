--------------------------- MODULE ReactivityProofs ----------------------------
(***************************************************************************)
(* Theorems about Reactivity, for all sources, computeds, effects and code *)
(* they may run.  The theorem on DepsMirror needs only the types of the    *)
(* graph: nothing else in the state can break the mirror.  The last part   *)
(* is about EffectsCurrent and FreshOutsideTrigger.                        *)
(***************************************************************************)
EXTENDS Reactivity, FiniteSetTheorems, SequenceTheorems, WellFoundedInduction, TLAPS

GraphTyped == dep \in [Keys -> SUBSET Nodes] /\ deps \in [Nodes -> SUBSET Keys]
Mirror == GraphTyped /\ DepsMirror

\* cleanup() removes the node from both halves.
LEMMA CleanupMirror ==
  ASSUME Mirror, NEW n \in Nodes, Cleanup(n) PROVE Mirror'
<1>1. GraphTyped'
  BY DEF Mirror, GraphTyped, Cleanup
<1>2. DepsMirror'
  BY DEF Mirror, GraphTyped, DepsMirror, Cleanup
<1> QED
  BY <1>1, <1>2 DEF Mirror

\* track() adds to both halves, or to none.
LEMMA TrackMirror ==
  ASSUME Mirror, NEW k \in Keys, NEW n \in Nodes \cup {None}, NEW on \in BOOLEAN,
         Track(k, n, on)
  PROVE  Mirror'
<1>1. CASE on /\ n # None
  <2>1. /\ dep' = [dep EXCEPT ![k] = @ \cup {n}]
        /\ deps' = [deps EXCEPT ![n] = @ \cup {k}]
    BY <1>1 DEF Track, Tracked
  <2>2. n \in Nodes
    BY <1>1
  <2>3. GraphTyped'
    BY <2>1, <2>2 DEF Mirror, GraphTyped
  <2>4. DepsMirror'
    BY <2>1, <2>2 DEF Mirror, GraphTyped, DepsMirror
  <2> QED
    BY <2>3, <2>4 DEF Mirror
<1>2. CASE ~(on /\ n # None)
  BY <1>2 DEF Track, Tracked, Mirror, GraphTyped, DepsMirror
<1> QED
  BY <1>1, <1>2

LEMMA SameGraph ==
  ASSUME Mirror, UNCHANGED graph PROVE Mirror'
BY DEF Mirror, GraphTyped, DepsMirror, graph

LEMMA CallNodeMirror ==
  ASSUME Mirror, NEW n \in Nodes, NEW base, CallNode(n, base) PROVE Mirror'
<1>1. CASE StartRun(n, base)
  BY <1>1, CleanupMirror DEF StartRun
<1>2. CASE ~StartRun(n, base)
  BY <1>2, SameGraph DEF CallNode
<1> QED
  BY <1>1, <1>2

--------------------------------------------------------------------------------
(* Counting the runs and the pauses on a call stack. *)

LEMMA Finite ==
  ASSUME NEW st \in Seq(Frame)
  PROVE  /\ IsFiniteSet(RunsOf(st)) /\ Cardinality(RunsOf(st)) \in Nat
         /\ IsFiniteSet(PausesOf(st)) /\ Cardinality(PausesOf(st)) \in Nat
<1>1. IsFiniteSet(1..Len(st))
  BY FS_Interval
<1>2. RunsOf(st) \in SUBSET (1..Len(st)) /\ PausesOf(st) \in SUBSET (1..Len(st))
  BY DEF RunsOf, PausesOf
<1>3. IsFiniteSet(RunsOf(st)) /\ IsFiniteSet(PausesOf(st))
  BY <1>1, <1>2, FS_Subset
<1> QED
  BY <1>3, FS_CardinalityType

LEMMA Pushed ==
  ASSUME NEW st \in Seq(Frame), NEW f \in Frame, ~f.paused
  PROVE  /\ Append(st, f) \in Seq(Frame)
         /\ PausesOf(Append(st, f)) = PausesOf(st)
         /\ f.kind # "run" => RunsOf(Append(st, f)) = RunsOf(st)
         /\ f.kind = "run" =>
              Cardinality(RunsOf(Append(st, f))) = Cardinality(RunsOf(st)) + 1
<1> DEFINE n == Len(st) + 1
<1>1. /\ Append(st, f) \in Seq(Frame) /\ DOMAIN Append(st, f) = 1..n
      /\ DOMAIN st = 1..Len(st) /\ Len(st) \in Nat
      /\ Append(st, f)[n] = f
      /\ \A i \in 1..Len(st) : Append(st, f)[i] = st[i]
  OBVIOUS
<1>2. PausesOf(Append(st, f)) = PausesOf(st)
  BY <1>1 DEF PausesOf
<1>3. f.kind # "run" => RunsOf(Append(st, f)) = RunsOf(st)
  BY <1>1 DEF RunsOf
<1>4. ASSUME f.kind = "run"
      PROVE  Cardinality(RunsOf(Append(st, f))) = Cardinality(RunsOf(st)) + 1
  <2>1. RunsOf(Append(st, f)) = RunsOf(st) \cup {n} /\ n \notin RunsOf(st)
    BY <1>1, <1>4 DEF RunsOf
  <2> QED
    BY <2>1, Finite, FS_AddElement
<1> QED
  BY <1>1, <1>2, <1>3, <1>4

\* The first k elements of a sequence.
LEMMA Prefix ==
  ASSUME NEW S, NEW s \in Seq(S), NEW k \in 0..Len(s)
  PROVE  /\ SubSeq(s, 1, k) \in Seq(S) /\ Len(SubSeq(s, 1, k)) = k
         /\ \A i \in 1..k : SubSeq(s, 1, k)[i] = s[i]
<1> DEFINE t == SubSeq(s, 1, k)
<1>1. k \in Int /\ 1 \in Int /\ \A i \in 1..k : s[i] \in S
  BY SMT
<1>2. /\ t \in Seq(S) /\ Len(t) = IF 1 <= k THEN k - 1 + 1 ELSE 0
      /\ \A i \in 1..(k - 1 + 1) : t[i] = s[1 + i - 1]
  BY <1>1, SubSeqProperties
<1> HIDE DEF t
<1>3. /\ k - 1 + 1 = k /\ (IF 1 <= k THEN k - 1 + 1 ELSE 0) = k
      /\ \A i \in 1..k : 1 + i - 1 = i
  BY <1>1, SMT
<1>4. t \in Seq(S) /\ Len(t) = k /\ \A i \in 1..k : t[i] = s[i]
  BY <1>2, <1>3, SMT
<1> QED
  BY <1>4 DEF t

LEMMA AllButLast ==
  ASSUME NEW S, NEW s \in Seq(S), Len(s) > 0
  PROVE  Front(s) \in Seq(S) /\ Len(Front(s)) = Len(s) - 1 /\ Last(s) \in S
<1>1. Len(s) - 1 \in 0..Len(s) /\ Last(s) \in S
  BY DEF Last
<1>2. Front(s) = SubSeq(s, 1, Len(s) - 1)
  BY DEF Front
<1> QED
  BY <1>1, <1>2, Prefix

LEMMA PrefixCounts ==
  ASSUME NEW st \in Seq(Frame), NEW k \in 0..Len(st)
  PROVE  /\ RunsOf(SubSeq(st, 1, k)) = RunsOf(st) \ {i \in RunsOf(st) : i > k}
         /\ PausesOf(SubSeq(st, 1, k)) = PausesOf(st) \ {i \in PausesOf(st) : i > k}
<1> DEFINE t == SubSeq(st, 1, k)
<1>1. t \in Seq(Frame) /\ Len(t) = k /\ \A i \in 1..k : t[i] = st[i]
  BY Prefix
<1> HIDE DEF t
<1>2. DOMAIN t = 1..k /\ DOMAIN st = 1..Len(st) /\ k <= Len(st)
  BY <1>1, SMT
<1>3. RunsOf(t) = RunsOf(st) \ {i \in RunsOf(st) : i > k}
  BY <1>1, <1>2, SMT DEF RunsOf
<1>4. PausesOf(t) = PausesOf(st) \ {i \in PausesOf(st) : i > k}
  BY <1>1, <1>2, SMT DEF PausesOf
<1> QED
  BY <1>3, <1>4 DEF t

\* Leaving the last frame.
LEMMA Left ==
  ASSUME NEW st \in Seq(Frame), st # << >>, ~Last(st).paused
  PROVE  /\ Front(st) \in Seq(Frame)
         /\ PausesOf(Front(st)) = PausesOf(st)
         /\ Last(st).kind # "run" => RunsOf(Front(st)) = RunsOf(st)
         /\ Last(st).kind = "run" =>
              /\ Cardinality(RunsOf(Front(st))) = Cardinality(RunsOf(st)) - 1
              /\ Cardinality(RunsOf(st)) > 0
<1> DEFINE n == Len(st)
<1>1. /\ n - 1 \in 0..n /\ n \in Nat /\ n \in 1..n /\ DOMAIN st = 1..n
      /\ Front(st) = SubSeq(st, 1, n - 1) /\ Last(st) = st[n]
  BY DEF Front, Last
<1>2. /\ Front(st) \in Seq(Frame)
      /\ RunsOf(Front(st)) = RunsOf(st) \ {i \in RunsOf(st) : i > n - 1}
      /\ PausesOf(Front(st)) = PausesOf(st) \ {i \in PausesOf(st) : i > n - 1}
  <2>1. st \in Seq(Frame) /\ n - 1 \in 0..Len(st)
    BY <1>1
  <2> HIDE DEF n
  <2> QED
    BY <1>1, <2>1, Prefix, PrefixCounts
<1> HIDE DEF n
<1>3. \A i \in 1..n : i > n - 1 <=> i = n
  BY <1>1, SMT
<1>4. PausesOf(Front(st)) = PausesOf(st)
  BY <1>1, <1>2, <1>3 DEF PausesOf
<1>5. Last(st).kind # "run" => RunsOf(Front(st)) = RunsOf(st)
  BY <1>1, <1>2, <1>3 DEF RunsOf
<1>6. ASSUME Last(st).kind = "run"
      PROVE  /\ Cardinality(RunsOf(Front(st))) = Cardinality(RunsOf(st)) - 1
             /\ Cardinality(RunsOf(st)) > 0
  <2>1. n \in RunsOf(st) /\ RunsOf(Front(st)) = RunsOf(st) \ {n}
    BY <1>1, <1>2, <1>3, <1>6 DEF RunsOf
  <2>2. Cardinality(RunsOf(Front(st))) = Cardinality(RunsOf(st)) - 1
    BY <2>1, Finite, FS_RemoveElement
  <2>3. Cardinality(RunsOf(Front(st))) \in Nat /\ Cardinality(RunsOf(st)) \in Nat
    BY <1>2, Finite
  <2> QED
    BY <2>2, <2>3
<1> QED
  BY <1>2, <1>4, <1>5, <1>6

\* Changing what the last frame has to do, or whether it paused tracking.
LEMMA TodoChanged ==
  ASSUME NEW st \in Seq(Frame), st # << >>, NEW todo \in SUBSET Nodes
  PROVE  LET r == [st EXCEPT ![Len(st)].todo = todo] IN
         r \in Seq(Frame) /\ r # << >> /\ RunsOf(r) = RunsOf(st) /\ PausesOf(r) = PausesOf(st)
<1> DEFINE f == [st[Len(st)] EXCEPT !.todo = todo]
           r == [st EXCEPT ![Len(st)].todo = todo]
<1>1. st[Len(st)] \in Frame
  BY SMT
<1>2. f \in Frame /\ f.kind = st[Len(st)].kind /\ f.paused = st[Len(st)].paused
  BY <1>1, Zenon DEF Frame
<1>3. r = [st EXCEPT ![Len(st)] = f]
  OBVIOUS
<1> HIDE DEF f, r
<1>4. /\ r \in Seq(Frame) /\ DOMAIN r = DOMAIN st /\ r # << >>
      /\ \A i \in DOMAIN st : r[i] = IF i = Len(st) THEN f ELSE st[i]
  BY <1>2, <1>3, SMT
<1>5. RunsOf(r) = RunsOf(st)
  BY <1>2, <1>4 DEF RunsOf
<1>6. PausesOf(r) = PausesOf(st)
  BY <1>2, <1>4 DEF PausesOf
<1> QED
  BY <1>4, <1>5, <1>6 DEF r

LEMMA PausedChanged ==
  ASSUME NEW st \in Seq(Frame), st # << >>, NEW b \in BOOLEAN,
         Last(st).paused = ~b, Last(st).kind # "trigger"
  PROVE  LET r == [st EXCEPT ![Len(st)].paused = b] IN
         /\ r \in Seq(Frame) /\ RunsOf(r) = RunsOf(st)
         /\ b => Cardinality(PausesOf(r)) = Cardinality(PausesOf(st)) + 1
         /\ ~b => /\ Cardinality(PausesOf(r)) = Cardinality(PausesOf(st)) - 1
                  /\ Cardinality(PausesOf(st)) > 0
<1> DEFINE n == Len(st)
           f == [st[n] EXCEPT !.paused = b]
           r == [st EXCEPT ![n].paused = b]
<1>1. st[n] \in Frame /\ n \in DOMAIN st /\ Last(st) = st[n]
  BY SMT DEF Last
<1>2. f \in Frame /\ f.kind = st[n].kind /\ f.paused = b
  <2>1. f.kind = st[n].kind /\ f.paused = b
    BY <1>1, Zenon DEF Frame
  <2>2. f.kind # "trigger"
    BY <1>1, <2>1
  <2> QED
    BY <1>1, <2>1, <2>2, Zenon DEF Frame
<1>3. r = [st EXCEPT ![n] = f]
  OBVIOUS
<1> HIDE DEF f, r
<1>4. /\ r \in Seq(Frame) /\ DOMAIN r = DOMAIN st
      /\ \A i \in DOMAIN st : r[i] = IF i = n THEN f ELSE st[i]
  BY <1>2, <1>3, SMT
<1> HIDE DEF n
<1>5. RunsOf(r) = RunsOf(st)
  BY <1>2, <1>4 DEF RunsOf
<1>6. /\ IsFiniteSet(PausesOf(st)) /\ Cardinality(PausesOf(st)) \in Nat
      /\ Cardinality(PausesOf(r)) \in Nat
  BY <1>4, Finite
<1>7. CASE b
  <2>1. PausesOf(r) = PausesOf(st) \cup {n} /\ n \notin PausesOf(st)
    BY <1>1, <1>2, <1>4, <1>7, Zenon DEF PausesOf
  <2>2. Cardinality(PausesOf(r)) = Cardinality(PausesOf(st)) + 1
    BY <2>1, <1>6, FS_AddElement
  <2> QED
    BY <1>4, <1>5, <1>7, <2>2 DEF r, n
<1>8. CASE ~b
  <2>1. PausesOf(r) = PausesOf(st) \ {n} /\ n \in PausesOf(st)
    BY <1>1, <1>2, <1>4, <1>8, Zenon DEF PausesOf
  <2>2. Cardinality(PausesOf(r)) = Cardinality(PausesOf(st)) - 1
    BY <2>1, <1>6, FS_RemoveElement
  <2>3. Cardinality(PausesOf(st)) > 0
    BY <2>2, <1>6
  <2> QED
    BY <1>4, <1>5, <1>8, <2>2, <2>3 DEF r, n
<1> QED
  BY <1>7, <1>8

--------------------------------------------------------------------------------
(* The stacks: their types, and their lengths against the call stack. *)

StacksTyped ==
  /\ shouldTrack \in BOOLEAN /\ trackStack \in Seq(BOOLEAN)
  /\ effectStack \in Seq(Nodes)
  /\ stack \in Seq(Frame) /\ lost \in Nat
Balanced == StacksTyped /\ TrackingBalanced

\* The lengths of the stacks while they are balanced.
LEMMA Lengths ==
  ASSUME Balanced
  PROVE  /\ Len(stack) \in Nat /\ Len(trackStack) \in Nat /\ Len(effectStack) \in Nat
         /\ Cardinality(RunsOf(stack)) \in Nat /\ Cardinality(PausesOf(stack)) \in Nat
         /\ lost \in Nat
         /\ Len(effectStack) = Cardinality(RunsOf(stack))
         /\ Len(trackStack) = Len(effectStack) + Cardinality(PausesOf(stack)) + lost
BY Finite DEF Balanced, StacksTyped, TrackingBalanced

LEMMA FramesTyped ==
  /\ \A n \in Nodes : CodeFrame("run", n) \in Frame /\ CodeFrame("raw", n) \in Frame
  /\ \A todo \in SUBSET Nodes : TriggerFrame(todo) \in Frame
BY DEF CodeFrame, TriggerFrame, Frame

LEMMA FrameFields ==
  /\ \A kind, n : /\ CodeFrame(kind, n).kind = kind /\ ~CodeFrame(kind, n).paused
                   /\ ~CodeFrame(kind, n).spoilt
  /\ \A todo : /\ TriggerFrame(todo).kind = "trigger" /\ ~TriggerFrame(todo).paused
                /\ ~TriggerFrame(todo).spoilt
BY DEF CodeFrame, TriggerFrame

\* Pushing a frame that is not a run changes no other stack.
LEMMA PushBalanced ==
  ASSUME Balanced, NEW base \in Seq(Frame), NEW f \in Frame,
         RunsOf(base) = RunsOf(stack), PausesOf(base) = PausesOf(stack),
         ~f.paused, f.kind # "run",
         stack' = Append(base, f), UNCHANGED tracking
  PROVE  Balanced'
<1>1. /\ stack' \in Seq(Frame)
      /\ RunsOf(stack') = RunsOf(stack) /\ PausesOf(stack') = PausesOf(stack)
  BY Pushed
<1> QED
  BY <1>1 DEF Balanced, StacksTyped, TrackingBalanced, tracking

\* Nor does leaving one.
LEMMA LeaveBalanced ==
  ASSUME Balanced, stack # << >>, ~Top.paused, Top.kind # "run",
         stack' = Front(stack), UNCHANGED tracking
  PROVE  Balanced'
<1>1. stack \in Seq(Frame)
  BY DEF Balanced, StacksTyped
<1>2. /\ stack' \in Seq(Frame)
      /\ RunsOf(stack') = RunsOf(stack) /\ PausesOf(stack') = PausesOf(stack)
  BY <1>1, Left DEF Top
<1> QED
  BY <1>2 DEF Balanced, StacksTyped, TrackingBalanced, tracking

\* Only the bottom of the stack of calls, what trigger() has to do, changes.
LEMMA SameBalanced ==
  ASSUME Balanced, stack' \in Seq(Frame),
         RunsOf(stack') = RunsOf(stack), PausesOf(stack') = PausesOf(stack),
         UNCHANGED tracking
  PROVE  Balanced'
BY DEF Balanced, StacksTyped, TrackingBalanced, tracking

LEMMA StartRunBalanced ==
  ASSUME Balanced, NEW n \in Nodes, NEW base \in Seq(Frame),
         RunsOf(base) = RunsOf(stack), PausesOf(base) = PausesOf(stack),
         StartRun(n, base)
  PROVE  Balanced'
<1>1. /\ stack' \in Seq(Frame) /\ PausesOf(stack') = PausesOf(stack)
      /\ Cardinality(RunsOf(stack')) = Cardinality(RunsOf(stack)) + 1
  <2>1. CodeFrame("run", n) \in Frame
    BY FramesTyped
  <2> QED
    BY <2>1, FrameFields, Pushed DEF StartRun
<1>2. /\ shouldTrack' \in BOOLEAN /\ trackStack' \in Seq(BOOLEAN)
      /\ effectStack' \in Seq(Nodes) /\ lost' = lost /\ lost \in Nat
      /\ Len(trackStack') = Len(trackStack) + 1 /\ Len(effectStack') = Len(effectStack) + 1
  BY DEF StartRun, Balanced, StacksTyped
<1>3. /\ Cardinality(RunsOf(stack)) \in Nat /\ Cardinality(PausesOf(stack)) \in Nat
      /\ Len(trackStack) \in Nat /\ Len(effectStack) \in Nat
  BY Finite DEF Balanced, StacksTyped
<1>4. TrackingBalanced'
  <2>0. /\ Len(trackStack) \in Nat /\ Len(effectStack) \in Nat
        /\ Cardinality(RunsOf(stack)) \in Nat /\ Cardinality(PausesOf(stack)) \in Nat
        /\ lost \in Nat /\ Len(effectStack) = Cardinality(RunsOf(stack))
        /\ Len(trackStack) = Len(effectStack) + Cardinality(PausesOf(stack)) + lost
    BY Lengths, Zenon
  <2>1. Len(trackStack) + 1 = (Len(effectStack) + 1) + Cardinality(PausesOf(stack)) + lost
    BY <2>0
  <2> QED
    BY <1>1, <1>2, <2>1, Lengths, Zenon DEF TrackingBalanced
<1> QED
  BY <1>1, <1>2, <1>4 DEF Balanced, StacksTyped

LEMMA CallNodeBalanced ==
  ASSUME Balanced, NEW n \in Nodes, NEW base \in Seq(Frame),
         RunsOf(base) = RunsOf(stack), PausesOf(base) = PausesOf(stack),
         CallNode(n, base)
  PROVE  Balanced'
<1>1. CASE StartRun(n, base)
  BY <1>1, StartRunBalanced
<1>2. CASE stack' = base /\ UNCHANGED tracking
  BY <1>2, SameBalanced
<1>3. CASE stack' = Append(base, CodeFrame("raw", n)) /\ UNCHANGED tracking
  <2>1. CodeFrame("raw", n) \in Frame
    BY FramesTyped
  <2> QED
    BY <1>3, <2>1, FrameFields, PushBalanced
<1> QED
  BY <1>1, <1>2, <1>3 DEF CallNode

\* The first k elements of the stack, and the others counted.
LEMMA EndRunBalanced ==
  ASSUME Balanced, stack # << >>, ~Top.paused, Top.kind = "run",
         effectStack' = Front(effectStack), trackStack' = Popped,
         shouldTrack' = Restored, stack' = Front(stack), UNCHANGED lost
  PROVE  Balanced'
<1>1. /\ stack \in Seq(Frame) /\ effectStack \in Seq(Nodes) /\ trackStack \in Seq(BOOLEAN)
      /\ lost \in Nat /\ lost' = lost
  BY DEF Balanced, StacksTyped
<1>2. /\ stack' \in Seq(Frame) /\ PausesOf(stack') = PausesOf(stack)
      /\ Cardinality(RunsOf(stack')) = Cardinality(RunsOf(stack)) - 1
      /\ Cardinality(RunsOf(stack)) > 0
  BY <1>1, Left DEF Top
<1>3. /\ Cardinality(RunsOf(stack)) \in Nat /\ Cardinality(PausesOf(stack)) \in Nat
      /\ Len(trackStack) \in Nat /\ Len(effectStack) \in Nat
  BY <1>1, Finite
<1>4. Len(effectStack) > 0 /\ Len(trackStack) > 0
  BY <1>1, <1>2, <1>3 DEF Balanced, TrackingBalanced
<1>5. /\ effectStack' \in Seq(Nodes) /\ Len(effectStack') = Len(effectStack) - 1
      /\ trackStack' \in Seq(BOOLEAN) /\ Len(trackStack') = Len(trackStack) - 1
  BY <1>1, <1>4, AllButLast DEF Popped
<1>6. shouldTrack' \in BOOLEAN
  BY <1>1, <1>4, AllButLast DEF Restored
<1>7. TrackingBalanced'
  <2>0. /\ Len(trackStack) \in Nat /\ Len(effectStack) \in Nat
        /\ Cardinality(RunsOf(stack)) \in Nat /\ Cardinality(PausesOf(stack)) \in Nat
        /\ lost \in Nat /\ Len(effectStack) = Cardinality(RunsOf(stack))
        /\ Len(trackStack) = Len(effectStack) + Cardinality(PausesOf(stack)) + lost
    BY Lengths, Zenon
  <2>1. Len(trackStack) - 1 = (Len(effectStack) - 1) + Cardinality(PausesOf(stack)) + lost
    BY <2>0
  <2> QED
    BY <1>1, <1>2, <1>5, <2>1, Lengths, Zenon DEF TrackingBalanced
<1> QED
  BY <1>1, <1>2, <1>5, <1>6, <1>7 DEF Balanced, StacksTyped

LEMMA PauseBalanced == Balanced /\ PauseTracking => Balanced'
<1> SUFFICES ASSUME Balanced, PauseTracking PROVE Balanced'
  OBVIOUS
<1>1. stack \in Seq(Frame) /\ trackStack \in Seq(BOOLEAN) /\ shouldTrack \in BOOLEAN
  BY DEF Balanced, StacksTyped
<1>2. /\ stack' \in Seq(Frame) /\ RunsOf(stack') = RunsOf(stack)
      /\ Cardinality(PausesOf(stack')) = Cardinality(PausesOf(stack)) + 1
  <2>1. stack # << >> /\ ~Last(stack).paused /\ Last(stack).kind # "trigger"
    BY Zenon DEF PauseTracking, InCode, Top
  <2>2. Last(stack).paused = ~TRUE
    <3>1. Last(stack) \in Frame
      BY <1>1, <2>1 DEF Last
    <3>2. Last(stack).paused \in BOOLEAN
      BY <3>1, Zenon DEF Frame
    <3> QED
      BY <2>1, <3>2, Zenon
  <2> QED
    BY <1>1, <2>1, <2>2, PausedChanged DEF PauseTracking
<1>3. /\ trackStack' \in Seq(BOOLEAN) /\ Len(trackStack') = Len(trackStack) + 1
      /\ shouldTrack' \in BOOLEAN /\ UNCHANGED << effectStack, lost >>
  <2>1. /\ trackStack' = Append(trackStack, shouldTrack)
        /\ shouldTrack' = FALSE /\ effectStack' = effectStack /\ lost' = lost
    BY DEF PauseTracking
  <2>2. /\ Append(trackStack, shouldTrack) \in Seq(BOOLEAN)
        /\ Len(Append(trackStack, shouldTrack)) = Len(trackStack) + 1
    BY <1>1, AppendProperties
  <2> QED
    BY <2>1, <2>2, Zenon
<1>4. /\ Cardinality(PausesOf(stack)) \in Nat /\ Len(trackStack) \in Nat
      /\ Len(effectStack) \in Nat /\ lost \in Nat
  BY <1>1, Finite DEF Balanced, StacksTyped
<1>5. TrackingBalanced'
  <2>0. /\ Len(trackStack) \in Nat /\ Len(effectStack) \in Nat
        /\ Cardinality(RunsOf(stack)) \in Nat /\ Cardinality(PausesOf(stack)) \in Nat
        /\ lost \in Nat /\ Len(effectStack) = Cardinality(RunsOf(stack))
        /\ Len(trackStack) = Len(effectStack) + Cardinality(PausesOf(stack)) + lost
    BY Lengths, Zenon
  <2>1. Len(trackStack) + 1 = Len(effectStack) + (Cardinality(PausesOf(stack)) + 1) + lost
    BY <2>0
  <2> QED
    BY <1>2, <1>3, <2>1, Lengths, Zenon DEF TrackingBalanced
<1> QED
  BY <1>2, <1>3, <1>4, <1>5 DEF Balanced, StacksTyped

LEMMA ResetBalanced == Balanced /\ ResetTracking => Balanced'
<1> SUFFICES ASSUME Balanced, ResetTracking PROVE Balanced'
  OBVIOUS
<1>1. /\ stack \in Seq(Frame) /\ trackStack \in Seq(BOOLEAN) /\ effectStack \in Seq(Nodes)
      /\ lost \in Nat
  BY DEF Balanced, StacksTyped
<1>2. /\ stack' \in Seq(Frame) /\ RunsOf(stack') = RunsOf(stack)
      /\ Cardinality(PausesOf(stack')) = Cardinality(PausesOf(stack)) - 1
      /\ Cardinality(PausesOf(stack)) > 0
  <2>1. stack # << >> /\ Last(stack).paused /\ Last(stack).kind # "trigger"
    BY Zenon DEF ResetTracking, InCode, Top
  <2>2. Last(stack).paused = ~FALSE
    <3>1. Last(stack) \in Frame
      BY <1>1, <2>1 DEF Last
    <3>2. Last(stack).paused \in BOOLEAN
      BY <3>1, Zenon DEF Frame
    <3> QED
      BY <2>1, <3>2, Zenon
  <2> QED
    BY <1>1, <2>1, <2>2, PausedChanged DEF ResetTracking
<1>3. /\ Cardinality(PausesOf(stack)) \in Nat /\ Len(trackStack) \in Nat
      /\ Len(effectStack) \in Nat /\ UNCHANGED << effectStack, lost >>
  BY <1>1, Finite DEF ResetTracking
<1>4. Len(trackStack) > 0
  BY <1>1, <1>2, <1>3 DEF Balanced, TrackingBalanced
<1>5. trackStack' \in Seq(BOOLEAN) /\ Len(trackStack') = Len(trackStack) - 1
  BY <1>1, <1>4, AllButLast DEF Popped, ResetTracking
<1>6. shouldTrack' \in BOOLEAN
  BY <1>1, <1>4, AllButLast DEF Restored, ResetTracking
<1>7. TrackingBalanced'
  <2>0. /\ Len(trackStack) \in Nat /\ Len(effectStack) \in Nat
        /\ Cardinality(RunsOf(stack)) \in Nat /\ Cardinality(PausesOf(stack)) \in Nat
        /\ lost \in Nat /\ Len(effectStack) = Cardinality(RunsOf(stack))
        /\ Len(trackStack) = Len(effectStack) + Cardinality(PausesOf(stack)) + lost
    BY Lengths, Zenon
  <2>1. Len(trackStack) - 1 = Len(effectStack) + (Cardinality(PausesOf(stack)) - 1) + lost
    BY <2>0
  <2> QED
    BY <1>2, <1>3, <1>5, <2>1, Lengths, Zenon DEF TrackingBalanced
<1> QED
  BY <1>1, <1>2, <1>3, <1>5, <1>6, <1>7 DEF Balanced, StacksTyped

\* The numbers of a set that are above p.
LEMMA Above ==
  ASSUME NEW S, IsFiniteSet(S), NEW p
  PROVE  LET gone == {i \in S : i > p} IN
         /\ IsFiniteSet(gone) /\ Cardinality(gone) \in Nat
         /\ Cardinality(gone) <= Cardinality(S)
         /\ Cardinality(S \ gone) = Cardinality(S) - Cardinality(gone)
<1> DEFINE gone == {i \in S : i > p}
<1>1. gone \in SUBSET S /\ S \cap gone = gone
  OBVIOUS
<1> HIDE DEF gone
<1>2. IsFiniteSet(gone) /\ Cardinality(gone) <= Cardinality(S)
  BY <1>1, FS_Subset
<1>3. Cardinality(S \ gone) = Cardinality(S) - Cardinality(gone)
  BY <1>1, FS_Difference
<1> QED
  BY <1>2, <1>3, FS_CardinalityType DEF gone

\* What an exception leaves of the call stack.
LEMMA CaughtStack ==
  ASSUME stack \in Seq(Frame), NEW k \in 0..Len(stack), NEW p \in (k - 1)..k
  PROVE  /\ Caught(k, p) \in Seq(Frame) /\ Len(Caught(k, p)) = k
         /\ RunsOf(Caught(k, p)) = RunsOf(stack) \ {i \in RunsOf(stack) : i > k}
         /\ PausesOf(Caught(k, p)) = PausesOf(stack) \ {i \in PausesOf(stack) : i > p}
         /\ \A i \in 1..k : Caught(k, p)[i].node = stack[i].node
         /\ \/ /\ Caught(k, p) = SubSeq(stack, 1, k)
               /\ {i \in PausesOf(stack) : i > p} = {}
            \/ /\ \A i \in 1..k : Caught(k, p)[i].spoilt
               /\ {i \in PausesOf(stack) : i > p} # {}
<1> DEFINE c == Caught(k, p)
           n == Len(stack)
<1>1. /\ n \in Nat /\ k \in Nat /\ k \in 0..n /\ p \in Int /\ p <= k /\ k - 1 <= p
      /\ DOMAIN stack = 1..n /\ \A i \in 1..n : stack[i] \in Frame
  OBVIOUS
<1> HIDE DEF n
<1>2. PausesOf(stack) \in SUBSET (1..n)
  BY <1>1 DEF PausesOf
<1>3. CASE \A i \in PausesOf(stack) : i <= p
  <2>1. c = SubSeq(stack, 1, k)
    BY <1>3, Zenon DEF Caught
  <2>2. /\ SubSeq(stack, 1, k) \in Seq(Frame) /\ Len(SubSeq(stack, 1, k)) = k
        /\ \A i \in 1..k : SubSeq(stack, 1, k)[i] = stack[i]
        /\ RunsOf(SubSeq(stack, 1, k)) = RunsOf(stack) \ {i \in RunsOf(stack) : i > k}
        /\ PausesOf(SubSeq(stack, 1, k)) = PausesOf(stack) \ {i \in PausesOf(stack) : i > k}
    BY Prefix, PrefixCounts
  <2>3. \A i \in PausesOf(stack) : ~(i > p) /\ ~(i > k)
    BY <1>1, <1>2, <1>3
  <2>4. {i \in PausesOf(stack) : i > p} = {} /\ {i \in PausesOf(stack) : i > k} = {}
    BY <2>3, Zenon
  <2> HIDE DEF c
  <2>5. c \in Seq(Frame) /\ Len(c) = k /\ \A i \in 1..k : c[i].node = stack[i].node
    BY <2>1, <2>2
  <2>6. /\ RunsOf(c) = RunsOf(stack) \ {i \in RunsOf(stack) : i > k}
        /\ PausesOf(c) = PausesOf(stack) \ {i \in PausesOf(stack) : i > p}
    BY <2>1, <2>2, <2>4, Zenon
  <2> QED
    BY <2>1, <2>4, <2>5, <2>6 DEF c
<1>4. CASE ~ \A i \in PausesOf(stack) : i <= p
  <2> DEFINE g(i) == [stack[i] EXCEPT !.paused = @ /\ i <= p, !.spoilt = TRUE]
  <2>1. c = [i \in 1..k |-> g(i)]
    BY <1>4 DEF Caught
  <2>2. ASSUME NEW i \in 1..k
        PROVE  /\ g(i) \in Frame /\ g(i).kind = stack[i].kind /\ g(i).node = stack[i].node
               /\ g(i).spoilt = TRUE /\ g(i).paused = (stack[i].paused /\ i <= p)
    <3>1. stack[i] \in Frame
      BY <1>1
    <3>2. /\ g(i).kind = stack[i].kind /\ g(i).node = stack[i].node
          /\ g(i).spoilt = TRUE /\ g(i).paused = (stack[i].paused /\ i <= p)
      BY <3>1, Zenon DEF Frame
    <3>3. g(i) \in [kind : {"run", "raw", "trigger"}, node : Nodes \cup {None},
                    todo : SUBSET Nodes, paused : BOOLEAN, spoilt : BOOLEAN]
      BY <3>1 DEF Frame
    <3>4. g(i).kind = "trigger" => ~g(i).paused
      BY <3>1, <3>2, Zenon DEF Frame
    <3> HIDE DEF g
    <3> QED
      BY <3>2, <3>3, <3>4, Zenon DEF Frame
  <2> HIDE DEF g
  <2>3. c \in [1..k -> Frame]
    BY <2>1, <2>2, Zenon
  <2>4. c \in Seq(Frame) /\ Len(c) = k /\ DOMAIN c = 1..k
    <3> HIDE DEF c
    <3> QED
      BY <1>1, <2>3
  <2>5. /\ \A i \in 1..k : /\ c[i].kind = stack[i].kind /\ c[i].node = stack[i].node
                           /\ c[i].spoilt = TRUE /\ c[i].paused = (stack[i].paused /\ i <= p)
        /\ \A i \in DOMAIN stack : i \in 1..k <=> ~(i > k)
        /\ \A i \in DOMAIN stack : i \in 1..k /\ i <= p <=> ~(i > p)
        /\ \A i \in 1..k : i \in DOMAIN stack
    <3>1. /\ \A i \in 1..n : i \in 1..k <=> ~(i > k)
          /\ \A i \in 1..n : i \in 1..k /\ i <= p <=> ~(i > p)
          /\ \A i \in 1..k : i \in 1..n
      BY <1>1
    <3>2. \A i \in 1..k : c[i] = g(i)
      BY <2>1, Zenon
    <3> QED
      BY <1>1, <2>2, <3>1, <3>2, Zenon
  <2> HIDE DEF c
  <2>6. RunsOf(c) = RunsOf(stack) \ {i \in RunsOf(stack) : i > k}
    BY <2>4, <2>5, Zenon DEF RunsOf
  <2>7. PausesOf(c) = PausesOf(stack) \ {i \in PausesOf(stack) : i > p}
    BY <2>4, <2>5, Zenon DEF PausesOf
  <2>8. {i \in PausesOf(stack) : i > p} # {}
    BY <1>1, <1>2, <1>4
  <2> QED
    BY <2>4, <2>5, <2>6, <2>7, <2>8, Zenon DEF c
<1> QED
  BY <1>3, <1>4

\* An exception pops one entry of each stack for every run it crosses, and
\* leaves the entries of the pauses.
LEMMA ThrowBalanced == Balanced /\ Throw => Balanced'
<1> SUFFICES ASSUME Balanced, Throw PROVE Balanced'
  OBVIOUS
<1>1. /\ stack \in Seq(Frame) /\ trackStack \in Seq(BOOLEAN) /\ effectStack \in Seq(Nodes)
      /\ lost \in Nat
  BY DEF Balanced, StacksTyped
<1>2. Len(stack) \in Nat /\ Len(trackStack) \in Nat /\ Len(effectStack) \in Nat
  BY <1>1
<1> DEFINE crossed(k) == {i \in RunsOf(stack) : i > k}
           gone(p) == {i \in PausesOf(stack) : i > p}
<1> DEFINE undone(k, p) ==
        /\ effectStack' = SubSeq(effectStack, 1, Len(effectStack) - Cardinality(crossed(k)))
        /\ trackStack' = SubSeq(trackStack, 1, Len(trackStack) - Cardinality(crossed(k)))
        /\ shouldTrack' = IF Cardinality(crossed(k)) = 0 THEN shouldTrack
                          ELSE trackStack[Len(trackStack) - Cardinality(crossed(k)) + 1]
        /\ lost' = lost + Cardinality(gone(p))
        /\ stack' = Caught(k, p)
<1>a. PICK k \in 0..Len(stack) : \E p \in (k - 1)..k : undone(k, p)
  BY Zenon DEF Throw
<1>3. PICK p \in (k - 1)..k : undone(k, p)
  BY <1>a, Zenon
<1> DEFINE runs == Cardinality(crossed(k))
           left == Cardinality(gone(p))
<1>4. /\ stack' \in Seq(Frame) /\ RunsOf(stack') = RunsOf(stack) \ crossed(k)
      /\ PausesOf(stack') = PausesOf(stack) \ gone(p)
  BY <1>1, <1>3, CaughtStack
<1>6. /\ runs \in Nat /\ runs <= Cardinality(RunsOf(stack))
      /\ Cardinality(RunsOf(stack')) = Cardinality(RunsOf(stack)) - runs
  BY <1>1, <1>4, Finite, Above
<1>7. /\ left \in Nat
      /\ Cardinality(PausesOf(stack')) = Cardinality(PausesOf(stack)) - left
  BY <1>1, <1>4, Finite, Above
<1> HIDE DEF runs, left, crossed, gone
<1>8. /\ Len(trackStack) \in Nat /\ Len(effectStack) \in Nat
      /\ Cardinality(RunsOf(stack)) \in Nat /\ Cardinality(PausesOf(stack)) \in Nat
      /\ lost \in Nat /\ Len(effectStack) = Cardinality(RunsOf(stack))
      /\ Len(trackStack) = Len(effectStack) + Cardinality(PausesOf(stack)) + lost
  BY Lengths, Zenon
<1> DEFINE e == Len(effectStack)
           t == Len(trackStack)
           q == Cardinality(PausesOf(stack))
<1>9. e - runs \in 0..e /\ t - runs \in 0..t /\ t - runs = (e - runs) + (q - left) + (lost + left)
  <2>1. /\ e \in Nat /\ t \in Nat /\ q \in Nat /\ lost \in Nat /\ t = e + q + lost
        /\ runs \in Nat /\ runs <= e /\ left \in Nat
    BY <1>6, <1>7, <1>8, Zenon
  <2> HIDE DEF e, t, q
  <2> QED
    BY <2>1
<1>10. /\ effectStack' \in Seq(Nodes) /\ Len(effectStack') = Len(effectStack) - runs
       /\ trackStack' \in Seq(BOOLEAN) /\ Len(trackStack') = Len(trackStack) - runs
  BY <1>1, <1>3, <1>9, Prefix DEF runs
<1>11. shouldTrack' \in BOOLEAN
  <2>1. CASE runs = 0
    BY <1>3, <2>1 DEF runs, Balanced, StacksTyped
  <2>2. CASE runs # 0
    <3>1. Len(trackStack) - runs + 1 \in 1..Len(trackStack)
      BY <1>2, <1>6, <1>9, <2>2
    <3>2. trackStack[Len(trackStack) - runs + 1] \in BOOLEAN
      BY <1>1, <3>1, ElementOfSeq
    <3> QED
      BY <1>3, <2>2, <3>2 DEF runs
  <2> QED
    BY <2>1, <2>2
<1>12. lost' = lost + left /\ lost' \in Nat
  <2>1. lost' = lost + left
    BY <1>3, Zenon DEF left
  <2> QED
    BY <1>1, <1>7, <2>1
<1>13. TrackingBalanced'
  BY <1>6, <1>7, <1>8, <1>9, <1>10, <1>12, Zenon DEF TrackingBalanced
<1> QED
  BY <1>4, <1>10, <1>11, <1>12, <1>13 DEF Balanced, StacksTyped

LEMMA BalancedStep == GraphTyped /\ Balanced /\ [Next]_vars => Balanced'
<1> SUFFICES ASSUME GraphTyped, Balanced, [Next]_vars PROVE Balanced'
  OBVIOUS
<1>a. stack \in Seq(Frame) /\ RunsOf(stack) = RunsOf(stack) /\ PausesOf(stack) = PausesOf(stack)
  BY DEF Balanced, StacksTyped
<1>b. \A k \in Keys : TriggerFrame(Collected(k)) \in Frame
  BY FramesTyped DEF GraphTyped, Collected
<1>1. ASSUME NEW n \in Nodes, CreateEffect(n) PROVE Balanced'
  BY <1>a, <1>1, StartRunBalanced DEF CreateEffect
<1>2. ASSUME NEW n \in Nodes, CreateLazy(n) PROVE Balanced'
  BY <1>a, <1>2, SameBalanced DEF CreateLazy
<1>3. ASSUME NEW n \in Nodes, Call(n) PROVE Balanced'
  BY <1>a, <1>3, CallNodeBalanced DEF Call
<1>4. ASSUME NEW n \in Nodes, TriggerNext(n) PROVE Balanced'
  <2> DEFINE rest == [stack EXCEPT ![Len(stack)].todo = @ \ {n}]
  <2>1. /\ rest \in Seq(Frame)
        /\ RunsOf(rest) = RunsOf(stack) /\ PausesOf(rest) = PausesOf(stack)
    <3>1. stack # << >>
      BY <1>4, Zenon DEF TriggerNext, InTrigger
    <3>2. stack[Len(stack)].todo \ {n} \in SUBSET Nodes
      <4>1. stack[Len(stack)] \in Frame
        BY <1>a, <3>1
      <4> QED
        BY <4>1, Zenon DEF Frame
    <3>3. rest = [stack EXCEPT ![Len(stack)].todo = stack[Len(stack)].todo \ {n}]
      OBVIOUS
    <3> QED
      BY <1>a, <3>1, <3>2, <3>3, TodoChanged
  <2>2. \/ stack' = Append(rest, TriggerFrame(Collected(n))) /\ n \in Keys /\ UNCHANGED tracking
        \/ stack' = rest /\ UNCHANGED tracking
        \/ CallNode(n, rest)
    BY <1>4, Zenon DEF TriggerNext, Keys
  <2> HIDE DEF rest
  <2>3. CASE stack' = Append(rest, TriggerFrame(Collected(n))) /\ n \in Keys /\ UNCHANGED tracking
    BY <1>b, <2>1, <2>3, FrameFields, PushBalanced
  <2>4. CASE stack' = rest /\ UNCHANGED tracking
    BY <2>1, <2>4, SameBalanced
  <2>5. CASE CallNode(n, rest)
    BY <2>1, <2>5, CallNodeBalanced
  <2> QED
    BY <2>2, <2>3, <2>4, <2>5
<1>5. ASSUME NEW n \in Nodes, RunQueued(n) PROVE Balanced'
  BY <1>a, <1>5, CallNodeBalanced DEF RunQueued
<1>6. ASSUME NEW n \in Nodes, Stop(n) PROVE Balanced'
  BY <1>a, <1>6, SameBalanced DEF Stop
<1>7. ASSUME NEW k \in Keys, ReadSource(k) PROVE Balanced'
  BY <1>a, <1>7, SameBalanced DEF ReadSource
<1>8. ASSUME NEW k \in Keys, ReadCached(k) PROVE Balanced'
  BY <1>a, <1>8, SameBalanced DEF ReadCached
<1>9. ASSUME NEW k \in Keys, ReadDirty(k) PROVE Balanced'
  BY <1>a, <1>9, StartRunBalanced DEF ReadDirty, Nodes
<1>10. ASSUME NEW k \in Keys, Write(k) PROVE Balanced'
  BY <1>a, <1>b, <1>10, FrameFields, PushBalanced DEF Write
<1>11. CASE EndEffect
  BY <1>11, EndRunBalanced DEF EndEffect, InCode
<1>12. CASE EndComputed
  BY <1>12, EndRunBalanced DEF EndComputed, InCode
<1>13. CASE EndRaw
  BY <1>13, LeaveBalanced DEF EndRaw, InCode
<1>14. CASE EndTrigger
  <2>1. stack # << >> /\ Top.kind = "trigger" /\ stack' = Front(stack) /\ UNCHANGED tracking
    BY <1>14 DEF EndTrigger, InTrigger
  <2>2. ~Top.paused
    <3>1. Top \in Frame
      BY <1>a, <2>1 DEF Top, Last
    <3> QED
      BY <2>1, <3>1, Zenon DEF Frame
  <2> QED
    BY <2>1, <2>2, LeaveBalanced
<1>15. CASE PauseTracking
  BY <1>15, PauseBalanced
<1>16. CASE ResetTracking
  BY <1>16, ResetBalanced
<1>17. CASE Throw
  BY <1>17, ThrowBalanced
<1>18. CASE UNCHANGED vars
  BY <1>a, <1>18, SameBalanced DEF vars, tracking
<1> QED
  BY <1>1, <1>2, <1>3, <1>4, <1>5, <1>6, <1>7, <1>8, <1>9, <1>10, <1>11, <1>12,
     <1>13, <1>14, <1>15, <1>16, <1>17, <1>18, Zenon DEF Next

--------------------------------------------------------------------------------
(* The graph. *)

\* What reads are tracked for is a node, or nothing.
LEMMA ActiveType ==
  ASSUME NEW s \in Seq(Nodes)
  PROVE  (IF s = << >> THEN None ELSE Last(s)) \in Nodes \cup {None}
BY SMT DEF Last

LEMMA MirrorStep == Mirror /\ Balanced /\ [Next]_vars => Mirror'
<1> SUFFICES ASSUME Mirror, Balanced, [Next]_vars PROVE Mirror'
  OBVIOUS
<1>a. shouldTrack \in BOOLEAN /\ activeEffect \in Nodes \cup {None}
  BY ActiveType DEF Balanced, StacksTyped, activeEffect
<1>b. shouldTrack' \in BOOLEAN /\ activeEffect' \in Nodes \cup {None}
  <2>1. Balanced'
    BY BalancedStep DEF Mirror
  <2> QED
    BY <2>1, ActiveType DEF Balanced, StacksTyped, activeEffect
<1>1. ASSUME NEW n \in Nodes, CreateEffect(n) \/ ReadDirty(n) \/ Stop(n) PROVE Mirror'
  BY <1>1, CleanupMirror DEF CreateEffect, ReadDirty, StartRun, Stop
<1>2. ASSUME NEW n \in Nodes, CreateLazy(n) PROVE Mirror'
  BY <1>2, SameGraph DEF CreateLazy
<1>3. ASSUME NEW n \in Nodes, Call(n) \/ RunQueued(n) PROVE Mirror'
  BY <1>3, CallNodeMirror DEF Call, RunQueued
<1>4. ASSUME NEW n \in Nodes, TriggerNext(n) PROVE Mirror'
  <2>1. \/ UNCHANGED graph
        \/ CallNode(n, [stack EXCEPT ![Len(stack)].todo = @ \ {n}])
    BY <1>4, Zenon DEF TriggerNext
  <2> QED
    BY <2>1, SameGraph, CallNodeMirror
<1>5. ASSUME NEW k \in Keys, ReadSource(k) \/ ReadCached(k) PROVE Mirror'
  BY <1>5, <1>a, TrackMirror DEF ReadSource, ReadCached
<1>6. ASSUME NEW k \in Keys, ReadDirty(k) PROVE Mirror'
  BY <1>6, CleanupMirror DEF ReadDirty, StartRun, Nodes
<1>7. ASSUME NEW k \in Keys, Write(k) PROVE Mirror'
  BY <1>7, SameGraph DEF Write
<1>8. CASE EndComputed
  <2>1. Top.node \in Keys /\ Track(Top.node, activeEffect', Restored) /\ shouldTrack' = Restored
    BY <1>8 DEF EndComputed, Keys
  <2> QED
    BY <2>1, <1>b, TrackMirror
<1>9. CASE EndEffect \/ EndRaw \/ EndTrigger \/ PauseTracking \/ ResetTracking \/ Throw
  <2>1. UNCHANGED graph
    BY <1>9, Zenon DEF EndEffect, EndRaw, EndTrigger, PauseTracking, ResetTracking, Throw
  <2> QED
    BY <2>1, SameGraph
<1>10. CASE UNCHANGED vars
  BY <1>10, SameGraph DEF vars
<1> QED
  BY <1>1, <1>2, <1>3, <1>4, <1>5, <1>6, <1>7, <1>8, <1>9, <1>10, Zenon DEF Next

--------------------------------------------------------------------------------
(* The other types. *)

NodesTyped ==
  /\ status \in [Nodes -> {"new", "active", "stopped"}]
  /\ dirty \subseteq Comps /\ queued \subseteq Sched
HistoryTyped == reads \in [Nodes -> SUBSET Keys] /\ stale \subseteq Nodes

LEMMA TypeParts ==
  TypeOK <=> GraphTyped /\ StacksTyped /\ NodesTyped /\ HistoryTyped
BY Zenon DEF TypeOK, GraphTyped, StacksTyped, NodesTyped, HistoryTyped

LEMMA NodesStep == NodesTyped /\ [Next]_vars => NodesTyped'
<1> SUFFICES ASSUME NodesTyped, [Next]_vars PROVE NodesTyped'
  OBVIOUS
<1>1. ASSUME NEW n \in Nodes, CreateEffect(n) \/ CreateLazy(n) \/ Call(n) PROVE NodesTyped'
  BY <1>1 DEF CreateEffect, CreateLazy, Call, NodesTyped
<1>2. ASSUME NEW n \in Nodes, TriggerNext(n) PROVE NodesTyped'
  <2>1. UNCHANGED status
    BY <1>2, Zenon DEF TriggerNext
  <2>2. \/ UNCHANGED << dirty, queued >>
        \/ n \in Comps /\ dirty' = dirty \cup {n} /\ UNCHANGED queued
        \/ n \in Sched /\ queued' = queued \cup {n} /\ UNCHANGED dirty
    BY <1>2, Zenon DEF TriggerNext
  <2> QED
    BY <2>1, <2>2 DEF NodesTyped
<1>3. ASSUME NEW n \in Nodes, RunQueued(n) \/ Stop(n) PROVE NodesTyped'
  BY <1>3 DEF RunQueued, Stop, NodesTyped
<1>4. ASSUME NEW k \in Keys, ReadSource(k) \/ ReadCached(k) \/ ReadDirty(k) \/ Write(k)
      PROVE  NodesTyped'
  BY <1>4 DEF ReadSource, ReadCached, ReadDirty, Write, NodesTyped
<1>5. CASE EndEffect \/ EndComputed \/ EndRaw \/ EndTrigger
  BY <1>5 DEF EndEffect, EndComputed, EndRaw, EndTrigger, NodesTyped
<1>6. CASE PauseTracking \/ ResetTracking \/ Throw
  BY <1>6, Zenon DEF PauseTracking, ResetTracking, Throw, NodesTyped
<1>7. CASE UNCHANGED vars
  BY <1>7 DEF vars, NodesTyped
<1> QED
  BY <1>1, <1>2, <1>3, <1>4, <1>5, <1>6, <1>7, Zenon DEF Next

LEMMA SawTyped ==
  ASSUME HistoryTyped, NEW st, NEW k \in Keys, Saw(st, k) PROVE HistoryTyped'
<1>1. Owner(st) \subseteq Nodes
  BY DEF Owner
<1> QED
  BY <1>1 DEF HistoryTyped, Saw

LEMMA StartRunHistory ==
  ASSUME HistoryTyped, NEW n, NEW base, StartRun(n, base) PROVE HistoryTyped'
BY DEF HistoryTyped, StartRun

LEMMA CallNodeHistory ==
  ASSUME HistoryTyped, NEW n, NEW base, CallNode(n, base) PROVE HistoryTyped'
BY StartRunHistory DEF HistoryTyped, CallNode

LEMMA HistoryStep == HistoryTyped /\ [Next]_vars => HistoryTyped'
<1> SUFFICES ASSUME HistoryTyped, [Next]_vars PROVE HistoryTyped'
  OBVIOUS
<1>1. ASSUME NEW n \in Nodes, CreateEffect(n) \/ Call(n) \/ RunQueued(n) PROVE HistoryTyped'
  BY <1>1, StartRunHistory, CallNodeHistory DEF CreateEffect, Call, RunQueued
<1>2. ASSUME NEW n \in Nodes, CreateLazy(n) \/ Stop(n) PROVE HistoryTyped'
  BY <1>2 DEF CreateLazy, Stop, HistoryTyped
<1>3. ASSUME NEW n \in Nodes, TriggerNext(n) PROVE HistoryTyped'
  <2>1. \/ UNCHANGED << reads, stale >>
        \/ CallNode(n, [stack EXCEPT ![Len(stack)].todo = @ \ {n}])
    BY <1>3, Zenon DEF TriggerNext
  <2> QED
    BY <2>1, CallNodeHistory DEF HistoryTyped
<1>4. ASSUME NEW k \in Keys, ReadSource(k) \/ ReadCached(k) PROVE HistoryTyped'
  BY <1>4, SawTyped DEF ReadSource, ReadCached
<1>5. ASSUME NEW k \in Keys, ReadDirty(k) PROVE HistoryTyped'
  BY <1>5, StartRunHistory DEF ReadDirty
<1>6. ASSUME NEW k \in Keys, Write(k) PROVE HistoryTyped'
  <2> DEFINE seen(n) == status[n] = "active" /\ ~OnEffectStack(n) /\ n \in Affected(k)
  <2>1. stale' = stale \cup {n \in Nodes : seen(n)} /\ UNCHANGED reads
    BY <1>6 DEF Write
  <2> HIDE DEF seen
  <2> QED
    BY <2>1 DEF HistoryTyped
<1>7. CASE EndComputed
  BY <1>7, SawTyped DEF EndComputed, Keys
<1>8. CASE EndEffect \/ EndRaw \/ EndTrigger \/ PauseTracking \/ ResetTracking \/ Throw
  BY <1>8, Zenon DEF EndEffect, EndRaw, EndTrigger, PauseTracking, ResetTracking, Throw,
     HistoryTyped
<1>9. CASE UNCHANGED vars
  BY <1>9 DEF vars, HistoryTyped
<1> QED
  BY <1>1, <1>2, <1>3, <1>4, <1>5, <1>6, <1>7, <1>8, <1>9, Zenon DEF Next

--------------------------------------------------------------------------------
(* The theorems. *)

\* The inductive invariant.  The balance of the stacks is what makes the types
\* inductive: a pop of an empty stack has no value, and the graph is written
\* with what a pop restores.
IInv == TypeOK /\ TrackingBalanced /\ DepsMirror

LEMMA InvInit == Init => IInv
<1> SUFFICES ASSUME Init PROVE IInv
  OBVIOUS
<1>1. GraphTyped /\ StacksTyped /\ NodesTyped /\ HistoryTyped
  BY DEF Init, GraphTyped, StacksTyped, NodesTyped, HistoryTyped
<1>2. RunsOf(stack) = {} /\ PausesOf(stack) = {}
  BY DEF Init, RunsOf, PausesOf
<1>3. Len(effectStack) = 0 /\ Len(trackStack) = 0
  BY DEF Init
<1>4. TrackingBalanced
  <2>1. Cardinality({}) = 0 /\ 0 = 0 + 0 + 0 /\ lost = 0
    BY FS_EmptySet DEF Init
  <2> QED
    BY <1>2, <1>3, <2>1, Zenon DEF TrackingBalanced
<1>5. DepsMirror
  BY DEF Init, DepsMirror
<1> QED
  BY <1>1, <1>4, <1>5, TypeParts DEF IInv

LEMMA InvStep == IInv /\ [Next]_vars => IInv'
<1> SUFFICES ASSUME IInv, [Next]_vars PROVE IInv'
  OBVIOUS
<1>1. Mirror /\ Balanced /\ NodesTyped /\ HistoryTyped
  BY TypeParts DEF IInv, Mirror, Balanced
<1>2. Mirror' /\ Balanced' /\ NodesTyped' /\ HistoryTyped'
  BY <1>1, MirrorStep, BalancedStep, NodesStep, HistoryStep DEF Mirror
<1>3. TypeOK' <=> GraphTyped' /\ StacksTyped' /\ NodesTyped' /\ HistoryTyped'
  BY Zenon DEF TypeOK, GraphTyped, StacksTyped, NodesTyped, HistoryTyped
<1> QED
  BY <1>2, <1>3 DEF IInv, Mirror, Balanced

\* Every variable keeps its type.
THEOREM TypesHold == Spec => []TypeOK
<1>1. IInv => TypeOK
  BY DEF IInv
<1> QED
  BY <1>1, InvInit, InvStep, PTL DEF Spec

\* cleanup(), track() and stop() keep the two halves of the graph the mirror of
\* each other: an effect is in a dep exactly when it knows that dep, so that
\* cleaning it leaves no subscription behind.
THEOREM GraphMirrors == Spec => []DepsMirror
<1>1. IInv => DepsMirror
  BY DEF IInv
<1> QED
  BY <1>1, InvInit, InvStep, PTL DEF Spec

\* Returns, pauses and exceptions leave exactly one entry of the effect stack
\* for each run that the call stack still holds, and on the tracking stack one
\* for each such run, one for each such pause, and one for each pause that an
\* exception has left: resetTracking() never meets an empty stack, and what
\* stays behind is what those exceptions left and nothing else.
THEOREM TrackingBalances == Spec => []TrackingBalanced
<1>1. IInv => TrackingBalanced
  BY DEF IInv
<1> QED
  BY <1>1, InvInit, InvStep, PTL DEF Spec

--------------------------------------------------------------------------------
(* Programs that stop effects only between runs. *)

OnlyActive ==
  /\ \A i \in DOMAIN effectStack : status[effectStack[i]] = "active"
  /\ \A n \in Nodes : status[n] # "active" => deps[n] = {}

\* Outside every run nothing is on the effect stack.
LEMMA RestIsEmpty == Balanced /\ stack = << >> => effectStack = << >>
<1> SUFFICES ASSUME Balanced, stack = << >> PROVE effectStack = << >>
  OBVIOUS
<1>1. RunsOf(stack) = {}
  BY DEF RunsOf
<1>2. Len(effectStack) = 0 /\ effectStack \in Seq(Nodes)
  BY <1>1, FS_EmptySet DEF Balanced, TrackingBalanced, StacksTyped
<1> QED
  BY <1>2, EmptySeq

\* The elements of a sequence that grew.
LEMMA Appended ==
  ASSUME NEW s \in Seq(Nodes), NEW n \in Nodes
  PROVE  \A i \in DOMAIN Append(s, n) :
           \/ Append(s, n)[i] = n
           \/ i \in DOMAIN s /\ Append(s, n)[i] = s[i] /\ s[i] \in Nodes
BY SMT

\* What starting a run, and returning from runs, does to the effects that run.
LEMMA RunsActive ==
  ASSUME Balanced, OnlyActive, GraphTyped, NEW n \in Nodes, NEW base,
         status[n] = "active", StartRun(n, base), UNCHANGED status
  PROVE  OnlyActive'
<1>1. effectStack \in Seq(Nodes) /\ effectStack' = Append(effectStack, n)
  BY DEF Balanced, StacksTyped, StartRun
<1>2. \A i \in DOMAIN effectStack' :
        \/ effectStack'[i] = n
        \/ i \in DOMAIN effectStack /\ effectStack'[i] = effectStack[i]
  BY <1>1, Appended
<1>3. deps' = [deps EXCEPT ![n] = {}]
  BY DEF StartRun, Cleanup
<1> QED
  BY <1>2, <1>3 DEF OnlyActive, GraphTyped

LEMMA CallNodeActive ==
  ASSUME Balanced, OnlyActive, GraphTyped, NEW n \in Nodes, NEW base,
         CallNode(n, base), UNCHANGED status
  PROVE  OnlyActive'
<1>1. CASE status[n] = "active" /\ StartRun(n, base)
  BY <1>1, RunsActive
<1>2. CASE UNCHANGED << graph, tracking >>
  BY <1>2 DEF OnlyActive, graph, tracking
<1> QED
  BY <1>1, <1>2 DEF CallNode

LEMMA SameActive ==
  ASSUME OnlyActive, UNCHANGED << status, effectStack, deps >> PROVE OnlyActive'
BY DEF OnlyActive

\* Reading tracks an active effect, or nothing.
LEMMA TrackActive ==
  ASSUME OnlyActive, GraphTyped, NEW k \in Keys, NEW on, effectStack' \in Seq(Nodes),
         \A i \in DOMAIN effectStack' : status[effectStack'[i]] = "active",
         Track(k, activeEffect', on), UNCHANGED status
  PROVE  OnlyActive'
<1>1. effectStack' # << >> => activeEffect' \in Nodes /\ status[activeEffect'] = "active"
  BY DEF activeEffect, Last
<1>2. effectStack' = << >> => activeEffect' = None
  BY DEF activeEffect
<1>3. \A n \in Nodes : deps'[n] = deps[n] \/ (n = activeEffect' /\ activeEffect' # None)
  <2>1. \/ deps' = deps
        \/ activeEffect' # None /\ deps' = [deps EXCEPT ![activeEffect'] = @ \cup {k}]
    BY Zenon DEF Track, Tracked
  <2> QED
    BY <2>1 DEF GraphTyped
<1>4. \A n \in Nodes : status'[n] # "active" => deps'[n] = {}
  BY <1>1, <1>2, <1>3 DEF OnlyActive
<1> QED
  BY <1>4 DEF OnlyActive

LEMMA PrefixActive ==
  ASSUME OnlyActive, effectStack \in Seq(Nodes), NEW k \in 0..Len(effectStack),
         effectStack' = SubSeq(effectStack, 1, k)
  PROVE  /\ effectStack' \in Seq(Nodes)
         /\ \A i \in DOMAIN effectStack' : status[effectStack'[i]] = "active"
<1>1. /\ effectStack' \in Seq(Nodes) /\ Len(effectStack') = k
      /\ \A i \in 1..k : effectStack'[i] = effectStack[i]
  BY Prefix
<1>2. DOMAIN effectStack' = 1..k /\ 1..k \subseteq DOMAIN effectStack
  BY <1>1
<1> QED
  BY <1>1, <1>2 DEF OnlyActive

\* An exception leaves a prefix of the effect stack.
LEMMA ThrowPrefix ==
  ASSUME Balanced, Throw
  PROVE  \E k \in 0..Len(effectStack) : effectStack' = SubSeq(effectStack, 1, k)
<1>1. stack \in Seq(Frame) /\ Len(effectStack) \in Nat
  BY DEF Balanced, StacksTyped
<1> DEFINE crossed(k) == {i \in RunsOf(stack) : i > k}
<1>2. PICK k \in 0..Len(stack) :
        effectStack' = SubSeq(effectStack, 1, Len(effectStack) - Cardinality(crossed(k)))
  BY Zenon DEF Throw
<1>3. crossed(k) \in SUBSET RunsOf(stack)
  OBVIOUS
<1> HIDE DEF crossed
<1>4. /\ Cardinality(crossed(k)) \in Nat
      /\ Cardinality(crossed(k)) <= Cardinality(RunsOf(stack))
  BY <1>1, <1>3, Finite, FS_Subset, FS_CardinalityType
<1>5. Len(effectStack) - Cardinality(crossed(k)) \in 0..Len(effectStack)
  BY <1>1, <1>4 DEF Balanced, TrackingBalanced
<1> QED
  BY <1>2, <1>5

LEMMA ActiveInit == Init => OnlyActive
BY DEF Init, OnlyActive

LEMMA ActiveStep ==
  ASSUME CanStop = {}, IInv, OnlyActive, [Next]_vars PROVE OnlyActive'
<1>a. /\ Balanced /\ GraphTyped /\ effectStack \in Seq(Nodes) /\ status \in [Nodes -> {"new", "active", "stopped"}]
  BY TypeParts DEF IInv, Balanced, StacksTyped, NodesTyped
<1>b. Len(effectStack) - 1 \in 0..Len(effectStack) \/ Len(effectStack) = 0
  BY <1>a
<1>1. ASSUME NEW n \in Nodes, CreateEffect(n) PROVE OnlyActive'
  <2>1. effectStack' = Append(effectStack, n) /\ status' = [status EXCEPT ![n] = "active"]
        /\ deps' = [deps EXCEPT ![n] = {}]
    BY <1>1 DEF CreateEffect, StartRun, Cleanup
  <2>2. \A i \in DOMAIN effectStack' :
          \/ effectStack'[i] = n
          \/ /\ i \in DOMAIN effectStack /\ effectStack'[i] = effectStack[i]
             /\ effectStack[i] \in Nodes
    BY <1>a, <2>1, Appended
  <2> QED
    BY <1>a, <2>1, <2>2 DEF OnlyActive, GraphTyped
<1>2. ASSUME NEW n \in Nodes, CreateLazy(n) PROVE OnlyActive'
  <2>1. UNCHANGED << effectStack, deps >> /\ status' = [status EXCEPT ![n] = "active"]
    BY <1>2 DEF CreateLazy, graph, tracking
  <2>2. \A i \in DOMAIN effectStack : effectStack[i] \in Nodes
    BY <1>a
  <2> QED
    BY <1>a, <2>1, <2>2 DEF OnlyActive
<1>3. ASSUME NEW n \in Nodes, Call(n) \/ RunQueued(n) PROVE OnlyActive'
  BY <1>a, <1>3, CallNodeActive DEF Call, RunQueued
<1>4. ASSUME NEW n \in Nodes, TriggerNext(n) PROVE OnlyActive'
  <2>1. \/ UNCHANGED << graph, tracking >>
        \/ CallNode(n, [stack EXCEPT ![Len(stack)].todo = @ \ {n}])
    BY <1>4, Zenon DEF TriggerNext
  <2>2. UNCHANGED status
    BY <1>4, Zenon DEF TriggerNext
  <2>3. CASE UNCHANGED << graph, tracking >>
    BY <2>2, <2>3, SameActive DEF graph, tracking
  <2> QED
    BY <1>a, <2>1, <2>2, <2>3, CallNodeActive
<1>5. ASSUME NEW n \in Nodes, Stop(n) PROVE OnlyActive'
  <2>1. stack = << >>
    BY <1>5 DEF Stop, MayStop
  <2>2. effectStack = << >>
    BY <1>a, <2>1, RestIsEmpty
  <2>3. effectStack' = effectStack /\ status' = [status EXCEPT ![n] = "stopped"]
        /\ deps' = [deps EXCEPT ![n] = {}]
    BY <1>5 DEF Stop, Cleanup, tracking
  <2> QED
    BY <1>a, <2>2, <2>3 DEF OnlyActive, GraphTyped
<1>6. ASSUME NEW k \in Keys, ReadSource(k) \/ ReadCached(k) PROVE OnlyActive'
  <2>1. Track(k, activeEffect, shouldTrack) /\ UNCHANGED << status, effectStack >>
    BY <1>6 DEF ReadSource, ReadCached, tracking
  <2>2. activeEffect' = activeEffect
    BY <2>1 DEF activeEffect
  <2>3. Track(k, activeEffect', shouldTrack)
    BY <2>1, <2>2
  <2>4. /\ effectStack' \in Seq(Nodes)
        /\ \A i \in DOMAIN effectStack' : status[effectStack'[i]] = "active"
    BY <1>a, <2>1 DEF OnlyActive
  <2> QED
    BY <1>a, <2>1, <2>3, <2>4, TrackActive
<1>7. ASSUME NEW k \in Keys, ReadDirty(k) PROVE OnlyActive'
  BY <1>a, <1>7, RunsActive DEF ReadDirty, Nodes
<1>8. ASSUME NEW k \in Keys, Write(k) PROVE OnlyActive'
  BY <1>8, SameActive DEF Write, graph, tracking
<1>9. ASSUME EndEffect \/ EndComputed
      PROVE  /\ effectStack' \in Seq(Nodes)
             /\ \A i \in DOMAIN effectStack' : status[effectStack'[i]] = "active"
  <2>1. effectStack' = Front(effectStack) /\ stack # << >> /\ Top.kind = "run"
    BY <1>9 DEF EndEffect, EndComputed, InCode
  <2>2. Len(effectStack) > 0
    <3>1. stack \in Seq(Frame)
      BY <1>a DEF Balanced, StacksTyped
    <3>2. ~Top.paused
      BY <1>9 DEF EndEffect, EndComputed
    <3>3. Cardinality(RunsOf(stack)) > 0
      BY <2>1, <3>1, <3>2, Left DEF Top
    <3> QED
      BY <1>a, <3>3 DEF Balanced, TrackingBalanced
  <2>3. Len(effectStack) - 1 \in 0..Len(effectStack)
    BY <1>a, <2>2
  <2>4. effectStack' = SubSeq(effectStack, 1, Len(effectStack) - 1)
    BY <2>1 DEF Front
  <2> QED
    BY <1>a, <2>3, <2>4, PrefixActive
<1>10. CASE EndEffect
  BY <1>9, <1>10 DEF EndEffect, OnlyActive, graph
<1>11. CASE EndComputed
  <2>1. Top.node \in Keys /\ Track(Top.node, activeEffect', Restored) /\ UNCHANGED status
    BY <1>11 DEF EndComputed, Keys
  <2> QED
    BY <1>9, <1>11, <1>a, <2>1, TrackActive
<1>12. CASE EndRaw \/ EndTrigger \/ PauseTracking \/ ResetTracking
  <2>1. UNCHANGED << status, effectStack, deps >>
    BY <1>12, Zenon DEF EndRaw, EndTrigger, PauseTracking, ResetTracking, graph, tracking
  <2> QED
    BY <2>1, SameActive
<1>13. CASE Throw
  <2>1. PICK k \in 0..Len(effectStack) : effectStack' = SubSeq(effectStack, 1, k)
    BY <1>a, <1>13, ThrowPrefix
  <2>2. UNCHANGED << status, deps >>
    BY <1>13, Zenon DEF Throw, graph
  <2> QED
    BY <1>a, <2>1, <2>2, PrefixActive DEF OnlyActive
<1>14. CASE UNCHANGED vars
  BY <1>14, SameActive DEF vars, graph, tracking
<1> QED
  BY <1>1, <1>2, <1>3, <1>4, <1>5, <1>6, <1>7, <1>8, <1>10, <1>11, <1>12, <1>13, <1>14,
     Zenon DEF Next

\* A program that stops effects only while none runs never has a stopped
\* effect in a dep, so that no write reaches it.  (While one runs, what it
\* reads after the stop subscribes it again: track() does not ask.)
THEOREM StoppedStaysOut ==
  ASSUME CanStop = {} PROVE Spec => []StoppedUnsubscribed
<1>1. Init => IInv /\ OnlyActive
  BY InvInit, ActiveInit
<1>2. IInv /\ OnlyActive /\ [Next]_vars => (IInv /\ OnlyActive)'
  BY InvStep, ActiveStep
<1>3. IInv /\ OnlyActive => StoppedUnsubscribed
  BY DEF IInv, DepsMirror, OnlyActive, StoppedUnsubscribed
<1> QED
  BY <1>1, <1>2, <1>3, PTL DEF Spec

--------------------------------------------------------------------------------
(* What the entries of the stacks are, not only how many. *)

Upto(S, n) == {m \in S : m <= n}

\* What shouldTrack is while the frames of R are runs and those of P paused
\* tracking: the code inside every pause has started a run.
On(R, P) == \A k \in P : \E i \in R : k < i

\* The runs and pauses that no exception has spoilt, and whether shouldTrack is
\* known to be right above those of R: since the last of them started, or because
\* nothing was ever lost.
CleanRuns(st) == {i \in RunsOf(st) : ~st[i].spoilt}
CleanPauses(st) == {i \in PausesOf(st) : ~st[i].spoilt}
Determined(R, sure) == sure \/ R # {}

\* The effect stack names the runs; above the first b entries, the tracking
\* stack holds, for each clean run and each clean pause, what shouldTrack was
\* before it.
Named(R, st, es) == \A k \in R : es[Cardinality(Upto(R, k))] = st[k].node
Entries(R, P, ts, b, sure) ==
  /\ \A i \in R : Determined(Upto(R, i - 1), sure) =>
       ts[b + (Cardinality(Upto(R, i)) + Cardinality(Upto(P, i - 1)))]
         = On(Upto(R, i - 1), Upto(P, i - 1))
  /\ \A i \in P : Determined(Upto(R, i), sure) =>
       ts[b + (Cardinality(Upto(R, i)) + Cardinality(Upto(P, i)))]
         = On(Upto(R, i), Upto(P, i - 1))

LEMMA UptoCounts ==
  ASSUME NEW n \in Nat, NEW S \in SUBSET (1..n)
  PROVE  /\ IsFiniteSet(S) /\ Cardinality(S) \in Nat
         /\ Upto(S, n) = S /\ Upto(S, 0) = {}
         /\ \A k \in Nat : /\ IsFiniteSet(Upto(S, k))
                           /\ Cardinality(Upto(S, k)) \in 0..Cardinality(S)
                           /\ k \in S => Cardinality(Upto(S, k)) \in 1..Cardinality(S)
<1>1. IsFiniteSet(S) /\ Cardinality(S) \in Nat
  <2>1. IsFiniteSet(1..n)
    BY FS_Interval
  <2> QED
    BY <2>1, FS_Subset, FS_CardinalityType, Zenon
<1>2. Upto(S, n) = S /\ Upto(S, 0) = {}
  <2>1. \A m \in S : m <= n /\ ~(m <= 0)
    OBVIOUS
  <2> QED
    BY <2>1, Zenon DEF Upto
<1>3. \A k \in Nat : IsFiniteSet(Upto(S, k)) /\ Cardinality(Upto(S, k)) \in 0..Cardinality(S)
  <2>1. \A k \in Nat : Upto(S, k) \in SUBSET S
    BY DEF Upto
  <2>2. \A k \in Nat : /\ IsFiniteSet(Upto(S, k))
                       /\ Cardinality(Upto(S, k)) <= Cardinality(S)
                       /\ Cardinality(Upto(S, k)) \in Nat
    BY <1>1, <2>1, FS_Subset, FS_CardinalityType
  <2> QED
    BY <1>1, <2>2
<1>4. ASSUME NEW k \in Nat, k \in S PROVE Cardinality(Upto(S, k)) \in 1..Cardinality(S)
  <2>1. Upto(S, k) # {}
    BY <1>4 DEF Upto
  <2>2. Cardinality(Upto(S, k)) # 0
    BY <1>3, <2>1, FS_EmptySet
  <2> QED
    BY <1>1, <1>3, <2>2
<1> QED
  BY <1>1, <1>2, <1>3, <1>4

\* One more.
LEMMA UptoNext ==
  ASSUME NEW n \in Nat, NEW S \in SUBSET (1..n), NEW k \in Nat, k > 0
  PROVE  /\ k \notin S => Upto(S, k) = Upto(S, k - 1)
         /\ k \in S => Cardinality(Upto(S, k)) = Cardinality(Upto(S, k - 1)) + 1
<1>1. k - 1 \in Nat /\ \A m \in S : m <= k <=> (m <= k - 1 \/ m = k)
  OBVIOUS
<1>2. k \notin S => Upto(S, k) = Upto(S, k - 1)
  BY <1>1, Zenon DEF Upto
<1>3. k \in S => Upto(S, k) = Upto(S, k - 1) \cup {k}
  BY <1>1, Zenon DEF Upto
<1>4. k \notin Upto(S, k - 1)
  BY DEF Upto
<1>5. IsFiniteSet(Upto(S, k - 1))
  BY <1>1, UptoCounts
<1> QED
  BY <1>2, <1>3, <1>4, <1>5, FS_AddElement

\* Every number up to the size of the set is the rank of one of its members.
LEMMA Ranked ==
  ASSUME NEW n \in Nat, NEW S \in SUBSET (1..n), NEW j \in 1..Cardinality(S)
  PROVE  \E k \in S : Cardinality(Upto(S, k)) = j
<1> DEFINE rank(k) == Cardinality(Upto(S, k))
           T == {k \in Nat : rank(k) >= j}
<1>1. /\ Cardinality(S) \in Nat /\ rank(n) = Cardinality(S) /\ rank(0) = 0
      /\ \A k \in Nat : rank(k) \in Nat
      /\ \A k \in Nat : k > 0 => /\ k \notin S => rank(k) = rank(k - 1)
                                 /\ k \in S => rank(k) = rank(k - 1) + 1
  <2>1. Cardinality({}) = 0
    BY FS_EmptySet
  <2>2. Upto(S, n) = S /\ Upto(S, 0) = {} /\ Cardinality(S) \in Nat
    BY UptoCounts
  <2>3. \A k \in Nat : rank(k) \in Nat
    <3>1. \A k \in Nat : Cardinality(Upto(S, k)) \in 0..Cardinality(S)
      BY UptoCounts
    <3> QED
      BY <2>2, <3>1
  <2>4. \A k \in Nat : k > 0 => /\ k \notin S => rank(k) = rank(k - 1)
                                /\ k \in S => rank(k) = rank(k - 1) + 1
    <3> SUFFICES ASSUME NEW k \in Nat, k > 0
                 PROVE  /\ k \notin S => rank(k) = rank(k - 1)
                        /\ k \in S => rank(k) = rank(k - 1) + 1
      OBVIOUS
    <3> QED
      BY UptoNext, Zenon
  <2> QED
    BY <2>1, <2>2, <2>3, <2>4, Zenon
<1> HIDE DEF rank
<1>2. T \in SUBSET Nat /\ n \in T
  BY <1>1
<1>3. PICK m \in T : \A k \in T : << k, m >> \notin OpToRel(<, Nat)
  <2>1. T # {}
    BY <1>2
  <2> HIDE DEF T
  <2> QED
    BY <1>2, <2>1, WFMin, NatLessThanWellFounded, Zenon
<1>4. m \in Nat /\ rank(m) >= j /\ m # 0
  <2>1. m \in Nat /\ rank(m) >= j
    BY <1>3, Zenon
  <2> QED
    BY <1>1, <2>1
<1>5. m - 1 \in Nat /\ m - 1 < m
  BY <1>4
<1>6. m - 1 \notin T
  <2>1. \A k \in T : ~(k < m)
    BY <1>2, <1>3, Zenon DEF OpToRel
  <2> HIDE DEF T
  <2> QED
    BY <1>5, <2>1
<1>7. rank(m - 1) < j
  BY <1>1, <1>5, <1>6
<1>8. m \in S /\ rank(m) = j
  BY <1>1, <1>4, <1>5, <1>7
<1> QED
  BY <1>8 DEF rank

\* Where entries lie: above the first b of them.
LEMMA Place ==
  ASSUME NEW b \in Nat, NEW r \in Nat, NEW p \in Nat, NEW i \in 0..r, NEW j \in 0..p,
         i # 0 \/ j # 0
  PROVE  b + (i + j) \in 1..(b + (r + p))
OBVIOUS

\* The entries of a run that starts, and of a pause.
LEMMA RunEntry ==
  ASSUME NEW n \in Nat, NEW R \in SUBSET (1..n), NEW P \in SUBSET (1..n),
         NEW ts \in Seq(BOOLEAN), NEW b \in Nat, NEW sure,
         Len(ts) = b + (Cardinality(R) + Cardinality(P)), Entries(R, P, ts, b, sure),
         NEW x \in BOOLEAN, Determined(R, sure) => x = On(R, P)
  PROVE  /\ Entries(R \cup {n + 1}, P, Append(ts, x), b, sure)
         /\ On(R \cup {n + 1}, P)
<1> DEFINE Q == R \cup {n + 1}
           u == Append(ts, x)
<1>0. /\ Cardinality(R) \in Nat /\ Cardinality(P) \in Nat /\ n + 1 \in Nat
      /\ Q \in SUBSET (1..(n + 1))
      /\ IsFiniteSet(R) /\ n + 1 \notin R
  <2>1. Cardinality(R) \in Nat /\ Cardinality(P) \in Nat /\ IsFiniteSet(R)
    BY UptoCounts
  <2> QED
    BY <2>1
<1>1. \A i \in R : Upto(Q, i) = Upto(R, i) /\ Upto(Q, i - 1) = Upto(R, i - 1)
  BY DEF Upto
<1>2. \A i \in P : Upto(Q, i) = Upto(R, i)
  BY DEF Upto
<1>3. Upto(Q, n + 1) = Q /\ Upto(Q, (n + 1) - 1) = R /\ Upto(P, (n + 1) - 1) = P
  <2>1. /\ (n + 1) - 1 = n /\ ~(n + 1 <= n) /\ \A m \in Q : m <= n + 1
    OBVIOUS
  <2>2. \A m \in R : m <= n
    OBVIOUS
  <2>3. \A m \in P : m <= n
    OBVIOUS
  <2> QED
    BY <2>1, <2>2, <2>3, Zenon DEF Upto
<1>4. Cardinality(Q) = Cardinality(R) + 1
  BY <1>0, FS_AddElement
<1>5. /\ \A j \in 1..Len(ts) : u[j] = ts[j]
      /\ u[Len(ts) + 1] = x
  BY <1>0, AppendProperties
<1>6. ASSUME NEW i \in R, Determined(Upto(Q, i - 1), sure)
      PROVE  u[b + (Cardinality(Upto(Q, i)) + Cardinality(Upto(P, i - 1)))]
               = On(Upto(Q, i - 1), Upto(P, i - 1))
  <2>1. i \in Nat /\ i - 1 \in Nat
    OBVIOUS
  <2>2. Cardinality(Upto(R, i)) \in 1..Cardinality(R)
    BY <2>1, UptoCounts
  <2>3. Cardinality(Upto(P, i - 1)) \in 0..Cardinality(P)
    BY <2>1, UptoCounts
  <2>4. b + (Cardinality(Upto(R, i)) + Cardinality(Upto(P, i - 1))) \in 1..Len(ts)
    <3>1. /\ Cardinality(Upto(R, i)) \in 0..Cardinality(R)
          /\ Cardinality(Upto(P, i - 1)) \in 0..Cardinality(P)
          /\ Cardinality(Upto(R, i)) # 0 \/ Cardinality(Upto(P, i - 1)) # 0
      BY <2>2, <2>3
    <3> QED
      BY <1>0, <3>1, Place, Zenon
  <2>5. u[b + (Cardinality(Upto(R, i)) + Cardinality(Upto(P, i - 1)))]
          = On(Upto(R, i - 1), Upto(P, i - 1))
    BY <1>1, <1>5, <1>6, <2>4, Zenon DEF Entries
  <2> QED
    BY <1>1, <2>5, Zenon
<1>7. ASSUME NEW i \in P, Determined(Upto(Q, i), sure)
      PROVE  u[b + (Cardinality(Upto(Q, i)) + Cardinality(Upto(P, i)))]
               = On(Upto(Q, i), Upto(P, i - 1))
  <2>1. i \in Nat
    OBVIOUS
  <2>2. Cardinality(Upto(R, i)) \in 0..Cardinality(R)
    BY <2>1, UptoCounts
  <2>3. Cardinality(Upto(P, i)) \in 1..Cardinality(P)
    BY <2>1, UptoCounts
  <2>4. b + (Cardinality(Upto(R, i)) + Cardinality(Upto(P, i))) \in 1..Len(ts)
    <3>1. /\ Cardinality(Upto(R, i)) \in 0..Cardinality(R)
          /\ Cardinality(Upto(P, i)) \in 0..Cardinality(P)
          /\ Cardinality(Upto(R, i)) # 0 \/ Cardinality(Upto(P, i)) # 0
      BY <2>2, <2>3
    <3> QED
      BY <1>0, <3>1, Place, Zenon
  <2>5. u[b + (Cardinality(Upto(R, i)) + Cardinality(Upto(P, i)))]
          = On(Upto(R, i), Upto(P, i - 1))
    BY <1>2, <1>5, <1>7, <2>4, Zenon DEF Entries
  <2> QED
    BY <1>2, <2>5, Zenon
<1>8. Determined(Upto(Q, (n + 1) - 1), sure) =>
        u[b + (Cardinality(Upto(Q, n + 1)) + Cardinality(Upto(P, (n + 1) - 1)))]
          = On(Upto(Q, (n + 1) - 1), Upto(P, (n + 1) - 1))
  <2>1. b + (Cardinality(Q) + Cardinality(P)) = Len(ts) + 1
    BY <1>0, <1>4
  <2> QED
    BY <1>3, <1>5, <2>1, Zenon
<1>9. On(Q, P)
  BY DEF On
<1> HIDE DEF u
<1>10. Entries(Q, P, u, b, sure)
  BY <1>6, <1>7, <1>8, Zenon DEF Entries
<1> QED
  BY <1>9, <1>10 DEF u

LEMMA PauseEntry ==
  ASSUME NEW n \in Nat, n > 0, NEW R \in SUBSET (1..n), NEW P \in SUBSET (1..n), n \notin P,
         NEW ts \in Seq(BOOLEAN), NEW b \in Nat, NEW sure,
         Len(ts) = b + (Cardinality(R) + Cardinality(P)), Entries(R, P, ts, b, sure),
         NEW x \in BOOLEAN, Determined(R, sure) => x = On(R, P)
  PROVE  /\ Entries(R, P \cup {n}, Append(ts, x), b, sure)
         /\ ~On(R, P \cup {n})
<1> DEFINE Q == P \cup {n}
           u == Append(ts, x)
<1>0. /\ Cardinality(R) \in Nat /\ Cardinality(P) \in Nat
      /\ Q \in SUBSET (1..n)
      /\ IsFiniteSet(P)
  <2>1. Cardinality(R) \in Nat /\ Cardinality(P) \in Nat /\ IsFiniteSet(P)
    BY UptoCounts
  <2> QED
    BY <2>1
<1>1. \A i \in R : Upto(Q, i - 1) = Upto(P, i - 1)
  BY DEF Upto
<1>2. \A i \in P : Upto(Q, i) = Upto(P, i) /\ Upto(Q, i - 1) = Upto(P, i - 1)
  BY DEF Upto
<1>3. Upto(Q, n) = Q /\ Upto(Q, n - 1) = P /\ Upto(R, n) = R
  <2>1. /\ ~(n <= n - 1) /\ \A m \in Q : m <= n
        /\ \A m \in R : m <= n
    OBVIOUS
  <2>2. \A m \in P : m <= n - 1
    OBVIOUS
  <2> QED
    BY <2>1, <2>2, Zenon DEF Upto
<1>4. Cardinality(Q) = Cardinality(P) + 1
  BY <1>0, FS_AddElement
<1>5. /\ \A j \in 1..Len(ts) : u[j] = ts[j]
      /\ u[Len(ts) + 1] = x
  BY <1>0, AppendProperties
<1>6. ASSUME NEW i \in R, Determined(Upto(R, i - 1), sure)
      PROVE  u[b + (Cardinality(Upto(R, i)) + Cardinality(Upto(Q, i - 1)))]
               = On(Upto(R, i - 1), Upto(Q, i - 1))
  <2>1. i \in Nat /\ i - 1 \in Nat
    OBVIOUS
  <2>2. Cardinality(Upto(R, i)) \in 1..Cardinality(R)
    BY <2>1, UptoCounts
  <2>3. Cardinality(Upto(P, i - 1)) \in 0..Cardinality(P)
    BY <2>1, UptoCounts
  <2>4. b + (Cardinality(Upto(R, i)) + Cardinality(Upto(P, i - 1))) \in 1..Len(ts)
    <3>1. /\ Cardinality(Upto(R, i)) \in 0..Cardinality(R)
          /\ Cardinality(Upto(P, i - 1)) \in 0..Cardinality(P)
          /\ Cardinality(Upto(R, i)) # 0 \/ Cardinality(Upto(P, i - 1)) # 0
      BY <2>2, <2>3
    <3> QED
      BY <1>0, <3>1, Place, Zenon
  <2>5. u[b + (Cardinality(Upto(R, i)) + Cardinality(Upto(P, i - 1)))]
          = On(Upto(R, i - 1), Upto(P, i - 1))
    BY <1>5, <1>6, <2>4, Zenon DEF Entries
  <2> QED
    BY <1>1, <2>5, Zenon
<1>7. ASSUME NEW i \in P, Determined(Upto(R, i), sure)
      PROVE  u[b + (Cardinality(Upto(R, i)) + Cardinality(Upto(Q, i)))]
               = On(Upto(R, i), Upto(Q, i - 1))
  <2>1. i \in Nat
    OBVIOUS
  <2>2. Cardinality(Upto(R, i)) \in 0..Cardinality(R)
    BY <2>1, UptoCounts
  <2>3. Cardinality(Upto(P, i)) \in 1..Cardinality(P)
    BY <2>1, UptoCounts
  <2>4. b + (Cardinality(Upto(R, i)) + Cardinality(Upto(P, i))) \in 1..Len(ts)
    <3>1. /\ Cardinality(Upto(R, i)) \in 0..Cardinality(R)
          /\ Cardinality(Upto(P, i)) \in 0..Cardinality(P)
          /\ Cardinality(Upto(R, i)) # 0 \/ Cardinality(Upto(P, i)) # 0
      BY <2>2, <2>3
    <3> QED
      BY <1>0, <3>1, Place, Zenon
  <2>5. u[b + (Cardinality(Upto(R, i)) + Cardinality(Upto(P, i)))]
          = On(Upto(R, i), Upto(P, i - 1))
    BY <1>5, <1>7, <2>4, Zenon DEF Entries
  <2> QED
    BY <1>2, <2>5, Zenon
<1>8. Determined(Upto(R, n), sure) =>
        u[b + (Cardinality(Upto(R, n)) + Cardinality(Upto(Q, n)))]
          = On(Upto(R, n), Upto(Q, n - 1))
  <2>1. b + (Cardinality(R) + Cardinality(Q)) = Len(ts) + 1
    BY <1>0, <1>4
  <2> QED
    BY <1>3, <1>5, <2>1, Zenon
<1>9. ~On(R, Q)
  <2>1. \A i \in R : ~(n < i)
    OBVIOUS
  <2> QED
    BY <2>1, Zenon DEF On
<1> HIDE DEF u
<1>10. Entries(R, Q, u, b, sure)
  BY <1>6, <1>7, <1>8, Zenon DEF Entries
<1> QED
  BY <1>9, <1>10 DEF u

\* The entries that stay when the last ones are popped.
LEMMA EntriesLeft ==
  ASSUME NEW n \in Nat, NEW R \in SUBSET (1..n), NEW P \in SUBSET (1..n),
         NEW Q \in SUBSET R, NEW O \in SUBSET P, NEW ts, NEW us, NEW b \in Nat, NEW sure,
         Entries(R, P, ts, b, sure),
         \A i \in Q : /\ Upto(Q, i) = Upto(R, i) /\ Upto(Q, i - 1) = Upto(R, i - 1)
                      /\ Upto(O, i - 1) = Upto(P, i - 1),
         \A i \in O : /\ Upto(Q, i) = Upto(R, i) /\ Upto(O, i) = Upto(P, i)
                      /\ Upto(O, i - 1) = Upto(P, i - 1),
         \A j \in 1..(b + (Cardinality(Q) + Cardinality(O))) : us[j] = ts[j]
  PROVE  Entries(Q, O, us, b, sure)
<1>0. /\ Q \in SUBSET (1..n) /\ O \in SUBSET (1..n)
      /\ Cardinality(Q) \in Nat /\ Cardinality(O) \in Nat
  BY UptoCounts
<1>1. ASSUME NEW i \in Q, Determined(Upto(Q, i - 1), sure)
      PROVE  us[b + (Cardinality(Upto(Q, i)) + Cardinality(Upto(O, i - 1)))]
               = On(Upto(Q, i - 1), Upto(O, i - 1))
  <2>1. i \in Nat /\ i - 1 \in Nat
    OBVIOUS
  <2>2. Cardinality(Upto(Q, i)) \in 1..Cardinality(Q)
    BY <1>0, <2>1, UptoCounts
  <2>3. Cardinality(Upto(O, i - 1)) \in 0..Cardinality(O)
    BY <1>0, <2>1, UptoCounts
  <2>4. b + (Cardinality(Upto(Q, i)) + Cardinality(Upto(O, i - 1)))
          \in 1..(b + (Cardinality(Q) + Cardinality(O)))
    BY <1>0, <2>2, <2>3
  <2>5. ts[b + (Cardinality(Upto(R, i)) + Cardinality(Upto(P, i - 1)))]
          = On(Upto(R, i - 1), Upto(P, i - 1))
    BY <1>1, Zenon DEF Entries
  <2> QED
    BY <2>4, <2>5, Zenon
<1>2. ASSUME NEW i \in O, Determined(Upto(Q, i), sure)
      PROVE  us[b + (Cardinality(Upto(Q, i)) + Cardinality(Upto(O, i)))]
               = On(Upto(Q, i), Upto(O, i - 1))
  <2>1. i \in Nat
    OBVIOUS
  <2>2. Cardinality(Upto(Q, i)) \in 0..Cardinality(Q)
    BY <1>0, <2>1, UptoCounts
  <2>3. Cardinality(Upto(O, i)) \in 1..Cardinality(O)
    BY <1>0, <2>1, UptoCounts
  <2>4. b + (Cardinality(Upto(Q, i)) + Cardinality(Upto(O, i)))
          \in 1..(b + (Cardinality(Q) + Cardinality(O)))
    BY <1>0, <2>2, <2>3
  <2>5. ts[b + (Cardinality(Upto(R, i)) + Cardinality(Upto(P, i)))]
          = On(Upto(R, i), Upto(P, i - 1))
    BY <1>2, Zenon DEF Entries
  <2> QED
    BY <2>4, <2>5, Zenon
<1> QED
  BY <1>1, <1>2, Zenon DEF Entries

--------------------------------------------------------------------------------
(* The tracking stack and shouldTrack, for clean runs R and clean pauses P. *)

Restores(R, P, ts, on, sure) ==
  /\ Determined(R, sure) => on = On(R, P)
  /\ Entries(R, P, ts, Len(ts) - (Cardinality(R) + Cardinality(P)), sure)

LEMMA OnBoolean == \A R, P : On(R, P) \in BOOLEAN
BY DEF On

\* Nothing is said while no run is clean, once a pause was lost.
LEMMA EmptyRestores == \A ts, on : Restores({}, {}, ts, on, FALSE)
BY Zenon DEF Restores, Entries, Determined

\* One entry more.
LEMMA RunRestores ==
  ASSUME NEW n \in Nat, NEW R \in SUBSET (1..n), NEW P \in SUBSET (1..n),
         NEW ts \in Seq(BOOLEAN), NEW on \in BOOLEAN, NEW sure,
         Cardinality(R) + Cardinality(P) <= Len(ts), Restores(R, P, ts, on, sure)
  PROVE  Restores(R \cup {n + 1}, P, Append(ts, on), TRUE, sure)
<1> DEFINE Q == R \cup {n + 1}
           us == Append(ts, on)
           b == Len(ts) - (Cardinality(R) + Cardinality(P))
<1>1. /\ Cardinality(R) \in Nat /\ Cardinality(P) \in Nat /\ IsFiniteSet(R) /\ n + 1 \notin R
  <2>1. IsFiniteSet(R) /\ Cardinality(R) \in Nat
    BY UptoCounts
  <2>2. Cardinality(P) \in Nat
    BY UptoCounts
  <2>3. n + 1 \notin R
    OBVIOUS
  <2> QED
    BY <2>1, <2>2, <2>3
<1>2. Cardinality(Q) = Cardinality(R) + 1 /\ Len(us) = Len(ts) + 1 /\ Len(ts) \in Nat
  <2>1. Cardinality(Q) = Cardinality(R) + 1
    BY <1>1, FS_AddElement
  <2>2. Len(us) = Len(ts) + 1 /\ Len(ts) \in Nat
    OBVIOUS
  <2> QED
    BY <2>1, <2>2
<1>3. /\ b \in Nat /\ Len(ts) = b + (Cardinality(R) + Cardinality(P))
      /\ b = Len(us) - (Cardinality(Q) + Cardinality(P))
  <2> DEFINE l == Len(ts)
             m == Len(us)
             r == Cardinality(R)
             q == Cardinality(Q)
             p == Cardinality(P)
  <2>1. /\ l \in Nat /\ r \in Nat /\ p \in Nat /\ r + p <= l /\ m = l + 1 /\ q = r + 1
    BY <1>1, <1>2, Zenon
  <2> HIDE DEF l, m, r, q, p
  <2>2. /\ l - (r + p) \in Nat /\ l = (l - (r + p)) + (r + p)
        /\ l - (r + p) = m - (q + p)
    BY <2>1
  <2> QED
    BY <2>2, Zenon DEF l, m, r, q, p
<1>4. Entries(R, P, ts, b, sure) /\ (Determined(R, sure) => on = On(R, P))
  BY Zenon DEF Restores
<1> HIDE DEF b
<1>5. Entries(Q, P, us, b, sure) /\ On(Q, P)
  BY <1>3, <1>4, RunEntry
<1>6. On(Q, P) = TRUE
  BY <1>5, OnBoolean, Zenon
<1> HIDE DEF Q, us
<1>7. Restores(Q, P, us, TRUE, sure)
  BY <1>3, <1>5, <1>6, Zenon DEF Restores
<1> QED
  BY <1>7 DEF Q, us

LEMMA PauseRestores ==
  ASSUME NEW n \in Nat, n > 0, NEW R \in SUBSET (1..n), NEW P \in SUBSET (1..n), n \notin P,
         NEW ts \in Seq(BOOLEAN), NEW on \in BOOLEAN, NEW sure,
         Cardinality(R) + Cardinality(P) <= Len(ts), Restores(R, P, ts, on, sure)
  PROVE  Restores(R, P \cup {n}, Append(ts, on), FALSE, sure)
<1> DEFINE Q == P \cup {n}
           us == Append(ts, on)
           b == Len(ts) - (Cardinality(R) + Cardinality(P))
<1>1. /\ Cardinality(R) \in Nat /\ Cardinality(P) \in Nat /\ IsFiniteSet(P)
  <2>1. IsFiniteSet(P) /\ Cardinality(P) \in Nat
    BY UptoCounts
  <2>2. Cardinality(R) \in Nat
    BY UptoCounts
  <2> QED
    BY <2>1, <2>2
<1>2. Cardinality(Q) = Cardinality(P) + 1 /\ Len(us) = Len(ts) + 1 /\ Len(ts) \in Nat
  <2>1. Cardinality(Q) = Cardinality(P) + 1
    BY <1>1, FS_AddElement
  <2>2. Len(us) = Len(ts) + 1 /\ Len(ts) \in Nat
    OBVIOUS
  <2> QED
    BY <2>1, <2>2
<1>3. /\ b \in Nat /\ Len(ts) = b + (Cardinality(R) + Cardinality(P))
      /\ b = Len(us) - (Cardinality(R) + Cardinality(Q))
  <2> DEFINE l == Len(ts)
             m == Len(us)
             r == Cardinality(R)
             q == Cardinality(Q)
             p == Cardinality(P)
  <2>1. /\ l \in Nat /\ r \in Nat /\ p \in Nat /\ r + p <= l /\ m = l + 1 /\ q = p + 1
    BY <1>1, <1>2, Zenon
  <2> HIDE DEF l, m, r, q, p
  <2>2. /\ l - (r + p) \in Nat /\ l = (l - (r + p)) + (r + p)
        /\ l - (r + p) = m - (r + q)
    BY <2>1
  <2> QED
    BY <2>2, Zenon DEF l, m, r, q, p
<1>4. Entries(R, P, ts, b, sure) /\ (Determined(R, sure) => on = On(R, P))
  BY Zenon DEF Restores
<1> HIDE DEF b
<1>5. Entries(R, Q, us, b, sure) /\ ~On(R, Q)
  BY <1>3, <1>4, PauseEntry
<1>6. On(R, Q) = FALSE
  BY <1>5, OnBoolean, Zenon
<1> HIDE DEF Q, us
<1>7. Restores(R, Q, us, FALSE, sure)
  BY <1>3, <1>5, <1>6, Zenon DEF Restores
<1> QED
  BY <1>7 DEF Q, us

\* The end of a pause.
LEMMA ResetRestores ==
  ASSUME NEW n \in Nat, NEW R \in SUBSET (1..n), NEW P \in SUBSET (1..n), n \in P,
         NEW ts \in Seq(BOOLEAN), NEW on, NEW sure,
         Cardinality(R) + Cardinality(P) <= Len(ts), Restores(R, P, ts, on, sure)
  PROVE  Restores(R, P \ {n}, Front(ts), Last(ts), sure)
<1> DEFINE O == P \ {n}
           us == Front(ts)
           b == Len(ts) - (Cardinality(R) + Cardinality(P))
<1>1. /\ Upto(R, n) = R /\ Upto(P, n) = P /\ Upto(P, n - 1) = O
      /\ Cardinality(O) = Cardinality(P) - 1
      /\ Cardinality(R) \in Nat /\ Cardinality(P) \in Nat /\ Cardinality(O) \in Nat
  <2>1. /\ IsFiniteSet(P) /\ Cardinality(P) \in Nat /\ Cardinality(R) \in Nat
        /\ Upto(P, n) = P /\ Upto(R, n) = R
    BY UptoCounts
  <2>2. Cardinality(O) = Cardinality(P) - 1 /\ IsFiniteSet(O)
    BY <2>1, FS_RemoveElement
  <2>3. \A p \in P : p <= n - 1 <=> p # n
    OBVIOUS
  <2>4. Upto(P, n - 1) = O
    BY <2>3, Zenon DEF Upto
  <2> QED
    BY <2>1, <2>2, <2>4, FS_CardinalityType
<1>2. Len(ts) \in Nat /\ Len(ts) > 0 /\ Len(ts) - 1 \in 0..Len(ts)
  <2> HIDE DEF O
  <2>1. Len(ts) \in Nat
    OBVIOUS
  <2> QED
    BY <1>1, <2>1
<1>3. /\ us = SubSeq(ts, 1, Len(ts) - 1) /\ us \in Seq(BOOLEAN) /\ Len(us) = Len(ts) - 1
      /\ \A j \in 1..(Len(ts) - 1) : us[j] = ts[j]
  <2>1. us = SubSeq(ts, 1, Len(ts) - 1)
    BY DEF Front
  <2> HIDE DEF us
  <2>2. /\ us \in Seq(BOOLEAN) /\ Len(us) = Len(ts) - 1
        /\ \A j \in 1..(Len(ts) - 1) : us[j] = ts[j]
    BY <1>2, <2>1, Prefix
  <2> QED
    BY <2>1, <2>2
<1>4. /\ b \in Nat /\ b = Len(us) - (Cardinality(R) + Cardinality(O))
      /\ Len(ts) - 1 = b + (Cardinality(R) + Cardinality(O))
      /\ Len(ts) = b + (Cardinality(R) + Cardinality(P))
  <2> DEFINE l == Len(ts)
             m == Len(us)
             r == Cardinality(R)
             q == Cardinality(O)
             p == Cardinality(P)
  <2>1. /\ l \in Nat /\ r \in Nat /\ p \in Nat /\ r + p <= l /\ m = l - 1 /\ q = p - 1
    BY <1>1, <1>2, <1>3, Zenon
  <2> HIDE DEF l, m, r, q, p
  <2>2. /\ l - (r + p) \in Nat /\ l - (r + p) = m - (r + q)
        /\ l - 1 = (l - (r + p)) + (r + q)
        /\ l = (l - (r + p)) + (r + p)
    BY <2>1
  <2> QED
    BY <2>2, Zenon DEF l, m, r, q, p
<1>5. Entries(R, P, ts, b, sure)
  BY Zenon DEF Restores
<1>6. \A i \in R : /\ Upto(R, i) = Upto(R, i) /\ Upto(R, i - 1) = Upto(R, i - 1)
                  /\ Upto(O, i - 1) = Upto(P, i - 1)
  <2>1. \A i \in R : ~(n <= i - 1)
    OBVIOUS
  <2> QED
    BY <2>1, Zenon DEF Upto
<1>7. \A i \in O : /\ Upto(R, i) = Upto(R, i) /\ Upto(O, i) = Upto(P, i)
                  /\ Upto(O, i - 1) = Upto(P, i - 1)
  <2>1. \A i \in O : ~(n <= i - 1) /\ ~(n <= i)
    OBVIOUS
  <2> QED
    BY <2>1, Zenon DEF Upto
<1>8. R \in SUBSET R /\ O \in SUBSET P
  OBVIOUS
<1> HIDE DEF O, us, b
<1>9. \A j \in 1..(b + (Cardinality(R) + Cardinality(O))) : us[j] = ts[j]
  BY <1>3, <1>4, Zenon
<1>10. Entries(R, O, us, b, sure)
  <2>1. b \in Nat
    BY <1>4
  <2> QED
    BY <2>1, <1>5, <1>6, <1>7, <1>8, <1>9, EntriesLeft
<1>11. Determined(R, sure) => Last(ts) = On(R, O)
  <2>1. Determined(Upto(R, n), sure) =>
          ts[b + (Cardinality(Upto(R, n)) + Cardinality(Upto(P, n)))]
            = On(Upto(R, n), Upto(P, n - 1))
    BY <1>5, Zenon DEF Entries
  <2>2. Last(ts) = ts[Len(ts)]
    BY DEF Last
  <2> QED
    BY <1>1, <1>4, <2>1, <2>2, Zenon
<1>12. Restores(R, O, us, Last(ts), sure)
  BY <1>4, <1>10, <1>11, Zenon DEF Restores
<1> QED
  BY <1>12 DEF O, us

\* The run that is first left gives back what was before it.
LEMMA FirstLeft ==
  ASSUME NEW n \in Nat, NEW R \in SUBSET (1..n), NEW k \in Nat,
         Cardinality(Upto(R, k)) # Cardinality(R)
  PROVE  \E i \in R : /\ i > k /\ Upto(R, i - 1) = Upto(R, k)
                      /\ Cardinality(Upto(R, i)) = Cardinality(Upto(R, k)) + 1
<1> DEFINE Q == Upto(R, k)
<1>1. /\ IsFiniteSet(R) /\ Cardinality(R) \in Nat
      /\ IsFiniteSet(Q) /\ Cardinality(Q) \in 0..Cardinality(R)
  BY UptoCounts
<1>2. Cardinality(Q) + 1 \in 1..Cardinality(R)
  BY <1>1
<1>3. PICK i \in R : Cardinality(Upto(R, i)) = Cardinality(Q) + 1
  BY <1>2, Ranked
<1>4. i \in Nat /\ i > 0 /\ i - 1 \in Nat
  OBVIOUS
<1>5. Cardinality(Upto(R, i - 1)) = Cardinality(Q) /\ IsFiniteSet(Upto(R, i - 1))
  <2>1. Cardinality(Upto(R, i)) = Cardinality(Upto(R, i - 1)) + 1
    BY <1>4, UptoNext
  <2>2. IsFiniteSet(Upto(R, i - 1)) /\ Cardinality(Upto(R, i - 1)) \in 0..Cardinality(R)
    BY <1>4, UptoCounts
  <2> QED
    BY <1>1, <1>3, <2>1, <2>2
<1>6. i > k
  <2>1. SUFFICES ASSUME ~(i > k) PROVE FALSE
    OBVIOUS
  <2>2. Upto(R, i) \in SUBSET Q
    <3>1. \A j \in R : j <= i => j <= k
      BY <1>4, <2>1
    <3> QED
      BY <3>1, Zenon DEF Upto
  <2>3. Cardinality(Upto(R, i)) <= Cardinality(Q)
    BY <1>1, <2>2, FS_Subset
  <2> QED
    BY <1>1, <1>3, <2>3
<1>7. Upto(R, i - 1) = Q
  <2>1. Q \in SUBSET Upto(R, i - 1)
    <3>1. \A j \in R : j <= k => j <= i - 1
      BY <1>4, <1>6
    <3> QED
      BY <3>1, Zenon DEF Upto
  <2> QED
    BY <1>5, <2>1, FS_Subset
<1> QED
  BY <1>3, <1>6, <1>7

LEMMA CutEntries ==
  ASSUME NEW n \in Nat, NEW R \in SUBSET (1..n), NEW P \in SUBSET (1..n), NEW k \in Nat,
         \A i \in P : i <= k, NEW ts, NEW us, NEW b \in Nat, NEW sure,
         Entries(R, P, ts, b, sure),
         \A j \in 1..(b + (Cardinality(Upto(R, k)) + Cardinality(P))) : us[j] = ts[j]
  PROVE  Entries(Upto(R, k), P, us, b, sure)
<1> DEFINE Q == Upto(R, k)
<1>1. \A i \in Q : /\ Upto(Q, i) = Upto(R, i) /\ Upto(Q, i - 1) = Upto(R, i - 1)
                   /\ Upto(P, i - 1) = Upto(P, i - 1)
  <2>1. \A i \in Q, j \in R : /\ j <= i => j <= k
                              /\ j <= i - 1 => j <= k
    BY DEF Upto
  <2> QED
    BY <2>1, Zenon DEF Upto
<1>2. \A i \in P : /\ Upto(Q, i) = Upto(R, i) /\ Upto(P, i) = Upto(P, i)
                   /\ Upto(P, i - 1) = Upto(P, i - 1)
  <2>1. \A i \in P, j \in R : j <= i => j <= k
    OBVIOUS
  <2> QED
    BY <2>1, Zenon DEF Upto
<1>3. Q \in SUBSET R /\ P \in SUBSET P
  BY DEF Upto
<1> HIDE DEF Q
<1>4. \A j \in 1..(b + (Cardinality(Q) + Cardinality(P))) : us[j] = ts[j]
  BY DEF Q
<1>5. Entries(Q, P, us, b, sure)
  BY <1>1, <1>2, <1>3, <1>4, EntriesLeft
<1> QED
  BY <1>5 DEF Q

\* Leaving c runs, by a return or by an exception.
Undone(ts, on, c, us, on2) ==
  /\ us = SubSeq(ts, 1, Len(ts) - c)
  /\ on2 = IF c = 0 THEN on ELSE ts[Len(ts) - c + 1]

LEMMA CutRestores ==
  ASSUME NEW n \in Nat, NEW R \in SUBSET (1..n), NEW P \in SUBSET (1..n), NEW k \in Nat,
         \A i \in P : i <= k, NEW ts \in Seq(BOOLEAN), NEW on, NEW sure,
         Cardinality(R) + Cardinality(P) <= Len(ts), Restores(R, P, ts, on, sure),
         NEW c, c = Cardinality(R) - Cardinality(Upto(R, k)),
         NEW us, NEW on2, Undone(ts, on, c, us, on2)
  PROVE  Restores(Upto(R, k), P, us, on2, sure)
<1> DEFINE Q == Upto(R, k)
           b == Len(ts) - (Cardinality(R) + Cardinality(P))
<1>1. /\ IsFiniteSet(R) /\ Cardinality(R) \in Nat /\ Cardinality(P) \in Nat
      /\ Cardinality(Q) \in 0..Cardinality(R) /\ Q \in SUBSET R /\ Len(ts) \in Nat
  <2>1. /\ IsFiniteSet(R) /\ Cardinality(R) \in Nat /\ Cardinality(Q) \in 0..Cardinality(R)
    BY UptoCounts
  <2>2. Cardinality(P) \in Nat
    BY UptoCounts
  <2>3. Q \in SUBSET R /\ Len(ts) \in Nat
    BY DEF Upto
  <2> QED
    BY <2>1, <2>2, <2>3
<1>2. /\ b \in Nat /\ Len(ts) - c \in 0..Len(ts)
      /\ Len(ts) - c = b + (Cardinality(Q) + Cardinality(P))
      /\ Len(ts) - c + 1 = b + ((Cardinality(Q) + 1) + Cardinality(P))
      /\ b = (Len(ts) - c) - (Cardinality(Q) + Cardinality(P))
      /\ c = 0 <=> Cardinality(Q) = Cardinality(R)
  <2> DEFINE l == Len(ts)
             r == Cardinality(R)
             q == Cardinality(Q)
             p == Cardinality(P)
             d == c
  <2>1. l \in Nat /\ r \in Nat /\ p \in Nat /\ r + p <= l /\ q \in 0..r /\ d = r - q
    BY <1>1, Zenon
  <2> HIDE DEF l, r, q, p, d
  <2>2. /\ l - (r + p) \in Nat /\ l - d \in 0..l
        /\ l - d = (l - (r + p)) + (q + p)
        /\ l - d + 1 = (l - (r + p)) + ((q + 1) + p)
        /\ l - (r + p) = (l - d) - (q + p)
        /\ d = 0 <=> q = r
    BY <2>1
  <2> QED
    BY <2>2, Zenon DEF l, r, q, p, d
<1>3. /\ Len(us) = Len(ts) - c
      /\ \A j \in 1..(Len(ts) - c) : us[j] = ts[j]
  <2>1. Len(ts) - c \in 0..Len(ts)
    BY <1>2
  <2>2. us = SubSeq(ts, 1, Len(ts) - c)
    BY DEF Undone
  <2> QED
    BY <2>1, <2>2, Prefix
<1>4. Entries(R, P, ts, b, sure) /\ (Determined(R, sure) => on = On(R, P))
  BY Zenon DEF Restores
<1> HIDE DEF b
<1>5. Entries(Q, P, us, b, sure)
  <2>1. \A j \in 1..(b + (Cardinality(Q) + Cardinality(P))) : us[j] = ts[j]
    BY <1>2, <1>3, Zenon
  <2> QED
    BY <2>1, <1>2, <1>4, CutEntries, Zenon
<1> HIDE DEF Q
<1>6. Determined(Q, sure) => on2 = On(Q, P)
  <2>1. CASE c = 0
    <3>1. Q = R
      BY <1>1, <1>2, <2>1, FS_Subset
    <3>2. on2 = on
      BY <2>1, Zenon DEF Undone
    <3> QED
      BY <1>4, <3>1, <3>2, Zenon
  <2>2. CASE c # 0
    <3>1. PICK i \in R : /\ i > k /\ Upto(R, i - 1) = Q
                         /\ Cardinality(Upto(R, i)) = Cardinality(Q) + 1
      BY <1>2, <2>2, FirstLeft, Zenon DEF Q
    <3>2. Upto(P, i - 1) = P
      <4>1. \A j \in P : j <= i - 1
        BY <3>1
      <4> QED
        BY <4>1, Zenon DEF Upto
    <3>3. Determined(Upto(R, i - 1), sure) =>
            ts[b + (Cardinality(Upto(R, i)) + Cardinality(Upto(P, i - 1)))]
              = On(Upto(R, i - 1), Upto(P, i - 1))
      BY <1>4, Zenon DEF Entries
    <3>4. on2 = ts[b + ((Cardinality(Q) + 1) + Cardinality(P))]
      BY <1>2, <2>2, Zenon DEF Undone
    <3> QED
      BY <3>1, <3>2, <3>3, <3>4, Zenon
  <2> QED
    BY <2>1, <2>2
<1>7. Restores(Q, P, us, on2, sure)
  BY <1>2, <1>3, <1>5, <1>6, Zenon DEF Restores
<1> QED
  BY <1>7 DEF Q

--------------------------------------------------------------------------------
(***************************************************************************)
(* The effect stack names the runs, whatever exceptions did.  A spoilt     *)
(* frame has only spoilt ones under it, so that the clean ones are on top, *)
(* and what they save and restore is not disturbed by entries that the     *)
(* pauses of the others have left.                                         *)
(***************************************************************************)
Naming ==
  /\ Named(RunsOf(stack), stack, effectStack)
  /\ \A i, k \in DOMAIN effectStack : effectStack[i] = effectStack[k] => i = k
  /\ \A i \in DOMAIN effectStack : status[effectStack[i]] # "new"
Spoils(st, l) == \A i \in DOMAIN st : st[i].spoilt => l # 0 /\ \A k \in 1..i : st[k].spoilt
Tracks(st, ts, on, l) == Restores(CleanRuns(st), CleanPauses(st), ts, on, l = 0)
Following ==
  Naming /\ Spoils(stack, lost) /\ Tracks(stack, trackStack, shouldTrack, lost)

\* A node is created once.
CreatedStay == \A n \in Nodes : status[n] # "new" => status'[n] # "new"

LEMMA Ranges ==
  ASSUME NEW st \in Seq(Frame)
  PROVE  Len(st) \in Nat /\ RunsOf(st) \in SUBSET (1..Len(st)) /\ PausesOf(st) \in SUBSET (1..Len(st))
BY DEF RunsOf, PausesOf

\* There is an entry for every clean run and pause.
LEMMA CleanCounts ==
  ASSUME Balanced
  PROVE  /\ CleanRuns(stack) \in SUBSET (1..Len(stack))
         /\ CleanPauses(stack) \in SUBSET (1..Len(stack))
         /\ Cardinality(CleanRuns(stack)) + Cardinality(CleanPauses(stack)) <= Len(trackStack)
         /\ Len(stack) \in Nat /\ trackStack \in Seq(BOOLEAN) /\ shouldTrack \in BOOLEAN
<1>1. stack \in Seq(Frame) /\ trackStack \in Seq(BOOLEAN) /\ shouldTrack \in BOOLEAN
  BY DEF Balanced, StacksTyped
<1>2. CleanRuns(stack) \in SUBSET RunsOf(stack) /\ CleanPauses(stack) \in SUBSET PausesOf(stack)
  BY DEF CleanRuns, CleanPauses
<1>3. /\ Cardinality(CleanRuns(stack)) <= Cardinality(RunsOf(stack))
      /\ Cardinality(CleanPauses(stack)) <= Cardinality(PausesOf(stack))
      /\ Cardinality(CleanRuns(stack)) \in Nat /\ Cardinality(CleanPauses(stack)) \in Nat
  BY <1>1, <1>2, Finite, FS_Subset, FS_CardinalityType
<1> DEFINE c == Cardinality(CleanRuns(stack))
           d == Cardinality(CleanPauses(stack))
           r == Cardinality(RunsOf(stack))
           p == Cardinality(PausesOf(stack))
           t == Len(trackStack)
<1>4. /\ c <= r /\ d <= p /\ c \in Nat /\ d \in Nat /\ r \in Nat /\ p \in Nat
      /\ lost \in Nat /\ t = r + p + lost
  BY <1>3, Lengths, Zenon
<1> HIDE DEF c, d, r, p, t
<1>5. c + d <= t
  BY <1>4
<1> QED
  BY <1>1, <1>2, <1>5, Ranges, Zenon DEF c, d, t

\* The same frames, but for what trigger() loops have still to run.
Alike(s, t) ==
  /\ DOMAIN t = DOMAIN s
  /\ \A i \in DOMAIN s : /\ t[i].kind = s[i].kind /\ t[i].node = s[i].node
                         /\ t[i].paused = s[i].paused /\ t[i].spoilt = s[i].spoilt

LEMMA AlikeSets ==
  ASSUME NEW s \in Seq(Frame), NEW t, NEW l, Alike(s, t), Spoils(s, l)
  PROVE  /\ RunsOf(t) = RunsOf(s) /\ PausesOf(t) = PausesOf(s)
         /\ CleanRuns(t) = CleanRuns(s) /\ CleanPauses(t) = CleanPauses(s)
         /\ \A k \in RunsOf(s) : t[k].node = s[k].node
         /\ Spoils(t, l)
<1>1. RunsOf(t) = RunsOf(s) /\ PausesOf(t) = PausesOf(s)
  BY Zenon DEF Alike, RunsOf, PausesOf
<1>2. \A k \in RunsOf(s) : t[k].node = s[k].node
  BY Zenon DEF Alike, RunsOf
<1>3. /\ \A k \in RunsOf(s) : t[k].spoilt = s[k].spoilt
      /\ \A k \in PausesOf(s) : t[k].spoilt = s[k].spoilt
  BY Zenon DEF Alike, RunsOf, PausesOf
<1>4. CleanRuns(t) = CleanRuns(s) /\ CleanPauses(t) = CleanPauses(s)
  BY <1>1, <1>3, Zenon DEF CleanRuns, CleanPauses
<1>5. Spoils(t, l)
  <2>1. \A i \in DOMAIN s : \A k \in 1..i : k \in DOMAIN s
    OBVIOUS
  <2> QED
    BY <2>1, Zenon DEF Alike, Spoils
<1> QED
  BY <1>1, <1>2, <1>4, <1>5

\* The stacks stay, and so do the runs and the pauses.
LEMMA KeepFollowing ==
  ASSUME Following, Balanced, CreatedStay, UNCHANGED tracking,
         RunsOf(stack') = RunsOf(stack), CleanRuns(stack') = CleanRuns(stack),
         CleanPauses(stack') = CleanPauses(stack),
         \A k \in RunsOf(stack) : stack'[k].node = stack[k].node,
         Spoils(stack', lost)
  PROVE  Following'
<1>1. Named(RunsOf(stack'), stack', effectStack')
  BY Zenon DEF Following, Naming, Named, tracking
<1>2. /\ \A i, k \in DOMAIN effectStack' : effectStack'[i] = effectStack'[k] => i = k
      /\ \A i \in DOMAIN effectStack' : status'[effectStack'[i]] # "new"
  <2>1. effectStack' = effectStack /\ \A i \in DOMAIN effectStack : effectStack[i] \in Nodes
    BY DEF tracking, Balanced, StacksTyped
  <2> QED
    BY <2>1, Zenon DEF Following, Naming, CreatedStay
<1>3. Tracks(stack', trackStack', shouldTrack', lost') /\ Spoils(stack', lost')
  BY Zenon DEF Following, Tracks, tracking
<1> QED
  BY <1>1, <1>2, <1>3, Zenon DEF Following, Naming

LEMMA SameFollowing ==
  ASSUME Following, Balanced, CreatedStay, Alike(stack, stack'), UNCHANGED tracking
  PROVE  Following'
<1>1. stack \in Seq(Frame) /\ Spoils(stack, lost)
  BY Zenon DEF Balanced, StacksTyped, Following
<1>2. /\ RunsOf(stack') = RunsOf(stack) /\ CleanRuns(stack') = CleanRuns(stack)
      /\ CleanPauses(stack') = CleanPauses(stack)
      /\ \A k \in RunsOf(stack) : stack'[k].node = stack[k].node
      /\ Spoils(stack', lost)
  BY <1>1, AlikeSets
<1> QED
  BY <1>2, KeepFollowing

\* A frame is pushed.
LEMMA PushedRuns ==
  ASSUME NEW st \in Seq(Frame), NEW f \in Frame, ~f.paused, ~f.spoilt, NEW l, Spoils(st, l)
  PROVE  /\ f.kind = "run" =>
              /\ RunsOf(Append(st, f)) = RunsOf(st) \cup {Len(st) + 1}
              /\ CleanRuns(Append(st, f)) = CleanRuns(st) \cup {Len(st) + 1}
         /\ f.kind # "run" =>
              /\ RunsOf(Append(st, f)) = RunsOf(st)
              /\ CleanRuns(Append(st, f)) = CleanRuns(st)
         /\ CleanPauses(Append(st, f)) = CleanPauses(st)
         /\ Append(st, f)[Len(st) + 1] = f
         /\ \A k \in RunsOf(st) : Append(st, f)[k] = st[k]
         /\ Spoils(Append(st, f), l)
<1> DEFINE t == Append(st, f)
           n == Len(st) + 1
<1>1. /\ DOMAIN t = DOMAIN st \cup {n} /\ n \notin DOMAIN st
      /\ t[n] = f
      /\ \A i \in DOMAIN st : t[i] = st[i] /\ \A k \in 1..i : k \in DOMAIN st
  OBVIOUS
<1> HIDE DEF t, n
<1>2. /\ f.kind = "run" => RunsOf(t) = RunsOf(st) \cup {n}
      /\ f.kind # "run" => RunsOf(t) = RunsOf(st)
  BY <1>1, Zenon DEF RunsOf
<1>3. PausesOf(t) = PausesOf(st)
  BY <1>1, Zenon DEF PausesOf
<1>4. /\ f.kind = "run" => CleanRuns(t) = CleanRuns(st) \cup {n}
      /\ f.kind # "run" => CleanRuns(t) = CleanRuns(st)
  <2>1. \A i \in RunsOf(st) : i \in DOMAIN st
    BY DEF RunsOf
  <2> QED
    BY <1>1, <1>2, <2>1, Zenon DEF CleanRuns
<1>5. CleanPauses(t) = CleanPauses(st)
  <2>1. \A i \in PausesOf(st) : i \in DOMAIN st
    BY DEF PausesOf
  <2> QED
    BY <1>1, <1>3, <2>1, Zenon DEF CleanPauses
<1>6. \A k \in RunsOf(st) : t[k] = st[k]
  BY <1>1, Zenon DEF RunsOf
<1>7. Spoils(t, l)
  BY <1>1, Zenon DEF Spoils
<1> QED
  BY <1>1, <1>2, <1>4, <1>5, <1>6, <1>7, Zenon DEF t, n

LEMMA RunFollowing ==
  ASSUME Following, Balanced, CreatedStay, NEW n \in Nodes, NEW base \in Seq(Frame),
         Alike(stack, base),
         ~OnEffectStack(n), status'[n] # "new", StartRun(n, base)
  PROVE  Following'
<1> DEFINE m == Len(stack)
           R == RunsOf(stack)
           Q == R \cup {m + 1}
           f == CodeFrame("run", n)
<1>1. /\ stack \in Seq(Frame) /\ effectStack \in Seq(Nodes)
      /\ m \in Nat /\ R \in SUBSET (1..m) /\ Len(effectStack) = Cardinality(R)
  BY Ranges, Zenon DEF Balanced, StacksTyped, TrackingBalanced
<1>2. /\ stack' = Append(base, f) /\ effectStack' = Append(effectStack, n)
      /\ trackStack' = Append(trackStack, shouldTrack) /\ shouldTrack' = TRUE
      /\ UNCHANGED lost
  BY DEF StartRun
<1>3. f \in Frame /\ ~f.paused /\ ~f.spoilt /\ f.kind = "run" /\ f.node = n
  BY FramesTyped, FrameFields DEF CodeFrame
<1>a. /\ RunsOf(base) = R /\ CleanRuns(base) = CleanRuns(stack)
      /\ CleanPauses(base) = CleanPauses(stack) /\ Spoils(base, lost)
      /\ \A k \in R : base[k].node = stack[k].node
  BY <1>1, AlikeSets, Zenon DEF Following
<1>b. Len(base) = m
  BY <1>1 DEF Alike
<1>4. /\ RunsOf(stack') = Q /\ CleanRuns(stack') = CleanRuns(stack) \cup {m + 1}
      /\ CleanPauses(stack') = CleanPauses(stack) /\ Spoils(stack', lost')
      /\ stack'[m + 1].node = n /\ \A k \in R : stack'[k].node = stack[k].node
  <2>0. /\ RunsOf(Append(base, f)) = RunsOf(base) \cup {Len(base) + 1}
        /\ CleanRuns(Append(base, f)) = CleanRuns(base) \cup {Len(base) + 1}
        /\ CleanPauses(Append(base, f)) = CleanPauses(base)
        /\ Append(base, f)[Len(base) + 1] = f
        /\ \A k \in RunsOf(base) : Append(base, f)[k] = base[k]
        /\ Spoils(Append(base, f), lost)
    BY <1>3, <1>a, PushedRuns
  <2> HIDE DEF f, R, m
  <2> QED
    BY <1>2, <1>3, <1>a, <1>b, <2>0, Zenon
<1> HIDE DEF m, R, f
<1>5. /\ \A i, k \in DOMAIN effectStack' : effectStack'[i] = effectStack'[k] => i = k
      /\ \A i \in DOMAIN effectStack' : status'[effectStack'[i]] # "new"
  <2>1. /\ DOMAIN effectStack' = DOMAIN effectStack \cup {Len(effectStack) + 1}
        /\ effectStack'[Len(effectStack) + 1] = n
        /\ \A i \in DOMAIN effectStack : effectStack'[i] = effectStack[i] /\ effectStack[i] \in Nodes
    BY <1>1, <1>2
  <2>2. \A i \in DOMAIN effectStack : effectStack[i] # n
    BY Zenon DEF OnEffectStack, ToSet
  <2> QED
    BY <2>1, <2>2, Zenon DEF Following, Naming, CreatedStay
<1>6. Named(Q, stack', effectStack')
  <2>1. ASSUME NEW k \in R PROVE effectStack'[Cardinality(Upto(Q, k))] = stack'[k].node
    <3>1. k \in Nat /\ k # m + 1 /\ ~(m + 1 <= k)
      BY <1>1
    <3>2. Upto(Q, k) = Upto(R, k)
      BY <3>1, Zenon DEF Upto
    <3>3. Cardinality(Upto(R, k)) \in 1..Len(effectStack)
      BY <1>1, <3>1, UptoCounts
    <3>4. effectStack'[Cardinality(Upto(R, k))] = effectStack[Cardinality(Upto(R, k))]
      BY <1>1, <1>2, <3>3
    <3> QED
      BY <1>4, <3>2, <3>4, Zenon DEF Following, Naming, Named, R
  <2>2. effectStack'[Cardinality(Upto(Q, m + 1))] = stack'[m + 1].node
    <3>1. \A k \in Q : k <= m + 1
      BY <1>1
    <3>2. Upto(Q, m + 1) = Q
      BY <3>1, Zenon DEF Upto
    <3>3. IsFiniteSet(R) /\ m + 1 \notin R
      <4>1. IsFiniteSet(R)
        BY <1>1, UptoCounts
      <4> QED
        BY <1>1, <4>1
    <3>4. Cardinality(Q) = Len(effectStack) + 1
      BY <1>1, <3>3, FS_AddElement
    <3>5. effectStack'[Len(effectStack) + 1] = n
      BY <1>1, <1>2
    <3> QED
      BY <1>4, <3>2, <3>4, <3>5, Zenon
  <2> QED
    BY <2>1, <2>2, Zenon DEF Named
<1>7. Tracks(stack', trackStack', shouldTrack', lost')
  <2>1. Restores(CleanRuns(stack), CleanPauses(stack), trackStack, shouldTrack, lost = 0)
    BY Zenon DEF Following, Tracks
  <2>2. Restores(CleanRuns(stack) \cup {m + 1}, CleanPauses(stack),
                 Append(trackStack, shouldTrack), TRUE, lost = 0)
    BY <2>1, CleanCounts, RunRestores, Zenon DEF m
  <2> QED
    BY <1>2, <1>4, <2>2, Zenon DEF Tracks
<1> QED
  BY <1>4, <1>5, <1>6, <1>7, Zenon DEF Following, Naming

\* Nothing is promised while every frame is spoilt.
LEMMA SpoiltTracks ==
  ASSUME NEW st, \A i \in DOMAIN st : st[i].spoilt, NEW l, l # 0, NEW ts, NEW on
  PROVE  Tracks(st, ts, on, l)
<1>1. CleanRuns(st) = {} /\ CleanPauses(st) = {}
  BY DEF CleanRuns, CleanPauses, RunsOf, PausesOf
<1>2. (l = 0) = FALSE
  OBVIOUS
<1> QED
  BY <1>1, <1>2, EmptyRestores, Zenon DEF Tracks

\* The last frame pauses tracking, or ends its pause.
Repaused(st, b, t) == t = [st EXCEPT ![Len(st)].paused = b]

LEMMA PausedSets ==
  ASSUME NEW st \in Seq(Frame), st # << >>, NEW b \in BOOLEAN, NEW l, Spoils(st, l),
         NEW t, Repaused(st, b, t)
  PROVE  /\ RunsOf(t) = RunsOf(st) /\ CleanRuns(t) = CleanRuns(st)
         /\ \A k \in RunsOf(st) : t[k].node = st[k].node
         /\ Spoils(t, l)
         /\ st[Len(st)].spoilt => l # 0 /\ \A i \in DOMAIN t : t[i].spoilt
         /\ CleanPauses(t) \ {Len(st)} = CleanPauses(st) \ {Len(st)}
         /\ Len(st) \in DOMAIN t /\ t[Len(st)].spoilt = st[Len(st)].spoilt
         /\ t[Len(st)].paused = b
<1> DEFINE m == Len(st)
<1>1. st[m] \in Frame /\ m \in DOMAIN st
  OBVIOUS
<1>2. /\ DOMAIN t = DOMAIN st
      /\ \A k \in DOMAIN st : k # m => t[k] = st[k]
      /\ t[m] = [st[m] EXCEPT !.paused = b]
  BY <1>1, Zenon DEF Repaused
<1>3. /\ t[m].kind = st[m].kind /\ t[m].node = st[m].node /\ t[m].spoilt = st[m].spoilt
      /\ t[m].paused = b
  BY <1>1, <1>2, Zenon DEF Frame
<1>4. /\ \A k \in DOMAIN st : \A j \in 1..k : j \in DOMAIN st
      /\ \A k \in DOMAIN st : k \in 1..m
  OBVIOUS
<1> HIDE DEF m
<1>5. \A k \in DOMAIN st : /\ t[k].kind = st[k].kind /\ t[k].node = st[k].node
                           /\ t[k].spoilt = st[k].spoilt
                           /\ k = m => t[k].paused = b
                           /\ k # m => t[k].paused = st[k].paused
  <2> SUFFICES ASSUME NEW k \in DOMAIN st
               PROVE  /\ t[k].kind = st[k].kind /\ t[k].node = st[k].node
                      /\ t[k].spoilt = st[k].spoilt
                      /\ k = m => t[k].paused = b
                      /\ k # m => t[k].paused = st[k].paused
    OBVIOUS
  <2>1. CASE k = m
    BY <1>3, <2>1, Zenon
  <2>2. CASE k # m
    <3>1. t[k] = st[k]
      BY <1>2, <2>2, Zenon
    <3> QED
      BY <2>2, <3>1, Zenon
  <2> QED
    BY <2>1, <2>2
<1>6. RunsOf(t) = RunsOf(st) /\ \A k \in RunsOf(st) : t[k].node = st[k].node
  BY <1>2, <1>5, Zenon DEF RunsOf
<1>7. CleanRuns(t) = CleanRuns(st)
  <2>1. \A k \in RunsOf(st) : t[k].spoilt = st[k].spoilt
    BY <1>5, Zenon DEF RunsOf
  <2> QED
    BY <1>6, <2>1, Zenon DEF CleanRuns
<1>8. Spoils(t, l)
  <2>1. ASSUME NEW i \in DOMAIN t, t[i].spoilt PROVE l # 0 /\ \A k \in 1..i : t[k].spoilt
    <3>1. i \in DOMAIN st /\ st[i].spoilt
      BY <1>2, <1>5, <2>1, Zenon
    <3>2. l # 0 /\ \A k \in 1..i : st[k].spoilt
      BY <3>1, Zenon DEF Spoils
    <3> QED
      BY <1>4, <1>5, <3>1, <3>2, Zenon
  <2> QED
    BY <2>1, Zenon DEF Spoils
<1>9. st[m].spoilt => l # 0 /\ \A i \in DOMAIN t : t[i].spoilt
  BY <1>1, <1>2, <1>4, <1>5, Zenon DEF Spoils
<1>10. CleanPauses(t) \ {m} = CleanPauses(st) \ {m}
  <2>1. \A k : k \in CleanPauses(st) <=> k \in DOMAIN st /\ st[k].paused /\ ~st[k].spoilt
    BY Zenon DEF CleanPauses, PausesOf
  <2>2. \A k : k \in CleanPauses(t) <=> k \in DOMAIN st /\ t[k].paused /\ ~t[k].spoilt
    BY <1>2, Zenon DEF CleanPauses, PausesOf
  <2>3. \A k : k # m => (k \in CleanPauses(t) <=> k \in CleanPauses(st))
    BY <1>2, <2>1, <2>2, Zenon
  <2> QED
    BY <2>3, Zenon
<1> QED
  BY <1>1, <1>2, <1>3, <1>6, <1>7, <1>8, <1>9, <1>10, Zenon DEF m

LEMMA PauseFollowing ==
  ASSUME Following, Balanced, PauseTracking PROVE Following'
<1> DEFINE m == Len(stack)
<1>1. /\ stack \in Seq(Frame) /\ stack # << >> /\ Spoils(stack, lost)
  BY Zenon DEF Balanced, StacksTyped, Following, PauseTracking, InCode
<1>2. m > 0 /\ m \in DOMAIN stack /\ ~stack[m].paused
  BY <1>1 DEF PauseTracking, Top, Last
<1>3. /\ stack' = [stack EXCEPT ![m].paused = TRUE]
      /\ trackStack' = Append(trackStack, shouldTrack) /\ shouldTrack' = FALSE
      /\ UNCHANGED << effectStack, status, lost >>
  BY Zenon DEF PauseTracking
<1>4. /\ RunsOf(stack') = RunsOf(stack) /\ CleanRuns(stack') = CleanRuns(stack)
      /\ \A k \in RunsOf(stack) : stack'[k].node = stack[k].node
      /\ Spoils(stack', lost)
      /\ stack[m].spoilt => lost # 0 /\ \A i \in DOMAIN stack' : stack'[i].spoilt
      /\ CleanPauses(stack') \ {m} = CleanPauses(stack) \ {m}
      /\ m \in DOMAIN stack' /\ stack'[m].spoilt = stack[m].spoilt
      /\ stack'[m].paused = TRUE
  <2> DEFINE b == TRUE
  <2>1. b \in BOOLEAN /\ Repaused(stack, b, stack')
    BY <1>3 DEF Repaused
  <2> HIDE DEF b
  <2>2. /\ RunsOf(stack') = RunsOf(stack) /\ CleanRuns(stack') = CleanRuns(stack)
        /\ \A k \in RunsOf(stack) : stack'[k].node = stack[k].node
        /\ Spoils(stack', lost)
        /\ stack[m].spoilt => lost # 0 /\ \A i \in DOMAIN stack' : stack'[i].spoilt
        /\ CleanPauses(stack') \ {m} = CleanPauses(stack) \ {m}
        /\ m \in DOMAIN stack' /\ stack'[m].spoilt = stack[m].spoilt
        /\ stack'[m].paused = b
    BY <1>1, <2>1, PausedSets
  <2> QED
    BY <2>2, Zenon DEF b
<1> HIDE DEF m
<1>5. Tracks(stack', trackStack', shouldTrack', lost')
  <2>1. CASE stack[m].spoilt
    BY <1>3, <1>4, <2>1, SpoiltTracks, Zenon
  <2>2. CASE ~stack[m].spoilt
    <3>1. Restores(CleanRuns(stack), CleanPauses(stack), trackStack, shouldTrack, lost = 0)
      BY Zenon DEF Following, Tracks
    <3>2. m \notin CleanPauses(stack) /\ m \in CleanPauses(stack')
      BY <1>2, <1>4, <2>2, Zenon DEF CleanPauses, PausesOf
    <3>4. CleanPauses(stack') = CleanPauses(stack) \cup {m}
      BY <1>4, <3>2, Zenon
    <3>3. Restores(CleanRuns(stack), CleanPauses(stack) \cup {m},
                   Append(trackStack, shouldTrack), FALSE, lost = 0)
      BY <1>2, <3>1, <3>2, CleanCounts, PauseRestores, Zenon DEF m
    <3> QED
      BY <1>3, <1>4, <3>3, <3>4, Zenon DEF Tracks
  <2> QED
    BY <2>1, <2>2
<1>6. Naming'
  BY <1>3, <1>4, Zenon DEF Following, Naming, Named
<1> QED
  BY <1>3, <1>4, <1>5, <1>6, Zenon DEF Following

LEMMA ResetFollowing ==
  ASSUME Following, Balanced, ResetTracking PROVE Following'
<1> DEFINE m == Len(stack)
<1>1. /\ stack \in Seq(Frame) /\ stack # << >> /\ Spoils(stack, lost)
  BY Zenon DEF Balanced, StacksTyped, Following, ResetTracking, InCode
<1>2. m > 0 /\ m \in DOMAIN stack /\ stack[m].paused
  BY <1>1 DEF ResetTracking, Top, Last
<1>3. /\ stack' = [stack EXCEPT ![m].paused = FALSE]
      /\ trackStack' = Front(trackStack) /\ shouldTrack' = Last(trackStack)
      /\ UNCHANGED << effectStack, status, lost >>
  BY Zenon DEF ResetTracking, Popped, Restored
<1>4. /\ RunsOf(stack') = RunsOf(stack) /\ CleanRuns(stack') = CleanRuns(stack)
      /\ \A k \in RunsOf(stack) : stack'[k].node = stack[k].node
      /\ Spoils(stack', lost)
      /\ stack[m].spoilt => lost # 0 /\ \A i \in DOMAIN stack' : stack'[i].spoilt
      /\ CleanPauses(stack') \ {m} = CleanPauses(stack) \ {m}
      /\ m \in DOMAIN stack' /\ stack'[m].spoilt = stack[m].spoilt
      /\ stack'[m].paused = FALSE
  <2> DEFINE b == FALSE
  <2>1. b \in BOOLEAN /\ Repaused(stack, b, stack')
    BY <1>3 DEF Repaused
  <2> HIDE DEF b
  <2>2. /\ RunsOf(stack') = RunsOf(stack) /\ CleanRuns(stack') = CleanRuns(stack)
        /\ \A k \in RunsOf(stack) : stack'[k].node = stack[k].node
        /\ Spoils(stack', lost)
        /\ stack[m].spoilt => lost # 0 /\ \A i \in DOMAIN stack' : stack'[i].spoilt
        /\ CleanPauses(stack') \ {m} = CleanPauses(stack) \ {m}
        /\ m \in DOMAIN stack' /\ stack'[m].spoilt = stack[m].spoilt
        /\ stack'[m].paused = b
    BY <1>1, <2>1, PausedSets
  <2> QED
    BY <2>2, Zenon DEF b
<1> HIDE DEF m
<1>5. Tracks(stack', trackStack', shouldTrack', lost')
  <2>1. CASE stack[m].spoilt
    BY <1>3, <1>4, <2>1, SpoiltTracks, Zenon
  <2>2. CASE ~stack[m].spoilt
    <3>1. Restores(CleanRuns(stack), CleanPauses(stack), trackStack, shouldTrack, lost = 0)
      BY Zenon DEF Following, Tracks
    <3>2. m \in CleanPauses(stack) /\ m \notin CleanPauses(stack')
      BY <1>2, <1>4, <2>2, Zenon DEF CleanPauses, PausesOf
    <3>4. CleanPauses(stack') = CleanPauses(stack) \ {m}
      BY <1>4, <3>2, Zenon
    <3>3. Restores(CleanRuns(stack), CleanPauses(stack) \ {m},
                   Front(trackStack), Last(trackStack), lost = 0)
      BY <3>1, <3>2, CleanCounts, ResetRestores, Zenon DEF m
    <3> QED
      BY <1>3, <1>4, <3>3, <3>4, Zenon DEF Tracks
  <2> QED
    BY <2>1, <2>2
<1>6. Naming'
  BY <1>3, <1>4, Zenon DEF Following, Naming, Named
<1> QED
  BY <1>3, <1>4, <1>5, <1>6, Zenon DEF Following

\* Leaving frames: the runs that stay keep their names.
LEMMA CutNaming ==
  ASSUME Naming, Balanced, UNCHANGED status, NEW k \in Nat,
         RunsOf(stack') = Upto(RunsOf(stack), k),
         \A i \in RunsOf(stack') : stack'[i].node = stack[i].node,
         effectStack' = SubSeq(effectStack, 1, Cardinality(Upto(RunsOf(stack), k)))
  PROVE  Naming'
<1> DEFINE R == RunsOf(stack)
           Q == Upto(R, k)
<1>1. /\ effectStack \in Seq(Nodes) /\ Len(stack) \in Nat /\ R \in SUBSET (1..Len(stack))
      /\ Len(effectStack) = Cardinality(R)
  BY Ranges, Zenon DEF Balanced, StacksTyped, TrackingBalanced
<1>2. /\ Cardinality(R) \in Nat /\ Cardinality(Q) \in 0..Cardinality(R)
      /\ Q \in SUBSET R /\ Q \in SUBSET (1..Len(stack))
  <2>1. Cardinality(R) \in Nat /\ Cardinality(Q) \in 0..Cardinality(R)
    BY <1>1, UptoCounts
  <2>2. Q \in SUBSET R
    BY DEF Upto
  <2> QED
    BY <1>1, <2>1, <2>2
<1>3. /\ \A i \in 1..Cardinality(Q) : effectStack'[i] = effectStack[i]
      /\ DOMAIN effectStack' = 1..Cardinality(Q) /\ DOMAIN effectStack' \subseteq DOMAIN effectStack
  <2>1. /\ effectStack' \in Seq(Nodes) /\ Len(effectStack') = Cardinality(Q)
        /\ \A i \in 1..Cardinality(Q) : effectStack'[i] = effectStack[i]
    BY <1>1, <1>2, Prefix
  <2> QED
    BY <1>1, <1>2, <2>1
<1> HIDE DEF R
<1>4. \A i \in Q : Upto(Q, i) = Upto(R, i)
  <2>1. \A i \in Q, j \in R : j <= i => j <= k
    BY <1>1, <1>2 DEF Upto
  <2> QED
    BY <2>1, Zenon DEF Upto
<1>5. Named(RunsOf(stack'), stack', effectStack')
  <2>1. ASSUME NEW i \in Q PROVE effectStack'[Cardinality(Upto(Q, i))] = stack'[i].node
    <3>1. i \in Nat
      BY <1>1, <1>2
    <3>2. Cardinality(Upto(Q, i)) \in 1..Cardinality(Q)
      BY <1>1, <1>2, <3>1, UptoCounts
    <3>3. effectStack[Cardinality(Upto(R, i))] = stack[i].node
      BY <1>2, Zenon DEF Naming, Named, R
    <3>4. stack'[i].node = stack[i].node
      BY Zenon DEF R
    <3> QED
      BY <1>3, <1>4, <3>2, <3>3, <3>4, Zenon
  <2> QED
    BY <2>1, Zenon DEF Named, R
<1>6. /\ \A i, j \in DOMAIN effectStack' : effectStack'[i] = effectStack'[j] => i = j
      /\ \A i \in DOMAIN effectStack' : status'[effectStack'[i]] # "new"
  <2> HIDE DEF Q
  <2>1. \A i \in DOMAIN effectStack' : i \in DOMAIN effectStack /\ effectStack'[i] = effectStack[i]
    BY <1>3, Zenon
  <2> QED
    BY <2>1, ZenonT(40) DEF Naming
<1> QED
  BY <1>5, <1>6, Zenon DEF Naming

\* The runs above frame k, and those up to it.
LEMMA CrossedCounts ==
  ASSUME NEW n \in Nat, NEW R \in SUBSET (1..n), NEW k \in Nat
  PROVE  /\ R \ {i \in R : i > k} = Upto(R, k)
         /\ Cardinality({i \in R : i > k}) = Cardinality(R) - Cardinality(Upto(R, k))
<1>1. \A i \in R : i > k <=> ~(i <= k)
  OBVIOUS
<1>2. /\ {i \in R : i > k} = R \ Upto(R, k) /\ R \ {i \in R : i > k} = Upto(R, k)
      /\ R \cap Upto(R, k) = Upto(R, k)
  BY <1>1, Zenon DEF Upto
<1>3. IsFiniteSet(R)
  BY UptoCounts
<1>4. Cardinality(R \ Upto(R, k)) = Cardinality(R) - Cardinality(R \cap Upto(R, k))
  BY <1>3, FS_Difference
<1> QED
  BY <1>2, <1>4, Zenon

\* What stays of the call stack below a cut.
LEMMA CutSets ==
  ASSUME NEW st \in Seq(Frame), NEW k \in 0..Len(st), NEW l, Spoils(st, l),
         \A i \in PausesOf(st) : i <= k
  PROVE  LET t == SubSeq(st, 1, k) IN
         /\ RunsOf(t) = Upto(RunsOf(st), k)
         /\ \A i \in RunsOf(t) : t[i].node = st[i].node
         /\ Spoils(t, l)
         /\ \/ /\ CleanRuns(t) = Upto(CleanRuns(st), k) /\ CleanPauses(t) = CleanPauses(st)
               /\ {i \in CleanRuns(st) : i > k} = {i \in RunsOf(st) : i > k}
            \/ l # 0 /\ \A i \in DOMAIN t : t[i].spoilt
<1> DEFINE t == SubSeq(st, 1, k)
<1>1. /\ t \in Seq(Frame) /\ DOMAIN t = 1..k /\ \A i \in 1..k : t[i] = st[i]
      /\ DOMAIN st = 1..Len(st) /\ Len(st) \in Nat /\ k \in Nat /\ k <= Len(st)
  <2>1. t \in Seq(Frame) /\ Len(t) = k /\ \A i \in 1..k : t[i] = st[i]
    BY Prefix
  <2> HIDE DEF t
  <2> QED
    BY <2>1
<1>2. /\ RunsOf(t) = RunsOf(st) \ {i \in RunsOf(st) : i > k}
      /\ PausesOf(t) = PausesOf(st) \ {i \in PausesOf(st) : i > k}
  BY PrefixCounts
<1> HIDE DEF t
<1>3. RunsOf(st) \in SUBSET (1..Len(st)) /\ PausesOf(st) \in SUBSET (1..Len(st))
  BY Ranges
<1>4. RunsOf(t) = Upto(RunsOf(st), k)
  BY <1>1, <1>2, <1>3, CrossedCounts
<1>5. PausesOf(t) = PausesOf(st)
  <2>1. \A i \in PausesOf(st) : ~(i > k)
    BY <1>1, <1>3
  <2> QED
    BY <1>2, <2>1, Zenon
<1>6. \A i \in RunsOf(t) \cup PausesOf(t) : t[i] = st[i]
  BY <1>1, Zenon DEF RunsOf, PausesOf
<1>7. Spoils(t, l)
  <2>1. \A i \in 1..k : i \in DOMAIN st /\ \A j \in 1..i : j \in 1..k
    BY <1>1
  <2> QED
    BY <1>1, <2>1, Zenon DEF Spoils
<1>8. CASE \A i \in DOMAIN st : i > k => ~st[i].spoilt
  <2>1. {i \in CleanRuns(st) : i > k} = {i \in RunsOf(st) : i > k}
    BY <1>8, Zenon DEF CleanRuns, RunsOf
  <2>2. CleanRuns(t) = Upto(CleanRuns(st), k)
    <3>1. \A i : /\ i \in CleanRuns(t) <=> i \in RunsOf(t) /\ ~t[i].spoilt
                 /\ i \in CleanRuns(st) <=> i \in RunsOf(st) /\ ~st[i].spoilt
      BY Zenon DEF CleanRuns
    <3>2. \A i : /\ i \in RunsOf(t) <=> i \in RunsOf(st) /\ i <= k
                 /\ i \in Upto(CleanRuns(st), k) <=> i \in CleanRuns(st) /\ i <= k
      BY <1>4, Zenon DEF Upto
    <3>3. \A i : i \in CleanRuns(t) <=> i \in Upto(CleanRuns(st), k)
      BY <1>6, <3>1, <3>2, Zenon
    <3> QED
      BY <3>3, Zenon
  <2>3. CleanPauses(t) = CleanPauses(st)
    <3>1. \A i : /\ i \in CleanPauses(t) <=> i \in PausesOf(t) /\ ~t[i].spoilt
                 /\ i \in CleanPauses(st) <=> i \in PausesOf(st) /\ ~st[i].spoilt
      BY Zenon DEF CleanPauses
    <3>2. \A i : i \in CleanPauses(t) <=> i \in CleanPauses(st)
      BY <1>5, <1>6, <3>1, Zenon
    <3> QED
      BY <3>2, Zenon
  <2> QED
    BY <1>4, <1>6, <1>7, <2>1, <2>2, <2>3, Zenon DEF t
<1>9. CASE ~ \A i \in DOMAIN st : i > k => ~st[i].spoilt
  <2>1. PICK i \in DOMAIN st : i > k /\ st[i].spoilt
    BY <1>9
  <2>2. l # 0 /\ \A j \in 1..i : st[j].spoilt
    BY <2>1, Zenon DEF Spoils
  <2>3. \A j \in 1..k : j \in 1..i
    BY <1>1, <2>1
  <2>4. l # 0 /\ \A j \in DOMAIN t : t[j].spoilt
    BY <1>1, <2>2, <2>3, Zenon
  <2> QED
    BY <1>4, <1>6, <1>7, <2>4, Zenon DEF t
<1> QED
  BY <1>8, <1>9

\* Leaving frames, none of which has paused tracking: by a return or by an
\* exception.
LEMMA CutFollowing ==
  ASSUME Following, Balanced, UNCHANGED << status, lost >>, NEW k \in 0..Len(stack),
         \A i \in PausesOf(stack) : i <= k,
         NEW c, c = Cardinality({i \in RunsOf(stack) : i > k}),
         stack' = SubSeq(stack, 1, k),
         effectStack' = SubSeq(effectStack, 1, Len(effectStack) - c),
         Undone(trackStack, shouldTrack, c, trackStack', shouldTrack')
  PROVE  Following'
<1> DEFINE R == RunsOf(stack)
<1>1. /\ stack \in Seq(Frame) /\ Len(stack) \in Nat /\ R \in SUBSET (1..Len(stack))
      /\ Len(effectStack) = Cardinality(R) /\ Spoils(stack, lost)
  BY Ranges, Zenon DEF Balanced, StacksTyped, TrackingBalanced, Following
<1>2. k \in Nat
  BY <1>1
<1>3. /\ RunsOf(stack') = Upto(R, k)
      /\ \A i \in RunsOf(stack') : stack'[i].node = stack[i].node
      /\ Spoils(stack', lost)
      /\ \/ /\ CleanRuns(stack') = Upto(CleanRuns(stack), k)
            /\ CleanPauses(stack') = CleanPauses(stack)
            /\ {i \in CleanRuns(stack) : i > k} = {i \in R : i > k}
         \/ lost # 0 /\ \A i \in DOMAIN stack' : stack'[i].spoilt
  BY <1>1, CutSets, Zenon
<1>4. Naming'
  <2>1. /\ c = Cardinality(R) - Cardinality(Upto(R, k))
        /\ Cardinality(R) \in Nat /\ Cardinality(Upto(R, k)) \in Nat
    <3>1. Cardinality({i \in R : i > k}) = Cardinality(R) - Cardinality(Upto(R, k))
      BY <1>1, <1>2, CrossedCounts
    <3>2. Cardinality(R) \in Nat /\ Cardinality(Upto(R, k)) \in 0..Cardinality(R)
      BY <1>1, <1>2, UptoCounts
    <3>3. Cardinality(Upto(R, k)) \in Nat
      BY <3>2
    <3> QED
      BY <3>1, <3>2, <3>3, Zenon
  <2>2. Len(effectStack) - c = Cardinality(Upto(R, k))
    <3> DEFINE r == Cardinality(R)
               q == Cardinality(Upto(R, k))
               e == Len(effectStack)
               d == c
    <3>1. d = r - q /\ r \in Nat /\ q \in Nat /\ e = r
      BY <1>1, <2>1, Zenon
    <3> HIDE DEF r, q, e, d
    <3>2. e - d = q
      BY <3>1
    <3> QED
      BY <3>2, Zenon DEF q, e, d
  <2>3. effectStack' = SubSeq(effectStack, 1, Cardinality(Upto(R, k)))
    BY <2>2, Zenon
  <2>4. Naming /\ UNCHANGED status
    BY DEF Following
  <2> QED
    BY <1>2, <1>3, <2>3, <2>4, CutNaming, Zenon
<1>5. Tracks(stack', trackStack', shouldTrack', lost')
  <2>1. CASE lost # 0 /\ \A i \in DOMAIN stack' : stack'[i].spoilt
    BY <2>1, SpoiltTracks, Zenon
  <2>2. CASE /\ CleanRuns(stack') = Upto(CleanRuns(stack), k)
             /\ CleanPauses(stack') = CleanPauses(stack)
             /\ {i \in CleanRuns(stack) : i > k} = {i \in R : i > k}
    <3>1. Restores(CleanRuns(stack), CleanPauses(stack), trackStack, shouldTrack, lost = 0)
      BY Zenon DEF Following, Tracks
    <3>2. c = Cardinality(CleanRuns(stack)) - Cardinality(Upto(CleanRuns(stack), k))
      <4>1. Cardinality({i \in CleanRuns(stack) : i > k})
              = Cardinality(CleanRuns(stack)) - Cardinality(Upto(CleanRuns(stack), k))
        BY <1>2, CleanCounts, CrossedCounts, Zenon
      <4> QED
        BY <2>2, <4>1, Zenon
    <3>3. \A i \in CleanPauses(stack) : i <= k
      BY Zenon DEF CleanPauses
    <3>4. Restores(Upto(CleanRuns(stack), k), CleanPauses(stack), trackStack', shouldTrack',
                   lost = 0)
      BY <1>2, <3>1, <3>2, <3>3, CleanCounts, CutRestores, Zenon
    <3> QED
      BY <2>2, <3>4, Zenon DEF Tracks
  <2> QED
    BY <1>3, <2>1, <2>2, Zenon
<1> QED
  BY <1>3, <1>4, <1>5, Zenon DEF Following

LEMMA EndFollowing ==
  ASSUME Following, Balanced, UNCHANGED << status, lost >>,
         stack # << >>, ~Top.paused, Top.kind = "run",
         effectStack' = Front(effectStack), trackStack' = Popped,
         shouldTrack' = Restored, stack' = Front(stack)
  PROVE  Following'
<1> DEFINE n == Len(stack)
           k == n - 1
<1>1. /\ stack \in Seq(Frame) /\ n \in Nat /\ n > 0
      /\ trackStack \in Seq(BOOLEAN) /\ Len(trackStack) \in Nat
      /\ RunsOf(stack) \in SUBSET (1..n) /\ PausesOf(stack) \in SUBSET (1..n)
  <2>1. stack \in Seq(Frame) /\ trackStack \in Seq(BOOLEAN)
    BY DEF Balanced, StacksTyped
  <2>2. n \in Nat /\ n > 0 /\ Len(trackStack) \in Nat
    BY <2>1
  <2> QED
    BY <2>1, <2>2, Ranges
<1>2. n \in RunsOf(stack) /\ n \notin PausesOf(stack) /\ k \in 0..Len(stack)
  BY <1>1 DEF RunsOf, PausesOf, Top, Last
<1>3. \A i \in PausesOf(stack) : i <= k
  BY <1>1, <1>2
<1>4. Cardinality({i \in RunsOf(stack) : i > k}) = 1
  <2>1. \A i \in RunsOf(stack) : i > k <=> i = n
    BY <1>1, <1>2
  <2> HIDE DEF k, n
  <2>2. {i \in RunsOf(stack) : i > k} = {n}
    BY <1>2, <2>1, Zenon
  <2> QED
    BY <2>2, FS_Singleton
<1>5. /\ stack' = SubSeq(stack, 1, k)
      /\ effectStack' = SubSeq(effectStack, 1, Len(effectStack) - 1)
  BY DEF Front
<1>6. Undone(trackStack, shouldTrack, 1, trackStack', shouldTrack')
  <2>1. Len(trackStack) - 1 + 1 = Len(trackStack) /\ 1 # 0
    BY <1>1
  <2> QED
    BY <2>1 DEF Undone, Popped, Restored, Front, Last
<1> HIDE DEF n, k
<1> QED
  BY <1>2, <1>3, <1>4, <1>5, <1>6, CutFollowing, Zenon

LEMMA ThrowFollowing ==
  ASSUME Following, Balanced, Throw PROVE Following'
<1> DEFINE R == RunsOf(stack)
           crossed(k) == {i \in R : i > k}
           gone(p) == {i \in PausesOf(stack) : i > p}
           thrown(k, p) ==
             /\ effectStack' = SubSeq(effectStack, 1, Len(effectStack) - Cardinality(crossed(k)))
             /\ Undone(trackStack, shouldTrack, Cardinality(crossed(k)), trackStack', shouldTrack')
             /\ lost' = lost + Cardinality(gone(p))
             /\ stack' = Caught(k, p)
<1>1. /\ stack \in Seq(Frame) /\ Len(stack) \in Nat /\ R \in SUBSET (1..Len(stack))
      /\ PausesOf(stack) \in SUBSET (1..Len(stack))
      /\ Len(effectStack) = Cardinality(R)
  BY Ranges, Zenon DEF Balanced, StacksTyped, TrackingBalanced
<1>2. PICK k \in 0..Len(stack) : \E p \in (k - 1)..k : thrown(k, p)
  BY Zenon DEF Throw, Undone
<1>3. PICK p \in (k - 1)..k : thrown(k, p)
  BY <1>2, Zenon
<1>4. k \in Nat /\ p \in Int /\ p <= k /\ UNCHANGED status
  <2>1. UNCHANGED status
    BY Zenon DEF Throw
  <2>2. k \in Nat
    BY <1>1
  <2>3. p \in Int /\ p <= k
    BY <2>2
  <2> QED
    BY <2>1, <2>2, <2>3
<1>5. /\ stack' \in Seq(Frame) /\ Len(stack') = k
      /\ RunsOf(stack') = R \ crossed(k)
      /\ \A i \in 1..k : stack'[i].node = stack[i].node
      /\ \/ stack' = SubSeq(stack, 1, k) /\ gone(p) = {}
         \/ (\A i \in 1..k : stack'[i].spoilt) /\ gone(p) # {}
  BY <1>1, <1>3, CaughtStack
<1>6. DOMAIN stack' = 1..k
  BY <1>4, <1>5
<1>7. CASE stack' = SubSeq(stack, 1, k) /\ gone(p) = {}
  <2>1. Cardinality(gone(p)) = 0
    BY <1>7, FS_EmptySet
  <2>2. lost' = lost
    <3>1. lost \in Nat
      BY DEF Balanced, StacksTyped
    <3>2. lost' = lost + 0
      BY <1>3, <2>1, Zenon
    <3> QED
      BY <3>1, <3>2
  <2>3. \A i \in PausesOf(stack) : i <= k
    BY <1>1, <1>4, <1>7
  <2> QED
    BY <1>3, <1>4, <1>7, <2>2, <2>3, CutFollowing, Zenon
<1>8. CASE (\A i \in 1..k : stack'[i].spoilt) /\ gone(p) # {}
  <2>1. lost' # 0
    <3>1. lost \in Nat /\ IsFiniteSet(PausesOf(stack)) /\ lost' = lost + Cardinality(gone(p))
      BY <1>1, <1>3, Finite DEF Balanced, StacksTyped
    <3>2. IsFiniteSet(gone(p))
      <4>1. gone(p) \in SUBSET PausesOf(stack)
        OBVIOUS
      <4> HIDE DEF gone
      <4> QED
        BY <3>1, <4>1, FS_Subset
    <3> HIDE DEF gone
    <3>3. Cardinality(gone(p)) \in Nat /\ Cardinality(gone(p)) # 0
      BY <1>8, <3>2, FS_EmptySet, FS_CardinalityType
    <3> QED
      BY <3>1, <3>3
  <2>2. Naming'
    <3>1. /\ RunsOf(stack') = Upto(R, k)
          /\ Cardinality(crossed(k)) = Cardinality(R) - Cardinality(Upto(R, k))
      BY <1>1, <1>4, <1>5, CrossedCounts, Zenon
    <3>2. Cardinality(R) \in Nat /\ Cardinality(Upto(R, k)) \in Nat
      <4>1. Cardinality(R) \in Nat /\ Cardinality(Upto(R, k)) \in 0..Cardinality(R)
        BY <1>1, <1>4, UptoCounts
      <4> QED
        BY <4>1
    <3>3. Len(effectStack) - Cardinality(crossed(k)) = Cardinality(Upto(R, k))
      <4> DEFINE r == Cardinality(R)
                 q == Cardinality(Upto(R, k))
                 e == Len(effectStack)
                 d == Cardinality(crossed(k))
      <4>1. d = r - q /\ r \in Nat /\ q \in Nat /\ e = r
        BY <1>1, <3>1, <3>2, Zenon
      <4> HIDE DEF r, q, e, d
      <4>2. e - d = q
        BY <4>1
      <4> QED
        BY <4>2, Zenon DEF q, e, d
    <3>4. effectStack' = SubSeq(effectStack, 1, Cardinality(Upto(R, k)))
      BY <1>3, <3>3, Zenon
    <3>5. \A i \in RunsOf(stack') : stack'[i].node = stack[i].node
      BY <1>5, <1>6, Zenon DEF RunsOf
    <3>6. Naming
      BY DEF Following
    <3> QED
      BY <1>4, <3>1, <3>4, <3>5, <3>6, CutNaming, Zenon
  <2>3. Spoils(stack', lost')
    <3>1. \A i \in 1..k : \A j \in 1..i : j \in 1..k
      BY <1>4
    <3> QED
      BY <1>6, <1>8, <2>1, <3>1, Zenon DEF Spoils
  <2>4. Tracks(stack', trackStack', shouldTrack', lost')
    BY <1>6, <1>8, <2>1, SpoiltTracks, Zenon
  <2> QED
    BY <2>2, <2>3, <2>4, Zenon DEF Following
<1> QED
  BY <1>5, <1>7, <1>8, Zenon

LEMMA FollowingInit == Init => Following
<1> SUFFICES ASSUME Init PROVE Following
  OBVIOUS
<1>1. stack = << >> /\ effectStack = << >> /\ shouldTrack = TRUE
  BY DEF Init
<1>2. /\ RunsOf(stack) = {} /\ CleanRuns(stack) = {} /\ CleanPauses(stack) = {}
      /\ DOMAIN effectStack = {} /\ DOMAIN stack = {}
  BY <1>1 DEF RunsOf, PausesOf, CleanRuns, CleanPauses
<1>3. On({}, {}) = TRUE
  BY DEF On
<1> QED
  BY <1>1, <1>2, <1>3, Zenon
     DEF Following, Naming, Named, Spoils, Tracks, Restores, Entries

\* Pushing a frame that is no run, and leaving one.
LEMMA PushFollowing ==
  ASSUME Following, Balanced, CreatedStay, NEW base \in Seq(Frame), NEW f \in Frame,
         Alike(stack, base), ~f.paused, ~f.spoilt, f.kind # "run",
         stack' = Append(base, f), UNCHANGED tracking
  PROVE  Following'
<1>1. stack \in Seq(Frame) /\ Spoils(stack, lost)
  BY Zenon DEF Balanced, StacksTyped, Following
<1>2. /\ RunsOf(base) = RunsOf(stack) /\ CleanRuns(base) = CleanRuns(stack)
      /\ CleanPauses(base) = CleanPauses(stack) /\ Spoils(base, lost)
      /\ \A k \in RunsOf(stack) : base[k].node = stack[k].node
  BY <1>1, AlikeSets, Zenon
<1>3. /\ RunsOf(stack') = RunsOf(base) /\ CleanRuns(stack') = CleanRuns(base)
      /\ CleanPauses(stack') = CleanPauses(base) /\ Spoils(stack', lost)
      /\ \A k \in RunsOf(base) : stack'[k] = base[k]
  <2>1. /\ RunsOf(Append(base, f)) = RunsOf(base)
        /\ CleanRuns(Append(base, f)) = CleanRuns(base)
        /\ CleanPauses(Append(base, f)) = CleanPauses(base)
        /\ \A k \in RunsOf(base) : Append(base, f)[k] = base[k]
        /\ Spoils(Append(base, f), lost)
    BY <1>2, PushedRuns
  <2> QED
    BY <2>1, Zenon
<1>4. \A k \in RunsOf(stack) : stack'[k].node = stack[k].node
  BY <1>2, <1>3, Zenon
<1> QED
  BY <1>2, <1>3, <1>4, KeepFollowing, Zenon

LEMMA LeaveFollowing ==
  ASSUME Following, Balanced, CreatedStay, stack # << >>, ~Top.paused, Top.kind # "run",
         stack' = Front(stack), UNCHANGED tracking
  PROVE  Following'
<1>1. stack \in Seq(Frame) /\ Spoils(stack, lost)
  BY Zenon DEF Balanced, StacksTyped, Following
<1>2. RunsOf(stack') = RunsOf(stack) /\ PausesOf(stack') = PausesOf(stack)
  BY <1>1, Left DEF Top
<1>3. DOMAIN stack' \subseteq DOMAIN stack /\ \A k \in DOMAIN stack' : stack'[k] = stack[k]
  <2>1. Len(stack) - 1 \in 0..Len(stack) /\ stack' = SubSeq(stack, 1, Len(stack) - 1)
    BY <1>1 DEF Front
  <2>2. /\ stack' \in Seq(Frame) /\ Len(stack') = Len(stack) - 1
        /\ \A k \in 1..(Len(stack) - 1) : stack'[k] = stack[k]
    BY <1>1, <2>1, Prefix
  <2> QED
    BY <1>1, <2>2
<1>4. /\ \A k \in RunsOf(stack) : stack'[k] = stack[k]
      /\ \A k \in PausesOf(stack) : stack'[k] = stack[k]
  BY <1>2, <1>3, Zenon DEF RunsOf, PausesOf
<1>5. CleanRuns(stack') = CleanRuns(stack) /\ CleanPauses(stack') = CleanPauses(stack)
  <2>1. \A k : /\ k \in CleanRuns(stack') <=> k \in RunsOf(stack) /\ ~stack'[k].spoilt
               /\ k \in CleanPauses(stack') <=> k \in PausesOf(stack) /\ ~stack'[k].spoilt
    BY <1>2, Zenon DEF CleanRuns, CleanPauses
  <2>2. \A k : /\ k \in CleanRuns(stack) <=> k \in RunsOf(stack) /\ ~stack[k].spoilt
               /\ k \in CleanPauses(stack) <=> k \in PausesOf(stack) /\ ~stack[k].spoilt
    BY Zenon DEF CleanRuns, CleanPauses
  <2>3. \A k : /\ k \in CleanRuns(stack') <=> k \in CleanRuns(stack)
               /\ k \in CleanPauses(stack') <=> k \in CleanPauses(stack)
    BY <1>4, <2>1, <2>2, Zenon
  <2> QED
    BY <2>3, Zenon
<1>6. Spoils(stack', lost)
  <2>1. \A i \in DOMAIN stack' : \A k \in 1..i : k \in DOMAIN stack'
    <3>1. stack' \in Seq(Frame)
      BY <1>1, Left DEF Top
    <3> QED
      BY <3>1
  <2> QED
    BY <1>1, <1>3, <2>1, Zenon DEF Spoils
<1> QED
  BY <1>2, <1>4, <1>5, <1>6, KeepFollowing, Zenon

LEMMA CallNodeFollowing ==
  ASSUME Following, Balanced, CreatedStay, NEW n \in Nodes, NEW base \in Seq(Frame),
         Alike(stack, base), CallNode(n, base)
  PROVE  Following'
<1>1. CASE status[n] = "active" /\ ~OnEffectStack(n) /\ StartRun(n, base)
  <2>1. status'[n] # "new"
    BY <1>1 DEF CreatedStay
  <2> QED
    BY <1>1, <2>1, RunFollowing
<1>2. CASE stack' = base /\ UNCHANGED tracking
  BY <1>2, SameFollowing
<1>3. CASE stack' = Append(base, CodeFrame("raw", n)) /\ UNCHANGED tracking
  <2>1. CodeFrame("raw", n) \in Frame
    BY FramesTyped
  <2>2. /\ ~CodeFrame("raw", n).paused /\ ~CodeFrame("raw", n).spoilt
        /\ CodeFrame("raw", n).kind # "run"
    BY FrameFields
  <2> QED
    BY <1>3, <2>1, <2>2, PushFollowing
<1> QED
  BY <1>1, <1>2, <1>3, Zenon DEF CallNode

LEMMA CreatedStays == NodesTyped /\ [Next]_vars => CreatedStay
<1> SUFFICES ASSUME NodesTyped, [Next]_vars PROVE CreatedStay
  OBVIOUS
<1>0. status' = status => CreatedStay
  BY DEF CreatedStay
<1>1. ASSUME NEW n \in Nodes, CreateEffect(n) \/ CreateLazy(n) \/ Stop(n) PROVE CreatedStay
  BY <1>1 DEF CreateEffect, CreateLazy, Stop, CreatedStay, NodesTyped
<1>2. ASSUME NEW n \in Nodes, Call(n) \/ TriggerNext(n) \/ RunQueued(n) PROVE status' = status
  BY <1>2, Zenon DEF Call, TriggerNext, RunQueued
<1>3. ASSUME NEW k \in Keys, ReadSource(k) \/ ReadCached(k) \/ ReadDirty(k) \/ Write(k)
      PROVE  status' = status
  BY <1>3, Zenon DEF ReadSource, ReadCached, ReadDirty, Write
<1>4. CASE EndEffect \/ EndComputed \/ EndRaw \/ EndTrigger
  BY <1>0, <1>4, Zenon DEF EndEffect, EndComputed, EndRaw, EndTrigger
<1>5. CASE PauseTracking \/ ResetTracking \/ Throw
  BY <1>0, <1>5, Zenon DEF PauseTracking, ResetTracking, Throw
<1>6. CASE UNCHANGED vars
  BY <1>0, <1>6 DEF vars
<1> QED
  BY <1>0, <1>1, <1>2, <1>3, <1>4, <1>5, <1>6, Zenon DEF Next

LEMMA FollowingStep == IInv /\ Following /\ [Next]_vars => Following'
<1> SUFFICES ASSUME IInv, Following, [Next]_vars PROVE Following'
  OBVIOUS
<1>0. /\ Balanced /\ GraphTyped /\ NodesTyped
  BY TypeParts DEF IInv, Balanced
<1>a. stack \in Seq(Frame) /\ Alike(stack, stack) /\ CreatedStay
  BY <1>0, CreatedStays DEF Balanced, StacksTyped, Alike
<1>c. stack' = stack => Alike(stack, stack')
  BY <1>a, Zenon
<1>b. \A k \in Keys : /\ TriggerFrame(Collected(k)) \in Frame
                      /\ ~TriggerFrame(Collected(k)).paused
                      /\ ~TriggerFrame(Collected(k)).spoilt
                      /\ TriggerFrame(Collected(k)).kind # "run"
  BY <1>0, FramesTyped, FrameFields DEF GraphTyped, Collected
<1>1. ASSUME NEW n \in Nodes, CreateEffect(n) PROVE Following'
  <2>1. status'[n] # "new" /\ StartRun(n, stack) /\ status[n] = "new"
    BY <1>0, <1>1 DEF CreateEffect, NodesTyped
  <2>2. ~OnEffectStack(n)
    <3>1. \A i \in DOMAIN effectStack : effectStack[i] # n
      BY <2>1, Zenon DEF Following, Naming
    <3> QED
      BY <3>1, Zenon DEF OnEffectStack, ToSet
  <2> QED
    BY <1>0, <1>a, <2>1, <2>2, RunFollowing
<1>2. ASSUME NEW n \in Nodes, CreateLazy(n) PROVE Following'
  BY <1>0, <1>a, <1>c, <1>2, SameFollowing DEF CreateLazy
<1>3. ASSUME NEW n \in Nodes, Call(n) PROVE Following'
  BY <1>0, <1>a, <1>3, CallNodeFollowing DEF Call
<1>4. ASSUME NEW n \in Nodes, TriggerNext(n) PROVE Following'
  <2> DEFINE rest == [stack EXCEPT ![Len(stack)].todo = @ \ {n}]
  <2>1. rest \in Seq(Frame) /\ Alike(stack, rest)
    <3>1. stack # << >>
      BY <1>4, Zenon DEF TriggerNext, InTrigger
    <3>2. stack[Len(stack)].todo \ {n} \in SUBSET Nodes /\ stack[Len(stack)] \in Frame
      <4>1. stack[Len(stack)] \in Frame
        BY <1>a, <3>1
      <4> QED
        BY <4>1, Zenon DEF Frame
    <3>3. rest = [stack EXCEPT ![Len(stack)].todo = stack[Len(stack)].todo \ {n}]
      OBVIOUS
    <3>4. rest \in Seq(Frame)
      BY <1>a, <3>1, <3>2, <3>3, TodoChanged
    <3>5. \A k \in DOMAIN stack : /\ rest[k].kind = stack[k].kind /\ rest[k].node = stack[k].node
                                  /\ rest[k].paused = stack[k].paused
                                  /\ rest[k].spoilt = stack[k].spoilt
      <4>1. \A k \in DOMAIN stack : k # Len(stack) => rest[k] = stack[k]
        BY <3>3, Zenon
      <4>2. Len(stack) \in DOMAIN stack
        BY <1>a, <3>1
      <4>3. rest[Len(stack)] = [stack[Len(stack)] EXCEPT !.todo = stack[Len(stack)].todo \ {n}]
        BY <3>3, <4>2, Zenon
      <4>4. /\ rest[Len(stack)].kind = stack[Len(stack)].kind
            /\ rest[Len(stack)].node = stack[Len(stack)].node
            /\ rest[Len(stack)].paused = stack[Len(stack)].paused
            /\ rest[Len(stack)].spoilt = stack[Len(stack)].spoilt
        BY <3>2, <4>3, Zenon DEF Frame
      <4> QED
        BY <4>1, <4>4, Zenon
    <3>6. DOMAIN rest = DOMAIN stack
      BY <3>3, Zenon
    <3> QED
      BY <3>4, <3>5, <3>6, Zenon DEF Alike
  <2>2. \/ stack' = Append(rest, TriggerFrame(Collected(n))) /\ n \in Keys /\ UNCHANGED tracking
        \/ stack' = rest /\ UNCHANGED tracking
        \/ CallNode(n, rest)
    BY <1>4, Zenon DEF TriggerNext, Keys
  <2> HIDE DEF rest
  <2>3. CASE stack' = Append(rest, TriggerFrame(Collected(n))) /\ n \in Keys /\ UNCHANGED tracking
    BY <1>0, <1>a, <1>b, <2>1, <2>3, PushFollowing
  <2>4. CASE stack' = rest /\ UNCHANGED tracking
    BY <1>0, <1>a, <2>1, <2>4, SameFollowing
  <2>5. CASE CallNode(n, rest)
    BY <1>0, <1>a, <2>1, <2>5, CallNodeFollowing
  <2> QED
    BY <2>2, <2>3, <2>4, <2>5
<1>5. ASSUME NEW n \in Nodes, RunQueued(n) PROVE Following'
  BY <1>0, <1>a, <1>5, CallNodeFollowing DEF RunQueued
<1>6. ASSUME NEW n \in Nodes, Stop(n) PROVE Following'
  BY <1>0, <1>a, <1>c, <1>6, SameFollowing DEF Stop
<1>7. ASSUME NEW k \in Keys, ReadSource(k) PROVE Following'
  BY <1>0, <1>a, <1>c, <1>7, SameFollowing DEF ReadSource
<1>8. ASSUME NEW k \in Keys, ReadCached(k) PROVE Following'
  BY <1>0, <1>a, <1>c, <1>8, SameFollowing DEF ReadCached
<1>9. ASSUME NEW k \in Keys, ReadDirty(k) PROVE Following'
  <2>1. /\ k \in Nodes /\ status'[k] # "new" /\ ~OnEffectStack(k) /\ StartRun(k, stack)
    BY <1>9 DEF ReadDirty, Nodes
  <2> QED
    BY <1>0, <1>a, <2>1, RunFollowing
<1>10. ASSUME NEW k \in Keys, Write(k) PROVE Following'
  BY <1>0, <1>a, <1>b, <1>10, PushFollowing DEF Write
<1>11. CASE EndEffect
  BY <1>0, <1>11, EndFollowing DEF EndEffect, InCode
<1>12. CASE EndComputed
  BY <1>0, <1>12, EndFollowing DEF EndComputed, InCode
<1>13. CASE EndRaw
  BY <1>0, <1>a, <1>13, LeaveFollowing DEF EndRaw, InCode
<1>14. CASE EndTrigger
  <2>1. stack # << >> /\ Top.kind = "trigger" /\ stack' = Front(stack) /\ UNCHANGED tracking
    BY <1>14 DEF EndTrigger, InTrigger
  <2>2. ~Top.paused
    <3>1. Top \in Frame
      BY <1>a, <2>1 DEF Top, Last
    <3> QED
      BY <2>1, <3>1, Zenon DEF Frame
  <2> QED
    BY <1>0, <1>a, <2>1, <2>2, LeaveFollowing
<1>15. CASE PauseTracking
  BY <1>0, <1>15, PauseFollowing
<1>16. CASE ResetTracking
  BY <1>0, <1>16, ResetFollowing
<1>17. CASE Throw
  BY <1>0, <1>17, ThrowFollowing
<1>18. CASE UNCHANGED vars
  BY <1>0, <1>a, <1>c, <1>18, SameFollowing DEF vars, tracking
<1> QED
  BY <1>1, <1>2, <1>3, <1>4, <1>5, <1>6, <1>7, <1>8, <1>9, <1>10, <1>11, <1>12,
     <1>13, <1>14, <1>15, <1>16, <1>17, <1>18, Zenon DEF Next

\* The node on top of the effect stack is the one of the last run.
LEMMA Innermost ==
  ASSUME IInv, Following
  PROVE  /\ RunsOf(stack) = {} => effectStack = << >> /\ activeEffect = None
         /\ RunsOf(stack) # {} =>
              /\ effectStack # << >> /\ activeEffect \in Nodes /\ activeEffect # None
              /\ \E i \in RunsOf(stack) :
                   activeEffect = stack[i].node /\ \A k \in RunsOf(stack) : k <= i
<1> DEFINE R == RunsOf(stack)
<1>1. /\ stack \in Seq(Frame) /\ effectStack \in Seq(Nodes) /\ Len(stack) \in Nat
      /\ R \in SUBSET (1..Len(stack)) /\ Len(effectStack) = Cardinality(R)
  BY TypeParts, Ranges DEF IInv, StacksTyped, TrackingBalanced
<1>2. IsFiniteSet(R) /\ Cardinality(R) \in Nat
  BY <1>1, UptoCounts
<1>3. CASE R = {}
  <2>1. effectStack = << >>
    BY <1>1, <1>3, FS_EmptySet, EmptySeq
  <2> QED
    BY <1>3, <2>1 DEF activeEffect
<1>4. CASE R # {}
  <2>1. Cardinality(R) \in 1..Cardinality(R)
    BY <1>2, <1>4, FS_EmptySet
  <2>2. PICK i \in R : Cardinality(Upto(R, i)) = Cardinality(R)
    BY <1>1, <2>1, Ranked
  <2>3. Upto(R, i) = R
    <3>1. Upto(R, i) \in SUBSET R
      BY DEF Upto
    <3> QED
      BY <1>2, <2>2, <3>1, FS_Subset
  <2>4. \A k \in R : k <= i
    BY <2>3 DEF Upto
  <2>5. effectStack # << >>
    BY <1>1, <2>1
  <2>6. activeEffect = effectStack[Len(effectStack)] /\ activeEffect \in Nodes
    BY <1>1, <2>5 DEF activeEffect, Last
  <2>7. activeEffect = stack[i].node
    BY <1>1, <2>2, <2>6, Zenon DEF Following, Naming, Named
  <2> QED
    BY <1>4, <2>4, <2>5, <2>6, <2>7, NodesAssumption
<1> QED
  BY <1>3, <1>4

\* The frames above a run that no exception has spoilt are not spoilt either.
LEMMA CleanAbove ==
  ASSUME IInv, Following, NEW i \in RunsOf(stack), ~stack[i].spoilt
  PROVE  /\ i \in CleanRuns(stack)
         /\ \A k \in RunsOf(stack) : k > i => k \in CleanRuns(stack)
         /\ \A k \in PausesOf(stack) : k >= i => k \in CleanPauses(stack)
<1>1. /\ stack \in Seq(Frame) /\ RunsOf(stack) \in SUBSET (1..Len(stack))
      /\ PausesOf(stack) \in SUBSET (1..Len(stack)) /\ Len(stack) \in Nat
  BY TypeParts, Ranges DEF IInv, StacksTyped
<1>2. \A k \in 1..Len(stack) : k >= i => ~stack[k].spoilt
  <2>1. SUFFICES ASSUME NEW k \in 1..Len(stack), k >= i, stack[k].spoilt PROVE FALSE
    OBVIOUS
  <2>2. \A j \in 1..k : stack[j].spoilt
    BY <1>1, <2>1 DEF Following, Spoils
  <2>3. i \in 1..k
    BY <1>1, <2>1
  <2> QED
    BY <2>2, <2>3
<1>3. /\ \A k \in RunsOf(stack) : k > i => ~stack[k].spoilt
      /\ \A k \in PausesOf(stack) : k >= i => ~stack[k].spoilt
  BY <1>1, <1>2
<1> QED
  BY <1>3, Zenon DEF CleanRuns, CleanPauses

\* While nothing paused tracking since it started, the innermost run owns the
\* code on top; it is the one on top of the effect stack.
LEMMA OwnerIs ==
  ASSUME IInv, Following, ~Spoilt(stack)
  PROVE  /\ shouldTrack /\ activeEffect # None => Owner(stack) = {activeEffect}
         /\ ~(shouldTrack /\ activeEffect # None) => Owner(stack) = {}
<1> DEFINE R == RunsOf(stack)
           P == PausesOf(stack)
<1>1. /\ stack \in Seq(Frame) /\ Len(stack) \in Nat
      /\ R \in SUBSET (1..Len(stack)) /\ P \in SUBSET (1..Len(stack))
  BY TypeParts, Ranges DEF IInv, StacksTyped
<1>2. CASE R = {}
  BY <1>2, Innermost DEF Owner
<1>3. CASE R # {}
  <2>1. /\ activeEffect \in Nodes /\ activeEffect # None
        /\ \E i \in R : activeEffect = stack[i].node /\ \A k \in R : k <= i
    BY <1>3, Innermost
  <2>2. PICK i \in R : activeEffect = stack[i].node /\ \A k \in R : k <= i
    BY <2>1, Zenon
  <2>a. ~stack[i].spoilt
    BY <2>2, Zenon DEF Spoilt
  <2>b. /\ i \in CleanRuns(stack)
        /\ \A k \in P : k >= i => k \in CleanPauses(stack)
    BY <2>a, CleanAbove, Zenon
  <2>3. shouldTrack = On(CleanRuns(stack), CleanPauses(stack))
    <3>1. CleanRuns(stack) # {}
      BY <2>b
    <3> QED
      BY <3>1, Zenon DEF Following, Tracks, Restores, Determined
  <2>4. On(CleanRuns(stack), CleanPauses(stack)) <=> \A k \in i..Len(stack) : ~stack[k].paused
    <3>1. On(CleanRuns(stack), CleanPauses(stack)) <=> \A k \in CleanPauses(stack) : k < i
      <4>1. \A k \in CleanRuns(stack) : k \in R
        BY DEF CleanRuns
      <4>2. \A k \in CleanPauses(stack) : k \in Int
        BY <1>1 DEF CleanPauses
      <4>3. i \in Int /\ \A k \in R : k \in Int
        BY <1>1
      <4>4. \A k \in CleanPauses(stack) : (\E j \in CleanRuns(stack) : k < j) <=> k < i
        BY <2>b, <2>2, <4>1, <4>2, <4>3
      <4> QED
        BY <4>4, Zenon DEF On
    <3>2. \A k \in 1..Len(stack) : k \in P <=> stack[k].paused
      BY <1>1 DEF PausesOf
    <3>3. \A k \in CleanPauses(stack) : k \in P
      BY DEF CleanPauses
    <3>4. i \in 1..Len(stack) /\ \A k \in i..Len(stack) : k \in 1..Len(stack) /\ k >= i
      BY <1>1, <2>2
    <3>5. \A k \in P : k \in 1..Len(stack) /\ (~(k < i) => k \in i..Len(stack))
      BY <1>1, <3>4
    <3>6. ASSUME \A k \in CleanPauses(stack) : k < i, NEW k \in i..Len(stack), stack[k].paused
          PROVE  FALSE
      <4>1. k \in P
        BY <3>2, <3>4, <3>6, Zenon
      <4>2. k \in CleanPauses(stack)
        BY <2>b, <3>4, <4>1, Zenon
      <4>3. k < i /\ k >= i
        BY <3>4, <3>6, <4>2, Zenon
      <4> QED
        BY <1>1, <3>4, <4>3
    <3>7. ASSUME \A k \in i..Len(stack) : ~stack[k].paused, NEW k \in CleanPauses(stack), ~(k < i)
          PROVE  FALSE
      BY <3>2, <3>3, <3>5, <3>7, Zenon
    <3> QED
      BY <3>1, <3>6, <3>7, Zenon
  <2>5. \A j \in R : (\A k \in R : k <= j) => j = i
    BY <1>1, <2>2
  <2>6. Owner(stack) = {n \in Nodes : n = stack[i].node /\ On(CleanRuns(stack), CleanPauses(stack))}
    BY <2>2, <2>4, <2>5, Zenon DEF Owner
  <2> QED
    BY <2>1, <2>2, <2>3, <2>6, Zenon
<1> QED
  BY <1>2, <1>3

\* No frame is spoilt while no exception has left a pause.
LEMMA NoneLost == Following /\ lost = 0 => ~Spoilt(stack)
<1> SUFFICES ASSUME Following, lost = 0, Spoilt(stack) PROVE FALSE
  OBVIOUS
<1>1. PICK i \in RunsOf(stack) : stack[i].spoilt
  BY Zenon DEF Spoilt
<1>2. i \in DOMAIN stack
  BY DEF RunsOf
<1> QED
  BY <1>1, <1>2, Zenon DEF Following, Spoils

LEMMA FollowingFollows == IInv /\ Following => TrackingFollowsCalls
<1> SUFFICES ASSUME IInv, Following PROVE TrackingFollowsCalls
  OBVIOUS
<1> DEFINE R == RunsOf(stack)
           c == Cardinality(R)
           nth(i) == CHOOSE k \in R : Cardinality({m \in R : m <= k}) = i
           h == [i \in 1..c |-> stack[nth(i)].node]
<1>1. /\ stack \in Seq(Frame) /\ effectStack \in Seq(Nodes) /\ Len(stack) \in Nat
      /\ R \in SUBSET (1..Len(stack)) /\ Len(effectStack) = c
  BY TypeParts, Ranges DEF IInv, StacksTyped, TrackingBalanced
<1>2. effectStack = h
  <2>1. DOMAIN effectStack = 1..c
    BY <1>1
  <2>2. ASSUME NEW i \in 1..c PROVE effectStack[i] = stack[nth(i)].node
    <3>1. \E k \in R : Cardinality(Upto(R, k)) = i
      BY <1>1, <2>2, Ranked
    <3>2. nth(i) \in R /\ Cardinality(Upto(R, nth(i))) = i
      BY <3>1, Zenon DEF Upto
    <3> HIDE DEF nth, R
    <3> QED
      BY <3>2, Zenon DEF Following, Naming, Named, R
  <2> HIDE DEF nth, c
  <2>3. effectStack = [i \in DOMAIN effectStack |-> effectStack[i]]
    BY <1>1
  <2> QED
    BY <2>1, <2>2, <2>3
<1>3. ~Spoilt(stack) => ((shouldTrack /\ activeEffect # None) <=> Owner(stack) # {})
  BY OwnerIs
<1>4. stack = << >> /\ lost = 0 => shouldTrack
  <2> SUFFICES ASSUME stack = << >>, lost = 0 PROVE shouldTrack
    OBVIOUS
  <2>1. CleanPauses(stack) = {}
    BY DEF CleanPauses, PausesOf
  <2>2. On(CleanRuns(stack), {})
    BY DEF On
  <2>3. Determined(CleanRuns(stack), lost = 0)
    BY DEF Determined
  <2> QED
    BY <2>1, <2>2, <2>3, Zenon DEF Following, Tracks, Restores
<1> QED
  BY <1>2, <1>3, <1>4, Zenon DEF TrackingFollowsCalls, Following, Naming, IInv

\* However runs, pauses and exceptions nest, the effect stack holds the runs of
\* the call stack, each once and in order, and the tracking stack an entry for
\* each run, each pause and each pause that an exception has left.  Reads are
\* tracked for the innermost run unless the code since then paused tracking:
\* always, if no exception has left a pause; otherwise for every run that
\* started after the last one that did.
THEOREM TrackingFollows == Spec => []TrackingFollowsCalls
<1>1. Init => IInv /\ Following
  BY InvInit, FollowingInit
<1>2. IInv /\ Following /\ [Next]_vars => (IInv /\ Following)'
  BY InvStep, FollowingStep
<1> QED
  BY <1>1, <1>2, FollowingFollows, PTL DEF Spec

--------------------------------------------------------------------------------
(***************************************************************************)
(* What was written last reaches every effect and every computed that read *)
(* it: the theorems on EffectsCurrent and FreshOutsideTrigger, for all     *)
(* graphs of sources, computeds and effects.                               *)
(*                                                                         *)
(* The argument follows the news of a write.  Told are the nodes it has    *)
(* reached: what the loops of trigger() have still to run, the effects a   *)
(* scheduler has queued, the computeds that are dirty.  A stale node need  *)
(* not be told yet, but then a chain of computeds, each read by the next   *)
(* node of the chain, leads to it from one that is.                        *)
(***************************************************************************)

\* The programs the theorems are about: computeds are pure, and read only what
\* effects do not write; effects are stopped between runs, and no function of a
\* node throws.
Tame ==
  /\ CanStop = {} /\ MayThrow = {}
  /\ \A c \in Comps : CanWrite[c] = {} /\ CanCall[c] = {}
  /\ \A e \in Effs, c \in Comps : CanWrite[e] \cap CanRead[c] = {}

Active == {n \in Nodes : status[n] = "active"}
Running == ToSet(effectStack)
TodoOf(st) == {n \in Nodes : \E i \in DOMAIN st : n \in st[i].todo}
Told == queued \cup dirty \cup TodoOf(stack)

--------------------------------------------------------------------------------
(* The frames of the call stack. *)

IsComputed(f) == f.kind = "run" /\ f.node \in Comps

\* Above the run of a computed are only runs of computeds, each read by the one
\* below; trigger() marks computeds only while nothing runs.
Ordered(st) ==
  \A i \in DOMAIN st :
    /\ st[i].kind # "trigger" => st[i].todo = {} /\ st[i].node \in Nodes
    /\ IsComputed(st[i]) =>
         \A j \in DOMAIN st : /\ j > i => IsComputed(st[j])
                              /\ j = i + 1 => st[j].node \in CanRead[st[i].node]
    /\ st[i].todo \cap Comps # {} => \A j \in DOMAIN st : j <= i => st[j].kind = "trigger"

LEMMA OrderedPush ==
  ASSUME NEW st \in Seq(Frame), Ordered(st), NEW f \in Frame,
         f.kind # "trigger" => f.todo = {} /\ f.node \in Nodes,
         st # << >> /\ IsComputed(Last(st)) => IsComputed(f) /\ f.node \in CanRead[Last(st).node],
         f.todo \cap Comps # {} => f.kind = "trigger" /\ \A j \in DOMAIN st : st[j].kind = "trigger"
  PROVE  Ordered(Append(st, f))
<1> DEFINE n == Len(st)
           r == Append(st, f)
<1>1. /\ n \in Nat /\ DOMAIN st = 1..n /\ DOMAIN r = 1..(n + 1) /\ r[n + 1] = f
      /\ \A i \in 1..n : r[i] = st[i]
  OBVIOUS
<1>2. \A i \in 1..n : IsComputed(st[i]) =>
        IsComputed(st[n]) /\ IsComputed(f) /\ (i = n => f.node \in CanRead[st[n].node])
  <2>1. SUFFICES ASSUME NEW i \in 1..n, IsComputed(st[i])
                 PROVE  IsComputed(st[n]) /\ IsComputed(f) /\ (i = n => f.node \in CanRead[st[n].node])
    OBVIOUS
  <2>2. n \in 1..n /\ (i = n \/ n > i)
    <3>1. n \in Nat /\ i \in 1..n
      BY <1>1, <2>1
    <3> HIDE DEF n
    <3> QED
      BY <3>1
  <2>3. IsComputed(st[n])
    BY <1>1, <2>1, <2>2, Zenon DEF Ordered
  <2>4. Last(st) = st[n] /\ st # << >>
    BY <2>2 DEF Last
  <2> QED
    BY <2>3, <2>4, Zenon
<1> HIDE DEF n, r
<1>3. \A i \in 1..(n + 1) : i \in 1..n \/ i = n + 1
  BY <1>1
<1>4. \A i \in 1..n : ~(i > n + 1) /\ i # n + 1 /\ i <= n + 1 /\ ~(n + 1 <= i) /\ n + 1 > i /\ i \in 1..(n + 1)
  BY <1>1
<1>5. ~(n + 1 > n + 1) /\ n + 1 # (n + 1) + 1 /\ \A i \in 1..n : i # (n + 1) + 1 /\ (n + 1 = i + 1 => i = n)
  BY <1>1
<1>6. ASSUME NEW i \in 1..n
      PROVE  /\ r[i].kind # "trigger" => r[i].todo = {} /\ r[i].node \in Nodes
             /\ IsComputed(r[i]) =>
                  \A j \in DOMAIN r : /\ j > i => IsComputed(r[j])
                                      /\ j = i + 1 => r[j].node \in CanRead[r[i].node]
             /\ r[i].todo \cap Comps # {} => \A j \in DOMAIN r : j <= i => r[j].kind = "trigger"
  <2>1. r[i].kind # "trigger" => r[i].todo = {} /\ r[i].node \in Nodes
    BY <1>1, Zenon DEF Ordered
  <2>2. ASSUME IsComputed(r[i]), NEW j \in 1..n
        PROVE  (j > i => IsComputed(r[j])) /\ (j = i + 1 => r[j].node \in CanRead[r[i].node])
    BY <1>1, <2>2, Zenon DEF Ordered
  <2>3. ASSUME IsComputed(r[i])
        PROVE  IsComputed(r[n + 1]) /\ (n + 1 = i + 1 => r[n + 1].node \in CanRead[r[i].node])
    BY <1>1, <1>2, <1>5, <2>3, Zenon
  <2>4. ASSUME r[i].todo \cap Comps # {}, NEW j \in 1..n, j <= i PROVE r[j].kind = "trigger"
    BY <1>1, <2>4, Zenon DEF Ordered
  <2> QED
    BY <1>1, <1>3, <1>4, <2>1, <2>2, <2>3, <2>4, Zenon
<1>7. /\ r[n + 1].kind # "trigger" => r[n + 1].todo = {} /\ r[n + 1].node \in Nodes
      /\ \A j \in DOMAIN r : ~(j > n + 1) /\ j # (n + 1) + 1
      /\ r[n + 1].todo \cap Comps # {} => \A j \in DOMAIN r : r[j].kind = "trigger"
  <2>1. \A j \in DOMAIN r : ~(j > n + 1) /\ j # (n + 1) + 1
    BY <1>1, <1>3, <1>4, <1>5, Zenon
  <2>2. r[n + 1].todo \cap Comps # {} => \A j \in DOMAIN r : r[j].kind = "trigger"
    BY <1>1, <1>3, Zenon
  <2> QED
    BY <1>1, <2>1, <2>2, Zenon
<1>8. Ordered(r)
  BY <1>1, <1>3, <1>6, <1>7, Zenon DEF Ordered
<1> QED
  BY <1>8 DEF r

LEMMA OrderedPop ==
  ASSUME NEW st \in Seq(Frame), st # << >>, Ordered(st)
  PROVE  /\ Front(st) \in Seq(Frame) /\ Ordered(Front(st))
         /\ Last(st).todo = {} => TodoOf(Front(st)) = TodoOf(st)
<1> DEFINE n == Len(st)
           r == Front(st)
<1>1. n \in Nat /\ n > 0 /\ n - 1 \in 0..n /\ r = SubSeq(st, 1, n - 1) /\ Last(st) = st[n]
  BY DEF Front, Last
<1>2. /\ r \in Seq(Frame) /\ DOMAIN r = 1..(n - 1) /\ \A i \in 1..(n - 1) : r[i] = st[i]
  <2>1. Len(r) = n - 1 /\ r \in Seq(Frame) /\ \A i \in 1..(n - 1) : r[i] = st[i]
    BY <1>1, Prefix
  <2> HIDE DEF r
  <2> QED
    BY <1>1, <2>1
<1>3. DOMAIN st = 1..n /\ \A i \in 1..n : i \in 1..(n - 1) \/ i = n
  BY <1>1
<1>4. \A i \in DOMAIN r : i \in DOMAIN st /\ r[i] = st[i]
  BY <1>1, <1>2
<1>5. Ordered(r)
  <2> HIDE DEF r
  <2> QED
    BY <1>4, Zenon DEF Ordered
<1>6. Last(st).todo = {} => TodoOf(r) = TodoOf(st)
  <2> HIDE DEF r, n
  <2> QED
    BY <1>1, <1>2, <1>3, <1>4, Zenon DEF TodoOf
<1> QED
  BY <1>2, <1>5, <1>6

LEMMA TodoPush ==
  ASSUME NEW st \in Seq(Frame), NEW f \in Frame
  PROVE  TodoOf(Append(st, f)) = TodoOf(st) \cup f.todo
<1>1. /\ DOMAIN Append(st, f) = DOMAIN st \cup {Len(st) + 1}
      /\ Append(st, f)[Len(st) + 1] = f
      /\ \A i \in DOMAIN st : Append(st, f)[i] = st[i]
  OBVIOUS
<1>2. f.todo \in SUBSET Nodes
  BY Zenon DEF Frame
<1> QED
  BY <1>1, <1>2, Zenon DEF TodoOf

\* The frame on top changes, but for its kind and its node.
LEMMA OrderedTop ==
  ASSUME NEW st \in Seq(Frame), st # << >>, Ordered(st), NEW f \in Frame,
         f.kind = Last(st).kind, f.node = Last(st).node, f.todo \subseteq Last(st).todo
  PROVE  LET r == [st EXCEPT ![Len(st)] = f] IN
         /\ r \in Seq(Frame) /\ Ordered(r) /\ Len(r) = Len(st) /\ r # << >> /\ Last(r) = f
         /\ TodoOf(r) \subseteq TodoOf(st) /\ TodoOf(st) \subseteq TodoOf(r) \cup Last(st).todo
         /\ f.todo = Last(st).todo => TodoOf(r) = TodoOf(st)
         /\ \A j \in DOMAIN st : r[j].kind = st[j].kind
<1> DEFINE n == Len(st)
           r == [st EXCEPT ![n] = f]
<1>1. n \in DOMAIN st /\ Last(st) = st[n] /\ n \in Nat /\ DOMAIN st = 1..n
  BY DEF Last
<1>2. /\ r \in Seq(Frame) /\ DOMAIN r = DOMAIN st /\ Len(r) = n /\ r[n] = f
      /\ \A i \in DOMAIN st : i # n => r[i] = st[i]
  BY <1>1
<1>3. r # << >> /\ Last(r) = f
  BY <1>1, <1>2 DEF Last
<1> HIDE DEF n, r
<1>4. \A i \in DOMAIN st : r[i].kind = st[i].kind /\ r[i].node = st[i].node /\ r[i].todo \subseteq st[i].todo
  BY <1>1, <1>2, Zenon
<1>5. Ordered(r)
  <2>1. \A i \in DOMAIN st : IsComputed(r[i]) <=> IsComputed(st[i])
    BY <1>4, Zenon DEF IsComputed
  <2>2. ASSUME NEW i \in DOMAIN st
        PROVE  /\ r[i].kind # "trigger" => r[i].todo = {} /\ r[i].node \in Nodes
               /\ r[i].todo \cap Comps # {} => \A j \in DOMAIN st : j <= i => r[j].kind = "trigger"
    BY <1>4, Zenon DEF Ordered
  <2>3. ASSUME NEW i \in DOMAIN st, IsComputed(r[i]), NEW j \in DOMAIN st
        PROVE  (j > i => IsComputed(r[j])) /\ (j = i + 1 => r[j].node \in CanRead[r[i].node])
    BY <1>4, <2>1, <2>3, Zenon DEF Ordered
  <2> QED
    BY <1>2, <2>2, <2>3, Zenon DEF Ordered
<1>6. TodoOf(r) \subseteq TodoOf(st) /\ TodoOf(st) \subseteq TodoOf(r) \cup Last(st).todo
  BY <1>1, <1>2, <1>4, Zenon DEF TodoOf
<1>7. f.todo = Last(st).todo => TodoOf(r) = TodoOf(st)
  BY <1>1, <1>2, Zenon DEF TodoOf
<1> QED
  BY <1>2, <1>3, <1>4, <1>5, <1>6, <1>7 DEF r, n

--------------------------------------------------------------------------------
(* What the nodes know. *)

Created == {n \in Nodes : status[n] # "new"}

Known ==
  /\ stale \subseteq Active
  /\ \A m \in Nodes : /\ m \notin Created => reads[m] = {}
                      /\ reads[m] \cap Comps \subseteq Created

\* What a node read it is subscribed to; a computed reads only what it may.
Subscribed ==
  /\ \A n \in Active : reads[n] \subseteq deps[n]
  /\ \A c \in Comps : reads[c] \subseteq CanRead[c] /\ deps[c] \subseteq CanRead[c]

\* No running node has read a computed that is dirty now; the other nodes that
\* read one have been told.
SeesClean == \A n \in Running : reads[n] \cap dirty \cap Active = {}
DirtyTold == \A c \in dirty \cap Active, n \in Active \ Running : c \in reads[n] => n \in Told

\* C holds what has been told and does not run, and what read an active
\* computed of C; the least such set holds every stale node.
Carried(C) ==
  /\ (Active \cap Told) \ Running \subseteq C
  /\ \A c \in C \cap Comps \cap Active, m \in Active : c \in reads[m] => m \in C
StaleCaught == \A n \in stale : \A C \in SUBSET Nodes : Carried(C) => n \in C

Data == Known /\ Subscribed /\ SeesClean /\ DirtyTold /\ StaleCaught

DataTyped ==
  /\ GraphTyped /\ HistoryTyped /\ dirty \subseteq Comps
  /\ Running \subseteq Active
  /\ Comps \subseteq Nodes /\ queued \cap Comps = {}

--------------------------------------------------------------------------------
(* The ways a step can change that.  A node starts to run: *)
Starts(n) ==
  /\ n \in Nodes \ Running /\ n \in Active'
  /\ n \in Comps => n \in Active \cap dirty
  /\ Active \subseteq Active' /\ Active' \subseteq Active \cup {n}
  /\ n \in Active \/ n \notin Created
  /\ Created \subseteq Created' /\ Created' \subseteq Created \cup {n}
  /\ Running' = Running \cup {n}
  /\ reads' = [reads EXCEPT ![n] = {}] /\ deps' = [deps EXCEPT ![n] = {}]
  /\ stale' = stale \ {n} /\ dirty' = dirty
  /\ Told \subseteq Told' \cup {n}

LEMMA StartsData ==
  ASSUME DataTyped, Data, NEW n \in Nodes, Starts(n) PROVE Data'
<1>1. /\ \A m \in Nodes : reads'[m] = IF m = n THEN {} ELSE reads[m]
      /\ \A m \in Nodes : deps'[m] = IF m = n THEN {} ELSE deps[m]
  BY DEF DataTyped, GraphTyped, HistoryTyped, Starts
<1>2. Active \subseteq Nodes /\ Active' \subseteq Nodes /\ Running \subseteq Active
      /\ Comps \subseteq Nodes /\ dirty \subseteq Comps
  BY DEF Active, DataTyped
<1>3. Known'
  BY <1>1, <1>2, Zenon DEF Known, Data, Starts
<1>4. Subscribed'
  <2>1. ASSUME NEW m \in Active' PROVE reads'[m] \subseteq deps'[m]
    BY <1>1, <1>2, <2>1, Zenon DEF Subscribed, Data, Starts
  <2>2. ASSUME NEW c \in Comps PROVE reads'[c] \subseteq CanRead[c] /\ deps'[c] \subseteq CanRead[c]
    BY <1>1, <1>2, Zenon DEF Subscribed, Data
  <2> QED
    BY <2>1, <2>2, Zenon DEF Subscribed
<1>5. SeesClean'
  <2>1. SUFFICES ASSUME NEW m \in Running', NEW c \in reads'[m] \cap dirty' \cap Active' PROVE FALSE
    BY Zenon DEF SeesClean
  <2>a. m \in Running \cup {n} /\ m \in Nodes /\ c \in dirty
    BY <1>2, <2>1, Zenon DEF Starts
  <2>2. m \in Running /\ m # n /\ c \in reads[m] /\ c \in dirty
    BY <1>1, <2>1, <2>a, Zenon
  <2>3. c \in Active
    BY <1>2, <2>1, <2>2, Zenon DEF Starts
  <2> QED
    BY <2>2, <2>3, Zenon DEF Data, SeesClean
<1>6. DirtyTold'
  <2>1. SUFFICES ASSUME NEW c \in dirty' \cap Active', NEW m \in Active' \ Running', c \in reads'[m]
                 PROVE  m \in Told'
    BY Zenon DEF DirtyTold
  <2>2. m # n /\ m \in Active \ Running /\ c \in reads[m] /\ c \in dirty
    BY <1>1, <1>2, <2>1, Zenon DEF Starts
  <2>3. c \in Active
    BY <1>2, <2>1, <2>2, Zenon DEF Starts
  <2> QED
    BY <2>2, <2>3, Zenon DEF Data, DirtyTold, Starts
<1>7. StaleCaught'
  <2>1. SUFFICES ASSUME NEW x \in stale', NEW C \in SUBSET Nodes, Carried(C)' PROVE x \in C
    BY Zenon DEF StaleCaught
  <2>2. x \in stale /\ x # n
    BY <2>1, Zenon DEF Starts
  <2>3. (Active \cap Told) \ Running \subseteq C \cup {n}
    BY <2>1, Zenon DEF Carried, Starts
  <2>4. ASSUME NEW c \in (C \cup {n}) \cap Comps \cap Active, NEW m \in Active, c \in reads[m]
        PROVE  m \in C \cup {n}
    <3>1. CASE m = n
      BY <3>1
    <3>2. CASE m # n /\ c \in C
      <4>1. c \in Active' /\ m \in Active' /\ c \in reads'[m]
        BY <1>1, <1>2, <2>4, <3>2, Zenon DEF Starts
      <4> QED
        BY <2>1, <2>4, <3>2, <4>1, Zenon DEF Carried
    <3>3. CASE m # n /\ c = n
      <4>1. n \in dirty \cap Active
        BY <2>4, <3>3, Zenon DEF Starts
      <4>2. m \notin Running
        BY <2>4, <3>3, <4>1, Zenon DEF Data, SeesClean
      <4>3. m \in Told
        BY <2>4, <3>3, <4>1, <4>2, Zenon DEF Data, DirtyTold
      <4>4. m \in Active' /\ m \in Told' /\ m \notin Running'
        BY <2>4, <3>3, <4>2, <4>3, Zenon DEF Starts
      <4> QED
        BY <2>1, <4>4, Zenon DEF Carried
    <3> QED
      BY <2>4, <3>1, <3>2, <3>3, Zenon
  <2>5. Carried(C \cup {n})
    BY <2>3, <2>4, Zenon DEF Carried
  <2>6. C \cup {n} \in SUBSET Nodes
    OBVIOUS
  <2> QED
    BY <2>2, <2>5, <2>6, Zenon DEF Data, StaleCaught
<1> QED
  BY <1>3, <1>4, <1>5, <1>6, <1>7, Zenon DEF Data

\* Nodes end their run, or nothing of this changes:
Idles ==
  /\ UNCHANGED << status, reads, deps, stale, dirty >>
  /\ Running' \subseteq Running
  /\ (Told \cap Active) \ Running \subseteq Told'

LEMMA IdlesData ==
  ASSUME DataTyped, Data, Idles PROVE Data'
<1>1. /\ reads' = reads /\ deps' = deps /\ stale' = stale /\ dirty' = dirty
      /\ Active' = Active /\ Created' = Created
  BY DEF Idles, Active, Created
<1>2. Known' /\ Subscribed'
  BY <1>1, Zenon DEF Data, Known, Subscribed
<1>3. SeesClean'
  BY <1>1, Zenon DEF Data, SeesClean, Idles
<1>4. DirtyTold'
  <2>1. SUFFICES ASSUME NEW c \in dirty \cap Active, NEW m \in Active \ Running', c \in reads[m]
                 PROVE  m \in Told'
    BY <1>1, Zenon DEF DirtyTold
  <2>2. m \notin Running
    BY <2>1, Zenon DEF Data, SeesClean
  <2> QED
    BY <2>1, <2>2, Zenon DEF Data, DirtyTold, Idles
<1>5. StaleCaught'
  <2>1. SUFFICES ASSUME NEW x \in stale, NEW C \in SUBSET Nodes, Carried(C)' PROVE x \in C
    BY <1>1, Zenon DEF StaleCaught
  <2>2. (Active \cap Told) \ Running \subseteq C
    BY <1>1, <2>1, Zenon DEF Carried, Idles
  <2>3. Carried(C)
    BY <1>1, <2>1, <2>2, Zenon DEF Carried
  <2> QED
    BY <2>1, <2>3, Zenon DEF Data, StaleCaught
<1> QED
  BY <1>2, <1>3, <1>4, <1>5, Zenon DEF Data

\* A lazy effect or a computed is created:
Creates(n) ==
  /\ n \in Nodes \ Created /\ n \notin Active
  /\ Active' = Active \cup {n} /\ Created' = Created \cup {n}
  /\ UNCHANGED << reads, deps, stale >> /\ Running' = Running
  /\ dirty \subseteq dirty' /\ dirty' \subseteq dirty \cup {n}
  /\ n \in Comps \/ dirty' = dirty
  /\ Told \subseteq Told'

LEMMA CreatesData ==
  ASSUME DataTyped, Data, NEW n \in Nodes, Creates(n) PROVE Data'
<1>1. /\ reads' = reads /\ deps' = deps /\ stale' = stale /\ Running' = Running
      /\ Active' = Active \cup {n} /\ reads[n] = {} /\ n \notin Active
      /\ dirty \subseteq dirty' /\ dirty' \subseteq dirty \cup {n}
      /\ Running \subseteq Active /\ Active \subseteq Nodes /\ dirty \subseteq Comps
  BY Zenon DEF Creates, Data, Known, DataTyped, Active
<1>2. \A m \in Nodes : n \in reads[m] => n \notin Comps
  BY Zenon DEF Creates, Data, Known
<1>3. Known'
  BY <1>1, Zenon DEF Data, Known, Creates
<1>4. Subscribed'
  BY <1>1, Zenon DEF Data, Subscribed
<1>5. \A m \in Nodes, c \in dirty' : c \in Active' /\ c \in reads[m] => c \in dirty \cap Active
  <2>1. n \in Comps \/ dirty' = dirty
    BY Zenon DEF Creates
  <2> QED
    BY <1>1, <1>2, <2>1, Zenon
<1>6. SeesClean'
  BY <1>1, <1>5, Zenon DEF Data, SeesClean
<1>7. DirtyTold'
  <2>1. SUFFICES ASSUME NEW c \in dirty' \cap Active', NEW m \in Active' \ Running', c \in reads[m]
                 PROVE  m \in Told'
    BY <1>1, Zenon DEF DirtyTold
  <2>2. m # n /\ m \in Active \ Running
    BY <1>1, <2>1, Zenon
  <2>3. c \in dirty \cap Active
    BY <1>1, <1>5, <2>1, <2>2, Zenon
  <2> QED
    BY <2>1, <2>2, <2>3, Zenon DEF Data, DirtyTold, Creates
<1>8. StaleCaught'
  <2>1. SUFFICES ASSUME NEW x \in stale, NEW C \in SUBSET Nodes, Carried(C)' PROVE x \in C
    BY <1>1, Zenon DEF StaleCaught
  <2>2. Carried(C)
    BY <1>1, <2>1, Zenon DEF Carried, Creates
  <2> QED
    BY <2>1, <2>2, Zenon DEF Data, StaleCaught
<1> QED
  BY <1>3, <1>4, <1>6, <1>7, <1>8, Zenon DEF Data

\* The members of O subscribe to k, and no other node to anything.
Subscribes(k, O) ==
  \A n \in Nodes : /\ deps[n] \subseteq deps'[n] /\ (n \in O => k \in deps'[n])
                  /\ deps'[n] \subseteq IF n \in O THEN deps[n] \cup {k} ELSE deps[n]

\* The nodes of O, which run, get the value of k:
Gets(k, O) ==
  /\ UNCHANGED status /\ Running' \subseteq Running /\ O \subseteq Running'
  /\ k \in Comps => k \in Created /\ k \notin dirty'
  /\ \A n \in O \cap Comps : k \in CanRead[n]
  /\ reads' = [n \in Nodes |-> IF n \in O THEN reads[n] \cup {k} ELSE reads[n]]
  /\ Subscribes(k, O)
  /\ stale' = IF k \in stale THEN stale \cup O ELSE stale
  /\ dirty' \subseteq dirty /\ dirty \subseteq dirty' \cup {k}
  /\ k \in dirty => k \in Running \/ k \notin Active
  /\ Told \subseteq Told' \cup ({k} \cap dirty)

LEMMA GetsData ==
  ASSUME DataTyped, Data, NEW k \in Keys, NEW O, Gets(k, O), Srcs \cap Nodes = {} PROVE Data'
<1>1. /\ Active' = Active /\ Created' = Created /\ Running' \subseteq Running /\ O \subseteq Running'
      /\ Running \subseteq Active /\ Active \subseteq Nodes /\ dirty \subseteq Comps
      /\ Active \subseteq Created /\ Comps \subseteq Nodes
  BY DEF Gets, Active, Created, DataTyped
<1>2. \A n \in Nodes : reads'[n] = IF n \in O THEN reads[n] \cup {k} ELSE reads[n]
  BY DEF Gets
<1>3. Known'
  <2>1. stale' \subseteq Active
    BY <1>1, Zenon DEF Data, Known, Gets
  <2>2. \A m \in Nodes : m \notin Created => reads'[m] = {}
    BY <1>1, <1>2, Zenon DEF Data, Known
  <2>3. \A m \in Nodes : reads'[m] \cap Comps \subseteq Created
    BY <1>1, <1>2, Zenon DEF Data, Known, Gets
  <2> QED
    BY <1>1, <2>1, <2>2, <2>3, Zenon DEF Known
<1>4. Subscribed'
  <2>1. \A n \in Active : reads'[n] \subseteq deps'[n]
    BY <1>1, <1>2, Zenon DEF Data, Subscribed, Gets, Subscribes
  <2>2. \A c \in Comps : reads'[c] \subseteq CanRead[c] /\ deps'[c] \subseteq CanRead[c]
    <3>1. SUFFICES ASSUME NEW c \in Comps
                   PROVE  reads'[c] \subseteq CanRead[c] /\ deps'[c] \subseteq CanRead[c]
      OBVIOUS
    <3>2. c \in Nodes /\ reads[c] \subseteq CanRead[c] /\ deps[c] \subseteq CanRead[c]
      BY <1>1, Zenon DEF Data, Subscribed
    <3>3. CASE c \in O
      <4>1. k \in CanRead[c] /\ deps'[c] \subseteq deps[c] \cup {k}
        BY <3>2, <3>3, Zenon DEF Gets, Subscribes
      <4> QED
        BY <1>2, <3>2, <3>3, <4>1, Zenon
    <3>4. CASE c \notin O
      <4>1. deps'[c] \subseteq deps[c]
        BY <3>2, <3>4, Zenon DEF Gets, Subscribes
      <4> QED
        BY <1>2, <3>2, <3>4, <4>1, Zenon
    <3> QED
      BY <3>3, <3>4
  <2> QED
    BY <1>1, <2>1, <2>2, Zenon DEF Subscribed
<1>5. SeesClean'
  <2>1. SUFFICES ASSUME NEW n \in Running', NEW c \in reads'[n] \cap dirty' \cap Active PROVE FALSE
    BY <1>1, Zenon DEF SeesClean
  <2>2. c # k /\ c \in reads[n] /\ c \in dirty /\ n \in Running
    BY <1>1, <1>2, <2>1, Zenon DEF Gets
  <2> QED
    BY <2>1, <2>2, Zenon DEF Data, SeesClean
<1>6. DirtyTold'
  <2>1. SUFFICES ASSUME NEW c \in dirty' \cap Active, NEW m \in Active \ Running', c \in reads'[m]
                 PROVE  m \in Told'
    BY <1>1, Zenon DEF DirtyTold
  <2>2. c \in reads[m] /\ c \in dirty
    BY <1>1, <1>2, <2>1, Zenon DEF Gets
  <2>3. m \notin Running
    BY <2>1, <2>2, Zenon DEF Data, SeesClean
  <2>4. m \in Told
    BY <2>1, <2>2, <2>3, Zenon DEF Data, DirtyTold
  <2> QED
    BY <2>1, <2>3, <2>4, Zenon DEF Gets
<1>7. StaleCaught'
  <2>1. SUFFICES ASSUME NEW x \in stale', NEW C \in SUBSET Nodes, Carried(C)' PROVE x \in C
    BY Zenon DEF StaleCaught
  <2>2. (Active \cap Told) \ Running \subseteq C
    BY <1>1, <2>1, Zenon DEF Carried, Gets
  <2>3. \A c \in C \cap Comps \cap Active, m \in Active : c \in reads[m] => m \in C
    BY <1>1, <1>2, <2>1, Zenon DEF Carried
  <2>4. Carried(C)
    BY <2>2, <2>3, Zenon DEF Carried
  <2>5. stale \subseteq C
    BY <2>1, <2>4, Zenon DEF Data, StaleCaught
  <2>6. CASE x \in stale
    BY <2>5, <2>6
  <2>7. CASE x \in O /\ k \in stale
    <3>1. k \in C \cap Comps \cap Active
      <4>1. k \in Nodes /\ k \in C /\ k \in Active
        BY <1>1, <2>5, <2>7, Zenon DEF Data, Known
      <4> QED
        BY <4>1 DEF Keys
    <3>2. x \in Active /\ k \in reads'[x]
      BY <1>1, <1>2, <2>7, Zenon
    <3> QED
      BY <1>1, <2>1, <3>1, <3>2, Zenon DEF Carried
  <2> QED
    BY <2>1, <2>6, <2>7, Zenon DEF Gets
<1> QED
  BY <1>3, <1>4, <1>5, <1>6, <1>7, Zenon DEF Data

\* A source is written, by a script or by an effect:
Writes(s) ==
  /\ UNCHANGED << status, reads, deps, dirty >> /\ Running' = Running
  /\ Told \subseteq Told'
  /\ {n \in Nodes : s \in deps[n]} \ Running \subseteq Told'
  /\ Running = {} \/ \A c \in Comps : s \notin CanRead[c]
  /\ stale' = stale \cup ((Affected(s) \cap Active) \ Running)

LEMMA WritesData ==
  ASSUME DataTyped, Data, NEW s, Writes(s) PROVE Data'
<1>1. /\ reads' = reads /\ deps' = deps /\ dirty' = dirty /\ Running' = Running
      /\ Active' = Active /\ Created' = Created /\ Active \subseteq Nodes /\ Comps \subseteq Nodes
  BY DEF Writes, Active, Created, DataTyped
<1>2. Known' /\ Subscribed' /\ SeesClean'
  BY <1>1, Zenon DEF Data, Known, Subscribed, SeesClean, Writes
<1>3. DirtyTold'
  BY <1>1, Zenon DEF Data, DirtyTold, Writes
<1>4. StaleCaught'
  <2>1. SUFFICES ASSUME NEW x \in stale', NEW C \in SUBSET Nodes, Carried(C)' PROVE x \in C
    BY Zenon DEF StaleCaught
  <2>2. Carried(C)
    BY <1>1, <2>1, Zenon DEF Carried, Writes
  <2>3. stale \subseteq C
    BY <2>1, <2>2, Zenon DEF Data, StaleCaught
  <2> DEFINE K == {m \in Nodes : m \in Active /\ m \notin Running => m \in C}
             L == {m \in Nodes : s \in reads[m]}
  <2>4. \A m \in Active \ Running : s \in reads[m] => m \in C
    <3>1. SUFFICES ASSUME NEW m \in Active \ Running, s \in reads[m] PROVE m \in C
      BY Zenon
    <3>2. m \in Told'
      BY <1>1, <3>1, Zenon DEF Data, Subscribed, Writes
    <3> QED
      BY <1>1, <2>1, <3>1, <3>2, Zenon DEF Carried
  <2>5. CASE Running = {}
    <3>1. ClosedUnder(K, s)
      <4>1. SUFFICES ASSUME NEW m \in Active,
                            s \in reads[m] \/ \E c \in K \cap Comps : status[c] = "active" /\ c \in reads[m]
                     PROVE  m \in C
        BY <2>5, Zenon DEF ClosedUnder
      <4>2. CASE s \in reads[m]
        BY <2>4, <2>5, <4>2, Zenon
      <4>3. ASSUME NEW c \in K \cap Comps, status[c] = "active", c \in reads[m] PROVE m \in C
        <5>1. c \in Active
          BY <1>1, <4>3, Zenon DEF Active
        <5>2. c \in C
          BY <2>5, <4>3, <5>1, Zenon
        <5> QED
          BY <2>2, <4>3, <5>1, <5>2, Zenon DEF Carried
      <4> QED
        BY <4>1, <4>2, <4>3, Zenon
    <3>2. K \in SUBSET Nodes
      OBVIOUS
    <3>3. Affected(s) \subseteq K
      BY <3>1, <3>2, Zenon DEF Affected
    <3> QED
      BY <2>1, <2>3, <2>5, <3>3, Zenon DEF Writes
  <2>6. CASE \A c \in Comps : s \notin CanRead[c]
    <3>1. \A c \in Comps : s \notin reads[c]
      BY <2>6, Zenon DEF Data, Subscribed
    <3>2. ClosedUnder(L, s)
      BY <3>1, Zenon DEF ClosedUnder
    <3>3. L \in SUBSET Nodes
      OBVIOUS
    <3>4. Affected(s) \subseteq L
      BY <3>2, <3>3, Zenon DEF Affected
    <3> QED
      BY <2>1, <2>3, <2>4, <3>4, Zenon DEF Writes
  <2> QED
    BY <2>5, <2>6, Zenon DEF Writes
<1> QED
  BY <1>2, <1>3, <1>4, Zenon DEF Data

\* trigger() marks a computed, and goes on to what read it:
Invalidates(n) ==
  /\ UNCHANGED << status, reads, deps, stale >> /\ Running = {} /\ Running' = {}
  /\ dirty' = dirty \cup {n} /\ Told \subseteq Told'
  /\ {m \in Nodes : n \in deps[m]} \subseteq Told'

LEMMA InvalidatesData ==
  ASSUME DataTyped, Data, NEW n \in Comps, Invalidates(n) PROVE Data'
<1>1. /\ reads' = reads /\ deps' = deps /\ stale' = stale /\ Running = {} /\ Running' = {}
      /\ Active' = Active /\ Created' = Created /\ Active \subseteq Nodes
  BY DEF Invalidates, Active, Created
<1>2. Known' /\ Subscribed' /\ SeesClean'
  BY <1>1, Zenon DEF Data, Known, Subscribed, SeesClean
<1>3. DirtyTold'
  <2>1. SUFFICES ASSUME NEW c \in dirty' \cap Active, NEW m \in Active, c \in reads[m]
                 PROVE  m \in Told'
    BY <1>1, Zenon DEF DirtyTold
  <2>2. CASE c \in dirty
    BY <1>1, <2>1, <2>2, Zenon DEF Data, DirtyTold, Invalidates
  <2>3. CASE c = n
    BY <1>1, <2>1, <2>3, Zenon DEF Data, Subscribed, Invalidates
  <2> QED
    BY <2>1, <2>2, <2>3, Zenon DEF Invalidates
<1>4. StaleCaught'
  <2>1. SUFFICES ASSUME NEW x \in stale, NEW C \in SUBSET Nodes, Carried(C)' PROVE x \in C
    BY <1>1, Zenon DEF StaleCaught
  <2>2. Carried(C)
    BY <1>1, <2>1, Zenon DEF Carried, Invalidates
  <2> QED
    BY <2>1, <2>2, Zenon DEF Data, StaleCaught
<1> QED
  BY <1>2, <1>3, <1>4, Zenon DEF Data

\* With no loop of trigger() under way, what is told is queued or dirty, and no
\* chain leads further.
LEMMA Quiet ==
  ASSUME DataTyped, Data, TodoOf(stack) = {}
  PROVE  stale \subseteq (queued \cup dirty) \ Running
<1>1. Told = queued \cup dirty /\ Active \subseteq Nodes
  BY DEF Told, Active
<1> DEFINE C == (Active \cap Told) \ Running
<1>2. ASSUME NEW c \in C \cap Comps \cap Active, NEW m \in Active, c \in reads[m]
      PROVE  m \in C
  <2>1. c \in dirty \cap Active
    BY <1>1, <1>2, Zenon DEF DataTyped
  <2>2. m \notin Running
    BY <1>2, <2>1, Zenon DEF Data, SeesClean
  <2> QED
    BY <1>2, <2>1, <2>2, Zenon DEF Data, DirtyTold
<1>3. Carried(C)
  <2> HIDE DEF C
  <2>1. (Active \cap Told) \ Running \subseteq C
    BY DEF C
  <2> QED
    BY <1>2, <2>1, Zenon DEF Carried
<1>4. C \in SUBSET Nodes
  BY <1>1
<1>5. stale \subseteq C
  BY <1>3, <1>4, Zenon DEF Data, StaleCaught
<1> QED
  BY <1>1, <1>5

\* A node is stopped while nothing runs:
Stops(n) ==
  /\ Running = {} /\ Running' = {} /\ TodoOf(stack) = {}
  /\ Active' = Active \ {n} /\ Created' = Created
  /\ UNCHANGED << reads, dirty, queued >> /\ Told' = Told
  /\ deps' = [deps EXCEPT ![n] = {}]
  /\ stale' = stale \ {n}

LEMMA StopsData ==
  ASSUME DataTyped, Data, NEW n \in Nodes, Stops(n) PROVE Data'
<1>1. /\ reads' = reads /\ dirty' = dirty /\ Running = {} /\ Running' = {}
      /\ Active' = Active \ {n} /\ Created' = Created /\ Active \subseteq Nodes
      /\ Told' = Told /\ stale' = stale \ {n}
      /\ \A m \in Nodes : deps'[m] = IF m = n THEN {} ELSE deps[m]
  BY DEF Stops, Active, DataTyped, GraphTyped
<1>2. Known' /\ SeesClean'
  BY <1>1, Zenon DEF Data, Known, SeesClean
<1>3. Subscribed'
  BY <1>1, Zenon DEF Data, Subscribed, DataTyped
<1>4. DirtyTold'
  BY <1>1, Zenon DEF Data, DirtyTold
<1>5. StaleCaught'
  <2>1. SUFFICES ASSUME NEW x \in stale', NEW C \in SUBSET Nodes, Carried(C)' PROVE x \in C
    BY Zenon DEF StaleCaught
  <2>2. x \in stale /\ x # n /\ x \in Active
    BY <1>1, <2>1, Zenon DEF Data, Known
  <2>3. x \in queued \cup dirty
    BY <2>2, Quiet DEF Stops
  <2>4. x \in Told
    BY <2>3, Zenon DEF Told
  <2> QED
    BY <1>1, <2>1, <2>2, <2>4, Zenon DEF Carried
<1> QED
  BY <1>2, <1>3, <1>4, <1>5, Zenon DEF Data

--------------------------------------------------------------------------------
(* Every step is one of these. *)

CInv == IInv /\ Following /\ lost = 0 /\ OnlyActive /\ Ordered(stack) /\ Data

\* What the invariant says of the stacks.
LEMMA Setting ==
  ASSUME CInv
  PROVE  /\ DataTyped /\ Balanced /\ DepsMirror
         /\ stack \in Seq(Frame) /\ effectStack \in Seq(Nodes)
         /\ status \in [Nodes -> {"new", "active", "stopped"}]
         /\ shouldTrack \in BOOLEAN /\ queued \subseteq Sched
         /\ dep \in [Keys -> SUBSET Nodes] /\ deps \in [Nodes -> SUBSET Keys]
         /\ \A n : n \in Running <=> OnEffectStack(n)
         /\ activeEffect # None => activeEffect \in Running
<1>1. /\ GraphTyped /\ HistoryTyped /\ NodesTyped /\ Balanced /\ StacksTyped /\ DepsMirror
  BY TypeParts DEF CInv, IInv, Balanced
<1>2. /\ stack \in Seq(Frame) /\ effectStack \in Seq(Nodes) /\ shouldTrack \in BOOLEAN
      /\ status \in [Nodes -> {"new", "active", "stopped"}]
      /\ dirty \subseteq Comps /\ queued \subseteq Sched
  BY <1>1 DEF StacksTyped, NodesTyped
<1>3. Running \subseteq Active
  BY <1>2 DEF CInv, OnlyActive, Running, Active, ToSet
<1>4. Comps \subseteq Nodes /\ queued \cap Comps = {}
  BY <1>2, NodesAssumption DEF Nodes
<1>5. activeEffect # None => activeEffect \in Running
  <2>1. effectStack # << >> => Len(effectStack) \in DOMAIN effectStack
    BY <1>2
  <2>2. activeEffect # None => effectStack # << >> /\ activeEffect = effectStack[Len(effectStack)]
    BY DEF activeEffect, Last
  <2> QED
    BY <2>1, <2>2, Zenon DEF Running, ToSet
<1> QED
  BY <1>1, <1>2, <1>3, <1>4, <1>5 DEF DataTyped, Running, OnEffectStack, GraphTyped

LEMMA NothingRuns ==
  ASSUME CInv, \A j \in DOMAIN stack : stack[j].kind = "trigger"
  PROVE  Running = {} /\ activeEffect = None
<1>1. RunsOf(stack) = {}
  BY DEF RunsOf
<1>2. effectStack = << >> /\ activeEffect = None
  BY <1>1, Innermost DEF CInv
<1> QED
  BY <1>2 DEF Running, ToSet

LEMMA CodeOnTop ==
  ASSUME CInv, stack # << >>, Top.kind # "trigger"
  PROVE  Top.node \in Nodes /\ Top.todo = {}
<1>1. Len(stack) \in DOMAIN stack /\ Top = stack[Len(stack)]
  BY Setting DEF Top, Last
<1> QED
  BY <1>1, Zenon DEF CInv, Ordered

LEMMA TopRuns ==
  ASSUME CInv, stack # << >>, Top.kind = "run"
  PROVE  activeEffect = Top.node /\ Top.node \in Running
<1>1. stack \in Seq(Frame) /\ Len(stack) \in Nat /\ Len(stack) \in DOMAIN stack /\ Top = stack[Len(stack)]
  BY Setting DEF Top, Last
<1>2. Len(stack) \in RunsOf(stack) /\ RunsOf(stack) \in SUBSET (1..Len(stack))
  BY <1>1, Ranges DEF RunsOf
<1>3. PICK i \in RunsOf(stack) : activeEffect = stack[i].node /\ \A k \in RunsOf(stack) : k <= i
  BY <1>2, Innermost, Zenon DEF CInv
<1>4. i = Len(stack)
  BY <1>1, <1>2, <1>3
<1>5. activeEffect # None
  BY <1>2, Innermost DEF CInv
<1> QED
  BY <1>1, <1>3, <1>4, <1>5, Setting

LEMMA ComputedOnTop ==
  ASSUME IInv, Following, Ordered(stack), activeEffect \in Comps
  PROVE  stack # << >> /\ IsComputed(stack[Len(stack)]) /\ stack[Len(stack)].node = activeEffect
<1>1. stack \in Seq(Frame) /\ Len(stack) \in Nat
  BY TypeParts DEF IInv, StacksTyped
<1>2. activeEffect # None
  BY NodesAssumption DEF Nodes
<1>3. RunsOf(stack) # {}
  BY <1>2, Innermost
<1>4. PICK i \in RunsOf(stack) : activeEffect = stack[i].node /\ \A k \in RunsOf(stack) : k <= i
  BY <1>3, Innermost, Zenon
<1>5. RunsOf(stack) \in SUBSET (1..Len(stack))
  BY <1>1, Ranges
<1>6. IsComputed(stack[i]) /\ i \in DOMAIN stack /\ Len(stack) \in DOMAIN stack
  BY <1>1, <1>4, <1>5 DEF IsComputed, RunsOf
<1>7. i = Len(stack)
  <2>1. SUFFICES ASSUME i # Len(stack) PROVE FALSE
    OBVIOUS
  <2>2. Len(stack) > i
    BY <1>1, <1>4, <1>5, <2>1
  <2>3. IsComputed(stack[Len(stack)])
    BY <1>6, <2>2, Zenon DEF Ordered
  <2>4. Len(stack) \in RunsOf(stack)
    BY <1>6, <2>3 DEF IsComputed, RunsOf
  <2> QED
    BY <1>1, <1>4, <1>5, <2>2, <2>4
<1> QED
  BY <1>3, <1>4, <1>6, <1>7 DEF RunsOf

\* Nothing but computeds is called by one, and nothing is written.
LEMMA Pure ==
  ASSUME Tame, CInv, stack # << >>, IsComputed(Last(stack))
  PROVE  Callable = {} /\ Writable = {}
BY DEF Tame, IsComputed, Callable, Writable, Top

\* What code calls is an effect.
LEMMA CallsEffects ==
  ASSUME CInv, UserCode PROVE Callable \subseteq Effs
<1>1. CASE stack = << >>
  BY <1>1 DEF Callable
<1>2. CASE stack # << >>
  <2>1. Top.node \in Nodes
    BY <1>2, CodeOnTop DEF UserCode, InCode
  <2> QED
    BY <1>2, <2>1, CodeAssumption DEF Callable
<1> QED
  BY <1>1, <1>2

LEMMA RunStarts ==
  ASSUME CInv, NEW n \in Nodes, NEW base \in Seq(Frame), Ordered(base), StartRun(n, base),
         ~OnEffectStack(n), dirty' = dirty,
         n \in Comps => n \in Active \cap dirty,
         \/ status[n] = "active" /\ status' = status
         \/ status[n] = "new" /\ status' = [status EXCEPT ![n] = "active"],
         queued \cup TodoOf(stack) \subseteq queued' \cup TodoOf(base) \cup {n},
         base # << >> /\ IsComputed(Last(base)) => n \in Comps /\ n \in CanRead[Last(base).node]
  PROVE  Ordered(stack') /\ Data'
<1> DEFINE f == CodeFrame("run", n)
<1>1. f \in Frame /\ f.kind = "run" /\ f.node = n /\ f.todo = {}
  BY FramesTyped DEF CodeFrame
<1>2. stack' = Append(base, f)
  BY DEF StartRun
<1> HIDE DEF f
<1>3. Ordered(stack')
  <2>1. IsComputed(f) <=> n \in Comps
    BY <1>1 DEF IsComputed
  <2>2. f.todo \cap Comps = {}
    BY <1>1
  <2> QED
    BY <1>1, <1>2, <2>1, <2>2, OrderedPush
<1>4. TodoOf(stack') = TodoOf(base)
  <2>1. TodoOf(Append(base, f)) = TodoOf(base) \cup f.todo
    BY <1>1, TodoPush
  <2> QED
    BY <1>1, <1>2, <2>1
<1>5. /\ Active \subseteq Active' /\ Active' \subseteq Active \cup {n} /\ n \in Active'
      /\ n \in Active \/ n \notin Created
      /\ Created \subseteq Created' /\ Created' \subseteq Created \cup {n}
  BY Setting DEF Active, Created
<1>6. Running' = Running \cup {n} /\ n \notin Running
  <2>1. effectStack \in Seq(Nodes) /\ effectStack' = Append(effectStack, n)
    BY Setting DEF StartRun
  <2>2. /\ DOMAIN effectStack' = DOMAIN effectStack \cup {Len(effectStack) + 1}
        /\ effectStack'[Len(effectStack) + 1] = n
        /\ \A i \in DOMAIN effectStack : effectStack'[i] = effectStack[i]
    BY <2>1
  <2>3. Running' = Running \cup {n}
    <3>1. \A x : x \in Running <=> \E i \in DOMAIN effectStack : x = effectStack[i]
      BY Zenon DEF Running, ToSet
    <3>2. \A x : x \in Running' <=> \E i \in DOMAIN effectStack' : x = effectStack'[i]
      BY Zenon DEF Running, ToSet
    <3>3. ASSUME NEW x \in Running' PROVE x \in Running \cup {n}
      <4>1. PICK i \in DOMAIN effectStack' : x = effectStack'[i]
        BY <3>2
      <4> QED
        BY <2>2, <3>1, <4>1
    <3>4. ASSUME NEW x \in Running PROVE x \in Running'
      <4>1. PICK i \in DOMAIN effectStack : x = effectStack[i]
        BY <3>1
      <4>2. i \in DOMAIN effectStack' /\ x = effectStack'[i]
        BY <2>2, <4>1
      <4> QED
        BY <3>2, <4>2
    <3>5. n \in Running'
      BY <2>2, <3>2
    <3> QED
      BY <3>3, <3>4, <3>5
  <2> QED
    BY <2>3 DEF Running, OnEffectStack
<1>7. Told \subseteq Told' \cup {n}
  <2>1. Told' = queued' \cup dirty \cup TodoOf(base)
    BY <1>4, Zenon DEF Told
  <2> QED
    BY <2>1, Zenon DEF Told
<1>8. Starts(n)
  BY <1>5, <1>6, <1>7, Zenon DEF Starts, StartRun, Cleanup
<1> QED
  BY <1>3, <1>8, StartsData, Setting DEF CInv

LEMMA NodeCalled ==
  ASSUME CInv, NEW n \in Effs, NEW base \in Seq(Frame), Ordered(base), CallNode(n, base),
         UNCHANGED << status, dirty >>,
         queued \cup TodoOf(stack) \subseteq queued' \cup TodoOf(base) \cup {n},
         base # << >> => ~IsComputed(Last(base))
  PROVE  Ordered(stack') /\ Data'
<1>0. n \in Nodes /\ n \notin Comps
  BY NodesAssumption DEF Nodes
<1>1. CASE status[n] = "active" /\ ~OnEffectStack(n) /\ StartRun(n, base)
  BY <1>0, <1>1, RunStarts
<1>2. CASE ~(status[n] = "active" /\ ~OnEffectStack(n) /\ StartRun(n, base))
  <2>1. /\ n \notin Active \/ n \in Running
        /\ UNCHANGED << graph, tracking, reads, stale >>
        /\ \/ stack' = base
           \/ stack' = Append(base, CodeFrame("raw", n))
    BY <1>2 DEF CallNode, Active, Running, OnEffectStack
  <2> DEFINE f == CodeFrame("raw", n)
  <2>2. f \in Frame /\ f.kind = "raw" /\ f.node = n /\ f.todo = {}
    BY <1>0, FramesTyped DEF CodeFrame
  <2> HIDE DEF f
  <2>3. Ordered(stack') /\ TodoOf(stack') = TodoOf(base)
    <3>1. CASE stack' = base
      BY <3>1
    <3>2. CASE stack' = Append(base, f)
      <4>1. Ordered(Append(base, f))
        <5>1. f.todo \cap Comps = {}
          BY <2>2
        <5> QED
          BY <1>0, <2>2, <5>1, OrderedPush
      <4>2. TodoOf(Append(base, f)) = TodoOf(base)
        BY <2>2, TodoPush
      <4> QED
        BY <3>2, <4>1, <4>2
    <3> QED
      BY <2>1, <3>1, <3>2 DEF f
  <2>4. Running' = Running
    BY <2>1 DEF Running, tracking
  <2>5. (Told \cap Active) \ Running \subseteq Told'
    <3>1. Told' = queued' \cup dirty \cup TodoOf(base)
      BY <2>3, Zenon DEF Told
    <3> QED
      BY <2>1, <3>1, Zenon DEF Told
  <2>6. Idles
    BY <2>1, <2>4, <2>5 DEF Idles, graph
  <2> QED
    BY <2>3, <2>6, IdlesData, Setting DEF CInv
<1> QED
  BY <1>1, <1>2

\* A frame is left that has nothing to do, or nothing but the flag of the top
\* frame changes.
LEMMA FrameLeft ==
  ASSUME CInv, stack # << >>, Top.todo = {}, stack' = Front(stack), Running' \subseteq Running,
         UNCHANGED << status, reads, deps, stale, dirty, queued >>
  PROVE  Ordered(stack') /\ Data'
<1>1. Ordered(stack') /\ TodoOf(stack') = TodoOf(stack)
  BY Setting, OrderedPop DEF CInv, Top
<1>2. Told' = Told
  BY <1>1, Zenon DEF Told
<1>3. Idles
  BY <1>2 DEF Idles
<1> QED
  BY <1>1, <1>3, IdlesData, Setting DEF CInv

LEMMA SameNews ==
  ASSUME CInv, Ordered(stack'), TodoOf(stack') = TodoOf(stack), effectStack' = effectStack,
         UNCHANGED << status, reads, deps, stale, dirty, queued >>
  PROVE  Ordered(stack') /\ Data'
<1>1. Told' = Told
  BY Zenon DEF Told
<1>2. Running' = Running
  BY DEF Running
<1>3. Idles
  BY <1>1, <1>2 DEF Idles
<1> QED
  BY <1>3, IdlesData, Setting DEF CInv

--------------------------------------------------------------------------------
(* The actions. *)

\* Without exceptions reads are tracked for the innermost run, or for nobody.
LEMMA OwnerKnown ==
  ASSUME IInv, Following, lost = 0
  PROVE  /\ shouldTrack /\ activeEffect # None => Owner(stack) = {activeEffect}
         /\ ~(shouldTrack /\ activeEffect # None) => Owner(stack) = {}
<1>1. ~Spoilt(stack)
  BY NoneLost, Zenon
<1> QED
  BY <1>1, OwnerIs, Zenon

\* The edges that track() adds.
LEMMA TrackSubscribes ==
  ASSUME GraphTyped, NEW k \in Keys, NEW a \in Nodes \cup {None}, NEW on \in BOOLEAN,
         Track(k, a, on), NEW O, on /\ a # None => O = {a}, ~(on /\ a # None) => O = {}
  PROVE  Subscribes(k, O)
<1>1. CASE on /\ a # None
  <2>1. deps' = [deps EXCEPT ![a] = @ \cup {k}] /\ a \in Nodes /\ O = {a}
    BY <1>1 DEF Track, Tracked
  <2>2. \A n \in Nodes : deps'[n] = IF n = a THEN deps[a] \cup {k} ELSE deps[n]
    BY <2>1 DEF GraphTyped
  <2> QED
    BY <2>1, <2>2 DEF Subscribes
<1>2. CASE ~(on /\ a # None)
  BY <1>2 DEF Track, Tracked, Subscribes
<1> QED
  BY <1>1, <1>2

LEMMA ReadStep ==
  ASSUME Tame, CInv, NEW k \in Keys, ReadSource(k) \/ ReadCached(k)
  PROVE  Ordered(stack') /\ Data'
<1> DEFINE O == Owner(stack)
<1>1. /\ UserCode /\ k \in Readable
      /\ Track(k, activeEffect, shouldTrack) /\ Saw(stack, k)
      /\ UNCHANGED << status, tracking, queued, stack >>
      /\ \/ k \in Srcs /\ dirty' = dirty
         \/ k \in Comps /\ NothingToCompute(k) /\ dirty' = dirty \ {k}
  BY DEF ReadSource, ReadCached
<1>2. /\ shouldTrack /\ activeEffect # None => O = {activeEffect}
      /\ ~(shouldTrack /\ activeEffect # None) => O = {}
  BY OwnerKnown DEF CInv
<1>3. Running' = Running /\ O \subseteq Running'
  BY <1>1, <1>2, Setting DEF Running, tracking
<1>4. \A n \in O \cap Comps : k \in CanRead[n]
  <2>1. SUFFICES ASSUME activeEffect \in Comps PROVE k \in CanRead[activeEffect]
    BY <1>2
  <2>2. stack # << >> /\ Top.node = activeEffect
    BY <2>1, ComputedOnTop DEF CInv, Top, Last
  <2> QED
    BY <1>1, <2>2 DEF Readable
<1>5. /\ k \in Comps => k \in Created /\ k \notin dirty'
      /\ k \in dirty => k \in Running \/ k \notin Active
      /\ dirty' \subseteq dirty /\ dirty \subseteq dirty' \cup {k}
  <2>1. dirty \subseteq Comps /\ Srcs \cap Comps = {} /\ Comps \subseteq Nodes
    BY Setting, NodesAssumption DEF DataTyped, Nodes
  <2>2. CASE k \in Srcs /\ dirty' = dirty
    BY <2>1, <2>2
  <2>3. CASE k \in Comps /\ NothingToCompute(k) /\ dirty' = dirty \ {k}
    <3>1. /\ status[k] # "new"
          /\ k \notin dirty \/ status[k] = "stopped" \/ k \in Running
      BY <2>3, Setting DEF NothingToCompute
    <3> QED
      BY <2>1, <2>3, <3>1 DEF Created, Active
  <2> QED
    BY <1>1, <2>2, <2>3
<1>6. Told \subseteq Told' \cup ({k} \cap dirty)
  BY <1>1, <1>5 DEF Told
<1>7. Subscribes(k, O)
  <2>1. activeEffect \in Nodes \cup {None}
    BY Setting DEF DataTyped, Active
  <2>2. GraphTyped /\ shouldTrack \in BOOLEAN
    BY Setting DEF DataTyped
  <2> HIDE DEF O
  <2> QED
    BY <1>1, <1>2, <2>1, <2>2, TrackSubscribes, Zenon
<1> HIDE DEF O
<1>8. Gets(k, O)
  BY <1>1, <1>3, <1>4, <1>5, <1>6, <1>7, Zenon DEF Gets, Saw, O
<1>9. Data'
  BY <1>8, GetsData, Setting, NodesAssumption DEF CInv
<1>10. stack' = stack
  BY <1>1
<1> QED
  BY <1>9, <1>10 DEF CInv

LEMMA WriteStep ==
  ASSUME Tame, CInv, NEW s \in Keys, Write(s)
  PROVE  Ordered(stack') /\ Data'
<1> DEFINE f == TriggerFrame(Collected(s))
<1>1. /\ UserCode /\ s \in Writable /\ stack' = Append(stack, f)
      /\ stale' = stale \cup
           {n \in Nodes : status[n] = "active" /\ ~OnEffectStack(n) /\ n \in Affected(s)}
      /\ UNCHANGED << status, graph, dirty, tracking, queued, reads >>
  BY DEF Write, MayCall
<1>2. /\ GraphTyped /\ DepsMirror /\ stack \in Seq(Frame) /\ Collected(s) \subseteq dep[s]
      /\ \A n : n \in Running <=> OnEffectStack(n)
  BY Setting DEF DataTyped, Collected
<1>3. f \in Frame /\ f.kind = "trigger" /\ f.todo = Collected(s)
  BY <1>2, FramesTyped DEF TriggerFrame, GraphTyped
<1> HIDE DEF f
<1>4. stack = << >> \/ (stack # << >> /\ \A c \in Comps : s \notin CanRead[c])
  <2>1. SUFFICES ASSUME stack # << >>, NEW c \in Comps, s \in CanRead[c] PROVE FALSE
    OBVIOUS
  <2>2. Top.node \in Nodes /\ s \in CanWrite[Top.node]
    BY <1>1, <2>1, CodeOnTop DEF UserCode, InCode, Writable
  <2> QED
    BY <2>1, <2>2 DEF Tame, Nodes
<1>5. Ordered(stack')
  <2>1. stack # << >> => ~IsComputed(Last(stack))
    BY <1>1, Pure
  <2>2. f.todo \cap Comps # {} => \A j \in DOMAIN stack : stack[j].kind = "trigger"
    <3>1. CASE stack = << >>
      BY <3>1
    <3>2. CASE \A c \in Comps : s \notin CanRead[c]
      <4>1. \A c \in Comps : s \notin deps[c]
        BY <3>2, Zenon DEF CInv, Data, Subscribed
      <4>2. \A c \in Comps : c \notin dep[s]
        BY <1>2, <4>1 DEF DepsMirror, Nodes
      <4> QED
        BY <1>2, <1>3, <4>2
    <3> QED
      BY <1>4, <3>1, <3>2
  <2> QED
    BY <1>1, <1>2, <1>3, <2>1, <2>2, OrderedPush DEF CInv
<1>6. TodoOf(stack') = TodoOf(stack) \cup Collected(s)
  <2>1. TodoOf(Append(stack, f)) = TodoOf(stack) \cup f.todo
    BY <1>2, <1>3, TodoPush
  <2> QED
    BY <1>1, <1>3, <2>1
<1>7. Running' = Running /\ Told \subseteq Told' /\ Collected(s) \subseteq Told'
  BY <1>1, <1>6 DEF Running, Told, tracking
<1>8. {n \in Nodes : s \in deps[n]} \ Running \subseteq Told'
  <2>1. SUFFICES ASSUME NEW n \in Nodes, s \in deps[n], n \notin Running PROVE n \in Collected(s)
    BY <1>7
  <2>2. n \in dep[s]
    BY <1>2, <2>1 DEF DepsMirror
  <2>3. n # activeEffect
    BY <2>1, Setting, NodesAssumption
  <2> QED
    BY <2>2, <2>3 DEF Collected
<1>9. Running = {} \/ \A c \in Comps : s \notin CanRead[c]
  <2>1. stack = << >> => Running = {}
    <3>1. stack = << >> => \A j \in DOMAIN stack : stack[j].kind = "trigger"
      OBVIOUS
    <3> QED
      BY <3>1, NothingRuns
  <2> QED
    BY <1>4, <2>1
<1>10. stale' = stale \cup ((Affected(s) \cap Active) \ Running)
  <2>1. {n \in Nodes : status[n] = "active" /\ ~OnEffectStack(n) /\ n \in Affected(s)}
          = (Affected(s) \cap Active) \ Running
    BY <1>2, Zenon DEF Active
  <2> QED
    BY <1>1, <2>1, Zenon
<1>11. Writes(s)
  BY <1>1, <1>7, <1>8, <1>9, <1>10 DEF Writes, graph
<1> QED
  BY <1>5, <1>11, WritesData, Setting DEF CInv

\* What the loop of trigger() leaves when it takes n.
LEMMA Rest ==
  ASSUME CInv, NEW n \in Nodes, InTrigger, n \in Top.todo
  PROVE  LET rest == [stack EXCEPT ![Len(stack)].todo = @ \ {n}] IN
         /\ rest \in Seq(Frame) /\ Ordered(rest) /\ rest # << >>
         /\ Last(rest).kind = "trigger"
         /\ TodoOf(stack) \subseteq TodoOf(rest) \cup {n}
         /\ n \in Comps => /\ \A j \in DOMAIN stack : stack[j].kind = "trigger"
                           /\ \A j \in DOMAIN rest : rest[j].kind = "trigger"
<1> DEFINE f == [Top EXCEPT !.todo = @ \ {n}]
           r == [stack EXCEPT ![Len(stack)] = f]
           rest == [stack EXCEPT ![Len(stack)].todo = @ \ {n}]
<1>1. /\ stack \in Seq(Frame) /\ stack # << >> /\ Top = stack[Len(stack)] /\ Top = Last(stack)
      /\ Len(stack) \in DOMAIN stack /\ Top \in Frame /\ Top.kind = "trigger"
  BY Setting DEF InTrigger, Top, Last
<1>2. f \in Frame /\ f.kind = "trigger" /\ f.node = Top.node /\ f.todo = Top.todo \ {n}
  BY <1>1, Zenon DEF Frame
<1>3. rest = r
  BY <1>1, Zenon
<1> HIDE DEF f
<1>4. /\ r \in Seq(Frame) /\ Ordered(r) /\ r # << >> /\ Last(r) = f /\ Len(r) = Len(stack)
      /\ \A j \in DOMAIN stack : r[j].kind = stack[j].kind
  BY <1>1, <1>2, OrderedTop DEF CInv
<1> HIDE DEF r, rest
<1>5. DOMAIN r = DOMAIN stack
  BY <1>3, Zenon DEF rest
<1>6. TodoOf(stack) \subseteq TodoOf(r) \cup {n}
  <2>1. SUFFICES ASSUME NEW m \in Nodes, NEW i \in DOMAIN stack, m \in stack[i].todo, m # n
                 PROVE  m \in r[i].todo
    BY <1>5, Zenon DEF TodoOf
  <2>2. r[Len(stack)] = f /\ \A j \in DOMAIN stack : j # Len(stack) => r[j] = stack[j]
    BY <1>1, Zenon DEF r
  <2> QED
    BY <1>1, <1>2, <2>1, <2>2, Zenon
<1>7. n \in Comps => \A j \in DOMAIN stack : stack[j].kind = "trigger"
  <2>1. SUFFICES ASSUME n \in Comps, NEW j \in DOMAIN stack PROVE stack[j].kind = "trigger"
    OBVIOUS
  <2>2. j <= Len(stack)
    BY <1>1
  <2>3. stack[Len(stack)].todo \cap Comps # {}
    BY <1>1, <2>1
  <2> QED
    BY <1>1, <2>2, <2>3, Zenon DEF CInv, Ordered
<1>8. n \in Comps => \A j \in DOMAIN r : r[j].kind = "trigger"
  BY <1>4, <1>5, <1>7, Zenon
<1> QED
  BY <1>2, <1>3, <1>4, <1>6, <1>7, <1>8, Zenon DEF rest

LEMMA TriggerStep ==
  ASSUME Tame, CInv, NEW n \in Nodes, TriggerNext(n)
  PROVE  Ordered(stack') /\ Data'
<1> DEFINE rest == [stack EXCEPT ![Len(stack)].todo = @ \ {n}]
           f == TriggerFrame(Collected(n))
<1>1. /\ InTrigger /\ n \in Top.todo /\ UNCHANGED status
      /\ \/ /\ n \in Comps /\ n \notin dirty
            /\ dirty' = dirty \cup {n} /\ stack' = Append(rest, f)
            /\ UNCHANGED << graph, tracking, queued, reads, stale >>
         \/ /\ n \in Comps /\ n \in dirty /\ stack' = rest
            /\ UNCHANGED << graph, dirty, tracking, queued, reads, stale >>
         \/ /\ n \in Sched /\ queued' = queued \cup {n} /\ stack' = rest
            /\ UNCHANGED << graph, dirty, tracking, reads, stale >>
         \/ n \in Effs \ Sched /\ CallNode(n, rest) /\ UNCHANGED << dirty, queued >>
  BY Zenon DEF TriggerNext
<1>2. /\ rest \in Seq(Frame) /\ Ordered(rest) /\ rest # << >>
      /\ Last(rest).kind = "trigger"
      /\ TodoOf(stack) \subseteq TodoOf(rest) \cup {n}
      /\ n \in Comps => /\ \A j \in DOMAIN stack : stack[j].kind = "trigger"
                        /\ \A j \in DOMAIN rest : rest[j].kind = "trigger"
  BY <1>1, Rest
<1> HIDE DEF rest
<1>3. UNCHANGED tracking => Running' = Running
  BY DEF tracking, Running
<1>4. CASE /\ n \in Comps /\ n \notin dirty
           /\ dirty' = dirty \cup {n} /\ stack' = Append(rest, f)
           /\ UNCHANGED << graph, tracking, queued, reads, stale >>
  <2>1. /\ GraphTyped /\ DepsMirror /\ n \in Keys
    BY <1>4, Setting DEF DataTyped, Keys
  <2>2. f \in Frame /\ f.kind = "trigger" /\ f.todo = Collected(n)
    BY <2>1, FramesTyped DEF TriggerFrame, GraphTyped, Collected
  <2> HIDE DEF f
  <2>3. Running = {} /\ activeEffect = None
    BY <1>2, <1>4, NothingRuns
  <2>4. Ordered(stack')
    <3>1. ~IsComputed(Last(rest))
      BY <1>2 DEF IsComputed
    <3> QED
      BY <1>2, <1>4, <2>2, <3>1, OrderedPush
  <2>5. TodoOf(stack') = TodoOf(rest) \cup Collected(n)
    <3>1. TodoOf(Append(rest, f)) = TodoOf(rest) \cup f.todo
      BY <1>2, <2>2, TodoPush
    <3> QED
      BY <1>4, <2>2, <3>1
  <2>6. Told \subseteq Told' /\ Collected(n) \subseteq Told'
    BY <1>2, <1>4, <2>5 DEF Told
  <2>7. {m \in Nodes : n \in deps[m]} \subseteq Told'
    <3>1. \A m \in Nodes : n \in deps[m] => m \in dep[n] /\ m # None
      BY <2>1, NodesAssumption DEF DepsMirror
    <3> QED
      BY <2>3, <2>6, <3>1 DEF Collected
  <2>8. Invalidates(n)
    BY <1>1, <1>3, <1>4, <2>3, <2>6, <2>7 DEF Invalidates, graph
  <2> QED
    BY <1>4, <2>4, <2>8, InvalidatesData, Setting DEF CInv
<1>5. CASE \/ /\ n \in Comps /\ n \in dirty /\ stack' = rest
              /\ UNCHANGED << graph, dirty, tracking, queued, reads, stale >>
           \/ /\ n \in Sched /\ queued' = queued \cup {n} /\ stack' = rest
              /\ UNCHANGED << graph, dirty, tracking, reads, stale >>
  <2>1. Told \subseteq Told'
    BY <1>2, <1>5 DEF Told
  <2>2. Idles
    BY <1>1, <1>3, <1>5, <2>1 DEF Idles, graph
  <2> QED
    BY <1>2, <1>5, <2>2, IdlesData, Setting DEF CInv
<1>6. CASE n \in Effs \ Sched /\ CallNode(n, rest) /\ UNCHANGED << dirty, queued >>
  <2>1. queued \cup TodoOf(stack) \subseteq queued' \cup TodoOf(rest) \cup {n}
    BY <1>2, <1>6
  <2>2. ~IsComputed(Last(rest))
    BY <1>2 DEF IsComputed
  <2> QED
    BY <1>1, <1>2, <1>6, <2>1, <2>2, NodeCalled
<1> QED
  BY <1>1, <1>4, <1>5, <1>6

\* A computed has its value, and who asked for it gets it.
LEMMA EndComputedStep ==
  ASSUME Tame, CInv, IInv', Following', lost' = 0, EndComputed
  PROVE  Ordered(stack') /\ Data'
<1> DEFINE c == Top.node
           O == Owner(stack')
<1>1. /\ stack # << >> /\ Top.kind = "run" /\ c \in Comps
      /\ effectStack' = Front(effectStack) /\ shouldTrack' = Restored
      /\ stack' = Front(stack) /\ dirty' = dirty \ {c}
      /\ Track(c, activeEffect', Restored) /\ Saw(stack', c)
      /\ UNCHANGED << status, queued >>
  BY DEF EndComputed, InCode
<1>2. c \in Nodes /\ Top.todo = {} /\ c \in Running /\ c \in Keys
  BY <1>1, CodeOnTop, TopRuns DEF Keys
<1>3. Ordered(stack') /\ TodoOf(stack') = TodoOf(stack)
  BY <1>1, <1>2, Setting, OrderedPop DEF CInv, Top
<1>4. /\ shouldTrack' /\ activeEffect' # None => O = {activeEffect'}
      /\ ~(shouldTrack' /\ activeEffect' # None) => O = {}
  <2>1. Owner(stack)' = O
    BY Zenon DEF Owner, RunsOf
  <2>2. /\ (shouldTrack /\ activeEffect # None => Owner(stack) = {activeEffect})'
        /\ (~(shouldTrack /\ activeEffect # None) => Owner(stack) = {})'
    <3>1. (lost = 0)'
      OBVIOUS
    <3> QED
      BY <3>1, OwnerKnown, PTL
  <2> QED
    BY <2>1, <2>2
<1>5. Running' \subseteq Running /\ O \subseteq Running'
  <2>1. effectStack \in Seq(Nodes) /\ effectStack' \in Seq(Nodes)
    BY Setting, TypeParts DEF IInv, TypeOK
  <2>2. effectStack # << >>
    <3>1. Running # {}
      BY <1>2
    <3> QED
      BY <3>1 DEF Running, ToSet
  <2>3. /\ DOMAIN effectStack' \subseteq DOMAIN effectStack
        /\ \A i \in DOMAIN effectStack' : effectStack'[i] = effectStack[i]
    <3>1. Len(effectStack) - 1 \in 0..Len(effectStack) /\ effectStack' = SubSeq(effectStack, 1, Len(effectStack) - 1)
      BY <1>1, <2>1, <2>2 DEF Front
    <3>2. /\ Len(effectStack') = Len(effectStack) - 1
          /\ \A i \in 1..(Len(effectStack) - 1) : effectStack'[i] = effectStack[i]
      BY <2>1, <3>1, Prefix
    <3> QED
      BY <2>1, <3>2
  <2>4. Running' \subseteq Running
    BY <2>3, Zenon DEF Running, ToSet
  <2>5. activeEffect' # None => activeEffect' \in Running'
    <3>1. effectStack' # << >> => Len(effectStack') \in DOMAIN effectStack'
      BY <2>1
    <3>2. activeEffect' # None => effectStack' # << >> /\ activeEffect' = effectStack'[Len(effectStack')]
      BY DEF activeEffect, Last
    <3> QED
      BY <3>1, <3>2, Zenon DEF Running, ToSet
  <2> QED
    BY <1>4, <2>4, <2>5
<1>6. \A n \in O \cap Comps : c \in CanRead[n]
  <2>1. SUFFICES ASSUME activeEffect' \in Comps PROVE c \in CanRead[activeEffect']
    BY <1>4
  <2>2. /\ stack' # << >> /\ IsComputed(stack'[Len(stack')])
        /\ stack'[Len(stack')].node = activeEffect'
    <3>1. (IInv /\ Following /\ Ordered(stack) /\ activeEffect \in Comps =>
            /\ stack # << >> /\ IsComputed(stack[Len(stack)])
            /\ stack[Len(stack)].node = activeEffect)'
      BY ComputedOnTop, PTL
    <3>2. Ordered(stack)' <=> Ordered(stack')
      BY Zenon DEF Ordered, IsComputed
    <3>3. IsComputed(stack[Len(stack)])' <=> IsComputed(stack'[Len(stack')])
      BY Zenon DEF IsComputed
    <3> QED
      BY <1>3, <2>1, <3>1, <3>2, <3>3
  <2>3. PICK n \in Nat : n = Len(stack) /\ stack \in Seq(Frame)
    BY Setting
  <2>4. Len(stack') = n - 1 /\ \A i \in 1..(n - 1) : stack'[i] = stack[i]
    <3>1. n - 1 \in 0..Len(stack) /\ stack' = SubSeq(stack, 1, n - 1)
      BY <1>1, <2>3 DEF Front
    <3> QED
      BY <2>3, <3>1, Prefix
  <2>5. stack' \in Seq(Frame)
    BY TypeParts DEF IInv, TypeOK
  <2>6. n - 1 \in 1..(n - 1) /\ n - 1 \in DOMAIN stack /\ n \in DOMAIN stack /\ n = (n - 1) + 1
    BY <2>2, <2>3, <2>4, <2>5
  <2>7. IsComputed(stack[n - 1]) /\ stack[n - 1].node = activeEffect'
    BY <2>2, <2>4, <2>6, Zenon
  <2>8. stack[n].node \in CanRead[stack[n - 1].node]
    BY <2>6, <2>7, Zenon DEF CInv, Ordered
  <2> QED
    BY <2>3, <2>7, <2>8 DEF Top, Last
<1>7. Subscribes(c, O)
  <2>1. activeEffect' \in Nodes \cup {None}
    <3>1. effectStack' \in Seq(Nodes)
      BY DEF IInv, TypeOK
    <3> QED
      BY <3>1, ActiveType DEF activeEffect
  <2>2. GraphTyped /\ shouldTrack' \in BOOLEAN
    BY Setting DEF DataTyped, IInv, TypeOK
  <2>3. PICK a \in Nodes \cup {None} : a = activeEffect'
    BY <2>1
  <2>4. PICK on \in BOOLEAN : on = shouldTrack'
    BY <2>2
  <2>5. Track(c, a, on)
    BY <1>1, <2>3, <2>4
  <2>6. /\ on /\ a # None => O = {a}
        /\ ~(on /\ a # None) => O = {}
    BY <1>4, <2>3, <2>4
  <2> HIDE DEF O, c
  <2> QED
    BY <1>2, <2>2, <2>5, <2>6, TrackSubscribes, Zenon
<1>8. /\ c \in Created /\ dirty' \subseteq dirty /\ dirty \subseteq dirty' \cup {c} /\ c \notin dirty'
      /\ Told \subseteq Told' \cup ({c} \cap dirty)
  <2>1. c \in Active
    BY <1>2, Setting DEF DataTyped
  <2> QED
    BY <1>1, <1>3, <2>1 DEF Told, Active, Created
<1> HIDE DEF O, c
<1>9. Gets(c, O)
  BY <1>1, <1>2, <1>5, <1>6, <1>7, <1>8, Zenon DEF Gets, Saw, O
<1> QED
  BY <1>2, <1>3, <1>9, GetsData, Setting, NodesAssumption DEF CInv

\* Only an exception leaves a pause.
LEMMA NoneLeft == ASSUME Tame, [Next]_vars PROVE lost' = lost
<1>1. ASSUME NEW n \in Nodes, NEW st, CallNode(n, st) PROVE lost' = lost
  BY <1>1, Zenon DEF CallNode, StartRun, tracking
<1>2. ASSUME NEW n \in Nodes, CreateEffect(n) \/ ReadDirty(n) PROVE lost' = lost
  BY <1>2, Zenon DEF CreateEffect, ReadDirty, StartRun
<1>3. ASSUME NEW n \in Nodes, Call(n) \/ RunQueued(n) PROVE lost' = lost
  BY <1>1, <1>3, Zenon DEF Call, RunQueued
<1>4. ASSUME NEW n \in Nodes, TriggerNext(n) PROVE lost' = lost
  BY <1>1, <1>4, Zenon DEF TriggerNext, tracking
<1>5. ASSUME NEW n \in Nodes, CreateLazy(n) \/ Stop(n) PROVE lost' = lost
  BY <1>5, Zenon DEF CreateLazy, Stop, tracking
<1>6. ASSUME NEW k \in Keys, ReadSource(k) \/ ReadCached(k) \/ Write(k) PROVE lost' = lost
  BY <1>6, Zenon DEF ReadSource, ReadCached, Write, tracking
<1>7. ASSUME NEW k \in Keys, ReadDirty(k) PROVE lost' = lost
  BY <1>7, Zenon DEF ReadDirty, StartRun
<1>8. ASSUME EndEffect \/ EndComputed \/ PauseTracking \/ ResetTracking PROVE lost' = lost
  BY <1>8, Zenon DEF EndEffect, EndComputed, PauseTracking, ResetTracking
<1>9. ASSUME EndRaw \/ EndTrigger \/ UNCHANGED vars PROVE lost' = lost
  BY <1>9, Zenon DEF EndRaw, EndTrigger, tracking, vars
<1>10. ~Throw
  BY Zenon DEF Throw, Tame
<1> QED
  BY <1>2, <1>3, <1>4, <1>5, <1>6, <1>7, <1>8, <1>9, <1>10, Zenon DEF Next

LEMMA CurrentStep ==
  ASSUME Tame, CInv, [Next]_vars PROVE CInv'
<1>1. IInv' /\ Following' /\ lost' = 0 /\ OnlyActive'
  BY InvStep, FollowingStep, NoneLeft, ActiveStep DEF CInv, Tame
<1>2. SUFFICES Ordered(stack') /\ Data'
  <2>1. Ordered(stack)' <=> Ordered(stack')
    BY Zenon DEF Ordered, IsComputed
  <2> QED
    BY <1>1, <2>1, Zenon DEF CInv
<1>3. /\ stack \in Seq(Frame) /\ Ordered(stack)
      /\ \A n : n \in Running <=> OnEffectStack(n)
      /\ DataTyped /\ Running \subseteq Active /\ Comps \subseteq Nodes
  BY Setting DEF CInv, DataTyped
<1>4. ASSUME NEW n \in Nodes, CreateEffect(n) PROVE Ordered(stack') /\ Data'
  <2>1. /\ UserCode /\ n \in Callable /\ status[n] = "new"
        /\ status' = [status EXCEPT ![n] = "active"] /\ StartRun(n, stack)
        /\ dirty' = dirty /\ queued' = queued
    BY <1>4 DEF CreateEffect, MayCall
  <2>2. n \notin Comps
    BY <2>1, CallsEffects, NodesAssumption
  <2>3. ~OnEffectStack(n)
    BY <1>3, <2>1 DEF Active
  <2>4. ~(stack # << >> /\ IsComputed(Last(stack)))
    BY <2>1, Pure
  <2> QED
    BY <1>3, <2>1, <2>2, <2>3, <2>4, RunStarts
<1>5. ASSUME NEW n \in Nodes, CreateLazy(n) PROVE Ordered(stack') /\ Data'
  <2>1. /\ status[n] = "new" /\ status' = [status EXCEPT ![n] = "active"]
        /\ dirty' = dirty \cup ({n} \cap Comps)
        /\ UNCHANGED << graph, tracking, queued, stack, reads, stale >>
    BY <1>5 DEF CreateLazy
  <2>2. Active' = Active \cup {n} /\ Created' = Created \cup {n} /\ n \notin Created /\ n \notin Active
    BY <2>1, Setting DEF Active, Created
  <2>3. Running' = Running /\ Told \subseteq Told'
    BY <2>1 DEF Running, Told, tracking
  <2>4. Creates(n)
    BY <2>1, <2>2, <2>3 DEF Creates, graph
  <2> QED
    BY <1>3, <2>1, <2>4, CreatesData DEF CInv
<1>6. ASSUME NEW n \in Nodes, Call(n) PROVE Ordered(stack') /\ Data'
  <2>1. /\ UserCode /\ n \in Callable /\ CallNode(n, stack)
        /\ UNCHANGED << status, dirty >> /\ queued' = queued
    BY <1>6 DEF Call, MayCall
  <2>2. n \in Effs
    BY <2>1, CallsEffects
  <2>3. stack # << >> => ~IsComputed(Last(stack))
    BY <2>1, Pure
  <2> QED
    BY <1>3, <2>1, <2>2, <2>3, NodeCalled
<1>7. ASSUME NEW n \in Nodes, RunQueued(n) PROVE Ordered(stack') /\ Data'
  <2>1. /\ stack = << >> /\ n \in queued /\ queued' = queued \ {n} /\ CallNode(n, stack)
        /\ UNCHANGED << status, dirty >>
    BY <1>7 DEF RunQueued
  <2>2. n \in Effs
    BY <2>1, Setting, NodesAssumption
  <2> QED
    BY <1>3, <2>1, <2>2, NodeCalled
<1>8. ASSUME NEW n \in Nodes, Stop(n) PROVE Ordered(stack') /\ Data'
  <2>1. /\ stack = << >> /\ status[n] = "active" /\ status' = [status EXCEPT ![n] = "stopped"]
        /\ deps' = [deps EXCEPT ![n] = {}] /\ stale' = stale \ {n}
        /\ UNCHANGED << dirty, tracking, queued, stack, reads >>
    BY <1>8 DEF Stop, Cleanup, MayStop, Tame
  <2>2. Running = {} /\ TodoOf(stack) = {}
    <3>1. DOMAIN stack = {}
      BY <2>1
    <3> QED
      BY <3>1, NothingRuns DEF TodoOf
  <2>3. Active' = Active \ {n} /\ Created' = Created
    BY <2>1, Setting DEF Active, Created
  <2>4. Running' = Running /\ Told' = Told
    BY <2>1 DEF Running, Told, tracking
  <2>5. Stops(n)
    BY <2>1, <2>2, <2>3, <2>4 DEF Stops
  <2> QED
    BY <1>3, <2>1, <2>5, StopsData DEF CInv
<1>9. ASSUME NEW n \in Nodes, TriggerNext(n) PROVE Ordered(stack') /\ Data'
  BY <1>9, TriggerStep
<1>10. ASSUME NEW k \in Keys, ReadSource(k) \/ ReadCached(k) PROVE Ordered(stack') /\ Data'
  BY <1>10, ReadStep
<1>11. ASSUME NEW k \in Keys, ReadDirty(k) PROVE Ordered(stack') /\ Data'
  <2>1. /\ UserCode /\ k \in Comps \cap Readable /\ status[k] = "active" /\ k \in dirty
        /\ ~OnEffectStack(k) /\ StartRun(k, stack)
        /\ status' = status /\ dirty' = dirty /\ queued' = queued
    BY <1>11 DEF ReadDirty, MayCall
  <2>2. stack # << >> /\ IsComputed(Last(stack)) => k \in CanRead[Last(stack).node]
    BY <2>1 DEF Readable, Top
  <2>3. k \in Nodes /\ k \in Active
    BY <1>3, <2>1 DEF Active
  <2> QED
    BY <1>3, <2>1, <2>2, <2>3, RunStarts
<1>12. ASSUME NEW k \in Keys, Write(k) PROVE Ordered(stack') /\ Data'
  BY <1>12, WriteStep
<1>13. CASE EndEffect
  <2>1. /\ stack # << >> /\ Top.kind = "run" /\ effectStack' = Front(effectStack)
        /\ stack' = Front(stack)
        /\ UNCHANGED << status, reads, deps, stale, dirty, queued >>
    BY <1>13 DEF EndEffect, InCode, graph
  <2>2. Top.todo = {} /\ Top.node \in Running
    BY <2>1, CodeOnTop, TopRuns
  <2>3. Running' \subseteq Running
    <3>1. effectStack \in Seq(Nodes) /\ effectStack # << >>
      BY <2>2, Setting DEF Running, ToSet
    <3>2. Len(effectStack) - 1 \in 0..Len(effectStack) /\ effectStack' = SubSeq(effectStack, 1, Len(effectStack) - 1)
      BY <2>1, <3>1 DEF Front
    <3>3. /\ effectStack' \in Seq(Nodes) /\ Len(effectStack') = Len(effectStack) - 1
          /\ \A i \in 1..(Len(effectStack) - 1) : effectStack'[i] = effectStack[i]
      BY <3>1, <3>2, Prefix
    <3>4. \A i \in DOMAIN effectStack' : i \in DOMAIN effectStack /\ effectStack'[i] = effectStack[i]
      BY <3>1, <3>3
    <3> QED
      BY <3>4, Zenon DEF Running, ToSet
  <2> QED
    BY <2>1, <2>2, <2>3, FrameLeft
<1>14. CASE EndComputed
  BY <1>1, <1>14, EndComputedStep
<1>15. CASE EndRaw \/ EndTrigger
  <2>1. /\ stack # << >> /\ stack' = Front(stack) /\ effectStack' = effectStack
        /\ UNCHANGED << status, reads, deps, stale, dirty, queued >>
        /\ Top.kind # "trigger" \/ Top.todo = {}
    BY <1>15 DEF EndRaw, EndTrigger, InCode, InTrigger, graph, tracking
  <2>2. Top.todo = {}
    BY <2>1, CodeOnTop
  <2>3. Running' = Running
    BY <2>1 DEF Running
  <2> QED
    BY <2>1, <2>2, <2>3, FrameLeft
<1>16. ASSUME NEW b \in BOOLEAN, InCode, stack' = [stack EXCEPT ![Len(stack)].paused = b],
              UNCHANGED << status, graph, dirty, effectStack, queued, reads, stale >>
       PROVE  Ordered(stack') /\ Data'
  <2> DEFINE f == [Top EXCEPT !.paused = b]
  <2>1. Top \in Frame /\ Top.kind # "trigger" /\ stack # << >> /\ Len(stack) \in DOMAIN stack
        /\ Top = stack[Len(stack)] /\ Top = Last(stack)
    BY <1>3, <1>16 DEF InCode, Top, Last
  <2>2. f \in Frame /\ f.kind = Top.kind /\ f.node = Top.node /\ f.todo = Top.todo
    <3>1. f.kind = Top.kind /\ f.node = Top.node /\ f.todo = Top.todo
      BY <2>1, Zenon DEF Frame
    <3> QED
      BY <2>1, <3>1, Zenon DEF Frame
  <2>3. stack' = [stack EXCEPT ![Len(stack)] = f]
    BY <1>16, <2>1, Zenon
  <2> HIDE DEF f
  <2> DEFINE r == [stack EXCEPT ![Len(stack)] = f]
  <2>4. Ordered(r) /\ TodoOf(r) = TodoOf(stack)
    <3>1. f.kind = Last(stack).kind /\ f.node = Last(stack).node /\ f.todo = Last(stack).todo
      BY <2>1, <2>2, Zenon
    <3>2. f.todo \subseteq Last(stack).todo
      BY <3>1, Zenon
    <3> QED
      BY <1>3, <2>1, <2>2, <3>1, <3>2, OrderedTop
  <2>5. stack' = r
    BY <2>3
  <2> HIDE DEF r
  <2>6. Ordered(stack') /\ TodoOf(stack') = TodoOf(stack)
    BY <2>4, <2>5, Zenon
  <2> QED
    BY <1>16, <2>6, SameNews DEF graph
<1>17. CASE PauseTracking
  BY <1>16, <1>17, Zenon DEF PauseTracking
<1>18. CASE ResetTracking
  BY <1>16, <1>18, Zenon DEF ResetTracking
<1>19. CASE Throw
  BY <1>19, Zenon DEF Throw, Tame
<1>20. CASE UNCHANGED vars
  BY <1>3, <1>20, SameNews DEF vars, graph, tracking
<1> QED
  BY <1>4, <1>5, <1>6, <1>7, <1>8, <1>9, <1>10, <1>11, <1>12, <1>13, <1>14, <1>15, <1>17,
     <1>18, <1>19, <1>20, Zenon DEF Next

LEMMA CurrentInit == Init => CInv
<1> SUFFICES ASSUME Init PROVE CInv
  OBVIOUS
<1>1. IInv /\ Following /\ lost = 0 /\ OnlyActive
  BY InvInit, FollowingInit, ActiveInit DEF Init
<1>2. stack = << >> /\ stale = {} /\ dirty = {} /\ effectStack = << >>
      /\ reads = [n \in Nodes |-> {}] /\ deps = [n \in Nodes |-> {}]
  BY DEF Init
<1>3. Ordered(stack)
  BY <1>2 DEF Ordered
<1>4. Running = {} /\ \A n \in Nodes : reads[n] = {} /\ deps[n] = {}
  BY <1>2 DEF Running, ToSet
<1>5. Active \subseteq Nodes /\ Comps \subseteq Nodes
  BY DEF Active, Nodes
<1>6. Data
  BY <1>2, <1>4, <1>5, Zenon DEF Data, Known, Subscribed, SeesClean, DirtyTold, StaleCaught
<1> QED
  BY <1>1, <1>3, <1>6 DEF CInv

\* With no loop of trigger() on the stack there is nothing it has still to run.
LEMMA NoLoops ==
  ASSUME CInv, \A i \in DOMAIN stack : stack[i].kind # "trigger" PROVE TodoOf(stack) = {}
BY DEF CInv, Ordered, TodoOf

\* At rest, every active effect has run since the last write of anything its
\* last run depended on, or its scheduler has it queued: no order in which
\* trigger() runs what it collected, no nesting of runs and no pause of tracking
\* loses a write.
THEOREM EffectsFollowWrites == ASSUME Tame PROVE Spec => []EffectsCurrent
<1>1. CInv => EffectsCurrent
  <2> SUFFICES ASSUME CInv, stack = << >>, NEW n \in Effs, n \in stale PROVE n \in queued
    BY DEF EffectsCurrent
  <2>1. TodoOf(stack) = {}
    BY NoLoops
  <2>2. n \in queued \cup dirty
    BY <2>1, Quiet, Setting DEF CInv
  <2>3. n \notin dirty
    BY Setting, NodesAssumption DEF DataTyped
  <2> QED
    BY <2>2, <2>3
<1> QED
  BY <1>1, CurrentInit, CurrentStep, PTL DEF Spec

\* Code that runs outside the loops of trigger() never gets an outdated value
\* of a computed: a computed that is not dirty has its last value.
THEOREM ComputedsAreFresh == ASSUME Tame PROVE Spec => []FreshOutsideTrigger
<1>1. CInv => FreshOutsideTrigger
  <2> SUFFICES ASSUME CInv, \A i \in DOMAIN stack : stack[i].kind # "trigger",
                      NEW c \in Comps, c \notin dirty
               PROVE  c \notin stale
    BY DEF FreshOutsideTrigger
  <2>1. TodoOf(stack) = {}
    BY NoLoops
  <2>2. stale \subseteq queued \cup dirty
    BY <2>1, Quiet, Setting DEF CInv
  <2>3. c \notin queued
    BY Setting DEF DataTyped
  <2> QED
    BY <2>2, <2>3
<1> QED
  BY <1>1, CurrentInit, CurrentStep, PTL DEF Spec
================================================================================
