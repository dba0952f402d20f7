---------------------------- MODULE SchedulerProofs ----------------------------
(***************************************************************************)
(* Theorems about Scheduler, for all jobs, callbacks, ids and bounds.      *)
(***************************************************************************)
EXTENDS Scheduler, SequenceTheorems, TLAPS

--------------------------------------------------------------------------------
(* Facts about the operators on frames and sequences the actions use. *)

\* Changing the top of a stack keeps its length and the frames below.
LEMMA TopChanged ==
  ASSUME NEW s \in Seq(Frame), s # << >>, NEW f \in Frame
  PROVE  LET r == [s EXCEPT ![Len(s)] = f] IN
         /\ r \in Seq(Frame) /\ Len(r) = Len(s) /\ r # << >>
         /\ r[Len(s)] = f
         /\ \A i \in 1..Len(s) : i # Len(s) => r[i] = s[i]
BY SMT

\* Popping a stack keeps the frames below.
LEMMA Popped ==
  ASSUME NEW s \in Seq(Frame), s # << >>
  PROVE  /\ Front(s) \in Seq(Frame) /\ Len(Front(s)) = Len(s) - 1
         /\ \A i \in 1..(Len(s) - 1) : Front(s)[i] = s[i]
<1> DEFINE n == Len(s) - 1
           t == SubSeq(s, 1, n)
<1>1. n \in Nat /\ n \in Int /\ 1 \in Int /\ \A i \in 1..n : s[i] \in Frame
  BY SMT
<1>2. Front(s) = t
  BY DEF Front
<1> HIDE DEF n
<1>3. /\ t \in Seq(Frame) /\ Len(t) = IF 1 <= n THEN n - 1 + 1 ELSE 0
      /\ \A i \in 1..(n - 1 + 1) : t[i] = s[1 + i - 1]
  BY <1>1, SubSeqProperties
<1> HIDE DEF t
<1>4. t \in Seq(Frame) /\ Len(t) = n /\ \A i \in 1..n : t[i] = s[i]
  <2>1. /\ n - 1 + 1 = n /\ (IF 1 <= n THEN n - 1 + 1 ELSE 0) = n
        /\ \A i \in 1..n : 1 + i - 1 = i
    BY <1>1, SMT
  <2> QED
    BY <1>3, <2>1, SMT
<1> QED
  BY <1>2, <1>4 DEF n

LEMMA Pushed ==
  ASSUME NEW s \in Seq(Frame), NEW f \in Frame
  PROVE  /\ Append(s, f) \in Seq(Frame) /\ Len(Append(s, f)) = Len(s) + 1
         /\ \A i \in 1..Len(s) : Append(s, f)[i] = s[i]
         /\ Append(s, f)[Len(s) + 1] = f
BY SMT

\* The frames the actions build are frames.
LEMMA LoopFrameType ==
  ASSUME NEW kind \in Loops, NEW cbs \in Seq(Cbs), NEW seen \in Counts
  PROVE  LoopFrame(kind, cbs, seen) \in Frame
BY LimitAssumption, SMT DEF LoopFrame, Frame

LEMMA FrameFields ==
  ASSUME NEW f \in Frame
  PROVE  f.todo \in Seq(Cbs) /\ f.seen \in Counts
BY Zenon DEF Frame

LEMMA FrameTodo ==
  ASSUME NEW f \in Frame, NEW cbs \in Seq(Cbs)
  PROVE  /\ [f EXCEPT !.todo = cbs] \in Frame
         /\ [f EXCEPT !.todo = cbs].at = f.at
         /\ [f EXCEPT !.todo = cbs].todo = cbs
BY Zenon DEF Frame

LEMMA PostsFrame ==
  ASSUME NEW f \in Frame, NEW cbs \in Seq(Cbs)
  PROVE  LET g == [f EXCEPT !.at = "posts", !.todo = cbs] IN
         g \in Frame /\ g.at = "posts" /\ g.todo = cbs
<1> DEFINE g == [f EXCEPT !.at = "posts", !.todo = cbs]
<1>1. "posts" \in Loops \cup UserKinds
  BY DEF Loops
<1>2. [f EXCEPT !.at = "posts"] \in Frame
  BY <1>1, Zenon DEF Frame
<1>3. g = [[f EXCEPT !.at = "posts"] EXCEPT !.todo = cbs]
  OBVIOUS
<1>4. g \in Frame /\ g.todo = cbs
  BY <1>2, <1>3, FrameTodo
<1>5. g.at = "posts"
  BY <1>2, <1>3, FrameTodo, Zenon DEF Frame
<1> QED
  BY <1>4, <1>5

LEMMA NoRunsType == NoRuns \in Counts
BY LimitAssumption, SMT DEF NoRuns, Counts

LEMMA CodeFrameType ==
  ASSUME NEW kind \in UserKinds, NEW f \in Code \cup Ticks
  PROVE  CodeFrame(kind, f) \in Frame
BY LimitAssumption, NoRunsType, SMT DEF CodeFrame, Frame

LEMMA CountedType ==
  ASSUME NEW seen \in Counts, NEW f \in Code, ~Exceeded(seen, f)
  PROVE  Counted(seen, f) \in Counts
BY LimitAssumption, FlagsAssumption, SMT DEF Counts, Counted, Exceeded

LEMMA SortedType ==
  ASSUME NEW q \in Seq(Jobs \cup {Null}), NEW s \in Sorted(q)
  PROVE  s \in Seq(Jobs \cup {Null}) /\ Len(s) = Len(q) /\ ToSet(s) = ToSet(q)
<1>1. s \in [1..Len(q) -> ToSet(q)] /\ \A x \in ToSet(q) : \E i \in 1..Len(q) : s[i] = x
  BY DEF Sorted, Bijection, Injection, Surjection
<1>2. ToSet(q) \subseteq Jobs \cup {Null} /\ Len(q) \in Nat
  BY SMT DEF ToSet
<1>3. s \in Seq(Jobs \cup {Null}) /\ Len(s) = Len(q)
  BY <1>1, <1>2, SMT
<1>4. ToSet(s) = ToSet(q)
  BY <1>1, Zenon DEF ToSet
<1> QED
  BY <1>3, <1>4

LEMMA DeduplicatedType ==
  ASSUME NEW cbs \in Seq(Cbs), NEW s \in Deduplicated(cbs)
  PROVE  s \in Seq(Cbs) /\ ToSet(s) = ToSet(cbs)
<1>1. PICK m \in 0..Len(cbs) : s \in [1..m -> ToSet(cbs)]
  BY Zenon DEF Deduplicated, SeqOf
<1>2. ToSet(cbs) \subseteq Cbs
  BY SMT DEF ToSet
<1>3. s \in Seq(Cbs)
  BY <1>1, <1>2, SMT
<1> QED
  BY <1>3, Zenon DEF Deduplicated

--------------------------------------------------------------------------------
(* What user code, which may run anything, does to the stack. *)

\* A call of user code changes no frame's kind.
LEMMA ChargedStack ==
  ASSUME TypeOK, UserCode
  PROVE  /\ Charged \in Seq(Frame) /\ Len(Charged) = Len(stack)
         /\ \A i \in 1..Len(stack) : /\ Charged[i].at = stack[i].at
                                     /\ Charged[i].todo = stack[i].todo
<1>1. CASE stack = << >>
  BY <1>1, SMT DEF Charged, TypeOK
<1>2. CASE stack # << >>
  <2> DEFINE f == [Top EXCEPT !.calls = @ + 1]
  <2>1. Top \in Frame /\ Top = stack[Len(stack)] /\ Top.calls < MaxCalls
    BY <1>2, SMT DEF TypeOK, Top, Last, UserCode, At
  <2>2. f \in Frame /\ f.at = Top.at /\ f.todo = Top.todo
    BY <2>1, LimitAssumption, SMT DEF Frame
  <2>3. Charged = [stack EXCEPT ![Len(stack)] = f]
    BY <1>2 DEF Charged, WithTop
  <2> HIDE DEF f
  <2>4. /\ Charged \in Seq(Frame) /\ Len(Charged) = Len(stack)
        /\ Charged[Len(stack)] = f
        /\ \A i \in 1..Len(stack) : i # Len(stack) => Charged[i] = stack[i]
    BY <1>2, <2>2, <2>3, TopChanged DEF TypeOK
  <2> QED
    BY <2>1, <2>2, <2>4
<1> QED
  BY <1>1, <1>2

\* An exception leaves an empty stack or the frame of the job loop.
LEMMA UnwoundStack ==
  ASSUME TypeOK
  PROVE  /\ Unwound \in Seq(Frame)
         /\ \/ Unwound = << >>
            \/ /\ stack # << >> /\ stack[1].at = "jobs"
               /\ Unwound = << stack[1] >>
BY SMT DEF TypeOK, Unwound

\* One turn of a loop leaves the stack unwound, or the loop under the code it
\* called.
LEMMA CalledStack ==
  ASSUME TypeOK, stack # << >>,
         NEW kind \in UserKinds, NEW f \in Code, NEW loop \in Frame,
         loop.at = Top.at, Call(kind, loop, f)
  PROVE  /\ stack' \in Seq(Frame)
         /\ owed' \in [Ticks -> SUBSET Code]
         /\ \/ Dev /\ stack' = Unwound
            \/ /\ Len(stack') = Len(stack) + 1
               /\ stack'[Len(stack) + 1].at = kind
               /\ \A i \in 1..Len(stack) : stack'[i].at = stack[i].at
<1>1. CASE Exceeded(loop.seen, f)
  BY <1>1, UnwoundStack DEF Call, Exceeded, TypeOK
<1>2. CASE ~Exceeded(loop.seen, f)
  <2> DEFINE g == [loop EXCEPT !.seen = Counted(loop.seen, f)]
             c == CodeFrame(kind, f)
             r == [stack EXCEPT ![Len(stack)] = g]
  <2>1. loop.seen \in Counts
    BY SMT DEF Frame
  <2>2. Counted(loop.seen, f) \in Counts
    BY <1>2, <2>1, CountedType
  <2>3. g \in Frame /\ g.at = Top.at
    BY <2>2, SMT DEF Frame
  <2>4. c \in Frame
    BY CodeFrameType
  <2>5. c.at = kind
    BY DEF CodeFrame
  <2>6. stack' = Append(r, c)
    BY <1>2 DEF Call, WithTop
  <2>7. owed' \in [Ticks -> SUBSET Code]
    BY <1>2, SMT DEF Call, TypeOK
  <2> HIDE DEF g, c
  <2>8. /\ r \in Seq(Frame) /\ Len(r) = Len(stack) /\ r[Len(stack)] = g
        /\ \A i \in 1..Len(stack) : i # Len(stack) => r[i] = stack[i]
    BY <2>3, TopChanged DEF TypeOK
  <2> HIDE DEF r
  <2>9. /\ Append(r, c) \in Seq(Frame) /\ Len(Append(r, c)) = Len(stack) + 1
        /\ \A i \in 1..Len(stack) : Append(r, c)[i] = r[i]
        /\ Append(r, c)[Len(stack) + 1] = c
    BY <2>4, <2>8, Pushed
  <2>10. \A i \in 1..Len(stack) : r[i].at = stack[i].at
    BY <2>3, <2>8 DEF Top, Last
  <2> QED
    BY <2>5, <2>6, <2>7, <2>9, <2>10
<1> QED
  BY <1>1, <1>2

--------------------------------------------------------------------------------
(* Type correctness. *)

LEMMA TypeInit == Init => TypeOK
<1> SUFFICES ASSUME Init PROVE TypeOK
  OBVIOUS
<1>1. isFlushing \in BOOLEAN /\ isFlushPending \in BOOLEAN
  BY Zenon DEF Init
<1>2. /\ queue \in Seq(Jobs \cup {Null}) /\ postFlushCbs \in Seq(Cbs)
      /\ microtasks \in Seq(Ticks \cup {FlushTask}) /\ stack \in Seq(Frame)
      /\ batch \in Nat /\ owed \in [Ticks -> SUBSET Code]
  BY SMT DEF Init
<1> QED
  BY <1>1, <1>2 DEF TypeOK

\* queueFlush keeps the types of what it changes.
LEMMA QueueFlushType ==
  ASSUME TypeOK, QueueFlush
  PROVE  /\ isFlushPending' \in BOOLEAN
         /\ microtasks' \in Seq(Ticks \cup {FlushTask})
<1>1. isFlushPending' \in BOOLEAN
  BY Zenon DEF TypeOK, QueueFlush
<1>2. microtasks' = microtasks \/ microtasks' = Append(microtasks, FlushTask)
  BY Zenon DEF QueueFlush
<1>3. Append(microtasks, FlushTask) \in Seq(Ticks \cup {FlushTask})
  BY AppendProperties DEF TypeOK
<1> QED
  BY <1>1, <1>2, <1>3 DEF TypeOK

\* The head of flushJobs keeps the types.
LEMMA EnterFlushType ==
  ASSUME TypeOK, NEW seen \in Counts, EnterFlush(seen)
  PROVE  /\ queue' \in Seq(Jobs \cup {Null})
         /\ isFlushing' \in BOOLEAN /\ isFlushPending' \in BOOLEAN
         /\ stack' \in Seq(Frame) /\ batch' \in Nat
<1>1. CASE SortThrows(queue)
  BY <1>1, EmptySeq DEF EnterFlush, TypeOK
<1>2. CASE ~SortThrows(queue)
  <2>1. queue' \in Sorted(queue)
    BY <1>2 DEF EnterFlush
  <2>2. queue' \in Seq(Jobs \cup {Null})
    BY <2>1, SortedType DEF TypeOK
  <2>3. << >> \in Seq(Cbs) /\ "jobs" \in Loops
    BY SMT DEF Loops
  <2>4. LoopFrame("jobs", << >>, seen) \in Frame
    BY <2>3, LoopFrameType
  <2>5. << LoopFrame("jobs", << >>, seen) >> \in Seq(Frame)
    BY <2>4, SMT
  <2>6. stack' = << LoopFrame("jobs", << >>, seen) >>
    BY <1>2 DEF EnterFlush
  <2>7. batch' \in Nat
    BY <1>2, SMT DEF EnterFlush, TypeOK
  <2> QED
    BY <1>2, <2>2, <2>5, <2>6, <2>7 DEF EnterFlush
<1> QED
  BY <1>1, <1>2

LEMMA TypeStep == TypeOK /\ [Next]_vars => TypeOK'
<1> SUFFICES ASSUME TypeOK, [Next]_vars PROVE TypeOK'
  OBVIOUS
<1> USE DEF TypeOK
<1>1. ASSUME NEW j \in Jobs, QueueJob(j) PROVE TypeOK'
  <2>1. stack' \in Seq(Frame)
    BY <1>1, ChargedStack DEF QueueJob
  <2>2. queue' \in Seq(Jobs \cup {Null})
    BY <1>1, SMT DEF QueueJob
  <2>3. isFlushPending' \in BOOLEAN /\ microtasks' \in Seq(Ticks \cup {FlushTask})
    BY <1>1, QueueFlushType DEF QueueJob
  <2> QED
    BY <1>1, <2>1, <2>2, <2>3 DEF QueueJob
<1>2. ASSUME NEW j \in Jobs, InvalidateJob(j) PROVE TypeOK'
  <2>1. stack' \in Seq(Frame)
    BY <1>2, ChargedStack DEF InvalidateJob
  <2>2. queue' \in Seq(Jobs \cup {Null})
    BY <1>2, SMT DEF InvalidateJob
  <2>3. owed' \in [Ticks -> SUBSET Code]
    BY <1>2, SMT DEF InvalidateJob
  <2> QED
    BY <1>2, <2>1, <2>2, <2>3 DEF InvalidateJob
<1>3. ASSUME NEW cbs \in CbArrays, QueuePostFlushCb(cbs) PROVE TypeOK'
  <2>1. stack' \in Seq(Frame)
    BY <1>3, ChargedStack DEF QueuePostFlushCb
  <2>2. postFlushCbs' \in Seq(Cbs)
    BY <1>3, CbArraysAssumption, ConcatProperties DEF QueuePostFlushCb
  <2>3. isFlushPending' \in BOOLEAN /\ microtasks' \in Seq(Ticks \cup {FlushTask})
    BY <1>3, QueueFlushType DEF QueuePostFlushCb
  <2> QED
    BY <1>3, <2>1, <2>2, <2>3 DEF QueuePostFlushCb
<1>4. ASSUME NEW t \in Ticks, NextTick(t) PROVE TypeOK'
  <2>1. stack' \in Seq(Frame)
    BY <1>4, ChargedStack DEF NextTick
  <2>2. Pending \subseteq Code
    <3>1. ToSet(queue) \ {Null} \subseteq Code
      BY SMT DEF ToSet, Code
    <3>2. ToSet(postFlushCbs) \subseteq Code
      BY SMT DEF ToSet, Code
    <3>3. \A i \in DOMAIN stack : ToSet(stack[i].todo) \subseteq Code
      <4>1. \A i \in DOMAIN stack : stack[i].todo \in Seq(Cbs)
        BY FrameFields, SMT
      <4> QED
        BY <4>1, SMT DEF ToSet, Code
    <3> QED
      BY <3>1, <3>2, <3>3, Zenon DEF Pending
  <2>3. owed' \in [Ticks -> SUBSET Code]
    BY <1>4, <2>2, SMT DEF NextTick
  <2>4. microtasks' \in Seq(Ticks \cup {FlushTask})
    BY <1>4, SMT DEF NextTick
  <2> QED
    BY <1>4, <2>1, <2>3, <2>4 DEF NextTick
<1>5. ASSUME RenderFlush PROVE TypeOK'
  <2>1. PICK cbs \in Deduplicated(postFlushCbs) :
          stack' = Append(Charged, LoopFrame("render", cbs, NoRuns))
    BY <1>5 DEF RenderFlush
  <2>2. LoopFrame("render", cbs, NoRuns) \in Frame
    <3>1. cbs \in Seq(Cbs)
      BY <2>1, DeduplicatedType
    <3>2. "render" \in Loops
      BY DEF Loops
    <3> QED
      BY <3>1, <3>2, NoRunsType, LoopFrameType
  <2>3. Charged \in Seq(Frame)
    BY <1>5, ChargedStack DEF RenderFlush
  <2>4. stack' \in Seq(Frame)
    BY <2>1, <2>2, <2>3, Pushed
  <2>5. postFlushCbs' \in Seq(Cbs)
    BY <1>5, SMT DEF RenderFlush
  <2> QED
    BY <1>5, <2>4, <2>5 DEF RenderFlush
<1>6. ASSUME FlushJobs PROVE TypeOK'
  <2>1. microtasks' \in Seq(Ticks \cup {FlushTask})
    BY <1>6, SMT DEF FlushJobs
  <2>2. EnterFlush(NoRuns)
    BY <1>6 DEF FlushJobs
  <2> QED
    BY <1>6, <2>1, <2>2, NoRunsType, EnterFlushType DEF FlushJobs
<1>7. ASSUME SkipInvalidated PROVE TypeOK'
  BY <1>7, SMT DEF SkipInvalidated, Shift
<1>8. ASSUME RunJob PROVE TypeOK'
  <2>1. /\ stack # << >> /\ Top \in Frame
        /\ Head(queue) \in Code /\ "job" \in UserKinds
        /\ Call("job", Top, Head(queue))
    BY <1>8, SMT DEF RunJob, At, Top, Last, Code, UserKinds
  <2>2. stack' \in Seq(Frame) /\ owed' \in [Ticks -> SUBSET Code]
    BY <2>1, CalledStack
  <2>3. queue' \in Seq(Jobs \cup {Null}) /\ batch' \in Nat
    BY <1>8, SMT DEF RunJob, Shift
  <2> QED
    BY <1>8, <2>2, <2>3 DEF RunJob
<1>9. ASSUME EnterPosts PROVE TypeOK'
  <2>1. PICK cbs \in Deduplicated(postFlushCbs) :
          stack' = WithTop([Top EXCEPT !.at = "posts", !.todo = cbs])
    BY <1>9 DEF EnterPosts
  <2>2. stack # << >> /\ Top \in Frame
    BY <1>9, SMT DEF EnterPosts, At, Top, Last
  <2>3. cbs \in Seq(Cbs)
    BY <2>1, DeduplicatedType
  <2>4. [Top EXCEPT !.at = "posts", !.todo = cbs] \in Frame
    BY <2>2, <2>3, PostsFrame
  <2>5. stack' \in Seq(Frame)
    BY <2>1, <2>2, <2>4, TopChanged DEF WithTop
  <2>6. postFlushCbs' \in Seq(Cbs)
    BY <1>9, SMT DEF EnterPosts
  <2> QED
    BY <1>9, <2>5, <2>6 DEF EnterPosts
<1>10. ASSUME RunPost PROVE TypeOK'
  <2> DEFINE loop == [Top EXCEPT !.todo = Tail(Top.todo)]
  <2>1. /\ stack # << >> /\ Top \in Frame /\ Top.todo # << >>
        /\ Call("cb", loop, Head(Top.todo))
    BY <1>10, SMT DEF RunPost, At, Top, Last
  <2>2. Top.todo \in Seq(Cbs)
    BY <2>1, SMT DEF Frame
  <2>3. Tail(Top.todo) \in Seq(Cbs) /\ Head(Top.todo) \in Code
    BY <2>1, <2>2, SMT DEF Code
  <2>4. loop \in Frame /\ loop.at = Top.at
    BY <2>1, <2>3, FrameTodo
  <2>5. "cb" \in UserKinds
    BY DEF UserKinds
  <2> HIDE DEF loop
  <2>6. stack' \in Seq(Frame) /\ owed' \in [Ticks -> SUBSET Code]
    BY <2>1, <2>3, <2>4, <2>5, CalledStack
  <2> QED
    BY <1>10, <2>6 DEF RunPost
<1>11. ASSUME EndRender PROVE TypeOK'
  BY <1>11, Popped DEF EndRender, At
<1>12. ASSUME EndFlush PROVE TypeOK'
  <2>1. Top \in Frame
    BY <1>12, SMT DEF EndFlush, At, Top, Last
  <2>2. CASE EnterFlush(Top.seen)
    BY <1>12, <2>1, <2>2, FrameFields, EnterFlushType DEF EndFlush
  <2>3. CASE ~EnterFlush(Top.seen)
    BY <1>12, <2>3, EmptySeq DEF EndFlush
  <2> QED
    BY <2>2, <2>3
<1>13. ASSUME RunTick PROVE TypeOK'
  <2>1. Head(microtasks) \in Code \cup Ticks
    BY <1>13, SMT DEF RunTick
  <2>2. "tick" \in UserKinds
    BY DEF UserKinds
  <2>3. CodeFrame("tick", Head(microtasks)) \in Frame
    BY <2>1, <2>2, CodeFrameType
  <2>4. stack' \in Seq(Frame)
    BY <1>13, <2>3, SMT DEF RunTick
  <2>5. microtasks' \in Seq(Ticks \cup {FlushTask})
    BY <1>13, SMT DEF RunTick
  <2> QED
    BY <1>13, <2>4, <2>5 DEF RunTick
<1>14. ASSUME Return PROVE TypeOK'
  BY <1>14, Popped DEF Return, At
<1>15. ASSUME Throw PROVE TypeOK'
  BY <1>15, UnwoundStack DEF Throw
<1>16. ASSUME UNCHANGED vars PROVE TypeOK'
  BY <1>16 DEF vars
<1> QED
  BY <1>1, <1>2, <1>3, <1>4, <1>5, <1>6, <1>7, <1>8, <1>9, <1>10, <1>11, <1>12,
     <1>13, <1>14, <1>15, <1>16 DEF Next, Calls, Steps

\* Every reachable state has the types of the source: in particular a flush
\* never counts a run past RECURSION_LIMIT + 1.
THEOREM TypeCorrect == Spec => []TypeOK
<1>1. Init => TypeOK
  BY TypeInit
<1>2. TypeOK /\ [Next]_vars => TypeOK'
  BY TypeStep
<1> QED
  BY <1>1, <1>2, PTL DEF Spec

--------------------------------------------------------------------------------
(***************************************************************************)
(* SingleFlush.  It is inductive together with TypeOK: the two flags, the  *)
(* microtasks and the place of the flush frame support each other.         *)
(***************************************************************************)

\* queueFlush adds the microtask only if there is none, and no flush runs.
LEMMA QueueFlushSingle ==
  ASSUME TypeOK, SingleFlush, QueueFlush, isFlushing' = isFlushing,
         FlushActive' => FlushActive,
         \A i \in DOMAIN stack' : stack'[i].at \in {"jobs", "posts"} => i = 1
  PROVE  SingleFlush'
<1>1. CASE ~isFlushing /\ ~isFlushPending
  <2>1. isFlushPending' = TRUE /\ microtasks' = Append(microtasks, FlushTask)
    BY <1>1 DEF QueueFlush
  <2>2. \A i \in DOMAIN microtasks : microtasks[i] # FlushTask
    BY <1>1 DEF SingleFlush, ToSet
  <2>3. /\ DOMAIN microtasks' = 1..(Len(microtasks) + 1)
        /\ DOMAIN microtasks = 1..Len(microtasks)
        /\ Len(microtasks) \in Nat
        /\ \A i \in 1..Len(microtasks) : microtasks'[i] = microtasks[i]
        /\ microtasks'[Len(microtasks) + 1] = FlushTask
    BY <2>1, SMT DEF TypeOK
  <2>4. \A i \in DOMAIN microtasks' :
          microtasks'[i] = FlushTask => i = Len(microtasks) + 1
    BY <2>2, <2>3, SMT
  <2>5. FlushTask \in ToSet(microtasks')
    BY <2>3, SMT DEF ToSet
  <2>6. ~FlushActive
    BY <1>1 DEF SingleFlush
  <2> QED
    BY <1>1, <2>1, <2>4, <2>5, <2>6 DEF SingleFlush
<1>2. CASE ~(~isFlushing /\ ~isFlushPending)
  BY <1>2, Zenon DEF QueueFlush, SingleFlush
<1> QED
  BY <1>1, <1>2

\* A step that leaves flags and microtasks alone, and keeps the flush frame
\* where it was or removes it.
LEMMA StackSingle ==
  ASSUME SingleFlush, UNCHANGED << isFlushing, isFlushPending, microtasks >>,
         FlushActive' => FlushActive,
         \A i \in DOMAIN stack' : stack'[i].at \in {"jobs", "posts"} => i = 1
  PROVE  SingleFlush'
BY Zenon DEF SingleFlush

\* What Head and Tail select.
LEMMA TailSet ==
  ASSUME NEW S, NEW s \in Seq(S), s # << >>
  PROVE  /\ DOMAIN Tail(s) = 1..(Len(s) - 1) /\ Len(s) \in Nat /\ Len(s) > 0
         /\ DOMAIN s = 1..Len(s) /\ Head(s) = s[1]
         /\ \A i \in 1..(Len(s) - 1) : Tail(s)[i] = s[i + 1]
BY SMT

\* Charged keeps the place of the flush frame.
LEMMA ChargedSingle ==
  ASSUME TypeOK, SingleFlush, UserCode, stack' = Charged
  PROVE  /\ FlushActive' => FlushActive
         /\ \A i \in DOMAIN stack' : stack'[i].at \in {"jobs", "posts"} => i = 1
<1>1. /\ Charged \in Seq(Frame) /\ Len(Charged) = Len(stack)
      /\ \A i \in 1..Len(stack) : Charged[i].at = stack[i].at
  BY ChargedStack
<1>2. DOMAIN stack = 1..Len(stack) /\ DOMAIN stack' = 1..Len(stack)
  BY <1>1, SMT DEF TypeOK
<1>3. stack' # << >> => stack # << >> /\ 1 \in 1..Len(stack)
  BY <1>1, SMT DEF TypeOK
<1> QED
  BY <1>1, <1>2, <1>3, Zenon DEF SingleFlush, FlushActive

\* A frame of one of the two loops of flushJobs is alone on the stack when it
\* is on top, so the flags say that a flush runs.
LEMMA FlushOnTop ==
  ASSUME TypeOK, SingleFlush, At({"jobs", "posts"})
  PROVE  /\ Len(stack) = 1 /\ stack # << >> /\ stack[1] = Top /\ FlushActive
         /\ isFlushing /\ ~isFlushPending
<1>1. stack # << >> /\ Len(stack) \in DOMAIN stack /\ Top = stack[Len(stack)]
  BY SMT DEF TypeOK, At, Top, Last
<1>2. Len(stack) = 1
  BY <1>1 DEF SingleFlush, At
<1> QED
  BY <1>1, <1>2 DEF SingleFlush, FlushActive, At

\* Entering a flush that isFlushing does not forbid, with no flush microtask.
LEMMA EnterFlushSingle ==
  ASSUME NEW seen, EnterFlush(seen), FlushTask \notin ToSet(microtasks')
  PROVE  SingleFlush'
<1>1. isFlushPending' = FALSE /\ isFlushing' = TRUE
  BY DEF EnterFlush
<1>2. \A i \in DOMAIN stack' : i = 1
  <2>1. stack' = << >> \/ stack' = << LoopFrame("jobs", << >>, seen) >>
    BY Zenon DEF EnterFlush
  <2> QED
    BY <2>1, SMT
<1>3. \A i \in DOMAIN microtasks' : microtasks'[i] # FlushTask
  BY DEF ToSet
<1> QED
  BY <1>1, <1>2, <1>3, Zenon DEF SingleFlush

\* One turn of a loop keeps the place of the flush frame.
LEMMA CalledSingle ==
  ASSUME TypeOK, SingleFlush, stack # << >>,
         NEW kind \in UserKinds, NEW f \in Code, NEW loop \in Frame,
         loop.at = Top.at, Call(kind, loop, f)
  PROVE  /\ FlushActive' => FlushActive
         /\ \A i \in DOMAIN stack' : stack'[i].at \in {"jobs", "posts"} => i = 1
<1>1. stack' \in Seq(Frame)
  BY CalledStack
<1>2. CASE stack' = Unwound
  BY <1>2, UnwoundStack, SMT DEF FlushActive
<1>3. CASE /\ Len(stack') = Len(stack) + 1
           /\ stack'[Len(stack) + 1].at = kind
           /\ \A i \in 1..Len(stack) : stack'[i].at = stack[i].at
  <2>1. kind \notin {"jobs", "posts"}
    BY DEF UserKinds
  <2>2. /\ DOMAIN stack' = 1..(Len(stack) + 1) /\ DOMAIN stack = 1..Len(stack)
        /\ 1 \in 1..Len(stack) /\ Len(stack) \in Nat
    BY <1>1, <1>3, SMT DEF TypeOK
  <2>3. \A i \in 1..(Len(stack) + 1) : i \in 1..Len(stack) \/ i = Len(stack) + 1
    BY <2>2, SMT
  <2> QED
    BY <1>3, <2>1, <2>2, <2>3, Zenon DEF SingleFlush, FlushActive
<1> QED
  BY <1>2, <1>3, CalledStack

\* Popping a frame keeps the place of the flush frame.
LEMMA PoppedSingle ==
  ASSUME TypeOK, SingleFlush, stack # << >>, stack' = Front(stack)
  PROVE  /\ FlushActive' => FlushActive
         /\ \A i \in DOMAIN stack' : stack'[i].at \in {"jobs", "posts"} => i = 1
<1>1. /\ stack' \in Seq(Frame) /\ Len(stack') = Len(stack) - 1
      /\ \A i \in 1..(Len(stack) - 1) : stack'[i] = stack[i]
  BY Popped DEF TypeOK
<1>2. /\ DOMAIN stack' = 1..(Len(stack) - 1) /\ DOMAIN stack = 1..Len(stack)
      /\ \A i \in 1..(Len(stack) - 1) : i \in 1..Len(stack)
      /\ stack' # << >> => 1 \in 1..(Len(stack) - 1)
  BY <1>1, SMT DEF TypeOK
<1> QED
  BY <1>1, <1>2, Zenon DEF SingleFlush, FlushActive

\* An exception keeps the place of the flush frame or removes it.
LEMMA UnwoundSingle ==
  ASSUME TypeOK, stack' = Unwound
  PROVE  /\ FlushActive' => FlushActive
         /\ \A i \in DOMAIN stack' : stack'[i].at \in {"jobs", "posts"} => i = 1
BY UnwoundStack, SMT DEF FlushActive

LEMMA SingleInit == Init => SingleFlush
<1> SUFFICES ASSUME Init PROVE SingleFlush
  OBVIOUS
<1>1. DOMAIN stack = {} /\ DOMAIN microtasks = {} /\ stack = << >>
  BY SMT DEF Init
<1>2. isFlushing = FALSE /\ isFlushPending = FALSE
  BY DEF Init
<1> QED
  BY <1>1, <1>2, Zenon DEF SingleFlush, FlushActive, ToSet

LEMMA SingleStep == TypeOK /\ SingleFlush /\ [Next]_vars => SingleFlush'
<1> SUFFICES ASSUME TypeOK, SingleFlush, [Next]_vars PROVE SingleFlush'
  OBVIOUS
<1>1. ASSUME NEW j \in Jobs, QueueJob(j) PROVE SingleFlush'
  BY <1>1, ChargedSingle, QueueFlushSingle DEF QueueJob
<1>2. ASSUME NEW j \in Jobs, InvalidateJob(j) PROVE SingleFlush'
  BY <1>2, ChargedSingle, StackSingle DEF InvalidateJob
<1>3. ASSUME NEW cbs \in CbArrays, QueuePostFlushCb(cbs) PROVE SingleFlush'
  BY <1>3, ChargedSingle, QueueFlushSingle DEF QueuePostFlushCb
<1>4. ASSUME NEW t \in Ticks, NextTick(t) PROVE SingleFlush'
  <2>1. /\ FlushActive' => FlushActive
        /\ \A i \in DOMAIN stack' : stack'[i].at \in {"jobs", "posts"} => i = 1
    BY <1>4, ChargedSingle DEF NextTick
  <2>2. /\ DOMAIN microtasks' = 1..(Len(microtasks) + 1)
        /\ DOMAIN microtasks = 1..Len(microtasks) /\ Len(microtasks) \in Nat
        /\ \A i \in 1..Len(microtasks) : microtasks'[i] = microtasks[i]
        /\ microtasks'[Len(microtasks) + 1] = t
    BY <1>4, SMT DEF TypeOK, NextTick
  <2>3. t # FlushTask
    BY CodeAssumption
  <2>4. \A i \in DOMAIN microtasks' : microtasks'[i] = FlushTask =>
          i \in DOMAIN microtasks /\ microtasks[i] = FlushTask
    BY <2>2, <2>3, SMT
  <2>5. \A i \in DOMAIN microtasks :
          i \in DOMAIN microtasks' /\ microtasks'[i] = microtasks[i]
    BY <2>2, SMT
  <2>6. isFlushing' = isFlushing /\ isFlushPending' = isFlushPending
    BY <1>4 DEF NextTick
  <2>7. FlushTask \in ToSet(microtasks') <=> FlushTask \in ToSet(microtasks)
    BY <2>4, <2>5 DEF ToSet
  <2> QED
    BY <2>1, <2>4, <2>6, <2>7, Zenon DEF SingleFlush
<1>5. ASSUME RenderFlush PROVE SingleFlush'
  <2>1. PICK cbs \in Deduplicated(postFlushCbs) :
          stack' = Append(Charged, LoopFrame("render", cbs, NoRuns))
    BY <1>5 DEF RenderFlush
  <2> DEFINE f == LoopFrame("render", cbs, NoRuns)
  <2>2. f.at = "render"
    BY DEF LoopFrame
  <2>3. /\ Charged \in Seq(Frame) /\ Len(Charged) = Len(stack)
        /\ \A i \in 1..Len(stack) : Charged[i].at = stack[i].at
    BY <1>5, ChargedStack DEF RenderFlush
  <2>4. stack' = Append(Charged, f)
    BY <2>1
  <2> HIDE DEF f
  <2>5. /\ DOMAIN stack' = 1..(Len(stack) + 1) /\ DOMAIN stack = 1..Len(stack)
        /\ \A i \in 1..Len(stack) : stack'[i].at = stack[i].at
        /\ stack'[Len(stack) + 1].at = "render" /\ Len(stack) \in Nat
    BY <2>2, <2>3, <2>4, SMT DEF TypeOK
  <2>6. \A i \in 1..(Len(stack) + 1) : i \in 1..Len(stack) \/ i = Len(stack) + 1
    BY <2>5, SMT
  <2>7. \A i \in DOMAIN stack' : stack'[i].at \in {"jobs", "posts"} => i = 1
    BY <2>5, <2>6, Zenon DEF SingleFlush
  <2>8. FlushActive' => FlushActive
    <3>1. CASE stack = << >>
      BY <3>1, <2>5, SMT DEF FlushActive
    <3>2. CASE stack # << >>
      BY <3>2, <2>5, SMT DEF FlushActive, TypeOK
    <3> QED
      BY <3>1, <3>2
  <2> QED
    BY <1>5, <2>7, <2>8, StackSingle DEF RenderFlush
<1>6. ASSUME FlushJobs PROVE SingleFlush'
  <2>1. /\ DOMAIN microtasks' = 1..(Len(microtasks) - 1)
        /\ DOMAIN microtasks = 1..Len(microtasks)
        /\ Len(microtasks) \in Nat /\ Len(microtasks) > 0
        /\ microtasks[1] = FlushTask
        /\ \A i \in 1..(Len(microtasks) - 1) : microtasks'[i] = microtasks[i + 1]
    BY <1>6, TailSet DEF TypeOK, FlushJobs
  <2>2. \A i \in DOMAIN microtasks' : microtasks'[i] # FlushTask
    BY <2>1, SMT DEF SingleFlush
  <2>3. FlushTask \notin ToSet(microtasks')
    BY <2>2 DEF ToSet
  <2> QED
    BY <1>6, <2>3, EnterFlushSingle DEF FlushJobs
<1>7. ASSUME SkipInvalidated PROVE SingleFlush'
  BY <1>7, StackSingle DEF SkipInvalidated, FlushActive, SingleFlush
<1>8. ASSUME RunJob PROVE SingleFlush'
  <2>1. /\ stack # << >> /\ Top \in Frame
        /\ Head(queue) \in Code /\ "job" \in UserKinds
        /\ Call("job", Top, Head(queue))
    BY <1>8, SMT DEF RunJob, At, Top, Last, Code, UserKinds, TypeOK
  <2> QED
    BY <1>8, <2>1, CalledSingle, StackSingle DEF RunJob
<1>9. ASSUME EnterPosts PROVE SingleFlush'
  <2>1. Len(stack) = 1 /\ FlushActive
    BY <1>9, FlushOnTop DEF EnterPosts, At
  <2>2. PICK f : stack' = [stack EXCEPT ![Len(stack)] = f]
    BY <1>9 DEF EnterPosts, WithTop
  <2>3. DOMAIN stack' = 1..1
    BY <2>1, <2>2, SMT DEF TypeOK
  <2>4. \A i \in DOMAIN stack' : i = 1
    BY <2>3, SMT
  <2> QED
    BY <1>9, <2>1, <2>4, StackSingle DEF EnterPosts
<1>10. ASSUME RunPost PROVE SingleFlush'
  <2> DEFINE loop == [Top EXCEPT !.todo = Tail(Top.todo)]
  <2>1. /\ stack # << >> /\ Top \in Frame /\ Top.todo # << >>
        /\ Call("cb", loop, Head(Top.todo))
    BY <1>10, SMT DEF RunPost, At, Top, Last, TypeOK
  <2>2. Top.todo \in Seq(Cbs)
    BY <2>1, FrameFields
  <2>3. Tail(Top.todo) \in Seq(Cbs) /\ Head(Top.todo) \in Code
    BY <2>1, <2>2, SMT DEF Code
  <2>4. loop \in Frame /\ loop.at = Top.at
    BY <2>1, <2>3, FrameTodo
  <2>5. "cb" \in UserKinds
    BY DEF UserKinds
  <2> HIDE DEF loop
  <2> QED
    BY <1>10, <2>1, <2>3, <2>4, <2>5, CalledSingle, StackSingle DEF RunPost
<1>11. ASSUME EndRender PROVE SingleFlush'
  BY <1>11, PoppedSingle, StackSingle DEF EndRender, At
<1>12. ASSUME EndFlush PROVE SingleFlush'
  <2>1. /\ Len(stack) = 1 /\ FlushActive /\ isFlushing /\ ~isFlushPending
    BY <1>12, FlushOnTop DEF EndFlush, At
  <2>2. microtasks' = microtasks /\ FlushTask \notin ToSet(microtasks)
    BY <1>12, <2>1 DEF EndFlush, SingleFlush
  <2>3. CASE EnterFlush(Top.seen)
    BY <2>2, <2>3, EnterFlushSingle
  <2>4. CASE ~EnterFlush(Top.seen)
    <3>1. isFlushing' = FALSE /\ stack' = << >> /\ isFlushPending' = isFlushPending
      BY <1>12, <2>4 DEF EndFlush
    <3>2. DOMAIN stack' = {}
      BY <3>1, SMT
    <3> QED
      BY <2>2, <3>1, <3>2, Zenon DEF SingleFlush, FlushActive
  <2> QED
    BY <2>3, <2>4
<1>13. ASSUME RunTick PROVE SingleFlush'
  <2>1. /\ DOMAIN microtasks' = 1..(Len(microtasks) - 1)
        /\ DOMAIN microtasks = 1..Len(microtasks)
        /\ Len(microtasks) \in Nat /\ Len(microtasks) > 0
        /\ microtasks[1] # FlushTask
        /\ \A i \in 1..(Len(microtasks) - 1) : microtasks'[i] = microtasks[i + 1]
    BY <1>13, TailSet DEF TypeOK, RunTick
  <2>2. \A i, k \in DOMAIN microtasks' :
          microtasks'[i] = FlushTask /\ microtasks'[k] = FlushTask => i = k
    BY <2>1, SMT DEF SingleFlush
  <2>3. FlushTask \in ToSet(microtasks) => FlushTask \in ToSet(microtasks')
    <3>1. ASSUME NEW i \in DOMAIN microtasks, microtasks[i] = FlushTask
          PROVE  i - 1 \in DOMAIN microtasks' /\ microtasks'[i - 1] = FlushTask
      BY <2>1, <3>1, SMT
    <3> QED
      BY <3>1 DEF ToSet
  <2>4. FlushTask \in ToSet(microtasks') => FlushTask \in ToSet(microtasks)
    <3>1. ASSUME NEW i \in DOMAIN microtasks', microtasks'[i] = FlushTask
          PROVE  i + 1 \in DOMAIN microtasks /\ microtasks[i + 1] = FlushTask
      BY <2>1, <3>1, SMT
    <3> QED
      BY <3>1 DEF ToSet
  <2>5. /\ stack' = << CodeFrame("tick", Head(microtasks)) >>
        /\ isFlushing' = isFlushing /\ isFlushPending' = isFlushPending
    BY <1>13 DEF RunTick
  <2>6. /\ \A i \in DOMAIN stack' : i = 1
        /\ stack'[1].at = "tick"
    BY <2>5, SMT DEF CodeFrame
  <2> QED
    BY <2>2, <2>3, <2>4, <2>5, <2>6, Zenon DEF SingleFlush, FlushActive
<1>14. ASSUME Return PROVE SingleFlush'
  BY <1>14, PoppedSingle, StackSingle DEF Return, At
<1>15. ASSUME Throw PROVE SingleFlush'
  BY <1>15, UnwoundSingle, StackSingle DEF Throw
<1>16. ASSUME UNCHANGED vars PROVE SingleFlush'
  BY <1>16 DEF vars, SingleFlush, FlushActive
<1> QED
  BY <1>1, <1>2, <1>3, <1>4, <1>5, <1>6, <1>7, <1>8, <1>9, <1>10, <1>11, <1>12,
     <1>13, <1>14, <1>15, <1>16 DEF Next, Calls, Steps

\* flushJobs is never entered twice, whatever user code does and throws: the
\* two flags, the microtasks and the stack stay consistent.
THEOREM FlushIsSingle == Spec => []SingleFlush
<1>1. Init => TypeOK /\ SingleFlush
  BY TypeInit, SingleInit
<1>2. TypeOK /\ SingleFlush /\ [Next]_vars => TypeOK' /\ SingleFlush'
  BY TypeStep, SingleStep
<1> QED
  BY <1>1, <1>2, PTL DEF Spec

--------------------------------------------------------------------------------
(***************************************************************************)
(* NoLostWork, for a production build whose code does not throw and whose  *)
(* components are updated by flushed jobs only.  A callback that throws,   *)
(* the recursion limit, and a sort that meets a null each leave isFlushing *)
(* set; the premises exclude the three.  Beside SingleFlush, the argument  *)
(* needs that isFlushing is only set while a flush is on the stack, and    *)
(* that nulls are only in the queue during the job loop.                   *)
(***************************************************************************)
Calm == MayThrow = {} /\ ~Dev /\ ~SyncRender

JobLoopActive == stack # << >> /\ stack[1].at = "jobs"
JobsOverLoop == \A i \in DOMAIN stack : stack[i].at = "job" => i = 2 /\ JobLoopActive

Unstranded ==
  /\ TypeOK /\ SingleFlush /\ NoLostWork /\ JobsOverLoop
  /\ isFlushing => FlushActive
  /\ Null \in ToSet(queue) => JobLoopActive

\* What a step must do with the stack to keep Unstranded.
FlushKept == /\ FlushActive => FlushActive'
             /\ JobLoopActive => JobLoopActive'
             /\ JobsOverLoop'

LEMMA ChargedKept ==
  ASSUME TypeOK, JobsOverLoop, UserCode, stack' = Charged
  PROVE  FlushKept
<1>1. /\ Charged \in Seq(Frame) /\ Len(Charged) = Len(stack)
      /\ \A i \in 1..Len(stack) : Charged[i].at = stack[i].at
  BY ChargedStack
<1>2. /\ DOMAIN stack = 1..Len(stack) /\ DOMAIN stack' = 1..Len(stack)
      /\ stack # << >> => stack' # << >> /\ 1 \in 1..Len(stack)
  BY <1>1, SMT DEF TypeOK
<1> QED
  BY <1>1, <1>2, Zenon DEF FlushKept, FlushActive, JobLoopActive, JobsOverLoop

\* Pushing a frame, a job's only above the job loop.
LEMMA PushedKept ==
  ASSUME TypeOK, JobsOverLoop, stack' \in Seq(Frame),
         Len(stack') = Len(stack) + 1,
         \A i \in 1..Len(stack) : stack'[i].at = stack[i].at,
         stack'[Len(stack) + 1].at = "job" => Len(stack) = 1 /\ JobLoopActive
  PROVE  FlushKept
<1>1. /\ DOMAIN stack = 1..Len(stack) /\ DOMAIN stack' = 1..(Len(stack) + 1)
      /\ stack # << >> => stack' # << >> /\ 1 \in 1..Len(stack)
      /\ Len(stack) = 1 => Len(stack) + 1 = 2
      /\ \A i \in 1..(Len(stack) + 1) : i \in 1..Len(stack) \/ i = Len(stack) + 1
  BY SMTT(40) DEF TypeOK
<1> QED
  BY <1>1, Zenon DEF FlushKept, FlushActive, JobLoopActive, JobsOverLoop

LEMMA PoppedKept ==
  ASSUME TypeOK, JobsOverLoop, SingleFlush, stack # << >>,
         Top.at \notin {"jobs", "posts"}, stack' = Front(stack)
  PROVE  FlushKept
<1>1. /\ stack' \in Seq(Frame) /\ Len(stack') = Len(stack) - 1
      /\ \A i \in 1..(Len(stack) - 1) : stack'[i] = stack[i]
  BY Popped DEF TypeOK
<1>2. /\ DOMAIN stack' = 1..(Len(stack) - 1) /\ DOMAIN stack = 1..Len(stack)
      /\ \A i \in 1..(Len(stack) - 1) : i \in 1..Len(stack)
      /\ Len(stack) # 1 => stack' # << >> /\ 1 \in 1..(Len(stack) - 1)
      /\ \A i \in 1..(Len(stack) - 1) : 1 \in 1..(Len(stack) - 1) /\ stack' # << >>
  BY <1>1, SMT DEF TypeOK
<1>3. Len(stack) = 1 => ~FlushActive /\ ~JobLoopActive
  BY DEF Top, Last, FlushActive, JobLoopActive
<1> QED
  BY <1>1, <1>2, <1>3, Zenon DEF FlushKept, FlushActive, JobLoopActive, JobsOverLoop

\* queueFlush leaves a flush running or scheduled.
LEMMA QueueFlushSchedules ==
  ASSUME Unstranded, QueueFlush, FlushKept
  PROVE  FlushActive' \/ FlushTask \in ToSet(microtasks')
<1>1. CASE isFlushing
  BY <1>1 DEF Unstranded, FlushKept
<1>2. CASE isFlushPending /\ ~isFlushing
  BY <1>2, Zenon DEF Unstranded, SingleFlush, QueueFlush
<1>3. CASE ~isFlushing /\ ~isFlushPending
  <2>1. microtasks' = Append(microtasks, FlushTask)
    BY <1>3 DEF QueueFlush
  <2>2. /\ Len(microtasks) + 1 \in DOMAIN microtasks'
        /\ microtasks'[Len(microtasks) + 1] = FlushTask
    BY <2>1, SMT DEF Unstranded, TypeOK
  <2> QED
    BY <2>2 DEF ToSet
<1> QED
  BY <1>1, <1>2, <1>3

LEMMA UnstrandedInit == Init => Unstranded
<1> SUFFICES ASSUME Init PROVE Unstranded
  OBVIOUS
<1>1. TypeOK /\ SingleFlush
  BY TypeInit, SingleInit
<1>2. ToSet(queue) = {} /\ DOMAIN stack = {} /\ queue = << >> /\ postFlushCbs = << >>
  BY SMT DEF Init, ToSet
<1> QED
  BY <1>1, <1>2, Zenon DEF Init, Unstranded, NoLostWork, JobsOverLoop

LEMMA UnstrandedStep ==
  ASSUME Calm, Unstranded, [Next]_vars PROVE Unstranded'
<1>0. TypeOK /\ SingleFlush /\ JobsOverLoop /\ TypeOK' /\ SingleFlush'
  BY TypeStep, SingleStep DEF Unstranded
<1>a. Dev = FALSE /\ SyncRender = FALSE
  BY FlagsAssumption DEF Calm
<1>1. ASSUME NEW j \in Jobs, QueueJob(j) PROVE Unstranded'
  <2>1. FlushKept /\ isFlushing' = isFlushing
    BY <1>0, <1>1, ChargedKept DEF QueueJob
  <2>2. FlushActive' \/ FlushTask \in ToSet(microtasks')
    BY <1>1, <2>1, QueueFlushSchedules DEF QueueJob
  <2>3. Null \in ToSet(queue') => Null \in ToSet(queue)
    <3>1. j # Null /\ queue' = Append(queue, j)
      BY <1>1, CodeAssumption DEF QueueJob, Code
    <3> QED
      BY <1>0, <3>1, SMT DEF ToSet, TypeOK
  <2> QED
    BY <1>0, <2>1, <2>2, <2>3, Zenon DEF Unstranded, FlushKept, NoLostWork
<1>2. ASSUME NEW j \in Jobs, InvalidateJob(j) PROVE Unstranded'
  <2>1. /\ FlushKept /\ isFlushing' = isFlushing /\ postFlushCbs' = postFlushCbs
        /\ microtasks' = microtasks
    BY <1>0, <1>2, ChargedKept DEF InvalidateJob
  <2>2. JobLoopActive /\ FlushActive
    <3>1. \E i \in DOMAIN stack : stack[i].at = "job"
      BY <1>a, <1>2 DEF InvalidateJob
    <3> QED
      BY <1>0, <3>1 DEF JobsOverLoop, JobLoopActive, FlushActive
  <2> QED
    BY <1>0, <2>1, <2>2, Zenon DEF Unstranded, FlushKept, NoLostWork
<1>3. ASSUME NEW cbs \in CbArrays, QueuePostFlushCb(cbs) PROVE Unstranded'
  <2>1. FlushKept /\ isFlushing' = isFlushing /\ queue' = queue
    BY <1>0, <1>3, ChargedKept DEF QueuePostFlushCb
  <2>2. FlushActive' \/ FlushTask \in ToSet(microtasks')
    BY <1>3, <2>1, QueueFlushSchedules DEF QueuePostFlushCb
  <2> QED
    BY <1>0, <2>1, <2>2, Zenon DEF Unstranded, FlushKept, NoLostWork
<1>4. ASSUME NEW t \in Ticks, NextTick(t) PROVE Unstranded'
  <2>1. /\ FlushKept /\ isFlushing' = isFlushing
        /\ queue' = queue /\ postFlushCbs' = postFlushCbs
    BY <1>0, <1>4, ChargedKept DEF NextTick
  <2>2. FlushTask \in ToSet(microtasks) => FlushTask \in ToSet(microtasks')
    <3>1. microtasks' = Append(microtasks, t)
      BY <1>4 DEF NextTick
    <3>2. \A i \in DOMAIN microtasks :
            i \in DOMAIN microtasks' /\ microtasks'[i] = microtasks[i]
      BY <1>0, <3>1, SMT DEF TypeOK
    <3> QED
      BY <3>2 DEF ToSet
  <2> QED
    BY <1>0, <2>1, <2>2, Zenon DEF Unstranded, FlushKept, NoLostWork
<1>5. ASSUME RenderFlush PROVE Unstranded'
  <2>1. PICK cbs \in Deduplicated(postFlushCbs) :
          stack' = Append(Charged, LoopFrame("render", cbs, NoRuns))
    BY <1>5 DEF RenderFlush
  <2> DEFINE f == LoopFrame("render", cbs, NoRuns)
  <2>2. f.at = "render"
    BY DEF LoopFrame
  <2>3. /\ Charged \in Seq(Frame) /\ Len(Charged) = Len(stack)
        /\ \A i \in 1..Len(stack) : Charged[i].at = stack[i].at
    BY <1>0, <1>5, ChargedStack DEF RenderFlush
  <2>4. stack' = Append(Charged, f) /\ stack' \in Seq(Frame)
    BY <1>0, <2>1 DEF TypeOK
  <2> HIDE DEF f
  <2>5. /\ Len(stack') = Len(stack) + 1
        /\ \A i \in 1..Len(stack) : stack'[i].at = stack[i].at
        /\ stack'[Len(stack) + 1].at = "render"
    BY <2>2, <2>3, <2>4, SMT
  <2>6. FlushKept
    BY <1>0, <2>4, <2>5, PushedKept
  <2> QED
    BY <1>0, <1>5, <2>6, Zenon
       DEF RenderFlush, Unstranded, FlushKept, NoLostWork
<1>6. ASSUME FlushJobs PROVE Unstranded'
  <2>1. /\ ~JobLoopActive /\ EnterFlush(NoRuns)
    BY <1>6 DEF FlushJobs, JobLoopActive
  <2>2. ~SortThrows(queue)
    BY <2>1 DEF Unstranded, SortThrows
  <2>3. /\ stack' = << LoopFrame("jobs", << >>, NoRuns) >>
        /\ queue' \in Sorted(queue)
    BY <2>1, <2>2 DEF EnterFlush
  <2>4. ToSet(queue') = ToSet(queue)
    BY <1>0, <2>3, SortedType DEF TypeOK
  <2>5. JobLoopActive' /\ FlushActive' /\ JobsOverLoop'
    BY <2>3, SMT DEF LoopFrame, JobLoopActive, FlushActive, JobsOverLoop
  <2> QED
    BY <1>0, <2>1, <2>4, <2>5, Zenon DEF Unstranded, NoLostWork
<1>7. ASSUME SkipInvalidated PROVE Unstranded'
  <2>1. /\ JobLoopActive /\ FlushActive
        /\ UNCHANGED << stack, isFlushing >>
    BY <1>0, <1>7, FlushOnTop DEF SkipInvalidated, At, JobLoopActive
  <2> QED
    BY <1>0, <2>1, Zenon
       DEF Unstranded, NoLostWork, JobLoopActive, FlushActive, JobsOverLoop
<1>8. ASSUME RunJob PROVE Unstranded'
  <2>1. /\ stack # << >> /\ Top \in Frame
        /\ Head(queue) \in Code /\ "job" \in UserKinds
        /\ Call("job", Top, Head(queue))
    BY <1>0, <1>8, SMT DEF RunJob, At, Top, Last, Code, UserKinds, TypeOK
  <2>2. JobLoopActive /\ FlushActive /\ Len(stack) = 1
    BY <1>0, <1>8, FlushOnTop DEF RunJob, At, JobLoopActive
  <2>3. /\ stack' \in Seq(Frame) /\ Len(stack') = Len(stack) + 1
        /\ \A i \in 1..Len(stack) : stack'[i].at = stack[i].at
    BY <1>0, <1>a, <2>1, CalledStack
  <2>4. FlushKept
    BY <1>0, <2>2, <2>3, PushedKept
  <2> QED
    BY <1>0, <2>2, <2>4, Zenon DEF Unstranded, FlushKept, NoLostWork
<1>9. ASSUME EnterPosts PROVE Unstranded'
  <2>1. Len(stack) = 1 /\ stack # << >> /\ queue = << >> /\ Top \in Frame
    BY <1>0, <1>9, FlushOnTop, SMT DEF EnterPosts, At, TypeOK, Top, Last
  <2>2. PICK cbs \in Deduplicated(postFlushCbs) :
          stack' = WithTop([Top EXCEPT !.at = "posts", !.todo = cbs])
    BY <1>9 DEF EnterPosts
  <2> DEFINE f == [Top EXCEPT !.at = "posts", !.todo = cbs]
  <2>3. cbs \in Seq(Cbs)
    BY <1>0, <2>2, DeduplicatedType DEF TypeOK
  <2>4. f \in Frame /\ f.at = "posts"
    BY <2>1, <2>3, PostsFrame
  <2>5. stack' = [stack EXCEPT ![Len(stack)] = f]
    BY <2>2 DEF WithTop
  <2> HIDE DEF f
  <2>6. Len(stack') = 1 /\ stack'[1] = f /\ stack' # << >> /\ DOMAIN stack' = 1..1
    BY <1>0, <2>1, <2>4, <2>5, SMT DEF TypeOK
  <2>7. FlushActive' /\ JobsOverLoop'
    BY <2>4, <2>6, SMT DEF FlushActive, JobsOverLoop
  <2>8. queue' = << >> /\ ToSet(queue') = {}
    BY <1>9, SMT DEF EnterPosts, ToSet
  <2> QED
    BY <1>0, <2>7, <2>8, Zenon DEF Unstranded, NoLostWork
<1>10. ASSUME RunPost PROVE Unstranded'
  <2> DEFINE loop == [Top EXCEPT !.todo = Tail(Top.todo)]
  <2>1. /\ stack # << >> /\ Top \in Frame /\ Top.todo # << >>
        /\ Call("cb", loop, Head(Top.todo))
    BY <1>0, <1>10, SMT DEF RunPost, At, Top, Last, TypeOK
  <2>2. Top.todo \in Seq(Cbs)
    BY <2>1, FrameFields
  <2>3. Tail(Top.todo) \in Seq(Cbs) /\ Head(Top.todo) \in Code
    BY <2>1, <2>2, SMT DEF Code
  <2>4. loop \in Frame /\ loop.at = Top.at
    BY <2>1, <2>3, FrameTodo
  <2>5. "cb" \in UserKinds
    BY DEF UserKinds
  <2> HIDE DEF loop
  <2>6. /\ stack' \in Seq(Frame) /\ Len(stack') = Len(stack) + 1
        /\ stack'[Len(stack) + 1].at = "cb"
        /\ \A i \in 1..Len(stack) : stack'[i].at = stack[i].at
    BY <1>0, <1>a, <2>1, <2>3, <2>4, <2>5, CalledStack
  <2>7. FlushKept
    BY <1>0, <2>6, PushedKept
  <2> QED
    BY <1>0, <1>10, <2>7, Zenon DEF RunPost, Unstranded, FlushKept, NoLostWork
<1>11. ASSUME EndRender PROVE Unstranded'
  <2>1. FlushKept
    BY <1>0, <1>11, PoppedKept DEF EndRender, At
  <2> QED
    BY <1>0, <1>11, <2>1, Zenon DEF EndRender, Unstranded, FlushKept, NoLostWork
<1>12. ASSUME EndFlush PROVE Unstranded'
  <2>1. ~JobLoopActive
    BY <1>0, <1>12, FlushOnTop DEF EndFlush, At, JobLoopActive
  <2>2. ~SortThrows(queue)
    BY <2>1 DEF Unstranded, SortThrows
  <2>3. CASE queue # << >> \/ postFlushCbs # << >>
    <3>1. /\ stack' = << LoopFrame("jobs", << >>, Top.seen) >>
          /\ queue' \in Sorted(queue)
      BY <1>12, <2>2, <2>3 DEF EndFlush, EnterFlush
    <3>2. JobLoopActive' /\ FlushActive' /\ JobsOverLoop'
      BY <3>1, SMT DEF LoopFrame, JobLoopActive, FlushActive, JobsOverLoop
    <3> QED
      BY <1>0, <3>2, Zenon DEF Unstranded, NoLostWork
  <2>4. CASE ~(queue # << >> \/ postFlushCbs # << >>)
    <3>1. /\ isFlushing' = FALSE /\ stack' = << >>
          /\ queue' = << >> /\ postFlushCbs' = << >>
      BY <1>12, <2>4, Zenon DEF EndFlush
    <3>2. ToSet(queue') = {} /\ DOMAIN stack' = {}
      BY <3>1, SMT DEF ToSet
    <3> QED
      BY <1>0, <3>1, <3>2, Zenon DEF Unstranded, NoLostWork, JobsOverLoop
  <2> QED
    BY <2>3, <2>4
<1>13. ASSUME RunTick PROVE Unstranded'
  <2>1. /\ ~JobLoopActive /\ ~FlushActive /\ Head(microtasks) # FlushTask
        /\ UNCHANGED << queue, postFlushCbs, isFlushing >>
        /\ isFlushPending' = isFlushPending
    BY <1>13 DEF RunTick, JobLoopActive, FlushActive
  <2>2. FlushTask \in ToSet(microtasks) => FlushTask \in ToSet(microtasks')
    BY <1>0, <2>1, Zenon DEF SingleFlush
  <2>3. stack' = << CodeFrame("tick", Head(microtasks)) >>
    BY <1>13 DEF RunTick
  <2>4. JobsOverLoop'
    BY <2>3, SMT DEF JobsOverLoop, CodeFrame
  <2> QED
    BY <1>0, <2>1, <2>2, <2>4, Zenon DEF Unstranded, NoLostWork
<1>14. ASSUME Return PROVE Unstranded'
  <2>1. FlushKept
    BY <1>0, <1>14, PoppedKept DEF Return, At, UserKinds
  <2> QED
    BY <1>0, <1>14, <2>1, Zenon DEF Return, Unstranded, FlushKept, NoLostWork
<1>15. ASSUME Throw PROVE Unstranded'
  BY <1>15 DEF Throw, Calm
<1>16. ASSUME UNCHANGED vars PROVE Unstranded'
  BY <1>0, <1>16 DEF vars, Unstranded, NoLostWork, JobsOverLoop, JobLoopActive,
     FlushActive
<1> QED
  BY <1>1, <1>2, <1>3, <1>4, <1>5, <1>6, <1>7, <1>8, <1>9, <1>10, <1>11, <1>12,
     <1>13, <1>14, <1>15, <1>16 DEF Next, Calls, Steps

\* In a production build whose code does not throw and updates components in
\* flushed jobs only, no job and no callback is ever left without a flush that
\* will run it.
THEOREM NothingIsLost == ASSUME Calm PROVE Spec => []NoLostWork
<1>1. Init => Unstranded
  BY UnstrandedInit
<1>2. Unstranded /\ [Next]_vars => Unstranded'
  BY UnstrandedStep
<1>3. Unstranded => NoLostWork
  BY DEF Unstranded
<1> QED
  BY <1>1, <1>2, <1>3, PTL DEF Spec

--------------------------------------------------------------------------------
(***************************************************************************)
(* BatchInOrder, whatever code throws and however components are updated.  *)
(* Beside SingleFlush, which puts the running job above the job loop, the  *)
(* argument needs that what the last sort placed is still in the queue.    *)
(***************************************************************************)
Ordered == TypeOK /\ SingleFlush /\ batch <= Len(queue) /\ BatchInOrder

\* The job a flush is running, if it runs one, is the one it was running.
SameJob == Len(stack') > 1 /\ stack'[2].at = "job" =>
             Len(stack) > 1 /\ stack[2].at = "job" /\ stack'[2].run = stack[2].run

\* A call of user code changes no frame's code.
LEMMA ChargedRun ==
  ASSUME TypeOK, UserCode
  PROVE  Len(Charged) = Len(stack) /\ \A i \in 1..Len(stack) : Charged[i].run = stack[i].run
<1>1. CASE stack = << >>
  BY <1>1, SMT DEF Charged, TypeOK
<1>2. CASE stack # << >>
  <2> DEFINE f == [Top EXCEPT !.calls = @ + 1]
  <2>1. Top \in Frame /\ Top = stack[Len(stack)] /\ Top.calls < MaxCalls
    BY <1>2, SMT DEF TypeOK, Top, Last, UserCode, At
  <2>2. f \in Frame /\ f.run = Top.run
    BY <2>1, LimitAssumption, SMT DEF Frame
  <2>3. Charged = [stack EXCEPT ![Len(stack)] = f]
    BY <1>2 DEF Charged, WithTop
  <2> HIDE DEF f
  <2>4. /\ Len(Charged) = Len(stack) /\ Charged[Len(stack)] = f
        /\ \A i \in 1..Len(stack) : i # Len(stack) => Charged[i] = stack[i]
    BY <1>2, <2>2, <2>3, TopChanged DEF TypeOK
  <2> QED
    BY <2>1, <2>2, <2>4
<1> QED
  BY <1>1, <1>2

LEMMA ChargedJob ==
  ASSUME TypeOK, UserCode, stack' = Charged
  PROVE  SameJob
<1>1. /\ Len(Charged) = Len(stack) /\ Len(stack) \in Nat
      /\ \A i \in 1..Len(stack) : Charged[i].at = stack[i].at /\ Charged[i].run = stack[i].run
  BY ChargedStack, ChargedRun, SMT DEF TypeOK
<1> QED
  BY <1>1, SMT DEF SameJob

LEMMA PoppedJob ==
  ASSUME TypeOK, stack # << >>, stack' = Front(stack)
  PROVE  SameJob
<1>1. /\ Len(stack') = Len(stack) - 1 /\ Len(stack) \in Nat
      /\ \A i \in 1..(Len(stack) - 1) : stack'[i] = stack[i]
  BY Popped, SMT DEF TypeOK
<1> QED
  BY <1>1, SMT DEF SameJob

LEMMA UnwoundJob ==
  ASSUME TypeOK, stack' = Unwound
  PROVE  SameJob
<1>1. stack' = << >> \/ stack' = << stack[1] >>
  BY UnwoundStack
<1> QED
  BY <1>1, SMT DEF SameJob

\* One turn of a loop pushes the code it calls and changes no other code's frame.
LEMMA CalledFrames ==
  ASSUME TypeOK, stack # << >>,
         NEW kind \in UserKinds, NEW f \in Code, NEW loop \in Frame,
         ~Exceeded(loop.seen, f), Call(kind, loop, f)
  PROVE  /\ Len(stack') = Len(stack) + 1 /\ stack' \in Seq(Frame)
         /\ stack'[Len(stack) + 1] = CodeFrame(kind, f)
         /\ stack'[Len(stack)].at = loop.at /\ stack'[Len(stack)].todo = loop.todo
         /\ \A i \in 1..(Len(stack) - 1) : stack'[i] = stack[i]
<1> DEFINE g == [loop EXCEPT !.seen = Counted(loop.seen, f)]
           c == CodeFrame(kind, f)
           r == [stack EXCEPT ![Len(stack)] = g]
<1>1. Counted(loop.seen, f) \in Counts
  BY CountedType, SMT DEF Frame
<1>2. g \in Frame /\ g.at = loop.at /\ g.todo = loop.todo
  BY <1>1, SMT DEF Frame
<1>3. c \in Frame
  BY CodeFrameType
<1>4. stack' = Append(r, c)
  BY DEF Call, WithTop
<1> HIDE DEF g, c
<1>5. /\ r \in Seq(Frame) /\ Len(r) = Len(stack) /\ r[Len(stack)] = g
      /\ \A i \in 1..Len(stack) : i # Len(stack) => r[i] = stack[i]
  BY <1>2, TopChanged DEF TypeOK
<1> HIDE DEF r
<1>6. /\ Append(r, c) \in Seq(Frame) /\ Len(Append(r, c)) = Len(stack) + 1
      /\ \A i \in 1..Len(stack) : Append(r, c)[i] = r[i]
      /\ Append(r, c)[Len(stack) + 1] = c
  BY <1>3, <1>5, Pushed
<1>7. /\ Len(stack) \in 1..Len(stack)
      /\ \A i \in 1..(Len(stack) - 1) : i \in 1..Len(stack) /\ i # Len(stack)
  BY SMT DEF TypeOK
<1> QED
  BY <1>2, <1>4, <1>5, <1>6, <1>7, Zenon DEF c

\* What the last sort placed stays in order while jobs are appended or
\* invalidated and the same job runs, or none.
LEMMA BatchKept ==
  ASSUME Ordered, SameJob, batch' = batch, batch <= Len(queue'),
         \A i \in 1..batch : queue'[i] = queue[i] \/ queue'[i] = Null
  PROVE  batch' <= Len(queue') /\ BatchInOrder'
<1>1. \A i \in 1..batch : queue'[i] # Null => queue[i] # Null /\ queue'[i] = queue[i]
  OBVIOUS
<1> QED
  BY <1>1, Zenon DEF Ordered, BatchInOrder, SameJob

\* A sort leaves the jobs in the order of their ids.
LEMMA SortedOrder ==
  ASSUME NEW q \in Seq(Jobs \cup {Null}), NEW s \in Sorted(q), ~SortThrows(q),
         NEW i \in 1..Len(q), NEW k \in 1..Len(q), i < k
  PROVE  Id[s[i]] <= Id[s[k]]
<1>1. Len(q) > 1
  BY SMT
<1>2. Null \notin ToSet(q) /\ Precedes(q, s[i], s[k])
  BY <1>1 DEF SortThrows, Sorted
<1>3. s[i] \in ToSet(q) /\ s[k] \in ToSet(q)
  BY DEF Sorted, Bijection, Injection
<1>4. ToSet(q) \subseteq Jobs \cup {Null}
  BY SMT DEF ToSet
<1>5. Id[s[i]] \in Nat /\ Id[s[k]] \in Nat
  BY <1>2, <1>3, <1>4, IdAssumption
<1> QED
  BY <1>2, <1>5, SMT DEF Precedes

LEMMA EnterFlushOrder ==
  ASSUME Ordered, NEW seen, EnterFlush(seen)
  PROVE  batch' <= Len(queue') /\ BatchInOrder'
<1>1. stack' = << >> \/ stack' = << LoopFrame("jobs", << >>, seen) >>
  BY Zenon DEF EnterFlush
<1>2. ~(Len(stack') > 1) /\ SameJob
  <2>1. CASE stack' = << >>
    <3>1. Len(stack') = 0
      BY <2>1
    <3>2. ~(Len(stack') > 1)
      BY <3>1
    <3> QED
      BY <3>2 DEF SameJob
  <2>2. CASE stack' = << LoopFrame("jobs", << >>, seen) >>
    <3> DEFINE f == LoopFrame("jobs", << >>, seen)
    <3> HIDE DEF f
    <3>1. stack' = << f >>
      BY <2>2 DEF f
    <3>2. Len(stack') = 1
      BY <3>1
    <3>3. ~(Len(stack') > 1)
      BY <3>2
    <3> QED
      BY <3>3 DEF SameJob
  <2> QED
    BY <1>1, <2>1, <2>2
<1>3. CASE queue' = queue /\ batch' = batch
  BY <1>2, <1>3, BatchKept DEF Ordered
<1>4. CASE ~SortThrows(queue) /\ queue' \in Sorted(queue) /\ batch' = Len(queue)
  <2>1. queue \in Seq(Jobs \cup {Null}) /\ Len(queue) \in Nat
    BY SMT DEF Ordered, TypeOK
  <2>2. Len(queue') = Len(queue)
    BY <1>4, <2>1, SortedType
  <2>3. \A i, k \in 1..Len(queue) : i < k => Id[queue'[i]] <= Id[queue'[k]]
    BY <1>4, <2>1, SortedOrder
  <2>4. \A i, k \in 1..batch' : i < k => Id[queue'[i]] <= Id[queue'[k]]
    BY <1>4, <2>3
  <2>5. batch' <= Len(queue')
    BY <1>4, <2>1, <2>2, SMT
  <2> QED
    BY <1>2, <2>4, <2>5, Zenon DEF BatchInOrder
<1> QED
  BY <1>3, <1>4, Zenon DEF EnterFlush

LEMMA OrderedInit == Init => Ordered
<1> SUFFICES ASSUME Init PROVE Ordered
  OBVIOUS
<1>1. TypeOK /\ SingleFlush
  BY TypeInit, SingleInit
<1>2. batch = 0 /\ Len(queue) = 0 /\ ~(Len(stack) > 1) /\ 1..0 = {}
  BY SMT DEF Init
<1>3. BatchInOrder
  BY <1>2, Zenon DEF BatchInOrder
<1> QED
  BY <1>1, <1>2, <1>3, SMT DEF Ordered

LEMMA OrderedStep ==
  ASSUME Ordered, [Next]_vars PROVE batch' <= Len(queue') /\ BatchInOrder'
<1> DEFINE Goal == batch' <= Len(queue') /\ BatchInOrder'
<1>0. /\ TypeOK /\ SingleFlush /\ batch <= Len(queue) /\ BatchInOrder
      /\ batch \in Nat /\ Len(queue) \in Nat /\ queue \in Seq(Jobs \cup {Null})
  BY SMT DEF Ordered, TypeOK
<1>a. ASSUME SameJob, batch' = batch, queue' = queue PROVE Goal
  BY <1>0, <1>a, BatchKept
<1>1. ASSUME NEW j \in Jobs, QueueJob(j) PROVE Goal
  <2>1. SameJob /\ batch' = batch /\ queue' = Append(queue, j)
    BY <1>0, <1>1, ChargedJob DEF QueueJob
  <2>2. batch <= Len(queue') /\ \A i \in 1..batch : queue'[i] = queue[i]
    BY <1>0, <2>1, SMT
  <2> QED
    BY <2>1, <2>2, BatchKept
<1>2. ASSUME NEW j \in Jobs, InvalidateJob(j) PROVE Goal
  <2>1. PICK n \in DOMAIN queue : queue' = [queue EXCEPT ![n] = Null]
    BY <1>2 DEF InvalidateJob
  <2>2. SameJob /\ batch' = batch
    BY <1>0, <1>2, ChargedJob DEF InvalidateJob
  <2>3. batch <= Len(queue') /\ \A i \in 1..batch : queue'[i] = queue[i] \/ queue'[i] = Null
    BY <1>0, <2>1, SMT
  <2> QED
    BY <2>2, <2>3, BatchKept
<1>3. ASSUME NEW cbs \in CbArrays, QueuePostFlushCb(cbs) PROVE Goal
  BY <1>0, <1>a, <1>3, ChargedJob DEF QueuePostFlushCb
<1>4. ASSUME NEW t \in Ticks, NextTick(t) PROVE Goal
  BY <1>0, <1>a, <1>4, ChargedJob DEF NextTick
<1>5. ASSUME RenderFlush PROVE Goal
  <2>1. PICK cbs \in Deduplicated(postFlushCbs) :
          stack' = Append(Charged, LoopFrame("render", cbs, NoRuns))
    BY <1>5 DEF RenderFlush
  <2> DEFINE f == LoopFrame("render", cbs, NoRuns)
  <2>2. f.at = "render"
    BY DEF LoopFrame
  <2>3. stack' = Append(Charged, f)
    BY <2>1
  <2> HIDE DEF f
  <2>4. /\ Charged \in Seq(Frame) /\ Len(Charged) = Len(stack) /\ Len(stack) \in Nat
        /\ \A i \in 1..Len(stack) : /\ Charged[i].at = stack[i].at
                                    /\ Charged[i].run = stack[i].run
    BY <1>0, <1>5, ChargedStack, ChargedRun, SMT DEF RenderFlush, TypeOK
  <2>5. /\ Len(stack') = Len(stack) + 1 /\ stack'[Len(stack) + 1] = f
        /\ \A i \in 1..Len(stack) : stack'[i] = Charged[i]
    BY <2>3, <2>4, SMT
  <2>6. SameJob
    BY <2>2, <2>4, <2>5, SMT DEF SameJob
  <2> QED
    BY <1>a, <1>5, <2>6 DEF RenderFlush
<1>6. ASSUME FlushJobs PROVE Goal
  BY <1>6, EnterFlushOrder DEF FlushJobs
<1>7. ASSUME SkipInvalidated PROVE Goal
  <2>1. queue # << >> /\ stack' = stack /\ Shift
    BY <1>7 DEF SkipInvalidated
  <2>2. /\ Len(queue') = Len(queue) - 1
        /\ \A i \in 1..(Len(queue) - 1) : queue'[i] = queue[i + 1]
    BY <1>0, <2>1, SMT DEF Shift
  <2>3. batch' = IF batch > 0 THEN batch - 1 ELSE 0
    BY <2>1 DEF Shift
  <2>4. /\ batch' <= Len(queue') /\ batch' \in Nat
        /\ \A i \in 1..batch' : i + 1 \in 1..batch /\ queue'[i] = queue[i + 1]
        /\ \A i, k \in 1..batch' : i < k => i + 1 < k + 1
    BY <1>0, <2>1, <2>2, <2>3, SMT
  <2> QED
    BY <1>0, <2>1, <2>4, Zenon DEF BatchInOrder
<1>8. ASSUME RunJob PROVE Goal
  <2>1. /\ stack # << >> /\ Top \in Frame /\ queue # << >> /\ Head(queue) # Null
        /\ Head(queue) \in Code /\ "job" \in UserKinds
        /\ Shift /\ Call("job", Top, Head(queue))
    BY <1>0, <1>8, SMT DEF RunJob, At, Top, Last, Code, UserKinds, TypeOK
  <2>2. Len(stack) = 1
    BY <1>0, <1>8, FlushOnTop DEF RunJob, At
  <2>3. /\ Len(queue') = Len(queue) - 1 /\ Head(queue) = queue[1]
        /\ \A i \in 1..(Len(queue) - 1) : queue'[i] = queue[i + 1]
    BY <1>0, <2>1, SMT DEF Shift
  <2>4. batch' = IF batch > 0 THEN batch - 1 ELSE 0
    BY <2>1 DEF Shift
  <2>5. /\ batch' <= Len(queue') /\ batch' \in Nat
        /\ \A i \in 1..batch' : /\ i + 1 \in 1..batch /\ 1 \in 1..batch /\ 1 < i + 1
                                /\ queue'[i] = queue[i + 1]
        /\ \A i, k \in 1..batch' : i < k => i + 1 < k + 1
    BY <1>0, <2>1, <2>3, <2>4, SMT
  <2>6. \A i, k \in 1..batch' : queue'[i] # Null /\ queue'[k] # Null /\ i < k =>
                                  Id[queue'[i]] <= Id[queue'[k]]
    BY <1>0, <2>5, Zenon DEF BatchInOrder
  <2>7. \A i \in 1..batch' : queue'[i] # Null => Id[Head(queue)] <= Id[queue'[i]]
    BY <1>0, <2>1, <2>3, <2>5, Zenon DEF BatchInOrder
  <2>8. Len(stack') > 1 => stack'[2].run = Head(queue)
    <3>1. CASE Exceeded(Top.seen, Head(queue))
      <4>1. stack' = << >> \/ stack' = << stack[1] >>
        BY <1>0, <2>1, <3>1, UnwoundStack DEF Call
      <4> QED
        BY <4>1, SMT
    <3>2. CASE ~Exceeded(Top.seen, Head(queue))
      <4>1. stack'[2] = CodeFrame("job", Head(queue))
        BY <1>0, <2>1, <2>2, <3>2, CalledFrames, SMT
      <4> QED
        BY <4>1 DEF CodeFrame
    <3> QED
      BY <3>1, <3>2
  <2> QED
    BY <2>5, <2>6, <2>7, <2>8, Zenon DEF BatchInOrder
<1>9. ASSUME EnterPosts PROVE Goal
  <2>1. Len(stack) = 1
    BY <1>0, <1>9, FlushOnTop DEF EnterPosts, At
  <2>2. PICK f : stack' = [stack EXCEPT ![Len(stack)] = f]
    BY <1>9 DEF EnterPosts, WithTop
  <2>3. Len([stack EXCEPT ![Len(stack)] = f]) = Len(stack)
    BY <1>0, SMT DEF TypeOK
  <2>4. ~(Len(stack') > 1)
    BY <2>1, <2>2, <2>3, SMTT(40)
  <2> QED
    BY <1>a, <1>9, <2>4 DEF EnterPosts, SameJob
<1>10. ASSUME RunPost PROVE Goal
  <2> DEFINE loop == [Top EXCEPT !.todo = Tail(Top.todo)]
  <2>1. /\ stack # << >> /\ Top \in Frame /\ Top.todo # << >> /\ Top = stack[Len(stack)]
        /\ Top.at \in {"posts", "render"}
        /\ Call("cb", loop, Head(Top.todo)) /\ Len(stack) \in Nat
    BY <1>0, <1>10, SMT DEF RunPost, At, Top, Last, TypeOK
  <2>2. Top.todo \in Seq(Cbs)
    BY <2>1, FrameFields
  <2>3. Tail(Top.todo) \in Seq(Cbs) /\ Head(Top.todo) \in Code
    BY <2>1, <2>2, SMT DEF Code
  <2>4. loop \in Frame /\ loop.at = Top.at
    BY <2>1, <2>3, FrameTodo
  <2>5. "cb" \in UserKinds
    BY DEF UserKinds
  <2> HIDE DEF loop
  <2>6. SameJob
    <3>1. CASE Exceeded(loop.seen, Head(Top.todo))
      BY <1>0, <2>1, <3>1, UnwoundJob DEF Call
    <3>2. CASE ~Exceeded(loop.seen, Head(Top.todo))
      <4>1. /\ Len(stack') = Len(stack) + 1
            /\ stack'[Len(stack) + 1] = CodeFrame("cb", Head(Top.todo))
            /\ stack'[Len(stack)].at = Top.at
            /\ \A i \in 1..(Len(stack) - 1) : stack'[i] = stack[i]
        BY <1>0, <2>1, <2>3, <2>4, <2>5, <3>2, CalledFrames
      <4>2. stack'[Len(stack) + 1].at = "cb"
        BY <4>1 DEF CodeFrame
      <4> QED
        BY <2>1, <4>1, <4>2, SMT DEF SameJob
    <3> QED
      BY <3>1, <3>2
  <2> QED
    BY <1>a, <1>10, <2>6 DEF RunPost
<1>11. ASSUME EndRender PROVE Goal
  BY <1>0, <1>a, <1>11, PoppedJob DEF EndRender, At
<1>12. ASSUME EndFlush PROVE Goal
  <2>1. CASE EnterFlush(Top.seen)
    BY <2>1, EnterFlushOrder
  <2>2. CASE ~EnterFlush(Top.seen)
    <3>1. stack' = << >> /\ queue' = queue /\ batch' = batch
      BY <1>12, <2>2 DEF EndFlush
    <3>2. SameJob
      BY <3>1, SMT DEF SameJob
    <3> QED
      BY <1>a, <3>1, <3>2
  <2> QED
    BY <2>1, <2>2
<1>13. ASSUME RunTick PROVE Goal
  <2>1. /\ stack' = << CodeFrame("tick", Head(microtasks)) >>
        /\ queue' = queue /\ batch' = batch
    BY <1>13 DEF RunTick
  <2>2. SameJob
    BY <2>1, SMT DEF SameJob
  <2> QED
    BY <1>a, <2>1, <2>2
<1>14. ASSUME Return PROVE Goal
  BY <1>0, <1>a, <1>14, PoppedJob DEF Return, At
<1>15. ASSUME Throw PROVE Goal
  BY <1>0, <1>a, <1>15, UnwoundJob DEF Throw
<1>16. ASSUME UNCHANGED vars PROVE Goal
  BY <1>a, <1>16 DEF vars, SameJob
<1> QED
  BY <1>1, <1>2, <1>3, <1>4, <1>5, <1>6, <1>7, <1>8, <1>9, <1>10, <1>11, <1>12,
     <1>13, <1>14, <1>15, <1>16 DEF Next, Calls, Steps

\* The jobs that were in the queue when a flush started run parents first: what a
\* job queues, invalidates or throws meanwhile never puts a child before its
\* parent.
THEOREM ParentsFirst == Spec => []BatchInOrder
<1>1. Init => Ordered
  BY OrderedInit
<1>2. Ordered /\ [Next]_vars => Ordered'
  <2> SUFFICES ASSUME Ordered, [Next]_vars PROVE Ordered'
    OBVIOUS
  <2>1. TypeOK' /\ SingleFlush'
    BY TypeStep, SingleStep DEF Ordered
  <2> QED
    BY <2>1, OrderedStep DEF Ordered
<1>3. Ordered => BatchInOrder
  BY DEF Ordered
<1> QED
  BY <1>1, <1>2, <1>3, PTL DEF Spec

--------------------------------------------------------------------------------
(* What the loops on a stack still have to run. *)

Carried(s) == UNION {ToSet(s[i].todo) : i \in DOMAIN s}

LEMMA CarriedSame ==
  ASSUME NEW s \in Seq(Frame), NEW r \in Seq(Frame), Len(r) = Len(s),
         \A i \in 1..Len(s) : r[i].todo = s[i].todo
  PROVE  Carried(r) = Carried(s)
<1>1. DOMAIN r = 1..Len(s) /\ DOMAIN s = 1..Len(s)
  BY SMT
<1> QED
  BY <1>1, Zenon DEF Carried

LEMMA EmptyToSet == ToSet(<< >>) = {}
BY SMT DEF ToSet

LEMMA CarriedNone == Carried(<< >>) = {}
<1>1. DOMAIN << >> = {}
  BY SMT
<1> QED
  BY <1>1, Zenon DEF Carried

LEMMA CarriedOne ==
  ASSUME NEW f
  PROVE  Carried(<< f >>) = ToSet(f.todo)
<1>1. DOMAIN << f >> = {1} /\ << f >>[1] = f
  BY SMT
<1> QED
  BY <1>1, Zenon DEF Carried

\* The frame on top, and those below.
LEMMA CarriedPop ==
  ASSUME NEW s \in Seq(Frame), s # << >>
  PROVE  Carried(s) = Carried(Front(s)) \cup ToSet(s[Len(s)].todo)
<1>1. /\ Front(s) \in Seq(Frame) /\ Len(Front(s)) = Len(s) - 1
      /\ \A i \in 1..(Len(s) - 1) : Front(s)[i] = s[i]
  BY Popped
<1>2. /\ DOMAIN Front(s) = 1..(Len(s) - 1) /\ DOMAIN s = 1..Len(s)
      /\ Len(s) \in 1..Len(s)
      /\ \A i \in 1..Len(s) : i \in 1..(Len(s) - 1) \/ i = Len(s)
      /\ \A i \in 1..(Len(s) - 1) : i \in 1..Len(s)
  BY <1>1, SMT
<1> QED
  BY <1>1, <1>2, Zenon DEF Carried

LEMMA CarriedPush ==
  ASSUME NEW s \in Seq(Frame), NEW f \in Frame
  PROVE  Carried(Append(s, f)) = Carried(s) \cup ToSet(f.todo)
<1> DEFINE r == Append(s, f)
<1>1. /\ r \in Seq(Frame) /\ Len(r) = Len(s) + 1
      /\ \A i \in 1..Len(s) : r[i] = s[i]
      /\ r[Len(s) + 1] = f
  BY Pushed
<1>2. /\ DOMAIN r = 1..(Len(s) + 1) /\ DOMAIN s = 1..Len(s)
      /\ Len(s) + 1 \in 1..(Len(s) + 1)
      /\ \A i \in 1..(Len(s) + 1) : i \in 1..Len(s) \/ i = Len(s) + 1
      /\ \A i \in 1..Len(s) : i \in 1..(Len(s) + 1)
  BY <1>1, SMT
<1> HIDE DEF r
<1>3. Carried(r) = Carried(s) \cup ToSet(f.todo)
  BY <1>1, <1>2, Zenon DEF Carried
<1> QED
  BY <1>3 DEF r

\* A turn of a loop: the loop's frame has changed, and code is above it.
LEMMA CarriedCall ==
  ASSUME NEW s \in Seq(Frame), s # << >>, NEW r \in Seq(Frame),
         Len(r) = Len(s) + 1, r[Len(r)].todo = << >>,
         \A i \in 1..(Len(s) - 1) : r[i] = s[i]
  PROVE  Carried(r) = Carried(Front(s)) \cup ToSet(r[Len(s)].todo)
<1>1. /\ Front(s) \in Seq(Frame) /\ Len(Front(s)) = Len(s) - 1
      /\ \A i \in 1..(Len(s) - 1) : Front(s)[i] = s[i]
  BY Popped
<1>2. /\ DOMAIN Front(s) = 1..(Len(s) - 1) /\ DOMAIN r = 1..(Len(s) + 1)
      /\ Len(s) \in 1..(Len(s) + 1)
      /\ \A i \in 1..(Len(s) + 1) : i \in 1..(Len(s) - 1) \/ i = Len(s) \/ i = Len(r)
      /\ \A i \in 1..(Len(s) - 1) : i \in 1..(Len(s) + 1)
  BY <1>1, SMT
<1> QED
  BY <1>1, <1>2, EmptyToSet, ZenonT(40) DEF Carried

--------------------------------------------------------------------------------
(***************************************************************************)
(* The invariant the refinement rests on: frames that only run jobs or     *)
(* user code carry no callbacks, a job waits in the queue once, a tick is  *)
(* one microtask, what a tick was called to wait for is pending, and, if   *)
(* the loops on the stack do not carry all of it, a flush runs or will run *)
(* before that microtask.                                                  *)
(***************************************************************************)
TodoInLoops ==
  \A i \in DOMAIN stack : stack[i].at \notin {"posts", "render"} => stack[i].todo = << >>
OncePerJob ==
  \A i, k \in DOMAIN queue : queue[i] # Null /\ queue[i] = queue[k] => i = k
OncePerTick ==
  \A i, k \in DOMAIN microtasks : microtasks[i] = microtasks[k] => i = k
OwedIsPending == \A t \in Ticks : owed[t] \subseteq Pending
ToldAfterFlush ==
  \A i \in DOMAIN microtasks : microtasks[i] # FlushTask =>
    \/ owed[microtasks[i]] \subseteq Carried(stack)
    \/ FlushActive
    \/ \E k \in 1..(i - 1) : microtasks[k] = FlushTask

Sound == /\ Unstranded /\ TodoInLoops /\ OncePerJob /\ OncePerTick
         /\ OwedIsPending /\ ToldAfterFlush

Asked == Ticks \cap ToSet(microtasks)
Queued == ToSet(queue) \ {Null}

\* A step of DeferredWork or a stutter.
Promised == Deferred!Next \/ UNCHANGED Deferred!vars

LEMMA PendingParts ==
  Pending = Queued \cup ToSet(postFlushCbs) \cup Carried(stack)
BY Zenon DEF Pending, Queued, Carried

LEMMA PendingPartsPrimed ==
  Pending' = Queued' \cup ToSet(postFlushCbs') \cup Carried(stack')
BY Zenon DEF Pending, Queued, Carried

(* The steps of DeferredWork, under the refinement mapping. *)

LEMMA Stutters ==
  ASSUME Pending' = Pending, Asked' = Asked, owed' = owed
  PROVE  Promised
<1>1. UNCHANGED Deferred!vars
  BY SMT DEF Deferred!vars, Asked
<1> QED
  BY <1>1 DEF Promised

LEMMA HandsOver ==
  ASSUME NEW work \in SUBSET (Jobs \cup Cbs),
         work \subseteq Cbs \/ \E j \in Jobs \ Pending : work = {j},
         Pending' = Pending \cup work, Asked' = Asked, owed' = owed
  PROVE  Promised
<1>1. Deferred!HandOver(work)
  BY Zenon DEF Deferred!HandOver, Asked
<1> QED
  BY <1>1, Zenon DEF Deferred!Next, Promised

LEMMA Cancels ==
  ASSUME NEW j \in Jobs, j \in Pending, Pending' = Pending \ {j}, Asked' = Asked,
         owed' = [t \in Ticks |-> owed[t] \ {j}]
  PROVE  Promised
<1>1. Deferred!Cancel(j)
  BY Zenon DEF Deferred!Cancel, Deferred!Without, Asked
<1> QED
  BY <1>1, Zenon DEF Deferred!Next, Promised

LEMMA Runs ==
  ASSUME NEW f \in Code, f \in Pending, Asked' = Asked,
         Pending' = Pending \ {f} \/ (f \in Cbs /\ Pending' = Pending),
         owed' = [t \in Ticks |-> owed[t] \ {f}]
  PROVE  Promised
<1>1. Deferred!Run(f)
  BY Zenon DEF Deferred!Run, Deferred!Without, Asked
<1> QED
  BY <1>1, Zenon DEF Deferred!Next, Deferred!RunSome, Promised, Code

LEMMA Asks ==
  ASSUME NEW t \in Ticks, t \notin Asked, Pending' = Pending,
         Asked' = Asked \cup {t}, owed' = [owed EXCEPT ![t] = Pending]
  PROVE  Promised
<1>1. Deferred!Ask(t)
  BY Zenon DEF Deferred!Ask, Asked
<1> QED
  BY <1>1, Zenon DEF Deferred!Next, Promised

LEMMA Tells ==
  ASSUME NEW t \in Ticks, t \in Asked, owed[t] = {}, Pending' = Pending,
         Asked' = Asked \ {t}, owed' = owed
  PROVE  Promised
<1>1. Deferred!Tell(t)
  BY Zenon DEF Deferred!Tell, Asked
<1> QED
  BY <1>1, Zenon DEF Deferred!Next, Promised

(* Microtasks. *)

\* queueFlush asks for nobody, and adds its microtask behind the others.
LEMMA QueueFlushAsked ==
  ASSUME TypeOK, SingleFlush, OncePerTick, QueueFlush
  PROVE  /\ Asked' = Asked /\ OncePerTick'
         /\ \A i \in DOMAIN microtasks' : microtasks'[i] # FlushTask =>
              i \in DOMAIN microtasks /\ microtasks'[i] = microtasks[i]
         /\ \A i \in DOMAIN microtasks :
              i \in DOMAIN microtasks' /\ microtasks'[i] = microtasks[i]
<1>1. CASE microtasks' = microtasks
  BY <1>1, Zenon DEF Asked, OncePerTick
<1>2. CASE ~isFlushing /\ ~isFlushPending /\ microtasks' = Append(microtasks, FlushTask)
  <2>1. \A i \in DOMAIN microtasks : microtasks[i] # FlushTask
    BY <1>2 DEF SingleFlush, ToSet
  <2>2. /\ DOMAIN microtasks' = 1..(Len(microtasks) + 1)
        /\ DOMAIN microtasks = 1..Len(microtasks)
        /\ \A i \in 1..Len(microtasks) : microtasks'[i] = microtasks[i]
        /\ microtasks'[Len(microtasks) + 1] = FlushTask
        /\ \A i \in 1..(Len(microtasks) + 1) :
             i \in 1..Len(microtasks) \/ i = Len(microtasks) + 1
        /\ \A i \in 1..Len(microtasks) : i \in 1..(Len(microtasks) + 1)
    BY <1>2, SMT DEF TypeOK
  <2>3. Asked' = Asked
    BY <2>2, CodeAssumption, Zenon DEF Asked, ToSet
  <2>4. OncePerTick'
    BY <2>1, <2>2, Zenon DEF OncePerTick
  <2> QED
    BY <2>2, <2>3, <2>4, Zenon
<1> QED
  BY <1>1, <1>2, Zenon DEF QueueFlush

\* A tick is told after a flush as long as the microtasks keep their places,
\* a flush goes on, and what the ticks wait for stays where it is.
LEMMA ToldKept ==
  ASSUME TypeOK, ToldAfterFlush,
         \A i \in DOMAIN microtasks' : microtasks'[i] # FlushTask =>
           i \in DOMAIN microtasks /\ microtasks'[i] = microtasks[i],
         \A i \in DOMAIN microtasks :
           i \in DOMAIN microtasks' /\ microtasks'[i] = microtasks[i],
         FlushActive => FlushActive',
         \A t \in Ticks : owed[t] \subseteq Carried(stack) =>
                            owed'[t] \subseteq Carried(stack')
  PROVE  ToldAfterFlush'
<1> SUFFICES ASSUME NEW i \in DOMAIN microtasks', microtasks'[i] # FlushTask,
                    ~(owed'[microtasks'[i]] \subseteq Carried(stack')), ~FlushActive'
             PROVE  \E k \in 1..(i - 1) : microtasks'[k] = FlushTask
  BY Zenon DEF ToldAfterFlush
<1>1. /\ i \in DOMAIN microtasks /\ microtasks'[i] = microtasks[i]
      /\ microtasks[i] \in Ticks
      /\ \A k \in 1..(i - 1) : k \in DOMAIN microtasks
  BY SMT DEF TypeOK
<1>2. \E k \in 1..(i - 1) : microtasks[k] = FlushTask
  BY <1>1, Zenon DEF ToldAfterFlush
<1> QED
  BY <1>1, <1>2, Zenon

\* Only the stack and what ticks wait for change.
LEMMA SameMicrotasks ==
  ASSUME TypeOK, OncePerTick, microtasks' = microtasks
  PROVE  /\ Asked' = Asked /\ OncePerTick'
         /\ \A i \in DOMAIN microtasks' : microtasks'[i] # FlushTask =>
              i \in DOMAIN microtasks /\ microtasks'[i] = microtasks[i]
         /\ \A i \in DOMAIN microtasks :
              i \in DOMAIN microtasks' /\ microtasks'[i] = microtasks[i]
BY Zenon DEF Asked, OncePerTick

--------------------------------------------------------------------------------
(* What user code calls. *)

LEMMA ChargedTodo ==
  ASSUME Sound, UserCode, NEW s, s = Charged
  PROVE  /\ s \in Seq(Frame) /\ Carried(s) = Carried(stack)
         /\ \A i \in DOMAIN s :
              s[i].at \notin {"posts", "render"} => s[i].todo = << >>
<1>1. TypeOK /\ stack \in Seq(Frame)
  BY DEF Sound, Unstranded, TypeOK
<1>2. /\ s \in Seq(Frame) /\ Len(s) = Len(stack)
      /\ \A i \in 1..Len(stack) : s[i].at = stack[i].at /\ s[i].todo = stack[i].todo
  BY <1>1, ChargedStack
<1>3. DOMAIN s = 1..Len(stack) /\ DOMAIN stack = 1..Len(stack)
  BY <1>1, <1>2, SMT
<1>4. Carried(s) = Carried(stack)
  BY <1>1, <1>2, CarriedSame
<1> QED
  BY <1>2, <1>3, <1>4, Zenon DEF Sound, TodoInLoops

LEMMA ChargedCarried ==
  ASSUME Sound, UserCode, stack' = Charged
  PROVE  /\ Carried(stack') = Carried(stack) /\ TodoInLoops'
         /\ FlushActive => FlushActive'
<1>1. FlushKept
  BY ChargedKept DEF Sound, Unstranded
<1>2. /\ Carried(stack') = Carried(stack)
      /\ \A i \in DOMAIN stack' :
           stack'[i].at \notin {"posts", "render"} => stack'[i].todo = << >>
  BY ChargedTodo
<1> QED
  BY <1>1, <1>2, Zenon DEF TodoInLoops, FlushKept

LEMMA QueueJobImplements ==
  ASSUME Sound, Unstranded', NEW j \in Jobs, QueueJob(j)
  PROVE  Sound' /\ Promised
<1>0. TypeOK /\ SingleFlush /\ OncePerTick /\ ToldAfterFlush
  BY DEF Sound, Unstranded
<1>1. /\ j \notin ToSet(queue) /\ queue' = Append(queue, j) /\ QueueFlush
      /\ stack' = Charged /\ UserCode /\ postFlushCbs' = postFlushCbs /\ owed' = owed
  BY DEF QueueJob
<1>2. Carried(stack') = Carried(stack) /\ TodoInLoops' /\ (FlushActive => FlushActive')
  BY <1>1, ChargedCarried
<1>3. /\ DOMAIN queue = 1..Len(queue) /\ DOMAIN queue' = 1..(Len(queue) + 1)
      /\ \A i \in 1..Len(queue) : queue'[i] = queue[i] /\ i \in 1..(Len(queue) + 1)
      /\ queue'[Len(queue) + 1] = j
      /\ \A i \in 1..(Len(queue) + 1) : i \in 1..Len(queue) \/ i = Len(queue) + 1
      /\ Len(queue) + 1 \in 1..(Len(queue) + 1)
  BY <1>0, <1>1, SMT DEF TypeOK
<1>4. j # Null /\ j \notin Cbs
  BY CodeAssumption DEF Code
<1>5. Queued' = Queued \cup {j}
  BY <1>3, <1>4, Zenon DEF Queued, ToSet
<1>6. OncePerJob'
  <2>1. \A i \in 1..Len(queue) : queue[i] # j
    BY <1>1, <1>3, Zenon DEF ToSet
  <2> SUFFICES ASSUME NEW i \in 1..(Len(queue) + 1), NEW k \in 1..(Len(queue) + 1),
                      queue'[i] # Null, queue'[i] = queue'[k]
               PROVE  i = k
    BY <1>3, Zenon DEF OncePerJob
  <2>2. CASE i \in 1..Len(queue) /\ k \in 1..Len(queue)
    BY <1>3, <2>2, Zenon DEF Sound, OncePerJob
  <2> QED
    BY <1>3, <2>1, <2>2, Zenon
<1>7. Pending' = Pending \cup {j}
  BY <1>1, <1>2, <1>5, PendingParts, PendingPartsPrimed, Zenon
<1>8. j \notin Pending
  <2>1. ToSet(postFlushCbs) \subseteq Cbs
    BY <1>0, SMT DEF TypeOK, ToSet
  <2>2. \A i \in DOMAIN stack : ToSet(stack[i].todo) \subseteq Cbs
    <3>1. \A i \in DOMAIN stack : stack[i] \in Frame
      BY <1>0, SMT DEF TypeOK
    <3>2. \A i \in DOMAIN stack : stack[i].todo \in Seq(Cbs)
      BY <3>1, FrameFields
    <3> QED
      BY <3>2, SMT DEF ToSet
  <2> QED
    BY <1>1, <1>4, <2>1, <2>2, PendingParts, Zenon DEF Queued, Carried
<1>9. Asked' = Asked /\ OncePerTick' /\ ToldAfterFlush'
  BY <1>0, <1>1, <1>2, QueueFlushAsked, ToldKept
<1>10. OwedIsPending'
  BY <1>1, <1>7, Zenon DEF Sound, OwedIsPending
<1>11. Promised
  BY <1>1, <1>7, <1>8, <1>9, HandsOver, Zenon
<1> QED
  BY <1>2, <1>6, <1>9, <1>10, <1>11, Zenon DEF Sound

LEMMA InvalidateJobImplements ==
  ASSUME Sound, Unstranded', NEW j \in Jobs, InvalidateJob(j)
  PROVE  Sound' /\ Promised
<1>0. TypeOK /\ OncePerTick /\ ToldAfterFlush
  BY DEF Sound, Unstranded
<1>1. /\ stack' = Charged /\ UserCode /\ postFlushCbs' = postFlushCbs
      /\ owed' = [t \in Ticks |-> owed[t] \ {j}] /\ microtasks' = microtasks
  BY DEF InvalidateJob
<1>2. Carried(stack') = Carried(stack) /\ TodoInLoops' /\ (FlushActive => FlushActive')
  BY <1>1, ChargedCarried
<1>3. PICK n \in DOMAIN queue : queue[n] = j /\ queue' = [queue EXCEPT ![n] = Null]
  BY Zenon DEF InvalidateJob
<1>4. /\ DOMAIN queue' = DOMAIN queue
      /\ \A i \in DOMAIN queue : queue'[i] = IF i = n THEN Null ELSE queue[i]
  BY <1>0, <1>3, SMT DEF TypeOK
<1>5. j # Null /\ j \notin Cbs
  BY CodeAssumption DEF Code
<1>6. Queued' = Queued \ {j}
  BY <1>3, <1>4, <1>5, Zenon DEF Queued, ToSet, Sound, OncePerJob
<1>7. OncePerJob'
  BY <1>4, Zenon DEF Sound, OncePerJob
<1>8. j \notin Carried(stack) /\ j \notin ToSet(postFlushCbs)
  <2>1. ToSet(postFlushCbs) \subseteq Cbs
    BY <1>0, SMT DEF TypeOK, ToSet
  <2>2. \A i \in DOMAIN stack : ToSet(stack[i].todo) \subseteq Cbs
    <3>1. \A i \in DOMAIN stack : stack[i] \in Frame
      BY <1>0, SMT DEF TypeOK
    <3>2. \A i \in DOMAIN stack : stack[i].todo \in Seq(Cbs)
      BY <3>1, FrameFields
    <3> QED
      BY <3>2, SMT DEF ToSet
  <2> QED
    BY <1>5, <2>1, <2>2, Zenon DEF Carried
<1>9. Pending' = Pending \ {j} /\ j \in Pending
  <2>1. j \in Queued
    BY <1>3, <1>5, Zenon DEF Queued, ToSet
  <2> QED
    BY <1>1, <1>2, <1>6, <1>8, <2>1, PendingParts, PendingPartsPrimed, Zenon
<1>10. \A t \in Ticks : owed'[t] = owed[t] \ {j}
  BY <1>1, Zenon
<1>11. Asked' = Asked /\ OncePerTick' /\ ToldAfterFlush'
  <2>1. \A t \in Ticks : owed[t] \subseteq Carried(stack) =>
                           owed'[t] \subseteq Carried(stack')
    BY <1>2, <1>10, Zenon
  <2> QED
    BY <1>0, <1>1, <1>2, <2>1, SameMicrotasks, ToldKept
<1>12. OwedIsPending'
  BY <1>9, <1>10, Zenon DEF Sound, OwedIsPending
<1>13. Promised
  BY <1>1, <1>9, <1>11, Cancels, Zenon
<1> QED
  BY <1>2, <1>7, <1>11, <1>12, <1>13, Zenon DEF Sound

LEMMA QueuePostFlushCbImplements ==
  ASSUME Sound, Unstranded', NEW cbs \in CbArrays, QueuePostFlushCb(cbs)
  PROVE  Sound' /\ Promised
<1>0. TypeOK /\ SingleFlush /\ OncePerTick /\ ToldAfterFlush
  BY DEF Sound, Unstranded
<1>1. /\ postFlushCbs' = postFlushCbs \o cbs /\ QueueFlush
      /\ stack' = Charged /\ UserCode /\ queue' = queue /\ owed' = owed
  BY DEF QueuePostFlushCb
<1>2. Carried(stack') = Carried(stack) /\ TodoInLoops' /\ (FlushActive => FlushActive')
  BY <1>1, ChargedCarried
<1>3. cbs \in Seq(Cbs) /\ postFlushCbs \in Seq(Cbs)
  BY <1>0, CbArraysAssumption DEF TypeOK
<1>4. ToSet(postFlushCbs') = ToSet(postFlushCbs) \cup ToSet(cbs)
  <2> DEFINE m == Len(postFlushCbs)
             n == Len(cbs)
             both == postFlushCbs \o cbs
  <2>1. /\ DOMAIN postFlushCbs = 1..m /\ DOMAIN cbs = 1..n /\ DOMAIN both = 1..(m + n)
        /\ \A i \in 1..m : both[i] = postFlushCbs[i] /\ i \in 1..(m + n)
        /\ \A i \in 1..n : both[m + i] = cbs[i] /\ m + i \in 1..(m + n)
        /\ \A i \in 1..(m + n) :
             i \in 1..m \/ (i - m \in 1..n /\ both[i] = cbs[i - m])
    BY <1>3, SMT
  <2> HIDE DEF both, m, n
  <2>2. ToSet(both) = ToSet(postFlushCbs) \cup ToSet(cbs)
    <3>1. ASSUME NEW i \in 1..(m + n)
          PROVE  both[i] \in ToSet(postFlushCbs) \cup ToSet(cbs)
      BY <2>1, Zenon DEF ToSet
    <3>2. ASSUME NEW i \in 1..m PROVE postFlushCbs[i] \in ToSet(both)
      BY <2>1, Zenon DEF ToSet
    <3>3. ASSUME NEW i \in 1..n PROVE cbs[i] \in ToSet(both)
      BY <2>1, Zenon DEF ToSet
    <3>4. ToSet(both) \subseteq ToSet(postFlushCbs) \cup ToSet(cbs)
      BY <2>1, <3>1, SMT DEF ToSet
    <3>5. ToSet(postFlushCbs) \subseteq ToSet(both) /\ ToSet(cbs) \subseteq ToSet(both)
      <4>1. \A x \in ToSet(postFlushCbs) : x \in ToSet(both)
        BY <2>1, <3>2 DEF ToSet
      <4>2. \A x \in ToSet(cbs) : x \in ToSet(both)
        BY <2>1, <3>3 DEF ToSet
      <4> QED
        BY <4>1, <4>2, Zenon
    <3> QED
      BY <3>4, <3>5, Zenon
  <2> QED
    BY <1>1, <2>2 DEF both
<1>5. ToSet(cbs) \subseteq Cbs
  BY <1>3, SMT DEF ToSet
<1>6. Pending' = Pending \cup ToSet(cbs)
  BY <1>1, <1>2, <1>4, PendingParts, PendingPartsPrimed, Zenon DEF Queued
<1>7. Asked' = Asked /\ OncePerTick' /\ ToldAfterFlush'
  BY <1>0, <1>1, <1>2, QueueFlushAsked, ToldKept
<1>8. OwedIsPending' /\ OncePerJob'
  BY <1>1, <1>6, Zenon DEF Sound, OwedIsPending, OncePerJob
<1>9. Promised
  BY <1>1, <1>5, <1>6, <1>7, HandsOver, Zenon
<1> QED
  BY <1>2, <1>7, <1>8, <1>9, Zenon DEF Sound

LEMMA NextTickImplements ==
  ASSUME Sound, Unstranded', NEW t \in Ticks, NextTick(t)
  PROVE  Sound' /\ Promised
<1>0. TypeOK /\ SingleFlush /\ NoLostWork
  BY DEF Sound, Unstranded
<1>1. /\ t \notin ToSet(microtasks) /\ microtasks' = Append(microtasks, t)
      /\ stack' = Charged /\ UserCode /\ queue' = queue /\ postFlushCbs' = postFlushCbs
      /\ owed' = [owed EXCEPT ![t] = Pending]
  BY DEF NextTick
<1>2. Carried(stack') = Carried(stack) /\ TodoInLoops' /\ (FlushActive => FlushActive')
  BY <1>1, ChargedCarried
<1>3. Pending' = Pending
  BY <1>1, <1>2, PendingParts, PendingPartsPrimed, Zenon DEF Queued
<1>4. /\ owed'[t] = Pending
      /\ \A u \in Ticks : u # t => owed'[u] = owed[u]
  BY <1>0, <1>1, Zenon DEF TypeOK
<1>5. /\ DOMAIN microtasks = 1..Len(microtasks)
      /\ DOMAIN microtasks' = 1..(Len(microtasks) + 1)
      /\ \A i \in 1..Len(microtasks) : /\ microtasks'[i] = microtasks[i]
                                       /\ i \in 1..(Len(microtasks) + 1)
                                       /\ i \in 1..(Len(microtasks) + 1 - 1)
                                       /\ \A k \in 1..(i - 1) : k \in 1..Len(microtasks)
      /\ microtasks'[Len(microtasks) + 1] = t
      /\ Len(microtasks) + 1 \in 1..(Len(microtasks) + 1)
      /\ \A i \in 1..(Len(microtasks) + 1) :
           i \in 1..Len(microtasks) \/ i = Len(microtasks) + 1
      /\ \A i \in 1..Len(microtasks) : microtasks[i] \in Ticks \cup {FlushTask}
  BY <1>0, <1>1, SMT DEF TypeOK
<1>6. \A i \in 1..Len(microtasks) : microtasks[i] # t
  BY <1>1, <1>5, Zenon DEF ToSet
<1>7. Asked' = Asked \cup {t} /\ t \notin Asked
  BY <1>1, <1>5, ZenonT(40) DEF Asked, ToSet
<1>8. OncePerTick'
  <2> SUFFICES ASSUME NEW i \in 1..(Len(microtasks) + 1),
                      NEW k \in 1..(Len(microtasks) + 1), microtasks'[i] = microtasks'[k]
               PROVE  i = k
    BY <1>5, Zenon DEF OncePerTick
  <2>1. CASE i \in 1..Len(microtasks) /\ k \in 1..Len(microtasks)
    BY <1>5, <2>1, Zenon DEF Sound, OncePerTick
  <2> QED
    BY <1>5, <1>6, <2>1, Zenon
<1>9. OwedIsPending'
  BY <1>3, <1>4, Zenon DEF Sound, OwedIsPending
<1>10. ToldAfterFlush'
  <2> SUFFICES ASSUME NEW i \in 1..(Len(microtasks) + 1), microtasks'[i] # FlushTask,
                      ~FlushActive'
               PROVE  \/ owed'[microtasks'[i]] \subseteq Carried(stack')
                      \/ \E k \in 1..(i - 1) : microtasks'[k] = FlushTask
    BY <1>5, Zenon DEF ToldAfterFlush
  <2>1. CASE i \in 1..Len(microtasks)
    <3>1. /\ microtasks[i] \in Ticks /\ microtasks[i] # t /\ microtasks'[i] = microtasks[i]
          /\ owed'[microtasks[i]] = owed[microtasks[i]]
      BY <1>4, <1>5, <1>6, <2>1, Zenon
    <3>2. \/ owed[microtasks[i]] \subseteq Carried(stack)
          \/ \E k \in 1..(i - 1) : microtasks[k] = FlushTask
      BY <1>2, <1>5, <2>1, <3>1, Zenon DEF Sound, ToldAfterFlush
    <3> QED
      BY <1>2, <1>5, <2>1, <3>1, <3>2, Zenon
  <2>2. CASE i = Len(microtasks) + 1
    <3>1. CASE queue = << >> /\ postFlushCbs = << >>
      <4>1. Pending = Carried(stack)
        BY <3>1, EmptyToSet, PendingParts, Zenon DEF Queued
      <4> QED
        BY <1>2, <1>4, <1>5, <2>2, <4>1, Zenon
    <3>2. CASE FlushTask \in ToSet(microtasks)
      <4>1. PICK k \in 1..Len(microtasks) : microtasks[k] = FlushTask
        BY <1>5, <3>2, Zenon DEF ToSet
      <4>2. k \in 1..(i - 1) /\ microtasks'[k] = FlushTask
        <5>1. k \in 1..(Len(microtasks) + 1 - 1)
          BY <1>5, <4>1, Zenon
        <5> QED
          BY <1>5, <2>2, <4>1, <5>1
      <4> QED
        BY <4>2
    <3> QED
      BY <1>0, <1>2, <3>1, <3>2, Zenon DEF NoLostWork
  <2> QED
    BY <1>5, <2>1, <2>2, Zenon
<1>11. OncePerJob'
  BY <1>1, Zenon DEF Sound, OncePerJob
<1>12. Promised
  BY <1>1, <1>3, <1>7, Asks, Zenon
<1> QED
  BY <1>2, <1>8, <1>9, <1>10, <1>11, <1>12, Zenon DEF Sound

LEMMA RenderFlushImplements ==
  ASSUME Sound, Unstranded', RenderFlush
  PROVE  Sound' /\ Promised
<1>0. TypeOK /\ OncePerTick /\ ToldAfterFlush
  BY DEF Sound, Unstranded
<1>1. /\ UserCode /\ postFlushCbs' = << >> /\ queue' = queue /\ owed' = owed
      /\ microtasks' = microtasks
  BY DEF RenderFlush
<1>2. PICK cbs \in Deduplicated(postFlushCbs) :
        stack' = Append(Charged, LoopFrame("render", cbs, NoRuns))
  BY DEF RenderFlush
<1> DEFINE f == LoopFrame("render", cbs, NoRuns)
           s == Charged
<1>3. cbs \in Seq(Cbs) /\ ToSet(cbs) = ToSet(postFlushCbs)
  BY <1>0, DeduplicatedType DEF TypeOK
<1>4. f \in Frame /\ f.at = "render" /\ f.todo = cbs
  <2>1. "render" \in Loops
    BY DEF Loops
  <2> QED
    BY <1>3, <2>1, NoRunsType, LoopFrameType DEF LoopFrame
<1>5. /\ s \in Seq(Frame) /\ Carried(s) = Carried(stack)
      /\ \A i \in DOMAIN s :
           s[i].at \notin {"posts", "render"} => s[i].todo = << >>
  BY <1>1, ChargedTodo
<1>6. Len(s) = Len(stack) /\ \A i \in 1..Len(stack) : s[i].at = stack[i].at
  BY <1>0, <1>1, ChargedStack
<1>7. stack' = Append(s, f) /\ Len(stack) \in Nat
  BY <1>0, <1>2, SMT DEF TypeOK
<1> HIDE DEF f, s
<1>8. Carried(stack') = Carried(stack) \cup ToSet(postFlushCbs)
  BY <1>3, <1>4, <1>5, <1>7, CarriedPush
<1>9. /\ DOMAIN stack' = 1..(Len(s) + 1) /\ DOMAIN s = 1..Len(s)
      /\ \A i \in 1..Len(s) : stack'[i] = s[i]
      /\ stack'[Len(s) + 1] = f
      /\ \A i \in 1..(Len(s) + 1) : i \in 1..Len(s) \/ i = Len(s) + 1
      /\ stack # << >> => stack' # << >> /\ 1 \in 1..Len(s)
  BY <1>0, <1>4, <1>5, <1>6, <1>7, SMT DEF TypeOK
<1>10. TodoInLoops'
  BY <1>4, <1>5, <1>9, Zenon DEF TodoInLoops
<1>11. FlushActive => FlushActive'
  BY <1>6, <1>9, Zenon DEF FlushActive
<1>12. Pending' = Pending
  BY <1>1, <1>8, EmptyToSet, PendingParts, PendingPartsPrimed, Zenon DEF Queued
<1>13. Asked' = Asked /\ OncePerTick' /\ ToldAfterFlush'
  <2>1. \A t \in Ticks : owed[t] \subseteq Carried(stack) =>
                           owed'[t] \subseteq Carried(stack')
    BY <1>1, <1>8, Zenon
  <2> QED
    BY <1>0, <1>1, <1>11, <2>1, SameMicrotasks, ToldKept
<1>14. OwedIsPending' /\ OncePerJob'
  BY <1>1, <1>12, Zenon DEF Sound, OwedIsPending, OncePerJob
<1>15. Promised
  BY <1>1, <1>12, <1>13, Stutters
<1> QED
  BY <1>10, <1>13, <1>14, <1>15, Zenon DEF Sound

--------------------------------------------------------------------------------
(* What the event loop and the two loops of the scheduler do. *)

\* The head of flushJobs, with a queue that can be sorted: no entry is lost.
LEMMA EnterFlushQueue ==
  ASSUME TypeOK, NEW seen \in Counts, EnterFlush(seen), ~SortThrows(queue)
  PROVE  /\ ToSet(queue') = ToSet(queue) /\ OncePerJob' /\ TodoInLoops'
         /\ FlushActive' /\ Carried(stack') = {}
<1>1. /\ queue' \in Sorted(queue)
      /\ stack' = << LoopFrame("jobs", << >>, seen) >>
  BY DEF EnterFlush
<1>2. queue \in Seq(Jobs \cup {Null})
  BY DEF TypeOK
<1>3. queue' \in Seq(Jobs \cup {Null}) /\ ToSet(queue') = ToSet(queue) /\ Len(queue') = Len(queue)
  BY <1>1, <1>2, SortedType
<1>4. OncePerJob'
  <2>1. \A i, k \in 1..Len(queue) : queue'[i] = queue'[k] => i = k
    BY <1>1, Zenon DEF Sorted, Bijection, Injection, IsInjective
  <2>2. DOMAIN queue' = 1..Len(queue)
    BY <1>3, SMT
  <2> QED
    BY <2>1, <2>2, Zenon DEF OncePerJob
<1> DEFINE f == LoopFrame("jobs", << >>, seen)
<1>5. f.at = "jobs" /\ f.todo = << >>
  BY DEF LoopFrame
<1> HIDE DEF f
<1>6. stack' = << f >> /\ DOMAIN << f >> = {1} /\ << f >>[1] = f /\ << f >> # << >>
  BY <1>1, SMT DEF f
<1>7. Carried(stack') = {}
  BY <1>5, <1>6, CarriedOne, EmptyToSet
<1>8. TodoInLoops' /\ FlushActive'
  BY <1>5, <1>6, Zenon DEF TodoInLoops, FlushActive
<1> QED
  BY <1>3, <1>4, <1>7, <1>8

\* Dropping the first microtask.
LEMMA NextMicrotask ==
  ASSUME TypeOK, OncePerTick, microtasks # << >>, microtasks' = Tail(microtasks)
  PROVE  /\ OncePerTick'
         /\ Asked' = Asked \ {Head(microtasks)}
         /\ \A i \in DOMAIN microtasks' : /\ i + 1 \in DOMAIN microtasks
                                          /\ microtasks'[i] = microtasks[i + 1]
                                          /\ microtasks[i + 1] # Head(microtasks)
         /\ 1 \in DOMAIN microtasks /\ Head(microtasks) = microtasks[1]
<1>1. /\ DOMAIN microtasks' = 1..(Len(microtasks) - 1)
      /\ DOMAIN microtasks = 1..Len(microtasks) /\ Len(microtasks) \in Nat
      /\ Len(microtasks) > 0 /\ Head(microtasks) = microtasks[1]
      /\ \A i \in 1..(Len(microtasks) - 1) : microtasks'[i] = microtasks[i + 1]
  BY TailSet DEF TypeOK
<1>2. /\ 1 \in 1..Len(microtasks)
      /\ \A i \in 1..(Len(microtasks) - 1) : i + 1 \in 1..Len(microtasks) /\ i + 1 # 1
      /\ \A i, k \in 1..(Len(microtasks) - 1) : i + 1 = k + 1 => i = k
      /\ \A i \in 1..Len(microtasks) :
           i = 1 \/ (i - 1 \in 1..(Len(microtasks) - 1) /\ microtasks'[i - 1] = microtasks[i])
  BY <1>1, SMT
<1>3. OncePerTick'
  <2> SUFFICES ASSUME NEW i \in 1..(Len(microtasks) - 1), NEW k \in 1..(Len(microtasks) - 1),
                      microtasks'[i] = microtasks'[k]
               PROVE  i = k
    BY <1>1, Zenon DEF OncePerTick
  <2>1. /\ microtasks[i + 1] = microtasks[k + 1] /\ microtasks[i + 1] = microtasks'[i]
        /\ i + 1 \in DOMAIN microtasks /\ k + 1 \in DOMAIN microtasks
    BY <1>1, <1>2, Zenon
  <2>2. i + 1 = k + 1
    BY <2>1, Zenon DEF OncePerTick
  <2> QED
    BY <1>2, <2>2, Zenon
<1>4. \A i \in 1..(Len(microtasks) - 1) : microtasks[i + 1] # microtasks[1]
  BY <1>1, <1>2, Zenon DEF OncePerTick
<1>5. ToSet(microtasks') = ToSet(microtasks) \ {microtasks[1]}
  <2>1. ASSUME NEW x \in ToSet(microtasks') PROVE x \in ToSet(microtasks) \ {microtasks[1]}
    <3>1. PICK i \in 1..(Len(microtasks) - 1) : x = microtasks'[i]
      BY <1>1, <2>1, Zenon DEF ToSet
    <3> QED
      BY <1>1, <1>2, <1>4, <3>1, Zenon DEF ToSet
  <2>2. ASSUME NEW x \in ToSet(microtasks), x # microtasks[1] PROVE x \in ToSet(microtasks')
    <3>1. PICK i \in 1..Len(microtasks) : x = microtasks[i]
      BY <1>1, <2>2, Zenon DEF ToSet
    <3> QED
      BY <1>1, <1>2, <2>2, <3>1, Zenon DEF ToSet
  <2> QED
    BY <2>1, <2>2, Zenon
<1>6. Asked' = Asked \ {microtasks[1]}
  BY <1>5, Zenon DEF Asked
<1> QED
  BY <1>1, <1>2, <1>3, <1>4, <1>6, Zenon

LEMMA FlushJobsImplements ==
  ASSUME Sound, Unstranded', FlushJobs
  PROVE  Sound' /\ Promised
<1>0. TypeOK /\ OncePerTick
  BY DEF Sound, Unstranded
<1>1. /\ stack = << >> /\ microtasks # << >> /\ Head(microtasks) = FlushTask
      /\ microtasks' = Tail(microtasks) /\ postFlushCbs' = postFlushCbs /\ owed' = owed
      /\ EnterFlush(NoRuns)
  BY DEF FlushJobs
<1>2. ~SortThrows(queue)
  BY <1>1 DEF Sound, Unstranded, JobLoopActive, SortThrows
<1>3. /\ ToSet(queue') = ToSet(queue) /\ OncePerJob' /\ TodoInLoops'
      /\ FlushActive' /\ Carried(stack') = {}
  BY <1>0, <1>1, <1>2, NoRunsType, EnterFlushQueue
<1>4. Pending' = Pending
  BY <1>1, <1>3, CarriedNone, PendingParts, PendingPartsPrimed, Zenon DEF Queued
<1>5. OncePerTick' /\ Asked' = Asked
  BY <1>0, <1>1, NextMicrotask, CodeAssumption, Zenon DEF Asked
<1>6. ToldAfterFlush' /\ OwedIsPending'
  BY <1>1, <1>3, <1>4, Zenon DEF ToldAfterFlush, Sound, OwedIsPending
<1>7. Promised
  BY <1>1, <1>4, <1>5, Stutters
<1> QED
  BY <1>3, <1>5, <1>6, <1>7, Zenon DEF Sound

\* Shifting the queue takes its head out of it.
LEMMA ShiftedQueue ==
  ASSUME TypeOK, OncePerJob, queue # << >>, Shift
  PROVE  Queued' = Queued \ {Head(queue)} /\ OncePerJob' /\ Head(queue) \in ToSet(queue)
<1>1. /\ DOMAIN queue' = 1..(Len(queue) - 1) /\ DOMAIN queue = 1..Len(queue)
      /\ Len(queue) \in Nat /\ Len(queue) > 0 /\ Head(queue) = queue[1]
      /\ \A i \in 1..(Len(queue) - 1) : queue'[i] = queue[i + 1]
  BY TailSet DEF TypeOK, Shift
<1>2. /\ 1 \in 1..Len(queue)
      /\ \A i \in 1..(Len(queue) - 1) : i + 1 \in 1..Len(queue) /\ i + 1 # 1
      /\ \A i, k \in 1..(Len(queue) - 1) : i + 1 = k + 1 => i = k
      /\ \A i \in 1..Len(queue) :
           i = 1 \/ (i - 1 \in 1..(Len(queue) - 1) /\ queue'[i - 1] = queue[i])
  BY <1>1, SMT
<1>3. OncePerJob'
  <2> SUFFICES ASSUME NEW i \in 1..(Len(queue) - 1), NEW k \in 1..(Len(queue) - 1),
                      queue'[i] # Null, queue'[i] = queue'[k]
               PROVE  i = k
    BY <1>1, Zenon DEF OncePerJob
  <2>1. /\ queue[i + 1] = queue[k + 1] /\ queue[i + 1] = queue'[i]
        /\ i + 1 \in DOMAIN queue /\ k + 1 \in DOMAIN queue
    BY <1>1, <1>2, Zenon
  <2>2. i + 1 = k + 1
    BY <2>1, Zenon DEF OncePerJob
  <2> QED
    BY <1>2, <2>2, Zenon
<1>4. ASSUME NEW x \in Queued' PROVE x \in Queued /\ x # queue[1]
  <2>1. PICK i \in 1..(Len(queue) - 1) : x = queue'[i] /\ x # Null
    BY <1>1, <1>4, Zenon DEF Queued, ToSet
  <2>2. x = queue[i + 1] /\ i + 1 \in 1..Len(queue) /\ i + 1 # 1
    BY <1>1, <1>2, <2>1, Zenon
  <2>3. x # queue[1]
    BY <1>1, <1>2, <2>1, <2>2, Zenon DEF OncePerJob
  <2> QED
    BY <1>1, <2>1, <2>2, <2>3, Zenon DEF Queued, ToSet
<1>5. ASSUME NEW x \in Queued, x # queue[1] PROVE x \in Queued'
  <2>1. PICK i \in 1..Len(queue) : x = queue[i] /\ x # Null
    BY <1>1, <1>5, Zenon DEF Queued, ToSet
  <2> QED
    BY <1>1, <1>2, <1>5, <2>1, Zenon DEF Queued, ToSet
<1>6. Queued' = Queued \ {queue[1]}
  BY <1>4, <1>5, Zenon
<1> QED
  BY <1>1, <1>2, <1>3, <1>6, Zenon DEF ToSet

LEMMA SkipInvalidatedImplements ==
  ASSUME Sound, Unstranded', SkipInvalidated
  PROVE  Sound' /\ Promised
<1>0. TypeOK /\ SingleFlush /\ OncePerTick /\ OncePerJob /\ ToldAfterFlush
  BY DEF Sound, Unstranded
<1>1. /\ queue # << >> /\ Head(queue) = Null /\ Shift /\ postFlushCbs' = postFlushCbs
      /\ microtasks' = microtasks /\ stack' = stack /\ owed' = owed
  BY DEF SkipInvalidated
<1>2. Queued' = Queued /\ OncePerJob'
  BY <1>0, <1>1, ShiftedQueue, Zenon DEF Queued
<1>3. Pending' = Pending
  BY <1>1, <1>2, PendingParts, PendingPartsPrimed, Zenon
<1>4. Asked' = Asked /\ OncePerTick' /\ ToldAfterFlush'
  <2>1. /\ FlushActive => FlushActive'
        /\ \A t \in Ticks : owed[t] \subseteq Carried(stack) =>
                              owed'[t] \subseteq Carried(stack')
    BY <1>1, Zenon DEF FlushActive
  <2> QED
    BY <1>0, <1>1, <2>1, SameMicrotasks, ToldKept
<1>5. OwedIsPending' /\ TodoInLoops'
  BY <1>1, <1>3, Zenon DEF Sound, OwedIsPending, TodoInLoops
<1>6. Promised
  BY <1>1, <1>3, <1>4, Stutters
<1> QED
  BY <1>2, <1>4, <1>5, <1>6, Zenon DEF Sound

\* One turn of a loop, in a build that does not count the runs: f leaves what is
\* pending and what the ticks wait for.
LEMMA CalledCarried ==
  ASSUME Sound, ~Dev, stack # << >>,
         NEW kind \in UserKinds, NEW f \in Code, NEW loop \in Frame,
         loop.at = Top.at, loop.at \in {"posts", "render"} \/ loop.todo = << >>,
         Call(kind, loop, f)
  PROVE  /\ Carried(stack') = Carried(Front(stack)) \cup ToSet(loop.todo)
         /\ TodoInLoops' /\ (FlushActive => FlushActive')
         /\ owed' = [t \in Ticks |-> owed[t] \ {f}]
<1>0. TypeOK /\ stack \in Seq(Frame)
  BY DEF Sound, Unstranded, TypeOK
<1>1. ~Exceeded(loop.seen, f)
  BY DEF Exceeded
<1>2. owed' = [t \in Ticks |-> owed[t] \ {f}]
  BY <1>1 DEF Call
<1>3. /\ Len(stack') = Len(stack) + 1 /\ stack' \in Seq(Frame)
      /\ stack'[Len(stack) + 1] = CodeFrame(kind, f)
      /\ stack'[Len(stack)].at = loop.at /\ stack'[Len(stack)].todo = loop.todo
      /\ \A i \in 1..(Len(stack) - 1) : stack'[i] = stack[i]
  BY <1>0, <1>1, CalledFrames
<1>4. stack'[Len(stack) + 1].todo = << >>
  BY <1>3 DEF CodeFrame
<1>5. Carried(stack') = Carried(Front(stack)) \cup ToSet(loop.todo)
  BY <1>0, <1>3, <1>4, CarriedCall
<1>6. /\ DOMAIN stack' = 1..(Len(stack) + 1) /\ DOMAIN stack = 1..Len(stack)
      /\ \A i \in 1..(Len(stack) + 1) :
           i \in 1..(Len(stack) - 1) \/ i = Len(stack) \/ i = Len(stack) + 1
      /\ \A i \in 1..(Len(stack) - 1) : i \in 1..Len(stack)
      /\ stack' # << >> /\ (1 \in 1..(Len(stack) - 1) \/ 1 = Len(stack))
  <2>1. /\ Len(stack') = Len(stack) + 1 /\ stack' \in Seq(Frame)
        /\ stack \in Seq(Frame) /\ stack # << >>
    BY <1>0, <1>3
  <2>2. /\ DOMAIN stack' = 1..(Len(stack) + 1) /\ DOMAIN stack = 1..Len(stack)
        /\ Len(stack) \in Nat /\ Len(stack) > 0 /\ stack' # << >>
    BY <2>1, SMT
  <2> DEFINE n == Len(stack)
  <2> HIDE DEF n
  <2>3. n \in Nat /\ n > 0
    BY <2>2 DEF n
  <2>4. /\ \A i \in 1..(n + 1) : i \in 1..(n - 1) \/ i = n \/ i = n + 1
        /\ \A i \in 1..(n - 1) : i \in 1..n
        /\ 1 \in 1..(n - 1) \/ 1 = n
    BY <2>3, SMT
  <2> QED
    BY <2>2, <2>4, Zenon DEF n
<1>7. TodoInLoops'
  BY <1>3, <1>4, <1>6, Zenon DEF Sound, TodoInLoops
<1>8. stack'[1].at = stack[1].at
  BY <1>3, <1>6 DEF Top, Last
<1>9. FlushActive => FlushActive'
  BY <1>6, <1>8, Zenon DEF FlushActive
<1> QED
  BY <1>2, <1>5, <1>7, <1>9, Zenon

\* The callbacks that wait, wherever they wait, are not jobs.
LEMMA CarriedCbs ==
  ASSUME TypeOK
  PROVE  ToSet(postFlushCbs) \subseteq Cbs /\ Carried(stack) \subseteq Cbs
<1>1. ToSet(postFlushCbs) \subseteq Cbs
  BY SMT DEF TypeOK, ToSet
<1>2. \A i \in DOMAIN stack : stack[i] \in Frame
  BY SMT DEF TypeOK
<1>3. \A i \in DOMAIN stack : stack[i].todo \in Seq(Cbs)
  BY <1>2, FrameFields
<1>4. \A i \in DOMAIN stack : ToSet(stack[i].todo) \subseteq Cbs
  BY <1>3, SMT DEF ToSet
<1> QED
  BY <1>1, <1>4, Zenon DEF Carried

LEMMA RunJobImplements ==
  ASSUME ~Dev, Sound, Unstranded', RunJob
  PROVE  Sound' /\ Promised
<1>0. TypeOK /\ SingleFlush /\ OncePerTick /\ OncePerJob /\ ToldAfterFlush
  BY DEF Sound, Unstranded
<1> DEFINE f == Head(queue)
<1>1. /\ At({"jobs"}) /\ queue # << >> /\ f # Null /\ Shift /\ postFlushCbs' = postFlushCbs
      /\ microtasks' = microtasks /\ Call("job", Top, f)
  BY DEF RunJob
<1>2. /\ stack # << >> /\ Top \in Frame /\ Top = stack[Len(stack)] /\ Top.at = "jobs"
      /\ f \in Jobs /\ f \in Code /\ "job" \in UserKinds /\ stack \in Seq(Frame)
      /\ Len(stack) \in DOMAIN stack
  BY <1>0, <1>1, SMT DEF At, Top, Last, Code, UserKinds, TypeOK
<1>3. Top.todo = << >>
  BY <1>2, Zenon DEF Sound, TodoInLoops
<1>4. Queued' = Queued \ {f} /\ OncePerJob' /\ f \in ToSet(queue)
  BY <1>0, <1>1, ShiftedQueue
<1> HIDE DEF f
<1>5. /\ Carried(stack') = Carried(Front(stack)) \cup ToSet(<< >>)
      /\ TodoInLoops' /\ (FlushActive => FlushActive')
      /\ owed' = [t \in Ticks |-> owed[t] \ {f}]
  BY <1>1, <1>2, <1>3, CalledCarried
<1>6. Carried(stack') = Carried(stack)
  BY <1>2, <1>3, <1>5, CarriedPop
<1>7. f \notin Carried(stack) /\ f \notin ToSet(postFlushCbs)
  BY <1>0, <1>2, CarriedCbs, CodeAssumption, Zenon
<1>8. Pending' = Pending \ {f} /\ f \in Pending
  BY <1>1, <1>4, <1>6, <1>7, PendingParts, PendingPartsPrimed, Zenon DEF Queued
<1>9. \A t \in Ticks : owed'[t] = owed[t] \ {f}
  BY <1>5, Zenon
<1>10. Asked' = Asked /\ OncePerTick' /\ ToldAfterFlush'
  <2>1. \A t \in Ticks : owed[t] \subseteq Carried(stack) =>
                           owed'[t] \subseteq Carried(stack')
    BY <1>6, <1>9, Zenon
  <2> QED
    BY <1>0, <1>1, <1>5, <2>1, SameMicrotasks, ToldKept
<1>11. OwedIsPending'
  BY <1>8, <1>9, Zenon DEF Sound, OwedIsPending
<1>12. Promised
  BY <1>2, <1>5, <1>8, <1>10, Runs, Zenon
<1> QED
  BY <1>4, <1>5, <1>10, <1>11, <1>12, Zenon DEF Sound

\* The job loop is done; the callbacks move to the loop over them.
LEMMA EnterPostsImplements ==
  ASSUME Sound, Unstranded', EnterPosts
  PROVE  Sound' /\ Promised
<1>0. TypeOK /\ SingleFlush /\ OncePerTick /\ ToldAfterFlush
  BY DEF Sound, Unstranded
<1>1. /\ At({"jobs"}) /\ queue' = queue /\ postFlushCbs' = << >> /\ owed' = owed
      /\ microtasks' = microtasks
  BY DEF EnterPosts
<1>2. PICK cbs \in Deduplicated(postFlushCbs) :
        stack' = WithTop([Top EXCEPT !.at = "posts", !.todo = cbs])
  BY DEF EnterPosts
<1> DEFINE f == [Top EXCEPT !.at = "posts", !.todo = cbs]
<1>3. /\ Len(stack) = 1 /\ stack # << >> /\ Top \in Frame /\ Top = stack[1]
      /\ Top.at = "jobs" /\ stack \in Seq(Frame) /\ DOMAIN stack = {1}
  BY <1>0, <1>1, FlushOnTop, SMT DEF At, TypeOK, Top, Last
<1>4. Top.todo = << >>
  BY <1>3, Zenon DEF Sound, TodoInLoops
<1>5. cbs \in Seq(Cbs) /\ ToSet(cbs) = ToSet(postFlushCbs)
  BY <1>0, <1>2, DeduplicatedType DEF TypeOK
<1>6. f \in Frame /\ f.at = "posts" /\ f.todo = cbs
  BY <1>3, <1>5, PostsFrame
<1>7. stack' = [stack EXCEPT ![Len(stack)] = f]
  BY <1>2 DEF WithTop
<1> HIDE DEF f
<1>8. stack' # << >> /\ DOMAIN stack' = {1} /\ stack'[1] = f
  BY <1>3, <1>6, <1>7, SMT
<1>9. Carried(stack') = ToSet(postFlushCbs) /\ Carried(stack) = {}
  <2>1. Carried(stack) = {}
    BY <1>3, <1>4, EmptyToSet, Zenon DEF Carried
  <2>2. Carried(stack') = ToSet(f.todo)
    BY <1>8, Zenon DEF Carried
  <2> QED
    BY <1>5, <1>6, <2>1, <2>2
<1>10. TodoInLoops' /\ FlushActive'
  BY <1>6, <1>8, Zenon DEF TodoInLoops, FlushActive
<1>11. Pending' = Pending
  BY <1>1, <1>9, EmptyToSet, PendingParts, PendingPartsPrimed, Zenon DEF Queued
<1>12. Asked' = Asked /\ OncePerTick' /\ ToldAfterFlush'
  <2>1. \A t \in Ticks : owed[t] \subseteq Carried(stack) =>
                           owed'[t] \subseteq Carried(stack')
    BY <1>1, <1>9, Zenon
  <2> QED
    BY <1>0, <1>1, <1>10, <2>1, SameMicrotasks, ToldKept
<1>13. OwedIsPending' /\ OncePerJob'
  BY <1>1, <1>11, Zenon DEF Sound, OwedIsPending, OncePerJob
<1>14. Promised
  BY <1>1, <1>11, <1>12, Stutters
<1> QED
  BY <1>10, <1>12, <1>13, <1>14, Zenon DEF Sound

LEMMA RunPostImplements ==
  ASSUME ~Dev, Sound, Unstranded', RunPost
  PROVE  Sound' /\ Promised
<1>0. TypeOK /\ SingleFlush /\ OncePerTick /\ ToldAfterFlush
  BY DEF Sound, Unstranded
<1> DEFINE loop == [Top EXCEPT !.todo = Tail(Top.todo)]
           f == Head(Top.todo)
<1>1. /\ At({"posts", "render"}) /\ Top.todo # << >> /\ queue' = queue
      /\ postFlushCbs' = postFlushCbs /\ microtasks' = microtasks
      /\ Call("cb", loop, f)
  BY DEF RunPost
<1>2. /\ stack # << >> /\ Top \in Frame /\ Top = stack[Len(stack)]
      /\ Top.at \in {"posts", "render"} /\ stack \in Seq(Frame)
      /\ Len(stack) \in DOMAIN stack
  BY <1>0, <1>1, SMT DEF At, Top, Last, TypeOK
<1>3. Top.todo \in Seq(Cbs)
  BY <1>2, FrameFields
<1>4. /\ Tail(Top.todo) \in Seq(Cbs) /\ f \in Cbs
      /\ ToSet(Top.todo) = ToSet(Tail(Top.todo)) \cup {f}
  <2> DEFINE s == Top.todo
             r == Tail(s)
  <2>1. /\ DOMAIN r = 1..(Len(s) - 1) /\ Len(s) \in Nat /\ Len(s) > 0
        /\ DOMAIN s = 1..Len(s) /\ Head(s) = s[1]
        /\ \A i \in 1..(Len(s) - 1) : r[i] = s[i + 1]
    BY <1>1, <1>3, TailSet
  <2>2. r \in Seq(Cbs) /\ Head(s) \in Cbs
    BY <1>1, <1>3, SMT
  <2> HIDE DEF r, s
  <2>3. /\ 1 \in 1..Len(s)
        /\ \A i \in 1..(Len(s) - 1) : i + 1 \in 1..Len(s)
        /\ \A i \in 1..Len(s) : i = 1 \/ (i - 1 \in 1..(Len(s) - 1) /\ r[i - 1] = s[i])
    BY <2>1, SMT
  <2>4. ASSUME NEW x \in ToSet(s), x # s[1] PROVE x \in ToSet(r)
    <3>1. PICK i \in 1..Len(s) : x = s[i]
      BY <2>1, <2>4, Zenon DEF ToSet
    <3> QED
      BY <2>1, <2>3, <2>4, <3>1, Zenon DEF ToSet
  <2>5. ASSUME NEW x \in ToSet(r) PROVE x \in ToSet(s)
    <3>1. PICK i \in 1..(Len(s) - 1) : x = r[i]
      BY <2>1, <2>5, Zenon DEF ToSet
    <3> QED
      BY <2>1, <2>3, <3>1, Zenon DEF ToSet
  <2>6. s[1] \in ToSet(s)
    BY <2>1, <2>3, Zenon DEF ToSet
  <2>7. ToSet(s) = ToSet(r) \cup {Head(s)}
    BY <2>1, <2>4, <2>5, <2>6, Zenon
  <2> QED
    BY <2>2, <2>7 DEF r, s
<1>5. loop \in Frame /\ loop.at = Top.at /\ loop.todo = Tail(Top.todo)
  BY <1>2, <1>4, FrameTodo, SMTT(40)
<1>6. "cb" \in UserKinds /\ f \in Code
  BY <1>4 DEF UserKinds, Code
<1> HIDE DEF loop, f
<1>7. /\ Carried(stack') = Carried(Front(stack)) \cup ToSet(loop.todo)
      /\ TodoInLoops' /\ (FlushActive => FlushActive')
      /\ owed' = [t \in Ticks |-> owed[t] \ {f}]
  BY <1>1, <1>2, <1>5, <1>6, CalledCarried
<1>8. Carried(stack) = Carried(Front(stack)) \cup ToSet(Top.todo)
  BY <1>2, CarriedPop
<1>9. Carried(stack) = Carried(stack') \cup {f}
  BY <1>4, <1>5, <1>7, <1>8, Zenon
<1>10. /\ f \in Pending
       /\ Pending' = Pending \/ Pending' = Pending \ {f}
  <2>1. Pending = Pending' \cup {f}
    BY <1>1, <1>9, PendingParts, PendingPartsPrimed, Zenon DEF Queued
  <2>2. CASE f \in Pending'
    BY <2>1, <2>2, Zenon
  <2>3. CASE f \notin Pending'
    BY <2>1, <2>3, Zenon
  <2> QED
    BY <2>2, <2>3
<1>11. \A t \in Ticks : owed'[t] = owed[t] \ {f}
  BY <1>7, Zenon
<1>12. Asked' = Asked /\ OncePerTick' /\ ToldAfterFlush'
  <2>1. \A t \in Ticks : owed[t] \subseteq Carried(stack) =>
                           owed'[t] \subseteq Carried(stack')
    BY <1>9, <1>11, Zenon
  <2> QED
    BY <1>0, <1>1, <1>7, <2>1, SameMicrotasks, ToldKept
<1>13. OwedIsPending' /\ OncePerJob'
  BY <1>1, <1>10, <1>11, Zenon DEF Sound, OwedIsPending, OncePerJob
<1>14. Promised
  BY <1>4, <1>6, <1>7, <1>10, <1>12, Runs, Zenon
<1> QED
  BY <1>7, <1>12, <1>13, <1>14, Zenon DEF Sound

\* Leaving a frame that carries nothing and is not a loop of flushJobs.
LEMMA PopImplements ==
  ASSUME Sound, Unstranded', stack # << >>, Top.at \notin {"jobs", "posts"},
         Top.todo = << >>, stack' = Front(stack), queue' = queue,
         postFlushCbs' = postFlushCbs, microtasks' = microtasks, owed' = owed
  PROVE  Sound' /\ Promised
<1>0. TypeOK /\ OncePerTick /\ ToldAfterFlush /\ stack \in Seq(Frame)
  BY DEF Sound, Unstranded, TypeOK
<1>1. FlushKept
  BY PoppedKept DEF Sound, Unstranded
<1>2. Carried(stack') = Carried(stack)
  BY <1>0, CarriedPop, EmptyToSet DEF Top, Last
<1>3. TodoInLoops'
  <2>1. /\ stack' \in Seq(Frame) /\ Len(stack') = Len(stack) - 1
        /\ \A i \in 1..(Len(stack) - 1) : stack'[i] = stack[i]
    BY <1>0, Popped
  <2>2. /\ DOMAIN stack' = 1..(Len(stack) - 1) /\ DOMAIN stack = 1..Len(stack)
        /\ \A i \in 1..(Len(stack) - 1) : i \in 1..Len(stack)
    BY <1>0, <2>1, SMT
  <2> QED
    BY <2>1, <2>2, Zenon DEF Sound, TodoInLoops
<1>4. Pending' = Pending
  BY <1>2, PendingParts, PendingPartsPrimed, Zenon DEF Queued
<1>5. Asked' = Asked /\ OncePerTick' /\ ToldAfterFlush'
  <2>1. \A t \in Ticks : owed[t] \subseteq Carried(stack) =>
                           owed'[t] \subseteq Carried(stack')
    BY <1>2, Zenon
  <2> QED
    BY <1>0, <1>1, <2>1, SameMicrotasks, ToldKept DEF FlushKept
<1>6. OwedIsPending' /\ OncePerJob'
  BY <1>4, Zenon DEF Sound, OwedIsPending, OncePerJob
<1>7. Promised
  BY <1>4, <1>5, Stutters
<1> QED
  BY <1>3, <1>5, <1>6, <1>7, Zenon DEF Sound

LEMMA EndFlushImplements ==
  ASSUME Sound, Unstranded', EndFlush
  PROVE  Sound' /\ Promised
<1>0. TypeOK /\ SingleFlush /\ OncePerTick /\ ToldAfterFlush /\ stack \in Seq(Frame)
  BY DEF Sound, Unstranded, TypeOK
<1>1. /\ At({"posts"}) /\ Top.todo = << >> /\ postFlushCbs' = postFlushCbs
      /\ microtasks' = microtasks /\ owed' = owed
  BY DEF EndFlush
<1>2. /\ Len(stack) = 1 /\ stack # << >> /\ stack[1] = Top /\ Top \in Frame
      /\ ~JobLoopActive /\ DOMAIN stack = {1}
  BY <1>0, <1>1, FlushOnTop, SMT DEF At, JobLoopActive
<1>3. Carried(stack) = {}
  BY <1>1, <1>2, EmptyToSet, Zenon DEF Carried
<1>4. Asked' = Asked /\ OncePerTick'
  BY <1>0, <1>1, SameMicrotasks
<1>5. CASE queue # << >> \/ postFlushCbs # << >>
  <2>1. EnterFlush(Top.seen) /\ Top.seen \in Counts
    BY <1>2, <1>5, FrameFields DEF EndFlush
  <2>2. ~SortThrows(queue)
    BY <1>2 DEF Sound, Unstranded, SortThrows
  <2>3. /\ ToSet(queue') = ToSet(queue) /\ OncePerJob' /\ TodoInLoops'
        /\ FlushActive' /\ Carried(stack') = {}
    BY <1>0, <2>1, <2>2, EnterFlushQueue
  <2>4. Pending' = Pending
    BY <1>1, <1>3, <2>3, PendingParts, PendingPartsPrimed, Zenon DEF Queued
  <2>5. ToldAfterFlush' /\ OwedIsPending'
    BY <1>1, <2>3, <2>4, Zenon DEF ToldAfterFlush, Sound, OwedIsPending
  <2>6. Promised
    BY <1>1, <1>4, <2>4, Stutters
  <2> QED
    BY <1>4, <2>3, <2>5, <2>6, Zenon DEF Sound
<1>6. CASE ~(queue # << >> \/ postFlushCbs # << >>)
  <2>1. stack' = << >> /\ queue' = queue
    BY <1>6 DEF EndFlush
  <2>2. Pending = {} /\ Pending' = {}
    BY <1>1, <1>3, <1>6, <2>1, EmptyToSet, CarriedNone, PendingParts,
       PendingPartsPrimed, Zenon DEF Queued
  <2>3. \A t \in Ticks : owed'[t] = {}
    BY <1>1, <2>2, Zenon DEF Sound, OwedIsPending
  <2>4. ToldAfterFlush'
    <3>1. \A i \in DOMAIN microtasks' : microtasks'[i] # FlushTask => microtasks'[i] \in Ticks
      BY <1>0, <1>1, SMT DEF TypeOK
    <3> QED
      BY <2>3, <3>1, Zenon DEF ToldAfterFlush
  <2>5. TodoInLoops'
    BY <2>1, SMT DEF TodoInLoops
  <2>6. OwedIsPending' /\ OncePerJob'
    BY <2>1, <2>3, Zenon DEF Sound, OwedIsPending, OncePerJob
  <2>7. Promised
    BY <1>1, <1>4, <2>2, Stutters
  <2> QED
    BY <1>4, <2>4, <2>5, <2>6, <2>7, Zenon DEF Sound
<1> QED
  BY <1>5, <1>6

LEMMA RunTickImplements ==
  ASSUME Sound, Unstranded', RunTick
  PROVE  Sound' /\ Promised
<1>0. TypeOK /\ OncePerTick /\ ToldAfterFlush
  BY DEF Sound, Unstranded
<1> DEFINE t == Head(microtasks)
           f == CodeFrame("tick", t)
<1>1. /\ stack = << >> /\ microtasks # << >> /\ t # FlushTask
      /\ microtasks' = Tail(microtasks) /\ stack' = << f >>
      /\ queue' = queue /\ postFlushCbs' = postFlushCbs /\ owed' = owed
  BY DEF RunTick
<1>2. f.at = "tick" /\ f.todo = << >>
  BY DEF CodeFrame
<1>3. t \in Ticks /\ t \in ToSet(microtasks)
  BY <1>0, <1>1, SMT DEF TypeOK, ToSet
<1>4. /\ OncePerTick' /\ Asked' = Asked \ {t}
      /\ \A i \in DOMAIN microtasks' : /\ i + 1 \in DOMAIN microtasks
                                       /\ microtasks'[i] = microtasks[i + 1]
                                       /\ microtasks[i + 1] # t
      /\ 1 \in DOMAIN microtasks /\ t = microtasks[1]
  BY <1>0, <1>1, NextMicrotask
<1> HIDE DEF t, f
<1>5. Carried(stack) = {} /\ ~FlushActive
  BY <1>1, CarriedNone DEF FlushActive
<1>6. DOMAIN stack' = {1} /\ stack'[1] = f
  BY <1>1, SMT
<1>7. Carried(stack') = {} /\ TodoInLoops'
  BY <1>2, <1>6, EmptyToSet, Zenon DEF Carried, TodoInLoops
<1>8. owed[t] = {}
  <2>1. 1..(1 - 1) = {}
    BY SMT
  <2>2. owed[t] \subseteq {}
    BY <1>1, <1>4, <1>5, <2>1, Zenon DEF Sound, ToldAfterFlush
  <2> QED
    BY <2>2, Zenon
<1>9. Pending' = Pending
  BY <1>1, <1>5, <1>7, PendingParts, PendingPartsPrimed, Zenon DEF Queued
<1>10. ToldAfterFlush'
  <2> SUFFICES ASSUME NEW i \in DOMAIN microtasks', microtasks'[i] # FlushTask,
                      ~(owed'[microtasks'[i]] \subseteq {})
               PROVE  \E k \in 1..(i - 1) : microtasks'[k] = FlushTask
    BY <1>7, Zenon DEF ToldAfterFlush
  <2>1. PICK k \in 1..((i + 1) - 1) : microtasks[k] = FlushTask
    BY <1>1, <1>4, <1>5, Zenon DEF Sound, ToldAfterFlush
  <2>2. /\ i \in 1..(Len(microtasks) - 1) /\ k # 1
        /\ DOMAIN microtasks' = 1..(Len(microtasks) - 1) /\ Len(microtasks) \in Nat
    <3>1. DOMAIN microtasks' = 1..(Len(microtasks) - 1) /\ Len(microtasks) \in Nat
      BY <1>0, <1>1, TailSet DEF TypeOK
    <3> QED
      BY <1>1, <1>4, <2>1, <3>1, Zenon
  <2>3. k - 1 \in 1..(i - 1) /\ k - 1 \in DOMAIN microtasks' /\ k - 1 + 1 = k
    BY <2>1, <2>2, SMT
  <2> QED
    BY <1>4, <2>1, <2>3, Zenon
<1>11. OwedIsPending' /\ OncePerJob'
  BY <1>1, <1>9, Zenon DEF Sound, OwedIsPending, OncePerJob
<1>12. Promised
  BY <1>1, <1>3, <1>4, <1>8, <1>9, Tells, Zenon DEF Asked
<1> QED
  BY <1>4, <1>7, <1>10, <1>11, <1>12, Zenon DEF Sound

--------------------------------------------------------------------------------
LEMMA SoundInit == Init => Sound /\ Deferred!Init
<1> SUFFICES ASSUME Init PROVE Sound /\ Deferred!Init
  OBVIOUS
<1>1. Unstranded
  BY UnstrandedInit
<1>2. /\ queue = << >> /\ postFlushCbs = << >> /\ microtasks = << >> /\ stack = << >>
      /\ owed = [t \in Ticks |-> {}]
  BY DEF Init
<1>3. DOMAIN queue = {} /\ DOMAIN microtasks = {} /\ DOMAIN stack = {}
  BY <1>2, SMT
<1>4. TodoInLoops /\ OncePerJob /\ OncePerTick /\ ToldAfterFlush
  BY <1>3, Zenon DEF TodoInLoops, OncePerJob, OncePerTick, ToldAfterFlush
<1>5. OwedIsPending
  BY <1>2, Zenon DEF OwedIsPending
<1>6. Pending = {} /\ Asked = {}
  BY <1>2, EmptyToSet, CarriedNone, PendingParts, Zenon DEF Queued, Asked
<1>7. Deferred!Init
  BY <1>2, <1>6 DEF Deferred!Init, Asked
<1> QED
  BY <1>1, <1>4, <1>5, <1>7 DEF Sound

LEMMA SoundStep ==
  ASSUME Calm, Sound, [Next]_vars
  PROVE  Sound' /\ Promised
<1>0. Unstranded' /\ Dev = FALSE
  BY UnstrandedStep, FlagsAssumption DEF Sound, Calm
<1> DEFINE Goal == Sound' /\ Promised
<1>1. ASSUME NEW j \in Jobs, QueueJob(j) PROVE Goal
  BY <1>0, <1>1, QueueJobImplements
<1>2. ASSUME NEW j \in Jobs, InvalidateJob(j) PROVE Goal
  BY <1>0, <1>2, InvalidateJobImplements
<1>3. ASSUME NEW cbs \in CbArrays, QueuePostFlushCb(cbs) PROVE Goal
  BY <1>0, <1>3, QueuePostFlushCbImplements
<1>4. ASSUME NEW t \in Ticks, NextTick(t) PROVE Goal
  BY <1>0, <1>4, NextTickImplements
<1>5. ASSUME RenderFlush PROVE Goal
  BY <1>0, <1>5, RenderFlushImplements
<1>6. ASSUME FlushJobs PROVE Goal
  BY <1>0, <1>6, FlushJobsImplements
<1>7. ASSUME SkipInvalidated PROVE Goal
  BY <1>0, <1>7, SkipInvalidatedImplements
<1>8. ASSUME RunJob PROVE Goal
  BY <1>0, <1>8, RunJobImplements
<1>9. ASSUME EnterPosts PROVE Goal
  BY <1>0, <1>9, EnterPostsImplements
<1>10. ASSUME RunPost PROVE Goal
  BY <1>0, <1>10, RunPostImplements
<1>11. ASSUME EndRender PROVE Goal
  <2>1. stack # << >> /\ Top.at \notin {"jobs", "posts"} /\ Top.todo = << >>
    BY <1>11 DEF EndRender, At
  <2> QED
    BY <1>0, <1>11, <2>1, PopImplements DEF EndRender
<1>12. ASSUME EndFlush PROVE Goal
  BY <1>0, <1>12, EndFlushImplements
<1>13. ASSUME RunTick PROVE Goal
  BY <1>0, <1>13, RunTickImplements
<1>14. ASSUME Return PROVE Goal
  <2>1. /\ stack # << >> /\ Top.at \in UserKinds /\ Top = stack[Len(stack)]
        /\ Len(stack) \in DOMAIN stack
    BY <1>14, SMT DEF Return, At, Top, Last, Sound, Unstranded, TypeOK
  <2>2. Top.at \notin {"jobs", "posts", "render"}
    BY <2>1 DEF UserKinds
  <2>3. Top.todo = << >>
    BY <2>1, <2>2, Zenon DEF Sound, TodoInLoops
  <2> QED
    BY <1>0, <1>14, <2>1, <2>2, <2>3, PopImplements DEF Return
<1>15. ASSUME Throw PROVE Goal
  BY <1>15 DEF Throw, Calm
<1>16. ASSUME UNCHANGED vars PROVE Goal
  <2>1. /\ queue' = queue /\ postFlushCbs' = postFlushCbs /\ microtasks' = microtasks
        /\ stack' = stack /\ owed' = owed
    BY <1>16 DEF vars
  <2>2. Pending' = Pending /\ Asked' = Asked
    BY <2>1, Zenon DEF Pending, Asked
  <2>3. Promised
    BY <2>1, <2>2, Stutters
  <2>4. /\ TodoInLoops' /\ OncePerJob' /\ OncePerTick' /\ OwedIsPending'
        /\ ToldAfterFlush'
    BY <2>1, <2>2, Zenon DEF Sound, TodoInLoops, OncePerJob, OncePerTick,
       OwedIsPending, ToldAfterFlush, FlushActive
  <2> QED
    BY <1>0, <2>3, <2>4 DEF Sound
<1> QED
  BY <1>1, <1>2, <1>3, <1>4, <1>5, <1>6, <1>7, <1>8, <1>9, <1>10, <1>11, <1>12,
     <1>13, <1>14, <1>15, <1>16 DEF Next, Calls, Steps

\* In a production build whose code does not throw and updates components in
\* flushed jobs only, the scheduler does nothing but what DeferredWork promises:
\* what runs was handed over and not cancelled, it runs once, and nextTick's
\* callback is called when what was pending at the call has run.
THEOREM ImplementsSafely ==
  ASSUME Calm
  PROVE  Spec => Deferred!Init /\ [][Deferred!Next]_(Deferred!vars)
<1>1. Init => Sound /\ Deferred!Init
  BY SoundInit
<1>2. Sound /\ [Next]_vars => Sound' /\ [Deferred!Next]_(Deferred!vars)
  BY SoundStep DEF Promised
<1> QED
  BY <1>1, <1>2, PTL DEF Spec

================================================================================
