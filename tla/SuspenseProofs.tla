----------------------------- MODULE SuspenseProofs -----------------------------
(***************************************************************************)
(* Theorems about Suspense, for all trees of boundaries and all            *)
(* components.                                                             *)
(***************************************************************************)
EXTENDS Suspense, FiniteSetTheorems, SequenceTheorems, WellFoundedInduction, TLAPS

--------------------------------------------------------------------------------
(* The types. *)

Boundary == [state : {"new", "live", "unmounted"}, deps : Int, isResolved : BOOLEAN,
             effects : SUBSET Effects, content : {"hidden", "shown"}, fallback : Nat,
             shown : BOOLEAN]

Boundaries == [Bounds -> Boundary]

Phases == {"new", "pending", "rendered", "removed", "zombie"}

Frame == [kind : {"mount", "patch", "settle", "unmount"}, at : Bounds \cup {None},
          todo : SUBSET Comps, into : {"nowhere", "hidden", "shown"}]

TypeOK ==
  /\ bound \in Boundaries /\ phase \in [Comps -> Phases]
  /\ waiting \in SUBSET Async /\ isUnmounted \in SUBSET Comps
  /\ jobs \in Seq(Bounds) /\ posts \in SUBSET Effects /\ ran \in SUBSET Effects
  /\ stack \in Seq(Frame)

--------------------------------------------------------------------------------
(* Where an effect is, of the boundaries b and the post-flush callbacks p. *)

Held(e, b, p) == e \in p \/ \E s \in Bounds : e \in b[s].effects

Once(e, b, p) ==
  /\ \A s, t \in Bounds : e \in b[s].effects /\ e \in b[t].effects => s = t
  /\ \A s \in Bounds : e \in b[s].effects => e \notin p

\* The effects may move but are the same, each as often as before.
SameEffects(b, p, b2, p2) ==
  \A e \in Effects : /\ Held(e, b2, p2) <=> Held(e, b, p)
                     /\ Once(e, b, p) => Once(e, b2, p2)

\* The effect e is there more, and the others are as they were.
OneMore(e, b, p, b2, p2) ==
  /\ Held(e, b2, p2) /\ (~Held(e, b, p) => Once(e, b2, p2))
  /\ \A x \in Effects \ {e} : /\ Held(x, b2, p2) <=> Held(x, b, p)
                              /\ Once(x, b, p) => Once(x, b2, p2)

LEMMA SmallestIn ==
  ASSUME NEW S \in SUBSET Nat, S # {}
  PROVE  Min(S) \in S /\ \A k \in S : Min(S) <= k
<1>1. PICK m \in S : \A k \in S : << k, m >> \notin OpToRel(<, Nat)
  BY WFMin, NatLessThanWellFounded, Zenon
<1>2. \A k \in S : ~(k < m)
  BY <1>1, Zenon DEF OpToRel
<1>3. \A k \in S : m <= k
  BY <1>2
<1> QED
  BY <1>3 DEF Min

\* An effect is queued in a boundary that is pending, or to run after the flush.
LEMMA QueueAdds ==
  ASSUME NEW b \in Boundaries, NEW p \in SUBSET Effects, NEW e \in Effects,
         NEW s \in Bounds \cup {None}
  PROVE  LET q == QueueEffectWithSuspense(e, s, b, p) IN
         /\ q.bound \in Boundaries /\ q.posts \in SUBSET Effects
         /\ OneMore(e, b, p, q.bound, q.posts)
<1>1. CASE s # None /\ ~b[s].isResolved
  <2> DEFINE c == [b EXCEPT ![s].effects = @ \cup {e}]
  <2>1. QueueEffectWithSuspense(e, s, b, p) = [bound |-> c, posts |-> p]
    BY <1>1 DEF QueueEffectWithSuspense, State
  <2>2. s \in Bounds
    BY <1>1
  <2>3. c \in Boundaries
    BY <2>2 DEF Boundaries, Boundary
  <2>4. \A t \in Bounds : c[t].effects = IF t = s THEN b[t].effects \cup {e} ELSE b[t].effects
    BY <2>2 DEF Boundaries, Boundary
  <2> HIDE DEF c
  <2>5. OneMore(e, b, p, c, p)
    BY <2>2, <2>4 DEF OneMore, Held, Once
  <2> QED
    BY <2>1, <2>3, <2>5
<1>2. CASE ~(s # None /\ ~b[s].isResolved)
  <2>1. QueueEffectWithSuspense(e, s, b, p) = [bound |-> b, posts |-> p \cup {e}]
    BY <1>2 DEF QueueEffectWithSuspense, State
  <2>2. OneMore(e, b, p, b, p \cup {e})
    BY DEF OneMore, Held, Once
  <2> QED
    BY <2>1, <2>2
<1> QED
  BY <1>1, <1>2

\* The resolved boundary has no effects left.
LEMMA ShownKeeps ==
  ASSUME NEW r \in Boundary
  PROVE  /\ Shown(r) \in Boundary /\ Shown(r).effects = {}
         /\ Shown(r).state = r.state /\ Shown(r).deps = r.deps
         /\ Shown(r).isResolved /\ Shown(r).shown /\ Shown(r).content = "shown"
<1> DEFINE f == IF r.fallback > 0 THEN r.fallback - 1 ELSE 0
<1>1. f \in Nat
  BY DEF Boundary
<1>2. Shown(r) = [r EXCEPT !.isResolved = TRUE, !.effects = {}, !.content = "shown",
                           !.shown = TRUE, !.fallback = f]
  BY Zenon DEF Shown
<1> HIDE DEF f
<1> QED
  BY <1>1, <1>2 DEF Boundary

\* Resolving a boundary moves its effects.
LEMMA ResolveMoves ==
  ASSUME NEW b \in Boundaries, NEW p \in SUBSET Effects, NEW s \in Bounds
  PROVE  LET q == Resolve(s, b, p) IN
         /\ q.bound \in Boundaries /\ q.posts \in SUBSET Effects
         /\ SameEffects(b, p, q.bound, q.posts)
<1> DEFINE done == [b EXCEPT ![s] = Shown(@)]
           pending == {i \in DOMAIN Outer[s] : ~b[Outer[s][i]].isResolved}
<1>1. b[s].effects \in SUBSET Effects /\ Shown(b[s]) \in Boundary /\ Shown(b[s]).effects = {}
  <2>1. b[s] \in Boundary
    BY DEF Boundaries
  <2> QED
    BY <2>1, ShownKeeps DEF Boundary
<1>2. done \in Boundaries /\ \A t \in Bounds : done[t].effects = IF t = s THEN {} ELSE b[t].effects
  BY <1>1 DEF Boundaries
<1> HIDE DEF done
<1>3. CASE pending = {}
  <2>1. Resolve(s, b, p) = [bound |-> done, posts |-> p \cup b[s].effects]
    BY <1>3 DEF Resolve, State, done
  <2>2. SameEffects(b, p, done, p \cup b[s].effects)
    BY <1>2 DEF SameEffects, Held, Once
  <2> QED
    BY <1>1, <1>2, <2>1, <2>2
<1>4. CASE pending # {}
  <2> DEFINE o == Outer[s][Min(pending)]
             more == [done EXCEPT ![o].effects = @ \cup b[s].effects]
  <2>1. Resolve(s, b, p) = [bound |-> more, posts |-> p]
    BY <1>4 DEF Resolve, State, done
  <2>2. Min(pending) \in pending
    <3>1. Outer[s] \in Seq(Bounds)
      BY BoundsAssumption
    <3>2. pending \in SUBSET Nat
      BY <3>1
    <3> QED
      BY <1>4, <3>2, SmallestIn
  <2>3. o \in Bounds
    BY <2>2, BoundsAssumption
  <2> HIDE DEF o
  <2>4. more \in Boundaries
    BY <1>1, <1>2, <2>3 DEF Boundaries, Boundary
  <2>5. \A t \in Bounds : more[t].effects = IF t = o THEN done[t].effects \cup b[s].effects
                                            ELSE done[t].effects
    BY <1>1, <1>2, <2>3 DEF Boundaries, Boundary
  <2> HIDE DEF more
  <2>6. SameEffects(b, p, more, p)
    BY <1>2, <2>3, <2>5 DEF SameEffects, Held, Once
  <2> QED
    BY <2>1, <2>4, <2>6
<1> QED
  BY <1>3, <1>4

\* So does the last dep.
LEMMA DropMoves ==
  ASSUME NEW b \in Boundaries, NEW p \in SUBSET Effects, NEW s \in Bounds
  PROVE  LET q == DropDep(s, b, p) IN
         /\ q.bound \in Boundaries /\ q.posts \in SUBSET Effects
         /\ SameEffects(b, p, q.bound, q.posts)
<1> DEFINE less == [b EXCEPT ![s].deps = @ - 1]
<1>1. less \in Boundaries /\ \A t \in Bounds : less[t].effects = b[t].effects
  BY DEF Boundaries, Boundary
<1> HIDE DEF less
<1>2. SameEffects(b, p, less, p)
  BY <1>1 DEF SameEffects, Held, Once
<1>3. CASE less[s].deps = 0
  <2>1. DropDep(s, b, p) = Resolve(s, less, p)
    BY <1>3 DEF DropDep, less
  <2> QED
    BY <1>1, <1>2, <2>1, ResolveMoves DEF SameEffects
<1>4. CASE less[s].deps # 0
  <2>1. DropDep(s, b, p) = [bound |-> less, posts |-> p]
    BY <1>4 DEF DropDep, less, State
  <2> QED
    BY <1>1, <1>2, <2>1
<1> QED
  BY <1>3, <1>4

--------------------------------------------------------------------------------
(* The stack. *)

\* Trees are unmounted within patches, and promises settle when nothing else is
\* under way.
FrameOK(f, i, n) ==
  /\ f.kind = "unmount" => i = n /\ \A c \in f.todo : phase[c] \in {"pending", "rendered"}
  /\ f.kind = "settle" => i = 1 /\ \E c \in Comps : f.todo = {c}
  /\ f.kind # "unmount" \/ f.into # "nowhere" => f.at \in Bounds

Frames == \A i \in DOMAIN stack : FrameOK(stack[i], i, Len(stack))

Shape == TypeOK /\ Frames

\* A frame more keeps those below.
LEMMA Pushed ==
  ASSUME NEW s \in Seq(Frame), NEW f \in Frame
  PROVE  LET t == Append(s, f) IN
         /\ t \in Seq(Frame) /\ Len(t) = Len(s) + 1 /\ t[Len(t)] = f
         /\ Len(t) \in DOMAIN t /\ \A i \in DOMAIN s : i \in DOMAIN t /\ t[i] = s[i]
         /\ \A i \in DOMAIN t : i = Len(t) \/ (i \in DOMAIN s /\ i # Len(t))
OBVIOUS

\* A frame less keeps those below.
LEMMA Popped ==
  ASSUME NEW s \in Seq(Frame), s # << >>
  PROVE  /\ Front(s) \in Seq(Frame) /\ Len(Front(s)) = Len(s) - 1
         /\ \A i \in DOMAIN Front(s) : i \in DOMAIN s /\ i # Len(s) /\ Front(s)[i] = s[i]
         /\ \A i \in DOMAIN s : i = Len(s) \/ i \in DOMAIN Front(s)
         /\ Len(s) \in DOMAIN s /\ Last(s) = s[Len(s)] /\ Last(s) \in Frame
         /\ Front(s) = << >> <=> Len(s) = 1
<1>1. Len(s) \in Nat /\ Len(s) > 0 /\ DOMAIN s = 1..Len(s)
  OBVIOUS
<1>2. /\ Front(s) = SubSeq(s, 1, Len(s) - 1) /\ Front(s) \in Seq(Frame)
      /\ Len(Front(s)) = Len(s) - 1 /\ \A i \in 1..(Len(s) - 1) : Front(s)[i] = s[i]
  BY <1>1 DEF Front
<1>3. DOMAIN Front(s) = 1..(Len(s) - 1)
  BY <1>2
<1>4. Front(s) = << >> <=> Len(Front(s)) = 0
  BY <1>2, EmptySeq, Zenon
<1> QED
  BY <1>1, <1>2, <1>3, <1>4 DEF Last

\* The top frame loses a component.
LEMMA TopLess ==
  ASSUME NEW s \in Seq(Frame), s # << >>, NEW c
  PROVE  LET t == [s EXCEPT ![Len(s)].todo = @ \ {c}] IN
         /\ t \in Seq(Frame) /\ Len(t) = Len(s) /\ DOMAIN t = DOMAIN s
         /\ \A i \in DOMAIN s : i # Len(s) => t[i] = s[i]
         /\ t[Len(s)].kind = s[Len(s)].kind /\ t[Len(s)].at = s[Len(s)].at
         /\ t[Len(s)].into = s[Len(s)].into /\ t[Len(s)].todo = s[Len(s)].todo \ {c}
<1> DEFINE f == [s[Len(s)] EXCEPT !.todo = @ \ {c}]
           t == [s EXCEPT ![Len(s)].todo = @ \ {c}]
<1>1. s[Len(s)] \in Frame /\ Len(s) \in DOMAIN s
  OBVIOUS
<1>2. /\ f \in Frame /\ f.kind = s[Len(s)].kind /\ f.at = s[Len(s)].at
      /\ f.into = s[Len(s)].into /\ f.todo = s[Len(s)].todo \ {c}
  BY <1>1 DEF Frame
<1>3. t = [s EXCEPT ![Len(s)] = f]
  BY <1>1
<1> HIDE DEF t, f
<1>4. /\ t \in Seq(Frame) /\ Len(t) = Len(s) /\ DOMAIN t = DOMAIN s /\ t[Len(s)] = f
      /\ \A i \in DOMAIN s : i # Len(s) => t[i] = s[i]
  BY <1>1, <1>2, <1>3
<1> QED
  BY <1>2, <1>4 DEF t

\* The frames that are pushed.
LEMMA FramesMade ==
  /\ \A kind \in {"mount", "patch", "settle"}, s \in Bounds, todo \in SUBSET Comps :
       LET f == RenderFrame(kind, s, todo) IN
       f \in Frame /\ f.kind = kind /\ f.at = s /\ f.todo = todo /\ f.into = "nowhere"
  /\ \A todo \in SUBSET Comps, s \in Bounds \cup {None}, into \in {"nowhere", "hidden", "shown"} :
       LET f == UnmountFrame(todo, s, into) IN
       f \in Frame /\ f.kind = "unmount" /\ f.at = s /\ f.todo = todo /\ f.into = into
BY DEF RenderFrame, UnmountFrame, Frame

\* The boundary around another.
LEMMA ParentTyped == \A s \in Bounds : Parent(s) \in Bounds \cup {None}
BY BoundsAssumption DEF Parent

\* What is on the top of the stack.
LEMMA TopTyped ==
  ASSUME Shape, ~Idle
  PROVE  /\ Top = stack[Len(stack)] /\ Len(stack) \in DOMAIN stack /\ Top \in Frame
         /\ FrameOK(Top, Len(stack), Len(stack))
BY Popped DEF Shape, TypeOK, Frames, Idle, Top

\* Below a frame of another kind nothing is unmounted.
LEMMA NoUnmount ==
  ASSUME Shape, Idle \/ Top.kind # "unmount"
  PROVE  \A i \in DOMAIN stack : stack[i].kind # "unmount"
BY TopTyped DEF Shape, TypeOK, Frames, FrameOK, Idle

\* Nor does anything settle below a frame.
LEMMA FrameMore ==
  ASSUME Shape, Idle \/ Top.kind # "unmount", NEW f \in Frame,
         FrameOK(f, Len(stack), Len(stack))', stack' = Append(stack, f),
         phase' = phase
  PROVE  Frames' /\ stack' \in Seq(Frame)
<1>1. stack \in Seq(Frame)
  BY DEF Shape, TypeOK
<1>2. \A i \in DOMAIN stack : FrameOK(stack[i], i, Len(stack')) /\ stack[i].kind # "unmount"
  BY NoUnmount DEF Shape, Frames, FrameOK
<1> QED
  BY <1>1, <1>2, Pushed DEF Frames, FrameOK

\* A frame that has ended leaves the others.
LEMMA FrameLess ==
  ASSUME Shape, ~Idle, stack' = Front(stack)
  PROVE  Frames' /\ stack' \in Seq(Frame)
<1>1. stack \in Seq(Frame) /\ stack # << >>
  BY DEF Shape, TypeOK, Idle
<1>2. \A i \in DOMAIN stack : i # Len(stack) => stack[i].kind # "unmount"
  BY DEF Shape, Frames, FrameOK
<1>3. stack' \in Seq(Frame)
  BY <1>1, Popped
<1>4. ASSUME NEW i \in DOMAIN stack'
      PROVE  FrameOK(stack[i], i, Len(stack))'
  <2>1. i \in DOMAIN stack /\ i # Len(stack) /\ stack'[i] = stack[i]
    BY <1>1, <1>4, Popped
  <2>2. FrameOK(stack[i], i, Len(stack)) /\ stack[i].kind # "unmount"
    BY <1>2, <2>1 DEF Shape, Frames
  <2> QED
    BY <2>1, <2>2 DEF FrameOK
<1> QED
  BY <1>3, <1>4 DEF Frames

--------------------------------------------------------------------------------
(* Every step keeps the types and the shape of the stack. *)

\* A boundary is replaced by another value of it.
LEMMA BoundSet ==
  ASSUME NEW b \in Boundaries, NEW s \in Bounds, NEW r \in Boundary
  PROVE  /\ b[s] \in Boundary /\ [b EXCEPT ![s] = r] \in Boundaries
         /\ \A t \in Bounds : [b EXCEPT ![s] = r][t] = IF t = s THEN r ELSE b[t]
BY DEF Boundaries

\* So are its effects kept.
LEMMA EffectsSame ==
  ASSUME bound \in Boundaries, NEW s \in Bounds, NEW r \in Boundary,
         r.effects = bound[s].effects, bound' = [bound EXCEPT ![s] = r]
  PROVE  bound' \in Boundaries /\ \A t \in Bounds : bound'[t].effects = bound[t].effects
BY DEF Boundaries

\* One field of a boundary is changed.
LEMMA StateSet ==
  ASSUME NEW r \in Boundary, NEW v \in {"new", "live", "unmounted"}
  PROVE  LET q == [r EXCEPT !.state = v] IN
         /\ q \in Boundary /\ q.state = v /\ q.deps = r.deps /\ q.isResolved = r.isResolved
         /\ q.effects = r.effects /\ q.content = r.content /\ q.fallback = r.fallback
         /\ q.shown = r.shown
BY DEF Boundary

LEMMA DepsSet ==
  ASSUME NEW r \in Boundary, NEW v \in Int
  PROVE  LET q == [r EXCEPT !.deps = v] IN
         /\ q \in Boundary /\ q.state = r.state /\ q.deps = v /\ q.isResolved = r.isResolved
         /\ q.effects = r.effects /\ q.content = r.content /\ q.fallback = r.fallback
         /\ q.shown = r.shown
BY DEF Boundary

LEMMA FallbackSet ==
  ASSUME NEW r \in Boundary, NEW v \in Nat
  PROVE  LET q == [r EXCEPT !.fallback = v] IN
         /\ q \in Boundary /\ q.state = r.state /\ q.deps = r.deps /\ q.isResolved = r.isResolved
         /\ q.effects = r.effects /\ q.content = r.content /\ q.fallback = v
         /\ q.shown = r.shown
BY DEF Boundary

LEMMA ContentSet ==
  ASSUME NEW r \in Boundary, NEW v \in {"hidden", "shown"}
  PROVE  LET q == [r EXCEPT !.content = v] IN
         /\ q \in Boundary /\ q.state = r.state /\ q.deps = r.deps /\ q.isResolved = r.isResolved
         /\ q.effects = r.effects /\ q.content = v /\ q.fallback = r.fallback
         /\ q.shown = r.shown
BY DEF Boundary

LEMMA HiddenKeeps ==
  ASSUME NEW r \in Boundary
  PROVE  /\ Hidden(r) \in Boundary /\ Hidden(r).state = r.state /\ Hidden(r).deps = r.deps
         /\ ~Hidden(r).isResolved /\ Hidden(r).effects = r.effects
         /\ Hidden(r).content = "hidden" /\ Hidden(r).fallback = r.fallback + 1
         /\ Hidden(r).shown = r.shown
<1> DEFINE n == r.fallback + 1
<1>1. n \in Nat
  BY DEF Boundary
<1>2. Hidden(r) = [r EXCEPT !.isResolved = FALSE, !.content = "hidden", !.fallback = n]
  BY Zenon DEF Hidden
<1> HIDE DEF n
<1>3. /\ Hidden(r) \in Boundary /\ Hidden(r).state = r.state /\ Hidden(r).deps = r.deps
      /\ ~Hidden(r).isResolved /\ Hidden(r).effects = r.effects
      /\ Hidden(r).content = "hidden" /\ Hidden(r).fallback = n /\ Hidden(r).shown = r.shown
  BY <1>1, <1>2 DEF Boundary
<1> QED
  BY <1>3 DEF n

\* The boundaries that are unmounted.
LEMMA UnmountedTyped ==
  ASSUME bound \in Boundaries, NEW bs
  PROVE  /\ Unmounted(bs) \in Boundaries
         /\ \A t \in Bounds :
              /\ Unmounted(bs)[t].state = IF t \in bs /\ Live(t) THEN "unmounted" ELSE bound[t].state
              /\ Unmounted(bs)[t].deps = bound[t].deps
              /\ Unmounted(bs)[t].isResolved = bound[t].isResolved
              /\ Unmounted(bs)[t].effects = bound[t].effects
              /\ Unmounted(bs)[t].content = bound[t].content
              /\ Unmounted(bs)[t].shown = bound[t].shown
              /\ ~(t \in bs /\ Live(t)) => Unmounted(bs)[t].fallback = bound[t].fallback
<1> DEFINE less(t) == IF bound[t].isResolved \/ bound[t].fallback = 0
                      THEN bound[t].fallback ELSE bound[t].fallback - 1
           r(t) == [bound[t] EXCEPT !.state = "unmounted", !.fallback = less(t)]
<1>1. \A t \in Bounds :
        /\ bound[t] \in Boundary /\ less(t) \in Nat
  BY DEF Boundaries, Boundary
<1>2. Unmounted(bs) = [t \in Bounds |-> IF t \in bs /\ Live(t) THEN r(t) ELSE bound[t]]
  BY DEF Unmounted
<1> HIDE DEF less
<1>3. \A t \in Bounds :
        /\ r(t) \in Boundary /\ r(t).state = "unmounted" /\ r(t).deps = bound[t].deps
        /\ r(t).isResolved = bound[t].isResolved /\ r(t).effects = bound[t].effects
        /\ r(t).content = bound[t].content /\ r(t).shown = bound[t].shown
  BY <1>1 DEF Boundary
<1> HIDE DEF r
<1>4. Unmounted(bs) \in Boundaries
  BY <1>1, <1>2, <1>3 DEF Boundaries
<1> QED
  BY <1>2, <1>3, <1>4

\* A component is unmounted for a boundary, which may lose its dep.
LEMMA UnmountMoves ==
  ASSUME Shape, NEW c \in Comps, NEW s \in Bounds \cup {None}, UnmountComponent(c, s)
  PROVE  /\ bound' \in Boundaries /\ posts' \in SUBSET Effects
         /\ OneMore(UnmountedMark(c), bound, posts, bound', posts')
         /\ phase' = [phase EXCEPT ![c] = "removed"]
         /\ waiting' = waiting /\ isUnmounted' = isUnmounted /\ jobs' = jobs /\ ran' = ran
<1> DEFINE q == QueueEffectWithSuspense(UnmountedMark(c), s, bound, posts)
           drops == /\ IsPending(s) /\ bound[s].state # "unmounted" /\ phase[c] = "pending"
           d == DropDep(s, q.bound, q.posts)
<1>1. /\ q.bound \in Boundaries /\ q.posts \in SUBSET Effects
      /\ OneMore(UnmountedMark(c), bound, posts, q.bound, q.posts)
  <2>1. UnmountedMark(c) \in Effects
    BY DEF UnmountedMark, Effects
  <2> QED
    BY <2>1, QueueAdds DEF Shape, TypeOK
<1>2. drops => s \in Bounds
  BY DEF IsPending
<1>3. /\ bound' = IF drops THEN d.bound ELSE q.bound
      /\ posts' = IF drops THEN d.posts ELSE q.posts
      /\ phase' = [phase EXCEPT ![c] = "removed"]
      /\ waiting' = waiting /\ isUnmounted' = isUnmounted /\ jobs' = jobs /\ ran' = ran
  BY DEF UnmountComponent, Becomes
<1> HIDE DEF q, drops
<1>4. CASE drops
  <2>1. /\ d.bound \in Boundaries /\ d.posts \in SUBSET Effects
        /\ SameEffects(q.bound, q.posts, d.bound, d.posts)
    BY <1>1, <1>2, <1>4, DropMoves
  <2> HIDE DEF d
  <2>2. OneMore(UnmountedMark(c), bound, posts, d.bound, d.posts)
    <3>1. UnmountedMark(c) \in Effects
      BY DEF UnmountedMark, Effects
    <3> QED
      BY <1>1, <2>1, <3>1 DEF OneMore, SameEffects
  <2> QED
    BY <1>3, <1>4, <2>1, <2>2
<1>5. CASE ~drops
  BY <1>1, <1>3, <1>5
<1> QED
  BY <1>4, <1>5

\* A boundary is mounted.
LEMMA MountShape ==
  ASSUME Shape, NEW s \in Bounds, MountSuspense(s)
  PROVE  Shape' /\ SameEffects(bound, posts, bound', posts')
<1> DEFINE f == RenderFrame("mount", s, {})
<1>1. bound[s] \in Boundary /\ bound' = [bound EXCEPT ![s] = [bound[s] EXCEPT !.state = "live"]]
  BY DEF MountSuspense, Shape, TypeOK, Boundaries
<1>2. bound' \in Boundaries /\ \A t \in Bounds : bound'[t].effects = bound[t].effects
  <2> DEFINE r == [bound[s] EXCEPT !.state = "live"]
  <2>1. r \in Boundary /\ r.effects = bound[s].effects
    BY <1>1, StateSet
  <2>2. bound' = [bound EXCEPT ![s] = r]
    BY <1>1
  <2> HIDE DEF r
  <2> QED
    BY <2>1, <2>2, EffectsSame, Zenon DEF Shape, TypeOK
<1>3. f \in Frame /\ FrameOK(f, Len(stack), Len(stack))'
  <2>1. f \in Frame /\ f.kind = "mount" /\ f.at = s /\ f.into = "nowhere"
    BY FramesMade
  <2> QED
    BY <2>1 DEF FrameOK
<1>4. Idle \/ Top.kind # "unmount"
  BY DEF MountSuspense, Rendering, Patching
<1>5. /\ phase' = phase /\ waiting' = waiting /\ isUnmounted' = isUnmounted /\ jobs' = jobs
      /\ posts' = posts /\ ran' = ran /\ stack' = Append(stack, f)
  BY DEF MountSuspense
<1>6. Frames' /\ stack' \in Seq(Frame)
  BY <1>3, <1>4, <1>5, FrameMore
<1> QED
  BY <1>2, <1>5, <1>6 DEF Shape, TypeOK, SameEffects, Held, Once

LEMMA EndMountShape ==
  ASSUME Shape, EndMount
  PROVE  Shape' /\ SameEffects(bound, posts, bound', posts')
<1> DEFINE s == Top.at
<1>1. s \in Bounds
  BY TopTyped DEF EndMount, FrameOK
<1>2. /\ phase' = phase /\ waiting' = waiting /\ isUnmounted' = isUnmounted /\ jobs' = jobs
      /\ ran' = ran /\ stack' = Front(stack) /\ ~Idle
  BY DEF EndMount
<1>3. bound' \in Boundaries /\ posts' \in SUBSET Effects /\ SameEffects(bound, posts, bound', posts')
  <2>1. CASE bound[s].deps > 0
    <3>1. bound' = [bound EXCEPT ![s].fallback = 1] /\ posts' = posts
      BY <2>1 DEF EndMount, Becomes, State
    <3>2. bound[s] \in Boundary /\ bound' = [bound EXCEPT ![s] = [bound[s] EXCEPT !.fallback = 1]]
      BY <1>1, <3>1 DEF Shape, TypeOK, Boundaries
    <3>3. bound' \in Boundaries /\ \A t \in Bounds : bound'[t].effects = bound[t].effects
      <4> DEFINE r == [bound[s] EXCEPT !.fallback = 1]
      <4>1. r \in Boundary /\ r.effects = bound[s].effects
        BY <3>2, FallbackSet
      <4>2. bound' = [bound EXCEPT ![s] = r]
        BY <3>2
      <4> HIDE DEF r
      <4> QED
        BY <1>1, <4>1, <4>2, EffectsSame, Zenon DEF Shape, TypeOK
    <3> QED
      BY <3>1, <3>3 DEF Shape, TypeOK, SameEffects, Held, Once
  <2>2. CASE ~(bound[s].deps > 0)
    <3>1. bound' = Resolve(s, bound, posts).bound /\ posts' = Resolve(s, bound, posts).posts
      BY <2>2 DEF EndMount, Becomes
    <3> QED
      BY <1>1, <3>1, ResolveMoves DEF Shape, TypeOK
  <2> QED
    BY <2>1, <2>2
<1>4. Frames' /\ stack' \in Seq(Frame)
  BY <1>2, FrameLess
<1> QED
  BY <1>2, <1>3, <1>4 DEF Shape, TypeOK

LEMMA PatchShape ==
  ASSUME Shape, NEW s \in Bounds, PatchSuspense(s)
  PROVE  Shape' /\ SameEffects(bound, posts, bound', posts')
<1> DEFINE f == RenderFrame("patch", s, {})
<1>1. f \in Frame /\ f.kind = "patch" /\ f.at = s /\ f.into = "nowhere"
  BY FramesMade
<1>2. FrameOK(f, Len(stack), Len(stack))'
  BY <1>1 DEF FrameOK
<1>3. /\ phase' = phase /\ waiting' = waiting /\ isUnmounted' = isUnmounted /\ jobs' = jobs
      /\ bound' = bound /\ posts' = posts /\ ran' = ran /\ stack' = Append(stack, f) /\ Idle
  BY DEF PatchSuspense
<1>4. Frames' /\ stack' \in Seq(Frame)
  BY <1>1, <1>2, <1>3, FrameMore
<1> QED
  BY <1>3, <1>4 DEF Shape, TypeOK, SameEffects

LEMMA EndPatchShape ==
  ASSUME Shape, EndPatch
  PROVE  Shape' /\ SameEffects(bound, posts, bound', posts')
<1>1. /\ phase' = phase /\ waiting' = waiting /\ isUnmounted' = isUnmounted /\ jobs' = jobs
      /\ bound' = bound /\ posts' = posts /\ ran' = ran /\ stack' = Front(stack) /\ ~Idle
  BY DEF EndPatch
<1>2. Frames' /\ stack' \in Seq(Frame)
  BY <1>1, FrameLess
<1> QED
  BY <1>1, <1>2 DEF Shape, TypeOK, SameEffects

\* The components of a tree that are mounted.
LEMMA InTreeMounted ==
  ASSUME NEW s
  PROVE  InTree(s) \in SUBSET Comps /\ \A c \in InTree(s) : phase[c] \in {"pending", "rendered"}
BY DEF InTree, Mounted

LEMMA RemoveSuspenseShape ==
  ASSUME Shape, NEW s \in Bounds, RemoveSuspense(s)
  PROVE  Shape' /\ SameEffects(bound, posts, bound', posts')
<1>1. PICK f \in Frame : /\ f = UnmountFrame(InTree(s), Parent(s), "nowhere")
                        /\ f.kind = "unmount" /\ f.todo = InTree(s) /\ f.into = "nowhere"
  BY FramesMade, ParentTyped, InTreeMounted
<1>2. /\ phase' = phase /\ waiting' = waiting /\ isUnmounted' = isUnmounted /\ jobs' = jobs
      /\ posts' = posts /\ ran' = ran /\ stack' = Append(stack, f)
      /\ bound' = Unmounted(Inside(s)) /\ (~Idle => Top.kind = "patch")
  BY <1>1 DEF RemoveSuspense
<1>3. FrameOK(f, Len(stack), Len(stack))'
  BY <1>1, <1>2, InTreeMounted DEF FrameOK
<1>4. Frames' /\ stack' \in Seq(Frame)
  BY <1>1, <1>2, <1>3, FrameMore
<1>5. bound' \in Boundaries /\ \A t \in Bounds : bound'[t].effects = bound[t].effects
  BY <1>2, UnmountedTyped DEF Shape, TypeOK
<1> QED
  BY <1>2, <1>4, <1>5 DEF Shape, TypeOK, SameEffects, Held, Once

LEMMA ReplaceShape ==
  ASSUME Shape, NEW s \in Bounds, ReplaceContent(s)
  PROVE  Shape' /\ SameEffects(bound, posts, bound', posts')
<1> DEFINE into == IF bound[s].isResolved THEN "shown" ELSE "hidden"
<1>0. PICK f \in Frame : /\ f = RenderFrame("patch", s, {})
                        /\ f.kind = "patch" /\ f.at = s /\ f.into = "nowhere"
  BY FramesMade
<1>1. PICK g \in Frame : /\ g = UnmountFrame(InTree(s), s, into)
                        /\ g.kind = "unmount" /\ g.at = s /\ g.todo = InTree(s)
  BY FramesMade, InTreeMounted
<1>2. /\ phase' = phase /\ waiting' = waiting /\ isUnmounted' = isUnmounted /\ jobs' = jobs
      /\ posts' = posts /\ ran' = ran /\ stack' = stack \o << f, g >>
      /\ bound' = Unmounted(Inside(s) \ {s}) /\ stack = << >>
  BY <1>0, <1>1 DEF ReplaceContent, Idle
<1>3. stack' = << f, g >>
  BY <1>2
<1>4. FrameOK(f, 1, 2)' /\ FrameOK(g, 2, 2)'
  BY <1>0, <1>1, <1>2, InTreeMounted DEF FrameOK
<1>5. Frames' /\ stack' \in Seq(Frame)
  <2>1. /\ stack' \in Seq(Frame) /\ Len(stack') = 2 /\ DOMAIN stack' = {1, 2}
        /\ stack'[1] = f /\ stack'[2] = g
    BY <1>1, <1>3
  <2> QED
    BY <1>4, <2>1 DEF Frames
<1>6. bound' \in Boundaries /\ \A t \in Bounds : bound'[t].effects = bound[t].effects
  BY <1>2, UnmountedTyped DEF Shape, TypeOK
<1> QED
  BY <1>2, <1>5, <1>6 DEF Shape, TypeOK, SameEffects, Held, Once

LEMMA EndUnmountShape ==
  ASSUME Shape, EndUnmount
  PROVE  Shape' /\ SameEffects(bound, posts, bound', posts')
<1> DEFINE s == Top.at
<1>1. /\ phase' = phase /\ waiting' = waiting /\ isUnmounted' = isUnmounted /\ jobs' = jobs
      /\ posts' = posts /\ ran' = ran /\ stack' = Front(stack) /\ ~Idle
  BY DEF EndUnmount
<1>2. Frames' /\ stack' \in Seq(Frame)
  BY <1>1, FrameLess
<1>3. bound' \in Boundaries /\ \A t \in Bounds : bound'[t].effects = bound[t].effects
  <2>1. CASE Top.into = "nowhere"
    BY <2>1 DEF EndUnmount, Shape, TypeOK
  <2>2. CASE Top.into # "nowhere"
    <3>1. s \in Bounds /\ Top.into \in {"hidden", "shown"}
      BY <1>1, <2>2, TopTyped DEF FrameOK, Frame
    <3>2. bound' = [bound EXCEPT ![s] = [bound[s] EXCEPT !.content = Top.into]]
      BY <2>2, <3>1 DEF EndUnmount, Shape, TypeOK, Boundaries
    <3> DEFINE r == [bound[s] EXCEPT !.content = Top.into]
    <3>3. r \in Boundary /\ r.effects = bound[s].effects
      <4>1. bound[s] \in Boundary
        BY <3>1 DEF Shape, TypeOK, Boundaries
      <4> QED
        BY <3>1, <4>1, ContentSet
    <3>4. bound' = [bound EXCEPT ![s] = r]
      BY <3>2
    <3> HIDE DEF r
    <3> QED
      BY <3>1, <3>3, <3>4, EffectsSame, Zenon DEF Shape, TypeOK
  <2> QED
    BY <2>1, <2>2
<1> QED
  BY <1>1, <1>2, <1>3 DEF Shape, TypeOK, SameEffects, Held, Once

\* A component that is not asynchronous queues its mounted hook.
LEMMA MountSyncShape ==
  ASSUME Shape, NEW c \in Comps, MountComponent(c), MountSync(c)
  PROVE  Shape' /\ OneMore(MountedHook(c), bound, posts, bound', posts')
<1> DEFINE q == QueueEffectWithSuspense(MountedHook(c), Home[c], bound, posts)
<1>1. MountedHook(c) \in Effects /\ Home[c] \in Bounds
  BY BoundsAssumption DEF MountedHook, Effects
<1>2. /\ q.bound \in Boundaries /\ q.posts \in SUBSET Effects
      /\ OneMore(MountedHook(c), bound, posts, q.bound, q.posts)
  BY <1>1, QueueAdds DEF Shape, TypeOK
<1>3. bound' = q.bound /\ posts' = q.posts
  BY DEF MountSync, Becomes
<1> HIDE DEF q
<1>4. /\ phase' = [phase EXCEPT ![c] = "rendered"] /\ waiting' = waiting /\ jobs' = jobs
      /\ isUnmounted' = isUnmounted /\ ran' = ran /\ stack' = stack
      /\ ~Idle /\ Top.kind # "unmount"
  BY DEF MountComponent, MountSync, Patching
<1>5. Frames'
  BY <1>4, NoUnmount DEF Shape, Frames, FrameOK
<1>6. phase' \in [Comps -> Phases]
  BY <1>4 DEF Shape, TypeOK, Phases
<1> QED
  BY <1>2, <1>3, <1>4, <1>5, <1>6 DEF Shape, TypeOK

\* One that is registers a dep.
LEMMA RegisterShape ==
  ASSUME Shape, NEW c \in Comps, MountComponent(c), RegisterDep(c)
  PROVE  Shape' /\ SameEffects(bound, posts, bound', posts')
<1> DEFINE s == Home[c]
           r == [bound[s] EXCEPT !.deps = @ + 1]
<1>1. s \in Bounds
  BY BoundsAssumption
<1>2. bound[s] \in Boundary /\ bound' = [bound EXCEPT ![s] = r]
  BY <1>1 DEF RegisterDep, Shape, TypeOK, Boundaries
<1>3. r \in Boundary /\ r.effects = bound[s].effects
  BY <1>2 DEF Boundary
<1> HIDE DEF r
<1>4. bound' \in Boundaries /\ \A t \in Bounds : bound'[t].effects = bound[t].effects
  BY <1>1, <1>2, <1>3, EffectsSame, Zenon DEF Shape, TypeOK
<1>5. /\ phase' = [phase EXCEPT ![c] = "pending"] /\ waiting' = waiting \cup {c} /\ c \in Async
      /\ jobs' = (IF bound[s].isResolved THEN Append(jobs, s) ELSE jobs) /\ posts' = posts
      /\ isUnmounted' = isUnmounted /\ ran' = ran /\ stack' = stack
      /\ ~Idle /\ Top.kind # "unmount"
  BY DEF MountComponent, RegisterDep, Patching
<1>6. Frames'
  BY <1>5, NoUnmount DEF Shape, Frames, FrameOK
<1>7. phase' \in [Comps -> Phases] /\ waiting' \in SUBSET Async /\ jobs' \in Seq(Bounds)
  BY <1>1, <1>5 DEF Shape, TypeOK, Phases
<1> QED
  BY <1>4, <1>5, <1>6, <1>7 DEF Shape, TypeOK, SameEffects, Held, Once

\* A component is removed.
LEMMA RemoveShape ==
  ASSUME Shape, NEW c \in Comps, RemoveComponent(c)
  PROVE  Shape'
<1>1. UnmountComponent(c, Home[c]) /\ stack' = stack /\ ~Idle /\ Top.kind # "unmount"
  BY DEF RemoveComponent, Patching
<1>2. Home[c] \in Bounds
  BY BoundsAssumption
<1>3. /\ bound' \in Boundaries /\ posts' \in SUBSET Effects
      /\ phase' = [phase EXCEPT ![c] = "removed"]
      /\ waiting' = waiting /\ isUnmounted' = isUnmounted /\ jobs' = jobs /\ ran' = ran
  BY <1>1, <1>2, UnmountMoves
<1>4. Frames'
  BY <1>1, NoUnmount DEF Shape, Frames, FrameOK
<1>5. phase' \in [Comps -> Phases]
  BY <1>3 DEF Shape, TypeOK, Phases
<1> QED
  BY <1>1, <1>3, <1>4, <1>5 DEF Shape, TypeOK

LEMMA UnmountNextShape ==
  ASSUME Shape, NEW c \in Comps, UnmountNext(c)
  PROVE  /\ Shape'
         /\ Top.at \in Bounds \cup {None} /\ UnmountComponent(c, Top.at)
         /\ phase[c] \in {"pending", "rendered"}
<1> DEFINE n == Len(stack)
<1>1. /\ ~Idle /\ Top.kind = "unmount" /\ c \in Top.todo /\ UnmountComponent(c, Top.at)
      /\ stack' = [stack EXCEPT ![n].todo = @ \ {c}]
  BY DEF UnmountNext
<1>2. Top.at \in Bounds \cup {None}
  BY <1>1, TopTyped DEF Frame
<1>3. /\ bound' \in Boundaries /\ posts' \in SUBSET Effects
      /\ phase' = [phase EXCEPT ![c] = "removed"]
      /\ waiting' = waiting /\ isUnmounted' = isUnmounted /\ jobs' = jobs /\ ran' = ran
  BY <1>1, <1>2, UnmountMoves
<1>4. stack \in Seq(Frame) /\ stack # << >>
  BY <1>1 DEF Shape, TypeOK, Idle
<1>5. /\ stack' \in Seq(Frame) /\ Len(stack') = n /\ DOMAIN stack' = DOMAIN stack
      /\ \A i \in DOMAIN stack : i # n => stack'[i] = stack[i]
      /\ stack'[n].kind = stack[n].kind /\ stack'[n].at = stack[n].at
      /\ stack'[n].into = stack[n].into /\ stack'[n].todo = stack[n].todo \ {c}
  BY <1>1, <1>4, TopLess
<1>6. Top = stack[n] /\ n \in DOMAIN stack /\ FrameOK(stack[n], n, n) /\ stack[n] \in Frame
  BY <1>1, TopTyped
<1>7. phase[c] \in {"pending", "rendered"}
  BY <1>1, <1>6 DEF FrameOK
<1>8. phase' \in [Comps -> Phases]
  BY <1>3 DEF Shape, TypeOK, Phases
<1>9. Frames'
  <2> SUFFICES ASSUME NEW i \in DOMAIN stack
               PROVE  FrameOK(stack[i], i, n)'
    BY <1>5 DEF Frames
  <2>0. n' = n
    BY <1>5
  <2> HIDE DEF n
  <2>1. FrameOK(stack[i], i, n)
    BY DEF Shape, Frames, n
  <2>2. CASE i # n
    BY <1>5, <2>1, <2>2 DEF FrameOK
  <2>3. CASE i = n
    <3>1. \A x \in stack[n].todo \ {c} : phase'[x] = phase[x]
      BY <1>3, <1>6 DEF Frame, Shape, TypeOK
    <3> QED
      BY <1>1, <1>5, <1>6, <2>0, <2>1, <2>3, <3>1 DEF FrameOK
  <2> QED
    BY <2>2, <2>3
<1> QED
  BY <1>1, <1>2, <1>3, <1>5, <1>7, <1>8, <1>9 DEF Shape, TypeOK

\* A promise settles: its component is about to be rendered, or was removed.
LEMMA SettleShape ==
  ASSUME Shape, NEW c \in Comps, Settle(c)
  PROVE  Shape' /\ SameEffects(bound, posts, bound', posts')
<1> DEFINE s == Home[c]
           r == [bound[s] EXCEPT !.deps = @ - 1]
<1>1. s \in Bounds
  BY BoundsAssumption
<1>2. /\ phase' = phase /\ waiting' = waiting \ {c} /\ isUnmounted' = isUnmounted
      /\ jobs' = jobs /\ posts' = posts /\ ran' = ran /\ Idle
  BY DEF Settle
<1>3. /\ bound' \in Boundaries /\ \A t \in Bounds : bound'[t].effects = bound[t].effects
      /\ Frames' /\ stack' \in Seq(Frame)
  <2>1. CASE bound' = bound /\ stack' = stack
    BY <1>2, <2>1 DEF Shape, TypeOK, Frames, FrameOK
  <2>2. CASE /\ bound' = [bound EXCEPT ![s].deps = @ - 1]
             /\ stack' = Append(stack, RenderFrame("settle", s, {c}))
    <3>1. bound[s] \in Boundary /\ bound' = [bound EXCEPT ![s] = r]
      BY <1>1, <2>2 DEF Shape, TypeOK, Boundaries
    <3>2. r \in Boundary /\ r.effects = bound[s].effects
      BY <3>1 DEF Boundary
    <3> HIDE DEF r
    <3>3. bound' \in Boundaries /\ \A t \in Bounds : bound'[t].effects = bound[t].effects
      BY <1>1, <3>1, <3>2, EffectsSame, Zenon DEF Shape, TypeOK
    <3>4. PICK f \in Frame : /\ f = RenderFrame("settle", s, {c}) /\ f.kind = "settle"
                            /\ f.at = s /\ f.todo = {c} /\ f.into = "nowhere"
      BY <1>1, FramesMade
    <3>5. FrameOK(f, Len(stack), Len(stack))'
      <4>1. Len(stack') = 1
        BY <1>2, <2>2 DEF Idle
      <4> QED
        BY <1>1, <1>2, <3>4, <4>1 DEF FrameOK, Idle
    <3> QED
      BY <1>2, <2>2, <3>3, <3>4, <3>5, FrameMore
  <2> QED
    BY <2>1, <2>2 DEF Settle
<1> QED
  BY <1>2, <1>3 DEF Shape, TypeOK, SameEffects, Held, Once

\* It is rendered, and the last dep resolves the boundary.
LEMMA EndSettleShape ==
  ASSUME Shape, EndSettle
  PROVE  /\ Shape'
         /\ \E c \in Comps :
              /\ OneMore(MountedHook(c), bound, posts, bound', posts')
              /\ stack[1].kind = "settle" /\ stack[1].todo = {c} /\ stack' = << >>
              /\ phase' = [phase EXCEPT ![c] = IF @ = "pending" THEN "rendered" ELSE "zombie"]
              /\ waiting' = waiting /\ ran' = ran
<1> DEFINE s == Top.at
<1>1. /\ waiting' = waiting /\ isUnmounted' = isUnmounted /\ jobs' = jobs /\ ran' = ran
      /\ stack' = Front(stack) /\ ~Idle /\ Top.kind = "settle"
  BY DEF EndSettle
<1>2. /\ s \in Bounds /\ Len(stack) = 1 /\ stack[1] = Top
  BY <1>1, TopTyped DEF FrameOK
<1>3. PICK c \in Comps : Top.todo = {c}
  BY <1>1, TopTyped DEF FrameOK
<1> DEFINE q == QueueEffectWithSuspense(MountedHook(c), s, bound, posts)
           d == Resolve(s, q.bound, q.posts)
<1>4. /\ phase' = [phase EXCEPT ![c] = IF @ = "pending" THEN "rendered" ELSE "zombie"]
      /\ bound' = IF bound[s].deps = 0 THEN d.bound ELSE q.bound
      /\ posts' = IF bound[s].deps = 0 THEN d.posts ELSE q.posts
  BY <1>3 DEF EndSettle, Becomes
<1>5. MountedHook(c) \in Effects
  BY DEF MountedHook, Effects
<1>6. /\ q.bound \in Boundaries /\ q.posts \in SUBSET Effects
      /\ OneMore(MountedHook(c), bound, posts, q.bound, q.posts)
  BY <1>2, <1>5, QueueAdds DEF Shape, TypeOK
<1> HIDE DEF q
<1>7. /\ bound' \in Boundaries /\ posts' \in SUBSET Effects
      /\ OneMore(MountedHook(c), bound, posts, bound', posts')
  <2>1. /\ d.bound \in Boundaries /\ d.posts \in SUBSET Effects
        /\ SameEffects(q.bound, q.posts, d.bound, d.posts)
    BY <1>2, <1>6, ResolveMoves
  <2> HIDE DEF d
  <2>2. OneMore(MountedHook(c), bound, posts, d.bound, d.posts)
    BY <1>5, <1>6, <2>1 DEF OneMore, SameEffects
  <2> QED
    BY <1>4, <1>6, <2>1, <2>2
<1>8. stack' = << >> /\ Frames'
  <2>1. stack \in Seq(Frame) /\ stack # << >>
    BY <1>1 DEF Shape, TypeOK, Idle
  <2>2. stack' = << >>
    BY <1>1, <1>2, <2>1, Popped
  <2> QED
    BY <2>2 DEF Frames
<1>9. phase' \in [Comps -> Phases] /\ << >> \in Seq(Frame)
  BY <1>4 DEF Shape, TypeOK, Phases
<1> QED
  BY <1>1, <1>2, <1>3, <1>4, <1>7, <1>8, <1>9 DEF Shape, TypeOK

LEMMA RejectShape ==
  ASSUME Shape, NEW c \in Comps, Reject(c)
  PROVE  Shape' /\ SameEffects(bound, posts, bound', posts')
BY DEF Reject, Shape, TypeOK, Frames, FrameOK, SameEffects

\* A boundary recedes.
LEMMA RecedeShape ==
  ASSUME Shape, Recede
  PROVE  Shape' /\ SameEffects(bound, posts, bound', posts')
<1> DEFINE s == Head(jobs)
           r == Hidden(bound[s])
<1>1. s \in Bounds /\ Tail(jobs) \in Seq(Bounds)
  BY DEF Recede, Shape, TypeOK
<1>2. bound[s] \in Boundary /\ bound' = [bound EXCEPT ![s] = r]
  <2>1. bound[s] \in Boundary
    BY <1>1 DEF Shape, TypeOK, Boundaries
  <2>2. bound' = [bound EXCEPT ![s] = r]
    BY Zenon DEF Recede
  <2> QED
    BY <2>1, <2>2
<1>3. r \in Boundary /\ r.effects = bound[s].effects
  BY <1>2, HiddenKeeps
<1> HIDE DEF r
<1>4. bound' \in Boundaries /\ \A t \in Bounds : bound'[t].effects = bound[t].effects
  BY <1>1, <1>2, <1>3, EffectsSame, Zenon DEF Shape, TypeOK
<1>5. /\ phase' = phase /\ waiting' = waiting /\ isUnmounted' = isUnmounted /\ jobs' = Tail(jobs)
      /\ posts' = posts /\ ran' = ran /\ stack' = stack
  BY DEF Recede
<1> QED
  BY <1>1, <1>4, <1>5 DEF Shape, TypeOK, Frames, FrameOK, SameEffects, Held, Once

\* The callbacks run.
LEMMA FlushShape ==
  ASSUME Shape, FlushPosts
  PROVE  Shape'
<1>1. /\ phase' = phase /\ waiting' = waiting /\ jobs' = jobs /\ bound' = bound
      /\ posts' = {} /\ ran' = ran \cup posts /\ stack' = stack
      /\ isUnmounted' = isUnmounted \cup {e.of : e \in {x \in posts : x.hook = "unmounted"}}
  BY DEF FlushPosts
<1>2. isUnmounted' \in SUBSET Comps
  BY <1>1 DEF Shape, TypeOK, Effects
<1> QED
  BY <1>1, <1>2 DEF Shape, TypeOK, Frames, FrameOK

LEMMA InitShape == Init => Shape
<1> SUFFICES ASSUME Init PROVE Shape
  OBVIOUS
<1>1. bound \in Boundaries
  BY DEF Init, Boundaries, Boundary
<1> QED
  BY <1>1 DEF Init, Shape, TypeOK, Frames, Phases

LEMMA ShapeStep ==
  ASSUME Shape, [Next]_vars
  PROVE  Shape'
<1>1. CASE UNCHANGED vars
  BY <1>1 DEF vars, Shape, TypeOK, Frames, FrameOK
<1>2. ASSUME NEW s \in Bounds,
             MountSuspense(s) \/ PatchSuspense(s) \/ ReplaceContent(s) \/ RemoveSuspense(s)
      PROVE  Shape'
  BY <1>2, MountShape, PatchShape, ReplaceShape, RemoveSuspenseShape
<1>3. ASSUME NEW c \in Comps,
             MountComponent(c) \/ RemoveComponent(c) \/ Reject(c) \/ UnmountNext(c) \/ Settle(c)
      PROVE  Shape'
  BY <1>3, MountSyncShape, RegisterShape, RemoveShape, RejectShape, UnmountNextShape, SettleShape
     DEF MountComponent
<1>4. CASE EndMount \/ EndPatch \/ EndUnmount \/ EndSettle \/ Recede \/ FlushPosts
  BY <1>4, EndMountShape, EndPatchShape, EndUnmountShape, EndSettleShape, RecedeShape, FlushShape
<1> QED
  BY <1>1, <1>2, <1>3, <1>4 DEF Next, Synchronous, EventLoop

\* The state is well formed, and so is the stack of patches and unmounts: a tree
\* is unmounted on the top of it, and a promise settles alone.
THEOREM TypesHold == Spec => []Shape
BY InitShape, ShapeStep, PTL DEF Spec

--------------------------------------------------------------------------------
(* An effect is queued once, and is in one place until it has run. *)

Nowhere(e) == ~Held(e, bound, posts) /\ e \notin ran

Somewhere(e) ==
  /\ Once(e, bound, posts)
  /\ (Held(e, bound, posts) /\ e \notin ran) \/ (~Held(e, bound, posts) /\ e \in ran)

Settling(c) == \E i \in DOMAIN stack : stack[i].kind = "settle" /\ c \in stack[i].todo

\* What an instance has queued in its life; its promise waits or is settling.
Lived(c) ==
  /\ phase[c] \in {"new", "pending"} => Nowhere(MountedHook(c)) /\ Nowhere(UnmountedMark(c))
  /\ phase[c] = "rendered" => Somewhere(MountedHook(c)) /\ Nowhere(UnmountedMark(c))
  /\ phase[c] = "removed" => Somewhere(UnmountedMark(c))
  /\ phase[c] \in {"new", "rendered"} => c \notin waiting /\ ~Settling(c)
  /\ c \in waiting => ~Settling(c)

Lives == \A c \in Comps : Lived(c)

LEMMA EffectsTyped ==
  \A c \in Comps : MountedHook(c) \in Effects /\ UnmountedMark(c) \in Effects
BY DEF MountedHook, UnmountedMark, Effects

LEMMA EffectsDiffer ==
  \A c, d \in Comps : /\ MountedHook(c) # UnmountedMark(d)
                      /\ MountedHook(c) = MountedHook(d) => c = d
                      /\ UnmountedMark(c) = UnmountedMark(d) => c = d
BY DEF MountedHook, UnmountedMark

LEMMA MovesKeep ==
  ASSUME SameEffects(bound, posts, bound', posts'), ran' = ran, NEW e \in Effects
  PROVE  /\ Nowhere(e) => Nowhere(e)'
         /\ Somewhere(e) => Somewhere(e)'
<1>1. /\ Held(e, bound, posts)' <=> Held(e, bound, posts)
      /\ Once(e, bound, posts) => Once(e, bound, posts)'
  BY DEF SameEffects
<1> QED
  BY <1>1 DEF Nowhere, Somewhere

LEMMA AddKeeps ==
  ASSUME NEW x \in Effects, OneMore(x, bound, posts, bound', posts'), ran' = ran
  PROVE  /\ Nowhere(x) => Somewhere(x)'
         /\ \A e \in Effects \ {x} : /\ Nowhere(e) => Nowhere(e)'
                                     /\ Somewhere(e) => Somewhere(e)'
<1>1. Held(x, bound, posts)' /\ (~Held(x, bound, posts) => Once(x, bound, posts)')
  BY DEF OneMore
<1>2. \A e \in Effects \ {x} : /\ Held(e, bound, posts)' <=> Held(e, bound, posts)
                               /\ Once(e, bound, posts) => Once(e, bound, posts)'
  BY DEF OneMore
<1> QED
  BY <1>1, <1>2 DEF Nowhere, Somewhere

\* A step that queues nothing keeps the lives.
LEMMA LivesKept ==
  ASSUME Lives, SameEffects(bound, posts, bound', posts'), ran' = ran, phase' = phase,
         waiting' \subseteq waiting,
         \A c \in Comps : Settling(c)' => Settling(c) \/ (c \in waiting /\ c \notin waiting')
  PROVE  Lives'
<1> SUFFICES ASSUME NEW c \in Comps PROVE Lived(c)'
  BY DEF Lives
<1>1. Lived(c) /\ (Settling(c)' => Settling(c) \/ (c \in waiting /\ c \notin waiting'))
  BY DEF Lives
<1>2. /\ Nowhere(MountedHook(c)) => Nowhere(MountedHook(c))'
      /\ Somewhere(MountedHook(c)) => Somewhere(MountedHook(c))'
      /\ Nowhere(UnmountedMark(c)) => Nowhere(UnmountedMark(c))'
      /\ Somewhere(UnmountedMark(c)) => Somewhere(UnmountedMark(c))'
  BY MovesKeep, EffectsTyped
<1> QED
  BY <1>1, <1>2 DEF Lived

\* Nothing settles that did not before: the stack loses a frame, or gets one of
\* another kind.
LEMMA SettlingLess ==
  ASSUME stack \in Seq(Frame), stack # << >>, stack' = Front(stack), NEW c
  PROVE  Settling(c)' => Settling(c)
<1> SUFFICES ASSUME NEW i \in DOMAIN stack', stack'[i].kind = "settle", c \in stack'[i].todo
             PROVE  Settling(c)
  BY DEF Settling
<1>1. i \in DOMAIN stack /\ stack'[i] = stack[i]
  BY Popped
<1> QED
  BY <1>1 DEF Settling

LEMMA SettlingMore ==
  ASSUME stack \in Seq(Frame), NEW f \in Frame, stack' = Append(stack, f), NEW c
  PROVE  Settling(c)' => Settling(c) \/ (f.kind = "settle" /\ c \in f.todo)
<1> SUFFICES ASSUME NEW i \in DOMAIN stack', stack'[i].kind = "settle", c \in stack'[i].todo
             PROVE  Settling(c) \/ (f.kind = "settle" /\ c \in f.todo)
  BY DEF Settling
<1>1. /\ stack'[Len(stack')] = f
      /\ i = Len(stack') \/ (i \in DOMAIN stack /\ stack'[i] = stack[i])
  BY Pushed
<1> QED
  BY <1>1 DEF Settling

LEMMA RenderLives ==
  ASSUME Shape, Lives, NEW s \in Bounds, MountSuspense(s) \/ PatchSuspense(s)
  PROVE  Lives'
<1>1. PICK kind \in {"mount", "patch"} : stack' = Append(stack, RenderFrame(kind, s, {}))
  BY DEF MountSuspense, PatchSuspense
<1>2. PICK f \in Frame : f = RenderFrame(kind, s, {}) /\ f.kind = kind
  BY FramesMade
<1>3. \A c \in Comps : Settling(c)' => Settling(c)
  BY <1>1, <1>2, SettlingMore DEF Shape, TypeOK
<1>4. SameEffects(bound, posts, bound', posts')
  BY MountShape, PatchShape
<1>5. phase' = phase /\ waiting' = waiting /\ ran' = ran
  BY DEF MountSuspense, PatchSuspense
<1> QED
  BY <1>3, <1>4, <1>5, LivesKept

LEMMA EndLives ==
  ASSUME Shape, Lives, EndMount \/ EndPatch \/ EndUnmount
  PROVE  Lives'
<1>1. /\ stack' = Front(stack) /\ stack # << >> /\ phase' = phase /\ waiting' = waiting
      /\ ran' = ran
  BY DEF EndMount, EndPatch, EndUnmount, Idle
<1>2. \A c \in Comps : Settling(c)' => Settling(c)
  BY <1>1, SettlingLess DEF Shape, TypeOK
<1>3. SameEffects(bound, posts, bound', posts')
  BY EndMountShape, EndPatchShape, EndUnmountShape
<1> QED
  BY <1>1, <1>2, <1>3, LivesKept

LEMMA RemoveSuspenseLives ==
  ASSUME Shape, Lives, NEW s \in Bounds, RemoveSuspense(s) \/ ReplaceContent(s)
  PROVE  Lives'
<1>1. \A c \in Comps : Settling(c)' => Settling(c)
  <2>1. CASE RemoveSuspense(s)
    <3>1. PICK f \in Frame : f.kind = "unmount" /\ stack' = Append(stack, f)
      BY <2>1, FramesMade, ParentTyped, InTreeMounted DEF RemoveSuspense
    <3> QED
      BY <3>1, SettlingMore DEF Shape, TypeOK
  <2>2. CASE ReplaceContent(s)
    <3>1. PICK f \in Frame : f = RenderFrame("patch", s, {}) /\ f.kind = "patch"
      BY FramesMade
    <3> DEFINE into == IF bound[s].isResolved THEN "shown" ELSE "hidden"
    <3>2. PICK g \in Frame : g = UnmountFrame(InTree(s), s, into) /\ g.kind = "unmount"
      BY FramesMade, InTreeMounted
    <3>3. stack' = << f, g >>
      BY <2>2, <3>1, <3>2 DEF ReplaceContent, Idle
    <3> QED
      BY <3>1, <3>2, <3>3 DEF Settling
  <2> QED
    BY <2>1, <2>2
<1>2. SameEffects(bound, posts, bound', posts')
  BY RemoveSuspenseShape, ReplaceShape
<1>3. phase' = phase /\ waiting' = waiting /\ ran' = ran
  BY DEF RemoveSuspense, ReplaceContent
<1> QED
  BY <1>1, <1>2, <1>3, LivesKept

LEMMA SettleLives ==
  ASSUME Shape, Lives, NEW c \in Comps, Settle(c)
  PROVE  Lives'
<1>1. phase' = phase /\ waiting' = waiting \ {c} /\ ran' = ran /\ c \in waiting
  BY DEF Settle
<1>2. SameEffects(bound, posts, bound', posts')
  BY SettleShape
<1>3. \A x \in Comps : Settling(x)' => Settling(x) \/ x = c
  <2>1. CASE stack' = stack
    BY <2>1 DEF Settling
  <2>2. CASE stack' = Append(stack, RenderFrame("settle", Home[c], {c}))
    <3>1. PICK f \in Frame : f = RenderFrame("settle", Home[c], {c}) /\ f.todo = {c}
      BY FramesMade, BoundsAssumption
    <3> QED
      BY <2>2, <3>1, SettlingMore DEF Shape, TypeOK
  <2> QED
    BY <2>1, <2>2 DEF Settle
<1> QED
  BY <1>1, <1>2, <1>3, LivesKept

LEMMA WaitLives ==
  ASSUME Shape, Lives, Recede \/ \E c \in Comps : Reject(c)
  PROVE  Lives'
<1>1. phase' = phase /\ waiting' \subseteq waiting /\ ran' = ran /\ stack' = stack
  BY DEF Recede, Reject
<1>2. SameEffects(bound, posts, bound', posts')
  BY RecedeShape, RejectShape
<1> QED
  BY <1>1, <1>2, LivesKept DEF Settling

\* A step that queues an effect of c keeps the lives of the others.
LEMMA OthersLive ==
  ASSUME Lives, NEW c \in Comps, NEW x \in {MountedHook(c), UnmountedMark(c)},
         OneMore(x, bound, posts, bound', posts'), ran' = ran, waiting' = waiting,
         NEW d \in Comps, d # c, phase'[d] = phase[d], Settling(d)' => Settling(d)
  PROVE  Lived(d)'
<1>1. x \in Effects /\ MountedHook(d) \in Effects \ {x} /\ UnmountedMark(d) \in Effects \ {x}
  BY EffectsTyped, EffectsDiffer
<1>2. /\ Nowhere(MountedHook(d)) => Nowhere(MountedHook(d))'
      /\ Somewhere(MountedHook(d)) => Somewhere(MountedHook(d))'
      /\ Nowhere(UnmountedMark(d)) => Nowhere(UnmountedMark(d))'
      /\ Somewhere(UnmountedMark(d)) => Somewhere(UnmountedMark(d))'
  BY <1>1, AddKeeps
<1>3. Lived(d)
  BY DEF Lives
<1> QED
  BY <1>2, <1>3 DEF Lived

LEMMA MountSyncLives ==
  ASSUME Shape, Lives, NEW c \in Comps, MountComponent(c), MountSync(c)
  PROVE  Lives'
<1>1. /\ phase' = [phase EXCEPT ![c] = "rendered"] /\ phase[c] = "new" /\ waiting' = waiting
      /\ ran' = ran /\ stack' = stack
  BY DEF MountComponent, MountSync
<1>2. OneMore(MountedHook(c), bound, posts, bound', posts')
  BY MountSyncShape
<1>3. phase \in [Comps -> Phases]
  BY DEF Shape, TypeOK
<1>4. \A d \in Comps : Settling(d)' <=> Settling(d)
  BY <1>1 DEF Settling
<1>5. Lived(c)'
  <2>1. /\ MountedHook(c) \in Effects /\ UnmountedMark(c) \in Effects \ {MountedHook(c)}
    BY EffectsTyped, EffectsDiffer
  <2>2. /\ Nowhere(MountedHook(c)) => Somewhere(MountedHook(c))'
        /\ Nowhere(UnmountedMark(c)) => Nowhere(UnmountedMark(c))'
    BY <1>1, <1>2, <2>1, AddKeeps
  <2>3. Lived(c) /\ phase'[c] = "rendered"
    BY <1>1, <1>3 DEF Lives
  <2> QED
    BY <1>1, <1>4, <2>2, <2>3 DEF Lived
<1>6. ASSUME NEW d \in Comps, d # c
      PROVE  Lived(d)'
  <2>1. phase'[d] = phase[d]
    BY <1>1, <1>3, <1>6
  <2> QED
    BY <1>1, <1>2, <1>4, <1>6, <2>1, OthersLive
<1> QED
  BY <1>5, <1>6 DEF Lives

LEMMA RegisterLives ==
  ASSUME Shape, Lives, NEW c \in Comps, MountComponent(c), RegisterDep(c)
  PROVE  Lives'
<1>1. /\ phase' = [phase EXCEPT ![c] = "pending"] /\ phase[c] = "new"
      /\ waiting' = waiting \cup {c} /\ ran' = ran /\ stack' = stack
  BY DEF MountComponent, RegisterDep
<1>2. SameEffects(bound, posts, bound', posts')
  BY RegisterShape
<1>3. phase \in [Comps -> Phases]
  BY DEF Shape, TypeOK
<1> SUFFICES ASSUME NEW d \in Comps PROVE Lived(d)'
  BY DEF Lives
<1>4. /\ Nowhere(MountedHook(d)) => Nowhere(MountedHook(d))'
      /\ Somewhere(MountedHook(d)) => Somewhere(MountedHook(d))'
      /\ Nowhere(UnmountedMark(d)) => Nowhere(UnmountedMark(d))'
      /\ Somewhere(UnmountedMark(d)) => Somewhere(UnmountedMark(d))'
  BY <1>1, <1>2, MovesKeep, EffectsTyped
<1>5. Lived(d) /\ (Settling(d)' <=> Settling(d))
  BY <1>1 DEF Lives, Settling
<1>6. CASE d = c
  <2>1. phase'[d] = "pending" /\ phase[d] = "new"
    BY <1>1, <1>3, <1>6
  <2> QED
    BY <1>4, <1>5, <2>1 DEF Lived
<1>7. CASE d # c
  <2>1. phase'[d] = phase[d] /\ (d \in waiting' <=> d \in waiting)
    BY <1>1, <1>3, <1>7
  <2> QED
    BY <1>4, <1>5, <2>1 DEF Lived
<1> QED
  BY <1>6, <1>7

\* A component is removed when it is pending or rendered, by a patch or with a tree.
LEMMA UnmountLives ==
  ASSUME Shape, Lives, NEW c \in Comps, NEW s \in Bounds \cup {None},
         UnmountComponent(c, s), phase[c] \in {"pending", "rendered"},
         \A d \in Comps : Settling(d)' => Settling(d)
  PROVE  Lives'
<1>1. /\ OneMore(UnmountedMark(c), bound, posts, bound', posts')
      /\ phase' = [phase EXCEPT ![c] = "removed"] /\ waiting' = waiting /\ ran' = ran
  BY UnmountMoves
<1>2. phase \in [Comps -> Phases]
  BY DEF Shape, TypeOK
<1>3. Lived(c)'
  <2>1. UnmountedMark(c) \in Effects
    BY EffectsTyped
  <2>2. Nowhere(UnmountedMark(c)) => Somewhere(UnmountedMark(c))'
    BY <1>1, <2>1, AddKeeps
  <2>3. Lived(c) /\ phase'[c] = "removed"
    BY <1>1, <1>2 DEF Lives
  <2> QED
    BY <1>1, <2>2, <2>3 DEF Lived
<1>4. ASSUME NEW d \in Comps, d # c
      PROVE  Lived(d)'
  <2>1. phase'[d] = phase[d]
    BY <1>1, <1>2, <1>4
  <2> QED
    BY <1>1, <1>4, <2>1, OthersLive
<1> QED
  BY <1>3, <1>4 DEF Lives

LEMMA RemoveLives ==
  ASSUME Shape, Lives, NEW c \in Comps, RemoveComponent(c) \/ UnmountNext(c)
  PROVE  Lives'
<1>1. CASE RemoveComponent(c)
  <2>1. /\ UnmountComponent(c, Home[c]) /\ stack' = stack
        /\ phase[c] \in {"pending", "rendered"} /\ Home[c] \in Bounds
    BY <1>1, BoundsAssumption DEF RemoveComponent
  <2> QED
    BY <2>1, UnmountLives DEF Settling
<1>2. CASE UnmountNext(c)
  <2>1. /\ stack \in Seq(Frame) /\ stack # << >>
        /\ stack' = [stack EXCEPT ![Len(stack)].todo = @ \ {c}]
    BY <1>2 DEF UnmountNext, Idle, Shape, TypeOK
  <2>2. /\ DOMAIN stack' = DOMAIN stack
        /\ \A i \in DOMAIN stack : i # Len(stack) => stack'[i] = stack[i]
        /\ stack'[Len(stack)].kind = stack[Len(stack)].kind
        /\ stack'[Len(stack)].todo = stack[Len(stack)].todo \ {c}
    BY <2>1, TopLess
  <2>3. \A d \in Comps : Settling(d)' => Settling(d)
    BY <2>2 DEF Settling
  <2> QED
    BY <1>2, <2>3, UnmountNextShape, UnmountLives
<1> QED
  BY <1>1, <1>2

LEMMA EndSettleLives ==
  ASSUME Shape, Lives, EndSettle
  PROVE  Lives'
<1>1. PICK c \in Comps :
        /\ OneMore(MountedHook(c), bound, posts, bound', posts')
        /\ stack[1].kind = "settle" /\ stack[1].todo = {c} /\ stack' = << >>
        /\ phase' = [phase EXCEPT ![c] = IF @ = "pending" THEN "rendered" ELSE "zombie"]
        /\ waiting' = waiting /\ ran' = ran
  BY EndSettleShape
<1>2. phase \in [Comps -> Phases]
  BY DEF Shape, TypeOK
<1>3. \A d \in Comps : ~Settling(d)'
  BY <1>1 DEF Settling
<1>4. Settling(c)
  <2>1. 1 \in DOMAIN stack
    BY DEF EndSettle, Idle, Shape, TypeOK
  <2> QED
    BY <1>1, <2>1 DEF Settling
<1>5. Lived(c)'
  <2>1. /\ MountedHook(c) \in Effects /\ UnmountedMark(c) \in Effects \ {MountedHook(c)}
    BY EffectsTyped, EffectsDiffer
  <2>2. /\ Nowhere(MountedHook(c)) => Somewhere(MountedHook(c))'
        /\ Nowhere(UnmountedMark(c)) => Nowhere(UnmountedMark(c))'
    BY <1>1, <2>1, AddKeeps
  <2>3. Lived(c) /\ phase'[c] = IF phase[c] = "pending" THEN "rendered" ELSE "zombie"
    BY <1>1, <1>2 DEF Lives
  <2> QED
    BY <1>1, <1>3, <1>4, <2>2, <2>3 DEF Lived
<1>6. ASSUME NEW d \in Comps, d # c
      PROVE  Lived(d)'
  <2>1. phase'[d] = phase[d]
    BY <1>1, <1>2, <1>6
  <2> QED
    BY <1>1, <1>3, <1>6, <2>1, OthersLive
<1> QED
  BY <1>5, <1>6 DEF Lives

LEMMA FlushLives ==
  ASSUME Shape, Lives, FlushPosts
  PROVE  Lives'
<1>1. /\ phase' = phase /\ waiting' = waiting /\ bound' = bound
      /\ posts' = {} /\ ran' = ran \cup posts /\ stack' = stack
  BY DEF FlushPosts
<1>2. \A e \in Effects : /\ Nowhere(e) => Nowhere(e)'
                         /\ Somewhere(e) => Somewhere(e)'
  BY <1>1 DEF Nowhere, Somewhere, Held, Once
<1> SUFFICES ASSUME NEW c \in Comps PROVE Lived(c)'
  BY DEF Lives
<1>3. /\ Nowhere(MountedHook(c)) => Nowhere(MountedHook(c))'
      /\ Somewhere(MountedHook(c)) => Somewhere(MountedHook(c))'
      /\ Nowhere(UnmountedMark(c)) => Nowhere(UnmountedMark(c))'
      /\ Somewhere(UnmountedMark(c)) => Somewhere(UnmountedMark(c))'
  BY <1>2, EffectsTyped
<1>4. Lived(c) /\ (Settling(c)' <=> Settling(c))
  BY <1>1 DEF Lives, Settling
<1> QED
  BY <1>1, <1>3, <1>4 DEF Lived

LEMMA LivesStep ==
  ASSUME Shape, Lives, [Next]_vars
  PROVE  Lives'
<1>1. CASE UNCHANGED vars
  BY <1>1 DEF vars, Lives, Lived, Nowhere, Somewhere, Held, Once, Settling
<1>2. ASSUME NEW s \in Bounds,
             MountSuspense(s) \/ PatchSuspense(s) \/ ReplaceContent(s) \/ RemoveSuspense(s)
      PROVE  Lives'
  BY <1>2, RenderLives, RemoveSuspenseLives
<1>3. ASSUME NEW c \in Comps,
             MountComponent(c) \/ RemoveComponent(c) \/ Reject(c) \/ UnmountNext(c) \/ Settle(c)
      PROVE  Lives'
  BY <1>3, MountSyncLives, RegisterLives, RemoveLives, WaitLives, SettleLives
     DEF MountComponent
<1>4. CASE EndMount \/ EndPatch \/ EndUnmount \/ EndSettle \/ Recede \/ FlushPosts
  BY <1>4, EndLives, EndSettleLives, WaitLives, FlushLives
<1> QED
  BY <1>1, <1>2, <1>3, <1>4 DEF Next, Synchronous, EventLoop

LEMMA InitLives == Init => Lives
BY DEF Init, Lives, Lived, Nowhere, Held, Settling

\* An effect that is somewhere is in one place.
LEMMA OnePlace ==
  ASSUME NEW e, Somewhere(e)
  PROVE  Cardinality(Places(e)) = 1
<1>1. ASSUME NEW s \in Bounds, e \in bound[s].effects
      PROVE  Places(e) = {s}
  <2>1. e \notin posts /\ e \notin ran /\ \A t \in Bounds : e \in bound[t].effects => t = s
    BY <1>1 DEF Somewhere, Held, Once
  <2> QED
    BY <1>1, <2>1 DEF Places
<1>2. CASE e \in posts
  <2>1. e \notin ran /\ \A t \in Bounds : e \notin bound[t].effects
    BY <1>2 DEF Somewhere, Held, Once
  <2>2. Places(e) = {"posts"}
    BY <1>2, <2>1 DEF Places
  <2> QED
    BY <2>2, FS_Singleton
<1>3. CASE e \in ran
  <2>1. e \notin posts /\ \A t \in Bounds : e \notin bound[t].effects
    BY <1>3 DEF Somewhere, Held
  <2>2. Places(e) = {"ran"}
    BY <1>3, <2>1 DEF Places
  <2> QED
    BY <2>2, FS_Singleton
<1> QED
  BY <1>1, <1>2, <1>3, FS_Singleton DEF Somewhere, Held

\* No effect that was queued is lost or doubled on its way from boundary to
\* boundary: the mounted hook of a component that was rendered, and the mark of
\* one that was removed, wait in one place or have run.
THEOREM HooksKept == Spec => []EffectsKept
<1>1. Init => Shape /\ Lives
  BY InitShape, InitLives
<1>2. Shape /\ Lives /\ [Next]_vars => (Shape /\ Lives)'
  BY ShapeStep, LivesStep
<1>3. Lives => EffectsKept
  BY OnePlace DEF Lives, Lived, EffectsKept
<1> QED
  BY <1>1, <1>2, <1>3, PTL DEF Spec

--------------------------------------------------------------------------------
(* What queueing and resolving do to the other fields of the boundaries. *)

\* Boundaries that are closer to the root have fewer around them.
LEMMA OuterShorter ==
  ASSUME NEW s \in Bounds, NEW i \in DOMAIN Outer[s]
  PROVE  /\ Outer[s][i] \in Bounds /\ Len(Outer[Outer[s][i]]) = Len(Outer[s]) - i
         /\ \A k \in DOMAIN Outer[Outer[s][i]] :
              k + i \in DOMAIN Outer[s] /\ Outer[Outer[s][i]][k] = Outer[s][k + i]
<1>1. Outer[s] \in Seq(Bounds) /\ i \in 1..Len(Outer[s]) /\ DOMAIN Outer[s] = 1..Len(Outer[s])
  BY BoundsAssumption
<1>2. Outer[Outer[s][i]] = SubSeq(Outer[s], i + 1, Len(Outer[s]))
  BY NestAssumption
<1> QED
  BY <1>1, <1>2, SMTT(40)

\* The boundaries b2 differ from b in the deps and the effects only.
Alike(b, b2) ==
  \A t \in Bounds :
    /\ b2[t].state = b[t].state /\ b2[t].isResolved = b[t].isResolved
    /\ b2[t].content = b[t].content /\ b2[t].fallback = b[t].fallback /\ b2[t].shown = b[t].shown

SameDeps(b, b2) == \A t \in Bounds : b2[t].deps = b[t].deps

\* In b2 the boundary s is resolved.
ResolvedAt(s, b, b2) ==
  /\ \A t \in Bounds : b2[t].state = b[t].state
  /\ \A t \in Bounds \ {s} :
       /\ b2[t].isResolved = b[t].isResolved /\ b2[t].content = b[t].content
       /\ b2[t].fallback = b[t].fallback /\ b2[t].shown = b[t].shown
  /\ b2[s].isResolved /\ b2[s].content = "shown" /\ b2[s].shown
  /\ b2[s].fallback = IF b[s].fallback > 0 THEN b[s].fallback - 1 ELSE 0

\* The effects of s have gone to the closest boundary around it that is pending,
\* or to the queue.
Forwarded(s, b, p, b2, p2) ==
  \/ /\ \A i \in DOMAIN Outer[s] : b[Outer[s][i]].isResolved
     /\ p2 = p \cup b[s].effects
     /\ \A t \in Bounds : b2[t].effects = IF t = s THEN {} ELSE b[t].effects
  \/ \E k \in DOMAIN Outer[s] :
       /\ ~b[Outer[s][k]].isResolved /\ p2 = p
       /\ \A i \in DOMAIN Outer[s] : i < k => b[Outer[s][i]].isResolved
       /\ \A t \in Bounds :
            b2[t].effects = (IF t = s THEN {} ELSE b[t].effects)
                              \cup (IF t = Outer[s][k] THEN b[s].effects ELSE {})

\* The effect e waits in s when that is pending, or in the queue.
Queued(e, s, b, p, b2, p2) ==
  IF s # None /\ ~b[s].isResolved
  THEN /\ p2 = p
       /\ \A t \in Bounds : b2[t].effects = IF t = s THEN b[t].effects \cup {e} ELSE b[t].effects
  ELSE /\ p2 = p \cup {e}
       /\ \A t \in Bounds : b2[t].effects = b[t].effects

LEMMA QueueFields ==
  ASSUME NEW b \in Boundaries, NEW p \in SUBSET Effects, NEW e \in Effects,
         NEW s \in Bounds \cup {None}
  PROVE  LET q == QueueEffectWithSuspense(e, s, b, p) IN
         /\ q.bound \in Boundaries /\ q.posts \in SUBSET Effects /\ Alike(b, q.bound)
         /\ SameDeps(b, q.bound)
         /\ Queued(e, s, b, p, q.bound, q.posts)
<1>1. CASE s # None /\ ~b[s].isResolved
  <2> DEFINE v == b[s].effects \cup {e}
             c == [b EXCEPT ![s].effects = v]
  <2>1. QueueEffectWithSuspense(e, s, b, p) = [bound |-> c, posts |-> p]
    BY <1>1 DEF QueueEffectWithSuspense, State
  <2>2. s \in Bounds
    BY <1>1
  <2>3. v \in SUBSET Effects
    BY <2>2 DEF Boundaries, Boundary
  <2>4. c = [b EXCEPT ![s].effects = v]
    OBVIOUS
  <2> HIDE DEF c, v
  <2>5. /\ c \in Boundaries /\ Alike(b, c) /\ SameDeps(b, c)
        /\ \A t \in Bounds : c[t].effects = IF t = s THEN v ELSE b[t].effects
    BY <2>2, <2>3, <2>4 DEF Boundaries, Boundary, Alike, SameDeps
  <2> QED
    BY <1>1, <2>1, <2>5 DEF v, Queued
<1>2. CASE ~(s # None /\ ~b[s].isResolved)
  <2>1. QueueEffectWithSuspense(e, s, b, p) = [bound |-> b, posts |-> p \cup {e}]
    BY <1>2 DEF QueueEffectWithSuspense, State
  <2>2. Alike(b, b) /\ SameDeps(b, b)
    BY DEF Alike, SameDeps
  <2> QED
    BY <1>2, <2>1, <2>2 DEF Queued
<1> QED
  BY <1>1, <1>2

LEMMA ResolveFields ==
  ASSUME NEW b \in Boundaries, NEW p \in SUBSET Effects, NEW s \in Bounds
  PROVE  LET q == Resolve(s, b, p) IN
         /\ q.bound \in Boundaries /\ q.posts \in SUBSET Effects
         /\ ResolvedAt(s, b, q.bound) /\ SameDeps(b, q.bound)
         /\ Forwarded(s, b, p, q.bound, q.posts)
<1> DEFINE done == [b EXCEPT ![s] = Shown(@)]
           pending == {i \in DOMAIN Outer[s] : ~b[Outer[s][i]].isResolved}
<1>1. b[s] \in Boundary /\ b[s].effects \in SUBSET Effects
  BY DEF Boundaries, Boundary
<1>2. Shown(b[s]).fallback = IF b[s].fallback > 0 THEN b[s].fallback - 1 ELSE 0
  <2> DEFINE f == IF b[s].fallback > 0 THEN b[s].fallback - 1 ELSE 0
  <2>1. Shown(b[s]) = [b[s] EXCEPT !.isResolved = TRUE, !.effects = {}, !.content = "shown",
                                   !.shown = TRUE, !.fallback = f]
    BY Zenon DEF Shown
  <2> HIDE DEF f
  <2>2. Shown(b[s]).fallback = f
    BY <1>1, <2>1 DEF Boundary
  <2> QED
    BY <2>2 DEF f
<1>3. /\ Shown(b[s]) \in Boundary /\ Shown(b[s]).effects = {}
      /\ Shown(b[s]).state = b[s].state /\ Shown(b[s]).deps = b[s].deps
      /\ Shown(b[s]).isResolved /\ Shown(b[s]).shown /\ Shown(b[s]).content = "shown"
  BY <1>1, ShownKeeps
<1>4. done \in Boundaries /\ \A t \in Bounds : done[t] = IF t = s THEN Shown(b[s]) ELSE b[t]
  BY <1>3 DEF Boundaries
<1>5. /\ ResolvedAt(s, b, done) /\ SameDeps(b, done)
      /\ \A t \in Bounds : done[t].effects = IF t = s THEN {} ELSE b[t].effects
  <2> HIDE DEF done
  <2> QED
    BY <1>2, <1>3, <1>4 DEF ResolvedAt, SameDeps
<1> HIDE DEF done
<1>6. CASE pending = {}
  <2>1. Resolve(s, b, p) = [bound |-> done, posts |-> p \cup b[s].effects]
    BY <1>6 DEF Resolve, State, done
  <2>2. \A i \in DOMAIN Outer[s] : b[Outer[s][i]].isResolved
    BY <1>6
  <2>3. Forwarded(s, b, p, done, p \cup b[s].effects)
    BY <1>5, <2>2 DEF Forwarded
  <2> QED
    BY <1>1, <1>4, <1>5, <2>1, <2>3
<1>7. CASE pending # {}
  <2> DEFINE k == Min(pending)
             more == [done EXCEPT ![Outer[s][k]].effects = @ \cup b[s].effects]
  <2>1. Resolve(s, b, p) = [bound |-> more, posts |-> p]
    BY <1>7 DEF Resolve, State, done
  <2>2. Outer[s] \in Seq(Bounds) /\ pending \in SUBSET Nat
    BY BoundsAssumption
  <2>3. k \in pending /\ \A i \in pending : k <= i
    BY <1>7, <2>2, SmallestIn
  <2> HIDE DEF k
  <2>4. /\ k \in DOMAIN Outer[s] /\ ~b[Outer[s][k]].isResolved /\ Outer[s][k] \in Bounds
        /\ \A i \in DOMAIN Outer[s] : i < k => b[Outer[s][i]].isResolved
    <3>1. k \in DOMAIN Outer[s] /\ ~b[Outer[s][k]].isResolved
      BY <2>3
    <3>2. Outer[s][k] \in Bounds
      BY <2>2, <3>1
    <3>3. ASSUME NEW i \in DOMAIN Outer[s], i < k
          PROVE  b[Outer[s][i]].isResolved
      <4>1. i \in Nat /\ k \in Nat
        BY <2>2, <3>1
      <4> QED
        BY <2>3, <3>3, <4>1
    <3> QED
      BY <3>1, <3>2, <3>3
  <2> DEFINE o == Outer[s][k]
             v == done[o].effects \cup b[s].effects
  <2>5. v \in SUBSET Effects
    BY <1>1, <1>4, <2>4 DEF Boundaries, Boundary
  <2>6. more = [done EXCEPT ![o].effects = v]
    OBVIOUS
  <2>10. o \in Bounds
    BY <2>4
  <2> HIDE DEF v, more, o
  <2>7. /\ more \in Boundaries /\ Alike(done, more) /\ SameDeps(done, more)
        /\ \A t \in Bounds : more[t].effects = IF t = o THEN v ELSE done[t].effects
    BY <1>4, <2>4, <2>5, <2>6, <2>10 DEF Boundaries, Boundary, Alike, SameDeps
  <2>8. ResolvedAt(s, b, more) /\ SameDeps(b, more)
    BY <1>5, <2>7 DEF ResolvedAt, Alike, SameDeps
  <2>9. Forwarded(s, b, p, more, p)
    <3>1. \A t \in Bounds :
            more[t].effects = (IF t = s THEN {} ELSE b[t].effects)
                                \cup (IF t = o THEN b[s].effects ELSE {})
      BY <1>5, <2>4, <2>7 DEF v, o
    <3> QED
      BY <2>4, <3>1 DEF Forwarded, o
  <2> QED
    BY <2>1, <2>7, <2>8, <2>9
<1> QED
  BY <1>6, <1>7

\* In b2 the boundary s has a dep less, and is resolved when it was the last.
DroppedAt(s, b, p, b2, p2) ==
  /\ \A t \in Bounds : b2[t].deps = IF t = s THEN b[t].deps - 1 ELSE b[t].deps
  /\ IF b[s].deps = 1
     THEN ResolvedAt(s, b, b2) /\ Forwarded(s, b, p, b2, p2)
     ELSE Alike(b, b2) /\ p2 = p /\ \A t \in Bounds : b2[t].effects = b[t].effects

LEMMA DropFields ==
  ASSUME NEW b \in Boundaries, NEW p \in SUBSET Effects, NEW s \in Bounds
  PROVE  LET q == DropDep(s, b, p) IN
         /\ q.bound \in Boundaries /\ q.posts \in SUBSET Effects
         /\ DroppedAt(s, b, p, q.bound, q.posts)
<1> DEFINE less == [b EXCEPT ![s].deps = @ - 1]
<1>1. /\ less \in Boundaries /\ Alike(b, less)
      /\ \A t \in Bounds : /\ less[t].effects = b[t].effects
                           /\ less[t].deps = IF t = s THEN b[t].deps - 1 ELSE b[t].deps
  BY DEF Boundaries, Boundary, Alike
<1>2. less[s].deps = 0 <=> b[s].deps = 1
  BY <1>1 DEF Boundaries, Boundary
<1>3. DropDep(s, b, p) = IF less[s].deps = 0 THEN Resolve(s, less, p) ELSE [bound |-> less, posts |-> p]
  BY DEF DropDep, State
<1> HIDE DEF less
<1>4. CASE b[s].deps = 1
  <2> DEFINE q == Resolve(s, less, p)
  <2>1. DropDep(s, b, p) = q
    BY <1>2, <1>3, <1>4
  <2>2. /\ q.bound \in Boundaries /\ q.posts \in SUBSET Effects
        /\ ResolvedAt(s, less, q.bound) /\ SameDeps(less, q.bound)
        /\ Forwarded(s, less, p, q.bound, q.posts)
    BY <1>1, ResolveFields
  <2> HIDE DEF q
  <2>3. ResolvedAt(s, b, q.bound)
    BY <1>1, <2>2 DEF ResolvedAt, Alike
  <2>4. \A t \in Bounds : q.bound[t].deps = IF t = s THEN b[t].deps - 1 ELSE b[t].deps
    BY <1>1, <2>2 DEF SameDeps
  <2>5. Forwarded(s, b, p, q.bound, q.posts)
    <3>1. \A i \in DOMAIN Outer[s] : less[Outer[s][i]].isResolved = b[Outer[s][i]].isResolved
      BY <1>1, OuterShorter DEF Alike
    <3>2. \A t \in Bounds : less[t].effects = b[t].effects
      BY <1>1
    <3> QED
      BY <2>2, <3>1, <3>2 DEF Forwarded
  <2> QED
    BY <1>4, <2>1, <2>2, <2>3, <2>4, <2>5 DEF DroppedAt
<1>5. CASE b[s].deps # 1
  <2>1. DropDep(s, b, p) = [bound |-> less, posts |-> p]
    BY <1>2, <1>3, <1>5
  <2> QED
    BY <1>1, <1>5, <2>1 DEF DroppedAt
<1> QED
  BY <1>4, <1>5

\* No boundary is around itself, so the parent of s is not inside s.
LEMMA ParentOutside ==
  ASSUME NEW s \in Bounds, Parent(s) \in Bounds
  PROVE  Parent(s) \notin Inside(s)
<1>1. CASE Outer[s] = << >>
  BY <1>1, BoundsAssumption DEF Parent
<1>2. CASE Outer[s] # << >>
  <2>1. Outer[s] \in Seq(Bounds) /\ 1 \in DOMAIN Outer[s] /\ Parent(s) = Outer[s][1]
    BY <1>2, BoundsAssumption DEF Parent
  <2>2. Len(Outer[Parent(s)]) = Len(Outer[s]) - 1 /\ Len(Outer[s]) \in Nat
    BY <2>1, OuterShorter
  <2>3. Parent(s) # s
    BY <2>2
  <2>4. ASSUME s \in ToSet(Outer[Parent(s)])
        PROVE  FALSE
    <3>1. PICK k \in DOMAIN Outer[Parent(s)] : s = Outer[Parent(s)][k]
      BY <2>4 DEF ToSet
    <3>2. Len(Outer[s]) = Len(Outer[Parent(s)]) - k /\ k \in Nat
      <4>1. Outer[Parent(s)] \in Seq(Bounds)
        BY BoundsAssumption
      <4> QED
        BY <3>1, <4>1, OuterShorter
    <3> QED
      BY <2>2, <3>2
  <2> QED
    BY <2>3, <2>4 DEF Inside
<1> QED
  BY <1>1, <1>2

--------------------------------------------------------------------------------
(* What may be under way at once. *)

\* Only boundaries that are mounted are patched or rendered, each once at a
\* time; under other frames there may be mounts, and a tree is unmounted alone
\* or in a patch.
Stacked ==
  /\ \A i \in DOMAIN stack :
       /\ i > 1 => stack[i].kind \in {"mount", "unmount"}
       /\ i > 1 /\ stack[i].kind = "unmount" => i = 2 /\ stack[1].kind = "patch"
       /\ stack[i].kind # "unmount" => Live(stack[i].at)
  /\ \A i, k \in DOMAIN stack :
       stack[i].kind # "unmount" /\ stack[k].kind # "unmount" /\ stack[i].at = stack[k].at => i = k

StatesKept == \A t \in Bounds : bound'[t].state = bound[t].state

LEMMA StackedSame ==
  ASSUME Shape, Stacked, StatesKept, stack' = stack
  PROVE  Stacked'
<1>1. \A i \in DOMAIN stack : stack[i].kind # "unmount" => stack[i].at \in Bounds
  BY DEF Shape, Frames, FrameOK
<1> QED
  BY <1>1 DEF Stacked, StatesKept, Live

LEMMA StackedLess ==
  ASSUME Shape, Stacked, StatesKept, ~Idle, stack' = Front(stack)
  PROVE  Stacked'
<1>1. \A i \in DOMAIN stack : stack[i].kind # "unmount" => stack[i].at \in Bounds
  BY DEF Shape, Frames, FrameOK
<1>2. /\ \A i \in DOMAIN stack' : i \in DOMAIN stack /\ stack'[i] = stack[i]
      /\ DOMAIN stack' # {} => 1 \in DOMAIN stack'
  <2>1. stack \in Seq(Frame) /\ stack # << >>
    BY DEF Shape, TypeOK, Idle
  <2>2. stack' \in Seq(Frame)
    BY <2>1, Popped
  <2> QED
    BY <2>1, <2>2, Popped
<1> QED
  BY <1>1, <1>2 DEF Stacked, StatesKept, Live

\* One frame, and nothing else under way.
LEMMA StackedAlone ==
  ASSUME NEW f \in Frame, stack' = << f >>,
         f.kind # "unmount" => bound'[f.at].state = "live"
  PROVE  Stacked'
<1>1. DOMAIN stack' = {1} /\ stack'[1] = f
  OBVIOUS
<1> QED
  BY <1>1 DEF Stacked, Live

LEMMA MountStacked ==
  ASSUME Shape, Stacked, NEW s \in Bounds, MountSuspense(s)
  PROVE  Stacked'
<1>1. PICK f \in Frame : f = RenderFrame("mount", s, {}) /\ f.kind = "mount" /\ f.at = s
  BY FramesMade
<1>2. stack \in Seq(Frame) /\ stack' = Append(stack, f) /\ bound[s].state = "new"
  BY <1>1 DEF MountSuspense, Shape, TypeOK
<1>3. \A t \in Bounds : bound'[t].state = IF t = s THEN "live" ELSE bound[t].state
  BY DEF MountSuspense, Shape, TypeOK, Boundaries, Boundary
<1>4. Idle \/ Top.kind # "unmount"
  BY DEF MountSuspense, Rendering, Patching
<1>5. \A i \in DOMAIN stack : /\ stack[i].kind # "unmount" /\ stack[i].at \in Bounds
                              /\ i > 1 => stack[i].kind = "mount"
                              /\ Live(stack[i].at)
  BY <1>4, NoUnmount DEF Shape, Frames, FrameOK, Stacked
<1>6. \A i \in DOMAIN stack' :
        \/ i \in DOMAIN stack /\ stack'[i] = stack[i] /\ stack[i].at # s
        \/ i = Len(stack') /\ stack'[i] = f
  BY <1>2, <1>5, Pushed DEF Live
<1>7. ASSUME NEW i \in DOMAIN stack'
      PROVE  /\ stack'[i].kind # "unmount"
             /\ i > 1 => stack'[i].kind = "mount"
             /\ bound'[stack'[i].at].state = "live"
  BY <1>1, <1>3, <1>5, <1>6 DEF Live
<1>8. ASSUME NEW i \in DOMAIN stack', NEW k \in DOMAIN stack', stack'[i].at = stack'[k].at
      PROVE  i = k
  BY <1>1, <1>5, <1>6, <1>8 DEF Stacked
<1> QED
  BY <1>7, <1>8, Zenon DEF Stacked, Live

LEMMA PatchStacked ==
  ASSUME Shape, NEW s \in Bounds, PatchSuspense(s)
  PROVE  Stacked'
<1>1. PICK f \in Frame : f = RenderFrame("patch", s, {}) /\ f.at = s
  BY FramesMade
<1>2. stack' = << f >> /\ bound'[f.at].state = "live"
  BY <1>1 DEF PatchSuspense, Idle, Live
<1> QED
  BY <1>2, StackedAlone

LEMMA RemoveSuspenseStacked ==
  ASSUME Shape, Stacked, NEW s \in Bounds, RemoveSuspense(s)
  PROVE  /\ Stacked'
         /\ \E f \in Frame : /\ stack' = Append(stack, f) /\ f.kind = "unmount"
                             /\ f.at = Parent(s) /\ f.todo = InTree(s)
<1>1. PICK f \in Frame : /\ f = UnmountFrame(InTree(s), Parent(s), "nowhere")
                         /\ f.kind = "unmount" /\ f.at = Parent(s) /\ f.todo = InTree(s)
  BY FramesMade, ParentTyped, InTreeMounted
<1>2. stack' = Append(stack, f) /\ bound' = Unmounted(Inside(s))
  BY <1>1 DEF RemoveSuspense
<1>3. CASE Idle
  <2>1. stack' = << f >>
    BY <1>2, <1>3 DEF Idle
  <2> QED
    BY <1>1, <1>2, <2>1, StackedAlone
<1>4. CASE ~Idle
  <2>1. Top.kind = "patch" /\ Rendering(Parent(s))
    BY <1>4 DEF RemoveSuspense
  <2>2. /\ Top = stack[Len(stack)] /\ Len(stack) \in DOMAIN stack /\ Top.at \in Bounds
    BY <1>4, <2>1, TopTyped DEF FrameOK
  <2>3. Len(stack) = 1 /\ Live(Top.at)
    <3>1. stack \in Seq(Frame) /\ Len(stack) \in Nat /\ Len(stack) >= 1
      BY <1>4, <2>2 DEF Shape, TypeOK, Idle
    <3>2. /\ Len(stack) > 1 => stack[Len(stack)].kind \in {"mount", "unmount"}
          /\ stack[Len(stack)].kind # "unmount" => Live(stack[Len(stack)].at)
      BY <2>2, Zenon DEF Stacked
    <3>3. stack[Len(stack)].kind = "patch"
      BY <2>1, <2>2
    <3> QED
      BY <2>2, <3>1, <3>2, <3>3
  <2>4. Top.at = Parent(s) /\ Parent(s) \in Bounds /\ Parent(s) \notin Inside(s)
    BY <1>4, <2>1, <2>2, ParentOutside DEF Rendering, Patching
  <2>5. bound'[Top.at].state = "live"
    BY <1>2, <2>2, <2>3, <2>4, UnmountedTyped DEF Shape, TypeOK, Live
  <2>6. DOMAIN stack' = {1, 2} /\ stack'[1] = Top /\ stack'[2] = f
    <3>1. stack \in Seq(Frame)
      BY DEF Shape, TypeOK
    <3>2. /\ stack' \in Seq(Frame) /\ Len(stack') = Len(stack) + 1 /\ stack'[Len(stack')] = f
          /\ 1 \in DOMAIN stack /\ \A i \in DOMAIN stack : stack'[i] = stack[i]
      BY <1>2, <2>2, <2>3, <3>1, Pushed
    <3>3. Len(stack') = 2
      BY <2>3, <3>2
    <3> QED
      BY <2>2, <2>3, <3>2, <3>3
  <2>7. Stacked'
    BY <1>1, <2>1, <2>5, <2>6 DEF Stacked, Live
  <2> QED
    BY <1>1, <1>2, <2>7
<1> QED
  BY <1>3, <1>4

LEMMA ReplaceStacked ==
  ASSUME Shape, NEW s \in Bounds, ReplaceContent(s)
  PROVE  /\ Stacked'
         /\ \E f, g \in Frame : /\ stack' = << f, g >> /\ f.kind = "patch" /\ f.at = s
                                /\ g.kind = "unmount" /\ g.at = s /\ g.todo = InTree(s)
                                /\ g.into = IF bound[s].isResolved THEN "shown" ELSE "hidden"
<1>1. PICK f \in Frame : f = RenderFrame("patch", s, {}) /\ f.kind = "patch" /\ f.at = s
  BY FramesMade
<1> DEFINE into == IF bound[s].isResolved THEN "shown" ELSE "hidden"
<1>2. PICK g \in Frame : /\ g = UnmountFrame(InTree(s), s, into) /\ g.kind = "unmount"
                         /\ g.at = s /\ g.todo = InTree(s) /\ g.into = into
  BY FramesMade, InTreeMounted
<1>3. stack' = << f, g >> /\ bound' = Unmounted(Inside(s) \ {s}) /\ Live(s)
  BY <1>1, <1>2 DEF ReplaceContent, Idle
<1>4. bound'[s].state = "live"
  BY <1>3, UnmountedTyped DEF Shape, TypeOK, Live
<1>5. DOMAIN stack' = {1, 2} /\ stack'[1] = f /\ stack'[2] = g
  BY <1>3
<1>6. Stacked'
  BY <1>1, <1>2, <1>4, <1>5 DEF Stacked, Live
<1> QED
  BY <1>1, <1>2, <1>3, <1>6

LEMMA UnmountNextStacked ==
  ASSUME Shape, Stacked, StatesKept, NEW c \in Comps, UnmountNext(c)
  PROVE  Stacked'
<1>1. /\ stack \in Seq(Frame) /\ stack # << >>
      /\ stack' = [stack EXCEPT ![Len(stack)].todo = @ \ {c}]
  BY DEF UnmountNext, Idle, Shape, TypeOK
<1>2. /\ DOMAIN stack' = DOMAIN stack
      /\ \A i \in DOMAIN stack : stack'[i].kind = stack[i].kind /\ stack'[i].at = stack[i].at
  BY <1>1, TopLess
<1>3. \A i \in DOMAIN stack : stack[i].kind # "unmount" => stack[i].at \in Bounds
  BY DEF Shape, Frames, FrameOK
<1>4. DOMAIN stack # {} => 1 \in DOMAIN stack
  BY <1>1
<1> QED
  BY <1>2, <1>3, <1>4 DEF Stacked, StatesKept, Live

--------------------------------------------------------------------------------
(* What a boundary waits for. *)

\* Components that are removed while they are pending are in an outermost boundary,
\* from the start, and their promises never settle.
Orderly ==
  \A c \in Abandon \cup Replaced : c \notin Settles \cup Late /\ Outer[Home[c]] = << >>

Counted(s) == {c \in PendingIn(s) : ~Settling(c)}

\* The deps are exact, and what is pending in a resolved boundary came late: its
\* job to recede is queued.
Waits(s) ==
  /\ IsFiniteSet(PendingIn(s))
  /\ bound[s].state = "new" => bound[s].deps = 0
  /\ Live(s) => bound[s].deps = Cardinality(Counted(s))
  /\ Live(s) /\ bound[s].isResolved => PendingIn(s) \subseteq Late
  /\ Live(s) /\ bound[s].isResolved => PendingIn(s) = {} \/ s \in ToSet(jobs)

\* A component comes into a boundary that was mounted; a promise that waits is of
\* a component that is pending, or went with its boundary.
Comes(c) ==
  /\ phase[c] # "new" => bound[Home[c]].state # "new"
  /\ c \in waiting => phase[c] \in {"pending", "removed"}
  /\ c \in waiting /\ phase[c] = "removed" /\ c \in Settles => bound[Home[c]].state = "unmounted"
  /\ Settling(c) => phase[c] = "pending"

\* A promise settles in the boundary of its component.  What is pending in a tree
\* that is being unmounted gives up its dep in its own boundary, or has no dep
\* to give up.
SettlesAtHome ==
  \A i \in DOMAIN stack : stack[i].kind = "settle" => \A c \in stack[i].todo : stack[i].at = Home[c]

GoesWith(f) ==
  \A c \in f.todo : phase[c] = "pending" =>
    \/ Home[c] = f.at /\ c \in Replaced
    \/ bound[Home[c]].state = "unmounted" /\ (f.at = None \/ bound[f.at].isResolved)

Goes == \A i \in DOMAIN stack : stack[i].kind = "unmount" => GoesWith(stack[i])

Exact == (\A s \in Bounds : Waits(s)) /\ (\A c \in Comps : Comes(c)) /\ SettlesAtHome /\ Goes

\* The premises of a step.
Good == Shape /\ Lives /\ Stacked /\ Exact

LEMMA CountedFinite ==
  ASSUME NEW s, IsFiniteSet(PendingIn(s))
  PROVE  IsFiniteSet(Counted(s)) /\ Cardinality(Counted(s)) \in Nat
         /\ (Cardinality(Counted(s)) = 0 <=> Counted(s) = {})
<1>1. Counted(s) \in SUBSET PendingIn(s)
  BY DEF Counted
<1>2. IsFiniteSet(Counted(s))
  BY <1>1, FS_Subset
<1> QED
  BY <1>2, FS_CardinalityType, FS_EmptySet

\* A boundary waits for what it waited for.
LEMMA WaitsSame ==
  ASSUME NEW s \in Bounds, Waits(s), PendingIn(s)' = PendingIn(s), Counted(s)' = Counted(s),
         bound'[s].deps = bound[s].deps,
         bound'[s].state = "new" => bound[s].state = "new",
         bound'[s].state = "live" => Live(s) \/ (PendingIn(s) = {} /\ bound[s].state = "new"),
         bound'[s].isResolved => bound[s].isResolved \/ PendingIn(s) = {},
         bound'[s].isResolved /\ s \in ToSet(jobs) => s \in ToSet(jobs')
  PROVE  Waits(s)'
<1>1. PendingIn(s) = {} => Cardinality(Counted(s)) = 0
  BY FS_EmptySet DEF Counted
<1> QED
  BY <1>1 DEF Waits, Live

LEMMA ComesSame ==
  ASSUME NEW c \in Comps, Comes(c), phase'[c] = phase[c], c \in waiting' => c \in waiting,
         Settling(c)' => Settling(c) \/ phase[c] = "pending",
         bound[Home[c]].state # "new" => bound'[Home[c]].state # "new",
         bound[Home[c]].state = "unmounted" => bound'[Home[c]].state = "unmounted"
  PROVE  Comes(c)'
BY DEF Comes

\* With the phases, what settles and the deps kept, so are all the counts.
LEMMA CountsSame ==
  ASSUME phase' = phase, \A c \in Comps : Settling(c)' <=> Settling(c), NEW s \in Bounds
  PROVE  PendingIn(s)' = PendingIn(s) /\ Counted(s)' = Counted(s)
BY DEF PendingIn, Counted

\* The frames that settle stay when another is popped or pushed.
LEMMA SettlingPopped ==
  ASSUME stack \in Seq(Frame), stack # << >>, stack' = Front(stack), Top.kind # "settle", NEW c
  PROVE  Settling(c)' <=> Settling(c)
<1>1. Settling(c)' => Settling(c)
  BY SettlingLess
<1>2. ASSUME NEW i \in DOMAIN stack, stack[i].kind = "settle", c \in stack[i].todo
      PROVE  Settling(c)'
  <2>1. i # Len(stack)
    BY <1>2, Popped DEF Top
  <2>2. i \in DOMAIN stack' /\ stack'[i] = stack[i]
    BY <2>1, Popped
  <2> QED
    BY <1>2, <2>2 DEF Settling
<1> QED
  BY <1>1, <1>2 DEF Settling

LEMMA SettlingPushed ==
  ASSUME stack \in Seq(Frame), NEW f \in Frame, stack' = Append(stack, f), f.kind # "settle", NEW c
  PROVE  Settling(c)' <=> Settling(c)
<1>1. Settling(c)' => Settling(c)
  BY SettlingMore
<1>2. \A i \in DOMAIN stack : i \in DOMAIN stack' /\ stack'[i] = stack[i]
  BY Pushed
<1> QED
  BY <1>1, <1>2 DEF Settling

\* The frames that are left say what they said.
LEMMA FramesSame ==
  ASSUME Shape, SettlesAtHome, Goes,
         \A i \in DOMAIN stack' :
           /\ i \in DOMAIN stack /\ stack'[i].kind = stack[i].kind /\ stack'[i].at = stack[i].at
           /\ stack'[i].todo \subseteq stack[i].todo,
         \A c \in Comps : phase'[c] = "pending" => phase[c] = "pending",
         \A s \in Bounds : /\ bound[s].state = "unmounted" => bound'[s].state = "unmounted"
                           /\ bound[s].isResolved => bound'[s].isResolved
  PROVE  SettlesAtHome' /\ Goes'
<1>1. SettlesAtHome'
  BY DEF SettlesAtHome
<1>2. ASSUME NEW i \in DOMAIN stack', stack'[i].kind = "unmount", NEW c \in stack'[i].todo,
             phase'[c] = "pending"
      PROVE  \/ Home[c] = stack'[i].at /\ c \in Replaced
             \/ /\ bound'[Home[c]].state = "unmounted"
                /\ stack'[i].at = None \/ bound'[stack'[i].at].isResolved
  <2>1. /\ stack'[i].at = stack[i].at /\ i \in DOMAIN stack /\ stack[i] \in Frame
        /\ c \in stack[i].todo /\ stack[i].kind = "unmount"
    BY <1>2 DEF Shape, TypeOK
  <2>2. c \in Comps
    BY <2>1 DEF Frame
  <2>3. phase[c] = "pending" /\ Home[c] \in Bounds /\ stack[i].at \in Bounds \cup {None}
    BY <1>2, <2>1, <2>2, BoundsAssumption DEF Frame
  <2>4. \/ Home[c] = stack[i].at /\ c \in Replaced
        \/ /\ bound[Home[c]].state = "unmounted"
           /\ stack[i].at = None \/ bound[stack[i].at].isResolved
    BY <2>1, <2>3 DEF Goes, GoesWith
  <2> QED
    BY <2>1, <2>3, <2>4
<1> QED
  BY <1>1, <1>2 DEF Goes, GoesWith

LEMMA MountExact ==
  ASSUME Good, NEW s \in Bounds, MountSuspense(s)
  PROVE  Exact'
<1>1. PICK f \in Frame : f = RenderFrame("mount", s, {}) /\ f.kind = "mount"
  BY FramesMade
<1>2. /\ stack \in Seq(Frame) /\ stack' = Append(stack, f) /\ bound[s].state = "new"
      /\ phase' = phase /\ waiting' = waiting /\ jobs' = jobs
  BY <1>1 DEF MountSuspense, Good, Shape, TypeOK
<1>3. \A t \in Bounds : /\ bound'[t].state = IF t = s THEN "live" ELSE bound[t].state
                        /\ bound'[t].deps = bound[t].deps
                        /\ bound'[t].isResolved = bound[t].isResolved
  BY DEF MountSuspense, Good, Shape, TypeOK, Boundaries, Boundary
<1>4. \A c \in Comps : Settling(c)' <=> Settling(c)
  BY <1>1, <1>2, SettlingPushed
<1>5. PendingIn(s) = {}
  BY <1>2 DEF Good, Exact, Comes, PendingIn
<1>6. ASSUME NEW t \in Bounds PROVE Waits(t)'
  <2>1. PendingIn(t)' = PendingIn(t) /\ Counted(t)' = Counted(t)
    BY <1>2, <1>4, CountsSame
  <2>2. Waits(t)
    BY DEF Good, Exact
  <2> QED
    BY <1>2, <1>3, <1>5, <2>1, <2>2, WaitsSame DEF Live
<1>7. ASSUME NEW c \in Comps PROVE Comes(c)'
  <2>1. Comes(c) /\ Home[c] \in Bounds
    BY BoundsAssumption DEF Good, Exact
  <2> QED
    BY <1>2, <1>3, <1>4, <2>1, ComesSame
<1>8. Idle \/ Top.kind # "unmount"
  BY DEF MountSuspense, Rendering, Patching
<1>9. \A i \in DOMAIN stack' :
        \/ i \in DOMAIN stack /\ stack'[i] = stack[i] /\ stack[i].kind # "unmount"
        \/ stack'[i] = f
  BY <1>2, <1>8, Pushed, NoUnmount DEF Good
<1>10. SettlesAtHome' /\ Goes'
  BY <1>1, <1>9 DEF Good, Exact, SettlesAtHome, Goes
<1> QED
  BY <1>6, <1>7, <1>10 DEF Exact

LEMMA PatchExact ==
  ASSUME Good, NEW s \in Bounds, PatchSuspense(s)
  PROVE  Exact'
<1>1. PICK f \in Frame : f = RenderFrame("patch", s, {}) /\ f.kind = "patch"
  BY FramesMade
<1>2. /\ stack \in Seq(Frame) /\ stack' = Append(stack, f) /\ bound' = bound /\ stack = << >>
      /\ phase' = phase /\ waiting' = waiting /\ jobs' = jobs
  BY <1>1 DEF PatchSuspense, Idle, Good, Shape, TypeOK
<1>3. \A c \in Comps : Settling(c)' <=> Settling(c)
  BY <1>1, <1>2, SettlingPushed
<1>4. ASSUME NEW t \in Bounds PROVE Waits(t)'
  <2>1. PendingIn(t)' = PendingIn(t) /\ Counted(t)' = Counted(t)
    BY <1>2, <1>3, CountsSame
  <2> QED
    BY <1>2, <2>1, WaitsSame DEF Good, Exact, Live
<1>5. ASSUME NEW c \in Comps PROVE Comes(c)'
  BY <1>2, <1>3, ComesSame DEF Good, Exact
<1>6. \A i \in DOMAIN stack' : stack'[i] = f
  BY <1>2
<1> QED
  BY <1>1, <1>4, <1>5, <1>6 DEF Exact, SettlesAtHome, Goes

\* A frame ends, and with it nothing that settles; a boundary may be resolved in
\* which nothing is pending.
LEMMA EndExact ==
  ASSUME Good, ~Idle, Top.kind # "settle", stack' = Front(stack),
         phase' = phase, waiting' = waiting, jobs' = jobs,
         \A t \in Bounds : /\ bound'[t].state = bound[t].state /\ bound'[t].deps = bound[t].deps
                           /\ bound[t].isResolved => bound'[t].isResolved
                           /\ bound'[t].isResolved => bound[t].isResolved \/ PendingIn(t) = {}
  PROVE  Exact'
<1>1. stack \in Seq(Frame) /\ stack # << >>
  BY DEF Good, Shape, TypeOK, Idle
<1>2. \A c \in Comps : Settling(c)' <=> Settling(c)
  BY <1>1, SettlingPopped
<1>3. ASSUME NEW t \in Bounds PROVE Waits(t)'
  <2>1. PendingIn(t)' = PendingIn(t) /\ Counted(t)' = Counted(t)
    BY <1>2, CountsSame
  <2> QED
    BY <2>1, WaitsSame DEF Good, Exact, Live
<1>4. ASSUME NEW c \in Comps PROVE Comes(c)'
  <2>1. Comes(c) /\ Home[c] \in Bounds
    BY BoundsAssumption DEF Good, Exact
  <2> QED
    BY <1>2, <2>1, ComesSame
<1>5. \A i \in DOMAIN stack' : i \in DOMAIN stack /\ stack'[i] = stack[i]
  BY <1>1, Popped
<1>6. SettlesAtHome' /\ Goes'
  BY <1>5, FramesSame DEF Good, Exact
<1> QED
  BY <1>3, <1>4, <1>6 DEF Exact

LEMMA EndMountExact ==
  ASSUME Good, EndMount
  PROVE  Exact'
<1> DEFINE s == Top.at
<1>1. /\ phase' = phase /\ waiting' = waiting /\ jobs' = jobs /\ stack' = Front(stack)
      /\ ~Idle /\ Top.kind = "mount"
  BY DEF EndMount
<1>2. s \in Bounds /\ Len(stack) \in DOMAIN stack /\ Top = stack[Len(stack)]
  BY <1>1, TopTyped DEF FrameOK, Good
<1>3. CASE bound[s].deps > 0
  <2>1. bound' = [bound EXCEPT ![s].fallback = 1]
    BY <1>3 DEF EndMount, Becomes, State
  <2>2. \A t \in Bounds : /\ bound'[t].state = bound[t].state /\ bound'[t].deps = bound[t].deps
                          /\ bound'[t].isResolved = bound[t].isResolved
    BY <2>1 DEF Good, Shape, TypeOK, Boundaries, Boundary
  <2> QED
    BY <1>1, <2>2, EndExact
<1>4. CASE ~(bound[s].deps > 0)
  <2>1. bound' = Resolve(s, bound, posts).bound
    BY <1>4 DEF EndMount, Becomes
  <2>2. ResolvedAt(s, bound, bound') /\ SameDeps(bound, bound')
    BY <1>2, <2>1, ResolveFields DEF Good, Shape, TypeOK
  <2>3. Live(s) /\ \A i \in DOMAIN stack : stack[i].kind = "settle" => stack[i].at # s
    BY <1>1, <1>2 DEF Good, Stacked
  <2>4. \A c \in PendingIn(s) : ~Settling(c)
    BY <2>3 DEF Good, Exact, SettlesAtHome, Settling, PendingIn
  <2>5. PendingIn(s) = {}
    <3>1. /\ bound[s].deps = Cardinality(Counted(s)) /\ IsFiniteSet(PendingIn(s))
      BY <1>2, <2>3 DEF Good, Exact, Waits
    <3>2. Counted(s) = {}
      BY <1>4, <3>1, CountedFinite
    <3> QED
      BY <2>4, <3>2 DEF Counted
  <2>6. \A t \in Bounds : /\ bound'[t].state = bound[t].state /\ bound'[t].deps = bound[t].deps
                          /\ bound[t].isResolved => bound'[t].isResolved
                          /\ bound'[t].isResolved => bound[t].isResolved \/ PendingIn(t) = {}
    BY <1>2, <2>2, <2>5 DEF ResolvedAt, SameDeps
  <2> QED
    BY <1>1, <2>6, EndExact
<1> QED
  BY <1>3, <1>4

LEMMA EndPatchExact ==
  ASSUME Good, EndPatch \/ EndUnmount
  PROVE  Exact'
<1>1. /\ phase' = phase /\ waiting' = waiting /\ jobs' = jobs /\ stack' = Front(stack)
      /\ ~Idle /\ Top.kind # "settle"
  BY DEF EndPatch, EndUnmount
<1>2. PICK o, v : bound' = bound \/ bound' = [bound EXCEPT ![o].content = v]
  BY DEF EndPatch, EndUnmount
<1>3. ASSUME NEW t \in Bounds
      PROVE  /\ bound'[t].state = bound[t].state /\ bound'[t].deps = bound[t].deps
             /\ bound'[t].isResolved = bound[t].isResolved
  <2>1. bound \in [Bounds -> Boundary] /\ bound[t] \in Boundary
    BY DEF Good, Shape, TypeOK, Boundaries
  <2>2. CASE o = t
    BY <1>2, <2>1, <2>2 DEF Boundary
  <2>3. CASE o # t
    BY <1>2, <2>1, <2>3
  <2> QED
    BY <2>2, <2>3
<1> QED
  BY <1>1, <1>3, EndExact

\* A tree is unmounted: its boundaries are, and what is pending in them has no
\* dep to give up where the tree is taken from.
LEMMA RemoveSuspenseExact ==
  ASSUME Orderly, Good, NEW s \in Bounds, RemoveSuspense(s)
  PROVE  Exact'
<1>1. PICK f \in Frame : /\ stack' = Append(stack, f) /\ f.kind = "unmount"
                         /\ f.at = Parent(s) /\ f.todo = InTree(s)
  BY RemoveSuspenseStacked DEF Good
<1>2. /\ stack \in Seq(Frame) /\ phase' = phase /\ waiting' = waiting /\ jobs' = jobs
      /\ bound' = Unmounted(Inside(s))
      /\ IsPending(Parent(s)) => \A c \in InTree(s) : phase[c] = "pending" => c \in Abandon
      /\ ~Idle => Top.kind = "patch"
  BY DEF RemoveSuspense, Good, Shape, TypeOK
<1>3. \A t \in Bounds :
        /\ bound'[t].state = IF t \in Inside(s) /\ Live(t) THEN "unmounted" ELSE bound[t].state
        /\ bound'[t].deps = bound[t].deps /\ bound'[t].isResolved = bound[t].isResolved
  BY <1>2, UnmountedTyped DEF Good, Shape, TypeOK
<1>4. \A c \in Comps : Settling(c)' <=> Settling(c)
  BY <1>1, <1>2, SettlingPushed
<1>5. ASSUME NEW t \in Bounds PROVE Waits(t)'
  <2>1. PendingIn(t)' = PendingIn(t) /\ Counted(t)' = Counted(t)
    BY <1>2, <1>4, CountsSame
  <2> QED
    BY <1>2, <1>3, <2>1, WaitsSame DEF Good, Exact, Live
<1>6. ASSUME NEW c \in Comps PROVE Comes(c)'
  <2>1. Comes(c) /\ Home[c] \in Bounds
    BY BoundsAssumption DEF Good, Exact
  <2> QED
    BY <1>2, <1>3, <1>4, <2>1, ComesSame
<1>7. GoesWith(f)'
  <2> SUFFICES ASSUME NEW c \in InTree(s), phase[c] = "pending"
               PROVE  /\ bound'[Home[c]].state = "unmounted"
                      /\ Parent(s) = None \/ bound'[Parent(s)].isResolved
    BY <1>1, <1>2 DEF GoesWith
  <2>1. c \in Comps /\ Home[c] \in Inside(s) /\ Home[c] \in Bounds
    BY BoundsAssumption DEF InTree, Mounted
  <2>2. bound[Home[c]].state # "new" /\ bound[Home[c]] \in Boundary
    BY <2>1 DEF Good, Exact, Comes, Shape, TypeOK, Boundaries
  <2>3. bound'[Home[c]].state = "unmounted"
    BY <1>3, <2>1, <2>2 DEF Live, Boundary
  <2>4. ASSUME IsPending(Parent(s)) PROVE FALSE
    <3>1. c \in Abandon
      BY <1>2, <2>4
    <3>2. Outer[Home[c]] = << >>
      BY <3>1 DEF Orderly
    <3>3. s = Home[c]
      BY <2>1, <3>2 DEF Inside, ToSet
    <3> QED
      BY <2>4, <3>2, <3>3 DEF Parent, IsPending
  <2>5. Parent(s) \in Bounds \cup {None}
    BY ParentTyped
  <2> QED
    BY <1>3, <2>3, <2>4, <2>5 DEF IsPending
<1>8. Idle \/ Top.kind # "unmount"
  BY <1>2
<1>9. \A i \in DOMAIN stack' :
        \/ i \in DOMAIN stack /\ stack'[i] = stack[i] /\ stack[i].kind # "unmount"
        \/ stack'[i] = f
  BY <1>1, <1>2, <1>8, Pushed, NoUnmount DEF Good
<1>10. SettlesAtHome'
  BY <1>1, <1>9 DEF Good, Exact, SettlesAtHome
<1>11. Goes'
  BY <1>7, <1>9 DEF Goes, GoesWith
<1> QED
  BY <1>5, <1>6, <1>10, <1>11 DEF Exact

\* The content of a boundary is replaced: what is pending in it and not deeper is
\* one of its deps.
LEMMA ReplaceExact ==
  ASSUME Orderly, Good, NEW s \in Bounds, ReplaceContent(s)
  PROVE  Exact'
<1>1. PICK f, g \in Frame : /\ stack' = << f, g >> /\ f.kind = "patch" /\ f.at = s
                            /\ g.kind = "unmount" /\ g.at = s /\ g.todo = InTree(s)
  BY ReplaceStacked DEF Good
<1>2. /\ stack = << >> /\ phase' = phase /\ waiting' = waiting /\ jobs' = jobs
      /\ bound' = Unmounted(Inside(s) \ {s})
      /\ \A c \in InTree(s) :
           phase[c] = "pending" => c \in Replaced \/ (Home[c] # s /\ bound[s].isResolved)
  BY DEF ReplaceContent, Idle
<1>3. \A t \in Bounds :
        /\ bound'[t].state = IF t \in Inside(s) \ {s} /\ Live(t) THEN "unmounted" ELSE bound[t].state
        /\ bound'[t].deps = bound[t].deps /\ bound'[t].isResolved = bound[t].isResolved
  BY <1>2, UnmountedTyped DEF Good, Shape, TypeOK
<1>4. DOMAIN stack' = {1, 2} /\ stack'[1] = f /\ stack'[2] = g
  BY <1>1
<1>5. \A c \in Comps : Settling(c)' <=> Settling(c)
  BY <1>1, <1>2, <1>4 DEF Settling
<1>6. ASSUME NEW t \in Bounds PROVE Waits(t)'
  <2>1. PendingIn(t)' = PendingIn(t) /\ Counted(t)' = Counted(t)
    BY <1>2, <1>5, CountsSame
  <2> QED
    BY <1>2, <1>3, <2>1, WaitsSame DEF Good, Exact, Live
<1>7. ASSUME NEW c \in Comps PROVE Comes(c)'
  <2>1. Comes(c) /\ Home[c] \in Bounds
    BY BoundsAssumption DEF Good, Exact
  <2> QED
    BY <1>2, <1>3, <1>5, <2>1, ComesSame
<1>8. GoesWith(g)'
  <2> SUFFICES ASSUME NEW c \in InTree(s), phase[c] = "pending"
               PROVE  \/ Home[c] = s /\ c \in Replaced
                      \/ bound'[Home[c]].state = "unmounted" /\ bound'[s].isResolved
    BY <1>1, <1>2 DEF GoesWith
  <2>1. c \in Comps /\ Home[c] \in Inside(s) /\ Home[c] \in Bounds
    BY BoundsAssumption DEF InTree, Mounted
  <2>2. bound[Home[c]].state # "new" /\ bound[Home[c]] \in Boundary
    BY <2>1 DEF Good, Exact, Comes, Shape, TypeOK, Boundaries
  <2>3. CASE c \in Replaced
    <3>1. Outer[Home[c]] = << >>
      BY <2>3 DEF Orderly
    <3> QED
      BY <2>1, <2>3, <3>1 DEF Inside, ToSet
  <2>4. CASE Home[c] # s /\ bound[s].isResolved
    BY <1>3, <2>1, <2>2, <2>4 DEF Live, Boundary
  <2> QED
    BY <1>2, <2>3, <2>4
<1>9. SettlesAtHome' /\ Goes'
  BY <1>1, <1>4, <1>8 DEF SettlesAtHome, Goes, GoesWith
<1> QED
  BY <1>6, <1>7, <1>9 DEF Exact

\* What the removal of a component does to the deps.
LEMMA UnmountDeps ==
  ASSUME Shape, NEW c \in Comps, NEW s \in Bounds \cup {None}, UnmountComponent(c, s)
  PROVE  LET drops == IsPending(s) /\ bound[s].state # "unmounted" /\ phase[c] = "pending" IN
         \A t \in Bounds :
           /\ bound'[t].state = bound[t].state
           /\ bound'[t].deps = IF drops /\ t = s THEN bound[t].deps - 1 ELSE bound[t].deps
           /\ bound[t].isResolved => bound'[t].isResolved
           /\ bound'[t].isResolved => bound[t].isResolved \/ (drops /\ t = s /\ bound[t].deps = 1)
<1> DEFINE q == QueueEffectWithSuspense(UnmountedMark(c), s, bound, posts)
           drops == IsPending(s) /\ bound[s].state # "unmounted" /\ phase[c] = "pending"
           d == DropDep(s, q.bound, q.posts)
<1>1. /\ q.bound \in Boundaries /\ q.posts \in SUBSET Effects
      /\ Alike(bound, q.bound) /\ SameDeps(bound, q.bound)
  BY EffectsTyped, QueueFields DEF Shape, TypeOK
<1>2. drops => s \in Bounds
  BY DEF IsPending
<1>3. bound' = IF drops THEN d.bound ELSE q.bound
  BY DEF UnmountComponent, Becomes
<1> HIDE DEF q, drops
<1>4. CASE drops
  <2>1. /\ \A t \in Bounds : d.bound[t].deps = IF t = s THEN q.bound[t].deps - 1 ELSE q.bound[t].deps
        /\ IF q.bound[s].deps = 1
           THEN ResolvedAt(s, q.bound, d.bound)
           ELSE Alike(q.bound, d.bound)
    <3>1. s \in Bounds
      BY <1>2, <1>4
    <3>2. DroppedAt(s, q.bound, q.posts, d.bound, d.posts)
      BY <1>1, <3>1, DropFields, Zenon
    <3> QED
      BY <3>2 DEF DroppedAt
  <2> HIDE DEF d
  <2> QED
    BY <1>1, <1>2, <1>3, <1>4, <2>1 DEF Alike, SameDeps, ResolvedAt, drops
<1>5. CASE ~drops
  BY <1>1, <1>3, <1>5 DEF Alike, SameDeps, drops
<1> QED
  BY <1>4, <1>5

\* A component is removed while nothing settles, from its own boundary or when it
\* has no dep to give up.
LEMMA UnmountExact ==
  ASSUME Good, NEW c \in Comps, NEW s \in Bounds \cup {None}, UnmountComponent(c, s),
         phase[c] \in {"pending", "rendered"},
         phase[c] = "pending" =>
           \/ Home[c] = s /\ c \notin Settles \cup Late
           \/ bound[Home[c]].state = "unmounted" /\ (s = None \/ bound[s].isResolved),
         \A d \in Comps : ~Settling(d) /\ ~Settling(d)',
         \A i \in DOMAIN stack' :
           /\ i \in DOMAIN stack /\ stack'[i].kind = stack[i].kind /\ stack'[i].at = stack[i].at
           /\ stack'[i].todo \subseteq stack[i].todo
  PROVE  Exact'
<1> DEFINE drops == IsPending(s) /\ bound[s].state # "unmounted" /\ phase[c] = "pending"
           h == Home[c]
<1>1. \A t \in Bounds :
        /\ bound'[t].state = bound[t].state
        /\ bound'[t].deps = IF drops /\ t = s THEN bound[t].deps - 1 ELSE bound[t].deps
        /\ bound[t].isResolved => bound'[t].isResolved
        /\ bound'[t].isResolved => bound[t].isResolved \/ (drops /\ t = s /\ bound[t].deps = 1)
  BY UnmountDeps DEF Good
<1>2. phase' = [phase EXCEPT ![c] = "removed"] /\ waiting' = waiting /\ jobs' = jobs
  BY DEF UnmountComponent
<1>3. phase \in [Comps -> Phases] /\ h \in Bounds /\ bound[h] \in Boundary /\ bound[h].state # "new"
  BY BoundsAssumption DEF Good, Shape, TypeOK, Boundaries, Exact, Comes
<1>4. \A d \in Comps : phase'[d] = IF d = c THEN "removed" ELSE phase[d]
  BY <1>2, <1>3
<1>5. \A t \in Bounds : /\ Counted(t) = PendingIn(t) /\ Counted(t)' = PendingIn(t)'
                        /\ PendingIn(t)' = PendingIn(t) \ {c}
  BY <1>4 DEF Counted, PendingIn
<1>6. \A t \in Bounds : t # h \/ phase[c] = "rendered" => PendingIn(t)' = PendingIn(t)
  BY <1>5 DEF PendingIn
<1>7. Waits(h)'
  <2>1. Waits(h)
    BY <1>3 DEF Good, Exact
  <2>2. IsFiniteSet(PendingIn(h)')
    BY <1>3, <1>5, <2>1, FS_RemoveElement DEF Waits
  <2>3. bound'[h].state # "new"
    BY <1>1, <1>3
  <2>4. CASE drops
    <3>1. ~bound[s].isResolved /\ s \in Bounds /\ phase[c] = "pending"
      BY <2>4 DEF IsPending
    <3>2. h = s
      BY <3>1, BoundsAssumption
    <3>3. c \in PendingIn(h)
      BY <3>1 DEF PendingIn
    <3>4. Cardinality(PendingIn(h)') = Cardinality(PendingIn(h)) - 1
      BY <1>3, <1>5, <2>1, <3>3, FS_RemoveElement DEF Waits
    <3>5. bound'[h].deps = bound[h].deps - 1 /\ (bound'[h].isResolved => bound[h].deps = 1)
      BY <1>1, <2>4, <3>1, <3>2
    <3>6. Live(h) => bound[h].deps = Cardinality(PendingIn(h))
      BY <1>3, <1>5, <2>1 DEF Waits
    <3>7. Live(h) /\ bound'[h].isResolved => PendingIn(h)' = {}
      <4>1. Live(h) /\ bound'[h].isResolved => Cardinality(PendingIn(h)') = 0
        BY <3>4, <3>5, <3>6
      <4> QED
        BY <2>2, <4>1, FS_EmptySet
    <3>8. Live(h)' <=> Live(h)
      BY <1>1, <1>3 DEF Live
    <3> QED
      BY <1>3, <1>5, <2>2, <2>3, <3>4, <3>5, <3>6, <3>7, <3>8 DEF Waits
  <2>5. CASE ~drops /\ phase[c] = "pending"
    <3>1. bound[h].state = "unmounted"
      <4>1. SUFFICES ASSUME h = s, c \notin Late, bound[h].state # "unmounted" PROVE FALSE
        BY <2>5
      <4>2. Live(h) /\ bound[h].isResolved
        BY <1>3, <2>5, <4>1, BoundsAssumption DEF IsPending, Live, Boundary
      <4>3. c \in PendingIn(h)
        BY <2>5 DEF PendingIn
      <4> QED
        BY <2>1, <4>1, <4>2, <4>3 DEF Waits
    <3>2. bound'[h].state = "unmounted"
      BY <1>1, <1>3, <3>1
    <3> QED
      BY <2>2, <3>2 DEF Waits, Live
  <2>6. CASE phase[c] = "rendered"
    <3>1. PendingIn(h)' = PendingIn(h) /\ Counted(h)' = Counted(h)
      BY <1>3, <1>5, <1>6, <2>6
    <3> QED
      BY <1>1, <1>2, <1>3, <2>1, <2>6, <3>1, WaitsSame DEF Live
  <2> QED
    BY <2>4, <2>5, <2>6
<1>8. ASSUME NEW t \in Bounds, t # h PROVE Waits(t)'
  <2>1. PendingIn(t)' = PendingIn(t) /\ Counted(t)' = Counted(t) /\ Waits(t)
    BY <1>5, <1>6, <1>8 DEF Good, Exact
  <2>2. ~(drops /\ t = s)
    BY <1>8 DEF IsPending
  <2> HIDE DEF drops
  <2> QED
    BY <1>1, <1>2, <2>1, <2>2, WaitsSame DEF Live
<1>9. ASSUME NEW d \in Comps PROVE Comes(d)'
  <2>1. Comes(d) /\ Lived(d) /\ Home[d] \in Bounds /\ ~Settling(d)'
    BY BoundsAssumption DEF Good, Exact, Lives
  <2>2. bound'[Home[d]].state = bound[Home[d]].state
    BY <1>1, <2>1
  <2>3. CASE d = c
    <3>1. c \in waiting => phase[c] = "pending"
      BY <2>1, <2>3 DEF Lived
    <3> QED
      BY <1>2, <1>3, <1>4, <2>1, <2>2, <2>3, <3>1 DEF Comes
  <2>4. CASE d # c
    BY <1>2, <1>4, <2>1, <2>2, <2>4 DEF Comes
  <2> QED
    BY <2>3, <2>4
<1>10. SettlesAtHome' /\ Goes'
  <2>1. \A t \in Bounds : /\ bound[t].state = "unmounted" => bound'[t].state = "unmounted"
                          /\ bound[t].isResolved => bound'[t].isResolved
    BY <1>1
  <2>2. \A d \in Comps : phase'[d] = "pending" => phase[d] = "pending"
    BY <1>4
  <2> QED
    BY <2>1, <2>2, FramesSame DEF Good, Exact
<1> QED
  BY <1>7, <1>8, <1>9, <1>10 DEF Exact

\* While a boundary is patched, or a tree unmounted, no promise settles.
LEMMA NoneSettles ==
  ASSUME Good, ~Idle, Top.kind \in {"patch", "unmount"}
  PROVE  \A i \in DOMAIN stack : stack[i].kind # "settle"
<1>1. Top = stack[Len(stack)] /\ Len(stack) \in DOMAIN stack
  BY TopTyped DEF Good
<1>2. stack \in Seq(Frame) /\ 1 \in DOMAIN stack
  BY <1>1 DEF Good, Shape, TypeOK
<1>3. Len(stack) > 1 => stack[1].kind = "patch"
  BY <1>1 DEF Good, Stacked
<1>4. Len(stack) = 1 => stack[1].kind # "settle"
  BY <1>1
<1>5. \A i \in DOMAIN stack : stack[i].kind = "settle" => i = 1
  BY DEF Good, Shape, Frames, FrameOK
<1> QED
  BY <1>1, <1>2, <1>3, <1>4, <1>5

LEMMA RemoveExact ==
  ASSUME Orderly, Good, NEW c \in Comps, RemoveComponent(c)
  PROVE  Exact'
<1>1. /\ ~Idle /\ Top.kind = "patch" /\ UnmountComponent(c, Home[c]) /\ stack' = stack
      /\ phase[c] \in {"pending", "rendered"} /\ (phase[c] = "pending" => c \in Abandon)
      /\ Home[c] \in Bounds
  BY BoundsAssumption DEF RemoveComponent, Patching
<1>2. \A d \in Comps : ~Settling(d) /\ ~Settling(d)'
  BY <1>1, NoneSettles DEF Settling
<1>3. phase[c] = "pending" => c \notin Settles \cup Late
  BY <1>1 DEF Orderly
<1> QED
  BY <1>1, <1>2, <1>3, UnmountExact

LEMMA UnmountNextExact ==
  ASSUME Orderly, Good, NEW c \in Comps, UnmountNext(c)
  PROVE  Exact'
<1>1. /\ ~Idle /\ Top.kind = "unmount" /\ c \in Top.todo /\ UnmountComponent(c, Top.at)
      /\ phase[c] \in {"pending", "rendered"} /\ Top.at \in Bounds \cup {None}
  BY UnmountNextShape DEF UnmountNext, Good
<1>2. /\ stack \in Seq(Frame) /\ stack # << >>
      /\ stack' = [stack EXCEPT ![Len(stack)].todo = @ \ {c}]
  BY DEF UnmountNext, Idle, Good, Shape, TypeOK
<1>3. /\ DOMAIN stack' = DOMAIN stack
      /\ \A i \in DOMAIN stack : /\ stack'[i].kind = stack[i].kind /\ stack'[i].at = stack[i].at
                                 /\ stack'[i].todo \subseteq stack[i].todo
  BY <1>2, TopLess
<1>4. \A d \in Comps : ~Settling(d) /\ ~Settling(d)'
  BY <1>1, <1>3, NoneSettles DEF Settling
<1>5. phase[c] = "pending" =>
        \/ Home[c] = Top.at /\ c \notin Settles \cup Late
        \/ bound[Home[c]].state = "unmounted" /\ (Top.at = None \/ bound[Top.at].isResolved)
  <2>1. Top = stack[Len(stack)] /\ Len(stack) \in DOMAIN stack
    BY <1>1, TopTyped DEF Good
  <2>2. GoesWith(Top)
    BY <1>1, <2>1 DEF Good, Exact, Goes
  <2> QED
    BY <1>1, <2>2 DEF GoesWith, Orderly
<1> QED
  BY <1>1, <1>3, <1>4, <1>5, UnmountExact

\* A component is mounted in a boundary that is being mounted or patched.
LEMMA MountSyncExact ==
  ASSUME Good, NEW c \in Comps, MountComponent(c), MountSync(c)
  PROVE  Exact'
<1> DEFINE q == QueueEffectWithSuspense(MountedHook(c), Home[c], bound, posts)
<1>1. /\ phase' = [phase EXCEPT ![c] = "rendered"] /\ phase[c] = "new" /\ waiting' = waiting
      /\ jobs' = jobs /\ stack' = stack /\ ~Idle /\ Top.kind # "unmount" /\ Top.at = Home[c]
      /\ bound' = q.bound
  BY DEF MountComponent, MountSync, Patching, Becomes
<1>2. Home[c] \in Bounds /\ phase \in [Comps -> Phases]
  BY BoundsAssumption DEF Good, Shape, TypeOK
<1>3. Alike(bound, q.bound) /\ SameDeps(bound, q.bound)
  BY <1>2, EffectsTyped, QueueFields DEF Good, Shape, TypeOK
<1> HIDE DEF q
<1>4. \A d \in Comps : phase'[d] = IF d = c THEN "rendered" ELSE phase[d]
  BY <1>1, <1>2
<1>5. \A d \in Comps : Settling(d)' <=> Settling(d)
  BY <1>1 DEF Settling
<1>6. ASSUME NEW t \in Bounds PROVE Waits(t)'
  <2>1. PendingIn(t)' = PendingIn(t)
    BY <1>1, <1>4 DEF PendingIn
  <2>2. Counted(t)' = Counted(t)
    BY <1>5, <2>1 DEF Counted, PendingIn
  <2> QED
    BY <1>1, <1>3, <2>1, <2>2, WaitsSame DEF Good, Exact, Live, Alike, SameDeps
<1>7. Live(Home[c])
  BY <1>1, TopTyped DEF Good, Stacked
<1>8. ASSUME NEW d \in Comps PROVE Comes(d)'
  <2>1. Comes(d) /\ Lived(d) /\ Home[d] \in Bounds
    BY BoundsAssumption DEF Good, Exact, Lives
  <2>2. bound'[Home[d]].state = bound[Home[d]].state
    BY <1>1, <1>3, <2>1 DEF Alike
  <2>3. CASE d = c
    BY <1>1, <1>4, <1>5, <1>7, <2>1, <2>2, <2>3 DEF Comes, Lived, Live
  <2>4. CASE d # c
    BY <1>1, <1>4, <1>5, <2>1, <2>2, <2>4 DEF Comes
  <2> QED
    BY <2>3, <2>4
<1>9. SettlesAtHome' /\ Goes'
  <2>1. \A t \in Bounds : /\ bound[t].state = "unmounted" => bound'[t].state = "unmounted"
                          /\ bound[t].isResolved => bound'[t].isResolved
    BY <1>1, <1>3 DEF Alike
  <2>2. \A d \in Comps : phase'[d] = "pending" => phase[d] = "pending"
    BY <1>4
  <2> QED
    BY <1>1, <2>1, <2>2, FramesSame DEF Good, Exact
<1> QED
  BY <1>6, <1>8, <1>9 DEF Exact

\* A dep more, of a component that is pending; over a resolved boundary there is
\* a job to recede.
LEMMA RegisterExact ==
  ASSUME Good, NEW c \in Comps, MountComponent(c), RegisterDep(c)
  PROVE  Exact'
<1> DEFINE s == Home[c]
<1>1. /\ phase' = [phase EXCEPT ![c] = "pending"] /\ phase[c] = "new" /\ stack' = stack
      /\ waiting' = waiting \cup {c} /\ ~Idle /\ Top.kind # "unmount" /\ Top.at = s
      /\ bound' = [bound EXCEPT ![s].deps = @ + 1]
      /\ jobs' = (IF bound[s].isResolved THEN Append(jobs, s) ELSE jobs)
      /\ bound[s].isResolved => c \in Late
  BY DEF MountComponent, RegisterDep, Patching
<1>2. s \in Bounds /\ phase \in [Comps -> Phases] /\ jobs \in Seq(Bounds)
  BY BoundsAssumption DEF Good, Shape, TypeOK
<1>3. \A t \in Bounds : /\ bound'[t].state = bound[t].state
                        /\ bound'[t].isResolved = bound[t].isResolved
                        /\ bound'[t].deps = IF t = s THEN bound[t].deps + 1 ELSE bound[t].deps
                        /\ bound[t].deps \in Int
  BY <1>1, <1>2 DEF Good, Shape, TypeOK, Boundaries, Boundary
<1>4. \A d \in Comps : phase'[d] = IF d = c THEN "pending" ELSE phase[d]
  BY <1>1, <1>2
<1>5. (\A d \in Comps : Settling(d)' <=> Settling(d)) /\ ~Settling(c)
  <2>1. Lived(c)
    BY DEF Good, Lives
  <2> QED
    BY <1>1, <2>1 DEF Settling, Lived
<1>6. ToSet(jobs) \subseteq ToSet(jobs') /\ (bound[s].isResolved => s \in ToSet(jobs'))
  <2>1. CASE bound[s].isResolved
    <3>1. jobs' = Append(jobs, s)
      BY <1>1, <2>1
    <3>2. /\ \A i \in DOMAIN jobs : i \in DOMAIN jobs' /\ jobs'[i] = jobs[i]
          /\ Len(jobs') \in DOMAIN jobs' /\ jobs'[Len(jobs')] = s
      BY <1>2, <3>1
    <3> QED
      BY <3>2 DEF ToSet
  <2>2. CASE ~bound[s].isResolved
    BY <1>1, <2>2
  <2> QED
    BY <2>1, <2>2
<1>7. Live(s)
  BY <1>1, TopTyped DEF Good, Stacked
<1>8. Waits(s)'
  <2>1. Waits(s)
    BY <1>2 DEF Good, Exact
  <2>2. PendingIn(s)' = PendingIn(s) \cup {c} /\ c \notin PendingIn(s)
    BY <1>1, <1>4 DEF PendingIn
  <2>3. Counted(s)' = Counted(s) \cup {c} /\ c \notin Counted(s)
    BY <1>5, <2>2 DEF Counted, PendingIn
  <2>4. IsFiniteSet(PendingIn(s)') /\ IsFiniteSet(Counted(s)) /\ Cardinality(Counted(s)) \in Nat
    BY <2>1, <2>2, FS_AddElement, CountedFinite DEF Waits
  <2>5. Cardinality(Counted(s)') = Cardinality(Counted(s)) + 1
    BY <2>3, <2>4, FS_AddElement
  <2>6. bound[s].deps = Cardinality(Counted(s)) /\ bound[s].state = "live"
    BY <1>7, <2>1 DEF Waits, Live
  <2>7. bound'[s].isResolved => PendingIn(s)' \subseteq Late /\ s \in ToSet(jobs')
    BY <1>1, <1>2, <1>3, <1>6, <1>7, <2>1, <2>2 DEF Waits
  <2> QED
    BY <1>2, <1>3, <2>4, <2>5, <2>6, <2>7 DEF Waits
<1>9. ASSUME NEW t \in Bounds, t # s PROVE Waits(t)'
  <2>1. PendingIn(t)' = PendingIn(t)
    BY <1>1, <1>4, <1>9 DEF PendingIn
  <2>2. Counted(t)' = Counted(t)
    BY <1>5, <2>1 DEF Counted, PendingIn
  <2> QED
    BY <1>3, <1>6, <1>9, <2>1, <2>2, WaitsSame DEF Good, Exact, Live
<1>10. ASSUME NEW d \in Comps PROVE Comes(d)'
  <2>1. Comes(d) /\ Home[d] \in Bounds
    BY BoundsAssumption DEF Good, Exact
  <2>2. bound'[Home[d]].state = bound[Home[d]].state
    BY <1>3, <2>1
  <2>3. CASE d = c
    BY <1>1, <1>4, <1>5, <1>7, <2>1, <2>2, <2>3 DEF Comes, Live
  <2>4. CASE d # c
    BY <1>1, <1>4, <1>5, <2>1, <2>2, <2>4 DEF Comes
  <2> QED
    BY <2>3, <2>4
<1>11. \A i \in DOMAIN stack : stack[i].kind # "unmount"
  BY <1>1, NoUnmount DEF Good
<1>12. SettlesAtHome' /\ Goes'
  BY <1>1, <1>11 DEF Good, Exact, SettlesAtHome, Goes
<1> QED
  BY <1>8, <1>9, <1>10, <1>12 DEF Exact

\* A promise settles: the dep is given up, and the component still pending.
LEMMA SettleExact ==
  ASSUME Good, NEW c \in Comps, Settle(c)
  PROVE  Exact'
<1> DEFINE s == Home[c]
<1>1. /\ phase' = phase /\ waiting' = waiting \ {c} /\ jobs' = jobs /\ c \in waiting /\ c \in Settles
      /\ stack = << >>
  BY DEF Settle, Idle
<1>2. s \in Bounds /\ Comes(c) /\ \A d \in Comps : ~Settling(d)
  BY <1>1, BoundsAssumption DEF Good, Exact, Settling
<1>3. CASE bound' = bound /\ stack' = stack
  <2>1. \A d \in Comps : Settling(d)' <=> Settling(d)
    BY <1>3 DEF Settling
  <2>2. ASSUME NEW t \in Bounds PROVE Waits(t)'
    <3>1. PendingIn(t)' = PendingIn(t) /\ Counted(t)' = Counted(t)
      BY <1>1, <2>1, CountsSame
    <3> QED
      BY <1>1, <1>3, <3>1, WaitsSame DEF Good, Exact, Live
  <2>3. ASSUME NEW d \in Comps PROVE Comes(d)'
    BY <1>1, <1>3, <2>1, ComesSame DEF Good, Exact
  <2>4. SettlesAtHome' /\ Goes'
    BY <1>1, <1>3 DEF SettlesAtHome, Goes
  <2> QED
    BY <2>2, <2>3, <2>4 DEF Exact
<1>4. CASE /\ bound[s].state # "unmounted" /\ bound' = [bound EXCEPT ![s].deps = @ - 1]
           /\ stack' = Append(stack, RenderFrame("settle", s, {c}))
  <2>1. PICK f \in Frame : /\ f = RenderFrame("settle", s, {c}) /\ f.kind = "settle"
                          /\ f.at = s /\ f.todo = {c}
    BY <1>2, FramesMade
  <2>2. DOMAIN stack' = {1} /\ stack'[1] = f
    BY <1>1, <1>4, <2>1
  <2>3. \A d \in Comps : Settling(d)' <=> d = c
    BY <2>1, <2>2 DEF Settling
  <2>4. phase[c] = "pending" /\ Live(s)
    BY <1>1, <1>2, <1>4 DEF Comes, Live, Good, Shape, TypeOK, Boundaries, Boundary
  <2>5. \A t \in Bounds : /\ bound'[t].state = bound[t].state
                          /\ bound'[t].isResolved = bound[t].isResolved
                          /\ bound'[t].deps = IF t = s THEN bound[t].deps - 1 ELSE bound[t].deps
    BY <1>2, <1>4 DEF Good, Shape, TypeOK, Boundaries, Boundary
  <2>6. \A t \in Bounds : PendingIn(t)' = PendingIn(t) /\ Counted(t) = PendingIn(t)
                          /\ Counted(t)' = PendingIn(t) \ {c}
    BY <1>1, <1>2, <2>3 DEF Counted, PendingIn
  <2>7. Waits(s)'
    <3>1. Waits(s)
      BY <1>2 DEF Good, Exact
    <3>2. c \in PendingIn(s)
      BY <2>4 DEF PendingIn
    <3>3. IsFiniteSet(PendingIn(s)) /\ Cardinality(PendingIn(s)) \in Nat
      BY <3>1, FS_CardinalityType DEF Waits
    <3>4. Cardinality(PendingIn(s) \ {c}) = Cardinality(PendingIn(s)) - 1
      BY <3>2, <3>3, FS_RemoveElement
    <3>5. bound[s].deps = Cardinality(PendingIn(s)) /\ bound[s].state = "live"
      BY <1>2, <2>4, <2>6, <3>1 DEF Waits, Live
    <3>6. PendingIn(s)' = PendingIn(s) /\ Counted(s)' = PendingIn(s) \ {c}
      BY <1>2, <2>6
    <3>7. bound'[s].deps = Cardinality(Counted(s)')
      BY <1>2, <2>5, <3>4, <3>5, <3>6
    <3> QED
      BY <1>1, <1>2, <2>4, <2>5, <3>1, <3>3, <3>5, <3>6, <3>7 DEF Waits, Live
  <2>8. ASSUME NEW t \in Bounds, t # s PROVE Waits(t)'
    <3>1. Counted(t)' = Counted(t) /\ PendingIn(t)' = PendingIn(t)
      BY <2>6, <2>8 DEF PendingIn
    <3> QED
      BY <1>1, <2>5, <2>8, <3>1, WaitsSame DEF Good, Exact, Live
  <2>9. ASSUME NEW d \in Comps PROVE Comes(d)'
    <3>1. Comes(d) /\ Home[d] \in Bounds
      BY BoundsAssumption DEF Good, Exact
    <3>2. bound'[Home[d]].state = bound[Home[d]].state
      BY <2>5, <3>1
    <3> QED
      BY <1>1, <2>3, <2>4, <3>1, <3>2, ComesSame
  <2>10. SettlesAtHome' /\ Goes'
    BY <2>1, <2>2 DEF SettlesAtHome, Goes
  <2> QED
    BY <2>7, <2>8, <2>9, <2>10 DEF Exact
<1> QED
  BY <1>3, <1>4 DEF Settle

\* What rendering it does.
LEMMA EndSettleDeps ==
  ASSUME Good, EndSettle
  PROVE  \E c \in Comps :
           /\ Home[c] = Top.at /\ Live(Home[c]) /\ phase[c] = "pending"
           /\ \A d \in Comps : Settling(d) <=> d = c
           /\ stack' = << >> /\ waiting' = waiting /\ jobs' = jobs /\ ran' = ran
           /\ phase' = [phase EXCEPT ![c] = "rendered"]
           /\ \E b \in Boundaries, p \in SUBSET Effects :
                /\ b = QueueEffectWithSuspense(MountedHook(c), Home[c], bound, posts).bound
                /\ p = QueueEffectWithSuspense(MountedHook(c), Home[c], bound, posts).posts
                /\ Alike(bound, b) /\ SameDeps(bound, b) /\ SameDeps(b, bound')
                /\ IF bound[Home[c]].deps = 0
                   THEN ResolvedAt(Home[c], b, bound') /\ Forwarded(Home[c], b, p, bound', posts')
                   ELSE bound' = b /\ posts' = p
<1> DEFINE s == Top.at
<1>1. /\ waiting' = waiting /\ jobs' = jobs /\ ran' = ran
      /\ stack' = Front(stack) /\ ~Idle /\ Top.kind = "settle"
  BY DEF EndSettle
<1>2. /\ s \in Bounds /\ Len(stack) = 1 /\ stack[1] = Top /\ stack \in Seq(Frame) /\ stack # << >>
  BY <1>1, TopTyped DEF FrameOK, Good, Shape, TypeOK, Idle
<1>3. PICK c \in Comps : Top.todo = {c}
  BY <1>1, TopTyped DEF FrameOK, Good
<1>4. DOMAIN stack = {1} /\ stack' = << >>
  BY <1>1, <1>2, Popped
<1>5. \A d \in Comps : Settling(d) <=> d = c
  BY <1>1, <1>2, <1>3, <1>4 DEF Settling
<1>6. phase[c] = "pending" /\ Home[c] = s /\ Live(s)
  BY <1>1, <1>2, <1>3, <1>4, <1>5 DEF Good, Exact, Comes, SettlesAtHome, Stacked
<1> DEFINE q == QueueEffectWithSuspense(MountedHook(c), s, bound, posts)
           d == Resolve(s, q.bound, q.posts)
<1>7. /\ phase' = [phase EXCEPT ![c] = IF @ = "pending" THEN "rendered" ELSE "zombie"]
      /\ bound' = IF bound[s].deps = 0 THEN d.bound ELSE q.bound
      /\ posts' = IF bound[s].deps = 0 THEN d.posts ELSE q.posts
  BY <1>3 DEF EndSettle, Becomes
<1>8. phase' = [phase EXCEPT ![c] = "rendered"]
  BY <1>6, <1>7
<1>9. /\ q.bound \in Boundaries /\ q.posts \in SUBSET Effects
      /\ Alike(bound, q.bound) /\ SameDeps(bound, q.bound)
  <2>1. bound \in Boundaries /\ posts \in SUBSET Effects
    BY DEF Good, Shape, TypeOK
  <2>2. MountedHook(c) \in Effects /\ s \in Bounds \cup {None}
    BY <1>2, EffectsTyped
  <2>3. Alike(bound, q.bound) /\ SameDeps(bound, q.bound)
    BY <2>1, <2>2, QueueFields
  <2>4. q.bound \in Boundaries /\ q.posts \in SUBSET Effects
    BY <2>1, <2>2, QueueAdds
  <2> QED
    BY <2>3, <2>4
<1> HIDE DEF q
<1>10. /\ SameDeps(q.bound, d.bound) /\ ResolvedAt(s, q.bound, d.bound)
       /\ Forwarded(s, q.bound, q.posts, d.bound, d.posts)
  BY <1>2, <1>9, ResolveFields
<1> HIDE DEF d
<1>11. /\ SameDeps(q.bound, bound')
       /\ IF bound[s].deps = 0
          THEN ResolvedAt(s, q.bound, bound') /\ Forwarded(s, q.bound, q.posts, bound', posts')
          ELSE bound' = q.bound /\ posts' = q.posts
  BY <1>7, <1>10 DEF SameDeps
<1>12. q = QueueEffectWithSuspense(MountedHook(c), Home[c], bound, posts)
  BY <1>6 DEF q
<1> QED
  BY <1>1, <1>4, <1>5, <1>6, <1>8, <1>9, <1>11, <1>12

LEMMA EndSettleExact ==
  ASSUME Good, EndSettle
  PROVE  Exact'
<1>1. PICK c \in Comps :
           /\ Home[c] = Top.at /\ Live(Home[c]) /\ phase[c] = "pending"
           /\ \A d \in Comps : Settling(d) <=> d = c
           /\ stack' = << >> /\ waiting' = waiting /\ jobs' = jobs /\ ran' = ran
           /\ phase' = [phase EXCEPT ![c] = "rendered"]
           /\ \E b \in Boundaries, p \in SUBSET Effects :
                /\ Alike(bound, b) /\ SameDeps(bound, b) /\ SameDeps(b, bound')
                /\ IF bound[Home[c]].deps = 0 THEN ResolvedAt(Home[c], b, bound') ELSE bound' = b
  BY EndSettleDeps
<1> DEFINE s == Home[c]
<1>2. PICK b \in Boundaries :
        /\ Alike(bound, b) /\ SameDeps(bound, b) /\ SameDeps(b, bound')
        /\ IF bound[s].deps = 0 THEN ResolvedAt(s, b, bound') ELSE bound' = b
  BY <1>1
<1>3. s \in Bounds /\ phase \in [Comps -> Phases]
  BY BoundsAssumption DEF Good, Shape, TypeOK
<1>4. \A t \in Bounds :
        /\ bound'[t].state = bound[t].state /\ bound'[t].deps = bound[t].deps
        /\ bound'[t].isResolved => bound[t].isResolved \/ (t = s /\ bound[t].deps = 0)
  BY <1>2, <1>3 DEF Alike, SameDeps, ResolvedAt
<1>5. \A d \in Comps : phase'[d] = IF d = c THEN "rendered" ELSE phase[d]
  BY <1>1, <1>3
<1>6. \A d \in Comps : ~Settling(d)'
  BY <1>1 DEF Settling
<1>7. \A t \in Bounds : /\ PendingIn(t)' = PendingIn(t) \ {c}
                        /\ Counted(t)' = Counted(t) /\ Counted(t)' = PendingIn(t)'
  BY <1>1, <1>5, <1>6 DEF PendingIn, Counted
<1>8. ASSUME NEW t \in Bounds PROVE Waits(t)'
  <2>1. Waits(t)
    BY DEF Good, Exact
  <2>2. IsFiniteSet(PendingIn(t)')
    BY <1>7, <2>1, FS_RemoveElement DEF Waits
  <2>3. t = s /\ bound[t].deps = 0 => PendingIn(t)' = {}
    <3>1. Cardinality(Counted(t)) = 0 <=> Counted(t) = {}
      BY <2>1, CountedFinite DEF Waits
    <3> QED
      BY <1>1, <1>7, <2>1, <3>1 DEF Waits
  <2>4. PendingIn(t)' \subseteq PendingIn(t)
    BY <1>7
  <2>5. Live(t)' <=> Live(t)
    BY <1>4 DEF Live
  <2>6. Live(t) => bound'[t].deps = Cardinality(Counted(t)')
    BY <1>4, <1>7, <2>1 DEF Waits
  <2>7. ASSUME Live(t), bound'[t].isResolved
        PROVE  PendingIn(t)' \subseteq Late /\ (PendingIn(t)' = {} \/ t \in ToSet(jobs))
    <3>1. CASE t = s /\ bound[t].deps = 0
      BY <2>3, <3>1
    <3>2. CASE bound[t].isResolved
      BY <2>1, <2>4, <2>7, <3>2 DEF Waits
    <3> QED
      BY <1>4, <2>7, <3>1, <3>2
  <2>8. bound'[t].state = "new" => bound'[t].deps = 0
    BY <1>4, <2>1 DEF Waits
  <2> QED
    BY <1>1, <2>2, <2>5, <2>6, <2>7, <2>8 DEF Waits
<1>9. ASSUME NEW d \in Comps PROVE Comes(d)'
  <2>1. Comes(d) /\ Lived(d) /\ Home[d] \in Bounds
    BY BoundsAssumption DEF Good, Exact, Lives
  <2>2. bound'[Home[d]].state = bound[Home[d]].state
    BY <1>4, <2>1
  <2>3. CASE d = c
    BY <1>1, <1>5, <1>6, <2>1, <2>2, <2>3 DEF Comes, Lived
  <2>4. CASE d # c
    BY <1>1, <1>5, <1>6, <2>1, <2>2, <2>4 DEF Comes
  <2> QED
    BY <2>3, <2>4
<1>10. SettlesAtHome' /\ Goes'
  BY <1>1 DEF SettlesAtHome, Goes
<1> QED
  BY <1>8, <1>9, <1>10 DEF Exact

LEMMA RejectExact ==
  ASSUME Good, NEW c \in Comps, Reject(c)
  PROVE  Exact'
<1>1. /\ bound' = bound /\ phase' = phase /\ waiting' = waiting \ {c} /\ jobs' = jobs
      /\ stack' = stack
  BY DEF Reject
<1>2. \A d \in Comps : Settling(d)' <=> Settling(d)
  BY <1>1 DEF Settling
<1>3. ASSUME NEW s \in Bounds PROVE Waits(s)'
  <2>1. PendingIn(s)' = PendingIn(s) /\ Counted(s)' = Counted(s)
    BY <1>1, <1>2, CountsSame
  <2> QED
    BY <1>1, <2>1, WaitsSame DEF Good, Exact, Live
<1>4. ASSUME NEW d \in Comps PROVE Comes(d)'
  BY <1>1, <1>2, ComesSame DEF Good, Exact
<1>5. SettlesAtHome' /\ Goes'
  BY <1>1 DEF Good, Exact, SettlesAtHome, Goes, GoesWith
<1> QED
  BY <1>3, <1>4, <1>5 DEF Exact

\* The boundary that recedes is not resolved any more; the others have their jobs.
LEMMA RecedeExact ==
  ASSUME Good, Recede
  PROVE  Exact'
<1>1. /\ phase' = phase /\ waiting' = waiting /\ jobs' = Tail(jobs) /\ jobs # << >>
      /\ stack = << >> /\ stack' = stack /\ jobs \in Seq(Bounds)
  BY DEF Recede, Idle, Good, Shape, TypeOK
<1>2. Head(jobs) \in Bounds /\ bound \in Boundaries
  BY <1>1 DEF Good, Shape, TypeOK
<1>3. bound' = [bound EXCEPT ![Head(jobs)] = Hidden(@)]
  BY DEF Recede
<1>4. \A t \in Bounds : /\ bound'[t].state = bound[t].state /\ bound'[t].deps = bound[t].deps
                        /\ bound'[t].isResolved <=> bound[t].isResolved /\ t # Head(jobs)
  BY <1>2, <1>3, HiddenKeeps DEF Boundaries, Boundary
<1>5. \A t \in Bounds : t \in ToSet(jobs) /\ t # Head(jobs) => t \in ToSet(jobs')
  <2>1. /\ Head(jobs) = jobs[1]
        /\ \A i \in DOMAIN jobs : i # 1 => i - 1 \in DOMAIN jobs' /\ jobs'[i - 1] = jobs[i]
    BY <1>1
  <2> QED
    BY <2>1 DEF ToSet
<1>6. \A d \in Comps : Settling(d)' <=> Settling(d)
  BY <1>1 DEF Settling
<1>7. ASSUME NEW s \in Bounds PROVE Waits(s)'
  <2>1. PendingIn(s)' = PendingIn(s) /\ Counted(s)' = Counted(s)
    BY <1>1, <1>6, CountsSame
  <2> QED
    BY <1>4, <1>5, <2>1 DEF Good, Exact, Waits, Live
<1>8. ASSUME NEW d \in Comps PROVE Comes(d)'
  <2>1. Home[d] \in Bounds
    BY BoundsAssumption
  <2> QED
    BY <1>1, <1>4, <1>6, <2>1, ComesSame DEF Good, Exact
<1>9. SettlesAtHome' /\ Goes'
  BY <1>1 DEF SettlesAtHome, Goes
<1> QED
  BY <1>7, <1>8, <1>9 DEF Exact

LEMMA FlushExact ==
  ASSUME Good, FlushPosts
  PROVE  Exact'
<1>1. bound' = bound /\ phase' = phase /\ waiting' = waiting /\ jobs' = jobs /\ stack' = stack
  BY DEF FlushPosts
<1>2. \A d \in Comps : Settling(d)' <=> Settling(d)
  BY <1>1 DEF Settling
<1>3. ASSUME NEW s \in Bounds PROVE Waits(s)'
  <2>1. PendingIn(s)' = PendingIn(s) /\ Counted(s)' = Counted(s)
    BY <1>1, <1>2, CountsSame
  <2> QED
    BY <1>1, <2>1, WaitsSame DEF Good, Exact, Live
<1>4. ASSUME NEW d \in Comps PROVE Comes(d)'
  BY <1>1, <1>2, ComesSame DEF Good, Exact
<1>5. SettlesAtHome' /\ Goes'
  BY <1>1 DEF Good, Exact, SettlesAtHome, Goes, GoesWith
<1> QED
  BY <1>3, <1>4, <1>5 DEF Exact

--------------------------------------------------------------------------------
(* Together. *)

\* A boundary is mounted and unmounted by three actions only.
LEMMA StatesStay ==
  ASSUME Good,
         \/ EndMount \/ EndPatch \/ EndUnmount \/ EndSettle \/ Recede \/ FlushPosts
         \/ \E c \in Comps : \/ MountComponent(c) \/ RemoveComponent(c) \/ UnmountNext(c)
                             \/ Settle(c) \/ Reject(c)
  PROVE  StatesKept
<1>1. bound \in Boundaries /\ posts \in SUBSET Effects /\ Shape
  BY DEF Good, Shape, TypeOK
<1>2. CASE EndMount
  <2>1. Top.at \in Bounds
    BY <1>1, <1>2, TopTyped DEF EndMount, FrameOK
  <2>2. CASE bound[Top.at].deps > 0
    BY <1>1, <1>2, <2>1, <2>2 DEF EndMount, Becomes, State, StatesKept, Boundaries, Boundary
  <2>3. CASE ~(bound[Top.at].deps > 0)
    <3>1. bound' = Resolve(Top.at, bound, posts).bound
      BY <1>2, <2>3 DEF EndMount, Becomes
    <3> QED
      BY <1>1, <2>1, <3>1, ResolveFields DEF ResolvedAt, StatesKept
  <2> QED
    BY <2>2, <2>3
<1>3. CASE EndPatch \/ FlushPosts \/ \E c \in Comps : Reject(c)
  BY <1>3 DEF EndPatch, FlushPosts, Reject, StatesKept
<1>4. CASE EndUnmount
  <2>1. PICK o, v : bound' = bound \/ bound' = [bound EXCEPT ![o].content = v]
    BY <1>4 DEF EndUnmount
  <2>2. ASSUME NEW t \in Bounds PROVE bound'[t].state = bound[t].state
    <3>1. bound \in [Bounds -> Boundary] /\ bound[t] \in Boundary
      BY <1>1 DEF Boundaries
    <3>2. CASE o = t
      BY <2>1, <3>1, <3>2 DEF Boundary
    <3>3. CASE o # t
      BY <2>1, <3>1, <3>3
    <3> QED
      BY <3>2, <3>3
  <2> QED
    BY <2>2 DEF StatesKept
<1>5. CASE EndSettle
  <2>1. PICK c \in Comps, b \in Boundaries :
          /\ Alike(bound, b)
          /\ IF bound[Home[c]].deps = 0 THEN ResolvedAt(Home[c], b, bound') ELSE bound' = b
    BY <1>5, EndSettleDeps
  <2> QED
    BY <2>1 DEF Alike, ResolvedAt, StatesKept
<1>6. CASE Recede
  <2>1. Head(jobs) \in Bounds
    BY <1>1, <1>6 DEF Recede, Shape, TypeOK
  <2>2. bound' = [bound EXCEPT ![Head(jobs)] = Hidden(@)]
    BY <1>6 DEF Recede
  <2> QED
    BY <1>1, <2>1, <2>2, HiddenKeeps DEF Boundaries, StatesKept
<1>7. ASSUME NEW c \in Comps, MountComponent(c)
      PROVE  StatesKept
  <2>1. Home[c] \in Bounds \cup {None} /\ MountedHook(c) \in Effects
    BY BoundsAssumption, EffectsTyped
  <2>2. CASE MountSync(c)
    <3>1. bound' = QueueEffectWithSuspense(MountedHook(c), Home[c], bound, posts).bound
      BY <2>2 DEF MountSync, Becomes
    <3> QED
      BY <1>1, <2>1, <3>1, QueueFields DEF Alike, StatesKept
  <2>3. CASE RegisterDep(c)
    BY <1>1, <2>3 DEF RegisterDep, StatesKept, Boundaries, Boundary
  <2> QED
    BY <1>7, <2>2, <2>3 DEF MountComponent
<1>8. ASSUME NEW c \in Comps, RemoveComponent(c) \/ UnmountNext(c)
      PROVE  StatesKept
  <2>1. PICK s \in Bounds \cup {None} : UnmountComponent(c, s)
    BY <1>1, <1>8, UnmountNextShape, BoundsAssumption DEF RemoveComponent, UnmountNext
  <2> QED
    BY <1>1, <2>1, UnmountDeps DEF StatesKept
<1>9. ASSUME NEW c \in Comps, Settle(c)
      PROVE  StatesKept
  BY <1>1, <1>9 DEF Settle, StatesKept, Boundaries, Boundary
<1> QED
  BY <1>2, <1>3, <1>4, <1>5, <1>6, <1>7, <1>8, <1>9

LEMMA StackedStep ==
  ASSUME Good, [Next]_vars
  PROVE  Stacked'
<1> USE DEF Good
<1>1. CASE UNCHANGED vars
  BY <1>1 DEF vars, Stacked, Live
<1>2. ASSUME NEW s \in Bounds,
             MountSuspense(s) \/ PatchSuspense(s) \/ ReplaceContent(s) \/ RemoveSuspense(s)
      PROVE  Stacked'
  BY <1>2, MountStacked, PatchStacked, ReplaceStacked, RemoveSuspenseStacked
<1>3. ASSUME NEW c \in Comps, MountComponent(c) \/ RemoveComponent(c) \/ Reject(c)
      PROVE  Stacked'
  BY <1>3, StatesStay, StackedSame DEF MountComponent, RemoveComponent, Reject
<1>4. ASSUME NEW c \in Comps, UnmountNext(c)
      PROVE  Stacked'
  BY <1>4, StatesStay, UnmountNextStacked
<1>5. ASSUME NEW c \in Comps, Settle(c)
      PROVE  Stacked'
  <2>1. StatesKept /\ Home[c] \in Bounds
    BY <1>5, StatesStay, BoundsAssumption
  <2>2. CASE stack' = stack
    BY <2>1, <2>2, StackedSame
  <2>3. CASE /\ bound[Home[c]].state # "unmounted"
             /\ stack' = Append(stack, RenderFrame("settle", Home[c], {c}))
    <3>1. PICK f \in Frame : f = RenderFrame("settle", Home[c], {c}) /\ f.at = Home[c]
      BY <2>1, FramesMade
    <3>2. stack' = << f >>
      BY <1>5, <2>3, <3>1 DEF Settle, Idle
    <3>3. Live(Home[c])
      <4>1. Comes(c) /\ c \in waiting
        BY <1>5 DEF Exact, Settle
      <4>2. bound[Home[c]].state \in {"new", "live", "unmounted"}
        BY <2>1 DEF Shape, TypeOK, Boundaries, Boundary
      <4> QED
        BY <2>3, <4>1, <4>2 DEF Comes, Live
    <3>4. bound'[f.at].state = "live"
      BY <2>1, <3>1, <3>3 DEF StatesKept, Live
    <3> QED
      BY <3>2, <3>4, StackedAlone
  <2> QED
    BY <1>5, <2>2, <2>3 DEF Settle
<1>6. CASE EndMount \/ EndPatch \/ EndUnmount \/ EndSettle
  BY <1>6, StatesStay, StackedLess DEF EndMount, EndPatch, EndUnmount, EndSettle
<1>7. CASE Recede \/ FlushPosts
  BY <1>7, StatesStay, StackedSame DEF Recede, FlushPosts
<1> QED
  BY <1>1, <1>2, <1>3, <1>4, <1>5, <1>6, <1>7 DEF Next, Synchronous, EventLoop

LEMMA ExactStep ==
  ASSUME Orderly, Good, [Next]_vars
  PROVE  Exact'
<1>1. CASE UNCHANGED vars
  BY <1>1, ZenonT(60) DEF vars, Good, Exact, Waits, Comes, SettlesAtHome, Goes, GoesWith, PendingIn, Counted,
              Settling, Live
<1>2. ASSUME NEW s \in Bounds,
             MountSuspense(s) \/ PatchSuspense(s) \/ ReplaceContent(s) \/ RemoveSuspense(s)
      PROVE  Exact'
  BY <1>2, MountExact, PatchExact, ReplaceExact, RemoveSuspenseExact
<1>3. ASSUME NEW c \in Comps,
             MountComponent(c) \/ RemoveComponent(c) \/ Reject(c) \/ UnmountNext(c) \/ Settle(c)
      PROVE  Exact'
  BY <1>3, MountSyncExact, RegisterExact, RemoveExact, RejectExact, UnmountNextExact, SettleExact
     DEF MountComponent
<1>4. CASE EndMount \/ EndPatch \/ EndUnmount \/ EndSettle \/ Recede \/ FlushPosts
  BY <1>4, EndMountExact, EndPatchExact, EndSettleExact, RecedeExact, FlushExact
<1> QED
  BY <1>1, <1>2, <1>3, <1>4 DEF Next, Synchronous, EventLoop

LEMMA InitGood == Init => Good
<1> SUFFICES ASSUME Init PROVE Stacked /\ Exact
  BY InitShape, InitLives DEF Good
<1>1. stack = << >> /\ waiting = {} /\ \A c \in Comps : phase[c] = "new"
  BY DEF Init
<1>2. \A s \in Bounds : bound[s].state = "new" /\ bound[s].deps = 0
  BY DEF Init
<1>3. Stacked /\ SettlesAtHome /\ Goes
  BY <1>1 DEF Stacked, SettlesAtHome, Goes
<1>4. \A s \in Bounds : PendingIn(s) = {}
  BY <1>1 DEF PendingIn
<1>5. \A s \in Bounds : Waits(s)
  BY <1>2, <1>4, FS_EmptySet DEF Waits, Live
<1>6. \A c \in Comps : Comes(c)
  BY <1>1 DEF Comes, Settling
<1> QED
  BY <1>3, <1>5, <1>6 DEF Exact

LEMMA GoodStep == Orderly /\ Good /\ [Next]_vars => Good'
BY ShapeStep, LivesStep, StackedStep, ExactStep DEF Good

\* A boundary waits for the components that are pending in it, and for as many as
\* there are, whatever is mounted, removed and settles in whatever order.
THEOREM WaitsForAll == ASSUME Orderly PROVE Spec => []DepsCounted
<1>1. Good => DepsCounted
  <2> SUFFICES ASSUME Good, NEW s \in Bounds, Live(s)
               PROVE  /\ Idle => bound[s].deps = Cardinality(PendingIn(s))
                      /\ bound[s].isResolved => PendingIn(s) = {} \/ s \in ToSet(jobs)
    BY DEF DepsCounted
  <2>1. Idle => Counted(s) = PendingIn(s)
    BY DEF Counted, PendingIn, Settling, Idle
  <2> QED
    BY <2>1 DEF Good, Exact, Waits
<1>2. Orderly /\ Good /\ [Next]_vars => Good'
  BY GoodStep
<1> QED
  BY InitGood, <1>1, <1>2, PTL DEF Spec

--------------------------------------------------------------------------------
(* Where the mounted hooks are. *)

\* The hook of c has left its boundary, whose content has been shown, and waits in
\* a boundary t around it; so has what is between them, but for a late component.
Passed(c, t, b) ==
  /\ b[Home[c]].shown
  /\ c \notin Late => \E k \in DOMAIN Outer[Home[c]] :
       /\ t = Outer[Home[c]][k]
       /\ \A i \in DOMAIN Outer[Home[c]] : i < k => b[Outer[Home[c]][i]].shown

\* Nothing holds the hook of c back.
Told(c, b) ==
  /\ b[Home[c]].shown
  /\ c \notin Late => \A i \in DOMAIN Outer[Home[c]] : b[Outer[Home[c]][i]].shown

\* Of the boundaries b, the post-flush callbacks p and the effects r that ran.
HooksIn(b, p, r) ==
  /\ \A s \in Bounds : b[s].isResolved => b[s].shown
  /\ \A c \in Comps, t \in Bounds : MountedHook(c) \in b[t].effects => t = Home[c] \/ Passed(c, t, b)
  /\ \A c \in Comps : MountedHook(c) \in p \cup r => Told(c, b)

\* Content that has been shown stays so.
StaysShown(b, b2) == \A s \in Bounds : b[s].shown => b2[s].shown

LEMMA PassedStays ==
  ASSUME NEW b, NEW b2, StaysShown(b, b2), NEW c \in Comps
  PROVE  /\ \A t \in Bounds : Passed(c, t, b) => Passed(c, t, b2)
         /\ Told(c, b) => Told(c, b2)
<1>1. Home[c] \in Bounds /\ \A i \in DOMAIN Outer[Home[c]] : Outer[Home[c]][i] \in Bounds
  BY BoundsAssumption
<1> QED
  BY <1>1 DEF StaysShown, Passed, Told

\* The boundaries change in other fields.
LEMMA HooksSame ==
  ASSUME NEW b, NEW b2, NEW p, NEW r, HooksIn(b, p, r),
         \A s \in Bounds : /\ b2[s].effects = b[s].effects /\ b2[s].shown = b[s].shown
                           /\ b2[s].isResolved => b[s].isResolved
  PROVE  HooksIn(b2, p, r)
<1>1. StaysShown(b, b2)
  BY DEF StaysShown
<1> QED
  BY <1>1, PassedStays DEF HooksIn

\* An effect is queued: the hook of a component in its boundary, over which it is
\* late when that is resolved.
LEMMA QueueHooks ==
  ASSUME NEW b \in Boundaries, NEW p \in SUBSET Effects, NEW r, HooksIn(b, p, r),
         NEW e \in Effects, NEW s \in Bounds \cup {None},
         \A c \in Comps : e = MountedHook(c) => s = Home[c] /\ (b[s].isResolved => c \in Late),
         NEW b2, NEW p2,
         b2 = QueueEffectWithSuspense(e, s, b, p).bound,
         p2 = QueueEffectWithSuspense(e, s, b, p).posts
  PROVE  HooksIn(b2, p2, r)
<1>1. Alike(b, b2) /\ Queued(e, s, b, p, b2, p2)
  BY QueueFields, Zenon
<1>2. CASE s # None /\ ~b[s].isResolved
  <2>1. p2 = p /\ \A t \in Bounds : b2[t].effects = IF t = s THEN b[t].effects \cup {e} ELSE b[t].effects
    BY <1>1, <1>2 DEF Queued
  <2>2. StaysShown(b, b2)
    BY <1>1 DEF StaysShown, Alike
  <2>3. ASSUME NEW c \in Comps, NEW t \in Bounds, MountedHook(c) \in b2[t].effects
        PROVE  t = Home[c] \/ Passed(c, t, b2)
    <3>1. MountedHook(c) \in b[t].effects \/ (t = s /\ e = MountedHook(c))
      BY <2>1, <2>3
    <3> QED
      BY <2>2, <3>1, PassedStays DEF HooksIn
  <2>4. \A c \in Comps : MountedHook(c) \in p2 \cup r => Told(c, b2)
    BY <2>1, <2>2, PassedStays DEF HooksIn
  <2>5. \A t \in Bounds : b2[t].isResolved => b2[t].shown
    BY <1>1 DEF HooksIn, Alike
  <2> QED
    BY <2>3, <2>4, <2>5 DEF HooksIn
<1>3. CASE ~(s # None /\ ~b[s].isResolved)
  <2>1. p2 = p \cup {e} /\ \A t \in Bounds : b2[t].effects = b[t].effects
    BY <1>1, <1>3 DEF Queued
  <2>2. StaysShown(b, b2)
    BY <1>1 DEF StaysShown, Alike
  <2>3. ASSUME NEW c \in Comps, e = MountedHook(c)
        PROVE  Told(c, b)
    <3>1. Home[c] \in Bounds /\ s = Home[c] /\ b[s].isResolved /\ c \in Late
      BY <1>3, <2>3, BoundsAssumption
    <3> QED
      BY <3>1 DEF HooksIn, Told
  <2> QED
    BY <1>1, <2>1, <2>2, <2>3, PassedStays DEF HooksIn, Alike
<1> QED
  BY <1>2, <1>3

\* What is around a boundary around the boundary of c.
LEMMA Around ==
  ASSUME NEW h \in Bounds, NEW j \in DOMAIN Outer[h], NEW i \in DOMAIN Outer[h]
  PROVE  /\ i < j \/ i = j \/ (i - j \in DOMAIN Outer[Outer[h][j]]
                               /\ Outer[h][i] = Outer[Outer[h][j]][i - j])
<1>1. Outer[h] \in Seq(Bounds) /\ Outer[h][j] \in Bounds
  BY BoundsAssumption
<1>2. Outer[Outer[h][j]] \in Seq(Bounds)
  BY <1>1, BoundsAssumption
<1>3. Len(Outer[Outer[h][j]]) = Len(Outer[h]) - j
  BY OuterShorter
<1>4. CASE i > j
  <2>1. i - j \in DOMAIN Outer[Outer[h][j]]
    BY <1>1, <1>2, <1>3, <1>4
  <2>2. Outer[Outer[h][j]][i - j] = Outer[h][(i - j) + j]
    BY <2>1, OuterShorter
  <2>3. (i - j) + j = i
    BY <1>1
  <2> QED
    BY <2>1, <2>2, <2>3
<1> QED
  BY <1>1, <1>4

\* A boundary is resolved: its hooks go to the next that is pending, past content
\* that has been shown.
LEMMA ResolveHooks ==
  ASSUME NEW b, NEW p, NEW r, HooksIn(b, p, r), NEW s \in Bounds, NEW b2, NEW p2,
         ResolvedAt(s, b, b2), Forwarded(s, b, p, b2, p2)
  PROVE  HooksIn(b2, p2, r)
<1>1. StaysShown(b, b2) /\ b2[s].shown /\ \A t \in Bounds : b[t].isResolved => b2[t].shown
  BY DEF ResolvedAt, StaysShown, HooksIn
<1>2. \A t \in Bounds : b2[t].isResolved => b2[t].shown
  BY <1>1 DEF ResolvedAt
<1>3. \A c \in Comps : Home[c] \in Bounds /\ \A i \in DOMAIN Outer[Home[c]] : i \in Nat
  BY BoundsAssumption
<1>4. \A i \in DOMAIN Outer[s] : i \in Nat /\ Outer[s][i] \in Bounds
  BY BoundsAssumption
<1>5. CASE /\ \A i \in DOMAIN Outer[s] : b[Outer[s][i]].isResolved
           /\ p2 = p \cup b[s].effects
           /\ \A t \in Bounds : b2[t].effects = IF t = s THEN {} ELSE b[t].effects
  <2>1. \A i \in DOMAIN Outer[s] : b2[Outer[s][i]].shown
    BY <1>1, <1>4, <1>5
  <2>2. ASSUME NEW c \in Comps, MountedHook(c) \in b[s].effects
        PROVE  Told(c, b2)
    <3>1. CASE s = Home[c]
      BY <1>1, <2>1, <3>1 DEF Told
    <3>2. CASE Passed(c, s, b)
      <4>1. Passed(c, s, b2)
        BY <1>1, <3>2, PassedStays
      <4>2. ASSUME c \notin Late, NEW i \in DOMAIN Outer[Home[c]]
            PROVE  b2[Outer[Home[c]][i]].shown
        <5>1. PICK j \in DOMAIN Outer[Home[c]] :
                /\ s = Outer[Home[c]][j]
                /\ \A n \in DOMAIN Outer[Home[c]] : n < j => b2[Outer[Home[c]][n]].shown
          BY <4>1, <4>2 DEF Passed
        <5>2. i < j \/ i = j \/ (i - j \in DOMAIN Outer[s] /\ Outer[Home[c]][i] = Outer[s][i - j])
          BY <1>3, <4>2, <5>1, Around
        <5> QED
          BY <1>1, <2>1, <4>2, <5>1, <5>2
      <4> QED
        BY <4>1, <4>2 DEF Passed, Told
    <3> QED
      BY <2>2, <3>1, <3>2 DEF HooksIn
  <2> QED
    BY <1>1, <1>2, <1>5, <2>2, PassedStays DEF HooksIn
<1>6. ASSUME NEW k \in DOMAIN Outer[s], p2 = p,
             \A i \in DOMAIN Outer[s] : i < k => b[Outer[s][i]].isResolved,
             \A t \in Bounds :
               b2[t].effects = (IF t = s THEN {} ELSE b[t].effects)
                                 \cup (IF t = Outer[s][k] THEN b[s].effects ELSE {})
      PROVE  HooksIn(b2, p2, r)
  <2>1. \A i \in DOMAIN Outer[s] : i < k => b2[Outer[s][i]].shown
    BY <1>1, <1>4, <1>6
  <2>2. ASSUME NEW c \in Comps, MountedHook(c) \in b[s].effects
        PROVE  Passed(c, Outer[s][k], b2)
    <3>1. CASE s = Home[c]
      BY <1>1, <2>1, <3>1 DEF Passed
    <3>2. CASE Passed(c, s, b)
      <4>1. Passed(c, s, b2)
        BY <1>1, <3>2, PassedStays
      <4>2. ASSUME c \notin Late
            PROVE  \E m \in DOMAIN Outer[Home[c]] :
                     /\ Outer[s][k] = Outer[Home[c]][m]
                     /\ \A i \in DOMAIN Outer[Home[c]] : i < m => b2[Outer[Home[c]][i]].shown
        <5>1. PICK j \in DOMAIN Outer[Home[c]] :
                /\ s = Outer[Home[c]][j]
                /\ \A n \in DOMAIN Outer[Home[c]] : n < j => b2[Outer[Home[c]][n]].shown
          BY <4>1, <4>2 DEF Passed
        <5>2. k + j \in DOMAIN Outer[Home[c]] /\ Outer[s][k] = Outer[Home[c]][k + j]
          BY <1>3, <1>6, <5>1, OuterShorter, SMTT(40)
        <5>3. ASSUME NEW i \in DOMAIN Outer[Home[c]], i < k + j
              PROVE  b2[Outer[Home[c]][i]].shown
          <6>1. i < j \/ i = j \/ (i - j \in DOMAIN Outer[s] /\ Outer[Home[c]][i] = Outer[s][i - j])
            BY <1>3, <5>1, Around
          <6>2. i - j \in DOMAIN Outer[s] => i - j < k
            BY <1>3, <1>4, <5>3
          <6> QED
            BY <1>1, <2>1, <5>1, <6>1, <6>2
        <5> QED
          BY <5>2, <5>3
      <4> QED
        BY <4>1, <4>2 DEF Passed
    <3> QED
      BY <2>2, <3>1, <3>2 DEF HooksIn
  <2>3. ASSUME NEW c \in Comps, NEW t \in Bounds, MountedHook(c) \in b2[t].effects
        PROVE  t = Home[c] \/ Passed(c, t, b2)
    <3>1. MountedHook(c) \in b[t].effects \/ (t = Outer[s][k] /\ MountedHook(c) \in b[s].effects)
      BY <1>6, <2>3
    <3> QED
      BY <1>1, <2>2, <3>1, PassedStays DEF HooksIn
  <2>4. \A c \in Comps : MountedHook(c) \in p2 \cup r => Told(c, b2)
    BY <1>1, <1>6, PassedStays DEF HooksIn
  <2> QED
    BY <1>2, <2>3, <2>4 DEF HooksIn
<1> QED
  BY <1>5, <1>6 DEF Forwarded

LEMMA DropHooks ==
  ASSUME NEW b, NEW p, NEW r, HooksIn(b, p, r), NEW s \in Bounds, NEW b2, NEW p2,
         DroppedAt(s, b, p, b2, p2)
  PROVE  HooksIn(b2, p2, r)
<1>1. CASE b[s].deps = 1
  BY <1>1, ResolveHooks DEF DroppedAt
<1>2. CASE b[s].deps # 1
  BY <1>2, HooksSame DEF DroppedAt, Alike
<1> QED
  BY <1>1, <1>2

Hooks == HooksIn(bound, posts, ran)

\* A step that moves no effect and resolves nothing.
LEMMA HooksStay ==
  ASSUME Hooks, posts' = posts, ran' = ran,
         \A s \in Bounds : /\ bound'[s].effects = bound[s].effects
                           /\ bound'[s].shown = bound[s].shown
                           /\ bound'[s].isResolved => bound[s].isResolved
  PROVE  Hooks'
<1>1. PICK b2 : b2 = bound'
  OBVIOUS
<1>2. HooksIn(b2, posts, ran)
  BY <1>1, HooksSame DEF Hooks
<1> QED
  BY <1>1, <1>2 DEF Hooks

\* Boundaries are mounted and unmounted, patched, replaced; promises are waited for
\* and settle; boundaries recede.
LEMMA QuietHooks ==
  ASSUME Good, Hooks,
         \/ EndPatch \/ EndUnmount \/ Recede
         \/ \E s \in Bounds : \/ MountSuspense(s) \/ PatchSuspense(s)
                              \/ ReplaceContent(s) \/ RemoveSuspense(s)
         \/ \E c \in Comps : Settle(c) \/ Reject(c) \/ (MountComponent(c) /\ RegisterDep(c))
  PROVE  Hooks'
<1>1. bound \in Boundaries /\ bound \in [Bounds -> Boundary]
  BY DEF Good, Shape, TypeOK, Boundaries
<1>2. CASE EndPatch \/ EndUnmount
  <2>1. PICK o, v : bound' = bound \/ bound' = [bound EXCEPT ![o].content = v]
    BY <1>2 DEF EndPatch, EndUnmount
  <2>2. ASSUME NEW t \in Bounds
        PROVE  /\ bound'[t].effects = bound[t].effects /\ bound'[t].shown = bound[t].shown
               /\ bound'[t].isResolved = bound[t].isResolved
    <3>1. bound[t] \in Boundary
      BY <1>1
    <3>2. CASE o = t
      BY <1>1, <2>1, <3>1, <3>2 DEF Boundary
    <3>3. CASE o # t
      BY <1>1, <2>1, <3>3
    <3> QED
      BY <3>2, <3>3
  <2> QED
    BY <1>2, <2>2, HooksStay DEF EndPatch, EndUnmount
<1>3. CASE Recede
  <2>1. Head(jobs) \in Bounds
    BY <1>3 DEF Recede, Good, Shape, TypeOK
  <2>2. bound' = [bound EXCEPT ![Head(jobs)] = Hidden(@)]
    BY <1>3 DEF Recede
  <2>3. \A t \in Bounds : /\ bound'[t].effects = bound[t].effects /\ bound'[t].shown = bound[t].shown
                          /\ bound'[t].isResolved => bound[t].isResolved
    BY <1>1, <2>1, <2>2, HiddenKeeps
  <2> QED
    BY <1>3, <2>3, HooksStay DEF Recede
<1>4. ASSUME NEW s \in Bounds, MountSuspense(s)
      PROVE  Hooks'
  BY <1>1, <1>4, HooksStay DEF MountSuspense, Boundary
<1>5. ASSUME NEW s \in Bounds, PatchSuspense(s)
      PROVE  Hooks'
  BY <1>5, HooksStay DEF PatchSuspense
<1>6. ASSUME NEW s \in Bounds, ReplaceContent(s) \/ RemoveSuspense(s)
      PROVE  Hooks'
  <2>1. PICK bs : bound' = Unmounted(bs)
    BY <1>6 DEF ReplaceContent, RemoveSuspense
  <2>2. \A t \in Bounds : /\ bound'[t].effects = bound[t].effects /\ bound'[t].shown = bound[t].shown
                          /\ bound'[t].isResolved = bound[t].isResolved
    BY <1>1, <2>1, UnmountedTyped
  <2> QED
    BY <1>6, <2>2, HooksStay DEF ReplaceContent, RemoveSuspense
<1>7. ASSUME NEW c \in Comps, Settle(c)
      PROVE  Hooks'
  <2>1. posts' = posts /\ ran' = ran
    BY <1>7 DEF Settle
  <2>2. \A t \in Bounds : /\ bound'[t].effects = bound[t].effects /\ bound'[t].shown = bound[t].shown
                          /\ bound'[t].isResolved = bound[t].isResolved
    BY <1>1, <1>7 DEF Settle, Boundary
  <2> QED
    BY <2>1, <2>2, HooksStay
<1>8. ASSUME NEW c \in Comps, Reject(c)
      PROVE  Hooks'
  BY <1>8, HooksStay DEF Reject
<1>9. ASSUME NEW c \in Comps, MountComponent(c), RegisterDep(c)
      PROVE  Hooks'
  BY <1>1, <1>9, HooksStay DEF MountComponent, RegisterDep, Boundary
<1> QED
  BY <1>2, <1>3, <1>4, <1>5, <1>6, <1>7, <1>8, <1>9

LEMMA FlushHooks ==
  ASSUME Hooks, FlushPosts
  PROVE  Hooks'
<1>1. posts' = {} /\ ran' = ran \cup posts /\ bound' = bound
  BY DEF FlushPosts
<1>2. HooksIn(bound, {}, ran \cup posts)
  BY DEF Hooks, HooksIn
<1> QED
  BY <1>1, <1>2 DEF Hooks

LEMMA EndMountHooks ==
  ASSUME Good, Hooks, EndMount
  PROVE  Hooks'
<1>1. bound \in Boundaries /\ bound \in [Bounds -> Boundary] /\ posts \in SUBSET Effects
  BY DEF Good, Shape, TypeOK, Boundaries
<1>2. Top.at \in Bounds /\ ran' = ran
  BY TopTyped DEF EndMount, FrameOK, Good
<1>3. CASE bound[Top.at].deps > 0
  BY <1>1, <1>2, <1>3, HooksStay DEF EndMount, Becomes, State, Boundary
<1>4. CASE ~(bound[Top.at].deps > 0)
  <2>1. PICK b2, p2 : /\ b2 = bound' /\ p2 = posts' /\ b2 = Resolve(Top.at, bound, posts).bound
                      /\ p2 = Resolve(Top.at, bound, posts).posts
    BY <1>4 DEF EndMount, Becomes
  <2>2. ResolvedAt(Top.at, bound, b2) /\ Forwarded(Top.at, bound, posts, b2, p2)
    BY <1>1, <1>2, <2>1, ResolveFields
  <2>3. HooksIn(b2, p2, ran)
    BY <1>2, <2>2, ResolveHooks DEF Hooks
  <2> QED
    BY <1>2, <2>1, <2>3 DEF Hooks
<1> QED
  BY <1>3, <1>4

LEMMA MountSyncHooks ==
  ASSUME Good, Hooks, NEW c \in Comps, MountComponent(c), MountSync(c)
  PROVE  Hooks'
<1>1. bound \in Boundaries /\ posts \in SUBSET Effects
  BY DEF Good, Shape, TypeOK
<1>2. MountedHook(c) \in Effects /\ Home[c] \in Bounds \cup {None}
  BY EffectsTyped, BoundsAssumption
<1>3. \A d \in Comps : MountedHook(c) = MountedHook(d) =>
        Home[c] = Home[d] /\ (bound[Home[c]].isResolved => d \in Late)
  BY EffectsDiffer DEF MountComponent
<1>4. PICK b2, p2 :
        /\ b2 = bound' /\ b2 = QueueEffectWithSuspense(MountedHook(c), Home[c], bound, posts).bound
        /\ p2 = posts' /\ p2 = QueueEffectWithSuspense(MountedHook(c), Home[c], bound, posts).posts
  BY DEF MountSync, Becomes
<1>5. HooksIn(b2, p2, ran)
  BY <1>1, <1>2, <1>3, <1>4, QueueHooks DEF Hooks
<1> QED
  BY <1>4, <1>5 DEF Hooks, MountComponent

\* The mark of a component that is removed is no hook; its dep may be the last.
LEMMA RemoveHooks ==
  ASSUME Good, Hooks, NEW c \in Comps, NEW s \in Bounds \cup {None}, UnmountComponent(c, s)
  PROVE  Hooks'
<1> DEFINE drops == /\ IsPending(s) /\ bound[s].state # "unmounted" /\ phase[c] = "pending"
<1>1. bound \in Boundaries /\ posts \in SUBSET Effects /\ UnmountedMark(c) \in Effects
  BY EffectsTyped DEF Good, Shape, TypeOK
<1>2. PICK b, p : /\ b = QueueEffectWithSuspense(UnmountedMark(c), s, bound, posts).bound
                  /\ p = QueueEffectWithSuspense(UnmountedMark(c), s, bound, posts).posts
  OBVIOUS
<1>3. /\ bound' = (IF drops THEN DropDep(s, b, p).bound ELSE b)
      /\ posts' = (IF drops THEN DropDep(s, b, p).posts ELSE p)
      /\ ran' = ran
  BY <1>2 DEF UnmountComponent, Becomes
<1>4. HooksIn(b, p, ran)
  <2>1. \A d \in Comps : UnmountedMark(c) # MountedHook(d)
    BY EffectsDiffer
  <2> QED
    BY <1>1, <1>2, <2>1, QueueHooks DEF Hooks
<1>5. b \in Boundaries /\ p \in SUBSET Effects
  BY <1>1, <1>2, QueueAdds
<1>6. drops => s \in Bounds
  BY DEF IsPending
<1> HIDE DEF drops
<1>7. CASE drops
  <2>1. PICK b2, p2 : b2 = bound' /\ p2 = posts' /\ b2 = DropDep(s, b, p).bound
                      /\ p2 = DropDep(s, b, p).posts
    BY <1>3, <1>7
  <2>2. DroppedAt(s, b, p, b2, p2)
    BY <1>5, <1>6, <1>7, <2>1, DropFields, Zenon
  <2>3. HooksIn(b2, p2, ran)
    BY <1>4, <1>6, <1>7, <2>2, DropHooks
  <2> QED
    BY <1>3, <2>1, <2>3 DEF Hooks
<1>8. CASE ~drops
  BY <1>3, <1>4, <1>8 DEF Hooks
<1> QED
  BY <1>7, <1>8

\* A component is rendered late only in a resolved boundary, of which it was pending.
LEMMA EndSettleHooks ==
  ASSUME Good, Hooks, EndSettle
  PROVE  Hooks'
<1>1. PICK c \in Comps, b \in Boundaries, p \in SUBSET Effects :
        /\ Live(Home[c]) /\ phase[c] = "pending" /\ ran' = ran
        /\ b = QueueEffectWithSuspense(MountedHook(c), Home[c], bound, posts).bound
        /\ p = QueueEffectWithSuspense(MountedHook(c), Home[c], bound, posts).posts
        /\ IF bound[Home[c]].deps = 0
           THEN ResolvedAt(Home[c], b, bound') /\ Forwarded(Home[c], b, p, bound', posts')
           ELSE bound' = b /\ posts' = p
  BY EndSettleDeps
<1>2. bound \in Boundaries /\ posts \in SUBSET Effects
  BY DEF Good, Shape, TypeOK
<1>3. MountedHook(c) \in Effects /\ Home[c] \in Bounds
  BY EffectsTyped, BoundsAssumption
<1>4. bound[Home[c]].isResolved => c \in Late
  BY <1>1, <1>3 DEF Good, Exact, Waits, PendingIn
<1>5. \A d \in Comps : MountedHook(c) = MountedHook(d) =>
        Home[c] = Home[d] /\ (bound[Home[c]].isResolved => d \in Late)
  BY <1>4, EffectsDiffer
<1>6. HooksIn(b, p, ran)
  BY <1>1, <1>2, <1>3, <1>5, QueueHooks DEF Hooks
<1>7. PICK b2, p2 : b2 = bound' /\ p2 = posts'
  OBVIOUS
<1>8. HooksIn(b2, p2, ran)
  <2>1. CASE bound[Home[c]].deps = 0
    BY <1>1, <1>3, <1>6, <1>7, <2>1, ResolveHooks
  <2>2. CASE bound[Home[c]].deps # 0
    BY <1>1, <1>6, <1>7, <2>2
  <2> QED
    BY <2>1, <2>2
<1> QED
  BY <1>1, <1>7, <1>8 DEF Hooks

LEMMA HooksStep ==
  ASSUME Good, Hooks, [Next]_vars
  PROVE  Hooks'
<1>1. CASE UNCHANGED vars
  BY <1>1 DEF vars, Hooks
<1>2. ASSUME NEW s \in Bounds,
             MountSuspense(s) \/ PatchSuspense(s) \/ ReplaceContent(s) \/ RemoveSuspense(s)
      PROVE  Hooks'
  BY <1>2, QuietHooks
<1>3. ASSUME NEW c \in Comps, MountComponent(c) \/ Reject(c) \/ Settle(c)
      PROVE  Hooks'
  BY <1>3, QuietHooks, MountSyncHooks DEF MountComponent
<1>4. ASSUME NEW c \in Comps, RemoveComponent(c) \/ UnmountNext(c)
      PROVE  Hooks'
  <2>1. PICK s \in Bounds \cup {None} : UnmountComponent(c, s)
    BY <1>4, UnmountNextShape, BoundsAssumption DEF RemoveComponent, UnmountNext, Good
  <2> QED
    BY <2>1, RemoveHooks
<1>5. CASE EndMount \/ EndPatch \/ EndUnmount \/ EndSettle \/ Recede \/ FlushPosts
  BY <1>5, EndMountHooks, EndSettleHooks, QuietHooks, FlushHooks
<1> QED
  BY <1>1, <1>2, <1>3, <1>4, <1>5 DEF Next, Synchronous, EventLoop

\* A mounted hook waits until the content it is in has been shown, up to the root,
\* though it moves from boundary to boundary as they are resolved.
THEOREM HooksHeld == ASSUME Orderly PROVE Spec => []HooksWait
<1>1. Init => Hooks
  BY DEF Init, Hooks, HooksIn
<1>2. Orderly /\ Good /\ [Next]_vars => Good'
  BY GoodStep
<1>3. Good /\ Hooks /\ [Next]_vars => Hooks'
  BY HooksStep
<1>4. Good /\ Hooks => HooksWait
  <2> SUFFICES ASSUME Good, Hooks, NEW e \in posts \cup ran, e.hook = "mounted"
               PROVE  /\ bound[Home[e.of]].shown
                      /\ e.of \notin Late => \A s \in ToSet(Outer[Home[e.of]]) : bound[s].shown
    BY DEF HooksWait
  <2>1. e \in Effects
    BY DEF Good, Shape, TypeOK
  <2>2. e.of \in Comps /\ e = MountedHook(e.of)
    BY <2>1 DEF Effects, MountedHook
  <2>3. Told(e.of, bound)
    BY <2>2 DEF Hooks, HooksIn
  <2> QED
    BY <2>3 DEF Told, ToSet
<1> QED
  BY InitGood, <1>1, <1>2, <1>3, <1>4, PTL DEF Spec

--------------------------------------------------------------------------------
(* What a boundary shows. *)

\* No boundary gets a second job to recede: of the components that are put into its
\* resolved content one is asynchronous, and nothing pending is replaced.
SingleLate ==
  /\ Replaced = {}
  /\ \A c, e \in Late \cap Async : Home[c] = Home[e] => c = e

Mounting(s) == \E i \in DOMAIN stack : stack[i].kind = "mount" /\ stack[i].at = s

\* One of content and fallback, from the end of the mount.
Face(s) ==
  /\ Live(s) => IF Mounting(s)
                THEN ~bound[s].isResolved /\ bound[s].content = "hidden" /\ bound[s].fallback = 0
                ELSE IF bound[s].isResolved
                     THEN bound[s].content = "shown" /\ bound[s].fallback = 0
                     ELSE bound[s].content = "hidden" /\ bound[s].fallback = 1
  /\ bound[s].state = "new" =>
       ~bound[s].isResolved /\ bound[s].content = "hidden" /\ bound[s].fallback = 0

\* The boundaries that will recede are resolved, each has one job, for a component
\* that has come.
Due ==
  /\ \A i \in DOMAIN jobs :
       /\ bound[jobs[i]].isResolved
       /\ \E c \in Late \cap Async : Home[c] = jobs[i] /\ phase[c] # "new"
  /\ \A i, k \in DOMAIN jobs : jobs[i] = jobs[k] => i = k

\* Content that is replaced is mounted where that of the boundary is.
IntoPlace(f) == f.into = IF bound[f.at].isResolved THEN "shown" ELSE "hidden"

Into == \A i \in DOMAIN stack :
          stack[i].kind = "unmount" /\ stack[i].into # "nowhere" => IntoPlace(stack[i])

Placed == (\A s \in Bounds : Face(s)) /\ Due /\ Into

LEMMA DueSame ==
  ASSUME Shape, Due, jobs' = jobs, \A c \in Comps : phase[c] # "new" => phase'[c] # "new",
         \A s \in Bounds : bound[s].isResolved => bound'[s].isResolved,
         Late \cap Async \subseteq Comps
  PROVE  Due'
<1>1. \A i \in DOMAIN jobs : jobs[i] \in Bounds
  BY DEF Shape, TypeOK
<1> QED
  BY <1>1 DEF Due

LEMMA IntoSame ==
  ASSUME Shape, Into,
         \A i \in DOMAIN stack' : stack'[i].kind = "unmount" /\ stack'[i].into # "nowhere" =>
           \E k \in DOMAIN stack :
             /\ stack[k].kind = "unmount" /\ stack[k].at = stack'[i].at
             /\ stack[k].into = stack'[i].into
             /\ bound'[stack[k].at].isResolved = bound[stack[k].at].isResolved
  PROVE  Into'
<1>1. ASSUME NEW i \in DOMAIN stack', stack'[i].kind = "unmount", stack'[i].into # "nowhere"
      PROVE  stack'[i].into = IF bound'[stack'[i].at].isResolved THEN "shown" ELSE "hidden"
  <2>1. PICK k \in DOMAIN stack :
             /\ stack[k].kind = "unmount" /\ stack[k].at = stack'[i].at
             /\ stack[k].into = stack'[i].into
             /\ bound'[stack[k].at].isResolved = bound[stack[k].at].isResolved
    BY <1>1
  <2> QED
    BY <1>1, <2>1 DEF Into, IntoPlace
<1> QED
  BY <1>1 DEF Into, IntoPlace

LEMMA FaceSame ==
  ASSUME NEW s \in Bounds, Face(s), bound'[s].state = bound[s].state,
         Mounting(s)' <=> Mounting(s), bound'[s].isResolved = bound[s].isResolved,
         bound'[s].content = bound[s].content, bound'[s].fallback = bound[s].fallback
  PROVE  Face(s)'
BY DEF Face, Live

\* A boundary that is mounted is resolved, again or for the first time.
LEMMA FaceResolved ==
  ASSUME NEW s \in Bounds, Face(s), Live(s), ~Mounting(s), ~Mounting(s)',
         bound'[s].state = bound[s].state,
         bound'[s].isResolved, bound'[s].content = "shown",
         bound'[s].fallback = IF bound[s].fallback > 0 THEN bound[s].fallback - 1 ELSE 0
  PROVE  Face(s)'
BY DEF Face, Live

\* The mounts that are under way.
LEMMA MountingPushed ==
  ASSUME stack \in Seq(Frame), NEW f \in Frame, stack' = Append(stack, f), NEW s,
         f.kind # "mount" \/ f.at # s
  PROVE  Mounting(s)' <=> Mounting(s)
<1>1. \A i \in DOMAIN stack : i \in DOMAIN stack' /\ stack'[i] = stack[i]
  BY Pushed
<1>2. \A i \in DOMAIN stack' : (i \in DOMAIN stack /\ stack'[i] = stack[i]) \/ stack'[i] = f
  BY Pushed
<1> QED
  BY <1>1, <1>2 DEF Mounting

LEMMA MountingPopped ==
  ASSUME Shape, ~Idle, stack' = Front(stack), NEW s, Top.kind # "mount" \/ Top.at # s
  PROVE  Mounting(s)' <=> Mounting(s)
<1>1. stack \in Seq(Frame) /\ stack # << >>
  BY DEF Shape, TypeOK, Idle
<1>2. \A i \in DOMAIN stack' : i \in DOMAIN stack /\ stack'[i] = stack[i]
  BY <1>1, Popped
<1>3. \A i \in DOMAIN stack : stack[i] = Top \/ (i \in DOMAIN stack' /\ stack'[i] = stack[i])
  BY <1>1, Popped DEF Top
<1> QED
  BY <1>2, <1>3 DEF Mounting

\* Where a boundary is patched or settles, or an unmount takes place, it is not
\* being mounted.
LEMMA NotMounting ==
  ASSUME Good, NEW i \in DOMAIN stack, stack[i].kind \in {"patch", "settle"}
  PROVE  ~Mounting(stack[i].at)
BY DEF Good, Stacked, Mounting

\* The step resolves o, which is not being mounted, and into which nothing is put.
Resolving(o) ==
  /\ o \in Bounds /\ Live(o) /\ ~Mounting(o) /\ ResolvedAt(o, bound, bound')
  /\ \A i \in DOMAIN stack : stack[i].kind = "unmount" => stack[i].at # o

\* Steps that keep the jobs, the mounts and what is unmounted, and may resolve a
\* boundary.
LEMMA PlacedSame ==
  ASSUME Good, Placed, jobs' = jobs, StatesKept,
         \A c \in Comps : phase[c] # "new" => phase'[c] # "new",
         \A s \in Bounds : Mounting(s)' <=> Mounting(s),
         Alike(bound, bound') \/ \E o \in Bounds : Resolving(o),
         \A i \in DOMAIN stack' : stack'[i].kind = "unmount" =>
           \E k \in DOMAIN stack : /\ stack[k].kind = "unmount" /\ stack[k].at = stack'[i].at
                                   /\ stack[k].into = stack'[i].into
  PROVE  Placed'
<1>0. PICK o : Alike(bound, bound') \/ Resolving(o)
  OBVIOUS
<1>1. ASSUME NEW s \in Bounds PROVE Face(s)'
  <2>1. Face(s) /\ bound'[s].state = bound[s].state
    BY DEF Placed, StatesKept
  <2>2. CASE Alike(bound, bound') \/ s # o
    BY <1>0, <2>1, <2>2, FaceSame DEF Alike, Resolving, ResolvedAt
  <2>3. CASE s = o /\ Resolving(o)
    BY <2>1, <2>3, FaceResolved DEF Resolving, ResolvedAt
  <2> QED
    BY <1>0, <2>2, <2>3
<1>2. \A s \in Bounds : bound[s].isResolved => bound'[s].isResolved
  BY <1>0 DEF Alike, Resolving, ResolvedAt
<1>3. Due'
  BY <1>2, DueSame, BoundsAssumption DEF Good, Placed
<1>4. Into'
  <2>1. \A i \in DOMAIN stack : stack[i].kind = "unmount" /\ stack[i].into # "nowhere" =>
          stack[i].at \in Bounds /\ bound'[stack[i].at].isResolved = bound[stack[i].at].isResolved
    <3> SUFFICES ASSUME NEW i \in DOMAIN stack, stack[i].kind = "unmount", stack[i].into # "nowhere"
                 PROVE  /\ stack[i].at \in Bounds
                        /\ bound'[stack[i].at].isResolved = bound[stack[i].at].isResolved
      OBVIOUS
    <3>1. stack[i].at \in Bounds
      BY DEF Good, Shape, Frames, FrameOK
    <3> QED
      BY <1>0, <3>1 DEF Alike, Resolving, ResolvedAt
  <2> QED
    BY <2>1, IntoSame DEF Good, Placed
<1> QED
  BY <1>1, <1>3, <1>4 DEF Placed

\* Frames of other kinds are pushed and popped.
LEMMA PlainPlaced ==
  ASSUME Good, Placed,
         \/ EndPatch \/ FlushPosts
         \/ \E s \in Bounds : PatchSuspense(s)
         \/ \E c \in Comps : Settle(c) \/ Reject(c) \/ (MountComponent(c) /\ MountSync(c))
  PROVE  Placed'
<1>1. /\ bound \in Boundaries /\ bound \in [Bounds -> Boundary] /\ posts \in SUBSET Effects
      /\ stack \in Seq(Frame) /\ Shape /\ phase \in [Comps -> Phases]
  BY DEF Good, Shape, TypeOK, Boundaries
<1>2. CASE EndPatch
  <2>1. /\ jobs' = jobs /\ phase' = phase /\ bound' = bound /\ ~Idle /\ stack' = Front(stack)
        /\ Top.kind = "patch" /\ stack # << >>
    BY <1>2 DEF EndPatch, Idle
  <2>2. \A s \in Bounds : Mounting(s)' <=> Mounting(s)
    BY <1>1, <2>1, MountingPopped
  <2>3. \A i \in DOMAIN stack' : i \in DOMAIN stack /\ stack'[i] = stack[i]
    BY <1>1, <2>1, Popped
  <2> QED
    BY <2>1, <2>2, <2>3, PlacedSame DEF Alike, StatesKept
<1>3. CASE FlushPosts
  BY <1>3, PlacedSame DEF FlushPosts, Alike, StatesKept, Mounting
<1>4. ASSUME NEW s \in Bounds, PatchSuspense(s)
      PROVE  Placed'
  <2>1. PICK f \in Frame : f = RenderFrame("patch", s, {}) /\ f.kind = "patch"
    BY FramesMade
  <2>2. jobs' = jobs /\ phase' = phase /\ bound' = bound /\ stack' = Append(stack, f)
    BY <1>4, <2>1 DEF PatchSuspense
  <2>3. \A t \in Bounds : Mounting(t)' <=> Mounting(t)
    BY <1>1, <2>1, <2>2, MountingPushed
  <2>4. \A i \in DOMAIN stack' : (i \in DOMAIN stack /\ stack'[i] = stack[i]) \/ stack'[i] = f
    BY <1>1, <2>2, Pushed
  <2> QED
    BY <2>1, <2>2, <2>3, <2>4, PlacedSame DEF Alike, StatesKept
<1>5. ASSUME NEW c \in Comps, Settle(c)
      PROVE  Placed'
  <2>1. jobs' = jobs /\ phase' = phase /\ StatesKept /\ Alike(bound, bound')
    <3>1. jobs' = jobs /\ phase' = phase /\ StatesKept
      BY <1>5, StatesStay DEF Settle
    <3>2. bound' = bound \/ bound' = [bound EXCEPT ![Home[c]].deps = @ - 1]
      BY <1>5 DEF Settle
    <3>3. Alike(bound, bound')
      BY <1>1, <3>2, SMTT(40) DEF Alike, Boundary
    <3> QED
      BY <3>1, <3>3
  <2>2. CASE stack' = stack
    BY <2>1, <2>2, PlacedSame DEF Mounting
  <2>3. CASE stack' = Append(stack, RenderFrame("settle", Home[c], {c}))
    <3>1. PICK f \in Frame : f = RenderFrame("settle", Home[c], {c}) /\ f.kind = "settle"
      BY FramesMade, BoundsAssumption
    <3>2. stack' = Append(stack, f)
      BY <2>3, <3>1
    <3>3. \A t \in Bounds : Mounting(t)' <=> Mounting(t)
      BY <1>1, <3>1, <3>2, MountingPushed
    <3>4. \A i \in DOMAIN stack' : (i \in DOMAIN stack /\ stack'[i] = stack[i]) \/ stack'[i] = f
      BY <1>1, <3>2, Pushed
    <3> QED
      BY <2>1, <3>1, <3>3, <3>4, PlacedSame
  <2> QED
    BY <1>5, <2>2, <2>3 DEF Settle
<1>6. ASSUME NEW c \in Comps, Reject(c)
      PROVE  Placed'
  BY <1>6, PlacedSame DEF Reject, Alike, StatesKept, Mounting
<1>7. ASSUME NEW c \in Comps, MountComponent(c), MountSync(c)
      PROVE  Placed'
  <2>1. jobs' = jobs /\ StatesKept /\ stack' = stack
    BY <1>7, StatesStay DEF MountComponent, MountSync
  <2>2. MountedHook(c) \in Effects /\ Home[c] \in Bounds \cup {None}
    BY EffectsTyped, BoundsAssumption
  <2>3. bound' = QueueEffectWithSuspense(MountedHook(c), Home[c], bound, posts).bound
    BY <1>7 DEF MountSync, Becomes
  <2>4. Alike(bound, bound')
    BY <1>1, <2>2, <2>3, QueueFields
  <2>5. \A d \in Comps : phase[d] # "new" => phase'[d] # "new"
    BY <1>1, <1>7 DEF MountSync
  <2> QED
    BY <2>1, <2>4, <2>5, PlacedSame DEF Mounting
<1> QED
  BY <1>2, <1>3, <1>4, <1>5, <1>6, <1>7

\* The promise that settles last resolves a boundary that is mounted.
LEMMA EndSettlePlaced ==
  ASSUME Good, Placed, EndSettle
  PROVE  Placed'
<1>1. PICK c \in Comps, b \in Boundaries :
        /\ Home[c] = Top.at /\ Live(Home[c]) /\ stack' = << >> /\ jobs' = jobs
        /\ phase' = [phase EXCEPT ![c] = "rendered"] /\ Alike(bound, b)
        /\ IF bound[Home[c]].deps = 0 THEN ResolvedAt(Home[c], b, bound') ELSE bound' = b
  BY EndSettleDeps
<1>2. Home[c] \in Bounds /\ phase \in [Comps -> Phases] /\ StatesKept
  BY StatesStay, BoundsAssumption DEF Good, Shape, TypeOK
<1>3. /\ ~Idle /\ Top.kind = "settle" /\ Top = stack[Len(stack)] /\ Len(stack) \in DOMAIN stack
      /\ Len(stack) = 1
  BY TopTyped DEF EndSettle, FrameOK, Good
<1>4. \A i \in DOMAIN stack : stack[i] = Top
  BY <1>3 DEF Good, Shape, TypeOK
<1>5. \A s \in Bounds : ~Mounting(s) /\ ~Mounting(s)'
  BY <1>1, <1>3, <1>4 DEF Mounting
<1>6. Alike(bound, bound') \/ Resolving(Home[c])
  <2>1. CASE bound[Home[c]].deps = 0
    <3>1. ResolvedAt(Home[c], bound, bound')
      BY <1>1, <1>2, <2>1 DEF Alike, ResolvedAt
    <3> QED
      BY <1>1, <1>2, <1>3, <1>4, <1>5, <3>1 DEF Resolving
  <2>2. CASE bound[Home[c]].deps # 0
    BY <1>1, <2>2
  <2> QED
    BY <2>1, <2>2
<1>7. \A d \in Comps : phase[d] # "new" => phase'[d] # "new"
  BY <1>1, <1>2
<1>8. DOMAIN stack' = {}
  BY <1>1
<1> QED
  BY <1>1, <1>2, <1>5, <1>6, <1>7, <1>8, PlacedSame

\* What the removal of a component does to the other fields.
LEMMA UnmountFields ==
  ASSUME Shape, NEW c \in Comps, NEW s \in Bounds \cup {None}, UnmountComponent(c, s)
  PROVE  \/ Alike(bound, bound')
         \/ /\ s \in Bounds /\ ~bound[s].isResolved /\ bound[s].state # "unmounted"
            /\ phase[c] = "pending" /\ ResolvedAt(s, bound, bound')
<1> DEFINE drops == IsPending(s) /\ bound[s].state # "unmounted" /\ phase[c] = "pending"
<1>1. bound \in Boundaries /\ posts \in SUBSET Effects /\ UnmountedMark(c) \in Effects
  BY EffectsTyped DEF Shape, TypeOK
<1>2. PICK b, p : /\ b = QueueEffectWithSuspense(UnmountedMark(c), s, bound, posts).bound
                  /\ p = QueueEffectWithSuspense(UnmountedMark(c), s, bound, posts).posts
  OBVIOUS
<1>3. bound' = IF drops THEN DropDep(s, b, p).bound ELSE b
  BY <1>2 DEF UnmountComponent, Becomes
<1>4. Alike(bound, b)
  BY <1>1, <1>2, QueueFields
<1>5. b \in Boundaries /\ p \in SUBSET Effects
  BY <1>1, <1>2, QueueAdds
<1>6. CASE drops
  <2>1. s \in Bounds
    BY <1>6 DEF IsPending
  <2>2. PICK b2, p2 : b2 = DropDep(s, b, p).bound /\ p2 = DropDep(s, b, p).posts
    OBVIOUS
  <2>3. DroppedAt(s, b, p, b2, p2)
    BY <1>5, <2>1, <2>2, DropFields, Zenon
  <2>4. ResolvedAt(s, b, b2) \/ Alike(b, b2)
    BY <2>3 DEF DroppedAt
  <2>5. ResolvedAt(s, bound, b2) \/ Alike(bound, b2)
    BY <1>4, <2>1, <2>4 DEF Alike, ResolvedAt
  <2> QED
    BY <1>3, <1>6, <2>1, <2>2, <2>5 DEF IsPending
<1>7. CASE ~drops
  BY <1>3, <1>4, <1>7
<1> QED
  BY <1>6, <1>7

\* A patch takes a component out of a boundary in which nothing is unmounted.
LEMMA RemovePlaced ==
  ASSUME Good, Placed, NEW c \in Comps, RemoveComponent(c)
  PROVE  Placed'
<1> DEFINE s == Home[c]
<1>1. /\ ~Idle /\ Top.kind = "patch" /\ Top.at = s /\ UnmountComponent(c, s) /\ stack' = stack
      /\ jobs' = jobs /\ StatesKept /\ s \in Bounds
  BY StatesStay, BoundsAssumption DEF RemoveComponent, Patching, UnmountComponent
<1>2. Top = stack[Len(stack)] /\ Len(stack) \in DOMAIN stack
  BY <1>1, TopTyped DEF Good
<1>3. Live(s) /\ ~Mounting(s)
  BY <1>1, <1>2, NotMounting DEF Good, Stacked
<1>4. \A i \in DOMAIN stack : stack[i].kind # "unmount"
  BY <1>1, NoUnmount DEF Good
<1>5. Alike(bound, bound') \/ Resolving(s)
  BY <1>1, <1>3, <1>4, UnmountFields DEF Good, Resolving
<1>6. \A d \in Comps : phase[d] # "new" => phase'[d] # "new"
  BY <1>1 DEF UnmountComponent, Good, Shape, TypeOK
<1> QED
  BY <1>1, <1>5, <1>6, PlacedSame DEF Mounting

\* With a tree no dep is given up: nothing pending is replaced.
LEMMA UnmountNextPlaced ==
  ASSUME SingleLate, Good, Placed, NEW c \in Comps, UnmountNext(c)
  PROVE  Placed'
<1>1. /\ ~Idle /\ Top.kind = "unmount" /\ c \in Top.todo /\ UnmountComponent(c, Top.at)
      /\ stack' = [stack EXCEPT ![Len(stack)].todo = @ \ {c}] /\ jobs' = jobs /\ StatesKept
  BY StatesStay DEF UnmountNext, UnmountComponent
<1>2. Top = stack[Len(stack)] /\ Len(stack) \in DOMAIN stack /\ Top.at \in Bounds \cup {None}
  BY <1>1, TopTyped DEF Good, Frame
<1>3. phase[c] = "pending" => Top.at = None \/ bound[Top.at].isResolved
  BY <1>1, <1>2 DEF Good, Exact, Goes, GoesWith, SingleLate
<1>4. Alike(bound, bound')
  BY <1>1, <1>2, <1>3, UnmountFields, BoundsAssumption DEF Good
<1>5. \A d \in Comps : phase[d] # "new" => phase'[d] # "new"
  BY <1>1 DEF UnmountComponent, Good, Shape, TypeOK
<1>6. /\ DOMAIN stack' = DOMAIN stack
      /\ \A i \in DOMAIN stack : stack'[i].kind = stack[i].kind /\ stack'[i].at = stack[i].at
                                 /\ stack'[i].into = stack[i].into
  <2>1. stack \in Seq(Frame) /\ stack # << >>
    BY <1>1 DEF Good, Shape, TypeOK, Idle
  <2> QED
    BY <1>1, <2>1, TopLess
<1>7. \A t \in Bounds : Mounting(t)' <=> Mounting(t)
  BY <1>6 DEF Mounting
<1> QED
  BY <1>1, <1>4, <1>5, <1>6, <1>7, PlacedSame

\* A boundary is mounted: it shows nothing yet.
LEMMA MountPlaced ==
  ASSUME Good, Placed, NEW s \in Bounds, MountSuspense(s)
  PROVE  Placed'
<1>1. PICK f \in Frame : f = RenderFrame("mount", s, {}) /\ f.kind = "mount" /\ f.at = s
  BY FramesMade
<1>2. /\ stack \in Seq(Frame) /\ stack' = Append(stack, f) /\ bound[s].state = "new"
      /\ jobs' = jobs /\ phase' = phase
  BY <1>1 DEF MountSuspense, Good, Shape, TypeOK
<1>3. \A t \in Bounds : /\ bound'[t].state = IF t = s THEN "live" ELSE bound[t].state
                        /\ bound'[t].isResolved = bound[t].isResolved
                        /\ bound'[t].content = bound[t].content
                        /\ bound'[t].fallback = bound[t].fallback
  BY DEF MountSuspense, Good, Shape, TypeOK, Boundaries, Boundary
<1>4. \A i \in DOMAIN stack' : (i \in DOMAIN stack /\ stack'[i] = stack[i]) \/ stack'[i] = f
  BY <1>2, Pushed
<1>5. Mounting(s)'
  BY <1>1, <1>2, Pushed DEF Mounting
<1>6. ASSUME NEW t \in Bounds PROVE Face(t)'
  <2>1. Face(t)
    BY DEF Placed
  <2>2. CASE t = s
    BY <1>2, <1>3, <1>5, <2>1, <2>2 DEF Face, Live
  <2>3. CASE t # s
    BY <1>1, <1>2, <1>3, <2>1, <2>3, MountingPushed, FaceSame
  <2> QED
    BY <2>2, <2>3
<1>7. Due'
  BY <1>2, <1>3, DueSame, BoundsAssumption DEF Good, Placed
<1>8. Into'
  <2>1. \A i \in DOMAIN stack' : stack'[i].kind = "unmount" =>
          i \in DOMAIN stack /\ stack'[i] = stack[i]
    BY <1>1, <1>4
  <2>2. Idle \/ Top.kind # "unmount"
    BY DEF MountSuspense, Rendering, Patching
  <2>3. \A i \in DOMAIN stack : stack[i].kind # "unmount"
    BY <2>2, NoUnmount DEF Good
  <2> QED
    BY <2>1, <2>3 DEF Into
<1> QED
  BY <1>6, <1>7, <1>8 DEF Placed

\* At the end it shows the one or the other.
LEMMA EndMountPlaced ==
  ASSUME Good, Placed, EndMount
  PROVE  Placed'
<1>0. PICK s : s = Top.at
  OBVIOUS
<1>1. /\ phase' = phase /\ jobs' = jobs /\ stack' = Front(stack) /\ ~Idle /\ Top.kind = "mount"
      /\ stack \in Seq(Frame) /\ stack # << >> /\ StatesKept
      /\ bound \in Boundaries /\ bound \in [Bounds -> Boundary]
  BY StatesStay DEF EndMount, Idle, Good, Shape, TypeOK, Boundaries
<1>2. /\ s \in Bounds /\ Len(stack) \in DOMAIN stack /\ Top = stack[Len(stack)]
      /\ s = Top.at
  BY <1>0, <1>1, TopTyped DEF FrameOK, Good
<1>3. \A i \in DOMAIN stack' : i \in DOMAIN stack /\ i # Len(stack) /\ stack'[i] = stack[i]
  BY <1>1, Popped
<1>4. Live(s) /\ Mounting(s) /\ ~Mounting(s)'
  <2>1. Live(s) /\ \A i \in DOMAIN stack : stack[i].kind = "mount" /\ stack[i].at = s => i = Len(stack)
    BY <1>1, <1>2 DEF Good, Stacked
  <2>2. Mounting(s)
    BY <1>1, <1>2 DEF Mounting
  <2>3. ASSUME NEW i \in DOMAIN stack', stack'[i].kind = "mount", stack'[i].at = s
        PROVE  FALSE
    BY <1>3, <2>1, <2>3
  <2> QED
    BY <2>1, <2>2, <2>3 DEF Mounting
<1>5. /\ ~bound[s].isResolved /\ bound[s].content = "hidden" /\ bound[s].fallback = 0
      /\ bound[s].state = "live"
  BY <1>2, <1>4 DEF Placed, Face, Live
<1>6. /\ \A t \in Bounds \ {s} : /\ bound'[t].isResolved = bound[t].isResolved
                                 /\ bound'[t].content = bound[t].content
                                 /\ bound'[t].fallback = bound[t].fallback
      /\ \/ ~bound'[s].isResolved /\ bound'[s].content = "hidden" /\ bound'[s].fallback = 1
         \/ bound'[s].isResolved /\ bound'[s].content = "shown" /\ bound'[s].fallback = 0
  <2>1. CASE bound[s].deps > 0
    <3>1. bound' = [bound EXCEPT ![s].fallback = 1]
      BY <1>0, <2>1 DEF EndMount, Becomes, State
    <3> QED
      BY <1>1, <1>2, <1>5, <3>1 DEF Boundary
  <2>2. CASE ~(bound[s].deps > 0)
    <3>1. bound' = Resolve(s, bound, posts).bound
      BY <1>0, <2>2 DEF EndMount, Becomes
    <3>2. ResolvedAt(s, bound, bound')
      BY <1>2, <3>1, ResolveFields DEF Good, Shape, TypeOK
    <3> QED
      BY <1>2, <1>5, <3>2 DEF ResolvedAt
  <2> QED
    BY <2>1, <2>2
<1>7. ASSUME NEW t \in Bounds PROVE Face(t)'
  <2>1. Face(t) /\ bound'[t].state = bound[t].state
    BY <1>1 DEF Placed, StatesKept
  <2>2. CASE t = s
    <3>1. ~Mounting(t)'
      BY <1>4, <2>2
    <3>2. /\ bound'[t].state = "live"
          /\ \/ ~bound'[t].isResolved /\ bound'[t].content = "hidden" /\ bound'[t].fallback = 1
             \/ bound'[t].isResolved /\ bound'[t].content = "shown" /\ bound'[t].fallback = 0
      BY <1>5, <1>6, <2>1, <2>2
    <3> QED
      BY <3>1, <3>2 DEF Face
  <2>3. CASE t # s
    <3>1. Mounting(t)' <=> Mounting(t)
      BY <1>0, <1>1, <2>3, MountingPopped DEF Good
    <3> QED
      BY <1>6, <2>1, <2>3, <3>1, FaceSame
  <2> QED
    BY <2>2, <2>3
<1>8. Due'
  <2>1. \A t \in Bounds : bound[t].isResolved => bound'[t].isResolved
    BY <1>5, <1>6
  <2> QED
    BY <1>1, <2>1, DueSame, BoundsAssumption DEF Good, Placed
<1>9. Into'
  <2>1. \A i \in DOMAIN stack : stack[i].kind # "unmount"
    BY <1>1, NoUnmount DEF Good
  <2> QED
    BY <1>3, <2>1 DEF Into
<1> QED
  BY <1>7, <1>8, <1>9 DEF Placed

\* A late component queues the one job its boundary can get.
LEMMA RegisterPlaced ==
  ASSUME SingleLate, Good, Placed, NEW c \in Comps, MountComponent(c), RegisterDep(c)
  PROVE  Placed'
<1>0. PICK s : s = Home[c]
  OBVIOUS
<1>1. /\ phase' = [phase EXCEPT ![c] = "pending"] /\ phase[c] = "new" /\ stack' = stack
      /\ bound' = [bound EXCEPT ![s].deps = @ + 1] /\ c \in Async
      /\ jobs' = (IF bound[s].isResolved THEN Append(jobs, s) ELSE jobs)
      /\ bound[s].isResolved => c \in Late
  BY <1>0 DEF MountComponent, RegisterDep
<1>2. s \in Bounds /\ phase \in [Comps -> Phases] /\ jobs \in Seq(Bounds) /\ s = Home[c]
  BY <1>0, BoundsAssumption DEF Good, Shape, TypeOK
<1>3. \A t \in Bounds : /\ bound'[t].state = bound[t].state
                        /\ bound'[t].isResolved = bound[t].isResolved
                        /\ bound'[t].content = bound[t].content
                        /\ bound'[t].fallback = bound[t].fallback
  BY <1>1, <1>2 DEF Good, Shape, TypeOK, Boundaries, Boundary
<1>4. phase'[c] = "pending" /\ \A d \in Comps : phase[d] # "new" => phase'[d] # "new"
  BY <1>1, <1>2
<1>5. ASSUME NEW t \in Bounds PROVE Face(t)'
  BY <1>1, <1>3, FaceSame DEF Placed, Mounting
<1>6. Due'
  <2>1. CASE ~bound[s].isResolved
    BY <1>1, <1>2, <1>3, <1>4, <2>1, DueSame, BoundsAssumption DEF Good, Placed
  <2>2. CASE bound[s].isResolved
    <3>1. jobs' = Append(jobs, s) /\ c \in Late \cap Async
      BY <1>1, <2>2
    <3>2. \A i \in DOMAIN jobs : jobs[i] # s
      BY <1>1, <1>2, <3>1 DEF Placed, Due, SingleLate
    <3>3. \A i \in DOMAIN jobs' :
            (i \in DOMAIN jobs /\ jobs'[i] = jobs[i]) \/ (i = Len(jobs) + 1 /\ jobs'[i] = s)
      BY <1>2, <3>1
    <3>4. \A i \in DOMAIN jobs : jobs[i] \in Bounds
      BY <1>2
    <3>5. ASSUME NEW i \in DOMAIN jobs'
          PROVE  /\ bound'[jobs'[i]].isResolved
                 /\ \E e \in Late \cap Async : Home[e] = jobs'[i] /\ phase'[e] # "new"
      <4>1. CASE i \in DOMAIN jobs /\ jobs'[i] = jobs[i]
        <5>1. bound[jobs[i]].isResolved /\ \E e \in Late \cap Async : Home[e] = jobs[i] /\ phase[e] # "new"
          BY <4>1 DEF Placed, Due
        <5> QED
          BY <1>3, <1>4, <3>4, <4>1, <5>1, BoundsAssumption
      <4>2. CASE jobs'[i] = s
        BY <1>2, <1>3, <1>4, <2>2, <3>1, <4>2
      <4> QED
        BY <3>3, <4>1, <4>2
    <3>6. ASSUME NEW i \in DOMAIN jobs', NEW k \in DOMAIN jobs', jobs'[i] = jobs'[k]
          PROVE  i = k
      BY <3>2, <3>3, <3>6 DEF Placed, Due
    <3> QED
      BY <3>5, <3>6 DEF Due
  <2> QED
    BY <2>1, <2>2
<1>7. Into'
  <2>1. \A i \in DOMAIN stack : stack[i].kind # "unmount"
    BY NoUnmount DEF MountComponent, Patching, Good
  <2> QED
    BY <1>1, <2>1 DEF Into
<1> QED
  BY <1>5, <1>6, <1>7 DEF Placed

\* The boundaries of a tree that is unmounted need show nothing any more; the
\* others are as they were.
LEMMA UnmountedPlaced ==
  ASSUME Good, Placed, NEW bs, bound' = Unmounted(bs), jobs' = jobs, phase' = phase,
         \A s \in Bounds : Mounting(s)' <=> Mounting(s)
  PROVE  (\A s \in Bounds : Face(s)') /\ Due'
<1>1. \A t \in Bounds :
        /\ bound'[t].state = IF t \in bs /\ Live(t) THEN "unmounted" ELSE bound[t].state
        /\ bound'[t].isResolved = bound[t].isResolved
        /\ bound'[t].content = bound[t].content
        /\ ~(t \in bs /\ Live(t)) => bound'[t].fallback = bound[t].fallback
  BY UnmountedTyped DEF Good, Shape, TypeOK
<1>2. ASSUME NEW t \in Bounds PROVE Face(t)'
  <2>1. CASE t \in bs /\ Live(t)
    BY <1>1, <2>1 DEF Face, Live
  <2>2. CASE ~(t \in bs /\ Live(t))
    BY <1>1, <2>2, FaceSame DEF Placed
  <2> QED
    BY <2>1, <2>2
<1>3. Due'
  BY <1>1, DueSame, BoundsAssumption DEF Good, Placed
<1> QED
  BY <1>2, <1>3

LEMMA RemoveSuspensePlaced ==
  ASSUME Good, Placed, NEW s \in Bounds, RemoveSuspense(s)
  PROVE  Placed'
<1>1. PICK f \in Frame : /\ f = UnmountFrame(InTree(s), Parent(s), "nowhere")
                         /\ f.kind = "unmount" /\ f.into = "nowhere"
  BY FramesMade, ParentTyped, InTreeMounted
<1>2. /\ stack' = Append(stack, f) /\ bound' = Unmounted(Inside(s)) /\ jobs' = jobs /\ phase' = phase
      /\ stack \in Seq(Frame) /\ (~Idle => Top.kind = "patch")
  BY <1>1 DEF RemoveSuspense, Good, Shape, TypeOK
<1>3. \A t \in Bounds : Mounting(t)' <=> Mounting(t)
  BY <1>1, <1>2, MountingPushed
<1>4. \A i \in DOMAIN stack' : (i \in DOMAIN stack /\ stack'[i] = stack[i]) \/ stack'[i] = f
  BY <1>2, Pushed
<1>5. \A i \in DOMAIN stack : stack[i].kind # "unmount"
  BY <1>2, NoUnmount DEF Good
<1>6. Into'
  BY <1>1, <1>4, <1>5 DEF Into
<1> QED
  BY <1>2, <1>3, <1>6, UnmountedPlaced DEF Placed

LEMMA ReplacePlaced ==
  ASSUME Good, Placed, NEW s \in Bounds, ReplaceContent(s)
  PROVE  Placed'
<1> DEFINE into == IF bound[s].isResolved THEN "shown" ELSE "hidden"
<1>1. PICK f \in Frame : f = RenderFrame("patch", s, {}) /\ f.kind = "patch"
  BY FramesMade
<1>2. PICK g \in Frame : /\ g = UnmountFrame(InTree(s), s, into)
                         /\ g.kind = "unmount" /\ g.at = s /\ g.into = into
  BY FramesMade, InTreeMounted
<1>3. /\ stack' = << f, g >> /\ stack = << >> /\ bound' = Unmounted(Inside(s) \ {s})
      /\ jobs' = jobs /\ phase' = phase
  BY <1>1, <1>2 DEF ReplaceContent, Idle
<1>4. DOMAIN stack' = {1, 2} /\ stack'[1] = f /\ stack'[2] = g
  BY <1>3
<1>5. \A t \in Bounds : ~Mounting(t) /\ ~Mounting(t)'
  BY <1>1, <1>2, <1>3, <1>4 DEF Mounting
<1>6. bound'[s].isResolved = bound[s].isResolved
  BY <1>3, UnmountedTyped DEF Good, Shape, TypeOK
<1>7. ASSUME NEW i \in DOMAIN stack', stack'[i].kind = "unmount"
      PROVE  stack'[i].into = IF bound'[stack'[i].at].isResolved THEN "shown" ELSE "hidden"
  <2>1. stack'[i] = g
    BY <1>1, <1>4, <1>7
  <2> QED
    BY <1>2, <1>6, <2>1
<1>8. Into'
  BY <1>7 DEF Into, IntoPlace
<1> QED
  BY <1>3, <1>5, <1>8, UnmountedPlaced DEF Placed

\* The content that replaces other content is where that was.
LEMMA EndUnmountPlaced ==
  ASSUME Good, Placed, EndUnmount
  PROVE  Placed'
<1>1. /\ ~Idle /\ Top.kind = "unmount" /\ stack' = Front(stack) /\ jobs' = jobs /\ phase' = phase
      /\ bound' = (IF Top.into = "nowhere" THEN bound
                   ELSE [bound EXCEPT ![Top.at].content = Top.into])
      /\ stack \in Seq(Frame) /\ stack # << >> /\ StatesKept
  BY StatesStay DEF EndUnmount, Idle, Good, Shape, TypeOK
<1>2. /\ Top = stack[Len(stack)] /\ Len(stack) \in DOMAIN stack /\ Top \in Frame
      /\ Top.into # "nowhere" => Top.at \in Bounds /\ IntoPlace(Top)
  BY <1>1, TopTyped DEF Good, FrameOK, Placed, Into
<1>3. \A i \in DOMAIN stack' : i \in DOMAIN stack /\ stack'[i] = stack[i] /\ i # Len(stack)
  BY <1>1, Popped
<1>4. \A t \in Bounds : Mounting(t)' <=> Mounting(t)
  BY <1>1, MountingPopped DEF Good
<1>5. \A i \in DOMAIN stack' : stack'[i].kind # "unmount"
  BY <1>3 DEF Good, Shape, Frames, FrameOK
<1>6. CASE Top.into = "nowhere"
  BY <1>1, <1>4, <1>5, <1>6, PlacedSame DEF Alike
<1>7. CASE Top.into # "nowhere"
  <2>1. PICK o \in Bounds : o = Top.at
    BY <1>2, <1>7
  <2>2. bound \in [Bounds -> Boundary] /\ bound' = [bound EXCEPT ![o].content = Top.into]
    BY <1>1, <1>7, <2>1 DEF Good, Shape, TypeOK, Boundaries
  <2>3. \A t \in Bounds : /\ bound'[t].isResolved = bound[t].isResolved
                          /\ bound'[t].fallback = bound[t].fallback
                          /\ bound'[t].content = IF t = o THEN Top.into ELSE bound[t].content
    BY <2>2 DEF Boundary
  <2>4. Top.into = IF bound[o].isResolved THEN "shown" ELSE "hidden"
    BY <1>2, <1>7, <2>1 DEF IntoPlace
  <2>5. ASSUME NEW t \in Bounds PROVE Face(t)'
    <3>1. Face(t) /\ bound'[t].state = bound[t].state
      BY <1>1 DEF Placed, StatesKept
    <3>2. (Live(t) \/ bound[t].state = "new") => bound'[t].content = bound[t].content
      BY <2>3, <2>4, <3>1 DEF Face
    <3> QED
      BY <1>4, <2>3, <3>1, <3>2 DEF Face, Live
  <2>6. Due'
    BY <1>1, <2>3, DueSame, BoundsAssumption DEF Good, Placed
  <2>7. Into'
    BY <1>5 DEF Into
  <2> QED
    BY <2>5, <2>6, <2>7 DEF Placed
<1> QED
  BY <1>6, <1>7

\* A boundary recedes, once: its content goes and its fallback comes.
LEMMA RecedePlaced ==
  ASSUME Good, Placed, Recede
  PROVE  Placed'
<1>1. /\ phase' = phase /\ jobs' = Tail(jobs) /\ jobs # << >> /\ stack = << >> /\ stack' = stack
      /\ jobs \in Seq(Bounds) /\ StatesKept
  BY StatesStay DEF Recede, Idle, Good, Shape, TypeOK
<1>2. PICK h \in Bounds : h = Head(jobs) /\ bound' = [bound EXCEPT ![h] = Hidden(@)]
  <2>1. Head(jobs) \in Bounds
    BY <1>1
  <2> QED
    BY <2>1 DEF Recede
<1>3. /\ bound'[h] = Hidden(bound[h]) /\ bound[h] \in Boundary
      /\ \A t \in Bounds : t # h => bound'[t] = bound[t]
  BY <1>2 DEF Good, Shape, TypeOK, Boundaries
<1>4. h = jobs[1] /\ 1 \in DOMAIN jobs
  BY <1>1, <1>2
<1>5. bound[h].isResolved
  BY <1>4 DEF Placed, Due
<1>6. \A t \in Bounds : ~Mounting(t) /\ ~Mounting(t)'
  BY <1>1 DEF Mounting
<1>7. ASSUME NEW t \in Bounds PROVE Face(t)'
  <2>1. Face(t) /\ bound'[t].state = bound[t].state
    BY <1>1 DEF Placed, StatesKept
  <2>2. CASE t = h
    <3>1. Live(t) => bound[t].fallback = 0
      BY <1>5, <1>6, <2>1, <2>2 DEF Face
    <3>2. ~bound'[t].isResolved /\ bound'[t].content = "hidden"
          /\ bound'[t].fallback = bound[t].fallback + 1
      BY <1>3, <2>2, HiddenKeeps
    <3>3. bound[t].state # "new"
      BY <1>5, <2>1, <2>2 DEF Face
    <3> QED
      BY <1>6, <2>1, <3>1, <3>2, <3>3 DEF Face, Live
  <2>3. CASE t # h
    BY <1>3, <1>6, <2>1, <2>3, FaceSame
  <2> QED
    BY <2>2, <2>3
<1>8. Due'
  <2>1. \A i \in DOMAIN jobs' : i + 1 \in DOMAIN jobs /\ jobs'[i] = jobs[i + 1] /\ i \in Nat
    BY <1>1
  <2>2. ASSUME NEW i \in DOMAIN jobs'
        PROVE  /\ bound'[jobs'[i]].isResolved
               /\ \E c \in Late \cap Async : Home[c] = jobs'[i] /\ phase'[c] # "new"
    <3>1. jobs[i + 1] # h /\ jobs[i + 1] \in Bounds
      <4>1. jobs[i + 1] = jobs[1] => i + 1 = 1
        BY <1>4, <2>1 DEF Placed, Due
      <4> QED
        BY <1>1, <1>4, <2>1, <4>1
    <3>2. /\ bound[jobs[i + 1]].isResolved
          /\ \E c \in Late \cap Async : Home[c] = jobs[i + 1] /\ phase[c] # "new"
      BY <2>1 DEF Placed, Due
    <3> QED
      BY <1>1, <1>3, <2>1, <3>1, <3>2
  <2>3. ASSUME NEW i \in DOMAIN jobs', NEW k \in DOMAIN jobs', jobs'[i] = jobs'[k]
        PROVE  i = k
    <3>1. jobs[i + 1] = jobs[k + 1]
      BY <2>1, <2>3
    <3>2. i + 1 = k + 1
      BY <2>1, <3>1 DEF Placed, Due
    <3> QED
      BY <2>1, <3>2
  <2> QED
    BY <2>2, <2>3 DEF Due
<1>9. Into'
  BY <1>1 DEF Into
<1> QED
  BY <1>7, <1>8, <1>9 DEF Placed

LEMMA PlacedStep ==
  ASSUME SingleLate, Good, Placed, [Next]_vars
  PROVE  Placed'
<1>1. CASE UNCHANGED vars
  BY <1>1 DEF vars, Placed, Face, Live, Mounting, Due, Into, IntoPlace
<1>2. ASSUME NEW s \in Bounds,
             MountSuspense(s) \/ PatchSuspense(s) \/ ReplaceContent(s) \/ RemoveSuspense(s)
      PROVE  Placed'
  BY <1>2, MountPlaced, PlainPlaced, ReplacePlaced, RemoveSuspensePlaced
<1>3. ASSUME NEW c \in Comps,
             MountComponent(c) \/ RemoveComponent(c) \/ Reject(c) \/ UnmountNext(c) \/ Settle(c)
      PROVE  Placed'
  BY <1>3, PlainPlaced, RegisterPlaced, RemovePlaced, UnmountNextPlaced DEF MountComponent
<1>4. CASE EndMount \/ EndPatch \/ EndUnmount \/ EndSettle \/ Recede \/ FlushPosts
  BY <1>4, EndMountPlaced, PlainPlaced, EndUnmountPlaced, EndSettlePlaced, RecedePlaced
<1> QED
  BY <1>1, <1>2, <1>3, <1>4 DEF Next, Synchronous, EventLoop

\* Between two renders a mounted boundary shows its content or its fallback, never
\* both or neither, and one fallback at most.
THEOREM OneFace == ASSUME Orderly, SingleLate PROVE Spec => []ShowsOne
<1>1. Init => Placed
  BY DEF Init, Placed, Face, Live, Due, Into
<1>2. Orderly /\ Good /\ [Next]_vars => Good'
  BY GoodStep
<1>3. SingleLate /\ Good /\ Placed /\ [Next]_vars => Placed'
  BY PlacedStep
<1>4. Placed => ShowsOne
  <2>1. Idle => \A s \in Bounds : ~Mounting(s)
    BY DEF Idle, Mounting
  <2> QED
    BY <2>1 DEF Placed, Face, ShowsOne
<1> QED
  BY InitGood, <1>1, <1>2, <1>3, <1>4, PTL DEF Spec

================================================================================
