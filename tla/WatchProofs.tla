------------------------------ MODULE WatchProofs ------------------------------
(***************************************************************************)
(* Proofs about Watch: what holds of any number of watchers, made with any  *)
(* options by scripts and by setup(), over any cells.                       *)
(*                                                                         *)
(* All of it rests on one fact about the stack: no watcher runs inside      *)
(* itself. A trigger that runs its effects on the spot never has an effect  *)
(* to run that is running below it (Quiet), because what code above a       *)
(* synchronous watcher writes is nothing that watcher reads.                *)
(***************************************************************************)
EXTENDS Watch, FiniteSetTheorems, SequenceTheorems, WellFoundedInduction, TLAPS

--------------------------------------------------------------------------------
(* The inductive invariant. *)

Readings == UNION {[S -> {0, 1}] : S \in SUBSET Cells}
Vals == Readings \cup {Undefined, Initial}
Effects == Watchers \cup {Owner}
RunFrames == [at : {"cb", "effect"}, w : Watchers, new : Vals, old : Vals, registered : BOOLEAN]
TriggerFrames == [at : {"trigger"}, todo : Seq(Effects)]
PostFrames == [at : {"posts"}, of : {"render", "flush"}, todo : Seq(Watchers \cup {IsUnmounted})]
Frames == RunFrames \cup TriggerFrames \cup PostFrames \cup [at : {"made"}, w : Watchers]
            \cup [at : {"setup", "jobs"}]

Typed ==
  /\ option \in Setups
  /\ life \in [Watchers -> {"new", "making", "active", "stopped"}]
  /\ oldValue \in [Watchers -> Vals] /\ told \in [Watchers -> Vals]
  /\ cleanup \in [Watchers -> {"none", "new", "used", "late"}]
  /\ cells \in [Cells -> {0, 1}]
  /\ dep \in [Cells -> Seq(Effects)]
  /\ owner \in {"new", "setup", "mounted", "removed", "unmounted"} /\ show \in BOOLEAN
  /\ queue \in Seq(Effects \cup {Parent}) /\ posts \in Seq(Watchers \cup {IsUnmounted})
  /\ stack \in Seq(Frames)

IsRun(i) == stack[i].at \in {"cb", "effect"}
RunsOf(w) == {i \in DOMAIN stack : IsRun(i) /\ stack[i].w = w}
InTrigger(e) == \E i \in DOMAIN stack : stack[i].at = "trigger" /\ e \in ToSet(stack[i].todo)
InPosts(p) ==
  p \in ToSet(posts) \/ \E i \in DOMAIN stack : stack[i].at = "posts" /\ p \in ToSet(stack[i].todo)

\* What waits for what: flushes and setup() are at the bottom, doWatch returns at
\* once, and a watchEffect runs as an effect, a watch as a callback.
Shape ==
  \A i \in DOMAIN stack :
    /\ stack[i].at \in {"jobs", "setup"} => i = 1
    /\ stack[i].at = "setup" => owner = "setup"
    /\ stack[i].at = "posts" => \A k \in 1..(i - 1) : stack[k].at = "jobs"
    /\ stack[i].at = "made" => i = Len(stack) /\ life[stack[i].w] = "making"
    /\ IsRun(i) => (stack[i].at = "cb" <=> HasCb(stack[i].w))

\* The component is removed once it is mounted, and its watchers with it.
Lives ==
  /\ owner \notin {"new", "setup"} => \A w \in Watchers : Owned(w) => life[w] # "new"
  /\ owner \in {"removed", "unmounted"} => \A w \in Watchers : Owned(w) => ~Active(w)
  /\ Parent \in ToSet(queue) => owner \notin {"new", "setup"}
  /\ InPosts(IsUnmounted) => owner \in {"removed", "unmounted"}

\* Who is in the deps.
Subscribed ==
  \A c \in Cells :
    /\ \A w \in Watchers : w \in ToSet(dep[c]) <=> Active(w) /\ c \in option[w].source
    /\ owner = "mounted" /\ c \in Rendered => Owner \in ToSet(dep[c])

\* A watcher runs once at a time ...
Alone == \A i, k \in DOMAIN stack : IsRun(i) /\ IsRun(k) /\ stack[i].w = stack[k].w => i = k

\* ... since no trigger above a synchronous one has it to run.
Quiet ==
  \A k \in DOMAIN stack : stack[k].at = "trigger" =>
    \A i \in 1..(k - 1) :
      IsRun(i) /\ (stack[i].at = "effect" \/ Sync(stack[i].w)) => stack[i].w \notin ToSet(stack[k].todo)

\* What a callback is going to leave as the old value, or has left.
Remembers ==
  /\ \A i \in DOMAIN stack : stack[i].at = "cb" => stack[i].new = told[stack[i].w]
  /\ \A w \in Watchers : HasCb(w) /\ Active(w) /\ RunsOf(w) = {} => oldValue[w] = told[w]

\* Who has not been told of the latest values waits to be.
Waiting ==
  \A w \in Watchers : Active(w) /\ told[w] # Read(w) =>
    InTrigger(w) \/ (~Sync(w) /\ (w \in ToSet(queue) \/ InPosts(w)))
Rendering ==
  owner = "mounted" /\ ~(Owner \in ToSet(queue)) /\ ~InTrigger(Owner) =>
    \A c \in Rendered : shown[c] = cells[c]

Inv ==
  /\ Typed /\ Shape /\ Lives /\ Subscribed /\ Alone /\ Quiet /\ Remembers
  /\ CleanedUp /\ Waiting /\ Rendering

--------------------------------------------------------------------------------
(* The operators on sequences. *)

\* The entries of a sequence, of which Picked keeps those at the given places:
\* the ranks of the places are the numbers up to how many they are.
LEMMA PickedEntries ==
  ASSUME NEW S, NEW s \in Seq(S), NEW P \in SUBSET DOMAIN s
  PROVE  Picked(s, P) \in Seq(S) /\ ToSet(Picked(s, P)) = {s[i] : i \in P}
<1> DEFINE n == Cardinality(P)
           Upto(i) == {j \in P : j <= i}
           rank == [i \in P |-> Cardinality(Upto(i))]
<1>1. IsFiniteSet(P) /\ n \in Nat /\ P \subseteq Nat
  <2>1. DOMAIN s = 1..Len(s) /\ IsFiniteSet(1..Len(s))
    BY FS_Interval
  <2>2. IsFiniteSet(P)
    BY <2>1, FS_Subset
  <2> QED
    BY <2>1, <2>2, FS_CardinalityType
<1>2. \A i \in P : IsFiniteSet(Upto(i)) /\ Cardinality(Upto(i)) \in 1..n
  <2> TAKE i \in P
  <2>1. Upto(i) \in SUBSET P /\ i \in Upto(i)
    BY <1>1
  <2> HIDE DEF Upto
  <2>2. IsFiniteSet(Upto(i)) /\ Cardinality(Upto(i)) <= n /\ Cardinality(Upto(i)) \in Nat
    BY <1>1, <2>1, FS_Subset, FS_CardinalityType
  <2>3. Cardinality(Upto(i)) # 0
    BY <2>1, <2>2, FS_EmptySet
  <2> QED
    BY <1>1, <2>2, <2>3
<1>3. \A i, k \in P : i < k => Cardinality(Upto(i)) # Cardinality(Upto(k))
  <2> SUFFICES ASSUME NEW i \in P, NEW k \in P, i < k,
                      Cardinality(Upto(i)) = Cardinality(Upto(k)) PROVE FALSE
    OBVIOUS
  <2>1. Upto(i) \in SUBSET Upto(k) /\ k \in Upto(k) /\ k \notin Upto(i)
    BY <1>1
  <2>2. IsFiniteSet(Upto(k))
    BY <1>2
  <2> HIDE DEF Upto
  <2> QED
    BY <2>1, <2>2, FS_Subset
<1>4. rank \in Injection(P, 1..n)
  <2>1. rank \in [P -> 1..n] /\ \A i \in P : rank[i] = Cardinality(Upto(i))
    BY <1>2
  <2>2. ASSUME NEW i \in P, NEW k \in P, rank[i] = rank[k] PROVE i = k
    <3> HIDE DEF rank, Upto
    <3>1. Cardinality(Upto(i)) = Cardinality(Upto(k))
      BY <2>1, <2>2
    <3>2. ~(i < k) /\ ~(k < i)
      BY <1>3, <3>1
    <3> QED
      BY <1>1, <3>2
  <2> HIDE DEF rank
  <2>3. \A i, k \in P : rank[i] = rank[k] => i = k
    BY <2>2
  <2> QED
    BY <2>1, <2>3, Zenon DEF Injection, IsInjective
<1>5. rank \in Surjection(P, 1..n)
  <2>1. IsFiniteSet(1..n) /\ Cardinality(1..n) = n
    BY <1>1, FS_Interval
  <2> HIDE DEF rank
  <2> QED
    BY <1>4, <2>1, FS_Injection
<1>6. \A k \in 1..n : \E i \in P : Cardinality(Upto(i)) = k
  BY <1>5 DEF Surjection
<1> DEFINE Nth(k) == CHOOSE i \in P : Cardinality(Upto(i)) = k
<1>7. \A k \in 1..n : Nth(k) \in P /\ Cardinality(Upto(Nth(k))) = k
  BY <1>6
<1>8. \A i \in P : Nth(Cardinality(Upto(i))) = i
  <2> TAKE i \in P
  <2> DEFINE k == Nth(Cardinality(Upto(i)))
  <2>1. k \in P /\ Cardinality(Upto(k)) = Cardinality(Upto(i))
    BY <1>2, <1>7
  <2> HIDE DEF k, Upto
  <2>2. ~(k < i) /\ ~(i < k)
    BY <1>3, <2>1
  <2>3. k = i
    BY <1>1, <2>1, <2>2
  <2> QED
    BY <2>3 DEF k
<1>9. Picked(s, P) = [k \in 1..n |-> s[Nth(k)]]
  BY DEF Picked
<1> HIDE DEF Nth, Upto
<1>10. Picked(s, P) \in Seq(S) /\ DOMAIN Picked(s, P) = 1..n
  BY <1>1, <1>7, <1>9
<1> QED
  BY <1>2, <1>7, <1>8, <1>9, <1>10 DEF ToSet

LEMMA WithoutEntries ==
  ASSUME NEW S, NEW s \in Seq(S), NEW X
  PROVE  Without(s, X) \in Seq(S) /\ ToSet(Without(s, X)) = ToSet(s) \ X
<1> DEFINE P == {i \in DOMAIN s : s[i] \notin X}
<1>1. Picked(s, P) \in Seq(S) /\ ToSet(Picked(s, P)) = {s[i] : i \in P}
  BY PickedEntries
<1>2. {s[i] : i \in P} = ToSet(s) \ X
  BY DEF ToSet
<1> QED
  BY <1>1, <1>2 DEF Without

LEMMA DeduplicatedEntries ==
  ASSUME NEW S, NEW s \in Seq(S)
  PROVE  Deduplicated(s) \in Seq(S) /\ ToSet(Deduplicated(s)) = ToSet(s)
<1> DEFINE P == {i \in DOMAIN s : \A j \in 1..(i - 1) : s[j] # s[i]}
<1>1. Picked(s, P) \in Seq(S) /\ ToSet(Picked(s, P)) = {s[i] : i \in P}
  BY PickedEntries
<1>2. ASSUME NEW x \in ToSet(s) PROVE \E i \in P : s[i] = x
  <2>1. PICK m \in DOMAIN s : s[m] = x
    BY DEF ToSet
  <2> DEFINE Q == {i \in DOMAIN s : s[i] = x}
  <2>2. Q # {} /\ Q \in SUBSET Nat
    BY <2>1
  <2>3. PICK i \in Q : \A j \in Q : i <= j
    <3> HIDE DEF Q
    <3>1. PICK i \in Q : \A j \in Q : <<j, i>> \notin OpToRel(<, Nat)
      BY <2>2, WFMin, NatLessThanWellFounded, Zenon
    <3>2. \A j \in Q : ~(j < i)
      BY <2>2, <3>1, Zenon DEF OpToRel
    <3> QED
      BY <2>2, <3>2
  <2>4. i \in P
    BY <2>3
  <2> QED
    BY <2>3, <2>4
<1>3. {s[i] : i \in P} = ToSet(s)
  BY <1>2 DEF ToSet
<1> QED
  BY <1>1, <1>3 DEF Deduplicated

\* The entries of sequences as they grow and shrink.
LEMMA AppendEntries ==
  ASSUME NEW S, NEW s \in Seq(S), NEW x \in S
  PROVE  /\ Append(s, x) \in Seq(S) /\ ToSet(Append(s, x)) = ToSet(s) \cup {x}
         /\ Contains(s, x) <=> x \in ToSet(s)
<1>1. /\ Append(s, x) \in Seq(S) /\ Len(Append(s, x)) = Len(s) + 1
      /\ \A i \in 1..Len(s) : Append(s, x)[i] = s[i]
      /\ Append(s, x)[Len(s) + 1] = x
  OBVIOUS
<1>2. ToSet(Append(s, x)) = ToSet(s) \cup {x}
  BY <1>1 DEF ToSet
<1> QED
  BY <1>1, <1>2 DEF Contains, ToSet

LEMMA HeadTailEntries ==
  ASSUME NEW S, NEW s \in Seq(S), s # << >>
  PROVE  Head(s) \in S /\ Tail(s) \in Seq(S) /\ ToSet(s) = {Head(s)} \cup ToSet(Tail(s))
<1>1. /\ Len(s) > 0 /\ Head(s) = s[1] /\ Tail(s) \in Seq(S) /\ Len(Tail(s)) = Len(s) - 1
      /\ \A i \in 1..(Len(s) - 1) : Tail(s)[i] = s[i + 1]
  OBVIOUS
<1>2. ToSet(s) \subseteq {Head(s)} \cup ToSet(Tail(s))
  <2>1. ASSUME NEW i \in 1..Len(s), i # 1 PROVE s[i] \in ToSet(Tail(s))
    <3>1. i - 1 \in 1..(Len(s) - 1) /\ (i - 1) + 1 = i
      BY <2>1
    <3>2. Tail(s)[i - 1] = s[i] /\ i - 1 \in DOMAIN Tail(s)
      BY <1>1, <3>1
    <3> QED
      BY <3>2 DEF ToSet
  <2> QED
    BY <1>1, <2>1 DEF ToSet
<1>3. {Head(s)} \cup ToSet(Tail(s)) \subseteq ToSet(s)
  BY <1>1 DEF ToSet
<1> QED
  BY <1>1, <1>2, <1>3

LEMMA ConcatEntries ==
  ASSUME NEW S, NEW s \in Seq(S), NEW t \in Seq(S)
  PROVE  s \o t \in Seq(S) /\ ToSet(s \o t) = ToSet(s) \cup ToSet(t)
<1>1. /\ s \o t \in Seq(S) /\ Len(s \o t) = Len(s) + Len(t)
      /\ \A i \in 1..Len(s) : (s \o t)[i] = s[i]
      /\ \A i \in 1..Len(t) : (s \o t)[Len(s) + i] = t[i]
  OBVIOUS
<1>2. ASSUME NEW i \in 1..(Len(s) + Len(t)) PROVE (s \o t)[i] \in ToSet(s) \cup ToSet(t)
  <2>1. CASE i <= Len(s)
    BY <1>1, <2>1 DEF ToSet
  <2>2. CASE i > Len(s)
    <3>1. i - Len(s) \in 1..Len(t) /\ Len(s) + (i - Len(s)) = i
      BY <2>2
    <3>2. (s \o t)[i] = t[i - Len(s)]
      BY <1>1, <3>1
    <3> QED
      BY <3>1, <3>2 DEF ToSet
  <2> QED
    BY <2>1, <2>2
<1>3. ASSUME NEW i \in 1..Len(t) PROVE t[i] \in ToSet(s \o t)
  <2>1. Len(s) + i \in 1..Len(s \o t) /\ (s \o t)[Len(s) + i] = t[i]
    BY <1>1
  <2> QED
    BY <2>1 DEF ToSet
<1>4. \A i \in 1..Len(s) : s[i] \in ToSet(s \o t)
  BY <1>1 DEF ToSet
<1>5. ToSet(s \o t) \subseteq ToSet(s) \cup ToSet(t)
  <2>1. DOMAIN (s \o t) = 1..(Len(s) + Len(t))
    BY <1>1
  <2>2. SUFFICES ASSUME NEW x \in ToSet(s \o t) PROVE x \in ToSet(s) \cup ToSet(t)
    BY Zenon
  <2>3. PICK i \in DOMAIN (s \o t) : x = (s \o t)[i]
    BY <2>2, Zenon DEF ToSet
  <2>4. i \in 1..(Len(s) + Len(t))
    BY <2>1, <2>3, Zenon
  <2> QED
    BY <1>2, <2>3, <2>4, Zenon
<1>6. ToSet(s) \cup ToSet(t) \subseteq ToSet(s \o t)
  <2>1. ToSet(s) = {s[i] : i \in 1..Len(s)} /\ ToSet(t) = {t[i] : i \in 1..Len(t)}
    BY DEF ToSet
  <2> QED
    BY <1>3, <1>4, <2>1, Zenon
<1> QED
  BY <1>1, <1>5, <1>6

LEMMA SortedEntries ==
  ASSUME NEW S, NEW q \in Seq(S), NEW s \in Sorted(q)
  PROVE  s \in Seq(S) /\ ToSet(s) = ToSet(q)
<1>1. /\ s \in [1..Len(q) -> ToSet(q)]
      /\ \A x \in ToSet(q) : \E i \in 1..Len(q) : s[i] = x
  BY DEF Sorted, Bijection, Injection, Surjection
<1>2. ToSet(q) \subseteq S /\ Len(q) \in Nat
  BY DEF ToSet
<1>3. s \in Seq(S) /\ DOMAIN s = 1..Len(q)
  BY <1>1, <1>2
<1> QED
  BY <1>1, <1>3 DEF ToSet

\* Frames on top of a stack.
Over(st, n, f) == st \in Seq(Frames) /\ Len(st) = n /\ n \in DOMAIN st /\ st[n] = f
LEMMA Pushed ==
  ASSUME NEW st \in Seq(Frames), NEW f \in Frames
  PROVE  /\ Over(Append(st, f), Len(st) + 1, f)
         /\ \A i \in DOMAIN st : Append(st, f)[i] = st[i]
BY DEF Over

LEMMA Under ==
  ASSUME stack \in Seq(Frames), stack # << >>
  PROVE  /\ Len(stack) \in Nat \ {0} /\ Len(stack) \in DOMAIN stack /\ Top = stack[Len(stack)]
         /\ Top \in Frames
         /\ Below \in Seq(Frames) /\ Len(Below) = Len(stack) - 1
         /\ \A i \in 1..(Len(stack) - 1) : Below[i] = stack[i]
BY DEF Top, Last, Below, Front

LEMMA Replaced ==
  ASSUME stack \in Seq(Frames), stack # << >>, NEW g \in Frames
  PROVE  /\ Over(Append(Below, g), Len(stack), g)
         /\ \A i \in 1..(Len(stack) - 1) : Append(Below, g)[i] = stack[i]
<1>1. (Len(stack) - 1) + 1 = Len(stack) /\ DOMAIN Below = 1..(Len(stack) - 1)
  BY Under
<1>2. /\ Over(Append(Below, g), Len(Below) + 1, g)
      /\ \A i \in DOMAIN Below : Append(Below, g)[i] = Below[i]
  BY Under, Pushed
<1> QED
  BY <1>1, <1>2, Under

--------------------------------------------------------------------------------
(* Values, deps and triggers. *)

LEMMA Pairs ==
  ASSUME NEW x, NEW y PROVE Cardinality({x, y}) <= 2
<1>1. IsFiniteSet({x}) /\ Cardinality({x}) = 1
  BY FS_Singleton
<1>2. IsFiniteSet({x} \cup {y}) /\ Cardinality({x} \cup {y}) <= 2
  BY <1>1, FS_AddElement
<1>3. {x} \cup {y} = {x, y}
  OBVIOUS
<1> QED
  BY <1>2, <1>3

LEMMA Constants ==
  /\ Watchers \subseteq Nat /\ Rendered \subseteq Cells
  /\ Owner \notin Watchers /\ Parent \notin Watchers /\ IsUnmounted \notin Watchers
  /\ Owner # Parent /\ Owner # IsUnmounted /\ Parent # IsUnmounted
<1>1. Cardinality({Owner, Parent, IsUnmounted}) = 3
  BY WatchersAssumption
<1>2. Owner # Parent
  <2>1. Owner = Parent => {Owner, Parent, IsUnmounted} = {Owner, IsUnmounted}
    OBVIOUS
  <2>2. Cardinality({Owner, IsUnmounted}) <= 2
    BY Pairs
  <2> QED
    BY <1>1, <2>1, <2>2
<1>3. Owner # IsUnmounted
  <2>1. Owner = IsUnmounted => {Owner, Parent, IsUnmounted} = {Owner, Parent}
    OBVIOUS
  <2>2. Cardinality({Owner, Parent}) <= 2
    BY Pairs
  <2> QED
    BY <1>1, <2>1, <2>2
<1>4. Parent # IsUnmounted
  <2>1. Parent = IsUnmounted => {Owner, Parent, IsUnmounted} = {Owner, Parent}
    OBVIOUS
  <2>2. Cardinality({Owner, Parent}) <= 2
    BY Pairs
  <2> QED
    BY <1>1, <2>1, <2>2
<1> QED
  BY <1>2, <1>3, <1>4, WatchersAssumption

LEMMA OptionType ==
  ASSUME Typed, NEW w \in Watchers
  PROVE  option[w] \in Options /\ option[w].source \subseteq Cells
<1>1. option \in [Watchers -> Options]
  BY WatchersAssumption DEF Typed
<1> QED
  BY <1>1 DEF Options

LEMMA ReadType ==
  ASSUME Typed, NEW w \in Watchers
  PROVE  Read(w) \in Vals /\ Value(w) \in Vals
<1>1. Read(w) \in [option[w].source -> {0, 1}]
  BY OptionType DEF Read, Typed
<1>2. option[w].source \in SUBSET Cells
  BY OptionType
<1>3. Read(w) \in Readings
  BY <1>1, <1>2, Zenon DEF Readings
<1> QED
  BY <1>3 DEF Vals, Value

\* An effect that is tracked is in the deps of what it reads and in no other.
LEMMA TrackedEntries ==
  ASSUME Typed, NEW e \in Effects, NEW source
  PROVE  /\ Tracked(e, source) \in [Cells -> Seq(Effects)]
         /\ \A c \in Cells, m \in Effects :
              m \in ToSet(Tracked(e, source)[c]) <=>
                IF m = e THEN c \in source ELSE m \in ToSet(dep[c])
<1> DEFINE others(c) == Without(dep[c], {e})
<1>1. \A c \in Cells : others(c) \in Seq(Effects) /\ ToSet(others(c)) = ToSet(dep[c]) \ {e}
  BY WithoutEntries DEF Typed
<1>2. \A c \in Cells : Tracked(e, source)[c] = IF c \in source THEN Append(others(c), e) ELSE others(c)
  BY DEF Tracked
<1> HIDE DEF others
<1>3. \A c \in Cells : /\ Append(others(c), e) \in Seq(Effects)
                       /\ ToSet(Append(others(c), e)) = ToSet(others(c)) \cup {e}
  BY <1>1, AppendEntries
<1>4. Tracked(e, source) = [c \in Cells |-> IF c \in source THEN Append(others(c), e) ELSE others(c)]
  BY DEF Tracked, others
<1>5. Tracked(e, source) \in [Cells -> Seq(Effects)]
  BY <1>1, <1>3, <1>4
<1>6. ASSUME NEW c \in Cells, NEW m \in Effects
      PROVE  m \in ToSet(Tracked(e, source)[c]) <=>
               IF m = e THEN c \in source ELSE m \in ToSet(dep[c])
  <2>1. CASE c \in source
    <3>1. ToSet(Tracked(e, source)[c]) = (ToSet(dep[c]) \ {e}) \cup {e}
      BY <1>1, <1>2, <1>3, <2>1
    <3> QED
      BY <2>1, <3>1
  <2>2. CASE c \notin source
    <3>1. ToSet(Tracked(e, source)[c]) = ToSet(dep[c]) \ {e}
      BY <1>1, <1>2, <2>2
    <3> QED
      BY <2>2, <3>1
  <2> QED
    BY <2>1, <2>2
<1> QED
  BY <1>5, <1>6

\* A trigger is for all in the dep but the effect that writes.
LEMMA TriggeredEntries ==
  ASSUME Typed, NEW c \in Cells
  PROVE  /\ Triggered(c) \in Seq(Effects)
         /\ ToSet(Triggered(c)) = ToSet(dep[c]) \ ActiveEffect
<1>1. ActiveEffect \subseteq Watchers
  <2>1. \A i \in DOMAIN stack : stack[i] \in Frames
    BY DEF Typed
  <2>2. \A i \in DOMAIN stack : stack[i].at = "effect" => stack[i].w \in Watchers
    BY <2>1 DEF Frames, RunFrames, TriggerFrames, PostFrames
  <2> QED
    BY <2>2, Zenon DEF ActiveEffect
<1> DEFINE s == Without(dep[c], ActiveEffect \cup {Owner})
           t == Without(dep[c], ActiveEffect \cup Watchers)
<1>2. /\ s \in Seq(Effects) /\ ToSet(s) = ToSet(dep[c]) \ (ActiveEffect \cup {Owner})
      /\ t \in Seq(Effects) /\ ToSet(t) = ToSet(dep[c]) \ (ActiveEffect \cup Watchers)
  BY WithoutEntries DEF Typed
<1>3. Triggered(c) = s \o t
  BY DEF Triggered
<1>4. ToSet(dep[c]) \subseteq Effects
  BY DEF Typed, ToSet
<1> HIDE DEF s, t
<1>5. s \o t \in Seq(Effects) /\ ToSet(s \o t) = ToSet(s) \cup ToSet(t)
  BY <1>2, ConcatEntries
<1> QED
  BY <1>1, <1>2, <1>3, <1>4, <1>5, Constants DEF Effects

--------------------------------------------------------------------------------
(* Running a watcher that does not run yet. *)

SameDeps ==
  /\ dep' \in [Cells -> Seq(Effects)]
  /\ \A c \in Cells, m \in Effects : m \in ToSet(dep'[c]) <=> m \in ToSet(dep[c])
Began(w, st, f) ==
  /\ f \in RunFrames /\ f.w = w /\ f.registered = FALSE /\ f.old = oldValue[w]
  /\ f.at = IF HasCb(w) THEN "cb" ELSE "effect"
  /\ stack' = Append(st, f)
  /\ told' = [told EXCEPT ![w] = f.new]
  /\ cleanup' = Cleaned(w)
  /\ Active(w) => f.new = Read(w)
Skipped(w, st) ==
  /\ stack' = st /\ UNCHANGED << told, cleanup >>
  /\ Active(w) => told[w] = Read(w)

LEMMA SameIfTracked ==
  ASSUME Typed, Subscribed, NEW w \in Watchers, Active(w), dep' = Tracked(w, option[w].source)
  PROVE  SameDeps
<1> DEFINE source == option[w].source
<1>1. w \in Effects
  BY DEF Effects
<1>2. /\ dep' \in [Cells -> Seq(Effects)]
      /\ \A c \in Cells, m \in Effects :
           m \in ToSet(dep'[c]) <=> IF m = w THEN c \in source ELSE m \in ToSet(dep[c])
  BY <1>1, TrackedEntries, ZenonT(40)
<1>3. \A c \in Cells : w \in ToSet(dep[c]) <=> c \in source
  BY DEF Subscribed
<1> HIDE DEF source
<1>4. \A c \in Cells, m \in Effects : m \in ToSet(dep'[c]) <=> m \in ToSet(dep[c])
  BY <1>2, <1>3
<1> QED
  BY <1>2, <1>4 DEF SameDeps

RunFrame(f, at, w, new) ==
  /\ f \in RunFrames /\ f.w = w /\ f.registered = FALSE /\ f.old = oldValue[w]
  /\ f.new = new /\ f.at = at
LEMMA FrameType ==
  ASSUME Typed, NEW at \in {"cb", "effect"}, NEW w \in Watchers, NEW new \in Vals
  PROVE  RunFrame(Frame(at, w, new), at, w, new)
<1>1. oldValue[w] \in Vals
  BY DEF Typed
<1> QED
  BY <1>1 DEF Frame, RunFrame, RunFrames

LEMMA Runs ==
  ASSUME Typed, Subscribed, Lives, Remembers, NEW w \in Watchers, NEW st,
         RunsOf(w) = {}, Run(w, st)
  PROVE  SameDeps /\ ((\E f : Began(w, st, f)) \/ Skipped(w, st))
<1>1. UNCHANGED dep => SameDeps
  BY DEF SameDeps, Typed
<1>2. Owned(w) /\ owner = "unmounted" => ~Active(w)
  BY DEF Lives
<1>3. ~OnEffectStack(w)
  BY Zenon DEF RunsOf, IsRun, OnEffectStack
<1>4. Read(w) \in Vals /\ Value(w) \in Vals
  BY ReadType
<1>5. CASE ~HasCb(w)
  <2>1. RunEffect(w, st)
    BY <1>5 DEF Run
  <2>2. CASE ~Active(w) \/ (Owned(w) /\ owner = "unmounted")
    BY <1>1, <1>2, <2>1, <2>2 DEF RunEffect, Skipped
  <2>3. CASE Active(w) /\ ~(Owned(w) /\ owner = "unmounted")
    <3> DEFINE f == Frame("effect", w, Read(w))
    <3>1. /\ dep' = Tracked(w, option[w].source) /\ cleanup' = Cleaned(w)
          /\ told' = [told EXCEPT ![w] = Read(w)] /\ stack' = Append(st, f)
      BY <1>3, <2>1, <2>3 DEF RunEffect
    <3>2. "effect" \in {"cb", "effect"}
      OBVIOUS
    <3>5. RunFrame(f, "effect", w, Read(w))
      BY <1>4, <3>2, FrameType, Zenon
    <3> HIDE DEF f
    <3>3. SameDeps
      BY <2>3, <3>1, SameIfTracked
    <3>4. Began(w, st, f)
      BY <1>5, <3>1, <3>5, Zenon DEF Began, RunFrame
    <3> QED
      BY <3>3, <3>4
  <2> QED
    BY <2>2, <2>3
<1>6. CASE HasCb(w)
  <2>1. ApplyCb(w, st)
    BY <1>6 DEF Run
  <2>2. CASE Owned(w) /\ owner = "unmounted"
    BY <1>1, <1>2, <2>1, <2>2 DEF ApplyCb, Skipped
  <2>3. CASE ~(Owned(w) /\ owner = "unmounted")
    <3>1. SameDeps
      BY <1>1, <2>1, <2>3, SameIfTracked DEF ApplyCb, Reads
    <3>2. CASE ~HasChanged(w, Value(w))
      <4>1. stack' = st /\ UNCHANGED << cleanup, told >>
        BY <2>1, <2>3, <3>2 DEF ApplyCb
      <4>2. Active(w) => told[w] = Read(w)
        BY <1>6, <3>2 DEF HasChanged, Value, Remembers
      <4> QED
        BY <3>1, <4>1, <4>2 DEF Skipped
    <3>3. CASE HasChanged(w, Value(w))
      <4> DEFINE f == Frame("cb", w, Value(w))
      <4>1. /\ cleanup' = Cleaned(w)
            /\ told' = [told EXCEPT ![w] = Value(w)] /\ stack' = Append(st, f)
        BY <2>1, <2>3, <3>3 DEF ApplyCb
      <4>5. "cb" \in {"cb", "effect"}
        OBVIOUS
      <4>2. RunFrame(f, "cb", w, Value(w))
        BY <1>4, <4>5, FrameType, Zenon
      <4>3. Active(w) => Value(w) = Read(w)
        BY DEF Value
      <4> HIDE DEF f
      <4>4. Began(w, st, f)
        BY <1>6, <4>1, <4>2, <4>3, Zenon DEF Began, RunFrame
      <4> QED
        BY <3>1, <4>4
    <3> QED
      BY <3>2, <3>3
  <2> QED
    BY <2>2, <2>3
<1> QED
  BY <1>5, <1>6

--------------------------------------------------------------------------------
(***************************************************************************)
(* A turn of a loop over a queue, over post callbacks or over the effects   *)
(* of a trigger: e is taken off its list and runs, is put in another list,  *)
(* or has nothing to do.                                                    *)
(***************************************************************************)
Kept(st, i, e) ==
  /\ st[i].at = stack[i].at
  /\ stack[i].at \notin {"trigger", "posts"} => st[i] = stack[i]
  /\ stack[i].at \in {"trigger", "posts"} =>
       /\ ToSet(st[i].todo) \subseteq ToSet(stack[i].todo)
       /\ ToSet(stack[i].todo) \subseteq ToSet(st[i].todo) \cup {e}
Thinner(st, e) ==
  st \in Seq(Frames) /\ DOMAIN st = DOMAIN stack /\ \A i \in DOMAIN stack : Kept(st, i, e)
NewRun(i, e) ==
  /\ i = Len(stack) + 1 /\ e \in Watchers /\ RunsOf(e) = {} /\ cleanup'[e] # "new"
  /\ stack'[i].at = IF HasCb(e) THEN "cb" ELSE "effect"
  /\ stack'[i].w = e /\ stack'[i].registered = FALSE /\ stack'[i].new = told'[e]
Advances(e) ==
  /\ stack' \in Seq(Frames) /\ DOMAIN stack \subseteq DOMAIN stack'
  /\ \A i \in DOMAIN stack : Kept(stack', i, e)
  /\ \A i \in DOMAIN stack' \ DOMAIN stack : NewRun(i, e)

Tells(e) ==
  /\ told' \in [Watchers -> Vals]
  /\ cleanup' \in [Watchers -> {"none", "new", "used", "late"}]
  /\ \A w \in Watchers : /\ cleanup'[w] = "new" => cleanup[w] = "new"
                         /\ told'[w] # told[w] => w = e /\ DOMAIN stack' # DOMAIN stack
  /\ e \in Watchers /\ Active(e) /\ told'[e] # Read(e) =>
       ~Sync(e) /\ (e \in ToSet(queue') \/ e \in ToSet(posts'))

Moves(e) ==
  /\ queue' \in Seq(Effects \cup {Parent}) /\ posts' \in Seq(Watchers \cup {IsUnmounted})
  /\ ToSet(queue') \subseteq ToSet(queue) \cup {e} /\ ToSet(queue) \subseteq ToSet(queue') \cup {e}
  /\ ToSet(posts') \subseteq ToSet(posts) \cup {e} /\ ToSet(posts) \subseteq ToSet(posts') \cup {e}
  /\ e # Parent /\ (e = Owner => Owner \in ToSet(queue'))

Turn(e) ==
  /\ stack # << >> /\ Top.at \in {"jobs", "posts", "trigger"}
  /\ UNCHANGED << option, life, oldValue, cells, shown, show >>
  /\ SameDeps /\ Advances(e) /\ Tells(e) /\ Moves(e)
  /\ IF e = IsUnmounted
       THEN owner \in {"removed", "unmounted"} /\ owner' = "unmounted"
            /\ \A i \in DOMAIN stack : stack[i].at # "setup"
       ELSE owner' = owner

LEMMA RunOfWatcher ==
  ASSUME Typed, NEW i \in DOMAIN stack, IsRun(i)
  PROVE  stack[i] \in RunFrames /\ stack[i].w \in Watchers
<1>1. stack[i] \in Frames
  BY DEF Typed
<1> QED
  BY <1>1 DEF IsRun, Frames, RunFrames, TriggerFrames, PostFrames

LEMMA TurnKeeps ==
  ASSUME Inv, NEW e, Turn(e)
  PROVE  Inv'
<1>1. /\ option' = option /\ life' = life /\ oldValue' = oldValue /\ cells' = cells
      /\ shown' = shown /\ show' = show /\ SameDeps /\ Advances(e) /\ Tells(e) /\ Moves(e)
      /\ owner' = owner \/ (owner \in {"removed", "unmounted"} /\ owner' = "unmounted")
      /\ e = IsUnmounted => owner' = "unmounted"
      /\ owner' # owner => \A i \in DOMAIN stack : stack[i].at # "setup"
  BY DEF Turn
<1>2. \A w \in Watchers : /\ HasCb(w)' = HasCb(w) /\ Active(w)' = Active(w) /\ Owned(w)' = Owned(w)
                          /\ Sync(w)' <=> Sync(w)
  BY <1>1 DEF HasCb, Active, Owned, Sync
<1>3. \A w \in Watchers : Read(w)' = Read(w)
  BY <1>1 DEF Read
<1>4. \A i \in DOMAIN stack : stack[i].at # "made"
  BY Under DEF Turn, Inv, Shape, Typed
<1>5. /\ stack' \in Seq(Frames) /\ DOMAIN stack \subseteq DOMAIN stack'
      /\ DOMAIN stack = 1..Len(stack) /\ DOMAIN stack' = 1..Len(stack') /\ Len(stack) \in Nat
      /\ \A i \in DOMAIN stack : Kept(stack', i, e)
      /\ \A i \in DOMAIN stack' : i \in DOMAIN stack \/ NewRun(i, e)
  BY <1>1 DEF Advances, Inv, Typed
<1>6. /\ \A i \in DOMAIN stack : IsRun(i)' <=> IsRun(i)
      /\ \A i \in DOMAIN stack : IsRun(i) => stack'[i] = stack[i]
      /\ \A i \in DOMAIN stack' : i \notin DOMAIN stack =>
           IsRun(i)' /\ (stack'[i].at = "cb" <=> HasCb(e))
  BY <1>5 DEF Kept, NewRun, IsRun
<1>7. Typed'
  BY <1>1, <1>5 DEF Inv, Typed, SameDeps, Tells, Moves
<1>8. Shape'
  <2>1. SUFFICES ASSUME NEW i \in DOMAIN stack'
                 PROVE  /\ stack'[i].at \in {"jobs", "setup"} => i = 1
                        /\ stack'[i].at = "setup" => owner' = "setup"
                        /\ stack'[i].at = "posts" => \A k \in 1..(i - 1) : stack'[k].at = "jobs"
                        /\ stack'[i].at # "made"
                        /\ IsRun(i)' => (stack'[i].at = "cb" <=> HasCb(stack[i].w)')
    BY DEF Shape
  <2>2. CASE i \in DOMAIN stack
    <3>1. stack'[i].at = stack[i].at /\ (IsRun(i) => stack'[i] = stack[i])
      BY <1>5, <1>6, <2>2 DEF Kept
    <3>2. \A k \in 1..(i - 1) : stack'[k].at = stack[k].at
      BY <1>5, <2>2 DEF Kept
    <3>3. IsRun(i) => stack[i].w \in Watchers
      BY <2>2, RunOfWatcher DEF Inv
    <3>4. /\ stack[i].at \in {"jobs", "setup"} => i = 1
          /\ stack[i].at = "setup" => owner = "setup"
          /\ stack[i].at = "posts" => \A k \in 1..(i - 1) : stack[k].at = "jobs"
          /\ IsRun(i) => (stack[i].at = "cb" <=> HasCb(stack[i].w))
      BY <2>2 DEF Inv, Shape
    <3>5. IsRun(i)' => (stack'[i].at = "cb" <=> HasCb(stack[i].w)')
      <4>1. SUFFICES ASSUME IsRun(i)' PROVE stack'[i].at = "cb" <=> HasCb(stack[i].w)'
        OBVIOUS
      <4>2. IsRun(i) /\ stack'[i] = stack[i]
        BY <1>6, <2>2, <4>1
      <4>3. PICK w \in Watchers : w = stack[i].w
        BY <3>3, <4>2
      <4>4. w = stack'[i].w /\ HasCb(w)' = HasCb(w)
        BY <1>2, <4>2, <4>3
      <4>5. HasCb(stack[i].w)' <=> HasCb(w)'
        BY <4>4 DEF HasCb
      <4> QED
        BY <3>4, <4>2, <4>3, <4>4, <4>5
    <3> QED
      BY <1>1, <1>4, <2>2, <3>1, <3>2, <3>4, <3>5
  <2>3. CASE i \notin DOMAIN stack
    <3>1. NewRun(i, e) /\ stack'[i].at \in {"cb", "effect"}
      BY <1>5, <2>3 DEF NewRun
    <3>2. stack'[i].at = "cb" <=> HasCb(stack[i].w)'
      <4>1. e \in Watchers /\ stack'[i].w = e /\ (stack'[i].at = "cb" <=> HasCb(e))
        BY <1>6, <2>3, <3>1 DEF NewRun
      <4>2. HasCb(stack[i].w)' <=> HasCb(e)
        BY <1>1, <4>1 DEF HasCb
      <4> QED
        BY <4>1, <4>2
    <3> QED
      BY <3>1, <3>2
  <2> QED
    BY <2>2, <2>3
<1>9. Lives'
  <2>1. InPosts(IsUnmounted)' => e = IsUnmounted \/ InPosts(IsUnmounted)
    <3>1. SUFFICES ASSUME e # IsUnmounted, InPosts(IsUnmounted)' PROVE InPosts(IsUnmounted)
      OBVIOUS
    <3>2. CASE IsUnmounted \in ToSet(posts')
      BY <1>1, <3>1, <3>2 DEF Moves, InPosts
    <3>3. CASE \E i \in DOMAIN stack' : stack'[i].at = "posts" /\ IsUnmounted \in ToSet(stack'[i].todo)
      <4>1. PICK i \in DOMAIN stack' : stack'[i].at = "posts" /\ IsUnmounted \in ToSet(stack'[i].todo)
        BY <3>3
      <4>2. i \in DOMAIN stack
        BY <1>6, <4>1 DEF IsRun
      <4>3. stack[i].at = "posts" /\ IsUnmounted \in ToSet(stack[i].todo)
        BY <1>5, <4>1, <4>2 DEF Kept
      <4> QED
        BY <4>2, <4>3 DEF InPosts
    <3> QED
      BY <3>1, <3>2, <3>3 DEF InPosts
  <2>2. Parent \in ToSet(queue') => Parent \in ToSet(queue)
    BY <1>1 DEF Moves
  <2> QED
    BY <1>1, <1>2, <2>1, <2>2 DEF Inv, Lives
<1>10. Subscribed'
  <2>1. \A c \in Cells : dep'[c] = dep'[c] /\ (\A m \in Effects : m \in ToSet(dep'[c]) <=> m \in ToSet(dep[c]))
    BY <1>1 DEF SameDeps
  <2>2. Watchers \subseteq Effects /\ Owner \in Effects /\ (owner' = "mounted" => owner = "mounted")
    BY <1>1 DEF Effects
  <2> QED
    BY <1>1, <1>2, <2>1, <2>2 DEF Inv, Subscribed
<1>11. Alone'
  <2>1. SUFFICES ASSUME NEW i \in DOMAIN stack', NEW k \in DOMAIN stack', IsRun(i)', IsRun(k)',
                        stack'[i].w = stack'[k].w, i < k
                 PROVE  FALSE
    <3>1. ASSUME NEW i \in DOMAIN stack', NEW k \in DOMAIN stack', i # k PROVE i < k \/ k < i
      BY <1>5, <3>1
    <3> QED
      BY <3>1, Zenon DEF Alone
  <2>2. i \in DOMAIN stack /\ IsRun(i) /\ stack'[i] = stack[i]
    <3>1. i \in DOMAIN stack
      BY <1>5, <2>1 DEF NewRun
    <3> QED
      BY <1>6, <2>1, <3>1
  <2>3. CASE k \in DOMAIN stack
    <3>1. IsRun(k) /\ stack'[k] = stack[k] /\ i # k
      BY <1>5, <1>6, <2>1, <2>3
    <3> QED
      BY <2>1, <2>2, <2>3, <3>1 DEF Inv, Alone
  <2>4. CASE k \notin DOMAIN stack
    <3>1. NewRun(k, e)
      BY <1>5, <2>4
    <3> QED
      BY <2>1, <2>2, <3>1 DEF NewRun, RunsOf
  <2> QED
    BY <2>3, <2>4
<1>12. Quiet'
  <2>1. SUFFICES ASSUME NEW k \in DOMAIN stack', stack'[k].at = "trigger", NEW i \in 1..(k - 1),
                        IsRun(i)', stack'[i].at = "effect" \/ Sync(stack[i].w)'
                 PROVE  stack'[i].w \notin ToSet(stack'[k].todo)
    BY DEF Quiet
  <2>2. k \in DOMAIN stack
    BY <1>6, <2>1 DEF IsRun
  <2>3. i \in DOMAIN stack
    BY <1>5, <2>2
  <2>4. IsRun(i) /\ stack'[i] = stack[i] /\ stack[k].at = "trigger"
        /\ ToSet(stack'[k].todo) \subseteq ToSet(stack[k].todo)
    BY <1>5, <1>6, <2>1, <2>2, <2>3 DEF Kept
  <2>5. stack[i].at = "effect" \/ Sync(stack[i].w)
    <3>1. stack[i].w \in Watchers
      BY <2>3, <2>4, RunOfWatcher DEF Inv
    <3>2. PICK w \in Watchers : w = stack[i].w
      BY <3>1
    <3>3. Sync(stack[i].w)' <=> Sync(w)'
      BY <2>4, <3>2 DEF Sync, Owned
    <3> QED
      BY <1>2, <2>1, <2>4, <3>2, <3>3
  <2> QED
    BY <2>2, <2>4, <2>5 DEF Inv, Quiet
<1>13. Remembers'
  <2>1. ASSUME NEW i \in DOMAIN stack', stack'[i].at = "cb" PROVE stack'[i].new = told'[stack'[i].w]
    <3>1. CASE i \in DOMAIN stack
      <4>1. stack'[i] = stack[i] /\ stack[i].at = "cb" /\ IsRun(i)
        BY <1>5, <1>6, <2>1, <3>1 DEF Kept, IsRun
      <4>2. stack[i].w \in Watchers
        BY <3>1, <4>1, RunOfWatcher DEF Inv
      <4>3. told'[stack[i].w] = told[stack[i].w]
        <5>1. SUFFICES ASSUME told'[stack[i].w] # told[stack[i].w] PROVE FALSE
          OBVIOUS
        <5>2. stack[i].w = e /\ DOMAIN stack' # DOMAIN stack
          BY <1>1, <4>2, <5>1 DEF Tells
        <5>3. PICK k \in DOMAIN stack' : NewRun(k, e)
          BY <1>5, <5>2
        <5> QED
          BY <3>1, <4>1, <5>2, <5>3 DEF NewRun, RunsOf
      <4> QED
        BY <3>1, <4>1, <4>3 DEF Inv, Remembers
    <3>2. CASE i \notin DOMAIN stack
      BY <1>5, <2>1, <3>2 DEF NewRun
    <3> QED
      BY <3>1, <3>2
  <2>2. ASSUME NEW w \in Watchers, HasCb(w), Active(w), RunsOf(w)' = {} PROVE oldValue[w] = told'[w]
    <3>1. RunsOf(w) = {}
      <4>1. \A i \in DOMAIN stack : IsRun(i) /\ stack[i].w = w => IsRun(i)' /\ stack'[i].w = w /\ i \in DOMAIN stack'
        BY <1>5, <1>6
      <4> QED
        BY <2>2, <4>1 DEF RunsOf
    <3>2. told'[w] = told[w]
      <4>1. SUFFICES ASSUME told'[w] # told[w] PROVE FALSE
        OBVIOUS
      <4>2. w = e /\ DOMAIN stack' # DOMAIN stack
        BY <1>1, <4>1 DEF Tells
      <4>3. PICK k \in DOMAIN stack' : k \notin DOMAIN stack /\ NewRun(k, e)
        BY <1>5, <4>2
      <4>4. IsRun(k)' /\ stack'[k].w = w
        BY <1>6, <4>2, <4>3 DEF NewRun
      <4> QED
        BY <2>2, <4>3, <4>4 DEF RunsOf
    <3> QED
      BY <2>2, <3>1, <3>2 DEF Inv, Remembers
  <2> QED
    BY <1>1, <1>2, <2>1, <2>2 DEF Remembers
<1>14. CleanedUp'
  <2>1. SUFFICES ASSUME NEW w \in Watchers, cleanup'[w] = "new"
                 PROVE  /\ Active(w)
                        /\ \A i \in DOMAIN stack' : stack'[i].at \in {"cb", "effect"} /\ stack'[i].w = w =>
                             stack'[i].registered
    BY <1>2 DEF CleanedUp
  <2>2. /\ Active(w)
        /\ \A i \in DOMAIN stack : IsRun(i) /\ stack[i].w = w => stack[i].registered
    BY <1>1, <2>1 DEF Tells, Inv, CleanedUp, IsRun
  <2>3. ASSUME NEW i \in DOMAIN stack', stack'[i].at \in {"cb", "effect"}, stack'[i].w = w
        PROVE  stack'[i].registered
    <3>1. i \in DOMAIN stack
      BY <1>5, <2>1, <2>3 DEF NewRun
    <3>2. IsRun(i) /\ stack'[i] = stack[i]
      BY <1>6, <2>3, <3>1 DEF IsRun
    <3> QED
      BY <2>2, <2>3, <3>1, <3>2
  <2> QED
    BY <2>2, <2>3
<1>17. /\ \A m : m # e /\ InTrigger(m) => InTrigger(m)'
       /\ \A m : m # e /\ InPosts(m) => InPosts(m)'
  <2>1. ASSUME NEW m, m # e, NEW i \in DOMAIN stack, stack[i].at \in {"trigger", "posts"},
               m \in ToSet(stack[i].todo)
        PROVE  i \in DOMAIN stack' /\ stack'[i].at = stack[i].at /\ m \in ToSet(stack'[i].todo)
    BY <1>5, <2>1 DEF Kept
  <2>2. \A m : m # e /\ m \in ToSet(posts) => m \in ToSet(posts')
    BY <1>1 DEF Moves
  <2> QED
    BY <2>1, <2>2 DEF InTrigger, InPosts
<1>15. Waiting'
  <2>1. SUFFICES ASSUME NEW w \in Watchers, Active(w), told'[w] # Read(w)
                 PROVE  InTrigger(w)' \/ (~Sync(w) /\ (w \in ToSet(queue') \/ InPosts(w)'))
    BY <1>2, <1>3 DEF Waiting
  <2>2. CASE w = e
    BY <1>1, <2>1, <2>2 DEF Tells, InPosts
  <2>3. CASE w # e
    <3>1. told[w] # Read(w)
      BY <1>1, <2>1, <2>3 DEF Tells
    <3>2. InTrigger(w) \/ (~Sync(w) /\ (w \in ToSet(queue) \/ InPosts(w)))
      BY <2>1, <3>1 DEF Inv, Waiting
    <3>3. w \in ToSet(queue) => w \in ToSet(queue')
      BY <1>1, <2>3 DEF Moves
    <3> QED
      BY <1>17, <2>3, <3>2, <3>3
  <2> QED
    BY <2>2, <2>3
<1>16. Rendering'
  <2>1. SUFFICES ASSUME owner = "mounted", Owner \notin ToSet(queue'), ~InTrigger(Owner)'
                 PROVE  \A c \in Rendered : shown[c] = cells[c]
    BY <1>1 DEF Rendering
  <2>2. Owner # e /\ Owner \notin ToSet(queue) /\ ~InTrigger(Owner)
    BY <1>1, <1>17, <2>1 DEF Moves
  <2> QED
    BY <2>1, <2>2 DEF Inv, Rendering
<1> QED
  BY <1>7, <1>8, <1>9, <1>10, <1>11, <1>12, <1>13, <1>14, <1>15, <1>16, Zenon DEF Inv

\* The stack of a turn: the frame on top has one entry less, or nothing has changed.
LEMMA TopThinner ==
  ASSUME Typed, stack # << >>, Top.at \in {"trigger", "posts"}, Top.todo # << >>
  PROVE  LET e == Head(Top.todo)
             st == Append(Below, [Top EXCEPT !.todo = Tail(Top.todo)])
         IN  /\ Thinner(st, e)
             /\ Top.at = "trigger" => e \in Effects /\ InTrigger(e)
             /\ Top.at = "posts" => e \in Watchers \cup {IsUnmounted} /\ InPosts(e)
<1> DEFINE e == Head(Top.todo)
           g == [Top EXCEPT !.todo = Tail(Top.todo)]
           n == Len(stack)
<1>1. /\ n \in Nat \ {0} /\ n \in DOMAIN stack /\ Top = stack[n] /\ Top \in Frames
      /\ DOMAIN stack = 1..n
  BY Under DEF Typed
<1>2. /\ g \in Frames /\ g.at = Top.at /\ g.todo = Tail(Top.todo)
      /\ ToSet(Top.todo) = {e} \cup ToSet(Tail(Top.todo))
      /\ Top.at = "trigger" => e \in Effects
      /\ Top.at = "posts" => e \in Watchers \cup {IsUnmounted}
  <2>1. CASE Top.at = "trigger"
    <3>1. Top \in TriggerFrames /\ Top.todo \in Seq(Effects)
      BY <1>1, <2>1 DEF Frames, RunFrames, TriggerFrames, PostFrames
    <3>2. e \in Effects /\ Tail(Top.todo) \in Seq(Effects) /\ ToSet(Top.todo) = {e} \cup ToSet(Tail(Top.todo))
      BY <3>1, HeadTailEntries
    <3>3. g \in TriggerFrames /\ g.at = Top.at /\ g.todo = Tail(Top.todo)
      BY <3>1, <3>2 DEF TriggerFrames
    <3> QED
      BY <2>1, <3>2, <3>3 DEF Frames
  <2>2. CASE Top.at = "posts"
    <3>1. Top \in PostFrames /\ Top.todo \in Seq(Watchers \cup {IsUnmounted})
      BY <1>1, <2>2 DEF Frames, RunFrames, TriggerFrames, PostFrames
    <3>2. /\ e \in Watchers \cup {IsUnmounted} /\ Tail(Top.todo) \in Seq(Watchers \cup {IsUnmounted})
          /\ ToSet(Top.todo) = {e} \cup ToSet(Tail(Top.todo))
      BY <3>1, HeadTailEntries
    <3>3. g \in PostFrames /\ g.at = Top.at /\ g.todo = Tail(Top.todo)
      BY <3>1, <3>2 DEF PostFrames
    <3> QED
      BY <2>2, <3>2, <3>3 DEF Frames
  <2> QED
    BY <2>1, <2>2
<1> DEFINE st == Append(Below, g)
<1> HIDE DEF g
<1>3. /\ st \in Seq(Frames) /\ Len(st) = n /\ st[n] = g
      /\ \A i \in 1..(n - 1) : st[i] = stack[i]
  BY <1>2, Replaced DEF Over, Typed
<1> HIDE DEF st, e
<1>4. DOMAIN st = DOMAIN stack
  BY <1>1, <1>3
<1>5. \A i \in DOMAIN stack : Kept(st, i, e)
  <2>1. Kept(st, n, e)
    BY <1>1, <1>2, <1>3 DEF Kept
  <2>2. ASSUME NEW i \in DOMAIN stack, i # n PROVE Kept(st, i, e)
    <3>1. i \in 1..(n - 1)
      BY <1>1, <2>2
    <3>2. st[i] = stack[i]
      BY <1>3, <3>1
    <3> QED
      BY <3>2, Zenon DEF Kept
  <2> QED
    BY <2>1, <2>2
<1>6. Thinner(st, e)
  BY <1>3, <1>4, <1>5 DEF Thinner
<1>7. e \in ToSet(stack[n].todo)
  BY <1>1, <1>2
<1> QED
  BY <1>1, <1>2, <1>6, <1>7 DEF InTrigger, InPosts, st, g, e

LEMMA SameThinner ==
  ASSUME Typed, NEW e PROVE Thinner(stack, e)
BY DEF Typed, Thinner, Kept

LEMMA StaysTurn ==
  ASSUME Typed, NEW st, NEW e, Thinner(st, e), stack' = st
  PROVE  Advances(e) /\ DOMAIN stack' = DOMAIN stack
BY DEF Thinner, Advances

LEMMA BeginsTurn ==
  ASSUME Typed, NEW st, NEW e \in Watchers, Thinner(st, e), RunsOf(e) = {}, NEW f, Began(e, st, f)
  PROVE  /\ Advances(e) /\ DOMAIN stack' # DOMAIN stack
         /\ cleanup' \in [Watchers -> {"none", "new", "used", "late"}] /\ cleanup'[e] # "new"
         /\ \A w \in Watchers : cleanup'[w] = "new" => cleanup[w] = "new"
<1>1. /\ f \in Frames /\ stack' = Append(st, f) /\ st \in Seq(Frames) /\ DOMAIN st = DOMAIN stack
      /\ \A i \in DOMAIN stack : Kept(st, i, e)
  BY DEF Began, Thinner, Frames
<1>2. /\ stack' \in Seq(Frames) /\ Len(stack) \in Nat /\ Len(st) = Len(stack)
      /\ DOMAIN stack = 1..Len(stack) /\ DOMAIN stack' = 1..(Len(stack) + 1)
      /\ stack'[Len(stack) + 1] = f /\ \A i \in DOMAIN stack : stack'[i] = st[i]
  BY <1>1 DEF Typed
<1>3. \A i \in DOMAIN stack : Kept(stack', i, e)
  BY <1>1, <1>2, Zenon DEF Kept
<1>4. /\ cleanup' \in [Watchers -> {"none", "new", "used", "late"}] /\ cleanup'[e] # "new"
      /\ \A w \in Watchers : cleanup'[w] = "new" => cleanup[w] = "new"
  BY DEF Began, Cleaned, Typed
<1>5. told'[e] = f.new
  BY DEF Began, Typed
<1>6. NewRun(Len(stack) + 1, e)
  BY <1>2, <1>4, <1>5 DEF NewRun, Began
<1>7. \A i \in DOMAIN stack' \ DOMAIN stack : NewRun(i, e)
  <2>1. \A i \in DOMAIN stack' \ DOMAIN stack : i = Len(stack) + 1
    BY <1>2
  <2> QED
    BY <1>6, <2>1
<1>8. DOMAIN stack' # DOMAIN stack
  BY <1>2
<1> QED
  BY <1>2, <1>3, <1>4, <1>7, <1>8 DEF Advances

LEMMA RunTurn ==
  ASSUME Inv, NEW e \in Watchers, NEW st, Thinner(st, e), RunsOf(e) = {}, Run(e, st),
         stack # << >>, Top.at \in {"jobs", "posts", "trigger"}, Moves(e),
         UNCHANGED << option, life, oldValue, cells, owner, shown, show >>
  PROVE  Turn(e)
<1>1. SameDeps /\ ((\E f : Began(e, st, f)) \/ Skipped(e, st))
  BY Runs DEF Inv
<1>2. Advances(e) /\ Tells(e)
  <2>1. CASE Skipped(e, st)
    <3>1. Advances(e)
      BY <2>1, StaysTurn DEF Skipped, Inv
    <3> QED
      BY <2>1, <3>1 DEF Skipped, Tells, Inv, Typed
  <2>2. ASSUME NEW f, Began(e, st, f) PROVE Advances(e) /\ Tells(e)
    <3>1. /\ Advances(e) /\ DOMAIN stack' # DOMAIN stack
          /\ cleanup' \in [Watchers -> {"none", "new", "used", "late"}]
          /\ \A w \in Watchers : cleanup'[w] = "new" => cleanup[w] = "new"
      BY <2>2, BeginsTurn DEF Inv
    <3>2. f.new \in Vals /\ told' = [told EXCEPT ![e] = f.new] /\ (Active(e) => f.new = Read(e))
      BY <2>2 DEF Began, RunFrames
    <3>3. /\ told' \in [Watchers -> Vals] /\ \A w \in Watchers : w # e => told'[w] = told[w]
          /\ told'[e] = f.new
      BY <3>2 DEF Inv, Typed
    <3> QED
      BY <3>1, <3>2, <3>3 DEF Tells
  <2> QED
    BY <1>1, <2>1, <2>2
<1>3. e # IsUnmounted
  BY Constants
<1> QED
  BY <1>1, <1>2, <1>3 DEF Turn

--------------------------------------------------------------------------------
(* The loops. *)

\* What is below the frame on top.
LEMMA Bottom ==
  ASSUME Inv, stack # << >>
  PROVE  /\ Top.at \in {"jobs", "setup"} => Len(stack) = 1 /\ DOMAIN stack = {1} /\ Top = stack[1]
         /\ Top.at = "setup" => owner = "setup"
         /\ Top.at \in {"jobs", "setup", "posts"} => \A w \in Watchers : RunsOf(w) = {}
         /\ Top.at = "posts" => \A i \in DOMAIN stack : stack[i].at # "setup"
         /\ Top.at \in {"jobs", "setup", "posts"} => \A i \in DOMAIN stack : stack[i].at # "trigger"
<1> DEFINE n == Len(stack)
<1>1. n \in Nat \ {0} /\ n \in DOMAIN stack /\ Top = stack[n] /\ DOMAIN stack = 1..n
  BY Under DEF Inv, Typed
<1>2. /\ stack[n].at \in {"jobs", "setup"} => n = 1
      /\ stack[n].at = "setup" => owner = "setup"
      /\ stack[n].at = "posts" => \A k \in 1..(n - 1) : stack[k].at = "jobs"
  BY <1>1 DEF Inv, Shape
<1>3. Top.at \in {"jobs", "setup", "posts"} =>
        \A i \in DOMAIN stack : stack[i].at = Top.at \/ stack[i].at = "jobs"
  BY <1>1, <1>2
<1>4. Top.at \in {"jobs", "setup", "posts"} => \A w \in Watchers : RunsOf(w) = {}
  BY <1>3 DEF RunsOf, IsRun
<1> QED
  BY <1>1, <1>2, <1>3, <1>4

\* A watcher that a trigger runs on the spot does not run below it.
LEMMA SyncIdle ==
  ASSUME Inv, stack # << >>, Top.at = "trigger", Top.todo # << >>,
         Head(Top.todo) \in Watchers, Sync(Head(Top.todo))
  PROVE  RunsOf(Head(Top.todo)) = {}
<1> DEFINE e == Head(Top.todo)
<1>1. SUFFICES ASSUME NEW i \in DOMAIN stack, IsRun(i), stack[i].w = e PROVE FALSE
  BY DEF RunsOf
<1>2. Len(stack) \in Nat /\ Len(stack) \in DOMAIN stack /\ Top = stack[Len(stack)]
      /\ DOMAIN stack = 1..Len(stack)
  BY Under DEF Inv, Typed
<1>3. i \in 1..(Len(stack) - 1)
  <2>1. i # Len(stack)
    BY <1>1, <1>2 DEF IsRun
  <2> QED
    BY <1>2, <2>1
<1>4. e \in ToSet(stack[Len(stack)].todo)
  <2>1. Top.todo # << >> /\ Top.todo \in Seq(Effects)
    <3>1. Top \in Frames
      BY Under DEF Inv, Typed
    <3> QED
      BY <3>1 DEF Frames, RunFrames, TriggerFrames, PostFrames
  <2> QED
    BY <1>2, <2>1, HeadTailEntries
<1> HIDE DEF e
<1>5. Sync(e)
  BY DEF e
<1> QED
  BY <1>1, <1>2, <1>3, <1>4, <1>5 DEF Inv, Quiet

LEMMA TriggerNextStep == ASSUME Inv, TriggerNext PROVE Inv'
<1> DEFINE e == Head(Top.todo)
           st == Append(Below, [Top EXCEPT !.todo = Tail(Top.todo)])
<1>1. /\ stack # << >> /\ Top.at = "trigger" /\ Top.todo # << >>
      /\ UNCHANGED << option, life, oldValue, cells, owner, shown, show >>
  BY DEF TriggerNext, At, component
<1>2. Thinner(st, e) /\ e \in Effects /\ InTrigger(e)
  BY <1>1, TopThinner DEF Inv
<1>3. /\ (e # Parent /\ e # IsUnmounted) \/ e = Owner
      /\ e # Owner => e \in Watchers
  BY <1>2, Constants DEF Effects
<1>4. e # Parent
  BY <1>2, Constants DEF Effects
<1>5. \/ /\ Place(e) = "now" /\ Run(e, st) /\ UNCHANGED << queue, posts >>
      \/ /\ Place(e) = "queue" /\ QueueJob(e) /\ stack' = st /\ UNCHANGED << posts, dep, cleanup, told >>
      \/ /\ Place(e) = "posts" /\ posts' = Append(posts, e) /\ stack' = st
         /\ UNCHANGED << queue, dep, cleanup, told >>
  BY DEF TriggerNext
<1>6. /\ e # Owner => (Place(e) = "now" <=> Sync(e))
      /\ e = Owner => Place(e) = "queue"
  BY DEF Place
<1>7. e # IsUnmounted
  <2>1. Owner # IsUnmounted
    BY Constants
  <2> QED
    BY <1>3, <2>1
<1>8. queue \in Seq(Effects \cup {Parent}) /\ posts \in Seq(Watchers \cup {IsUnmounted})
  BY DEF Inv, Typed
<1>9. CASE Place(e) = "now"
  <2>1. e \in Watchers /\ Sync(e) /\ Run(e, st) /\ UNCHANGED << queue, posts >>
    BY <1>3, <1>5, <1>6, <1>9
  <2>2. RunsOf(e) = {}
    BY <1>1, <2>1, SyncIdle
  <2> HIDE DEF e, st
  <2>3. Moves(e)
    BY <1>4, <1>8, <2>1, Constants DEF Moves
  <2>4. Turn(e)
    BY <1>1, <1>2, <2>1, <2>2, <2>3, RunTurn
  <2> QED
    BY <2>4, TurnKeeps
<1>10. CASE Place(e) \in {"queue", "posts"}
  <2>1. /\ stack' = st /\ UNCHANGED << dep, cleanup, told >>
        /\ \/ QueueJob(e) /\ posts' = posts
           \/ e # Owner /\ posts' = Append(posts, e) /\ queue' = queue
        /\ e \in Watchers => ~Sync(e)
    BY <1>3, <1>5, <1>6, <1>10, Constants
  <2> HIDE DEF e, st
  <2>2. /\ queue' \in Seq(Effects \cup {Parent}) /\ posts' \in Seq(Watchers \cup {IsUnmounted})
        /\ \/ ToSet(queue') = ToSet(queue) \cup {e} /\ posts' = posts
           \/ e # Owner /\ ToSet(posts') = ToSet(posts) \cup {e} /\ queue' = queue
    <3>1. CASE QueueJob(e) /\ posts' = posts
      <4>1. /\ Append(queue, e) \in Seq(Effects \cup {Parent})
            /\ ToSet(Append(queue, e)) = ToSet(queue) \cup {e}
            /\ Contains(queue, e) <=> e \in ToSet(queue)
        BY <1>2, <1>8, AppendEntries
      <4> QED
        BY <1>8, <3>1, <4>1 DEF QueueJob
    <3>2. CASE e # Owner /\ posts' = Append(posts, e) /\ queue' = queue
      <4>1. e \in Watchers \cup {IsUnmounted}
        BY <1>3, <3>2
      <4>2. /\ Append(posts, e) \in Seq(Watchers \cup {IsUnmounted})
            /\ ToSet(Append(posts, e)) = ToSet(posts) \cup {e}
        BY <1>8, <4>1, AppendEntries
      <4> QED
        BY <1>8, <3>2, <4>2
    <3> QED
      BY <2>1, <3>1, <3>2
  <2>3. Moves(e)
    BY <1>4, <2>2 DEF Moves
  <2>4. SameDeps
    BY <2>1 DEF SameDeps, Inv, Typed
  <2>5. Advances(e)
    BY <1>2, <2>1, StaysTurn DEF Inv
  <2>6. Tells(e)
    BY <2>1, <2>2 DEF Tells, Inv, Typed
  <2>7. Turn(e)
    BY <1>1, <1>7, <2>3, <2>4, <2>5, <2>6 DEF Turn
  <2> QED
    BY <2>7, TurnKeeps
<1> QED
  BY <1>5, <1>9, <1>10

LEMMA RunPostStep == ASSUME Inv, RunPost PROVE Inv'
<1> DEFINE p == Head(Top.todo)
           st == Append(Below, [Top EXCEPT !.todo = Tail(Top.todo)])
<1>1. /\ stack # << >> /\ Top.at = "posts" /\ Top.todo # << >>
      /\ UNCHANGED << option, life, oldValue, cells, shown, show, queue, posts >>
      /\ \/ /\ p = IsUnmounted /\ owner' = "unmounted" /\ stack' = st
            /\ UNCHANGED << dep, cleanup, told >>
         \/ p # IsUnmounted /\ Run(p, st) /\ UNCHANGED owner
  BY DEF RunPost, At
<1>2. Thinner(st, p) /\ p \in Watchers \cup {IsUnmounted} /\ InPosts(p)
  BY <1>1, TopThinner DEF Inv
<1>3. /\ \A w \in Watchers : RunsOf(w) = {}
      /\ \A i \in DOMAIN stack : stack[i].at # "setup"
  BY <1>1, Bottom
<1> HIDE DEF p, st
<1>4. IsUnmounted # Parent /\ IsUnmounted # Owner
  BY Constants
<1>5. Moves(p)
  BY <1>1, <1>2, <1>4, Constants DEF Moves, Inv, Typed
<1>6. CASE p = IsUnmounted
  <2>1. owner \in {"removed", "unmounted"}
    BY <1>2, <1>6 DEF Inv, Lives
  <2>2. SameDeps
    BY <1>1, <1>6 DEF SameDeps, Inv, Typed
  <2>3. Advances(p)
    BY <1>1, <1>2, <1>6, StaysTurn DEF Inv
  <2>4. Tells(p)
    BY <1>1, <1>6, Constants DEF Tells, Inv, Typed
  <2>5. Turn(p)
    BY <1>1, <1>3, <1>5, <1>6, <2>1, <2>2, <2>3, <2>4 DEF Turn
  <2> QED
    BY <2>5, TurnKeeps
<1>7. CASE p # IsUnmounted
  <2>1. p \in Watchers /\ Run(p, st) /\ owner' = owner
    BY <1>1, <1>2, <1>7
  <2>2. Turn(p)
    BY <1>1, <1>2, <1>3, <1>5, <2>1, RunTurn
  <2> QED
    BY <2>2, TurnKeeps
<1> QED
  BY <1>6, <1>7

\* Work that is done leaves the stack; a run that doWatch waits for goes back to it.
Returns ==
  /\ stack # << >>
  /\ \/ stack' = Below
     \/ \E w \in Watchers : /\ life[w] = "making" /\ Top.at # "made"
                            /\ stack' = Append(Below, [at |-> "made", w |-> w])
  /\ Top.at \in {"trigger", "posts"} => ToSet(Top.todo) = {}
  /\ UNCHANGED << option, told, cleanup, cells, dep, owner, shown, show, posts >>
  /\ queue' \in Seq(Effects \cup {Parent}) /\ ToSet(queue') = ToSet(queue)
  /\ life' \in [Watchers -> {"new", "making", "active", "stopped"}]
  /\ \A w \in Watchers :
       life'[w] = life[w] \/ (life[w] = "making" /\ life'[w] = "active" /\ Top.at = "made")
  /\ oldValue' \in [Watchers -> Vals]
  /\ \A w \in Watchers : oldValue'[w] = oldValue[w] \/ oldValue'[w] = told[w]
  /\ Top.at = "cb" => oldValue'[Top.w] = told[Top.w]

LEMMA ReturnsKeeps == ASSUME Inv, Returns PROVE Inv'
<1> DEFINE n == Len(stack)
<1>1. /\ n \in Nat \ {0} /\ n \in DOMAIN stack /\ Top = stack[n] /\ DOMAIN stack = 1..n
      /\ Top \in Frames
  BY Under DEF Inv, Typed, Returns
<1>2. /\ UNCHANGED << option, told, cleanup, cells, dep, owner, shown, show, posts >>
      /\ ToSet(queue') = ToSet(queue)
  BY DEF Returns
<1>3. \A w \in Watchers : /\ HasCb(w)' = HasCb(w) /\ (Active(w)' <=> Active(w)) /\ Owned(w)' = Owned(w)
                          /\ (Sync(w)' <=> Sync(w)) /\ Read(w)' = Read(w)
                          /\ (life'[w] = "new" <=> life[w] = "new")
  BY DEF HasCb, Active, Owned, Sync, Read, Returns
<1>4. /\ stack' \in Seq(Frames) /\ DOMAIN stack' \subseteq DOMAIN stack /\ DOMAIN stack' = 1..Len(stack')
      /\ \A i \in 1..(n - 1) : i \in DOMAIN stack' /\ stack'[i] = stack[i]
      /\ n \in DOMAIN stack' => /\ stack'[n].at = "made" /\ Len(stack') = n
                                /\ stack'[n].w \in Watchers /\ life[stack'[n].w] = "making"
                                /\ Top.at # "made"
  <2>1. CASE stack' = Below
    BY <1>1, <2>1, Under DEF Inv, Typed, Returns
  <2>2. ASSUME NEW w \in Watchers, life[w] = "making", Top.at # "made",
               stack' = Append(Below, [at |-> "made", w |-> w])
        PROVE  <1>4!:
    <3> DEFINE g == [at |-> "made", w |-> w]
    <3>1. g \in Frames /\ g.at = "made" /\ g.w = w
      BY DEF Frames
    <3> HIDE DEF g
    <3>2. stack' = Append(Below, g)
      BY <2>2 DEF g
    <3>3. /\ Over(stack', n, g) /\ \A i \in 1..(n - 1) : stack'[i] = stack[i]
      BY <3>1, <3>2, Replaced DEF Inv, Typed, Returns
    <3>4. Len(stack') = n /\ DOMAIN stack' = 1..n /\ stack' \in Seq(Frames) /\ stack'[n] = g
      BY <3>3 DEF Over
    <3> HIDE DEF n
    <3>5. \A i \in 1..(n - 1) : i \in 1..n
      BY <1>1
    <3> QED
      BY <1>1, <2>2, <3>1, <3>3, <3>4, <3>5, Zenon
  <2> QED
    BY <2>1, <2>2 DEF Returns
<1> HIDE DEF n
<1>17. /\ \A i \in DOMAIN stack : i \in 1..(n - 1) \/ i = n
       /\ \A i \in 1..(n - 1) : i \in DOMAIN stack /\ i # n /\ \A k \in 1..(i - 1) : k \in 1..(n - 1)
  BY <1>1
<1>5. \A i \in DOMAIN stack' : IsRun(i)' \/ stack'[i].at \in {"trigger", "posts", "jobs", "setup"} =>
        i \in 1..(n - 1) /\ stack'[i] = stack[i] /\ i \in DOMAIN stack
  BY <1>1, <1>4 DEF IsRun
<1>6. Typed'
  BY <1>2, <1>4 DEF Returns, Inv, Typed
<1>7. \A m : (InTrigger(m)' <=> InTrigger(m)) /\ (InPosts(m)' <=> InPosts(m))
  <2>1. ASSUME NEW m, NEW i \in DOMAIN stack, stack[i].at \in {"trigger", "posts"}, m \in ToSet(stack[i].todo)
        PROVE  i \in DOMAIN stack' /\ stack'[i] = stack[i]
    <3>1. i # n
      BY <1>1, <2>1 DEF Returns
    <3> QED
      BY <1>1, <1>4, <3>1
  <2>2. \A m : (InTrigger(m) => InTrigger(m)') /\ (InPosts(m) => InPosts(m)')
    BY <1>2, <2>1, Zenon DEF InTrigger, InPosts
  <2>3. \A m : (InTrigger(m)' => InTrigger(m)) /\ (InPosts(m)' => InPosts(m))
    BY <1>2, <1>5 DEF InTrigger, InPosts
  <2> QED
    BY <2>2, <2>3
<1>8. Shape'
  <2>1. ASSUME NEW i \in DOMAIN stack', stack'[i].at # "made"
        PROVE  /\ stack'[i].at \in {"jobs", "setup"} => i = 1
               /\ stack'[i].at = "setup" => owner' = "setup"
               /\ stack'[i].at = "posts" => \A k \in 1..(i - 1) : stack'[k].at = "jobs"
               /\ IsRun(i)' => (stack'[i].at = "cb" <=> HasCb(stack[i].w)')
    <3>1. i \in 1..(n - 1) /\ i \in DOMAIN stack /\ stack'[i] = stack[i]
          /\ \A k \in 1..(i - 1) : stack'[k] = stack[k]
      BY <1>4, <1>17, <2>1, Zenon
    <3>2. /\ stack[i].at \in {"jobs", "setup"} => i = 1
          /\ stack[i].at = "setup" => owner = "setup"
          /\ stack[i].at = "posts" => \A k \in 1..(i - 1) : stack[k].at = "jobs"
          /\ IsRun(i) => (stack[i].at = "cb" <=> HasCb(stack[i].w))
      BY <3>1 DEF Inv, Shape
    <3>3. HasCb(stack[i].w)' <=> HasCb(stack[i].w)
      BY <1>2, <3>1 DEF HasCb
    <3> QED
      BY <1>2, <3>1, <3>2, <3>3 DEF IsRun
  <2>2. ASSUME NEW i \in DOMAIN stack', stack'[i].at = "made"
        PROVE  i = Len(stack') /\ life'[stack'[i].w] = "making"
    <3>1. CASE i = n
      BY <1>4, <3>1 DEF Returns
    <3>2. CASE i # n
      <4>1. i \in DOMAIN stack /\ stack[i].at = "made"
        BY <1>4, <1>17, <2>2, <3>2, Zenon
      <4> QED
        BY <3>2, <4>1 DEF Inv, Shape, n
    <3> QED
      BY <3>1, <3>2
  <2>3. \A i \in DOMAIN stack' : IsRun(i)' => stack'[i].at # "made"
    BY DEF IsRun
  <2> QED
    BY <2>1, <2>2, <2>3 DEF Shape
<1>9. Lives'
  BY <1>2, <1>3, <1>7 DEF Inv, Lives
<1>10. Subscribed'
  BY <1>2, <1>3 DEF Inv, Subscribed
<1>11. Alone'
  BY <1>5 DEF Inv, Alone, IsRun
<1>12. Quiet'
  <2>1. SUFFICES ASSUME NEW k \in DOMAIN stack', stack'[k].at = "trigger", NEW i \in 1..(k - 1),
                        IsRun(i)', stack'[i].at = "effect" \/ Sync(stack[i].w)'
                 PROVE  stack'[i].w \notin ToSet(stack'[k].todo)
    BY DEF Quiet
  <2>2. k \in DOMAIN stack /\ stack'[k] = stack[k] /\ k \in 1..(n - 1)
    BY <1>5, <2>1
  <2>3. i \in DOMAIN stack /\ stack'[i] = stack[i]
    BY <1>4, <1>17, <2>2, Zenon
  <2>4. IsRun(i) /\ (stack[i].at = "effect" \/ Sync(stack[i].w))
    BY <1>2, <2>1, <2>3 DEF IsRun, Sync, Owned
  <2> QED
    BY <2>1, <2>2, <2>3, <2>4 DEF Inv, Quiet
<1>13. Remembers'
  <2>1. ASSUME NEW i \in DOMAIN stack', stack'[i].at = "cb" PROVE stack'[i].new = told'[stack'[i].w]
    <3>1. i \in DOMAIN stack /\ stack'[i] = stack[i]
      BY <1>5, <2>1 DEF IsRun
    <3> QED
      BY <1>2, <2>1, <3>1 DEF Inv, Remembers
  <2>2. ASSUME NEW w \in Watchers, HasCb(w), Active(w), RunsOf(w)' = {} PROVE oldValue'[w] = told[w]
    <3>1. CASE RunsOf(w) = {}
      BY <2>2, <3>1 DEF Inv, Remembers, Returns
    <3>2. CASE RunsOf(w) # {}
      <4>1. PICK i \in DOMAIN stack : IsRun(i) /\ stack[i].w = w
        BY <3>2 DEF RunsOf
      <4>2. i = n
        <5>1. SUFFICES ASSUME i # n PROVE FALSE
          OBVIOUS
        <5>2. i \in DOMAIN stack' /\ stack'[i] = stack[i]
          BY <1>4, <1>17, <4>1, <5>1, Zenon
        <5> QED
          BY <2>2, <4>1, <5>2 DEF RunsOf, IsRun
      <4>3. Top.at = "cb" /\ Top.w = w
        BY <1>1, <2>2, <4>1, <4>2 DEF Inv, Shape
      <4> QED
        BY <4>3 DEF Returns
    <3> QED
      BY <3>1, <3>2
  <2> QED
    BY <1>2, <1>3, <2>1, <2>2 DEF Remembers
<1>14. CleanedUp'
  <2>1. \A i \in DOMAIN stack' : stack'[i].at \in {"cb", "effect"} => i \in DOMAIN stack /\ stack'[i] = stack[i]
    BY <1>5 DEF IsRun
  <2> QED
    BY <1>2, <1>3, <2>1 DEF Inv, CleanedUp
<1>15. Waiting'
  BY <1>2, <1>3, <1>7 DEF Inv, Waiting
<1>16. Rendering'
  BY <1>2, <1>7 DEF Inv, Rendering
<1> QED
  BY <1>6, <1>8, <1>9, <1>10, <1>11, <1>12, <1>13, <1>14, <1>15, <1>16, Zenon DEF Inv

LEMMA Plain ==
  ASSUME Inv, UNCHANGED << option, told, cleanup, cells, dep, owner, shown, show, posts >>,
         UNCHANGED << life, oldValue >>, stack # << >>, stack' = Below,
         Top.at \in {"trigger", "posts"} => ToSet(Top.todo) = {}, Top.at # "cb",
         queue' \in Seq(Effects \cup {Parent}), ToSet(queue') = ToSet(queue)
  PROVE  Inv'
<1>1. Returns
  BY DEF Returns, Inv, Typed
<1> QED
  BY <1>1, ReturnsKeeps

LEMMA EndSteps ==
  ASSUME Inv, TriggerEnd \/ EndPosts \/ EndFlush \/ Return \/ Made
  PROVE  Inv'
<1>1. /\ queue \in Seq(Effects \cup {Parent})
      /\ ToSet(<< >>) = {}
      /\ stack # << >> => /\ Top \in Frames /\ Top = stack[Len(stack)]
                         /\ Len(stack) \in DOMAIN stack
  BY Under DEF Inv, Typed, ToSet
<1>2. CASE TriggerEnd
  <2>1. /\ UNCHANGED << option, told, cleanup, cells, dep, owner, shown, show, posts >>
        /\ UNCHANGED << life, oldValue, queue >> /\ stack # << >> /\ stack' = Below
        /\ Top.at = "trigger" /\ Top.todo = << >>
    BY <1>2 DEF TriggerEnd, At, watchers, component
  <2> QED
    BY <1>1, <2>1, Plain
<1>3. CASE EndPosts
  <2>1. /\ UNCHANGED << option, told, cleanup, cells, dep, owner, shown, show, posts >>
        /\ UNCHANGED << life, oldValue >> /\ stack # << >> /\ stack' = Below
        /\ Top.at = "posts" /\ Top.todo = << >>
        /\ queue' \in Sorted(queue) \/ queue' = queue
    BY <1>3 DEF EndPosts, At, watchers, component
  <2>2. queue' \in Seq(Effects \cup {Parent}) /\ ToSet(queue') = ToSet(queue)
    BY <1>1, <2>1, SortedEntries
  <2> QED
    BY <1>1, <2>1, <2>2, Plain
<1>4. CASE EndFlush
  <2>1. /\ UNCHANGED << option, told, cleanup, cells, dep, owner, shown, show, posts >>
        /\ UNCHANGED << life, oldValue, queue >> /\ stack # << >> /\ stack' = << >>
        /\ Top.at = "jobs"
    BY <1>4 DEF EndFlush, At, watchers, component
  <2>2. Len(stack) = 1 /\ stack \in Seq(Frames)
    BY <2>1, Bottom DEF Inv, Typed
  <2>3. Below = << >>
    BY <2>2 DEF Below, Front
  <2> QED
    BY <1>1, <2>1, <2>3, Plain
<1>5. CASE Return
  <2>1. /\ UNCHANGED << option, life, told, cleanup, cells, dep, owner, shown, show, posts, queue >>
        /\ stack # << >> /\ Top.at \in {"cb", "effect"}
        /\ oldValue' = IF Top.at = "cb" THEN [oldValue EXCEPT ![Top.w] = Top.new] ELSE oldValue
        /\ stack' = IF life[Top.w] = "making" THEN Append(Below, [at |-> "made", w |-> Top.w]) ELSE Below
    BY <1>5 DEF Return, At, component
  <2>2. Top.w \in Watchers /\ Top.new \in Vals
    <3>1. Top \in RunFrames
      BY <1>1, <2>1 DEF Frames, RunFrames, TriggerFrames, PostFrames
    <3> QED
      BY <3>1 DEF RunFrames
  <2>3. Top.at = "cb" => Top.new = told[Top.w]
    BY <1>1, <2>1 DEF Inv, Remembers
  <2>4. oldValue' \in [Watchers -> Vals]
    BY <2>1, <2>2 DEF Inv, Typed
  <2>5. /\ \A w \in Watchers : oldValue'[w] = oldValue[w] \/ oldValue'[w] = told[w]
        /\ Top.at = "cb" => oldValue'[Top.w] = told[Top.w]
    BY <2>1, <2>2, <2>3 DEF Inv, Typed
  <2>6. \/ stack' = Below
        \/ \E w \in Watchers : /\ life[w] = "making" /\ Top.at # "made"
                               /\ stack' = Append(Below, [at |-> "made", w |-> w])
    BY <2>1, <2>2
  <2>7. Returns
    BY <1>1, <2>1, <2>4, <2>5, <2>6 DEF Returns, Inv, Typed
  <2> QED
    BY <2>7, ReturnsKeeps
<1>6. CASE Made
  <2>1. /\ UNCHANGED << option, oldValue, told, cleanup, cells, dep, owner, shown, show, posts, queue >>
        /\ stack # << >> /\ Top.at = "made" /\ stack' = Below
        /\ life' = [life EXCEPT ![Top.w] = "active"]
    BY <1>6 DEF Made, At, component
  <2>2. life[Top.w] = "making"
    BY <1>1, <2>1 DEF Inv, Shape
  <2>3. /\ life' \in [Watchers -> {"new", "making", "active", "stopped"}]
        /\ \A w \in Watchers : life'[w] = life[w] \/ (life[w] = "making" /\ life'[w] = "active")
    BY <2>1, <2>2 DEF Inv, Typed
  <2>4. Returns
    BY <1>1, <2>1, <2>3 DEF Returns, Inv, Typed
  <2> QED
    BY <2>4, ReturnsKeeps
<1> QED
  BY <1>2, <1>3, <1>4, <1>5, <1>6

\* Steps that leave the stack as it is.
LEMMA SameStack ==
  ASSUME Inv, stack' = stack, option' = option,
         owner' = owner \/ (owner \notin {"new", "setup"} /\ owner' \notin {"new", "setup"}),
         stack = << >> \/ Top.at # "made"
  PROVE  /\ Shape' /\ Alone' /\ Quiet'
         /\ \A w \in Watchers : /\ HasCb(w)' = HasCb(w) /\ Owned(w)' = Owned(w) /\ (Sync(w)' <=> Sync(w))
                                /\ RunsOf(w)' = RunsOf(w)
         /\ \A m : InTrigger(m)' <=> InTrigger(m)
<1>1. \A w : /\ HasCb(w)' = HasCb(w) /\ Owned(w)' = Owned(w) /\ (Sync(w)' <=> Sync(w))
             /\ RunsOf(w)' = RunsOf(w)
  BY DEF HasCb, Owned, Sync, RunsOf, IsRun
<1>2. \A m : InTrigger(m)' <=> InTrigger(m)
  BY DEF InTrigger
<1>3. \A i \in DOMAIN stack : stack[i].at # "made"
  BY Under DEF Inv, Shape, Typed
<1>4. \A i \in DOMAIN stack :
        /\ HasCb(stack[i].w)' = HasCb(stack[i].w) /\ (Sync(stack[i].w)' <=> Sync(stack[i].w))
        /\ IsRun(i)' <=> IsRun(i)
  BY <1>1 DEF IsRun, HasCb, Sync, Owned
<1>5. Shape'
  BY <1>3, <1>4 DEF Inv, Shape
<1>6. Alone' /\ Quiet'
  <2>1. Alone'
    BY <1>4 DEF Inv, Alone
  <2>2. Quiet'
    <3>1. SUFFICES ASSUME NEW k \in DOMAIN stack, stack[k].at = "trigger", NEW i \in 1..(k - 1),
                          IsRun(i)', stack[i].at = "effect" \/ Sync(stack[i].w)'
                   PROVE  stack[i].w \notin ToSet(stack[k].todo)
      BY DEF Quiet
    <3>2. i \in DOMAIN stack
      BY <3>1 DEF Inv, Typed
    <3> QED
      BY <1>4, <3>1, <3>2 DEF Inv, Quiet
  <2> QED
    BY <2>1, <2>2
<1> QED
  BY <1>1, <1>2, <1>5, <1>6

LEMMA UpdateStep ==
  ASSUME Inv, queue # << >>, queue' = Tail(queue), Head(queue) = Owner, Update,
         UNCHANGED << option, oldValue, cells, show >>, stack # << >>, Top.at = "jobs"
  PROVE  Inv'
<1>1. /\ UNCHANGED << life, cleanup, told, owner, posts, stack, option, oldValue, cells, show >>
      /\ shown' = IF owner = "mounted" THEN cells ELSE shown
      /\ dep' = IF owner = "mounted" THEN Tracked(Owner, Rendered) ELSE dep
  BY DEF Update
<1>2. /\ queue' \in Seq(Effects \cup {Parent}) /\ ToSet(queue') \subseteq ToSet(queue)
      /\ ToSet(queue) \subseteq ToSet(queue') \cup {Owner}
  BY HeadTailEntries DEF Inv, Typed
<1>3. /\ Shape' /\ Alone' /\ Quiet'
      /\ \A w \in Watchers : /\ HasCb(w)' = HasCb(w) /\ Owned(w)' = Owned(w) /\ (Sync(w)' <=> Sync(w))
                             /\ RunsOf(w)' = RunsOf(w)
      /\ \A m : InTrigger(m)' <=> InTrigger(m)
  BY <1>1, SameStack
<1>4. \A w \in Watchers : (Active(w)' <=> Active(w)) /\ Read(w)' = Read(w)
  BY <1>1 DEF Active, Read
<1>5. \A m : InPosts(m)' <=> InPosts(m)
  BY <1>1 DEF InPosts
<1>6. /\ dep' \in [Cells -> Seq(Effects)]
      /\ \A c \in Cells : /\ \A w \in Watchers : w \in ToSet(dep'[c]) <=> w \in ToSet(dep[c])
                          /\ owner = "mounted" /\ c \in Rendered => Owner \in ToSet(dep'[c])
  <2>1. CASE owner = "mounted"
    <3>1. Owner \in Effects /\ Watchers \subseteq Effects /\ Owner \notin Watchers
      BY Constants DEF Effects
    <3>2. /\ dep' \in [Cells -> Seq(Effects)]
          /\ \A c \in Cells, m \in Effects :
               m \in ToSet(dep'[c]) <=> IF m = Owner THEN c \in Rendered ELSE m \in ToSet(dep[c])
      BY <1>1, <2>1, <3>1, TrackedEntries DEF Inv
    <3> QED
      BY <3>1, <3>2
  <2>2. CASE owner # "mounted"
    BY <1>1, <2>2 DEF Inv, Typed
  <2> QED
    BY <2>1, <2>2
<1>7. Typed'
  BY <1>1, <1>2, <1>6 DEF Inv, Typed
<1>8. Lives' /\ Subscribed'
  <2>1. Lives'
    BY <1>1, <1>2, <1>3, <1>4, <1>5 DEF Inv, Lives
  <2>2. Subscribed'
    BY <1>1, <1>4, <1>6 DEF Inv, Subscribed
  <2> QED
    BY <2>1, <2>2
<1>9. Remembers' /\ CleanedUp'
  <2>1. Remembers'
    BY <1>1, <1>3, <1>4 DEF Inv, Remembers
  <2>2. CleanedUp'
    BY <1>1, <1>4 DEF Inv, CleanedUp
  <2> QED
    BY <2>1, <2>2
<1>10. Waiting'
  <2>1. \A w \in Watchers : w # Owner
    BY Constants
  <2> QED
    BY <1>1, <1>2, <1>3, <1>4, <1>5, <2>1 DEF Inv, Waiting
<1>11. Rendering'
  <2>1. owner = "mounted" => \A c \in Rendered : shown'[c] = cells[c]
    BY <1>1
  <2> QED
    BY <1>1, <2>1 DEF Rendering
<1> QED
  BY <1>3, <1>7, <1>8, <1>9, <1>10, <1>11, Zenon DEF Inv

LEMMA UnmountStep ==
  ASSUME Inv, queue # << >>, queue' = Tail(queue), Head(queue) = Parent, UnmountComponent,
         UNCHANGED << option, oldValue, cells, show >>, stack # << >>, Top.at = "jobs"
  PROVE  Inv'
<1> DEFINE stopped == {w \in Watchers : Owned(w) /\ Active(w)}
<1>1. /\ UNCHANGED << shown, told, stack, option, oldValue, cells, show >>
      /\ life' = [w \in Watchers |-> IF w \in stopped THEN "stopped" ELSE life[w]]
      /\ cleanup' = [w \in Watchers |->
           IF w \in stopped /\ cleanup[w] = "new" THEN "used" ELSE cleanup[w]]
      /\ dep' = [c \in Cells |-> Without(dep[c], stopped \cup {Owner})]
      /\ owner' = "removed" /\ posts' = Append(posts, IsUnmounted)
  BY DEF UnmountComponent
<1>2. /\ queue' \in Seq(Effects \cup {Parent}) /\ ToSet(queue') \subseteq ToSet(queue)
      /\ ToSet(queue) \subseteq ToSet(queue') \cup {Parent} /\ Parent \in ToSet(queue)
  BY HeadTailEntries DEF Inv, Typed
<1>3. owner \notin {"new", "setup"}
  BY <1>2 DEF Inv, Lives
<1>4. /\ Shape' /\ Alone' /\ Quiet'
      /\ \A w \in Watchers : /\ HasCb(w)' = HasCb(w) /\ Owned(w)' = Owned(w) /\ (Sync(w)' <=> Sync(w))
                             /\ RunsOf(w)' = RunsOf(w)
      /\ \A m : InTrigger(m)' <=> InTrigger(m)
  BY <1>1, <1>3, SameStack
<1>5. /\ posts' \in Seq(Watchers \cup {IsUnmounted}) /\ ToSet(posts') = ToSet(posts) \cup {IsUnmounted}
  <2> DEFINE S == Watchers \cup {IsUnmounted}
  <2>1. posts \in Seq(S) /\ IsUnmounted \in S
    BY DEF Inv, Typed
  <2> HIDE DEF S
  <2>2. Append(posts, IsUnmounted) \in Seq(S)
        /\ ToSet(Append(posts, IsUnmounted)) = ToSet(posts) \cup {IsUnmounted}
    BY <2>1, AppendEntries
  <2> QED
    BY <1>1, <2>2 DEF S
<1>6. \A w \in Watchers : /\ Active(w)' <=> Active(w) /\ w \notin stopped
                          /\ Read(w)' = Read(w) /\ (life'[w] = "new" <=> life[w] = "new" /\ w \notin stopped)
                          /\ cleanup'[w] = "new" <=> cleanup[w] = "new" /\ w \notin stopped
  BY <1>1 DEF Active, Read
<1>7. \A m : InPosts(m) => InPosts(m)'
  BY <1>1, <1>5 DEF InPosts
<1>8. /\ dep' \in [Cells -> Seq(Effects)]
      /\ \A c \in Cells : ToSet(dep'[c]) = ToSet(dep[c]) \ (stopped \cup {Owner})
  <2> HIDE DEF stopped
  <2>1. \A c \in Cells : /\ Without(dep[c], stopped \cup {Owner}) \in Seq(Effects)
                         /\ ToSet(Without(dep[c], stopped \cup {Owner})) = ToSet(dep[c]) \ (stopped \cup {Owner})
    BY WithoutEntries DEF Inv, Typed
  <2> QED
    BY <1>1, <2>1
<1>9. Typed'
  BY <1>1, <1>2, <1>5, <1>8 DEF Inv, Typed
<1>10. Lives'
  BY <1>1, <1>2, <1>3, <1>4, <1>6 DEF Inv, Lives
<1>11. Subscribed'
  BY <1>1, <1>6, <1>8, Constants DEF Inv, Subscribed
<1>12. Remembers' /\ CleanedUp'
  <2>1. Remembers'
    BY <1>1, <1>4, <1>6 DEF Inv, Remembers
  <2>2. CleanedUp'
    BY <1>1, <1>6 DEF Inv, CleanedUp
  <2> QED
    BY <2>1, <2>2
<1>13. Waiting'
  <2>1. \A w \in Watchers : w # Parent
    BY Constants
  <2> QED
    BY <1>1, <1>2, <1>4, <1>6, <1>7, <2>1 DEF Inv, Waiting
<1>14. Rendering'
  BY <1>1 DEF Rendering
<1> QED
  BY <1>4, <1>9, <1>10, <1>11, <1>12, <1>13, <1>14, Zenon DEF Inv

LEMMA RunJobStep == ASSUME Inv, RunJob PROVE Inv'
<1> DEFINE j == Head(queue)
<1>1. /\ stack # << >> /\ Top.at = "jobs" /\ queue # << >> /\ queue' = Tail(queue)
      /\ UNCHANGED << option, oldValue, cells, show >>
      /\ \/ j = Owner /\ Update
         \/ j = Parent /\ UnmountComponent
         \/ j \notin {Owner, Parent} /\ Run(j, stack) /\ UNCHANGED << life, owner, shown, posts >>
  BY DEF RunJob, At
<1>2. CASE j = Owner /\ Update
  BY <1>1, <1>2, UpdateStep
<1>3. CASE j = Parent /\ UnmountComponent
  BY <1>1, <1>3, UnmountStep
<1>4. CASE j \notin {Owner, Parent} /\ Run(j, stack) /\ UNCHANGED << life, owner, shown, posts >>
  <2>1. /\ j \in Effects \cup {Parent} /\ queue' \in Seq(Effects \cup {Parent})
        /\ ToSet(queue) = {j} \cup ToSet(queue')
    BY <1>1, HeadTailEntries DEF Inv, Typed
  <2>2. j \in Watchers
    BY <1>4, <2>1 DEF Effects
  <2> HIDE DEF j
  <2>3. RunsOf(j) = {} /\ Thinner(stack, j)
    BY <1>1, <2>2, Bottom, SameThinner DEF Inv
  <2>4. Moves(j)
    BY <1>4, <2>1 DEF Moves, Inv, Typed
  <2>5. Turn(j)
    BY <1>1, <1>4, <2>2, <2>3, <2>4, RunTurn
  <2> QED
    BY <2>5, TurnKeeps
<1> QED
  BY <1>1, <1>2, <1>3, <1>4

--------------------------------------------------------------------------------
(* What the program's code does. *)

LEMMA UserTop ==
  ASSUME Inv, UserCode
  PROVE  /\ stack = << >> \/ Top.at \in {"cb", "effect"}
         /\ \A i \in DOMAIN stack : stack[i].at # "made"
<1>1. stack = << >> \/ Top.at \in {"cb", "effect"}
  BY DEF UserCode, At
<1> QED
  BY <1>1, Under DEF Inv, Shape, Typed

LEMMA StopStep == ASSUME Inv, NEW w \in Watchers, StopWatcher(w) PROVE Inv'
<1>1. /\ UserCode /\ life[w] = "active" /\ life' = [life EXCEPT ![w] = "stopped"]
      /\ dep' = Tracked(w, {}) /\ cleanup' = Cleaned(w)
      /\ UNCHANGED << option, oldValue, told, cells, owner, shown, show, queue, posts, stack >>
  BY DEF StopWatcher, Untracked, component
<1>2. /\ Shape' /\ Alone' /\ Quiet'
      /\ \A v \in Watchers : /\ HasCb(v)' = HasCb(v) /\ Owned(v)' = Owned(v) /\ (Sync(v)' <=> Sync(v))
                             /\ RunsOf(v)' = RunsOf(v)
      /\ \A m : InTrigger(m)' <=> InTrigger(m)
  BY <1>1, UserTop, SameStack
<1>3. \A v \in Watchers : /\ Active(v)' <=> Active(v) /\ v # w
                          /\ Read(v)' = Read(v) /\ (life'[v] = "new" <=> life[v] = "new")
  BY <1>1 DEF Active, Read, Inv, Typed
<1>4. \A v \in Watchers : cleanup'[v] = "new" <=> cleanup[v] = "new" /\ v # w
  BY <1>1 DEF Cleaned, Inv, Typed
<1>5. /\ dep' \in [Cells -> Seq(Effects)]
      /\ \A c \in Cells : /\ \A v \in Watchers : v \in ToSet(dep'[c]) <=> v \in ToSet(dep[c]) /\ v # w
                          /\ Owner \in ToSet(dep'[c]) <=> Owner \in ToSet(dep[c])
  <2>1. Watchers \subseteq Effects /\ Owner \in Effects /\ Owner # w
    BY Constants DEF Effects
  <2>2. /\ dep' \in [Cells -> Seq(Effects)]
        /\ \A c \in Cells, m \in Effects :
             m \in ToSet(dep'[c]) <=> IF m = w THEN c \in {} ELSE m \in ToSet(dep[c])
    BY <1>1, <2>1, TrackedEntries DEF Inv
  <2> QED
    BY <2>1, <2>2
<1>6. \A m : InPosts(m)' <=> InPosts(m)
  BY <1>1 DEF InPosts
<1>7. Typed'
  <2>1. cleanup' \in [Watchers -> {"none", "new", "used", "late"}]
    BY <1>1 DEF Cleaned, Inv, Typed
  <2>2. life' \in [Watchers -> {"new", "making", "active", "stopped"}]
    BY <1>1 DEF Inv, Typed
  <2> QED
    BY <1>1, <1>5, <2>1, <2>2 DEF Inv, Typed
<1>8. Lives'
  BY <1>1, <1>2, <1>3, <1>6 DEF Inv, Lives
<1>9. Subscribed'
  BY <1>1, <1>3, <1>5 DEF Inv, Subscribed
<1>10. Remembers'
  BY <1>1, <1>2, <1>3 DEF Inv, Remembers
<1>11. CleanedUp'
  BY <1>1, <1>3, <1>4 DEF Inv, CleanedUp
<1>12. Waiting'
  BY <1>1, <1>2, <1>3, <1>6 DEF Inv, Waiting
<1>13. Rendering'
  BY <1>1, <1>2 DEF Inv, Rendering
<1> QED
  BY <1>2, <1>7, <1>8, <1>9, <1>10, <1>11, <1>12, <1>13, Zenon DEF Inv

LEMMA HideStep == ASSUME Inv, Hide PROVE Inv'
<1>1. /\ stack = << >> /\ owner = "mounted" /\ show' = FALSE /\ QueueJob(Parent)
      /\ UNCHANGED << option, life, oldValue, told, cleanup, cells, dep, owner, shown, posts, stack >>
  BY DEF Hide, watchers
<1>2. /\ Shape' /\ Alone' /\ Quiet'
      /\ \A v \in Watchers : /\ HasCb(v)' = HasCb(v) /\ Owned(v)' = Owned(v) /\ (Sync(v)' <=> Sync(v))
                             /\ RunsOf(v)' = RunsOf(v)
      /\ \A m : InTrigger(m)' <=> InTrigger(m)
  BY <1>1, SameStack
<1>3. \A v \in Watchers : (Active(v)' <=> Active(v)) /\ Read(v)' = Read(v)
  BY <1>1 DEF Active, Read
<1>4. /\ queue' \in Seq(Effects \cup {Parent}) /\ ToSet(queue) \subseteq ToSet(queue')
  <2> DEFINE S == Effects \cup {Parent}
  <2>1. queue \in Seq(S) /\ Parent \in S
    BY DEF Inv, Typed
  <2> HIDE DEF S
  <2>2. Append(queue, Parent) \in Seq(S) /\ ToSet(Append(queue, Parent)) = ToSet(queue) \cup {Parent}
    BY <2>1, AppendEntries
  <2>3. queue' \in Seq(S) /\ ToSet(queue) \subseteq ToSet(queue')
    BY <1>1, <2>1, <2>2 DEF QueueJob
  <2> QED
    BY <2>3 DEF S
<1>5. \A m : InPosts(m)' <=> InPosts(m)
  BY <1>1 DEF InPosts
<1>6. Typed'
  BY <1>1, <1>4 DEF Inv, Typed
<1>7. Lives'
  BY <1>1, <1>2, <1>3, <1>5 DEF Inv, Lives
<1>8. Subscribed'
  BY <1>1, <1>3 DEF Inv, Subscribed
<1>9. Remembers'
  BY <1>1, <1>2, <1>3 DEF Inv, Remembers
<1>10. CleanedUp'
  BY <1>1, <1>3 DEF Inv, CleanedUp
<1>11. Waiting'
  BY <1>1, <1>2, <1>3, <1>4, <1>5 DEF Inv, Waiting
<1>12. Rendering'
  BY <1>1, <1>2, <1>4 DEF Inv, Rendering
<1> QED
  BY <1>2, <1>6, <1>7, <1>8, <1>9, <1>10, <1>11, <1>12, Zenon DEF Inv

\* The run on top registers a cleanup: it is the only run of its watcher.
LEMMA OnInvalidateStep == ASSUME Inv, OnInvalidate PROVE Inv'
<1> DEFINE n == Len(stack)
           w == Top.w
           f == [Top EXCEPT !.registered = TRUE]
<1>1. /\ stack # << >> /\ Top.at \in {"cb", "effect"}
      /\ cleanup' = [cleanup EXCEPT ![w] = IF Active(w) THEN "new" ELSE "late"]
      /\ stack' = Append(Below, f)
      /\ UNCHANGED << option, life, oldValue, told, cells, dep, owner, shown, show, queue, posts >>
  BY DEF OnInvalidate, At, component
<1>2. /\ n \in Nat \ {0} /\ n \in DOMAIN stack /\ Top = stack[n] /\ DOMAIN stack = 1..n
      /\ Top \in Frames
  BY <1>1, Under DEF Inv, Typed
<1>3. /\ Top \in RunFrames /\ w \in Watchers /\ IsRun(n)
  BY <1>1, <1>2, RunOfWatcher DEF Inv, IsRun
<1>4. /\ f \in RunFrames /\ f \in Frames /\ f.at = Top.at /\ f.w = w /\ f.new = Top.new
      /\ f.registered = TRUE
  BY <1>3 DEF RunFrames, Frames
<1> HIDE DEF f
<1>5. /\ stack' \in Seq(Frames) /\ Len(stack') = n /\ stack'[n] = f
      /\ \A i \in 1..(n - 1) : stack'[i] = stack[i]
  BY <1>1, <1>4, Replaced DEF Over, Inv, Typed
<1>6. /\ DOMAIN stack' = DOMAIN stack
      /\ \A i \in DOMAIN stack : /\ stack'[i].at = stack[i].at
                                 /\ i # n => stack'[i] = stack[i]
                                 /\ i = n => stack'[i] = f
  <2> HIDE DEF n
  <2>1. DOMAIN stack' = DOMAIN stack
    BY <1>2, <1>5
  <2>2. \A i \in DOMAIN stack : i # n => i \in 1..(n - 1)
    BY <1>2
  <2>3. \A i \in DOMAIN stack : (i # n => stack'[i] = stack[i]) /\ (i = n => stack'[i] = f)
    BY <1>5, <2>2
  <2> QED
    BY <1>2, <1>4, <2>1, <2>3
<1>7. PICK u \in Watchers : u = Top.w /\ f.w = u /\ stack[n].w = u
  BY <1>2, <1>3, <1>4
<1> HIDE DEF n
<1>8. \A i \in DOMAIN stack : IsRun(i) => stack'[i].w = stack[i].w /\ stack'[i].new = stack[i].new
  BY <1>2, <1>4, <1>6, <1>7
<1>9. \A i \in DOMAIN stack : (IsRun(i)' <=> IsRun(i)) /\ (~IsRun(i) => stack'[i] = stack[i])
  BY <1>3, <1>6 DEF IsRun
<1>10. \A x \in Watchers : /\ HasCb(x)' = HasCb(x) /\ Owned(x)' = Owned(x) /\ (Sync(x)' <=> Sync(x))
                           /\ (Active(x)' <=> Active(x)) /\ Read(x)' = Read(x)
                           /\ RunsOf(x)' = RunsOf(x)
  <2>1. \A x \in Watchers : RunsOf(x)' = RunsOf(x)
    BY <1>6, <1>8, <1>9 DEF RunsOf
  <2> QED
    BY <1>1, <2>1 DEF HasCb, Owned, Sync, Active, Read
<1>11. \A m : (InTrigger(m)' <=> InTrigger(m)) /\ (InPosts(m)' <=> InPosts(m))
  <2>1. \A i \in DOMAIN stack : stack[i].at \in {"trigger", "posts"} => stack'[i] = stack[i]
    BY <1>9 DEF IsRun
  <2> QED
    BY <1>1, <1>6, <2>1 DEF InTrigger, InPosts
<1>12. Typed'
  <2>1. cleanup' \in [Watchers -> {"none", "new", "used", "late"}]
    BY <1>1, <1>3 DEF Inv, Typed
  <2> QED
    BY <1>1, <1>5, <2>1 DEF Inv, Typed
<1>13. Shape'
  <2>1. ASSUME NEW i \in DOMAIN stack, IsRun(i) PROVE stack[i].at = "cb" <=> HasCb(stack'[i].w)
    BY <1>8, <2>1 DEF Inv, Shape
  <2>2. \A i \in DOMAIN stack : stack[i].at # "made"
    <3>1. \A i \in DOMAIN stack : stack[i].at = "made" => i = n /\ ~IsRun(i)
      BY DEF Inv, Shape, IsRun, n
    <3> QED
      BY <1>3, <3>1
  <2>3. \A i \in DOMAIN stack : \A k \in 1..(i - 1) : k \in DOMAIN stack
    BY <1>2
  <2>4. ASSUME NEW i \in DOMAIN stack
        PROVE  /\ stack'[i].at \in {"jobs", "setup"} => i = 1
               /\ stack'[i].at = "setup" => owner' = "setup"
               /\ stack'[i].at = "posts" => \A k \in 1..(i - 1) : stack'[k].at = "jobs"
               /\ stack'[i].at # "made"
    <3>1. stack'[i].at = stack[i].at /\ stack[i].at # "made" /\ owner' = owner
      BY <1>1, <1>6, <2>2
    <3>2. \A k \in 1..(i - 1) : stack'[k].at = stack[k].at
      BY <1>6, <2>3
    <3> QED
      BY <3>1, <3>2 DEF Inv, Shape
  <2>5. \A i \in DOMAIN stack : IsRun(i)' => (stack'[i].at = "cb" <=> option'[stack'[i].w].kind # "effect")
    BY <1>1, <1>6, <1>9, <2>1 DEF HasCb
  <2> QED
    BY <1>6, <2>4, <2>5 DEF Shape, HasCb
<1>14. Alone'
  BY <1>6, <1>8, <1>9 DEF Inv, Alone
<1>15. Quiet'
  <2>1. SUFFICES ASSUME NEW k \in DOMAIN stack, stack'[k].at = "trigger", NEW i \in 1..(k - 1),
                        IsRun(i)', stack'[i].at = "effect" \/ Sync(stack[i].w)'
                 PROVE  stack'[i].w \notin ToSet(stack'[k].todo)
    BY <1>6 DEF Quiet
  <2>2. i \in DOMAIN stack
    BY <1>2, <2>1
  <2>3. stack'[k] = stack[k]
    BY <1>6, <1>9, <2>1 DEF IsRun
  <2>4. IsRun(i) /\ stack'[i].w = stack[i].w /\ stack'[i].at = stack[i].at
    BY <1>6, <1>8, <1>9, <2>1, <2>2
  <2>5. Sync(stack[i].w)' => Sync(stack[i].w)
    BY <1>1, <2>4 DEF Sync, Owned
  <2> QED
    BY <2>1, <2>3, <2>4, <2>5 DEF Inv, Quiet
<1>16. Lives'
  BY <1>1, <1>10, <1>11 DEF Inv, Lives
<1>17. Subscribed'
  BY <1>1, <1>10 DEF Inv, Subscribed
<1>18. Remembers'
  <2>1. \A i \in DOMAIN stack : stack'[i].at = "cb" => stack'[i].new = told[stack'[i].w]
    BY <1>6, <1>8 DEF Inv, Remembers, IsRun
  <2> QED
    BY <1>1, <1>6, <1>10, <2>1 DEF Inv, Remembers
<1>19. CleanedUp'
  <2>1. \A x \in Watchers : x # u => cleanup'[x] = cleanup[x]
    BY <1>1, <1>7 DEF Inv, Typed
  <2>2. cleanup'[u] = "new" => Active(u)
    BY <1>1, <1>7 DEF Inv, Typed
  <2>3. \A i \in DOMAIN stack : IsRun(i) /\ stack[i].w = u => stack'[i].registered
    <3>1. \A i \in DOMAIN stack : IsRun(i) /\ stack[i].w = u => i = n
      BY <1>2, <1>3, <1>7 DEF Inv, Alone
    <3> QED
      BY <1>4, <1>6, <3>1
  <2>4. \A i \in DOMAIN stack : IsRun(i) /\ stack[i].w # u => stack'[i] = stack[i]
    BY <1>6, <1>7
  <2>5. ASSUME NEW x \in Watchers, cleanup'[x] = "new"
        PROVE  Active(x) /\ \A i \in DOMAIN stack : IsRun(i) /\ stack[i].w = x => stack'[i].registered
    BY <2>1, <2>2, <2>3, <2>4, <2>5 DEF Inv, CleanedUp, IsRun
  <2> QED
    BY <1>6, <1>8, <1>9, <1>10, <2>5 DEF CleanedUp, IsRun
<1>20. Waiting'
  BY <1>1, <1>10, <1>11 DEF Inv, Waiting
<1>21. Rendering'
  BY <1>1, <1>11 DEF Inv, Rendering
<1> QED
  BY <1>12, <1>13, <1>14, <1>15, <1>16, <1>17, <1>18, <1>19, <1>20, <1>21, Zenon DEF Inv

\* A frame on top of the stack.
LEMMA PushedStack ==
  ASSUME Typed, NEW g \in Frames, stack' = Append(stack, g)
  PROVE  /\ stack' \in Seq(Frames) /\ Len(stack) \in Nat /\ Len(stack') = Len(stack) + 1
         /\ DOMAIN stack = 1..Len(stack) /\ DOMAIN stack' = DOMAIN stack \cup {Len(stack')}
         /\ Len(stack') \notin DOMAIN stack /\ stack'[Len(stack')] = g
         /\ \A i \in DOMAIN stack : stack'[i] = stack[i] /\ \A k \in 1..(i - 1) : k \in DOMAIN stack
         /\ \A k \in 1..(Len(stack') - 1) : k \in DOMAIN stack
<1>1. /\ stack' \in Seq(Frames) /\ Len(stack) \in Nat /\ Len(stack') = Len(stack) + 1
      /\ DOMAIN stack = 1..Len(stack) /\ DOMAIN stack' = 1..Len(stack')
      /\ stack'[Len(stack')] = g /\ \A i \in DOMAIN stack : stack'[i] = stack[i]
  BY DEF Typed
<1>2. \A m \in Nat : /\ 1..(m + 1) = (1..m) \cup {m + 1} /\ m + 1 \notin 1..m
                     /\ \A k \in 1..((m + 1) - 1) : k \in 1..m
                     /\ \A i \in 1..m : \A k \in 1..(i - 1) : k \in 1..m
  OBVIOUS
<1> QED
  BY <1>1, <1>2

\* A write: who reads the cell is told by the trigger on top, unless it is the
\* code that writes.
LEMMA WriteStep == ASSUME Inv, ~SelfWrites, NEW c \in Cells, Write(c) PROVE Inv'
<1> DEFINE g == [at |-> "trigger", todo |-> Triggered(c)]
           n == Len(stack')
<1>1. /\ UserCode /\ ~OnTheSpot(c) /\ cells' = [cells EXCEPT ![c] = 1 - @]
      /\ stack' = Append(stack, g)
      /\ UNCHANGED << option, life, oldValue, told, cleanup, dep, owner, shown, show, queue, posts >>
  BY DEF Write, watchers, component
<1>2. Triggered(c) \in Seq(Effects) /\ ToSet(Triggered(c)) = ToSet(dep[c]) \ ActiveEffect
  BY TriggeredEntries DEF Inv
<1>3. g \in Frames /\ g.at = "trigger" /\ g.todo = Triggered(c)
  BY <1>2 DEF Frames, TriggerFrames
<1> HIDE DEF g
<1>4. /\ stack' \in Seq(Frames) /\ DOMAIN stack' = DOMAIN stack \cup {n}
      /\ n \notin DOMAIN stack /\ stack'[n] = g
      /\ \A i \in DOMAIN stack : stack'[i] = stack[i] /\ \A k \in 1..(i - 1) : k \in DOMAIN stack
      /\ \A k \in 1..(n - 1) : k \in DOMAIN stack
  BY <1>1, <1>3, PushedStack, Zenon DEF Inv
<1> HIDE DEF n
<1>5. \A i \in DOMAIN stack' : IsRun(i)' <=> i \in DOMAIN stack /\ IsRun(i)
  BY <1>3, <1>4 DEF IsRun
<1>6. \A w \in Watchers : /\ HasCb(w)' = HasCb(w) /\ Owned(w)' = Owned(w) /\ (Sync(w)' <=> Sync(w))
                          /\ (Active(w)' <=> Active(w)) /\ RunsOf(w)' = RunsOf(w)
                          /\ c \notin option[w].source => Read(w)' = Read(w)
  <2>1. \A w \in Watchers : RunsOf(w)' = RunsOf(w)
    BY <1>4, <1>5 DEF RunsOf
  <2>2. ASSUME NEW w \in Watchers, c \notin option[w].source PROVE Read(w)' = Read(w)
    <3>1. option[w].source \subseteq Cells
      BY OptionType DEF Inv
    <3>2. \A x \in option[w].source : cells'[x] = cells[x]
      BY <1>1, <2>2, <3>1 DEF Inv, Typed
    <3> QED
      BY <1>1, <3>2 DEF Read
  <2> QED
    BY <1>1, <2>1, <2>2 DEF HasCb, Owned, Sync, Active
<1>7. \A m : /\ InTrigger(m)' <=> InTrigger(m) \/ m \in ToSet(Triggered(c))
             /\ InPosts(m)' <=> InPosts(m)
  BY <1>1, <1>3, <1>4 DEF InTrigger, InPosts
<1>8. \A i \in DOMAIN stack : stack[i].at = "effect" \/ (stack[i].at = "cb" /\ Sync(stack[i].w)) =>
        c \notin option[stack[i].w].source
  BY <1>1 DEF OnTheSpot
<1>9. \A x \in ActiveEffect : \E i \in DOMAIN stack : stack[i].at = "effect" /\ stack[i].w = x
  BY DEF ActiveEffect
<1>10. \A w \in Watchers : w \in ToSet(dep[c]) <=> Active(w) /\ c \in option[w].source
  BY DEF Inv, Subscribed
<1>11. Typed'
  <2>1. cells' \in [Cells -> {0, 1}]
    BY <1>1 DEF Inv, Typed
  <2> QED
    BY <1>1, <1>4, <2>1 DEF Inv, Typed
<1>12. Shape'
  <2>1. \A i \in DOMAIN stack : stack[i].at # "made"
    BY <1>1, UserTop
  <2>2. ASSUME NEW i \in DOMAIN stack
        PROVE  /\ stack'[i].at \in {"jobs", "setup"} => i = 1
               /\ stack'[i].at = "setup" => owner' = "setup"
               /\ stack'[i].at = "posts" => \A k \in 1..(i - 1) : stack'[k].at = "jobs"
               /\ stack'[i].at # "made"
               /\ IsRun(i)' => (stack'[i].at = "cb" <=> option'[stack'[i].w].kind # "effect")
    <3>1. stack'[i] = stack[i] /\ \A k \in 1..(i - 1) : stack'[k] = stack[k]
      BY <1>4
    <3>2. stack[i].at # "made" /\ (IsRun(i)' => IsRun(i))
      BY <1>5, <2>1, <1>4
    <3> QED
      BY <1>1, <3>1, <3>2 DEF Inv, Shape, HasCb
  <2> QED
    BY <1>3, <1>4, <2>2 DEF Shape, HasCb, IsRun
<1>13. Lives'
  BY <1>1, <1>6, <1>7 DEF Inv, Lives
<1>14. Subscribed'
  BY <1>1, <1>6 DEF Inv, Subscribed
<1>15. Alone'
  BY <1>4, <1>5 DEF Inv, Alone
<1>16. Quiet'
  <2>1. SUFFICES ASSUME NEW k \in DOMAIN stack', stack'[k].at = "trigger", NEW i \in 1..(k - 1),
                        IsRun(i)', stack'[i].at = "effect" \/ Sync(stack[i].w)'
                 PROVE  stack'[i].w \notin ToSet(stack'[k].todo)
    BY DEF Quiet
  <2>2. i \in DOMAIN stack /\ stack'[i] = stack[i]
    BY <1>4, <2>1
  <2>3. IsRun(i) /\ (stack[i].at = "effect" \/ Sync(stack[i].w))
    BY <1>1, <2>1, <2>2 DEF IsRun, Sync, Owned
  <2>4. CASE k \in DOMAIN stack
    BY <1>4, <2>1, <2>2, <2>3, <2>4 DEF Inv, Quiet
  <2>5. CASE k = n
    <3>1. stack[i].w \in Watchers /\ c \notin option[stack[i].w].source
      BY <1>8, <2>2, <2>3, RunOfWatcher DEF Inv, IsRun
    <3>2. stack[i].w \notin ToSet(Triggered(c))
      BY <1>2, <1>10, <3>1
    <3> QED
      BY <1>3, <1>4, <2>2, <2>5, <3>2
  <2> QED
    BY <1>4, <2>4, <2>5
<1>17. Remembers'
  BY <1>1, <1>3, <1>4, <1>6 DEF Inv, Remembers
<1>18. CleanedUp'
  BY <1>1, <1>3, <1>4, <1>6 DEF Inv, CleanedUp
<1>19. Waiting'
  <2>1. SUFFICES ASSUME NEW w \in Watchers, Active(w), told[w] # Read(w)'
                 PROVE  \/ InTrigger(w) \/ w \in ToSet(Triggered(c))
                        \/ ~Sync(w) /\ (w \in ToSet(queue) \/ InPosts(w))
    BY <1>1, <1>6, <1>7 DEF Waiting
  <2>2. CASE c \notin option[w].source
    BY <1>6, <2>1, <2>2 DEF Inv, Waiting
  <2>3. CASE c \in option[w].source
    BY <1>2, <1>8, <1>9, <1>10, <2>1, <2>3
  <2> QED
    BY <2>2, <2>3
<1>20. Rendering'
  <2>1. CASE c \in Rendered
    <3>1. Owner \notin ActiveEffect
      <4>1. \A x \in ActiveEffect : x \in Watchers
        BY <1>9, RunOfWatcher DEF Inv, IsRun
      <4> QED
        BY <4>1, Constants
    <3>2. owner = "mounted" => InTrigger(Owner)'
      BY <1>2, <1>7, <2>1, <3>1 DEF Inv, Subscribed
    <3> QED
      BY <1>1, <3>2 DEF Rendering
  <2>2. CASE c \notin Rendered
    <3>1. \A x \in Rendered : cells'[x] = cells[x]
      BY <1>1, <2>2, Constants DEF Inv, Typed
    <3> QED
      BY <1>1, <1>7, <3>1 DEF Inv, Rendering
  <2> QED
    BY <2>1, <2>2
<1> QED
  BY <1>11, <1>12, <1>13, <1>14, <1>15, <1>16, <1>17, <1>18, <1>19, <1>20, Zenon DEF Inv

\* What doWatch leaves on the stack.
Makes(w, g) ==
  /\ stack' = Append(stack, g) /\ g.at \in {"cb", "effect", "made"} /\ g.w = w
  /\ g.at = "cb" => HasCb(w) /\ g.new = Read(w)
  /\ g.at = "effect" => ~HasCb(w)
  /\ oldValue' = IF g.at = "made" THEN [oldValue EXCEPT ![w] = Read(w)] ELSE oldValue
LEMMA Making ==
  ASSUME Typed, NEW w \in Watchers, DoWatch(w, stack)
  PROVE  \E g \in Frames : Makes(w, g)
<1>3. Read(w) \in Vals
  BY ReadType
<1>1. CASE option[w].kind \in {"effect", "immediate"}
  <2> DEFINE at == IF HasCb(w) THEN "cb" ELSE "effect"
             f == Frame(at, w, Read(w))
  <2>1. at \in {"cb", "effect"}
    OBVIOUS
  <2>2. at = "cb" <=> HasCb(w)
    OBVIOUS
  <2>3. stack' = Append(stack, f) /\ oldValue' = oldValue
    BY <1>1 DEF DoWatch
  <2> HIDE DEF at
  <2>4. RunFrame(f, at, w, Read(w))
    BY <1>3, <2>1, FrameType, Zenon
  <2> HIDE DEF f
  <2>5. f \in Frames
    BY <2>4 DEF RunFrame, Frames
  <2> QED
    BY <2>1, <2>2, <2>3, <2>4, <2>5 DEF RunFrame, Makes
<1>2. CASE ~(option[w].kind \in {"effect", "immediate"})
  <2> DEFINE f == [at |-> "made", w |-> w]
  <2>1. f \in Frames /\ f.at = "made" /\ f.w = w
    BY DEF Frames
  <2>2. stack' = Append(stack, f) /\ oldValue' = [oldValue EXCEPT ![w] = Read(w)]
    BY <1>2 DEF DoWatch
  <2> HIDE DEF f
  <2> QED
    BY <2>1, <2>2 DEF Makes
<1> QED
  BY <1>1, <1>2

\* A watcher is made by a script or by setup(), when nothing runs.
LEMMA DoWatchStep ==
  ASSUME Inv, NEW w \in Watchers, life[w] = "new", DoWatch(w, stack),
         stack = << >> \/ Top.at = "setup", ~Owned(w) \/ owner = "setup"
  PROVE  Inv'
<1>1. /\ life' = [life EXCEPT ![w] = "making"] /\ told' = [told EXCEPT ![w] = Read(w)]
      /\ dep' = Tracked(w, option[w].source)
      /\ UNCHANGED << option, cleanup, cells, owner, shown, show, queue, posts >>
  BY DEF DoWatch, component
<1>2. /\ \A v \in Watchers : RunsOf(v) = {}
      /\ \A i \in DOMAIN stack : ~IsRun(i) /\ stack[i].at = "setup" /\ i = 1
  <2>1. CASE stack = << >>
    BY <2>1 DEF RunsOf
  <2>2. CASE stack # << >>
    BY <2>2, Bottom DEF IsRun
  <2> QED
    BY <2>1, <2>2
<1>3. Read(w) \in Vals
  BY ReadType DEF Inv
<1>4. PICK g \in Frames :
        /\ stack' = Append(stack, g) /\ g.at \in {"cb", "effect", "made"} /\ g.w = w
        /\ g.at = "cb" => HasCb(w) /\ g.new = Read(w)
        /\ g.at = "effect" => ~HasCb(w)
        /\ oldValue' = IF g.at = "made" THEN [oldValue EXCEPT ![w] = Read(w)] ELSE oldValue
  BY Making DEF Inv, Makes
<1>5. PICK n :
        /\ n = Len(stack')
        /\ stack' \in Seq(Frames) /\ DOMAIN stack' = DOMAIN stack \cup {n}
        /\ n \notin DOMAIN stack /\ stack'[n] = g
        /\ \A i \in DOMAIN stack : stack'[i] = stack[i] /\ \A k \in 1..(i - 1) : k \in DOMAIN stack
        /\ \A k \in 1..(n - 1) : k \in DOMAIN stack
  BY <1>4, PushedStack, Zenon DEF Inv
<1>6. \A i \in DOMAIN stack' : IsRun(i)' => i = n /\ g.at # "made"
  BY <1>2, <1>4, <1>5 DEF IsRun
<1>7. \A v \in Watchers : /\ HasCb(v)' = HasCb(v) /\ Owned(v)' = Owned(v) /\ (Sync(v)' <=> Sync(v))
                          /\ Read(v)' = Read(v)
                          /\ Active(v)' <=> Active(v) \/ v = w
                          /\ v # w => life'[v] = life[v] /\ told'[v] = told[v] /\ oldValue'[v] = oldValue[v]
  BY <1>1, <1>4 DEF HasCb, Owned, Sync, Read, Active, Inv, Typed
<1>8. /\ life'[w] = "making" /\ told'[w] = Read(w) /\ ~Active(w)
      /\ g.at = "made" => oldValue'[w] = Read(w)
  BY <1>1, <1>4 DEF Active, Inv, Typed
<1>9. \A m : (InTrigger(m)' <=> InTrigger(m)) /\ (InPosts(m)' <=> InPosts(m))
  BY <1>1, <1>4, <1>5 DEF InTrigger, InPosts
<1>10. /\ dep' \in [Cells -> Seq(Effects)]
       /\ \A c \in Cells : /\ \A v \in Watchers : v \in ToSet(dep'[c]) <=>
                                IF v = w THEN c \in option[w].source ELSE v \in ToSet(dep[c])
                           /\ Owner \in ToSet(dep'[c]) <=> Owner \in ToSet(dep[c])
  <2>1. Watchers \subseteq Effects /\ Owner \in Effects /\ Owner # w
    BY Constants DEF Effects
  <2>4. Typed /\ w \in Effects
    BY <2>1 DEF Inv
  <2> DEFINE source == option[w].source
  <2>5. dep' = Tracked(w, source)
    BY <1>1
  <2>2. /\ dep' \in [Cells -> Seq(Effects)]
        /\ \A c \in Cells, m \in Effects :
             m \in ToSet(dep'[c]) <=> IF m = w THEN c \in source ELSE m \in ToSet(dep[c])
    BY <2>4, <2>5, TrackedEntries, Zenon
  <2> HIDE DEF source
  <2>3. \A c \in Cells : /\ \A v \in Watchers : v \in ToSet(dep'[c]) <=>
                              IF v = w THEN c \in source ELSE v \in ToSet(dep[c])
                         /\ Owner \in ToSet(dep'[c]) <=> Owner \in ToSet(dep[c])
    BY <2>1, <2>2
  <2> QED
    BY <2>2, <2>3 DEF source
<1>11. Typed'
  <2>1. /\ life' \in [Watchers -> {"new", "making", "active", "stopped"}]
        /\ told' \in [Watchers -> Vals] /\ oldValue' \in [Watchers -> Vals]
    BY <1>1, <1>3, <1>4 DEF Inv, Typed
  <2> QED
    BY <1>1, <1>5, <1>10, <2>1 DEF Inv, Typed
<1>12. Shape'
  <2>1. ASSUME NEW i \in DOMAIN stack
        PROVE  stack'[i] = stack[i] /\ stack[i].at = "setup" /\ i = 1 /\ owner' = "setup"
    BY <1>1, <1>2, <1>5, <2>1 DEF Inv, Shape
  <2>2. n = Len(stack')
    BY <1>5
  <2>3. IsRun(n)' => (g.at = "cb" <=> option'[w].kind # "effect")
    BY <1>1, <1>4, <1>5 DEF IsRun, HasCb
  <2>4. n \notin DOMAIN stack /\ life'[g.w] = "making"
    BY <1>4, <1>5, <1>8
  <2> QED
    BY <1>4, <1>5, <2>1, <2>2, <2>3, <2>4 DEF Shape, HasCb, IsRun
<1>13. Lives'
  BY <1>1, <1>7, <1>8, <1>9 DEF Inv, Lives
<1>14. Subscribed'
  BY <1>1, <1>7, <1>8, <1>10 DEF Inv, Subscribed
<1>15. Alone'
  BY <1>6 DEF Alone
<1>16. Quiet'
  <2>1. \A i \in DOMAIN stack' : stack'[i].at # "trigger"
    BY <1>2, <1>4, <1>5
  <2> QED
    BY <2>1 DEF Quiet
<1>17. Remembers'
  <2>1. ASSUME NEW i \in DOMAIN stack', stack'[i].at = "cb" PROVE stack'[i].new = told'[stack'[i].w]
    BY <1>2, <1>4, <1>5, <1>8, <2>1
  <2>2. ASSUME NEW v \in Watchers, HasCb(v), Active(v)', RunsOf(v)' = {} PROVE oldValue'[v] = told'[v]
    <3>1. CASE v = w
      <4>1. IsRun(n)' => n \in RunsOf(w)'
        BY <1>4, <1>5 DEF RunsOf
      <4>2. g.at = "made"
        BY <1>4, <1>5, <2>2, <3>1, <4>1 DEF IsRun
      <4> QED
        BY <1>8, <3>1, <4>2
    <3>2. CASE v # w
      BY <1>2, <1>7, <2>2, <3>2 DEF Inv, Remembers
    <3> QED
      BY <3>1, <3>2
  <2> QED
    BY <1>7, <2>1, <2>2 DEF Remembers
<1>18. CleanedUp'
  <2>1. \A v \in Watchers : cleanup[v] = "new" => Active(v) /\ v # w
    BY <1>8 DEF Inv, CleanedUp
  <2>2. \A i \in DOMAIN stack' : stack'[i].at \in {"cb", "effect"} => stack'[i].w = w
    BY <1>4, <1>5, <1>6 DEF IsRun
  <2> QED
    BY <1>1, <1>7, <2>1, <2>2 DEF CleanedUp
<1>19. Waiting'
  BY <1>1, <1>7, <1>8, <1>9 DEF Inv, Waiting
<1>20. Rendering'
  BY <1>1, <1>9 DEF Inv, Rendering
<1> QED
  BY <1>11, <1>12, <1>13, <1>14, <1>15, <1>16, <1>17, <1>18, <1>19, <1>20, Zenon DEF Inv

LEMMA MakingSteps ==
  ASSUME Inv, (\E w \in Watchers : Create(w)) \/ SetupNext
  PROVE  Inv'
<1>1. ASSUME NEW w \in Watchers, Create(w) PROVE Inv'
  BY <1>1, DoWatchStep DEF Create
<1>2. CASE SetupNext
  <2>1. stack # << >> /\ Top.at = "setup"
    BY <1>2 DEF SetupNext, At
  <2>2. PICK w \in Unmade : DoWatch(w, stack)
    BY <1>2 DEF SetupNext
  <2>3. owner = "setup"
    BY <2>1, Bottom
  <2>4. w \in Watchers /\ life[w] = "new"
    BY DEF Unmade
  <2> QED
    BY <2>1, <2>2, <2>3, <2>4, DoWatchStep
<1> QED
  BY <1>1, <1>2

--------------------------------------------------------------------------------
(***************************************************************************)
(* The steps of rendering and flushing that begin one: nothing runs and no  *)
(* trigger is under way.                                                    *)
(***************************************************************************)
Begins ==
  /\ stack = << >> \/ Top.at \in {"jobs", "setup"}
  /\ UNCHANGED << option, life, oldValue, told, cleanup, cells >>
  /\ stack' \in Seq(Frames) /\ show' \in BOOLEAN
  /\ \A i \in DOMAIN stack' :
       /\ stack'[i].at \in {"jobs", "setup", "posts"}
       /\ stack'[i].at \in {"jobs", "setup"} => i = 1
       /\ stack'[i].at = "setup" => owner' = "setup"
       /\ stack'[i].at = "posts" => \A k \in 1..(i - 1) : stack'[k].at = "jobs"
  /\ queue' \in Seq(Effects \cup {Parent}) /\ ToSet(queue') = ToSet(queue)
  /\ posts' \in Seq(Watchers \cup {IsUnmounted}) /\ \A m : InPosts(m)' <=> InPosts(m)
  /\ \/ owner' = owner /\ shown' = shown
     \/ owner = "new" /\ owner' = "setup"
     \/ owner = "setup" /\ owner' = "mounted" /\ Unmade = {} /\ shown' = cells
  /\ dep' \in [Cells -> Seq(Effects)]
  /\ \A c \in Cells :
       /\ \A w \in Watchers : w \in ToSet(dep'[c]) <=> w \in ToSet(dep[c])
       /\ owner' = "mounted" /\ c \in Rendered => Owner \in ToSet(dep'[c])

LEMMA BeginsKeeps == ASSUME Inv, Begins PROVE Inv'
<1>1. /\ UNCHANGED << option, life, oldValue, told, cleanup, cells >>
      /\ ToSet(queue') = ToSet(queue) /\ \A m : InPosts(m)' <=> InPosts(m)
      /\ \A i \in DOMAIN stack' : stack'[i].at \in {"jobs", "setup", "posts"}
  BY DEF Begins
<1>2. (\A w \in Watchers : RunsOf(w) = {}) /\ \A i \in DOMAIN stack : stack[i].at # "trigger"
  <2>1. CASE stack = << >>
    BY <2>1 DEF RunsOf
  <2>2. CASE stack # << >>
    BY <2>2, Bottom DEF Begins
  <2> QED
    BY <2>1, <2>2
<1>3. \A m : ~InTrigger(m) /\ ~InTrigger(m)'
  BY <1>1, <1>2 DEF InTrigger
<1>4. \A i \in DOMAIN stack' : ~IsRun(i)' /\ stack'[i].at \notin {"made", "trigger", "cb", "effect"}
  BY <1>1 DEF IsRun
<1>5. \A w \in Watchers : /\ HasCb(w)' = HasCb(w) /\ Owned(w)' = Owned(w) /\ (Sync(w)' => Sync(w))
                          /\ (Active(w)' <=> Active(w)) /\ Read(w)' = Read(w)
  BY <1>1 DEF HasCb, Owned, Sync, Active, Read, Begins
<1>6. Typed'
  BY DEF Begins, Inv, Typed
<1>7. Shape'
  BY <1>4 DEF Begins, Shape
<1>8. Lives'
  BY <1>1, <1>5 DEF Begins, Inv, Lives, Unmade
<1>9. Subscribed'
  BY <1>1, <1>5 DEF Begins, Inv, Subscribed
<1>10. Alone' /\ Quiet' /\ CleanedUp'
  <2>1. Alone' /\ Quiet'
    BY <1>4 DEF Alone, Quiet
  <2>2. CleanedUp'
    BY <1>1, <1>4, <1>5 DEF Inv, CleanedUp
  <2> QED
    BY <2>1, <2>2
<1>11. Remembers'
  BY <1>1, <1>2, <1>4, <1>5 DEF Inv, Remembers
<1>12. Waiting'
  BY <1>1, <1>3, <1>5 DEF Inv, Waiting
<1>13. Rendering'
  BY <1>1, <1>3 DEF Begins, Inv, Rendering
<1> QED
  BY <1>6, <1>7, <1>8, <1>9, <1>10, <1>11, <1>12, <1>13, Zenon DEF Inv

\* The frame that flushes the post callbacks has them all to run.
FlushFrame(g) == g \in Frames /\ g.at = "posts" /\ ToSet(g.todo) = ToSet(posts)
LEMMA PostsFrame ==
  ASSUME Inv, NEW of \in {"render", "flush"}
  PROVE  FlushFrame([at |-> "posts", of |-> of, todo |-> Deduplicated(posts)])
<1> DEFINE S == Watchers \cup {IsUnmounted}
<1>1. posts \in Seq(S)
  BY DEF Inv, Typed
<1> HIDE DEF S
<1>2. Deduplicated(posts) \in Seq(S) /\ ToSet(Deduplicated(posts)) = ToSet(posts)
  BY <1>1, DeduplicatedEntries
<1> USE DEF S
<1> QED
  BY <1>2 DEF FlushFrame, Frames, PostFrames

LEMMA BeginSteps ==
  ASSUME Inv, Mount \/ FirstRender \/ RenderOther \/ FlushJobs \/ FlushPostFlushCbs
  PROVE  Inv'
<1> DEFINE rendering == [at |-> "posts", of |-> "render", todo |-> Deduplicated(posts)]
           flushing == [at |-> "posts", of |-> "flush", todo |-> Deduplicated(posts)]
<1>1. FlushFrame(rendering) /\ FlushFrame(flushing)
  BY PostsFrame
<1>2. /\ << >> \in Seq(Watchers \cup {IsUnmounted}) /\ ToSet(<< >>) = {}
      /\ queue \in Seq(Effects \cup {Parent}) /\ posts \in Seq(Watchers \cup {IsUnmounted})
      /\ show \in BOOLEAN /\ dep \in [Cells -> Seq(Effects)]
  BY DEF Inv, Typed, ToSet
<1>3. ASSUME NEW g \in Frames, stack' = << g >>
      PROVE  stack' \in Seq(Frames) /\ DOMAIN stack' = {1} /\ stack'[1] = g
  BY <1>3
<1>4. CASE Mount
  <2> DEFINE g == [at |-> "setup"]
  <2>1. /\ stack = << >> /\ owner = "new" /\ owner' = "setup" /\ stack' = << g >>
        /\ UNCHANGED << option, life, oldValue, told, cleanup, cells, dep, shown, show, queue, posts >>
    BY <1>4 DEF Mount, watchers
  <2>2. g \in Frames /\ g.at = "setup"
    BY DEF Frames
  <2> HIDE DEF g
  <2>3. stack' \in Seq(Frames) /\ DOMAIN stack' = {1} /\ stack'[1] = g
    BY <1>3, <2>1, <2>2
  <2>4. \A m : InPosts(m)' <=> InPosts(m)
    BY <2>1, <2>2, <2>3 DEF InPosts
  <2>5. Begins
    BY <1>2, <2>1, <2>2, <2>3, <2>4 DEF Begins
  <2> QED
    BY <2>5, BeginsKeeps
<1>5. CASE FlushJobs
  <2> DEFINE g == [at |-> "jobs"]
  <2>1. /\ stack = << >> /\ stack' = << g >> /\ queue' \in Sorted(queue)
        /\ UNCHANGED << option, life, oldValue, told, cleanup, cells, dep, owner, shown, show, posts >>
    BY <1>5 DEF FlushJobs, watchers, component
  <2>2. g \in Frames /\ g.at = "jobs"
    BY DEF Frames
  <2> HIDE DEF g
  <2>3. stack' \in Seq(Frames) /\ DOMAIN stack' = {1} /\ stack'[1] = g
    BY <1>3, <2>1, <2>2
  <2>4. \A m : InPosts(m)' <=> InPosts(m)
    BY <2>1, <2>2, <2>3 DEF InPosts
  <2>5. queue' \in Seq(Effects \cup {Parent}) /\ ToSet(queue') = ToSet(queue)
    BY <1>2, <2>1, SortedEntries
  <2>6. Begins
    BY <1>2, <2>1, <2>2, <2>3, <2>4, <2>5 DEF Begins, Inv, Subscribed
  <2> QED
    BY <2>6, BeginsKeeps
<1>6. ASSUME stack = << >> \/ Top.at = "setup", stack' = << rendering >>, posts' = << >>,
             \A i \in DOMAIN stack : stack[i].at # "posts"
      PROVE  /\ stack' \in Seq(Frames) /\ DOMAIN stack' = {1} /\ stack'[1].at = "posts"
             /\ \A m : InPosts(m)' <=> InPosts(m)
  <2> HIDE DEF rendering
  <2>1. rendering \in Frames /\ rendering.at = "posts" /\ ToSet(rendering.todo) = ToSet(posts)
    BY <1>1 DEF FlushFrame
  <2>2. stack' \in Seq(Frames) /\ DOMAIN stack' = {1} /\ stack'[1] = rendering
    BY <1>3, <1>6, <2>1
  <2> QED
    BY <1>2, <1>6, <2>1, <2>2 DEF InPosts
<1>7. CASE RenderOther
  <2>1. /\ stack = << >> /\ stack' = << rendering >> /\ posts' = << >>
        /\ UNCHANGED << option, life, oldValue, told, cleanup, cells, dep, owner, shown, show, queue >>
    BY <1>7 DEF RenderOther, watchers, component
  <2> HIDE DEF rendering
  <2>2. /\ stack' \in Seq(Frames) /\ DOMAIN stack' = {1} /\ stack'[1].at = "posts"
        /\ \A m : InPosts(m)' <=> InPosts(m)
    BY <1>6, <2>1
  <2>3. Begins
    BY <1>2, <2>1, <2>2 DEF Begins, Inv, Subscribed
  <2> QED
    BY <2>3, BeginsKeeps
<1>8. CASE FirstRender
  <2>1. /\ stack # << >> /\ Top.at = "setup" /\ Unmade = {} /\ owner' = "mounted" /\ shown' = cells
        /\ dep' = Tracked(Owner, Rendered) /\ stack' = << rendering >> /\ posts' = << >>
        /\ UNCHANGED << option, life, oldValue, told, cleanup, cells, show, queue >>
    BY <1>8 DEF FirstRender, watchers, At
  <2> HIDE DEF rendering
  <2>2. owner = "setup" /\ \A i \in DOMAIN stack : stack[i].at # "posts"
    BY <2>1, Bottom
  <2>3. /\ stack' \in Seq(Frames) /\ DOMAIN stack' = {1} /\ stack'[1].at = "posts"
        /\ \A m : InPosts(m)' <=> InPosts(m)
    BY <1>6, <2>1, <2>2
  <2>4. /\ dep' \in [Cells -> Seq(Effects)]
        /\ \A c \in Cells, m \in Effects :
             m \in ToSet(dep'[c]) <=> IF m = Owner THEN c \in Rendered ELSE m \in ToSet(dep[c])
    <3>1. Typed /\ Owner \in Effects
      BY DEF Inv, Effects
    <3> QED
      BY <2>1, <3>1, TrackedEntries
  <2>5. \A c \in Cells : /\ \A w \in Watchers : w \in ToSet(dep'[c]) <=> w \in ToSet(dep[c])
                         /\ c \in Rendered => Owner \in ToSet(dep'[c])
    BY <2>4, Constants DEF Effects
  <2>6. Begins
    BY <1>2, <2>1, <2>2, <2>3, <2>4, <2>5 DEF Begins
  <2> QED
    BY <2>6, BeginsKeeps
<1>9. CASE FlushPostFlushCbs
  <2>1. /\ stack # << >> /\ Top.at = "jobs" /\ stack' = Append(stack, flushing) /\ posts' = << >>
        /\ UNCHANGED << option, life, oldValue, told, cleanup, cells, dep, owner, shown, show, queue >>
    BY <1>9 DEF FlushPostFlushCbs, watchers, component, At
  <2> HIDE DEF flushing
  <2>2. flushing \in Frames /\ flushing.at = "posts" /\ ToSet(flushing.todo) = ToSet(posts)
    BY <1>1 DEF FlushFrame
  <2>3. Len(stack) = 1 /\ DOMAIN stack = {1} /\ stack[1].at = "jobs"
    BY <2>1, Bottom
  <2>4. /\ stack' \in Seq(Frames) /\ DOMAIN stack' = {1, 2} /\ stack'[1] = stack[1]
        /\ stack'[2] = flushing
    BY <2>1, <2>2, <2>3, PushedStack DEF Inv
  <2>5. \A m : InPosts(m)' <=> InPosts(m)
    BY <1>2, <2>1, <2>2, <2>3, <2>4 DEF InPosts
  <2>6. \A i \in DOMAIN stack' :
          /\ stack'[i].at \in {"jobs", "setup", "posts"}
          /\ stack'[i].at \in {"jobs", "setup"} => i = 1
          /\ stack'[i].at # "setup"
          /\ stack'[i].at = "posts" => \A k \in 1..(i - 1) : stack'[k].at = "jobs"
    <3>1. \A k \in 1..(2 - 1) : k = 1
      OBVIOUS
    <3> QED
      BY <2>2, <2>3, <2>4, <3>1
  <2>7. Begins
    BY <1>2, <2>1, <2>4, <2>5, <2>6 DEF Begins, Inv, Subscribed
  <2> QED
    BY <2>7, BeginsKeeps
<1> QED
  BY <1>4, <1>5, <1>7, <1>8, <1>9

--------------------------------------------------------------------------------
(***************************************************************************)
(* What is put on top of the stack: a callback that begins is given the     *)
(* value of the last one as the old value, and flushPostFlushCbs finds the  *)
(* component up to date.                                                    *)
(***************************************************************************)
Previous(f) ==
  f.at = "cb" /\ Active(f.w) =>
    f.old = told[f.w] /\ (f.new # f.old \/ option[f.w].kind = "array")
DomUpToDate(f) ==
  f.at = "posts" /\ f.of = "flush" /\ owner = "mounted" => \A c \in Rendered : shown[c] = cells[c]
Pushes(f) ==
  /\ f \in Frames /\ Len(stack') = Len(stack) + 1 /\ stack'[Len(stack')] = f
  /\ Previous(f) /\ DomUpToDate(f)

LEMMA PlainPush ==
  ASSUME Inv, NEW st \in Seq(Frames), Len(st) = Len(stack), NEW f \in Frames, stack' = Append(st, f),
         Previous(f), DomUpToDate(f)
  PROVE  Pushes(f)
BY DEF Pushes, Inv, Typed

LEMMA SameLength ==
  ASSUME Typed, NEW st, NEW e, Thinner(st, e)
  PROVE  st \in Seq(Frames) /\ Len(st) = Len(stack)
<1>1. /\ st \in Seq(Frames) /\ Len(st) \in Nat /\ Len(stack) \in Nat
      /\ 1..Len(st) = 1..Len(stack)
  BY DEF Thinner, Typed
<1>2. ASSUME NEW a \in Nat, NEW b \in Nat, 1..a = 1..b PROVE a <= b
  <2>1. a = 0 \/ a \in 1..b
    BY <1>2
  <2> QED
    BY <2>1
<1>3. Len(st) <= Len(stack) /\ Len(stack) <= Len(st)
  BY <1>1, <1>2
<1> QED
  BY <1>1, <1>3

LEMMA RunPushes ==
  ASSUME Inv, NEW w \in Watchers, RunsOf(w) = {}, NEW st, NEW e, Thinner(st, e), Run(w, st)
  PROVE  Len(stack') = Len(stack) \/ \E f : Pushes(f)
<1>1. st \in Seq(Frames) /\ Len(st) = Len(stack)
  BY SameLength DEF Inv
<1>2. Read(w) \in Vals /\ Value(w) \in Vals
  BY ReadType DEF Inv
<1>3. stack' = st => Len(stack') = Len(stack)
  BY <1>1
<1>4. CASE ~HasCb(w)
  <2>1. RunEffect(w, st)
    BY <1>4 DEF Run
  <2> DEFINE f == Frame("effect", w, Read(w))
  <2>2. stack' = st \/ stack' = Append(st, f)
    BY <2>1 DEF RunEffect
  <2>3. "effect" \in {"cb", "effect"}
    OBVIOUS
  <2>4. Typed
    BY DEF Inv
  <2>5. RunFrame(f, "effect", w, Read(w))
    BY <1>2, <2>3, <2>4, FrameType, Zenon
  <2> HIDE DEF f
  <2>6. f \in Frames /\ Previous(f) /\ DomUpToDate(f)
    BY <2>5 DEF RunFrame, Frames, Previous, DomUpToDate
  <2>7. CASE stack' = Append(st, f)
    BY <1>1, <2>6, <2>7, PlainPush
  <2> QED
    BY <1>3, <2>2, <2>7
<1>5. CASE HasCb(w)
  <2>1. ApplyCb(w, st)
    BY <1>5 DEF Run
  <2> DEFINE f == Frame("cb", w, Value(w))
  <2>2. stack' = st \/ (stack' = Append(st, f) /\ HasChanged(w, Value(w)))
    BY <2>1 DEF ApplyCb
  <2>3. "cb" \in {"cb", "effect"}
    OBVIOUS
  <2>4. Typed
    BY DEF Inv
  <2>5. RunFrame(f, "cb", w, Value(w))
    BY <1>2, <2>3, <2>4, FrameType, Zenon
  <2> HIDE DEF f
  <2>6. Active(w) => oldValue[w] = told[w]
    BY <1>5 DEF Inv, Remembers
  <2>7. ASSUME HasChanged(w, Value(w)) PROVE f \in Frames /\ Previous(f) /\ DomUpToDate(f)
    BY <2>5, <2>6, <2>7 DEF RunFrame, Frames, Previous, DomUpToDate, HasChanged
  <2>8. CASE stack' = Append(st, f) /\ HasChanged(w, Value(w))
    BY <1>1, <2>7, <2>8, PlainPush
  <2> QED
    BY <1>3, <2>2, <2>8
<1> QED
  BY <1>4, <1>5

LEMMA TurnPushes ==
  ASSUME Inv, TriggerNext \/ RunPost \/ RunJob
  PROVE  Len(stack') = Len(stack) \/ \E f : Pushes(f)
<1> DEFINE e == Head(Top.todo)
           st == Append(Below, [Top EXCEPT !.todo = Tail(Top.todo)])
<1>1. CASE TriggerNext
  <2>1. /\ stack # << >> /\ Top.at = "trigger" /\ Top.todo # << >>
        /\ stack' = st \/ (Place(e) = "now" /\ Run(e, st))
    BY <1>1 DEF TriggerNext, At
  <2>2. Thinner(st, e) /\ e \in Effects
    BY <2>1, TopThinner DEF Inv
  <2>3. CASE stack' = st
    BY <2>2, <2>3, SameLength DEF Inv
  <2>4. CASE Place(e) = "now" /\ Run(e, st)
    <3>1. e \in Watchers /\ Sync(e)
      BY <2>2, <2>4 DEF Effects, Place
    <3>2. RunsOf(e) = {}
      BY <2>1, <3>1, SyncIdle
    <3> HIDE DEF e, st
    <3> QED
      BY <2>2, <2>4, <3>1, <3>2, RunPushes
  <2> QED
    BY <2>1, <2>3, <2>4
<1>2. CASE RunPost
  <2>1. /\ stack # << >> /\ Top.at = "posts" /\ Top.todo # << >>
        /\ stack' = st \/ (e # IsUnmounted /\ Run(e, st))
    BY <1>2 DEF RunPost, At
  <2>2. Thinner(st, e) /\ e \in Watchers \cup {IsUnmounted}
    BY <2>1, TopThinner DEF Inv
  <2>3. \A w \in Watchers : RunsOf(w) = {}
    BY <2>1, Bottom
  <2> HIDE DEF e, st
  <2>4. CASE stack' = st
    BY <2>2, <2>4, SameLength DEF Inv
  <2>5. CASE e # IsUnmounted /\ Run(e, st)
    BY <2>2, <2>3, <2>5, RunPushes
  <2> QED
    BY <2>1, <2>4, <2>5
<1>3. CASE RunJob
  <2> DEFINE j == Head(queue)
  <2>1. /\ stack # << >> /\ Top.at = "jobs" /\ queue # << >>
        /\ stack' = stack \/ (j \notin {Owner, Parent} /\ Run(j, stack))
    BY <1>3 DEF RunJob, At, Update, UnmountComponent
  <2>2. j \in Effects \cup {Parent}
    BY <2>1, HeadTailEntries DEF Inv, Typed
  <2>3. \A w \in Watchers : RunsOf(w) = {}
    BY <2>1, Bottom
  <2> HIDE DEF j
  <2>4. Thinner(stack, j)
    BY SameThinner DEF Inv
  <2>5. CASE j \notin {Owner, Parent} /\ Run(j, stack)
    BY <2>2, <2>3, <2>4, <2>5, RunPushes DEF Effects
  <2> QED
    BY <2>1, <2>5
<1> QED
  BY <1>1, <1>2, <1>3

LEMMA CodePushes ==
  ASSUME Inv, Code
  PROVE  ~(Len(stack') > Len(stack)) \/ \E f : Pushes(f)
<1>1. stack \in Seq(Frames) /\ Len(stack) \in Nat
  BY DEF Inv, Typed
<1>2. stack' = stack => ~(Len(stack') > Len(stack))
  BY <1>1
<1>3. ASSUME NEW c \in Cells, Write(c) PROVE \E f : Pushes(f)
  <2> DEFINE g == [at |-> "trigger", todo |-> Triggered(c)]
  <2>1. stack' = Append(stack, g)
    BY <1>3 DEF Write
  <2>2. Triggered(c) \in Seq(Effects)
    BY TriggeredEntries DEF Inv
  <2>3. g \in Frames /\ g.at = "trigger"
    BY <2>2 DEF Frames, TriggerFrames
  <2> HIDE DEF g
  <2>4. Previous(g) /\ DomUpToDate(g)
    BY <2>3 DEF Previous, DomUpToDate
  <2> QED
    BY <1>1, <2>1, <2>3, <2>4, PlainPush
<1>4. ASSUME NEW w \in Watchers, Create(w) PROVE \E f : Pushes(f)
  <2>1. PICK g \in Frames : Makes(w, g)
    BY <1>4, Making DEF Create, Inv
  <2>2. ~Active(w) /\ g.w = w /\ g.at # "posts" /\ stack' = Append(stack, g)
    BY <1>4, <2>1 DEF Makes, Create, Active
  <2>3. Previous(g) /\ DomUpToDate(g)
    BY <2>2 DEF Previous, DomUpToDate
  <2> QED
    BY <1>1, <2>2, <2>3, PlainPush
<1>5. CASE OnInvalidate \/ Return
  <2>1. stack # << >> /\ \/ stack' = Below
                         \/ \E g : stack' = Append(Below, g)
    BY <1>5 DEF OnInvalidate, Return, At
  <2>2. Below \in Seq(Frames) /\ Len(Below) = Len(stack) - 1
    BY <1>1, <2>1, Under
  <2>3. \A g : Len(Append(Below, g)) = Len(Below) + 1
    BY <2>2
  <2> QED
    BY <1>1, <2>1, <2>2, <2>3
<1>6. CASE Mount
  <2> DEFINE g == [at |-> "setup"]
  <2>1. stack = << >> /\ stack' = Append(stack, g)
    BY <1>6 DEF Mount
  <2>2. g \in Frames /\ g.at = "setup"
    BY DEF Frames
  <2> HIDE DEF g
  <2>3. Previous(g) /\ DomUpToDate(g)
    BY <2>2 DEF Previous, DomUpToDate
  <2> QED
    BY <1>1, <2>1, <2>2, <2>3, PlainPush
<1>7. CASE RenderOther
  <2> DEFINE g == [at |-> "posts", of |-> "render", todo |-> Deduplicated(posts)]
  <2>1. stack = << >> /\ stack' = Append(stack, g)
    BY <1>7 DEF RenderOther
  <2>2. g \in Frames /\ g.at = "posts" /\ g.of = "render"
    BY PostsFrame DEF FlushFrame
  <2> HIDE DEF g
  <2>3. Previous(g) /\ DomUpToDate(g)
    BY <2>2 DEF Previous, DomUpToDate
  <2> QED
    BY <1>1, <2>1, <2>2, <2>3, PlainPush
<1>8. CASE (\E w \in Watchers : StopWatcher(w)) \/ Hide
  BY <1>2, <1>8 DEF StopWatcher, Hide
<1> QED
  BY <1>3, <1>4, <1>5, <1>6, <1>7, <1>8 DEF Code

LEMMA RuntimePushes ==
  ASSUME Inv, Runtime
  PROVE  ~(Len(stack') > Len(stack)) \/ \E f : Pushes(f)
<1>1. stack \in Seq(Frames) /\ Len(stack) \in Nat
  BY DEF Inv, Typed
<1>2. CASE TriggerNext \/ RunPost \/ RunJob
  <2>1. Len(stack') = Len(stack) \/ \E f : Pushes(f)
    BY <1>2, TurnPushes
  <2> QED
    BY <1>1, <2>1
<1>3. CASE TriggerEnd \/ Made \/ EndPosts
  <2>1. stack # << >> /\ stack' = Below
    BY <1>3 DEF TriggerEnd, Made, EndPosts, At
  <2>2. Len(Below) = Len(stack) - 1
    BY <1>1, <2>1, Under
  <2> QED
    BY <1>1, <2>1, <2>2
<1>4. CASE EndFlush
  BY <1>1, <1>4 DEF EndFlush
<1>5. CASE SetupNext
  <2>1. PICK w \in Watchers : life[w] = "new" /\ DoWatch(w, stack)
    BY <1>5 DEF SetupNext, Unmade
  <2>2. PICK g \in Frames : Makes(w, g)
    BY <2>1, Making DEF Inv
  <2>3. ~Active(w) /\ g.w = w /\ g.at # "posts" /\ stack' = Append(stack, g)
    BY <2>1, <2>2 DEF Makes, Active
  <2>4. Previous(g) /\ DomUpToDate(g)
    BY <2>3 DEF Previous, DomUpToDate
  <2> QED
    BY <1>1, <2>3, <2>4, PlainPush
<1>6. CASE FirstRender
  <2>1. stack # << >> /\ Top.at = "setup" /\ \E g : stack' = << g >>
    BY <1>6 DEF FirstRender, At
  <2>2. Len(stack) = 1
    BY <2>1, Bottom
  <2> QED
    BY <2>1, <2>2
<1>7. CASE FlushJobs
  <2> DEFINE g == [at |-> "jobs"]
  <2>1. stack = << >> /\ stack' = Append(stack, g)
    BY <1>7 DEF FlushJobs
  <2>2. g \in Frames /\ g.at = "jobs"
    BY DEF Frames
  <2> HIDE DEF g
  <2>3. Previous(g) /\ DomUpToDate(g)
    BY <2>2 DEF Previous, DomUpToDate
  <2> QED
    BY <1>1, <2>1, <2>2, <2>3, PlainPush
<1>8. CASE FlushPostFlushCbs
  <2> DEFINE g == [at |-> "posts", of |-> "flush", todo |-> Deduplicated(posts)]
  <2>1. stack # << >> /\ Top.at = "jobs" /\ queue = << >> /\ stack' = Append(stack, g)
    BY <1>8 DEF FlushPostFlushCbs, At
  <2>2. g \in Frames /\ g.at = "posts"
    BY PostsFrame DEF FlushFrame
  <2> HIDE DEF g
  <2>3. Owner \notin ToSet(queue) /\ ~InTrigger(Owner)
    BY <2>1, Bottom DEF ToSet, InTrigger
  <2>4. Previous(g) /\ DomUpToDate(g)
    BY <2>2, <2>3 DEF Previous, DomUpToDate, Inv, Rendering
  <2> QED
    BY <1>1, <2>1, <2>2, <2>4, PlainPush
<1> QED
  BY <1>2, <1>3, <1>4, <1>5, <1>6, <1>7, <1>8 DEF Runtime

LEMMA Grows == ASSUME Inv, Next, Len(stack') > Len(stack) PROVE \E f : Pushes(f)
BY CodePushes, RuntimePushes DEF Next

--------------------------------------------------------------------------------
(* The theorems. *)

LEMMA InvInit == ASSUME Init PROVE Inv
<1>1. /\ option \in Setups /\ life = [w \in Watchers |-> "new"]
      /\ oldValue = [w \in Watchers |-> Initial] /\ told = [w \in Watchers |-> Initial]
      /\ cleanup = [w \in Watchers |-> "none"] /\ cells = [c \in Cells |-> 0]
      /\ dep = [c \in Cells |-> << >>] /\ owner = "new" /\ show = TRUE
      /\ queue = << >> /\ posts = << >> /\ stack = << >>
  BY DEF Init
<1>2. \A S : << >> \in Seq(S) /\ ToSet(<< >>) = {}
  BY DEF ToSet
<1>3. Initial \in Vals
  BY DEF Vals
<1>4. Typed
  BY <1>1, <1>2, <1>3 DEF Typed
<1>5. \A w \in Watchers : ~Active(w)
  BY <1>1 DEF Active
<1>6. Shape /\ Alone /\ Quiet
  BY <1>1 DEF Shape, Alone, Quiet
<1>7. Lives /\ Rendering
  BY <1>1, <1>2, <1>5 DEF Lives, Rendering, InPosts
<1>8. Subscribed /\ Remembers /\ CleanedUp /\ Waiting
  BY <1>1, <1>2, <1>5 DEF Subscribed, Remembers, CleanedUp, Waiting
<1> QED
  BY <1>4, <1>6, <1>7, <1>8 DEF Inv

LEMMA InvStep == ASSUME ~SelfWrites, Inv, [Next]_vars PROVE Inv'
<1>1. CASE Code
  <2>1. ASSUME NEW w \in Watchers, StopWatcher(w) PROVE Inv'
    BY <2>1, StopStep
  <2>2. ASSUME NEW c \in Cells, Write(c) PROVE Inv'
    BY <2>2, WriteStep
  <2>3. CASE (\E w \in Watchers : Create(w)) \/ Mount \/ RenderOther
    BY <2>3, MakingSteps, BeginSteps
  <2>4. CASE OnInvalidate \/ Return \/ Hide
    BY <2>4, OnInvalidateStep, EndSteps, HideStep
  <2> QED
    BY <1>1, <2>1, <2>2, <2>3, <2>4 DEF Code
<1>2. CASE Runtime
  BY <1>2, TriggerNextStep, EndSteps, MakingSteps, BeginSteps, RunJobStep, RunPostStep DEF Runtime
<1>3. CASE UNCHANGED vars
  <2>1. /\ UNCHANGED << option, life, oldValue, cleanup, told, cells, dep, owner, shown, show >>
        /\ UNCHANGED << queue, posts, stack >>
    BY <1>3 DEF vars, watchers, component
  <2>2. /\ Typed' <=> Typed
        /\ Shape' <=> Shape
    BY <2>1 DEF Typed, Shape, IsRun, HasCb
  <2>3. /\ Lives' <=> Lives
        /\ Subscribed' <=> Subscribed
    BY <2>1 DEF Lives, Subscribed, Owned, Active, InPosts
  <2>4. /\ Alone' <=> Alone
        /\ Quiet' <=> Quiet
    BY <2>1 DEF Alone, Quiet, IsRun, Sync, Owned
  <2>5. /\ Remembers' <=> Remembers
        /\ CleanedUp' <=> CleanedUp
    BY <2>1 DEF Remembers, CleanedUp, HasCb, Active, RunsOf, IsRun
  <2>6. /\ Waiting' <=> Waiting
        /\ Rendering' <=> Rendering
    BY <2>1 DEF Waiting, Rendering, Active, Read, InTrigger, InPosts, Sync, Owned
  <2> QED
    BY <2>2, <2>3, <2>4, <2>5, <2>6 DEF Inv
<1> QED
  BY <1>1, <1>2, <1>3 DEF Next

\* Every variable keeps its type.
THEOREM TypesHold == ASSUME ~SelfWrites PROVE Spec => []Typed
<1>1. Inv => Typed
  BY DEF Inv
<1> QED
  BY <1>1, InvInit, InvStep, PTL DEF Spec

\* No watcher ever runs inside itself: whatever the programs write, stop and
\* create, in callbacks that run on the spot too.
THEOREM RunsOnce == ASSUME ~SelfWrites PROVE Spec => []Alone
<1>1. Inv => Alone
  BY DEF Inv
<1> QED
  BY <1>1, InvInit, InvStep, PTL DEF Spec

\* No change is missed: when nothing waits, every active watcher has been handed
\* what its source now holds.
THEOREM EveryChangeIsTold == ASSUME ~SelfWrites PROVE Spec => []ToldTheLatest
<1>1. Inv => ToldTheLatest
  <2> SUFFICES ASSUME Inv, NEW w \in Watchers, Active(w), stack = << >>,
                      (queue = << >> /\ posts = << >>) \/ Sync(w)
               PROVE  told[w] = Read(w)
    BY DEF ToldTheLatest, Idle
  <2>1. ~InTrigger(w)
    BY DEF InTrigger
  <2>2. queue = << >> /\ posts = << >> => w \notin ToSet(queue) /\ ~InPosts(w)
    BY DEF ToSet, InPosts
  <2> QED
    BY <2>1, <2>2 DEF Inv, Waiting
<1> QED
  BY <1>1, InvInit, InvStep, PTL DEF Spec

\* What a run set up is cleaned up before the next one, when the watcher is
\* stopped and when its component is removed.
THEOREM CleanupsRun == ASSUME ~SelfWrites PROVE Spec => []CleanedUp
<1>1. Inv => CleanedUp
  BY DEF Inv
<1> QED
  BY <1>1, InvInit, InvStep, PTL DEF Spec

\* The old value a callback is handed is the new value of its last call, and is
\* not the new one again.
THEOREM OldValuesFollow == ASSUME ~SelfWrites PROVE Spec => OldIsPrevious
<1> DEFINE Chained ==
      Len(stack') > Len(stack) /\ stack'[Len(stack')].at = "cb" =>
        LET f == stack'[Len(stack')] IN
        Active(f.w) => f.old = told[f.w] /\ (f.new # f.old \/ option[f.w].kind = "array")
<1>1. Inv /\ [Next]_vars => [Chained]_vars
  <2> SUFFICES ASSUME Inv, Next, Len(stack') > Len(stack) PROVE Chained
    OBVIOUS
  <2>1. PICK f : Pushes(f)
    BY Grows
  <2> QED
    BY <2>1 DEF Pushes, Previous
<1>2. Spec => []Inv
  BY InvInit, InvStep, PTL DEF Spec
<1> QED
  BY <1>1, <1>2, PTL DEF Spec, OldIsPrevious

\* A post callback that a flush runs finds the elements up to date.
THEOREM PostsSeeTheDom == ASSUME ~SelfWrites PROVE Spec => PostSeesDom
<1> DEFINE Shown ==
      Len(stack') > Len(stack) /\ owner = "mounted"
        /\ stack'[Len(stack')].at = "posts" /\ stack'[Len(stack')].of = "flush" =>
      \A c \in Rendered : shown[c] = cells[c]
<1>1. Inv /\ [Next]_vars => [Shown]_vars
  <2> SUFFICES ASSUME Inv, Next, Len(stack') > Len(stack) PROVE Shown
    OBVIOUS
  <2>1. PICK f : Pushes(f)
    BY Grows
  <2> QED
    BY <2>1 DEF Pushes, DomUpToDate
<1>2. Spec => []Inv
  BY InvInit, InvStep, PTL DEF Spec
<1> QED
  BY <1>1, <1>2, PTL DEF Spec, PostSeesDom

================================================================================
