------------------------------- MODULE Suspense --------------------------------
(***************************************************************************)
(* <Suspense> boundaries and the components with an asynchronous setup     *)
(* inside them.                                                            *)
(*                                                                         *)
(* Rendering is synchronous: patching runs on a call stack of the          *)
(* boundaries being mounted or patched, and of the trees being unmounted.  *)
(* When the stack is empty the event loop runs what waits: the callbacks   *)
(* of settled setup promises, the queued jobs (recede), the post-flush     *)
(* callbacks.  A component is an instance: it is mounted once.             *)
(*                                                                         *)
(* Of the DOM the model keeps where the content of a boundary is and how   *)
(* many copies of its fallback are mounted; of the effects a component     *)
(* queues, its mounted hook and the callback that sets isUnmounted.        *)
(***************************************************************************)
EXTENDS Integers, Sequences, FiniteSets, SequencesExt

CONSTANTS
  Bounds,     \* the boundaries
  Outer,      \* Outer[s]: the boundaries around s, the closest first
  Comps,      \* component instances
  Home,       \* Home[c]: the closest boundary around c
  Async,      \* the components whose setup returns a promise
  Settles,    \* those whose promise settles and whose errors are handled
  Late,       \* the components a patch may mount in a resolved boundary
  Abandon,    \* the components a patch may remove while they are pending
  Replaced,   \* those that may be pending in content a patch replaces as a whole
  None        \* no parent boundary

ASSUME BoundsAssumption ==
  /\ None \notin Bounds
  /\ Outer \in [Bounds -> Seq(Bounds)] /\ Home \in [Comps -> Bounds]
  /\ Settles \subseteq Async /\ Async \subseteq Comps
\* Around a boundary that is around s are those that come after it.
ASSUME NestAssumption ==
  \A s \in Bounds : \A i \in DOMAIN Outer[s] :
    Outer[Outer[s][i]] = SubSeq(Outer[s], i + 1, Len(Outer[s]))

VARIABLES
  bound,       \* bound[s]: the SuspenseBoundary
  phase,       \* phase[c]: where the instance is in its life
  waiting,     \* the components whose promise callback has not run
  isUnmounted, \* the instances whose isUnmounted is set
  jobs,        \* the recede() jobs in the queue
  posts,       \* postFlushCbs
  ran,         \* history: the effects that ran
  stack        \* the patches and unmounts under way

vars == << bound, phase, waiting, isUnmounted, jobs, posts, ran, stack >>

--------------------------------------------------------------------------------
Effects == [hook : {"mounted", "unmounted"}, of : Comps]
MountedHook(c) == [hook |-> "mounted", of |-> c]
UnmountedMark(c) == [hook |-> "unmounted", of |-> c]

(***************************************************************************)
(* A boundary is [state, deps, isResolved, effects, content, fallback,     *)
(* shown]: "new", "live" or "unmounted"; where its content is, "hidden" or *)
(* "shown"; how many fallbacks are mounted; whether its content has ever   *)
(* been shown (history).  A frame is [kind, at, todo, into]: a "mount",    *)
(* "patch" or "settle" of boundary at, or an "unmount" of the components   *)
(* todo, after which other content is mounted "into" a place.              *)
(***************************************************************************)
RenderFrame(kind, s, todo) == [kind |-> kind, at |-> s, todo |-> todo, into |-> "nowhere"]
UnmountFrame(todo, parentSuspense, into) ==
  [kind |-> "unmount", at |-> parentSuspense, todo |-> todo, into |-> into]

Idle == stack = << >>
Top == Last(stack)
IsPending(s) == s # None /\ ~bound[s].isResolved
Patching(s) == ~Idle /\ Top.kind # "unmount" /\ Top.at = s

Live(s) == bound[s].state = "live"
Parent(s) == IF Outer[s] = << >> THEN None ELSE Head(Outer[s])
Inside(s) == {s} \cup {t \in Bounds : s \in ToSet(Outer[t])}
PendingIn(s) == {c \in Comps : Home[c] = s /\ phase[c] = "pending"}

\* Where a new boundary or component is rendered: at the top, or in its parent.
Rendering(s) == IF s = None THEN Idle ELSE Patching(s)

--------------------------------------------------------------------------------
(* Functions of the boundaries b and the post-flush callbacks p. *)

State(b, p) == [bound |-> b, posts |-> p]
Becomes(st) == bound' = st.bound /\ posts' = st.posts

QueueEffectWithSuspense(e, s, b, p) ==
  IF s # None /\ ~b[s].isResolved
  THEN State([b EXCEPT ![s].effects = @ \cup {e}], p)
  ELSE State(b, p \cup {e})

\* The boundary, its content shown in place of the fallback.
Shown(r) == [r EXCEPT !.isResolved = TRUE, !.effects = {}, !.content = "shown",
                      !.shown = TRUE, !.fallback = IF @ > 0 THEN @ - 1 ELSE 0]

\* The boundary, its fallback shown in place of the content.
Hidden(r) == [r EXCEPT !.isResolved = FALSE, !.content = "hidden", !.fallback = @ + 1]

\* The effects go to the closest boundary around it that is pending; when there
\* is none they run after this flush.  Mutants: the effects run although a
\* parent is pending; they are not cleared; the fallback is left where it is.
ResolveRegardless(s, b, p) ==
  State([b EXCEPT ![s] = Shown(@)], p \cup b[s].effects)
ResolveKeepingEffects(s, b, p) ==
  State([b EXCEPT ![s] = [Shown(@) EXCEPT !.effects = b[s].effects]], p \cup b[s].effects)
ResolveOverFallback(s, b, p) ==
  State([b EXCEPT ![s] = [Shown(@) EXCEPT !.fallback = b[s].fallback]], p \cup b[s].effects)

Resolve(s, b, p) ==
  LET done == [b EXCEPT ![s] = Shown(@)]
      pending == {i \in DOMAIN Outer[s] : ~b[Outer[s][i]].isResolved}
  IN  IF pending = {}
      THEN State(done, p \cup b[s].effects)
      ELSE State([done EXCEPT ![Outer[s][Min(pending)]].effects = @ \cup b[s].effects], p)

\* One dep less; the last one resolves the boundary.  The mutant leaves that to
\* the promises that are still to settle.
DropDepQuietly(s, b, p) == State([b EXCEPT ![s].deps = @ - 1], p)

DropDep(s, b, p) ==
  LET less == [b EXCEPT ![s].deps = @ - 1] IN
  IF less[s].deps = 0 THEN Resolve(s, less, p) ELSE State(less, p)

--------------------------------------------------------------------------------
(* Rendering. *)

MountSuspense(s) ==
  /\ bound[s].state = "new" /\ Rendering(Parent(s))
  /\ bound' = [bound EXCEPT ![s].state = "live"]
  /\ stack' = Append(stack, RenderFrame("mount", s, {}))
  /\ UNCHANGED << phase, waiting, isUnmounted, jobs, posts, ran >>

\* The content has been mounted off the document.
EndMount ==
  /\ ~Idle /\ Top.kind = "mount"
  /\ Becomes(IF bound[Top.at].deps > 0
             THEN State([bound EXCEPT ![Top.at].fallback = 1], posts)
             ELSE Resolve(Top.at, bound, posts))
  /\ stack' = Front(stack)
  /\ UNCHANGED << phase, waiting, isUnmounted, jobs, ran >>

\* patchSuspense(), or the update of a component in the content.  The fallback
\* is patched in place.  Boundaries patched within one another are patched in
\* turn: the end of a patch does nothing more.
PatchSuspense(s) ==
  /\ Live(s) /\ Idle
  /\ stack' = Append(stack, RenderFrame("patch", s, {}))
  /\ UNCHANGED << bound, phase, waiting, isUnmounted, jobs, posts, ran >>

EndPatch ==
  /\ ~Idle /\ Top.kind = "patch"
  /\ stack' = Front(stack)
  /\ UNCHANGED << bound, phase, waiting, isUnmounted, jobs, posts, ran >>

MountSync(c) ==
  /\ c \notin Async
  /\ phase' = [phase EXCEPT ![c] = "rendered"]
  /\ Becomes(QueueEffectWithSuspense(MountedHook(c), Home[c], bound, posts))
  /\ UNCHANGED << waiting, jobs >>

\* registerDep(): a resolved boundary will recede.
RegisterDep(c) ==
  /\ c \in Async
  /\ phase' = [phase EXCEPT ![c] = "pending"]
  /\ bound' = [bound EXCEPT ![Home[c]].deps = @ + 1]
  /\ waiting' = waiting \cup {c}
  /\ jobs' = IF bound[Home[c]].isResolved THEN Append(jobs, Home[c]) ELSE jobs
  /\ UNCHANGED posts

MountComponent(c) ==
  /\ phase[c] = "new" /\ Patching(Home[c])
  /\ bound[Home[c]].isResolved => c \in Late
  /\ MountSync(c) \/ RegisterDep(c)
  /\ UNCHANGED << isUnmounted, ran, stack >>

\* unmountComponent(c, parentSuspense).  Mutant: the dep is forgotten.
UnmountKeepingDep(c, parentSuspense) ==
  /\ Becomes(QueueEffectWithSuspense(UnmountedMark(c), parentSuspense, bound, posts))
  /\ phase' = [phase EXCEPT ![c] = "removed"]
  /\ UNCHANGED << waiting, isUnmounted, jobs, ran >>

UnmountComponent(c, parentSuspense) ==
  /\ LET q == QueueEffectWithSuspense(UnmountedMark(c), parentSuspense, bound, posts) IN
     Becomes(IF /\ IsPending(parentSuspense)
                /\ bound[parentSuspense].state # "unmounted"
                /\ phase[c] = "pending"
             THEN DropDep(parentSuspense, q.bound, q.posts)
             ELSE q)
  /\ phase' = [phase EXCEPT ![c] = "removed"]
  /\ UNCHANGED << waiting, isUnmounted, jobs, ran >>

RemoveComponent(c) ==
  /\ Patching(Home[c]) /\ Top.kind = "patch"
  /\ phase[c] \in {"pending", "rendered"} /\ (phase[c] = "pending" => c \in Abandon)
  /\ UnmountComponent(c, Home[c])
  /\ UNCHANGED stack

Mounted(comps) == {c \in comps : phase[c] \in {"pending", "rendered"}}
InTree(s) == Mounted({c \in Comps : Home[c] \in Inside(s)})
Unmounted(bs) == [t \in Bounds |->
  IF t \in bs /\ Live(t)
  THEN [bound[t] EXCEPT !.state = "unmounted",
          !.fallback = IF bound[t].isResolved \/ @ = 0 THEN @ ELSE @ - 1]
  ELSE bound[t]]

\* The boundaries in a tree are unmounted for the parent of its root: so are
\* the components in them.
RemoveSuspense(s) ==
  /\ Live(s) /\ Rendering(Parent(s)) /\ (~Idle => Top.kind = "patch")
  /\ IsPending(Parent(s)) => \A c \in InTree(s) : phase[c] = "pending" => c \in Abandon
  /\ stack' = Append(stack, UnmountFrame(InTree(s), Parent(s), "nowhere"))
  /\ bound' = Unmounted(Inside(s))
  /\ UNCHANGED << phase, waiting, isUnmounted, jobs, posts, ran >>

\* patchSuspense() with content of another type: the old content is unmounted
\* and the new mounted in the container the patch was given.
ReplaceContent(s) ==
  /\ Live(s) /\ Idle
  /\ \A c \in InTree(s) :
       phase[c] = "pending" => c \in Replaced \/ (Home[c] # s /\ bound[s].isResolved)
  /\ stack' = stack \o << RenderFrame("patch", s, {}),
                         UnmountFrame(InTree(s), s, IF bound[s].isResolved
                                                    THEN "shown" ELSE "hidden") >>
  /\ bound' = Unmounted(Inside(s) \ {s})
  /\ UNCHANGED << phase, waiting, isUnmounted, jobs, posts, ran >>

UnmountNext(c) ==
  /\ ~Idle /\ Top.kind = "unmount" /\ c \in Top.todo
  /\ UnmountComponent(c, Top.at)
  /\ stack' = [stack EXCEPT ![Len(stack)].todo = @ \ {c}]

EndUnmount ==
  /\ ~Idle /\ Top.kind = "unmount" /\ Top.todo = {}
  /\ stack' = Front(stack)
  /\ bound' = IF Top.into = "nowhere" THEN bound
              ELSE [bound EXCEPT ![Top.at].content = Top.into]
  /\ UNCHANGED << phase, waiting, isUnmounted, jobs, posts, ran >>

--------------------------------------------------------------------------------
(* The event loop. *)

\* The setup promise of c settles: c is rendered where its placeholder is, and
\* then the boundary looks at its deps.  An instance that was removed, and does
\* not know it yet, is rendered all the same ("zombie").  A recede() that the
\* registration of c queued has run: its flush is the earlier microtask.
Settle(c) ==
  /\ Idle /\ c \in waiting \cap Settles /\ Home[c] \notin ToSet(jobs)
  /\ waiting' = waiting \ {c}
  /\ \/ /\ c \in isUnmounted \/ bound[Home[c]].state = "unmounted"
        /\ UNCHANGED << bound, stack >>
     \/ /\ c \notin isUnmounted /\ bound[Home[c]].state # "unmounted"
        /\ bound' = [bound EXCEPT ![Home[c]].deps = @ - 1]
        /\ stack' = Append(stack, RenderFrame("settle", Home[c], {c}))
  /\ UNCHANGED << phase, isUnmounted, jobs, posts, ran >>

EndSettle ==
  /\ ~Idle /\ Top.kind = "settle"
  /\ \E c \in Top.todo :
       LET q == QueueEffectWithSuspense(MountedHook(c), Top.at, bound, posts) IN
       /\ phase' = [phase EXCEPT ![c] = IF @ = "pending" THEN "rendered" ELSE "zombie"]
       /\ Becomes(IF bound[Top.at].deps = 0 THEN Resolve(Top.at, q.bound, q.posts) ELSE q)
  /\ stack' = Front(stack)
  /\ UNCHANGED << waiting, isUnmounted, jobs, ran >>

\* The promise is rejected and the error handler throws: no callback runs.
Reject(c) ==
  /\ Idle /\ c \in waiting \ Settles
  /\ waiting' = waiting \ {c}
  /\ UNCHANGED << bound, phase, isUnmounted, jobs, posts, ran, stack >>

\* The job that recede() was queued as.
Recede ==
  /\ Idle /\ jobs # << >>
  /\ jobs' = Tail(jobs)
  /\ bound' = [bound EXCEPT ![Head(jobs)] = Hidden(@)]
  /\ UNCHANGED << phase, waiting, isUnmounted, posts, ran, stack >>

\* flushPostFlushCbs(), once no job is left.
FlushPosts ==
  /\ Idle /\ jobs = << >> /\ posts # {}
  /\ posts' = {}
  /\ ran' = ran \cup posts
  /\ isUnmounted' = isUnmounted \cup {e.of : e \in {x \in posts : x.hook = "unmounted"}}
  /\ UNCHANGED << bound, phase, waiting, jobs, stack >>

--------------------------------------------------------------------------------
Init ==
  /\ bound = [s \in Bounds |-> [state |-> "new", deps |-> 0, isResolved |-> FALSE,
                                effects |-> {}, content |-> "hidden", fallback |-> 0,
                                shown |-> FALSE]]
  /\ phase = [c \in Comps |-> "new"]
  /\ waiting = {} /\ isUnmounted = {} /\ jobs = << >> /\ posts = {} /\ ran = {}
  /\ stack = << >>

Synchronous == \/ EndMount \/ EndPatch \/ EndUnmount \/ EndSettle
               \/ \E c \in Comps : UnmountNext(c)
EventLoop == Recede \/ FlushPosts \/ \E c \in Comps : Settle(c)

Next ==
  \/ Synchronous \/ EventLoop
  \/ \E s \in Bounds : MountSuspense(s) \/ PatchSuspense(s) \/ ReplaceContent(s) \/ RemoveSuspense(s)
  \/ \E c \in Comps : MountComponent(c) \/ RemoveComponent(c) \/ Reject(c)

\* A patch returns, and the microtasks that wait are run whenever the stack is
\* empty, before any other task: new patches cannot starve them.
Fairness == WF_vars(Synchronous) /\ SF_vars(EventLoop)
Spec == Init /\ [][Next]_vars /\ Fairness

--------------------------------------------------------------------------------
\* A boundary waits for what is pending in it: it is not resolved over a pending
\* component, but for the time until the recede() that the component's
\* registration queued, and between two renders its deps number the components
\* of its own that are pending.
DepsCounted ==
  \A s \in Bounds : Live(s) =>
    /\ Idle => bound[s].deps = Cardinality(PendingIn(s))
    /\ bound[s].isResolved => PendingIn(s) = {} \/ s \in ToSet(jobs)

\* A mounted boundary shows its content or its fallback, one of them and once.
ShowsOne ==
  Idle => \A s \in Bounds : Live(s) =>
    /\ bound[s].isResolved => bound[s].content = "shown" /\ bound[s].fallback = 0
    /\ ~bound[s].isResolved => bound[s].content = "hidden" /\ bound[s].fallback = 1

\* A mounted hook is not run, nor queued to run, before the content it is in has
\* been shown: that of its boundary, and, unless the component was put into
\* content already resolved, that of the boundaries around.
HooksWait ==
  \A e \in posts \cup ran : e.hook = "mounted" =>
    /\ bound[Home[e.of]].shown
    /\ e.of \notin Late => \A s \in ToSet(Outer[Home[e.of]]) : bound[s].shown

\* The places an effect is in: it waits in a boundary or in the queue, or it ran.
Places(e) == {s \in Bounds : e \in bound[s].effects}
               \cup {q \in {"posts", "ran"} : IF q = "posts" THEN e \in posts ELSE e \in ran}

\* The effects that move from boundary to boundary are neither lost nor doubled:
\* what was queued when a component was rendered or removed is in one place.
EffectsKept ==
  \A c \in Comps :
    /\ phase[c] = "rendered" => Cardinality(Places(MountedHook(c))) = 1
    /\ phase[c] = "removed" => Cardinality(Places(UnmountedMark(c))) = 1

\* A mounted boundary does not show its fallback for ever, unless a component in
\* it waits for a promise that never settles.
Resolves ==
  \A s \in Bounds :
    []<>(Live(s) => bound[s].isResolved \/ ~(PendingIn(s) \subseteq Settles))

================================================================================
