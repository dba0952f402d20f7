--------------------------------- MODULE Watch ---------------------------------
(***************************************************************************)
(* watch and watchEffect (runtime-core/src/apiWatch.ts) on the effects they *)
(* are made of and the two queues they put their work in, beside one       *)
(* component whose parent can remove it.                                    *)
(*                                                                         *)
(* Watchers are created by scripts or by the component's setup(). Code of   *)
(* the program (a callback of a watcher, the function of a watchEffect, a   *)
(* script) writes cells, stops watchers and registers cleanup functions in  *)
(* any order; frames on a stack keep what the code above them waits for.    *)
(***************************************************************************)
EXTENDS Integers, FiniteSets, SequencesExt

CONSTANTS
  Watchers,      \* numbered in the order in which setup() creates them
  Cells,         \* reactive values: 0 or 1
  Setups,        \* the options with which the watchers may be created
  Rendered,      \* the cells the component shows
  Owner, Parent, \* the updates of the component and of its parent
  IsUnmounted,   \* the post callback that sets instance.isUnmounted
  Undefined, Initial,
  SelfWrites,    \* may code that a write runs write what that code watches?
  MaxWrites, MaxStops

\* A watchEffect, or a watch of one source, immediate or not, or of an array;
\* its flush option; is it made by setup()?; the cells it reads.
Options ==
  [kind : {"effect", "watch", "immediate", "array"}, flush : {"sync", "pre", "post"},
   owned : BOOLEAN, source : SUBSET Cells]

ASSUME WatchersAssumption ==
  /\ Watchers \subseteq Nat /\ IsFiniteSet(Watchers)
  /\ Setups \subseteq [Watchers -> Options]
  /\ Rendered \subseteq Cells
  /\ \A j \in {Owner, Parent, IsUnmounted} : j \notin Watchers
  /\ Cardinality({Owner, Parent, IsUnmounted}) = 3

VARIABLES
  option,    \* how each watcher is created
  life,      \* life[w]: "new", "making" (its first run), "active" or "stopped"
  oldValue,  \* oldValue[w]
  cleanup,   \* cleanup[w]: "none", "new" or, once it was called, "used"
  told,      \* told[w]: the value last handed to its callback (or first read)
  cells,     \* the values
  dep,       \* dep[c]: the effects to trigger, as a Set keeps them
  owner,     \* the component: "new", "setup", "mounted", "removed", "unmounted"
  shown,     \* what its elements show
  show,      \* does its parent still want it?
  queue,     \* of the scheduler
  posts,     \* postFlushCbs of the scheduler
  stack,     \* what runs: the last one is on top
  writes, stops

watchers == << option, life, oldValue, cleanup, told >>
component == << owner, shown, show >>
bounds == << writes, stops >>
vars == << watchers, cells, dep, component, queue, posts, stack, bounds >>

HasCb(w) == option[w].kind # "effect"
Active(w) == life[w] \in {"making", "active"}
Owned(w) == option[w].owned
Read(w) == [c \in option[w].source |-> cells[c]]

Top == Last(stack)
At(places) == stack # << >> /\ Top.at \in places
Below == Front(stack)

\* The entries of s at the places of P; s without those of X, and without those
\* that came before.
Picked(s, P) ==
  [k \in 1..Cardinality(P) |-> s[CHOOSE i \in P : Cardinality({j \in P : j <= i}) = k]]
Without(s, X) == Picked(s, {i \in DOMAIN s : s[i] \notin X})
Deduplicated(s) == Picked(s, {i \in DOMAIN s : \A j \in 1..(i - 1) : s[j] # s[i]})

Init ==
  /\ option \in Setups
  /\ life = [w \in Watchers |-> "new"]
  /\ oldValue = [w \in Watchers |-> Initial]
  /\ told = [w \in Watchers |-> Initial]
  /\ cleanup = [w \in Watchers |-> "none"]
  /\ cells = [c \in Cells |-> 0]
  /\ dep = [c \in Cells |-> << >>]
  /\ owner = "new" /\ shown = << >> /\ show = TRUE
  /\ queue = << >> /\ posts = << >> /\ stack = << >>
  /\ writes = 0 /\ stops = 0

--------------------------------------------------------------------------------
(* Effects: what track, cleanup and trigger do to the watchers' runners and to *)
(* the update of the component.                                                *)

\* An effect that runs is first taken out of every dep and then tracked anew.
Tracked(e, source) ==
  [c \in Cells |-> LET others == Without(dep[c], {e}) IN
     IF c \in source THEN Append(others, e) ELSE others]
Untracked(e) == Tracked(e, {})

\* The effect on top of effectStack. The callback of a watcher is not an effect:
\* below it is still the effect whose write it was called for.
ActiveEffect ==
  LET running == {i \in DOMAIN stack : stack[i].at = "effect"} IN
  {stack[i].w : i \in {i \in running : \A j \in running : j <= i}}
OnEffectStack(w) == \E i \in DOMAIN stack : stack[i].at = "effect" /\ stack[i].w = w

\* Watchers are "computed" effects: they are triggered before the updates.
Triggered(c) ==
  Without(dep[c], ActiveEffect \cup {Owner})
    \o Without(dep[c], ActiveEffect \cup Watchers)

--------------------------------------------------------------------------------
(* Running a watcher, on top of the frames `under` *)

\* cleanup(): the function stays registered, so it may be called again.
Cleaned(w) == IF cleanup[w] = "new" THEN [cleanup EXCEPT ![w] = "used"] ELSE cleanup

Frame(at, w, new) == [at |-> at, w |-> w, new |-> new, old |-> oldValue[w], registered |-> FALSE]

\* The getter of a watchEffect, as the effect it is.
RunEffect(w, under) ==
  IF ~Active(w) \/ OnEffectStack(w) \/ (Owned(w) /\ owner = "unmounted")
    THEN stack' = under /\ UNCHANGED << dep, cleanup, told >>
    ELSE /\ dep' = Tracked(w, option[w].source)
         /\ cleanup' = Cleaned(w)
         /\ told' = [told EXCEPT ![w] = Read(w)]
         /\ stack' = Append(under, Frame("effect", w, Read(w)))

\* runner(): a stopped runner returns undefined.
Value(w) == IF Active(w) THEN Read(w) ELSE Undefined
Reads(w) == dep' = IF Active(w) THEN Tracked(w, option[w].source) ELSE dep
\* A new array is made at each run.
HasChanged(w, new) == new # oldValue[w] \/ (option[w].kind = "array" /\ new # Undefined)

ApplyCb(w, under) ==
  IF Owned(w) /\ owner = "unmounted"
    THEN stack' = under /\ UNCHANGED << dep, cleanup, told >>
    ELSE /\ Reads(w)
         /\ IF HasChanged(w, Value(w))
              THEN /\ cleanup' = Cleaned(w)
                   /\ told' = [told EXCEPT ![w] = Value(w)]
                   /\ stack' = Append(under, Frame("cb", w, Value(w)))
              ELSE stack' = under /\ UNCHANGED << cleanup, told >>

Run(w, under) == IF HasCb(w) THEN ApplyCb(w, under) ELSE RunEffect(w, under)

--------------------------------------------------------------------------------
(* The scheduler option of a runner: where a triggered watcher waits *)

\* Run at once: flush "sync", or "pre" while the component is being mounted.
Sync(w) ==
  \/ option[w].flush = "sync"
  \/ option[w].flush = "pre" /\ Owned(w) /\ owner \in {"new", "setup"}

Place(e) ==
  CASE e = Owner -> "queue"
    [] OTHER -> IF Sync(e) THEN "now" ELSE IF option[e].flush = "pre" THEN "queue" ELSE "posts"

QueueJob(j) == queue' = IF Contains(queue, j) THEN queue ELSE Append(queue, j)

\* The next effect of a trigger.
TriggerNext ==
  /\ At({"trigger"}) /\ Top.todo # << >>
  /\ LET e == Head(Top.todo)
         under == Append(Below, [Top EXCEPT !.todo = Tail(Top.todo)]) IN
     \/ /\ Place(e) = "now"
        /\ Run(e, under)
        /\ UNCHANGED << queue, posts >>
     \/ /\ Place(e) = "queue"
        /\ QueueJob(e)
        /\ stack' = under
        /\ UNCHANGED << posts, dep, cleanup, told >>
     \/ /\ Place(e) = "posts"
        /\ posts' = Append(posts, e)
        /\ stack' = under
        /\ UNCHANGED << queue, dep, cleanup, told >>
  /\ UNCHANGED << option, life, oldValue, cells, component, bounds >>

TriggerEnd ==
  /\ At({"trigger"}) /\ Top.todo = << >>
  /\ stack' = Below
  /\ UNCHANGED << watchers, cells, dep, component, queue, posts, bounds >>

--------------------------------------------------------------------------------
(* Making and stopping watchers *)

\* doWatch: the first run calls the callback only if it is immediate.
DoWatch(w, under) ==
  /\ life' = [life EXCEPT ![w] = "making"]
  /\ IF option[w].kind \in {"effect", "immediate"}
       THEN /\ stack' = Append(under, Frame(IF HasCb(w) THEN "cb" ELSE "effect", w, Read(w)))
            /\ UNCHANGED oldValue
       ELSE /\ oldValue' = [oldValue EXCEPT ![w] = Read(w)]
            /\ stack' = Append(under, [at |-> "made", w |-> w])
  /\ told' = [told EXCEPT ![w] = Read(w)]
  /\ dep' = Tracked(w, option[w].source)
  /\ UNCHANGED << option, cleanup, cells, component, queue, posts, bounds >>

\* doWatch has returned: only now its stop function is there to be called.
Made ==
  /\ At({"made"})
  /\ life' = [life EXCEPT ![Top.w] = "active"]
  /\ stack' = Below
  /\ UNCHANGED << option, oldValue, cleanup, told, cells, dep, component, queue, posts, bounds >>

\* A script outside the component creates a watcher.
Create(w) ==
  /\ stack = << >> /\ life[w] = "new" /\ ~Owned(w)
  /\ DoWatch(w, stack)

UserCode == stack = << >> \/ At({"cb", "effect"})

\* Mutant: onStop is not called.
StopWithoutCleanup(w) ==
  /\ UserCode /\ life[w] = "active" /\ stops < MaxStops
  /\ life' = [life EXCEPT ![w] = "stopped"]
  /\ dep' = Untracked(w)
  /\ stops' = stops + 1
  /\ UNCHANGED << option, oldValue, told, cleanup, cells, component, queue, posts, stack, writes >>

\* The stop function: stop(runner) calls onStop, which is the last cleanup.
StopWatcher(w) ==
  /\ UserCode /\ life[w] = "active" /\ stops < MaxStops
  /\ life' = [life EXCEPT ![w] = "stopped"]
  /\ dep' = Untracked(w)
  /\ cleanup' = Cleaned(w)
  /\ stops' = stops + 1
  /\ UNCHANGED << option, oldValue, told, cells, component, queue, posts, stack, writes >>

--------------------------------------------------------------------------------
(* What the program's code does *)

\* Code called on the spot for a write of c, and not when the write is over.
OnTheSpot(c) ==
  \E i \in DOMAIN stack :
    /\ stack[i].at = "effect" \/ (stack[i].at = "cb" /\ Sync(stack[i].w))
    /\ c \in option[stack[i].w].source

Write(c) ==
  /\ UserCode /\ writes < MaxWrites
  /\ SelfWrites \/ ~OnTheSpot(c)
  /\ cells' = [cells EXCEPT ![c] = 1 - @]
  /\ writes' = writes + 1
  /\ stack' = Append(stack, [at |-> "trigger", todo |-> Triggered(c)])
  /\ UNCHANGED << watchers, dep, component, queue, posts, stops >>

\* onInvalidate(fn), called once in a run. Nothing will call what a run that has
\* stopped its own watcher registers.
OnInvalidate ==
  /\ At({"cb", "effect"}) /\ ~Top.registered
  /\ cleanup' = [cleanup EXCEPT ![Top.w] = IF Active(Top.w) THEN "new" ELSE "late"]
  /\ stack' = Append(Below, [Top EXCEPT !.registered = TRUE])
  /\ UNCHANGED << option, life, oldValue, told, cells, dep, component, queue, posts, bounds >>

\* Mutants: the new value is not kept; the value is read again to be kept.
ReturnForgetting ==
  /\ At({"cb", "effect"})
  /\ stack' = IF life[Top.w] = "making" THEN Append(Below, [at |-> "made", w |-> Top.w]) ELSE Below
  /\ UNCHANGED << watchers, cells, dep, component, queue, posts, bounds >>
ReturnRereading ==
  /\ At({"cb", "effect"})
  /\ oldValue' = IF Top.at = "cb" THEN [oldValue EXCEPT ![Top.w] = Value(Top.w)] ELSE oldValue
  /\ stack' = IF life[Top.w] = "making" THEN Append(Below, [at |-> "made", w |-> Top.w]) ELSE Below
  /\ UNCHANGED << option, life, cleanup, told, cells, dep, component, queue, posts, bounds >>
Return ==
  /\ At({"cb", "effect"})
  /\ oldValue' = IF Top.at = "cb" THEN [oldValue EXCEPT ![Top.w] = Top.new] ELSE oldValue
  /\ stack' = IF life[Top.w] = "making" THEN Append(Below, [at |-> "made", w |-> Top.w]) ELSE Below
  /\ UNCHANGED << option, life, cleanup, told, cells, dep, component, queue, posts, bounds >>

--------------------------------------------------------------------------------
(* The component *)

\* render() mounts the parent, which mounts the component: setup() runs first.
Mount ==
  /\ stack = << >> /\ owner = "new"
  /\ owner' = "setup"
  /\ stack' = << [at |-> "setup"] >>
  /\ UNCHANGED << watchers, cells, dep, shown, show, queue, posts, bounds >>

Unmade == {w \in Watchers : Owned(w) /\ life[w] = "new"}
SetupNext ==
  /\ At({"setup"})
  /\ \E w \in Unmade : (\A v \in Unmade : w <= v) /\ DoWatch(w, stack)

\* The first run of its update; then render() flushes the post callbacks.
FirstRender ==
  /\ At({"setup"}) /\ Unmade = {}
  /\ owner' = "mounted"
  /\ shown' = cells
  /\ dep' = Tracked(Owner, Rendered)
  /\ stack' = << [at |-> "posts", of |-> "render", todo |-> Deduplicated(posts)] >>
  /\ posts' = << >>
  /\ UNCHANGED << watchers, cells, show, queue, bounds >>

\* A script renders something else while work is waiting.
RenderOther ==
  /\ stack = << >> /\ posts # << >>
  /\ stack' = << [at |-> "posts", of |-> "render", todo |-> Deduplicated(posts)] >>
  /\ posts' = << >>
  /\ UNCHANGED << watchers, cells, dep, component, queue, bounds >>

\* A script makes the parent's next update leave the component out.
Hide ==
  /\ stack = << >> /\ owner = "mounted" /\ show
  /\ show' = FALSE
  /\ QueueJob(Parent)
  /\ UNCHANGED << watchers, cells, dep, owner, shown, posts, stack, bounds >>

--------------------------------------------------------------------------------
(* The flush *)

\* The id of a job: effects are numbered as they are made; the closure that
\* applies a callback has none, and goes last.
Id(j) ==
  CASE j = Parent -> 1000 [] j = Owner -> 3000
    [] OTHER -> IF Owned(j) THEN 2000 + j ELSE j
HasId(j) == j \in Watchers => ~HasCb(j)
Precedes(q, j, k) ==
  \/ HasId(j) /\ (HasId(k) => Id(j) < Id(k))
  \/ ~HasId(j) /\ ~HasId(k) /\ \E m, n \in DOMAIN q : m < n /\ q[m] = j /\ q[n] = k
Sorted(q) ==
  {s \in Bijection(1..Len(q), ToSet(q)) :
     \A m, n \in 1..Len(q) : m < n => Precedes(q, s[m], s[n])}

FlushJobs ==
  /\ stack = << >> /\ (queue # << >> \/ posts # << >>)
  /\ queue' \in Sorted(queue)
  /\ stack' = << [at |-> "jobs"] >>
  /\ UNCHANGED << watchers, cells, dep, component, posts, bounds >>

Update ==
  /\ shown' = IF owner = "mounted" THEN cells ELSE shown
  /\ dep' = IF owner = "mounted" THEN Tracked(Owner, Rendered) ELSE dep
  /\ UNCHANGED << life, cleanup, told, owner, posts, stack >>

\* unmountComponent, in the parent's update: every effect is stopped now, but
\* isUnmounted is set by a post callback.
UnmountComponent ==
  LET stopped == {w \in Watchers : Owned(w) /\ Active(w)} IN
  /\ life' = [w \in Watchers |-> IF w \in stopped THEN "stopped" ELSE life[w]]
  /\ cleanup' = [w \in Watchers |->
       IF w \in stopped /\ cleanup[w] = "new" THEN "used" ELSE cleanup[w]]
  /\ dep' = [c \in Cells |-> Without(dep[c], stopped \cup {Owner})]
  /\ owner' = "removed"
  /\ posts' = Append(posts, IsUnmounted)
  /\ UNCHANGED << shown, told, stack >>

RunJob ==
  /\ At({"jobs"}) /\ queue # << >>
  /\ queue' = Tail(queue)
  /\ LET j == Head(queue) IN
     \/ j = Owner /\ Update
     \/ j = Parent /\ UnmountComponent
     \/ /\ j \notin {Owner, Parent}
        /\ Run(j, stack)
        /\ UNCHANGED << life, owner, shown, posts >>
  /\ UNCHANGED << option, oldValue, cells, show, bounds >>

\* Mutant: the jobs still queued are left for the next pass.
PostsBeforeJobs ==
  /\ At({"jobs"}) /\ posts # << >>
  /\ stack' = Append(stack, [at |-> "posts", of |-> "flush", todo |-> Deduplicated(posts)])
  /\ posts' = << >>
  /\ UNCHANGED << watchers, cells, dep, component, queue, bounds >>

FlushPostFlushCbs ==
  /\ At({"jobs"}) /\ queue = << >> /\ posts # << >>
  /\ stack' = Append(stack, [at |-> "posts", of |-> "flush", todo |-> Deduplicated(posts)])
  /\ posts' = << >>
  /\ UNCHANGED << watchers, cells, dep, component, queue, bounds >>

RunPost ==
  /\ At({"posts"}) /\ Top.todo # << >>
  /\ LET p == Head(Top.todo)
         under == Append(Below, [Top EXCEPT !.todo = Tail(Top.todo)]) IN
     \/ /\ p = IsUnmounted
        /\ owner' = "unmounted"
        /\ stack' = under
        /\ UNCHANGED << dep, cleanup, told >>
     \/ /\ p # IsUnmounted
        /\ Run(p, under)
        /\ UNCHANGED owner
  /\ UNCHANGED << option, life, oldValue, cells, shown, show, queue, posts, bounds >>

\* When the callbacks have run a flush looks again; render() returns.
EndPosts ==
  /\ At({"posts"}) /\ Top.todo = << >>
  /\ stack' = Below
  /\ queue' \in IF Top.of = "flush" THEN Sorted(queue) ELSE {queue}
  /\ UNCHANGED << watchers, cells, dep, component, posts, bounds >>

EndFlush ==
  /\ At({"jobs"}) /\ queue = << >> /\ posts = << >>
  /\ stack' = << >>
  /\ UNCHANGED << watchers, cells, dep, component, queue, posts, bounds >>

--------------------------------------------------------------------------------
Code ==
  \/ \E c \in Cells : Write(c)
  \/ \E w \in Watchers : StopWatcher(w) \/ Create(w)
  \/ OnInvalidate \/ Return
  \/ Mount \/ RenderOther \/ Hide
Runtime ==
  \/ TriggerNext \/ TriggerEnd \/ Made
  \/ SetupNext \/ FirstRender
  \/ FlushJobs \/ RunJob \/ FlushPostFlushCbs \/ RunPost \/ EndPosts \/ EndFlush
Next == Code \/ Runtime
Spec == Init /\ [][Next]_vars

--------------------------------------------------------------------------------
Idle == stack = << >> /\ queue = << >> /\ posts = << >>

\* No change is missed: when nothing waits, each active watcher has been handed
\* (an effect: has read) what its source now holds, through every coalescing,
\* dropping and reordering of its work; a synchronous one even when the code
\* that wrote is back.
ToldTheLatest ==
  \A w \in Watchers :
    Active(w) /\ (Idle \/ (stack = << >> /\ Sync(w))) => told[w] = Read(w)

\* The old value handed to a callback is the new value of its last call, and
\* differs from the new one (arrays are new each time).
OldIsPrevious ==
  [][Len(stack') > Len(stack) /\ stack'[Len(stack')].at = "cb" =>
       LET f == stack'[Len(stack')] IN
       Active(f.w) =>
         /\ f.old = told[f.w]
         /\ f.new # f.old \/ option[f.w].kind = "array"]_vars

\* What a run set up is cleaned up before the next run begins, and when the
\* watcher is stopped or its component removed ("runs before each run of the
\* effect or when it is stopped").
CleanedUp ==
  \A w \in Watchers : cleanup[w] = "new" =>
    /\ Active(w)
    /\ \A i \in DOMAIN stack : stack[i].at \in {"cb", "effect"} /\ stack[i].w = w =>
         stack[i].registered

\* When a flush turns to its post callbacks the component shows the present
\* values: a post callback may look at the elements.
PostSeesDom ==
  [][Len(stack') > Len(stack) /\ owner = "mounted"
       /\ stack'[Len(stack')].at = "posts" /\ stack'[Len(stack')].of = "flush" =>
     \A c \in Rendered : shown[c] = cells[c]]_vars
================================================================================
