------------------------------- MODULE Scheduler -------------------------------
(***************************************************************************)
(* The update scheduler of the runtime: a queue of jobs, a list of         *)
(* post-flush callbacks and two flags, shared by everything that runs on   *)
(* the JavaScript thread.                                                  *)
(*                                                                         *)
(* One thread runs, so the interleavings are those of the CALL STACK: the  *)
(* loops of flushJobs and flushPostFlushCbs call user code (a job, a       *)
(* callback), and user code calls back into the scheduler.  The stack is   *)
(* explicit: its top is Last(stack), and it is empty while the event loop  *)
(* or a plain script has control.  A microtask starts only then.           *)
(***************************************************************************)
EXTENDS Integers, Sequences, SequencesExt

CONSTANTS
  Jobs,            \* jobs: the render effects of components and watchers
  Cbs,             \* post-flush callbacks: hooks, refs, transitions
  Ticks,           \* callbacks given to nextTick
  Null,            \* what invalidateJob leaves in the queue
  FlushTask,       \* the microtask nextTick(flushJobs)
  Id,              \* Id[j]: job.id; Infinity is any number above the others
  CbArrays,        \* the arguments queuePostFlushCb is called with
  MayThrow,        \* the jobs, callbacks and ticks whose code may throw
  Dev,             \* __DEV__: count the runs of each job and callback
  Recover,         \* logError reports the error instead of rethrowing it
  SyncRender,      \* components may be updated outside a flushed job
  RecursionLimit,  \* RECURSION_LIMIT
  MaxCalls,        \* bound: scheduler calls one run of a piece of code makes
  MaxQueue,        \* bound: entries of queue
  MaxPosts,        \* bound: entries of postFlushCbs
  MaxDepth         \* bound: frames on the stack

Code == Jobs \cup Cbs

ASSUME CodeAssumption ==
  /\ Jobs \cap Cbs = {}
  /\ Null \notin Code \cup Ticks
  /\ FlushTask \notin Ticks
ASSUME IdAssumption == Id \in [Jobs -> Nat]
ASSUME CbArraysAssumption == CbArrays \subseteq Seq(Cbs)
ASSUME FlagsAssumption == {Dev, Recover, SyncRender} \subseteq BOOLEAN
ASSUME LimitAssumption == RecursionLimit \in Nat /\ MaxCalls \in Nat

VARIABLES
  queue,           \* jobs to run, Null where one was invalidated
  postFlushCbs,    \* callbacks to run after the jobs
  isFlushing,
  isFlushPending,
  microtasks,      \* FIFO of the microtasks the scheduler and nextTick created
  stack,           \* the call stack
  batch,           \* history: how many entries of queue the last sort placed
  owed             \* history: what each nextTick callback was called to wait for

vars == << queue, postFlushCbs, isFlushing, isFlushPending, microtasks, stack,
           batch, owed >>

--------------------------------------------------------------------------------
(***************************************************************************)
(* Frames.  "jobs" and "posts" are the two loops of flushJobs; "render" is *)
(* the flushPostFlushCbs() that ends a render() call; "job", "cb" and      *)
(* "tick" are user code.                                                   *)
(***************************************************************************)
Loops == {"jobs", "posts", "render"}
UserKinds == {"job", "cb", "tick"}

Counts == [Code -> 0..(RecursionLimit + 1)]
NoRuns == [f \in Code |-> 0]

Frame == [at : Loops \cup UserKinds, run : Code \cup Ticks \cup {Null},
          todo : Seq(Cbs), seen : Counts, calls : 0..MaxCalls]

LoopFrame(kind, cbs, seen) ==
  [at |-> kind, run |-> Null, todo |-> cbs, seen |-> seen, calls |-> 0]
CodeFrame(kind, f) ==
  [at |-> kind, run |-> f, todo |-> << >>, seen |-> NoRuns, calls |-> 0]

Top == Last(stack)
At(kinds) == stack # << >> /\ Top.at \in kinds
WithTop(frame) == [stack EXCEPT ![Len(stack)] = frame]

\* User code has control: a script or a macrotask, or the code on top.
UserCode == stack = << >> \/ (At(UserKinds) /\ Top.calls < MaxCalls)
Charged == IF stack = << >> THEN stack
           ELSE WithTop([Top EXCEPT !.calls = @ + 1])

\* try/catch of callWithErrorHandling, which only the jobs of flushJobs have:
\* an exception that crosses any other frame ends everything on the stack.
Unwound == IF Recover /\ Len(stack) > 1 /\ stack[1].at = "jobs"
           THEN << stack[1] >>
           ELSE << >>

\* checkRecursiveUpdates: counts in development only, throws past the limit.
Exceeded(seen, f) == Dev /\ seen[f] > RecursionLimit
Counted(seen, f) == IF Dev THEN [seen EXCEPT ![f] = @ + 1] ELSE seen

--------------------------------------------------------------------------------
(***************************************************************************)
(* Array.prototype.sort with the comparator getId(a) - getId(b) is stable; *)
(* getId(null) is a TypeError, met as soon as two entries are compared.    *)
(***************************************************************************)
Precedes(q, a, b) ==
  \/ Id[a] < Id[b]
  \/ Id[a] = Id[b] /\ \E i, k \in DOMAIN q : i < k /\ q[i] = a /\ q[k] = b

SortThrows(q) == Len(q) > 1 /\ Null \in ToSet(q)

\* Mutant: no sort.
UnsortedQueue(q) == {q}

Sorted(q) ==
  {s \in Bijection(1..Len(q), ToSet(q)) :
     \A i, k \in 1..Len(q) : i < k => Precedes(q, s[i], s[k])}

\* [...new Set(cbs)]: every callback once, in the order they first occur.
Deduplicated(cbs) ==
  {s \in SeqOf(ToSet(cbs), Len(cbs)) :
     /\ ToSet(s) = ToSet(cbs)
     /\ \A i, k \in 1..Len(s) : i < k =>
          \E m \in DOMAIN cbs :
            /\ cbs[m] = s[i]
            /\ \A n \in 1..m : cbs[n] # s[k]}

--------------------------------------------------------------------------------
\* Mutant: one of the two flags is forgotten in the guard.
QueueFlushIgnoringFlushing ==
  IF ~isFlushPending
  THEN /\ isFlushPending' = TRUE
       /\ microtasks' = Append(microtasks, FlushTask)
  ELSE UNCHANGED << isFlushPending, microtasks >>

QueueFlush ==
  IF ~isFlushing /\ ~isFlushPending
  THEN /\ isFlushPending' = TRUE
       /\ microtasks' = Append(microtasks, FlushTask)
  ELSE UNCHANGED << isFlushPending, microtasks >>

\* Mutant: no includes() check.
QueueJobAgain(j) ==
  /\ UserCode /\ Len(queue) < MaxQueue
  /\ queue' = Append(queue, j)
  /\ QueueFlush
  /\ stack' = Charged
  /\ UNCHANGED << postFlushCbs, isFlushing, batch, owed >>

QueueJob(j) ==
  /\ UserCode /\ Len(queue) < MaxQueue
  /\ j \notin ToSet(queue)
  /\ queue' = Append(queue, j)
  /\ QueueFlush
  /\ stack' = Charged
  /\ UNCHANGED << postFlushCbs, isFlushing, batch, owed >>

\* updateComponent updates a child on the spot and invalidates its queued job:
\* inside a flushed job, or wherever a component is updated synchronously.
InvalidateJob(j) ==
  /\ UserCode
  /\ SyncRender \/ \E i \in DOMAIN stack : stack[i].at = "job"
  /\ \E i \in DOMAIN queue :
       /\ queue[i] = j
       /\ \A k \in 1..(i - 1) : queue[k] # j
       /\ queue' = [queue EXCEPT ![i] = Null]
  /\ owed' = [t \in Ticks |-> owed[t] \ {j}]
  /\ stack' = Charged
  /\ UNCHANGED << postFlushCbs, isFlushing, isFlushPending, microtasks, batch >>

\* Mutant: an array is pushed as one callback.
PushArrayAsCallback(cbs) ==
  /\ UserCode /\ Len(postFlushCbs) + Len(cbs) <= MaxPosts
  /\ postFlushCbs' = Append(postFlushCbs, cbs)
  /\ QueueFlush
  /\ stack' = Charged
  /\ UNCHANGED << queue, isFlushing, batch, owed >>

QueuePostFlushCb(cbs) ==
  /\ UserCode /\ Len(postFlushCbs) + Len(cbs) <= MaxPosts
  /\ postFlushCbs' = postFlushCbs \o cbs
  /\ QueueFlush
  /\ stack' = Charged
  /\ UNCHANGED << queue, isFlushing, batch, owed >>

\* Everything that was handed to the scheduler and has not run yet.
Pending == (ToSet(queue) \ {Null}) \cup ToSet(postFlushCbs)
           \cup UNION {ToSet(stack[i].todo) : i \in DOMAIN stack}

NextTick(t) ==
  /\ UserCode
  /\ t \notin ToSet(microtasks)
  /\ \A i \in DOMAIN stack : stack[i].run # t
  /\ microtasks' = Append(microtasks, t)
  /\ owed' = [owed EXCEPT ![t] = Pending]
  /\ stack' = Charged
  /\ UNCHANGED << queue, postFlushCbs, isFlushing, isFlushPending, batch >>

\* render() ends with flushPostFlushCbs(), with counts of its own.
RenderFlush ==
  /\ UserCode /\ Len(stack) < MaxDepth - 1
  /\ postFlushCbs # << >>
  /\ \E cbs \in Deduplicated(postFlushCbs) :
       stack' = Append(Charged, LoopFrame("render", cbs, NoRuns))
  /\ postFlushCbs' = << >>
  /\ UNCHANGED << queue, isFlushing, isFlushPending, microtasks, batch, owed >>

--------------------------------------------------------------------------------
\* The head of flushJobs, up to and including the sort.  EnterFlushStillPending
\* and EnterFlushUncounted are mutants: isFlushPending is not reset; every pass
\* counts the runs from zero.
EnterFlushStillPending(seen) ==
  /\ isFlushing' = TRUE
  /\ queue' \in Sorted(queue)
  /\ batch' = Len(queue)
  /\ stack' = << LoopFrame("jobs", << >>, seen) >>
  /\ UNCHANGED isFlushPending
EnterFlushUncounted(seen) ==
  /\ isFlushPending' = FALSE
  /\ isFlushing' = TRUE
  /\ ~SortThrows(queue)
  /\ queue' \in Sorted(queue)
  /\ batch' = Len(queue)
  /\ stack' = << LoopFrame("jobs", << >>, NoRuns) >>
EnterFlush(seen) ==
  /\ isFlushPending' = FALSE
  /\ isFlushing' = TRUE
  /\ \/ /\ SortThrows(queue)
        /\ stack' = << >>
        /\ UNCHANGED << queue, batch >>
     \/ /\ ~SortThrows(queue)
        /\ queue' \in Sorted(queue)
        /\ batch' = Len(queue)
        /\ stack' = << LoopFrame("jobs", << >>, seen) >>

FlushJobs ==
  /\ stack = << >> /\ microtasks # << >> /\ Head(microtasks) = FlushTask
  /\ microtasks' = Tail(microtasks)
  /\ EnterFlush(NoRuns)
  /\ UNCHANGED << postFlushCbs, owed >>

Shift == /\ queue' = Tail(queue)
         /\ batch' = IF batch > 0 THEN batch - 1 ELSE 0

SkipInvalidated ==
  /\ At({"jobs"}) /\ queue # << >> /\ Head(queue) = Null
  /\ Shift
  /\ UNCHANGED << postFlushCbs, isFlushing, isFlushPending, microtasks, stack,
                  owed >>

\* One turn of a loop: count the run, then call f; or throw.
Call(kind, loop, f) ==
  IF Exceeded(loop.seen, f)
  THEN stack' = Unwound /\ UNCHANGED owed
  ELSE /\ stack' = Append(WithTop([loop EXCEPT !.seen = Counted(loop.seen, f)]),
                          CodeFrame(kind, f))
       /\ owed' = [t \in Ticks |-> owed[t] \ {f}]

RunJob ==
  /\ At({"jobs"}) /\ queue # << >> /\ Head(queue) # Null
  /\ Shift
  /\ Call("job", Top, Head(queue))
  /\ UNCHANGED << postFlushCbs, isFlushing, isFlushPending, microtasks >>

\* The job loop ends when the queue is empty; flushPostFlushCbs(seen) starts.
EnterPosts ==
  /\ At({"jobs"}) /\ queue = << >>
  /\ \E cbs \in Deduplicated(postFlushCbs) :
       stack' = WithTop([Top EXCEPT !.at = "posts", !.todo = cbs])
  /\ postFlushCbs' = << >>
  /\ UNCHANGED << queue, isFlushing, isFlushPending, microtasks, batch, owed >>

RunPost ==
  /\ At({"posts", "render"}) /\ Top.todo # << >>
  /\ Call("cb", [Top EXCEPT !.todo = Tail(Top.todo)], Head(Top.todo))
  /\ UNCHANGED << queue, postFlushCbs, isFlushing, isFlushPending, microtasks,
                  batch >>

EndRender ==
  /\ At({"render"}) /\ Top.todo = << >>
  /\ stack' = Front(stack)
  /\ UNCHANGED << queue, postFlushCbs, isFlushing, isFlushPending, microtasks,
                  batch, owed >>

\* The end of flushJobs: flush again, with the same counts, until it drains.
\* The mutant EndFlushOnce does not look for new work.
EndFlushOnce ==
  /\ At({"posts"}) /\ Top.todo = << >>
  /\ isFlushing' = FALSE
  /\ stack' = << >>
  /\ UNCHANGED << queue, postFlushCbs, isFlushPending, microtasks, batch, owed >>

EndFlush ==
  /\ At({"posts"}) /\ Top.todo = << >>
  /\ IF queue # << >> \/ postFlushCbs # << >>
     THEN EnterFlush(Top.seen)
     ELSE /\ isFlushing' = FALSE
          /\ stack' = << >>
          /\ UNCHANGED << queue, isFlushPending, batch >>
  /\ UNCHANGED << postFlushCbs, microtasks, owed >>

RunTick ==
  /\ stack = << >> /\ microtasks # << >> /\ Head(microtasks) # FlushTask
  /\ microtasks' = Tail(microtasks)
  /\ stack' = << CodeFrame("tick", Head(microtasks)) >>
  /\ UNCHANGED << queue, postFlushCbs, isFlushing, isFlushPending, batch, owed >>

Return ==
  /\ At(UserKinds)
  /\ stack' = Front(stack)
  /\ UNCHANGED << queue, postFlushCbs, isFlushing, isFlushPending, microtasks,
                  batch, owed >>

Throw ==
  /\ At(UserKinds) /\ Top.run \in MayThrow
  /\ stack' = Unwound
  /\ UNCHANGED << queue, postFlushCbs, isFlushing, isFlushPending, microtasks,
                  batch, owed >>

--------------------------------------------------------------------------------
Init ==
  /\ queue = << >> /\ postFlushCbs = << >>
  /\ isFlushing = FALSE /\ isFlushPending = FALSE
  /\ microtasks = << >> /\ stack = << >>
  /\ batch = 0
  /\ owed = [t \in Ticks |-> {}]

\* What user code does: all of it is at the program's discretion.
Calls == \/ \E j \in Jobs : QueueJob(j) \/ InvalidateJob(j)
         \/ \E cbs \in CbArrays : QueuePostFlushCb(cbs)
         \/ \E t \in Ticks : NextTick(t)
         \/ RenderFlush

\* What the event loop and the two loops of the scheduler do.
Steps == \/ FlushJobs \/ SkipInvalidated \/ RunJob \/ EnterPosts \/ RunPost
         \/ EndRender \/ EndFlush \/ RunTick

Next == Calls \/ Steps \/ Return \/ Throw

\* The engine runs the microtasks and the loops go on; user code returns or
\* throws (it does not loop forever by itself).
Fairness == WF_vars(Steps) /\ WF_vars(Return \/ Throw)

Spec == Init /\ [][Next]_vars /\ Fairness

--------------------------------------------------------------------------------
TypeOK ==
  /\ queue \in Seq(Jobs \cup {Null})
  /\ postFlushCbs \in Seq(Cbs)
  /\ isFlushing \in BOOLEAN /\ isFlushPending \in BOOLEAN
  /\ microtasks \in Seq(Ticks \cup {FlushTask})
  /\ stack \in Seq(Frame)
  /\ batch \in Nat
  /\ owed \in [Ticks -> SUBSET Code]

\* flushJobs is running: its frame is at the bottom of the stack.
FlushActive == stack # << >> /\ stack[1].at \in {"jobs", "posts"}

\* flushJobs is never entered twice: one microtask at most stands for it, only
\* while isFlushPending says so, no flush frame is above another frame, and
\* whoever looks at isFlushing during a flush finds it set (queueFlush relies
\* on both flags to create no second microtask).
SingleFlush ==
  /\ \A i, k \in DOMAIN microtasks :
       microtasks[i] = FlushTask /\ microtasks[k] = FlushTask => i = k
  /\ isFlushPending <=> FlushTask \in ToSet(microtasks)
  /\ ~(isFlushPending /\ isFlushing)
  /\ FlushActive => isFlushing
  /\ \A i \in DOMAIN stack : stack[i].at \in {"jobs", "posts"} => i = 1

\* Work handed over is never stranded: while a job or a callback waits, a flush
\* is on its way or running ("flush only gets pushed when something is added").
\* It is what the comment over the last lines of flushJobs promises.
NoLostWork ==
  queue # << >> \/ postFlushCbs # << >>
    => FlushActive \/ FlushTask \in ToSet(microtasks)

\* The jobs present when a flush starts run parents first, whatever is queued
\* or invalidated by the jobs before them.
BatchInOrder ==
  LET ahead == {i \in 1..batch : queue[i] # Null} IN
  /\ \A i, k \in ahead : i < k => Id[queue[i]] <= Id[queue[k]]
  /\ Len(stack) > 1 /\ stack[2].at = "job" =>
       \A i \in ahead : Id[stack[2].run] <= Id[queue[i]]

\* In development a flush ends even if a job or a callback queues itself
\* each time it runs: the recursion limit stops it.
FlushEnds == []<>(stack = << >>)

\* The scheduler implements DeferredWork: its two queues, the loops that work on
\* them and its flags add up to that promise (production build, no code throws).
Deferred == INSTANCE DeferredWork WITH
  due <- Pending, asked <- Ticks \cap ToSet(microtasks), waits <- owed
ImplementsDeferredWork == Deferred!Spec
================================================================================
