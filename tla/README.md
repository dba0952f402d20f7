# TLA+ models of Vue 3

This directory specifies this repository (Vue 3.0.0, annotated): the scheduler, the
reactivity system and its proxies, watchers, Suspense and asynchronous components, the
compiler from the source of a template to what its code does, the renderer with its
blocks and diffs, transitions and KeepAlive, rendering on the server, and hydration.
Every module is translated from the TypeScript under `src/packages`; `PROJECT.json`
names, for every definition, the lines it stands for.

JavaScript has one thread. What interleaves is (a) code on one **call stack**:
a job calls a setter, the setter triggers an effect, the effect queues a job;
and (b) **tasks**: microtasks, timers, promises settled by loaders. The models of the
runtime make both explicit: (a) as a `stack` of frames whose top is the code that has
control, (b) as actions enabled while the stack is empty. The compiler, the renderer
and hydration are long sequential computations whose difficulty is in the data; they
are operators from state to state, and their actions are the events an app sees: a
change of its data, a component that arrives late, a page that is hydrated.

To check everything: `tlc -config <run>.cfg <module>.tla` for each run below, and
`tlapm <module>.tla` for each `...Proofs` module.

## Inventory

| component | state | operations | hard behaviour | what makes it correct |
|---|---|---|---|---|
| scheduler (`runtime-core/scheduler.ts`, `errorHandling.ts`) | `queue`, `postFlushCbs`, `isFlushing`, `isFlushPending`, the microtask queue | `queueJob`, `invalidateJob`, `queuePostFlushCb`, `nextTick`, `flushJobs`, `flushPostFlushCbs` | jobs and callbacks that call back into it at any depth, exceptions, self-queueing jobs | one flush at a time, no work stranded, parents before children, a flush ends, `nextTick` waits for what was pending |
| effects and computed values (`reactivity/effect.ts`, `computed.ts`, `ref.ts`) | `targetMap` (dep sets), each effect's `deps` and `active`, `effectStack`, `trackStack`, each computed's `dirty` | `effect`, `stop`, `track`, `trigger`, computed get/set, `pauseTracking`, `resetTracking` | nested and re-entrant runs, stop during a run, exceptions in the middle of a trigger | the two halves of the graph mirror each other, an effect at rest has seen the last write, a stopped effect is in no dep |
| reactive proxies (`reactive.ts`, `baseHandlers.ts`, `collectionHandlers.ts`) | the raw data, each raw object's proxies | get, set, has, delete, ownKeys; get, set, add, delete, clear, forEach, iterators of collections | which keys a change concerns; proxies of proxies; raw and reactive forms of one key | no reader misses a change, readonly is deep, no proxy gets into raw data |
| watchers (`apiWatch.ts`) | `oldValue`, `cleanup`, the runner | `watch`, `watchEffect`, stop, `onInvalidate` | flush modes against component updates; stopped while queued | told of the last change with the right old value, cleaned up in time |
| compiler (`compiler-core`) | the AST, the context of parser and transforms | parse, transform, generate | broken sources, nesting of `v-if`, `v-for`, slots and `v-once`, hoisting | the tree the source means; hints (patch flags, blocks, caches) that only save work |
| vnodes, component instances, renderer (`vnode.ts`, `component*.ts`, `renderer.ts`, `Teleport.ts`) | vnodes, blocks, instances, the document | `createVNode`, `openBlock`, `mount/update/unmountComponent`, `patch*Children`, `setRef`, `render` | shared (hoisted, cached) vnodes, blocks out of step, keyed moves, refs that change hands | the document is what a fresh mount shows, whatever happened before; refs are alive; what is gone is unmounted |
| Suspense (`components/Suspense.ts`) | `deps`, `isResolved`, `isUnmounted`, `effects`, subtree / fallback / hidden container | mount, patch, `resolve`, `recede`, `registerDep`, `unmount` | promises settle in any order, after unmount, nested boundaries | resolves exactly when every dependency is done, shows one of content and fallback, holds effects back until then |
| asynchronous components (`apiAsyncComponent.ts`) | `pendingRequest`, `resolvedComp`, `retries`, per instance `loaded`, `error`, `delayed` | `load`, `retry`, timers | late answers, retries, timeouts, several instances sharing a request | what is shared is the newest pending request, failures are not handed on, every instance settles |
| server renderer (`server-renderer`) | nested buffers with promises, teleport buffers | `renderToString` | children that arrive late | output in document order |
| hydration (`hydration.ts`, `Teleport.ts`) | the walk over the server's nodes, `hasMismatch` | `hydrate`, `hydrateNode`, `handleMismatch` | fragments, teleports, late components, other data on the client | nodes are adopted, and the app then behaves like one that was mounted |
| KeepAlive (`components/KeepAlive.ts`) | `cache`, `keys`, `current`, storage container | render, activate, deactivate, prune | LRU limit, a transition in between | alive are the instances in the cache, active the one on display |
| transitions (`components/BaseTransition.ts`, `runtime-dom/components`) | `leavingVNodes`, per-element callbacks | enter, leave, delayed leave | views that change during a transition, three modes | at the end the last view alone is there; hooks come in pairs |
| HMR (`hmr.ts`) | records of live instances | register, rerender, reload | reload while a flush runs | not modelled |
| DOM platform (`runtime-dom`) | the document, listeners | node operations, `patchProp`, event invokers | listeners attached during a dispatch | node operations are part of the renderer's model; dispatch is not modelled |
| other compilers (`compiler-dom`, `-ssr`, `-sfc`), tests' renderer, tools | | | | not modelled |

How they interact: the compiler's code runs inside a component's effect and makes
vnodes; a setter calls `trigger`, which calls the scheduler of a component's effect,
`queueJob`; the flush calls the effect, which renders and patches; patches set refs, make and
unmount instances and queue hooks as post-flush callbacks, through
`queueEffectWithSuspense` when a Suspense boundary is around. Setup promises
and loaders settle as microtasks of their own, and mount, hydrate or resolve then.
The shared state is therefore the queue, the post-flush callbacks, the tracking stacks
(`activeEffect`, `shouldTrack`), the stack of open blocks, the vnodes of the last render,
the document, and each boundary's `deps` and `effects`.

## Modules

| module | models | built on |
|---|---|---|
| `DeferredWork` | what a scheduler promises, without queues and flags | |
| `Scheduler` | the scheduler, every operation; implements `DeferredWork` | |
| `Reactivity` | effects, computeds and the dependency graph | |
| `Proxies` | proxies of an Object, an Array, a Map and a Set, and refs in them | |
| `Watch` | watchers with the queues they use, beside a component | |
| `Suspense` | boundaries and components with asynchronous setup | |
| `AsyncComponent` | the instances and requests of one `defineAsyncComponent` | |
| `Subsequence` | loops over indices, the longest increasing subsequence | |
| `Children` | `patchChildren`, unmounted vnode by vnode and moved anchor by anchor | `Subsequence` |
| `Dom` | nodes and the host operations on them | |
| `VNode` | vnodes, blocks, clones, normalisation | `Dom` |
| `Compile` | the transforms | |
| `Codegen` | what generated code does when it runs, with its helpers | `VNode`, `Compile` |
| `Instance` | props, attributes and slots of instances; when a component renders again | `Codegen` |
| `Patch` | the renderer and Teleport | `Instance`, `Subsequence` |
| `Parse` | the parser | `Compile` |
| `Markup` | what a source means (the reference for `Parse`) | `Parse` |
| `Root` | compiling, loading, mounting and changing an app | `Patch`, `Parse` |
| `App` | an app beside the same app written by hand | `Root`, `Markup` |
| `Server` | rendering to a string, and the page a browser makes of it | `Root` |
| `Hydrate` | the walk of hydration | `Server` |
| `Hydration` | server, page and client of an app | `Hydrate` |
| `Transition` | BaseTransition and KeepAlive, `v-show` | |
| `Samples` | templates as trees and as sources | `Parse`, `Dom` |
| `MC...` | the values the runs give to constants | |
| `SchedulerProofs` | theorems about `Scheduler`, and that it implements the safety part of `DeferredWork` | `Scheduler` |
| `ReactivityProofs`, `WatchProofs`, `SuspenseProofs`, `AsyncComponentProofs`, `ProxiesProofs`, `ChildrenProofs` | theorems about the module of that name | that module |
| `SubsequenceProofs` | what loops keep, and that `GetSequence` returns a longest increasing subsequence | `Subsequence` |

Modules with state of their own are parameterised by constants with named assumptions.
Next to some definitions stands a
variant with a longer name, such as `QueueFlushIgnoringFlushing`: the same code with a
plausible mistake in it. `PROJECT.json` pairs every property with such a mutant that
breaks it; the variants are part of no specification.

### Scheduler

The variables `queue`, `postFlushCbs`, `isFlushing` and `isFlushPending` are those of
`scheduler.ts`. `microtasks` is the engine's queue as far as the scheduler and
`nextTick` fill it. `stack` has a frame for each loop of `flushJobs` and
`flushPostFlushCbs` (with the callbacks it still has to run and, in development, the
counts of `checkRecursiveUpdates`) and one for each job, callback or tick that runs.
`queueJob`, `invalidateJob`, `queuePostFlushCb`, `nextTick` and the
`flushPostFlushCbs()` of `render()` are actions of whatever user code is on top of the
stack, or of a script when the stack is empty; the turns of the loops are actions of
their own, so that user code may run between any two. `batch` and `owed` are history:
how much of the queue the last sort has placed, and what had been pending when
`nextTick` was called. `Throw` cuts the stack down to whoever catches: with error
recovery (development) the caller of a job of the flush, otherwise nobody. Post-flush
callbacks are called bare (`scheduler.ts:71`), and their exceptions always reach the
event loop.

### Reactivity

`dep` and `deps` are the two halves of the graph (`targetMap` and `effect.deps`),
`dirty` the flags of computeds, `shouldTrack`, `trackStack` and `effectStack` the
variables of `effect.ts`. A frame is a run of an active node, a call of a stopped
one, or the loop of a `trigger()` with what it has still to run. Values are reduced
to one bit per node: `stale` holds the nodes that have not seen the last write of
something they read (`reads`); a write made by a run does not count against the run
itself, as `trigger` leaves the active effect out. The constants `CanRead`,
`CanWrite` and `CanCall` say what the code of a node may do; which of it a run does,
and in which order, is free.

An exception (`Throw`) is caught by any code below on the stack. It pops one entry of each stack for
every run it crosses, as their `finally` blocks do, and nothing for the pauses: `setup()` and
hooks are called between `pauseTracking()` and `resetTracking()` without a `finally`
(`component.ts:523-532`, `apiLifecycle.ts:38-46`), and in production `logError` throws again. So an
exception that leaves a pause leaves its entry on `trackStack`, and `shouldTrack` with it. `lost`
counts these entries; the frames that were on the stack at that moment are `spoilt`, as each
of them will later pop the entry of another.

### Suspense

`bound[s]` is the `SuspenseBoundary`: `deps`, `isResolved`, `effects`, where its
content is and how many fallbacks are mounted. `phase[c]` follows an instance;
"zombie" is an instance that was rendered after it had been unmounted. `waiting`
holds the setup promises whose callback has not run, `jobs` the queued `recede()`s,
`posts` the global post-flush callbacks. `MountSuspense`, `PatchSuspense`,
`RegisterDep`, `RemoveComponent`, `RemoveSuspense` and `ReplaceContent` are what a
render does, on a stack; `Settle`, `Reject`, `Recede` and `FlushPosts` are the event
loop's. `Resolve` is the whole of `resolve()`, with the search for a pending parent
that takes the effects over.

### AsyncComponent

A request is a call of `load()` that called the loader. `pendingRequest`,
`resolvedComp` and `retries` are the variables of the closure, shared by all
instances; `inst[i]` has the refs of one `setup()` (`loaded`, `error`, `delayed`) and
whether its timeout is running. `Completes` is the comparison of `load()` with the
pending request: a component that comes while another request is pending is dropped,
and its promise follows the pending one (`Follow`).
`onError()` hands an error to `handleError` before `error` is set. `Handled` are the instances
whose errors somebody takes: a hook of a parent, the app's handler, or in development everybody's.
For the others `handleError` throws, at a timeout and at a failure, and `error` stays as it was.

### Children

A child is its key and its type, with an id for its host nodes once it is mounted.
`dom` is the sequence of host nodes in the container, with the siblings around a
fragment, and every insertion names the anchor the code passes. One action is one
`patchChildren`; `PatchKeyedChildren` is the five cases of the keyed diff and
`GetSequence` (in `Subsequence`) the code's binary search with its table of predecessors.
The loops are `Up` and `Down`, recursive functions over the interval of their indices, and
each has an operator for its body (`PatchOld` for the body of `PatchOldFrom`, `Extend` and
`Halve` in the search), which is what the proofs speak of.

### Proxies

`data` is the raw content of the target, of an object in it and of a ref; `deps` what
the one effect depends on, `seen` what it saw when it last ran, `got` the values it was
handed. Each action is a write through a reactive proxy with its toRaw, hadKey and
hasChanged, and runs the effect at once when `Triggered` says that `trigger` finds it
(`Run`). A proxy is a form of its object's name, since `reactive` and `readonly` keep
one proxy of each kind per object; `locked` remembers that the readonly proxy of the
inner object may have been made of the raw object or of its reactive proxy, whichever
came first.

### Watch

A watcher is a runner (a lazy effect, `dep`) and a job; `oldValue` and `cleanup` are the
variables of `doWatch`, `told` is history: what its callback was last told. `queue` and
`posts` are the scheduler's, reduced to what watchers need: `Sorted` puts jobs without an
id last, as `getId` does. The component's update job and its parent's job compete with
them in the queue. Frames on the stack are what waits: an effect, a callback, a loop
of `trigger`, a flush, its post callbacks, `setup()`. A callback may write, stop any
watcher, register a cleanup and return.

### App: Dom, VNode, Compile, Codegen, Instance, Patch, Parse, Root

The state of an app is one record that every operator takes and returns, as the code
changes objects in place: `dom` is the sequence of all nodes ever made, `vn` of all
vnodes, `arrays` of all arrays of children (a clone shares the array of the vnode it
copies), `inst` of all instances. An index is an identity, so a hoisted vnode that is
in two trees, a cached one, and an element that is not cloned are what they are in
the code, with the same consequences. `blocks` and `track` are `blockStack` and
`shouldTrack`, `queue` the updates that are due, `err` the errors thrown.

`Parse` works on pieces (a start tag with its attributes, a word, white space with or
without a line end), not on characters. `Compile` maps the tree to one with a
`codegenNode` on every element, as `transform` does: patch flags are sets of names,
dynamic props a set, expressions name what they read. `Codegen` runs
that tree as the generated code would run: it opens blocks, calls `createVNode`,
`renderList` and `renderSlot`, takes hoisted and cached vnodes, and collects the reads
of the effect. With `s.manual` the same tree stands for a render function written by
hand: no flag, no block, no hoist. `Patch` is `patch()` for every kind of vnode, with
`mountComponent`, `updateComponent` and `setupRenderEffect`, and ends in host operations
on `dom`. `Change` sets the data and flushes the updates of the components that read
what changed, parents first.

`UpdateProps` sets and resets the props of an instance as `updateProps` does, with the names of
two words in both forms (`Hyphenate`, `Camelize`) and with props that are null told from
props without keys (`nullProps`). `kept` is history: the props of an instance
that are no longer passed and were not reset.

`App` keeps a compiled app and its hand-written twin side by side. An action changes the
data of both in any way. `App` and `Hydration` take the operators that compute (compile,
mount, update, parse) as constants, and `MCApp` and `MCHydration` give them those of the modules
below with their arguments and results bound by a LET: TLC then evaluates each once per step.

### Transition

The state `s` has the objects that outlive a render: the vnodes and the hooks of each render
(`vn`, `hooks`; `delayLeave`, `delayedLeave` and `afterLeave` are fields that are deleted and set
as in the code), the elements with their `_enterCb` and `_leaveCb`, the callbacks with their
`called`, the state of the Transition, and the cache of KeepAlive with the instances in it.
Closures are indices into these sequences, and what they capture is in the record: a leave is
`[hooks, el, to]`. A callback calls hooks, removes elements and, with out-in, calls the update
of the component, all before it returns; `CallCb` and `Update` are therefore recursive operators,
and an action is one event: the parent renders another view (`ParentRenders`), a transition ends
and calls `done()` (`Done`), or the component is removed (`Close`). `open` and `wrong` are history:
which hooks of an element were called without their end. The end of a transition is always a later
event, as in `Transition.ts`, which waits for two frames.

### Hydration: Server, Hydrate

`Server` renders vnodes into buffers; a component that is loaded when needed is a
promise in the buffer of its parent, and `Arrive` is its `then`. `Page` is what a
browser makes of the html of the app and of its teleports: adjacent texts are one node,
and an empty text is none. `Hydrate` walks that document with `hydrateNode`, one operator for each of the
branches, and mounts or removes on a mismatch with the operators of `Patch`.
`LoadAsync` is the late hydration of a component the client had to load. Then `Set`
updates the client as it does in `App`.

## Runs

| run | instance | question and result |
|---|---|---|
| `scheduler_prod` | 3 jobs, 2 callbacks, 1 tick; no code throws, components updated by flushed jobs only | types; no work stranded; the jobs of a flush parents first; the scheduler implements `DeferredWork`: what is handed over runs once, nothing else does, `nextTick` tells when what was due has run |
| `scheduler_dev` | 2 jobs, 1 callback; code throws, recovers, updates components anywhere | one flush at a time; every flush ends (recursion limit) |
| `reactivity` | 2 sources, 2 computeds (one reads the other), an effect that runs at once and one that is queued; no effect writes the source of a computed it reads | no effect is behind without being queued, stopped nodes are unsubscribed, no outdated read outside `trigger()` |
| `reactivity_throw` | 1 source, 1 computed, 2 effects (a lazy one) that write, stop, pause and throw, out of pauses too | the graph mirrors itself; the stacks follow the calls, and what is tracked does but for the runs that an exception has spoilt |
| `proxies` | a target of each kind, shallow or not, read through a reactive proxy, a readonly one or a readonly one of a reactive one, by each of the reads | no reader misses a change, what readonly hands out is readonly, no proxy gets into the raw data |
| `watch` | two watchers, all combinations of kind and flush, of the component or of a script | told of the last change; the old value is that of the last call; cleaned up before the next run and at the end; post callbacks see an updated document |
| `suspense` | two nested boundaries, four asynchronous components and a synchronous one | `deps` is the number of pending components; resolved means ready; one of content and fallback; hooks wait for the content and are neither lost nor doubled; nothing pends for ever |
| `async_component` | three instances: two with a timeout, one of which nobody takes the errors of, and one under Suspense | the pending request is the newest, and once it came its component is in use; nobody is told a component older than his request; failures are not handed on; every instance settles, with its component or with an error that somebody takes |
| `children` | every pair of lists of up to three mixed children, and of orders of up to five keys | the container has exactly the new nodes in order; children that stay keep their nodes; the fewest moves |
| `app` | eleven templates (see `Samples`), all data, two updates | nothing throws; compiled shows what hand-written shows; updated shows what mounted shows, unless an instance keeps a prop that is gone; refs name what is there and what is gone is unmounted; and, on the sources and on damaged ones, the parser finds the tree a stack of open elements finds |
| `hydration` | ten templates, late components on both sides, two updates, for four of them other data on the client | the page does not depend on the order of arrival; its nodes are adopted; a hydrated app is like a mounted one; after a mismatch the app is usable |
| `transition` | three modes, alone, around KeepAlive (`max` 1 and 2) and with `v-show`, up to three views and none, with and without `appear` | at the end the last view alone is shown; the mode holds on the way; begin and end of a transition are told in pairs; KeepAlive keeps what is in its cache and unmounts the rest |

### Bounds

* Scheduler: `MaxCalls` calls of the scheduler by each run of a piece of code (2),
  `MaxQueue`, `MaxPosts` and `MaxDepth`. They bound what user code may do, never what
  the scheduler does with it. Two calls are enough for a job to queue another and
  a callback, which is what the flags and the second look of `flushJobs` are about;
  depth 4 has a `render()` inside a callback inside the flush. Id 1..3 orders three
  jobs in every way. The recursion limit is 1 where it is checked.
* Reactivity: `MaxDepth` 4 bounds the frames under which code may still call
  something: an effect that writes, the loop that triggers, the effect it runs and the
  computed that one reads. At the bound code still tracks, throws and returns. `MaxLost` 1 lets
  exceptions leave pauses until one has (a single one may leave several).
* Proxies: two keys, arrays of up to `MaxLength` = 2 items, two primitive values, one
  object and one ref to store: a key that is there and one that is not, a value that
  changes and one that does not, an object as itself and as its proxy. Runs are not bounded.
* Watch: `MaxWrites` = 2 and `MaxStops` = 1. A cell has two values: the second write
  takes the first back, which is where coalescing and `hasChanged` differ.
  `SelfWrites` = FALSE keeps code that a write runs from writing what that code
  watches: without it `ToldTheLatest` fails (see below).
* Suspense: two nested boundaries are the least for effects to move outwards
  (`NestAssumption`: what is around a boundary is around those inside it too).
  Instances are mounted once; the constants say which of them may do what: `Late`
  components are mounted into resolved content (one asynchronous one), `Abandon` ones
  removed while pending, `Replaced` ones pending in content that is replaced as a whole.
  The component that may be removed while pending has a promise that never settles and
  no content is replaced while something is pending: see the disagreements below.
* AsyncComponent: requests are made by mounts, and three requests let an old one come
  after a newer has been given up. Two of the instances may time out. `onError` retries until the third attempt. `Handled` leaves
  out one that may time out and that shares its requests with others who are told.
* Children: one render is enough because every shape the container can have is
  an initial state, mounted by the code's own mount. Lists of three mix keys,
  missing keys, two types with one key, and fragments; with five keys the subsequence search
  replaces elements at the end and in the middle, and follows its table back. The first list of
  keys is taken in one order, as keys are interchangeable. `Keys` and `Types` are five keys and
  three types, one of them of fragments.
* App and Hydration: `MaxUpdates` = 2. The first update takes the app to any data from
  any other, the second finds what the first left behind (stale vnodes, refs,
  attributes, slots). `Samples` has between one and four variables per template, lists of up to
  three keys, and together the templates use `v-if` chains, keyed and unkeyed `v-for` on
  elements, templates and components, slots (default, named, dynamic, scoped,
  with a fallback), `v-once`, `v-show`, `v-model` on a component, `v-on` with cached
  handlers, `v-bind` of an object, dynamic components, refs, and Teleport with `disabled` and a
  changing target; in one of them props come and go, alone and all at once, of one word, of two with
  a hyphen and of two in camelCase (never both forms in one vnode). The parser is run on each source, on five untidy ones, and on each of these
  with any one piece removed.
  `Drifting` are the apps for which the client may start with other data.
* Transition: four renders by the parent: two views may change places and back while the first
  still leaves, or a third comes in between. Transitions end in any order, or never.
  `max` is 2 for three views, so that the oldest is pruned, and 1, so that the one on display is.
  `MCApps` leaves out in-out with more than two views and out-in around KeepAlive with
  `max` 1: see the disagreements below.

No run uses symmetry: ids are ordered, and several check liveness.

### Fairness

* Scheduler: weak fairness of the event loop with the loops of the scheduler
  (microtasks are run, a loop goes on), and of user code returning or throwing. User
  code is never obliged to call anything. `DeferredWork` promises that work runs while work is
  due (`WF(RunSome)`), which the scheduler owes to its microtask.
* Suspense: weak fairness of rendering (a call returns) and strong fairness of the
  event loop: microtasks and queued jobs run whenever the stack is empty, before any
  other task, so that new patches cannot starve them. Promises outside `Settles` may
  stay pending for ever.
* AsyncComponent: loaders settle, `onError` answers and promise callbacks run; timers
  and mounts need not happen.

The other components have no fairness: nothing is promised but safety. Those whose
runs say `CHECK_DEADLOCK FALSE` may stop for good: everything mounted and settled, the last
render or update done, or the bound on writes reached.

## Proofs

The theorems hold for every value of the constants under the assumptions named
in the component's module: the kinds of code are disjoint, ids and limits are natural
numbers, flags are Booleans, `CanRead` and the like are functions of the right type. A theorem that
needs more says so in its `ASSUME`, with an operator (`Calm`, `Tame`, `Orderly`, `SingleLate`)
that the constants of the run satisfy; each is needed, for the reason given here.

`SchedulerProofs.tla`

* `TypeCorrect`: `Spec => []TypeOK`, from the actions one by one with lemmas about
  sequences (what `Front`, `Tail`, `Append` and removing an element preserve).
* `FlushIsSingle`: `Spec => []SingleFlush`. `SingleFlush` is inductive with `TypeOK`: the
  flags and the microtask agree, which is what `queueFlush` needs.
* `NothingIsLost`: `Calm` (no code throws, production, components are updated by flushed
  jobs only) implies `Spec => []NoLostWork`. The assumption is needed: code that throws, the
  recursion limit and a null met by the sort all
  leave `isFlushing` set. The strengthening `Unstranded` adds that
  `isFlushing` is only set while a flush is on the stack, that jobs run directly above
  the job loop only, and that nulls are in the queue only during that loop.
* `ParentsFirst`: `Spec => []BatchInOrder`, whatever code throws. The invariant `Ordered` adds
  to `SingleFlush` that the sorted part is still in the queue: jobs that arrive
  during the flush come behind it (`queueJob` pushes, `invalidateJob` only blanks).
* `ImplementsSafely`: under `Calm`, every behaviour of `Scheduler` starts and steps like one of
  `DeferredWork`, under the refinement mapping the run checks: each action is one of
  `DeferredWork`'s or a stutter. The invariant `Sound` adds to `Unstranded` that an entry is
  queued once, that what a tick is owed is still pending, and that a tick comes after the
  flush it was asked to wait for. The fairness of `DeferredWork` needs `ENABLED` and stays with TLC.

`ReactivityProofs.tla`

* `TypesHold`, `GraphMirrors`, `TrackingBalances` for `TypeOK`, `DepsMirror` and
  `TrackingBalanced`, from the invariant `TypeOK /\ TrackingBalanced /\ DepsMirror`. Type
  correctness needs `TrackingBalanced`: that a pop from `trackStack` returns a Boolean
  needs an element to be there, hence one entry per run, per pause and per pause that an exception
  has left. The lemmas count the runs and pauses of a stack that grows, shrinks or is cut at an
  exception, out of pauses or not.
* `StoppedStaysOut`: `StoppedUnsubscribed`, if no node's function stops a node. The
  strengthening `OnlyActive`: nodes on the effect stack are active, others have no deps. A `stop()`
  inside the run of the effect it stops
  lets the rest of the run subscribe it again; that case is outside the
  theorem, and outside the run.
* `TrackingFollows`: `TrackingFollowsCalls`, whatever throws and out of whatever pause. The
  invariant `Following` says that `effectStack` names the runs (`Naming`), that what an exception
  has spoilt lies below everything that started later (`Spoils`), and, of the runs and pauses that are
  not spoilt, which entry of `trackStack` belongs to each and with what value (`Tracks`): they lie
  above a number of entries of which nothing is known, the spoilt ones' and those that were left
  behind, so that a return, and an exception that unwinds several frames, find theirs there. A run
  that is not spoilt is tracked unless it has paused, even though an exception may have left
  `shouldTrack` FALSE for good: its own start sets it (`enableTracking`). Of the spoilt runs
  nothing more can be said: what they pop are the entries of others.
* `EffectsFollowWrites` and `ComputedsAreFresh`: `EffectsCurrent` and `FreshOutsideTrigger`
  for `Tame` programs: computeds are pure and read nothing that effects write, nothing is
  stopped inside a run, nothing throws. The invariant `CInv` follows the news of a write.
  Told are the nodes it has reached: those a loop of `trigger` has still to run, the queued, the dirty
  computeds. A stale node is told, or a chain of computeds, each read by the next, leads
  to it from one that is; the chain is expressed by a set closed under the
  relation (`ClosedUnder`, as in `Affected`). Every premise is needed: an exception
  loses what `trigger` had still to run; an effect that writes a source of a computed it
  reads leaves that computed dirty and itself untold; a stop inside a run resubscribes.

`WatchProofs.tla` (all for `SelfWrites` = FALSE)

* `TypesHold`, `RunsOnce`, `EveryChangeIsTold`, `CleanupsRun`, and the action properties
  `OldValuesFollow` and `PostsSeeTheDom`, for `Typed`, `Alone`, `ToldTheLatest`, `CleanedUp`,
  `OldIsPrevious` and `PostSeesDom`. The invariant `Inv` says where the frames of the
  stack may be above each other (`Shape`), when the code of a watcher is on the stack more than once
  (`Alone`: never) or has gone (`Quiet`), what a runner is subscribed to, that an idle watcher's `oldValue`
  is what it was last told (`Remembers`), that one that has not been told the latest
  waits in a queue or in a loop of `trigger` (`Waiting`), and the same of the
  component's view (`Rendering`). With `SelfWrites` a sync callback runs inside itself and
  the outer call then puts its own, older value back.

`SuspenseProofs.tla`

* `TypesHold` for `Shape`; `HooksKept` for `EffectsKept`: an effect that was queued is in one
  place until it has run, whatever `resolve()` moves between boundaries.
* `WaitsForAll` (`DepsCounted`) and `HooksHeld` (`HooksWait`) under `Orderly`: what is removed
  while pending never settles. Without it `deps` is counted down twice, as
  `isUnmounted` is set in an effect that a pending boundary holds back. The invariant `Good` adds how
  frames are stacked, that `deps` is the number of pending components whose dep
  has not been released (`Exact`), and that what is pending in a resolved
  boundary came late and has its `recede()` queued.
* `OneFace` (`ShowsOne`) under `Orderly` and `SingleLate`: of the late components of a
  boundary one is asynchronous, and no pending content is replaced. Two of them would queue `recede()`
  twice; a replacement may resolve the boundary while it unmounts.

`AsyncComponentProofs.tla`

* `TypesHold` (`TypeOK`), `NoCircle` (`WaitsForNewer`: a request waits only for ones made
  later, the fact `AllSettle` rests on) and `Shared` (`SharesTheLatest`). The invariant says that the
  requests made for one instance (its mount's and those `onError` retried) are a chain, of which each
  waits for the next or was answered after it. So a rejected request that is still
  pending has somebody who has not been told: the instance at the beginning of its chain.

`ProxiesProofs.tla`

* `NoChangeMissed` (`Fresh`), `ReadonlyStays` (`ReadonlyIsDeep`) and the action property
  `ProxiesStayOut` (`NoProxyStored`), for arrays of any length. The invariant `Tracked` says that
  what the effect depends on covers what it has seen (`Depends`); then, for each kind of read
  and each kind of write, a write that does not trigger leaves what is read alike
  (`PutUnseen`, `DeleteUnseen`, `LengthUnseen`, `ClearUnseen`, `RefKeeps`, `InnerKeeps`).

`SubsequenceProofs.tla`

* `GetSequenceIsLongest`: for every nonempty array of numbers the indices that `GetSequence`
  returns are those of a longest increasing subsequence, zeros left out (an index of a zero, a
  new child, can only be its first element). The invariant of its loop has two halves. Every entry
  of `result` is the end of a chain through `p` as long as its position (`Chained`), and the loop back
  finds one of these chains (`Traced`). And no rising indices looked at so far are more than `result`; those
  that are `k` many end with a number that is not below the one at `result[k]` (`Longest`). The binary search
  finds the place where this stays so (`LowerBoundIs`, `LongestStep`).
* A loop is a recursive function over an interval; a set of states for each index, each leading to the next,
  holds at its end (`UpRuns`, `DownRuns`, from the well-foundedness of the
  natural numbers by `WFMin`), which takes the place of induction.

`ChildrenProofs.tla`

* `ChildrenMatch` (`DomMatches`): for lists of any length, any mixture of keys and of vnodes
  without one, elements and fragments, in an element and between siblings. Of the lists it
  assumes what `ChildrenAssumption` says, that keys are unique among the children of a vnode.
  The invariant `ChildrenInv` adds that mounted children differ in their ids and that `dom` is
  `Contents` of them, with siblings or without; the rest of the proof is about one patch:
  + Nodes are compared by rank. A `Row` is a set of vnodes at numbered slots whose nodes are in
    the order of the slots; removing a vnode keeps a row, and so does inserting one before the
    node of the next slot that is taken (`RowRemove`, `RowInsert`, `NextPrecedes`). A row that
    holds all the nodes there are is the container (`RowEnds`).
  + While old children are looked at, the slots are theirs: an old child stays in its slot, is
    replaced there by the new child that is patched to it, or leaves it empty (`Patching`, with
    the matching `m` of new children to old ones). While new children are placed the slots are the
    new children's (`Placing`). In between the row is numbered anew, with the
    children that are not moved: these have to be in the same order on both sides (`PlacingStarts`).
  + That they are is what `moved` and `getSequence` are for. If `moved` stays FALSE the matching
    grows (`Searching`). Otherwise the children that stay are those of the sequence, and the
    numbers at its indices grow (`GetSequenceInOrder`). The anchor of every insertion is then the
    node of the next slot (`AnchorNext`).
* `ChildrenSpared` (the action property `NodesKept`), from the same invariant and one more fact about a
  patch, `Spares`: the final matching `m` says what is reused, unmounted and moved.
  + What is unmounted are the old children that no new one was matched to with its type, each once
    (`Gone`): when as many were patched as there are new ones, the diff looks no further, as what
    is left has no partner.
  + The matching is thorough (`Thorough`): an old child with a key meets the new one that has it, and
    one without meets some new child of its type as long as one is free. So of those without
    key as many nodes are reused as both sides allow (`KeylessReused`). A fragment without
    keys is patched by position, which is why `NodesKept` says this of children without key in
    elements only.
  + The new children that do not move are a greatest set along which `m` grows (`Greatest`): the
    sequence from `GetSequenceIsLongest` if `moved` was set, all of them otherwise. `NodesKept` compares the
    children by their nodes and keys instead of by `m`; `MovedAre` shows that it is the same order.

Only model-checked: liveness and what needs `ENABLED` (`FlushEnds`, `Resolves`, `AllSettle`, the
fairness of `DeferredWork`); `App`, `Hydration` and `Transition`, whose operators are recursive: what they compute for
every input needs induction over data.

## Where the code differs from what one would expect

Met while modelling; each is outside the runs, at the bound named, or one of the
exceptions that a property's comment names.

Scheduler and effects:

* A job queued during a flush runs after queued jobs with larger ids (`scheduler.ts:27`
  against the comment at 93): `BatchInOrder` speaks of the jobs present when the flush sorts.
* An exception that leaves `setup()` or a hook leaves its pause too: `shouldTrack` stays FALSE for the
  rest of the runs around it, and at rest too, with an entry too many on `trackStack`
  (`component.ts:523-532`, `apiLifecycle.ts:38-46`): runs that start later are not affected.
* A post callback that throws leaves `isFlushing` set, and later work is stranded
  (`scheduler.ts:117`, 122): excluded by `MayThrow = {}`, and by `Calm` in the theorem.
* An effect that writes the source of a computed it reads leaves the computed dirty, and
  is never triggered through it again (`computed.ts:55-58`): excluded by `NoFeedback`.
* `invalidateJob` outside a flush leaves a null in the queue, whose id the sort then reads
  (`scheduler.ts:36`, 98): excluded by `SyncRender = FALSE` in `scheduler_prod`.
* `render()` of another root runs post callbacks before queued updates (`scheduler.ts:59`,
  `renderer.ts:2572`): `PostSeesDom` speaks of the callbacks of a flush.

Suspense: `isUnmounted` is set in an effect a pending boundary holds back, so a promise
that settles after the removal renders the component and counts `deps` down again
(`renderer.ts:2484`, against the comment at `Suspense.ts:496`; the model has it, as a
"zombie"). Content that is
replaced while pending can leave the boundary resolved with the old content
(`Suspense.ts:172-181`, 218, against 200-202). `Abandon`, `Settles` and `Replaced` keep both out.

Asynchronous components: `onError` is called before `error.value` is set
(`apiAsyncComponent.ts:201`, 214), and throws in production if nobody takes the error: the instance
then shows neither the component nor its error component, which `AllSettle` allows outside `Handled`.

Watchers: `flush: 'pre'` with a callback has no job id, sorts last and runs after the
component's update (`apiWatch.ts:302`, `scheduler.ts:76`, against the comment at
`apiWatch.ts:323`); a sync callback that writes what it watches leaves the outer call's
value as `oldValue` (289), which is `SelfWrites`; a cleanup stays registered and is called
again by stop; one that is registered after stop is never called; a callback that waits when its
watcher is stopped, or its component removed, is called once more, with undefined
(`apiWatch.ts:263-291` asks only for `isUnmounted`, which is set later; the test at
`apiWatch.spec.ts:213` stops before it writes); `onInvalidate` during
`setup` on the server reads `runner` before it is declared (238, 246-257).

Proxies: enumeration of a reactive array is not told of new items, and setting its length
then compares the symbol of the enumeration with a number and throws (`effect.ts:241`);
a `readonly` made of the raw object first is returned for the reactive one too, and does
not track (`reactive.ts:130`); `reactive` and `shallowReactive` share a slot; `readonly`
hands out refs that can be written (`baseHandlers.ts:101-104`); readonly collections
of reactive ones do not track (`collectionHandlers.ts:151`, 174).

Compiler and renderer:

* `createBlock` pushes into the parent block while tracking is suspended
  (`vnode.ts:234-236`): a `v-once` with `v-if` or `v-for` inside puts blocks out of step;
  `v-once` with `v-if` on one element throws; `v-once` in `v-for` shows its first item for all.
* Static children of a toggled or retargeted Teleport and of a keyed `<template v-for>` have no
  element when they are moved; a Teleport that changes its target appends after the target's
  anchor; a fragment as the root of a component in a Teleport leaves nodes behind.
* `setupRenderEffect` tests `next === null`, which never holds (`renderer.ts:1638`), and
  `updateComponent` does not set `instance.vnode` when nothing is to be done (1455-1460): the
  `el` of a parent whose root is a component goes stale.
* A declared prop that is no longer passed keeps its value if it was passed in camelCase, or if no props
  are passed at all: `updateProps` looks it up under `kebabKey`, which then is another name, or
  never assigned (`componentProps.ts:217-227`, against the comment at 212, and where the prop was passed hyphenated it is
  reset, as the test at `componentProps.spec.ts:51` has it). The model and its samples have it;
  `SameAsFresh` excepts the instances that keep such a prop (`kept`), and no others.
* `shouldUpdateComponent` takes `FULL_PROPS` to mean that props are not null (`componentRenderUtils.ts:302`);
  `v-bind` of an object by itself hands on what the object is, and when it becomes undefined the
  update throws (`TakesKeysOfNull`). No sample has it.
* `instance.refs = {}` on each render (1613) loses the refs in slot content; a ref that
  becomes undefined is not cleared; attributes that all disappear stay on the root of a
  component; `:style` that becomes undefined under `v-show` undoes it.
* A slot outlet is a stable fragment though the slot's content may be switched; slots that
  are passed on are compiled as stable; `:key` on a `<template v-for>` with one element is
  not used.
* In the parser, a void or self-closing element with `v-pre` leaves `inVPre` set
  (`parse.ts:441-443`) and a stray `</pre>` leaves `inPre` set (544); comments removed
  in production leave no blank between the texts around them; the white space of a
  textarea is condensed.

Transitions and KeepAlive:

* With in-out, a third view that comes before the second has entered, or none at all, leaves the
  first for ever: its leave was to be called by the second (`BaseTransition.ts:311`), which
  `delete prevHooks.delayedLeave` (195) forgets, and a comment never enters.
* `pruneCacheEntry` compares with `current` by type, and `current` is the vnode of the render before
  (`KeepAlive.ts:148`): two keys of one type, or `max` 1 under an out-in transition, where `current`
  is still the view that has left, leave an instance that is never unmounted.
* In a KeepAlive with in-out an element that has not entered is taken away and enters again without
  `onEnterCancelled`: `HooksPaired` excepts it. With out-in, `onAfterLeave` is called after the
  next view has begun to enter, as `remove()` comes first (`BaseTransition.ts:336`).

Hydration: with the data of the server all four properties hold. With other data
they hold for apps whose root is one element, without Teleports: a fragment at the end keeps
surplus nodes, as a new closing anchor is put before them; after a component whose root
mismatches, the walk goes on from the removed node (`hydration.ts:242-253`) and mounts the
siblings again; attributes of adopted nodes are never compared. A Teleport without
children returns no next node, and its siblings are mounted twice (`Teleport.ts:332-375`);
an empty text, or two texts side by side, mismatch; hoisted vnodes are not cloned (418-421); an update that
reaches a component before it is loaded, and a ref on such a component, throw. The samples
have none of these. On the server a teleport inside a late component inside a teleport may be lost
(`renderToString.ts:491-504`), and several teleports into one target come in order of arrival.

## Not modelled

* Effects: the `onStop`, `onTrack` and `onTrigger` hooks. A queued effect is run by
  `RunQueued`, not by a model of the scheduler.
* Proxies: own accessors, prototype chains, WeakMap and WeakSet, `toRefs`, `customRef`,
  `indexOf` and `lastIndexOf`.
* Suspense: hydration, `move()` and `next()`, `onResolve` and `onRecede`, the
  DOM of boundaries that were unmounted. Of a component the model keeps its place, its setup
  promise and two of its effects.
* Compiler: characters (names, entities, expressions), source locations, error texts, the
  text of generated code, prefixing; the transforms of compiler-dom and all of compiler-ssr and
  compiler-sfc.
* Props: a prop passed in both of its forms at once, defaults, casts and validation; `v-bind` of an object
  that is there but empty.
* Renderer: lifecycle hooks, `inject`, options, directives written by users, Static vnodes,
  Suspense, KeepAlive and transitions inside an app, scope ids, HMR, SVG, `innerHTML`, listeners' dispatch.
  Data changes in one step and its updates are flushed at once: how updates are queued is
  in `Scheduler` and `Watch`.
* KeepAlive and transitions: `include` and `exclude`, the hooks of components nested in a kept one,
  props that change while a component is inactive; the classes and timers of `Transition`, and
  `TransitionGroup`. They are a model of their own, as a cached instance outlives its
  vnode: every mount and unmount of `Patch` would change. An app of `App` uses neither.
* Server: render functions made by compiler-ssr, Suspense, `innerHTML` and scope ids.
* Error handling: only who catches. Warnings are left out everywhere.

## Plan

Next to be proved is `KeptAlive` of `Transition`. Its operators call each other in a circle (a leave that
ends updates the component, an update ends leaves), and `CallCb` calls itself along
elements that wait for each other, so they have to be written without `RECURSIVE` first: as
steps with the calls on a stack, as in `Watch`. Then `ModeKept`, for one mode at a time.
