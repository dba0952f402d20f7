------------------------------ MODULE Reactivity -------------------------------
(***************************************************************************)
(* Effects, computed values and the dependency graph between them.         *)
(*                                                                         *)
(* A node is an effect or a computed's runner; a key is what can be read   *)
(* and tracked: a source (a property of a reactive object, a ref) or the   *)
(* value of a computed.  Code runs on one call stack: the functions of     *)
(* nodes, and the loops of trigger() that run the nodes they collected.    *)
(*                                                                         *)
(* Values are abstracted to what the properties tell apart: whether a node *)
(* has seen the last write of what it read (stale).  A dep is a set: the   *)
(* order in which trigger() runs the effects it collected is arbitrary,    *)
(* computeds first.                                                        *)
(***************************************************************************)
EXTENDS Integers, Sequences, FiniteSets, SequencesExt

CONSTANTS
  Srcs,       \* sources: reactive properties and refs
  Comps,      \* computed values; each is also the node that computes it
  Effs,       \* effects
  Lazy,       \* the effects whose options are lazy: creating them runs nothing
  Sched,      \* the effects whose options have a scheduler (it queues them)
  CanRead,    \* CanRead[n]: the keys the function of n may read
  CanWrite,   \* CanWrite[n]: the sources the function of n may write
  CanCall,    \* CanCall[n]: the effects the function of n may create or call
  CanStop,    \* the nodes whose function may stop any node
  MayThrow,   \* the nodes whose function may throw
  None,       \* activeEffect is undefined
  MaxDepth,   \* bound: frames under which code may still call
  MaxLost     \* bound: pauses that exceptions may have left when one leaves another

Nodes == Comps \cup Effs
Keys == Srcs \cup Comps

ASSUME NodesAssumption == /\ Srcs \cap Nodes = {} /\ Comps \cap Effs = {}
                          /\ None \notin Nodes
                          /\ Lazy \subseteq Effs /\ Sched \subseteq Effs
ASSUME CodeAssumption == /\ CanRead \in [Nodes -> SUBSET Keys]
                         /\ CanWrite \in [Nodes -> SUBSET Srcs]
                         /\ CanCall \in [Nodes -> SUBSET Effs]
                         /\ MaxLost \in Nat

VARIABLES
  status,      \* "new", "active" or "stopped" (effect.active)
  dep,         \* dep[k]: the set targetMap holds for k
  deps,        \* deps[n]: effect.deps
  dirty,       \* the computeds that must be computed again
  shouldTrack,
  trackStack,
  effectStack, \* activeEffect is its last element
  queued,      \* the effects their scheduler has queued
  stack,       \* the call stack
  reads,       \* history: the keys n read, unpaused, in its last run
  stale,       \* history: the nodes that have not seen the last write
  lost         \* history: the pauses that exceptions have left

graph == << dep, deps >>
tracking == << shouldTrack, trackStack, effectStack, lost >>
vars == << status, graph, dirty, tracking, queued, stack, reads, stale >>

--------------------------------------------------------------------------------
(***************************************************************************)
(* Frames: "run" is the function of an active node, "raw" that of a        *)
(* stopped one (which runs untracked by itself), "trigger" the loops that  *)
(* end trigger(), with the nodes still to run.  A frame is spoilt (a       *)
(* history) when an exception has left a pause while it was on the stack.  *)
(***************************************************************************)
Frame == {f \in [kind : {"run", "raw", "trigger"}, node : Nodes \cup {None},
                 todo : SUBSET Nodes, paused : BOOLEAN, spoilt : BOOLEAN] :
            f.kind = "trigger" => ~f.paused}

CodeFrame(kind, n) ==
  [kind |-> kind, node |-> n, todo |-> {}, paused |-> FALSE, spoilt |-> FALSE]
TriggerFrame(todo) ==
  [kind |-> "trigger", node |-> None, todo |-> todo, paused |-> FALSE, spoilt |-> FALSE]

Top == Last(stack)
InCode == stack # << >> /\ Top.kind # "trigger"
InTrigger == stack # << >> /\ Top.kind = "trigger"
UserCode == stack = << >> \/ InCode
MayCall == UserCode /\ Len(stack) < MaxDepth

activeEffect == IF effectStack = << >> THEN None ELSE Last(effectStack)
OnEffectStack(n) == n \in ToSet(effectStack)

\* What a top-level script may do, and what the code on top may do.
Readable == IF stack = << >> THEN Keys ELSE CanRead[Top.node]
Writable == IF stack = << >> THEN Srcs ELSE CanWrite[Top.node]
Callable == IF stack = << >> THEN Effs ELSE CanCall[Top.node]
MayStop == IF stack = << >> THEN TRUE ELSE Top.node \in CanStop

\* The node whose run the code belongs to, unless that code paused tracking.
RunsOf(st) == {i \in DOMAIN st : st[i].kind = "run"}
PausesOf(st) == {i \in DOMAIN st : st[i].paused}
Owner(st) ==
  {n \in Nodes : \E i \in RunsOf(st) :
     /\ st[i].node = n
     /\ \A k \in RunsOf(st) : k <= i
     /\ \A k \in i..Len(st) : ~st[k].paused}

--------------------------------------------------------------------------------
(* track() and cleanup(), as functions of the graph. *)

Tracked(k, n, on) ==
  [dep |-> IF on /\ n # None THEN [dep EXCEPT ![k] = @ \cup {n}] ELSE dep,
   deps |-> IF on /\ n # None THEN [deps EXCEPT ![n] = @ \cup {k}] ELSE deps]

Track(k, n, on) ==
  /\ dep' = Tracked(k, n, on).dep
  /\ deps' = Tracked(k, n, on).deps

\* Mutant: deps.length = 0 without the loop that deletes.
CleanupForgets(n) ==
  /\ deps' = [deps EXCEPT ![n] = {}]
  /\ UNCHANGED dep

Cleanup(n) ==
  /\ dep' = [k \in Keys |-> IF k \in deps[n] THEN dep[k] \ {n} ELSE dep[k]]
  /\ deps' = [deps EXCEPT ![n] = {}]

\* History: the code under st read k, and k's value was itself out of date.
Saw(st, k) ==
  /\ reads' = [n \in Nodes |-> IF n \in Owner(st) THEN reads[n] \cup {k} ELSE reads[n]]
  /\ stale' = IF k \in stale THEN stale \cup Owner(st) ELSE stale

--------------------------------------------------------------------------------
(* Running a node. *)

StartRun(n, base) ==
  /\ Cleanup(n)
  /\ trackStack' = Append(trackStack, shouldTrack)
  /\ shouldTrack' = TRUE
  /\ effectStack' = Append(effectStack, n)
  /\ stack' = Append(base, CodeFrame("run", n))
  /\ reads' = [reads EXCEPT ![n] = {}]
  /\ stale' = stale \ {n}
  /\ UNCHANGED lost

\* Calling an effect, from user code or from trigger().
CallNode(n, base) ==
  \/ /\ status[n] = "active" /\ ~OnEffectStack(n)
     /\ StartRun(n, base)
  \/ /\ status[n] = "active" /\ OnEffectStack(n)
     /\ stack' = base
     /\ UNCHANGED << graph, tracking, reads, stale >>
  \/ /\ status[n] = "stopped"
     /\ stack' = IF n \in Sched \cup Comps THEN base
                 ELSE Append(base, CodeFrame("raw", n))
     /\ UNCHANGED << graph, tracking, reads, stale >>

Call(n) ==
  /\ MayCall /\ n \in Callable /\ status[n] # "new"
  /\ CallNode(n, stack)
  /\ UNCHANGED << status, dirty, queued >>

\* effect() runs at once unless it is lazy, as the runner of a computed is; a
\* computed is dirty until it is read.
CreateEffect(n) ==
  /\ MayCall /\ n \in Callable \ Lazy /\ status[n] = "new"
  /\ status' = [status EXCEPT ![n] = "active"]
  /\ StartRun(n, stack)
  /\ UNCHANGED << dirty, queued >>

CreateLazy(n) ==
  /\ MayCall /\ n \in (Comps \cap Readable) \cup (Lazy \cap Callable)
  /\ status[n] = "new"
  /\ status' = [status EXCEPT ![n] = "active"]
  /\ dirty' = dirty \cup ({n} \cap Comps)
  /\ UNCHANGED << graph, tracking, queued, stack, reads, stale >>

\* resetTracking() pops what the run pushed.
Popped == Front(trackStack)
Restored == Last(trackStack)

\* The function of a node returns; the finally block of the effect.
EndEffect ==
  /\ InCode /\ ~Top.paused /\ Top.kind = "run" /\ Top.node \in Effs
  /\ effectStack' = Front(effectStack)
  /\ trackStack' = Popped
  /\ shouldTrack' = Restored
  /\ stack' = Front(stack)
  /\ UNCHANGED << status, graph, dirty, queued, reads, stale, lost >>

\* The same for a computed, and the rest of the getter that called it: the
\* value is cached and whoever asked for it is tracked.
EndComputed ==
  /\ InCode /\ ~Top.paused /\ Top.kind = "run" /\ Top.node \in Comps
  /\ effectStack' = Front(effectStack)
  /\ trackStack' = Popped
  /\ shouldTrack' = Restored
  /\ stack' = Front(stack)
  /\ dirty' = dirty \ {Top.node}
  /\ Track(Top.node, activeEffect', Restored)
  /\ Saw(Front(stack), Top.node)
  /\ UNCHANGED << status, queued, lost >>

EndRaw ==
  /\ InCode /\ ~Top.paused /\ Top.kind = "raw"
  /\ stack' = Front(stack)
  /\ UNCHANGED << status, graph, dirty, tracking, queued, reads, stale >>

--------------------------------------------------------------------------------
(* Reading and writing. *)

ReadSource(s) ==
  /\ UserCode /\ s \in Srcs \cap Readable
  /\ Track(s, activeEffect, shouldTrack)
  /\ Saw(stack, s)
  /\ UNCHANGED << status, dirty, tracking, queued, stack >>

\* A computed that is clean, or whose runner does nothing: it is stopped, or
\* running already (it reads itself).  The mutant ReadCachedUntracked returns
\* the cached value before it tracks the reader.
NothingToCompute(c) ==
  /\ status[c] # "new"
  /\ c \notin dirty \/ status[c] = "stopped" \/ OnEffectStack(c)

ReadCachedUntracked(c) ==
  /\ UserCode /\ c \in Comps \cap Readable /\ NothingToCompute(c)
  /\ dirty' = dirty \ {c}
  /\ Saw(stack, c)
  /\ UNCHANGED << status, graph, tracking, queued, stack >>
ReadCached(c) ==
  /\ UserCode /\ c \in Comps \cap Readable /\ NothingToCompute(c)
  /\ dirty' = dirty \ {c}
  /\ Track(c, activeEffect, shouldTrack)
  /\ Saw(stack, c)
  /\ UNCHANGED << status, tracking, queued, stack >>

ReadDirty(c) ==
  /\ MayCall /\ c \in Comps \cap Readable
  /\ status[c] = "active" /\ c \in dirty /\ ~OnEffectStack(c)
  /\ StartRun(c, stack)
  /\ UNCHANGED << status, dirty, queued >>

\* add() inside trigger(): the active effect does not trigger itself.
Collected(k) ==
  {n \in dep[k] : n # activeEffect \/ ~shouldTrack}

\* History: the nodes whose last run depended on s, those that read s or an
\* active computed that depended on it (the least set that holds them).
ClosedUnder(C, s) ==
  \A n \in Nodes :
    s \in reads[n] \/ (\E c \in C \cap Comps : status[c] = "active" /\ c \in reads[n])
      => n \in C
Affected(s) == {n \in Nodes : \A C \in SUBSET Nodes : ClosedUnder(C, s) => n \in C}

Write(s) ==
  /\ MayCall /\ s \in Writable
  /\ stack' = Append(stack, TriggerFrame(Collected(s)))
  /\ stale' = stale \cup
       {n \in Nodes : status[n] = "active" /\ ~OnEffectStack(n) /\ n \in Affected(s)}
  /\ UNCHANGED << status, graph, dirty, tracking, queued, reads >>

\* run() inside trigger(), once for each node that was collected.
\* Mutant: every collected node is queued, computeds too.
TriggerNextQueues(n) ==
  /\ InTrigger /\ n \in Top.todo
  /\ queued' = queued \cup {n}
  /\ stack' = [stack EXCEPT ![Len(stack)].todo = @ \ {n}]
  /\ UNCHANGED << status, graph, dirty, tracking, reads, stale >>

TriggerNext(n) ==
  /\ InTrigger /\ n \in Top.todo
  /\ Top.todo \cap Comps # {} => n \in Comps
  /\ LET rest == [stack EXCEPT ![Len(stack)].todo = @ \ {n}] IN
     \/ /\ n \in Comps /\ n \notin dirty
        /\ dirty' = dirty \cup {n}
        /\ stack' = Append(rest, TriggerFrame(Collected(n)))
        /\ UNCHANGED << graph, tracking, queued, reads, stale >>
     \/ /\ n \in Comps /\ n \in dirty
        /\ stack' = rest
        /\ UNCHANGED << graph, dirty, tracking, queued, reads, stale >>
     \/ /\ n \in Sched
        /\ queued' = queued \cup {n}
        /\ stack' = rest
        /\ UNCHANGED << graph, dirty, tracking, reads, stale >>
     \/ /\ n \in Effs \ Sched
        /\ CallNode(n, rest)
        /\ UNCHANGED << dirty, queued >>
  /\ UNCHANGED status

EndTrigger ==
  /\ InTrigger /\ Top.todo = {}
  /\ stack' = Front(stack)
  /\ UNCHANGED << status, graph, dirty, tracking, queued, reads, stale >>

\* The queue calls an effect that its scheduler put there.
RunQueued(n) ==
  /\ stack = << >> /\ n \in queued
  /\ queued' = queued \ {n}
  /\ CallNode(n, stack)
  /\ UNCHANGED << status, dirty >>

--------------------------------------------------------------------------------
(* Stopping, pausing, throwing. *)

\* stop(), for effects without an onStop.  Mutant: only the flag.
StopFlagOnly(n) ==
  /\ UserCode /\ MayStop
  /\ status[n] = "active"
  /\ status' = [status EXCEPT ![n] = "stopped"]
  /\ stale' = stale \ {n}
  /\ UNCHANGED << graph, dirty, tracking, queued, stack, reads >>

Stop(n) ==
  /\ UserCode /\ MayStop
  /\ status[n] = "active"
  /\ status' = [status EXCEPT ![n] = "stopped"]
  /\ Cleanup(n)
  /\ stale' = stale \ {n}      \* from now on its last value is its value
  /\ UNCHANGED << dirty, tracking, queued, stack, reads >>

PauseTracking ==
  /\ InCode /\ ~Top.paused
  /\ trackStack' = Append(trackStack, shouldTrack)
  /\ shouldTrack' = FALSE
  /\ stack' = [stack EXCEPT ![Len(stack)].paused = TRUE]
  /\ UNCHANGED << status, graph, dirty, effectStack, queued, reads, stale, lost >>

ResetTracking ==
  /\ InCode /\ Top.paused
  /\ trackStack' = Popped
  /\ shouldTrack' = Restored
  /\ stack' = [stack EXCEPT ![Len(stack)].paused = FALSE]
  /\ UNCHANGED << status, graph, dirty, effectStack, queued, reads, stale, lost >>

\* The code on top throws and the code of frame k (0: the event loop) catches,
\* inside the pause it is in (p = k) or outside it (p = k - 1).  The finally block
\* of every run in between pops one entry of each stack; what the trigger() loops
\* in between had still to run is lost.  Nothing undoes the pauses it leaves: the
\* setup functions and hooks that are called between pauseTracking() and
\* resetTracking() are in no finally block, and their entries stay.
\* The mutant ThrowNoFinally leaves both stacks as they were.
Caught(k, p) ==
  IF \A i \in PausesOf(stack) : i <= p THEN SubSeq(stack, 1, k)
  ELSE [i \in 1..k |-> [stack[i] EXCEPT !.paused = @ /\ i <= p, !.spoilt = TRUE]]

ThrowNoFinally ==
  /\ InCode /\ Top.node \in MayThrow
  /\ \E k \in 0..Len(stack) : \E p \in (k - 1)..k :
       /\ k > 0 => stack[k].kind # "trigger"
       /\ lost' = lost + Cardinality({i \in PausesOf(stack) : i > p})
       /\ lost' > lost => lost < MaxLost
       /\ stack' = Caught(k, p)
  /\ UNCHANGED << status, graph, dirty, shouldTrack, trackStack, effectStack, queued >>
  /\ UNCHANGED << reads, stale >>
Throw ==
  /\ InCode /\ Top.node \in MayThrow
  /\ \E k \in 0..Len(stack) : \E p \in (k - 1)..k :
       /\ k > 0 => stack[k].kind # "trigger"
       /\ LET runs == Cardinality({i \in RunsOf(stack) : i > k})
              left == Len(trackStack) - runs
          IN /\ effectStack' = SubSeq(effectStack, 1, Len(effectStack) - runs)
             /\ trackStack' = SubSeq(trackStack, 1, left)
             /\ shouldTrack' = IF runs = 0 THEN shouldTrack ELSE trackStack[left + 1]
       /\ lost' = lost + Cardinality({i \in PausesOf(stack) : i > p})
       /\ lost' > lost => lost < MaxLost
       /\ stack' = Caught(k, p)
  /\ UNCHANGED << status, graph, dirty, queued, reads, stale >>

--------------------------------------------------------------------------------
Init ==
  /\ status = [n \in Nodes |-> "new"]
  /\ dep = [k \in Keys |-> {}] /\ deps = [n \in Nodes |-> {}]
  /\ dirty = {}
  /\ shouldTrack = TRUE /\ trackStack = << >> /\ effectStack = << >>
  /\ queued = {}
  /\ stack = << >>
  /\ reads = [n \in Nodes |-> {}] /\ stale = {} /\ lost = 0

Next ==
  \/ \E n \in Nodes : \/ CreateEffect(n) \/ CreateLazy(n) \/ Call(n)
                      \/ TriggerNext(n) \/ RunQueued(n) \/ Stop(n)
  \/ \E k \in Keys : ReadSource(k) \/ ReadCached(k) \/ ReadDirty(k) \/ Write(k)
  \/ EndEffect \/ EndComputed \/ EndRaw \/ EndTrigger
  \/ PauseTracking \/ ResetTracking \/ Throw

Spec == Init /\ [][Next]_vars

--------------------------------------------------------------------------------
TypeOK ==
  /\ status \in [Nodes -> {"new", "active", "stopped"}]
  /\ dep \in [Keys -> SUBSET Nodes] /\ deps \in [Nodes -> SUBSET Keys]
  /\ dirty \subseteq Comps /\ queued \subseteq Sched
  /\ shouldTrack \in BOOLEAN /\ trackStack \in Seq(BOOLEAN)
  /\ effectStack \in Seq(Nodes)
  /\ stack \in Seq(Frame)
  /\ reads \in [Nodes -> SUBSET Keys] /\ stale \subseteq Nodes /\ lost \in Nat

\* The two halves of the graph always mirror each other, so cleanup() leaves
\* no set behind that still holds the effect.
DepsMirror == \A n \in Nodes, k \in Keys : n \in dep[k] <=> k \in deps[n]

\* There is an entry on the effect stack for every run on the call stack, and
\* one on the tracking stack for every run, every pause and every pause that an
\* exception has left, so that no pop meets an empty stack.
TrackingBalanced ==
  /\ Len(effectStack) = Cardinality(RunsOf(stack))
  /\ Len(trackStack) = Len(effectStack) + Cardinality(PausesOf(stack)) + lost

Spoilt(st) ==
  \E i \in RunsOf(st) : st[i].spoilt /\ \A k \in RunsOf(st) : k <= i

\* However runs, pauses and exceptions nest, the effect stack holds the runs
\* that are on the call stack, every one once.  What reads are tracked for is
\* the innermost of them, unless that was already running when an exception
\* left a pause: setup() that throws leaves such a run with the tracking state
\* of somebody else, but no run that starts later.  All of the tracking state
\* is undone at rest, if no exception has left a pause.
TrackingFollowsCalls ==
  /\ effectStack = [i \in 1..Cardinality(RunsOf(stack)) |->
       stack[CHOOSE k \in RunsOf(stack) :
               Cardinality({m \in RunsOf(stack) : m <= k}) = i].node]
  /\ \A i, k \in DOMAIN effectStack : effectStack[i] = effectStack[k] => i = k
  /\ TrackingBalanced
  /\ ~Spoilt(stack) => ((shouldTrack /\ activeEffect # None) <=> Owner(stack) # {})
  /\ stack = << >> /\ lost = 0 => shouldTrack

\* At rest, an active effect has run since the last write of anything it
\* depends on, directly or through computeds, or waits in the queue to do so.
\* (A write made while the effect itself was running does not count: it does
\* not trigger itself.)
EffectsCurrent ==
  stack = << >> =>
    \A n \in Effs : status[n] = "active" /\ n \in stale => n \in queued

\* A stopped node is in no dep: no later write can reach it.
StoppedUnsubscribed ==
  \A n \in Nodes : status[n] = "stopped" => deps[n] = {} /\ \A k \in Keys : n \notin dep[k]

\* Outside the loops of trigger(), code never gets the outdated value of a
\* computed it reads: whatever the order in which trigger() runs what it
\* collected, every computed has been invalidated when it is done.
FreshOutsideTrigger ==
  UserCode /\ (\A i \in DOMAIN stack : stack[i].kind # "trigger") =>
    \A c \in Comps \cap Readable :
      status[c] = "active" /\ c \notin dirty => c \notin stale
================================================================================
