------------------------------ MODULE Transition -------------------------------
(***************************************************************************)
(* <Transition>, alone, around <KeepAlive>, or around an element with      *)
(* v-show.  Its slot renders one view; when another one is due the element *)
(* of the old view stays until the code of the user says that its leave is *)
(* over, and by then the views may have changed again.                     *)
(*                                                                         *)
(* The hooks of a vnode are closures that call each other and the update   *)
(* of the component: each operation maps the state to the state.  What the *)
(* user sees between two of them is the state that actions change.         *)
(***************************************************************************)
EXTENDS Integers, Sequences, FiniteSets, SequencesExt

CONSTANTS
  Apps,        \* the apps: [kind, mode, appear, max, views]
  Nothing,     \* the view of a v-if that is false: a comment
  MaxRenders   \* bound: how often the parent renders

VARIABLES
  s,           \* the state of the app, see Blank
  renders      \* how often the parent has rendered

vars == << s, renders >>

\* An app is "plain", "kept" (its view is in a KeepAlive) or "show" (v-show, and
\* the transition is persisted); max is that of KeepAlive.

NoLeave == [hooks |-> 0, el |-> 0, to |-> "out"]
Blank(app, view) ==
  [app |-> app, view |-> view, \* what the slot renders
   vn |-> << >>,     \* vnodes: [view, el, inst, transition, keep, value]
   hooks |-> << >>,  \* TransitionHooks: [vnode, delayLeave, delayedLeave, afterLeave]
   els |-> << >>,    \* elements: [view, place, enterCb, leaveCb, open, wrong]
   cbs |-> << >>,    \* callbacks: [kind, leave, called, entering]
   timers |-> {},    \* the callbacks the user has been given and has not called
   leavingVNodes |-> [v \in app.views |-> 0],
   isMounted |-> FALSE, isLeaving |-> FALSE, isUnmounting |-> FALSE,
   subTree |-> 0,    \* the vnode of the view that is rendered; 0: nothing was rendered
   inst |-> << >>,   \* kept views: [view, el, transition, isDeactivated, isUnmounted]
   cache |-> << >>,  \* of KeepAlive: the vnodes of its keys, the freshest last
   current |-> 0]

ViewOf(st, h) == st.vn[st.hooks[h].vnode].view
Displayed(st) == {e \in DOMAIN st.els : st.els[e].place = "in"}

--------------------------------------------------------------------------------
(* The hooks of the user (history): which begin has not met its end.           *)

Begins == [beforeEnter |-> "enter", beforeLeave |-> "leave"]
Ends == [afterEnter |-> "enter", enterCancelled |-> "enter",
         afterLeave |-> "leave", leaveCancelled |-> "leave"]
Say(st, el, hook) ==
  LET open == st.els[el].open IN
  IF hook \in DOMAIN Begins
  THEN [st EXCEPT !.els[el].open = @ \cup {Begins[hook]},
                  !.els[el].wrong = @ \/ Begins[hook] \in open \/ (hook = "beforeLeave" /\ open # {})]
  ELSE [st EXCEPT !.els[el].open = @ \ {Ends[hook]}, !.els[el].wrong = @ \/ Ends[hook] \notin open]

--------------------------------------------------------------------------------
(* TransitionHooks.  A leave is [hooks, el, to]: the hooks that lead it, and    *)
(* where its element goes when it is over.                                     *)

RECURSIVE CallCb(_, _, _), Update(_)

\* performRemove, or the insertion into the storage, or setDisplay(false).
PerformRemove(st, leave) ==
  LET gone == [st EXCEPT !.els[leave.el].place = leave.to] IN
  IF st.hooks[leave.hooks].afterLeave THEN Update([gone EXCEPT !.isLeaving = FALSE]) ELSE gone

\* The mutant LeaveUncancelled leaves an entering element to its callback.
LeaveUncancelled(st, leave) ==
  IF st.isUnmounting THEN PerformRemove(st, leave)
  ELSE [Say(st, leave.el, "beforeLeave") EXCEPT
          !.cbs = Append(@, [kind |-> "leave", leave |-> leave, called |-> FALSE, entering |-> 0]),
          !.els[leave.el].leaveCb = Len(st.cbs) + 1,
          !.leavingVNodes[ViewOf(st, leave.hooks)] = st.hooks[leave.hooks].vnode,
          !.timers = @ \cup {Len(st.cbs) + 1}]

\* hooks.leave(el, remove).
Leave(st, leave) ==
  LET el == st.els[leave.el]
      entered == IF el.enterCb = 0 THEN st ELSE CallCb(st, el.enterCb, TRUE)
      c == Len(entered.cbs) + 1
  IN  IF st.isUnmounting THEN PerformRemove(entered, leave)
      ELSE [Say(entered, leave.el, "beforeLeave") EXCEPT
              !.cbs = Append(@, [kind |-> "leave", leave |-> leave, called |-> FALSE, entering |-> 0]),
              !.els[leave.el].leaveCb = c,
              !.leavingVNodes[ViewOf(st, leave.hooks)] = st.hooks[leave.hooks].vnode,
              !.timers = @ \cup {c}]

\* hooks.delayLeave(el, earlyRemove, delayedLeave).
DelayLeave(st, leave) ==
  LET enterHooks == st.hooks[leave.hooks].delayLeave IN
  [st EXCEPT
     !.leavingVNodes[ViewOf(st, leave.hooks)] = st.hooks[leave.hooks].vnode,
     !.cbs = Append(@, [kind |-> "early", leave |-> leave, called |-> FALSE, entering |-> enterHooks]),
     !.els[leave.el].leaveCb = Len(st.cbs) + 1,
     !.hooks[enterHooks].delayedLeave = leave]

\* An element with a transition is removed, or moved away by KeepAlive.
StartLeave(st, leave) ==
  IF st.hooks[leave.hooks].delayLeave # 0 THEN DelayLeave(st, leave) ELSE Leave(st, leave)

AfterEnter(st, c, cancelled) ==
  LET leave == st.cbs[c].leave
      said == Say([st EXCEPT !.cbs[c].called = TRUE], leave.el,
                  IF cancelled THEN "enterCancelled" ELSE "afterEnter")
      delayed == st.hooks[leave.hooks].delayedLeave
  IN  [(IF delayed = NoLeave THEN said ELSE Leave(said, delayed)) EXCEPT !.els[leave.el].enterCb = 0]

AfterLeave(st, c, cancelled) ==
  LET leave == st.cbs[c].leave
      vnode == st.hooks[leave.hooks].vnode
  IN  [Say(PerformRemove([st EXCEPT !.cbs[c].called = TRUE], leave), leave.el,
           IF cancelled THEN "leaveCancelled" ELSE "afterLeave") EXCEPT
         !.els[leave.el].leaveCb = 0,
         !.leavingVNodes[ViewOf(st, leave.hooks)] = IF @ = vnode THEN 0 ELSE @]

EarlyRemove(st, c) ==
  LET leave == st.cbs[c].leave IN
  [PerformRemove(st, leave) EXCEPT
     !.els[leave.el].leaveCb = 0,
     !.hooks[st.cbs[c].entering].delayedLeave = NoLeave]

\* The mutant CallCbAgain forgets that a callback was called.
CallCbAgain(st, c, cancelled) ==
  CASE st.cbs[c].kind = "enter" -> AfterEnter(st, c, cancelled)
    [] st.cbs[c].kind = "leave" -> AfterLeave(st, c, cancelled)
    [] OTHER -> EarlyRemove(st, c)
CallCb(st, c, cancelled) ==
  CASE st.cbs[c].called -> st
    [] ~st.cbs[c].called /\ st.cbs[c].kind = "enter" -> AfterEnter(st, c, cancelled)
    [] ~st.cbs[c].called /\ st.cbs[c].kind = "leave" -> AfterLeave(st, c, cancelled)
    [] OTHER -> EarlyRemove(st, c)

Skipped(st) == ~st.app.appear /\ ~st.isMounted

\* hooks.beforeEnter(el): the leave of the same element is cancelled, the one of
\* an older element of the same view is brought to its end.
CallLeaveCb(st, el, cancelled) ==
  IF el = 0 \/ st.els[el].leaveCb = 0 THEN st ELSE CallCb(st, st.els[el].leaveCb, cancelled)
ForceEarly(st, v) == CallLeaveCb(st, IF v = 0 THEN 0 ELSE st.vn[v].el, FALSE)
\* The mutant BeforeEnterAside lets the older element be.
BeforeEnterAside(st, h, el) ==
  IF Skipped(st) THEN st ELSE Say(CallLeaveCb(st, el, TRUE), el, "beforeEnter")
BeforeEnter(st, h, el) ==
  IF Skipped(st) THEN st
  ELSE LET cancelled == CallLeaveCb(st, el, TRUE) IN
       Say(ForceEarly(cancelled, cancelled.leavingVNodes[ViewOf(st, h)]), el, "beforeEnter")

\* hooks.enter(el).
Enter(st, h, el) ==
  IF Skipped(st) THEN st
  ELSE [st EXCEPT
          !.cbs = Append(@, [kind |-> "enter", leave |-> [hooks |-> h, el |-> el, to |-> "in"],
                             called |-> FALSE, entering |-> 0]),
          !.els[el].enterCb = Len(st.cbs) + 1,
          !.timers = @ \cup {Len(st.cbs) + 1}]

--------------------------------------------------------------------------------
(* The render function of BaseTransition.                                      *)

NewHooks(v) == [vnode |-> v, delayLeave |-> 0, delayedLeave |-> NoLeave, afterLeave |-> FALSE]

\* The slot is called; the hooks of its vnode are resolved.  With v-show it is
\* one element whatever the value.
SlotVNode(st) ==
  LET view == IF st.app.kind = "show" THEN CHOOSE v \in st.app.views : v # Nothing ELSE st.view
      n == Len(st.vn) + 1
  IN  [st EXCEPT !.vn = Append(@, [view |-> view, el |-> 0, inst |-> 0, transition |-> Len(st.hooks) + 1,
                                   keep |-> FALSE, value |-> st.view # Nothing]),
                 !.hooks = Append(@, NewHooks(n))]

\* The placeholder, a comment without hooks.
EmptyPlaceholder(st) ==
  [st EXCEPT !.vn = Append(@, [view |-> Nothing, el |-> 0, inst |-> 0, transition |-> 0,
                               keep |-> FALSE, value |-> FALSE])]

SetTransitionHooks(st, v, h) ==
  IF st.vn[v].inst # 0 THEN [st EXCEPT !.inst[st.vn[v].inst].transition = h]
  ELSE [st EXCEPT !.vn[v].transition = h]

\* The new vnode and the old one are different views: how the old one leaves
\* depends on the mode.
SwitchViews(st, old) ==
  LET enterHooks == Len(st.hooks)
      leavingHooks == enterHooks + 1
      t == SetTransitionHooks([st EXCEPT !.hooks = Append(@, NewHooks(old))], old, leavingHooks)
  IN  CASE st.app.mode = "out-in" ->
             EmptyPlaceholder([t EXCEPT !.isLeaving = TRUE, !.hooks[leavingHooks].afterLeave = TRUE])
        [] st.app.mode = "in-out" ->
             [t EXCEPT !.hooks[st.vn[old].transition].delayedLeave = NoLeave,
                       !.hooks[leavingHooks].delayLeave = enterHooks]
        [] OTHER -> t

Render(st) ==
  LET slot == SlotVNode(st)
      old == st.subTree
      differs == old # 0 /\ st.vn[old].view \notin {Nothing, Last(slot.vn).view}
  IN  CASE st.isLeaving -> EmptyPlaceholder(st)
        [] ~st.isLeaving /\ differs -> SwitchViews(slot, old)
        [] OTHER -> slot

--------------------------------------------------------------------------------
(* KeepAlive.                                                                  *)

UnmountInstance(st, v) == [st EXCEPT !.vn[v].keep = FALSE, !.inst[st.vn[v].inst].isUnmounted = TRUE]

\* The mutant PruneStillKept forgets to reset the flag of the current vnode.
PruneStillKept(st, i) ==
  LET cached == st.cache[i]
      pruned == IF st.current = 0 \/ st.vn[cached].view # st.vn[st.current].view
                THEN UnmountInstance(st, cached) ELSE st
  IN  [pruned EXCEPT !.cache = RemoveAt(@, i)]
PruneCacheEntry(st, i) ==
  LET cached == st.cache[i]
      pruned == IF st.current = 0 \/ st.vn[cached].view # st.vn[st.current].view
                THEN UnmountInstance(st, cached) ELSE [st EXCEPT !.vn[st.current].keep = FALSE]
  IN  [pruned EXCEPT !.cache = RemoveAt(@, i)]

\* The vnode becomes the one of its key, takes over what is mounted, and will
\* not be unmounted.
Cached(st, n) ==
  LET i == SelectInSeq(st.cache, LAMBDA v : st.vn[v].view = st.vn[n].view)
      added == [st EXCEPT !.cache = Append(@, n)]
      pruned == IF Len(added.cache) > st.app.max THEN PruneCacheEntry(added, 1) ELSE added
      kept == [st EXCEPT !.vn[n].el = st.vn[st.cache[i]].el,
                         !.vn[n].inst = st.vn[st.cache[i]].inst,
                         !.inst[st.vn[st.cache[i]].inst].transition = st.vn[n].transition,
                         !.cache = Append(RemoveAt(@, i), n)]
  IN  [(IF i # 0 THEN kept ELSE pruned) EXCEPT !.vn[n].keep = TRUE, !.current = n]

\* Without a slot, in the placeholder, KeepAlive renders nothing.
KeepAlive(st, n) ==
  CASE st.app.kind # "kept" \/ st.vn[n].transition = 0 -> st
    [] st.app.kind = "kept" /\ st.vn[n].transition # 0 /\ st.vn[n].view = Nothing -> [st EXCEPT !.current = 0]
    [] OTHER -> Cached(st, n)

--------------------------------------------------------------------------------
(* The renderer, as far as transitions and KeepAlive are concerned.            *)

\* The hooks an element leaves and enters with: a component hands its own to its
\* root.
HooksOf(st, v) == IF st.vn[v].inst # 0 THEN st.inst[st.vn[v].inst].transition ELSE st.vn[v].transition

\* unmount(vnode, doRemove), or deactivate(vnode).
Unmount(st, v) ==
  LET vnode == st.vn[v]
      leave(to) == [hooks |-> HooksOf(st, v), el |-> vnode.el, to |-> to]
  IN  CASE vnode.view = Nothing -> st
        [] vnode.view # Nothing /\ st.app.kind = "show" -> [st EXCEPT !.els[vnode.el].place = "out"]
        [] vnode.view # Nothing /\ vnode.keep -> StartLeave(st, leave("storage"))
        [] vnode.view # Nothing /\ ~vnode.keep /\ vnode.inst # 0 ->
             StartLeave(UnmountInstance(st, v), leave("out"))
        [] OTHER -> StartLeave(st, leave("out"))

Created(st, v) ==
  LET el == Len(st.els) + 1
      i == Len(st.inst) + 1
      view == st.vn[v].view
      t == [st EXCEPT !.vn[v].el = el,
                      !.els = Append(@, [view |-> view, place |-> "out", enterCb |-> 0, leaveCb |-> 0,
                                         open |-> {}, wrong |-> FALSE])]
  IN  IF st.app.kind # "kept" THEN t
      ELSE [t EXCEPT !.vn[v].inst = i,
                     !.inst = Append(@, [view |-> view, el |-> el, transition |-> st.vn[v].transition,
                                         isDeactivated |-> FALSE, isUnmounted |-> FALSE])]

\* mountElement, mountComponent, or activate(vnode).
Insert(st, v) ==
  LET el == st.vn[v].el IN
  IF st.app.kind = "show" /\ ~st.vn[v].value THEN [st EXCEPT !.els[el].place = "hidden"]
  ELSE [BeforeEnter(st, HooksOf(st, v), el) EXCEPT !.els[el].place = "in"]
Mount(st, v) ==
  IF st.vn[v].view = Nothing THEN st
  ELSE Insert(IF st.vn[v].el = 0 THEN Created(st, v) ELSE st, v)

\* The same view: the new vnode takes over what is mounted.
PatchSame(st, old, v) ==
  LET t == [st EXCEPT !.vn[v].el = st.vn[old].el, !.vn[v].inst = st.vn[old].inst] IN
  IF t.vn[v].inst = 0 THEN t ELSE SetTransitionHooks(t, v, st.vn[v].transition)

\* vShow.updated.
Show(st, old, v) ==
  LET el == st.vn[v].el
      h == st.vn[v].transition
  IN  CASE st.vn[v].value = st.vn[old].value -> st
        [] st.vn[v].value /\ ~st.vn[old].value ->
             Enter([BeforeEnter(st, h, el) EXCEPT !.els[el].place = "in"], h, el)
        [] OTHER -> Leave(st, [hooks |-> h, el |-> el, to |-> "hidden"])

\* What patching has left for the flush: deactivated, enter and activated.
Deactivated(st, v) ==
  IF v # 0 /\ st.vn[v].keep THEN [st EXCEPT !.inst[st.vn[v].inst].isDeactivated = TRUE] ELSE st
Activated(st, v) ==
  IF st.vn[v].inst # 0 THEN [st EXCEPT !.inst[st.vn[v].inst].isDeactivated = FALSE] ELSE st
Entered(st, v) ==
  IF st.vn[v].view = Nothing \/ (st.app.kind = "show" /\ ~st.vn[v].value) THEN st
  ELSE Enter(st, HooksOf(st, v), st.vn[v].el)

Patch(st, old, v) ==
  IF old # 0 /\ st.vn[old].view = st.vn[v].view
  THEN IF st.app.kind = "show" THEN Show(PatchSame(st, old, v), old, v) ELSE PatchSame(st, old, v)
  ELSE Activated(Entered(Deactivated(Mount(IF old = 0 THEN st ELSE Unmount(st, old), v), old), v), v)

\* instance.update(), which is stopped when the component is unmounted.
Update(st) ==
  IF st.isUnmounting THEN st
  ELSE LET rendered == Render(st)
           v == Len(rendered.vn)
       IN  Patch([KeepAlive(rendered, v) EXCEPT !.subTree = v], st.subTree, v)

\* The component is removed.  KeepAlive unmounts what it has cached and, then,
\* what it shows.
UnmountCached(st) ==
  FoldSeq(LAMBDA v, t : UnmountInstance(t, v), st, st.cache)
Unmounted(st) == Unmount(UnmountCached([st EXCEPT !.isUnmounting = TRUE]), st.subTree)

--------------------------------------------------------------------------------

Init ==
  /\ \E app \in Apps : \E view \in app.views :
       s = [Update(Blank(app, view)) EXCEPT !.isMounted = TRUE]
  /\ renders = 0

\* The parent renders, with another view or with the same.
ParentRenders(view) ==
  /\ ~s.isUnmounting /\ renders < MaxRenders
  /\ s' = Update([s EXCEPT !.view = view])
  /\ renders' = renders + 1

\* The user calls done(): a transition has ended.
Done(c) ==
  /\ s' = CallCb([s EXCEPT !.timers = @ \ {c}], c, FALSE)
  /\ UNCHANGED renders

\* The parent removes the component.
Close ==
  /\ ~s.isUnmounting
  /\ s' = Unmounted(s)
  /\ UNCHANGED renders

Next ==
  \/ \E view \in s.app.views : ParentRenders(view)
  \/ \E c \in s.timers : Done(c)
  \/ Close
Spec == Init /\ [][Next]_vars

--------------------------------------------------------------------------------
(* Properties.                                                                 *)

\* When every transition is over the page holds what was asked for last and no
\* element of an earlier view, in whatever order the transitions ended.
ShowsLastView ==
  s.timers = {} =>
    IF s.isUnmounting \/ s.view = Nothing THEN Displayed(s) = {}
    ELSE LET el == s.vn[s.subTree].el IN
         Displayed(s) = {el} /\ (s.app.kind # "show" => s.els[el].view = s.view)

\* What the mode is for: with out-in the old view is gone before the new one
\* comes, with in-out the page is never empty, and without a mode there are
\* never two elements of one view.
ModeKept ==
  CASE s.app.mode = "out-in" -> Cardinality(Displayed(s)) <= 1
    [] s.app.mode = "in-out" -> s.isUnmounting \/ Displayed(s) # {}
    [] OTHER -> \A e, f \in Displayed(s) : s.els[e].view = s.els[f].view => e = f

\* The hooks of the user come in pairs: an element that begins to enter or to
\* leave hears exactly once that this has ended or was cancelled, and an element
\* that leaves is not entering, although the calls come from several vnodes and
\* late.  (In a KeepAlive with in-out an element that has not entered is taken
\* away and enters again without a word.)
HooksPaired ==
  \/ s.app.kind = "kept" /\ s.app.mode = "in-out"
  \/ \A e \in DOMAIN s.els : ~s.els[e].wrong

\* KeepAlive: exactly the instances in the cache are alive, at most max of them,
\* and exactly the one on display is active.
KeptAlive ==
  s.app.kind = "kept" =>
    LET alive == {i \in DOMAIN s.inst : ~s.inst[i].isUnmounted}
        cached == {s.vn[v].inst : v \in Range(s.cache)}
        shown == s.vn[s.subTree].inst
    IN  IF s.isUnmounting THEN alive = {}
        ELSE /\ alive = cached
             /\ Len(s.cache) <= s.app.max
             /\ \A i \in alive : s.inst[i].isDeactivated <=> i # shown

================================================================================
