---------------------------- MODULE AsyncComponent -----------------------------
(***************************************************************************)
(* defineAsyncComponent(): the instances of one asynchronous component and *)
(* the requests they share.                                                *)
(*                                                                         *)
(* A request is one call of load() that called the loader; its promise     *)
(* settles after the loader's, after a retry, or after a request made      *)
(* later.  Requests are numbered in the order they are made, and the       *)
(* component a loader call returns is named by its request.                *)
(***************************************************************************)
EXTENDS Integers, Sequences

CONSTANTS
  Instances,    \* the instances of the component
  Suspended,    \* those under a Suspense boundary that may suspend them
  Timed,        \* those whose timeout may come before their component
  Handled,      \* those whose errors a hook of a parent or the app's handler takes
  HasOnError,   \* the definition has an onError callback
  MaxAttempts,  \* the attempts after which it calls fail() and not retry()
  MaxRequests   \* bound: instances are mounted while fewer requests were made

ASSUME AsyncAssumption ==
  /\ Suspended \subseteq Instances /\ Timed \subseteq Instances \ Suspended
  /\ Handled \subseteq Instances
  /\ HasOnError \in BOOLEAN /\ MaxAttempts \in Nat \ {0} /\ MaxRequests \in Nat \ {0}

VARIABLES
  requests,        \* the requests made
  pendingRequest,  \* the one load() returns, 0 for null
  resolvedComp,    \* the component, 0 while undefined
  retries,         \* calls of retry()
  inst             \* inst[i]: the state of setup() of an instance

vars == << requests, pendingRequest, resolvedComp, retries, inst >>

--------------------------------------------------------------------------------
None == 0
Ids == 1..Len(requests)

\* A request is [state, on, comp]: "loading", "resolved" or "rejected";
\* "asked": onError has retry() and fail() and called neither; "retrying" and
\* "passed": the promise settles with that of the request "on", a retry, or the
\* one that was pending when the component came.
Loading == [state |-> "loading", on |-> None, comp |-> None]

\* An instance is "new", "direct" (the component was there), "waiting" for its
\* request or "settled"; loaded, error and delayed are its refs, timer says that
\* its timeout runs, comp is what it was told.
Waiters(r) == {i \in Instances : inst[i].state = "waiting" /\ inst[i].req = r}

--------------------------------------------------------------------------------
(* load(). *)

\* The component comp has come for request r: it is used unless another request
\* is pending by now.  The mutant uses it in any case.
CompletesStale(r, comp) ==
  /\ requests' = [requests EXCEPT ![r] = [@ EXCEPT !.state = "resolved", !.comp = comp]]
  /\ resolvedComp' = comp

Completes(r, comp) ==
  IF pendingRequest \notin {None, r}
  THEN /\ requests' = [requests EXCEPT ![r] = [@ EXCEPT !.state = "passed", !.on = pendingRequest]]
       /\ UNCHANGED resolvedComp
  ELSE /\ requests' = [requests EXCEPT ![r] = [@ EXCEPT !.state = "resolved", !.comp = comp]]
       /\ resolvedComp' = comp

Rejected(r) == [requests EXCEPT ![r].state = "rejected"]

LoaderResolves(r) ==
  /\ requests[r].state = "loading"
  /\ Completes(r, r)
  /\ UNCHANGED << pendingRequest, retries, inst >>

LoaderRejects(r) ==
  /\ requests[r].state = "loading"
  /\ requests' = IF HasOnError THEN [requests EXCEPT ![r].state = "asked"] ELSE Rejected(r)
  /\ UNCHANGED << pendingRequest, resolvedComp, retries, inst >>

\* The user's onError retries or fails, at once or later.  In the mutant retry()
\* does not give up the request that failed.
RetryShared(r) ==
  /\ requests[r].state = "asked" /\ retries + 1 < MaxAttempts
  /\ retries' = retries + 1
  /\ LET q == IF pendingRequest = None THEN Len(requests) + 1 ELSE pendingRequest
         waits == [requests EXCEPT ![r] = [@ EXCEPT !.state = "retrying", !.on = q]]
     IN  /\ requests' = IF q \in Ids THEN waits ELSE Append(waits, Loading)
         /\ pendingRequest' = q
  /\ UNCHANGED << resolvedComp, inst >>

UserRetry(r) ==
  /\ requests[r].state = "asked" /\ retries + 1 < MaxAttempts
  /\ retries' = retries + 1
  /\ requests' = Append([requests EXCEPT ![r] = [@ EXCEPT !.state = "retrying",
                                                          !.on = Len(requests) + 1]],
                        Loading)
  /\ pendingRequest' = Len(requests) + 1
  /\ UNCHANGED << resolvedComp, inst >>

UserFail(r) ==
  /\ requests[r].state = "asked" /\ retries + 1 >= MaxAttempts
  /\ requests' = Rejected(r)
  /\ UNCHANGED << pendingRequest, resolvedComp, retries, inst >>

\* The promise r was resolved with has settled.
Follow(r) ==
  /\ requests[r].state \in {"retrying", "passed"}
  /\ LET q == requests[requests[r].on] IN
     \/ /\ q.state = "rejected"
        /\ requests' = Rejected(r) /\ UNCHANGED resolvedComp
     \/ /\ q.state = "resolved" /\ requests[r].state = "retrying"
        /\ Completes(r, q.comp)
     \/ /\ q.state = "resolved" /\ requests[r].state = "passed"
        /\ requests' = [requests EXCEPT ![r] = [@ EXCEPT !.state = "resolved", !.comp = q.comp]]
        /\ UNCHANGED resolvedComp
  /\ UNCHANGED << pendingRequest, retries, inst >>

--------------------------------------------------------------------------------
(* The instances. *)

Mount(i) ==
  /\ inst[i].state = "new"
  /\ IF resolvedComp # None
     THEN /\ inst' = [inst EXCEPT ![i].state = "direct"]
          /\ UNCHANGED << requests, pendingRequest >>
     ELSE LET r == IF pendingRequest # None THEN pendingRequest ELSE Len(requests) + 1 IN
          /\ r <= MaxRequests
          /\ requests' = IF r \in Ids THEN requests ELSE Append(requests, Loading)
          /\ pendingRequest' = r
          /\ inst' = [inst EXCEPT ![i] = [@ EXCEPT !.state = "waiting", !.req = r,
                                                   !.timer = i \in Timed]]
  /\ UNCHANGED << resolvedComp, retries >>

DelayEnds(i) ==
  /\ inst[i].state \in {"waiting", "settled"} /\ i \notin Suspended /\ inst[i].delayed
  /\ inst' = [inst EXCEPT ![i].delayed = FALSE]
  /\ UNCHANGED << requests, pendingRequest, resolvedComp, retries >>

\* The promise of load() settles: the callbacks of the instances that wait for
\* it run one after the other, and a request that failed is forgotten.  onError()
\* calls handleError(), which throws the error again if nobody takes it (in
\* production): then the instance never gets it.
Deliver(r) ==
  /\ Waiters(r) # {} /\ requests[r].state \in {"resolved", "rejected"}
  /\ inst' = [i \in Instances |->
       IF i \notin Waiters(r) THEN inst[i]
       ELSE [inst[i] EXCEPT !.state = "settled", !.comp = requests[r].comp,
               !.loaded = requests[r].state = "resolved",
               !.error = @ \/ (requests[r].state = "rejected" /\ i \in Handled)]]
  /\ pendingRequest' = IF requests[r].state = "rejected" THEN None ELSE pendingRequest
  /\ UNCHANGED << requests, resolvedComp, retries >>

\* onError(): the request is given up for the instances that come, and goes on
\* for those that have it.  Here too the error gets lost if nobody takes it.
Timeout(i) ==
  /\ inst[i].timer
  /\ IF inst[i].loaded
     THEN /\ inst' = [inst EXCEPT ![i].timer = FALSE]
          /\ UNCHANGED pendingRequest
     ELSE /\ inst' = [inst EXCEPT ![i].timer = FALSE, ![i].error = @ \/ i \in Handled]
          /\ pendingRequest' = None
  /\ UNCHANGED << requests, resolvedComp, retries >>

\* What the render function of i returns.
View(i) ==
  CASE inst[i].state = "direct" \/ (inst[i].loaded /\ resolvedComp # None) -> "component"
    [] inst[i].error -> "error"
    [] OTHER -> IF inst[i].delayed THEN "nothing" ELSE "loading"

--------------------------------------------------------------------------------
Init ==
  /\ requests = << >> /\ pendingRequest = None /\ resolvedComp = None /\ retries = 0
  /\ inst = [i \in Instances |->
       [state |-> "new", req |-> None, loaded |-> FALSE, error |-> FALSE,
        delayed |-> TRUE, timer |-> FALSE, comp |-> None]]

Requests == \E r \in Ids : \/ LoaderResolves(r) \/ LoaderRejects(r) \/ UserRetry(r)
                           \/ UserFail(r) \/ Follow(r) \/ Deliver(r)
Next == \/ Requests
        \/ \E i \in Instances : Mount(i) \/ DelayEnds(i) \/ Timeout(i)

\* Loaders settle, onError answers, and the callbacks of promises run.
Spec == Init /\ [][Next]_vars /\ WF_vars(Requests)

--------------------------------------------------------------------------------
\* What load() shares is never out of date: it is the newest request; once that
\* has come its component is the one in use, and an older request that comes late
\* does not displace it (a timeout or a failure gives the newest up: then it may);
\* no instance is told a component older than its request; and once those who
\* waited for a request that failed have been told, it is not handed to instances
\* that come later.
SharesTheLatest ==
  /\ pendingRequest # None =>
       /\ pendingRequest = Len(requests)
       /\ requests[pendingRequest].state = "resolved" =>
            resolvedComp = requests[pendingRequest].comp
       /\ requests[pendingRequest].state = "rejected" =>
            \E i \in Instances : inst[i].state = "waiting"
  /\ \A i \in Instances : inst[i].loaded => inst[i].comp >= inst[i].req

\* No request waits for another in a circle, so that every instance that is
\* mounted ends up with the component or with an error, if somebody takes its
\* errors.  If nobody does it may miss its error, but not its component: it gets
\* that, or the promise it waits for has failed.
AllSettle == \A i \in Instances :
  inst[i].state = "waiting" ~>
    \/ View(i) = "component" \/ inst[i].error
    \/ i \notin Handled /\ inst[i].state = "settled" /\ ~inst[i].loaded

================================================================================
