-------------------------- MODULE AsyncComponentProofs --------------------------
(***************************************************************************)
(* Theorems about AsyncComponent, for all instances, all timeouts and any  *)
(* number of requests and retries.                                         *)
(***************************************************************************)
EXTENDS AsyncComponent, SequenceTheorems, TLAPS

--------------------------------------------------------------------------------
(* The inductive invariant. *)

Following == {"retrying", "passed"}
Final == {"resolved", "rejected"}

Request == [state : {"loading", "asked"} \cup Following \cup Final, on : Nat, comp : Nat]

Inst == [state : {"new", "direct", "waiting", "settled"}, req : Nat, comp : Nat,
         loaded : BOOLEAN, error : BOOLEAN, delayed : BOOLEAN, timer : BOOLEAN]

TypeOK ==
  /\ requests \in Seq(Request) /\ inst \in [Instances -> Inst]
  /\ pendingRequest \in Nat /\ resolvedComp \in Nat /\ retries \in Nat

\* No request but the newest is shared.
SharesNewest == pendingRequest \in {None, Len(requests)}

\* A request waits for one that was made later, so that there is no circle.
WaitsForNewer ==
  \A r \in Ids : requests[r].state \in Following => requests[r].on \in Ids /\ requests[r].on > r

\* What a request brought is not older than the request, and what the shared one
\* brought is in use.
BringsNewer ==
  \A r \in Ids : requests[r].state = "resolved" =>
    /\ requests[r].comp >= r
    /\ pendingRequest = r => resolvedComp = requests[r].comp

\* An instance waits for a request that was made, and is told what it brought.
ToldByRequest ==
  \A i \in Instances :
    /\ inst[i].state \in {"waiting", "settled"} => inst[i].req \in Ids
    /\ inst[i].loaded => inst[i].state = "settled" /\ inst[i].comp >= inst[i].req

\* Who a request was made for: w[r] is the instance whose mount made it, or whose
\* request was retried with it.  The requests made for one instance are a chain
\* that begins with the one it waits for: all but the last wait for the next or
\* got their answer from it, and are answered after it.
AskedFor(w) ==
  \A r \in Ids :
    /\ inst[w[r]].state \in {"waiting", "settled"}
    /\ inst[w[r]].req <= r /\ w[inst[w[r]].req] = w[r]
    /\ requests[r].state = "retrying" => w[requests[r].on] = w[r]
    /\ inst[w[r]].state = "settled" =>
         \/ requests[r].state = "resolved"
         \/ requests[r].state = "rejected" /\ pendingRequest # r

Chain(w) ==
  \A r, s \in Ids : r < s /\ w[r] = w[s] =>
    /\ requests[r].state \in Following \cup Final
    /\ requests[r].state = "retrying" => requests[r].on <= s
    /\ requests[r].state \in {"passed", "resolved"} => requests[s].state = "resolved"
    /\ requests[r].state = "rejected" => requests[s].state \in Final

MadeFor(w) == AskedFor(w) /\ Chain(w)

SomeoneAsked == \E w \in [Ids -> Instances] : MadeFor(w)

Facts == TypeOK /\ SharesNewest /\ WaitsForNewer /\ BringsNewer /\ ToldByRequest

IInv == Facts /\ SomeoneAsked

--------------------------------------------------------------------------------
(* What the changes of a request do. *)

\* Changing one request keeps the others.
LEMMA RequestChanged ==
  ASSUME requests \in Seq(Request), NEW r \in Ids, NEW f \in Request,
         requests' = [requests EXCEPT ![r] = f]
  PROVE  /\ requests' \in Seq(Request) /\ Len(requests') = Len(requests) /\ requests'[r] = f
         /\ \A q \in Ids : q # r => requests'[q] = requests[q]
BY SMT DEF Ids

\* A request more keeps those before.
LEMMA RequestAdded ==
  ASSUME NEW s \in Seq(Request)
  PROVE  LET t == Append(s, Loading) IN
         /\ t \in Seq(Request) /\ Len(t) = Len(s) + 1 /\ t[Len(s) + 1] = Loading
         /\ \A q \in 1..Len(s) : t[q] = s[q]
<1>1. Loading \in Request
  BY DEF Loading, Request, None
<1> QED
  BY <1>1, AppendProperties

\* A request that gets another state is one.
LEMMA StateSet ==
  ASSUME NEW q \in Request, NEW s \in {"loading", "asked"} \cup Following \cup Final
  PROVE  LET p == [q EXCEPT !.state = s] IN
         p \in Request /\ p.state = s /\ p.on = q.on /\ p.comp = q.comp
BY DEF Request

LEMMA OnSet ==
  ASSUME NEW q \in Request, NEW s \in Following, NEW n \in Nat
  PROVE  LET p == [q EXCEPT !.state = s, !.on = n] IN
         p \in Request /\ p.state = s /\ p.on = n /\ p.comp = q.comp
BY DEF Request

LEMMA CompSet ==
  ASSUME NEW q \in Request, NEW n \in Nat
  PROVE  LET p == [q EXCEPT !.state = "resolved", !.comp = n] IN
         p \in Request /\ p.state = "resolved" /\ p.on = q.on /\ p.comp = n
BY DEF Request, Final

--------------------------------------------------------------------------------
(* A request gets its answer, or asks. *)

\* A request that is no longer loading keeps its place in its chain.
LEMMA ChainKept ==
  ASSUME Facts, NEW w, w \in [Ids -> Instances], MadeFor(w), NEW r \in Ids, NEW f \in Request,
         requests[r].state \notin Final,
         f.state \in {"asked", "passed"} \cup Final,
         f.state = "asked" => requests[r].state = "loading",
         f.state \in {"passed", "resolved"} =>
           \A s \in Ids : r < s /\ w[r] = w[s] => requests[s].state = "resolved",
         f.state = "rejected" =>
           \A s \in Ids : r < s /\ w[r] = w[s] => requests[s].state \in Final,
         Ids' = Ids, requests'[r] = f, \A q \in Ids : q # r => requests'[q] = requests[q],
         pendingRequest' = pendingRequest, inst' = inst
  PROVE  MadeFor(w)'
<1>1. AskedFor(w)'
  <2> SUFFICES ASSUME NEW q \in Ids
               PROVE  /\ inst[w[q]].state \in {"waiting", "settled"}
                      /\ inst[w[q]].req <= q /\ w[inst[w[q]].req] = w[q]
                      /\ requests'[q].state = "retrying" => w[requests'[q].on] = w[q]
                      /\ inst[w[q]].state = "settled" =>
                           \/ requests'[q].state = "resolved"
                           \/ requests'[q].state = "rejected" /\ pendingRequest # q
    BY Zenon DEF AskedFor
  <2>1. /\ inst[w[q]].state \in {"waiting", "settled"}
        /\ inst[w[q]].req <= q /\ w[inst[w[q]].req] = w[q]
        /\ requests[q].state = "retrying" => w[requests[q].on] = w[q]
        /\ inst[w[q]].state = "settled" =>
             \/ requests[q].state = "resolved"
             \/ requests[q].state = "rejected" /\ pendingRequest # q
    BY Zenon DEF MadeFor, AskedFor
  <2>2. CASE q = r
    BY <2>1, <2>2, Zenon DEF Final
  <2>3. CASE q # r
    BY <2>1, <2>3, Zenon
  <2> QED
    BY <2>2, <2>3
<1>2. Chain(w)'
  <2> SUFFICES ASSUME NEW q \in Ids, NEW s \in Ids, q < s, w[q] = w[s]
               PROVE  /\ requests'[q].state \in Following \cup Final
                      /\ requests'[q].state = "retrying" => requests'[q].on <= s
                      /\ requests'[q].state \in {"passed", "resolved"} =>
                           requests'[s].state = "resolved"
                      /\ requests'[q].state = "rejected" => requests'[s].state \in Final
    BY Zenon DEF Chain
  <2>1. /\ requests[q].state \in Following \cup Final
        /\ requests[q].state = "retrying" => requests[q].on <= s
        /\ requests[q].state \in {"passed", "resolved"} => requests[s].state = "resolved"
        /\ requests[q].state = "rejected" => requests[s].state \in Final
    BY Zenon DEF MadeFor, Chain
  <2>2. q # s
    BY SMT DEF Ids
  <2>3. CASE q = r
    BY <2>1, <2>2, <2>3, Zenon DEF Following, Final
  <2>4. CASE s = r
    BY <2>1, <2>2, <2>4, Zenon DEF Following, Final
  <2>5. CASE q # r /\ s # r
    BY <2>1, <2>5, Zenon
  <2> QED
    BY <2>3, <2>4, <2>5
<1> QED
  BY <1>1, <1>2 DEF MadeFor

\* Request r gets the component comp, or follows the one that is pending.
LEMMA Completed ==
  ASSUME Facts, NEW w, w \in [Ids -> Instances], MadeFor(w),
         NEW r \in Ids, NEW comp \in Nat, comp >= r,
         requests[r].state \in {"loading", "retrying"},
         \A s \in Ids : r < s /\ w[r] = w[s] => requests[s].state = "resolved",
         Completes(r, comp), pendingRequest' = pendingRequest, retries' = retries, inst' = inst
  PROVE  Facts' /\ Ids' = Ids /\ MadeFor(w)'
<1> DEFINE passed == [requests[r] EXCEPT !.state = "passed", !.on = pendingRequest]
           brought == [requests[r] EXCEPT !.state = "resolved", !.comp = comp]
<1>1. requests \in Seq(Request) /\ requests[r] \in Request /\ r \in 1..Len(requests)
  BY DEF Facts, TypeOK, Ids
<1>2. CASE pendingRequest \notin {None, r}
  <2>1. requests' = [requests EXCEPT ![r] = passed] /\ resolvedComp' = resolvedComp
    BY <1>2 DEF Completes
  <2>2. pendingRequest = Len(requests) /\ pendingRequest > r /\ pendingRequest \in Ids
    BY <1>2, SMT DEF Facts, TypeOK, SharesNewest, Ids, None
  <2>3. passed \in Request /\ passed.state = "passed" /\ passed.on = pendingRequest
    BY <1>1, OnSet DEF Following, Facts, TypeOK
  <2> HIDE DEF passed
  <2>4. /\ requests' \in Seq(Request) /\ Len(requests') = Len(requests) /\ requests'[r] = passed
        /\ \A q \in Ids : q # r => requests'[q] = requests[q]
    BY <1>1, <2>1, <2>3, RequestChanged, Zenon
  <2>5. Ids' = Ids
    BY <2>4 DEF Ids
  <2>6. Facts'
    <3>1. TypeOK'
      BY <2>1, <2>4 DEF Facts, TypeOK
    <3>2. SharesNewest' /\ WaitsForNewer' /\ BringsNewer' /\ ToldByRequest'
      BY <2>1, <2>2, <2>3, <2>4, <2>5, SMT
      DEF Facts, SharesNewest, WaitsForNewer, BringsNewer, ToldByRequest, Following
    <3> QED
      BY <3>1, <3>2 DEF Facts
  <2>7. MadeFor(w)'
    <3>1. requests[r].state \notin Final
      BY Zenon DEF Final
    <3>2. passed.state \in {"asked", "passed"} \cup Final /\ passed.state # "asked"
      BY <2>3, Zenon
    <3>3. passed.state # "rejected"
      BY <2>3, Zenon
    <3> QED
      BY <2>3, <2>4, <2>5, <3>1, <3>2, <3>3, ChainKept, Zenon
  <2> QED
    BY <2>5, <2>6, <2>7
<1>3. CASE pendingRequest \in {None, r}
  <2>1. requests' = [requests EXCEPT ![r] = brought] /\ resolvedComp' = comp
    BY <1>3 DEF Completes
  <2>3. brought \in Request /\ brought.state = "resolved" /\ brought.comp = comp
    BY <1>1, CompSet
  <2> HIDE DEF brought
  <2>4. /\ requests' \in Seq(Request) /\ Len(requests') = Len(requests) /\ requests'[r] = brought
        /\ \A q \in Ids : q # r => requests'[q] = requests[q]
    BY <1>1, <2>1, <2>3, RequestChanged, Zenon
  <2>5. Ids' = Ids
    BY <2>4 DEF Ids
  <2>6. Facts'
    <3>1. TypeOK'
      BY <2>1, <2>4 DEF Facts, TypeOK
    <3>2. SharesNewest' /\ WaitsForNewer' /\ ToldByRequest'
      BY <2>1, <2>3, <2>4, <2>5, SMT
      DEF Facts, SharesNewest, WaitsForNewer, ToldByRequest, Following
    <3>3. BringsNewer'
      BY <1>3, <2>1, <2>3, <2>4, <2>5, SMT DEF Facts, BringsNewer, Ids, None
    <3> QED
      BY <3>1, <3>2, <3>3 DEF Facts
  <2>7. MadeFor(w)'
    <3>1. requests[r].state \notin Final
      BY Zenon DEF Final
    <3>2. brought.state \in {"asked", "passed"} \cup Final /\ brought.state # "asked"
      BY <2>3, Zenon DEF Final
    <3>3. brought.state # "rejected"
      BY <2>3, Zenon
    <3> QED
      BY <2>3, <2>4, <2>5, <3>1, <3>2, <3>3, ChainKept, Zenon
  <2> QED
    BY <2>5, <2>6, <2>7
<1> QED
  BY <1>2, <1>3

\* Request r gets the state s that is no answer a component comes with.
LEMMA StateChanged ==
  ASSUME Facts, NEW w, w \in [Ids -> Instances], MadeFor(w), NEW r \in Ids,
         NEW s \in {"asked", "rejected"},
         requests[r].state \notin Final,
         s = "asked" => requests[r].state = "loading",
         s = "rejected" => \A q \in Ids : r < q /\ w[r] = w[q] => requests[q].state \in Final,
         requests' = [requests EXCEPT ![r].state = s],
         pendingRequest' = pendingRequest, resolvedComp' = resolvedComp, retries' = retries,
         inst' = inst
  PROVE  Facts' /\ Ids' = Ids /\ MadeFor(w)'
<1> DEFINE f == [requests[r] EXCEPT !.state = s]
<1>1. requests \in Seq(Request) /\ requests[r] \in Request /\ r \in 1..Len(requests)
  BY DEF Facts, TypeOK, Ids
<1>2. requests' = [requests EXCEPT ![r] = f]
  OBVIOUS
<1>3. f \in Request /\ f.state = s
  BY <1>1, StateSet DEF Final
<1> HIDE DEF f
<1>4. /\ requests' \in Seq(Request) /\ Len(requests') = Len(requests) /\ requests'[r] = f
      /\ \A q \in Ids : q # r => requests'[q] = requests[q]
  BY <1>1, <1>2, <1>3, RequestChanged, Zenon
<1>5. Ids' = Ids
  BY <1>4 DEF Ids
<1>6. Facts'
  <2>1. TypeOK'
    BY <1>4 DEF Facts, TypeOK
  <2>2. SharesNewest' /\ WaitsForNewer' /\ BringsNewer' /\ ToldByRequest'
    BY <1>3, <1>4, <1>5, SMT
    DEF Facts, SharesNewest, WaitsForNewer, BringsNewer, ToldByRequest, Following
  <2> QED
    BY <2>1, <2>2 DEF Facts
<1>7. MadeFor(w)'
  <2>1. /\ f.state \in {"asked", "passed"} \cup Final
        /\ f.state = "asked" => requests[r].state = "loading"
        /\ f.state \notin {"passed", "resolved"}
    BY <1>3, Zenon DEF Final
  <2>2. f.state = "rejected" =>
          \A q \in Ids : r < q /\ w[r] = w[q] => requests[q].state \in Final
    BY <1>3, Zenon
  <2> QED
    BY <1>3, <1>4, <1>5, <2>1, <2>2, ChainKept, Zenon
<1> QED
  BY <1>5, <1>6, <1>7

\* What UserRetry and a mount leave when they make a request: the others are as
\* they were, but for request r when it is r that waits for the new one.
LEMMA RequestMade ==
  ASSUME requests \in Seq(Request), NEW s \in Seq(Request), Len(s) = Len(requests),
         requests' = Append(s, Loading)
  PROVE  LET n == Len(requests) + 1 IN
         /\ n \notin Ids /\ Ids' = Ids \cup {n} /\ \A q \in Ids : q \in Nat \ {0} /\ q < n
         /\ requests' \in Seq(Request) /\ Len(requests') = n /\ requests'[n] = Loading
         /\ \A q \in Ids : requests'[q] = s[q]
BY RequestAdded, SMT DEF Ids

LEMMA UserRetryKeeps ==
  ASSUME Facts, NEW w, w \in [Ids -> Instances], MadeFor(w), NEW r \in Ids, UserRetry(r)
  PROVE  Facts' /\ \E v \in [Ids' -> Instances] : MadeFor(v)'
<1> DEFINE n == Len(requests) + 1
           f == [requests[r] EXCEPT !.state = "retrying", !.on = n]
           mid == [requests EXCEPT ![r] = f]
<1>1. /\ requests \in Seq(Request) /\ requests[r] \in Request /\ n \in Nat
      /\ requests[r].state = "asked"
  BY SMT DEF Facts, TypeOK, Ids, UserRetry
<1>2. /\ requests' = Append(mid, Loading) /\ pendingRequest' = n
      /\ resolvedComp' = resolvedComp /\ inst' = inst /\ retries' \in Nat
  BY SMT DEF UserRetry, Facts, TypeOK
<1>3. f \in Request /\ f.state = "retrying" /\ f.on = n
  <2> HIDE DEF n
  <2> QED
    BY <1>1, OnSet, Zenon DEF Following
<1> HIDE DEF f
<1>4. /\ mid \in Seq(Request) /\ Len(mid) = Len(requests)
      /\ mid[r] = f /\ \A q \in Ids : q # r => mid[q] = requests[q]
  BY <1>1, <1>3, SMT DEF Ids
<1> HIDE DEF mid
<1>5. /\ n \notin Ids /\ Ids' = Ids \cup {n} /\ \A q \in Ids : q \in Nat \ {0} /\ q < n
      /\ requests' \in Seq(Request) /\ Len(requests') = n /\ requests'[n] = Loading
      /\ \A q \in Ids : requests'[q] = mid[q]
  BY <1>1, <1>2, <1>4, RequestMade
<1> HIDE DEF n
<1>6. /\ requests'[r] = f /\ \A q \in Ids : q # r => requests'[q] = requests[q]
      /\ Loading.state = "loading" /\ n > r
  BY <1>4, <1>5 DEF Loading
<1>7. Facts'
  <2>1. TypeOK'
    BY <1>1, <1>2, <1>5 DEF Facts, TypeOK
  <2>2. SharesNewest'
    BY <1>2, <1>5 DEF SharesNewest
  <2>3. WaitsForNewer' /\ BringsNewer' /\ ToldByRequest'
    <3>1. WaitsForNewer'
      BY <1>2, <1>3, <1>5, <1>6, SMTT(40) DEF Facts, WaitsForNewer, Following
    <3>2. BringsNewer'
      BY <1>2, <1>3, <1>5, <1>6, SMTT(40) DEF Facts, BringsNewer
    <3>3. ToldByRequest'
      BY <1>2, <1>5, SMT DEF Facts, ToldByRequest
    <3> QED
      BY <3>1, <3>2, <3>3
  <2> QED
    BY <2>1, <2>2, <2>3 DEF Facts
<1>8. PICK v \in [Ids' -> Instances] : v[n] = w[r] /\ \A q \in Ids : v[q] = w[q]
  <2> DEFINE u == [q \in Ids' |-> IF q = n THEN w[r] ELSE w[q]]
  <2>1. u \in [Ids' -> Instances] /\ u[n] = w[r] /\ \A q \in Ids : u[q] = w[q]
    BY <1>5
  <2> QED
    BY <2>1, Zenon
<1>9. AskedFor(v)'
  <2>1. ASSUME NEW q \in Ids
        PROVE  /\ inst[w[q]].state \in {"waiting", "settled"}
               /\ inst[w[q]].req \in Ids /\ inst[w[q]].req <= q /\ w[inst[w[q]].req] = w[q]
               /\ requests[q].state = "retrying" =>
                    requests[q].on \in Ids /\ w[requests[q].on] = w[q]
               /\ inst[w[q]].state = "settled" => requests[q].state \in Final
    BY SMT DEF MadeFor, AskedFor, Facts, ToldByRequest, WaitsForNewer, Following, Final
  <2>2. /\ inst[w[r]].state = "waiting" /\ inst[w[r]].req \in Ids /\ inst[w[r]].req <= n
        /\ w[inst[w[r]].req] = w[r]
    <3>1. /\ inst[w[r]].state = "waiting" /\ inst[w[r]].req \in Ids
          /\ w[inst[w[r]].req] = w[r]
      BY <1>1, <2>1, Zenon DEF Final
    <3> QED
      BY <1>1, <1>5, <3>1, SMT
  <2>3. ASSUME NEW q \in Ids
        PROVE  /\ inst[v[q]].state \in {"waiting", "settled"}
               /\ inst[v[q]].req <= q /\ v[inst[v[q]].req] = v[q]
               /\ requests'[q].state = "retrying" => v[requests'[q].on] = v[q]
               /\ inst[v[q]].state = "settled" =>
                    \/ requests'[q].state = "resolved"
                    \/ requests'[q].state = "rejected" /\ n # q
    <3>1. v[q] = w[q] /\ v[inst[w[q]].req] = w[q] /\ n # q
      BY <1>5, <1>8, <2>1, Zenon
    <3>2. CASE q = r
      BY <1>3, <1>6, <1>8, <2>1, <2>2, <3>1, <3>2, Zenon
    <3>3. CASE q # r
      <4>1. requests'[q] = requests[q]
        BY <1>6, <3>3, Zenon
      <4>2. requests[q].state = "retrying" => v[requests[q].on] = w[q]
        BY <1>8, <2>1, Zenon
      <4>3. /\ inst[w[q]].state \in {"waiting", "settled"} /\ inst[w[q]].req <= q
            /\ inst[w[q]].state = "settled" =>
                 requests[q].state = "resolved" \/ requests[q].state = "rejected"
        BY <2>1, Zenon DEF Final
      <4> QED
        BY <3>1, <4>1, <4>2, <4>3, Zenon
    <3> QED
      BY <3>2, <3>3
  <2>4. /\ inst[v[n]].state = "waiting"
        /\ inst[v[n]].req <= n /\ v[inst[v[n]].req] = v[n]
        /\ requests'[n].state = "loading"
    BY <1>5, <1>6, <1>8, <2>2, Zenon
  <2> QED
    BY <1>2, <1>5, <2>3, <2>4, ZenonT(40) DEF AskedFor
<1>10. Chain(v)'
  <2> SUFFICES ASSUME NEW q \in Ids', NEW s \in Ids', q < s, v[q] = v[s]
               PROVE  /\ requests'[q].state \in Following \cup Final
                      /\ requests'[q].state = "retrying" => requests'[q].on <= s
                      /\ requests'[q].state \in {"passed", "resolved"} =>
                           requests'[s].state = "resolved"
                      /\ requests'[q].state = "rejected" => requests'[s].state \in Final
    BY Zenon DEF Chain
  <2>1. ASSUME NEW p \in Ids, NEW t \in Ids, p < t, w[p] = w[t]
        PROVE  /\ requests[p].state \in Following \cup Final
               /\ requests[p].state = "retrying" => requests[p].on <= t
               /\ requests[p].state \in {"passed", "resolved"} => requests[t].state = "resolved"
               /\ requests[p].state = "rejected" => requests[t].state \in Final
    BY <2>1, Zenon DEF MadeFor, Chain
  <2>2. q \in Ids /\ s # q /\ (s = n \/ s \in Ids)
    BY <1>5, SMT
  <2>3. CASE s \in Ids
    <3>1. w[q] = w[s]
      BY <1>8, <2>2, <2>3
    <3>2. /\ requests[q].state \in Following \cup Final
          /\ requests[q].state = "retrying" => requests[q].on <= s
          /\ requests[q].state \in {"passed", "resolved"} => requests[s].state = "resolved"
          /\ requests[q].state = "rejected" => requests[s].state \in Final
      BY <2>1, <2>2, <2>3, <3>1, Zenon
    <3>3. q # r
      BY <1>1, <3>2, Zenon DEF Following, Final
    <3>4. requests'[q] = requests[q]
      BY <1>6, <2>2, <3>3, Zenon
    <3>5. CASE s = r
      <4>1. requests[s].state \notin Final
        BY <1>1, <3>5, Zenon DEF Final
      <4>2. requests[s].state # "resolved"
        BY <4>1, Zenon DEF Final
      <4> QED
        BY <3>2, <3>4, <4>1, <4>2, Zenon
    <3>6. CASE s # r
      <4>1. requests'[s] = requests[s]
        BY <1>6, <2>3, <3>6, Zenon
      <4> QED
        BY <3>2, <3>4, <4>1, Zenon
    <3> QED
      BY <3>5, <3>6
  <2>4. CASE s = n
    <3>1. w[q] = w[r]
      BY <1>8, <2>2, <2>4
    <3>2. CASE q = r
      BY <1>3, <1>5, <1>6, <2>4, <3>2, SMT DEF Following
    <3>3. CASE q < r
      <4>1. requests[q].state = "retrying" /\ requests[q].on <= r
        BY <1>1, <2>1, <2>2, <3>1, <3>3, Zenon DEF Following, Final
      <4>2. requests[q].on \in Ids
        BY <2>2, <4>1 DEF Facts, WaitsForNewer, Following
      <4> QED
        BY <1>5, <1>6, <2>2, <2>4, <3>3, <4>1, <4>2, SMT DEF Following
    <3>4. CASE r < q
      BY <1>1, <2>1, <2>2, <3>1, <3>4, Zenon DEF Following, Final
    <3> QED
      BY <1>5, <2>2, <3>2, <3>3, <3>4, SMT
  <2> QED
    BY <2>2, <2>3, <2>4
<1> QED
  BY <1>7, <1>8, <1>9, <1>10, Zenon DEF MadeFor

--------------------------------------------------------------------------------
(* What the instances do. *)

\* Refs and timers of an instance are set, and the request may be given up: who
\* waits for what stays.
LEMMA RefsSet ==
  ASSUME Facts, NEW w, w \in [Ids -> Instances], MadeFor(w),
         requests' = requests, resolvedComp' = resolvedComp, retries' = retries,
         pendingRequest' \in {None, pendingRequest}, inst' \in [Instances -> Inst],
         \A i \in Instances :
           /\ inst'[i].state = inst[i].state /\ inst'[i].req = inst[i].req
           /\ inst'[i].loaded = inst[i].loaded /\ inst'[i].comp = inst[i].comp
  PROVE  Facts' /\ Ids' = Ids /\ MadeFor(w)'
<1>1. Ids' = Ids
  BY DEF Ids
<1>2. Facts'
  <2>1. TypeOK' /\ SharesNewest'
    BY SMT DEF Facts, TypeOK, SharesNewest, None
  <2>2. WaitsForNewer' /\ ToldByRequest'
    BY <1>1, SMT DEF Facts, WaitsForNewer, ToldByRequest
  <2>3. BringsNewer'
    BY <1>1, SMT DEF Facts, BringsNewer, Ids, None
  <2> QED
    BY <2>1, <2>2, <2>3 DEF Facts
<1>3. \A r \in Ids : w[r] \in Instances /\ (pendingRequest # r => pendingRequest' # r)
  BY SMT DEF Ids, None
<1>4. AskedFor(w)'
  BY <1>1, <1>3, SMT DEF MadeFor, AskedFor
<1>5. Chain(w)'
  BY <1>1, ZenonT(40) DEF MadeFor, Chain
<1> QED
  BY <1>1, <1>2, <1>4, <1>5 DEF MadeFor

LEMMA InstChanged ==
  ASSUME inst \in [Instances -> Inst], NEW i \in Instances, NEW g \in Inst,
         inst' = [inst EXCEPT ![i] = g]
  PROVE  /\ inst' \in [Instances -> Inst] /\ inst'[i] = g
         /\ \A j \in Instances : j # i => inst'[j] = inst[j]
OBVIOUS

LEMMA DelaySet ==
  ASSUME NEW q \in Inst, NEW b \in BOOLEAN
  PROVE  LET p == [q EXCEPT !.delayed = b] IN
         /\ p \in Inst /\ p.state = q.state /\ p.req = q.req
         /\ p.loaded = q.loaded /\ p.comp = q.comp
BY DEF Inst

LEMMA TimerSet ==
  ASSUME NEW q \in Inst, NEW b \in BOOLEAN
  PROVE  LET p == [q EXCEPT !.timer = b] IN
         /\ p \in Inst /\ p.state = q.state /\ p.req = q.req
         /\ p.loaded = q.loaded /\ p.comp = q.comp
BY DEF Inst

LEMMA DirectSet ==
  ASSUME NEW q \in Inst
  PROVE  LET p == [q EXCEPT !.state = "direct"] IN
         p \in Inst /\ p.state = "direct" /\ p.loaded = q.loaded /\ p.comp = q.comp
BY DEF Inst

LEMMA DelayEndsKeeps ==
  ASSUME Facts, NEW w, w \in [Ids -> Instances], MadeFor(w), NEW i \in Instances, DelayEnds(i)
  PROVE  Facts' /\ Ids' = Ids /\ MadeFor(w)'
<1>1. inst \in [Instances -> Inst]
  BY DEF Facts, TypeOK
<1>2. /\ inst' = [inst EXCEPT ![i].delayed = FALSE]
      /\ requests' = requests /\ resolvedComp' = resolvedComp /\ retries' = retries
      /\ pendingRequest' = pendingRequest
  BY DEF DelayEnds
<1>3. /\ inst' \in [Instances -> Inst]
      /\ \A j \in Instances :
           /\ inst'[j].state = inst[j].state /\ inst'[j].req = inst[j].req
           /\ inst'[j].loaded = inst[j].loaded /\ inst'[j].comp = inst[j].comp
  <2> DEFINE g == [inst[i] EXCEPT !.delayed = FALSE]
  <2>1. inst' = [inst EXCEPT ![i] = g] /\ inst[i] \in Inst
    BY <1>1, <1>2
  <2>2. /\ g \in Inst /\ g.state = inst[i].state /\ g.req = inst[i].req
        /\ g.loaded = inst[i].loaded /\ g.comp = inst[i].comp
    BY <2>1, DelaySet
  <2> HIDE DEF g
  <2> QED
    BY <1>1, <2>1, <2>2, InstChanged, Zenon
<1> QED
  BY <1>2, <1>3, RefsSet

LEMMA TimeoutKeeps ==
  ASSUME Facts, NEW w, w \in [Ids -> Instances], MadeFor(w), NEW i \in Instances, Timeout(i)
  PROVE  Facts' /\ Ids' = Ids /\ MadeFor(w)'
<1>1. inst \in [Instances -> Inst]
  BY DEF Facts, TypeOK
<1>2. /\ requests' = requests /\ resolvedComp' = resolvedComp /\ retries' = retries
      /\ pendingRequest' \in {None, pendingRequest}
      /\ \/ inst' = [inst EXCEPT ![i].timer = FALSE]
         \/ inst' = [inst EXCEPT ![i].timer = FALSE, ![i].error = @ \/ i \in Handled]
  BY DEF Timeout
<1>3. PICK g \in Inst :
        /\ inst' = [inst EXCEPT ![i] = g]
        /\ g.state = inst[i].state /\ g.req = inst[i].req
        /\ g.loaded = inst[i].loaded /\ g.comp = inst[i].comp
  <2>1. inst[i] \in Inst
    BY <1>1
  <2>2. CASE inst' = [inst EXCEPT ![i].timer = FALSE]
    BY <2>1, <2>2, TimerSet
  <2>3. CASE inst' = [inst EXCEPT ![i].timer = FALSE, ![i].error = @ \/ i \in Handled]
    <3> DEFINE told == [inst[i] EXCEPT !.timer = FALSE, !.error = @ \/ i \in Handled]
    <3>1. /\ told \in Inst /\ told.state = inst[i].state /\ told.req = inst[i].req
          /\ told.loaded = inst[i].loaded /\ told.comp = inst[i].comp
      <4>1. /\ told.state = inst[i].state /\ told.req = inst[i].req
            /\ told.loaded = inst[i].loaded /\ told.comp = inst[i].comp
        BY <2>1 DEF Inst
      <4>2. told \in Inst
        BY <2>1, Zenon DEF Inst
      <4> HIDE DEF told
      <4> QED
        BY <4>1, <4>2, Zenon
    <3>2. inst' = [inst EXCEPT ![i] = told]
      BY <2>3
    <3> HIDE DEF told
    <3> QED
      BY <3>1, <3>2, Zenon
  <2> QED
    BY <1>2, <2>2, <2>3
<1>4. /\ inst' \in [Instances -> Inst]
      /\ \A j \in Instances :
           /\ inst'[j].state = inst[j].state /\ inst'[j].req = inst[j].req
           /\ inst'[j].loaded = inst[j].loaded /\ inst'[j].comp = inst[j].comp
  BY <1>1, <1>3, InstChanged, Zenon
<1> QED
  BY <1>2, <1>4, RefsSet

LEMMA InstWaits ==
  ASSUME inst \in [Instances -> Inst], NEW i \in Instances, NEW n \in Nat,
         inst' = [inst EXCEPT ![i] = [@ EXCEPT !.state = "waiting", !.req = n,
                                               !.timer = i \in Timed]]
  PROVE  /\ inst' \in [Instances -> Inst] /\ inst'[i].state = "waiting"
         /\ inst'[i].loaded = inst[i].loaded /\ inst'[i].req = n
         /\ \A j \in Instances : j # i => inst'[j] = inst[j]
<1> DEFINE b == i \in Timed
           g(q, c) == [q EXCEPT !.state = "waiting", !.req = n, !.timer = c]
<1>1. inst' = [inst EXCEPT ![i] = g(inst[i], b)] /\ inst[i] \in Inst
  OBVIOUS
<1>2. b = TRUE \/ b = FALSE
  BY SMT
<1>3. ASSUME NEW q \in Inst, NEW c \in BOOLEAN
      PROVE  g(q, c) \in Inst /\ g(q, c).state = "waiting" /\ g(q, c).req = n
             /\ g(q, c).loaded = q.loaded
  BY DEF Inst
<1> HIDE DEF b, g
<1>4. CASE b = TRUE
  BY <1>1, <1>3, <1>4, InstChanged, Zenon
<1>5. CASE b = FALSE
  BY <1>1, <1>3, <1>5, InstChanged, Zenon
<1> QED
  BY <1>2, <1>4, <1>5

\* The chains stay when an instance that was not mounted is.
LEMMA MountKeeps ==
  ASSUME Facts, NEW w, w \in [Ids -> Instances], MadeFor(w), NEW i \in Instances, Mount(i)
  PROVE  Facts' /\ \E v \in [Ids' -> Instances] : MadeFor(v)'
<1>1. /\ requests \in Seq(Request) /\ inst \in [Instances -> Inst] /\ pendingRequest \in Nat
      /\ inst[i].state = "new" /\ resolvedComp' = resolvedComp /\ retries' = retries
  BY DEF Facts, TypeOK, Mount
<1>2. \A r \in Ids : w[r] \in Instances /\ w[r] # i
  BY <1>1, SMT DEF MadeFor, AskedFor
<1>3. CASE resolvedComp # None
  <2>1. /\ inst' = [inst EXCEPT ![i].state = "direct"]
        /\ requests' = requests /\ pendingRequest' = pendingRequest
    BY <1>3 DEF Mount
  <2>2. /\ inst' \in [Instances -> Inst] /\ inst'[i].state = "direct"
        /\ inst'[i].loaded = inst[i].loaded
        /\ \A j \in Instances : j # i => inst'[j] = inst[j]
    <3> DEFINE g == [inst[i] EXCEPT !.state = "direct"]
    <3>1. inst' = [inst EXCEPT ![i] = g] /\ inst[i] \in Inst
      BY <1>1, <2>1
    <3>2. g \in Inst /\ g.state = "direct" /\ g.loaded = inst[i].loaded
      BY <3>1, DirectSet
    <3> HIDE DEF g
    <3> QED
      BY <1>1, <3>1, <3>2, InstChanged, Zenon
  <2>3. Ids' = Ids
    BY <2>1 DEF Ids
  <2>4. Facts'
    <3>1. TypeOK' /\ SharesNewest' /\ WaitsForNewer' /\ BringsNewer'
      BY <1>1, <2>1, <2>2, <2>3
      DEF Facts, TypeOK, SharesNewest, WaitsForNewer, BringsNewer
    <3>2. ~inst[i].loaded
      BY <1>1 DEF Facts, ToldByRequest
    <3>3. ToldByRequest'
      BY <2>2, <2>3, <3>2, SMT DEF Facts, ToldByRequest
    <3> QED
      BY <3>1, <3>3 DEF Facts
  <2>5. AskedFor(w)'
    BY <1>2, <2>1, <2>2, <2>3, SMT DEF MadeFor, AskedFor
  <2>6. Chain(w)'
    BY <2>1, <2>3, Zenon DEF MadeFor, Chain
  <2> QED
    BY <2>3, <2>4, <2>5, <2>6, Zenon DEF MadeFor
<1>4. CASE resolvedComp = None /\ pendingRequest # None
  <2>1. pendingRequest \in Ids
    BY <1>1, <1>4, SMT DEF Facts, SharesNewest, Ids, None
  <2>2. /\ requests' = requests /\ pendingRequest' = pendingRequest
        /\ inst' = [inst EXCEPT ![i] = [@ EXCEPT !.state = "waiting", !.req = pendingRequest,
                                                 !.timer = i \in Timed]]
    BY <1>4, <2>1 DEF Mount
  <2>3. /\ inst' \in [Instances -> Inst] /\ inst'[i].state = "waiting"
        /\ inst'[i].loaded = inst[i].loaded /\ inst'[i].req = pendingRequest
        /\ \A j \in Instances : j # i => inst'[j] = inst[j]
    BY <1>1, <2>2, InstWaits, Zenon
  <2>4. Ids' = Ids
    BY <2>2 DEF Ids
  <2>5. Facts'
    <3>1. TypeOK' /\ SharesNewest' /\ WaitsForNewer' /\ BringsNewer'
      BY <1>1, <2>2, <2>3, <2>4
      DEF Facts, TypeOK, SharesNewest, WaitsForNewer, BringsNewer
    <3>2. ~inst[i].loaded
      BY <1>1 DEF Facts, ToldByRequest
    <3>3. ToldByRequest'
      BY <2>1, <2>3, <2>4, <3>2, SMT DEF Facts, ToldByRequest
    <3> QED
      BY <3>1, <3>3 DEF Facts
  <2>6. AskedFor(w)'
    BY <1>2, <2>2, <2>3, <2>4, SMT DEF MadeFor, AskedFor
  <2>7. Chain(w)'
    BY <2>2, <2>4, Zenon DEF MadeFor, Chain
  <2> QED
    BY <2>4, <2>5, <2>6, <2>7, Zenon DEF MadeFor
<1>5. CASE resolvedComp = None /\ pendingRequest = None
  <2> DEFINE n == Len(requests) + 1
  <2>1. n \in Nat /\ n \notin Ids
    BY <1>1, SMT DEF Ids
  <2>2. /\ requests' = Append(requests, Loading) /\ pendingRequest' = n
        /\ inst' = [inst EXCEPT ![i] = [@ EXCEPT !.state = "waiting", !.req = n,
                                                 !.timer = i \in Timed]]
    BY <1>5, <2>1 DEF Mount
  <2>3. /\ Ids' = Ids \cup {n} /\ \A q \in Ids : q \in Nat \ {0} /\ q < n
        /\ requests' \in Seq(Request) /\ Len(requests') = n /\ requests'[n] = Loading
        /\ \A q \in Ids : requests'[q] = requests[q]
    BY <1>1, <2>2, RequestMade
  <2> HIDE DEF n
  <2>4. /\ inst' \in [Instances -> Inst] /\ inst'[i].state = "waiting"
        /\ inst'[i].loaded = inst[i].loaded /\ inst'[i].req = n
        /\ \A j \in Instances : j # i => inst'[j] = inst[j]
    BY <1>1, <2>1, <2>2, InstWaits, Zenon
  <2>5. Loading.state = "loading"
    BY DEF Loading
  <2>6. Facts'
    <3>1. TypeOK' /\ SharesNewest'
      BY <1>1, <2>1, <2>2, <2>3, <2>4 DEF Facts, TypeOK, SharesNewest
    <3>2. WaitsForNewer'
      BY <2>3, <2>5, SMT DEF Facts, WaitsForNewer, Following
    <3>3. BringsNewer'
      BY <1>1, <2>1, <2>2, <2>3, <2>5, SMT DEF Facts, BringsNewer
    <3>4. ~inst[i].loaded
      BY <1>1 DEF Facts, ToldByRequest
    <3>5. ToldByRequest'
      BY <2>3, <2>4, <3>4, SMT DEF Facts, ToldByRequest
    <3> QED
      BY <3>1, <3>2, <3>3, <3>5 DEF Facts
  <2>7. PICK v \in [Ids' -> Instances] : v[n] = i /\ \A q \in Ids : v[q] = w[q]
    <3> DEFINE u == [q \in Ids' |-> IF q = n THEN i ELSE w[q]]
    <3>1. u \in [Ids' -> Instances] /\ u[n] = i /\ \A q \in Ids : u[q] = w[q]
      BY <2>1, <2>3
    <3> QED
      BY <3>1, Zenon
  <2>8. AskedFor(v)'
    <3>1. ASSUME NEW q \in Ids
          PROVE  /\ inst'[v[q]].state \in {"waiting", "settled"}
                 /\ inst'[v[q]].req <= q /\ v[inst'[v[q]].req] = v[q]
                 /\ requests'[q].state = "retrying" => v[requests'[q].on] = v[q]
                 /\ inst'[v[q]].state = "settled" =>
                      \/ requests'[q].state = "resolved"
                      \/ requests'[q].state = "rejected" /\ n # q
      <4>1. /\ inst[w[q]].state \in {"waiting", "settled"}
            /\ inst[w[q]].req \in Ids /\ inst[w[q]].req <= q /\ w[inst[w[q]].req] = w[q]
            /\ requests[q].state = "retrying" =>
                 requests[q].on \in Ids /\ w[requests[q].on] = w[q]
            /\ inst[w[q]].state = "settled" =>
                 requests[q].state = "resolved" \/ requests[q].state = "rejected"
        BY <1>2, SMT DEF MadeFor, AskedFor, Facts, ToldByRequest, WaitsForNewer, Following
      <4>2. /\ v[q] = w[q] /\ inst'[w[q]] = inst[w[q]] /\ requests'[q] = requests[q]
            /\ n # q
        BY <1>2, <2>1, <2>3, <2>4, <2>7, Zenon
      <4>3. v[inst[w[q]].req] = w[q] /\ (requests[q].state = "retrying" => v[requests[q].on] = w[q])
        BY <2>7, <4>1, Zenon
      <4> QED
        BY <4>1, <4>2, <4>3, Zenon
    <3>2. n <= n
      BY <2>1
    <3>3. /\ inst'[v[n]].state = "waiting"
          /\ inst'[v[n]].req <= n /\ v[inst'[v[n]].req] = v[n]
          /\ requests'[n].state = "loading"
      BY <2>3, <2>4, <2>5, <2>7, <3>2, Zenon
    <3>4. \A q \in Ids' : q \in Ids \/ q = n
      BY <2>3
    <3> QED
      BY <2>2, <3>1, <3>3, <3>4, Zenon DEF AskedFor
  <2>9. Chain(v)'
    <3> SUFFICES ASSUME NEW q \in Ids', NEW s \in Ids', q < s, v[q] = v[s]
                 PROVE  /\ requests'[q].state \in Following \cup Final
                        /\ requests'[q].state = "retrying" => requests'[q].on <= s
                        /\ requests'[q].state \in {"passed", "resolved"} =>
                             requests'[s].state = "resolved"
                        /\ requests'[q].state = "rejected" => requests'[s].state \in Final
      BY Zenon DEF Chain
    <3>1. q \in Ids /\ (s = n \/ s \in Ids)
      BY <2>1, <2>3, SMT
    <3>2. s # n
      BY <1>2, <2>7, <3>1, Zenon
    <3>3. /\ w[q] = w[s] /\ requests'[q] = requests[q] /\ requests'[s] = requests[s]
      BY <2>3, <2>7, <3>1, <3>2, Zenon
    <3> QED
      BY <3>1, <3>2, <3>3, Zenon DEF MadeFor, Chain
  <2> QED
    BY <2>6, <2>7, <2>8, <2>9, Zenon DEF MadeFor
<1> QED
  BY <1>3, <1>4, <1>5

\* Those who wait for a request are told what came of it.
LEMMA DeliverKeeps ==
  ASSUME Facts, NEW w, w \in [Ids -> Instances], MadeFor(w), NEW r \in Ids, Deliver(r)
  PROVE  Facts' /\ Ids' = Ids /\ MadeFor(w)'
<1>1. /\ requests \in Seq(Request) /\ inst \in [Instances -> Inst] /\ requests[r] \in Request
      /\ requests[r].state \in Final
      /\ requests' = requests /\ resolvedComp' = resolvedComp /\ retries' = retries
      /\ pendingRequest' = IF requests[r].state = "rejected" THEN None ELSE pendingRequest
  <2>1. /\ requests \in Seq(Request) /\ inst \in [Instances -> Inst]
        /\ requests[r] \in Request
    BY DEF Facts, TypeOK, Ids
  <2> QED
    BY <2>1, Zenon DEF Deliver, Final
<1>2. /\ inst' \in [Instances -> Inst]
      /\ \A i \in Instances : i \notin Waiters(r) => inst'[i] = inst[i]
      /\ \A i \in Waiters(r) :
           /\ i \in Instances /\ inst[i].state = "waiting" /\ inst[i].req = r
           /\ inst'[i].state = "settled" /\ inst'[i].req = r
           /\ inst'[i].comp = requests[r].comp
           /\ inst'[i].loaded => requests[r].state = "resolved"
  <2>1. \A i \in Waiters(r) : i \in Instances /\ inst[i].state = "waiting" /\ inst[i].req = r
    BY DEF Waiters
  <2> DEFINE told(i) == [inst[i] EXCEPT !.state = "settled", !.comp = requests[r].comp,
                           !.loaded = requests[r].state = "resolved",
                           !.error = @ \/ (requests[r].state = "rejected" /\ i \in Handled)]
  <2>2. inst' = [i \in Instances |-> IF i \notin Waiters(r) THEN inst[i] ELSE told(i)]
    BY DEF Deliver
  <2>3. ASSUME NEW i \in Waiters(r)
        PROVE  /\ told(i) \in Inst /\ told(i).state = "settled" /\ told(i).req = r
               /\ told(i).comp = requests[r].comp
               /\ told(i).loaded => requests[r].state = "resolved"
    BY <1>1, <2>1, ZenonT(60) DEF Inst, Request
  <2> HIDE DEF told
  <2> QED
    BY <1>1, <2>1, <2>2, <2>3, Zenon
<1>3. Ids' = Ids
  BY <1>1 DEF Ids
<1>4. Facts'
  <2>1. TypeOK' /\ SharesNewest'
    BY <1>1, <1>2 DEF Facts, TypeOK, SharesNewest, None
  <2>2. WaitsForNewer'
    BY <1>1, <1>3 DEF Facts, WaitsForNewer
  <2>3. BringsNewer'
    BY <1>1, <1>3, SMT DEF Facts, BringsNewer, Ids, None
  <2>4. ToldByRequest'
    BY <1>1, <1>2, <1>3, SMT DEF Facts, ToldByRequest, BringsNewer
  <2> QED
    BY <2>1, <2>2, <2>3, <2>4 DEF Facts
<1>5. AskedFor(w)'
  <2> SUFFICES ASSUME NEW q \in Ids
               PROVE  /\ inst'[w[q]].state \in {"waiting", "settled"}
                      /\ inst'[w[q]].req <= q /\ w[inst'[w[q]].req] = w[q]
                      /\ requests[q].state = "retrying" => w[requests[q].on] = w[q]
                      /\ inst'[w[q]].state = "settled" =>
                           \/ requests[q].state = "resolved"
                           \/ requests[q].state = "rejected" /\ pendingRequest' # q
    BY <1>1, <1>3, Zenon DEF AskedFor
  <2>1. /\ w[q] \in Instances /\ inst[w[q]].state \in {"waiting", "settled"}
        /\ inst[w[q]].req <= q /\ w[inst[w[q]].req] = w[q]
        /\ requests[q].state = "retrying" => w[requests[q].on] = w[q]
        /\ inst[w[q]].state = "settled" =>
             \/ requests[q].state = "resolved"
             \/ requests[q].state = "rejected" /\ pendingRequest # q
    BY SMT DEF MadeFor, AskedFor
  <2>2. q # None /\ (r <= q => r = q \/ r < q)
    BY SMT DEF Ids, None
  <2>3. CASE w[q] \notin Waiters(r)
    BY <1>1, <1>2, <2>1, <2>2, <2>3, Zenon
  <2>4. CASE w[q] \in Waiters(r)
    <3>1. /\ inst'[w[q]].state = "settled" /\ inst'[w[q]].req = r
          /\ r <= q /\ w[r] = w[q]
      BY <1>2, <2>1, <2>4, Zenon
    <3>2. /\ requests[r].state = "resolved" => requests[q].state = "resolved"
          /\ requests[r].state = "rejected" => requests[q].state \in Final
      BY <2>2, <3>1, Zenon DEF MadeFor, Chain, Final
    <3> QED
      BY <1>1, <2>1, <2>2, <3>1, <3>2, Zenon DEF Final
  <2> QED
    BY <2>3, <2>4
<1>6. Chain(w)'
  BY <1>1, <1>3, Zenon DEF MadeFor, Chain
<1> QED
  BY <1>3, <1>4, <1>5, <1>6 DEF MadeFor

--------------------------------------------------------------------------------
(* The requests. *)

\* What waits for request r on behalf of the same instance has its answer when r
\* has, and r has it when it follows one that has it.
LEMMA LaterAnswered ==
  ASSUME Facts, NEW w, w \in [Ids -> Instances], MadeFor(w), NEW r \in Ids,
         NEW s \in Ids, r < s, w[r] = w[s]
  PROVE  /\ requests[r].state # "loading"
         /\ requests[r].state # "asked"
         /\ requests[r].state = "retrying" =>
              /\ requests[requests[r].on].state = "resolved" => requests[s].state = "resolved"
              /\ requests[requests[r].on].state = "rejected" => requests[s].state \in Final
         /\ requests[r].state = "passed" => requests[s].state = "resolved"
<1>1. /\ requests[r].state \in Following \cup Final
      /\ requests[r].state = "retrying" => requests[r].on <= s
      /\ requests[r].state \in {"passed", "resolved"} => requests[s].state = "resolved"
  BY Zenon DEF MadeFor, Chain
<1>2. ASSUME requests[r].state = "retrying"
      PROVE  /\ requests[requests[r].on].state = "resolved" => requests[s].state = "resolved"
             /\ requests[requests[r].on].state = "rejected" => requests[s].state \in Final
  <2> DEFINE q == requests[r].on
  <2>1. q \in Ids /\ w[q] = w[s] /\ q <= s
    BY <1>1, <1>2, SMT DEF MadeFor, AskedFor, Facts, WaitsForNewer, Following
  <2> HIDE DEF q
  <2>2. q = s \/ q < s
    BY <2>1, SMT DEF Ids
  <2>3. /\ requests[q].state = "resolved" => requests[s].state = "resolved"
        /\ requests[q].state = "rejected" => requests[s].state \in Final
    BY <2>1, <2>2, Zenon DEF MadeFor, Chain, Final
  <2> QED
    BY <2>3 DEF q
<1> QED
  BY <1>1, <1>2, Zenon DEF Following, Final

LEMMA LoaderKeeps ==
  ASSUME Facts, NEW w, w \in [Ids -> Instances], MadeFor(w), NEW r \in Ids,
         LoaderResolves(r) \/ LoaderRejects(r)
  PROVE  Facts' /\ Ids' = Ids /\ MadeFor(w)'
<1>1. /\ requests[r].state = "loading" /\ requests[r].state \notin Final
      /\ requests[r].state \in {"loading", "retrying"}
      /\ pendingRequest' = pendingRequest /\ retries' = retries /\ inst' = inst
  BY DEF LoaderResolves, LoaderRejects, Final
<1>2. \A s \in Ids : ~(r < s /\ w[r] = w[s])
  BY <1>1, LaterAnswered, Zenon
<1>3. CASE LoaderResolves(r)
  <2>1. r \in Nat /\ r >= r /\ Completes(r, r)
    BY <1>3, SMT DEF Ids, LoaderResolves
  <2> QED
    BY <1>1, <1>2, <2>1, Completed, Zenon
<1>4. CASE LoaderRejects(r)
  <2>1. resolvedComp' = resolvedComp
    BY <1>4 DEF LoaderRejects
  <2>2. CASE requests' = [requests EXCEPT ![r].state = "asked"]
    BY <1>1, <1>2, <2>1, <2>2, StateChanged, Zenon
  <2>3. CASE requests' = [requests EXCEPT ![r].state = "rejected"]
    BY <1>1, <1>2, <2>1, <2>3, StateChanged, Zenon
  <2> QED
    BY <1>4, <2>2, <2>3, Zenon DEF LoaderRejects, Rejected
<1> QED
  BY <1>3, <1>4

LEMMA UserFailKeeps ==
  ASSUME Facts, NEW w, w \in [Ids -> Instances], MadeFor(w), NEW r \in Ids, UserFail(r)
  PROVE  Facts' /\ Ids' = Ids /\ MadeFor(w)'
<1>1. /\ requests[r].state = "asked" /\ requests[r].state \notin Final
      /\ requests' = [requests EXCEPT ![r].state = "rejected"]
      /\ pendingRequest' = pendingRequest /\ resolvedComp' = resolvedComp
      /\ retries' = retries /\ inst' = inst
  BY DEF UserFail, Rejected, Final
<1>2. \A s \in Ids : ~(r < s /\ w[r] = w[s])
  BY <1>1, LaterAnswered, Zenon
<1> QED
  BY <1>1, <1>2, StateChanged, Zenon

LEMMA FollowKeeps ==
  ASSUME Facts, NEW w, w \in [Ids -> Instances], MadeFor(w), NEW r \in Ids, Follow(r)
  PROVE  Facts' /\ Ids' = Ids /\ MadeFor(w)'
<1> DEFINE n == requests[r].on
           q == requests[n]
<1>1. /\ requests[r].state \in {"retrying", "passed"} /\ requests[r].state \notin Final
      /\ pendingRequest' = pendingRequest /\ retries' = retries /\ inst' = inst
  BY DEF Follow, Final
<1>2. n \in Ids /\ n > r /\ r \in Nat /\ n \in Nat
  BY <1>1, SMT DEF Facts, WaitsForNewer, Following, Ids
<1>3. q \in Request /\ (q.state = "resolved" => q.comp \in Nat /\ q.comp >= r)
  <2>1. q \in Request
    BY <1>2 DEF Facts, TypeOK, Ids
  <2>2. q.state = "resolved" => q.comp >= n
    BY <1>2 DEF Facts, BringsNewer
  <2>3. q.comp \in Nat
    BY <2>1 DEF Request
  <2> HIDE DEF q
  <2> QED
    BY <1>2, <2>1, <2>2, <2>3, SMT
<1>4. \A s \in Ids : r < s /\ w[r] = w[s] =>
        /\ requests[r].state = "passed" => requests[s].state = "resolved"
        /\ requests[r].state = "retrying" =>
             /\ q.state = "resolved" => requests[s].state = "resolved"
             /\ q.state = "rejected" => requests[s].state \in Final
  BY LaterAnswered, Zenon
<1>5. \/ q.state = "rejected" /\ requests' = Rejected(r) /\ resolvedComp' = resolvedComp
      \/ q.state = "resolved" /\ requests[r].state = "retrying" /\ Completes(r, q.comp)
      \/ /\ q.state = "resolved" /\ requests[r].state = "passed"
         /\ requests' = [requests EXCEPT ![r] = [@ EXCEPT !.state = "resolved", !.comp = q.comp]]
         /\ resolvedComp' = resolvedComp
  BY Zenon DEF Follow
<1> HIDE DEF q
<1>6. CASE q.state = "rejected" /\ requests' = Rejected(r) /\ resolvedComp' = resolvedComp
  <2>1. requests' = [requests EXCEPT ![r].state = "rejected"]
    BY <1>6 DEF Rejected
  <2>2. \A s \in Ids : r < s /\ w[r] = w[s] => requests[s].state \in Final
    BY <1>1, <1>4, <1>6, Zenon DEF Final
  <2> QED
    BY <1>1, <1>6, <2>1, <2>2, StateChanged, Zenon
<1>7. CASE q.state = "resolved" /\ requests[r].state = "retrying" /\ Completes(r, q.comp)
  <2>1. \A s \in Ids : r < s /\ w[r] = w[s] => requests[s].state = "resolved"
    BY <1>4, <1>7, Zenon
  <2> QED
    BY <1>1, <1>3, <1>7, <2>1, Completed, Zenon
<1>8. CASE /\ q.state = "resolved" /\ requests[r].state = "passed"
           /\ requests' = [requests EXCEPT ![r] = [@ EXCEPT !.state = "resolved", !.comp = q.comp]]
           /\ resolvedComp' = resolvedComp
  <2> DEFINE f == [requests[r] EXCEPT !.state = "resolved", !.comp = q.comp]
  <2>1. requests' = [requests EXCEPT ![r] = f]
    BY <1>8
  <2>2. requests \in Seq(Request) /\ requests[r] \in Request
    BY DEF Facts, TypeOK, Ids
  <2>3. f \in Request /\ f.state = "resolved" /\ f.comp = q.comp
    BY <1>3, <1>8, <2>2, CompSet, Zenon
  <2> HIDE DEF f
  <2>4. /\ requests' \in Seq(Request) /\ Len(requests') = Len(requests) /\ requests'[r] = f
        /\ \A s \in Ids : s # r => requests'[s] = requests[s]
    BY <2>1, <2>2, <2>3, RequestChanged, Zenon
  <2>5. Ids' = Ids
    BY <2>4 DEF Ids
  <2>6. pendingRequest # r
    BY <1>2, SMT DEF Facts, SharesNewest, Ids, None
  <2>7. Facts'
    <3>1. TypeOK'
      BY <1>1, <1>8, <2>4 DEF Facts, TypeOK
    <3>2. SharesNewest' /\ WaitsForNewer' /\ ToldByRequest'
      BY <1>1, <2>3, <2>4, <2>5, SMT
      DEF Facts, SharesNewest, WaitsForNewer, ToldByRequest, Following
    <3>3. BringsNewer'
      BY <1>1, <1>3, <1>8, <2>3, <2>4, <2>5, <2>6, SMT DEF Facts, BringsNewer
    <3> QED
      BY <3>1, <3>2, <3>3 DEF Facts
  <2>8. MadeFor(w)'
    <3>1. \A s \in Ids : r < s /\ w[r] = w[s] => requests[s].state = "resolved"
      BY <1>4, <1>8, Zenon
    <3>2. /\ f.state \in {"asked", "passed"} \cup Final
          /\ f.state # "asked" /\ f.state # "rejected"
      BY <2>3, Zenon DEF Final
    <3> QED
      BY <1>1, <2>3, <2>4, <2>5, <3>1, <3>2, ChainKept, Zenon
  <2> QED
    BY <2>5, <2>7, <2>8
<1> QED
  BY <1>5, <1>6, <1>7, <1>8

--------------------------------------------------------------------------------
(* The theorems. *)

LEMMA InvInitially == Init => IInv
<1> SUFFICES ASSUME Init PROVE IInv
  OBVIOUS
<1>1. Ids = {} /\ requests = << >>
  BY DEF Init, Ids
<1>2. Facts
  <2> DEFINE new == [state |-> "new", req |-> None, loaded |-> FALSE, error |-> FALSE,
                     delayed |-> TRUE, timer |-> FALSE, comp |-> None]
  <2>1. inst = [i \in Instances |-> new]
    BY DEF Init
  <2>2. new \in Inst /\ new.state = "new" /\ new.loaded = FALSE
    BY DEF Inst, None
  <2> HIDE DEF new
  <2>3. inst \in [Instances -> Inst] /\ \A i \in Instances : inst[i] = new
    BY <2>1, <2>2, Zenon
  <2>4. TypeOK /\ SharesNewest
    BY <2>3, SMT DEF TypeOK, SharesNewest, Init, None
  <2>5. WaitsForNewer /\ BringsNewer
    BY <1>1, Zenon DEF WaitsForNewer, BringsNewer
  <2>6. ToldByRequest
    BY <2>2, <2>3, Zenon DEF ToldByRequest
  <2> QED
    BY <2>4, <2>5, <2>6 DEF Facts
<1>3. SomeoneAsked
  <2>1. << >> \in [Ids -> Instances]
    BY <1>1
  <2>2. MadeFor(<< >>)
    BY <1>1, Zenon DEF MadeFor, AskedFor, Chain
  <2> QED
    BY <2>1, <2>2, Zenon DEF SomeoneAsked
<1> QED
  BY <1>2, <1>3 DEF IInv

LEMMA InvKept == IInv /\ [Next]_vars => IInv'
<1> SUFFICES ASSUME IInv, [Next]_vars PROVE IInv'
  OBVIOUS
<1> USE DEF IInv
<1>1. PICK w \in [Ids -> Instances] : MadeFor(w)
  BY Zenon DEF SomeoneAsked
<1>2. ASSUME Facts', Ids' = Ids, MadeFor(w)'
      PROVE  IInv'
  BY <1>2, Zenon DEF SomeoneAsked
<1>3. ASSUME Facts', \E v \in [Ids' -> Instances] : MadeFor(v)'
      PROVE  IInv'
  BY <1>3, Zenon DEF SomeoneAsked
<1> HIDE DEF IInv
<1>4. Facts
  BY DEF IInv
<1>5. ASSUME NEW r \in Ids,
             \/ LoaderResolves(r) \/ LoaderRejects(r) \/ UserRetry(r)
             \/ UserFail(r) \/ Follow(r) \/ Deliver(r)
      PROVE  IInv'
  <2>1. CASE LoaderResolves(r) \/ LoaderRejects(r)
    BY <1>1, <1>2, <1>4, <2>1, LoaderKeeps
  <2>2. CASE UserRetry(r)
    BY <1>1, <1>3, <1>4, <2>2, UserRetryKeeps
  <2>3. CASE UserFail(r)
    BY <1>1, <1>2, <1>4, <2>3, UserFailKeeps
  <2>4. CASE Follow(r)
    BY <1>1, <1>2, <1>4, <2>4, FollowKeeps
  <2>5. CASE Deliver(r)
    BY <1>1, <1>2, <1>4, <2>5, DeliverKeeps
  <2> QED
    BY <1>5, <2>1, <2>2, <2>3, <2>4, <2>5
<1>6. ASSUME NEW i \in Instances, Mount(i) \/ DelayEnds(i) \/ Timeout(i)
      PROVE  IInv'
  <2>1. CASE Mount(i)
    BY <1>1, <1>3, <1>4, <2>1, MountKeeps
  <2>2. CASE DelayEnds(i)
    BY <1>1, <1>2, <1>4, <2>2, DelayEndsKeeps
  <2>3. CASE Timeout(i)
    BY <1>1, <1>2, <1>4, <2>3, TimeoutKeeps
  <2> QED
    BY <1>6, <2>1, <2>2, <2>3
<1>7. CASE UNCHANGED vars
  <2>1. /\ requests' = requests /\ pendingRequest' = pendingRequest /\ inst' = inst
        /\ resolvedComp' = resolvedComp /\ retries' = retries
    BY <1>7 DEF vars
  <2>2. Ids' = Ids
    BY <2>1 DEF Ids
  <2>3. Facts'
    BY <1>4, <2>1, <2>2
    DEF Facts, TypeOK, SharesNewest, WaitsForNewer, BringsNewer, ToldByRequest
  <2>4. MadeFor(w)'
    BY <1>1, <2>1, <2>2, ZenonT(40) DEF MadeFor, AskedFor, Chain
  <2> QED
    BY <1>2, <2>2, <2>3, <2>4
<1> QED
  BY <1>5, <1>6, <1>7, Zenon DEF Next, Requests

\* The closure of an asynchronous component and the refs of its instances have the
\* types load(), retry() and setup() give them.
THEOREM TypesHold == Spec => []TypeOK
<1>1. IInv => TypeOK
  BY DEF IInv, Facts
<1> QED
  BY <1>1, InvInitially, InvKept, PTL DEF Spec

\* A request that follows another, because onError retried it or because it came
\* while another was pending, follows one made later: however often it is retried
\* and given up, no promise of load() waits for itself.
THEOREM NoCircle == Spec => []WaitsForNewer
<1>1. IInv => WaitsForNewer
  BY DEF IInv, Facts
<1> QED
  BY <1>1, InvInitially, InvKept, PTL DEF Spec

\* What load() shares is never out of date: the pending request is the newest, its
\* component is the one in use once it has come, nobody is told a component older
\* than the request he waits for, and a request that failed is shared only as long
\* as somebody who waits has not been told.
THEOREM Shared == Spec => []SharesTheLatest
<1>1. IInv => SharesTheLatest
  <2> SUFFICES ASSUME IInv PROVE SharesTheLatest
    OBVIOUS
  <2>1. /\ Facts /\ pendingRequest \in {None, Len(requests)} /\ requests \in Seq(Request)
        /\ (pendingRequest # None => pendingRequest \in Ids)
    BY SMT DEF IInv, Facts, TypeOK, SharesNewest, Ids, None
  <2>2. \A i \in Instances : inst[i].loaded => inst[i].comp >= inst[i].req
    BY <2>1 DEF Facts, ToldByRequest
  <2>3. ASSUME pendingRequest # None, requests[pendingRequest].state = "resolved"
        PROVE  resolvedComp = requests[pendingRequest].comp
    BY <2>1, <2>3 DEF Facts, BringsNewer
  <2>4. ASSUME pendingRequest # None, requests[pendingRequest].state = "rejected"
        PROVE  \E i \in Instances : inst[i].state = "waiting"
    <3>1. PICK w \in [Ids -> Instances] : AskedFor(w)
      BY Zenon DEF IInv, SomeoneAsked, MadeFor
    <3>2. w[pendingRequest] \in Instances
      BY <2>1, <2>4
    <3> QED
      BY <2>1, <2>4, <3>1, <3>2, Zenon DEF AskedFor
  <2> QED
    BY <2>1, <2>2, <2>3, <2>4, Zenon DEF SharesTheLatest
<1> QED
  BY <1>1, InvInitially, InvKept, PTL DEF Spec

================================================================================
