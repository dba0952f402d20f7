-------------------------------- MODULE Proxies --------------------------------
(***************************************************************************)
(* Reactive objects: what each operation on a proxy of an Object, an       *)
(* Array, a Map or a Set tracks, triggers, stores and returns              *)
(* (reactivity/src: reactive.ts, baseHandlers.ts, collectionHandlers.ts    *)
(* and ref.ts, with track and trigger of effect.ts).                       *)
(*                                                                         *)
(* One effect performs one read of "target" through one view of it, and    *)
(* looks into the objects it gets.  Others write through the reactive      *)
(* proxies.  "inner" is an object with a property x, "ref" a ref; both may *)
(* be stored in the target.                                                *)
(***************************************************************************)
EXTENDS Integers, Sequences, FiniteSets

CONSTANTS
  Kinds,      \* what the target may be: of "Object", "Array", "Map", "Set"
  Views,      \* what the effect reads through: "reactive", "readonly" (of the
              \* raw target), "over" (readonly of the reactive proxy)
  MaxLength   \* bound: the length of an array

ASSUME ProxiesAssumption ==
  /\ Kinds \subseteq {"Object", "Array", "Map", "Set"}
  /\ Views \subseteq {"reactive", "readonly", "over"}
  /\ MaxLength \in Nat

(***************************************************************************)
(* Values: << "prim", n >>, or an object as such, as its reactive proxy or *)
(* as its readonly proxy: << "raw" | "reactive" | "readonly", object >>.   *)
(* An object has at most one proxy of each kind, kept in its __v_reactive  *)
(* and __v_readonly.                                                       *)
(***************************************************************************)
Undefined == << "undefined" >>
Prims == {<< "prim", n >> : n \in 1..2}
Raw(o) == << "raw", o >>
IsRef(v) == v = Raw("ref")
ToRaw(v) == IF v[1] \in {"reactive", "readonly"} THEN Raw(v[2]) ELSE v
AsReactive(v) == IF v[1] = "raw" THEN << "reactive", v[2] >> ELSE v
\* Mutant: a reactive proxy is returned as it is.
AsReadonlyRaw(v) == IF v[1] = "raw" THEN << "readonly", v[2] >> ELSE v
AsReadonly(v) == IF v[1] \in {"raw", "reactive"} THEN << "readonly", v[2] >> ELSE v

\* The keys of targetMap.get(object).
Iterate == << "iterate" >>
KeyIterate == << "map key iterate" >>
Length == << "length" >>
Index(i) == << "index", i >>
X == << "key", "x" >>
RefValue == << "key", "value" >>

VARIABLES
  kind,     \* what the target is
  shallow,  \* whether its reactive proxy is one of shallowReactive
  locked,   \* the readonly proxy of inner: "none", of the object ("raw") or of
            \* its reactive proxy ("over")
  data,     \* data[o]: the raw content of an object: its keys and values
  length,   \* of the target, an Array
  view, read,  \* what the effect does
  deps,     \* what the effect depends on: pairs of an object and a key
  seen,     \* what the effect has seen
  got       \* the values it was handed, and whether they are, or come of, a
            \* ref that a readonly proxy does not protect

vars == << kind, shallow, locked, data, length, view, read, deps, seen, got >>
fixed == << kind, shallow, view, read >>

IsCollection == kind \in {"Map", "Set"}
Values == Prims \cup {Raw("inner"), << "reactive", "inner" >>}
Storable == IF IsCollection THEN Values ELSE Values \cup {Raw("ref")}
KeysOf(k) == CASE k = "Object" -> {<< "key", "a" >>, << "key", "b" >>}
               [] k = "Array" -> {Index(i) : i \in 0..(MaxLength - 1)}
               [] OTHER -> {<< "prim", 1 >>, Raw("inner"), << "reactive", "inner" >>}
Keys == KeysOf(kind)
ReadsOf(k) ==
  (CASE k = "Object" -> {"get", "has"} \X KeysOf(k)
     [] k = "Array" -> ({"get", "has"} \X KeysOf(k)) \cup ({"includes"} \X Values)
     [] k = "Map" -> {"get", "has"} \X KeysOf(k)
     [] k = "Set" -> {"has"} \X KeysOf(k))
  \cup (CASE k = "Object" -> {<< "keys" >>}
          [] k = "Array" -> {<< "length" >>, << "forEach" >>, << "keys" >>}
          [] k = "Map" -> {<< "size" >>, << "forEach" >>, << "keys" >>}
          [] k = "Set" -> {<< "size" >>, << "forEach" >>})

--------------------------------------------------------------------------------
(***************************************************************************)
(* Reading.  A read gives the values it returns, before they are wrapped   *)
(* (raw), or what it returns if it is no value of the target (out), and    *)
(* what it tracks of the target.                                           *)
(***************************************************************************)
Value(d, k) == IF k \in DOMAIN d THEN d[k] ELSE Undefined
Both(k) == {k, ToRaw(k)}  \* a collection tracks a proxy and its object

Found(d, k) == k \in DOMAIN d \/ (IsCollection /\ ToRaw(k) \in DOMAIN d)
Entry(d, k) == IF k \in DOMAIN d \/ ~IsCollection THEN Value(d, k) ELSE Value(d, ToRaw(k))

Operation(d, len) ==
  LET keys == IF IsCollection /\ Len(read) = 2 THEN Both(read[2]) ELSE {read[2]}
      all == {Index(i) : i \in 0..(len - 1)}
      some(raw, track) == [raw |-> raw, out |-> Undefined, track |-> track]
      fact(out, track) == [raw |-> << >>, out |-> out, track |-> track]
  IN  CASE read[1] = "get" -> some(<< Entry(d, read[2]) >>, keys)
        [] read[1] = "has" -> fact(Found(d, read[2]), keys)
        [] read[1] = "includes" ->     \* the value as it is given, then as its object
             fact(\E k \in DOMAIN d : d[k] \in {read[2], ToRaw(read[2])},
                  all \cup (IF view = "readonly" THEN {} ELSE {Length}))
        [] read[1] = "length" -> fact(len, {Length})
        [] read[1] = "size" -> fact(Cardinality(DOMAIN d), {Iterate})
        [] read[1] = "keys" /\ kind = "Map" -> fact(DOMAIN d, {KeyIterate})
        [] read[1] = "keys" /\ kind # "Map" -> fact(DOMAIN d, {Iterate})
        [] read[1] = "forEach" /\ kind = "Array" ->
             some([i \in 1..len |-> Value(d, Index(i - 1))], {Length} \cup all)
        [] read[1] = "forEach" /\ kind # "Array" ->
             some([p \in (DOMAIN d) \X {"key", "value"} |-> IF p[2] = "key" THEN p[1] ELSE d[p[1]]],
                  {Iterate})

\* Whether the operation tracks: a readonly proxy does not track get, and a
\* readonly collection does not track iteration, even of a reactive one.
Tracks ==
  \/ view = "reactive"
  \/ view = "over" /\ ~(IsCollection /\ read[1] \in {"forEach", "keys"})
  \/ view = "readonly" /\ (read[1] \in {"has", "size", "includes"} \/ (IsCollection /\ read[1] = "get")
                           \/ (read[1] = "keys" /\ kind # "Map"))

\* What the getter makes of a value: a ref in an Object is unwrapped.
Unwraps(v) == kind = "Object" /\ IsRef(v) /\ ~shallow
Wrapped(d, v) ==
  LET inside == AsReactive(d["ref"][RefValue]) IN   \* the value of the ref
  CASE shallow \/ (kind = "Array" /\ IsRef(v)) -> v
    [] Unwraps(v) -> IF view = "over" THEN AsReadonly(inside) ELSE inside
    [] OTHER -> IF view = "reactive" THEN AsReactive(v) ELSE AsReadonly(v)

\* The readonly proxy of inner after v was wrapped: the first one made is kept.
LockedAfter(d, v) ==
  LET base == IF Unwraps(v) THEN ToRaw(d["ref"][RefValue]) ELSE v
      over == v[1] = "reactive" \/ (view = "over" /\ ~IsCollection)
  IN  IF locked = "none" /\ ToRaw(base) = Raw("inner") /\ Wrapped(d, v)[1] = "readonly"
      THEN IF over THEN "over" ELSE "raw" ELSE locked

\* Looking into a value: what there is to see, and what that tracks.
Peek(d, lock, v) ==
  CASE v[1] \in {"prim", "undefined"} -> [out |-> v, track |-> {}]
    [] v = Raw("ref") ->
         LET inside == AsReactive(d["ref"][RefValue]) IN
         [out |-> IF inside[1] = "prim" THEN inside ELSE << "inner", d["inner"][X] >>,
          track |-> {<< "ref", RefValue >>}
                    \cup (IF inside[1] = "prim" THEN {} ELSE {<< "inner", X >>})]
    [] OTHER ->
         [out |-> << "inner", d["inner"][X] >>,
          track |-> IF v[1] = "reactive" \/ (v[1] = "readonly" /\ lock = "over")
                    THEN {<< "inner", X >>} ELSE {}]

\* A run of the effect: its deps, what it sees and gets.
Run(d, len) ==
  LET op == Operation(d["target"], len)
      raw == {op.raw[k] : k \in DOMAIN op.raw}
      lock == IF \E v \in raw : LockedAfter(d, v) # locked
              THEN LockedAfter(d, CHOOSE v \in raw : LockedAfter(d, v) # locked) ELSE locked
      deep(v) == IF shallow THEN [out |-> v, track |-> {}] ELSE Peek(d, lock, Wrapped(d, v))
      unwrapped == IF \E v \in raw : Unwraps(v) THEN {<< "ref", RefValue >>} ELSE {}
  IN  [deps |-> (IF Tracks THEN {<< "target", k >> : k \in op.track} ELSE {})
                \cup unwrapped \cup UNION {deep(v).track : v \in raw},
       seen |-> << op.out, [k \in DOMAIN op.raw |-> deep(op.raw[k]).out] >>,
       got |-> {<< Wrapped(d, v), IsRef(v) /\ (kind = "Array" \/ view = "readonly") >> : v \in raw},
       locked |-> lock]

--------------------------------------------------------------------------------
\* Mutant: Map.set of a key that is there is not told to those who iterate.
TriggeredSetAlone(o, type, key) ==
  LET array == o = "target" /\ kind = "Array"
      addOrDelete == type = "add" \/ (type = "delete" /\ ~array)
  IN  \/ << o, key >> \in deps
      \/ addOrDelete /\ << o, IF array THEN Length ELSE Iterate >> \in deps
      \/ addOrDelete /\ o = "target" /\ kind = "Map" /\ << o, KeyIterate >> \in deps

(***************************************************************************)
(* trigger(object, type, key): whether it reaches the effect.  Setting the *)
(* length of an array that an effect enumerates compares the symbol of     *)
(* ITERATE_KEY with a number: that throws before any effect has run.       *)
(***************************************************************************)
Triggered(o, type, key) ==
  LET array == o = "target" /\ kind = "Array"
      map == o = "target" /\ kind = "Map"
      addOrDelete == type = "add" \/ (type = "delete" /\ ~array)
  IN  \/ << o, key >> \in deps
      \/ (addOrDelete \/ (type = "set" /\ map)) /\ << o, IF array THEN Length ELSE Iterate >> \in deps
      \/ addOrDelete /\ map /\ << o, KeyIterate >> \in deps
TriggeredByLength(new) ==
  /\ << "target", Iterate >> \notin deps
  /\ \/ << "target", Length >> \in deps
     \/ \E i \in new..(MaxLength - 1) : << "target", Index(i) >> \in deps
TriggeredByClear == \E d \in deps : d[1] = "target"

\* The content and the length become d and len; the effect runs if it is hit.
Change(d, len, hit) ==
  LET r == Run(d, len) IN
  /\ data' = d
  /\ length' = len
  /\ IF hit THEN deps' = r.deps /\ seen' = r.seen /\ got' = r.got /\ locked' = r.locked
            ELSE UNCHANGED << deps, seen, got, locked >>
  /\ UNCHANGED fixed

With(o, k, v) == [data EXCEPT ![o] = [j \in DOMAIN @ \cup {k} |-> IF j = k THEN v ELSE @[j]]]
Without(o, k) == [data EXCEPT ![o] = [j \in DOMAIN @ \ {k} |-> @[j]]]

\* Setting key k of an object to v, when it may be new.
Put(o, k, v, len) ==
  LET old == Value(data[o], k)
      type == IF k \in DOMAIN data[o] THEN "set" ELSE "add"
  IN  Change(With(o, k, v), len, (type = "add" \/ v # old) /\ Triggered(o, type, k))

--------------------------------------------------------------------------------
(* Writing through the reactive proxies.                                       *)

\* set of a ref's value.
AssignRef(v) ==
  LET changed == ToRaw(v) # data["ref"][RefValue] IN
  Change(IF changed THEN With("ref", RefValue, v) ELSE data, length,
         changed /\ << "ref", RefValue >> \in deps)

\* set of an Object or an Array: a ref that is there takes the value.
AssignKey(k, v) ==
  LET value == IF shallow THEN v ELSE ToRaw(v)
      index == IF kind = "Array" THEN k[2] ELSE 0
  IN  /\ ~IsCollection
      /\ IF ~shallow /\ kind = "Object" /\ IsRef(Value(data["target"], k)) /\ ~IsRef(value)
         THEN AssignRef(value)
         ELSE Put("target", k, value, IF kind = "Array" /\ index >= length THEN index + 1 ELSE length)

AssignLength(new) ==
  /\ kind = "Array"
  /\ Change([data EXCEPT !["target"] = [k \in {Index(i) : i \in 0..(new - 1)} \cap DOMAIN @ |-> @[k]]],
            new, new # length /\ TriggeredByLength(new))

\* The entry of a collection a key stands for.
Key(k) == IF k \in DOMAIN data["target"] THEN k ELSE ToRaw(k)
\* Mutant: the key is stored as it is given.
MapSetAsGiven(k, v) == kind = "Map" /\ Put("target", k, ToRaw(v), length)
MapSet(k, v) == kind = "Map" /\ Put("target", Key(k), ToRaw(v), length)
SetAdd(v) ==
  LET value == ToRaw(v) IN
  /\ kind = "Set"
  /\ IF value \in DOMAIN data["target"] THEN Change(data, length, FALSE)
     ELSE Put("target", value, value, length)

Delete(k) ==
  LET key == IF IsCollection THEN Key(k) ELSE k
      hadKey == key \in DOMAIN data["target"]
  IN  Change(Without("target", key), length, hadKey /\ Triggered("target", "delete", key))
Clear ==
  /\ IsCollection
  /\ Change([data EXCEPT !["target"] = << >>], length, data["target"] # << >> /\ TriggeredByClear)

AssignX(v) == Put("inner", X, v, length)

--------------------------------------------------------------------------------
\* Raw keys, or a collection that was filled before it was made reactive.
Contents ==
  CASE kind = "Map" -> {<< >>, [k \in {<< "reactive", "inner" >>} |-> << "prim", 1 >>],
                        [k \in {Raw("inner"), << "reactive", "inner" >>} |->
                           IF k = Raw("inner") THEN << "prim", 1 >> ELSE << "prim", 2 >>]}
    [] kind = "Set" -> {<< >>, [k \in {<< "reactive", "inner" >>} |-> k]}
    [] OTHER -> {<< >>}

Init ==
  /\ kind \in Kinds
  /\ view \in Views
  /\ read \in ReadsOf(kind)
  /\ shallow \in (IF view = "reactive" THEN BOOLEAN ELSE {FALSE})
  /\ locked \in (IF view = "reactive" THEN {"none"} ELSE {"none", "raw"})
  /\ length = 0
  /\ \E content \in Contents :
       data = [target |-> content, inner |-> [k \in {X} |-> << "prim", 1 >>],
               ref |-> [k \in {RefValue} |-> << "prim", 1 >>]]
  /\ view # "reactive" => data["target"] = << >>
  /\ LET r == Run(data, 0) IN deps = r.deps /\ seen = r.seen /\ got = r.got

Next ==
  \/ \E k \in Keys, v \in Storable : AssignKey(k, v)
  \/ \E k \in Keys, v \in Storable : MapSet(k, v)
  \/ \E v \in Keys : SetAdd(v)
  \/ \E k \in Keys : Delete(k)
  \/ \E n \in 0..MaxLength : AssignLength(n)
  \/ Clear
  \/ \E v \in Prims : AssignX(v)
  \/ \E v \in Prims \cup {Raw("inner")} : AssignRef(v)

Spec == Init /\ [][Next]_vars

--------------------------------------------------------------------------------
(* Properties. *)

\* What there is to see in the raw data, without any proxy.
Shown(v) ==
  LET inside == IF IsRef(v) THEN data["ref"][RefValue] ELSE v IN
  CASE shallow -> v
    [] ~shallow /\ inside[1] \in {"prim", "undefined"} -> inside
    [] OTHER -> << "inner", data["inner"][X] >>
Now ==
  LET op == Operation(data["target"], length) IN
  << op.out, [k \in DOMAIN op.raw |-> Shown(op.raw[k])] >>

\* No update is missed: whatever was written, and through whichever key or
\* object, an effect that reads through a reactive proxy, or through a readonly
\* proxy of one, has seen what is there now.  Known exceptions of this version:
\* the enumeration of an Array (its ownKeys are not told of new items), and a
\* readonly proxy that was made of the raw object before (it is the one that is
\* kept).  A collection behind a readonly proxy is not tracked at all (track and
\* trigger, effect.ts:150-309).
Fresh ==
  /\ view = "reactive" \/ (view = "over" /\ ~IsCollection /\ locked # "raw")
  /\ ~(kind = "Array" /\ read[1] = "keys")
  => seen = Now

\* Whatever is reached through a readonly proxy is readonly too.  Known
\* exceptions of this version: a ref in an Array, and what the ref of an Object
\* that is not reactive holds (createGetter, baseHandlers.ts:101-104).
ReadonlyIsDeep ==
  view # "reactive" => \A g \in got : g[1][1] \in {"raw", "reactive"} => g[2]

\* Writing through a proxy that is not shallow never stores a proxy in the raw
\* object, neither as a value nor as a key (toRaw in set and add).
Proxied(d) == {k \in DOMAIN d : k[1] = "reactive"} \cup {k \in DOMAIN d : d[k][1] = "reactive"}
NoProxyStored == [][~shallow => Proxied(data'["target"]) \subseteq Proxied(data["target"])]_vars
================================================================================
