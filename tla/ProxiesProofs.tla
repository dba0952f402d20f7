----------------------------- MODULE ProxiesProofs -----------------------------
(***************************************************************************)
(* Proofs about Proxies: what holds of arrays of any length, and of every   *)
(* kind of target, view and read.                                           *)
(*                                                                         *)
(* That no reader misses a change is an argument by the read and the write: *)
(* what the effect depends on covers what it has seen (Tracked), so that a  *)
(* write that does not trigger it changes nothing of that.                  *)
(***************************************************************************)
EXTENDS Proxies, TLAPS

--------------------------------------------------------------------------------
(* The inductive invariant. *)

\* What an object of the kind holds: its items, and the keys it may have.
Items == IF IsCollection THEN Values ELSE Values \cup {Raw("ref")}
ContentTyped(d, len) ==
  /\ DOMAIN d = {"target", "inner", "ref"}
  /\ DOMAIN d["target"] \subseteq Keys
  /\ \A k \in DOMAIN d["target"] : d["target"][k] \in Items
  /\ kind = "Array" => \A k \in DOMAIN d["target"] : k[2] < len
  /\ DOMAIN d["inner"] = {X} /\ d["inner"][X] \in Prims
  /\ DOMAIN d["ref"] = {RefValue} /\ d["ref"][RefValue] \in Prims \cup {Raw("inner")}
  /\ len \in 0..MaxLength

Typed ==
  /\ kind \in {"Object", "Array", "Map", "Set"} /\ view \in {"reactive", "readonly", "over"}
  /\ read \in ReadsOf(kind)
  /\ shallow \in BOOLEAN /\ (shallow => view = "reactive")
  /\ locked \in {"none", "raw", "over"}
  /\ ContentTyped(data, length)

\* The reads of which no change is missed.
Covered ==
  /\ view = "reactive" \/ (view = "over" /\ ~IsCollection /\ locked # "raw")
  /\ ~(kind = "Array" /\ read[1] = "keys")

\* What looking into a value shows and depends on, as Shown of data d.
Inside(d, v) == IF IsRef(v) THEN d["ref"][RefValue] ELSE v
ShownIn(d, v) ==
  CASE shallow -> v
    [] ~shallow /\ Inside(d, v)[1] \in {"prim", "undefined"} -> Inside(d, v)
    [] OTHER -> << "inner", d["inner"][X] >>
Needs(d, v) ==
  IF shallow THEN {}
  ELSE (IF IsRef(v) THEN {<< "ref", RefValue >>} ELSE {})
       \cup (IF Inside(d, v)[1] \in {"prim", "undefined"} THEN {} ELSE {<< "inner", X >>})

\* What the effect sees of data d, and what it depends on then.
Sees(d, op) == << op.out, [k \in DOMAIN op.raw |-> ShownIn(d, op.raw[k])] >>
Depends(d, op) ==
  {<< "target", k >> : k \in op.track} \cup UNION {Needs(d, op.raw[k]) : k \in DOMAIN op.raw}

Tracked ==
  Covered =>
    /\ seen = Sees(data, Operation(data["target"], length))
    /\ Depends(data, Operation(data["target"], length)) \subseteq deps
    /\ kind = "Array" => << "target", Iterate >> \notin deps

\* What a readonly proxy hands out is readonly, in every run.
Protected(r) == view # "reactive" => \A g \in r : g[1][1] \in {"raw", "reactive"} => g[2]

IInv == Typed /\ Tracked /\ Protected(got)

--------------------------------------------------------------------------------
(* Values. *)

Anything == Values \cup {Raw("ref"), Undefined}

LEMMA Forms ==
  ASSUME NEW v \in Anything
  PROVE  \/ v \in {<< "prim", 1 >>, << "prim", 2 >>} /\ v[1] = "prim" /\ ToRaw(v) = v
         \/ v = Undefined /\ v[1] = "undefined" /\ ToRaw(v) = v
         \/ v = Raw("inner") /\ v[1] = "raw" /\ v[2] = "inner" /\ ToRaw(v) = v
         \/ v = Raw("ref") /\ v[1] = "raw" /\ v[2] = "ref" /\ ToRaw(v) = v
         \/ v = << "reactive", "inner" >> /\ v[1] = "reactive" /\ v[2] = "inner" /\ ToRaw(v) = Raw("inner")
<1>1. CASE v \in Prims
  BY <1>1 DEF Prims, ToRaw
<1>2. CASE v \notin Prims
  BY <1>2 DEF Anything, Values, Undefined, Raw, ToRaw
<1> QED
  BY <1>1, <1>2

LEMMA NeverReactive == ASSUME NEW v PROVE ToRaw(v)[1] # "reactive"
BY DEF ToRaw, Raw

LEMMA NeverOpen == ASSUME NEW v PROVE AsReadonly(v)[1] \notin {"raw", "reactive"}
BY DEF AsReadonly

LEMMA RawItems ==
  ASSUME NEW v \in Values \cup {Raw("ref")}
  PROVE  ToRaw(v) \in Prims \cup {Raw("inner"), Raw("ref")} /\ (v \in Values => ToRaw(v) \in Values)
BY DEF ToRaw, Raw, Values, Prims

\* What kinds of reads there are.
LEMMA Reads ==
  ASSUME Typed
  PROVE  /\ read[1] \in {"get", "has", "includes", "length", "size", "keys", "forEach"}
         /\ read[1] \in {"get", "has"} => Len(read) = 2 /\ read[2] \in Keys
         /\ read[1] = "get" => kind # "Set"
         /\ read[1] \in {"includes", "length"} => kind = "Array"
         /\ read[1] = "size" => IsCollection
         /\ read[1] = "keys" => kind # "Set"
         /\ read[1] = "forEach" => kind # "Object"
<1>1. CASE kind = "Object"
  BY <1>1 DEF Typed, ReadsOf, Keys, IsCollection
<1>2. CASE kind = "Array"
  BY <1>2 DEF Typed, ReadsOf, Keys, IsCollection
<1>3. CASE kind = "Map"
  BY <1>3 DEF Typed, ReadsOf, Keys, IsCollection
<1>4. CASE kind = "Set"
  BY <1>4 DEF Typed, ReadsOf, Keys, IsCollection
<1> QED
  BY <1>1, <1>2, <1>3, <1>4 DEF Typed

\* What they return and track.
Some(raw, track) == [raw |-> raw, out |-> Undefined, track |-> track]
Fact(out, track) == [raw |-> << >>, out |-> out, track |-> track]
KeysRead == IF IsCollection THEN Both(read[2]) ELSE {read[2]}
AllIndices(len) == {Index(i) : i \in 0..(len - 1)}

LEMMA Operations ==
  ASSUME Typed, Covered, NEW d, NEW len
  PROVE  /\ read[1] = "get" => Operation(d, len) = Some(<< Entry(d, read[2]) >>, KeysRead)
         /\ read[1] = "has" => Operation(d, len) = Fact(Found(d, read[2]), KeysRead)
         /\ read[1] = "includes" =>
              Operation(d, len) = Fact(\E k \in DOMAIN d : d[k] \in {read[2], ToRaw(read[2])},
                                       AllIndices(len) \cup {Length})
         /\ read[1] = "length" => Operation(d, len) = Fact(len, {Length})
         /\ read[1] = "size" => Operation(d, len) = Fact(Cardinality(DOMAIN d), {Iterate})
         /\ read[1] = "keys" => Operation(d, len) = Fact(DOMAIN d, {IF kind = "Map" THEN KeyIterate ELSE Iterate})
         /\ read[1] = "forEach" /\ kind = "Array" =>
              Operation(d, len) = Some([i \in 1..len |-> Value(d, Index(i - 1))],
                                       {Length} \cup AllIndices(len))
         /\ read[1] = "forEach" /\ kind # "Array" =>
              Operation(d, len) =
                Some([p \in (DOMAIN d) \X {"key", "value"} |-> IF p[2] = "key" THEN p[1] ELSE d[p[1]]],
                     {Iterate})
<1>1. view # "readonly"
  BY DEF Covered
<1>2. read[1] \in {"get", "has"} => Len(read) = 2
  BY Reads
<1>3. CASE read[1] = "get"
  BY <1>2, <1>3 DEF Operation, Some, KeysRead
<1>4. CASE read[1] = "has"
  BY <1>2, <1>4 DEF Operation, Fact, KeysRead
<1>5. CASE read[1] = "includes"
  BY <1>1, <1>5 DEF Operation, Fact, AllIndices
<1>6. CASE read[1] = "length"
  BY <1>6 DEF Operation, Fact
<1>7. CASE read[1] = "size"
  BY <1>7 DEF Operation, Fact
<1>8. CASE read[1] = "keys"
  BY <1>8 DEF Operation, Fact
<1>9. CASE read[1] = "forEach" /\ kind = "Array"
  BY <1>9 DEF Operation, Some, AllIndices
<1>10. CASE read[1] = "forEach" /\ kind # "Array"
  BY <1>10 DEF Operation, Some
<1> QED
  BY <1>3, <1>4, <1>5, <1>6, <1>7, <1>8, <1>9, <1>10, Reads

\* The values a read returns, before they are wrapped.
LEMMA Returned ==
  ASSUME Typed, Covered, NEW d, NEW len, ContentTyped(d, len),
         NEW k \in DOMAIN Operation(d["target"], len).raw
  PROVE  Operation(d["target"], len).raw[k] \in Items \cup {Undefined}
<1> DEFINE t == d["target"]
           op == Operation(t, len)
<1>1. /\ DOMAIN t \subseteq Keys /\ \A j \in DOMAIN t : t[j] \in Items
      /\ len \in Nat
  BY ProxiesAssumption DEF ContentTyped
<1>2. \A j : Value(t, j) \in Items \cup {Undefined}
  BY <1>1 DEF Value
<1>3. CASE read[1] = "get"
  <2>1. op = Some(<< Entry(t, read[2]) >>, KeysRead)
    BY <1>3, Operations
  <2>2. Entry(t, read[2]) \in Items \cup {Undefined}
    BY <1>2 DEF Entry
  <2>3. op.raw = << Entry(t, read[2]) >> /\ k = 1
    BY <2>1 DEF Some
  <2> QED
    BY <2>2, <2>3
<1>4. CASE read[1] \in {"has", "includes", "length", "size", "keys"}
  <2>1. /\ read[1] = "has" => op = Fact(Found(t, read[2]), KeysRead)
        /\ read[1] = "includes" =>
             op = Fact(\E j \in DOMAIN t : t[j] \in {read[2], ToRaw(read[2])}, AllIndices(len) \cup {Length})
        /\ read[1] = "length" => op = Fact(len, {Length})
        /\ read[1] = "size" => op = Fact(Cardinality(DOMAIN t), {Iterate})
        /\ read[1] = "keys" => op = Fact(DOMAIN t, {IF kind = "Map" THEN KeyIterate ELSE Iterate})
    BY Operations
  <2>2. op.raw = << >>
    BY <1>4, <2>1 DEF Fact
  <2> QED
    BY <2>2
<1>5. CASE read[1] = "forEach" /\ kind = "Array"
  <2>1. op = Some([i \in 1..len |-> Value(t, Index(i - 1))], {Length} \cup AllIndices(len))
    BY <1>5, Operations
  <2>2. op.raw = [i \in 1..len |-> Value(t, Index(i - 1))]
    BY <2>1 DEF Some
  <2> QED
    BY <1>2, <2>2
<1>6. CASE read[1] = "forEach" /\ kind # "Array"
  <2>0. op = Some([p \in (DOMAIN t) \X {"key", "value"} |-> IF p[2] = "key" THEN p[1] ELSE t[p[1]]],
                  {Iterate})
    BY <1>6, Operations
  <2>1. op.raw = [p \in (DOMAIN t) \X {"key", "value"} |-> IF p[2] = "key" THEN p[1] ELSE t[p[1]]]
    BY <2>0 DEF Some
  <2>2. kind \in {"Map", "Set"}
    BY <1>6, Reads DEF Typed
  <2>3. Keys \subseteq Items
    BY <2>2 DEF Keys, KeysOf, Items, Values, Prims
  <2> QED
    BY <1>1, <2>1, <2>3
<1> QED
  BY <1>3, <1>4, <1>5, <1>6, Reads

--------------------------------------------------------------------------------
(* A run of the effect. *)

\* Looking into a value through the view shows what is there, and depends on it.
LEMMA Looking ==
  ASSUME Typed, Covered, ~shallow, NEW d, NEW len, ContentTyped(d, len),
         NEW v \in Items \cup {Undefined}, NEW lock,
         view = "over" /\ ~(kind = "Array" /\ IsRef(v)) /\ ToRaw(Inside(d, v)) = Raw("inner")
           => lock = "over"
  PROVE  /\ Peek(d, lock, Wrapped(d, v)).out = ShownIn(d, v)
         /\ Peek(d, lock, Wrapped(d, v)).track \cup (IF Unwraps(v) THEN {<< "ref", RefValue >>} ELSE {})
              = Needs(d, v)
<1> DEFINE held == d["ref"][RefValue]
           w == Wrapped(d, v)
<1>1. /\ held \in Prims \cup {Raw("inner")} /\ kind \in {"Object", "Array", "Map", "Set"}
      /\ shallow = FALSE
  BY DEF ContentTyped, Typed
<1>2. view \in {"reactive", "over"} /\ (IsCollection => view = "reactive")
  BY DEF Covered
<1>3. CASE v = Raw("ref")
  <2>1. IsRef(v) /\ ~IsCollection /\ Inside(d, v) = held
    BY <1>3 DEF IsRef, Items, Inside, Values, Prims, Raw, Undefined
  <2>2. CASE kind = "Object"
    <3>1. Unwraps(v)
      BY <2>1, <2>2 DEF Unwraps
    <3>2. w = IF view = "over" THEN AsReadonly(AsReactive(held)) ELSE AsReactive(held)
      BY <1>1, <3>1 DEF Wrapped
    <3>3. CASE held \in Prims
      <4>1. held[1] = "prim" /\ w = held
        BY <3>2, <3>3 DEF Prims, AsReadonly, AsReactive
      <4> QED
        BY <1>1, <2>1, <3>1, <4>1 DEF Peek, ShownIn, Needs, Raw
    <3>4. CASE held = Raw("inner")
      <4>1. ToRaw(held) = Raw("inner") /\ held[1] = "raw"
        BY <3>4 DEF ToRaw, Raw
      <4>2. w = IF view = "over" THEN << "readonly", "inner" >> ELSE << "reactive", "inner" >>
        BY <3>2, <3>4 DEF AsReadonly, AsReactive, Raw
      <4>3. w[1] = "reactive" \/ (w[1] = "readonly" /\ lock = "over")
        BY <1>2, <2>1, <2>2, <4>1, <4>2
      <4>4. Peek(d, lock, w) = [out |-> << "inner", d["inner"][X] >>, track |-> {<< "inner", X >>}]
        BY <4>2, <4>3 DEF Peek, Raw
      <4> QED
        BY <2>1, <3>1, <4>1, <4>4 DEF ShownIn, Needs
    <3> QED
      BY <1>1, <3>3, <3>4
  <2>3. CASE kind = "Array"
    <3>1. ~Unwraps(v) /\ w = v
      BY <1>1, <2>1, <2>3 DEF Unwraps, Wrapped
    <3>2. w[1] = "raw"
      BY <1>3, <3>1 DEF Raw
    <3>3. CASE held \in Prims
      <4>1. held[1] = "prim" /\ AsReactive(held) = held
        BY <3>3 DEF Prims, AsReactive
      <4>2. Peek(d, lock, w) = [out |-> held, track |-> {<< "ref", RefValue >>} \cup {}]
        BY <1>3, <3>1, <3>2, <4>1 DEF Peek
      <4> QED
        BY <2>1, <3>1, <4>1, <4>2 DEF ShownIn, Needs
    <3>4. CASE held = Raw("inner")
      <4>1. held[1] = "raw" /\ AsReactive(held)[1] = "reactive"
        BY <3>4 DEF Raw, AsReactive
      <4>2. Peek(d, lock, w) = [out |-> << "inner", d["inner"][X] >>,
                                track |-> {<< "ref", RefValue >>} \cup {<< "inner", X >>}]
        BY <1>3, <3>1, <3>2, <4>1 DEF Peek
      <4> QED
        BY <2>1, <3>1, <4>1, <4>2 DEF ShownIn, Needs
    <3> QED
      BY <1>1, <3>3, <3>4
  <2> QED
    BY <1>1, <2>1, <2>2, <2>3 DEF IsCollection
<1>4. CASE v # Raw("ref")
  <2>1. ~IsRef(v) /\ Inside(d, v) = v /\ ~Unwraps(v)
    BY <1>4 DEF IsRef, Inside, Unwraps
  <2>2. w = IF view = "reactive" THEN AsReactive(v) ELSE AsReadonly(v)
    BY <1>2, <2>1 DEF Wrapped
  <2>3. v \in Anything
    BY DEF Items, Anything
  <2>4. CASE v[1] \in {"prim", "undefined"}
    <3>1. w = v
      BY <2>2, <2>4 DEF AsReactive, AsReadonly
    <3> QED
      BY <1>1, <2>1, <2>4, <3>1 DEF Peek, ShownIn, Needs, Raw
  <2>5. CASE v \in {Raw("inner"), << "reactive", "inner" >>}
    <3>1. ToRaw(v) = Raw("inner") /\ v[1] \notin {"prim", "undefined"}
      BY <2>5 DEF ToRaw, Raw
    <3>2. w = IF view = "reactive" THEN << "reactive", "inner" >> ELSE << "readonly", "inner" >>
      BY <2>2, <2>5 DEF AsReactive, AsReadonly, Raw
    <3>3. w[1] = "reactive" \/ (w[1] = "readonly" /\ lock = "over")
      BY <1>2, <2>1, <3>1, <3>2
    <3>4. Peek(d, lock, w) = [out |-> << "inner", d["inner"][X] >>, track |-> {<< "inner", X >>}]
      BY <3>2, <3>3 DEF Peek, Raw
    <3> QED
      BY <2>1, <3>1, <3>4 DEF ShownIn, Needs
  <2> QED
    BY <1>4, <2>3, <2>4, <2>5, Forms
<1> QED
  BY <1>3, <1>4

\* What a run does to the readonly proxy of inner.
LEMMA LockKept ==
  ASSUME Typed, NEW d, NEW v
  PROVE  /\ LockedAfter(d, v) \in {"none", "raw", "over"}
         /\ locked # "none" => LockedAfter(d, v) = locked
         /\ view = "over" /\ ~IsCollection => LockedAfter(d, v) \in {locked, "over"}
BY DEF Typed, LockedAfter

LEMMA LockOver ==
  ASSUME Typed, view = "over", ~IsCollection, locked = "none", NEW d, NEW len, ContentTyped(d, len),
         NEW v \in Items \cup {Undefined}, ~(kind = "Array" /\ IsRef(v)),
         ToRaw(Inside(d, v)) = Raw("inner")
  PROVE  LockedAfter(d, v) = "over"
<1> DEFINE held == d["ref"][RefValue]
<1>1. shallow = FALSE /\ held \in Prims \cup {Raw("inner")} /\ kind \in {"Object", "Array"}
  BY DEF Typed, ContentTyped, IsCollection
<1>2. CASE IsRef(v)
  <2>1. Unwraps(v) /\ Inside(d, v) = held
    BY <1>1, <1>2 DEF Unwraps, Inside
  <2>2. held = Raw("inner")
    BY <1>1, <2>1 DEF ToRaw, Prims, Raw
  <2>3. Wrapped(d, v) = AsReadonly(AsReactive(held))
    BY <1>1, <2>1 DEF Wrapped, Unwraps
  <2>4. Wrapped(d, v) = << "readonly", "inner" >>
    BY <2>2, <2>3 DEF AsReadonly, AsReactive, Raw
  <2>5. ToRaw(ToRaw(held)) = Raw("inner")
    BY <2>2 DEF ToRaw, Raw
  <2> QED
    BY <2>1, <2>4, <2>5 DEF LockedAfter
<1>3. CASE ~IsRef(v)
  <2>1. ~Unwraps(v) /\ Inside(d, v) = v
    BY <1>3 DEF Unwraps, Inside
  <2>2. v \in {Raw("inner"), << "reactive", "inner" >>}
    <3>1. v \in Anything /\ ToRaw(v) = Raw("inner")
      BY <2>1 DEF Items, Anything
    <3> QED
      BY <3>1, Forms DEF Raw, Undefined
  <2>3. Wrapped(d, v) = AsReadonly(v)
    BY <1>1, <1>3, <2>1 DEF Wrapped
  <2>4. Wrapped(d, v) = << "readonly", "inner" >>
    BY <2>2, <2>3 DEF AsReadonly, Raw
  <2> QED
    BY <2>1, <2>4 DEF LockedAfter
<1> QED
  BY <1>2, <1>3

LEMMA RunCovers ==
  ASSUME Typed, Covered, NEW d, NEW len, ContentTyped(d, len)
  PROVE  /\ Run(d, len).seen = Sees(d, Operation(d["target"], len))
         /\ Depends(d, Operation(d["target"], len)) \subseteq Run(d, len).deps
         /\ kind = "Array" => << "target", Iterate >> \notin Run(d, len).deps
<1> DEFINE op == Operation(d["target"], len)
           raw == {op.raw[k] : k \in DOMAIN op.raw}
           lock == IF \E v \in raw : LockedAfter(d, v) # locked
                   THEN LockedAfter(d, CHOOSE v \in raw : LockedAfter(d, v) # locked) ELSE locked
           deep(v) == IF shallow THEN [out |-> v, track |-> {}] ELSE Peek(d, lock, Wrapped(d, v))
           unwrapped == IF \E v \in raw : Unwraps(v) THEN {<< "ref", RefValue >>} ELSE {}
<1>1. \A v \in raw : v \in Items \cup {Undefined}
  BY Returned
<1>2. Tracks
  BY DEF Tracks, Covered
<1>3. /\ Run(d, len).deps = {<< "target", k >> : k \in op.track}
                            \cup unwrapped \cup UNION {deep(v).track : v \in raw}
      /\ Run(d, len).seen = << op.out, [k \in DOMAIN op.raw |-> deep(op.raw[k]).out] >>
  BY <1>2 DEF Run
<1>4. ASSUME NEW v \in raw, view = "over", ~(kind = "Array" /\ IsRef(v)),
             ToRaw(Inside(d, v)) = Raw("inner")
      PROVE  lock = "over"
  <2>1. ~IsCollection /\ locked \in {"none", "over"}
    BY <1>4 DEF Covered, Typed
  <2>2. locked = "none" => LockedAfter(d, v) = "over"
    BY <1>1, <1>4, <2>1, LockOver
  <2>3. \A w : LockedAfter(d, w) \in {locked, "over"}
    BY <1>4, <2>1, LockKept
  <2>4. locked = "over" => lock = "over"
    BY <2>3
  <2>5. locked = "none" => lock = "over"
    BY <2>2, <2>3
  <2> QED
    BY <2>1, <2>4, <2>5
<1>5. ASSUME NEW v \in raw
      PROVE  /\ deep(v).out = ShownIn(d, v)
             /\ Needs(d, v) \subseteq deep(v).track \cup unwrapped
             /\ deep(v).track \subseteq {<< "ref", RefValue >>, << "inner", X >>}
  <2>1. CASE shallow
    BY <2>1 DEF ShownIn, Needs
  <2>2. CASE ~shallow
    <3>1. v \in Items \cup {Undefined}
      BY <1>1, <1>5
    <3>2. view = "over" /\ ~(kind = "Array" /\ IsRef(v)) /\ ToRaw(Inside(d, v)) = Raw("inner")
            => lock = "over"
      BY <1>4, <1>5
    <3> HIDE DEF lock
    <3>3. /\ Peek(d, lock, Wrapped(d, v)).out = ShownIn(d, v)
          /\ Peek(d, lock, Wrapped(d, v)).track
               \cup (IF Unwraps(v) THEN {<< "ref", RefValue >>} ELSE {}) = Needs(d, v)
      BY <2>2, <3>1, <3>2, Looking
    <3>4. Needs(d, v) \subseteq {<< "ref", RefValue >>, << "inner", X >>}
      BY DEF Needs
    <3>5. deep(v) = Peek(d, lock, Wrapped(d, v))
      BY <2>2
    <3>6. Unwraps(v) => unwrapped = {<< "ref", RefValue >>}
      BY <1>5
    <3> HIDE DEF deep, unwrapped, raw
    <3> QED
      BY <3>3, <3>4, <3>5, <3>6
  <2> QED
    BY <2>1, <2>2
<1>6. Run(d, len).seen = Sees(d, op)
  BY <1>3, <1>5, SMTT(40) DEF Sees
<1>7. Depends(d, op) \subseteq Run(d, len).deps
  <2> SUFFICES ASSUME NEW x \in Depends(d, op) PROVE x \in Run(d, len).deps
    OBVIOUS
  <2>1. CASE x \in {<< "target", k >> : k \in op.track}
    BY <1>3, <2>1
  <2>2. CASE x \in UNION {Needs(d, op.raw[k]) : k \in DOMAIN op.raw}
    <3>1. PICK v \in raw : x \in Needs(d, v)
      BY <2>2
    <3>2. x \in deep(v).track \/ x \in unwrapped
      BY <1>5, <3>1
    <3> HIDE DEF op, raw, deep, unwrapped
    <3> QED
      BY <1>3, <3>2
  <2> QED
    BY <2>1, <2>2 DEF Depends
<1>8. ASSUME kind = "Array" PROVE << "target", Iterate >> \notin Run(d, len).deps
  <2>1. Iterate \notin op.track
    <3>1. read[1] # "keys" /\ ~IsCollection
      BY <1>8 DEF Covered, IsCollection
    <3>2. \A i : Index(i) # Iterate
      BY DEF Index, Iterate
    <3>3. Iterate \notin Keys /\ Length # Iterate
      BY <1>8, <3>2 DEF Keys, KeysOf, Length, Iterate
    <3>4. read[1] \in {"get", "has"} => op.track = {read[2]} /\ read[2] \in Keys
      <4>1. read[1] \in {"get", "has"} => \E y : op = Some(y, KeysRead) \/ op = Fact(y, KeysRead)
        <5>1. /\ read[1] = "get" => op = Some(<< Entry(d["target"], read[2]) >>, KeysRead)
              /\ read[1] = "has" => op = Fact(Found(d["target"], read[2]), KeysRead)
          BY Operations
        <5> HIDE DEF op
        <5> QED
          BY <5>1
      <4> HIDE DEF op
      <4>2. read[1] \in {"get", "has"} => op.track = KeysRead /\ read[2] \in Keys
        BY <4>1, Reads DEF Some, Fact
      <4> QED
        BY <3>1, <4>2 DEF KeysRead
    <3>5. read[1] \in {"includes", "forEach"} => op.track = AllIndices(len) \cup {Length}
      BY <1>8, <3>1, Operations DEF Some, Fact
    <3>6. read[1] = "length" => op.track = {Length}
      BY Operations DEF Fact
    <3> QED
      BY <3>1, <3>2, <3>3, <3>4, <3>5, <3>6, Reads DEF AllIndices
  <2>2. << "target", Iterate >> \notin unwrapped
    OBVIOUS
  <2>3. \A v \in raw : << "target", Iterate >> \notin deep(v).track
    BY <1>5
  <2> QED
    BY <1>3, <2>1, <2>2, <2>3
<1> QED
  BY <1>6, <1>7, <1>8

\* Whatever a run is handed by a readonly proxy is readonly, but refs.
LEMMA RunProtects ==
  ASSUME Typed, NEW d, NEW len
  PROVE  Protected(Run(d, len).got)
<1> SUFFICES ASSUME view # "reactive", NEW g \in Run(d, len).got, g[1][1] \in {"raw", "reactive"}
             PROVE  g[2]
  BY DEF Protected
<1>1. shallow = FALSE
  BY DEF Typed
<1>2. PICK v : g = << Wrapped(d, v), IsRef(v) /\ (kind = "Array" \/ view = "readonly") >>
  BY DEF Run
<1>3. CASE kind = "Array" /\ IsRef(v)
  BY <1>2, <1>3
<1>4. CASE Unwraps(v)
  <2>1. CASE view = "over"
    <3>1. Wrapped(d, v) = AsReadonly(AsReactive(d["ref"][RefValue]))
      BY <1>1, <1>4, <2>1 DEF Wrapped, Unwraps
    <3> QED
      BY <1>2, <3>1, NeverOpen
  <2>2. CASE view # "over"
    BY <1>2, <1>4, <2>2 DEF Typed, Unwraps
  <2> QED
    BY <2>1, <2>2
<1>5. CASE ~(kind = "Array" /\ IsRef(v)) /\ ~Unwraps(v)
  <2>1. Wrapped(d, v) = AsReadonly(v)
    BY <1>1, <1>5 DEF Wrapped
  <2> QED
    BY <1>2, <2>1, NeverOpen
<1> QED
  BY <1>3, <1>4, <1>5

LEMMA RunLocks ==
  ASSUME Typed, NEW d, NEW len
  PROVE  /\ Run(d, len).locked \in {"none", "raw", "over"}
         /\ locked # "none" => Run(d, len).locked = locked
<1> DEFINE op == Operation(d["target"], len)
           raw == {op.raw[k] : k \in DOMAIN op.raw}
           odd == CHOOSE v \in raw : LockedAfter(d, v) # locked
<1>1. Run(d, len).locked = IF \E v \in raw : LockedAfter(d, v) # locked
                           THEN LockedAfter(d, odd) ELSE locked
  BY DEF Run
<1>2. \A v : /\ LockedAfter(d, v) \in {"none", "raw", "over"}
             /\ locked # "none" => LockedAfter(d, v) = locked
  BY LockKept
<1>3. locked \in {"none", "raw", "over"}
  BY DEF Typed
<1> HIDE DEF raw, odd
<1> QED
  BY <1>1, <1>2, <1>3

--------------------------------------------------------------------------------
(* Change. *)

\* What the effect sees and depends on, in the next state.
LEMMA SeenNext ==
  ASSUME UNCHANGED fixed, NEW d, NEW len, data' = d, length' = len
  PROVE  /\ Sees(data, Operation(data["target"], length))' = Sees(d, Operation(d["target"], len))
         /\ Depends(data, Operation(data["target"], length))' = Depends(d, Operation(d["target"], len))
<1>1. kind' = kind /\ shallow' = shallow /\ view' = view /\ read' = read
  BY DEF fixed
<1>2. Operation(data["target"], length)' = Operation(d["target"], len)
  BY <1>1 DEF Operation, IsCollection, Entry, Found
<1>3. \A v : ShownIn(data, v)' = ShownIn(d, v) /\ Needs(data, v)' = Needs(d, v)
  BY <1>1 DEF ShownIn, Needs, Inside
<1> QED
  BY <1>2, <1>3 DEF Sees, Depends

\* A change keeps the invariant, if it shows and asks nothing new when it does not
\* reach the effect.
LEMMA ChangeKeeps ==
  ASSUME IInv, NEW d, NEW len, NEW hit \in BOOLEAN, ContentTyped(d, len), Change(d, len, hit),
         Covered /\ ~hit =>
           /\ Sees(d, Operation(d["target"], len)) = Sees(data, Operation(data["target"], length))
           /\ Depends(d, Operation(d["target"], len)) \subseteq
                Depends(data, Operation(data["target"], length))
  PROVE  IInv'
<1>1. /\ data' = d /\ length' = len /\ UNCHANGED fixed
      /\ kind' = kind /\ shallow' = shallow /\ view' = view /\ read' = read
      /\ hit => /\ deps' = Run(d, len).deps /\ seen' = Run(d, len).seen
                /\ got' = Run(d, len).got /\ locked' = Run(d, len).locked
      /\ ~hit => UNCHANGED << deps, seen, got, locked >>
  BY DEF Change, fixed
<1>2. locked' \in {"none", "raw", "over"} /\ (locked # "none" => locked' = locked)
  BY <1>1, RunLocks DEF IInv, Typed
<1>3. Typed'
  <2>1. ContentTyped(data, length)'
    BY <1>1 DEF ContentTyped, Items, IsCollection, Keys
  <2> QED
    BY <1>1, <1>2, <2>1 DEF IInv, Typed
<1>4. Covered' => Covered
  BY <1>1, <1>2 DEF Covered, IsCollection
<1>5. /\ Sees(data, Operation(data["target"], length))' = Sees(d, Operation(d["target"], len))
      /\ Depends(data, Operation(data["target"], length))' = Depends(d, Operation(d["target"], len))
  BY <1>1, SeenNext
<1>6. Tracked'
  <2> SUFFICES ASSUME Covered'
               PROVE  /\ seen' = Sees(d, Operation(d["target"], len))
                      /\ Depends(d, Operation(d["target"], len)) \subseteq deps'
                      /\ kind = "Array" => << "target", Iterate >> \notin deps'
    BY <1>1, <1>5 DEF Tracked
  <2>1. CASE hit
    BY <1>1, <1>4, <2>1, RunCovers DEF IInv
  <2>2. CASE ~hit
    BY <1>1, <1>4, <2>2 DEF IInv, Tracked
  <2> QED
    BY <2>1, <2>2
<1>7. Protected(got)'
  <2>1. CASE hit
    BY <1>1, <2>1, RunProtects DEF IInv, Protected
  <2>2. CASE ~hit
    BY <1>1, <2>2 DEF IInv, Protected
  <2> QED
    BY <2>1, <2>2
<1> QED
  BY <1>3, <1>6, <1>7 DEF IInv

\* The same read of a target that differs elsewhere only.
LEMMA SameRead ==
  ASSUME NEW d, NEW len,
         Operation(d["target"], len) = Operation(data["target"], length),
         d["inner"] = data["inner"], d["ref"] = data["ref"]
  PROVE  /\ Sees(d, Operation(d["target"], len)) = Sees(data, Operation(data["target"], length))
         /\ Depends(d, Operation(d["target"], len)) = Depends(data, Operation(data["target"], length))
<1>1. \A v : ShownIn(d, v) = ShownIn(data, v) /\ Needs(d, v) = Needs(data, v)
  BY DEF ShownIn, Needs, Inside
<1> QED
  BY <1>1 DEF Sees, Depends

--------------------------------------------------------------------------------
(* Writes to the target that the effect is not told of. *)

\* The effect depends on what its read tracks.
LEMMA TrackedDeps ==
  ASSUME IInv, Covered, NEW k \in Operation(data["target"], length).track
  PROVE  << "target", k >> \in deps
BY DEF IInv, Tracked, Depends

\* What it depends on, by the kind of read.
LEMMA ReadDeps ==
  ASSUME IInv, Covered
  PROVE  /\ read[1] \in {"get", "has"} => \A k \in KeysRead : << "target", k >> \in deps
         /\ read[1] \in {"includes", "length"} \/ (read[1] = "forEach" /\ kind = "Array") =>
              << "target", Length >> \in deps
         /\ read[1] = "includes" \/ (read[1] = "forEach" /\ kind = "Array") =>
              \A i \in 0..(length - 1) : << "target", Index(i) >> \in deps
         /\ read[1] = "size" \/ (read[1] = "forEach" /\ kind # "Array") =>
              << "target", Iterate >> \in deps
         /\ read[1] = "keys" =>
              << "target", IF kind = "Map" THEN KeyIterate ELSE Iterate >> \in deps
<1> DEFINE t == data["target"]
           op == Operation(t, length)
<1>0. Typed
  BY DEF IInv
<1>1. \A k \in op.track : << "target", k >> \in deps
  BY TrackedDeps
<1>2. read[1] \in {"get", "has"} => op.track = KeysRead
  <2>1. /\ read[1] = "get" => op = Some(<< Entry(t, read[2]) >>, KeysRead)
        /\ read[1] = "has" => op = Fact(Found(t, read[2]), KeysRead)
    BY <1>0, Operations
  <2> HIDE DEF op
  <2> QED
    BY <2>1 DEF Some, Fact
<1>3. read[1] = "includes" => op.track = AllIndices(length) \cup {Length}
  <2>1. read[1] = "includes" => op = Fact(\E k \in DOMAIN t : t[k] \in {read[2], ToRaw(read[2])},
                                          AllIndices(length) \cup {Length})
    BY <1>0, Operations
  <2> HIDE DEF op
  <2> QED
    BY <2>1 DEF Fact
<1>4. /\ read[1] = "length" => op.track = {Length}
      /\ read[1] = "size" => op.track = {Iterate}
      /\ read[1] = "keys" => op.track = {IF kind = "Map" THEN KeyIterate ELSE Iterate}
  <2>1. /\ read[1] = "length" => op = Fact(length, {Length})
        /\ read[1] = "size" => op = Fact(Cardinality(DOMAIN t), {Iterate})
        /\ read[1] = "keys" => op = Fact(DOMAIN t, {IF kind = "Map" THEN KeyIterate ELSE Iterate})
    BY <1>0, Operations
  <2> HIDE DEF op
  <2> QED
    BY <2>1 DEF Fact
<1>5. read[1] = "forEach" /\ kind = "Array" => op.track = {Length} \cup AllIndices(length)
  <2>1. read[1] = "forEach" /\ kind = "Array" =>
          op = Some([i \in 1..length |-> Value(t, Index(i - 1))], {Length} \cup AllIndices(length))
    BY <1>0, Operations
  <2> HIDE DEF op
  <2> QED
    BY <2>1 DEF Some
<1>6. read[1] = "forEach" /\ kind # "Array" => op.track = {Iterate}
  <2>1. read[1] = "forEach" /\ kind # "Array" =>
          op = Some([p \in (DOMAIN t) \X {"key", "value"} |-> IF p[2] = "key" THEN p[1] ELSE t[p[1]]],
                    {Iterate})
    BY <1>0, Operations
  <2> HIDE DEF op
  <2> QED
    BY <2>1 DEF Some
<1> HIDE DEF op
<1> QED
  BY <1>1, <1>2, <1>3, <1>4, <1>5, <1>6 DEF AllIndices

\* What it sees of two contents that differ where it does not look.
Alike(u, m) ==
  LET t == data["target"] IN
  /\ read[1] = "get" => Entry(u, read[2]) = Entry(t, read[2])
  /\ read[1] = "has" => (Found(u, read[2]) <=> Found(t, read[2]))
  /\ read[1] \in {"includes", "length"} \/ (read[1] = "forEach" /\ kind = "Array") => m = length
  /\ read[1] \in {"includes", "size", "keys", "forEach"} => DOMAIN u = DOMAIN t
  /\ read[1] \in {"includes", "forEach"} => \A k \in DOMAIN t : u[k] = t[k]

LEMMA AlikeReads ==
  ASSUME Typed, Covered, NEW u, NEW m, Alike(u, m)
  PROVE  Operation(u, m) = Operation(data["target"], length)
<1> DEFINE t == data["target"]
<1>1. CASE read[1] = "get"
  <2>1. Entry(u, read[2]) = Entry(t, read[2])
    BY <1>1 DEF Alike
  <2>2. /\ Operation(u, m) = Some(<< Entry(u, read[2]) >>, KeysRead)
        /\ Operation(t, length) = Some(<< Entry(t, read[2]) >>, KeysRead)
    BY <1>1, Operations
  <2> QED
    BY <2>1, <2>2
<1>2. CASE read[1] = "has"
  <2>1. Found(u, read[2]) = Found(t, read[2])
    BY <1>2 DEF Alike, Found
  <2> QED
    BY <1>2, <2>1, Operations
<1>3. CASE read[1] = "includes"
  <2> DEFINE some(f) == \E k \in DOMAIN f : f[k] \in {read[2], ToRaw(read[2])}
  <2>1. some(u) = some(t) /\ m = length
    BY <1>3 DEF Alike
  <2>2. /\ Operation(u, m) = Fact(some(u), AllIndices(m) \cup {Length})
        /\ Operation(t, length) = Fact(some(t), AllIndices(length) \cup {Length})
    BY <1>3, Operations
  <2> HIDE DEF some
  <2> QED
    BY <2>1, <2>2
<1>4. CASE read[1] \in {"length", "size", "keys"}
  <2>1. /\ read[1] = "length" => m = length
        /\ read[1] \in {"size", "keys"} => DOMAIN u = DOMAIN t
    BY DEF Alike
  <2>2. /\ read[1] = "length" => /\ Operation(u, m) = Fact(m, {Length})
                                 /\ Operation(t, length) = Fact(length, {Length})
        /\ read[1] = "size" => /\ Operation(u, m) = Fact(Cardinality(DOMAIN u), {Iterate})
                               /\ Operation(t, length) = Fact(Cardinality(DOMAIN t), {Iterate})
        /\ read[1] = "keys" =>
             /\ Operation(u, m) = Fact(DOMAIN u, {IF kind = "Map" THEN KeyIterate ELSE Iterate})
             /\ Operation(t, length) = Fact(DOMAIN t, {IF kind = "Map" THEN KeyIterate ELSE Iterate})
    BY Operations
  <2> QED
    BY <1>4, <2>1, <2>2
<1>5. CASE read[1] = "forEach" /\ kind = "Array"
  <2> DEFINE items(f, n) == [i \in 1..n |-> Value(f, Index(i - 1))]
  <2>1. items(u, m) = items(t, length) /\ m = length
    BY <1>5 DEF Alike, Value
  <2>2. /\ Operation(u, m) = Some(items(u, m), {Length} \cup AllIndices(m))
        /\ Operation(t, length) = Some(items(t, length), {Length} \cup AllIndices(length))
    BY <1>5, Operations
  <2> HIDE DEF items
  <2> QED
    BY <2>1, <2>2
<1>6. CASE read[1] = "forEach" /\ kind # "Array"
  <2> DEFINE items(f) == [p \in (DOMAIN f) \X {"key", "value"} |-> IF p[2] = "key" THEN p[1] ELSE f[p[1]]]
  <2>1. items(u) = items(t)
    BY <1>6 DEF Alike
  <2>2. Operation(u, m) = Some(items(u), {Iterate}) /\ Operation(t, length) = Some(items(t), {Iterate})
    BY <1>6, Operations
  <2> HIDE DEF items
  <2> QED
    BY <2>1, <2>2
<1> QED
  BY <1>1, <1>2, <1>3, <1>4, <1>5, <1>6, Reads

\* The same entries, and the same length of an array, look alike.
LEMMA SameContent ==
  ASSUME NEW u, NEW m, DOMAIN u = DOMAIN data["target"],
         \A k \in DOMAIN u : u[k] = data["target"][k], kind = "Array" => m = length, Typed
  PROVE  Alike(u, m)
<1>1. read[1] \in {"includes", "length"} => kind = "Array"
  BY Reads
<1> QED
  BY <1>1 DEF Alike, Entry, Found, Value

\* A key that is not among those read.
LEMMA OtherKey ==
  ASSUME Typed, read[1] \in {"get", "has"}, NEW u, NEW m, NEW k, k \notin KeysRead,
         \A j \in (DOMAIN u) \cup DOMAIN data["target"] : j # k =>
           (j \in DOMAIN u <=> j \in DOMAIN data["target"]) /\ u[j] = data["target"][j]
  PROVE  Alike(u, m)
<1> DEFINE t == data["target"]
<1>1. /\ read[2] \in KeysRead /\ (IsCollection => ToRaw(read[2]) \in KeysRead)
  BY DEF KeysRead, Both
<1>2. /\ read[2] \in DOMAIN u <=> read[2] \in DOMAIN t
      /\ read[2] \in DOMAIN u => u[read[2]] = t[read[2]]
  BY <1>1
<1>3. IsCollection =>
        /\ ToRaw(read[2]) \in DOMAIN u <=> ToRaw(read[2]) \in DOMAIN t
        /\ ToRaw(read[2]) \in DOMAIN u => u[ToRaw(read[2])] = t[ToRaw(read[2])]
  BY <1>1
<1>4. Entry(u, read[2]) = Entry(t, read[2]) /\ (Found(u, read[2]) <=> Found(t, read[2]))
  BY <1>2, <1>3 DEF Entry, Found, Value
<1> QED
  BY <1>4 DEF Alike

LEMMA ArrayKeys ==
  ASSUME Typed, kind = "Array", NEW k \in Keys
  PROVE  /\ k[2] \in 0..(MaxLength - 1) /\ k = Index(k[2])
         /\ k \in DOMAIN data["target"] => k[2] \in 0..(length - 1)
<1>1. PICK i \in 0..(MaxLength - 1) : k = Index(i)
  BY DEF Keys, KeysOf
<1>2. k[2] = i
  BY <1>1 DEF Index
<1>3. k \in DOMAIN data["target"] => k[2] < length
  BY DEF Typed, ContentTyped
<1>4. length \in Int /\ MaxLength \in Int
  BY ProxiesAssumption DEF Typed, ContentTyped
<1> QED
  BY <1>1, <1>2, <1>3, <1>4

\* Setting a key: see Put.
LEMMA PutUnseen ==
  ASSUME IInv, Covered, NEW k \in Keys, NEW v, NEW m,
         kind = "Array" => m = IF k[2] >= length THEN k[2] + 1 ELSE length,
         kind = "Set" => k \notin DOMAIN data["target"],
         ~(/\ k \notin DOMAIN data["target"] \/ v # Value(data["target"], k)
           /\ Triggered("target", IF k \in DOMAIN data["target"] THEN "set" ELSE "add", k))
  PROVE  Operation(With("target", k, v)["target"], m) = Operation(data["target"], length)
<1> DEFINE t == data["target"]
           u == With("target", k, v)["target"]
<1>0. Typed /\ kind \in {"Object", "Array", "Map", "Set"} /\ "target" \in DOMAIN data /\ length \in Int
  BY DEF IInv, Typed, ContentTyped
<1>1. DOMAIN u = (DOMAIN t) \cup {k} /\ \A j \in DOMAIN u : u[j] = IF j = k THEN v ELSE t[j]
  BY <1>0 DEF With
<1> HIDE DEF u
<1>2. k \in DOMAIN t /\ kind = "Array" => m = length
  BY <1>0, ArrayKeys
<1>3. CASE k \in DOMAIN t /\ v = t[k]
  <2>1. DOMAIN u = DOMAIN t /\ \A j \in DOMAIN u : u[j] = t[j]
    BY <1>1, <1>3
  <2>2. Alike(u, m)
    BY <1>0, <1>2, <1>3, <2>1, SameContent
  <2> QED
    BY <1>0, <2>2, AlikeReads DEF u
<1>4. CASE ~(k \in DOMAIN t /\ v = t[k])
  <2>1. /\ << "target", k >> \notin deps
        /\ k \notin DOMAIN t =>
             /\ << "target", IF kind = "Array" THEN Length ELSE Iterate >> \notin deps
             /\ kind = "Map" => << "target", KeyIterate >> \notin deps
        /\ kind = "Map" => << "target", Iterate >> \notin deps
    <3>1. ~Triggered("target", IF k \in DOMAIN t THEN "set" ELSE "add", k)
      BY <1>4 DEF Value
    <3> QED
      BY <3>1 DEF Triggered
  <2>2. CASE read[1] \in {"get", "has"}
    <3>1. k \notin KeysRead
      BY <2>1, <2>2, ReadDeps
    <3>2. \A j \in (DOMAIN u) \cup DOMAIN t : j # k => (j \in DOMAIN u <=> j \in DOMAIN t) /\ u[j] = t[j]
      BY <1>1
    <3>3. Alike(u, m)
      BY <1>0, <2>2, <3>1, <3>2, OtherKey
    <3> QED
      BY <1>0, <3>3, AlikeReads DEF u
  <2>3. ~(read[1] = "includes" \/ (read[1] = "forEach" /\ kind = "Array"))
    <3> SUFFICES ASSUME read[1] = "includes" \/ (read[1] = "forEach" /\ kind = "Array") PROVE FALSE
      OBVIOUS
    <3>1. kind = "Array"
      BY <1>0, Reads
    <3>2. << "target", Length >> \in deps /\ \A i \in 0..(length - 1) : << "target", Index(i) >> \in deps
      BY ReadDeps
    <3>3. k \in DOMAIN t
      BY <2>1, <3>1, <3>2
    <3> QED
      BY <1>0, <2>1, <3>1, <3>2, <3>3, ArrayKeys
  <2>4. CASE read[1] = "length"
    <3>1. kind = "Array" /\ << "target", Length >> \in deps
      BY <1>0, <2>4, Reads, ReadDeps
    <3>2. m = length
      BY <1>2, <2>1, <3>1
    <3> QED
      BY <1>0, <2>4, <3>2, AlikeReads DEF Alike, u
  <2>5. CASE read[1] \in {"size", "keys"}
    <3>1. k \in DOMAIN t
      <4>1. CASE read[1] = "size"
        BY <1>0, <2>1, <4>1, Reads, ReadDeps DEF IsCollection
      <4>2. CASE read[1] = "keys"
        BY <1>0, <2>1, <4>2, ReadDeps DEF Covered
      <4> QED
        BY <2>5, <4>1, <4>2
    <3>2. DOMAIN u = DOMAIN t
      BY <1>1, <3>1
    <3>3. Alike(u, m)
      BY <2>5, <3>2 DEF Alike
    <3> QED
      BY <1>0, <3>3, AlikeReads DEF u
  <2>6. ~(read[1] = "forEach" /\ kind # "Array")
    <3> SUFFICES ASSUME read[1] = "forEach" /\ kind # "Array" PROVE FALSE
      OBVIOUS
    <3>1. kind \in {"Map", "Set"} /\ << "target", Iterate >> \in deps
      BY <1>0, Reads, ReadDeps
    <3> QED
      BY <2>1, <3>1
  <2> QED
    BY <1>0, <2>2, <2>3, <2>4, <2>5, <2>6, Reads
<1> QED
  BY <1>3, <1>4

\* Deleting a key: see Delete.
LEMMA DeleteUnseen ==
  ASSUME IInv, Covered, NEW k \in Keys,
         ~(k \in DOMAIN data["target"] /\ Triggered("target", "delete", k))
  PROVE  Operation(Without("target", k)["target"], length) = Operation(data["target"], length)
<1> DEFINE t == data["target"]
           u == Without("target", k)["target"]
<1>0. Typed /\ kind \in {"Object", "Array", "Map", "Set"} /\ "target" \in DOMAIN data /\ length \in Int
  BY DEF IInv, Typed, ContentTyped
<1>1. DOMAIN u = (DOMAIN t) \ {k} /\ \A j \in DOMAIN u : u[j] = t[j]
  BY <1>0 DEF Without
<1> HIDE DEF u
<1>2. CASE k \notin DOMAIN t
  <2>1. DOMAIN u = DOMAIN t
    BY <1>1, <1>2
  <2>2. Alike(u, length)
    BY <1>0, <1>1, <2>1, SameContent
  <2> QED
    BY <1>0, <2>2, AlikeReads DEF u
<1>3. CASE k \in DOMAIN t
  <2>1. /\ << "target", k >> \notin deps
        /\ kind # "Array" => << "target", Iterate >> \notin deps
        /\ kind = "Map" => << "target", KeyIterate >> \notin deps
    BY <1>3 DEF Triggered
  <2>2. CASE read[1] \in {"get", "has"}
    <3>1. k \notin KeysRead
      BY <2>1, <2>2, ReadDeps
    <3>2. \A j \in (DOMAIN u) \cup DOMAIN t : j # k => (j \in DOMAIN u <=> j \in DOMAIN t) /\ u[j] = t[j]
      BY <1>1
    <3>3. Alike(u, length)
      BY <1>0, <2>2, <3>1, <3>2, OtherKey
    <3> QED
      BY <1>0, <3>3, AlikeReads DEF u
  <2>3. ~(read[1] = "includes" \/ (read[1] = "forEach" /\ kind = "Array"))
    <3> SUFFICES ASSUME read[1] = "includes" \/ (read[1] = "forEach" /\ kind = "Array") PROVE FALSE
      OBVIOUS
    <3>1. kind = "Array"
      BY <1>0, Reads
    <3>2. \A i \in 0..(length - 1) : << "target", Index(i) >> \in deps
      BY ReadDeps
    <3> QED
      BY <1>0, <1>3, <2>1, <3>1, <3>2, ArrayKeys
  <2>4. CASE read[1] = "length"
    BY <1>0, <2>4, AlikeReads DEF Alike, u
  <2>5. ~(read[1] \in {"size", "keys"} \/ (read[1] = "forEach" /\ kind # "Array"))
    BY <1>0, <2>1, Reads, ReadDeps DEF Covered, IsCollection
  <2> QED
    BY <1>0, <2>2, <2>3, <2>4, <2>5, Reads
<1> QED
  BY <1>2, <1>3

\* Setting the length of an array: see AssignLength.
LEMMA LengthUnseen ==
  ASSUME IInv, Covered, kind = "Array", NEW new \in 0..MaxLength, NEW u,
         DOMAIN u = {Index(i) : i \in 0..(new - 1)} \cap DOMAIN data["target"],
         \A j \in DOMAIN u : u[j] = data["target"][j],
         ~(new # length /\ TriggeredByLength(new))
  PROVE  Operation(u, new) = Operation(data["target"], length)
<1> DEFINE t == data["target"]
<1>0. Typed /\ length \in Int /\ DOMAIN t \subseteq Keys /\ MaxLength \in Int
  BY ProxiesAssumption DEF IInv, Typed, ContentTyped
<1>1. CASE new = length
  <2>1. DOMAIN u = DOMAIN t
    BY <1>0, <1>1, ArrayKeys
  <2>2. Alike(u, new)
    BY <1>0, <1>1, <2>1, SameContent
  <2> QED
    BY <1>0, <2>2, AlikeReads
<1>2. CASE new # length
  <2>1. /\ << "target", Length >> \notin deps
        /\ \A i \in new..(MaxLength - 1) : << "target", Index(i) >> \notin deps
    BY <1>2 DEF TriggeredByLength, IInv, Tracked
  <2>2. read[1] \in {"get", "has"}
    BY <1>0, <2>1, Reads, ReadDeps DEF Covered, IsCollection
  <2>3. /\ ~IsCollection /\ KeysRead = {read[2]} /\ read[2] \in Keys
        /\ << "target", read[2] >> \in deps
    BY <1>0, <2>2, Reads, ReadDeps DEF IsCollection, KeysRead
  <2>4. read[2] \in {Index(i) : i \in 0..(new - 1)}
    <3>1. read[2][2] \in 0..(MaxLength - 1) /\ read[2] = Index(read[2][2])
      BY <1>0, <2>3, ArrayKeys
    <3>2. read[2][2] \notin new..(MaxLength - 1)
      BY <2>1, <2>3, <3>1
    <3> QED
      BY <1>0, <3>1, <3>2
  <2>5. Entry(u, read[2]) = Entry(t, read[2]) /\ (Found(u, read[2]) <=> Found(t, read[2]))
    BY <2>3, <2>4 DEF Entry, Found, Value
  <2>6. Alike(u, new)
    BY <2>2, <2>5 DEF Alike
  <2> QED
    BY <1>0, <2>6, AlikeReads
<1> QED
  BY <1>1, <1>2

\* Clearing a collection: see Clear.
LEMMA ClearUnseen ==
  ASSUME IInv, Covered, IsCollection, ~(data["target"] # << >> /\ TriggeredByClear)
  PROVE  data["target"] = << >>
<1>1. \E k : << "target", k >> \in deps
  <2>1. read[1] \in {"get", "has"} => read[2] \in KeysRead
    BY DEF KeysRead, Both
  <2>2. kind # "Array"
    BY DEF IsCollection
  <2> QED
    BY <2>1, <2>2, Reads, ReadDeps DEF IInv
<1>2. TriggeredByClear
  BY <1>1 DEF TriggeredByClear
<1> QED
  BY <1>2

--------------------------------------------------------------------------------
(* The steps. *)

\* What With, Without make of the content.
LEMMA WithTyped ==
  ASSUME IInv, NEW k \in Keys, NEW v \in Items, NEW m \in 0..MaxLength, length <= m,
         kind = "Array" => k[2] < m
  PROVE  ContentTyped(With("target", k, v), m)
<1>1. ContentTyped(data, length)
  BY DEF IInv, Typed
<1>2. DOMAIN With("target", k, v) = {"target", "inner", "ref"}
  BY <1>1 DEF ContentTyped, With
<1>3. /\ With("target", k, v)["target"] =
           [j \in (DOMAIN data["target"]) \cup {k} |-> IF j = k THEN v ELSE data["target"][j]]
      /\ With("target", k, v)["inner"] = data["inner"] /\ With("target", k, v)["ref"] = data["ref"]
  BY <1>1 DEF ContentTyped, With
<1>4. kind = "Array" => \A j \in DOMAIN data["target"] : j[2] < m
  <2>1. ASSUME kind = "Array", NEW j \in DOMAIN data["target"] PROVE j[2] < m
    <3>1. j \in Keys
      BY <1>1 DEF ContentTyped
    <3>2. j[2] \in 0..(length - 1) /\ length \in Int
      BY <1>1, <2>1, <3>1, ArrayKeys DEF IInv, ContentTyped
    <3> QED
      BY <3>2
  <2> QED
    BY <2>1
<1> HIDE DEF ContentTyped
<1> DEFINE w == With("target", k, v)
<1> HIDE DEF w
<1>5. /\ DOMAIN w = {"target", "inner", "ref"} /\ w["inner"] = data["inner"] /\ w["ref"] = data["ref"]
      /\ DOMAIN w["target"] = (DOMAIN data["target"]) \cup {k}
      /\ \A j \in DOMAIN w["target"] : w["target"][j] = IF j = k THEN v ELSE data["target"][j]
  BY <1>2, <1>3 DEF w
<1>6. ContentTyped(w, m)
  BY <1>1, <1>4, <1>5 DEF ContentTyped
<1> QED
  BY <1>6 DEF w

\* Put to the target.
LEMMA PutKeeps ==
  ASSUME IInv, NEW k \in Keys, NEW v \in Items, NEW m \in 0..MaxLength, length <= m,
         kind = "Array" => m = IF k[2] >= length THEN k[2] + 1 ELSE length,
         kind = "Set" => k \notin DOMAIN data["target"],
         Put("target", k, v, m)
  PROVE  IInv'
<1> DEFINE t == data["target"]
           type == IF k \in DOMAIN t THEN "set" ELSE "add"
           hit == (type = "add" \/ v # Value(t, k)) /\ Triggered("target", type, k)
           d == With("target", k, v)
<1>1. Change(d, m, hit) /\ hit \in BOOLEAN
  BY DEF Put
<1>2. kind = "Array" => k[2] \in Int /\ length \in Int
  BY ArrayKeys, ProxiesAssumption DEF IInv, Typed, ContentTyped
<1>3. ContentTyped(d, m)
  BY <1>2, WithTyped
<1>4. d["inner"] = data["inner"] /\ d["ref"] = data["ref"]
  BY DEF With, IInv, Typed, ContentTyped
<1>5. ASSUME Covered, ~hit
      PROVE  Operation(d["target"], m) = Operation(data["target"], length)
  <2>1. ~(/\ k \notin DOMAIN data["target"] \/ v # Value(data["target"], k)
          /\ Triggered("target", IF k \in DOMAIN data["target"] THEN "set" ELSE "add", k))
    BY <1>5
  <2> HIDE DEF hit
  <2> QED
    BY <1>5, <2>1, PutUnseen
<1> HIDE DEF hit, d
<1>6. Covered /\ ~hit =>
        /\ Sees(d, Operation(d["target"], m)) = Sees(data, Operation(data["target"], length))
        /\ Depends(d, Operation(d["target"], m)) = Depends(data, Operation(data["target"], length))
  BY <1>4, <1>5, SameRead
<1> QED
  BY <1>1, <1>3, <1>6, ChangeKeeps

\* A ref: no value of the read is one, if the effect does not depend on it.
LEMMA RefKeeps ==
  ASSUME IInv, NEW v \in Prims \cup {Raw("inner")}, AssignRef(v)
  PROVE  IInv'
<1> DEFINE changed == ToRaw(v) # data["ref"][RefValue]
           d == IF changed THEN With("ref", RefValue, v) ELSE data
           hit == changed /\ << "ref", RefValue >> \in deps
           op == Operation(data["target"], length)
<1>0. Typed /\ ContentTyped(data, length)
  BY DEF IInv, Typed
<1>1. Change(d, length, hit) /\ hit \in BOOLEAN
  BY DEF AssignRef
<1>2. /\ DOMAIN d = {"target", "inner", "ref"}
      /\ d["target"] = data["target"] /\ d["inner"] = data["inner"]
      /\ DOMAIN d["ref"] = {RefValue} /\ d["ref"][RefValue] \in Prims \cup {Raw("inner")}
      /\ ~changed => d = data
  BY <1>0 DEF With, ContentTyped
<1> HIDE DEF d, changed
<1>3. ContentTyped(d, length)
  BY <1>0, <1>2 DEF ContentTyped
<1>4. ASSUME Covered, ~hit
      PROVE  /\ Sees(d, op) = Sees(data, op)
             /\ Depends(d, op) = Depends(data, op)
  <2>1. CASE ~changed
    BY <1>2, <2>1
  <2>2. CASE changed
    <3>1. << "ref", RefValue >> \notin deps
      BY <1>4, <2>2
    <3> HIDE DEF op
    <3>2. ASSUME NEW j \in DOMAIN op.raw
          PROVE  ShownIn(d, op.raw[j]) = ShownIn(data, op.raw[j])
                 /\ Needs(d, op.raw[j]) = Needs(data, op.raw[j])
      <4>1. Needs(data, op.raw[j]) \subseteq deps
        BY <1>4 DEF IInv, Tracked, Depends, op
      <4>2. shallow \/ ~IsRef(op.raw[j])
        BY <3>1, <4>1 DEF Needs
      <4> QED
        BY <1>0, <1>2, <4>2 DEF ShownIn, Needs, Inside, Typed
    <3> QED
      BY <3>2 DEF Sees, Depends
  <2> QED
    BY <2>1, <2>2
<1> HIDE DEF hit
<1> QED
  BY <1>1, <1>2, <1>3, <1>4, ChangeKeeps

\* The property of inner: no value of the read leads to it, if the effect does not
\* depend on it.
LEMMA InnerKeeps ==
  ASSUME IInv, NEW v \in Prims, AssignX(v)
  PROVE  IInv'
<1> DEFINE d == With("inner", X, v)
           op == Operation(data["target"], length)
           hit == v # data["inner"][X] /\ Triggered("inner", "set", X)
<1>0. Typed /\ ContentTyped(data, length) /\ X \in DOMAIN data["inner"]
  BY DEF IInv, Typed, ContentTyped
<1>1. Change(d, length, hit) /\ hit \in BOOLEAN
  BY <1>0 DEF AssignX, Put, Value
<1>2. /\ DOMAIN d = {"target", "inner", "ref"}
      /\ d["target"] = data["target"] /\ d["ref"] = data["ref"]
      /\ DOMAIN d["inner"] = {X} /\ d["inner"][X] = v
  BY <1>0 DEF With, ContentTyped
<1> HIDE DEF d
<1>3. ContentTyped(d, length)
  BY <1>0, <1>2 DEF ContentTyped
<1>4. ASSUME Covered, ~hit
      PROVE  /\ Sees(d, op) = Sees(data, op)
             /\ Depends(d, op) = Depends(data, op)
  <2>1. CASE v = data["inner"][X]
    <3>1. \A w : ShownIn(d, w) = ShownIn(data, w) /\ Needs(d, w) = Needs(data, w)
      BY <1>2, <2>1 DEF ShownIn, Needs, Inside
    <3> HIDE DEF op
    <3> QED
      BY <3>1 DEF Sees, Depends
  <2>2. CASE v # data["inner"][X]
    <3>1. << "inner", X >> \notin deps
      BY <1>4, <2>2 DEF Triggered
    <3> HIDE DEF op
    <3>2. ASSUME NEW j \in DOMAIN op.raw
          PROVE  ShownIn(d, op.raw[j]) = ShownIn(data, op.raw[j])
                 /\ Needs(d, op.raw[j]) = Needs(data, op.raw[j])
      <4>1. Needs(data, op.raw[j]) \subseteq deps
        BY <1>4 DEF IInv, Tracked, Depends, op
      <4>2. shallow \/ Inside(data, op.raw[j])[1] \in {"prim", "undefined"}
        BY <3>1, <4>1 DEF Needs
      <4>3. Inside(d, op.raw[j]) = Inside(data, op.raw[j])
        BY <1>2 DEF Inside
      <4> QED
        BY <1>0, <4>2, <4>3 DEF ShownIn, Needs, Typed
    <3> QED
      BY <3>2 DEF Sees, Depends
  <2> QED
    BY <2>1, <2>2
<1> HIDE DEF hit
<1> QED
  BY <1>1, <1>2, <1>3, <1>4, ChangeKeeps

\* Assigning to a key of an Object or an Array.
LEMMA AssignKeeps ==
  ASSUME IInv, NEW k \in Keys, NEW v \in Storable, AssignKey(k, v)
  PROVE  IInv'
<1> DEFINE value == IF shallow THEN v ELSE ToRaw(v)
           index == IF kind = "Array" THEN k[2] ELSE 0
           m == IF kind = "Array" /\ index >= length THEN index + 1 ELSE length
<1>0. Typed /\ ContentTyped(data, length) /\ ~IsCollection /\ length \in 0..MaxLength /\ MaxLength \in Int
  BY ProxiesAssumption DEF IInv, Typed, ContentTyped, AssignKey
<1>1. value \in Items
  BY <1>0, RawItems DEF Storable, Items, Values
<1>2. CASE ~shallow /\ kind = "Object" /\ IsRef(Value(data["target"], k)) /\ ~IsRef(value)
  <2>1. AssignRef(value)
    BY <1>2 DEF AssignKey
  <2>2. value \in Prims \cup {Raw("inner")}
    BY <1>0, <1>2, RawItems DEF IsRef, Storable
  <2> QED
    BY <2>1, <2>2, RefKeeps
<1>3. CASE ~(~shallow /\ kind = "Object" /\ IsRef(Value(data["target"], k)) /\ ~IsRef(value))
  <2>1. Put("target", k, value, m)
    BY <1>3 DEF AssignKey
  <2>2. kind = "Array" => k[2] \in 0..(MaxLength - 1)
    BY <1>0, ArrayKeys
  <2>3. m \in 0..MaxLength /\ length <= m
    BY <1>0, <2>2
  <2>4. /\ kind = "Array" => m = IF k[2] >= length THEN k[2] + 1 ELSE length
        /\ kind # "Set"
    BY <1>0 DEF IsCollection
  <2> HIDE DEF m, value
  <2> QED
    BY <1>1, <2>1, <2>3, <2>4, PutKeeps
<1> QED
  BY <1>2, <1>3

\* The key of a collection is that of an entry that is there, or a raw one.
LEMMA KeyTyped ==
  ASSUME Typed, IsCollection, NEW k \in Keys
  PROVE  Key(k) \in Keys /\ ToRaw(k) \in Keys /\ ToRaw(k) \in Values
<1>1. Keys = {<< "prim", 1 >>, Raw("inner"), << "reactive", "inner" >>}
  BY DEF IsCollection, Keys, KeysOf
<1>2. ToRaw(k) \in {<< "prim", 1 >>, Raw("inner")}
  BY <1>1 DEF ToRaw, Raw
<1> QED
  BY <1>1, <1>2 DEF Key, Values, Prims

LEMMA MapSetKeeps ==
  ASSUME IInv, NEW k \in Keys, NEW v \in Storable, MapSet(k, v)
  PROVE  IInv'
<1>1. /\ kind = "Map" /\ IsCollection /\ Typed /\ length \in 0..MaxLength /\ length <= length
      /\ Put("target", Key(k), ToRaw(v), length)
  BY ProxiesAssumption DEF MapSet, IsCollection, IInv, Typed, ContentTyped
<1>2. Key(k) \in Keys /\ ToRaw(v) \in Items
  BY <1>1, KeyTyped, RawItems DEF Storable, Items
<1> QED
  BY <1>1, <1>2, PutKeeps

LEMMA SetAddKeeps ==
  ASSUME IInv, NEW v \in Keys, SetAdd(v)
  PROVE  IInv'
<1>1. /\ kind = "Set" /\ IsCollection /\ Typed /\ length \in 0..MaxLength /\ length <= length
      /\ ContentTyped(data, length)
  BY ProxiesAssumption DEF SetAdd, IsCollection, IInv, Typed, ContentTyped
<1>2. ToRaw(v) \in Keys /\ ToRaw(v) \in Items
  BY <1>1, KeyTyped DEF Items
<1>3. CASE ToRaw(v) \in DOMAIN data["target"]
  <2>1. Change(data, length, FALSE)
    BY <1>3 DEF SetAdd
  <2> QED
    BY <1>1, <2>1, ChangeKeeps
<1>4. CASE ToRaw(v) \notin DOMAIN data["target"]
  <2>1. Put("target", ToRaw(v), ToRaw(v), length)
    BY <1>4 DEF SetAdd
  <2> QED
    BY <1>1, <1>2, <1>4, <2>1, PutKeeps
<1> QED
  BY <1>3, <1>4

LEMMA DeleteKeeps ==
  ASSUME IInv, NEW k \in Keys, Delete(k)
  PROVE  IInv'
<1> DEFINE key == IF IsCollection THEN Key(k) ELSE k
           d == Without("target", key)
           hit == key \in DOMAIN data["target"] /\ Triggered("target", "delete", key)
<1>0. Typed /\ ContentTyped(data, length)
  BY DEF IInv, Typed
<1>1. Change(d, length, hit) /\ hit \in BOOLEAN
  BY DEF Delete
<1>2. key \in Keys
  BY <1>0, KeyTyped
<1> HIDE DEF key
<1>3. /\ DOMAIN d = {"target", "inner", "ref"} /\ d["inner"] = data["inner"] /\ d["ref"] = data["ref"]
      /\ DOMAIN d["target"] = (DOMAIN data["target"]) \ {key}
      /\ \A j \in DOMAIN d["target"] : d["target"][j] = data["target"][j]
  BY <1>0 DEF Without, ContentTyped
<1>4. Covered /\ ~hit => Operation(d["target"], length) = Operation(data["target"], length)
  BY <1>2, DeleteUnseen
<1> HIDE DEF d, hit
<1>5. ContentTyped(d, length)
  BY <1>0, <1>3 DEF ContentTyped
<1>6. Covered /\ ~hit =>
        /\ Sees(d, Operation(d["target"], length)) = Sees(data, Operation(data["target"], length))
        /\ Depends(d, Operation(d["target"], length)) = Depends(data, Operation(data["target"], length))
  BY <1>3, <1>4, SameRead
<1> QED
  BY <1>1, <1>5, <1>6, ChangeKeeps

LEMMA AssignLengthKeeps ==
  ASSUME IInv, NEW new \in 0..MaxLength, AssignLength(new)
  PROVE  IInv'
<1> DEFINE kept == {Index(i) : i \in 0..(new - 1)} \cap DOMAIN data["target"]
           d == [data EXCEPT !["target"] = [k \in {Index(i) : i \in 0..(new - 1)} \cap DOMAIN @ |-> @[k]]]
           hit == new # length /\ TriggeredByLength(new)
<1>0. Typed /\ ContentTyped(data, length) /\ kind = "Array" /\ MaxLength \in Int
  BY ProxiesAssumption DEF IInv, Typed, AssignLength
<1>1. Change(d, new, hit) /\ hit \in BOOLEAN
  BY DEF AssignLength
<1>2. /\ DOMAIN d = {"target", "inner", "ref"} /\ d["inner"] = data["inner"] /\ d["ref"] = data["ref"]
      /\ DOMAIN d["target"] = kept
      /\ \A j \in DOMAIN d["target"] : d["target"][j] = data["target"][j]
  BY <1>0 DEF ContentTyped
<1> HIDE DEF d
<1>3. Covered /\ ~hit => Operation(d["target"], new) = Operation(data["target"], length)
  BY <1>0, <1>2, LengthUnseen
<1>4. \A j \in kept : j[2] < new
  BY <1>0 DEF Index
<1>5. ContentTyped(d, new)
  BY <1>0, <1>2, <1>4 DEF ContentTyped
<1> HIDE DEF hit
<1>6. Covered /\ ~hit =>
        /\ Sees(d, Operation(d["target"], new)) = Sees(data, Operation(data["target"], length))
        /\ Depends(d, Operation(d["target"], new)) = Depends(data, Operation(data["target"], length))
  BY <1>2, <1>3, SameRead
<1> QED
  BY <1>1, <1>5, <1>6, ChangeKeeps

LEMMA ClearKeeps ==
  ASSUME IInv, Clear
  PROVE  IInv'
<1> DEFINE d == [data EXCEPT !["target"] = << >>]
           hit == data["target"] # << >> /\ TriggeredByClear
<1>0. Typed /\ ContentTyped(data, length) /\ IsCollection
  BY DEF IInv, Typed, Clear
<1>1. Change(d, length, hit) /\ hit \in BOOLEAN
  BY DEF Clear
<1>2. /\ DOMAIN d = {"target", "inner", "ref"} /\ d["inner"] = data["inner"] /\ d["ref"] = data["ref"]
      /\ d["target"] = << >>
  BY <1>0 DEF ContentTyped
<1> HIDE DEF d
<1>3. ContentTyped(d, length)
  BY <1>0, <1>2 DEF ContentTyped
<1>4. Covered /\ ~hit => Operation(d["target"], length) = Operation(data["target"], length)
  BY <1>0, <1>2, ClearUnseen
<1> HIDE DEF hit
<1>5. Covered /\ ~hit =>
        /\ Sees(d, Operation(d["target"], length)) = Sees(data, Operation(data["target"], length))
        /\ Depends(d, Operation(d["target"], length)) = Depends(data, Operation(data["target"], length))
  BY <1>2, <1>4, SameRead
<1> QED
  BY <1>1, <1>3, <1>5, ChangeKeeps

LEMMA InvStep ==
  ASSUME IInv, [Next]_vars PROVE IInv'
<1>1. ASSUME NEW k \in Keys, NEW v \in Storable, AssignKey(k, v) PROVE IInv'
  BY <1>1, AssignKeeps
<1>2. ASSUME NEW k \in Keys, NEW v \in Storable, MapSet(k, v) PROVE IInv'
  BY <1>2, MapSetKeeps
<1>3. ASSUME NEW v \in Keys, SetAdd(v) PROVE IInv'
  BY <1>3, SetAddKeeps
<1>4. ASSUME NEW k \in Keys, Delete(k) PROVE IInv'
  BY <1>4, DeleteKeeps
<1>5. ASSUME NEW n \in 0..MaxLength, AssignLength(n) PROVE IInv'
  BY <1>5, AssignLengthKeeps
<1>6. ASSUME Clear PROVE IInv'
  BY <1>6, ClearKeeps
<1>7. ASSUME NEW v \in Prims, AssignX(v) PROVE IInv'
  BY <1>7, InnerKeeps
<1>8. ASSUME NEW v \in Prims \cup {Raw("inner")}, AssignRef(v) PROVE IInv'
  BY <1>8, RefKeeps
<1>9. CASE UNCHANGED vars
  <2>1. /\ UNCHANGED fixed /\ data' = data /\ length' = length /\ UNCHANGED << deps, seen, got, locked >>
        /\ kind' = kind /\ shallow' = shallow /\ view' = view /\ read' = read
    BY <1>9 DEF vars, fixed
  <2>2. Typed'
    BY <2>1 DEF IInv, Typed, ContentTyped, Items, IsCollection, Keys
  <2>3. Covered' => Covered
    BY <2>1 DEF Covered, IsCollection
  <2>4. Tracked'
    BY <2>1, <2>3, SeenNext DEF IInv, Tracked
  <2>5. Protected(got)'
    BY <2>1 DEF IInv, Protected
  <2> QED
    BY <2>2, <2>4, <2>5 DEF IInv
<1> QED
  BY <1>1, <1>2, <1>3, <1>4, <1>5, <1>6, <1>7, <1>8, <1>9 DEF Next

LEMMA InvInit ==
  ASSUME Init PROVE IInv
<1>1. PICK content \in Contents :
        data = [target |-> content, inner |-> [k \in {X} |-> << "prim", 1 >>],
                ref |-> [k \in {RefValue} |-> << "prim", 1 >>]]
  BY DEF Init
<1>2. /\ DOMAIN data = {"target", "inner", "ref"} /\ data["target"] = content
      /\ DOMAIN data["inner"] = {X} /\ data["inner"][X] = << "prim", 1 >>
      /\ DOMAIN data["ref"] = {RefValue} /\ data["ref"][RefValue] = << "prim", 1 >>
  BY <1>1
<1>3. << "prim", 1 >> \in Prims /\ length = 0 /\ 0 \in 0..MaxLength
  BY ProxiesAssumption DEF Prims, Init
<1>4. /\ kind \in {"Object", "Array", "Map", "Set"} /\ view \in {"reactive", "readonly", "over"}
      /\ read \in ReadsOf(kind) /\ shallow \in BOOLEAN /\ (shallow => view = "reactive")
      /\ locked \in {"none", "raw", "over"}
  BY ProxiesAssumption DEF Init
<1>5. /\ DOMAIN content \subseteq Keys /\ \A k \in DOMAIN content : content[k] \in Items
      /\ kind = "Array" => content = << >>
  <2>1. CASE kind = "Map"
    <3>1. IsCollection /\ Keys = {<< "prim", 1 >>, Raw("inner"), << "reactive", "inner" >>}
          /\ << "prim", 1 >> \in Items /\ << "prim", 2 >> \in Items
      BY <2>1 DEF IsCollection, Keys, KeysOf, Items, Values, Prims
    <3>2. Contents = {<< >>, [k \in {<< "reactive", "inner" >>} |-> << "prim", 1 >>],
                      [k \in {Raw("inner"), << "reactive", "inner" >>} |->
                         IF k = Raw("inner") THEN << "prim", 1 >> ELSE << "prim", 2 >>]}
      BY <2>1 DEF Contents
    <3> QED
      BY <2>1, <3>1, <3>2
  <2>2. CASE kind = "Set"
    <3>1. IsCollection /\ Keys = {<< "prim", 1 >>, Raw("inner"), << "reactive", "inner" >>}
          /\ << "reactive", "inner" >> \in Items
      BY <2>2 DEF IsCollection, Keys, KeysOf, Items, Values
    <3>2. Contents = {<< >>, [k \in {<< "reactive", "inner" >>} |-> k]}
      BY <2>2 DEF Contents
    <3> QED
      BY <2>2, <3>1, <3>2
  <2>3. CASE kind \in {"Object", "Array"}
    <3>1. Contents = {<< >>}
      BY <2>3 DEF Contents
    <3> QED
      BY <2>3, <3>1
  <2> QED
    BY <1>4, <2>1, <2>2, <2>3
<1>6. ContentTyped(data, length)
  BY <1>2, <1>3, <1>5 DEF ContentTyped
<1>7. Typed
  BY <1>4, <1>6 DEF Typed
<1>8. deps = Run(data, 0).deps /\ seen = Run(data, 0).seen /\ got = Run(data, 0).got
  BY DEF Init
<1>9. Tracked
  BY <1>3, <1>6, <1>7, <1>8, RunCovers DEF Tracked
<1>10. Protected(got)
  BY <1>7, <1>8, RunProtects
<1> QED
  BY <1>7, <1>9, <1>10 DEF IInv

LEMMA Always == Spec => []IInv
BY InvInit, InvStep, PTL DEF Spec

--------------------------------------------------------------------------------
(* The theorems. *)

\* A change made through a reactive proxy, to a key, to the length, to a
\* collection, to an object inside or to a ref inside, reaches every effect that
\* has seen what it changes: track() and trigger() agree for each pair of a read
\* and a write (baseHandlers.ts, collectionHandlers.ts, effect.ts).
THEOREM NoChangeMissed == Spec => []Fresh
<1>1. IInv => Fresh
  <2> SUFFICES ASSUME IInv, Covered PROVE seen = Now
    BY DEF Fresh, Covered
  <2> DEFINE op == Operation(data["target"], length)
  <2>1. seen = Sees(data, op) /\ shallow \in BOOLEAN
    BY DEF IInv, Tracked, Typed
  <2>2. \A v : ShownIn(data, v) = Shown(v)
    BY <2>1 DEF ShownIn, Shown, Inside
  <2>3. Now = << op.out, [k \in DOMAIN op.raw |-> Shown(op.raw[k])] >>
    BY DEF Now
  <2> HIDE DEF op
  <2> QED
    BY <2>1, <2>2, <2>3 DEF Sees
<1> QED
  BY <1>1, Always, PTL

\* What createGetter and the collections hand out behind a readonly proxy is a
\* readonly proxy or a primitive value, whatever has been stored in the target.
THEOREM ReadonlyStays == Spec => []ReadonlyIsDeep
<1>1. IInv => ReadonlyIsDeep
  BY DEF IInv, Protected, ReadonlyIsDeep
<1> QED
  BY <1>1, Always, PTL

\* What is stored is stripped of its proxy, as value and as key: the raw target
\* holds no more proxies than it held before it was made reactive (the setters of
\* baseHandlers.ts, add and set of collectionHandlers.ts).
THEOREM ProxiesStayOut == Spec => NoProxyStored
<1> DEFINE Kept == ~shallow => Proxied(data'["target"]) \subseteq Proxied(data["target"])
<1>1. ASSUME IInv, [Next]_vars PROVE [Kept]_vars
  <2>0. "target" \in DOMAIN data /\ DOMAIN data = {"target", "inner", "ref"} /\ Typed
    BY <1>1 DEF IInv, Typed, ContentTyped
  <2>1. ASSUME ~shallow, NEW k, NEW v, k \in DOMAIN data["target"] \/ k[1] # "reactive", v[1] # "reactive",
               data' = With("target", k, v)
        PROVE  Kept
    <3>1. /\ DOMAIN data'["target"] = (DOMAIN data["target"]) \cup {k}
          /\ \A j \in DOMAIN data'["target"] : data'["target"][j] = IF j = k THEN v ELSE data["target"][j]
      BY <2>0, <2>1 DEF With
    <3> QED
      BY <2>1, <3>1 DEF Proxied
  <2>2. ASSUME DOMAIN data'["target"] \subseteq DOMAIN data["target"],
               \A j \in DOMAIN data'["target"] : data'["target"][j] = data["target"][j]
        PROVE  Kept
    BY <2>2 DEF Proxied
  <2>3. ASSUME data'["target"] = data["target"] PROVE Kept
    BY <2>3
  <2>4. ASSUME NEW v, AssignRef(v) PROVE Kept
    <3>1. data' = With("ref", RefValue, v) \/ data' = data
      BY <2>4 DEF AssignRef, Change
    <3> QED
      BY <2>0, <2>3, <3>1 DEF With
  <2>5. ASSUME NEW k \in Keys, NEW v \in Storable, AssignKey(k, v), ~shallow PROVE Kept
    <3>1. AssignRef(ToRaw(v)) \/ data' = With("target", k, ToRaw(v))
      BY <2>5 DEF AssignKey, Put, Change
    <3>2. k[1] # "reactive"
      BY <2>0, <2>5 DEF AssignKey, IsCollection, Keys, KeysOf, Index, Typed
    <3> QED
      BY <2>1, <2>4, <2>5, <3>1, <3>2, NeverReactive
  <2>6. ASSUME NEW k \in Keys, NEW v \in Storable, MapSet(k, v), ~shallow PROVE Kept
    <3>1. data' = With("target", Key(k), ToRaw(v))
      BY <2>6 DEF MapSet, Put, Change
    <3>2. Key(k) \in DOMAIN data["target"] \/ Key(k)[1] # "reactive"
      BY NeverReactive DEF Key
    <3> QED
      BY <2>1, <2>6, <3>1, <3>2, NeverReactive
  <2>7. ASSUME NEW v \in Keys, SetAdd(v), ~shallow PROVE Kept
    <3>1. data' = data \/ data' = With("target", ToRaw(v), ToRaw(v))
      BY <2>7 DEF SetAdd, Put, Change
    <3> QED
      BY <2>1, <2>3, <2>7, <3>1, NeverReactive
  <2>8. ASSUME NEW k \in Keys, Delete(k) PROVE Kept
    <3>1. PICK key : data' = Without("target", key)
      BY <2>8 DEF Delete, Change
    <3>2. /\ DOMAIN data'["target"] = (DOMAIN data["target"]) \ {key}
          /\ \A j \in DOMAIN data'["target"] : data'["target"][j] = data["target"][j]
      BY <2>0, <3>1 DEF Without
    <3> QED
      BY <2>2, <3>2
  <2>9. ASSUME NEW n \in 0..MaxLength, AssignLength(n) PROVE Kept
    <3>1. data' = [data EXCEPT !["target"] = [k \in {Index(i) : i \in 0..(n - 1)} \cap DOMAIN @ |-> @[k]]]
      BY <2>9 DEF AssignLength, Change
    <3>2. /\ DOMAIN data'["target"] = {Index(i) : i \in 0..(n - 1)} \cap DOMAIN data["target"]
          /\ \A j \in DOMAIN data'["target"] : data'["target"][j] = data["target"][j]
      BY <2>0, <3>1
    <3> QED
      BY <2>2, <3>2
  <2>10. ASSUME Clear PROVE Kept
    <3>1. data'["target"] = << >>
      BY <2>0, <2>10 DEF Clear, Change
    <3> QED
      BY <3>1 DEF Proxied
  <2>11. ASSUME NEW v \in Prims, AssignX(v) PROVE Kept
    <3>1. data' = With("inner", X, v)
      BY <2>11 DEF AssignX, Put, Change
    <3> QED
      BY <2>0, <2>3, <3>1 DEF With
  <2>12. CASE Next
    <3> SUFFICES ASSUME ~shallow PROVE Kept
      OBVIOUS
    <3> HIDE DEF Kept
    <3> QED
      BY <2>12, <2>4, <2>5, <2>6, <2>7, <2>8, <2>9, <2>10, <2>11 DEF Next
  <2> QED
    BY <1>1, <2>12
<1> QED
  BY <1>1, Always, PTL DEF Spec, NoProxyStored
================================================================================
