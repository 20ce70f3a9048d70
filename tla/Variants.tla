------------------------------ MODULE Variants ------------------------------
(***************************************************************************)
(* Index ranges of array values: what a range of a request stands for, and *)
(* which elements of the array UA_Variant_copyRange and                    *)
(* UA_Variant_setRangeCopy touch for it.  Positions count from 0.          *)
(***************************************************************************)
EXTENDS Copies
LOCAL INSTANCE SequencesExt
LOCAL INSTANCE FiniteSetsExt

Invalid == [status |-> "BADINDEXRANGEINVALID"]

(***************************************************************************)
(* parse_numericrange.  The text is a sequence of numbers and separators:  *)
(* dimensions with commas between them, each of them one number or two     *)
(* with a colon.  What follows the last dimension is not looked at.  begun *)
(* counts the dimensions, the one included that could not be read.         *)
(***************************************************************************)
readDimension(text) ==
    CASE text = <<>> \/ text[1] \notin Nat -> [read |-> 0, min |-> 0, max |-> 0]
      [] Len(text) = 1 \/ text[2] # ":" -> [read |-> 1, min |-> text[1], max |-> text[1]]
      [] Len(text) = 2 \/ text[3] \notin Nat -> [read |-> 0, min |-> 0, max |-> 0]
      [] OTHER -> [read |-> 3, min |-> text[1], max |-> text[3]]
RECURSIVE Dimensions(_, _)
Dimensions(text, range) ==
    LET d == readDimension(text)
        rest == SubSeq(text, d.read + 1, Len(text))
        done == Append(range, [min |-> d.min, max |-> d.max])
    IN CASE d.read = 0 -> [status |-> "BADINDEXRANGEINVALID", begun |-> Len(done)]
         [] rest # <<>> /\ rest[1] = "," -> Dimensions(Tail(rest), done)
         [] OTHER -> [status |-> "GOOD", range |-> done, begun |-> Len(done)]
parse_numericrange(text) == Dimensions(text, <<>>)

-----------------------------------------------------------------------------
Product(s) == FoldLeft(LAMBDA a, b : a * b, 1, s)
Count(d) == d.max - d.min + 1
DimsOf(v) == IF v.dims.len > 0 THEN v.dims.at ELSE <<v.len>>

(***************************************************************************)
(* testRangeWithVariant: how many elements, in blocks of which length, how *)
(* far from each other, and where the first one begins.  The length of a   *)
(* scalar is -1, which as an unsigned number no bound exceeds.             *)
(***************************************************************************)
Exceeds(max, dim) == dim >= 0 /\ max > dim
Backward(d) == d.min > d.max
Wrong(dims, range) == {k \in DOMAIN dims : Backward(range[k]) \/ Exceeds(range[k].max, dims[k])}
Behind(dims, k) == Product(SubSeq(dims, k + 1, Len(dims)))
Partial(dims, range) == {k \in DOMAIN dims : range[k].min # 0 \/ range[k].max + 1 # dims[k]}
TotalOf(range) == Product([k \in DOMAIN range |-> Count(range[k])])
FirstOfOneRow(dims, range) == FoldLeft(LAMBDA sum, d : sum + d.min, 0, range)
FirstOf(dims, range) ==
    FoldLeft(LAMBDA sum, k : sum + Behind(dims, k) * range[k].min, 0, [k \in DOMAIN dims |-> k])
Blocks(v, range) ==
    LET dims == DimsOf(v)
        partial == Partial(dims, range)
        k == Max(partial)
    IN [total |-> TotalOf(range), first |-> FirstOf(dims, range),
        block |-> IF partial = {} THEN 1 ELSE Count(range[k]) * Behind(dims, k),
        stride |-> CASE partial # {} -> dims[k] * Behind(dims, k)
                     [] partial = {} /\ v.dims.len > 0 -> v.len
                     [] OTHER -> 1]
testRangeWithVariant(v, range) ==
    LET dims == DimsOf(v)
    IN CASE v.dims.len > 0 /\ Product(dims) # v.len -> [status |-> "BADINTERNALERROR"]
         [] Len(range) # Len(dims) -> Invalid
         [] Wrong(dims, range) # {} ->
                IF Backward(range[Min(Wrong(dims, range))]) THEN Invalid ELSE [status |-> "BADINDEXRANGENODATA"]
         [] OTHER -> [status |-> "GOOD", blocks |-> Blocks(v, range)]

(* The i-th element that is copied, for a whole number of blocks.          *)
Touched(b) == [i \in 1..(b.total \div b.block) * b.block |->
                  b.first + ((i - 1) \div b.block) * b.stride + ((i - 1) % b.block)]
(* What lies behind the elements of an array.                              *)
Outside(type) ==
    CASE type = "Byte" -> Item(1, 0)
      [] IsPlain(type) -> 0
      [] OTHER -> [i \in DOMAIN Members(type) |-> 0]
ElementAt(v, position) == IF position < Len(v.at) THEN v.at[position + 1] ELSE Outside(v.type)
GoesBehind(v, b) == \E i \in DOMAIN Touched(b) : Touched(b)[i] >= Len(v.at)
(* Elements that are more than plain memory cannot be taken from there.    *)
Overruns(v, b) == ~IsFixedSize(v.type) /\ GoesBehind(v, b)

RangeSizes(range) == [k \in DOMAIN range |-> Count(range[k])]
Ranged(v, range, b) ==
    [type |-> v.type, len |-> b.total,
     at |-> [i \in DOMAIN Touched(b) |-> ElementAt(v, Touched(b)[i])],
     dims |-> IF v.dims.len > 0 THEN Array(RangeSizes(range)) ELSE NoArray]

(* The elements of a are put into the places of the range, in their order. *)
WithRange(v, a, b) ==
    [v EXCEPT !.at = [p \in DOMAIN v.at |->
        LET at == {i \in DOMAIN Touched(b) : Touched(b)[i] = p - 1}
        IN IF at = {} THEN v.at[p] ELSE a[Max(at)]]]
(* Whether each of the elements s could be copied; the node owns what the  *)
(* copies allocate.                                                        *)
ElementCopies(type, s, h) ==
    LET And(r, y) == [done |-> Append(r.done, y.ok),
                      h |-> IF y.ok THEN [y.h EXCEPT !.live = h.live] ELSE y.h]
    IN FoldLeft(LAMBDA r, x : And(r, Copy(type, x, r.h)), [done |-> <<>>, h |-> h], s)
(* An element is deleted before the new one is copied.  When that fails it *)
(* stays empty, and the write is good.  What is written behind the array   *)
(* may hit anything.                                                       *)
setRangeCopy(v, newV, range, h) ==
    LET t == testRangeWithVariant(v, range)
        copies == ElementCopies(v.type, newV.at, h)
        put == [i \in DOMAIN newV.at |-> IF copies.done[i] THEN newV.at[i] ELSE Initial(v.type)]
    IN CASE t.status # "GOOD" -> [status |-> t.status, value |-> v, h |-> h]
         [] t.status = "GOOD" /\ t.blocks.total # newV.len -> [status |-> "BADINDEXRANGEINVALID", value |-> v, h |-> h]
         [] OTHER -> [status |-> IF GoesBehind(v, t.blocks) THEN "overrun" ELSE "GOOD",
                      value |-> WithRange(v, put, t.blocks), h |-> copies.h]

-----------------------------------------------------------------------------
(***************************************************************************)
(* What a range means: the positions whose coordinates lie in it, in the   *)
(* order of the array.                                                     *)
(***************************************************************************)
Coordinate(dims, k, position) == (position \div Behind(dims, k)) % dims[k]
InRange(dims, range, position) ==
    \A k \in DOMAIN dims : Coordinate(dims, k, position) \in range[k].min..range[k].max
Selected(dims, range) ==
    SelectSeq([i \in 1..Product(dims) |-> i - 1], LAMBDA p : InRange(dims, range, p))
InBounds(dims, range) ==
    /\ Len(range) = Len(dims)
    /\ \A k \in DOMAIN dims : range[k].min <= range[k].max /\ range[k].max < dims[k]
(* Blocks at one distance from each other cannot make up every range: not  *)
(* a whole array with dimensions, and no rows with gaps between them.      *)
Regular(v, range) ==
    LET dims == DimsOf(v)
        partial == Partial(dims, range)
        rows == {p \div Behind(dims, Max(partial) - 1) : p \in ToSet(Selected(dims, range))}
    IN IF partial = {} THEN v.dims.len <= 0 \/ v.len = 1
       ELSE \A r \in rows : r = Min(rows) \/ r - 1 \in rows
=============================================================================
