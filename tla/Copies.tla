------------------------------- MODULE Copies -------------------------------
(***************************************************************************)
(* Which memory the copies of values own, when some allocation fails.  The *)
(* heap counts the allocations, of which the one with number fails is the  *)
(* one that fails, and knows what was freed although it was not allocated  *)
(* (twice) and whether a pointer to freed memory was left behind           *)
(* (dangles).  A copy keeps the pointers of its value in the value's       *)
(* shape: an array is [p, els].                                            *)
(***************************************************************************)
EXTENDS DataTypes
LOCAL INSTANCE SequencesExt

NULL == 0
Heap(fails) == [count |-> 0, fails |-> fails, live |-> {}, twice |-> FALSE, dangles |-> FALSE]
Malloc(h) ==
    LET n == h.count + 1
    IN IF n = h.fails THEN [p |-> NULL, h |-> [h EXCEPT !.count = n]]
       ELSE [p |-> n, h |-> [h EXCEPT !.count = n, !.live = @ \union {n}]]
Free(p, h) ==
    CASE p = NULL -> h
      [] p \in h.live -> [h EXCEPT !.live = @ \ {p}]
      [] OTHER -> [h EXCEPT !.twice = TRUE]

NoPointers == <<>>
NullArray == [p |-> NULL, els |-> <<>>]
Copied(ok, c, h) == [ok |-> ok, c |-> c, h |-> h]
Dangling(h) == [h EXCEPT !.dangles = TRUE]

-----------------------------------------------------------------------------
RECURSIVE Drop(_, _, _), Copy(_, _, _)
(* UA_Array_delete.                                                        *)
DropArray(type, c, h) ==
    Free(c.p, FoldLeft(LAMBDA g, x : Drop(type, x, g), h, c.els))
(* UA_deleteMembers of what was copied, NoPointers standing for a value    *)
(* that is in its initial state.                                           *)
DropMembers(type, c, h) ==
    FoldLeft(LAMBDA g, i : LET m == Members(type)[i]
                           IN IF m.isArray THEN DropArray(m.type, c[i], g) ELSE Drop(m.type, c[i], g),
             h, [i \in DOMAIN c |-> i])
DropVariant(v, h) == Free(v.dims.p, DropArray(v.type, v.data, h))
DropDiagnosticInfo(d, h) ==
    LET g == Drop("String", d.info, h)
    IN IF d.inner.p = NULL THEN g
       ELSE Free(d.inner.p, IF d.inner.els = <<>> THEN g ELSE Drop("DiagnosticInfo", d.inner.els[1], g))
Drop(type, c, h) ==
    CASE c = NoPointers -> h
      [] type = "NodeId" -> Drop("String", c, h)
      [] type = "ExtensionObject" -> Drop("ByteString", c[2], Drop("NodeId", c[1], h))
      [] type = "DataValue" -> DropVariant(c, h)
      [] type = "Variant" -> DropVariant(c, h)
      [] type = "DiagnosticInfo" -> DropDiagnosticInfo(c, h)
      [] OTHER -> DropMembers(type, c, h)

(* The copies r and one more.                                              *)
AndCopy(r, y) == Copied(r.ok /\ y.ok, Append(r.c, y.c), y.h)

(* UA_Array_copy goes on after an element that could not be copied, then   *)
(* deletes the array, and leaves the pointer to it.                        *)
ElementsCopied(type, p, r) ==
    IF r.ok THEN Copied(TRUE, [p |-> p, els |-> r.c], r.h)
    ELSE Copied(FALSE, [p |-> p, els |-> <<>>], Dangling(DropArray(type, [p |-> p, els |-> r.c], r.h)))
CopyArray(type, a, h) ==
    IF a.at = <<>> THEN Copied(TRUE, NullArray, h)
    ELSE LET m == Malloc(h)
         IN CASE m.p = NULL -> Copied(FALSE, NullArray, m.h)
              [] m.p # NULL /\ IsFixedSize(type) -> Copied(TRUE, [p |-> m.p, els |-> <<>>], m.h)
              [] OTHER ->
                   ElementsCopied(type, m.p, FoldLeft(LAMBDA r, x : AndCopy(r, Copy(type, x, r.h)),
                                                      Copied(TRUE, <<>>, m.h), a.at))

(* The members in their order, up to the one that fails.                   *)
CopyMember(m, x, h) == IF m.isArray THEN CopyArray(m.type, x, h) ELSE Copy(m.type, x, h)
MembersCopied(type, r) == IF r.ok THEN r ELSE Copied(FALSE, NoPointers, DropMembers(type, r.c, r.h))
CopyMembers(type, x, h) ==
    MembersCopied(type, FoldLeft(LAMBDA r, i : IF r.ok THEN AndCopy(r, CopyMember(Members(type)[i], x[i], r.h))
                                               ELSE r,
                                 Copied(TRUE, <<>>, h), [i \in DOMAIN Members(type) |-> i]))

CopyNodeId(id, h) == IF id.type \in {"numeric", "guid"} THEN Copied(TRUE, NoPointers, h)
                     ELSE Copy("String", id.id, h)
(* Two members are both copied, whatever becomes of the first.             *)
CopyBoth(first, x, second, y, h) ==
    LET Both(a, b) == IF a.ok /\ b.ok THEN Copied(TRUE, <<a.c, b.c>>, b.h)
                      ELSE Copied(FALSE, NoPointers, Drop(second, b.c, Drop(first, a.c, b.h)))
        AndSecond(a) == Both(a, Copy(second, y, a.h))
    IN AndSecond(Copy(first, x, h))

(* UA_Variant_copy deletes what it has when it fails, before the type and  *)
(* the length are known as a single Boolean.                               *)
DimsCopied(all, d) ==
    IF d.ok THEN Copied(TRUE, [all EXCEPT !.dims = d.c], d.h)
    ELSE Copied(FALSE, NoPointers, DropVariant([all EXCEPT !.dims = d.c], d.h))
DataCopiedKeepingData(v, a) ==
    LET all(d) == [type |-> v.type, data |-> a.c, dims |-> d.c]
        Kept(d) == Copied(d.ok, IF d.ok THEN all(d) ELSE NoPointers, d.h)
    IN IF a.ok THEN Kept(CopyArray("Int32", v.dims, a.h)) ELSE Copied(FALSE, NoPointers, Free(a.c.p, a.h))
DataCopied(v, a) ==
    IF a.ok THEN DimsCopied([type |-> v.type, data |-> a.c, dims |-> NullArray],
                            CopyArray("Int32", v.dims, a.h))
    ELSE Copied(FALSE, NoPointers, Free(a.c.p, a.h))
CopyVariant(v, h) == DataCopied(v, CopyArray(v.type, [len |-> v.len, at |-> v.at], h))

CopyDiagnosticInfo(d, h) ==
    LET Text == IF "info" \in d.has THEN Copy("String", d.info, h) ELSE Copied(TRUE, NoPointers, h)
        Info(s, inner) == [info |-> s.c, inner |-> inner]
        InnerCopied(s, p, y) == Copied(s.ok /\ y.ok, Info(s, [p |-> p, els |-> <<y.c>>]), y.h)
        WithMemory(s, m) ==
            IF m.p = NULL THEN Copied(FALSE, Info(s, NullArray), m.h)
            ELSE InnerCopied(s, m.p, Copy("DiagnosticInfo", d.inner[1], m.h))
        WithText(s) == IF "inner" \in d.has THEN WithMemory(s, Malloc(s.h))
                       ELSE Copied(s.ok, Info(s, NullArray), s.h)
        Result(r) == IF r.ok THEN r ELSE Copied(FALSE, NoPointers, DropDiagnosticInfo(r.c, r.h))
    IN Result(WithText(Text))

(* UA_copy *)
Copy(type, x, h) ==
    CASE IsFixedSize(type) -> Copied(TRUE, NoPointers, h)
      [] type = "NodeId" -> CopyNodeId(x, h)
      [] type = "ExpandedNodeId" -> CopyMembers(type, <<x.nodeId, x.uri, x.serverIndex>>, h)
      [] type = "ExtensionObject" -> CopyBoth("NodeId", x.typeId, "ByteString", x.body, h)
      [] type = "DataValue" -> CopyVariant(x.value, h)
      [] type = "Variant" -> CopyVariant(x, h)
      [] type = "DiagnosticInfo" -> CopyDiagnosticInfo(x, h)
      [] OTHER -> CopyMembers(type, x, h)

(* UA_Variant_setScalarCopy: on failure nothing is put into the variant.   *)
ScalarCopy(type, x, h) ==
    LET m == Malloc(h)
        In(p, y) ==
            IF y.ok THEN Copied(TRUE, [type |-> type, data |-> [p |-> p, els |-> <<y.c>>], dims |-> NullArray], y.h)
            ELSE Copied(FALSE, NoPointers, Free(p, Drop(type, y.c, y.h)))
    IN IF m.p = NULL THEN Copied(FALSE, NoPointers, m.h) ELSE In(m.p, Copy(type, x, m.h))

(* UA_Variant_setArrayCopy too.                                            *)
ArrayCopy(type, a, h) ==
    LET In(r) == Copied(r.ok, IF r.ok THEN [type |-> type, data |-> r.c, dims |-> NullArray] ELSE NoPointers, r.h)
    IN In(CopyArray(type, a, h))

(* The memory for the dimensions of a range, two at a time, for as many as *)
(* were begun: parse_numericrange.                                         *)
RangeMemory(begun, h) ==
    LET Grown(r, m) == IF m.p = NULL THEN Copied(FALSE, NoPointers, Free(r.c, m.h))
                       ELSE Copied(TRUE, m.p, Free(r.c, m.h))
        Next(r, i) == IF r.ok THEN Grown(r, Malloc(r.h)) ELSE r
        Held(r) == Copied(r.ok, IF r.ok THEN [type |-> "UInt32", data |-> [p |-> r.c, els |-> <<>>], dims |-> NullArray]
                                ELSE NoPointers, r.h)
    IN Held(FoldLeft(Next, Copied(TRUE, NULL, h), [i \in 1..(begun + 1) \div 2 |-> i]))

(* UA_Variant_copyRange of the elements s stops at one that cannot be      *)
(* copied, and leaves the deleted data in a variant of a single Boolean.   *)
RangeCopy(type, s, hasDims, h) ==
    LET m == Malloc(h)
        OrBefore(r, y) == IF y.ok THEN AndCopy(r, y) ELSE Copied(FALSE, r.c, y.h)
        Next(r, x) == IF r.ok THEN OrBefore(r, Copy(type, x, r.h)) ELSE r
        Left(data, g) ==
            Copied(FALSE, [type |-> "Boolean", data |-> [data EXCEPT !.els = <<>>], dims |-> NullArray],
                   Dangling(DropArray(type, data, g)))
        WithDims(data, d) ==
            IF hasDims /\ d.p = NULL THEN Left(data, d.h)
            ELSE Copied(TRUE, [type |-> type, data |-> data, dims |-> [p |-> d.p, els |-> <<>>]], d.h)
        WithData(p, r) ==
            IF r.ok THEN WithDims([p |-> p, els |-> r.c], IF hasDims THEN Malloc(r.h) ELSE [p |-> NULL, h |-> r.h])
            ELSE Left([p |-> p, els |-> r.c], r.h)
    IN IF m.p = NULL THEN Copied(FALSE, NoPointers, m.h)
       ELSE WithData(m.p, IF IsFixedSize(type) THEN Copied(TRUE, <<>>, m.h)
                          ELSE FoldLeft(Next, Copied(TRUE, <<>>, m.h), s))
=============================================================================
