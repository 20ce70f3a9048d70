--------------------------- MODULE MCAddressSpace ---------------------------
(* A type with a child, a node of it to come and two ids to assign.        *)
EXTENDS AddressSpace

CONSTANTS root, type, child, a, n1, n2, sub, def, prop, agg, comp, client, admin, null

MCIds == {root, type, child, a, n1, n2, sub, def, prop, agg, comp}
Node(class, name, refs) == [class |-> class, name |-> name, refs |-> refs, dangling |-> FALSE]
RefType(refs) == Node("ReferenceType", "other", refs)
MCBase ==
       root :> Node("Object", "other", <<>>)
    @@ type :> Node("ObjectType", "other", <<Reference(comp, TRUE, child)>>)
    @@ child :> Node("Variable", "child", <<Reference(comp, FALSE, type)>>)
    @@ sub :> RefType(<<>>) @@ def :> RefType(<<>>)
    @@ agg :> RefType(<<Reference(sub, TRUE, comp), Reference(sub, TRUE, prop)>>)
    @@ comp :> RefType(<<Reference(sub, FALSE, agg)>>)
    @@ prop :> RefType(<<Reference(sub, FALSE, agg)>>)

Item(id, class, parent, t, def_) ==
    [id |-> id, class |-> class, name |-> "other", parent |-> parent, type |-> t,
     typeDefinition |-> def_]
MCNew == {Item(a, "Object", root, comp, type), Item(a, "Variable", root, comp, null),
          Item(a, "Object", root, comp, child)}
Link(source, fwd, target) == [source |-> source, ref |-> Reference(comp, fwd, target)]
MCLinks == {Link(root, TRUE, a)}
All == {"Object", "Variable", "Method", "ObjectType", "VariableType", "ReferenceType"}
MCAsked == {[node |-> root, type |-> agg, subtypes |-> TRUE, direction |-> "forward", classes |-> All],
            [node |-> a, type |-> null, subtypes |-> FALSE, direction |-> "both", classes |-> {"Object", "Variable"}]}
MCMaxRefs == [n \in MCIds |-> IF n = root THEN 3 ELSE IF n = a THEN 4 ELSE 2]
=============================================================================
