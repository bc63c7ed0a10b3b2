------------------------------- MODULE MCOgr -------------------------------
(***************************************************************************)
(* Small inputs of a conversion: all orders of a sorted input's elements,  *)
(* inputs that read an element twice or lack one, and relations of         *)
(* relations.                                                              *)
(***************************************************************************)
EXTENDS OgrConversion

CONSTANTS n1, n2, n3, v, w, area, outer, line

NodesOfWays == [x \in Way |-> IF x = v THEN <<n1, n2>> ELSE <<n2, n3>>]
MembersOfRelations ==
    [r \in Relation |-> CASE r = area -> <<v>> [] r = outer -> <<w, area>> [] r = line -> <<n1, outer, v>>]
Shapes == [r \in Relation |-> IF r = line THEN "line" ELSE "area"]

SomeInputs ==
    SetToSeqs({n1, n2, v, area})
      \cup {<<n1, n2, n3>> \o ways \o relations :
              ways \in SetToSeqs({v, w}), relations \in SetToSeqs({area, outer, line})}
      \cup {<<n1, n2, v, n3, w, n1, n2, v, area>>, <<n1, n1, n2, n3, n3, v>>, <<n1, n2, v, w, area, area>>,
            <<n1, n2, v, n3, area>>}

Sizes == [Kind -> {1, 2, 3}]
=============================================================================
