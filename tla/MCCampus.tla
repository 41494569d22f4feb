------------------------------ MODULE MCCampus ------------------------------
(***************************************************************************)
(* A campus of two places and the path between them, or of one place with  *)
(* a path to itself.                                                       *)
(***************************************************************************)
EXTENDS Campus

Drawing(nodes, edges, index) ==
    [p \in Path |-> CASE p = IndexPath -> index
                      [] \E i \in nodes : p = NodePath(i) -> There
                      [] \E e \in edges : p = EdgePath(e[1], e[2]) -> There
                      [] OTHER -> Null]

TwoPlaces == {Drawing({1, 2}, {<<1, 2>>, <<2, 1>>}, 2)}

MCDrawings == TwoPlaces \cup {Drawing({1}, {<<1, 1>>}, 1)}

=============================================================================
