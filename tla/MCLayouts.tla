------------------------------ MODULE MCLayouts ------------------------------
(* Blocks of one and two elements near the origin, up to three of them, at all *)
(* strides up to four, and subsets without an end.                             *)
EXTENDS Layouts

Small == {[first |-> f, last |-> f + len, n |-> n, stride |-> s] :
            f \in 0 .. 2, len \in 0 .. 1, n \in 1 .. 3, s \in {2, 3, 4}}
Endless == {[first |-> f, last |-> MAX, n |-> 1, stride |-> MAX] : f \in {0, 2}}
SimpleArgs == {a \in Small : a.n > 1 \/ a.stride = 2} \cup Endless
Pairs == {<< <<f, f + l>>, <<g, g + m>> >> : f \in 0 .. 2, l \in 0 .. 2, g \in 0 .. 5, m \in 0 .. 2}
Apart == {v \in Pairs : v[1][2] < v[2][1]}
Few == {a \in SimpleArgs : a.stride < 4}
ListArgs == {<< >>, <<3>>, <<2, 3>>, <<3, 2>>}
=============================================================================
