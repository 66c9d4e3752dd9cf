------------------------------ MODULE MCCloner ------------------------------
(***************************************************************************)
(* Instances of Cloner for TLC.  A site links its pages as a chain with a  *)
(* way back, as a star or not at all, and its scripts may make the one of  *)
(* the other; where they make all links, two pages share a file.  Its      *)
(* stylesheets import each other and share an image.                       *)
(***************************************************************************)
EXTENDS Cloner, TLC

CONSTANTS p1, p2, p3, p4, s1, s2, i1, i2

Chain == (p1 :> {p2} @@ p2 :> {p1, p3} @@ p3 :> {p4} @@ p4 :> {})
Star == [p \in Page |-> IF p = p1 THEN Page ELSE {p1}]
Single == [p \in Page |-> {}]

Plain ==
    [links |-> Star, rendered |-> Star, file |-> [p \in Page |-> p],
     refs |-> [p \in Page |-> IF p = p2 THEN {i1} ELSE {}], nested |-> [s \in Style |-> {}]]
Long == [Plain EXCEPT !.links = Chain]
App == [Plain EXCEPT !.links = Single, !.rendered = Chain, !.file[p2] = p1]
Styles ==
    [Plain EXCEPT !.links = Single, !.rendered = Single,
                  !.refs = [p \in Page |-> {s1, s2}],
                  !.nested = (s1 :> {s2, i1} @@ s2 :> {i1, i2})]

Sites == {Plain, Long, App, Styles}
=============================================================================
