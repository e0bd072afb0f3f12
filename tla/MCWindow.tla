---- MODULE MCWindow ----
(* A page of five units, a keyboard map that fits it and one that does not, *)
(* and modes that tie in width, in height and in everything.                 *)
EXTENDS Window
Mode(w, h, hz) == [w |-> w, h |-> h, hz |-> hz]
MCModeLists == {<<Mode(2, 1, 1)>>,
                <<Mode(1, 3, 3), Mode(2, 1, 1), Mode(2, 2, 1), Mode(2, 2, 1)>>,
                <<Mode(2, 2, 1), Mode(2, 1, 3), Mode(1, 3, 1), Mode(2, 2, 2)>>}
====
