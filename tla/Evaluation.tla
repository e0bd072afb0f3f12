----------------------------- MODULE Evaluation -----------------------------
(***************************************************************************)
(* Loops and assignments: TLC evaluates an argument or a LET when, and as  *)
(* often as, it is used, and these operators once.                         *)
(***************************************************************************)
EXTENDS Integers

\* f(x), with x evaluated first.
Eager(f(_), x) == CHOOSE y \in {f(v) : v \in {w \in {x} : w = w}} : TRUE

\* The value of x after the loop for (i = 0; i < n; ++i) x = f(x, i).
Iterate(f(_, _), x, n) ==
    LET after[i \in 0 .. n] ==
            IF i = 0 THEN x ELSE Eager(LAMBDA v : f(v, i - 1), after[i - 1])
    IN  after[n]
=============================================================================
