-------------------------------- MODULE Loops --------------------------------
(***************************************************************************)
(* Loops of C functions as recursive functions over the number of their    *)
(* iterations.                                                             *)
(***************************************************************************)
EXTENDS Integers

\* Op(x), with x evaluated once.
Of(x, Op(_)) == CHOOSE r \in {Op(v) : v \in {x}} : TRUE

\* Step applied to s as long as Going holds, at most n times.
Loop(Going(_), Step(_), s, n) ==
  LET run[k \in 0 .. n] ==
        IF k = 0 THEN s
        ELSE Of(run[k - 1], LAMBDA p : IF Going(p) THEN Step(p) ELSE p)
  IN  run[n]
=============================================================================
