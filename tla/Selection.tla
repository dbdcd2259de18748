------------------------------ MODULE Selection ------------------------------
(***************************************************************************)
(* The list comprehensions of the code, [x for x in s if ...]: what is     *)
(* kept is given by the places of s that pass the test.                    *)
(***************************************************************************)
EXTENDS Integers, Sequences

\* The elements of s at the places in I, in their order.
Kept(s, I) ==
    LET Upto[n \in 0..Len(s)] ==
            IF n = 0 THEN <<>>
            ELSE IF n \in I THEN Append(Upto[n - 1], s[n]) ELSE Upto[n - 1]
    IN Upto[Len(s)]
=============================================================================
