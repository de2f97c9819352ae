-------------------------------- MODULE MCVault --------------------------------
(* A small vault: texts of two formats, one of them that of a token, and   *)
(* one without letters or digits, for which the masker can only redraw the  *)
(* text itself.                                                             *)
EXTENDS Vault, TLC

CONSTANTS a1, a2, a3, \* texts of one format
          k1, k2,     \* texts of another, k1 spelled like the first token
          p1          \* punctuation only

MCTexts == {a1, a2, a3, k1, k2, p1}

Formats == {{a1, a2, a3}, {k1, k2}, {p1}}

MCFP(t) == CHOOSE f \in Formats : t \in f

MCFallback(n) == IF n = 1 THEN k1 ELSE <<"MASK", n>>

MCSymmetry == Permutations({a1, a2, a3})
=============================================================================
