-------------------------------- MODULE Rows --------------------------------
(* Tables and folders as partial functions.                                *)

Without(f, S) == [x \in DOMAIN f \ S |-> f[x]]
With(f, x, y) == [z \in DOMAIN f \cup {x} |-> IF z = x THEN y ELSE f[z]]
=============================================================================
