--------------------------- MODULE MCModelLoader ---------------------------
(* Small instances of ModelLoader for TLC. *)
EXTENDS ModelLoader

CONSTANTS s1, s2, a, b, w1, w2

(* A model that fails validation beside a good one, and a file from which  *)
(* nothing can be loaded.                                                  *)
Swap == {[ok |-> {a}, bad |-> {}], [ok |-> {b}, bad |-> {a}]}
Mixed == Swap \cup {[ok |-> {}, bad |-> {a}]}
=============================================================================
