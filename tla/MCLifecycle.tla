---------------------------- MODULE MCLifecycle ----------------------------
(* Lifecycle instantiated for TLC: int scaled to 4 bits and long to 8, *)
(* so that an argument can be rejected (0, out of long range), accepted *)
(* and kept (3), or accepted and truncated by (int) (16 -> 0, 8 -> -8).  *)
EXTENDS Lifecycle

MCArgs == {0, 3, 8, 16, 300}
=============================================================================
