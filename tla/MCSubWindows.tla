---- MODULE MCSubWindows ----
(* Model checking of SubWindows: the editors are interchangeable. *)
EXTENDS SubWindows, TLC

EditorSymmetry == Permutations(Editors)
====
