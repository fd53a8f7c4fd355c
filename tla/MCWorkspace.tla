---- MODULE MCWorkspace ----
(* Model checking of Workspace. *)
EXTENDS Workspace, TLC

\* The window of the application with up to two connections, and one opened
\* for a tab with up to one.
MCWindows == {<<{}, FALSE>>, <<{1}, FALSE>>, <<{1, 2}, FALSE>>, <<{}, TRUE>>, <<{1}, TRUE>>}

====
