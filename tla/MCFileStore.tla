---------------------------- MODULE MCFileStore ----------------------------
(* Two processes; the second runs two tasks that share its pid. *)
EXTENDS FileStore, TLC

CONSTANTS t1, t2, t3, p1, p2

ThreeTasks == {t1, t2, t3}
TwoProcesses == {p1, p2}
TaskProcess == t1 :> p1 @@ t2 :> p2 @@ t3 :> p2
=============================================================================
