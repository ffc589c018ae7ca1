--------------------------- MODULE ActionExecution ---------------------------
(***************************************************************************)
(* What the action gateway promises about one approved action, whatever    *)
(* crashes, expires or is stopped: the intent is on disk before the side   *)
(* effect, the side effect happens at most once, success is only reported  *)
(* for an effect that happened, and "verified" is the last word.           *)
(***************************************************************************)
CONSTANT Action

VARIABLES
    status,     \* the last receipt of each action
    performed   \* the actions whose side effect has happened

execVars == <<status, performed>>

ExecInit ==
    /\ status = [a \in Action |-> "none"]
    /\ performed = {}

Request(a) ==
    /\ status[a] = "none"
    /\ status' = [status EXCEPT ![a] = "requested"]
    /\ UNCHANGED performed

Attempt(a) ==
    /\ status[a] = "requested"
    /\ status' = [status EXCEPT ![a] = "attempted"]
    /\ UNCHANGED performed

Perform(a) ==
    /\ status[a] = "attempted"
    /\ a \notin performed
    /\ performed' = performed \cup {a}
    /\ UNCHANGED status

ReportFailure(a) ==
    /\ status[a] \in {"attempted", "committed"}
    /\ status' = [status EXCEPT ![a] = "failed"]
    /\ UNCHANGED performed

ReportSuccess(a) ==
    /\ a \in performed
    /\ \/ /\ status[a] = "attempted"
          /\ status' = [status EXCEPT ![a] = "committed"]
       \/ /\ status[a] \in {"attempted", "failed", "committed"}
          /\ status' = [status EXCEPT ![a] = "verified"]
    /\ UNCHANGED performed

ExecNext ==
    \E a \in Action :
        Request(a) \/ Attempt(a) \/ Perform(a) \/ ReportFailure(a) \/ ReportSuccess(a)

ExecSpec == ExecInit /\ [][ExecNext]_execVars
==============================================================================
