----------------------------- MODULE RunControl -----------------------------
(***************************************************************************)
(* What the debug adapter promises a client that follows its events: the   *)
(* target runs at most once for each time the client asked, never while    *)
(* the client was last told it is stopped, and a stop is reported only of  *)
(* a target that is not running.                                           *)
(***************************************************************************)
VARIABLES
  told,     \* what the client was last told: "nothing", "running", "stopped", "ended"
  target,   \* "off", "halted", "running", "over"
  permit    \* the client has asked for a run that has not begun

vars == <<told, target, permit>>

Init == told = "nothing" /\ target \in {"off", "halted"} /\ permit = FALSE

Start == target = "off" /\ target' = "halted" /\ UNCHANGED <<told, permit>>

Ask == /\ told \in {"nothing", "stopped"}
       /\ told' = "running" /\ permit' = TRUE /\ UNCHANGED target

(* A continue. *)
Run == /\ permit /\ target = "halted"
       /\ target' = "running" /\ permit' = FALSE /\ UNCHANGED told

(* A step, too short to be seen running. *)
RunOnce == /\ permit /\ target = "halted"
           /\ target' \in {"halted", "over"} /\ permit' = FALSE /\ UNCHANGED told

Halt == /\ target = "running" /\ target' \in {"halted", "over"}
        /\ UNCHANGED <<told, permit>>

(* The run that was asked for cannot begin any more. *)
Forfeit == permit /\ permit' = FALSE /\ UNCHANGED <<told, target>>

ReportStop == /\ told = "running" /\ target # "running"
              /\ told' = "stopped" /\ permit' = FALSE /\ UNCHANGED target

ReportEnd == told' = "ended" /\ permit' = FALSE /\ UNCHANGED target

(* The simulator is lost, at any time. *)
Lose == target' = "over" /\ permit' \in {permit, FALSE} /\ UNCHANGED told

(* Nothing is promised to a client that has left or was told of the end. *)
Afterwards == told = "ended" /\ told' = "ended" /\ permit' = permit

Next == \/ Start \/ Ask \/ Run \/ RunOnce \/ Halt \/ Forfeit
        \/ ReportStop \/ ReportEnd \/ Lose \/ Afterwards

Spec == Init /\ [][Next]_vars
=============================================================================
