--------------------------- MODULE MCDebugSession ---------------------------
(* Instances of DebugSession for TLC. The values of the constants are in   *)
(* the .cfg files: MCDebugSession.cfg (any client, breakpoints),           *)
(* MCSession.cfg (fair schedules of a client that follows the events it is *)
(* sent) and MCPause.cfg.                                                  *)
EXTENDS DebugSession, TLC

(* Every list of up to two lines, and those of three distinct slots, one   *)
(* more than there are triggers.                                           *)
Lists(n) == UNION {[1..k -> Address \cup {Unmapped}] : k \in 0..n}
AnyLines == Lists(2) \cup {s \in [1..3 -> Address] : \A i, j \in 1..3 : s[i] = s[j] => i = j}
OneLine == Lists(1)
NoLines == Lists(0)

(* Tasks are interchangeable, and so are instruction slots: no action or   *)
(* invariant compares them with anything but their own kind.               *)
Symmetry == Permutations(Task) \cup Permutations(Address)
=============================================================================
