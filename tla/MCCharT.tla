------------------------------- MODULE MCCharT -------------------------------
(* Instances of CharT for TLC: the code points on either side of every     *)
(* boundary between forms, in pairs damaged once; texts of three symbols   *)
(* damaged once; single symbols of charTC_u8 damaged twice.                *)
EXTENDS CharT

Trial(checked, sample, length, misread) ==
  [checked |-> checked, sample |-> sample, length |-> length, changes |-> misread]

AllTrials ==
  {Trial(FALSE, {125, 126, 19808, 19809, 1114111}, 2, 1),
   Trial(FALSE, {125, 126, 19809}, 3, 1),
   Trial(TRUE, {97, 65, 6560, 6561, 538001, 538002, 1114111}, 2, 1),
   Trial(TRUE, {97, 11, 65, 6561, 538002}, 1, 2)}

ResyncTrials == {Trial(FALSE, {97, 126, 19809}, 3, 1)}
=============================================================================
