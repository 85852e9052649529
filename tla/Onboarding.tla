----------------------------- MODULE Onboarding -----------------------------
(* What the setup assistant promises.  An installation is locked until the *)
(* one-time code is entered; work on it begins only while it is open, may  *)
(* be given up, and is the only way to take it into use; once in use it is *)
(* never offered for setup again.                                          *)
VARIABLE phase

Init == phase \in {"locked", "done"}

Unlock == phase = "locked" /\ phase' = "open"
Relock == phase = "open" /\ phase' = "locked"
Begin  == phase = "open" /\ phase' = "working"
GiveUp == phase = "working" /\ phase' \in {"locked", "open"}
Finish == phase = "working" /\ phase' = "done"

Next == Unlock \/ Relock \/ Begin \/ GiveUp \/ Finish
Spec == Init /\ [][Next]_phase
=============================================================================
