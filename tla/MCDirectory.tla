---------------------------- MODULE MCDirectory ----------------------------
(* Instances of Directory, and with it of LoginFlow, for TLC. *)
EXTENDS Directory, TLC

(* Nobody and administrators. *)
MCGroupSets == {{}, {"admin"}}
=============================================================================
