------------------------------- MODULE Absence -------------------------------
(***************************************************************************)
(* Values that are none, for the modules that are put beside each other:   *)
(* an option that is not set, a result that is an error, a text that has   *)
(* not the form it should have.                                            *)
(***************************************************************************)

CONSTANTS Absent, Refused, Malformed     \* model values
=============================================================================
