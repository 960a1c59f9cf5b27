------------------------------- MODULE Absent -------------------------------
(* What stands for an empty std::optional, a null pointer or a time point   *)
(* nobody has set, in the modules about the devices.                        *)
CONSTANT None
=============================================================================
