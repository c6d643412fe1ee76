------------------------------- MODULE NoValue -------------------------------
(* The value of what is absent: a file, an input, an option not given.     *)
CONSTANT None
==============================================================================
