------------------------------ MODULE Optional ------------------------------
(* What is absent: a nil pointer, an object that is not there, no error.   *)

CONSTANT None
=============================================================================
