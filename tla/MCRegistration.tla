---------------------------- MODULE MCRegistration ----------------------------
(* Small instances of registration for TLC. *)
EXTENDS RegistrationProperties

CONSTANTS r1, r2, r3
=============================================================================
