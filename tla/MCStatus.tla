------------------------------ MODULE MCStatus ------------------------------
(* Codes of the library (one of which ends the process), of a client, and  *)
(* one that nobody need have registered.                                   *)
EXTENDS Status

CONSTANTS success, divby0, user

LibraryCodes == <<success, divby0>>
=============================================================================
