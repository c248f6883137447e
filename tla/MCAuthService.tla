---------------------------- MODULE MCAuthService ----------------------------
(* One login, two overlapping requests.                                      *)
EXTENDS AuthService

CONSTANTS l1, r1, r2
=============================================================================
