--------------------------- MODULE MCAuthSessions ---------------------------
(***************************************************************************)
(* Small instances of AuthSessions for TLC.                                 *)
(***************************************************************************)
EXTENDS AuthSessions, TLC

\* The identity of a request is never compared with anything but itself.
RequestSymmetry == Permutations(Requests)
=============================================================================
