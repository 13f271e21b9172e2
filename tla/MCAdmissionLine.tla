-------------------------- MODULE MCAdmissionLine --------------------------
(***************************************************************************)
(* Instances of AdmissionLine for TLC.  "a" and "b" are front-door         *)
(* sessions connected at the start, "x" and "y" requests that arrive, and  *)
(* "t" is a token session.                                                 *)
(***************************************************************************)
EXTENDS AdmissionLine

OneConn == [s \in Sess |-> 1]
OneUser == [s \in Sess |-> 1]

\* "a" and "x" share the first target; the others are on the second.
TwoConns == [s \in Sess |-> IF s \in {"a", "x"} THEN 1 ELSE 2]

\* "x" and "t" belong to the same user.
TwoUsers == [s \in Sess |-> IF s \in {"x", "t"} THEN 2 ELSE 1]
============================================================================
