-------------------------- MODULE MCProjectionLane --------------------------
(***************************************************************************)
(* Small instances of ProjectionLane.                                      *)
(***************************************************************************)
EXTENDS ProjectionLane, TLC

CONSTANTS s1, s2, u1, e1, e2

\* s1 is the scope of repository u1; s2 has one generation, with evidence
\* about u1.
Owns == [s \in Scopes |-> IF s = s1 THEN u1 ELSE Null]
OwnOrShared == [s \in Scopes |-> [n \in 1 .. MaxGen |->
  IF s = s1 THEN {{}, {<<u1, e1>>}, {<<u1, e1>>, <<u1, e2>>}}
  ELSE IF n = 1 THEN {{<<u1, e2>>}} ELSE {}]]
=============================================================================
