----------------------------- MODULE MCReqWork -----------------------------
(***************************************************************************)
(* Instances of ReqWork for TLC: a plan whose array order is not its tier  *)
(* order and whose second task has no tier, and a reviewer and a reflector *)
(* who disagree on one key (Critical or Minor, must or may be fixed).      *)
(***************************************************************************)
EXTENDS ReqWork

CONSTANTS k1, k2, correctness

Plan == <<1, NoTier, 0>>

Finding(k, s, must, user) ==
    [key |-> k, severity |-> s, mustFix |-> must, userFacing |-> user]

Voices == [m \in Member |->
    IF m = Reflector
      THEN {{}, {Finding(k1, 2, FALSE, TRUE)}, {Finding(k2, 3, TRUE, FALSE)},
            {Finding(k1, 0, FALSE, FALSE)}}
      ELSE {{}, {Finding(k1, 2, FALSE, FALSE)}, {Finding(k2, 3, FALSE, FALSE)},
            {Finding(k1, 0, FALSE, FALSE), Finding(k2, 1, TRUE, FALSE)}}]
=============================================================================
