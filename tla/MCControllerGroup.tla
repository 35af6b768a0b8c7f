-------------------------- MODULE MCControllerGroup ---------------------------
(***************************************************************************)
(* Small instances of ControllerGroup for TLC: two controllers.            *)
(***************************************************************************)
EXTENDS ControllerGroup

CONSTANTS c1, c2, n1, n2

MCConsumerOf == [c \in Controller |-> IF c = c1 THEN n1 ELSE n2]
MCServer     == [client \in Client |-> c1]

=============================================================================
