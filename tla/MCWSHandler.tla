---------------------------- MODULE MCWSHandler ----------------------------
(***************************************************************************)
(* Clients of WSHandler: they say hello and act properly, or with one      *)
(* thing wrong.                                                            *)
(***************************************************************************)
EXTENDS WSHandler

Message(type, version, run, payload) ==
  [type |-> type, version |-> version, run |-> run, payload |-> payload]

MCMessages ==
  { Message("hello", 1, "this", "whole"), Message("hello", 1, "this", "forged"),
    Message("hello", 2, "this", "whole"), Message("hello", 1, "other", "whole"),
    Message("apply_action", 1, "this", "whole"), Message("apply_action", 1, "this", "broken"),
    Message("apply_action", 1, "none", "whole"), Message("pong", 0, "none", "broken"),
    Message("none", 0, "none", "broken") }

\* With two connections the ways to be refused are left to MCMessages.
FewMessages ==
  { Message("hello", 1, "this", "whole"), Message("apply_action", 1, "this", "whole"),
    Message("pong", 0, "none", "broken") }
=============================================================================
