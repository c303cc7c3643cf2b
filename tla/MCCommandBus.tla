---------------------------- MODULE MCCommandBus ----------------------------
(* Finite instances of CommandBus for TLC.                                 *)
EXTENDS CommandBus

MCOwnKeys == [c \in Commands |-> c]      \* every request its own key
MCSharedKey == [c \in Commands |-> 1]    \* retries of one request
=============================================================================
