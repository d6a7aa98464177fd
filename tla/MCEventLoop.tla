----------------------------- MODULE MCEventLoop -----------------------------
(* EventLoop with two phones, which just fit into m_clients, three numbers, *)
(* and batches of two events, so that the listener and the phones can be    *)
(* ready together and not fit (64 events, 64 clients in the code).          *)
EXTENDS EventLoop

Numbers == 1 .. 3
Keys == [A |-> [code |-> "KEY_A", shift |-> TRUE], a |-> [code |-> "KEY_A", shift |-> FALSE]]
Names == [enter |-> "KEY_ENTER"]
SomeCommands ==
  {<<"MOUSE_DOWN", "left">>, <<"MOUSE_UP", "left">>, <<"MOUSE_CLICK", "left">>,
   <<"MOUSE_CLICK", "middle">>, <<"KEY_TYPE", <<"A", "a">>>>, <<"KEY_PRESS", "enter">>}
=============================================================================
