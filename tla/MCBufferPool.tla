---------------------------- MODULE MCBufferPool ----------------------------
(* The buffer pool with the callers of the firmware: the Wi-Fi task and the  *)
(* client task, which run on either core, and the interrupt handlers, which  *)
(* run on core 1 one at a time.                                              *)
EXTENDS BufferPool

CONSTANTS wifi, client, handler

MCTasks == {wifi, client}
MCIsrs == {handler}
MCCores == {0, 1}
MCMayRunOn == [c \in MCTasks \cup MCIsrs |-> IF c \in MCIsrs THEN {1} ELSE {0, 1}]
=============================================================================
