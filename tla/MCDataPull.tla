----------------------------- MODULE MCDataPull ------------------------------
(* DataPull with points of five bytes, on the emulator's VNA (no echo, no    *)
(* prompt) and on one that echoes the command and prompts.                   *)
EXTENDS DataPull

CONSTANT r1

OneReader == {r1}
Emulator == [echo |-> 0, prompt |-> 0]
Echoing == [echo |-> 6, prompt |-> 2]
BothDevices == {Emulator, Echoing}
==============================================================================
