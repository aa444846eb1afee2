----------------------------- MODULE MCPrototype -----------------------------
(* Two points of two bytes, up to five bytes of echo, every fault.           *)
EXTENDS Prototype

AllFaults == {"open", "get", "set", "restore", "malloc", "write", "read", "slow", "hangup"}
==============================================================================
