------------------------------- MODULE MCVnaUse ------------------------------
(* VnaUse on a table of two entries, two NanoVNAs and two readers; reads and *)
(* allocations fail.                                                         *)
EXTENDS VnaUse, TLC

CONSTANTS a, b, r1, r2

MCPaths == {a, b}
MCTooLong == {}
MCVnas == {a, b}
MCReaders == {r1, r2}
Alike == Permutations(MCReaders) \cup Permutations(MCPaths)
UseFaults == {"read", "malloc"}

(* The terminal settings are left out: they decide nothing here but what     *)
(* other settings become.                                                    *)
WithoutSettings ==
  <<ready, names, fds, total, opened, pc, jobVars, resetting, status,
    readerVars, askVars, line, ghosts>>
==============================================================================
