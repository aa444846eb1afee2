---------------------------- MODULE MCGuiScanner -----------------------------
(* GuiScanner with two scans, the first of up to two points and the second   *)
(* of none: enough for a scan to begin while, before and after the one       *)
(* before it is stopped, ends or is broken off, and for points to be cut,    *)
(* skipped or out of order.                                                  *)
EXTENDS GuiScanner

TwoThenNone == <<2, 0>>
==============================================================================
