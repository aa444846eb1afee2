--------------------------- MODULE MCCommandLine -----------------------------
(* CommandLine with a buffer of five words, two VNAs and two scans.  Users   *)
(* type up to two of the lines below.                                        *)
EXTENDS CommandLine

Words == ("-1" :> -1) @@ ("0" :> 0) @@ ("1" :> 1) @@ ("2" :> 2) @@ ("3" :> 3) @@ ("4" :> 4)
         @@ ("5" :> 5) @@ ("17" :> 17)

(* Some words can be cut in two, and some parts are commands and numbers of  *)
(* their own; the others count as one letter.                                *)
Halves ==
  ("17" :> {<<"1", "7">>}) @@ ("-1" :> {<<"-", "1">>}) @@ ("exit" :> {<<"ex", "it">>})
  @@ ("xexit" :> {<<"x", "exit">>, <<"xex", "it">>}) @@ ("xex" :> {<<"x", "ex">>})
ShortWords ==
  (DOMAIN Words \cup CodeWords \cup {"7", "-", "ex", "it", "sweep", "res", "speed", "x", "num",
                                     "help", "list", "remove", "a", "reset"}) \ DOMAIN Halves
WordParts == Halves @@ [w \in ShortWords |-> {}]

Spelling ==
  ("17" :> <<"1", "7">>) @@ ("-1" :> <<"-", "1">>) @@ ("exit" :> <<"ex", "it">>)
  @@ ("xexit" :> <<"x", "ex", "it">>) @@ ("xex" :> <<"x", "ex">>)
  @@ [w \in ShortWords |-> <<w>>]

Numbers == {"-1", "0", "1", "2", "17"}

SetLines ==
  {<<"set", p, n>> : p \in {"start", "stop", "res", "scans", "points", "sweeps", "speed"},
                     n \in {"0", "2", "17", "x"}}
ScanLines ==
  {<<"scan", m>> : m \in {"num", "time", "sweeps"}}
  \cup {<<"scan", "num", a>> : a \in Numbers \cup {"x"}}
  \cup {<<"sweep", "start", a, b>> : a \in Numbers, b \in Numbers}
  \cup {<<"sweep", "stop", a>> : a \in Numbers \cup {"x"}}
OtherLines ==
  {<< >>, <<"exit">>, <<"help">>, <<"help", "scan">>, <<"sweep", "stop">>, <<"sweep", "list">>,
   <<"vna", "add">>, <<"vna", "remove">>, <<"vna", "remove", "a">>, <<"vna", "reset">>,
   <<"set", "start">>, <<"scan">>, <<"list">>}
ManyIds ==
  {<<"scan", "num", a, b, c>> : a \in {"0", "1"}, b \in {"0", "1", "x"}, c \in {"0", "17", "x"}}
LongLines ==
  {<<"scan", "num", "0", "1", "0", "xexit">>, <<"sweep", "start", "1", "0", "1", "0">>,
   <<"help", "set", "x", "x", "x", "sweep", "stop">>}

Lines == SetLines \cup ScanLines \cup ManyIds \cup OtherLines \cup LongLines
UserScripts == {<<l>> : l \in Lines} \cup {<<k, l>> : k \in ScanLines \cup OtherLines, l \in Lines}

WrapperRequests ==
  {r \in [start : 1 .. 4, stop : 2 .. 5, time : BOOLEAN] : r.start < r.stop}
==============================================================================
