--------------------------- MODULE MCCoreconfCli ----------------------------
(***************************************************************************)
(* CoreconfCli with a few requests and short waits.                        *)
(***************************************************************************)
EXTENDS CoreconfCli

\* Every command and the scripted demo.
EveryCommand == Command \union {"demo"}

\* The commands whose exchanges overlap in the most ways.
Overlapping == {"get", "observe"}
=============================================================================
