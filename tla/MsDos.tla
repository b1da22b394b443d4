------------------------------- MODULE MsDos --------------------------------
(* The MS-DOS programs on one machine, one after another: those linked with the
   fnctl backend, which make any number of its calls, and the two NIO tools,
   which make one request each. *)
EXTENDS FnctlDos, NioLib

msdosVars == <<dosVars, tool>>

MsDosInit == DosInit /\ tool = NotRun

MsDosNext == \/ DosNext /\ tool' = NotRun
             \/ RunTool /\ NextProgram

MsDosSpec == MsDosInit /\ [][MsDosNext]_msdosVars
=============================================================================
