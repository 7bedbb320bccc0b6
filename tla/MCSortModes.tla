----------------------------- MODULE MCSortModes -----------------------------
(* Manual sorting in its three modes for TLC: a behaviour has sessions in     *)
(* slot mode (SortSession) or sessions of one of the other modes (Workbench). *)
(* The two share no state, so exploring them side by side would only multiply *)
(* them: one of them waits where it starts while the other goes on.           *)
EXTENDS MCSortSession, Workbench

CONSTANT d

FourOrOne    == {<<a, b, c, d>>, <<b>>}
BenchAnswers == [bracket |-> {"champion", "challenger"}, cull |-> {"keep"}]

BenchWaits == BenchInit /\ mode = "bracket"

ModesInit == Init /\ BenchInit
ModesNext == \/ BenchWaits /\ Next /\ UNCHANGED bench
             \/ Init /\ BenchNext /\ UNCHANGED vars
ModesSpec == ModesInit /\ [][ModesNext]_<<vars, bench>>
==============================================================================
