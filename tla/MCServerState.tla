----------------------------- MODULE MCServerState -----------------------------
(* Two servers: two workloads being recorded while the operator configures *)
(* both; two of them being switched, for the run that loses a choice.      *)
EXTENDS ServerState, TLC

CONSTANTS p1, p2, a, b, typed, print

MCCommands == {Applied(a, print), Applied(b, print),
               Configure([s \in Servers |-> "on"], [s \in {a} |-> typed])}
MCSwitches == {SetEnabled(a, "on"), SetEnabled(b, "on")}
MCStored == {[Empty EXCEPT !.enabled[a] = "off"]}
MCSymmetry == Permutations(Procs)
================================================================================
