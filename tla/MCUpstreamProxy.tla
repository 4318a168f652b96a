--------------------------- MODULE MCUpstreamProxy ---------------------------
(***************************************************************************)
(* A Windows service without proxy variables whose system configuration    *)
(* moves between automatic, static and unreadable.                         *)
(***************************************************************************)
EXTENDS UpstreamProxy, TLC

CONSTANTS p1, p2, t1, t2, t3, site, localhost

Entry1(proxy) == <<[scheme |-> "any", proxy |-> proxy]>>
Windows(detect, script, server) ==
    [kind |-> "windows", detect |-> detect, script |-> script, server |-> server, bypass |-> {}]
AutoReading == Windows(TRUE, FALSE, Entry1(p2))
StaticReading == Windows(FALSE, FALSE, Entry1(p1))
Readings == {AutoReading, StaticReading, [kind |-> "unreadable"]}
AutomaticReadings == {AutoReading, Windows(TRUE, TRUE, <<>>)}
NoProxyVariables == [https |-> Unset, http |-> Unset, all |-> Unset, bypass |-> {}]
Symmetry == Permutations(Task)
=============================================================================
