---------------------------- MODULE KnownHostsMC ----------------------------
(* Two profiles without a list of host keys, or one of them with a list of one. *)
EXTENDS KnownHosts

OneKey      == {CHOOSE k \in Keys : TRUE}
OneSession  == CHOOSE s \in Sessions : TRUE
NobodyLists == [s \in Sessions |-> {}]
OneLists    == [NobodyLists EXCEPT ![OneSession] = OneKey]
MCProfiles  == {NobodyLists, OneLists}
=============================================================================
