------------------------------ MODULE AddressMap ------------------------------
(***************************************************************************)
(* What stage-2 translation promises: the hypervisor gives guest pages a   *)
(* physical page each, one that no other guest page has, and a page keeps  *)
(* the translation it was given.  Device pages translate to themselves.    *)
(***************************************************************************)
CONSTANTS Ipa, Memory, Device, None

VARIABLE map

Init == map = [i \in Ipa |-> None]

Fresh(pa) == pa \in Memory /\ pa \notin {map[j] : j \in Ipa}

Map(i) ==
    /\ map[i] = None
    /\ Fresh(map'[i]) \/ (i \in Device /\ map'[i] = i)
    /\ map' = [map EXCEPT ![i] = map'[i]]

Next == \E i \in Ipa : Map(i)

Spec == Init /\ [][Next]_map
==============================================================================
