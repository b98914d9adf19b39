------------------------------- MODULE MCOutput -------------------------------
(* Instance of Output for TLC: as many requests open at once as it takes    *)
(* for a straggler to meet a newest request and another old one.            *)
EXTENDS Output, TLC

Symmetry == Permutations(Slots)

================================================================================
