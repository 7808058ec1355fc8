------------------------------- MODULE MCRbhash -------------------------------
(* Small tables: k1 and k2 collide in every size, and with k3 in those of  *)
(* up to 4 slots, where their home is the last one; k4 is at home before   *)
(* them, in all but the table of a single slot.                            *)
EXTENDS RbhashSearch, TLC

CONSTANTS k1, k2, k3, k4, d1, d2, nul, blank, waste, wild, Zeroed

Sizes4 == {1, 2, 4}

Sizes8 == {2, 4, 8}

MCHash ==
  [k \in Keys |-> IF k = k3 THEN 7 ELSE IF k = k4 THEN 2 ELSE 3]

EmptySlot(key, h, data) == [live |-> FALSE, key |-> key, hash |-> h, dist |-> 0, data |-> data]

ZeroFill == {EmptySlot(blank, 0, nul)}

GarbageFill == {EmptySlot(blank, 0, nul), EmptySlot(waste, 3, wild)}

MCFill == IF Zeroed THEN ZeroFill ELSE GarbageFill
=============================================================================
