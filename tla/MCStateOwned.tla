---------------------------- MODULE MCStateOwned ---------------------------
(* Two addresses of states; what is written and the devices are alike.        *)
EXTENDS StateOwned, TLC

Alike == Permutations(Data) \cup Permutations(Device)
=============================================================================
