----------------------------- MODULE MC_Example1 -----------------------------
(* Two lidar instances, two rounds of two polls, and enough handles for  *)
(* every round's opens plus one restart per alarm.                        *)
EXTENDS Example1

MCInstances == {0, 1}
MCMaxHandles == 2 * Cardinality(MCInstances) + 2
====
