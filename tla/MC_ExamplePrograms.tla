-------------------------- MODULE MC_ExamplePrograms --------------------------
(* example1 with two lidar instances, two rounds of two polls and enough  *)
(* handles for every round's opens plus one restart per alarm; example2   *)
(* with four reads, enough for a cframe, a timeout, an unfilled success    *)
(* after a freed cframe, and an error.                                     *)
EXTENDS ExamplePrograms

MCInstances == {0, 1}
MCMaxHandles == 6
====
