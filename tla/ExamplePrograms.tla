--------------------------- MODULE ExamplePrograms ---------------------------
(***************************************************************************)
(* The two example programs of the SDK, src/driver/jaguar/sdk/examples:   *)
(* example1 drives several handles through callbacks, example2 reads one  *)
(* handle with inno_lidar_sync_read. A behaviour is a run of one of them,  *)
(* chosen at the start; the other's state stays at its initial value.      *)
(***************************************************************************)
CONSTANTS
    Instances, Repeat, MaxPolls, MaxAlarms, MaxHandles,  \* example1
    MaxReads, MaxItems                                    \* example2

VARIABLES
    prog,   \* which program runs: 1 or 2
    handles, is_alive, sdk, ctx, critical, pc, i, round, polls, alarms,
    keep_alive,
    writefile, step, out, lidar, cframe, reads, last_ret, exit_code

vars1 == <<handles, is_alive, sdk, ctx, critical, pc, i, round, polls, alarms,
           keep_alive>>
vars2 == <<writefile, step, out, lidar, cframe, reads, last_ret, exit_code>>
vars == <<prog, vars1, vars2>>

E1 == INSTANCE Example1
E2 == INSTANCE Example2

Init == prog \in {1, 2} /\ E1!Init /\ E2!Init

Example1Step == prog = 1 /\ E1!Next /\ UNCHANGED <<prog, vars2>>
Example2Step == prog = 2 /\ E2!Next /\ UNCHANGED <<prog, vars1>>

Next == Example1Step \/ Example2Step

(* example1 has no fairness (its runs check invariants only); example2's  *)
(* main takes every step it can.                                           *)
Spec ==
    /\ Init /\ [][Next]_vars
    /\ WF_vars(prog = 2 /\ E2!ProgramStep /\ UNCHANGED <<prog, vars1>>)

TypeOK == E1!TypeOK /\ E2!TypeOK

(* See Example1 and Example2 for each property.                           *)
AliveMeansRunning == E1!AliveMeansRunning

(* See Example2: a bad-handle or error read ends example2 cleanly.         *)
ReadErrorEndsProgram == E2!ReadErrorEndsProgram

(* See Example2: example2 returns with nothing left open.                  *)
NothingOpenAtExit == E2!NothingOpenAtExit

(* See Example2: process_cframe prints the first and last point only.      *)
PrintsFirstAndLast == E2!PrintsFirstAndLast
====
