------------------------------ MODULE Example2 ------------------------------
(***************************************************************************)
(* The SDK example of src/driver/jaguar/sdk/examples/example2.cpp: one     *)
(* lidar read with the blocking inno_lidar_sync_read instead of callbacks. *)
(* main opens the optional CSV output, opens the handle (every SDK call is *)
(* asserted to succeed), then loops: reset cframe to NULL, read with a     *)
(* 0.2 s timeout, print and free a returned cframe, go on after a timeout, *)
(* and break on anything else; after the loop it closes the handle and    *)
(* the output file and returns 0.                                           *)
(*                                                                         *)
(* A cframe is the number of the read that returned it.                  *)
(***************************************************************************)
EXTENDS Integers, Sequences

CONSTANTS
    MaxReads,   \* sync_read calls the sensor answers in one run
    MaxItems    \* item_number values process_cframe is checked for

\* process_cframe's unsigned int loop index, narrowed to 8 bits.
UintMod == 2^8

(* inno_lidar_sync_read's results: 0 success, 1 bad handle, -1 error, -2   *)
(* timeout; -3 stands for any other value. The cframe is filled only on    *)
(* success, and the SDK may (the "impossible" branch) fail to fill it.     *)
SyncReadReturns == {0, 1, -1, -2, -3}

\* Faulty variant: the loop does not test i < item_number.
RECURSIVE PrintLoopIgnoringCount(_, _, _)
PrintLoopIgnoringCount(i, n, fuel) ==
    IF fuel = 0 \/ ~(i < 2) THEN <<>>
    ELSE LET j == IF i = 1 THEN (n - 1) % UintMod ELSE i
         IN <<j>> \o PrintLoopIgnoringCount((j + 1) % UintMod, n, fuel - 1)

(* process_cframe's print loop (lines 38-49): for (i = 0; i < 2 && i <     *)
(* item_number; i++) { if (i == 1) i = item_number - 1; print points[i] }. *)
(* The indexes printed, in order; fuel bounds a loop that would not end.   *)
RECURSIVE PrintLoop(_, _, _)
PrintLoop(i, n, fuel) ==
    IF fuel = 0 \/ ~(i < 2 /\ i < n) THEN <<>>
    ELSE LET j == IF i = 1 THEN (n - 1) % UintMod ELSE i
         IN <<j>> \o PrintLoop((j + 1) % UintMod, n, fuel - 1)

PrintedPoints(n) == PrintLoop(0, n, 4)

VARIABLES
    writefile,  \* -w given
    step,       \* main: "setup", "read", "close", "done"
    out,        \* writeFH: "none", "open", "closed"
    lidar,      \* the handle: "none", "open", "closed"
    cframe,     \* struct inno_cframe_header *cframe: 0 is NULL
    reads,      \* sync_read calls so far
    last_ret,   \* what the last sync_read returned
    exit_code   \* main's return value once step = "done"

vars == <<writefile, step, out, lidar, cframe, reads, last_ret, exit_code>>

TypeOK ==
    /\ writefile \in BOOLEAN
    /\ step \in {"setup", "read", "close", "done"}
    /\ out \in {"none", "open", "closed"}
    /\ lidar \in {"none", "open", "closed"}
    /\ cframe \in 0 .. MaxReads
    /\ reads \in 0 .. MaxReads
    /\ last_ret \in SyncReadReturns \cup {99}
    /\ exit_code \in {0, 2, 99}

Init ==
    /\ writefile \in BOOLEAN
    /\ step = "setup"
    /\ out = "none" /\ lidar = "none"
    /\ cframe = 0 /\ reads = 0
    /\ last_ret = 99 /\ exit_code = 99

-----------------------------------------------------------------------------
(* get_new_lidar_handle: open live or from file, load the filter, set the *)
(* parameters and (NULL) callbacks; each result is asserted, so the model *)
(* opens successfully.                                                      *)
GetNewLidarHandle == lidar' = "open"

\* Faulty variant: the lidar is opened before the output file is checked.
StartUpOpeningLidarFirst(fopenOk) ==
    /\ step = "setup"
    /\ GetNewLidarHandle
    /\ IF writefile /\ ~fopenOk
       THEN step' = "done" /\ exit_code' = 2 /\ UNCHANGED out
       ELSE /\ out' = IF writefile THEN "open" ELSE "none"
            /\ step' = "read" /\ UNCHANGED exit_code
    /\ UNCHANGED <<writefile, cframe, reads, last_ret>>

(* Lines 251-279: with -w, fopen the CSV file and return 2 if that fails; *)
(* then open the handle and set the reflectance mode (asserted).           *)
StartUp(fopenOk) ==
    /\ step = "setup"
    /\ IF writefile /\ ~fopenOk
       THEN step' = "done" /\ exit_code' = 2 /\ UNCHANGED <<out, lidar>>
       ELSE /\ out' = IF writefile THEN "open" ELSE "none"
            /\ GetNewLidarHandle
            /\ step' = "read" /\ UNCHANGED exit_code
    /\ UNCHANGED <<writefile, cframe, reads, last_ret>>

\* Faulty variant: a sensor error (-1) is retried like a timeout.
SyncReadRetryingError(r, fills) ==
    /\ step = "read"
    /\ reads < MaxReads
    /\ LET p == IF r = 0 /\ fills THEN reads + 1 ELSE 0 IN
         /\ cframe' = p
         /\ step' = IF r \in {-2, -1} \/ (r = 0 /\ p # 0) THEN "read" ELSE "close"
    /\ reads' = reads + 1 /\ last_ret' = r
    /\ UNCHANGED <<writefile, out, lidar, exit_code>>

(* One pass of the do-while loop (lines 280-304): cframe = NULL, then     *)
(* inno_lidar_sync_read. 0 with a cframe: process_cframe and free it; 0   *)
(* without one ("impossible"), 1, -1 or any other value: break; -2       *)
(* (timeout): continue.                                                    *)
SyncRead(r, fills) ==
    /\ step = "read"
    /\ reads < MaxReads
    /\ LET p == IF r = 0 /\ fills THEN reads + 1 ELSE 0 IN
         /\ cframe' = p
         /\ step' = IF r = -2 \/ (r = 0 /\ p # 0) THEN "read" ELSE "close"
    /\ reads' = reads + 1 /\ last_ret' = r
    /\ UNCHANGED <<writefile, out, lidar, exit_code>>

(* Lines 305-310: inno_lidar_close (start was never called, so the close  *)
(* needs no stop), fclose the output if open, return 0.                    *)
CloseAll ==
    /\ step = "close"
    /\ lidar' = "closed"
    /\ out' = IF out = "open" THEN "closed" ELSE out
    /\ step' = "done" /\ exit_code' = 0
    /\ UNCHANGED <<writefile, cframe, reads, last_ret>>

(* main has returned, or the sensor has answered its last read.           *)
Done ==
    /\ step = "done" \/ (step = "read" /\ reads = MaxReads)
    /\ UNCHANGED vars

ProgramStep ==
    \/ \E ok \in BOOLEAN : StartUp(ok)
    \/ \E r \in SyncReadReturns, fills \in BOOLEAN : (fills => r = 0) /\ SyncRead(r, fills)
    \/ CloseAll

Next == ProgramStep \/ Done

(* main runs on its own thread, and inno_lidar_sync_read returns within    *)
(* its timeout (plus 3 s on the first call), so every step of main that   *)
(* is enabled is taken.                                                    *)
Spec == Init /\ [][Next]_vars /\ WF_vars(ProgramStep)

-----------------------------------------------------------------------------
(* A read that reports a bad handle or a sensor error ends the program    *)
(* with the handle and the output file closed and exit status 0.           *)
ReadErrorEndsProgram ==
    last_ret \in {1, -1} ~>
        (step = "done" /\ lidar = "closed" /\ out # "open" /\ exit_code = 0)

(* Whatever path main returns by, no handle or output file is left open:  *)
(* the return 2 of a failed fopen comes before the handle is opened.       *)
NothingOpenAtExit == step = "done" => lidar # "open" /\ out # "open"

(* process_cframe prints the first and the last point of a frame and no   *)
(* index outside the frame, for every item_number including 0 and 1.      *)
PrintsFirstAndLast ==
    \A n \in 0 .. MaxItems :
        PrintedPoints(n) = IF n = 0 THEN <<>> ELSE IF n = 1 THEN <<0>> ELSE <<0, n - 1>>
====
