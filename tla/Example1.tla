------------------------------ MODULE Example1 ------------------------------
(***************************************************************************)
(* The SDK example supervisor of src/driver/jaguar/sdk/examples/example1.cpp *)
(* running several lidar instances. main opens and starts one handle per   *)
(* instance, then polls the global is_alive[] every recheck_time, stops    *)
(* and closes an instance whose alarm callback cleared it and, with        *)
(* --keepalive, opens a new handle for it; after `duration` it stops and   *)
(* closes the live instances and begins the next of `repeat` rounds.      *)
(* The SDK calls inno_lidar_alarm_callback on each handle's own thread,    *)
(* with the instance index as context; no callback runs once              *)
(* inno_lidar_stop has returned.                                           *)
(*                                                                         *)
(* get_new_lidar_handle asserts that every SDK call succeeds, so an open   *)
(* failure aborts the program; the model opens successfully.               *)
(***************************************************************************)
EXTENDS Integers, FiniteSets, FiniteSetsExt

CONSTANTS
    Instances,   \* instance indexes 0 .. instance-1
    Repeat,      \* -r repeat
    MaxPolls,    \* duration / recheck_time
    MaxAlarms,   \* alarms the sensors raise in one run
    MaxHandles   \* handles the SDK hands out in one run

\* enum inno_alarm, enum inno_alarm_code (the codes that matter here)
INNO_ALARM_WARNING == 1
INNO_ALARM_CRITICAL == 3
INNO_ALARM_CODE_CANNOT_READ == 1
INNO_ALARM_CODE_LIB_VERSION_MISMATCH == 23

Handles == 1 .. MaxHandles
SdkStates == {"none", "open", "started", "stopped", "closed"}

VARIABLES
    handles,     \* int handles[MAX_INS]
    is_alive,    \* bool is_alive[MAX_INS]
    sdk,         \* SDK state of each handle
    ctx,         \* context (instance index) given to inno_lidar_set_callbacks
    critical,    \* handles that raised a restart-worthy alarm
    pc, i,       \* main's program counter and loop index
    round, polls, alarms,
    keep_alive   \* -k

vars == <<handles, is_alive, sdk, ctx, critical, pc, i, round, polls, alarms,
          keep_alive>>

TypeOK ==
    /\ handles \in [Instances -> Int]
    /\ is_alive \in [Instances -> BOOLEAN]
    /\ sdk \in [Handles -> SdkStates]
    /\ ctx \in [Handles -> Instances \cup {-1}]
    /\ critical \subseteq Handles
    /\ pc \in {"open", "alive", "poll", "cleanup", "done"}
    /\ i \in Instances \cup {-1}
    /\ round \in 0 .. Repeat /\ polls \in 0 .. MaxPolls
    /\ alarms \in 0 .. MaxAlarms

\* The next handle the SDK returns: handles are never reused.
Unused == {h \in Handles : sdk[h] = "none"}
NewHandle == Min(Unused)

\* The instance loop for (int i = 0; i < instance; i++): -1 ends it.
First == Min(Instances)
\* Faulty variant: the loop bound tested one past the end.
AfterIgnoringBound(j) == j + 1
After(j) == IF \E k \in Instances : k > j THEN Min({k \in Instances : k > j}) ELSE -1

Init ==
    /\ handles = [j \in Instances |-> 0]
    /\ is_alive = [j \in Instances |-> FALSE]
    /\ sdk = [h \in Handles |-> "none"]
    /\ ctx = [h \in Handles |-> -1]
    /\ critical = {}
    /\ pc = "open" /\ i = First
    /\ round = 0 /\ polls = 0 /\ alarms = 0
    /\ keep_alive \in BOOLEAN

-----------------------------------------------------------------------------
(* Round start, lines 296-300: get_new_lidar_handle (open, set callbacks   *)
(* with context i) and inno_lidar_start; the SDK thread may call back at   *)
(* once.                                                                   *)
OpenStart ==
    /\ pc = "open"
    /\ Unused # {}
    /\ LET h == NewHandle IN
         /\ handles' = [handles EXCEPT ![i] = h]
         /\ sdk' = [sdk EXCEPT ![h] = "started"]
         /\ ctx' = [ctx EXCEPT ![h] = i]
    /\ pc' = "alive"
    /\ UNCHANGED <<is_alive, critical, i, round, polls, alarms, keep_alive>>

(* Line 301: is_alive[i] = true, after the start.                          *)
SetAlive ==
    /\ pc = "alive"
    /\ is_alive' = [is_alive EXCEPT ![i] = TRUE]
    /\ i' = After(i)
    /\ pc' = IF After(i) = -1 THEN "poll" ELSE "open"
    /\ UNCHANGED <<handles, sdk, ctx, critical, round, polls, alarms, keep_alive>>

(* inno_lidar_alarm_callback on the thread of handle h: a critical or      *)
(* fatal alarm other than a library version mismatch clears is_alive of   *)
(* the instance in its context.                                            *)
AlarmCallback(h, level, code) ==
    /\ sdk[h] = "started"
    /\ alarms < MaxAlarms
    /\ alarms' = alarms + 1
    /\ IF level >= INNO_ALARM_CRITICAL /\ code # INNO_ALARM_CODE_LIB_VERSION_MISMATCH
       THEN /\ is_alive' = [is_alive EXCEPT ![ctx[h]] = FALSE]
            /\ critical' = critical \cup {h}
       ELSE UNCHANGED <<is_alive, critical>>
    /\ UNCHANGED <<handles, sdk, ctx, pc, i, round, polls, keep_alive>>

(* Lines 307-310: sleep recheck_time; after `duration`, clean up.          *)
Sleep ==
    /\ pc = "poll" /\ i = -1
    /\ IF polls < MaxPolls
       THEN polls' = polls + 1 /\ i' = First /\ UNCHANGED pc
       ELSE pc' = "cleanup" /\ i' = First /\ UNCHANGED polls
    /\ UNCHANGED <<handles, is_alive, sdk, ctx, critical, round, alarms, keep_alive>>

(* Lines 311-333 for instance i: a handle whose is_alive was cleared is   *)
(* stopped (joining its callback thread) and closed; with keep_alive a    *)
(* new handle is opened, is_alive set, and only then started.              *)
Check ==
    /\ pc = "poll" /\ i # -1
    /\ IF ~is_alive[i] /\ handles[i] > 0
       THEN LET old == handles[i] IN
            IF keep_alive
            THEN /\ Unused # {}
                 /\ LET h == NewHandle IN
                      /\ handles' = [handles EXCEPT ![i] = h]
                      /\ sdk' = [sdk EXCEPT ![old] = "closed", ![h] = "started"]
                      /\ ctx' = [ctx EXCEPT ![h] = i]
                      /\ is_alive' = [is_alive EXCEPT ![i] = TRUE]
            ELSE /\ handles' = [handles EXCEPT ![i] = -1]
                 /\ sdk' = [sdk EXCEPT ![old] = "closed"]
                 /\ UNCHANGED <<ctx, is_alive>>
       ELSE UNCHANGED <<handles, sdk, ctx, is_alive>>
    /\ i' = After(i)
    /\ UNCHANGED <<critical, pc, round, polls, alarms, keep_alive>>

\* Faulty variant: the clean-up leaves is_alive set.
CleanupKeepingAlive ==
    /\ pc = "cleanup" /\ i # -1
    /\ IF is_alive[i]
       THEN /\ sdk' = [sdk EXCEPT ![handles[i]] = "closed"]
            /\ handles' = [handles EXCEPT ![i] = 0]
       ELSE UNCHANGED <<sdk, handles>>
    /\ i' = After(i)
    /\ UNCHANGED <<is_alive, ctx, critical, pc, round, polls, alarms, keep_alive>>

(* Lines 337-344: stop and close each instance whose is_alive is set.      *)
Cleanup ==
    /\ pc = "cleanup" /\ i # -1
    /\ IF is_alive[i]
       THEN /\ sdk' = [sdk EXCEPT ![handles[i]] = "closed"]
            /\ is_alive' = [is_alive EXCEPT ![i] = FALSE]
            /\ handles' = [handles EXCEPT ![i] = 0]
       ELSE UNCHANGED <<sdk, is_alive, handles>>
    /\ i' = After(i)
    /\ UNCHANGED <<ctx, critical, pc, round, polls, alarms, keep_alive>>

(* Line 294: the next round, or return 0.                                  *)
EndRound ==
    /\ pc = "cleanup" /\ i = -1
    /\ round' = round + 1
    /\ IF round + 1 < Repeat
       THEN pc' = "open" /\ i' = First /\ polls' = 0
       ELSE pc' = "done" /\ UNCHANGED <<i, polls>>
    /\ UNCHANGED <<handles, is_alive, sdk, ctx, critical, alarms, keep_alive>>

(* main has returned; the model stops here.                                *)
Done == pc = "done" /\ UNCHANGED vars

Alarms == {<<INNO_ALARM_CRITICAL, INNO_ALARM_CODE_CANNOT_READ>>,
           <<INNO_ALARM_CRITICAL, INNO_ALARM_CODE_LIB_VERSION_MISMATCH>>,
           <<INNO_ALARM_WARNING, INNO_ALARM_CODE_CANNOT_READ>>}

Next ==
    \/ OpenStart \/ SetAlive \/ Sleep \/ Check \/ Cleanup \/ EndRound \/ Done
    \/ \E h \in Handles, a \in Alarms : AlarmCallback(h, a[1], a[2])

Spec == Init /\ [][Next]_vars

-----------------------------------------------------------------------------
(* An instance main believes alive runs on a started handle whose          *)
(* callbacks report to that instance: the restart (lines 319-323) and the *)
(* clean-up (338-343) keep handles[] and is_alive[] in step.              *)
AliveMeansRunning ==
    \A j \in Instances :
        is_alive[j] => /\ handles[j] \in Handles
                       /\ sdk[handles[j]] = "started"
                       /\ ctx[handles[j]] = j

(* When main polls, an instance whose current handle raised a critical     *)
(* alarm is not marked alive, so the poll restarts it.                     *)
AlarmNotLost ==
    pc = "poll" =>
        \A j \in Instances :
            handles[j] \in critical => ~is_alive[j]

(* Between rounds and at exit, every handle the program opened is closed  *)
(* (lines 337-344 stop and close the instances of the round): no SDK      *)
(* thread of an old round keeps running into the next one.                *)
RoundBoundary == pc = "done" \/ (pc = "open" /\ i = First)
NoHandleLeak == RoundBoundary => \A h \in Handles : sdk[h] \in {"none", "closed"}
====
