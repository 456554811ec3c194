---------------------------- MODULE DriverJaguar ----------------------------
(***************************************************************************)
(* Lifecycle of the Jaguar lidar driver (src/driver/jaguar/driver_jaguar) *)
(* together with the two threads that act on it:                          *)
(*                                                                         *)
(*  - the owner thread: the component's Init calls start() once; after    *)
(*    that a supervisor waits on the driver's condition variable for a     *)
(*    negative is_running_ and answers with stop() and, after a critical   *)
(*    alarm, start() again (spec 4.5 / 7: "requires external supervisor    *)
(*    to call stop()+close()+reopen"); the owner may also pause().         *)
(*  - the SDK callback thread of each lidar handle, which delivers alarm   *)
(*    and cframe callbacks one at a time while the handle is started       *)
(*    (inno_lidar_api.h: one callback queue per handle; no callback after  *)
(*    inno_lidar_stop() returns).                                          *)
(*                                                                         *)
(* Data is abstracted away: a callback is an alarm (level, code, whether   *)
(* the message starts with "end of file") or a frame.                      *)
(***************************************************************************)
EXTENDS Integers, FiniteSets

CONSTANTS
    MaxRestarts,   \* restarts the supervisor performs before giving up
    MaxPauses,     \* pause() calls the owner makes in one run
    Replay,        \* data_filename != "" (replay a raw data file)
    YamlGiven,     \* yaml_filename != ""
    Levels,        \* alarm levels the sensor reports (enum inno_alarm)
    Codes          \* alarm codes the sensor reports (enum inno_alarm_code)

\* enum inno_alarm and enum inno_alarm_code values used by the driver
INNO_ALARM_CRITICAL == 3
INNO_ALARM_CODE_CANNOT_READ == 1
INNO_ALARM_CODE_LIB_VERSION_MISMATCH == 23

\* Handle ids inno_lidar_open_* can hand out in one run; a failed open
\* returns a non-positive value.
HandleIds == 1 .. (MaxRestarts + 1)
OpenFailed == -1

ASSUME /\ MaxRestarts \in Nat /\ MaxPauses \in Nat
       /\ Replay \in BOOLEAN /\ YamlGiven \in BOOLEAN
       /\ Levels \subseteq 0..4 /\ Codes \subseteq 0..28

VARIABLES
    handle_,      \* DriverFactory::handle_
    is_running_,  \* DriverFactory::is_running_, guarded by mtx
    mtx,          \* owner of DriverFactory::mtx: "none", "sdk" or "owner"
    sdk,          \* SDK state of each handle id
    cb,           \* what the callback thread of each handle is running
    pending,      \* value the in-flight alarm callback is about to store
    owner,        \* program counter of the owner thread
    seen,         \* is_running_ value the supervisor woke up on
    restarts,     \* restarts performed so far
    pauses        \* pause() calls made so far

vars == <<handle_, is_running_, mtx, sdk, cb, pending, owner, seen, restarts,
          pauses>>

SdkStates == {"none", "opened", "started", "stopping", "stopped", "closed"}
OwnerPcs == {"init", "run", "woken", "stop", "stop_join", "restart",
             "pause_join", "paused", "done"}

TypeOK ==
    /\ handle_ \in HandleIds \cup {0, OpenFailed}
    /\ is_running_ \in {0, 1, -1, -2}
    /\ mtx \in {"none", "sdk", "owner"}
    /\ sdk \in [HandleIds -> SdkStates]
    /\ cb \in [HandleIds -> {"idle", "alarm", "data"}]
    /\ pending \in [HandleIds -> {0, 1, -1, -2}]
    /\ owner \in OwnerPcs
    /\ seen \in {0, 1, -1, -2}
    /\ restarts \in 0..MaxRestarts
    /\ pauses \in 0..MaxPauses

Init ==
    /\ handle_ = 0
    /\ is_running_ = 0
    /\ mtx = "none"
    /\ sdk = [h \in HandleIds |-> "none"]
    /\ cb = [h \in HandleIds |-> "idle"]
    /\ pending = [h \in HandleIds |-> 0]
    /\ owner = "init"
    /\ seen = 0
    /\ restarts = 0
    /\ pauses = 0

-----------------------------------------------------------------------------
(* The value message_callback_s_ stores into is_running_ for an alarm.     *)
AlarmOutcome(level, code, eofMsg) ==
    IF code = INNO_ALARM_CODE_CANNOT_READ /\ (eofMsg \/ Replay) THEN -2
    ELSE IF level >= INNO_ALARM_CRITICAL
            /\ code # INNO_ALARM_CODE_LIB_VERSION_MISMATCH THEN -1
    ELSE 1

(* init_(): open the live sensor or the replay file and register the      *)
(* callbacks; the open may fail (non-positive handle). Replay without a    *)
(* yaml file returns early and leaves handle_ alone.                       *)
FreshHandle == CHOOSE h \in HandleIds : sdk[h] = "none"

InitResults ==
    IF Replay /\ ~YamlGiven THEN {handle_} ELSE {FreshHandle, OpenFailed}

Opened(h) ==
    IF h > 0 /\ sdk[h] = "none" THEN [sdk EXCEPT ![h] = "opened"] ELSE sdk

(* inno_lidar_start(h): a valid handle starts streaming; an invalid one   *)
(* is rejected by the SDK.                                                 *)
SdkStart(h, s) ==
    IF h > 0 THEN [s EXCEPT ![h] = "started"] ELSE s

(* Faulty variant: every start() is counted as a restart.                 *)
StartCountingEveryStart ==
    /\ owner \in {"init", "restart", "paused"}
    /\ \E h \in IF handle_ <= 0 THEN InitResults ELSE {handle_} :
          /\ handle_' = h
          /\ sdk' = SdkStart(h, Opened(h))
    /\ restarts' = restarts + 1
    /\ owner' = "run"
    /\ UNCHANGED <<is_running_, mtx, cb, pending, seen, pauses>>

(* start(): if (handle_ <= 0) init_(); inno_lidar_start(handle_);         *)
(* return true. The owner goes on as if the driver were running.          *)
Start ==
    /\ owner \in {"init", "restart", "paused"}
    /\ \E h \in IF handle_ <= 0 THEN InitResults ELSE {handle_} :
          /\ handle_' = h
          /\ sdk' = SdkStart(h, Opened(h))
    /\ restarts' = IF owner = "restart" THEN restarts + 1 ELSE restarts
    /\ owner' = "run"
    /\ UNCHANGED <<is_running_, mtx, cb, pending, seen, pauses>>

(* pause(): if (handle_ > 0) inno_lidar_stop(handle_). inno_lidar_stop    *)
(* first refuses new callbacks, then joins the in-flight one.             *)
Pause ==
    /\ owner = "run"
    /\ pauses < MaxPauses
    /\ pauses' = pauses + 1
    /\ IF handle_ > 0
       THEN /\ sdk' = [sdk EXCEPT ![handle_] = "stopping"]
            /\ owner' = "pause_join"
       ELSE /\ owner' = "paused"
            /\ UNCHANGED sdk
    /\ UNCHANGED <<handle_, is_running_, mtx, cb, pending, seen, restarts>>

PauseJoin ==
    /\ owner = "pause_join"
    /\ cb[handle_] = "idle"
    /\ sdk' = [sdk EXCEPT ![handle_] = "stopped"]
    /\ owner' = "paused"
    /\ UNCHANGED <<handle_, is_running_, mtx, cb, pending, seen, restarts, pauses>>

(* The supervisor's predicate wait on cv: it wakes, holding mtx, only     *)
(* while is_running_ < 0, then releases mtx before acting.                *)
SupervisorWake ==
    /\ owner = "run"
    /\ mtx = "none"
    /\ is_running_ < 0
    /\ mtx' = "owner"
    /\ seen' = is_running_
    /\ owner' = "woken"
    /\ UNCHANGED <<handle_, is_running_, sdk, cb, pending, restarts, pauses>>

SupervisorUnlock ==
    /\ owner = "woken"
    /\ mtx' = "none"
    /\ owner' = "stop"
    /\ UNCHANGED <<handle_, is_running_, sdk, cb, pending, seen, restarts, pauses>>

(* stop(): if (handle_ > 0) { inno_lidar_stop; inno_lidar_close; }        *)
(* is_running_ = 0; handle_ = 0. inno_lidar_stop refuses new callbacks    *)
(* (Stop) and joins the one in flight (StopJoin); the close and the reset *)
(* follow in the same thread with no callback possible in between.         *)
AfterStop ==
    IF seen = -1 /\ restarts < MaxRestarts THEN "restart" ELSE "done"

(* Faulty variant: stop() clears handle_ but leaves is_running_ alone.    *)
StopFinishKeepingRunState(s) ==
    /\ sdk' = s
    /\ handle_' = 0
    /\ owner' = AfterStop
    /\ UNCHANGED is_running_

StopFinish(s) ==
    /\ sdk' = s
    /\ is_running_' = 0
    /\ handle_' = 0
    /\ owner' = AfterStop

(* Faulty variant: stop() closes the handle without inno_lidar_stop().   *)
StopWithoutSdkStop ==
    /\ owner = "stop"
    /\ IF handle_ > 0
       THEN StopFinish([sdk EXCEPT ![handle_] = "closed"])
       ELSE StopFinish(sdk)
    /\ UNCHANGED <<mtx, cb, pending, seen, restarts, pauses>>

Stop ==
    /\ owner = "stop"
    /\ IF handle_ > 0
       THEN /\ sdk' = [sdk EXCEPT ![handle_] = "stopping"]
            /\ owner' = "stop_join"
            /\ UNCHANGED <<handle_, is_running_>>
       ELSE StopFinish(sdk)
    /\ UNCHANGED <<mtx, cb, pending, seen, restarts, pauses>>

(* Faulty variant: stop() joins the callbacks but never closes the handle. *)
StopJoinWithoutClose ==
    /\ owner = "stop_join"
    /\ cb[handle_] = "idle"
    /\ StopFinish([sdk EXCEPT ![handle_] = "stopped"])
    /\ UNCHANGED <<mtx, cb, pending, seen, restarts, pauses>>

StopJoin ==
    /\ owner = "stop_join"
    /\ cb[handle_] = "idle"
    /\ StopFinish([sdk EXCEPT ![handle_] = "closed"])
    /\ UNCHANGED <<mtx, cb, pending, seen, restarts, pauses>>

-----------------------------------------------------------------------------
(* SDK callback thread of handle h.                                        *)

(* message_callback_s_ is entered; it classifies the alarm before taking  *)
(* the mutex.                                                              *)
AlarmCallback(h, level, code, eofMsg) ==
    /\ sdk[h] = "started"
    /\ cb[h] = "idle"
    /\ cb' = [cb EXCEPT ![h] = "alarm"]
    /\ pending' = [pending EXCEPT ![h] = AlarmOutcome(level, code, eofMsg)]
    /\ UNCHANGED <<handle_, is_running_, mtx, sdk, owner, seen, restarts, pauses>>

(* Under the unique_lock: is_running_ = value; cv.notify_all(); return.   *)
AlarmLocked(h) ==
    /\ cb[h] = "alarm"
    /\ mtx = "none"
    /\ is_running_' = pending[h]
    /\ cb' = [cb EXCEPT ![h] = "idle"]
    /\ UNCHANGED <<handle_, mtx, sdk, pending, owner, seen, restarts, pauses>>

(* data_callback_s_ -> data_callback_: forwards a non-NULL cframe to the  *)
(* component's callback and returns 0 (the SDK frees the frame).          *)
DataCallback(h) ==
    /\ sdk[h] = "started"
    /\ cb[h] = "idle"
    /\ cb' = [cb EXCEPT ![h] = "data"]
    /\ UNCHANGED <<handle_, is_running_, mtx, sdk, pending, owner, seen,
                   restarts, pauses>>

DataReturn(h) ==
    /\ cb[h] = "data"
    /\ cb' = [cb EXCEPT ![h] = "idle"]
    /\ UNCHANGED <<handle_, is_running_, mtx, sdk, pending, owner, seen,
                   restarts, pauses>>

-----------------------------------------------------------------------------
OwnerStep ==
    \/ Start \/ Pause \/ PauseJoin \/ SupervisorWake \/ SupervisorUnlock
    \/ Stop \/ StopJoin

SdkStep(h) ==
    \/ \E level \in Levels, code \in Codes, eofMsg \in BOOLEAN :
          AlarmCallback(h, level, code, eofMsg)
    \/ AlarmLocked(h)
    \/ DataCallback(h)
    \/ DataReturn(h)

Next == OwnerStep \/ \E h \in HandleIds : SdkStep(h)

(* The owner thread and a callback already running are scheduled fairly;  *)
(* the sensor is never obliged to raise an alarm or send a frame.         *)
Fairness ==
    /\ WF_vars(OwnerStep)
    /\ \A h \in HandleIds : WF_vars(AlarmLocked(h)) /\ WF_vars(DataReturn(h))

Spec == Init /\ [][Next]_vars /\ Fairness

-----------------------------------------------------------------------------
(* Properties                                                              *)

(* Every SDK handle that is open (not yet closed) is the one the driver   *)
(* holds in handle_: start()/init_ never open a second handle over a live *)
(* one and stop() never forgets to close before clearing handle_.         *)
NoLeakedHandle ==
    \A h \in HandleIds :
        sdk[h] \in {"opened", "started", "stopping", "stopped"} => h = handle_

(* A callback runs only on a handle that is started or whose              *)
(* inno_lidar_stop() is still joining it: stop() and pause() never close  *)
(* a handle under a running callback.                                      *)
CallbackOnLiveHandle ==
    \A h \in HandleIds :
        cb[h] # "idle" => sdk[h] \in {"started", "stopping"}

(* A non-zero run state always belongs to the handle the driver holds: an *)
(* alarm of a stopped handle never survives stop() into the next session  *)
(* (where the supervisor would restart a healthy sensor).                  *)
RunStateOfCurrentHandle ==
    is_running_ # 0 => handle_ > 0

(* A critical alarm on the current handle eventually makes the supervisor *)
(* stop that handle (spec 4.5: critical alarm -> hard error stop).         *)
ErrorLeadsToStop ==
    \A h \in HandleIds :
        (handle_ = h /\ is_running_ = -1) ~> (handle_ # h)
-----------------------------------------------------------------------------
(* Refinement: the driver keeps the SDK session contract of SdkSession.   *)
(* The session is the SDK state of the handle in handle_; a callback is   *)
(* in flight while any callback thread is inside a callback; the run      *)
(* state is is_running_.                                                   *)
SessionOf ==
    IF handle_ <= 0 THEN "off"
    ELSE CASE sdk[handle_] = "started"  -> "on"
           [] sdk[handle_] = "stopping" -> "draining"
           [] sdk[handle_] = "stopped"  -> "paused"
           [] OTHER                     -> "off"

Session == INSTANCE SdkSession
               WITH Reports <- {1, -1, -2},
                    session <- SessionOf,
                    inflight <- \E h \in HandleIds : cb[h] # "idle",
                    status <- is_running_

(* start(), pause(), stop() and the two callbacks together implement the  *)
(* session contract: callbacks begin only on a started handle, one at a   *)
(* time; pause and stop end a session only after the callback in flight  *)
(* has returned; stop clears the run state; a started stop returns.       *)
SessionSpec == Session!Spec
=============================================================================
