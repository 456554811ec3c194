----------------------------- MODULE SdkSession -----------------------------
(***************************************************************************)
(* What a lidar driver built on the SDK promises its owner, from the       *)
(* contract of src/driver/jaguar/sdk/src/inno_lidar_api.h:                  *)
(*                                                                         *)
(*  - callbacks run only after inno_lidar_start(), one at a time per       *)
(*    handle (one callback queue per handle);                              *)
(*  - after inno_lidar_stop() has returned no callback runs, so the        *)
(*    session is paused or closed only once the callback in flight has     *)
(*    finished; inno_lidar_close() follows the stop;                       *)
(*  - the run state the owner reads changes only when a callback reports  *)
(*    one, or is cleared when the session is closed.                       *)
(*                                                                         *)
(* There is one session at a time; the handle behind it is not visible.    *)
(***************************************************************************)
CONSTANTS
    Reports   \* run states a callback may report

VARIABLES
    session,   \* "off", "on", "draining" (stop requested) or "paused"
    inflight,  \* a callback is running
    status     \* the run state the owner reads

avars == <<session, inflight, status>>

Init ==
    /\ session = "off"
    /\ inflight = FALSE
    /\ status = 0

(* inno_lidar_start: a closed or paused session starts streaming.           *)
Begin ==
    /\ session \in {"off", "paused"}
    /\ session' = "on"
    /\ UNCHANGED <<inflight, status>>

(* A callback is entered; only while started, and never two at once.      *)
Deliver ==
    /\ session = "on"
    /\ ~inflight
    /\ inflight' = TRUE
    /\ UNCHANGED <<session, status>>

(* The callback returns, having reported a run state or not.               *)
Finish(v) ==
    /\ inflight
    /\ inflight' = FALSE
    /\ status' \in {status, v}
    /\ UNCHANGED session

(* inno_lidar_stop is called: no new callback from here on.                *)
Quiesce ==
    /\ session = "on"
    /\ session' = "draining"
    /\ UNCHANGED <<inflight, status>>

(* inno_lidar_stop returns (no callback in flight); the run state stays.   *)
Suspend ==
    /\ session = "draining"
    /\ ~inflight
    /\ session' = "paused"
    /\ UNCHANGED <<inflight, status>>

(* inno_lidar_stop has returned and inno_lidar_close follows: the session  *)
(* is gone and its run state cleared.                                      *)
Close ==
    /\ session \in {"draining", "off"}
    /\ ~inflight
    /\ session' = "off"
    /\ status' = 0
    /\ UNCHANGED inflight

Next ==
    \/ Begin \/ Deliver \/ Quiesce \/ Suspend \/ Close
    \/ \E v \in Reports : Finish(v)

(* A callback that has started returns, and a stop that has been called   *)
(* returns.                                                                *)
Spec ==
    /\ Init /\ [][Next]_avars
    /\ WF_avars(\E v \in Reports : Finish(v))
    /\ WF_avars(Suspend \/ Close)
====
