---------------------------- MODULE ApolloDriver ----------------------------
(***************************************************************************)
(* The Apollo driver package of src/driver: the Jaguar driver wrapper      *)
(* (DriverJaguar, with its SDK handles, callbacks and the owner that       *)
(* supervises it) and the Apollo component (InnovusionComponent, whose     *)
(* driver is seen through its SDK handle state only). The two models share *)
(* no variable; a behaviour is a behaviour of one of them, chosen at the   *)
(* start, with the other's state held at its initial value.                *)
(***************************************************************************)
CONSTANTS
    MaxRestarts, MaxPauses, Replay, YamlGiven, Levels, Codes,  \* DriverJaguar
    MaxFrames, MaxStatus, Channels                             \* InnovusionComponent

VARIABLES
    part,   \* which model the behaviour runs: "driver" or "component"
    handle_, is_running_, mtx, sdk, cb, pending, owner, seen, restarts, pauses,
    comp, writers, driver_, drv, alive, cbpc, frame, delivered, buf, statusN,
    pub, used

dvars == <<handle_, is_running_, mtx, sdk, cb, pending, owner, seen, restarts,
           pauses>>
cvars == <<comp, writers, driver_, drv, alive, cbpc, frame, delivered, buf,
           statusN, pub, used>>
vars == <<part, dvars, cvars>>

D == INSTANCE DriverJaguar
C == INSTANCE InnovusionComponent

Init == part \in {"driver", "component"} /\ D!Init /\ C!Init

\* A step of one model; the other model and the choice stay put.
DriverDo(A) == part = "driver" /\ A /\ UNCHANGED <<part, cvars>>
ComponentDo(A) == part = "component" /\ A /\ UNCHANGED <<part, dvars>>

DriverStep == DriverDo(D!Next)
ComponentStep == ComponentDo(C!Next)

Next == DriverStep \/ ComponentStep

(* Each model's own fairness, for the behaviours that run it: the owner   *)
(* thread, the component thread's destruction and a callback already       *)
(* running are scheduled fairly; the sensor and the framework are never    *)
(* obliged to act.                                                         *)
Fairness ==
    /\ WF_vars(DriverDo(D!OwnerStep))
    /\ \A h \in D!HandleIds : /\ WF_vars(DriverDo(D!AlarmLocked(h)))
                              /\ WF_vars(DriverDo(D!DataReturn(h)))
    /\ WF_vars(ComponentDo(C!DestroyMember \/ C!DestroyDriver \/ C!DriverJoin))
    /\ WF_vars(ComponentDo(C!Fill \/ C!Write))

Spec == Init /\ [][Next]_vars /\ Fairness

-----------------------------------------------------------------------------
(* The properties of DriverJaguar and InnovusionComponent; each module     *)
(* states them with their code.                                            *)

TypeOK == D!TypeOK /\ C!TypeOK

(* Every open SDK handle is the one in handle_.                            *)
NoLeakedHandle == D!NoLeakedHandle

(* A driver callback runs only on a started or stopping handle.            *)
CallbackOnLiveHandle == D!CallbackOnLiveHandle

(* A non-zero run state belongs to the handle the driver holds.            *)
RunStateOfCurrentHandle == D!RunStateOfCurrentHandle

(* DriverJaguar implements the SDK session contract of SdkSession.         *)
SessionSpec == D!SessionSpec

(* One message per CPOINT cframe on each configured channel, in order.     *)
OneMessagePerCpointFrame == C!OneMessagePerCpointFrame

(* No component callback runs once the component is freed.               *)
NoCallbackAfterFree == C!NoCallbackAfterFree

(* The component's destruction, once begun, ends with it freed.           *)
DestructionCompletes == C!DestructionCompletes
====
