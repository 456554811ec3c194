------------------------- MODULE InnovusionComponent -------------------------
(***************************************************************************)
(* The Apollo component InnovusionComponent (src/driver/adapter_component) *)
(* and the two threads that use its members:                               *)
(*                                                                         *)
(*  - the component thread: Init() loads the config, creates the writers, *)
(*    selects a driver by the lidar model, copies the config and calls     *)
(*    driver_->start(); later the framework destroys the component, which  *)
(*    destroys its members in reverse declaration order (the destructor    *)
(*    body is empty), driver_ last: ~DriverJaguar calls stop(), which      *)
(*    refuses new callbacks and joins the one in flight;                   *)
(*  - the SDK callback thread of the lidar handle, which runs              *)
(*    data_callback_ for each cframe and, for the Falcon driver,          *)
(*    status_callback_ for each status string, one at a time.             *)
(*                                                                         *)
(* A cframe is abstracted to its index and type; the point arithmetic is  *)
(* in FrameDispatch. data_callback_ is split at the member accesses that   *)
(* can meet the destructor: the writer check, the filling of the message  *)
(* buffers, and the writes.                                                *)
(***************************************************************************)
EXTENDS Integers, Sequences, FiniteSets

CONSTANTS
    MaxFrames,   \* cframes the SDK delivers in one run
    MaxStatus,   \* status strings the SDK delivers in one run
    Channels     \* output channels a config may name

ASSUME Channels \subseteq {"pointcloud", "scan", "imu"}

INNO_CFRAME_CPOINT == 2
INNO_CFRAME_BBOX == 3
FrameTypes == {INNO_CFRAME_CPOINT, INNO_CFRAME_BBOX}

\* Driver families chosen by the lidar model regexes "rev_[i,f,b,r,k].*"
\* (Falcon) and "rev_[g,e,h].*" (Jaguar); any other model is unsupported.
Families == {"falcon", "jaguar", "unsupported"}

\* Members of InnovusionComponent with a non-trivial destructor, in
\* declaration order (adapter_component.h); is_running_ and
\* enable_fast_sin_cos are plain integers whose storage lives as long as
\* the object.
Members == <<"driver_", "conf_", "scan_writer_", "pointcloud_writer_",
             "imu_writer_", "point_cloud_ptr_", "scan_cloud_ptr_", "imu_ptr_">>
MemberSet == {Members[i] : i \in 1 .. Len(Members)}

\* The writer member and the message buffer of each channel.
WriterOf == [pointcloud |-> "pointcloud_writer_", scan |-> "scan_writer_",
             imu |-> "imu_writer_"]
BufferOf == [pointcloud |-> "point_cloud_ptr_", scan |-> "scan_cloud_ptr_",
             imu |-> "imu_ptr_"]
CloudChannels == Channels \cap {"pointcloud", "scan"}

VARIABLES
    comp,       \* component life: "new", "failed", "running", "destroying", "freed"
    writers,    \* channels whose writer Init created
    driver_,    \* family of the driver object driver_ holds, or "none"
    drv,        \* its handle: "none", "idle" (not opened), "started",
                \* "stopping" (stop() refused new callbacks), "stopped"
    alive,      \* members not yet destroyed
    cbpc,       \* SDK callback thread: "idle", "fill", "write"
    frame,      \* the cframe in flight
    delivered,  \* types of the cframes delivered so far, by index
    buf,        \* frame index the message in each channel's buffer was built for (0: null)
    statusN,    \* status strings delivered so far
    pub,        \* messages written on each channel (frame index, or 1 for an Imu)
    used        \* members the last callback step read or wrote

vars == <<comp, writers, driver_, drv, alive, cbpc, frame, delivered, buf,
          statusN, pub, used>>

TypeOK ==
    /\ comp \in {"new", "failed", "running", "destroying", "freed"}
    /\ writers \subseteq Channels
    /\ driver_ \in Families \cup {"none"}
    /\ drv \in {"none", "idle", "started", "stopping", "stopped"}
    /\ alive \subseteq MemberSet
    /\ cbpc \in {"idle", "fill", "write"}
    /\ frame \in [idx : 0 .. MaxFrames, type : FrameTypes]
    /\ delivered \in Seq(FrameTypes) /\ Len(delivered) <= MaxFrames
    /\ buf \in [Channels -> 0 .. MaxFrames]
    /\ statusN \in 0 .. MaxStatus
    /\ pub \in [Channels -> Seq(1 .. MaxFrames)]
    /\ used \subseteq MemberSet

Init ==
    /\ comp = "new"
    /\ writers = {}
    /\ driver_ = "none"
    /\ drv = "none"
    /\ alive = MemberSet
    /\ cbpc = "idle"
    /\ frame = [idx |-> 0, type |-> INNO_CFRAME_BBOX]
    /\ delivered = <<>>
    /\ buf = [c \in Channels |-> 0]
    /\ statusN = 0
    /\ pub = [c \in Channels |-> <<>>]
    /\ used = {}

-----------------------------------------------------------------------------
(* Reading a writer member: a live shared_ptr reads as set or null; a     *)
(* destroyed one is undefined behaviour and may read either way. The set  *)
(* of channels the callback may see a writer for.                         *)
WriterReads ==
    {seen \in SUBSET Channels :
        \A c \in Channels : WriterOf[c] \in alive => (c \in seen <=> c \in writers)}

\* Position of a member in the class declaration.
Pos(m) == CHOOSE i \in 1 .. Len(Members) : Members[i] = m

\* Members are destroyed in reverse declaration order.
NextToDestroy == CHOOSE m \in alive : \A o \in alive : Pos(o) <= Pos(m)

(* Init(): GetProtoConfig fails, nothing else happens.                    *)
InitConfigFailed ==
    /\ comp = "new"
    /\ comp' = "failed"
    /\ UNCHANGED <<writers, driver_, drv, alive, cbpc, frame, delivered, buf,
                   statusN, pub, used>>

(* Init(): create a writer for each channel the config names, then match  *)
(* the lowercased model: an unsupported model returns false with the      *)
(* writers created; otherwise construct the driver, copy the config into  *)
(* it and call driver_->start(), which may fail to open a handle (start() *)
(* still returns true), and return true.                                   *)
InitComponent(chans, family, opened) ==
    /\ comp = "new"
    /\ writers' = chans
    /\ IF family = "unsupported"
       THEN /\ comp' = "failed"
            /\ UNCHANGED <<driver_, drv>>
       ELSE /\ comp' = "running"
            /\ driver_' = family
            /\ drv' = IF opened THEN "started" ELSE "idle"
    /\ UNCHANGED <<alive, cbpc, frame, delivered, buf, statusN, pub, used>>

(* Faulty variant: the type filter covers the filling of the buffers but *)
(* not the writes, so any cframe type reaches the writes.                 *)
DataCallbackWritingEveryType(t) ==
    /\ drv = "started"
    /\ cbpc = "idle"
    /\ Len(delivered) < MaxFrames
    /\ delivered' = Append(delivered, t)
    /\ frame' = [idx |-> Len(delivered) + 1, type |-> t]
    /\ \E seen \in WriterReads :
          /\ used' = {"scan_writer_"} \cup
                     (IF "scan" \in seen THEN {} ELSE {"pointcloud_writer_"})
          /\ cbpc' = IF seen \cap CloudChannels = {} THEN "idle"
                     ELSE IF t = INNO_CFRAME_CPOINT THEN "fill" ELSE "write"
    /\ UNCHANGED <<comp, writers, driver_, drv, alive, buf, statusN, pub>>

(* data_callback_ entry: if (frame && (scan_writer_ || pointcloud_writer_)) *)
(* and frame->type == INNO_CFRAME_CPOINT the frame is processed, otherwise *)
(* the callback returns frame->item_number at once.                        *)
DataCallback(t) ==
    /\ drv = "started"
    /\ cbpc = "idle"
    /\ Len(delivered) < MaxFrames
    /\ delivered' = Append(delivered, t)
    /\ frame' = [idx |-> Len(delivered) + 1, type |-> t]
    /\ \E seen \in WriterReads :
          /\ used' = {"scan_writer_"} \cup
                     (IF "scan" \in seen THEN {} ELSE {"pointcloud_writer_"})
          /\ cbpc' = IF seen \cap CloudChannels # {} /\ t = INNO_CFRAME_CPOINT
                     THEN "fill" ELSE "idle"
    /\ UNCHANGED <<comp, writers, driver_, drv, alive, buf, statusN, pub>>

(* Lines 43-148: read driver_->time_fix_err_ms, reset the buffer of each   *)
(* channel with a writer to a new message for this frame, stamped from    *)
(* conf_, and convert the points (enable_fast_sin_cos selects the trig).  *)
Fill ==
    /\ cbpc = "fill"
    /\ \E seen \in WriterReads :
          LET cs == seen \cap CloudChannels IN
          /\ buf' = [c \in Channels |-> IF c \in cs THEN frame.idx ELSE buf[c]]
          /\ used' = {"driver_", "scan_writer_", "pointcloud_writer_", "conf_"}
                     \cup {BufferOf[c] : c \in cs}
    /\ cbpc' = "write"
    /\ UNCHANGED <<comp, writers, driver_, drv, alive, frame, delivered,
                   statusN, pub>>

(* Faulty variant: writes each channel with a writer without checking    *)
(* that its buffer holds a message.                                        *)
WriteWithoutBufferCheck ==
    /\ cbpc = "write"
    /\ \E seen \in WriterReads :
          LET cs == seen \cap CloudChannels IN
          /\ pub' = [c \in Channels |-> IF c \in cs THEN Append(pub[c], buf[c])
                                        ELSE pub[c]]
          /\ used' = {"scan_writer_", "pointcloud_writer_"}
                     \cup {BufferOf[c] : c \in cs}
    /\ cbpc' = "idle"
    /\ UNCHANGED <<comp, writers, driver_, drv, alive, frame, delivered, buf,
                   statusN>>

(* Lines 151-166: if (writer && buffer) writer->Write(buffer), for the     *)
(* scan and then the point-cloud channel; then return item_number.        *)
Write ==
    /\ cbpc = "write"
    /\ \E seen \in WriterReads :
          LET cs == {c \in seen \cap CloudChannels : buf[c] # 0} IN
          /\ pub' = [c \in Channels |-> IF c \in cs THEN Append(pub[c], buf[c])
                                        ELSE pub[c]]
          /\ used' = {"scan_writer_", "pointcloud_writer_"}
                     \cup {BufferOf[c] : c \in seen \cap CloudChannels}
    /\ cbpc' = "idle"
    /\ UNCHANGED <<comp, writers, driver_, drv, alive, frame, delivered, buf,
                   statusN>>

(* status_callback_ (Falcon only: DriverJaguar is built without a status  *)
(* callback): a status string that parses and holds "get-gyroscope-xyz"   *)
(* makes, if imu_writer_ is set, a new Imu in imu_ptr_; six get<int>()     *)
(* either all succeed and the Imu is written, or one throws a              *)
(* json::exception, caught, and nothing is written.                        *)
StatusCallback(gyro, fieldsOk) ==
    /\ driver_ = "falcon"
    /\ drv = "started"
    /\ cbpc = "idle"
    /\ statusN < MaxStatus
    /\ statusN' = statusN + 1
    /\ \E seen \in WriterReads :
          LET toImu == gyro /\ "imu" \in seen IN
          /\ used' = IF gyro THEN {"imu_writer_"} \cup
                                  (IF toImu THEN {"imu_ptr_"} ELSE {})
                     ELSE {}
          /\ pub' = IF toImu /\ fieldsOk THEN [pub EXCEPT !["imu"] = Append(@, 1)]
                    ELSE pub
    /\ UNCHANGED <<comp, writers, driver_, drv, alive, cbpc, frame, delivered,
                   buf>>

-----------------------------------------------------------------------------
(* ~InnovusionComponent(){}: the members are destroyed one by one in       *)
(* reverse declaration order; nothing stops the driver first.             *)
DestroyMember ==
    /\ comp \in {"failed", "running", "destroying"}
    /\ NextToDestroy # "driver_"
    /\ alive' = alive \ {NextToDestroy}
    /\ comp' = "destroying"
    /\ used' = {}
    /\ UNCHANGED <<writers, driver_, drv, cbpc, frame, delivered, buf, statusN,
                   pub>>

(* Faulty variant: the driver's destructor waits for the handle to be     *)
(* stopped instead of stopping it.                                          *)
DestroyDriverAwaitingStop ==
    /\ comp = "destroying"
    /\ alive = {"driver_"}
    /\ drv \notin {"started", "stopping"}
    /\ alive' = {}
    /\ comp' = "freed"
    /\ used' = {}
    /\ UNCHANGED <<writers, driver_, drv, cbpc, frame, delivered, buf, statusN,
                   pub>>

(* Faulty variant: the driver's destructor does not call stop().          *)
DestroyDriverWithoutStop ==
    /\ comp = "destroying"
    /\ alive = {"driver_"}
    /\ alive' = {}
    /\ comp' = "freed"
    /\ used' = {}
    /\ UNCHANGED <<writers, driver_, drv, cbpc, frame, delivered, buf, statusN,
                   pub>>

(* Destroying driver_ (the last reference): ~DriverJaguar() calls stop(): *)
(* with an open handle inno_lidar_stop refuses new callbacks and then      *)
(* joins the one in flight (DriverJoin); without one it only resets.      *)
(* The component's storage is released right after.                       *)
DestroyDriver ==
    /\ comp = "destroying"
    /\ alive = {"driver_"}
    /\ drv # "stopping"
    /\ IF drv = "started"
       THEN /\ drv' = "stopping"
            /\ UNCHANGED <<alive, comp>>
       ELSE /\ drv' = IF drv = "none" THEN "none" ELSE "stopped"
            /\ alive' = {}
            /\ comp' = "freed"
    /\ used' = {}
    /\ UNCHANGED <<writers, driver_, cbpc, frame, delivered, buf, statusN, pub>>

DriverJoin ==
    /\ drv = "stopping"
    /\ cbpc = "idle"
    /\ drv' = "stopped"
    /\ alive' = {}
    /\ comp' = "freed"
    /\ used' = {}
    /\ UNCHANGED <<writers, driver_, cbpc, frame, delivered, buf, statusN, pub>>

\* The component's life ends once it is freed.
Freed ==
    /\ comp = "freed"
    /\ UNCHANGED vars

-----------------------------------------------------------------------------
ComponentThread ==
    \/ InitConfigFailed
    \/ \E chans \in SUBSET Channels, family \in Families, opened \in BOOLEAN :
          InitComponent(chans, family, opened)
    \/ DestroyMember \/ DestroyDriver \/ DriverJoin \/ Freed

SdkThread ==
    \/ \E t \in FrameTypes : DataCallback(t)
    \/ Fill \/ Write
    \/ \E gyro, fieldsOk \in BOOLEAN : StatusCallback(gyro, fieldsOk)

Next == ComponentThread \/ SdkThread

(* The framework's destruction, once begun, runs to its end on the        *)
(* component thread, and a callback that has been entered returns: the    *)
(* SDK's callback thread is not blocked by the component thread (no lock *)
(* is shared). Init and the delivery of new cframes get no fairness.      *)
Spec ==
    /\ Init /\ [][Next]_vars
    /\ WF_vars(DestroyMember \/ DestroyDriver \/ DriverJoin)
    /\ WF_vars(Fill \/ Write)

-----------------------------------------------------------------------------
(* Properties                                                              *)

\* Indices of the CPOINT cframes delivered so far, in delivery order.
CpointIdx ==
    SelectSeq([i \in 1 .. Len(delivered) |-> i],
              LAMBDA i : delivered[i] = INNO_CFRAME_CPOINT)

(* While the component runs and no callback is in flight, each channel    *)
(* with a writer has received exactly one message per CPOINT cframe, in    *)
(* delivery order, and no message for any other cframe type: the type     *)
(* filter of data_callback_ guards the buffer reset and the writes alike. *)
OneMessagePerCpointFrame ==
    comp = "running" /\ cbpc = "idle" =>
        \A c \in CloudChannels :
            pub[c] = IF c \in writers THEN CpointIdx ELSE <<>>

(* No callback can run once the component's storage is released: the     *)
(* driver's destructor stops the handle and joins its callback before     *)
(* the object (the callbacks' context pointer) goes away.                 *)
NoCallbackAfterFree ==
    comp = "freed" => cbpc = "idle" /\ drv \notin {"started", "stopping"}

(* No step of data_callback_ or status_callback_ touches a member of the  *)
(* component that has already been destroyed.                              *)
NoUseAfterDestroy ==
    used \subseteq alive

(* Once the framework has begun to destroy the component, its storage is  *)
(* eventually released: ~DriverJaguar's stop() neither waits for a        *)
(* callback that never returns nor for a handle nobody stops.             *)
DestructionCompletes == comp = "destroying" ~> comp = "freed"
=============================================================================
