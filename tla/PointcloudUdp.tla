----------------------------- MODULE PointcloudUdp -----------------------------
(***************************************************************************)
(* The UDP path of pointcloud_client.cpp: main binds a socket              *)
(* (bind_udp_addr_port), then read_and_process_udp receives datagrams into *)
(* one char buff[1500] and hands each to read_cframe_udp, which reads the  *)
(* three length fields at fixed offsets and calls process_cframe. A bad    *)
(* datagram is skipped (ret - 300); a short one (n <= 8), a wrong magic or *)
(* a recvfrom error ends the client.                                       *)
(*                                                                         *)
(* Every 4-byte field of the datagram is one token of W bits, so           *)
(* unsigned arithmetic keeps its wrap-around (mod 2^W); the cframe header  *)
(* is two tokens (type, item_number); an item is UnitSize tokens. The     *)
(* buffer is not cleared between datagrams: bytes past n are those of an   *)
(* earlier datagram.                                                       *)
(***************************************************************************)
EXTENDS Integers, Sequences, FiniteSets, TLC

CONSTANTS
    Datagrams,     \* token sequences (after the magic) the network may deliver
    MaxDatagrams,  \* datagrams per run
    BufCap,        \* sizeof(buff), in tokens
    InitTokens     \* what the uninitialised buffer may hold

W == 8
Mod == 2^W

\* "PS32" as a token.
MAGIC == 80

\* Field sizes in tokens: a length field, the lidar handle, the header.
FieldTok == 1
HdrTok == 2
\* point_offset = 4 + 4 + 4 + sizeof(struct inno_cframe_header) + 4
PointOffset == FieldTok + FieldTok + FieldTok + HdrTok + FieldTok

\* enum inno_cframe_type
INNO_CFRAME_POINT == 1
INNO_CFRAME_CPOINT == 2
INNO_CFRAME_BBOX == 3
INNO_CFRAME_TEXT == 4
INNO_CFRAME_ALARM == 5

\* process_cframe's item sizes by type (no CPOINT_EXT), in tokens.
UnitSize == (INNO_CFRAME_POINT :> 3) @@ (INNO_CFRAME_CPOINT :> 2)
            @@ (INNO_CFRAME_BBOX :> 4) @@ (INNO_CFRAME_TEXT :> 5)
            @@ (INNO_CFRAME_ALARM :> 6)

(* process_cframe with C int arithmetic: the payload length may be         *)
(* negative; unit_n = buf3_len / unit_size is stored in an unsigned int    *)
(* and compared with item_number. (When unit_size divides buf3_len, C's    *)
(* truncating division and \div agree.)                                     *)
ProcessCframe(type, item, len) ==
    IF type \notin DOMAIN UnitSize THEN -1
    ELSE IF len % UnitSize[type] # 0 THEN -2
    ELSE IF (len \div UnitSize[type]) % Mod # item THEN -1
    ELSE IF type = INNO_CFRAME_ALARM /\ item # 1 THEN -1
    ELSE 0

\* Faulty variant: the lidar-handle length (first field) is not checked.
ReadCframeUdpIgnoringCtxLen(b, len) ==
    IF b[2 * FieldTok + 1] # HdrTok THEN -2
    ELSE IF (len - PointOffset) % Mod # b[PointOffset] THEN -3
    ELSE ProcessCframe(b[2 * FieldTok + 2], b[2 * FieldTok + 3], len - PointOffset)

(* read_cframe_udp(buff + 4, n - 4): b is the buffer after the magic. The *)
(* three length fields are read at fixed offsets whatever len is; the     *)
(* last comparison is `len - point_offset != l` in unsigned arithmetic.    *)
ReadCframeUdp(b, len) ==
    IF b[1] # FieldTok THEN -1
    ELSE IF b[2 * FieldTok + 1] # HdrTok THEN -2
    ELSE IF (len - PointOffset) % Mod # b[PointOffset] THEN -3
    ELSE ProcessCframe(b[2 * FieldTok + 2], b[2 * FieldTok + 3], len - PointOffset)

VARIABLES
    buff,       \* char buff[1500]
    pc,         \* "recv" or "exit"
    ret,        \* read_and_process_udp's ret / return value
    received,   \* datagrams received so far (history)
    accepted    \* datagrams process_cframe accepted (history)

vars == <<buff, pc, ret, received, accepted>>

TypeOK ==
    /\ buff \in [1 .. BufCap -> 0 .. Mod - 1]
    /\ pc \in {"recv", "exit"}
    /\ ret \in Int
    /\ Len(received) <= MaxDatagrams
    /\ accepted \in Seq(Seq(0 .. Mod - 1))

Init ==
    /\ buff \in [1 .. BufCap -> InitTokens]
    /\ pc = "recv"
    /\ ret = 0
    /\ received = <<>>
    /\ accepted = <<>>

-----------------------------------------------------------------------------
\* Faulty variant: recvfrom writes the whole datagram, past sizeof(buff).
RecvIgnoringCap(d) ==
    /\ pc = "recv"
    /\ Len(received) < MaxDatagrams
    /\ buff' = d \o SubSeq(buff, Len(d) + 1, BufCap)
    /\ received' = Append(received, d)
    /\ UNCHANGED <<pc, ret, accepted>>

(* One pass of read_and_process_udp's loop: recvfrom copies the first n    *)
(* <= sizeof(buff) tokens of datagram d over the buffer; n <= 8 bytes ends *)
(* with -2, a wrong magic with -4; otherwise read_cframe_udp(buff + 4,     *)
(* n - 4), a negative result lowered by 300, and the loop goes on.         *)
Recv(d) ==
    /\ pc = "recv"
    /\ Len(received) < MaxDatagrams
    /\ LET n == IF Len(d) < BufCap THEN Len(d) ELSE BufCap
           b == [k \in 1 .. BufCap |-> IF k <= n THEN d[k] ELSE buff[k]]
           r == ReadCframeUdp([k \in 1 .. BufCap - 1 |-> b[k + 1]], n - 1)
       IN /\ buff' = b
          /\ received' = Append(received, d)
          /\ CASE n <= 2 * FieldTok -> pc' = "exit" /\ ret' = -2 /\ UNCHANGED accepted
                [] b[1] # MAGIC    -> pc' = "exit" /\ ret' = -4 /\ UNCHANGED accepted
                [] OTHER           ->
                     /\ ret' = IF r < 0 THEN r - 300 ELSE r
                     /\ accepted' = IF r = 0 THEN Append(accepted, d) ELSE accepted
                     /\ UNCHANGED pc

(* recvfrom fails: perror and return -1.                                   *)
RecvError ==
    /\ pc = "recv"
    /\ pc' = "exit" /\ ret' = -1
    /\ UNCHANGED <<buff, received, accepted>>

(* The client has returned, or the network has sent its last datagram.    *)
Done ==
    /\ pc = "exit" \/ Len(received) = MaxDatagrams
    /\ UNCHANGED vars

Next == (\E d \in Datagrams : Recv(d)) \/ RecvError \/ Done

Spec == Init /\ [][Next]_vars

-----------------------------------------------------------------------------
(* A datagram as the server builds it (spec 39: self-contained, "PS32",    *)
(* then the lidar handle length and handle, the header length and header, *)
(* the points length and points), fitting in the client's 1500-byte       *)
(* buffer.                                                                 *)
WellFormed(d) ==
    /\ PointOffset < Len(d) /\ Len(d) <= BufCap
    /\ d[1] = MAGIC /\ d[2] = FieldTok /\ d[4] = HdrTok
    /\ d[5] \in DOMAIN UnitSize
    /\ d[PointOffset + 1] = Len(d) - 1 - PointOffset
    /\ d[PointOffset + 1] = d[6] * UnitSize[d[5]]
    /\ d[5] = INNO_CFRAME_ALARM => d[6] = 1

(* read_and_process_udp hands to process_cframe's consumers exactly the   *)
(* well-formed datagrams it received, in order: every malformed one is    *)
(* skipped, whatever the bytes an earlier datagram left in buff.          *)
AcceptsExactlyWellFormed == accepted = SelectSeq(received, WellFormed)
====
