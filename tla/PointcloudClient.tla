--------------------------- MODULE PointcloudClient ---------------------------
(***************************************************************************)
(* The TCP client of the pointcloud server                                 *)
(* (src/driver/jaguar/sdk/apps/pointcloud_server/pointcloud_client.cpp):   *)
(* main's connect / read / reconnect loop, get_source_fd and               *)
(* connect_addr_port as their outcomes, and the stream reader              *)
(* read_and_process_tcp -> read_cframes_tcp ->                             *)
(* read_buffer_from_socket_with_length -> read_buffer_from_fd_full ->      *)
(* process_cframe, read() by read().                                       *)
(*                                                                         *)
(* The byte stream is a sequence of tokens. A length prefix is four        *)
(* big-endian bytes. The cframe header is abstracted to the two fields the *)
(* client reads (type, item_number), so sizeof(struct inno_cframe_header)  *)
(* is 2. The item structs get small distinct sizes, which keeps the        *)
(* divisibility checks meaningful. The server writes one byte at a time,   *)
(* in any interleaving with the client's reads, and may stop sending or    *)
(* close at any point.                                                     *)
(***************************************************************************)
EXTENDS Integers, Sequences, FiniteSets, TLC

CONSTANTS
    FrameSet,    \* cframes the server may send (records, see Encode)
    MaxFrames,   \* cframes per connection
    MaxConns     \* connection attempts main makes in one run

\* enum inno_cframe_type
INNO_CFRAME_POINT == 1
INNO_CFRAME_CPOINT == 2
INNO_CFRAME_BBOX == 3
INNO_CFRAME_TEXT == 4
INNO_CFRAME_ALARM == 5
INNO_CFRAME_CPOINT_EXT == 6

\* sizeof(struct inno_cframe_header), abstracted to (type, item_number)
HeaderSize == 2

\* Item sizes by type: process_cframe's switch knows no CPOINT_EXT.
UnitSize == (INNO_CFRAME_POINT :> 3) @@ (INNO_CFRAME_CPOINT :> 2)
            @@ (INNO_CFRAME_BBOX :> 4) @@ (INNO_CFRAME_TEXT :> 5)
            @@ (INNO_CFRAME_ALARM :> 6)

\* inno_get_cframe_item_size() of the SDK header: every payload type,
\* compact-point-extended included.
SdkItemSize == UnitSize @@ (INNO_CFRAME_CPOINT_EXT :> 1)

\* "PS32", the protocol magic the server sends once per connection.
PS32 == <<80, 83, 51, 50>>

\* A length prefix: uint32 in network byte order, n < 256.
LenField(n) == <<0, 0, 0, n>>

\* ntohl of four bytes.
Ntohl(b) == ((b[1] * 256 + b[2]) * 256 + b[3]) * 256 + b[4]

(* The bytes of one cframe: length + lidar handle (1), length + header,   *)
(* length + item array. f.ctx, f.hdr and f.pts are the three lengths the  *)
(* server writes; a header of the right size carries type and item.        *)
Encode(f) ==
    LenField(f.ctx) \o [i \in 1 .. f.ctx |-> IF i = f.ctx THEN 1 ELSE 0]
    \o LenField(f.hdr)
    \o (IF f.hdr = HeaderSize THEN <<f.type, f.item>>
        ELSE [i \in 1 .. f.hdr |-> 0])
    \o LenField(f.pts) \o [i \in 1 .. f.pts |-> 7]

RECURSIVE EncodeAll(_)
EncodeAll(fs) == IF fs = <<>> THEN <<>> ELSE Encode(Head(fs)) \o EncodeAll(Tail(fs))

\* Everything a server may send on one connection: a magic and 0..MaxFrames
\* cframes.
Streams ==
    {[magic |-> m, frames |-> fs] :
        m \in {PS32, <<0, 0, 0, 0>>},
        fs \in UNION {[1 .. n -> FrameSet] : n \in 0 .. MaxFrames}}

Bytes(s) == s.magic \o EncodeAll(s.frames)

\* Faulty variant: process_cframe without the item_number comparison.
ProcessCframeIgnoringItems(type, item, len) ==
    IF type \notin DOMAIN UnitSize THEN -1
    ELSE IF len % UnitSize[type] # 0 THEN -2
    ELSE 0

(* process_cframe(): the item size by type, then the payload length must  *)
(* be a whole number of items equal to item_number; an alarm cframe holds *)
(* exactly one item. 0, or -1 / -2.                                        *)
ProcessCframe(type, item, len) ==
    IF type \notin DOMAIN UnitSize THEN -1
    ELSE IF len % UnitSize[type] # 0 THEN -2
    ELSE IF len \div UnitSize[type] # item THEN -1
    ELSE IF type = INNO_CFRAME_ALARM /\ item # 1 THEN -1
    ELSE 0

\* Outcomes of get_source_fd() for TCP: the socket it leaves open, and fd.
\*   ok        connected and the subscription string written
\*   socket    socket() failed (-1)
\*   address   inet_pton failed (-2): returns without close(fd)
\*   options   a setsockopt/fcntl failed (-3..-9, -15, -16): close(fd)
\*   connect   select/connect failed or timed out (-10..-14): close(fd)
\*   subscribe writing the subscription failed: close(fd), fd = -1
ConnectOutcomes == {"ok", "socket", "address", "options", "connect", "subscribe"}
SocketLeft == [o \in ConnectOutcomes |-> IF o \in {"ok", "address"} THEN 1 ELSE 0]

VARIABLES
    pc,          \* main: "connect", "magic", "cframes", "exit"
    keep_alive,  \* --keep-alive
    conns,       \* connection attempts made
    sockets,     \* sockets the process holds open
    stream,      \* what the server sends on the current connection
    sent,        \* bytes of it the server has written
    srv,         \* server side: "sending" or "closed" (FIN)
    timeo,       \* SO_RCVTIMEO is set on the socket
    pos,         \* bytes the client has read
    seg,         \* segment being read: 0 magic, 1 lidar handle, 2 header, 3 items
    part,        \* "len" (the 4-byte prefix) or "body"
    buf,         \* the buffer read_buffer_from_fd_full fills
    got,         \* bytes read into buf
    hdr,         \* the header buffer (buf2) of the current cframe
    accepted,    \* cframes process_cframe accepted on this connection
    ret          \* process_ret: result of the last get_source_fd / read_and_process_tcp

vars == <<pc, keep_alive, conns, sockets, stream, sent, srv, timeo, pos, seg,
          part, buf, got, hdr, accepted, ret>>

Wire == Bytes(stream)
Reading == pc \in {"magic", "cframes"}
Zeros(n) == [i \in 1 .. n |-> 0]

\* What a cframe of the stream means to a reader: type, item_number, bytes.
Decoded(f) == [type |-> f.type, item |-> f.item, pts |-> f.pts]

TypeOK ==
    /\ pc \in {"connect", "magic", "cframes", "exit"}
    /\ keep_alive \in BOOLEAN
    /\ conns \in 0 .. MaxConns
    /\ sockets \in 0 .. MaxConns
    /\ stream \in Streams
    /\ sent \in 0 .. Len(Wire) /\ pos \in 0 .. sent
    /\ srv \in {"sending", "closed"}
    /\ timeo \in BOOLEAN
    /\ seg \in 0 .. 3 /\ part \in {"len", "body"}
    /\ got \in 0 .. Len(buf)
    /\ accepted \in Seq([type : Int, item : Int, pts : Int])
    /\ ret \in Int

Init ==
    /\ pc = "connect"
    /\ keep_alive \in BOOLEAN
    /\ conns = 0
    /\ sockets = 0
    /\ stream = [magic |-> PS32, frames |-> <<>>]
    /\ sent = 0 /\ srv = "sending" /\ timeo = FALSE /\ pos = 0
    /\ seg = 0 /\ part = "len" /\ buf = <<>> /\ got = 0 /\ hdr = <<>>
    /\ accepted = <<>>
    /\ ret = -1

-----------------------------------------------------------------------------
\* Faulty variant: a connection made without SO_RCVTIMEO.
ConnectWithoutTimeout(o) ==
    /\ pc = "connect"
    /\ conns < MaxConns
    /\ conns' = conns + 1
    /\ sockets' = sockets + SocketLeft[o]
    /\ IF o = "ok"
       THEN /\ \E s \in Streams : stream' = s
            /\ sent' = 0 /\ srv' = "sending" /\ timeo' = FALSE /\ pos' = 0
            /\ seg' = 0 /\ part' = "body" /\ buf' = Zeros(4) /\ got' = 0
            /\ accepted' = <<>>
            /\ pc' = "magic"
            /\ UNCHANGED <<hdr, ret>>
       ELSE /\ ret' = -1
            /\ pc' = IF keep_alive THEN "connect" ELSE "exit"
            /\ UNCHANGED <<stream, sent, srv, timeo, pos, seg, part, buf, got,
                           hdr, accepted>>
    /\ UNCHANGED keep_alive

(* main's do { fd = get_source_fd(...); ... } while (keep_alive): a       *)
(* connection attempt. On success the server starts a new stream and the   *)
(* client waits for its 4-byte magic; on failure process_ret = -1.         *)
(* connect_addr_port sets SO_RCVTIMEO to read_timeout_sec = 10.            *)
Connect(o) ==
    /\ pc = "connect"
    /\ conns < MaxConns
    /\ conns' = conns + 1
    /\ sockets' = sockets + SocketLeft[o]
    /\ IF o = "ok"
       THEN /\ \E s \in Streams : stream' = s
            /\ sent' = 0 /\ srv' = "sending" /\ timeo' = TRUE /\ pos' = 0
            /\ seg' = 0 /\ part' = "body" /\ buf' = Zeros(4) /\ got' = 0
            /\ accepted' = <<>>
            /\ pc' = "magic"
            /\ UNCHANGED <<hdr, ret>>
       ELSE /\ ret' = -1
            /\ pc' = IF keep_alive THEN "connect" ELSE "exit"
            /\ UNCHANGED <<stream, sent, srv, timeo, pos, seg, part, buf, got,
                           hdr, accepted>>
    /\ UNCHANGED keep_alive

(* The server writes the next byte of the stream, or closes.              *)
ServerSend ==
    /\ Reading
    /\ srv = "sending"
    /\ sent < Len(Wire)
    /\ sent' = sent + 1
    /\ UNCHANGED <<pc, keep_alive, conns, sockets, stream, srv, timeo, pos,
                   seg, part, buf, got, hdr, accepted, ret>>

ServerClose ==
    /\ Reading
    /\ srv = "sending"
    /\ srv' = "closed"
    /\ UNCHANGED <<pc, keep_alive, conns, sockets, stream, sent, timeo, pos,
                   seg, part, buf, got, hdr, accepted, ret>>

\* Faulty variant: each read asks for the full input_len, not what is left.
ReadSomeIgnoringProgress(r) ==
    /\ Reading
    /\ got < Len(buf)
    /\ r <= Len(buf)
    /\ pos + r <= sent
    /\ buf' = [i \in 1 .. Len(buf) |->
                  IF got < i /\ i <= got + r THEN Wire[pos + i - got] ELSE buf[i]]
    /\ got' = got + r
    /\ pos' = pos + r
    /\ UNCHANGED <<pc, keep_alive, conns, sockets, stream, sent, srv, timeo,
                   seg, part, hdr, accepted, ret>>

(* One read(fd, buf + got, len - got) of read_buffer_from_fd_full that     *)
(* returns r > 0 bytes: at most what is wanted and what has arrived. (A    *)
(* read interrupted by a signal, EINTR, is retried and changes nothing.)   *)
ReadSome(r) ==
    /\ Reading
    /\ got < Len(buf)
    /\ r <= Len(buf) - got
    /\ pos + r <= sent
    /\ buf' = [i \in 1 .. Len(buf) |->
                  IF got < i /\ i <= got + r THEN Wire[pos + i - got] ELSE buf[i]]
    /\ got' = got + r
    /\ pos' = pos + r
    /\ UNCHANGED <<pc, keep_alive, conns, sockets, stream, sent, srv, timeo,
                   seg, part, hdr, accepted, ret>>

\* main's exit status once the loop ends: -201 (read_cframes_tcp's -1) is 0.
ExitStatus == IF ret = -201 THEN 0 ELSE ret

(* read_and_process_tcp returns r: main closes fd and loops or leaves.      *)
EndSession(r) ==
    /\ ret' = r
    /\ sockets' = sockets - 1
    /\ pc' = IF keep_alive THEN "connect" ELSE "exit"

(* read_cframes_tcp returned r # 0: the while (ret == 0) loop ends with    *)
(* ret - 200.                                                              *)
EndCframes(r) ==
    /\ EndSession(r - 200)
    /\ UNCHANGED <<seg, part, buf, got, hdr, accepted>>

(* Go on with the length prefix of segment s.                              *)
NextSegment(s, h, a) ==
    /\ seg' = s /\ part' = "len" /\ buf' = Zeros(4) /\ got' = 0
    /\ hdr' = h /\ accepted' = a
    /\ UNCHANGED <<pc, sockets, ret>>

(* read_cframes_tcp after read_buffer_from_socket_with_length returned v  *)
(* for the current segment (v < 0 on error, 0 for an empty segment, whose *)
(* buffer is NULL, else the segment length; buf holds the segment).       *)
AfterSegment(v) ==
    CASE seg = 1 -> IF v = 4 THEN NextSegment(2, hdr, accepted)
                    ELSE EndCframes(IF v \in {-1, 0} THEN -1 ELSE v)
      [] seg = 2 -> IF v = HeaderSize THEN NextSegment(3, buf, accepted)
                    ELSE EndCframes(-2)
      [] seg = 3 -> IF v < 0 THEN EndCframes(v)
                    ELSE LET r == ProcessCframe(hdr[1], hdr[2], v) IN
                         IF r = 0
                         THEN NextSegment(1, hdr, Append(accepted,
                                  [type |-> hdr[1], item |-> hdr[2], pts |-> v]))
                         ELSE EndCframes(r)

(* A read returns 0 (the server closed and everything is read) or -1 with *)
(* EAGAIN (SO_RCVTIMEO expired with nothing to read):                      *)
(* read_buffer_from_fd_full returns -1 (r, for the timeout).               *)
ReadFail ==
    /\ Reading
    /\ got < Len(buf)
    /\ pos = sent
    /\ srv = "closed" \/ timeo
    /\ IF seg = 0
       THEN EndSession(-1) /\ UNCHANGED <<seg, part, buf, got, hdr, accepted>>
       ELSE AfterSegment(-1)
    /\ UNCHANGED <<keep_alive, conns, stream, sent, srv, timeo, pos>>

(* read_buffer_from_fd_full has filled its buffer and returns. For the    *)
(* magic, read_and_process_tcp compares it with "PS32"; for a length       *)
(* prefix, read_buffer_from_socket_with_length returns 0 on length 0 or    *)
(* reads the body; for a body it returns its length.                       *)
Complete ==
    /\ Reading
    /\ got = Len(buf)
    /\ \/ /\ seg = 0
          /\ IF buf = PS32
             THEN /\ pc' = "cframes"
                  /\ seg' = 1 /\ part' = "len" /\ buf' = Zeros(4) /\ got' = 0
                  /\ UNCHANGED <<sockets, ret, hdr, accepted>>
             ELSE /\ EndSession(-4)
                  /\ UNCHANGED <<seg, part, buf, got, hdr, accepted>>
       \/ /\ seg > 0 /\ part = "len"
          /\ IF Ntohl(buf) = 0
             THEN AfterSegment(0)
             ELSE /\ part' = "body" /\ buf' = Zeros(Ntohl(buf)) /\ got' = 0
                  /\ UNCHANGED <<pc, sockets, ret, seg, hdr, accepted>>
       \/ /\ seg > 0 /\ part = "body"
          /\ AfterSegment(Len(buf))
    /\ UNCHANGED <<keep_alive, conns, stream, sent, srv, timeo, pos>>

(* The loop is over: main returned, or the model's attempt bound is spent. *)
Done ==
    /\ \/ pc = "exit"
       \/ pc = "connect" /\ conns = MaxConns
    /\ UNCHANGED vars

Client == \/ \E o \in ConnectOutcomes : Connect(o)
          \/ \E r \in 1 .. 4 : ReadSome(r)
          \/ ReadFail
          \/ Complete
Server == ServerSend \/ ServerClose

Next == Client \/ Server \/ Done

(* The client never blocks for good while it can make progress, and the   *)
(* kernel's receive timeout eventually fires on a silent socket. The       *)
(* server owes the client nothing.                                         *)
Spec == Init /\ [][Next]_vars /\ WF_vars(Client)

-----------------------------------------------------------------------------
(* A cframe whose three segments have the sizes the wire format fixes and  *)
(* whose payload is item_number items of its type (spec 4.1, the SDK's    *)
(* item-size table).                                                       *)
WellFormed(f) ==
    /\ f.ctx = 4 /\ f.hdr = HeaderSize
    /\ f.type \in DOMAIN SdkItemSize
    /\ f.pts = f.item * SdkItemSize[f.type]
    /\ f.type = INNO_CFRAME_ALARM => f.item = 1

DecodedFrames == [i \in 1 .. Len(stream.frames) |-> Decoded(stream.frames[i])]

(* Reassembly: whatever the sizes of the reads and wherever the server    *)
(* stops, what read_cframes_tcp hands to process_cframe and gets accepted  *)
(* is, in order, the cframes the server sent, and each is well formed.    *)
AcceptedAreSent ==
    /\ Len(accepted) <= Len(stream.frames)
    /\ \A i \in 1 .. Len(accepted) :
          /\ accepted[i] = DecodedFrames[i]
          /\ WellFormed(stream.frames[i])

(* A connection whose server goes silent without closing ends: the        *)
(* SO_RCVTIMEO that connect_addr_port sets makes the blocked read return.  *)
SessionTerminates == Reading ~> ~Reading

(* Spec 4.2 and 7: a framing error drops the one cframe and the stream     *)
(* goes on; only end-of-stream ends the read loop. So once the server has  *)
(* sent its whole stream and closed and the session is over, every well   *)
(* formed cframe of it has been accepted.                                  *)
FramingErrorRecoverable ==
    (conns > 0 /\ ~Reading /\ stream.magic = PS32
       /\ sent = Len(Wire) /\ srv = "closed")
    => accepted = LET g == SelectSeq(stream.frames, WellFormed)
                  IN [i \in 1 .. Len(g) |-> Decoded(g[i])]

(* Every socket connect_addr_port creates is closed when get_source_fd    *)
(* fails or when the session ends: between sessions the process holds no  *)
(* socket.                                                                 *)
NoSocketLeak == sockets = IF Reading THEN 1 ELSE 0
====
