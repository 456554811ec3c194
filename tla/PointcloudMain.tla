---------------------------- MODULE PointcloudMain ----------------------------
(***************************************************************************)
(* main of pointcloud_client.cpp runs one of two readers, chosen by --udp: *)
(* the TCP connect / read / reconnect loop of PointcloudClient, or the     *)
(* datagram loop of PointcloudUdp. The two share no state; the readers'    *)
(* variables of the same name are kept apart here.                         *)
(***************************************************************************)
CONSTANTS
    FrameSet, MaxFrames, MaxConns,             \* the TCP reader's
    Datagrams, MaxDatagrams, BufCap, InitTokens  \* the UDP reader's

VARIABLES
    use_udp,
    pc, keep_alive, conns, sockets, stream, sent, srv, timeo, pos, seg,
    part, buf, got, hdr, accepted, ret,
    buff, upc, uret, received, uaccepted

tvars == <<pc, keep_alive, conns, sockets, stream, sent, srv, timeo, pos, seg,
           part, buf, got, hdr, accepted, ret>>
uvars == <<buff, upc, uret, received, uaccepted>>
vars == <<use_udp, tvars, uvars>>

Tcp == INSTANCE PointcloudClient
Udp == INSTANCE PointcloudUdp WITH pc <- upc, ret <- uret, accepted <- uaccepted

(* Option parsing sets use_udp; both readers start in their initial state. *)
Init == use_udp \in BOOLEAN /\ Tcp!Init /\ Udp!Init

(* if (use_udp) read_and_process_udp(...) else read_and_process_tcp(...)   *)
TcpStep == ~use_udp /\ Tcp!Next /\ UNCHANGED <<use_udp, uvars>>
UdpStep == use_udp /\ Udp!Next /\ UNCHANGED <<use_udp, tvars>>

Next == TcpStep \/ UdpStep

(* The TCP client's steps are scheduled fairly, as in PointcloudClient.    *)
Spec == Init /\ [][Next]_vars /\ WF_vars(~use_udp /\ Tcp!Client /\ UNCHANGED <<use_udp, uvars>>)

-----------------------------------------------------------------------------
TypeOK == Tcp!TypeOK /\ Udp!TypeOK

(* TCP: the accepted cframes are the decoded prefix of what the server     *)
(* sent (PointcloudClient!AcceptedAreSent).                                *)
AcceptedAreSent == Tcp!AcceptedAreSent

(* TCP: every session of the keep-alive loop ends, thanks to SO_RCVTIMEO   *)
(* (PointcloudClient!SessionTerminates).                                   *)
SessionTerminates == Tcp!SessionTerminates

(* TCP: a framing error costs one cframe, not the rest of the stream      *)
(* (spec 4.2, 7; PointcloudClient!FramingErrorRecoverable).               *)
FramingErrorRecoverable == Tcp!FramingErrorRecoverable

(* TCP: the process holds a socket exactly while a session is being read  *)
(* (PointcloudClient!NoSocketLeak).                                        *)
NoSocketLeak == Tcp!NoSocketLeak

(* UDP: exactly the well-formed datagrams received are passed on, in      *)
(* order (PointcloudUdp!AcceptsExactlyWellFormed).                         *)
AcceptsExactlyWellFormed == Udp!AcceptsExactlyWellFormed
====
