-------------------------- MODULE MC_PointcloudMain --------------------------
(* Inputs for model checking PointcloudMain: the cframes a TCP server may  *)
(* send and the datagrams a UDP sender may send.                           *)
EXTENDS PointcloudMain

\* enum inno_cframe_type values and the "PS32" token of PointcloudUdp,
\* written out: the inputs must not refer back into the instances.
POINT == 1
CPOINT == 2
BBOX == 3
PS32Token == 80

\* TCP cframes: the three segment lengths on the wire (ctx, hdr, pts) and
\* the header fields (type, item_number).
\* One compact point: 4-byte handle, header, one 2-byte inno_cpoint.
MCCpoint == [ctx |-> 4, hdr |-> 2, type |-> CPOINT, item |-> 1, pts |-> 2]
\* An empty bounding-box cframe: the payload length is 0 (NULL buffer).
MCEmptyBbox == [ctx |-> 4, hdr |-> 2, type |-> BBOX, item |-> 0, pts |-> 0]
\* item_number says 2, the payload holds 1 item: a framing error.
MCMismatch == [ctx |-> 4, hdr |-> 2, type |-> CPOINT, item |-> 2, pts |-> 2]

MCFrames == {MCCpoint, MCEmptyBbox, MCMismatch}

\* UDP datagrams (tokens, see PointcloudUdp). What a server sends: a CPOINT
\* frame of one item, a POINT frame of one item, and one of two CPOINT items
\* too long for the buffer.
MCHonest == {<<PS32Token, 1, 1, 2, CPOINT, 1, 2, 7, 7>>,
             <<PS32Token, 1, 1, 2, POINT, 1, 3, 7, 7, 7>>,
             <<PS32Token, 1, 1, 2, CPOINT, 2, 4, 7, 7, 7, 7>>}
\* Malformed ones: a wrong handle length, a wrong item count, a wrong
\* points length, a wrong magic, and one of 8 bytes (magic and a length).
MCMalformed == {<<PS32Token, 2, 1, 2, CPOINT, 1, 2, 7, 7>>,
                <<PS32Token, 1, 1, 2, CPOINT, 2, 2, 7, 7>>,
                <<PS32Token, 1, 1, 2, CPOINT, 1, 3, 7, 7>>,
                <<0, 1, 1, 2, CPOINT, 1, 2, 7, 7>>,
                <<PS32Token, 1>>}
\* A sender that knows the client: a datagram rejected for its points
\* length that leaves item_number 2^W-1 and points length 2^W-2 in buff,
\* then one that ends after the header type.
MCCrafted == {<<PS32Token, 1, 1, 2, CPOINT, 255, 254, 7, 7>>,
              <<PS32Token, 1, 1, 2, CPOINT>>}

MCDatagrams == MCHonest \cup MCMalformed
MCHostile == MCDatagrams \cup MCCrafted
====
