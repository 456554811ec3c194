----------------------------- MODULE MC_HttpCrc32 -----------------------------
(* A 16-bit CRC (reflected polynomial 0x8408, four hex digits), bodies of *)
(* up to seven bytes (one word, the 2-byte and the 1-byte tail) over two  *)
(* byte values, and every buffer length up to 1100 for the aarch64 path. *)
EXTENDS HttpCrc32

MCPoly == 33800
MCByteVals == {65, 200}
====
