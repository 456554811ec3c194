------------------------------ MODULE HttpCrc32 ------------------------------
(***************************************************************************)
(* The CRC helpers of src/driver/falcon/sdk/src/utils/utils.cpp:           *)
(* InnoUtils::crc32_do (the x86 path: 4-byte words, then a 2-byte and a   *)
(* 1-byte step; the aarch64 path: an unrolled cascade of 8/4/2/1-byte     *)
(* steps), calculate_http_crc32 and verify_http_crc32.                     *)
(*                                                                         *)
(* The CRC is reflected, starts from all ones and ends with a complement  *)
(* (crc32_start/crc32_end, declared in utils.h). It is computed at width  *)
(* W with polynomial Poly, so TLC's integers hold it; "%8x" becomes a      *)
(* field of W \div 4 hex digits. A hardware step over k bytes               *)
(* (_mm_crc32_u32/u16/u8, CRC32CX/W/H/B) is the byte-wise CRC of those     *)
(* bytes in memory order; what the model checks is which bytes each path   *)
(* feeds, in which order.                                                  *)
(*                                                                         *)
(* A received HTTP buffer is abstracted to: whether it has an             *)
(* "X-INNO-CRC32" header and its value text, whether a blank line          *)
(* follows the headers, and the body bytes (a C string: no 0 byte).        *)
(***************************************************************************)
EXTENDS Integers, Sequences, Bitwise, FiniteSets

CONSTANTS
    W,           \* CRC width in bits, a multiple of 4
    Poly,        \* reflected polynomial of width W
    ByteVals,    \* byte values in urls and bodies
    MaxLen,      \* longest url and body
    MaxArmLen,   \* lengths the aarch64 cascade is checked for
    NULL         \* a null url pointer

ASSUME W % 4 = 0 /\ 0 \notin ByteVals

Ones == 2^W - 1
Digits == W \div 4

\* crc32_start() and crc32_end() of utils.h.
CrcStart == Ones
CrcEnd(c) == c ^^ Ones

\* One byte into a reflected CRC: eight shift/xor rounds on the low byte.
RECURSIVE Rounds(_, _)
Rounds(c, k) == IF k = 0 THEN c
                ELSE Rounds(IF c % 2 = 1 THEN (c \div 2) ^^ Poly ELSE c \div 2, k - 1)
\* The same update through a 256-entry table (computed once by TLC).
CrcTable == [k \in 0 .. 255 |-> Rounds(k, 8)]
CrcByte(c, b) == (c \div 256) ^^ CrcTable[(c ^^ b) % 256]

\* Reference: the byte-wise CRC of a byte sequence.
RECURSIVE CrcRef(_, _)
CrcRef(c, s) == IF s = <<>> THEN c ELSE CrcRef(CrcByte(c, Head(s)), Tail(s))

\* A hardware step over the bytes p+1 .. p+k of s.
Step(c, s, p, k) == CrcRef(c, SubSeq(s, p + 1, p + k))

\* Faulty variant: the 2-byte step dropped.
X86HalfNever(n) == FALSE
\* x86 crc32_do: buf_len & sizeof(uint16_t).
X86Half(n) == (n \div 2) % 2 = 1

\* x86 crc32_do: buf_len / 4 words, then the 2-byte and 1-byte tails.
RECURSIVE Words(_, _, _)
Words(c, s, i) == IF i = Len(s) \div 4 THEN c ELSE Words(Step(c, s, 4 * i, 4), s, i + 1)
Crc32DoX86(c, s) ==
    LET n == Len(s)
        p1 == 4 * (n \div 4)
        c1 == Words(c, s, 0)
        c2 == IF X86Half(n) THEN Step(c1, s, p1, 2) ELSE c1
        p2 == IF X86Half(n) THEN p1 + 2 ELSE p1
    IN IF n % 2 = 1 THEN Step(c2, s, p2, 1) ELSE c2

\* Faulty variant: the 16-byte block does one STEP8 instead of two.
ArmBlocksShort16 ==
    <<[test |-> 256, take |-> 32 * 8], [test |-> 128, take |-> 16 * 8],
      [test |-> 64, take |-> 8 * 8], [test |-> 32, take |-> 4 * 8],
      [test |-> 16, take |-> 8], [test |-> 8, take |-> 8],
      [test |-> 4, take |-> 4], [test |-> 2, take |-> 2], [test |-> 1, take |-> 1]>>
\* aarch64 crc32_do: after the 512-byte loop (64 STEP8s) each block is
\* `if (len >= test)` followed by STEPs that take `take` bytes.
ArmBlocks == <<[test |-> 256, take |-> 32 * 8], [test |-> 128, take |-> 16 * 8],
               [test |-> 64, take |-> 8 * 8], [test |-> 32, take |-> 4 * 8],
               [test |-> 16, take |-> 2 * 8], [test |-> 8, take |-> 8],
               [test |-> 4, take |-> 4], [test |-> 2, take |-> 2],
               [test |-> 1, take |-> 1]>>
RECURSIVE Loop512(_)
Loop512(n) == IF n >= 512 THEN <<64 * 8>> \o Loop512(n - 64 * 8) ELSE <<>>
RECURSIVE Cascade(_, _)
Cascade(n, k) ==
    IF k > Len(ArmBlocks) THEN <<>>
    ELSE IF n >= ArmBlocks[k].test
         THEN <<ArmBlocks[k].take>> \o Cascade(n - ArmBlocks[k].take, k + 1)
         ELSE Cascade(n, k + 1)
RECURSIVE SumSeq(_)
SumSeq(q) == IF q = <<>> THEN 0 ELSE Head(q) + SumSeq(Tail(q))
\* The byte counts crc32_do consumes on aarch64 for a buffer of n bytes.
ArmSchedule(n) == LET loop == Loop512(n) IN loop \o Cascade(n - SumSeq(loop), 1)

\* kInnoSeparator, "\a\a".
Sep == <<7, 7>>

(* calculate_http_crc32(buffer, length, append).                           *)
CalculateHttpCrc32(buffer, append) ==
    LET c == Crc32DoX86(CrcStart, buffer)
    IN CrcEnd(IF append THEN Crc32DoX86(c, Sep) ELSE c)

\* Hex digits as printf writes them.
Lower == <<"0","1","2","3","4","5","6","7","8","9","a","b","c","d","e","f">>
RECURSIVE HexDigits(_, _)
HexDigits(v, t) == IF v < 16 THEN <<t[v + 1]>> ELSE HexDigits(v \div 16, t) \o <<t[(v % 16) + 1]>>

\* snprintf "%8x": lower-case digits, no leading zeros, right-aligned in a
\* field of Digits characters padded with spaces.
FormatX(v) == LET d == HexDigits(v, Lower)
              IN [i \in 1 .. Digits - Len(d) |-> " "] \o d


\* Faulty variant: the separator is hashed even when no url is given.
VerifyHttpCrc32SeparatorAlways(buf, url) ==
    IF ~buf.hasCrc THEN 1
    ELSE IF ~buf.blank THEN -1
    ELSE LET c0 == IF url # NULL THEN Crc32DoX86(CrcStart, url) ELSE CrcStart
             c1 == Crc32DoX86(c0, Sep)
             c2 == IF Len(buf.body) > 0 THEN Crc32DoX86(c1, buf.body) ELSE c1
         IN IF FormatX(CrcEnd(c2)) # buf.crc THEN -1 ELSE 0

\* Faulty variant: the strcmp result read the wrong way round.
VerifyHttpCrc32InvertedCompare(buf, url) ==
    IF ~buf.hasCrc THEN 1
    ELSE IF ~buf.blank THEN -1
    ELSE LET c1 == IF url # NULL THEN Crc32DoX86(Crc32DoX86(CrcStart, url), Sep)
                   ELSE CrcStart
             c2 == IF Len(buf.body) > 0 THEN Crc32DoX86(c1, buf.body) ELSE c1
         IN IF FormatX(CrcEnd(c2)) = buf.crc THEN -1 ELSE 0

(* verify_http_crc32(buffer, url): 1 without an X-INNO-CRC32 header, -1    *)
(* without a blank line; else the CRC of url, the separator (when url is  *)
(* given) and the body (when not empty), formatted "%8x" and compared      *)
(* with strcmp to the header value: 0 if equal, else -1.                   *)
VerifyHttpCrc32(buf, url) ==
    IF ~buf.hasCrc THEN 1
    ELSE IF ~buf.blank THEN -1
    ELSE LET c1 == IF url # NULL THEN Crc32DoX86(Crc32DoX86(CrcStart, url), Sep)
                   ELSE CrcStart
             c2 == IF Len(buf.body) > 0 THEN Crc32DoX86(c1, buf.body) ELSE c1
         IN IF FormatX(CrcEnd(c2)) # buf.crc THEN -1 ELSE 0

-----------------------------------------------------------------------------
(* The inputs: a url (or NULL) and a body for the CRC functions, and a     *)
(* buffer length for the aarch64 schedule. Nothing changes after Init.     *)
RECURSIVE SeqsUpTo(_)
SeqsUpTo(k) == IF k = 0 THEN {<<>>}
               ELSE SeqsUpTo(k - 1) \cup {q \o <<b>> : q \in SeqsUpTo(k - 1), b \in ByteVals}
Urls == {NULL} \cup {q \in SeqsUpTo(2) : q # <<>>}
Bodies == SeqsUpTo(MaxLen)

VARIABLES url, body, n
vars == <<url, body, n>>

InitCrc == url \in Urls /\ body \in Bodies /\ n = 0
InitArm == url = NULL /\ body = <<>> /\ n \in 0 .. MaxArmLen
Hold == UNCHANGED vars
Spec == (InitCrc \/ InitArm) /\ [][Hold]_vars

\* A buffer carrying header value `crc` and body `b`.
Received(crc, b) == [hasCrc |-> TRUE, crc |-> crc, blank |-> TRUE, body |-> b]
\* What the sender hashes: url, separator and body, or the body alone.
Payload(u, b) == IF u # NULL THEN u \o Sep \o b ELSE b

(* crc32_do on x86 feeds every byte once, in memory order: words, the      *)
(* 2-byte tail, the last byte. Its result is the byte-wise CRC.            *)
CrcDoIsBytewise ==
    \A s \in {Payload(url, body)} :
        Crc32DoX86(CrcStart, s) = CrcRef(CrcStart, s)

(* crc32_do on aarch64: the 512-byte loop and the unrolled cascade of      *)
(* 256..1-byte blocks consume exactly the buffer's length.                  *)
ArmConsumesAll == SumSeq(ArmSchedule(n)) = n

(* The repository's two paths agree: a header value made with              *)
(* calculate_http_crc32 over the payload (or over the url with append)    *)
(* and printed the way verify_http_crc32 prints passes the check.         *)
ComputeVerifyRoundTrip ==
    /\ VerifyHttpCrc32(Received(FormatX(CalculateHttpCrc32(Payload(url, body), FALSE)),
                                body), url) = 0
    /\ (url # NULL /\ body = <<>>) =>
          VerifyHttpCrc32(Received(FormatX(CalculateHttpCrc32(url, TRUE)), body), url) = 0

(* Spec 104: changing one byte of the body makes verification fail.        *)
CorruptionDetected ==
    LET good == FormatX(CalculateHttpCrc32(Payload(url, body), FALSE))
    IN \A i \in 1 .. Len(body) : \A b \in ByteVals \ {body[i]} :
          VerifyHttpCrc32(Received(good, [body EXCEPT ![i] = b]), url) = -1

\* A checksum as spec 87 writes it: Digits hex digits, zero-padded, in
\* the digit case t.
Upper == <<"0","1","2","3","4","5","6","7","8","9","A","B","C","D","E","F">>
SpecHex(v, t) == LET d == HexDigits(v, t)
                 IN [i \in 1 .. Digits - Len(d) |-> "0"] \o d

(* Spec 35 and 87: a sender that writes the CRC of the payload as eight   *)
(* hex digits, in either case, passes verify_http_crc32, which compares   *)
(* the header value case-insensitively with the CRC it computes.           *)
AcceptsSpecFormattedCrc ==
    \A t \in {Lower, Upper} :
        VerifyHttpCrc32(Received(SpecHex(CalculateHttpCrc32(Payload(url, body), FALSE), t),
                                 body), url) = 0
====
