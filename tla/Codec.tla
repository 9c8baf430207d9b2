------------------------------- MODULE Codec -------------------------------
(***************************************************************************)
(* The wire codec of src/network/rpc/encode.go: the fixed-size frame       *)
(* layout, the encoders MakeReqBody / MakeRspBody that split a payload     *)
(* into frames, and the decoder parse that reads one frame back.           *)
(*                                                                         *)
(* A frame is a sequence of bytes (naturals 0..255).  Layout, 1-based:     *)
(*   1-2 magic 1,0 | 3-5 correlation id | 6 kind | 7-8 function id |       *)
(*   9-10 chunk count | 11-12 chunk index or data length |                 *)
(*   BodyStart+1 .. FinalByte body | last two bytes 0,1.                   *)
(* The profile (TotalSize, BodyStart, BodySplit, FinalByte) is a constant; *)
(* the code has a TCP profile (1444,12,1430,1442) and a UDP profile        *)
(* (534,12,520,532); models use a profile with a tiny BodySplit so that    *)
(* multi-chunk payloads stay a few bytes long.                             *)
(***************************************************************************)
EXTENDS Naturals, Sequences

CONSTANTS
    TotalSize,  \* NetworkBuffer.TotalSize
    BodyStart,  \* NetworkBuffer.BodyStart (header length)
    BodySplit,  \* NetworkBuffer.BodySplit (body capacity of one frame)
    FinalByte   \* NetworkBuffer.FinalByte (end of the body region)

ASSUME /\ BodyStart = 12
       /\ BodySplit \in Nat \ {0}
       /\ TotalSize = BodyStart + BodySplit + 2
       /\ FinalByte = TotalSize - 2

\* Frame kinds (byte 6).
FirstByte       == 1
SecondByte      == 0
BodyWholeData   == 0
BodyBodyStart   == 1
BodyReqMiddle   == 2
BodyReqFinaly   == 3
BodyReqDataNil  == 4
BodyRespSuccess == 11
BodyRespFailed  == 12
BodyRespNoFound == 13
BodyRespDataNil == 14
BodyRespStart   == 15
BodyRespMiddle  == 16
BodyRespFinaly  == 17

\* Go's byte(v) conversion keeps the low 8 bits.
Byte(v) == v % 256

Zeros(n) == [i \in 1..n |-> 0]

\* The 12-byte header written by every frame except the empty one.
buffPrefix(num, fid, buck, last, model) ==
    << FirstByte, SecondByte,
       Byte(num \div 65536), Byte(num \div 256), Byte(num),
       model,
       Byte(fid \div 256), Byte(fid),
       Byte(buck \div 256), Byte(buck),
       Byte(last \div 256), Byte(last) >>

\* Number of chunks and length of the last chunk of a payload of length l.
ChunkCount(l) == IF l % BodySplit > 0 THEN l \div BodySplit + 1 ELSE l \div BodySplit
LastLength(l) == IF l % BodySplit > 0 THEN l % BodySplit ELSE BodySplit

\* Chunk i (1-based) of a payload split into count chunks, as MakeReqBody
\* lays it out: the first is Start, the inner ones Middle carrying their
\* index, the last Final carrying the length of its (padded) segment.
ChunkFrame(bts, num, fid, count, i) ==
    LET kind == IF i = count THEN BodyReqFinaly
                ELSE IF i = 1 THEN BodyBodyStart ELSE BodyReqMiddle
        last == LastLength(Len(bts))
        head == << FirstByte, SecondByte,
                   Byte(num \div 65536), Byte(num \div 256), Byte(num),
                   kind, Byte(fid \div 256), Byte(fid),
                   Byte(count \div 256), Byte(count) >>
    IN IF i < count
       THEN head \o << Byte(i \div 256), Byte(i) >>
                 \o SubSeq(bts, BodySplit * (i - 1) + 1, BodySplit * i) \o << 0, 1 >>
       ELSE head \o << Byte(last \div 256), Byte(last) >>
                 \o SubSeq(bts, BodySplit * (count - 1) + 1, Len(bts))
                 \o Zeros(BodySplit - last) \o << 0, 1 >>

\* MakeReqBody: the frames of a request (or successful response) payload.
MakeReqBody(bts, num, fid) ==
    IF Len(bts) = 0
    THEN << << FirstByte, SecondByte,
               Byte(num \div 65536), Byte(num \div 256), Byte(num),
               BodyReqDataNil, Byte(fid \div 256), Byte(fid) >>
            \o Zeros(TotalSize - 9) \o << FirstByte >> >>
    ELSE IF Len(bts) <= BodySplit
    THEN << buffPrefix(num, fid, 1, Len(bts), BodyWholeData)
            \o bts \o Zeros(TotalSize - (BodyStart + Len(bts)) - 2) \o << 0, 1 >> >>
    ELSE LET count == ChunkCount(Len(bts))
         IN [i \in 1..count |-> ChunkFrame(bts, num, fid, count, i)]

\* The Go error MakeRspBody receives: NoErr (nil) or Err(message bytes).
NoErr == [is |-> FALSE, msg |-> << >>]
Err(m) == [is |-> TRUE, msg |-> m]

\* The fixed NotFound text, abstracted to a few bytes (never cut).
NotFoundText == << 110, 111, 116 >>

\* The single frame of a failed or not-found response carrying message m.
MessageFrame(m, num, fid, kind) ==
    buffPrefix(num, fid, 1, Len(m), kind) \o m \o Zeros(BodySplit - Len(m)) \o << 0, 1 >>

\* MakeRspBody: an error becomes one Failed frame with its message cut to
\* the body capacity; function id 0 a NotFound frame; anything else is
\* encoded exactly like a request (kinds 0-4, never 11 or 14-17).
MakeRspBody(bts, num, fid, err) ==
    IF err.is
    THEN LET m == IF Len(err.msg) > BodySplit THEN SubSeq(err.msg, 1, BodySplit) ELSE err.msg
         IN << MessageFrame(m, num, fid, BodyRespFailed) >>
    ELSE IF fid = 0 THEN << MessageFrame(NotFoundText, num, fid, BodyRespNoFound) >>
    ELSE MakeReqBody(bts, num, fid)

\* NetworkBuffer.PingBytes: a whole-data frame with correlation id 1 and
\* function id PingNetwork (1), declared length 1, body all zero, and only
\* the last byte of the trailer set.
PingBytes == buffPrefix(1, 1, 1, 1, BodyWholeData)
                \o Zeros(TotalSize - BodyStart - 1) \o << FirstByte >>

(***************************************************************************)
(* parse: one frame to a JoinBodyData record plus the error it returns.    *)
(* err is "none", "length" or "rule" (structural) or "app" (a Failed      *)
(* frame, whose message is in Data).  Kinds parse does not list (e.g.     *)
(* NotFound) leave Buck = Sort = 0 and no data.                           *)
(***************************************************************************)
Word(f, i) == f[i] * 256 + f[i + 1]

parse(f) ==
    LET uuid == f[3] * 65536 + f[4] * 256 + f[5]
        fn   == Word(f, 7)
        kind == f[6]
        body(l) == SubSeq(f, BodyStart + 1, BodyStart + l)
        Rec(e, b, s, d) == [err |-> e, Uuid |-> uuid, Func |-> fn,
                            Buck |-> b, Sort |-> s, Data |-> d]
    IN IF Len(f) # TotalSize
       THEN [err |-> "length", Uuid |-> 0, Func |-> 0, Buck |-> 0, Sort |-> 0, Data |-> << >>]
       ELSE IF f[1] # FirstByte \/ f[2] # SecondByte
               \/ f[TotalSize] # FirstByte \/ f[TotalSize - 1] # SecondByte
       THEN [err |-> "rule", Uuid |-> 0, Func |-> 0, Buck |-> 0, Sort |-> 0, Data |-> << >>]
       ELSE CASE kind \in {BodyReqDataNil, BodyRespDataNil} -> Rec("none", 1, 1, << >>)
              [] kind \in {BodyWholeData, BodyRespSuccess} -> Rec("none", 1, 1, body(Word(f, 11)))
              [] kind = BodyRespFailed -> Rec("app", 1, 1, body(Word(f, 11)))
              [] kind \in {BodyBodyStart, BodyRespStart} ->
                     Rec("none", Word(f, 9), 1, SubSeq(f, BodyStart + 1, FinalByte))
              [] kind \in {BodyReqMiddle, BodyRespMiddle} ->
                     Rec("none", Word(f, 9), Word(f, 11), SubSeq(f, BodyStart + 1, FinalByte))
              [] kind \in {BodyReqFinaly, BodyRespFinaly} ->
                     Rec("none", Word(f, 9), Word(f, 9), body(Word(f, 11)))
              [] OTHER -> Rec("none", 0, 0, << >>)
=============================================================================
