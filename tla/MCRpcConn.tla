----------------------------- MODULE MCRpcConn -----------------------------
(***************************************************************************)
(* Call scenarios for RpcConn.  Payloads are a few bytes and the frame     *)
(* profile has BodySplit 2, so a request or reply of 3-4 bytes takes two   *)
(* frames and reassembly runs on both sides.                               *)
(***************************************************************************)
EXTENDS RpcConn

\* Two connsCall callers with a deadline on a user function (id 300):
\* 3-byte and 1-byte requests, so each reply tells whose request it is.
TwoCallsKind == [c \in Callers |-> "serial"]
TwoCallsFid == [c \in Callers |-> 300]
TwoCallsReq == LET c1 == CHOOSE x \in Callers : TRUE
               IN [c \in Callers |-> IF c = c1 THEN << 1, 2, 3 >> ELSE << 4 >>]
TwoCallsDeadline == [c \in Callers |-> TRUE]

\* "ERR": the handler's error text.
ErrBytes == << 69, 82, 82 >>

\* Ping bounds: none, or one TestConn ping over TCP, where ping id 1 and
\* a call's id share one ordered stream.  Over UDP the reordering and
\* loss of the calls' own datagrams already make every arrival order.
NoPings == [t \in {"tcp", "udp"} |-> 0]
TcpPing == [t \in {"tcp", "udp"} |-> IF t = "tcp" THEN 1 ELSE 0]

\* One CallAuto (context.TODO) caller.
NoDeadline == [c \in Callers |-> FALSE]
=============================================================================
