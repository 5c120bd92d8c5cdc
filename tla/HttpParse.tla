------------------------------ MODULE HttpParse ------------------------------
(***************************************************************************)
(* The parser of http_conn.cpp: process_read(), parse_line() and the three *)
(* states of m_check_state, over a request that arrives in pieces.  What a *)
(* read brings is parsed at once; when it is not yet a request the         *)
(* connection is armed for the next read and the parser goes on where it   *)
(* stopped.  HttpConn makes a specification of these actions.              *)
(*                                                                         *)
(* The text of a line is one symbol: "q" a request line, "l" the header    *)
(* Content-Length, "k" the header Connection: keep-alive, "h" another      *)
(* header, "x" anything a request line must not be.  The parser looks at   *)
(* nothing smaller before the line is whole.                               *)
(***************************************************************************)
EXTENDS Integers, Sequences

CONSTANTS
    Requests,           \* the requests: cgi, url, bytes, how many of them are body, and
                        \* length: the number Content-Length names
    BodyCut,            \* a read may end within the body
    READ_BUFFER_SIZE

VARIABLES
    m_TRIGMode,        \* 1: edge-triggered, 0: level-triggered
    request,           \* the request the client is sending
    m_read_idx,        \* how much of it has arrived
    m_checked_idx,
    m_start_line,
    m_check_state,     \* "requestline", "header" or "content"
    m_content_length,
    m_linger,
    line_status,       \* of process_read, "ok", "open" or "bad"
    m_string,          \* where in the buffer the body begins that do_request reads:
                       \* init() leaves that of an earlier request; -1 for none ever
    reading            \* "armed": waiting for EPOLLIN; "full": read_once returned
                       \* false; "parse": in process_read; "request", "bad": what
                       \* it found; "closed"

Bytes == request.bytes
BodyStart == Len(request.bytes) - request.body

\* m_read_buf[i], counted from 0.
m_read_buf(i) == Bytes[i + 1]

TypeOK == /\ m_TRIGMode \in {0, 1}
          /\ request \in Requests
          /\ m_read_idx \in 0..READ_BUFFER_SIZE
          /\ m_checked_idx \in 0..m_read_idx
          /\ m_start_line \in 0..m_checked_idx
          /\ m_check_state \in {"requestline", "header", "content"}
          /\ m_content_length \in {0, request.length}
          /\ m_linger \in BOOLEAN
          /\ line_status \in {"ok", "open", "bad"}
          /\ m_string \in -1..READ_BUFFER_SIZE
          /\ reading \in {"armed", "full", "parse", "request", "bad", "closed"}

\* The mode of the connections for the option -m.
trig_mode(m) == m % 2

Init == /\ m_TRIGMode \in {trig_mode(m) : m \in 0..3}
        /\ request \in Requests
        /\ m_read_idx = 0
        /\ m_checked_idx = 0
        /\ m_start_line = 0
        /\ m_check_state = "requestline"
        /\ m_content_length = 0
        /\ m_linger = FALSE
        /\ line_status = "ok"
        /\ m_string = -1
        /\ reading = "armed"

-----------------------------------------------------------------------------
(* read_once *)

\* What stays as it is while bytes arrive.
parsing == <<m_TRIGMode, request, m_checked_idx, m_start_line, m_check_state,
             m_content_length, m_linger, m_string>>

\* Fault: a byte is kept for a terminating zero.
RoomLess == READ_BUFFER_SIZE - 1 - m_read_idx

Room == READ_BUFFER_SIZE - m_read_idx

\* recv brings n bytes, in one call or, edge-triggered, in as many as it takes to
\* empty the socket: the last of them, once there is no room left, asks for nothing,
\* gets 0 and passes for the end of the stream.
Read(n) ==
    /\ reading = "armed"
    /\ n <= Room /\ m_read_idx + n <= Len(Bytes)
    /\ BodyCut \/ n = Room \/ m_read_idx + n \notin BodyStart + 1 .. Len(Bytes) - 1
    /\ m_read_idx' = m_read_idx + n
    /\ line_status' = "ok"
    /\ reading' = IF m_TRIGMode = 1 /\ n = Room THEN "full" ELSE "parse"
    /\ UNCHANGED parsing

\* There is more, and no room for it.
ReadFull ==
    /\ reading = "armed"
    /\ Room <= 0 /\ m_read_idx < Len(Bytes)
    /\ reading' = "full"
    /\ UNCHANGED <<parsing, m_read_idx, line_status>>

-----------------------------------------------------------------------------
(* parse_line: where it leaves m_checked_idx and what it returns. *)

Breaks == {i \in m_checked_idx..(m_read_idx - 1) : m_read_buf(i) \in {"r", "n"}}
Break == CHOOSE i \in Breaks : \A j \in Breaks : i <= j

\* Fault: a line whose \n has not arrived is skipped.
LineSkip ==
    IF Breaks = {} \/ (m_read_buf(Break) = "r" /\ Break + 1 = m_read_idx)
    THEN [idx |-> m_read_idx, status |-> "open"]
    ELSE IF m_read_buf(Break) = "r" /\ m_read_buf(Break + 1) = "n"
    THEN [idx |-> Break + 2, status |-> "ok"]
    ELSE [idx |-> Break, status |-> "bad"]

\* A \n found first has no \r before it: that would have been found earlier.
parse_line ==
    IF Breaks = {} THEN [idx |-> m_read_idx, status |-> "open"]
    ELSE IF m_read_buf(Break) = "r" /\ Break + 1 = m_read_idx
    THEN [idx |-> Break, status |-> "open"]
    ELSE IF m_read_buf(Break) = "r" /\ m_read_buf(Break + 1) = "n"
    THEN [idx |-> Break + 2, status |-> "ok"]
    ELSE [idx |-> Break, status |-> "bad"]

\* The text of the line parse_line has just ended: <<>> for an empty one.
Line == SubSeq(Bytes, m_start_line + 1, parse_line.idx - 2)

\* What process_read leaves alone.
unparsed == <<m_TRIGMode, request, m_read_idx>>

NeedsLine == m_check_state # "content" \/ line_status # "ok"

\* Fault: the loop goes on when parse_line found no line.
NoLineStay == /\ reading = "parse" /\ NeedsLine
              /\ parse_line.status # "ok"
              /\ m_checked_idx' = parse_line.idx
              /\ line_status' = parse_line.status
              /\ UNCHANGED <<unparsed, m_start_line, m_check_state,
                             m_content_length, m_linger, m_string, reading>>

\* The loop of process_read ends: NO_REQUEST.
NoLine == /\ reading = "parse" /\ NeedsLine
          /\ parse_line.status # "ok"
          /\ m_checked_idx' = parse_line.idx
          /\ line_status' = parse_line.status
          /\ reading' = "armed"
          /\ UNCHANGED <<unparsed, m_start_line, m_check_state, m_content_length,
                         m_linger, m_string>>

\* A line was found, and the line after it begins where it ends.
FoundLine(state) ==
    /\ reading = "parse" /\ m_check_state = state
    /\ parse_line.status = "ok"
    /\ m_checked_idx' = parse_line.idx
    /\ m_start_line' = parse_line.idx
    /\ line_status' = "ok"
    /\ UNCHANGED <<unparsed, m_string>>

parse_request_line ==
    /\ FoundLine("requestline")
    /\ IF Line = <<"q">>
       THEN m_check_state' = "header" /\ UNCHANGED reading
       ELSE reading' = "bad" /\ UNCHANGED m_check_state
    /\ UNCHANGED <<m_content_length, m_linger>>

\* atol takes what Content-Length says, be it more or less than the body or negative.
parse_headers ==
    /\ FoundLine("header")
    /\ \/ /\ Line = <<>> /\ m_content_length # 0
          /\ m_check_state' = "content"
          /\ UNCHANGED <<m_content_length, m_linger, reading>>
       \/ /\ Line = <<>> /\ m_content_length = 0
          /\ reading' = "request"
          /\ UNCHANGED <<m_check_state, m_content_length, m_linger>>
       \/ /\ Line # <<>>
          /\ m_content_length' = IF Line = <<"l">> THEN request.length ELSE m_content_length
          /\ m_linger' = (m_linger \/ Line = <<"k">>)
          /\ UNCHANGED <<m_check_state, reading>>

\* Fault: the content is taken as soon as it begins.
Complete0(idx) == m_read_idx >= idx

Complete(idx) == m_read_idx >= m_content_length + idx

\* The content's terminating zero goes to m_start_line + m_content_length, wherever that
\* is.  With the content incomplete line_status is "open" and the loop goes on with
\* parse_line, over the content.
parse_content ==
    /\ reading = "parse" /\ m_check_state = "content"
    /\ NeedsLine => parse_line.status = "ok"
    /\ LET idx == IF NeedsLine THEN parse_line.idx ELSE m_checked_idx
       IN  /\ m_checked_idx' = idx
           /\ m_start_line' = idx
           /\ IF Complete(idx)
              THEN /\ m_string' = m_start_line
                   /\ reading' = "request"
                   /\ line_status' = "ok"
              ELSE /\ line_status' = "open"
                   /\ UNCHANGED <<m_string, reading>>
    /\ UNCHANGED <<unparsed, m_check_state, m_content_length, m_linger>>

\* init(), after an answer or for a new client, which sends its next request.
init == /\ request' \in Requests
        /\ m_read_idx' = 0
        /\ m_checked_idx' = 0
        /\ m_start_line' = 0
        /\ m_check_state' = "requestline"
        /\ m_content_length' = 0
        /\ m_linger' = FALSE
        /\ line_status' = "ok"
        /\ reading' = "armed"
        /\ UNCHANGED <<m_TRIGMode, m_string>>

\* The descriptor is closed.
Close == /\ reading # "parse"
         /\ reading' = "closed"
         /\ UNCHANGED <<parsing, m_read_idx, line_status>>

\* One turn of the loop in process_read.
process_read == NoLine \/ parse_request_line \/ parse_headers \/ parse_content
=============================================================================
