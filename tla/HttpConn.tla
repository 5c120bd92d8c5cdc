------------------------------ MODULE HttpConn ------------------------------
(***************************************************************************)
(* An http_conn over its requests and clients: the parser of HttpParse,    *)
(* the answer of HttpWrite, and init(), after which the next request       *)
(* begins with what is left in the members.  Main thread and worker take   *)
(* turns here; that they do is WebServer's OneOwner.                       *)
(***************************************************************************)
EXTENDS Integers, Sequences, FiniteSets, SequencesExt

CONSTANTS
    Requests, BodyCut, READ_BUFFER_SIZE,                     \* HttpParse's
    Codes, WRITE_BUFFER_SIZE, MaxHead, MaxBody, HeadInTwo    \* HttpWrite's

VARIABLES
    m_TRIGMode, request, m_read_idx, m_checked_idx, m_start_line, m_check_state,
    m_content_length, m_linger, line_status, m_string, reading,
    answer, m_file_address, m_write_buf, m_iv, bytes_to_send, bytes_have_send, sent,
    writing

P == INSTANCE HttpParse
R == INSTANCE HttpRoute
W == INSTANCE HttpWrite

\* Requests are sequences of bytes that end with their body, the head of an answer fits
\* into the buffer, and there is an answer to every request.
ASSUME ConnAssumption ==
    /\ BodyCut \in BOOLEAN /\ HeadInTwo \in BOOLEAN
    /\ MaxHead \in Nat \ {0} /\ MaxBody \in Nat \ {0}
    /\ READ_BUFFER_SIZE \in Nat /\ WRITE_BUFFER_SIZE \in Nat
    /\ MaxHead + 1 < WRITE_BUFFER_SIZE
    /\ \A r \in Requests : /\ r.bytes \in Seq(STRING) /\ r.body \in 0..Len(r.bytes)
                            /\ r.length \in Int
                            /\ r.url \in R!Urls /\ R!Replies(r.cgi, r.url) \cap Codes # {}

parser == <<m_TRIGMode, request, m_read_idx, m_checked_idx, m_start_line, m_check_state,
            m_content_length, m_linger, line_status, m_string, reading>>
writer == <<answer, m_file_address, m_write_buf, m_iv, bytes_to_send, bytes_have_send,
            sent, writing>>
vars == <<parser, writer>>

TypeOK == P!TypeOK /\ W!TypeOK

Init == P!Init /\ W!Init

-----------------------------------------------------------------------------

Read == /\ P!ReadFull \/ \E n \in 1..READ_BUFFER_SIZE : P!Read(n)
        /\ UNCHANGED writer

process_read == P!process_read /\ UNCHANGED writer

\* What do_request may return.
Replies == [r \in Requests |-> R!Replies(r.cgi, r.url) \cap Codes]

\* That, or the code of a request line that is none.
Found == IF reading = "bad" THEN {"BAD_REQUEST"} ELSE Replies[request]

\* process() after process_read, when that found something.
process_write == /\ reading \in {"request", "bad"}
                 /\ \E code \in Found : \E a \in W!Answers :
                       /\ a.code = code
                       /\ \/ W!process_write(a) /\ UNCHANGED parser
                          \/ W!TooLong(a) /\ P!Close

write == W!write /\ UNCHANGED parser

\* The connection is kept: init().
Kept == writing = "kept" /\ P!init /\ W!init

\* The timer goes off, the peer hangs up, or read_once() or write() returned false.
Closed == /\ reading \in {"armed", "full"} \/ writing \in {"ready", "over"}
          /\ P!Close /\ W!Close

\* The kernel hands out the descriptor again: init() for another client.
Accepted == reading = "closed" /\ P!init /\ W!init

Next == Read \/ process_read \/ process_write \/ write \/ Kept \/ Closed \/ Accepted

Spec == Init /\ [][Next]_vars

\* process_read goes on with its loop.
FairSpec == Spec /\ WF_vars(process_read)

-----------------------------------------------------------------------------
(* Requests. *)

WellFormed == request.bytes[1] = "q"

\* What a client may send: lines that end with "r", "n", up to the first empty one, behind
\* which is the body; a request line is a line of its own; who sends a body says how
\* long it is, and says it right; a POST has one, and leaves the buffer room for its
\* terminating zero.
Http(r) ==
    LET b == r.bytes
        s == Len(b) - r.body
    IN  /\ s >= 3 /\ b[s - 2] = "n" /\ b[s - 1] = "r" /\ b[s] = "n"
        /\ b[1] # "n" /\ \A i \in 1..(s - 1) : b[i] = "r" <=> b[i + 1] = "n"
        /\ \A i \in 1..(s - 2) : b[i] = "n" /\ b[i + 1] = "r" => i = s - 2
        /\ b[1] = "q" => b[2] = "r"
        /\ r.body > 0 => \E i \in 2..(s - 2) : b[i - 1] = "n" /\ b[i] = "l" /\ b[i + 1] = "r"
        /\ r.length = r.body
        /\ r.cgi => r.body > 0 /\ Len(b) < READ_BUFFER_SIZE

\* Wherever the reads cut it, and whatever requests went before it, a request is found
\* as soon as it has arrived: the server never waits for more of what it has in full
\* (http_conn.cpp:294-323; "supports GET/POST, header, Content-Length",
\* http/README.md:53), and turns away as too long only what exceeds the buffer or,
\* edge-triggered, fills it (http_conn.cpp:193, :204).
Recognised == Http(request) =>
    /\ reading = "armed" => m_read_idx < Len(P!Bytes)
    /\ reading = "full" => Len(P!Bytes) + m_TRIGMode > READ_BUFFER_SIZE

\* What process_read hands over is the request: all of it, and of a POST the body of
\* this request and not of one before it, from its first byte to a terminating zero
\* that is written within the buffer; a request line that is none is refused
\* (http_conn.cpp:285-290).
HandsOverRequest == Http(request) =>
    /\ reading = "request" =>
          /\ WellFormed /\ m_read_idx = Len(P!Bytes)
          /\ request.cgi => /\ m_string = P!BodyStart
                            /\ m_string + m_content_length < READ_BUFFER_SIZE
    /\ reading = "bad" => ~WellFormed

\* process_read ends, whatever has arrived (http_conn.cpp:298).
ParseEnds == (reading = "parse") ~> (reading # "parse")

(* Answers. *)

\* The peer gets the bytes of the answer in order, each once, wherever the socket
\* cuts (http_conn.cpp:639-648).
InOrder == /\ Len(sent) <= Len(W!Whole)
           /\ sent = SubSeq(W!Whole, 1, Len(sent))

\* A connection is kept for the next request only when the whole answer was sent and
\* this request, not one before it, asked for it (http_conn.cpp:649-654, :136).
KeptWhenWhole == writing = "kept" => sent = W!Whole /\ Contains(request.bytes, "k")
=============================================================================
