------------------------------ MODULE HttpWrite ------------------------------
(***************************************************************************)
(* The answers of http_conn: process_write() puts together what goes into  *)
(* m_write_buf and points the two entries of m_iv at it and at the body;   *)
(* write() sends it in as many pieces as the socket takes, and moves the   *)
(* entries on by hand after every writev.                                  *)
(*                                                                         *)
(* A byte is named by what it belongs to: "head" (status line and          *)
(* headers), "content" (what follows them in the buffer), "file" or "csv". *)
(***************************************************************************)
EXTENDS Integers, Sequences

CONSTANTS
    Codes,              \* the codes that are answered
    WRITE_BUFFER_SIZE,
    MaxHead,            \* bound: the length of the status line and headers
    MaxBody,            \* bound: the length of the body
    HeadInTwo           \* the socket takes the buffer in at most two pieces

VARIABLES
    m_linger,         \* the client asked to keep the connection: HttpParse's
    answer,           \* its code, the lengths of head and body
    m_file_address,   \* the mapped file, "null" for none; "wild" until it is first set
    m_write_buf,      \* m_write_idx is its length
    m_iv,             \* m_iv[0] and m_iv[1]: what memory, from where, how much
    bytes_to_send,
    bytes_have_send,
    sent,             \* what the socket took
    writing           \* "idle": no answer; "ready": EPOLLOUT is armed; "writev": in
                      \* the loop; "kept", "over": write() is through, and the
                      \* connection is kept or not; "closed"

Message == {"NO_RESOURCE", "INTERNAL_ERROR", "DIAGNOSE_REQUEST"}   \* with a text of their own
Bare == {"BAD_REQUEST", "FORBIDDEN_REQUEST", "REDIRECT_REQUEST"}
HasCsv == {"DIAGNOSE_CSV_REQUEST"}

\* An empty file is answered with a page that says so.
EmptyPage == 1

\* body: the length of the message, file or CSV.
Answers == {a \in [code : Codes, head : 1..MaxHead, body : 0..MaxBody] :
               /\ a.code \in Bare => a.body = 0
               /\ a.code \in Message \cup HasCsv => a.body > 0}
NoAnswer == [code |-> "none", head |-> 0, body |-> 0]

\* Two entries, the second at the file or the CSV, or one.
TwoEntries(a) == a.code \in HasCsv \/ (a.code = "FILE_REQUEST" /\ a.body > 0)
Memory(a) == IF a.code \in HasCsv THEN "csv" ELSE "file"
Content(a) == IF a.code = "FILE_REQUEST" /\ a.body = 0 THEN EmptyPage
              ELSE IF a.code \in Message THEN a.body ELSE 0

Bytes(mem, first, n) == [i \in 1..n |-> <<mem, first + i - 1>>]

\* The answer as it is meant, byte by byte.
Whole == Bytes("head", 0, answer.head) \o
         (IF TwoEntries(answer) THEN Bytes(Memory(answer), 0, answer.body)
                                ELSE Bytes("content", 0, Content(answer)))

Memories == {"head", "content", "again", "nul", "null", "wild", "file", "csv"}

TypeOK == /\ answer \in Answers \cup {NoAnswer}
          /\ m_file_address \in {"null", "wild", "file"}
          /\ m_write_buf \in Seq(Memories \X Nat)
          /\ m_iv \in [{0, 1} -> [mem : {"buf", "null", "wild", "file", "csv"},
                                  base : Int, len : Nat]]
          /\ bytes_to_send \in Nat
          /\ bytes_have_send \in Nat
          /\ sent \in Seq(Memories \X Int)
          /\ writing \in {"idle", "ready", "writev", "kept", "over", "closed"}

\* Neither the constructor nor init() sets m_file_address.  munmap at a wild address is
\* taken to fail, and reading there to fail or to give bytes of no answer.
Init == /\ answer = NoAnswer
        /\ m_file_address \in {"null", "wild"}
        /\ m_write_buf = <<>>
        /\ m_iv = [i \in {0, 1} |-> [mem |-> "null", base |-> 0, len |-> 0]]
        /\ bytes_to_send = 0
        /\ bytes_have_send = 0
        /\ sent = <<>>
        /\ writing = "idle"

-----------------------------------------------------------------------------
(* The buffer. *)

\* Fault: one byte more, the place of the terminating zero.
OverrunsOneMore(n, room) == n > room

Overruns(n, room) == n >= room

\* vsnprintf leaves the last byte of its room to the terminating zero.
Printed(mem, n, room) == [i \in 1..n |-> IF i < room THEN <<mem, i - 1>> ELSE <<"nul", 0>>]

\* The buffer with a text added, and whether it was.
add_response(buf, mem, n) ==
    LET room == WRITE_BUFFER_SIZE - 1 - Len(buf)
    IN  IF Len(buf) >= WRITE_BUFFER_SIZE \/ Overruns(n, room)
        THEN [ok |-> FALSE, buf |-> buf]
        ELSE [ok |-> TRUE, buf |-> buf \o Printed(mem, n, room)]

\* Status line and headers, whose results are ignored; then the content, whose result
\* is process_write's.  After a redirection, which do_request has already put into
\* the buffer, the switch falls through to another status line.
Composed(a) ==
    LET head == add_response(<<>>, "head", a.head).buf
    IN  IF a.code = "REDIRECT_REQUEST"
        THEN [ok |-> TRUE, buf |-> add_response(head, "again", 1).buf]
        ELSE IF Content(a) = 0 THEN [ok |-> TRUE, buf |-> head]
        ELSE add_response(head, "content", Content(a))

\* Fault: the head is not counted.
PreparedBody(a) == IF TwoEntries(a) THEN a.body ELSE Content(a)

\* bytes_to_send as process_write sets it.
Prepared(a) == Len(Composed(a).buf) + (IF TwoEntries(a) THEN a.body ELSE 0)

\* The mapping do_request has made for a, and what is in the buffer.
Filled(a) ==
    /\ writing = "idle"
    /\ m_file_address' = IF a.code = "FILE_REQUEST" THEN "file" ELSE m_file_address
    /\ m_write_buf' = Composed(a).buf

\* process_write returns true.
process_write(a) ==
    /\ Filled(a) /\ Composed(a).ok
    /\ answer' = a
    /\ m_iv' = [i \in {0, 1} |->
                  IF i = 0 THEN [mem |-> "buf", base |-> 0, len |-> Len(m_write_buf')]
                  ELSE IF TwoEntries(a) THEN [mem |-> Memory(a), base |-> 0, len |-> a.body]
                  ELSE m_iv[1]]
    /\ bytes_to_send' = Prepared(a)
    /\ writing' = "ready"
    /\ UNCHANGED <<bytes_have_send, sent>>

\* The content does not fit: process_write returns false and close_conn() follows.
TooLong(a) == /\ Filled(a) /\ ~Composed(a).ok
              /\ writing' = "closed"
              /\ UNCHANGED <<answer, m_iv, bytes_to_send, bytes_have_send, sent>>

\* init(), which leaves m_file_address and m_iv as they are.
init == /\ answer' = NoAnswer
        /\ m_write_buf' = <<>>
        /\ bytes_to_send' = 0
        /\ bytes_have_send' = 0
        /\ sent' = <<>>
        /\ writing' = "idle"
        /\ UNCHANGED <<m_file_address, m_iv>>

-----------------------------------------------------------------------------
(* write *)

iv(i) == IF m_iv[i].mem = "buf" THEN SubSeq(m_write_buf, m_iv[i].base + 1, m_iv[i].base + m_iv[i].len)
                                ELSE Bytes(m_iv[i].mem, m_iv[i].base, m_iv[i].len)

\* What writev is offered: m_iv_count is 1 or 2.
Offered == IF TwoEntries(answer) THEN iv(0) \o iv(1) ELSE iv(0)

\* The bytes before the first one at a null pointer.
Readable == IF TwoEntries(answer) /\ m_iv[1].mem # "null" THEN Len(Offered) ELSE m_iv[0].len

\* Fault: the body starts over after every writev.
MovedRestart(have, left) ==
    IF have >= m_iv[0].len
    THEN [m_iv EXCEPT ![0].len = 0,
                      ![1] = [mem |-> m_file_address, base |-> 0, len |-> left]]
    ELSE [m_iv EXCEPT ![0] = [mem |-> "buf", base |-> have, len |-> @.len - have]]

\* m_iv after a writev: with `have` bytes sent in all and `left` to go.
Moved(have, left) ==
    IF have >= m_iv[0].len
    THEN [m_iv EXCEPT ![0].len = 0,
                      ![1] = [mem |-> m_file_address, base |-> have - Len(m_write_buf),
                              len |-> left]]
    ELSE [m_iv EXCEPT ![0] = [mem |-> "buf", base |-> have, len |-> @.len - have]]

prepared == <<answer, m_write_buf>>

\* EPOLLOUT.  write() also asks for bytes_to_send = 0, the answer of nothing: a head has
\* at least one byte, and EPOLLOUT is armed only when there is an answer.
Write == /\ writing = "ready"
         /\ writing' = "writev"
         /\ UNCHANGED <<prepared, m_file_address, m_iv, bytes_to_send, bytes_have_send, sent>>

unmap == m_file_address' = "null"

\* writev took n of the bytes it could read.  A count of 0 is what it returns when it is
\* offered none, as after a second cut in the buffer: bytes_to_send stays, and so does
\* the loop.
Writev(n) ==
    /\ writing = "writev"
    /\ n = 0 <=> Offered = <<>>
    /\ HeadInTwo /\ bytes_have_send > 0 => bytes_have_send + n >= Len(m_write_buf)
    /\ sent' = sent \o SubSeq(Offered, 1, n)
    /\ bytes_have_send' = bytes_have_send + n
    /\ bytes_to_send' = bytes_to_send - n
    /\ m_iv' = Moved(bytes_have_send + n, bytes_to_send - n)
    /\ IF bytes_to_send - n <= 0
       THEN /\ unmap
            /\ writing' = IF m_linger THEN "kept" ELSE "over"
       ELSE UNCHANGED <<m_file_address, writing>>
    /\ UNCHANGED prepared

\* The socket takes no more for now.
Again == /\ writing = "writev"
         /\ Offered # <<>> /\ Readable > 0
         /\ writing' = "ready"
         /\ UNCHANGED <<prepared, m_file_address, m_iv, bytes_to_send, bytes_have_send, sent>>

\* writev fails: the peer is gone, or the first byte is at a null pointer.
Fails == /\ writing = "writev"
         /\ Offered # <<>>
         /\ unmap
         /\ writing' = "over"
         /\ UNCHANGED <<prepared, m_iv, bytes_to_send, bytes_have_send, sent>>

\* The descriptor is closed: by the timer or a hang-up while nothing is being
\* written, or because write() returned false.
Close == /\ writing \in {"idle", "ready", "over"}
         /\ writing' = "closed"
         /\ UNCHANGED <<prepared, m_file_address, m_iv, bytes_to_send, bytes_have_send, sent>>

\* One step of write().
write == Write \/ Again \/ Fails \/ \E n \in 0..Readable : Writev(n)
=============================================================================
