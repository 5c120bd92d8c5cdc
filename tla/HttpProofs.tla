----------------------------- MODULE HttpProofs -----------------------------
(***************************************************************************)
(* For all requests, buffers of any size and reads that cut them anywhere  *)
(* but within the body: one that is HTTP is found as soon as it has        *)
(* arrived and handed over whole, whatever went before it.  For all        *)
(* answers but redirections and CSVs and all ways a socket may take them,  *)
(* the buffer in two pieces: the peer gets their bytes in order, and the   *)
(* connection is kept only when all is sent.                               *)
(***************************************************************************)
EXTENDS HttpConn, SequenceTheorems, WellFoundedInduction, TLAPS

LEMMA LeastNatural ==
    ASSUME NEW T, T \subseteq Nat, T # {} PROVE \E x \in T : \A y \in T : x <= y
<1> DEFINE R0 == {ss \in Nat \X Nat : ss[1] < ss[2]}
<1>1. IsWellFoundedOn(R0, Nat)
  BY NatLessThanWellFounded, Zenon DEF OpToRel
<1>2. \A x, y \in Nat : x < y => <<x, y>> \in R0
  OBVIOUS
<1> HIDE DEF R0
<1>3. PICK x \in T : \A y \in T : ~ (<<y, x>> \in R0)
  BY <1>1, WFMin
<1>4. \A y \in T : ~(y < x)
  BY <1>2, <1>3
<1>5. \A y \in T : x <= y
  BY <1>4
<1> QED BY <1>5

-----------------------------------------------------------------------------
(* One line. *)

\* The request's bytes from the i-th to the j-th have no line end among them.
Plain(i, j) == \A k \in i..j : request.bytes[k] \notin {"r", "n"}

Indices == /\ request \in Requests
           /\ m_read_idx \in Nat /\ m_read_idx <= Len(request.bytes)
           /\ m_read_idx <= READ_BUFFER_SIZE
           /\ m_checked_idx \in Nat /\ m_checked_idx <= m_read_idx
           /\ m_start_line \in Nat /\ m_start_line <= m_checked_idx

LEMMA RequestType ==
    ASSUME request \in Requests
    PROVE  /\ request.bytes \in Seq(STRING)
           /\ Len(request.bytes) \in Nat
           /\ request.body \in Nat /\ request.body <= Len(request.bytes)
           /\ P!BodyStart \in Nat /\ P!BodyStart = Len(request.bytes) - request.body
           /\ P!BodyStart <= Len(request.bytes)
<1>1. request.bytes \in Seq(STRING) /\ request.body \in 0..Len(request.bytes)
  BY ConnAssumption
<1>2. Len(request.bytes) \in Nat
  BY <1>1, LenProperties
<1> QED BY <1>1, <1>2 DEF P!BodyStart

\* parse_line ends a line at the first "r", when a "n" follows it.
LEMMA ParseLine ==
    ASSUME Indices
    PROVE  LET line == P!parse_line
               b == request.bytes
           IN  /\ line.idx \in Nat /\ m_checked_idx <= line.idx /\ line.idx <= m_read_idx
               /\ line.status \in {"ok", "open", "bad"}
               /\ line.status # "ok" => Plain(m_checked_idx + 1, line.idx)
               /\ line.status = "ok" =>
                     /\ m_checked_idx + 2 <= line.idx
                     /\ b[line.idx - 1] = "r" /\ b[line.idx] = "n"
                     /\ Plain(m_checked_idx + 1, line.idx - 2)
               /\ \A k \in (m_checked_idx + 1)..(m_read_idx - 1) :
                     b[k] = "r" /\ b[k + 1] = "n" /\ Plain(m_checked_idx + 1, k - 1)
                        => line.status = "ok"
<1> DEFINE b == request.bytes
           line == P!parse_line
<1>1. /\ m_read_idx \in Nat /\ m_checked_idx \in Nat /\ m_checked_idx <= m_read_idx
  BY DEF Indices
<1>2. P!Breaks = {i \in m_checked_idx..(m_read_idx - 1) : b[i + 1] \in {"r", "n"}}
  BY DEF P!Breaks, P!m_read_buf, P!Bytes
<1>3. CASE P!Breaks = {}
  <2>1. line.idx = m_read_idx /\ line.status = "open"
    BY <1>3 DEF P!parse_line
  <2>2. Plain(m_checked_idx + 1, m_read_idx)
    <3> SUFFICES ASSUME NEW k \in (m_checked_idx + 1)..m_read_idx
                 PROVE  b[k] \notin {"r", "n"}
      BY DEF Plain
    <3>1. k - 1 \in m_checked_idx..(m_read_idx - 1) /\ (k - 1) + 1 = k
      BY <1>1
    <3> QED BY <1>2, <1>3, <3>1
  <2>3. \A k \in (m_checked_idx + 1)..(m_read_idx - 1) : b[k] # "r"
    BY <1>1, <2>2 DEF Plain
  <2> QED BY <1>1, <2>1, <2>2, <2>3
<1>4. CASE P!Breaks # {}
  <2> DEFINE i == P!Break
  <2>1. P!Breaks \subseteq Nat
    BY <1>1, <1>2
  <2>2. i \in P!Breaks /\ \A j \in P!Breaks : i <= j
    BY <1>4, <2>1, LeastNatural DEF P!Break
  <2>3. /\ i \in Nat /\ m_checked_idx <= i /\ i < m_read_idx
        /\ b[i + 1] \in {"r", "n"}
    BY <1>1, <1>2, <2>2
  <2>4. Plain(m_checked_idx + 1, i)
    <3> SUFFICES ASSUME NEW k \in (m_checked_idx + 1)..i
                 PROVE  b[k] \notin {"r", "n"}
      BY DEF Plain
    <3>1. k - 1 \in m_checked_idx..(m_read_idx - 1) /\ (k - 1) + 1 = k /\ ~(i <= k - 1)
      BY <1>1, <2>3
    <3> QED BY <1>2, <2>2, <3>1
  <2>5. /\ P!m_read_buf(i) = b[i + 1] /\ P!m_read_buf(i + 1) = b[i + 2]
    BY <2>3 DEF P!m_read_buf, P!Bytes
  <2>6. line = IF b[i + 1] = "r" /\ i + 1 = m_read_idx
               THEN [idx |-> i, status |-> "open"]
               ELSE IF b[i + 1] = "r" /\ b[i + 2] = "n"
               THEN [idx |-> i + 2, status |-> "ok"]
               ELSE [idx |-> i, status |-> "bad"]
    BY <1>4, <2>5 DEF P!parse_line
  <2>7. ASSUME NEW k \in (m_checked_idx + 1)..(m_read_idx - 1),
               b[k] = "r", b[k + 1] = "n", Plain(m_checked_idx + 1, k - 1)
        PROVE  k = i + 1
    <3>1. k - 1 \in P!Breaks
      <4>1. k - 1 \in m_checked_idx..(m_read_idx - 1) /\ (k - 1) + 1 = k
        BY <1>1
      <4> QED BY <1>2, <2>7, <4>1
    <3>2. i <= k - 1
      BY <2>2, <3>1
    <3>3. CASE i + 1 <= k - 1
      <4>1. i + 1 \in (m_checked_idx + 1)..(k - 1)
        BY <1>1, <2>3, <3>3
      <4> QED BY <2>3, <2>7, <4>1 DEF Plain
    <3> QED BY <1>1, <2>3, <3>2, <3>3
  <2> HIDE DEF i, line, b
  <2>8. CASE b[i + 1] = "r" /\ i + 1 = m_read_idx
    <3>1. line.idx = i /\ line.status = "open"
      BY <2>6, <2>8
    <3>2. \A k \in (m_checked_idx + 1)..(m_read_idx - 1) :
             ~(b[k] = "r" /\ b[k + 1] = "n" /\ Plain(m_checked_idx + 1, k - 1))
      BY <1>1, <2>3, <2>7, <2>8
    <3> QED BY <1>1, <2>3, <2>4, <3>1, <3>2 DEF line, b
  <2>9. CASE i + 1 # m_read_idx /\ b[i + 1] = "r" /\ b[i + 2] = "n"
    <3>1. line.idx = i + 2 /\ line.status = "ok"
      BY <2>6, <2>9
    <3>2. i + 2 - 1 = i + 1 /\ i + 2 - 2 = i /\ i + 2 <= m_read_idx
      BY <1>1, <2>3, <2>9
    <3> QED BY <1>1, <2>3, <2>4, <2>9, <3>1, <3>2 DEF line, b
  <2>10. CASE ~(b[i + 1] = "r" /\ (i + 1 = m_read_idx \/ b[i + 2] = "n"))
    <3>1. line.idx = i /\ line.status = "bad"
      BY <2>6, <2>10
    <3>2. \A k \in (m_checked_idx + 1)..(m_read_idx - 1) :
             ~(b[k] = "r" /\ b[k + 1] = "n" /\ Plain(m_checked_idx + 1, k - 1))
      <4>1. i + 1 + 1 = i + 2
        BY <2>3
      <4> QED BY <2>7, <2>10, <4>1
    <3> QED BY <1>1, <2>3, <2>4, <3>1, <3>2 DEF line, b
  <2> QED BY <2>8, <2>9, <2>10
<1> QED BY <1>3, <1>4

-----------------------------------------------------------------------------
(* The lines of the head. *)

\* The parser is at a line of the head, and has looked at some of its text.
AtHead == /\ m_start_line <= P!BodyStart - 2
          /\ m_start_line # 0 => request.bytes[m_start_line] = "n"
          /\ Plain(m_start_line + 1, m_checked_idx)

\* What Http says, in terms of the request that is being read.
LEMMA HttpFacts ==
    ASSUME request \in Requests, Http(request)
    PROVE  LET b == request.bytes
               s == P!BodyStart
           IN  /\ s \in Nat /\ s >= 3 /\ b[s - 2] = "n" /\ b[s - 1] = "r" /\ b[s] = "n"
               /\ b[1] # "n" /\ \A i \in 1..(s - 1) : b[i] = "r" <=> b[i + 1] = "n"
               /\ \A i \in 1..(s - 2) : b[i] = "n" /\ b[i + 1] = "r" => i = s - 2
               /\ b[1] = "q" => b[2] = "r"
BY RequestType DEF Http

LEMMA HeadChecked ==
    ASSUME Indices, Http(request), AtHead PROVE m_checked_idx <= P!BodyStart - 2
<1> DEFINE s == P!BodyStart
<1>1. s \in Nat /\ s >= 3 /\ request.bytes[s - 1] = "r"
  BY HttpFacts DEF Indices
<1>2. m_start_line \in Nat /\ m_checked_idx \in Nat /\ m_start_line <= s - 2
  BY DEF Indices, AtHead
<1> HIDE DEF s
<1>3. CASE m_checked_idx > s - 2
  <2>1. s - 1 \in (m_start_line + 1)..m_checked_idx
    BY <1>1, <1>2, <1>3
  <2> QED BY <1>1, <2>1 DEF AtHead, Plain
<1> QED BY <1>1, <1>2, <1>3 DEF s

\* A line of the head is plain text up to its "r", "n".  It is the empty one exactly at
\* the end of the head, the request line apart.
LEMMA HeadLine ==
    ASSUME Indices, Http(request), AtHead, P!parse_line.status = "ok"
    PROVE  LET idx == P!parse_line.idx
           IN  /\ idx \in Nat /\ m_start_line + 2 <= idx /\ idx <= m_read_idx
               /\ request.bytes[idx - 1] = "r" /\ request.bytes[idx] = "n"
               /\ Plain(m_start_line + 1, idx - 2)
               /\ m_start_line # 0 /\ idx = m_start_line + 2 => idx = P!BodyStart
               /\ idx # m_start_line + 2 => idx <= P!BodyStart - 2
<1> DEFINE s == P!BodyStart
           b == request.bytes
           idx == P!parse_line.idx
           st == m_start_line
           ck == m_checked_idx
<1>1. /\ s \in Nat /\ s >= 3 /\ b[s - 2] = "n" /\ b[s - 1] = "r" /\ b[s] = "n"
      /\ \A i \in 1..(s - 2) : b[i] = "n" /\ b[i + 1] = "r" => i = s - 2
  BY HttpFacts DEF Indices
<1>2. st \in Nat /\ ck \in Nat /\ st <= ck /\ st <= s - 2 /\ (st # 0 => b[st] = "n")
  BY DEF Indices, AtHead
<1>3. ck <= s - 2
  BY HeadChecked
<1>4. /\ idx \in Nat /\ ck + 2 <= idx /\ idx <= m_read_idx
      /\ b[idx - 1] = "r" /\ b[idx] = "n" /\ Plain(ck + 1, idx - 2)
  BY ParseLine
<1> HIDE DEF s, b, idx, st, ck
<1>5. Plain(st + 1, idx - 2)
  <2> SUFFICES ASSUME NEW k \in (st + 1)..(idx - 2) PROVE b[k] \notin {"r", "n"}
    BY DEF Plain, b
  <2>1. k \in (st + 1)..ck \/ k \in (ck + 1)..(idx - 2)
    BY <1>2, <1>4
  <2>2. Plain(st + 1, ck)
    BY DEF AtHead, st, ck
  <2> QED BY <1>4, <2>1, <2>2 DEF Plain, b
<1>6. idx - 1 <= s - 1
  <2>1. CASE idx - 1 > s - 1
    <3>1. s - 1 \in (ck + 1)..(idx - 2)
      BY <1>1, <1>2, <1>3, <1>4, <2>1
    <3> QED BY <1>1, <1>4, <3>1 DEF Plain, b
  <2> QED BY <1>1, <1>4, <2>1
<1>7. ASSUME st # 0, idx = st + 2 PROVE idx = s
  <2>1. st \in 1..(s - 2) /\ idx - 1 = st + 1
    BY <1>1, <1>2, <1>7
  <2>2. st = s - 2
    BY <1>1, <1>2, <1>4, <1>7, <2>1
  <2> QED BY <1>1, <1>7, <2>2
<1>8. ASSUME idx # st + 2 PROVE idx <= s - 2
  <2>1. st + 2 < idx
    BY <1>2, <1>4, <1>8
  <2>2. idx # s
    <3> SUFFICES ASSUME idx = s PROVE FALSE
      OBVIOUS
    <3>1. s - 2 \in (st + 1)..(idx - 2)
      BY <1>1, <1>2, <2>1
    <3> QED BY <1>1, <1>5, <3>1 DEF Plain, b
  <2>3. idx # s - 1
    BY <1>1, <1>4
  <2> QED BY <1>1, <1>4, <1>6, <2>2, <2>3
<1>9. st + 2 <= idx
  BY <1>2, <1>4
<1> QED BY <1>4, <1>5, <1>7, <1>8, <1>9 DEF s, b, idx, st

\* When all of the request has arrived the line is there.
LEMMA HeadComplete ==
    ASSUME Indices, Http(request), AtHead, m_read_idx = Len(request.bytes)
    PROVE  P!parse_line.status = "ok"
<1> DEFINE s == P!BodyStart
           b == request.bytes
           st == m_start_line
           ck == m_checked_idx
           T == {k \in (ck + 1)..(s - 1) : b[k] \in {"r", "n"}}
<1>1. /\ s \in Nat /\ s >= 3 /\ b[s - 1] = "r" /\ b[1] # "n"
      /\ \A i \in 1..(s - 1) : b[i] = "r" <=> b[i + 1] = "n"
  BY HttpFacts DEF Indices
<1>2. st \in Nat /\ ck \in Nat /\ st <= ck /\ (st # 0 => b[st] = "n") /\ Plain(st + 1, ck)
  BY DEF Indices, AtHead
<1>3. ck <= s - 2 /\ s <= m_read_idx /\ m_read_idx \in Nat
  BY HeadChecked, RequestType DEF Indices
<1> HIDE DEF s, b, st, ck
<1>4. PICK k \in T : \A j \in T : k <= j
  <2>1. s - 1 \in T
    BY <1>1, <1>2, <1>3
  <2>2. T \subseteq Nat
    BY <1>2
  <2> QED BY <2>1, <2>2, LeastNatural
<1>5. k \in Nat /\ ck + 1 <= k /\ k <= s - 1
  BY <1>1, <1>2, <1>4
<1>6. Plain(ck + 1, k - 1)
  <2> SUFFICES ASSUME NEW j \in (ck + 1)..(k - 1) PROVE b[j] \notin {"r", "n"}
    BY DEF Plain, b
  <2>1. j \in (ck + 1)..(s - 1) /\ ~(k <= j)
    BY <1>1, <1>2, <1>5
  <2> QED BY <1>4, <2>1
<1>7. b[k] # "n"
  <2> SUFFICES ASSUME b[k] = "n" PROVE FALSE
    OBVIOUS
  <2>1. k # 1
    BY <1>1
  <2>2. k - 1 \in 1..(s - 1) /\ (k - 1) + 1 = k
    BY <1>1, <1>2, <1>5, <2>1
  <2>3. b[k - 1] = "r"
    BY <1>1, <2>2
  <2>4. k - 1 \in (ck + 1)..(k - 1) \/ k - 1 \in (st + 1)..ck \/ (k - 1 = st /\ st # 0)
    BY <1>2, <1>5, <2>1
  <2> QED BY <1>2, <1>6, <2>3, <2>4 DEF Plain, b
<1>8. b[k] = "r" /\ b[k + 1] = "n"
  <2>1. k \in 1..(s - 1)
    BY <1>1, <1>2, <1>5
  <2> QED BY <1>1, <1>4, <1>7, <2>1
<1>9. k \in (ck + 1)..(m_read_idx - 1)
  BY <1>1, <1>2, <1>3, <1>5
<1> QED BY <1>6, <1>8, <1>9, ParseLine DEF b, ck

-----------------------------------------------------------------------------
(* What every step leaves true of the indices. *)

\* A step as the parser sees it.
LEMMA ParserStep ==
    ASSUME [Next]_vars
    PROVE  \/ \E n \in 1..READ_BUFFER_SIZE : P!Read(n)
           \/ P!ReadFull \/ P!NoLine \/ P!parse_request_line \/ P!parse_headers
           \/ P!parse_content \/ P!init \/ P!Close \/ UNCHANGED parser
BY DEF Next, vars, Read, process_read, P!process_read, process_write, write, Kept, Closed,
       Accepted

LEMMA IndicesStep == ASSUME Indices, [Next]_vars PROVE Indices'
<1> DEFINE line == P!parse_line
<1>1. /\ m_read_idx \in Nat /\ m_checked_idx \in Nat /\ m_start_line \in Nat
      /\ m_start_line <= m_checked_idx /\ m_checked_idx <= m_read_idx
      /\ line.idx \in Nat /\ m_checked_idx <= line.idx /\ line.idx <= m_read_idx
      /\ READ_BUFFER_SIZE \in Nat /\ Len(request.bytes) \in Nat
  BY ParseLine, RequestType, ConnAssumption DEF Indices
<1> HIDE DEF line
<1>2. ASSUME NEW n \in 1..READ_BUFFER_SIZE, P!Read(n) PROVE Indices'
  BY <1>1, <1>2 DEF P!Read, P!Room, P!Bytes, P!parsing, Indices
<1>3. CASE P!ReadFull \/ P!Close \/ UNCHANGED parser
  BY <1>3 DEF P!ReadFull, P!Close, P!parsing, parser, Indices
<1>4. CASE P!NoLine
  <2>1. m_checked_idx' = line.idx /\ UNCHANGED <<request, m_read_idx, m_start_line>>
    BY <1>4 DEF P!NoLine, P!unparsed, line
  <2> QED BY <1>1, <2>1 DEF Indices
<1>5. CASE P!parse_request_line \/ P!parse_headers
  <2>1. m_checked_idx' = line.idx /\ m_start_line' = line.idx /\ UNCHANGED <<request, m_read_idx>>
    BY <1>5 DEF P!parse_request_line, P!parse_headers, P!FoundLine, P!unparsed, line
  <2> QED BY <1>1, <2>1 DEF Indices
<1>6. CASE P!parse_content
  <2>1. /\ m_checked_idx' \in {line.idx, m_checked_idx} /\ m_start_line' = m_checked_idx'
        /\ UNCHANGED <<request, m_read_idx>>
    BY <1>6 DEF P!parse_content, P!unparsed, line
  <2> QED BY <1>1, <2>1 DEF Indices
<1>7. CASE P!init
  <2>1. request' \in Requests /\ m_read_idx' = 0 /\ m_checked_idx' = 0 /\ m_start_line' = 0
    BY <1>7 DEF P!init
  <2>2. Len(request'.bytes) \in Nat
    BY <2>1, ConnAssumption, LenProperties
  <2> QED BY <1>1, <2>1, <2>2 DEF Indices
<1> QED BY <1>2, <1>3, <1>4, <1>5, <1>6, <1>7, ParserStep

LEMMA InitIndices == Init => Indices
<1> SUFFICES ASSUME Init PROVE Indices
  OBVIOUS
<1>1. request \in Requests /\ m_read_idx = 0 /\ m_checked_idx = 0 /\ m_start_line = 0
  BY DEF Init, P!Init
<1> QED BY <1>1, RequestType, ConnAssumption DEF Indices

\* A connection is kept only if a header of this request asks for it.
AskedToLinger == m_linger => Contains(request.bytes, "k")

\* A line that is one symbol is that symbol of the request.
LEMMA OneSymbol ==
    ASSUME Indices, P!parse_line.status = "ok", NEW x, P!Line = <<x>>
    PROVE  /\ P!parse_line.idx = m_start_line + 3
           /\ m_start_line + 1 \in 1..Len(request.bytes)
           /\ request.bytes[m_start_line + 1] = x
<1> DEFINE b == request.bytes
           i == m_start_line + 1
           j == P!parse_line.idx - 2
<1>1. /\ m_start_line \in Nat /\ P!parse_line.idx \in Nat
      /\ P!parse_line.idx <= m_read_idx /\ m_read_idx <= Len(b) /\ Len(b) \in Nat
      /\ m_read_idx \in Nat
  BY ParseLine, RequestType DEF Indices
<1>2. i \in Int /\ j \in Int
  BY <1>1
<1>3. \A k \in i..j : b[k] \in STRING
  <2>1. \A k \in i..j : k \in 1..Len(b)
    BY <1>1
  <2> QED BY <2>1, RequestType, ElementOfSeq DEF Indices
<1>4. P!Line = SubSeq(b, i, j)
  BY DEF P!Line, P!Bytes
<1>5. /\ Len(SubSeq(b, i, j)) = IF i <= j THEN j - i + 1 ELSE 0
      /\ \A k \in 1..(j - i + 1) : SubSeq(b, i, j)[k] = b[i + k - 1]
  <2> HIDE DEF b, i, j
  <2> QED BY <1>2, <1>3, SubSeqProperties
<1>6. Len(P!Line) = 1 /\ P!Line[1] = x
  OBVIOUS
<1>7. i = j
  BY <1>2, <1>4, <1>5, <1>6
<1>8. b[i] = x
  BY <1>2, <1>4, <1>5, <1>6, <1>7
<1>9. i \in 1..Len(b)
  BY <1>1, <1>7
<1> QED BY <1>1, <1>7, <1>8, <1>9

LEMMA LingerStep == ASSUME Indices, AskedToLinger, [Next]_vars PROVE AskedToLinger'
<1>1. CASE UNCHANGED <<request, m_linger>>
  BY <1>1 DEF AskedToLinger, Contains
<1>2. CASE P!parse_headers
  <2>1. P!parse_line.status = "ok" /\ request' = request
    BY <1>2 DEF P!parse_headers, P!FoundLine, P!unparsed
  <2>2. m_linger' = m_linger \/ (m_linger' => m_linger \/ P!Line = <<"k">>)
    BY <1>2 DEF P!parse_headers
  <2>3. P!Line = <<"k">> => Contains(request.bytes, "k")
    BY <2>1, OneSymbol DEF Contains
  <2> QED BY <2>1, <2>2, <2>3 DEF AskedToLinger, Contains
<1>3. CASE P!init
  BY <1>3 DEF P!init, AskedToLinger
<1>4. CASE P!ReadFull \/ P!NoLine \/ P!parse_request_line \/ P!parse_content \/ P!Close
           \/ UNCHANGED parser
  BY <1>1, <1>4 DEF P!ReadFull, P!NoLine, P!parse_request_line, P!parse_content, P!Close,
                    P!FoundLine, P!unparsed, P!parsing, parser
<1>5. ASSUME NEW n \in 1..READ_BUFFER_SIZE, P!Read(n) PROVE AskedToLinger'
  BY <1>1, <1>5 DEF P!Read, P!parsing
<1> QED BY <1>2, <1>3, <1>4, <1>5, ParserStep

LEMMA SpecLinger == Spec => [](Indices /\ AskedToLinger)
<1>1. Init => AskedToLinger
  BY DEF Init, P!Init, AskedToLinger
<1> QED BY <1>1, InitIndices, IndicesStep, LingerStep, PTL DEF Spec

-----------------------------------------------------------------------------
(* Reading a request. *)

\* A Content-Length that the parser is past is in m_content_length.
LengthSeen == \A k \in 2..m_start_line :
    request.bytes[k - 1] = "n" /\ request.bytes[k] = "l" /\ request.bytes[k + 1] = "r"
        => m_content_length = request.body

InHead == m_check_state # "content" =>
    /\ AtHead
    /\ m_check_state = "requestline" => m_start_line = 0
    /\ m_check_state = "header" => m_start_line # 0 /\ WellFormed /\ LengthSeen

\* Unless the buffer is full, no more of the body has been looked at than nothing.
InContent == m_check_state = "content" =>
    /\ WellFormed /\ m_content_length = request.body /\ request.body # 0
    /\ P!BodyStart <= m_start_line
    /\ m_read_idx \in {P!BodyStart, Len(request.bytes)} => m_checked_idx = P!BodyStart
    /\ m_read_idx = Len(request.bytes) => line_status = "ok"

\* The body arrives in one read, or does not fit.
BodyWhole == \/ m_read_idx <= P!BodyStart
             \/ m_read_idx = Len(request.bytes)
             \/ m_read_idx = READ_BUFFER_SIZE

\* Recognised and HandsOverRequest say what is true when process_read has ended; that
\* it ends so takes where in the request each of the parser's states may be, and what
\* it has seen before.
ParserInv == /\ Indices
             /\ m_TRIGMode \in {0, 1}
             /\ m_check_state \in {"requestline", "header", "content"}
             /\ m_content_length \in {0, request.body}
             /\ reading \in {"armed", "full", "parse", "request", "bad", "closed"}
             /\ reading \in {"armed", "parse"} => BodyWhole /\ InHead /\ InContent
             /\ Recognised /\ HandsOverRequest

\* A new request.
Fresh == /\ request \in Requests /\ Http(request)
         /\ m_read_idx = 0 /\ m_checked_idx = 0 /\ m_start_line = 0
         /\ m_check_state = "requestline" /\ m_content_length = 0
         /\ reading = "armed" /\ m_TRIGMode \in {0, 1}

LEMMA FreshRequest == Fresh => ParserInv
<1> SUFFICES ASSUME Fresh PROVE ParserInv
  OBVIOUS
<1> USE DEF Fresh
<1>1. /\ P!BodyStart \in Nat /\ P!BodyStart >= 3 /\ P!BodyStart <= Len(request.bytes)
      /\ Len(request.bytes) \in Nat
  BY HttpFacts, RequestType
<1>2. Indices
  BY <1>1, ConnAssumption DEF Indices
<1>3. InHead
  BY <1>1 DEF InHead, AtHead, Plain
<1>4. BodyWhole /\ InContent
  BY <1>1 DEF BodyWhole, InContent
<1>5. Recognised
  BY <1>1 DEF Recognised, P!Bytes
<1>6. HandsOverRequest
  BY DEF HandsOverRequest
<1> QED BY <1>2, <1>3, <1>4, <1>5, <1>6 DEF ParserInv

LEMMA ReadStep ==
    ASSUME ~BodyCut, ParserInv, Http(request), NEW n \in 1..READ_BUFFER_SIZE, P!Read(n), Indices'
    PROVE  ParserInv'
<1> DEFINE s == P!BodyStart
           len == Len(request.bytes)
<1>1. /\ m_read_idx \in Nat /\ len \in Nat /\ s \in Nat /\ s <= len
      /\ READ_BUFFER_SIZE \in Nat /\ n \in Nat /\ n > 0
      /\ m_checked_idx \in Nat /\ m_checked_idx <= m_read_idx
      /\ m_start_line \in Nat /\ m_start_line <= m_checked_idx
  BY RequestType, ConnAssumption DEF ParserInv, Indices
<1>2. /\ reading = "armed" /\ n <= READ_BUFFER_SIZE - m_read_idx /\ m_read_idx + n <= len
      /\ n = READ_BUFFER_SIZE - m_read_idx \/ m_read_idx + n \notin (s + 1)..(len - 1)
      /\ m_read_idx' = m_read_idx + n /\ line_status' = "ok"
      /\ reading' \in {"full", "parse"}
      /\ reading' = "full" => m_TRIGMode = 1 /\ n = READ_BUFFER_SIZE - m_read_idx
      /\ UNCHANGED <<m_TRIGMode, request, m_checked_idx, m_start_line, m_check_state,
                     m_content_length>>
  BY DEF P!Read, P!Room, P!Bytes, P!BodyStart, P!parsing
<1>3. s' = s /\ len' = len
  BY <1>2 DEF P!BodyStart
<1>4. BodyWhole /\ InHead /\ InContent
  BY <1>2 DEF ParserInv
<1> HIDE DEF s, len
<1>5. BodyWhole'
  <2>1. m_read_idx' <= s \/ m_read_idx' = len \/ m_read_idx' = READ_BUFFER_SIZE
    BY <1>1, <1>2
  <2> QED BY <1>3, <2>1 DEF BodyWhole, s, len
<1>6. InHead'
  BY <1>2, <1>3, <1>4 DEF InHead, AtHead, Plain, WellFormed, LengthSeen, s
<1>7. InContent'
  <2> SUFFICES ASSUME m_check_state = "content"
               PROVE  m_read_idx' \in {s, len} => m_checked_idx = s
    BY <1>2, <1>3, <1>4 DEF InContent, WellFormed, s, len
  <2>1. s <= m_start_line
    BY <1>4 DEF InContent, s
  <2>2. m_read_idx = s \/ m_read_idx = len \/ m_read_idx = READ_BUFFER_SIZE
    BY <1>1, <1>4, <2>1 DEF BodyWhole, s, len
  <2>3. m_read_idx = s
    BY <1>1, <1>2, <2>2
  <2> QED BY <1>4, <2>3 DEF InContent, s
<1>8. Recognised'
  <2>1. reading' = "full" => len + m_TRIGMode > READ_BUFFER_SIZE
    BY <1>1, <1>2
  <2> QED BY <1>2, <1>3, <2>1 DEF Recognised, P!Bytes, len
<1>9. HandsOverRequest'
  BY <1>2 DEF HandsOverRequest
<1> QED BY <1>2, <1>5, <1>6, <1>7, <1>8, <1>9 DEF ParserInv

LEMMA NoLineStep ==
    ASSUME ParserInv, Http(request), P!NoLine, Indices' PROVE ParserInv'
<1> DEFINE s == P!BodyStart
           len == Len(request.bytes)
           idx == P!parse_line.idx
<1>1. /\ m_read_idx \in Nat /\ m_read_idx <= len /\ len \in Nat /\ s \in Nat /\ s <= len
      /\ m_checked_idx \in Nat /\ m_checked_idx <= m_read_idx
      /\ m_start_line \in Nat /\ m_start_line <= m_checked_idx
      /\ idx \in Nat /\ m_checked_idx <= idx /\ idx <= m_read_idx
      /\ Plain(m_checked_idx + 1, idx)
  BY RequestType, ParseLine DEF ParserInv, Indices, P!NoLine
<1>2. /\ reading = "parse" /\ P!NeedsLine /\ P!parse_line.status # "ok"
      /\ m_checked_idx' = idx /\ reading' = "armed"
      /\ UNCHANGED <<m_TRIGMode, request, m_read_idx, m_start_line, m_check_state,
                     m_content_length>>
  BY DEF P!NoLine, P!unparsed
<1>3. Indices /\ BodyWhole /\ InHead /\ InContent
  BY <1>2 DEF ParserInv
<1>4. s' = s /\ len' = len
  BY <1>2 DEF P!BodyStart
<1> HIDE DEF s, len, idx
<1>5. m_read_idx # len
  <2> SUFFICES ASSUME m_read_idx = len PROVE FALSE
    OBVIOUS
  <2>1. CASE m_check_state # "content"
    BY <1>2, <1>3, <2>1, HeadComplete DEF InHead, len
  <2>2. CASE m_check_state = "content"
    BY <1>2, <1>3, <2>2 DEF InContent, P!NeedsLine, len
  <2> QED BY <2>1, <2>2
<1>6. BodyWhole'
  BY <1>2, <1>3, <1>4 DEF BodyWhole, s, len
<1>7. InHead'
  <2>1. Plain(m_start_line + 1, m_checked_idx) => Plain(m_start_line + 1, idx)
    <3>1. \A k \in (m_start_line + 1)..idx :
             k \in (m_start_line + 1)..m_checked_idx \/ k \in (m_checked_idx + 1)..idx
      BY <1>1
    <3> QED BY <1>1, <3>1 DEF Plain
  <2> QED BY <1>2, <1>3, <1>4, <2>1 DEF InHead, AtHead, Plain, WellFormed, LengthSeen, s
<1>8. InContent'
  <2> SUFFICES ASSUME m_check_state = "content", m_read_idx = s PROVE idx = s
    BY <1>2, <1>3, <1>4, <1>5 DEF InContent, WellFormed, s, len
  <2>1. m_checked_idx = s
    BY <1>3 DEF InContent, s
  <2> QED BY <1>1, <2>1
<1>9. Recognised'
  BY <1>1, <1>2, <1>4, <1>5 DEF Recognised, P!Bytes, len
<1>10. HandsOverRequest'
  BY <1>2 DEF HandsOverRequest
<1>11. m_TRIGMode' \in {0, 1} /\ m_check_state' \in {"requestline", "header", "content"}
       /\ m_content_length' \in {0, request'.body}
  BY <1>2 DEF ParserInv
<1> QED BY <1>2, <1>6, <1>7, <1>8, <1>9, <1>10, <1>11 DEF ParserInv

\* The text of a line that is none or one symbol long.
LEMMA ShortLine ==
    ASSUME Indices, P!parse_line.status = "ok", m_start_line + 2 <= P!parse_line.idx
    PROVE  /\ P!Line = <<>> <=> P!parse_line.idx = m_start_line + 2
           /\ P!parse_line.idx = m_start_line + 3 => P!Line = <<request.bytes[m_start_line + 1]>>
<1> DEFINE b == request.bytes
           i == m_start_line + 1
           j == P!parse_line.idx - 2
<1>1. /\ m_start_line \in Nat /\ P!parse_line.idx \in Nat
      /\ P!parse_line.idx <= m_read_idx /\ m_read_idx <= Len(b) /\ Len(b) \in Nat
      /\ m_read_idx \in Nat
  BY ParseLine, RequestType DEF Indices
<1>2. i \in Int /\ j \in Int
  BY <1>1
<1>3. \A k \in i..j : b[k] \in STRING
  <2>1. \A k \in i..j : k \in 1..Len(b)
    BY <1>1
  <2> QED BY <2>1, RequestType, ElementOfSeq DEF Indices
<1>4. P!Line = SubSeq(b, i, j)
  BY DEF P!Line, P!Bytes
<1>5. /\ SubSeq(b, i, j) \in Seq(STRING)
      /\ Len(SubSeq(b, i, j)) = IF i <= j THEN j - i + 1 ELSE 0
      /\ \A k \in 1..(j - i + 1) : SubSeq(b, i, j)[k] = b[i + k - 1]
  <2> HIDE DEF b, i, j
  <2> QED BY <1>2, <1>3, SubSeqProperties
<1>6. P!Line = <<>> <=> ~(i <= j)
  <2>1. CASE i <= j
    <3>1. Len(P!Line) # 0
      BY <1>2, <1>4, <1>5, <2>1
    <3> QED BY <2>1, <3>1
  <2>2. CASE ~(i <= j)
    <3>1. P!Line \in Seq(STRING) /\ Len(P!Line) = 0
      BY <1>4, <1>5, <2>2
    <3>2. P!Line = <<>>
      BY <3>1, EmptySeq
    <3> QED BY <2>2, <3>2
  <2> QED BY <2>1, <2>2
<1>7. i <= j <=> P!parse_line.idx # m_start_line + 2
  BY <1>1
<1>8. ASSUME i = j PROVE P!Line = <<b[i]>>
  <2>1. Len(P!Line) = 1 /\ P!Line \in Seq(STRING) /\ P!Line[1] = b[i]
    BY <1>2, <1>4, <1>5, <1>8
  <2>2. b[i] \in STRING
    BY <1>2, <1>3, <1>8
  <2>3. <<b[i]>> \in Seq(STRING) /\ Len(<<b[i]>>) = 1 /\ <<b[i]>>[1] = b[i]
    BY <2>2
  <2> HIDE DEF b, i
  <2>4. \A k \in 1..1 : P!Line[k] = <<b[i]>>[k]
    BY <2>1, <2>3
  <2> QED BY <2>1, <2>3, <2>4, SeqEqual
<1>9. P!parse_line.idx = m_start_line + 3 => i = j
  BY <1>1
<1> QED BY <1>6, <1>7, <1>8, <1>9

LEMMA RequestLineStep ==
    ASSUME ParserInv, Http(request), P!parse_request_line, Indices' PROVE ParserInv'
<1> DEFINE s == P!BodyStart
           b == request.bytes
           idx == P!parse_line.idx
<1>1. /\ reading = "parse" /\ m_check_state = "requestline" /\ P!parse_line.status = "ok"
      /\ m_checked_idx' = idx /\ m_start_line' = idx /\ line_status' = "ok"
      /\ UNCHANGED <<m_TRIGMode, request, m_read_idx, m_content_length>>
  BY DEF P!parse_request_line, P!FoundLine, P!unparsed
<1>2. Indices /\ BodyWhole /\ AtHead /\ m_start_line = 0
  BY <1>1 DEF ParserInv, InHead
<1>3. /\ s \in Nat /\ s >= 3
      /\ \A i \in 1..(s - 1) : b[i] = "r" <=> b[i + 1] = "n"
      /\ b[1] = "q" => b[2] = "r"
  BY <1>2, HttpFacts DEF Indices
<1>4. /\ idx \in Nat /\ 2 <= idx /\ b[idx - 1] = "r" /\ b[idx] = "n" /\ Plain(1, idx - 2)
      /\ idx # 2 => idx <= s - 2
  BY <1>1, <1>2, HeadLine
<1>5. s' = s /\ b' = b
  BY <1>1 DEF P!BodyStart
<1>6. BodyWhole'
  BY <1>1, <1>2, <1>5 DEF BodyWhole
<1>7. CASE P!Line = <<"q">>
  <2>1. m_check_state' = "header" /\ reading' = "parse"
    BY <1>1, <1>7 DEF P!parse_request_line
  <2>2. idx = 3 /\ b[1] = "q"
    BY <1>1, <1>2, <1>7, OneSymbol
  <2> HIDE DEF s, b, idx
  <2>3. AtHead'
    <3>1. m_start_line' <= s - 2 /\ b[m_start_line'] = "n"
      BY <1>1, <1>3, <1>4, <2>2
    <3>2. \A k \in 4..3 : FALSE
      OBVIOUS
    <3>3. m_start_line' + 1 = 4 /\ m_checked_idx' = 3
      BY <1>1, <2>2
    <3> QED BY <1>5, <3>1, <3>2, <3>3 DEF AtHead, Plain, s, b
  <2>4. LengthSeen'
    <3>1. b[2] = "r" /\ b[3] = "n"
      BY <1>4, <2>2
    <3>2. \A k \in 2..3 : b[k] # "l"
      BY <3>1
    <3> QED BY <1>1, <1>5, <2>2, <3>2 DEF LengthSeen, b
  <2>5. InHead' /\ InContent'
    BY <1>1, <1>5, <2>1, <2>2, <2>3, <2>4 DEF InHead, InContent, WellFormed, b
  <2>6. Recognised' /\ HandsOverRequest'
    BY <2>1 DEF Recognised, HandsOverRequest
  <2>7. m_TRIGMode' \in {0, 1} /\ m_content_length' \in {0, request'.body}
    BY <1>1 DEF ParserInv
  <2> QED BY <1>6, <2>1, <2>5, <2>6, <2>7 DEF ParserInv
<1>8. CASE P!Line # <<"q">>
  <2>1. m_check_state' = m_check_state /\ reading' = "bad"
    BY <1>8 DEF P!parse_request_line
  <2>2. b[1] # "q"
    <3> SUFFICES ASSUME b[1] = "q" PROVE FALSE
      OBVIOUS
    <3>1. b[2] = "r"
      BY <1>3
    <3>2. ~(2 <= idx - 2) /\ idx - 1 # 1
      BY <1>4, <3>1 DEF Plain
    <3>3. idx = 3
      BY <1>4, <3>2
    <3> QED BY <1>1, <1>2, <1>8, <3>3, ShortLine
  <2>3. HandsOverRequest' /\ Recognised'
    BY <1>1, <2>1, <2>2 DEF HandsOverRequest, Recognised, WellFormed
  <2>4. m_TRIGMode' \in {0, 1} /\ m_content_length' \in {0, request'.body}
        /\ m_check_state' \in {"requestline", "header", "content"}
    BY <1>1, <2>1 DEF ParserInv
  <2> QED BY <2>1, <2>3, <2>4 DEF ParserInv
<1> QED BY <1>7, <1>8

LEMMA HeadersStep ==
    ASSUME ParserInv, Http(request), P!parse_headers, Indices' PROVE ParserInv'
<1> DEFINE s == P!BodyStart
           b == request.bytes
           len == Len(request.bytes)
           idx == P!parse_line.idx
           st == m_start_line
<1>1. /\ reading = "parse" /\ m_check_state = "header" /\ P!parse_line.status = "ok"
      /\ m_checked_idx' = idx /\ m_start_line' = idx /\ line_status' = "ok"
      /\ UNCHANGED <<m_TRIGMode, request, m_read_idx>>
  BY DEF P!parse_headers, P!FoundLine, P!unparsed
<1>2. /\ Indices /\ BodyWhole /\ AtHead /\ st # 0 /\ WellFormed /\ LengthSeen
      /\ m_TRIGMode \in {0, 1} /\ m_content_length \in {0, request.body}
  BY <1>1 DEF ParserInv, InHead
<1>3. /\ idx \in Nat /\ st + 2 <= idx /\ idx <= m_read_idx
      /\ b[idx - 1] = "r" /\ b[idx] = "n" /\ Plain(st + 1, idx - 2)
      /\ idx = st + 2 => idx = s
      /\ idx # st + 2 => idx <= s - 2
  BY <1>1, <1>2, HeadLine
<1>4. /\ st \in Nat /\ m_read_idx \in Nat /\ m_read_idx <= len /\ len \in Nat
      /\ s \in Nat /\ s = len - request.body /\ request.body \in Nat
  BY <1>2, RequestType DEF Indices
<1>5. P!Line = <<>> <=> idx = st + 2
  BY <1>1, <1>2, <1>3, ShortLine
<1>6. s' = s /\ b' = b /\ len' = len
  BY <1>1 DEF P!BodyStart
<1>7. BodyWhole' /\ WellFormed' /\ m_TRIGMode' \in {0, 1}
  BY <1>1, <1>2, <1>6 DEF BodyWhole, WellFormed
<1> HIDE DEF s, b, len, idx, st
<1>8. CASE P!Line = <<>> /\ m_content_length # 0
  <2>1. m_check_state' = "content" /\ UNCHANGED <<m_content_length, reading>>
    BY <1>8 DEF P!parse_headers
  <2>2. m_content_length = request.body /\ idx = s
    BY <1>2, <1>3, <1>5, <1>8
  <2>3. InContent' /\ InHead'
    BY <1>1, <1>4, <1>6, <1>7, <1>8, <2>1, <2>2 DEF InContent, InHead, s, b, len
  <2>4. Recognised' /\ HandsOverRequest'
    BY <1>1, <2>1 DEF Recognised, HandsOverRequest
  <2> QED BY <1>1, <1>7, <2>1, <2>2, <2>3, <2>4 DEF ParserInv
<1>9. CASE P!Line = <<>> /\ m_content_length = 0
  <2>1. reading' = "request" /\ UNCHANGED <<m_check_state, m_content_length>>
    BY <1>9 DEF P!parse_headers
  <2>2. idx = s /\ st = s - 2
    BY <1>3, <1>4, <1>5, <1>9
  <2>3. request.body = 0
    <3> SUFFICES ASSUME request.body # 0 PROVE FALSE
      OBVIOUS
    <3>1. request.body > 0
      BY <1>4
    <3>2. PICK k \in 2..(s - 2) : b[k - 1] = "n" /\ b[k] = "l" /\ b[k + 1] = "r"
      BY <3>1 DEF Http, P!BodyStart, s, b
    <3>3. m_content_length = request.body
      BY <1>2, <2>2, <3>2 DEF LengthSeen, st, b
    <3> QED BY <1>9, <3>3
  <2>4. m_read_idx = len
    BY <1>3, <1>4, <2>2, <2>3
  <2>5. ~request.cgi
    BY <2>3 DEF Http
  <2>6. HandsOverRequest'
    BY <1>1, <1>6, <1>7, <2>1, <2>4, <2>5 DEF HandsOverRequest, P!Bytes, len
  <2>7. Recognised'
    BY <2>1 DEF Recognised
  <2> QED BY <1>1, <1>2, <1>7, <2>1, <2>6, <2>7 DEF ParserInv
<1>10. CASE P!Line # <<>>
  <2>0. request.length = request.body
    BY DEF Http
  <2>1. /\ m_content_length' = IF P!Line = <<"l">> THEN request.body ELSE m_content_length
        /\ UNCHANGED <<m_check_state, reading>>
    BY <1>10, <2>0 DEF P!parse_headers
  <2>2. idx <= s - 2 /\ idx # 0
    BY <1>3, <1>4, <1>5, <1>10
  <2>3. AtHead'
    <3>1. \A k \in (idx + 1)..idx : FALSE
      BY <1>3
    <3> QED BY <1>1, <1>3, <1>6, <2>2, <3>1 DEF AtHead, Plain, s, b
  <2>4. LengthSeen'
    <3> SUFFICES ASSUME NEW k \in 2..idx, b[k - 1] = "n", b[k] = "l", b[k + 1] = "r"
                 PROVE  m_content_length' = request.body
      BY <1>1, <1>6 DEF LengthSeen, b
    <3>1. CASE k <= st
      <4>1. m_content_length = request.body
        BY <1>2, <1>4, <3>1 DEF LengthSeen, st, b
      <4> QED BY <2>1, <4>1
    <3>2. CASE k > st
      <4>1. k # idx /\ k # idx - 1
        BY <1>3
      <4>2. k \in (st + 1)..(idx - 2)
        BY <1>3, <1>4, <3>2, <4>1
      <4>3. k - 1 \notin (st + 1)..(idx - 2) /\ k + 1 \notin (st + 1)..(idx - 2)
        BY <1>3 DEF Plain, b
      <4>4. k = st + 1 /\ idx = st + 3
        BY <1>3, <1>4, <4>2, <4>3
      <4>5. P!Line = <<"l">>
        BY <1>1, <1>2, <1>3, <4>4, ShortLine DEF st, idx, b
      <4> QED BY <2>1, <4>5
    <3> QED BY <1>4, <3>1, <3>2
  <2>5. InHead' /\ InContent'
    BY <1>1, <1>7, <2>1, <2>2, <2>3, <2>4 DEF InHead, InContent
  <2>6. Recognised' /\ HandsOverRequest'
    BY <1>1, <2>1 DEF Recognised, HandsOverRequest
  <2>7. m_content_length' \in {0, request.body}
    BY <1>2, <2>1
  <2> QED BY <1>1, <1>7, <2>1, <2>5, <2>6, <2>7 DEF ParserInv
<1> QED BY <1>8, <1>9, <1>10

LEMMA ContentStep ==
    ASSUME ParserInv, Http(request), P!parse_content, Indices' PROVE ParserInv'
<1> DEFINE s == P!BodyStart
           b == request.bytes
           len == Len(request.bytes)
           idx == IF P!NeedsLine THEN P!parse_line.idx ELSE m_checked_idx
<1>1. /\ reading = "parse" /\ m_check_state = "content"
      /\ P!NeedsLine => P!parse_line.status = "ok"
      /\ m_checked_idx' = idx /\ m_start_line' = idx
      /\ UNCHANGED <<m_TRIGMode, request, m_read_idx, m_check_state, m_content_length>>
  BY DEF P!parse_content, P!unparsed
<1>2. /\ Indices /\ BodyWhole /\ InContent
      /\ m_TRIGMode \in {0, 1} /\ m_content_length \in {0, request.body}
  BY <1>1 DEF ParserInv
<1>3. /\ WellFormed /\ m_content_length = request.body /\ request.body # 0
      /\ s <= m_start_line
      /\ m_read_idx \in {s, len} => m_checked_idx = s
      /\ m_read_idx = len => line_status = "ok"
  BY <1>1, <1>2 DEF InContent
<1>4. /\ m_read_idx \in Nat /\ m_read_idx <= len /\ len \in Nat
      /\ m_checked_idx \in Nat /\ m_checked_idx <= m_read_idx
      /\ m_start_line \in Nat /\ m_start_line <= m_checked_idx
      /\ s \in Nat /\ s = len - request.body /\ request.body \in Nat
  BY <1>2, RequestType DEF Indices
<1>5. /\ idx \in Nat /\ m_checked_idx <= idx /\ idx <= m_read_idx
      /\ P!NeedsLine => m_checked_idx + 2 <= idx
  BY <1>1, <1>2, <1>4, ParseLine
<1>6. P!Complete(idx) <=> m_read_idx >= request.body + idx
  BY <1>3 DEF P!Complete
<1>7. s' = s /\ b' = b /\ len' = len
  BY <1>1 DEF P!BodyStart
<1>8. BodyWhole' /\ WellFormed' /\ m_TRIGMode' \in {0, 1}
  BY <1>1, <1>2, <1>3, <1>7 DEF BodyWhole, WellFormed
<1>9. \/ P!Complete(idx) /\ m_string' = m_start_line /\ reading' = "request"
      \/ ~P!Complete(idx) /\ line_status' = "open" /\ reading' = reading
  BY DEF P!parse_content
<1> HIDE DEF s, b, len, idx
<1>10. CASE m_read_idx = len
  <2>1. ~P!NeedsLine /\ m_checked_idx = s
    BY <1>1, <1>3, <1>10 DEF P!NeedsLine
  <2>2. idx = s /\ m_start_line = s
    BY <1>3, <1>4, <2>1 DEF idx
  <2>3. m_string' = s /\ reading' = "request"
    BY <1>4, <1>6, <1>9, <1>10, <2>2
  <2>4. request.cgi => s + request.body < READ_BUFFER_SIZE
    <3>1. request.cgi => len < READ_BUFFER_SIZE
      BY DEF Http, len
    <3>2. s + request.body = len
      BY <1>4
    <3> QED BY <3>1, <3>2
  <2>5. HandsOverRequest'
    <3>1. reading' # "bad" /\ m_read_idx' = Len(P!Bytes)' /\ m_string' = P!BodyStart'
      BY <1>1, <1>7, <1>10, <2>3 DEF P!Bytes, s, len
    <3>2. m_string' + m_content_length' = s + request.body
      BY <1>1, <1>3, <2>3
    <3>3. request'.cgi => m_string' + m_content_length' < READ_BUFFER_SIZE
      BY <1>1, <2>4, <3>2
    <3> QED BY <1>8, <3>1, <3>3 DEF HandsOverRequest
  <2>6. Recognised'
    BY <2>3 DEF Recognised
  <2> QED BY <1>1, <1>2, <1>8, <2>3, <2>5, <2>6 DEF ParserInv
<1>11. CASE m_read_idx # len
  <2>1. reading' = reading
    BY <1>3, <1>4, <1>5, <1>6, <1>9, <1>11
  <2>2. m_read_idx = s => idx = s
    BY <1>3, <1>4, <1>5
  <2>3. s <= idx
    BY <1>3, <1>4, <1>5
  <2>4. InContent' /\ InHead'
    BY <1>1, <1>3, <1>7, <1>8, <1>11, <2>2, <2>3 DEF InContent, InHead, s, len
  <2>5. Recognised' /\ HandsOverRequest'
    BY <1>1, <2>1 DEF Recognised, HandsOverRequest
  <2> QED BY <1>1, <1>2, <1>8, <2>1, <2>4, <2>5 DEF ParserInv
<1> QED BY <1>10, <1>11

LEMMA EndStep ==
    ASSUME ParserInv, P!ReadFull \/ P!Close \/ UNCHANGED parser, Indices' PROVE ParserInv'
<1>1. UNCHANGED <<m_TRIGMode, request, m_read_idx, m_checked_idx, m_start_line, m_check_state,
                  m_content_length, line_status, m_string>>
  BY DEF P!ReadFull, P!Close, P!parsing, parser
<1>2. /\ m_read_idx \in Nat /\ Len(request.bytes) \in Nat /\ READ_BUFFER_SIZE \in Nat
  BY RequestType, ConnAssumption DEF ParserInv, Indices
<1>3. /\ m_TRIGMode' \in {0, 1} /\ m_check_state' \in {"requestline", "header", "content"}
      /\ m_content_length' \in {0, request'.body}
  BY <1>1 DEF ParserInv
<1>4. CASE P!ReadFull
  <2>1. reading' = "full" /\ READ_BUFFER_SIZE - m_read_idx <= 0 /\ m_read_idx < Len(request.bytes)
    BY <1>4 DEF P!ReadFull, P!Room, P!Bytes
  <2>2. m_TRIGMode = 0 \/ m_TRIGMode = 1
    BY DEF ParserInv
  <2>3. Len(request.bytes) + m_TRIGMode > READ_BUFFER_SIZE
    BY <1>2, <2>1, <2>2
  <2>4. Recognised' /\ HandsOverRequest'
    BY <1>1, <2>1, <2>3 DEF Recognised, HandsOverRequest, P!Bytes
  <2> QED BY <1>3, <2>1, <2>4 DEF ParserInv
<1>5. CASE P!Close
  <2>1. reading' = "closed"
    BY <1>5 DEF P!Close
  <2>2. Recognised' /\ HandsOverRequest'
    BY <2>1 DEF Recognised, HandsOverRequest
  <2> QED BY <1>3, <2>1, <2>2 DEF ParserInv
<1>6. CASE UNCHANGED parser
  <2>1. reading' = reading
    BY <1>6 DEF parser
  <2>2. BodyWhole' <=> BodyWhole
    BY <1>1 DEF BodyWhole, P!BodyStart
  <2>3. InHead' <=> InHead
    BY <1>1 DEF InHead, AtHead, Plain, WellFormed, LengthSeen, P!BodyStart
  <2>4. InContent' <=> InContent
    BY <1>1 DEF InContent, WellFormed, P!BodyStart
  <2>5. (Recognised' <=> Recognised) /\ (HandsOverRequest' <=> HandsOverRequest)
    BY <1>1, <2>1 DEF Recognised, HandsOverRequest, WellFormed, P!Bytes, P!BodyStart
  <2> QED BY <1>3, <2>1, <2>2, <2>3, <2>4, <2>5 DEF ParserInv
<1> QED BY <1>4, <1>5, <1>6

LEMMA InitStep ==
    ASSUME m_TRIGMode \in {0, 1}, P!init, Http(request') PROVE ParserInv'
<1>1. Fresh'
  BY DEF P!init, Fresh
<1> QED BY <1>1, FreshRequest, PTL

\* The invariant is about the request that is being read, if it is HTTP; init() makes
\* it anew, whatever the requests before left in the members.
HttpInv == Indices /\ m_TRIGMode \in {0, 1} /\ (Http(request) => ParserInv)

LEMMA HttpStep == ASSUME ~BodyCut, HttpInv, [Next]_vars PROVE HttpInv'
<1>1. Indices'
  BY IndicesStep DEF HttpInv
<1>2. m_TRIGMode' = m_TRIGMode
  BY ParserStep DEF P!Read, P!ReadFull, P!NoLine, P!parse_request_line, P!parse_headers,
     P!parse_content, P!FoundLine, P!init, P!Close, P!parsing, P!unparsed, parser
<1>3. ASSUME Http(request') PROVE ParserInv'
  <2>1. CASE P!init
    BY <1>3, <2>1, InitStep DEF HttpInv
  <2>2. CASE ~P!init
    <3>1. request' = request
      BY <2>2, ParserStep DEF P!Read, P!ReadFull, P!NoLine, P!parse_request_line,
         P!parse_headers, P!parse_content, P!FoundLine, P!Close, P!parsing, P!unparsed, parser
    <3>2. Http(request) /\ ParserInv
      BY <1>3, <3>1 DEF HttpInv
    <3>3. ASSUME NEW n \in 1..READ_BUFFER_SIZE, P!Read(n) PROVE ParserInv'
      BY <1>1, <3>2, <3>3, ReadStep
    <3> QED BY <1>1, <2>2, <3>2, <3>3, ParserStep, NoLineStep, RequestLineStep, HeadersStep,
               ContentStep, EndStep
  <2> QED BY <2>1, <2>2
<1> QED BY <1>1, <1>2, <1>3 DEF HttpInv

LEMMA SpecParser == ASSUME ~BodyCut PROVE Spec => []HttpInv
<1>1. Init => HttpInv
  <2> SUFFICES ASSUME Init PROVE HttpInv
    OBVIOUS
  <2>1. m_TRIGMode \in {0, 1}
    BY DEF Init, P!Init, P!trig_mode
  <2>2. Http(request) => Fresh
    BY <2>1 DEF Init, P!Init, Fresh
  <2> QED BY <2>1, <2>2, FreshRequest, InitIndices DEF HttpInv
<1>2. ASSUME HttpInv, [Next]_vars PROVE HttpInv'
  BY <1>2, HttpStep
<1> QED BY <1>1, <1>2, PTL DEF Spec

\* Wherever the reads cut it, but within its body, an HTTP request is found as soon as it
\* has arrived, whatever requests went before it, and only what exceeds the buffer or,
\* edge-triggered, fills it is turned away as too long (http_conn.cpp:294-323, :193, :204).
THEOREM RequestsAreRecognised == ASSUME ~BodyCut PROVE Spec => []Recognised
<1>1. HttpInv => Recognised
  BY DEF HttpInv, ParserInv, Recognised
<1> QED BY <1>1, SpecParser, PTL

\* What process_read hands over of an HTTP request is all of it, with the body of this
\* one, and it refuses only a request line that is none (http_conn.cpp:285-290, :294-358).
THEOREM RequestsAreHandedOver == ASSUME ~BodyCut PROVE Spec => []HandsOverRequest
<1>1. HttpInv => HandsOverRequest
  BY DEF HttpInv, ParserInv, HandsOverRequest
<1> QED BY <1>1, SpecParser, PTL

-----------------------------------------------------------------------------
(* The bytes of an answer. *)

\* A byte: what it belongs to, and its place there.
Byte == W!Memories \X Int

\* Neither of the answers that write() cannot send as they are meant.
PlainCodes == Codes \cap {"REDIRECT_REQUEST", "DIAGNOSE_CSV_REQUEST"} = {}

LEMMA FunctionLen ==
    ASSUME NEW S, NEW n \in Nat, NEW f \in [1..n -> S] PROVE f \in Seq(S) /\ Len(f) = n
<1>1. f \in Seq(S)
  BY SeqDef
<1>2. DOMAIN f = 1..n /\ DOMAIN f = 1..Len(f) /\ Len(f) \in Nat
  BY <1>1, LenProperties
<1>3. \A i \in Nat : i \in 1..n <=> i \in 1..Len(f)
  BY <1>2, Zenon
<1> QED BY <1>1, <1>2, <1>3

LEMMA BytesSeq ==
    ASSUME NEW mem \in W!Memories, NEW first \in Int, NEW n \in Nat
    PROVE  W!Bytes(mem, first, n) \in Seq(Byte) /\ Len(W!Bytes(mem, first, n)) = n
<1>1. \A i \in 1..n : first + i - 1 \in Int
  OBVIOUS
<1>2. \A i \in 1..n : <<mem, first + i - 1>> \in Byte
  BY <1>1, Zenon DEF Byte
<1>3. W!Bytes(mem, first, n) \in [1..n -> Byte]
  BY <1>2, Zenon DEF W!Bytes
<1> QED BY <1>3, FunctionLen, Zenon

LEMMA BytesAt ==
    ASSUME NEW mem, NEW first, NEW n, NEW i \in 1..n
    PROVE  W!Bytes(mem, first, n)[i] = <<mem, first + i - 1>>
BY Zenon DEF W!Bytes

LEMMA AnswerType ==
    ASSUME PlainCodes, NEW a \in W!Answers
    PROVE  /\ a.code \notin W!HasCsv /\ a.code # "REDIRECT_REQUEST"
           /\ a.head \in Nat /\ 1 <= a.head /\ a.head <= MaxHead
           /\ a.body \in Nat
           /\ W!Content(a) \in Nat
           /\ W!TwoEntries(a) => W!Content(a) = 0 /\ a.body > 0 /\ W!Memory(a) = "file"
<1>1. a.code \in Codes /\ a.head \in 1..MaxHead /\ a.body \in 0..MaxBody
  BY DEF W!Answers
<1>2. a.code \notin {"REDIRECT_REQUEST", "DIAGNOSE_CSV_REQUEST"}
  BY <1>1 DEF PlainCodes
<1>3. a.head \in Nat /\ 1 <= a.head /\ a.head <= MaxHead /\ a.body \in Nat
  BY <1>1, ConnAssumption
<1>4. W!Content(a) \in Nat
  BY <1>3 DEF W!Content, W!EmptyPage
<1>5. ASSUME W!TwoEntries(a) PROVE W!Content(a) = 0 /\ a.body > 0 /\ W!Memory(a) = "file"
  <2>1. a.code = "FILE_REQUEST" /\ a.body > 0
    BY <1>2, <1>5 DEF W!TwoEntries, W!HasCsv
  <2>2. a.body # 0
    BY <1>3, <2>1
  <2> QED BY <2>1, <2>2 DEF W!Content, W!Message, W!Memory, W!HasCsv
<1> QED BY <1>2, <1>3, <1>4, <1>5 DEF W!HasCsv

\* The text vsnprintf puts where there is room for it.
LEMMA PrintedWhole ==
    ASSUME NEW mem, NEW n \in Nat, NEW room \in Int, n < room
    PROVE  W!Printed(mem, n, room) = W!Bytes(mem, 0, n)
<1>1. \A i \in 1..n : i < room /\ 0 + i - 1 = i - 1
  OBVIOUS
<1>2. \A i \in 1..n : (IF i < room THEN <<mem, i - 1>> ELSE <<"nul", 0>>) = <<mem, 0 + i - 1>>
  BY <1>1, Zenon
<1> QED BY <1>2, Zenon DEF W!Printed, W!Bytes

\* What is in the buffer when process_write returns true.
LEMMA Composing ==
    ASSUME PlainCodes, NEW a \in W!Answers, W!Composed(a).ok
    PROVE  W!Composed(a).buf =
               W!Bytes("head", 0, a.head) \o W!Bytes("content", 0, W!Content(a))
<1> DEFINE h == W!Bytes("head", 0, a.head)
           c == W!Bytes("content", 0, W!Content(a))
           n == W!Content(a)
<1>1. /\ a.code # "REDIRECT_REQUEST" /\ a.head \in Nat /\ a.head <= MaxHead /\ n \in Nat
      /\ MaxHead \in Nat /\ WRITE_BUFFER_SIZE \in Nat /\ MaxHead + 1 < WRITE_BUFFER_SIZE
  BY AnswerType, ConnAssumption
<1>2. h \in Seq(Byte) /\ Len(h) = a.head /\ c \in Seq(Byte) /\ Len(c) = n
  <2>1. 0 \in Int /\ "head" \in W!Memories /\ "content" \in W!Memories
    BY DEF W!Memories
  <2> QED BY <1>1, <2>1, BytesSeq, Zenon
<1>3. W!add_response(<<>>, "head", a.head).buf = h
  <2>1. Len(<<>>) = 0
    OBVIOUS
  <2>2. ~(0 >= WRITE_BUFFER_SIZE \/ a.head >= WRITE_BUFFER_SIZE - 1 - 0)
        /\ a.head < WRITE_BUFFER_SIZE - 1 - 0 /\ WRITE_BUFFER_SIZE - 1 - 0 \in Int
    BY <1>1
  <2>3. W!add_response(<<>>, "head", a.head).buf
            = <<>> \o W!Printed("head", a.head, WRITE_BUFFER_SIZE - 1 - 0)
    BY <2>1, <2>2 DEF W!add_response, W!Overruns
  <2>4. W!Printed("head", a.head, WRITE_BUFFER_SIZE - 1 - 0) = h
    BY <1>1, <2>2, PrintedWhole, Zenon
  <2> HIDE DEF h
  <2> QED BY <1>2, <2>3, <2>4, ConcatEmptySeq
<1>4. CASE n = 0
  <2>1. W!Composed(a).buf = h
    BY <1>1, <1>3, <1>4 DEF W!Composed
  <2> HIDE DEF c, h, n
  <2>2. c = <<>>
    BY <1>2, <1>4, EmptySeq
  <2>3. h \o c = h
    BY <1>2, <2>2, ConcatEmptySeq
  <2> QED BY <2>1, <2>3 DEF h, c, n
<1>5. CASE n # 0
  <2> DEFINE room == WRITE_BUFFER_SIZE - 1 - Len(h)
  <2>1. W!Composed(a) = W!add_response(h, "content", n)
    BY <1>1, <1>3, <1>5 DEF W!Composed
  <2>2. room \in Int
    BY <1>1, <1>2
  <2>3. ~(Len(h) >= WRITE_BUFFER_SIZE \/ n >= room)
    BY <2>1 DEF W!add_response, W!Overruns
  <2>4. W!Composed(a).buf = h \o W!Printed("content", n, room)
    BY <2>1, <2>3 DEF W!add_response, W!Overruns
  <2>5. n < room
    BY <1>1, <2>2, <2>3
  <2>6. W!Printed("content", n, room) = c
    BY <1>1, <2>2, <2>5, PrintedWhole, Zenon
  <2> QED BY <2>4, <2>6
<1> QED BY <1>4, <1>5

-----------------------------------------------------------------------------
(* An answer on its way. *)

Length == Len(m_write_buf)
FileBytes == IF W!TwoEntries(answer) THEN W!Bytes("file", 0, answer.body) ELSE <<>>
Rest == IF W!TwoEntries(answer) THEN answer.body ELSE 0
Total == Length + Rest

\* process_write has returned true.
Answered == /\ answer \in W!Answers /\ W!Composed(answer).ok
            /\ m_write_buf = W!Composed(answer).buf

LEMMA WholeIs ==
    ASSUME PlainCodes, Answered
    PROVE  /\ m_write_buf \in Seq(Byte) /\ Length \in Nat /\ Length >= 1
           /\ FileBytes \in Seq(Byte) /\ Len(FileBytes) = Rest /\ Rest \in Nat
           /\ W!Whole = m_write_buf \o FileBytes
           /\ W!Whole \in Seq(Byte) /\ Len(W!Whole) = Total /\ Total \in Nat
<1> DEFINE h == W!Bytes("head", 0, answer.head)
           c == W!Bytes("content", 0, W!Content(answer))
           f == W!Bytes("file", 0, answer.body)
           n == W!Content(answer)
<1>1. /\ answer.head \in Nat /\ 1 <= answer.head /\ answer.body \in Nat /\ n \in Nat
      /\ W!TwoEntries(answer) => n = 0 /\ W!Memory(answer) = "file"
  BY AnswerType DEF Answered
<1>2. /\ h \in Seq(Byte) /\ Len(h) = answer.head
      /\ c \in Seq(Byte) /\ Len(c) = n
      /\ f \in Seq(Byte) /\ Len(f) = answer.body
  <2>1. /\ 0 \in Int /\ "head" \in W!Memories /\ "content" \in W!Memories
        /\ "file" \in W!Memories
    BY DEF W!Memories
  <2> QED BY <1>1, <2>1, BytesSeq, Zenon
<1>3. m_write_buf = h \o c
  BY Composing DEF Answered
<1>4. W!Whole = h \o (IF W!TwoEntries(answer) THEN f ELSE c)
  BY <1>1 DEF W!Whole
<1> HIDE DEF h, c, f, n
<1>5. m_write_buf \in Seq(Byte) /\ Length = answer.head + n
  <2>1. h \o c \in Seq(Byte) /\ Len(h \o c) = Len(h) + Len(c)
    BY <1>2, ConcatProperties, Zenon
  <2> QED BY <1>2, <1>3, <2>1, Zenon DEF Length
<1>6. FileBytes = IF W!TwoEntries(answer) THEN f ELSE <<>>
  BY DEF FileBytes, f
<1>7. FileBytes \in Seq(Byte) /\ Len(FileBytes) = Rest /\ Rest \in Nat
  BY <1>1, <1>2, <1>6, EmptySeq DEF Rest
<1>8. W!Whole = m_write_buf \o FileBytes
  <2>1. CASE W!TwoEntries(answer)
    <3>1. c = <<>>
      BY <1>1, <1>2, <2>1, EmptySeq
    <3>2. m_write_buf = h
      BY <1>2, <1>3, <3>1, ConcatEmptySeq
    <3> QED BY <1>4, <1>6, <2>1, <3>2
  <2>2. CASE ~W!TwoEntries(answer)
    <3>1. m_write_buf \o <<>> = m_write_buf
      BY <1>5, ConcatEmptySeq
    <3> QED BY <1>3, <1>4, <1>6, <2>2, <3>1
  <2> QED BY <2>1, <2>2
<1>9. W!Whole \in Seq(Byte) /\ Len(W!Whole) = Total
  BY <1>5, <1>7, <1>8, ConcatProperties DEF Total, Length
<1> QED BY <1>1, <1>5, <1>7, <1>8, <1>9 DEF Total

LEMMA Suffix ==
    ASSUME NEW S, NEW s \in Seq(S), NEW h \in Nat, h < Len(s)
    PROVE  /\ SubSeq(s, h + 1, Len(s)) \in Seq(S)
           /\ Len(SubSeq(s, h + 1, Len(s))) = Len(s) - h
           /\ \A i \in 1..(Len(s) - h) : SubSeq(s, h + 1, Len(s))[i] = s[h + i]
<1> DEFINE suf == SubSeq(s, h + 1, Len(s))
<1>1. Len(s) \in Nat
  BY LenProperties
<1>2. \A i \in (h + 1)..Len(s) : s[i] \in S
  BY <1>1, ElementOfSeq
<1>3. /\ suf \in Seq(S) /\ Len(suf) = IF h + 1 <= Len(s) THEN Len(s) - (h + 1) + 1 ELSE 0
      /\ \A i \in 1..(Len(s) - (h + 1) + 1) : suf[i] = s[h + 1 + i - 1]
  BY <1>1, <1>2, SubSeqProperties
<1> HIDE DEF suf
<1>4. /\ suf \in Seq(S) /\ Len(suf) = Len(s) - h
      /\ \A i \in 1..(Len(s) - h) : suf[i] = s[h + i]
  BY <1>1, <1>3
<1> QED BY <1>4 DEF suf

\* What is left of the first of two sequences, and the second, are what is left of both.
LEMMA SuffixOfConcat ==
    ASSUME NEW S, NEW s \in Seq(S), NEW t \in Seq(S), NEW h \in Nat, h < Len(s)
    PROVE  SubSeq(s, h + 1, Len(s)) \o t = SubSeq(s \o t, h + 1, Len(s) + Len(t))
<1> DEFINE st == s \o t
           suf == SubSeq(s, h + 1, Len(s))
           rest == SubSeq(st, h + 1, Len(s) + Len(t))
           both == suf \o t
<1>1. Len(s) \in Nat /\ Len(t) \in Nat
  BY LenProperties
<1>2. /\ st \in Seq(S) /\ Len(st) = Len(s) + Len(t)
      /\ \A i \in 1..(Len(s) + Len(t)) : st[i] = IF i <= Len(s) THEN s[i] ELSE t[i - Len(s)]
  BY ConcatProperties
<1> HIDE DEF st
<1>3. /\ suf \in Seq(S) /\ Len(suf) = Len(s) - h
      /\ \A i \in 1..(Len(s) - h) : suf[i] = s[h + i]
  BY Suffix
<1>4. /\ rest \in Seq(S) /\ Len(rest) = Len(s) + Len(t) - h
      /\ \A i \in 1..(Len(s) + Len(t) - h) : rest[i] = st[h + i]
  <2> DEFINE end == SubSeq(st, h + 1, Len(st))
  <2>1. h < Len(st)
    BY <1>1, <1>2
  <2>2. /\ end \in Seq(S) /\ Len(end) = Len(st) - h
        /\ \A i \in 1..(Len(st) - h) : end[i] = st[h + i]
    BY <1>2, <2>1, Suffix, Zenon
  <2>3. rest = end
    BY <1>2
  <2> HIDE DEF rest, end
  <2> QED BY <1>2, <2>2, <2>3
<1> HIDE DEF suf, rest
<1>5. /\ both \in Seq(S) /\ Len(both) = Len(suf) + Len(t)
      /\ \A i \in 1..(Len(suf) + Len(t)) :
            both[i] = IF i <= Len(suf) THEN suf[i] ELSE t[i - Len(suf)]
  BY <1>3, ConcatProperties
<1> HIDE DEF both
<1>6. Len(both) = Len(rest)
  BY <1>1, <1>3, <1>4, <1>5
<1>7. ASSUME NEW i \in 1..Len(both) PROVE both[i] = rest[i]
  <2>1. i \in Int /\ 1 <= i /\ i <= Len(s) + Len(t) - h
    BY <1>1, <1>3, <1>5
  <2>2. CASE i <= Len(s) - h
    <3>1. both[i] = s[h + i]
      BY <1>1, <1>3, <1>5, <2>1, <2>2
    <3>2. rest[i] = s[h + i]
      BY <1>1, <1>2, <1>4, <2>1, <2>2
    <3> QED BY <3>1, <3>2
  <2>3. CASE ~(i <= Len(s) - h)
    <3>1. both[i] = t[i - (Len(s) - h)]
      BY <1>1, <1>3, <1>5, <2>1, <2>3
    <3>2. rest[i] = t[h + i - Len(s)]
      BY <1>1, <1>2, <1>4, <2>1, <2>3
    <3>3. i - (Len(s) - h) = h + i - Len(s)
      BY <1>1, <2>1
    <3> QED BY <3>1, <3>2, <3>3
  <2> QED BY <2>1, <2>2, <2>3
<1>8. both = rest
  BY <1>4, <1>5, <1>6, <1>7, SeqEqual
<1> QED BY <1>8 DEF both, rest, suf, st

\* The entries, and what the peer has got: `have` bytes of the answer.
Sending ==
    LET have == bytes_have_send
    IN  /\ Answered
        /\ have \in Nat /\ have < Total /\ bytes_to_send = Total - have
        /\ sent = SubSeq(W!Whole, 1, have)
        /\ W!TwoEntries(answer) => m_file_address = "file"
        /\ have < Length =>
              /\ m_iv[0] = [mem |-> "buf", base |-> have, len |-> Length - have]
              /\ W!TwoEntries(answer) =>
                    m_iv[1] = [mem |-> "file", base |-> 0, len |-> answer.body]
        /\ have >= Length =>
              /\ m_iv[0].mem = "buf" /\ m_iv[0].len = 0
              /\ m_iv[1] = [mem |-> "file", base |-> have - Length, len |-> Total - have]

IvType == m_iv \in [{0, 1} -> [mem : {"buf", "null", "wild", "file", "csv"}, base : Int, len : Int]]

\* writev is offered what the peer has not got.
LEMMA OfferedIs ==
    ASSUME PlainCodes, Sending, IvType
    PROVE  /\ W!Offered = SubSeq(W!Whole, bytes_have_send + 1, Total)
           /\ W!Readable = Total - bytes_have_send
<1> DEFINE have == bytes_have_send
           buf == m_write_buf
<1>1. /\ buf \in Seq(Byte) /\ Length \in Nat /\ Length >= 1
      /\ FileBytes \in Seq(Byte) /\ Len(FileBytes) = Rest /\ Rest \in Nat
      /\ W!Whole = buf \o FileBytes
      /\ W!Whole \in Seq(Byte) /\ Len(W!Whole) = Total /\ Total \in Nat
  BY WholeIs DEF Sending
<1>2. have \in Nat /\ have < Total /\ Total = Length + Rest
  BY DEF Sending, Total
<1>3. LET rest == SubSeq(W!Whole, have + 1, Total)
      IN  /\ rest \in Seq(Byte) /\ Len(rest) = Total - have
          /\ \A i \in 1..(Total - have) : rest[i] = W!Whole[have + i]
  <2> DEFINE whole == W!Whole
             rest == SubSeq(whole, have + 1, Len(whole))
  <2>1. whole \in Seq(Byte) /\ Len(whole) = Total
    BY <1>1
  <2> HIDE DEF whole
  <2>2. /\ rest \in Seq(Byte) /\ Len(rest) = Len(whole) - have
        /\ \A i \in 1..(Len(whole) - have) : rest[i] = whole[have + i]
    BY <1>2, <2>1, Suffix, Zenon
  <2>3. /\ SubSeq(whole, have + 1, Total) \in Seq(Byte)
        /\ Len(SubSeq(whole, have + 1, Total)) = Total - have
        /\ \A i \in 1..(Total - have) :
              SubSeq(whole, have + 1, Total)[i] = whole[have + i]
    BY <2>1, <2>2, Zenon
  <2> QED BY <2>3, Zenon DEF whole
<1>4. CASE have < Length
  <2>1. /\ m_iv[0].mem = "buf" /\ m_iv[0].base = have /\ m_iv[0].len = Length - have
        /\ W!TwoEntries(answer) =>
              m_iv[1].mem = "file" /\ m_iv[1].base = 0 /\ m_iv[1].len = answer.body
    BY <1>4 DEF Sending
  <2>2. W!iv(0) = SubSeq(buf, have + 1, Length)
    <3>1. have + (Length - have) = Length
      BY <1>1, <1>2
    <3> QED BY <2>1, <3>1 DEF W!iv
  <2>3. CASE W!TwoEntries(answer)
    <3>1. W!iv(1) = FileBytes
      BY <2>1, <2>3 DEF W!iv, FileBytes
    <3>2. W!Offered = SubSeq(buf, have + 1, Length) \o FileBytes
      BY <2>2, <2>3, <3>1 DEF W!Offered
    <3>3. Length = Len(buf) /\ Total = Len(buf) + Len(FileBytes)
      BY <1>1, <1>2 DEF Length
    <3>4. W!Offered = SubSeq(W!Whole, have + 1, Total)
      <4>1. have < Len(buf)
        BY <1>4 DEF Length
      <4>2. SubSeq(buf, have + 1, Len(buf)) \o FileBytes
                = SubSeq(buf \o FileBytes, have + 1, Len(buf) + Len(FileBytes))
        BY <1>1, <1>2, <4>1, SuffixOfConcat, Zenon
      <4> QED BY <1>1, <3>2, <3>3, <4>2, Zenon
    <3> QED BY <1>3, <2>1, <2>3, <3>4 DEF W!Readable
  <2>4. CASE ~W!TwoEntries(answer)
    <3>1. FileBytes = <<>> /\ Rest = 0
      BY <2>4 DEF FileBytes, Rest
    <3>2. W!Whole = buf /\ Total = Length
      BY <1>1, <1>2, <3>1, ConcatEmptySeq
    <3> QED BY <2>1, <2>2, <2>4, <3>2 DEF W!Offered, W!Readable
  <2> QED BY <2>3, <2>4
<1>5. CASE have >= Length
  <2>1. W!TwoEntries(answer) /\ Rest = answer.body
    BY <1>1, <1>2, <1>5 DEF Rest
  <2>2. /\ m_iv[0].mem = "buf" /\ m_iv[0].len = 0 /\ m_iv[0].base \in Int
        /\ m_iv[1].mem = "file" /\ m_iv[1].base = have - Length /\ m_iv[1].len = Total - have
    BY <1>5 DEF Sending, IvType
  <2>3. W!iv(0) = <<>>
    <3>1. m_iv[0].base + m_iv[0].len < m_iv[0].base + 1
      BY <2>2
    <3>2. m_iv[0].base + m_iv[0].len \in Int /\ m_iv[0].base + 1 \in Int
      BY <2>2
    <3>3. SubSeq(buf, m_iv[0].base + 1, m_iv[0].base + m_iv[0].len) = <<>>
      BY <3>1, <3>2, SubSeqEmpty
    <3> QED BY <2>2, <3>3 DEF W!iv
  <2> DEFINE left == W!Bytes("file", have - Length, Total - have)
             rest == SubSeq(W!Whole, have + 1, Total)
  <2>4. W!iv(1) = left
    BY <2>2 DEF W!iv
  <2>5. left \in Seq(Byte) /\ Len(left) = Total - have
    <3>1. "file" \in W!Memories /\ have - Length \in Int /\ Total - have \in Nat
      BY <1>1, <1>2 DEF W!Memories
    <3> QED BY <3>1, BytesSeq, Zenon
  <2>6. W!Offered = left
    <3> HIDE DEF left
    <3>1. <<>> \o left = left
      BY <2>5, ConcatEmptySeq
    <3> QED BY <2>1, <2>3, <2>4, <3>1 DEF W!Offered
  <2>7. /\ rest \in Seq(Byte) /\ Len(rest) = Total - have
        /\ \A i \in 1..(Total - have) : rest[i] = W!Whole[have + i]
    BY <1>3
  <2>8. ASSUME NEW i \in 1..(Total - have) PROVE left[i] = rest[i]
    <3>1. left[i] = <<"file", have - Length + i - 1>>
      BY BytesAt, Zenon
    <3>2. have + i \in 1..(Length + Rest) /\ ~(have + i <= Length)
          /\ (have + i) - Length \in 1..answer.body
          /\ have - Length + i - 1 = 0 + ((have + i) - Length) - 1
      BY <1>1, <1>2, <1>5, <2>1
    <3> DEFINE k == have + i
               m == k - Length
    <3>3. W!Whole[k] = FileBytes[m]
      <4>1. \A j \in 1..(Len(buf) + Len(FileBytes)) : W!Whole[j] =
               IF j <= Len(buf) THEN buf[j] ELSE FileBytes[j - Len(buf)]
        BY <1>1, ConcatProperties, Zenon
      <4>2. k \in 1..(Len(buf) + Len(FileBytes)) /\ ~(k <= Len(buf))
        BY <1>1, <3>2 DEF Length
      <4>3. m = k - Len(buf)
        BY DEF Length
      <4> HIDE DEF k, m
      <4> QED BY <4>1, <4>2, <4>3
    <3>4. FileBytes[m] = <<"file", 0 + m - 1>>
      BY <2>1, <3>2, BytesAt, Zenon DEF FileBytes
    <3>5. rest[i] = W!Whole[k]
      BY <2>7
    <3>6. have - Length + i - 1 = 0 + m - 1
      BY <3>2
    <3> HIDE DEF left, rest, k, m
    <3> QED BY <3>1, <3>3, <3>4, <3>5, <3>6
  <2>9. left = rest
    <3> HIDE DEF left, rest
    <3>1. Len(left) = Len(rest) /\ \A i \in 1..Len(left) : left[i] = rest[i]
      BY <2>5, <2>7, <2>8
    <3> QED BY <2>5, <2>7, <3>1, SeqEqual
  <2>10. W!Readable = Len(W!Offered)
    BY <2>1, <2>2 DEF W!Readable
  <2> QED BY <2>5, <2>6, <2>9, <2>10
<1> QED BY <1>1, <1>2, <1>4, <1>5

LEMMA Prefix ==
    ASSUME NEW S, NEW w \in Seq(S), NEW n \in Nat, n <= Len(w) PROVE Len(SubSeq(w, 1, n)) = n
<1>1. Len(w) \in Nat
  BY LenProperties
<1>2. \A i \in 1..n : w[i] \in S
  BY <1>1, ElementOfSeq
<1>3. Len(SubSeq(w, 1, n)) = IF 1 <= n THEN n - 1 + 1 ELSE 0
  BY <1>2, SubSeqProperties
<1> QED BY <1>3

\* n bytes more.
LEMMA Onwards ==
    ASSUME NEW S, NEW w \in Seq(S), NEW h \in Nat, NEW n \in Nat, n >= 1, h + n <= Len(w)
    PROVE  SubSeq(w, 1, h) \o SubSeq(SubSeq(w, h + 1, Len(w)), 1, n) = SubSeq(w, 1, h + n)
<1>1. Len(w) \in Nat
  BY LenProperties
<1>2. SubSeq(SubSeq(w, h + 1, Len(w)), 1, n) = SubSeq(w, h + 1, h + n)
  <2>1. /\ h + 1 \in 1..Len(w) /\ Len(w) \in 1..Len(w)
        /\ 1 \in 1..(Len(w) - (h + 1) + 1) /\ n \in 1..(Len(w) - (h + 1) + 1)
        /\ (h + 1) + 1 - 1 = h + 1 /\ (h + 1) + n - 1 = h + n
    BY <1>1
  <2>2. SubSeq(SubSeq(w, h + 1, Len(w)), 1, n) = SubSeq(w, (h + 1) + 1 - 1, (h + 1) + n - 1)
    BY <2>1, SubSeqOfSubSeq
  <2> QED BY <2>1, <2>2
<1>3. SubSeq(w, 1, h) \o SubSeq(w, h + 1, h + n) = SubSeq(w, 1, h + n)
  <2>1. 1 \in 1..(Len(w) + 1) /\ h \in (1 - 1)..Len(w) /\ h + n \in h..Len(w)
    BY <1>1
  <2> QED BY <2>1, ConcatAdjacentSubSeq
<1> QED BY <1>2, <1>3

Entry == [mem : {"buf", "null", "wild", "file", "csv"}, base : Int, len : Int]

LEMMA MovedType ==
    ASSUME IvType, m_file_address \in {"null", "wild", "file"}, Length \in Nat,
           NEW have \in Int, NEW left \in Int
    PROVE  W!Moved(have, left) \in [{0, 1} -> Entry]
<1>1. m_iv \in [{0, 1} -> Entry] /\ m_iv[0] \in Entry /\ m_iv[1] \in Entry
  BY DEF IvType, Entry
<1>2. CASE have >= m_iv[0].len
  <2>1. /\ [m_iv[0] EXCEPT !.len = 0] \in Entry
        /\ [mem |-> m_file_address, base |-> have - Length, len |-> left] \in Entry
    BY <1>1 DEF Entry
  <2>2. W!Moved(have, left) =
          [m_iv EXCEPT ![0].len = 0,
                       ![1] = [mem |-> m_file_address, base |-> have - Length, len |-> left]]
    BY <1>2 DEF W!Moved, Length
  <2> HIDE DEF Entry
  <2> QED BY <1>1, <2>1, <2>2
<1>3. CASE ~(have >= m_iv[0].len)
  <2>1. [mem |-> "buf", base |-> have, len |-> m_iv[0].len - have] \in Entry
    BY <1>1 DEF Entry
  <2>2. W!Moved(have, left) =
          [m_iv EXCEPT ![0] = [mem |-> "buf", base |-> have, len |-> m_iv[0].len - have]]
    BY <1>1, <1>3 DEF W!Moved
  <2> HIDE DEF Entry
  <2> QED BY <1>1, <2>1, <2>2
<1> QED BY <1>2, <1>3

\* The entries after n bytes more, of which there are yet others to come.
LEMMA EntriesMove ==
    ASSUME PlainCodes, Sending, IvType, NEW n \in Nat, n >= 1,
           bytes_have_send + n < Total,
           bytes_have_send > 0 => bytes_have_send + n >= Length
    PROVE  LET have == bytes_have_send + n
               left == bytes_to_send - n
               iv == W!Moved(have, left)
           IN  /\ have < Length =>
                    /\ iv[0] = [mem |-> "buf", base |-> have, len |-> Length - have]
                    /\ W!TwoEntries(answer) =>
                          iv[1] = [mem |-> "file", base |-> 0, len |-> answer.body]
               /\ have >= Length =>
                    /\ iv[0].mem = "buf" /\ iv[0].len = 0
                    /\ iv[1] = [mem |-> "file", base |-> have - Length, len |-> Total - have]
<1> DEFINE have == bytes_have_send + n
           left == bytes_to_send - n
           iv == W!Moved(have, left)
<1>1. /\ Length \in Nat /\ Length >= 1 /\ Rest \in Nat /\ Total \in Nat
      /\ Total = Length + Rest
  BY WholeIs DEF Sending, Total
<1>2. /\ bytes_have_send \in Nat /\ bytes_have_send < Total
      /\ bytes_to_send = Total - bytes_have_send
  BY DEF Sending
<1>3. m_iv \in [{0, 1} -> Entry] /\ m_iv[0] \in Entry /\ m_iv[1] \in Entry
  BY DEF IvType, Entry
<1>4. CASE have < Length
  <2>1. bytes_have_send = 0
    BY <1>1, <1>2, <1>4
  <2>2. /\ m_iv[0] = [mem |-> "buf", base |-> 0, len |-> Length - 0]
        /\ W!TwoEntries(answer) =>
              m_iv[1] = [mem |-> "file", base |-> 0, len |-> answer.body]
    BY <1>1, <2>1 DEF Sending
  <2>3. m_iv[0].len = Length
    BY <1>1, <2>2
  <2>4. iv = [m_iv EXCEPT ![0] = [mem |-> "buf", base |-> have, len |-> m_iv[0].len - have]]
    BY <1>1, <1>2, <1>3, <1>4, <2>3 DEF W!Moved
  <2> HIDE DEF iv, have
  <2>5. iv[0] = [mem |-> "buf", base |-> have, len |-> Length - have] /\ iv[1] = m_iv[1]
    BY <1>3, <2>3, <2>4
  <2>6. ~(have >= Length)
    BY <1>1, <1>2, <1>4 DEF have
  <2> QED BY <2>2, <2>5, <2>6 DEF iv, have
<1>5. CASE ~(have < Length)
  <2>1. W!TwoEntries(answer)
    BY <1>1, <1>2, <1>5 DEF Rest
  <2>2. m_file_address = "file"
    BY <2>1 DEF Sending
  <2>3. m_iv[0].mem = "buf" /\ have >= m_iv[0].len
    <3>1. CASE bytes_have_send < Length
      <4>1. m_iv[0].mem = "buf" /\ m_iv[0].len = Length - bytes_have_send
        BY <3>1 DEF Sending
      <4> QED BY <1>1, <1>2, <1>5, <4>1
    <3>2. CASE bytes_have_send >= Length
      <4>1. m_iv[0].mem = "buf" /\ m_iv[0].len = 0
        BY <3>2 DEF Sending
      <4> QED BY <1>1, <1>2, <4>1
    <3> QED BY <1>1, <1>2, <3>1, <3>2
  <2>4. iv = [m_iv EXCEPT ![0].len = 0,
                          ![1] = [mem |-> "file", base |-> have - Length, len |-> left]]
    BY <2>2, <2>3 DEF W!Moved, Length
  <2>5. left = Total - have
    BY <1>1, <1>2
  <2> HIDE DEF iv, have, left
  <2>6. /\ iv[0].mem = "buf" /\ iv[0].len = 0
        /\ iv[1] = [mem |-> "file", base |-> have - Length, len |-> left]
    BY <1>3, <2>3, <2>4 DEF Entry
  <2> QED BY <1>5, <2>5, <2>6 DEF iv, have, left
<1> QED BY <1>4, <1>5

-----------------------------------------------------------------------------
(* Every step of the writer. *)

WriterInv ==
    /\ IvType /\ m_file_address \in {"null", "wild", "file"}
    /\ writing \in {"idle", "ready", "writev", "kept", "over", "closed"}
    /\ writing = "idle" => answer = W!NoAnswer /\ bytes_have_send = 0 /\ sent = <<>>
    /\ writing \in {"ready", "writev"} => Sending
    /\ writing = "kept" => sent = W!Whole
    /\ InOrder

\* As process_write leaves it.
JustReady ==
    /\ PlainCodes /\ Answered
    /\ bytes_have_send = 0 /\ sent = <<>> /\ bytes_to_send = Total
    /\ W!TwoEntries(answer) => m_file_address = "file"
    /\ m_iv[0] = [mem |-> "buf", base |-> 0, len |-> Length]
    /\ W!TwoEntries(answer) => m_iv[1] = [mem |-> "file", base |-> 0, len |-> answer.body]

LEMMA ReadySends == JustReady => Sending /\ InOrder /\ Length \in Nat
<1> SUFFICES ASSUME JustReady PROVE Sending /\ InOrder /\ Length \in Nat
  OBVIOUS
<1>1. /\ Length \in Nat /\ Length >= 1 /\ Rest \in Nat /\ Total = Length + Rest
      /\ Len(W!Whole) = Total
  BY WholeIs DEF JustReady, Total
<1>2. 0 < Total /\ Total - 0 = Total /\ 0 < Length /\ ~(0 >= Length) /\ Length - 0 = Length
  BY <1>1
<1>3. SubSeq(W!Whole, 1, 0) = <<>>
  BY SubSeqEmpty
<1>4. /\ bytes_have_send = 0 /\ sent = <<>> /\ bytes_to_send = Total /\ Answered
      /\ W!TwoEntries(answer) => m_file_address = "file"
      /\ m_iv[0] = [mem |-> "buf", base |-> 0, len |-> Length]
      /\ W!TwoEntries(answer) => m_iv[1] = [mem |-> "file", base |-> 0, len |-> answer.body]
  BY DEF JustReady
<1>5. Sending
  BY <1>2, <1>3, <1>4 DEF Sending
<1>6. Len(sent) = 0 /\ 0 <= Len(W!Whole)
  BY <1>1, <1>4, EmptySeq
<1>7. InOrder
  BY <1>3, <1>4, <1>6 DEF InOrder
<1> QED BY <1>1, <1>5, <1>7

LEMMA IdleInOrder == answer = W!NoAnswer /\ sent = <<>> => InOrder
<1> SUFFICES ASSUME answer = W!NoAnswer, sent = <<>> PROVE InOrder
  OBVIOUS
<1>1. answer.head = 0 /\ ~W!TwoEntries(answer) /\ W!Content(answer) = 0
  BY DEF W!NoAnswer, W!TwoEntries, W!HasCsv, W!Content, W!Message
<1>2. W!Whole = W!Bytes("head", 0, 0) \o W!Bytes("content", 0, 0)
  BY <1>1 DEF W!Whole
<1>3. W!Bytes("head", 0, 0) \in Seq(Byte) /\ W!Bytes("content", 0, 0) \in Seq(Byte)
  <2>1. 0 \in Int /\ 0 \in Nat /\ "head" \in W!Memories /\ "content" \in W!Memories
    BY DEF W!Memories
  <2> QED BY <2>1, BytesSeq, Zenon
<1>4. W!Whole \in Seq(Byte)
  BY <1>2, <1>3, ConcatProperties, Zenon
<1>5. Len(W!Whole) \in Nat
  BY <1>4, LenProperties, Zenon
<1>6. Len(sent) = 0 /\ SubSeq(W!Whole, 1, 0) = <<>>
  BY EmptySeq, SubSeqEmpty
<1> QED BY <1>5, <1>6 DEF InOrder

LEMMA SameAnswer ==
    ASSUME UNCHANGED <<answer, m_write_buf>>
    PROVE  /\ W!Whole' = W!Whole /\ Length' = Length /\ Total' = Total
           /\ Answered' = Answered
           /\ W!TwoEntries(answer)' = W!TwoEntries(answer) /\ answer'.body = answer.body
<1>1. W!Whole' = W!Whole
  BY DEF W!Whole
<1>2. Length' = Length /\ W!TwoEntries(answer)' = W!TwoEntries(answer)
  BY DEF Length, W!TwoEntries
<1>3. Total' = Total
  BY <1>2 DEF Total, Rest
<1>4. Answered' = Answered
  BY DEF Answered
<1> QED BY <1>1, <1>2, <1>3, <1>4

LEMMA SameEntries ==
    ASSUME Sending, UNCHANGED <<answer, m_write_buf, m_file_address, m_iv, bytes_to_send,
                                bytes_have_send, sent>>
    PROVE  Sending'
<1>1. /\ W!Whole' = W!Whole /\ Length' = Length /\ Total' = Total /\ Answered' = Answered
      /\ W!TwoEntries(answer)' = W!TwoEntries(answer) /\ answer'.body = answer.body
  BY SameAnswer
<1> QED BY <1>1 DEF Sending

LEMMA SameOrder ==
    ASSUME InOrder, UNCHANGED <<answer, sent>> PROVE InOrder'
<1>1. W!Whole' = W!Whole
  BY DEF W!Whole
<1> QED BY <1>1 DEF InOrder

LEMMA WritevStep ==
    ASSUME PlainCodes, HeadInTwo, WriterInv, NEW n \in 0..W!Readable, W!Writev(n)
    PROVE  WriterInv'
<1> DEFINE have == bytes_have_send + n
<1>1. writing = "writev" /\ Sending /\ IvType /\ m_file_address \in {"null", "wild", "file"}
  BY DEF WriterInv, W!Writev
<1>2. /\ Length \in Nat /\ Total \in Nat /\ W!Whole \in Seq(Byte) /\ Len(W!Whole) = Total
  BY <1>1, WholeIs DEF Sending
<1>3. /\ bytes_have_send \in Nat /\ bytes_have_send < Total
      /\ bytes_to_send = Total - bytes_have_send
      /\ sent = SubSeq(W!Whole, 1, bytes_have_send)
  BY <1>1 DEF Sending
<1>4. /\ W!Offered = SubSeq(W!Whole, bytes_have_send + 1, Len(W!Whole))
      /\ W!Readable = Total - bytes_have_send
  BY <1>1, <1>2, OfferedIs
<1>5. n \in Nat /\ n >= 1 /\ have \in Nat /\ have <= Total
  <2>1. W!Offered # <<>>
    <3>1. bytes_have_send < Len(W!Whole)
      BY <1>2, <1>3
    <3>2. Len(W!Offered) = Len(W!Whole) - bytes_have_send
      BY <1>2, <1>3, <1>4, <3>1, Suffix, Zenon
    <3> HIDE DEF have
    <3>3. Len(W!Offered) # 0
      BY <1>2, <1>3, <3>1, <3>2
    <3>4. Len(<<>>) = 0
      BY EmptySeq
    <3> QED BY <3>3, <3>4, Zenon
  <2>2. n # 0
    BY <2>1 DEF W!Writev
  <2>3. n \in 0..(Total - bytes_have_send)
    BY <1>4
  <2> QED BY <1>2, <1>3, <2>2, <2>3
<1>6. sent' = SubSeq(W!Whole, 1, have)
  <2>1. sent' = SubSeq(W!Whole, 1, bytes_have_send)
                \o SubSeq(SubSeq(W!Whole, bytes_have_send + 1, Len(W!Whole)), 1, n)
    BY <1>3, <1>4 DEF W!Writev
  <2>2. bytes_have_send + n <= Len(W!Whole)
    BY <1>2, <1>5
  <2> QED BY <1>2, <1>3, <1>5, <2>1, <2>2, Onwards, Zenon
<1>7. /\ W!Whole' = W!Whole /\ Length' = Length /\ Total' = Total /\ Answered' = Answered
      /\ W!TwoEntries(answer)' = W!TwoEntries(answer) /\ answer'.body = answer.body
  BY SameAnswer DEF W!Writev, W!prepared
<1>8. InOrder'
  <2>1. Len(SubSeq(W!Whole, 1, have)) = have
    <3>1. have <= Len(W!Whole)
      BY <1>2, <1>5
    <3> QED BY <1>2, <1>5, <3>1, Prefix, Zenon
  <2>2. Len(sent') = have
    BY <1>6, <2>1
  <2> HIDE DEF have
  <2> QED BY <1>2, <1>5, <1>6, <1>7, <2>2 DEF InOrder
<1>9. IvType'
  <2>1. m_iv' = W!Moved(have, bytes_to_send - n)
    BY DEF W!Writev
  <2>2. have \in Int /\ bytes_to_send - n \in Int
    BY <1>2, <1>3, <1>5
  <2>3. m_iv' \in [{0, 1} -> Entry]
    BY <1>1, <1>2, <2>1, <2>2, MovedType, Zenon
  <2> QED BY <2>3 DEF IvType, Entry
<1>10. CASE have = Total
  <2>1. bytes_to_send - n <= 0
    BY <1>2, <1>3, <1>5, <1>10
  <2>2. m_file_address' = "null" /\ writing' \in {"kept", "over"}
    BY <2>1 DEF W!Writev, W!unmap
  <2>3. sent' = W!Whole'
    BY <1>2, <1>6, <1>7, <1>10, SubSeqFull
  <2> QED BY <1>8, <1>9, <2>2, <2>3 DEF WriterInv
<1>11. CASE have # Total
  <2>1. have < Total /\ ~(bytes_to_send - n <= 0) /\ bytes_to_send - n = Total - have
    BY <1>2, <1>3, <1>5, <1>11
  <2>2. /\ m_file_address' = m_file_address /\ writing' = "writev"
        /\ bytes_have_send' = have /\ bytes_to_send' = Total - have
        /\ m_iv' = W!Moved(have, bytes_to_send - n)
    BY <1>1, <2>1 DEF W!Writev
  <2>3. /\ have < Length =>
              /\ m_iv'[0] = [mem |-> "buf", base |-> have, len |-> Length - have]
              /\ W!TwoEntries(answer) =>
                    m_iv'[1] = [mem |-> "file", base |-> 0, len |-> answer.body]
        /\ have >= Length =>
              /\ m_iv'[0].mem = "buf" /\ m_iv'[0].len = 0
              /\ m_iv'[1] = [mem |-> "file", base |-> have - Length, len |-> Total - have]
    <3>1. bytes_have_send > 0 => bytes_have_send + n >= Length
      BY DEF W!Writev, Length
    <3> QED BY <1>1, <1>5, <2>1, <2>2, <3>1, EntriesMove
  <2>4. W!TwoEntries(answer) => m_file_address' = "file"
    BY <1>1, <2>2 DEF Sending
  <2>5. Answered'
    BY <1>1, <1>7 DEF Sending
  <2> HIDE DEF have
  <2>6. Sending'
    BY <1>5, <1>6, <1>7, <2>1, <2>2, <2>3, <2>4, <2>5 DEF Sending
  <2> QED BY <1>1, <1>8, <1>9, <2>2, <2>6 DEF WriterInv
<1> QED BY <1>10, <1>11

LEMMA ProcessWriteStep ==
    ASSUME PlainCodes, WriterInv, NEW a \in W!Answers, W!process_write(a) PROVE WriterInv'
<1>1. /\ writing = "idle" /\ answer = W!NoAnswer /\ sent = <<>> /\ bytes_have_send = 0
      /\ IvType /\ InOrder /\ m_file_address \in {"null", "wild", "file"}
  BY DEF WriterInv, W!process_write, W!Filled
<1>2. /\ answer' = a /\ m_write_buf' = W!Composed(a).buf /\ W!Composed(a).ok
      /\ sent' = <<>> /\ bytes_have_send' = 0 /\ writing' = "ready"
      /\ m_file_address' = IF a.code = "FILE_REQUEST" THEN "file" ELSE m_file_address
      /\ bytes_to_send' = Len(m_write_buf') + (IF W!TwoEntries(a) THEN a.body ELSE 0)
  BY <1>1 DEF W!process_write, W!Filled, W!Prepared
<1>3. Answered'
  BY <1>2 DEF Answered
<1>4. /\ a.code # "DIAGNOSE_CSV_REQUEST" /\ a.body \in Nat
      /\ W!TwoEntries(a) => W!Memory(a) = "file" /\ m_file_address' = "file"
  BY <1>2, AnswerType DEF W!TwoEntries, W!HasCsv
<1>5. W!TwoEntries(answer)' = W!TwoEntries(a)
  BY <1>2 DEF W!TwoEntries
<1>6. /\ m_iv'[0] = [mem |-> "buf", base |-> 0, len |-> Length']
      /\ W!TwoEntries(a) => m_iv'[1] = [mem |-> "file", base |-> 0, len |-> a.body]
  BY <1>4 DEF W!process_write, Length
<1>7. bytes_to_send' = Total'
  BY <1>2, <1>5 DEF Total, Rest, Length
<1>8. PlainCodes'
  BY DEF PlainCodes
<1>9. JustReady'
  BY <1>2, <1>3, <1>4, <1>5, <1>6, <1>7, <1>8 DEF JustReady
<1>10. Sending' /\ InOrder' /\ (Length \in Nat)'
  BY <1>9, ReadySends, PTL
<1>11. IvType'
  <2>1. m_iv \in [{0, 1} -> Entry] /\ m_iv[1] \in Entry
    BY <1>1 DEF IvType, Entry
  <2>2. /\ [mem |-> "buf", base |-> 0, len |-> Len(m_write_buf')] \in Entry
        /\ [mem |-> "file", base |-> 0, len |-> a.body] \in Entry
    BY <1>4, <1>10 DEF Entry, Length
  <2> HIDE DEF Entry
  <2>3. m_iv' = [i \in {0, 1} |->
                  IF i = 0 THEN [mem |-> "buf", base |-> 0, len |-> Len(m_write_buf')]
                  ELSE IF W!TwoEntries(a) THEN [mem |-> "file", base |-> 0, len |-> a.body]
                  ELSE m_iv[1]]
    BY <1>4 DEF W!process_write
  <2>4. m_iv' \in [{0, 1} -> Entry]
    BY <2>1, <2>2, <2>3
  <2> QED BY <2>4 DEF IvType, Entry
<1> QED BY <1>1, <1>2, <1>10, <1>11 DEF WriterInv

LEMMA WriterStep ==
    ASSUME PlainCodes, HeadInTwo, WriterInv, [Next]_vars PROVE WriterInv'
<1>1. /\ IvType /\ m_file_address \in {"null", "wild", "file"} /\ InOrder
      /\ writing \in {"idle", "ready", "writev", "kept", "over", "closed"}
  BY DEF WriterInv
<1>2. ASSUME UNCHANGED writer PROVE WriterInv'
  <2>1. IvType' /\ InOrder'
    BY <1>1, <1>2, SameOrder DEF writer, IvType
  <2>2. Sending => Sending'
    BY <1>2, SameEntries DEF writer
  <2>3. W!Whole' = W!Whole
    BY <1>2, SameAnswer DEF writer
  <2> QED BY <1>2, <2>1, <2>2, <2>3 DEF WriterInv, writer
<1>3. ASSUME NEW a \in W!Answers, W!TooLong(a) PROVE WriterInv'
  <2>1. IvType' /\ InOrder'
    BY <1>1, <1>3, SameOrder DEF W!TooLong, IvType
  <2> QED BY <1>1, <1>3, <2>1 DEF WriterInv, W!TooLong, W!Filled
<1>4. ASSUME W!Write \/ W!Again PROVE WriterInv'
  <2>1. /\ writing \in {"ready", "writev"} /\ writing' \in {"ready", "writev"}
        /\ UNCHANGED <<answer, m_write_buf, m_file_address, m_iv, bytes_to_send,
                       bytes_have_send, sent>>
    BY <1>4 DEF W!Write, W!Again, W!prepared
  <2>2. Sending
    BY <2>1 DEF WriterInv
  <2>3. Sending' /\ InOrder'
    BY <1>1, <2>1, <2>2, SameEntries, SameOrder
  <2> QED BY <1>1, <2>1, <2>3 DEF WriterInv, IvType
<1>5. ASSUME W!Fails PROVE WriterInv'
  <2>1. IvType' /\ InOrder'
    BY <1>1, <1>5, SameOrder DEF W!Fails, W!prepared, IvType
  <2> QED BY <1>5, <2>1 DEF WriterInv, W!Fails, W!unmap
<1>6. ASSUME W!init PROVE WriterInv'
  <2>1. /\ answer' = W!NoAnswer /\ sent' = <<>> /\ bytes_have_send' = 0 /\ writing' = "idle"
        /\ UNCHANGED <<m_file_address, m_iv>>
    BY <1>6 DEF W!init
  <2>2. (answer = W!NoAnswer /\ sent = <<>>)'
    BY <2>1 DEF W!NoAnswer
  <2>3. InOrder'
    BY <2>2, IdleInOrder, PTL
  <2> QED BY <1>1, <2>1, <2>2, <2>3 DEF WriterInv, IvType
<1>7. ASSUME W!Close PROVE WriterInv'
  <2>1. IvType' /\ InOrder'
    BY <1>1, <1>7, SameOrder DEF W!Close, W!prepared, IvType
  <2> QED BY <1>1, <1>7, <2>1 DEF WriterInv, W!Close
<1>8. ASSUME process_write PROVE WriterInv'
  <2>1. PICK a \in W!Answers : W!process_write(a) \/ W!TooLong(a)
    BY <1>8 DEF process_write
  <2> QED BY <1>3, <2>1, ProcessWriteStep
<1>9. ASSUME write PROVE WriterInv'
  <2>1. CASE \E n \in 0..W!Readable : W!Writev(n)
    BY <2>1, WritevStep
  <2> QED BY <1>4, <1>5, <1>9, <2>1 DEF write, W!write
<1> QED BY <1>2, <1>6, <1>7, <1>8, <1>9 DEF Next, Read, process_read, Kept, Closed, Accepted, vars

LEMMA SpecWriter == ASSUME PlainCodes, HeadInTwo PROVE Spec => []WriterInv
<1>1. Init => WriterInv
  <2> SUFFICES ASSUME Init PROVE WriterInv
    OBVIOUS
  <2>1. InOrder
    BY IdleInOrder DEF Init, W!Init
  <2>2. IvType
    BY DEF Init, W!Init, IvType
  <2> QED BY <2>1, <2>2 DEF WriterInv, Init, W!Init
<1>2. WriterInv /\ [Next]_vars => WriterInv'
  BY WriterStep
<1> QED BY <1>1, <1>2, PTL DEF Spec

\* Main thread and worker take turns, and what keeps the connection is this request's.
Turns == /\ writing \in {"ready", "writev", "kept", "over"} => reading \in {"request", "bad"}
         /\ writing = "kept" => m_linger

LEMMA SpecTurns == Spec => []Turns
<1>1. Init => Turns
  BY DEF Init, W!Init, Turns
<1>2. ASSUME Turns, [Next]_vars PROVE Turns'
  <2>1. CASE UNCHANGED vars
    BY <1>2, <2>1 DEF Turns, vars, parser, writer
  <2>2. CASE Read
    BY <1>2, <2>2 DEF Turns, Read, P!Read, P!ReadFull, writer
  <2>3. CASE process_read
    BY <1>2, <2>3 DEF Turns, process_read, P!process_read, P!NoLine, P!parse_request_line,
                      P!parse_headers, P!parse_content, P!FoundLine, writer
  <2>4. CASE process_write
    BY <1>2, <2>4 DEF Turns, process_write, W!process_write, W!TooLong, parser
  <2>5. CASE write
    BY <1>2, <2>5 DEF Turns, write, W!write, W!Write, W!Again, W!Fails, W!Writev, parser
  <2>6. CASE Kept \/ Accepted
    BY <2>6 DEF Turns, Kept, Accepted, W!init
  <2>7. CASE Closed
    BY <2>7 DEF Turns, Closed, W!Close
  <2> QED BY <1>2, <2>1, <2>2, <2>3, <2>4, <2>5, <2>6, <2>7 DEF Next
<1> QED BY <1>1, <1>2, PTL DEF Spec

\* Answers that go into the buffer or come from a file, taken by a socket that cuts them
\* anywhere, the buffer once: the peer gets their bytes in order, each once
\* (http_conn.cpp:629-659).
THEOREM AnswersGoInOrder == ASSUME PlainCodes, HeadInTwo PROVE Spec => []InOrder
BY SpecWriter, PTL DEF WriterInv

\* The connection is kept only after all of the answer, and when this request asked for
\* it (http_conn.cpp:649-654, :136).
THEOREM KeptOnlyWhenWhole == ASSUME PlainCodes, HeadInTwo PROVE Spec => []KeptWhenWhole
<1>1. WriterInv /\ Turns /\ AskedToLinger => KeptWhenWhole
  BY DEF WriterInv, Turns, AskedToLinger, KeptWhenWhole
<1> QED BY <1>1, SpecWriter, SpecTurns, SpecLinger, PTL
=============================================================================
