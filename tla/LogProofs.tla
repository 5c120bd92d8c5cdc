------------------------------ MODULE LogProofs ------------------------------
(***************************************************************************)
(* For any number of threads, lines, days and lines per file: every line   *)
(* is put once and in order, in synchronous mode to an open file, and a    *)
(* crash loses no line whose macro has returned.                           *)
(***************************************************************************)
EXTENDS Log, SequenceTheorems, TLAPS

\* A thread's line names it.
OwnLines == \A w \in Writers : line[w].w = w

\* Without a consumer both buffers stay empty, and a consumer that waits has written
\* all it took: OnceInOrder alone does not tell that a line written at once, or a
\* buffer swapped in, overtakes nothing.
BufferUse == /\ ~m_is_async => m_input_buffer = <<>> /\ m_output_buffer = <<>>
             /\ consumer = "wait" => m_output_buffer = <<>>

\* The file is closed only while its switch holds m_mutex, as long as it can be opened.
ClosedInSwitch == ~OpenFails /\ m_fp = Closed => ~MutexFree

\* NoClosedFile holds only where fopen does not fail.
IInv == /\ TypeOK /\ OwnLines /\ BufferUse /\ OnceInOrder /\ Durable
        /\ ClosedInSwitch /\ (~OpenFails => NoClosedFile)

-----------------------------------------------------------------------------
(* Sequences. *)

Puts == [line : Lines, file : Files \cup {Closed}]

\* The lines of a sequence of fputs.
LinesOf(s) == [i \in DOMAIN s |-> s[i].line]

LEMMA LinesOfType ==
    ASSUME NEW s \in Seq(Puts)
    PROVE  /\ LinesOf(s) \in Seq(Lines) /\ Len(LinesOf(s)) = Len(s)
           /\ \A i \in 1..Len(s) : LinesOf(s)[i] = s[i].line
<1> DEFINE k == Len(s)
<1>1. DOMAIN s = 1..k /\ k \in Nat
    OBVIOUS
<1>2. \A i \in 1..k : s[i] \in Puts
    BY ElementOfSeq
<1>3. \A i \in 1..k : s[i].line \in Lines
    BY <1>2 DEF Puts
<1>4. LinesOf(s) = [i \in 1..k |-> s[i].line]
    BY <1>1 DEF LinesOf
<1> HIDE DEF k
<1>5. LinesOf(s) \in Seq(Lines)
    BY <1>1, <1>3, <1>4
<1>6. Len(LinesOf(s)) = k
    BY <1>1, <1>4, <1>5
<1> QED BY <1>4, <1>5, <1>6 DEF k

LEMMA LinesOfAppend ==
    ASSUME NEW s \in Seq(Puts), NEW l \in Lines, NEW f \in Files \cup {Closed}
    PROVE  LinesOf(Append(s, [line |-> l, file |-> f])) = Append(LinesOf(s), l)
<1> DEFINE k == Len(s)
           e == [line |-> l, file |-> f]
           t == Append(s, e)
<1>1. e \in Puts /\ e.line = l /\ k \in Nat
    BY DEF Puts
<1> HIDE DEF e
<1>2. /\ t \in Seq(Puts) /\ Len(t) = k + 1
      /\ \A i \in 1..k : t[i] = s[i]
      /\ t[k + 1] = e
    BY <1>1, AppendProperties
<1> HIDE DEF t
<1>3. /\ LinesOf(s) \in Seq(Lines) /\ Len(LinesOf(s)) = k
      /\ \A i \in 1..k : LinesOf(s)[i] = s[i].line
    BY LinesOfType
<1>4. /\ LinesOf(t) \in Seq(Lines) /\ Len(LinesOf(t)) = k + 1
      /\ \A i \in 1..(k + 1) : LinesOf(t)[i] = t[i].line
    BY <1>2, LinesOfType
<1> HIDE DEF k
<1>5. /\ Append(LinesOf(s), l) \in Seq(Lines) /\ Len(Append(LinesOf(s), l)) = k + 1
      /\ \A i \in 1..k : Append(LinesOf(s), l)[i] = LinesOf(s)[i]
      /\ Append(LinesOf(s), l)[k + 1] = l
    BY <1>3, AppendProperties
<1>6. \A i \in 1..(k + 1) : i = k + 1 \/ i \in 1..k
    BY <1>1
<1>7. \A i \in 1..(k + 1) : LinesOf(t)[i] = Append(LinesOf(s), l)[i]
    BY <1>1, <1>2, <1>3, <1>4, <1>5, <1>6
<1>8. LinesOf(t) = Append(LinesOf(s), l)
    BY <1>4, <1>5, <1>7, SeqEqual
<1> QED BY <1>8 DEF t, e

\* fputs moves the head of the output buffer to the end of what is put.
LEMMA MoveHead ==
    ASSUME NEW S, NEW a \in Seq(S), NEW b \in Seq(S), b # <<>>
    PROVE  Append(a, Head(b)) \o Tail(b) = a \o b
OBVIOUS

LEMMA AppendLast ==
    ASSUME NEW S, NEW a \in Seq(S), NEW b \in Seq(S), NEW x \in S
    PROVE  a \o Append(b, x) = Append(a \o b, x)
OBVIOUS

LEMMA ConcatEmpty ==
    ASSUME NEW S, NEW a \in Seq(S)
    PROVE  a \o <<>> = a /\ <<>> \o a = a
OBVIOUS

-----------------------------------------------------------------------------
(* The parts of the invariant, step by step. *)

LEMMA InitIInv == Init => IInv
<1> SUFFICES ASSUME Init PROVE IInv
    OBVIOUS
<1>1. m_is_async \in BOOLEAN
    BY DEF Init
<1>2. /\ day \in 1..MaxDay /\ m_today \in 1..MaxDay /\ m_count \in Nat
      /\ m_fp \in Files /\ m_fp # Closed
    BY LogAssumption DEF Init, Files, Closed
<1>3. pc \in [Writers -> Places] /\ consumer \in {"wait", "write"}
    BY DEF Init, Places
<1>4. line \in [Writers -> Lines] /\ OwnLines
    BY LogAssumption DEF Init, Lines, OwnLines
<1>5. /\ m_input_buffer = <<>> /\ m_output_buffer = <<>> /\ logged = <<>> /\ put = <<>>
      /\ flushed = 0
    BY DEF Init
<1>6. /\ m_input_buffer \in Seq(Lines) /\ m_output_buffer \in Seq(Lines)
      /\ logged \in Seq(Lines)
      /\ put \in Seq([line : Lines, file : Files \cup {Closed}])
      /\ Len(put) = 0 /\ DOMAIN put = {} /\ flushed \in 0..Len(put)
    BY <1>5
<1>7. TypeOK
    BY <1>1, <1>2, <1>3, <1>4, <1>6 DEF TypeOK
<1>8. BufferUse /\ Durable /\ NoClosedFile /\ ClosedInSwitch
    BY <1>2, <1>5, <1>6 DEF BufferUse, Durable, NoClosedFile, ClosedInSwitch
<1>9. OnceInOrder
  <2>1. LinesOf(put) \in Seq(Lines) /\ Len(LinesOf(put)) = 0
      BY <1>6, LinesOfType DEF Puts
  <2>2. LinesOf(put) = <<>>
      BY <2>1, EmptySeq
  <2>3. <<>> = LinesOf(put) \o m_output_buffer \o m_input_buffer
      BY <1>5, <2>2
  <2> QED BY <1>5, <2>3 DEF OnceInOrder, LinesOf
<1> QED BY <1>4, <1>7, <1>8, <1>9 DEF IInv

\* A thread's place.
LEMMA GotoMoves ==
    ASSUME TypeOK, NEW w \in Writers, NEW p \in Places, Goto(w, p)
    PROVE  /\ pc' \in [Writers -> Places] /\ pc'[w] = p
           /\ \A v \in Writers : v # w => pc'[v] = pc[v]
BY DEF Goto, TypeOK

\* What leaves the lines alone keeps their order.
LEMMA OrderKept ==
    ASSUME OnceInOrder, BufferUse,
           UNCHANGED <<m_is_async, m_input_buffer, m_output_buffer, logged, put>>,
           consumer' = consumer \/ consumer' = "write" \/ m_output_buffer = <<>>
    PROVE  OnceInOrder' /\ BufferUse'
BY DEF OnceInOrder, BufferUse

\* Who has put a line into the file.
LEMMA WriterOf ==
    ASSUME TypeOK, NEW i \in flushed + 1 .. Len(put)
    PROVE  i \in 1..Len(put) /\ put[i].line \in Lines /\ put[i].line.w \in Writers
<1>1. /\ put \in Seq([line : Lines, file : Files \cup {Closed}])
      /\ flushed \in 0..Len(put) /\ Len(put) \in Nat
    BY DEF TypeOK
<1>2. i \in 1..Len(put)
    BY <1>1
<1>3. put[i] \in [line : Lines, file : Files \cup {Closed}]
    BY <1>1, <1>2, ElementOfSeq
<1>4. put[i].line \in Lines
    BY <1>3
<1> QED BY <1>2, <1>4 DEF Lines

\* A step of a thread that has nothing to flush endangers no line.
LEMMA DurableKept ==
    ASSUME TypeOK, Durable, UNCHANGED <<m_is_async, put, flushed>>,
           \A v \in Writers : pc[v] = "flush" => pc'[v] = "flush" /\ line'[v] = line[v]
    PROVE  Durable'
<1> SUFFICES ASSUME ~m_is_async, NEW i \in flushed + 1 .. Len(put)
             PROVE  /\ pc'[put[i].line.w] = "flush"
                    /\ line'[put[i].line.w] = put[i].line
    BY DEF Durable
<1>1. put[i].line.w \in Writers
    BY WriterOf
<1> QED BY <1>1 DEF Durable

\* Nothing is in a FILE's buffer after a flush.
LEMMA DurableFlushed ==
    ASSUME TypeOK, put' = put, flushed' = Len(put)
    PROVE  Durable' /\ flushed' \in 0..Len(put')
<1>1. Len(put) \in Nat
    BY DEF TypeOK
<1> QED BY <1>1 DEF Durable

LEMMA MidnightStep == ASSUME IInv, Midnight PROVE IInv'
<1>1. UNCHANGED <<pc, line, m_is_async, m_count, m_today, m_fp, m_input_buffer, m_output_buffer,
                  consumer, logged, put, flushed>>
    BY DEF Midnight, file, buffers
<1>2. day' \in 1..MaxDay
    BY LogAssumption DEF Midnight, IInv, TypeOK
<1> QED BY <1>1, <1>2 DEF IInv, TypeOK, OwnLines, BufferUse, OnceInOrder, Durable,
                          ClosedInSwitch, NoClosedFile, MutexFree

LEMMA ClockStep == ASSUME IInv, NEW w \in Writers, Clock(w) PROVE IInv'
<1>1. TypeOK /\ pc[w] = "idle"
    BY DEF IInv, Clock
<1>2. UNCHANGED <<day, m_is_async, m_count, m_today, m_fp, m_input_buffer, m_output_buffer,
                  consumer, logged, put, flushed>>
    BY DEF Clock, file, buffers
<1>3. /\ pc' \in [Writers -> Places] /\ pc'[w] = "file"
      /\ \A v \in Writers : v # w => pc'[v] = pc[v]
    BY <1>1, GotoMoves DEF Clock, Places
<1>4. /\ line'[w] = [w |-> w, n |-> line[w].n + 1, day |-> day]
      /\ \A v \in Writers : v # w => line'[v] = line[v]
      /\ line' \in [Writers -> Lines]
  <2>1. line[w] \in Lines /\ line[w].n + 1 \in 0..MaxLines /\ day \in 1..MaxDay
      BY <1>1, LogAssumption DEF Clock, TypeOK, Lines
  <2>2. [w |-> w, n |-> line[w].n + 1, day |-> day] \in Lines
      BY <2>1 DEF Lines
  <2>3. line' = [line EXCEPT ![w] = [w |-> w, n |-> line[w].n + 1, day |-> day]]
      BY DEF Clock
  <2> QED BY <1>1, <2>2, <2>3 DEF TypeOK
<1>5. TypeOK'
    BY <1>1, <1>2, <1>3, <1>4 DEF TypeOK
<1>6. OwnLines'
    BY <1>4 DEF IInv, OwnLines
<1>7. OnceInOrder' /\ BufferUse'
    BY <1>2, OrderKept DEF IInv
<1>8. Durable'
    BY <1>1, <1>2, <1>3, <1>4, DurableKept DEF IInv
<1>9. ClosedInSwitch' /\ (~OpenFails => NoClosedFile')
    BY <1>1, <1>2, <1>3 DEF IInv, ClosedInSwitch, NoClosedFile, MutexFree
<1> QED BY <1>5, <1>6, <1>7, <1>8, <1>9 DEF IInv

LEMMA ChooseFileStep == ASSUME IInv, NEW w \in Writers, ChooseFile(w) PROVE IInv'
<1>1. TypeOK /\ pc[w] = "file" /\ MutexFree /\ m_count' = m_count + 1
    BY DEF IInv, ChooseFile
<1>2. UNCHANGED <<day, line, m_is_async, m_today, m_input_buffer, m_output_buffer,
                  consumer, logged, put>>
    BY DEF ChooseFile, buffers
<1>3. OwnLines' /\ OnceInOrder' /\ BufferUse' /\ (~OpenFails => NoClosedFile')
    BY <1>2, OrderKept DEF IInv, OwnLines, NoClosedFile
<1>4. CASE m_fp' = Closed /\ flushed' = Len(put) /\ Goto(w, "switch")
  <2>1. pc' \in [Writers -> Places] /\ pc'[w] = "switch"
      BY <1>1, <1>4, GotoMoves DEF Places
  <2>2. Durable' /\ flushed' \in 0..Len(put')
      BY <1>1, <1>2, <1>4, DurableFlushed
  <2>3. TypeOK'
    <3>1. m_count' \in Nat
        BY <1>1 DEF TypeOK
    <3> QED BY <1>1, <1>2, <1>4, <2>1, <2>2, <3>1 DEF TypeOK
  <2>4. ClosedInSwitch'
      BY <2>1 DEF ClosedInSwitch, MutexFree
  <2> QED BY <1>3, <2>2, <2>3, <2>4 DEF IInv
<1>5. CASE Goto(w, "line") /\ m_fp' = m_fp /\ flushed' = flushed
  <2>1. /\ pc' \in [Writers -> Places] /\ pc'[w] = "line"
        /\ \A v \in Writers : v # w => pc'[v] = pc[v]
      BY <1>1, <1>5, GotoMoves DEF Places
  <2>2. Durable'
      BY <1>1, <1>2, <1>5, <2>1, DurableKept DEF IInv
  <2>3. TypeOK'
    <3>1. m_count' \in Nat
        BY <1>1 DEF TypeOK
    <3> QED BY <1>1, <1>2, <1>5, <2>1, <3>1 DEF TypeOK
  <2>4. ClosedInSwitch'
      BY <1>1, <1>5 DEF IInv, ClosedInSwitch
  <2> QED BY <1>3, <2>2, <2>3, <2>4 DEF IInv
<1> QED BY <1>4, <1>5 DEF ChooseFile

LEMMA SwitchStep == ASSUME IInv, NEW w \in Writers, Switch(w) PROVE IInv'
<1>1. TypeOK /\ pc[w] = "switch" /\ line[w].day \in 1..MaxDay
    BY DEF IInv, TypeOK, Lines, Switch
<1>2. UNCHANGED <<day, line, m_is_async, m_input_buffer, m_output_buffer,
                  consumer, logged, put, flushed>>
    BY DEF Switch, buffers
<1>3. OwnLines' /\ OnceInOrder' /\ BufferUse' /\ (~OpenFails => NoClosedFile')
    BY <1>2, OrderKept DEF IInv, OwnLines, NoClosedFile
<1>4. /\ pc' \in [Writers -> Places] /\ pc'[w] = "line"
      /\ \A v \in Writers : v # w => pc'[v] = pc[v]
    BY <1>1, GotoMoves DEF Switch, Places
<1>5. m_today' \in 1..MaxDay /\ m_count' \in Nat
    BY <1>1 DEF Switch, TypeOK
<1>6. m_count' \div m_split_lines \in Nat
  <2>1. m_split_lines \in Nat /\ m_split_lines > 0
      BY LogAssumption
  <2>2. ASSUME NEW c \in Nat PROVE c \div m_split_lines \in Nat
      BY <2>1
  <2> QED BY <1>5, <2>2
<1> DEFINE opened == [day |-> line[w].day, part |-> m_count' \div m_split_lines]
<1>7. opened \in Files /\ opened # Closed
    BY <1>1, <1>6 DEF Files, Closed
<1>8. m_fp' \in Files \cup {Closed} /\ (~OpenFails => m_fp' = opened)
    BY <1>7 DEF Switch
<1> HIDE DEF opened
<1>9. TypeOK'
    BY <1>1, <1>2, <1>4, <1>5, <1>8 DEF TypeOK
<1>10. Durable'
    BY <1>1, <1>2, <1>4, DurableKept DEF IInv
<1>11. ClosedInSwitch'
    BY <1>7, <1>8 DEF ClosedInSwitch
<1> QED BY <1>3, <1>9, <1>10, <1>11 DEF IInv

LEMMA FlushStep == ASSUME IInv, NEW w \in Writers, Flush(w) PROVE IInv'
<1>1. TypeOK /\ MutexFree /\ flushed' = Len(put)
    BY DEF IInv, Flush
<1>2. UNCHANGED <<day, line, m_is_async, m_count, m_today, m_fp, m_input_buffer, m_output_buffer,
                  consumer, logged, put>>
    BY DEF Flush, file, buffers
<1>3. pc' \in [Writers -> Places]
    BY <1>1, GotoMoves DEF Flush, Places
<1>4. OwnLines' /\ OnceInOrder' /\ BufferUse' /\ (~OpenFails => NoClosedFile')
    BY <1>2, OrderKept DEF IInv, OwnLines, NoClosedFile
<1>5. Durable' /\ flushed' \in 0..Len(put')
    BY <1>1, <1>2, DurableFlushed
<1>6. TypeOK'
    BY <1>1, <1>2, <1>3, <1>5 DEF TypeOK
<1>7. ClosedInSwitch'
    BY <1>1, <1>2 DEF IInv, ClosedInSwitch
<1> QED BY <1>4, <1>5, <1>6, <1>7 DEF IInv

\* A line into the input buffer, or straight into the file.
LEMMA LogLineStep == ASSUME IInv, NEW w \in Writers, LogLine(w) PROVE IInv'
<1> DEFINE Seqs == Seq(Lines)
<1>1. TypeOK /\ pc[w] = "line" /\ MutexFree /\ logged' = Append(logged, line[w])
    BY DEF IInv, LogLine
<1>2. UNCHANGED <<day, line, m_is_async, m_count, m_today, m_fp, m_output_buffer, consumer, flushed>>
    BY DEF LogLine, file, buffers
<1>3. /\ pc' \in [Writers -> Places] /\ pc'[w] = "flush"
      /\ \A v \in Writers : v # w => pc'[v] = pc[v]
    BY <1>1, GotoMoves DEF LogLine, Places
<1>4. /\ line[w] \in Lines /\ line[w].w = w
      /\ m_input_buffer \in Seq(Lines) /\ m_output_buffer \in Seq(Lines) /\ logged \in Seq(Lines)
      /\ put \in Seq(Puts) /\ m_fp \in Files \cup {Closed}
    BY <1>1 DEF IInv, TypeOK, OwnLines, Puts
<1>5. LinesOf(put) \in Seq(Lines)
    BY <1>4, LinesOfType
<1>6. logged = LinesOf(put) \o m_output_buffer \o m_input_buffer
    BY DEF IInv, OnceInOrder, LinesOf
<1>7. logged' \in Seq(Lines)
    BY <1>1, <1>4
<1>8. OwnLines' /\ ClosedInSwitch'
    BY <1>1, <1>2 DEF IInv, OwnLines, ClosedInSwitch
<1>9. CASE m_is_async
  <2>1. m_input_buffer' = Append(m_input_buffer, line[w]) /\ put' = put
      BY <1>9 DEF LogLine
  <2>2. TypeOK'
    <3>1. m_input_buffer' \in Seq(Lines)
        BY <1>4, <2>1
    <3> QED BY <1>1, <1>2, <1>3, <1>7, <2>1, <3>1 DEF TypeOK
  <2>3. LinesOf(put) \o m_output_buffer \in Seq(Lines)
      BY <1>4, <1>5
  <2>4. logged' = (LinesOf(put) \o m_output_buffer) \o m_input_buffer'
      BY <1>1, <1>4, <1>6, <2>1, <2>3, AppendLast
  <2>5. OnceInOrder'
      BY <1>2, <2>1, <2>4 DEF OnceInOrder, LinesOf
  <2>6. BufferUse' /\ Durable' /\ NoClosedFile'
      BY <1>2, <1>9 DEF IInv, BufferUse, Durable, NoClosedFile
  <2> QED BY <1>8, <2>2, <2>5, <2>6 DEF IInv
<1>10. CASE ~m_is_async
  <2> DEFINE e == [line |-> line[w], file |-> m_fp]
             k == Len(put)
  <2>1. put' = Append(put, e) /\ m_input_buffer' = m_input_buffer
      BY <1>10 DEF LogLine, buffers
  <2>2. m_input_buffer = <<>> /\ m_output_buffer = <<>>
      BY <1>10 DEF IInv, BufferUse
  <2>3. e \in Puts /\ e.line = line[w] /\ e.file = m_fp
      BY <1>4 DEF Puts
  <2>4. LinesOf(put') = Append(LinesOf(put), line[w])
      BY <1>4, <2>1, LinesOfAppend
  <2> HIDE DEF e
  <2>5. /\ put' \in Seq(Puts) /\ Len(put') = k + 1 /\ k \in Nat
        /\ \A i \in 1..k : put'[i] = put[i]
        /\ put'[k + 1] = e
        /\ DOMAIN put' = 1..(k + 1) /\ DOMAIN put = 1..k
      BY <1>4, <2>1, <2>3, AppendProperties, LenProperties
  <2> HIDE DEF k
  <2>6. logged = LinesOf(put)
      BY <1>5, <1>6, <2>2, ConcatEmpty
  <2>7. logged' = LinesOf(put') \o m_output_buffer' \o m_input_buffer'
    <3>1. LinesOf(put') \in Seq(Lines)
        BY <2>5, LinesOfType
    <3>2. LinesOf(put') \o <<>> = LinesOf(put')
        BY <3>1, ConcatEmpty
    <3> QED BY <1>1, <1>2, <2>1, <2>2, <2>4, <2>6, <3>2
  <2>8. OnceInOrder' /\ BufferUse'
      BY <1>2, <2>1, <2>2, <2>7 DEF OnceInOrder, BufferUse, LinesOf
  <2>9. flushed \in 0..k
      BY <1>1 DEF TypeOK, k
  <2>10. TypeOK'
    <3>1. flushed' \in 0..Len(put')
        BY <1>2, <2>5, <2>9
    <3> QED BY <1>1, <1>2, <1>3, <1>7, <2>1, <2>5, <3>1 DEF TypeOK, Puts
  <2>11. Durable'
    <3> SUFFICES ASSUME NEW i \in flushed + 1 .. k + 1
                 PROVE  /\ pc'[put'[i].line.w] = "flush"
                        /\ line'[put'[i].line.w] = put'[i].line
        BY <1>2, <2>5 DEF Durable
    <3>1. CASE i = k + 1
        BY <1>2, <1>3, <1>4, <2>3, <2>5, <3>1
    <3>2. CASE i # k + 1
      <4>1. i \in flushed + 1 .. k /\ i \in 1..k
          BY <2>5, <2>9, <3>2
      <4>2. put'[i] = put[i] /\ put[i].line.w \in Writers
          BY <1>1, <2>5, <4>1, WriterOf DEF k
      <4>3. pc[put[i].line.w] = "flush" /\ line[put[i].line.w] = put[i].line
          BY <1>10, <4>1 DEF IInv, Durable, k
      <4> QED BY <1>1, <1>2, <1>3, <4>2, <4>3
    <3> QED BY <3>1, <3>2
  <2>12. ~OpenFails => NoClosedFile'
    <3> SUFFICES ASSUME ~OpenFails, NEW i \in 1..(k + 1) PROVE put'[i].file # Closed
        BY <2>5 DEF NoClosedFile
    <3>1. m_fp # Closed
        BY <1>1 DEF IInv, ClosedInSwitch
    <3>2. \A j \in 1..k : put[j].file # Closed
        BY <1>10, <2>5 DEF IInv, NoClosedFile
    <3>3. i = k + 1 \/ i \in 1..k
        BY <2>5
    <3> QED BY <2>3, <2>5, <3>1, <3>2, <3>3
  <2> QED BY <1>8, <2>8, <2>10, <2>11, <2>12 DEF IInv
<1> QED BY <1>9, <1>10

-----------------------------------------------------------------------------
(* The consumer. *)

LEMMA SwapStep == ASSUME IInv, Swap PROVE IInv'
<1>1. /\ TypeOK /\ m_is_async /\ m_output_buffer = <<>>
      /\ m_output_buffer' = m_input_buffer /\ m_input_buffer' = <<>> /\ consumer' = "write"
    BY DEF IInv, Swap, BufferUse
<1>2. UNCHANGED <<day, pc, line, m_is_async, m_count, m_today, m_fp, logged, put, flushed>>
    BY DEF Swap, file
<1>3. m_input_buffer' \in Seq(Lines)
    BY <1>1
<1>4. TypeOK'
    BY <1>1, <1>2, <1>3 DEF TypeOK
<1>5. OnceInOrder'
  <2>1. LinesOf(put) \in Seq(Lines) /\ m_input_buffer \in Seq(Lines)
      BY <1>1, LinesOfType DEF TypeOK, Puts
  <2>2. logged = LinesOf(put) \o <<>> \o m_input_buffer
      BY <1>1 DEF IInv, OnceInOrder, LinesOf
  <2>3. LinesOf(put) \o <<>> = LinesOf(put)
      BY <2>1, ConcatEmpty
  <2>4. LinesOf(put) \o m_input_buffer \in Seq(Lines)
      BY <2>1
  <2>5. (LinesOf(put) \o m_input_buffer) \o <<>> = LinesOf(put) \o m_input_buffer
      BY <2>4, ConcatEmpty
  <2>6. logged' = LinesOf(put') \o m_output_buffer' \o m_input_buffer'
      BY <1>1, <1>2, <2>2, <2>3, <2>5
  <2> QED BY <2>6 DEF OnceInOrder, LinesOf
<1>6. BufferUse' /\ Durable' /\ NoClosedFile'
    BY <1>1, <1>2 DEF BufferUse, Durable, NoClosedFile
<1>7. OwnLines' /\ ClosedInSwitch'
    BY <1>2 DEF IInv, OwnLines, ClosedInSwitch, MutexFree
<1> QED BY <1>4, <1>5, <1>6, <1>7 DEF IInv

LEMMA FputsStep == ASSUME IInv, Fputs PROVE IInv'
<1> DEFINE b == m_output_buffer
           e == [line |-> Head(b), file |-> m_fp]
<1>1. /\ TypeOK /\ m_is_async /\ b # <<>> /\ b \in Seq(Lines)
      /\ consumer = "write" /\ consumer' = "write"
    BY DEF IInv, Fputs, BufferUse, TypeOK
<1>2. /\ put' = Append(put, e) /\ m_output_buffer' = Tail(b)
      /\ UNCHANGED <<day, pc, line, m_is_async, m_count, m_today, m_fp, m_input_buffer,
                     logged, flushed>>
    BY DEF Fputs, file
<1>3. /\ put \in Seq(Puts) /\ m_fp \in Files \cup {Closed} /\ m_input_buffer \in Seq(Lines)
      /\ flushed \in 0..Len(put)
    BY <1>1 DEF TypeOK, Puts
<1>4. Head(b) \in Lines /\ Tail(b) \in Seq(Lines)
    BY <1>1
<1>5. LinesOf(put) \in Seq(Lines) /\ LinesOf(put') = Append(LinesOf(put), Head(b))
    BY <1>2, <1>3, <1>4, LinesOfType, LinesOfAppend
<1>6. e \in Puts
    BY <1>3, <1>4 DEF Puts
<1> HIDE DEF e
<1>7. put' \in Seq(Puts) /\ flushed' \in 0..Len(put')
    BY <1>2, <1>3, <1>6
<1>8. TypeOK'
    BY <1>1, <1>2, <1>4, <1>7 DEF TypeOK, Puts
<1>9. OnceInOrder'
  <2>1. Append(LinesOf(put), Head(b)) \o Tail(b) = LinesOf(put) \o b
      BY <1>1, <1>5, MoveHead
  <2>2. logged = LinesOf(put) \o b \o m_input_buffer
      BY DEF IInv, OnceInOrder, LinesOf
  <2>3. logged' = LinesOf(put') \o m_output_buffer' \o m_input_buffer'
      BY <1>2, <1>5, <2>1, <2>2
  <2> QED BY <2>3 DEF OnceInOrder, LinesOf
<1>10. BufferUse' /\ Durable' /\ NoClosedFile'
    BY <1>1, <1>2 DEF BufferUse, Durable, NoClosedFile
<1>11. OwnLines' /\ ClosedInSwitch'
    BY <1>2 DEF IInv, OwnLines, ClosedInSwitch, MutexFree
<1> QED BY <1>8, <1>9, <1>10, <1>11 DEF IInv

LEMMA FflushStep == ASSUME IInv, Fflush PROVE IInv'
<1>1. TypeOK /\ m_output_buffer = <<>> /\ flushed' = Len(put) /\ consumer' = "wait"
    BY DEF IInv, Fflush
<1>2. UNCHANGED <<day, pc, line, m_is_async, m_count, m_today, m_fp, m_input_buffer,
                  m_output_buffer, logged, put>>
    BY DEF Fflush, file
<1>3. Durable' /\ flushed' \in 0..Len(put')
    BY <1>1, <1>2, DurableFlushed
<1>4. TypeOK'
    BY <1>1, <1>2, <1>3 DEF TypeOK
<1>5. OnceInOrder' /\ BufferUse'
    BY <1>1, <1>2, OrderKept DEF IInv
<1>6. OwnLines' /\ ClosedInSwitch' /\ (~OpenFails => NoClosedFile')
    BY <1>2 DEF IInv, OwnLines, ClosedInSwitch, MutexFree, NoClosedFile
<1> QED BY <1>3, <1>4, <1>5, <1>6 DEF IInv

-----------------------------------------------------------------------------

LEMMA NextIInv == IInv /\ [Next]_vars => IInv'
<1> SUFFICES ASSUME IInv, [Next]_vars PROVE IInv'
    OBVIOUS
<1>1. ASSUME UNCHANGED vars PROVE IInv'
    BY <1>1 DEF vars, IInv, TypeOK, OwnLines, BufferUse, OnceInOrder, Durable,
                ClosedInSwitch, NoClosedFile, MutexFree
<1>2. ASSUME NEW w \in Writers, WriteLog(w) PROVE IInv'
    BY <1>2, ClockStep, ChooseFileStep, SwitchStep, LogLineStep, FlushStep DEF WriteLog
<1> QED BY <1>1, <1>2, MidnightStep, SwapStep, FputsStep, FflushStep DEF Next, Ended

LEMMA SpecIInv == Spec => []IInv
BY InitIInv, NextIInv, PTL DEF Spec

\* Every line is put once and in the order in which the threads got the mutex,
\* through both buffers and their swaps (log.cpp:52, :59-64, :201).
THEOREM LinesOnceInOrder == Spec => []OnceInOrder
BY SpecIInv, PTL DEF IInv

\* Where fopen does not fail no line of the synchronous log goes to a file another
\* thread has closed to switch it (log.cpp:158-174, :185, :215).
THEOREM FileIsOpen == ASSUME ~OpenFails PROVE Spec => []NoClosedFile
<1>1. IInv => NoClosedFile
    BY DEF IInv
<1> QED BY <1>1, SpecIInv, PTL

\* A crash loses no line whose macro has returned, in synchronous mode, also when
\* another thread has switched the file meanwhile (log.h:64-67, log.cpp:158, :226).
THEOREM ReturnedLinesAreDurable == Spec => []Durable
BY SpecIInv, PTL DEF IInv
=============================================================================
