--------------------------------- MODULE Log ---------------------------------
(***************************************************************************)
(* log/log.cpp: the threads that log, the file they switch when the day    *)
(* changes or the file is full, and in asynchronous mode the consumer of   *)
(* async_write_log with its two buffers.                                   *)
(*                                                                         *)
(* write_log reads the clock before it takes m_mutex and lets go of the    *)
(* mutex between the choice of the file and the line.  The sections under  *)
(* the mutex are single actions, but for the switch of files: the consumer *)
(* writes without the mutex and may see m_fp between fclose and fopen.     *)
(* The macros LOG_INFO, ... call flush() after write_log(); until then a   *)
(* line may be in the buffer of the FILE only, and a crash would lose it.  *)
(***************************************************************************)
EXTENDS Naturals, Sequences

CONSTANTS
    Writers,        \* the threads that log
    MaxLines,       \* bound: lines each of them logs
    MaxDay,         \* bound: the last day
    m_split_lines,  \* lines per file
    OpenFails       \* fopen may fail when the file is switched

ASSUME LogAssumption == /\ MaxLines \in Nat /\ MaxDay \in Nat \ {0}
                        /\ m_split_lines \in Nat \ {0}
                        /\ OpenFails \in BOOLEAN

VARIABLES
    m_is_async,       \* set by init()
    day,              \* the date
    pc,               \* pc[w]: where writer w is
    line,             \* line[w]: the line w is logging: its writer, number and date
    m_count, m_today,
    m_fp,             \* the open file, named by its day and number, or Closed
    m_input_buffer,
    m_output_buffer,  \* what the consumer has not written of it
    consumer,         \* "wait": in wait_for; "write": in the loop of fputs
    logged,           \* history: the lines in the order of the second sections
    put,              \* history: the lines in the order of fputs, each with its file
    flushed           \* how many of these are in no FILE's buffer any more

vars == <<m_is_async, day, pc, line, m_count, m_today, m_fp, m_input_buffer, m_output_buffer,
          consumer, logged, put, flushed>>

Lines == [w : Writers, n : 0..MaxLines, day : 1..MaxDay]
Files == [day : 1..MaxDay, part : Nat]
Closed == [day |-> 0, part |-> 0]

\* "switch": holds m_mutex between fclose and fopen; "line": before the second
\* section; "flush": write_log has returned, before flush().
Places == {"idle", "file", "switch", "line", "flush"}

TypeOK == /\ m_is_async \in BOOLEAN
          /\ day \in 1..MaxDay
          /\ pc \in [Writers -> Places]
          /\ line \in [Writers -> Lines]
          /\ m_count \in Nat
          /\ m_today \in 1..MaxDay
          /\ m_fp \in Files \cup {Closed}
          /\ m_input_buffer \in Seq(Lines) /\ m_output_buffer \in Seq(Lines)
          /\ logged \in Seq(Lines)
          /\ consumer \in {"wait", "write"}
          /\ put \in Seq([line : Lines, file : Files \cup {Closed}])
          /\ flushed \in 0..Len(put)

Init == /\ m_is_async \in BOOLEAN
        /\ day = 1
        /\ pc = [w \in Writers |-> "idle"]
        /\ line = [w \in Writers |-> [w |-> w, n |-> 0, day |-> 1]]
        /\ m_count = 0
        /\ m_today = 1
        /\ m_fp = [day |-> 1, part |-> 0]
        /\ m_input_buffer = <<>> /\ m_output_buffer = <<>>
        /\ logged = <<>>
        /\ consumer = "wait"
        /\ put = <<>>
        /\ flushed = 0

MutexFree == \A w \in Writers : pc[w] # "switch"
Goto(w, p) == pc' = [pc EXCEPT ![w] = p]

buffers == <<m_input_buffer, m_output_buffer, consumer>>
file == <<m_is_async, m_count, m_today, m_fp>>

Midnight == /\ day < MaxDay
            /\ day' = day + 1
            /\ UNCHANGED <<pc, line, file, buffers, logged, put, flushed>>

-----------------------------------------------------------------------------
(* write_log *)

Clock(w) == /\ pc[w] = "idle"
            /\ line[w].n < MaxLines
            /\ line' = [line EXCEPT ![w] = [w |-> w, n |-> @.n + 1, day |-> day]]
            /\ Goto(w, "file")
            /\ UNCHANGED <<day, file, buffers, logged, put, flushed>>

\* The file need not be switched, or is closed to be.
ChooseFile(w) ==
    /\ pc[w] = "file" /\ MutexFree
    /\ m_count' = m_count + 1
    /\ IF m_today # line[w].day \/ (m_count + 1) % m_split_lines = 0
       THEN m_fp' = Closed /\ flushed' = Len(put) /\ Goto(w, "switch")
       ELSE Goto(w, "line") /\ UNCHANGED <<m_fp, flushed>>
    /\ UNCHANGED <<m_is_async, day, line, m_today, buffers, logged, put>>

\* A new day begins a count of its own.
Switch(w) ==
    /\ pc[w] = "switch"
    /\ m_today' = line[w].day
    /\ m_count' = IF m_today # line[w].day THEN 0 ELSE m_count
    /\ m_fp' \in {[day |-> line[w].day, part |-> m_count' \div m_split_lines]}
                  \cup (IF OpenFails THEN {Closed} ELSE {})
    /\ Goto(w, "line")
    /\ UNCHANGED <<m_is_async, day, line, buffers, logged, put, flushed>>

\* Fault: the second section does not take the mutex.
LogLineNoMutex(w) ==
    /\ pc[w] = "line"
    /\ logged' = Append(logged, line[w])
    /\ IF m_is_async
       THEN /\ m_input_buffer' = Append(m_input_buffer, line[w])
            /\ UNCHANGED <<m_output_buffer, consumer, put>>
       ELSE /\ put' = Append(put, [line |-> line[w], file |-> m_fp])
            /\ UNCHANGED buffers
    /\ Goto(w, "flush")
    /\ UNCHANGED <<day, line, file, flushed>>

\* The second section: into the input buffer, or straight into the file.
LogLine(w) ==
    /\ pc[w] = "line" /\ MutexFree
    /\ logged' = Append(logged, line[w])
    /\ IF m_is_async
       THEN /\ m_input_buffer' = Append(m_input_buffer, line[w])
            /\ UNCHANGED <<m_output_buffer, consumer, put>>
       ELSE /\ put' = Append(put, [line |-> line[w], file |-> m_fp])
            /\ UNCHANGED buffers
    /\ Goto(w, "flush")
    /\ UNCHANGED <<day, line, file, flushed>>

\* Fault: flush() only notifies.
FlushNot(w) == /\ pc[w] = "flush" /\ MutexFree
               /\ Goto(w, "idle")
               /\ UNCHANGED <<day, line, file, buffers, logged, put, flushed>>

\* flush(): what is in the FILE's buffer goes to the file.  The notification changes
\* nothing: the consumer waits for input only.
Flush(w) == /\ pc[w] = "flush" /\ MutexFree
            /\ flushed' = Len(put)
            /\ Goto(w, "idle")
            /\ UNCHANGED <<day, line, file, buffers, logged, put>>

-----------------------------------------------------------------------------
(* async_write_log *)

\* Fault: the input buffer is copied and not swapped.
SwapCopy == /\ m_is_async /\ consumer = "wait" /\ MutexFree
            /\ m_input_buffer # <<>>
            /\ m_output_buffer' = m_input_buffer
            /\ consumer' = "write"
            /\ UNCHANGED <<day, pc, line, file, m_input_buffer, logged, put, flushed>>

\* Fault: the consumer waits for a full buffer.
SwapFull == /\ m_is_async /\ consumer = "wait" /\ MutexFree
            /\ Len(m_input_buffer) >= 2
            /\ m_output_buffer' = m_input_buffer
            /\ m_input_buffer' = <<>>
            /\ consumer' = "write"
            /\ UNCHANGED <<day, pc, line, file, logged, put, flushed>>

\* The wait ends when there is input, notified or after three seconds.
Swap == /\ m_is_async /\ consumer = "wait" /\ MutexFree
        /\ m_input_buffer # <<>>
        /\ m_output_buffer' = m_input_buffer
        /\ m_input_buffer' = <<>>
        /\ consumer' = "write"
        /\ UNCHANGED <<day, pc, line, file, logged, put, flushed>>

\* fputs of one line, without the mutex.  While a thread switches files m_fp is closed
\* and the line is lost; so it is when the switch falls between the reading of m_fp
\* and the fputs.
Fputs == /\ m_output_buffer # <<>>
         /\ put' = Append(put, [line |-> Head(m_output_buffer), file |-> m_fp])
         /\ m_output_buffer' = Tail(m_output_buffer)
         /\ UNCHANGED <<day, pc, line, file, m_input_buffer, consumer, logged, flushed>>

\* The batch is through: fflush, without the mutex.
Fflush == /\ consumer = "write" /\ m_output_buffer = <<>>
          /\ flushed' = Len(put)
          /\ consumer' = "wait"
          /\ UNCHANGED <<day, pc, line, file, m_input_buffer, m_output_buffer, logged, put>>

\* The bounds are reached.
Ended == /\ \A w \in Writers : pc[w] = "idle" /\ line[w].n = MaxLines
         /\ day = MaxDay
         /\ UNCHANGED vars

WriteLog(w) == Clock(w) \/ ChooseFile(w) \/ Switch(w) \/ LogLine(w) \/ Flush(w)

Next == \/ Midnight \/ Swap \/ Fputs \/ Fflush \/ Ended
        \/ \E w \in Writers : WriteLog(w)

Spec == Init /\ [][Next]_vars

\* The consumer is scheduled, and a thread that has begun a line ends it.
FairSpec == /\ Spec
            /\ WF_vars(Swap) /\ WF_vars(Fputs) /\ WF_vars(Fflush)
            /\ \A w \in Writers : WF_vars(Switch(w) \/ Flush(w))

-----------------------------------------------------------------------------

\* Every line is handed to fputs once, in the order in which the threads got the
\* mutex, through both buffers and across their swaps (log.cpp:52, :59-64, :201).
OnceInOrder ==
    logged = [i \in DOMAIN put |-> put[i].line]
                 \o m_output_buffer \o m_input_buffer

\* In synchronous mode no line goes to a file that is closed: the second section
\* never falls between fclose and fopen of another thread (log.cpp:158-174, :185,
\* :215).
NoClosedFile == ~m_is_async => \A i \in DOMAIN put : put[i].file # Closed

\* A crash loses no line whose LOG_INFO has returned, in synchronous mode: what is
\* still in a FILE's buffer was put there by a thread that has yet to flush, also when
\* another thread has switched the file under it (log.h:64-67, log.cpp:158, :226).
Durable == ~m_is_async => \A i \in flushed + 1 .. Len(put) :
               LET l == put[i].line IN pc[l.w] = "flush" /\ line[l.w] = l

InFile(w, k) == \E i \in 1..flushed :
    put[i].line.w = w /\ put[i].line.n = k /\ put[i].file # Closed

PutWhileClosed(w, k) == \E i \in DOMAIN put :
    put[i].line.w = w /\ put[i].line.n = k /\ put[i].file = Closed

\* In the end every line is in a file and flushed, although the threads that log never
\* wait for the consumer (log.cpp:40-46, :67, :209), but for the lines of the
\* asynchronous mode that the consumer puts while a thread switches files: these it
\* hands to a FILE that is closed (log.cpp:61 between :159 and :174).
AllWritten == \A k \in 1..MaxLines : \A w \in Writers :
    (\E i \in DOMAIN logged : logged[i].w = w /\ logged[i].n = k)
        ~> (InFile(w, k) \/ (m_is_async /\ PutWhileClosed(w, k)))
=============================================================================
