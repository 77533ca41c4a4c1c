------------------------------ MODULE LogProofs ------------------------------
(***************************************************************************)
(* Proofs about Log, for any number of threads, any size of the ring and   *)
(* of the trace file: the ring and the files hold the last messages.       *)
(***************************************************************************)
EXTENDS Log, SequenceLemmas

-----------------------------------------------------------------------------
(* The inductive invariant                                                 *)

Message == [number : Nat, level : Nat]
Logger == [pc : {"idle", "format", "entry", "post"}, message : Message, slot : Nat]

(* The place of the entry taken j entries before the one at next.          *)
Place(next, j) == IF next > j THEN next - j ELSE next - j + MaxEntries

(* How many messages the ring holds.                                       *)
Held == IF Len(traced) < MaxEntries THEN Len(traced) ELSE MaxEntries

(* The indices follow from the number of messages put into the ring: until *)
(* it is full it starts at its first entry, and then at the next to take.  *)
RingInv ==
    /\ traced \in Seq(Message) /\ next_index \in 1..MaxEntries /\ start_index \in Nat
    /\ Len(traced) = 0 => start_index = 0 /\ next_index = 1
    /\ Len(traced) \in 1..(MaxEntries - 1) =>
        start_index = 1 /\ next_index = Len(traced) + 1
    /\ Len(traced) >= MaxEntries => start_index = next_index

(* An entry has been taken and not filled.                                 *)
Unfilled == \E t \in Loggers : logger[t].pc = "entry"

(* The entry taken j entries ago has the message that was j-th from last.  *)
Filled(j) == trace_queue.slots[Place(next_index, j)] = traced[Len(traced) + 1 - j]

(* Each entry holds its message, but for the one just taken.               *)
SlotsInv ==
    trace_queue.state = "alive" =>
        /\ trace_queue \in [slots : [1..MaxEntries -> Message], state : {"alive"}]
        /\ \A j \in 1..Held : j # 1 \/ ~Unfilled => Filled(j)

(* What a thread in Log holds: msg_buf, and the last entry taken.          *)
Holds(t) ==
    /\ logger[t].pc # "idle" => msg_buf = logger[t].message
    /\ logger[t].pc \in {"entry", "post"} =>
        /\ library = "up" /\ trace_queue.state = "alive"
        /\ Len(traced) > 0 /\ traced[Len(traced)] = logger[t].message
        /\ logger[t].slot = Place(next_index, 1)

(* At most one thread is in Log, and none beside Log_initialize or         *)
(* Log_terminate.                                                          *)
LoggerInv ==
    /\ logger \in [Loggers -> Logger]
    /\ \A t, u \in Loggers : logger[t].pc # "idle" /\ logger[u].pc # "idle" => t = u
    /\ \A t \in Loggers : Holds(t)
    /\ library \in {"initializing", "terminating"} => ~logging

(* What there is in which part of the library's life.                      *)
LifeInv ==
    /\ library \in {"down", "initializing", "up", "terminating"}
    /\ \/ trace_queue = NoQueue
       \/ trace_queue.state = "alive" /\ library # "down"
       \/ trace_queue.state = "freed" /\ library = "terminating"
    /\ library = "down" => trace_destination = "none"
    /\ library = "initializing" => trace_queue.state = "alive"
    /\ trace_queue = NoQueue => traced = <<>>
    /\ calls \in Nat /\ msg_buf \in Message

(* The sequence t ends with s.                                             *)
EndsWith(t, s) ==
    Len(s) <= Len(t) /\ \A i \in 1..Len(s) : t[Len(t) - Len(s) + i] = s[i]

(* The lines of the file are counted, and those of an earlier file may     *)
(* be, too.                                                                *)
FileInv ==
    /\ file \in Seq(Message) /\ backup \in Seq(Message) /\ output \in Seq(Message)
    /\ lines_written \in Nat /\ Len(file) <= lines_written /\ lines_written < MaxLines
    /\ Len(backup) <= MaxLines
    /\ trace_destination = "file" =>
        /\ EndsWith(output, file)
        /\ Len(output) > Len(file) => backup # <<>> /\ EndsWith(output, backup \o file)

DefinedInv == RingInv /\ SlotsInv /\ LoggerInv /\ LifeInv /\ FileInv

(* All of this as long as Log has not run beside Log_initialize or         *)
(* Log_terminate.                                                          *)
LogInv == ~undefined => DefinedInv

-----------------------------------------------------------------------------
(* Sequences that end alike                                                *)

(* A sequence that ends with s has it for a suffix.                        *)
LEMMA EndIsSuffix ==
    ASSUME NEW S, NEW s \in Seq(S), NEW t \in Seq(S), EndsWith(t, s)
    PROVE  IsSuffix(s, t)
<1> DEFINE r == Reverse(s)
           q == Reverse(t)
<1>1. Len(s) \in Nat /\ Len(t) \in Nat /\ Len(s) <= Len(t)
  BY DEF EndsWith
<1>2. /\ r \in Seq(S) /\ Len(r) = Len(s) /\ q \in Seq(S) /\ Len(q) = Len(t)
      /\ \A i \in 1..Len(s) : r[i] = s[Len(s) - i + 1]
      /\ \A i \in 1..Len(t) : q[i] = t[Len(t) - i + 1]
  BY <1>1 DEF Reverse
<1>3. \A i \in 1..Len(s) : r[i] = q[i]
  <2> SUFFICES ASSUME NEW i \in 1..Len(s) PROVE r[i] = q[i]
    OBVIOUS
  <2>1. Len(s) - i + 1 \in 1..Len(s) /\ i \in 1..Len(t)
    BY <1>1
  <2>2. t[Len(t) - Len(s) + (Len(s) - i + 1)] = s[Len(s) - i + 1]
    BY <2>1 DEF EndsWith
  <2>3. Len(t) - Len(s) + (Len(s) - i + 1) = Len(t) - i + 1
    BY <1>1
  <2> QED
    BY <1>2, <2>1, <2>2, <2>3
<1> HIDE DEF r, q
<1>4. SubSeq(r, 1, Len(r)) = SubSeq(q, 1, Len(r))
  BY <1>1, <1>2, <1>3
<1> QED
  BY <1>1, <1>2, <1>4 DEF IsSuffix, IsPrefix, r, q

(* The end of a sequence grows with it.                                    *)
LEMMA EndGrows ==
    ASSUME NEW S, NEW s \in Seq(S), NEW t \in Seq(S), NEW e \in S, EndsWith(t, s)
    PROVE  EndsWith(Append(t, e), Append(s, e))
<1> DEFINE a == Append(s, e)
           b == Append(t, e)
<1>1. /\ Len(s) \in Nat /\ Len(t) \in Nat /\ Len(s) <= Len(t)
      /\ Len(a) = Len(s) + 1 /\ a[Len(s) + 1] = e /\ \A i \in 1..Len(s) : a[i] = s[i]
      /\ Len(b) = Len(t) + 1 /\ b[Len(t) + 1] = e /\ \A i \in 1..Len(t) : b[i] = t[i]
  BY AppendProperties DEF EndsWith
<1> HIDE DEF a, b
<1>2. \A i \in 1..Len(s) : t[Len(t) - Len(s) + i] = s[i]
  BY DEF EndsWith
<1>3. ASSUME NEW i \in 1..Len(a) PROVE b[Len(b) - Len(a) + i] = a[i]
  <2>1. CASE i = Len(a)
    <3>1. Len(b) - Len(a) + i = Len(t) + 1
      BY <1>1, <2>1
    <3> QED
      BY <1>1, <2>1, <3>1
  <2>2. CASE i # Len(a)
    <3>1. i \in 1..Len(s) /\ Len(b) - Len(a) + i = Len(t) - Len(s) + i
          /\ Len(t) - Len(s) + i \in 1..Len(t)
      BY <1>1, <2>2
    <3> QED
      BY <1>1, <1>2, <3>1
  <2> QED
    BY <2>1, <2>2
<1>4. Len(a) <= Len(b)
  BY <1>1
<1> QED
  BY <1>3, <1>4 DEF EndsWith, a, b

(* Any sequence ends with nothing.                                         *)
LEMMA EndsWithNothing ==
    ASSUME NEW S, NEW t \in Seq(S) PROVE EndsWith(t, <<>>)
<1>1. Len(t) \in Nat /\ Len(<<>>) = 0
  OBVIOUS
<1> QED
  BY <1>1 DEF EndsWith

-----------------------------------------------------------------------------
(* The files                                                               *)

(* Writing a line keeps what is known of the files.                        *)
LEMMA OutputKeepsFiles ==
    ASSUME FileInv, NEW line \in Message, Log_output(line)
    PROVE  FileInv'
<1>0. /\ MaxLines \in Nat /\ MaxLines >= 1
      /\ file \in Seq(Message) /\ backup \in Seq(Message) /\ output \in Seq(Message)
      /\ Len(file) \in Nat /\ lines_written \in Nat
      /\ Len(file) <= lines_written /\ lines_written < MaxLines /\ Len(backup) <= MaxLines
  BY LenProperties, SettingsAssumption DEF FileInv
<1>1. /\ Append(file, line) \in Seq(Message) /\ Len(Append(file, line)) = Len(file) + 1
      /\ Append(output, line) \in Seq(Message) /\ Len(Append(output, line)) = Len(output) + 1
      /\ <<>> \in Seq(Message) /\ Len(<<>>) = 0 /\ Len(output) \in Nat
      /\ Append(file, line) # <<>>
  BY <1>0, AppendProperties
<1>2. CASE trace_destination # "file"
  <2>1. UNCHANGED <<output, file, lines_written, backup, trace_destination>>
    BY <1>2 DEF Log_output
  <2> QED
    BY <2>1 DEF FileInv, EndsWith
<1>3. CASE trace_destination = "file" /\ lines_written + 1 >= MaxLines
  <2>1. /\ output' = Append(output, line) /\ backup' = Append(file, line)
        /\ file' = <<>> /\ lines_written' = 0
    BY <1>3 DEF Log_output
  <2>2. EndsWith(output', file')
    BY <1>1, <2>1, EndsWithNothing
  <2>3. EndsWith(output', Append(file, line))
    BY <1>0, <1>3, <2>1, EndGrows DEF FileInv
  <2>4. Append(file, line) \o <<>> = Append(file, line)
    BY <1>1, ConcatSimplifications
  <2>5. EndsWith(output', backup' \o file')
    BY <2>1, <2>3, <2>4
  <2>6. Len(backup') <= MaxLines
    BY <1>0, <1>1, <2>1
  <2>7. EndsWith(output, file)' /\ EndsWith(output, backup \o file)'
    BY <2>2, <2>5 DEF EndsWith
  <2> QED
    BY <1>0, <1>1, <2>1, <2>6, <2>7 DEF FileInv
<1>4. CASE trace_destination = "file" /\ ~(lines_written + 1 >= MaxLines)
  <2>1. /\ output' = Append(output, line) /\ backup' = backup
        /\ file' = Append(file, line) /\ lines_written' = lines_written + 1
    BY <1>4 DEF Log_output
  <2>2. EndsWith(output', file')
    BY <1>0, <1>4, <2>1, EndGrows DEF FileInv
  <2>3. ASSUME Len(output') > Len(file')
        PROVE  backup' # <<>> /\ EndsWith(output', backup' \o file')
    <3>1. backup # <<>> /\ EndsWith(output, backup \o file)
      BY <1>0, <1>1, <1>4, <2>1, <2>3 DEF FileInv
    <3>2. backup \o Append(file, line) = Append(backup \o file, line)
      <4>1. backup \o file \in Seq(Message)
        BY <1>0
      <4> QED
        BY <1>0, <4>1
    <3>3. EndsWith(Append(output, line), Append(backup \o file, line))
      <4>1. backup \o file \in Seq(Message)
        BY <1>0
      <4> QED
        BY <1>0, <3>1, <4>1, EndGrows
    <3> QED
      BY <2>1, <3>1, <3>2, <3>3
  <2>4. EndsWith(output, file)' /\ (EndsWith(output', backup' \o file') => EndsWith(output, backup \o file)')
    BY <2>2 DEF EndsWith
  <2>5. lines_written' \in Nat /\ Len(file') <= lines_written' /\ lines_written' < MaxLines
    BY <1>0, <1>1, <1>4, <2>1
  <2> QED
    BY <1>0, <1>1, <2>1, <2>3, <2>4, <2>5 DEF FileInv
<1> QED
  BY <1>2, <1>3, <1>4

-----------------------------------------------------------------------------
(* The ring                                                                *)

(* What the code tests for the oldest entry, in an order that matters not. *)
LEMMA OldestIs ==
    ASSUME RingInv
    PROVE  oldest = IF next_index = start_index THEN after(start_index)
                    ELSE IF start_index = 0 THEN 1 ELSE start_index
<1>1. next_index # 0
  BY DEF RingInv
<1> QED
  BY <1>1, Zenon DEF oldest

(* The places move back by one when an entry is taken.                     *)
LEMMA PlaceMoves ==
    ASSUME NEW next \in 1..MaxEntries
    PROVE  /\ after(next) \in 1..MaxEntries
           /\ Place(after(next), 1) = next
           /\ \A j \in 2..MaxEntries : Place(after(next), j) = Place(next, j - 1)
<1>1. MaxEntries \in Nat /\ MaxEntries >= 1
  BY SettingsAssumption
<1> QED
  BY <1>1 DEF after, Place

(* The places of different entries differ.                                 *)
LEMMA PlacesDiffer ==
    ASSUME NEW next \in 1..MaxEntries,
           NEW j \in 1..MaxEntries
    PROVE  /\ Place(next, j) \in 1..MaxEntries
           /\ j # 1 => Place(next, j) # Place(next, 1)
<1>1. MaxEntries \in Nat /\ MaxEntries >= 1
  BY SettingsAssumption
<1> QED
  BY <1>1 DEF Place

(* Nothing else than the thread in Log is in it.                           *)
LEMMA OthersIdle ==
    ASSUME LoggerInv, NEW t \in Loggers, logger[t].pc # "idle", NEW u \in Loggers, u # t
    PROVE  logger[u].pc = "idle"
BY DEF LoggerInv

(* A thread that is idle holds nothing.                                    *)
LEMMA IdleHoldsNothing ==
    ASSUME NEW t \in Loggers, logger[t].pc = "idle" PROVE Holds(t)
BY DEF Holds

(* The same, after a step.                                                 *)
LEMMA IdleHoldsNothingNext ==
    ASSUME NEW t \in Loggers, logger'[t].pc = "idle" PROVE Holds(t)'
BY DEF Holds

-----------------------------------------------------------------------------
(* The steps of Log                                                        *)

(* Initially nothing is held anywhere.                                     *)
LEMMA InitDefined ==
    ASSUME LogInit PROVE DefinedInv
<1>0. /\ MaxEntries \in Nat /\ MaxEntries >= 1 /\ MaxLines \in Nat /\ MaxLines >= 1
      /\ <<>> \in Seq(Message) /\ Len(<<>>) = 0
      /\ NoMessage \in Message /\ Idle \in Logger
  BY SettingsAssumption DEF NoMessage, Message, Idle, Logger, INVALID_LEVEL
<1>1. \A t \in Loggers : logger[t] = Idle /\ logger[t].pc = "idle"
  BY DEF LogInit, Idle
<1>2. RingInv
  BY <1>0 DEF RingInv, LogInit
<1>3. SlotsInv
  BY DEF SlotsInv, LogInit, NoQueue
<1>4. LoggerInv
  <2>1. logger \in [Loggers -> Logger]
    BY <1>0 DEF LogInit
  <2>2. \A t \in Loggers : Holds(t)
    BY <1>1, IdleHoldsNothing
  <2> QED
    BY <1>1, <2>1, <2>2 DEF LoggerInv, logging
<1>5. LifeInv
  BY <1>0 DEF LifeInv, LogInit
<1>6. FileInv
  BY <1>0 DEF FileInv, LogInit
<1> QED
  BY <1>2, <1>3, <1>4, <1>5, <1>6 DEF DefinedInv

(* A message is formatted.                                                 *)
LEMMA FormatStep ==
    ASSUME DefinedInv, ~undefined', NEW t \in Loggers, LogFormat(t)
    PROVE  DefinedInv'
<1> DEFINE m == logger'[t].message
<1>1. /\ UNCHANGED <<ring, files, levels, library, lives>> /\ calls' = calls + 1
      /\ ~logging /\ library \notin {"initializing", "terminating"}
      /\ logger \in [Loggers -> Logger] /\ calls \in Nat
  BY DEF LogFormat, DefinedInv, LoggerInv, LifeInv
<1>2. /\ logger' = [logger EXCEPT ![t] = [pc |-> "format", message |-> m, slot |-> 0]]
      /\ m \in Message /\ msg_buf' = m
  <2>1. PICK level \in Levels :
            LET message == [number |-> calls + 1, level |-> level]
            IN  /\ msg_buf' = message
                /\ logger' = [logger EXCEPT ![t] =
                                [pc |-> "format", message |-> message, slot |-> 0]]
    BY DEF LogFormat
  <2>2. m = [number |-> calls + 1, level |-> level]
    BY <1>1, <2>1
  <2>3. [number |-> calls + 1, level |-> level] \in Message
    BY <1>1 DEF Message, Levels, TRACE_PROTOCOL, LOG_SEVERE
  <2> QED
    BY <2>1, <2>2, <2>3
<1> HIDE DEF m
<1>3. /\ logger'[t].pc = "format" /\ logger'[t].message = m
      /\ \A u \in Loggers : u # t => logger'[u] = logger[u] /\ logger'[u].pc = "idle"
      /\ [pc |-> "format", message |-> m, slot |-> 0] \in Logger
  BY <1>1, <1>2 DEF logging, Logger
<1>4. logger' \in [Loggers -> Logger]
  BY <1>1, <1>2, <1>3
<1>5. ~Unfilled /\ ~Unfilled'
  BY <1>1, <1>3 DEF Unfilled, logging
<1>6. RingInv'
  BY <1>1 DEF DefinedInv, RingInv, ring
<1>7. SlotsInv'
  BY <1>1, <1>5 DEF DefinedInv, SlotsInv, Held, Filled, Place, ring
<1>8. LoggerInv'
  <2>1. ASSUME NEW u \in Loggers PROVE Holds(u)'
    <3>1. CASE u = t
      BY <1>2, <1>3, <3>1 DEF Holds
    <3>2. CASE u # t
      BY <1>3, <3>2, IdleHoldsNothingNext
    <3> QED
      BY <3>1, <3>2
  <2>2. \A u, v \in Loggers : logger'[u].pc # "idle" /\ logger'[v].pc # "idle" => u = v
    BY <1>3
  <2> QED
    BY <1>1, <1>4, <2>1, <2>2 DEF LoggerInv
<1>9. LifeInv'
  BY <1>1, <1>2 DEF DefinedInv, LifeInv, ring, files
<1>10. FileInv'
  BY <1>1 DEF DefinedInv, FileInv, files, EndsWith
<1> QED
  BY <1>6, <1>7, <1>8, <1>9, <1>10 DEF DefinedInv

(* A thread that leaves Log, by either way, leaves no one in it.           *)
LEMMA LeavingStep ==
    ASSUME LoggerInv, NEW t \in Loggers, logger[t].pc # "idle",
           logger' = [logger EXCEPT ![t] = Idle]
    PROVE  LoggerInv' /\ ~logging' /\ ~Unfilled'
<1>1. Idle \in Logger /\ Idle.pc = "idle" /\ logger \in [Loggers -> Logger]
  BY DEF Idle, NoMessage, Logger, Message, INVALID_LEVEL, LoggerInv
<1>2. logger' \in [Loggers -> Logger]
  BY <1>1
<1>3. \A u \in Loggers : logger'[u].pc = "idle"
  <2> SUFFICES ASSUME NEW u \in Loggers PROVE logger'[u].pc = "idle"
    OBVIOUS
  <2>1. CASE u = t
    BY <1>1, <2>1
  <2>2. CASE u # t
    BY <1>1, <2>2, OthersIdle
  <2> QED
    BY <2>1, <2>2
<1>4. \A u \in Loggers : Holds(u)'
  BY <1>3, IdleHoldsNothingNext
<1> QED
  BY <1>2, <1>3, <1>4 DEF LoggerInv, logging, Unfilled

(* There is no ring to put the message into.                               *)
LEMMA NoQueueStep ==
    ASSUME DefinedInv, NEW t \in Loggers, LogNoQueue(t)
    PROVE  DefinedInv'
<1>1. /\ UNCHANGED <<ring, files, levels, msg_buf, library, calls, lives>>
      /\ logger[t].pc = "format" /\ logger' = [logger EXCEPT ![t] = Idle]
      /\ trace_queue = NoQueue
  BY DEF LogNoQueue
<1>2. LoggerInv'
  BY <1>1, LeavingStep DEF DefinedInv
<1>3. RingInv'
  BY <1>1 DEF DefinedInv, RingInv, ring
<1>4. SlotsInv'
  BY <1>1 DEF SlotsInv, ring, NoQueue
<1>5. LifeInv'
  BY <1>1 DEF DefinedInv, LifeInv, ring, files
<1>6. FileInv'
  BY <1>1 DEF DefinedInv, FileInv, files, EndsWith
<1> QED
  BY <1>2, <1>3, <1>4, <1>5, <1>6 DEF DefinedInv

(* The next entry is taken: the messages in the ring are one further back. *)
LEMMA PretraceStep ==
    ASSUME DefinedInv, NEW t \in Loggers, Log_pretrace(t)
    PROVE  DefinedInv'
<1> DEFINE m == logger[t].message
           n == Len(traced)
<1>1. /\ logger[t].pc = "format" /\ trace_queue # NoQueue
      /\ logger' = [logger EXCEPT ![t].pc = "entry", ![t].slot = next_index]
      /\ start_index' = oldest /\ next_index' = after(next_index)
      /\ traced' = Append(traced, m)
      /\ UNCHANGED <<trace_queue, files, levels, msg_buf, library, calls, lives>>
  BY DEF Log_pretrace, set
<1>2. /\ MaxEntries \in Nat /\ MaxEntries >= 1 /\ next_index \in 1..MaxEntries
      /\ start_index \in Nat /\ traced \in Seq(Message) /\ n \in Nat
      /\ logger \in [Loggers -> Logger] /\ m \in Message
  BY LenProperties, SettingsAssumption DEF DefinedInv, RingInv, LoggerInv, Logger
<1>3. /\ traced' \in Seq(Message) /\ Len(traced') = n + 1 /\ traced'[n + 1] = m
      /\ \A i \in 1..n : traced'[i] = traced[i]
  BY <1>1, <1>2, AppendProperties
<1>4. logging
  BY <1>1 DEF logging
<1>5. library = "up" /\ trace_queue.state = "alive"
  BY <1>1, <1>4 DEF DefinedInv, LifeInv, LoggerInv
<1>6. ~Unfilled
  <2> SUFFICES ASSUME NEW u \in Loggers, logger[u].pc = "entry" PROVE FALSE
    BY DEF Unfilled
  <2>1. u # t
    BY <1>1
  <2> QED
    BY <1>1, <2>1, OthersIdle DEF DefinedInv
<1>7. /\ logger'[t].pc = "entry" /\ logger'[t].message = m /\ logger'[t].slot = next_index
      /\ \A u \in Loggers : u # t => logger'[u] = logger[u] /\ logger'[u].pc = "idle"
      /\ logger' \in [Loggers -> Logger]
  <2>1. logger[t] \in Logger
    BY <1>2
  <2>2. [logger[t] EXCEPT !.pc = "entry", !.slot = next_index] \in Logger
    <3>1. next_index \in Nat
      BY <1>2
    <3> QED
      BY <2>1, <3>1 DEF Logger
  <2>3. logger' = [logger EXCEPT ![t] = [logger[t] EXCEPT !.pc = "entry", !.slot = next_index]]
    BY <1>1, <1>2, <2>1 DEF Logger
  <2>4. /\ logger'[t] = [logger[t] EXCEPT !.pc = "entry", !.slot = next_index]
        /\ \A u \in Loggers : u # t => logger'[u] = logger[u]
        /\ logger' \in [Loggers -> Logger]
    BY <1>2, <2>2, <2>3
  <2>5. /\ logger'[t].pc = "entry" /\ logger'[t].message = m
        /\ logger'[t].slot = next_index
    BY <2>1, <2>4 DEF Logger
  <2>6. ASSUME NEW u \in Loggers, u # t
        PROVE  logger'[u] = logger[u] /\ logger'[u].pc = "idle"
    <3>1. logger[u].pc = "idle"
      BY <1>1, <2>6, OthersIdle DEF DefinedInv
    <3>2. logger'[u] = logger[u]
      BY <2>4, <2>6
    <3> QED
      BY <3>1, <3>2
  <2> QED
    BY <2>4, <2>5, <2>6, Zenon
<1> HIDE DEF m, n
<1>8. RingInv'
  <2>1. start_index' = IF next_index = start_index THEN after(start_index)
                       ELSE IF start_index = 0 THEN 1 ELSE start_index
    BY <1>1, OldestIs DEF DefinedInv
  <2>2. /\ n = 0 => start_index = 0 /\ next_index = 1
        /\ n \in 1..(MaxEntries - 1) => start_index = 1 /\ next_index = n + 1
        /\ n >= MaxEntries => start_index = next_index
    BY DEF DefinedInv, RingInv, n
  <2>3. /\ next_index' \in 1..MaxEntries /\ start_index' \in Nat
        /\ n + 1 \in 1..(MaxEntries - 1) => start_index' = 1 /\ next_index' = n + 2
        /\ n + 1 >= MaxEntries => start_index' = next_index'
    BY <1>1, <1>2, <2>1, <2>2 DEF after
  <2> QED
    BY <1>2, <1>3, <2>3 DEF RingInv
<1>9. SlotsInv'
  <2>1. /\ trace_queue' = trace_queue
        /\ trace_queue \in [slots : [1..MaxEntries -> Message], state : {"alive"}]
        /\ \A j \in 1..Held : Filled(j)
    BY <1>1, <1>5, <1>6 DEF DefinedInv, SlotsInv
  <2>2. Unfilled'
    BY <1>7 DEF Unfilled
  <2>3. ASSUME NEW j \in 1..Held', j # 1 PROVE Filled(j)'
    <3>1. j \in 2..MaxEntries /\ j - 1 \in 1..Held /\ Len(traced') + 1 - j = n + 1 - (j - 1)
          /\ n + 1 - (j - 1) \in 1..n
      <4>1. /\ Held = (IF n < MaxEntries THEN n ELSE MaxEntries)
            /\ Held' = (IF n + 1 < MaxEntries THEN n + 1 ELSE MaxEntries)
        BY <1>3 DEF Held, n
      <4> HIDE DEF Held
      <4> QED
        BY <1>2, <1>3, <2>3, <4>1
    <3>2. Place(next_index', j) = Place(next_index, j - 1)
      BY <1>1, <1>2, <3>1, PlaceMoves
    <3>3. Filled(j - 1)
      BY <2>1, <3>1
    <3>4. trace_queue'.slots[Place(next_index', j)] = traced'[Len(traced') + 1 - j]
      BY <1>3, <2>1, <3>1, <3>2, <3>3 DEF Filled, n
    <3> QED
      BY <3>4 DEF Filled, Place
  <2> QED
    BY <2>1, <2>2, <2>3 DEF SlotsInv
<1>10. LoggerInv'
  <2>1. ASSUME NEW u \in Loggers PROVE Holds(u)'
    <3>1. CASE u = t
      <4>1. Place(next_index', 1) = next_index
        BY <1>1, <1>2, PlaceMoves
      <4>2. msg_buf' = m /\ library' = "up" /\ trace_queue'.state = "alive"
        BY <1>1, <1>5 DEF DefinedInv, LoggerInv, Holds, m
      <4>3. Len(traced') > 0 /\ traced'[Len(traced')] = m
        BY <1>2, <1>3
      <4>4. logger'[u].slot = Place(next_index', 1) /\ logger'[u].message = m
        BY <1>7, <3>1, <4>1
      <4> QED
        BY <4>2, <4>3, <4>4 DEF Holds, Place
    <3>2. CASE u # t
      BY <1>7, <3>2, IdleHoldsNothingNext
    <3> QED
      BY <3>1, <3>2
  <2>2. \A u, v \in Loggers : logger'[u].pc # "idle" /\ logger'[v].pc # "idle" => u = v
    BY <1>7
  <2>3. library' = "up"
    BY <1>1, <1>5
  <2> QED
    BY <1>7, <2>1, <2>2, <2>3 DEF LoggerInv
<1>11. LifeInv'
  BY <1>1, <1>5 DEF DefinedInv, LifeInv, files
<1>12. FileInv'
  BY <1>1 DEF DefinedInv, FileInv, files, EndsWith
<1> QED
  BY <1>8, <1>9, <1>10, <1>11, <1>12 DEF DefinedInv

(* The entry is filled: every one then has its message.                    *)
LEMMA StoreStep ==
    ASSUME DefinedInv, NEW t \in Loggers, LogStore(t)
    PROVE  DefinedInv'
<1> DEFINE n == Len(traced)
           slot == logger[t].slot
           ss == trace_queue.slots
<1>1. /\ logger[t].pc = "entry"
      /\ logger' = [logger EXCEPT ![t].pc = "post", ![t].slot = slot]
      /\ UNCHANGED <<start_index, next_index, traced, files, levels, msg_buf, library, calls, lives>>
  BY DEF LogStore, set
<1>2. /\ library = "up" /\ trace_queue.state = "alive" /\ n > 0
      /\ traced[n] = msg_buf /\ slot = Place(next_index, 1)
      /\ logger \in [Loggers -> Logger] /\ msg_buf \in Message
  BY <1>1 DEF DefinedInv, LoggerInv, LifeInv, Holds
<1>3. /\ MaxEntries \in Nat /\ MaxEntries >= 1 /\ next_index \in 1..MaxEntries
      /\ traced \in Seq(Message) /\ n \in Nat
      /\ ss \in [1..MaxEntries -> Message]
      /\ trace_queue \in [slots : [1..MaxEntries -> Message], state : {"alive"}]
  BY <1>2, LenProperties, SettingsAssumption DEF DefinedInv, RingInv, SlotsInv
<1>4. trace_queue' = [trace_queue EXCEPT !.slots[slot] = msg_buf]
  BY <1>2 DEF LogStore
<1>5. trace_queue' = [trace_queue EXCEPT !.slots = [ss EXCEPT ![slot] = msg_buf]]
  BY <1>3, <1>4
<1>6. slot \in 1..MaxEntries
  <2>1. 1 \in 1..MaxEntries
    BY <1>3
  <2> QED
    BY <1>2, <1>3, <2>1, PlacesDiffer
<1>7. /\ trace_queue' \in [slots : [1..MaxEntries -> Message], state : {"alive"}]
      /\ trace_queue'.slots[slot] = msg_buf
      /\ \A i \in 1..MaxEntries : i # slot => trace_queue'.slots[i] = ss[i]
      /\ trace_queue'.state = "alive"
  <2> HIDE DEF slot, ss
  <2>1. [ss EXCEPT ![slot] = msg_buf] \in [1..MaxEntries -> Message]
    BY <1>2, <1>3
  <2>2. trace_queue'.slots = [ss EXCEPT ![slot] = msg_buf] /\ trace_queue'.state = "alive"
    BY <1>2, <1>3, <1>5
  <2> QED
    BY <1>2, <1>3, <1>5, <1>6, <2>1, <2>2
<1>8. /\ logger'[t].pc = "post" /\ logger'[t].message = logger[t].message
      /\ logger'[t].slot = slot
      /\ \A u \in Loggers : u # t => logger'[u] = logger[u] /\ logger'[u].pc = "idle"
      /\ logger' \in [Loggers -> Logger]
  <2>1. logger[t] \in Logger
    BY <1>2
  <2>2. [logger[t] EXCEPT !.pc = "post", !.slot = slot] \in Logger
    BY <1>2, <2>1 DEF Logger
  <2>3. logger' = [logger EXCEPT ![t] = [logger[t] EXCEPT !.pc = "post", !.slot = slot]]
    BY <1>1, <1>2, <2>1 DEF Logger
  <2>4. /\ logger'[t] = [logger[t] EXCEPT !.pc = "post", !.slot = slot]
        /\ \A u \in Loggers : u # t => logger'[u] = logger[u]
        /\ logger' \in [Loggers -> Logger]
    BY <1>2, <2>2, <2>3
  <2>5. /\ logger'[t].pc = "post" /\ logger'[t].message = logger[t].message
        /\ logger'[t].slot = slot
    BY <2>1, <2>4 DEF Logger
  <2>6. ASSUME NEW u \in Loggers, u # t
        PROVE  logger'[u] = logger[u] /\ logger'[u].pc = "idle"
    <3>1. logger[u].pc = "idle"
      BY <1>1, <2>6, OthersIdle DEF DefinedInv
    <3>2. logger'[u] = logger[u]
      BY <2>4, <2>6
    <3> QED
      BY <3>1, <3>2
  <2> QED
    BY <2>4, <2>5, <2>6, Zenon
<1> HIDE DEF n, slot, ss
<1>9. RingInv'
  BY <1>1 DEF DefinedInv, RingInv
<1>10. SlotsInv'
  <2>1. Held' = Held /\ Held \in 1..MaxEntries /\ Held <= n
    BY <1>1, <1>2, <1>3 DEF Held, n
  <2>2. ASSUME NEW j \in 1..Held PROVE Filled(j)'
    <3>1. j \in 1..MaxEntries
      BY <1>3, <2>1
    <3>2. CASE j = 1
      <4>1. n + 1 - j = n
        BY <1>3, <3>2
      <4>2. trace_queue'.slots[Place(next_index, j)] = traced[n + 1 - j]
        BY <1>2, <1>7, <3>2, <4>1
      <4> QED
        BY <1>1, <4>2 DEF Filled, Place, n
    <3>3. CASE j # 1
      <4>1. Place(next_index, j) \in 1..MaxEntries /\ Place(next_index, j) # slot
        BY <1>2, <1>3, <3>1, <3>3, PlacesDiffer
      <4>2. Filled(j)
        BY <1>2, <3>3 DEF DefinedInv, SlotsInv
      <4>3. trace_queue'.slots[Place(next_index, j)] = traced[n + 1 - j]
        BY <1>7, <4>1, <4>2 DEF Filled, ss, n
      <4> QED
        BY <1>1, <4>3 DEF Filled, Place, n
    <3> QED
      BY <3>2, <3>3
  <2> QED
    BY <1>7, <2>1, <2>2 DEF SlotsInv
<1>11. LoggerInv'
  <2>1. ASSUME NEW u \in Loggers PROVE Holds(u)'
    <3>1. CASE u = t
      <4>1. Holds(t)
        BY DEF DefinedInv, LoggerInv
      <4> QED
        BY <1>1, <1>2, <1>7, <1>8, <3>1, <4>1 DEF Holds, Place, n, slot
    <3>2. CASE u # t
      BY <1>8, <3>2, IdleHoldsNothingNext
    <3> QED
      BY <3>1, <3>2
  <2>2. \A u, v \in Loggers : logger'[u].pc # "idle" /\ logger'[v].pc # "idle" => u = v
    BY <1>8
  <2>3. library' = "up"
    BY <1>1, <1>2
  <2> QED
    BY <1>8, <2>1, <2>2, <2>3 DEF LoggerInv
<1>12. LifeInv'
  <2>1. trace_queue'.state = "alive" /\ library' = "up" /\ trace_queue' # NoQueue
    BY <1>1, <1>2, <1>7 DEF NoQueue
  <2> QED
    BY <1>1, <2>1 DEF DefinedInv, LifeInv, files
<1>13. FileInv'
  BY <1>1 DEF DefinedInv, FileInv, files, EndsWith
<1> QED
  BY <1>9, <1>10, <1>11, <1>12, <1>13 DEF DefinedInv

(* The message is output and the mutex released.                           *)
LEMMA PosttraceStep ==
    ASSUME DefinedInv, NEW t \in Loggers, Log_posttrace(t)
    PROVE  DefinedInv'
<1> DEFINE m == trace_queue.slots[logger[t].slot]
<1>1. /\ logger[t].pc = "post" /\ logger' = [logger EXCEPT ![t] = Idle]
      /\ UNCHANGED <<ring, levels, library, calls, lives>>
  BY DEF Log_posttrace
<1>2. library = "up" /\ trace_queue.state = "alive" /\ logger[t].slot = Place(next_index, 1)
  BY <1>1 DEF DefinedInv, LoggerInv, Holds
<1>3. m \in Message
  <2>1. MaxEntries \in Nat /\ 1 \in 1..MaxEntries /\ next_index \in 1..MaxEntries
    BY SettingsAssumption DEF DefinedInv, RingInv
  <2>2. logger[t].slot \in 1..MaxEntries
    BY <1>2, <2>1, PlacesDiffer
  <2> QED
    BY <1>2, <2>2 DEF DefinedInv, SlotsInv
<1>4. /\ msg_buf' \in Message
      /\ Log_output(m) \/ UNCHANGED files
  <2>1. msg_buf \in Message
    BY DEF DefinedInv, LifeInv
  <2>2. \/ /\ msg_buf' = (IF trace_destination # "none" THEN m ELSE msg_buf)
           /\ Log_output(m)
        \/ UNCHANGED <<msg_buf, files>>
    BY <1>2 DEF Log_posttrace
  <2> QED
    BY <1>3, <2>1, <2>2
<1> HIDE DEF m
<1>5. LoggerInv' /\ ~logging' /\ ~Unfilled'
  BY <1>1, LeavingStep DEF DefinedInv
<1>6. RingInv'
  BY <1>1 DEF DefinedInv, RingInv, ring
<1>7. SlotsInv'
  <2>1. ~Unfilled
    <3> SUFFICES ASSUME NEW u \in Loggers, logger[u].pc = "entry" PROVE FALSE
      BY DEF Unfilled
    <3>1. u # t
      BY <1>1
    <3> QED
      BY <1>1, <3>1, OthersIdle DEF DefinedInv
  <2> QED
    BY <1>1, <1>5, <2>1 DEF DefinedInv, SlotsInv, Held, Filled, Place, ring
<1>8. LifeInv'
  BY <1>1, <1>2, <1>4 DEF DefinedInv, LifeInv, ring
<1>9. FileInv'
  <2>1. CASE Log_output(m)
    BY <1>3, <2>1, OutputKeepsFiles DEF DefinedInv
  <2>2. CASE UNCHANGED files
    BY <2>2 DEF DefinedInv, FileInv, files, EndsWith
  <2> QED
    BY <1>4, <2>1, <2>2
<1> QED
  BY <1>5, <1>6, <1>7, <1>8, <1>9 DEF DefinedInv

-----------------------------------------------------------------------------
(* Setting the level, Log_initialize and Log_terminate                     *)

(* A step that leaves everything but the levels and counters as it is.     *)
LEMMA QuietStep ==
    ASSUME DefinedInv, UNCHANGED <<ring, files, msg_buf, logger, library, calls>>
    PROVE  DefinedInv'
<1>1. RingInv' /\ SlotsInv'
  BY DEF DefinedInv, RingInv, SlotsInv, Held, Filled, Place, Unfilled, ring
<1>2. LoggerInv'
  BY DEF DefinedInv, LoggerInv, Holds, Place, logging, ring
<1>3. LifeInv'
  BY DEF DefinedInv, LifeInv, ring, files
<1>4. FileInv'
  BY DEF DefinedInv, FileInv, EndsWith, files
<1> QED
  BY <1>1, <1>2, <1>3, <1>4 DEF DefinedInv

(* A step beside which no thread is in Log keeps what is known of them.    *)
LEMMA NobodyLogs ==
    ASSUME LoggerInv, ~logging, logger' = logger
    PROVE  LoggerInv' /\ ~Unfilled'
<1>1. \A t \in Loggers : logger'[t].pc = "idle"
  BY DEF logging
<1>2. \A t \in Loggers : Holds(t)'
  BY <1>1, IdleHoldsNothingNext
<1> QED
  BY <1>1, <1>2 DEF LoggerInv, logging, Unfilled

(* The ring is allocated: the one before was forgotten.                    *)
LEMMA QueueStep ==
    ASSUME DefinedInv, ~undefined', InitializeQueue
    PROVE  DefinedInv'
<1>0. /\ MaxEntries \in Nat /\ MaxEntries >= 1 /\ NoMessage \in Message
      /\ <<>> \in Seq(Message) /\ Len(<<>>) = 0
  BY SettingsAssumption DEF NoMessage, Message, INVALID_LEVEL
<1>1. /\ library = "down" /\ library' = "initializing" /\ ~logging
      /\ trace_queue' = [slots |-> [i \in 1..MaxEntries |-> NoMessage], state |-> "alive"]
      /\ file' = (IF trace_destination' = "file" THEN <<>> ELSE file)
      /\ traced' = <<>> /\ output' = <<>>
      /\ UNCHANGED <<start_index, next_index, lines_written, backup, msg_buf, logger, calls>>
  BY DEF InitializeQueue
<1>2. traced = <<>>
  BY <1>1 DEF DefinedInv, LifeInv
<1>3. RingInv'
  BY <1>1, <1>2 DEF DefinedInv, RingInv
<1>4. SlotsInv'
  <2>1. Held' = 0
    BY <1>0, <1>1 DEF Held
  <2>2. [i \in 1..MaxEntries |-> NoMessage] \in [1..MaxEntries -> Message]
    BY <1>0
  <2>3. trace_queue' \in [slots : [1..MaxEntries -> Message], state : {"alive"}]
    BY <1>1, <2>2
  <2> QED
    BY <2>1, <2>3 DEF SlotsInv
<1>5. LoggerInv'
  BY <1>1, NobodyLogs DEF DefinedInv
<1>6. LifeInv'
  BY <1>1 DEF DefinedInv, LifeInv, NoQueue
<1>7. FileInv'
  <2>1. /\ file' \in Seq(Message) /\ Len(file') <= lines_written
        /\ trace_destination' = "file" => file' = <<>>
    BY <1>0, <1>1 DEF DefinedInv, FileInv
  <2>2. EndsWith(<<>>, <<>>)
    BY <1>0, EndsWithNothing
  <2>3. trace_destination' = "file" => EndsWith(output, file)' /\ ~(Len(output') > Len(file'))
    BY <1>0, <1>1, <2>1, <2>2 DEF EndsWith
  <2> QED
    BY <1>0, <1>1, <2>1, <2>3 DEF DefinedInv, FileInv
<1> QED
  BY <1>3, <1>4, <1>5, <1>6, <1>7 DEF DefinedInv

(* Without memory for the ring there is none, and no file.                 *)
LEMMA NoMemoryStep ==
    ASSUME DefinedInv, ~undefined', InitializeNoMemory
    PROVE  DefinedInv'
<1>1. /\ library = "down" /\ library' = "up" /\ output' = <<>>
      /\ UNCHANGED <<trace_queue, trace_destination, file, start_index, next_index, traced,
                     lines_written, backup, msg_buf, logger, calls>>
  BY DEF InitializeNoMemory
<1>2. trace_destination = "none" /\ trace_queue = NoQueue
  BY <1>1 DEF DefinedInv, LifeInv
<1>3. RingInv' /\ SlotsInv'
  BY <1>1 DEF DefinedInv, RingInv, SlotsInv, Held, Filled, Place, Unfilled
<1>4. LoggerInv'
  <2>1. \A t \in Loggers : Holds(t)'
    BY <1>1 DEF DefinedInv, LoggerInv, Holds, Place
  <2> QED
    BY <1>1, <2>1 DEF DefinedInv, LoggerInv
<1>5. LifeInv'
  BY <1>1, <1>2 DEF DefinedInv, LifeInv
<1>6. FileInv'
  <2>1. <<>> \in Seq(Message)
    OBVIOUS
  <2> QED
    BY <1>1, <1>2, <2>1 DEF DefinedInv, FileInv
<1> QED
  BY <1>3, <1>4, <1>5, <1>6 DEF DefinedInv

(* The header is output.                                                   *)
LEMMA HeaderStep ==
    ASSUME DefinedInv, InitializeHeader
    PROVE  DefinedInv'
<1>0. Header \in Message
  BY DEF Header, Message, LOG_ERROR
<1>1. /\ library = "initializing" /\ library' = "up" /\ msg_buf' = Header
      /\ Log_output(Header) /\ UNCHANGED <<ring, levels, logger, calls>>
  BY DEF InitializeHeader
<1>2. ~logging /\ trace_queue.state = "alive"
  BY <1>1 DEF DefinedInv, LoggerInv, LifeInv
<1>3. RingInv' /\ SlotsInv'
  BY <1>1 DEF DefinedInv, RingInv, SlotsInv, Held, Filled, Place, Unfilled, ring
<1>4. LoggerInv'
  BY <1>1, <1>2, NobodyLogs DEF DefinedInv
<1>5. LifeInv'
  BY <1>0, <1>1, <1>2 DEF DefinedInv, LifeInv, ring
<1>6. FileInv'
  BY <1>0, <1>1, OutputKeepsFiles DEF DefinedInv
<1> QED
  BY <1>3, <1>4, <1>5, <1>6 DEF DefinedInv

(* The ring is freed.                                                      *)
LEMMA FreeStep ==
    ASSUME DefinedInv, ~undefined', TerminateFree
    PROVE  DefinedInv'
<1>1. /\ library = "up" /\ library' = "terminating" /\ ~logging
      /\ trace_queue' = [trace_queue EXCEPT !.state = IF @ = "null" THEN "null" ELSE "freed"]
      /\ UNCHANGED <<start_index, next_index, traced, files, msg_buf, logger, calls>>
  BY DEF TerminateFree
<1>2. \/ trace_queue = NoQueue /\ trace_queue' = NoQueue
      \/ trace_queue.state = "alive" /\ trace_queue'.state = "freed"
  <2>1. CASE trace_queue = NoQueue
    BY <1>1, <2>1 DEF NoQueue
  <2>2. CASE trace_queue.state = "alive"
    <3>1. trace_queue \in [slots : [1..MaxEntries -> Message], state : {"alive"}]
      BY <2>2 DEF DefinedInv, SlotsInv
    <3> QED
      BY <1>1, <2>2, <3>1
  <2> QED
    BY <1>1, <2>1, <2>2 DEF DefinedInv, LifeInv
<1>3. RingInv'
  BY <1>1 DEF DefinedInv, RingInv
<1>4. SlotsInv'
  BY <1>2 DEF SlotsInv, NoQueue
<1>5. LoggerInv'
  BY <1>1, NobodyLogs DEF DefinedInv
<1>6. LifeInv'
  <2>1. trace_queue' = NoQueue => trace_queue = NoQueue
    BY <1>2 DEF NoQueue
  <2> QED
    BY <1>1, <1>2, <2>1 DEF DefinedInv, LifeInv, files
<1>7. FileInv'
  BY <1>1 DEF DefinedInv, FileInv, EndsWith, files
<1> QED
  BY <1>3, <1>4, <1>5, <1>6, <1>7 DEF DefinedInv

(* The rest is reset, and the lines of the file stay counted.              *)
LEMMA ResetStep ==
    ASSUME DefinedInv, TerminateReset
    PROVE  DefinedInv'
<1>0. MaxEntries \in Nat /\ MaxEntries >= 1 /\ <<>> \in Seq(Message) /\ Len(<<>>) = 0
  BY SettingsAssumption
<1>1. /\ library = "terminating" /\ library' = "down"
      /\ trace_queue' = NoQueue /\ start_index' = 0 /\ next_index' = 1 /\ traced' = <<>>
      /\ trace_destination' = "none"
      /\ UNCHANGED <<lines_written, file, backup, output, msg_buf, logger, calls>>
  BY DEF TerminateReset
<1>2. ~logging
  BY <1>1 DEF DefinedInv, LoggerInv
<1>3. RingInv'
  BY <1>0, <1>1 DEF RingInv
<1>4. SlotsInv'
  BY <1>1 DEF SlotsInv, NoQueue
<1>5. LoggerInv'
  BY <1>1, <1>2, NobodyLogs DEF DefinedInv
<1>6. LifeInv'
  BY <1>1 DEF DefinedInv, LifeInv
<1>7. FileInv'
  BY <1>1 DEF DefinedInv, FileInv
<1> QED
  BY <1>3, <1>4, <1>5, <1>6, <1>7 DEF DefinedInv

-----------------------------------------------------------------------------
(* The theorems                                                            *)

(* What became undefined stays so.                                         *)
LEMMA UndefinedStays ==
    ASSUME [LogNext]_logVars, undefined PROVE undefined'
<1>1. CASE UNCHANGED logVars
  BY <1>1 DEF logVars
<1>2. ASSUME NEW t \in Loggers,
             LogFormat(t) \/ LogNoQueue(t) \/ Log_pretrace(t) \/ LogStore(t) \/ Log_posttrace(t)
      PROVE  undefined'
  BY <1>2 DEF LogFormat, LogNoQueue, Log_pretrace, LogStore, Log_posttrace
<1>3. ASSUME NEW level \in Levels, Log_setTraceLevel(level) PROVE undefined'
  BY <1>3 DEF Log_setTraceLevel
<1>4. ASSUME InitializeQueue \/ InitializeNoMemory \/ InitializeHeader \/ TerminateFree
             \/ TerminateReset
      PROVE  undefined'
  BY <1>4 DEF InitializeQueue, InitializeNoMemory, InitializeHeader, TerminateFree, TerminateReset
<1> QED
  BY <1>1, <1>2, <1>3, <1>4 DEF LogNext

(* Every step keeps the invariant.                                         *)
LEMMA LogStep ==
    ASSUME LogInv, [LogNext]_logVars PROVE LogInv'
<1> SUFFICES ASSUME ~undefined' PROVE DefinedInv'
  BY DEF LogInv
<1>0. DefinedInv
  BY UndefinedStays DEF LogInv
<1>1. CASE UNCHANGED logVars
  BY <1>0, <1>1, QuietStep DEF logVars
<1>2. ASSUME NEW t \in Loggers, LogFormat(t) PROVE DefinedInv'
  BY <1>0, <1>2, FormatStep
<1>3. ASSUME NEW t \in Loggers, LogNoQueue(t) PROVE DefinedInv'
  BY <1>0, <1>3, NoQueueStep
<1>4. ASSUME NEW t \in Loggers, Log_pretrace(t) PROVE DefinedInv'
  BY <1>0, <1>4, PretraceStep
<1>5. ASSUME NEW t \in Loggers, LogStore(t) PROVE DefinedInv'
  BY <1>0, <1>5, StoreStep
<1>6. ASSUME NEW t \in Loggers, Log_posttrace(t) PROVE DefinedInv'
  BY <1>0, <1>6, PosttraceStep
<1>7. ASSUME NEW level \in Levels, Log_setTraceLevel(level) PROVE DefinedInv'
  BY <1>0, <1>7, QuietStep DEF Log_setTraceLevel
<1>8. CASE InitializeQueue
  BY <1>0, <1>8, QueueStep
<1>9. CASE InitializeNoMemory
  BY <1>0, <1>9, NoMemoryStep
<1>10. CASE InitializeHeader
  BY <1>0, <1>10, HeaderStep
<1>11. CASE TerminateFree
  BY <1>0, <1>11, FreeStep
<1>12. CASE TerminateReset
  BY <1>0, <1>12, ResetStep
<1> QED
  BY <1>1, <1>2, <1>3, <1>4, <1>5, <1>6, <1>7, <1>8, <1>9, <1>10, <1>11, <1>12 DEF LogNext

(* An index that has passed the end once.                                  *)
LEMMA ModOnce ==
    ASSUME NEW n \in Nat \ {0}, NEW a \in Nat, a < n + n
    PROVE  a % n = IF a < n THEN a ELSE a - n
<1>1. a < n => a % n = a
  OBVIOUS
<1>2. n <= a => a % n = a - n
  OBVIOUS
<1> QED
  BY <1>1, <1>2

(* The ring's entries, from the oldest on, are the last messages traced.   *)
LEMMA RingIsLast ==
    ASSUME DefinedInv, ~logging, trace_queue.state = "alive"
    PROVE  ringContents = lastOf(traced, MaxEntries)
<1> DEFINE n == Len(traced)
           first == IF n > MaxEntries THEN n - MaxEntries + 1 ELSE 1
           place(k) == ((start_index + k - 2) % MaxEntries) + 1
<1>1. /\ MaxEntries \in Nat /\ MaxEntries >= 1 /\ next_index \in 1..MaxEntries
      /\ traced \in Seq(Message) /\ n \in Nat /\ start_index \in Nat
      /\ n = 0 => start_index = 0 /\ next_index = 1
      /\ n \in 1..(MaxEntries - 1) => start_index = 1 /\ next_index = n + 1
      /\ n >= MaxEntries => start_index = next_index
  BY LenProperties, SettingsAssumption DEF DefinedInv, RingInv
<1>2. \A j \in 1..Held : Filled(j)
  <2>1. ~Unfilled
    BY DEF logging, Unfilled
  <2> QED
    BY <2>1 DEF DefinedInv, SlotsInv
<1>3. ringContents = [k \in 1..Held |-> trace_queue.slots[place(k)]]
  <2> DEFINE count == IF start_index = 0 THEN 0
                      ELSE IF start_index < next_index THEN next_index - start_index
                      ELSE MaxEntries - start_index + next_index
  <2>1. Held = IF n < MaxEntries THEN n ELSE MaxEntries
    BY DEF Held
  <2>2. count = Held
    <3> HIDE DEF n
    <3> QED
      BY <1>1, <2>1
  <2>3. ringContents = [k \in 1..count |-> trace_queue.slots[place(k)]]
    BY DEF ringContents
  <2> HIDE DEF count, place
  <2> QED
    BY <2>2, <2>3
<1>4. ASSUME NEW k \in 1..Held
      PROVE  trace_queue.slots[place(k)] = traced[first - 1 + k]
  <2>1. Held = IF n < MaxEntries THEN n ELSE MaxEntries
    BY DEF Held
  <2> HIDE DEF n, Held
  <2>2. Held - k + 1 \in 1..Held /\ n + 1 - (Held - k + 1) = first - 1 + k
    BY <1>1, <2>1
  <2>3. place(k) = Place(next_index, Held - k + 1)
    <3>1. start_index \in 1..MaxEntries /\ k \in 1..MaxEntries
      BY <1>1, <2>1
    <3>2. (start_index + k - 2) % MaxEntries =
            IF start_index + k - 2 < MaxEntries THEN start_index + k - 2
            ELSE start_index + k - 2 - MaxEntries
      <4>1. /\ MaxEntries \in Nat \ {0} /\ start_index + k - 2 \in Nat
            /\ start_index + k - 2 < MaxEntries + MaxEntries
        BY <1>1, <3>1
      <4>2. PICK a \in Nat : a = start_index + k - 2
        BY <4>1
      <4>3. a % MaxEntries = IF a < MaxEntries THEN a ELSE a - MaxEntries
        BY <4>1, <4>2, ModOnce
      <4> QED
        BY <1>1, <3>1, <4>2, <4>3
    <3>3. CASE n < MaxEntries
      BY <1>1, <2>1, <3>1, <3>2, <3>3 DEF Place
    <3>4. CASE n >= MaxEntries
      BY <1>1, <2>1, <3>1, <3>2, <3>4 DEF Place
    <3> QED
      BY <1>1, <3>3, <3>4
  <2>4. Filled(Held - k + 1)
    BY <1>2, <2>2
  <2> QED
    BY <2>2, <2>3, <2>4 DEF Filled, n
<1>5. lastOf(traced, MaxEntries) = [k \in 1..Held |-> traced[first - 1 + k]]
  <2> DEFINE last == SubSeq(traced, first, n)
  <2>1. lastOf(traced, MaxEntries) = last
    BY DEF lastOf
  <2>2. Held = IF n < MaxEntries THEN n ELSE MaxEntries
    BY DEF Held
  <2>3. \A i \in 1..n : traced[i] \in Message
    BY <1>1, ElementOfSeq
  <2> HIDE DEF n, Held
  <2>4. /\ first \in 1..(n + 1) /\ Held = n - first + 1 /\ Held \in Nat
        /\ \A i \in first..n : i \in 1..n
        /\ \A k \in 1..Held : first + k - 1 = first - 1 + k
    BY <1>1, <2>2
  <2> HIDE DEF first
  <2>5. /\ last \in Seq(Message) /\ Len(last) = Held
        /\ \A k \in 1..(n - first + 1) : last[k] = traced[first + k - 1]
    <3>1. \A i \in first..n : traced[i] \in Message
      BY <2>3, <2>4
    <3>2. first \in Int /\ n \in Int /\ (IF first <= n THEN n - first + 1 ELSE 0) = Held
      BY <1>1, <2>4
    <3> QED
      BY <3>1, <3>2, SubSeqProperties
  <2>6. \A k \in 1..Held : last[k] = traced[first - 1 + k]
    BY <2>4, <2>5
  <2> HIDE DEF last
  <2>7. last = [k \in 1..Held |-> last[k]]
    BY <2>5
  <2> QED
    BY <2>1, <2>6, <2>7
<1> HIDE DEF place, first
<1> QED
  BY <1>3, <1>4, <1>5

(* What holds as long as Log runs beside neither of the two.               *)
THEOREM LogInvariant ==
    LogSpec => []LogInv
<1>1. LogInit => LogInv
  BY InitDefined DEF LogInv
<1>2. LogInv /\ [LogNext]_logVars => LogInv'
  BY LogStep
<1> QED
  BY <1>1, <1>2, PTL DEF LogSpec

(* Whatever the number of threads and the size of the ring and of the file,*)
(* the ring holds the last messages traced, in order, and the file with    *)
(* its backup the last lines written (Log.c:188-332).                      *)
THEOREM RingHoldsLast ==
    LogSpec => []LogHoldsLast
<1>1. LogInv => LogHoldsLast
  <2> SUFFICES ASSUME DefinedInv, ~undefined PROVE LogHoldsLast
    BY DEF LogInv, LogHoldsLast
  <2>1. ~logging /\ trace_queue.state = "alive" =>
            ringContents = lastOf(traced, MaxEntries)
    BY RingIsLast
  <2>2. /\ file \in Seq(Message) /\ backup \in Seq(Message) /\ output \in Seq(Message)
        /\ MaxLines \in Nat /\ lines_written \in Nat
        /\ Len(file) <= lines_written /\ lines_written < MaxLines /\ Len(backup) <= MaxLines
    BY SettingsAssumption DEF DefinedInv, FileInv
  <2>3. Len(file) < MaxLines
    BY <2>2
  <2>4. trace_destination = "file" =>
            /\ IsSuffix(file, output)
            /\ Len(output) > Len(file) => backup # <<>> /\ IsSuffix(backup \o file, output)
    <3> SUFFICES ASSUME trace_destination = "file"
                 PROVE  /\ IsSuffix(file, output)
                        /\ Len(output) > Len(file) =>
                            backup # <<>> /\ IsSuffix(backup \o file, output)
      OBVIOUS
    <3>1. /\ EndsWith(output, file)
          /\ Len(output) > Len(file) => backup # <<>> /\ EndsWith(output, backup \o file)
      BY DEF DefinedInv, FileInv
    <3>2. backup \o file \in Seq(Message)
      BY <2>2
    <3> QED
      BY <2>2, <3>1, <3>2, EndIsSuffix
  <2> QED
    BY <2>1, <2>2, <2>3, <2>4 DEF LogHoldsLast
<1> QED
  BY <1>1, LogInvariant, PTL
=============================================================================
