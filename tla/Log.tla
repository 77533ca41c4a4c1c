-------------------------------- MODULE Log ---------------------------------
(***************************************************************************)
(* Log.c: messages go into a ring in memory and, by their level, into a    *)
(* trace file that is renamed when it is full.  Log takes log_mutex;       *)
(* Log_initialize and Log_terminate, called when the first client is       *)
(* created and the last one destroyed, do not, and the run thread logs on. *)
(* A message is [number, level].  What follows on undefined behaviour, when*)
(* Log runs beside one of the two, is not explored.                        *)
(***************************************************************************)
EXTENDS Naturals, Sequences, SequencesExt

CONSTANTS
    Loggers,        \* the threads that call Log
    MaxEntries,     \* trace_settings.max_trace_entries, 400 in the code
    MaxLines,       \* max_lines_per_file, 1000 in the code
    MaxMessages,    \* bound: calls of Log
    MaxLives        \* bound: calls of Log_initialize

\* The ring and a file have room for something (Log.c:47-52, 78, 131-133).
ASSUME SettingsAssumption == MaxEntries \in Nat \ {0} /\ MaxLines \in Nat \ {0}

\* Log.h; a level of 0 stands for INVALID_LEVEL.
INVALID_LEVEL  == 0
TRACE_MINIMUM  == 3
TRACE_PROTOCOL == 4
LOG_ERROR      == 5
LOG_SEVERE     == 6
Levels == {TRACE_PROTOCOL, LOG_SEVERE}   \* of messages, and set by the application

VARIABLES
    trace_queue,            \* [slots, state], state: "null", "alive" or "freed"
    start_index,            \* one more than in the code: 0 is -1 there
    next_index,             \* the same
    trace_level, trace_output_level,
    trace_destination,      \* "none", "stdout" or "file"
    lines_written, file, backup,
    msg_buf,
    logger,                 \* each thread: [pc, message, slot]
    library,                \* "down", "initializing", "up" or "terminating"
    calls, lives,           \* bounded counters
    traced,                 \* history: what was put into the ring since it was allocated
    output,                 \* history: what was written since the file was opened
    undefined               \* history: Log ran beside Log_initialize or Log_terminate,
                            \* or the queue was freed and not forgotten

ring == <<trace_queue, start_index, next_index, traced>>
files == <<trace_destination, lines_written, file, backup, output>>
levels == <<trace_level, trace_output_level>>
logVars == <<ring, files, levels, msg_buf, logger, library, calls, lives, undefined>>

NoMessage == [number |-> 0, level |-> INVALID_LEVEL]
Header == [number |-> 0, level |-> LOG_ERROR]
Idle == [pc |-> "idle", message |-> NoMessage, slot |-> 0]
NoQueue == [slots |-> <<>>, state |-> "null"]

LogInit ==
    /\ trace_queue = NoQueue /\ start_index = 0 /\ next_index = 1 /\ traced = <<>>
    /\ trace_level = LOG_ERROR /\ trace_output_level = INVALID_LEVEL
    /\ trace_destination = "none" /\ lines_written = 0
    /\ file = <<>> /\ backup = <<>> /\ output = <<>>
    /\ msg_buf = NoMessage /\ logger = [t \in Loggers |-> Idle]
    /\ library = "down" /\ calls = 0 /\ lives = 0 /\ undefined = FALSE

\* log_mutex is held.
logging == \E t \in Loggers : logger[t].pc # "idle"

-----------------------------------------------------------------------------
(* Writing a line                                                          *)

\* Mutant: a file that is full is opened again without having been renamed.
Log_output_NoRename(line) ==
    /\ output' = IF trace_destination = "file" THEN Append(output, line) ELSE output
    /\ IF trace_destination = "file" /\ lines_written + 1 >= MaxLines
       THEN /\ file' = <<>> /\ lines_written' = 0
            /\ trace_destination' \in {"file", "stdout"}
       ELSE /\ file' = IF trace_destination = "file" THEN Append(file, line) ELSE file
            /\ lines_written' = IF trace_destination = "file" THEN lines_written + 1
                                ELSE lines_written
            /\ UNCHANGED trace_destination
    /\ UNCHANGED backup

\* Log_output: a file that is full becomes the backup, and the next one may not
\* be opened.
Log_output(line) ==
    /\ output' = IF trace_destination = "file" THEN Append(output, line) ELSE output
    /\ IF trace_destination = "file" /\ lines_written + 1 >= MaxLines
       THEN /\ backup' = Append(file, line) /\ file' = <<>>
            /\ lines_written' = 0
            /\ trace_destination' \in {"file", "stdout"}
       ELSE /\ file' = IF trace_destination = "file" THEN Append(file, line) ELSE file
            /\ lines_written' = IF trace_destination = "file" THEN lines_written + 1
                                ELSE lines_written
            /\ UNCHANGED <<backup, trace_destination>>

-----------------------------------------------------------------------------
(* Log                                                                     *)

set(t, pc, slot) == logger' = [logger EXCEPT ![t].pc = pc, ![t].slot = slot]

\* A message is formatted into msg_buf with the mutex held; one below the trace
\* level is ignored.
LogFormat(t) ==
    /\ logger[t].pc = "idle" /\ calls < MaxMessages /\ ~logging /\ ~undefined
    /\ \E level \in {l \in Levels : l >= trace_level} :
        LET message == [number |-> calls + 1, level |-> level]
        IN  /\ msg_buf' = message
            /\ logger' = [logger EXCEPT ![t] =
                            [pc |-> "format", message |-> message, slot |-> 0]]
    /\ undefined' = (library \in {"initializing", "terminating"})
    /\ calls' = calls + 1
    /\ UNCHANGED <<ring, files, levels, library, lives>>

\* Log_trace returns at once when there is no queue.
LogNoQueue(t) ==
    /\ logger[t].pc = "format" /\ trace_queue = NoQueue
    /\ logger' = [logger EXCEPT ![t] = Idle]
    /\ UNCHANGED <<ring, files, levels, msg_buf, library, calls, lives, undefined>>

after(i) == IF i = MaxEntries THEN 1 ELSE i + 1

\* The oldest entry when the next one has been taken.
oldest == CASE next_index = start_index -> after(start_index)
            [] start_index = 0 -> 1
            [] OTHER -> start_index

\* Log_pretrace takes the next entry of the ring.
Log_pretrace(t) ==
    /\ logger[t].pc = "format" /\ trace_queue # NoQueue
    /\ set(t, "entry", next_index)
    /\ start_index' = oldest /\ next_index' = after(next_index)
    /\ traced' = Append(traced, logger[t].message)
    /\ UNCHANGED <<trace_queue, files, levels, msg_buf, library, calls, lives, undefined>>

\* The entry is filled from msg_buf.
LogStore(t) ==
    /\ logger[t].pc = "entry"
    /\ trace_queue' = IF trace_queue.state = "alive"
                      THEN [trace_queue EXCEPT !.slots[logger[t].slot] = msg_buf]
                      ELSE trace_queue
    /\ set(t, "post", logger[t].slot)
    /\ UNCHANGED <<start_index, next_index, traced, files, levels, msg_buf, library,
                   calls, lives, undefined>>

\* Which messages are output.
output_level == IF trace_output_level = INVALID_LEVEL THEN trace_level ELSE trace_output_level

\* Log_posttrace formats the entry into msg_buf and outputs it; the mutex is
\* released.
Log_posttrace(t) ==
    /\ logger[t].pc = "post"
    /\ LET m == IF trace_queue.state = "alive" THEN trace_queue.slots[logger[t].slot] ELSE NoMessage
       IN  IF logger[t].message.level >= output_level
           THEN /\ msg_buf' = IF trace_destination # "none" THEN m ELSE msg_buf
                /\ Log_output(m)
           ELSE UNCHANGED <<msg_buf, files>>
    /\ logger' = [logger EXCEPT ![t] = Idle]
    /\ UNCHANGED <<ring, levels, library, calls, lives, undefined>>

\* Log_setTraceLevel: the lowest the ring can go is LOG_ERROR.
Log_setTraceLevel(level) ==
    /\ ~undefined
    /\ trace_level' = IF level <= LOG_ERROR THEN level ELSE trace_level
    /\ trace_output_level' = level
    /\ UNCHANGED <<ring, files, msg_buf, logger, library, calls, lives, undefined>>

-----------------------------------------------------------------------------
(* Log_initialize and Log_terminate                                        *)

\* What MQTT_C_CLIENT_TRACE_LEVEL sets: one level or the other.
environmentLevel ==
    \/ UNCHANGED levels
    \/ trace_level' = TRACE_MINIMUM /\ UNCHANGED trace_output_level
    \/ trace_output_level' \in {TRACE_PROTOCOL, LOG_ERROR} /\ UNCHANGED trace_level

\* The queue is allocated and the file opened, or standard output is taken, or
\* no destination is wanted.
InitializeQueue ==
    /\ library = "down" /\ lives < MaxLives /\ ~undefined
    /\ trace_queue' = [slots |-> [i \in 1..MaxEntries |-> NoMessage], state |-> "alive"]
    /\ \E destination \in {"none", "stdout", "file"} :
        /\ trace_destination' = destination
        /\ file' = IF destination = "file" THEN <<>> ELSE file
    /\ environmentLevel
    /\ traced' = <<>> /\ output' = <<>>
    /\ library' = "initializing" /\ lives' = lives + 1
    /\ undefined' = logging
    /\ UNCHANGED <<start_index, next_index, lines_written, backup, msg_buf, logger, calls>>

\* There is no memory for the queue; or there is none for the name of the file,
\* when the queue is freed and trace_queue still points to it.
InitializeNoMemory ==
    /\ library = "down" /\ lives < MaxLives /\ ~undefined
    /\ \/ UNCHANGED <<trace_queue, trace_destination, file, undefined>>
       \/ /\ trace_queue' = [slots |-> <<>>, state |-> "freed"]
          /\ trace_destination' = "file" /\ file' = <<>>
          /\ undefined' = TRUE
    /\ library' = "up" /\ lives' = lives + 1 /\ output' = <<>>
    /\ UNCHANGED <<start_index, next_index, traced, lines_written, backup, levels,
                   msg_buf, logger, calls>>

\* The header is written through msg_buf; one line stands for it.
InitializeHeader ==
    /\ library = "initializing"
    /\ msg_buf' = Header /\ Log_output(Header)
    /\ library' = "up"
    /\ UNCHANGED <<ring, levels, logger, calls, lives, undefined>>

TerminateFree ==
    /\ library = "up" /\ ~undefined
    /\ trace_queue' = [trace_queue EXCEPT !.state = IF @ = "null" THEN "null" ELSE "freed"]
    /\ library' = "terminating"
    /\ undefined' = logging
    /\ UNCHANGED <<start_index, next_index, traced, files, levels, msg_buf, logger,
                   calls, lives>>

\* The file is closed; its lines stay counted.
TerminateReset ==
    /\ library = "terminating"
    /\ trace_queue' = NoQueue /\ start_index' = 0 /\ next_index' = 1 /\ traced' = <<>>
    /\ trace_destination' = "none"
    /\ trace_output_level' = INVALID_LEVEL
    /\ library' = "down"
    /\ UNCHANGED <<lines_written, file, backup, output, trace_level, msg_buf, logger,
                   calls, lives, undefined>>

LogNext ==
    \/ \E t \in Loggers : \/ LogFormat(t) \/ LogNoQueue(t) \/ Log_pretrace(t)
                          \/ LogStore(t) \/ Log_posttrace(t)
    \/ \E level \in Levels : Log_setTraceLevel(level)
    \/ InitializeQueue \/ InitializeNoMemory \/ InitializeHeader \/ TerminateFree \/ TerminateReset

LogSpec == LogInit /\ [][LogNext]_logVars

-----------------------------------------------------------------------------
(* Properties                                                              *)

lastOf(s, n) == SubSeq(s, IF Len(s) > n THEN Len(s) - n + 1 ELSE 1, Len(s))

\* What the ring holds, from its oldest entry on.
ringContents ==
    LET count == IF start_index = 0 THEN 0
                 ELSE IF start_index < next_index THEN next_index - start_index
                 ELSE MaxEntries - start_index + next_index
    IN  [k \in 1..count |-> trace_queue.slots[((start_index + k - 2) % MaxEntries) + 1]]

\* When no thread is in the middle of Log the ring holds the last messages that
\* were traced, in order, each with its own text, through every wrap, also for a
\* queue allocated anew.  The trace file is never longer than its limit, and with
\* the backup it holds the last lines that were written, none lost or doubled by
\* the renaming.  Both, unless Log ran beside Log_initialize or Log_terminate,
\* which do not take log_mutex (Log.c:188-209, 239-254, 282-301, 316-332).
LogHoldsLast ==
    ~undefined =>
        /\ ~logging /\ trace_queue.state = "alive" =>
            ringContents = lastOf(traced, MaxEntries)
        /\ Len(file) < MaxLines /\ Len(backup) <= MaxLines
        /\ trace_destination = "file" =>
            /\ IsSuffix(file, output)
            /\ Len(output) > Len(file) => backup # <<>> /\ IsSuffix(backup \o file, output)
=============================================================================
