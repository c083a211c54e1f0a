------------------------------ MODULE LogFile ------------------------------
(***************************************************************************)
(* Where the records go (src/Loggers/LogFile.cpp, FileUtil.cpp): the       *)
(* backend of AsyncLogger appends each buffer to a LogFile, which counts   *)
(* what it wrote and rolls over to a new file.  A file is named after the  *)
(* second it is opened in, and opened for appending.                       *)
(*                                                                         *)
(* A byte is a record here.  Time passes between two appends, and only the *)
(* seconds in which append looks at the clock matter.  The disk does not   *)
(* fail; flushing, which changes no file's contents, is left out.          *)
(***************************************************************************)
EXTENDS AsyncLogger

CONSTANTS
    RollSize,         \* rollSize
    CheckInterval,    \* checkInterval (1024)
    RollPerSeconds,   \* a day
    Seconds           \* bound: the seconds in which the clock is read

ASSUME FileAssumption ==
    /\ RollSize \in Nat \ {0} /\ CheckInterval \in Nat \ {0}
    /\ RollPerSeconds \in Nat /\ RollPerSeconds > 1
    /\ Seconds \subseteq Nat /\ \A s \in Seconds : s > RollPerSeconds

VARIABLES
    log,   \* the LogFile; files holds the contents of every file it opened
    now    \* when the clock was last read

logVars == <<log, now>>
fvars == <<vars, logVars>>

\* Mutant: the new file is opened for writing, not for appending.
rollTruncates(l, s) ==
    IF s > l.startOfPeriod
    THEN [l EXCEPT !.startOfPeriod = s - (s % RollPerSeconds), !.name = s, !.writtenBytes = 0,
                   !.again = IF s = l.name THEN @ \cup {s} ELSE @,
                   !.files = [n \in DOMAIN @ \cup {s} |-> IF n = s THEN <<>> ELSE @[n]]]
    ELSE [l EXCEPT !.again = @ \cup {s}]

\* AppendFile::AppendFile: what the file holds already stays.
opened(files, s) ==
    [n \in DOMAIN files \cup {s} |-> IF n \in DOMAIN files THEN files[n] ELSE <<>>]

\* again: history, the files rolled over to from themselves, or not left when they
\* were full, since less than a second had passed.
roll(l, s) ==
    IF s > l.startOfPeriod
    THEN [l EXCEPT !.startOfPeriod = s - (s % RollPerSeconds), !.name = s, !.writtenBytes = 0,
                   !.again = IF s = l.name THEN @ \cup {s} ELSE @,
                   !.files = opened(@, s)]
    ELSE [l EXCEPT !.again = @ \cup {s}]

FInit ==
    /\ Init
    /\ now \in Seconds
    /\ log = roll([startOfPeriod |-> 0, count |-> 0, name |-> 0, writtenBytes |-> 0,
                   again |-> {}, files |-> << >>], now)

\* AppendFile::append
written(l, logs) ==
    [l EXCEPT !.files[l.name] = @ \o logs, !.writtenBytes = @ + Len(logs)]

\* Mutant: the size is looked at every checkInterval appends only.
appendSeldom(l, logs, s) ==
    LET w == [written(l, logs) EXCEPT !.count = (@ + 1) % CheckInterval]
    IN  IF w.count = 0 /\ w.writtenBytes >= RollSize THEN roll(w, s) ELSE w

\* append_impl at second s.
append(l, logs, s) ==
    LET w == written(l, logs)
        d == [w EXCEPT !.count = (@ + 1) % CheckInterval]
    IN  IF w.writtenBytes >= RollSize THEN roll(w, s)
        ELSE IF d.count = 0 /\ s \div RollPerSeconds >= d.startOfPeriod THEN roll(d, s)
        ELSE d

\* The clock at each append of a round; it does not go back.
Clocks(n) ==
    {c \in [1..n -> {s \in Seconds : s >= now}] : \A i \in 1..n-1 : c[i] <= c[i + 1]}

\* What BackendWrite does to the files: one append for each buffer.
WriteFiles ==
    \E c \in Clocks(Len(buffersToWrite)) :
        LET appended[i \in 0..Len(buffersToWrite)] ==
                IF i = 0 THEN log ELSE append(appended[i - 1], buffersToWrite[i], c[i])
        IN  log' = appended[Len(buffersToWrite)] /\ now' = c[Len(buffersToWrite)]

Logged == IF bpc = "write" /\ bpc' # "write" THEN WriteFiles ELSE UNCHANGED logVars

FNext == Next /\ Logged

\* Every thread that can run does.
FSpec ==
    /\ FInit /\ [][FNext]_fvars
    /\ \A t \in Appenders : WF_fvars(AppendStep(t) /\ Logged)
    /\ WF_fvars(BackendStep /\ Logged) /\ WF_fvars(StopStep /\ Logged)

-----------------------------------------------------------------------------

\* A sequence of sequences, one after the other.
Joined(q) ==
    LET join[i \in 1..Len(q)] == IF i = 1 THEN q[i] ELSE join[i - 1] \o q[i]
    IN  IF q = <<>> THEN <<>> ELSE join[Len(q)]

\* The files in the order of their names, up to the one that is open.
Files ==
    Joined([s \in 1..log.name |-> IF s \in DOMAIN log.files THEN log.files[s] ELSE <<>>])

\* No record is lost, doubled or moved past another between append and the files:
\* the files in the order of their names, the buffers being written, the full ones and
\* the current one hold, in this order, exactly the records append took, even when
\* a file is rolled over to itself (FileUtil.cpp:13 opens for appending).
RecordsConserved ==
    Files \o Joined(buffersToWrite) \o Joined(buffers) \o cur_buffer = accepted

\* A file exceeds rollSize by less than a buffer, unless it is full within the second
\* it is opened in: roll then opens it again under the same name and counts from zero,
\* or, at midnight, does not roll at all (line 77).
FileBounded ==
    \A s \in DOMAIN log.files \ log.again : Len(log.files[s]) < RollSize + BufferSize
=============================================================================
