---------------------------- MODULE AsyncLogger ----------------------------
(***************************************************************************)
(* The asynchronous logger (src/Loggers/AsyncLogger.cpp): threads append   *)
(* records to the current buffer under a lock made of bits of one atomic   *)
(* word, and a backend thread swaps the buffers out and writes them.       *)
(*                                                                         *)
(* The word is the set of its bits.  Loading it, testing it and the        *)
(* compare-and-swap that follows are one step, since a failed swap only    *)
(* starts over; a futex wait is a sleep that any wake ends.  A buffer is a *)
(* sequence of records, Absent a moved-from pointer.  The member `state'   *)
(* is never initialised: its first value is a parameter.                   *)
(***************************************************************************)
EXTENDS Integers, Sequences

CONSTANTS
    Appenders,      \* threads that log
    BufferSize,     \* records that fit a LogBuffer
    MaxAppends,     \* bound: appends of each thread
    InitialWords,   \* what the uninitialised word may hold
    Absent          \* a null buffer pointer

Bits == {"appending", "full", "swaping", "available"}
Busy == {"appending", "full", "swaping"}

ASSUME LoggerAssumption ==
    /\ BufferSize \in Nat \ {0} /\ MaxAppends \in Nat
    /\ InitialWords \subseteq SUBSET Bits

VARIABLES
    state, running,
    cur_buffer, next_buffer, buffers,
    newBuffer1, newBuffer2, buffersToWrite,   \* locals of threadFunc
    apc, bpc, spc,  \* where the appenders, the backend and stop() are
    appends,    \* appends each thread has begun
    accepted,   \* records put into a buffer, in order
    refused     \* records append turned away before stop() was called

word == <<state, running>>
shared == <<cur_buffer, next_buffer, buffers>>
mine == <<newBuffer1, newBuffer2, buffersToWrite>>
ghosts == <<appends, accepted, refused>>
vars == <<word, shared, mine, apc, bpc, spc, ghosts>>

\* start() has set running and started the backend.
Init ==
    /\ state \in InitialWords /\ running = TRUE
    /\ cur_buffer = <<>> /\ next_buffer = <<>> /\ buffers = <<>>
    /\ newBuffer1 = <<>> /\ newBuffer2 = <<>> /\ buffersToWrite = <<>>
    /\ apc = [t \in Appenders |-> "idle"] /\ bpc = "while" /\ spc = "before"
    /\ appends = [t \in Appenders |-> 0]
    /\ accepted = <<>> /\ refused = {}

\* futex_wake: every sleeper takes another look at the word.
AwakeA(pcs) == [t \in Appenders |-> IF pcs[t] = "asleep" THEN "try" ELSE pcs[t]]
Awake(p, again) == IF p = "asleep" THEN again ELSE p

-----------------------------------------------------------------------------
(* append *)

Append_(t) ==
    /\ apc[t] = "idle" /\ appends[t] < MaxAppends
    /\ appends' = [appends EXCEPT ![t] = @ + 1]
    /\ apc' = [apc EXCEPT ![t] = "try"]
    /\ UNCHANGED <<word, shared, mine, bpc, spc, accepted, refused>>

AppendRefused(t) ==
    /\ apc[t] = "try" /\ "available" \notin state
    /\ apc' = [apc EXCEPT ![t] = "idle"]
    /\ refused' = IF running THEN refused \cup {<<t, appends[t]>>} ELSE refused
    /\ UNCHANGED <<word, shared, mine, bpc, spc, appends, accepted>>

AppendSleeps(t) ==
    /\ apc[t] = "try" /\ "available" \in state /\ state \cap Busy # {}
    /\ apc' = [apc EXCEPT ![t] = "asleep"]
    /\ UNCHANGED <<word, shared, mine, bpc, spc, ghosts>>

\* Mutant: the lock is taken without a look at the busy bits.
AppendLocksAnyway(t) ==
    /\ apc[t] = "try" /\ "available" \in state
    /\ state' = state \cup {"appending"}
    /\ apc' = [apc EXCEPT ![t] = "append"]
    /\ UNCHANGED <<running, shared, mine, bpc, spc, ghosts>>

AppendLocks(t) ==
    /\ apc[t] = "try" /\ "available" \in state /\ state \cap Busy = {}
    /\ state' = state \cup {"appending"}
    /\ apc' = [apc EXCEPT ![t] = "append"]
    /\ UNCHANGED <<running, shared, mine, bpc, spc, ghosts>>

AppendRelease(t, w) ==
    /\ state' = w
    /\ apc' = [AwakeA(apc) EXCEPT ![t] = "idle"]
    /\ bpc' = Awake(bpc, "lock") /\ spc' = Awake(spc, "try")
    /\ accepted' = Append(accepted, <<t, appends[t]>>)

AppendFits(t) ==
    /\ apc[t] = "append" /\ Len(cur_buffer) < BufferSize
    /\ cur_buffer' = Append(cur_buffer, <<t, appends[t]>>)
    /\ AppendRelease(t, {"available"})
    /\ UNCHANGED <<running, next_buffer, buffers, mine, appends, refused>>

\* The word becomes `full' alone.
AppendFull(t) ==
    /\ apc[t] = "append" /\ Len(cur_buffer) >= BufferSize
    /\ buffers' = Append(buffers, cur_buffer)
    /\ cur_buffer' = << <<t, appends[t]>> >> /\ next_buffer' = Absent
    /\ AppendRelease(t, {"full"})
    /\ UNCHANGED <<running, mine, appends, refused>>

AppendStep(t) ==
    AppendRefused(t) \/ AppendSleeps(t) \/ AppendLocks(t) \/ AppendFits(t) \/ AppendFull(t)

-----------------------------------------------------------------------------
(* threadFunc *)

BackendWhile ==
    /\ bpc = "while"
    /\ bpc' = IF running THEN "lock" ELSE "leave"
    /\ UNCHANGED <<word, shared, mine, apc, spc, ghosts>>

\* Mutant: the thread tries again instead of returning.
BackendReturnsNot == bpc = "lock" /\ "available" \notin state /\ UNCHANGED vars

\* "stoping,no more flush": the thread returns with buffers unwritten.
BackendReturns ==
    /\ bpc = "lock" /\ "available" \notin state
    /\ bpc' = "exited"
    /\ UNCHANGED <<word, shared, mine, apc, spc, ghosts>>

BackendSleeps ==
    /\ bpc = "lock" /\ "available" \in state /\ "full" \notin state /\ "appending" \in state
    /\ bpc' = "asleep"
    /\ UNCHANGED <<word, shared, mine, apc, spc, ghosts>>

BackendLocksFull ==
    /\ bpc = "lock" /\ {"available", "full"} \subseteq state
    /\ state' = (state \ {"full"}) \cup {"swaping"} /\ bpc' = "swap"
    /\ UNCHANGED <<running, shared, mine, apc, spc, ghosts>>

BackendLocks ==
    /\ bpc = "lock" /\ "available" \in state /\ state \cap {"full", "appending"} = {}
    /\ state' = state \cup {"swaping"} /\ bpc' = "swap"
    /\ UNCHANGED <<running, shared, mine, apc, spc, ghosts>>

BackendSwap ==
    /\ bpc = "swap" /\ bpc' = "write"
    /\ buffersToWrite' = Append(buffers, cur_buffer) /\ buffers' = <<>>
    /\ cur_buffer' = newBuffer1 /\ newBuffer1' = Absent
    /\ IF next_buffer = Absent
       THEN next_buffer' = newBuffer2 /\ newBuffer2' = Absent
       ELSE UNCHANGED <<next_buffer, newBuffer2>>
    /\ state' = state \ {"swaping"}
    /\ apc' = AwakeA(apc) /\ spc' = Awake(spc, "try")
    /\ UNCHANGED <<running, ghosts>>

\* Write every buffer (LogFile), keep the last ones as the new buffers, flush.
BackendWrite ==
    /\ bpc = "write" /\ bpc' = "while"
    /\ newBuffer1' = <<>>
    /\ newBuffer2' = IF newBuffer2 = Absent THEN <<>> ELSE newBuffer2
    /\ buffersToWrite' = <<>>
    /\ UNCHANGED <<word, shared, apc, spc, ghosts>>

BackendLeaves ==
    /\ bpc = "leave" /\ bpc' = "exited"
    /\ state' = {}
    /\ apc' = AwakeA(apc) /\ spc' = Awake(spc, "try")
    /\ UNCHANGED <<running, shared, mine, ghosts>>

BackendStep ==
    \/ BackendWhile \/ BackendReturns \/ BackendSleeps \/ BackendLocksFull \/ BackendLocks
    \/ BackendSwap \/ BackendWrite \/ BackendLeaves

-----------------------------------------------------------------------------
(* stop *)

Stop ==
    /\ spc = "before" /\ spc' = "try"
    /\ running' = FALSE
    /\ UNCHANGED <<state, shared, mine, apc, bpc, ghosts>>

StopReturns_ ==
    /\ spc = "try" /\ "available" \notin state /\ spc' = "returned"
    /\ UNCHANGED <<word, shared, mine, apc, bpc, ghosts>>

StopSleeps ==
    /\ spc = "try" /\ "available" \in state /\ state \cap Busy # {} /\ spc' = "asleep"
    /\ UNCHANGED <<word, shared, mine, apc, bpc, ghosts>>

StopTakes ==
    /\ spc = "try" /\ "available" \in state /\ state \cap Busy = {} /\ spc' = "join"
    /\ state' = {}
    /\ apc' = AwakeA(apc) /\ bpc' = Awake(bpc, "lock")
    /\ UNCHANGED <<running, shared, mine, ghosts>>

StopJoins ==
    /\ spc = "join" /\ bpc = "exited" /\ spc' = "returned"
    /\ UNCHANGED <<word, shared, mine, apc, bpc, ghosts>>

StopStep == StopReturns_ \/ StopSleeps \/ StopTakes \/ StopJoins

-----------------------------------------------------------------------------

\* The lock is held by nobody: `appending' is set and no thread is appending.
\* Only the uninitialised word can bring this about (AsyncLogger.h:38).
Jammed ==
    /\ {"available", "appending"} \subseteq state
    /\ \A t \in Appenders : apc[t] # "append"

\* stop() has returned, the backend is gone and no thread is appending; or
\* everyone sleeps on a jammed lock.
Over ==
    /\ \/ spc = "returned" /\ bpc = "exited" /\ \A t \in Appenders : apc[t] = "idle"
       \/ spc = "asleep" /\ bpc = "asleep" /\ Jammed
    /\ UNCHANGED vars

Next ==
    \/ \E t \in Appenders : Append_(t) \/ AppendStep(t)
    \/ BackendStep \/ Stop \/ StopStep \/ Over

Spec == Init /\ [][Next]_vars

-----------------------------------------------------------------------------

\* The word is a lock: of the threads inside append and the backend swapping
\* buffers, at most one touches them at a time.
ExclusiveBuffers ==
    /\ \A t, u \in Appenders : apc[t] = "append" /\ apc[u] = "append" => t = u
    /\ bpc = "swap" => \A t \in Appenders : apc[t] # "append"

\* The assertions at lines 130-132: each round of threadFunc begins with two
\* empty buffers in hand and nothing left to write.
BackendAssertions ==
    bpc \in {"lock", "asleep", "swap"} =>
        newBuffer1 = <<>> /\ newBuffer2 = <<>> /\ buffersToWrite = <<>>

\* stop() ends it all, whatever the appenders and the backend are doing and
\* whatever the word first held: stop() itself returns, the backend thread ends
\* and every append in progress returns.  The one exception is a word that comes
\* up available and appending: nobody ever releases that lock.
AllReturn ==
    /\ (spc # "before") ~> ((spc = "returned" /\ bpc = "exited") \/ Jammed)
    /\ \A t \in Appenders :
         (spc # "before" /\ apc[t] # "idle") ~> (apc[t] = "idle" \/ Jammed)

\* append logs "stoping,no more append" when it turns a record away (line 77):
\* it does so only once stop() has been called.
RefusedOnlyWhenStopping == refused = {}
=============================================================================
