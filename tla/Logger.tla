------------------------------- MODULE Logger --------------------------------
(***************************************************************************)
(* The logger (common/log.cc): lines go to a buffer of Logger, the timer   *)
(* of the main thread hands what is there to an AsyncLogger as one batch   *)
(* (syncLoop), whose thread writes it (AsyncLogger::Loop).  There are two  *)
(* of each, for the library's lines ("rpc") and the application's ("app"). *)
(* A signal ends the program by way of CoredumpHandler.                    *)
(*                                                                         *)
(* The mutexes are those of EventLoop: a ScopeMutex unlocks again when it  *)
(* goes out of scope, and so may let a second thread in.  Once two threads *)
(* are inside a buffer together anything can happen: the model stops.      *)
(***************************************************************************)
EXTENDS Integers, SequencesExt

CONSTANTS
    Producer,   \* threads that log
    Sync,       \* the main thread, whose timer runs syncLoop
    Handler,    \* CoredumpHandler, on the thread that it has interrupted
    SetLevel,   \* log_level of the configuration
    Interrupted,    \* bound: the threads that a signal can interrupt
    MaxLines,   \* bound: lines the producers log
    MaxDays,    \* bound: dates
    MaxSize,    \* m_max_file_size, in lines
    None

ASSUME LoggerAssumption ==
    /\ Sync \notin Producer /\ Handler \notin Producer \cup {Sync}
    /\ None \notin Producer \cup {Sync} /\ Interrupted \subseteq Producer \cup {Sync}
    /\ MaxLines \in Nat /\ MaxDays \in Nat /\ MaxSize \in Nat

Log == {"rpc", "app"}
Thread == Producer \cup {Sync, Handler}

VARIABLES
    pc,         \* where each thread is, with the log it is at
    tmp,        \* the lines a syncLoop has taken out
    buffer,     \* Logger::m_buffer and m_app_buffer
    mutex,      \* m_mutex and m_app_mutex are taken
    pushed,     \* how many lines each log has been given
    queue,      \* AsyncLogger::m_buffer: batches of lines
    qmutex,     \* AsyncLogger::m_mutex is taken
    loop,       \* where AsyncLogger::Loop is
    batch,      \* the batch it writes
    file,       \* its file
    written,    \* the lines in its files
    stop,       \* m_stop_flag
    signal      \* the thread that a signal has interrupted

logger == <<pc, tmp, buffer, mutex, pushed, signal>>
async  == <<loop, batch, file, written>>
vars == <<pc, tmp, buffer, mutex, pushed, queue, qmutex, loop, batch, file, written, stop,
          signal>>

-----------------------------------------------------------------------------
(* Levels. *)

LogLevel == [Unknown |-> 0, Debug |-> 1, Info |-> 2, Error |-> 3]

StringToLogLevel(s) ==
    CASE s = "DEBUG" -> LogLevel.Debug
      [] s = "INFO"  -> LogLevel.Info
      [] s = "ERROR" -> LogLevel.Error
      [] OTHER       -> LogLevel.Unknown

\* The macros: DEBUGLOG logs nothing when the level is unknown, all others do.
Logs(g, level) ==
    LET set == StringToLogLevel(SetLevel)
    IN  /\ set <= level
        /\ g = "rpc" /\ level = LogLevel.Debug => set # LogLevel.Unknown

-----------------------------------------------------------------------------
(* The files. *)

\* A file of an AsyncLogger: m_date, m_no, the number in the name of the open
\* file (-1: m_file_hanlder is NULL), the lines in it, and how many batches
\* were begun in it while it was over its size.
NewFile == [date |-> 0, no |-> 0, open |-> -1, lines |-> 0, over |-> 0]

Opened(f, n) == IF f.open = n THEN f ELSE [f EXCEPT !.open = n, !.lines = 0, !.over = 0]

\* Mutant of Roll: m_no is not counted up.
RollSame(f) == IF f.lines > MaxSize THEN Opened(f, f.no) ELSE f

\* A file that is over its size is closed and the one of m_no opened, which is
\* counted up after that: the first time it is file 0 once more.
Roll(f) ==
    IF f.lines > MaxSize THEN [Opened(f, f.no) EXCEPT !.no = @ + 1] ELSE f

\* The file for a batch on a day: a new one at a new date.
FileFor(f, date) ==
    LET f1 == IF f.date # date THEN [NewFile EXCEPT !.date = date] ELSE f
        f2 == Roll(IF f1.open = -1 THEN Opened(f1, f1.no) ELSE f1)
    IN  [f2 EXCEPT !.over = IF f2.lines > MaxSize THEN @ + 1 ELSE @]

\* The file when a batch of n lines is written on a day.
WithBatch(f, date, n) == [FileFor(f, date) EXCEPT !.lines = @ + n]

-----------------------------------------------------------------------------

At(t, stage, g) == pc[t] = <<stage, g>>
Go(t, stage, g) == pc' = [pc EXCEPT ![t] = <<stage, g>>]

Stage == {"idle", "log", "push", "pushed", "sync", "swap", "hand", "queue", "queued",
          "synced", "stop", "join", "dead"}

\* A line is the number that it has among the lines of its log.
Line == Nat \ {0}

FileRecord == [date : Nat, no : Nat, open : Nat \cup {-1}, lines : Nat, over : Nat]

TypeOK ==
    /\ pc \in [Thread -> Stage \X Log]
    /\ tmp \in [Thread -> Seq(Line)]
    /\ buffer \in [Log -> Seq(Line)]
    /\ mutex \in [Log -> BOOLEAN] /\ qmutex \in [Log -> BOOLEAN]
    /\ pushed \in [Log -> Nat]
    /\ queue \in [Log -> Seq(Seq(Line))]
    /\ loop \in [Log -> {"lock", "check", "waiting", "write", "ended"}]
    /\ batch \in [Log -> Seq(Line)] /\ written \in [Log -> Seq(Line)]
    /\ file \in [Log -> FileRecord]
    /\ stop \in [Log -> BOOLEAN]
    /\ signal \in {None} \cup Interrupted

Init ==
    /\ pc = [t \in Thread |-> <<"idle", "rpc">>]
    /\ tmp = [t \in Thread |-> << >>]
    /\ buffer = [g \in Log |-> << >>]
    /\ mutex = [g \in Log |-> FALSE]
    /\ pushed = [g \in Log |-> 0]
    /\ queue = [g \in Log |-> << >>]
    /\ qmutex = [g \in Log |-> FALSE]
    /\ loop = [g \in Log |-> "lock"]
    /\ batch = [g \in Log |-> << >>]
    /\ file = [g \in Log |-> NewFile]
    /\ written = [g \in Log |-> << >>]
    /\ stop = [g \in Log |-> FALSE]
    /\ signal = None

\* The threads inside a buffer of Logger, and inside one of an AsyncLogger.
Inside(g) == {t \in Thread : At(t, "push", g) \/ At(t, "swap", g)}
Queueing(g) == {t \in Thread : At(t, "queue", g)}

Raced ==
    \E g \in Log : \/ Cardinality(Inside(g)) > 1
                  \/ Cardinality(Queueing(g)) > 1
                  \/ (Queueing(g) # {} /\ loop[g] = "check")

\* A thread that the signal has interrupted does not go on.
Runs(t) == ~ Raced /\ signal # t /\ pc[Handler][1] # "dead"

\* The constructor of a ScopeMutex over m_mutex or m_app_mutex.
Lock(g) ==
    /\ ~ mutex[g]
    /\ mutex' = [mutex EXCEPT ![g] = TRUE]

Unlock(g) == mutex' = [mutex EXCEPT ![g] = FALSE]

-----------------------------------------------------------------------------
(* pushLog and pushAppLog. *)

\* The lines that are pushed, or about to be.
Lines ==
    pushed["rpc"] + pushed["app"] + Cardinality({t \in Producer : pc[t][1] = "push"})

\* A macro whose level is logged; CoredumpHandler begins with an ERRORLOG.
LogLine(t, g) ==
    /\ \/ t \in Producer /\ pc[t][1] = "idle" /\ Lines < MaxLines
       \/ At(t, "log", g)
    /\ \E level \in 1..3 : Logs(g, level)
    /\ Lock(g)
    /\ Go(t, "push", g)
    /\ UNCHANGED <<tmp, buffer, pushed, queue, qmutex, async, stop, signal>>

Push(t, g) ==
    /\ At(t, "push", g)
    /\ buffer' = [buffer EXCEPT ![g] = Append(@, pushed[g] + 1)]
    /\ pushed' = [pushed EXCEPT ![g] = @ + 1]
    /\ Unlock(g)
    /\ Go(t, "pushed", g)
    /\ UNCHANGED <<tmp, queue, qmutex, async, stop, signal>>

\* ~ScopeMutex
Pushed(t, g) ==
    /\ At(t, "pushed", g)
    /\ Unlock(g)
    /\ IF t = Handler THEN Go(t, "sync", "rpc") ELSE Go(t, "idle", g)
    /\ UNCHANGED <<tmp, buffer, pushed, queue, qmutex, async, stop, signal>>

-----------------------------------------------------------------------------
(* syncLoop, by the timer or by CoredumpHandler (Logger::flush). *)

Then(t, g) == IF g = "rpc" THEN Go(t, "sync", "app") ELSE Go(t, "synced", "app")

SyncLoop(t, g) ==
    /\ \/ t = Sync /\ pc[t][1] = "idle" /\ g = "rpc"
       \/ At(t, "sync", g)
    /\ Lock(g)
    /\ Go(t, "swap", g)
    /\ UNCHANGED <<tmp, buffer, pushed, queue, qmutex, async, stop, signal>>

\* Mutant of Swap: the lines stay in the buffer as well.
SwapCopies(t, g) ==
    /\ At(t, "swap", g)
    /\ tmp' = [tmp EXCEPT ![t] = buffer[g]]
    /\ Unlock("rpc")
    /\ IF buffer[g] # << >> THEN Go(t, "hand", g) ELSE Then(t, g)
    /\ UNCHANGED <<buffer, pushed, queue, qmutex, async, stop, signal>>

\* The lines are swapped out.  Both times it is m_mutex that is unlocked;
\* m_app_mutex stays taken to the end.
Swap(t, g) ==
    /\ At(t, "swap", g)
    /\ tmp' = [tmp EXCEPT ![t] = buffer[g]]
    /\ buffer' = [buffer EXCEPT ![g] = << >>]
    /\ Unlock("rpc")
    /\ IF buffer[g] # << >> THEN Go(t, "hand", g) ELSE Then(t, g)
    /\ UNCHANGED <<pushed, queue, qmutex, async, stop, signal>>

\* pushLogBuffer takes the AsyncLogger's mutex,
Hand(t, g) ==
    /\ At(t, "hand", g)
    /\ ~ qmutex[g]
    /\ qmutex' = [qmutex EXCEPT ![g] = TRUE]
    /\ Go(t, "queue", g)
    /\ UNCHANGED <<tmp, buffer, mutex, pushed, queue, async, stop, signal>>

\* Mutant of Queue: the condition is not signalled.
QueueSilent(t, g) ==
    /\ At(t, "queue", g)
    /\ queue' = [queue EXCEPT ![g] = Append(@, tmp[t])]
    /\ tmp' = [tmp EXCEPT ![t] = << >>]
    /\ qmutex' = [qmutex EXCEPT ![g] = FALSE]
    /\ Go(t, "queued", g)
    /\ UNCHANGED <<buffer, mutex, pushed, async, stop, signal>>

\* queues the batch, signals the condition and unlocks,
Queue(t, g) ==
    /\ At(t, "queue", g)
    /\ queue' = [queue EXCEPT ![g] = Append(@, tmp[t])]
    /\ tmp' = [tmp EXCEPT ![t] = << >>]
    /\ loop' = [loop EXCEPT ![g] = IF @ = "waiting" THEN "lock" ELSE @]
    /\ qmutex' = [qmutex EXCEPT ![g] = FALSE]
    /\ Go(t, "queued", g)
    /\ UNCHANGED <<buffer, mutex, pushed, batch, file, written, stop, signal>>

\* and unlocks again when it ends.
Queued(t, g) ==
    /\ At(t, "queued", g)
    /\ qmutex' = [qmutex EXCEPT ![g] = FALSE]
    /\ Then(t, g)
    /\ UNCHANGED <<tmp, buffer, mutex, pushed, queue, async, stop, signal>>

\* The end of syncLoop: both ScopeMutexes unlock.
Synced(t) ==
    /\ At(t, "synced", "app")
    /\ mutex' = [g \in Log |-> FALSE]
    /\ IF t = Handler THEN Go(t, "stop", "rpc") ELSE Go(t, "idle", "rpc")
    /\ UNCHANGED <<tmp, buffer, pushed, queue, qmutex, async, stop, signal>>

-----------------------------------------------------------------------------
(* CoredumpHandler. *)

Interrupt(t) ==
    /\ signal = None
    /\ signal' = t
    /\ Go(Handler, "log", "rpc")
    /\ UNCHANGED <<tmp, buffer, mutex, pushed, queue, qmutex, async, stop>>

\* AsyncLogger::stop of both; their threads are not woken.
Stop ==
    /\ At(Handler, "stop", "rpc")
    /\ stop' = [g \in Log |-> TRUE]
    /\ Go(Handler, "join", "rpc")
    /\ UNCHANGED <<tmp, buffer, mutex, pushed, queue, qmutex, async, signal>>

\* pthread_join of both, then raise.
Join(g) ==
    /\ At(Handler, "join", g)
    /\ loop[g] = "ended"
    /\ IF g = "rpc" THEN Go(Handler, "join", "app") ELSE Go(Handler, "dead", "app")
    /\ UNCHANGED <<tmp, buffer, mutex, pushed, queue, qmutex, async, stop, signal>>

-----------------------------------------------------------------------------
(* AsyncLogger::Loop. *)

LoopLock(g) ==
    /\ loop[g] = "lock"
    /\ ~ qmutex[g]
    /\ qmutex' = [qmutex EXCEPT ![g] = TRUE]
    /\ loop' = [loop EXCEPT ![g] = "check"]
    /\ UNCHANGED <<logger, queue, batch, file, written, stop>>

LoopWait(g) ==
    /\ loop[g] = "check"
    /\ queue[g] = << >>
    /\ qmutex' = [qmutex EXCEPT ![g] = FALSE]
    /\ loop' = [loop EXCEPT ![g] = "waiting"]
    /\ UNCHANGED <<logger, queue, batch, file, written, stop>>

LoopTake(g) ==
    /\ loop[g] = "check"
    /\ queue[g] # << >>
    /\ batch' = [batch EXCEPT ![g] = Head(queue[g])]
    /\ queue' = [queue EXCEPT ![g] = Tail(@)]
    /\ qmutex' = [qmutex EXCEPT ![g] = FALSE]
    /\ loop' = [loop EXCEPT ![g] = "write"]
    /\ UNCHANGED <<logger, file, written, stop>>

\* The file for the date, fwrite of each line, fflush, the test of m_stop_flag,
\* and ~ScopeMutex either way.
LoopWrite(g) ==
    /\ loop[g] = "write"
    /\ \E date \in 1..MaxDays :
         /\ file[g].date <= date
         /\ file' = [file EXCEPT ![g] = WithBatch(@, date, Len(batch[g]))]
    /\ written' = [written EXCEPT ![g] = @ \o batch[g]]
    /\ batch' = [batch EXCEPT ![g] = << >>]
    /\ qmutex' = [qmutex EXCEPT ![g] = FALSE]
    /\ loop' = [loop EXCEPT ![g] = IF stop[g] THEN "ended" ELSE "lock"]
    /\ UNCHANGED <<logger, queue, stop>>

Loop(g) == LoopLock(g) \/ LoopWait(g) \/ LoopTake(g) \/ LoopWrite(g)

-----------------------------------------------------------------------------

Step(t) ==
    \/ \E g \in Log : \/ Push(t, g) \/ Pushed(t, g)
                      \/ SyncLoop(t, g) \/ Swap(t, g)
                      \/ Hand(t, g) \/ Queue(t, g) \/ Queued(t, g)
    \/ Synced(t)
    \/ At(t, "log", "rpc") /\ LogLine(t, "rpc")
    \/ t = Handler /\ (Stop \/ \E g \in Log : Join(g))

Next ==
    \/ \E t \in Thread : Runs(t) /\ (Step(t) \/ \E g \in Log : LogLine(t, g))
    \/ \E t \in Interrupted : Runs(t) /\ Interrupt(t)
    \/ ~ Raced /\ pc[Handler][1] # "dead" /\ \E g \in Log : Loop(g)

Spec == Init /\ [][Next]_vars

\* Every thread runs, and the timer of syncLoop fires again and again.  (No
\* thread is kept from a mutex for ever: a bounded number of lines is logged.)
FairSpec ==
    /\ Spec
    /\ \A t \in Thread : WF_vars(Runs(t) /\ Step(t))
    /\ \A g \in Log : WF_vars(~ Raced /\ pc[Handler][1] # "dead" /\ Loop(g))

-----------------------------------------------------------------------------
(* What must hold. *)

\* The lines of a log that a thread's syncLoop has taken out and not queued.
Held(t, g) == IF At(t, "hand", g) \/ At(t, "queue", g) THEN tmp[t] ELSE << >>

\* The lines of a log that are not written yet, oldest first.
Waiting(g) == batch[g] \o FlattenSeq(queue[g]) \o Held(Sync, g) \o buffer[g]

\* A line that is pushed is written once, behind those pushed before it, and
\* until then it is somewhere between: in the buffer, in the hands of syncLoop,
\* in a batch.  After a signal the handler's syncLoop runs beside the timer's:
\* lines may be lost or change places then, but none is written twice.
LinesInOrder ==
    \A g \in Log :
      IF signal = None /\ ~ Raced
      THEN written[g] \o Waiting(g) = [i \in 1..pushed[g] |-> i]
      ELSE \A i, j \in DOMAIN written[g] : i < j => written[g][i] # written[g][j]

\* Every line that is pushed is written, if no race and no signal comes.
LinesWritten ==
    \A g \in Log :
      (Len(written[g]) < pushed[g])
        ~> (Len(written[g]) = pushed[g] \/ Raced \/ signal # None)

\* The handler, or a thread it joins, needs a mutex that the interrupted thread
\* has, or it joins a log's thread that has nothing more to write, as nobody
\* wakes that one.  (The handler's own line may have been written before the
\* flag was set, and helps only by luck.)
Hangs ==
    \/ \E g \in Log : /\ At(Handler, "join", g) /\ queue[g] = << >>
                      /\ loop[g] \in {"lock", "check", "waiting"}
    \/ \E g \in Log : /\ At(Handler, "log", g) \/ At(Handler, "sync", g)
                      /\ mutex[g]
                      /\ pc[signal][1] \notin {"idle", "pushed"}
    \/ \E g \in Log : /\ At(Handler, "hand", g) \/ At(Handler, "join", g)
                      /\ qmutex[g] /\ At(signal, "queue", g)

\* A signal ends the program by way of CoredumpHandler, or the handler hangs.
SignalEnds == (signal # None) ~> (pc[Handler][1] = "dead" \/ Raced \/ Hangs)

\* No batch is begun in a file that is over its size, apart from one in file 0:
\* the first time, Roll opens the file it has closed.
FilesRoll == \A g \in Log : file[g].over <= IF file[g].open = 0 THEN 1 ELSE 0
=============================================================================
