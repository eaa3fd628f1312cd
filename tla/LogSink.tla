------------------------------ MODULE LogSink ------------------------------
(***************************************************************************)
(* The PE side's log queue and the thread that drains it, writing into the *)
(* unix side's LogFile.                                                    *)
(*                                                                         *)
(* Program threads create and release IDirect3D9 interfaces; the first one *)
(* starts the logging thread, the last one stops it.  Any PE thread logs,  *)
(* any unix thread logs past the queue, and faults report past both.  The  *)
(* loader lock is Wine's: a thread inside another DLL's DllMain holds it,  *)
(* and the logging thread needs it to exit.                                *)
(***************************************************************************)
EXTENDS LogFile, FiniteSets

CONSTANTS
    Threads,        \* the program's threads
    SinkFaults,     \* the calls that may fail: "image", "spawn", "id",
                    \* "open_thread", "wait"
    MaxPe,          \* bound: lines logged on the PE side
    MaxUnix,        \* bound: lines logged on the unix side
    MaxReports,     \* bound: fault reports
    MaxCreates      \* bound: Direct3DCreate9 calls

VARIABLES
    queue,          \* the channel: lines and stops
    rx,             \* who has the receiver: a thread, "log", "panic",
                    \* "parked", or "lost" once nobody can have it again
    hand,           \* the line each receiver has taken and not yet forwarded
    worker,         \* who holds the worker lock, or "none"
    interfaces,     \* Worker::interfaces
    threadId,       \* whether Worker::thread_id names a thread
    gen,            \* how many logging threads were started
    running,        \* whether the youngest one still drains
    exiting,        \* those that parked the receiver and are not gone
    app,            \* where each program thread is
    loader,         \* who holds the loader lock, or "none"
    images,         \* references on d3d9.dll
    loaded,         \* whether the program's own reference is among them
    unwaited,       \* those no stop waited for
    panic,          \* the panic hook: "no", "try", "forward", "report", "dead"
    pe, ux, rep, creates    \* what was logged, reported and created

calls == <<interfaces, threadId, app, loader, creates>>
thread == <<gen, running, exiting, images, loaded, unwaited>>
counts == <<pe, ux, rep>>
vars == <<logFileVars, queue, rx, hand, worker, calls, thread, panic, counts>>

Stop == <<"stop", 0>>
NoLine == <<"none", 0>>
Receivers == Threads \cup {"log", "panic"}

Init ==
    /\ LogFileInit
    /\ queue = << >> /\ rx = "parked"
    /\ hand = [r \in Receivers |-> NoLine]
    /\ worker = "none" /\ interfaces = 0 /\ threadId = FALSE
    /\ gen = 0 /\ running = FALSE /\ exiting = {} /\ unwaited = {}
    /\ images = 1 /\ loaded = TRUE
    /\ app = [t \in Threads |-> "idle"]
    /\ loader = "none" /\ panic = "no"
    /\ pe = 0 /\ ux = 0 /\ rep = 0 /\ creates = 0

Alive == panic # "dead"
Running == loaded /\ Alive
LogThreads == exiting \cup (IF running THEN {gen} ELSE {})

\* Which fault, if any, the call named f meets.
Fails(f) == IF f \in SinkFaults THEN BOOLEAN ELSE {FALSE}

-----------------------------------------------------------------------------
(* Lines *)

\* Sink::write on any PE thread; a dropped receiver refuses the line.
PeLog ==
    /\ Running /\ pe < MaxPe
    /\ pe' = pe + 1
    /\ queue' = IF rx = "lost" THEN queue ELSE Append(queue, <<"pe", pe + 1>>)
    /\ UNCHANGED <<logFileVars, rx, hand, worker, calls, thread, panic, ux, rep>>

\* FileSink::write on any unix thread.
UnixLog ==
    /\ Alive /\ ux < MaxUnix
    /\ ux' = ux + 1
    /\ write_all(<<"unix", ux + 1>>)
    /\ UNCHANGED <<queue, rx, hand, worker, calls, thread, panic, pe, rep>>

\* The vectored exception handler's report, fatal or first chance.
FaultReport ==
    /\ Running /\ rep < MaxReports
    /\ rep' = rep + 1
    /\ \E terminal, busy \in BOOLEAN : write_report(<<"report", ux>>, terminal, busy)
    /\ UNCHANGED <<queue, rx, hand, worker, calls, thread, panic, pe, ux>>

\* The unix signal handler's report; a terminal one ends the process.
SignalHandler ==
    /\ Alive /\ rep < MaxReports
    /\ rep' = rep + 1
    /\ \E terminal, busy \in BOOLEAN :
           /\ SignalReport(<<"report", ux>>, terminal, busy)
           /\ panic' = IF terminal THEN "dead" ELSE panic
    /\ UNCHANGED <<queue, rx, hand, worker, calls, thread, pe, ux>>

\* Receiver r takes the next message; a stop is no line and is passed over.
Take(r) ==
    /\ rx = r /\ hand[r] = NoLine /\ queue # << >>
    /\ hand' = [hand EXCEPT ![r] = IF Head(queue) = Stop THEN NoLine ELSE Head(queue)]
    /\ queue' = Tail(queue)

\* forward of the line r has taken.
Forward(r) ==
    /\ Alive /\ hand[r] # NoLine
    /\ write_all(hand[r])
    /\ hand' = [hand EXCEPT ![r] = NoLine]
    /\ UNCHANGED <<queue, rx, worker, calls, thread, panic, counts>>

-----------------------------------------------------------------------------
(* Direct3DCreate9 *)

\* OpenLog: a usable location is named, or none could be.
create_interface(t) ==
    /\ Running /\ app[t] = "idle" /\ loader # t /\ creates < MaxCreates
    /\ creates' = creates + 1
    /\ \/ open /\ app' = [app EXCEPT ![t] = "opened"]
       \/ fall_back_to_stderr /\ app' = [app EXCEPT ![t] = "acquire"]
    /\ UNCHANGED <<queue, rx, hand, worker, interfaces, threadId, loader, thread, panic, counts>>

\* The handler's own line, "log file: <path>", by now the file's next one.
OpenLogLine(t) ==
    /\ Alive /\ app[t] = "opened"
    /\ ux' = ux + 1
    /\ write_all(<<"unix", ux + 1>>)
    /\ app' = [app EXCEPT ![t] = "acquire"]
    /\ UNCHANGED <<queue, rx, hand, worker, interfaces, threadId, loader, creates, thread,
                   panic, pe, rep>>

\* acquire, and the head of start that takes the receiver.
acquire(t) ==
    /\ Alive /\ app[t] = "acquire" /\ worker = "none" /\ rx # "panic"
    /\ interfaces' = interfaces + 1
    /\ IF ~threadId /\ rx = "parked"
       THEN /\ rx' = t /\ worker' = t
            /\ app' = [app EXCEPT ![t] = "start"]
       ELSE /\ app' = [app EXCEPT ![t] = "idle"]
            /\ UNCHANGED <<rx, worker>>
    /\ UNCHANGED <<logFileVars, queue, hand, threadId, loader, creates, thread, panic, counts>>

\* start: what is queued goes out on the calling thread.
StartTake(t) ==
    /\ Alive /\ app[t] = "start" /\ Take(t)
    /\ UNCHANGED <<logFileVars, rx, worker, calls, thread, panic, counts>>

StartDrained(t) ==
    /\ Alive /\ app[t] = "start" /\ hand[t] = NoLine /\ queue = << >>
    /\ app' = [app EXCEPT ![t] = "spawn"]
    /\ UNCHANGED <<logFileVars, queue, rx, hand, worker, interfaces, threadId, loader, creates,
                   thread, panic, counts>>

\* start, from the empty queue on: the image reference, the spawn, the id.  A
\* failed spawn drops the receiver with what was queued meanwhile.
start(t) ==
    /\ Alive /\ app[t] = "spawn"
    /\ \/ /\ "image" \in SinkFaults
          /\ rx' = "parked" /\ UNCHANGED <<queue, gen, running, images, threadId>>
       \/ /\ "spawn" \in SinkFaults
          /\ rx' = "lost" /\ queue' = << >> /\ UNCHANGED <<gen, running, images, threadId>>
       \/ /\ rx' = "log" /\ gen' = gen + 1 /\ running' = TRUE /\ images' = images + 1
          /\ \E noId \in Fails("id") : threadId' = ~noId
          /\ UNCHANGED queue
    /\ worker' = "none" /\ app' = [app EXCEPT ![t] = "idle"]
    /\ UNCHANGED <<logFileVars, hand, interfaces, loader, creates, exiting, loaded, unwaited,
                   panic, counts>>

-----------------------------------------------------------------------------
(* Release *)

\* A thread lets its interface go, from another DLL's DllMain perhaps; the
\* drop then needs the worker lock.
Release(t) ==
    /\ Alive /\ app[t] = "idle"
    /\ interfaces > Cardinality({u \in Threads : app[u] = "release"})
    /\ app' = [app EXCEPT ![t] = "release"]
    /\ loader' \in {loader} \cup (IF loader = "none" THEN {t} ELSE {})
    /\ UNCHANGED <<logFileVars, queue, rx, hand, worker, interfaces, threadId, creates, thread,
                   panic, counts>>

\* release with stop inlined, mutated: it waits under the loader lock too.
release_mutated(t) ==
    /\ Alive /\ app[t] = "release" /\ worker = "none"
    /\ interfaces' = interfaces - 1
    /\ IF interfaces = 1 /\ threadId
       THEN /\ queue' = Append(queue, Stop) /\ threadId' = FALSE
            /\ worker' = t /\ app' = [app EXCEPT ![t] = "wait"]
       ELSE /\ app' = [app EXCEPT ![t] = "idle"] /\ UNCHANGED <<queue, threadId, worker>>
    /\ UNCHANGED <<logFileVars, rx, hand, loader, creates, thread, panic, counts>>

\* release with stop inlined: the last one sends the stop, and waits unless it
\* holds the loader lock, the thread has no id or no handle opens.
release(t) ==
    /\ Alive /\ app[t] = "release" /\ worker = "none"
    /\ interfaces' = interfaces - 1
    /\ IF interfaces = 1 /\ threadId
       THEN /\ queue' = Append(queue, Stop) /\ threadId' = FALSE
            /\ \E null \in Fails("open_thread") :
                   IF loader = t \/ null
                   THEN /\ unwaited' = unwaited \cup {gen}
                        /\ app' = [app EXCEPT ![t] = "idle"]
                        /\ UNCHANGED worker
                   ELSE /\ worker' = t /\ app' = [app EXCEPT ![t] = "wait"]
                        /\ UNCHANGED unwaited
       ELSE /\ app' = [app EXCEPT ![t] = "idle"]
            /\ unwaited' = IF interfaces = 1 THEN LogThreads ELSE unwaited
            /\ UNCHANGED <<queue, threadId, worker>>
    /\ UNCHANGED <<logFileVars, rx, hand, loader, creates, gen, running, exiting, images, loaded,
                   panic, counts>>

\* stop's wait: the thread is gone, or the wait failed.
WaitReturns(t) ==
    /\ Alive /\ app[t] = "wait"
    /\ \E failed \in Fails("wait") :
           /\ gen \notin LogThreads \/ failed
           /\ unwaited' = LogThreads \cap (unwaited \cup {gen})
    /\ worker' = "none" /\ app' = [app EXCEPT ![t] = "idle"]
    /\ UNCHANGED <<logFileVars, queue, rx, hand, interfaces, threadId, loader, creates, gen,
                   running, exiting, images, loaded, panic, counts>>

-----------------------------------------------------------------------------
(* The logging thread: drain *)

LogTake ==
    /\ Alive /\ running /\ queue # << >> /\ Head(queue) # Stop
    /\ Take("log")
    /\ UNCHANGED <<logFileVars, rx, worker, calls, thread, panic, counts>>

\* LogPark, mutated: the receiver goes back with the last line still in hand.
LogPark_mutated ==
    /\ Alive /\ running /\ queue # << >> /\ Head(queue) = Stop
    /\ queue' = Tail(queue)
    /\ rx' = "parked" /\ running' = FALSE /\ exiting' = exiting \cup {gen}
    /\ UNCHANGED <<logFileVars, hand, worker, calls, gen, images, loaded, unwaited, panic, counts>>

\* The stop: the receiver is parked for the next thread.
LogPark ==
    /\ Alive /\ running /\ hand["log"] = NoLine /\ queue # << >> /\ Head(queue) = Stop
    /\ queue' = Tail(queue)
    /\ rx' = "parked" /\ running' = FALSE /\ exiting' = exiting \cup {gen}
    /\ UNCHANGED <<logFileVars, hand, worker, calls, gen, images, loaded, unwaited, panic, counts>>

\* FreeLibraryAndExitThread, which needs the loader lock.
LogExit ==
    /\ Alive /\ loader = "none"
    /\ \E g \in exiting : exiting' = exiting \ {g} /\ unwaited' = unwaited \ {g}
    /\ images' = images - 1
    /\ UNCHANGED <<logFileVars, queue, rx, hand, worker, calls, gen, running, loaded, panic,
                   counts>>

-----------------------------------------------------------------------------
(* The panic hook, on a thread that holds none of these locks *)

Panic ==
    /\ Running /\ panic = "no" /\ rep < MaxReports
    /\ rep' = rep + 1 /\ panic' = "try"
    /\ UNCHANGED <<logFileVars, queue, rx, hand, worker, calls, thread, pe, ux>>

\* forward_parked: the receiver is locked where it is parked, or left alone.
forward_parked ==
    /\ panic = "try"
    /\ \/ rx = "parked" /\ rx' = "panic" /\ panic' = "forward"
       \/ panic' = "report" /\ UNCHANGED rx
    /\ UNCHANGED <<logFileVars, queue, hand, worker, calls, thread, counts>>

PanicTake ==
    /\ panic = "forward" /\ Take("panic")
    /\ UNCHANGED <<logFileVars, rx, worker, calls, thread, panic, counts>>

PanicDrained ==
    /\ panic = "forward" /\ hand["panic"] = NoLine /\ queue = << >>
    /\ rx' = "parked" /\ panic' = "report"
    /\ UNCHANGED <<logFileVars, queue, hand, worker, calls, thread, counts>>

\* write_crash, and the abort after the hooks.
PanicReport ==
    /\ panic = "report"
    /\ \E busy \in BOOLEAN : write_report(<<"report", ux>>, TRUE, busy)
    /\ panic' = "dead"
    /\ UNCHANGED <<queue, rx, hand, worker, calls, thread, counts>>

-----------------------------------------------------------------------------
(* Wine's loader *)

\* The DllMain a release was called from returns.
LeaveLoader(t) ==
    /\ Alive /\ loader = t /\ app[t] = "idle"
    /\ loader' = "none"
    /\ UNCHANGED <<logFileVars, queue, rx, hand, worker, interfaces, threadId, app, creates,
                   thread, panic, counts>>

\* The program's FreeLibrary, once it has released every interface.
FreeLibrary ==
    /\ Running /\ panic = "no" /\ loader = "none" /\ interfaces = 0
    /\ \A t \in Threads : app[t] = "idle"
    /\ loaded' = FALSE /\ images' = images - 1
    /\ UNCHANGED <<logFileVars, queue, rx, hand, worker, calls, gen, running, exiting, unwaited,
                   panic, counts>>

-----------------------------------------------------------------------------

AppStep(t) ==
    \/ OpenLogLine(t) \/ acquire(t) \/ StartTake(t) \/ Forward(t) \/ StartDrained(t)
    \/ start(t)
    \/ release(t) \/ WaitReturns(t) \/ LeaveLoader(t)
LogStep == LogTake \/ Forward("log") \/ LogPark
PanicStep == forward_parked \/ PanicTake \/ Forward("panic") \/ PanicDrained \/ PanicReport

Next ==
    \/ PeLog \/ UnixLog \/ FaultReport \/ SignalHandler \/ Panic \/ FreeLibrary
    \/ \E t \in Threads : create_interface(t) \/ Release(t) \/ AppStep(t)
    \/ LogStep \/ LogExit \/ PanicStep

Spec == Init /\ [][Next]_vars

-----------------------------------------------------------------------------
(* Properties *)

TypeOK ==
    /\ LogFileTypeOK
    /\ rx \in Receivers \cup {"parked", "lost"}
    /\ worker \in Threads \cup {"none"} /\ loader \in Threads \cup {"none"}
    /\ interfaces \in 0..MaxCreates /\ threadId \in BOOLEAN
    /\ gen \in 0..MaxCreates /\ exiting \subseteq 1..gen /\ unwaited \subseteq LogThreads
    /\ running \in BOOLEAN /\ images \in 0..(MaxCreates + 1)
    /\ app \in [Threads -> {"idle", "opened", "acquire", "start", "spawn", "release", "wait"}]

Logged == {<<"pe", i>> : i \in 1..pe} \cup {<<"unix", i>> : i \in 1..ux}

\* "Lines logged while no thread runs wait in the queue": a logged line is in
\* exactly one place, the queue, a receiver's hand, the backlog, a file or
\* stderr.  Only the backlog's cap, a disk that refuses the first line of a new
\* file and a receiver lost with a failed spawn drop one, whichever threads
\* forwarded, parked, panicked or reported.
LinesKept ==
    \A line \in Logged :
        LET n == Len(SelectSeq(Written \o queue, LAMBDA x : x = line))
                    + Cardinality({r \in Receivers : hand[r] = line})
                    + Cardinality({line} \cap stderr)
        IN  n <= 1 /\ (n = 0 => line \in dropped \/ rx = "lost")

\* Of two lines of one side the older is ahead in the file; a report is
\* behind every unix line logged before it.
Ahead(x, y) ==
    \/ x[1] = y[1] /\ x[1] # "report" /\ x[2] < y[2]
    \/ x[1] = "unix" /\ y[1] = "report" /\ x[2] <= y[2]

\* "the queue keeps their order", "the backlog ahead of itself": within a file
\* lines are in the order they were logged, although successive logging
\* threads, creating threads and the panic hook forwarded them, and a crash
\* report follows the backlog that led up to it.  The note that lines were
\* dropped can only be ahead of them.
FilesInOrder ==
    \A loc \in Locations : \A i, j \in 1..Len(files[loc]) :
        /\ Ahead(files[loc][i], files[loc][j]) => i < j
        /\ files[loc][j] = Note /\ i < j => files[loc][i] = Note

\* A thread in the drop of an interface waits for the worker lock while it may
\* hold the loader lock; the exit of the logging thread waits for the loader
\* lock, and the last release waits for that exit with the worker lock held.
\* These waits never close a cycle, and no Stop stays behind in the queue of a
\* thread that is gone, which would end the next one at its start.
NoWaitCycle ==
    /\ \A t \in Threads : app[t] = "wait" => loader = "none" \/ app[loader] = "idle"
    /\ Contains(queue, Stop) => running

=============================================================================
