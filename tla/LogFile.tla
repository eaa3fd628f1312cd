------------------------------ MODULE LogFile ------------------------------
(***************************************************************************)
(* The unix side's log file: the backlog kept until the location is named, *)
(* the file the first line creates, the fallback to stderr, and the crash  *)
(* reports that open the early location or write the raw descriptor.       *)
(*                                                                         *)
(* Every call runs under the sink's mutex from its decision to its last    *)
(* write, so each is one step.  A fault report only tries that mutex; it   *)
(* may find it busy, because the faulting thread itself may hold it.       *)
(***************************************************************************)
EXTENDS Integers, Sequences, SequencesExt

CONSTANTS
    BacklogCap,     \* BACKLOG_CAP, in lines
    FileFaults      \* the file operations that may fail: "create", "first",
                    \* "append"

VARIABLES
    sink,           \* SINK: st, backlog, truncated and early
    logFd,          \* LOG_FD: the location whose file it names, "closed", or "stale"
                    \* when it names a descriptor that was closed
    files,          \* what each location's file holds
    stderr,         \* what went to stderr; its order is nobody's promise
    dropped         \* the lines the cap or a failed write dropped

logFileVars == <<sink, logFd, files, stderr, dropped>>

Locations == {"early", "named"}

\* TRUNCATED_NOTE, a line of its own.
Note == <<"note", 0>>
NoteOf(truncated) == IF truncated THEN <<Note>> ELSE << >>

Stderr == [st |-> "stderr", backlog |-> << >>, truncated |-> FALSE, early |-> FALSE]

\* A fresh SINK; InitLogger named the early location, or derived none.
LogFileInit ==
    /\ \E e \in BOOLEAN :
           sink = [st |-> "pending", backlog |-> << >>, truncated |-> FALSE, early |-> e]
    /\ logFd = "closed"
    /\ files = [loc \in Locations |-> << >>]
    /\ stderr = {}
    /\ dropped = {}

\* Where a lazy sink creates its file, and where an open one has it.
Location(s) == IF s.early THEN "early" ELSE "named"

-----------------------------------------------------------------------------
(* write_locked *)

\* Pending: the line waits in the backlog, or the cap drops it.
HoldLine(line) ==
    /\ sink.st = "pending"
    /\ IF Len(sink.backlog) + 1 <= BacklogCap
       THEN /\ sink' = [sink EXCEPT !.backlog = Append(@, line)]
            /\ UNCHANGED dropped
       ELSE /\ sink' = [sink EXCEPT !.truncated = TRUE]
            /\ dropped' = dropped \cup {line}
    /\ UNCHANGED <<logFd, files, stderr>>

\* Lazy: create writes the note and the backlog, then the line follows.
CreateFile(s, line) ==
    /\ s.st = "lazy"
    /\ files' = [files EXCEPT ![Location(s)] =
                    @ \o NoteOf(s.truncated) \o s.backlog \o <<line>>]
    /\ logFd' = Location(s)
    /\ sink' = [st |-> "open", backlog |-> << >>, truncated |-> FALSE, early |-> s.early]
    /\ UNCHANGED <<stderr, dropped>>

\* Lazy, with the backlog written and the line refused: the descriptor is
\* stored, the file is closed with the sink, and stderr gets nothing.
FirstLineFails(s, line) ==
    /\ "first" \in FileFaults
    /\ s.st = "lazy"
    /\ files' = [files EXCEPT ![Location(s)] = @ \o NoteOf(s.truncated) \o s.backlog]
    /\ logFd' = "stale"
    /\ sink' = Stderr
    /\ dropped' = dropped \cup {line}
    /\ UNCHANGED stderr

\* create failed: backlog and line go to stderr.
CreateFails(s, line) ==
    /\ "create" \in FileFaults
    /\ s.st = "lazy"
    /\ stderr' = stderr \cup Range(s.backlog) \cup {line}
    /\ sink' = Stderr
    /\ UNCHANGED <<logFd, files, dropped>>

AppendLine(line) ==
    /\ sink.st = "open"
    /\ files' = [files EXCEPT ![Location(sink)] = Append(@, line)]
    /\ UNCHANGED <<sink, logFd, stderr, dropped>>

\* The write to the open file failed.
AppendFails(line) ==
    /\ "append" \in FileFaults
    /\ sink.st = "open"
    /\ stderr' = stderr \cup {line}
    /\ logFd' = "closed"
    /\ sink' = Stderr
    /\ UNCHANGED <<files, dropped>>

StderrLine(line) ==
    /\ sink.st = "stderr"
    /\ stderr' = stderr \cup {line}
    /\ UNCHANGED <<sink, logFd, files, dropped>>

\* write_locked on a sink that is, or has just become, s.
WriteLocked(s, line) ==
    \/ CreateFile(s, line)
    \/ FirstLineFails(s, line)
    \/ CreateFails(s, line)

\* write_all
write_all(line) ==
    \/ HoldLine(line)
    \/ WriteLocked(sink, line)
    \/ AppendLine(line)
    \/ AppendFails(line)
    \/ StderrLine(line)

-----------------------------------------------------------------------------
(* OpenLog *)

\* open: an open file stays the log; anything else is created at the named
\* location by its next line, with the backlog it has.
open ==
    /\ sink' = IF sink.st = "open" THEN sink
               ELSE [st |-> "lazy", backlog |-> sink.backlog,
                     truncated |-> sink.truncated, early |-> FALSE]
    /\ UNCHANGED <<logFd, files, stderr, dropped>>

\* fall_back_to_stderr
fall_back_to_stderr ==
    /\ IF sink.st = "open" THEN UNCHANGED <<sink, stderr>>
       ELSE /\ sink' = Stderr
            /\ stderr' = stderr \cup Range(sink.backlog)
    /\ UNCHANGED <<logFd, files, dropped>>

-----------------------------------------------------------------------------
(* Fault reports *)

\* raw_fd and write_raw: the descriptor as it stands, or stderr without one.
write_bytes(line) ==
    /\ stderr' = stderr \cup (IF logFd = "closed" THEN {line} ELSE {})
    /\ dropped' = dropped \cup (IF logFd = "stale" THEN {line} ELSE {})
    /\ files' = [loc \in Locations |-> IF loc = logFd THEN Append(files[loc], line) ELSE files[loc]]
    /\ UNCHANGED <<sink, logFd>>

\* take_backlog_for_stderr and spill_from_signal: the backlog and the report go
\* to stderr, and so does everything after them.
SpillToStderr(line) ==
    /\ sink' = Stderr
    /\ stderr' = stderr \cup Range(sink.backlog) \cup {line}
    /\ UNCHANGED <<logFd, files, dropped>>

\* write_report, mutated: the early file starts with the report.
write_report_mutated(line, terminal, busy) ==
    IF ~busy /\ sink.st = "pending" /\ terminal /\ sink.early
    THEN WriteLocked([sink EXCEPT !.st = "lazy", !.backlog = << >>], line)
    ELSE write_all(line)

\* write_report: crash_route on an ordinary thread.
write_report(line, terminal, busy) ==
    IF busy THEN write_bytes(line)
    ELSE IF sink.st = "pending" /\ terminal
         THEN IF sink.early THEN WriteLocked([sink EXCEPT !.st = "lazy"], line)
                            ELSE SpillToStderr(line)
         ELSE write_all(line)

\* open_early_from_signal: the backlog, then the report, on the early file or,
\* when it cannot be opened, on stderr.
OpenEarlyFromSignal(line) ==
    \/ CreateFile([sink EXCEPT !.st = "lazy"], line)
    \/ "create" \in FileFaults /\ SpillToStderr(line)

\* A signal handler's report through crash_fd when terminal, else raw_fd.
SignalReport(line, terminal, busy) ==
    IF ~busy /\ logFd = "closed" /\ sink.st = "pending" /\ terminal
    THEN IF sink.early THEN OpenEarlyFromSignal(line) ELSE SpillToStderr(line)
    ELSE write_bytes(line)

-----------------------------------------------------------------------------
(* What the file promises *)

LogFileTypeOK ==
    /\ sink.st \in {"pending", "lazy", "open", "stderr"}
    /\ sink.truncated \in BOOLEAN /\ sink.early \in BOOLEAN
    /\ Len(sink.backlog) <= BacklogCap
    /\ logFd \in Locations \cup {"closed", "stale"}

\* Every line the unix side was given and did not print, file or backlog.
Written == files["early"] \o files["named"] \o sink.backlog

=============================================================================
