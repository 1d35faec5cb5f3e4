------------------------------ MODULE LogWatch ------------------------------
(***************************************************************************)
(* The log file (support/log_store.rs), to which every mcpway process      *)
(* appends, and which a process that starts truncates when it has grown    *)
(* too large; and those who watch it: `logs tail` (logs.rs), or the web    *)
(* inspector's tailer with the socket of a browser (web/mod.rs).           *)
(*                                                                         *)
(* A record is its number of writing and a line of the file: one write,    *)
(* unless it is longer than the writer's buffer of 8 KiB, which is left    *)
(* out.  So are the filters, which only hide records.                      *)
(***************************************************************************)
EXTENDS Naturals, Sequences

CONSTANTS
  Writers,       \* processes that log
  MaxRecords,    \* bound on the records written
  MaxShown,      \* bound: a tail goes back to the start while it has shown less
  MaxLines,      \* the lines that MAX_LOG_FILE_BYTES hold
  Lines,         \* the recent lines that a tail begins with
  StreamBuffer   \* LOG_STREAM_BUFFER: records kept for a slow socket

ASSUME LimitsAreNumbers == Lines \in Nat /\ StreamBuffer \in Nat

VARIABLES
  log,        \* the lines of the file
  written,    \* the records written so far
  process,    \* process[p]: how far a process is with the file
  watch,      \* the watcher: its kind and stage, its offset, what it has read, and,
              \* history, how much it had shown when it last went back to the start
              \* of the file for a size that it could not take (since)
  shown,      \* history: the records a tail printed, or the tailer broadcast
  stream,     \* records broadcast and not yet received by the socket
  received    \* history: the records the socket got

logVars == <<log, written, process, watch, shown, stream, received>>

Watcher == "watcher"

LogInit ==
  /\ log = <<>> /\ written = 0
  /\ process = [p \in Writers \cup {Watcher} |-> "off"]
  /\ watch \in {[kind |-> k, stage |-> "off", offset |-> 0, size |-> 0, text |-> <<>>, since |-> 0] :
                  k \in {"tail", "web"}}
  /\ shown = <<>> /\ stream = <<>> /\ received = <<>>

-----------------------------------------------------------------------------
(* The file *)

\* prepare_log_file looks at the size, in a watcher as in any process ...
Prepare(p) ==
  /\ process[p] = "off"
  /\ process' = [process EXCEPT ![p] = IF Len(log) > MaxLines THEN "truncate" ELSE "open"]
  /\ UNCHANGED <<log, written, watch, shown, stream, received>>

\* ... and truncates in a step of its own.
Truncate(p) ==
  /\ process[p] = "truncate"
  /\ log' = <<>>
  /\ process' = [process EXCEPT ![p] = "open"]
  /\ UNCHANGED <<written, watch, shown, stream, received>>

\* on_event: a line at the end of the file, wherever that is by now.
Record(p) ==
  /\ process[p] = "open" /\ p # Watcher
  /\ written < MaxRecords
  /\ written' = written + 1
  /\ log' = Append(log, written')
  /\ UNCHANGED <<process, watch, shown, stream, received>>

\* A process ends, and may be started again.
Exit(p) ==
  /\ process[p] # "off" /\ p # Watcher
  /\ process' = [process EXCEPT ![p] = "off"]
  /\ UNCHANGED <<log, written, watch, shown, stream, received>>

-----------------------------------------------------------------------------
(* run_tail, spawn_log_tailer *)

Latest(lines, n) == IF Len(lines) > n THEN SubSeq(lines, Len(lines) - n + 1, Len(lines)) ELSE lines

\* Lines are printed, or broadcast: the socket keeps the latest.
ShowLines(lines) ==
  /\ shown' = shown \o lines
  /\ stream' = IF watch.kind = "tail" THEN <<>> ELSE Latest(stream \o lines, StreamBuffer)

\* The window of print_recent_lines makes room before it takes a line, so that
\* --lines 0 leaves one.
Window == IF Lines = 0 THEN 1 ELSE Lines

\* print_recent_lines; the tailer of the inspector shows nothing of the past.
ShowRecent ==
  /\ process[Watcher] = "open" /\ watch.stage = "off"
  /\ watch' = [watch EXCEPT !.stage = "mark"]
  /\ ShowLines(IF watch.kind = "tail" THEN Latest(log, Window) ELSE <<>>)
  /\ UNCHANGED <<log, written, process, received>>

\* The end of the file as it is now is where to go on.
Mark ==
  /\ watch.stage = "mark"
  /\ watch' = [watch EXCEPT !.stage = "sleep", !.offset = Len(log)]
  /\ UNCHANGED <<log, written, process, shown, stream, received>>

\* Both begin at the start of a file whose size they cannot take.
MarkFails ==
  /\ watch.stage = "mark"
  /\ watch' = [watch EXCEPT !.stage = "sleep", !.offset = 0, !.since = Len(shown)]
  /\ UNCHANGED <<log, written, process, shown, stream, received>>

\* A file that has become shorter than the offset is read from its start.
Looked(size) ==
  [watch EXCEPT !.stage = "read", !.size = size, !.offset = IF size < @ THEN 0 ELSE @]

\* After the sleep.
LookAtSize ==
  /\ watch.stage = "sleep"
  /\ watch' = Looked(Len(log))
  /\ UNCHANGED <<log, written, process, shown, stream, received>>

\* A tail takes a size that it cannot get for 0 and shows the whole file again;
\* the tailer goes back to sleep, which changes nothing.
LookFails ==
  /\ watch.stage = "sleep" /\ watch.kind = "tail"
  /\ Len(shown) < MaxShown
  /\ watch' = [Looked(0) EXCEPT !.since = IF watch.offset > 0 THEN Len(shown) ELSE @]
  /\ UNCHANGED <<log, written, process, shown, stream, received>>

ReadOn ==
  /\ watch.stage = "read"
  /\ watch' = [watch EXCEPT !.stage = "seek",
                            !.text = SubSeq(log, watch.offset + 1, Len(log))]
  /\ UNCHANGED <<log, written, process, shown, stream, received>>

\* Mutant: the size that was seen before the read.
NextOffsetSeen == watch.size

\* The end of the file after the read.
NextOffset == Len(log)

\* What was read is shown; what came between the read and this is never read.
SeekEnd ==
  /\ watch.stage = "seek"
  /\ watch' = [watch EXCEPT !.stage = "sleep", !.offset = NextOffset, !.text = <<>>]
  /\ ShowLines(watch.text)
  /\ UNCHANGED <<log, written, process, received>>

\* A file that cannot be opened or read ends a tail; the tailer tries again.
ReadFails ==
  /\ watch.stage \in {"read", "seek"}
  /\ watch' = [watch EXCEPT !.stage = IF watch.kind = "tail" THEN "ended" ELSE "sleep",
                            !.text = <<>>]
  /\ UNCHANGED <<log, written, process, shown, stream, received>>

\* handle_logs_socket: a receiver that lags skips what is gone.
SocketReceives ==
  /\ stream # <<>>
  /\ received' = Append(received, Head(stream))
  /\ stream' = Tail(stream)
  /\ UNCHANGED <<log, written, process, watch, shown>>

LogNext ==
  \/ \E p \in Writers \cup {Watcher} : Prepare(p) \/ Truncate(p) \/ Record(p) \/ Exit(p)
  \/ ShowRecent \/ Mark \/ MarkFails \/ LookAtSize \/ LookFails
  \/ ReadOn \/ SeekEnd \/ ReadFails \/ SocketReceives

LogSpec == LogInit /\ [][LogNext]_logVars

-----------------------------------------------------------------------------
(* Properties *)

Increasing(records) == \A i \in 1 .. Len(records) - 1 : records[i] < records[i + 1]

(***************************************************************************)
(* Nobody is shown a record twice, or after a later one, however appends,  *)
(* truncations and failed opens, reads and seeks fall between the steps of *)
(* a watcher.  The exception is a tail that cannot take the size of the    *)
(* file: it shows the file again from its start, and from there on each    *)
(* record once.  The inspector's tailer, and with it the socket, has no    *)
(* exception.                                                              *)
(***************************************************************************)
ShownOnce ==
  /\ \A i \in watch.since + 1 .. Len(shown) - 1 : shown[i] < shown[i + 1]
  /\ watch.kind = "web" => watch.since = 0
  /\ Increasing(received)
=============================================================================
