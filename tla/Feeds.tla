-------------------------------- MODULE Feeds --------------------------------
(* Everything that feeds the writer, and how the process stops: the control *)
(* socket, one connection at a time; the venue worker, which forwards what  *)
(* the stream's thread has read; the writer, with its batches and its last  *)
(* drain; and main, which waits for a signal, asks for a stop, and exits    *)
(* after a fixed pause whatever the others are doing.                       *)
EXTENDS Stream, FiniteSets, SequencesExt

CONSTANTS
  Lines,        \* what clients write, in order; "bad" is not a command
  MaxFatal      \* bound: errors the writer must not trade through

VARIABLES
  line,       \* lines the control thread has read
  answers,    \* what it answered to each: TRUE for {"ok":true}
  commands,   \* the channel to the writer
  worker,     \* "loop" or "ended"
  writer,     \* "wait", "flush", "drain", "last flush" or "ended"
  applied,    \* what the engine has applied, in order
  durable,    \* how much of that is flushed
  running,    \* the shared flag
  main,       \* "waiting", "stopping" or "exited"
  fatal,      \* fatal errors so far
  inTime,     \* history: the lines answered with ok before the stop
  undrained   \* history: the writer left with the channel as it was

feedVars == <<line, answers, commands, worker, writer, applied, durable, running, main,
              fatal, inTime, undrained>>
vars == <<streamVars, feedVars>>

Up      == main # "exited"
Wanted  == Up /\ worker = "loop"      \* the adapter lives in the worker
Hearing == Up /\ writer # "ended"     \* the receiver lives in the writer

FromControl(k) == [from |-> "control", what |-> k]
FromStream(e)  == [from |-> "stream", what |-> e]

Init ==
  /\ StreamInit
  /\ line = 0 /\ answers = <<>> /\ commands = <<>> /\ worker = "loop"
  /\ writer = "wait" /\ applied = <<>> /\ durable = 0
  /\ running = TRUE /\ main = "waiting" /\ fatal = 0 /\ inTime = {} /\ undrained = FALSE

(* parse and Runtime::submit: ok says that the channel took the command.    *)
(* A connection once accepted is served after the stop, too.                *)
HandleLine ==
  LET k    == line + 1
      sent == Lines[k] # "bad" /\ writer # "ended"
  IN  /\ Up /\ line < Len(Lines)
      /\ line' = k
      /\ answers' = Append(answers, sent)
      /\ commands' = IF sent THEN Append(commands, FromControl(k)) ELSE commands
      /\ inTime' = IF sent /\ running THEN inTime \cup {k} ELSE inTime
      /\ UNCHANGED <<streamVars, worker, writer, applied, durable, running, main, fatal,
                     undrained>>

(* drain_events, in the order they were read; the worker ends when the      *)
(* writer is gone or the flag is down.                                      *)
WorkerForwards ==
  /\ Up /\ worker = "loop" /\ Hearing /\ events # <<>>
  /\ commands' = commands \o [n \in DOMAIN events |-> FromStream(events[n])]
  /\ events' = <<>>
  /\ UNCHANGED <<reader, backoff, socket, pushed, serial, conn, drops, line, answers, worker,
                 writer, applied, durable, running, main, fatal, inTime, undrained>>

WorkerEnds ==
  /\ Up /\ worker = "loop"
  /\ ~running \/ ~Hearing
  /\ worker' = "ended"
  /\ UNCHANGED <<streamVars, line, answers, commands, writer, applied, durable, running, main,
                 fatal, inTime, undrained>>

Fatal == fatal < MaxFatal /\ fatal' = fatal + 1

(* The writer stops where it is: the rest of the batch and the channel are  *)
(* dropped with it.                                                         *)
Stops == writer' = "ended" /\ running' = FALSE

(* A writer blocked on the channel takes what is there, the flag down or    *)
(* not, and applies it in order, up to a fatal error.                       *)
WriterApplies ==
  /\ Up /\ writer = "wait" /\ commands # <<>>
  /\ commands' = <<>>
  /\ \/ applied' = applied \o commands /\ writer' = "flush" /\ UNCHANGED <<running, fatal>>
     \/ /\ \E n \in 0..(Len(commands) - 1) : applied' = applied \o SubSeq(commands, 1, n)
        /\ Fatal /\ Stops
  /\ UNCHANGED <<streamVars, line, answers, worker, durable, main, inTime, undrained>>

(* The batch is flushed and its requests are sent to the worker.  Once the  *)
(* worker has left its loop nobody receives them: the writer returns there  *)
(* and then, without draining and without an error.  Any batch may hold a   *)
(* request, for the ticker's sweep asks for the positions.                  *)
WriterFlushes ==
  /\ Up /\ writer = "flush"
  /\ \/ /\ durable' = Len(applied) /\ UNCHANGED <<running, fatal>>
        /\ \/ writer' = "wait" /\ UNCHANGED undrained
           \/ worker = "ended" /\ writer' = "ended" /\ undrained' = TRUE
     \/ Fatal /\ Stops /\ UNCHANGED <<durable, undrained>>
  /\ UNCHANGED <<streamVars, line, answers, commands, worker, applied, main, inTime>>

WriterSeesStop ==
  /\ Up /\ writer = "wait" /\ ~running
  /\ writer' = "drain"
  /\ UNCHANGED <<streamVars, line, answers, commands, worker, applied, durable, running, main,
                 fatal, inTime, undrained>>

(* Mutant: the writer leaves at once.                                       *)
LeaveUndrained ==
  /\ Up /\ writer = "drain"
  /\ writer' = "last flush" /\ UNCHANGED <<applied, commands>>
  /\ UNCHANGED <<streamVars, line, answers, worker, durable, running, main, fatal, inTime,
                 undrained>>

(* One command at a time until the channel is found empty; errors are       *)
(* dropped, a fatal one too.                                                *)
WriterDrains ==
  /\ Up /\ writer = "drain"
  /\ \/ /\ commands # <<>>
        /\ applied' = Append(applied, Head(commands)) /\ commands' = Tail(commands)
        /\ UNCHANGED writer
     \/ commands = <<>> /\ writer' = "last flush" /\ UNCHANGED <<applied, commands>>
  /\ UNCHANGED <<streamVars, line, answers, worker, durable, running, main, fatal, inTime,
                 undrained>>

LastFlush ==
  /\ Up /\ writer = "last flush"
  /\ \/ durable' = Len(applied) /\ UNCHANGED fatal
     \/ Fatal /\ UNCHANGED durable
  /\ writer' = "ended"
  /\ UNCHANGED <<streamVars, line, answers, commands, worker, applied, running, main, inTime,
                 undrained>>

(* A signal, or the writer's own stop, ends the wait; the pause that        *)
(* follows does not wait for anyone.                                        *)
MainStops ==
  /\ main = "waiting"
  /\ main' = "stopping" /\ running' = FALSE
  /\ UNCHANGED <<streamVars, line, answers, commands, worker, writer, applied, durable, fatal,
                 inTime, undrained>>

MainExits ==
  /\ main = "stopping"
  /\ main' = "exited"
  /\ UNCHANGED <<streamVars, line, answers, commands, worker, writer, applied, durable, running,
                 fatal, inTime, undrained>>

Next ==
  \/ HandleLine \/ WorkerForwards \/ WorkerEnds
  \/ WriterApplies \/ WriterFlushes \/ WriterSeesStop \/ WriterDrains \/ LastFlush
  \/ MainStops \/ MainExits
  \/ Up /\ StreamNext(Wanted) /\ UNCHANGED feedVars

Spec == Init /\ [][Next]_vars

----------------------------------------------------------------------------
From(s, source) == {n \in DOMAIN s : s[n].from = source}

(* The frame f has become one of the commands s.                            *)
Fed(s, f) == \E n \in From(s, "stream") : s[n].what.serial = f.serial

(* The frame f carries something.                                           *)
Decoded(f) == decode_frame(f) # <<>>

(* The event d was said before e: in an earlier frame, or earlier in it.    *)
Precedes(d, e) == d.serial < e.serial \/ (d.serial = e.serial /\ d.place < e.place)

(* What the engine applies is what was said, in the order it was said: the  *)
(* control socket's commands are among those it answered with ok; the       *)
(* stream's are carried by frames that came, in their order; of each        *)
(* connection the frames that were applied are a prefix of those that carry *)
(* something, so a lost frame is followed by none of its connection; and no *)
(* two executions share an id.                                              *)
FedInOrder ==
  LET said == From(applied, "control")
      read == From(applied, "stream")
      what(n) == applied[n].what
  IN  /\ \A n \in said : answers[what(n)]
      /\ \A m, n \in said : m < n => what(m) < what(n)
      /\ \A m, n \in read : m < n => Precedes(what(m), what(n))
      /\ \A n \in read : \E i \in DOMAIN pushed :
           /\ pushed[i].serial = what(n).serial /\ pushed[i].conn = what(n).conn
           /\ Decoded(pushed[i])
      /\ \A i, j \in DOMAIN pushed :
           /\ i < j /\ pushed[i].conn = pushed[j].conn /\ Decoded(pushed[i])
           /\ Fed(applied, pushed[j])
           => Fed(applied, pushed[i])
      /\ \A m, n \in read :
           m # n /\ what(m).kind = "Fill" /\ what(n).kind = "Fill"
             => what(m).exec # what(n).exec

(* The command of line k is applied and flushed.                            *)
Durable(k) == \E n \in 1..durable : applied[n] = FromControl(k)

(* The drain loses nothing: when the writer has ended without an error, all *)
(* it applied is flushed; every command answered with ok while the process  *)
(* was running is, too, unless the writer left without draining; and even   *)
(* then what is lost was accepted after everything that is kept.            *)
DrainKeepsAccepted ==
  writer = "ended" /\ fatal = 0 =>
    /\ durable = Len(applied)
    /\ ~undrained => \A k \in inTime : Durable(k)
    /\ \A j, k \in inTime : j < k /\ Durable(k) => Durable(j)

(* "Drains before exiting: the writer finishes what is queued and flushes,  *)
(* so no accepted command is lost at shutdown" (Runtime::stop, and the same *)
(* beside the drain).  The code does not keep this: see WriterFlushes.      *)
StopKeepsAccepted ==
  writer = "ended" /\ fatal = 0 => \A k \in inTime : Durable(k)
=============================================================================
