--------------------------- MODULE ProcessRunner ---------------------------
(***************************************************************************)
(* SubprocessProcess.run of infrastructure/process.py on POSIX: the        *)
(* caller, the thread that reads the output, the thread that writes the    *)
(* input, the child and one descendant that inherits its pipes.            *)
(*                                                                         *)
(* stdout stands for both outputs.  A buffered stream has a lock that a    *)
(* thread holds for one read or write: close waits while a thread is       *)
(* inside, and that thread may wait for whoever holds the other end of the *)
(* pipe; between two reads the close may come first, and the next read     *)
(* then raises.  Bytes are counted in units of which Chunk make one read.  *)
(***************************************************************************)
EXTENDS Integers, FiniteSetsExt

CONSTANTS
  Cap,           \* output_cap
  Chunk,         \* the size of one read
  MaxOutput,     \* bound on the units ever written
  Kinds,         \* descendants: in the child's process "group" or in a
                 \* "session" of their own
  TreeKillFails  \* whether killing the tree may fail, as taskkill may

ASSUME RunnerAssumption ==
  /\ Cap \in Nat \ {0} /\ Chunk \in Nat \ {0} /\ MaxOutput \in Nat
  /\ Kinds \subseteq {"group", "session"} /\ TreeKillFails \in BOOLEAN

VARIABLES
  pc,            \* where run is
  child, descendant,
  pipe,          \* the processes at the other end of stdin and of stdout
  io,            \* the thread of each stream, "busy" inside of the lock
  closed,        \* the streams that run has closed
  written,       \* units written to stdout
  taken,         \* units the reader has taken from it
  truncated, timedOut,
  text           \* units of the returned output, -1 before

output == <<written, taken, truncated>>
processes == <<child, descendant, pipe>>
run == <<pc, closed, timedOut, text>>
vars == <<processes, io, output, run>>

Waits == {"ready", "failed", "waiting", "killing", "closing",
          "closing output", "reaping", "joining"}
Ends == {"closing again", "closing output again", "assembling", "returned"}

Streams == {"stdin", "stdout"}
Dead == {"exited", "killed"}
Lingering == {"group", "session"}

(***************************************************************************)
(* Mutated forms of the definitions below, one plausible slip each.        *)
(***************************************************************************)
MutantOverCap(n) == n >= Cap - taken
MutantTreeKilled == UNCHANGED <<child, descendant, pipe>>
MutantKept(n) == n
MutantJoined == \A t \in Streams : io[t] # "busy" \/ pipe[t] # {}

(***************************************************************************)
(* Decisions of the reader and of run.                                     *)
(***************************************************************************)
(* A chunk is longer than what is left below the cap. *)
OverCap(n) == n > Max({Cap - taken, 0})
Kept(n) == Min({n, Cap})
Holds(p) == [s \in Streams |-> pipe[s] \cup {p}]
Drops(p) == [s \in Streams |-> pipe[s] \ {p}]
DropsBoth == [s \in Streams |-> pipe[s] \ {"descendant"}]
(* killpg reaches the child and whoever stayed in its process group. *)
TreeKilled ==
  /\ child' = IF child = "running" THEN "dying" ELSE child
  /\ IF descendant = "group"
     THEN descendant' = "ended" /\ pipe' = DropsBoth
     ELSE UNCHANGED <<descendant, pipe>>
(* process.kill reaches the child only. *)
OnlyChildKilled ==
  /\ child' = IF child = "running" THEN "dying" ELSE child
  /\ UNCHANGED <<descendant, pipe>>
(* The joins wait a second for each thread: for one that is on its way out *)
(* that is enough, one whose pipe is held is given up.                     *)
Joined ==
  \A t \in Streams :
    \/ io[t] \in {"none", "done"}
    \/ pipe[t] # {} /\ (io[t] = "busy" \/ (io[t] = "between" /\ t \notin closed))

Init ==
  /\ pc = "ready"
  /\ child = "none" /\ descendant = "none"
  /\ pipe = [s \in Streams |-> {}]
  /\ io = [s \in Streams |-> "none"] /\ closed = {}
  /\ written = 0 /\ taken = 0
  /\ truncated = FALSE /\ timedOut = FALSE
  /\ text = -1

(***************************************************************************)
(* The caller.                                                             *)
(***************************************************************************)
(* Popen raises OSError: an output with start_error. *)
StartFails ==
  /\ pc = "ready"
  /\ pc' = "failed" /\ text' = 0
  /\ UNCHANGED <<processes, io, output, closed, timedOut>>
(* Popen, the readers, and a writer if there is input. *)
Start(input) ==
  /\ pc = "ready"
  /\ pc' = "waiting"
  /\ child' = "running"
  /\ pipe' = Holds("child")
  /\ io' = [s \in Streams |->
              IF s = "stdin" /\ ~ input THEN "none" ELSE "between"]
  /\ UNCHANGED <<descendant, output, closed, timedOut, text>>

(* wait returns, or raises TimeoutExpired. *)
Exited ==
  /\ pc = "waiting" /\ child \in Dead
  /\ pc' = "joining"
  /\ UNCHANGED <<processes, io, output, closed, timedOut, text>>
Expired ==
  /\ pc = "waiting"
  /\ pc' = "killing" /\ timedOut' = TRUE
  /\ UNCHANGED <<processes, io, output, closed, text>>
(* _terminate_process_tree. *)
Kill ==
  /\ pc = "killing"
  /\ pc' = "closing"
  /\ TreeKilled \/ (TreeKillFails /\ OnlyChildKilled)
  /\ UNCHANGED <<io, output, closed, timedOut, text>>
(* One close of the two loops over the streams: it has the lock when no    *)
(* thread is inside. *)
Close(from, s, to) ==
  /\ pc = from /\ io[s] # "busy"
  /\ pc' = to /\ closed' = closed \cup {s}
  /\ UNCHANGED <<processes, io, output, timedOut, text>>
CloseEarly ==
  \/ Close("closing", "stdin", "closing output")
  \/ Close("closing output", "stdout", "reaping")
CloseLate ==
  \/ Close("closing again", "stdin", "closing output again")
  \/ Close("closing output again", "stdout", "assembling")
(* wait(5) returns, or the child is killed once more and waited for. *)
Reap ==
  /\ pc = "reaping"
  /\ \/ child \in Dead /\ UNCHANGED child
     \/ child \notin Dead /\ child' = "dying"
  /\ pc' = "joining"
  /\ UNCHANGED <<descendant, pipe, io, output, closed, timedOut, text>>
Join ==
  /\ pc = "joining" /\ Joined
  /\ pc' = "closing again"
  /\ UNCHANGED <<processes, io, output, closed, timedOut, text>>
(* The output is assembled: a reader that has not appended its bytes       *)
(* counts as one that read nothing.                                        *)
Return ==
  /\ pc = "assembling"
  /\ pc' = "returned"
  /\ text' = IF io["stdout"] = "done" THEN Kept(taken) ELSE 0
  /\ UNCHANGED <<processes, io, output, closed, timedOut>>

(***************************************************************************)
(* The threads.                                                            *)
(***************************************************************************)
(* A thread gets the lock of its stream, or finds the stream closed: the   *)
(* ValueError that ends a reader's loop and a writer. *)
Enter(s) ==
  /\ io[s] = "between" /\ s \notin closed
  /\ io' = [io EXCEPT ![s] = "busy"]
  /\ UNCHANGED <<processes, output, run>>
FindClosed(s) ==
  /\ io[s] = "between" /\ s \in closed
  /\ io' = [io EXCEPT ![s] = "leaving"]
  /\ UNCHANGED <<processes, output, run>>
(* One read of _bounded_reader: a whole chunk, or the rest at the end. *)
Read ==
  /\ io["stdout"] = "busy"
  /\ LET n == Min({Chunk, written - taken})
     IN /\ n > 0 /\ (n = Chunk \/ pipe["stdout"] = {})
        /\ taken' = taken + n
        /\ truncated' = (truncated \/ OverCap(n))
  /\ io' = [io EXCEPT !["stdout"] = "between"]
  /\ UNCHANGED <<processes, written, run>>
(* The read that returns nothing. *)
Eof ==
  /\ io["stdout"] = "busy" /\ pipe["stdout"] = {} /\ taken = written
  /\ io' = [io EXCEPT !["stdout"] = "leaving"]
  /\ UNCHANGED <<processes, output, run>>
(* The reader appends its bytes, a step after it left its loop. *)
Leave(s) ==
  /\ io[s] = "leaving"
  /\ io' = [io EXCEPT ![s] = "done"]
  /\ UNCHANGED <<processes, output, run>>
(* The input is taken, or nobody is left to take it. *)
InputTaken ==
  /\ io["stdin"] = "busy" /\ pipe["stdin"] # {}
  /\ io' = [io EXCEPT !["stdin"] = "leaving"]
  /\ UNCHANGED <<processes, output, run>>
InputRefused ==
  /\ io["stdin"] = "busy" /\ pipe["stdin"] = {}
  /\ io' = [io EXCEPT !["stdin"] = "leaving"]
  /\ UNCHANGED <<processes, output, run>>

(***************************************************************************)
(* The processes.                                                          *)
(***************************************************************************)
(* Nothing goes into a pipe whose other end is closed. *)
Write ==
  /\ pipe["stdout"] # {} /\ "stdout" \notin closed /\ written < MaxOutput
  /\ written' = written + 1
  /\ UNCHANGED <<processes, io, taken, truncated, run>>
Fork(kind) ==
  /\ child = "running" /\ descendant = "none" /\ "child" \in pipe["stdout"]
  /\ descendant' = kind
  /\ pipe' = Holds("descendant")
  /\ UNCHANGED <<child, io, output, run>>
(* The child closes its streams and goes on. *)
Detach ==
  /\ child = "running" /\ "child" \in pipe["stdout"]
  /\ pipe' = Drops("child")
  /\ UNCHANGED <<child, descendant, io, output, run>>
Exit ==
  /\ child = "running"
  /\ child' = "exited" /\ pipe' = Drops("child")
  /\ UNCHANGED <<descendant, io, output, run>>
Die ==
  /\ child = "dying"
  /\ child' = "killed" /\ pipe' = Drops("child")
  /\ UNCHANGED <<descendant, io, output, run>>
DescendantEnds ==
  /\ descendant \in Lingering
  /\ descendant' = "ended" /\ pipe' = Drops("descendant")
  /\ UNCHANGED <<child, io, output, run>>

Caller ==
  Exited \/ Expired \/ Kill \/ CloseEarly \/ Reap \/ Join \/ CloseLate \/ Return
Threads ==
  \/ \E s \in Streams : Enter(s) \/ FindClosed(s) \/ Leave(s)
  \/ Read \/ Eof \/ InputRefused
Next ==
  \/ StartFails \/ (\E input \in BOOLEAN : Start(input))
  \/ Caller \/ Threads \/ InputTaken
  \/ Write \/ (\E kind \in Kinds : Fork(kind)) \/ Detach \/ Exit \/ Die
  \/ DescendantEnds

Spec == Init /\ [][Next]_vars

(* run and its threads go on, timers fire, and a process that got SIGKILL  *)
(* dies.  No process has to exit, to read or to write.                     *)
Fairness == WF_vars(Caller) /\ WF_vars(Threads) /\ WF_vars(Die)
FairSpec == Spec /\ Fairness

(***************************************************************************)
(* Properties.                                                             *)
(***************************************************************************)
TypeOK ==
  /\ pc \in Waits \cup Ends
  /\ child \in {"none", "running", "dying"} \cup Dead
  /\ descendant \in {"none", "ended"} \cup Lingering
  /\ pipe \in [Streams -> SUBSET {"child", "descendant"}]
  /\ io \in [Streams -> {"none", "between", "busy", "leaving", "done"}]
  /\ closed \subseteq Streams
  /\ written \in 0..MaxOutput /\ taken \in 0..written
  /\ truncated \in BOOLEAN /\ timedOut \in BOOLEAN
  /\ text \in -1..Cap

(* The output of a child that ended in time is complete up to the cap and  *)
(* is marked exactly when something was cut, also at the boundary of the   *)
(* cap; only a descendant that kept the pipe can make it less              *)
(* (_bounded_reader, run).                                                 *)
HonestOutput ==
  (pc = "returned" /\ ~ timedOut /\ descendant = "none") =>
    /\ text = Min({written, Cap})
    /\ truncated <=> written > Cap

(* run that timed out waits for its reader however the close met it, and   *)
(* returns exactly what that reader read, marked when that was cut at the  *)
(* cap.  What was still in the pipe when the close came between two reads  *)
(* is gone without a mark: only timed_out tells the caller (run,           *)
(* _bounded_reader).                                                       *)
TimeoutKeepsWhatWasRead ==
  (pc = "returned" /\ timedOut) =>
    /\ io["stdout"] = "done" /\ text = Min({taken, Cap})
    /\ truncated <=> taken > Cap

(* run returns after its timers, unless a descendant keeps a pipe open.    *)
ReturnsUnlessHeld ==
  pc = "waiting" ~> (pc = "returned" \/ descendant \in Lingering)

(* "Execute one explicit argv request and kill it on a hard timeout": run  *)
(* returns whatever the processes do (SubprocessProcess).                  *)
HardTimeout == pc = "waiting" ~> pc = "returned"

(***************************************************************************)
(* Why the output is honest.                                               *)
(***************************************************************************)
(* Only live processes hold a pipe. *)
HeldByTheLiving ==
  \A s \in Streams :
    /\ "child" \in pipe[s] => child \in {"running", "dying"}
    /\ "descendant" \in pipe[s] => descendant \in Lingering

(* The reader marks what it cuts, and leaves at the end of the output or   *)
(* because its stream is closed. *)
ReaderIsExact ==
  /\ io["stdout"] = "none" <=> pc \in {"ready", "failed"}
  /\ truncated <=> taken > Cap
  /\ io["stdout"] \in {"leaving", "done"} =>
       "stdout" \in closed \/ (pipe["stdout"] = {} /\ taken = written)
  /\ "stdout" \in closed => io["stdout"] # "busy"

(* run gets past wait with a dead child and an open stream, or past the    *)
(* early close with a closed one. *)
Passed ==
  /\ pc \in {"ready", "failed", "waiting"} => ~ timedOut
  /\ pc \in {"killing", "closing", "closing output", "reaping"} => timedOut
  /\ pc \in Ends \cup {"joining"} /\ ~ timedOut => child \in Dead
  /\ pc \in Waits =>
       ("stdout" \in closed <=> pc = "reaping" \/ (pc = "joining" /\ timedOut))

(* Past the joins the reader of a run that timed out is done; so is, with  *)
(* all of the output, that of a child that left nobody behind. *)
ReaderIsDone ==
  pc \in Ends /\ (timedOut \/ descendant = "none") =>
    /\ io["stdout"] = "done"
    /\ ~ timedOut => pipe["stdout"] = {} /\ taken = written
    /\ pc = "returned" => text = Kept(taken)

OutputInv == HeldByTheLiving /\ ReaderIsExact /\ Passed /\ ReaderIsDone
=============================================================================
