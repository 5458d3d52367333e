-------------------------------- MODULE Process ------------------------------
(***************************************************************************)
(* The process module of the luaml standard library (stdlib/process.rs):   *)
(* one-shot exec, and the handle of a long-lived child.                    *)
(*                                                                         *)
(* A child is a program of reads and writes and runs at its own pace.  It  *)
(* is connected by two pipes of bounded capacity (stderr is like stdout).  *)
(* The calls of the script block; the task of wait_async runs beside it.   *)
(* Data is abstracted to its amount.                                       *)
(*                                                                         *)
(* A definition whose name starts with Slip is not part of the model: it   *)
(* is what the one after it would be with a plausible bug in that code,    *)
(* kept to show which property notices.                                    *)
(***************************************************************************)
EXTENDS Naturals, Sequences, FiniteSets

CONSTANTS
  Program,   \* the programs that can be run: sequences of Steps
  Capacity,  \* of a pipe
  MaxInput   \* bound: of the bytes given to one call

Steps == {"read", "drain", "write", "hang"}

ASSUME ProcessAssumption ==
  /\ Program \subseteq Seq(Steps)
  /\ Capacity \in Nat \ {0}
  /\ MaxInput \in Nat

VARIABLES
  spec,     \* the ExecSpec of the child
  child,    \* the process
  at,       \* the step of its program it is at
  stdin,    \* pipe to the child: what is in it, and whether its write end is open
  stdout,   \* pipe from the child: what is in it, and whether its read end is open
  wrote,    \* how much the child has written (auxiliary)
  got,      \* how much of it has reached the script
  blocked,  \* the call the script is in
  left,     \* what the call has still to write
  handle,   \* the ChildHandle: it has the child, or a wait has taken it
  waiter,   \* the task of wait_async
  returned  \* what the last call returned

processVars == <<spec, child, at, stdin, stdout, wrote, got, blocked, left, handle, waiter, returned>>
program == <<spec, child, at, wrote>>
script == <<got, blocked, left, handle, waiter, returned>>

Pipe(holds, open) == [holds |-> holds, open |-> open]
More(pipe) == Pipe(pipe.holds + 1, pipe.open)
Less(pipe) == Pipe(pipe.holds - 1, pipe.open)
Close(pipe) == Pipe(pipe.holds, FALSE)

Specs ==
  [program : Program, piped : BOOLEAN, stdin : 0 .. MaxInput, timeout : BOOLEAN]

ProcessInit ==
  /\ spec \in Specs
  /\ spec.piped \/ spec.stdin = 0
  /\ child = "none"
  /\ at = 1
  /\ stdin = Pipe(0, FALSE)
  /\ stdout = Pipe(0, FALSE)
  /\ wrote = 0
  /\ got = 0
  /\ blocked = "none"
  /\ left = 0
  /\ handle = "none"
  /\ waiter = "none"
  /\ returned = "none"

Running == child = "running"
Dead == child \in {"exited", "killed"}

-----------------------------------------------------------------------------
(* The child.                                                              *)

Doing(step) == Running /\ at <= Len(spec.program) /\ spec.program[at] = step

\* "read" takes one byte or sees the end of the input; "drain" reads until that end.
ChildRead ==
  /\ Doing("read") \/ Doing("drain")
  /\ \/ /\ stdin.holds > 0
        /\ stdin' = Less(stdin)
        /\ at' = IF Doing("read") THEN at + 1 ELSE at
     \/ /\ stdin.holds = 0
        /\ ~stdin.open
        /\ at' = at + 1
        /\ UNCHANGED stdin
  /\ UNCHANGED <<spec, child, stdout, wrote, script>>

ChildWrite ==
  /\ Doing("write")
  /\ stdout.open
  /\ stdout.holds < Capacity
  /\ stdout' = More(stdout)
  /\ wrote' = wrote + 1
  /\ at' = at + 1
  /\ UNCHANGED <<spec, child, stdin, script>>

\* A write to a pipe that nobody can read is fatal.
ChildBreaks ==
  /\ Doing("write")
  /\ ~stdout.open
  /\ child' = "killed"
  /\ UNCHANGED <<spec, at, stdin, stdout, wrote, script>>

ChildExit ==
  /\ Running
  /\ at > Len(spec.program)
  /\ child' = "exited"
  /\ UNCHANGED <<spec, at, stdin, stdout, wrote, script>>

Child == ChildRead \/ ChildWrite \/ ChildBreaks \/ ChildExit

-----------------------------------------------------------------------------
(* Starting a child.                                                       *)

Free == blocked = "none"

Return(result) == blocked' = "none" /\ left' = 0 /\ returned' = result

\* Bound: one child.  An exec without input leaves the child the input of the engine,
\* taken to be at its end.
StartChild(op, piped) ==
  /\ Free
  /\ child = "none"
  /\ child' = "running"
  /\ stdin' = Pipe(0, piped)
  /\ stdout' = Pipe(0, TRUE)
  /\ blocked' = op
  /\ left' = spec.stdin
  /\ UNCHANGED <<spec, at, wrote, got, handle, waiter, returned>>

Exec == StartChild("exec", spec.piped)
Spawn == StartChild("spawn", TRUE)

StartFails ==
  /\ Free
  /\ child = "none"
  /\ Return("error")
  /\ UNCHANGED <<program, stdin, stdout, got, handle, waiter>>

\* write_all, of a call of either kind or of stdin_write.
Feeding == blocked \in {"exec", "spawn", "stdin_write"}

Feed ==
  /\ Feeding
  /\ left > 0
  /\ Running
  /\ stdin.holds < Capacity
  /\ stdin' = More(stdin)
  /\ left' = left - 1
  /\ UNCHANGED <<program, stdout, got, blocked, handle, waiter, returned>>

\* The child has gone without reading its input.  exec and spawn drop it with its pipes.
FeedFails ==
  /\ Feeding
  /\ left > 0
  /\ Dead
  /\ Return("error")
  /\ IF blocked = "stdin_write" THEN UNCHANGED <<stdin, stdout>>
     ELSE stdin' = Close(stdin) /\ stdout' = Close(stdout)
  /\ UNCHANGED <<program, got, handle, waiter>>

\* The handle of the input is kept.
SlipExecFed ==
  /\ blocked = "exec"
  /\ left = 0
  /\ blocked' = "exec_wait"
  /\ UNCHANGED <<program, stdin, stdout, got, left, handle, waiter, returned>>

\* exec shuts the input down and goes on to wait.
ExecFed ==
  /\ blocked = "exec"
  /\ left = 0
  /\ stdin' = Close(stdin)
  /\ blocked' = "exec_wait"
  /\ UNCHANGED <<program, stdout, got, left, handle, waiter, returned>>

SpawnFed ==
  /\ blocked = "spawn"
  /\ left = 0
  /\ handle' = "held"
  /\ Return("ok")
  /\ UNCHANGED <<program, stdin, stdout, got, waiter>>

-----------------------------------------------------------------------------
(* exec waits.                                                             *)

ReadOutput ==
  /\ blocked = "exec_wait"
  /\ stdout.holds > 0
  /\ stdout' = Less(stdout)
  /\ got' = got + 1
  /\ UNCHANGED <<program, stdin, blocked, left, handle, waiter, returned>>

\* The exit of the child is taken for the end of its output.
SlipOutput ==
  /\ blocked = "exec_wait"
  /\ Dead
  /\ stdout' = Close(stdout)
  /\ Return("output")
  /\ UNCHANGED <<program, stdin, got, handle, waiter>>

\* wait_with_output returns at the exit of the child and the end of its output.
Output ==
  /\ blocked = "exec_wait"
  /\ Dead
  /\ stdout.holds = 0
  /\ stdout' = Close(stdout)
  /\ Return("output")
  /\ UNCHANGED <<program, stdin, got, handle, waiter>>

\* The wait is cancelled, which drops the child, not killed, and its pipes.
TimeOut ==
  /\ blocked = "exec_wait"
  /\ spec.timeout
  /\ stdout' = Close(stdout)
  /\ Return("timed_out")
  /\ UNCHANGED <<program, stdin, got, handle, waiter>>

-----------------------------------------------------------------------------
(* The methods of a handle.                                                *)

Holding == Free /\ handle = "held"

StdinWrite(n) ==
  /\ Holding
  /\ IF stdin.open
     THEN blocked' = "stdin_write" /\ left' = n /\ UNCHANGED returned
     ELSE Return("error")
  /\ UNCHANGED <<program, stdin, stdout, got, handle, waiter>>

Written ==
  /\ blocked = "stdin_write"
  /\ left = 0
  /\ Return("ok")
  /\ UNCHANGED <<program, stdin, stdout, got, handle, waiter>>

StdoutRead ==
  /\ Holding
  /\ blocked' = "stdout_read"
  /\ UNCHANGED <<program, stdin, stdout, got, left, handle, waiter, returned>>

\* A read returns what there is.  (Its buffer is larger than what the model's pipe holds.)
ReadData ==
  /\ blocked = "stdout_read"
  /\ stdout.holds > 0
  /\ stdout' = Pipe(0, stdout.open)
  /\ got' = got + stdout.holds
  /\ blocked' = "none"
  /\ returned' = "data"
  /\ UNCHANGED <<program, stdin, left, handle, waiter>>

\* Nothing to read is taken for the end.
SlipReadEnd ==
  /\ blocked = "stdout_read"
  /\ stdout.holds = 0
  /\ stdout' = Close(stdout)
  /\ Return("nil")
  /\ UNCHANGED <<program, stdin, got, handle, waiter>>

\* At the end of the output the pipe is dropped; later reads find none.
ReadEnd ==
  /\ blocked = "stdout_read"
  /\ stdout.holds = 0
  /\ Dead
  /\ stdout' = Close(stdout)
  /\ Return("nil")
  /\ UNCHANGED <<program, stdin, got, handle, waiter>>

\* The handle keeps the child, which has been waited for: that has closed its input.
Kill ==
  /\ Holding
  /\ child' = IF Running THEN "killed" ELSE child
  /\ stdin' = Close(stdin)
  /\ Return("killed")
  /\ UNCHANGED <<spec, at, wrote, stdout, got, handle, waiter>>

\* A wait closes the input of the child and does not read its output.
WaitChild ==
  /\ Holding
  /\ handle' = "taken"
  /\ stdin' = Close(stdin)
  /\ blocked' = "wait"
  /\ UNCHANGED <<program, stdout, got, left, waiter, returned>>

Waited ==
  /\ blocked = "wait"
  /\ Dead
  /\ stdout' = Close(stdout)
  /\ Return("ok")
  /\ UNCHANGED <<program, stdin, got, handle, waiter>>

WaitAsync ==
  /\ Holding
  /\ handle' = "taken"
  /\ waiter' = "spawned"
  /\ Return("promise")
  /\ UNCHANGED <<program, stdin, stdout, got>>

TaskWaits ==
  /\ waiter = "spawned"
  /\ waiter' = "waiting"
  /\ stdin' = Close(stdin)
  /\ UNCHANGED <<program, stdout, got, blocked, left, handle, returned>>

TaskEnds ==
  /\ waiter = "waiting"
  /\ Dead
  /\ waiter' = "done"
  /\ stdout' = Close(stdout)
  /\ UNCHANGED <<program, stdin, got, blocked, left, handle, returned>>

Task == TaskWaits \/ TaskEnds

\* Without the child kill does nothing, even if it runs, and the other methods fail.
Missing ==
  /\ Free
  /\ handle = "taken"
  /\ \E result \in {"nothing", "error"} : Return(result)
  /\ UNCHANGED <<program, stdin, stdout, got, handle, waiter>>

\* Lua collects the handle.
Drop ==
  /\ Holding
  /\ handle' = "none"
  /\ stdin' = Close(stdin)
  /\ stdout' = Close(stdout)
  /\ UNCHANGED <<program, got, blocked, left, waiter, returned>>

-----------------------------------------------------------------------------

ProcessScript ==
  \/ Exec \/ Spawn \/ StartFails
  \/ \E n \in 0 .. MaxInput : StdinWrite(n)
  \/ StdoutRead \/ Kill \/ WaitChild \/ WaitAsync \/ Missing \/ Drop

GoOn ==
  \/ Feed \/ FeedFails \/ ExecFed \/ SpawnFed \/ Written
  \/ ReadOutput \/ Output \/ TimeOut
  \/ ReadData \/ ReadEnd \/ Waited

ProcessNext == Child \/ ProcessScript \/ GoOn \/ Task

\* A process runs, the runtime runs its tasks and timers, and a call that can go on does.
ProcessFairness == WF_processVars(Child) /\ WF_processVars(GoOn) /\ WF_processVars(Task)

ProcessSpec == ProcessInit /\ [][ProcessNext]_processVars /\ ProcessFairness

-----------------------------------------------------------------------------

Pipes == [holds : 0 .. Capacity, open : BOOLEAN]

ProcessTypeOK ==
  /\ spec \in Specs
  /\ child \in {"none", "running", "exited", "killed"}
  /\ at \in Nat \ {0} /\ at <= Len(spec.program) + 1
  /\ stdin \in Pipes
  /\ stdout \in Pipes
  /\ wrote \in Nat /\ got \in Nat
  /\ blocked \in {"none", "exec", "spawn", "exec_wait", "stdin_write", "stdout_read", "wait"}
  /\ left \in Nat /\ left <= MaxInput
  /\ handle \in {"none", "held", "taken"}
  /\ waiter \in {"none", "spawned", "waiting", "done"}
  /\ returned \in {"none", "error", "ok", "output", "timed_out", "data", "nil", "killed",
                   "promise", "nothing"}
  /\ child = "none" => blocked = "none" /\ handle = "none"
  /\ blocked \in {"exec", "exec_wait", "spawn"} => handle = "none"
  /\ blocked \in {"stdin_write", "stdout_read"} => handle = "held"
  /\ blocked = "wait" \/ waiter # "none" => handle = "taken"
  /\ left > 0 => Feeding

\* The result of exec is complete: the child has ended, and every byte it wrote is in it.
ResultIsComplete == returned = "output" => Dead /\ got = wrote

\* stdout_read says nil, the end of the output, only when there is nothing to come: the
\* child has ended, and all of its output has been read.
NilIsTheEnd == returned = "nil" => Dead /\ got = wrote

Count(step) == Cardinality({i \in DOMAIN spec.program : spec.program[i] = step})

\* When a call may be stuck for good.  exec and the writes: the child hangs, or both
\* pipes fill up, and while exec writes no timeout counts.  stdout_read: the child waits
\* for the end of its input, which only a wait or a kill gives it.  wait: nobody reads
\* what the child writes.
Blockable ==
  LET hangs == Count("hang") > 0
      floods == Count("write") > Capacity
      reads == Count("read") + Count("drain") > 0
  IN \/ blocked = "exec" /\ spec.stdin > Capacity /\ (hangs \/ floods)
     \/ blocked \in {"exec", "exec_wait"} /\ hangs /\ ~spec.timeout
     \/ blocked \in {"spawn", "stdin_write"} /\ stdin.holds + left > Capacity /\ (hangs \/ floods)
     \/ blocked = "stdout_read" /\ (hangs \/ (reads /\ stdin.open))
     \/ blocked = "wait" /\ (hangs \/ floods)

\* No other call blocks for ever, whatever the child, whatever was called before.
CallsReturn == (blocked # "none" /\ ~Blockable) ~> (blocked = "none")

\* The timeout kills the child.
KilledOnTimeout == returned = "timed_out" => ~Running
=============================================================================
