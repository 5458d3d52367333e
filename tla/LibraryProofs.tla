---------------------------- MODULE LibraryProofs ----------------------------
(***************************************************************************)
(* What scripts learn of a child's output is the truth, for any programs,  *)
(* any capacity of the pipes and any amount of input; paths in normal form *)
(* and relative ones lead where they should; what is encoded, formatted,   *)
(* sealed or signed comes back as it was; a request is as it was asked,    *)
(* either way; and an event that a script emits as it was given it is      *)
(* caught, but for what Lua does not keep.                                 *)
(***************************************************************************)
EXTENDS Process, Encodings, Recursion, FiniteSetTheorems

-----------------------------------------------------------------------------
(* Types.                                                                  *)

\* What may be done to a pipe.
LEMMA PipeOps ==
  /\ \A holds \in 0 .. Capacity, open \in BOOLEAN : Pipe(holds, open) \in Pipes
  /\ \A pipe \in Pipes :
       /\ pipe.holds \in 0 .. Capacity /\ pipe.open \in BOOLEAN
       /\ pipe.holds < Capacity => More(pipe) \in Pipes
       /\ pipe.holds > 0 => Less(pipe) \in Pipes
       /\ Close(pipe) \in Pipes
<1>1. \A holds \in 0 .. Capacity, open \in BOOLEAN : Pipe(holds, open) \in Pipes
  BY DEF Pipe, Pipes
<1>2. ASSUME NEW pipe \in Pipes
      PROVE  /\ pipe.holds \in 0 .. Capacity /\ pipe.open \in BOOLEAN
             /\ pipe.holds < Capacity => More(pipe) \in Pipes
             /\ pipe.holds > 0 => Less(pipe) \in Pipes
             /\ Close(pipe) \in Pipes
  <2>1. pipe.holds \in 0 .. Capacity /\ pipe.open \in BOOLEAN /\ Capacity \in Nat
    BY ProcessAssumption DEF Pipes
  <2>2. pipe.holds < Capacity => pipe.holds + 1 \in 0 .. Capacity
    BY <2>1
  <2>3. pipe.holds > 0 => pipe.holds - 1 \in 0 .. Capacity
    BY <2>1
  <2>4. QED
    BY <1>1, <2>1, <2>2, <2>3 DEF More, Less, Close
<1>3. QED
  BY <1>1, <1>2

\* Every variable keeps its type.
LEMMA TypeOKStep == ProcessTypeOK /\ [ProcessNext]_processVars => ProcessTypeOK'
<1> SUFFICES ASSUME ProcessTypeOK, [ProcessNext]_processVars
             PROVE  ProcessTypeOK'
  OBVIOUS
<1>a. /\ spec.program \in Seq(Steps) /\ spec.stdin \in Nat /\ spec.stdin <= MaxInput
      /\ Len(spec.program) \in Nat
      /\ Capacity \in Nat \ {0} /\ MaxInput \in Nat
  BY ProcessAssumption, LenProperties DEF ProcessTypeOK, Specs
<1>b. /\ Close(stdin) \in Pipes /\ Close(stdout) \in Pipes
      /\ stdin.holds \in 0 .. Capacity /\ stdout.holds \in 0 .. Capacity
      /\ stdin.open \in BOOLEAN /\ stdout.open \in BOOLEAN
  BY PipeOps DEF ProcessTypeOK
<1>c. 0 \in 0 .. Capacity
  BY <1>a
<1>1. CASE ChildRead
  <2>1. stdin' \in Pipes
    BY <1>1, PipeOps DEF ChildRead, ProcessTypeOK
  <2>2. at' \in Nat \ {0} /\ at' <= Len(spec.program) + 1
    BY <1>1, <1>a DEF ChildRead, Doing, ProcessTypeOK
  <2>3. QED
    BY <1>1, <2>1, <2>2 DEF ChildRead, script, ProcessTypeOK, Feeding
<1>2. CASE ChildWrite
  <2>1. stdout' \in Pipes
    BY <1>2, PipeOps DEF ChildWrite, ProcessTypeOK
  <2>2. at' \in Nat \ {0} /\ at' <= Len(spec.program) + 1
    BY <1>2, <1>a DEF ChildWrite, Doing, ProcessTypeOK
  <2>3. QED
    BY <1>2, <2>1, <2>2 DEF ChildWrite, script, ProcessTypeOK, Feeding
<1>3. CASE ChildBreaks \/ ChildExit
  BY <1>3 DEF ChildBreaks, ChildExit, script, ProcessTypeOK, Feeding
<1>4. ASSUME NEW op \in {"exec", "spawn"}, NEW piped \in BOOLEAN, StartChild(op, piped)
      PROVE  ProcessTypeOK'
  <2>1. stdin' \in Pipes /\ stdout' \in Pipes
    BY <1>4, <1>c, PipeOps DEF StartChild
  <2>2. QED
    BY <1>4, <1>a, <2>1 DEF StartChild, ProcessTypeOK, Feeding, Free
<1>5. CASE StartFails \/ Written \/ Missing
  BY <1>5, <1>a DEF StartFails, Written, Missing, Free, Return, program, ProcessTypeOK, Feeding
<1>5a. CASE SpawnFed
  <2>1. handle = "none" /\ waiter = "none" /\ child # "none"
    BY <1>5a DEF SpawnFed, ProcessTypeOK
  <2>2. QED
    BY <1>5a, <1>a, <2>1 DEF SpawnFed, Return, program, ProcessTypeOK, Feeding
<1>6. CASE Feed
  <2>1. stdin' \in Pipes
    BY <1>6, PipeOps DEF Feed, ProcessTypeOK
  <2>2. left' \in Nat /\ left' <= MaxInput
    BY <1>6, <1>a DEF Feed, ProcessTypeOK
  <2>3. QED
    BY <1>6, <2>1, <2>2 DEF Feed, program, ProcessTypeOK, Feeding
<1>7. CASE FeedFails
  BY <1>7, <1>a, <1>b DEF FeedFails, Return, program, ProcessTypeOK, Feeding
<1>8. CASE ExecFed
  BY <1>8, <1>b DEF ExecFed, program, ProcessTypeOK, Feeding
<1>9. CASE ReadOutput
  <2>1. stdout' \in Pipes
    BY <1>9, PipeOps DEF ReadOutput, ProcessTypeOK
  <2>2. QED
    BY <1>9, <2>1 DEF ReadOutput, program, ProcessTypeOK, Feeding
<1>10. CASE Output \/ TimeOut \/ ReadEnd \/ Waited
  BY SMTT(40), <1>10, <1>a, <1>b DEF Output, TimeOut, ReadEnd, Waited, Return, program, ProcessTypeOK, Feeding
<1>11. ASSUME NEW n \in 0 .. MaxInput, StdinWrite(n)
       PROVE  ProcessTypeOK'
  BY <1>11, <1>a DEF StdinWrite, Holding, Free, Return, program, ProcessTypeOK, Feeding
<1>12. CASE StdoutRead
  BY <1>12 DEF StdoutRead, Holding, Free, program, ProcessTypeOK, Feeding
<1>13. CASE ReadData
  <2>1. stdout' \in Pipes /\ got' \in Nat
    BY <1>13, <1>b, <1>c, PipeOps DEF ReadData, ProcessTypeOK
  <2>2. QED
    BY <1>13, <2>1 DEF ReadData, program, ProcessTypeOK, Feeding
<1>14. CASE Kill
  BY <1>14, <1>a, <1>b DEF Kill, Holding, Free, Return, ProcessTypeOK, Feeding
<1>15. CASE WaitChild \/ WaitAsync
  BY SMTT(40), <1>15, <1>a, <1>b DEF WaitChild, WaitAsync, Holding, Free, Return, program, ProcessTypeOK, Feeding
<1>16. CASE TaskWaits \/ TaskEnds
  BY <1>16, <1>b DEF TaskWaits, TaskEnds, program, ProcessTypeOK, Feeding
<1>17. CASE Drop
  BY <1>17, <1>b DEF Drop, Holding, Free, program, ProcessTypeOK, Feeding
<1>18. CASE UNCHANGED processVars
  BY <1>18 DEF processVars, ProcessTypeOK, Feeding
<1>19. spec.piped \in BOOLEAN
  BY DEF ProcessTypeOK, Specs
<1>20. QED
  BY <1>1, <1>2, <1>3, <1>4, <1>5, <1>5a, <1>6, <1>7, <1>8, <1>9, <1>10, <1>11, <1>12, <1>13,
     <1>14, <1>15, <1>16, <1>17, <1>18, <1>19
     DEF ProcessNext, Child, ProcessScript, GoOn, Task, Exec, Spawn

\* The state of the child, its pipes and the calls is well-typed.
THEOREM TypeCorrect == ProcessSpec => []ProcessTypeOK
<1>1. ProcessInit => ProcessTypeOK
  <2> SUFFICES ASSUME ProcessInit PROVE ProcessTypeOK
    OBVIOUS
  <2>1. Len(spec.program) \in Nat
    BY ProcessAssumption, LenProperties DEF ProcessInit, Specs
  <2>2. QED
    BY <2>1, ProcessAssumption DEF ProcessInit, ProcessTypeOK, Pipe, Pipes, Feeding
<1>2. QED
  BY <1>1, TypeOKStep, PTL DEF ProcessSpec

-----------------------------------------------------------------------------
(* The output of a child.                                                  *)

\* Before there is a child nothing has moved.  While there is a reader, what the child
\* wrote has been read or is in the pipe; a pipe that is closed under a handle, and
\* an answer that says so, are about a child that has ended and been read to the end.
Accounted ==
  /\ child = "none" => wrote = 0 /\ got = 0 /\ stdout.holds = 0 /\ returned \notin {"output", "nil"}
  /\ blocked \in {"exec", "exec_wait", "spawn"} => stdout.open
  /\ stdout.open => wrote = got + stdout.holds
  /\ handle = "held" /\ ~stdout.open => Dead /\ got = wrote /\ stdout.holds = 0
  /\ returned \in {"output", "nil"} => Dead /\ got = wrote /\ stdout.holds = 0

\* Arithmetic of the pipe.
LEMMA Amounts ==
  /\ \A holds, open : Pipe(holds, open).holds = holds /\ Pipe(holds, open).open = open
  /\ \A pipe : /\ More(pipe).holds = pipe.holds + 1 /\ More(pipe).open = pipe.open
               /\ Less(pipe).holds = pipe.holds - 1 /\ Less(pipe).open = pipe.open
               /\ Close(pipe).holds = pipe.holds /\ Close(pipe).open = FALSE
  BY DEF Pipe, More, Less, Close

\* A step keeps the account.
LEMMA AccountedStep == ProcessTypeOK /\ Accounted /\ [ProcessNext]_processVars => Accounted'
<1> SUFFICES ASSUME ProcessTypeOK, Accounted, [ProcessNext]_processVars
             PROVE  Accounted'
  OBVIOUS
<1>a. stdout.holds \in Nat /\ stdout.open \in BOOLEAN /\ wrote \in Nat /\ got \in Nat
  BY PipeOps, ProcessAssumption DEF ProcessTypeOK
<1>b. child # "none" \/ handle = "none"
  BY DEF ProcessTypeOK
<1> USE DEF Accounted, Dead
<1>1. CASE ChildWrite
  <2>1. stdout'.holds = stdout.holds + 1 /\ stdout'.open = stdout.open /\ stdout.open
        /\ child = "running" /\ wrote' = wrote + 1
    BY <1>1, Amounts DEF ChildWrite, Doing, Running
  <2>2. UNCHANGED <<child, got, blocked, handle, returned>>
    BY <1>1 DEF ChildWrite, script
  <2>3. QED
    BY <1>a, <2>1, <2>2
<1>2. CASE ChildRead
  BY <1>2 DEF ChildRead, script
<1>3. CASE ChildBreaks \/ ChildExit
  BY <1>3 DEF ChildBreaks, ChildExit, Doing, Running, script
<1>4. ASSUME NEW op \in {"exec", "spawn"}, NEW piped, StartChild(op, piped)
      PROVE  Accounted'
  <2>1. stdout'.holds = 0 /\ stdout'.open = TRUE
    BY <1>4, Amounts DEF StartChild
  <2>2. /\ child' = "running" /\ blocked' = op /\ wrote' = 0 /\ got' = 0
        /\ returned' \notin {"output", "nil"} /\ handle' = "none"
    BY <1>4, <1>b DEF StartChild
  <2>3. QED
    BY <2>1, <2>2
<1>5. CASE StartFails \/ Written \/ Missing
  BY <1>5 DEF StartFails, Written, Missing, Return, program
<1>6. CASE SpawnFed
  BY <1>6 DEF SpawnFed, Return, program
<1>7. CASE Feed
  BY <1>7 DEF Feed, program
<1>8. CASE FeedFails
  <2>1. blocked = "stdin_write" => UNCHANGED stdout
    BY <1>8 DEF FeedFails
  <2>2. blocked # "stdin_write" => ~stdout'.open /\ stdout'.holds = stdout.holds /\ handle = "none"
    BY <1>8, Amounts DEF FeedFails, Feeding, ProcessTypeOK
  <2>3. blocked' = "none" /\ returned' = "error" /\ UNCHANGED <<child, wrote, got, handle>>
    BY <1>8 DEF FeedFails, Return, program
  <2>4. QED
    BY <2>1, <2>2, <2>3
<1>9. CASE ExecFed
  BY <1>9 DEF ExecFed, program
<1>10. CASE ReadOutput
  <2>1. /\ stdout'.holds = stdout.holds - 1 /\ stdout'.open = stdout.open
        /\ stdout.holds > 0 /\ stdout.open /\ got' = got + 1
    BY <1>10, Amounts DEF ReadOutput
  <2>2. UNCHANGED <<child, wrote, blocked, handle, returned>> /\ child # "none" /\ handle = "none"
    BY <1>10, <1>a, <2>1 DEF ReadOutput, program, ProcessTypeOK
  <2>3. QED
    BY <1>a, <2>1, <2>2
<1>11. CASE Output
  <2>1. ~stdout'.open /\ stdout'.holds = 0 /\ got = wrote /\ handle = "none"
    BY <1>11, <1>a, Amounts DEF Output, ProcessTypeOK
  <2>2. /\ blocked' = "none" /\ returned' = "output" /\ child \in {"exited", "killed"}
        /\ UNCHANGED <<child, wrote, got, handle>>
    BY <1>11 DEF Output, Return, program
  <2>3. QED
    BY <2>1, <2>2
<1>12. CASE TimeOut
  <2>1. ~stdout'.open /\ stdout'.holds = stdout.holds /\ handle = "none"
    BY <1>12, Amounts DEF TimeOut, ProcessTypeOK
  <2>2. /\ blocked' = "none" /\ returned' = "timed_out"
        /\ UNCHANGED <<child, wrote, got, handle>>
    BY <1>12 DEF TimeOut, Return, program
  <2>3. QED
    BY <2>1, <2>2
<1>13. ASSUME NEW n, StdinWrite(n)
       PROVE  Accounted'
  BY <1>13 DEF StdinWrite, Return, program
<1>14. CASE StdoutRead
  BY <1>14 DEF StdoutRead, program
<1>15. CASE ReadData
  <2>1. /\ stdout'.holds = 0 /\ stdout'.open = stdout.open
        /\ stdout.holds > 0 /\ got' = got + stdout.holds
    BY <1>15, Amounts DEF ReadData
  <2>2. blocked' = "none" /\ returned' = "data" /\ UNCHANGED <<child, wrote, handle>>
    BY <1>15 DEF ReadData, program
  <2>3. handle = "held" /\ child # "none"
    BY <1>15 DEF ReadData, ProcessTypeOK
  <2>4. QED
    BY <1>a, <2>1, <2>2, <2>3
<1>16. CASE ReadEnd
  <2>1. handle = "held" /\ stdout.holds = 0 /\ child \in {"exited", "killed"}
    BY <1>16 DEF ReadEnd, ProcessTypeOK
  <2>2. got = wrote
    BY <1>a, <2>1
  <2>3. ~stdout'.open /\ stdout'.holds = 0
    BY <1>16, <2>1, Amounts DEF ReadEnd
  <2>4. /\ blocked' = "none" /\ returned' = "nil"
        /\ UNCHANGED <<child, wrote, got, handle>>
    BY <1>16 DEF ReadEnd, Return, program
  <2>5. QED
    BY <2>1, <2>2, <2>3, <2>4
<1>17. CASE Kill
  BY <1>17, <1>b DEF Kill, Holding, Running, Return
<1>18. CASE WaitChild \/ WaitAsync
  BY <1>18 DEF WaitChild, WaitAsync, Return, program
<1>19. CASE Waited
  <2>1. ~stdout'.open /\ stdout'.holds = stdout.holds /\ handle = "taken"
    BY <1>19, Amounts DEF Waited, ProcessTypeOK
  <2>2. /\ blocked' = "none" /\ returned' = "ok"
        /\ UNCHANGED <<child, wrote, got, handle>>
    BY <1>19 DEF Waited, Return, program
  <2>3. QED
    BY <2>1, <2>2
<1>20. CASE TaskWaits
  BY <1>20 DEF TaskWaits, program
<1>21. CASE TaskEnds \/ Drop
  <2>1. ~stdout'.open /\ stdout'.holds = stdout.holds
    BY <1>21, Amounts DEF TaskEnds, Drop
  <2>2. handle' # "held" /\ blocked \notin {"exec", "exec_wait", "spawn"}
    BY <1>21 DEF TaskEnds, Drop, Holding, Free, ProcessTypeOK
  <2>3. UNCHANGED <<child, wrote, got, blocked, returned>>
    BY <1>21 DEF TaskEnds, Drop, program
  <2>4. QED
    BY <2>1, <2>2, <2>3
<1>22. CASE UNCHANGED processVars
  BY <1>22 DEF processVars
<1>23. QED
  BY <1>1, <1>2, <1>3, <1>4, <1>5, <1>6, <1>7, <1>8, <1>9, <1>10, <1>11, <1>12, <1>13, <1>14,
     <1>15, <1>16, <1>17, <1>18, <1>19, <1>20, <1>21, <1>22
     DEF ProcessNext, Child, ProcessScript, GoOn, Task, Exec, Spawn

\* In every behaviour the output of the child is accounted for.
LEMMA OutputAccounted == ProcessSpec => []Accounted
<1>1. ProcessInit => Accounted
  <2>1. Pipe(0, FALSE).holds = 0 /\ ~Pipe(0, FALSE).open
    BY DEF Pipe
  <2>2. QED
    BY <2>1 DEF ProcessInit, Accounted, Dead
<1>2. QED
  BY <1>1, TypeCorrect, AccountedStep, PTL DEF ProcessSpec

\* exec returns all that the child wrote, and after its end.
THEOREM ExecIsComplete == ProcessSpec => []ResultIsComplete
<1>1. Accounted => ResultIsComplete
  BY DEF Accounted, ResultIsComplete
<1>2. QED
  BY <1>1, OutputAccounted, PTL

\* stdout_read reports the end of the output when the child has ended and all is read.
THEOREM ReadToTheEnd == ProcessSpec => []NilIsTheEnd
<1>1. Accounted => NilIsTheEnd
  BY DEF Accounted, NilIsTheEnd
<1>2. QED
  BY <1>1, OutputAccounted, PTL

-----------------------------------------------------------------------------
(* What becomes of a start along a sequence.                               *)

\* What takes each X a step further, given an S.
Stepping(step, X, S) == step \in [X \X S -> X]

\* The places of Along.
Alongs(f, step, x, s) ==
  /\ f[0] = x
  /\ \A n \in 1 .. Len(s) : f[n] = step[<<f[n - 1], s[n]>>]
  /\ Along(step, x, s) = f[Len(s)]

LEMMA AlongRecursion ==
  ASSUME NEW X, NEW S, NEW x \in X, NEW s \in Seq(S), NEW step, Stepping(step, X, S)
  PROVE  \E f \in [0 .. Len(s) -> X] : Alongs(f, step, x, s)
<1> DEFINE N == Len(s)
           Nth(f, n) == IF n = 0 THEN x ELSE step[<<f[n - 1], s[n]>>]
           nth == [c \in (1 .. N) \X X |-> step[<<c[2], s[c[1]]>>]]
<1>0. step \in [X \X S -> X]
  BY DEF Stepping
<1>1. N \in Nat /\ \A n \in 1 .. N : s[n] \in S
  BY LenProperties, ElementOfSeq
<1>2. nth \in [(1 .. N) \X X -> X]
  <2>1. ASSUME NEW c \in (1 .. N) \X X
        PROVE  step[<<c[2], s[c[1]]>>] \in X
    <3>1. c[2] \in X /\ s[c[1]] \in S
      BY <1>1
    <3>2. QED
      BY <1>0, <3>1
  <2>2. QED
    BY <2>1
<1>3. PICK f \in [0 .. N -> X] : Iterates(f, x, nth, N)
  <2> HIDE DEF nth, N
  <2>1. QED
    BY <1>1, <1>2, Iteration, Zenon
<1>4. \A n \in 1 .. N : f[n] = step[<<f[n - 1], s[n]>>]
  <2>1. ASSUME NEW n \in 1 .. N
        PROVE  f[n] = step[<<f[n - 1], s[n]>>]
    <3>1. n - 1 \in 0 .. N
      BY <1>1
    <3>2. <<n, f[n - 1]>> \in (1 .. N) \X X
      BY <1>3, <3>1
    <3>3. QED
      BY <1>3, <3>2 DEF Iterates
  <2>2. QED
    BY <2>1
<1>5. f = [n \in 0 .. N |-> Nth(f, n)]
  <2>1. \A n \in 0 .. N : f[n] = Nth(f, n)
    <3>1. \A n \in 0 .. N : n = 0 \/ n \in 1 .. N
      BY <1>1
    <3>2. f[0] = x
      BY <1>3 DEF Iterates
    <3>3. QED
      BY <1>4, <3>1, <3>2
  <2>2. QED
    BY <2>1
<1> DEFINE g == CHOOSE g : g = [n \in 0 .. N |-> Nth(g, n)]
<1>6. g = [n \in 0 .. N |-> Nth(g, n)]
  BY <1>5
<1>7. Along(step, x, s) = g[N]
  BY DEF Along
<1> HIDE DEF g
<1>8. g[0] = x /\ \A n \in 1 .. N : g[n] = step[<<g[n - 1], s[n]>>]
  <2>1. 0 \in 0 .. N /\ \A n \in 1 .. N : n \in 0 .. N /\ n # 0
    BY <1>1
  <2>2. \A n \in 0 .. N : g[n] = Nth(g, n)
    BY <1>6
  <2>3. QED
    BY <2>1, <2>2
<1>9. \A n \in 0 .. N : g[n] \in X
  <2> DEFINE T == {n \in Nat : n <= N => g[n] \in X}
  <2>1. 0 \in T
    BY <1>8
  <2>2. ASSUME NEW n \in T, n + 1 <= N
        PROVE  n + 1 \in T
    <3>1. n + 1 \in 1 .. N /\ (n + 1) - 1 = n /\ g[n] \in X /\ s[n + 1] \in S
      BY <1>1, <2>2
    <3>2. g[n + 1] \in X
      BY <1>0, <1>8, <3>1
    <3>3. QED
      BY <3>2
  <2> HIDE DEF T
  <2>3. T \in SUBSET Nat
    BY DEF T
  <2>4. \A n \in 0 .. N : n \in T
    BY <1>1, <2>1, <2>2, <2>3, InductionUpTo
  <2>5. QED
    BY <1>1, <2>4 DEF T
<1>10. g \in [0 .. N -> X]
  BY <1>6, <1>9
<1>11. QED
  BY <1>7, <1>8, <1>10 DEF Alongs

LEMMA AlongType ==
  ASSUME NEW X, NEW S, NEW x \in X, NEW s \in Seq(S), NEW step, Stepping(step, X, S)
  PROVE  Along(step, x, s) \in X
<1>1. PICK f \in [0 .. Len(s) -> X] : Alongs(f, step, x, s)
  BY AlongRecursion
<1>2. Len(s) \in 0 .. Len(s)
  BY LenProperties
<1>3. QED
  BY <1>1, <1>2 DEF Alongs

LEMMA AlongNothing ==
  ASSUME NEW X, NEW S, NEW x \in X, NEW step, Stepping(step, X, S)
  PROVE  Along(step, x, <<>>) = x
<1>1. <<>> \in Seq(S) /\ Len(<<>>) = 0
  BY EmptySeq
<1>2. PICK f \in [0 .. Len(<<>>) -> X] : Alongs(f, step, x, <<>>)
  BY <1>1, AlongRecursion
<1>3. QED
  BY <1>1, <1>2 DEF Alongs

LEMMA AlongAppend ==
  ASSUME NEW X, NEW S, NEW x \in X, NEW s \in Seq(S), NEW c \in S, NEW step, Stepping(step, X, S)
  PROVE  Along(step, x, Append(s, c)) = step[<<Along(step, x, s), c>>]
<1> DEFINE t == Append(s, c)
           N == Len(s)
<1>1. /\ N \in Nat /\ t \in Seq(S) /\ Len(t) = N + 1 /\ t[N + 1] = c
      /\ \A n \in 1 .. N : t[n] = s[n]
  BY AppendProperties, LenProperties
<1>2. PICK f \in [0 .. N -> X] : Alongs(f, step, x, s)
  BY AlongRecursion
<1>3. PICK g \in [0 .. Len(t) -> X] : Alongs(g, step, x, t)
  <2> HIDE DEF t
  <2>1. QED
    BY <1>1, AlongRecursion
<1> HIDE DEF t
<1> DEFINE T == {n \in Nat : g[n] = f[n]}
<1>4. 0 \in T
  BY <1>2, <1>3 DEF Alongs
<1>5. ASSUME NEW n \in T, n + 1 <= N
      PROVE  n + 1 \in T
  <2>1. n + 1 \in 1 .. N /\ n + 1 \in 1 .. Len(t) /\ (n + 1) - 1 = n
    BY <1>1, <1>5
  <2>2. f[n + 1] = step[<<f[n], s[n + 1]>>]
    BY <1>2, <2>1 DEF Alongs
  <2>3. g[n + 1] = step[<<g[n], t[n + 1]>>]
    BY <1>3, <2>1 DEF Alongs
  <2>4. g[n] = f[n] /\ t[n + 1] = s[n + 1]
    BY <1>1, <2>1
  <2>5. g[n + 1] = f[n + 1]
    BY <2>2, <2>3, <2>4
  <2>6. QED
    BY <2>5
<1> HIDE DEF T
<1>6. T \in SUBSET Nat
  BY DEF T
<1>7. \A n \in 0 .. N : n \in T
  BY <1>1, <1>4, <1>5, <1>6, InductionUpTo
<1>8. g[N] = f[N]
  <2>1. N \in T
    BY <1>1, <1>7
  <2>2. QED
    BY <2>1 DEF T
<1>9. N + 1 \in 1 .. Len(t) /\ (N + 1) - 1 = N
  BY <1>1
<1>10. g[N + 1] = step[<<g[N], t[N + 1]>>] /\ Along(step, x, t) = g[N + 1]
  BY <1>1, <1>3, <1>9 DEF Alongs
<1>11. Along(step, x, s) = f[N]
  BY <1>2 DEF Alongs
<1>12. QED
  BY <1>1, <1>8, <1>10, <1>11 DEF t

\* Along one sequence and then another.
LEMMA AlongBoth ==
  ASSUME NEW X, NEW S, NEW x \in X, NEW s \in Seq(S), NEW t \in Seq(S), NEW step, Stepping(step, X, S)
  PROVE  Along(step, x, s \o t) = Along(step, Along(step, x, s), t)
<1> DEFINE T == {u \in Seq(S) : Along(step, x, s \o u) = Along(step, Along(step, x, s), u)}
<1>0. Along(step, x, s) \in X
  BY AlongType
<1>a. ASSUME NEW y \in X, NEW v \in Seq(S), NEW d \in S
      PROVE  Along(step, y, Append(v, d)) = step[<<Along(step, y, v), d>>]
  BY AlongAppend
<1>1. <<>> \in T
  <2>1. s \o <<>> = s /\ <<>> \in Seq(S)
    BY ConcatEmptySeq, EmptySeq
  <2>2. Along(step, Along(step, x, s), <<>>) = Along(step, x, s)
    BY <1>0, AlongNothing
  <2>3. QED
    BY <2>1, <2>2
<1>2. ASSUME NEW u \in T, NEW c \in S
      PROVE  Append(u, c) \in T
  <2>1. u \in Seq(S) /\ Along(step, x, s \o u) = Along(step, Along(step, x, s), u)
    OBVIOUS
  <2> HIDE DEF T
  <2>2. s \o u \in Seq(S) /\ Append(u, c) \in Seq(S)
    BY <2>1, ConcatProperties, AppendProperties
  <2>3. s \o Append(u, c) = Append(s \o u, c)
    BY <2>1
  <2>4. Along(step, x, Append(s \o u, c)) = step[<<Along(step, x, s \o u), c>>]
    BY <1>a, <2>2
  <2>5. Along(step, Along(step, x, s), Append(u, c)) = step[<<Along(step, Along(step, x, s), u), c>>]
    BY <1>0, <1>a, <2>1
  <2>6. QED
    BY <2>1, <2>2, <2>3, <2>4, <2>5 DEF T
<1> HIDE DEF T
<1>3. T \in SUBSET Seq(S)
  BY DEF T
<1>4. T = Seq(S)
  BY <1>1, <1>2, <1>3, Appending
<1>5. QED
  BY <1>4 DEF T

LEMMA AlongOf ==
  ASSUME NEW X, NEW S, NEW x \in X, NEW step, Stepping(step, X, S)
  PROVE  /\ Along(step, x, <<>>) = x
         /\ \A s \in Seq(S) : Along(step, x, s) \in X
         /\ \A s \in Seq(S), c \in S : Along(step, x, Append(s, c)) = step[<<Along(step, x, s), c>>]
         /\ \A s, t \in Seq(S) : Along(step, x, s \o t) = Along(step, Along(step, x, s), t)
BY AlongNothing, AlongType, AlongAppend, AlongBoth

-----------------------------------------------------------------------------
(* Paths.                                                                  *)

LEMMA LastOf ==
  ASSUME NEW S, NEW s \in Seq(S), s # <<>>
  PROVE  /\ Front(s) \in Seq(S) /\ Last(s) \in S /\ s = Append(Front(s), Last(s))
         /\ Len(s) \in Nat \ {0} /\ Len(Front(s)) = Len(s) - 1
         /\ \A i \in DOMAIN Front(s) : i \in DOMAIN s /\ Front(s)[i] = s[i]
         /\ Len(s) \in DOMAIN s /\ Last(s) = s[Len(s)]
<1>1. PICK t \in Seq(S), c \in S : s = Append(t, c)
  BY SequenceEmptyOrAppend
<1>2. /\ Len(s) = Len(t) + 1 /\ Len(t) \in Nat /\ s[Len(t) + 1] = c
      /\ \A i \in 1 .. Len(t) : s[i] = t[i]
      /\ DOMAIN s = 1 .. Len(s) /\ DOMAIN t = 1 .. Len(t)
  BY <1>1, AppendProperties, LenProperties
<1>3. SubSeq(s, 1, Len(s) - 1) = t
  <2>1. /\ SubSeq(s, 1, Len(t)) \in Seq(S) /\ Len(SubSeq(s, 1, Len(t))) = Len(t)
        /\ \A i \in 1 .. Len(t) : SubSeq(s, 1, Len(t))[i] = s[i]
    BY <1>2, SubSeqProperties
  <2>2. SubSeq(s, 1, Len(t)) = t
    BY <1>2, <2>1, SeqEqual
  <2>3. QED
    BY <1>2, <2>2
<1>4. Front(s) = t /\ Last(s) = c
  BY <1>2, <1>3 DEF Front, Last
<1>5. QED
  BY <1>1, <1>2, <1>4

LEMMA LastOfAppend ==
  ASSUME NEW S, NEW s \in Seq(S), NEW c \in S
  PROVE  Append(s, c) # <<>> /\ Front(Append(s, c)) = s /\ Last(Append(s, c)) = c
<1>1. Append(s, c) \in Seq(S) /\ Append(s, c) # <<>>
  BY AppendProperties
<1>2. /\ Append(s, c) = Append(Front(Append(s, c)), Last(Append(s, c)))
      /\ Front(Append(s, c)) \in Seq(S) /\ Last(Append(s, c)) \in S
  BY <1>1, LastOf
<1>3. QED
  BY <1>2, AppendInjective

LEMMA KeepingSteps ==
  /\ Stepping(Keeping, Seq(Segment), Segment)
  /\ \A out \in Seq(Segment), c \in Segment :
       Keeping[<<out, c>>] = IF c \in {"", "."} THEN out ELSE Append(out, c)
<1>1. \A out \in Seq(Segment), c \in Segment : Append(out, c) \in Seq(Segment)
  BY AppendProperties
<1>2. QED
  BY <1>1 DEF Keeping, Stepping

LEMMA WalkingSteps ==
  /\ Stepping(Walking, Seq(Segment), Segment)
  /\ \A place \in Seq(Segment), c \in Segment : Walking[<<place, c>>] = Walk(place, c)
<1>1. \A place \in Seq(Segment), c \in Segment : Walk(place, c) \in Seq(Segment)
  BY AppendProperties, LastOf DEF Walk
<1>2. QED
  BY <1>1 DEF Walking, Stepping

LEMMA DescendingSteps ==
  ASSUME NEW abs
  PROVE  /\ Stepping(Descending(abs), Seq(Segment), Segment)
         /\ \A out \in Seq(Segment), c \in Segment : Descending(abs)[<<out, c>>] = Descend(abs, out, c)
<1>1. \A out \in Seq(Segment), c \in Segment : Descend(abs, out, c) \in Seq(Segment)
  BY AppendProperties, LastOf DEF Descend
<1>2. QED
  BY <1>1 DEF Descending, Stepping

LEMMA EmptySegments == <<>> \in Seq(Segment)
BY EmptySeq

\* The components among segments.
Stripped(s) == Along(Keeping, <<>>, s)

LEMMA StrippedOf ==
  /\ Stripped(<<>>) = <<>>
  /\ \A s \in Seq(Segment) : Stripped(s) \in Seq(Segment)
  /\ \A s \in Seq(Segment), c \in Segment :
       Stripped(Append(s, c)) = IF c \in {"", "."} THEN Stripped(s) ELSE Append(Stripped(s), c)
<1>0. /\ Along(Keeping, <<>>, <<>>) = <<>>
      /\ \A s \in Seq(Segment) : Along(Keeping, <<>>, s) \in Seq(Segment)
      /\ \A s \in Seq(Segment), c \in Segment :
           Along(Keeping, <<>>, Append(s, c)) = Keeping[<<Along(Keeping, <<>>, s), c>>]
  <2> DEFINE step == Keeping
  <2>1. Stepping(step, Seq(Segment), Segment)
    BY KeepingSteps
  <2> HIDE DEF step
  <2>2. /\ Along(step, <<>>, <<>>) = <<>>
        /\ \A s \in Seq(Segment) : Along(step, <<>>, s) \in Seq(Segment)
        /\ \A s \in Seq(Segment), c \in Segment :
             Along(step, <<>>, Append(s, c)) = step[<<Along(step, <<>>, s), c>>]
    BY <2>1, EmptySegments, AlongOf
  <2>3. QED
    BY <2>2 DEF step
<1>1. Stripped(<<>>) = <<>>
  BY <1>0 DEF Stripped
<1>2. \A s \in Seq(Segment) : Stripped(s) \in Seq(Segment)
  BY <1>0 DEF Stripped
<1>3. ASSUME NEW s \in Seq(Segment), NEW c \in Segment
      PROVE  Stripped(Append(s, c)) = IF c \in {"", "."} THEN Stripped(s) ELSE Append(Stripped(s), c)
  <2>1. Stripped(Append(s, c)) = Keeping[<<Stripped(s), c>>]
    BY <1>0 DEF Stripped
  <2>2. QED
    BY <1>2, <2>1, KeepingSteps
<1>4. QED
  BY <1>1, <1>2, <1>3

LEMMA WalkOf ==
  ASSUME NEW place \in Seq(Segment)
  PROVE  /\ Along(Walking, place, <<>>) = place
         /\ \A s \in Seq(Segment) : Along(Walking, place, s) \in Seq(Segment)
         /\ \A s \in Seq(Segment), c \in Segment :
              Along(Walking, place, Append(s, c)) = Walk(Along(Walking, place, s), c)
         /\ \A s, t \in Seq(Segment) :
              Along(Walking, place, s \o t) = Along(Walking, Along(Walking, place, s), t)
<1>1. Along(Walking, place, <<>>) = place
  BY WalkingSteps, AlongNothing
<1>2. \A s \in Seq(Segment) : Along(Walking, place, s) \in Seq(Segment)
  BY WalkingSteps, AlongType
<1>3. ASSUME NEW s \in Seq(Segment), NEW c \in Segment
      PROVE  Along(Walking, place, Append(s, c)) = Walk(Along(Walking, place, s), c)
  <2>1. Along(Walking, place, Append(s, c)) = Walking[<<Along(Walking, place, s), c>>]
    BY WalkingSteps, AlongAppend
  <2>2. QED
    BY <1>2, <2>1, WalkingSteps
<1>4. \A s, t \in Seq(Segment) :
        Along(Walking, place, s \o t) = Along(Walking, Along(Walking, place, s), t)
  BY WalkingSteps, AlongBoth
<1>5. QED
  BY <1>1, <1>2, <1>3, <1>4

LEMMA DescendOf ==
  ASSUME NEW abs
  PROVE  /\ Along(Descending(abs), <<>>, <<>>) = <<>>
         /\ \A s \in Seq(Segment) : Along(Descending(abs), <<>>, s) \in Seq(Segment)
         /\ \A s \in Seq(Segment), c \in Segment :
              Along(Descending(abs), <<>>, Append(s, c))
                = Descend(abs, Along(Descending(abs), <<>>, s), c)
<1> DEFINE step == Descending(abs)
<1>1. Stepping(step, Seq(Segment), Segment)
  BY DescendingSteps
<1> HIDE DEF step
<1>2. /\ Along(step, <<>>, <<>>) = <<>>
      /\ \A s \in Seq(Segment) : Along(step, <<>>, s) \in Seq(Segment)
      /\ \A s \in Seq(Segment), c \in Segment :
           Along(step, <<>>, Append(s, c)) = step[<<Along(step, <<>>, s), c>>]
  BY <1>1, EmptySegments, AlongOf
<1>3. ASSUME NEW s \in Seq(Segment), NEW c \in Segment
      PROVE  Along(Descending(abs), <<>>, Append(s, c))
               = Descend(abs, Along(Descending(abs), <<>>, s), c)
  <2>1. Along(Descending(abs), <<>>, Append(s, c))
          = Descending(abs)[<<Along(Descending(abs), <<>>, s), c>>]
    BY <1>2 DEF step
  <2>2. QED
    BY <1>2, <2>1, DescendingSteps DEF step
<1>4. QED
  BY <1>2, <1>3 DEF step

\* What a normal form has between its slashes: names, and in front of those of a relative
\* path the ..s that nothing takes back.
Normal(abs, out) ==
  /\ out \in Seq(Segment)
  /\ \A i \in DOMAIN out : out[i] \notin {"", "."}
  /\ \A i \in DOMAIN out : out[i] = ".." => ~abs /\ \A j \in 1 .. i : out[j] = ".."

\* What no component is but the first, and what is no name.
Dotless == {"", "."}
Nameless == {"", ".", ".."}

\* None of none is in s.
FreeOf(s, none) == \A i \in DOMAIN s : s[i] \notin none

NoneEmpty(s) == FreeOf(s, {""})

LEMMA AppendedMembers ==
  ASSUME NEW S, NEW s \in Seq(S), NEW c \in S
  PROVE  /\ Append(s, c) \in Seq(S)
         /\ Len(s) \in Nat /\ DOMAIN s = 1 .. Len(s) /\ DOMAIN Append(s, c) = 1 .. Len(s) + 1
         /\ \A i \in 1 .. Len(s) : Append(s, c)[i] = s[i]
         /\ Append(s, c)[Len(s) + 1] = c
<1>1. Append(s, c) \in Seq(S)
  BY AppendProperties
<1>2. Len(Append(s, c)) = Len(s) + 1 /\ Append(s, c)[Len(s) + 1] = c
  BY AppendProperties
<1>3. DOMAIN Append(s, c) = 1 .. Len(s) + 1
  BY <1>1, <1>2, LenProperties
<1>4. QED
  BY <1>1, <1>2, <1>3, AppendProperties, LenProperties

LEMMA FreeOfAppend ==
  ASSUME NEW S, NEW s \in Seq(S), NEW c \in S, NEW none
  PROVE  FreeOf(Append(s, c), none) <=> FreeOf(s, none) /\ c \notin none
<1> DEFINE m == Append(s, c)
<1>1. /\ DOMAIN s = 1 .. Len(s) /\ DOMAIN m = 1 .. Len(s) + 1 /\ Len(s) \in Nat
      /\ \A i \in 1 .. Len(s) : m[i] = s[i]
      /\ m[Len(s) + 1] = c
  BY AppendedMembers
<1> HIDE DEF m
<1>2. /\ Len(s) + 1 \in DOMAIN m
      /\ \A i \in DOMAIN m : i \in DOMAIN s \/ i = Len(s) + 1
      /\ \A i \in DOMAIN s : i \in DOMAIN m /\ m[i] = s[i]
  BY <1>1
<1>3. FreeOf(m, none) <=> FreeOf(s, none) /\ c \notin none
  BY <1>1, <1>2 DEF FreeOf
<1>4. QED
  BY <1>3 DEF m

LEMMA StrippedWalks ==
  ASSUME NEW place \in Seq(Segment), NEW s \in Seq(Segment)
  PROVE  Along(Walking, place, Stripped(s)) = Along(Walking, place, s)
<1> DEFINE T == {t \in Seq(Segment) : Along(Walking, place, Stripped(t)) = Along(Walking, place, t)}
<1>1. <<>> \in T
  BY EmptySegments, StrippedOf
<1>2. ASSUME NEW t \in T, NEW c \in Segment
      PROVE  Append(t, c) \in T
  <2>1. t \in Seq(Segment) /\ Along(Walking, place, Stripped(t)) = Along(Walking, place, t)
    OBVIOUS
  <2> HIDE DEF T
  <2>2. Stripped(t) \in Seq(Segment) /\ Append(t, c) \in Seq(Segment)
    BY <2>1, StrippedOf, AppendProperties
  <2>3. Along(Walking, place, Append(t, c)) = Walk(Along(Walking, place, t), c)
    BY <2>1, WalkOf
  <2>4. CASE c \in {"", "."}
    <3>1. Stripped(Append(t, c)) = Stripped(t)
      BY <2>1, <2>4, StrippedOf
    <3>2. Walk(Along(Walking, place, t), c) = Along(Walking, place, t)
      BY <2>4 DEF Walk
    <3>3. QED
      BY <2>1, <2>2, <2>3, <3>1, <3>2 DEF T
  <2>5. CASE c \notin {"", "."}
    <3>1. Stripped(Append(t, c)) = Append(Stripped(t), c)
      BY <2>1, <2>5, StrippedOf
    <3>2. Along(Walking, place, Append(Stripped(t), c)) = Walk(Along(Walking, place, Stripped(t)), c)
      BY <2>2, WalkOf
    <3>3. QED
      BY <2>1, <2>2, <2>3, <3>1, <3>2 DEF T
  <2>6. QED
    BY <2>4, <2>5
<1> HIDE DEF T
<1>3. T \in SUBSET Seq(Segment)
  BY DEF T
<1>4. T = Seq(Segment)
  BY <1>1, <1>2, <1>3, Appending
<1>5. QED
  BY <1>4 DEF T

LEMMA StrippedNames ==
  ASSUME NEW s \in Seq(Segment)
  PROVE  FreeOf(Stripped(s), Dotless)
<1> DEFINE T == {t \in Seq(Segment) : FreeOf(Stripped(t), Dotless)}
<1>1. <<>> \in T
  <2>1. FreeOf(<<>>, Dotless)
    BY DEF FreeOf
  <2>2. QED
    BY <2>1, EmptySegments, StrippedOf
<1>2. ASSUME NEW t \in T, NEW c \in Segment
      PROVE  Append(t, c) \in T
  <2>1. t \in Seq(Segment) /\ FreeOf(Stripped(t), Dotless)
    OBVIOUS
  <2> HIDE DEF T
  <2>2. Stripped(t) \in Seq(Segment) /\ Append(t, c) \in Seq(Segment)
    BY <2>1, StrippedOf, AppendProperties
  <2>3. CASE c \in {"", "."}
    <3>1. Stripped(Append(t, c)) = Stripped(t)
      BY <2>1, <2>3, StrippedOf
    <3>2. QED
      BY <2>1, <2>2, <3>1 DEF T
  <2>4. CASE c \notin {"", "."}
    <3>1. Stripped(Append(t, c)) = Append(Stripped(t), c)
      BY <2>1, <2>4, StrippedOf
    <3>2. FreeOf(Append(Stripped(t), c), Dotless)
      BY <2>1, <2>2, <2>4, FreeOfAppend DEF Dotless
    <3>3. QED
      BY <2>2, <3>1, <3>2 DEF T
  <2>5. QED
    BY <2>3, <2>4
<1> HIDE DEF T
<1>3. T \in SUBSET Seq(Segment)
  BY DEF T
<1>4. T = Seq(Segment)
  BY <1>1, <1>2, <1>3, Appending
<1>5. QED
  BY <1>4 DEF T

\* The names among segments stay, and of two lists one after the other those of both.
LEMMA StrippedBoth ==
  ASSUME NEW s \in Seq(Segment), NEW t \in Seq(Segment)
  PROVE  Stripped(s \o t) = Stripped(s) \o Stripped(t)
<1> DEFINE T == {u \in Seq(Segment) : Stripped(s \o u) = Stripped(s) \o Stripped(u)}
<1>0. Stripped(s) \in Seq(Segment)
  BY StrippedOf
<1>1. <<>> \in T
  BY <1>0, EmptySegments, StrippedOf, ConcatEmptySeq
<1>2. ASSUME NEW u \in T, NEW c \in Segment
      PROVE  Append(u, c) \in T
  <2>1. u \in Seq(Segment) /\ Stripped(s \o u) = Stripped(s) \o Stripped(u)
    OBVIOUS
  <2> HIDE DEF T
  <2>2. Stripped(u) \in Seq(Segment) /\ Append(u, c) \in Seq(Segment) /\ s \o u \in Seq(Segment)
    BY <2>1, StrippedOf, AppendProperties, ConcatProperties
  <2>3. s \o Append(u, c) = Append(s \o u, c)
    BY <2>1
  <2>4. CASE c \in {"", "."}
    <3>1. Stripped(Append(u, c)) = Stripped(u) /\ Stripped(Append(s \o u, c)) = Stripped(s \o u)
      BY <2>1, <2>2, <2>4, StrippedOf
    <3>2. QED
      BY <2>1, <2>2, <2>3, <3>1 DEF T
  <2>5. CASE c \notin {"", "."}
    <3>1. Stripped(Append(u, c)) = Append(Stripped(u), c) /\ Stripped(Append(s \o u, c)) = Append(Stripped(s \o u), c)
      BY <2>1, <2>2, <2>5, StrippedOf
    <3>2. Stripped(s) \o Append(Stripped(u), c) = Append(Stripped(s) \o Stripped(u), c)
      BY <1>0, <2>2
    <3>3. QED
      BY <2>1, <2>2, <2>3, <3>1, <3>2 DEF T
  <2>6. QED
    BY <2>4, <2>5
<1> HIDE DEF T
<1>3. T \in SUBSET Seq(Segment)
  BY DEF T
<1>4. T = Seq(Segment)
  BY <1>1, <1>2, <1>3, Appending
<1>5. QED
  BY <1>4 DEF T

LEMMA StrippedTwice ==
  ASSUME NEW s \in Seq(Segment), FreeOf(s, Dotless)
  PROVE  Stripped(s) = s
<1> DEFINE T == {t \in Seq(Segment) : FreeOf(t, Dotless) => Stripped(t) = t}
<1>1. <<>> \in T
  BY EmptySegments, StrippedOf
<1>2. ASSUME NEW t \in T, NEW c \in Segment
      PROVE  Append(t, c) \in T
  <2>1. t \in Seq(Segment) /\ (FreeOf(t, Dotless) => Stripped(t) = t)
    OBVIOUS
  <2> HIDE DEF T
  <2>2. Append(t, c) \in Seq(Segment)
    BY <2>1, AppendProperties
  <2>3. c \notin {"", "."} => Stripped(Append(t, c)) = Append(Stripped(t), c)
    BY <2>1, StrippedOf
  <2>4. ASSUME FreeOf(Append(t, c), Dotless)
        PROVE  Stripped(Append(t, c)) = Append(t, c)
    <3>1. FreeOf(t, Dotless) /\ c \notin Dotless
      BY <2>1, <2>4, FreeOfAppend
    <3>2. QED
      BY <2>1, <2>3, <3>1 DEF Dotless
  <2>5. QED
    BY <2>2, <2>4 DEF T
<1> HIDE DEF T
<1>3. T \in SUBSET Seq(Segment)
  BY DEF T
<1>4. T = Seq(Segment)
  BY <1>1, <1>2, <1>3, Appending
<1>5. s \in T
  BY <1>4
<1>6. QED
  BY <1>5 DEF T

\* The . a relative path begins with.
DotInFront(p) == IF ~p.abs /\ p.segs # <<>> /\ Head(p.segs) = "." THEN <<".">> ELSE <<>>

LEMMA LeadStripped ==
  ASSUME NEW p \in PathText
  PROVE  /\ p.abs \in BOOLEAN /\ p.segs \in Seq(Segment)
         /\ DotInFront(p) \in Seq(Segment) /\ DotInFront(p) \in {<<>>, <<".">>}
         /\ Components(p) = DotInFront(p) \o Stripped(p.segs)
         /\ Components(p) \in Seq(Segment)
<1>1. p.abs \in BOOLEAN /\ p.segs \in Seq(Segment)
  BY DEF PathText
<1>2. DotInFront(p) \in Seq(Segment) /\ DotInFront(p) \in {<<>>, <<".">>}
  <2>1. "." \in Segment
    BY SegmentAssumption
  <2>2. <<".">> \in Seq(Segment) /\ <<>> \in Seq(Segment)
    BY <2>1
  <2>3. QED
    BY <2>2 DEF DotInFront
<1>3. Components(p) = DotInFront(p) \o Stripped(p.segs)
  BY DEF Components, DotInFront, Stripped
<1>4. Components(p) \in Seq(Segment)
  <2>1. Stripped(p.segs) \in Seq(Segment)
    BY <1>1, StrippedOf
  <2>2. QED
    BY <1>2, <1>3, <2>1, ConcatProperties
<1>5. QED
  BY <1>1, <1>2, <1>3, <1>4

LEMMA DotIsNoStep ==
  ASSUME NEW place \in Seq(Segment)
  PROVE  Along(Walking, place, <<".">>) = place
<1>0. "." \in Segment
  BY SegmentAssumption
<1>1. <<".">> = Append(<<>>, ".")
  OBVIOUS
<1>a. \A s \in Seq(Segment), c \in Segment :
        Along(Walking, place, Append(s, c)) = Walk(Along(Walking, place, s), c)
  BY WalkOf
<1>2. Along(Walking, place, Append(<<>>, ".")) = Walk(Along(Walking, place, <<>>), ".")
  BY <1>0, <1>a, EmptySegments
<1>3. Along(Walking, place, <<>>) = place
  BY WalkOf
<1>4. QED
  BY <1>1, <1>2, <1>3 DEF Walk

LEMMA ComponentsWalk ==
  ASSUME NEW place \in Seq(Segment), NEW p \in PathText
  PROVE  Along(Walking, place, Components(p)) = Along(Walking, place, p.segs)
<1>1. Along(Walking, place, DotInFront(p)) = place
  BY LeadStripped, DotIsNoStep, WalkOf
<1>2. Along(Walking, place, DotInFront(p) \o Stripped(p.segs))
        = Along(Walking, Along(Walking, place, DotInFront(p)), Stripped(p.segs))
  <2>1. DotInFront(p) \in Seq(Segment) /\ Stripped(p.segs) \in Seq(Segment)
    BY LeadStripped, StrippedOf
  <2>2. \A s, t \in Seq(Segment) :
          Along(Walking, place, s \o t) = Along(Walking, Along(Walking, place, s), t)
    BY WalkOf
  <2>3. QED
    BY <2>1, <2>2
<1>3. QED
  BY <1>1, <1>2, LeadStripped, StrippedWalks

\* Where a path leads, segment by segment.
LEMMA FollowIs ==
  ASSUME NEW cwd \in Seq(Segment), NEW p \in PathText
  PROVE  Follow(cwd, p) = Along(Walking, IF p.abs THEN <<>> ELSE cwd, p.segs)
<1>1. (IF p.abs THEN <<>> ELSE cwd) \in Seq(Segment)
  BY EmptySegments
<1>2. QED
  BY <1>1, ComponentsWalk DEF Follow

LEMMA NoneEmptyOfAppend ==
  ASSUME NEW s \in Seq(Segment), NEW c \in Segment
  PROVE  NoneEmpty(Append(s, c)) <=> NoneEmpty(s) /\ c # ""
BY FreeOfAppend DEF NoneEmpty

LEMMA MembersOfBoth ==
  ASSUME NEW S, NEW s \in Seq(S), NEW t \in Seq(S)
  PROVE  \A i \in DOMAIN (s \o t) :
           \/ i \in DOMAIN s /\ (s \o t)[i] = s[i]
           \/ i - Len(s) \in DOMAIN t /\ (s \o t)[i] = t[i - Len(s)]
<1> DEFINE m == s \o t
<1>1. /\ m \in Seq(S) /\ Len(m) = Len(s) + Len(t)
      /\ \A i \in 1 .. Len(s) + Len(t) : m[i] = IF i <= Len(s) THEN s[i] ELSE t[i - Len(s)]
  BY ConcatProperties
<1> HIDE DEF m
<1>2. /\ Len(s) \in Nat /\ DOMAIN s = 1 .. Len(s)
      /\ Len(t) \in Nat /\ DOMAIN t = 1 .. Len(t)
      /\ DOMAIN m = 1 .. Len(m)
  BY <1>1, LenProperties
<1>3. ASSUME NEW i \in DOMAIN m
      PROVE  \/ i \in DOMAIN s /\ m[i] = s[i]
             \/ i - Len(s) \in DOMAIN t /\ m[i] = t[i - Len(s)]
  BY <1>1, <1>2
<1>4. QED
  BY <1>3 DEF m

LEMMA DotAlone ==
  ASSUME NEW l, l \in {<<>>, <<".">>}
  PROVE  \A i \in DOMAIN l : l[i] # ""
<1>1. CASE l = <<>>
  <2>1. DOMAIN l = {}
    BY <1>1
  <2>2. QED
    BY <2>1
<1>2. CASE l = <<".">>
  <2>1. DOMAIN l = 1 .. 1 /\ l[1] = "."
    BY <1>2
  <2>2. \A i \in 1 .. 1 : i = 1
    OBVIOUS
  <2>3. \A i \in DOMAIN l : l[i] = "."
    BY <2>1, <2>2
  <2>4. QED
    BY <2>3
<1>3. QED
  BY <1>1, <1>2

LEMMA NoneEmptyComponents ==
  ASSUME NEW p \in PathText
  PROVE  NoneEmpty(Components(p))
<1> DEFINE k == Stripped(p.segs)
           l == DotInFront(p)
<1>1. \A i \in DOMAIN k : k[i] # ""
  BY LeadStripped, StrippedNames DEF FreeOf, Dotless
<1>2. k \in Seq(Segment) /\ l \in Seq(Segment) /\ l \in {<<>>, <<".">>} /\ Components(p) = l \o k
  BY LeadStripped, StrippedOf
<1> HIDE DEF k, l
<1>3. \A i \in DOMAIN l : l[i] # ""
  BY <1>2, DotAlone
<1>4. ASSUME NEW i \in DOMAIN (l \o k)
      PROVE  (l \o k)[i] # ""
  <2>1. \/ i \in DOMAIN l /\ (l \o k)[i] = l[i]
        \/ i - Len(l) \in DOMAIN k /\ (l \o k)[i] = k[i - Len(l)]
    BY <1>2, MembersOfBoth
  <2>2. QED
    BY <1>1, <1>3, <2>1
<1>5. QED
  BY <1>2, <1>4 DEF NoneEmpty, FreeOf

LEMMA NormalAppend ==
  ASSUME NEW abs, NEW s \in Seq(Segment), NEW c \in Segment
  PROVE  Normal(abs, Append(s, c))
           <=> /\ Normal(abs, s) /\ c \notin {"", "."}
               /\ c = ".." => ~abs /\ (s = <<>> \/ Last(s) = "..")
<1> DEFINE m == Append(s, c)
           N == Len(s)
<1>1. /\ m \in Seq(Segment)
      /\ DOMAIN s = 1 .. N /\ DOMAIN m = 1 .. N + 1 /\ N \in Nat
      /\ \A i \in 1 .. N : m[i] = s[i]
      /\ m[N + 1] = c
  BY AppendedMembers
<1>2. s # <<>> => N \in DOMAIN s /\ Last(s) = s[N]
  BY LastOf
<1>3. s = <<>> => N = 0
  OBVIOUS
<1> HIDE DEF m, N
<1>4. /\ N + 1 \in DOMAIN m
      /\ \A i \in DOMAIN m : i \in DOMAIN s \/ i = N + 1
      /\ \A i \in DOMAIN s : i \in DOMAIN m /\ m[i] = s[i]
      /\ \A i \in DOMAIN s : \A j \in 1 .. i : j \in DOMAIN s
      /\ \A j \in 1 .. N + 1 : j \in DOMAIN s \/ j = N + 1
      /\ \A i \in DOMAIN s : i \in 1 .. N + 1 /\ i \in 1 .. N
  BY <1>1
<1>5. ASSUME Normal(abs, m)
      PROVE  /\ Normal(abs, s) /\ c \notin {"", "."}
             /\ c = ".." => ~abs /\ (s = <<>> \/ Last(s) = "..")
  <2>1. c \notin {"", "."}
    BY <1>1, <1>4, <1>5 DEF Normal
  <2>2. Normal(abs, s)
    BY <1>4, <1>5 DEF Normal
  <2>3. ASSUME c = ".."
        PROVE  ~abs /\ (s = <<>> \/ Last(s) = "..")
    <3>1. ~abs /\ \A j \in 1 .. N + 1 : m[j] = ".."
      BY <1>1, <1>4, <1>5, <2>3 DEF Normal
    <3>2. QED
      BY <1>2, <1>4, <3>1
  <2>4. QED
    BY <2>1, <2>2, <2>3
<1>6. ASSUME /\ Normal(abs, s) /\ c \notin {"", "."}
             /\ c = ".." => ~abs /\ (s = <<>> \/ Last(s) = "..")
      PROVE  Normal(abs, m)
  <2>1. \A i \in DOMAIN m : m[i] \notin {"", "."}
    BY <1>1, <1>4, <1>6 DEF Normal
  <2>2. ASSUME NEW i \in DOMAIN m, m[i] = ".."
        PROVE  ~abs /\ \A j \in 1 .. i : m[j] = ".."
    <3>1. CASE i \in DOMAIN s
      BY <1>4, <1>6, <2>2, <3>1 DEF Normal
    <3>2. CASE i = N + 1
      <4>1. c = ".." /\ ~abs /\ (s = <<>> \/ Last(s) = "..")
        BY <1>1, <1>6, <2>2, <3>2
      <4>2. \A j \in DOMAIN s : s[j] = ".."
        <5>1. CASE s = <<>>
          BY <5>1
        <5>2. CASE s # <<>>
          <6>1. s[N] = ".." /\ N \in DOMAIN s
            BY <1>2, <4>1, <5>2
          <6>2. \A j \in 1 .. N : s[j] = ".."
            BY <1>6, <6>1 DEF Normal
          <6>3. QED
            BY <1>1, <6>2
        <5>3. QED
          BY <5>1, <5>2
      <4>3. QED
        BY <1>1, <1>4, <3>2, <4>1, <4>2
    <3>3. QED
      BY <1>4, <3>1, <3>2
  <2>3. QED
    BY <1>1, <2>1, <2>2 DEF Normal
<1>7. QED
  BY <1>5, <1>6 DEF m

LEMMA DescendWalks ==
  ASSUME NEW abs, NEW place \in Seq(Segment), abs => place = <<>>,
         NEW s \in Seq(Segment), NoneEmpty(s)
  PROVE  /\ Normal(abs, Along(Descending(abs), <<>>, s))
         /\ Along(Walking, place, Along(Descending(abs), <<>>, s)) = Along(Walking, place, s)
<1> DEFINE D(t) == Along(Descending(abs), <<>>, t)
           W(t) == Along(Walking, place, t)
           T == {t \in Seq(Segment) : NoneEmpty(t) => Normal(abs, D(t)) /\ W(D(t)) = W(t)}
<1>1. /\ D(<<>>) = <<>>
      /\ \A t \in Seq(Segment) : D(t) \in Seq(Segment)
      /\ \A t \in Seq(Segment), c \in Segment : D(Append(t, c)) = Descend(abs, D(t), c)
  BY DescendOf
<1>2. /\ W(<<>>) = place
      /\ \A t \in Seq(Segment) : W(t) \in Seq(Segment)
      /\ \A t \in Seq(Segment), c \in Segment : W(Append(t, c)) = Walk(W(t), c)
  BY WalkOf
<1> HIDE DEF D, W
<1>3. <<>> \in T
  <2>1. Normal(abs, <<>>)
    BY EmptySegments DEF Normal
  <2>2. QED
    BY <1>1, <2>1, EmptySegments
<1>4. ASSUME NEW t \in T, NEW c \in Segment
      PROVE  Append(t, c) \in T
  <2>1. t \in Seq(Segment) /\ (NoneEmpty(t) => Normal(abs, D(t)) /\ W(D(t)) = W(t))
    OBVIOUS
  <2> HIDE DEF T
  <2>2. Append(t, c) \in Seq(Segment)
    BY <2>1, AppendProperties
  <2>3. ASSUME NoneEmpty(Append(t, c))
        PROVE  Normal(abs, D(Append(t, c))) /\ W(D(Append(t, c))) = W(Append(t, c))
    <3> DEFINE o == D(t)
    <3>1. NoneEmpty(t) /\ c # ""
      BY <2>1, <2>3, NoneEmptyOfAppend
    <3>2. o \in Seq(Segment) /\ Normal(abs, o) /\ W(o) = W(t)
      BY <1>1, <2>1, <3>1
    <3>3. D(Append(t, c)) = Descend(abs, o, c) /\ W(Append(t, c)) = Walk(W(o), c)
      BY <1>1, <1>2, <2>1, <3>2
    <3> HIDE DEF o
    <3>4. Normal(abs, Descend(abs, o, c)) /\ W(Descend(abs, o, c)) = Walk(W(o), c)
      <4>1. CASE c = "."
        BY <3>2, <4>1 DEF Descend, Walk
      <4>2. CASE c \notin {".", ".."}
        <5>1. Descend(abs, o, c) = Append(o, c)
          BY <4>2 DEF Descend
        <5>2. Normal(abs, Append(o, c))
          BY <3>1, <3>2, <4>2, NormalAppend
        <5>3. W(Append(o, c)) = Walk(W(o), c)
          BY <1>2, <3>2
        <5>4. QED
          BY <5>1, <5>2, <5>3
      <4>3. CASE c = ".." /\ o # <<>> /\ Last(o) # ".."
        <5>1. Descend(abs, o, c) = Front(o)
          BY <4>3 DEF Descend
        <5>2. PICK f \in Seq(Segment), z \in Segment : o = Append(f, z)
          BY <3>2, <4>3, SequenceEmptyOrAppend
        <5>3. Front(o) = f /\ Last(o) = z
          BY <5>2, LastOfAppend
        <5>4. Normal(abs, f) /\ z \notin {"", ".", ".."}
          BY <3>2, <4>3, <5>2, <5>3, NormalAppend
        <5>5. W(o) = Append(W(f), z) /\ W(f) \in Seq(Segment)
          BY <1>2, <5>2, <5>4 DEF Walk
        <5>6. W(o) # <<>> /\ Front(W(o)) = W(f)
          BY <5>5, LastOfAppend
        <5>7. Walk(W(o), c) = W(f)
          BY <4>3, <5>6 DEF Walk
        <5>8. QED
          BY <5>1, <5>3, <5>4, <5>7
      <4>4. CASE c = ".." /\ (o = <<>> \/ Last(o) = "..") /\ ~abs
        <5>1. Descend(abs, o, c) = Append(o, c)
          BY <4>4 DEF Descend
        <5>2. Normal(abs, Append(o, c))
          BY <3>2, <4>4, NormalAppend
        <5>3. W(Append(o, c)) = Walk(W(o), c)
          BY <1>2, <3>2
        <5>4. QED
          BY <5>1, <5>2, <5>3
      <4>5. CASE c = ".." /\ (o = <<>> \/ Last(o) = "..") /\ abs
        <5>1. o = <<>>
          BY <3>2, <4>5, LastOf DEF Normal
        <5>2. Descend(abs, o, c) = o
          BY <4>5, <5>1 DEF Descend
        <5>3. W(o) = <<>>
          BY <1>2, <4>5, <5>1
        <5>4. Walk(W(o), c) = W(o)
          BY <4>5, <5>3 DEF Walk
        <5>5. QED
          BY <3>2, <5>2, <5>4
      <4>6. QED
        BY <4>1, <4>2, <4>3, <4>4, <4>5
    <3>5. QED
      BY <3>3, <3>4
  <2>4. QED
    BY <2>2, <2>3 DEF T
<1> HIDE DEF T
<1>5. T \in SUBSET Seq(Segment)
  BY DEF T
<1>6. T = Seq(Segment)
  BY <1>3, <1>4, <1>5, Appending
<1>7. s \in T
  BY <1>6
<1>8. QED
  BY <1>7 DEF T, D, W

LEMMA NormalFixed ==
  ASSUME NEW abs, NEW out, Normal(abs, out)
  PROVE  Along(Descending(abs), <<>>, out) = out /\ Stripped(out) = out
<1> DEFINE D(t) == Along(Descending(abs), <<>>, t)
           T == {t \in Seq(Segment) : Normal(abs, t) => D(t) = t}
<1>1. /\ D(<<>>) = <<>>
      /\ \A t \in Seq(Segment), c \in Segment : D(Append(t, c)) = Descend(abs, D(t), c)
  BY DescendOf
<1> HIDE DEF D
<1>2. <<>> \in T
  BY <1>1, EmptySegments
<1>3. ASSUME NEW t \in T, NEW c \in Segment
      PROVE  Append(t, c) \in T
  <2>1. t \in Seq(Segment) /\ (Normal(abs, t) => D(t) = t)
    OBVIOUS
  <2> HIDE DEF T
  <2>2. Append(t, c) \in Seq(Segment)
    BY <2>1, AppendProperties
  <2>3. ASSUME Normal(abs, Append(t, c))
        PROVE  D(Append(t, c)) = Append(t, c)
    <3>1. /\ Normal(abs, t) /\ c \notin {"", "."}
          /\ c = ".." => ~abs /\ (t = <<>> \/ Last(t) = "..")
      BY <2>1, <2>3, NormalAppend
    <3>2. D(Append(t, c)) = Descend(abs, t, c)
      BY <1>1, <2>1, <3>1
    <3>3. QED
      BY <3>1, <3>2 DEF Descend
  <2>4. QED
    BY <2>2, <2>3 DEF T
<1> HIDE DEF T
<1>4. T \in SUBSET Seq(Segment)
  BY DEF T
<1>5. T = Seq(Segment)
  BY <1>2, <1>3, <1>4, Appending
<1>6. out \in T
  BY <1>5 DEF Normal
<1>7. D(out) = out
  BY <1>6 DEF T
<1>8. Stripped(out) = out
  BY StrippedTwice DEF Normal, FreeOf, Dotless
<1>9. QED
  BY <1>7, <1>8 DEF D

LEMMA NormalComponents ==
  ASSUME NEW abs \in BOOLEAN, NEW out, Normal(abs, out)
  PROVE  Components([abs |-> abs, segs |-> out]) = out
<1> DEFINE q == [abs |-> abs, segs |-> out]
<1>1. q \in PathText /\ q.segs = out /\ q.abs = abs
  BY DEF PathText, Normal
<1>2. DotInFront(q) = <<>>
  <2>1. out # <<>> => 1 \in DOMAIN out /\ Head(out) = out[1]
    <3>1. out \in Seq(Segment)
      BY DEF Normal
    <3>2. out # <<>> => Len(out) \in Nat \ {0} /\ DOMAIN out = 1 .. Len(out)
      BY <3>1, LastOf, LenProperties
    <3>3. QED
      BY <3>2
  <2>2. out # <<>> => Head(out) # "."
    BY <2>1 DEF Normal
  <2>3. QED
    BY <1>1, <2>2 DEF DotInFront
<1>3. Stripped(out) = out
  BY NormalFixed
<1>4. Components(q) = DotInFront(q) \o Stripped(q.segs)
  BY <1>1, LeadStripped
<1> HIDE DEF q
<1>5. Components(q) = out
  BY <1>1, <1>2, <1>3, <1>4, ConcatEmptySeq DEF PathText
<1>6. QED
  BY <1>5 DEF q

LEMMA DotStripped == "." \in Segment /\ <<".">> \in Seq(Segment) /\ Stripped(<<".">>) = <<>>
<1>1. "." \in Segment
  BY SegmentAssumption
<1>2. <<".">> \in Seq(Segment) /\ <<".">> = Append(<<>>, ".")
  BY <1>1
<1>3. Stripped(<<>>) = <<>> /\ Stripped(Append(<<>>, ".")) = Stripped(<<>>)
  BY <1>1, EmptySegments, StrippedOf
<1>4. QED
  BY <1>1, <1>2, <1>3

\* A normal form is its own components, and leads where the path led.
LEMMA NormalizeIs ==
  ASSUME NEW p \in PathText
  PROVE  /\ Normalize(p) \in PathText /\ Normalize(p).abs = p.abs
         /\ Components(Normalize(p)) = Normalize(p).segs
         /\ NoneEmpty(Normalize(p).segs)
         /\ Normalize(Normalize(p)) = Normalize(p)
         /\ \A place \in Seq(Segment) :
              (p.abs => place = <<>>) =>
                Along(Walking, place, Normalize(p).segs) = Along(Walking, place, p.segs)
<1> DEFINE N == Along(Descending(p.abs), <<>>, Components(p))
<1>1. p.abs \in BOOLEAN /\ Components(p) \in Seq(Segment) /\ NoneEmpty(Components(p))
  BY LeadStripped, NoneEmptyComponents
<1>2. Normal(p.abs, N)
  BY <1>1, DescendWalks, EmptySegments
<1>3. \A place \in Seq(Segment) :
        (p.abs => place = <<>>) => Along(Walking, place, N) = Along(Walking, place, p.segs)
  BY <1>1, DescendWalks, ComponentsWalk
<1>4. Normalize(p) = [abs |-> p.abs, segs |-> IF N = <<>> /\ ~p.abs THEN <<".">> ELSE N]
  BY DEF Normalize
<1> DEFINE n == Normalize(p)
<1>5. n.abs = p.abs /\ Along(Descending(p.abs), <<>>, Components(n)) = N => Normalize(n) = n
  BY <1>4 DEF Normalize
<1> HIDE DEF N, n
<1>6. CASE N = <<>> /\ ~p.abs
  <2>1. n = [abs |-> p.abs, segs |-> <<".">>]
    BY <1>4, <1>6 DEF n
  <2>2. n \in PathText /\ n.abs = p.abs /\ n.segs = <<".">>
    BY <1>1, <2>1, DotStripped DEF PathText
  <2>3. Components(n) = <<".">>
    <3>1. DotInFront(n) = <<".">>
      BY <1>6, <2>2 DEF DotInFront
    <3>2. QED
      <4>1. Components(n) = <<".">> \o <<>>
        BY <2>2, <3>1, DotStripped, LeadStripped
      <4>2. QED
        BY <4>1
  <2>4. NoneEmpty(<<".">>)
    BY DotAlone DEF NoneEmpty, FreeOf
  <2>5. Along(Descending(p.abs), <<>>, <<".">>) = N
    <3>1. <<".">> = Append(<<>>, ".")
      OBVIOUS
    <3>2. /\ Along(Descending(p.abs), <<>>, <<>>) = <<>>
          /\ \A s \in Seq(Segment), c \in Segment :
               Along(Descending(p.abs), <<>>, Append(s, c))
                 = Descend(p.abs, Along(Descending(p.abs), <<>>, s), c)
      BY DescendOf
    <3>3. Along(Descending(p.abs), <<>>, Append(<<>>, ".")) = Descend(p.abs, <<>>, ".")
      BY <3>2, DotStripped, EmptySegments
    <3>4. QED
      BY <1>6, <3>1, <3>3 DEF Descend
  <2>6. Normalize(n) = n
    BY <1>5, <2>2, <2>3, <2>5
  <2>7. \A place \in Seq(Segment) : Along(Walking, place, <<".">>) = Along(Walking, place, N)
    BY <1>6, DotIsNoStep, WalkOf
  <2>8. QED
    BY <1>3, <2>2, <2>3, <2>4, <2>6, <2>7 DEF n
<1>7. CASE ~(N = <<>> /\ ~p.abs)
  <2>1. n = [abs |-> p.abs, segs |-> N]
    BY <1>4, <1>7 DEF n
  <2>2. n \in PathText /\ n.abs = p.abs /\ n.segs = N
    BY <1>1, <1>2, <2>1 DEF PathText, Normal
  <2>3. Components(n) = N
    BY <1>1, <1>2, <2>1, NormalComponents
  <2>4. NoneEmpty(N)
    BY <1>2 DEF Normal, NoneEmpty, FreeOf
  <2>5. Along(Descending(p.abs), <<>>, N) = N
    BY <1>2, NormalFixed
  <2>6. Normalize(n) = n
    BY <1>5, <2>2, <2>3, <2>5
  <2>7. QED
    BY <1>3, <2>2, <2>3, <2>4, <2>6 DEF n
<1>8. QED
  BY <1>6, <1>7

LEMMA BothAppended ==
  ASSUME NEW S, NEW s \in Seq(S), NEW t \in Seq(S), NEW c \in S
  PROVE  s \o Append(t, c) = Append(s \o t, c)
OBVIOUS

\* From any place a list of names leads as far below it.
LEMMA NamesLeadDown ==
  ASSUME NEW place \in Seq(Segment), NEW s \in Seq(Segment),
         FreeOf(s, Nameless)
  PROVE  Along(Walking, place, s) = place \o s
<1> DEFINE T == {t \in Seq(Segment) : FreeOf(t, Nameless) => Along(Walking, place, t) = place \o t}
<1>1. <<>> \in T
  BY EmptySegments, WalkOf, ConcatEmptySeq
<1>2. ASSUME NEW t \in T, NEW c \in Segment
      PROVE  Append(t, c) \in T
  <2>1. /\ t \in Seq(Segment)
        /\ FreeOf(t, Nameless) => Along(Walking, place, t) = place \o t
    OBVIOUS
  <2> HIDE DEF T
  <2>a. t \in Seq(Segment)
    BY <2>1
  <2>2. Append(t, c) \in Seq(Segment)
    BY <2>a, AppendProperties
  <2>3. Along(Walking, place, Append(t, c)) = Walk(Along(Walking, place, t), c)
    BY <2>a, WalkOf
  <2>b. \A u \in Seq(Segment), d \in Segment : place \o Append(u, d) = Append(place \o u, d)
    BY BothAppended
  <2>4. ASSUME FreeOf(Append(t, c), Nameless)
        PROVE  Along(Walking, place, Append(t, c)) = place \o Append(t, c)
    <3>1. c \notin Nameless /\ FreeOf(t, Nameless)
      BY <2>a, <2>4, FreeOfAppend
    <3>2. Walk(place \o t, c) = Append(place \o t, c)
      BY <3>1 DEF Walk, Nameless
    <3>3. QED
      BY <2>1, <2>3, <2>b, <3>1, <3>2
  <2>5. QED
    BY <2>2, <2>4 DEF T
<1> HIDE DEF T
<1>3. T \in SUBSET Seq(Segment)
  BY DEF T
<1>4. T = Seq(Segment)
  BY <1>1, <1>2, <1>3, Appending
<1>5. s \in T
  BY <1>4
<1>6. QED
  BY <1>5 DEF T

\* The names of directories.
Name == Segment \ {"", ".", ".."}

\* path.normalize and path.absolute keep where a path leads, from every directory and however
\* far up it goes (no links among the directories), and path.normalize of what it returned
\* returns that again.
THEOREM NormalFormsLeadThere ==
  \A cwd \in Seq(Name), p \in PathText : NormalLeadsThere(cwd, p)
<1> SUFFICES ASSUME NEW cwd \in Seq(Name), NEW p \in PathText
             PROVE  NormalLeadsThere(cwd, p)
  OBVIOUS
<1>1. /\ cwd \in Seq(Segment)
      /\ FreeOf(cwd, Nameless)
  <2>1. DOMAIN cwd = 1 .. Len(cwd) /\ \A i \in 1 .. Len(cwd) : cwd[i] \in Name
    BY LenProperties, ElementOfSeq
  <2>2. cwd \in Seq(Segment)
    BY SeqMonotonic DEF Name
  <2>3. QED
    BY <2>1, <2>2 DEF Name, FreeOf, Nameless
<1> DEFINE place == IF p.abs THEN <<>> ELSE cwd
<1>2. place \in Seq(Segment) /\ (p.abs => place = <<>>)
  BY <1>1, EmptySegments
<1>a. \A q \in PathText : Follow(cwd, q) = Along(Walking, IF q.abs THEN <<>> ELSE cwd, q.segs)
  BY <1>1, FollowIs
<1>b. Normalize(p) \in PathText /\ Normalize(p).abs = p.abs
  BY NormalizeIs
<1>3. Follow(cwd, p) = Along(Walking, place, p.segs)
  BY <1>a
<1>4. Follow(cwd, Normalize(p)) = Along(Walking, place, Normalize(p).segs)
  BY <1>a, <1>b
<1> HIDE DEF place
<1>5. Follow(cwd, Normalize(p)) = Follow(cwd, p)
  BY <1>2, <1>3, <1>4, NormalizeIs
<1>6. Follow(cwd, Absolute(p, AbsPath(cwd))) = Follow(cwd, p)
  <2>1. CASE p.abs
    BY <1>5, <2>1 DEF Absolute
  <2>2. CASE ~p.abs
    <3> DEFINE q == [abs |-> TRUE, segs |-> cwd \o p.segs]
    <3>1. Absolute(p, AbsPath(cwd)) = Normalize(q)
      <4>1. Push(AbsPath(cwd), p) = q
        BY <2>2 DEF Push, AbsPath, RelPath
      <4> HIDE DEF q
      <4>2. QED
        BY <2>2, <4>1 DEF Absolute
    <3>2. p.segs \in Seq(Segment)
      BY DEF PathText
    <3>3. q \in PathText /\ q.abs = TRUE /\ q.segs = cwd \o p.segs
      BY <1>1, <3>2, ConcatProperties DEF PathText
    <3> HIDE DEF q
    <3>4. Follow(cwd, Normalize(q)) = Along(Walking, <<>>, Normalize(q).segs)
      BY <1>a, <3>3, NormalizeIs
    <3>5. Along(Walking, <<>>, Normalize(q).segs) = Along(Walking, <<>>, cwd \o p.segs)
      BY <3>3, EmptySegments, NormalizeIs
    <3>6. Along(Walking, <<>>, cwd \o p.segs) = Along(Walking, Along(Walking, <<>>, cwd), p.segs)
      <4>1. \A s, t \in Seq(Segment) :
              Along(Walking, <<>>, s \o t) = Along(Walking, Along(Walking, <<>>, s), t)
        BY EmptySegments, WalkOf
      <4>2. QED
        BY <1>1, <3>2, <4>1
    <3>7. Along(Walking, <<>>, cwd) = cwd
      BY <1>1, EmptySegments, NamesLeadDown, ConcatEmptySeq
    <3>8. Follow(cwd, p) = Along(Walking, cwd, p.segs)
      BY <1>3, <2>2 DEF place
    <3>9. QED
      BY <3>1, <3>4, <3>5, <3>6, <3>7, <3>8
  <2>3. QED
    BY <2>1, <2>2
<1>7. QED
  BY <1>5, <1>6, NormalizeIs DEF NormalLeadsThere

LEMMA PushingSteps ==
  /\ Stepping(Pushing, PathText, PathText)
  /\ \A p, q \in PathText : Pushing[<<p, q>>] = Push(p, q)
<1>1. \A p, q \in PathText : Push(p, q) \in PathText
  BY ConcatProperties DEF Push, PathText, RelPath
<1>2. QED
  BY <1>1 DEF Pushing, Stepping

LEMMA PushedOn ==
  ASSUME NEW p \in PathText, NEW q \in PathText, ~q.abs
  PROVE  /\ Push(p, q) \in PathText
         /\ Push(p, q).abs = p.abs /\ Push(p, q).segs = p.segs \o q.segs
<1>1. p.segs \in Seq(Segment) /\ q.segs \in Seq(Segment) /\ p.segs \o q.segs \in Seq(Segment)
  BY ConcatProperties DEF PathText
<1>2. CASE p = RelPath(<<>>)
  <2>1. p.abs = FALSE /\ p.segs = <<>>
    BY <1>2 DEF RelPath
  <2>2. Push(p, q) = q /\ q.abs = FALSE
    BY <1>2 DEF Push, PathText
  <2>3. QED
    BY <1>1, <2>1, <2>2, ConcatEmptySeq
<1>3. CASE p # RelPath(<<>>)
  <2>1. Push(p, q) = [p EXCEPT !.segs = p.segs \o q.segs]
    BY <1>3 DEF Push
  <2> DEFINE b == p.segs \o q.segs
  <2>2. b \in Seq(Segment)
    BY <1>1
  <2> HIDE DEF b
  <2>3. [p EXCEPT !.segs = b] = [abs |-> p.abs, segs |-> b] /\ p.abs \in BOOLEAN
    BY <2>2 DEF PathText
  <2>4. [abs |-> p.abs, segs |-> b] \in PathText
    BY <2>2, <2>3 DEF PathText
  <2>5. QED
    BY <2>1, <2>3, <2>4 DEF b
<1>4. QED
  BY <1>2, <1>3

LEMMA SamePath ==
  ASSUME NEW p \in PathText, NEW a \in BOOLEAN, NEW s \in Seq(Segment), p.abs = a, p.segs = s
  PROVE  p = [abs |-> a, segs |-> s]
BY DEF PathText

LEMMA PushOf ==
  ASSUME NEW start \in PathText
  PROVE  /\ Along(Pushing, start, <<>>) = start
         /\ \A r \in Seq(PathText), q \in PathText :
              Along(Pushing, start, Append(r, q)) = Pushing[<<Along(Pushing, start, r), q>>]
         /\ \A r, t \in Seq(PathText) :
              Along(Pushing, start, r \o t) = Along(Pushing, Along(Pushing, start, r), t)
BY PushingSteps, AlongOf

LEMMA OneAppended ==
  ASSUME NEW S, NEW s \in Seq(S), NEW c \in S
  PROVE  Append(s, c) = s \o <<c>> /\ (s = <<>> => Append(s, c) = <<c>>)
<1>1. Append(s, c) = s \o <<c>>
  BY AppendIsConcat
<1>2. Append(<<>>, c) = <<c>>
  OBVIOUS
<1>3. QED
  BY <1>1, <1>2

\* Each segment as a path of its own.
Rels(s) == [i \in DOMAIN s |-> RelPath(<<s[i]>>)]

LEMMA RelsAppend ==
  ASSUME NEW s \in Seq(Segment), NEW c \in Segment
  PROVE  /\ Rels(s) \in Seq(PathText) /\ RelPath(<<c>>) \in PathText
         /\ Rels(Append(s, c)) = Append(Rels(s), RelPath(<<c>>))
<1> DEFINE m == Append(s, c)
           r == Rels(s)
           R == Rels(m)
           z == RelPath(<<c>>)
<1>1. \A d \in Segment : RelPath(<<d>>) \in PathText
  BY DEF RelPath, PathText
<1>2. /\ DOMAIN s = 1 .. Len(s) /\ DOMAIN m = 1 .. Len(s) + 1 /\ Len(s) \in Nat
      /\ \A i \in 1 .. Len(s) : m[i] = s[i]
      /\ m[Len(s) + 1] = c /\ m \in Seq(Segment)
  BY AppendedMembers
<1>3. \A i \in DOMAIN s : s[i] \in Segment
  BY <1>2, ElementOfSeq
<1>4. r \in [1 .. Len(s) -> PathText]
  BY <1>1, <1>2, <1>3 DEF Rels
<1>5. r \in Seq(PathText) /\ Len(r) = Len(s)
  BY <1>2, <1>4, IsASeq, LenProperties
<1>6. \A i \in DOMAIN m : m[i] \in Segment
  BY <1>2, ElementOfSeq
<1>7. R \in [1 .. Len(s) + 1 -> PathText]
  BY <1>1, <1>2, <1>6 DEF Rels
<1>8. R \in Seq(PathText) /\ Len(R) = Len(s) + 1
  BY <1>2, <1>7, IsASeq, LenProperties
<1>9. z \in PathText
  BY <1>1
<1>10. /\ \A i \in 1 .. Len(s) : R[i] = r[i]
       /\ R[Len(s) + 1] = z
  BY <1>2 DEF Rels
<1> HIDE DEF r, R, z
<1>11. Append(r, z) \in Seq(PathText) /\ Len(Append(r, z)) = Len(s) + 1
  BY <1>5, <1>9, AppendProperties
<1>12. /\ \A i \in 1 .. Len(s) : Append(r, z)[i] = r[i]
       /\ Append(r, z)[Len(s) + 1] = z
  BY <1>5, <1>9, AppendProperties
<1>13. \A i \in 1 .. Len(s) + 1 : R[i] = Append(r, z)[i]
  <2>1. \A i \in 1 .. Len(s) + 1 : i \in 1 .. Len(s) \/ i = Len(s) + 1
    BY <1>2
  <2>2. QED
    BY <1>10, <1>12, <2>1
<1>14. R = Append(r, z)
  BY <1>8, <1>11, <1>13, SeqEqual
<1>15. QED
  BY <1>5, <1>9, <1>14 DEF r, R, z

LEMMA RelsJoined ==
  ASSUME NEW abs \in BOOLEAN, NEW s \in Seq(Segment)
  PROVE  Along(Pushing, [abs |-> abs, segs |-> <<>>], Rels(s)) = [abs |-> abs, segs |-> s]
<1> DEFINE root == [abs |-> abs, segs |-> <<>>]
           T == {t \in Seq(Segment) : Along(Pushing, root, Rels(t)) = [abs |-> abs, segs |-> t]}
<1>1. root \in PathText
  BY EmptySegments DEF PathText
<1>2. /\ Along(Pushing, root, <<>>) = root
      /\ \A r \in Seq(PathText), q \in PathText :
           Along(Pushing, root, Append(r, q)) = Pushing[<<Along(Pushing, root, r), q>>]
  <2> HIDE DEF root
  <2>1. QED
    BY <1>1, PushOf
<1>3. <<>> \in T
  <2>1. Rels(<<>>) = <<>>
    BY DEF Rels
  <2>2. QED
    BY <1>2, <2>1, EmptySegments
<1>4. ASSUME NEW t \in T, NEW c \in Segment
      PROVE  Append(t, c) \in T
  <2>1. t \in Seq(Segment) /\ Along(Pushing, root, Rels(t)) = [abs |-> abs, segs |-> t]
    OBVIOUS
  <2> HIDE DEF T, root
  <2>2. Append(t, c) \in Seq(Segment)
    BY <2>1, AppendProperties
  <2>3. /\ Rels(t) \in Seq(PathText) /\ RelPath(<<c>>) \in PathText
        /\ Rels(Append(t, c)) = Append(Rels(t), RelPath(<<c>>))
    BY <2>1, RelsAppend
  <2>4. [abs |-> abs, segs |-> t] \in PathText
    BY <2>1 DEF PathText
  <2>5. Along(Pushing, root, Rels(Append(t, c))) = Push([abs |-> abs, segs |-> t], RelPath(<<c>>))
    <3> DEFINE q == [abs |-> abs, segs |-> t]
               z == RelPath(<<c>>)
    <3>1. q \in PathText /\ z \in PathText /\ Along(Pushing, root, Rels(t)) = q
      BY <2>1, <2>3, <2>4
    <3> HIDE DEF q, z
    <3>2. Along(Pushing, root, Append(Rels(t), z)) = Pushing[<<q, z>>]
      BY <1>2, <2>3, <3>1
    <3>3. Pushing[<<q, z>>] = Push(q, z)
      BY <3>1, PushingSteps
    <3>4. QED
      BY <2>3, <3>2, <3>3 DEF q, z
  <2>6. Append(t, c) = t \o <<c>> /\ (t = <<>> => Append(t, c) = <<c>>)
    BY <2>1, OneAppended
  <2>7. Push([abs |-> abs, segs |-> t], RelPath(<<c>>)) = [abs |-> abs, segs |-> Append(t, c)]
    <3>1. CASE [abs |-> abs, segs |-> t] = RelPath(<<>>)
      <4>1. abs = FALSE /\ t = <<>>
        BY <3>1 DEF RelPath
      <4>2. QED
        BY <2>6, <3>1, <4>1 DEF Push, RelPath
    <3>2. CASE [abs |-> abs, segs |-> t] # RelPath(<<>>)
      BY <2>6, <3>2 DEF Push, RelPath
    <3>3. QED
      BY <3>1, <3>2
  <2>8. QED
    BY <2>2, <2>5, <2>7 DEF T
<1> HIDE DEF T
<1>5. T \in SUBSET Seq(Segment)
  BY DEF T
<1>6. T = Seq(Segment)
  BY <1>3, <1>4, <1>5, Appending
<1>7. QED
  BY <1>6 DEF T

LEMMA ComponentsAgain ==
  ASSUME NEW p \in PathText
  PROVE  Components([abs |-> p.abs, segs |-> Components(p)]) = Components(p)
<1> DEFINE c == Components(p)
           q == [abs |-> p.abs, segs |-> c]
           k == Stripped(p.segs)
<1>1. /\ p.abs \in BOOLEAN /\ c \in Seq(Segment) /\ k \in Seq(Segment)
      /\ DotInFront(p) \in Seq(Segment) /\ DotInFront(p) \in {<<>>, <<".">>} /\ c = DotInFront(p) \o k
  BY LeadStripped, StrippedOf
<1>2. FreeOf(k, Dotless)
  BY LeadStripped, StrippedNames
<1> HIDE DEF c, k
<1>3. q \in PathText /\ q.abs = p.abs /\ q.segs = c
  BY <1>1 DEF PathText
<1>4. Stripped(k) = k
  BY <1>1, <1>2, StrippedTwice
<1>5. Stripped(c) = k /\ DotInFront(q) = DotInFront(p)
  <2>1. CASE DotInFront(p) = <<>>
    <3>1. c = k
      BY <1>1, <2>1, ConcatEmptySeq
    <3>2. k # <<>> => 1 \in DOMAIN k /\ Head(k) = k[1]
      <4>1. k # <<>> => Len(k) \in Nat \ {0} /\ DOMAIN k = 1 .. Len(k)
        BY <1>1, LastOf, LenProperties
      <4>2. QED
        BY <4>1
    <3>3. k # <<>> => Head(k) # "."
      BY <1>2, <3>2 DEF FreeOf, Dotless
    <3>4. DotInFront(q) = <<>>
      BY <1>3, <3>1, <3>3 DEF DotInFront
    <3>5. QED
      BY <1>4, <2>1, <3>1, <3>4
  <2>2. CASE DotInFront(p) = <<".">>
    <3>1. c = <<".">> \o k
      BY <1>1, <2>2
    <3>2. Stripped(c) = Stripped(<<".">>) \o Stripped(k)
      BY <1>1, <2>2, StrippedBoth
    <3>3. Stripped(c) = k
      BY <1>1, <1>4, <3>2, DotStripped, ConcatEmptySeq
    <3>4. ~p.abs
      BY <2>2 DEF DotInFront
    <3>5. c # <<>> /\ Head(c) = "."
      BY <1>1, <3>1
    <3>6. DotInFront(q) = <<".">>
      BY <1>3, <3>4, <3>5 DEF DotInFront
    <3>7. QED
      BY <2>2, <3>3, <3>6
  <2>3. QED
    BY <1>1, <2>1, <2>2
<1>6. Components(q) = DotInFront(q) \o Stripped(q.segs)
  BY <1>3, LeadStripped
<1>7. Components(q) = c
  BY <1>1, <1>3, <1>5, <1>6
<1>8. QED
  BY <1>7 DEF c

LEMMA JoinTwo ==
  ASSUME NEW p \in PathText, NEW q \in PathText
  PROVE  JoinPaths(<<p, q>>) = Push(p, q)
<1>1. RelPath(<<>>) \in PathText
  BY EmptySegments DEF RelPath, PathText
<1>2. /\ Along(Pushing, RelPath(<<>>), <<>>) = RelPath(<<>>)
      /\ \A r \in Seq(PathText), z \in PathText :
           Along(Pushing, RelPath(<<>>), Append(r, z)) = Pushing[<<Along(Pushing, RelPath(<<>>), r), z>>]
  BY <1>1, PushOf
<1>3. <<>> \in Seq(PathText) /\ <<p>> \in Seq(PathText)
  OBVIOUS
<1>4. <<p>> = Append(<<>>, p) /\ <<p, q>> = Append(<<p>>, q)
  OBVIOUS
<1>5. Along(Pushing, RelPath(<<>>), <<p>>) = Pushing[<<RelPath(<<>>), p>>]
  BY <1>2, <1>3, <1>4
<1>6. Push(RelPath(<<>>), p) = p
  BY DEF Push
<1>7. Along(Pushing, RelPath(<<>>), <<p>>) = p
  BY <1>1, <1>5, <1>6, PushingSteps
<1>8. Along(Pushing, RelPath(<<>>), <<p, q>>) = Pushing[<<p, q>>]
  BY <1>2, <1>3, <1>4, <1>7
<1>9. QED
  BY <1>8, PushingSteps DEF JoinPaths

\* path.join of what path.components returns has the same components, and so has path.join
\* of what path.parent and path.basename return, if there is a name.
THEOREM PathsAreMadeOfTheirParts ==
  \A p \in PathText : MadeOfItsParts(p)
<1> SUFFICES ASSUME NEW p \in PathText
             PROVE  MadeOfItsParts(p)
  OBVIOUS
<1> DEFINE c == Components(p)
<1>1. p.abs \in BOOLEAN /\ p.segs \in Seq(Segment) /\ c \in Seq(Segment)
  BY LeadStripped
<1>2. p = [abs |-> p.abs, segs |-> p.segs]
  BY DEF PathText
<1>3. Components([abs |-> p.abs, segs |-> c]) = c
  BY ComponentsAgain
<1>4. JoinPaths(ComponentTexts(p)) = [abs |-> p.abs, segs |-> c]
  <2>1. ComponentTexts(p) = (IF p.abs THEN <<AbsPath(<<>>)>> ELSE <<>>) \o Rels(c)
    BY DEF ComponentTexts, Rels
  <2> HIDE DEF c
  <2>2. Rels(c) \in Seq(PathText)
    BY <1>1, RelsAppend, SegmentAssumption
  <2>3. /\ AbsPath(<<>>) = [abs |-> TRUE, segs |-> <<>>] /\ AbsPath(<<>>) \in PathText
        /\ RelPath(<<>>) = [abs |-> FALSE, segs |-> <<>>] /\ RelPath(<<>>) \in PathText
    BY EmptySegments DEF AbsPath, RelPath, PathText
  <2>4. CASE p.abs
    <3>1. <<AbsPath(<<>>)>> \in Seq(PathText) /\ <<AbsPath(<<>>)>> = Append(<<>>, AbsPath(<<>>))
      BY <2>3
    <3>2. /\ Along(Pushing, RelPath(<<>>), <<>>) = RelPath(<<>>)
          /\ \A r \in Seq(PathText), z \in PathText :
               Along(Pushing, RelPath(<<>>), Append(r, z)) = Pushing[<<Along(Pushing, RelPath(<<>>), r), z>>]
          /\ \A r, t \in Seq(PathText) :
               Along(Pushing, RelPath(<<>>), r \o t) = Along(Pushing, Along(Pushing, RelPath(<<>>), r), t)
      BY <2>3, PushOf
    <3>3. Push(RelPath(<<>>), AbsPath(<<>>)) = AbsPath(<<>>)
      BY DEF Push
    <3>4. <<>> \in Seq(PathText)
      OBVIOUS
    <3>5. Along(Pushing, RelPath(<<>>), <<AbsPath(<<>>)>>) = AbsPath(<<>>)
      <4>1. Along(Pushing, RelPath(<<>>), Append(<<>>, AbsPath(<<>>)))
              = Pushing[<<Along(Pushing, RelPath(<<>>), <<>>), AbsPath(<<>>)>>]
        BY <2>3, <3>2, <3>4
      <4>2. Pushing[<<RelPath(<<>>), AbsPath(<<>>)>>] = Push(RelPath(<<>>), AbsPath(<<>>))
        BY <2>3, PushingSteps
      <4>3. QED
        BY <3>1, <3>2, <3>3, <4>1, <4>2
    <3>6. JoinPaths(ComponentTexts(p)) = Along(Pushing, AbsPath(<<>>), Rels(c))
      BY <2>1, <2>2, <2>4, <3>1, <3>2, <3>5 DEF JoinPaths
    <3>7. QED
      BY <1>1, <2>3, <2>4, <3>6, RelsJoined
  <2>5. CASE ~p.abs
    <3>1. ComponentTexts(p) = Rels(c)
      BY <2>1, <2>2, <2>5, ConcatEmptySeq
    <3>2. QED
      BY <1>1, <2>3, <2>5, <3>1, RelsJoined DEF JoinPaths
  <2>6. QED
    BY <2>4, <2>5
<1>5. ASSUME Basename(p) # ""
      PROVE  JoinPaths(<<Parent(p), RelPath(<<Basename(p)>>)>>) = [abs |-> p.abs, segs |-> c]
  <2>1. c # <<>> /\ Basename(p) = Last(c)
    BY <1>5 DEF Basename
  <2>2. Parent(p) = [abs |-> p.abs, segs |-> Front(c)]
    BY <1>2, <2>1 DEF Parent
  <2> HIDE DEF c
  <2>3. Front(c) \in Seq(Segment) /\ Last(c) \in Segment /\ c = Append(Front(c), Last(c))
    BY <1>1, <2>1, LastOf
  <2>4. Parent(p) \in PathText /\ RelPath(<<Last(c)>>) \in PathText
    BY <1>1, <2>2, <2>3 DEF PathText, RelPath
  <2>5. c = Front(c) \o <<Last(c)>> /\ (Front(c) = <<>> => c = <<Last(c)>>)
    BY <2>3
  <2>6. Push(Parent(p), RelPath(<<Last(c)>>)) = [abs |-> p.abs, segs |-> c]
    <3>1. /\ RelPath(<<Last(c)>>).abs = FALSE /\ RelPath(<<Last(c)>>).segs = <<Last(c)>>
          /\ Parent(p).abs = p.abs /\ Parent(p).segs = Front(c)
      BY <2>2 DEF RelPath
    <3> DEFINE dir == Parent(p)
               leaf == RelPath(<<Last(c)>>)
               r == Push(dir, leaf)
    <3>a. /\ dir \in PathText /\ dir.abs = p.abs /\ dir.segs = Front(c)
          /\ leaf \in PathText /\ ~leaf.abs /\ leaf.segs = <<Last(c)>>
      BY <2>4, <3>1
    <3>2. r \in PathText /\ r.abs = p.abs /\ r.segs = Front(c) \o <<Last(c)>>
      <4> HIDE DEF dir, leaf
      <4>1. r \in PathText /\ r.abs = dir.abs /\ r.segs = dir.segs \o leaf.segs
        BY <3>a, PushedOn
      <4>2. QED
        BY <3>a, <4>1
    <3> HIDE DEF r
    <3>3. r = [abs |-> p.abs, segs |-> c]
      BY <1>1, <2>5, <3>2, SamePath
    <3>4. QED
      BY <3>3 DEF r
  <2>7. QED
    BY <2>1, <2>4, <2>6, JoinTwo
<1>6. /\ JoinPaths(ComponentTexts(p)).abs = p.abs
      /\ Components(JoinPaths(ComponentTexts(p))) = c
      /\ Basename(p) # "" => Components(JoinPaths(<<Parent(p), RelPath(<<Basename(p)>>)>>)) = c
  <2> DEFINE q == [abs |-> p.abs, segs |-> c]
  <2>1. q.abs = p.abs
    OBVIOUS
  <2> HIDE DEF c, q
  <2>2. Components(q) = c
    BY <1>3 DEF q
  <2>3. JoinPaths(ComponentTexts(p)) = q
    BY <1>4 DEF q
  <2>4. Basename(p) # "" => JoinPaths(<<Parent(p), RelPath(<<Basename(p)>>)>>) = q
    BY <1>5 DEF q
  <2>5. QED
    BY <2>1, <2>2, <2>3, <2>4
<1>7. QED
  BY <1>6 DEF MadeOfItsParts

LEMMA LongestIsPrefix ==
  ASSUME NEW S, NEW c \in Seq(S), NEW d \in Seq(S)
  PROVE  LET k == Len(LongestCommonPrefix({c, d}))
         IN  k \in Nat /\ k <= Len(c) /\ k <= Len(d) /\ SubSeq(c, 1, k) = SubSeq(d, 1, k)
<1> DEFINE K == {k \in Nat : k <= Len(c) /\ k <= Len(d) /\ SubSeq(c, 1, k) = SubSeq(d, 1, k)}
           CP == CommonPrefixes({c, d})
<1>1. Len(c) \in Nat /\ Len(d) \in Nat
  BY LenProperties
<1>2. 0 \in K
  <2>1. SubSeq(c, 1, 0) = <<>> /\ SubSeq(d, 1, 0) = <<>>
    BY SubSeqEmpty
  <2>2. QED
    BY <1>1, <2>1
<1>3. \A s \in Seq(S) : \A k \in 0 .. Len(s) : SubSeq(s, 1, k) \in Seq(S) /\ Len(SubSeq(s, 1, k)) = k
  <2>1. ASSUME NEW s \in Seq(S), NEW k \in 0 .. Len(s)
        PROVE  SubSeq(s, 1, k) \in Seq(S) /\ Len(SubSeq(s, 1, k)) = k
    <3>1. Len(s) \in Nat /\ \A i \in 1 .. k : s[i] \in S
      BY LenProperties, ElementOfSeq
    <3>2. 1 \in Int /\ k \in Int /\ (1 <= k => k - 1 + 1 = k) /\ (~(1 <= k) => k = 0)
      BY <3>1
    <3>3. QED
      BY <3>1, <3>2, SubSeqProperties
  <2>2. QED
    BY <2>1
<1>4. ASSUME NEW p \in CP
      PROVE  Len(p) \in K /\ p = SubSeq(c, 1, Len(p))
  <2>1. PICK s \in {c, d} : \E k \in 0 .. Len(s) : p = SubSeq(s, 1, k)
    BY DEF CommonPrefixes, Prefixes
  <2>k. PICK k \in 0 .. Len(s) : p = SubSeq(s, 1, k)
    BY <2>1
  <2>2. s \in Seq(S) /\ Len(p) = k /\ k \in Nat
    BY <1>1, <1>3, <2>1, <2>k
  <2>3. /\ Len(p) <= Len(c) /\ SubSeq(p, 1, Len(p)) = SubSeq(c, 1, Len(p))
        /\ Len(p) <= Len(d) /\ SubSeq(p, 1, Len(p)) = SubSeq(d, 1, Len(p))
    BY DEF CommonPrefixes, IsPrefix
  <2>4. Len(p) \in K
    BY <2>2, <2>3
  <2>5. s = c \/ s = d
    BY <2>1
  <2>6. QED
    BY <2>2, <2>3, <2>4, <2>5, <2>k
<1>5. ASSUME NEW k \in K
      PROVE  SubSeq(c, 1, k) \in CP /\ Len(SubSeq(c, 1, k)) = k
  <2> DEFINE p == SubSeq(c, 1, k)
  <2>1. k \in 0 .. Len(c) /\ k <= Len(d) /\ k \in Nat /\ p = SubSeq(d, 1, k)
    BY <1>1
  <2>2. p \in Seq(S) /\ Len(p) = k
    BY <1>3, <2>1
  <2>a. p = SubSeq(c, 1, k)
    OBVIOUS
  <2> HIDE DEF p
  <2>3. SubSeq(p, 1, Len(p)) = p
    BY <2>2, SubSeqFull
  <2>4. IsPrefix(p, c) /\ IsPrefix(p, d)
    BY <2>1, <2>2, <2>3, <2>a DEF IsPrefix
  <2>5. p \in Prefixes(c)
    BY <2>1, <2>a DEF Prefixes
  <2>6. p \in CP
    BY <2>4, <2>5 DEF CommonPrefixes
  <2>7. QED
    BY <2>2, <2>6 DEF p
<1> DEFINE U == {Len(c) - k : k \in K}
<1>6. PICK m \in K : \A k \in K : k <= m
  <2>1. U \in SUBSET Nat /\ U # {}
    BY <1>1, <1>2
  <2>2. PICK u \in U : \A v \in U : u <= v
    BY <2>1, LeastNatural
  <2>3. PICK m \in K : u = Len(c) - m
    BY <2>2
  <2>4. ASSUME NEW k \in K
        PROVE  k <= m
    <3>1. Len(c) - k \in U
      OBVIOUS
    <3>2. u <= Len(c) - k
      BY <2>2, <3>1
    <3>3. k \in Nat /\ m \in Nat
      OBVIOUS
    <3>4. QED
      BY <1>1, <2>3, <3>2, <3>3
  <2>5. QED
    BY <2>4
<1>a. K \in SUBSET Nat
  OBVIOUS
<1> HIDE DEF K, CP, U
<1>7. \E p \in CP : \A o \in CP : Len(o) <= Len(p)
  <2>1. SubSeq(c, 1, m) \in CP /\ Len(SubSeq(c, 1, m)) = m
    BY <1>5
  <2>2. \A o \in CP : Len(o) <= m
    BY <1>4, <1>6
  <2>3. QED
    BY <2>1, <2>2
<1>8. LongestCommonPrefix({c, d}) \in CP
  <2>1. LongestCommonPrefix({c, d}) = CHOOSE p \in CP : \A o \in CP : Len(o) <= Len(p)
    BY DEF LongestCommonPrefix, CP
  <2>2. QED
    BY <1>7, <2>1
<1>9. Len(LongestCommonPrefix({c, d})) \in K
  BY <1>4, <1>8
<1>10. QED
  BY <1>9 DEF K

\* As many .. as s has members.
Dots(s) == [i \in DOMAIN s |-> ".."]

LEMMA OneMore ==
  ASSUME NEW S, NEW z \in S, NEW r \in Seq(S), \A i \in 1 .. Len(r) : r[i] = z
  PROVE  /\ <<z>> \o r \in Seq(S) /\ Len(<<z>> \o r) = Len(r) + 1
         /\ \A i \in 1 .. Len(r) + 1 : (<<z>> \o r)[i] = z
<1> DEFINE one == <<z>>
<1>1. one \in Seq(S) /\ Len(one) = 1 /\ one[1] = z /\ Len(r) \in Nat
  BY LenProperties
<1> HIDE DEF one
<1>2. /\ one \o r \in Seq(S) /\ Len(one \o r) = Len(one) + Len(r)
      /\ \A i \in 1 .. Len(one) + Len(r) :
           (one \o r)[i] = IF i <= Len(one) THEN one[i] ELSE r[i - Len(one)]
  BY <1>1, ConcatProperties
<1>3. ASSUME NEW i \in 1 .. Len(r) + 1
      PROVE  (one \o r)[i] = z
  <2>1. (one \o r)[i] = IF i <= 1 THEN one[i] ELSE r[i - 1]
    BY <1>1, <1>2
  <2>2. i = 1 \/ (~(i <= 1) /\ i - 1 \in 1 .. Len(r))
    BY <1>1
  <2>3. QED
    BY <1>1, <2>1, <2>2
<1>4. QED
  BY <1>1, <1>2, <1>3 DEF one

LEMMA DotsAppend ==
  ASSUME NEW s \in Seq(Segment), NEW c \in Segment
  PROVE  /\ ".." \in Segment /\ <<"..">> \in Seq(Segment) /\ Dots(s) \in Seq(Segment)
         /\ Dots(Append(s, c)) = <<"..">> \o Dots(s)
<1> DEFINE m == Append(s, c)
           r == Dots(s)
           R == Dots(m)
           one == <<"..">>
<1>1. ".." \in Segment
  BY SegmentAssumption
<1>2. one \in Seq(Segment) /\ Len(one) = 1 /\ one[1] = ".."
  BY <1>1
<1>3. /\ DOMAIN s = 1 .. Len(s) /\ DOMAIN m = 1 .. Len(s) + 1 /\ Len(s) \in Nat
  BY AppendedMembers
<1>4. r \in [1 .. Len(s) -> Segment] /\ \A i \in 1 .. Len(s) : r[i] = ".."
  BY <1>1, <1>3 DEF Dots
<1>5. R \in [1 .. Len(s) + 1 -> Segment] /\ \A i \in 1 .. Len(s) + 1 : R[i] = ".."
  BY <1>1, <1>3 DEF Dots
<1> HIDE DEF r, R, one
<1>6. r \in Seq(Segment) /\ Len(r) = Len(s)
  BY <1>3, <1>4, IsASeq, LenProperties
<1>7. R \in Seq(Segment) /\ Len(R) = Len(s) + 1
  BY <1>3, <1>5, IsASeq, LenProperties
<1>8. one \o r \in Seq(Segment) /\ Len(one \o r) = Len(s) + 1
  BY <1>1, <1>4, <1>6, OneMore DEF one
<1>9. \A i \in 1 .. Len(s) + 1 : (one \o r)[i] = ".."
  BY <1>1, <1>4, <1>6, OneMore DEF one
<1>10. R = one \o r
  BY <1>5, <1>7, <1>8, <1>9, SeqEqual
<1>11. QED
  BY <1>1, <1>2, <1>6, <1>10 DEF r, R, one

\* As many ..s as names lead back to where the names led from.
LEMMA DotsLeadBack ==
  ASSUME NEW place \in Seq(Segment), NEW s \in Seq(Segment)
  PROVE  Along(Walking, place \o s, Dots(s)) = place
<1> DEFINE T == {t \in Seq(Segment) : Along(Walking, place \o t, Dots(t)) = place}
<1>1. <<>> \in T
  <2>1. Dots(<<>>) = <<>> /\ place \o <<>> = place
    BY ConcatEmptySeq DEF Dots
  <2>2. QED
    BY <2>1, EmptySegments, WalkOf
<1>2. ASSUME NEW t \in T, NEW c \in Segment
      PROVE  Append(t, c) \in T
  <2>1. t \in Seq(Segment) /\ Along(Walking, place \o t, Dots(t)) = place
    OBVIOUS
  <2> HIDE DEF T
  <2> DEFINE low == place \o t
             q == Append(low, c)
  <2>2. /\ Append(t, c) \in Seq(Segment) /\ low \in Seq(Segment) /\ q \in Seq(Segment)
        /\ place \o Append(t, c) = q
    BY <2>1, AppendProperties, ConcatProperties, BothAppended
  <2>3. /\ ".." \in Segment /\ <<"..">> \in Seq(Segment) /\ Dots(t) \in Seq(Segment)
        /\ Dots(Append(t, c)) = <<"..">> \o Dots(t)
    BY <2>1, DotsAppend
  <2>4. q # <<>> /\ Front(q) = low
    BY <2>2, LastOfAppend
  <2>a. Along(Walking, low, Dots(t)) = place
    BY <2>1
  <2> HIDE DEF q, low
  <2>5. Along(Walking, q, <<"..">>) = low
    <3>1. <<"..">> = Append(<<>>, "..")
      OBVIOUS
    <3>2. /\ Along(Walking, q, <<>>) = q
          /\ \A v \in Seq(Segment), d \in Segment :
               Along(Walking, q, Append(v, d)) = Walk(Along(Walking, q, v), d)
      BY <2>2, WalkOf
    <3>3. Along(Walking, q, Append(<<>>, "..")) = Walk(q, "..")
      BY <2>3, <3>2, EmptySegments
    <3>4. Walk(q, "..") = Front(q)
      BY <2>4 DEF Walk
    <3>5. QED
      BY <2>4, <3>1, <3>3, <3>4
  <2>6. Along(Walking, q, <<"..">> \o Dots(t)) = Along(Walking, Along(Walking, q, <<"..">>), Dots(t))
    <3>1. \A v, w \in Seq(Segment) :
            Along(Walking, q, v \o w) = Along(Walking, Along(Walking, q, v), w)
      BY <2>2, WalkOf
    <3>2. QED
      BY <2>3, <3>1
  <2>7. Along(Walking, place \o Append(t, c), Dots(Append(t, c))) = place
    BY <2>2, <2>3, <2>5, <2>6, <2>a
  <2>8. QED
    BY <2>2, <2>7 DEF T
<1> HIDE DEF T
<1>3. T \in SUBSET Seq(Segment)
  BY DEF T
<1>4. T = Seq(Segment)
  BY <1>1, <1>2, <1>3, Appending
<1>5. QED
  BY <1>4 DEF T

LEMMA BothSplit ==
  ASSUME NEW S, NEW s \in Seq(S), NEW k \in Nat, k <= Len(s)
  PROVE  /\ SubSeq(s, 1, k) \in Seq(S) /\ SubSeq(s, k + 1, Len(s)) \in Seq(S)
         /\ s = SubSeq(s, 1, k) \o SubSeq(s, k + 1, Len(s))
         /\ \A i \in DOMAIN SubSeq(s, k + 1, Len(s)) :
              k + i \in DOMAIN s /\ SubSeq(s, k + 1, Len(s))[i] = s[k + i]
<1> DEFINE N == Len(s)
           p == SubSeq(s, 1, k)
           q == SubSeq(s, k + 1, N)
<1>1. N \in Nat /\ DOMAIN s = 1 .. N /\ \A i \in 1 .. N : s[i] \in S
  BY LenProperties, ElementOfSeq
<1>a. N \in Nat /\ k \in Nat /\ k <= N
  BY <1>1
<1>2. /\ p \in Seq(S) /\ Len(p) = k /\ \A i \in 1 .. k : p[i] = s[i]
  <2>1. \A i \in 1 .. k : s[i] \in S
    BY <1>1
  <2>2. /\ p \in Seq(S) /\ Len(p) = IF 1 <= k THEN k - 1 + 1 ELSE 0
        /\ \A i \in 1 .. k - 1 + 1 : p[i] = s[1 + i - 1]
    BY <2>1, SubSeqProperties
  <2>3. QED
    BY <2>2
<1>3. /\ q \in Seq(S) /\ Len(q) = N - k /\ \A i \in 1 .. N - k : q[i] = s[k + i]
  <2>1. \A i \in k + 1 .. N : s[i] \in S
    BY <1>1
  <2>2. k + 1 \in Int /\ N \in Int
    BY <1>1
  <2>3. /\ q \in Seq(S) /\ Len(q) = IF k + 1 <= N THEN N - (k + 1) + 1 ELSE 0
        /\ \A i \in 1 .. N - (k + 1) + 1 : q[i] = s[(k + 1) + i - 1]
    BY <2>1, <2>2, SubSeqProperties
  <2>4. Len(q) = N - k
    <3> HIDE DEF N, q
    <3>1. k + 1 <= N => N - (k + 1) + 1 = N - k
      BY <1>a
    <3>2. ~(k + 1 <= N) => N - k = 0
      BY <1>a
    <3>3. QED
      BY <2>3, <3>1, <3>2
  <2>5. ASSUME NEW i \in 1 .. N - k
        PROVE  q[i] = s[k + i]
    <3>1. i \in 1 .. N - (k + 1) + 1 /\ (k + 1) + i - 1 = k + i
      BY <1>1
    <3>2. QED
      BY <2>3, <3>1
  <2>6. QED
    BY <2>3, <2>4, <2>5
<1> HIDE DEF p, q
<1>4. /\ p \o q \in Seq(S) /\ Len(p \o q) = Len(p) + Len(q)
      /\ \A i \in 1 .. Len(p) + Len(q) : (p \o q)[i] = IF i <= Len(p) THEN p[i] ELSE q[i - Len(p)]
  BY <1>2, <1>3, ConcatProperties
<1>5. ASSUME NEW i \in 1 .. N
      PROVE  s[i] = (p \o q)[i]
  <2>1. CASE i <= k
    BY <1>1, <1>2, <1>3, <1>4, <2>1
  <2>2. CASE ~(i <= k)
    <3>1. i - k \in 1 .. N - k /\ k + (i - k) = i
      BY <1>1, <2>2
    <3>2. (p \o q)[i] = q[i - k]
      BY <1>1, <1>2, <1>3, <1>4, <2>2
    <3>3. QED
      BY <1>3, <3>1, <3>2
  <2>3. QED
    BY <2>1, <2>2
<1>6. Len(p \o q) = N
  BY <1>1, <1>2, <1>3, <1>4
<1>7. s = p \o q
  BY <1>4, <1>5, <1>6, SeqEqual
<1>8. DOMAIN q = 1 .. N - k
  BY <1>3, LenProperties
<1>9. \A i \in DOMAIN q : k + i \in DOMAIN s /\ q[i] = s[k + i]
  BY <1>1, <1>3, <1>8
<1>10. QED
  BY <1>2, <1>3, <1>7, <1>9 DEF p, q

\* What is left of two normal forms, and what they begin with both.
LEMMA UnsharedIs ==
  ASSUME NEW p \in PathText, NEW q \in PathText
  PROVE  \E both \in Seq(Segment) :
           /\ Unshared(p, q) \in Seq(Segment) /\ Unshared(q, p) \in Seq(Segment)
           /\ Components(p) = both \o Unshared(p, q)
           /\ Components(q) = both \o Unshared(q, p)
           /\ NoneEmpty(Unshared(p, q))
<1> DEFINE c == Components(p)
           d == Components(q)
           k == Len(LongestCommonPrefix({c, d}))
<1>1. c \in Seq(Segment) /\ d \in Seq(Segment) /\ NoneEmpty(c)
  BY LeadStripped, NoneEmptyComponents
<1>2. Unshared(p, q) = SubSeq(c, k + 1, Len(c))
  BY DEF Unshared
<1>3. Unshared(q, p) = SubSeq(d, k + 1, Len(d))
  <2>1. Unshared(q, p) = SubSeq(d, Len(LongestCommonPrefix({d, c})) + 1, Len(d))
    BY DEF Unshared
  <2> HIDE DEF c, d
  <2>2. {d, c} = {c, d}
    OBVIOUS
  <2>3. QED
    BY <2>1, <2>2
<1> HIDE DEF c, d
<1>4. k \in Nat /\ k <= Len(c) /\ k <= Len(d) /\ SubSeq(c, 1, k) = SubSeq(d, 1, k)
  BY <1>1, LongestIsPrefix
<1> HIDE DEF k
<1>5. /\ SubSeq(c, 1, k) \in Seq(Segment) /\ SubSeq(c, k + 1, Len(c)) \in Seq(Segment)
      /\ c = SubSeq(c, 1, k) \o SubSeq(c, k + 1, Len(c))
      /\ \A i \in DOMAIN SubSeq(c, k + 1, Len(c)) :
           k + i \in DOMAIN c /\ SubSeq(c, k + 1, Len(c))[i] = c[k + i]
  BY <1>1, <1>4, BothSplit
<1>6. /\ SubSeq(d, k + 1, Len(d)) \in Seq(Segment)
      /\ d = SubSeq(d, 1, k) \o SubSeq(d, k + 1, Len(d))
  BY <1>1, <1>4, BothSplit
<1>7. NoneEmpty(SubSeq(c, k + 1, Len(c)))
  BY <1>1, <1>5 DEF NoneEmpty, FreeOf
<1> DEFINE both == SubSeq(c, 1, k)
<1>8. /\ c = both \o Unshared(p, q) /\ d = both \o Unshared(q, p)
      /\ Unshared(p, q) \in Seq(Segment) /\ Unshared(q, p) \in Seq(Segment)
  BY <1>2, <1>3, <1>4, <1>5, <1>6
<1>9. NoneEmpty(Unshared(p, q)) /\ both \in Seq(Segment)
  BY <1>2, <1>5, <1>7
<1> HIDE DEF both
<1>10. QED
  BY <1>8, <1>9 DEF c, d

\* What path.relative returns leads from the one path to the other, from every directory,
\* when all that is to be taken back are names.
THEOREM RelativePathsLeadThere ==
  \A cwd \in Seq(Segment), from, to \in PathText : RelativeLeadsThere(cwd, from, to)
<1> SUFFICES ASSUME NEW cwd \in Seq(Segment), NEW from \in PathText, NEW to \in PathText,
                    from.abs = to.abs,
                    \A i \in DOMAIN Unshared(Normalize(from), Normalize(to)) :
                      Unshared(Normalize(from), Normalize(to))[i] \notin {".", ".."}
             PROVE  Follow(cwd, JoinPaths(<<from, Relative(from, to)>>)) = Follow(cwd, to)
  BY DEF RelativeLeadsThere
<1> DEFINE up == Unshared(Normalize(from), Normalize(to))
           down == Unshared(Normalize(to), Normalize(from))
           place == IF from.abs THEN <<>> ELSE cwd
           rel == IF up \o down = <<>> THEN <<".">> ELSE Dots(up) \o down
           W(q, s) == Along(Walking, q, s)
<1>1. /\ Normalize(from) \in PathText /\ Components(Normalize(from)) = Normalize(from).segs
      /\ Normalize(to) \in PathText /\ Components(Normalize(to)) = Normalize(to).segs
      /\ from.segs \in Seq(Segment) /\ to.segs \in Seq(Segment)
      /\ from.abs \in BOOLEAN
  BY NormalizeIs DEF PathText
<1>2. PICK both \in Seq(Segment) :
        /\ up \in Seq(Segment) /\ down \in Seq(Segment)
        /\ Normalize(from).segs = both \o up
        /\ Normalize(to).segs = both \o down
        /\ NoneEmpty(up)
  BY <1>1, UnsharedIs
<1>3. FreeOf(up, Nameless)
  BY <1>2 DEF FreeOf, NoneEmpty, Nameless
<1>4. Relative(from, to) = RelPath(rel)
  BY DEF Relative, Dots
<1>5. place \in Seq(Segment) /\ (from.abs => place = <<>>)
  BY EmptySegments
<1>a. \A q \in PathText : Follow(cwd, q) = W(IF q.abs THEN <<>> ELSE cwd, q.segs)
  BY FollowIs
<1>b. \A q \in PathText : q.abs = from.abs => Follow(cwd, q) = W(place, q.segs)
  BY <1>a
<1> HIDE DEF up, down, place
<1>w. \A q \in Seq(Segment) :
        /\ W(q, <<>>) = q
        /\ \A s \in Seq(Segment) : W(q, s) \in Seq(Segment)
        /\ \A s, t \in Seq(Segment) : W(q, s \o t) = W(W(q, s), t)
  BY WalkOf
<1>d. \A q, s \in Seq(Segment) : (from.abs => q = <<>>) =>
        W(q, Normalize(from).segs) = W(q, from.segs) /\ W(q, Normalize(to).segs) = W(q, to.segs)
  BY NormalizeIs
<1>e. \A q \in Seq(Segment) : W(q, <<".">>) = q
  BY DotIsNoStep
<1>f. \A q \in Seq(Segment) : W(q, up) = q \o up
  BY <1>2, <1>3, NamesLeadDown
<1>g. \A q \in Seq(Segment) : W(q \o up, Dots(up)) = q
  BY <1>2, DotsLeadBack
<1>6. Dots(up) \in Seq(Segment) /\ rel \in Seq(Segment)
  <2>1. Dots(up) \in Seq(Segment)
    BY <1>2, DotsAppend, SegmentAssumption
  <2>2. QED
    BY <1>2, <2>1, DotStripped, ConcatProperties
<1> HIDE DEF W
<1> DEFINE low == W(place, both)
<1>7. /\ low \in Seq(Segment)
      /\ W(place, from.segs) = low \o up
      /\ W(place, to.segs) = W(low, down)
  <2>1. low \in Seq(Segment)
    BY <1>5, <1>w
  <2>2. W(place, both \o up) = W(low, up) /\ W(place, both \o down) = W(low, down)
    BY <1>2, <1>5, <1>w
  <2>3. W(place, both \o up) = W(place, from.segs) /\ W(place, both \o down) = W(place, to.segs)
    BY <1>2, <1>5, <1>d
  <2>4. QED
    BY <1>f, <2>1, <2>2, <2>3
<1> HIDE DEF low
<1>8. W(low \o up, rel) = W(low, down)
  <2>1. CASE up \o down = <<>>
    <3>1. up = <<>> /\ down = <<>>
      BY <1>2, <2>1, ConcatEqualIffEmpty
    <3>2. rel = <<".">> /\ low \o up = low
      BY <1>7, <2>1, <3>1, ConcatEmptySeq
    <3>3. W(low, <<>>) = low
      BY <1>7, <1>w
    <3>4. QED
      BY <1>7, <1>e, <3>1, <3>2, <3>3
  <2>2. CASE up \o down # <<>>
    <3>1. rel = Dots(up) \o down /\ low \o up \in Seq(Segment)
      BY <1>2, <1>7, <2>2, ConcatProperties
    <3> HIDE DEF rel
    <3>2. W(low \o up, rel) = W(W(low \o up, Dots(up)), down)
      <4>1. \A s, t \in Seq(Segment) : W(low \o up, s \o t) = W(W(low \o up, s), t)
        BY <1>w, <3>1
      <4>2. QED
        BY <1>2, <1>6, <3>1, <4>1
    <3>3. QED
      BY <1>7, <1>g, <3>2
  <2>3. QED
    BY <2>1, <2>2
<1> HIDE DEF rel
<1> DEFINE r == RelPath(rel)
           j == Push(from, r)
<1>9. r \in PathText /\ r.abs = FALSE /\ r.segs = rel
  BY <1>6 DEF RelPath, PathText
<1>10. j \in PathText /\ j.abs = from.abs /\ j.segs = from.segs \o rel
  <2> HIDE DEF r
  <2>1. r \in PathText /\ ~r.abs
    BY <1>9
  <2>2. j \in PathText /\ j.abs = from.abs /\ j.segs = from.segs \o r.segs
    BY <2>1, PushedOn
  <2>3. QED
    BY <1>9, <2>2
<1>11. JoinPaths(<<from, Relative(from, to)>>) = j
  BY <1>4, <1>9, JoinTwo
<1> HIDE DEF r, j
<1>12. Follow(cwd, j) = W(place, from.segs \o rel)
  BY <1>b, <1>10 DEF W
<1>13. W(place, from.segs \o rel) = W(W(place, from.segs), rel)
  <2>1. \A s, t \in Seq(Segment) : W(place, s \o t) = W(W(place, s), t)
    BY <1>5, <1>w
  <2>2. QED
    BY <1>1, <1>6, <2>1
<1>14. Follow(cwd, to) = W(place, to.segs)
  BY <1>b DEF W
<1>15. QED
  BY <1>7, <1>8, <1>11, <1>12, <1>13, <1>14

-----------------------------------------------------------------------------
(* How deep a path leads.                                                  *)

LEMMA DepthOfStep ==
  ASSUME NEW v \in Seq(Segment), NEW c \in Segment
  PROVE  /\ Walk(v, c) \in Seq(Segment) /\ Len(v) \in Nat
         /\ c \in Dotless => Len(Walk(v, c)) = Len(v)
         /\ c = ".." /\ v # <<>> => Len(Walk(v, c)) = Len(v) - 1
         /\ c = ".." /\ v = <<>> => Len(Walk(v, c)) = Len(v)
         /\ c \notin Nameless => Len(Walk(v, c)) = Len(v) + 1
<1>1. Len(v) \in Nat
  BY LenProperties
<1>2. CASE c \in Dotless
  BY <1>1, <1>2 DEF Walk, Dotless, Nameless
<1>3. CASE c = ".." /\ v # <<>>
  <2>1. Front(v) \in Seq(Segment) /\ Len(Front(v)) = Len(v) - 1
    BY <1>3, LastOf
  <2>2. Walk(v, c) = Front(v)
    BY <1>3 DEF Walk
  <2>3. QED
    BY <1>1, <1>3, <2>1, <2>2 DEF Dotless, Nameless
<1>4. CASE c = ".." /\ v = <<>>
  BY <1>1, <1>4 DEF Walk, Dotless, Nameless
<1>5. CASE c \notin Nameless
  <2>1. Append(v, c) \in Seq(Segment) /\ Len(Append(v, c)) = Len(v) + 1
    BY AppendProperties
  <2>2. Walk(v, c) = Append(v, c)
    BY <1>5 DEF Walk, Nameless
  <2>3. QED
    BY <1>1, <1>5, <2>1, <2>2 DEF Dotless, Nameless
<1>6. QED
  BY <1>2, <1>3, <1>4, <1>5 DEF Dotless, Nameless

\* How much deeper a walk ends than it began, if it does not come to the root: a step of
\* it goes one down or one up or stays.
LEMMA DepthOfWalk ==
  \A s, p, q \in Seq(Segment) :
    Len(p) >= Len(s) /\ Len(q) >= Len(s) =>
      /\ Len(Along(Walking, p, s)) + Len(q) = Len(Along(Walking, q, s)) + Len(p)
      /\ Len(Along(Walking, p, s)) + Len(s) >= Len(p)
<1> DEFINE W(p, s) == Along(Walking, p, s)
           T == {s \in Seq(Segment) : \A p, q \in Seq(Segment) :
                   Len(p) >= Len(s) /\ Len(q) >= Len(s) =>
                     /\ Len(W(p, s)) + Len(q) = Len(W(q, s)) + Len(p)
                     /\ Len(W(p, s)) + Len(s) >= Len(p)}
<1>w. \A p \in Seq(Segment) :
        /\ W(p, <<>>) = p
        /\ \A s \in Seq(Segment) : W(p, s) \in Seq(Segment)
        /\ \A s \in Seq(Segment), c \in Segment : W(p, Append(s, c)) = Walk(W(p, s), c)
  BY WalkOf
<1>l. \A s \in Seq(Segment) : Len(s) \in Nat
  BY LenProperties
<1> HIDE DEF W
<1>1. <<>> \in T
  <2>1. Len(<<>>) = 0
    OBVIOUS
  <2>2. ASSUME NEW p \in Seq(Segment), NEW q \in Seq(Segment)
        PROVE  /\ Len(W(p, <<>>)) + Len(q) = Len(W(q, <<>>)) + Len(p)
               /\ Len(W(p, <<>>)) + Len(<<>>) >= Len(p)
    <3>1. W(p, <<>>) = p /\ W(q, <<>>) = q /\ Len(p) \in Nat /\ Len(q) \in Nat
      BY <1>w, <1>l
    <3>2. QED
      BY <2>1, <3>1
  <2>3. QED
    BY <2>2, EmptySegments
<1>2. ASSUME NEW s \in T, NEW c \in Segment
      PROVE  Append(s, c) \in T
  <2>1. s \in Seq(Segment) /\ Append(s, c) \in Seq(Segment) /\ Len(Append(s, c)) = Len(s) + 1
    BY AppendProperties
  <2>2. ASSUME NEW p \in Seq(Segment), NEW q \in Seq(Segment),
               Len(p) >= Len(s) + 1, Len(q) >= Len(s) + 1
        PROVE  /\ Len(W(p, Append(s, c))) + Len(q) = Len(W(q, Append(s, c))) + Len(p)
               /\ Len(W(p, Append(s, c))) + (Len(s) + 1) >= Len(p)
    <3>1. /\ Len(W(p, s)) + Len(q) = Len(W(q, s)) + Len(p)
          /\ Len(W(p, s)) + Len(s) >= Len(p)
          /\ Len(W(q, s)) + Len(s) >= Len(q)
      BY <1>l, <2>1, <2>2
    <3>2. W(p, s) \in Seq(Segment) /\ W(q, s) \in Seq(Segment)
      BY <1>w, <2>1
    <3>3. Len(W(p, s)) > 0 /\ Len(W(q, s)) > 0
      BY <1>l, <2>1, <2>2, <3>1, <3>2
    <3>4. W(p, s) # <<>> /\ W(q, s) # <<>>
      BY <3>3, EmptySeq
    <3>5. \E d \in {-1, 0, 1} : \A v \in Seq(Segment) : v # <<>> => Len(Walk(v, c)) = Len(v) + d
      <4>1. CASE c \in Dotless
        <5>1. \A v \in Seq(Segment) : v # <<>> => Len(Walk(v, c)) = Len(v) + 0
          BY <4>1, DepthOfStep
        <5>2. QED
          BY <5>1
      <4>2. CASE c = ".."
        <5>1. \A v \in Seq(Segment) : v # <<>> => Len(Walk(v, c)) = Len(v) + (-1)
          BY <4>2, DepthOfStep
        <5>2. QED
          BY <5>1
      <4>3. CASE c \notin Nameless
        <5>1. \A v \in Seq(Segment) : v # <<>> => Len(Walk(v, c)) = Len(v) + 1
          BY <4>3, DepthOfStep
        <5>2. QED
          BY <5>1
      <4>4. QED
        BY <4>1, <4>2, <4>3 DEF Dotless, Nameless
    <3>6. W(p, Append(s, c)) = Walk(W(p, s), c) /\ W(q, Append(s, c)) = Walk(W(q, s), c)
      BY <1>w, <2>1, <2>2
    <3>7. PICK d \in {-1, 0, 1} : \A v \in Seq(Segment) : v # <<>> => Len(Walk(v, c)) = Len(v) + d
      BY <3>5
    <3>8. /\ Len(W(p, Append(s, c))) = Len(W(p, s)) + d
          /\ Len(W(q, Append(s, c))) = Len(W(q, s)) + d
      BY <3>2, <3>4, <3>6, <3>7
    <3>9. /\ Len(W(p, s)) \in Nat /\ Len(W(q, s)) \in Nat /\ Len(p) \in Nat /\ Len(q) \in Nat
          /\ Len(s) \in Nat
      BY <1>l, <2>1, <3>2
    <3>a. d \in Int /\ d >= -1
      OBVIOUS
    <3> DEFINE a == Len(W(p, s))
               b == Len(W(q, s))
               x == Len(p)
               y == Len(q)
               n == Len(s)
    <3>10. a + y = b + x /\ a + n >= x /\ a \in Nat /\ b \in Nat /\ x \in Nat /\ y \in Nat /\ n \in Nat
      BY <3>1, <3>9
    <3>11. Len(W(p, Append(s, c))) = a + d /\ Len(W(q, Append(s, c))) = b + d
      BY <3>8
    <3> HIDE DEF a, b, x, y, n
    <3>12. (a + d) + y = (b + d) + x /\ (a + d) + (n + 1) >= x
      BY <3>10, <3>a
    <3>13. QED
      BY <3>11, <3>12 DEF x, y, n
  <2>3. QED
    BY <2>1, <2>2
<1> HIDE DEF T
<1>3. T \in SUBSET Seq(Segment)
  BY DEF T
<1>4. T = Seq(Segment)
  BY <1>1, <1>2, <1>3, Appending
<1>5. QED
  BY <1>4 DEF T, W

\* A walk goes down by at most as many as it has steps, and by fewer if not all are names.
LEMMA NotAllDown ==
  \A s, p \in Seq(Segment) :
    /\ Len(Along(Walking, p, s)) <= Len(p) + Len(s)
    /\ ~FreeOf(s, Nameless) => Len(Along(Walking, p, s)) < Len(p) + Len(s)
<1> DEFINE W(p, s) == Along(Walking, p, s)
           T == {s \in Seq(Segment) : \A p \in Seq(Segment) :
                   /\ Len(W(p, s)) <= Len(p) + Len(s)
                   /\ ~FreeOf(s, Nameless) => Len(W(p, s)) < Len(p) + Len(s)}
<1>w. \A p \in Seq(Segment) :
        /\ W(p, <<>>) = p
        /\ \A s \in Seq(Segment) : W(p, s) \in Seq(Segment)
        /\ \A s \in Seq(Segment), c \in Segment : W(p, Append(s, c)) = Walk(W(p, s), c)
  BY WalkOf
<1>l. \A s \in Seq(Segment) : Len(s) \in Nat
  BY LenProperties
<1> HIDE DEF W
<1>1. <<>> \in T
  <2>1. FreeOf(<<>>, Nameless) /\ Len(<<>>) = 0
    BY DEF FreeOf
  <2>2. QED
    BY <1>w, <1>l, <2>1, EmptySegments
<1>2. ASSUME NEW s \in T, NEW c \in Segment
      PROVE  Append(s, c) \in T
  <2>1. s \in Seq(Segment) /\ Append(s, c) \in Seq(Segment) /\ Len(Append(s, c)) = Len(s) + 1
    BY AppendProperties
  <2>2. FreeOf(Append(s, c), Nameless) <=> FreeOf(s, Nameless) /\ c \notin Nameless
    BY <2>1, FreeOfAppend
  <2>3. ASSUME NEW p \in Seq(Segment)
        PROVE  /\ Len(W(p, Append(s, c))) <= Len(p) + (Len(s) + 1)
               /\ ~FreeOf(Append(s, c), Nameless) => Len(W(p, Append(s, c))) < Len(p) + (Len(s) + 1)
    <3>1. /\ Len(W(p, s)) <= Len(p) + Len(s)
          /\ ~FreeOf(s, Nameless) => Len(W(p, s)) < Len(p) + Len(s)
      BY <2>3
    <3>2. W(p, s) \in Seq(Segment) /\ W(p, Append(s, c)) = Walk(W(p, s), c)
      BY <1>w, <2>1
    <3>3. \A v \in Seq(Segment) :
            /\ c \in Nameless => Len(Walk(v, c)) <= Len(v)
            /\ c \notin Nameless => Len(Walk(v, c)) = Len(v) + 1
      <4>1. ASSUME NEW v \in Seq(Segment)
            PROVE  /\ c \in Nameless => Len(Walk(v, c)) <= Len(v)
                   /\ c \notin Nameless => Len(Walk(v, c)) = Len(v) + 1
        <5>1. c \in Nameless => c \in Dotless \/ c = ".."
          BY DEF Dotless, Nameless
        <5>2. /\ Len(v) \in Nat
              /\ c \in Dotless => Len(Walk(v, c)) = Len(v)
              /\ c = ".." /\ v # <<>> => Len(Walk(v, c)) = Len(v) - 1
              /\ c = ".." /\ v = <<>> => Len(Walk(v, c)) = Len(v)
              /\ c \notin Nameless => Len(Walk(v, c)) = Len(v) + 1
          BY DepthOfStep
        <5>3. QED
          BY <5>1, <5>2
      <4>2. QED
        BY <4>1
    <3>4. Len(W(p, s)) \in Nat /\ Len(p) \in Nat /\ Len(s) \in Nat
      BY <1>l, <2>1, <3>2
    <3>5. QED
      BY <2>2, <3>1, <3>2, <3>3, <3>4
  <2>4. QED
    BY <2>1, <2>3
<1> HIDE DEF T
<1>3. T \in SUBSET Seq(Segment)
  BY DEF T
<1>4. T = Seq(Segment)
  BY <1>1, <1>2, <1>3, Appending
<1>5. QED
  BY <1>4 DEF T, W

\* As many ..s lead as much up.
LEMMA DepthOfDots ==
  \A s, p \in Seq(Segment) : Len(p) >= Len(s) => Len(Along(Walking, p, Dots(s))) = Len(p) - Len(s)
<1> SUFFICES ASSUME NEW s \in Seq(Segment), NEW p \in Seq(Segment), Len(p) >= Len(s)
             PROVE  Len(Along(Walking, p, Dots(s))) = Len(p) - Len(s)
  OBVIOUS
<1> DEFINE N == Len(p)
           k == N - Len(s)
           low == SubSeq(p, 1, k)
           high == SubSeq(p, k + 1, Len(p))
<1>1. N \in Nat /\ Len(s) \in Nat /\ k \in Nat /\ k <= N
  BY LenProperties
<1> HIDE DEF k
<1>2. low \in Seq(Segment) /\ high \in Seq(Segment) /\ p = low \o high
  BY <1>1, BothSplit
<1>3. Len(low) = k /\ Len(high) = Len(s)
  <2>1. Len(low) = k
    <3>1. \A i \in 1 .. k : p[i] \in Segment
      BY <1>1, ElementOfSeq
    <3>2. Len(low) = IF 1 <= k THEN k - 1 + 1 ELSE 0
      BY <1>1, <3>1, SubSeqProperties
    <3>3. QED
      BY <1>1, <3>2
  <2>2. N = Len(low) + Len(high) /\ Len(high) \in Nat
    BY <1>2, ConcatProperties, LenProperties
  <2>3. QED
    BY <1>1, <2>1, <2>2 DEF k
<1> HIDE DEF low, high
<1>4. Dots(s) = Dots(high)
  BY <1>2, <1>3, LenProperties DEF Dots
<1>5. Along(Walking, p, Dots(high)) = low
  BY <1>2, DotsLeadBack
<1>6. QED
  BY <1>3, <1>4, <1>5 DEF k

\* A normal form is no longer than the path, but for a path to where one is; and an
\* absolute one has only names.
LEMMA NormalIsShort ==
  ASSUME NEW p \in PathText
  PROVE  /\ Len(Normalize(p).segs) <= Len(p.segs) + 1
         /\ p.abs => FreeOf(Normalize(p).segs, Nameless)
<1> DEFINE N == Along(Descending(p.abs), <<>>, Components(p))
           D(t) == Along(Descending(p.abs), <<>>, t)
<1>l. \A s \in Seq(Segment) : Len(s) \in Nat
  BY LenProperties
<1>1. p.abs \in BOOLEAN /\ Components(p) \in Seq(Segment) /\ NoneEmpty(Components(p))
  BY LeadStripped, NoneEmptyComponents
<1>2. Normal(p.abs, N)
  BY <1>1, DescendWalks, EmptySegments
<1>3. Normalize(p) = [abs |-> p.abs, segs |-> IF N = <<>> /\ ~p.abs THEN <<".">> ELSE N]
  BY DEF Normalize
<1>d. /\ D(<<>>) = <<>>
      /\ \A s \in Seq(Segment) : D(s) \in Seq(Segment)
      /\ \A s \in Seq(Segment), c \in Segment : D(Append(s, c)) = Descend(p.abs, D(s), c)
  BY DescendOf
<1> HIDE DEF D
<1>4. \A s \in Seq(Segment) : Len(Stripped(s)) <= Len(s) /\ Len(D(DotInFront(p) \o Stripped(s))) <= Len(s)
  <2> DEFINE T == {s \in Seq(Segment) : Len(Stripped(s)) <= Len(s)
                                          /\ Len(D(DotInFront(p) \o Stripped(s))) <= Len(s)}
  <2>f. DotInFront(p) \in Seq(Segment) /\ DotInFront(p) \in {<<>>, <<".">>}
    BY LeadStripped
  <2>1. <<>> \in T
    <3>1. Stripped(<<>>) = <<>> /\ DotInFront(p) \o <<>> = DotInFront(p)
      BY <2>f, StrippedOf, ConcatEmptySeq
    <3>2. D(<<".">>) = <<>>
      <4>1. <<".">> = Append(<<>>, ".") /\ "." \in Segment
        BY DotStripped
      <4>2. D(Append(<<>>, ".")) = Descend(p.abs, <<>>, ".")
        BY <1>d, <4>1, EmptySegments
      <4>3. Descend(p.abs, <<>>, ".") = <<>>
        BY DEF Descend
      <4>4. QED
        BY <4>1, <4>2, <4>3
    <3>3. Len(<<>>) = 0 /\ D(DotInFront(p) \o Stripped(<<>>)) = <<>>
      BY <1>d, <2>f, <3>1, <3>2
    <3>4. QED
      BY <3>1, <3>3, EmptySegments
  <2>2. ASSUME NEW s \in T, NEW c \in Segment
        PROVE  Append(s, c) \in T
    <3>1. /\ s \in Seq(Segment) /\ Append(s, c) \in Seq(Segment) /\ Len(Append(s, c)) = Len(s) + 1
          /\ Stripped(s) \in Seq(Segment)
      BY AppendProperties, StrippedOf
    <3>2. Stripped(Append(s, c)) = IF c \in {"", "."} THEN Stripped(s) ELSE Append(Stripped(s), c)
      BY <3>1, StrippedOf
    <3> DEFINE both == DotInFront(p) \o Stripped(s)
    <3>3. both \in Seq(Segment) /\ DotInFront(p) \o Append(Stripped(s), c) = Append(both, c)
      BY <2>f, <3>1, ConcatProperties, BothAppended
    <3> HIDE DEF both
    <3>4. Len(Descend(p.abs, D(both), c)) <= Len(D(both)) + 1
      <4>1. ASSUME NEW v \in Seq(Segment)
            PROVE  Len(Descend(p.abs, v, c)) <= Len(v) + 1
        <5>1. Len(v) \in Nat /\ Len(Append(v, c)) = Len(v) + 1 /\ Len(Append(v, "..")) = Len(v) + 1
          BY <1>l, AppendProperties, SegmentAssumption
        <5>2. v # <<>> => Len(Front(v)) = Len(v) - 1
          BY LastOf
        <5>3. Descend(p.abs, v, c) \in {v, Append(v, c), Append(v, "..")} \cup (IF v # <<>> THEN {Front(v)} ELSE {})
          BY DEF Descend
        <5>4. QED
          BY <5>1, <5>2, <5>3
      <4>2. QED
        BY <1>d, <3>3, <4>1
    <3>5. D(Append(both, c)) = Descend(p.abs, D(both), c)
      BY <1>d, <3>3
    <3>6. Len(D(both)) <= Len(s) /\ Len(Stripped(s)) <= Len(s) /\ Len(D(both)) \in Nat
      BY <1>d, <1>l, <3>3 DEF both
    <3>7. Len(Append(Stripped(s), c)) = Len(Stripped(s)) + 1
      BY <3>1, AppendProperties
    <3>a. Len(Stripped(s)) \in Nat /\ Len(s) \in Nat
      BY <1>l, <3>1
    <3>8. Len(Stripped(Append(s, c))) <= Len(s) + 1
      <4>1. Len(Stripped(Append(s, c))) \in {Len(Stripped(s)), Len(Stripped(s)) + 1}
        BY <3>2, <3>7
      <4>2. QED
        BY <3>6, <3>a, <4>1
    <3>9. Len(D(DotInFront(p) \o Stripped(Append(s, c)))) <= Len(s) + 1
      <4>1. CASE c \in {"", "."}
        <5>1. DotInFront(p) \o Stripped(Append(s, c)) = both
          BY <3>2, <4>1 DEF both
        <5>2. QED
          BY <3>6, <3>a, <5>1
      <4>2. CASE c \notin {"", "."}
        <5>1. DotInFront(p) \o Stripped(Append(s, c)) = Append(both, c)
          BY <3>2, <3>3, <4>2
        <5>2. Len(D(Append(both, c))) \in Nat
          BY <1>d, <1>l, <3>3, AppendProperties
        <5>3. QED
          BY <3>4, <3>5, <3>6, <3>a, <5>1, <5>2
      <4>3. QED
        BY <4>1, <4>2
    <3>10. QED
      BY <3>1, <3>8, <3>9
  <2> HIDE DEF T
  <2>3. T \in SUBSET Seq(Segment)
    BY DEF T
  <2>4. T = Seq(Segment)
    BY <2>1, <2>2, <2>3, Appending
  <2>5. QED
    BY <2>4 DEF T
<1>5. Len(N) <= Len(p.segs) /\ N \in Seq(Segment)
  BY <1>1, <1>4, <1>d, LeadStripped DEF D
<1>6. Len(<<".">>) = 1 /\ Len(p.segs) \in Nat /\ Len(N) \in Nat
  BY <1>l, <1>5, LeadStripped
<1>7. p.abs => FreeOf(N, Nameless)
  BY <1>2 DEF Normal, FreeOf, Nameless
<1> HIDE DEF N
<1>8. QED
  BY <1>3, <1>5, <1>6, <1>7

LEMMA PlacesOfSecond ==
  ASSUME NEW S, NEW s \in Seq(S), NEW t \in Seq(S)
  PROVE  /\ Len(s) \in Nat
         /\ \A i \in DOMAIN t : Len(s) + i \in DOMAIN (s \o t) /\ (s \o t)[Len(s) + i] = t[i]
<1> DEFINE m == s \o t
<1>1. /\ m \in Seq(S) /\ Len(m) = Len(s) + Len(t)
      /\ \A i \in 1 .. Len(s) + Len(t) : m[i] = IF i <= Len(s) THEN s[i] ELSE t[i - Len(s)]
  BY ConcatProperties
<1> HIDE DEF m
<1>2. /\ Len(s) \in Nat /\ Len(t) \in Nat /\ DOMAIN t = 1 .. Len(t) /\ DOMAIN m = 1 .. Len(m)
  BY <1>1, LenProperties
<1>3. ASSUME NEW i \in DOMAIN t
      PROVE  Len(s) + i \in DOMAIN m /\ m[Len(s) + i] = t[i]
  <2>1. /\ Len(s) + i \in 1 .. Len(s) + Len(t) /\ ~(Len(s) + i <= Len(s))
        /\ (Len(s) + i) - Len(s) = i
    BY <1>2
  <2>2. QED
    BY <1>1, <1>2, <2>1
<1>4. QED
  BY <1>2, <1>3 DEF m

\* What path.relative returns does not lead from the one path to the other when a .. is
\* among what it takes back, or the directory itself: where there is enough above, it ends
\* as much too high as that did not lead down.
THEOREM OthersLeadElsewhere ==
  \A cwd \in Seq(Segment), from, to \in PathText : RelativeLeadsElsewhere(cwd, from, to)
<1> SUFFICES ASSUME NEW cwd \in Seq(Segment), NEW from \in PathText, NEW to \in PathText,
                    from.abs = to.abs,
                    \E i \in DOMAIN Unshared(Normalize(from), Normalize(to)) :
                      Unshared(Normalize(from), Normalize(to))[i] \in {".", ".."},
                    Len(cwd) > 2 * (Len(from.segs) + 1) + Len(to.segs)
             PROVE  Follow(cwd, JoinPaths(<<from, Relative(from, to)>>)) # Follow(cwd, to)
  BY DEF RelativeLeadsElsewhere
<1> DEFINE up == Unshared(Normalize(from), Normalize(to))
           down == Unshared(Normalize(to), Normalize(from))
           rel == Dots(up) \o down
           W(q, s) == Along(Walking, q, s)
<1>l. \A s \in Seq(Segment) : Len(s) \in Nat
  BY LenProperties
<1>1. /\ Normalize(from) \in PathText /\ Components(Normalize(from)) = Normalize(from).segs
      /\ Normalize(to) \in PathText /\ Components(Normalize(to)) = Normalize(to).segs
      /\ from.segs \in Seq(Segment) /\ to.segs \in Seq(Segment)
      /\ from.abs \in BOOLEAN
  BY NormalizeIs DEF PathText
<1>2. PICK both \in Seq(Segment) :
        /\ up \in Seq(Segment) /\ down \in Seq(Segment)
        /\ Normalize(from).segs = both \o up
        /\ Normalize(to).segs = both \o down
        /\ NoneEmpty(up)
  BY <1>1, UnsharedIs
<1>3. ~FreeOf(up, Nameless) /\ up # <<>>
  <2>1. PICK i \in DOMAIN up : up[i] \in {".", ".."}
    OBVIOUS
  <2>2. DOMAIN <<>> = {}
    OBVIOUS
  <2> HIDE DEF up
  <2>3. QED
    BY <2>1, <2>2 DEF FreeOf, Nameless
<1>4. Relative(from, to) = RelPath(rel)
  <2>1. up \o down # <<>>
    BY <1>2, <1>3, ConcatEqualIffEmpty
  <2>2. QED
    BY <2>1 DEF Relative, Dots
<1>5. from.abs = FALSE
  <2>1. CASE from.abs
    <3>1. FreeOf(both \o up, Nameless)
      BY <1>2, <2>1, NormalIsShort
    <3>2. Len(both) \in Nat /\ \A i \in DOMAIN up :
            Len(both) + i \in DOMAIN (both \o up) /\ (both \o up)[Len(both) + i] = up[i]
      BY <1>2, PlacesOfSecond
    <3>3. FreeOf(up, Nameless)
      BY <3>1, <3>2 DEF FreeOf
    <3>4. QED
      BY <1>3, <3>3
  <2>2. QED
    BY <1>1, <2>1
<1> HIDE DEF up, down
<1>a. \A q \in PathText : q.abs = FALSE => Follow(cwd, q) = W(cwd, q.segs)
  BY FollowIs
<1>w. \A q \in Seq(Segment) :
        /\ \A s \in Seq(Segment) : W(q, s) \in Seq(Segment)
        /\ \A s, t \in Seq(Segment) : W(q, s \o t) = W(W(q, s), t)
  BY WalkOf
<1>d. /\ W(cwd, Normalize(from).segs) = W(cwd, from.segs)
      /\ W(cwd, Normalize(to).segs) = W(cwd, to.segs)
  BY <1>5, NormalizeIs
<1>e. \A s, p, q \in Seq(Segment) :
        Len(p) >= Len(s) /\ Len(q) >= Len(s) =>
          /\ Len(W(p, s)) + Len(q) = Len(W(q, s)) + Len(p)
          /\ Len(W(p, s)) + Len(s) >= Len(p)
  BY DepthOfWalk
<1>f. \A p \in Seq(Segment) : Len(W(p, up)) < Len(p) + Len(up)
  BY <1>2, <1>3, NotAllDown
<1>g. \A p \in Seq(Segment) : Len(p) >= Len(up) => Len(W(p, Dots(up))) = Len(p) - Len(up)
  BY <1>2, DepthOfDots
<1>6. Dots(up) \in Seq(Segment) /\ rel \in Seq(Segment)
  BY <1>2, DotsAppend, SegmentAssumption, ConcatProperties
<1> HIDE DEF W
<1> DEFINE low == W(cwd, both)
           end == W(low, up)
           back == W(end, Dots(up))
<1>7. low \in Seq(Segment) /\ end \in Seq(Segment) /\ back \in Seq(Segment)
  BY <1>2, <1>6, <1>w
<1>8. W(cwd, from.segs) = end /\ W(cwd, to.segs) = W(low, down)
  BY <1>2, <1>d, <1>w
<1>9. W(cwd, from.segs \o rel) = W(back, down)
  <2>1. W(cwd, from.segs \o rel) = W(W(cwd, from.segs), rel)
    <3>1. \A s, t \in Seq(Segment) : W(cwd, s \o t) = W(W(cwd, s), t)
      BY <1>w
    <3>2. from.segs \in Seq(Segment) /\ rel \in Seq(Segment)
      BY <1>1, <1>6
    <3> HIDE DEF rel
    <3>3. QED
      BY <3>1, <3>2
  <2>2. W(end, rel) = W(back, down)
    BY <1>2, <1>6, <1>7, <1>w
  <2>3. QED
    BY <1>8, <2>1, <2>2
<1>10. /\ Len(both) + Len(up) <= Len(from.segs) + 1
       /\ Len(both) + Len(down) <= Len(to.segs) + 1
       /\ Len(both) \in Nat /\ Len(up) \in Nat /\ Len(down) \in Nat
       /\ Len(from.segs) \in Nat /\ Len(to.segs) \in Nat /\ Len(cwd) \in Nat
  <2>1. /\ Len(both \o up) = Len(both) + Len(up) /\ Len(both \o down) = Len(both) + Len(down)
    BY <1>2, ConcatProperties
  <2>2. /\ Len(Normalize(from).segs) <= Len(from.segs) + 1
        /\ Len(Normalize(to).segs) <= Len(to.segs) + 1
    BY NormalIsShort
  <2>3. QED
    BY <1>1, <1>2, <1>l, <2>1, <2>2
<1> HIDE DEF low, end, back, rel
<1>11. Len(low) \in Nat /\ Len(end) \in Nat /\ Len(back) \in Nat
  BY <1>7, <1>l
<1> DEFINE a == Len(cwd)
           b == Len(both)
           u == Len(up)
           d == Len(down)
           f == Len(from.segs)
           t == Len(to.segs)
           x == Len(low)
           y == Len(end)
           z == Len(back)
<1>b. /\ a \in Nat /\ b \in Nat /\ u \in Nat /\ d \in Nat /\ f \in Nat /\ t \in Nat
      /\ x \in Nat /\ y \in Nat /\ z \in Nat
      /\ a > 2 * (f + 1) + t /\ b + u <= f + 1 /\ b + d <= t + 1
  BY <1>10, <1>11
<1>c. /\ a >= b => x + b >= a
      /\ y < x + u
      /\ x >= u => y + u >= x
      /\ y >= u => z = y - u
  <2>1. a >= b => x + b >= a
    BY <1>2, <1>e DEF low
  <2>2. y < x + u
    BY <1>7, <1>f DEF end
  <2>3. x >= u => y + u >= x
    BY <1>2, <1>7, <1>e DEF end
  <2>4. y >= u => z = y - u
    BY <1>7, <1>g DEF back
  <2>5. QED
    BY <2>1, <2>2, <2>3, <2>4
<1>15. z < x /\ z >= d /\ x >= d
  <2> HIDE DEF a, b, u, d, f, t, x, y, z
  <2>1. a >= b
    BY <1>b
  <2>2. x + b >= a
    BY <1>c, <2>1
  <2>3. x >= u
    BY <1>b, <2>2
  <2>4. y + u >= x
    BY <1>c, <2>3
  <2>5. y >= u
    BY <1>b, <2>2, <2>4
  <2>6. z = y - u /\ y < x + u
    BY <1>c, <2>5
  <2>7. QED
    BY <1>b, <2>2, <2>4, <2>6
<1>16. Len(W(back, down)) + Len(low) = Len(W(low, down)) + Len(back)
  BY <1>2, <1>7, <1>15, <1>e
<1>17. W(back, down) # W(low, down)
  <2>1. W(back, down) \in Seq(Segment) /\ Len(W(back, down)) \in Nat
    BY <1>2, <1>7, <1>l, <1>w
  <2>2. SUFFICES ASSUME W(back, down) = W(low, down)
                 PROVE  FALSE
    OBVIOUS
  <2>3. QED
    BY <1>11, <1>15, <1>16, <2>1, <2>2
<1> DEFINE r == RelPath(rel)
           j == Push(from, r)
<1>18. r \in PathText /\ r.abs = FALSE /\ r.segs = rel
  BY <1>6 DEF RelPath, PathText
<1>19. j \in PathText /\ j.abs = FALSE /\ j.segs = from.segs \o rel
  <2> HIDE DEF r
  <2>1. r \in PathText /\ ~r.abs
    BY <1>18
  <2>2. j \in PathText /\ j.abs = from.abs /\ j.segs = from.segs \o r.segs
    BY <2>1, PushedOn
  <2>3. QED
    BY <1>5, <1>18, <2>2
<1>20. JoinPaths(<<from, Relative(from, to)>>) = j
  BY <1>4, <1>18, JoinTwo
<1> HIDE DEF r, j
<1>21. Follow(cwd, j) = W(cwd, from.segs \o rel) /\ Follow(cwd, to) = W(cwd, to.segs)
  BY <1>5, <1>19, <1>a
<1>22. QED
  BY <1>8, <1>9, <1>17, <1>20, <1>21

-----------------------------------------------------------------------------
(* Questions.                                                              *)

\* A question is of one kind.
LEMMA QuestionsAre ==
  ASSUME question \in EncodingQuestions
  PROVE  /\ question.about = "paths" => question.paths \in PathText \X PathText
         /\ question.about = "string" => question.string \in Seq(Byte)
         /\ question.about = "url" => question.url \in Url
         /\ question.about = "epoch" => question.epoch \in Int
         /\ question.about = "sealing" => question.sealings \in Sealing \X Sealing
BY EncodingsAssumption DEF EncodingQuestions

\* path.normalize, path.absolute, path.components, path.parent, path.basename, path.join and
\* path.relative, for all paths: what is said of them in LeadsThere.
THEOREM PathsLeadThere == EncodingSpec => []LeadsThere
<1>1. EncodingInit => LeadsThere
  <2> SUFFICES ASSUME EncodingInit, question.about = "paths"
               PROVE  LeadsThere
    BY DEF LeadsThere
  <2> DEFINE from == question.paths[1]
             to == question.paths[2]
  <2>1. from \in PathText /\ to \in PathText
    BY QuestionsAre DEF EncodingInit
  <2>2. Dir \in Seq(Name) /\ Dir \in Seq(Segment)
    <3>1. Dir \in Seq(Name)
      BY EncodingsAssumption DEF Name
    <3>2. Dir \in Seq(Segment)
      BY <3>1, SeqMonotonic DEF Name
    <3>3. QED
      BY <3>1, <3>2
  <2> HIDE DEF from, to
  <2>3. NormalLeadsThere(Dir, from)
    BY <2>1, <2>2, NormalFormsLeadThere
  <2>4. MadeOfItsParts(from)
    BY <2>1, PathsAreMadeOfTheirParts
  <2>5. RelativeLeadsThere(Dir, from, to) /\ RelativeLeadsElsewhere(Dir, from, to)
    BY <2>1, <2>2, RelativePathsLeadThere, OthersLeadElsewhere
  <2>6. QED
    BY <2>3, <2>4, <2>5 DEF LeadsThere, from, to
<1>2. LeadsThere /\ [UNCHANGED question]_question => LeadsThere'
  BY DEF LeadsThere
<1>3. QED
  BY <1>1, <1>2, PTL DEF EncodingSpec

-----------------------------------------------------------------------------
(* Strings made of parts.                                                  *)

LEMMA PrefixesOf ==
  ASSUME NEW S, NEW s \in Seq(S)
  PROVE  /\ Len(s) \in Nat /\ DOMAIN s = 1 .. Len(s)
         /\ SubSeq(s, 1, 0) = <<>> /\ SubSeq(s, 1, Len(s)) = s
         /\ \A k \in 0 .. Len(s) : SubSeq(s, 1, k) \in Seq(S) /\ Len(SubSeq(s, 1, k)) = k
         /\ \A k \in 0 .. Len(s) - 1 :
              s[k + 1] \in S /\ SubSeq(s, 1, k + 1) = Append(SubSeq(s, 1, k), s[k + 1])
<1> DEFINE N == Len(s)
           P(k) == SubSeq(s, 1, k)
<1>1. N \in Nat /\ DOMAIN s = 1 .. N /\ \A i \in 1 .. N : s[i] \in S
  BY LenProperties, ElementOfSeq
<1>2. ASSUME NEW k \in 0 .. N
      PROVE  P(k) \in Seq(S) /\ Len(P(k)) = k /\ \A i \in 1 .. k : P(k)[i] = s[i]
  <2>1. \A i \in 1 .. k : s[i] \in S
    BY <1>1
  <2>2. /\ P(k) \in Seq(S) /\ Len(P(k)) = IF 1 <= k THEN k - 1 + 1 ELSE 0
        /\ \A i \in 1 .. k - 1 + 1 : P(k)[i] = s[1 + i - 1]
    BY <1>1, <2>1, SubSeqProperties
  <2>3. QED
    BY <1>1, <2>2
<1> HIDE DEF P
<1>3. P(0) = <<>>
  <2>1. P(0) \in Seq(S) /\ Len(P(0)) = 0
    BY <1>1, <1>2
  <2>2. QED
    BY <2>1, EmptySeq
<1>4. P(N) = s
  <2>1. P(N) \in Seq(S) /\ Len(P(N)) = N /\ \A i \in 1 .. N : P(N)[i] = s[i]
    BY <1>1, <1>2
  <2>2. QED
    BY <2>1, SeqEqual
<1>5. ASSUME NEW k \in 0 .. N - 1
      PROVE  s[k + 1] \in S /\ P(k + 1) = Append(P(k), s[k + 1])
  <2>1. k \in 0 .. N /\ k + 1 \in 0 .. N /\ k + 1 \in 1 .. N /\ k \in Nat
    BY <1>1
  <2>2. s[k + 1] \in S
    BY <1>1, <2>1
  <2> DEFINE q == Append(P(k), s[k + 1])
  <2>3. /\ q \in Seq(S) /\ Len(q) = k + 1 /\ q[k + 1] = s[k + 1]
        /\ \A i \in 1 .. k : q[i] = P(k)[i]
    BY <1>2, <2>1, <2>2, AppendProperties
  <2>4. /\ P(k + 1) \in Seq(S) /\ Len(P(k + 1)) = k + 1
        /\ \A i \in 1 .. k + 1 : P(k + 1)[i] = s[i]
    BY <1>2, <2>1
  <2>5. \A i \in 1 .. k : P(k)[i] = s[i]
    BY <1>2, <2>1
  <2> HIDE DEF q
  <2>6. \A i \in 1 .. k + 1 : P(k + 1)[i] = q[i]
    BY <2>1, <2>3, <2>4, <2>5
  <2>7. P(k + 1) = q
    BY <2>3, <2>4, <2>6, SeqEqual
  <2>8. QED
    BY <2>2, <2>7 DEF q
<1>6. QED
  BY <1>1, <1>2, <1>3, <1>4, <1>5 DEF P

LEMMA JoinedOf ==
  /\ Joined(<<>>) = <<>> /\ <<>> \in Seq(Nat)
  /\ \A parts \in Seq(Seq(Nat)) : Joined(parts) \in Seq(Nat)
  /\ \A parts \in Seq(Seq(Nat)), part \in Seq(Nat) :
       Joined(Append(parts, part)) = Joined(parts) \o part
<1>1. \A a, b \in Seq(Nat) : a \o b \in Seq(Nat) /\ Joining[<<a, b>>] = a \o b
  BY ConcatProperties DEF Joining
<1>2. Stepping(Joining, Seq(Nat), Seq(Nat))
  <2>1. Joining = [d \in Seq(Nat) \X Seq(Nat) |-> d[1] \o d[2]]
    BY DEF Joining
  <2>2. \A d \in Seq(Nat) \X Seq(Nat) : d[1] \o d[2] \in Seq(Nat)
    BY ConcatProperties
  <2>3. QED
    BY <2>1, <2>2 DEF Stepping
<1> DEFINE T == Seq(Nat)
           step == Joining
<1>3. <<>> \in T
  BY EmptySeq
<1> HIDE DEF T, step
<1>4. Stepping(step, T, T)
  BY <1>2 DEF T, step
<1>5. /\ Along(step, <<>>, <<>>) = <<>>
      /\ \A s \in Seq(T) : Along(step, <<>>, s) \in T
      /\ \A s \in Seq(T), c \in T : Along(step, <<>>, Append(s, c)) = step[<<Along(step, <<>>, s), c>>]
  BY <1>3, <1>4, AlongOf
<1>6. \A a, b \in T : step[<<a, b>>] = a \o b
  BY <1>1 DEF T, step
<1>7. \A s \in Seq(T), c \in T : Along(step, <<>>, Append(s, c)) = Along(step, <<>>, s) \o c
  BY <1>5, <1>6
<1>8. QED
  BY <1>3, <1>5, <1>7 DEF Joined, T, step

\* What each member of s is spelt with.
Spelt(letters, s) == [i \in DOMAIN s |-> letters[s[i]]]

LEMMA SpeltOf ==
  ASSUME NEW X, NEW Y, NEW letters \in [X -> Y]
  PROVE  /\ Spelt(letters, <<>>) = <<>>
         /\ \A s \in Seq(X) : Spelt(letters, s) \in Seq(Y)
         /\ \A s \in Seq(X), c \in X :
              Spelt(letters, Append(s, c)) = Append(Spelt(letters, s), letters[c])
<1>1. Spelt(letters, <<>>) = <<>>
  BY DEF Spelt
<1>2. ASSUME NEW s \in Seq(X)
      PROVE  Spelt(letters, s) \in Seq(Y) /\ Len(Spelt(letters, s)) = Len(s)
  <2>1. Len(s) \in Nat /\ DOMAIN s = 1 .. Len(s) /\ \A i \in 1 .. Len(s) : s[i] \in X
    BY LenProperties, ElementOfSeq
  <2>2. Spelt(letters, s) = [i \in 1 .. Len(s) |-> letters[s[i]]]
    BY <2>1 DEF Spelt
  <2>3. \A i \in 1 .. Len(s) : letters[s[i]] \in Y
    BY <2>1
  <2>4. QED
    BY <2>1, <2>2, <2>3
<1>3. ASSUME NEW s \in Seq(X), NEW c \in X
      PROVE  Spelt(letters, Append(s, c)) = Append(Spelt(letters, s), letters[c])
  <2> DEFINE N == Len(s)
             t == Append(s, c)
             p == Spelt(letters, s)
             q == Append(p, letters[c])
             r == Spelt(letters, t)
  <2>1. /\ t \in Seq(X) /\ Len(t) = N + 1 /\ N \in Nat /\ t[N + 1] = c
        /\ \A i \in 1 .. N : t[i] = s[i]
        /\ DOMAIN s = 1 .. N /\ DOMAIN t = 1 .. N + 1
    BY AppendProperties, LenProperties
  <2>2. p \in Seq(Y) /\ Len(p) = N /\ letters[c] \in Y
    BY <1>2
  <2>3. /\ q \in Seq(Y) /\ Len(q) = N + 1 /\ q[N + 1] = letters[c]
        /\ \A i \in 1 .. N : q[i] = p[i]
    BY <2>2, AppendProperties
  <2>4. r \in Seq(Y) /\ Len(r) = N + 1
    BY <1>2, <2>1
  <2>5. /\ \A i \in 1 .. N : p[i] = letters[s[i]]
        /\ \A i \in 1 .. N + 1 : r[i] = letters[t[i]]
    BY <2>1 DEF Spelt
  <2> HIDE DEF N, t, p, q, r
  <2>6. \A i \in 1 .. N + 1 : r[i] = q[i]
    BY <2>1, <2>3, <2>5
  <2>7. QED
    BY <2>3, <2>4, <2>6, SeqEqual DEF t, p, q, r
<1>4. QED
  BY <1>1, <1>2, <1>3

\* What is spelt with one letter each is as it was.
LEMMA JoinedSingles ==
  \A s \in Seq(Nat) : Joined([i \in DOMAIN s |-> <<s[i]>>]) = s
<1> DEFINE one == [n \in Nat |-> <<n>>]
           T == {s \in Seq(Nat) : Joined(Spelt(one, s)) = s}
<1>1. one \in [Nat -> Seq(Nat)] /\ \A n \in Nat : one[n] = <<n>>
  OBVIOUS
<1> HIDE DEF one
<1>2. /\ Spelt(one, <<>>) = <<>>
      /\ \A s \in Seq(Nat) : Spelt(one, s) \in Seq(Seq(Nat))
      /\ \A s \in Seq(Nat), c \in Nat : Spelt(one, Append(s, c)) = Append(Spelt(one, s), one[c])
  <2>1. one \in [Nat -> Seq(Nat)]
    BY <1>1
  <2>2. Spelt(one, <<>>) = <<>>
    BY ONLY <2>1, SpeltOf
  <2>3. \A s \in Seq(Nat) : Spelt(one, s) \in Seq(Seq(Nat))
    BY ONLY <2>1, SpeltOf
  <2>4. \A s \in Seq(Nat), c \in Nat : Spelt(one, Append(s, c)) = Append(Spelt(one, s), one[c])
    BY ONLY <2>1, SpeltOf
  <2>5. QED
    BY ONLY <2>2, <2>3, <2>4
<1>3. <<>> \in T
  BY <1>2, JoinedOf
<1>4. ASSUME NEW s \in T, NEW c \in Nat
      PROVE  Append(s, c) \in T
  <2>1. s \in Seq(Nat) /\ Append(s, c) \in Seq(Nat) /\ Joined(Spelt(one, s)) = s
    BY AppendProperties
  <2>2. one[c] \in Seq(Nat) /\ one[c] = <<c>>
    BY <1>1
  <2>3. Joined(Append(Spelt(one, s), one[c])) = Joined(Spelt(one, s)) \o one[c]
    BY <1>2, <2>1, <2>2, JoinedOf
  <2>4. s \o <<c>> = Append(s, c)
    BY <2>1
  <2>5. QED
    BY <1>2, <2>1, <2>2, <2>3, <2>4
<1> HIDE DEF T
<1>5. T \in SUBSET Seq(Nat)
  BY DEF T
<1>6. T = Seq(Nat)
  BY <1>3, <1>4, <1>5, Appending
<1>7. ASSUME NEW s \in Seq(Nat)
      PROVE  Joined([i \in DOMAIN s |-> <<s[i]>>]) = s
  <2>1. DOMAIN s = 1 .. Len(s) /\ \A i \in 1 .. Len(s) : s[i] \in Nat
    BY LenProperties, ElementOfSeq
  <2>2. [i \in DOMAIN s |-> <<s[i]>>] = Spelt(one, s)
    BY <1>1, <2>1 DEF Spelt
  <2>3. QED
    BY <1>6, <2>2 DEF T
<1>8. QED
  BY <1>7

\* Bytes are numbers.
LEMMA BytesAre ==
  ASSUME NEW s \in Seq(Byte)
  PROVE  /\ s \in Seq(Nat) /\ Len(s) \in Nat /\ DOMAIN s = 1 .. Len(s)
         /\ \A i \in 1 .. Len(s) : s[i] \in 0 .. 255
<1>1. Byte \subseteq Nat
  BY DEF Byte
<1>2. s \in Seq(Nat)
  BY <1>1, SeqMonotonic
<1>3. QED
  BY <1>2, LenProperties, ElementOfSeq DEF Byte

-----------------------------------------------------------------------------
(* Hex and bytes.                                                          *)

\* codec.hex_encode spells a byte with two digits; codec.hex_decode takes them together.
LEMMA HexComesBack ==
  ASSUME NEW s \in Seq(Byte)
  PROVE  HexDecode(HexEncode(s)) = {s}
<1> DEFINE hex == [b \in Byte |-> <<b \div 16, b % 16>>]
           H(t) == Joined(Spelt(hex, t))
           T == {t \in Seq(Byte) :
                   /\ H(t) \in Seq(Nat) /\ Len(H(t)) = 2 * Len(t)
                   /\ \A i \in 1 .. Len(t) : H(t)[2 * i - 1] = t[i] \div 16 /\ H(t)[2 * i] = t[i] % 16}
<1>0. \A b \in Byte : b \div 16 \in 0 .. 15 /\ b % 16 \in 0 .. 15 /\ (b \div 16) * 16 + (b % 16) = b
  BY DEF Byte
<1>1. /\ hex \in [Byte -> Seq(Nat)]
      /\ \A b \in Byte : hex[b] \in Seq(Nat) /\ Len(hex[b]) = 2 /\ hex[b][1] = b \div 16 /\ hex[b][2] = b % 16
      /\ \A b \in Byte : hex[b] = <<b \div 16, b % 16>>
  <2>1. \A b \in Byte : b \div 16 \in Nat /\ b % 16 \in Nat
    BY <1>0
  <2>2. \A x, y \in Nat : <<x, y>> \in Seq(Nat) /\ Len(<<x, y>>) = 2 /\ <<x, y>>[1] = x /\ <<x, y>>[2] = y
    OBVIOUS
  <2>3. QED
    BY <2>1, <2>2
<1> HIDE DEF hex
<1>2. /\ Spelt(hex, <<>>) = <<>>
      /\ \A t \in Seq(Byte) : Spelt(hex, t) \in Seq(Seq(Nat))
      /\ \A t \in Seq(Byte), c \in Byte : Spelt(hex, Append(t, c)) = Append(Spelt(hex, t), hex[c])
  <2>1. hex \in [Byte -> Seq(Nat)]
    BY <1>1
  <2>2. QED
    BY <2>1, SpeltOf
<1>3. H(<<>>) = <<>> /\ \A t \in Seq(Byte), c \in Byte : H(Append(t, c)) = H(t) \o hex[c]
  BY <1>1, <1>2, JoinedOf
<1> HIDE DEF H
<1>4. <<>> \in T
  <2>1. <<>> \in Seq(Byte) /\ H(<<>>) \in Seq(Nat)
    BY <1>3, EmptySeq
  <2>2. Len(H(<<>>)) = 0 /\ Len(<<>>) = 0
    BY <1>3
  <2>3. QED
    BY <2>1, <2>2
<1>5. ASSUME NEW t \in T, NEW c \in Byte
      PROVE  Append(t, c) \in T
  <2> DEFINE N == Len(t)
             u == Append(t, c)
             h == H(t)
             g == hex[c]
             k == h \o g
  <2>1. /\ t \in Seq(Byte) /\ h \in Seq(Nat) /\ Len(h) = 2 * N
        /\ \A i \in 1 .. N : h[2 * i - 1] = t[i] \div 16 /\ h[2 * i] = t[i] % 16
    OBVIOUS
  <2> HIDE DEF T
  <2>2. /\ u \in Seq(Byte) /\ Len(u) = N + 1 /\ N \in Nat /\ u[N + 1] = c
        /\ \A i \in 1 .. N : u[i] = t[i]
    BY <2>1, AppendProperties, LenProperties
  <2>3. g \in Seq(Nat) /\ Len(g) = 2 /\ g[1] = c \div 16 /\ g[2] = c % 16
    BY <1>1
  <2>4. H(u) = k
    BY <1>3, <2>1
  <2> HIDE DEF h, g
  <2>5. /\ k \in Seq(Nat) /\ Len(k) = Len(h) + Len(g)
        /\ \A i \in 1 .. Len(h) + Len(g) : k[i] = IF i <= Len(h) THEN h[i] ELSE g[i - Len(h)]
    BY <2>1, <2>3, ConcatProperties
  <2> HIDE DEF k, N, u
  <2>6. ASSUME NEW i \in 1 .. N + 1
        PROVE  k[2 * i - 1] = u[i] \div 16 /\ k[2 * i] = u[i] % 16
    <3>1. CASE i = N + 1
      <4>1. /\ 2 * i - 1 \in 1 .. Len(h) + Len(g) /\ ~(2 * i - 1 <= Len(h)) /\ (2 * i - 1) - Len(h) = 1
            /\ 2 * i \in 1 .. Len(h) + Len(g) /\ ~(2 * i <= Len(h)) /\ (2 * i) - Len(h) = 2
        BY <2>1, <2>2, <2>3, <3>1
      <4>2. k[2 * i - 1] = g[1] /\ k[2 * i] = g[2]
        BY <2>5, <4>1
      <4>3. QED
        BY <2>2, <2>3, <3>1, <4>2
    <3>2. CASE i # N + 1
      <4>1. /\ i \in 1 .. N
            /\ 2 * i - 1 \in 1 .. Len(h) + Len(g) /\ 2 * i - 1 <= Len(h)
            /\ 2 * i \in 1 .. Len(h) + Len(g) /\ 2 * i <= Len(h)
        BY <2>1, <2>2, <2>3, <3>2
      <4>2. k[2 * i - 1] = h[2 * i - 1] /\ k[2 * i] = h[2 * i]
        BY <2>5, <4>1
      <4>3. QED
        BY <2>1, <2>2, <4>1, <4>2
    <3>3. QED
      BY <3>1, <3>2
  <2>7. Len(k) = 2 * (N + 1)
    BY <2>1, <2>2, <2>3, <2>5
  <2>8. QED
    BY <2>2, <2>4, <2>5, <2>6, <2>7 DEF T, u
<1> HIDE DEF T
<1>6. T \in SUBSET Seq(Byte)
  BY DEF T
<1>7. T = Seq(Byte)
  BY <1>4, <1>5, <1>6, Appending
<1> DEFINE N == Len(s)
           h == HexEncode(s)
<1>8. /\ N \in Nat /\ DOMAIN s = 1 .. N /\ \A i \in 1 .. N : s[i] \in 0 .. 255
  BY BytesAre
<1>9. h = H(s)
  <2>1. [i \in DOMAIN s |-> <<s[i] \div 16, s[i] % 16>>] = Spelt(hex, s)
    BY <1>1, <1>8 DEF Spelt, Byte
  <2>2. QED
    BY <2>1 DEF HexEncode, H
<1>10. /\ h \in Seq(Nat) /\ Len(h) = 2 * N
       /\ \A i \in 1 .. N : h[2 * i - 1] = s[i] \div 16 /\ h[2 * i] = s[i] % 16
  BY <1>7, <1>9 DEF T
<1> HIDE DEF h, N
<1>11. \A i \in DOMAIN h : h[i] \in 0 .. 15
  <2>1. DOMAIN h = 1 .. 2 * N
    BY <1>10, LenProperties
  <2>2. ASSUME NEW i \in 1 .. 2 * N
        PROVE  h[i] \in 0 .. 15
    <3>1. PICK j \in 1 .. N : i = 2 * j - 1 \/ i = 2 * j
      <4>1. (i + 1) \div 2 \in 1 .. N /\ (i = 2 * ((i + 1) \div 2) - 1 \/ i = 2 * ((i + 1) \div 2))
        BY <1>8
      <4>2. QED
        BY <4>1
    <3>2. s[j] \div 16 \in 0 .. 15 /\ s[j] % 16 \in 0 .. 15
      BY <1>0, <1>8 DEF Byte
    <3>3. QED
      BY <1>10, <3>1, <3>2
  <2>3. QED
    BY <2>1, <2>2
<1>12. Len(h) % 2 = 0 /\ Len(h) \div 2 = N
  BY <1>8, <1>10
<1>13. HexDecode(h) = {[i \in 1 .. N |-> (h[2 * i - 1] % 16) * 16 + (h[2 * i] % 16)]}
  BY <1>11, <1>12 DEF HexDecode
<1>14. ASSUME NEW i \in 1 .. N
       PROVE  (h[2 * i - 1] % 16) * 16 + (h[2 * i] % 16) = s[i]
  <2>1. s[i] \in 0 .. 255
    BY <1>8
  <2>2. ((s[i] \div 16) % 16) * 16 + ((s[i] % 16) % 16) = s[i]
    <3> DEFINE b == s[i]
    <3>1. b \in 0 .. 255
      BY <2>1
    <3> HIDE DEF b
    <3>2. \A n \in 0 .. 15 : n % 16 = n
      OBVIOUS
    <3>3. b \div 16 \in 0 .. 15 /\ b % 16 \in 0 .. 15 /\ (b \div 16) * 16 + (b % 16) = b
      BY <1>0, <3>1 DEF Byte
    <3>4. ((b \div 16) % 16) * 16 + ((b % 16) % 16) = b
      BY <3>2, <3>3
    <3>5. QED
      BY <3>4 DEF b
  <2>3. QED
    BY <1>10, <2>2
<1>15. [i \in 1 .. N |-> (h[2 * i - 1] % 16) * 16 + (h[2 * i] % 16)] = s
  <2>1. s = [i \in 1 .. N |-> s[i]]
    BY <1>8
  <2>2. QED
    BY <1>14, <2>1
<1>16. QED
  BY <1>13, <1>15 DEF h

LEMMA BytesComeBack ==
  ASSUME NEW s \in Seq(Byte)
  PROVE  /\ BytesToString(StringToBytes(s)) = {s}
         /\ ~IsUtf8(s) => Utf8Encode(s) = {}
<1>1. BytesToString(StringToBytes(s)) = {s} /\ BytesToString(s) = {s}
  BY BytesAre DEF BytesToString, StringToBytes
<1>2. QED
  BY <1>1 DEF Utf8Encode

-----------------------------------------------------------------------------
(* Percent encoding.                                                       *)

Places(n) == [i \in 1 .. n |-> i]

\* What the loop of url.decode has made of the first n bytes.
Taken(t, n) == Along(Scanning(t), [next |-> 1, out |-> <<>>], Places(n))

LEMMA PlacesOf ==
  ASSUME NEW N \in Nat
  PROVE  /\ Places(0) = <<>>
         /\ \A n \in 0 .. N : Places(n) \in Seq(1 .. N)
         /\ \A n \in 0 .. N - 1 : n + 1 \in 1 .. N /\ Places(n + 1) = Append(Places(n), n + 1)
<1>1. Places(0) = <<>>
  <2>1. 1 .. 0 = {}
    OBVIOUS
  <2>2. Places(0) \in Seq(Nat) /\ Len(Places(0)) = 0
    BY <2>1 DEF Places
  <2>3. QED
    BY <2>2, EmptySeq
<1>2. ASSUME NEW n \in 0 .. N
      PROVE  Places(n) \in Seq(1 .. N) /\ Len(Places(n)) = n /\ \A i \in 1 .. n : Places(n)[i] = i
  <2>1. \A i \in 1 .. n : i \in 1 .. N
    OBVIOUS
  <2>2. QED
    BY <2>1 DEF Places
<1>3. ASSUME NEW n \in 0 .. N - 1
      PROVE  n + 1 \in 1 .. N /\ Places(n + 1) = Append(Places(n), n + 1)
  <2>1. n \in 0 .. N /\ n + 1 \in 0 .. N /\ n + 1 \in 1 .. N
    OBVIOUS
  <2> DEFINE p == Places(n)
             q == Append(p, n + 1)
             r == Places(n + 1)
  <2>2. p \in Seq(1 .. N) /\ Len(p) = n /\ \A i \in 1 .. n : p[i] = i
    BY <1>2, <2>1
  <2>3. r \in Seq(1 .. N) /\ Len(r) = n + 1 /\ \A i \in 1 .. n + 1 : r[i] = i
    BY <1>2, <2>1
  <2>4. /\ q \in Seq(1 .. N) /\ Len(q) = n + 1 /\ q[n + 1] = n + 1
        /\ \A i \in 1 .. n : q[i] = p[i]
    BY <2>1, <2>2, AppendProperties
  <2> HIDE DEF p, q, r
  <2>5. \A i \in 1 .. n + 1 : q[i] = r[i]
    BY <2>2, <2>3, <2>4
  <2>6. r = q
    BY <2>3, <2>4, <2>5, SeqEqual
  <2>7. QED
    BY <2>1, <2>6 DEF p, q, r
<1>4. QED
  BY <1>1, <1>2, <1>3

\* A triplet is a number.
LEMMA TripletIs ==
  \A t, i : Triplet(t, i) \in SUBSET Nat
<1>1. \A b : HexValue(b) \in SUBSET (0 .. 15)
  BY DEF HexValue
<1>2. \A A, B \in SUBSET (0 .. 15) : {h * 16 + l : h \in A, l \in B} \in SUBSET Nat
  OBVIOUS
<1>3. ASSUME NEW t, NEW i
      PROVE  Triplet(t, i) \in SUBSET Nat
  <2> DEFINE A == HexValue(t[i + 1])
             B == HexValue(t[i + 2])
             both == {h * 16 + l : h \in A, l \in B}
  <2>1. Triplet(t, i) = both \/ Triplet(t, i) = {}
    BY DEF Triplet
  <2>2. A \in SUBSET (0 .. 15) /\ B \in SUBSET (0 .. 15)
    BY <1>1
  <2>3. both \in SUBSET Nat
    BY <1>2, <2>2
  <2>4. QED
    BY <2>1, <2>3
<1>4. QED
  BY <1>3

LEMMA ScanIs ==
  ASSUME NEW t \in Seq(Nat), NEW scanned \in Scanned, NEW i \in DOMAIN t
  PROVE  Scan(t, scanned, i) \in Scanned
<1>1. i \in Nat /\ t[i] \in Nat
  BY LenProperties, ElementOfSeq
<1>2. scanned.next \in Nat /\ scanned.out \in Seq(Nat)
  BY DEF Scanned
<1>3. \A n \in Nat, b \in Nat : [next |-> n, out |-> Append(scanned.out, b)] \in Scanned
  BY <1>2, AppendProperties DEF Scanned
<1> DEFINE b == CHOOSE b \in Triplet(t, i) : TRUE
<1>4. Triplet(t, i) # {} => b \in Nat
  <2>1. Triplet(t, i) \in SUBSET Nat
    BY TripletIs
  <2>2. Triplet(t, i) # {} => b \in Triplet(t, i)
    OBVIOUS
  <2>3. QED
    BY <2>1, <2>2
<1> HIDE DEF b
<1>5. Scan(t, scanned, i) =
        IF i # scanned.next THEN scanned
        ELSE IF Triplet(t, i) = {} THEN [next |-> i + 1, out |-> Append(scanned.out, t[i])]
        ELSE [next |-> i + 3, out |-> Append(scanned.out, b)]
  BY DEF Scan, b
<1>6. i + 1 \in Nat /\ i + 3 \in Nat
  BY <1>1
<1>7. QED
  BY <1>1, <1>3, <1>4, <1>5, <1>6

LEMMA TakenOf ==
  ASSUME NEW t \in Seq(Nat)
  PROVE  /\ Taken(t, 0) = [next |-> 1, out |-> <<>>]
         /\ \A n \in 0 .. Len(t) : Taken(t, n) \in Scanned
         /\ \A n \in 0 .. Len(t) - 1 : Taken(t, n + 1) = Scan(t, Taken(t, n), n + 1)
<1> DEFINE D == 1 .. Len(t)
           first == [next |-> 1, out |-> <<>>]
           step == Scanning(t)
<1>1. Len(t) \in Nat /\ DOMAIN t = D
  BY LenProperties
<1>2. Stepping(step, Scanned, D)
  <2>1. step = [d \in Scanned \X D |-> Scan(t, d[1], d[2])]
    BY <1>1 DEF Scanning
  <2>2. \A d \in Scanned \X D : Scan(t, d[1], d[2]) \in Scanned
    BY <1>1, ScanIs
  <2>3. QED
    BY <2>1, <2>2 DEF Stepping
<1>3. first \in Scanned
  BY EmptySeq DEF Scanned
<1>4. \A x \in Scanned, i \in D : step[<<x, i>>] = Scan(t, x, i)
  BY <1>1 DEF Scanning
<1> HIDE DEF first, step
<1>5. /\ Places(0) = <<>>
      /\ \A n \in 0 .. Len(t) : Places(n) \in Seq(D)
      /\ \A n \in 0 .. Len(t) - 1 : n + 1 \in D /\ Places(n + 1) = Append(Places(n), n + 1)
  BY <1>1, PlacesOf
<1> HIDE DEF D
<1>6. /\ Along(step, first, <<>>) = first
      /\ \A s \in Seq(D) : Along(step, first, s) \in Scanned
      /\ \A s \in Seq(D), c \in D : Along(step, first, Append(s, c)) = step[<<Along(step, first, s), c>>]
  BY <1>2, <1>3, AlongOf
<1>7. \A n : Taken(t, n) = Along(step, first, Places(n))
  BY DEF Taken, step, first
<1>8. Taken(t, 0) = first
  BY <1>5, <1>6, <1>7
<1>9. \A n \in 0 .. Len(t) : Taken(t, n) \in Scanned
  BY <1>5, <1>6, <1>7
<1>10. ASSUME NEW n \in 0 .. Len(t) - 1
       PROVE  Taken(t, n + 1) = Scan(t, Taken(t, n), n + 1)
  <2>1. n \in 0 .. Len(t)
    BY <1>1
  <2>2. Taken(t, n + 1) = step[<<Taken(t, n), n + 1>>]
    <3>1. n + 1 \in D /\ Places(n + 1) = Append(Places(n), n + 1) /\ Places(n) \in Seq(D)
      BY <1>5, <2>1
    <3>2. Along(step, first, Places(n + 1)) = step[<<Along(step, first, Places(n)), n + 1>>]
      BY <1>6, <3>1
    <3>3. QED
      BY <1>7, <3>2
  <2>3. QED
    BY <1>4, <1>5, <1>9, <2>1, <2>2
<1>11. QED
  BY <1>8, <1>9, <1>10 DEF first

\* A byte that starts no triplet is taken as it is; of a triplet, three bytes are.
LEMMA TakenFurther ==
  ASSUME NEW t \in Seq(Nat), NEW q \in Seq(Nat), NEW n \in Nat, n + 1 <= Len(t),
         Taken(t, n) = [next |-> n + 1, out |-> q]
  PROVE  /\ Triplet(t, n + 1) = {} => Taken(t, n + 1) = [next |-> n + 2, out |-> Append(q, t[n + 1])]
         /\ \A b \in Nat : Triplet(t, n + 1) = {b} /\ n + 3 <= Len(t) =>
              Taken(t, n + 3) = [next |-> n + 4, out |-> Append(q, b)]
<1> DEFINE N == Len(t)
<1>1. N \in Nat
  BY LenProperties
<1>2. \A m \in 0 .. N - 1 : Taken(t, m + 1) = Scan(t, Taken(t, m), m + 1)
  BY TakenOf
<1> HIDE DEF N
<1>3. Taken(t, n + 1) = Scan(t, [next |-> n + 1, out |-> q], n + 1)
  <2>1. n \in 0 .. N - 1
    BY <1>1 DEF N
  <2>2. QED
    BY <1>2, <2>1
<1>4. Triplet(t, n + 1) = {} => Taken(t, n + 1) = [next |-> n + 2, out |-> Append(q, t[n + 1])]
  BY <1>3 DEF Scan
<1>5. ASSUME NEW b \in Nat, Triplet(t, n + 1) = {b}, n + 3 <= Len(t)
      PROVE  Taken(t, n + 3) = [next |-> n + 4, out |-> Append(q, b)]
  <2> DEFINE x == [next |-> n + 4, out |-> Append(q, b)]
  <2>1. (CHOOSE c \in Triplet(t, n + 1) : TRUE) = b /\ Triplet(t, n + 1) # {}
    BY <1>5
  <2>2. Taken(t, n + 1) = x
    <3>1. Scan(t, [next |-> n + 1, out |-> q], n + 1) = [next |-> (n + 1) + 3, out |-> Append(q, b)]
      BY <2>1 DEF Scan
    <3>2. (n + 1) + 3 = n + 4
      OBVIOUS
    <3>3. QED
      BY <1>3, <3>1, <3>2
  <2>3. x.next = n + 4
    OBVIOUS
  <2> HIDE DEF x
  <2>4. Scan(t, x, n + 2) = x /\ Scan(t, x, n + 3) = x
    BY <2>3 DEF Scan
  <2>5. n + 1 \in 0 .. N - 1 /\ n + 2 \in 0 .. N - 1 /\ (n + 1) + 1 = n + 2 /\ (n + 2) + 1 = n + 3
    BY <1>1, <1>5 DEF N
  <2>6. Taken(t, n + 2) = x
    BY <1>2, <2>2, <2>4, <2>5
  <2>7. Taken(t, n + 3) = x
    BY <1>2, <2>4, <2>5, <2>6
  <2>8. QED
    BY <2>7 DEF x
<1>6. QED
  BY <1>4, <1>5

\* A string that starts with another.
Begins(p, t) == Len(p) <= Len(t) /\ \A i \in 1 .. Len(p) : t[i] = p[i]

LEMMA BeginsWith ==
  ASSUME NEW p \in Seq(Nat), NEW g \in Seq(Nat), NEW t \in Seq(Nat), Begins(p \o g, t)
  PROVE  /\ Begins(p, t) /\ Len(p \o g) = Len(p) + Len(g) /\ Len(p) + Len(g) <= Len(t)
         /\ \A i \in 1 .. Len(g) : t[Len(p) + i] = g[i]
<1> DEFINE P == Len(p)
           G == Len(g)
           k == p \o g
<1>1. /\ P \in Nat /\ G \in Nat /\ Len(k) = P + G
      /\ \A i \in 1 .. P + G : k[i] = IF i <= P THEN p[i] ELSE g[i - P]
  BY ConcatProperties, LenProperties
<1>2. Len(k) <= Len(t) /\ \A i \in 1 .. Len(k) : t[i] = k[i]
  BY DEF Begins
<1>3. Len(t) \in Nat
  BY LenProperties
<1> HIDE DEF P, G, k
<1>4. \A i \in 1 .. P : t[i] = p[i]
  BY <1>1, <1>2
<1>5. \A i \in 1 .. G : P + i \in 1 .. P + G /\ ~(P + i <= P) /\ (P + i) - P = i
  BY <1>1
<1>6. \A i \in 1 .. G : t[P + i] = g[i]
  BY <1>1, <1>2, <1>5
<1>7. P + G <= Len(t) /\ P <= Len(t)
  BY <1>1, <1>2, <1>3
<1>8. QED
  BY <1>1, <1>4, <1>6, <1>7 DEF Begins, P, G, k

LEMMA HexBytes ==
  \A n \in 0 .. 15 : HexByte(n) \in Nat /\ HexValue(HexByte(n)) = {n}
<1>1. ASSUME NEW n \in 0 .. 15
      PROVE  HexByte(n) \in Nat /\ HexValue(HexByte(n)) = {n}
  <2>1. CASE n < 10
    <3>1. HexByte(n) = 48 + n /\ 48 + n \in 48 .. 57 /\ (48 + n) - 48 = n
      BY <2>1 DEF HexByte
    <3>2. QED
      BY <3>1 DEF HexValue
  <2>2. CASE ~(n < 10)
    <3>1. HexByte(n) = 55 + n /\ 55 + n \in 65 .. 70 /\ 55 + n \notin 48 .. 57 /\ (55 + n) - 55 = n
      BY <2>2 DEF HexByte
    <3>2. 55 + n \notin 97 .. 102
      BY <3>1
    <3>3. HexValue(55 + n) = {(55 + n) - 55}
      BY <3>1, <3>2 DEF HexValue
    <3>4. QED
      BY <3>1, <3>3
  <2>3. QED
    BY <2>1, <2>2
<1>2. QED
  BY <1>1

\* What url.encode writes for a byte.
Encoded == [b \in Byte |->
  IF Alphanumeric(b) THEN <<b>> ELSE <<Percent, HexByte(b \div 16), HexByte(b % 16)>>]

LEMMA EncodedIs ==
  /\ Encoded \in [Byte -> Seq(Nat)]
  /\ \A b \in Byte :
       \/ b \in Nat /\ b # Percent /\ Encoded[b] = <<b>>
       \/ /\ Encoded[b] = <<Percent, HexByte(b \div 16), HexByte(b % 16)>>
          /\ b \div 16 \in 0 .. 15 /\ b % 16 \in 0 .. 15 /\ (b \div 16) * 16 + (b % 16) = b
<1>1. \A b \in Byte : b \in Nat /\ b \div 16 \in 0 .. 15 /\ b % 16 \in 0 .. 15 /\ (b \div 16) * 16 + (b % 16) = b
  BY DEF Byte
<1>2. \A b \in Byte : <<b>> \in Seq(Nat)
  BY <1>1
<1>3. \A b \in Byte : <<Percent, HexByte(b \div 16), HexByte(b % 16)>> \in Seq(Nat)
  <2>1. \A x, y, z \in Nat : <<x, y, z>> \in Seq(Nat)
    OBVIOUS
  <2>2. Percent \in Nat
    BY DEF Percent
  <2>3. \A b \in Byte : HexByte(b \div 16) \in Nat /\ HexByte(b % 16) \in Nat
    BY <1>1, HexBytes
  <2>4. QED
    BY <2>1, <2>2, <2>3
<1>4. \A b \in Byte : Alphanumeric(b) => b # Percent
  BY DEF Alphanumeric, Percent
<1>5. QED
  BY <1>1, <1>2, <1>3, <1>4 DEF Encoded

\* A set of one, by a name.
Only(x) == {x}

LEMMA TripletAt ==
  \A t \in Seq(Nat), i, a, b \in Nat :
    /\ t[i] = Percent /\ i + 2 <= Len(t)
    /\ HexValue(t[i + 1]) = Only(a) /\ HexValue(t[i + 2]) = Only(b)
    => Triplet(t, i) = Only(a * 16 + b)
<1>1. ASSUME NEW t \in Seq(Nat), NEW i \in Nat, NEW a \in Nat, NEW b \in Nat, t[i] = Percent, i + 2 <= Len(t),
             HexValue(t[i + 1]) = Only(a), HexValue(t[i + 2]) = Only(b)
      PROVE  Triplet(t, i) = Only(a * 16 + b)
  <2> DEFINE A == HexValue(t[i + 1])
             B == HexValue(t[i + 2])
             both == {h * 16 + l : h \in A, l \in B}
  <2>1. Triplet(t, i) = both
    BY <1>1 DEF Triplet
  <2>2. A = {a} /\ B = {b}
    BY <1>1 DEF Only
  <2> HIDE DEF both
  <2>3. both = {a * 16 + b}
    <3> HIDE DEF A, B
    <3>1. QED
      BY <2>2 DEF both
  <2>4. QED
    BY <2>1, <2>3 DEF Only
<1>2. QED
  BY <1>1

LEMMA TextIsKept ==
  ASSUME NEW s \in Seq(Nat), IsUtf8(s)
  PROVE  Lossy(s) = s
<1>1. [i \in DOMAIN s |-> IF Malformed(s, i) THEN <<239, 191, 189>> ELSE <<s[i]>>] = [i \in DOMAIN s |-> <<s[i]>>]
  BY DEF IsUtf8
<1>2. QED
  BY <1>1, JoinedSingles DEF Lossy

LEMMA DecodedIs ==
  ASSUME NEW t \in Seq(Nat)
  PROVE  DecodeComponent(t) = Lossy(Taken(t, Len(t)).out)
<1>1. DOMAIN t = 1 .. Len(t)
  BY LenProperties
<1>2. [i \in DOMAIN t |-> i] = Places(Len(t))
  BY <1>1 DEF Places
<1>3. QED
  BY <1>2 DEF DecodeComponent, Taken

\* Text comes back from its percent encoding.
LEMMA PercentComesBack ==
  ASSUME NEW s \in Seq(Byte), IsUtf8(s)
  PROVE  DecodeComponent(EncodeComponent(s)) = s
<1> DEFINE code == Encoded
           C(u) == Joined(Spelt(code, u))
           At(t, n, u) == Taken(t, n) = [next |-> n + 1, out |-> u]
           T == {u \in Seq(Byte) : \A t \in Seq(Nat) : Begins(C(u), t) => At(t, Len(C(u)), u)}
<1>0. code \in [Byte -> Seq(Nat)]
  BY EncodedIs
<1> HIDE DEF code
<1>1. /\ Spelt(code, <<>>) = <<>>
      /\ \A u \in Seq(Byte) : Spelt(code, u) \in Seq(Seq(Nat))
      /\ \A u \in Seq(Byte), c \in Byte : Spelt(code, Append(u, c)) = Append(Spelt(code, u), code[c])
  BY <1>0, SpeltOf
<1>2. /\ C(<<>>) = <<>>
      /\ \A u \in Seq(Byte) : C(u) \in Seq(Nat)
      /\ \A u \in Seq(Byte), c \in Byte : C(Append(u, c)) = C(u) \o code[c]
  BY <1>0, <1>1, JoinedOf
<1> HIDE DEF C
<1>3. <<>> \in T
  <2>1. Len(C(<<>>)) = 0
    BY <1>2
  <2>2. \A t \in Seq(Nat) : At(t, 0, <<>>)
    BY TakenOf
  <2> HIDE DEF At
  <2>3. QED
    BY <2>1, <2>2, EmptySeq
<1>4. ASSUME NEW u \in T, NEW c \in Byte
      PROVE  Append(u, c) \in T
  <2> DEFINE v == Append(u, c)
             p == C(u)
             g == code[c]
             n == Len(p)
  <2>1. u \in Seq(Byte) /\ \A t \in Seq(Nat) : Begins(p, t) => At(t, n, u)
    OBVIOUS
  <2> HIDE DEF T
  <2>2. v \in Seq(Byte) /\ u \in Seq(Nat)
    BY <2>1, AppendProperties, BytesAre
  <2>3. p \in Seq(Nat) /\ n \in Nat /\ g \in Seq(Nat) /\ C(v) = p \o g
    BY <1>0, <1>2, <2>1, LenProperties
  <2>4. \/ c \in Nat /\ c # Percent /\ g = <<c>>
        \/ /\ g = <<Percent, HexByte(c \div 16), HexByte(c % 16)>>
           /\ c \div 16 \in 0 .. 15 /\ c % 16 \in 0 .. 15 /\ (c \div 16) * 16 + (c % 16) = c
    BY EncodedIs DEF code
  <2> HIDE DEF p, g, n, v
  <2>5. ASSUME NEW t \in Seq(Nat), Begins(p \o g, t)
        PROVE  At(t, Len(p \o g), v)
    <3>1. /\ Begins(p, t) /\ Len(p \o g) = n + Len(g) /\ n + Len(g) <= Len(t)
          /\ \A i \in 1 .. Len(g) : t[n + i] = g[i]
      BY <2>3, <2>5, BeginsWith DEF n
    <3>2. Taken(t, n) = [next |-> n + 1, out |-> u]
      BY <2>1, <3>1
    <3>3. CASE c \in Nat /\ c # Percent /\ g = <<c>>
      <4>1. Len(g) = 1 /\ g[1] = c
        BY <3>3
      <4>2. n + 1 <= Len(t) /\ t[n + 1] = c
        BY <3>1, <4>1
      <4>3. Triplet(t, n + 1) = {}
        BY <3>3, <4>2 DEF Triplet
      <4>4. Taken(t, n + 1) = [next |-> n + 2, out |-> Append(u, t[n + 1])]
        BY <2>2, <2>3, <3>2, <4>2, <4>3, TakenFurther
      <4>5. Len(p \o g) = n + 1 /\ (n + 1) + 1 = n + 2
        BY <2>3, <3>1, <4>1
      <4>6. QED
        BY <4>2, <4>4, <4>5 DEF v
    <3>4. CASE /\ g = <<Percent, HexByte(c \div 16), HexByte(c % 16)>>
               /\ c \div 16 \in 0 .. 15 /\ c % 16 \in 0 .. 15 /\ (c \div 16) * 16 + (c % 16) = c
      <4> DEFINE a == c \div 16
                 b == c % 16
      <4>1. a \in 0 .. 15 /\ b \in 0 .. 15 /\ a * 16 + b = c /\ g = <<Percent, HexByte(a), HexByte(b)>>
        BY <3>4
      <4> HIDE DEF a, b
      <4>2. Len(g) = 3 /\ g[1] = Percent /\ g[2] = HexByte(a) /\ g[3] = HexByte(b)
        BY <4>1
      <4>3. /\ n + 3 <= Len(t) /\ t[n + 1] = Percent
            /\ t[n + 2] = HexByte(a) /\ t[n + 3] = HexByte(b)
        BY <3>1, <4>2
      <4>4. HexValue(t[n + 2]) = {a} /\ HexValue(t[n + 3]) = {b}
        BY <4>1, <4>3, HexBytes
      <4>5. Triplet(t, n + 1) = {a * 16 + b}
        <5> DEFINE m == n + 1
        <5>1. m + 1 = n + 2 /\ m + 2 = n + 3
          BY <2>3
        <5>2. t[m] = Percent /\ m + 2 <= Len(t) /\ HexValue(t[m + 1]) = Only(a) /\ HexValue(t[m + 2]) = Only(b)
          BY <4>3, <4>4, <5>1 DEF Only
        <5>3. Triplet(t, m) = Only(a * 16 + b)
          <6>1. a \in Nat /\ b \in Nat /\ m \in Nat
            BY <2>3, <4>1
          <6> HIDE DEF m
          <6>2. QED
            BY <5>2, <6>1, TripletAt
        <5>4. QED
          BY <5>3 DEF Only
      <4>7. Triplet(t, n + 1) = {c} /\ c \in Nat
        BY <4>1, <4>5
      <4>8. n + 1 <= Len(t)
        BY <2>3, <4>3, LenProperties
      <4>9. Taken(t, n + 3) = [next |-> n + 4, out |-> Append(u, c)]
        <5>1. \A x \in Nat : Triplet(t, n + 1) = {x} /\ n + 3 <= Len(t) =>
                Taken(t, n + 3) = [next |-> n + 4, out |-> Append(u, x)]
          BY <2>2, <2>3, <3>2, <4>8, TakenFurther
        <5>2. QED
          BY <4>3, <4>7, <5>1
      <4>10. Len(p \o g) = n + 3 /\ (n + 3) + 1 = n + 4
        BY <2>3, <3>1, <4>2
      <4>11. QED
        BY <4>9, <4>10 DEF v
    <3>5. QED
      BY <2>4, <3>3, <3>4
  <2>6. QED
    BY <2>2, <2>3, <2>5 DEF T, v
<1> HIDE DEF T
<1>5. T \in SUBSET Seq(Byte)
  BY DEF T
<1>6. T = Seq(Byte)
  BY <1>3, <1>4, <1>5, Appending
<1> DEFINE t == EncodeComponent(s)
<1>7. t = C(s)
  <2>1. DOMAIN s = 1 .. Len(s) /\ \A i \in 1 .. Len(s) : s[i] \in Byte
    BY BytesAre DEF Byte
  <2>2. \A i \in DOMAIN s : code[s[i]] =
          IF Alphanumeric(s[i]) THEN <<s[i]>> ELSE <<Percent, HexByte(s[i] \div 16), HexByte(s[i] % 16)>>
    BY <2>1 DEF code, Encoded
  <2>3. Spelt(code, s) = [i \in DOMAIN s |->
          IF Alphanumeric(s[i]) THEN <<s[i]>> ELSE <<Percent, HexByte(s[i] \div 16), HexByte(s[i] % 16)>>]
    BY <2>2 DEF Spelt
  <2>4. QED
    BY <2>3 DEF EncodeComponent, C
<1>8. t \in Seq(Nat) /\ Len(t) \in Nat
  BY <1>2, <1>7, LenProperties
<1> HIDE DEF t
<1>9. Begins(t, t)
  BY <1>8 DEF Begins
<1>10. Taken(t, Len(t)) = [next |-> Len(t) + 1, out |-> s]
  BY <1>6, <1>7, <1>8, <1>9 DEF T
<1>11. DecodeComponent(t) = Lossy(s)
  BY <1>8, <1>10, DecodedIs
<1>12. QED
  BY <1>11, BytesAre, TextIsKept DEF t

\* What has no triplets is decoded as it is.
LEMMA DecodedAsItIs ==
  ASSUME NEW t \in Seq(Nat), \A i \in DOMAIN t : Triplet(t, i) = {}
  PROVE  DecodeComponent(t) = Lossy(t)
<1> DEFINE N == Len(t)
           P(n) == SubSeq(t, 1, n)
           T == {n \in Nat : n <= N => Taken(t, n) = [next |-> n + 1, out |-> P(n)]}
<1>1. /\ N \in Nat /\ DOMAIN t = 1 .. N /\ P(0) = <<>> /\ P(N) = t
      /\ \A n \in 0 .. N : P(n) \in Seq(Nat)
      /\ \A n \in 0 .. N - 1 : P(n + 1) = Append(P(n), t[n + 1])
  BY PrefixesOf
<1> HIDE DEF P
<1>2. 0 \in T
  BY <1>1, TakenOf
<1>3. ASSUME NEW n \in T, n + 1 <= N
      PROVE  n + 1 \in T
  <2>1. /\ n \in Nat /\ n <= N /\ n \in 0 .. N /\ n \in 0 .. N - 1 /\ n + 1 \in 1 .. N
        /\ (n + 1) + 1 = n + 2
    BY <1>1, <1>3
  <2>2. Taken(t, n) = [next |-> n + 1, out |-> P(n)]
    BY <2>1
  <2>3. P(n) \in Seq(Nat) /\ P(n + 1) = Append(P(n), t[n + 1]) /\ Triplet(t, n + 1) = {}
    BY <1>1, <2>1
  <2>4. Taken(t, n + 1) = [next |-> n + 2, out |-> Append(P(n), t[n + 1])]
    BY <1>3, <2>1, <2>2, <2>3, TakenFurther
  <2>5. Taken(t, n + 1) = [next |-> (n + 1) + 1, out |-> P(n + 1)]
    BY <2>1, <2>3, <2>4
  <2>6. QED
    BY <2>1, <2>5
<1>4. T \in SUBSET Nat
  OBVIOUS
<1> HIDE DEF T, N
<1>5. N \in T
  <2>1. \A n \in 0 .. N : n \in T
    BY <1>1, <1>2, <1>3, <1>4, InductionUpTo
  <2>2. QED
    BY <1>1, <2>1
<1>6. Taken(t, N) = [next |-> N + 1, out |-> t]
  BY <1>1, <1>5 DEF T
<1>7. QED
  BY <1>6, DecodedIs DEF N

-----------------------------------------------------------------------------
(* Characters.                                                             *)

\* The number of a character of two bytes.
LEMMA TwoBytes ==
  ASSUME NEW b \in 194 .. 223, NEW f \in 128 .. 191
  PROVE  /\ (b - 192) * 64 + (f - 128) \in Nat
         /\ Character((b - 192) * 64 + (f - 128)) = <<b, f>>
<1> DEFINE n == (b - 192) * 64 + (f - 128)
<1>1. n \in Nat /\ ~(n < 128) /\ n \div 64 = b - 192 /\ n % 64 = f - 128
  OBVIOUS
<1>2. 192 + (b - 192) = b /\ 128 + (f - 128) = f
  OBVIOUS
<1> HIDE DEF n
<1>3. Character(n) = <<192 + n \div 64, 128 + (n % 64)>>
  BY <1>1 DEF Character
<1>4. Character(n) = <<b, f>>
  BY <1>1, <1>2, <1>3
<1>5. QED
  BY <1>1, <1>4 DEF n

\* What utf8_decode makes of a byte of a text.
NumberAt(s, i) ==
  CASE Lead(s[i]) -> <<(s[i] - 192) * 64 + (s[i + 1] - 128)>> [] Follows(s[i]) -> <<>>
    [] OTHER -> <<s[i]>>

\* The bytes that have been read when the number of the character with byte k is known.
ReadAt(s, k) == IF k > 0 /\ Lead(s[k]) THEN k + 1 ELSE k

LEMMA TextIs ==
  ASSUME NEW s \in Seq(Byte), IsUtf8(s)
  PROVE  /\ ReadAt(s, 0) = 0 /\ ReadAt(s, Len(s)) = Len(s)
         /\ \A k \in 0 .. Len(s) - 1 :
              \/ /\ NumberAt(s, k + 1) = <<>> /\ ReadAt(s, k + 1) = ReadAt(s, k)
              \/ /\ s[k + 1] \in Nat
                 /\ NumberAt(s, k + 1) = <<s[k + 1]>> /\ Character(s[k + 1]) = <<s[k + 1]>>
                 /\ ReadAt(s, k) = k /\ ReadAt(s, k + 1) = k + 1
              \/ \E n \in Nat :
                   /\ NumberAt(s, k + 1) = <<n>> /\ Character(n) = <<s[k + 1], s[k + 2]>>
                   /\ ReadAt(s, k) = k /\ ReadAt(s, k + 1) = k + 2 /\ k + 2 <= Len(s)
<1> DEFINE N == Len(s)
<1>1. N \in Nat /\ DOMAIN s = 1 .. N /\ \A i \in 1 .. N : s[i] \in 0 .. 255
  BY BytesAre
<1> HIDE DEF N
<1>2. ASSUME NEW i \in 1 .. N
      PROVE  /\ s[i] \notin {192, 193} \cup 224 .. 255
             /\ Lead(s[i]) => i < N /\ Follows(s[i + 1])
             /\ Follows(s[i]) => i > 1 /\ Lead(s[i - 1])
  <2>1. ~Malformed(s, i)
    BY <1>1 DEF IsUtf8
  <2>2. /\ s[i] \notin {192, 193} \cup 224 .. 255
        /\ Lead(s[i]) => i < Len(s) /\ Follows(s[i + 1])
        /\ Follows(s[i]) => i > 1 /\ Lead(s[i - 1])
    BY <2>1, Zenon DEF Malformed
  <2>3. QED
    BY <2>2 DEF N
<1>3. ReadAt(s, 0) = 0
  BY DEF ReadAt
<1>4. ReadAt(s, N) = N
  <2>1. N > 0 => ~Lead(s[N])
    BY <1>1, <1>2
  <2>2. QED
    BY <1>1, <2>1 DEF ReadAt
<1>5. ASSUME NEW k \in 0 .. N - 1
      PROVE  \/ /\ NumberAt(s, k + 1) = <<>> /\ ReadAt(s, k + 1) = ReadAt(s, k)
             \/ /\ s[k + 1] \in Nat
                /\ NumberAt(s, k + 1) = <<s[k + 1]>> /\ Character(s[k + 1]) = <<s[k + 1]>>
                /\ ReadAt(s, k) = k /\ ReadAt(s, k + 1) = k + 1
             \/ \E n \in Nat :
                  /\ NumberAt(s, k + 1) = <<n>> /\ Character(n) = <<s[k + 1], s[k + 2]>>
                  /\ ReadAt(s, k) = k /\ ReadAt(s, k + 1) = k + 2 /\ k + 2 <= N
  <2> DEFINE a == s[k + 1]
  <2>1. k \in Nat /\ k + 1 \in 1 .. N /\ k + 1 > 0 /\ (k + 1) - 1 = k /\ (k + 1) + 1 = k + 2
    BY <1>1
  <2>2. a \in 0 .. 255
    BY <1>1, <2>1
  <2>3. a \notin {192, 193} \cup 224 .. 255
    BY <1>2, <2>1
  <2>4. Follows(a) => k > 0 /\ Lead(s[k])
    <3>1. Follows(a) => k + 1 > 1 /\ Lead(s[(k + 1) - 1])
      BY <1>2, <2>1
    <3>2. QED
      BY <2>1, <3>1
  <2>5. k > 0 /\ Lead(s[k]) => Follows(a)
    <3>1. k > 0 => k \in 1 .. N
      BY <1>1
    <3>2. QED
      BY <1>2, <3>1
  <2>6. Lead(a) => k + 1 < N /\ Follows(s[k + 2])
    <3>1. Lead(a) => k + 1 < N /\ Follows(s[(k + 1) + 1])
      BY <1>2, <2>1
    <3>2. QED
      BY <2>1, <3>1
  <2>7. ~(Lead(a) /\ Follows(a))
    <3> HIDE DEF a
    <3>1. Lead(a) => a > 193
      BY DEF Lead
    <3>2. Follows(a) => a < 192
      BY DEF Follows
    <3>3. QED
      BY <2>2, <3>1, <3>2
  <2>8. ReadAt(s, k + 1) = IF Lead(a) THEN k + 2 ELSE k + 1
    BY <2>1 DEF ReadAt
  <2>9. NumberAt(s, k + 1) =
          CASE Lead(a) -> <<(a - 192) * 64 + (s[k + 2] - 128)>> [] Follows(a) -> <<>> [] OTHER -> <<a>>
    BY <2>1 DEF NumberAt
  <2>10. ReadAt(s, k) = IF Follows(a) THEN k + 1 ELSE k
    BY <2>4, <2>5 DEF ReadAt
  <2> HIDE DEF a
  <2>11. CASE Follows(a)
    <3>1. NumberAt(s, k + 1) = <<>> /\ ReadAt(s, k + 1) = ReadAt(s, k)
      BY <2>7, <2>8, <2>9, <2>10, <2>11
    <3>2. QED
      BY <3>1
  <2>12. CASE Lead(a)
    <3> DEFINE f == s[k + 2]
               n == (a - 192) * 64 + (f - 128)
    <3>1. a \in 194 .. 223 /\ f \in 128 .. 191
      BY <2>6, <2>12 DEF Lead, Follows
    <3>2. NumberAt(s, k + 1) = <<n>>
      BY <2>7, <2>9, <2>12
    <3>3. ReadAt(s, k) = k /\ ReadAt(s, k + 1) = k + 2
      BY <2>7, <2>8, <2>10, <2>12
    <3>4. k + 2 <= N
      BY <1>1, <2>6, <2>12
    <3> HIDE DEF f
    <3>5. n \in Nat /\ Character(n) = <<a, f>>
      BY <3>1, TwoBytes
    <3> HIDE DEF n
    <3>6. QED
      BY <3>2, <3>3, <3>4, <3>5 DEF a, f
  <2>13. CASE ~Lead(a) /\ ~Follows(a)
    <3>1. a < 128 /\ a \in Nat
      BY <2>2, <2>3, <2>13 DEF Lead, Follows
    <3>2. NumberAt(s, k + 1) = <<a>>
      BY <2>9, <2>13
    <3>3. ReadAt(s, k) = k /\ ReadAt(s, k + 1) = k + 1
      BY <2>8, <2>10, <2>13
    <3>4. Character(a) = <<a>>
      BY <3>1 DEF Character
    <3>5. QED
      BY <3>1, <3>2, <3>3, <3>4 DEF a
  <2>14. QED
    BY <2>11, <2>12, <2>13
<1>6. QED
  BY <1>3, <1>4, <1>5 DEF N

LEMMA NumbersAre ==
  ASSUME NEW s \in Seq(Byte), IsUtf8(s)
  PROVE  [i \in DOMAIN s |-> NumberAt(s, i)] \in Seq(Seq(Nat))
<1>1. /\ Len(s) \in Nat /\ DOMAIN s = 1 .. Len(s)
      /\ \A k \in 0 .. Len(s) - 1 : NumberAt(s, k + 1) \in Seq(Nat)
  <2>1. Len(s) \in Nat /\ DOMAIN s = 1 .. Len(s)
    BY BytesAre
  <2>2. ASSUME NEW k \in 0 .. Len(s) - 1
        PROVE  NumberAt(s, k + 1) \in Seq(Nat)
    <3>1. NumberAt(s, k + 1) = <<>> \/ \E n \in Nat : NumberAt(s, k + 1) = <<n>>
      BY TextIs
    <3>2. <<>> \in Seq(Nat) /\ \A n \in Nat : <<n>> \in Seq(Nat)
      BY EmptySeq
    <3>3. QED
      BY <3>1, <3>2
  <2>3. QED
    BY <2>1, <2>2
<1>2. ASSUME NEW i \in 1 .. Len(s)
      PROVE  NumberAt(s, i) \in Seq(Nat)
  <2>1. i - 1 \in 0 .. Len(s) - 1 /\ (i - 1) + 1 = i
    BY <1>1
  <2>2. NumberAt(s, (i - 1) + 1) \in Seq(Nat)
    BY <1>1, <2>1
  <2>3. QED
    BY <2>1, <2>2
<1>3. QED
  BY <1>1, <1>2

\* What the characters with these numbers are written as.
Letters == [n \in Nat |-> Character(n)]
SpeltOut(u) == Joined(Spelt(Letters, u))

LEMMA SpeltOutOf ==
  /\ SpeltOut(<<>>) = <<>>
  /\ \A u \in Seq(Nat) : SpeltOut(u) \in Seq(Nat) /\ u \o <<>> = u
  /\ \A u \in Seq(Nat), n \in Nat : SpeltOut(u \o <<n>>) = SpeltOut(u) \o Character(n)
<1> DEFINE code == Letters
<1>1. code \in [Nat -> Seq(Nat)] /\ \A n \in Nat : code[n] = Character(n)
  <2>1. ASSUME NEW n \in Nat
        PROVE  Character(n) \in Seq(Nat)
    <3>1. n \div 64 \in Nat /\ n % 64 \in Nat
      OBVIOUS
    <3>2. 192 + n \div 64 \in Nat /\ 128 + (n % 64) \in Nat
      BY <3>1
    <3>3. \A x, y \in Nat : <<x>> \in Seq(Nat) /\ <<x, y>> \in Seq(Nat)
      OBVIOUS
    <3>4. QED
      BY <3>2, <3>3 DEF Character
  <2>2. QED
    BY <2>1 DEF Letters
<1> HIDE DEF code
<1>2. /\ Spelt(code, <<>>) = <<>>
      /\ \A u \in Seq(Nat) : Spelt(code, u) \in Seq(Seq(Nat))
      /\ \A u \in Seq(Nat), c \in Nat : Spelt(code, Append(u, c)) = Append(Spelt(code, u), code[c])
  <2>1. code \in [Nat -> Seq(Nat)]
    BY <1>1
  <2>2. QED
    BY <2>1, SpeltOf
<1>3. \A u : SpeltOut(u) = Joined(Spelt(code, u))
  BY DEF SpeltOut, code
<1>4. SpeltOut(<<>>) = <<>>
  BY <1>2, <1>3, JoinedOf
<1>5. \A u \in Seq(Nat) : SpeltOut(u) \in Seq(Nat) /\ u \o <<>> = u
  BY <1>2, <1>3, JoinedOf, ConcatEmptySeq
<1>6. ASSUME NEW u \in Seq(Nat), NEW n \in Nat
      PROVE  SpeltOut(u \o <<n>>) = SpeltOut(u) \o Character(n)
  <2>1. u \o <<n>> = Append(u, n)
    OBVIOUS
  <2>2. Spelt(code, u) \in Seq(Seq(Nat)) /\ code[n] \in Seq(Nat) /\ code[n] = Character(n)
    BY <1>1, <1>2
  <2>3. Joined(Append(Spelt(code, u), code[n])) = Joined(Spelt(code, u)) \o code[n]
    BY <2>2, JoinedOf
  <2>4. SpeltOut(Append(u, n)) = Joined(Append(Spelt(code, u), code[n]))
    BY <1>2, <1>3
  <2>5. QED
    BY <1>3, <2>1, <2>2, <2>3, <2>4
<1>7. QED
  BY <1>4, <1>5, <1>6

\* Text comes back from the numbers of its characters.
LEMMA CharactersComeBack ==
  ASSUME NEW s \in Seq(Byte), NEW t \in Utf8Decode(s)
  PROVE  Joined([i \in DOMAIN t |-> Character(t[i])]) = s
<1>0. IsUtf8(s)
  BY DEF Utf8Decode
<1> DEFINE N == Len(s)
           P(k) == SubSeq(s, 1, k)
           parts == [i \in DOMAIN s |-> NumberAt(s, i)]
           D(k) == Joined(SubSeq(parts, 1, k))
           K == {k \in Nat : k <= N => D(k) \in Seq(Nat) /\ SpeltOut(D(k)) = P(ReadAt(s, k))}
<1>1. s \in Seq(Nat) /\ N \in Nat /\ DOMAIN s = 1 .. N
  BY BytesAre
<1>2. /\ P(0) = <<>> /\ P(N) = s
      /\ \A k \in 0 .. N : P(k) \in Seq(Nat)
      /\ \A k \in 0 .. N - 1 : s[k + 1] \in Nat /\ P(k + 1) = Append(P(k), s[k + 1])
  BY <1>1, PrefixesOf
<1>3. parts \in Seq(Seq(Nat)) /\ Len(parts) = N /\ \A k \in 0 .. N - 1 : parts[k + 1] = NumberAt(s, k + 1)
  <2>1. parts \in Seq(Seq(Nat))
    BY <1>0, NumbersAre
  <2>2. DOMAIN parts = 1 .. N
    BY <1>1
  <2>3. Len(parts) = N
    BY <1>1, <2>1, <2>2, LenProperties
  <2>4. \A k \in 0 .. N - 1 : k + 1 \in DOMAIN s
    BY <1>1
  <2>5. QED
    BY <2>1, <2>3, <2>4
<1>4. t = Joined(parts)
  BY <1>0 DEF Utf8Decode, NumberAt
<1> HIDE DEF P, parts
<1>5. /\ SubSeq(parts, 1, 0) = <<>> /\ SubSeq(parts, 1, N) = parts
      /\ \A k \in 0 .. N : SubSeq(parts, 1, k) \in Seq(Seq(Nat))
      /\ \A k \in 0 .. N - 1 :
           parts[k + 1] \in Seq(Nat) /\ SubSeq(parts, 1, k + 1) = Append(SubSeq(parts, 1, k), parts[k + 1])
  <2> DEFINE S == Seq(Nat)
  <2>1. parts \in Seq(S)
    BY <1>3
  <2> HIDE DEF S
  <2>2. /\ SubSeq(parts, 1, 0) = <<>> /\ SubSeq(parts, 1, Len(parts)) = parts
        /\ \A k \in 0 .. Len(parts) : SubSeq(parts, 1, k) \in Seq(S)
        /\ \A k \in 0 .. Len(parts) - 1 :
             parts[k + 1] \in S /\ SubSeq(parts, 1, k + 1) = Append(SubSeq(parts, 1, k), parts[k + 1])
    BY <2>1, PrefixesOf
  <2>3. QED
    BY <1>3, <2>2 DEF S
<1>6. /\ D(0) = <<>> /\ D(N) = t
      /\ \A k \in 0 .. N : D(k) \in Seq(Nat)
      /\ \A k \in 0 .. N - 1 : D(k + 1) = D(k) \o NumberAt(s, k + 1)
  <2>1. D(0) = <<>> /\ D(N) = t /\ \A k \in 0 .. N : D(k) \in Seq(Nat)
    BY <1>4, <1>5, JoinedOf
  <2>2. ASSUME NEW k \in 0 .. N - 1
        PROVE  D(k + 1) = D(k) \o NumberAt(s, k + 1)
    <3>1. k \in 0 .. N
      BY <1>1
    <3>2. SubSeq(parts, 1, k) \in Seq(Seq(Nat)) /\ parts[k + 1] \in Seq(Nat)
      BY <1>5, <3>1
    <3>3. Joined(Append(SubSeq(parts, 1, k), parts[k + 1])) = D(k) \o parts[k + 1]
      BY <3>2, JoinedOf
    <3>4. QED
      BY <1>3, <1>5, <3>3
  <2>3. QED
    BY <2>1, <2>2
<1> HIDE DEF D
<1>7. 0 \in K
  <2>1. ReadAt(s, 0) = 0
    BY <1>0, TextIs
  <2>2. SpeltOut(D(0)) = P(ReadAt(s, 0)) /\ D(0) \in Seq(Nat)
    BY <1>2, <1>6, <2>1, SpeltOutOf, EmptySeq
  <2>3. QED
    BY <2>2
<1>8. ASSUME NEW k \in K, k + 1 <= N
      PROVE  k + 1 \in K
  <2>1. k \in Nat /\ k <= N /\ k \in 0 .. N /\ k \in 0 .. N - 1 /\ k + 1 \in 0 .. N
    BY <1>1, <1>8
  <2>2. D(k) \in Seq(Nat) /\ SpeltOut(D(k)) = P(ReadAt(s, k))
    BY <2>1
  <2> DEFINE u == D(k)
             g == NumberAt(s, k + 1)
             a == s[k + 1]
             r == ReadAt(s, k)
             q == ReadAt(s, k + 1)
  <2>3. D(k + 1) = u \o g /\ D(k + 1) \in Seq(Nat)
    BY <1>6, <2>1
  <2>4. P(k) \in Seq(Nat) /\ a \in Nat /\ P(k + 1) = Append(P(k), a)
    BY <1>2, <2>1
  <2>5. \/ g = <<>> /\ q = r
        \/ g = <<a>> /\ Character(a) = <<a>> /\ r = k /\ q = k + 1
        \/ \E n \in Nat : g = <<n>> /\ Character(n) = <<a, s[k + 2]>> /\ r = k /\ q = k + 2 /\ k + 2 <= N
    BY <1>0, <2>1, TextIs
  <2>6. u \in Seq(Nat) /\ SpeltOut(u) = P(r)
    BY <2>2
  <2> HIDE DEF u, g, a, r, q, K
  <2>7. SpeltOut(u \o g) = P(q)
    <3>1. CASE g = <<>> /\ q = r
      BY <2>6, <3>1, SpeltOutOf
    <3>2. CASE g = <<a>> /\ Character(a) = <<a>> /\ r = k /\ q = k + 1
      <4>1. SpeltOut(u \o g) = P(k) \o <<a>>
        <5>1. SpeltOut(u \o <<a>>) = SpeltOut(u) \o Character(a)
          BY <2>4, <2>6, SpeltOutOf
        <5>2. SpeltOut(u) = P(k)
          BY <2>6, <3>2
        <5>3. QED
          BY <3>2, <5>1, <5>2
      <4>2. P(k) \o <<a>> = Append(P(k), a)
        BY <2>4
      <4>3. QED
        BY <2>4, <3>2, <4>1, <4>2
    <3>3. CASE \E n \in Nat : g = <<n>> /\ Character(n) = <<a, s[k + 2]>> /\ r = k /\ q = k + 2 /\ k + 2 <= N
      <4> DEFINE b == s[k + 2]
      <4>1. PICK n \in Nat : g = <<n>> /\ Character(n) = <<a, b>> /\ r = k /\ q = k + 2 /\ k + 2 <= N
        BY <3>3
      <4>2. k + 1 \in 0 .. N - 1 /\ (k + 1) + 1 = k + 2
        BY <1>1, <2>1, <4>1
      <4>3. b \in Nat /\ P(k + 2) = Append(P(k + 1), b)
        BY <1>2, <4>2
      <4> HIDE DEF b
      <4>4. SpeltOut(u \o g) = P(k) \o <<a, b>>
        <5>1. SpeltOut(u \o <<n>>) = SpeltOut(u) \o Character(n)
          BY <2>6, SpeltOutOf
        <5>2. SpeltOut(u) = P(k)
          BY <2>6, <4>1
        <5>3. QED
          BY <4>1, <5>1, <5>2
      <4>5. P(k) \o <<a, b>> = Append(Append(P(k), a), b)
        BY <2>4, <4>3
      <4>6. QED
        BY <2>4, <4>1, <4>3, <4>4, <4>5
    <3>4. QED
      BY <2>5, <3>1, <3>2, <3>3
  <2>8. D(k + 1) \in Seq(Nat) /\ SpeltOut(D(k + 1)) = P(ReadAt(s, k + 1))
    BY <2>3, <2>7 DEF q
  <2>9. QED
    BY <2>1, <2>8 DEF K
<1>9. K \in SUBSET Nat
  OBVIOUS
<1> HIDE DEF K, N
<1>10. N \in K
  <2>1. \A k \in 0 .. N : k \in K
    BY <1>1, <1>7, <1>8, <1>9, InductionUpTo
  <2>2. QED
    BY <1>1, <2>1
<1>11. ReadAt(s, N) = N
  BY <1>0, TextIs DEF N
<1>12. t \in Seq(Nat) /\ SpeltOut(t) = s
  BY <1>1, <1>2, <1>6, <1>10, <1>11 DEF K
<1>13. [i \in DOMAIN t |-> Character(t[i])] = Spelt(Letters, t)
  <2>1. \A i \in DOMAIN t : t[i] \in Nat
    BY <1>12, ElementOfSeq, LenProperties
  <2>2. \A i \in DOMAIN t : Letters[t[i]] = Character(t[i])
    BY <2>1 DEF Letters
  <2>3. QED
    BY <2>2 DEF Spelt
<1>14. QED
  BY <1>12, <1>13 DEF SpeltOut

-----------------------------------------------------------------------------
(* Base64.                                                                 *)

\* Three bytes as four groups of six bits.
SixA(a) == a \div 4
SixB(a, b) == (a % 4) * 16 + b \div 16
SixC(b, c) == (b % 16) * 4 + c \div 64
SixD(c) == c % 64

LEMMA ThreeBytes ==
  ASSUME NEW a \in Byte, NEW b \in Byte, NEW c \in Byte
  PROVE  /\ SixA(a) \in 0 .. 63 /\ SixB(a, b) \in 0 .. 63 /\ SixC(b, c) \in 0 .. 63 /\ SixD(c) \in 0 .. 63
         /\ SixA(a) * 4 + SixB(a, b) \div 16 = a
         /\ (SixB(a, b) % 16) * 16 + SixC(b, c) \div 4 = b
         /\ (SixC(b, c) % 4) * 64 + SixD(c) = c
         /\ b = 0 => SixB(a, b) % 16 = 0
         /\ c = 0 => SixC(b, c) % 4 = 0
<1> DEFINE a1 == a \div 4
           a2 == a % 4
           b1 == b \div 16
           b2 == b % 16
           c1 == c \div 64
           c2 == c % 64
<1>0. a \in 0 .. 255 /\ b \in 0 .. 255 /\ c \in 0 .. 255
  BY DEF Byte
<1>1. a1 \in 0 .. 63 /\ a2 \in 0 .. 3 /\ a = a1 * 4 + a2
  BY <1>0
<1>2. b1 \in 0 .. 15 /\ b2 \in 0 .. 15 /\ b = b1 * 16 + b2
  BY <1>0
<1>3. c1 \in 0 .. 3 /\ c2 \in 0 .. 63 /\ c = c1 * 64 + c2
  BY <1>0
<1>4. (b = 0 => b1 = 0) /\ (c = 0 => c1 = 0)
  BY <1>0
<1> HIDE DEF a1, a2, b1, b2, c1, c2
<1>5. (a2 * 16 + b1) \div 16 = a2 /\ (a2 * 16 + b1) % 16 = b1 /\ a2 * 16 + b1 \in 0 .. 63
  BY <1>1, <1>2
<1>6. (b2 * 4 + c1) \div 4 = b2 /\ (b2 * 4 + c1) % 4 = c1 /\ b2 * 4 + c1 \in 0 .. 63
  BY <1>2, <1>3
<1>7. a1 * 4 + a2 = a /\ b1 * 16 + b2 = b /\ c1 * 64 + c2 = c
  BY <1>1, <1>2, <1>3
<1>8. QED
  BY <1>1, <1>3, <1>4, <1>5, <1>6, <1>7 DEF SixA, SixB, SixC, SixD, a1, a2, b1, b2, c1, c2

Sextets(s) == [i \in 1 .. (4 * Len(s) + 2) \div 3 |-> Sextet(s, i)]

\* Of a string that is filled up with zeros.
ByteAt(s, k) == IF k <= Len(s) THEN s[k] ELSE 0

LEMMA SextetOf ==
  ASSUME NEW s \in Seq(Byte), NEW g \in Nat
  PROVE  /\ \A k \in Nat \ {0} : ByteAt(s, k) \in Byte
         /\ Sextet(s, 4*g + 1) = SixA(ByteAt(s, 3*g + 1))
         /\ Sextet(s, 4*g + 2) = SixB(ByteAt(s, 3*g + 1), ByteAt(s, 3*g + 2))
         /\ Sextet(s, 4*g + 3) = SixC(ByteAt(s, 3*g + 2), ByteAt(s, 3*g + 3))
         /\ Sextet(s, 4*g + 4) = SixD(ByteAt(s, 3*g + 3))
<1>1. \A k \in Nat \ {0} : ByteAt(s, k) \in Byte
  <2>1. Len(s) \in Nat /\ \A i \in 1 .. Len(s) : s[i] \in 0 .. 255
    BY BytesAre
  <2>2. QED
    BY <2>1 DEF ByteAt, Byte
<1> DEFINE first(i) == 3 * ((i - 1) \div 4) + 1
<1>2. \A i : Sextet(s, i) =
        CASE i % 4 = 1 -> ByteAt(s, first(i)) \div 4
          [] i % 4 = 2 -> (ByteAt(s, first(i)) % 4) * 16 + ByteAt(s, first(i) + 1) \div 16
          [] i % 4 = 3 -> (ByteAt(s, first(i) + 1) % 16) * 4 + ByteAt(s, first(i) + 2) \div 64
          [] i % 4 = 0 -> ByteAt(s, first(i) + 2) % 64
  BY DEF Sextet, ByteAt
<1>3. /\ (4*g + 1) % 4 = 1 /\ first(4*g + 1) = 3*g + 1
      /\ (4*g + 2) % 4 = 2 /\ first(4*g + 2) = 3*g + 1 /\ first(4*g + 2) + 1 = 3*g + 2
      /\ (4*g + 3) % 4 = 3 /\ first(4*g + 3) + 1 = 3*g + 2 /\ first(4*g + 3) + 2 = 3*g + 3
      /\ (4*g + 4) % 4 = 0 /\ first(4*g + 4) + 2 = 3*g + 3
  OBVIOUS
<1> HIDE DEF first
<1>4. Sextet(s, 4*g + 1) = SixA(ByteAt(s, 3*g + 1))
  BY <1>2, <1>3 DEF SixA
<1>5. Sextet(s, 4*g + 2) = SixB(ByteAt(s, 3*g + 1), ByteAt(s, 3*g + 2))
  BY <1>2, <1>3 DEF SixB
<1>6. Sextet(s, 4*g + 3) = SixC(ByteAt(s, 3*g + 2), ByteAt(s, 3*g + 3))
  BY <1>2, <1>3 DEF SixC
<1>7. Sextet(s, 4*g + 4) = SixD(ByteAt(s, 3*g + 3))
  BY <1>2, <1>3 DEF SixD
<1>8. QED
  BY <1>1, <1>4, <1>5, <1>6, <1>7

LEMMA SextetsAre ==
  ASSUME NEW s \in Seq(Byte)
  PROVE  LET N == Len(s)
             n == (4 * N + 2) \div 3
             q == Sextets(s)
         IN  /\ N \in Nat /\ n \in Nat /\ n % 4 # 1 /\ (3 * n) \div 4 = N
             /\ Len(q) = n /\ DOMAIN q = 1 .. n
             /\ \A i \in 1 .. n : q[i] = Sextet(s, i) /\ q[i] \in 0 .. 63
             /\ \A j \in 1 .. N : Octet(q, j) = s[j]
             /\ ZerosLeft(q)
<1> DEFINE N == Len(s)
           n == (4 * N + 2) \div 3
           q == Sextets(s)
           B(k) == ByteAt(s, k)
<1>1. N \in Nat /\ \A i \in 1 .. N : s[i] \in 0 .. 255
  BY BytesAre
<1>2. \A k : B(k) = IF k <= N THEN s[k] ELSE 0
  BY DEF ByteAt
<1>3. n \in Nat /\ q = [i \in 1 .. n |-> Sextet(s, i)]
  BY <1>1 DEF Sextets
<1>4. /\ \A k \in Nat \ {0} : B(k) \in Byte
      /\ \A g \in Nat :
           /\ Sextet(s, 4*g + 1) = SixA(B(3*g + 1))
           /\ Sextet(s, 4*g + 2) = SixB(B(3*g + 1), B(3*g + 2))
           /\ Sextet(s, 4*g + 3) = SixC(B(3*g + 2), B(3*g + 3))
           /\ Sextet(s, 4*g + 4) = SixD(B(3*g + 3))
  BY SextetOf
<1>5. n % 4 # 1 /\ (3 * n) \div 4 = N
  BY <1>1
<1> HIDE DEF N, B, q
<1>6. ASSUME NEW g \in Nat
      PROVE  /\ N = 3*g + 1 => n = 4*g + 2
             /\ N = 3*g + 2 => n = 4*g + 3
             /\ N = 3*g => n = 4*g
             /\ 3*g + 1 <= N => 4*g + 2 <= n
             /\ 3*g + 2 <= N => 4*g + 3 <= n
             /\ 3*g + 3 <= N => 4*g + 4 <= n
  <2>1. N = 3*g + 1 => n = 4*g + 2
    OBVIOUS
  <2>2. N = 3*g + 2 => n = 4*g + 3
    OBVIOUS
  <2>3. N = 3*g => n = 4*g
    OBVIOUS
  <2>4. 3*g + 1 <= N => 4*g + 2 <= n
    BY <1>1
  <2>5. 3*g + 2 <= N => 4*g + 3 <= n
    BY <1>1
  <2>6. 3*g + 3 <= N => 4*g + 4 <= n
    BY <1>1
  <2>7. QED
    BY <2>1, <2>2, <2>3, <2>4, <2>5, <2>6
<1> HIDE DEF n
<1>7. \A i \in 1 .. n : q[i] = Sextet(s, i)
  BY <1>3
<1>8. DOMAIN q = 1 .. n /\ Len(q) = n
  BY <1>3
<1>9. ASSUME NEW i \in 1 .. n
      PROVE  q[i] \in 0 .. 63
  <2>1. PICK g \in Nat : i = 4*g + 1 \/ i = 4*g + 2 \/ i = 4*g + 3 \/ i = 4*g + 4
    <3>1. (i - 1) \div 4 \in Nat
      BY <1>3
    <3>2. LET h == (i - 1) \div 4 IN i = 4*h + 1 \/ i = 4*h + 2 \/ i = 4*h + 3 \/ i = 4*h + 4
      BY <1>3
    <3>3. QED
      BY <3>1, <3>2
  <2> DEFINE a == B(3*g + 1)
             b == B(3*g + 2)
             c == B(3*g + 3)
  <2>2. a \in Byte /\ b \in Byte /\ c \in Byte
    <3>1. 3*g + 1 \in Nat \ {0} /\ 3*g + 2 \in Nat \ {0} /\ 3*g + 3 \in Nat \ {0}
      BY <2>1
    <3>2. QED
      BY <1>4, <3>1
  <2>3. /\ Sextet(s, 4*g + 1) = SixA(a)
        /\ Sextet(s, 4*g + 2) = SixB(a, b)
        /\ Sextet(s, 4*g + 3) = SixC(b, c)
        /\ Sextet(s, 4*g + 4) = SixD(c)
    BY <1>4, <2>1
  <2> HIDE DEF a, b, c
  <2>4. /\ SixA(a) \in 0 .. 63 /\ SixB(a, b) \in 0 .. 63
        /\ SixC(b, c) \in 0 .. 63 /\ SixD(c) \in 0 .. 63
    BY <2>2, ThreeBytes
  <2>5. Sextet(s, i) \in 0 .. 63
    BY <2>1, <2>3, <2>4
  <2>6. QED
    BY <1>7, <2>5
<1>10. ASSUME NEW j \in 1 .. N
       PROVE  Octet(q, j) = s[j]
  <2> DEFINE first == 4 * ((j - 1) \div 3) + 1
  <2>0. Octet(q, j) =
          CASE j % 3 = 1 -> q[first] * 4 + q[first + 1] \div 16
            [] j % 3 = 2 -> (q[first + 1] % 16) * 16 + q[first + 2] \div 4
            [] j % 3 = 0 -> (q[first + 2] % 4) * 64 + q[first + 3]
    BY DEF Octet
  <2>1. PICK g \in Nat : /\ first = 4*g + 1 /\ first + 1 = 4*g + 2 /\ first + 2 = 4*g + 3 /\ first + 3 = 4*g + 4
                         /\ \/ j = 3*g + 1 /\ j % 3 = 1
                            \/ j = 3*g + 2 /\ j % 3 = 2
                            \/ j = 3*g + 3 /\ j % 3 = 0
    <3> DEFINE g == (j - 1) \div 3
    <3>1. g \in Nat /\ (j = 3*g + 1 \/ j = 3*g + 2 \/ j = 3*g + 3) /\ first = 4*g + 1
      BY <1>1
    <3> HIDE DEF g, first
    <3>2. \A k \in Nat : (3*k + 1) % 3 = 1 /\ (3*k + 2) % 3 = 2 /\ (3*k + 3) % 3 = 0
      OBVIOUS
    <3>3. /\ first = 4*g + 1 /\ first + 1 = 4*g + 2 /\ first + 2 = 4*g + 3 /\ first + 3 = 4*g + 4
      BY <3>1
    <3>4. \/ j = 3*g + 1 /\ j % 3 = 1
          \/ j = 3*g + 2 /\ j % 3 = 2
          \/ j = 3*g + 3 /\ j % 3 = 0
      BY <3>1, <3>2
    <3>5. QED
      BY <3>1, <3>3, <3>4
  <2> HIDE DEF first
  <2> DEFINE a == B(3*g + 1)
             b == B(3*g + 2)
             c == B(3*g + 3)
  <2>2. a \in Byte /\ b \in Byte /\ c \in Byte
    <3>1. 3*g + 1 \in Nat \ {0} /\ 3*g + 2 \in Nat \ {0} /\ 3*g + 3 \in Nat \ {0}
      BY <2>1
    <3>2. QED
      BY <1>4, <3>1
  <2>3. /\ Sextet(s, 4*g + 1) = SixA(a)
        /\ Sextet(s, 4*g + 2) = SixB(a, b)
        /\ Sextet(s, 4*g + 3) = SixC(b, c)
        /\ Sextet(s, 4*g + 4) = SixD(c)
    BY <1>4, <2>1
  <2> HIDE DEF a, b, c
  <2>4. /\ SixA(a) * 4 + SixB(a, b) \div 16 = a
        /\ (SixB(a, b) % 16) * 16 + SixC(b, c) \div 4 = b
        /\ (SixC(b, c) % 4) * 64 + SixD(c) = c
    BY <2>2, ThreeBytes
  <2>5. CASE j = 3*g + 1 /\ j % 3 = 1
    <3>1. 4*g + 1 \in 1 .. n /\ 4*g + 2 \in 1 .. n /\ a = s[j]
      BY <1>1, <1>2, <1>3, <1>6, <2>1, <2>5 DEF a
    <3>2. q[4*g + 1] = SixA(a) /\ q[4*g + 2] = SixB(a, b)
      BY <1>7, <2>3, <3>1
    <3>3. Octet(q, j) = q[4*g + 1] * 4 + q[4*g + 2] \div 16
      BY <2>0, <2>1, <2>5
    <3>4. QED
      BY <2>4, <3>1, <3>2, <3>3
  <2>6. CASE j = 3*g + 2 /\ j % 3 = 2
    <3>1. 4*g + 2 \in 1 .. n /\ 4*g + 3 \in 1 .. n /\ b = s[j]
      BY <1>1, <1>2, <1>3, <1>6, <2>1, <2>6 DEF b
    <3>2. q[4*g + 2] = SixB(a, b) /\ q[4*g + 3] = SixC(b, c)
      BY <1>7, <2>3, <3>1
    <3>3. Octet(q, j) = (q[4*g + 2] % 16) * 16 + q[4*g + 3] \div 4
      BY <2>0, <2>1, <2>6
    <3>4. QED
      BY <2>4, <3>1, <3>2, <3>3
  <2>7. CASE j = 3*g + 3 /\ j % 3 = 0
    <3>1. 4*g + 3 \in 1 .. n /\ 4*g + 4 \in 1 .. n /\ c = s[j]
      BY <1>1, <1>2, <1>3, <1>6, <2>1, <2>7 DEF c
    <3>2. q[4*g + 3] = SixC(b, c) /\ q[4*g + 4] = SixD(c)
      BY <1>7, <2>3, <3>1
    <3>3. Octet(q, j) = (q[4*g + 3] % 4) * 64 + q[4*g + 4]
      BY <2>0, <2>1, <2>7
    <3>4. QED
      BY <2>4, <3>1, <3>2, <3>3
  <2>8. QED
    BY <2>1, <2>5, <2>6, <2>7
<1>11. ZerosLeft(q)
  <2>1. ZerosLeft(q) =
          CASE n % 4 = 2 -> q[n] % 16 = 0 [] n % 4 = 3 -> q[n] % 4 = 0 [] OTHER -> TRUE
    BY <1>8 DEF ZerosLeft
  <2>2. PICK g \in Nat : N = 3*g \/ N = 3*g + 1 \/ N = 3*g + 2
    <3> DEFINE h == N \div 3
    <3>1. h \in Nat /\ (N = 3*h \/ N = 3*h + 1 \/ N = 3*h + 2)
      BY <1>1
    <3> HIDE DEF h
    <3>2. QED
      BY <3>1
  <2> DEFINE a == B(3*g + 1)
             b == B(3*g + 2)
             c == B(3*g + 3)
  <2>3. a \in Byte /\ b \in Byte /\ c \in Byte
    BY <1>4, <2>2
  <2>4. /\ Sextet(s, 4*g + 2) = SixB(a, b)
        /\ Sextet(s, 4*g + 3) = SixC(b, c)
    BY <1>4, <2>2
  <2> HIDE DEF a, b, c
  <2>5. /\ b = 0 => SixB(a, b) % 16 = 0
        /\ c = 0 => SixC(b, c) % 4 = 0
    BY <2>3, ThreeBytes
  <2>6. CASE N = 3*g
    <3>1. n % 4 = 0
      BY <1>6, <2>2, <2>6
    <3>2. QED
      BY <2>1, <3>1
  <2>7. CASE N = 3*g + 1
    <3>1. n = 4*g + 2 /\ n % 4 = 2 /\ n \in 1 .. n
      BY <1>6, <2>2, <2>7
    <3>2. b = 0
      BY <1>2, <2>2, <2>7 DEF b
    <3>3. q[n] % 16 = 0
      BY <1>7, <2>4, <2>5, <3>1, <3>2
    <3>4. QED
      BY <2>1, <3>1, <3>3
  <2>8. CASE N = 3*g + 2
    <3>1. n = 4*g + 3 /\ n % 4 = 3 /\ n \in 1 .. n
      BY <1>6, <2>2, <2>8
    <3>2. c = 0
      BY <1>2, <2>2, <2>8 DEF c
    <3>3. q[n] % 4 = 0
      BY <1>7, <2>4, <2>5, <3>1, <3>2
    <3>4. QED
      BY <2>1, <3>1, <3>3
  <2>9. QED
    BY <2>2, <2>6, <2>7, <2>8
<1>12. QED
  BY <1>1, <1>3, <1>5, <1>7, <1>8, <1>9, <1>10, <1>11 DEF N, n, q

LEMMA SymbolIs ==
  /\ \A x \in 0 .. 63, u \in BOOLEAN : Symbol(x, u) \in Nat /\ Symbol(x, u) < Padding
  /\ \A x \in 0 .. 63 : Symbol(x, FALSE) = x
  /\ \A x \in 0 .. 63 : x >= 62 => Symbol(x, TRUE) = x + 2 /\ x + 2 >= 62 /\ (x + 2) - 2 = x /\ x + 2 \notin 0 .. 63
  /\ \A x \in 0 .. 63 : ~(x >= 62) => Symbol(x, TRUE) = x
<1>1. \A x \in 0 .. 63 : Symbol(x, FALSE) = x
  BY DEF Symbol
<1>2. \A x \in 0 .. 63 : x >= 62 => Symbol(x, TRUE) = x + 2 /\ x + 2 >= 62 /\ (x + 2) - 2 = x /\ x + 2 \notin 0 .. 63
  BY DEF Symbol
<1>3. \A x \in 0 .. 63 : ~(x >= 62) => Symbol(x, TRUE) = x
  BY DEF Symbol
<1>4. \A x \in 0 .. 63 : /\ x \in Nat /\ x < 66 /\ x + 2 \in Nat /\ x + 2 < 66
                           /\ (x >= 62 \/ ~(x >= 62))
  OBVIOUS
<1>5. ASSUME NEW x \in 0 .. 63, NEW u \in BOOLEAN
      PROVE  Symbol(x, u) \in Nat /\ Symbol(x, u) < Padding
  <2>1. Symbol(x, u) = x \/ Symbol(x, u) = x + 2
    <3>1. Symbol(x, TRUE) = x \/ Symbol(x, TRUE) = x + 2
      BY <1>2, <1>3
    <3>2. Symbol(x, FALSE) = x
      BY <1>1
    <3>3. u = TRUE \/ u = FALSE
      OBVIOUS
    <3>4. QED
      BY <3>1, <3>2, <3>3
  <2>2. QED
    BY <1>4, <2>1 DEF Padding
<1>6. QED
  BY <1>1, <1>2, <1>3, <1>5

LEMMA Base64Is ==
  ASSUME NEW s \in Seq(Byte), NEW url_safe \in BOOLEAN, NEW padded \in BOOLEAN
  PROVE  LET n == (4 * Len(s) + 2) \div 3
             text == Base64Encode(s, url_safe, padded)
             q == Sextets(s)
         IN  /\ Len(text) = n \/ Len(text) = 4 * ((n + 3) \div 4)
             /\ \A i \in 1 .. n : text[i] = Symbol(q[i], url_safe)
             /\ Cardinality({i \in DOMAIN text : text[i] # Padding}) = n
<1> DEFINE n == (4 * Len(s) + 2) \div 3
           text == Base64Encode(s, url_safe, padded)
           q == Sextets(s)
           m == IF padded THEN 4 * ((n + 3) \div 4) ELSE n
<1>1. n \in Nat /\ \A i \in 1 .. n : q[i] = Sextet(s, i) /\ q[i] \in 0 .. 63
  BY SextetsAre
<1>2. text = [i \in 1 .. m |-> IF i > n THEN Padding ELSE Symbol(Sextet(s, i), url_safe)]
  BY DEF Base64Encode
<1> HIDE DEF n, q, text
<1>3. m \in Nat /\ n <= m
  BY <1>1
<1>4. m = n \/ m = 4 * ((n + 3) \div 4)
  OBVIOUS
<1> HIDE DEF m
<1>5. DOMAIN text = 1 .. m /\ Len(text) = m
  BY <1>2, <1>3
<1>6. \A i \in 1 .. n : i \in 1 .. m /\ ~(i > n)
  BY <1>1, <1>3
<1>7. \A i \in 1 .. n : text[i] = Symbol(q[i], url_safe)
  BY <1>1, <1>2, <1>6
<1>8. {i \in DOMAIN text : text[i] # Padding} = 1 .. n
  <2>1. ASSUME NEW i \in 1 .. n
        PROVE  text[i] # Padding
    <3>1. Symbol(q[i], url_safe) \in Nat /\ Symbol(q[i], url_safe) < Padding
      BY <1>1, SymbolIs
    <3>2. QED
      BY <1>7, <3>1 DEF Padding
  <2>2. ASSUME NEW i \in 1 .. m, i \notin 1 .. n
        PROVE  text[i] = Padding
    <3>1. i > n
      BY <1>1, <1>3, <2>2
    <3>2. QED
      BY <1>2, <3>1
  <2>3. QED
    BY <1>5, <1>6, <2>1, <2>2
<1>9. Cardinality(1 .. n) = n
  <2>1. Cardinality(1 .. n) = IF 1 > n THEN 0 ELSE n - 1 + 1
    BY <1>1, FS_Interval
  <2>2. QED
    BY <1>1, <2>1
<1>10. QED
  BY <1>4, <1>5, <1>7, <1>8, <1>9 DEF n, text, q

\* The engine that encoded it decodes it.
LEMMA SameEngine ==
  ASSUME NEW s \in Seq(Byte), NEW url_safe \in BOOLEAN, NEW padded \in BOOLEAN
  PROVE  Decode(Base64Encode(s, url_safe, padded), url_safe) = {s}
<1> DEFINE N == Len(s)
           n == (4 * Len(s) + 2) \div 3
           text == Base64Encode(s, url_safe, padded)
           q == Sextets(s)
           p == [i \in 1 .. n |-> IF url_safe /\ text[i] >= 62 THEN text[i] - 2 ELSE text[i]]
           back == [j \in 1 .. (3 * n) \div 4 |-> Octet(q, j)]
<1>1. /\ N \in Nat /\ n \in Nat /\ n % 4 # 1 /\ (3 * n) \div 4 = N
      /\ Len(q) = n /\ DOMAIN q = 1 .. n
      /\ \A i \in 1 .. n : q[i] \in 0 .. 63
      /\ \A j \in 1 .. N : Octet(q, j) = s[j]
      /\ ZerosLeft(q)
  BY SextetsAre
<1>2. q = [i \in 1 .. n |-> q[i]]
  BY DEF Sextets
<1>3. /\ Len(text) = n \/ Len(text) = 4 * ((n + 3) \div 4)
      /\ \A i \in 1 .. n : text[i] = Symbol(q[i], url_safe)
      /\ Cardinality({i \in DOMAIN text : text[i] # Padding}) = n
  BY Base64Is
<1> HIDE DEF text, q, n, N
<1>4. p = q
  <2>1. ASSUME NEW i \in 1 .. n
        PROVE  p[i] = q[i]
    <3>1. q[i] \in 0 .. 63 /\ text[i] = Symbol(q[i], url_safe)
      BY <1>1, <1>3
    <3>2. p[i] = IF url_safe /\ text[i] >= 62 THEN text[i] - 2 ELSE text[i]
      OBVIOUS
    <3>3. CASE url_safe = FALSE
      BY <3>1, <3>2, <3>3, SymbolIs
    <3>4. CASE url_safe = TRUE
      <4> DEFINE x == q[i]
                 y == text[i]
      <4>1. x \in 0 .. 63 /\ y = Symbol(x, TRUE)
        BY <3>1, <3>4
      <4>2. p[i] = IF y >= 62 THEN y - 2 ELSE y
        BY <3>2, <3>4
      <4> HIDE DEF x, y, p
      <4>3. CASE x >= 62
        <5>1. y = x + 2 /\ x + 2 >= 62 /\ (x + 2) - 2 = x
          BY <4>1, <4>3, SymbolIs
        <5>2. QED
          BY <4>2, <5>1 DEF x
      <4>4. CASE ~(x >= 62)
        <5>1. y = x
          BY <4>1, <4>4, SymbolIs
        <5>2. QED
          BY <4>2, <4>4, <5>1 DEF x
      <4>5. QED
        BY <4>3, <4>4
    <3>5. QED
      BY <3>3, <3>4
  <2>2. p = [i \in 1 .. n |-> p[i]]
    OBVIOUS
  <2> HIDE DEF p
  <2>3. QED
    BY <1>2, <2>1, <2>2
<1>5. /\ \A i \in 1 .. n : p[i] \in 0 .. 63 /\ Symbol(p[i], url_safe) = text[i]
      /\ ZerosLeft(p)
  <2> HIDE DEF p
  <2>1. QED
    BY <1>1, <1>3, <1>4
<1>6. Decode(text, url_safe) = {[j \in 1 .. (3 * n) \div 4 |-> Octet(p, j)]}
  <2>1. Decode(text, url_safe) =
          IF /\ \A i \in 1 .. n : p[i] \in 0 .. 63 /\ Symbol(p[i], url_safe) = text[i]
             /\ n % 4 # 1
             /\ Len(text) = n \/ Len(text) = 4 * ((n + 3) \div 4)
             /\ ZerosLeft(p)
          THEN {[j \in 1 .. (3 * n) \div 4 |-> Octet(p, j)]}
          ELSE {}
    BY <1>3 DEF Decode
  <2> HIDE DEF p
  <2>2. QED
    BY <1>1, <1>3, <1>5, <2>1
<1> HIDE DEF p
<1>7. back = s
  <2>1. s = [j \in 1 .. N |-> s[j]]
    BY BytesAre DEF N
  <2>2. QED
    BY <1>1, <2>1
<1>8. Decode(text, url_safe) = {back}
  BY <1>4, <1>6
<1>9. QED
  BY <1>7, <1>8 DEF text

\* A string comes back from base64 of either alphabet, though the alphabet is found out.
LEMMA Base64ComesBack ==
  ASSUME NEW s \in Seq(Byte), NEW url_safe \in BOOLEAN, NEW padded \in BOOLEAN
  PROVE  Base64Decode(Base64Encode(s, url_safe, padded)) = {s}
<1> DEFINE text == Base64Encode(s, url_safe, padded)
<1>1. Decode(text, url_safe) = {s}
  BY SameEngine
<1>2. CASE ~url_safe
  <2>1. Decode(text, FALSE) = {s}
    BY <1>1, <1>2
  <2>2. QED
    BY <2>1 DEF Base64Decode
<1>3. CASE url_safe /\ Decode(text, FALSE) = {}
  <2>1. Decode(text, TRUE) = {s}
    BY <1>1, <1>3
  <2>2. QED
    BY <1>3, <2>1 DEF Base64Decode
<1>4. CASE url_safe /\ Decode(text, FALSE) # {}
  <2> DEFINE n == (4 * Len(s) + 2) \div 3
             q == Sextets(s)
             plain == Base64Encode(s, FALSE, padded)
             p == [i \in 1 .. n |-> text[i]]
  <2>1. \A i \in 1 .. n : text[i] = Symbol(q[i], url_safe)
    BY Base64Is
  <2>2. Cardinality({i \in DOMAIN text : text[i] # Padding}) = n
    BY Base64Is
  <2>3. \A i \in 1 .. n : q[i] \in 0 .. 63 /\ q[i] = Sextet(s, i)
    BY SextetsAre
  <2>4. \A i \in 1 .. n : text[i] \in 0 .. 63
    <3>1. \A i \in 1 .. n :
            [j \in 1 .. n |-> IF FALSE /\ text[j] >= 62 THEN text[j] - 2 ELSE text[j]][i] \in 0 .. 63
      BY <1>4, <2>2 DEF Decode
    <3>2. QED
      BY <3>1
  <2>5. \A i \in 1 .. n : Symbol(Sextet(s, i), url_safe) = Symbol(Sextet(s, i), FALSE)
    <3> SUFFICES ASSUME NEW i \in 1 .. n
                 PROVE  Symbol(q[i], url_safe) = Symbol(q[i], FALSE)
      BY <2>3
    <3> DEFINE x == q[i]
    <3>1. x \in 0 .. 63 /\ Symbol(x, url_safe) \in 0 .. 63 /\ url_safe = TRUE
      BY <1>4, <2>1, <2>3, <2>4
    <3> HIDE DEF x
    <3>2. ~(x >= 62)
      BY <3>1, SymbolIs
    <3>3. Symbol(x, url_safe) = Symbol(x, FALSE)
      BY <3>1, <3>2, SymbolIs
    <3>4. QED
      BY <3>3 DEF x
  <2>6. text = plain
    <3> DEFINE m == IF padded THEN 4 * ((n + 3) \div 4) ELSE n
               x(i) == IF i > n THEN Padding ELSE Symbol(Sextet(s, i), url_safe)
               y(i) == IF i > n THEN Padding ELSE Symbol(Sextet(s, i), FALSE)
    <3>1. text = [i \in 1 .. m |-> x(i)] /\ plain = [i \in 1 .. m |-> y(i)]
      BY DEF Base64Encode
    <3>2. n \in Nat /\ m \in Nat
      <4>1. Len(s) \in Nat
        BY BytesAre
      <4>2. QED
        BY <4>1
    <3>3. \A i \in 1 .. m : i > n \/ i \in 1 .. n
      BY <3>2
    <3>4. \A i \in 1 .. m : x(i) = y(i)
      BY <2>5, <3>3
    <3> HIDE DEF x, y, m
    <3>5. QED
      BY <3>1, <3>4
  <2>7. Decode(plain, FALSE) = {s}
    BY SameEngine
  <2>8. QED
    BY <2>6, <2>7 DEF Base64Decode
<1>5. QED
  BY <1>2, <1>3, <1>4

-----------------------------------------------------------------------------
(* URLs.                                                                   *)

UrlOf(scheme, host, port, path, query, fragment, username, password) ==
  [scheme |-> scheme, host |-> host, port |-> port, path |-> path, query |-> query,
   fragment |-> fragment, username |-> username, password |-> password]

LEMMA UrlParts ==
  ASSUME NEW A, NEW B, NEW C, NEW D, NEW Q, NEW F, NEW H, NEW P,
         NEW u \in [scheme : A, host : B, port : C, path : D, query : Q, fragment : F, username : H, password : P]
  PROVE  /\ u = UrlOf(u.scheme, u.host, u.port, u.path, u.query, u.fragment, u.username, u.password)
         /\ u.scheme \in A /\ u.port \in C
BY DEF UrlOf

QueryPut(u, x) == [u EXCEPT !.query = x]
FragmentPut(u, x) == [u EXCEPT !.fragment = x]
UsernamePut(u, x) == [u EXCEPT !.username = x]

LEMMA UrlChanged ==
  /\ \A a, b, c, d, q, f, h, p :
       LET u == UrlOf(a, b, c, d, q, f, h, p)
       IN  u.scheme = a /\ u.host = b /\ u.port = c /\ u.query = q /\ u.fragment = f /\ u.username = h
  /\ \A a, b, c, d, q, f, h, p, x : QueryPut(UrlOf(a, b, c, d, q, f, h, p), x) = UrlOf(a, b, c, d, x, f, h, p)
  /\ \A a, b, c, d, q, f, h, p, x : FragmentPut(UrlOf(a, b, c, d, q, f, h, p), x) = UrlOf(a, b, c, d, q, x, h, p)
  /\ \A a, b, c, d, q, f, h, p, x : UsernamePut(UrlOf(a, b, c, d, q, f, h, p), x) = UrlOf(a, b, c, d, q, f, x, p)
<1>1. ASSUME NEW a, NEW b, NEW c, NEW d, NEW q, NEW f, NEW h, NEW p, NEW x
      PROVE  LET u == UrlOf(a, b, c, d, q, f, h, p)
             IN  /\ u.scheme = a /\ u.host = b /\ u.port = c /\ u.query = q /\ u.fragment = f /\ u.username = h
                 /\ QueryPut(u, x) = UrlOf(a, b, c, d, x, f, h, p)
                 /\ FragmentPut(u, x) = UrlOf(a, b, c, d, q, x, h, p)
                 /\ UsernamePut(u, x) = UrlOf(a, b, c, d, q, f, x, p)
  <2> DEFINE u == UrlOf(a, b, c, d, q, f, h, p)
  <2>1. /\ u.scheme = a /\ u.host = b /\ u.port = c /\ u.query = q /\ u.fragment = f /\ u.username = h
    BY DEF UrlOf
  <2>2. QueryPut(u, x) = UrlOf(a, b, c, d, x, f, h, p)
    BY DEF UrlOf, QueryPut
  <2>3. FragmentPut(u, x) = UrlOf(a, b, c, d, q, x, h, p)
    BY DEF UrlOf, FragmentPut
  <2>4. UsernamePut(u, x) = UrlOf(a, b, c, d, q, f, x, p)
    BY DEF UrlOf, UsernamePut
  <2>5. QED
    BY <2>1, <2>2, <2>3, <2>4
<1>2. QED
  BY <1>1

LEMMA PresentIs ==
  /\ \A S : Present(S) = S <=> "" \notin S
  /\ \A x : (IF Present({x}) = {} THEN "" ELSE CHOOSE y \in Present({x}) : TRUE) = x
<1>1. \A S : Present(S) = S <=> "" \notin S
  BY DEF Present
<1>3. ASSUME NEW x
      PROVE  (IF Present({x}) = {} THEN "" ELSE CHOOSE y \in Present({x}) : TRUE) = x
  <2> DEFINE S == Present({x})
  <2>1. CASE x = ""
    <3>1. S = {}
      BY <2>1 DEF Present
    <3>2. QED
      BY <2>1, <3>1
  <2>2. CASE x # ""
    <3>1. S = {x}
      BY <2>2 DEF Present
    <3>2. S # {} /\ (CHOOSE y \in S : TRUE) = x
      BY <3>1
    <3>3. QED
      BY <3>2
  <2>3. QED
    BY <2>1, <2>2
<1>4. QED
  BY <1>1, <1>3

\* A URL comes back from url.parse and url.format if it has a host and nothing empty.
LEMMA UrlBack ==
  ASSUME NEW u \in Url
  PROVE  UrlComesBack(u)
<1> DEFINE t == ParseUrl(u)
           name == IF t.username = {} THEN "" ELSE CHOOSE name \in t.username : TRUE
           v == [t EXCEPT !.query = Present(t.query), !.fragment = Present(t.fragment), !.username = name]
           R == [scheme : STRING \ {""}, host : SUBSET STRING, port : SUBSET Port, path : STRING,
                 query : SUBSET STRING, fragment : SUBSET STRING, username : STRING, password : SUBSET STRING]
<1>1. u \in R /\ (u.scheme = "file" => u.port = {})
  <2>1. u \in {x \in R : x.scheme = "file" => x.port = {}}
    BY DEF Url
  <2> HIDE DEF R
  <2>2. QED
    BY <2>1
<1>2. /\ u = UrlOf(u.scheme, u.host, u.port, u.path, u.query, u.fragment, u.username, u.password)
      /\ u.scheme \in STRING \ {""} /\ u.port \in SUBSET Port
  <2> DEFINE A == STRING \ {""}
             B == SUBSET STRING
             C == SUBSET Port
             D == STRING
  <2>1. u \in [scheme : A, host : B, port : C, path : D, query : B, fragment : B, username : D, password : B]
    BY <1>1
  <2> HIDE DEF A, B, C, D
  <2>2. /\ u = UrlOf(u.scheme, u.host, u.port, u.path, u.query, u.fragment, u.username, u.password)
        /\ u.scheme \in A /\ u.port \in C
    BY <2>1, UrlParts
  <2>3. QED
    BY <2>2 DEF A, C
<1> DEFINE a == u.scheme
           b == u.host
           c == u.port
           d == u.path
           q == u.query
           f == u.fragment
           h == u.username
           p == u.password
<1>3. u = UrlOf(a, b, c, d, q, f, h, p) /\ a # "" /\ c \subseteq Port /\ (a = "file" => c = {})
  BY <1>1, <1>2
<1>4. t = UsernamePut(u, Present({h}))
  BY DEF ParseUrl, UsernamePut
<1>5. UrlComesBack(u) <=> (FormatUrl(t) = {u} <=> Present(b) # {} /\ "" \notin q \cup f)
  BY DEF UrlComesBack
<1>6. FormatUrl(t) =
        IF t.scheme = "" \/ Present(t.host) = {} \/ (t.port # {} /\ t.scheme = "file")
           \/ ~ t.port \subseteq Port
        THEN {} ELSE {v}
  BY DEF FormatUrl
<1> HIDE DEF a, b, c, d, q, f, h, p, t
<1>7. t = UrlOf(a, b, c, d, q, f, Present({h}), p)
  <2>1. UsernamePut(UrlOf(a, b, c, d, q, f, h, p), Present({h})) = UrlOf(a, b, c, d, q, f, Present({h}), p)
    BY UrlChanged
  <2>2. QED
    BY <1>3, <1>4, <2>1
<1>8. t.scheme = a /\ t.host = b /\ t.port = c /\ t.query = q /\ t.fragment = f /\ t.username = Present({h})
  BY <1>7, UrlChanged
<1>9. name = h
  <2>1. (IF Present({h}) = {} THEN "" ELSE CHOOSE y \in Present({h}) : TRUE) = h
    BY PresentIs
  <2>2. QED
    BY <1>8, <2>1
<1> HIDE DEF name
<1>10. v = UsernamePut(FragmentPut(QueryPut(t, Present(q)), Present(f)), h)
  BY <1>8, <1>9 DEF UsernamePut, FragmentPut, QueryPut
<1> HIDE DEF v
<1>11. v = UrlOf(a, b, c, d, Present(q), Present(f), h, p)
  BY <1>7, <1>10, UrlChanged
<1>12. v = u <=> Present(q) = q /\ Present(f) = f
  <2>1. u.query = q /\ u.fragment = f /\ v.query = Present(q) /\ v.fragment = Present(f)
    <3> DEFINE x == UrlOf(a, b, c, d, q, f, h, p)
               y == UrlOf(a, b, c, d, Present(q), Present(f), h, p)
    <3>1. x.query = q /\ x.fragment = f
      BY UrlChanged
    <3>2. y.query = Present(q) /\ y.fragment = Present(f)
      BY UrlChanged
    <3> HIDE DEF x, y
    <3>3. u = x /\ v = y
      BY <1>3, <1>11 DEF x, y
    <3>4. QED
      BY <3>1, <3>2, <3>3
  <2>2. QED
    BY <1>3, <1>11, <2>1
<1>13. FormatUrl(t) = IF Present(b) = {} THEN {} ELSE {v}
  BY <1>3, <1>6, <1>8
<1>14. FormatUrl(t) = {u} <=> Present(b) # {} /\ v = u
  BY <1>13
<1>15. "" \notin q \cup f <=> Present(q) = q /\ Present(f) = f
  <2>1. Present(q) = q <=> "" \notin q
    BY PresentIs
  <2>2. Present(f) = f <=> "" \notin f
    BY PresentIs
  <2>3. QED
    BY <2>1, <2>2
<1>16. QED
  BY <1>5, <1>12, <1>14, <1>15

-----------------------------------------------------------------------------
(* Times.                                                                  *)

LEMMA DivisionIs ==
  ASSUME NEW x \in Nat, NEW y \in Nat \ {0}
  PROVE  x \div y \in Nat /\ (x \div y) * y <= x /\ x < (x \div y) * y + y
<1>1. x \div y \in Int
  OBVIOUS
<1>2. (x \div y) * y <= x
  OBVIOUS
<1>3. x < (x \div y) * y + y
  OBVIOUS
<1>4. x \div y >= 0
  OBVIOUS
<1>5. QED
  BY <1>1, <1>2, <1>3, <1>4

LEMMA Products ==
  /\ \A x, y \in Int : x * y \in Int /\ x * y = y * x /\ (-x) * y = -(x * y)
  /\ \A x, y, z \in Int : (x + y) * z = x * z + y * z /\ (x * y) * z = x * (y * z)
  /\ \A x, y, z \in Nat : x <= y => x * z <= y * z
<1>1. \A x, y \in Int : x * y \in Int /\ x * y = y * x /\ (-x) * y = -(x * y)
  OBVIOUS
<1>2. \A x, y, z \in Int : (x + y) * z = x * z + y * z /\ (x * y) * z = x * (y * z)
  OBVIOUS
<1>3. ASSUME NEW x \in Nat, NEW y \in Nat, NEW z \in Nat, x <= y
      PROVE  x * z <= y * z
  <2>1. y - x \in Nat /\ (y - x) * z >= 0
    BY <1>3
  <2>2. (y - x) * z = y * z - x * z
    OBVIOUS
  <2>3. x * z \in Int /\ y * z \in Int
    OBVIOUS
  <2> DEFINE d == (y - x) * z
             p == x * z
             q == y * z
  <2> HIDE DEF d, p, q
  <2>4. d >= 0 /\ d = q - p /\ p \in Int /\ q \in Int
    BY <2>1, <2>2, <2>3 DEF d, p, q
  <2>5. p <= q
    BY <2>4
  <2>6. QED
    BY <2>5 DEF p, q
<1>4. QED
  BY <1>1, <1>2, <1>3

\* The nearest nanosecond of r parts is at most half of one away.
LEMMA NearestIs ==
  ASSUME NEW K \in Nat \ {0}, NEW F \in Nat \ {0}, NEW r \in Nat, r < K * F
  PROVE  LET n == (2 * r + F) \div (2 * F)
         IN  /\ n \in 0 .. K /\ n * F \in Nat
             /\ 2 * (n * F - r) \in -F .. F /\ 2 * (r - n * F) \in -F .. F
             /\ r = 0 => n = 0
<1> DEFINE x == 2 * r + F
           y == 2 * F
           n == x \div y
           p == n * F
           M == K * F
<1>1. x \in Nat /\ y \in Nat \ {0}
  OBVIOUS
<1>2. x = 2 * r + F /\ y = 2 * F
  OBVIOUS
<1> HIDE DEF x, y
<1>3. n \in Nat /\ n * y <= x /\ x < n * y + y
  BY <1>1, DivisionIs
<1> HIDE DEF n
<1>4. n * y = 2 * p /\ p \in Nat
  <2>1. n * y = (n * 2) * F /\ (n * 2) * F = (2 * n) * F /\ (2 * n) * F = 2 * (n * F)
    BY <1>2, <1>3, Products
  <2>2. n * F \in Nat
    BY <1>3
  <2>3. QED
    BY <2>1, <2>2
<1>5. M \in Nat /\ r < M
  OBVIOUS
<1>6. n >= K + 1 => M + F <= p
  <2>1. (K + 1) * F = M + F
    <3>1. (K + 1) * F = K * F + 1 * F /\ 1 * F = F
      BY Products
    <3>2. QED
      BY <3>1
  <2>2. n >= K + 1 => (K + 1) * F <= n * F
    BY <1>3, Products
  <2>3. QED
    BY <2>1, <2>2
<1>7. n < 1 \/ F <= p
  <2>1. n >= 1 => 1 * F <= n * F
    BY <1>3, Products
  <2>2. 1 * F = F
    OBVIOUS
  <2>3. QED
    BY <1>3, <2>1, <2>2
<1> HIDE DEF p, M
<1>8. 2 * p <= 2 * r + F /\ 2 * r + F < 2 * p + 2 * F
  BY <1>1, <1>2, <1>3, <1>4
<1>9. n \in 0 .. K
  BY <1>3, <1>4, <1>5, <1>6, <1>8
<1>10. 2 * (p - r) \in -F .. F /\ 2 * (r - p) \in -F .. F
  BY <1>4, <1>8
<1>11. r = 0 => n = 0
  BY <1>3, <1>4, <1>7, <1>8
<1>12. QED
  BY <1>4, <1>9, <1>10, <1>11 DEF n, p, x, y

\* A time is formatted to the nanosecond next to it.
LEMMA TimeBack ==
  ASSUME NEW e \in Int
  PROVE  TimeComesBack(e)
<1> DEFINE K == Nanos
           F == Fractions
           M == K * F
           d == SplitSecsNanos(e)
<1>1. K \in Nat \ {0} /\ F \in Nat \ {0}
  BY EncodingsAssumption
<1>2. M \in Nat \ {0}
  BY <1>1
<1>3. /\ d.nanos \in 0 .. K - 1 /\ d.secs \in Int
      /\ \E p \in Nat, r \in Nat :
           /\ 2 * (p - r) \in -F .. F /\ 2 * (r - p) \in -F .. F
           /\ (d.secs * K + d.nanos) * F - e = p - r \/ (d.secs * K + d.nanos) * F - e = r - p
  <2> DEFINE a == IF e < 0 THEN -e ELSE e
             w == a \div M
             r == a - w * M
             n == (2 * r + F) \div (2 * F)
             p == n * F
             whole == Truncated(e, K * F)
             rest == e - whole * K * F
             nanos == Rounded(rest, F)
             borrowed == IF nanos < 0 THEN [secs |-> whole - 1, nanos |-> nanos + K]
                         ELSE [secs |-> whole, nanos |-> nanos]
  <2>1. a \in Nat /\ (e < 0 => e = -a) /\ (~(e < 0) => e = a)
    OBVIOUS
  <2>2. d = IF borrowed.nanos >= K
            THEN [secs |-> borrowed.secs + 1, nanos |-> borrowed.nanos - K] ELSE borrowed
    BY DEF SplitSecsNanos
  <2> HIDE DEF d, K, F
  <2>3. w \in Nat /\ w * M <= a /\ a < w * M + M
    <3> HIDE DEF a, M
    <3>1. QED
      BY <1>2, <2>1, DivisionIs
  <2>4. r \in Nat /\ r < M /\ w * M \in Nat /\ a = w * M + r
    <3> HIDE DEF a, M, w
    <3> DEFINE u == w * M
    <3>1. u \in Int
      BY <1>2, <2>3
    <3> HIDE DEF u
    <3>2. a - u \in Nat /\ a - u < M /\ a = u + (a - u) /\ u \in Nat
      <4>1. u <= a /\ a < u + M
        BY <2>3 DEF u
      <4>2. u >= 0
        BY <1>2, <2>3 DEF u
      <4>3. QED
        BY <1>2, <2>1, <3>1, <4>1, <4>2
    <3>3. QED
      BY <3>2 DEF u
  <2>5. /\ n \in 0 .. K /\ p \in Nat /\ (r = 0 => n = 0)
        /\ 2 * (p - r) \in -F .. F /\ 2 * (r - p) \in -F .. F
    <3> HIDE DEF a, w, r
    <3>1. QED
      BY <1>1, <2>4, NearestIs
  <2>6. (w * K) * F = w * M
    <3> HIDE DEF w
    <3>1. QED
      BY <1>1, <2>3, Products
  <2>7. CASE ~(e < 0)
    <3>1. whole = w
      BY <2>7 DEF Truncated
    <3>2. rest = r
      <4>1. rest = e - (whole * K) * F
        OBVIOUS
      <4> HIDE DEF whole, w, rest, a
      <4>2. QED
        BY <2>1, <2>6, <2>7, <3>1, <4>1
    <3>3. nanos = n
      <4>1. ~(r < 0)
        BY <2>4
      <4> HIDE DEF rest, r
      <4>2. QED
        BY <3>2, <4>1 DEF Rounded
    <3> HIDE DEF whole, nanos, w, r, n, p, rest, a, M
    <3>4. borrowed = [secs |-> w, nanos |-> n]
      BY <2>5, <3>1, <3>3
    <3>5. CASE n = K
      <4>1. d = [secs |-> w + 1, nanos |-> 0]
        BY <1>1, <2>2, <3>4, <3>5
      <4>2. ((w + 1) * K + 0) * F = w * M + p
        <5>1. (w + 1) * K + 0 = w * K + K
          BY <1>1, <2>3
        <5>2. (w * K + K) * F = (w * K) * F + K * F
          BY <1>1, <2>3, Products
        <5>3. QED
          BY <2>6, <3>5, <5>1, <5>2 DEF p
      <4>3. (d.secs * K + d.nanos) * F - e = p - r
        <5>1. (d.secs * K + d.nanos) * F = w * M + p
          BY <4>1, <4>2
        <5>2. e = w * M + r
          BY <2>1, <2>4, <2>7
        <5>3. QED
          BY <2>4, <2>5, <5>1, <5>2
      <4>4. d.nanos \in 0 .. K - 1 /\ d.secs \in Int
        BY <1>1, <2>3, <4>1
      <4>5. QED
        BY <2>4, <2>5, <4>3, <4>4
    <3>6. CASE n # K
      <4>1. d = [secs |-> w, nanos |-> n]
        BY <1>1, <2>2, <2>5, <3>4, <3>6
      <4>2. (w * K + n) * F = w * M + p
        <5>1. (w * K + n) * F = (w * K) * F + n * F
          BY <1>1, <2>3, <2>5, Products
        <5>2. QED
          BY <2>6, <5>1 DEF p
      <4>3. (d.secs * K + d.nanos) * F - e = p - r
        <5>1. (d.secs * K + d.nanos) * F = w * M + p
          BY <4>1, <4>2
        <5>2. e = w * M + r
          BY <2>1, <2>4, <2>7
        <5>3. QED
          BY <2>4, <2>5, <5>1, <5>2
      <4>4. d.nanos \in 0 .. K - 1 /\ d.secs \in Int
        BY <1>1, <2>3, <2>5, <3>6, <4>1
      <4>5. QED
        BY <2>4, <2>5, <4>3, <4>4
    <3>7. QED
      BY <3>5, <3>6
  <2>8. CASE e < 0
    <3>1. whole = -w
      BY <2>8 DEF Truncated
    <3>2. rest = -r
      <4>1. rest = e - (whole * K) * F
        OBVIOUS
      <4>2. ((-w) * K) * F = -((w * K) * F)
        <5> HIDE DEF w
        <5>1. (-w) * K = -(w * K) /\ w * K \in Int
          BY <1>1, <2>3, Products
        <5>2. (-(w * K)) * F = -((w * K) * F)
          BY <1>1, <5>1, Products
        <5>3. QED
          BY <5>1, <5>2
      <4>3. a = w * M + r /\ w * M \in Nat /\ r \in Nat
        BY <2>4
      <4> HIDE DEF whole, w, rest, a, r
      <4>4. QED
        BY <2>1, <2>6, <2>8, <3>1, <4>1, <4>2, <4>3
    <3>3. nanos = -n
      <4>1. r \in Nat
        BY <2>4
      <4>2. r = 0 => n = 0
        BY <2>5
      <4>3. nanos = IF rest < 0 THEN -((2 * (-rest) + F) \div (2 * F)) ELSE (2 * rest + F) \div (2 * F)
        BY DEF Rounded
      <4> HIDE DEF rest, r, nanos
      <4>4. CASE r = 0
        <5>0. \A k \in Int : -k = 0 - k
          OBVIOUS
        <5>1. rest = 0
          <6>1. rest = 0 - r
            BY <3>2, <4>1, <5>0
          <6>2. QED
            BY <4>4, <6>1
        <5>2. nanos = (2 * rest + F) \div (2 * F) /\ 2 * rest = 2 * r
          BY <4>3, <4>4, <5>1
        <5>3. nanos = n /\ n = 0
          BY <4>2, <4>4, <5>2
        <5> HIDE DEF n
        <5>4. -n = 0
          <6>1. n \in Int
            BY <5>3
          <6>2. -n = 0 - n
            BY <5>0, <6>1
          <6>3. QED
            BY <5>3, <6>2
        <5>5. QED
          BY <5>3, <5>4
      <4>5. CASE r # 0
        <5>1. rest < 0 /\ -rest = r
          BY <3>2, <4>1, <4>5
        <5>2. QED
          BY <4>3, <5>1
      <4>6. QED
        BY <4>4, <4>5
    <3> HIDE DEF whole, nanos, w, r, n, p, rest, a, M
    <3>4. e = -(w * M) - r
      BY <2>1, <2>4, <2>8
    <3>5. (-w) * K = -(w * K) /\ w * K \in Int /\ (-(w * K)) * F = -((w * K) * F)
      BY <1>1, <2>3, Products
    <3>6. CASE n = 0
      <4>1. borrowed = [secs |-> -w, nanos |-> 0]
        BY <3>1, <3>3, <3>6
      <4>2. d = [secs |-> -w, nanos |-> 0]
        BY <1>1, <2>2, <4>1
      <4>3. (d.secs * K + d.nanos) * F = -(w * M)
        <5>1. d.secs * K + d.nanos = -(w * K)
          BY <3>5, <4>2
        <5>2. QED
          BY <2>6, <3>5, <5>1
      <4>4. p = 0
        BY <1>1, <3>6 DEF p
      <4>5. (d.secs * K + d.nanos) * F - e = r - p
        BY <2>4, <3>4, <4>3, <4>4
      <4>6. d.nanos \in 0 .. K - 1 /\ d.secs \in Int
        BY <1>1, <2>3, <4>2
      <4>7. QED
        BY <2>4, <2>5, <4>5, <4>6
    <3>7. CASE n # 0
      <4>1. borrowed = [secs |-> -w - 1, nanos |-> -n + K]
        BY <2>5, <3>1, <3>3, <3>7
      <4>2. d = [secs |-> -w - 1, nanos |-> -n + K]
        BY <1>1, <2>2, <2>5, <3>7, <4>1
      <4>3. (d.secs * K + d.nanos) * F = -(w * M) - p
        <5>1. (-w - 1) * K + (-n + K) = -(w * K) + (-n)
          <6>1. (-w - 1) * K = (-w) * K + (-1) * K /\ (-1) * K = -K
            BY <1>1, <2>3, Products
          <6>2. QED
            BY <1>1, <2>3, <2>5, <3>5, <6>1
        <5>2. (-(w * K) + (-n)) * F = (-(w * K)) * F + (-n) * F
          BY <1>1, <2>5, <3>5, Products
        <5>3. (-n) * F = -p
          BY <1>1, <2>5, Products DEF p
        <5>4. (d.secs * K + d.nanos) * F = (-(w * K)) * F + (-n) * F
          BY <4>2, <5>1, <5>2
        <5>5. QED
          BY <2>4, <2>5, <2>6, <3>5, <5>3, <5>4
      <4>4. (d.secs * K + d.nanos) * F - e = r - p
        BY <2>4, <2>5, <3>4, <4>3
      <4>5. d.nanos \in 0 .. K - 1 /\ d.secs \in Int
        BY <1>1, <2>3, <2>5, <3>7, <4>2
      <4>6. QED
        BY <2>4, <2>5, <4>4, <4>5
    <3>8. QED
      BY <3>6, <3>7
  <2>9. QED
    BY <2>7, <2>8
<1> HIDE DEF d
<1>4. FormatTime(e) = {d}
  BY <1>3 DEF FormatTime, d
<1>5. 2 * (ParseTime(d) - e) \in -Fractions .. Fractions
  <2>1. ParseTime(d) = (d.secs * K + d.nanos) * F
    BY DEF ParseTime
  <2>2. QED
    BY <1>3, <2>1
<1>6. QED
  BY <1>4, <1>5 DEF TimeComesBack

-----------------------------------------------------------------------------
(* What is sealed and signed.                                              *)

\* The aad of a call, as the cipher takes it.
AadOf(v) == IF v = None THEN NoText ELSE v

LEMMA OptionalIs ==
  ASSUME NEW v \in Plaintexts \cup {None, NotText}
  PROVE  /\ v = NotText => OptionalBytes(v) = {} /\ AadOf(v) = NotText
         /\ v # NotText => OptionalBytes(v) = {AadOf(v)} /\ AadOf(v) # NotText
<1>1. None # NotText /\ NoText # NotText
  <2>1. DOMAIN None = {"none"} /\ DOMAIN NotText = {"number"} /\ DOMAIN NoText = {"n", "as"}
    BY DEF None, NotText, NoText, Plaintext
  <2>2. "none" # "number" /\ "n" # "number"
    OBVIOUS
  <2>3. QED
    BY <2>1, <2>2
<1>2. CASE v = NotText
  BY <1>1, <1>2 DEF OptionalBytes, AadOf
<1>3. CASE v = None
  BY <1>1, <1>3 DEF OptionalBytes, AadOf
<1>4. CASE v # None /\ v # NotText
  BY <1>4 DEF OptionalBytes, AadOf
<1>5. QED
  BY <1>2, <1>3, <1>4

SealedOf(key, nonce, data, aad) ==
  [n |-> data.n + 16, key |-> key, nonce |-> nonce, data |-> data, aad |-> aad]

LEMMA SealedIs ==
  /\ \A k, o, d, a : "data" \in DOMAIN SealedOf(k, o, d, a) /\ SealedOf(k, o, d, a).data = d
  /\ \A k, o, d, a, k2, o2, a2 :
       SealedOf(k, o, d, a) = SealedOf(k2, o2, d, a2) => k = k2 /\ o = o2 /\ a = a2
BY DEF SealedOf

LEMMA OpenedAsSealed ==
  ASSUME NEW x \in Sealing, NEW y \in Sealing
  PROVE  OpensAsSealed(x, y)
<1> DEFINE cipher == "chacha20poly1305"
           k == x.key
           o == x.nonce
           d == x.data
           a == x.aad
           k2 == y.key
           o2 == y.nonce
           a2 == y.aad
           E == AeadEncrypt(cipher, k, o, d, a)
           same == k = k2 /\ o = o2 /\ AadOf(a) = AadOf(a2)
           opened(c) == AeadDecrypt(cipher, k2, o2, c, a2)
<1>1. a \in Plaintexts \cup {None, NotText} /\ a2 \in Plaintexts \cup {None, NotText}
  BY DEF Sealing
<1>2. E = {SealedOf(k, o, d, extra) : extra \in {e \in OptionalBytes(a) : Checked(k, o)}}
  BY DEF AeadEncrypt, SealedOf
<1>3. \A c : opened(c) =
        {data \in IF "data" \in DOMAIN c THEN {c.data} ELSE {} :
           Checked(k2, o2) /\ \E extra \in OptionalBytes(a2) : c = SealedOf(k2, o2, data, extra)}
  BY DEF AeadDecrypt, SealedOf
<1>4. OpensAsSealed(x, y) <=>
        /\ (E # {}) = (k.n = 32 /\ o.n = 12 /\ a # NotText)
        /\ \A c \in E : opened(c) = IF same THEN {d} ELSE {}
  BY DEF OpensAsSealed, AadOf
<1>5. Checked(k, o) <=> k.n = 32 /\ o.n = 12
  BY DEF Checked
<1> HIDE DEF E, opened, k, o, d, a, k2, o2, a2
<1>6. CASE a = NotText \/ ~Checked(k, o)
  <2>1. E = {}
    BY <1>1, <1>2, <1>6, OptionalIs
  <2>2. QED
    BY <1>4, <1>5, <1>6, <2>1
<1>7. CASE a # NotText /\ Checked(k, o)
  <2> DEFINE c == SealedOf(k, o, d, AadOf(a))
  <2>1. E = {c}
    BY <1>1, <1>2, <1>7, OptionalIs
  <2>2. "data" \in DOMAIN c /\ c.data = d
    BY SealedIs
  <2>3. opened(c) = {data \in {d} : Checked(k2, o2) /\ \E extra \in OptionalBytes(a2) : c = SealedOf(k2, o2, data, extra)}
    BY <1>3, <2>2
  <2>4. (Checked(k2, o2) /\ \E extra \in OptionalBytes(a2) : c = SealedOf(k2, o2, d, extra)) <=> same
    <3>1. CASE a2 = NotText
      <4>1. OptionalBytes(a2) = {} /\ AadOf(a2) = NotText /\ AadOf(a) # NotText
        BY <1>1, <1>7, <3>1, OptionalIs
      <4>2. QED
        BY <4>1
    <3>2. CASE a2 # NotText
      <4>1. OptionalBytes(a2) = {AadOf(a2)}
        BY <1>1, <3>2, OptionalIs
      <4>2. c = SealedOf(k2, o2, d, AadOf(a2)) <=> same
        BY SealedIs
      <4>3. same => Checked(k2, o2)
        BY <1>7
      <4> HIDE DEF c, same
      <4>4. QED
        BY <4>1, <4>2, <4>3
    <3>3. QED
      BY <3>1, <3>2
  <2> HIDE DEF c, same
  <2>5. opened(c) = IF same THEN {d} ELSE {}
    BY <2>3, <2>4
  <2>6. QED
    BY <1>4, <1>5, <1>7, <2>1, <2>5
<1>8. QED
  BY <1>6, <1>7

SignatureOf(seed, data) == [n |-> 64, signer |-> PublicKey(seed), signed |-> data]
MacOf(key, data) == [n |-> 32, mac |-> "hmac-sha256", key |-> key, data |-> data]

LEMMA KeysAre ==
  /\ \A k : PublicKey(k).n = 32 /\ IsPoint(PublicKey(k))
  /\ \A k \in Plaintexts : ~IsPoint(k)
  /\ \A k, k2, d, d2 : SignatureOf(k, d) = SignatureOf(k2, d2) <=> k = k2 /\ d = d2
  /\ \A k, d : SignatureOf(k, d).n = 64
  /\ \A k, k2, d, d2 : MacOf(k, d) = MacOf(k2, d2) <=> k = k2 /\ d = d2
<1>1. \A k : PublicKey(k).n = 32 /\ IsPoint(PublicKey(k))
  BY DEF PublicKey, IsPoint
<1>2. \A k \in Plaintexts : ~IsPoint(k)
  <2>1. \A k \in Plaintexts : DOMAIN k = {"n", "as"}
    BY DEF Plaintexts
  <2>2. "as" \notin {"n", "seed"}
    OBVIOUS
  <2>3. QED
    BY <2>1, <2>2 DEF IsPoint
<1>3. \A k, k2, d, d2 : SignatureOf(k, d) = SignatureOf(k2, d2) <=> k = k2 /\ d = d2
  BY DEF SignatureOf, PublicKey
<1>4. \A k, d : SignatureOf(k, d).n = 64
  BY DEF SignatureOf
<1>5. \A k, k2, d, d2 : MacOf(k, d) = MacOf(k2, d2) <=> k = k2 /\ d = d2
  BY DEF MacOf
<1>6. QED
  BY <1>1, <1>2, <1>3, <1>4, <1>5

LEMMA SignedIsVerified ==
  ASSUME NEW x \in Sealing, NEW y \in Sealing
  PROVE  VerifiedAsSigned(x, y)
<1> DEFINE k == x.key
           k2 == y.key
           d == x.data
           d2 == y.data
           same == x.key = y.key /\ x.data = y.data
<1>1. k \in Plaintexts /\ k2 \in Plaintexts
  BY DEF Sealing
<1>2. Sign("hmac-sha256", x.key, x.data) = Hmac("hmac-sha256", x.key, x.data)
  BY DEF Sign
<1>3. \A key, data : Hmac("hmac-sha256", key, data) = {MacOf(key, data)}
  BY DEF Hmac, HmacLength, MacOf
<1>4. ASSUME NEW s \in Sign("hmac-sha256", x.key, x.data)
      PROVE  Verify("hmac-sha256", y.key, y.data, s) = {same}
  <2>1. s = MacOf(k, d)
    BY <1>2, <1>3
  <2> DEFINE valid == \E mac \in Hmac("hmac-sha256", y.key, y.data) : s = mac
  <2>2. Verify("hmac-sha256", y.key, y.data, s) = {valid}
    BY DEF Verify
  <2>3. valid <=> s = MacOf(k2, d2)
    BY <1>3
  <2>4. s = MacOf(k2, d2) <=> same
    BY <2>1, KeysAre
  <2>5. valid = same
    BY <2>3, <2>4
  <2> HIDE DEF valid, same
  <2>6. QED
    BY <2>2, <2>5
<1>5. ASSUME NEW pair \in Keypair("ed25519", x.key), NEW s \in Sign("ed25519", pair.private, x.data),
             NEW other \in Keypair("ed25519", y.key)
      PROVE  /\ other.public.n = 32
             /\ Verify("ed25519", other.public, y.data, s) = {same}
             /\ Verify("ed25519", other.private, y.data, s) \subseteq {FALSE}
  <2>1. pair.private = k /\ other.public = PublicKey(k2) /\ other.private = k2
    BY <1>5 DEF Keypair
  <2>2. s = SignatureOf(k, d)
    BY <1>5, <2>1 DEF Sign, Signature, SignatureOf
  <2>3. other.public.n = 32 /\ IsPoint(other.public)
    BY <2>1, KeysAre
  <2>4. s.n = 64
    BY <2>2, KeysAre
  <2>5. \A key : Verify("ed25519", key, d2, s) =
          IF key.n # 32 THEN {}
          ELSE {IsPoint(key) /\ s.n = 64 /\ s = [n |-> 64, signer |-> key, signed |-> d2]}
    BY DEF Verify
  <2>6. Verify("ed25519", other.public, y.data, s) = {same}
    <3> DEFINE valid == IsPoint(other.public) /\ s.n = 64 /\ s = [n |-> 64, signer |-> other.public, signed |-> d2]
    <3>1. Verify("ed25519", other.public, y.data, s) = {valid}
      BY <2>3, <2>5
    <3>2. [n |-> 64, signer |-> other.public, signed |-> d2] = SignatureOf(k2, d2)
      BY <2>1 DEF SignatureOf
    <3>3. valid <=> same
      BY <2>2, <2>3, <2>4, <3>2, KeysAre
    <3>4. valid = same
      BY <3>3
    <3> HIDE DEF valid, same
    <3>5. QED
      BY <3>1, <3>4
  <2>7. Verify("ed25519", other.private, y.data, s) \subseteq {FALSE}
    <3> DEFINE valid == IsPoint(k2) /\ s.n = 64 /\ s = [n |-> 64, signer |-> k2, signed |-> d2]
    <3>1. Verify("ed25519", other.private, y.data, s) \subseteq {valid}
      BY <2>1, <2>5
    <3>2. ~valid
      BY <1>1, KeysAre
    <3>3. valid = FALSE
      BY <3>2
    <3> HIDE DEF valid
    <3>4. QED
      BY <3>1, <3>3
  <2>8. QED
    BY <2>3, <2>6, <2>7
<1>6. QED
  BY <1>2, <1>4, <1>5 DEF VerifiedAsSigned

-----------------------------------------------------------------------------
(* Everything comes back.                                                  *)

\* What comes back of a string, in every encoding.
LEMMA StringBack ==
  ASSUME NEW s \in Seq(Byte)
  PROVE  StringComesBack(s)
<1>1. \A url_safe, padded \in BOOLEAN : Base64Decode(Base64Encode(s, url_safe, padded)) = {s}
  BY Base64ComesBack
<1>2. HexDecode(HexEncode(s)) = {s}
  BY HexComesBack
<1>3. BytesToString(StringToBytes(s)) = {s} /\ (~IsUtf8(s) => Utf8Encode(s) = {})
  BY BytesComeBack
<1>4. IsUtf8(s) =>
        /\ DecodeComponent(EncodeComponent(s)) = s
        /\ \A t \in Utf8Decode(s) : Joined([i \in DOMAIN t |-> Character(t[i])]) = s
  BY PercentComesBack, CharactersComeBack
<1>5. (\A i \in DOMAIN s : Triplet(s, i) = {}) => DecodeComponent(s) = Lossy(s)
  BY BytesAre, DecodedAsItIs
<1>6. QED
  BY <1>1, <1>2, <1>3, <1>4, <1>5 DEF StringComesBack

LEMMA AskedAreTyped ==
  ASSUME question \in EncodingQuestions
  PROVE  /\ question.about = "string" => question.string \in Seq(Byte)
         /\ question.about = "url" => question.url \in Url
         /\ question.about = "epoch" => question.epoch \in Int
         /\ question.about = "sealing" =>
              question.sealings[1] \in Sealing /\ question.sealings[2] \in Sealing
<1>1. Strings \subseteq Seq(Byte) /\ Urls \subseteq Url /\ Epochs \subseteq Int /\ Sealings \subseteq Sealing
  BY EncodingsAssumption
<1>2. \/ question \in [about : {"paths"}, paths : PathPairs]
      \/ question \in [about : {"string"}, string : Strings]
      \/ question \in [about : {"url"}, url : Urls]
      \/ question \in [about : {"epoch"}, epoch : Epochs]
      \/ question \in [about : {"sealing"}, sealings : Sealings \X Sealings]
      \/ question \in [about : {"request"}, request : Requested]
      \/ question \in [about : {"event"}, event : FieldMaps]
  BY DEF EncodingQuestions
<1>3. \A r \in [about : {"sealing"}, sealings : Sealings \X Sealings] :
        r.sealings[1] \in Sealings /\ r.sealings[2] \in Sealings
  OBVIOUS
<1>4. QED
  BY <1>1, <1>2, <1>3

\* What is encoded and decoded, formatted and parsed, sealed and opened, or signed and
\* verified is what it was: for any strings, URLs, times and keys.
THEOREM EncodingsComeBack == EncodingSpec => []RoundTrips
<1>1. EncodingInit => question \in EncodingQuestions
  BY DEF EncodingInit
<1>2. question \in EncodingQuestions /\ [UNCHANGED question]_question => (question \in EncodingQuestions)'
  OBVIOUS
<1>3. question \in EncodingQuestions => RoundTrips
  <2> SUFFICES ASSUME question \in EncodingQuestions
               PROVE  RoundTrips
    OBVIOUS
  <2>1. question.about = "string" => StringComesBack(question.string)
    BY AskedAreTyped, StringBack
  <2>2. question.about = "url" => UrlComesBack(question.url)
    BY AskedAreTyped, UrlBack
  <2>3. question.about = "epoch" => TimeComesBack(question.epoch)
    BY AskedAreTyped, TimeBack
  <2>4. question.about = "sealing" =>
          /\ OpensAsSealed(question.sealings[1], question.sealings[2])
          /\ VerifiedAsSigned(question.sealings[1], question.sealings[2])
    BY AskedAreTyped, OpenedAsSealed, SignedIsVerified
  <2>5. QED
    BY <2>1, <2>2, <2>3, <2>4 DEF RoundTrips
<1>4. QED
  BY <1>1, <1>2, <1>3, PTL DEF EncodingSpec

-----------------------------------------------------------------------------
(* Requests.                                                               *)

\* What an option is asked for.
LEMMA KindsOf ==
  /\ Nil.k = "nil" /\ NoBody.k = "none"
  /\ \A s : Str(s).k = "str" /\ Str(s).s = s /\ Str(s) # Nil
  /\ TextsOf(Str("u")) = {"u"}
  /\ \A m \in Method : TextsOf(Str(m)) \cap Method = {m}
<1>1. Nil.k = "nil" /\ NoBody.k = "none"
  BY DEF Nil, NoBody
<1>2. ASSUME NEW s
      PROVE  Str(s).k = "str" /\ Str(s).s = s /\ Str(s) # Nil
  BY <1>1 DEF Str, Nil
<1>3. \A s : TextsOf(Str(s)) = {s} \ {Binary}
  BY <1>2 DEF TextsOf
<1>4. TextsOf(Str("u")) = {"u"}
  BY <1>3 DEF Binary
<1>5. \A m \in Method : TextsOf(Str(m)) \cap Method = {m}
  BY <1>3 DEF Binary, Method
<1>6. QED
  BY <1>1, <1>2, <1>4, <1>5

\* The two ways to make a request make the same.
LEMMA EitherWay ==
  ASSUME NEW a, a.method \in Method
  PROVE  MadeEitherWay(a)
<1> DEFINE asked == [method |-> Str(a.method), url |-> Str("u"), body |-> BodyAsked(a),
                     headers |-> a.headers, query |-> a.query, timeout |-> a.timeout]
           Bodies(b) == IF b = Nil THEN {NoBody} ELSE BodyOf(b)
           All(methods, urls, hs, qs, ts, bs) ==
             {Request(m, u, h, q, t, b) :
                m \in methods, u \in urls, h \in hs, q \in qs, t \in ts, b \in bs}
           These(hs, qs, ts, bs) ==
             {Request(a.method, "u", h, q, t, b) : h \in hs, q \in qs, t \in ts, b \in bs}
<1>1. /\ asked.method = Str(a.method) /\ asked.url = Str("u") /\ asked.body = BodyAsked(a)
      /\ asked.headers = a.headers /\ asked.query = a.query /\ asked.timeout = a.timeout
  OBVIOUS
<1>2. /\ (IF asked.method = Nil THEN {"GET"} ELSE TextsOf(asked.method) \cap Method) = {a.method}
      /\ TextsOf(asked.url) = {"u"}
  BY <1>1, KindsOf
<1>3. \A hs, qs, ts, bs : All({a.method}, {"u"}, hs, qs, ts, bs) = These(hs, qs, ts, bs)
  OBVIOUS
<1> HIDE DEF asked
<1>4. RequestFromTable(asked)
        = All(IF asked.method = Nil THEN {"GET"} ELSE TextsOf(asked.method) \cap Method,
              TextsOf(asked.url), StringPairs(asked.headers), StringPairs(asked.query),
              Timeouts(asked.timeout), Bodies(asked.body))
  BY DEF RequestFromTable
<1>5. BuildRequest(a.method, "u", BodyAsked(a), a)
        = These(StringPairs(a.headers), StringPairs(a.query), Timeouts(a.timeout),
                IF a.method \notin WithBody \/ BodyAsked(a) = Nil THEN {NoBody}
                ELSE BodyOf(BodyAsked(a)))
  BY DEF BuildRequest
<1>6. (IF a.method \notin WithBody \/ BodyAsked(a) = Nil THEN {NoBody} ELSE BodyOf(BodyAsked(a)))
        = Bodies(BodyAsked(a))
  BY DEF BodyAsked
<1> HIDE DEF All, These, Bodies
<1>7. RequestFromTable(asked)
        = All({a.method}, {"u"}, StringPairs(a.headers), StringPairs(a.query),
              Timeouts(a.timeout), Bodies(BodyAsked(a)))
  BY <1>1, <1>2, <1>4
<1>8. RequestFromTable(asked) = BuildRequest(a.method, "u", BodyAsked(a), a)
  BY <1>3, <1>5, <1>6, <1>7
<1>9. QED
  BY <1>8 DEF MadeEitherWay, asked

\* The pairs of a table: of each key one, with texts that follow from the key.
LEMMA PairsOf ==
  ASSUME NEW t, NEW pairs \in StringPairs(t), t.k = "table" => IsFiniteSet(DOMAIN t.e)
  PROVE  /\ IsFiniteSet(pairs)
         /\ \A p \in pairs : p = <<p[1], p[2], p[3]>> /\ p[2] = TheOne(KeyTexts(p[1])) /\ KeyTexts(p[1]) # {}
         /\ \A p, q \in pairs : p[1] = q[1] => p = q
         /\ StringPairs(t) = {pairs}
<1>1. CASE t = Nil
  <2>1. StringPairs(t) = {{}}
    BY <1>1, KindsOf DEF StringPairs
  <2>2. QED
    BY <2>1, FS_EmptySet
<1>2. CASE t # Nil
  <2> DEFINE PairOf(x) == <<x, TheOne(KeyTexts(x)), TheOne(TextsOf(t.e[x]))>>
             made == {PairOf(x) : x \in DOMAIN t.e}
             text == \A x \in DOMAIN t.e : KeyTexts(x) # {} /\ TextsOf(t.e[x]) # {}
  <2>1. t.k = "table" /\ text /\ StringPairs(t) = {made}
    BY <1>2 DEF StringPairs
  <2>2. pairs = made
    BY <2>1
  <2>3. IsFiniteSet(made)
    <3> DEFINE pairing == [x \in DOMAIN t.e |-> PairOf(x)]
    <3>1. pairing \in Surjection(DOMAIN t.e, made)
      BY DEF Surjection
    <3>2. QED
      BY <3>1, <2>1, FS_Surjection
  <2>4. \A p \in pairs : \E x \in DOMAIN t.e : p = PairOf(x)
    BY <2>2
  <2>5. QED
    BY <2>1, <2>2, <2>3, <2>4
<1>3. QED
  BY <1>1, <1>2

LEMMA BodiesOf ==
  ASSUME NEW v
  PROVE  /\ NoBody \notin BodyOf(v)
         /\ \A b \in BodyOf(v) : b.k = "json" <=> v.k = "table"
BY KindsOf DEF BodyOf

LEMMA BuiltOf ==
  ASSUME NEW a, NEW r \in BuildRequest(a.method, "u", BodyAsked(a), a)
  PROVE  /\ (r.body = NoBody) <=> (BodyAsked(a) = Nil)
         /\ r.body.k = "json" <=> BodyAsked(a).k = "table"
<1>1. PICK h \in StringPairs(a.headers), q \in StringPairs(a.query), t \in Timeouts(a.timeout),
           b \in IF a.method \notin WithBody \/ BodyAsked(a) = Nil THEN {NoBody} ELSE BodyOf(BodyAsked(a)) :
           r = Request(a.method, "u", h, q, t, b)
  BY DEF BuildRequest
<1>2. r.body = b
  BY <1>1 DEF Request
<1>3. (a.method \notin WithBody \/ BodyAsked(a) = Nil) <=> BodyAsked(a) = Nil
  BY DEF BodyAsked
<1>4. CASE BodyAsked(a) = Nil
  <2>1. r.body = NoBody
    BY <1>1, <1>2, <1>4
  <2>2. NoBody.k # "json" /\ Nil.k # "table"
    BY DEF NoBody, Nil
  <2>3. QED
    BY <1>4, <2>1, <2>2
<1>5. CASE BodyAsked(a) # Nil
  <2>1. r.body \in BodyOf(BodyAsked(a))
    BY <1>1, <1>2, <1>3, <1>5
  <2>2. QED
    BY <1>5, <2>1, BodiesOf
<1>6. QED
  BY <1>4, <1>5

\* A body of its own makes a content-type, and where the script gives none, nothing else does.
LEMMA SentAsBuilt ==
  ASSUME NEW a, NEW r \in BuildRequest(a.method, "u", BodyAsked(a), a)
  PROVE  SentAsMade(a, r)
<1> DEFINE own == <<"content-type", StrKey("own"), "application/json">>
<1>1. /\ (r.body = NoBody) <=> (BodyAsked(a) = Nil)
      /\ r.body.k = "json" <=> BodyAsked(a).k = "table"
  BY BuiltOf
<1>2. ASSUME OwnContentTypes(r) = {}
      PROVE  SentContentTypes(r) = IF r.body.k = "json" THEN {"application/json"} ELSE {}
  <2>1. \A p \in r.headers : LowerCase(p[2]) # "content-type"
    BY <1>2 DEF OwnContentTypes
  <2>2. \A h \in SentHeaders(r) : h[1] = "content-type" => r.body.k = "json" /\ h = own
    BY <2>1 DEF SentHeaders
  <2>3. r.body.k = "json" => own \in SentHeaders(r)
    BY DEF SentHeaders
  <2>4. own[1] = "content-type" /\ own[3] = "application/json"
    OBVIOUS
  <2> HIDE DEF own
  <2>5. QED
    BY <2>2, <2>3, <2>4 DEF SentContentTypes
<1>3. QED
  BY <1>1, <1>2 DEF SentAsMade

\* Where a name comes last in a sequence of pairs.
LastNamed(pairs, name) == SelectLastInSeq(pairs, LAMBDA p : p[1] = name)
LEMMA LastNamedIs ==
  ASSUME NEW n \in Nat, NEW pairs, pairs = [i \in 1 .. n |-> pairs[i]],
         NEW name, \E i \in 1 .. n : pairs[i][1] = name
  PROVE  LastNamed(pairs, name) \in 1 .. n /\ pairs[LastNamed(pairs, name)][1] = name
<1> DEFINE places == {i \in 1 .. n : pairs[i][1] = name}
<1>1. Len(pairs) = n
  OBVIOUS
<1>2. LastNamed(pairs, name) = Max(places)
  BY <1>1 DEF LastNamed, SelectLastInSeq
<1>3. \E m \in places : \A i \in places : i <= m
  <2> DEFINE far == {n - i : i \in places}
  <2>1. far # {} /\ far \subseteq Nat
    <3>1. \A i \in places : i \in 1 .. n
      OBVIOUS
    <3>2. places # {}
      OBVIOUS
    <3> HIDE DEF places
    <3>3. QED
      BY <3>1, <3>2
  <2>2. PICK d \in far : \A c \in far : d <= c
    BY <2>1, LeastNatural
  <2>3. PICK m \in places : d = n - m
    BY <2>2
  <2>4. \A i \in places : n - m <= n - i /\ i \in Int /\ m \in Int
    BY <2>2, <2>3
  <2> HIDE DEF places
  <2>5. \A i \in places : i <= m
    BY <2>4
  <2>6. QED
    BY <2>5
<1>4. Max(places) \in places
  BY <1>3 DEF Max
<1>5. QED
  BY <1>2, <1>4

\* A form that is encoded and decoded has of each name the last value.
LEMMA FormBack ==
  ASSUME NEW t, t.k = "table" => IsFiniteSet(DOMAIN t.e)
  PROVE  FormComesBack(t)
<1>1. SUFFICES ASSUME NEW query \in EncodeQuery(t), NEW pairs \in StringPairs(t)
               PROVE  DecodeQuery(query) \in
                        {[s \in {p[2] : p \in pairs} |-> TheOne({p \in kept : p[2] = s})[3]] :
                           kept \in OneOfEachName(pairs)}
  BY DEF FormComesBack
<1> DEFINE Turned(p) == <<p[2], p[3], p[1]>>
           form == {Turned(p) : p \in pairs}
           n == Cardinality(form)
           LastOne(name) == LastNamed(query, name)
           names == {query[i][1] : i \in DOMAIN query}
           kept == {p \in pairs : Turned(p) = query[LastOne(p[2])]}
<1>2. /\ IsFiniteSet(pairs) /\ StringPairs(t) = {pairs}
      /\ \A p, q \in pairs : p[1] = q[1] => p = q
  BY PairsOf
<1>3. query \in SetToSeqs(form)
  <2>1. \A set : {<<p[2], p[3], p[1]>> : p \in set} = {Turned(p) : p \in set}
    OBVIOUS
  <2>2. t # Nil
    BY DEF EncodeQuery
  <2>3. EncodeQuery(t) = UNION {SetToSeqs({<<p[2], p[3], p[1]>> : p \in ps}) : ps \in StringPairs(t)}
    BY <2>2 DEF EncodeQuery
  <2>4. PICK ps \in StringPairs(t) : query \in SetToSeqs({<<p[2], p[3], p[1]>> : p \in ps})
    BY <2>3
  <2>5. ps = pairs
    BY <1>2, <2>4
  <2>6. QED
    BY <2>4, <2>5
<1>4. IsFiniteSet(form) /\ n \in Nat
  <2> DEFINE turning == [p \in pairs |-> Turned(p)]
  <2>1. turning \in Surjection(pairs, form)
    BY DEF Surjection
  <2>2. IsFiniteSet(form)
    BY <2>1, <1>2, FS_Surjection
  <2> HIDE DEF form
  <2>3. QED
    BY <2>2, FS_CardinalityType
<1>5. /\ query \in [1 .. n -> form]
      /\ \A i, j \in 1 .. n : i # j => query[i] # query[j]
  BY <1>3 DEF SetToSeqs
<1>6. \A x \in form : \E i \in 1 .. n : query[i] = x
  <2> HIDE DEF form
  <2>1. query \in Injection(1 .. n, form)
    BY <1>5 DEF Injection, IsInjective
  <2>2. Cardinality(1 .. n) = n
    BY <1>4, FS_Interval
  <2>3. query \in Surjection(1 .. n, form)
    BY <2>1, <2>2, <1>4, FS_Injection
  <2>4. QED
    BY <2>3 DEF Surjection
<1>7. query = [i \in 1 .. n |-> query[i]] /\ DOMAIN query = 1 .. n
  BY <1>5
<1>8. \A p \in pairs : Turned(p)[1] = p[2] /\ Turned(p)[2] = p[3] /\ Turned(p)[3] = p[1]
  OBVIOUS
<1>9. names = {p[2] : p \in pairs}
  <2>1. \A i \in 1 .. n : \E p \in pairs : query[i][1] = p[2]
    BY <1>5, <1>8
  <2>2. \A p \in pairs : \E i \in 1 .. n : query[i][1] = p[2]
    <3>1. \A p \in pairs : \E i \in 1 .. n : query[i] = Turned(p)
      BY <1>6
    <3>2. QED
      BY <3>1, <1>8
  <2>3. QED
    BY <2>1, <2>2, <1>7
<1>10. ASSUME NEW name \in names
       PROVE  /\ LastOne(name) \in 1 .. n
              /\ query[LastOne(name)][1] = name
  <2>1. \E i \in 1 .. n : query[i][1] = name
    BY <1>7
  <2>2. QED
    BY <2>1, <1>4, <1>7, LastNamedIs
<1> HIDE DEF LastOne, names
<1>11. ASSUME NEW name \in names
       PROVE  \E p \in kept : /\ {q \in kept : q[2] = name} = {p}
                              /\ p[3] = query[LastOne(name)][2]
  <2>1. PICK p \in pairs : Turned(p) = query[LastOne(name)]
    BY <1>5, <1>10
  <2>2. p[2] = name
    BY <2>1, <1>8, <1>10
  <2>3. p \in kept
    BY <2>1, <2>2
  <2>4. ASSUME NEW q \in kept, q[2] = name
        PROVE  q = p
    <3>1. q \in pairs /\ Turned(q) = Turned(p)
      BY <2>1, <2>4
    <3>2. q[1] = p[1]
      BY <3>1, <1>8
    <3>3. QED
      BY <3>1, <3>2, <1>2
  <2>5. {q \in kept : q[2] = name} = {p}
    <3> HIDE DEF kept
    <3>1. QED
      BY <2>2, <2>3, <2>4
  <2>6. p[3] = query[LastOne(name)][2]
    BY <2>1, <1>8
  <2>7. QED
    BY <2>3, <2>5, <2>6
<1> HIDE DEF kept
<1>12. \A name \in names : TheOne({p \in kept : p[2] = name})[3] = query[LastOne(name)][2]
  <2>1. SUFFICES ASSUME NEW name \in names
                 PROVE  TheOne({p \in kept : p[2] = name})[3] = query[LastOne(name)][2]
    OBVIOUS
  <2>2. PICK p \in kept : {q \in kept : q[2] = name} = {p} /\ p[3] = query[LastOne(name)][2]
    BY <1>11
  <2>3. TheOne({p}) = p
    BY DEF TheOne
  <2>4. QED
    BY <2>2, <2>3
<1>13. kept \in OneOfEachName(pairs)
  <2>1. \A p \in pairs : \E q \in kept : q[2] = p[2]
    <3>1. SUFFICES ASSUME NEW p \in pairs
                   PROVE  \E q \in kept : q[2] = p[2]
      OBVIOUS
    <3>2. p[2] \in names
      BY <1>9
    <3>3. PICK q \in kept : {r \in kept : r[2] = p[2]} = {q}
      BY <3>2, <1>11
    <3>4. QED
      BY <3>3
  <2>2. QED
    BY <2>1 DEF OneOfEachName, kept
<1>14. DecodeQuery(query) = [name \in names |-> query[LastOne(name)][2]]
  BY DEF DecodeQuery, names, LastOne, LastNamed
<1>15. DecodeQuery(query) = [s \in {p[2] : p \in pairs} |-> TheOne({p \in kept : p[2] = s})[3]]
  BY <1>9, <1>12, <1>14
<1>16. QED
  BY <1>13, <1>15

\* For any request.
THEOREM RequestsAreAsAsked == EncodingSpec => []RequestAsAsked
<1> DEFINE Asked == \A a \in Requested :
                      /\ MadeEitherWay(a)
                      /\ \A r \in BuildRequest(a.method, "u", BodyAsked(a), a) : SentAsMade(a, r)
                      /\ FormComesBack(a.headers) /\ FormComesBack(a.query)
<1>1. Asked
  <2>1. SUFFICES ASSUME NEW a \in Requested
                 PROVE  /\ MadeEitherWay(a)
                        /\ \A r \in BuildRequest(a.method, "u", BodyAsked(a), a) : SentAsMade(a, r)
                        /\ FormComesBack(a.headers) /\ FormComesBack(a.query)
    OBVIOUS
  <2>2. /\ a.method \in Method
        /\ a.headers.k = "table" => IsFiniteSet(DOMAIN a.headers.e)
        /\ a.query.k = "table" => IsFiniteSet(DOMAIN a.query.e)
    BY EncodingsAssumption
  <2>3. MadeEitherWay(a)
    BY <2>2, EitherWay
  <2>4. \A r \in BuildRequest(a.method, "u", BodyAsked(a), a) : SentAsMade(a, r)
    BY SentAsBuilt
  <2>5. FormComesBack(a.headers) /\ FormComesBack(a.query)
    BY <2>2, FormBack
  <2>6. QED
    BY <2>3, <2>4, <2>5
<1>2. EncodingInit => RequestAsAsked
  <2>1. question \in EncodingQuestions /\ question.about = "request" => question.request \in Requested
    BY DEF EncodingQuestions
  <2>2. QED
    BY <1>1, <2>1 DEF EncodingInit, RequestAsAsked
<1>3. RequestAsAsked /\ UNCHANGED question => RequestAsAsked'
  BY DEF RequestAsAsked
<1>4. QED
  BY <1>2, <1>3, PTL DEF EncodingSpec

-----------------------------------------------------------------------------
(* Events that scripts give back.                                          *)

\* Values of two kinds are not equal, and a value is made of what it holds.
LEMMA KindsAre ==
  /\ Nil.k = "nil" /\ Opaque.k = "function"
  /\ \A b : Bool(b).k = "bool"
  /\ \A n : Num(n).k = "int"
  /\ \A f : Float(f).k = "float"
  /\ \A s : Str(s).k = "str" /\ Str(s).s = s
  /\ \A s : Enum(s).k = "enum" /\ Enum(s).s = s
  /\ \A q : List(q).k = "list" /\ List(q).q = q
  /\ \A m : Map(m).k = "map" /\ Map(m).m = m
  /\ \A e : Table(e).k = "table" /\ Table(e).e = e
BY DEF Nil, Opaque, Bool, Num, Float, Str, Enum, List, Map, Table

LEMMA KeysDiffer ==
  /\ \A i : IntKey(i).i = i /\ DOMAIN IntKey(i) = {"i"}
  /\ \A s : StrKey(s).s = s /\ DOMAIN StrKey(s) = {"s"}
  /\ \A i, s : IntKey(i) # StrKey(s)
  /\ \A i : KeyTexts(IntKey(i)) = {Digits(i)}
  /\ \A s : s # Binary => KeyTexts(StrKey(s)) = {s}
<1>1. \A i : IntKey(i).i = i /\ DOMAIN IntKey(i) = {"i"}
  BY DEF IntKey
<1>2. \A s : StrKey(s).s = s /\ DOMAIN StrKey(s) = {"s"}
  BY DEF StrKey
<1>3. {"i"} # {"s"}
  OBVIOUS
<1>4. \A i : KeyTexts(IntKey(i)) = {Digits(i)}
  BY <1>1, <1>3 DEF KeyTexts
<1>5. \A s : s # Binary => KeyTexts(StrKey(s)) = {s}
  BY <1>2 DEF KeyTexts
<1>6. QED
  BY <1>1, <1>2, <1>3, <1>4, <1>5

\* What is known of a value of an event, and of what it holds.
LEMMA FieldValues ==
  ASSUME NEW v \in Fields
  PROVE  /\ v.k \in {"nil", "bool", "int", "float", "str", "enum", "list", "map"}
         /\ v.k = "nil" <=> v = Nil
         /\ v.k = "str" => v = Str(v.s) /\ v.s # Binary
         /\ v.k = "list" =>
              /\ v = List(v.q) /\ Len(v.q) \in Nat /\ v.q = [i \in 1 .. Len(v.q) |-> v.q[i]]
              /\ DOMAIN v.q = 1 .. Len(v.q) /\ Members(v) = v.q
         /\ v.k = "map" =>
              /\ v = Map(v.m) /\ v.m = [s \in DOMAIN v.m |-> v.m[s]]
              /\ IsFiniteSet(DOMAIN v.m) /\ Binary \notin DOMAIN v.m /\ Members(v) = v.m
         /\ v.k \notin {"list", "map"} => Members(v) = <<>>
         /\ Nesting(v) \in Nat
         /\ \A x \in DOMAIN Members(v) :
              Members(v)[x] \in Fields /\ Nesting(Members(v)[x]) < Nesting(v)
<1>1. IsFieldValue(v)
  BY FieldsAssumption
<1>2. v.k \in {"nil", "bool", "int", "float", "str", "enum", "list", "map"}
  BY <1>1 DEF IsFieldValue
<1>3. v.k = "nil" <=> v = Nil
  BY <1>1, KindsAre DEF IsFieldValue
<1>4. v.k = "str" => v = Str(v.s) /\ v.s # Binary
  BY <1>1 DEF IsFieldValue
<1>5. v.k = "list" => /\ v = List(v.q) /\ Len(v.q) \in Nat /\ v.q = [i \in 1 .. Len(v.q) |-> v.q[i]]
                      /\ DOMAIN v.q = 1 .. Len(v.q) /\ Members(v) = v.q
  <2>1. SUFFICES ASSUME v.k = "list" 
                 PROVE  /\ v = List(v.q) /\ Len(v.q) \in Nat /\ v.q = [i \in 1 .. Len(v.q) |-> v.q[i]]
                        /\ DOMAIN v.q = 1 .. Len(v.q) /\ Members(v) = v.q
    OBVIOUS
  <2>2. v = List(v.q) /\ Len(v.q) \in Nat /\ v.q = [i \in 1 .. Len(v.q) |-> v.q[i]]
    BY <1>1, <2>1 DEF IsFieldValue
  <2>3. Members(v) = v.q
    BY <2>1 DEF Members
  <2>4. DOMAIN [i \in 1 .. Len(v.q) |-> v.q[i]] = 1 .. Len(v.q)
    OBVIOUS
  <2>5. QED
    BY <2>2, <2>3, <2>4
<1>6. v.k = "map" => /\ v = Map(v.m) /\ v.m = [s \in DOMAIN v.m |-> v.m[s]]
                     /\ IsFiniteSet(DOMAIN v.m) /\ Binary \notin DOMAIN v.m /\ Members(v) = v.m
  BY <1>1 DEF IsFieldValue, Members
<1>7. v.k \notin {"list", "map"} => Members(v) = <<>>
  BY <1>2 DEF Members
<1>8. \A x \in DOMAIN Members(v) :
        Members(v)[x] \in Fields /\ Nesting(Members(v)[x]) < Nesting(v)
  <2>1. \A x \in DOMAIN Members(v) : Nesting(Members(v)[x]) < Nesting(v)
    BY FieldsAssumption
  <2>2. UNION {{Members(u)[x] : x \in DOMAIN Members(u)} : u \in Fields} \subseteq Fields
    BY FieldsAssumption
  <2>3. \A x \in DOMAIN Members(v) : Members(v)[x] \in {Members(v)[y] : y \in DOMAIN Members(v)}
    OBVIOUS
  <2>4. QED
    BY <2>1, <2>2, <2>3
<1>9. Nesting(v) \in Nat
  BY FieldsAssumption
<1>10. QED
  BY <1>2, <1>3, <1>4, <1>5, <1>6, <1>7, <1>8, <1>9

\* Tables that hold what is not nil, under its index or its name.
LEMMA ArrayTableIs ==
  ASSUME NEW q, NEW n \in Nat, DOMAIN q = 1 .. n
  PROVE  /\ ArrayTable(q).k = "table"
         /\ DOMAIN ArrayTable(q).e = {IntKey(i) : i \in {i \in 1 .. n : q[i] # Nil}}
         /\ \A x \in DOMAIN ArrayTable(q).e : ArrayTable(q).e[x] = q[x.i]
<1> DEFINE f == [x \in {IntKey(i) : i \in DOMAIN q} |-> q[x.i]]
<1>1. ArrayTable(q).k = "table" /\ ArrayTable(q).e = WithoutNil(f)
  BY KindsAre DEF ArrayTable
<1>2. \A i \in 1 .. n : IntKey(i) \in DOMAIN f /\ f[IntKey(i)] = q[i]
  BY KeysDiffer
<1>3. \A x \in DOMAIN f : \E i \in 1 .. n : x = IntKey(i) /\ f[x] = q[i]
  BY KeysDiffer
<1>4. \A x \in DOMAIN f : f[x] = q[x.i]
  OBVIOUS
<1>5. /\ DOMAIN WithoutNil(f) = {x \in DOMAIN f : f[x] # Nil}
      /\ \A x \in DOMAIN WithoutNil(f) : WithoutNil(f)[x] = f[x]
  BY DEF WithoutNil
<1> HIDE DEF f
<1>6. {x \in DOMAIN f : f[x] # Nil} = {IntKey(i) : i \in {i \in 1 .. n : q[i] # Nil}}
  BY <1>2, <1>3
<1>7. QED
  BY <1>1, <1>4, <1>5, <1>6

LEMMA ObjectTableIs ==
  ASSUME NEW m
  PROVE  /\ ObjectTable(m).k = "table"
         /\ DOMAIN ObjectTable(m).e = {StrKey(s) : s \in {s \in DOMAIN m : m[s] # Nil}}
         /\ \A x \in DOMAIN ObjectTable(m).e : ObjectTable(m).e[x] = m[x.s]
<1> DEFINE f == [x \in {StrKey(s) : s \in DOMAIN m} |-> m[x.s]]
<1>1. ObjectTable(m).k = "table" /\ ObjectTable(m).e = WithoutNil(f)
  BY KindsAre DEF ObjectTable
<1>2. \A s \in DOMAIN m : StrKey(s) \in DOMAIN f /\ f[StrKey(s)] = m[s]
  BY KeysDiffer
<1>3. \A x \in DOMAIN f : \E s \in DOMAIN m : x = StrKey(s) /\ f[x] = m[s]
  BY KeysDiffer
<1>4. \A x \in DOMAIN f : f[x] = m[x.s]
  OBVIOUS
<1>5. /\ DOMAIN WithoutNil(f) = {x \in DOMAIN f : f[x] # Nil}
      /\ \A x \in DOMAIN WithoutNil(f) : WithoutNil(f)[x] = f[x]
  BY DEF WithoutNil
<1> HIDE DEF f
<1>6. {x \in DOMAIN f : f[x] # Nil} = {StrKey(s) : s \in {s \in DOMAIN m : m[s] # Nil}}
  BY <1>2, <1>3
<1>7. QED
  BY <1>1, <1>4, <1>5, <1>6

\* Of places that all have a value one can be chosen at each, and at one place whichever.
LEMMA OneOfEachIs ==
  ASSUME NEW f, \A x \in DOMAIN f : f[x] # {}
  PROVE  /\ OneOfEach(f) # {}
         /\ \A x \in DOMAIN f : \A y \in f[x] : \E g \in OneOfEach(f) : g[x] = y
         /\ \A g \in OneOfEach(f) :
              g = [x \in DOMAIN f |-> g[x]] /\ \A x \in DOMAIN f : g[x] \in f[x]
<1> DEFINE some == [x \in DOMAIN f |-> CHOOSE y \in f[x] : TRUE]
<1>1. \A x \in DOMAIN f : some[x] \in f[x]
  OBVIOUS
<1>2. some \in [DOMAIN f -> UNION {f[x] : x \in DOMAIN f}]
  BY <1>1
<1>3. some \in OneOfEach(f)
  BY <1>1, <1>2 DEF OneOfEach
<1> HIDE DEF some
<1>4. ASSUME NEW x \in DOMAIN f, NEW y \in f[x]
      PROVE  \E g \in OneOfEach(f) : g[x] = y
  <2> DEFINE g == [z \in DOMAIN f |-> IF z = x THEN y ELSE some[z]]
  <2>1. \A z \in DOMAIN f : g[z] \in f[z]
    BY <1>1
  <2>2. g \in [DOMAIN f -> UNION {f[z] : z \in DOMAIN f}]
    BY <2>1
  <2>3. g \in OneOfEach(f) /\ g[x] = y
    BY <2>1, <2>2 DEF OneOfEach
  <2>4. QED
    BY <2>3
<1>5. \A g \in OneOfEach(f) :
        g = [x \in DOMAIN f |-> g[x]] /\ \A x \in DOMAIN f : g[x] \in f[x]
  BY DEF OneOfEach
<1>6. QED
  BY <1>3, <1>4, <1>5

\* raw_len of an array without gaps is the number of its entries; one with gaps may be
\* taken for shorter than it is.
LEMMA LengthsOfArray ==
  ASSUME NEW n \in Nat, NEW I \in SUBSET (1 .. n), NEW e, DOMAIN e = {IntKey(i) : i \in I}
  PROVE  /\ I = 1 .. n => Lengths(e) = {n}
         /\ I # 1 .. n => \E b \in Lengths(e) : b < n
<1>1. \A i : IntKey(i) \in DOMAIN e <=> i \in I
  <2>1. ASSUME NEW i, IntKey(i) \in DOMAIN e
        PROVE  i \in I
    <3>1. PICK j \in I : IntKey(i) = IntKey(j)
      BY <2>1
    <3>2. IntKey(i).i = i /\ IntKey(j).i = j
      BY KeysDiffer
    <3>3. QED
      BY <3>1, <3>2
  <2>2. QED
    BY <2>1
<1>2. IsFiniteSet(DOMAIN e)
  <2> DEFINE keys == [i \in I |-> IntKey(i)]
  <2>1. IsFiniteSet(I)
    <3>1. IsFiniteSet(1 .. n)
      BY FS_Interval
    <3>2. QED
      BY <3>1, FS_Subset
  <2>2. keys \in Surjection(I, DOMAIN e)
    BY DEF Surjection
  <2>3. QED
    BY <2>1, <2>2, FS_Surjection
<1>3. Cardinality(DOMAIN e) \in Nat
  BY <1>2, FS_CardinalityType
<1>4. ASSUME NEW b \in Nat, 1 .. b \subseteq I
      PROVE  b <= Cardinality(DOMAIN e)
  <2> DEFINE keys == [i \in 1 .. b |-> IntKey(i)]
  <2>1. keys \in [1 .. b -> DOMAIN e]
    BY <1>1, <1>4
  <2>2. keys \in Injection(1 .. b, DOMAIN e)
    BY <2>1, KeysDiffer DEF Injection, IsInjective
  <2>3. IsFiniteSet(1 .. b) /\ Cardinality(1 .. b) = b
    BY FS_Interval
  <2>4. QED
    BY <1>2, <2>2, <2>3, FS_Injection
<1>5. ASSUME NEW b \in Nat, 1 .. b \subseteq I, b + 1 \notin I
      PROVE  b \in Lengths(e)
  <2>1. b \in 0 .. Cardinality(DOMAIN e) + 3
    BY <1>3, <1>4, <1>5
  <2>2. b = 0 \/ b \in I
    BY <1>5
  <2>3. QED
    BY <1>1, <1>5, <2>1, <2>2 DEF Lengths
<1>6. CASE I = 1 .. n
  <2>1. n \in Lengths(e)
    BY <1>5, <1>6
  <2>2. ASSUME NEW b \in Lengths(e)
        PROVE  b = n
    <3>1. b \in 0 .. Cardinality(DOMAIN e) + 3 /\ (b = 0 \/ b \in I) /\ b + 1 \notin I
      BY <1>1 DEF Lengths
    <3>2. QED
      BY <1>3, <1>6, <3>1
  <2>3. QED
    BY <1>6, <2>1, <2>2
<1>7. CASE I # 1 .. n
  <2> DEFINE gaps == (1 .. n) \ I
  <2>1. gaps \in SUBSET Nat /\ gaps # {}
    <3>1. 1 .. n \subseteq Nat
      OBVIOUS
    <3>2. \E i \in 1 .. n : i \notin I
      BY <1>7
    <3>3. QED
      BY <3>1, <3>2
  <2>2. PICK m \in gaps : \A l \in gaps : m <= l
    BY <2>1, LeastNatural
  <2>3. m - 1 \in Nat /\ 1 .. m - 1 \subseteq I /\ (m - 1) + 1 \notin I /\ m - 1 < n
    BY <2>2
  <2>4. QED
    BY <1>5, <1>7, <2>3
<1>8. QED
  BY <1>6, <1>7

\* One whose keys are names has no length.
LEMMA LengthsOfObject ==
  ASSUME NEW S, IsFiniteSet(S), NEW e, DOMAIN e = {StrKey(s) : s \in S}
  PROVE  Lengths(e) = {0}
<1>1. \A i : IntKey(i) \notin DOMAIN e
  BY KeysDiffer
<1>2. IsFiniteSet(DOMAIN e)
  <2> DEFINE keys == [s \in S |-> StrKey(s)]
  <2>1. keys \in Surjection(S, DOMAIN e)
    BY DEF Surjection
  <2>2. QED
    BY <2>1, FS_Surjection
<1>3. Cardinality(DOMAIN e) \in Nat
  BY <1>2, FS_CardinalityType
<1>4. 0 \in 0 .. Cardinality(DOMAIN e) + 3
  BY <1>3
<1>5. QED
  BY <1>1, <1>4 DEF Lengths

\* What a table is converted to if its length is n.
WithLength(e, n) ==
  IF n > 0
  THEN {List(q) : q \in OneOfEach([i \in 1..n |-> IF IntKey(i) \in DOMAIN e THEN e[IntKey(i)] ELSE {Nil}])}
  ELSE IF \E x \in DOMAIN e : KeyTexts(x) = {}
  THEN {Map(<<>>)}
  ELSE {Map(m) : m \in OneOfEach([s \in UNION {KeyTexts(x) : x \in DOMAIN e} |->
          UNION {e[x] : x \in {x \in DOMAIN e : s \in KeyTexts(x)}}])}

LEMMA TableToFieldIs ==
  ASSUME NEW e
  PROVE  TableToField(e) = UNION {WithLength(e, n) : n \in Lengths(e)}
BY DEF TableToField, WithLength

\* It is converted to something: to a list that long, or to a map.
LEMMA WithLengthIs ==
  ASSUME NEW e, NEW n \in Nat, \A x \in DOMAIN e : e[x] # {}
  PROVE  /\ WithLength(e, n) # {}
         /\ \A w \in WithLength(e, n) :
              \/ w.k = "list" /\ DOMAIN w.q = 1 .. n /\ n > 0
              \/ w.k = "map" /\ n = 0
<1>1. CASE n > 0
  <2> DEFINE f == [i \in 1 .. n |-> IF IntKey(i) \in DOMAIN e THEN e[IntKey(i)] ELSE {Nil}]
  <2>1. \A i \in DOMAIN f : f[i] # {}
    OBVIOUS
  <2>2. WithLength(e, n) = {List(q) : q \in OneOfEach(f)}
    BY <1>1 DEF WithLength
  <2>3. DOMAIN f = 1 .. n
    OBVIOUS
  <2> HIDE DEF f
  <2>4. OneOfEach(f) # {} /\ \A q \in OneOfEach(f) : q = [i \in DOMAIN f |-> q[i]]
    BY <2>1, OneOfEachIs
  <2>5. \A q \in OneOfEach(f) : List(q).k = "list" /\ List(q).q = q /\ DOMAIN q = 1 .. n
    BY <2>3, <2>4, KindsAre
  <2>6. QED
    BY <1>1, <2>2, <2>4, <2>5
<1>2. CASE n = 0 /\ \E x \in DOMAIN e : KeyTexts(x) = {}
  <2>1. WithLength(e, n) = {Map(<<>>)}
    BY <1>2 DEF WithLength
  <2>2. QED
    BY <1>2, <2>1, KindsAre
<1>3. CASE n = 0 /\ ~\E x \in DOMAIN e : KeyTexts(x) = {}
  <2> DEFINE f == [s \in UNION {KeyTexts(x) : x \in DOMAIN e} |->
                     UNION {e[x] : x \in {x \in DOMAIN e : s \in KeyTexts(x)}}]
  <2>1. \A s \in DOMAIN f : f[s] # {}
    <3>1. SUFFICES ASSUME NEW x \in DOMAIN e, NEW s \in KeyTexts(x), s \in DOMAIN f
                   PROVE  f[s] # {}
      OBVIOUS
    <3>2. e[x] \subseteq f[s]
      OBVIOUS
    <3>3. QED
      BY <3>2
  <2>2. WithLength(e, n) = {Map(m) : m \in OneOfEach(f)}
    BY <1>3 DEF WithLength
  <2> HIDE DEF f
  <2>3. OneOfEach(f) # {}
    BY <2>1, OneOfEachIs
  <2>4. QED
    BY <1>3, <2>2, <2>3, KindsAre
<1>4. QED
  BY <1>1, <1>2, <1>3

\* Of a table with names for keys, the names are kept.
LEMMA WithNamesIs ==
  ASSUME NEW S, Binary \notin S, NEW e, DOMAIN e = {StrKey(s) : s \in S}
  PROVE  WithLength(e, 0) = {Map(m) : m \in OneOfEach([s \in S |-> e[StrKey(s)]])}
<1>1. \A s \in S : KeyTexts(StrKey(s)) = {s}
  BY KeysDiffer
<1>2. ~\E x \in DOMAIN e : KeyTexts(x) = {}
  BY <1>1
<1>3. UNION {KeyTexts(x) : x \in DOMAIN e} = S
  BY <1>1
<1>4. ASSUME NEW s \in S
      PROVE  UNION {e[x] : x \in {x \in DOMAIN e : s \in KeyTexts(x)}} = e[StrKey(s)]
  <2>1. {x \in DOMAIN e : s \in KeyTexts(x)} = {StrKey(s)}
    BY <1>1
  <2>2. QED
    BY <2>1
<1>5. WithLength(e, 0)
        = {Map(m) : m \in OneOfEach([s \in UNION {KeyTexts(x) : x \in DOMAIN e} |->
             UNION {e[x] : x \in {x \in DOMAIN e : s \in KeyTexts(x)}}])}
  BY <1>2 DEF WithLength
<1>6. [s \in UNION {KeyTexts(x) : x \in DOMAIN e} |->
         UNION {e[x] : x \in {x \in DOMAIN e : s \in KeyTexts(x)}}] = [s \in S |-> e[StrKey(s)]]
  BY <1>3, <1>4
<1>7. QED
  BY <1>5, <1>6

\* What comes back of a value that went to Lua.
Back(v) == LuaToField(FieldToLua(v))

\* Only what is nil is nil in Lua.
LEMMA NilInLua ==
  ASSUME NEW v \in Fields
  PROVE  FieldToLua(v) = Nil <=> v = Nil
<1> DEFINE members == [x \in DOMAIN Members(v) |-> MemberToLua(Members(v)[x])]
<1>1. FieldToLua(v) = ToLua(v, members)
  BY DEF FieldToLua
<1> HIDE DEF members
<1>2. v.k = "list" => ToLua(v, members) = Table(WithoutNil([x \in {IntKey(i) : i \in DOMAIN members} |-> members[x.i]]))
  BY DEF ToLua, ArrayTable
<1>3. v.k = "map" => ToLua(v, members) = Table(WithoutNil([x \in {StrKey(s) : s \in DOMAIN members} |-> members[x.s]]))
  BY DEF ToLua, ObjectTable
<1>4. v.k = "enum" => ToLua(v, members) = Str(v.s)
  BY DEF ToLua
<1>5. v.k \notin {"enum", "list", "map"} => ToLua(v, members) = v
  BY DEF ToLua
<1>6. \A e : Table(e) # Nil
  BY KindsAre
<1>7. \A t : Str(t) # Nil
  BY KindsAre
<1>8. v.k = "nil" <=> v = Nil
  BY FieldValues
<1>9. QED
  BY <1>1, <1>2, <1>3, <1>4, <1>5, <1>6, <1>7, <1>8

\* A value without members comes back as it was, but for an enum.
LEMMA BackOfOne ==
  ASSUME NEW v \in Fields, v.k \notin {"list", "map"}
  PROVE  /\ v.k # "enum" => Back(v) = {v}
         /\ v.k = "enum" => \E t : Back(v) = {Str(t)}
<1>1. \A w, entries : w.k \notin {"table", "function"} =>
        ToFields(w, entries) = IF w = Str(Binary) THEN {Str("")} ELSE {w}
  BY DEF ToFields
<1>2. \A w : w.k \notin {"table", "function"} =>
        LuaToField(w) = IF w = Str(Binary) THEN {Str("")} ELSE {w}
  BY <1>1 DEF LuaToField
<1>3. CASE v.k = "enum"
  <2>1. FieldToLua(v) = Str(v.s)
    BY <1>3 DEF FieldToLua, ToLua
  <2>2. Back(v) \in {{Str("")}, {Str(v.s)}}
    BY <1>2, <2>1, KindsAre DEF Back
  <2>3. QED
    BY <1>3, <2>2
<1>4. CASE v.k # "enum"
  <2>1. FieldToLua(v) = v
    BY <1>4 DEF FieldToLua, ToLua
  <2>2. v # Str(Binary)
    <3>1. v.k = "str" => v = Str(v.s) /\ v.s # Binary
      BY FieldValues
    <3>2. Str(Binary).k = "str" /\ Str(Binary).s = Binary
      BY KindsAre
    <3>3. QED
      BY <3>1, <3>2
  <2>3. v.k \notin {"table", "function"}
    BY FieldValues
  <2>4. QED
    BY <1>2, <1>4, <2>1, <2>2, <2>3 DEF Back
<1>5. QED
  BY <1>3, <1>4

\* The entries of a table that comes back are what comes back of them.
LEMMA BackOfTable ==
  ASSUME NEW v, NEW e, FieldToLua(v) = Table(e),
         \A x \in DOMAIN e : \E u \in Fields : e[x] = FieldToLua(u)
  PROVE  Back(v) = TableToField([x \in DOMAIN e |-> LuaToField(e[x])])
<1>1. \A x \in DOMAIN e : MemberToFields(e[x]) = LuaToField(e[x])
  BY FieldsAssumption
<1>2. Table(e).k = "table" /\ Members(Table(e)) = e
  BY KindsAre DEF Members
<1>3. LuaToField(Table(e)) = TableToField([x \in DOMAIN e |-> MemberToFields(e[x])])
  <2> DEFINE t == Table(e)
             f == [x \in DOMAIN e |-> MemberToFields(e[x])]
  <2>1. LuaToField(t) = ToFields(t, [x \in DOMAIN Members(t) |-> MemberToFields(Members(t)[x])])
    BY DEF LuaToField
  <2>2. t.k = "table" /\ Members(t) = e
    BY <1>2
  <2> HIDE DEF t
  <2>3. [x \in DOMAIN Members(t) |-> MemberToFields(Members(t)[x])] = f
    BY <2>2
  <2> HIDE DEF f
  <2>4. LuaToField(t) = TableToField(f)
    BY <2>1, <2>2, <2>3, KindsAre DEF ToFields
  <2>5. QED
    BY <2>4 DEF t, f
<1>4. [x \in DOMAIN e |-> MemberToFields(e[x])] = [x \in DOMAIN e |-> LuaToField(e[x])]
  BY <1>1
<1>5. QED
  BY <1>3, <1>4 DEF Back

LEMMA BackOfList ==
  ASSUME NEW v \in Fields, v.k = "list"
  PROVE  \E e : /\ DOMAIN e = {IntKey(i) : i \in {i \in 1 .. Len(v.q) : v.q[i] # Nil}}
                /\ \A x \in DOMAIN e : e[x] = Back(v.q[x.i])
                /\ Back(v) = UNION {WithLength(e, n) : n \in Lengths(e)}
<1> DEFINE N == Len(v.q)
           lua == [i \in DOMAIN v.q |-> MemberToLua(v.q[i])]
           t == ArrayTable(lua)
           e == [x \in DOMAIN t.e |-> LuaToField(t.e[x])]
<1>1. /\ N \in Nat /\ DOMAIN v.q = 1 .. N /\ Members(v) = v.q
      /\ \A i \in 1 .. N : v.q[i] \in Fields
  BY FieldValues
<1>2. \A i \in 1 .. N : lua[i] = FieldToLua(v.q[i]) /\ (lua[i] # Nil <=> v.q[i] # Nil)
  BY <1>1, NilInLua, FieldsAssumption
<1>3. FieldToLua(v) = t
  BY <1>1 DEF FieldToLua, ToLua
<1>4. DOMAIN lua = 1 .. N
  BY <1>1
<1> HIDE DEF N, lua
<1>5. /\ t.k = "table" /\ DOMAIN t.e = {IntKey(i) : i \in {i \in 1 .. N : lua[i] # Nil}}
      /\ \A x \in DOMAIN t.e : t.e[x] = lua[x.i]
  BY <1>1, <1>4, ArrayTableIs
<1>6. t = Table(t.e)
  BY KindsAre DEF ArrayTable
<1>7. DOMAIN t.e = {IntKey(i) : i \in {i \in 1 .. N : v.q[i] # Nil}}
  BY <1>2, <1>5
<1> HIDE DEF t
<1>8. \A x \in DOMAIN t.e : x.i \in 1 .. N /\ t.e[x] = FieldToLua(v.q[x.i])
  BY <1>2, <1>5, <1>7, KeysDiffer
<1>9. Back(v) = TableToField(e)
  <2>1. \A x \in DOMAIN t.e : \E u \in Fields : t.e[x] = FieldToLua(u)
    BY <1>1, <1>8
  <2>2. FieldToLua(v) = Table(t.e)
    BY <1>3, <1>6
  <2>3. QED
    BY <2>1, <2>2, BackOfTable
<1>10. \A x \in DOMAIN e : e[x] = Back(v.q[x.i])
  BY <1>8 DEF Back
<1>11. DOMAIN e = {IntKey(i) : i \in {i \in 1 .. Len(v.q) : v.q[i] # Nil}}
  BY <1>7 DEF N
<1> HIDE DEF e
<1>12. QED
  BY <1>9, <1>10, <1>11, TableToFieldIs

LEMMA BackOfMap ==
  ASSUME NEW v \in Fields, v.k = "map"
  PROVE  \E S : /\ S = {s \in DOMAIN v.m : v.m[s] # Nil}
                /\ Back(v) = {Map(m) : m \in OneOfEach([s \in S |-> Back(v.m[s])])}
<1> DEFINE S == {s \in DOMAIN v.m : v.m[s] # Nil}
           lua == [s \in DOMAIN v.m |-> MemberToLua(v.m[s])]
           t == ObjectTable(lua)
           e == [x \in DOMAIN t.e |-> LuaToField(t.e[x])]
<1>1. /\ IsFiniteSet(DOMAIN v.m) /\ Binary \notin DOMAIN v.m /\ Members(v) = v.m
      /\ \A s \in DOMAIN v.m : v.m[s] \in Fields
  BY FieldValues
<1>2. \A s \in DOMAIN v.m : lua[s] = FieldToLua(v.m[s]) /\ (lua[s] # Nil <=> v.m[s] # Nil)
  BY <1>1, NilInLua, FieldsAssumption
<1>3. FieldToLua(v) = t
  BY <1>1 DEF FieldToLua, ToLua
<1>4. DOMAIN lua = DOMAIN v.m
  OBVIOUS
<1> HIDE DEF lua
<1>5. /\ t.k = "table" /\ DOMAIN t.e = {StrKey(s) : s \in {s \in DOMAIN lua : lua[s] # Nil}}
      /\ \A x \in DOMAIN t.e : t.e[x] = lua[x.s]
  BY ObjectTableIs
<1>6. t = Table(t.e)
  BY KindsAre DEF ObjectTable
<1>7. DOMAIN t.e = {StrKey(s) : s \in S}
  <2>1. {s \in DOMAIN lua : lua[s] # Nil} = S
    BY <1>2, <1>4
  <2>2. QED
    BY <1>5, <2>1
<1> HIDE DEF t
<1>8. \A x \in DOMAIN t.e : x.s \in S /\ t.e[x] = FieldToLua(v.m[x.s])
  BY <1>2, <1>5, <1>7, KeysDiffer
<1>9. Back(v) = TableToField(e)
  <2>1. \A x \in DOMAIN t.e : \E u \in Fields : t.e[x] = FieldToLua(u)
    BY <1>1, <1>8
  <2>2. FieldToLua(v) = Table(t.e)
    BY <1>3, <1>6
  <2>3. QED
    BY <2>1, <2>2, BackOfTable
<1>10. \A s \in S : e[StrKey(s)] = Back(v.m[s])
  BY <1>7, <1>8, KeysDiffer DEF Back
<1>11. DOMAIN e = {StrKey(s) : s \in S}
  BY <1>7
<1>12. IsFiniteSet(S) /\ Binary \notin S
  BY <1>1, FS_Subset
<1> HIDE DEF e, S
<1>13. Lengths(e) = {0}
  BY <1>11, <1>12, LengthsOfObject
<1>14. WithLength(e, 0) = {Map(m) : m \in OneOfEach([s \in S |-> e[StrKey(s)]])}
  BY <1>11, <1>12, WithNamesIs
<1>15. Back(v) = WithLength(e, 0)
  BY <1>9, <1>13, TableToFieldIs
<1>16. [s \in S |-> e[StrKey(s)]] = [s \in S |-> Back(v.m[s])]
  BY <1>10
<1>17. QED
  BY <1>14, <1>15, <1>16 DEF S

\* A value that is as Lua leaves it: no enum, no nil and no empty list in it.
Good(v) == v.k \notin {"enum", "nil"} /\ v # List(<<>>)
AllGood(v) == \A u \in Inside(v) : Good(u)

LEMMA AllGoodIs ==
  ASSUME NEW v \in Fields
  PROVE  AllGood(v) <=> Good(v) /\ \A x \in DOMAIN Members(v) : AllGood(Members(v)[x])
<1>1. \A x \in DOMAIN Members(v) : MemberInside(Members(v)[x]) = Inside(Members(v)[x])
  BY FieldValues, FieldsAssumption
<1>2. Inside(v) = {v} \cup UNION {Inside(Members(v)[x]) : x \in DOMAIN Members(v)}
  BY <1>1 DEF Inside
<1>3. QED
  BY <1>2 DEF AllGood

\* What comes back is what it was, or not: nil is, but for the place where it was.
Echoes(v) == Back(v) # {} /\ (v # Nil => (AllGood(v) <=> Back(v) = {v}))

\* Members that all come back as themselves are the members of what comes back; if some
\* may come back as others, so may the whole.
LEMMA OfMembers ==
  ASSUME NEW f, NEW g, DOMAIN f = DOMAIN g, g = [x \in DOMAIN g |-> g[x]],
         \A x \in DOMAIN g : f[x] # {}
  PROVE  /\ OneOfEach(f) # {}
         /\ (\A x \in DOMAIN g : f[x] = {g[x]}) <=> OneOfEach(f) = {g}
<1>1. /\ OneOfEach(f) # {}
      /\ \A x \in DOMAIN f : \A y \in f[x] : \E h \in OneOfEach(f) : h[x] = y
      /\ \A h \in OneOfEach(f) :
           h = [x \in DOMAIN f |-> h[x]] /\ \A x \in DOMAIN f : h[x] \in f[x]
  BY OneOfEachIs
<1>2. ASSUME \A x \in DOMAIN g : f[x] = {g[x]}, NEW h \in OneOfEach(f)
      PROVE  h = g
  <2>1. \A x \in DOMAIN g : h[x] = g[x]
    BY <1>1, <1>2
  <2>2. h = [x \in DOMAIN g |-> h[x]]
    BY <1>1
  <2>3. QED
    BY <2>1, <2>2
<1>3. ASSUME OneOfEach(f) = {g}, NEW x \in DOMAIN g
      PROVE  f[x] = {g[x]}
  <2>1. \A y \in f[x] : y = g[x]
    BY <1>1, <1>3
  <2>2. QED
    BY <2>1
<1>4. QED
  BY <1>1, <1>2, <1>3

LEMMA ListEchoes ==
  ASSUME NEW v \in Fields, v.k = "list", \A x \in DOMAIN Members(v) : Echoes(Members(v)[x])
  PROVE  Echoes(v)
<1> DEFINE N == Len(v.q)
           I == {i \in 1 .. N : v.q[i] # Nil}
<1>0. N \in Nat
  BY FieldValues
<1>1. /\ N \in Nat /\ DOMAIN v.q = 1 .. N /\ Members(v) = v.q /\ v = List(v.q)
      /\ v.q = [i \in 1 .. N |-> v.q[i]]
      /\ \A i \in 1 .. N : v.q[i] \in Fields
      /\ v # Nil
  BY FieldValues
<1>2. PICK e : /\ DOMAIN e = {IntKey(i) : i \in I}
               /\ \A x \in DOMAIN e : e[x] = Back(v.q[x.i])
               /\ Back(v) = UNION {WithLength(e, n) : n \in Lengths(e)}
  BY BackOfList
<1>3. \A i \in 1 .. N : Echoes(v.q[i])
  BY <1>1
<1>4. AllGood(v) <=> Good(v) /\ \A i \in 1 .. N : AllGood(v.q[i])
  BY <1>1, AllGoodIs
<1>5. I \in SUBSET (1 .. N)
  OBVIOUS
<1>6. \A i \in I : IntKey(i) \in DOMAIN e /\ e[IntKey(i)] = Back(v.q[i])
  BY <1>2, KeysDiffer
<1>7. \A x \in DOMAIN e : e[x] # {}
  BY <1>2, <1>3, <1>5, KeysDiffer DEF Echoes
<1>8. Lengths(e) \subseteq Nat
  BY DEF Lengths
<1> HIDE DEF N
<1>9. CASE I # 1 .. N
  <2>1. PICK b \in Lengths(e) : b < N
    BY <1>1, <1>2, <1>5, <1>9, LengthsOfArray
  <2>2. WithLength(e, b) # {} /\ \A w \in WithLength(e, b) :
          (w.k = "list" /\ DOMAIN w.q = 1 .. b /\ b > 0) \/ (w.k = "map" /\ b = 0)
    BY <1>7, <1>8, <2>1, WithLengthIs
  <2>3. 1 .. b # 1 .. N
    <3>1. b \in Nat /\ N \in Nat /\ b < N
      BY <1>1, <1>8, <2>1
    <3>2. N \in 1 .. N /\ N \notin 1 .. b
      BY <3>1
    <3>3. QED
      BY <3>2
  <2>4. v \notin WithLength(e, b)
    BY <1>1, <2>2, <2>3
  <2>5. Back(v) # {} /\ Back(v) # {v}
    BY <1>2, <2>1, <2>2, <2>4
  <2>6. PICK i \in 1 .. N : v.q[i] = Nil
    BY <1>9
  <2>7. ~AllGood(v)
    <3>1. ~AllGood(Nil)
      <4>1. Nil \in Inside(Nil)
        BY DEF Inside
      <4>2. ~Good(Nil)
        BY KindsAre DEF Good
      <4>3. QED
        BY <4>1, <4>2 DEF AllGood
    <3>2. QED
      BY <1>4, <2>6, <3>1
  <2>8. QED
    BY <2>5, <2>7 DEF Echoes
<1>10. CASE I = 1 .. N /\ N = 0
  <2>1. 1 .. 0 = {}
    OBVIOUS
  <2>2. Lengths(e) = {0}
    BY <1>1, <1>2, <1>5, <1>10, LengthsOfArray
  <2>3. WithLength(e, 0) # {} /\ \A w \in WithLength(e, 0) : w.k = "map"
    BY <1>7, WithLengthIs
  <2>4. Back(v) = WithLength(e, 0)
    BY <1>2, <2>2
  <2>6. Back(v) # {} /\ Back(v) # {v}
    BY <2>3, <2>4
  <2>7. v = List(<<>>)
    <3>1. v.q = <<>>
      BY <1>1, <1>10, <2>1
    <3>2. QED
      BY <1>1, <3>1
  <2>8. ~AllGood(v)
    BY <1>4, <2>7 DEF Good
  <2>9. QED
    BY <2>6, <2>8 DEF Echoes
<1>11. CASE I = 1 .. N /\ N > 0
  <2> DEFINE f == [i \in 1 .. N |-> Back(v.q[i])]
  <2>1. Lengths(e) = {N}
    BY <1>1, <1>2, <1>5, <1>11, LengthsOfArray
  <2>2. Back(v) = WithLength(e, N)
    BY <1>2, <2>1
  <2>3. [i \in 1 .. N |-> IF IntKey(i) \in DOMAIN e THEN e[IntKey(i)] ELSE {Nil}] = f
    BY <1>6, <1>11
  <2>4. WithLength(e, N) = {List(q) : q \in OneOfEach(f)}
    BY <1>11, <2>3 DEF WithLength
  <2>5. DOMAIN f = DOMAIN v.q /\ v.q = [x \in DOMAIN v.q |-> v.q[x]]
    BY <1>1
  <2>6. \A i \in 1 .. N : f[i] # {} /\ (AllGood(v.q[i]) <=> f[i] = {v.q[i]})
    BY <1>3, <1>11 DEF Echoes
  <2> HIDE DEF f
  <2>7. OneOfEach(f) # {} /\ ((\A i \in DOMAIN v.q : f[i] = {v.q[i]}) <=> OneOfEach(f) = {v.q})
    <3>1. \A i \in DOMAIN v.q : f[i] # {}
      BY <1>1, <2>6
    <3>2. QED
      BY <2>5, <3>1, OfMembers
  <2>8. Good(v)
    <3>1. v # List(<<>>)
      <4>1. DOMAIN v.q # {}
        <5>1. 1 \in 1 .. N
          BY <1>0, <1>11
        <5>2. QED
          BY <1>1, <5>1
      <4>2. List(<<>>).q = <<>>
        BY KindsAre
      <4>3. DOMAIN <<>> = {}
        OBVIOUS
      <4>4. QED
        BY <4>1, <4>2, <4>3
    <3>2. QED
      BY <3>1 DEF Good
  <2>9. OneOfEach(f) = {v.q} <=> {List(q) : q \in OneOfEach(f)} = {v}
    <3>1. ASSUME {List(q) : q \in OneOfEach(f)} = {v}
          PROVE  OneOfEach(f) = {v.q}
      <4>1. \A q \in OneOfEach(f) : List(q) = v
        BY <3>1
      <4>2. \A q \in OneOfEach(f) : q = v.q
        BY <4>1, KindsAre
      <4>3. QED
        BY <2>7, <4>2
    <3>2. QED
      BY <1>1, <3>1
  <2>10. AllGood(v) <=> \A i \in DOMAIN v.q : f[i] = {v.q[i]}
    BY <1>1, <1>4, <2>6, <2>8
  <2>11. Back(v) = {List(q) : q \in OneOfEach(f)}
    BY <2>2, <2>4
  <2>12. Back(v) # {} /\ (AllGood(v) <=> Back(v) = {v})
    BY <2>7, <2>9, <2>10, <2>11
  <2>13. QED
    BY <2>12 DEF Echoes
<1>12. N = 0 \/ N > 0
  BY <1>0
<1>13. QED
  BY <1>9, <1>10, <1>11, <1>12

LEMMA MapEchoes ==
  ASSUME NEW v \in Fields, v.k = "map", \A x \in DOMAIN Members(v) : Echoes(Members(v)[x])
  PROVE  Echoes(v)
<1>1. /\ Members(v) = v.m /\ v = Map(v.m) /\ v # Nil
      /\ v.m = [s \in DOMAIN v.m |-> v.m[s]]
      /\ \A s \in DOMAIN v.m : v.m[s] \in Fields
  BY FieldValues
<1>2. PICK S : /\ S = {s \in DOMAIN v.m : v.m[s] # Nil}
               /\ Back(v) = {Map(m) : m \in OneOfEach([s \in S |-> Back(v.m[s])])}
  BY BackOfMap
<1>3. \A s \in DOMAIN v.m : Echoes(v.m[s])
  BY <1>1
<1>4. AllGood(v) <=> \A s \in DOMAIN v.m : AllGood(v.m[s])
  <2>1. Good(v)
    BY KindsAre DEF Good
  <2>2. QED
    BY <1>1, <2>1, AllGoodIs
<1> DEFINE f == [s \in S |-> Back(v.m[s])]
<1>5. \A s \in DOMAIN f : f[s] # {}
  BY <1>2, <1>3 DEF Echoes
<1>6. CASE S # DOMAIN v.m
  <2>1. DOMAIN f = S /\ Back(v) = {Map(m) : m \in OneOfEach(f)}
    BY <1>2
  <2> HIDE DEF f
  <2>2. OneOfEach(f) # {} /\ \A m \in OneOfEach(f) : m = [s \in DOMAIN f |-> m[s]]
    <3>1. \A x \in DOMAIN f : f[x] # {}
      BY <1>5
    <3>2. OneOfEach(f) # {}
      BY ONLY <3>1, OneOfEachIs
    <3>3. \A m \in OneOfEach(f) : m = [s \in DOMAIN f |-> m[s]]
      BY ONLY <3>1, OneOfEachIs
    <3>4. QED
      BY <3>2, <3>3
  <2>3. \A m \in OneOfEach(f) : DOMAIN m = S
    BY <2>1, <2>2
  <2>4. \A m \in OneOfEach(f) : Map(m) # v
    BY <1>6, <2>3, KindsAre
  <2>5. Back(v) # {} /\ Back(v) # {v}
    BY <2>1, <2>2, <2>4
  <2>6. PICK s \in DOMAIN v.m : v.m[s] = Nil
    BY <1>2, <1>6
  <2>7. ~AllGood(Nil)
    <3>1. Nil \in Inside(Nil)
      BY DEF Inside
    <3>2. ~Good(Nil)
      BY KindsAre DEF Good
    <3>3. QED
      BY <3>1, <3>2 DEF AllGood
  <2>8. QED
    BY <1>4, <2>5, <2>6, <2>7 DEF Echoes
<1>7. CASE S = DOMAIN v.m
  <2>1. DOMAIN f = DOMAIN v.m
    BY <1>7
  <2>2. \A s \in DOMAIN v.m : f[s] # {} /\ (AllGood(v.m[s]) <=> f[s] = {v.m[s]})
    BY <1>2, <1>3, <1>7 DEF Echoes
  <2>3. Back(v) = {Map(m) : m \in OneOfEach(f)}
    BY <1>2
  <2> HIDE DEF f
  <2>4. OneOfEach(f) # {} /\ ((\A s \in DOMAIN v.m : f[s] = {v.m[s]}) <=> OneOfEach(f) = {v.m})
    BY <1>1, <2>1, <2>2, OfMembers
  <2>5. OneOfEach(f) = {v.m} <=> {Map(m) : m \in OneOfEach(f)} = {v}
    <3>1. ASSUME {Map(m) : m \in OneOfEach(f)} = {v}
          PROVE  OneOfEach(f) = {v.m}
      <4>1. \A m \in OneOfEach(f) : Map(m) = v
        BY <3>1
      <4>2. \A m \in OneOfEach(f) : m = v.m
        BY <4>1, KindsAre
      <4>3. QED
        BY <2>4, <4>2
    <3>2. QED
      BY <1>1, <3>1
  <2>6. QED
    BY <1>4, <2>2, <2>3, <2>4, <2>5 DEF Echoes
<1>8. QED
  BY <1>6, <1>7

LEMMA AllEcho == \A v \in Fields : Echoes(v)
<1> DEFINE T == {n \in Nat : \A v \in Fields : Nesting(v) < n => Echoes(v)}
<1>1. 0 \in T
  <2>1. \A v \in Fields : Nesting(v) \in Nat
    BY FieldValues
  <2>2. QED
    BY <2>1
<1>2. ASSUME NEW n \in T
      PROVE  n + 1 \in T
  <2>1. SUFFICES ASSUME NEW v \in Fields, Nesting(v) < n + 1
                 PROVE  Echoes(v)
    OBVIOUS
  <2>2. \A x \in DOMAIN Members(v) : Echoes(Members(v)[x])
    <3>1. SUFFICES ASSUME NEW x \in DOMAIN Members(v)
                   PROVE  Echoes(Members(v)[x])
      OBVIOUS
    <3>2. Members(v)[x] \in Fields /\ Nesting(Members(v)[x]) < Nesting(v) /\ Nesting(v) \in Nat
      BY FieldValues
    <3>3. Nesting(Members(v)[x]) \in Nat
      BY <3>2, FieldValues
    <3>4. Nesting(Members(v)[x]) < n
      BY <2>1, <3>2, <3>3
    <3>5. QED
      BY <3>2, <3>4
  <2>3. CASE v.k = "list"
    BY <2>2, <2>3, ListEchoes
  <2>4. CASE v.k = "map"
    BY <2>2, <2>4, MapEchoes
  <2>5. CASE v.k \notin {"list", "map"}
    <3>1. Members(v) = <<>> /\ (v.k = "nil" <=> v = Nil)
      BY <2>5, FieldValues
    <3>2. AllGood(v) <=> v.k \notin {"enum", "nil"}
      <4>1. v # List(<<>>)
        BY <2>5, KindsAre
      <4>2. DOMAIN Members(v) = {}
        BY <3>1
      <4>3. AllGood(v) <=> Good(v)
        BY <4>2, AllGoodIs
      <4>4. QED
        BY <4>1, <4>3 DEF Good
    <3>3. CASE v.k = "enum"
      <4>1. PICK t : Back(v) = {Str(t)}
        BY <2>5, <3>3, BackOfOne
      <4>2. Str(t) # v
        BY <3>3, KindsAre
      <4>3. QED
        BY <3>2, <3>3, <4>1, <4>2 DEF Echoes
    <3>4. CASE v.k # "enum"
      <4>1. Back(v) = {v}
        BY <2>5, <3>4, BackOfOne
      <4>2. QED
        BY <3>1, <3>2, <3>4, <4>1 DEF Echoes
    <3>5. QED
      BY <3>3, <3>4
  <2>6. QED
    BY <2>3, <2>4, <2>5
<1> HIDE DEF T
<1>3. T = Nat
  BY <1>1, <1>2, Induction DEF T
<1>4. ASSUME NEW v \in Fields
      PROVE  Echoes(v)
  <2>1. Nesting(v) \in Nat
    BY FieldValues
  <2>2. Nesting(v) + 1 \in T /\ Nesting(v) < Nesting(v) + 1
    BY <1>3, <2>1
  <2>3. QED
    BY <2>2 DEF T
<1>5. QED
  BY <1>4

\* The signature of a value is made of those of its members.
LEMMA SignatureIs ==
  ASSUME NEW v \in Fields
  PROVE  /\ v.k = "list" =>
              /\ FieldSignature(v).k = "list"
              /\ FieldSignature(v).q = [i \in DOMAIN v.q |-> FieldSignature(v.q[i])]
         /\ v.k = "map" =>
              /\ FieldSignature(v).k = "map"
              /\ FieldSignature(v).pairs = {<<s, FieldSignature(v.m[s])>> : s \in DOMAIN v.m}
         /\ v.k \notin {"list", "map"} => FieldSignature(v) = v
<1> DEFINE members == [x \in DOMAIN Members(v) |-> MemberSignature(Members(v)[x])]
<1>1. FieldSignature(v) = ToSignature(v, members)
  BY DEF FieldSignature
<1>2. members = [x \in DOMAIN Members(v) |-> FieldSignature(Members(v)[x])]
  BY FieldValues, FieldsAssumption
<1> HIDE DEF members
<1>3. CASE v.k = "list"
  <2>1. Members(v) = v.q
    BY <1>3, FieldValues
  <2>2. FieldSignature(v) = List(members)
    BY <1>1, <1>3 DEF ToSignature
  <2>3. List(members).k = "list" /\ List(members).q = members
    BY KindsAre
  <2>4. QED
    BY <1>2, <1>3, <2>1, <2>2, <2>3
<1>4. CASE v.k = "map"
  <2>1. Members(v) = v.m
    BY <1>4, FieldValues
  <2>2. FieldSignature(v) = [k |-> "map", pairs |-> {<<s, members[s]>> : s \in DOMAIN members}]
    BY <1>1, <1>4 DEF ToSignature
  <2>3. FieldSignature(v).k = "map" /\ FieldSignature(v).pairs = {<<s, members[s]>> : s \in DOMAIN members}
    BY <2>2
  <2>4. {<<s, members[s]>> : s \in DOMAIN members} = {<<s, FieldSignature(v.m[s])>> : s \in DOMAIN v.m}
    BY <1>2, <2>1
  <2>5. QED
    BY <1>4, <2>3, <2>4
<1>5. CASE v.k \notin {"list", "map"}
  BY <1>1, <1>5 DEF ToSignature
<1>6. QED
  BY <1>3, <1>4, <1>5

\* Maps of pairs are the functions they are the pairs of.
LEMMA PairsDetermine ==
  ASSUME NEW f, NEW g,
         {<<s, f[s]>> : s \in DOMAIN f} = {<<s, g[s]>> : s \in DOMAIN g}
  PROVE  DOMAIN f = DOMAIN g /\ \A s \in DOMAIN f : f[s] = g[s]
<1>1. ASSUME NEW s \in DOMAIN f
      PROVE  s \in DOMAIN g /\ f[s] = g[s]
  <2>1. <<s, f[s]>> \in {<<t, g[t]>> : t \in DOMAIN g}
    OBVIOUS
  <2>2. PICK t \in DOMAIN g : <<s, f[s]>> = <<t, g[t]>>
    BY <2>1
  <2>3. QED
    BY <2>2
<1>2. ASSUME NEW s \in DOMAIN g
      PROVE  s \in DOMAIN f
  <2>1. <<s, g[s]>> \in {<<t, f[t]>> : t \in DOMAIN f}
    OBVIOUS
  <2>2. PICK t \in DOMAIN f : <<s, g[s]>> = <<t, f[t]>>
    BY <2>1
  <2>3. QED
    BY <2>2
<1>3. QED
  BY <1>1, <1>2

\* Values with one signature are one value.
LEMMA SignaturesDiffer ==
  \A v, w \in Fields : FieldSignature(v) = FieldSignature(w) => v = w
<1> DEFINE T == {n \in Nat : \A v \in Fields : Nesting(v) < n =>
                   \A w \in Fields : FieldSignature(v) = FieldSignature(w) => v = w}
<1>1. 0 \in T
  <2>1. \A v \in Fields : Nesting(v) \in Nat
    BY FieldValues
  <2>2. QED
    BY <2>1
<1>2. ASSUME NEW n \in T
      PROVE  n + 1 \in T
  <2>1. SUFFICES ASSUME NEW v \in Fields, Nesting(v) < n + 1,
                        NEW w \in Fields, FieldSignature(v) = FieldSignature(w)
                 PROVE  v = w
    OBVIOUS
  <2>2. ASSUME NEW x \in DOMAIN Members(v), NEW u \in Fields,
               FieldSignature(Members(v)[x]) = FieldSignature(u)
        PROVE  Members(v)[x] = u
    <3>1. Members(v)[x] \in Fields /\ Nesting(Members(v)[x]) < Nesting(v) /\ Nesting(v) \in Nat
      BY FieldValues
    <3>2. Nesting(Members(v)[x]) \in Nat
      BY <3>1, FieldValues
    <3>3. Nesting(Members(v)[x]) < n
      BY <2>1, <3>1, <3>2
    <3>4. QED
      BY <2>2, <3>1, <3>3
  <2>3. v.k = w.k
    <3>1. \A u \in Fields : FieldSignature(u).k = u.k
      <4>1. SUFFICES ASSUME NEW u \in Fields
                     PROVE  FieldSignature(u).k = u.k
        OBVIOUS
      <4>2. CASE u.k = "list"
        BY <4>2, SignatureIs
      <4>3. CASE u.k = "map"
        BY <4>3, SignatureIs
      <4>4. CASE u.k \notin {"list", "map"}
        BY <4>4, SignatureIs
      <4>5. QED
        BY <4>2, <4>3, <4>4
    <3>2. QED
      BY <2>1, <3>1
  <2>4. CASE v.k = "list"
    <3>1. /\ v = List(v.q) /\ v.q = [i \in 1 .. Len(v.q) |-> v.q[i]] /\ DOMAIN v.q = 1 .. Len(v.q)
          /\ Members(v) = v.q
      BY <2>4, FieldValues
    <3>2. /\ w = List(w.q) /\ w.q = [i \in 1 .. Len(w.q) |-> w.q[i]] /\ DOMAIN w.q = 1 .. Len(w.q)
          /\ Members(w) = w.q
      BY <2>3, <2>4, FieldValues
    <3>3. [i \in DOMAIN v.q |-> FieldSignature(v.q[i])] = [i \in DOMAIN w.q |-> FieldSignature(w.q[i])]
      <4>1. FieldSignature(v).q = [i \in DOMAIN v.q |-> FieldSignature(v.q[i])]
        BY <2>4, SignatureIs
      <4>2. FieldSignature(w).q = [i \in DOMAIN w.q |-> FieldSignature(w.q[i])]
        BY <2>3, <2>4, SignatureIs
      <4>3. QED
        BY <2>1, <4>1, <4>2
    <3>4. DOMAIN v.q = DOMAIN w.q
      <4>1. /\ DOMAIN [i \in DOMAIN v.q |-> FieldSignature(v.q[i])] = DOMAIN v.q
            /\ DOMAIN [i \in DOMAIN w.q |-> FieldSignature(w.q[i])] = DOMAIN w.q
        OBVIOUS
      <4>2. QED
        BY <3>3, <4>1
    <3>5. \A i \in DOMAIN v.q : FieldSignature(v.q[i]) = FieldSignature(w.q[i])
      BY <3>3, <3>4
    <3>6. \A i \in DOMAIN v.q : v.q[i] = w.q[i]
      <4>1. \A i \in DOMAIN w.q : w.q[i] \in Fields
        BY <3>2, FieldValues
      <4>2. QED
        BY <2>2, <3>1, <3>4, <3>5, <4>1
    <3>7. v.q = w.q
      <4>1. v.q = [i \in DOMAIN v.q |-> v.q[i]] /\ w.q = [i \in DOMAIN w.q |-> w.q[i]]
        BY <3>1, <3>2
      <4>2. QED
        BY <3>4, <3>6, <4>1
    <3>8. QED
      BY <3>1, <3>2, <3>7
  <2>5. CASE v.k = "map"
    <3>1. v = Map(v.m) /\ v.m = [s \in DOMAIN v.m |-> v.m[s]] /\ Members(v) = v.m
      BY <2>5, FieldValues
    <3>2. w = Map(w.m) /\ w.m = [s \in DOMAIN w.m |-> w.m[s]] /\ Members(w) = w.m
      BY <2>3, <2>5, FieldValues
    <3> DEFINE f == [s \in DOMAIN v.m |-> FieldSignature(v.m[s])]
               g == [s \in DOMAIN w.m |-> FieldSignature(w.m[s])]
    <3>3. {<<s, f[s]>> : s \in DOMAIN f} = {<<s, g[s]>> : s \in DOMAIN g}
      <4>1. FieldSignature(v).pairs = {<<s, FieldSignature(v.m[s])>> : s \in DOMAIN v.m}
        BY <2>5, SignatureIs
      <4>2. FieldSignature(w).pairs = {<<s, FieldSignature(w.m[s])>> : s \in DOMAIN w.m}
        BY <2>3, <2>5, SignatureIs
      <4>3. /\ {<<s, f[s]>> : s \in DOMAIN f} = {<<s, FieldSignature(v.m[s])>> : s \in DOMAIN v.m}
            /\ {<<s, g[s]>> : s \in DOMAIN g} = {<<s, FieldSignature(w.m[s])>> : s \in DOMAIN w.m}
        OBVIOUS
      <4>4. QED
        BY <2>1, <4>1, <4>2, <4>3
    <3>4. DOMAIN f = DOMAIN v.m /\ \A s \in DOMAIN v.m : f[s] = FieldSignature(v.m[s])
      OBVIOUS
    <3>5. DOMAIN g = DOMAIN w.m /\ \A s \in DOMAIN w.m : g[s] = FieldSignature(w.m[s])
      OBVIOUS
    <3> HIDE DEF f, g
    <3>6. DOMAIN v.m = DOMAIN w.m /\ \A s \in DOMAIN v.m : f[s] = g[s]
      <4>1. DOMAIN f = DOMAIN g /\ \A s \in DOMAIN f : f[s] = g[s]
        BY <3>3, PairsDetermine
      <4>2. QED
        BY <3>4, <3>5, <4>1
    <3>7. \A s \in DOMAIN v.m : v.m[s] = w.m[s]
      <4>1. \A s \in DOMAIN w.m : w.m[s] \in Fields
        BY <3>2, FieldValues
      <4>2. \A s \in DOMAIN v.m : FieldSignature(v.m[s]) = FieldSignature(w.m[s])
        BY <3>4, <3>5, <3>6
      <4>3. QED
        BY <2>2, <3>1, <3>6, <4>1, <4>2
    <3>8. v.m = w.m
      BY <3>1, <3>2, <3>6, <3>7
    <3>9. QED
      BY <3>1, <3>2, <3>8
  <2>6. CASE v.k \notin {"list", "map"}
    BY <2>1, <2>3, <2>6, SignatureIs
  <2>7. QED
    BY <2>4, <2>5, <2>6
<1> HIDE DEF T
<1>3. T = Nat
  BY <1>1, <1>2, Induction DEF T
<1>4. ASSUME NEW v \in Fields, NEW w \in Fields, FieldSignature(v) = FieldSignature(w)
      PROVE  v = w
  <2>1. Nesting(v) \in Nat
    BY FieldValues
  <2>2. Nesting(v) + 1 \in T /\ Nesting(v) < Nesting(v) + 1
    BY <1>3, <2>1
  <2>3. QED
    BY <1>4, <2>2 DEF T
<1>5. QED
  BY <1>4

\* An event and what comes back of it.
LEMMA EventsEcho ==
  ASSUME NEW event \in FieldMaps
  PROVE  Plain(event) <=>
           \A v \in Back(Map(event)) : v.k = "map" /\ EventSignature(v.m) = EventSignature(event)
<1> DEFINE whole == Map(event)
<1>1. whole \in Fields /\ whole.k = "map" /\ whole.m = event /\ whole # Nil
  BY FieldsAssumption, KindsAre
<1>2. Back(whole) # {} /\ (AllGood(whole) <=> Back(whole) = {whole})
  BY <1>1, AllEcho DEF Echoes
<1>3. Plain(event) <=> AllGood(whole)
  BY DEF Plain, AllGood, Good
<1>4. Back(whole) \subseteq Fields
  <2>1. UNION {LuaToField(FieldToLua(v)) : v \in Fields} \subseteq Fields
    BY FieldsAssumption
  <2>2. Back(whole) \in {LuaToField(FieldToLua(v)) : v \in Fields}
    BY <1>1 DEF Back
  <2>3. QED
    BY <2>1, <2>2
<1>5. \A v \in Fields : v.k = "map" => v = Map(v.m) /\ FieldSignature(v).k = "map"
                                       /\ FieldSignature(v).pairs = EventSignature(v.m)
  BY FieldValues, SignatureIs DEF EventSignature
<1> HIDE DEF whole
<1>6. ASSUME NEW v \in Fields, v.k = "map", EventSignature(v.m) = EventSignature(event)
      PROVE  v = whole
  <2> DEFINE f == [s \in DOMAIN v.m |-> FieldSignature(v.m[s])]
             g == [s \in DOMAIN event |-> FieldSignature(event[s])]
  <2>1. /\ v = Map(v.m) /\ v.m = [s \in DOMAIN v.m |-> v.m[s]] /\ Members(v) = v.m
        /\ whole = Map(event) /\ event = [s \in DOMAIN event |-> event[s]] /\ Members(whole) = event
    BY <1>1, <1>6, FieldValues
  <2>2. {<<s, f[s]>> : s \in DOMAIN f} = {<<s, g[s]>> : s \in DOMAIN g}
    <3>1. /\ {<<s, f[s]>> : s \in DOMAIN f} = {<<s, FieldSignature(v.m[s])>> : s \in DOMAIN v.m}
          /\ {<<s, g[s]>> : s \in DOMAIN g} = {<<s, FieldSignature(event[s])>> : s \in DOMAIN event}
      OBVIOUS
    <3>2. QED
      BY <1>6, <3>1 DEF EventSignature
  <2>3. /\ DOMAIN f = DOMAIN v.m /\ \A s \in DOMAIN v.m : f[s] = FieldSignature(v.m[s])
        /\ DOMAIN g = DOMAIN event /\ \A s \in DOMAIN event : g[s] = FieldSignature(event[s])
    OBVIOUS
  <2> HIDE DEF f, g
  <2>4. DOMAIN v.m = DOMAIN event /\ \A s \in DOMAIN v.m : f[s] = g[s]
    <3>1. DOMAIN f = DOMAIN g /\ \A s \in DOMAIN f : f[s] = g[s]
      BY <2>2, PairsDetermine
    <3>2. QED
      BY <2>3, <3>1
  <2>5. /\ \A s \in DOMAIN v.m : v.m[s] \in Fields
        /\ \A s \in DOMAIN event : event[s] \in Fields
    BY <1>1, <2>1, FieldValues
  <2>6. \A s \in DOMAIN v.m : v.m[s] = event[s]
    BY <2>3, <2>4, <2>5, SignaturesDiffer
  <2>7. QED
    BY <2>1, <2>4, <2>6
<1>7. (\A v \in Back(whole) : v.k = "map" /\ EventSignature(v.m) = EventSignature(event))
        <=> Back(whole) = {whole}
  BY <1>1, <1>2, <1>4, <1>6
<1>8. QED
  BY <1>2, <1>3, <1>7 DEF whole

\* A script that emits the event it was given is caught as a cycle just when nothing in it
\* is lost on the way through Lua, whatever the event and however deep its values nest.
THEOREM EchoesAreCaught == EncodingSpec => []EchoIsACycle
<1>1. question \in EncodingQuestions /\ question.about = "event" => question.event \in FieldMaps
  BY DEF EncodingQuestions
<1>2. EncodingInit => EchoIsACycle
  BY <1>1, EventsEcho DEF EncodingInit, EchoIsACycle, Back
<1>3. EchoIsACycle /\ UNCHANGED question => EchoIsACycle'
  BY DEF EchoIsACycle
<1>4. QED
  BY <1>2, <1>3, PTL DEF EncodingSpec
=============================================================================
