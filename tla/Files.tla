--------------------------------- MODULE Files --------------------------------
(***************************************************************************)
(* Files of the luaml standard library (stdlib/fs.rs, and the downloads of *)
(* stdlib/http.rs): blocking calls of scripts and asynchronous tasks that  *)
(* open, write, append to, copy, rename and delete files of one disk.      *)
(*                                                                         *)
(* A call is one step of the operating system, or several: a write first   *)
(* truncates and then writes, in as many parts as the system makes of it,  *)
(* a copy reads its source as it goes, a delete first looks and then       *)
(* removes.  Between two steps anybody else may act on the disk: the tasks *)
(* a script started, and scripts of other threads.  A call that fails      *)
(* half-way leaves what it did.  A file is an inode, which keeps its       *)
(* contents for who has it open after its name is removed or given to      *)
(* another file.                                                           *)
(*                                                                         *)
(* append_async and downloads write through tokio's File, whose write_all  *)
(* hands a piece to another thread and returns.  The next piece waits for  *)
(* the last, as flush does, and raises its error; a File that is dropped   *)
(* without a flush leaves the piece on its way.  So does append_async      *)
(* always, whose promise resolves before the bytes are in the file, and a  *)
(* download that fails: whatever becomes of the piece is known to nobody.  *)
(*                                                                         *)
(* The directory tree is one directory deep.  Queries (exists, stat,       *)
(* readdir, canonicalize, tempdir) change nothing and have no action.      *)
(*                                                                         *)
(* A definition whose name starts with Slip is not part of the model: it   *)
(* is what the one after it would be with a plausible bug in that code,    *)
(* kept to show which property notices.                                    *)
(***************************************************************************)
EXTENDS Naturals, Sequences

CONSTANTS
  Path,      \* the names in the directory
  Inode,     \* the operating system's files: bound, enough for the calls made
  LuaThread,    \* the Lua threads
  Worker,      \* the tasks of their asynchronous calls
  Contents,  \* the data they write, sequences of bytes
  MaxCalls   \* bound: how many calls are made that change something

ASSUME FilesAssumption == Contents \subseteq Seq(Nat) /\ LuaThread \cap Worker = {} /\ Path # {}

VARIABLES
  name,      \* name[p]: the inode the name leads to, or none
  dirs,      \* the names that are directories
  data,      \* the contents of each inode
  op,        \* the call that each script and each task is in
  loose,     \* the pieces that were handed over and are not in their files yet
  calls,     \* how many calls were made
  overlap,   \* a call began before the last was over (auxiliary)
  ideal      \* the disk if calls were atomic (auxiliary)

filesVars == <<name, dirs, data, op, loose, calls, overlap, ideal>>

Actor == LuaThread \cup Worker

\* A call, the no-th: on a path, of some bytes, which are those of the file src if it
\* copies one; file is the one it has open, and at how far it has got.
Doing(no, kind, p, src, bytes, step) ==
  [no |-> no, kind |-> kind, path |-> p, src |-> src, bytes |-> bytes, step |-> step,
   file |-> {}, at |-> 0]

Resting(p, step) == Doing(0, "none", p, {}, <<>>, step)
AnyPath == CHOOSE p \in Path : TRUE

NoIdeal == [p \in Path |-> {}]

FilesInit ==
  /\ name = [p \in Path |-> {}]
  /\ dirs = {}
  /\ data = [i \in Inode |-> <<>>]
  /\ op = [a \in Actor |-> Resting(AnyPath, "idle")]
  /\ loose = {}
  /\ calls = 0
  /\ overlap = FALSE
  /\ ideal = NoIdeal

-----------------------------------------------------------------------------

\* Bytes written at a place; a gap before it reads as zeros.
Overlay(old, at, new) ==
  LET end == at + Len(new)
  IN  [i \in 1..(IF end > Len(old) THEN end ELSE Len(old)) |->
         IF i \in (at + 1)..end THEN new[i - at] ELSE IF i <= Len(old) THEN old[i] ELSE 0]

Busy(a) == op[a].step \notin {"idle", "done"}

\* No call is under way, nor is what one left on its way.
Quiet == (\A a \in Actor : ~Busy(a)) /\ loose = {}

\* An inode that no name leads to and nobody has open.
Unused(i) ==
  /\ \A p \in Path : i \notin name[p]
  /\ \A a \in Actor : i \notin op[a].file \cup op[a].src
  /\ \A x \in loose : x.file # i

Starts(bytes) == {SubSeq(bytes, 1, n) : n \in 0..Len(bytes)}

\* The calls that write through tokio's File.
ByPieces(o, a) == o.kind = "download" \/ (o.kind = "append" /\ a \in Worker)

\* What a path may hold after a call that ran alone, by how it ended; {} if nothing.  A
\* call that raised once it had the file open got somewhere, and so did an append_async.
Ideally(o, a, end) ==
  LET old == ideal[o.path]
      kept == IF old = {} THEN {<<>>} ELSE old
      got == IF end = "ok" THEN {o.bytes} ELSE Starts(o.bytes)
  IN  IF o.step = "called" THEN old
      ELSE CASE o.kind = "delete" -> IF end = "ok" THEN {} ELSE old
             [] o.kind = "append" ->
                  {c \o b : c \in kept, b \in IF a \in Worker THEN Starts(o.bytes) ELSE got}
             [] o.kind = "copy" /\ o.src = o.file -> {<<>>}
             [] OTHER -> got

\* The call of a is over: the script goes on, the promise of the task resolves.
Return(a, end) ==
  /\ op' = [op EXCEPT ![a] = Resting(AnyPath, IF a \in LuaThread THEN "idle" ELSE "done")]
  /\ ideal' = IF overlap THEN ideal ELSE [ideal EXCEPT ![op[a].path] = Ideally(op[a], a, end)]

\* From the first call on that begins before another is over, ideal means nothing.
Overlapping ==
  /\ overlap' = (overlap \/ ~Quiet)
  /\ ideal' = IF Quiet THEN ideal ELSE NoIdeal

\* A script makes a call, which a task carries out if it is an asynchronous one.
Makes(a, kind, p, src, bytes) ==
  /\ calls < MaxCalls
  /\ op[a].step = "idle"
  /\ \E s \in LuaThread : op[s].step = "idle"
  /\ calls' = calls + 1
  /\ Overlapping
  /\ op' = [op EXCEPT ![a] = Doing(calls + 1, kind, p, src, bytes, "called")]
  /\ UNCHANGED <<name, dirs, data, loose>>

Put(a, kind, p, bytes) == kind \in {"write", "append", "download"} /\ Makes(a, kind, p, {}, bytes)
Delete(a, p) == a \in LuaThread /\ Makes(a, "delete", p, {}, <<>>)

\* copy opens the file it copies first.
Copy(a, from, p) ==
  /\ a \in LuaThread
  /\ name[from] # {}
  /\ \E i \in name[from] : Makes(a, "copy", p, {i}, data[i])

-----------------------------------------------------------------------------
(* The steps of a call.                                                    *)

At(a, kinds, step) == op[a].kind \in kinds /\ op[a].step = step

\* What of its bytes a call has left; a copy finds those its source has by now.
Rest(a) ==
  LET all == IF op[a].kind = "copy" THEN data[CHOOSE i \in op[a].src : TRUE] ELSE op[a].bytes
  IN  SubSeq(all, op[a].at + 1, Len(all))

\* A step raises: the name is a directory, the disk is full, the server refuses, the
\* connection breaks.  What was done so far stays, and goes on if it was handed over.
\* After its last byte a write returns, as does an append, and append_async knows only what
\* became of a piece when it has the next.
Fail(a) ==
  /\ Busy(a)
  /\ op[a].step = "open" /\ op[a].kind \in {"write", "append"} =>
       Rest(a) # <<>> /\ ~ByPieces(op[a], a)
  /\ Return(a, "error")
  /\ UNCHANGED <<name, dirs, data, loose, calls, overlap>>

\* A file is opened, truncated unless it is for appending, and created if need be and
\* there is room; of a download, once the server has answered.
Open(a) ==
  LET p == op[a].path
      i == IF name[p] # {} THEN CHOOSE i \in name[p] : TRUE ELSE CHOOSE i \in Inode : Unused(i)
  IN  /\ At(a, {"write", "append", "download", "copy"}, "called")
      /\ p \notin dirs
      /\ name[p] = {} => \E j \in Inode : Unused(j)
      /\ data' = IF op[a].kind = "append" /\ name[p] # {} THEN data ELSE [data EXCEPT ![i] = <<>>]
      /\ name' = [name EXCEPT ![p] = {i}]
      /\ op' = [op EXCEPT ![a].step = "open", ![a].file = {i}]
      /\ UNCHANGED <<dirs, loose, calls, overlap, ideal>>

\* The file is not opened for appending: what is written goes to its start.
SlipInto(kind, i, at, part) == [data EXCEPT ![i] = Overlay(@, at, part)]

\* The disk with a part written, to the end of a file that was opened for appending.
Into(kind, i, at, part) ==
  [data EXCEPT ![i] = IF kind = "append" THEN @ \o part ELSE Overlay(@, at, part)]

\* A part of the bytes is written.
Write(a) ==
  \E i \in op[a].file, n \in 1..Len(Rest(a)) :
    /\ At(a, {"write", "append", "copy"}, "open")
    /\ ~ByPieces(op[a], a)
    /\ data' = Into(op[a].kind, i, op[a].at, SubSeq(Rest(a), 1, n))
    /\ op' = [op EXCEPT ![a].at = @ + n]
    /\ UNCHANGED <<name, dirs, loose, calls, overlap, ideal>>

\* Of this call a piece is on its way.
InFlight(a) == \E x \in loose : x.no = op[a].no

\* A piece is handed over, the last one being written; of a download, when it arrives.
Piece(a) ==
  \E i \in op[a].file, n \in 1..Len(Rest(a)) :
    /\ At(a, {"append", "download"}, "open")
    /\ ByPieces(op[a], a)
    /\ ~InFlight(a)
    /\ loose' = loose \cup {[no |-> op[a].no, kind |-> op[a].kind, file |-> i,
                             at |-> op[a].at, bytes |-> SubSeq(Rest(a), 1, n)]}
    /\ op' = [op EXCEPT ![a].at = @ + n]
    /\ UNCHANGED <<name, dirs, data, calls, overlap, ideal>>

\* The thread that has a piece writes a part of it, where the last one ended.
Settle(x) ==
  \E n \in 1..Len(x.bytes) :
    /\ data' = Into(x.kind, x.file, x.at, SubSeq(x.bytes, 1, n))
    /\ loose' = (loose \ {x}) \cup
                  (IF n = Len(x.bytes) THEN {}
                   ELSE {[x EXCEPT !.at = @ + n, !.bytes = SubSeq(@, n + 1, Len(@))]})
    /\ UNCHANGED <<name, dirs, op, calls, overlap, ideal>>

\* That fails, which the call's next piece or flush raises, if there will be one.
Spill(x) ==
  /\ loose' = loose \ {x}
  /\ op' = [a \in Actor |->
              IF Busy(a) /\ op[a].no = x.no THEN [op[a] EXCEPT !.step = "broken"] ELSE op[a]]
  /\ UNCHANGED <<name, dirs, data, calls, overlap, ideal>>

\* A download returns without the flush.
SlipFinish(a) ==
  /\ At(a, {"write", "append", "copy", "download"}, "open")
  /\ Rest(a) = <<>>
  /\ Return(a, "ok")
  /\ UNCHANGED <<name, dirs, data, loose, calls, overlap>>

\* All was written or, of an append_async, handed over; a download, which has ended, also
\* flushes.
Finish(a) ==
  /\ At(a, {"write", "append", "copy", "download"}, "open")
  /\ Rest(a) = <<>>
  /\ op[a].kind = "download" => ~InFlight(a)
  /\ Return(a, "ok")
  /\ UNCHANGED <<name, dirs, data, loose, calls, overlap>>

\* delete looks whether there is something, and no directory.
Look(a) ==
  /\ At(a, {"delete"}, "called")
  /\ name[op[a].path] # {}
  /\ op' = [op EXCEPT ![a].step = "open"]
  /\ UNCHANGED <<name, dirs, data, loose, calls, overlap, ideal>>

\* remove_file, which never removes a directory.
RemoveName(a) ==
  /\ At(a, {"delete"}, "open")
  /\ name[op[a].path] # {}
  /\ name' = [name EXCEPT ![op[a].path] = {}]
  /\ Return(a, "ok")
  /\ UNCHANGED <<dirs, data, loose, calls, overlap>>

-----------------------------------------------------------------------------
(* Calls of one step; those that raise change nothing.                     *)

Atomic ==
  /\ calls < MaxCalls
  /\ \E s \in LuaThread : op[s].step = "idle"
  /\ calls' = calls + 1
  /\ overlap' = (overlap \/ ~Quiet)
  /\ UNCHANGED <<data, op, loose>>

\* What the call does to the disk, if all goes by turns.
Ideal(new) == ideal' = IF overlap' THEN NoIdeal ELSE new

Rename(from, to) ==
  /\ from # to
  /\ Atomic
  /\ \/ /\ name[from] # {}
        /\ to \notin dirs
        /\ name' = [name EXCEPT ![to] = name[from], ![from] = {}]
        /\ Ideal([ideal EXCEPT ![to] = ideal[from], ![from] = {}])
        /\ UNCHANGED dirs
     \/ /\ from \in dirs
        /\ name[to] = {}
        /\ dirs' = (dirs \ {from}) \cup {to}
        /\ Ideal(ideal)
        /\ UNCHANGED name

Mkdir(p) == Atomic /\ name[p] = {} /\ dirs' = dirs \cup {p} /\ Ideal(ideal) /\ UNCHANGED name
Rmdir(p) == Atomic /\ p \in dirs /\ dirs' = dirs \ {p} /\ Ideal(ideal) /\ UNCHANGED name

-----------------------------------------------------------------------------

FilesNext ==
  \/ \E a \in Actor :
       \/ Fail(a) \/ Open(a) \/ Write(a) \/ Piece(a) \/ Finish(a)
       \/ Look(a) \/ RemoveName(a)
  \/ \E a \in Actor, p \in Path :
       \/ \E kind \in {"write", "append", "download"}, c \in Contents : Put(a, kind, p, c)
       \/ Delete(a, p)
       \/ \E from \in Path : Copy(a, from, p)
  \/ \E x \in loose : Settle(x) \/ Spill(x)
  \/ \E p, q \in Path : Rename(p, q)
  \/ \E p \in Path : Mkdir(p) \/ Rmdir(p)

FilesSpec == FilesInit /\ [][FilesNext]_filesVars

-----------------------------------------------------------------------------

FilesTypeOK ==
  /\ name \in [Path -> SUBSET Inode]
  /\ dirs \subseteq Path
  /\ data \in [Inode -> Seq(Nat)]
  /\ \A a \in Actor : op[a].step \in {"idle", "called", "open", "broken", "done"}
  /\ \A x \in loose : x.file \in Inode /\ x.bytes \in Seq(Nat) \ {<<>>}
  /\ overlap \in BOOLEAN
  /\ ideal \in [Path -> SUBSET Seq(Nat)]

\* Calls that do not overlap, one being over only when what it handed over has been
\* written or given up, do what they would do in one step, but for what a failure leaves:
\* what they returned tells what each name holds, exactly, or where a write, a copy, a
\* download or an append raised with the file open, and after an append_async, up to how
\* much of its bytes, from the first on, got there.  (A file copied onto itself is
\* emptied, and ideally too.)
AloneIsAtomic ==
  ~overlap /\ Quiet =>
    \A p \in Path : IF name[p] = {} THEN ideal[p] = {} ELSE \A i \in name[p] : data[i] \in ideal[p]

\* Nobody takes from a file what it has but who writes it from its start, copies or
\* downloads to it, or did download to it and left a piece on its way: the appends of any
\* number of scripts and tasks, however they interleave and whatever becomes of the
\* file's name meanwhile, only ever add to it.
Truncating(i) ==
  \/ \E a \in Actor : op[a].kind \in {"write", "copy", "download"} /\ i \in op[a].file
  \/ \E x \in loose : x.kind = "download" /\ x.file = i
AppendsOnlyAdd ==
  [][\A p, q \in Path : \A i \in name[p] \cap name'[q] :
       Truncating(i) \/ Truncating(i)'
         \/ SubSeq(data'[i], 1, Len(data[i])) = data[i]]_filesVars
=============================================================================
