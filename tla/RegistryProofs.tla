---------------------------- MODULE RegistryProofs ----------------------------
(***************************************************************************)
(* The registry of luaml: no edit is lost on its way there, and a reload   *)
(* leaves what is on disk (HotReload); what an event runs can be           *)
(* discovered, and sees the APIs in its scope (Registry).  For every set   *)
(* of files, texts, roots and extensions, and all scripts and patterns.    *)
(***************************************************************************)
EXTENDS HotReload, Registry, Recursion, FiniteSetTheorems

-----------------------------------------------------------------------------
(* The inductive invariant behind ChangesReachRegistry.                    *)

\* The watcher knows only of files it watches.
OnlyWatched ==
  /\ seen \subseteq watched
  /\ dirty \subseteq watched
  /\ \A i \in DOMAIN queue : queue[i].path \in watched

LastReport(f, i) == queue[i].path = f /\ \A j \in DOMAIN queue : j > i => queue[j].path # f

\* Unless the file was edited since, the last change queued for it is of the kind
\* that fits the file as it is.
LastReportFits ==
  \A f \in File : f \notin dirty =>
    \A i \in DOMAIN queue : LastReport(f, i) => (queue[i].kind = "Remove" <=> disk[f] = Absent)

\* What replace_file holds is what the file says, or a change of it is pending.
HeldFits ==
  \A h \in held : /\ op = "replace_file"
                  /\ h.path \in seen /\ ~Pending(h.path) => h.text = disk[h.path]

NothingLost == OnlyWatched /\ LastReportFits /\ HeldFits /\ ChangesReachRegistry

-----------------------------------------------------------------------------
(* Type correctness.                                                       *)

\* register_dir is given directories the embedder knows.
LEMMA DirIsRoot ==
  ASSUME TypeOK, dirs # <<>>
  PROVE  Dir \in Root /\ Tail(dirs) \in Seq(Root)
BY HeadTailProperties DEF TypeOK, Dir

\* Registering a text adds it to those that run for the path, and is one entry more.
LEMMA Pushed ==
  ASSUME TypeOK, NEW f \in File, NEW t \in Parses, Push(f, t)
  PROVE  /\ registered' \in [File -> Seq(Parses)]
         /\ Len(registered'[f]) = Len(registered[f]) + 1
         /\ Running(f)' = Running(f) \cup {t}
         /\ \A g \in File : g # f => registered'[g] = registered[g]
<1>1. registered[f] \in Seq(Parses) /\ registered' = [registered EXCEPT ![f] = Append(@, t)]
  BY DEF TypeOK, Push
<1>2. PICK n \in Nat : n = Len(registered[f]) /\ DOMAIN registered[f] = 1 .. n
  BY <1>1, LenProperties
<1>3. /\ Append(registered[f], t) \in Seq(Parses)
      /\ Len(Append(registered[f], t)) = n + 1
      /\ DOMAIN Append(registered[f], t) = 1 .. n + 1
      /\ \A i \in 1 .. n : Append(registered[f], t)[i] = registered[f][i]
      /\ Append(registered[f], t)[n + 1] = t
  BY <1>1, <1>2, AppendProperties, LenProperties
<1>4. /\ registered'[f] = Append(registered[f], t)
      /\ registered' \in [File -> Seq(Parses)]
      /\ \A g \in File : g # f => registered'[g] = registered[g]
  BY <1>1, <1>3 DEF TypeOK
<1>5. \A i : i \in 1 .. n + 1 <=> i \in 1 .. n \/ i = n + 1
  OBVIOUS
<1>6. Running(f)' = Running(f) \cup {t}
  BY <1>2, <1>3, <1>4, <1>5 DEF Running
<1>7. QED
  BY <1>2, <1>3, <1>4, <1>6

LEMMA Replaced ==
  ASSUME TypeOK, NEW f \in File, NEW t, Replace(f, t)
  PROVE  /\ registered' \in [File -> Seq(Parses)]
         /\ Running(f)' = {t} \cap Parses
         /\ \A g \in File : g # f => registered'[g] = registered[g]
<1>1. registered'[f] = (IF t \in Parses THEN <<t>> ELSE <<>>)
      /\ \A g \in File : g # f => registered'[g] = registered[g]
  BY DEF TypeOK, Replace
<1>2. (IF t \in Parses THEN <<t>> ELSE <<>>) \in Seq(Parses)
  BY EmptySeq
<1>3. registered' \in [File -> Seq(Parses)]
  BY <1>2 DEF TypeOK, Replace
<1>4. CASE t \in Parses
  <2>1. DOMAIN <<t>> = {1} /\ <<t>>[1] = t
    OBVIOUS
  <2>2. QED
    BY <1>1, <1>3, <1>4, <2>1 DEF Running
<1>5. CASE t \notin Parses
  <2>1. DOMAIN <<>> = {}
    OBVIOUS
  <2>2. QED
    BY <1>1, <1>3, <1>5, <2>1 DEF Running
<1>6. QED
  BY <1>4, <1>5

LEMMA Dropped ==
  ASSUME TypeOK, NEW f \in File, Drop(f)
  PROVE  /\ registered' \in [File -> Seq(Parses)]
         /\ Running(f)' = {}
         /\ \A g \in File : g # f => registered'[g] = registered[g]
<1>1. registered' \in [File -> Seq(Parses)]
  BY EmptySeq DEF TypeOK, Drop
<1>2. registered'[f] = <<>> /\ \A g \in File : g # f => registered'[g] = registered[g]
  BY DEF TypeOK, Drop
<1>3. DOMAIN <<>> = {}
  OBVIOUS
<1>4. QED
  BY <1>1, <1>2, <1>3 DEF Running

LEMMA AbortTypes ==
  ASSUME TypeOK, Abort
  PROVE  /\ phase' = "scan"
         /\ todo' \subseteq File /\ blocked' \subseteq File /\ complete' \subseteq Extension
         /\ dirs' \in Seq(Root)
         /\ op' = "idle" /\ said' \in [File -> SUBSET (Text \cup {Absent})]
BY EmptySeq DEF TypeOK, Abort, LeaveDir, Nothing

\* Every script is dropped.
LEMMA ClearTypes == TypeOK /\ Clears => registered' \in [File -> Seq(Parses)]
BY EmptySeq DEF TypeOK, Clears

\* A call that registers directories begins.
LEMMA BeginTypes ==
  ASSUME TypeOK, NEW name, NEW ds, Begin(name, ds)
  PROVE  said' \in [File -> SUBSET (Text \cup {Absent})] /\ phase' = "scan"
BY DEF TypeOK, Begin, InRoots

\* Every step keeps every variable within its type.
LEMMA TypeOKStep == TypeOK /\ [Next]_vars => TypeOK'
<1> SUFFICES ASSUME TypeOK, [Next]_vars
             PROVE  TypeOK'
  OBVIOUS
<1> USE HotReloadAssumption
<1> USE DEF files, registry, watcher, registering, loading, auxiliary, InRoots
<1>1. ASSUME NEW f \in File, NEW t \in Writes[f] \cup {Absent}, Edit(f, t)
      PROVE  TypeOK'
  <2>1. t \in Text \cup {Absent}
    OBVIOUS
  <2>2. QED
    BY <1>1, <2>1 DEF Edit, TypeOK
<1>2. ASSUME NEW f \in File, Debounce(f)
      PROVE  TypeOK'
  <2> DEFINE c == [kind |-> IF Exists(f) THEN "CreateOrModify" ELSE "Remove", path |-> f]
  <2>1. c \in Change
    BY DEF Change
  <2>2. queue' \in Seq(Change)
    BY <1>2, <2>1, AppendProperties DEF Debounce, TypeOK
  <2>3. QED
    BY <1>2, <2>2 DEF Debounce, TypeOK
<1>3. ASSUME NEW f \in File, NEW t \in Writes[f], Register(f, t)
      PROVE  TypeOK'
  <2>1. registered' \in [File -> Seq(Parses)]
    BY <1>3, Pushed DEF Register
  <2>2. QED
    BY <1>3, <2>1 DEF Register, Call, TypeOK
<1>4. ASSUME NEW f \in File, RegisterFile(f)
      PROVE  TypeOK'
  <2>1. registered' \in [File -> Seq(Parses)]
    BY <1>4, Pushed DEF RegisterFile, Loads
  <2>2. QED
    BY <1>4, <2>1 DEF RegisterFile, Call, TypeOK
<1>5. ASSUME NEW f \in File, Unregister(f)
      PROVE  TypeOK'
  BY <1>5, Dropped DEF Unregister, Call, TypeOK
<1>6. ASSUME NEW f \in File, ReplaceFile(f)
      PROVE  TypeOK'
  BY <1>6 DEF ReplaceFile, ReadsOK, TypeOK
<1>7. CASE SwapHeld
  <2>1. PICK h \in held : Replace(h.path, h.text)
    BY <1>7 DEF SwapHeld
  <2>2. h.path \in File
    BY DEF TypeOK
  <2>3. registered' \in [File -> Seq(Parses)]
    BY <2>1, <2>2, Replaced
  <2>4. QED
    BY <1>7, <2>3 DEF SwapHeld, TypeOK
<1>8. CASE Clear
  BY <1>8, ClearTypes DEF Clear, Call, TypeOK
<1>9. CASE Watch
  <2>1. \A i \in DOMAIN roots : Under[roots[i]] \subseteq File
    BY ElementOfSeq, LenProperties DEF TypeOK
  <2>2. watched' \subseteq File
    BY <1>9, <2>1 DEF Watch
  <2>3. QED
    BY <1>9, <2>2, EmptySeq DEF Watch, Call, TypeOK
<1>10. CASE Unwatch
  BY <1>10, EmptySeq DEF Unwatch, Call, TypeOK
<1>11. ASSUME NEW r \in Root, RegisterDir(r)
       PROVE  TypeOK'
  <2>1. <<r>> \in Seq(Root)
    OBVIOUS
  <2>2. QED
    BY <1>11, <2>1, BeginTypes DEF RegisterDir, Begin, TypeOK
<1>12. ASSUME NEW ds \in RootLists, RegisterRoots(ds)
       PROVE  TypeOK'
  BY <1>12, BeginTypes DEF RegisterRoots, Begin, TypeOK
<1>13. CASE ReloadRoots
  BY <1>13, BeginTypes, ClearTypes DEF ReloadRoots, Begin, TypeOK
<1>14. CASE SkipKnownRoot
  BY <1>14, DirIsRoot DEF SkipKnownRoot, TypeOK
<1>15. CASE WalkDir
  <2>1. Dir \in Root
    BY <1>15, DirIsRoot DEF WalkDir
  <2>2. todo' \subseteq File
    BY <1>15, <2>1 DEF WalkDir
  <2>3. QED
    BY <1>15, <2>2 DEF WalkDir, TypeOK
<1>16. CASE CheckManifests
  <2>1. Dir \in Root
    BY <1>16, DirIsRoot DEF CheckManifests, TypeOK
  <2>2. Manifests[Dir] \subseteq Extension /\ \A x \in Extension : Lists[x] \subseteq File
    BY <2>1
  <2>3. complete' \subseteq Extension /\ blocked' \subseteq File
    BY <1>16, <2>2 DEF CheckManifests
  <2>4. QED
    BY <1>16, <2>3 DEF CheckManifests, TypeOK
<1>17. CASE RegisterNext
  <2>1. PICK f \in File : SkipBlocked(f) \/ LoadFile(f) \/ FailToLoad(f)
    BY <1>17 DEF RegisterNext
  <2>2. CASE SkipBlocked(f)
    <3>1. registered' \in [File -> Seq(Parses)]
      BY <2>2 DEF SkipBlocked, TypeOK
    <3>2. FileDone(f)
      BY <2>2 DEF SkipBlocked
    <3>3. QED
      BY <1>17, <3>1, <3>2 DEF RegisterNext, FileDone, TypeOK
  <2>3. CASE LoadFile(f)
    <3>1. registered' \in [File -> Seq(Parses)]
      BY <2>3, Pushed DEF LoadFile, Loads
    <3>2. CASE Abort
      BY <1>17, <3>1, <3>2, AbortTypes DEF RegisterNext, TypeOK
    <3>3. CASE FileDone(f)
      BY <1>17, <3>1, <3>3 DEF RegisterNext, FileDone, TypeOK
    <3>4. QED
      BY <2>3, <3>2, <3>3 DEF LoadFile
  <2>4. CASE FailToLoad(f)
    BY <1>17, <2>4, AbortTypes DEF RegisterNext, FailToLoad, TypeOK
  <2>5. QED
    BY <2>1, <2>2, <2>3, <2>4
<1>18. CASE FinishDir
  <2>1. Dir \in Root /\ Tail(dirs) \in Seq(Root)
    BY <1>18, DirIsRoot DEF FinishDir, TypeOK
  <2>2. roots' \in Seq(Root)
    BY <1>18, <2>1, AppendProperties DEF FinishDir, TypeOK
  <2>3. QED
    BY <1>18, <2>1, <2>2 DEF FinishDir, LeaveDir, TypeOK
<1>19. CASE FinishRoots
  BY <1>19 DEF FinishRoots, Nothing, TypeOK
<1>20. CASE BeginDispatch
  BY <1>20 DEF BeginDispatch, TypeOK
<1>21. CASE ApplyNext
  <2> DEFINE f == Head(queue).path
  <2>1. Head(queue) \in Change /\ queue' \in Seq(Change)
    BY <1>21, HeadTailProperties DEF ApplyNext, TypeOK
  <2>2. f \in File
    BY <2>1 DEF Change
  <2>3. registered' \in [File -> Seq(Parses)]
    <3>1. Drop(f) => registered' \in [File -> Seq(Parses)]
      BY <2>2, Dropped
    <3>2. Replace(f, disk[f]) => registered' \in [File -> Seq(Parses)]
      BY <2>2, Replaced
    <3>3. QED
      BY <1>21, <3>1, <3>2 DEF ApplyNext, TypeOK
  <2>4. QED
    BY <1>21, <2>1, <2>3 DEF ApplyNext, TypeOK
<1>22. CASE Match
  BY <1>22 DEF Match, TypeOK
<1>23. CASE UNCHANGED vars
  BY <1>23 DEF vars, TypeOK
<1>24. QED
  BY <1>1, <1>2, <1>3, <1>4, <1>5, <1>6, <1>7, <1>8, <1>9, <1>10, <1>11, <1>12, <1>13,
     <1>14, <1>15, <1>16, <1>17, <1>18, <1>19, <1>20, <1>21, <1>22, <1>23
     DEF Next, Embedder, Engine

\* The registry and what register_dir, the watcher and a pending replace_file know of
\* the files stay well-typed: in particular only texts that parse are registered.
THEOREM TypeCorrect == Spec => []TypeOK
<1>1. Init => TypeOK
  <2> SUFFICES ASSUME Init
               PROVE  TypeOK
    OBVIOUS
  <2>1. roots \in Seq(Root) /\ dirs \in Seq(Root) /\ queue \in Seq(Change)
    BY EmptySeq DEF Init
  <2>2. edits \in 0 .. MaxEdits
    BY HotReloadAssumption DEF Init
  <2>3. registered \in [File -> Seq(Parses)]
    BY EmptySeq DEF Init
  <2>4. QED
    BY <2>1, <2>2, <2>3 DEF Init, Nothing, InRoots, TypeOK
<1>2. QED
  BY <1>1, TypeOKStep, PTL DEF Spec

-----------------------------------------------------------------------------
(* No edit is lost.                                                        *)

\* A call that leaves the files and the watcher alone loses nothing if it registers,
\* for a file it does not override, at most what the file says.
LEMMA RegistryStep ==
  ASSUME TypeOK, NothingLost,
         UNCHANGED <<files, watcher, held>>, seen' \subseteq seen, held = {} \/ op' = op,
         registered' \in [File -> Seq(Parses)],
         \A f \in seen' : \/ Running(f)' = Running(f)
                          \/ Loads(f) /\ Running(f)' = Running(f) \cup {disk[f]}
  PROVE  NothingLost'
<1> USE DEF files, watcher
<1>1. \A f \in File : Pending(f)' <=> Pending(f)
  BY DEF Pending, Queued
<1>2. OnlyWatched'
  BY DEF NothingLost, OnlyWatched
<1>3. LastReportFits'
  BY DEF NothingLost, LastReportFits, LastReport
<1>4. HeldFits'
  <2>1. \A h \in held : h.path \in File
    BY DEF TypeOK
  <2>2. QED
    BY <1>1, <2>1 DEF NothingLost, HeldFits
<1>5. ChangesReachRegistry'
  <2> SUFFICES ASSUME NEW f \in seen', ~Pending(f)', disk'[f] \in Readable \cup {Absent}
               PROVE  UpToDate(f)'
    BY DEF ChangesReachRegistry
  <2>1. f \in File /\ UpToDate(f)
    BY <1>1 DEF NothingLost, ChangesReachRegistry, TypeOK
  <2>2. QED
    BY <2>1 DEF UpToDate, Loads
<1>6. QED
  BY <1>2, <1>3, <1>4, <1>5 DEF NothingLost

\* A file that is loaded runs with what it says, besides what ran before.
LEMMA FileLoaded ==
  ASSUME TypeOK, NEW f \in File, Loads(f), Push(f, disk[f])
  PROVE  \A g \in File : \/ Running(g)' = Running(g)
                         \/ Loads(g) /\ Running(g)' = Running(g) \cup {disk[g]}
<1>1. Running(f)' = Running(f) \cup {disk[f]}
  BY Pushed DEF Loads
<1>2. \A g \in File : g # f => Running(g)' = Running(g)
  BY Pushed DEF Loads, Running
<1>3. SUFFICES ASSUME NEW g \in File
               PROVE  \/ Running(g)' = Running(g)
                      \/ Loads(g) /\ Running(g)' = Running(g) \cup {disk[g]}
  OBVIOUS
<1>4. CASE g = f
  BY <1>1, <1>4
<1>5. CASE g # f
  BY <1>2, <1>5
<1>6. QED
  BY <1>4, <1>5

\* A step that changes none of what the invariant speaks of.
LEMMA IdleStep ==
  ASSUME TypeOK, NothingLost, UNCHANGED <<files, watcher, registered, held, seen>>,
         held = {} \/ op' = op
  PROVE  NothingLost'
BY RegistryStep DEF TypeOK, Running

\* An edit of a file that is watched makes it pending; no other can have been seen.
LEMMA EditStep ==
  ASSUME TypeOK, NothingLost, NEW f \in File, NEW t, Edit(f, t)
  PROVE  NothingLost'
<1>1. /\ UNCHANGED <<watched, queue, registered, op, held>>
      /\ dirty' = dirty \cup ({f} \cap watched) /\ seen' = seen \cup ({f} \cap watched)
      /\ \A g \in File : g # f => disk'[g] = disk[g]
  BY DEF Edit, TypeOK, registry, loading
<1>2. OnlyWatched'
  BY <1>1 DEF NothingLost, OnlyWatched
<1>3. LastReportFits'
  <2> SUFFICES ASSUME NEW g \in File, g \notin dirty', NEW i \in DOMAIN queue, LastReport(g, i)
               PROVE  queue[i].kind = "Remove" <=> disk'[g] = Absent
    BY <1>1 DEF LastReportFits, LastReport
  <2>1. g \in watched
    BY DEF NothingLost, OnlyWatched, LastReport
  <2>2. QED
    BY <1>1, <2>1 DEF NothingLost, LastReportFits
<1>4. \A g \in File : g \in seen' /\ ~Pending(g)' => g # f /\ g \in seen /\ ~Pending(g)
  BY <1>1 DEF Pending, Queued, NothingLost, OnlyWatched
<1>5. HeldFits'
  <2>1. \A h \in held : h.path \in File
    BY DEF TypeOK
  <2>2. QED
    BY <1>1, <1>4, <2>1 DEF NothingLost, HeldFits
<1>6. ChangesReachRegistry'
  <2> SUFFICES ASSUME NEW g \in seen', ~Pending(g)', disk'[g] \in Readable \cup {Absent}
               PROVE  UpToDate(g)'
    BY DEF ChangesReachRegistry
  <2>1. g \in File
    BY <1>1 DEF TypeOK
  <2>2. QED
    BY <1>1, <1>4, <2>1 DEF NothingLost, ChangesReachRegistry, UpToDate, Running
<1>7. QED
  BY <1>2, <1>3, <1>5, <1>6 DEF NothingLost

\* The debouncer reports what the file is like now.
LEMMA DebounceStep ==
  ASSUME TypeOK, NothingLost, NEW f \in File, Debounce(f)
  PROVE  NothingLost'
<1> DEFINE c == [kind |-> IF Exists(f) THEN "CreateOrModify" ELSE "Remove", path |-> f]
<1>1. /\ f \in dirty /\ dirty' = dirty \ {f}
      /\ UNCHANGED <<disk, watched, registered, op, held, seen>>
  BY DEF Debounce, files, registry, loading, auxiliary
<1>2. PICK n \in Nat : n = Len(queue) /\ DOMAIN queue = 1 .. n
  BY LenProperties DEF TypeOK
<1>3. /\ DOMAIN queue' = 1 .. n + 1
      /\ queue'[n + 1] = c
      /\ \A i \in 1 .. n : queue'[i] = queue[i]
  <2>1. c \in Change
    BY DEF Change
  <2>2. queue' = Append(queue, c)
    BY DEF Debounce
  <2>3. QED
    BY <1>2, <2>1, <2>2, AppendProperties, LenProperties DEF TypeOK
<1>4. \A g \in File : Pending(g)' <=> Pending(g)
  <2>1. ASSUME NEW g \in File
        PROVE  Queued(g)' <=> Queued(g) \/ g = f
    BY <1>2, <1>3 DEF Queued
  <2>2. QED
    BY <1>1, <2>1 DEF Pending
<1>5. OnlyWatched'
  BY <1>1, <1>2, <1>3 DEF NothingLost, OnlyWatched
<1>6. LastReportFits'
  <2> SUFFICES ASSUME NEW g \in File, g \notin dirty', NEW i \in 1 .. n + 1, LastReport(g, i)'
               PROVE  queue'[i].kind = "Remove" <=> disk[g] = Absent
    BY <1>1, <1>3 DEF LastReportFits
  <2>1. CASE i = n + 1
    <3>1. queue'[i] = c /\ g = f
      BY <1>3, <2>1 DEF LastReport
    <3>2. QED
      BY <3>1 DEF Exists
  <2>2. CASE i # n + 1
    <3>1. i \in 1 .. n /\ n + 1 > i
      BY <2>2
    <3>2. g # f
      BY <1>3, <3>1 DEF LastReport
    <3>3. LastReport(g, i)
      BY <1>2, <1>3, <3>1 DEF LastReport
    <3>4. QED
      BY <1>1, <1>2, <1>3, <3>1, <3>2, <3>3 DEF NothingLost, LastReportFits
  <2>3. QED
    BY <2>1, <2>2
<1>7. HeldFits'
  <2>1. \A h \in held : h.path \in File
    BY DEF TypeOK
  <2>2. QED
    BY <1>1, <1>4, <2>1 DEF NothingLost, HeldFits
<1>8. ChangesReachRegistry'
  <2>1. seen \subseteq File
    BY DEF TypeOK
  <2>2. QED
    BY <1>1, <1>4, <2>1 DEF NothingLost, ChangesReachRegistry, UpToDate, Running
<1>9. QED
  BY <1>5, <1>6, <1>7, <1>8 DEF NothingLost

\* A new watcher, or none, has nothing pending and has seen nothing.
LEMMA RewatchStep ==
  ASSUME TypeOK, NothingLost, Watch \/ Unwatch
  PROVE  NothingLost'
<1>1. op = "idle" /\ held' = held /\ seen' = {} /\ dirty' = {} /\ queue' = <<>>
  BY DEF Watch, Unwatch, Call, loading
<1>2. held = {}
  BY <1>1 DEF NothingLost, HeldFits
<1>3. QED
  BY <1>1, <1>2 DEF NothingLost, OnlyWatched, LastReportFits, HeldFits, ChangesReachRegistry

\* replace_file reads what the file says.
LEMMA ReplaceFileStep ==
  ASSUME TypeOK, NothingLost, NEW f \in File, ReplaceFile(f)
  PROVE  NothingLost'
<1>1. /\ op' = "replace_file" /\ held' = {[path |-> f, text |-> disk[f]]}
      /\ UNCHANGED <<disk, registered, watched, dirty, queue, seen>>
  BY DEF ReplaceFile, files, registry, watcher, auxiliary
<1>2. OnlyWatched' /\ LastReportFits'
  BY <1>1 DEF NothingLost, OnlyWatched, LastReportFits, LastReport
<1>3. HeldFits'
  BY <1>1 DEF HeldFits
<1>4. ChangesReachRegistry'
  BY <1>1 DEF NothingLost, ChangesReachRegistry, Pending, Queued, UpToDate, Running
<1>5. QED
  BY <1>2, <1>3, <1>4 DEF NothingLost

\* What it swaps in is what the file still says, or a change is pending.
LEMMA SwapHeldStep ==
  ASSUME TypeOK, NothingLost, SwapHeld
  PROVE  NothingLost'
<1>1. PICK h \in held : Replace(h.path, h.text)
  BY DEF SwapHeld
<1>2. /\ h.path \in File
      /\ Running(h.path)' = {h.text} \cap Parses
      /\ \A g \in File : g # h.path => registered'[g] = registered[g]
      /\ held' = {}
      /\ UNCHANGED <<disk, watched, dirty, queue, seen>>
  <2>1. h.path \in File
    BY DEF TypeOK
  <2>2. QED
    BY <1>1, <2>1, Replaced DEF SwapHeld, files, watcher, auxiliary
<1>3. OnlyWatched' /\ LastReportFits' /\ HeldFits'
  BY <1>2 DEF NothingLost, OnlyWatched, LastReportFits, LastReport, HeldFits
<1>4. ChangesReachRegistry'
  <2> SUFFICES ASSUME NEW g \in seen, ~Pending(g), disk[g] \in Readable \cup {Absent}
               PROVE  Running(g)' = {disk[g]} \cap Parses
    BY <1>2 DEF ChangesReachRegistry, Pending, Queued, UpToDate
  <2>1. g \in File
    BY DEF TypeOK
  <2>2. CASE g = h.path
    <3>1. h.text = disk[g]
      BY <1>1, <2>2 DEF NothingLost, HeldFits
    <3>2. QED
      BY <1>2, <2>2, <3>1
  <2>3. CASE g # h.path
    BY <1>2, <2>1, <2>3 DEF NothingLost, ChangesReachRegistry, UpToDate, Running
  <2>4. QED
    BY <2>2, <2>3
<1>5. QED
  BY <1>3, <1>4 DEF NothingLost

\* Draining the last change queued for a file that was not edited since makes the
\* registry agree with the file.
LEMMA ApplyNextStep ==
  ASSUME TypeOK, NothingLost, ApplyNext
  PROVE  NothingLost'
<1> DEFINE f == Head(queue).path
<1>1. /\ op = "dispatch" /\ queue # <<>>
      /\ UNCHANGED <<disk, watched, dirty, op, held, seen>>
      /\ queue' = Tail(queue)
  BY DEF ApplyNext, files, loading, auxiliary
<1>2. PICK n \in Nat : Len(queue) = n + 1
  <2>1. Len(queue) \in Nat \ {0}
    BY <1>1, EmptySeq, LenProperties DEF TypeOK
  <2>2. \A m \in Nat \ {0} : m - 1 \in Nat /\ m = (m - 1) + 1
    OBVIOUS
  <2>3. QED
    BY <2>1, <2>2
<1>3. /\ DOMAIN queue = 1 .. n + 1
      /\ DOMAIN queue' = 1 .. n
      /\ \A i \in 1 .. n : i + 1 \in 1 .. n + 1 /\ queue'[i] = queue[i + 1]
      /\ 1 \in 1 .. n + 1 /\ Head(queue) = queue[1]
      /\ \A i \in 1 .. n + 1 : i = 1 \/ \E j \in 1 .. n : i = j + 1
  <2>1. /\ Len(Tail(queue)) = n
        /\ Tail(queue) \in Seq(Change)
        /\ \A i \in 1 .. n : Tail(queue)[i] = queue[i + 1]
    BY <1>1, <1>2, HeadTailProperties DEF TypeOK
  <2>2. \A i \in 1 .. n : i + 1 \in 1 .. n + 1
    OBVIOUS
  <2>3. \A i \in 1 .. n + 1 : i = 1 \/ \E j \in 1 .. n : i = j + 1
    <3>1. \A i \in 1 .. n + 1 : i # 1 => i - 1 \in 1 .. n /\ i = (i - 1) + 1
      OBVIOUS
    <3>2. QED
      BY <3>1
  <2>4. Head(queue) = queue[1]
    BY DEF TypeOK
  <2>5. QED
    BY <1>1, <1>2, <2>1, <2>2, <2>3, <2>4, LenProperties DEF TypeOK
<1>4. f \in File /\ queue[1].path = f
  <2>1. queue[1] \in Change
    BY <1>2, <1>3, ElementOfSeq DEF TypeOK
  <2>2. QED
    BY <1>3, <2>1 DEF Change
<1>5. \A g \in File : Pending(g) <=> Pending(g)' \/ g = f
  <2>1. ASSUME NEW g \in File
        PROVE  Queued(g) <=> Queued(g)' \/ g = f
    <3>1. ASSUME NEW i \in 1 .. n + 1, queue[i].path = g
          PROVE  Queued(g)' \/ g = f
      <4>1. CASE i = 1
        BY <1>4, <3>1, <4>1
      <4>2. CASE i # 1
        <5>1. PICK j \in 1 .. n : i = j + 1
          BY <1>3, <4>2
        <5>2. queue'[j].path = g
          BY <1>3, <3>1, <5>1
        <5>3. QED
          BY <1>3, <5>2 DEF Queued
      <4>3. QED
        BY <4>1, <4>2
    <3>2. ASSUME NEW i \in 1 .. n, queue'[i].path = g
          PROVE  Queued(g)
      <4>1. i + 1 \in DOMAIN queue /\ queue[i + 1].path = g
        BY <1>3, <3>2
      <4>2. QED
        BY <4>1 DEF Queued
    <3>3. g = f => Queued(g)
      BY <1>3, <1>4 DEF Queued
    <3>4. QED
      BY <1>3, <3>1, <3>2, <3>3 DEF Queued
  <2>2. QED
    BY <1>1, <2>1 DEF Pending
<1>6. OnlyWatched'
  BY <1>1, <1>3 DEF NothingLost, OnlyWatched
<1>7. LastReportFits'
  <2> SUFFICES ASSUME NEW g \in File, g \notin dirty, NEW i \in 1 .. n, LastReport(g, i)'
               PROVE  queue'[i].kind = "Remove" <=> disk[g] = Absent
    BY <1>1, <1>3 DEF LastReportFits
  <2>1. LastReport(g, i + 1)
    <3>1. ASSUME NEW k \in 1 .. n + 1, k > i + 1
          PROVE  queue[k].path # g
      <4>1. k # 1
        BY <3>1
      <4>2. PICK j \in 1 .. n : k = j + 1
        BY <1>3, <4>1
      <4>3. j > i
        BY <3>1, <4>2
      <4>4. queue'[j].path # g
        BY <1>3, <4>3 DEF LastReport
      <4>5. QED
        BY <1>3, <4>2, <4>4
    <3>2. queue[i + 1].path = g
      BY <1>3 DEF LastReport
    <3>3. QED
      BY <1>3, <3>1, <3>2 DEF LastReport
  <2>2. QED
    BY <1>3, <2>1 DEF NothingLost, LastReportFits
<1>8. HeldFits'
  BY <1>1 DEF NothingLost, HeldFits
<1>9. ChangesReachRegistry'
  <2> SUFFICES ASSUME NEW g \in seen, ~Pending(g)', disk[g] \in Readable \cup {Absent}
               PROVE  Running(g)' = {disk[g]} \cap Parses
    BY <1>1 DEF ChangesReachRegistry, UpToDate
  <2>1. g \in File
    BY DEF TypeOK
  <2>2. CASE g = f
    <3>1. LastReport(g, 1)
      <4>1. ASSUME NEW k \in 1 .. n + 1, k > 1
            PROVE  queue[k].path # g
        <5>1. k # 1
          BY <4>1
        <5>2. PICK j \in 1 .. n : k = j + 1
          BY <1>3, <5>1
        <5>3. queue'[j].path # g
          BY <1>3 DEF Pending, Queued
        <5>4. QED
          BY <1>3, <5>2, <5>3
      <4>2. QED
        BY <1>3, <1>4, <2>2, <4>1 DEF LastReport
    <3>2. Head(queue).kind = "Remove" <=> disk[g] = Absent
      BY <1>1, <1>3, <2>1, <3>1 DEF NothingLost, LastReportFits, Pending
    <3>3. CASE disk[g] = Absent
      <4>1. Drop(f)
        BY <3>2, <3>3 DEF ApplyNext
      <4>2. Running(g)' = {}
        BY <2>1, <2>2, <4>1, Dropped
      <4>3. Absent \notin Parses
        BY HotReloadAssumption
      <4>4. QED
        BY <3>3, <4>2, <4>3
    <3>4. CASE disk[g] # Absent
      <4>1. ReadsOK(f)
        BY <2>2, <3>4 DEF ReadsOK
      <4>2. Replace(f, disk[f])
        BY <2>2, <3>2, <3>4, <4>1 DEF ApplyNext
      <4>3. QED
        BY <2>1, <2>2, <4>2, Replaced
    <3>5. QED
      BY <3>3, <3>4
  <2>3. CASE g # f
    <3>1. registered'[g] = registered[g]
      BY <1>4, <2>1, <2>3, Dropped, Replaced DEF ApplyNext
    <3>2. ~Pending(g)
      BY <1>5, <2>1, <2>3
    <3>3. QED
      BY <3>1, <3>2 DEF NothingLost, ChangesReachRegistry, UpToDate, Running
  <2>4. QED
    BY <2>2, <2>3
<1>10. QED
  BY <1>6, <1>7, <1>8, <1>9 DEF NothingLost

\* Once nothing is pending for a file the watcher saw change, the registry has what
\* the file says, in whatever order edits, reports, drains and calls interleave.
THEOREM ChangesReachTheRegistry == Spec => []ChangesReachRegistry
<1>1. Init => NothingLost
  BY DEF Init, NothingLost, OnlyWatched, LastReportFits, HeldFits, ChangesReachRegistry
<1>2. TypeOK /\ TypeOK' /\ NothingLost /\ [Next]_vars => NothingLost'
  <2> SUFFICES ASSUME TypeOK, TypeOK', NothingLost, [Next]_vars
               PROVE  NothingLost'
    OBVIOUS
  <2> USE DEF files, registry, watcher, registering, loading, auxiliary
  <2>1. op = "idle" => held = {}
    BY DEF NothingLost, HeldFits
  <2>2. registered' \in [File -> Seq(Parses)] /\ seen \subseteq File
    BY DEF TypeOK
  <2>3. ASSUME NEW f \in File, NEW t \in Writes[f], Register(f, t)
        PROVE  NothingLost'
    <3>1. \A g \in seen' : g \in File /\ g # f
      BY <2>2, <2>3 DEF Register
    <3>2. \A g \in seen' : Running(g)' = Running(g)
      BY <2>3, <3>1, Pushed DEF Register, Running
    <3>3. QED
      BY <2>1, <2>2, <2>3, <3>2, RegistryStep DEF Register, Call
  <2>4. ASSUME NEW f \in File, RegisterFile(f)
        PROVE  NothingLost'
    <3>1. Loads(f) /\ Push(f, disk[f])
      BY <2>4 DEF RegisterFile
    <3>2. QED
      BY <2>1, <2>2, <2>4, <3>1, FileLoaded, RegistryStep DEF RegisterFile, Call
  <2>5. ASSUME NEW f \in File, Unregister(f)
        PROVE  NothingLost'
    <3>1. \A g \in seen' : g \in File /\ g # f
      BY <2>2, <2>5 DEF Unregister
    <3>2. \A g \in seen' : Running(g)' = Running(g)
      BY <2>5, <3>1, Dropped DEF Unregister, Running
    <3>3. QED
      BY <2>1, <2>2, <2>5, <3>2, RegistryStep DEF Unregister, Call
  <2>6. CASE Clear
    BY <2>1, <2>2, <2>6, RegistryStep DEF Clear, Call
  <2>7. CASE ReloadRoots
    BY <2>1, <2>2, <2>7, RegistryStep DEF ReloadRoots, Begin
  <2>8. ASSUME NEW r \in Root, RegisterDir(r)
        PROVE  NothingLost'
    BY <2>1, <2>8, IdleStep DEF RegisterDir, Begin
  <2>9. ASSUME NEW ds \in RootLists, RegisterRoots(ds)
        PROVE  NothingLost'
    BY <2>1, <2>9, IdleStep DEF RegisterRoots, Begin
  <2>10. CASE SkipKnownRoot \/ WalkDir \/ CheckManifests \/ FinishDir
    BY <2>10, IdleStep DEF SkipKnownRoot, WalkDir, CheckManifests, FinishDir
  <2>11. CASE FinishRoots \/ BeginDispatch \/ Match
    <3>1. op # "replace_file"
      BY <2>11 DEF FinishRoots, BeginDispatch, Match, InRoots
    <3>2. held = {}
      BY <3>1 DEF NothingLost, HeldFits
    <3>3. QED
      BY <2>11, <3>2, IdleStep DEF FinishRoots, BeginDispatch, Match
  <2>12. CASE RegisterNext
    <3>1. PICK f \in File : SkipBlocked(f) \/ LoadFile(f) \/ FailToLoad(f)
      BY <2>12 DEF RegisterNext
    <3>2. op # "replace_file"
      BY <2>12 DEF RegisterNext, InRoots
    <3>3. held = {}
      BY <3>2 DEF NothingLost, HeldFits
    <3>4. UNCHANGED <<files, watcher, held, seen>>
      BY <2>12 DEF RegisterNext
    <3>5. CASE SkipBlocked(f) \/ FailToLoad(f)
      BY <3>3, <3>4, <3>5, IdleStep DEF SkipBlocked, FailToLoad
    <3>6. CASE LoadFile(f)
      <4>1. Loads(f) /\ Push(f, disk[f])
        BY <3>6 DEF LoadFile
      <4>2. QED
        BY <2>2, <3>3, <3>4, <4>1, FileLoaded, RegistryStep
    <3>7. QED
      BY <3>1, <3>5, <3>6
  <2>13. CASE UNCHANGED vars
    BY <2>13, IdleStep DEF vars
  <2>14. QED
    BY <2>3, <2>4, <2>5, <2>6, <2>7, <2>8, <2>9, <2>10, <2>11, <2>12, <2>13,
       EditStep, DebounceStep, RewatchStep, ReplaceFileStep, SwapHeldStep, ApplyNextStep
       DEF Next, Embedder, Engine
<1>3. QED
  BY <1>1, <1>2, TypeCorrect, PTL DEF Spec, NothingLost

-----------------------------------------------------------------------------
(* A reload leaves what is on disk.                                        *)

\* How many of the first k roots are among the set s.
UpTo(s, k) == Cardinality(s \cap (1 .. k))

LEMMA CountNext ==
  ASSUME NEW s, NEW k \in Nat
  PROVE  /\ UpTo(s, k) \in Nat
         /\ UpTo(s, 0) = 0
         /\ UpTo(s, k + 1) = UpTo(s, k) + IF k + 1 \in s THEN 1 ELSE 0
<1>1. IsFiniteSet(s \cap (1 .. k))
  <2>1. IsFiniteSet(1 .. k)
    BY FS_Interval
  <2>2. s \cap (1 .. k) \in SUBSET (1 .. k)
    OBVIOUS
  <2>3. QED
    BY <2>1, <2>2, FS_Subset
<1>2. UpTo(s, k) \in Nat
  BY <1>1, FS_CardinalityType DEF UpTo
<1>3. UpTo(s, 0) = 0
  <2>1. s \cap (1 .. 0) = {}
    OBVIOUS
  <2>2. QED
    BY <2>1, FS_EmptySet DEF UpTo
<1>4. UpTo(s, k + 1) = UpTo(s, k) + IF k + 1 \in s THEN 1 ELSE 0
  <2>1. CASE k + 1 \in s
    <3>1. s \cap (1 .. k + 1) = (s \cap (1 .. k)) \cup {k + 1} /\ k + 1 \notin s \cap (1 .. k)
      BY <2>1
    <3>2. QED
      BY <1>1, <2>1, <3>1, FS_AddElement DEF UpTo
  <2>2. CASE k + 1 \notin s
    <3>1. s \cap (1 .. k + 1) = s \cap (1 .. k)
      BY <2>2
    <3>2. QED
      BY <1>2, <2>2, <3>1 DEF UpTo
  <2>3. QED
    BY <2>1, <2>2
<1>5. QED
  BY <1>2, <1>3, <1>4

\* The file had its turn in the directory being registered.
Had(f) == phase = "load" /\ f \notin todo

\* How many roots of s had a turn for a file when the first k had, and the next one if it
\* had its turn there.
Turns(s, k, had) == UpTo(s, k) + IF had /\ k + 1 \in s THEN 1 ELSE 0

\* A manifest of the directory lists the file, and one that is missing.
Incomplete(f) == \E x \in Manifests[Dir] : f \in Lists[x] /\ \E g \in Lists[x] : ~Exists(g)

\* What is left of the directory and what must not be loaded of it are as the directory
\* is, of a file that nobody disturbed.
Walked ==
  /\ phase # "scan" => todo \subseteq Under[Dir]
  /\ \A f \in File : Undisturbed(f) =>
       /\ phase = "manifests" => (f \in todo <=> f \in Under[Dir] /\ Exists(f))
       /\ phase = "load" => /\ f \in todo => Exists(f)
                            /\ f \in blocked <=> Incomplete(f)

\* What the first k of the roots have registered of a file, and the next one if it had its
\* turn.
Counted(f, k) ==
  /\ disk[f] \in said[f]
  /\ Running(f) \subseteq said[f]
  /\ Len(registered[f]) <= Turns(Above(f), k, Had(f))
  /\ Undisturbed(f) => Len(registered[f]) = Turns(RegisteredBy(f), k, Had(f))

Reloaded(k) ==
  /\ k \in Nat
  /\ Len(roots) = k + Len(dirs)
  /\ \A i \in 1 .. Len(dirs) : dirs[i] = roots[k + i]
  /\ \A f \in File : Counted(f, k)

Reloading == op = "reload_roots"
ReloadFits == Reloading => Walked /\ \E k \in Nat : Reloaded(k)

\* The directory being registered is the next of the roots.
LEMMA DirIsNext ==
  ASSUME TypeOK, NEW k, Reloaded(k), dirs # <<>>
  PROVE  /\ k + 1 \in DOMAIN roots
         /\ Dir = roots[k + 1]
         /\ \A f : k + 1 \in Above(f) <=> f \in Under[Dir]
         /\ \A f : k + 1 \in RegisteredBy(f) <=> f \in Under[Dir] /\ Exists(f) /\ ~Incomplete(f)
<1>1. Len(dirs) \in Nat \ {0} /\ Dir = dirs[1]
  BY EmptySeq, HeadTailProperties DEF TypeOK, Dir
<1>2. 1 \in 1 .. Len(dirs) /\ k + 1 \in 1 .. Len(roots)
  BY <1>1 DEF Reloaded
<1>3. k + 1 \in DOMAIN roots /\ Dir = roots[k + 1]
  BY <1>1, <1>2, LenProperties DEF Reloaded, TypeOK
<1>4. \A f : k + 1 \in Above(f) <=> f \in Under[Dir]
  BY <1>3 DEF Above
<1>5. \A f : k + 1 \in RegisteredBy(f) <=> f \in Under[Dir] /\ Exists(f) /\ ~Incomplete(f)
  BY <1>3, <1>4 DEF RegisteredBy, Incomplete
<1>6. QED
  BY <1>3, <1>4, <1>5

\* Nothing that the reload speaks of changes.
LEMMA ReloadKept ==
  ASSUME ReloadFits,
         UNCHANGED <<disk, roots, dirs, registered, op, said, phase, todo, blocked>>
  PROVE  ReloadFits'
<1>1. (Reloading <=> Reloading') /\ (Walked <=> Walked')
  BY DEF Reloading, Walked, Undisturbed, Untouched, Incomplete, Exists, Dir
<1>2. ASSUME NEW k \in Nat, Reloaded(k)
      PROVE  Reloaded(k)'
  <2>1. disk' = disk /\ roots' = roots /\ dirs' = dirs /\ registered' = registered
        /\ said' = said /\ phase' = phase /\ todo' = todo
    OBVIOUS
  <2>2. ASSUME NEW f \in File
        PROVE  Counted(f, k)'
    <3>1. Counted(f, k)
      BY <1>2 DEF Reloaded
    <3>2. QED
      BY <2>1, <3>1 DEF Counted, Had, Running, Undisturbed, Untouched, Above, RegisteredBy, Exists
  <2>3. QED
    BY <1>2, <2>1, <2>2 DEF Reloaded
<1>3. QED
  BY <1>1, <1>2 DEF ReloadFits

LEMMA ReloadBegins ==
  ASSUME TypeOK, ReloadRoots
  PROVE  ReloadFits'
<1>1. /\ dirs' = roots /\ roots' = roots /\ phase' = "scan"
      /\ registered' = [f \in File |-> <<>>]
      /\ said' = [f \in File |-> {disk[f]}] /\ disk' = disk
  BY DEF ReloadRoots, Begin, Clears, InRoots, TypeOK, files
<1>2. Len(roots) \in Nat
  BY LenProperties DEF TypeOK
<1>3. ASSUME NEW f \in File
      PROVE  Counted(f, 0)'
  <2>1. registered'[f] = <<>> /\ said'[f] = {disk'[f]}
    BY <1>1
  <2>2. Running(f)' = {} /\ Len(registered'[f]) = 0
    BY <2>1 DEF Running
  <2>3. \A s : UpTo(s, 0) = 0
    BY CountNext
  <2>4. ~Had(f)' /\ \A s : Turns(s, 0, FALSE) = 0
    BY <1>1, <2>3 DEF Turns, Had
  <2>5. QED
    BY <2>1, <2>2, <2>3, <2>4 DEF Counted, Turns
<1>4. \A i \in 1 .. Len(roots) : 0 + i = i
  BY <1>2
<1>5. Reloaded(0)'
  BY <1>1, <1>2, <1>3, <1>4 DEF Reloaded
<1>6. Walked'
  BY <1>1 DEF Walked
<1>7. QED
  BY <1>5, <1>6 DEF ReloadFits

\* An edit during the call disturbs the file and those that a manifest lists with it: of
\* every other file, what was there is as it was.
LEMMA EditDisturbs ==
  ASSUME TypeOK, NEW k, Reloaded(k), Reloading, NEW f \in File, NEW t, Edit(f, t),
         NEW g \in File, Undisturbed(g)'
  PROVE  /\ Undisturbed(g)
         /\ Exists(g)' <=> Exists(g)
         /\ RegisteredBy(g)' = RegisteredBy(g)
         /\ dirs # <<>> => (Incomplete(g)' <=> Incomplete(g))
<1>1. /\ t # disk[f] /\ disk' = [disk EXCEPT ![f] = t]
      /\ said' = [said EXCEPT ![f] = @ \cup {t}]
      /\ UNCHANGED <<roots, dirs>>
  BY DEF Edit, Reloading, InRoots, registry, loading, registering
<1>2. \A h \in File : disk[h] \in said[h]
  BY DEF Reloaded, Counted
<1>3. ASSUME NEW h \in File, Untouched(h)'
      PROVE  Untouched(h) /\ disk'[h] = disk[h]
  <2>1. CASE h = f
    <3>1. disk'[f] = t /\ said'[f] = said[f] \cup {t}
      BY <1>1 DEF TypeOK
    <3>2. said[f] \cup {t} = {t}
      BY <1>3, <2>1, <3>1 DEF Untouched
    <3>3. QED
      BY <1>1, <1>2, <3>2
  <2>2. CASE h # f
    BY <1>1, <1>3, <2>2 DEF Untouched, TypeOK
  <2>3. QED
    BY <2>1, <2>2
<1>4. Untouched(g)' /\ \A i \in DOMAIN roots : \A x \in Manifests[roots[i]] :
                         g \in Lists[x] => \A h \in Lists[x] : Untouched(h)'
  BY <1>1 DEF Undisturbed
<1>5. ASSUME NEW i \in DOMAIN roots, NEW x \in Manifests[roots[i]]
      PROVE  Lists[x] \subseteq File
  <2>1. roots[i] \in Root
    BY ElementOfSeq, LenProperties DEF TypeOK
  <2>2. QED
    BY <2>1, HotReloadAssumption
<1>6. Untouched(g) /\ disk'[g] = disk[g]
  BY <1>3, <1>4
<1>7. \A i \in DOMAIN roots : \A x \in Manifests[roots[i]] :
        g \in Lists[x] => \A h \in Lists[x] : Untouched(h) /\ disk'[h] = disk[h]
  BY <1>3, <1>4, <1>5
<1>8. Undisturbed(g)
  BY <1>6, <1>7 DEF Undisturbed
<1>9. Exists(g)' <=> Exists(g)
  BY <1>6 DEF Exists
<1>10. RegisteredBy(g)' = RegisteredBy(g)
  BY <1>1, <1>7, <1>9 DEF RegisteredBy, Above, Exists
<1>11. ASSUME dirs # <<>>
       PROVE  Incomplete(g)' <=> Incomplete(g)
  <2>1. k + 1 \in DOMAIN roots /\ Dir = roots[k + 1]
    BY <1>11, DirIsNext
  <2>2. Dir' = Dir
    BY <1>1 DEF Dir
  <2>3. QED
    BY <1>7, <2>1, <2>2 DEF Incomplete, Exists
<1>12. QED
  BY <1>8, <1>9, <1>10, <1>11

LEMMA ReloadEdited ==
  ASSUME TypeOK, ReloadFits, Reloading, NEW f \in File, NEW t, Edit(f, t)
  PROVE  ReloadFits'
<1>1. PICK k \in Nat : Reloaded(k)
  BY DEF ReloadFits
<1>2. /\ disk' = [disk EXCEPT ![f] = t]
      /\ said' = [said EXCEPT ![f] = @ \cup {t}]
      /\ UNCHANGED <<roots, dirs, registered, phase, todo, blocked>>
  BY DEF Edit, Reloading, InRoots, registry, loading, registering
<1>3. phase # "scan" => dirs # <<>>
  BY DEF TypeOK
<1>4. Walked'
  <2>1. Dir' = Dir
    BY <1>2 DEF Dir
  <2>2. ASSUME NEW g \in File, Undisturbed(g)'
        PROVE  /\ phase = "manifests" => (g \in todo <=> g \in Under[Dir] /\ Exists(g)')
               /\ phase = "load" => /\ g \in todo => Exists(g)'
                                    /\ g \in blocked <=> Incomplete(g)'
    <3>1. /\ Undisturbed(g)
          /\ Exists(g)' <=> Exists(g)
          /\ dirs # <<>> => (Incomplete(g)' <=> Incomplete(g))
      BY <1>1, <2>2, EditDisturbs
    <3>2. QED
      BY <1>3, <3>1 DEF ReloadFits, Walked
  <2>3. QED
    BY <1>2, <2>1, <2>2 DEF ReloadFits, Walked
<1>5. ASSUME NEW g \in File
      PROVE  Counted(g, k)'
  <2>1. Counted(g, k)
    BY <1>1 DEF Reloaded
  <2>2. disk'[g] \in said'[g] /\ said[g] \subseteq said'[g]
    BY <1>2, <2>1 DEF Counted, TypeOK
  <2>3. Running(g)' = Running(g) /\ Above(g)' = Above(g)
    BY <1>2 DEF Running, Above
  <2>4. Had(g)' <=> Had(g)
    BY <1>2 DEF Had
  <2>5. Undisturbed(g)' => Undisturbed(g) /\ RegisteredBy(g)' = RegisteredBy(g)
    BY <1>1, EditDisturbs
  <2>6. QED
    BY <1>2, <2>1, <2>2, <2>3, <2>4, <2>5 DEF Counted, Turns
<1>6. Reloaded(k)'
  BY <1>1, <1>2, <1>5 DEF Reloaded
<1>7. QED
  BY <1>4, <1>6 DEF ReloadFits

\* A step that registers nothing of a file, and takes its turn at most where it has none.
LEMMA TurnPassed ==
  ASSUME TypeOK, NEW k \in Nat, NEW f \in File, Counted(f, k),
         UNCHANGED <<disk, roots, said>>, registered'[f] = registered[f],
         Had(f) => Had(f)',
         Undisturbed(f) /\ k + 1 \in RegisteredBy(f) => (Had(f)' <=> Had(f))
  PROVE  Counted(f, k)'
<1>1. /\ Running(f)' = Running(f) /\ Above(f)' = Above(f)
      /\ RegisteredBy(f)' = RegisteredBy(f)
      /\ Undisturbed(f)' <=> Undisturbed(f)
  BY DEF Running, Above, RegisteredBy, Undisturbed, Untouched, Exists
<1>2. Len(registered[f]) \in Nat /\ \A s : UpTo(s, k) \in Nat
  BY LenProperties, CountNext DEF TypeOK
<1>3. Len(registered[f]) <= Turns(Above(f), k, Had(f)')
  BY <1>2 DEF Counted, Turns
<1>4. Undisturbed(f) => Len(registered[f]) = Turns(RegisteredBy(f), k, Had(f)')
  BY DEF Counted, Turns
<1>5. QED
  BY <1>1, <1>3, <1>4 DEF Counted, Turns

\* A step that registers what the file says, where it had no turn yet.
LEMMA TurnTaken ==
  ASSUME TypeOK, NEW k \in Nat, NEW f \in File, Counted(f, k),
         UNCHANGED <<disk, roots, said>>, Loads(f), Push(f, disk[f]),
         ~Had(f), Had(f)', k + 1 \in Above(f), Undisturbed(f) => k + 1 \in RegisteredBy(f)
  PROVE  Counted(f, k)'
<1>1. /\ Above(f)' = Above(f) /\ RegisteredBy(f)' = RegisteredBy(f)
      /\ Undisturbed(f)' <=> Undisturbed(f)
  BY DEF Above, RegisteredBy, Undisturbed, Untouched, Exists
<1>2. Running(f)' = Running(f) \cup {disk[f]} /\ Len(registered'[f]) = Len(registered[f]) + 1
  BY Pushed DEF Loads
<1>3. Len(registered[f]) \in Nat /\ \A s : UpTo(s, k) \in Nat
  BY LenProperties, CountNext DEF TypeOK
<1>4. Len(registered'[f]) <= Turns(Above(f), k, TRUE)
  BY <1>2, <1>3 DEF Counted, Turns
<1>5. Undisturbed(f) => Len(registered'[f]) = Turns(RegisteredBy(f), k, TRUE)
  BY <1>2, <1>3 DEF Counted, Turns
<1>6. QED
  BY <1>1, <1>2, <1>4, <1>5 DEF Counted, Turns

LEMMA WalkStep ==
  ASSUME TypeOK, ReloadFits, Reloading, WalkDir
  PROVE  ReloadFits'
<1>1. /\ UNCHANGED <<disk, roots, dirs, registered, said>>
      /\ phase = "scan" /\ phase' = "manifests"
      /\ todo' = {f \in Under[Dir] : Exists(f)}
  BY DEF WalkDir, files, registry, auxiliary
<1>2. PICK k \in Nat : Reloaded(k)
  BY DEF ReloadFits
<1>3. Walked'
  BY <1>1 DEF Walked, Dir, Exists
<1>4. \A f \in File : Counted(f, k)'
  BY <1>1, <1>2, TurnPassed DEF Reloaded, Had
<1>5. Reloaded(k)'
  BY <1>1, <1>2, <1>4 DEF Reloaded
<1>6. QED
  BY <1>3, <1>5 DEF ReloadFits

LEMMA ManifestsStep ==
  ASSUME TypeOK, ReloadFits, Reloading, CheckManifests
  PROVE  ReloadFits'
<1>1. /\ UNCHANGED <<disk, roots, dirs, registered, said, todo>>
      /\ phase = "manifests" /\ phase' = "load" /\ dirs # <<>>
      /\ complete' = {x \in Manifests[Dir] : \A f \in Lists[x] : Exists(f)}
      /\ blocked' = UNION {Lists[x] : x \in Manifests[Dir] \ complete'}
  BY DEF CheckManifests, files, registry, auxiliary, TypeOK
<1>2. PICK k \in Nat : Reloaded(k)
  BY DEF ReloadFits
<1>3. \A f : f \in blocked' <=> Incomplete(f)
  BY <1>1 DEF Incomplete
<1>4. Walked'
  <2>1. \A f : (Undisturbed(f)' <=> Undisturbed(f)) /\ (Incomplete(f)' <=> Incomplete(f))
               /\ (Exists(f)' <=> Exists(f))
    BY <1>1 DEF Undisturbed, Untouched, Incomplete, Exists, Dir
  <2>2. Dir' = Dir
    BY <1>1 DEF Dir
  <2>3. QED
    BY <1>1, <1>3, <2>1, <2>2 DEF ReloadFits, Walked
<1>5. ASSUME NEW f \in File
      PROVE  Counted(f, k)'
  <2>1. ~Had(f)
    BY <1>1 DEF Had
  <2>2. Undisturbed(f) /\ k + 1 \in RegisteredBy(f) => ~Had(f)'
    BY <1>1, <1>2, DirIsNext DEF ReloadFits, Walked, Had
  <2>3. QED
    BY <1>1, <1>2, <2>1, <2>2, TurnPassed DEF Reloaded
<1>6. Reloaded(k)'
  BY <1>1, <1>2, <1>5 DEF Reloaded
<1>7. QED
  BY <1>4, <1>6 DEF ReloadFits

LEMMA RegisterStep ==
  ASSUME TypeOK, ReloadFits, Reloading, RegisterNext
  PROVE  ReloadFits'
<1>1. PICK f \in File : SkipBlocked(f) \/ LoadFile(f) \/ FailToLoad(f)
  BY DEF RegisterNext
<1>2. phase = "load" /\ dirs # <<>> /\ UNCHANGED <<disk, roots>>
  BY DEF RegisterNext, files, TypeOK
<1>3. CASE Abort
  BY <1>3 DEF Abort, ReloadFits, Reloading
<1>4. CASE FileDone(f) /\ (SkipBlocked(f) \/ LoadFile(f))
  <2>1. /\ todo' = todo \ {f} /\ f \in todo
        /\ UNCHANGED <<dirs, phase, blocked, said>>
    BY <1>4 DEF FileDone, SkipBlocked, LoadFile
  <2>2. PICK k \in Nat : Reloaded(k)
    BY DEF ReloadFits
  <2>3. Walked
    BY DEF ReloadFits
  <2>4. Walked'
    <3>1. \A g : (Undisturbed(g)' <=> Undisturbed(g)) /\ (Incomplete(g)' <=> Incomplete(g))
                 /\ (Exists(g)' <=> Exists(g))
      BY <1>2, <2>1 DEF Undisturbed, Untouched, Incomplete, Exists, Dir
    <3>2. Dir' = Dir
      BY <2>1 DEF Dir
    <3>3. QED
      BY <1>2, <2>1, <2>3, <3>1, <3>2 DEF Walked
  <2>5. \A g \in File : /\ Had(g) => Had(g)'
                        /\ g # f => (Had(g)' <=> Had(g))
    BY <1>2, <2>1 DEF Had
  <2>6. /\ ~Had(f) /\ Had(f)'
        /\ k + 1 \in Above(f)
        /\ Undisturbed(f) => (k + 1 \in RegisteredBy(f) <=> f \notin blocked)
    BY <1>2, <2>1, <2>2, <2>3, DirIsNext DEF Walked, Had
  <2>7. ASSUME NEW g \in File
        PROVE  Counted(g, k)'
    <3>1. Counted(g, k)
      BY <2>2 DEF Reloaded
    <3>2. CASE SkipBlocked(f)
      <4>1. registered' = registered /\ f \in blocked
        BY <3>2 DEF SkipBlocked
      <4>2. QED
        BY <1>2, <2>1, <2>5, <2>6, <3>1, <4>1, TurnPassed
    <3>3. CASE LoadFile(f) /\ g = f
      <4>1. Push(f, disk[f]) /\ Loads(f) /\ f \notin blocked
        BY <3>3 DEF LoadFile
      <4>2. QED
        BY <1>2, <2>1, <2>6, <3>1, <3>3, <4>1, TurnTaken
    <3>4. CASE LoadFile(f) /\ g # f
      <4>1. registered'[g] = registered[g]
        BY <3>4, Pushed DEF LoadFile, Loads
      <4>2. QED
        BY <1>2, <2>1, <2>5, <3>1, <3>4, <4>1, TurnPassed
    <3>5. QED
      BY <1>4, <3>2, <3>3, <3>4
  <2>8. Reloaded(k)'
    BY <1>2, <2>1, <2>2, <2>7 DEF Reloaded
  <2>9. QED
    BY <2>4, <2>8 DEF ReloadFits
<1>5. QED
  BY <1>1, <1>3, <1>4 DEF SkipBlocked, LoadFile, FailToLoad

LEMMA FinishDirStep ==
  ASSUME TypeOK, ReloadFits, Reloading, FinishDir
  PROVE  ReloadFits'
<1>1. /\ UNCHANGED <<disk, roots, registered, said>>
      /\ phase = "load" /\ todo = {} /\ dirs # <<>>
      /\ phase' = "scan"
      /\ dirs' = Tail(dirs)
  BY DEF FinishDir, LeaveDir, files, auxiliary, Reloading, TypeOK
<1>2. PICK k \in Nat : Reloaded(k)
  BY DEF ReloadFits
<1>3. PICK n \in Nat : Len(dirs) = n + 1 /\ Len(Tail(dirs)) = n
  <2>1. Len(dirs) \in Nat \ {0} /\ Len(Tail(dirs)) = Len(dirs) - 1
    BY <1>1, EmptySeq, LenProperties, HeadTailProperties DEF TypeOK
  <2>2. \A m \in Nat \ {0} : m - 1 \in Nat /\ m = (m - 1) + 1
    OBVIOUS
  <2>3. QED
    BY <2>1, <2>2
<1>4. \A i \in 1 .. n : Tail(dirs)[i] = dirs[i + 1]
  BY <1>1, <1>3, HeadTailProperties DEF TypeOK
<1>5. Len(roots) = (k + 1) + n
  BY <1>2, <1>3 DEF Reloaded
<1>6. \A i \in 1 .. n : Tail(dirs)[i] = roots[(k + 1) + i]
  <2>1. ASSUME NEW i \in 1 .. n
        PROVE  Tail(dirs)[i] = roots[(k + 1) + i]
    <3>1. i + 1 \in 1 .. n + 1 /\ k + (i + 1) = (k + 1) + i
      BY <1>3
    <3>2. dirs[i + 1] = roots[k + (i + 1)]
      BY <1>2, <1>3, <3>1 DEF Reloaded
    <3>3. QED
      BY <1>4, <3>1, <3>2
  <2>2. QED
    BY <2>1
<1>7. ASSUME NEW f \in File
      PROVE  Counted(f, k + 1)'
  <2>1. /\ Running(f)' = Running(f) /\ Above(f)' = Above(f)
        /\ RegisteredBy(f)' = RegisteredBy(f)
        /\ Undisturbed(f)' <=> Undisturbed(f)
    BY <1>1 DEF Running, Above, RegisteredBy, Undisturbed, Untouched, Exists
  <2>2. Had(f) /\ ~Had(f)'
    BY <1>1 DEF Had
  <2>3. \A s : /\ UpTo(s, k) + (IF k + 1 \in s THEN 1 ELSE 0) = UpTo(s, k + 1)
               /\ UpTo(s, k + 1) + 0 = UpTo(s, k + 1)
    <3>1. k + 1 \in Nat
      OBVIOUS
    <3>2. \A s : UpTo(s, k + 1) \in Nat
      BY <3>1, CountNext
    <3>3. QED
      BY <3>2, CountNext
  <2>4. Counted(f, k)
    BY <1>2 DEF Reloaded
  <2>5. /\ Len(registered[f]) <= UpTo(Above(f), k + 1)
        /\ Undisturbed(f) => Len(registered[f]) = UpTo(RegisteredBy(f), k + 1)
    BY <2>2, <2>3, <2>4 DEF Counted, Turns
  <2>6. QED
    BY <1>1, <2>1, <2>2, <2>3, <2>4, <2>5 DEF Counted, Turns
<1>8. Walked'
  BY <1>1 DEF Walked
<1>9. Reloaded(k + 1)'
  BY <1>1, <1>3, <1>5, <1>6, <1>7 DEF Reloaded
<1>10. k + 1 \in Nat
  OBVIOUS
<1>11. QED
  BY <1>8, <1>9, <1>10 DEF ReloadFits

\* However files come and go during a reload, each is left with what it said meanwhile, once
\* for each root above it at most; what nobody disturbed just as often as roots register it.
\* At every moment the entries of a file are counted by the roots that had their turn.
THEOREM ReloadsMirrorTheDisk == Spec => []ReloadMirrorsDisk
<1>1. Init => ReloadFits
  BY DEF Init, ReloadFits, Reloading
<1>2. TypeOK /\ ReloadFits /\ [Next]_vars => ReloadFits'
  <2> SUFFICES ASSUME TypeOK, ReloadFits, [Next]_vars
               PROVE  ReloadFits'
    OBVIOUS
  <2> USE DEF files, registry, registering, loading, auxiliary
  <2>1. op # "reload_roots" /\ op' = op => ReloadFits'
    BY DEF ReloadFits, Reloading
  <2>2. ASSUME NEW f \in File, NEW t, Edit(f, t)
        PROVE  ReloadFits'
    BY <2>1, <2>2, ReloadEdited DEF Edit, Reloading
  <2>3. ASSUME NEW f \in File, Debounce(f)
        PROVE  ReloadFits'
    BY <2>3, ReloadKept DEF Debounce
  <2>4. CASE Embedder
    <3>1. CASE ReloadRoots
      BY <3>1, ReloadBegins
    <3>2. CASE ~ReloadRoots
      BY <2>1, <2>4, <3>2
      DEF Embedder, Register, RegisterFile, Unregister, ReplaceFile, Clear, Watch, Unwatch,
          RegisterDir, RegisterRoots, Begin, Call, ReloadFits, Reloading
    <3>3. QED
      BY <3>1, <3>2
  <2>5. CASE BeginDispatch \/ SwapHeld \/ ApplyNext \/ Match \/ FinishRoots \/ SkipKnownRoot
    BY <2>1, <2>5 DEF BeginDispatch, SwapHeld, ApplyNext, Match, FinishRoots, SkipKnownRoot,
                      ReloadFits, Reloading
  <2>6. CASE ~Reloading /\ (WalkDir \/ CheckManifests \/ RegisterNext \/ FinishDir)
    BY <2>6 DEF WalkDir, CheckManifests, RegisterNext, FinishDir, SkipBlocked, LoadFile,
                FailToLoad, FileDone, Abort, ReloadFits, Reloading
  <2>7. CASE UNCHANGED vars
    BY <2>7, ReloadKept DEF vars
  <2>8. QED
    BY <2>2, <2>3, <2>4, <2>5, <2>6, <2>7, WalkStep, ManifestsStep, RegisterStep, FinishDirStep
    DEF Next, Engine
<1>3. TypeOK /\ ReloadFits => ReloadMirrorsDisk
  <2> SUFFICES ASSUME TypeOK, ReloadFits, Reloading, dirs = <<>>, NEW f \in File
               PROVE  /\ Running(f) \subseteq said[f]
                      /\ Len(registered[f]) <= Cardinality(Above(f))
                      /\ Undisturbed(f) => Len(registered[f]) = Cardinality(RegisteredBy(f))
    BY DEF ReloadMirrorsDisk, Reloading
  <2>1. PICK k \in Nat : Reloaded(k)
    BY DEF ReloadFits
  <2>2. phase = "scan" /\ Len(dirs) = 0
    BY DEF TypeOK
  <2>3. DOMAIN roots = 1 .. k
    BY <2>1, <2>2, LenProperties DEF Reloaded, TypeOK
  <2>4. Above(f) \cap (1 .. k) = Above(f) /\ RegisteredBy(f) \cap (1 .. k) = RegisteredBy(f)
    BY <2>3 DEF Above, RegisteredBy
  <2>5. \A s : UpTo(s, k) + 0 = UpTo(s, k)
    BY CountNext
  <2>6. /\ Turns(Above(f), k, Had(f)) = Cardinality(Above(f))
        /\ Turns(RegisteredBy(f), k, Had(f)) = Cardinality(RegisteredBy(f))
    BY <2>2, <2>4, <2>5 DEF Turns, Had, UpTo
  <2>7. QED
    BY <2>1, <2>6 DEF Reloaded, Counted
<1>4. QED
  BY <1>1, <1>2, <1>3, TypeCorrect, PTL DEF Spec

-----------------------------------------------------------------------------
(* Which clauses match, and which a query finds.                           *)

LEMMA GreatestPlace ==
  ASSUME NEW n \in Nat, NEW T \in SUBSET (1 .. n), T # {}
  PROVE  Max(T) \in T
<1> DEFINE U == {n - x : x \in T}
<1>1. U \in SUBSET Nat /\ U # {}
  <2>1. \A x \in T : n - x \in Nat
    OBVIOUS
  <2>2. QED
    BY <2>1
<1>2. PICK u \in U : \A v \in U : u <= v
  BY <1>1, LeastNatural
<1>3. PICK x \in T : u = n - x
  OBVIOUS
<1>4. ASSUME NEW y \in T
      PROVE  x >= y
  <2>1. n - x <= n - y
    BY <1>2, <1>3
  <2>2. QED
    BY <2>1
<1>5. QED
  BY <1>4 DEF Max

LEMMA LeastPlace ==
  ASSUME NEW n \in Nat, NEW T \in SUBSET (1 .. n), T # {}
  PROVE  Min(T) \in T /\ \A y \in T : Min(T) <= y
<1>1. T \in SUBSET Nat
  OBVIOUS
<1>2. PICK x \in T : \A y \in T : x <= y
  BY <1>1, LeastNatural
<1>3. QED
  BY <1>2 DEF Min

LEMMA AllFieldsMatch ==
  ASSUME NEW fields, NEW input
  PROVE  MatchFields(fields, input) # {} <=>
           \A i \in DOMAIN fields :
             \/ fields[i].key \notin DOMAIN input /\ fields[i].pattern = GlobalEnum
             \/ MatchMember(fields[i], input) # {}
<1> DEFINE matches == [i \in DOMAIN fields |->
                         IF fields[i].key \notin DOMAIN input /\ fields[i].pattern = GlobalEnum
                         THEN {NoBindings}
                         ELSE MatchMember(fields[i], input)]
<1>1. MatchAll(matches) # {} <=> \A i \in DOMAIN matches : matches[i] # {}
  <2> HIDE DEF matches
  <2>1. QED
    BY DEF MatchAll
<1>2. MatchFields(fields, input) = MatchAll(matches)
  BY DEF MatchFields
<1>3. \A i \in DOMAIN fields :
        matches[i] # {} <=>
          \/ fields[i].key \notin DOMAIN input /\ fields[i].pattern = GlobalEnum
          \/ MatchMember(fields[i], input) # {}
  OBVIOUS
<1>4. DOMAIN matches = DOMAIN fields
  OBVIOUS
<1> HIDE DEF matches
<1>5. QED
  BY <1>1, <1>2, <1>3, <1>4

\* The first clause of a script that fires is one of it, and its fields match the event.
LEMMA FirstClauseMatches ==
  ASSUME NEW script, Len(script) \in Nat, DOMAIN script = 1 .. Len(script),
         NEW e, NEW m \in MatchFirstClause(script, e)
  PROVE  m.clause \in DOMAIN script /\ MatchFields(script[m.clause].fields, e) # {}
<1> DEFINE firing == {j \in DOMAIN script : Fires(script[j], e) # {}}
<1>1. firing # {}
  BY DEF MatchFirstClause
<1>2. Min(firing) \in firing
  <2>1. firing \in SUBSET (1 .. Len(script))
    OBVIOUS
  <2> HIDE DEF firing
  <2>2. QED
    BY <1>1, <2>1, LeastPlace
<1>3. m \in {[clause |-> Min(firing), bindings |-> b] : b \in Fires(script[Min(firing)], e)}
  BY <1>1 DEF MatchFirstClause
<1>4. m.clause = Min(firing)
  <2> HIDE DEF firing
  <2>1. QED
    BY <1>3
<1>5. Fires(script[m.clause], e) # {} /\ m.clause \in DOMAIN script
  BY <1>2, <1>4
<1>6. QED
  BY <1>5 DEF Fires

LEMMA LoadedClauses ==
  ASSUME RegistryTypeOK, NEW i \in DOMAIN scripts
  PROVE  /\ Len(ClausesOf(i)) \in Nat
         /\ DOMAIN ClausesOf(i) = 1 .. Len(ClausesOf(i))
         /\ \A j \in DOMAIN ClausesOf(i) : AreFields(ClausesOf(i)[j].fields)
<1>1. scripts[i] \in Loadable
  BY DEF RegistryTypeOK
<1>2. QED
  BY <1>1, RegistryAssumption DEF ClausesOf

LEMMA MatchedClauses ==
  ASSUME RegistryTypeOK, NEW e
  PROVE  /\ \A m \in MatchClauses(e) :
              /\ m.script \in DOMAIN scripts /\ m.clause \in DOMAIN ClausesOf(m.script)
              /\ MatchFields(ClausesOf(m.script)[m.clause].fields, e) # {}
         /\ \A m, n \in MatchClauses(e) : m.script = n.script => m.clause = n.clause
<1>1. ASSUME NEW m \in MatchClauses(e)
      PROVE  /\ m.script \in DOMAIN scripts
             /\ \E a \in MatchFirstClause(ClausesOf(m.script), e) : a.clause = m.clause
  <2>1. PICK i \in DOMAIN scripts : m \in {[script |-> i, clause |-> a.clause, bindings |-> a.bindings] :
                                           a \in MatchFirstClause(ClausesOf(i), e)}
    BY DEF MatchClauses
  <2>2. PICK a \in MatchFirstClause(ClausesOf(i), e) :
          m = [script |-> i, clause |-> a.clause, bindings |-> a.bindings]
    BY <2>1
  <2>3. m.script = i /\ m.clause = a.clause
    BY <2>2
  <2>4. QED
    BY <2>3
<1>2. ASSUME NEW m \in MatchClauses(e)
      PROVE  /\ m.clause \in DOMAIN ClausesOf(m.script)
             /\ MatchFields(ClausesOf(m.script)[m.clause].fields, e) # {}
  <2>1. PICK a \in MatchFirstClause(ClausesOf(m.script), e) : a.clause = m.clause
    BY <1>1
  <2>2. Len(ClausesOf(m.script)) \in Nat /\ DOMAIN ClausesOf(m.script) = 1 .. Len(ClausesOf(m.script))
    BY <1>1, LoadedClauses
  <2>3. a.clause \in DOMAIN ClausesOf(m.script) /\ MatchFields(ClausesOf(m.script)[a.clause].fields, e) # {}
    BY <2>2, FirstClauseMatches
  <2>4. QED
    BY <2>1, <2>3
<1>3. ASSUME NEW m \in MatchClauses(e), NEW n \in MatchClauses(e), m.script = n.script
      PROVE  m.clause = n.clause
  <2>1. PICK a \in MatchFirstClause(ClausesOf(m.script), e) : a.clause = m.clause
    BY <1>1
  <2>2. PICK b \in MatchFirstClause(ClausesOf(m.script), e) : b.clause = n.clause
    BY <1>1, <1>3
  <2>3. PICK script : script = ClausesOf(m.script)
    OBVIOUS
  <2> DEFINE firing == {j \in DOMAIN script : Fires(script[j], e) # {}}
  <2>4. firing # {}
    BY <2>1, <2>3 DEF MatchFirstClause
  <2>5. MatchFirstClause(script, e) =
          {[clause |-> Min(firing), bindings |-> c] : c \in Fires(script[Min(firing)], e)}
    BY <2>4 DEF MatchFirstClause
  <2> HIDE DEF firing
  <2>6. a.clause = Min(firing) /\ b.clause = Min(firing)
    BY <2>1, <2>2, <2>3, <2>5
  <2>7. QED
    BY <2>1, <2>2, <2>6
<1>4. QED
  BY <1>1, <1>2, <1>3

LEMMA FoundClauses ==
  ASSUME NEW query
  PROVE  \A i, j : [script |-> i, clause |-> j] \in Found(query) <=>
                     /\ i \in DOMAIN scripts /\ j \in DOMAIN ClausesOf(i)
                     /\ SubsetMatches(query, ClausesOf(i)[j].fields)
<1>1. ASSUME NEW i, NEW j, [script |-> i, clause |-> j] \in Found(query)
      PROVE  /\ i \in DOMAIN scripts /\ j \in DOMAIN ClausesOf(i)
             /\ SubsetMatches(query, ClausesOf(i)[j].fields)
  <2>1. PICK s \in DOMAIN scripts :
          [script |-> i, clause |-> j] \in
            {[script |-> s, clause |-> c] :
               c \in {k \in DOMAIN ClausesOf(s) : SubsetMatches(query, ClausesOf(s)[k].fields)}}
    BY <1>1 DEF Found
  <2>2. PICK c \in {k \in DOMAIN ClausesOf(s) : SubsetMatches(query, ClausesOf(s)[k].fields)} :
          [script |-> i, clause |-> j] = [script |-> s, clause |-> c]
    BY <2>1
  <2>3. i = s /\ j = c
    BY <2>2
  <2>4. QED
    BY <2>2, <2>3
<1>2. ASSUME NEW i \in DOMAIN scripts, NEW j \in DOMAIN ClausesOf(i),
             SubsetMatches(query, ClausesOf(i)[j].fields)
      PROVE  [script |-> i, clause |-> j] \in Found(query)
  <2>1. j \in {k \in DOMAIN ClausesOf(i) : SubsetMatches(query, ClausesOf(i)[k].fields)}
    BY <1>2
  <2>2. [script |-> i, clause |-> j] \in
          {[script |-> i, clause |-> c] :
             c \in {k \in DOMAIN ClausesOf(i) : SubsetMatches(query, ClausesOf(i)[k].fields)}}
    BY <2>1
  <2>3. QED
    BY <2>2 DEF Found
<1>3. QED
  BY <1>1, <1>2

LEMMA FoundAreRecords ==
  ASSUME NEW query, NEW f \in Found(query)
  PROVE  /\ f.script \in DOMAIN scripts /\ f.clause \in DOMAIN ClausesOf(f.script)
         /\ SubsetMatches(query, ClausesOf(f.script)[f.clause].fields)
<1>1. PICK s \in DOMAIN scripts :
        f \in {[script |-> s, clause |-> c] :
                 c \in {k \in DOMAIN ClausesOf(s) : SubsetMatches(query, ClausesOf(s)[k].fields)}}
  BY DEF Found
<1>2. PICK c \in {k \in DOMAIN ClausesOf(s) : SubsetMatches(query, ClausesOf(s)[k].fields)} :
        f = [script |-> s, clause |-> c]
  BY <1>1
<1>3. f.script = s /\ f.clause = c
  BY <1>2
<1>4. QED
  BY <1>2, <1>3

-----------------------------------------------------------------------------
(* The answers are those of the registry that was asked.                   *)

\* The strengthening: the answer is the one to the question, of these scripts.
Answered ==
  /\ RegistryTypeOK
  /\ asked.about = "event" => answer = MatchClauses(asked.input)
  /\ asked.about = "query" => answer = Found(asked.input)

LEMMA AnsweredInit == RegistryInit => Answered
<1>1. SUFFICES ASSUME RegistryInit PROVE Answered
  OBVIOUS
<1>2. scripts \in Seq(Loadable) /\ Len(scripts) <= MaxScripts
  <2>1. scripts = <<>>
    BY <1>1 DEF RegistryInit
  <2>2. QED
    BY <2>1, RegistryAssumption
<1>3. asked = NoQuestion /\ answer = {}
  BY <1>1 DEF RegistryInit
<1>4. asked.about \notin {"event", "query"}
  BY <1>3 DEF NoQuestion
<1>5. QED
  BY <1>2, <1>3, <1>4 DEF Answered, RegistryTypeOK

LEMMA AnsweredStep == Answered /\ [RegistryNext]_registry_vars => Answered'
<1>1. SUFFICES ASSUME Answered, [RegistryNext]_registry_vars PROVE Answered'
  OBVIOUS
<1>2. scripts \in Seq(Loadable) /\ Len(scripts) <= MaxScripts
  BY <1>1 DEF Answered, RegistryTypeOK
<1>3. ASSUME NEW script \in Loadable, Load(script)
      PROVE  Answered'
  <2>1. scripts' = Append(scripts, script) /\ asked' = NoQuestion /\ answer' = {} /\ Len(scripts) < MaxScripts
    BY <1>3 DEF Load
  <2>2. scripts' \in Seq(Loadable) /\ Len(scripts') <= MaxScripts
    BY <1>2, <2>1, RegistryAssumption
  <2>3. asked'.about \notin {"event", "query"}
    BY <2>1 DEF NoQuestion
  <2>4. QED
    BY <2>1, <2>2, <2>3 DEF Answered, RegistryTypeOK
<1>4. ASSUME NEW e \in Events, MatchEvent(e)
      PROVE  Answered'
  <2>1. asked' = [about |-> "event", input |-> e] /\ answer' = MatchClauses(e) /\ scripts' = scripts
    BY <1>4 DEF MatchEvent
  <2>2. asked'.input = e /\ asked'.about # "query"
    BY <2>1
  <2>3. /\ \A m \in MatchClauses(e) :
             m.script \in DOMAIN scripts /\ m.clause \in DOMAIN ClausesOf(m.script)
        /\ \A m, n \in MatchClauses(e) : m.script = n.script => m.clause = n.clause
    BY <1>1, MatchedClauses DEF Answered
  <2>4. \A i : ClausesOf(i)' = ClausesOf(i)
    BY <2>1 DEF ClausesOf
  <2>5. RegistryTypeOK'
    BY <1>2, <2>1, <2>3, <2>4 DEF RegistryTypeOK
  <2>6. MatchClauses(asked.input)' = MatchClauses(e)
    BY <2>1, <2>2 DEF MatchClauses, ClausesOf
  <2>7. QED
    BY <2>1, <2>2, <2>5, <2>6 DEF Answered
<1>5. ASSUME NEW query \in Queries, QuerySubset(query)
      PROVE  Answered'
  <2>1. asked' = [about |-> "query", input |-> query] /\ answer' = Found(query) /\ scripts' = scripts
    BY <1>5 DEF QuerySubset
  <2>2. \A f \in Found(query) : f.script \in DOMAIN scripts /\ f.clause \in DOMAIN ClausesOf(f.script)
    BY FoundAreRecords
  <2>3. \A i : ClausesOf(i)' = ClausesOf(i)
    BY <2>1 DEF ClausesOf
  <2>4. RegistryTypeOK'
    BY <1>2, <2>1, <2>2, <2>3 DEF RegistryTypeOK
  <2>5. asked'.about # "event" /\ asked'.input = query
    BY <2>1
  <2>6. Found(asked.input)' = Found(query)
    BY <2>1, <2>5 DEF Found, ClausesOf
  <2>7. QED
    BY <2>1, <2>4, <2>5, <2>6 DEF Answered
<1>6. CASE UNCHANGED registry_vars
  <2>1. scripts' = scripts /\ asked' = asked /\ answer' = answer
    BY <1>6 DEF registry_vars
  <2>2. QED
    BY <1>1, <2>1 DEF Answered, RegistryTypeOK, MatchClauses, Found, ClausesOf
<1>7. QED
  BY <1>1, <1>3, <1>4, <1>5, <1>6 DEF RegistryNext

\* The registry holds scripts as they were loaded, and an answer names clauses of them.
THEOREM RegistryTypeCorrect == RegistrySpec => []RegistryTypeOK
<1>1. RegistrySpec => []Answered
  BY AnsweredInit, AnsweredStep, PTL DEF RegistrySpec
<1>2. Answered => RegistryTypeOK
  BY DEF Answered
<1>3. QED
  BY <1>1, <1>2, PTL

LEMMA SomeFound ==
  ASSUME Answered, asked.about = "query"
  PROVE  answer = Found(asked.input)
BY DEF Answered

LEMMA SomeAnswer ==
  ASSUME Answered, asked.about = "event"
  PROVE  asked.input \in Events /\ answer = MatchClauses(asked.input)
<1>1. asked # NoQuestion
  BY DEF NoQuestion
<1>2. \A query : asked # [about |-> "query", input |-> query]
  OBVIOUS
<1>3. PICK e \in Events : asked = [about |-> "event", input |-> e]
  BY <1>1, <1>2 DEF Answered, RegistryTypeOK
<1>4. QED
  BY <1>3 DEF Answered

-----------------------------------------------------------------------------
(* What an event runs can be discovered.                                   *)

LEMMA MatchedIsFound ==
  ASSUME NEW fields, AreFields(fields), NEW e, MatchFields(fields, e) # {},
         NEW keys \in SUBSET (Keys(fields) \cap DOMAIN e)
  PROVE  SubsetMatches([key \in keys |-> e[key]], fields)
<1> DEFINE query == [key \in keys |-> e[key]]
<1>1. ASSUME NEW key \in keys
      PROVE  FirstWithKey(fields, key) # 0
             /\ MatchFieldValue(fields[FirstWithKey(fields, key)].pattern, e[key]) # {}
  <2> DEFINE places == {i \in DOMAIN fields : fields[i].key = key}
  <2>1. places # {}
    BY DEF Keys
  <2>2. FirstWithKey(fields, key) = Min(places)
    BY <2>1 DEF FirstWithKey
  <2>3. places \in SUBSET (1 .. Len(fields)) /\ Len(fields) \in Nat
    BY DEF AreFields
  <2>4. Min(places) \in places
    <3> HIDE DEF places
    <3>1. QED
      BY <2>1, <2>3, LeastPlace
  <2>5. PICK i \in DOMAIN fields : i = FirstWithKey(fields, key) /\ fields[i].key = key /\ i # 0
    <3>1. \A i \in places : i # 0 /\ i \in DOMAIN fields /\ fields[i].key = key
      BY <2>3
    <3> HIDE DEF places
    <3>2. QED
      BY <2>2, <2>4, <3>1
  <2>6. key \in DOMAIN e
    OBVIOUS
  <2>7. MatchMember(fields[i], e) # {}
    BY <2>5, <2>6, AllFieldsMatch
  <2>8. MatchFieldValue(fields[i].pattern, e[key]) # {}
    BY <2>5, <2>6, <2>7 DEF MatchMember
  <2>9. QED
    BY <2>5, <2>8
<1>2. DOMAIN query = keys /\ \A key \in keys : query[key] = e[key]
  OBVIOUS
<1> HIDE DEF query
<1>3. SubsetMatches(query, fields)
  BY <1>1, <1>2 DEF SubsetMatches
<1>4. QED
  BY <1>3 DEF query

\* What an event runs can be discovered by any query for fields of the event that the
\* clause names: match_clauses and query_subset, which share only the matcher, agree.
THEOREM RunsCanBeFound == RegistrySpec => []RunsAreFound
<1>1. ASSUME Answered
      PROVE  RunsAreFound
  <2>1. SUFFICES ASSUME asked.about = "event", NEW m \in answer,
                        NEW keys \in SUBSET (Keys(ClausesOf(m.script)[m.clause].fields) \cap DOMAIN asked.input)
                 PROVE  [script |-> m.script, clause |-> m.clause]
                          \in Found([key \in keys |-> asked.input[key]])
    BY DEF RunsAreFound
  <2>2. m \in MatchClauses(asked.input)
    BY <1>1, <2>1, SomeAnswer
  <2>3. RegistryTypeOK
    BY <1>1 DEF Answered
  <2>4. /\ m.script \in DOMAIN scripts /\ m.clause \in DOMAIN ClausesOf(m.script)
        /\ MatchFields(ClausesOf(m.script)[m.clause].fields, asked.input) # {}
    BY <2>2, <2>3, MatchedClauses
  <2>5. AreFields(ClausesOf(m.script)[m.clause].fields)
    BY <2>3, <2>4, LoadedClauses
  <2>6. SubsetMatches([key \in keys |-> asked.input[key]], ClausesOf(m.script)[m.clause].fields)
    BY <2>4, <2>5, MatchedIsFound
  <2>7. QED
    BY <2>4, <2>6, FoundClauses
<1>2. RegistrySpec => []Answered
  BY AnsweredInit, AnsweredStep, PTL DEF RegistrySpec
<1>3. QED
  BY <1>1, <1>2, PTL

-----------------------------------------------------------------------------
(* The scope of APIs.                                                      *)

\* What a clause fixes for a key is a literal of it, which an event it runs for matches.
LEMMA FixedByALiteral ==
  ASSUME NEW fields, AreFields(fields), NEW key \in DOMAIN PolicyToFieldMap(fields)
  PROVE  \E i \in DOMAIN fields : /\ fields[i].key = key /\ fields[i].pattern.sort = "literal"
                                  /\ PolicyToFieldMap(fields)[key] = fields[i].pattern.value
<1> DEFINE places == LiteralsOf(fields, key)
<1>1. places # {} /\ PolicyToFieldMap(fields)[key] = fields[Max(places)].pattern.value
  BY DEF PolicyToFieldMap
<1>2. places \in SUBSET (1 .. Len(fields)) /\ Len(fields) \in Nat
  BY DEF AreFields, LiteralsOf
<1>3. Max(places) \in places
  <2> HIDE DEF places
  <2>1. QED
    BY <1>1, <1>2, GreatestPlace
<1>4. QED
  BY <1>1, <1>3 DEF LiteralsOf

\* A pattern that accepts :global: and is not that enum accepts every enum.
LEMMA AcceptsEveryEnum ==
  ASSUME NEW f, IsField(f), f.pattern # GlobalEnum,
         MatchFieldValue(f.pattern, Enum("global")) # {},
         NEW v, Is(v, "enum"), IsEnumOrNot(v)
  PROVE  MatchFieldValue(f.pattern, v) # {}
<1>1. f.pattern.sort \in Sorts
  BY DEF IsField
<1>2. v = Enum(v.enum)
  BY DEF IsEnumOrNot
<1>3. ~Is(v, "list") /\ ~Is(v, "map") /\ ~Is(Enum("global"), "list") /\ ~Is(Enum("global"), "map")
  BY <1>2 DEF Is, Enum
<1>4. CASE f.pattern.sort = "literal"
  <2>1. f.pattern = Literal(f.pattern.value)
    BY <1>4 DEF IsField
  <2>2. Enum("global") = f.pattern.value
    BY <1>4 DEF MatchFieldValue, MatchAlone, Composite
  <2>3. QED
    BY <2>1, <2>2 DEF GlobalEnum
<1>5. CASE f.pattern.sort \in {"any", "variable"}
  BY <1>5 DEF MatchFieldValue, MatchAlone, Composite
<1>6. CASE f.pattern.sort \in {"pin", "elements", "head_tail", "map"}
  BY <1>3, <1>6 DEF MatchFieldValue, MatchAlone, PartsOf, ListParts, HeadTailParts, MapParts, Composite
<1>7. QED
  BY <1>1, <1>4, <1>5, <1>6 DEF Sorts

\* A clause matches the event: what it fixes for a key is what the event has there, or
\* :global:, and then the event has an enum there or is taken to have :global:.
LEMMA FixedAsRun ==
  ASSUME NEW clause, AreFields(clause.fields), NEW e, MatchFields(clause.fields, e) # {},
         NEW key \in DOMAIN PolicyToFieldMap(clause.fields)
  PROVE  /\ key \in DOMAIN AsRun(clause, e)
         /\ \/ AsRun(clause, e)[key] = PolicyToFieldMap(clause.fields)[key]
            \/ /\ PolicyToFieldMap(clause.fields)[key] = Enum("global")
               /\ key \in DOMAIN e /\ AsRun(clause, e)[key] = e[key] /\ Is(e[key], "enum")
<1> DEFINE anywhere == {k \in Keys(clause.fields) :
                          \E i \in DOMAIN clause.fields : clause.fields[i] = Field(k, GlobalEnum)}
<1>1. PICK i \in DOMAIN clause.fields :
        /\ clause.fields[i].key = key /\ clause.fields[i].pattern.sort = "literal"
        /\ PolicyToFieldMap(clause.fields)[key] = clause.fields[i].pattern.value
  BY FixedByALiteral
<1>2. clause.fields[i] = Field(key, clause.fields[i].pattern)
  BY <1>1 DEF AreFields, IsField
<1>3. /\ DOMAIN AsRun(clause, e) = DOMAIN e \cup anywhere
      /\ \A k \in DOMAIN e : AsRun(clause, e)[k] = e[k]
      /\ \A k \in anywhere : k \notin DOMAIN e => AsRun(clause, e)[k] = Enum("global")
  BY DEF AsRun
<1>4. CASE key \notin DOMAIN e
  <2>1. MatchMember(clause.fields[i], e) = {}
    BY <1>1, <1>4 DEF MatchMember
  <2>2. clause.fields[i].pattern = GlobalEnum
    BY <2>1, AllFieldsMatch
  <2>3. clause.fields[i].pattern.value = Enum("global")
    BY <2>2 DEF GlobalEnum, Literal
  <2>4. key \in anywhere
    BY <1>1, <1>2, <2>2 DEF Keys
  <2>5. QED
    BY <1>1, <1>3, <1>4, <2>3, <2>4
<1>5. CASE key \in DOMAIN e
  <2>1. MatchMember(clause.fields[i], e) # {}
    BY <1>1, <1>5, AllFieldsMatch
  <2>2. MatchFieldValue(clause.fields[i].pattern, e[key]) # {}
    BY <1>1, <1>5, <2>1 DEF MatchMember
  <2>3. \/ e[key] = clause.fields[i].pattern.value
        \/ clause.fields[i].pattern = GlobalEnum /\ Is(e[key], "enum")
    BY <1>1, <2>2 DEF MatchFieldValue, MatchAlone, Composite
  <2>4. clause.fields[i].pattern = GlobalEnum => clause.fields[i].pattern.value = Enum("global")
    BY DEF GlobalEnum, Literal
  <2>5. QED
    BY <1>1, <1>3, <1>5, <2>3, <2>4
<1>6. QED
  BY <1>4, <1>5

\* A clause sees an API only when it is in its scope: the fields of the binding match the
\* event the clause runs for.
THEOREM ApisStayInScope == RegistrySpec => []ApiInScope
<1>1. ASSUME Answered
      PROVE  ApiInScope
  <2>1. SUFFICES ASSUME asked.about = "event", NEW m \in answer, NEW pattern \in ApiPatterns,
                        Covers(pattern, ClausesOf(m.script)[m.clause]), NEW i \in DOMAIN pattern,
                        pattern[i].pattern # GlobalEnum
                 PROVE  MatchMember(pattern[i], AsRun(ClausesOf(m.script)[m.clause], asked.input)) # {}
    BY DEF ApiInScope
  <2>2. PICK e \in Events : e = asked.input /\ m \in MatchClauses(e)
    BY <1>1, <2>1, SomeAnswer
  <2>3. RegistryTypeOK
    BY <1>1 DEF Answered
  <2>4. PICK clause : clause = ClausesOf(m.script)[m.clause]
    OBVIOUS
  <2>5. AreFields(clause.fields) /\ MatchFields(clause.fields, e) # {}
    BY <2>2, <2>3, <2>4, MatchedClauses, LoadedClauses
  <2>6. IsField(pattern[i])
    BY RegistryAssumption DEF AreFields
  <2>7. pattern # <<>>
    OBVIOUS
  <2>8. MatchFields(pattern, PolicyToFieldMap(clause.fields)) # {}
    BY <2>1, <2>4, <2>7 DEF Covers
  <2>9. MatchMember(pattern[i], PolicyToFieldMap(clause.fields)) # {}
    BY <2>1, <2>8, AllFieldsMatch
  <2>10. PICK key : key = pattern[i].key
    OBVIOUS
  <2>11. /\ key \in DOMAIN PolicyToFieldMap(clause.fields)
         /\ MatchFieldValue(pattern[i].pattern, PolicyToFieldMap(clause.fields)[key]) # {}
    BY <2>9, <2>10 DEF MatchMember
  <2>12. /\ key \in DOMAIN AsRun(clause, e)
         /\ \/ AsRun(clause, e)[key] = PolicyToFieldMap(clause.fields)[key]
            \/ /\ PolicyToFieldMap(clause.fields)[key] = Enum("global")
               /\ key \in DOMAIN e /\ AsRun(clause, e)[key] = e[key] /\ Is(e[key], "enum")
    BY <2>5, <2>11, FixedAsRun
  <2>13. MatchFieldValue(pattern[i].pattern, AsRun(clause, e)[key]) # {}
    <3>1. CASE AsRun(clause, e)[key] = PolicyToFieldMap(clause.fields)[key]
      BY <2>11, <3>1
    <3>2. CASE /\ PolicyToFieldMap(clause.fields)[key] = Enum("global")
               /\ key \in DOMAIN e /\ AsRun(clause, e)[key] = e[key] /\ Is(e[key], "enum")
      <4>1. IsEnumOrNot(e[key])
        BY <3>2, RegistryAssumption
      <4>2. QED
        BY <2>1, <2>6, <2>11, <3>2, <4>1, AcceptsEveryEnum
    <3>3. QED
      BY <2>12, <3>1, <3>2
  <2>14. QED
    BY <2>2, <2>4, <2>10, <2>12, <2>13 DEF MatchMember
<1>2. RegistrySpec => []Answered
  BY AnsweredInit, AnsweredStep, PTL DEF RegistrySpec
<1>3. QED
  BY <1>1, <1>2, PTL

-----------------------------------------------------------------------------
(* The matcher is exact: it says what patterns describe.                   *)

Single(match) == \A c, d \in match : c = d

LEMMA MatchAllSingle ==
  ASSUME NEW matches
  PROVE  Single(MatchAll(matches))
  BY DEF MatchAll, Single

\* Of each variable the match has the value of one of its bindings.
LEMMA MatchAllBinds ==
  ASSUME NEW n \in Nat, NEW matches, DOMAIN matches = 1 .. n,
         \A i \in DOMAIN matches : Single(matches[i])
  PROVE  /\ (\A i \in DOMAIN matches : matches[i] # {}) => MatchAll(matches) # {}
         /\ \A c \in MatchAll(matches) :
              /\ \A i \in DOMAIN matches : matches[i] # {}
              /\ \A i \in DOMAIN matches : \A d \in matches[i] : DOMAIN d \subseteq DOMAIN c
              /\ \A name \in DOMAIN c : \E i \in DOMAIN matches : \E d \in matches[i] :
                   name \in DOMAIN d /\ c[name] = d[name]
<1>1. (\A i \in DOMAIN matches : matches[i] # {}) => MatchAll(matches) # {}
  BY DEF MatchAll
<1>2. SUFFICES ASSUME NEW c \in MatchAll(matches)
               PROVE  /\ \A i \in DOMAIN matches : matches[i] # {}
                      /\ \A i \in DOMAIN matches : \A d \in matches[i] : DOMAIN d \subseteq DOMAIN c
                      /\ \A name \in DOMAIN c : \E i \in DOMAIN matches : \E d \in matches[i] :
                           name \in DOMAIN d /\ c[name] = d[name]
  BY <1>1
<1> DEFINE names == UNION {DOMAIN TheBindings(matches[i]) : i \in DOMAIN matches}
<1>3. /\ \A i \in DOMAIN matches : matches[i] # {}
      /\ c = [name \in names |-> TheBindings(matches[LastToBind(matches, name)])[name]]
  BY <1>2 DEF MatchAll
<1>4. \A i \in DOMAIN matches : TheBindings(matches[i]) \in matches[i]
  BY <1>3 DEF TheBindings
<1>5. \A i \in DOMAIN matches : \A d \in matches[i] : d = TheBindings(matches[i])
  BY <1>4 DEF Single
<1>6. DOMAIN c = names
  BY <1>3
<1>7. ASSUME NEW i \in DOMAIN matches, NEW d \in matches[i]
      PROVE  DOMAIN d \subseteq DOMAIN c
  BY <1>5, <1>6
<1>8. ASSUME NEW name \in DOMAIN c
      PROVE  \E i \in DOMAIN matches : \E d \in matches[i] : name \in DOMAIN d /\ c[name] = d[name]
  <2> DEFINE binding == {i \in DOMAIN matches : name \in DOMAIN TheBindings(matches[i])}
  <2>1. binding # {} /\ binding \in SUBSET (1 .. n)
    BY <1>6
  <2>2. LastToBind(matches, name) \in binding
    <3>1. LastToBind(matches, name) = Max(binding)
      BY DEF LastToBind
    <3> HIDE DEF binding
    <3>2. QED
      BY <2>1, <3>1, GreatestPlace
  <2>3. c[name] = TheBindings(matches[LastToBind(matches, name)])[name]
    BY <1>3, <1>6
  <2>4. QED
    BY <1>4, <2>2, <2>3
<1>9. QED
  BY <1>3, <1>7, <1>8

\* What agrees with each binding of a match agrees with the match; the other way around
\* only if no variable is bound twice.
LEMMA MatchAllAgrees ==
  ASSUME NEW n \in Nat, NEW matches, DOMAIN matches = 1 .. n,
         \A i \in DOMAIN matches : Single(matches[i]), NEW b
  PROVE  /\ (\A i \in DOMAIN matches : \E c \in matches[i] : Agree(b, c)) =>
              \E c \in MatchAll(matches) : Agree(b, c)
         /\ BindOnce(matches) =>
              \A c \in MatchAll(matches) : Agree(b, c) =>
                \A i \in DOMAIN matches : \E d \in matches[i] : Agree(b, d)
<1>1. ASSUME \A i \in DOMAIN matches : \E c \in matches[i] : Agree(b, c)
      PROVE  \E c \in MatchAll(matches) : Agree(b, c)
  <2>1. PICK c \in MatchAll(matches) : TRUE
    BY <1>1, MatchAllBinds
  <2>2. ASSUME NEW name \in DOMAIN c
        PROVE  name \in DOMAIN b /\ b[name] = c[name]
    <3>1. PICK i \in DOMAIN matches : \E d \in matches[i] : name \in DOMAIN d /\ c[name] = d[name]
      BY <2>2, MatchAllBinds
    <3>2. PICK d \in matches[i] : name \in DOMAIN d /\ c[name] = d[name]
      BY <3>1
    <3>3. Agree(b, d)
      BY <1>1 DEF Single
    <3>4. QED
      BY <3>2, <3>3 DEF Agree
  <2>3. QED
    BY <2>2 DEF Agree
<1>2. ASSUME BindOnce(matches), NEW c \in MatchAll(matches), Agree(b, c),
             NEW i \in DOMAIN matches
      PROVE  \E d \in matches[i] : Agree(b, d)
  <2>1. PICK d \in matches[i] : DOMAIN d \subseteq DOMAIN c
    BY <1>2, MatchAllBinds
  <2>2. ASSUME NEW name \in DOMAIN d
        PROVE  name \in DOMAIN b /\ b[name] = d[name]
    <3>1. name \in DOMAIN c
      BY <2>1
    <3>2. PICK j \in DOMAIN matches : \E f \in matches[j] : name \in DOMAIN f /\ c[name] = f[name]
      BY <1>2, <3>1, MatchAllBinds
    <3>3. PICK f \in matches[j] : name \in DOMAIN f /\ c[name] = f[name]
      BY <3>2
    <3>4. i = j
      BY <1>2, <3>3 DEF BindOnce
    <3>5. f = d
      BY <3>4 DEF Single
    <3>6. QED
      BY <1>2, <3>1, <3>3, <3>5 DEF Agree
  <2>3. QED
    BY <2>2 DEF Agree
<1>3. QED
  BY <1>1, <1>2

LEMMA MatchSingle ==
  ASSUME NEW p, p.sort \in Sorts, NEW v
  PROVE  Single(MatchFieldValue(p, v))
<1>1. CASE p.sort \notin Composite
  BY <1>1 DEF MatchFieldValue, MatchAlone, Composite, Sorts, Single
<1>2. CASE p.sort \in Composite
  <2>1. \A parts, others \in PartsOf(p, v) : parts = others
    BY <1>2 DEF PartsOf, ListParts, HeadTailParts, MapParts, Composite
  <2>2. \A parts : Single(MatchParts(parts))
    BY MatchAllSingle DEF MatchParts
  <2>3. QED
    BY <1>2, <2>1, <2>2 DEF MatchFieldValue, Single
<1>3. QED
  BY <1>1, <1>2

\* A composite pattern describes a value by describing its parts.
LEMMA DescribesParts ==
  ASSUME NEW p, p.sort \in Composite, NEW v, NEW b
  PROVE  Describes(p, v, b) <=>
           \E parts \in PartsOf(p, v) :
             \A i \in DOMAIN parts : DescribesPart(parts[i].pattern, parts[i].value, b)
<1>1. CASE p.sort = "elements"
  <2>1. PartsOf(p, v) = ListParts(p.items, v)
    BY <1>1 DEF PartsOf
  <2>2. Describes(p, v, b) <=>
          /\ Is(v, "list") /\ Len(v.list) = Len(p.items)
          /\ \A i \in DOMAIN p.items : DescribesPart(p.items[i], v.list[i], b)
    BY <1>1 DEF Describes
  <2> DEFINE parts == [i \in DOMAIN p.items |-> Part(p.items[i], v.list[i])]
  <2>3. /\ DOMAIN parts = DOMAIN p.items
        /\ \A i \in DOMAIN p.items : parts[i].pattern = p.items[i] /\ parts[i].value = v.list[i]
    BY DEF Part
  <2>4. ListParts(p.items, v) = IF Is(v, "list") /\ Len(v.list) = Len(p.items) THEN {parts} ELSE {}
    BY DEF ListParts
  <2> HIDE DEF parts
  <2>5. QED
    BY <2>1, <2>2, <2>3, <2>4
<1>2. CASE p.sort = "head_tail"
  <2>1. PartsOf(p, v) = HeadTailParts(p, v)
    BY <1>2 DEF PartsOf
  <2>2. Describes(p, v, b) <=>
          /\ Is(v, "list") /\ v.list # <<>>
          /\ DescribesPart(p.head, Head(v.list), b)
          /\ DescribesPart(p.tail, List(Tail(v.list)), b)
    BY <1>2 DEF Describes
  <2> DEFINE parts == <<Part(p.head, Head(v.list)), Part(p.tail, List(Tail(v.list)))>>
  <2>3. /\ DOMAIN parts = {1, 2}
        /\ parts[1].pattern = p.head /\ parts[1].value = Head(v.list)
        /\ parts[2].pattern = p.tail /\ parts[2].value = List(Tail(v.list))
    BY DEF Part
  <2> HIDE DEF parts
  <2>4. QED
    BY <2>1, <2>2, <2>3 DEF HeadTailParts, parts
<1>3. CASE p.sort = "map"
  <2>1. PartsOf(p, v) = MapParts(p.fields, v)
    BY <1>3 DEF PartsOf
  <2>2. Describes(p, v, b) <=>
          /\ Is(v, "map")
          /\ \A i \in DOMAIN p.fields :
               /\ p.fields[i].key \in DOMAIN v.map
               /\ DescribesPart(p.fields[i].pattern, v.map[p.fields[i].key], b)
    BY <1>3 DEF Describes
  <2>3. Keys(p.fields) \subseteq DOMAIN v.map <=>
          \A i \in DOMAIN p.fields : p.fields[i].key \in DOMAIN v.map
    BY DEF Keys
  <2> DEFINE parts == [i \in DOMAIN p.fields |-> Part(p.fields[i].pattern, v.map[p.fields[i].key])]
  <2>4. /\ DOMAIN parts = DOMAIN p.fields
        /\ \A i \in DOMAIN p.fields :
             parts[i].pattern = p.fields[i].pattern /\ parts[i].value = v.map[p.fields[i].key]
    BY DEF Part
  <2>5. MapParts(p.fields, v) =
          IF Is(v, "map") /\ Keys(p.fields) \subseteq DOMAIN v.map THEN {parts} ELSE {}
    BY DEF MapParts
  <2> HIDE DEF parts
  <2>6. QED
    BY <2>1, <2>2, <2>3, <2>4, <2>5
<1>4. QED
  BY <1>1, <1>2, <1>3 DEF Composite

\* What the matcher should do with a pattern and a value.
Exact(pair) ==
  \A b \in Assignments :
    /\ Describes(pair.pattern, pair.value, b) =>
         \E c \in MatchFieldValue(pair.pattern, pair.value) : Agree(b, c)
    /\ Unambiguous(pair) =>
         \A c \in MatchFieldValue(pair.pattern, pair.value) :
           Agree(b, c) => Describes(pair.pattern, pair.value, b)

LEMMA ExactAlone ==
  ASSUME NEW pair \in Pairs, pair.pattern.sort \notin Composite
  PROVE  Exact(pair)
<1>1. pair.pattern.sort \in Sorts
  BY PairsAssumption
<1>2. PICK p, v : p = pair.pattern /\ v = pair.value
  OBVIOUS
<1>3. MatchFieldValue(p, v) = MatchAlone(p, v)
  BY <1>2 DEF MatchFieldValue
<1>4. DOMAIN NoBindings = {}
  BY DEF NoBindings
<1>5. \A b : Describes(p, v, b) => \E c \in MatchAlone(p, v) : Agree(b, c)
  BY <1>1, <1>2, <1>4 DEF Describes, MatchAlone, Agree, Composite, Sorts
<1>6. \A b : \A c \in MatchAlone(p, v) : Agree(b, c) => Describes(p, v, b)
  <2>1. CASE p.sort = "variable"
    <3>1. MatchAlone(p, v) = {[name \in {p.name} |-> v]}
      BY <2>1 DEF MatchAlone
    <3>2. \A b : Agree(b, [name \in {p.name} |-> v]) => p.name \in DOMAIN b /\ b[p.name] = v
      BY DEF Agree
    <3>3. QED
      BY <2>1, <3>1, <3>2 DEF Describes
  <2>2. CASE p.sort # "variable"
    BY <1>1, <1>2, <2>2 DEF Describes, MatchAlone, Composite, Sorts
  <2>3. QED
    BY <2>1, <2>2
<1>7. QED
  BY <1>2, <1>3, <1>5, <1>6 DEF Exact

LEMMA ExactOfParts ==
  ASSUME NEW pair \in Pairs, pair.pattern.sort \in Composite,
         \A parts \in PartsOf(pair.pattern, pair.value) : \A i \in DOMAIN parts : Exact(parts[i])
  PROVE  Exact(pair)
<1>1. PICK p, v : p = pair.pattern /\ v = pair.value
  OBVIOUS
<1>2. MatchFieldValue(p, v) = UNION {MatchParts(parts) : parts \in PartsOf(p, v)}
  BY <1>1 DEF MatchFieldValue
<1>3. ASSUME NEW parts \in PartsOf(p, v)
      PROVE  \E n \in Nat : \E matches :
               /\ DOMAIN parts = 1 .. n /\ DOMAIN matches = 1 .. n
               /\ MatchParts(parts) = MatchAll(matches)
               /\ matches = [i \in DOMAIN parts |-> MatchPart(parts[i].pattern, parts[i].value)]
               /\ \A i \in DOMAIN parts :
                    /\ matches[i] = MatchFieldValue(parts[i].pattern, parts[i].value)
                    /\ Single(matches[i])
  <2>1. DOMAIN parts = 1 .. Len(parts) /\ Len(parts) \in Nat /\ \A i \in DOMAIN parts : parts[i] \in Pairs
    BY <1>1, PairsAssumption
  <2>2. PICK matches : matches = [i \in DOMAIN parts |-> MatchPart(parts[i].pattern, parts[i].value)]
    OBVIOUS
  <2>3. DOMAIN matches = 1 .. Len(parts) /\ MatchParts(parts) = MatchAll(matches)
    BY <2>1, <2>2 DEF MatchParts
  <2>4. ASSUME NEW i \in DOMAIN parts
        PROVE  /\ matches[i] = MatchFieldValue(parts[i].pattern, parts[i].value)
               /\ Single(matches[i])
    <3>1. parts[i] \in Pairs
      BY <2>1
    <3>2. /\ parts[i].pattern.sort \in Sorts
          /\ MatchPart(parts[i].pattern, parts[i].value) = MatchFieldValue(parts[i].pattern, parts[i].value)
      BY <3>1, PairsAssumption
    <3>3. QED
      BY <2>2, <3>2, MatchSingle
  <2>5. QED
    BY <2>1, <2>2, <2>3, <2>4
<1>4. ASSUME NEW b \in Assignments, Describes(p, v, b)
      PROVE  \E c \in MatchFieldValue(p, v) : Agree(b, c)
  <2>1. PICK parts \in PartsOf(p, v) :
          \A i \in DOMAIN parts : DescribesPart(parts[i].pattern, parts[i].value, b)
    BY <1>1, <1>4, DescribesParts
  <2>0. PICK n \in Nat : \E matches :
               /\ DOMAIN parts = 1 .. n /\ DOMAIN matches = 1 .. n
               /\ MatchParts(parts) = MatchAll(matches)
               /\ \A i \in DOMAIN parts :
                    /\ matches[i] = MatchFieldValue(parts[i].pattern, parts[i].value)
                    /\ Single(matches[i])
    BY <1>3
  <2>2. PICK matches :
               /\ DOMAIN parts = 1 .. n /\ DOMAIN matches = 1 .. n
               /\ MatchParts(parts) = MatchAll(matches)
               /\ \A i \in DOMAIN parts :
                    /\ matches[i] = MatchFieldValue(parts[i].pattern, parts[i].value)
                    /\ Single(matches[i])
    BY <2>0
  <2>3. ASSUME NEW i \in DOMAIN parts
        PROVE  \E c \in matches[i] : Agree(b, c)
    <3>1. parts[i] \in Pairs
      BY <1>1, PairsAssumption
    <3>2. Describes(parts[i].pattern, parts[i].value, b)
      BY <2>1, <3>1, PairsAssumption
    <3>3. Exact(parts[i])
      BY <1>1
    <3>4. QED
      BY <2>2, <3>2, <3>3 DEF Exact
  <2>4. PICK c \in MatchAll(matches) : Agree(b, c)
    BY <2>2, <2>3, MatchAllAgrees
  <2>5. QED
    BY <1>2, <2>2, <2>4
<1>5. ASSUME NEW b \in Assignments, Unambiguous(pair), NEW c \in MatchFieldValue(p, v), Agree(b, c)
      PROVE  Describes(p, v, b)
  <2>1. PICK parts \in PartsOf(p, v) : c \in MatchParts(parts)
    BY <1>2
  <2>0. PICK n \in Nat : \E matches :
               /\ DOMAIN parts = 1 .. n /\ DOMAIN matches = 1 .. n
               /\ MatchParts(parts) = MatchAll(matches)
               /\ matches = [i \in DOMAIN parts |-> MatchPart(parts[i].pattern, parts[i].value)]
               /\ \A i \in DOMAIN parts :
                    /\ matches[i] = MatchFieldValue(parts[i].pattern, parts[i].value)
                    /\ Single(matches[i])
    BY <1>3
  <2>2. PICK matches :
               /\ DOMAIN parts = 1 .. n /\ DOMAIN matches = 1 .. n
               /\ MatchParts(parts) = MatchAll(matches)
               /\ matches = [i \in DOMAIN parts |-> MatchPart(parts[i].pattern, parts[i].value)]
               /\ \A i \in DOMAIN parts :
                    /\ matches[i] = MatchFieldValue(parts[i].pattern, parts[i].value)
                    /\ Single(matches[i])
    BY <2>0
  <2>3. BindOnce(matches) /\ \A i \in DOMAIN parts : Unambiguous(parts[i])
    <3>1. PICK plain \in SUBSET Pairs :
            /\ pair \in plain
            /\ \A q \in plain : q.pattern.sort \in Composite =>
                 \A others \in PartsOf(q.pattern, q.value) :
                   /\ BindOnce([i \in DOMAIN others |-> MatchPart(others[i].pattern, others[i].value)])
                   /\ \A i \in DOMAIN others : others[i] \in plain
      BY <1>5 DEF Unambiguous
    <3>2. /\ BindOnce([i \in DOMAIN parts |-> MatchPart(parts[i].pattern, parts[i].value)])
          /\ \A i \in DOMAIN parts : parts[i] \in plain
      BY <1>1, <2>1, <3>1
    <3>3. \A i \in DOMAIN parts : Unambiguous(parts[i])
      BY <3>1, <3>2 DEF Unambiguous
    <3>4. QED
      BY <2>2, <3>2, <3>3
  <2>4. \A i \in DOMAIN matches : \E d \in matches[i] : Agree(b, d)
    BY <1>5, <2>1, <2>2, <2>3, MatchAllAgrees
  <2>5. ASSUME NEW i \in DOMAIN parts
        PROVE  DescribesPart(parts[i].pattern, parts[i].value, b)
    <3>1. parts[i] \in Pairs
      BY <1>1, PairsAssumption
    <3>2. Exact(parts[i])
      BY <1>1
    <3>3. PICK d \in MatchFieldValue(parts[i].pattern, parts[i].value) : Agree(b, d)
      BY <2>2, <2>4
    <3>4. Describes(parts[i].pattern, parts[i].value, b)
      BY <2>3, <3>2, <3>3 DEF Exact
    <3>5. QED
      BY <3>1, <3>4, PairsAssumption
  <2>6. QED
    BY <1>1, <2>5, DescribesParts
<1>6. QED
  BY <1>1, <1>4, <1>5 DEF Exact

\* However deep patterns and values nest: what a pattern describes, the matcher accepts,
\* with bindings that are that assignment; and with its bindings the pattern is the value,
\* if it binds no variable twice.
THEOREM MatcherIsExact == \A pair \in Pairs : Exact(pair)
<1> DEFINE T == {n \in Nat : \A pair \in Pairs : Nesting(pair.pattern) < n => Exact(pair)}
<1>1. 0 \in T
  BY PairsAssumption
<1>2. ASSUME NEW n \in T
      PROVE  n + 1 \in T
  <2>1. SUFFICES ASSUME NEW pair \in Pairs, Nesting(pair.pattern) < n + 1
                 PROVE  Exact(pair)
    OBVIOUS
  <2>2. CASE pair.pattern.sort \notin Composite
    BY <2>2, ExactAlone
  <2>3. CASE pair.pattern.sort \in Composite
    <3>1. ASSUME NEW parts \in PartsOf(pair.pattern, pair.value), NEW i \in DOMAIN parts
          PROVE  Exact(parts[i])
      <4>1. parts[i] \in Pairs /\ Nesting(parts[i].pattern) < Nesting(pair.pattern)
        BY <2>3, PairsAssumption
      <4>2. Nesting(parts[i].pattern) \in Nat /\ Nesting(pair.pattern) \in Nat
        BY <4>1, PairsAssumption
      <4>3. Nesting(parts[i].pattern) < n
        BY <2>1, <4>1, <4>2
      <4>4. QED
        BY <4>1, <4>3
    <3>2. QED
      BY <2>3, <3>1, ExactOfParts
  <2>4. QED
    BY <2>2, <2>3
<1> HIDE DEF T
<1>3. T = Nat
  <2>1. T \in SUBSET Nat
    BY DEF T
  <2>2. QED
    BY <1>1, <1>2, <2>1, Induction
<1>4. ASSUME NEW pair \in Pairs
      PROVE  Exact(pair)
  <2>1. PICK n \in Nat : n = Nesting(pair.pattern) + 1 /\ Nesting(pair.pattern) < n
    BY PairsAssumption
  <2>2. n \in T
    BY <1>3
  <2>3. QED
    BY <2>1, <2>2 DEF T
<1>5. QED
  BY <1>4

\* The same of the fields of a clause and an event.
LEMMA FieldsAreExact ==
  ASSUME NEW fields, AreFields(fields), NEW e,
         \A i \in DOMAIN fields :
           fields[i].key \in DOMAIN e => Part(fields[i].pattern, e[fields[i].key]) \in Pairs,
         NEW b \in Assignments
  PROVE  /\ DescribesEvent(fields, e, b) => \E c \in MatchFields(fields, e) : Agree(b, c)
         /\ UnambiguousFields(fields, e) =>
              \A c \in MatchFields(fields, e) : Agree(b, c) => DescribesEvent(fields, e, b)
<1>1. PICK matches :
        matches = [i \in DOMAIN fields |->
                     IF fields[i].key \notin DOMAIN e /\ fields[i].pattern = GlobalEnum
                     THEN {NoBindings} ELSE MatchMember(fields[i], e)]
  OBVIOUS
<1>2. /\ Len(fields) \in Nat /\ DOMAIN fields = 1 .. Len(fields) /\ DOMAIN matches = 1 .. Len(fields)
      /\ MatchFields(fields, e) = MatchAll(matches)
  BY <1>1 DEF AreFields, MatchFields
<1>3. ASSUME NEW i \in DOMAIN fields, fields[i].key \in DOMAIN e
      PROVE  /\ matches[i] = MatchFieldValue(fields[i].pattern, e[fields[i].key])
             /\ MatchMember(fields[i], e) = matches[i]
             /\ Part(fields[i].pattern, e[fields[i].key]) \in Pairs
  BY <1>1, <1>3 DEF MatchMember
<1>4. ASSUME NEW i \in DOMAIN fields, fields[i].key \notin DOMAIN e
      PROVE  /\ fields[i].pattern = GlobalEnum => matches[i] = {NoBindings}
             /\ fields[i].pattern # GlobalEnum => matches[i] = {}
             /\ MatchMember(fields[i], e) = {}
  BY <1>1, <1>4 DEF MatchMember
<1>5. ASSUME NEW i \in DOMAIN matches
      PROVE  Single(matches[i])
  <2>1. i \in DOMAIN fields
    BY <1>2
  <2>2. CASE fields[i].key \in DOMAIN e
    <3>1. fields[i].pattern.sort \in Sorts
      BY <2>1 DEF AreFields, IsField
    <3>2. QED
      BY <1>3, <2>1, <2>2, <3>1, MatchSingle
  <2>3. CASE fields[i].key \notin DOMAIN e
    BY <1>4, <2>1, <2>3 DEF Single
  <2>4. QED
    BY <2>2, <2>3
<1>6. ASSUME NEW i \in DOMAIN fields, fields[i].key \in DOMAIN e
      PROVE  /\ DescribesPart(fields[i].pattern, e[fields[i].key], b) =>
                  \E c \in matches[i] : Agree(b, c)
             /\ Unambiguous(Part(fields[i].pattern, e[fields[i].key])) =>
                  \A c \in matches[i] :
                    Agree(b, c) => DescribesPart(fields[i].pattern, e[fields[i].key], b)
  <2>1. PICK pair \in Pairs : pair = Part(fields[i].pattern, e[fields[i].key])
    BY <1>3, <1>6
  <2>2. pair.pattern = fields[i].pattern /\ pair.value = e[fields[i].key]
    BY <2>1 DEF Part
  <2>3. DescribesPart(pair.pattern, pair.value, b) <=> Describes(pair.pattern, pair.value, b)
    BY PairsAssumption
  <2>4. Exact(pair)
    BY MatcherIsExact
  <2>5. matches[i] = MatchFieldValue(pair.pattern, pair.value)
    BY <1>3, <1>6, <2>2
  <2>6. QED
    BY <2>1, <2>2, <2>3, <2>4, <2>5 DEF Exact
<1>7. ASSUME DescribesEvent(fields, e, b)
      PROVE  \E c \in MatchFields(fields, e) : Agree(b, c)
  <2>1. ASSUME NEW i \in DOMAIN matches
        PROVE  \E c \in matches[i] : Agree(b, c)
    <3>1. i \in DOMAIN fields
      BY <1>2
    <3>2. CASE fields[i].key \in DOMAIN e
      BY <1>6, <1>7, <3>1, <3>2 DEF DescribesEvent
    <3>3. CASE fields[i].key \notin DOMAIN e
      <4>1. fields[i].pattern = GlobalEnum
        BY <1>7, <3>1, <3>3 DEF DescribesEvent
      <4>2. matches[i] = {NoBindings}
        BY <1>4, <3>1, <3>3, <4>1
      <4>3. Agree(b, NoBindings)
        BY DEF NoBindings, Agree
      <4>4. QED
        BY <4>2, <4>3
    <3>4. QED
      BY <3>2, <3>3
  <2>2. QED
    BY <1>2, <1>5, <2>1, MatchAllAgrees
<1>8. ASSUME UnambiguousFields(fields, e), NEW c \in MatchFields(fields, e), Agree(b, c)
      PROVE  DescribesEvent(fields, e, b)
  <2>1. BindOnce(matches)
    <3>1. PICK members : members = [i \in DOMAIN fields |-> MatchMember(fields[i], e)]
      OBVIOUS
    <3>2. BindOnce(members)
      BY <1>8, <3>1 DEF UnambiguousFields
    <3>3. ASSUME NEW i \in DOMAIN fields, NEW j \in DOMAIN fields, i # j,
                 NEW d \in matches[i], NEW f \in matches[j]
          PROVE  DOMAIN d \cap DOMAIN f = {}
      <4>1. CASE fields[i].key \in DOMAIN e /\ fields[j].key \in DOMAIN e
        <5>1. d \in members[i] /\ f \in members[j]
          BY <1>3, <3>1, <3>3, <4>1
        <5>2. QED
          BY <3>1, <3>2, <3>3, <5>1 DEF BindOnce
      <4>2. CASE fields[i].key \notin DOMAIN e
        <5>1. d = NoBindings
          BY <1>4, <3>3, <4>2
        <5>2. QED
          BY <5>1 DEF NoBindings
      <4>3. CASE fields[j].key \notin DOMAIN e
        <5>1. f = NoBindings
          BY <1>4, <3>3, <4>3
        <5>2. QED
          BY <5>1 DEF NoBindings
      <4>4. QED
        BY <4>1, <4>2, <4>3
    <3>4. QED
      BY <1>2, <3>3 DEF BindOnce
  <2>2. \A i \in DOMAIN matches : \E d \in matches[i] : Agree(b, d)
    BY <1>2, <1>5, <1>8, <2>1, MatchAllAgrees
  <2>3. ASSUME NEW i \in DOMAIN fields
        PROVE  IF fields[i].key \in DOMAIN e
               THEN DescribesPart(fields[i].pattern, e[fields[i].key], b)
               ELSE fields[i].pattern = GlobalEnum
    <3>1. PICK d \in matches[i] : Agree(b, d)
      BY <1>2, <2>2
    <3>2. CASE fields[i].key \in DOMAIN e
      <4>1. Unambiguous(Part(fields[i].pattern, e[fields[i].key]))
        BY <1>8, <3>2 DEF UnambiguousFields
      <4>2. QED
        BY <1>6, <3>1, <3>2, <4>1
    <3>3. CASE fields[i].key \notin DOMAIN e
      BY <1>4, <3>1, <3>3
    <3>4. QED
      BY <3>2, <3>3
  <2>4. QED
    BY <2>3 DEF DescribesEvent
<1>9. QED
  BY <1>7, <1>8

\* A match has the bindings with which its clause fires, and no clause before it fires.
LEMMA FirstClauseFires ==
  ASSUME NEW script, Len(script) \in Nat, DOMAIN script = 1 .. Len(script), NEW e
  PROVE  /\ \A m \in MatchFirstClause(script, e) : m.bindings \in Fires(script[m.clause], e)
         /\ \A j \in DOMAIN script :
              Fires(script[j], e) # {} => \E m \in MatchFirstClause(script, e) : m.clause <= j
<1> DEFINE firing == {j \in DOMAIN script : Fires(script[j], e) # {}}
<1>1. firing # {} =>
        MatchFirstClause(script, e) =
          {[clause |-> Min(firing), bindings |-> b] : b \in Fires(script[Min(firing)], e)}
  BY DEF MatchFirstClause
<1>2. firing = {} => MatchFirstClause(script, e) = {}
  BY DEF MatchFirstClause
<1>3. firing \in SUBSET (1 .. Len(script))
  OBVIOUS
<1>4. \A j \in firing : Fires(script[j], e) # {}
  OBVIOUS
<1>5. \A j \in DOMAIN script : Fires(script[j], e) # {} => j \in firing
  OBVIOUS
<1> HIDE DEF firing
<1>6. firing # {} => Min(firing) \in firing /\ \A j \in firing : Min(firing) <= j
  BY <1>3, LeastPlace
<1>7. ASSUME NEW m \in MatchFirstClause(script, e)
      PROVE  m.bindings \in Fires(script[m.clause], e)
  <2>1. PICK b \in Fires(script[Min(firing)], e) : m = [clause |-> Min(firing), bindings |-> b]
    BY <1>1, <1>2
  <2>2. m.clause = Min(firing) /\ m.bindings = b
    BY <2>1
  <2>3. QED
    BY <2>2
<1>8. ASSUME NEW j \in DOMAIN script, Fires(script[j], e) # {}
      PROVE  \E m \in MatchFirstClause(script, e) : m.clause <= j
  <2>1. j \in firing
    BY <1>5, <1>8
  <2>2. PICK b : b \in Fires(script[Min(firing)], e)
    BY <1>4, <1>6, <2>1
  <2>3. PICK m : m = [clause |-> Min(firing), bindings |-> b]
    OBVIOUS
  <2>4. m \in MatchFirstClause(script, e) /\ m.clause = Min(firing)
    BY <1>1, <2>1, <2>2, <2>3
  <2>5. QED
    BY <1>6, <2>1, <2>4
<1>9. QED
  BY <1>7, <1>8

LEMMA MatchesFire ==
  ASSUME RegistryTypeOK, NEW e
  PROVE  /\ \A m \in MatchClauses(e) : m.bindings \in Fires(ClausesOf(m.script)[m.clause], e)
         /\ \A i \in DOMAIN scripts : \A j \in DOMAIN ClausesOf(i) :
              Fires(ClausesOf(i)[j], e) # {} =>
                \E m \in MatchClauses(e) : m.script = i /\ m.clause <= j
<1>1. ASSUME NEW m \in MatchClauses(e)
      PROVE  m.bindings \in Fires(ClausesOf(m.script)[m.clause], e)
  <2>1. PICK i \in DOMAIN scripts : m \in {[script |-> i, clause |-> a.clause, bindings |-> a.bindings] :
                                           a \in MatchFirstClause(ClausesOf(i), e)}
    BY DEF MatchClauses
  <2>2. PICK a \in MatchFirstClause(ClausesOf(i), e) :
          m = [script |-> i, clause |-> a.clause, bindings |-> a.bindings]
    BY <2>1
  <2>3. m.script = i /\ m.clause = a.clause /\ m.bindings = a.bindings
    BY <2>2
  <2>4. Len(ClausesOf(i)) \in Nat /\ DOMAIN ClausesOf(i) = 1 .. Len(ClausesOf(i))
    BY LoadedClauses
  <2>5. a.bindings \in Fires(ClausesOf(i)[a.clause], e)
    BY <2>4, FirstClauseFires
  <2>6. QED
    BY <2>3, <2>5
<1>2. ASSUME NEW i \in DOMAIN scripts, NEW j \in DOMAIN ClausesOf(i), Fires(ClausesOf(i)[j], e) # {}
      PROVE  \E m \in MatchClauses(e) : m.script = i /\ m.clause <= j
  <2>1. Len(ClausesOf(i)) \in Nat /\ DOMAIN ClausesOf(i) = 1 .. Len(ClausesOf(i))
    BY LoadedClauses
  <2>2. PICK a \in MatchFirstClause(ClausesOf(i), e) : a.clause <= j
    BY <1>2, <2>1, FirstClauseFires
  <2>3. PICK m : m = [script |-> i, clause |-> a.clause, bindings |-> a.bindings]
    OBVIOUS
  <2>4. m \in {[script |-> i, clause |-> x.clause, bindings |-> x.bindings] :
                 x \in MatchFirstClause(ClausesOf(i), e)}
    BY <2>3
  <2>5. m \in MatchClauses(e)
    BY <2>4 DEF MatchClauses
  <2>6. m.script = i /\ m.clause = a.clause
    BY <2>3
  <2>7. QED
    BY <2>2, <2>5, <2>6
<1>3. QED
  BY <1>1, <1>2

\* A script runs the first of its clauses that describes the event and whose guard holds,
\* and the clause gets the values with which it does.
THEOREM RunsTheFirstDescribed == RegistrySpec => []FirstDescribedRuns
<1>1. ASSUME Answered
      PROVE  FirstDescribedRuns
  <2>1. SUFFICES ASSUME asked.about = "event"
                 PROVE  FirstDescribedRuns
    BY DEF FirstDescribedRuns
  <2>2. PICK e \in Events : e = asked.input /\ answer = MatchClauses(e)
    BY <1>1, <2>1, SomeAnswer
  <2>3. RegistryTypeOK
    BY <1>1 DEF Answered
  <2>4. ASSUME NEW i \in DOMAIN scripts, NEW j \in DOMAIN ClausesOf(i)
        PROVE  /\ AreFields(ClausesOf(i)[j].fields)
               /\ \A k \in DOMAIN ClausesOf(i)[j].fields :
                    LET f == ClausesOf(i)[j].fields[k]
                    IN f.key \in DOMAIN e => Part(f.pattern, e[f.key]) \in Pairs
    <3>1. scripts[i] \in Loadable
      BY <2>3 DEF RegistryTypeOK
    <3>2. ClausesOf(i) = scripts[i].clauses
      BY DEF ClausesOf
    <3>3. QED
      BY <2>3, <3>1, <3>2, LoadedClauses, PairsAssumption
  <2>5. ASSUME NEW m \in answer, NEW clause, clause = ClausesOf(m.script)[m.clause]
        PROVE  /\ Allows(clause, m.bindings)
               /\ UnambiguousFields(clause.fields, e) =>
                    \A b \in Assignments : Agree(b, m.bindings) => DescribesEvent(clause.fields, e, b)
    <3>1. m.bindings \in Fires(clause, e)
      BY <2>2, <2>3, <2>5, MatchesFire
    <3>2. m.bindings \in MatchFields(clause.fields, e) /\ Allows(clause, m.bindings)
      BY <3>1 DEF Fires, Allows
    <3>3. m.script \in DOMAIN scripts /\ m.clause \in DOMAIN ClausesOf(m.script)
      BY <2>2, <2>3, MatchedClauses
    <3>4. /\ AreFields(clause.fields)
          /\ \A k \in DOMAIN clause.fields :
               clause.fields[k].key \in DOMAIN e =>
                 Part(clause.fields[k].pattern, e[clause.fields[k].key]) \in Pairs
      BY <2>4, <2>5, <3>3
    <3>5. QED
      BY <3>2, <3>4, FieldsAreExact
  <2>6. ASSUME NEW i \in DOMAIN scripts, NEW j \in DOMAIN ClausesOf(i), NEW b \in Assignments,
               NEW clause, clause = ClausesOf(i)[j], DescribesEvent(clause.fields, e, b)
        PROVE  \E c \in MatchFields(clause.fields, e) :
                 /\ Agree(b, c)
                 /\ Allows(clause, c) => \E m \in answer : m.script = i /\ m.clause <= j
    <3>1. /\ AreFields(clause.fields)
          /\ \A k \in DOMAIN clause.fields :
               clause.fields[k].key \in DOMAIN e =>
                 Part(clause.fields[k].pattern, e[clause.fields[k].key]) \in Pairs
      BY <2>4, <2>6
    <3>2. PICK c \in MatchFields(clause.fields, e) : Agree(b, c)
      BY <2>6, <3>1, FieldsAreExact
    <3>3. ASSUME Allows(clause, c)
          PROVE  \E m \in answer : m.script = i /\ m.clause <= j
      <4>1. c \in Fires(clause, e)
        BY <3>2, <3>3 DEF Fires, Allows
      <4>2. QED
        BY <2>2, <2>3, <2>6, <4>1, MatchesFire
    <3>4. QED
      BY <3>2, <3>3
  <2>7. QED
    BY <2>2, <2>5, <2>6 DEF FirstDescribedRuns
<1>2. RegistrySpec => []Answered
  BY AnsweredInit, AnsweredStep, PTL DEF RegistrySpec
<1>3. QED
  BY <1>1, <1>2, PTL

-----------------------------------------------------------------------------
(* What is found could run.                                                *)

LEMMA AllPartsMatch ==
  ASSUME NEW parts
  PROVE  MatchParts(parts) # {} <=>
           \A i \in DOMAIN parts : MatchPart(parts[i].pattern, parts[i].value) # {}
<1> DEFINE matches == [i \in DOMAIN parts |-> MatchPart(parts[i].pattern, parts[i].value)]
<1>1. MatchAll(matches) # {} <=> \A i \in DOMAIN matches : matches[i] # {}
  <2> HIDE DEF matches
  <2>1. QED
    BY DEF MatchAll
<1>2. MatchParts(parts) = MatchAll(matches)
  BY DEF MatchParts
<1>3. DOMAIN matches = DOMAIN parts
        /\ \A i \in DOMAIN parts : matches[i] = MatchPart(parts[i].pattern, parts[i].value)
  OBVIOUS
<1> HIDE DEF matches
<1>4. QED
  BY <1>1, <1>2, <1>3

\* Of the first line for a key there is one, and if it is the only one it is that line.
LEMMA FirstOfOnce ==
  ASSUME NEW fields, AreFields(fields), EachKeyOnce(fields), NEW i \in DOMAIN fields
  PROVE  FirstWithKey(fields, fields[i].key) = i
<1> DEFINE places == {j \in DOMAIN fields : fields[j].key = fields[i].key}
<1>1. places # {} /\ FirstWithKey(fields, fields[i].key) = Min(places)
  BY DEF FirstWithKey
<1>2. places \in SUBSET (1 .. Len(fields)) /\ Len(fields) \in Nat
  BY DEF AreFields
<1>3. \A j \in places : j = i
  BY DEF EachKeyOnce
<1> HIDE DEF places
<1>4. Min(places) \in places
  BY <1>1, <1>2, LeastPlace
<1>5. QED
  BY <1>1, <1>3, <1>4

LEMMA SampleOfElements ==
  ASSUME NEW p \in PlainPatterns, p.sort = "elements",
         \A q \in Within(p) : MatchPart(q, SamplePart(q)) # {}
  PROVE  MatchFieldValue(p, Sample(p)) # {}
<1> DEFINE list == [i \in DOMAIN p.items |-> SamplePart(p.items[i])]
           parts == [i \in DOMAIN p.items |-> Part(p.items[i], list[i])]
<1>1. Len(p.items) \in Nat /\ DOMAIN p.items = 1 .. Len(p.items)
  BY PlainAssumption
<1>2. Sample(p) = List(list)
  BY DEF Sample
<1>3. DOMAIN list = 1 .. Len(p.items) /\ Len(list) = Len(p.items)
  BY <1>1
<1>4. \A i \in DOMAIN p.items : p.items[i] \in Within(p)
  BY DEF Within
<1>5. /\ DOMAIN parts = DOMAIN p.items
      /\ \A i \in DOMAIN p.items : parts[i].pattern = p.items[i] /\ parts[i].value = SamplePart(p.items[i])
  BY DEF Part
<1>6. parts \in PartsOf(p, List(list))
  <2>1. Is(List(list), "list") /\ List(list).list = list
    BY DEF Is, List
  <2> HIDE DEF list
  <2>2. parts \in ListParts(p.items, List(list))
    BY <1>3, <2>1 DEF ListParts
  <2>3. QED
    BY <2>2 DEF PartsOf
<1> HIDE DEF list, parts
<1>7. MatchParts(parts) # {}
  BY <1>4, <1>5, AllPartsMatch
<1>8. MatchFieldValue(p, List(list)) = UNION {MatchParts(others) : others \in PartsOf(p, List(list))}
  BY DEF MatchFieldValue, Composite
<1>9. QED
  BY <1>2, <1>6, <1>7, <1>8

\* The sample of what may be a tail is a list.
LEMMA SampleOfTail ==
  ASSUME NEW p \in PlainPatterns, p.sort \in {"any", "variable", "elements", "head_tail"}
  PROVE  \E n \in Nat : \E list : SamplePart(p) = List(list) /\ list = [i \in 1 .. n |-> list[i]]
<1> DEFINE T == {k \in Nat : \A q \in PlainPatterns :
                   q.sort \in {"any", "variable", "elements", "head_tail"} /\ Nesting(q) < k =>
                     \E n \in Nat : \E list : SamplePart(q) = List(list) /\ list = [i \in 1 .. n |-> list[i]]}
<1>1. 0 \in T
  BY PlainAssumption
<1>2. ASSUME NEW k \in T
      PROVE  k + 1 \in T
  <2>1. SUFFICES ASSUME NEW q \in PlainPatterns, Nesting(q) < k + 1,
                        q.sort \in {"any", "variable", "elements", "head_tail"}
                 PROVE  \E n \in Nat : \E list : SamplePart(q) = List(list) /\ list = [i \in 1 .. n |-> list[i]]
    OBVIOUS
  <2>2. SamplePart(q) = Sample(q)
    BY PlainAssumption
  <2>3. CASE q.sort \in {"any", "variable"}
    <3>1. Sample(q) = List(<<>>)
      BY <2>3 DEF Sample, SampleAlone
    <3>2. <<>> = [i \in 1 .. 0 |-> <<>>[i]]
      OBVIOUS
    <3>3. QED
      BY <2>2, <3>1, <3>2
  <2>4. CASE q.sort = "elements"
    <3>1. Sample(q) = List([i \in DOMAIN q.items |-> SamplePart(q.items[i])])
      BY <2>4 DEF Sample
    <3>2. Len(q.items) \in Nat /\ DOMAIN q.items = 1 .. Len(q.items)
      BY <2>4, PlainAssumption
    <3>3. PICK list : list = [i \in DOMAIN q.items |-> SamplePart(q.items[i])]
      OBVIOUS
    <3>4. list = [i \in 1 .. Len(q.items) |-> list[i]]
      BY <3>2, <3>3
    <3>5. QED
      BY <2>2, <3>1, <3>2, <3>3, <3>4
  <2>5. CASE q.sort = "head_tail"
    <3>1. Sample(q) = List(<<SamplePart(q.head)>> \o SamplePart(q.tail).list)
      BY <2>5 DEF Sample
    <3>2. q.tail \in Within(q)
      BY <2>5 DEF Within
    <3>3. q.tail \in PlainPatterns /\ q.tail.sort \in {"any", "variable", "elements", "head_tail"}
      BY <2>5, <3>2, PlainAssumption
    <3>4. Nesting(q.tail) < k
      <4>1. Nesting(q.tail) < Nesting(q)
        BY <3>2, PlainAssumption
      <4>2. Nesting(q.tail) \in Nat /\ Nesting(q) \in Nat
        BY <3>3, PlainAssumption
      <4>3. QED
        BY <2>1, <4>1, <4>2
    <3>10. PICK n \in Nat : \E rest : SamplePart(q.tail) = List(rest) /\ rest = [i \in 1 .. n |-> rest[i]]
      BY <3>3, <3>4
    <3>5. PICK rest : SamplePart(q.tail) = List(rest) /\ rest = [i \in 1 .. n |-> rest[i]]
      BY <3>10
    <3>6. SamplePart(q.tail).list = rest
      BY <3>5 DEF List
    <3>7. PICK list : list = <<SamplePart(q.head)>> \o rest
      OBVIOUS
    <3>8. list = [i \in 1 .. n + 1 |-> list[i]]
      <4>1. Len(rest) = n
        BY <3>5
      <4>2. QED
        BY <3>5, <3>7, <4>1
    <3>9. SamplePart(q) = List(list)
      BY <2>2, <3>1, <3>6, <3>7
    <3>11. n + 1 \in Nat
      OBVIOUS
    <3>12. QED
      BY <3>8, <3>9, <3>11
  <2>6. QED
    BY <2>1, <2>3, <2>4, <2>5
<1> HIDE DEF T
<1>3. T = Nat
  <2>1. T \in SUBSET Nat
    BY DEF T
  <2>2. QED
    BY <1>1, <1>2, <2>1, Induction
<1>4. Nesting(p) \in Nat
  BY PlainAssumption
<1>5. Nesting(p) + 1 \in T /\ Nesting(p) < Nesting(p) + 1
  BY <1>3, <1>4
<1>6. QED
  BY <1>5 DEF T

LEMMA SampleOfHeadTail ==
  ASSUME NEW p \in PlainPatterns, p.sort = "head_tail",
         \A q \in Within(p) : MatchPart(q, SamplePart(q)) # {}
  PROVE  MatchFieldValue(p, Sample(p)) # {}
<1>1. p.head \in Within(p) /\ p.tail \in Within(p)
  BY DEF Within
<1>2. p.tail \in PlainPatterns /\ p.tail.sort \in {"any", "variable", "elements", "head_tail"}
  BY <1>1, PlainAssumption
<1>0. PICK n \in Nat : \E rest : SamplePart(p.tail) = List(rest) /\ rest = [i \in 1 .. n |-> rest[i]]
  BY <1>2, SampleOfTail
<1>3. PICK rest : SamplePart(p.tail) = List(rest) /\ rest = [i \in 1 .. n |-> rest[i]]
  BY <1>0
<1>4. SamplePart(p.tail).list = rest
  BY <1>3 DEF List
<1>5. PICK list : list = <<SamplePart(p.head)>> \o rest
  OBVIOUS
<1>6. Sample(p) = List(list)
  BY <1>4, <1>5 DEF Sample
<1>7. list # <<>> /\ Head(list) = SamplePart(p.head) /\ Tail(list) = rest
  <2>1. Len(rest) = n /\ DOMAIN rest = 1 .. n
    BY <1>3
  <2>2. list = [i \in 1 .. n + 1 |-> IF i = 1 THEN SamplePart(p.head) ELSE rest[i - 1]]
    BY <1>5, <2>1
  <2>3. Len(list) = n + 1 /\ list[1] = SamplePart(p.head) /\ \A i \in 1 .. n : list[i + 1] = rest[i]
    BY <2>2
  <2>4. list # <<>> /\ Head(list) = SamplePart(p.head)
    BY <2>3
  <2>5. Tail(list) = [i \in 1 .. n |-> list[i + 1]]
    BY <2>2, <2>3
  <2>6. [i \in 1 .. n |-> list[i + 1]] = [i \in 1 .. n |-> rest[i]]
    BY <2>3
  <2>7. QED
    BY <1>3, <2>4, <2>5, <2>6
<1> DEFINE parts == <<Part(p.head, SamplePart(p.head)), Part(p.tail, SamplePart(p.tail))>>
<1>8. parts \in PartsOf(p, List(list))
  <2>1. Is(List(list), "list") /\ List(list).list = list
    BY DEF Is, List
  <2>2. parts \in HeadTailParts(p, List(list))
    BY <1>3, <1>7, <2>1 DEF HeadTailParts
  <2>3. QED
    BY <2>2 DEF PartsOf
<1>9. MatchParts(parts) # {}
  <2>1. DOMAIN parts = 1 .. 2
    OBVIOUS
  <2>2. /\ parts[1].pattern = p.head /\ parts[1].value = SamplePart(p.head)
        /\ parts[2].pattern = p.tail /\ parts[2].value = SamplePart(p.tail)
    BY DEF Part
  <2> HIDE DEF parts
  <2>3. \A i \in DOMAIN parts : i = 1 \/ i = 2
    BY <2>1
  <2>4. QED
    BY <1>1, <2>2, <2>3, AllPartsMatch
<1> HIDE DEF parts
<1>10. MatchFieldValue(p, List(list)) = UNION {MatchParts(others) : others \in PartsOf(p, List(list))}
  BY DEF MatchFieldValue, Composite
<1>11. QED
  BY <1>6, <1>8, <1>9, <1>10

LEMMA SampleOfMap ==
  ASSUME NEW p \in PlainPatterns, p.sort = "map",
         \A q \in Within(p) : MatchPart(q, SamplePart(q)) # {}
  PROVE  MatchFieldValue(p, Sample(p)) # {}
<1>1. AreFields(p.fields) /\ EachKeyOnce(p.fields)
  BY PlainAssumption
<1> DEFINE map == [k \in Keys(p.fields) |-> SamplePart(p.fields[FirstWithKey(p.fields, k)].pattern)]
           parts == [i \in DOMAIN p.fields |-> Part(p.fields[i].pattern, map[p.fields[i].key])]
<1>2. Sample(p) = Map(map)
  BY DEF Sample
<1>3. ASSUME NEW i \in DOMAIN p.fields
      PROVE  /\ p.fields[i].pattern \in Within(p)
             /\ map[p.fields[i].key] = SamplePart(p.fields[i].pattern)
             /\ parts[i].pattern = p.fields[i].pattern
             /\ parts[i].value = SamplePart(p.fields[i].pattern)
  <2>1. p.fields[i].key \in Keys(p.fields)
    BY DEF Keys
  <2>2. FirstWithKey(p.fields, p.fields[i].key) = i
    BY <1>1, FirstOfOnce
  <2>3. map[p.fields[i].key] = SamplePart(p.fields[i].pattern)
    BY <2>1, <2>2
  <2>4. p.fields[i].pattern \in Within(p)
    BY DEF Within
  <2> HIDE DEF map
  <2>5. QED
    BY <2>3, <2>4 DEF Part
<1>4. DOMAIN map = Keys(p.fields) /\ DOMAIN parts = DOMAIN p.fields
  OBVIOUS
<1>5. parts \in PartsOf(p, Map(map))
  <2>1. Is(Map(map), "map") /\ Map(map).map = map
    BY DEF Is, Map
  <2> HIDE DEF map
  <2>2. parts \in MapParts(p.fields, Map(map))
    BY <1>4, <2>1 DEF MapParts
  <2>3. QED
    BY <2>2 DEF PartsOf
<1> HIDE DEF map, parts
<1>6. MatchParts(parts) # {}
  BY <1>3, <1>4, AllPartsMatch
<1>7. MatchFieldValue(p, Map(map)) = UNION {MatchParts(others) : others \in PartsOf(p, Map(map))}
  BY DEF MatchFieldValue, Composite
<1>8. QED
  BY <1>2, <1>5, <1>6, <1>7

\* However deep a plain pattern nests, the matcher accepts its sample.
LEMMA SamplesMatch == \A p \in PlainPatterns : MatchFieldValue(p, Sample(p)) # {}
<1> DEFINE T == {n \in Nat : \A p \in PlainPatterns :
                   Nesting(p) < n => MatchFieldValue(p, Sample(p)) # {}}
<1>1. 0 \in T
  BY PlainAssumption
<1>2. ASSUME NEW n \in T
      PROVE  n + 1 \in T
  <2>1. SUFFICES ASSUME NEW p \in PlainPatterns, Nesting(p) < n + 1
                 PROVE  MatchFieldValue(p, Sample(p)) # {}
    OBVIOUS
  <2>2. ASSUME NEW q \in Within(p)
        PROVE  MatchPart(q, SamplePart(q)) # {}
    <3>1. q \in PlainPatterns /\ Nesting(q) < Nesting(p)
      BY PlainAssumption
    <3>2. Nesting(q) \in Nat /\ Nesting(p) \in Nat
      BY <3>1, PlainAssumption
    <3>3. Nesting(q) < n
      BY <2>1, <3>1, <3>2
    <3>4. MatchFieldValue(q, Sample(q)) # {}
      BY <3>1, <3>3
    <3>5. QED
      BY <3>1, <3>4, PlainAssumption
  <2>3. CASE p.sort = "any"
    BY <2>3 DEF MatchFieldValue, MatchAlone, Composite
  <2>4. CASE p.sort = "variable"
    BY <2>4 DEF MatchFieldValue, MatchAlone, Composite
  <2>5. CASE p.sort = "literal"
    <3>1. Sample(p) = p.value
      BY <2>5 DEF Sample, SampleAlone
    <3>2. QED
      BY <2>5, <3>1 DEF MatchFieldValue, MatchAlone, Composite
  <2>6. CASE p.sort = "elements"
    BY <2>2, <2>6, SampleOfElements
  <2>7. CASE p.sort = "head_tail"
    BY <2>2, <2>7, SampleOfHeadTail
  <2>8. CASE p.sort = "map"
    BY <2>2, <2>8, SampleOfMap
  <2>9. p.sort \in Sorts \ {"pin"}
    BY PlainAssumption
  <2>10. QED
    BY <2>3, <2>4, <2>5, <2>6, <2>7, <2>8, <2>9 DEF Sorts
<1> HIDE DEF T
<1>3. T = Nat
  <2>1. T \in SUBSET Nat
    BY DEF T
  <2>2. QED
    BY <1>1, <1>2, <2>1, Induction
<1>4. ASSUME NEW p \in PlainPatterns
      PROVE  MatchFieldValue(p, Sample(p)) # {}
  <2>1. Nesting(p) \in Nat
    BY PlainAssumption
  <2>2. Nesting(p) + 1 \in T /\ Nesting(p) < Nesting(p) + 1
    BY <1>3, <2>1
  <2>3. QED
    BY <2>2 DEF T
<1>5. QED
  BY <1>4

\* A query that finds a clause, completed with samples, is an event its patterns accept.
LEMMA CompletedMatches ==
  ASSUME NEW fields, AreFields(fields), IsPlain(fields), NEW query, SubsetMatches(query, fields)
  PROVE  MatchFields(fields, Completed(query, fields)) # {}
<1>1. SUFFICES ASSUME NEW i \in DOMAIN fields
               PROVE  MatchMember(fields[i], Completed(query, fields)) # {}
  BY AllFieldsMatch
<1>2. FirstWithKey(fields, fields[i].key) = i
  BY FirstOfOnce DEF IsPlain
<1>3. fields[i].key \in Keys(fields)
  BY DEF Keys
<1>4. /\ fields[i].key \in DOMAIN Completed(query, fields)
      /\ Completed(query, fields)[fields[i].key] =
           IF fields[i].key \in DOMAIN query THEN query[fields[i].key] ELSE Sample(fields[i].pattern)
  BY <1>2, <1>3 DEF Completed
<1>5. fields[i].key \in DOMAIN query => MatchFieldValue(fields[i].pattern, query[fields[i].key]) # {}
  BY <1>2 DEF SubsetMatches
<1>6. MatchFieldValue(fields[i].pattern, Sample(fields[i].pattern)) # {}
  BY SamplesMatch DEF IsPlain
<1>7. QED
  BY <1>4, <1>5, <1>6 DEF MatchMember

\* What query_subset answers is exact, whatever patterns nest: what an event runs it finds by
\* any fields of the event, and what it finds an event with the fields asked for could run,
\* if the clause has no pattern that nothing fits.
THEOREM FoundIsExact == RegistrySpec => []FoundIsWhatCanRun
<1>1. ASSUME Answered
      PROVE  FoundCouldRun
  <2>1. SUFFICES ASSUME asked.about = "query", NEW f \in answer,
                        IsPlain(ClausesOf(f.script)[f.clause].fields)
                 PROVE  MatchFields(ClausesOf(f.script)[f.clause].fields,
                                    Completed(asked.input, ClausesOf(f.script)[f.clause].fields)) # {}
    BY DEF FoundCouldRun
  <2>2. RegistryTypeOK
    BY <1>1 DEF Answered
  <2>3. answer = Found(asked.input)
    BY <1>1, <2>1, SomeFound
  <2>4. /\ f.script \in DOMAIN scripts /\ f.clause \in DOMAIN ClausesOf(f.script)
        /\ SubsetMatches(asked.input, ClausesOf(f.script)[f.clause].fields)
    BY <2>3, FoundAreRecords
  <2>5. AreFields(ClausesOf(f.script)[f.clause].fields)
    BY <2>2, <2>4, LoadedClauses
  <2>6. QED
    BY <2>1, <2>4, <2>5, CompletedMatches
<1>2. RegistrySpec => []Answered
  BY AnsweredInit, AnsweredStep, PTL DEF RegistrySpec
<1>3. RegistrySpec => []FoundCouldRun
  BY <1>1, <1>2, PTL
<1>4. QED
  BY <1>3, RunsCanBeFound, PTL DEF FoundIsWhatCanRun
=============================================================================
