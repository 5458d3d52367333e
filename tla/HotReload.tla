------------------------------ MODULE HotReload ------------------------------
(***************************************************************************)
(* The script registry of the luaml engine, kept current with the script   *)
(* directories: the registry (registry.rs), the engine's root, reload and  *)
(* watch calls (lib.rs) and the file watcher (watcher.rs).                 *)
(*                                                                         *)
(* Three parties interleave: somebody edits files, the watcher's debounce  *)
(* thread turns edits into queued changes, and the embedder calls the      *)
(* engine.  The engine's calls exclude each other (&mut self), but the     *)
(* files change under the calls that read them: register_dir and the drain *)
(* of a dispatch are modelled file by file, replace_file as a read and a   *)
(* swap.  What a file says is abstracted to a text, and the registry, a    *)
(* Vec of scripts, to the texts it holds for each path, in their order: a  *)
(* path registered twice is there twice, and runs twice for an event.  The *)
(* order of scripts of different paths is not kept.                        *)
(*                                                                         *)
(* A definition whose name starts with Slip is not part of the model: it   *)
(* is what the one after it would be with a plausible bug in that code,    *)
(* kept to show which property notices.                                    *)
(***************************************************************************)
EXTENDS Naturals, Sequences, FiniteSets

CONSTANTS
  File,         \* paths of .luaml files
  Text,         \* what a file may say
  Absent,       \* the file does not exist
  Readable,     \* the texts read_to_string accepts (UTF-8)
  Parses,       \* the texts parse_luaml accepts
  Extension,    \* the extensions that have a manifest
  NoExtension,  \* a script outside every extension
  Declares,     \* the extension a text declares
  Lists,        \* the files the manifest of an extension lists
  Root,         \* directories the embedder adds
  Under,        \* the files below a root, at any depth
  Manifests,    \* the extensions whose manifest lies below a root
  Writes,       \* the texts somebody writes to a file
  RootLists,    \* the lists of roots passed to register_roots
  MaxEdits,     \* bound: how often files are edited
  MaxEntries    \* bound: how often the calls made register one path

ASSUME HotReloadAssumption ==
  /\ Absent \notin Text
  /\ Parses \subseteq Readable
  /\ Readable \subseteq Text
  /\ NoExtension \notin Extension
  /\ Declares \in [Text -> Extension \cup {NoExtension}]
  /\ Lists \in [Extension -> SUBSET File]
  /\ Under \in [Root -> SUBSET File]
  /\ Manifests \in [Root -> SUBSET Extension]
  /\ Writes \in [File -> SUBSET Text]
  /\ RootLists \subseteq Seq(Root)
  /\ MaxEdits \in Nat
  /\ MaxEntries \in Nat

VARIABLES
  disk,        \* what each file says
  edits,       \* number of edits so far (bounded by MaxEdits)
  registered,  \* registry.scripts: the texts registered for each path
  roots,       \* engine.roots
  watching,    \* engine.watcher is Some
  watched,     \* the files below the directories the watcher watches
  dirty,       \* files edited, not yet reported by the debouncer
  queue,       \* watcher.rx: the changes not yet drained
  op,          \* the call the engine is in, or "idle"
  phase,       \* how far register_dir is in its directory
  dirs,        \* the directories left to register, the current one first
  todo,        \* files of the current directory not registered yet
  blocked,     \* blocked_paths
  complete,    \* the keys of extension_scripts
  held,        \* the file replace_file has read but not swapped in yet
  said,        \* what each file said since the call that registers directories
               \* began (auxiliary)
  seen         \* files the current watcher saw change, and the embedder did
               \* not override since (auxiliary)

files == <<disk, edits>>
registry == <<registered, roots>>
watcher == <<watching, watched, dirty, queue>>
registering == <<phase, dirs, todo, blocked, complete>>
loading == <<registering, held>>
auxiliary == <<said, seen>>
vars == <<files, registry, watcher, op, loading, auxiliary>>

Change == [kind : {"CreateOrModify", "Remove"}, path : File]

Exists(f) == disk[f] # Absent
Loads(f) == disk[f] \in Parses
ReadsOK(f) == disk[f] \in Readable

InRoots == op \in {"register_dir", "register_roots", "reload_roots"}

Nothing == [f \in File |-> {}]

Init ==
  /\ disk \in [File -> Text \cup {Absent}]
  /\ \A f \in File : disk[f] \in Writes[f] \cup {Absent}
  /\ edits = 0
  /\ registered = [f \in File |-> <<>>]
  /\ roots = <<>>
  /\ watching = FALSE
  /\ watched = {}
  /\ dirty = {}
  /\ queue = <<>>
  /\ op = "idle"
  /\ phase = "scan"
  /\ dirs = <<>>
  /\ todo = {}
  /\ blocked = {}
  /\ complete = {}
  /\ held = {}
  /\ said = Nothing
  /\ seen = {}

-----------------------------------------------------------------------------
(* The file system and the debouncer.                                      *)

Edit(f, t) ==
  /\ edits < MaxEdits
  /\ t # disk[f]
  /\ disk' = [disk EXCEPT ![f] = t]
  /\ edits' = edits + 1
  /\ said' = IF InRoots THEN [said EXCEPT ![f] = @ \cup {t}] ELSE said
  /\ dirty' = dirty \cup ({f} \cap watched)
  /\ seen' = seen \cup ({f} \cap watched)
  /\ UNCHANGED <<registry, watching, watched, queue, op, loading>>

\* The callback does not ask whether the file still exists.
SlipDebounce(f) ==
  /\ f \in dirty
  /\ dirty' = dirty \ {f}
  /\ queue' = Append(queue, [kind |-> "CreateOrModify", path |-> f])
  /\ UNCHANGED <<files, registry, watching, watched, op, loading, auxiliary>>

\* The debouncer's callback, after a quiet period: whether the file still exists
\* is asked here, not when it was edited nor when the change is applied.
Debounce(f) ==
  /\ f \in dirty
  /\ dirty' = dirty \ {f}
  /\ queue' = Append(queue, [kind |-> IF Exists(f) THEN "CreateOrModify" ELSE "Remove",
                             path |-> f])
  /\ UNCHANGED <<files, registry, watching, watched, op, loading, auxiliary>>

-----------------------------------------------------------------------------
(* Calls that take one step.                                               *)

Call ==
  /\ op = "idle"
  /\ UNCHANGED <<files, op, loading, said>>

Push(f, t) == registered' = [registered EXCEPT ![f] = Append(@, t)]
Drop(f) == registered' = [registered EXCEPT ![f] = <<>>]
Clears == registered' = [f \in File |-> <<>>]

\* There is room for n more entries of a path.
Room(f, n) == Len(registered[f]) + n <= MaxEntries

\* Text of the embedder's own; one that does not parse changes nothing.
Register(f, t) ==
  /\ Call
  /\ Room(f, 1)
  /\ t \in Parses
  /\ Push(f, t)
  /\ seen' = seen \ {f}
  /\ UNCHANGED <<roots, watcher>>

RegisterFile(f) ==
  /\ Call
  /\ Room(f, 1)
  /\ Loads(f)
  /\ Push(f, disk[f])
  /\ UNCHANGED <<roots, watcher, seen>>

Unregister(f) ==
  /\ Call
  /\ Drop(f)
  /\ seen' = seen \ {f}
  /\ UNCHANGED <<roots, watcher>>

\* registry.replace: the old entries go first, so a text that does not parse
\* leaves nothing behind.
Replace(f, t) == registered' = [registered EXCEPT ![f] = IF t \in Parses THEN <<t>> ELSE <<>>]

\* replace_file reads the file, then swaps what it read for the old entries.  A
\* file that cannot be read changes nothing.
ReplaceFile(f) ==
  /\ op = "idle"
  /\ ReadsOK(f)
  /\ op' = "replace_file"
  /\ held' = {[path |-> f, text |-> disk[f]]}
  /\ UNCHANGED <<files, registry, watcher, registering, auxiliary>>

SwapHeld ==
  /\ op = "replace_file"
  /\ \E h \in held : Replace(h.path, h.text)
  /\ op' = "idle"
  /\ held' = {}
  /\ UNCHANGED <<files, roots, watcher, registering, auxiliary>>

Clear ==
  /\ Call
  /\ Clears
  /\ seen' = {}
  /\ UNCHANGED <<roots, watcher>>

\* A new watcher over the current roots.  The one it replaces is dropped with
\* whatever it had not delivered and whatever was not drained from it.
Watch ==
  /\ Call
  /\ watching' = TRUE
  /\ watched' = UNION {Under[roots[i]] : i \in DOMAIN roots}
  /\ dirty' = {}
  /\ queue' = <<>>
  /\ seen' = {}
  /\ UNCHANGED registry

Unwatch ==
  /\ Call
  /\ watching' = FALSE
  /\ watched' = {}
  /\ dirty' = {}
  /\ queue' = <<>>
  /\ seen' = {}
  /\ UNCHANGED registry

-----------------------------------------------------------------------------
(* Registering directories: register_dir itself, register_roots (add_root  *)
(* for each) and reload_roots.                                             *)

Begin(name, ds) ==
  /\ op = "idle"
  /\ op' = name
  /\ dirs' = ds
  /\ said' = [f \in File |-> {disk[f]}]
  /\ UNCHANGED <<files, roots, watcher, phase, todo, blocked, complete, held>>

\* register_dir called on its own tracks no root.
RegisterDir(r) ==
  /\ \A f \in File : Room(f, 1)
  /\ Begin("register_dir", <<r>>)
  /\ UNCHANGED <<registered, seen>>

RegisterRoots(ds) ==
  /\ \A f \in File : Room(f, Len(ds))
  /\ Begin("register_roots", ds)
  /\ UNCHANGED <<registered, seen>>

ReloadRoots ==
  /\ Begin("reload_roots", roots)
  /\ Clears
  /\ seen' = {}

Dir == Head(dirs)
Tracked(r) == \E i \in DOMAIN roots : roots[i] = r

\* add_root ignores a root it already tracks.
SkipKnownRoot ==
  /\ InRoots /\ dirs # <<>> /\ phase = "scan"
  /\ op = "register_roots" /\ Tracked(Dir)
  /\ dirs' = Tail(dirs)
  /\ UNCHANGED <<files, registry, watcher, op, phase, todo, blocked, complete,
                 held, auxiliary>>

\* walkdir, in whatever order the directory lists its files.
WalkDir ==
  /\ InRoots /\ dirs # <<>> /\ phase = "scan"
  /\ op = "register_roots" => ~Tracked(Dir)
  /\ todo' = {f \in Under[Dir] : Exists(f)}
  /\ phase' = "manifests"
  /\ UNCHANGED <<files, registry, watcher, op, dirs, blocked, complete, held,
                 auxiliary>>

\* An incomplete manifest blocks nothing but the files it misses.
SlipCheckManifests ==
  /\ InRoots /\ phase = "manifests"
  /\ complete' = {x \in Manifests[Dir] : \A f \in Lists[x] : Exists(f)}
  /\ blocked' = {f \in File : ~Exists(f)}
  /\ phase' = "load"
  /\ UNCHANGED <<files, registry, watcher, op, dirs, todo, held, auxiliary>>

\* A manifest that lists a missing file blocks every file it lists.
CheckManifests ==
  /\ InRoots /\ phase = "manifests"
  /\ complete' = {x \in Manifests[Dir] : \A f \in Lists[x] : Exists(f)}
  /\ blocked' = UNION {Lists[x] : x \in Manifests[Dir] \ complete'}
  /\ phase' = "load"
  /\ UNCHANGED <<files, registry, watcher, op, dirs, todo, held, auxiliary>>

\* register_dir's locals go out of scope.
LeaveDir ==
  /\ phase' = "scan"
  /\ todo' = {}
  /\ blocked' = {}
  /\ complete' = {}

\* The error that ends register_dir ends the whole call; nothing is undone.
Abort ==
  /\ LeaveDir
  /\ dirs' = <<>>
  /\ op' = "idle"
  /\ said' = Nothing

FileDone(f) ==
  /\ todo' = todo \ {f}
  /\ UNCHANGED <<op, phase, dirs, blocked, complete, said>>

\* The file declares an extension whose manifest does not list it.
Unlisted(f) == Declares[disk[f]] \in complete /\ f \notin Lists[Declares[disk[f]]]

SkipBlocked(f) ==
  /\ f \in todo \cap blocked
  /\ FileDone(f)
  /\ UNCHANGED registered

\* An unlisted file is refused only after it was registered.
LoadFile(f) ==
  /\ f \in todo \ blocked
  /\ Loads(f)
  /\ Push(f, disk[f])
  /\ IF Unlisted(f) THEN Abort ELSE FileDone(f)

FailToLoad(f) ==
  /\ f \in todo \ blocked
  /\ ~Loads(f)
  /\ Abort
  /\ UNCHANGED registered

RegisterNext ==
  /\ InRoots /\ phase = "load"
  /\ \E f \in File : SkipBlocked(f) \/ LoadFile(f) \/ FailToLoad(f)
  /\ UNCHANGED <<files, roots, watcher, held, seen>>

\* add_root records the root only now.
FinishDir ==
  /\ InRoots /\ phase = "load" /\ todo = {}
  /\ roots' = IF op = "register_roots" THEN Append(roots, Dir) ELSE roots
  /\ dirs' = Tail(dirs)
  /\ LeaveDir
  /\ UNCHANGED <<files, registered, watcher, op, held, auxiliary>>

FinishRoots ==
  /\ InRoots /\ dirs = <<>>
  /\ op' = "idle"
  /\ said' = Nothing
  /\ UNCHANGED <<files, registry, watcher, loading, seen>>

-----------------------------------------------------------------------------
(* The start of dispatch: drain the watcher, then match.                   *)

BeginDispatch ==
  /\ op = "idle"
  /\ op' = "dispatch"
  /\ UNCHANGED <<files, registry, watcher, loading, auxiliary>>

\* A file that cannot be read is tried again instead of given up.
SlipApplyNext ==
  /\ op = "dispatch" /\ queue # <<>>
  /\ Head(queue).kind = "CreateOrModify" => ReadsOK(Head(queue).path)
  /\ IF Head(queue).kind = "Remove" THEN Drop(Head(queue).path)
     ELSE Replace(Head(queue).path, disk[Head(queue).path])
  /\ queue' = Tail(queue)
  /\ UNCHANGED <<files, roots, watching, watched, dirty, op, loading, auxiliary>>

\* One change of apply_pending.  The text is the one on disk by now; a file that
\* cannot be read, or not any more, is left as it was registered.
ApplyNext ==
  /\ op = "dispatch" /\ queue # <<>>
  /\ LET f == Head(queue).path
     IN IF Head(queue).kind = "Remove" THEN Drop(f)
        ELSE IF ReadsOK(f) THEN Replace(f, disk[f])
        ELSE UNCHANGED registered
  /\ queue' = Tail(queue)
  /\ UNCHANGED <<files, roots, watching, watched, dirty, op, loading, auxiliary>>

\* The channel is empty: match and execute against the registry as it is now.
Match ==
  /\ op = "dispatch" /\ queue = <<>>
  /\ op' = "idle"
  /\ UNCHANGED <<files, registry, watcher, loading, auxiliary>>

-----------------------------------------------------------------------------

Embedder ==
  \/ \E f \in File : \/ \E t \in Writes[f] : Register(f, t)
                     \/ RegisterFile(f)
                     \/ Unregister(f)
                     \/ ReplaceFile(f)
  \/ Clear
  \/ Watch
  \/ Unwatch
  \/ \E r \in Root : RegisterDir(r)
  \/ \E ds \in RootLists : RegisterRoots(ds)
  \/ ReloadRoots

\* A call that has begun runs to its end on the embedder's thread.
Engine ==
  \/ SkipKnownRoot \/ WalkDir \/ CheckManifests \/ RegisterNext \/ FinishDir \/ FinishRoots
  \/ SwapHeld \/ ApplyNext \/ Match

Next ==
  \/ \E f \in File : \E t \in Writes[f] \cup {Absent} : Edit(f, t)
  \/ \E f \in File : Debounce(f)
  \/ Embedder
  \/ BeginDispatch
  \/ Engine

\* The debounce thread reports every edited file; a call that has begun ends; and
\* the embedder dispatches again and again, whatever else it calls in between.
Fairness ==
  /\ \A f \in File : WF_vars(Debounce(f))
  /\ WF_vars(Engine)
  /\ SF_vars(BeginDispatch)

Spec == Init /\ [][Next]_vars /\ Fairness

-----------------------------------------------------------------------------

TypeOK ==
  /\ disk \in [File -> Text \cup {Absent}]
  /\ edits \in 0 .. MaxEdits
  /\ registered \in [File -> Seq(Parses)]
  /\ roots \in Seq(Root)
  /\ watching \in BOOLEAN
  /\ watched \subseteq File
  /\ dirty \subseteq File
  /\ queue \in Seq(Change)
  /\ op \in {"idle", "register_dir", "register_roots", "reload_roots", "replace_file",
            "dispatch"}
  /\ phase \in {"scan", "manifests", "load"}
  /\ phase # "scan" => InRoots /\ dirs # <<>>
  /\ dirs \in Seq(Root)
  /\ todo \subseteq File
  /\ blocked \subseteq File
  /\ complete \subseteq Extension
  /\ held \subseteq [path : File, text : Readable]
  /\ said \in [File -> SUBSET (Text \cup {Absent})]
  /\ seen \subseteq File

Queued(f) == \E i \in DOMAIN queue : queue[i].path = f
Pending(f) == f \in dirty \/ Queued(f)

\* The texts that run for a path.
Running(f) == {registered[f][i] : i \in DOMAIN registered[f]}
UpToDate(f) == Running(f) = {disk[f]} \cap Parses

\* No edit is lost between the debouncer's look at the file, the queue and the
\* read when the change is applied, in whatever order they and further edits
\* interleave: once nothing is pending for a file the current watcher saw change,
\* the texts registered for its path are just what the file says, and none if it
\* is gone or malformed.  (A file that cannot be read keeps its old entries.)
ChangesReachRegistry ==
  \A f \in seen : ~Pending(f) /\ disk[f] \in Readable \cup {Absent} => UpToDate(f)

\* The tracked roots a file lies below, and those of them that register it: there is such
\* a file, and no manifest there that lists it also lists a missing one.
Above(f) == {i \in DOMAIN roots : f \in Under[roots[i]]}
RegisteredBy(f) ==
  {i \in Above(f) : Exists(f) /\ \A x \in Manifests[roots[i]] :
                                   f \in Lists[x] => \A g \in Lists[x] : Exists(g)}

\* Nobody edited the file during the call, nor any that a manifest lists with it.
Untouched(f) == said[f] = {disk[f]}
Undisturbed(f) ==
  /\ Untouched(f)
  /\ \A i \in DOMAIN roots : \A x \in Manifests[roots[i]] :
       f \in Lists[x] => \A g \in Lists[x] : Untouched(g)

\* A reload that runs to its end leaves of each file what it said at some time during the
\* call, at most once for each tracked root above it, however files come and go between
\* the listing, the check of the manifests and the reads; and of a file that no edit
\* disturbed just what it says, once for each root that registers it: overlapping roots
\* leave it there as often, and roots with an incomplete extension not at all.
ReloadMirrorsDisk ==
  op = "reload_roots" /\ dirs = <<>> =>
    \A f \in File :
      /\ Running(f) \subseteq said[f]
      /\ Len(registered[f]) <= Cardinality(Above(f))
      /\ Undisturbed(f) => Len(registered[f]) = Cardinality(RegisteredBy(f))

\* Every pending change is applied, or given up with its watcher.
AnyPending == \E f \in File : Pending(f)
ChangesDrain == AnyPending ~> ~AnyPending

\* What replace_file says: it atomically swaps the entry, so a call that fails
\* leaves the old one in place.  The code does not keep it: see Replace.
FailedReplaceKeepsScript ==
  [][op = "replace_file" /\ (\E h \in held : h.text \notin Parses)
       => registered' = registered]_vars
=============================================================================
