-------------------------------- MODULE Paths ---------------------------------
(***************************************************************************)
(* Paths of the luaml standard library (stdlib/path.rs), on Unix: joined,  *)
(* taken apart, normalised and made relative by their text alone.          *)
(*                                                                         *)
(* A path is whether its text starts with a slash and the segments between *)
(* its slashes, some of them empty; what std::path makes of it is a list   *)
(* of components, without empty segments and without . but in front.       *)
(*                                                                         *)
(* A definition whose name starts with Slip is not part of the model: it   *)
(* is what the one after it would be with a plausible bug in that code,    *)
(* kept to show which property notices.                                    *)
(***************************************************************************)
EXTENDS Naturals, SequencesExt

CONSTANT Segment   \* what can be between two slashes of a path

ASSUME SegmentAssumption == {"", ".", ".."} \subseteq Segment

\* What becomes of start when each member of s in turn takes it a step further, as in a
\* loop over it.
Along(step, start, s) ==
  LET at[n \in 0 .. Len(s)] == IF n = 0 THEN start ELSE step[<<at[n - 1], s[n]>>]
  IN  at[Len(s)]

PathText == [abs : BOOLEAN, segs : Seq(Segment)]

AbsPath(segs) == [abs |-> TRUE, segs |-> segs]
RelPath(segs) == [abs |-> FALSE, segs |-> segs]

\* Path::components, but for the root, which is p.abs.
Keeping ==
  [d \in Seq(Segment) \X Segment |-> IF d[2] \in {"", "."} THEN d[1] ELSE Append(d[1], d[2])]
Components(p) ==
  (IF ~p.abs /\ p.segs # <<>> /\ Head(p.segs) = "." THEN <<".">> ELSE <<>>)
    \o Along(Keeping, <<>>, p.segs)

\* path.components: each as a text, / for the root.
ComponentTexts(p) ==
  (IF p.abs THEN <<AbsPath(<<>>)>> ELSE <<>>)
    \o [i \in DOMAIN Components(p) |-> RelPath(<<Components(p)[i]>>)]

\* PathBuf::push.
Push(p, q) == IF q.abs THEN q ELSE IF p = RelPath(<<>>) THEN q ELSE [p EXCEPT !.segs = @ \o q.segs]

Pushing == [d \in PathText \X PathText |-> Push(d[1], d[2])]
JoinPaths(paths) == Along(Pushing, RelPath(<<>>), paths)

\* Path::parent, which of the root and of nothing is none, and Path::file_name.
Parent(p) ==
  LET c == Components(p) IN IF c = <<>> THEN RelPath(<<>>) ELSE [p EXCEPT !.segs = Front(c)]
Basename(p) ==
  LET c == Components(p) IN IF c = <<>> \/ Last(c) \in {"..", "."} THEN "" ELSE Last(c)

\* A .. takes back a name before it; above the root there is nothing to take back, and
\* above a relative path it stays.
SlipDescend(abs, out, c) ==
  IF c = "." THEN out
  ELSE IF c # ".." THEN Append(out, c)
  ELSE IF out # <<>> THEN Front(out)
  ELSE IF abs THEN out ELSE <<"..">>

Descend(abs, out, c) ==
  IF c = "." THEN out
  ELSE IF c # ".." THEN Append(out, c)
  ELSE IF out # <<>> /\ Last(out) # ".." THEN Front(out)
  ELSE IF abs THEN out ELSE Append(out, "..")

Descending(abs) == [d \in Seq(Segment) \X Segment |-> Descend(abs, d[1], d[2])]

Normalize(p) ==
  LET out == Along(Descending(p.abs), <<>>, Components(p))
  IN  [abs |-> p.abs, segs |-> IF out = <<>> /\ ~p.abs THEN <<".">> ELSE out]

\* What is left of two normalised paths after the components they share.
Unshared(p, q) ==
  LET c == Components(p)
      d == Components(q)
  IN  SubSeq(c, Len(LongestCommonPrefix({c, d})) + 1, Len(c))

\* path.relative: one .. for each component left of from, a . among them.  Of two paths
\* of which one is absolute it is the other, normalised.
Relative(from, to) ==
  LET up == Unshared(Normalize(from), Normalize(to))
      down == Unshared(Normalize(to), Normalize(from))
  IN  IF from.abs # to.abs THEN Normalize(to)
      ELSE IF up \o down = <<>> THEN RelPath(<<".">>)
      ELSE RelPath([i \in DOMAIN up |-> ".."] \o down)

\* path.absolute of a path that does not exist.
Absolute(p, cwd) == Normalize(IF p.abs THEN p ELSE Push(cwd, p))

-----------------------------------------------------------------------------
(* Where a path leads.                                                     *)

\* The reference: the directory a path leads to from another, one component at a time; above
\* the root there is none.
Walk(place, c) == IF c \in {"", "."} THEN place ELSE IF c # ".." THEN Append(place, c)
                  ELSE IF place = <<>> THEN place ELSE Front(place)
Walking == [d \in Seq(Segment) \X Segment |-> Walk(d[1], d[2])]
Follow(cwd, p) == Along(Walking, IF p.abs THEN <<>> ELSE cwd, Components(p))

\* A path in its normal form leads where it led, and so does the path made absolute (no
\* links among the directories); the normal form is that of itself.
NormalLeadsThere(cwd, p) ==
  /\ Follow(cwd, Normalize(p)) = Follow(cwd, p)
  /\ Normalize(Normalize(p)) = Normalize(p)
  /\ Follow(cwd, Absolute(p, AbsPath(cwd))) = Follow(cwd, p)

\* A path's components, and its parent and its name, make up the path again.
MadeOfItsParts(p) ==
  /\ Components(JoinPaths(ComponentTexts(p))) = Components(p)
  /\ JoinPaths(ComponentTexts(p)).abs = p.abs
  /\ Basename(p) # "" =>
       Components(JoinPaths(<<Parent(p), RelPath(<<Basename(p)>>)>>)) = Components(p)

\* What path.relative says leads from the one path to the other, if all of the first, next
\* to what both begin with, are names.
RelativeLeadsThere(cwd, from, to) ==
  LET left == Unshared(Normalize(from), Normalize(to))
  IN  from.abs = to.abs /\ (\A i \in DOMAIN left : left[i] \notin {".", ".."}) =>
        Follow(cwd, JoinPaths(<<from, Relative(from, to)>>)) = Follow(cwd, to)

\* If not, in a directory with more above it than the paths can go up, it leads elsewhere:
\* a .. is taken back by another, and the directory itself by its parent.
RelativeLeadsElsewhere(cwd, from, to) ==
  LET left == Unshared(Normalize(from), Normalize(to))
  IN  /\ from.abs = to.abs
      /\ \E i \in DOMAIN left : left[i] \in {".", ".."}
      /\ Len(cwd) > 2 * (Len(from.segs) + 1) + Len(to.segs)
      => Follow(cwd, JoinPaths(<<from, Relative(from, to)>>)) # Follow(cwd, to)
=============================================================================
