----------------------------- MODULE Frontmatter -----------------------------
(***************************************************************************)
(* From the lines of a file to the clauses of a script (parser.rs).        *)
(*                                                                         *)
(* A line is what its first mark makes of it: a delimiter, a blank line, a *)
(* declaration of an extension, an annotation, a guard, a field (any other *)
(* line with a colon, in a Lua body as well), or code, which is the rest.  *)
(* Guards are tokens and the values of fields are pattern texts.  What is  *)
(* read is a set again: empty when the code returns an error.              *)
(*                                                                         *)
(* A definition whose name starts with Slip is not part of the model: it   *)
(* is what the one after it would be with a plausible bug in that code,    *)
(* kept to show which property notices.                                    *)
(***************************************************************************)
EXTENDS PatternText, Guards

Delimiter == [line |-> "delimiter"]
Blank == [line |-> "blank"]
Extension(name) == [line |-> "extension", name |-> name]
Annotation(key, value) == [line |-> "annotation", key |-> key, value |-> value]
GuardLine(tokens) == [line |-> "guard", tokens |-> tokens]
FieldLine(key, text) == [line |-> "field", key |-> key, text |-> text]
Code(lua) == [line |-> "code", lua |-> lua]

NotABlank(l) == l # Blank
IsDelimiter(l) == l = Delimiter
After(lines, i) == SubSeq(lines, i + 1, Len(lines))
Before(lines, i) == SubSeq(lines, 1, i - 1)
UpToDelimiter(lines) == Before(lines, SelectInSeq(lines, IsDelimiter))
PastDelimiter(lines) == After(lines, SelectInSeq(lines, IsDelimiter))

-----------------------------------------------------------------------------
(* One block of frontmatter.                                               *)

\* The declaration stands above everything but blank lines, and there is one at most.
Declarations(lines) ==
  LET other == SelectInSeq(lines, LAMBDA l : l.line \notin {"blank", "extension"})
  IN IF other = 0 THEN lines ELSE Before(lines, other)

Names(declared) == {declared[i].name : i \in DOMAIN declared}
Extensions(declared) ==
  IF Len(declared) <= 1 /\ "" \notin Names(declared) THEN {Names(declared)} ELSE {}

\* What is declared, and the lines below.
ExtractExtension(lines) ==
  {[extension |-> extension, rest |-> After(lines, Len(Declarations(lines)))] :
     extension \in Extensions(SelectSeq(Declarations(lines), NotABlank))}

NoAnnotations == <<>>
Start(is_child) ==
  [fields |-> <<>>, guards |-> <<>>, top |-> NoAnnotations, on_fields |-> <<>>,
   pending |-> NoAnnotations, top_open |-> ~is_child, first_field_seen |-> FALSE]

\* A field takes the annotations above it, and the first field of the first block hands
\* them to the clause.
Annotate(block, key) ==
  IF block.top_open THEN [block EXCEPT !.top = block.pending]
  ELSE IF block.pending = NoAnnotations THEN block
  ELSE [block EXCEPT !.on_fields = (key :> block.pending) @@ @]

ReadField(block, l) ==
  {[Annotate(block, l.key) EXCEPT !.fields = Append(@, Field(l.key, p)), !.pending = NoAnnotations,
                                  !.top_open = FALSE, !.first_field_seen = TRUE] :
     p \in ParsePatternValue(l.text)}

\* The annotations above a guard are dropped.
ReadGuard(block, l) ==
  IF l.tokens = <<>> THEN {}
  ELSE {[block EXCEPT !.guards = Append(@, l.tokens), !.pending = NoAnnotations]}

ReadLine(block, l) ==
  CASE l = Blank -> {block}
    [] l.line = "annotation" -> {[block EXCEPT !.pending = Append(@, <<l.key, l.value>>)]}
    [] l.line = "guard" -> ReadGuard(block, l)
    [] l.line = "field" -> ReadField(block, l)
    [] l.line \in {"extension", "code"} -> {}

\* The guard lines of a block become one expression, with an "and" between two of them.
JoinGuards(lines) ==
  FoldLeft(LAMBDA joined, line : IF joined = <<>> THEN line ELSE joined \o <<Word("and")>> \o line,
           <<>>, lines)

\* The block is kept as its fields, its guard, and the annotations of both kinds.
Finished(block) ==
  [fields |-> block.fields, guard |-> JoinGuards(block.guards),
   annotations |-> IF block.first_field_seen THEN block.top ELSE block.pending,
   field_annotations |-> block.on_fields]

ParseFrontmatterBlock(lines, is_child) ==
  {Finished(block) : block \in
     FoldLeft(LAMBDA read, l : UNION {ReadLine(block, l) : block \in read}, {Start(is_child)}, lines)}

-----------------------------------------------------------------------------
(* Where the blocks are.                                                   *)

LooksLikeFrontmatter(lines) ==
  LET first == SelectInSeq(lines, NotABlank)
  IN first # 0 /\ lines[first].line \in {"field", "guard", "annotation"}

\* The places, after from, of the delimiters that open a block.
RECURSIVE FindClauseBoundaries(_, _)

\* A delimiter that opens no block takes the next one with it.
SlipFindClauseBoundaries(lines, from) ==
  LET open == SelectInSeq(After(lines, from), IsDelimiter) + from
      close == SelectInSeq(After(lines, open), IsDelimiter) + open
  IN IF open = from \/ close = open THEN <<>>
     ELSE IF LooksLikeFrontmatter(SubSeq(lines, open + 1, close - 1))
     THEN <<open>> \o FindClauseBoundaries(lines, close)
     ELSE FindClauseBoundaries(lines, close)

FindClauseBoundaries(lines, from) ==
  LET open == SelectInSeq(After(lines, from), IsDelimiter) + from
      close == SelectInSeq(After(lines, open), IsDelimiter) + open
  IN IF open = from \/ close = open THEN <<>>
     ELSE IF LooksLikeFrontmatter(SubSeq(lines, open + 1, close - 1))
     THEN <<open>> \o FindClauseBoundaries(lines, close)
     ELSE FindClauseBoundaries(lines, open)

PutField(fields, f) ==
  LET i == FirstWithKey(fields, f.key)
  IN IF i = 0 THEN Append(fields, f) ELSE [fields EXCEPT ![i] = f]

MergeFields(base, child) == FoldLeft(PutField, base, child)

\* A field of the child without annotations has those of the base.
MergeFieldAnnotations(base, child, fields) ==
  LET annotations == child @@ base
  IN [key \in DOMAIN annotations \cap {fields[i].key : i \in DOMAIN fields} |-> annotations[key]]

\* The blocks that begin at the boundaries, each closed by the next delimiter.
ParseChildren(rest, boundaries) ==
  FoldLeft(LAMBDA read, b : {Append(children, child) : children \in read,
                               child \in ParseFrontmatterBlock(UpToDelimiter(After(rest, b)), TRUE)},
           {<<>>}, boundaries)

\* The lines up to the boundary after the n-th, and the body at the end of them.
UpToBoundary(rest, boundaries, n) ==
  IF n < Len(boundaries) THEN Before(rest, boundaries[n + 1]) ELSE rest
BodyAfter(rest, boundaries, n) ==
  PastDelimiter(After(UpToBoundary(rest, boundaries, n), boundaries[n]))

\* A block builds on its own fields alone.
SlipChildClause(base, child, body) ==
  [fields |-> child.fields, guard |-> child.guard, body |-> body,
   annotations |-> child.annotations, field_annotations |-> child.field_annotations]

\* Every block but the first builds on the fields, and not the guard, of the first.
ChildClause(base, child, body) ==
  LET fields == MergeFields(base.fields, child.fields)
  IN [fields |-> fields, guard |-> child.guard, body |-> body,
      annotations |-> child.annotations,
      field_annotations |->
        MergeFieldAnnotations(base.field_annotations, child.field_annotations, fields)]

FirstClause(base, body) ==
  [fields |-> base.fields, guard |-> base.guard, body |-> body,
   annotations |-> base.annotations, field_annotations |-> base.field_annotations]

Clauses(base, children, rest, boundaries) ==
  <<FirstClause(base, UpToBoundary(rest, boundaries, 0))>>
    \o [n \in DOMAIN children |-> ChildClause(base, children[n], BodyAfter(rest, boundaries, n))]

ParseBlocks(front, rest, boundaries) ==
  {[extension |-> front.extension, clauses |-> Clauses(base, children, rest, boundaries)] :
     base \in ParseFrontmatterBlock(front.rest, FALSE), children \in ParseChildren(rest, boundaries)}

ParseRest(lines, rest) ==
  UNION {ParseBlocks(front, rest, FindClauseBoundaries(rest, 0)) : front \in ExtractExtension(lines)}

ParseLuaml(lines) ==
  IF lines # <<>> /\ Head(lines) = Delimiter /\ Contains(Tail(lines), Delimiter)
  THEN ParseRest(UpToDelimiter(Tail(lines)), PastDelimiter(Tail(lines)))
  ELSE {}
=============================================================================
