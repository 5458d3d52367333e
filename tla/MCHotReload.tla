----------------------------- MODULE MCHotReload -----------------------------
(***************************************************************************)
(* An instance of HotReload for TLC: two files that form one extension,    *)
(* the first also an extension of its own, and two overlapping roots, one  *)
(* of them without the first file and without manifests.  Each file may be *)
(* missing or hold one of two texts: a good one or one that does not parse *)
(* for the first, one that declares an extension it is not listed in or    *)
(* one that is not UTF-8 for the second.                                   *)
(***************************************************************************)
EXTENDS HotReload

MCFile == {"a", "b"}
MCText == {"member", "stray", "malformed", "garbled"}
MCReadable == MCText \ {"garbled"}
MCParses == {"member", "stray"}
MCDeclares ==
  [t \in MCText |-> CASE t = "member" -> "pair" [] t = "stray" -> "solo" [] OTHER -> NoExtension]
MCLists == [x \in Extension |-> IF x = "pair" THEN {"a", "b"} ELSE {"a"}]
MCRoot == {"all", "sub"}
MCUnder == [r \in MCRoot |-> IF r = "all" THEN {"a", "b"} ELSE {"b"}]
MCManifests == [r \in MCRoot |-> IF r = "all" THEN {"pair", "solo"} ELSE {}]
MCRootLists == {<<"all">>, <<"sub", "all">>}
MCWrites ==
  [f \in MCFile |-> IF f = "a" THEN {"member", "malformed"} ELSE {"stray", "garbled"}]
=============================================================================
