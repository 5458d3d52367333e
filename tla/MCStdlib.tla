------------------------------ MODULE MCStdlib --------------------------------
(***************************************************************************)
(* Modules of the luaml standard library that share no state with one      *)
(* another, for TLC: JSON-RPC clients, TCP, UDP, files, watched files, and *)
(* what computes without keeping anything.                                 *)
(*                                                                         *)
(* A behaviour of all of them together is one of each, interleaved, and    *)
(* every property is about one.  So that each is checked without their     *)
(* product, a behaviour here is of one of them, part, while the others     *)
(* rest.                                                                   *)
(*                                                                         *)
(* JSON-RPC: two calls, batches and answers of one or two items, and an id *)
(* or two that a batch may lose.  TCP: two listeners for one address, two  *)
(* connections that come and one that is dialled.  UDP: one socket, three  *)
(* datagrams, three receives.  Files: two names, a script and a task,      *)
(* three calls; two watch handles, and three messages of events.           *)
(*                                                                         *)
(* The values are small in every kind, and such that the awkward ones are  *)
(* among them: nothing, NaN, numbers of too many bits, strings that are    *)
(* not text, tables with gaps and with keys of several kinds.              *)
(***************************************************************************)
EXTENDS JsonRpc, Tcp, Udp, Files, FileWatch, Library

MCContents == {<<1>>, <<2, 2>>}

-----------------------------------------------------------------------------

UpTo(n, set) == UNION {[1..k -> set] : k \in 0..n}
TablesOf(keys, values) == {Table(e) : e \in UNION {[K -> values] : K \in keys}}

Scalars == {Bool(TRUE), Num(1), Float("NaN"), Str("s"), Str(Binary), Enum("e"), Opaque}
Keys ==
  {IntKey(n) : n \in 0..3}
    \cup {StrKey("a"), StrKey("1"), StrKey(Binary), FloatKey("1.5"), BoolKey(TRUE)}
SmallTables ==
  {Table(<<>>)} \cup TablesOf({{IntKey(1)}, {IntKey(3)}}, {Num(1)}) \cup TablesOf({{StrKey("a")}}, {Opaque})
MCLuaValues ==
  Scalars \cup {Nil}
    \cup TablesOf({K \in SUBSET Keys : Cardinality(K) <= 2}, Scalars)
    \cup TablesOf({K \in SUBSET Keys : Cardinality(K) = 3}, {Num(1)})
    \cup TablesOf({{IntKey(1)}, {IntKey(1), IntKey(2)}, {StrKey("a")}, {IntKey(1), StrKey("a")},
                   {IntKey(2)}}, SmallTables \cup {Num(1)})

FieldScalars == {Nil, Num(1), Float("NaN"), Str("s"), Enum("s"), List(<<>>), Map(<<>>)}
ListsOf(values) == {List(q) : q \in UpTo(3, values)}
MapsOf(values) == {Map(m) : m \in UNION {[N -> values] : N \in SUBSET {"a", "1"}}}
MCFieldMaps ==
  {[a |-> v] : v \in FieldScalars \cup ListsOf(FieldScalars) \cup MapsOf(FieldScalars)}
    \cup {[a |-> v, b |-> w] : v, w \in FieldScalars} \cup {<<>>}

\* The recursion of the converters, closed.
RECURSIVE MCMemberToLua(_), MCMemberToFields(_), MCMemberSignature(_), MCMemberInside(_), MCNesting(_)
MCMemberToLua(v) == ToLua(v, [x \in DOMAIN Members(v) |-> MCMemberToLua(Members(v)[x])])
MCMemberToFields(v) == ToFields(v, [x \in DOMAIN Members(v) |-> MCMemberToFields(Members(v)[x])])
MCMemberSignature(v) == ToSignature(v, [x \in DOMAIN Members(v) |-> MCMemberSignature(Members(v)[x])])
MCMemberInside(v) == {v} \cup UNION {MCMemberInside(Members(v)[x]) : x \in DOMAIN Members(v)}
MCNesting(v) ==
  IF Members(v) = <<>> THEN 0 ELSE 1 + Max({MCNesting(Members(v)[x]) : x \in DOMAIN Members(v)})

\* What comes back does so unchanged, the second time.
AndBack(values) == values \cup UNION {MCMemberToFields(MCMemberToLua(v)) : v \in values}
MCFields == AndBack(UNION {MCMemberInside(v) : v \in AndBack({Map(event) : event \in MCFieldMaps})})

JsonScalars == {Nil, Num(1), Float("1.5"), Str("s"), Big("2^63"), List(<<>>), Map(<<>>)}
MCJsonValues == JsonScalars \cup ListsOf(JsonScalars) \cup MapsOf(JsonScalars)
                  \cup {List(<<v>>) : v \in MapsOf({Nil, Num(1), Big("2^63")})}

MCServerAnswers ==
  [status : {2, 4}, body : {"", "text", Binary},
   headers : {<<>>} \cup {<<<<"h", v>>, <<g, w>>>> : g \in {"h", "g"}, v, w \in {"v", "w", Binary}}]

MCHeaders ==
  {Nil, Num(1), Table(<<>>)} \cup TablesOf({{StrKey("h")}}, {Num(1), Bool(TRUE)})
    \cup TablesOf({{StrKey("content-type")}, {StrKey("content-type"), StrKey("Content-Type")},
                   {IntKey(1), StrKey("1")}}, {Str("t")})
MCRequested ==
  [method : Method,
   body : {Nil, Str("s"), Str(Binary), Num(1), Table(<<>>)} \cup TablesOf({{IntKey(2)}}, {Num(1)})
            \cup TablesOf({{StrKey("a")}}, {Opaque}),
   headers : MCHeaders, query : {Nil} \cup TablesOf({{StrKey("q")}}, {Str("s")}),
   timeout : {Nil, Num(0), Num(1), Float("1.5"), Float("inf"), Float("huge"), Str("s")}]

Segments == {"a", "b", "..", ".", ""}
ShortPaths(n) ==
  {AbsPath(q) : q \in UpTo(2, Segments)}
    \cup {RelPath(q) : q \in {q \in UpTo(n, Segments) : q # <<>> => Head(q) # ""}}
MCPathPairs == ShortPaths(3) \X ShortPaths(2)

\* Deeper than two paths of these lengths go up.
MCDir == [i \in 1..11 |-> <<"x", "y", "z", "w">>[(i % 4) + 1]]

\* Of %, 2, A, a, ~, the two bytes of a letter, and one that is in no text.
MCStrings ==
  UpTo(3, {37, 50, 65, 97, 126, 195, 169, 255}) \cup {<<37, 50, 65, 37>>, <<251, 239, 190>>, <<251, 255>>}

MCUrls ==
  {u \in [scheme : {"http", "file"}, host : {{}, {"h"}}, port : {{}, {8080}}, path : {"/", "/p"},
          query : {{}, {""}, {"q"}}, fragment : {{}, {""}, {"f"}}, username : {"", "u"},
          password : {{}, {"p"}}] :
     IF u.scheme = "file" THEN u.port = {} /\ u.username = "" /\ u.password = {} ELSE u.host # {}}

MCNumberLists == UpTo(4, {-3, 0, 1, 4})
MCSmall == -2..6
MCVectors ==
  {FromVec(q) : q \in UpTo(3, {-1, 0, 2})}
    \cup TablesOf({{IntKey(2)}, {IntKey(0)}, {IntKey(1), IntKey(3)}, {IntKey(0), IntKey(1)}}, {Num(1)})
    \cup TablesOf({{IntKey(1)}, {StrKey("a")}, {IntKey(1), StrKey("a")}}, {Str("s")})

\* Nearly three seconds to either side, each in all parts.
MCEpochs == -(3 * Nanos * Fractions - 1)..(3 * Nanos * Fractions - 1)

MCSealings ==
  [key : {Plaintext(32, "k"), Plaintext(32, "l"), Plaintext(31, "k")},
   nonce : {Plaintext(12, "n"), Plaintext(12, "m"), Plaintext(8, "n")},
   data : {NoText, Plaintext(3, "abc")},
   aad : {None, NotText, NoText, Plaintext(1, "x")}]

-----------------------------------------------------------------------------
VARIABLE part

stdlibVars == <<part, vars, tcpVars, udpVars, filesVars, watchVars, question>>

StdlibInit ==
  /\ part \in {"rpc", "tcp", "udp", "fs", "watch", "library"}
  /\ Init
  /\ TcpInit
  /\ UdpInit
  /\ FilesInit
  /\ WatchInit
  /\ IF part = "library" THEN LibraryInit ELSE question = [about |-> "nothing"]

RpcAlone == part = "rpc" /\ UNCHANGED <<part, tcpVars, udpVars, filesVars, watchVars, question>>
TcpAlone == part = "tcp" /\ UNCHANGED <<part, vars, udpVars, filesVars, watchVars, question>>
UdpAlone == part = "udp" /\ UNCHANGED <<part, vars, tcpVars, filesVars, watchVars, question>>
FilesAlone == part = "fs" /\ UNCHANGED <<part, vars, tcpVars, udpVars, watchVars, question>>
WatchAlone == part = "watch" /\ UNCHANGED <<part, vars, tcpVars, udpVars, filesVars, question>>

StdlibNext ==
  \/ RpcAlone /\ Next
  \/ TcpAlone /\ TcpNext
  \/ UdpAlone /\ UdpNext
  \/ FilesAlone /\ FilesNext
  \/ WatchAlone /\ WatchNext

StdlibSpec == StdlibInit /\ [][StdlibNext]_stdlibVars
=============================================================================
