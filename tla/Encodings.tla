------------------------------ MODULE Encodings ------------------------------
(***************************************************************************)
(* What scripts turn into something else and back: paths, the encodings of *)
(* stdlib/codec.rs, the percent encoding, queries and URLs of              *)
(* stdlib/url.rs, the times of stdlib/time.rs, and what stdlib/crypto.rs   *)
(* seals and signs.                                                        *)
(* Nothing is kept between two calls; each is checked on one question, an  *)
(* input with the kind that says what it is asked of.                      *)
(*                                                                         *)
(* A string is a sequence of bytes; of UTF-8 there are characters of one   *)
(* and of two bytes.  A symbol of base64 is its number, 62 and 63 for +    *)
(* and /, 64 and 65 for - and _, and 66 for the padding; one of hex is its *)
(* number, plus 16 for a capital.                                          *)
(*                                                                         *)
(* Of crypto it is modelled which algorithm a name chooses, which          *)
(* arguments are refused, and what is handed to it.  The algorithms are    *)
(* taken to be ideal: what one makes is a term of what it was made of.  A  *)
(* string is a record there, with the number of its bytes, n.  A function  *)
(* that may raise yields the set of its results, none if it raises.        *)
(*                                                                         *)
(* A definition whose name starts with Slip is not part of the model: it   *)
(* is what the one after it would be with a plausible bug in that code,    *)
(* kept to show which property notices.                                    *)
(***************************************************************************)
EXTENDS Paths, Requests

CONSTANTS
  Nanos,      \* the nanoseconds of a second
  Fractions,  \* the parts of a nanosecond
  PathPairs,  \* two paths each
  Dir,        \* the names of the directory in which they are asked about
  Strings,    \* byte strings
  Urls,       \* URLs
  Epochs,     \* times, in parts of nanoseconds
  Sealings,   \* the arguments of calls of crypto: [key, nonce, data, aad]
  FieldMaps,  \* events
  Fields,     \* what is in events, what comes back of it, and their members
  Nesting(_), \* how deep a value nests
  Requested   \* the arguments of a request: [method, body, headers, query, timeout]

-----------------------------------------------------------------------------
(* Strings of bytes.                                                       *)

Byte == 0..255

\* One string made of several.
Joining == [d \in Seq(Nat) \X Seq(Nat) |-> d[1] \o d[2]]
Joined(parts) == Along(Joining, <<>>, parts)

Lead(b) == b \in 194..223
Follows(b) == b \in 128..191

\* str::from_utf8 fails at byte i.
Malformed(s, i) ==
  \/ s[i] \in {192, 193} \cup 224..255
  \/ Lead(s[i]) /\ ~(i < Len(s) /\ Follows(s[i + 1]))
  \/ Follows(s[i]) /\ ~(i > 1 /\ Lead(s[i - 1]))
IsUtf8(s) == \A i \in DOMAIN s : ~Malformed(s, i)

\* String::from_utf8_lossy.
Lossy(s) == Joined([i \in DOMAIN s |-> IF Malformed(s, i) THEN <<239, 191, 189>> ELSE <<s[i]>>])

-----------------------------------------------------------------------------
(* Percent encoding.                                                       *)

Percent == 37
Alphanumeric(b) == b \in 48..57 \cup 65..90 \cup 97..122
HexByte(n) == IF n < 10 THEN 48 + n ELSE 55 + n
HexValue(b) ==
  CASE b \in 48..57 -> {b - 48} [] b \in 65..70 -> {b - 55} [] b \in 97..102 -> {b - 87} [] OTHER -> {}

\* url.encode, of text.
EncodeComponent(s) ==
  Joined([i \in DOMAIN s |->
    IF Alphanumeric(s[i]) THEN <<s[i]>> ELSE <<Percent, HexByte(s[i] \div 16), HexByte(s[i] % 16)>>])

\* The triplet at i, if there is one, ends before the last byte.
SlipTriplet(s, i) ==
  IF s[i] = Percent /\ i + 2 < Len(s)
  THEN {h * 16 + l : h \in HexValue(s[i + 1]), l \in HexValue(s[i + 2])} ELSE {}

Triplet(s, i) ==
  IF s[i] = Percent /\ i + 2 <= Len(s)
  THEN {h * 16 + l : h \in HexValue(s[i + 1]), l \in HexValue(s[i + 2])} ELSE {}

\* The loop of url.decode at place i: what is no triplet is taken as it is, and the loop
\* goes on after what it took.
Scanned == [next : Nat, out : Seq(Nat)]
Scan(s, scanned, i) ==
  IF i # scanned.next THEN scanned
  ELSE IF Triplet(s, i) = {} THEN [next |-> i + 1, out |-> Append(scanned.out, s[i])]
  ELSE [next |-> i + 3, out |-> Append(scanned.out, CHOOSE b \in Triplet(s, i) : TRUE)]
Scanning(s) == [d \in Scanned \X DOMAIN s |-> Scan(s, d[1], d[2])]
DecodeComponent(s) ==
  Lossy(Along(Scanning(s), [next |-> 1, out |-> <<>>], [i \in DOMAIN s |-> i]).out)

-----------------------------------------------------------------------------
(* Base64 and hex.                                                         *)

Padding == 66
Symbol(n, url_safe) == IF url_safe /\ n >= 62 THEN n + 2 ELSE n

\* The groups of six bits of a string, filled up with zeros: four of each three bytes.
Sextet(s, i) ==
  LET byte(k) == IF k <= Len(s) THEN s[k] ELSE 0
      first == 3 * ((i - 1) \div 4) + 1
  IN  CASE i % 4 = 1 -> byte(first) \div 4
        [] i % 4 = 2 -> (byte(first) % 4) * 16 + byte(first + 1) \div 16
        [] i % 4 = 3 -> (byte(first + 1) % 16) * 4 + byte(first + 2) \div 64
        [] i % 4 = 0 -> byte(first + 2) % 64

\* One of four engines, by the two options.
Base64Encode(s, url_safe, padded) ==
  LET n == (4 * Len(s) + 2) \div 3
  IN  [i \in 1..(IF padded THEN 4 * ((n + 3) \div 4) ELSE n) |->
         IF i > n THEN Padding ELSE Symbol(Sextet(s, i), url_safe)]

\* The bytes of groups of six bits, and whether the bits after the last byte are zeros.
Octet(q, i) ==
  LET first == 4 * ((i - 1) \div 3) + 1
  IN  CASE i % 3 = 1 -> q[first] * 4 + q[first + 1] \div 16
        [] i % 3 = 2 -> (q[first + 1] % 16) * 16 + q[first + 2] \div 4
        [] i % 3 = 0 -> (q[first + 2] % 4) * 64 + q[first + 3]
ZerosLeft(q) ==
  CASE Len(q) % 4 = 2 -> q[Len(q)] % 16 = 0 [] Len(q) % 4 = 3 -> q[Len(q)] % 4 = 0 [] OTHER -> TRUE

\* An engine that does not ask for padding, but takes none that is wrong; the bits after
\* the last byte must be zeros.
Decode(text, url_safe) ==
  LET n == Cardinality({i \in DOMAIN text : text[i] # Padding})
      sextets == [i \in 1..n |-> IF url_safe /\ text[i] >= 62 THEN text[i] - 2 ELSE text[i]]
  IN  IF /\ \A i \in 1..n : sextets[i] \in 0..63 /\ Symbol(sextets[i], url_safe) = text[i]
         /\ n % 4 # 1
         /\ Len(text) = n \/ Len(text) = 4 * ((n + 3) \div 4)
         /\ ZerosLeft(sextets)
      THEN {[i \in 1..(3 * n) \div 4 |-> Octet(sextets, i)]}
      ELSE {}

\* The alphabet is found out: the standard one first.
Base64Decode(text) == IF Decode(text, FALSE) # {} THEN Decode(text, FALSE) ELSE Decode(text, TRUE)

HexEncode(s) == Joined([i \in DOMAIN s |-> <<s[i] \div 16, s[i] % 16>>])
HexDecode(text) ==
  IF Len(text) % 2 = 1 \/ \E i \in DOMAIN text : text[i] \notin 0..15 \cup 26..31 THEN {}
  ELSE {[i \in 1..(Len(text) \div 2) |-> (text[2*i - 1] % 16) * 16 + (text[2*i] % 16)]}

-----------------------------------------------------------------------------
(* Bytes and characters as tables of numbers, which are sequences here.    *)

StringToBytes(s) == s
BytesToString(t) == IF \A i \in DOMAIN t : t[i] \in 0..255 THEN {t} ELSE {}

\* utf8_encode takes text or the bytes of text.
Utf8Encode(t) == {s \in BytesToString(t) : IsUtf8(s)}

\* utf8_decode: the numbers of the characters.
Utf8Decode(s) ==
  IF ~IsUtf8(s) THEN {}
  ELSE {Joined([i \in DOMAIN s |->
          CASE Lead(s[i]) -> <<(s[i] - 192) * 64 + (s[i + 1] - 128)>> [] Follows(s[i]) -> <<>>
            [] OTHER -> <<s[i]>>])}
Character(n) == IF n < 128 THEN <<n>> ELSE <<192 + n \div 64, 128 + (n % 64)>>

-----------------------------------------------------------------------------
(* Queries and URLs.                                                       *)

\* decode_query of the pairs of a form: of a name that comes twice the last is kept.
DecodeQuery(pairs) ==
  [name \in {pairs[i][1] : i \in DOMAIN pairs} |->
     pairs[SelectLastInSeq(pairs, LAMBDA p : p[1] = name)][2]]

\* A URL of the url crate: host, port, query, fragment and password are sets, of one text
\* if the URL has one, and username is empty if it has none.  url.parse makes a table.
Port == 0..65535
Present(set) == {x \in set : x # ""}
ParseUrl(u) == [u EXCEPT !.username = Present({u.username})]

\* url.format: of an empty query or fragment nothing is written.
FormatUrl(t) ==
  IF t.scheme = "" \/ Present(t.host) = {} \/ (t.port # {} /\ t.scheme = "file")
     \/ ~ t.port \subseteq Port
  THEN {}
  ELSE {[t EXCEPT !.query = Present(t.query), !.fragment = Present(t.fragment),
                  !.username = IF t.username = {} THEN "" ELSE CHOOSE name \in t.username : TRUE]}

-----------------------------------------------------------------------------
(* Times.                                                                  *)

Truncated(x, y) == IF x < 0 THEN -((-x) \div y) ELSE x \div y
Rounded(x, y) == IF x < 0 THEN -((2 * (-x) + y) \div (2 * y)) ELSE (2 * x + y) \div (2 * y)

\* Whole seconds and the nanoseconds after them: below zero a second is borrowed, and
\* nanoseconds that make a second are carried.
SplitSecsNanos(epoch) ==
  LET whole == Truncated(epoch, Nanos * Fractions)
      nanos == Rounded(epoch - whole * Nanos * Fractions, Fractions)
      borrowed == IF nanos < 0 THEN [secs |-> whole - 1, nanos |-> nanos + Nanos]
                  ELSE [secs |-> whole, nanos |-> nanos]
  IN  IF borrowed.nanos >= Nanos
      THEN [secs |-> borrowed.secs + 1, nanos |-> borrowed.nanos - Nanos] ELSE borrowed

\* time.format and time.parse with a format that has seconds and nanoseconds.
FormatTime(epoch) == {d \in {SplitSecsNanos(epoch)} : d.nanos \in 0..Nanos - 1}
ParseTime(d) == (d.secs * Nanos + d.nanos) * Fractions

-----------------------------------------------------------------------------
(* Cryptography.                                                           *)

Plaintext(n, as) == [n |-> n, as |-> as]
NoText == Plaintext(0, "")
None == [none |-> TRUE]        \* nil, or an argument left out
NotText == [number |-> 1]      \* an argument that is no string

HashLength(alg) == CASE alg \in {"sha256", "sha3-256", "blake3"} -> {32} [] alg = "sha512" -> {64} [] OTHER -> {}
Hash(alg, data) == {[n |-> n, hash |-> alg, data |-> data] : n \in HashLength(alg)}

HmacLength(alg) == CASE alg = "hmac-sha256" -> {32} [] alg = "hmac-sha512" -> {64} [] OTHER -> {}
Hmac(alg, key, data) == {[n |-> n, mac |-> alg, key |-> key, data |-> data] : n \in HmacLength(alg)}

\* The public key of a seed; of other strings of 32 bytes, some are none.
PublicKey(seed) == [n |-> 32, seed |-> seed]
IsPoint(key) == DOMAIN key = {"n", "seed"}
Signature(seed, data) == [n |-> 64, signer |-> PublicKey(seed), signed |-> data]

Keypair(alg, seed) == IF alg = "ed25519" THEN {[public |-> PublicKey(seed), private |-> seed]} ELSE {}

Sign(alg, key, data) ==
  CASE alg = "ed25519" -> IF key.n = 32 THEN {Signature(key, data)} ELSE {}
    [] alg = "hmac-sha256" -> Hmac(alg, key, data)
    [] OTHER -> {}

\* A key that is no point, or a signature of another length, is no error.
Verify(alg, key, data, sig) ==
  CASE alg = "ed25519" ->
         IF key.n # 32 THEN {}
         ELSE {IsPoint(key) /\ sig.n = 64 /\ sig = [n |-> 64, signer |-> key, signed |-> data]}
    [] alg = "hmac-sha256" -> {\E mac \in Hmac(alg, key, data) : sig = mac}
    [] OTHER -> {}

\* The aad of a call; to the cipher, none is an empty one.
OptionalBytes(v) == IF v = None THEN {NoText} ELSE IF v = NotText THEN {} ELSE {v}

Checked(key, nonce) == key.n = 32 /\ nonce.n = 12

\* The ciphertext and its tag.
AeadEncrypt(alg, key, nonce, data, aad) ==
  {[n |-> data.n + 16, key |-> key, nonce |-> nonce, data |-> data, aad |-> extra] :
     extra \in {x \in OptionalBytes(aad) : alg = "chacha20poly1305" /\ Checked(key, nonce)}}

\* Opens what was sealed with the same; anything else raises.
AeadDecrypt(alg, key, nonce, sealed, aad) ==
  {data \in IF "data" \in DOMAIN sealed THEN {sealed.data} ELSE {} :
     /\ alg = "chacha20poly1305"
     /\ Checked(key, nonce)
     /\ \E extra \in OptionalBytes(aad) :
          sealed = [n |-> data.n + 16, key |-> key, nonce |-> nonce, data |-> data, aad |-> extra]}

-----------------------------------------------------------------------------
(* Questions.                                                              *)

VARIABLE question   \* [about, what]

\* A URL of the url crate has a scheme, and its port is one of TCP; that of a file has none.
Url ==
  {u \in [scheme : STRING \ {""}, host : SUBSET STRING, port : SUBSET Port, path : STRING,
          query : SUBSET STRING, fragment : SUBSET STRING, username : STRING,
          password : SUBSET STRING] : u.scheme = "file" => u.port = {}}

Plaintexts == [n : Nat, as : STRING]
Sealing == [key : Plaintexts, nonce : Plaintexts, data : Plaintexts, aad : Plaintexts \cup {None, NotText}]

ASSUME EncodingsAssumption ==
  /\ Nanos \in Nat \ {0} /\ Fractions \in Nat \ {0}
  /\ PathPairs \subseteq PathText \X PathText
  /\ Dir \in Seq(Segment \ {"", ".", ".."})
  /\ Strings \subseteq Seq(Byte)
  /\ Urls \subseteq Url
  /\ Epochs \subseteq Int
  /\ Sealings \subseteq Sealing
  /\ \A a \in Requested :
       a.method \in Method /\ \A t \in {a.headers, a.query} : t.k = "table" => IsFiniteSet(DOMAIN t.e)

\* What the types of the code say of a FieldValue: its strings are text, its lists and maps
\* finite.
IsFieldValue(v) ==
  CASE v.k = "nil" -> v = Nil
    [] v.k = "bool" -> v = Bool(v.b)
    [] v.k = "int" -> v = Num(v.n)
    [] v.k = "float" -> v = Float(v.f)
    [] v.k = "str" -> v = Str(v.s) /\ v.s # Binary
    [] v.k = "enum" -> v = Enum(v.s)
    [] v.k = "list" -> v = List(v.q) /\ Len(v.q) \in Nat /\ v.q = [i \in 1 .. Len(v.q) |-> v.q[i]]
    [] v.k = "map" ->
         /\ v = Map(v.m) /\ v.m = [s \in DOMAIN v.m |-> v.m[s]]
         /\ IsFiniteSet(DOMAIN v.m) /\ Binary \notin DOMAIN v.m
    [] OTHER -> FALSE

\* Values nest, down to values without members, and what converts the members of a value
\* is what converts the value.
ASSUME FieldsAssumption ==
  /\ {Map(event) : event \in FieldMaps} \subseteq Fields
  /\ UNION {{Members(v)[x] : x \in DOMAIN Members(v)} : v \in Fields} \subseteq Fields
  /\ UNION {LuaToField(FieldToLua(v)) : v \in Fields} \subseteq Fields
  /\ \A v \in Fields :
       /\ IsFieldValue(v)
       /\ Nesting(v) \in Nat
       /\ \A x \in DOMAIN Members(v) : Nesting(Members(v)[x]) < Nesting(v)
       /\ MemberToLua(v) = FieldToLua(v)
       /\ MemberToFields(FieldToLua(v)) = LuaToField(FieldToLua(v))
       /\ MemberSignature(v) = FieldSignature(v)
       /\ MemberInside(v) = Inside(v)

EncodingQuestions ==
  [about : {"paths"}, paths : PathPairs] \cup [about : {"string"}, string : Strings]
    \cup [about : {"url"}, url : Urls] \cup [about : {"epoch"}, epoch : Epochs]
    \cup [about : {"sealing"}, sealings : Sealings \X Sealings]
    \cup [about : {"request"}, request : Requested]
    \cup [about : {"event"}, event : FieldMaps]

EncodingInit == question \in EncodingQuestions
EncodingSpec == EncodingInit /\ [][UNCHANGED question]_question

-----------------------------------------------------------------------------

\* Paths in their normal form lead where they led, and are made of their parts; and what
\* path.relative says leads from the one path to the other, if and, in a directory with
\* more above it than the paths go up, only if nothing but names is to be taken back.
LeadsThere ==
  question.about = "paths" =>
    LET from == question.paths[1]
        to == question.paths[2]
    IN  /\ NormalLeadsThere(Dir, from) /\ MadeOfItsParts(from)
        /\ RelativeLeadsThere(Dir, from, to)
        /\ RelativeLeadsElsewhere(Dir, from, to)

\* A string comes back from base64 of either alphabet, padded or not, from hex and from
\* bytes; text comes back from its percent encoding and from the numbers of its characters,
\* and what is not text is refused; and what has no triplets is decoded as it is.
StringComesBack(s) ==
  /\ \A url_safe, padded \in BOOLEAN : Base64Decode(Base64Encode(s, url_safe, padded)) = {s}
  /\ HexDecode(HexEncode(s)) = {s}
  /\ BytesToString(StringToBytes(s)) = {s}
  /\ IF IsUtf8(s)
     THEN /\ DecodeComponent(EncodeComponent(s)) = s
          /\ \A t \in Utf8Decode(s) : Joined([i \in DOMAIN t |-> Character(t[i])]) = s
     ELSE Utf8Encode(s) = {}
  /\ (\A i \in DOMAIN s : Triplet(s, i) = {}) => DecodeComponent(s) = Lossy(s)

\* A URL comes back if it has a host, and no query or fragment that is empty.
UrlComesBack(url) ==
  FormatUrl(ParseUrl(url)) = {url}
    <=> Present(url.host) # {} /\ "" \notin url.query \cup url.fragment

\* A time is formatted to the nanosecond next to it.
TimeComesBack(epoch) ==
  \E d \in FormatTime(epoch) : 2 * (ParseTime(d) - epoch) \in -Fractions..Fractions

\* What is sealed opens with the same key, nonce and aad, none being as an empty one, and
\* what is signed is verified with its key; with others neither.
OpensAsSealed(x, y) ==
  LET cipher == "chacha20poly1305"
      aad(z) == IF z.aad = None THEN NoText ELSE z.aad
  IN  /\ (AeadEncrypt(cipher, x.key, x.nonce, x.data, x.aad) # {})
            = (x.key.n = 32 /\ x.nonce.n = 12 /\ x.aad # NotText)
      /\ \A c \in AeadEncrypt(cipher, x.key, x.nonce, x.data, x.aad) :
           AeadDecrypt(cipher, y.key, y.nonce, c, y.aad)
             = IF x.key = y.key /\ x.nonce = y.nonce /\ aad(x) = aad(y) THEN {x.data} ELSE {}
VerifiedAsSigned(x, y) ==
  /\ \A pair \in Keypair("ed25519", x.key) : \A s \in Sign("ed25519", pair.private, x.data) :
       \A other \in Keypair("ed25519", y.key) :
         /\ other.public.n = 32
         /\ Verify("ed25519", other.public, y.data, s) = {x.key = y.key /\ x.data = y.data}
         /\ Verify("ed25519", other.private, y.data, s) \subseteq {FALSE}
  /\ \A s \in Sign("hmac-sha256", x.key, x.data) :
       Verify("hmac-sha256", y.key, y.data, s) = {x.key = y.key /\ x.data = y.data}
  /\ Sign("hmac-sha256", x.key, x.data) = Hmac("hmac-sha256", x.key, x.data)

\* What is encoded and decoded is what it was: strings in every encoding, URLs, times, and
\* what is sealed or signed.
RoundTrips ==
  /\ question.about = "string" => StringComesBack(question.string)
  /\ question.about = "url" => UrlComesBack(question.url)
  /\ question.about = "epoch" => TimeComesBack(question.epoch)
  /\ question.about = "sealing" =>
       /\ OpensAsSealed(question.sealings[1], question.sealings[2])
       /\ VerifiedAsSigned(question.sealings[1], question.sealings[2])

\* A request comes out the same whether it is made with the function of its method or
\* with http.request.
BodyAsked(a) == IF a.method \in WithBody THEN a.body ELSE Nil
MadeEitherWay(a) ==
  BuildRequest(a.method, "u", BodyAsked(a), a)
    = RequestFromTable([method |-> Str(a.method), url |-> Str("u"), body |-> BodyAsked(a),
                        headers |-> a.headers, query |-> a.query, timeout |-> a.timeout])

\* What the script says of the content-type, in either case.
OwnContentTypes(r) == {p[3] : p \in {p \in r.headers : LowerCase(p[2]) = "content-type"}}
SentContentTypes(r) == {h[3] : h \in {h \in SentHeaders(r) : h[1] = "content-type"}}

\* There is a body if the script gave one; and where it says nothing of a content-type, one
\* is sent if and only if the body is a table.
SentAsMade(a, r) ==
  /\ (r.body = NoBody) <=> (BodyAsked(a) = Nil)
  /\ OwnContentTypes(r) = {} =>
       SentContentTypes(r) = IF BodyAsked(a).k = "table" THEN {"application/json"} ELSE {}

\* A form that is encoded and decoded has the pairs it was made of, but one of two whose
\* names are one text.
OneOfEachName(pairs) ==
  {kept \in SUBSET pairs : \A p \in pairs : \E q \in kept : q[2] = p[2]}
FormComesBack(t) ==
  \A query \in EncodeQuery(t), pairs \in StringPairs(t) :
    DecodeQuery(query) \in
      {[s \in {p[2] : p \in pairs} |-> TheOne({p \in kept : p[2] = s})[3]] :
         kept \in OneOfEachName(pairs)}

\* A request is what the script asked for, whichever way it asked, and so are its headers
\* and its query; of a content-type the script gives see OwnContentTypeWins.
RequestAsAsked ==
  question.about = "request" =>
    LET a == question.request
    IN  /\ MadeEitherWay(a)
        /\ \A r \in BuildRequest(a.method, "u", BodyAsked(a), a) : SentAsMade(a, r)
        /\ FormComesBack(a.headers) /\ FormComesBack(a.query)

\* The content-type of the script wins over that of an encoded body, as http.rs says at its
\* lines 45-47 and 551-553: no other is sent.
OwnContentTypeWins ==
  question.about = "request" =>
    LET a == question.request
    IN  \A r \in BuildRequest(a.method, "u", BodyAsked(a), a) :
          OwnContentTypes(r) # {} => SentContentTypes(r) = OwnContentTypes(r)

\* A script that emits the event it was given, as it was given it, is caught by the cycle
\* check; unless the event holds an enum value, which Lua gets as a string, a null inside
\* it, which Lua tables leave out, or an empty list, which comes back as a map.  Those
\* come back as another event, and one for which a clause that asks for the enum value
\* no longer runs.
Plain(event) ==
  \A v \in Inside(Map(event)) :
    v.k \notin {"enum", "nil"} /\ v # List(<<>>)
EchoIsACycle ==
  question.about = "event" =>
    LET back == LuaToField(FieldToLua(Map(question.event)))
    IN  Plain(question.event)
          <=> \A v \in back : v.k = "map" /\ EventSignature(v.m) = EventSignature(question.event)
=============================================================================
