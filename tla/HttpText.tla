------------------------------ MODULE HttpText -------------------------------
(***************************************************************************)
(* The readers and writers of request text in http.cpp and config.cpp, on  *)
(* texts that are sequences of bytes.  Maps from text to text or values    *)
(* are functions whose domain is the set of keys.                          *)
(***************************************************************************)
EXTENDS Integers, Sequences, SequencesExt, FiniteSetsExt

\* The bytes the readers look at.
Newline == 10
Return == 13
Space == 32
Quote == 34
Percent == 37
Amp == 38
Plus == 43
Dash == 45
Zero == 48
Colon == 58
Semicolon == 59
Equals == 61
Hash == 35

Blank == {9, Space}
White == {9, Newline, 11, 12, Return, Space}

Empty == [k \in {} |-> <<>>]
Put(map, k, v) == [x \in DOMAIN map \cup {k} |-> IF x = k THEN v ELSE map[x]]

\* std::string::find: where pattern begins, at or after from; 0 for npos.
Find(s, pattern, from) ==
  LET at == {i \in from .. Len(s) - Len(pattern) + 1 :
               SubSeq(s, i, i + Len(pattern) - 1) = pattern} IN
  IF at = {} THEN 0 ELSE Min(at)

From(s, i) == SubSeq(s, i, Len(s))

TrimFront(s, bytes) ==
  LET kept == {i \in DOMAIN s : s[i] \notin bytes} IN
  IF kept = {} THEN <<>> ELSE From(s, Min(kept))

Trim(s, bytes) ==
  LET kept == {i \in DOMAIN s : s[i] \notin bytes} IN
  IF kept = {} THEN <<>> ELSE SubSeq(s, Min(kept), Max(kept))

\* The stretches between the occurrences of a byte.
RECURSIVE Split(_, _)
Split(s, byte) ==
  LET p == Find(s, <<byte>>, 1) IN
  IF p = 0 THEN <<s>> ELSE <<SubSeq(s, 1, p - 1)>> \o Split(From(s, p + 1), byte)

\* The text before the first '=' of s and the text after it.
Name(s) == SubSeq(s, 1, Find(s, <<Equals>>, 1) - 1)
Rest(s) == From(s, Find(s, <<Equals>>, 1) + 1)
HasEquals(s) == Find(s, <<Equals>>, 1) # 0

IsQuoted(s) == Len(s) >= 2 /\ s[1] = Quote /\ s[Len(s)] = Quote
Unquoted(s) == IF IsQuoted(s) THEN SubSeq(s, 2, Len(s) - 1) ELSE s

-----------------------------------------------------------------------------
(* URL encoding *)

Unreserved == (48 .. 57) \cup (65 .. 90) \cup (97 .. 122) \cup {Dash, 46, 95, 126}

HexDigit(v) == IF v < 10 THEN Zero + v ELSE 55 + v

url_encode(s) ==
  FlattenSeq([i \in DOMAIN s |->
    IF s[i] \in Unreserved THEN <<s[i]>>
    ELSE <<Percent, HexDigit(s[i] \div 16), HexDigit(s[i] % 16)>>])

hexval(c) ==
  CASE c \in 48 .. 57  -> c - 48
    [] c \in 97 .. 102 -> c - 87
    [] c \in 65 .. 70  -> c - 55
    [] OTHER           -> -1

\* Mutation: an escape at the very end is not recognized.
BeginsEscapeEarly(s) ==
  s[1] = Percent /\ Len(s) > 3 /\ hexval(s[2]) >= 0 /\ hexval(s[3]) >= 0

BeginsEscape(s) ==
  s[1] = Percent /\ Len(s) >= 3 /\ hexval(s[2]) >= 0 /\ hexval(s[3]) >= 0

\* What is no escape stands for itself.
RECURSIVE url_decode(_)
url_decode(s) ==
  IF s = <<>> THEN <<>>
  ELSE IF BeginsEscape(s)
    THEN <<16 * hexval(s[2]) + hexval(s[3])>> \o url_decode(From(s, 4))
    ELSE <<IF s[1] = Plus THEN Space ELSE s[1]>> \o url_decode(Tail(s))

\* A field without '=' is present with an empty value; one without a name is
\* dropped; of two with one name the later counts.
ParseQueryField(map, field) ==
  LET key == url_decode(IF HasEquals(field) THEN Name(field) ELSE field)
      val == IF HasEquals(field) THEN url_decode(Rest(field)) ELSE <<>> IN
  IF key = <<>> THEN map ELSE Put(map, key, val)

parse_query_string(s) == FoldLeft(ParseQueryField, Empty, Split(s, Amp))

\* build_query, with the pairs in the order in which they are visited.
build_query(pairs) ==
  FlattenSeq([i \in DOMAIN pairs |->
    (IF i = 1 THEN <<>> ELSE <<Amp>>)
      \o url_encode(pairs[i][1]) \o <<Equals>> \o url_encode(pairs[i][2])])

-----------------------------------------------------------------------------
(* Cookies *)

\* trim_ascii_ws takes control characters too.
Control == 0 .. Space

ParseCookie(map, field) ==
  LET segment == Trim(field, Control)
      key == IF HasEquals(segment) THEN Trim(Name(segment), Control) ELSE segment
      val == IF HasEquals(segment) THEN Unquoted(Trim(Rest(segment), Control)) ELSE <<>> IN
  IF key = <<>> THEN map ELSE Put(map, key, val)

parse_cookie_header(s) == FoldLeft(ParseCookie, Empty, Split(s, Semicolon))

-----------------------------------------------------------------------------
(***************************************************************************)
(* Multipart bodies.  A part has one header line, of which only the value  *)
(* of Content-Disposition is written; its attributes name and filename are *)
(* n and f.                                                                *)
(***************************************************************************)
CRLF == <<Return, Newline>>
NameAttr == <<110>>
FileAttr == <<102>>

\* Only a quoted value with nothing behind it is taken, and a ';' ends the
\* segment even between quotes.
Disposition(attrs, segment) ==
  LET val == TrimFront(Rest(segment), Blank) IN
  IF HasEquals(segment) /\ IsQuoted(val)
    THEN Put(attrs, Trim(Name(segment), Blank), Unquoted(val))
    ELSE attrs

Attribute(headers, attr) ==
  LET attrs == FoldLeft(Disposition, Empty, Split(headers, Semicolon)) IN
  IF attr \in DOMAIN attrs THEN attrs[attr] ELSE <<>>

\* A CRLF at the end of the content is cut off, although the one that belongs
\* to the delimiter is not part of it.
Chomp(s) ==
  IF Len(s) >= 2 /\ From(s, Len(s) - 1) = CRLF THEN SubSeq(s, 1, Len(s) - 2) ELSE s

\* The parts up to the closing delimiter, or to what is not a part.
RECURSIVE PartsFrom(_, _, _)
PartsFrom(body, delim, pos) ==
  LET found == Find(body, delim, pos)
      start == found + Len(delim)
      head  == Find(body, CRLF \o CRLF, start + 2)
      end   == Find(body, CRLF \o delim, head + 4)
      headers == SubSeq(body, start + 2, head - 1)
  IN
  IF found = 0 \/ SubSeq(body, start, start + 1) # CRLF \/ head = 0 \/ end = 0
    THEN <<>>
    ELSE <<[name     |-> Attribute(headers, NameAttr),
            filename |-> Attribute(headers, FileAttr),
            content  |-> Chomp(SubSeq(body, head + 4, end - 1))]>>
           \o PartsFrom(body, delim, end + 2)

Delim(boundary) == <<Dash, Dash>> \o boundary

extract_files_from_formdata(body, boundary) == PartsFrom(body, Delim(boundary), 1)

-----------------------------------------------------------------------------
(* Endpoint files: key = value *)

Undefined == <<117>>      \* the key "undefined"

IsComment(line) == line[1] \in {Hash, Semicolon}

\* Mutation: every line without '=' belongs to the key "undefined".
KvLineForgets(acc, raw) ==
  LET line == Trim(raw, White)
      key == IF HasEquals(line) THEN Trim(Name(line), White) ELSE Undefined
      val == Trim(IF HasEquals(line) THEN Rest(line) ELSE line, White)
      old == IF key \in DOMAIN acc.map THEN acc.map[key] ELSE <<>> IN
  IF line = <<>> \/ IsComment(line) THEN acc
  ELSE [map |-> Put(acc.map, key, Append(old, val)), last |-> key]

\* A line without '=' is a further value of the key before it.  out[key] holds
\* one value as a string and more as an array; here it is the list of them.
KvLine(acc, raw) ==
  LET line == Trim(raw, White)
      key == IF HasEquals(line) THEN Trim(Name(line), White) ELSE acc.last
      val == Trim(IF HasEquals(line) THEN Rest(line) ELSE line, White)
      old == IF key \in DOMAIN acc.map THEN acc.map[key] ELSE <<>> IN
  IF line = <<>> \/ IsComment(line) THEN acc
  ELSE [map |-> Put(acc.map, key, Append(old, val)), last |-> key]

load_kv_file(content) ==
  FoldLeft(KvLine, [map |-> Empty, last |-> Undefined], Split(content, Newline)).map
==============================================================================
