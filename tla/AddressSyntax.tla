--------------------------- MODULE AddressSyntax ---------------------------
(***************************************************************************)
(* The syntax of an address argument (internal/parse): TYPE:param:...,     *)
(* option=value,... and left!!right, with backslash escapes, two kinds of  *)
(* quotes and nesting brackets.  Text is a sequence of symbols; a keyword  *)
(* is one symbol.  An address is written down in one of four styles and    *)
(* parsed again, whole or with its last symbol missing.                    *)
(***************************************************************************)
EXTENDS Naturals, Sequences, SequencesExt, FiniteSets, FiniteSetsExt

CONSTANTS
    Symbols,        \* what a parameter or a value is made of
    MaxSymbols      \* in all parameters and values of an address together

VARIABLES
    address,        \* the address, or the two of a dual one
    style,          \* how it is written: "escape", "hex", "double", "single"
    cut,            \* is the last symbol missing?
    result,         \* what ParseChannel returned
    pc              \* "text" or "parsed"

vars == <<address, style, cut, result, pc>>

Error == <<"error">>      \* of unquote
Letters == {"a", "x"}
NamedEscapes == [c \in {"a", "0"} |-> IF c = "a" THEN "BEL" ELSE "NUL"]
Hex(d) == IF d = <<"0", "7">> THEN "BEL" ELSE "other"
HexDigits == {"0", "7", "a"}

----------------------------------------------------------------------------
(* SpecScanner *)

Opening == <<"(", "[", "{">>
Closing == <<")", "]", "}">>

Start == [single |-> FALSE, double |-> FALSE, esc |-> FALSE,
          depth |-> [k \in 1 .. 3 |-> 0], cls |-> <<>>]

Step(sc, c, trackNesting) ==
    LET to(class) == [sc EXCEPT !.cls = Append(@, class)]
        closed == \A k \in 1 .. 3 : sc.depth[k] = 0
        plain == ~sc.esc /\ ~sc.single /\ ~sc.double /\ c # "\\"
    IN
    CASE sc.esc -> [to("skip") EXCEPT !.esc = FALSE]
      [] ~sc.esc /\ c = "\\" /\ ~sc.single -> [to("skip") EXCEPT !.esc = TRUE]
      [] sc.single /\ ~sc.esc -> [to(IF c = "'" THEN "delim" ELSE "skip") EXCEPT !.single = c # "'"]
      [] sc.double /\ ~sc.esc /\ c # "\\" ->
            [to(IF c = "\"" THEN "delim" ELSE "skip") EXCEPT !.double = c # "\""]
      [] plain /\ c = "'" -> [to("delim") EXCEPT !.single = TRUE]
      [] plain /\ c = "\"" -> [to("delim") EXCEPT !.double = TRUE]
      [] plain /\ trackNesting /\ Contains(Opening, c) ->
            [to("skip") EXCEPT !.depth[SelectInSeq(Opening, LAMBDA o : o = c)] = @ + 1]
      [] plain /\ trackNesting /\ Contains(Closing, c) ->
            [to("skip") EXCEPT !.depth[SelectInSeq(Closing, LAMBDA o : o = c)] = IF @ > 0 THEN @ - 1 ELSE 0]
      [] OTHER -> to(IF trackNesting /\ ~closed THEN "skip" ELSE "top")

Scan(s, trackNesting) ==
    LET at[i \in 0 .. Len(s)] == IF i = 0 THEN Start ELSE Step(at[i - 1], s[i], trackNesting)
    IN  at[Len(s)]

\* Where sep stands at the top level.
Tops(s, sep, trackNesting) ==
    LET cls == Scan(s, trackNesting).cls IN {i \in DOMAIN s : s[i] = sep /\ cls[i] = "top"}

FirstOf(at) == IF at = {} THEN 0 ELSE CHOOSE i \in at : \A j \in at : i <= j
FindTop(s, sep) == FirstOf(Tops(s, sep, TRUE))

checkBalancedQuotes(s) == LET sc == Scan(s, FALSE) IN ~sc.single /\ ~sc.double

Pieces(s, cuts) ==
    LET ends == SetToSortSeq(cuts \cup {Len(s) + 1}, <) IN
    [k \in DOMAIN ends |-> SubSeq(s, IF k = 1 THEN 1 ELSE ends[k - 1] + 1, ends[k] - 1)]

----------------------------------------------------------------------------
(* unquote *)

escapedByte(s, i) ==
    LET run == {j \in 1 .. i - 1 : \A k \in j .. i - 1 : s[k] = "\\"} IN Cardinality(run) % 2 = 1

\* Trailing blanks dropped, escaped or not (mutant).
trimUnescapedSpaceAll(s) ==
    LET kept == {i \in DOMAIN s : s[i] # " "}
    IN  IF kept = {} THEN <<>> ELSE SubSeq(s, Min(kept), Max(kept))

trimUnescapedSpace(s) ==
    IF \A i \in DOMAIN s : s[i] = " " THEN <<>>
    ELSE LET start == CHOOSE i \in DOMAIN s : s[i] # " " /\ \A j \in 1 .. i - 1 : s[j] = " "
             end == CHOOSE i \in DOMAIN s : /\ s[i] # " " \/ escapedByte(s, i)
                                            /\ \A j \in i + 1 .. Len(s) : s[j] = " " /\ ~escapedByte(s, j)
         IN  SubSeq(s, start, end)

stripNestingQuotes(s) ==
    LET cls == Scan(s, FALSE).cls
        kept == SelectSeq([i \in DOMAIN s |-> i], LAMBDA i : cls[i] # "delim")
    IN  [k \in DOMAIN kept |-> s[kept[k]]]

\* One symbol of expandSlashEscapes; need counts what is missing of an escape.
Expand(st, c) ==
    CASE st.need = 0 /\ c = "\\" -> [st EXCEPT !.need = 1]
      [] st.need = 0 /\ c # "\\" -> [st EXCEPT !.out = Append(@, c)]
      [] st.need = 1 /\ c = "x" -> [st EXCEPT !.need = 3]
      [] st.need = 1 /\ c # "x" ->
            [st EXCEPT !.need = 0,
                       !.out = Append(@, IF c \in DOMAIN NamedEscapes THEN NamedEscapes[c] ELSE c)]
      [] st.need = 3 -> [st EXCEPT !.need = 2, !.digit = c, !.bad = @ \/ c \notin HexDigits]
      [] st.need = 2 -> [st EXCEPT !.need = 0, !.bad = @ \/ c \notin HexDigits,
                                   !.out = Append(@, Hex(<<st.digit, c>>))]

expandSlashEscapes(s) ==
    LET nothing == [need |-> 0, digit |-> "0", out |-> <<>>, bad |-> FALSE]
        at[i \in 0 .. Len(s)] == IF i = 0 THEN nothing ELSE Expand(at[i - 1], s[i])
        st == at[Len(s)]
    IN  IF st.bad \/ st.need # 0 THEN Error ELSE st.out

hasWindowsVolume(s) ==
    /\ Len(s) >= 2
    /\ (s[1] \in Letters /\ s[2] = ":") \/ (s[1] = "\\" /\ s[2] = "\\")

Enclosed(s) == Len(s) >= 2 /\ s[1] \in {"'", "\""} /\ s[Len(s)] = s[1]

unquote(raw, pathValue) ==
    LET s == trimUnescapedSpace(raw)
        bare == IF Enclosed(s) THEN SubSeq(s, 2, Len(s) - 1) ELSE stripNestingQuotes(s)
    IN  IF pathValue /\ hasWindowsVolume(bare) THEN bare ELSE expandSlashEscapes(bare)

----------------------------------------------------------------------------
(* ParseChannel *)

\* How many parameters come before the raw address data; 0 if there is none.
socketDataIndex(typ) == CASE typ = "SOCKET-CONNECT" -> 2 [] typ = "SOCKET-SENDTO" -> 3 [] OTHER -> 0
pathParamType(typ) == typ \in {"OPEN", "GOPEN"}

isWindowsDriveColon(s, i, tops) ==
    /\ i > 1 /\ i < Len(s)
    /\ s[i - 1] \in Letters
    /\ i = 2 \/ i - 2 \in tops
    /\ s[i + 1] \in {"\\", "/"}

splitColonParams(s, pathParam, data) ==
    LET tops == IF pathParam THEN {} ELSE Tops(s, ":", data = 0)
        parts == Pieces(s, {i \in tops : ~isWindowsDriveColon(s, i, tops)})
    IN  [k \in DOMAIN parts |-> IF data > 0 /\ k > data THEN parts[k] ELSE unquote(parts[k], pathParam)]

parseOption(s) ==
    LET eq == FindTop(s, "=") IN
    IF eq = 0 THEN [name |-> s, has |-> FALSE, value |-> <<>>]
    ELSE [name |-> SubSeq(s, 1, eq - 1), has |-> TRUE, value |-> unquote(SubSeq(s, eq + 1, Len(s)), FALSE)]

splitOptions(s) ==
    LET parts == Pieces(s, Tops(s, ",", TRUE))
        trimmed == [k \in DOMAIN parts |-> trimUnescapedSpace(parts[k])]
        named == SelectSeq(trimmed, LAMBDA p : p # <<>>)
    IN  [k \in DOMAIN named |-> parseOption(named[k])]

\* The parsed address, nothing if a part of it cannot be read.
NewSpec(typ, params, opts) ==
    IF (\E k \in DOMAIN params : params[k] = Error) \/ (\E k \in DOMAIN opts : opts[k].value = Error)
    THEN <<>> ELSE <<[typ |-> typ, params |-> params, opts |-> opts]>>

\* splitParamsAndOptions; hadColon makes nothing one empty parameter.
Split(typ, s, pathParam, data, hadColon) ==
    LET comma == FindTop(s, ",")
        paramPart == IF comma = 0 THEN s ELSE SubSeq(s, 1, comma - 1)
        optPart == IF comma = 0 THEN <<>> ELSE SubSeq(s, comma + 1, Len(s))
    IN  NewSpec(typ, IF paramPart # <<>> THEN splitColonParams(paramPart, pathParam, data)
                  ELSE IF hadColon THEN << <<>> >> ELSE <<>>,
             splitOptions(optPart))

looksLikePath(s) ==
    \/ hasWindowsVolume(s)
    \/ \E i \in DOMAIN s : s[i] = "/" /\ \A j \in 1 .. i - 1 : s[j] \notin {"\\", ":", ","}

splitType(s) ==
    FirstOf({i \in DOMAIN s : s[i] \in {":", ","}} \cup {Len(s) + 1})

\* What stands before the parameters, a colon included, and the type it means.
Prefix(s) ==
    IF s[1] = "-" /\ (Len(s) = 1 \/ s[2] = ",") THEN [typ |-> "STDIO", len |-> 1, hadColon |-> FALSE]
    ELSE IF looksLikePath(s) THEN [typ |-> "GOPEN", len |-> 0, hadColon |-> TRUE]
    ELSE LET end == splitType(s)
             hadColon == end <= Len(s) /\ s[end] = ":"
         IN  [typ |-> IF end = 1 THEN "" ELSE s[1], len |-> IF hadColon THEN end ELSE end - 1,
              hadColon |-> hadColon]

ParseSpec(raw) ==
    LET s == trimUnescapedSpace(raw) IN
    IF s = <<>> \/ ~checkBalancedQuotes(s) THEN <<>>
    ELSE IF \A i \in DOMAIN s : s[i] \in {"0", "7"} THEN NewSpec("FD", <<s>>, <<>>)
    ELSE LET p == Prefix(s) IN
         IF p.typ = "" THEN <<>>
         ELSE Split(p.typ, SubSeq(s, p.len + 1, Len(s)), pathParamType(p.typ), socketDataIndex(p.typ), p.hadColon)

splitDual(s) ==
    LET at == {i \in Tops(s, "!", TRUE) : i < Len(s) /\ s[i + 1] = "!"} IN FirstOf(at)

ParseChannel(raw) ==
    LET s == trimUnescapedSpace(raw)
        bang == splitDual(s)
        sides == IF bang = 0 THEN <<s>> ELSE <<SubSeq(s, 1, bang - 1), SubSeq(s, bang + 2, Len(s))>>
        specs == [k \in DOMAIN sides |-> ParseSpec(sides[k])]
    IN  IF \E k \in DOMAIN specs : specs[k] = <<>> THEN <<>> ELSE FlattenSeq(specs)

----------------------------------------------------------------------------
(* Writing an address down *)

Special(c) == c \notin Letters \cup {"/", "0", "7"}

Escaped(c) ==
    CASE c = "BEL" -> IF style = "hex" THEN <<"\\", "x", "0", "7">> ELSE <<"\\", "a">>
      [] c # "BEL" /\ Special(c) -> <<"\\", c>>
      [] OTHER -> <<c>>

InQuotes(c, q) ==
    IF c = "BEL" THEN <<"\\", "a">>
    ELSE IF c = "\\" \/ (c = q /\ q = "\"") THEN <<"\\", c>> ELSE <<c>>

Written(f) ==
    CASE style \in {"escape", "hex"} -> FlattenSeq([i \in DOMAIN f |-> Escaped(f[i])])
      [] style = "double" -> <<"\"">> \o FlattenSeq([i \in DOMAIN f |-> InQuotes(f[i], "\"")]) \o <<"\"">>
      [] style = "single" -> <<"'">> \o FlattenSeq([i \in DOMAIN f |-> InQuotes(f[i], "'")]) \o <<"'">>

Head1(a) ==
    CASE a.typ = "STDIO" -> <<"-">>
      [] a.typ = "FD" -> a.params[1]
      [] a.typ = "GOPEN" -> <<"/">> \o FlattenSeq([i \in DOMAIN a.params[1] |-> Escaped(a.params[1][i])])
      [] OTHER -> <<a.typ>> \o FlattenSeq([k \in DOMAIN a.params |-> <<":">> \o Written(a.params[k])])

Text1(a) ==
    Head1(a) \o FlattenSeq([k \in DOMAIN a.opts |->
        <<",">> \o a.opts[k].name \o (IF a.opts[k].has THEN <<"=">> \o Written(a.opts[k].value) ELSE <<>>)])

Text == IF Len(address) = 1 THEN Text1(address[1]) ELSE Text1(address[1]) \o <<"!", "!">> \o Text1(address[2])

\* What the parser is to return: SOCKET address data stays as it is written.
Meaning(a) ==
    [a EXCEPT !.params = [k \in DOMAIN a.params |->
        CASE socketDataIndex(a.typ) \in 1 .. k - 1 -> Written(a.params[k])
          [] a.typ = "GOPEN" -> <<"/">> \o a.params[k]
          [] OTHER -> a.params[k]]]

Fields(n) == BoundedSeq(Symbols, n)
Option(value) == [name |-> <<"opt">>, has |-> TRUE, value |-> value]
Flag == [name |-> <<"opt">>, has |-> FALSE, value |-> <<>>]

\* All ways to cut a word of at most MaxSymbols symbols into n fields.
FieldLists(n) ==
    UNION {{[k \in 1 .. n |-> SubSeq(w, (IF k = 1 THEN 0 ELSE at[k - 1]) + 1, IF k = n THEN Len(w) ELSE at[k])] :
              at \in {c \in [1 .. n - 1 -> 0 .. Len(w)] : \A k \in 2 .. n - 1 : c[k - 1] <= c[k]}} :
              w \in Fields(MaxSymbols)}

Shape(typ, nparams, nopts) ==
    {[typ |-> typ, params |-> SubSeq(fs, 1, nparams),
      opts |-> [k \in 1 .. nopts |-> IF k = 2 THEN Flag ELSE Option(fs[nparams + k])]] :
        fs \in IF nparams + nopts = 0 THEN {<<>>} ELSE FieldLists(nparams + (IF nopts > 1 THEN 1 ELSE nopts))}

Addresses ==
    UNION {Shape("TCP", p, o) : p \in 0 .. 2, o \in 0 .. 2} \cup Shape("OPEN", 1, 1)
    \cup Shape("GOPEN", 1, 0) \cup Shape("STDIO", 0, 1)
    \cup {[typ |-> "SOCKET-CONNECT", params |-> << <<"7">>, <<>>, f>>, opts |-> <<Flag>>] : f \in Fields(MaxSymbols)}
    \cup {[typ |-> "SOCKET-SENDTO", params |-> << <<"7">>, <<"a">>, <<"7">>, f>>, opts |-> <<Flag>>] : f \in Fields(1)}
    \cup {[typ |-> "FD", params |-> << <<"7">> >>, opts |-> <<>>]}

Init ==
    /\ address \in {<<a>> : a \in Addresses}
                   \cup {<<[typ |-> "STDIO", params |-> <<>>, opts |-> <<Flag>>], a>> : a \in Shape("TCP", 1, 0)}
                   \cup {<<a, [typ |-> "STDIO", params |-> <<>>, opts |-> <<Flag>>]>> : a \in Shape("TCP", 1, 1)}
    /\ style \in {"escape", "hex", "double", "single"}
    /\ cut \in IF Len(address) = 1 THEN BOOLEAN ELSE {FALSE}
    /\ result = <<>>
    /\ pc = "text"

Parse ==
    /\ pc = "text"
    /\ result' = ParseChannel(IF cut THEN SubSeq(Text, 1, Len(Text) - 1) ELSE Text)
    /\ pc' = "parsed"
    /\ UNCHANGED <<address, style, cut>>

Next == Parse

SyntaxSpec == Init /\ [][Next]_vars

----------------------------------------------------------------------------

\* What the parser takes for a Windows path also on Unix: a path that begins like a
\* drive or a UNC name, and a parameter of one letter before one that begins with a
\* backslash or a slash.  A single quote cannot be written inside single quotes.
DriveLike(a) ==
    \/ /\ a.typ = "OPEN"
       /\ LET w == Written(a.params[1])
          IN  hasWindowsVolume(IF Enclosed(w) THEN SubSeq(w, 2, Len(w) - 1) ELSE w)
    \/ \E k \in 1 .. Len(a.params) - 1 :
          /\ a.typ = "TCP" /\ Len(a.params[k]) = 1 /\ a.params[k][1] \in Letters
          /\ LET w == Written(a.params[k + 1]) IN w # <<>> /\ w[1] \in {"\\", "/"}

Unwritable(a) ==
    LET has(f) == Contains(f, "'") IN
    style = "single" /\ ((\E k \in DOMAIN a.params : has(a.params[k])) \/ (\E k \in DOMAIN a.opts : has(a.opts[k].value)))

Judged == pc = "parsed" /\ \A k \in DOMAIN address : ~DriveLike(address[k]) /\ ~Unwritable(address[k])

\* Does the text end with an escape or a quoted field, so that its last symbol is
\* the end of something begun?
EndsInside ==
    LET a == Last(address)
        f == IF a.opts # <<>> THEN Last(a.opts).value ELSE IF a.params # <<>> THEN Last(a.params) ELSE <<>>
        flag == a.opts # <<>> /\ ~Last(a.opts).has
        escapes == style \in {"escape", "hex"} \/ a.typ = "GOPEN"
    IN  /\ ~flag /\ a.typ # "FD" /\ a.opts \o a.params # <<>>
        /\ IF escapes THEN f # <<>> /\ Special(Last(f)) ELSE TRUE

\* An address written with escapes or in quotes is read back as it was meant, whatever
\* separators, quotes, brackets, blanks and backslashes its parameters and values hold;
\* one that breaks off inside an escape or a quote is refused, not read as a shorter one.
ReadBack ==
    Judged => IF cut THEN EndsInside => result = <<>>
              ELSE result = [k \in DOMAIN address |-> Meaning(address[k])]
=============================================================================
