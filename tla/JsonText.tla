------------------------------ MODULE JsonText ------------------------------
(***************************************************************************)
(* cJSON_Parse and the printing of items.  A text is a sequence of symbols: *)
(* a byte, a literal or a number, each with the bytes it stands for, or the *)
(* uXXXX of an escape.  The parser works on a heap (JsonHeap), so that what *)
(* it has made is deleted when it fails; the printer works on a buffer of   *)
(* which only the sizes are kept besides the text.                          *)
(***************************************************************************)
EXTENDS JsonHeap

CONSTANTS NumberWidth(_),  \* bytes of a number as print_number writes it
          NestingLimit,    \* CJSON_NESTING_LIMIT
          DefaultBuffer    \* default_buffer_size of print

Ch(n)  == [c |-> "byte", n |-> n]
Lit(w) == [c |-> w, n |-> 0]
Num(d) == [c |-> "number", n |-> d]
U(code) == [c |-> "u", n |-> code]       \* code -1: not four hex digits

Quote == Ch(34)
Backslash == Ch(92)
Comma == Ch(44)
Colon == Ch(58)
OpenA == Ch(91)
CloseA == Ch(93)
OpenO == Ch(123)
CloseO == Ch(125)
Space == Ch(32)
Tab == Ch(9)
Newline == Ch(10)
Nul == Ch(0)

Width(x) == CASE x.c = "number" -> NumberWidth(x.n)
              [] x.c = "u"      -> 5
              [] x.c = "false"  -> 5
              [] x.c \in {"null", "true"} -> 4
              [] OTHER -> 1
RECURSIVE Bytes(_)
Bytes(text) == IF text = <<>> THEN 0 ELSE Width(Head(text)) + Bytes(Tail(text))

(* What the letter after a backslash stands for.                           *)
Escapes == (34 :> 34) @@ (92 :> 92) @@ (8 :> 98) @@ (12 :> 102) @@ (10 :> 110)
           @@ (13 :> 114) @@ (9 :> 116)
Unescapes == [e \in Range(Escapes) |-> CHOOSE b \in DOMAIN Escapes : Escapes[b] = e]
             @@ (47 :> 47)
-----------------------------------------------------------------------------
(* utf16_literal_to_utf8, without the reading of the digits.               *)
Utf8(code) ==
    CASE code < 128   -> <<code>>
      [] code \in 128..2047 -> <<192 + code \div 64, 128 + (code % 64)>>
      [] code \in 2048..65535 ->
           <<224 + code \div 4096, 128 + ((code \div 64) % 64), 128 + (code % 64)>>
      [] OTHER -> <<240 + code \div 262144, 128 + ((code \div 4096) % 64),
                    128 + ((code \div 64) % 64), 128 + (code % 64)>>

HexCode(x) == IF x.n < 0 THEN 0 ELSE x.n

(* The bytes and how many symbols they came from: none when it fails.      *)
Utf16Literal(in) ==
    LET first  == HexCode(in[2])
        second == HexCode(in[4])
        paired == Len(in) >= 4 /\ in[3] = Backslash /\ in[4].c = "u"
                  /\ second \in 56320..57343
    IN CASE first \in 56320..57343 -> [out |-> <<>>, took |-> 0]
         [] first \in 55296..56319 ->
              IF ~paired THEN [out |-> <<>>, took |-> 0]
              ELSE [out |-> Utf8(65536 + ((first % 1024) * 1024) + (second % 1024)), took |-> 4]
         [] OTHER -> [out |-> Utf8(first), took |-> 2]
-----------------------------------------------------------------------------
(* The parser: s is the text, the offset and depth in it, the heap, and     *)
(* whether the last function returned true.                                *)
CanAccess(s) == s.off < Len(s.text)
At(s) == s.text[s.off + 1]
Sees(s, x) == CanAccess(s) /\ At(s) = x
Step(s, n) == [s EXCEPT !.off = @ + n]
Returns(s, ok) == [s EXCEPT !.ok = ok]

RECURSIVE SkipSpace(_)
SkipSpace(s) ==
    CASE ~CanAccess(s) -> s
      [] CanAccess(s) /\ At(s).c = "byte" /\ At(s).n <= 32 ->
           IF s.off + 1 = Len(s.text) THEN s ELSE SkipSpace(Step(s, 1))
      [] OTHER -> s

(* Symbols from i on to the closing quote; 0 when there is none.           *)
RECURSIVE Closing(_, _)
Closing(text, i) ==
    CASE i > Len(text) -> 0
      [] i <= Len(text) /\ text[i] = Quote -> i
      [] i = Len(text) /\ text[i] = Backslash -> 0
      [] OTHER -> Closing(text, IF text[i] = Backslash THEN i + 2 ELSE i + 1)

Unread == [ok |-> FALSE, out |-> <<>>, took |-> 0]
RECURSIVE Unescaped(_)
Unescaped(in) ==
    LET u    == Utf16Literal(in)
        took == IF in[1] # Backslash THEN 1 ELSE IF in[2].c = "u" THEN u.took ELSE 2
        out  == CASE in[1] # Backslash -> <<in[1]>>
                  [] in[1] = Backslash /\ in[2].c = "u" -> [i \in DOMAIN u.out |-> Ch(u.out[i])]
                  [] OTHER -> <<Ch(Unescapes[in[2].n])>>
        bad  == in[1] = Backslash
                /\ ~(in[2].c = "u" /\ u.took > 0)
                /\ ~(in[2].c = "byte" /\ in[2].n \in DOMAIN Unescapes)
        rest == Unescaped(SubSeq(in, took + 1, Len(in)))
    IN IF in = <<>> THEN [Unread EXCEPT !.ok = TRUE]
       ELSE IF bad THEN Unread
       ELSE [ok |-> rest.ok, out |-> out \o rest.out, took |-> took + rest.took]

(* A C string ends at its first zero byte.                                 *)
CString(out) == IF Nul \in Range(out) THEN SubSeq(out, 1, SelectInSeq(out, LAMBDA x : x = Nul) - 1)
                ELSE out

ParseString(s, x) ==
    LET Slashes(in) == Cardinality({i \in DOMAIN in : in[i] = Backslash})
        Stored(k, u, room, close) ==
            IF k.at = NULL THEN Returns(Step(s, 1), FALSE)
            ELSE IF ~u.ok THEN Returns(Step(s, 1 + u.took), FALSE)
            ELSE [s EXCEPT !.h = [k EXCEPT !.items[x].kind = "string", !.items[x].text = k.at],
                           !.wild = @ \/ Bytes(u.out) + 1 > room,
                           !.off = close, !.ok = TRUE]
        Read(u, room, close) == Stored(Strdup(s.h, CString(u.out)), u, room, close)
        Inside(in, close) == Read(Unescaped(in), Bytes(in) + 1 - Slashes(in) + 1, close)
        Until(close) ==
            IF At(s) # Quote \/ close = 0 THEN Returns(Step(s, 1), FALSE)
            ELSE Inside(SubSeq(s.text, s.off + 2, close - 1), close)
    IN IF ~CanAccess(s) THEN [s EXCEPT !.wild = TRUE, !.ok = FALSE]
       ELSE Until(Closing(s.text, s.off + 2))

RECURSIVE ParseValue(_, _)

(* An array, or an object: the members are linked as they are read.        *)
RECURSIVE Members(_, _, _, _, _)
Members(s, x, head, last, isObject) ==
    LET Fail(t, top) == [t EXCEPT !.h = Delete(t.h, top), !.ok = FALSE]
        After(t, m, top) ==
            IF Sees(t, Comma) THEN Members(t, x, top, m, isObject)
            ELSE IF ~Sees(t, IF isObject THEN CloseO ELSE CloseA) THEN Fail(t, top)
            ELSE [t EXCEPT !.h.items[top].prev = m, !.h.items[x].child = top,
                           !.h.items[x].kind = IF isObject THEN "object" ELSE "array",
                           !.depth = @ - 1, !.off = @ + 1, !.ok = TRUE]
        Read(t, m, top)   == IF t.ok THEN After(SkipSpace(t), m, top) ELSE Fail(t, top)
        Value(t, m, top)  == Read(ParseValue(t, m), m, top)
        Second(t, m, top) == IF ~Sees(t, Colon) THEN Fail(t, top)
                             ELSE Value(SkipSpace(Step(t, 1)), m, top)
        \* The name is what parse_string left in valuestring.
        Named(t, m, top) ==
            IF ~t.ok THEN Fail(t, top)
            ELSE Second(SkipSpace([t EXCEPT !.h.items[m].name = t.h.items[m].text,
                                            !.h.items[m].text = NULL]), m, top)
        First(t, m, top) == IF isObject THEN Named(ParseString(t, m), m, top)
                            ELSE Value(t, m, top)
        Linked(n) == IF last = NULL THEN n
                     ELSE [n EXCEPT !.items[last].next = n.at, !.items[n.at].prev = last]
        On(n) == IF n.at = NULL THEN [s EXCEPT !.h = Delete(s.h, head), !.ok = FALSE]
                 ELSE First(SkipSpace(Step([s EXCEPT !.h = Linked(n)], 1)), n.at,
                            IF head = NULL THEN n.at ELSE head)
    IN On(NewItem(s.h, "invalid"))

(* The inside of a list: empty, or the first of its members is next.       *)
ListBegun(s, x, isObject) ==
    LET Inside(t) ==
            IF Sees(t, IF isObject THEN CloseO ELSE CloseA)
            THEN [t EXCEPT !.depth = @ - 1, !.off = @ + 1, !.ok = TRUE,
                           !.h.items[x].kind = IF isObject THEN "object" ELSE "array"]
            ELSE IF CanAccess(t) THEN Members(Step(t, -1), x, NULL, NULL, isObject)
            ELSE Returns(Step(t, -1), FALSE)
    IN Inside(SkipSpace(Step([s EXCEPT !.depth = @ + 1], 1)))

(* Wrong: one level too deep.                                              *)
ParseListDeeper(s, x, isObject) ==
    IF s.depth > NestingLimit THEN Returns(s, FALSE) ELSE ListBegun(s, x, isObject)

ParseList(s, x, isObject) ==
    IF s.depth >= NestingLimit THEN Returns(s, FALSE) ELSE ListBegun(s, x, isObject)

ParseValue(s, x) ==
    CASE ~CanAccess(s) -> Returns(s, FALSE)
      [] CanAccess(s) /\ At(s).c \in {"null", "false", "true"} ->
           [s EXCEPT !.h.items[x].kind = At(s).c, !.h.items[x].i = IF At(s).c = "true" THEN 1 ELSE 0,
                     !.off = @ + 1, !.ok = TRUE]
      [] CanAccess(s) /\ At(s).c = "number" ->
           [s EXCEPT !.h.items[x].kind = "number", !.h.items[x].d = At(s).n,
                     !.h.items[x].i = Saturated(At(s).n), !.off = @ + 1, !.ok = TRUE]
      [] Sees(s, Quote) -> ParseString(s, x)
      [] Sees(s, OpenA) -> ParseList(s, x, FALSE)
      [] Sees(s, OpenO) -> ParseList(s, x, TRUE)
      [] OTHER -> Returns(s, FALSE)

(* cJSON_Parse: the text with its zero byte; the item, or NULL and where    *)
(* it went wrong.                                                          *)
Parse(h, text) ==
    LET Where(s) == IF s.off < Len(s.text) THEN s.off ELSE Len(s.text) - 1
        Result(s, x) ==
            IF s.ok THEN [h |-> Gives(s.h, x), error |-> 0, wild |-> s.wild]
            ELSE [h |-> Fails(s.h, x), error |-> Where(s), wild |-> s.wild]
        Into(n) ==
            IF n.at = NULL THEN [h |-> n, error |-> 0, wild |-> FALSE]
            ELSE Result(ParseValue(SkipSpace([text |-> Append(text, Nul), off |-> 0, depth |-> 0,
                                              h |-> n, ok |-> TRUE, wild |-> FALSE]), n.at), n.at)
    IN Into(NewItem(h, "invalid"))
-----------------------------------------------------------------------------
(* The print buffer: its length, the text written so far, whether it may    *)
(* grow and how often, and whether a write went past its end (wild).        *)
Buffer(len, noalloc, format, left) ==
    [len |-> len, off |-> 0, out |-> <<>>, noalloc |-> noalloc, format |-> format, depth |-> 0,
     left |-> left, ok |-> TRUE, wild |-> FALSE]

NewSize(needed) == IF needed > IntMax \div 2 THEN IntMax ELSE 2 * needed

Ensure(p, n) ==
    LET needed == n + p.off + 1
    IN IF ~p.ok \/ (p.len > 0 /\ p.off >= p.len) \/ n > IntMax THEN Returns(p, FALSE)
       ELSE IF needed <= p.len THEN p
       ELSE IF p.noalloc \/ needed > IntMax \/ p.left = 0 THEN Returns(p, FALSE)
       ELSE [p EXCEPT !.len = NewSize(needed), !.left = @ - 1]

(* ensure, then write; a zero byte follows when ended.                     *)
Write(p, n, syms, ended) ==
    LET end == p.off + Bytes(syms)
        To(q) == IF ~q.ok THEN q
                 ELSE [q EXCEPT !.out = @ \o syms, !.off = end,
                                !.wild = @ \/ end + (IF ended THEN 1 ELSE 0) > q.len]
    IN To(Ensure(p, n))

RECURSIVE Escaped(_)
Escaped(s) ==
    LET x   == Head(s)
        one == IF x.c # "byte" THEN <<x>>
               ELSE IF x.n \in DOMAIN Escapes THEN <<Backslash, Ch(Escapes[x.n])>>
               ELSE IF x.n < 32 THEN <<Backslash, U(x.n)>> ELSE <<x>>
    IN IF s = <<>> THEN <<>> ELSE one \o Escaped(Tail(s))

(* Wrong: every escape is taken for one of two characters.                 *)
EscapeCountOne(s) ==
    Cardinality({i \in DOMAIN s : s[i].c = "byte" /\ (s[i].n < 32 \/ s[i].n \in DOMAIN Escapes)})

(* The additional characters that print_string_ptr counts for escaping.    *)
EscapeCount(s) ==
    LET short == {i \in DOMAIN s : s[i].c = "byte" /\ s[i].n \in DOMAIN Escapes}
        long  == {i \in DOMAIN s : s[i].c = "byte" /\ s[i].n < 32} \ short
    IN Cardinality(short) + 5 * Cardinality(long)

PrintString(p, s) ==
    Write(p, Bytes(s) + EscapeCount(s) + 3, <<Quote>> \o Escaped(s) \o <<Quote>>, TRUE)

Tabs(n) == [i \in 1..n |-> Tab]

RECURSIVE PrintValue(_, _, _), PrintMembers(_, _, _), PrintPairs(_, _, _)
PrintMembers(p, h, xs) ==
    LET Separated(v) == IF p.format THEN Write(v, 3, <<Comma, Space>>, TRUE)
                     ELSE Write(v, 2, <<Comma>>, TRUE)
        After(v)  == PrintMembers(IF Len(xs) > 1 THEN Separated(v) ELSE v, h, Tail(xs))
    IN IF xs = <<>> \/ ~p.ok THEN p ELSE After(PrintValue(p, h, Head(xs)))

PrintPairs(p, h, xs) ==
    LET it  == Item(h, Head(xs))
        end == (IF Len(xs) > 1 THEN <<Comma>> ELSE <<>>)
               \o (IF p.format THEN <<Newline>> ELSE <<>>)
        After(q)  == PrintPairs(Write(q, Len(end) + 1, end, TRUE), h, Tail(xs))
        Value(q)  == After(IF q.ok THEN PrintValue(q, h, Head(xs)) ELSE q)
        Second(q) == Value(IF p.format THEN Write(q, 2, <<Colon, Tab>>, FALSE)
                           ELSE Write(q, 1, <<Colon>>, FALSE))
        Name(q)    == Second(IF it.name = NULL THEN Write(q, 3, <<Quote, Quote>>, TRUE)
                            ELSE IF q.ok THEN PrintString(q, StrAt(h, it.name)) ELSE q)
    IN IF xs = <<>> \/ ~p.ok THEN p
       ELSE Name(IF p.format THEN Write(p, p.depth, Tabs(p.depth), FALSE) ELSE p)

PrintValue(p, h, x) ==
    LET it == Item(h, x)
        Deeper(q)    == [q EXCEPT !.depth = @ + 1]
        Shallower(q) == [q EXCEPT !.depth = @ - 1]
        Brace == IF p.format THEN Write(p, 3, <<OpenO, Newline>>, FALSE)
                 ELSE Write(p, 2, <<OpenO>>, FALSE)
        Closed(q) == IF p.format
                     THEN Write(q, q.depth + 1, Append(Tabs(q.depth - 1), CloseO), TRUE)
                     ELSE Write(q, 2, <<CloseO>>, TRUE)
    IN CASE it.kind \in {"null", "true", "false"} ->
              Write(p, Width(Lit(it.kind)) + 1, <<Lit(it.kind)>>, TRUE)
         [] it.kind = "number" -> Write(p, NumberWidth(it.d) + 1, <<Num(it.d)>>, TRUE)
         [] it.kind = "string" ->
              IF it.text = NULL THEN Write(p, 3, <<Quote, Quote>>, TRUE)
              ELSE PrintString(p, StrAt(h, it.text))
         [] it.kind = "array" ->
              Shallower(Write(PrintMembers(Deeper(Write(p, 1, <<OpenA>>, FALSE)), h, Kids(h, x)),
                              2, <<CloseA>>, TRUE))
         [] it.kind = "object" -> Shallower(Closed(PrintPairs(Deeper(Brace), h, Kids(h, x))))

PrintItem(h, x, format, left) == PrintValue(Buffer(DefaultBuffer, FALSE, format, left), h, x)
PrintBuffered(h, x, size, format, left) == PrintValue(Buffer(size, FALSE, format, left), h, x)
PrintPreallocated(h, x, size, format) == PrintValue(Buffer(size, TRUE, format, 0), h, x)
=============================================================================
