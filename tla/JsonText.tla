------------------------------ MODULE JsonText ------------------------------
(* Printing and parsing of source/platform/cJSON.cxx.  A text is a sequence  *)
(* of tokens, each with its size in bytes: how a string is escaped and how a *)
(* number is written is left out, what is asked of the buffer and of the     *)
(* heap, and when, is not.                                                   *)
EXTENDS JsonTree, SequencesExt

CONSTANTS NestingLimit,  \* CJSON_NESTING_LIMIT
          Width(_)       \* bytes of a string when printed, without its quotes

ASSUME TextAssumption == /\ NestingLimit \in Nat
                         /\ Scalars \subseteq {"null", "true", "false"}

ScalarWidth == [null |-> 4, true |-> 4, false |-> 5]

Quoted(s) == <<"quoted", s>>
Nul == <<"nul">>
Space == {<<" ">>, <<"\t">>, <<"\n">>, Nul}

Size(token) == IF Len(token) = 2 THEN Width(token[2]) + 2
               ELSE IF token[1] \in DOMAIN ScalarWidth THEN ScalarWidth[token[1]] ELSE 1

Bytes(tokens) == FoldLeft(LAMBDA n, token : n + Size(token), 0, tokens)

(***************************************************************************)
(* The print buffer: "text" is what is settled before its offset, "at" the *)
(* bytes of it, and "last" what the next ensure lets write over.  "room" is *)
(* its length, 0 once it is freed, "growth" how many more times memory can *)
(* be had; "overrun" tells of a write behind the end or behind what was    *)
(* asked for.                                                              *)
(***************************************************************************)
Buffer(room, growth, format) ==
  [text |-> <<>>, at |-> 0, last |-> <<>>, room |-> room, growth |-> growth, noalloc |-> FALSE,
   depth |-> 0, format |-> format, ok |-> TRUE, overrun |-> FALSE]

Content(p) == p.text \o p.last

(* Memory is copied up to the offset. *)
ensure(p, needed) ==
  LET enough == p.at + needed + 1 IN
  IF p.room > 0 /\ p.at >= p.room THEN [p EXCEPT !.ok = FALSE]
  ELSE IF enough <= p.room THEN p
  ELSE IF p.noalloc THEN [p EXCEPT !.ok = FALSE]
  ELSE IF p.growth = 0 THEN [p EXCEPT !.ok = FALSE, !.room = 0]
  ELSE [p EXCEPT !.room = 2 * enough, !.growth = @ - 1]

(* Asks for room and writes there, "nul" when a terminating zero follows.    *)
Put(p, needed, tokens, nul) ==
  LET q   == ensure(p, needed)
      end == p.at + Bytes(tokens) + IF nul THEN 1 ELSE 0
  IN  IF ~ p.ok THEN p
      ELSE IF ~ q.ok THEN q
      ELSE [q EXCEPT !.last = tokens,
                     !.overrun = @ \/ end > q.room \/ end > p.at + needed + 1]

update_offset(p) ==
  IF p.ok THEN [p EXCEPT !.text = Content(p), !.at = @ + Bytes(p.last), !.last = <<>>] ELSE p

Write(p, needed, tokens, nul) == update_offset(Put(p, needed, tokens, nul))

WhenFormatted(p, tokens) == IF p.format THEN tokens ELSE <<>>

Deeper(p, d) == [p EXCEPT !.depth = @ + d]

(* Faulty variant: no room is asked for the quotes. *)
print_string_bare(p, s) == Put(p, Width(s) + 1, <<Quoted(s)>>, TRUE)

print_string_ptr(p, s) == Put(p, Width(s) + 3, <<Quoted(s)>>, TRUE)

print_open(p) == Write(p, 1, <<<<"[">>>>, FALSE)

print_comma(p) ==
  LET comma == <<<<",">>>> \o WhenFormatted(p, <<<<" ">>>>)
  IN  Write(p, Len(comma) + 1, comma, TRUE)

RECURSIVE print_value(_, _, _)

print_elements(h, s, p) ==
  FoldLeft(LAMBDA q, i : LET v == update_offset(print_value(h, s[i], q))
                         IN  IF i = Len(s) THEN v ELSE print_comma(v),
           p, [i \in DOMAIN s |-> i])

print_array(h, x, p) ==
  LET all == print_elements(h, Chain[h, h[x].child], Deeper(print_open(p), 1))
  IN  Deeper(Put(all, 2, <<<<"]">>>>, TRUE), -1)

Indent(p) == [i \in 1 .. p.depth |-> <<"\t">>]

print_key(p, key) ==
  LET indented == IF p.format THEN Write(p, p.depth, Indent(p), FALSE) ELSE p
      name     == update_offset(print_string_ptr(indented, key))
      colon    == <<<<":">>>> \o WhenFormatted(p, <<<<"\t">>>>)
  IN  Write(name, Len(colon), colon, FALSE)

print_member(h, x, last, p) ==
  LET key   == IF h[x].key = Null THEN Empty ELSE Text(h, h[x].key)
      value == update_offset(print_value(h, x, print_key(p, key)))
      end   == (IF last THEN <<>> ELSE <<<<",">>>>) \o WhenFormatted(p, <<<<"\n">>>>)
  IN  Write(value, Len(end) + 1, end, TRUE)

print_end(p) ==
  LET close == WhenFormatted(p, Tail(Indent(p))) \o <<<<"}">>>>
  IN  Deeper(Put(p, IF p.format THEN p.depth + 1 ELSE 2, close, TRUE), -1)

print_object(h, x, p) ==
  LET s     == Chain[h, h[x].child]
      brace == <<<<"{">>>> \o WhenFormatted(p, <<<<"\n">>>>)
  IN  print_end(FoldLeft(LAMBDA q, i : print_member(h, s[i], i = Len(s), q),
                         Deeper(Write(p, Len(brace) + 1, brace, FALSE), 1),
                         [i \in DOMAIN s |-> i]))

(* Faulty variant: every scalar asks for the letters of null. *)
print_scalar_as_null(kind, p) == Put(p, 4, <<<<kind>>>>, TRUE)

print_scalar(kind, p) == Put(p, ScalarWidth[kind] + 1, <<<<kind>>>>, TRUE)

print_value(h, x, p) ==
  CASE h[x].kind \in Scalars -> print_scalar(h[x].kind, p)
    [] h[x].kind = "string" -> print_string_ptr(p, Text(h, h[x].str))
    [] h[x].kind = "array"  -> print_array(h, x, p)
    [] h[x].kind = "object" -> print_object(h, x, p)

PrintPreallocated(h, x, length, format) ==
  print_value(h, x, [Buffer(length, 0, format) EXCEPT !.noalloc = TRUE])

PrintBuffered(h, x, prebuffer, growth, format) ==
  print_value(h, x, Buffer(prebuffer, growth, format))

(* The text moves into memory of its own. *)
Settled(p) == IF p.ok /\ p.growth > 0 THEN [ok |-> TRUE, text |-> Append(p.text, Nul)]
              ELSE [ok |-> FALSE, text |-> <<>>]

(* cJSON_Print, with the size its buffer starts from. *)
print(h, x, size, growth, format) ==
  Settled(update_offset(print_value(h, x, Buffer(size, growth, format))))

(***************************************************************************)
(* The parser reads tokens from "at" on and builds on the heap h.          *)
(***************************************************************************)
Token(in) == IF in.at \in DOMAIN in.text THEN in.text[in.at] ELSE <<>>
Is(in, mark) == Token(in) = <<mark>>

Skip(in, n) == [in EXCEPT !.at = @ + n]

(* Stays on the last token when nothing else follows. *)
RECURSIVE skip_whitespace(_)
skip_whitespace(in) ==
  IF Token(in) \notin Space THEN in
  ELSE IF in.at = Len(in.text) THEN in
  ELSE skip_whitespace(Skip(in, 1))

Failed(h, in) == [h |-> h, in |-> in, ok |-> FALSE]

parse_string(h, x, in) ==
  LET s == cJSON_strdup(h, Token(in)[2]) IN
  IF Len(Token(in)) # 2 \/ s.p = Null THEN Failed(h, in)
  ELSE [h |-> [s.h EXCEPT ![x].kind = "string", ![x].str = s.p], in |-> Skip(in, 1), ok |-> TRUE]

RECURSIVE parse_value(_, _, _)

(* A member's name and colon, then its value as for an element. *)
parse_member(h, x, in, named) ==
  LET name  == parse_string(h, x, in)
      colon == skip_whitespace(name.in)
      keyed == [name.h EXCEPT ![x].key = name.h[x].str, ![x].str = Null]
  IN  IF ~ named THEN parse_value(h, x, in)
      ELSE IF ~ name.ok THEN name
      ELSE IF ~ Is(colon, ":") THEN Failed(keyed, colon)
      ELSE parse_value(keyed, x, skip_whitespace(Skip(colon, 1)))

(* Faulty variant: what was parsed so far is not freed on failure. *)
AbandonList(h, head) == h

FreeList(h, head) == Delete[h, head]

(* The elements from "in", at the mark before one, to the closing mark; they *)
(* hang together from head to last, and are all freed on failure.            *)
RECURSIVE parse_list(_, _, _, _, _)
parse_list(h, head, last, in, close) ==
  LET new   == New_Item(h, "invalid")
      first == IF head = Null THEN new.p ELSE head
      g     == IF last = Null THEN new.h ELSE suffix_object(new.h, last, new.p)
      value == parse_member(g, new.p, skip_whitespace(Skip(in, 1)), close = "}")
      after == skip_whitespace(value.in)
  IN  IF new.p = Null THEN Failed(FreeList(h, head), in)
      ELSE IF ~ value.ok THEN Failed(FreeList(value.h, first), value.in)
      ELSE IF Is(after, ",") THEN parse_list(value.h, first, new.p, after, close)
      ELSE IF Is(after, close)
      THEN [h |-> [value.h EXCEPT ![first].prev = new.p], in |-> after, ok |-> TRUE, head |-> first]
      ELSE Failed(FreeList(value.h, first), after)

(* Faulty variant: the depth grows with every array, closed or not. *)
LeaveSinking(in, depth) == Skip(in, 1)

Leave(in, depth) == [Skip(in, 1) EXCEPT !.depth = depth]

Filled(x, kind, list, depth) ==
  IF ~ list.ok THEN Failed(list.h, list.in)
  ELSE [h |-> [list.h EXCEPT ![x].kind = kind, ![x].child = list.head],
        in |-> Leave(list.in, depth), ok |-> TRUE]

parse_group(h, x, in, kind, close) ==
  LET inner == [in EXCEPT !.depth = @ + 1]
      start == skip_whitespace(Skip(inner, 1))
  IN  IF in.depth >= NestingLimit THEN Failed(h, in)
      ELSE Filled(x, kind,
                  IF Is(start, close) THEN [h |-> h, in |-> start, ok |-> TRUE, head |-> Null]
                  ELSE parse_list(h, Null, Null, inner, close),
                  in.depth)

parse_array(h, x, in) == parse_group(h, x, in, "array", "]")
parse_object(h, x, in) == parse_group(h, x, in, "object", "}")

parse_value(h, x, in) ==
  CASE Is(in, "[") -> parse_array(h, x, in)
    [] Is(in, "{") -> parse_object(h, x, in)
    [] Len(Token(in)) = 2 -> parse_string(h, x, in)
    [] \E kind \in Scalars : Is(in, kind) ->
         [h |-> [h EXCEPT ![x].kind = Token(in)[1]], in |-> Skip(in, 1), ok |-> TRUE]
    [] OTHER -> Failed(h, in)

(* With the demand for it only white space is left before the zero. *)
Parsed(p, value, require_null_terminated) ==
  LET more == require_null_terminated /\ ~ Is(skip_whitespace(value.in), "nul") IN
  IF value.ok /\ ~ more THEN [h |-> value.h, p |-> p]
  ELSE [h |-> Delete[value.h, p], p |-> Null]

(* cJSON_Parse of a text that ends in a zero. *)
Parse(h, text, require_null_terminated) ==
  LET new == New_Item(h, "invalid") IN
  IF new.p = Null THEN new
  ELSE Parsed(new.p, parse_value(new.h, new.p,
                                 skip_whitespace([text |-> text, at |-> 1, depth |-> 0])),
              require_null_terminated)
=============================================================================
