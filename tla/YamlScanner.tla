---------------------------- MODULE YamlScanner ----------------------------
(***************************************************************************)
(* The scanner of libyaml (libyaml/src/scanner.c), which reads the         *)
(* subscription files the app imports.  It turns characters into tokens,   *)
(* and finds out late what it has read: `a: b` is a key only when the ':'  *)
(* arrives, so tokens wait in a queue into which KEY and                   *)
(* BLOCK-MAPPING-START are inserted behind the reader's back.              *)
(*                                                                         *)
(* The text is abstracted to lexemes with their place: a lexeme follows on *)
(* the same line or on a later one, at a column.  What a scalar says is    *)
(* left out; whether it runs over a line end, or past the 1024 characters  *)
(* a key may have, is kept.  A scanner is a record, an operator returns    *)
(* the one the C function leaves behind, with error set when it returns 0. *)
(***************************************************************************)
EXTENDS Integers, Sequences, FiniteSets

CONSTANTS MaxCol,   \* the last column block text may start at (bound)
          MaxQueue  \* the longest queue a line is read on with (bound)

ASSUME ScannerAssumption == MaxCol \in Nat \ {0} /\ MaxQueue \in Nat \ {0}

(* A "longQuoted" or "longPlain" scalar runs over a line end or past 1024  *)
(* characters; a "plainLine" has eaten the line end after it as well.  A   *)
(* "customTag" has a handle that only a %TAG directive defines.  "bad" is  *)
(* whatever the scanner refuses: a character that starts no token, an      *)
(* unclosed quote, a malformed directive, a tab used to indent; also a     *)
(* %YAML of a version the parser refuses.                                  *)
Kinds == {"version", "tagDirective", "docStart", "docEnd", "seqStart", "mapStart", "seqEnd",
          "mapEnd", "comma", "dash", "question", "colon", "alias", "anchor", "tag",
          "customTag", "blockScalar", "quoted", "longQuoted", "plain", "longPlain",
          "plainLine", "bad", "end"}

(* A lexeme: its kind, whether it is the first of its line, its column. *)
Lexemes(kinds) == [kind : kinds, newline : BOOLEAN, col : 0..MaxCol]

(* A simple key that is still possible: the place in the queue of the      *)
(* token it would be (token_number - tokens_parsed), its column, and       *)
(* whether it is still on the scanner's line and within 1024 characters.   *)
NoKey == [possible |-> FALSE, required |-> FALSE, number |-> 0, col |-> 0, near |-> TRUE]

(* After yaml_parser_fetch_stream_start. *)
ScannerInit ==
    [tokens |-> << "STREAM-START" >>, indent |-> -1, indents |-> << >>,
     keys |-> << NoKey >>, allowed |-> TRUE, flow |-> 0, error |-> FALSE,
     col |-> 0, next |-> "newline", ended |-> FALSE]

-----------------------------------------------------------------------------
Enqueue(s, token) == [s EXCEPT !.tokens = Append(@, token)]

(* QUEUE_INSERT: with number tokens before it. *)
InsertToken(s, number, token) ==
    [s EXCEPT !.tokens = SubSeq(@, 1, number) \o << token >> \o SubSeq(@, number + 1, Len(@))]

(* SKIP_TOKEN: every number is counted from the head. *)
SkipToken(s) ==
    [s EXCEPT !.tokens = Tail(@),
              !.keys = [i \in DOMAIN s.keys |->
                          [s.keys[i] EXCEPT !.number = IF s.keys[i].possible THEN @ - 1 ELSE @]]]

(* The line has ended, or the text gone on for 1024 characters. *)
LeaveLine(s) ==
    [s EXCEPT !.keys = [i \in DOMAIN @ |-> [@[i] EXCEPT !.near = ~ s.keys[i].possible]]]

yaml_parser_set_scanner_error(s) == [s EXCEPT !.error = TRUE]

(* A key that is no longer on this line is none; a required one is an error. *)
yaml_parser_stale_simple_keys(s) ==
    LET stale == {i \in DOMAIN s.keys : s.keys[i].possible /\ ~ s.keys[i].near}
    IN  [s EXCEPT !.error = @ \/ \E i \in stale : s.keys[i].required,
                  !.keys = [i \in DOMAIN @ |-> IF i \in stale THEN NoKey ELSE @[i]]]

yaml_parser_remove_simple_key(s) ==
    LET top == Len(s.keys)
    IN  [s EXCEPT !.error = @ \/ (s.keys[top].possible /\ s.keys[top].required),
                  !.keys[top] = NoKey]

yaml_parser_save_simple_key(s) ==
    LET key == [possible |-> TRUE, required |-> s.flow = 0 /\ s.indent = s.col,
                number |-> Len(s.tokens), col |-> s.col, near |-> TRUE]
    IN  IF s.allowed
        THEN [yaml_parser_remove_simple_key(s) EXCEPT !.keys[Len(s.keys)] = key] ELSE s

yaml_parser_increase_flow_level(s) ==
    [s EXCEPT !.keys = Append(@, NoKey), !.flow = @ + 1]

yaml_parser_decrease_flow_level(s) ==
    IF s.flow = 0 THEN s
    ELSE [s EXCEPT !.flow = @ - 1, !.keys = SubSeq(@, 1, Len(@) - 1)]

(* yaml_parser_roll_indent, with the token enqueued ... *)
RollIndent(s, token) ==
    IF s.flow > 0 \/ s.indent >= s.col THEN s
    ELSE Enqueue([s EXCEPT !.indents = Append(@, s.indent), !.indent = s.col], token)

(* ... or, for a key found late, inserted before it. *)
RollIndentAt(s, key) ==
    IF s.flow > 0 \/ s.indent >= key.col THEN s
    ELSE InsertToken([s EXCEPT !.indents = Append(@, s.indent), !.indent = key.col],
                     key.number, "BLOCK-MAPPING-START")

(* One BLOCK-END for every indentation deeper than column. *)
yaml_parser_unroll_indent(s, column) ==
    LET all == Append(s.indents, s.indent)
        n == Cardinality({i \in DOMAIN all : all[i] > column})
        left == Len(all) - n
    IN  IF s.flow > 0 \/ n = 0 THEN s
        ELSE [s EXCEPT !.tokens = @ \o [i \in 1..n |-> "BLOCK-END"],
                       !.indent = all[left], !.indents = SubSeq(all, 1, left - 1)]

-----------------------------------------------------------------------------

(* The end forces a new line, which every key that is still open loses. *)
yaml_parser_fetch_stream_end(s) ==
    LET closed == yaml_parser_unroll_indent(LeaveLine(s), -1)
    IN  Enqueue([yaml_parser_remove_simple_key(closed) EXCEPT
                   !.allowed = FALSE, !.ended = TRUE], "STREAM-END")

(* yaml_parser_fetch_directive and yaml_parser_fetch_document_indicator. *)
FetchAtMargin(s, token) ==
    Enqueue([yaml_parser_remove_simple_key(yaml_parser_unroll_indent(s, -1)) EXCEPT
               !.allowed = FALSE], token)

yaml_parser_fetch_flow_collection_start(s, token) ==
    Enqueue([yaml_parser_increase_flow_level(yaml_parser_save_simple_key(s)) EXCEPT
               !.allowed = TRUE], token)

yaml_parser_fetch_flow_collection_end(s, token) ==
    Enqueue([yaml_parser_decrease_flow_level(yaml_parser_remove_simple_key(s)) EXCEPT
               !.allowed = FALSE], token)

yaml_parser_fetch_flow_entry(s) ==
    Enqueue([yaml_parser_remove_simple_key(s) EXCEPT !.allowed = TRUE], "FLOW-ENTRY")

yaml_parser_fetch_block_entry(s) ==
    IF s.flow = 0 /\ ~ s.allowed THEN yaml_parser_set_scanner_error(s)
    ELSE Enqueue([yaml_parser_remove_simple_key(RollIndent(s, "BLOCK-SEQUENCE-START")) EXCEPT
                    !.allowed = TRUE], "BLOCK-ENTRY")

yaml_parser_fetch_key(s) ==
    IF s.flow = 0 /\ ~ s.allowed THEN yaml_parser_set_scanner_error(s)
    ELSE Enqueue([yaml_parser_remove_simple_key(RollIndent(s, "BLOCK-MAPPING-START")) EXCEPT
                    !.allowed = s.flow = 0], "KEY")

(* The ':' that turns what was read before it into a key. *)
yaml_parser_fetch_value(s) ==
    LET top == Len(s.keys)
        key == s.keys[top]
        late == RollIndentAt(InsertToken(s, key.number, "KEY"), key)
    IN  IF key.possible
        THEN Enqueue([late EXCEPT !.keys[top] = NoKey, !.allowed = FALSE], "VALUE")
        ELSE IF s.flow = 0 /\ ~ s.allowed THEN yaml_parser_set_scanner_error(s)
        ELSE Enqueue([RollIndent(s, "BLOCK-MAPPING-START") EXCEPT !.allowed = s.flow = 0],
                     "VALUE")

(* yaml_parser_fetch_anchor and yaml_parser_fetch_tag. *)
FetchProperty(s, token) ==
    Enqueue([yaml_parser_save_simple_key(s) EXCEPT !.allowed = FALSE], token)

yaml_parser_fetch_block_scalar(s) ==
    Enqueue([yaml_parser_remove_simple_key(s) EXCEPT !.allowed = TRUE], "SCALAR")

(* A scalar over a line end, or too long, leaves its key behind. *)
yaml_parser_fetch_flow_scalar(s, long) ==
    LET saved == yaml_parser_save_simple_key(s)
    IN  Enqueue([IF long THEN LeaveLine(saved) ELSE saved EXCEPT !.allowed = FALSE], "SCALAR")

(* Unlike a quoted one, a plain scalar eats the line end that follows it   *)
(* (leading_blanks), and then a key may start, in a flow collection too.   *)
yaml_parser_fetch_plain_scalar(s, long, eatsLine) ==
    [yaml_parser_fetch_flow_scalar(s, long \/ eatsLine) EXCEPT !.allowed = eatsLine]

-----------------------------------------------------------------------------
(* The text that may come next.  Columns on one line rise; in a flow       *)
(* collection, for the end, and for a ':' that ends a key no column counts *)
(* and MaxCol stands for all of them.  A plain scalar goes on until a ':', *)
(* a flow indicator, a comment (and so a new line) or the end.  After a    *)
(* directive, which eats its line end, a "fresh" line begins on which no   *)
(* simple key is allowed until a further line end.  Text that goes on, at  *)
(* a smaller column, after the last line of a quoted scalar is left out:   *)
(* outside flow collections it is an error.                                *)
FlowIndicators == {"seqStart", "mapStart", "seqEnd", "mapEnd", "comma"}

SameLine(s, lex) ==
    /\ s.next # "newline"
    /\ Len(s.tokens) < MaxQueue
    /\ \/ s.next = "fresh" \/ lex.col > s.col
       \/ lex.col = MaxCol
          /\ (s.flow > 0 \/ lex.kind = "end" \/ (lex.kind = "colon" /\ ~ s.allowed))
    /\ s.next = "plain" =>
         lex.kind \in {"colon", "end"} \cup (IF s.flow > 0 THEN FlowIndicators ELSE {})

Follows(s, lex) ==
    /\ lex.newline \/ SameLine(s, lex)
    /\ lex.kind \in {"version", "tagDirective", "docStart", "docEnd", "bad"} =>
         lex.col = 0 /\ (lex.newline \/ s.next = "fresh")
    /\ lex.kind = "end" => lex.col = IF lex.newline THEN 0 ELSE MaxCol
    /\ lex.kind = "blockScalar" => s.flow = 0
    /\ s.flow > 0 => lex.col \in {0, MaxCol}
    /\ s.ended => lex.kind = "end"

(* Where the scanner stands after a lexeme. *)
NextText(kind) ==
    CASE kind \in {"plainLine", "blockScalar"} -> "newline"
      [] kind \in {"version", "tagDirective"} -> "fresh"
      [] kind \in {"plain", "longPlain"} -> "plain"
      [] OTHER -> "any"

(* Blanks, comments and line ends; in the block context a new line may     *)
(* start a simple key.                                                     *)
yaml_parser_scan_to_next_token(s, lex) ==
    LET t == IF lex.newline THEN LeaveLine(s) ELSE s
    IN  [t EXCEPT !.allowed = @ \/ (lex.newline /\ s.flow = 0), !.col = lex.col,
                  !.next = NextText(lex.kind)]

Dispatch(s, kind) ==
    CASE kind = "end" -> yaml_parser_fetch_stream_end(s)
      [] kind = "version" -> FetchAtMargin(s, "VERSION-DIRECTIVE")
      [] kind = "tagDirective" -> FetchAtMargin(s, "TAG-DIRECTIVE")
      [] kind = "docStart" -> FetchAtMargin(s, "DOCUMENT-START")
      [] kind = "docEnd" -> FetchAtMargin(s, "DOCUMENT-END")
      [] kind = "seqStart" -> yaml_parser_fetch_flow_collection_start(s, "FLOW-SEQUENCE-START")
      [] kind = "mapStart" -> yaml_parser_fetch_flow_collection_start(s, "FLOW-MAPPING-START")
      [] kind = "seqEnd" -> yaml_parser_fetch_flow_collection_end(s, "FLOW-SEQUENCE-END")
      [] kind = "mapEnd" -> yaml_parser_fetch_flow_collection_end(s, "FLOW-MAPPING-END")
      [] kind = "comma" -> yaml_parser_fetch_flow_entry(s)
      [] kind = "dash" -> yaml_parser_fetch_block_entry(s)
      [] kind = "question" -> yaml_parser_fetch_key(s)
      [] kind = "colon" -> yaml_parser_fetch_value(s)
      [] kind = "alias" -> FetchProperty(s, "ALIAS")
      [] kind = "anchor" -> FetchProperty(s, "ANCHOR")
      [] kind = "tag" -> FetchProperty(s, "TAG")
      [] kind = "customTag" -> FetchProperty(s, "CUSTOM-TAG")
      [] kind = "blockScalar" -> yaml_parser_fetch_block_scalar(s)
      [] kind \in {"quoted", "longQuoted"} ->
           yaml_parser_fetch_flow_scalar(s, kind = "longQuoted")
      [] kind \in {"plain", "longPlain", "plainLine"} ->
           yaml_parser_fetch_plain_scalar(s, kind = "longPlain", kind = "plainLine")
      [] kind = "bad" -> yaml_parser_set_scanner_error(s)

yaml_parser_fetch_next_token(s, lex) ==
    LET fresh == yaml_parser_stale_simple_keys(yaml_parser_scan_to_next_token(s, lex))
    IN  IF fresh.error THEN fresh
        ELSE Dispatch(yaml_parser_unroll_indent(fresh, lex.col), lex.kind)

MutantHeadHandedOut(s) == s.tokens = << >>

(* yaml_parser_fetch_more_tokens: the head of the queue may not be handed  *)
(* out while it could still turn out to be a key.                          *)
NeedMoreTokens(s) ==
    \/ s.tokens = << >>
    \/ LET fresh == yaml_parser_stale_simple_keys(s)
       IN  ~ fresh.error
           /\ \E i \in DOMAIN fresh.keys : fresh.keys[i].possible /\ fresh.keys[i].number = 0
=============================================================================
