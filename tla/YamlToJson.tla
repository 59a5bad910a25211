----------------------------- MODULE YamlToJson -----------------------------
(***************************************************************************)
(* Importing a subscription: yaml_jni_bridge.c asks libyaml for one event  *)
(* after another and writes JSON, which ClashProxyParser reads.  Here the  *)
(* scanner (YamlScanner), the parser (YamlParser) and the bridge run       *)
(* together over every text, of any length, that fits the bounds on        *)
(* columns, nesting and line length.  The text is chosen lexeme by lexeme  *)
(* when the scanner asks for it.                                           *)
(***************************************************************************)
EXTENDS YamlScanner, YamlParser

CONSTANTS MAX_DEPTH,  \* of the bridge's context stack, 128 in the code
          Files       \* the sets of kinds of text a file may be made of (bound)

ASSUME BridgeAssumption == MAX_DEPTH \in Nat /\ \A file \in Files : file \subseteq Kinds

VARIABLES file, \* the kinds of text in this file
          sc,   \* the scanner
          ps,   \* the parser
          js    \* the bridge: context stack, result, and what it has written
vars == << file, sc, ps, js >>

-----------------------------------------------------------------------------
(* The JSON written so far, read by a reference acceptor: what may come    *)
(* next, and the brackets that are open, with the tokens' names of RFC     *)
(* 8259.  "first" is a value or ']', "firstKey" a key or '}', "after" a    *)
(* ',' or a closing bracket.                                               *)
NoJson == [want |-> "value", open |-> << >>]

Top(seq) == IF seq = << >> THEN "none" ELSE seq[Len(seq)]

Opened(j, c) ==
    IF j.want \in {"value", "first"}
    THEN [want |-> IF c = "begin-object" THEN "firstKey" ELSE "first", open |-> Append(j.open, c)]
    ELSE [j EXCEPT !.want = "bad"]

ValueDone(open) == [want |-> IF open = << >> THEN "done" ELSE "after", open |-> open]

Closed(j, bracket, first) ==
    IF Top(j.open) = bracket /\ j.want \in {"after", first}
    THEN ValueDone(SubSeq(j.open, 1, Len(j.open) - 1)) ELSE [j EXCEPT !.want = "bad"]

Accept(j, c) ==
    CASE c \in {"begin-object", "begin-array"} -> Opened(j, c)
      [] c = "end-object" -> Closed(j, "begin-object", "firstKey")
      [] c = "end-array" -> Closed(j, "begin-array", "first")
      [] c = "value-separator" ->
           [j EXCEPT !.want = IF @ # "after" THEN "bad"
                              ELSE IF Top(j.open) = "begin-object" THEN "key" ELSE "value"]
      [] c = "name-separator" -> [j EXCEPT !.want = IF @ = "colon" THEN "value" ELSE "bad"]
      [] c \in {"string", "null"} ->
           IF j.want \in {"value", "first"} THEN ValueDone(j.open)
           ELSE [j EXCEPT !.want =
                   IF c = "string" /\ @ \in {"key", "firstKey"} THEN "colon" ELSE "bad"]

-----------------------------------------------------------------------------
(* more: the frame's count is above 0. *)
BridgeInit == [ctx |-> << >>, json |-> NoJson, result |-> "none", plain |-> TRUE, idle |-> 0]

context_top(b) == IF b.ctx = << >> THEN [type |-> "CTX_NONE", more |-> FALSE]
                  ELSE b.ctx[Len(b.ctx)]

Write(b, c) == IF b.plain THEN [b EXCEPT !.json = Accept(@, c)] ELSE b
Fail(b) == [b EXCEPT !.result = "error"]

context_push(b, type) ==
    IF Len(b.ctx) >= MAX_DEPTH THEN Fail(b)
    ELSE [b EXCEPT !.ctx = Append(@, [type |-> type, more |-> FALSE])]

context_pop(b) == [b EXCEPT !.ctx = IF @ = << >> THEN @ ELSE SubSeq(@, 1, Len(@) - 1)]

MutantNoComma(b) ==
    IF context_top(b).type = "CTX_MAPPING_VALUE" THEN Write(b, "name-separator") ELSE b

emit_separator(b) ==
    LET top == context_top(b)
    IN  CASE top.type = "CTX_MAPPING_VALUE" -> Write(b, "name-separator")
          [] top.type \in {"CTX_MAPPING_KEY", "CTX_SEQUENCE"} /\ top.more ->
               Write(b, "value-separator")
          [] OTHER -> b

MutantKeyNotResumed(b) ==
    LET n == Len(b.ctx)
    IN  IF context_top(b).type = "CTX_MAPPING_KEY"
        THEN [b EXCEPT !.ctx[n].type = "CTX_MAPPING_VALUE"]
        ELSE IF n > 0 THEN [b EXCEPT !.ctx[n].more = TRUE] ELSE b

advance_context(b) ==
    LET n == Len(b.ctx)
    IN  CASE context_top(b).type = "CTX_MAPPING_KEY" ->
               [b EXCEPT !.ctx[n].type = "CTX_MAPPING_VALUE"]
          [] context_top(b).type = "CTX_MAPPING_VALUE" ->
               [b EXCEPT !.ctx[n] = [type |-> "CTX_MAPPING_KEY", more |-> TRUE]]
          [] context_top(b).type = "CTX_SEQUENCE" -> [b EXCEPT !.ctx[n].more = TRUE]
          [] OTHER -> b

(* The switch of yaml_to_json.  plain is history: one document whose keys  *)
(* are all scalars, the files ClashProxyParser is meant for; idle counts   *)
(* the parser's steps since it last took a token.                          *)
yaml_to_json(b, event) ==
    LET odd == \/ event = "DOCUMENT-START" /\ b.json # NoJson
               \/ event \in {"MAPPING-START", "SEQUENCE-START", "ALIAS"}
                  /\ context_top(b).type = "CTX_MAPPING_KEY"
        c == [b EXCEPT !.plain = @ /\ ~ odd]
    IN  CASE event = "MAPPING-START" ->
               context_push(Write(emit_separator(c), "begin-object"), "CTX_MAPPING_KEY")
          [] event = "MAPPING-END" -> advance_context(Write(context_pop(c), "end-object"))
          [] event = "SEQUENCE-START" ->
               context_push(Write(emit_separator(c), "begin-array"), "CTX_SEQUENCE")
          [] event = "SEQUENCE-END" -> advance_context(Write(context_pop(c), "end-array"))
          [] event = "SCALAR" -> advance_context(Write(emit_separator(c), "string"))
          [] event = "ALIAS" -> advance_context(Write(emit_separator(c), "null"))
          [] event = "STREAM-END" -> [c EXCEPT !.result = "json"]
          [] OTHER -> c

-----------------------------------------------------------------------------
yaml_parser_state_machine(p, token, depth) ==
    CASE p.state = "STREAM_START" -> yaml_parser_parse_stream_start(p, token)
      [] p.state \in {"IMPLICIT_DOCUMENT_START", "DOCUMENT_START"} ->
           yaml_parser_parse_document_start(p, token, p.state = "IMPLICIT_DOCUMENT_START")
      [] p.state = "DOCUMENT_CONTENT" -> yaml_parser_parse_document_content(p, token, depth)
      [] p.state = "DOCUMENT_END" -> yaml_parser_parse_document_end(p, token)
      [] p.state \in {"BLOCK_NODE", "BLOCK_NODE_OR_INDENTLESS_SEQUENCE", "FLOW_NODE"} ->
           yaml_parser_parse_node(p, token, depth, p.state # "FLOW_NODE",
                                  p.state = "BLOCK_NODE_OR_INDENTLESS_SEQUENCE")
      [] p.state \in {"BLOCK_SEQUENCE_FIRST_ENTRY", "BLOCK_SEQUENCE_ENTRY"} ->
           yaml_parser_parse_block_sequence_entry(p, token, depth,
                                                  p.state = "BLOCK_SEQUENCE_FIRST_ENTRY")
      [] p.state = "INDENTLESS_SEQUENCE_ENTRY" ->
           yaml_parser_parse_indentless_sequence_entry(p, token, depth)
      [] p.state \in {"BLOCK_MAPPING_FIRST_KEY", "BLOCK_MAPPING_KEY"} ->
           yaml_parser_parse_block_mapping_key(p, token, depth,
                                               p.state = "BLOCK_MAPPING_FIRST_KEY")
      [] p.state = "BLOCK_MAPPING_VALUE" ->
           yaml_parser_parse_block_mapping_value(p, token, depth)
      [] p.state \in {"FLOW_SEQUENCE_FIRST_ENTRY", "FLOW_SEQUENCE_ENTRY"} ->
           yaml_parser_parse_flow_sequence_entry(p, token, depth,
                                                 p.state = "FLOW_SEQUENCE_FIRST_ENTRY")
      [] p.state = "FLOW_SEQUENCE_ENTRY_MAPPING_KEY" ->
           yaml_parser_parse_flow_sequence_entry_mapping_key(p, token, depth)
      [] p.state = "FLOW_SEQUENCE_ENTRY_MAPPING_VALUE" ->
           yaml_parser_parse_flow_sequence_entry_mapping_value(p, token, depth)
      [] p.state = "FLOW_SEQUENCE_ENTRY_MAPPING_END" ->
           yaml_parser_parse_flow_sequence_entry_mapping_end(p)
      [] p.state \in {"FLOW_MAPPING_FIRST_KEY", "FLOW_MAPPING_KEY"} ->
           yaml_parser_parse_flow_mapping_key(p, token, depth,
                                              p.state = "FLOW_MAPPING_FIRST_KEY")
      [] p.state = "FLOW_MAPPING_AFTER_KEY" -> FlowMappingAfterKey(p, token, depth)
      [] p.state \in {"FLOW_MAPPING_VALUE", "FLOW_MAPPING_EMPTY_VALUE"} ->
           yaml_parser_parse_flow_mapping_value(p, token, depth,
                                                p.state = "FLOW_MAPPING_EMPTY_VALUE")

-----------------------------------------------------------------------------
Init == file \in Files /\ sc = ScannerInit /\ ps = ParserInit /\ js = BridgeInit

(* yaml_parser_fetch_more_tokens, one turn of its loop. *)
Fetch ==
    /\ js.result = "none"
    /\ NeedMoreTokens(sc)
    /\ \E lex \in Lexemes(file) :
         LET s == yaml_parser_fetch_next_token(sc, lex)
         IN  /\ Follows(sc, lex)
             /\ IF s.error THEN js' = Fail(js) /\ UNCHANGED sc ELSE sc' = s /\ UNCHANGED js
    /\ UNCHANGED << file, ps >>

(* The parser looks at the head of the queue; the bridge takes the event. *)
Parse ==
    LET s == yaml_parser_stale_simple_keys(sc)
        p == yaml_parser_state_machine(ps, Head(s.tokens), Len(s.indents) + s.flow)
    IN  /\ js.result = "none"
        /\ ~ NeedMoreTokens(sc)
        /\ IF s.error \/ p.error THEN js' = Fail(js) /\ UNCHANGED << sc, ps >>
           ELSE /\ sc' = IF p.skip THEN SkipToken(s) ELSE s
                /\ ps' = [p EXCEPT !.skip = FALSE, !.event = "NO-EVENT"]
                /\ js' = [yaml_to_json(js, p.event) EXCEPT !.idle = IF p.skip THEN 0 ELSE @ + 1]
        /\ UNCHANGED file

Next == Fetch \/ Parse
Spec == Init /\ [][Next]_vars

-----------------------------------------------------------------------------
(* The sort of every field, and one simple key for every flow level. *)
TypeOK ==
    /\ file \in Files
    /\ sc.allowed \in BOOLEAN /\ sc.ended \in BOOLEAN /\ sc.flow \in Nat
    /\ sc.indent \in -1..MaxCol /\ Len(sc.keys) = sc.flow + 1
    /\ ps.marks \in Nat /\ ps.props \subseteq {"anchor", "tag", "custom"}
    /\ js.result \in {"none", "json", "error"} /\ Len(js.ctx) <= MAX_DEPTH

(* QUEUE_INSERT never writes outside the queue, and a KEY found late is    *)
(* never inserted before a token the parser has already been given: while  *)
(* a simple key is possible its token is still in the queue, and those of  *)
(* the inner flow levels lie behind those of the outer ones.               *)
KeysStillQueued ==
    LET Possible == {i \in DOMAIN sc.keys : sc.keys[i].possible}
    IN  /\ \A i \in Possible : sc.keys[i].number \in 0..Len(sc.tokens) - 1
        /\ \A i, j \in Possible : i < j => sc.keys[i].number < sc.keys[j].number

Count(seq, set) == Cardinality({i \in DOMAIN seq : seq[i] \in set})
BlockStates == {"BLOCK_SEQUENCE_ENTRY", "BLOCK_MAPPING_KEY", "BLOCK_MAPPING_VALUE"}
FlowStates == {"FLOW_SEQUENCE_ENTRY", "FLOW_SEQUENCE_ENTRY_MAPPING_KEY",
               "FLOW_SEQUENCE_ENTRY_MAPPING_VALUE", "FLOW_SEQUENCE_ENTRY_MAPPING_END",
               "FLOW_MAPPING_KEY", "FLOW_MAPPING_AFTER_KEY", "FLOW_MAPPING_VALUE",
               "FLOW_MAPPING_EMPTY_VALUE"}
Running == Append(ps.states, ps.state)

(* Scanner and parser agree on what is open.  Every block collection the   *)
(* scanner opens by indentation it also closes: the indentations on its    *)
(* stack are those of the collections the parser is inside of, plus the    *)
(* starts and less the ends that are still queued.  The parser keeps a     *)
(* mark for every collection that is open, so no POP takes from an empty   *)
(* stack, and at the end of the stream nothing is open.                    *)
CollectionsMatch ==
    /\ ps.state # "UNDERFLOW"
    /\ js.result = "none" =>
         /\ Len(sc.indents) = Count(Running, BlockStates) - Count(sc.tokens, {"BLOCK-END"})
                              + Count(sc.tokens, {"BLOCK-SEQUENCE-START", "BLOCK-MAPPING-START"})
         /\ ps.marks = Count(Running, BlockStates \cup FlowStates)
    /\ ps.state = "END" => ps.states = << >> /\ ps.marks = 0

-----------------------------------------------------------------------------
(* What the bridge's frames must be for a state the parser is in (now) or  *)
(* will return to when the node it is reading is complete.                 *)
KeyFrame(onKey) == IF onKey THEN << "CTX_MAPPING_KEY" >> ELSE << "CTX_MAPPING_VALUE" >>

Frames(state, now) ==
    CASE state \in {"BLOCK_SEQUENCE_FIRST_ENTRY", "BLOCK_SEQUENCE_ENTRY",
                    "INDENTLESS_SEQUENCE_ENTRY", "FLOW_SEQUENCE_FIRST_ENTRY",
                    "FLOW_SEQUENCE_ENTRY"} -> << "CTX_SEQUENCE" >>
      [] state \in {"BLOCK_MAPPING_FIRST_KEY", "BLOCK_MAPPING_KEY", "FLOW_MAPPING_FIRST_KEY",
                    "FLOW_MAPPING_KEY", "FLOW_MAPPING_AFTER_KEY"} -> KeyFrame(now)
      [] state \in {"BLOCK_MAPPING_VALUE", "FLOW_MAPPING_VALUE", "FLOW_MAPPING_EMPTY_VALUE"} ->
           KeyFrame(~ now)
      [] state \in {"FLOW_SEQUENCE_ENTRY_MAPPING_KEY", "FLOW_SEQUENCE_ENTRY_MAPPING_END"} ->
           << "CTX_SEQUENCE" >> \o KeyFrame(now)
      [] state = "FLOW_SEQUENCE_ENTRY_MAPPING_VALUE" -> << "CTX_SEQUENCE" >> \o KeyFrame(~ now)
      [] OTHER -> << >>

(* The frames of the states on the stack, outermost first. *)
FramesOf(states) ==
    LET upTo[i \in 0..Len(states)] ==
            IF i = 0 THEN << >> ELSE upTo[i - 1] \o Frames(states[i], FALSE)
    IN  upTo[Len(states)]

(* The bridge's context stack follows the parser through every nesting:    *)
(* each open sequence and mapping has its frame, and a mapping's frame is  *)
(* on the key exactly when the parser is, though the bridge sees only the  *)
(* events.  It stays within its array, also under a parser that allows     *)
(* deeper nesting.                                                         *)
BridgeInStep ==
    js.result = "none" =>
      /\ Len(js.ctx) <= MAX_DEPTH
      /\ [i \in DOMAIN js.ctx |-> js.ctx[i].type] =
           FramesOf(ps.states) \o Frames(ps.state, TRUE)

(* The JSON given to ClashProxyParser is well formed for every file of one *)
(* document whose keys are scalars, whatever the order of its indentation, *)
(* flow collections, properties and empty nodes; text that is not YAML     *)
(* gives no result and never a truncated one.                              *)
JsonWellFormed ==
    js.plain /\ js.result # "error" =>
      /\ js.json.want # "bad"
      /\ js.result = "json" => js.json.want = "done" \/ js.json = NoJson

(* No text sends the parser into a loop: it takes the token it is given    *)
(* after at most MaxIdle steps that only emit empty nodes or close         *)
(* sequences without indentation.                                          *)
MaxIdle == 3
NeverLoops == js.idle <= MaxIdle
=============================================================================
