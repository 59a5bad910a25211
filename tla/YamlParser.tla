----------------------------- MODULE YamlParser -----------------------------
(***************************************************************************)
(* The parser of libyaml (libyaml/src/parser.c): tokens to events.  One    *)
(* step looks at one token, the head of the scanner's queue: it may skip   *)
(* it, may emit one event, and moves to the next state.  A C function that *)
(* peeks at several tokens is several steps; `item` is set while the       *)
(* function stands after a '-', a ',', a '?' or a ':' and decides whether  *)
(* a node follows, and props holds the anchor and the tag read so far.     *)
(*                                                                         *)
(* A parser is a record; skip, event and error are what the last step did. *)
(***************************************************************************)
EXTENDS Integers, Sequences

CONSTANT MaxNesting   \* MAX_NESTING_LEVEL, 1000 in the code

ASSUME ParserAssumption == MaxNesting \in Nat

ParserInit ==
    [state |-> "STREAM_START", states |-> << >>, marks |-> 0, item |-> FALSE, props |-> {},
     version |-> FALSE, custom |-> FALSE, skip |-> FALSE, event |-> "NO-EVENT", error |-> FALSE]

Push(p, state) == [p EXCEPT !.states = Append(@, state)]

(* POP of an empty stack reads what lies before it. *)
Pop(p) ==
    IF p.states = << >> THEN [p EXCEPT !.state = "UNDERFLOW"]
    ELSE [p EXCEPT !.state = p.states[Len(p.states)],
                   !.states = SubSeq(@, 1, Len(@) - 1)]

Skip(p) == [p EXCEPT !.skip = TRUE]
Go(p, state) == [p EXCEPT !.state = state, !.item = FALSE]
Item(p) == [Skip(p) EXCEPT !.item = TRUE]
Emit(p, event) == [p EXCEPT !.event = event, !.props = {}, !.item = FALSE]
yaml_parser_set_parser_error(p) == [p EXCEPT !.error = TRUE]
ErrorInCollection(p) == yaml_parser_set_parser_error([p EXCEPT !.marks = @ - 1])
yaml_parser_process_empty_scalar(p, state) == Emit(Go(p, state), "SCALAR")

-----------------------------------------------------------------------------
Collections ==
    [t \in {"FLOW-SEQUENCE-START", "FLOW-MAPPING-START", "BLOCK-SEQUENCE-START",
            "BLOCK-MAPPING-START"} |->
       CASE t = "FLOW-SEQUENCE-START" -> << "FLOW_SEQUENCE_FIRST_ENTRY", "SEQUENCE-START" >>
         [] t = "FLOW-MAPPING-START" -> << "FLOW_MAPPING_FIRST_KEY", "MAPPING-START" >>
         [] t = "BLOCK-SEQUENCE-START" -> << "BLOCK_SEQUENCE_FIRST_ENTRY", "SEQUENCE-START" >>
         [] t = "BLOCK-MAPPING-START" -> << "BLOCK_MAPPING_FIRST_KEY", "MAPPING-START" >>]

NodeState(block, indentless) ==
    IF ~ block THEN "FLOW_NODE"
    ELSE IF indentless THEN "BLOCK_NODE_OR_INDENTLESS_SEQUENCE" ELSE "BLOCK_NODE"

Property(token) ==
    CASE token = "ANCHOR" -> {"anchor"} [] token = "TAG" -> {"tag"}
      [] token = "CUSTOM-TAG" -> {"tag", "custom"} [] OTHER -> {}

Starts(block) ==
    {t \in DOMAIN Collections :
       block \/ t \notin {"BLOCK-SEQUENCE-START", "BLOCK-MAPPING-START"}}

(* Properties in either order, each once, then the content.  depth is how  *)
(* many indentations and flow levels the scanner has open.                 *)
Content(p, token, depth, block, indentless) ==
    CASE token = "BLOCK-ENTRY" /\ indentless ->
           Emit(Go(p, "INDENTLESS_SEQUENCE_ENTRY"), "SEQUENCE-START")
      [] token = "SCALAR" -> Emit(Skip(Pop(p)), "SCALAR")
      [] token \in Starts(block) ->
           IF depth >= MaxNesting THEN yaml_parser_set_parser_error(p)
           ELSE Emit(Go(p, Collections[token][1]), Collections[token][2])
      [] OTHER -> IF p.props # {} THEN Emit(Pop(p), "SCALAR")
                  ELSE yaml_parser_set_parser_error(p)

yaml_parser_parse_node(p, token, depth, block, indentless) ==
    IF token = "ALIAS" /\ p.props = {} THEN Emit(Skip(Pop(p)), "ALIAS")
    ELSE IF Property(token) # {} /\ Property(token) \cap p.props = {}
    THEN [Skip(Go(p, NodeState(block, indentless))) EXCEPT !.props = @ \cup Property(token)]
    ELSE IF "custom" \in p.props /\ ~ p.custom THEN yaml_parser_set_parser_error(p)
    ELSE Content(p, token, depth, block, indentless)

-----------------------------------------------------------------------------
Directives == {"VERSION-DIRECTIVE", "TAG-DIRECTIVE"}

yaml_parser_parse_stream_start(p, token) ==
    IF token # "STREAM-START" THEN yaml_parser_set_parser_error(p)
    ELSE Emit(Skip(Go(p, "IMPLICIT_DOCUMENT_START")), "STREAM-START")

(* One %YAML and one %TAG of a handle; custom stands for the one handle.   *)
(* A %YAML of a version other than 1.1 and 1.2 is refused here as well:    *)
(* the lexeme "bad" stands for it, since either error ends the import.     *)
yaml_parser_process_directives(p, token) ==
    IF (token = "VERSION-DIRECTIVE" /\ p.version) \/ (token = "TAG-DIRECTIVE" /\ p.custom)
    THEN yaml_parser_set_parser_error(p)
    ELSE [Skip(p) EXCEPT !.item = TRUE, !.version = @ \/ token = "VERSION-DIRECTIVE",
                         !.custom = @ \/ token = "TAG-DIRECTIVE"]

(* item: directives have been read, so a '---' must follow. *)
yaml_parser_parse_document_start(p, token, implicit) ==
    CASE token \in Directives -> yaml_parser_process_directives(p, token)
      [] token = "DOCUMENT-START" ->
           Emit(Skip(Push([Go(p, "DOCUMENT_CONTENT") EXCEPT !.version = FALSE],
                          "DOCUMENT_END")), "DOCUMENT-START")
      [] token = "STREAM-END" /\ ~ p.item -> Emit(Skip(Go(p, "END")), "STREAM-END")
      [] token = "DOCUMENT-END" /\ ~ implicit /\ ~ p.item -> Skip(p)
      [] OTHER -> IF implicit /\ ~ p.item
                  THEN Emit(Push(Go(p, "BLOCK_NODE"), "DOCUMENT_END"), "DOCUMENT-START")
                  ELSE yaml_parser_set_parser_error(p)

yaml_parser_parse_document_content(p, token, depth) ==
    IF token \in Directives \cup {"DOCUMENT-START", "DOCUMENT-END", "STREAM-END"}
    THEN Emit(Pop(p), "SCALAR")
    ELSE yaml_parser_parse_node(p, token, depth, TRUE, FALSE)

yaml_parser_parse_document_end(p, token) ==
    [Emit(Go(p, "DOCUMENT_START"), "DOCUMENT-END") EXCEPT
        !.skip = token = "DOCUMENT-END", !.custom = FALSE]

-----------------------------------------------------------------------------
(* A node unless one of the tokens in none comes, which means an empty one. *)
NodeOrEmpty(p, token, depth, none, state, block, indentless) ==
    IF token \in none THEN yaml_parser_process_empty_scalar(p, state)
    ELSE yaml_parser_parse_node(Push(p, state), token, depth, block, indentless)

Open(p, state) == [Skip(Go(p, state)) EXCEPT !.marks = @ + 1]
Close(p, event) == Emit(Skip([Pop(p) EXCEPT !.marks = @ - 1]), event)

yaml_parser_parse_block_sequence_entry(p, token, depth, first) ==
    CASE first -> Open(p, "BLOCK_SEQUENCE_ENTRY")
      [] ~ first /\ p.item ->
           NodeOrEmpty(p, token, depth, {"BLOCK-ENTRY", "BLOCK-END"},
                       "BLOCK_SEQUENCE_ENTRY", TRUE, FALSE)
      [] ~ first /\ ~ p.item ->
           CASE token = "BLOCK-ENTRY" -> Item(p)
             [] token = "BLOCK-END" -> Close(p, "SEQUENCE-END")
             [] OTHER -> ErrorInCollection(p)

MutantIndentlessTakesEnd(p, token, depth) ==
    IF p.item
    THEN NodeOrEmpty(p, token, depth, {"BLOCK-ENTRY", "KEY", "VALUE", "BLOCK-END"},
                     "INDENTLESS_SEQUENCE_ENTRY", TRUE, FALSE)
    ELSE IF token = "BLOCK-ENTRY" THEN Item(p) ELSE Emit(Skip(Pop(p)), "SEQUENCE-END")

yaml_parser_parse_indentless_sequence_entry(p, token, depth) ==
    IF p.item
    THEN NodeOrEmpty(p, token, depth, {"BLOCK-ENTRY", "KEY", "VALUE", "BLOCK-END"},
                     "INDENTLESS_SEQUENCE_ENTRY", TRUE, FALSE)
    ELSE IF token = "BLOCK-ENTRY" THEN Item(p) ELSE Emit(Pop(p), "SEQUENCE-END")

yaml_parser_parse_block_mapping_key(p, token, depth, first) ==
    CASE first -> Open(p, "BLOCK_MAPPING_KEY")
      [] ~ first /\ p.item ->
           NodeOrEmpty(p, token, depth, {"KEY", "VALUE", "BLOCK-END"},
                       "BLOCK_MAPPING_VALUE", TRUE, TRUE)
      [] ~ first /\ ~ p.item ->
           CASE token = "KEY" -> Item(p)
             [] token = "BLOCK-END" -> Close(p, "MAPPING-END")
             [] OTHER -> ErrorInCollection(p)

MutantValueStays(p, token, depth) ==
    IF p.item
    THEN NodeOrEmpty(p, token, depth, {"KEY", "VALUE", "BLOCK-END"},
                     "BLOCK_MAPPING_KEY", TRUE, TRUE)
    ELSE IF token = "VALUE" THEN Item(p) ELSE Emit(p, "SCALAR")

yaml_parser_parse_block_mapping_value(p, token, depth) ==
    IF p.item
    THEN NodeOrEmpty(p, token, depth, {"KEY", "VALUE", "BLOCK-END"},
                     "BLOCK_MAPPING_KEY", TRUE, TRUE)
    ELSE IF token = "VALUE" THEN Item(p)
    ELSE yaml_parser_process_empty_scalar(p, "BLOCK_MAPPING_KEY")

-----------------------------------------------------------------------------
(* The first entry of a flow collection is read as one after a comma. *)
yaml_parser_parse_flow_sequence_entry(p, token, depth, first) ==
    CASE first -> [Open(p, "FLOW_SEQUENCE_ENTRY") EXCEPT !.item = TRUE]
      [] ~ first /\ token = "FLOW-SEQUENCE-END" -> Close(p, "SEQUENCE-END")
      [] ~ first /\ p.item /\ token = "KEY" ->
           Emit(Skip(Go(p, "FLOW_SEQUENCE_ENTRY_MAPPING_KEY")), "MAPPING-START")
      [] ~ first /\ p.item /\ token \notin {"KEY", "FLOW-SEQUENCE-END"} ->
           yaml_parser_parse_node(Push(p, "FLOW_SEQUENCE_ENTRY"), token, depth, FALSE, FALSE)
      [] ~ first /\ ~ p.item /\ token # "FLOW-SEQUENCE-END" ->
           IF token = "FLOW-ENTRY" THEN Item(p) ELSE ErrorInCollection(p)

yaml_parser_parse_flow_sequence_entry_mapping_key(p, token, depth) ==
    LET q == IF token \in {"VALUE", "FLOW-ENTRY"} THEN Skip(p) ELSE p
    IN  NodeOrEmpty(q, token, depth, {"VALUE", "FLOW-ENTRY", "FLOW-SEQUENCE-END"},
                    "FLOW_SEQUENCE_ENTRY_MAPPING_VALUE", FALSE, FALSE)

yaml_parser_parse_flow_sequence_entry_mapping_value(p, token, depth) ==
    IF p.item
    THEN NodeOrEmpty(p, token, depth, {"FLOW-ENTRY", "FLOW-SEQUENCE-END"},
                     "FLOW_SEQUENCE_ENTRY_MAPPING_END", FALSE, FALSE)
    ELSE IF token = "VALUE" THEN Item(p)
    ELSE yaml_parser_process_empty_scalar(p, "FLOW_SEQUENCE_ENTRY_MAPPING_END")

yaml_parser_parse_flow_sequence_entry_mapping_end(p) ==
    Emit(Go(p, "FLOW_SEQUENCE_ENTRY"), "MAPPING-END")

(* The two items of a mapping: after a comma, and after the KEY. *)
yaml_parser_parse_flow_mapping_key(p, token, depth, first) ==
    CASE first -> [Open(p, "FLOW_MAPPING_KEY") EXCEPT !.item = TRUE]
      [] ~ first /\ token = "FLOW-MAPPING-END" -> Close(p, "MAPPING-END")
      [] ~ first /\ p.item /\ token = "KEY" -> Skip(Go(p, "FLOW_MAPPING_AFTER_KEY"))
      [] ~ first /\ p.item /\ token \notin {"KEY", "FLOW-MAPPING-END"} ->
           yaml_parser_parse_node(Push(p, "FLOW_MAPPING_EMPTY_VALUE"), token, depth,
                                  FALSE, FALSE)
      [] ~ first /\ ~ p.item /\ token # "FLOW-MAPPING-END" ->
           IF token = "FLOW-ENTRY" THEN Item(p) ELSE ErrorInCollection(p)

FlowMappingAfterKey(p, token, depth) ==
    NodeOrEmpty(p, token, depth, {"VALUE", "FLOW-ENTRY", "FLOW-MAPPING-END"},
                "FLOW_MAPPING_VALUE", FALSE, FALSE)

yaml_parser_parse_flow_mapping_value(p, token, depth, empty) ==
    IF ~ empty /\ p.item
    THEN NodeOrEmpty(p, token, depth, {"FLOW-ENTRY", "FLOW-MAPPING-END"},
                     "FLOW_MAPPING_KEY", FALSE, FALSE)
    ELSE IF ~ empty /\ token = "VALUE" THEN Item(p)
    ELSE yaml_parser_process_empty_scalar(p, "FLOW_MAPPING_KEY")
=============================================================================
