-------------------------- MODULE YamlToJsonProofs --------------------------
(***************************************************************************)
(* For every text, of any length, any nesting and any bounds on columns    *)
(* and queue: a simple key that is found late is still queued, scanner and *)
(* parser agree on the collections that are open, the bridge's frames are  *)
(* those of the parser's states, the JSON is well formed, and the parser   *)
(* takes its token after at most MaxIdle steps.                            *)
(*                                                                         *)
(* None of these is inductive by itself.  IInv joins one part for each:    *)
(* ScanInv and Balance for the scanner, StackOf for the parser's stack of  *)
(* states, HeadInv for the token a collection starts with, which the       *)
(* parser announces before it takes it, and what the bridge has written in *)
(* terms of its frames.  Three contracts carry the proof: Ready, of an     *)
(* operation of the scanner; Steps, of a step of the parser; Outcome, of   *)
(* what the bridge does with an event.  Steps and Outcome meet in          *)
(* FrameStep, how an event moves the frames.                               *)
(***************************************************************************)
EXTENDS YamlToJson, TLAPS, FiniteSetTheorems, SequenceTheorems

-----------------------------------------------------------------------------
(* The sorts of the records. *)
Tokens == {"STREAM-START", "STREAM-END", "VERSION-DIRECTIVE", "TAG-DIRECTIVE", "DOCUMENT-START",
           "DOCUMENT-END", "BLOCK-SEQUENCE-START", "BLOCK-MAPPING-START", "BLOCK-END",
           "FLOW-SEQUENCE-START", "FLOW-SEQUENCE-END", "FLOW-MAPPING-START",
           "FLOW-MAPPING-END", "BLOCK-ENTRY", "FLOW-ENTRY", "KEY", "VALUE", "ALIAS",
           "ANCHOR", "TAG", "CUSTOM-TAG", "SCALAR"}

KeyRecord == [possible : BOOLEAN, required : BOOLEAN, number : Nat, col : 0..MaxCol,
              near : BOOLEAN]

ScannerRecord ==
  [tokens : Seq(Tokens), indent : -1..MaxCol, indents : Seq(-1..MaxCol), keys : Seq(KeyRecord),
   allowed : BOOLEAN, flow : Nat, error : BOOLEAN, col : 0..MaxCol,
   next : {"newline", "fresh", "plain", "any"}, ended : BOOLEAN]

(* The states the parser is in outside of a document. *)
Outer == {"STREAM_START", "IMPLICIT_DOCUMENT_START", "DOCUMENT_START", "DOCUMENT_END", "END"}

(* ... in a document, at a node: the stack says where it returns to. *)
NodeStates == {"BLOCK_NODE", "BLOCK_NODE_OR_INDENTLESS_SEQUENCE", "FLOW_NODE"}

FirstStates == {"BLOCK_SEQUENCE_FIRST_ENTRY", "BLOCK_MAPPING_FIRST_KEY",
                "FLOW_SEQUENCE_FIRST_ENTRY", "FLOW_MAPPING_FIRST_KEY"}

(* The states a node returns to. *)
Returns == {"DOCUMENT_END", "BLOCK_SEQUENCE_ENTRY", "INDENTLESS_SEQUENCE_ENTRY",
            "BLOCK_MAPPING_KEY", "BLOCK_MAPPING_VALUE", "FLOW_SEQUENCE_ENTRY",
            "FLOW_SEQUENCE_ENTRY_MAPPING_VALUE", "FLOW_SEQUENCE_ENTRY_MAPPING_END",
            "FLOW_MAPPING_KEY", "FLOW_MAPPING_VALUE", "FLOW_MAPPING_EMPTY_VALUE"}

Inner == NodeStates \cup FirstStates \cup (Returns \ {"DOCUMENT_END"})
           \cup {"DOCUMENT_CONTENT", "FLOW_SEQUENCE_ENTRY_MAPPING_KEY", "FLOW_MAPPING_AFTER_KEY"}

ParserRecord ==
  [state : Outer \cup Inner, states : Seq(Returns), marks : Nat, item : BOOLEAN,
   props : SUBSET {"anchor", "tag", "custom"}, version : BOOLEAN, custom : BOOLEAN,
   skip : {FALSE}, event : {"NO-EVENT"}, error : {FALSE}]

Frame == [type : {"CTX_MAPPING_KEY", "CTX_MAPPING_VALUE", "CTX_SEQUENCE"}, more : BOOLEAN]

Wants == {"value", "first", "firstKey", "key", "colon", "after", "done", "bad"}

BridgeRecord ==
  [ctx : Seq(Frame), json : [want : Wants, open : Seq({"begin-object", "begin-array"})],
   result : {"none", "json", "error"}, plain : BOOLEAN, idle : Nat]

Sorts == sc \in ScannerRecord /\ ps \in ParserRecord /\ js \in BridgeRecord /\ file \in Files

-----------------------------------------------------------------------------
(* The scanner: a key per flow level, the tokens of the possible ones      *)
(* among the first n of the queue and in order, and no column to the left  *)
(* of the outermost indentation.                                           *)
KeysIn(keys, n) ==
  /\ \A i \in DOMAIN keys : keys[i].possible => keys[i].number \in 0..n - 1
  /\ \A i, j \in DOMAIN keys :
       i < j /\ keys[i].possible /\ keys[j].possible => keys[i].number < keys[j].number

Margin(s) == Append(s.indents, s.indent)[1] = -1

ScanInv(s, n) == s \in ScannerRecord /\ Len(s.keys) = s.flow + 1 /\ KeysIn(s.keys, n) /\ Margin(s)

BlockStarts == {"BLOCK-SEQUENCE-START", "BLOCK-MAPPING-START"}

(* The indentations whose start the parser has been given. *)
Balance(s) == Len(s.indents) + Count(s.tokens, {"BLOCK-END"}) - Count(s.tokens, BlockStarts)

-----------------------------------------------------------------------------
(* The parser: outside of a document the stack is empty, inside its first  *)
(* entry returns to the end of the document, and a sequence without        *)
(* indentation is the key or the value of a block mapping.                 *)
MapStates == {"BLOCK_MAPPING_KEY", "BLOCK_MAPPING_VALUE"}

Stacked(states) ==
  /\ states \in Seq(Returns)
  /\ \A i \in DOMAIN states : states[i] = "DOCUMENT_END" <=> i = 1
  /\ \A i \in DOMAIN states :
       states[i] = "INDENTLESS_SEQUENCE_ENTRY" => i > 1 /\ states[i - 1] \in MapStates

StackOf(p) ==
  /\ Stacked(p.states)
  /\ p.state \in Outer <=> p.states = << >>
  /\ p.state \in {"INDENTLESS_SEQUENCE_ENTRY", "BLOCK_NODE_OR_INDENTLESS_SEQUENCE"} =>
       p.states[Len(p.states)] \in MapStates
  /\ p.props # {} => p.state \in NodeStates
  /\ p.item => p.state \notin NodeStates

(* A collection the parser has just announced starts with the token that   *)
(* is still at the head of the queue.                                      *)
StartOf(state) ==
  CASE state = "BLOCK_SEQUENCE_FIRST_ENTRY" -> "BLOCK-SEQUENCE-START"
    [] state = "BLOCK_MAPPING_FIRST_KEY" -> "BLOCK-MAPPING-START"
    [] state = "FLOW_SEQUENCE_FIRST_ENTRY" -> "FLOW-SEQUENCE-START"
    [] state = "FLOW_MAPPING_FIRST_KEY" -> "FLOW-MAPPING-START"

HeadInv ==
  ps.state \in FirstStates => ~ NeedMoreTokens(sc) /\ Head(sc.tokens) = StartOf(ps.state)

StackInv == StackOf(ps) /\ HeadInv /\ (ps.state = "END" <=> js.result = "json")

(* How many steps the parser may have taken without a token. *)
Idle(state) ==
  CASE state \in {"INDENTLESS_SEQUENCE_ENTRY", "FLOW_SEQUENCE_ENTRY_MAPPING_VALUE", "BLOCK_NODE"} -> 1
    [] state \in {"BLOCK_MAPPING_VALUE", "FLOW_SEQUENCE_ENTRY_MAPPING_END", "DOCUMENT_END",
                  "FLOW_MAPPING_VALUE", "FLOW_MAPPING_EMPTY_VALUE"} \cup FirstStates -> 2
    [] state \in {"BLOCK_SEQUENCE_ENTRY", "BLOCK_MAPPING_KEY", "FLOW_SEQUENCE_ENTRY",
                  "FLOW_MAPPING_KEY", "DOCUMENT_START"} -> 3
    [] OTHER -> 0

MayIdle(p) == IF p.item \/ p.props # {} THEN 0 ELSE Idle(p.state)

IdleInv == js.idle <= MayIdle(ps)

MatchInv ==
  js.result # "error" => /\ Balance(sc) = Count(Running, BlockStates)
                         /\ ps.marks = Count(Running, BlockStates \cup FlowStates)

-----------------------------------------------------------------------------
(* The JSON: the open brackets are the frames, and what may come next is   *)
(* decided by the innermost one.                                           *)
Bracket(frame) == IF frame.type = "CTX_SEQUENCE" THEN "begin-array" ELSE "begin-object"

Wanted(ctx) ==
  LET top == ctx[Len(ctx)]
  IN  CASE top.type = "CTX_MAPPING_VALUE" -> "colon"
        [] top.type # "CTX_MAPPING_VALUE" /\ top.more -> "after"
        [] top.type = "CTX_SEQUENCE" /\ ~ top.more -> "first"
        [] top.type = "CTX_MAPPING_KEY" /\ ~ top.more -> "firstKey"

JsonInv ==
  js.plain /\ js.result # "error" =>
    /\ js.json.open = [i \in DOMAIN js.ctx |-> Bracket(js.ctx[i])]
    /\ js.ctx # << >> => js.json.want = Wanted(js.ctx)
    /\ js.ctx = << >> =>
         js.json.want = IF ps.states # << >> \/ js.json = NoJson THEN "value" ELSE "done"
    /\ js.ctx = << >> /\ ps.state = "DOCUMENT_END" => js.json.want = "done"
    /\ \A i \in DOMAIN js.ctx : i < Len(js.ctx) => js.ctx[i].type # "CTX_MAPPING_KEY"

FramesInv ==
  js.result # "error" =>
    [i \in DOMAIN js.ctx |-> js.ctx[i].type] = FramesOf(ps.states) \o Frames(ps.state, TRUE)

IInv == /\ Sorts /\ Len(js.ctx) <= MAX_DEPTH
        /\ ScanInv(sc, Len(sc.tokens))
        /\ StackInv /\ IdleInv /\ MatchInv /\ FramesInv /\ JsonInv

-----------------------------------------------------------------------------
(* Counting. *)
Hits(s, S) == {i \in DOMAIN s : s[i] \in S}

LEMMA CountType ==
  ASSUME NEW T, NEW s \in Seq(T), NEW S
  PROVE  IsFiniteSet(Hits(s, S)) /\ Count(s, S) = Cardinality(Hits(s, S)) /\ Count(s, S) \in Nat
<1>1. Len(s) \in Nat /\ DOMAIN s = 1..Len(s)
  BY LenProperties
<1>2. IsFiniteSet(1..Len(s))
  BY <1>1, FS_Interval
<1>3. Hits(s, S) \in SUBSET (1..Len(s))
  BY <1>1 DEF Hits
<1>4. IsFiniteSet(Hits(s, S))
  BY <1>2, <1>3, FS_Subset
<1> QED
  BY <1>4, FS_CardinalityType DEF Hits, Count

LEMMA CountEmpty ==
  ASSUME NEW S
  PROVE  Count(<< >>, S) = 0
<1>1. Hits(<< >>, S) = {}
  BY DEF Hits
<1> QED
  BY <1>1, FS_EmptySet DEF Count, Hits

LEMMA CountSingle ==
  ASSUME NEW x, NEW S
  PROVE  Count(<< x >>, S) = IF x \in S THEN 1 ELSE 0
<1>1. DOMAIN << x >> = {1} /\ << x >>[1] = x
  OBVIOUS
<1>2. CASE x \in S
  <2>1. Hits(<< x >>, S) = {1}
    BY <1>1, <1>2 DEF Hits
  <2> QED
    BY <1>2, <2>1, FS_Singleton DEF Count, Hits
<1>3. CASE x \notin S
  <2>1. Hits(<< x >>, S) = {}
    BY <1>1, <1>3 DEF Hits
  <2> QED
    BY <1>3, <2>1, FS_EmptySet DEF Count, Hits
<1> QED
  BY <1>2, <1>3

LEMMA CountConcat ==
  ASSUME NEW T, NEW a \in Seq(T), NEW b \in Seq(T), NEW S
  PROVE  Count(a \o b, S) = Count(a, S) + Count(b, S)
<1> DEFINE A == Hits(a, S)
           B == Hits(b, S)
           C == {i + Len(a) : i \in B}
<1>1. Len(a) \in Nat /\ DOMAIN a = 1..Len(a) /\ Len(b) \in Nat /\ DOMAIN b = 1..Len(b)
  BY LenProperties
<1>2. /\ a \o b \in Seq(T) /\ DOMAIN (a \o b) = 1..Len(a) + Len(b)
      /\ \A i \in 1..Len(a) : (a \o b)[i] = a[i]
      /\ \A i \in 1..Len(b) : (a \o b)[i + Len(a)] = b[i]
  <2>1. a \o b \in Seq(T) /\ Len(a \o b) = Len(a) + Len(b)
    BY ConcatProperties
  <2>2. DOMAIN (a \o b) = 1..Len(a) + Len(b)
    BY <2>1, LenProperties
  <2>3. \A i \in 1..Len(a) : (a \o b)[i] = a[i]
    BY <1>1
  <2>4. \A i \in 1..Len(b) : (a \o b)[i + Len(a)] = b[i]
    BY <1>1
  <2> QED
    BY <2>1, <2>2, <2>3, <2>4
<1>3. Hits(a \o b, S) = A \cup C
  <2>1. ASSUME NEW i \in Hits(a \o b, S) PROVE i \in A \cup C
    <3>1. i \in 1..Len(a) + Len(b) /\ (a \o b)[i] \in S
      BY <1>2, <2>1 DEF Hits
    <3>2. CASE i \in 1..Len(a)
      BY <1>1, <1>2, <3>1, <3>2 DEF Hits
    <3>3. CASE i \notin 1..Len(a)
      <4>1. i - Len(a) \in 1..Len(b) /\ i = (i - Len(a)) + Len(a)
        BY <1>1, <3>1, <3>3
      <4>2. b[i - Len(a)] \in S
        BY <1>2, <3>1, <4>1
      <4> QED
        BY <1>1, <4>1, <4>2 DEF Hits
    <3> QED
      BY <3>2, <3>3
  <2>2. ASSUME NEW i \in A PROVE i \in Hits(a \o b, S)
    BY <1>1, <1>2, <2>2 DEF Hits
  <2>3. ASSUME NEW i \in B PROVE i + Len(a) \in Hits(a \o b, S)
    <3>1. i \in 1..Len(b) /\ b[i] \in S /\ i + Len(a) \in 1..Len(a) + Len(b)
      BY <1>1, <2>3 DEF Hits
    <3> QED
      BY <1>2, <3>1 DEF Hits
  <2> HIDE DEF A, B
  <2> QED
    BY <2>1, <2>2, <2>3
<1>4. A \cap C = {}
  BY <1>1 DEF Hits
<1>5. IsFiniteSet(A) /\ Count(a, S) = Cardinality(A) /\ Count(a, S) \in Nat
  BY CountType
<1>6. IsFiniteSet(B) /\ Count(b, S) = Cardinality(B) /\ Count(b, S) \in Nat
  BY CountType
<1>7. IsFiniteSet(C) /\ Cardinality(C) = Cardinality(B)
  <2>1. B \subseteq Nat
    BY <1>1 DEF Hits
  <2> DEFINE f == [i \in B |-> i + Len(a)]
  <2> HIDE DEF B
  <2>2. f \in Bijection(B, C)
    BY <1>1, <2>1 DEF Bijection, Injection, Surjection, IsInjective
  <2>3. ExistsBijection(B, C)
    BY <2>2, Zenon DEF ExistsBijection
  <2> QED
    BY <1>6, <2>3, FS_Bijection DEF B
<1>8. Count(a \o b, S) = Cardinality(Hits(a \o b, S))
  BY DEF Count, Hits
<1> HIDE DEF A, B, C
<1>9. Cardinality(A \cup C) = Cardinality(A) + Cardinality(C) - 0
  BY <1>4, <1>5, <1>7, FS_Union, FS_EmptySet
<1> QED
  BY <1>3, <1>5, <1>6, <1>7, <1>8, <1>9

LEMMA CountAppend ==
  ASSUME NEW T, NEW s \in Seq(T), NEW x \in T, NEW S
  PROVE  Count(Append(s, x), S) = Count(s, S) + IF x \in S THEN 1 ELSE 0
<1>1. Append(s, x) = s \o << x >> /\ << x >> \in Seq(T)
  BY AppendIsConcat
<1>2. Count(s \o << x >>, S) = Count(s, S) + Count(<< x >>, S)
  BY <1>1, CountConcat, Zenon
<1>3. Count(<< x >>, S) = IF x \in S THEN 1 ELSE 0
  BY CountSingle, Zenon
<1> QED
  BY <1>1, <1>2, <1>3, Zenon

LEMMA CountTail ==
  ASSUME NEW T, NEW s \in Seq(T), s # << >>, NEW S
  PROVE  Count(Tail(s), S) = Count(s, S) - IF Head(s) \in S THEN 1 ELSE 0
<1>1. Head(s) \in T /\ Tail(s) \in Seq(T) /\ << Head(s) >> \in Seq(T)
  BY HeadTailProperties
<1>2. s = << Head(s) >> \o Tail(s)
  BY <1>1, HeadTailAppend, LenProperties
<1>3. Count(s, S) = Count(<< Head(s) >>, S) + Count(Tail(s), S)
  BY <1>1, <1>2, CountConcat, ZenonT(30)
<1>4. Count(Tail(s), S) \in Nat /\ Count(s, S) \in Nat
  BY <1>1, CountType
<1> QED
  BY <1>3, <1>4, CountSingle

Inserted(s, k, x) == SubSeq(s, 1, k) \o << x >> \o SubSeq(s, k + 1, Len(s))

LEMMA CountInsert ==
  ASSUME NEW T, NEW s \in Seq(T), NEW k \in 0..Len(s), NEW x \in T, NEW S
  PROVE  LET t == Inserted(s, k, x)
         IN  /\ t \in Seq(T) /\ Len(t) = Len(s) + 1
             /\ Count(t, S) = Count(s, S) + IF x \in S THEN 1 ELSE 0
<1> DEFINE a == SubSeq(s, 1, k)
           b == SubSeq(s, k + 1, Len(s))
<1>1. Len(s) \in Nat
  BY LenProperties
<1>2. a \in Seq(T) /\ b \in Seq(T) /\ Len(a) = k /\ Len(b) = Len(s) - k /\ << x >> \in Seq(T)
  BY <1>1, SubSeqProperties
<1>3. a \o b = s
  <2>1. 1 \in 1..Len(s) + 1 /\ k \in 1 - 1..Len(s) /\ Len(s) \in k..Len(s)
    BY <1>1
  <2>2. a \o b = SubSeq(s, 1, Len(s))
    BY <2>1, ConcatAdjacentSubSeq, Zenon
  <2> QED
    BY <2>2, SubSeqFull, Zenon
<1> HIDE DEF a, b
<1>4. Count(a \o b, S) = Count(a, S) + Count(b, S)
  BY <1>2, CountConcat
<1>5. a \o << x >> \in Seq(T) /\ Len(a \o << x >>) = k + 1
  BY <1>2, ConcatProperties
<1>6. Count((a \o << x >>) \o b, S) = Count(a \o << x >>, S) + Count(b, S)
  BY <1>2, <1>5, CountConcat
<1>7. Count(a \o << x >>, S) = Count(a, S) + Count(<< x >>, S)
  BY <1>2, CountConcat
<1>8. Count(a, S) \in Nat /\ Count(b, S) \in Nat
  BY <1>2, CountType
<1>9. (a \o << x >>) \o b \in Seq(T) /\ Len((a \o << x >>) \o b) = (k + 1) + (Len(s) - k)
  <2> DEFINE c == a \o << x >>
  <2>1. c \in Seq(T) /\ Len(c) = k + 1
    BY <1>5
  <2> HIDE DEF c
  <2>2. c \o b \in Seq(T) /\ Len(c \o b) = Len(c) + Len(b)
    BY <1>2, <2>1, ConcatProperties
  <2> QED
    BY <1>2, <2>1, <2>2, Zenon DEF c
<1>10. Count((a \o << x >>) \o b, S) = Count(s, S) + IF x \in S THEN 1 ELSE 0
  BY <1>3, <1>4, <1>6, <1>7, <1>8, CountSingle
<1>11. Len((a \o << x >>) \o b) = Len(s) + 1
  BY <1>1, <1>9
<1> QED
  BY <1>9, <1>10, <1>11 DEF a, b, Inserted

LEMMA CountAll ==
  ASSUME NEW n \in Nat, NEW x, NEW S
  PROVE  LET t == [i \in 1..n |-> x]
         IN  t \in Seq({x}) /\ Len(t) = n /\ Count(t, S) = IF x \in S THEN n ELSE 0
<1> DEFINE t == [i \in 1..n |-> x]
<1>1. t \in Seq({x}) /\ Len(t) = n
  OBVIOUS
<1>2. CASE x \in S
  <2>1. Hits(t, S) = 1..n
    BY <1>2 DEF Hits
  <2>2. Cardinality(1..n) = n
    BY FS_Interval
  <2> QED
    BY <1>1, <1>2, <2>1, <2>2 DEF Count, Hits
<1>3. CASE x \notin S
  <2>1. Hits(t, S) = {}
    BY <1>3 DEF Hits
  <2> QED
    BY <1>1, <1>3, <2>1, FS_EmptySet DEF Count, Hits
<1> QED
  BY <1>2, <1>3

-----------------------------------------------------------------------------
(* The frames of the stack.  What the recursive function in FramesOf       *)
(* computes is shown by the least index at which it could fail.            *)
LEMMA Least ==
  ASSUME NEW T \in SUBSET Nat, T # {}
  PROVE  \E m \in T : \A k \in T : m <= k
<1>1. PICK m \in T : \A k \in T : ~ (<<k, m>> \in OpToRel(<, Nat))
  <2>1. IsWellFoundedOn(OpToRel(<, Nat), Nat)
    BY NatLessThanWellFounded, Zenon
  <2> QED
    BY <2>1, WFMin, Zenon
<1>2. ASSUME NEW k \in T PROVE m <= k
  <2>1. <<k, m>> \in OpToRel(<, Nat) <=> k < m
    BY DEF OpToRel
  <2>2. ~ (k < m)
    BY <1>1, <2>1, Zenon
  <2> QED
    BY <2>2
<1> QED
  BY <1>2

LEMMA UpTo ==
  ASSUME NEW n \in Nat, NEW S, 0 \in S, \A k \in 1..n : k - 1 \in S => k \in S
  PROVE  \A k \in 0..n : k \in S
<1> SUFFICES ASSUME NEW k0 \in 0..n, k0 \notin S PROVE FALSE
  OBVIOUS
<1> DEFINE T == {k \in 0..n : k \notin S}
<1>1. PICK m \in T : \A k \in T : m <= k
  <2>1. T \in SUBSET Nat /\ T # {}
    OBVIOUS
  <2> QED
    BY <2>1, Least
<1> QED
  BY <1>1

(* f lists the frames of the first states of s. *)
Listed(s, n, f) == f = [i \in 0..n |-> IF i = 0 THEN << >> ELSE f[i - 1] \o Frames(s[i], FALSE)]

CtxTypes == {"CTX_MAPPING_KEY", "CTX_MAPPING_VALUE", "CTX_SEQUENCE"}

LEMMA FramesSort ==
  ASSUME NEW state, NEW now \in BOOLEAN
  PROVE  Frames(state, now) \in Seq(CtxTypes)
<1>1. << "CTX_SEQUENCE" >> \in Seq(CtxTypes) /\ << >> \in Seq(CtxTypes)
  BY DEF CtxTypes
<1>2. \A k \in BOOLEAN : KeyFrame(k) \in Seq(CtxTypes)
  <2>1. << "CTX_MAPPING_KEY" >> \in Seq(CtxTypes) /\ << "CTX_MAPPING_VALUE" >> \in Seq(CtxTypes)
    BY DEF CtxTypes
  <2> QED
    BY <2>1, Zenon DEF KeyFrame
<1>3. \A k \in BOOLEAN : << "CTX_SEQUENCE" >> \o KeyFrame(k) \in Seq(CtxTypes)
  BY <1>1, <1>2, ConcatProperties
<1> QED
  BY <1>1, <1>2, <1>3 DEF Frames

LEMMA ListedFacts ==
  ASSUME NEW s, NEW n \in Nat, NEW f, Listed(s, n, f)
  PROVE  /\ f[0] = << >>
         /\ \A k \in 1..n : f[k] = f[k - 1] \o Frames(s[k], FALSE)
         /\ f[n] \in Seq(CtxTypes)
<1>1. \A k \in 0..n : f[k] = IF k = 0 THEN << >> ELSE f[k - 1] \o Frames(s[k], FALSE)
  BY DEF Listed
<1>2. f[0] = << >> /\ \A k \in 1..n : f[k] = f[k - 1] \o Frames(s[k], FALSE)
  <2>1. 0 \in 0..n /\ \A k \in 1..n : k \in 0..n /\ k # 0
    OBVIOUS
  <2> QED
    BY <1>1, <2>1, Zenon
<1> DEFINE S == {k \in 0..n : f[k] \in Seq(CtxTypes)}
<1>3. 0 \in S
  <2>1. 0 \in 0..n /\ << >> \in Seq(CtxTypes)
    OBVIOUS
  <2> QED
    BY <1>2, <2>1, Zenon
<1>4. ASSUME NEW k \in 1..n, k - 1 \in S PROVE k \in S
  <2>1. f[k] = f[k - 1] \o Frames(s[k], FALSE) /\ f[k - 1] \in Seq(CtxTypes)
    BY <1>2, <1>4, Zenon
  <2>2. f[k] \in Seq(CtxTypes)
    <3>1. Frames(s[k], FALSE) \in Seq(CtxTypes)
      BY FramesSort, Zenon
    <3>2. \A u, v \in Seq(CtxTypes) : u \o v \in Seq(CtxTypes)
      BY ConcatProperties
    <3> QED
      BY <2>1, <3>1, <3>2, Zenon
  <2> QED
    BY <2>2
<1> HIDE DEF S
<1>5. n \in S
  BY <1>3, <1>4, UpTo
<1> QED
  BY <1>2, <1>5 DEF S

LEMMA ListedExists ==
  ASSUME NEW s, NEW n \in Nat
  PROVE  \E f : Listed(s, n, f)
<1> DEFINE S == {k \in 0..n : \E f : Listed(s, k, f)}
<1>1. 0 \in S
  <2>1. PICK f : f = [i \in 0..0 |-> << >>]
    OBVIOUS
  <2>2. f = [i \in 0..0 |-> IF i = 0 THEN << >> ELSE f[i - 1] \o Frames(s[i], FALSE)]
    BY <2>1
  <2> QED
    BY <2>2 DEF Listed
<1>2. ASSUME NEW k \in 1..n, k - 1 \in S PROVE k \in S
  <2>1. PICK f : Listed(s, k - 1, f)
    BY <1>2
  <2>2. PICK g : g = [i \in 0..k |-> IF i = k THEN f[k - 1] \o Frames(s[k], FALSE) ELSE f[i]]
    OBVIOUS
  <2>3. \A i \in 0..k : g[i] = IF i = 0 THEN << >> ELSE g[i - 1] \o Frames(s[i], FALSE)
    <3> SUFFICES ASSUME NEW i \in 0..k
                 PROVE  g[i] = IF i = 0 THEN << >> ELSE g[i - 1] \o Frames(s[i], FALSE)
      OBVIOUS
    <3>1. k \in Nat /\ k # 0 /\ k - 1 \in 0..k /\ k - 1 # k /\ k - 1 \in Nat /\ k \in 0..k
      OBVIOUS
    <3>2. \A j \in 0..k : j # k => g[j] = f[j]
      BY <2>2, Zenon
    <3>3. f[0] = << >> /\ \A j \in 1..k - 1 : f[j] = f[j - 1] \o Frames(s[j], FALSE)
      BY <2>1, <3>1, ListedFacts, Zenon
    <3>4. CASE i = k
      <4>1. g[i] = f[k - 1] \o Frames(s[k], FALSE)
        BY <2>2, <3>4, Zenon
      <4> QED
        BY <3>1, <3>2, <3>4, <4>1, Zenon
    <3>5. CASE i # k /\ i = 0
      BY <3>2, <3>3, <3>5, Zenon
    <3>6. CASE i # k /\ i # 0
      <4>1. i \in 1..k - 1 /\ i - 1 \in 0..k /\ i - 1 # k
        BY <3>6
      <4> QED
        BY <3>2, <3>3, <3>6, <4>1, Zenon
    <3> QED
      BY <3>4, <3>5, <3>6, Zenon
  <2>4. Listed(s, k, g)
    <3>1. g = [i \in 0..k |-> g[i]]
      BY <2>2
    <3> QED
      BY <2>3, <3>1, Zenon DEF Listed
  <2> QED
    BY <2>4
<1> HIDE DEF S
<1>3. n \in S
  BY <1>1, <1>2, UpTo
<1> QED
  BY <1>3 DEF S

LEMMA ListedAgree ==
  ASSUME NEW s, NEW t, NEW n \in Nat, NEW m \in Nat, n <= m, NEW f, NEW g,
         Listed(s, n, f), Listed(t, m, g), \A k \in 1..n : s[k] = t[k]
  PROVE  f[n] = g[n]
<1> DEFINE S == {k \in 0..n : f[k] = g[k]}
<1>1. /\ f[0] = << >> /\ \A k \in 1..n : f[k] = f[k - 1] \o Frames(s[k], FALSE)
      /\ g[0] = << >> /\ \A k \in 1..m : g[k] = g[k - 1] \o Frames(t[k], FALSE)
  BY ListedFacts, Zenon
<1>2. 0 \in S
  <2>1. 0 \in 0..n
    OBVIOUS
  <2> QED
    BY <1>1, <2>1, Zenon
<1>3. ASSUME NEW k \in 1..n, k - 1 \in S PROVE k \in S
  <2>1. k \in 1..m /\ k \in 0..n
    OBVIOUS
  <2> QED
    BY <1>1, <1>3, <2>1, Zenon
<1> HIDE DEF S
<1>4. n \in S
  BY <1>2, <1>3, UpTo
<1> QED
  BY <1>4 DEF S

LEMMA FramesListed ==
  ASSUME NEW s, Len(s) \in Nat
  PROVE  \E f : Listed(s, Len(s), f) /\ FramesOf(s) = f[Len(s)]
<1> DEFINE R(h) == h = [i \in 0..Len(s) |-> IF i = 0 THEN << >> ELSE h[i - 1] \o Frames(s[i], FALSE)]
<1>1. PICK f : R(f)
  BY ListedExists, Zenon DEF Listed
<1>2. PICK h : h = CHOOSE x : R(x)
  OBVIOUS
<1>3. R(h)
  BY <1>1, <1>2, Zenon
<1>4. FramesOf(s) = h[Len(s)]
  BY <1>2 DEF FramesOf
<1> QED
  BY <1>3, <1>4, Zenon DEF Listed

LEMMA FramesOfEmpty ==
  FramesOf(<< >>) = << >>
<1>1. Len(<< >>) = 0
  OBVIOUS
<1>2. PICK f : Listed(<< >>, 0, f) /\ FramesOf(<< >>) = f[0]
  BY <1>1, FramesListed
<1> QED
  BY <1>2, ListedFacts, Zenon

LEMMA FramesOfAppend ==
  ASSUME NEW s \in Seq(Returns), NEW r \in Returns
  PROVE  /\ FramesOf(Append(s, r)) = FramesOf(s) \o Frames(r, FALSE)
         /\ FramesOf(s) \in Seq(CtxTypes)
<1> DEFINE t == Append(s, r)
<1>1. /\ Len(s) \in Nat /\ Len(t) = Len(s) + 1 /\ Len(t) \in Nat
      /\ t[Len(s) + 1] = r /\ \A k \in 1..Len(s) : t[k] = s[k]
  BY AppendProperties, LenProperties
<1> HIDE DEF t
<1>2. PICK f : Listed(s, Len(s), f) /\ FramesOf(s) = f[Len(s)]
  BY <1>1, FramesListed, Zenon
<1>3. PICK g : Listed(t, Len(t), g) /\ FramesOf(t) = g[Len(t)]
  BY <1>1, FramesListed, Zenon
<1>4. f[Len(s)] = g[Len(s)]
  <2>1. Len(s) <= Len(t) /\ \A k \in 1..Len(s) : s[k] = t[k]
    BY <1>1
  <2> QED
    BY <1>1, <1>2, <1>3, <2>1, ListedAgree
<1>5. g[Len(t)] = g[Len(t) - 1] \o Frames(t[Len(t)], FALSE)
  <2>1. Len(t) \in 1..Len(t)
    BY <1>1
  <2> QED
    BY <1>1, <1>3, <2>1, ListedFacts, Zenon
<1>6. Len(t) - 1 = Len(s) /\ t[Len(t)] = r
  BY <1>1
<1>7. f[Len(s)] \in Seq(CtxTypes)
  BY <1>1, <1>2, ListedFacts, Zenon
<1> QED
  BY <1>2, <1>3, <1>4, <1>5, <1>6, <1>7, Zenon DEF t

-----------------------------------------------------------------------------
(* The scanner's operations. *)
Scans(s, t, n) ==
  ScanInv(t, n) /\ t.tokens = s.tokens /\ t.indents = s.indents

LEMMA ScanParts ==
  ASSUME NEW s \in ScannerRecord
  PROVE  /\ s.tokens \in Seq(Tokens) /\ s.indent \in -1..MaxCol /\ s.indents \in Seq(-1..MaxCol)
         /\ s.keys \in Seq(KeyRecord) /\ s.allowed \in BOOLEAN /\ s.flow \in Nat
         /\ s.error \in BOOLEAN /\ s.col \in 0..MaxCol /\ s.next \in {"newline", "fresh", "plain", "any"}
         /\ s.ended \in BOOLEAN
         /\ Len(s.tokens) \in Nat /\ DOMAIN s.tokens = 1..Len(s.tokens)
         /\ Len(s.keys) \in Nat /\ DOMAIN s.keys = 1..Len(s.keys)
         /\ Len(s.indents) \in Nat /\ DOMAIN s.indents = 1..Len(s.indents)
BY LenProperties DEF ScannerRecord

LEMMA SameBalance ==
  ASSUME NEW s, NEW t, t.tokens = s.tokens, t.indents = s.indents
  PROVE  Balance(t) = Balance(s)
BY Zenon DEF Balance

LEMMA ScanSet ==
  ASSUME NEW s, NEW n, ScanInv(s, n), NEW t \in ScannerRecord, t.tokens = s.tokens,
         t.indents = s.indents, t.indent = s.indent, t.keys = s.keys, t.flow = s.flow
  PROVE  Scans(s, t, n)
BY DEF ScanInv, Scans, Margin

(* The keys may change, as long as no possible one appears. *)
LEMMA ScanKeys ==
  ASSUME NEW s, NEW n, ScanInv(s, n), NEW t \in ScannerRecord, t.tokens = s.tokens,
         t.indents = s.indents, t.indent = s.indent, t.flow = s.flow, Len(t.keys) = Len(s.keys),
         \A i \in DOMAIN t.keys :
           t.keys[i].possible => s.keys[i].possible /\ t.keys[i].number = s.keys[i].number
  PROVE  Scans(s, t, n)
<1>1. DOMAIN t.keys = DOMAIN s.keys
  BY ScanParts DEF ScanInv
<1>2. KeysIn(t.keys, n)
  BY <1>1, Zenon DEF ScanInv, KeysIn
<1> QED
  BY <1>2 DEF ScanInv, Scans, Margin

LEMMA NoKeySort ==
  NoKey \in KeyRecord /\ ~ NoKey.possible
BY ScannerAssumption DEF NoKey, KeyRecord

LEMMA MapSeq ==
  ASSUME NEW T, NEW n \in Nat, NEW k, k = [i \in 1..n |-> k[i]], \A i \in 1..n : k[i] \in T
  PROVE  k \in Seq(T) /\ Len(k) = n /\ DOMAIN k = 1..n
<1>1. k \in [1..n -> T]
  OBVIOUS
<1>2. k \in Seq(T)
  BY <1>1, SeqDef
<1> QED
  BY <1>1, <1>2, LenProperties

LEMMA LeaveLineScans ==
  ASSUME NEW s, NEW n, ScanInv(s, n)
  PROVE  Scans(s, LeaveLine(s), n)
<1> DEFINE t == LeaveLine(s)
           k == [i \in DOMAIN s.keys |-> [s.keys[i] EXCEPT !.near = ~ s.keys[i].possible]]
<1>1. s \in ScannerRecord /\ s.keys \in Seq(KeyRecord) /\ DOMAIN s.keys = 1..Len(s.keys) /\ Len(s.keys) \in Nat
  BY ScanParts DEF ScanInv
<1>2. t = [s EXCEPT !.keys = k]
  BY DEF LeaveLine
<1>3. ASSUME NEW i \in DOMAIN s.keys
      PROVE  /\ k[i] \in KeyRecord /\ k[i].possible = s.keys[i].possible
             /\ k[i].number = s.keys[i].number
  <2>1. PICK x \in KeyRecord : x = s.keys[i]
    BY <1>1
  <2>2. k[i] = [x EXCEPT !.near = ~ x.possible]
    BY <2>1
  <2>3. x.possible \in BOOLEAN
    BY DEF KeyRecord
  <2> HIDE DEF k
  <2> QED
    BY <2>1, <2>2, <2>3 DEF KeyRecord
<1>4. k \in Seq(KeyRecord) /\ Len(k) = Len(s.keys) /\ DOMAIN k = DOMAIN s.keys
  <2>1. k = [i \in 1..Len(s.keys) |-> k[i]]
    BY <1>1
  <2> HIDE DEF k
  <2> QED
    BY <1>1, <1>3, <2>1, MapSeq
<1> HIDE DEF k
<1>5. t \in ScannerRecord /\ t.keys = k /\ t.tokens = s.tokens /\ t.indents = s.indents
      /\ t.indent = s.indent /\ t.flow = s.flow
  BY <1>1, <1>2, <1>4 DEF ScannerRecord
<1> HIDE DEF t
<1> QED
  BY <1>3, <1>4, <1>5, ScanKeys DEF t

LEMMA StaleScans ==
  ASSUME NEW s, NEW n, ScanInv(s, n)
  PROVE  /\ Scans(s, yaml_parser_stale_simple_keys(s), n)
         /\ yaml_parser_stale_simple_keys(s).flow = s.flow
<1> DEFINE t == yaml_parser_stale_simple_keys(s)
           stale == {i \in DOMAIN s.keys : s.keys[i].possible /\ ~ s.keys[i].near}
           k == [i \in DOMAIN s.keys |-> IF i \in stale THEN NoKey ELSE s.keys[i]]
           e == s.error \/ \E i \in stale : s.keys[i].required
<1>1. s \in ScannerRecord /\ s.keys \in Seq(KeyRecord) /\ DOMAIN s.keys = 1..Len(s.keys) /\ Len(s.keys) \in Nat
      /\ s.error \in BOOLEAN
  BY ScanParts DEF ScanInv
<1>2. t = [s EXCEPT !.error = e, !.keys = k]
  BY DEF yaml_parser_stale_simple_keys
<1>3. ASSUME NEW i \in DOMAIN s.keys
      PROVE  k[i] \in KeyRecord /\ (k[i] = s.keys[i] \/ ~ k[i].possible)
  <2>1. s.keys[i] \in KeyRecord
    BY <1>1
  <2>2. k[i] = NoKey \/ k[i] = s.keys[i]
    BY Zenon
  <2> QED
    BY <2>1, <2>2, NoKeySort, Zenon
<1>4. k \in Seq(KeyRecord) /\ Len(k) = Len(s.keys) /\ DOMAIN k = DOMAIN s.keys
  <2>1. k = [i \in 1..Len(s.keys) |-> k[i]]
    BY <1>1
  <2> HIDE DEF k
  <2> QED
    BY <1>1, <1>3, <2>1, MapSeq, ZenonT(30)
<1>5. e \in BOOLEAN
  BY <1>1
<1> HIDE DEF k, e
<1>6. t \in ScannerRecord /\ t.keys = k /\ t.tokens = s.tokens /\ t.indents = s.indents
      /\ t.indent = s.indent /\ t.flow = s.flow
  BY <1>1, <1>2, <1>4, <1>5 DEF ScannerRecord
<1> HIDE DEF t
<1> QED
  BY <1>3, <1>4, <1>6, ScanKeys DEF t

LEMMA RemoveScans ==
  ASSUME NEW s, NEW n, ScanInv(s, n)
  PROVE  LET t == yaml_parser_remove_simple_key(s)
         IN  /\ Scans(s, t, n) /\ t.flow = s.flow /\ t.indent = s.indent
             /\ t.keys = [s.keys EXCEPT ![Len(s.keys)] = NoKey]
<1> DEFINE t == yaml_parser_remove_simple_key(s)
           k == [s.keys EXCEPT ![Len(s.keys)] = NoKey]
           e == s.error \/ (s.keys[Len(s.keys)].possible /\ s.keys[Len(s.keys)].required)
<1>1. s \in ScannerRecord /\ s.keys \in Seq(KeyRecord) /\ DOMAIN s.keys = 1..Len(s.keys) /\ Len(s.keys) \in Nat
      /\ s.error \in BOOLEAN /\ Len(s.keys) # 0
  BY ScanParts DEF ScanInv
<1>2. t = [s EXCEPT !.error = e, !.keys = k]
  BY <1>1 DEF yaml_parser_remove_simple_key, ScannerRecord
<1>3. s.keys[Len(s.keys)] \in KeyRecord
  BY <1>1
<1>4. k \in Seq(KeyRecord) /\ Len(k) = Len(s.keys) /\ DOMAIN k = DOMAIN s.keys
  BY <1>1, NoKeySort, ExceptSeq
<1>5. \A i \in DOMAIN k : k[i] = s.keys[i] \/ ~ k[i].possible
  BY <1>1, <1>4, NoKeySort
<1>6. e \in BOOLEAN
  BY <1>1, <1>3 DEF KeyRecord
<1> HIDE DEF k, e
<1>7. t \in ScannerRecord /\ t.keys = k /\ t.tokens = s.tokens /\ t.indents = s.indents
      /\ t.indent = s.indent /\ t.flow = s.flow
  BY <1>1, <1>2, <1>4, <1>6 DEF ScannerRecord
<1> HIDE DEF t
<1>8. Scans(s, t, n)
  BY <1>4, <1>5, <1>7, ScanKeys
<1> QED
  BY <1>7, <1>8 DEF t, k

LEMMA KeysMore ==
  ASSUME NEW keys, NEW n \in Nat, NEW m \in Nat, n <= m, KeysIn(keys, n)
  PROVE  KeysIn(keys, m)
<1>1. 0..n - 1 \subseteq 0..m - 1
  OBVIOUS
<1> QED
  BY <1>1, Zenon DEF KeysIn

(* The key saved is that of the token that comes next. *)
LEMMA SaveScans ==
  ASSUME NEW s, ScanInv(s, Len(s.tokens))
  PROVE  LET t == yaml_parser_save_simple_key(s)
         IN  Scans(s, t, Len(s.tokens) + 1) /\ t.flow = s.flow /\ t.indent = s.indent
<1> DEFINE r == yaml_parser_remove_simple_key(s)
           m == Len(s.tokens)
           top == Len(s.keys)
           key == [possible |-> TRUE, required |-> s.flow = 0 /\ s.indent = s.col,
                   number |-> Len(s.tokens), col |-> s.col, near |-> TRUE]
<1>1. s \in ScannerRecord /\ m \in Nat /\ s.col \in 0..MaxCol /\ top \in Nat /\ top # 0
      /\ DOMAIN s.keys = 1..top /\ s.keys \in Seq(KeyRecord)
  BY ScanParts DEF ScanInv
<1>2. CASE ~ s.allowed
  <2>1. yaml_parser_save_simple_key(s) = s
    BY <1>2 DEF yaml_parser_save_simple_key
  <2>2. KeysIn(s.keys, m + 1)
    BY <1>1, KeysMore DEF ScanInv
  <2> QED
    BY <2>1, <2>2 DEF ScanInv, Scans
<1>3. CASE s.allowed
  <2>1. /\ Scans(s, r, m) /\ r.flow = s.flow /\ r.indent = s.indent
        /\ r.keys = [s.keys EXCEPT ![top] = NoKey]
    BY RemoveScans
  <2>2. key \in KeyRecord
    BY <1>1 DEF KeyRecord
  <2>3. yaml_parser_save_simple_key(s) = [r EXCEPT !.keys[top] = key]
    BY <1>3 DEF yaml_parser_save_simple_key
  <2>4. key.possible /\ key.number = m
    OBVIOUS
  <2> HIDE DEF r, key
  <2>5. r \in ScannerRecord /\ Len(r.keys) = top /\ r.keys \in Seq(KeyRecord)
    BY <1>1, <2>1, ScanParts DEF Scans, ScanInv
  <2> DEFINE k == [r.keys EXCEPT ![top] = key]
  <2>6. PICK t : t = [r EXCEPT !.keys = k]
    OBVIOUS
  <2>7. yaml_parser_save_simple_key(s) = t
    BY <2>3, <2>5, <2>6 DEF ScannerRecord
  <2>8. /\ k \in Seq(KeyRecord) /\ Len(k) = top /\ DOMAIN k = 1..top /\ k[top] = key
        /\ \A i \in 1..top : i # top => k[i] = r.keys[i]
    <3>1. DOMAIN r.keys = 1..top
      BY <1>1, <2>5, LenProperties
    <3>2. k \in Seq(KeyRecord) /\ Len(k) = top
      BY <1>1, <2>2, <2>5, <3>1, ExceptSeq
    <3> QED
      BY <1>1, <3>1, <3>2
  <2> HIDE DEF k
  <2>9. /\ t \in ScannerRecord /\ t.keys = k /\ t.tokens = r.tokens /\ t.indents = r.indents
        /\ t.indent = r.indent /\ t.flow = r.flow
    BY <2>5, <2>6, <2>8 DEF ScannerRecord
  <2>10. KeysIn(k, m + 1)
    <3>1. KeysIn(r.keys, m) /\ DOMAIN r.keys = 1..top
      BY <1>1, <2>1, <2>5, LenProperties DEF Scans, ScanInv
    <3>2. \A i \in DOMAIN k : k[i].possible => k[i].number \in 0..m
      BY <1>1, <2>4, <2>8, <3>1 DEF KeysIn
    <3>3. ASSUME NEW i \in DOMAIN k, NEW j \in DOMAIN k, i < j, k[i].possible, k[j].possible
          PROVE  k[i].number < k[j].number
      <4>1. i # top /\ i \in 1..top /\ j \in 1..top
        BY <1>1, <2>8, <3>3
      <4>2. CASE j = top
        BY <1>1, <2>4, <2>8, <3>1, <3>3, <4>1, <4>2, SMTT(30) DEF KeysIn
      <4>3. CASE j # top
        BY <2>8, <3>1, <3>3, <4>1, <4>3, Zenon DEF KeysIn
      <4> QED
        BY <4>2, <4>3
    <3>4. 0..m = 0..(m + 1) - 1
      BY <1>1
    <3> QED
      BY <3>2, <3>3, <3>4, Zenon DEF KeysIn
  <2>11. Margin(t) /\ Len(t.keys) = t.flow + 1
    BY <2>1, <2>5, <2>8, <2>9 DEF Margin, Scans, ScanInv
  <2> QED
    BY <2>1, <2>7, <2>9, <2>10, <2>11 DEF Scans, ScanInv
<1> QED
  BY <1>2, <1>3

LEMMA IncreaseScans ==
  ASSUME NEW s, NEW n, ScanInv(s, n)
  PROVE  Scans(s, yaml_parser_increase_flow_level(s), n)
<1> DEFINE t == yaml_parser_increase_flow_level(s)
           k == Append(s.keys, NoKey)
           f == s.flow + 1
<1>1. s \in ScannerRecord /\ s.keys \in Seq(KeyRecord) /\ DOMAIN s.keys = 1..Len(s.keys) /\ Len(s.keys) \in Nat
      /\ s.flow \in Nat
  BY ScanParts DEF ScanInv
<1>2. t = [s EXCEPT !.keys = k, !.flow = f] /\ f \in Nat
  BY <1>1 DEF yaml_parser_increase_flow_level
<1>3. /\ k \in Seq(KeyRecord) /\ Len(k) = Len(s.keys) + 1 /\ DOMAIN k = 1..Len(s.keys) + 1
      /\ k[Len(s.keys) + 1] = NoKey /\ \A i \in 1..Len(s.keys) : k[i] = s.keys[i]
  BY <1>1, NoKeySort, AppendProperties, LenProperties
<1> HIDE DEF k, f
<1>4. t \in ScannerRecord /\ t.keys = k /\ t.tokens = s.tokens /\ t.indents = s.indents
      /\ t.indent = s.indent /\ t.flow = f
  BY <1>1, <1>2, <1>3 DEF ScannerRecord
<1>5. \A i \in DOMAIN k : k[i].possible => i \in DOMAIN s.keys /\ k[i] = s.keys[i]
  BY <1>1, <1>3, NoKeySort
<1>6. KeysIn(k, n)
  BY <1>5, Zenon DEF ScanInv, KeysIn
<1>7. Len(t.keys) = t.flow + 1
  BY <1>1, <1>3, <1>4 DEF ScanInv, f
<1> HIDE DEF t
<1> QED
  BY <1>4, <1>6, <1>7 DEF t, Scans, ScanInv, Margin

LEMMA DecreaseScans ==
  ASSUME NEW s, NEW n, ScanInv(s, n)
  PROVE  Scans(s, yaml_parser_decrease_flow_level(s), n)
<1> DEFINE t == yaml_parser_decrease_flow_level(s)
           k == SubSeq(s.keys, 1, Len(s.keys) - 1)
           f == s.flow - 1
<1>1. s \in ScannerRecord /\ s.keys \in Seq(KeyRecord) /\ DOMAIN s.keys = 1..Len(s.keys) /\ Len(s.keys) \in Nat
      /\ s.flow \in Nat /\ Len(s.keys) = s.flow + 1
  BY ScanParts DEF ScanInv
<1>2. CASE s.flow = 0
  BY <1>2 DEF yaml_parser_decrease_flow_level, Scans
<1>3. CASE s.flow # 0
  <2>1. t = [s EXCEPT !.flow = f, !.keys = k] /\ f \in Nat
    BY <1>1, <1>3 DEF yaml_parser_decrease_flow_level
  <2>2. /\ k \in Seq(KeyRecord) /\ Len(k) = Len(s.keys) - 1 /\ DOMAIN k = 1..Len(s.keys) - 1
        /\ \A i \in 1..Len(s.keys) - 1 : k[i] = s.keys[i]
    BY <1>1, SubSeqProperties
  <2> HIDE DEF k, f
  <2>3. t \in ScannerRecord /\ t.keys = k /\ t.tokens = s.tokens /\ t.indents = s.indents
        /\ t.indent = s.indent /\ t.flow = f
    BY <1>1, <1>3, <2>1, <2>2 DEF ScannerRecord
  <2>4. \A i \in DOMAIN k : i \in DOMAIN s.keys /\ k[i] = s.keys[i]
    BY <1>1, <2>2
  <2>5. KeysIn(k, n)
    BY <2>4, Zenon DEF ScanInv, KeysIn
  <2>6. Len(t.keys) = t.flow + 1
    BY <1>1, <2>2, <2>3 DEF f
  <2> HIDE DEF t
  <2> QED
    BY <2>3, <2>5, <2>6 DEF t, Scans, ScanInv, Margin
<1> QED
  BY <1>2, <1>3

LEMMA AllowedScans ==
  ASSUME NEW s, NEW n, ScanInv(s, n), NEW b \in BOOLEAN, NEW e \in BOOLEAN
  PROVE  /\ Scans(s, [s EXCEPT !.allowed = b], n)
         /\ Scans(s, [s EXCEPT !.allowed = b, !.ended = e], n)
<1>1. s \in ScannerRecord
  BY DEF ScanInv
<1>2. PICK t : t = [s EXCEPT !.allowed = b]
  OBVIOUS
<1>3. PICK u : u = [s EXCEPT !.allowed = b, !.ended = e]
  OBVIOUS
<1>4. /\ t \in ScannerRecord /\ t.tokens = s.tokens /\ t.indents = s.indents
      /\ t.indent = s.indent /\ t.keys = s.keys /\ t.flow = s.flow
  BY <1>1, <1>2 DEF ScannerRecord
<1>5. /\ u \in ScannerRecord /\ u.tokens = s.tokens /\ u.indents = s.indents
      /\ u.indent = s.indent /\ u.keys = s.keys /\ u.flow = s.flow
  BY <1>1, <1>3 DEF ScannerRecord
<1>6. Scans(s, t, n) /\ Scans(s, u, n)
  BY <1>4, <1>5, ScanSet
<1> QED
  BY <1>2, <1>3, <1>6, Zenon

(* How a token at the end of the queue changes the balance. *)
Weight(token) == IF token = "BLOCK-END" THEN 1 ELSE IF token \in BlockStarts THEN -1 ELSE 0

LEMMA EnqueueScans ==
  ASSUME NEW s, ScanInv(s, Len(s.tokens) + 1), NEW token \in Tokens
  PROVE  LET t == Enqueue(s, token)
         IN  /\ ScanInv(t, Len(t.tokens)) /\ Len(t.tokens) = Len(s.tokens) + 1
             /\ t.indents = s.indents /\ t.flow = s.flow /\ t.indent = s.indent
             /\ Balance(t) = Balance(s) + Weight(token)
<1> DEFINE q == Append(s.tokens, token)
<1>1. /\ s \in ScannerRecord /\ s.tokens \in Seq(Tokens) /\ Len(s.tokens) \in Nat
      /\ Len(s.indents) \in Nat
  BY ScanParts DEF ScanInv
<1>2. q \in Seq(Tokens) /\ Len(q) = Len(s.tokens) + 1
  BY <1>1, AppendProperties
<1>3. /\ Count(q, {"BLOCK-END"}) = Count(s.tokens, {"BLOCK-END"}) + (IF token \in {"BLOCK-END"} THEN 1 ELSE 0)
      /\ Count(q, BlockStarts) = Count(s.tokens, BlockStarts) + (IF token \in BlockStarts THEN 1 ELSE 0)
      /\ Count(s.tokens, {"BLOCK-END"}) \in Nat /\ Count(s.tokens, BlockStarts) \in Nat
  BY <1>1, CountAppend, CountType
<1>4. PICK t : t = [s EXCEPT !.tokens = q]
  OBVIOUS
<1>5. t = Enqueue(s, token)
  BY <1>4 DEF Enqueue
<1> HIDE DEF q
<1>6. /\ t \in ScannerRecord /\ t.tokens = q /\ t.indents = s.indents
      /\ t.indent = s.indent /\ t.keys = s.keys /\ t.flow = s.flow
  BY <1>1, <1>2, <1>4 DEF ScannerRecord
<1>7. ScanInv(t, Len(t.tokens))
  BY <1>2, <1>6 DEF ScanInv, Margin
<1>8. Balance(t) = Balance(s) + Weight(token)
  <2>1. token \in {"BLOCK-END"} <=> token = "BLOCK-END"
    OBVIOUS
  <2>2. "BLOCK-END" \notin BlockStarts
    BY DEF BlockStarts
  <2> QED
    BY <1>1, <1>3, <1>6, <2>1, <2>2 DEF Balance, Weight
<1> QED
  BY <1>2, <1>5, <1>6, <1>7, <1>8

LEMMA ScanMore ==
  ASSUME NEW s, NEW n \in Nat, NEW m \in Nat, n <= m, ScanInv(s, n)
  PROVE  ScanInv(s, m)
BY KeysMore DEF ScanInv

LEMMA PushIndentScans ==
  ASSUME NEW s, NEW n, ScanInv(s, n), NEW c \in 0..MaxCol
  PROVE  LET t == [s EXCEPT !.indents = Append(@, s.indent), !.indent = c]
         IN  /\ ScanInv(t, n) /\ t.tokens = s.tokens /\ t.keys = s.keys /\ t.flow = s.flow
             /\ Balance(t) = Balance(s) + 1
<1> DEFINE d == Append(s.indents, s.indent)
<1>1. /\ s \in ScannerRecord /\ s.indents \in Seq(-1..MaxCol) /\ Len(s.indents) \in Nat
      /\ s.indent \in -1..MaxCol /\ s.tokens \in Seq(Tokens)
  BY ScanParts DEF ScanInv
<1>2. d \in Seq(-1..MaxCol) /\ Len(d) = Len(s.indents) + 1 /\ d[1] = -1
  BY <1>1, AppendProperties DEF ScanInv, Margin
<1>3. c \in -1..MaxCol
  BY ScannerAssumption
<1>4. Append(d, c)[1] = -1
  BY <1>1, <1>2, <1>3, AppendProperties
<1>5. PICK t : t = [s EXCEPT !.indents = d, !.indent = c]
  OBVIOUS
<1> HIDE DEF d
<1>6. /\ t \in ScannerRecord /\ t.tokens = s.tokens /\ t.indents = d
      /\ t.indent = c /\ t.keys = s.keys /\ t.flow = s.flow
  BY <1>1, <1>2, <1>3, <1>5 DEF ScannerRecord
<1>7. ScanInv(t, n)
  BY <1>4, <1>6 DEF ScanInv, Margin
<1>8. Balance(t) = Balance(s) + 1
  <2>1. Count(s.tokens, {"BLOCK-END"}) \in Nat /\ Count(s.tokens, BlockStarts) \in Nat
    BY <1>1, CountType
  <2> QED
    BY <1>1, <1>2, <1>6, <2>1, SMTT(30) DEF Balance
<1>9. t = [s EXCEPT !.indents = Append(@, s.indent), !.indent = c]
  BY <1>5 DEF d
<1> QED
  BY <1>6, <1>7, <1>8, <1>9

LEMMA BalanceType ==
  ASSUME NEW s \in ScannerRecord
  PROVE  Balance(s) \in Int
<1>1. s.tokens \in Seq(Tokens) /\ Len(s.indents) \in Nat
  BY ScanParts
<1>2. Count(s.tokens, {"BLOCK-END"}) \in Nat /\ Count(s.tokens, BlockStarts) \in Nat
  BY <1>1, CountType
<1> QED
  BY <1>1, <1>2 DEF Balance

LEMMA RollScans ==
  ASSUME NEW s, ScanInv(s, Len(s.tokens)), NEW token \in BlockStarts
  PROVE  LET t == RollIndent(s, token)
         IN  ScanInv(t, Len(t.tokens)) /\ Balance(t) = Balance(s) /\ t.flow = s.flow
<1> DEFINE r == [s EXCEPT !.indents = Append(@, s.indent), !.indent = s.col]
<1>1. /\ s \in ScannerRecord /\ s.col \in 0..MaxCol /\ Len(s.tokens) \in Nat
  BY ScanParts DEF ScanInv
<1>2. CASE s.flow > 0 \/ s.indent >= s.col
  BY <1>2 DEF RollIndent
<1>3. CASE ~ (s.flow > 0 \/ s.indent >= s.col)
  <2>1. RollIndent(s, token) = Enqueue(r, token)
    BY <1>3, Zenon DEF RollIndent
  <2>2. /\ ScanInv(r, Len(s.tokens)) /\ r.tokens = s.tokens /\ r.flow = s.flow
        /\ Balance(r) = Balance(s) + 1
    BY <1>1, PushIndentScans
  <2> HIDE DEF r
  <2>3. ScanInv(r, Len(r.tokens) + 1)
    BY <1>1, <2>2, ScanMore
  <2>4. token \in Tokens /\ Weight(token) = -1
    BY DEF BlockStarts, Tokens, Weight
  <2>5. LET t == Enqueue(r, token)
        IN  /\ ScanInv(t, Len(t.tokens)) /\ t.flow = r.flow
            /\ Balance(t) = Balance(r) + Weight(token)
    BY <2>3, <2>4, EnqueueScans
  <2>6. Balance(s) \in Int
    BY <1>1, BalanceType
  <2> QED
    BY <2>1, <2>2, <2>4, <2>5, <2>6
<1> QED
  BY <1>2, <1>3

LEMMA InsertScans ==
  ASSUME NEW s, NEW n, ScanInv(s, n), NEW k \in 0..Len(s.tokens), NEW token \in Tokens
  PROVE  LET t == InsertToken(s, k, token)
         IN  /\ ScanInv(t, n) /\ Len(t.tokens) = Len(s.tokens) + 1 /\ t.flow = s.flow
             /\ t.keys = s.keys /\ t.indent = s.indent /\ t.indents = s.indents
             /\ Balance(t) = Balance(s) + Weight(token)
<1> DEFINE q == Inserted(s.tokens, k, token)
<1>1. /\ s \in ScannerRecord /\ s.tokens \in Seq(Tokens) /\ Len(s.tokens) \in Nat
      /\ Len(s.indents) \in Nat
  BY ScanParts DEF ScanInv
<1>2. ASSUME NEW S
      PROVE  /\ q \in Seq(Tokens) /\ Len(q) = Len(s.tokens) + 1
             /\ Count(q, S) = Count(s.tokens, S) + (IF token \in S THEN 1 ELSE 0)
  <2> PICK u : u = s.tokens
    OBVIOUS
  <2>1. u \in Seq(Tokens) /\ k \in 0..Len(u)
    BY <1>1
  <2>2. /\ Inserted(u, k, token) \in Seq(Tokens) /\ Len(Inserted(u, k, token)) = Len(u) + 1
        /\ Count(Inserted(u, k, token), S) = Count(u, S) + (IF token \in S THEN 1 ELSE 0)
    BY <2>1, CountInsert
  <2> QED
    BY <2>2
<1>3. /\ q \in Seq(Tokens) /\ Len(q) = Len(s.tokens) + 1
      /\ Count(q, {"BLOCK-END"}) = Count(s.tokens, {"BLOCK-END"}) + (IF token \in {"BLOCK-END"} THEN 1 ELSE 0)
      /\ Count(q, BlockStarts) = Count(s.tokens, BlockStarts) + (IF token \in BlockStarts THEN 1 ELSE 0)
      /\ Count(s.tokens, {"BLOCK-END"}) \in Nat /\ Count(s.tokens, BlockStarts) \in Nat
  <2> HIDE DEF q
  <2> QED
    BY <1>1, <1>2, CountType
<1>4. PICK t : t = [s EXCEPT !.tokens = q]
  OBVIOUS
<1>5. t = InsertToken(s, k, token)
  BY <1>4 DEF InsertToken, Inserted
<1> HIDE DEF q
<1>6. /\ t \in ScannerRecord /\ t.tokens = q /\ t.indents = s.indents
      /\ t.indent = s.indent /\ t.keys = s.keys /\ t.flow = s.flow
  BY <1>1, <1>3, <1>4 DEF ScannerRecord
<1>7. ScanInv(t, n)
  BY <1>6 DEF ScanInv, Margin
<1>8. Balance(t) = Balance(s) + Weight(token)
  <2>1. token \in {"BLOCK-END"} <=> token = "BLOCK-END"
    OBVIOUS
  <2>2. "BLOCK-END" \notin BlockStarts
    BY DEF BlockStarts
  <2> QED
    BY <1>1, <1>3, <1>6, <2>1, <2>2 DEF Balance, Weight
<1> QED
  BY <1>3, <1>5, <1>6, <1>7, <1>8

LEMMA RollAtScans ==
  ASSUME NEW s, NEW n, ScanInv(s, n), NEW key \in KeyRecord, key.number \in 0..Len(s.tokens)
  PROVE  LET t == RollIndentAt(s, key)
         IN  /\ ScanInv(t, n) /\ Balance(t) = Balance(s) /\ t.flow = s.flow /\ t.keys = s.keys
             /\ Len(t.tokens) \in {Len(s.tokens), Len(s.tokens) + 1}
<1> DEFINE r == [s EXCEPT !.indents = Append(@, s.indent), !.indent = key.col]
           token == "BLOCK-MAPPING-START"
<1>1. s \in ScannerRecord /\ key.col \in 0..MaxCol
  BY DEF ScanInv, KeyRecord
<1>2. CASE s.flow > 0 \/ s.indent >= key.col
  BY <1>2 DEF RollIndentAt
<1>3. CASE ~ (s.flow > 0 \/ s.indent >= key.col)
  <2>1. RollIndentAt(s, key) = InsertToken(r, key.number, token)
    BY <1>3, Zenon DEF RollIndentAt
  <2>2. /\ ScanInv(r, n) /\ r.tokens = s.tokens /\ r.flow = s.flow /\ r.keys = s.keys
        /\ Balance(r) = Balance(s) + 1
    BY <1>1, PushIndentScans
  <2> HIDE DEF r
  <2>3. token \in Tokens /\ Weight(token) = -1
    BY DEF BlockStarts, Tokens, Weight
  <2> HIDE DEF token
  <2>4. LET t == InsertToken(r, key.number, token)
        IN  /\ ScanInv(t, n) /\ t.flow = r.flow /\ t.keys = r.keys
            /\ Len(t.tokens) = Len(r.tokens) + 1
            /\ Balance(t) = Balance(r) + Weight(token)
    BY <2>2, <2>3, InsertScans
  <2>5. Balance(s) \in Int
    BY <1>1, BalanceType
  <2> QED
    BY <2>1, <2>2, <2>3, <2>4, <2>5
<1> QED
  BY <1>2, <1>3

LEMMA UnrollScans ==
  ASSUME NEW s, ScanInv(s, Len(s.tokens)), NEW column \in -1..MaxCol
  PROVE  LET t == yaml_parser_unroll_indent(s, column)
         IN  /\ ScanInv(t, Len(t.tokens)) /\ Balance(t) = Balance(s) /\ t.flow = s.flow
             /\ t.allowed = s.allowed
<1> DEFINE all == Append(s.indents, s.indent)
           deeper == {i \in DOMAIN all : all[i] > column}
           n == Cardinality(deeper)
           left == Len(all) - n
           ends == [i \in 1..n |-> "BLOCK-END"]
           q == s.tokens \o ends
           d == SubSeq(all, 1, left - 1)
           t == [s EXCEPT !.tokens = q, !.indent = all[left], !.indents = d]
<1>1. /\ s \in ScannerRecord /\ s.tokens \in Seq(Tokens) /\ Len(s.tokens) \in Nat
      /\ s.indents \in Seq(-1..MaxCol) /\ Len(s.indents) \in Nat
      /\ s.indent \in -1..MaxCol
  BY ScanParts DEF ScanInv
<1>2. /\ all \in Seq(-1..MaxCol) /\ Len(all) = Len(s.indents) + 1
      /\ DOMAIN all = 1..Len(s.indents) + 1 /\ all[1] = -1
  BY <1>1, AppendProperties, LenProperties DEF ScanInv, Margin
<1>3. n \in 0..Len(s.indents)
  <2>1. deeper \in SUBSET (2..Len(s.indents) + 1)
    BY <1>1, <1>2
  <2>2. /\ IsFiniteSet(2..Len(s.indents) + 1)
        /\ Cardinality(2..Len(s.indents) + 1) = Len(s.indents)
    <3>1. PICK m : m = Len(s.indents) + 1
      OBVIOUS
    <3>2. 2 \in Int /\ m \in Int /\ m >= 1 /\ Len(s.indents) = m - 1
      BY <1>1, <3>1
    <3>3. IsFiniteSet(2..m) /\ Cardinality(2..m) = IF 2 > m THEN 0 ELSE m - 2 + 1
      BY <3>2, FS_Interval, Zenon
    <3>4. Cardinality(2..m) = m - 1
      BY <3>2, <3>3
    <3> QED
      BY <3>1, <3>2, <3>3, <3>4
  <2> HIDE DEF deeper
  <2>3. IsFiniteSet(deeper) /\ Cardinality(deeper) <= Len(s.indents)
    BY <2>1, <2>2, FS_Subset
  <2>4. Cardinality(deeper) \in Nat
    BY <2>3, FS_CardinalityType
  <2> QED
    BY <1>1, <2>3, <2>4
<1>4. CASE s.flow > 0 \/ n = 0
  BY <1>4 DEF yaml_parser_unroll_indent
<1>5. CASE ~ (s.flow > 0 \/ n = 0)
  <2>1. yaml_parser_unroll_indent(s, column) = t
    BY <1>5 DEF yaml_parser_unroll_indent
  <2> HIDE DEF n, all
  <2>2. left \in 1..Len(s.indents) + 1 /\ left - 1 = Len(s.indents) - n
    BY <1>1, <1>2, <1>3
  <2> HIDE DEF left
  <2>3. all[left] \in -1..MaxCol
    BY <1>1, <1>2, <2>2, ElementOfSeq
  <2>4. /\ d \in Seq(-1..MaxCol) /\ Len(d) = left - 1
        /\ \A i \in 1..left - 1 : d[i] = all[i]
    <3>1. 1 \in Int /\ left - 1 \in Int /\ \A i \in 1..left - 1 : all[i] \in -1..MaxCol
      <4>1. \A i \in 1..left - 1 : i \in 1..Len(all)
        BY <1>1, <1>2, <2>2
      <4>2. \A i \in 1..left - 1 : all[i] \in -1..MaxCol
        BY <1>2, <4>1, ElementOfSeq, Zenon
      <4>3. 1 \in Int /\ left - 1 \in Int
        BY <1>1, <2>2
      <4> QED
        BY <4>2, <4>3
    <3>2. /\ d \in Seq(-1..MaxCol)
          /\ Len(d) = IF 1 <= left - 1 THEN (left - 1) - 1 + 1 ELSE 0
          /\ \A i \in 1..(left - 1) - 1 + 1 : d[i] = all[1 + i - 1]
      BY <3>1, SubSeqProperties
    <3>3. left \in Int /\ left >= 1
      BY <1>1, <2>2
    <3> HIDE DEF d
    <3> QED
      BY <3>2, <3>3
  <2>5. ends \in Seq({"BLOCK-END"}) /\ Len(ends) = n /\ ends \in Seq(Tokens)
    <3>1. n \in Nat
      BY <1>3
    <3>2. ends \in Seq({"BLOCK-END"}) /\ Len(ends) = n
      BY <3>1, CountAll
    <3>3. ends \in [1..n -> Tokens]
      BY DEF Tokens
    <3> QED
      BY <3>1, <3>2, <3>3, SeqDef
  <2>6. Count(ends, {"BLOCK-END"}) = n /\ Count(ends, BlockStarts) = 0
    <3>1. n \in Nat
      BY <1>3
    <3>2. "BLOCK-END" \notin BlockStarts /\ "BLOCK-END" \in {"BLOCK-END"}
      BY DEF BlockStarts
    <3> QED
      BY <3>1, <3>2, CountAll, ZenonT(30)
  <2> HIDE DEF ends
  <2>7. q \in Seq(Tokens) /\ Len(q) = Len(s.tokens) + n
    BY <1>1, <2>5, ConcatProperties
  <2>8. /\ Count(q, {"BLOCK-END"}) = Count(s.tokens, {"BLOCK-END"}) + n
        /\ Count(q, BlockStarts) = Count(s.tokens, BlockStarts) + 0
    BY <1>1, <2>5, <2>6, CountConcat
  <2>9. Count(s.tokens, {"BLOCK-END"}) \in Nat /\ Count(s.tokens, BlockStarts) \in Nat
    BY <1>1, CountType
  <2>10. Append(d, all[left])[1] = -1
    <3>1. /\ \A i \in 1..Len(d) : Append(d, all[left])[i] = d[i]
          /\ Append(d, all[left])[Len(d) + 1] = all[left]
      BY <2>3, <2>4, AppendProperties
    <3>2. CASE left = 1
      BY <1>2, <2>4, <3>1, <3>2
    <3>3. CASE left # 1
      BY <1>1, <1>2, <2>2, <2>4, <3>1, <3>3
    <3> QED
      BY <3>2, <3>3
  <2> HIDE DEF d, q
  <2>11. /\ t \in ScannerRecord /\ t.tokens = q /\ t.indents = d /\ t.indent = all[left]
         /\ t.keys = s.keys /\ t.flow = s.flow /\ t.allowed = s.allowed
    BY <1>1, <2>3, <2>4, <2>7 DEF ScannerRecord
  <2> HIDE DEF t
  <2>12. KeysIn(s.keys, Len(q))
    <3>1. Len(s.tokens) <= Len(q) /\ Len(q) \in Nat
      BY <1>1, <1>3, <2>7
    <3> QED
      BY <1>1, <3>1, KeysMore DEF ScanInv
  <2>13. ScanInv(t, Len(t.tokens))
    BY <2>10, <2>11, <2>12 DEF ScanInv, Margin
  <2>14. Balance(t) = Balance(s)
    <3>1. /\ Balance(t) = Len(d) + Count(q, {"BLOCK-END"}) - Count(q, BlockStarts)
          /\ Balance(s) = Len(s.indents) + Count(s.tokens, {"BLOCK-END"}) - Count(s.tokens, BlockStarts)
      BY <2>11, Zenon DEF Balance
    <3>2. Len(d) = Len(s.indents) - n /\ n \in Nat /\ Len(s.indents) \in Nat
      BY <1>1, <1>3, <2>2, <2>4
    <3> QED
      BY <2>8, <2>9, <3>1, <3>2
  <2> QED
    BY <2>1, <2>11, <2>13, <2>14
<1> QED
  BY <1>4, <1>5

LEMMA SkipScans ==
  ASSUME NEW s, ScanInv(s, Len(s.tokens)), s.tokens # << >>,
         \A i \in DOMAIN s.keys : s.keys[i].possible => s.keys[i].number # 0
  PROVE  LET t == SkipToken(s)
         IN  /\ ScanInv(t, Len(t.tokens))
             /\ Balance(t) = Balance(s) - Weight(Head(s.tokens))
<1> DEFINE q == Tail(s.tokens)
           k == [i \in DOMAIN s.keys |->
                   [s.keys[i] EXCEPT !.number =
                      IF s.keys[i].possible THEN s.keys[i].number - 1 ELSE s.keys[i].number]]
           t == [s EXCEPT !.tokens = q, !.keys = k]
<1>1. /\ s \in ScannerRecord /\ s.tokens \in Seq(Tokens) /\ Len(s.tokens) \in Nat
      /\ s.keys \in Seq(KeyRecord) /\ DOMAIN s.keys = 1..Len(s.keys) /\ Len(s.keys) \in Nat
      /\ Len(s.indents) \in Nat
  BY ScanParts DEF ScanInv
<1>2. t = SkipToken(s)
  BY DEF SkipToken
<1>3. q \in Seq(Tokens) /\ Len(q) = Len(s.tokens) - 1 /\ Len(s.tokens) # 0 /\ Head(s.tokens) \in Tokens
  <2>1. Len(s.tokens) # 0
    BY <1>1
  <2> QED
    BY <1>1, <2>1, HeadTailProperties
<1>4. /\ Count(q, {"BLOCK-END"}) = Count(s.tokens, {"BLOCK-END"}) - (IF Head(s.tokens) \in {"BLOCK-END"} THEN 1 ELSE 0)
      /\ Count(q, BlockStarts) = Count(s.tokens, BlockStarts) - (IF Head(s.tokens) \in BlockStarts THEN 1 ELSE 0)
      /\ Count(s.tokens, {"BLOCK-END"}) \in Nat /\ Count(s.tokens, BlockStarts) \in Nat
  BY <1>1, CountTail, CountType
<1>5. ASSUME NEW i \in DOMAIN s.keys
      PROVE  /\ k[i] \in KeyRecord /\ k[i].possible = s.keys[i].possible
             /\ s.keys[i].possible => k[i].number = s.keys[i].number - 1
  <2>1. PICK x \in KeyRecord : x = s.keys[i]
    BY <1>1
  <2>2. x.possible \in BOOLEAN /\ x.number \in Nat /\ (x.possible => x.number # 0)
    BY <2>1 DEF KeyRecord
  <2>3. PICK m : m = IF x.possible THEN x.number - 1 ELSE x.number
    OBVIOUS
  <2>4. k[i] = [x EXCEPT !.number = m] /\ m \in Nat
    BY <2>1, <2>2, <2>3
  <2> HIDE DEF k
  <2> QED
    BY <2>1, <2>2, <2>3, <2>4 DEF KeyRecord
<1>6. k \in Seq(KeyRecord) /\ Len(k) = Len(s.keys) /\ DOMAIN k = DOMAIN s.keys
  <2>1. k = [i \in 1..Len(s.keys) |-> k[i]]
    BY <1>1
  <2> HIDE DEF k
  <2> QED
    BY <1>1, <1>5, <2>1, MapSeq
<1> HIDE DEF k, q
<1>7. /\ t \in ScannerRecord /\ t.keys = k /\ t.tokens = q /\ t.indents = s.indents
      /\ t.indent = s.indent /\ t.flow = s.flow
  BY <1>1, <1>3, <1>6 DEF ScannerRecord
<1> HIDE DEF t
<1>8. KeysIn(k, Len(q))
  <2>1. ASSUME NEW i \in DOMAIN k
        PROVE  /\ k[i].possible => k[i].number \in 0..Len(q) - 1
               /\ k[i].possible => /\ s.keys[i].possible /\ s.keys[i].number \in Int
                                   /\ k[i].number = s.keys[i].number - 1
    <3>1. k[i].possible = s.keys[i].possible
          /\ (s.keys[i].possible => k[i].number = s.keys[i].number - 1)
      BY <1>5, <1>6
    <3>2. s.keys[i].possible => s.keys[i].number \in 0..Len(s.tokens) - 1 /\ s.keys[i].number # 0
      BY <1>6 DEF ScanInv, KeysIn
    <3> QED
      BY <1>1, <1>3, <3>1, <3>2, SMTT(30)
  <2>2. ASSUME NEW i \in DOMAIN k, NEW j \in DOMAIN k, i < j, k[i].possible, k[j].possible
        PROVE  k[i].number < k[j].number
    <3>1. s.keys[i].possible /\ s.keys[j].possible /\ s.keys[i].number \in Int /\ s.keys[j].number \in Int
          /\ k[i].number = s.keys[i].number - 1 /\ k[j].number = s.keys[j].number - 1
      BY <2>1, <2>2
    <3>2. s.keys[i].number < s.keys[j].number
      BY <1>6, <2>2, <3>1, Zenon DEF ScanInv, KeysIn
    <3> QED
      BY <3>1, <3>2
  <2> QED
    BY <2>1, <2>2, Zenon DEF KeysIn
<1>9. ScanInv(t, Len(t.tokens))
  BY <1>6, <1>7, <1>8 DEF ScanInv, Margin
<1>10. Balance(t) = Balance(s) - Weight(Head(s.tokens))
  <2>1. /\ Balance(t) = Len(s.indents) + Count(q, {"BLOCK-END"}) - Count(q, BlockStarts)
        /\ Balance(s) = Len(s.indents) + Count(s.tokens, {"BLOCK-END"}) - Count(s.tokens, BlockStarts)
    BY <1>7, Zenon DEF Balance
  <2>2. PICK h : h = Head(s.tokens)
    OBVIOUS
  <2>3. "BLOCK-END" \notin BlockStarts /\ (h \in {"BLOCK-END"} <=> h = "BLOCK-END")
    BY DEF BlockStarts
  <2> QED
    BY <1>1, <1>4, <2>1, <2>2, <2>3 DEF Weight
<1> QED
  BY <1>2, <1>9, <1>10

(* The scanner is ready: every possible key has its token in the queue.    *)
(* It is due: the token of the last one is about to be appended.           *)
Ready(s, b) == ScanInv(s, Len(s.tokens)) /\ Balance(s) = b
Due(s, b) == ScanInv(s, Len(s.tokens) + 1) /\ Balance(s) = b

LEMMA ReadyDue ==
  ASSUME NEW s, NEW b, Ready(s, b)
  PROVE  Due(s, b)
<1>1. Len(s.tokens) \in Nat
  BY ScanParts DEF Ready, ScanInv
<1> QED
  BY <1>1, ScanMore DEF Ready, Due

LEMMA ScansReady ==
  ASSUME NEW s, NEW t, NEW b
  PROVE  /\ Ready(s, b) /\ Scans(s, t, Len(s.tokens)) => Ready(t, b)
         /\ Due(s, b) /\ Scans(s, t, Len(s.tokens) + 1) => Due(t, b)
         /\ Ready(s, b) /\ Scans(s, t, Len(s.tokens) + 1) => Due(t, b)
BY SameBalance, Zenon DEF Ready, Due, Scans

LEMMA EndReady ==
  ASSUME NEW s, NEW b, Due(s, b), NEW token \in Tokens, Weight(token) = 0
  PROVE  Ready(Enqueue(s, token), b)
<1>1. s \in ScannerRecord
  BY DEF Due, ScanInv
<1>2. Balance(s) \in Int
  BY <1>1, BalanceType
<1>3. LET t == Enqueue(s, token)
      IN  ScanInv(t, Len(t.tokens)) /\ Balance(t) = Balance(s) + Weight(token)
  BY EnqueueScans DEF Due
<1> QED
  BY <1>2, <1>3 DEF Ready, Due

LEMMA AllowedDue ==
  ASSUME NEW s, NEW b, Due(s, b), NEW a \in BOOLEAN, NEW e \in BOOLEAN
  PROVE  Due([s EXCEPT !.allowed = a], b) /\ Due([s EXCEPT !.allowed = a, !.ended = e], b)
<1>1. /\ Scans(s, [s EXCEPT !.allowed = a], Len(s.tokens) + 1)
      /\ Scans(s, [s EXCEPT !.allowed = a, !.ended = e], Len(s.tokens) + 1)
  BY AllowedScans DEF Due
<1> QED
  BY <1>1, ScansReady, Zenon

LEMMA StepsReady ==
  ASSUME NEW s, NEW b, Ready(s, b)
  PROVE  /\ Ready(yaml_parser_remove_simple_key(s), b)
         /\ Ready(yaml_parser_decrease_flow_level(s), b)
         /\ Ready(yaml_parser_stale_simple_keys(s), b)
         /\ Ready(LeaveLine(s), b)
         /\ Due(yaml_parser_save_simple_key(s), b)
         /\ \A c \in -1..MaxCol : Ready(yaml_parser_unroll_indent(s, c), b)
         /\ \A token \in BlockStarts : Ready(RollIndent(s, token), b)
<1>1. ScanInv(s, Len(s.tokens)) /\ Balance(s) = b
  BY DEF Ready
<1>2. Scans(s, yaml_parser_remove_simple_key(s), Len(s.tokens))
  BY <1>1, RemoveScans
<1>3. Scans(s, yaml_parser_decrease_flow_level(s), Len(s.tokens))
  BY <1>1, DecreaseScans
<1>4. Scans(s, yaml_parser_stale_simple_keys(s), Len(s.tokens))
  BY <1>1, StaleScans
<1>5. Scans(s, LeaveLine(s), Len(s.tokens))
  BY <1>1, LeaveLineScans
<1>6. Scans(s, yaml_parser_save_simple_key(s), Len(s.tokens) + 1)
  BY <1>1, SaveScans
<1>7. \A c \in -1..MaxCol : Ready(yaml_parser_unroll_indent(s, c), b)
  BY <1>1, UnrollScans DEF Ready
<1>8. \A token \in BlockStarts : Ready(RollIndent(s, token), b)
  BY <1>1, RollScans DEF Ready
<1>9. /\ Ready(yaml_parser_remove_simple_key(s), b)
      /\ Ready(yaml_parser_decrease_flow_level(s), b)
      /\ Ready(yaml_parser_stale_simple_keys(s), b)
      /\ Ready(LeaveLine(s), b)
      /\ Due(yaml_parser_save_simple_key(s), b)
  BY <1>2, <1>3, <1>4, <1>5, <1>6, ScansReady
<1> QED
  BY <1>7, <1>8, <1>9

LEMMA StepsDue ==
  ASSUME NEW s, NEW b, Due(s, b)
  PROVE  Due(yaml_parser_increase_flow_level(s), b) /\ Due(LeaveLine(s), b)
<1>1. ScanInv(s, Len(s.tokens) + 1)
  BY DEF Due
<1>2. Scans(s, yaml_parser_increase_flow_level(s), Len(s.tokens) + 1)
  BY <1>1, IncreaseScans
<1>3. Scans(s, LeaveLine(s), Len(s.tokens) + 1)
  BY <1>1, LeaveLineScans
<1> QED
  BY <1>2, <1>3, ScansReady

(* The tokens that open or close no block collection. *)
Neutral == Tokens \ ({"BLOCK-END"} \cup BlockStarts)

LEMMA NeutralReady ==
  ASSUME NEW s, NEW b, Due(s, b), NEW token \in Neutral, NEW a \in BOOLEAN, NEW e \in BOOLEAN
  PROVE  /\ Ready(Enqueue([s EXCEPT !.allowed = a], token), b)
         /\ Ready(Enqueue([s EXCEPT !.allowed = a, !.ended = e], token), b)
<1>1. Due([s EXCEPT !.allowed = a], b) /\ Due([s EXCEPT !.allowed = a, !.ended = e], b)
  BY AllowedDue
<1>2. token \in Tokens /\ Weight(token) = 0
  BY DEF Neutral, Weight
<1> QED
  BY <1>1, <1>2, EndReady, Zenon

-----------------------------------------------------------------------------
(* The token a lexeme turns into: each leaves the scanner ready, with the  *)
(* balance it had.                                                         *)
LEMMA StreamEndReady ==
  ASSUME NEW s, NEW b, Ready(s, b)
  PROVE  Ready(yaml_parser_fetch_stream_end(s), b)
<1>1. Ready(LeaveLine(s), b)
  BY StepsReady
<1>2. -1 \in -1..MaxCol
  BY ScannerAssumption
<1>3. PICK u : u = yaml_parser_unroll_indent(LeaveLine(s), -1)
  OBVIOUS
<1>4. Ready(u, b)
  BY <1>1, <1>2, <1>3, StepsReady
<1>5. PICK r : r = yaml_parser_remove_simple_key(u)
  OBVIOUS
<1>6. Due(r, b)
  BY <1>4, <1>5, StepsReady, ReadyDue
<1>7. "STREAM-END" \in Neutral /\ FALSE \in BOOLEAN /\ TRUE \in BOOLEAN
  BY DEF Neutral, Tokens, BlockStarts
<1>8. Ready(Enqueue([r EXCEPT !.allowed = FALSE, !.ended = TRUE], "STREAM-END"), b)
  BY <1>6, <1>7, NeutralReady, Zenon
<1> QED
  BY <1>3, <1>5, <1>8, Zenon DEF yaml_parser_fetch_stream_end

LEMMA AtMarginReady ==
  ASSUME NEW s, NEW b, Ready(s, b), NEW token \in Neutral
  PROVE  Ready(FetchAtMargin(s, token), b)
<1>1. -1 \in -1..MaxCol
  BY ScannerAssumption
<1>2. PICK u : u = yaml_parser_unroll_indent(s, -1)
  OBVIOUS
<1>3. Ready(u, b)
  BY <1>1, <1>2, StepsReady
<1>4. PICK r : r = yaml_parser_remove_simple_key(u)
  OBVIOUS
<1>5. Due(r, b)
  BY <1>3, <1>4, StepsReady, ReadyDue
<1>6. Ready(Enqueue([r EXCEPT !.allowed = FALSE], token), b)
  BY <1>5, NeutralReady, Zenon
<1> QED
  BY <1>2, <1>4, <1>6, Zenon DEF FetchAtMargin

LEMMA FlowReady ==
  ASSUME NEW s, NEW b, Ready(s, b), NEW token \in Neutral
  PROVE  /\ Ready(yaml_parser_fetch_flow_collection_start(s, token), b)
         /\ Ready(yaml_parser_fetch_flow_collection_end(s, token), b)
         /\ Ready(FetchProperty(s, token), b)
<1>1. Due(yaml_parser_increase_flow_level(yaml_parser_save_simple_key(s)), b)
  BY StepsReady, StepsDue
<1>2. Due(yaml_parser_decrease_flow_level(yaml_parser_remove_simple_key(s)), b)
  BY StepsReady, ReadyDue
<1>3. Due(yaml_parser_save_simple_key(s), b)
  BY StepsReady
<1>4. Ready(yaml_parser_fetch_flow_collection_start(s, token), b)
  BY <1>1, NeutralReady, Zenon DEF yaml_parser_fetch_flow_collection_start
<1>5. Ready(yaml_parser_fetch_flow_collection_end(s, token), b)
  BY <1>2, NeutralReady, Zenon DEF yaml_parser_fetch_flow_collection_end
<1>6. Ready(FetchProperty(s, token), b)
  BY <1>3, NeutralReady, Zenon DEF FetchProperty
<1> QED
  BY <1>4, <1>5, <1>6

LEMMA AllowedReady ==
  ASSUME NEW s, NEW b, Ready(s, b), NEW a \in BOOLEAN
  PROVE  Ready([s EXCEPT !.allowed = a], b)
<1>1. Scans(s, [s EXCEPT !.allowed = a], Len(s.tokens))
  BY AllowedScans DEF Ready
<1> QED
  BY <1>1, ScansReady, Zenon

LEMMA ErrorReady ==
  ASSUME NEW s, NEW b, Ready(s, b)
  PROVE  Ready(yaml_parser_set_scanner_error(s), b)
<1>1. PICK t : t = [s EXCEPT !.error = TRUE]
  OBVIOUS
<1>2. s \in ScannerRecord /\ ScanInv(s, Len(s.tokens))
  BY DEF Ready, ScanInv
<1>3. /\ t \in ScannerRecord /\ t.tokens = s.tokens /\ t.indents = s.indents
      /\ t.indent = s.indent /\ t.keys = s.keys /\ t.flow = s.flow
  BY <1>1, <1>2 DEF ScannerRecord
<1>4. Scans(s, t, Len(s.tokens))
  BY <1>2, <1>3, ScanSet
<1> QED
  BY <1>1, <1>4, ScansReady, Zenon DEF yaml_parser_set_scanner_error

LEMMA EntryReady ==
  ASSUME NEW s, NEW b, Ready(s, b)
  PROVE  /\ Ready(yaml_parser_fetch_flow_entry(s), b)
         /\ Ready(yaml_parser_fetch_block_entry(s), b)
         /\ Ready(yaml_parser_fetch_key(s), b)
         /\ Ready(yaml_parser_fetch_block_scalar(s), b)
<1>1. /\ "BLOCK-SEQUENCE-START" \in BlockStarts /\ "BLOCK-MAPPING-START" \in BlockStarts
      /\ "FLOW-ENTRY" \in Neutral /\ "BLOCK-ENTRY" \in Neutral /\ "KEY" \in Neutral
      /\ "SCALAR" \in Neutral /\ TRUE \in BOOLEAN /\ (s.flow = 0) \in BOOLEAN
  BY DEF Neutral, Tokens, BlockStarts
<1>2. Due(yaml_parser_remove_simple_key(s), b)
  BY StepsReady, ReadyDue
<1>3. ASSUME NEW token \in BlockStarts
      PROVE  Due(yaml_parser_remove_simple_key(RollIndent(s, token)), b)
  BY StepsReady, ReadyDue
<1>4. Ready(yaml_parser_set_scanner_error(s), b)
  BY ErrorReady
<1>5. Ready(yaml_parser_fetch_flow_entry(s), b)
  BY <1>1, <1>2, NeutralReady, Zenon DEF yaml_parser_fetch_flow_entry
<1>6. Ready(yaml_parser_fetch_block_scalar(s), b)
  BY <1>1, <1>2, NeutralReady, Zenon DEF yaml_parser_fetch_block_scalar
<1>7. Ready(yaml_parser_fetch_block_entry(s), b)
  <2>1. PICK r : r = yaml_parser_remove_simple_key(RollIndent(s, "BLOCK-SEQUENCE-START"))
    OBVIOUS
  <2>2. Ready(Enqueue([r EXCEPT !.allowed = TRUE], "BLOCK-ENTRY"), b)
    BY <1>1, <1>3, <2>1, NeutralReady, Zenon
  <2> QED
    BY <1>4, <2>1, <2>2, Zenon DEF yaml_parser_fetch_block_entry
<1>8. Ready(yaml_parser_fetch_key(s), b)
  <2>1. PICK r : r = yaml_parser_remove_simple_key(RollIndent(s, "BLOCK-MAPPING-START"))
    OBVIOUS
  <2>2. Ready(Enqueue([r EXCEPT !.allowed = s.flow = 0], "KEY"), b)
    BY <1>1, <1>3, <2>1, NeutralReady, Zenon
  <2> QED
    BY <1>4, <2>1, <2>2, Zenon DEF yaml_parser_fetch_key
<1> QED
  BY <1>5, <1>6, <1>7, <1>8

LEMMA ScalarReady ==
  ASSUME NEW s, NEW b, Ready(s, b), NEW long \in BOOLEAN, NEW eatsLine \in BOOLEAN
  PROVE  /\ Ready(yaml_parser_fetch_flow_scalar(s, long), b)
         /\ Ready(yaml_parser_fetch_plain_scalar(s, long, eatsLine), b)
<1>1. "SCALAR" \in Neutral
  BY DEF Neutral, Tokens, BlockStarts
<1>2. ASSUME NEW l \in BOOLEAN
      PROVE  Ready(yaml_parser_fetch_flow_scalar(s, l), b)
  <2>1. PICK u : u = IF l THEN LeaveLine(yaml_parser_save_simple_key(s))
                     ELSE yaml_parser_save_simple_key(s)
    OBVIOUS
  <2>2. Due(u, b)
    BY <2>1, StepsReady, StepsDue
  <2>3. Ready(Enqueue([u EXCEPT !.allowed = FALSE], "SCALAR"), b)
    BY <1>1, <2>2, NeutralReady, Zenon
  <2> QED
    BY <2>1, <2>3, Zenon DEF yaml_parser_fetch_flow_scalar
<1>3. (long \/ eatsLine) \in BOOLEAN
  OBVIOUS
<1>4. PICK u : u = yaml_parser_fetch_flow_scalar(s, long \/ eatsLine)
  OBVIOUS
<1>5. Ready(u, b)
  BY <1>2, <1>3, <1>4, Zenon
<1>6. Ready([u EXCEPT !.allowed = eatsLine], b)
  BY <1>5, AllowedReady
<1> QED
  BY <1>2, <1>4, <1>6, Zenon DEF yaml_parser_fetch_plain_scalar

(* The KEY, and the start of the mapping, go before the token that turned  *)
(* out to be a key; the key is the innermost one, so no other moves.       *)
LEMMA ValueReady ==
  ASSUME NEW s, NEW b, Ready(s, b)
  PROVE  Ready(yaml_parser_fetch_value(s), b)
<1> DEFINE top == Len(s.keys)
           key == s.keys[top]
           ins == InsertToken(s, key.number, "KEY")
           late == RollIndentAt(ins, key)
<1>1. /\ s \in ScannerRecord /\ ScanInv(s, Len(s.tokens)) /\ Balance(s) = b
      /\ Len(s.tokens) \in Nat /\ top \in Nat /\ top # 0 /\ DOMAIN s.keys = 1..top
      /\ s.keys \in Seq(KeyRecord) /\ s.flow \in Nat /\ Balance(s) \in Int
  <2>1. s \in ScannerRecord /\ ScanInv(s, Len(s.tokens)) /\ Balance(s) = b
    BY DEF Ready, ScanInv
  <2> QED
    BY <2>1, ScanParts, BalanceType DEF ScanInv
<1>2. /\ "BLOCK-MAPPING-START" \in BlockStarts /\ "VALUE" \in Neutral /\ "KEY" \in Neutral
      /\ FALSE \in BOOLEAN /\ (s.flow = 0) \in BOOLEAN
  BY DEF Neutral, Tokens, BlockStarts
<1>3. key \in KeyRecord
  BY <1>1
<1>4. CASE key.possible
  <2>1. key.number \in 0..Len(s.tokens)
    <3>1. key.number \in 0..Len(s.tokens) - 1
      BY <1>1, <1>4 DEF ScanInv, KeysIn
    <3> QED
      BY <1>1, <3>1
  <2> HIDE DEF key
  <2>2. /\ ScanInv(ins, Len(s.tokens)) /\ Len(ins.tokens) = Len(s.tokens) + 1
        /\ ins.keys = s.keys /\ Balance(ins) = b
    <3>1. "KEY" \in Tokens /\ Weight("KEY") = 0
      BY DEF Tokens, Weight, BlockStarts
    <3>2. PICK w : w = "KEY"
      OBVIOUS
    <3>3. LET t == InsertToken(s, key.number, w)
          IN  /\ ScanInv(t, Len(s.tokens)) /\ Len(t.tokens) = Len(s.tokens) + 1
              /\ t.keys = s.keys /\ Balance(t) = Balance(s) + Weight(w)
      BY <1>1, <2>1, <3>1, <3>2, InsertScans
    <3> QED
      BY <1>1, <3>1, <3>2, <3>3
  <2> HIDE DEF ins
  <2>3. /\ ScanInv(late, Len(s.tokens)) /\ Balance(late) = b /\ late.keys = s.keys
        /\ Len(late.tokens) \in {Len(s.tokens) + 1, Len(s.tokens) + 2}
    <3>1. key.number \in 0..Len(ins.tokens)
      BY <1>1, <2>1, <2>2
    <3>2. LET t == RollIndentAt(ins, key)
          IN  /\ ScanInv(t, Len(s.tokens)) /\ Balance(t) = Balance(ins) /\ t.keys = ins.keys
              /\ Len(t.tokens) \in {Len(ins.tokens), Len(ins.tokens) + 1}
      BY <1>3, <2>2, <3>1, RollAtScans
    <3> QED
      BY <1>1, <2>2, <3>2
  <2> HIDE DEF late
  <2> DEFINE k == [s.keys EXCEPT ![top] = NoKey]
             u == [late EXCEPT !.keys[top] = NoKey, !.allowed = FALSE]
  <2>4. k \in Seq(KeyRecord) /\ Len(k) = top /\ DOMAIN k = 1..top
    BY <1>1, NoKeySort, ExceptSeq
  <2>5. \A i \in DOMAIN k : k[i] = s.keys[i] \/ ~ k[i].possible
    BY <1>1, <2>4, NoKeySort
  <2>6. late \in ScannerRecord
    BY <2>3 DEF ScanInv
  <2>7. u = [late EXCEPT !.keys = k, !.allowed = FALSE]
    BY <2>3, <2>6 DEF ScannerRecord
  <2> HIDE DEF k
  <2>8. /\ u \in ScannerRecord /\ u.tokens = late.tokens /\ u.indents = late.indents
        /\ u.indent = late.indent /\ u.flow = late.flow /\ u.keys = k
    BY <2>4, <2>6, <2>7 DEF ScannerRecord
  <2> HIDE DEF u
  <2>9. Scans(late, u, Len(s.tokens))
    BY <2>3, <2>4, <2>5, <2>8, ScanKeys
  <2>10. Due(u, b)
    <3>1. ScanInv(u, Len(s.tokens)) /\ Balance(u) = b
      BY <2>3, <2>9, SameBalance DEF Scans
    <3>2. Len(u.tokens) + 1 \in Nat /\ Len(s.tokens) <= Len(u.tokens) + 1
      BY <1>1, <2>3, <2>8
    <3> QED
      BY <1>1, <3>1, <3>2, ScanMore DEF Due
  <2>11. Ready(Enqueue(u, "VALUE"), b)
    <3>1. "VALUE" \in Tokens /\ Weight("VALUE") = 0
      BY DEF Tokens, Weight, BlockStarts
    <3> QED
      BY <2>10, <3>1, EndReady, Zenon
  <2>12. yaml_parser_fetch_value(s) = Enqueue(u, "VALUE")
    BY <1>4, Zenon DEF yaml_parser_fetch_value, u, late, ins, key
  <2> QED
    BY <2>11, <2>12
<1>5. CASE ~ key.possible
  <2>1. Ready(yaml_parser_set_scanner_error(s), b)
    BY ErrorReady
  <2>2. PICK r : r = RollIndent(s, "BLOCK-MAPPING-START")
    OBVIOUS
  <2>3. Due(r, b)
    BY <1>2, <2>2, StepsReady, ReadyDue
  <2>4. Ready(Enqueue([r EXCEPT !.allowed = s.flow = 0], "VALUE"), b)
    BY <1>2, <2>3, NeutralReady, Zenon
  <2> QED
    BY <1>5, <2>1, <2>2, <2>4, Zenon DEF yaml_parser_fetch_value
<1> QED
  BY <1>4, <1>5

LEMMA DispatchReady ==
  ASSUME NEW s, NEW b, Ready(s, b), NEW kind \in Kinds
  PROVE  Ready(Dispatch(s, kind), b)
<1>1. /\ \A token \in {"VERSION-DIRECTIVE", "TAG-DIRECTIVE", "DOCUMENT-START", "DOCUMENT-END"} :
           Ready(FetchAtMargin(s, token), b)
      /\ \A token \in {"FLOW-SEQUENCE-START", "FLOW-MAPPING-START"} :
           Ready(yaml_parser_fetch_flow_collection_start(s, token), b)
      /\ \A token \in {"FLOW-SEQUENCE-END", "FLOW-MAPPING-END"} :
           Ready(yaml_parser_fetch_flow_collection_end(s, token), b)
      /\ \A token \in {"ALIAS", "ANCHOR", "TAG", "CUSTOM-TAG"} : Ready(FetchProperty(s, token), b)
  <2>1. {"VERSION-DIRECTIVE", "TAG-DIRECTIVE", "DOCUMENT-START", "DOCUMENT-END",
         "FLOW-SEQUENCE-START", "FLOW-MAPPING-START", "FLOW-SEQUENCE-END", "FLOW-MAPPING-END",
         "ALIAS", "ANCHOR", "TAG", "CUSTOM-TAG"} \subseteq Neutral
    BY DEF Neutral, Tokens, BlockStarts
  <2>2. /\ \A token \in Neutral : Ready(FetchAtMargin(s, token), b)
        /\ \A token \in Neutral : Ready(yaml_parser_fetch_flow_collection_start(s, token), b)
        /\ \A token \in Neutral : Ready(yaml_parser_fetch_flow_collection_end(s, token), b)
        /\ \A token \in Neutral : Ready(FetchProperty(s, token), b)
    BY AtMarginReady, FlowReady
  <2> QED
    BY <2>1, <2>2
<1>2. /\ Ready(yaml_parser_fetch_flow_entry(s), b) /\ Ready(yaml_parser_fetch_block_entry(s), b)
      /\ Ready(yaml_parser_fetch_key(s), b) /\ Ready(yaml_parser_fetch_block_scalar(s), b)
      /\ Ready(yaml_parser_fetch_value(s), b) /\ Ready(yaml_parser_fetch_stream_end(s), b)
      /\ Ready(yaml_parser_set_scanner_error(s), b)
  BY EntryReady, ValueReady, StreamEndReady, ErrorReady
<1>3. /\ Ready(yaml_parser_fetch_flow_scalar(s, kind = "longQuoted"), b)
      /\ Ready(yaml_parser_fetch_plain_scalar(s, kind = "longPlain", kind = "plainLine"), b)
  <2>1. /\ (kind = "longQuoted") \in BOOLEAN /\ (kind = "longPlain") \in BOOLEAN
        /\ (kind = "plainLine") \in BOOLEAN
    OBVIOUS
  <2> QED
    BY <2>1, ScalarReady, Zenon
<1> QED
  BY <1>1, <1>2, <1>3 DEF Dispatch, Kinds

LEMMA FetchReady ==
  ASSUME NEW s, NEW b, Ready(s, b), NEW lex \in Lexemes(Kinds)
  PROVE  Ready(yaml_parser_fetch_next_token(s, lex), b)
<1> DEFINE u == IF lex.newline THEN LeaveLine(s) ELSE s
           a == u.allowed \/ (lex.newline /\ s.flow = 0)
           t == [u EXCEPT !.allowed = a, !.col = lex.col, !.next = NextText(lex.kind)]
<1>1. lex.newline \in BOOLEAN /\ lex.col \in 0..MaxCol /\ lex.kind \in Kinds
  BY DEF Lexemes
<1>2. Ready(u, b)
  BY <1>1, StepsReady, Zenon
<1>3. t = yaml_parser_scan_to_next_token(s, lex)
  BY DEF yaml_parser_scan_to_next_token
<1>4. NextText(lex.kind) \in {"newline", "fresh", "plain", "any"}
  BY DEF NextText
<1>5. u \in ScannerRecord /\ ScanInv(u, Len(u.tokens)) /\ u.allowed \in BOOLEAN
  <2> HIDE DEF u
  <2>1. u \in ScannerRecord /\ ScanInv(u, Len(u.tokens))
    BY <1>2 DEF Ready, ScanInv
  <2> QED
    BY <2>1, ScanParts
<1>6. a \in BOOLEAN
  BY <1>1, <1>5
<1> HIDE DEF a, u
<1>7. Ready(t, b)
  <2>1. /\ t \in ScannerRecord /\ t.tokens = u.tokens /\ t.indents = u.indents
        /\ t.indent = u.indent /\ t.keys = u.keys /\ t.flow = u.flow
    BY <1>1, <1>4, <1>5, <1>6 DEF ScannerRecord
  <2> HIDE DEF t
  <2>2. Scans(u, t, Len(u.tokens))
    BY <1>5, <2>1, ScanSet
  <2> QED
    BY <1>2, <2>2, ScansReady, Zenon
<1> HIDE DEF t
<1> DEFINE f == yaml_parser_stale_simple_keys(t)
<1>8. Ready(f, b)
  BY <1>7, StepsReady
<1> HIDE DEF f
<1>9. Ready(Dispatch(yaml_parser_unroll_indent(f, lex.col), lex.kind), b)
  <2>1. lex.col \in -1..MaxCol
    BY <1>1, ScannerAssumption
  <2> QED
    BY <1>1, <1>8, <2>1, StepsReady, DispatchReady
<1> QED
  BY <1>3, <1>8, <1>9, Zenon DEF yaml_parser_fetch_next_token, f

-----------------------------------------------------------------------------
(* The parser's primitives, field by field. *)
Events == {"NO-EVENT", "STREAM-START",
           "STREAM-END", "DOCUMENT-START", "DOCUMENT-END", "SCALAR", "ALIAS",
           "SEQUENCE-START", "SEQUENCE-END", "MAPPING-START", "MAPPING-END"}

States == Outer \cup Inner
Props == SUBSET {"anchor", "tag", "custom"}

Shape ==
  [state : States, states : Seq(Returns), marks : Int, item : BOOLEAN, props : Props,
   version : BOOLEAN, custom : BOOLEAN, skip : BOOLEAN, event : Events, error : BOOLEAN]

(* q in the given state, with what the step has done so far. *)
Is(q, st, ss, m, it, pr, sk, ev) ==
  /\ q \in Shape /\ q.state = st /\ q.states = ss /\ q.marks = m /\ q.item = it /\ q.props = pr
  /\ q.skip = sk /\ q.event = ev /\ q.error = FALSE

LEMMA IsParts ==
  ASSUME NEW q, NEW st, NEW ss, NEW m, NEW it, NEW pr, NEW sk, NEW ev,
         Is(q, st, ss, m, it, pr, sk, ev)
  PROVE  /\ st \in States /\ ss \in Seq(Returns) /\ m \in Int /\ it \in BOOLEAN /\ pr \in Props
         /\ sk \in BOOLEAN /\ ev \in Events
BY DEF Is, Shape

LEMMA IsGo ==
  ASSUME NEW q, NEW st, NEW ss, NEW m, NEW it, NEW pr, NEW sk, NEW ev,
         Is(q, st, ss, m, it, pr, sk, ev), NEW r \in States
  PROVE  Is(Go(q, r), r, ss, m, FALSE, pr, sk, ev)
<1>1. PICK t : t = [q EXCEPT !.state = r, !.item = FALSE]
  OBVIOUS
<1>2. t = Go(q, r)
  BY <1>1 DEF Go
<1>3. Is(t, r, ss, m, FALSE, pr, sk, ev)
  BY <1>1 DEF Is, Shape
<1> QED
  BY <1>2, <1>3, Zenon

LEMMA IsPush ==
  ASSUME NEW q, NEW st, NEW ss, NEW m, NEW it, NEW pr, NEW sk, NEW ev,
         Is(q, st, ss, m, it, pr, sk, ev), NEW r \in Returns
  PROVE  Is(Push(q, r), st, Append(ss, r), m, it, pr, sk, ev)
<1>1. PICK t : t = [q EXCEPT !.states = Append(q.states, r)]
  OBVIOUS
<1>2. t = Push(q, r)
  BY <1>1 DEF Push
<1>3. Append(ss, r) \in Seq(Returns)
  BY IsParts, AppendProperties
<1>4. Is(t, st, Append(ss, r), m, it, pr, sk, ev)
  <2>1. PICK u : u = Append(ss, r)
    OBVIOUS
  <2>2. Is(t, st, u, m, it, pr, sk, ev)
    BY <1>1, <1>3, <2>1 DEF Is, Shape
  <2> QED
    BY <2>1, <2>2, Zenon
<1> QED
  BY <1>2, <1>4, Zenon

LEMMA LastFront ==
  ASSUME NEW T, NEW ss \in Seq(T), ss # << >>
  PROVE  /\ Len(ss) \in Nat /\ Len(ss) >= 1 /\ ss[Len(ss)] \in T
         /\ SubSeq(ss, 1, Len(ss) - 1) \in Seq(T)
         /\ Len(SubSeq(ss, 1, Len(ss) - 1)) = Len(ss) - 1
         /\ \A i \in 1..Len(ss) - 1 : SubSeq(ss, 1, Len(ss) - 1)[i] = ss[i]
         /\ ss = Append(SubSeq(ss, 1, Len(ss) - 1), ss[Len(ss)])
<1>1. Len(ss) \in Nat /\ Len(ss) # 0
  BY LenProperties, EmptySeq
<1>2. ss[Len(ss)] \in T
  BY <1>1, ElementOfSeq
<1> DEFINE f == SubSeq(ss, 1, Len(ss) - 1)
<1>3. f \in Seq(T) /\ Len(f) = Len(ss) - 1 /\ \A i \in 1..Len(ss) - 1 : f[i] = ss[i]
  <2>1. /\ 1 \in Int /\ Len(ss) - 1 \in Int
        /\ \A i \in 1..Len(ss) - 1 : ss[i] \in T
    BY <1>1, ElementOfSeq
  <2>2. /\ f \in Seq(T) /\ Len(f) = IF 1 <= Len(ss) - 1 THEN (Len(ss) - 1) - 1 + 1 ELSE 0
        /\ \A i \in 1..(Len(ss) - 1) - 1 + 1 : f[i] = ss[1 + i - 1]
    BY <2>1, SubSeqProperties
  <2> HIDE DEF f
  <2>3. Len(f) = Len(ss) - 1
    <3>1. PICK n, l : n = Len(ss) /\ l = Len(f)
      OBVIOUS
    <3>2. n \in Nat /\ n # 0 /\ l = IF 1 <= n - 1 THEN (n - 1) - 1 + 1 ELSE 0
      BY <1>1, <2>2, <3>1, Zenon
    <3>3. l = n - 1
      BY <3>2
    <3> QED
      BY <3>1, <3>3, Zenon
  <2>4. ASSUME NEW i \in 1..Len(ss) - 1 PROVE f[i] = ss[i]
    <3>1. i \in 1..(Len(ss) - 1) - 1 + 1 /\ 1 + i - 1 = i
      BY <1>1
    <3> QED
      BY <2>2, <3>1, Zenon
  <2> QED
    BY <2>2, <2>3, <2>4
<1> HIDE DEF f
<1>4. ss = Append(f, ss[Len(ss)])
  <2>1. PICK g : g = Append(f, ss[Len(ss)])
    OBVIOUS
  <2>2. /\ g \in Seq(T) /\ Len(g) = Len(ss) /\ g[Len(ss)] = ss[Len(ss)]
        /\ \A i \in 1..Len(ss) - 1 : g[i] = ss[i]
    BY <1>1, <1>2, <1>3, <2>1, AppendProperties
  <2>3. \A i \in 1..Len(ss) : g[i] = ss[i]
    BY <1>1, <2>2
  <2> QED
    BY <2>1, <2>2, <2>3, SeqEqual
<1> QED
  BY <1>1, <1>2, <1>3, <1>4 DEF f

Last(ss) == ss[Len(ss)]
Front(ss) == SubSeq(ss, 1, Len(ss) - 1)

LEMMA IsPop ==
  ASSUME NEW q, NEW st, NEW ss, NEW m, NEW it, NEW pr, NEW sk, NEW ev,
         Is(q, st, ss, m, it, pr, sk, ev), ss # << >>
  PROVE  Is(Pop(q), Last(ss), Front(ss), m, it, pr, sk, ev)
<1>1. Last(ss) \in States /\ Front(ss) \in Seq(Returns)
  <2>1. Last(ss) \in Returns /\ Front(ss) \in Seq(Returns)
    BY IsParts, LastFront DEF Last, Front
  <2>2. Returns \subseteq States
    BY DEF States, Returns, Outer, Inner
  <2> QED
    BY <2>1, <2>2
<1>2. q.states = ss
  BY DEF Is
<1>3. PICK t : t = [q EXCEPT !.state = Last(ss), !.states = Front(ss)]
  OBVIOUS
<1>4. t = Pop(q)
  BY <1>2, <1>3 DEF Pop, Last, Front, Is, Shape
<1>5. PICK l, f : l = Last(ss) /\ f = Front(ss)
  OBVIOUS
<1>6. Is(t, l, f, m, it, pr, sk, ev)
  BY <1>1, <1>3, <1>5 DEF Is, Shape
<1> QED
  BY <1>4, <1>5, <1>6, Zenon

LEMMA IsSkip ==
  ASSUME NEW q, NEW st, NEW ss, NEW m, NEW it, NEW pr, NEW sk, NEW ev,
         Is(q, st, ss, m, it, pr, sk, ev)
  PROVE  Is(Skip(q), st, ss, m, it, pr, TRUE, ev)
<1>1. PICK t : t = [q EXCEPT !.skip = TRUE]
  OBVIOUS
<1>2. t = Skip(q)
  BY <1>1 DEF Skip
<1>3. Is(t, st, ss, m, it, pr, TRUE, ev)
  BY <1>1 DEF Is, Shape
<1> QED
  BY <1>2, <1>3, Zenon

LEMMA IsEmit ==
  ASSUME NEW q, NEW st, NEW ss, NEW m, NEW it, NEW pr, NEW sk, NEW ev,
         Is(q, st, ss, m, it, pr, sk, ev), NEW e \in Events
  PROVE  Is(Emit(q, e), st, ss, m, FALSE, {}, sk, e)
<1>1. PICK t : t = [q EXCEPT !.event = e, !.props = {}, !.item = FALSE]
  OBVIOUS
<1>2. t = Emit(q, e)
  BY <1>1 DEF Emit
<1>3. {} \in Props
  BY DEF Props
<1>4. Is(t, st, ss, m, FALSE, {}, sk, e)
  BY <1>1, <1>3 DEF Is, Shape
<1> QED
  BY <1>2, <1>4, Zenon

LEMMA IsItem ==
  ASSUME NEW q, NEW st, NEW ss, NEW m, NEW it, NEW pr, NEW sk, NEW ev,
         Is(q, st, ss, m, it, pr, sk, ev)
  PROVE  Is(Item(q), st, ss, m, TRUE, pr, TRUE, ev)
<1>1. PICK u : u = Skip(q)
  OBVIOUS
<1>2. Is(u, st, ss, m, it, pr, TRUE, ev)
  BY <1>1, IsSkip, Zenon
<1>3. PICK t : t = [u EXCEPT !.item = TRUE]
  OBVIOUS
<1>4. t = Item(q)
  BY <1>1, <1>3 DEF Item
<1>5. Is(t, st, ss, m, TRUE, pr, TRUE, ev)
  BY <1>2, <1>3 DEF Is, Shape
<1> QED
  BY <1>4, <1>5, Zenon

-----------------------------------------------------------------------------
(* How the frames move when a node is complete. *)
Flip(type) ==
  CASE type = "CTX_MAPPING_KEY" -> "CTX_MAPPING_VALUE"
    [] type = "CTX_MAPPING_VALUE" -> "CTX_MAPPING_KEY"
    [] OTHER -> type

Advanced(f) == IF f = << >> THEN f ELSE Append(Front(f), Flip(Last(f)))

LEMMA AppendParts ==
  ASSUME NEW T, NEW a \in Seq(T), NEW x \in T
  PROVE  /\ Append(a, x) # << >> /\ Append(a, x) \in Seq(T) /\ Len(Append(a, x)) = Len(a) + 1
         /\ Last(Append(a, x)) = x /\ Front(Append(a, x)) = a
<1>1. PICK b : b = Append(a, x)
  OBVIOUS
<1>2. /\ b \in Seq(T) /\ b # << >> /\ Len(b) = Len(a) + 1 /\ Len(a) \in Nat
      /\ \A i \in 1..Len(a) : b[i] = a[i]
      /\ b[Len(a) + 1] = x
  BY <1>1, AppendProperties, LenProperties
<1>3. Last(b) = x
  BY <1>2 DEF Last
<1>4. /\ Front(b) \in Seq(T) /\ Len(Front(b)) = Len(b) - 1
      /\ \A i \in 1..Len(b) - 1 : Front(b)[i] = b[i]
  BY <1>2, LastFront DEF Front
<1>5. Front(b) = a
  <2>1. Len(Front(b)) = Len(a)
    BY <1>2, <1>4
  <2>2. \A i \in 1..Len(Front(b)) : Front(b)[i] = a[i]
    BY <1>2, <1>4
  <2> QED
    BY <1>4, <2>1, <2>2, SeqEqual, Zenon
<1> QED
  BY <1>1, <1>2, <1>3, <1>5, Zenon

LEMMA AdvancedAppend ==
  ASSUME NEW a \in Seq(CtxTypes), NEW x \in CtxTypes
  PROVE  Advanced(Append(a, x)) = Append(a, Flip(x))
BY AppendParts, Zenon DEF Advanced

(* A state's frames: a sequence around the mapping of a `key: value` entry *)
(* and the frame it is itself in.                                          *)
InEntry == {"FLOW_SEQUENCE_ENTRY_MAPPING_KEY", "FLOW_SEQUENCE_ENTRY_MAPPING_VALUE",
            "FLOW_SEQUENCE_ENTRY_MAPPING_END"}

InSequence == {"BLOCK_SEQUENCE_FIRST_ENTRY", "BLOCK_SEQUENCE_ENTRY", "INDENTLESS_SEQUENCE_ENTRY",
               "FLOW_SEQUENCE_FIRST_ENTRY", "FLOW_SEQUENCE_ENTRY"}

AtValue == {"BLOCK_MAPPING_VALUE", "FLOW_MAPPING_VALUE", "FLOW_MAPPING_EMPTY_VALUE",
            "FLOW_SEQUENCE_ENTRY_MAPPING_VALUE"}

Unframed == Outer \cup NodeStates \cup {"DOCUMENT_CONTENT"}

KeyType(onKey) == IF onKey THEN "CTX_MAPPING_KEY" ELSE "CTX_MAPPING_VALUE"

OwnType(state, now) ==
  IF state \in InSequence THEN "CTX_SEQUENCE"
  ELSE IF state \in AtValue THEN KeyType(~ now) ELSE KeyType(now)

Around(state) == IF state \in InEntry THEN << "CTX_SEQUENCE" >> ELSE << >>

LEMMA OwnTypes ==
  ASSUME NEW state
  PROVE  /\ OwnType(state, TRUE) \in CtxTypes /\ OwnType(state, FALSE) \in CtxTypes
         /\ Flip(OwnType(state, FALSE)) = OwnType(state, TRUE)
         /\ Around(state) \in Seq(CtxTypes)
<1>1. OwnType(state, TRUE) \in CtxTypes /\ OwnType(state, FALSE) \in CtxTypes
  BY DEF OwnType, KeyType, CtxTypes
<1>2. Flip(OwnType(state, FALSE)) = OwnType(state, TRUE)
  BY DEF OwnType, KeyType, Flip
<1>3. << "CTX_SEQUENCE" >> \in Seq(CtxTypes) /\ << >> \in Seq(CtxTypes)
  BY DEF CtxTypes
<1> QED
  BY <1>1, <1>2, <1>3, Zenon DEF Around

LEMMA FramesParts ==
  ASSUME NEW state \in States, NEW now \in BOOLEAN
  PROVE  /\ state \in Unframed => Frames(state, now) = << >>
         /\ state \notin Unframed =>
              Frames(state, now) = Around(state) \o << OwnType(state, now) >>
<1>1. state \in Unframed => Frames(state, now) = << >>
  BY DEF Unframed, Outer, NodeStates, Frames
<1>2. ASSUME state \notin Unframed
      PROVE  Frames(state, now) = Around(state) \o << OwnType(state, now) >>
  <2>1. \A k \in BOOLEAN : KeyFrame(k) = << KeyType(k) >>
    BY DEF KeyFrame, KeyType
  <2>2. \A x : << >> \o << x >> = << x >>
    OBVIOUS
  <2>3. CASE state \in InSequence
    <3>1. Frames(state, now) = << "CTX_SEQUENCE" >> /\ Around(state) = << >>
          /\ OwnType(state, now) = "CTX_SEQUENCE"
      BY <2>3 DEF Frames, InSequence, OwnType, Around, InEntry
    <3> QED
      BY <2>2, <3>1, Zenon
  <2>4. CASE state \in AtValue
    <3>1. OwnType(state, now) = KeyType(~ now)
      BY <2>4 DEF AtValue, InSequence, OwnType
    <3>2. CASE state = "FLOW_SEQUENCE_ENTRY_MAPPING_VALUE"
      <4>1. Frames(state, now) = << "CTX_SEQUENCE" >> \o KeyFrame(~ now)
        BY <3>2 DEF Frames
      <4>2. Around(state) = << "CTX_SEQUENCE" >>
        BY <3>2 DEF Around, InEntry
      <4> QED
        BY <2>1, <3>1, <4>1, <4>2, Zenon
    <3>3. CASE state # "FLOW_SEQUENCE_ENTRY_MAPPING_VALUE"
      <4>1. Frames(state, now) = KeyFrame(~ now)
        BY <2>4, <3>3 DEF Frames, AtValue
      <4>2. Around(state) = << >>
        BY <2>4, <3>3 DEF Around, InEntry, AtValue
      <4> QED
        BY <2>1, <2>2, <3>1, <4>1, <4>2, Zenon
    <3> QED
      BY <3>2, <3>3
  <2>5. CASE state \notin InSequence /\ state \notin AtValue
    <3>1. OwnType(state, now) = KeyType(now)
      BY <2>5 DEF OwnType
    <3>2. CASE state \in InEntry
      <4>1. Frames(state, now) = << "CTX_SEQUENCE" >> \o KeyFrame(now)
        BY <2>5, <3>2 DEF Frames, InEntry, AtValue
      <4>2. Around(state) = << "CTX_SEQUENCE" >>
        BY <3>2 DEF Around
      <4> QED
        BY <2>1, <3>1, <4>1, <4>2, Zenon
    <3>3. CASE state \notin InEntry
      <4>1. state \in {"BLOCK_MAPPING_FIRST_KEY", "BLOCK_MAPPING_KEY", "FLOW_MAPPING_FIRST_KEY",
                       "FLOW_MAPPING_KEY", "FLOW_MAPPING_AFTER_KEY"}
        BY <1>2, <2>5, <3>3 DEF States, Outer, Inner, NodeStates, FirstStates, Returns, Unframed,
                                InEntry, AtValue, InSequence
      <4>2. Frames(state, now) = KeyFrame(now)
        BY <4>1 DEF Frames
      <4>3. Around(state) = << >>
        BY <3>3 DEF Around
      <4> QED
        BY <2>1, <2>2, <3>1, <4>2, <4>3, Zenon
    <3> QED
      BY <3>2, <3>3
  <2> QED
    BY <2>3, <2>4, <2>5
<1> QED
  BY <1>1, <1>2

FramesAt(p) == FramesOf(p.states) \o Frames(p.state, TRUE)

LEMMA FramesOfSort ==
  ASSUME NEW s \in Seq(Returns)
  PROVE  FramesOf(s) \in Seq(CtxTypes)
<1>1. "DOCUMENT_END" \in Returns
  BY DEF Returns
<1> QED
  BY <1>1, FramesOfAppend

(* With the frames of a framed state appended. *)
LEMMA FramesWith ==
  ASSUME NEW s \in Seq(Returns), NEW state \in States \ Unframed, NEW now \in BOOLEAN
  PROVE  /\ FramesOf(s) \o Around(state) \in Seq(CtxTypes)
         /\ OwnType(state, now) \in CtxTypes
         /\ FramesOf(s) \o Frames(state, now) =
              Append(FramesOf(s) \o Around(state), OwnType(state, now))
<1>1. /\ FramesOf(s) \in Seq(CtxTypes) /\ Around(state) \in Seq(CtxTypes)
      /\ OwnType(state, now) \in CtxTypes
  BY FramesOfSort, OwnTypes
<1>2. PICK f, a, x : f = FramesOf(s) /\ a = Around(state) /\ x = OwnType(state, now)
  OBVIOUS
<1>3. Frames(state, now) = a \o << x >>
  BY <1>2, FramesParts
<1>4. f \in Seq(CtxTypes) /\ a \in Seq(CtxTypes) /\ x \in CtxTypes /\ << x >> \in Seq(CtxTypes)
  BY <1>1, <1>2
<1>5. (f \o a) \o << x >> = f \o (a \o << x >>) /\ f \o a \in Seq(CtxTypes)
  BY <1>4, ConcatAssociative, ConcatProperties
<1>6. Append(f \o a, x) = (f \o a) \o << x >>
  BY <1>4, <1>5, AppendIsConcat
<1> QED
  BY <1>1, <1>2, <1>3, <1>5, <1>6, Zenon

(* The stack without its last entry. *)
LEMMA StackedFront ==
  ASSUME NEW B, Stacked(B), B # << >>
  PROVE  /\ Stacked(Front(B)) /\ Last(B) \in Returns /\ B = Append(Front(B), Last(B))
         /\ Last(B) = "DOCUMENT_END" <=> Front(B) = << >>
         /\ Last(B) = "INDENTLESS_SEQUENCE_ENTRY" =>
              Front(B) # << >> /\ Last(Front(B)) \in MapStates
<1>1. B \in Seq(Returns) /\ DOMAIN B = 1..Len(B)
  BY LenProperties DEF Stacked
<1>2. /\ Len(B) \in Nat /\ Len(B) >= 1 /\ Last(B) \in Returns /\ Front(B) \in Seq(Returns)
      /\ Len(Front(B)) = Len(B) - 1 /\ \A i \in 1..Len(B) - 1 : Front(B)[i] = B[i]
      /\ B = Append(Front(B), Last(B)) /\ Last(B) = B[Len(B)]
  BY <1>1, LastFront DEF Last, Front
<1>3. DOMAIN Front(B) = 1..Len(B) - 1
  BY <1>2, LenProperties
<1>4. Stacked(Front(B))
  <2>1. \A i \in DOMAIN Front(B) : i \in DOMAIN B /\ Front(B)[i] = B[i]
    BY <1>1, <1>2, <1>3
  <2>2. \A i \in DOMAIN Front(B) : i > 1 => Front(B)[i - 1] = B[i - 1]
    BY <1>2, <1>3
  <2> QED
    BY <1>2, <2>1, <2>2 DEF Stacked
<1>5. Last(B) = "DOCUMENT_END" <=> Front(B) = << >>
  <2>1. Last(B) = "DOCUMENT_END" <=> Len(B) = 1
    BY <1>1, <1>2 DEF Stacked
  <2>2. Front(B) = << >> <=> Len(Front(B)) = 0
    <3>1. PICK g : g = Front(B)
      OBVIOUS
    <3>2. g \in Seq(Returns)
      BY <1>2, <3>1
    <3>3. g = << >> <=> Len(g) = 0
      BY <3>2, EmptySeq
    <3> QED
      BY <3>1, <3>3, Zenon
  <2> QED
    BY <1>2, <2>1, <2>2
<1>6. ASSUME Last(B) = "INDENTLESS_SEQUENCE_ENTRY"
      PROVE  Front(B) # << >> /\ Last(Front(B)) \in MapStates
  <2>1. Len(B) > 1 /\ B[Len(B) - 1] \in MapStates
    <3>1. Len(B) \in DOMAIN B /\ B[Len(B)] = "INDENTLESS_SEQUENCE_ENTRY"
      BY <1>1, <1>2, <1>6
    <3> QED
      BY <3>1, Zenon DEF Stacked
  <2>2. Last(Front(B)) = B[Len(B) - 1]
    BY <1>2, <2>1 DEF Last
  <2>3. Front(B) # << >>
    BY <1>5, <1>6
  <2> QED
    BY <2>1, <2>2, <2>3
<1> QED
  BY <1>2, <1>4, <1>5, <1>6

(* Completing a node advances the frames, and only the outermost node has  *)
(* none.                                                                   *)
LEMMA FramesLeaf ==
  ASSUME NEW B, Stacked(B), B # << >>
  PROVE  /\ FramesOf(Front(B)) \o Frames(Last(B), TRUE) = Advanced(FramesOf(B))
         /\ FramesOf(B) = << >> => Last(B) = "DOCUMENT_END"
         /\ FramesOf(Front(B)) \o Frames(Last(B), TRUE) = << >> => Last(B) = "DOCUMENT_END"
         /\ FramesOf(B) \in Seq(CtxTypes)
<1> DEFINE f == Front(B)
           r == Last(B)
<1>1. Stacked(f) /\ f \in Seq(Returns) /\ r \in Returns /\ B = Append(f, r)
      /\ (r = "DOCUMENT_END" <=> f = << >>)
  BY StackedFront DEF Stacked
<1>2. FramesOf(B) = FramesOf(f) \o Frames(r, FALSE)
  BY <1>1, FramesOfAppend
<1>3. FramesOf(B) \in Seq(CtxTypes)
  BY FramesOfSort DEF Stacked
<1> HIDE DEF f, r
<1>4. CASE r = "DOCUMENT_END"
  <2>1. Frames(r, TRUE) = << >> /\ Frames(r, FALSE) = << >>
    BY <1>4 DEF Frames
  <2>2. FramesOf(f) = << >>
    BY <1>1, <1>4, FramesOfEmpty, Zenon
  <2>3. << >> \o << >> = << >>
    OBVIOUS
  <2> QED
    BY <1>2, <1>3, <1>4, <2>1, <2>2, <2>3, Zenon DEF Advanced, f, r
<1>5. CASE r # "DOCUMENT_END"
  <2>1. r \in States \ Unframed
    BY <1>1, <1>5 DEF States, Inner, Outer, NodeStates, Returns, Unframed
  <2>2. PICK a : a = FramesOf(f) \o Around(r)
    OBVIOUS
  <2>3. /\ a \in Seq(CtxTypes) /\ OwnType(r, FALSE) \in CtxTypes /\ OwnType(r, TRUE) \in CtxTypes
        /\ FramesOf(f) \o Frames(r, FALSE) = Append(a, OwnType(r, FALSE))
        /\ FramesOf(f) \o Frames(r, TRUE) = Append(a, OwnType(r, TRUE))
    BY <1>1, <2>1, <2>2, FramesWith
  <2>4. Advanced(FramesOf(B)) = Append(a, OwnType(r, TRUE))
    BY <1>2, <2>3, AdvancedAppend, OwnTypes
  <2>5. Append(a, OwnType(r, FALSE)) # << >> /\ Append(a, OwnType(r, TRUE)) # << >>
    BY <2>3, AppendParts
  <2> QED
    BY <1>2, <1>3, <2>3, <2>4, <2>5, Zenon DEF f, r
<1> QED
  BY <1>4, <1>5

-----------------------------------------------------------------------------
(* What a step of the parser does to the rest: to the stack, to the        *)
(* collections that are open, to the frames, and to the number of steps    *)
(* without a token.                                                        *)
NodeEvents == {"SCALAR", "ALIAS", "SEQUENCE-START", "SEQUENCE-END", "MAPPING-START", "MAPPING-END"}
AllStates == BlockStates \cup FlowStates
Run(p) == Append(p.states, p.state)

HeadStep(q, token) == q.state \in FirstStates => ~ q.skip /\ token = StartOf(q.state)

CountStep(p, q, token) ==
  /\ Count(Run(q), BlockStates) = Count(Run(p), BlockStates) - IF q.skip THEN Weight(token) ELSE 0
  /\ q.marks = p.marks + Count(Run(q), AllStates) - Count(Run(p), AllStates)

IdleStep(p, q) == q.skip \/ MayIdle(p) + 1 <= MayIdle(q)

FrameStep(f, g, event) ==
  /\ event \in {"SCALAR", "ALIAS"} => g = Advanced(f)
  /\ event = "SEQUENCE-START" => g = Append(f, "CTX_SEQUENCE")
  /\ event = "MAPPING-START" => g = Append(f, "CTX_MAPPING_KEY")
  /\ event = "SEQUENCE-END" => f # << >> /\ Last(f) = "CTX_SEQUENCE" /\ g = Advanced(Front(f))
  /\ event = "MAPPING-END" => f # << >> /\ Last(f) = "CTX_MAPPING_KEY" /\ g = Advanced(Front(f))
  /\ event \notin NodeEvents => g = f

DocStep(p, q) ==
  /\ q.event \in NodeEvents =>
       p.states # << >> /\ (FramesAt(q) = << >> => q.state = "DOCUMENT_END")
  /\ q.event = "NO-EVENT" => /\ p.states = << >> <=> q.states = << >>
                             /\ q.states = << >> => q.state = p.state
  /\ q.event = "DOCUMENT-START" => p.states = << >> /\ q.states # << >>
  /\ q.event = "DOCUMENT-END" => p.state = "DOCUMENT_END" /\ q.state = "DOCUMENT_START"
  /\ q.event = "STREAM-START" => p.states = << >> /\ q.state = "IMPLICIT_DOCUMENT_START"
  /\ q.event = "STREAM-END" => p.states = << >>
  /\ q.event = "STREAM-END" <=> q.state = "END"

Steps(p, q, token) ==
  /\ q \in Shape /\ StackOf(q) /\ HeadStep(q, token) /\ CountStep(p, q, token)
  /\ IdleStep(p, q) /\ FrameStep(FramesAt(p), FramesAt(q), q.event) /\ DocStep(p, q)

(* At p a node is read that returns to the top of the stack B. *)
Reading(p, B) ==
  /\ Stacked(B) /\ B # << >> /\ p.states # << >> /\ FramesOf(B) = FramesAt(p)
  /\ Count(B, BlockStates) = Count(Run(p), BlockStates)
  /\ Count(B, AllStates) = Count(Run(p), AllStates)

LEMMA ParserParts ==
  ASSUME NEW p \in ParserRecord
  PROVE  /\ p.state \in States /\ p.states \in Seq(Returns) /\ p.marks \in Nat
         /\ Is(p, p.state, p.states, p.marks, p.item, p.props, FALSE, "NO-EVENT")
         /\ p.item \in BOOLEAN /\ p.props \in Props /\ p.version \in BOOLEAN /\ p.custom \in BOOLEAN
<1>1. /\ p.state \in States /\ p.states \in Seq(Returns) /\ p.marks \in Nat
      /\ p.item \in BOOLEAN /\ p.props \in Props /\ p.version \in BOOLEAN /\ p.custom \in BOOLEAN
      /\ p.skip = FALSE /\ p.event = "NO-EVENT" /\ p.error = FALSE
  BY DEF ParserRecord, States, Props
<1>2. p.marks \in Int /\ p.event \in Events
  BY <1>1 DEF Events
<1>3. p = [state |-> p.state, states |-> p.states, marks |-> p.marks, item |-> p.item,
           props |-> p.props, version |-> p.version, custom |-> p.custom, skip |-> p.skip,
           event |-> p.event, error |-> p.error]
  BY DEF ParserRecord
<1>4. p \in Shape
  BY <1>1, <1>2, <1>3 DEF Shape
<1> QED
  BY <1>1, <1>4, Zenon DEF Is

LEMMA ReturnsStates ==
  Returns \subseteq States /\ \A s \in Seq(Returns) : s \in Seq(States)
<1>1. Returns \subseteq States
  BY DEF States, Inner, Outer, Returns
<1>2. ASSUME NEW s \in Seq(Returns) PROVE s \in Seq(States)
  <2>1. Len(s) \in Nat /\ s \in [1..Len(s) -> Returns]
    BY LenProperties
  <2>2. s \in [1..Len(s) -> States]
    BY <1>1, <2>1
  <2> QED
    BY <2>1, <2>2, SeqDef
<1> QED
  BY <1>1, <1>2

LEMMA CountRun ==
  ASSUME NEW s \in Seq(Returns), NEW state \in States, NEW S
  PROVE  /\ Count(Append(s, state), S) = Count(s, S) + IF state \in S THEN 1 ELSE 0
         /\ Count(s, S) \in Nat
<1>1. s \in Seq(States)
  BY ReturnsStates
<1> QED
  BY <1>1, CountAppend, CountType

LEMMA AppendStacked ==
  ASSUME NEW s, Stacked(s), s # << >>, NEW r \in Returns \ {"DOCUMENT_END"},
         r = "INDENTLESS_SEQUENCE_ENTRY" => Last(s) \in MapStates
  PROVE  Stacked(Append(s, r))
<1>1. s \in Seq(Returns) /\ Len(s) \in Nat /\ Len(s) >= 1 /\ DOMAIN s = 1..Len(s)
  <2>1. s \in Seq(Returns)
    BY DEF Stacked
  <2> QED
    BY <2>1, LastFront, LenProperties
<1>2. PICK b : b = Append(s, r)
  OBVIOUS
<1>3. /\ b \in Seq(Returns) /\ Len(b) = Len(s) + 1 /\ DOMAIN b = 1..Len(s) + 1
      /\ b[Len(s) + 1] = r /\ \A i \in 1..Len(s) : b[i] = s[i]
  BY <1>1, <1>2, AppendProperties, LenProperties
<1>4. ASSUME NEW i \in DOMAIN b PROVE b[i] = "DOCUMENT_END" <=> i = 1
  <2>1. CASE i \in 1..Len(s)
    BY <1>1, <1>3, <2>1 DEF Stacked
  <2>2. CASE i = Len(s) + 1
    BY <1>1, <1>3, <2>2
  <2> QED
    BY <1>1, <1>3, <2>1, <2>2
<1>5. ASSUME NEW i \in DOMAIN b, b[i] = "INDENTLESS_SEQUENCE_ENTRY"
      PROVE  i > 1 /\ b[i - 1] \in MapStates
  <2>1. CASE i \in 1..Len(s)
    <3>1. s[i] = "INDENTLESS_SEQUENCE_ENTRY" /\ i \in DOMAIN s
      BY <1>1, <1>3, <1>5, <2>1
    <3>2. i > 1 /\ s[i - 1] \in MapStates
      BY <3>1, Zenon DEF Stacked
    <3>3. i - 1 \in 1..Len(s)
      BY <1>1, <2>1, <3>2
    <3> QED
      BY <1>3, <3>2, <3>3
  <2>2. CASE i = Len(s) + 1
    <3>1. r = "INDENTLESS_SEQUENCE_ENTRY" /\ i - 1 = Len(s) /\ i > 1 /\ Len(s) \in 1..Len(s)
      BY <1>1, <1>3, <1>5, <2>2
    <3> QED
      BY <1>3, <3>1 DEF Last
  <2> QED
    BY <1>1, <1>3, <2>1, <2>2
<1> QED
  BY <1>2, <1>3, <1>4, <1>5 DEF Stacked

(* The state a node returns to, for the states that read one. *)
Readers == {"BLOCK_SEQUENCE_ENTRY", "INDENTLESS_SEQUENCE_ENTRY", "BLOCK_MAPPING_KEY",
            "BLOCK_MAPPING_VALUE", "FLOW_SEQUENCE_ENTRY", "FLOW_SEQUENCE_ENTRY_MAPPING_KEY",
            "FLOW_SEQUENCE_ENTRY_MAPPING_VALUE", "FLOW_MAPPING_KEY", "FLOW_MAPPING_AFTER_KEY",
            "FLOW_MAPPING_VALUE", "FLOW_MAPPING_EMPTY_VALUE"}

ReturnTo(state) ==
  CASE state = "BLOCK_MAPPING_KEY" -> "BLOCK_MAPPING_VALUE"
    [] state = "BLOCK_MAPPING_VALUE" -> "BLOCK_MAPPING_KEY"
    [] state = "FLOW_SEQUENCE_ENTRY_MAPPING_KEY" -> "FLOW_SEQUENCE_ENTRY_MAPPING_VALUE"
    [] state = "FLOW_SEQUENCE_ENTRY_MAPPING_VALUE" -> "FLOW_SEQUENCE_ENTRY_MAPPING_END"
    [] state = "FLOW_MAPPING_KEY" -> "FLOW_MAPPING_EMPTY_VALUE"
    [] state = "FLOW_MAPPING_AFTER_KEY" -> "FLOW_MAPPING_VALUE"
    [] state \in {"FLOW_MAPPING_VALUE", "FLOW_MAPPING_EMPTY_VALUE"} -> "FLOW_MAPPING_KEY"
    [] state \in {"BLOCK_SEQUENCE_ENTRY", "INDENTLESS_SEQUENCE_ENTRY", "FLOW_SEQUENCE_ENTRY"} ->
         state

LEMMA ReturnFacts ==
  ASSUME NEW state \in Readers
  PROVE  /\ ReturnTo(state) \in Returns \ {"DOCUMENT_END"}
         /\ Frames(state, TRUE) = Frames(ReturnTo(state), FALSE)
         /\ state \in BlockStates <=> ReturnTo(state) \in BlockStates
         /\ state \in AllStates <=> ReturnTo(state) \in AllStates
         /\ ReturnTo(state) = "INDENTLESS_SEQUENCE_ENTRY" => state = "INDENTLESS_SEQUENCE_ENTRY"
         /\ state \in States \ Unframed
<1>1. ReturnTo(state) \in Returns \ {"DOCUMENT_END"}
  BY DEF Readers, ReturnTo, Returns
<1>2. (state \in BlockStates <=> ReturnTo(state) \in BlockStates)
      /\ (state \in AllStates <=> ReturnTo(state) \in AllStates)
  BY DEF Readers, ReturnTo, BlockStates, FlowStates, AllStates
<1>3. ReturnTo(state) = "INDENTLESS_SEQUENCE_ENTRY" => state = "INDENTLESS_SEQUENCE_ENTRY"
  BY DEF Readers, ReturnTo
<1>4. state \in States \ Unframed /\ ReturnTo(state) \in States \ Unframed
  BY DEF Readers, ReturnTo, States, Inner, Outer, NodeStates, FirstStates, Returns, Unframed
<1>5. OwnType(state, TRUE) = OwnType(ReturnTo(state), FALSE)
  BY DEF Readers, ReturnTo, OwnType, KeyType, InSequence, AtValue
<1>6. Around(state) = Around(ReturnTo(state))
  <2>1. state \in InEntry <=> ReturnTo(state) \in InEntry
    BY DEF Readers, ReturnTo, InEntry
  <2> QED
    BY <2>1, Zenon DEF Around
<1>7. Frames(state, TRUE) = Frames(ReturnTo(state), FALSE)
  BY <1>4, <1>5, <1>6, FramesParts
<1> QED
  BY <1>1, <1>2, <1>3, <1>4, <1>7

LEMMA ReadingPush ==
  ASSUME NEW p \in ParserRecord, StackOf(p), p.state \in Readers
  PROVE  Reading(p, Append(p.states, ReturnTo(p.state)))
<1> DEFINE r == ReturnTo(p.state)
<1>1. p.state \in States /\ p.states \in Seq(Returns)
  BY ParserParts
<1>2. /\ r \in Returns \ {"DOCUMENT_END"} /\ r \in States
      /\ Frames(p.state, TRUE) = Frames(r, FALSE)
      /\ p.state \in BlockStates <=> r \in BlockStates
      /\ p.state \in AllStates <=> r \in AllStates
      /\ r = "INDENTLESS_SEQUENCE_ENTRY" => p.state = "INDENTLESS_SEQUENCE_ENTRY"
  BY ReturnFacts, ReturnsStates
<1> HIDE DEF r
<1>3. p.states # << >> /\ Stacked(p.states)
  <2>1. p.state \notin Outer
    BY DEF Readers, Outer
  <2> QED
    BY <2>1 DEF StackOf
<1>4. Stacked(Append(p.states, r))
  <2>1. r = "INDENTLESS_SEQUENCE_ENTRY" => Last(p.states) \in MapStates
    BY <1>2 DEF StackOf, Last
  <2> QED
    BY <1>2, <1>3, <2>1, AppendStacked
<1>5. FramesOf(Append(p.states, r)) = FramesAt(p)
  BY <1>1, <1>2, FramesOfAppend DEF FramesAt
<1>6. ASSUME NEW S, p.state \in S <=> r \in S
      PROVE  Count(Append(p.states, r), S) = Count(Run(p), S)
  BY <1>1, <1>2, <1>6, CountRun DEF Run
<1>7. Append(p.states, r) # << >>
  BY <1>1, <1>2, AppendParts
<1> QED
  BY <1>2, <1>3, <1>4, <1>5, <1>6, <1>7 DEF Reading, r

LEMMA ReadingSelf ==
  ASSUME NEW p \in ParserRecord, StackOf(p), p.state \in NodeStates \cup {"DOCUMENT_CONTENT"}
  PROVE  Reading(p, p.states)
<1>1. p.state \in States /\ p.states \in Seq(Returns)
  BY ParserParts
<1>2. p.state \notin Outer /\ p.state \in Unframed /\ p.state \notin BlockStates /\ p.state \notin AllStates
  BY DEF NodeStates, Outer, Unframed, BlockStates, FlowStates, AllStates
<1>3. p.states # << >> /\ Stacked(p.states)
  BY <1>2 DEF StackOf
<1>4. FramesOf(p.states) = FramesAt(p)
  <2>1. Frames(p.state, TRUE) = << >>
    BY <1>1, <1>2, FramesParts
  <2>2. FramesOf(p.states) \in Seq(CtxTypes)
    BY <1>1, FramesOfSort
  <2> QED
    BY <2>1, <2>2, ConcatEmptySeq DEF FramesAt
<1>5. /\ Count(p.states, BlockStates) = Count(Run(p), BlockStates)
      /\ Count(p.states, AllStates) = Count(Run(p), AllStates)
  BY <1>1, <1>2, CountRun DEF Run
<1> QED
  BY <1>3, <1>4, <1>5 DEF Reading

LEMMA CountsKept ==
  ASSUME NEW p \in ParserRecord, NEW q, NEW token, q.marks = p.marks,
         q.skip => Weight(token) = 0,
         Count(Run(q), BlockStates) = Count(Run(p), BlockStates),
         Count(Run(q), AllStates) = Count(Run(p), AllStates)
  PROVE  CountStep(p, q, token)
<1>1. p.marks \in Nat /\ p.states \in Seq(Returns) /\ p.state \in States
  BY ParserParts
<1>2. Run(p) \in Seq(States)
  BY <1>1, ReturnsStates, AppendProperties DEF Run
<1>3. Count(Run(p), BlockStates) \in Nat /\ Count(Run(p), AllStates) \in Nat
  BY <1>2, CountType
<1>4. PICK w : w = IF q.skip THEN Weight(token) ELSE 0
  OBVIOUS
<1>5. w = 0
  BY <1>4, Zenon
<1> QED
  BY <1>1, <1>3, <1>4, <1>5 DEF CountStep

(* A scalar or an alias, read or empty: the parser returns. *)
LEMMA LeafStep ==
  ASSUME NEW p \in ParserRecord, NEW B, Reading(p, B), NEW q, NEW token, NEW sk \in BOOLEAN,
         NEW ev \in {"SCALAR", "ALIAS"}, Is(q, Last(B), Front(B), p.marks, FALSE, {}, sk, ev),
         sk => Weight(token) = 0, sk \/ MayIdle(p) + 1 <= Idle(Last(B))
  PROVE  Steps(p, q, token)
<1>1. /\ Stacked(B) /\ B # << >> /\ FramesOf(B) = FramesAt(p) /\ p.states # << >>
      /\ Count(B, BlockStates) = Count(Run(p), BlockStates)
      /\ Count(B, AllStates) = Count(Run(p), AllStates)
  BY DEF Reading
<1>2. /\ Stacked(Front(B)) /\ Last(B) \in Returns /\ B = Append(Front(B), Last(B))
      /\ Last(B) = "DOCUMENT_END" <=> Front(B) = << >>
      /\ Last(B) = "INDENTLESS_SEQUENCE_ENTRY" => Last(Front(B)) \in MapStates
  BY <1>1, StackedFront
<1>3. /\ q \in Shape /\ q.state = Last(B) /\ q.states = Front(B) /\ q.marks = p.marks
      /\ q.item = FALSE /\ q.props = {} /\ q.skip = sk /\ q.event = ev
  BY DEF Is
<1>4. PICK l \in Returns : l = Last(B)
  BY <1>2
<1>5. StackOf(q)
  <2>1. l \in Outer <=> l = "DOCUMENT_END"
    BY DEF Outer, Returns
  <2>2. l # "BLOCK_NODE_OR_INDENTLESS_SEQUENCE"
    BY DEF Returns
  <2>3. q.state \in Outer <=> q.states = << >>
    BY <1>2, <1>3, <1>4, <2>1
  <2>4. q.state \in {"INDENTLESS_SEQUENCE_ENTRY", "BLOCK_NODE_OR_INDENTLESS_SEQUENCE"} =>
          q.states[Len(q.states)] \in MapStates
    BY <1>2, <1>3, <1>4, <2>2 DEF Last
  <2> QED
    BY <1>2, <1>3, <2>3, <2>4 DEF StackOf
<1>6. HeadStep(q, token)
  <2>1. l \notin FirstStates
    BY DEF Returns, FirstStates
  <2> QED
    BY <1>3, <1>4, <2>1 DEF HeadStep
<1>7. CountStep(p, q, token)
  <2>1. Run(q) = B
    BY <1>2, <1>3 DEF Run
  <2> QED
    BY <1>1, <1>3, <2>1, CountsKept
<1>8. IdleStep(p, q)
  BY <1>3 DEF IdleStep, MayIdle
<1>9. /\ FramesAt(q) = Advanced(FramesAt(p))
      /\ FramesAt(q) = << >> => q.state = "DOCUMENT_END"
  BY <1>1, <1>3, FramesLeaf DEF FramesAt
<1>10. FrameStep(FramesAt(p), FramesAt(q), q.event) /\ DocStep(p, q)
  <2>1. l # "END"
    BY DEF Returns
  <2>2. q.event \in {"SCALAR", "ALIAS"} /\ q.event \in NodeEvents
    BY <1>3 DEF NodeEvents
  <2>3. q.event \notin {"SEQUENCE-START", "MAPPING-START", "SEQUENCE-END", "MAPPING-END", "NO-EVENT",
                        "DOCUMENT-START", "DOCUMENT-END", "STREAM-START", "STREAM-END"}
    BY <1>3
  <2>4. FrameStep(FramesAt(p), FramesAt(q), q.event)
    BY <1>9, <2>2, <2>3 DEF FrameStep
  <2>5. DocStep(p, q)
    BY <1>1, <1>3, <1>4, <1>9, <2>1, <2>3 DEF DocStep
  <2> QED
    BY <2>4, <2>5
<1> QED
  BY <1>3, <1>5, <1>6, <1>7, <1>8, <1>10 DEF Steps

(* A collection starts; its token stays where it is. *)
LEMMA BeginStep ==
  ASSUME NEW p \in ParserRecord, NEW B, Reading(p, B), NEW q, NEW token,
         NEW st \in FirstStates \cup {"INDENTLESS_SEQUENCE_ENTRY"}, NEW ev,
         Is(q, st, B, p.marks, FALSE, {}, FALSE, ev),
         st \in FirstStates => token = StartOf(st),
         st = "INDENTLESS_SEQUENCE_ENTRY" => Last(B) \in MapStates,
         ev = IF st \in InSequence THEN "SEQUENCE-START" ELSE "MAPPING-START",
         MayIdle(p) + 1 <= Idle(st)
  PROVE  Steps(p, q, token)
<1>1. /\ Stacked(B) /\ B # << >> /\ FramesOf(B) = FramesAt(p) /\ p.states # << >>
      /\ Count(B, BlockStates) = Count(Run(p), BlockStates)
      /\ Count(B, AllStates) = Count(Run(p), AllStates) /\ B \in Seq(Returns)
  BY DEF Reading, Stacked
<1>2. /\ q \in Shape /\ q.state = st /\ q.states = B /\ q.marks = p.marks
      /\ q.item = FALSE /\ q.props = {} /\ q.skip = FALSE /\ q.event = ev
  BY DEF Is
<1>3. /\ st \in States \ Unframed /\ st \notin Outer /\ st \notin BlockStates /\ st \notin AllStates
      /\ st # "BLOCK_NODE_OR_INDENTLESS_SEQUENCE" /\ st # "END" /\ st \notin InEntry
      /\ st \notin AtValue
  BY DEF FirstStates, States, Inner, Returns, Outer, NodeStates, BlockStates, FlowStates, AllStates,
         Unframed, InEntry, AtValue
<1>4. StackOf(q)
  BY <1>1, <1>2, <1>3 DEF StackOf, Last
<1>5. HeadStep(q, token)
  BY <1>2 DEF HeadStep
<1>6. CountStep(p, q, token)
  <2>1. Count(Run(q), BlockStates) = Count(B, BlockStates) /\ Count(Run(q), AllStates) = Count(B, AllStates)
    BY <1>1, <1>2, <1>3, CountRun DEF Run
  <2> QED
    BY <1>1, <1>2, <2>1, CountsKept
<1>7. IdleStep(p, q)
  BY <1>2 DEF IdleStep, MayIdle
<1>8. /\ FramesAt(q) = Append(FramesAt(p), OwnType(st, TRUE)) /\ FramesAt(q) # << >>
  <2>1. /\ FramesOf(B) \o Around(st) \in Seq(CtxTypes) /\ OwnType(st, TRUE) \in CtxTypes
        /\ FramesOf(B) \o Frames(st, TRUE) = Append(FramesOf(B) \o Around(st), OwnType(st, TRUE))
    BY <1>1, <1>3, FramesWith
  <2>2. Around(st) = << >>
    BY <1>3 DEF Around
  <2>3. FramesOf(B) \o << >> = FramesOf(B)
    BY <1>1, FramesOfSort, ConcatEmptySeq
  <2>4. FramesAt(q) = Append(FramesOf(B), OwnType(st, TRUE))
    BY <1>2, <2>1, <2>2, <2>3, Zenon DEF FramesAt
  <2> QED
    BY <1>1, <2>1, <2>2, <2>3, <2>4, AppendParts, ZenonT(30)
<1>9. /\ ev = "SEQUENCE-START" \/ ev = "MAPPING-START"
      /\ ev = "SEQUENCE-START" => OwnType(st, TRUE) = "CTX_SEQUENCE"
      /\ ev = "MAPPING-START" => OwnType(st, TRUE) = "CTX_MAPPING_KEY"
  BY <1>3 DEF OwnType, KeyType
<1>10. FrameStep(FramesAt(p), FramesAt(q), q.event)
  <2>1. q.event \notin {"SCALAR", "ALIAS", "SEQUENCE-END", "MAPPING-END"} /\ q.event \in NodeEvents
    BY <1>2, <1>9 DEF NodeEvents
  <2> QED
    BY <1>2, <1>8, <1>9, <2>1 DEF FrameStep
<1>11. DocStep(p, q)
  BY <1>1, <1>2, <1>3, <1>8, <1>9 DEF DocStep
<1> QED
  BY <1>2, <1>4, <1>5, <1>6, <1>7, <1>10, <1>11 DEF Steps

(* An anchor or a tag. *)
LEMMA PropertyStep ==
  ASSUME NEW p \in ParserRecord, NEW B, Reading(p, B), NEW q, NEW token, NEW st \in NodeStates,
         NEW pr, pr # {}, Is(q, st, B, p.marks, FALSE, pr, TRUE, "NO-EVENT"), Weight(token) = 0,
         st = "BLOCK_NODE_OR_INDENTLESS_SEQUENCE" => Last(B) \in MapStates
  PROVE  Steps(p, q, token)
<1>1. /\ Stacked(B) /\ B # << >> /\ FramesOf(B) = FramesAt(p) /\ p.states # << >>
      /\ Count(B, BlockStates) = Count(Run(p), BlockStates)
      /\ Count(B, AllStates) = Count(Run(p), AllStates) /\ B \in Seq(Returns)
  BY DEF Reading, Stacked
<1>2. /\ q \in Shape /\ q.state = st /\ q.states = B /\ q.marks = p.marks
      /\ q.item = FALSE /\ q.props = pr /\ q.skip = TRUE /\ q.event = "NO-EVENT"
  BY DEF Is
<1>3. /\ st \in States /\ st \in Unframed /\ st \notin Outer /\ st \notin BlockStates /\ st \notin AllStates
      /\ st # "INDENTLESS_SEQUENCE_ENTRY" /\ st # "END" /\ st \notin FirstStates
  BY DEF FirstStates, States, Inner, Outer, NodeStates, BlockStates, FlowStates, AllStates, Unframed
<1>4. StackOf(q)
  BY <1>1, <1>2, <1>3 DEF StackOf, Last
<1>5. HeadStep(q, token) /\ IdleStep(p, q)
  BY <1>2, <1>3 DEF HeadStep, IdleStep
<1>6. CountStep(p, q, token)
  <2>1. Count(Run(q), BlockStates) = Count(B, BlockStates) /\ Count(Run(q), AllStates) = Count(B, AllStates)
    BY <1>1, <1>2, <1>3, CountRun DEF Run
  <2> QED
    BY <1>1, <1>2, <2>1, CountsKept
<1>7. FramesAt(q) = FramesAt(p)
  <2>1. Frames(st, TRUE) = << >>
    BY <1>3, FramesParts
  <2>2. FramesOf(B) \o << >> = FramesOf(B)
    BY <1>1, FramesOfSort, ConcatEmptySeq
  <2> QED
    BY <1>1, <1>2, <2>1, <2>2, Zenon DEF FramesAt
<1>8. FrameStep(FramesAt(p), FramesAt(q), q.event)
  BY <1>2, <1>7 DEF FrameStep, NodeEvents
<1>9. DocStep(p, q)
  BY <1>1, <1>2, <1>3 DEF DocStep, NodeEvents
<1> QED
  BY <1>2, <1>4, <1>5, <1>6, <1>8, <1>9 DEF Steps

Enders == {"BLOCK_SEQUENCE_ENTRY", "BLOCK_MAPPING_KEY", "FLOW_SEQUENCE_ENTRY", "FLOW_MAPPING_KEY",
           "INDENTLESS_SEQUENCE_ENTRY"}

(* A collection ends; one without indentation leaves the token. *)
LEMMA FinishStep ==
  ASSUME NEW p \in ParserRecord, StackOf(p), p.state \in Enders, NEW q, NEW token, NEW m \in Int,
         NEW sk \in BOOLEAN, NEW ev, Is(q, Last(p.states), Front(p.states), m, FALSE, {}, sk, ev),
         ev = IF p.state \in InSequence THEN "SEQUENCE-END" ELSE "MAPPING-END",
         IF p.state = "INDENTLESS_SEQUENCE_ENTRY" THEN sk = FALSE /\ m = p.marks
         ELSE sk = TRUE /\ m = p.marks - 1 /\ Weight(token) = IF p.state \in BlockStates THEN 1 ELSE 0
  PROVE  Steps(p, q, token)
<1> DEFINE B == p.states
<1>1. /\ p.state \in States /\ B \in Seq(Returns) /\ p.marks \in Nat
  BY ParserParts
<1>2. /\ p.state \in States \ Unframed /\ p.state \notin Outer /\ p.state \notin InEntry /\ p.state \notin AtValue
      /\ (p.state \in AllStates <=> p.state # "INDENTLESS_SEQUENCE_ENTRY")
      /\ (p.state = "INDENTLESS_SEQUENCE_ENTRY" => p.state \notin BlockStates)
  BY DEF Enders, States, Inner, Outer, NodeStates, FirstStates, Returns, Unframed, InEntry, AtValue,
         AllStates, BlockStates, FlowStates
<1>3. B # << >> /\ Stacked(B)
  BY <1>2 DEF StackOf
<1>4. /\ Stacked(Front(B)) /\ Last(B) \in Returns /\ B = Append(Front(B), Last(B))
      /\ Last(B) = "DOCUMENT_END" <=> Front(B) = << >>
      /\ Last(B) = "INDENTLESS_SEQUENCE_ENTRY" => Last(Front(B)) \in MapStates
  BY <1>3, StackedFront
<1>5. /\ q \in Shape /\ q.state = Last(B) /\ q.states = Front(B) /\ q.marks = m
      /\ q.item = FALSE /\ q.props = {} /\ q.skip = sk /\ q.event = ev
  BY DEF Is
<1>6. PICK l \in Returns : l = Last(B)
  BY <1>4
<1>7. StackOf(q)
  <2>1. l \in Outer <=> l = "DOCUMENT_END"
    BY DEF Outer, Returns
  <2>2. l # "BLOCK_NODE_OR_INDENTLESS_SEQUENCE"
    BY DEF Returns
  <2>3. q.state \in Outer <=> q.states = << >>
    BY <1>4, <1>5, <1>6, <2>1
  <2>4. q.state \in {"INDENTLESS_SEQUENCE_ENTRY", "BLOCK_NODE_OR_INDENTLESS_SEQUENCE"} =>
          q.states[Len(q.states)] \in MapStates
    BY <1>4, <1>5, <1>6, <2>2 DEF Last
  <2> QED
    BY <1>4, <1>5, <2>3, <2>4 DEF StackOf
<1>8. HeadStep(q, token)
  <2>1. l \notin FirstStates
    BY DEF Returns, FirstStates
  <2> QED
    BY <1>5, <1>6, <2>1 DEF HeadStep
<1>9. CountStep(p, q, token)
  <2>1. Run(q) = B
    BY <1>4, <1>5 DEF Run
  <2>2. \A S : Count(Run(p), S) = Count(B, S) + (IF p.state \in S THEN 1 ELSE 0) /\ Count(B, S) \in Nat
    BY <1>1, CountRun DEF Run
  <2>3. PICK n, k, c, d : /\ n = Count(B, BlockStates) /\ k = Count(B, AllStates)
                          /\ c = Count(Run(p), BlockStates) /\ d = Count(Run(p), AllStates)
    OBVIOUS
  <2>4. /\ n \in Nat /\ k \in Nat /\ c = n + (IF p.state \in BlockStates THEN 1 ELSE 0)
        /\ d = k + (IF p.state \in AllStates THEN 1 ELSE 0)
    BY <2>2, <2>3, Zenon
  <2>5. PICK w : w = IF sk THEN Weight(token) ELSE 0
    OBVIOUS
  <2>6. n = c - w /\ m = p.marks + k - d
    <3>1. CASE p.state = "INDENTLESS_SEQUENCE_ENTRY"
      BY <1>1, <1>2, <2>4, <2>5, <3>1
    <3>2. CASE p.state # "INDENTLESS_SEQUENCE_ENTRY"
      BY <1>1, <1>2, <2>4, <2>5, <3>2
    <3> QED
      BY <3>1, <3>2
  <2> QED
    BY <1>5, <2>1, <2>3, <2>5, <2>6, Zenon DEF CountStep
<1>10. IdleStep(p, q)
  <2>1. CASE sk
    BY <1>5, <2>1 DEF IdleStep
  <2>2. CASE ~ sk
    <3>1. p.state = "INDENTLESS_SEQUENCE_ENTRY"
      BY <2>2
    <3>2. MayIdle(p) \in {0, 1}
      BY <3>1 DEF MayIdle, Idle, FirstStates
    <3>3. q.state \in MapStates
      BY <1>5, <3>1 DEF StackOf, Last
    <3>4. MayIdle(q) \in {2, 3}
      BY <1>5, <3>3 DEF MayIdle, Idle, MapStates, FirstStates
    <3> QED
      BY <3>2, <3>4 DEF IdleStep
  <2> QED
    BY <2>1, <2>2
<1>11. FramesAt(p) # << >> /\ Last(FramesAt(p)) = OwnType(p.state, TRUE)
       /\ Front(FramesAt(p)) = FramesOf(B)
  <2>1. /\ FramesOf(B) \o Around(p.state) \in Seq(CtxTypes) /\ OwnType(p.state, TRUE) \in CtxTypes
        /\ FramesAt(p) = Append(FramesOf(B) \o Around(p.state), OwnType(p.state, TRUE))
    BY <1>1, <1>2, FramesWith DEF FramesAt
  <2>2. Around(p.state) = << >>
    BY <1>2 DEF Around
  <2>3. FramesOf(B) \o << >> = FramesOf(B)
    BY <1>1, FramesOfSort, ConcatEmptySeq
  <2>4. FramesAt(p) = Append(FramesOf(B), OwnType(p.state, TRUE)) /\ FramesOf(B) \in Seq(CtxTypes)
    BY <1>1, <2>1, <2>2, <2>3, FramesOfSort
  <2>5. PICK f, x : f = FramesOf(B) /\ x = OwnType(p.state, TRUE)
    OBVIOUS
  <2>6. f \in Seq(CtxTypes) /\ x \in CtxTypes
    BY <2>1, <2>4, <2>5
  <2>7. Append(f, x) # << >> /\ Last(Append(f, x)) = x /\ Front(Append(f, x)) = f
    BY <2>6, AppendParts
  <2> QED
    BY <2>4, <2>5, <2>7, Zenon
<1>12. /\ FramesAt(q) = Advanced(FramesOf(B))
       /\ FramesAt(q) = << >> => q.state = "DOCUMENT_END"
  BY <1>3, <1>5, FramesLeaf DEF FramesAt
<1>13. /\ ev = "SEQUENCE-END" \/ ev = "MAPPING-END"
       /\ ev = "SEQUENCE-END" => OwnType(p.state, TRUE) = "CTX_SEQUENCE"
       /\ ev = "MAPPING-END" => OwnType(p.state, TRUE) = "CTX_MAPPING_KEY"
  BY <1>2 DEF OwnType, KeyType
<1>14. FrameStep(FramesAt(p), FramesAt(q), q.event)
  <2>1. q.event \notin {"SCALAR", "ALIAS", "SEQUENCE-START", "MAPPING-START"} /\ q.event \in NodeEvents
    BY <1>5, <1>13 DEF NodeEvents
  <2> QED
    BY <1>5, <1>11, <1>12, <1>13, <2>1 DEF FrameStep
<1>15. DocStep(p, q)
  <2>1. l # "END"
    BY DEF Returns
  <2> QED
    BY <1>3, <1>5, <1>6, <1>12, <1>13, <2>1 DEF DocStep
<1> QED
  BY <1>5, <1>7, <1>8, <1>9, <1>10, <1>14, <1>15 DEF Steps

(* A token is taken between two nodes. *)
LEMMA StayStep ==
  ASSUME NEW p \in ParserRecord, StackOf(p), p.states # << >>, NEW q, NEW token, NEW m \in Int,
         NEW it \in BOOLEAN, NEW st \in States \ (Unframed \cup FirstStates),
         Is(q, st, p.states, m, it, {}, TRUE, "NO-EVENT"), Weight(token) \in Int,
         p.state \notin Unframed, st = "INDENTLESS_SEQUENCE_ENTRY" => p.state = st,
         Around(st) = Around(p.state), OwnType(st, TRUE) = OwnType(p.state, TRUE),
         (IF st \in BlockStates THEN 1 ELSE 0) = (IF p.state \in BlockStates THEN 1 ELSE 0) - Weight(token),
         m = p.marks + (IF st \in AllStates THEN 1 ELSE 0) - (IF p.state \in AllStates THEN 1 ELSE 0)
  PROVE  Steps(p, q, token)
<1>1. /\ p.state \in States /\ p.states \in Seq(Returns) /\ p.marks \in Nat /\ Stacked(p.states)
  BY ParserParts DEF StackOf
<1>2. /\ q \in Shape /\ q.state = st /\ q.states = p.states /\ q.marks = m
      /\ q.item = it /\ q.props = {} /\ q.skip = TRUE /\ q.event = "NO-EVENT"
  BY DEF Is
<1>3. st \notin Outer /\ st \notin NodeStates /\ st # "END" /\ st # "BLOCK_NODE_OR_INDENTLESS_SEQUENCE"
  BY DEF Unframed, Outer, NodeStates
<1>4. StackOf(q)
  BY <1>1, <1>2, <1>3 DEF StackOf
<1>5. HeadStep(q, token) /\ IdleStep(p, q)
  BY <1>2 DEF HeadStep, IdleStep
<1>6. CountStep(p, q, token)
  <2>1. ASSUME NEW S
        PROVE  /\ Count(Run(p), S) = Count(p.states, S) + (IF p.state \in S THEN 1 ELSE 0)
               /\ Count(Run(q), S) = Count(p.states, S) + (IF st \in S THEN 1 ELSE 0)
               /\ Count(p.states, S) \in Nat
    <3>1. st \in States /\ Run(q) = Append(p.states, st)
      BY <1>2 DEF Run
    <3>2. PICK s, t : s = p.states /\ t = p.state
      OBVIOUS
    <3>3. s \in Seq(Returns) /\ t \in States
      BY <1>1, <3>2
    <3>4. /\ Count(Append(s, t), S) = Count(s, S) + (IF t \in S THEN 1 ELSE 0) /\ Count(s, S) \in Nat
          /\ Count(Append(s, st), S) = Count(s, S) + (IF st \in S THEN 1 ELSE 0)
      BY <3>1, <3>3, CountRun
    <3> QED
      BY <3>1, <3>2, <3>4, Zenon DEF Run
  <2>2. PICK n, k : n = Count(p.states, BlockStates) /\ k = Count(p.states, AllStates)
    OBVIOUS
  <2>3. /\ n \in Nat /\ k \in Nat
        /\ Count(Run(p), BlockStates) = n + (IF p.state \in BlockStates THEN 1 ELSE 0)
        /\ Count(Run(q), BlockStates) = n + (IF st \in BlockStates THEN 1 ELSE 0)
        /\ Count(Run(p), AllStates) = k + (IF p.state \in AllStates THEN 1 ELSE 0)
        /\ Count(Run(q), AllStates) = k + (IF st \in AllStates THEN 1 ELSE 0)
    BY <2>1, <2>2, Zenon
  <2> QED
    BY <1>1, <1>2, <2>3 DEF CountStep
<1>7. FramesAt(q) = FramesAt(p)
  <2>1. st \in States \ Unframed /\ p.state \in States \ Unframed
    BY <1>1
  <2>2. Frames(st, TRUE) = Around(st) \o << OwnType(st, TRUE) >>
    BY <2>1, FramesParts
  <2>3. Frames(p.state, TRUE) = Around(p.state) \o << OwnType(p.state, TRUE) >>
    BY <2>1, FramesParts
  <2> QED
    BY <1>2, <2>2, <2>3, Zenon DEF FramesAt
<1>8. FrameStep(FramesAt(p), FramesAt(q), q.event)
  BY <1>2, <1>7 DEF FrameStep, NodeEvents
<1>9. DocStep(p, q)
  BY <1>1, <1>2, <1>3 DEF DocStep, NodeEvents
<1> QED
  BY <1>2, <1>4, <1>5, <1>6, <1>8, <1>9 DEF Steps

LEMMA OuterFrames ==
  ASSUME NEW q, q.state \in Unframed, q.state \in States,
         q.states = << >> \/ q.states = << "DOCUMENT_END" >>
  PROVE  FramesAt(q) = << >>
<1>1. Frames(q.state, TRUE) = << >>
  BY FramesParts
<1>2. FramesOf(<< "DOCUMENT_END" >>) = << >>
  <2>1. "DOCUMENT_END" \in Returns /\ << >> \in Seq(Returns) /\ Append(<< >>, "DOCUMENT_END") = << "DOCUMENT_END" >>
    BY DEF Returns
  <2>2. Frames("DOCUMENT_END", FALSE) = << >>
    BY DEF Frames
  <2>3. FramesOf(Append(<< >>, "DOCUMENT_END")) = FramesOf(<< >>) \o Frames("DOCUMENT_END", FALSE)
    BY <2>1, FramesOfAppend, Zenon
  <2>4. << >> \o << >> = << >>
    OBVIOUS
  <2> QED
    BY <2>1, <2>2, <2>3, <2>4, FramesOfEmpty, Zenon
<1>3. FramesOf(q.states) = << >>
  BY <1>2, FramesOfEmpty, Zenon
<1>4. << >> \o << >> = << >>
  OBVIOUS
<1> QED
  BY <1>1, <1>3, <1>4, Zenon DEF FramesAt

LEMMA OuterCounts ==
  ASSUME NEW q, q.state \in Unframed, q.state \in States,
         q.states = << >> \/ q.states = << "DOCUMENT_END" >>
  PROVE  Count(Run(q), BlockStates) = 0 /\ Count(Run(q), AllStates) = 0
<1>1. q.states \in Seq(Returns)
  <2>1. << >> \in Seq(Returns) /\ << "DOCUMENT_END" >> \in Seq(Returns)
    BY DEF Returns
  <2> QED
    BY <2>1, Zenon
<1>2. q.state \notin BlockStates /\ q.state \notin AllStates
  BY DEF Unframed, Outer, NodeStates, BlockStates, FlowStates, AllStates
<1>3. Count(q.states, BlockStates) = 0 /\ Count(q.states, AllStates) = 0
  <2>1. "DOCUMENT_END" \notin BlockStates /\ "DOCUMENT_END" \notin AllStates
    BY DEF BlockStates, FlowStates, AllStates
  <2> QED
    BY <2>1, CountSingle, CountEmpty
<1> QED
  BY <1>1, <1>2, <1>3, CountRun DEF Run

(* A step outside of a document. *)
LEMMA OuterStep ==
  ASSUME NEW p \in ParserRecord, StackOf(p), p.state \in Outer, NEW q, NEW token, NEW st \in Outer,
         NEW it \in BOOLEAN, NEW sk \in BOOLEAN, NEW ev \in Events \ (NodeEvents \cup {"DOCUMENT-START"}),
         Is(q, st, << >>, p.marks, it, {}, sk, ev),
         sk => Weight(token) = 0, sk \/ MayIdle(p) + 1 <= MayIdle(q),
         ev = "NO-EVENT" => st = p.state,
         ev = "DOCUMENT-END" => p.state = "DOCUMENT_END" /\ st = "DOCUMENT_START",
         ev = "STREAM-START" => st = "IMPLICIT_DOCUMENT_START",
         ev = "STREAM-END" <=> st = "END"
  PROVE  Steps(p, q, token)
<1>1. p.state \in States /\ p.states = << >> /\ p.state \in Unframed
  BY ParserParts DEF StackOf, Unframed
<1>2. /\ q \in Shape /\ q.state = st /\ q.states = << >> /\ q.marks = p.marks
      /\ q.item = it /\ q.props = {} /\ q.skip = sk /\ q.event = ev
  BY DEF Is
<1>3. /\ st \in States /\ st \in Unframed /\ st \notin FirstStates /\ st \notin NodeStates
      /\ st # "INDENTLESS_SEQUENCE_ENTRY" /\ st # "BLOCK_NODE_OR_INDENTLESS_SEQUENCE"
  BY DEF States, Unframed, Outer, FirstStates, NodeStates
<1>4. StackOf(q)
  <2>1. Stacked(<< >>)
    BY DEF Stacked
  <2> QED
    BY <1>2, <1>3, <2>1 DEF StackOf
<1>5. HeadStep(q, token) /\ IdleStep(p, q)
  BY <1>2, <1>3 DEF HeadStep, IdleStep
<1>6. CountStep(p, q, token)
  BY <1>1, <1>2, <1>3, OuterCounts, CountsKept
<1>7. FramesAt(q) = << >> /\ FramesAt(p) = << >>
  BY <1>1, <1>2, <1>3, OuterFrames
<1>8. FrameStep(FramesAt(p), FramesAt(q), q.event)
  BY <1>2, <1>7 DEF FrameStep, NodeEvents
<1>9. DocStep(p, q)
  BY <1>1, <1>2 DEF DocStep
<1> QED
  BY <1>2, <1>4, <1>5, <1>6, <1>8, <1>9 DEF Steps

(* A document starts. *)
LEMMA EnterStep ==
  ASSUME NEW p \in ParserRecord, StackOf(p), p.state \in Outer, NEW q, NEW token,
         NEW st \in {"BLOCK_NODE", "DOCUMENT_CONTENT"}, NEW sk \in BOOLEAN,
         Is(q, st, << "DOCUMENT_END" >>, p.marks, FALSE, {}, sk, "DOCUMENT-START"),
         sk => Weight(token) = 0, sk \/ MayIdle(p) + 1 <= MayIdle(q)
  PROVE  Steps(p, q, token)
<1>1. p.state \in States /\ p.states = << >> /\ p.state \in Unframed
  BY ParserParts DEF StackOf, Unframed
<1>2. /\ q \in Shape /\ q.state = st /\ q.states = << "DOCUMENT_END" >> /\ q.marks = p.marks
      /\ q.item = FALSE /\ q.props = {} /\ q.skip = sk /\ q.event = "DOCUMENT-START"
  BY DEF Is
<1>3. /\ st \in States /\ st \in Unframed /\ st \notin FirstStates /\ st \notin Outer
      /\ st # "INDENTLESS_SEQUENCE_ENTRY" /\ st # "BLOCK_NODE_OR_INDENTLESS_SEQUENCE"
  BY DEF States, Inner, Unframed, Outer, FirstStates, NodeStates
<1>4. StackOf(q)
  <2>1. /\ << "DOCUMENT_END" >> \in Seq(Returns) /\ DOMAIN << "DOCUMENT_END" >> = {1}
        /\ << "DOCUMENT_END" >>[1] = "DOCUMENT_END" /\ << "DOCUMENT_END" >> # << >>
    BY DEF Returns
  <2>2. Stacked(<< "DOCUMENT_END" >>)
    BY <2>1 DEF Stacked
  <2> QED
    BY <1>2, <1>3, <2>1, <2>2 DEF StackOf
<1>5. HeadStep(q, token) /\ IdleStep(p, q)
  BY <1>2, <1>3 DEF HeadStep, IdleStep
<1>6. CountStep(p, q, token)
  BY <1>1, <1>2, <1>3, OuterCounts, CountsKept
<1>7. FramesAt(q) = << >> /\ FramesAt(p) = << >>
  BY <1>1, <1>2, <1>3, OuterFrames
<1>8. FrameStep(FramesAt(p), FramesAt(q), q.event)
  BY <1>2, <1>7 DEF FrameStep, NodeEvents
<1>9. DocStep(p, q)
  <2>1. q.states # << >> /\ q.state # "END" /\ q.event \notin NodeEvents
    BY <1>2, <1>3 DEF NodeEvents
  <2> QED
    BY <1>1, <1>2, <2>1 DEF DocStep
<1> QED
  BY <1>2, <1>4, <1>5, <1>6, <1>8, <1>9 DEF Steps

(* The mapping of a `key: value` entry in a flow sequence. *)
LEMMA EntryFrames ==
  ASSUME NEW s \in Seq(Returns)
  PROVE  /\ FramesOf(s) \in Seq(CtxTypes)
         /\ FramesOf(s) \o Frames("FLOW_SEQUENCE_ENTRY", TRUE) = Append(FramesOf(s), "CTX_SEQUENCE")
         /\ \A st \in {"FLOW_SEQUENCE_ENTRY_MAPPING_KEY", "FLOW_SEQUENCE_ENTRY_MAPPING_END"} :
              FramesOf(s) \o Frames(st, TRUE) =
                Append(Append(FramesOf(s), "CTX_SEQUENCE"), "CTX_MAPPING_KEY")
<1>1. PICK f \in Seq(CtxTypes) : f = FramesOf(s)
  BY FramesOfSort
<1>2. "CTX_SEQUENCE" \in CtxTypes /\ f \o << >> = f
  BY <1>1, ConcatEmptySeq DEF CtxTypes
<1>3. Append(f, "CTX_SEQUENCE") = f \o << "CTX_SEQUENCE" >>
  BY <1>1, <1>2, AppendIsConcat
<1>4. f \o Frames("FLOW_SEQUENCE_ENTRY", TRUE) = Append(f, "CTX_SEQUENCE")
  <2>1. Frames("FLOW_SEQUENCE_ENTRY", TRUE) = << "CTX_SEQUENCE" >>
    BY DEF Frames
  <2> QED
    BY <1>3, <2>1, Zenon
<1>5. ASSUME NEW st \in {"FLOW_SEQUENCE_ENTRY_MAPPING_KEY", "FLOW_SEQUENCE_ENTRY_MAPPING_END"}
      PROVE  f \o Frames(st, TRUE) = Append(Append(f, "CTX_SEQUENCE"), "CTX_MAPPING_KEY")
  <2>1. /\ st \in States \ Unframed /\ st \in InEntry /\ OwnType(st, TRUE) = "CTX_MAPPING_KEY"
    BY DEF States, Inner, Outer, NodeStates, FirstStates, Returns, Unframed, InEntry, OwnType, InSequence,
           AtValue, KeyType
  <2>2. FramesOf(s) \o Frames(st, TRUE) = Append(FramesOf(s) \o Around(st), OwnType(st, TRUE))
    BY <2>1, FramesWith
  <2>3. Around(st) = << "CTX_SEQUENCE" >>
    BY <2>1 DEF Around
  <2> QED
    BY <1>1, <1>3, <2>1, <2>2, <2>3, Zenon
<1> QED
  BY <1>1, <1>4, <1>5, Zenon

LEMMA EntryStartStep ==
  ASSUME NEW p \in ParserRecord, StackOf(p), p.state = "FLOW_SEQUENCE_ENTRY", NEW q, NEW token,
         Is(q, "FLOW_SEQUENCE_ENTRY_MAPPING_KEY", p.states, p.marks, FALSE, {}, TRUE, "MAPPING-START"),
         Weight(token) = 0
  PROVE  Steps(p, q, token)
<1> DEFINE st == "FLOW_SEQUENCE_ENTRY_MAPPING_KEY"
<1>1. p.state \in States /\ p.states \in Seq(Returns) /\ p.marks \in Nat
  BY ParserParts
<1>2. /\ q \in Shape /\ q.state = st /\ q.states = p.states /\ q.marks = p.marks
      /\ q.item = FALSE /\ q.props = {} /\ q.skip = TRUE /\ q.event = "MAPPING-START"
  BY DEF Is
<1>3. p.states # << >> /\ Stacked(p.states)
  BY DEF StackOf, Outer
<1>4. StackOf(q)
  BY <1>2, <1>3 DEF StackOf, Outer
<1>5. HeadStep(q, token) /\ IdleStep(p, q)
  BY <1>2 DEF HeadStep, IdleStep, FirstStates
<1>6. CountStep(p, q, token)
  <2>1. /\ p.state \notin BlockStates /\ p.state \in AllStates /\ st \notin BlockStates /\ st \in AllStates
        /\ st \in States
    BY DEF BlockStates, FlowStates, AllStates, States, Inner
  <2>2. /\ Count(Run(q), BlockStates) = Count(Run(p), BlockStates)
        /\ Count(Run(q), AllStates) = Count(Run(p), AllStates)
    BY <1>1, <1>2, <2>1, CountRun DEF Run
  <2> QED
    BY <1>2, <2>2, CountsKept
<1>7. FramesAt(q) = Append(FramesAt(p), "CTX_MAPPING_KEY") /\ FramesAt(q) # << >>
  <2>1. /\ FramesAt(p) = Append(FramesOf(p.states), "CTX_SEQUENCE")
        /\ FramesAt(q) = Append(Append(FramesOf(p.states), "CTX_SEQUENCE"), "CTX_MAPPING_KEY")
        /\ FramesOf(p.states) \in Seq(CtxTypes)
    BY <1>1, <1>2, EntryFrames DEF FramesAt
  <2>2. PICK f : f = FramesOf(p.states)
    OBVIOUS
  <2>3. "CTX_SEQUENCE" \in CtxTypes /\ "CTX_MAPPING_KEY" \in CtxTypes /\ f \in Seq(CtxTypes)
    BY <2>1, <2>2 DEF CtxTypes
  <2>4. Append(f, "CTX_SEQUENCE") \in Seq(CtxTypes)
    BY <2>3, AppendParts
  <2>5. Append(Append(f, "CTX_SEQUENCE"), "CTX_MAPPING_KEY") # << >>
    BY <2>3, <2>4, AppendParts
  <2> QED
    BY <2>1, <2>2, <2>5, Zenon
<1>8. FrameStep(FramesAt(p), FramesAt(q), q.event)
  BY <1>2, <1>7 DEF FrameStep, NodeEvents
<1>9. DocStep(p, q)
  BY <1>2, <1>3, <1>7 DEF DocStep
<1> QED
  BY <1>2, <1>4, <1>5, <1>6, <1>8, <1>9 DEF Steps

LEMMA EntryEndStep ==
  ASSUME NEW p \in ParserRecord, StackOf(p), p.state = "FLOW_SEQUENCE_ENTRY_MAPPING_END", NEW q, NEW token,
         Is(q, "FLOW_SEQUENCE_ENTRY", p.states, p.marks, FALSE, {}, FALSE, "MAPPING-END")
  PROVE  Steps(p, q, token)
<1> DEFINE st == "FLOW_SEQUENCE_ENTRY"
<1>1. p.state \in States /\ p.states \in Seq(Returns) /\ p.marks \in Nat
  BY ParserParts
<1>2. /\ q \in Shape /\ q.state = st /\ q.states = p.states /\ q.marks = p.marks
      /\ q.item = FALSE /\ q.props = {} /\ q.skip = FALSE /\ q.event = "MAPPING-END"
  BY DEF Is
<1>3. p.states # << >> /\ Stacked(p.states)
  BY DEF StackOf, Outer
<1>4. StackOf(q)
  BY <1>2, <1>3 DEF StackOf, Outer
<1>5. HeadStep(q, token) /\ IdleStep(p, q)
  <2>1. MayIdle(q) = 3 /\ MayIdle(p) \in {0, 2}
    BY <1>2 DEF MayIdle, Idle, FirstStates
  <2> QED
    BY <1>2, <2>1 DEF HeadStep, IdleStep, FirstStates
<1>6. CountStep(p, q, token)
  <2>1. /\ p.state \notin BlockStates /\ p.state \in AllStates /\ st \notin BlockStates /\ st \in AllStates
        /\ st \in States
    BY DEF BlockStates, FlowStates, AllStates, States, Inner, Returns
  <2>2. /\ Count(Run(q), BlockStates) = Count(Run(p), BlockStates)
        /\ Count(Run(q), AllStates) = Count(Run(p), AllStates)
    BY <1>1, <1>2, <2>1, CountRun DEF Run
  <2> QED
    BY <1>2, <2>2, CountsKept
<1>7. /\ FramesAt(p) # << >> /\ Last(FramesAt(p)) = "CTX_MAPPING_KEY"
      /\ FramesAt(q) = Advanced(Front(FramesAt(p))) /\ FramesAt(q) # << >>
  <2>1. /\ FramesAt(q) = Append(FramesOf(p.states), "CTX_SEQUENCE")
        /\ FramesAt(p) = Append(Append(FramesOf(p.states), "CTX_SEQUENCE"), "CTX_MAPPING_KEY")
        /\ FramesOf(p.states) \in Seq(CtxTypes)
    BY <1>1, <1>2, EntryFrames DEF FramesAt
  <2>2. PICK f : f = FramesOf(p.states)
    OBVIOUS
  <2>3. "CTX_SEQUENCE" \in CtxTypes /\ "CTX_MAPPING_KEY" \in CtxTypes /\ f \in Seq(CtxTypes)
    BY <2>1, <2>2 DEF CtxTypes
  <2>4. PICK g : g = Append(f, "CTX_SEQUENCE")
    OBVIOUS
  <2>5. g \in Seq(CtxTypes) /\ g # << >>
    BY <2>3, <2>4, AppendParts
  <2>6. /\ Append(g, "CTX_MAPPING_KEY") # << >> /\ Last(Append(g, "CTX_MAPPING_KEY")) = "CTX_MAPPING_KEY"
        /\ Front(Append(g, "CTX_MAPPING_KEY")) = g
    BY <2>3, <2>5, AppendParts
  <2>7. Advanced(g) = g
    <3>1. Flip("CTX_SEQUENCE") = "CTX_SEQUENCE"
      BY DEF Flip
    <3> QED
      BY <2>3, <2>4, <3>1, AdvancedAppend, Zenon
  <2> QED
    BY <2>1, <2>2, <2>4, <2>5, <2>6, <2>7, Zenon
<1>8. FrameStep(FramesAt(p), FramesAt(q), q.event)
  BY <1>2, <1>7 DEF FrameStep, NodeEvents
<1>9. DocStep(p, q)
  BY <1>2, <1>3, <1>7 DEF DocStep
<1> QED
  BY <1>2, <1>4, <1>5, <1>6, <1>8, <1>9 DEF Steps


-----------------------------------------------------------------------------
(* yaml_parser_parse_node, one lemma per outcome. *)
LEMMA NodeProperty ==
  ASSUME NEW r, NEW st, NEW B, NEW m, NEW it, NEW pr, Is(r, st, B, m, it, pr, FALSE, "NO-EVENT"),
         NEW s \in NodeStates, NEW token, Property(token) # {}
  PROVE  LET q == [Skip(Go(r, s)) EXCEPT !.props = @ \cup Property(token)]
         IN  /\ Is(q, s, B, m, FALSE, pr \cup Property(token), TRUE, "NO-EVENT")
             /\ pr \cup Property(token) # {}
<1>1. s \in States
  BY DEF States, Inner, NodeStates
<1>2. PICK u : u = Skip(Go(r, s))
  OBVIOUS
<1>3. Is(u, s, B, m, FALSE, pr, TRUE, "NO-EVENT")
  BY <1>1, <1>2, IsGo, IsSkip, Zenon
<1>4. PICK x : x = pr \cup Property(token)
  OBVIOUS
<1>5. x \in Props /\ x # {}
  <2>1. Property(token) \in Props
    BY DEF Property, Props
  <2>2. pr \in Props
    BY IsParts, Zenon
  <2> QED
    BY <1>4, <2>1, <2>2 DEF Props
<1>6. PICK q : q = [u EXCEPT !.props = @ \cup Property(token)]
  OBVIOUS
<1>7. u.props = pr
  BY <1>3 DEF Is
<1>8. q = [u EXCEPT !.props = x]
  BY <1>4, <1>6, <1>7
<1>9. Is(q, s, B, m, FALSE, x, TRUE, "NO-EVENT")
  BY <1>3, <1>5, <1>8 DEF Is, Shape
<1> QED
  BY <1>2, <1>4, <1>5, <1>6, <1>9, Zenon

LEMMA NodeLeaf ==
  ASSUME NEW r, NEW st, NEW B, NEW m, NEW it, NEW pr, Is(r, st, B, m, it, pr, FALSE, "NO-EVENT"),
         B # << >>, NEW ev \in {"SCALAR", "ALIAS"}
  PROVE  /\ Is(Emit(Skip(Pop(r)), ev), Last(B), Front(B), m, FALSE, {}, TRUE, ev)
         /\ Is(Emit(Pop(r), ev), Last(B), Front(B), m, FALSE, {}, FALSE, ev)
<1>1. ev \in Events
  BY DEF Events
<1>2. Is(Pop(r), Last(B), Front(B), m, it, pr, FALSE, "NO-EVENT")
  BY IsPop, Zenon
<1>3. Is(Skip(Pop(r)), Last(B), Front(B), m, it, pr, TRUE, "NO-EVENT")
  BY <1>2, IsSkip, Zenon
<1> QED
  BY <1>1, <1>2, <1>3, IsEmit, Zenon

LEMMA NodeBegin ==
  ASSUME NEW r, NEW st, NEW B, NEW m, NEW it, NEW pr, Is(r, st, B, m, it, pr, FALSE, "NO-EVENT"),
         NEW s \in FirstStates \cup {"INDENTLESS_SEQUENCE_ENTRY"},
         NEW ev \in {"SEQUENCE-START", "MAPPING-START"}
  PROVE  Is(Emit(Go(r, s), ev), s, B, m, FALSE, {}, FALSE, ev)
<1>1. ev \in Events
  BY DEF Events
<1>2. s \in States
  BY DEF States, Inner, FirstStates, Returns
<1>3. Is(Go(r, s), s, B, m, FALSE, pr, FALSE, "NO-EVENT")
  BY <1>2, IsGo, Zenon
<1> QED
  BY <1>1, <1>3, IsEmit, Zenon

LEMMA NodeCollections ==
  ASSUME NEW block \in BOOLEAN, NEW token \in Starts(block)
  PROVE  LET s == Collections[token][1]
         IN  /\ s \in FirstStates /\ token = StartOf(s)
             /\ Collections[token][2] = IF s \in InSequence THEN "SEQUENCE-START" ELSE "MAPPING-START"
<1>1. token \in {"FLOW-SEQUENCE-START", "FLOW-MAPPING-START", "BLOCK-SEQUENCE-START",
                 "BLOCK-MAPPING-START"}
  BY DEF Starts, Collections
<1>2. CASE token = "FLOW-SEQUENCE-START"
  <2>1. Collections[token] = << "FLOW_SEQUENCE_FIRST_ENTRY", "SEQUENCE-START" >>
    BY <1>2 DEF Collections
  <2> QED
    BY <1>2, <2>1 DEF FirstStates, StartOf, InSequence
<1>3. CASE token = "FLOW-MAPPING-START"
  <2>1. Collections[token] = << "FLOW_MAPPING_FIRST_KEY", "MAPPING-START" >>
    BY <1>3 DEF Collections
  <2> QED
    BY <1>3, <2>1 DEF FirstStates, StartOf, InSequence
<1>4. CASE token = "BLOCK-SEQUENCE-START"
  <2>1. Collections[token] = << "BLOCK_SEQUENCE_FIRST_ENTRY", "SEQUENCE-START" >>
    BY <1>4 DEF Collections
  <2> QED
    BY <1>4, <2>1 DEF FirstStates, StartOf, InSequence
<1>5. CASE token = "BLOCK-MAPPING-START"
  <2>1. Collections[token] = << "BLOCK_MAPPING_FIRST_KEY", "MAPPING-START" >>
    BY <1>5 DEF Collections
  <2> QED
    BY <1>5, <2>1 DEF FirstStates, StartOf, InSequence
<1> QED
  BY <1>1, <1>2, <1>3, <1>4, <1>5


LEMMA IdleReturns ==
  /\ \A s \in Returns : Idle(s) \in Nat /\ 1 <= Idle(s)
  /\ \A s \in FirstStates : Idle(s) = 2
  /\ Idle("INDENTLESS_SEQUENCE_ENTRY") = 1
BY DEF Returns, FirstStates, Idle

(* A step that reads a node, r being the parser with the state to return   *)
(* to pushed.                                                              *)
LEMMA NodeStep ==
  ASSUME NEW p \in ParserRecord, NEW B, Reading(p, B), NEW r, NEW st, NEW it, NEW pr,
         Is(r, st, B, p.marks, it, pr, FALSE, "NO-EVENT"),
         MayIdle(p) \in {0, 1}, pr # {} => MayIdle(p) = 0,
         NEW token, NEW depth, NEW block \in BOOLEAN, NEW indentless \in BOOLEAN,
         indentless => Last(B) \in MapStates /\ MayIdle(p) = 0,
         ~ yaml_parser_parse_node(r, token, depth, block, indentless).error
  PROVE  Steps(p, yaml_parser_parse_node(r, token, depth, block, indentless), token)
<1> DEFINE q == yaml_parser_parse_node(r, token, depth, block, indentless)
<1> SUFFICES Steps(p, q, token)
  OBVIOUS
<1>1. B # << >> /\ Last(B) \in Returns
  BY StackedFront DEF Reading
<1>2. r.props = pr
  BY DEF Is
<1>3. 1 <= Idle(Last(B)) /\ Idle(Last(B)) \in Nat
  BY <1>1, IdleReturns, Zenon
<1>4. ASSUME NEW ev \in {"SCALAR", "ALIAS"}, q = Emit(Skip(Pop(r)), ev), Weight(token) = 0
      PROVE  Steps(p, q, token)
  <2>1. Is(q, Last(B), Front(B), p.marks, FALSE, {}, TRUE, ev)
    BY <1>1, <1>4, NodeLeaf, Zenon
  <2> HIDE DEF q
  <2> QED
    BY <1>4, <2>1, LeafStep, Zenon
<1>5. CASE token = "ALIAS" /\ r.props = {}
  <2>1. q = Emit(Skip(Pop(r)), "ALIAS")
    BY <1>5, Zenon DEF yaml_parser_parse_node
  <2>2. Weight(token) = 0
    BY <1>5 DEF Weight, BlockStarts
  <2> QED
    BY <1>4, <2>1, <2>2
<1>6. CASE ~ (token = "ALIAS" /\ r.props = {})
           /\ Property(token) # {} /\ Property(token) \cap r.props = {}
  <2> DEFINE s == NodeState(block, indentless)
  <2>1. q = [Skip(Go(r, s)) EXCEPT !.props = @ \cup Property(token)]
    BY <1>6, Zenon DEF yaml_parser_parse_node
  <2>2. /\ s \in NodeStates
        /\ s = "BLOCK_NODE_OR_INDENTLESS_SEQUENCE" => Last(B) \in MapStates
    BY DEF NodeState, NodeStates
  <2> HIDE DEF s
  <2>3. Is(q, s, B, p.marks, FALSE, pr \cup Property(token), TRUE, "NO-EVENT")
        /\ pr \cup Property(token) # {}
    <3>1. PICK t : t = [Skip(Go(r, s)) EXCEPT !.props = @ \cup Property(token)]
      OBVIOUS
    <3>2. Is(t, s, B, p.marks, FALSE, pr \cup Property(token), TRUE, "NO-EVENT")
          /\ pr \cup Property(token) # {}
      BY <1>6, <2>2, <3>1, NodeProperty
    <3>3. q = t
      BY <2>1, <3>1
    <3> HIDE DEF q
    <3> QED
      BY <3>2, <3>3
  <2>4. Weight(token) = 0
    BY <1>6 DEF Property, Weight, BlockStarts
  <2> HIDE DEF q
  <2> QED
    BY <2>2, <2>3, <2>4, PropertyStep, Zenon
<1>7. CASE /\ ~ (token = "ALIAS" /\ r.props = {})
           /\ ~ (Property(token) # {} /\ Property(token) \cap r.props = {})
  <2>1. r \in Shape
    BY DEF Is
  <2>2. yaml_parser_set_parser_error(r).error
    BY <2>1 DEF yaml_parser_set_parser_error, Shape
  <2>3. q = Content(r, token, depth, block, indentless)
    <3>1. ~ ("custom" \in r.props /\ ~ r.custom)
      BY <1>7, <2>2, Zenon DEF yaml_parser_parse_node
    <3> QED
      BY <1>7, <3>1, Zenon DEF yaml_parser_parse_node
  <2>4. CASE token = "BLOCK-ENTRY" /\ indentless
    <3>1. q = Emit(Go(r, "INDENTLESS_SEQUENCE_ENTRY"), "SEQUENCE-START")
      BY <2>3, <2>4 DEF Content, Starts, Collections
    <3>2. Is(q, "INDENTLESS_SEQUENCE_ENTRY", B, p.marks, FALSE, {}, FALSE, "SEQUENCE-START")
      BY <3>1, NodeBegin, Zenon
    <3>3. /\ "INDENTLESS_SEQUENCE_ENTRY" \notin FirstStates
          /\ "INDENTLESS_SEQUENCE_ENTRY" \in InSequence
          /\ MayIdle(p) + 1 <= Idle("INDENTLESS_SEQUENCE_ENTRY")
      BY <2>4, IdleReturns DEF FirstStates, InSequence
    <3> HIDE DEF q
    <3> QED
      BY <2>4, <3>2, <3>3, BeginStep, Zenon
  <2>5. CASE token = "SCALAR"
    <3>1. q = Emit(Skip(Pop(r)), "SCALAR")
      BY <2>3, <2>5 DEF Content, Starts, Collections
    <3>2. Weight(token) = 0
      BY <2>5 DEF Weight, BlockStarts
    <3> QED
      BY <1>4, <3>1, <3>2
  <2>6. CASE token \in Starts(block)
    <3> DEFINE s == Collections[token][1]
               ev == Collections[token][2]
    <3>1. token # "BLOCK-ENTRY" /\ token # "SCALAR"
      BY <2>6 DEF Starts, Collections
    <3>2. q = Emit(Go(r, s), ev)
      BY <2>2, <2>3, <2>6, <3>1, Zenon DEF Content
    <3>3. /\ s \in FirstStates /\ token = StartOf(s) /\ ev \in {"SEQUENCE-START", "MAPPING-START"}
          /\ ev = IF s \in InSequence THEN "SEQUENCE-START" ELSE "MAPPING-START"
      BY <2>6, NodeCollections
    <3> HIDE DEF s, ev
    <3>4. Is(q, s, B, p.marks, FALSE, {}, FALSE, ev)
      BY <3>2, <3>3, NodeBegin, Zenon
    <3>5. s # "INDENTLESS_SEQUENCE_ENTRY" /\ MayIdle(p) + 1 <= Idle(s)
      BY <3>3, IdleReturns DEF FirstStates
    <3> HIDE DEF q
    <3> QED
      BY <3>3, <3>4, <3>5, BeginStep, Zenon
  <2>7. CASE ~ (token = "BLOCK-ENTRY" /\ indentless) /\ token # "SCALAR" /\ token \notin Starts(block)
    <3>1. q = IF r.props # {} THEN Emit(Pop(r), "SCALAR") ELSE yaml_parser_set_parser_error(r)
      BY <2>3, <2>7, Zenon DEF Content
    <3>2. r.props # {} /\ q = Emit(Pop(r), "SCALAR")
      BY <2>2, <3>1, Zenon
    <3>3. Is(q, Last(B), Front(B), p.marks, FALSE, {}, FALSE, "SCALAR")
      BY <1>1, <3>2, NodeLeaf, Zenon
    <3>4. MayIdle(p) + 1 <= Idle(Last(B))
      BY <1>2, <1>3, <3>2
    <3> HIDE DEF q
    <3> QED
      BY <3>3, <3>4, LeafStep, Zenon
  <2> QED
    BY <2>4, <2>5, <2>6, <2>7
<1> QED
  BY <1>5, <1>6, <1>7


(* The states that read a node, with r the parser before it is pushed. *)
LEMMA ReaderParts ==
  ASSUME NEW p \in ParserRecord, StackOf(p), p.state \in Readers
  PROVE  LET B == Append(p.states, ReturnTo(p.state))
         IN  /\ Reading(p, B) /\ Last(B) = ReturnTo(p.state) /\ Front(B) = p.states
             /\ ReturnTo(p.state) \in Returns /\ ReturnTo(p.state) \in States
             /\ p.props = {}
<1>1. ReturnTo(p.state) \in Returns /\ ReturnTo(p.state) \in States
  BY ReturnFacts, ReturnsStates
<1>2. p.states \in Seq(Returns)
  BY ParserParts
<1>3. p.props = {}
  <2>1. p.state \notin NodeStates
    BY DEF Readers, NodeStates
  <2> QED
    BY <2>1 DEF StackOf
<1>4. Reading(p, Append(p.states, ReturnTo(p.state)))
  BY ReadingPush
<1>5. LET B == Append(p.states, ReturnTo(p.state))
      IN  Last(B) = ReturnTo(p.state) /\ Front(B) = p.states
  BY <1>1, <1>2, AppendParts
<1> QED
  BY <1>1, <1>3, <1>4, <1>5

LEMMA EmptyStep ==
  ASSUME NEW p \in ParserRecord, StackOf(p), p.state \in Readers, NEW r, NEW it, NEW pr,
         NEW sk \in BOOLEAN, Is(r, p.state, p.states, p.marks, it, pr, sk, "NO-EVENT"),
         NEW token, sk => Weight(token) = 0, sk \/ MayIdle(p) + 1 <= Idle(ReturnTo(p.state))
  PROVE  Steps(p, yaml_parser_process_empty_scalar(r, ReturnTo(p.state)), token)
<1> DEFINE t == ReturnTo(p.state)
           B == Append(p.states, t)
           q == yaml_parser_process_empty_scalar(r, t)
<1>1. Reading(p, B) /\ Last(B) = t /\ Front(B) = p.states /\ t \in States
  BY ReaderParts, Zenon
<1> HIDE DEF t
<1>2. "SCALAR" \in Events
  BY DEF Events
<1>3. Is(q, t, p.states, p.marks, FALSE, {}, sk, "SCALAR")
  BY <1>1, <1>2, IsGo, IsEmit, Zenon DEF yaml_parser_process_empty_scalar
<1>4. sk \/ MayIdle(p) + 1 <= Idle(t)
  BY Zenon DEF t
<1> HIDE DEF q, B
<1>5. Steps(p, q, token)
  BY <1>1, <1>3, <1>4, LeafStep, Zenon
<1> QED
  BY <1>5, Zenon DEF q, t

LEMMA ReaderStep ==
  ASSUME NEW p \in ParserRecord, StackOf(p), p.state \in Readers, MayIdle(p) = 0,
         NEW it, NEW token, NEW depth, NEW block \in BOOLEAN, NEW indentless \in BOOLEAN,
         indentless => p.state \in MapStates, NEW r,
         Is(r, p.state, p.states, p.marks, it, {}, FALSE, "NO-EVENT"),
         ~ yaml_parser_parse_node(Push(r, ReturnTo(p.state)), token, depth, block, indentless).error
  PROVE  Steps(p, yaml_parser_parse_node(Push(r, ReturnTo(p.state)), token, depth, block, indentless), token)
<1> DEFINE t == ReturnTo(p.state)
           B == Append(p.states, t)
           u == Push(r, t)
<1>1. Reading(p, B) /\ Last(B) = t /\ t \in Returns
  BY ReaderParts, Zenon
<1>2. indentless => Last(B) \in MapStates /\ MayIdle(p) = 0
  <2>1. p.state \in MapStates => t \in MapStates
    BY DEF MapStates, ReturnTo
  <2> QED
    BY <1>1, <2>1, Zenon
<1>3. Is(u, p.state, B, p.marks, it, {}, FALSE, "NO-EVENT")
  BY <1>1, IsPush, Zenon
<1>4. MayIdle(p) \in {0, 1}
  OBVIOUS
<1>5. ~ yaml_parser_parse_node(u, token, depth, block, indentless).error
  OBVIOUS
<1> HIDE DEF u, B
<1>6. Steps(p, yaml_parser_parse_node(u, token, depth, block, indentless), token)
  BY <1>1, <1>2, <1>3, <1>4, <1>5, NodeStep, Zenon
<1> QED
  BY <1>6 DEF u

LEMMA ReaderOrEmpty ==
  ASSUME NEW p \in ParserRecord, StackOf(p), p.state \in Readers, MayIdle(p) = 0,
         NEW it, NEW token, NEW depth, NEW none, NEW block \in BOOLEAN, NEW indentless \in BOOLEAN,
         indentless => p.state \in MapStates, NEW r, NEW sk \in BOOLEAN,
         Is(r, p.state, p.states, p.marks, it, {}, sk, "NO-EVENT"),
         sk => token \in none /\ Weight(token) = 0,
         ~ NodeOrEmpty(r, token, depth, none, ReturnTo(p.state), block, indentless).error
  PROVE  Steps(p, NodeOrEmpty(r, token, depth, none, ReturnTo(p.state), block, indentless), token)
<1>1. CASE token \in none
  <2>1. ReturnTo(p.state) \in Returns
    BY ReaderParts, Zenon
  <2>2. MayIdle(p) + 1 <= Idle(ReturnTo(p.state))
    <3>1. PICK n : n = Idle(ReturnTo(p.state))
      OBVIOUS
    <3>2. n \in Nat /\ 1 <= n
      BY <2>1, <3>1, IdleReturns, Zenon
    <3>3. MayIdle(p) + 1 <= n
      BY <3>2
    <3> QED
      BY <3>1, <3>3, Zenon
  <2>3. Steps(p, yaml_parser_process_empty_scalar(r, ReturnTo(p.state)), token)
    BY <2>2, EmptyStep, Zenon
  <2> QED
    BY <1>1, <2>3, Zenon DEF NodeOrEmpty
<1>2. CASE token \notin none
  <2>1. sk = FALSE
    BY <1>2, Zenon
  <2> QED
    BY <1>2, <2>1, ReaderStep, Zenon DEF NodeOrEmpty
<1> QED
  BY <1>1, <1>2


-----------------------------------------------------------------------------
(* Entries, starts and ends of collections. *)
LEMMA ErrorIs ==
  ASSUME NEW p \in ParserRecord
  PROVE  yaml_parser_set_parser_error(p).error /\ ErrorInCollection(p).error
BY DEF yaml_parser_set_parser_error, ErrorInCollection, ParserRecord

LEMMA ItemStep ==
  ASSUME NEW p \in ParserRecord, StackOf(p), p.state \in Readers, NEW token, Weight(token) = 0
  PROVE  Steps(p, Item(p), token)
<1>1. /\ Is(p, p.state, p.states, p.marks, p.item, p.props, FALSE, "NO-EVENT")
      /\ p.marks \in Nat /\ p.state \in States
  BY ParserParts
<1>2. p.props = {}
  BY ReaderParts, Zenon
<1>3. PICK q : q = Item(p)
  OBVIOUS
<1>4. Is(q, p.state, p.states, p.marks, TRUE, {}, TRUE, "NO-EVENT")
  BY <1>1, <1>2, <1>3, IsItem, Zenon
<1>5. p.state \in States \ (Unframed \cup FirstStates) /\ p.state \notin Unframed /\ p.state \notin Outer
  BY <1>1 DEF Readers, Unframed, FirstStates, Outer, NodeStates
<1>6. p.states # << >>
  BY <1>5 DEF StackOf
<1>7. /\ p.marks \in Int
      /\ p.marks = p.marks + (IF p.state \in AllStates THEN 1 ELSE 0) - (IF p.state \in AllStates THEN 1 ELSE 0)
      /\ (IF p.state \in BlockStates THEN 1 ELSE 0) = (IF p.state \in BlockStates THEN 1 ELSE 0) - Weight(token)
      /\ Weight(token) \in Int
  BY <1>1
<1>8. Steps(p, q, token)
  BY <1>4, <1>5, <1>6, <1>7, StayStep, Zenon
<1> QED
  BY <1>3, <1>8, Zenon

(* The state a collection is in once its start has been taken. *)
Entered(state) ==
  CASE state = "BLOCK_SEQUENCE_FIRST_ENTRY" -> "BLOCK_SEQUENCE_ENTRY"
    [] state = "BLOCK_MAPPING_FIRST_KEY" -> "BLOCK_MAPPING_KEY"
    [] state = "FLOW_SEQUENCE_FIRST_ENTRY" -> "FLOW_SEQUENCE_ENTRY"
    [] state = "FLOW_MAPPING_FIRST_KEY" -> "FLOW_MAPPING_KEY"

LEMMA OpenStep ==
  ASSUME NEW p \in ParserRecord, StackOf(p), p.state \in FirstStates, NEW token,
         token = StartOf(p.state), NEW q,
         q = Open(p, Entered(p.state)) \/ q = [Open(p, Entered(p.state)) EXCEPT !.item = TRUE]
  PROVE  Steps(p, q, token)
<1> DEFINE st == Entered(p.state)
<1>1. /\ Is(p, p.state, p.states, p.marks, p.item, p.props, FALSE, "NO-EVENT")
      /\ p.marks \in Nat /\ p.state \in States
  BY ParserParts
<1>2. /\ p.state \notin Unframed /\ p.state \notin Outer /\ p.state \notin NodeStates
      /\ st \in States \ (Unframed \cup FirstStates) /\ st # "INDENTLESS_SEQUENCE_ENTRY"
      /\ st \in States
  BY DEF FirstStates, Entered, Unframed, Outer, NodeStates, States, Inner, Returns
<1>3. p.props = {} /\ p.states # << >>
  BY <1>2 DEF StackOf
<1>4. OwnType(st, TRUE) = OwnType(p.state, TRUE)
  BY DEF FirstStates, Entered, OwnType, KeyType, InSequence, AtValue
<1>5. Around(st) = Around(p.state)
  <2>1. st \notin InEntry /\ p.state \notin InEntry
    BY DEF FirstStates, Entered, InEntry
  <2> QED
    BY <2>1, Zenon DEF Around
<1>6. /\ (IF st \in BlockStates THEN 1 ELSE 0) =
           (IF p.state \in BlockStates THEN 1 ELSE 0) - Weight(token)
      /\ Weight(token) \in Int
  BY DEF FirstStates, Entered, BlockStates, Weight, BlockStarts, StartOf
<1>7. st \in AllStates /\ p.state \notin AllStates
  BY DEF FirstStates, Entered, AllStates, BlockStates, FlowStates
<1> HIDE DEF st
<1>8. p.marks + 1 = p.marks + (IF st \in AllStates THEN 1 ELSE 0)
                      - (IF p.state \in AllStates THEN 1 ELSE 0) /\ p.marks + 1 \in Int
  BY <1>1, <1>7
<1>9. PICK u : u = Skip(Go(p, st))
  OBVIOUS
<1>10. Is(u, st, p.states, p.marks, FALSE, {}, TRUE, "NO-EVENT")
  <2>1. Is(Go(p, st), st, p.states, p.marks, FALSE, p.props, FALSE, "NO-EVENT")
    BY <1>1, <1>2, IsGo, Zenon
  <2>2. Is(u, st, p.states, p.marks, FALSE, p.props, TRUE, "NO-EVENT")
    BY <1>9, <2>1, IsSkip, Zenon
  <2> QED
    BY <1>3, <2>2, Zenon
<1>11. PICK v : v = [u EXCEPT !.marks = u.marks + 1]
  OBVIOUS
<1>12. Open(p, st) = v
  BY <1>9, <1>11 DEF Open
<1>13. Is(v, st, p.states, p.marks + 1, FALSE, {}, TRUE, "NO-EVENT")
  BY <1>8, <1>10, <1>11 DEF Is, Shape
<1>14. q = v \/ q = [v EXCEPT !.item = TRUE]
  BY <1>12 DEF st
<1>15. \E it \in BOOLEAN : Is(q, st, p.states, p.marks + 1, it, {}, TRUE, "NO-EVENT")
  <2>1. CASE q = v
    BY <1>13, <2>1
  <2>2. CASE q = [v EXCEPT !.item = TRUE]
    <3>1. Is(q, st, p.states, p.marks + 1, TRUE, {}, TRUE, "NO-EVENT")
      BY <1>13, <2>2 DEF Is, Shape
    <3> QED
      BY <3>1
  <2> QED
    BY <1>14, <2>1, <2>2
<1>16. PICK it \in BOOLEAN : Is(q, st, p.states, p.marks + 1, it, {}, TRUE, "NO-EVENT")
  BY <1>15
<1> QED
  BY <1>2, <1>3, <1>4, <1>5, <1>6, <1>8, <1>16, StayStep, Zenon

LEMMA CloseStep ==
  ASSUME NEW p \in ParserRecord, StackOf(p), p.state \in Enders \ {"INDENTLESS_SEQUENCE_ENTRY"},
         NEW token, Weight(token) = IF p.state \in BlockStates THEN 1 ELSE 0, NEW ev,
         ev = IF p.state \in InSequence THEN "SEQUENCE-END" ELSE "MAPPING-END"
  PROVE  Steps(p, Close(p, ev), token)
<1>1. /\ Is(p, p.state, p.states, p.marks, p.item, p.props, FALSE, "NO-EVENT")
      /\ p.marks \in Nat /\ p.state \in States
  BY ParserParts
<1>2. p.states # << >>
  <2>1. p.state \notin Outer
    BY DEF Enders, Outer
  <2> QED
    BY <2>1 DEF StackOf
<1>3. ev \in Events
  BY DEF Events
<1>4. PICK u : u = Pop(p)
  OBVIOUS
<1>5. Is(u, Last(p.states), Front(p.states), p.marks, p.item, p.props, FALSE, "NO-EVENT")
  BY <1>1, <1>2, <1>4, IsPop, Zenon
<1>6. PICK v : v = [u EXCEPT !.marks = u.marks - 1]
  OBVIOUS
<1>7. p.marks - 1 \in Int
  BY <1>1
<1>8. Is(v, Last(p.states), Front(p.states), p.marks - 1, p.item, p.props, FALSE, "NO-EVENT")
  <2>1. PICK l, f, m, it, pr : l = Last(p.states) /\ f = Front(p.states) /\ m = p.marks /\ it = p.item /\ pr = p.props
    OBVIOUS
  <2>2. Is(u, l, f, m, it, pr, FALSE, "NO-EVENT") /\ m - 1 \in Int
    BY <1>5, <1>7, <2>1, Zenon
  <2>3. Is(v, l, f, m - 1, it, pr, FALSE, "NO-EVENT")
    BY <1>6, <2>2 DEF Is, Shape
  <2> QED
    BY <2>1, <2>3, Zenon
<1>9. PICK q : q = Emit(Skip(v), ev)
  OBVIOUS
<1>10. Is(q, Last(p.states), Front(p.states), p.marks - 1, FALSE, {}, TRUE, ev)
  BY <1>3, <1>8, <1>9, IsSkip, IsEmit, Zenon
<1>11. q = Close(p, ev)
  BY <1>4, <1>6, <1>9 DEF Close
<1>12. Steps(p, q, token)
  BY <1>7, <1>10, FinishStep, Zenon
<1> QED
  BY <1>11, <1>12, Zenon


-----------------------------------------------------------------------------
(* One lemma per function of parser.c. *)
LEMMA NotFirst ==
  ASSUME NEW p \in ParserRecord, p.item
  PROVE  MayIdle(p) = 0
BY DEF MayIdle

LEMMA ReadsParts ==
  ASSUME NEW p \in ParserRecord, StackOf(p), p.state \in Readers
  PROVE  Is(p, p.state, p.states, p.marks, p.item, {}, FALSE, "NO-EVENT")
BY ParserParts, ReaderParts, Zenon

LEMMA BlockSequenceStep ==
  ASSUME NEW p \in ParserRecord, StackOf(p), p.state = "BLOCK_SEQUENCE_ENTRY", NEW token, NEW depth,
         ~ yaml_parser_parse_block_sequence_entry(p, token, depth, FALSE).error
  PROVE  Steps(p, yaml_parser_parse_block_sequence_entry(p, token, depth, FALSE), token)
<1> DEFINE q == yaml_parser_parse_block_sequence_entry(p, token, depth, FALSE)
<1>1. p.state \in Readers /\ ReturnTo(p.state) = "BLOCK_SEQUENCE_ENTRY"
  BY DEF Readers, ReturnTo
<1>2. CASE p.item
  <2>1. q = NodeOrEmpty(p, token, depth, {"BLOCK-ENTRY", "BLOCK-END"}, ReturnTo(p.state), TRUE, FALSE)
    BY <1>1, <1>2, Zenon DEF yaml_parser_parse_block_sequence_entry
  <2>2. Is(p, p.state, p.states, p.marks, p.item, {}, FALSE, "NO-EVENT")
    BY <1>1, ReadsParts, Zenon
  <2> QED
    BY <1>1, <1>2, <2>1, <2>2, NotFirst, ReaderOrEmpty, Zenon
<1>3. CASE ~ p.item /\ token = "BLOCK-ENTRY"
  <2>1. q = Item(p)
    BY <1>3 DEF yaml_parser_parse_block_sequence_entry
  <2>2. Weight(token) = 0
    BY <1>3 DEF Weight, BlockStarts
  <2> QED
    BY <1>1, <2>1, <2>2, ItemStep, Zenon
<1>4. CASE ~ p.item /\ token = "BLOCK-END"
  <2>1. q = Close(p, "SEQUENCE-END")
    BY <1>4 DEF yaml_parser_parse_block_sequence_entry
  <2>2. /\ Weight(token) = IF p.state \in BlockStates THEN 1 ELSE 0
        /\ "SEQUENCE-END" = IF p.state \in InSequence THEN "SEQUENCE-END" ELSE "MAPPING-END"
        /\ p.state \in Enders \ {"INDENTLESS_SEQUENCE_ENTRY"}
    BY <1>4 DEF Weight, BlockStates, InSequence, Enders
  <2> QED
    BY <2>1, <2>2, CloseStep, Zenon
<1>5. CASE ~ p.item /\ token # "BLOCK-ENTRY" /\ token # "BLOCK-END"
  <2>1. q = ErrorInCollection(p)
    BY <1>5, Zenon DEF yaml_parser_parse_block_sequence_entry
  <2> QED
    BY <2>1, ErrorIs, Zenon
<1> QED
  BY <1>2, <1>3, <1>4, <1>5

LEMMA IndentlessStep ==
  ASSUME NEW p \in ParserRecord, StackOf(p), p.state = "INDENTLESS_SEQUENCE_ENTRY", NEW token, NEW depth,
         ~ yaml_parser_parse_indentless_sequence_entry(p, token, depth).error
  PROVE  Steps(p, yaml_parser_parse_indentless_sequence_entry(p, token, depth), token)
<1> DEFINE q == yaml_parser_parse_indentless_sequence_entry(p, token, depth)
<1>1. p.state \in Readers /\ ReturnTo(p.state) = "INDENTLESS_SEQUENCE_ENTRY"
  BY DEF Readers, ReturnTo
<1>2. Is(p, p.state, p.states, p.marks, p.item, {}, FALSE, "NO-EVENT")
  BY <1>1, ReadsParts, Zenon
<1>3. CASE p.item
  <2>1. q = NodeOrEmpty(p, token, depth, {"BLOCK-ENTRY", "KEY", "VALUE", "BLOCK-END"},
                        ReturnTo(p.state), TRUE, FALSE)
    BY <1>1, <1>3, Zenon DEF yaml_parser_parse_indentless_sequence_entry
  <2> QED
    BY <1>1, <1>2, <1>3, <2>1, NotFirst, ReaderOrEmpty, Zenon
<1>4. CASE ~ p.item /\ token = "BLOCK-ENTRY"
  <2>1. q = Item(p)
    BY <1>4, Zenon DEF yaml_parser_parse_indentless_sequence_entry
  <2>2. Weight(token) = 0
    BY <1>4 DEF Weight, BlockStarts
  <2> QED
    BY <1>1, <2>1, <2>2, ItemStep, Zenon
<1>5. CASE ~ p.item /\ token # "BLOCK-ENTRY"
  <2>1. PICK t : t = Emit(Pop(p), "SEQUENCE-END")
    OBVIOUS
  <2>2. q = t
    BY <1>5, <2>1, Zenon DEF yaml_parser_parse_indentless_sequence_entry
  <2>3. p.states # << >> /\ "SEQUENCE-END" \in Events /\ p.state \in Enders /\ p.marks \in Int
        /\ "SEQUENCE-END" = IF p.state \in InSequence THEN "SEQUENCE-END" ELSE "MAPPING-END"
    <3>1. p.state \notin Outer /\ p.state \in InSequence /\ p.state \in Enders
      BY DEF Outer, InSequence, Enders
    <3>2. p.states # << >>
      BY <3>1 DEF StackOf
    <3>3. p.marks \in Int
      BY DEF ParserRecord
    <3> QED
      BY <3>1, <3>2, <3>3 DEF Events
  <2>4. Is(t, Last(p.states), Front(p.states), p.marks, FALSE, {}, FALSE, "SEQUENCE-END")
    <3>1. Is(Pop(p), Last(p.states), Front(p.states), p.marks, p.item, {}, FALSE, "NO-EVENT")
      BY <1>2, <2>3, IsPop, Zenon
    <3> QED
      BY <2>1, <2>3, <3>1, IsEmit, Zenon
  <2>5. Steps(p, t, token)
    BY <2>3, <2>4, FinishStep, Zenon
  <2> QED
    BY <2>2, <2>5, Zenon
<1> QED
  BY <1>3, <1>4, <1>5

LEMMA BlockKeyStep ==
  ASSUME NEW p \in ParserRecord, StackOf(p), p.state = "BLOCK_MAPPING_KEY", NEW token, NEW depth,
         ~ yaml_parser_parse_block_mapping_key(p, token, depth, FALSE).error
  PROVE  Steps(p, yaml_parser_parse_block_mapping_key(p, token, depth, FALSE), token)
<1> DEFINE q == yaml_parser_parse_block_mapping_key(p, token, depth, FALSE)
<1>1. p.state \in Readers /\ ReturnTo(p.state) = "BLOCK_MAPPING_VALUE" /\ p.state \in MapStates
  BY DEF Readers, ReturnTo, MapStates
<1>2. CASE p.item
  <2>1. q = NodeOrEmpty(p, token, depth, {"KEY", "VALUE", "BLOCK-END"}, ReturnTo(p.state), TRUE, TRUE)
    BY <1>1, <1>2, Zenon DEF yaml_parser_parse_block_mapping_key
  <2>2. Is(p, p.state, p.states, p.marks, p.item, {}, FALSE, "NO-EVENT")
    BY <1>1, ReadsParts, Zenon
  <2> QED
    BY <1>1, <1>2, <2>1, <2>2, NotFirst, ReaderOrEmpty, Zenon
<1>3. CASE ~ p.item /\ token = "KEY"
  <2>1. q = Item(p)
    BY <1>3 DEF yaml_parser_parse_block_mapping_key
  <2>2. Weight(token) = 0
    BY <1>3 DEF Weight, BlockStarts
  <2> QED
    BY <1>1, <2>1, <2>2, ItemStep, Zenon
<1>4. CASE ~ p.item /\ token = "BLOCK-END"
  <2>1. q = Close(p, "MAPPING-END")
    BY <1>4 DEF yaml_parser_parse_block_mapping_key
  <2>2. /\ Weight(token) = IF p.state \in BlockStates THEN 1 ELSE 0
        /\ "MAPPING-END" = IF p.state \in InSequence THEN "SEQUENCE-END" ELSE "MAPPING-END"
        /\ p.state \in Enders \ {"INDENTLESS_SEQUENCE_ENTRY"}
    BY <1>4 DEF Weight, BlockStates, InSequence, Enders
  <2> QED
    BY <2>1, <2>2, CloseStep, Zenon
<1>5. CASE ~ p.item /\ token # "KEY" /\ token # "BLOCK-END"
  <2>1. q = ErrorInCollection(p)
    BY <1>5, Zenon DEF yaml_parser_parse_block_mapping_key
  <2> QED
    BY <2>1, ErrorIs, Zenon
<1> QED
  BY <1>2, <1>3, <1>4, <1>5

LEMMA BlockValueStep ==
  ASSUME NEW p \in ParserRecord, StackOf(p), p.state = "BLOCK_MAPPING_VALUE", NEW token, NEW depth,
         ~ yaml_parser_parse_block_mapping_value(p, token, depth).error
  PROVE  Steps(p, yaml_parser_parse_block_mapping_value(p, token, depth), token)
<1> DEFINE q == yaml_parser_parse_block_mapping_value(p, token, depth)
<1>1. p.state \in Readers /\ ReturnTo(p.state) = "BLOCK_MAPPING_KEY" /\ p.state \in MapStates
  BY DEF Readers, ReturnTo, MapStates
<1>2. Is(p, p.state, p.states, p.marks, p.item, {}, FALSE, "NO-EVENT")
  BY <1>1, ReadsParts, Zenon
<1>3. CASE p.item
  <2>1. q = NodeOrEmpty(p, token, depth, {"KEY", "VALUE", "BLOCK-END"}, ReturnTo(p.state), TRUE, TRUE)
    BY <1>1, <1>3, Zenon DEF yaml_parser_parse_block_mapping_value
  <2> QED
    BY <1>1, <1>2, <1>3, <2>1, NotFirst, ReaderOrEmpty, Zenon
<1>4. CASE ~ p.item /\ token = "VALUE"
  <2>1. q = Item(p)
    BY <1>4, Zenon DEF yaml_parser_parse_block_mapping_value
  <2>2. Weight(token) = 0
    BY <1>4 DEF Weight, BlockStarts
  <2> QED
    BY <1>1, <2>1, <2>2, ItemStep, Zenon
<1>5. CASE ~ p.item /\ token # "VALUE"
  <2>1. q = yaml_parser_process_empty_scalar(p, ReturnTo(p.state))
    BY <1>1, <1>5, Zenon DEF yaml_parser_parse_block_mapping_value
  <2>2. MayIdle(p) + 1 <= Idle(ReturnTo(p.state))
    BY <1>1 DEF MayIdle, Idle, FirstStates
  <2> QED
    BY <1>1, <1>2, <2>1, <2>2, EmptyStep, Zenon
<1> QED
  BY <1>3, <1>4, <1>5


LEMMA FlowSequenceStep ==
  ASSUME NEW p \in ParserRecord, StackOf(p), p.state = "FLOW_SEQUENCE_ENTRY", NEW token, NEW depth,
         ~ yaml_parser_parse_flow_sequence_entry(p, token, depth, FALSE).error
  PROVE  Steps(p, yaml_parser_parse_flow_sequence_entry(p, token, depth, FALSE), token)
<1> DEFINE q == yaml_parser_parse_flow_sequence_entry(p, token, depth, FALSE)
<1>1. p.state \in Readers /\ ReturnTo(p.state) = "FLOW_SEQUENCE_ENTRY"
  BY DEF Readers, ReturnTo
<1>2. Is(p, p.state, p.states, p.marks, p.item, {}, FALSE, "NO-EVENT")
  BY <1>1, ReadsParts, Zenon
<1>3. CASE token = "FLOW-SEQUENCE-END"
  <2>1. q = Close(p, "SEQUENCE-END")
    BY <1>3 DEF yaml_parser_parse_flow_sequence_entry
  <2>2. /\ Weight(token) = IF p.state \in BlockStates THEN 1 ELSE 0
        /\ "SEQUENCE-END" = IF p.state \in InSequence THEN "SEQUENCE-END" ELSE "MAPPING-END"
        /\ p.state \in Enders \ {"INDENTLESS_SEQUENCE_ENTRY"}
    BY <1>3 DEF Weight, BlockStates, BlockStarts, InSequence, Enders
  <2> QED
    BY <2>1, <2>2, CloseStep, Zenon
<1>4. CASE p.item /\ token = "KEY"
  <2>1. PICK u : u = Go(p, "FLOW_SEQUENCE_ENTRY_MAPPING_KEY")
    OBVIOUS
  <2>2. PICK t : t = Emit(Skip(u), "MAPPING-START")
    OBVIOUS
  <2>3. q = t
    BY <1>4, <2>1, <2>2 DEF yaml_parser_parse_flow_sequence_entry
  <2>4. "FLOW_SEQUENCE_ENTRY_MAPPING_KEY" \in States /\ "MAPPING-START" \in Events /\ Weight(token) = 0
    BY <1>4 DEF States, Inner, Events, Weight, BlockStarts
  <2>5. Is(u, "FLOW_SEQUENCE_ENTRY_MAPPING_KEY", p.states, p.marks, FALSE, {}, FALSE, "NO-EVENT")
    BY <1>2, <2>1, <2>4, IsGo, Zenon
  <2>6. Is(Skip(u), "FLOW_SEQUENCE_ENTRY_MAPPING_KEY", p.states, p.marks, FALSE, {}, TRUE, "NO-EVENT")
    BY <2>5, IsSkip, Zenon
  <2>7. Is(t, "FLOW_SEQUENCE_ENTRY_MAPPING_KEY", p.states, p.marks, FALSE, {}, TRUE, "MAPPING-START")
    BY <2>2, <2>4, <2>6, IsEmit, Zenon
  <2>8. Steps(p, t, token)
    BY <2>4, <2>7, EntryStartStep, Zenon
  <2> QED
    BY <2>3, <2>8, Zenon
<1>5. CASE p.item /\ token \notin {"KEY", "FLOW-SEQUENCE-END"}
  <2>1. q = yaml_parser_parse_node(Push(p, ReturnTo(p.state)), token, depth, FALSE, FALSE)
    BY <1>1, <1>5, Zenon DEF yaml_parser_parse_flow_sequence_entry
  <2> QED
    BY <1>1, <1>2, <1>5, <2>1, NotFirst, ReaderStep, Zenon
<1>6. CASE ~ p.item /\ token = "FLOW-ENTRY"
  <2>1. q = Item(p)
    BY <1>6 DEF yaml_parser_parse_flow_sequence_entry
  <2>2. Weight(token) = 0
    BY <1>6 DEF Weight, BlockStarts
  <2> QED
    BY <1>1, <2>1, <2>2, ItemStep, Zenon
<1>7. CASE ~ p.item /\ token # "FLOW-SEQUENCE-END" /\ token # "FLOW-ENTRY"
  <2>1. q = ErrorInCollection(p)
    BY <1>7, Zenon DEF yaml_parser_parse_flow_sequence_entry
  <2> QED
    BY <2>1, ErrorIs, Zenon
<1> QED
  BY <1>3, <1>4, <1>5, <1>6, <1>7

LEMMA EntryKeyStep ==
  ASSUME NEW p \in ParserRecord, StackOf(p), p.state = "FLOW_SEQUENCE_ENTRY_MAPPING_KEY", NEW token,
         NEW depth, ~ yaml_parser_parse_flow_sequence_entry_mapping_key(p, token, depth).error
  PROVE  Steps(p, yaml_parser_parse_flow_sequence_entry_mapping_key(p, token, depth), token)
<1> DEFINE none == {"VALUE", "FLOW-ENTRY", "FLOW-SEQUENCE-END"}
           sk == token \in {"VALUE", "FLOW-ENTRY"}
<1>1. p.state \in Readers /\ ReturnTo(p.state) = "FLOW_SEQUENCE_ENTRY_MAPPING_VALUE"
  BY DEF Readers, ReturnTo
<1>2. Is(p, p.state, p.states, p.marks, p.item, {}, FALSE, "NO-EVENT")
  BY <1>1, ReadsParts, Zenon
<1>3. MayIdle(p) = 0
  BY DEF MayIdle, Idle, FirstStates
<1>4. PICK r : r = IF sk THEN Skip(p) ELSE p
  OBVIOUS
<1>5. Is(r, p.state, p.states, p.marks, p.item, {}, sk, "NO-EVENT") /\ sk \in BOOLEAN
  <2>1. CASE sk
    <3>1. Is(r, p.state, p.states, p.marks, p.item, {}, TRUE, "NO-EVENT")
      BY <1>2, <1>4, <2>1, IsSkip, Zenon
    <3>2. sk = TRUE
      BY <2>1
    <3> QED
      BY <3>1, <3>2
  <2>2. CASE ~ sk
    <3>1. Is(r, p.state, p.states, p.marks, p.item, {}, FALSE, "NO-EVENT")
      BY <1>2, <1>4, <2>2, Zenon
    <3>2. sk = FALSE
      BY <2>2
    <3> QED
      BY <3>1, <3>2
  <2> QED
    BY <2>1, <2>2
<1>6. sk => token \in none /\ Weight(token) = 0
  BY DEF Weight, BlockStarts
<1>7. yaml_parser_parse_flow_sequence_entry_mapping_key(p, token, depth) =
        NodeOrEmpty(r, token, depth, none, ReturnTo(p.state), FALSE, FALSE)
  BY <1>1, <1>4, Zenon DEF yaml_parser_parse_flow_sequence_entry_mapping_key
<1> HIDE DEF none, sk
<1> QED
  BY <1>1, <1>3, <1>5, <1>6, <1>7, ReaderOrEmpty, Zenon

LEMMA EntryValueStep ==
  ASSUME NEW p \in ParserRecord, StackOf(p), p.state = "FLOW_SEQUENCE_ENTRY_MAPPING_VALUE", NEW token,
         NEW depth, ~ yaml_parser_parse_flow_sequence_entry_mapping_value(p, token, depth).error
  PROVE  Steps(p, yaml_parser_parse_flow_sequence_entry_mapping_value(p, token, depth), token)
<1> DEFINE q == yaml_parser_parse_flow_sequence_entry_mapping_value(p, token, depth)
<1>1. p.state \in Readers /\ ReturnTo(p.state) = "FLOW_SEQUENCE_ENTRY_MAPPING_END"
  BY DEF Readers, ReturnTo
<1>2. Is(p, p.state, p.states, p.marks, p.item, {}, FALSE, "NO-EVENT")
  BY <1>1, ReadsParts, Zenon
<1>3. CASE p.item
  <2>1. q = NodeOrEmpty(p, token, depth, {"FLOW-ENTRY", "FLOW-SEQUENCE-END"}, ReturnTo(p.state), FALSE, FALSE)
    BY <1>1, <1>3, Zenon DEF yaml_parser_parse_flow_sequence_entry_mapping_value
  <2> QED
    BY <1>1, <1>2, <1>3, <2>1, NotFirst, ReaderOrEmpty, Zenon
<1>4. CASE ~ p.item /\ token = "VALUE"
  <2>1. q = Item(p)
    BY <1>4, Zenon DEF yaml_parser_parse_flow_sequence_entry_mapping_value
  <2>2. Weight(token) = 0
    BY <1>4 DEF Weight, BlockStarts
  <2> QED
    BY <1>1, <2>1, <2>2, ItemStep, Zenon
<1>5. CASE ~ p.item /\ token # "VALUE"
  <2>1. q = yaml_parser_process_empty_scalar(p, ReturnTo(p.state))
    BY <1>1, <1>5, Zenon DEF yaml_parser_parse_flow_sequence_entry_mapping_value
  <2>2. MayIdle(p) + 1 <= Idle(ReturnTo(p.state))
    BY <1>1 DEF MayIdle, Idle, FirstStates
  <2> QED
    BY <1>1, <1>2, <2>1, <2>2, EmptyStep, Zenon
<1> QED
  BY <1>3, <1>4, <1>5

LEMMA EntryEndsStep ==
  ASSUME NEW p \in ParserRecord, StackOf(p), p.state = "FLOW_SEQUENCE_ENTRY_MAPPING_END", NEW token
  PROVE  Steps(p, yaml_parser_parse_flow_sequence_entry_mapping_end(p), token)
<1>1. Is(p, p.state, p.states, p.marks, p.item, p.props, FALSE, "NO-EVENT")
  BY ParserParts, Zenon
<1>2. "FLOW_SEQUENCE_ENTRY" \in States /\ "MAPPING-END" \in Events
  BY DEF States, Inner, Returns, Events
<1>3. Is(Go(p, "FLOW_SEQUENCE_ENTRY"), "FLOW_SEQUENCE_ENTRY", p.states, p.marks, FALSE, p.props, FALSE, "NO-EVENT")
  BY <1>1, <1>2, IsGo, Zenon
<1>4. PICK q : q = Emit(Go(p, "FLOW_SEQUENCE_ENTRY"), "MAPPING-END")
  OBVIOUS
<1>5. Is(q, "FLOW_SEQUENCE_ENTRY", p.states, p.marks, FALSE, {}, FALSE, "MAPPING-END")
  BY <1>2, <1>3, <1>4, IsEmit, Zenon
<1>6. Steps(p, q, token)
  BY <1>5, EntryEndStep, Zenon
<1> QED
  BY <1>4, <1>6, Zenon DEF yaml_parser_parse_flow_sequence_entry_mapping_end


LEMMA FlowKeyStep ==
  ASSUME NEW p \in ParserRecord, StackOf(p), p.state = "FLOW_MAPPING_KEY", NEW token, NEW depth,
         ~ yaml_parser_parse_flow_mapping_key(p, token, depth, FALSE).error
  PROVE  Steps(p, yaml_parser_parse_flow_mapping_key(p, token, depth, FALSE), token)
<1> DEFINE q == yaml_parser_parse_flow_mapping_key(p, token, depth, FALSE)
<1>1. p.state \in Readers /\ ReturnTo(p.state) = "FLOW_MAPPING_EMPTY_VALUE"
  BY DEF Readers, ReturnTo
<1>2. Is(p, p.state, p.states, p.marks, p.item, {}, FALSE, "NO-EVENT")
  BY <1>1, ReadsParts, Zenon
<1>3. CASE token = "FLOW-MAPPING-END"
  <2>1. q = Close(p, "MAPPING-END")
    BY <1>3 DEF yaml_parser_parse_flow_mapping_key
  <2>2. /\ Weight(token) = IF p.state \in BlockStates THEN 1 ELSE 0
        /\ "MAPPING-END" = IF p.state \in InSequence THEN "SEQUENCE-END" ELSE "MAPPING-END"
        /\ p.state \in Enders \ {"INDENTLESS_SEQUENCE_ENTRY"}
    BY <1>3 DEF Weight, BlockStates, BlockStarts, InSequence, Enders
  <2> QED
    BY <2>1, <2>2, CloseStep, Zenon
<1>4. CASE p.item /\ token = "KEY"
  <2> DEFINE st == "FLOW_MAPPING_AFTER_KEY"
  <2>1. PICK u : u = Go(p, st)
    OBVIOUS
  <2>2. PICK t : t = Skip(u)
    OBVIOUS
  <2>3. q = t
    BY <1>4, <2>1, <2>2 DEF yaml_parser_parse_flow_mapping_key
  <2>4. /\ st \in States \ (Unframed \cup FirstStates) /\ st \in States
        /\ p.state \notin Unframed /\ p.state \notin Outer /\ st # "INDENTLESS_SEQUENCE_ENTRY"
    BY DEF States, Inner, Unframed, FirstStates, Outer, NodeStates
  <2>5. p.marks \in Int /\ p.states # << >>
    BY <2>4 DEF ParserRecord, StackOf
  <2>6. Weight(token) = 0
    BY <1>4 DEF Weight, BlockStarts
  <2>7. OwnType(st, TRUE) = OwnType(p.state, TRUE)
    BY DEF OwnType, KeyType, InSequence, AtValue
  <2>8. Around(st) = Around(p.state)
    <3>1. st \notin InEntry /\ p.state \notin InEntry
      BY DEF InEntry
    <3> QED
      BY <3>1, Zenon DEF Around
  <2>9. st \notin BlockStates /\ p.state \notin BlockStates /\ st \in AllStates /\ p.state \in AllStates
    BY DEF AllStates, BlockStates, FlowStates
  <2> HIDE DEF st
  <2>10. /\ (IF st \in BlockStates THEN 1 ELSE 0) = (IF p.state \in BlockStates THEN 1 ELSE 0) - Weight(token)
         /\ p.marks = p.marks + (IF st \in AllStates THEN 1 ELSE 0) - (IF p.state \in AllStates THEN 1 ELSE 0)
         /\ Weight(token) \in Int
    BY <2>5, <2>6, <2>9
  <2>11. Is(u, st, p.states, p.marks, FALSE, {}, FALSE, "NO-EVENT")
    BY <1>2, <2>1, <2>4, IsGo, Zenon
  <2>12. Is(t, st, p.states, p.marks, FALSE, {}, TRUE, "NO-EVENT")
    BY <2>2, <2>11, IsSkip, Zenon
  <2>13. Steps(p, t, token)
    BY <2>4, <2>5, <2>7, <2>8, <2>10, <2>12, StayStep, Zenon
  <2> QED
    BY <2>3, <2>13, Zenon
<1>5. CASE p.item /\ token \notin {"KEY", "FLOW-MAPPING-END"}
  <2>1. q = yaml_parser_parse_node(Push(p, ReturnTo(p.state)), token, depth, FALSE, FALSE)
    BY <1>1, <1>5, Zenon DEF yaml_parser_parse_flow_mapping_key
  <2> QED
    BY <1>1, <1>2, <1>5, <2>1, NotFirst, ReaderStep, Zenon
<1>6. CASE ~ p.item /\ token = "FLOW-ENTRY"
  <2>1. q = Item(p)
    BY <1>6 DEF yaml_parser_parse_flow_mapping_key
  <2>2. Weight(token) = 0
    BY <1>6 DEF Weight, BlockStarts
  <2> QED
    BY <1>1, <2>1, <2>2, ItemStep, Zenon
<1>7. CASE ~ p.item /\ token # "FLOW-MAPPING-END" /\ token # "FLOW-ENTRY"
  <2>1. q = ErrorInCollection(p)
    BY <1>7, Zenon DEF yaml_parser_parse_flow_mapping_key
  <2> QED
    BY <2>1, ErrorIs, Zenon
<1> QED
  BY <1>3, <1>4, <1>5, <1>6, <1>7

LEMMA AfterKeyStep ==
  ASSUME NEW p \in ParserRecord, StackOf(p), p.state = "FLOW_MAPPING_AFTER_KEY", NEW token, NEW depth,
         ~ FlowMappingAfterKey(p, token, depth).error
  PROVE  Steps(p, FlowMappingAfterKey(p, token, depth), token)
<1>1. p.state \in Readers /\ ReturnTo(p.state) = "FLOW_MAPPING_VALUE"
  BY DEF Readers, ReturnTo
<1>2. Is(p, p.state, p.states, p.marks, p.item, {}, FALSE, "NO-EVENT")
  BY <1>1, ReadsParts, Zenon
<1>3. MayIdle(p) = 0
  BY DEF MayIdle, Idle, FirstStates
<1>4. FlowMappingAfterKey(p, token, depth) =
        NodeOrEmpty(p, token, depth, {"VALUE", "FLOW-ENTRY", "FLOW-MAPPING-END"}, ReturnTo(p.state),
                    FALSE, FALSE)
  BY <1>1, Zenon DEF FlowMappingAfterKey
<1> QED
  BY <1>1, <1>2, <1>3, <1>4, ReaderOrEmpty, Zenon

LEMMA FlowValueStep ==
  ASSUME NEW p \in ParserRecord, StackOf(p), NEW token, NEW depth, NEW empty \in BOOLEAN,
         p.state = IF empty THEN "FLOW_MAPPING_EMPTY_VALUE" ELSE "FLOW_MAPPING_VALUE",
         ~ yaml_parser_parse_flow_mapping_value(p, token, depth, empty).error
  PROVE  Steps(p, yaml_parser_parse_flow_mapping_value(p, token, depth, empty), token)
<1> DEFINE q == yaml_parser_parse_flow_mapping_value(p, token, depth, empty)
<1>1. p.state \in Readers /\ ReturnTo(p.state) = "FLOW_MAPPING_KEY"
  BY DEF Readers, ReturnTo
<1>2. Is(p, p.state, p.states, p.marks, p.item, {}, FALSE, "NO-EVENT")
  BY <1>1, ReadsParts, Zenon
<1>3. CASE ~ empty /\ p.item
  <2>1. q = NodeOrEmpty(p, token, depth, {"FLOW-ENTRY", "FLOW-MAPPING-END"}, ReturnTo(p.state), FALSE, FALSE)
    BY <1>1, <1>3, Zenon DEF yaml_parser_parse_flow_mapping_value
  <2> QED
    BY <1>1, <1>2, <1>3, <2>1, NotFirst, ReaderOrEmpty, ZenonT(30)
<1>4. CASE ~ empty /\ ~ p.item /\ token = "VALUE"
  <2>1. q = Item(p)
    BY <1>4, Zenon DEF yaml_parser_parse_flow_mapping_value
  <2>2. Weight(token) = 0
    BY <1>4 DEF Weight, BlockStarts
  <2> QED
    BY <1>1, <2>1, <2>2, ItemStep, Zenon
<1>5. CASE empty \/ (~ p.item /\ token # "VALUE")
  <2>1. q = yaml_parser_process_empty_scalar(p, ReturnTo(p.state))
    BY <1>1, <1>5, Zenon DEF yaml_parser_parse_flow_mapping_value
  <2>2. MayIdle(p) + 1 <= Idle(ReturnTo(p.state))
    BY <1>1 DEF MayIdle, Idle, FirstStates
  <2> QED
    BY <1>1, <1>2, <2>1, <2>2, EmptyStep, Zenon
<1> QED
  BY <1>3, <1>4, <1>5

LEMMA FirstStep ==
  ASSUME NEW p \in ParserRecord, StackOf(p), p.state \in FirstStates, NEW token, NEW depth,
         token = StartOf(p.state)
  PROVE  Steps(p, yaml_parser_state_machine(p, token, depth), token)
<1> DEFINE q == yaml_parser_state_machine(p, token, depth)
<1>1. CASE p.state = "BLOCK_SEQUENCE_FIRST_ENTRY"
  <2>1. q = yaml_parser_parse_block_sequence_entry(p, token, depth, TRUE)
    BY <1>1 DEF yaml_parser_state_machine
  <2>2. q = Open(p, "BLOCK_SEQUENCE_ENTRY")
    BY <2>1 DEF yaml_parser_parse_block_sequence_entry
  <2>3. Entered(p.state) = "BLOCK_SEQUENCE_ENTRY"
    BY <1>1 DEF Entered
  <2> HIDE DEF q
  <2> QED
    BY <2>2, <2>3, OpenStep, Zenon DEF q
<1>2. CASE p.state = "BLOCK_MAPPING_FIRST_KEY"
  <2>1. q = yaml_parser_parse_block_mapping_key(p, token, depth, TRUE)
    BY <1>2 DEF yaml_parser_state_machine
  <2>2. q = Open(p, "BLOCK_MAPPING_KEY")
    BY <2>1 DEF yaml_parser_parse_block_mapping_key
  <2>3. Entered(p.state) = "BLOCK_MAPPING_KEY"
    BY <1>2 DEF Entered
  <2> HIDE DEF q
  <2> QED
    BY <2>2, <2>3, OpenStep, Zenon DEF q
<1>3. CASE p.state = "FLOW_SEQUENCE_FIRST_ENTRY"
  <2>1. q = yaml_parser_parse_flow_sequence_entry(p, token, depth, TRUE)
    BY <1>3 DEF yaml_parser_state_machine
  <2>2. q = [Open(p, "FLOW_SEQUENCE_ENTRY") EXCEPT !.item = TRUE]
    BY <2>1 DEF yaml_parser_parse_flow_sequence_entry
  <2>3. Entered(p.state) = "FLOW_SEQUENCE_ENTRY"
    BY <1>3 DEF Entered
  <2> HIDE DEF q
  <2> QED
    BY <2>2, <2>3, OpenStep, Zenon DEF q
<1>4. CASE p.state = "FLOW_MAPPING_FIRST_KEY"
  <2>1. q = yaml_parser_parse_flow_mapping_key(p, token, depth, TRUE)
    BY <1>4 DEF yaml_parser_state_machine
  <2>2. q = [Open(p, "FLOW_MAPPING_KEY") EXCEPT !.item = TRUE]
    BY <2>1 DEF yaml_parser_parse_flow_mapping_key
  <2>3. Entered(p.state) = "FLOW_MAPPING_KEY"
    BY <1>4 DEF Entered
  <2> HIDE DEF q
  <2> QED
    BY <2>2, <2>3, OpenStep, Zenon DEF q
<1> QED
  BY <1>1, <1>2, <1>3, <1>4 DEF FirstStates


LEMMA OuterParts ==
  ASSUME NEW p \in ParserRecord, StackOf(p), p.state \in Outer
  PROVE  Is(p, p.state, << >>, p.marks, p.item, {}, FALSE, "NO-EVENT") /\ p.item \in BOOLEAN
<1>1. Is(p, p.state, p.states, p.marks, p.item, p.props, FALSE, "NO-EVENT") /\ p.item \in BOOLEAN
  BY ParserParts
<1>2. p.state \notin NodeStates
  BY DEF Outer, NodeStates
<1>3. p.states = << >> /\ p.props = {}
  BY <1>2 DEF StackOf
<1> QED
  BY <1>1, <1>3, Zenon

LEMMA StreamStartStep ==
  ASSUME NEW p \in ParserRecord, StackOf(p), p.state = "STREAM_START", NEW token,
         ~ yaml_parser_parse_stream_start(p, token).error
  PROVE  Steps(p, yaml_parser_parse_stream_start(p, token), token)
<1> DEFINE st == "IMPLICIT_DOCUMENT_START"
           ev == "STREAM-START"
<1>1. PICK t : t = Emit(Skip(Go(p, st)), ev)
  OBVIOUS
<1>2. token = "STREAM-START" /\ yaml_parser_parse_stream_start(p, token) = t
  BY <1>1, ErrorIs, Zenon DEF yaml_parser_parse_stream_start
<1>3. /\ p.state \in Outer /\ st \in Outer /\ st \in States /\ Weight(token) = 0 /\ ev \in Events
      /\ ev \in Events \ (NodeEvents \cup {"DOCUMENT-START"})
      /\ ev # "NO-EVENT" /\ ev # "DOCUMENT-END" /\ ev # "STREAM-END" /\ st # "END"
  BY <1>2 DEF Outer, States, Weight, BlockStarts, Events, NodeEvents
<1>4. st = "IMPLICIT_DOCUMENT_START"
  OBVIOUS
<1> HIDE DEF st, ev
<1>5. Is(p, p.state, << >>, p.marks, p.item, {}, FALSE, "NO-EVENT")
  BY <1>3, OuterParts, Zenon
<1>6. Is(Go(p, st), st, << >>, p.marks, FALSE, {}, FALSE, "NO-EVENT")
  BY <1>3, <1>5, IsGo, Zenon
<1>7. Is(Skip(Go(p, st)), st, << >>, p.marks, FALSE, {}, TRUE, "NO-EVENT")
  BY <1>6, IsSkip, Zenon
<1>8. Is(t, st, << >>, p.marks, FALSE, {}, TRUE, ev)
  BY <1>1, <1>3, <1>7, IsEmit, Zenon
<1>9. Steps(p, t, token)
  BY <1>3, <1>4, <1>8, OuterStep, Zenon
<1> QED
  BY <1>2, <1>9, Zenon

LEMMA DirectiveStep ==
  ASSUME NEW p \in ParserRecord, StackOf(p), p.state \in Outer \ {"END"}, NEW token \in Directives,
         ~ yaml_parser_process_directives(p, token).error
  PROVE  Steps(p, yaml_parser_process_directives(p, token), token)
<1>1. PICK u : u = Skip(p)
  OBVIOUS
<1>2. PICK v, c : /\ v = (u.version \/ token = "VERSION-DIRECTIVE")
                  /\ c = (u.custom \/ token = "TAG-DIRECTIVE")
  OBVIOUS
<1>3. PICK t : t = [u EXCEPT !.item = TRUE, !.version = v, !.custom = c]
  OBVIOUS
<1>4. yaml_parser_process_directives(p, token) = t
  BY <1>1, <1>2, <1>3, ErrorIs DEF yaml_parser_process_directives
<1>5. Is(p, p.state, << >>, p.marks, p.item, {}, FALSE, "NO-EVENT")
  BY OuterParts, Zenon
<1>6. Is(u, p.state, << >>, p.marks, p.item, {}, TRUE, "NO-EVENT")
  BY <1>1, <1>5, IsSkip, Zenon
<1>7. v \in BOOLEAN /\ c \in BOOLEAN
  BY <1>2
<1>8. Is(t, p.state, << >>, p.marks, TRUE, {}, TRUE, "NO-EVENT")
  <2>1. PICK st, m, it : st = p.state /\ m = p.marks /\ it = p.item
    OBVIOUS
  <2>2. Is(u, st, << >>, m, it, {}, TRUE, "NO-EVENT")
    BY <1>6, <2>1, Zenon
  <2>3. Is(t, st, << >>, m, TRUE, {}, TRUE, "NO-EVENT")
    BY <1>3, <1>7, <2>2 DEF Is, Shape
  <2> QED
    BY <2>1, <2>3, Zenon
<1>9. /\ "NO-EVENT" \in Events \ (NodeEvents \cup {"DOCUMENT-START"}) /\ p.state # "END" /\ Weight(token) = 0
      /\ p.state \in Outer
  BY DEF Events, NodeEvents, Directives, Weight, BlockStarts
<1>10. Steps(p, t, token)
  BY <1>8, <1>9, OuterStep
<1> QED
  BY <1>4, <1>10, Zenon

LEMMA DocumentEndStep ==
  ASSUME NEW p \in ParserRecord, StackOf(p), p.state = "DOCUMENT_END", NEW token
  PROVE  Steps(p, yaml_parser_parse_document_end(p, token), token)
<1>1. PICK u : u = Emit(Go(p, "DOCUMENT_START"), "DOCUMENT-END")
  OBVIOUS
<1>2. PICK sk : sk = (token = "DOCUMENT-END")
  OBVIOUS
<1>3. PICK t : t = [u EXCEPT !.skip = sk, !.custom = FALSE]
  OBVIOUS
<1>4. yaml_parser_parse_document_end(p, token) = t
  BY <1>1, <1>2, <1>3 DEF yaml_parser_parse_document_end
<1>5. /\ p.state \in Outer /\ "DOCUMENT_START" \in Outer /\ "DOCUMENT_START" \in States
      /\ "DOCUMENT-END" \in Events /\ "DOCUMENT-END" \in Events \ (NodeEvents \cup {"DOCUMENT-START"})
      /\ sk \in BOOLEAN
      /\ sk => Weight(token) = 0
  BY <1>2 DEF Outer, States, Events, NodeEvents, Weight, BlockStarts
<1>6. Is(p, p.state, << >>, p.marks, p.item, {}, FALSE, "NO-EVENT")
  BY <1>5, OuterParts, Zenon
<1>7. Is(Go(p, "DOCUMENT_START"), "DOCUMENT_START", << >>, p.marks, FALSE, {}, FALSE, "NO-EVENT")
  BY <1>5, <1>6, IsGo, Zenon
<1>8. Is(u, "DOCUMENT_START", << >>, p.marks, FALSE, {}, FALSE, "DOCUMENT-END")
  BY <1>1, <1>5, <1>7, IsEmit, Zenon
<1>9. Is(t, "DOCUMENT_START", << >>, p.marks, FALSE, {}, sk, "DOCUMENT-END")
  <2>1. PICK m : m = p.marks
    OBVIOUS
  <2>2. Is(u, "DOCUMENT_START", << >>, m, FALSE, {}, FALSE, "DOCUMENT-END")
    BY <1>8, <2>1, Zenon
  <2>3. Is(t, "DOCUMENT_START", << >>, m, FALSE, {}, sk, "DOCUMENT-END")
    BY <1>3, <1>5, <2>2 DEF Is, Shape
  <2> QED
    BY <2>1, <2>3, Zenon
<1>10. MayIdle(p) + 1 <= MayIdle(t)
  <2>1. t.item = FALSE /\ t.props = {} /\ t.state = "DOCUMENT_START"
    BY <1>9 DEF Is
  <2>2. MayIdle(t) = 3
    BY <2>1 DEF MayIdle, Idle, FirstStates
  <2>3. MayIdle(p) \in 0..2
    BY DEF MayIdle, Idle, FirstStates
  <2> QED
    BY <2>2, <2>3
<1>11. Steps(p, t, token)
  BY <1>5, <1>9, <1>10, OuterStep
<1> QED
  BY <1>4, <1>11, Zenon

LEMMA NodeStateStep ==
  ASSUME NEW p \in ParserRecord, StackOf(p), p.state \in NodeStates, NEW token, NEW depth,
         NEW block \in BOOLEAN, NEW indentless \in BOOLEAN,
         indentless => p.state = "BLOCK_NODE_OR_INDENTLESS_SEQUENCE",
         ~ yaml_parser_parse_node(p, token, depth, block, indentless).error
  PROVE  Steps(p, yaml_parser_parse_node(p, token, depth, block, indentless), token)
<1>1. Reading(p, p.states)
  BY ReadingSelf
<1>2. Is(p, p.state, p.states, p.marks, p.item, p.props, FALSE, "NO-EVENT")
  BY ParserParts, Zenon
<1>3. MayIdle(p) \in {0, 1} /\ (p.props # {} => MayIdle(p) = 0) /\ (indentless => MayIdle(p) = 0)
  BY DEF MayIdle, Idle, NodeStates, FirstStates
<1>4. indentless => Last(p.states) \in MapStates
  BY DEF StackOf, Last
<1> QED
  BY <1>1, <1>2, <1>3, <1>4, NodeStep, Zenon

LEMMA ContentStep ==
  ASSUME NEW p \in ParserRecord, StackOf(p), p.state = "DOCUMENT_CONTENT", NEW token, NEW depth,
         ~ yaml_parser_parse_document_content(p, token, depth).error
  PROVE  Steps(p, yaml_parser_parse_document_content(p, token, depth), token)
<1>1. Reading(p, p.states)
  BY ReadingSelf, Zenon
<1>2. Is(p, p.state, p.states, p.marks, p.item, p.props, FALSE, "NO-EVENT")
  BY ParserParts, Zenon
<1>3. MayIdle(p) = 0 /\ MayIdle(p) \in {0, 1}
  BY DEF MayIdle, Idle, FirstStates
<1> DEFINE none == Directives \cup {"DOCUMENT-START", "DOCUMENT-END", "STREAM-END"}
<1>4. CASE token \in none
  <2>1. PICK t : t = Emit(Pop(p), "SCALAR")
    OBVIOUS
  <2>2. yaml_parser_parse_document_content(p, token, depth) = t
    BY <1>4, <2>1, Zenon DEF yaml_parser_parse_document_content
  <2>3. p.states # << >> /\ Last(p.states) \in Returns
    BY <1>1, StackedFront, Zenon DEF Reading
  <2>4. Is(t, Last(p.states), Front(p.states), p.marks, FALSE, {}, FALSE, "SCALAR")
    BY <1>2, <2>1, <2>3, NodeLeaf, Zenon
  <2>5. MayIdle(p) + 1 <= Idle(Last(p.states))
    <3>1. PICK n : n = Idle(Last(p.states))
      OBVIOUS
    <3>2. n \in Nat /\ 1 <= n
      BY <2>3, <3>1, IdleReturns, Zenon
    <3>3. MayIdle(p) + 1 <= n
      BY <1>3, <3>2
    <3> QED
      BY <3>1, <3>3, Zenon
  <2>6. Steps(p, t, token)
    BY <1>1, <2>4, <2>5, LeafStep, Zenon
  <2> QED
    BY <2>2, <2>6, Zenon
<1>5. CASE token \notin none
  <2>1. yaml_parser_parse_document_content(p, token, depth) =
          yaml_parser_parse_node(p, token, depth, TRUE, FALSE)
    BY <1>5, Zenon DEF yaml_parser_parse_document_content
  <2> HIDE DEF none
  <2> QED
    BY <1>1, <1>2, <1>3, <2>1, NodeStep, Zenon
<1> QED
  BY <1>4, <1>5


LEMMA DocumentStartStep ==
  ASSUME NEW p \in ParserRecord, StackOf(p), p.state \in {"IMPLICIT_DOCUMENT_START", "DOCUMENT_START"},
         NEW token, NEW implicit \in BOOLEAN, implicit => p.state = "IMPLICIT_DOCUMENT_START",
         ~ yaml_parser_parse_document_start(p, token, implicit).error
  PROVE  Steps(p, yaml_parser_parse_document_start(p, token, implicit), token)
<1> DEFINE q == yaml_parser_parse_document_start(p, token, implicit)
<1>1. p.state \in Outer /\ p.state \in Outer \ {"END"} /\ p.state # "END"
  BY DEF Outer
<1>2. Is(p, p.state, << >>, p.marks, p.item, {}, FALSE, "NO-EVENT") /\ p.item \in BOOLEAN
  BY <1>1, OuterParts, Zenon
<1>3. /\ "DOCUMENT_CONTENT" \in States /\ "BLOCK_NODE" \in States /\ "DOCUMENT_END" \in Returns
      /\ "END" \in States /\ "END" \in Outer
      /\ "DOCUMENT-START" \in Events /\ "STREAM-END" \in Events /\ "NO-EVENT" \in Events
      /\ "STREAM-END" \in Events \ (NodeEvents \cup {"DOCUMENT-START"})
      /\ "NO-EVENT" \in Events \ (NodeEvents \cup {"DOCUMENT-START"})
      /\ Append(<< >>, "DOCUMENT_END") = << "DOCUMENT_END" >>
  BY DEF States, Inner, Outer, NodeStates, Returns, Events, NodeEvents
<1>4. CASE token \in Directives
  <2>1. q = yaml_parser_process_directives(p, token)
    BY <1>4 DEF Directives, yaml_parser_parse_document_start
  <2> QED
    BY <1>1, <1>4, <2>1, DirectiveStep, Zenon
<1>5. CASE token = "DOCUMENT-START"
  <2>1. PICK u : u = Go(p, "DOCUMENT_CONTENT")
    OBVIOUS
  <2>2. PICK v : v = [u EXCEPT !.version = FALSE]
    OBVIOUS
  <2>3. PICK t : t = Emit(Skip(Push(v, "DOCUMENT_END")), "DOCUMENT-START")
    OBVIOUS
  <2>4. q = t
    BY <1>5, <2>1, <2>2, <2>3 DEF Directives, yaml_parser_parse_document_start
  <2>5. Is(u, "DOCUMENT_CONTENT", << >>, p.marks, FALSE, {}, FALSE, "NO-EVENT")
    BY <1>2, <1>3, <2>1, IsGo, Zenon
  <2>6. Is(v, "DOCUMENT_CONTENT", << >>, p.marks, FALSE, {}, FALSE, "NO-EVENT")
    <3>1. PICK m : m = p.marks
      OBVIOUS
    <3>2. Is(u, "DOCUMENT_CONTENT", << >>, m, FALSE, {}, FALSE, "NO-EVENT")
      BY <2>5, <3>1, Zenon
    <3>3. Is(v, "DOCUMENT_CONTENT", << >>, m, FALSE, {}, FALSE, "NO-EVENT")
      BY <2>2, <3>2 DEF Is, Shape
    <3> QED
      BY <3>1, <3>3, Zenon
  <2>7. Is(Push(v, "DOCUMENT_END"), "DOCUMENT_CONTENT", << "DOCUMENT_END" >>, p.marks, FALSE, {}, FALSE,
           "NO-EVENT")
    <3>1. Is(Push(v, "DOCUMENT_END"), "DOCUMENT_CONTENT", Append(<< >>, "DOCUMENT_END"), p.marks, FALSE,
             {}, FALSE, "NO-EVENT")
      BY <1>3, <2>6, IsPush, Zenon
    <3> QED
      BY <1>3, <3>1
  <2>8. Is(Skip(Push(v, "DOCUMENT_END")), "DOCUMENT_CONTENT", << "DOCUMENT_END" >>, p.marks, FALSE, {},
           TRUE, "NO-EVENT")
    BY <2>7, IsSkip, Zenon
  <2>9. Is(t, "DOCUMENT_CONTENT", << "DOCUMENT_END" >>, p.marks, FALSE, {}, TRUE, "DOCUMENT-START")
    BY <1>3, <2>3, <2>8, IsEmit, Zenon
  <2>10. Weight(token) = 0
    BY <1>5 DEF Weight, BlockStarts
  <2>11. Steps(p, t, token)
    BY <1>1, <2>9, <2>10, EnterStep, Zenon
  <2> QED
    BY <2>4, <2>11, Zenon
<1>6. CASE token = "STREAM-END" /\ ~ p.item
  <2>1. PICK t : t = Emit(Skip(Go(p, "END")), "STREAM-END")
    OBVIOUS
  <2>2. q = t
    BY <1>6, <2>1 DEF Directives, yaml_parser_parse_document_start
  <2>3. Is(Go(p, "END"), "END", << >>, p.marks, FALSE, {}, FALSE, "NO-EVENT")
    BY <1>2, <1>3, IsGo, Zenon
  <2>4. Is(Skip(Go(p, "END")), "END", << >>, p.marks, FALSE, {}, TRUE, "NO-EVENT")
    BY <2>3, IsSkip, Zenon
  <2>5. Is(t, "END", << >>, p.marks, FALSE, {}, TRUE, "STREAM-END")
    BY <1>3, <2>1, <2>4, IsEmit, Zenon
  <2>6. Weight(token) = 0
    BY <1>6 DEF Weight, BlockStarts
  <2>7. Steps(p, t, token)
    BY <1>1, <1>3, <2>5, <2>6, OuterStep
  <2> QED
    BY <2>2, <2>7, Zenon
<1>7. CASE token = "DOCUMENT-END" /\ ~ implicit /\ ~ p.item
  <2>1. PICK t : t = Skip(p)
    OBVIOUS
  <2>2. q = t
    BY <1>7, <2>1 DEF Directives, yaml_parser_parse_document_start
  <2>3. Is(t, p.state, << >>, p.marks, p.item, {}, TRUE, "NO-EVENT")
    BY <1>2, <2>1, IsSkip, Zenon
  <2>4. Weight(token) = 0
    BY <1>7 DEF Weight, BlockStarts
  <2>5. Steps(p, t, token)
    BY <1>1, <1>2, <1>3, <2>3, <2>4, OuterStep, ZenonT(30)
  <2> QED
    BY <2>2, <2>5, Zenon
<1>8. CASE /\ token \notin Directives /\ token # "DOCUMENT-START" /\ ~ (token = "STREAM-END" /\ ~ p.item)
           /\ ~ (token = "DOCUMENT-END" /\ ~ implicit /\ ~ p.item)
  <2>1. PICK t : t = Emit(Push(Go(p, "BLOCK_NODE"), "DOCUMENT_END"), "DOCUMENT-START")
    OBVIOUS
  <2>2. q = IF implicit /\ ~ p.item THEN t ELSE yaml_parser_set_parser_error(p)
    BY <1>8, <2>1, Zenon DEF yaml_parser_parse_document_start
  <2>3. q = t /\ implicit /\ ~ p.item
    BY <2>2, ErrorIs, Zenon
  <2>4. Is(Go(p, "BLOCK_NODE"), "BLOCK_NODE", << >>, p.marks, FALSE, {}, FALSE, "NO-EVENT")
    BY <1>2, <1>3, IsGo, Zenon
  <2>5. Is(Push(Go(p, "BLOCK_NODE"), "DOCUMENT_END"), "BLOCK_NODE", << "DOCUMENT_END" >>, p.marks, FALSE,
           {}, FALSE, "NO-EVENT")
    <3>1. Is(Push(Go(p, "BLOCK_NODE"), "DOCUMENT_END"), "BLOCK_NODE", Append(<< >>, "DOCUMENT_END"),
             p.marks, FALSE, {}, FALSE, "NO-EVENT")
      BY <1>3, <2>4, IsPush, Zenon
    <3> QED
      BY <1>3, <3>1
  <2>6. Is(t, "BLOCK_NODE", << "DOCUMENT_END" >>, p.marks, FALSE, {}, FALSE, "DOCUMENT-START")
    BY <1>3, <2>1, <2>5, IsEmit, Zenon
  <2>7. MayIdle(p) + 1 <= MayIdle(t)
    <3>1. t.item = FALSE /\ t.props = {} /\ t.state = "BLOCK_NODE"
      BY <2>6 DEF Is
    <3>2. MayIdle(t) = 1
      BY <3>1 DEF MayIdle, Idle, FirstStates
    <3>3. p.state = "IMPLICIT_DOCUMENT_START"
      BY <2>3
    <3>4. MayIdle(p) = 0
      BY <3>3 DEF MayIdle, Idle, FirstStates
    <3> QED
      BY <3>2, <3>4
  <2>8. Steps(p, t, token)
    BY <1>1, <2>6, <2>7, EnterStep, Zenon
  <2> QED
    BY <2>3, <2>8, Zenon
<1> QED
  BY <1>4, <1>5, <1>6, <1>7, <1>8

(* Every step of the parser. *)
LEMMA MachineStep ==
  ASSUME NEW p \in ParserRecord, StackOf(p), p.state # "END", NEW token, NEW depth,
         p.state \in FirstStates => token = StartOf(p.state),
         ~ yaml_parser_state_machine(p, token, depth).error
  PROVE  Steps(p, yaml_parser_state_machine(p, token, depth), token)
<1> DEFINE q == yaml_parser_state_machine(p, token, depth)
<1>1. p.state \in States
  BY ParserParts, Zenon
<1>2. CASE p.state = "STREAM_START"
  <2>1. q = yaml_parser_parse_stream_start(p, token)
    BY <1>2 DEF yaml_parser_state_machine
  <2> QED
    BY <1>2, <2>1, StreamStartStep, Zenon
<1>3. CASE p.state \in {"IMPLICIT_DOCUMENT_START", "DOCUMENT_START"}
  <2>1. PICK implicit : implicit = (p.state = "IMPLICIT_DOCUMENT_START")
    OBVIOUS
  <2>2. q = yaml_parser_parse_document_start(p, token, implicit)
    BY <1>3, <2>1 DEF yaml_parser_state_machine
  <2>3. implicit \in BOOLEAN /\ (implicit => p.state = "IMPLICIT_DOCUMENT_START")
    BY <2>1
  <2> QED
    BY <1>3, <2>2, <2>3, DocumentStartStep, Zenon
<1>4. CASE p.state = "DOCUMENT_CONTENT"
  <2>1. q = yaml_parser_parse_document_content(p, token, depth)
    BY <1>4 DEF yaml_parser_state_machine
  <2> QED
    BY <1>4, <2>1, ContentStep, Zenon
<1>5. CASE p.state = "DOCUMENT_END"
  <2>1. q = yaml_parser_parse_document_end(p, token)
    BY <1>5 DEF yaml_parser_state_machine
  <2> QED
    BY <1>5, <2>1, DocumentEndStep, Zenon
<1>6. CASE p.state \in NodeStates
  <2>1. PICK block, indentless : block = (p.state # "FLOW_NODE")
            /\ indentless = (p.state = "BLOCK_NODE_OR_INDENTLESS_SEQUENCE")
    OBVIOUS
  <2>2. q = yaml_parser_parse_node(p, token, depth, block, indentless)
    BY <1>6, <2>1 DEF yaml_parser_state_machine, NodeStates
  <2>3. block \in BOOLEAN /\ indentless \in BOOLEAN
        /\ (indentless => p.state = "BLOCK_NODE_OR_INDENTLESS_SEQUENCE")
    BY <2>1
  <2> QED
    BY <1>6, <2>2, <2>3, NodeStateStep, Zenon
<1>7. CASE p.state \in FirstStates
  BY <1>7, FirstStep, Zenon
<1>8. CASE p.state = "BLOCK_SEQUENCE_ENTRY"
  <2>1. q = yaml_parser_parse_block_sequence_entry(p, token, depth, FALSE)
    BY <1>8 DEF yaml_parser_state_machine
  <2> QED
    BY <1>8, <2>1, BlockSequenceStep, Zenon
<1>9. CASE p.state = "INDENTLESS_SEQUENCE_ENTRY"
  <2>1. q = yaml_parser_parse_indentless_sequence_entry(p, token, depth)
    BY <1>9 DEF yaml_parser_state_machine
  <2> QED
    BY <1>9, <2>1, IndentlessStep, Zenon
<1>10. CASE p.state = "BLOCK_MAPPING_KEY"
  <2>1. q = yaml_parser_parse_block_mapping_key(p, token, depth, FALSE)
    BY <1>10 DEF yaml_parser_state_machine
  <2> QED
    BY <1>10, <2>1, BlockKeyStep, Zenon
<1>11. CASE p.state = "BLOCK_MAPPING_VALUE"
  <2>1. q = yaml_parser_parse_block_mapping_value(p, token, depth)
    BY <1>11 DEF yaml_parser_state_machine
  <2> QED
    BY <1>11, <2>1, BlockValueStep, Zenon
<1>12. CASE p.state = "FLOW_SEQUENCE_ENTRY"
  <2>1. q = yaml_parser_parse_flow_sequence_entry(p, token, depth, FALSE)
    BY <1>12 DEF yaml_parser_state_machine
  <2> QED
    BY <1>12, <2>1, FlowSequenceStep, Zenon
<1>13. CASE p.state = "FLOW_SEQUENCE_ENTRY_MAPPING_KEY"
  <2>1. q = yaml_parser_parse_flow_sequence_entry_mapping_key(p, token, depth)
    BY <1>13 DEF yaml_parser_state_machine
  <2> QED
    BY <1>13, <2>1, EntryKeyStep, Zenon
<1>14. CASE p.state = "FLOW_SEQUENCE_ENTRY_MAPPING_VALUE"
  <2>1. q = yaml_parser_parse_flow_sequence_entry_mapping_value(p, token, depth)
    BY <1>14 DEF yaml_parser_state_machine
  <2> QED
    BY <1>14, <2>1, EntryValueStep, Zenon
<1>15. CASE p.state = "FLOW_SEQUENCE_ENTRY_MAPPING_END"
  <2>1. q = yaml_parser_parse_flow_sequence_entry_mapping_end(p)
    BY <1>15 DEF yaml_parser_state_machine
  <2> QED
    BY <1>15, <2>1, EntryEndsStep, Zenon
<1>16. CASE p.state = "FLOW_MAPPING_KEY"
  <2>1. q = yaml_parser_parse_flow_mapping_key(p, token, depth, FALSE)
    BY <1>16 DEF yaml_parser_state_machine
  <2> QED
    BY <1>16, <2>1, FlowKeyStep, Zenon
<1>17. CASE p.state = "FLOW_MAPPING_AFTER_KEY"
  <2>1. q = FlowMappingAfterKey(p, token, depth)
    BY <1>17 DEF yaml_parser_state_machine
  <2> QED
    BY <1>17, <2>1, AfterKeyStep, Zenon
<1>18. CASE p.state \in {"FLOW_MAPPING_VALUE", "FLOW_MAPPING_EMPTY_VALUE"}
  <2>1. PICK empty : empty = (p.state = "FLOW_MAPPING_EMPTY_VALUE")
    OBVIOUS
  <2>2. q = yaml_parser_parse_flow_mapping_value(p, token, depth, empty)
    BY <1>18, <2>1 DEF yaml_parser_state_machine
  <2>3. /\ empty \in BOOLEAN
        /\ p.state = IF empty THEN "FLOW_MAPPING_EMPTY_VALUE" ELSE "FLOW_MAPPING_VALUE"
    BY <1>18, <2>1
  <2> QED
    BY <2>2, <2>3, FlowValueStep, Zenon
<1> HIDE DEF q
<1> QED
  BY <1>1, <1>2, <1>3, <1>4, <1>5, <1>6, <1>7, <1>8, <1>9, <1>10, <1>11, <1>12, <1>13, <1>14,
     <1>15, <1>16, <1>17, <1>18 DEF States, Outer, Inner, Returns


-----------------------------------------------------------------------------
(* The bridge: its frames, and their brackets, seen from the innermost. *)
Types(ctx) == [i \in DOMAIN ctx |-> ctx[i].type]
Brackets(ctx) == [i \in DOMAIN ctx |-> Bracket(ctx[i])]
OffKey(ctx) == \A i \in DOMAIN ctx : ctx[i].type # "CTX_MAPPING_KEY"
Braces == {"begin-object", "begin-array"}
JsonSort == [want : Wants, open : Seq(Braces)]

WantOf(top) ==
  CASE top.type = "CTX_MAPPING_VALUE" -> "colon"
    [] top.type # "CTX_MAPPING_VALUE" /\ top.more -> "after"
    [] top.type = "CTX_SEQUENCE" /\ ~ top.more -> "first"
    [] top.type = "CTX_MAPPING_KEY" /\ ~ top.more -> "firstKey"

LEMMA EmptyCtx ==
  Types(<< >>) = << >> /\ Brackets(<< >>) = << >> /\ << >> \in Seq(Frame) /\ OffKey(<< >>)
<1>1. PICK e : e = << >>
  OBVIOUS
<1>2. e \in Seq(Frame) /\ Len(e) = 0 /\ DOMAIN e = 1..0
  BY <1>1, LenProperties
<1>3. ASSUME NEW f, f = Types(e) \/ f = Brackets(e)
      PROVE  f = << >>
  <2>1. f \in [1..0 -> Frame]
    <3>1. DOMAIN f = 1..0 /\ f = [i \in 1..0 |-> f[i]]
      BY <1>2, <1>3 DEF Types, Brackets
    <3> QED
      BY <3>1
  <2>2. f \in Seq(Frame) /\ Len(f) = 0
    BY <2>1
  <2> QED
    BY <2>2, EmptySeq
<1>4. OffKey(e)
  BY <1>2 DEF OffKey
<1> QED
  BY <1>1, <1>2, <1>3, <1>4

LEMMA AppendCtx ==
  ASSUME NEW a \in Seq(Frame), NEW x \in Frame
  PROVE  LET ctx == Append(a, x)
         IN  /\ ctx \in Seq(Frame) /\ ctx # << >> /\ Len(ctx) = Len(a) + 1 /\ Len(a) \in Nat
             /\ Last(ctx) = x /\ Front(ctx) = a
             /\ Types(a) \in Seq(CtxTypes) /\ x.type \in CtxTypes
             /\ Types(ctx) = Append(Types(a), x.type)
             /\ Brackets(a) \in Seq(Braces) /\ Bracket(x) \in Braces
             /\ Brackets(ctx) = Append(Brackets(a), Bracket(x))
             /\ \A i \in DOMAIN ctx : i < Len(ctx) <=> i \in DOMAIN a
             /\ \A i \in DOMAIN a : ctx[i] = a[i]
<1>1. PICK c : c = Append(a, x)
  OBVIOUS
<1>2. /\ c \in Seq(Frame) /\ Len(c) = Len(a) + 1 /\ Len(a) \in Nat /\ c[Len(a) + 1] = x
      /\ DOMAIN a = 1..Len(a) /\ DOMAIN c = 1..Len(a) + 1 /\ \A i \in 1..Len(a) : c[i] = a[i]
  BY <1>1, AppendProperties, LenProperties
<1>3. c # << >> /\ Last(c) = x /\ Front(c) = a
  BY <1>1, AppendParts
<1>4. /\ \A y \in Frame : y.type \in CtxTypes /\ Bracket(y) \in Braces
      /\ \A i \in 1..Len(a) : a[i] \in Frame
  <2>1. \A y \in Frame : y.type \in CtxTypes /\ Bracket(y) \in Braces
    BY DEF Frame, CtxTypes, Bracket, Braces
  <2> QED
    BY <1>2, <2>1, ElementOfSeq
<1>5. Types(a) \in Seq(CtxTypes) /\ Len(Types(a)) = Len(a)
  <2>1. Types(a) \in [1..Len(a) -> CtxTypes]
    BY <1>2, <1>4 DEF Types
  <2> QED
    BY <1>2, <2>1
<1>6. Brackets(a) \in Seq(Braces) /\ Len(Brackets(a)) = Len(a)
  <2>1. Brackets(a) \in [1..Len(a) -> Braces]
    BY <1>2, <1>4 DEF Brackets
  <2> QED
    BY <1>2, <2>1
<1>7. Types(c) = Append(Types(a), x.type)
  <2>1. PICK f, g : f = Types(c) /\ g = Append(Types(a), x.type)
    OBVIOUS
  <2>2. /\ g \in Seq(CtxTypes) /\ Len(g) = Len(a) + 1 /\ g[Len(a) + 1] = x.type
        /\ \A i \in 1..Len(a) : g[i] = Types(a)[i]
    BY <1>2, <1>4, <1>5, <2>1, AppendProperties
  <2>3. f \in Seq(CtxTypes) /\ Len(f) = Len(a) + 1
    <3>1. f \in [1..Len(a) + 1 -> CtxTypes]
      BY <1>2, <1>4, <2>1 DEF Types
    <3> QED
      BY <1>2, <3>1
  <2>4. ASSUME NEW i \in 1..Len(a) + 1 PROVE f[i] = g[i]
    <3>1. f[i] = c[i].type
      BY <1>2, <2>1 DEF Types
    <3>2. i \in 1..Len(a) => g[i] = a[i].type
      BY <1>2, <2>2 DEF Types
    <3> QED
      BY <1>2, <2>2, <3>1, <3>2
  <2> QED
    BY <2>1, <2>2, <2>3, <2>4, SeqEqual
<1>8. Brackets(c) = Append(Brackets(a), Bracket(x))
  <2>1. PICK f, g, y : f = Brackets(c) /\ g = Append(Brackets(a), y) /\ y = Bracket(x)
    OBVIOUS
  <2>2. /\ g \in Seq(Braces) /\ Len(g) = Len(a) + 1 /\ g[Len(a) + 1] = y
        /\ \A i \in 1..Len(a) : g[i] = Brackets(a)[i]
    BY <1>2, <1>4, <1>6, <2>1, AppendProperties
  <2>3. f \in Seq(Braces) /\ Len(f) = Len(a) + 1
    <3>1. f \in [1..Len(a) + 1 -> Braces]
      BY <1>2, <1>4, <2>1 DEF Brackets
    <3> QED
      BY <1>2, <3>1
  <2>4. ASSUME NEW i \in 1..Len(a) + 1 PROVE f[i] = g[i]
    <3>1. f[i] = Bracket(c[i])
      BY <1>2, <2>1 DEF Brackets
    <3>2. i \in 1..Len(a) => g[i] = Bracket(a[i])
      BY <1>2, <2>2 DEF Brackets
    <3> QED
      BY <1>2, <2>1, <2>2, <3>1, <3>2
  <2> QED
    BY <2>1, <2>2, <2>3, <2>4, SeqEqual
<1>9. (\A i \in DOMAIN c : i < Len(c) <=> i \in DOMAIN a) /\ (\A i \in DOMAIN a : c[i] = a[i])
  BY <1>2
<1> QED
  BY <1>1, <1>2, <1>3, <1>4, <1>5, <1>6, <1>7, <1>8, <1>9, Zenon


LEMMA CtxCases ==
  ASSUME NEW T, NEW s \in Seq(T), s # << >>
  PROVE  \E a \in Seq(T), x \in T : s = Append(a, x)
<1>1. /\ s[Len(s)] \in T /\ SubSeq(s, 1, Len(s) - 1) \in Seq(T)
      /\ s = Append(SubSeq(s, 1, Len(s) - 1), s[Len(s)])
  BY LastFront, Zenon
<1> QED
  BY <1>1, Zenon

(* The acceptor. *)
Chars == Braces \cup {"end-object", "end-array", "value-separator", "name-separator", "string", "null"}

LEMMA JsonFields ==
  ASSUME NEW j \in JsonSort
  PROVE  j.want \in Wants /\ j.open \in Seq(Braces) /\ j = [want |-> j.want, open |-> j.open]
BY DEF JsonSort

LEMMA JsonFrom ==
  ASSUME NEW w \in Wants, NEW o \in Seq(Braces)
  PROVE  LET j == [want |-> w, open |-> o] IN j \in JsonSort /\ j.want = w /\ j.open = o
BY DEF JsonSort

LEMMA JsonWant ==
  ASSUME NEW j \in JsonSort, NEW w \in Wants
  PROVE  LET k == [j EXCEPT !.want = w] IN k \in JsonSort /\ k.want = w /\ k.open = j.open
BY DEF JsonSort

LEMMA ValueDoneIs ==
  ASSUME NEW o \in Seq(Braces)
  PROVE  /\ ValueDone(o) \in JsonSort /\ ValueDone(o).open = o
         /\ ValueDone(o).want = IF o = << >> THEN "done" ELSE "after"
<1>1. PICK w : w = IF o = << >> THEN "done" ELSE "after"
  OBVIOUS
<1>2. w \in Wants
  BY <1>1 DEF Wants
<1>3. ValueDone(o) = [want |-> w, open |-> o]
  BY <1>1 DEF ValueDone
<1> QED
  BY <1>1, <1>2, <1>3, JsonFrom

LEMMA TopIs ==
  ASSUME NEW o \in Seq(Braces), NEW x \in Braces
  PROVE  /\ Top(Append(o, x)) = x /\ Append(o, x) # << >> /\ Append(o, x) \in Seq(Braces)
         /\ SubSeq(Append(o, x), 1, Len(Append(o, x)) - 1) = o
<1>1. /\ Append(o, x) # << >> /\ Append(o, x) \in Seq(Braces)
      /\ Last(Append(o, x)) = x /\ Front(Append(o, x)) = o
  BY AppendParts
<1> QED
  BY <1>1, Zenon DEF Top, Last, Front

LEMMA OpenedIs ==
  ASSUME NEW j \in JsonSort, NEW c \in Braces
  PROVE  /\ Accept(j, c) \in JsonSort
         /\ j.want \in {"value", "first"} =>
              /\ Accept(j, c).open = Append(j.open, c)
              /\ Accept(j, c).want = IF c = "begin-object" THEN "firstKey" ELSE "first"
<1>1. Accept(j, c) = Opened(j, c)
  BY DEF Accept, Braces
<1>2. j.open \in Seq(Braces)
  BY JsonFields
<1>3. CASE j.want \in {"value", "first"}
  <2>1. PICK w, o : w = (IF c = "begin-object" THEN "firstKey" ELSE "first") /\ o = Append(j.open, c)
    OBVIOUS
  <2>2. w \in Wants /\ o \in Seq(Braces)
    BY <1>2, <2>1, AppendProperties DEF Wants
  <2>3. Opened(j, c) = [want |-> w, open |-> o]
    BY <1>3, <2>1, Zenon DEF Opened
  <2>4. PICK k : k = [want |-> w, open |-> o]
    OBVIOUS
  <2>5. k \in JsonSort /\ k.want = w /\ k.open = o
    BY <2>2, <2>4, JsonFrom
  <2> QED
    BY <1>1, <2>1, <2>3, <2>4, <2>5, Zenon
<1>4. CASE j.want \notin {"value", "first"}
  <2>1. Opened(j, c) = [j EXCEPT !.want = "bad"] /\ "bad" \in Wants
    BY <1>4, Zenon DEF Opened, Wants
  <2> QED
    BY <1>1, <1>4, <2>1, JsonWant
<1> QED
  BY <1>3, <1>4

LEMMA ClosedIs ==
  ASSUME NEW j \in JsonSort, NEW c \in Braces, NEW first
  PROVE  /\ Closed(j, c, first) \in JsonSort
         /\ \A o \in Seq(Braces) :
              j.open = Append(o, c) /\ j.want \in {"after", first} =>
                Closed(j, c, first) = ValueDone(o)
<1>1. j.open \in Seq(Braces)
  BY JsonFields
<1>2. Closed(j, c, first) \in JsonSort
  <2>1. CASE Top(j.open) = c /\ j.want \in {"after", first}
    <3>1. j.open # << >>
      BY <2>1 DEF Top, Braces
    <3>2. SubSeq(j.open, 1, Len(j.open) - 1) \in Seq(Braces)
      BY <1>1, <3>1, LastFront
    <3>3. Closed(j, c, first) = ValueDone(SubSeq(j.open, 1, Len(j.open) - 1))
      BY <2>1, Zenon DEF Closed
    <3> QED
      BY <3>2, <3>3, ValueDoneIs, Zenon
  <2>2. CASE ~ (Top(j.open) = c /\ j.want \in {"after", first})
    <3>1. Closed(j, c, first) = [j EXCEPT !.want = "bad"] /\ "bad" \in Wants
      BY <2>2, Zenon DEF Closed, Wants
    <3> QED
      BY <3>1, JsonWant
  <2> QED
    BY <2>1, <2>2
<1>3. ASSUME NEW o \in Seq(Braces), j.open = Append(o, c), j.want \in {"after", first}
      PROVE  Closed(j, c, first) = ValueDone(o)
  <2>1. Top(j.open) = c /\ SubSeq(j.open, 1, Len(j.open) - 1) = o
    BY <1>3, TopIs, Zenon
  <2> QED
    BY <1>3, <2>1, Zenon DEF Closed
<1> QED
  BY <1>2, <1>3, Zenon

LEMMA ScalarIs ==
  ASSUME NEW j \in JsonSort, NEW c \in {"string", "null"}
  PROVE  /\ Accept(j, c) \in JsonSort
         /\ j.want \in {"value", "first"} => Accept(j, c) = ValueDone(j.open)
         /\ c = "string" /\ j.want \in {"key", "firstKey"} =>
              Accept(j, c).want = "colon" /\ Accept(j, c).open = j.open
<1>1. Accept(j, c) = IF j.want \in {"value", "first"} THEN ValueDone(j.open)
                     ELSE [j EXCEPT !.want =
                             IF c = "string" /\ @ \in {"key", "firstKey"} THEN "colon" ELSE "bad"]
  BY DEF Accept
<1>2. CASE j.want \in {"value", "first"}
  <2>1. Accept(j, c) = ValueDone(j.open)
    BY <1>1, <1>2, Zenon
  <2>2. j.open \in Seq(Braces)
    BY JsonFields
  <2> QED
    BY <1>2, <2>1, <2>2, ValueDoneIs
<1>3. CASE j.want \notin {"value", "first"}
  <2>1. PICK w : w = IF c = "string" /\ j.want \in {"key", "firstKey"} THEN "colon" ELSE "bad"
    OBVIOUS
  <2>2. w \in Wants
    BY <2>1 DEF Wants
  <2>3. Accept(j, c) = [j EXCEPT !.want = w]
    BY <1>1, <1>3, <2>1
  <2> QED
    BY <1>3, <2>1, <2>2, <2>3, JsonWant
<1> QED
  BY <1>2, <1>3

LEMMA SeparatorIs ==
  ASSUME NEW j \in JsonSort
  PROVE  /\ Accept(j, "name-separator") \in JsonSort /\ Accept(j, "value-separator") \in JsonSort
         /\ j.want = "colon" => /\ Accept(j, "name-separator").want = "value"
                                /\ Accept(j, "name-separator").open = j.open
         /\ j.want = "after" =>
              /\ Accept(j, "value-separator").want =
                   IF Top(j.open) = "begin-object" THEN "key" ELSE "value"
              /\ Accept(j, "value-separator").open = j.open
<1>1. PICK v, w : /\ v = (IF j.want = "colon" THEN "value" ELSE "bad")
                  /\ w = IF j.want # "after" THEN "bad"
                         ELSE IF Top(j.open) = "begin-object" THEN "key" ELSE "value"
  OBVIOUS
<1>2. v \in Wants /\ w \in Wants
  BY <1>1 DEF Wants
<1>3. Accept(j, "name-separator") = [j EXCEPT !.want = v]
  BY <1>1 DEF Accept
<1>4. Accept(j, "value-separator") = [j EXCEPT !.want = w]
  BY <1>1 DEF Accept
<1>5. PICK k, l : k = [j EXCEPT !.want = v] /\ l = [j EXCEPT !.want = w]
  OBVIOUS
<1>6. k \in JsonSort /\ k.want = v /\ k.open = j.open
  BY <1>2, <1>5, JsonWant
<1>7. l \in JsonSort /\ l.want = w /\ l.open = j.open
  BY <1>2, <1>5, JsonWant
<1> QED
  BY <1>1, <1>3, <1>4, <1>5, <1>6, <1>7, Zenon


(* The bridge's operations, field by field. *)
Holds(b, ctx, json, result, plain, idle) ==
  /\ b \in BridgeRecord /\ b.ctx = ctx /\ b.json = json /\ b.result = result /\ b.plain = plain
  /\ b.idle = idle

Results == {"none", "json", "error"}

LEMMA HoldsParts ==
  ASSUME NEW b, NEW ctx, NEW j, NEW r, NEW pl, NEW n, Holds(b, ctx, j, r, pl, n)
  PROVE  ctx \in Seq(Frame) /\ j \in JsonSort /\ r \in Results /\ pl \in BOOLEAN /\ n \in Nat
BY DEF Holds, BridgeRecord, JsonSort, Results, Braces

LEMMA HoldsSelf ==
  ASSUME NEW b \in BridgeRecord
  PROVE  Holds(b, b.ctx, b.json, b.result, b.plain, b.idle)
BY DEF Holds

LEMMA HoldsCtx ==
  ASSUME NEW b, NEW ctx, NEW j, NEW r, NEW pl, NEW n, Holds(b, ctx, j, r, pl, n), NEW c \in Seq(Frame)
  PROVE  Holds([b EXCEPT !.ctx = c], c, j, r, pl, n)
<1>1. PICK d : d = [b EXCEPT !.ctx = c]
  OBVIOUS
<1>2. Holds(d, c, j, r, pl, n)
  BY <1>1 DEF Holds, BridgeRecord
<1> QED
  BY <1>1, <1>2, Zenon

LEMMA HoldsJson ==
  ASSUME NEW b, NEW ctx, NEW j, NEW r, NEW pl, NEW n, Holds(b, ctx, j, r, pl, n), NEW k \in JsonSort
  PROVE  Holds([b EXCEPT !.json = k], ctx, k, r, pl, n)
<1>1. PICK d : d = [b EXCEPT !.json = k]
  OBVIOUS
<1>2. Holds(d, ctx, k, r, pl, n)
  BY <1>1 DEF Holds, BridgeRecord, JsonSort, Braces
<1> QED
  BY <1>1, <1>2, Zenon

LEMMA HoldsResult ==
  ASSUME NEW b, NEW ctx, NEW j, NEW r, NEW pl, NEW n, Holds(b, ctx, j, r, pl, n), NEW x \in Results
  PROVE  Holds([b EXCEPT !.result = x], ctx, j, x, pl, n)
<1>1. PICK d : d = [b EXCEPT !.result = x]
  OBVIOUS
<1>2. Holds(d, ctx, j, x, pl, n)
  BY <1>1 DEF Holds, BridgeRecord, Results
<1> QED
  BY <1>1, <1>2, Zenon

LEMMA HoldsPlain ==
  ASSUME NEW b, NEW ctx, NEW j, NEW r, NEW pl, NEW n, Holds(b, ctx, j, r, pl, n), NEW x \in BOOLEAN
  PROVE  Holds([b EXCEPT !.plain = x], ctx, j, r, x, n)
<1>1. PICK d : d = [b EXCEPT !.plain = x]
  OBVIOUS
<1>2. Holds(d, ctx, j, r, x, n)
  BY <1>1 DEF Holds, BridgeRecord
<1> QED
  BY <1>1, <1>2, Zenon

LEMMA HoldsIdle ==
  ASSUME NEW b, NEW ctx, NEW j, NEW r, NEW pl, NEW n, Holds(b, ctx, j, r, pl, n), NEW x \in Nat
  PROVE  Holds([b EXCEPT !.idle = x], ctx, j, r, pl, x)
<1>1. PICK d : d = [b EXCEPT !.idle = x]
  OBVIOUS
<1>2. Holds(d, ctx, j, r, pl, x)
  BY <1>1 DEF Holds, BridgeRecord
<1> QED
  BY <1>1, <1>2, Zenon

LEMMA AcceptSort ==
  ASSUME NEW j \in JsonSort, NEW c \in Chars
  PROVE  Accept(j, c) \in JsonSort
<1>1. CASE c \in Braces
  BY <1>1, OpenedIs
<1>2. CASE c = "end-object"
  <2>1. Accept(j, c) = Closed(j, "begin-object", "firstKey") /\ "begin-object" \in Braces
    BY <1>2 DEF Accept, Braces
  <2> QED
    BY <2>1, ClosedIs, Zenon
<1>3. CASE c = "end-array"
  <2>1. Accept(j, c) = Closed(j, "begin-array", "first") /\ "begin-array" \in Braces
    BY <1>3 DEF Accept, Braces
  <2> QED
    BY <2>1, ClosedIs, Zenon
<1>4. CASE c \in {"value-separator", "name-separator"}
  BY <1>4, SeparatorIs
<1>5. CASE c \in {"string", "null"}
  BY <1>5, ScalarIs
<1> QED
  BY <1>1, <1>2, <1>3, <1>4, <1>5 DEF Chars

LEMMA WriteIs ==
  ASSUME NEW b, NEW ctx, NEW j, NEW r, NEW pl, NEW n, Holds(b, ctx, j, r, pl, n), NEW c \in Chars
  PROVE  Holds(Write(b, c), ctx, IF pl THEN Accept(j, c) ELSE j, r, pl, n)
<1>1. b.plain = pl /\ b.json = j /\ j \in JsonSort /\ pl \in BOOLEAN
  BY HoldsParts DEF Holds
<1>2. CASE pl
  <2>1. Write(b, c) = [b EXCEPT !.json = Accept(j, c)]
    BY <1>1, <1>2 DEF Write
  <2>2. Accept(j, c) \in JsonSort
    BY <1>1, AcceptSort, Zenon
  <2>3. Holds(Write(b, c), ctx, Accept(j, c), r, pl, n)
    <3>1. PICK k : k = Accept(j, c)
      OBVIOUS
    <3>2. Holds([b EXCEPT !.json = k], ctx, k, r, pl, n)
      BY <2>2, <3>1, HoldsJson
    <3> QED
      BY <2>1, <3>1, <3>2
  <2> QED
    BY <1>2, <2>3, Zenon
<1>3. CASE ~ pl
  BY <1>1, <1>3, Zenon DEF Write
<1> QED
  BY <1>1, <1>2, <1>3

LEMMA ContextTop ==
  ASSUME NEW b, NEW a \in Seq(Frame), NEW x \in Frame, b.ctx = Append(a, x)
  PROVE  context_top(b) = x
<1>1. Append(a, x) # << >> /\ Last(Append(a, x)) = x
  BY AppendCtx, Zenon
<1> QED
  BY <1>1, Zenon DEF context_top, Last

LEMMA PopIs ==
  ASSUME NEW b, NEW a \in Seq(Frame), NEW x \in Frame, NEW j, NEW r, NEW pl, NEW n,
         Holds(b, Append(a, x), j, r, pl, n)
  PROVE  Holds(context_pop(b), a, j, r, pl, n)
<1>1. Append(a, x) # << >> /\ Front(Append(a, x)) = a
  BY AppendCtx, Zenon
<1>2. PICK c : c = b.ctx
  OBVIOUS
<1>3. context_pop(b) = [b EXCEPT !.ctx = IF c = << >> THEN c ELSE SubSeq(c, 1, Len(c) - 1)]
  BY <1>2 DEF context_pop
<1>4. (IF c = << >> THEN c ELSE SubSeq(c, 1, Len(c) - 1)) = a
  BY <1>1, <1>2, Zenon DEF Holds, Front
<1>5. Holds([b EXCEPT !.ctx = a], a, j, r, pl, n)
  BY HoldsCtx
<1>6. context_pop(b) = [b EXCEPT !.ctx = a]
  BY <1>3, <1>4
<1> QED
  BY <1>5, <1>6

LEMMA PushIs ==
  ASSUME NEW b, NEW ctx, NEW j, NEW pl, NEW n, Holds(b, ctx, j, "none", pl, n),
         NEW type \in CtxTypes, Len(ctx) <= MAX_DEPTH
  PROVE  LET c == context_push(b, type)
             d == Append(ctx, [type |-> type, more |-> FALSE])
         IN  Holds(c, ctx, j, "error", pl, n) \/ (Holds(c, d, j, "none", pl, n) /\ Len(d) <= MAX_DEPTH)
<1>1. b.ctx = ctx /\ ctx \in Seq(Frame)
  BY HoldsParts DEF Holds
<1>2. PICK x : x = [type |-> type, more |-> FALSE]
  OBVIOUS
<1>3. x \in Frame
  BY <1>2 DEF Frame, CtxTypes
<1>4. CASE Len(ctx) >= MAX_DEPTH
  <2>1. context_push(b, type) = [b EXCEPT !.result = "error"] /\ "error" \in Results
    BY <1>1, <1>4, Zenon DEF context_push, Fail, Results
  <2>2. Holds([b EXCEPT !.result = "error"], ctx, j, "error", pl, n)
    BY <2>1, HoldsResult
  <2> QED
    BY <2>1, <2>2
<1>5. CASE ~ (Len(ctx) >= MAX_DEPTH)
  <2>1. PICK d : d = Append(ctx, x)
    OBVIOUS
  <2>2. d \in Seq(Frame) /\ Len(d) = Len(ctx) + 1 /\ Len(ctx) \in Nat
    BY <1>1, <1>3, <2>1, AppendCtx
  <2>3. Len(d) <= MAX_DEPTH
    BY <1>5, <2>2, BridgeAssumption
  <2>4. context_push(b, type) = [b EXCEPT !.ctx = d]
    BY <1>1, <1>2, <1>5, <2>1 DEF context_push
  <2>5. Holds([b EXCEPT !.ctx = d], d, j, "none", pl, n)
    BY <2>2, HoldsCtx
  <2>6. Holds(context_push(b, type), d, j, "none", pl, n)
    BY <2>4, <2>5
  <2> QED
    BY <1>2, <2>1, <2>3, <2>6
<1> QED
  BY <1>4, <1>5


LEMMA UpdateLast ==
  ASSUME NEW a \in Seq(Frame), NEW x \in Frame, NEW y \in Frame
  PROVE  LET c == Append(a, x) IN [c EXCEPT ![Len(c)] = y] = Append(a, y) /\ c[Len(c)] = x
<1>1. PICK c, d : c = Append(a, x) /\ d = Append(a, y)
  OBVIOUS
<1>2. /\ c \in Seq(Frame) /\ Len(c) = Len(a) + 1 /\ Len(a) \in Nat /\ c[Len(a) + 1] = x
      /\ DOMAIN c = 1..Len(a) + 1 /\ \A i \in 1..Len(a) : c[i] = a[i]
  BY <1>1, AppendProperties, LenProperties
<1>3. /\ d \in Seq(Frame) /\ Len(d) = Len(a) + 1 /\ d[Len(a) + 1] = y
      /\ DOMAIN d = 1..Len(a) + 1 /\ \A i \in 1..Len(a) : d[i] = a[i]
  BY <1>1, <1>2, AppendProperties, LenProperties
<1>4. PICK e : e = [c EXCEPT ![Len(c)] = y]
  OBVIOUS
<1>5. e \in [1..Len(a) + 1 -> Frame] /\ e[Len(a) + 1] = y /\ \A i \in 1..Len(a) : e[i] = c[i]
  BY <1>2, <1>4
<1>6. e \in Seq(Frame) /\ Len(e) = Len(a) + 1
  BY <1>2, <1>5
<1>7. \A i \in 1..Len(a) + 1 : e[i] = d[i]
  BY <1>2, <1>3, <1>5
<1>8. e = d
  BY <1>2, <1>3, <1>6, <1>7, SeqEqual
<1>9. c[Len(c)] = x
  BY <1>2
<1> QED
  BY <1>1, <1>4, <1>8, <1>9, Zenon

(* The frame after a node in it is complete. *)
AdvTop(x) ==
  [type |-> Flip(x.type), more |-> x.more \/ x.type # "CTX_MAPPING_KEY"]

LEMMA AdvTopIs ==
  ASSUME NEW x \in Frame
  PROVE  /\ AdvTop(x) \in Frame /\ AdvTop(x).type = Flip(x.type) /\ Bracket(AdvTop(x)) = Bracket(x)
         /\ WantOf(AdvTop(x)) = IF x.type = "CTX_MAPPING_KEY" THEN "colon" ELSE "after"
<1>1. PICK y : y = AdvTop(x)
  OBVIOUS
<1>2. /\ y.type = Flip(x.type) /\ y \in Frame /\ x.type \in CtxTypes
      /\ x.type # "CTX_MAPPING_KEY" => y.more
  BY <1>1 DEF AdvTop, Frame, Flip, CtxTypes
<1>3. Bracket(y) = Bracket(x)
  BY <1>2 DEF Bracket, Flip, CtxTypes
<1>4. WantOf(y) = IF x.type = "CTX_MAPPING_KEY" THEN "colon" ELSE "after"
  BY <1>2 DEF WantOf, Flip, CtxTypes
<1> QED
  BY <1>1, <1>2, <1>3, <1>4, Zenon

LEMMA AdvanceEmpty ==
  ASSUME NEW b, b.ctx = << >>
  PROVE  advance_context(b) = b
<1>1. context_top(b).type = "CTX_NONE"
  BY DEF context_top
<1> QED
  BY <1>1 DEF advance_context

LEMMA AdvanceIs ==
  ASSUME NEW b, NEW a \in Seq(Frame), NEW x \in Frame, NEW j, NEW r, NEW pl, NEW n,
         Holds(b, Append(a, x), j, r, pl, n)
  PROVE  Holds(advance_context(b), Append(a, AdvTop(x)), j, r, pl, n)
<1>1. b.ctx = Append(a, x) /\ b \in BridgeRecord
  BY DEF Holds
<1>2. context_top(b) = x
  BY <1>1, ContextTop, Zenon
<1>3. PICK c, l, y : c = b.ctx /\ l = Len(b.ctx) /\ y = AdvTop(x)
  OBVIOUS
<1>4. y \in Frame
  BY <1>3, AdvTopIs
<1>5. [c EXCEPT ![l] = y] = Append(a, y) /\ c[l] = x
  BY <1>1, <1>3, <1>4, UpdateLast
<1>6. advance_context(b) = [b EXCEPT !.ctx = [c EXCEPT ![l] = y]]
  <2>1. x.type \in CtxTypes /\ x.more \in BOOLEAN /\ x = [type |-> x.type, more |-> x.more]
    BY DEF Frame, CtxTypes
  <2>2. CASE x.type = "CTX_MAPPING_KEY"
    <3>1. advance_context(b) = [b EXCEPT !.ctx = [c EXCEPT ![l] = [c[l] EXCEPT !.type = "CTX_MAPPING_VALUE"]]]
      BY <1>2, <1>3, <2>2 DEF advance_context
    <3>2. [x EXCEPT !.type = "CTX_MAPPING_VALUE"] = y
      BY <1>3, <2>1, <2>2 DEF AdvTop, Flip
    <3> QED
      BY <1>5, <3>1, <3>2
  <2>3. CASE x.type = "CTX_MAPPING_VALUE"
    <3>1. advance_context(b) =
            [b EXCEPT !.ctx = [c EXCEPT ![l] = [type |-> "CTX_MAPPING_KEY", more |-> TRUE]]]
      BY <1>2, <1>3, <2>3 DEF advance_context
    <3>2. [type |-> "CTX_MAPPING_KEY", more |-> TRUE] = y
      BY <1>3, <2>1, <2>3 DEF AdvTop, Flip
    <3> QED
      BY <3>1, <3>2
  <2>4. CASE x.type = "CTX_SEQUENCE"
    <3>1. advance_context(b) = [b EXCEPT !.ctx = [c EXCEPT ![l] = [c[l] EXCEPT !.more = TRUE]]]
      BY <1>2, <1>3, <2>4 DEF advance_context
    <3>2. [x EXCEPT !.more = TRUE] = y
      <4>1. (x.more \/ x.type # "CTX_MAPPING_KEY") = TRUE /\ Flip(x.type) = "CTX_SEQUENCE"
        BY <2>4 DEF Flip
      <4>2. y = [type |-> "CTX_SEQUENCE", more |-> TRUE]
        BY <1>3, <4>1, Zenon DEF AdvTop
      <4>3. [x EXCEPT !.more = TRUE] = [type |-> "CTX_SEQUENCE", more |-> TRUE]
        <5>1. PICK t, m : t = x.type /\ m = x.more
          OBVIOUS
        <5>2. x = [type |-> t, more |-> m] /\ t = "CTX_SEQUENCE"
          BY <2>1, <2>4, <5>1, Zenon
        <5>3. \A v : [[type |-> t, more |-> m] EXCEPT !.more = v] = [type |-> t, more |-> v]
          OBVIOUS
        <5>4. [[type |-> t, more |-> m] EXCEPT !.more = TRUE] = [type |-> t, more |-> TRUE]
          BY <5>3, Zenon
        <5> QED
          BY <5>2, <5>4, Zenon
      <4> QED
        BY <4>2, <4>3
    <3> QED
      BY <1>5, <3>1, <3>2
  <2> QED
    BY <2>1, <2>2, <2>3, <2>4 DEF CtxTypes
<1>7. Append(a, y) \in Seq(Frame)
  BY <1>4, AppendProperties
<1>8. PICK d : d = Append(a, y)
  OBVIOUS
<1>9. Holds([b EXCEPT !.ctx = d], d, j, r, pl, n)
  BY <1>7, <1>8, HoldsCtx
<1>10. advance_context(b) = [b EXCEPT !.ctx = d]
  BY <1>5, <1>6, <1>8
<1> QED
  BY <1>3, <1>8, <1>9, <1>10


(* The JSON follows the frames. *)
Fits(j, ctx) ==
  /\ j.open = Brackets(ctx)
  /\ ctx # << >> => j.want = WantOf(Last(ctx)) /\ OffKey(Front(ctx))

LEMMA FitsAppend ==
  ASSUME NEW j, NEW a \in Seq(Frame), NEW x \in Frame
  PROVE  Fits(j, Append(a, x)) <=> /\ j.open = Append(Brackets(a), Bracket(x))
                                   /\ j.want = WantOf(x) /\ OffKey(a)
<1>1. /\ Append(a, x) # << >> /\ Last(Append(a, x)) = x /\ Front(Append(a, x)) = a
      /\ Brackets(Append(a, x)) = Append(Brackets(a), Bracket(x))
  BY AppendCtx, Zenon
<1> QED
  BY <1>1, Zenon DEF Fits

LEMMA FitsJson ==
  ASSUME NEW ctx \in Seq(Frame), NEW j
  PROVE  Fits(j, ctx) <=>
           /\ j.open = [i \in DOMAIN ctx |-> Bracket(ctx[i])]
           /\ ctx # << >> => j.want = Wanted(ctx)
           /\ \A i \in DOMAIN ctx : i < Len(ctx) => ctx[i].type # "CTX_MAPPING_KEY"
<1>1. CASE ctx = << >>
  BY <1>1 DEF Fits, Brackets
<1>2. CASE ctx # << >>
  <2>1. PICK a \in Seq(Frame), x \in Frame : ctx = Append(a, x)
    BY <1>2, CtxCases
  <2>2. /\ Last(ctx) = x /\ Front(ctx) = a
        /\ \A i \in DOMAIN ctx : i < Len(ctx) <=> i \in DOMAIN a
        /\ \A i \in DOMAIN a : ctx[i] = a[i]
    BY <2>1, AppendCtx
  <2>3. Wanted(ctx) = WantOf(x)
    BY <2>2, Zenon DEF Wanted, WantOf, Last
  <2>4. (\A i \in DOMAIN ctx : i < Len(ctx) => ctx[i].type # "CTX_MAPPING_KEY") <=> OffKey(a)
    <3>1. DOMAIN a \subseteq DOMAIN ctx
      BY <2>1, AppendProperties, LenProperties
    <3> QED
      BY <2>2, <3>1 DEF OffKey
  <2> QED
    BY <1>2, <2>2, <2>3, <2>4, Zenon DEF Fits, Brackets
<1> QED
  BY <1>1, <1>2

(* What the acceptor waits for once the separator is written. *)
Accepts(ctx) == IF ctx # << >> /\ Last(ctx).type = "CTX_MAPPING_KEY" THEN {"key", "firstKey"}
                ELSE {"value", "first"}

LEMMA EmitSeparatorIs ==
  ASSUME NEW b, NEW ctx, NEW j, NEW r, NEW pl, NEW n, Holds(b, ctx, j, r, pl, n)
  PROVE  \E k \in JsonSort :
           /\ Holds(emit_separator(b), ctx, k, r, pl, n)
           /\ pl /\ Fits(j, ctx) /\ (ctx = << >> => j.want = "value") =>
                k.open = j.open /\ k.want \in Accepts(ctx)
<1>1. b.ctx = ctx /\ ctx \in Seq(Frame) /\ j \in JsonSort /\ pl \in BOOLEAN
  BY HoldsParts DEF Holds
<1>2. CASE ctx = << >>
  <2>1. context_top(b).type = "CTX_NONE"
    BY <1>1, <1>2 DEF context_top
  <2>2. emit_separator(b) = b
    BY <2>1 DEF emit_separator
  <2>3. j.want = "value" => j.want \in Accepts(ctx)
    BY <1>2 DEF Accepts
  <2> QED
    BY <1>1, <1>2, <2>2, <2>3, Zenon
<1>3. CASE ctx # << >>
  <2>1. PICK a \in Seq(Frame), x \in Frame : ctx = Append(a, x)
    BY <1>1, <1>3, CtxCases
  <2>2. context_top(b) = x /\ Last(ctx) = x
    <3>1. context_top(b) = x
      BY <1>1, <2>1, ContextTop, Zenon
    <3>2. Last(ctx) = x
      BY <2>1, AppendCtx, Zenon
    <3> QED
      BY <3>1, <3>2
  <2>3. x.type \in CtxTypes /\ x.more \in BOOLEAN
    BY DEF Frame, CtxTypes
  <2>4. Brackets(a) \in Seq(Braces) /\ Bracket(x) \in Braces
    BY AppendCtx, Zenon
  <2>5. ASSUME Fits(j, ctx) PROVE j.want = WantOf(x) /\ Top(j.open) = Bracket(x)
    <3>1. j.open = Append(Brackets(a), Bracket(x)) /\ j.want = WantOf(x)
      BY <2>1, <2>5, FitsAppend, Zenon
    <3> QED
      BY <2>4, <3>1, TopIs, Zenon
  <2>6. "name-separator" \in Chars /\ "value-separator" \in Chars
    BY DEF Chars
  <2>7. CASE x.type = "CTX_MAPPING_VALUE"
    <3>1. PICK k : k = IF pl THEN Accept(j, "name-separator") ELSE j
      OBVIOUS
    <3>2. emit_separator(b) = Write(b, "name-separator")
      BY <2>2, <2>7 DEF emit_separator
    <3>3. Holds(emit_separator(b), ctx, k, r, pl, n)
      BY <2>6, <3>1, <3>2, WriteIs, Zenon
    <3>4. k \in JsonSort
      BY <3>3, HoldsParts, Zenon
    <3>5. ASSUME pl, Fits(j, ctx) PROVE k.open = j.open /\ k.want \in Accepts(ctx)
      <4>1. j.want = "colon"
        BY <2>5, <2>7, <3>5 DEF WantOf
      <4>2. k.want = "value" /\ k.open = j.open
        BY <1>1, <3>1, <3>5, <4>1, SeparatorIs, Zenon
      <4> QED
        BY <2>2, <2>7, <4>2 DEF Accepts
    <3> QED
      BY <3>3, <3>4, <3>5, Zenon
  <2>8. CASE x.type # "CTX_MAPPING_VALUE" /\ x.more
    <3>1. PICK k : k = IF pl THEN Accept(j, "value-separator") ELSE j
      OBVIOUS
    <3>2. emit_separator(b) = Write(b, "value-separator")
      BY <2>2, <2>3, <2>8 DEF emit_separator, CtxTypes
    <3>3. Holds(emit_separator(b), ctx, k, r, pl, n)
      BY <2>6, <3>1, <3>2, WriteIs, Zenon
    <3>4. k \in JsonSort
      BY <3>3, HoldsParts, Zenon
    <3>5. ASSUME pl, Fits(j, ctx) PROVE k.open = j.open /\ k.want \in Accepts(ctx)
      <4>1. j.want = "after"
        BY <2>5, <2>8, <3>5 DEF WantOf
      <4>2. k.want = (IF Bracket(x) = "begin-object" THEN "key" ELSE "value") /\ k.open = j.open
        BY <1>1, <2>5, <3>1, <3>5, <4>1, SeparatorIs, Zenon
      <4> QED
        BY <1>3, <2>2, <2>3, <2>8, <4>2 DEF Accepts, Bracket, CtxTypes
    <3> QED
      BY <3>3, <3>4, <3>5, Zenon
  <2>9. CASE x.type # "CTX_MAPPING_VALUE" /\ ~ x.more
    <3>1. emit_separator(b) = b
      BY <2>2, <2>3, <2>9 DEF emit_separator, CtxTypes
    <3>2. ASSUME Fits(j, ctx) PROVE j.want \in Accepts(ctx)
      BY <1>3, <2>2, <2>3, <2>5, <2>9, <3>2 DEF WantOf, Accepts, CtxTypes
    <3> QED
      BY <1>1, <3>1, <3>2, Zenon
  <2> QED
    BY <2>7, <2>8, <2>9
<1> QED
  BY <1>2, <1>3


(* What an event may do to the bridge: ctx and j become ctx2 and k. *)
Fitting(j, ctx) == Fits(j, ctx) /\ (ctx = << >> => j.want = "value")
Fitted(k, ctx) == Fits(k, ctx) /\ (ctx = << >> => k.want = "done")

LEMMA AdvanceFits ==
  ASSUME NEW b, NEW ctx, NEW k, NEW pl, NEW n, Holds(b, ctx, k, "none", pl, n),
         Len(ctx) <= MAX_DEPTH, NEW fits \in BOOLEAN,
         fits => k.open = Brackets(ctx) /\ (ctx # << >> => OffKey(Front(ctx))),
         fits => k.want = IF ctx = << >> THEN "done"
                          ELSE IF Last(ctx).type = "CTX_MAPPING_KEY" THEN "colon" ELSE "after"
  PROVE  \E c2 \in Seq(Frame) :
           /\ Holds(advance_context(b), c2, k, "none", pl, n) /\ Len(c2) <= MAX_DEPTH
           /\ Types(c2) = Advanced(Types(ctx)) /\ (fits => Fitted(k, c2))
<1>1. ctx \in Seq(Frame) /\ b.ctx = ctx
  BY HoldsParts DEF Holds
<1>2. CASE ctx = << >>
  <2>1. advance_context(b) = b
    BY <1>1, <1>2, AdvanceEmpty, Zenon
  <2>2. Types(ctx) = << >> /\ Advanced(Types(ctx)) = Types(ctx)
    BY <1>2, EmptyCtx, Zenon DEF Advanced
  <2>3. fits => Fitted(k, ctx)
    BY <1>2 DEF Fitted, Fits
  <2> QED
    BY <1>1, <2>1, <2>2, <2>3, Zenon
<1>3. CASE ctx # << >>
  <2>1. PICK a \in Seq(Frame), x \in Frame : ctx = Append(a, x)
    BY <1>1, <1>3, CtxCases
  <2>2. PICK y : y = AdvTop(x)
    OBVIOUS
  <2>3. /\ y \in Frame /\ y.type = Flip(x.type) /\ Bracket(y) = Bracket(x)
        /\ WantOf(y) = IF x.type = "CTX_MAPPING_KEY" THEN "colon" ELSE "after"
    BY <2>2, AdvTopIs, Zenon
  <2>4. Holds(advance_context(b), Append(a, y), k, "none", pl, n)
    BY <2>1, <2>2, AdvanceIs, Zenon
  <2>5. /\ Last(ctx) = x /\ Front(ctx) = a /\ Len(ctx) = Len(a) + 1
        /\ Types(a) \in Seq(CtxTypes) /\ x.type \in CtxTypes
        /\ Types(ctx) = Append(Types(a), x.type) /\ Brackets(ctx) = Append(Brackets(a), Bracket(x))
    BY <2>1, AppendCtx, Zenon
  <2>6. /\ Append(a, y) \in Seq(Frame) /\ Append(a, y) # << >> /\ Len(Append(a, y)) = Len(a) + 1
        /\ Types(Append(a, y)) = Append(Types(a), y.type)
    BY <2>3, AppendCtx, Zenon
  <2>7. Types(Append(a, y)) = Advanced(Types(ctx))
    BY <2>3, <2>5, <2>6, AdvancedAppend, Zenon
  <2>8. fits => Fits(k, Append(a, y))
    BY <1>3, <2>3, <2>5, FitsAppend, ZenonT(30)
  <2> QED
    BY <2>4, <2>5, <2>6, <2>7, <2>8, Zenon DEF Fitted
<1> QED
  BY <1>2, <1>3

LEMMA LeafEvent ==
  ASSUME NEW b, NEW ctx, NEW j, NEW pl, NEW n, Holds(b, ctx, j, "none", pl, n),
         Len(ctx) <= MAX_DEPTH, NEW ch \in {"string", "null"},
         ch = "null" /\ pl => ctx = << >> \/ Last(ctx).type # "CTX_MAPPING_KEY"
  PROVE  \E c2 \in Seq(Frame), k \in JsonSort :
           /\ Holds(advance_context(Write(emit_separator(b), ch)), c2, k, "none", pl, n)
           /\ Len(c2) <= MAX_DEPTH /\ Types(c2) = Advanced(Types(ctx))
           /\ pl /\ Fitting(j, ctx) => Fitted(k, c2)
<1>1. PICK i \in JsonSort : /\ Holds(emit_separator(b), ctx, i, "none", pl, n)
                            /\ pl /\ Fits(j, ctx) /\ (ctx = << >> => j.want = "value") =>
                                 i.open = j.open /\ i.want \in Accepts(ctx)
  BY EmitSeparatorIs, Zenon
<1>2. PICK k : k = IF pl THEN Accept(i, ch) ELSE i
  OBVIOUS
<1>3. PICK d : d = Write(emit_separator(b), ch)
  OBVIOUS
<1>4. Holds(d, ctx, k, "none", pl, n)
  <2>1. ch \in Chars
    BY DEF Chars
  <2> QED
    BY <1>1, <1>2, <1>3, <2>1, WriteIs, Zenon
<1>5. ctx \in Seq(Frame) /\ pl \in BOOLEAN /\ j \in JsonSort /\ k \in JsonSort
  BY <1>4, HoldsParts, Zenon
<1>6. PICK fits \in BOOLEAN : fits <=> pl /\ Fitting(j, ctx)
  <2>1. (pl /\ Fitting(j, ctx)) \in BOOLEAN
    BY <1>5
  <2> QED
    BY <2>1
<1>7. fits => k.open = Brackets(ctx) /\ (ctx # << >> => OffKey(Front(ctx)))
              /\ k.want = IF ctx = << >> THEN "done"
                          ELSE IF Last(ctx).type = "CTX_MAPPING_KEY" THEN "colon" ELSE "after"
  <2> SUFFICES ASSUME fits
               PROVE  /\ k.open = Brackets(ctx) /\ (ctx # << >> => OffKey(Front(ctx)))
                      /\ k.want = IF ctx = << >> THEN "done"
                                  ELSE IF Last(ctx).type = "CTX_MAPPING_KEY" THEN "colon" ELSE "after"
    OBVIOUS
  <2>1. pl /\ Fits(j, ctx) /\ i.open = j.open /\ i.want \in Accepts(ctx)
    BY <1>1, <1>6, Zenon DEF Fitting
  <2>2. i.open = Brackets(ctx) /\ (ctx # << >> => OffKey(Front(ctx))) /\ k = Accept(i, ch)
    BY <1>2, <2>1, Zenon DEF Fits
  <2>3. i.open \in Seq(Braces)
    BY JsonFields
  <2>4. ctx = << >> <=> i.open = << >>
    <3>1. ctx = << >> => Brackets(ctx) = << >>
      BY EmptyCtx, Zenon
    <3>2. ASSUME ctx # << >> PROVE Brackets(ctx) # << >>
      <4>1. PICK a \in Seq(Frame), x \in Frame : ctx = Append(a, x)
        BY <1>5, <3>2, CtxCases
      <4>2. Brackets(ctx) = Append(Brackets(a), Bracket(x)) /\ Brackets(a) \in Seq(Braces) /\ Bracket(x) \in Braces
        BY <4>1, AppendCtx, Zenon
      <4> QED
        BY <4>2, TopIs, Zenon
    <3> QED
      BY <2>2, <3>1, <3>2, Zenon
  <2>5. CASE ctx # << >> /\ Last(ctx).type = "CTX_MAPPING_KEY"
    <3>1. i.want \in {"key", "firstKey"} /\ ch = "string"
      BY <2>1, <2>5 DEF Accepts
    <3>2. k.want = "colon" /\ k.open = i.open
      BY <2>2, <3>1, ScalarIs, Zenon
    <3> QED
      BY <2>2, <2>5, <3>2, Zenon
  <2>6. CASE ~ (ctx # << >> /\ Last(ctx).type = "CTX_MAPPING_KEY")
    <3>1. i.want \in {"value", "first"}
      BY <2>1, <2>6 DEF Accepts
    <3>2. k = ValueDone(i.open)
      BY <2>2, <3>1, ScalarIs, Zenon
    <3>3. k.open = i.open /\ k.want = IF i.open = << >> THEN "done" ELSE "after"
      BY <2>3, <3>2, ValueDoneIs, Zenon
    <3> QED
      BY <2>2, <2>4, <2>6, <3>3, Zenon
  <2> QED
    BY <2>5, <2>6
<1>8. PICK c2 \in Seq(Frame) :
           /\ Holds(advance_context(d), c2, k, "none", pl, n) /\ Len(c2) <= MAX_DEPTH
           /\ Types(c2) = Advanced(Types(ctx)) /\ (fits => Fitted(k, c2))
  BY <1>4, <1>7, AdvanceFits, Zenon
<1> QED
  BY <1>3, <1>5, <1>6, <1>8, Zenon


LEMMA BracketsEmpty ==
  ASSUME NEW ctx \in Seq(Frame)
  PROVE  Brackets(ctx) \in Seq(Braces) /\ (ctx = << >> <=> Brackets(ctx) = << >>)
<1>1. ctx = << >> => Brackets(ctx) = << >>
  BY EmptyCtx, Zenon
<1>2. ASSUME ctx # << >> PROVE Brackets(ctx) # << >> /\ Brackets(ctx) \in Seq(Braces)
  <2>1. PICK a \in Seq(Frame), x \in Frame : ctx = Append(a, x)
    BY <1>2, CtxCases
  <2>2. Brackets(ctx) = Append(Brackets(a), Bracket(x)) /\ Brackets(a) \in Seq(Braces) /\ Bracket(x) \in Braces
    BY <2>1, AppendCtx, Zenon
  <2> QED
    BY <2>2, TopIs, Zenon
<1> QED
  BY <1>1, <1>2

LEMMA OffKeyAppend ==
  ASSUME NEW a \in Seq(Frame), NEW x \in Frame
  PROVE  OffKey(Append(a, x)) <=> OffKey(a) /\ x.type # "CTX_MAPPING_KEY"
<1>1. PICK c : c = Append(a, x)
  OBVIOUS
<1>2. /\ c \in Seq(Frame) /\ Len(c) = Len(a) + 1 /\ Len(a) \in Nat /\ c[Len(a) + 1] = x
      /\ DOMAIN a = 1..Len(a) /\ DOMAIN c = 1..Len(a) + 1 /\ \A i \in 1..Len(a) : c[i] = a[i]
  BY <1>1, AppendProperties, LenProperties
<1>3. OffKey(c) <=> OffKey(a) /\ x.type # "CTX_MAPPING_KEY"
  BY <1>2 DEF OffKey
<1> QED
  BY <1>1, <1>3, Zenon

LEMMA StartEvent ==
  ASSUME NEW b, NEW ctx, NEW j, NEW pl, NEW n, Holds(b, ctx, j, "none", pl, n),
         Len(ctx) <= MAX_DEPTH, NEW type \in {"CTX_MAPPING_KEY", "CTX_SEQUENCE"}, NEW ch,
         ch = IF type = "CTX_MAPPING_KEY" THEN "begin-object" ELSE "begin-array",
         pl => ctx = << >> \/ Last(ctx).type # "CTX_MAPPING_KEY"
  PROVE  LET d == context_push(Write(emit_separator(b), ch), type)
         IN  \E c2 \in Seq(Frame), k \in JsonSort :
               /\ Len(c2) <= MAX_DEPTH
               /\ \/ Holds(d, c2, k, "error", pl, n)
                  \/ /\ Holds(d, c2, k, "none", pl, n) /\ Types(c2) = Append(Types(ctx), type)
                     /\ pl /\ Fitting(j, ctx) => Fitted(k, c2)
<1>1. PICK i \in JsonSort : /\ Holds(emit_separator(b), ctx, i, "none", pl, n)
                            /\ pl /\ Fits(j, ctx) /\ (ctx = << >> => j.want = "value") =>
                                 i.open = j.open /\ i.want \in Accepts(ctx)
  BY EmitSeparatorIs, Zenon
<1>2. PICK k : k = IF pl THEN Accept(i, ch) ELSE i
  OBVIOUS
<1>3. PICK w : w = Write(emit_separator(b), ch)
  OBVIOUS
<1>4. ch \in Chars /\ ch \in Braces /\ type \in CtxTypes
  BY DEF Chars, Braces, CtxTypes
<1>5. Holds(w, ctx, k, "none", pl, n)
  BY <1>1, <1>2, <1>3, <1>4, WriteIs, Zenon
<1>6. ctx \in Seq(Frame) /\ pl \in BOOLEAN /\ j \in JsonSort /\ k \in JsonSort
  BY <1>5, HoldsParts, Zenon
<1>7. PICK x : x = [type |-> type, more |-> FALSE]
  OBVIOUS
<1>8. /\ x \in Frame /\ x.type = type /\ Bracket(x) = ch
      /\ WantOf(x) = IF ch = "begin-object" THEN "firstKey" ELSE "first"
  BY <1>7 DEF Frame, Bracket, WantOf
<1>9. PICK d, c2 : d = context_push(w, type) /\ c2 = Append(ctx, x)
  OBVIOUS
<1>10. Holds(d, ctx, k, "error", pl, n) \/ (Holds(d, c2, k, "none", pl, n) /\ Len(c2) <= MAX_DEPTH)
  BY <1>4, <1>5, <1>7, <1>9, PushIs
<1>11. c2 \in Seq(Frame) /\ c2 # << >> /\ Types(c2) = Append(Types(ctx), type)
  BY <1>6, <1>8, <1>9, AppendCtx
<1>12. ASSUME pl, Fitting(j, ctx) PROVE Fitted(k, c2)
  <2>1. Fits(j, ctx) /\ i.open = j.open /\ i.want \in Accepts(ctx)
    BY <1>1, <1>12, Zenon DEF Fitting
  <2>2. i.open = Brackets(ctx) /\ k = Accept(i, ch)
    BY <1>2, <1>12, <2>1, Zenon DEF Fits
  <2>3. i.want \in {"value", "first"}
    BY <1>12, <2>1 DEF Accepts
  <2>4. k.open = Append(Brackets(ctx), Bracket(x)) /\ k.want = WantOf(x)
    <3>1. /\ Accept(i, ch).open = Append(i.open, ch)
          /\ Accept(i, ch).want = IF ch = "begin-object" THEN "firstKey" ELSE "first"
      BY <1>4, <2>3, OpenedIs, Zenon
    <3> QED
      BY <1>8, <2>2, <3>1, Zenon
  <2>5. OffKey(ctx)
    <3>1. CASE ctx = << >>
      BY <3>1, EmptyCtx, Zenon
    <3>2. CASE ctx # << >>
      <4>1. PICK a \in Seq(Frame), y \in Frame : ctx = Append(a, y)
        BY <1>6, <3>2, CtxCases
      <4>2. Last(ctx) = y
        BY <4>1, AppendCtx, Zenon
      <4>3. OffKey(a)
        BY <2>1, <4>1, FitsAppend, Zenon
      <4> QED
        BY <1>12, <3>2, <4>1, <4>2, <4>3, OffKeyAppend, Zenon
    <3> QED
      BY <3>1, <3>2
  <2>6. Fits(k, c2)
    BY <1>6, <1>8, <1>9, <2>4, <2>5, FitsAppend, Zenon
  <2> QED
    BY <1>11, <2>6, Zenon DEF Fitted
<1> QED
  BY <1>3, <1>6, <1>9, <1>10, <1>11, <1>12, Zenon

LEMMA EndEvent ==
  ASSUME NEW b, NEW ctx, NEW j, NEW pl, NEW n, Holds(b, ctx, j, "none", pl, n),
         Len(ctx) <= MAX_DEPTH, ctx # << >>, NEW type \in {"CTX_MAPPING_KEY", "CTX_SEQUENCE"}, NEW ch,
         ch = IF type = "CTX_MAPPING_KEY" THEN "end-object" ELSE "end-array",
         Last(ctx).type = type
  PROVE  \E c2 \in Seq(Frame), k \in JsonSort :
           /\ Holds(advance_context(Write(context_pop(b), ch)), c2, k, "none", pl, n)
           /\ Len(c2) <= MAX_DEPTH /\ Types(c2) = Advanced(Front(Types(ctx)))
           /\ pl /\ Fitting(j, ctx) => Fitted(k, c2)
<1>1. ctx \in Seq(Frame) /\ pl \in BOOLEAN /\ j \in JsonSort
  BY HoldsParts, Zenon
<1>2. PICK a \in Seq(Frame), x \in Frame : ctx = Append(a, x)
  BY <1>1, CtxCases
<1>3. /\ x.type = type /\ Front(Types(ctx)) = Types(a) /\ Len(a) <= MAX_DEPTH
      /\ Brackets(a) \in Seq(Braces) /\ Bracket(x) \in Braces
  <2>1. /\ Last(ctx) = x /\ Len(ctx) = Len(a) + 1 /\ Len(a) \in Nat
        /\ Brackets(a) \in Seq(Braces) /\ Bracket(x) \in Braces
        /\ Types(a) \in Seq(CtxTypes) /\ x.type \in CtxTypes /\ Types(ctx) = Append(Types(a), x.type)
    BY <1>2, AppendCtx, Zenon
  <2>2. Len(a) <= MAX_DEPTH
    BY <2>1, BridgeAssumption
  <2>3. Front(Types(ctx)) = Types(a)
    <3>1. Front(Append(Types(a), x.type)) = Types(a)
      BY <2>1, AppendParts
    <3> QED
      BY <2>1, <3>1
  <2> QED
    BY <2>1, <2>2, <2>3, Zenon
<1>4. Holds(context_pop(b), a, j, "none", pl, n)
  BY <1>2, PopIs, Zenon
<1>5. PICK k, d : k = (IF pl THEN Accept(j, ch) ELSE j) /\ d = Write(context_pop(b), ch)
  OBVIOUS
<1>6. Holds(d, a, k, "none", pl, n)
  <2>1. ch \in Chars
    BY DEF Chars
  <2> QED
    BY <1>4, <1>5, <2>1, WriteIs, Zenon
<1>7. PICK fits \in BOOLEAN : fits <=> pl /\ Fitting(j, ctx)
  <2>1. (pl /\ Fitting(j, ctx)) \in BOOLEAN
    BY <1>1
  <2> QED
    BY <2>1
<1>8. ASSUME fits
      PROVE  /\ k.open = Brackets(a) /\ (a # << >> => OffKey(Front(a)))
             /\ k.want = IF a = << >> THEN "done"
                         ELSE IF Last(a).type = "CTX_MAPPING_KEY" THEN "colon" ELSE "after"
  <2>1. pl /\ Fits(j, ctx)
    BY <1>7, <1>8, Zenon DEF Fitting
  <2>2. j.open = Append(Brackets(a), Bracket(x)) /\ j.want = WantOf(x) /\ OffKey(a)
    BY <1>2, <2>1, FitsAppend, Zenon
  <2>3. PICK first : first = IF type = "CTX_MAPPING_KEY" THEN "firstKey" ELSE "first"
    OBVIOUS
  <2>4. Accept(j, ch) = Closed(j, Bracket(x), first)
    BY <1>3, <2>3 DEF Accept, Bracket
  <2>5. j.want \in {"after", first}
    <3>1. x.more \in BOOLEAN
      BY DEF Frame
    <3>2. WantOf(x) \in {"after", first}
      BY <1>3, <2>3, <3>1 DEF WantOf
    <3> QED
      BY <2>2, <3>2, Zenon
  <2>6. k = ValueDone(Brackets(a))
    BY <1>1, <1>3, <1>5, <2>1, <2>2, <2>4, <2>5, ClosedIs, Zenon
  <2>7. k.open = Brackets(a) /\ k.want = IF Brackets(a) = << >> THEN "done" ELSE "after"
    BY <1>3, <2>6, ValueDoneIs, Zenon
  <2>8. ASSUME a # << >> PROVE OffKey(Front(a)) /\ Last(a).type # "CTX_MAPPING_KEY"
    <3>1. PICK e \in Seq(Frame), y \in Frame : a = Append(e, y)
      BY <2>8, CtxCases
    <3>2. Front(a) = e /\ Last(a) = y
      BY <3>1, AppendCtx, Zenon
    <3> QED
      BY <2>2, <3>1, <3>2, OffKeyAppend, Zenon
  <2> QED
    BY <2>7, <2>8, BracketsEmpty, Zenon
<1>9. k \in JsonSort
  BY <1>6, HoldsParts, Zenon
<1>10. PICK c2 \in Seq(Frame) :
           /\ Holds(advance_context(d), c2, k, "none", pl, n) /\ Len(c2) <= MAX_DEPTH
           /\ Types(c2) = Advanced(Types(a)) /\ (fits => Fitted(k, c2))
  BY <1>3, <1>6, <1>8, AdvanceFits, Zenon
<1> QED
  BY <1>3, <1>5, <1>7, <1>9, <1>10, Zenon


(* Every event.  g is the stack of frames the parser is in after it. *)
Outcome(b, c, g, event) ==
  /\ c \in BridgeRecord /\ c.idle = b.idle /\ Len(c.ctx) <= MAX_DEPTH
  /\ c.result \in {"none", "error"} \/ (c.result = "json" /\ event = "STREAM-END")
  /\ event = "STREAM-END" => c.result = "json"
  /\ c.result # "error" => Types(c.ctx) = g
  /\ c.plain => b.plain
  /\ event \in NodeEvents /\ c.plain /\ c.result # "error" /\ Fitting(b.json, b.ctx) =>
       Fitted(c.json, c.ctx)
  /\ event \notin NodeEvents => /\ c.json = b.json /\ c.ctx = b.ctx
                                /\ event = "DOCUMENT-START" /\ c.plain => b.json = NoJson

LEMMA HoldsOutcome ==
  ASSUME NEW b \in BridgeRecord, NEW event \in NodeEvents, NEW pl \in BOOLEAN, pl => b.plain,
         NEW g, NEW d, NEW c2, NEW k, Len(c2) <= MAX_DEPTH,
         \/ Holds(d, c2, k, "error", pl, b.idle)
         \/ /\ Holds(d, c2, k, "none", pl, b.idle) /\ Types(c2) = g
            /\ pl /\ Fitting(b.json, b.ctx) => Fitted(k, c2)
  PROVE  Outcome(b, d, g, event)
<1>1. event # "STREAM-END"
  BY DEF NodeEvents
<1>2. CASE Holds(d, c2, k, "error", pl, b.idle)
  <2>1. /\ d \in BridgeRecord /\ d.ctx = c2 /\ d.json = k /\ d.result = "error" /\ d.plain = pl
        /\ d.idle = b.idle
    BY <1>2, Zenon DEF Holds
  <2> QED
    BY <1>1, <2>1 DEF Outcome
<1>3. CASE /\ Holds(d, c2, k, "none", pl, b.idle) /\ Types(c2) = g
           /\ pl /\ Fitting(b.json, b.ctx) => Fitted(k, c2)
  <2>1. /\ d \in BridgeRecord /\ d.ctx = c2 /\ d.json = k /\ d.result = "none" /\ d.plain = pl
        /\ d.idle = b.idle
    BY <1>3, Zenon DEF Holds
  <2> QED
    BY <1>1, <1>3, <2>1 DEF Outcome
<1> QED
  BY <1>2, <1>3

LEMMA TypesLast ==
  ASSUME NEW ctx \in Seq(Frame)
  PROVE  /\ ctx = << >> <=> Types(ctx) = << >>
         /\ ctx # << >> => Last(Types(ctx)) = Last(ctx).type
<1>1. ctx = << >> => Types(ctx) = << >>
  BY EmptyCtx, Zenon
<1>2. ASSUME ctx # << >> PROVE Types(ctx) # << >> /\ Last(Types(ctx)) = Last(ctx).type
  <2>1. PICK a \in Seq(Frame), x \in Frame : ctx = Append(a, x)
    BY <1>2, CtxCases
  <2>2. /\ Types(ctx) = Append(Types(a), x.type) /\ Types(a) \in Seq(CtxTypes) /\ x.type \in CtxTypes
        /\ Last(ctx) = x
    BY <2>1, AppendCtx, Zenon
  <2>3. Append(Types(a), x.type) # << >> /\ Last(Append(Types(a), x.type)) = x.type
    BY <2>2, AppendParts
  <2> QED
    BY <2>2, <2>3, Zenon
<1> QED
  BY <1>1, <1>2

LEMMA EventStep ==
  ASSUME NEW b \in BridgeRecord, b.result = "none", Len(b.ctx) <= MAX_DEPTH, NEW event \in Events,
         NEW g, FrameStep(Types(b.ctx), g, event)
  PROVE  Outcome(b, yaml_to_json(b, event), g, event)
<1> DEFINE odd == \/ event = "DOCUMENT-START" /\ b.json # NoJson
                  \/ event \in {"MAPPING-START", "SEQUENCE-START", "ALIAS"}
                     /\ context_top(b).type = "CTX_MAPPING_KEY"
           d == yaml_to_json(b, event)
<1>1. PICK pl \in BOOLEAN : pl = (b.plain /\ ~ odd)
  OBVIOUS
<1>2. PICK c : c = [b EXCEPT !.plain = pl]
  OBVIOUS
<1>3. Holds(c, b.ctx, b.json, "none", pl, b.idle)
  <2>1. Holds(b, b.ctx, b.json, "none", b.plain, b.idle)
    BY HoldsSelf
  <2> QED
    BY <1>2, <2>1, HoldsPlain
<1>4. PICK ctx, n : ctx = b.ctx /\ n = b.idle
  OBVIOUS
<1>5. ctx \in Seq(Frame) /\ Len(ctx) <= MAX_DEPTH
  BY <1>4 DEF BridgeRecord
<1>6. (ctx = << >> <=> Types(ctx) = << >>) /\ (ctx # << >> => Last(Types(ctx)) = Last(ctx).type)
  BY <1>5, TypesLast, Zenon
<1>7. event \in {"MAPPING-START", "SEQUENCE-START", "ALIAS"} /\ pl =>
        ctx = << >> \/ Last(ctx).type # "CTX_MAPPING_KEY"
  <2>1. ctx # << >> => context_top(b) = Last(ctx)
    BY <1>4, Zenon DEF context_top, Last
  <2> QED
    BY <1>1, <2>1
<1>8. pl => b.plain
  BY <1>1
<1>9. Holds(c, ctx, b.json, "none", pl, n)
  BY <1>3, <1>4, Zenon
<1>10. c = [b EXCEPT !.plain = b.plain /\ ~ odd]
  BY <1>1, <1>2
<1>11. b.json = NoJson \/ event # "DOCUMENT-START" \/ ~ pl
  BY <1>1
<1> SUFFICES Outcome(b, d, g, event)
  OBVIOUS
<1>12. CASE event \in {"SCALAR", "ALIAS"}
  <2>1. PICK ch \in {"string", "null"} : ch = IF event = "SCALAR" THEN "string" ELSE "null"
    OBVIOUS
  <2>2. d = advance_context(Write(emit_separator(c), ch))
    BY <1>10, <1>12, <2>1 DEF yaml_to_json
  <2>3. ch = "null" /\ pl => ctx = << >> \/ Last(ctx).type # "CTX_MAPPING_KEY"
    BY <1>7, <1>12, <2>1
  <2>4. PICK c2 \in Seq(Frame), k \in JsonSort :
           /\ Holds(advance_context(Write(emit_separator(c), ch)), c2, k, "none", pl, n)
           /\ Len(c2) <= MAX_DEPTH /\ Types(c2) = Advanced(Types(ctx))
           /\ pl /\ Fitting(b.json, ctx) => Fitted(k, c2)
    BY <1>5, <1>9, <2>3, LeafEvent, Zenon
  <2>5. g = Advanced(Types(ctx)) /\ event \in NodeEvents
    BY <1>4, <1>12 DEF FrameStep, NodeEvents
  <2> HIDE DEF d, odd
  <2> QED
    BY <1>4, <1>8, <2>2, <2>4, <2>5, HoldsOutcome, Zenon
<1>13. CASE event \in {"SEQUENCE-START", "MAPPING-START"}
  <2>1. PICK type \in {"CTX_MAPPING_KEY", "CTX_SEQUENCE"} :
            type = IF event = "MAPPING-START" THEN "CTX_MAPPING_KEY" ELSE "CTX_SEQUENCE"
    OBVIOUS
  <2>2. PICK ch : ch = IF type = "CTX_MAPPING_KEY" THEN "begin-object" ELSE "begin-array"
    OBVIOUS
  <2>3. d = context_push(Write(emit_separator(c), ch), type)
    BY <1>10, <1>13, <2>1, <2>2 DEF yaml_to_json
  <2>4. pl => ctx = << >> \/ Last(ctx).type # "CTX_MAPPING_KEY"
    BY <1>7, <1>13
  <2> HIDE DEF d, odd
  <2>5. \E c2 \in Seq(Frame), k \in JsonSort :
               /\ Len(c2) <= MAX_DEPTH
               /\ \/ Holds(d, c2, k, "error", pl, n)
                  \/ /\ Holds(d, c2, k, "none", pl, n) /\ Types(c2) = Append(Types(ctx), type)
                     /\ pl /\ Fitting(b.json, ctx) => Fitted(k, c2)
    BY <1>5, <1>9, <2>2, <2>3, <2>4, StartEvent
  <2>6. g = Append(Types(ctx), type) /\ event \in NodeEvents
    BY <1>4, <1>13, <2>1 DEF FrameStep, NodeEvents
  <2> QED
    BY <1>4, <1>8, <2>5, <2>6, HoldsOutcome, Zenon
<1>14. CASE event \in {"SEQUENCE-END", "MAPPING-END"}
  <2>1. PICK type \in {"CTX_MAPPING_KEY", "CTX_SEQUENCE"} :
            type = IF event = "MAPPING-END" THEN "CTX_MAPPING_KEY" ELSE "CTX_SEQUENCE"
    OBVIOUS
  <2>2. PICK ch : ch = IF type = "CTX_MAPPING_KEY" THEN "end-object" ELSE "end-array"
    OBVIOUS
  <2>3. d = advance_context(Write(context_pop(c), ch))
    BY <1>10, <1>14, <2>1, <2>2 DEF yaml_to_json
  <2>4. /\ Types(ctx) # << >> /\ Last(Types(ctx)) = type /\ g = Advanced(Front(Types(ctx)))
        /\ event \in NodeEvents
    BY <1>4, <1>14, <2>1 DEF FrameStep, NodeEvents
  <2>5. ctx # << >> /\ Last(ctx).type = type
    BY <1>6, <2>4, Zenon
  <2>6. PICK c2 \in Seq(Frame), k \in JsonSort :
           /\ Holds(advance_context(Write(context_pop(c), ch)), c2, k, "none", pl, n)
           /\ Len(c2) <= MAX_DEPTH /\ Types(c2) = Advanced(Front(Types(ctx)))
           /\ pl /\ Fitting(b.json, ctx) => Fitted(k, c2)
    BY <1>5, <1>9, <2>2, <2>5, EndEvent, Zenon
  <2> HIDE DEF d, odd
  <2> QED
    BY <1>4, <1>8, <2>3, <2>4, <2>6, HoldsOutcome, Zenon
<1>15. CASE event \notin NodeEvents
  <2>1. PICK r \in Results : r = IF event = "STREAM-END" THEN "json" ELSE "none"
    BY DEF Results
  <2>2. Holds(d, ctx, b.json, r, pl, n)
    <3>1. CASE event = "STREAM-END"
      <4>1. d = [c EXCEPT !.result = "json"] /\ r = "json"
        BY <1>10, <2>1, <3>1 DEF yaml_to_json
      <4> HIDE DEF d, odd
      <4> QED
        BY <1>9, <4>1, HoldsResult
    <3>2. CASE event # "STREAM-END"
      <4>1. d = c /\ r = "none"
        BY <1>10, <1>15, <2>1, <3>2 DEF yaml_to_json, NodeEvents
      <4> HIDE DEF d, odd
      <4> QED
        BY <1>9, <4>1, Zenon
    <3> QED
      BY <3>1, <3>2
  <2>3. g = Types(ctx)
    BY <1>4, <1>15 DEF FrameStep
  <2> HIDE DEF d, odd
  <2>4. /\ d \in BridgeRecord /\ d.ctx = ctx /\ d.json = b.json /\ d.result = r /\ d.plain = pl
        /\ d.idle = n
    BY <2>2, Zenon DEF Holds
  <2> QED
    BY <1>4, <1>5, <1>8, <1>11, <1>15, <2>1, <2>3, <2>4 DEF Outcome
<1> QED
  BY <1>12, <1>13, <1>14, <1>15 DEF NodeEvents


-----------------------------------------------------------------------------
(* The steps of the three together. *)
JsonOf(b, p) ==
  b.plain /\ b.result # "error" =>
    /\ Fits(b.json, b.ctx)
    /\ b.ctx = << >> =>
         b.json.want = IF p.states # << >> \/ b.json = NoJson THEN "value" ELSE "done"
    /\ b.ctx = << >> /\ p.state = "DOCUMENT_END" => b.json.want = "done"

LEMMA JsonInvIs ==
  ASSUME NEW b \in BridgeRecord, NEW p
  PROVE  JsonOf(b, p) <=>
           (b.plain /\ b.result # "error" =>
             /\ b.json.open = [i \in DOMAIN b.ctx |-> Bracket(b.ctx[i])]
             /\ b.ctx # << >> => b.json.want = Wanted(b.ctx)
             /\ b.ctx = << >> =>
                  b.json.want = IF p.states # << >> \/ b.json = NoJson THEN "value" ELSE "done"
             /\ b.ctx = << >> /\ p.state = "DOCUMENT_END" => b.json.want = "done"
             /\ \A i \in DOMAIN b.ctx : i < Len(b.ctx) => b.ctx[i].type # "CTX_MAPPING_KEY")
<1>1. b.ctx \in Seq(Frame)
  BY DEF BridgeRecord
<1> QED
  BY <1>1, FitsJson, Zenon DEF JsonOf

LEMMA JsonStep ==
  ASSUME NEW b \in BridgeRecord, NEW p, NEW q, StackOf(q), q.event \in Events, b.result = "none", NEW c,
         Outcome(b, c, FramesAt(q), q.event), DocStep(p, q), JsonOf(b, p)
  PROVE  JsonOf(c, q)
<1> SUFFICES ASSUME c.plain, c.result # "error"
             PROVE  /\ Fits(c.json, c.ctx)
                    /\ c.ctx = << >> =>
                         c.json.want = IF q.states # << >> \/ c.json = NoJson THEN "value" ELSE "done"
                    /\ c.ctx = << >> /\ q.state = "DOCUMENT_END" => c.json.want = "done"
  BY Zenon DEF JsonOf
<1>1. NoJson.want = "value"
  BY DEF NoJson
<1>2. /\ b.plain /\ Fits(b.json, b.ctx)
      /\ b.ctx = << >> =>
           b.json.want = IF p.states # << >> \/ b.json = NoJson THEN "value" ELSE "done"
      /\ b.ctx = << >> /\ p.state = "DOCUMENT_END" => b.json.want = "done"
  <2>1. b.plain /\ b.result # "error"
    BY DEF Outcome
  <2> QED
    BY <2>1, Zenon DEF JsonOf
<1>3. Types(c.ctx) = FramesAt(q) /\ c.ctx \in Seq(Frame)
  BY DEF Outcome, BridgeRecord
<1>4. /\ q.state \in Outer <=> q.states = << >>
      /\ "DOCUMENT_END" \in Outer /\ "DOCUMENT_START" \in Outer /\ "IMPLICIT_DOCUMENT_START" \in Outer
      /\ "END" \in Outer
  BY DEF StackOf, Outer
<1>5. CASE q.event \in NodeEvents
  <2>1. p.states # << >> /\ (FramesAt(q) = << >> => q.state = "DOCUMENT_END")
    BY <1>5, Zenon DEF DocStep
  <2>2. Fitted(c.json, c.ctx)
    <3>1. Fitting(b.json, b.ctx)
      BY <1>2, <2>1, Zenon DEF Fitting
    <3> QED
      BY <1>5, <3>1 DEF Outcome
  <2>3. c.ctx = << >> => q.states = << >> /\ c.json.want = "done" /\ c.json # NoJson
    <3>1. c.ctx = << >> => FramesAt(q) = << >>
      BY <1>3, EmptyCtx, Zenon
    <3>2. c.ctx = << >> => c.json.want = "done"
      BY <2>2, Zenon DEF Fitted
    <3>3. "done" # "value"
      OBVIOUS
    <3> QED
      BY <1>1, <1>4, <2>1, <3>1, <3>2, <3>3, Zenon
  <2> QED
    BY <2>2, <2>3, Zenon DEF Fitted
<1>6. CASE q.event \notin NodeEvents
  <2>1. /\ c.json = b.json /\ c.ctx = b.ctx
        /\ q.event = "DOCUMENT-START" => b.json = NoJson
    BY <1>6 DEF Outcome
  <2>2. CASE q.event = "NO-EVENT"
    <3>1. /\ p.states = << >> <=> q.states = << >>
          /\ q.states = << >> => q.state = p.state
      BY <2>2, Zenon DEF DocStep
    <3> QED
      BY <1>2, <1>4, <2>1, <3>1, Zenon
  <2>3. CASE q.event = "DOCUMENT-START"
    <3>1. p.states = << >> /\ q.states # << >>
      BY <2>3, Zenon DEF DocStep
    <3> QED
      BY <1>1, <1>2, <1>4, <2>1, <2>3, <3>1, Zenon
  <2>4. CASE q.event = "DOCUMENT-END"
    <3>1. p.state = "DOCUMENT_END" /\ q.state = "DOCUMENT_START"
      BY <2>4, Zenon DEF DocStep
    <3>2. "done" # "value" /\ "DOCUMENT_START" # "DOCUMENT_END"
      OBVIOUS
    <3> QED
      BY <1>1, <1>2, <1>4, <2>1, <3>1, <3>2, Zenon
  <2>5. CASE q.event \in {"STREAM-START", "STREAM-END"}
    <3>1. p.states = << >> /\ q.state \in {"IMPLICIT_DOCUMENT_START", "END"}
      BY <2>5 DEF DocStep
    <3>2. q.states = << >> /\ q.state # "DOCUMENT_END"
      BY <1>4, <3>1
    <3> QED
      BY <1>2, <2>1, <3>1, <3>2, Zenon
  <2> QED
    BY <1>6, <2>2, <2>3, <2>4, <2>5 DEF Events, NodeEvents
<1> QED
  BY <1>5, <1>6


-----------------------------------------------------------------------------
(* The steps of the specification. *)
NoHeadKey(s) == \A i \in DOMAIN s.keys : s.keys[i].possible => s.keys[i].number # 0

LEMMA StaleKeys ==
  ASSUME NEW s \in ScannerRecord
  PROVE  LET t == yaml_parser_stale_simple_keys(s)
         IN  /\ DOMAIN t.keys = DOMAIN s.keys
             /\ \A i \in DOMAIN s.keys : t.keys[i] = NoKey \/ t.keys[i] = s.keys[i]
<1> DEFINE stale == {i \in DOMAIN s.keys : s.keys[i].possible /\ ~ s.keys[i].near}
           k == [i \in DOMAIN s.keys |-> IF i \in stale THEN NoKey ELSE s.keys[i]]
           e == s.error \/ \E i \in stale : s.keys[i].required
<1>1. PICK t : t = yaml_parser_stale_simple_keys(s)
  OBVIOUS
<1>2. t = [s EXCEPT !.error = e, !.keys = k]
  BY <1>1 DEF yaml_parser_stale_simple_keys
<1>3. DOMAIN k = DOMAIN s.keys /\ \A i \in DOMAIN s.keys : k[i] = NoKey \/ k[i] = s.keys[i]
  BY Zenon
<1> HIDE DEF k, e
<1>4. t.keys = k
  BY <1>2 DEF ScannerRecord
<1> QED
  BY <1>1, <1>3, <1>4, Zenon

(* A head that may be handed out stays one, and skipping it is safe. *)
LEMMA StaleHead ==
  ASSUME NEW s, ScanInv(s, Len(s.tokens)), ~ NeedMoreTokens(s), NEW t,
         t = yaml_parser_stale_simple_keys(s), ~ t.error
  PROVE  /\ Ready(t, Balance(s)) /\ t.tokens = s.tokens /\ t.tokens # << >>
         /\ NoHeadKey(t) /\ ~ NeedMoreTokens(t)
<1>1. Ready(s, Balance(s))
  BY DEF Ready
<1>2. Ready(t, Balance(s))
  BY <1>1, StepsReady, Zenon
<1>3. Scans(s, t, Len(s.tokens))
  BY StaleScans, Zenon
<1>4. t.tokens = s.tokens
  BY <1>3, Zenon DEF Scans
<1>5. s.tokens # << >> /\ NoHeadKey(t)
  BY Zenon DEF NeedMoreTokens, NoHeadKey
<1>6. t \in ScannerRecord
  BY <1>2, Zenon DEF Ready, ScanInv
<1>7. NoHeadKey(yaml_parser_stale_simple_keys(t))
  <2>1. PICK u : u = yaml_parser_stale_simple_keys(t)
    OBVIOUS
  <2>2. DOMAIN u.keys = DOMAIN t.keys /\ \A i \in DOMAIN t.keys : u.keys[i] = NoKey \/ u.keys[i] = t.keys[i]
    BY <1>6, <2>1, StaleKeys, Zenon
  <2>3. NoHeadKey(u)
    BY <1>5, <2>2, NoKeySort, Zenon DEF NoHeadKey
  <2> QED
    BY <2>1, <2>3, Zenon
<1>8. ~ NeedMoreTokens(t)
  BY <1>4, <1>5, <1>7, Zenon DEF NeedMoreTokens, NoHeadKey
<1> QED
  BY <1>2, <1>4, <1>5, <1>8, Zenon

(* What the bridge does to its record when text or parser are refused. *)
LEMMA FailIs ==
  ASSUME NEW b \in BridgeRecord
  PROVE  /\ Fail(b) \in BridgeRecord /\ Fail(b).result = "error" /\ Fail(b).ctx = b.ctx
         /\ Fail(b).idle = b.idle
<1>1. "error" \in Results
  BY DEF Results
<1>2. Holds([b EXCEPT !.result = "error"], b.ctx, b.json, "error", b.plain, b.idle)
  BY <1>1, HoldsSelf, HoldsResult, Zenon
<1> QED
  BY <1>2, Zenon DEF Fail, Holds

LEMMA InitInv ==
  Init => IInv
<1> SUFFICES ASSUME Init PROVE IInv
  OBVIOUS
<1>1. file \in Files /\ sc = ScannerInit /\ ps = ParserInit /\ js = BridgeInit
  BY DEF Init
<1>2. sc.tokens = << "STREAM-START" >> /\ sc.indents = << >> /\ sc.indent = -1 /\ sc.flow = 0
      /\ sc.keys = << NoKey >>
  BY <1>1 DEF ScannerInit
<1>3. sc \in ScannerRecord
  <2>1. << "STREAM-START" >> \in Seq(Tokens) /\ << >> \in Seq(-1..MaxCol)
    BY DEF Tokens
  <2>2. << NoKey >> \in Seq(KeyRecord)
    BY NoKeySort
  <2>3. 0 \in 0..MaxCol /\ -1 \in -1..MaxCol
    BY ScannerAssumption
  <2> QED
    BY <1>1, <2>1, <2>2, <2>3 DEF ScannerInit, ScannerRecord
<1>4. ScanInv(sc, Len(sc.tokens))
  <2>1. PICK k : k = << NoKey >>
    OBVIOUS
  <2>2. Len(k) = 1 /\ DOMAIN k = {1} /\ k[1] = NoKey
    BY <2>1
  <2>3. KeysIn(k, Len(sc.tokens))
    BY <2>2, NoKeySort, Zenon DEF KeysIn
  <2>4. Margin(sc)
    BY <1>2 DEF Margin
  <2>5. Len(sc.keys) = sc.flow + 1
    BY <1>2, <2>1, <2>2
  <2> QED
    BY <1>2, <1>3, <2>1, <2>3, <2>4, <2>5, Zenon DEF ScanInv
<1>5. /\ ps.state = "STREAM_START" /\ ps.states = << >> /\ ps.marks = 0 /\ ps.item = FALSE
      /\ ps.props = {}
  BY <1>1 DEF ParserInit
<1>6. ps \in ParserRecord
  <2>1. << >> \in Seq(Returns) /\ "STREAM_START" \in Outer \cup Inner
    BY DEF Outer
  <2>2. {} \in SUBSET {"anchor", "tag", "custom"}
    OBVIOUS
  <2> QED
    BY <1>1, <2>1, <2>2 DEF ParserInit, ParserRecord
<1>7. ps.state \in Outer /\ ps.state \notin FirstStates /\ ps.state # "END" /\ ps.state \in Unframed /\ ps.state \in States
  BY <1>5 DEF Outer, FirstStates, Unframed, States
<1>8. StackOf(ps)
  <2>1. << >> \in Seq(Returns) /\ DOMAIN << >> = {}
    OBVIOUS
  <2>2. Stacked(ps.states)
    BY <1>5, <2>1 DEF Stacked
  <2>3. ps.state \notin {"INDENTLESS_SEQUENCE_ENTRY", "BLOCK_NODE_OR_INDENTLESS_SEQUENCE"}
    BY <1>5
  <2> QED
    BY <1>5, <1>7, <2>2, <2>3, Zenon DEF StackOf
<1>9. /\ js.ctx = << >> /\ js.json = NoJson /\ js.result = "none" /\ js.plain = TRUE /\ js.idle = 0
  BY <1>1 DEF BridgeInit
<1>10. js \in BridgeRecord
  <2>1. << >> \in Seq(Frame) /\ << >> \in Seq({"begin-object", "begin-array"})
    OBVIOUS
  <2>2. NoJson \in [want : Wants, open : Seq({"begin-object", "begin-array"})]
    BY <2>1 DEF NoJson, Wants
  <2> QED
    BY <1>1, <2>1, <2>2 DEF BridgeInit, BridgeRecord
<1>11. StackInv
  BY <1>7, <1>8, <1>9 DEF StackInv, HeadInv
<1>12. IdleInv
  <2>1. MayIdle(ps) = 0
    BY <1>5 DEF MayIdle, Idle, FirstStates
  <2> QED
    BY <1>9, <2>1 DEF IdleInv
<1>13. MatchInv
  <2>1. Count(Run(ps), BlockStates) = 0 /\ Count(Run(ps), AllStates) = 0
    BY <1>5, <1>7, OuterCounts
  <2>2. Balance(sc) = 0
    <3>1. Count(sc.tokens, {"BLOCK-END"}) = 0 /\ Count(sc.tokens, BlockStarts) = 0
      BY <1>2, CountSingle DEF BlockStarts
    <3>2. Len(sc.indents) = 0
      BY <1>2
    <3> QED
      BY <3>1, <3>2 DEF Balance
  <2> QED
    BY <1>5, <2>1, <2>2, Zenon DEF MatchInv, Running, Run, AllStates
<1>14. FramesInv
  <2>1. FramesAt(ps) = << >>
    BY <1>5, <1>7, OuterFrames
  <2>2. Types(js.ctx) = << >>
    BY <1>9, EmptyCtx, Zenon
  <2> QED
    BY <2>1, <2>2, Zenon DEF FramesInv, FramesAt, Types
<1>15. JsonInv
  <2>1. NoJson.open = << >> /\ NoJson.want = "value"
    BY DEF NoJson
  <2>2. Brackets(js.ctx) = << >>
    BY <1>9, EmptyCtx, Zenon
  <2>3. DOMAIN << >> = {}
    OBVIOUS
  <2>4. ps.state # "DOCUMENT_END"
    BY <1>5
  <2> QED
    BY <1>5, <1>9, <2>1, <2>2, <2>3, <2>4, Zenon DEF JsonInv, Brackets
<1>16. Len(js.ctx) <= MAX_DEPTH
  BY <1>9, BridgeAssumption
<1> QED
  BY <1>1, <1>3, <1>4, <1>6, <1>10, <1>11, <1>12, <1>13, <1>14, <1>15, <1>16 DEF IInv, Sorts

(* Text that is refused ends the import. *)
LEMMA FailInv ==
  ASSUME IInv, js.result = "none", js' = Fail(js), UNCHANGED << file, sc, ps >>
  PROVE  IInv'
<1>1. js \in BridgeRecord /\ js' \in BridgeRecord /\ js'.result = "error" /\ js'.ctx = js.ctx /\ js'.idle = js.idle
  BY FailIs, Zenon DEF IInv, Sorts
<1>2. file' = file /\ sc' = sc /\ ps' = ps
  BY Zenon
<1>3. Sorts'
  BY <1>1, <1>2, Zenon DEF IInv, Sorts
<1>4. Len(js'.ctx) <= MAX_DEPTH
  BY <1>1, Zenon DEF IInv
<1>5. ScanInv(sc', Len(sc'.tokens))
  BY <1>2, Zenon DEF IInv
<1>6. "none" # "json" /\ "error" # "json"
  OBVIOUS
<1>7. StackInv'
  <2>1. StackOf(ps) /\ HeadInv /\ (ps.state = "END" <=> js.result = "json")
    BY Zenon DEF IInv, StackInv
  <2>2. StackOf(ps')
    BY <1>2, <2>1, Zenon
  <2>3. HeadInv'
    BY <1>2, <2>1, Zenon DEF HeadInv
  <2> QED
    BY <1>1, <1>2, <1>6, <2>1, <2>2, <2>3, Zenon DEF StackInv
<1>8. IdleInv'
  BY <1>1, <1>2, Zenon DEF IInv, IdleInv
<1>9. MatchInv' /\ FramesInv' /\ JsonInv'
  BY <1>1 DEF MatchInv, FramesInv, JsonInv
<1> QED
  BY <1>3, <1>4, <1>5, <1>7, <1>8, <1>9, Zenon DEF IInv

LEMMA FetchInv ==
  ASSUME IInv, Fetch
  PROVE  IInv'
<1>1. /\ js.result = "none" /\ NeedMoreTokens(sc) /\ file' = file /\ ps' = ps /\ file \in Files
      /\ ScanInv(sc, Len(sc.tokens)) /\ ps \in ParserRecord /\ js \in BridgeRecord
  BY Zenon DEF Fetch, IInv, Sorts
<1>2. PICK lex \in Lexemes(file) :
        IF yaml_parser_fetch_next_token(sc, lex).error THEN js' = Fail(js) /\ sc' = sc
        ELSE sc' = yaml_parser_fetch_next_token(sc, lex) /\ js' = js
  BY Zenon DEF Fetch
<1>3. CASE yaml_parser_fetch_next_token(sc, lex).error
  BY <1>1, <1>2, <1>3, FailInv, Zenon
<1>4. CASE ~ yaml_parser_fetch_next_token(sc, lex).error
  <2>1. sc' = yaml_parser_fetch_next_token(sc, lex) /\ js' = js
    BY <1>2, <1>4, Zenon
  <2>2. lex \in Lexemes(Kinds)
    <3>1. file \subseteq Kinds
      BY <1>1, BridgeAssumption, Zenon
    <3> QED
      BY <3>1 DEF Lexemes
  <2>3. Ready(sc, Balance(sc))
    BY <1>1, Zenon DEF Ready
  <2>4. Ready(sc', Balance(sc))
    BY <2>1, <2>2, <2>3, FetchReady, Zenon
  <2>5. ScanInv(sc', Len(sc'.tokens)) /\ Balance(sc') = Balance(sc) /\ sc' \in ScannerRecord
    BY <2>4, Zenon DEF Ready, ScanInv
  <2>6. StackInv'
    <3>1. StackOf(ps) /\ HeadInv /\ (ps.state = "END" <=> js.result = "json")
      BY Zenon DEF IInv, StackInv
    <3>2. HeadInv'
      BY <1>1, <3>1, Zenon DEF HeadInv
    <3> QED
      BY <1>1, <2>1, <3>1, <3>2, Zenon DEF StackInv
  <2>7. MatchInv'
    BY <1>1, <2>1, <2>5, Zenon DEF IInv, MatchInv, Running
  <2>8. IdleInv' /\ FramesInv' /\ JsonInv'
    BY <1>1, <2>1, Zenon DEF IInv, IdleInv, FramesInv, JsonInv
  <2>9. Sorts' /\ Len(js'.ctx) <= MAX_DEPTH
    BY <1>1, <2>1, <2>5, Zenon DEF IInv, Sorts
  <2> QED
    BY <2>5, <2>6, <2>7, <2>8, <2>9, Zenon DEF IInv
<1> QED
  BY <1>3, <1>4, Zenon

(* The parser's record between two steps. *)
LEMMA Rested ==
  ASSUME NEW q \in Shape, q.marks \in Nat, q.error = FALSE, NEW r,
         r = [q EXCEPT !.skip = FALSE, !.event = "NO-EVENT"]
  PROVE  /\ r \in ParserRecord /\ r.state = q.state /\ r.states = q.states /\ r.marks = q.marks
         /\ r.item = q.item /\ r.props = q.props
<1>1. PICK f : f = FALSE
  OBVIOUS
<1>2. r = [state |-> q.state, states |-> q.states, marks |-> q.marks, item |-> q.item,
           props |-> q.props, version |-> q.version, custom |-> q.custom, skip |-> f,
           event |-> "NO-EVENT", error |-> q.error]
  <2>1. r = [q EXCEPT !.skip = f, !.event = "NO-EVENT"]
    BY <1>1, Zenon
  <2> QED
    BY <2>1 DEF Shape
<1>3. /\ q.state \in States /\ q.states \in Seq(Returns) /\ q.item \in BOOLEAN /\ q.props \in Props
      /\ q.version \in BOOLEAN /\ q.custom \in BOOLEAN
  BY DEF Shape
<1>4. f \in {FALSE} /\ q.error \in {FALSE}
  BY <1>1
<1> QED
  BY <1>2, <1>3, <1>4 DEF ParserRecord, States, Props

LEMMA SameStack ==
  ASSUME NEW q, NEW r, r.state = q.state, r.states = q.states, r.item = q.item, r.props = q.props
  PROVE  /\ StackOf(q) => StackOf(r)
         /\ FramesAt(r) = FramesAt(q) /\ Run(r) = Run(q) /\ MayIdle(r) = MayIdle(q)
         /\ \A b : JsonOf(b, q) => JsonOf(b, r)
BY Zenon DEF StackOf, FramesAt, Run, MayIdle, JsonOf

LEMMA JsonInvNext ==
  ASSUME js' \in BridgeRecord, JsonOf(js', ps')
  PROVE  JsonInv'
<1>1. PICK b : b = js'
  OBVIOUS
<1>2. PICK r : r = ps'
  OBVIOUS
<1>3. b \in BridgeRecord /\ JsonOf(b, r)
  BY <1>1, <1>2, Zenon
<1>4. b.plain /\ b.result # "error" =>
        /\ b.json.open = [i \in DOMAIN b.ctx |-> Bracket(b.ctx[i])]
        /\ b.ctx # << >> => b.json.want = Wanted(b.ctx)
        /\ b.ctx = << >> =>
             b.json.want = IF r.states # << >> \/ b.json = NoJson THEN "value" ELSE "done"
        /\ b.ctx = << >> /\ r.state = "DOCUMENT_END" => b.json.want = "done"
        /\ \A i \in DOMAIN b.ctx : i < Len(b.ctx) => b.ctx[i].type # "CTX_MAPPING_KEY"
  BY <1>3, JsonInvIs, Zenon
<1> QED
  BY <1>1, <1>2, <1>4 DEF JsonInv

LEMMA FramesInvNext ==
  ASSUME js'.result # "error" => Types(js'.ctx) = FramesAt(ps')
  PROVE  FramesInv'
BY Zenon DEF FramesInv, Types, FramesAt

LEMMA MatchInvNext ==
  ASSUME Balance(sc') = Count(Run(ps'), BlockStates), ps'.marks = Count(Run(ps'), AllStates)
  PROVE  MatchInv'
BY Zenon DEF MatchInv, Running, Run, AllStates

(* A step of the parser and the event it hands to the bridge. *)
LEMMA StepInv ==
  ASSUME IInv, js.result = "none", ~ NeedMoreTokens(sc), file' = file,
         NEW s, s = yaml_parser_stale_simple_keys(sc), ~ s.error,
         NEW q, q = yaml_parser_state_machine(ps, Head(s.tokens), Len(s.indents) + s.flow),
         ~ q.error, sc' = IF q.skip THEN SkipToken(s) ELSE s,
         ps' = [q EXCEPT !.skip = FALSE, !.event = "NO-EVENT"],
         NEW c, c = yaml_to_json(js, q.event), NEW n, n = IF q.skip THEN 0 ELSE c.idle + 1,
         js' = [c EXCEPT !.idle = n]
  PROVE  IInv'
<1>1. PICK token : token = Head(s.tokens)
  OBVIOUS
<1>2. PICK depth : depth = Len(s.indents) + s.flow
  OBVIOUS
<1>3. /\ sc \in ScannerRecord /\ ps \in ParserRecord /\ js \in BridgeRecord /\ file \in Files
      /\ Len(js.ctx) <= MAX_DEPTH /\ ScanInv(sc, Len(sc.tokens)) /\ StackOf(ps) /\ HeadInv
      /\ ps.state = "END" <=> js.result = "json"
  BY Zenon DEF IInv, Sorts, StackInv
<1>4. /\ Ready(s, Balance(sc)) /\ s.tokens = sc.tokens /\ s.tokens # << >>
      /\ NoHeadKey(s) /\ ~ NeedMoreTokens(s)
  BY <1>3, StaleHead, Zenon
<1>5. Steps(ps, q, token)
  <2>1. ps.state # "END"
    BY <1>3
  <2>2. ps.state \in FirstStates => token = StartOf(ps.state)
    BY <1>1, <1>3, <1>4, Zenon DEF HeadInv
  <2>3. q = yaml_parser_state_machine(ps, token, depth)
    BY <1>1, <1>2, Zenon
  <2> QED
    BY <1>3, <2>1, <2>2, <2>3, MachineStep, Zenon
<1>6. /\ q \in Shape /\ StackOf(q) /\ HeadStep(q, token) /\ CountStep(ps, q, token)
      /\ IdleStep(ps, q) /\ FrameStep(FramesAt(ps), FramesAt(q), q.event) /\ DocStep(ps, q)
  BY <1>5, Zenon DEF Steps
<1>7. q.error = FALSE /\ q.event \in Events /\ q.skip \in BOOLEAN /\ q.states \in Seq(Returns) /\ q.state \in States
  BY <1>6 DEF Shape
<1>8. /\ Balance(sc) = Count(Run(ps), BlockStates) /\ ps.marks = Count(Run(ps), AllStates)
      /\ Types(js.ctx) = FramesAt(ps) /\ JsonOf(js, ps)
  <2>1. js.result # "error"
    OBVIOUS
  <2>2. MatchInv /\ FramesInv /\ JsonInv
    BY Zenon DEF IInv
  <2>3. JsonOf(js, ps)
    BY <1>3, <2>2, JsonInvIs, Zenon DEF JsonInv
  <2> QED
    BY <2>1, <2>2, <2>3, Zenon DEF MatchInv, FramesInv, Running, Run, AllStates, Types, FramesAt
<1>9. Outcome(js, c, FramesAt(q), q.event)
  BY <1>3, <1>6, <1>7, <1>8, EventStep, Zenon
<1>10. JsonOf(c, q)
  BY <1>3, <1>6, <1>7, <1>8, <1>9, JsonStep, Zenon
<1>11. q.marks = Count(Run(q), AllStates) /\ q.marks \in Nat
  <2>1. Run(q) \in Seq(States)
    BY <1>7, ReturnsStates, AppendProperties DEF Run
  <2>2. Count(Run(q), AllStates) \in Nat
    BY <2>1, CountType
  <2>3. ps.marks \in Nat
    BY <1>3, ParserParts
  <2>4. q.marks = ps.marks + Count(Run(q), AllStates) - Count(Run(ps), AllStates)
    BY <1>6, Zenon DEF CountStep
  <2> QED
    BY <1>8, <2>2, <2>3, <2>4
<1>12. /\ ps' \in ParserRecord /\ ps'.state = q.state /\ ps'.states = q.states
       /\ ps'.marks = q.marks /\ ps'.item = q.item /\ ps'.props = q.props
  <2>1. PICK r : r = ps'
    OBVIOUS
  <2>2. r = [q EXCEPT !.skip = FALSE, !.event = "NO-EVENT"]
    BY <2>1, ZenonT(30)
  <2>3. /\ r \in ParserRecord /\ r.state = q.state /\ r.states = q.states
        /\ r.marks = q.marks /\ r.item = q.item /\ r.props = q.props
    BY <1>6, <1>7, <1>11, <2>2, Rested, ZenonT(30)
  <2> QED
    BY <2>1, <2>3, Zenon
<1>13. /\ StackOf(ps') /\ FramesAt(ps') = FramesAt(q) /\ Run(ps') = Run(q) /\ MayIdle(ps') = MayIdle(q)
       /\ \A b : JsonOf(b, q) => JsonOf(b, ps')
  <2>1. PICK r : r = ps'
    OBVIOUS
  <2>2. r.state = q.state /\ r.states = q.states /\ r.item = q.item /\ r.props = q.props
    BY <1>12, <2>1, Zenon
  <2>3. /\ StackOf(r) /\ FramesAt(r) = FramesAt(q) /\ Run(r) = Run(q) /\ MayIdle(r) = MayIdle(q)
        /\ \A b : JsonOf(b, q) => JsonOf(b, r)
    BY <1>6, <2>2, SameStack
  <2> QED
    BY <2>1, <2>3, Zenon
<1>14. /\ c \in BridgeRecord /\ c.idle = js.idle /\ Len(c.ctx) <= MAX_DEPTH
       /\ c.result # "error" => Types(c.ctx) = FramesAt(q)
       /\ c.result = "json" <=> q.event = "STREAM-END"
  <2>1. c.result \in {"none", "error"} => c.result # "json"
    OBVIOUS
  <2> QED
    BY <1>9, <2>1, Zenon DEF Outcome
<1>15. js.idle \in Nat /\ n \in Nat
  <2>1. js.idle \in Nat
    BY <1>3 DEF BridgeRecord
  <2> QED
    BY <1>14, <2>1
<1>16. /\ js' \in BridgeRecord /\ js'.ctx = c.ctx /\ js'.json = c.json /\ js'.result = c.result
       /\ js'.plain = c.plain /\ js'.idle = n
  <2>1. Holds(js', c.ctx, c.json, c.result, c.plain, n)
    BY <1>14, <1>15, HoldsSelf, HoldsIdle, Zenon
  <2> QED
    BY <2>1, Zenon DEF Holds
<1>17. /\ ScanInv(sc', Len(sc'.tokens)) /\ Balance(sc') = Count(Run(q), BlockStates)
       /\ ~ q.skip => sc' = s
  <2>1. ScanInv(s, Len(s.tokens)) /\ Balance(s) = Balance(sc) /\ Balance(sc) \in Int
    BY <1>3, <1>4, BalanceType, Zenon DEF Ready
  <2>2. CASE q.skip
    <3>1. sc' = SkipToken(s)
      BY <2>2, Zenon
    <3>2. ScanInv(sc', Len(sc'.tokens)) /\ Balance(sc') = Balance(s) - Weight(Head(s.tokens))
      BY <1>4, <2>1, <3>1, SkipScans, Zenon DEF NoHeadKey
    <3>3. Count(Run(q), BlockStates) = Count(Run(ps), BlockStates) - Weight(token)
      BY <1>6, <2>2, Zenon DEF CountStep
    <3> QED
      BY <1>1, <1>8, <2>1, <2>2, <3>2, <3>3, Zenon
  <2>3. CASE ~ q.skip
    <3>1. sc' = s
      BY <2>3, Zenon
    <3>2. Count(Run(q), BlockStates) = Count(Run(ps), BlockStates) - 0
      BY <1>6, <2>3, Zenon DEF CountStep
    <3>3. Count(Run(q), BlockStates) = Balance(sc)
      BY <1>8, <2>1, <3>2
    <3> QED
      BY <2>1, <3>1, <3>3, Zenon
  <2> QED
    BY <2>2, <2>3, Zenon
<1>18. Sorts' /\ Len(js'.ctx) <= MAX_DEPTH
  <2>1. sc' \in ScannerRecord
    BY <1>17, Zenon DEF ScanInv
  <2> QED
    BY <1>3, <1>12, <1>14, <1>16, <2>1, Zenon DEF Sorts
<1>19. StackInv'
  <2>1. HeadInv'
    <3>1. ASSUME ps'.state \in FirstStates
          PROVE  ~ NeedMoreTokens(sc') /\ Head(sc'.tokens) = StartOf(ps'.state)
      <4>1. ~ q.skip /\ token = StartOf(q.state)
        BY <1>6, <1>12, <3>1, Zenon DEF HeadStep
      <4> QED
        BY <1>1, <1>4, <1>12, <1>17, <4>1, Zenon
    <3> QED
      BY <3>1, Zenon DEF HeadInv
  <2>2. ps'.state = "END" <=> js'.result = "json"
    BY <1>6, <1>12, <1>14, <1>16, Zenon DEF DocStep
  <2> QED
    BY <1>13, <2>1, <2>2, Zenon DEF StackInv
<1>20. IdleInv'
  <2>1. js.idle <= MayIdle(ps)
    BY Zenon DEF IInv, IdleInv
  <2>2. MayIdle(ps) \in Nat /\ MayIdle(q) \in Nat
    BY DEF MayIdle, Idle
  <2>3. n <= MayIdle(q)
    <3>1. CASE q.skip
      BY <2>2, <3>1
    <3>2. CASE ~ q.skip
      <4>1. MayIdle(ps) + 1 <= MayIdle(q) /\ n = js.idle + 1
        BY <1>6, <1>14, <3>2, Zenon DEF IdleStep
      <4> QED
        BY <1>15, <2>1, <2>2, <4>1
    <3> QED
      BY <3>1, <3>2
  <2> QED
    BY <1>13, <1>16, <2>3, Zenon DEF IdleInv
<1>21. MatchInv'
  BY <1>11, <1>12, <1>13, <1>17, MatchInvNext, Zenon
<1>22. FramesInv'
  BY <1>13, <1>14, <1>16, FramesInvNext, Zenon
<1>23. JsonInv'
  <2>1. JsonOf(c, q) => JsonOf(js', q)
    BY <1>16, Zenon DEF JsonOf
  <2>2. JsonOf(js', ps')
    BY <1>10, <1>13, <2>1, Zenon
  <2> QED
    BY <1>16, <2>2, JsonInvNext, Zenon
<1> QED
  BY <1>17, <1>18, <1>19, <1>20, <1>21, <1>22, <1>23, Zenon DEF IInv

LEMMA ParseInv ==
  ASSUME IInv, Parse
  PROVE  IInv'
<1>1. PICK s : s = yaml_parser_stale_simple_keys(sc)
  OBVIOUS
<1>2. PICK q : q = yaml_parser_state_machine(ps, Head(s.tokens), Len(s.indents) + s.flow)
  OBVIOUS
<1>3. PICK c : c = yaml_to_json(js, q.event)
  OBVIOUS
<1>4. PICK n : n = IF q.skip THEN 0 ELSE c.idle + 1
  OBVIOUS
<1>5. /\ js.result = "none" /\ ~ NeedMoreTokens(sc) /\ file' = file
      /\ IF s.error \/ q.error THEN js' = Fail(js) /\ sc' = sc /\ ps' = ps
         ELSE /\ sc' = IF q.skip THEN SkipToken(s) ELSE s
              /\ ps' = [q EXCEPT !.skip = FALSE, !.event = "NO-EVENT"]
              /\ js' = [c EXCEPT !.idle = IF q.skip THEN 0 ELSE c.idle + 1]
  BY <1>1, <1>2, <1>3 DEF Parse
<1>6. CASE s.error \/ q.error
  BY <1>5, <1>6, FailInv, Zenon
<1>7. CASE ~ (s.error \/ q.error)
  <2>1. /\ sc' = IF q.skip THEN SkipToken(s) ELSE s
        /\ ps' = [q EXCEPT !.skip = FALSE, !.event = "NO-EVENT"]
        /\ js' = [c EXCEPT !.idle = n]
    BY <1>4, <1>5, <1>7, Zenon
  <2> QED
    BY <1>1, <1>2, <1>3, <1>4, <1>5, <1>7, <2>1, StepInv, Zenon
<1> QED
  BY <1>6, <1>7, Zenon

LEMMA StutterInv ==
  ASSUME IInv, UNCHANGED vars
  PROVE  IInv'
<1>1. file' = file /\ sc' = sc /\ ps' = ps /\ js' = js
  BY DEF vars
<1>2. Sorts' /\ Len(js'.ctx) <= MAX_DEPTH /\ ScanInv(sc', Len(sc'.tokens))
  BY <1>1, Zenon DEF IInv, Sorts
<1>3. StackInv' /\ IdleInv' /\ MatchInv'
  BY <1>1, Zenon DEF IInv, StackInv, HeadInv, IdleInv, MatchInv, Running
<1>4. FramesInv' /\ JsonInv'
  BY <1>1, Zenon DEF IInv, FramesInv, JsonInv
<1> QED
  BY <1>2, <1>3, <1>4, Zenon DEF IInv

(* The scanner, the parser and the bridge keep the whole invariant,        *)
(* whatever lexeme comes next.                                             *)
THEOREM YamlInvariant ==
  Spec => []IInv
<1>1. ASSUME IInv, [Next]_vars PROVE IInv'
  BY <1>1, FetchInv, ParseInv, StutterInv DEF Next
<1> QED
  BY <1>1, InitInv, PTL DEF Spec

-----------------------------------------------------------------------------
LEMMA AtEnd ==
  ASSUME IInv, js.result = "json"
  PROVE  /\ ps.state = "END" /\ ps.states = << >> /\ ps.marks = 0 /\ js.ctx = << >>
         /\ Balance(sc) = 0
<1>1. ps.state = "END" /\ StackOf(ps) /\ js.result # "error" /\ js \in BridgeRecord
  BY DEF IInv, StackInv, Sorts
<1>2. ps.state \in Outer /\ ps.state \in Unframed /\ ps.state \in States
  BY <1>1 DEF Outer, Unframed, States
<1>3. ps.states = << >>
  BY <1>1, <1>2, Zenon DEF StackOf
<1>4. Count(Run(ps), BlockStates) = 0 /\ Count(Run(ps), AllStates) = 0 /\ FramesAt(ps) = << >>
  BY <1>2, <1>3, OuterCounts, OuterFrames
<1>5. /\ Balance(sc) = Count(Run(ps), BlockStates) /\ ps.marks = Count(Run(ps), AllStates)
      /\ Types(js.ctx) = FramesAt(ps)
  <2>1. MatchInv /\ FramesInv
    BY Zenon DEF IInv
  <2> QED
    BY <1>1, <2>1, Zenon DEF MatchInv, FramesInv, Running, Run, AllStates, Types, FramesAt
<1>6. js.ctx \in Seq(Frame)
  BY <1>1 DEF BridgeRecord
<1> QED
  BY <1>1, <1>3, <1>4, <1>5, <1>6, TypesLast, Zenon

(* Every field of the scanner (yaml_parser_t's queue, indentation, simple  *)
(* keys and flow level), of the parser and of the bridge keeps its sort    *)
(* while yaml_to_json runs, there is a simple key for every flow level,    *)
(* and context_push never writes past the MAX_DEPTH frames.                *)
THEOREM YamlTypeCorrect ==
  Spec => []TypeOK
<1>1. ASSUME IInv PROVE TypeOK
  <2>1. sc \in ScannerRecord /\ ps \in ParserRecord /\ js \in BridgeRecord /\ file \in Files
        /\ Len(js.ctx) <= MAX_DEPTH /\ Len(sc.keys) = sc.flow + 1
    BY <1>1 DEF IInv, Sorts, ScanInv
  <2>2. /\ sc.allowed \in BOOLEAN /\ sc.ended \in BOOLEAN /\ sc.flow \in Nat
        /\ sc.indent \in -1..MaxCol
    BY <2>1, ScanParts
  <2>3. ps.marks \in Nat /\ ps.props \subseteq {"anchor", "tag", "custom"}
    BY <2>1 DEF ParserRecord
  <2>4. js.result \in {"none", "json", "error"}
    BY <2>1 DEF BridgeRecord
  <2> QED
    BY <2>1, <2>2, <2>3, <2>4 DEF TypeOK
<1> QED
  BY <1>1, YamlInvariant, PTL

(* QUEUE_INSERT of a KEY found late stays inside the token queue and never *)
(* goes before a token yaml_parser_parse has been given: the number of a   *)
(* possible simple key is a place in the queue, and deeper flow levels lie *)
(* further back.                                                           *)
THEOREM LateKeysStayQueued ==
  Spec => []KeysStillQueued
<1>1. ASSUME IInv PROVE KeysStillQueued
  <2>1. KeysIn(sc.keys, Len(sc.tokens))
    BY <1>1 DEF IInv, ScanInv
  <2> QED
    BY <2>1, Zenon DEF KeysIn, KeysStillQueued
<1> QED
  BY <1>1, YamlInvariant, PTL

(* yaml_parser_roll_indent and yaml_parser_unroll_indent agree with the    *)
(* parser on the block collections that are open, whatever is still        *)
(* queued; the parser's marks are its open collections; POP never takes    *)
(* from an empty stack, and at the end of the stream nothing is open.      *)
THEOREM CollectionsStayMatched ==
  Spec => []CollectionsMatch
<1>1. ASSUME IInv PROVE CollectionsMatch
  <2>1. sc \in ScannerRecord /\ ps \in ParserRecord
    BY <1>1 DEF IInv, Sorts
  <2>2. ps.state # "UNDERFLOW"
    <3>1. ps.state \in States
      BY <2>1, ParserParts, Zenon
    <3> QED
      BY <3>1 DEF States, Outer, Inner, NodeStates, FirstStates, Returns
  <2>3. ASSUME js.result = "none"
        PROVE  /\ Len(sc.indents) = Count(Running, BlockStates) - Count(sc.tokens, {"BLOCK-END"})
                    + Count(sc.tokens, {"BLOCK-SEQUENCE-START", "BLOCK-MAPPING-START"})
               /\ ps.marks = Count(Running, BlockStates \cup FlowStates)
    <3>1. js.result # "error"
      BY <2>3
    <3>2. /\ Balance(sc) = Count(Running, BlockStates)
          /\ ps.marks = Count(Running, BlockStates \cup FlowStates)
      BY <1>1, <3>1, Zenon DEF IInv, MatchInv
    <3>3. Len(sc.indents) \in Nat /\ Count(sc.tokens, {"BLOCK-END"}) \in Nat /\ Count(sc.tokens, BlockStarts) \in Nat
      BY <2>1, ScanParts, CountType
    <3> QED
      BY <3>2, <3>3 DEF Balance, BlockStarts
  <2>4. ps.state = "END" => ps.states = << >> /\ ps.marks = 0
    BY <1>1, AtEnd, Zenon DEF IInv, StackInv
  <2> QED
    BY <2>2, <2>3, <2>4, Zenon DEF CollectionsMatch
<1> QED
  BY <1>1, YamlInvariant, PTL

(* The bridge's context stack has the frames of the parser's states after  *)
(* every event, with each mapping on its key exactly when the parser is,   *)
(* and never more than MAX_DEPTH of them.                                  *)
THEOREM BridgeStaysInStep ==
  Spec => []BridgeInStep
<1>1. ASSUME IInv PROVE BridgeInStep
  <2>1. "none" # "error"
    OBVIOUS
  <2> QED
    BY <1>1, <2>1, Zenon DEF IInv, FramesInv, BridgeInStep
<1> QED
  BY <1>1, YamlInvariant, PTL

(* What yaml_to_json writes is a prefix of JSON at every step, and the     *)
(* result it returns is a whole JSON value (or nothing was in the file),   *)
(* for every document whose keys are scalars.                              *)
THEOREM JsonStaysWellFormed ==
  Spec => []JsonWellFormed
<1>1. ASSUME IInv PROVE JsonWellFormed
  <2> SUFFICES ASSUME js.plain, js.result # "error"
               PROVE  /\ js.json.want # "bad"
                      /\ js.result = "json" => js.json.want = "done" \/ js.json = NoJson
    BY Zenon DEF JsonWellFormed
  <2>1. /\ js.ctx # << >> => js.json.want = Wanted(js.ctx)
        /\ js.ctx = << >> =>
             js.json.want = IF ps.states # << >> \/ js.json = NoJson THEN "value" ELSE "done"
    BY <1>1, Zenon DEF IInv, JsonInv
  <2>2. js \in BridgeRecord /\ js.ctx \in Seq(Frame)
    BY <1>1 DEF IInv, Sorts, BridgeRecord
  <2>3. js.ctx # << >> => Wanted(js.ctx) # "bad"
    <3> SUFFICES ASSUME js.ctx # << >> PROVE Wanted(js.ctx) # "bad"
      OBVIOUS
    <3>1. PICK top : top = js.ctx[Len(js.ctx)]
      OBVIOUS
    <3>2. top \in Frame
      BY <2>2, <3>1, LenProperties, EmptySeq
    <3> QED
      BY <3>1, <3>2 DEF Wanted, Frame
  <2>4. js.json.want # "bad"
    BY <2>1, <2>3
  <2>5. js.result = "json" => js.json.want = "done" \/ js.json = NoJson
    BY <1>1, <2>1, AtEnd, Zenon
  <2> QED
    BY <2>4, <2>5
<1> QED
  BY <1>1, YamlInvariant, PTL

(* yaml_parser_parse takes the token at the head of the queue after at     *)
(* most MaxIdle steps, so no text sends the loop of yaml_to_json round for *)
(* ever: whatever the text, the parser moves on.                           *)
THEOREM ParserNeverLoops ==
  Spec => []NeverLoops
<1>1. ASSUME IInv PROVE NeverLoops
  <2>1. js.idle <= MayIdle(ps) /\ js.idle \in Nat
    BY <1>1 DEF IInv, IdleInv, Sorts, BridgeRecord
  <2>2. MayIdle(ps) \in 0..3
    BY DEF MayIdle, Idle
  <2> QED
    BY <2>1, <2>2 DEF NeverLoops, MaxIdle
<1> QED
  BY <1>1, YamlInvariant, PTL
=============================================================================
