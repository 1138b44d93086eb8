------------------------------- MODULE SqlSpan -------------------------------
(***************************************************************************)
(* The attributes of the spans of SQL statements: tokenizeSQL and parseSQL *)
(* of colibri-otel, over queries given as lexemes; what opens and closes a *)
(* comment or a literal is a lexeme of its own.  The queries are those of  *)
(* a small grammar that says what they act on.                             *)
(***************************************************************************)
EXTENDS Naturals, Sequences
LOCAL INSTANCE SequencesExt

CONSTANT NoSpan     \* no span was started yet

VARIABLES
    statement,  \* the statement, as the grammar has it
    span        \* the attributes of its span

spanVars == <<statement, span>>

-----------------------------------------------------------------------------
(* The tokenizer. *)

Word(text) == [kind |-> "word", text |-> text]
Quoted(text) == [kind |-> "quoted", text |-> text]
Mark(text) == [kind |-> "mark", text |-> text]
Delimiter(text) == [kind |-> "delimiter", text |-> text]
\* A number or a placeholder.
Dropped == [kind |-> "dropped", text |-> "1"]

\* What ends what each of the others begins; a line comment ends with its line, and a
\* dollar-quoted literal with its own tag.
Closer == [l \in {"'", "--", "/*", "$$", "$a$"} |->
             CASE l = "--" -> "newline" [] l = "/*" -> "*/" [] OTHER -> l]

\* Outside the comments and the literals: one begins, or the lexeme is a token with the
\* depth of the parentheses around it.
Scan(lexer, lexeme) ==
    LET depth == IF lexeme = Mark(")") /\ lexer.depth > 0 THEN lexer.depth - 1 ELSE lexer.depth
        begins == lexeme.kind = "delimiter" /\ lexeme.text \in DOMAIN Closer
    IN IF lexeme.kind \in {"dropped", "delimiter"}
       THEN [lexer EXCEPT !.inside = IF begins THEN lexeme.text ELSE "code"]
       ELSE [inside |-> "code",
             depth |-> IF lexeme = Mark("(") THEN depth + 1 ELSE depth,
             tokens |-> Append(lexer.tokens,
                          [text |-> lexeme.text, kind |-> lexeme.kind, depth |-> depth])]

\* tokenizeSQL: what is inside a comment or a literal is dropped up to its end, whatever it
\* would begin outside.  A quote right after the one that ends a literal is an escaped one.
TokenStep(lexer, lexeme) ==
    IF lexer.inside \in DOMAIN Closer
    THEN IF lexeme # Delimiter(Closer[lexer.inside]) THEN lexer
         ELSE [lexer EXCEPT !.inside = IF @ = "'" THEN "quote" ELSE "code"]
    ELSE IF lexer.inside = "quote" /\ lexeme = Delimiter("'") THEN [lexer EXCEPT !.inside = "'"]
    ELSE Scan(lexer, lexeme)

Tokens(query) == FoldLeft(TokenStep, [inside |-> "code", depth |-> 0, tokens |-> <<>>], query).tokens

-----------------------------------------------------------------------------
(* The parser. *)

Ident(token) == token.kind \in {"word", "quoted"}
IsWord(token, words) == token.kind = "word" /\ token.text \in words
From(tokens, i) == SubSeq(tokens, i, Len(tokens))

\* The parts of a qualified name at the head of the tokens: name.name.name
Parts(tokens) ==
    LET dotted(n) == \A i \in 1..n : 2 * i < Len(tokens) /\ tokens[2 * i].text = "."
                                     /\ Ident(tokens[2 * i + 1])
        last == CHOOSE n \in 0..Len(tokens) : dotted(n) /\ ~dotted(n + 1)
    IN [i \in 1..(last + 1) |-> tokens[2 * i - 1].text]

\* tableAt.
TableAt(tokens, depth) ==
    LET rest == IF tokens # <<>> /\ IsWord(Head(tokens), {"ONLY"}) THEN Tail(tokens) ELSE tokens
    IN IF rest = <<>> \/ ~Ident(Head(rest)) \/ Head(rest).depth # depth THEN <<>>
       ELSE Parts(rest)

\* Defect: a keyword counts at any depth.
TableAfterAnyDepth(tokens, depth, keyword) ==
    LET i == SelectInSeq(tokens, LAMBDA t : IsWord(t, {keyword}))
    IN IF i = 0 THEN <<>> ELSE TableAt(From(tokens, i + 1), depth)

\* tableAfter.
TableAfter(tokens, depth, keyword) ==
    LET i == SelectInSeq(tokens, LAMBDA t : IsWord(t, {keyword}) /\ t.depth = depth)
    IN IF i = 0 THEN <<>> ELSE TableAt(From(tokens, i + 1), depth)

sqlMainStatements == {"SELECT", "INSERT", "UPDATE", "DELETE", "MERGE"}

\* The statement that a WITH leads into: the next main keyword at its level.
MainStart(tokens, start) ==
    LET after == From(tokens, start + 1)
        i == SelectInSeq(after, LAMBDA t : IsWord(t, sqlMainStatements)
                                           /\ t.depth = tokens[start].depth)
    IN IF IsWord(tokens[start], {"WITH"}) /\ i # 0 THEN start + i ELSE start

\* parseSQL.
Parse(tokens) ==
    LET first == SelectInSeq(tokens, LAMBDA t : t.kind = "word")
        start == MainStart(tokens, first)
        operation == tokens[start].text
        depth == tokens[first].depth
        rest == From(tokens, start + 1)
    IN IF first = 0 THEN [operation |-> "", collection |-> <<>>]
       ELSE [operation |-> operation,
             collection |->
               CASE operation \in {"SELECT", "DELETE"} -> TableAfter(rest, depth, "FROM")
                 [] operation \in {"INSERT", "MERGE"} -> TableAfter(rest, depth, "INTO")
                 [] operation \in {"UPDATE", "CALL"} -> TableAt(rest, depth)
                 [] operation = "TRUNCATE" ->
                      TableAt(IF rest # <<>> /\ Head(rest).text = "TABLE" THEN Tail(rest) ELSE rest, depth)
                 [] OTHER -> <<>>]

-----------------------------------------------------------------------------
(* The grammar. *)

Kw(text) == <<Word(text)>>
Paren(lexemes) == <<Mark("(")>> \o lexemes \o <<Mark(")")>>

Targets == {<<Word("t")>>, <<Quoted("from")>>, <<Word("s"), Mark("."), Quoted("t")>>}
Other == <<Word("o")>>
Subquery == Paren(Kw("SELECT") \o Kw("x") \o Kw("FROM") \o Other)

Inside(open, lexemes, close) == <<Delimiter(open)>> \o lexemes \o <<Delimiter(close)>>
Quote == <<Delimiter("'")>>

\* A line and a block, with quotes and parentheses that are none.
Comments ==
    Inside("--", Kw("SELECT") \o Quote \o <<Mark("(")>>, "newline")
      \o Inside("/*", Kw("WITH") \o Quote \o <<Mark(")"), Delimiter("--")>>, "*/")

\* Literals that hold an escaped quote, or quotes and the beginning of a comment.
Literals == {Inside("'", Kw("FROM") \o Quote \o Quote \o <<Mark("("), Delimiter("--")>>, "'"),
             Inside("$a$", Kw("FROM") \o Quote \o <<Delimiter("$$"), Delimiter("/*")>>, "$a$")}

\* Expressions, some with keywords of their own inside their parentheses or their literals.
Expressions == {Kw("c"), <<Dropped>>, Subquery, Kw("EXTRACT") \o Paren(Kw("YEAR") \o Kw("FROM") \o Kw("c"))}
               \cup Literals

Mains == [verb : sqlMainStatements \cup {"CALL", "TRUNCATE", "CREATE"}, only : BOOLEAN,
          target : Targets \cup {Subquery}, expression : Expressions]

Main(s) ==
    LET table == (IF s.only THEN Kw("ONLY") ELSE <<>>) \o s.target
    IN CASE s.verb = "SELECT" -> Kw("SELECT") \o s.expression \o Kw("FROM") \o table
         [] s.verb = "DELETE" -> Kw("DELETE") \o Kw("FROM") \o table \o Kw("WHERE") \o s.expression
         [] s.verb = "UPDATE" -> Kw("UPDATE") \o table \o Kw("SET") \o s.expression \o Kw("FROM") \o Other
         [] s.verb = "INSERT" -> Kw("INSERT") \o Kw("INTO") \o table \o Kw("SELECT") \o s.expression
         [] s.verb = "MERGE" -> Kw("MERGE") \o Kw("INTO") \o table \o Kw("USING") \o Other
         [] s.verb = "CALL" -> Kw("CALL") \o table \o Paren(s.expression)
         [] s.verb = "TRUNCATE" -> Kw("TRUNCATE") \o Kw("TABLE") \o table
         [] OTHER -> Kw("CREATE") \o Kw("TABLE") \o table

\* Nothing, one common table expression, or two; the second may write.
Withs == {<<>>, <<"SELECT">>, <<"SELECT", "DELETE">>}

WithPrefix(verbs) ==
    LET body(verb) == Main([verb |-> verb, only |-> FALSE, target |-> Other, expression |-> Kw("x")])
        cte(verb) == Kw("q") \o Kw("AS") \o Paren(body(verb))
    IN CASE verbs = <<>> -> <<>>
         [] Len(verbs) = 1 -> Kw("WITH") \o cte(verbs[1])
         [] OTHER -> Kw("WITH") \o Kw("RECURSIVE") \o cte(verbs[1]) \o <<Mark(",")>> \o cte(verbs[2])

\* A statement the parser is asked about: only a main statement follows WITH, only SELECT
\* reads a subquery, and only it stands in parentheses as a whole.
Sensible(s) ==
    /\ s.with # <<>> => s.main.verb \in sqlMainStatements
    /\ s.main.target = Subquery => s.main.verb = "SELECT" /\ ~s.main.only
    /\ s.wrapped => s.main.verb = "SELECT"

\* The spans without SQL have the method of the driver for a name.
Methods == {"commit", "begin_transaction"}

Statements == {s \in [with : Withs, main : Mains, wrapped : BOOLEAN] : Sensible(s)}

Query(s) ==
    LET text == Comments \o WithPrefix(s.with) \o Main(s.main)
    IN IF s.wrapped THEN Paren(text) ELSE text

\* sqlSpanAttributes.
Attributes(query, method) ==
    LET parsed == Parse(Tokens(query))
    IN IF parsed.operation # "" THEN parsed
       ELSE [operation |-> IF method = "begin_transaction" THEN "begin" ELSE method,
             collection |-> <<>>]

-----------------------------------------------------------------------------

SpanInit == statement \in Statements /\ span = NoSpan

\* sqlSpanProcessor.OnStart.
OnStart(query, method) ==
    /\ span = NoSpan /\ span' = Attributes(query, method)
    /\ UNCHANGED statement

SpanNext ==
    \/ OnStart(Query(statement), "query")
    \/ \E method \in Methods, query \in {<<>>, Comments} : OnStart(query, method)

SpanSpec == SpanInit /\ [][SpanNext]_spanVars

-----------------------------------------------------------------------------
(* Properties. *)

SpanTypeOK ==
    statement \in Statements /\ (span # NoSpan => span.collection \in Seq(STRING))

\* What the grammar says of a statement.
ActsOn(main) ==
    IF main.target = Subquery \/ main.verb = "CREATE" THEN <<>>
    ELSE [i \in 1..((Len(main.target) + 1) \div 2) |-> main.target[2 * i - 1].text]

\* The span names the operation and the table of the main statement, and never those of
\* a common table expression, of a subquery, of a comment or of a literal
\* (sql_attributes.go:88-163).
SpanNamesMain ==
    span # NoSpan /\ span.operation \notin {"commit", "begin"} =>
        span.operation = statement.main.verb /\ span.collection = ActsOn(statement.main)

=============================================================================
