--------------------------- MODULE PolicyLanguage ---------------------------
(***************************************************************************)
(* The expression language of policy rules (policy/parser.go, ast.go,      *)
(* value.go, engine.go, builtins.go).  An author writes the tokens of a    *)
(* condition; compiling parses and validates them, a gate evaluates the    *)
(* tree.  The text of a token is the lexer's business and left out.        *)
(*                                                                         *)
(* A node is a tuple that begins with its type:                            *)
(*   <<"leaf", token>>, <<"list", elems>>, <<"call", name, args>>,         *)
(*   <<"unary", op, x>>, <<"binary", op, l, r>>                            *)
(***************************************************************************)
EXTENDS Naturals, Integers, Sequences, FiniteSets

CONSTANTS
  MaxDepth,  \* maxDepth of the parser
  MaxGrown   \* bound: how often a condition is built upon

VARIABLES
  match,  \* the condition the author means
  grown

exprVars == <<match, grown>>

(***************************************************************************)
(* The vocabulary: an identifier and two literals of each kind that        *)
(* matters, one identifier nobody declared and one malformed pattern.      *)
(***************************************************************************)
Variables == {"signed", "tag"}
Idents == Variables \cup {"sined"}
BadPattern == "'('"

Literals == [t \in {"true", "1", "'v1'", BadPattern} |->
  CASE t = "true" -> [kind |-> "bool", v |-> 1]
    [] t = "1" -> [kind |-> "num", v |-> 1]
    [] t = "'v1'" -> [kind |-> "str", v |-> 1]
    [] t = BadPattern -> [kind |-> "str", v |-> 0]]

\* functions: the arity of each builtin, and which argument is a pattern.
Arity == [f \in {"has_rule", "in", "matches"} |-> IF f = "has_rule" THEN 1 ELSE 2]

patternArg(f) == IF f = "matches" THEN 2 ELSE 0

Compares == {"==", "!=", "<", "<=", ">", ">="}
Unaries == {"!", "-"}

(***************************************************************************)
(*                                 Parser                                  *)
(*                                                                         *)
(* A parse function takes the tokens, the position and the depth entered   *)
(* so far, and gives the node with the position behind it.  Depth is an    *)
(* argument because every enter has its deferred leave.                    *)
(***************************************************************************)
NoParse == [pos |-> 0, node |-> <<>>]
failed(r) == r.pos = 0

peek(ts, p) == IF p \in DOMAIN ts THEN ts[p] ELSE "EOF"

joined(op, l, r) ==
  IF failed(l) \/ failed(r) THEN NoParse
  ELSE [pos |-> r.pos, node |-> <<"binary", op, l.node, r.node>>]

RECURSIVE parseOr(_, _, _), orRest(_, _, _), parseAnd(_, _, _), andRest(_, _, _),
          parseAdditive(_, _, _), additiveRest(_, _, _), parseUnary(_, _, _),
          elements(_, _, _, _, _)

\* The elements of a list or call up to the closing token, by parseList and
\* parseIdentOrCall.
elements(ts, p, close, d, got) ==
  LET e == parseOr(ts, p, d) IN
  IF got = <<>> /\ peek(ts, p) = close THEN [pos |-> p + 1, node |-> got]
  ELSE IF failed(e) THEN NoParse
  ELSE CASE peek(ts, e.pos) = "," -> elements(ts, e.pos + 1, close, d, Append(got, e.node))
         [] peek(ts, e.pos) = close -> [pos |-> e.pos + 1, node |-> Append(got, e.node)]
         [] OTHER -> NoParse

parseList(ts, p, d) ==
  LET es == elements(ts, p + 1, "]", d, <<>>)
  IN IF failed(es) THEN NoParse ELSE [es EXCEPT !.node = <<"list", es.node>>]

parseIdentOrCall(ts, p, d) ==
  IF peek(ts, p + 1) # "(" THEN [pos |-> p + 1, node |-> <<"leaf", ts[p]>>]
  ELSE LET args == elements(ts, p + 2, ")", d, <<>>)
       IN IF failed(args) THEN NoParse ELSE [args EXCEPT !.node = <<"call", ts[p], args.node>>]

parenthesised(ts, p, d) ==
  LET inner == parseOr(ts, p + 1, d)
  IN IF failed(inner) \/ peek(ts, inner.pos) # ")" THEN NoParse
     ELSE [inner EXCEPT !.pos = inner.pos + 1]

parsePrimary(ts, p, d) ==
  LET t == peek(ts, p) IN
  CASE d = MaxDepth -> NoParse
    [] d < MaxDepth /\ t \in DOMAIN Literals -> [pos |-> p + 1, node |-> <<"leaf", t>>]
    [] d < MaxDepth /\ t = "[" -> parseList(ts, p, d + 1)
    [] d < MaxDepth /\ t = "(" -> parenthesised(ts, p, d + 1)
    [] d < MaxDepth /\ t \in Idents \cup DOMAIN Arity -> parseIdentOrCall(ts, p, d + 1)
    [] OTHER -> NoParse

parseUnary(ts, p, d) ==
  LET x == parseUnary(ts, p + 1, d + 1) IN
  IF peek(ts, p) \notin Unaries THEN parsePrimary(ts, p, d)
  ELSE IF d = MaxDepth \/ failed(x) THEN NoParse
  ELSE [x EXCEPT !.node = <<"unary", ts[p], x.node>>]

\* Variant: the right operand takes the rest of the chain.
additiveToTheRight(ts, l, d) ==
  IF failed(l) \/ peek(ts, l.pos) \notin {"+", "-"} THEN l
  ELSE joined(peek(ts, l.pos), l, parseAdditive(ts, l.pos + 1, d))

additiveRest(ts, l, d) ==
  IF failed(l) \/ peek(ts, l.pos) \notin {"+", "-"} THEN l
  ELSE additiveRest(ts, joined(peek(ts, l.pos), l, parseUnary(ts, l.pos + 1, d)), d)

parseAdditive(ts, p, d) == additiveRest(ts, parseUnary(ts, p, d), d)

parseComparison(ts, p, d) ==
  LET l == parseAdditive(ts, p, d) IN
  IF failed(l) \/ peek(ts, l.pos) \notin Compares THEN l
  ELSE joined(peek(ts, l.pos), l, parseAdditive(ts, l.pos + 1, d))

andRest(ts, l, d) ==
  IF failed(l) \/ peek(ts, l.pos) # "&&" THEN l
  ELSE andRest(ts, joined("&&", l, parseComparison(ts, l.pos + 1, d)), d)

parseAnd(ts, p, d) == andRest(ts, parseComparison(ts, p, d), d)

orRest(ts, l, d) ==
  IF failed(l) \/ peek(ts, l.pos) # "||" THEN l
  ELSE orRest(ts, joined("||", l, parseAnd(ts, l.pos + 1, d)), d)

parseOr(ts, p, d) ==
  IF d = MaxDepth THEN NoParse ELSE orRest(ts, parseAnd(ts, p, d + 1), d + 1)

\* parseExpr: trailing tokens are an error.
parseExpr(ts) ==
  LET r == parseOr(ts, 1, 0)
  IN IF failed(r) \/ r.pos # Len(ts) + 1 THEN NoParse.node ELSE r.node

(***************************************************************************)
(*                              Compilation                                *)
(***************************************************************************)
children(n) ==
  CASE n[1] = "leaf" -> <<>>
    [] n[1] = "list" -> n[2]
    [] n[1] = "call" -> n[3]
    [] n[1] = "unary" -> <<n[3]>>
    [] n[1] = "binary" -> <<n[3], n[4]>>

\* checkRegexpLiteral: a pattern that is no literal is checked when it is used.
regexpLiteralOK(n) ==
  LET i == patternArg(n[2])
  IN i \in DOMAIN n[3] => n[3][i] # <<"leaf", BadPattern>>

\* The check of one node in validateSemantics.
known(n) ==
  /\ n[1] = "leaf" => n[2] \in Variables \cup DOMAIN Literals
  /\ n[1] = "call" => /\ n[2] \in DOMAIN Arity
                      /\ Len(n[3]) = Arity[n[2]]
                      /\ regexpLiteralOK(n)

RECURSIVE validateSemantics(_)

validateSemantics(n) ==
  known(n) /\ \A i \in DOMAIN children(n) : validateSemantics(children(n)[i])

(***************************************************************************)
(* Evaluation.  A value has a kind; "error" is the kind of Go's error,     *)
(* with its class.  What the findings of an input answer to a builtin is   *)
(* data of the input.                                                      *)
(***************************************************************************)
err(class) == [kind |-> "error", v |-> class]
boolean(b) == [kind |-> "bool", v |-> IF b THEN 1 ELSE 0]
isErr(x) == x.kind = "error"
holds(x) == x.v = 1

RECURSIVE Equal(_, _)

Equal(a, b) ==
  /\ a.kind = b.kind
  /\ IF a.kind = "list"
     THEN Len(a.v) = Len(b.v) /\ \A i \in DOMAIN a.v : Equal(a.v[i], b.v[i])
     ELSE a.v = b.v

Less(a, b) ==
  IF a.kind # b.kind \/ a.kind \notin {"num", "str"} THEN err("type") ELSE boolean(a.v < b.v)

negated(x) == IF x.kind # "bool" THEN err("type") ELSE boolean(~holds(x))

evalOrder(op, l, r) ==
  CASE op = "<" -> Less(l, r)
    [] op = ">" -> Less(r, l)
    [] op = "<=" -> negated(Less(r, l))
    [] op = ">=" -> negated(Less(l, r))

arithmetic(op, l, r) ==
  IF l.kind # "num" \/ r.kind # "num" THEN err("type")
  ELSE [kind |-> "num", v |-> IF op = "+" THEN l.v + r.v ELSE l.v - r.v]

\* The builtins index their arguments, which the compiler has counted.
builtin(f, a, in) ==
  IF Len(a) < Arity[f] THEN err("panic")
  ELSE CASE f = "in" ->
              IF a[2].kind # "list" THEN err("type")
              ELSE boolean(\E i \in DOMAIN a[2].v : Equal(a[2].v[i], a[1]))
         [] f = "has_rule" -> IF a[1].kind # "str" THEN err("type") ELSE boolean(in.found)
         [] f = "matches" ->
              IF a[1].kind # "str" \/ a[2].kind # "str" THEN err("type")
              ELSE IF a[2].v = 0 THEN err("regexp") ELSE boolean(in.found)

RECURSIVE Evaluate(_, _)

values(ns, in) == [i \in DOMAIN ns |-> Evaluate(ns[i], in)]

\* Nodes are evaluated from the left up to the first error.
firstErr(vs) == vs[CHOOSE i \in DOMAIN vs : isErr(vs[i]) /\ \A j \in 1..(i - 1) : ~isErr(vs[j])]
anyErr(vs) == \E i \in DOMAIN vs : isErr(vs[i])

\* evalLogical: the right side is not looked at when the left one decides.
evalLogical(op, l, r, in) ==
  LET a == Evaluate(l, in)
      b == Evaluate(r, in)
  IN IF isErr(a) THEN a
     ELSE IF a.kind # "bool" THEN err("type")
     ELSE IF holds(a) = (op = "||") THEN a
     ELSE IF isErr(b) \/ b.kind = "bool" THEN b ELSE err("type")

evalBinary(op, vs) ==
  CASE op = "==" -> boolean(Equal(vs[1], vs[2]))
    [] op = "!=" -> boolean(~Equal(vs[1], vs[2]))
    [] op \in {"<", "<=", ">", ">="} -> evalOrder(op, vs[1], vs[2])
    [] op \in {"+", "-"} -> arithmetic(op, vs[1], vs[2])

\* What a node makes of the values of its children.
applied(n, vs, in) ==
  CASE n[1] = "list" -> [kind |-> "list", v |-> vs]
    [] n[1] = "call" -> builtin(n[2], vs, in)
    [] n[1] = "binary" -> evalBinary(n[2], vs)
    [] n[1] = "unary" /\ n[2] = "!" -> negated(vs[1])
    [] n[1] = "unary" /\ n[2] = "-" -> arithmetic("-", [kind |-> "num", v |-> 0], vs[1])

Evaluate(n, in) ==
  CASE n[1] = "leaf" ->
         IF n[2] \in DOMAIN Literals THEN Literals[n[2]]
         ELSE IF n[2] \in Variables THEN in[n[2]] ELSE err("unknown")
    [] n[1] = "binary" /\ n[2] \in {"&&", "||"} -> evalLogical(n[2], n[3], n[4], in)
    [] n[1] = "call" /\ n[2] \notin DOMAIN Arity -> err("unknown")
    [] OTHER -> LET vs == values(children(n), in)
                IN IF anyErr(vs) THEN firstErr(vs) ELSE applied(n, vs, in)

-----------------------------------------------------------------------------
(* The author.  A condition is built upon from either side.                 *)
leaf(t) == <<"leaf", t>>

Terms ==
  {leaf(t) : t \in Idents \cup DOMAIN Literals}
  \cup {<<"binary", "-", leaf("signed"), leaf("1")>>,
        <<"unary", "!", leaf("signed")>>, <<"list", <<leaf("'v1'")>> >>}

ExprInit == match \in Terms /\ grown = 0

Grow(trees) == grown < MaxGrown /\ grown' = grown + 1 /\ match' \in trees

Compare ==
  Grow({<<"binary", op, match, t>> : op \in {"==", "<", "-"}, t \in Terms}
       \cup {<<"binary", op, t, match>> : op \in {"==", "<", "-"}, t \in Terms})

Connect ==
  Grow({<<"binary", op, match, t>> : op \in {"||", "&&"}, t \in Terms}
       \cup {<<"binary", op, t, match>> : op \in {"||", "&&"}, t \in Terms})

Prefix == Grow({<<"unary", op, match>> : op \in Unaries})

Apply ==
  Grow({<<"call", f, <<match>> >> : f \in DOMAIN Arity}
       \cup {<<"call", f, <<match, t>> >> : f \in {"in", "matches"}, t \in Terms}
       \cup {<<"call", f, <<t, match>> >> : f \in {"in", "matches"}, t \in Terms})

Enlist == Grow({<<"list", <<match, t>> >> : t \in Terms} \cup {<<"list", <<match>> >>})

\* The condition is complete, and the author goes on with another rule.
NextRule == grown = MaxGrown /\ grown' = 0 /\ match' = leaf("signed")

ExprNext == Compare \/ Connect \/ Prefix \/ Apply \/ Enlist \/ NextRule

(***************************************************************************)
(*                               Properties                                *)
(***************************************************************************)
\* The grammar in parser.go:9-18, as levels of binding.
Level(n) ==
  CASE n[1] = "binary" /\ n[2] = "||" -> 1
    [] n[1] = "binary" /\ n[2] = "&&" -> 2
    [] n[1] = "binary" /\ n[2] \in Compares -> 3
    [] n[1] = "binary" /\ n[2] \in {"+", "-"} -> 4
    [] n[1] = "unary" -> 5
    [] OTHER -> 6

\* The level an operand needs to stand without parentheses: chains lean to the
\* left, and a comparison does not chain.
operandLevel(n, i) == IF n[1] = "unary" THEN 5
                      ELSE IF Level(n) = 3 THEN 4 ELSE Level(n) + i - 1

RECURSIVE Written(_, _), Nesting(_, _), listed(_)

listed(ns) ==
  CASE Len(ns) = 0 -> <<>>
    [] Len(ns) = 1 -> Written(ns[1], 1)
    [] Len(ns) > 1 -> Written(ns[1], 1) \o <<",">> \o listed(Tail(ns))

\* A tree as an author writes it, with no parentheses the grammar does not ask
\* for.
Written(n, level) ==
  IF Level(n) < level THEN <<"(">> \o Written(n, 1) \o <<")">>
  ELSE CASE n[1] = "leaf" -> <<n[2]>>
         [] n[1] = "list" -> <<"[">> \o listed(n[2]) \o <<"]">>
         [] n[1] = "call" -> <<n[2], "(">> \o listed(n[3]) \o <<")">>
         [] n[1] = "unary" -> <<n[2]>> \o Written(n[3], 5)
         [] n[1] = "binary" ->
              Written(n[3], operandLevel(n, 1)) \o <<n[2]>> \o Written(n[4], operandLevel(n, 2))

deepest(S) == CHOOSE m \in S : \A k \in S : k <= m

\* How deep a tree is nested as written: parentheses, brackets and calls count
\* twice, a prefix operator and a primary once, an infix operator not at all.
Nesting(n, level) ==
  LET kids(l) == {Nesting(children(n)[i], l) : i \in DOMAIN children(n)} IN
  IF Level(n) < level THEN 2 + Nesting(n, 1)
  ELSE CASE n[1] = "leaf" -> 1
         [] n[1] \in {"list", "call"} -> 1 + deepest({0} \cup {1 + k : k \in kids(1)})
         [] n[1] = "unary" -> 1 + Nesting(n[3], 5)
         [] n[1] = "binary" ->
              deepest({Nesting(n[3], operandLevel(n, 1)), Nesting(n[4], operandLevel(n, 2))})

Inputs == [signed : {boolean(TRUE), boolean(FALSE)},
           tag : {[kind |-> "str", v |-> 0], [kind |-> "str", v |-> 1]}, found : BOOLEAN]

\* Every variable keeps its type.
ExprTypeOK == grown \in 0..MaxGrown

\* A condition is compiled into the tree its author means by the documented
\* grammar, unless it is nested deeper than maxDepth, and then it is refused;
\* its length alone is no reason.
ParsesAsWritten ==
  parseExpr(Written(match, 1)) = IF 1 + Nesting(match, 1) <= MaxDepth THEN match ELSE <<>>

RECURSIVE computesPattern(_)

computesPattern(n) ==
  \/ n[1] = "call" /\ patternArg(n[2]) \in DOMAIN n[3] /\ n[3][patternArg(n[2])] \notin {leaf(t) : t \in DOMAIN Literals}
  \/ \E i \in DOMAIN children(n) : computesPattern(children(n)[i])

\* engine.go:13-18: "A policy that compiles is guaranteed to be free of these
\* classes of error at evaluation time", whatever the input; so no builtin is
\* called with fewer arguments than it indexes.
CompiledNeverPanics ==
  validateSemantics(match) => \A in \in Inputs :
     LET x == Evaluate(match, in)
     IN isErr(x) => x.v = "type" \/ (x.v = "regexp" /\ computesPattern(match))
=============================================================================
