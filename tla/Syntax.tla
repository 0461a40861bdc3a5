------------------------------- MODULE Syntax -------------------------------
(***************************************************************************)
(* Terms as text: writeq (print_term_ex, term.c), the reader (parse_expr,  *)
(* parse.c) and op/3 between them.  Text is a sequence of tokens; of their *)
(* characters it is kept which kind they begin and end with, and whether a *)
(* space stands before a token, for that is what the two sides have to     *)
(* agree on.  Variables, floats, strings and '$VAR' are left out.          *)
(***************************************************************************)
EXTENDS Integers, SequencesExt

CONSTANTS Symbols, Words, Quoted      \* the atoms' names, as they are written

Name(n) == [tag |-> "ATOM", val |-> n]
Num(n) == [tag |-> "INT", int |-> n]
Compound(n, args) == [tag |-> "STR", val |-> n, args |-> args]
IsAtom(t) == t.tag = "ATOM"
IsOf(t, n, arity) == t.tag = "STR" /\ t.val = n /\ Len(t.args) = arity

-----------------------------------------------------------------------------
(* Operators: for each class, names with a priority and a type.            *)

ClassOf(type) ==
  IF type \in {"xfx", "xfy", "yfx"} THEN "infix"
  ELSE IF type \in {"fx", "fy"} THEN "prefix" ELSE "postfix"

Entries(ops, class, n) == {o \in ops : ClassOf(o.type) = class /\ o.name = n}
Has(ops, class, n) == Entries(ops, class, n) # {}
OpOf(ops, class, n) == CHOOSE o \in Entries(ops, class, n) : TRUE
IsOp(ops, n) == \E class \in {"infix", "prefix", "postfix"} : Has(ops, class, n)

\* The highest priority an operand may have, right and left of the operator.
RightMax(o) == IF o.type \in {"xfy", "fy"} THEN o.pri ELSE o.pri - 1
LeftMax(o) == IF o.type \in {"yfx", "yf"} THEN o.pri ELSE o.pri - 1

\* op/3: replaces the operator of that name and class, or with priority 0
\* removes it; an infix and a postfix operator cannot share a name.
op(ops, o) ==
  LET class == ClassOf(o.type)
      rest == ops \ Entries(ops, class, o.name)
      other == CASE class = "infix" -> "postfix" [] class = "postfix" -> "infix"
                 [] class = "prefix" -> "none"
  IN  IF o.name \in {",", "[]", "{}"} \/ (o.pri > 0 /\ Has(ops, other, o.name))
      THEN ops                            \* permission_error
      ELSE IF o.pri = 0 THEN rest ELSE rest \cup {o}

-----------------------------------------------------------------------------
(* Tokens.  prefix: an operator before its operand.                        *)

Token(kind, val, first, last) ==
  [kind |-> kind, val |-> val, first |-> first, last |-> last, prefix |-> FALSE]

Punct(c) == Token("punct", c, c, c)

NameToken(n) ==
  LET class == IF n \in Symbols THEN "symbol" ELSE IF n \in Words THEN "word"
               ELSE IF n \in Quoted THEN "quote" ELSE "solo"
  IN  Token("name", n, class, class)

NumToken(n) ==
  [kind |-> "num", int |-> n, first |-> IF n < 0 THEN "symbol" ELSE "word",
   last |-> IF n = 0 THEN "zero" ELSE "word", prefix |-> FALSE]

\* Two tokens that read as one, or as others, without a space: words, symbols,
\* '' and 0'.
Merge(last, first) ==
  \/ last \in {"word", "zero"} /\ first = "word"
  \/ last = "symbol" /\ first = "symbol"
  \/ last \in {"quote", "zero"} /\ first = "quote"

\* glue: is a space written between these two?
glue(last, this) ==
  \/ last.prefix /\ this = Punct("(")
  \/ Merge(last.last, this.first)

Spaced(tokens) ==
  [i \in 1 .. Len(tokens) |->
     [token |-> tokens[i], space |-> i > 1 /\ glue(tokens[i - 1], tokens[i])]]

-----------------------------------------------------------------------------
(* print_term_ex.  max: the highest priority the term may have without     *)
(* brackets; operand: whether it is one of an operator.                    *)

OpKind(ops, t) ==
  CASE IsAtom(t) -> IF IsOp(ops, t.val) THEN "atom" ELSE "none"
    [] t.tag = "STR" /\ ~IsOf(t, ".", 2) /\ Len(t.args) = 2
         /\ Has(ops, "infix", t.val) -> "infix"
    [] t.tag = "STR" /\ Len(t.args) = 1 /\ t.val # "{}"
         /\ Has(ops, "prefix", t.val) -> "prefix"
    [] t.tag = "STR" /\ Len(t.args) = 1 /\ t.val # "{}"
         /\ Has(ops, "postfix", t.val) /\ ~Has(ops, "prefix", t.val) -> "postfix"
    [] OTHER -> "none"

\* The operator of a term that is written with one.
Operator(ops, t) == OpOf(ops, OpKind(ops, t), t.val)

RECURSIVE StartsWithNumber(_, _)
StartsWithNumber(ops, t) ==
  IF OpKind(ops, t) \in {"infix", "postfix"} THEN StartsWithNumber(ops, t.args[1])
  ELSE t.tag = "INT" /\ t.int >= 0

\* What the operand to the left of an infix or postfix operator o would take in.
\* (infix: of a prefix operand only.)
LeftTakes(ops, o, left) ==
  /\ OpKind(ops, left) \in (IF ClassOf(o.type) = "infix" THEN {"prefix"}
                            ELSE {"prefix", "infix"})
  /\ o.pri <= RightMax(Operator(ops, left))

\* Mutant of ArgBracketed: - and a number need no brackets.
ArgBracketedOps(ops, o, arg) ==
  LET kind == OpKind(ops, arg)
  IN  kind = "atom" \/ (kind # "none" /\ Operator(ops, arg).pri > RightMax(o))

\* Is the operand of a prefix operator put in brackets?
ArgBracketed(ops, o, arg) ==
  LET kind == OpKind(ops, arg)
  IN  \/ /\ o.name = "-"
         /\ \/ StartsWithNumber(ops, arg)
            \/ kind \in {"infix", "postfix"} /\ Operator(ops, arg).pri >= o.pri
      \/ kind = "atom"
      \/ kind # "none" /\ Operator(ops, arg).pri > RightMax(o)

Bracketed(tokens) == <<Punct("(")>> \o tokens \o <<Punct(")")>>

RECURSIVE Written(_, _, _, _), WrittenRest(_, _)

\* What follows the elements of a list, up to its end.
WrittenRest(ops, t) ==
  IF t = Name("[]") THEN <<Punct("]")>>
  ELSE IF IsOf(t, ".", 2)
  THEN <<Punct(",")>> \o Written(ops, t.args[1], 999, FALSE) \o WrittenRest(ops, t.args[2])
  ELSE <<Punct("|")>> \o Written(ops, t, 999, FALSE) \o <<Punct("]")>>

Written(ops, t, max, operand) ==
  LET kind == OpKind(ops, t)
      o == Operator(ops, t)
      Open(tokens) == IF o.pri > max THEN Bracketed(tokens) ELSE tokens
      Operand(arg, high, brackets) ==
        IF brackets THEN Bracketed(Written(ops, arg, 1200, FALSE))
        ELSE Written(ops, arg, high, TRUE)
      opToken == IF t.val = "," THEN Punct(",") ELSE NameToken(t.val)
      left == Operand(t.args[1], LeftMax(o), LeftTakes(ops, o, t.args[1]))
      args == FlattenSeq([i \in 1 .. Len(t.args) |->
                (IF i = 1 THEN <<>> ELSE <<Punct(",")>>)
                \o Written(ops, t.args[i], 999, FALSE)])
  IN  CASE kind = "atom" ->
             IF operand THEN Bracketed(<<NameToken(t.val)>>) ELSE <<NameToken(t.val)>>
        [] IsAtom(t) /\ kind # "atom" -> <<NameToken(t.val)>>
        [] t.tag = "INT" -> <<NumToken(t.int)>>
        [] IsOf(t, ".", 2) ->
             <<Punct("[")>> \o Written(ops, t.args[1], 999, FALSE)
             \o WrittenRest(ops, t.args[2])
        [] IsOf(t, "{}", 1) ->
             <<Punct("{")>> \o Written(ops, t.args[1], 1200, FALSE) \o <<Punct("}")>>
        [] kind = "infix" ->
             Open(left \o <<opToken>> \o Operand(t.args[2], RightMax(o), FALSE))
        [] kind = "prefix" ->
             Open(<<[opToken EXCEPT !.prefix = TRUE]>>
                  \o Operand(t.args[1], RightMax(o), ArgBracketed(ops, o, t.args[1])))
        [] kind = "postfix" -> Open(left \o <<opToken>>)
        [] OTHER -> <<NameToken(t.val)>> \o Bracketed(args)

-----------------------------------------------------------------------------
(* parse_expr.  The frames on the stack are the calls of Parse here: what  *)
(* is left of the text, the term read, and its priority (vpri).            *)

Parsed(v, vpri, rest) == [ok |-> TRUE, v |-> v, vpri |-> vpri, rest |-> rest]
SyntaxError == [Parsed(Name("error"), 0, <<>>) EXCEPT !.ok = FALSE]

At(s, c) == s # <<>> /\ Head(s).token = Punct(c)

\* expect: c, and the term v before it.
Closed(x, c, v) == IF x.ok /\ At(x.rest, c) THEN Parsed(v, 0, Tail(x.rest)) ELSE SyntaxError

\* A '-' name before a number, with or without a space, is its sign.
SignOf(n, s) ==
  n = "-" /\ s # <<>> /\ Head(s).token.kind = "num" /\ Head(s).token.int >= 0

\* A name and an opening bracket; after a quoted name, spaces are skipped first.
IsFunctor(n, s) == At(s, "(") /\ (~Head(s).space \/ n \in Quoted)

\* prefix_applies, which looks at the next character (of a quoted name: the
\* next that is no space).
prefix_applies(n, s) ==
  /\ s # <<>>
  /\ (Head(s).space /\ n \notin Quoted) \/ \A c \in {")", ",", "]", "|"} : ~At(s, c)

ReadAsPrefix(ops, n, s) ==
  Has(ops, "prefix", n) /\ prefix_applies(n, s) /\ ~(n \in Words /\ Has(ops, "infix", n))

\* An operator as an atom cannot be an operand without brackets.
AtomPriority(ops, n) == IF n \in Symbols \cup Words /\ IsOp(ops, n) THEN 1201 ELSE 0

\* Where an operator may stand, the sign of a negative number is one.
OperatorFirst(s) ==
  IF s # <<>> /\ Head(s).token.kind = "num" /\ Head(s).token.int < 0
  THEN <<[token |-> NameToken("-"), space |-> Head(s).space],
         [token |-> NumToken(-Head(s).token.int), space |-> FALSE]>> \o Tail(s)
  ELSE s

\* peek_op, in one class.
PeekOp(ops, s, class) ==
  /\ s # <<>>
  /\ Head(s).token = Punct(",") \/ Head(s).token.kind = "name"
  /\ Has(ops, class, Head(s).token.val)

RECURSIVE Parse(_, _, _), Continued(_, _, _), Items(_, _, _, _)

\* Arguments or elements from here to the closing bracket; v: those before.
Items(ops, s, close, v) ==
  LET x == Parse(ops, s, 999)
      all == Append(v, x.v)
      tail == Parse(ops, Tail(x.rest), 999)
      List(end) == FoldRight(LAMBDA e, acc : Compound(".", <<e, acc>>), all, end)
  IN  IF ~x.ok THEN SyntaxError
      ELSE IF At(x.rest, ",") THEN Items(ops, Tail(x.rest), close, all)
      ELSE IF close = "]" /\ At(x.rest, "|") THEN Closed(tail, "]", List(tail.v))
      ELSE Closed(x, close, IF close = "]" THEN List(Name("[]")) ELSE Compound("", all))

\* A term that begins here, up to an infix or postfix operator.
Primary(ops, s) ==
  LET first == Head(s).token
      n == first.val
      rest == Tail(s)
      inner == Parse(ops, rest, 1200)
      args == Items(ops, Tail(rest), ")", <<>>)
      operand == Parse(ops, rest, RightMax(OpOf(ops, "prefix", n)))
  IN  CASE s = <<>> -> SyntaxError
        [] At(s, "(") -> Closed(inner, ")", inner.v)
        [] At(s, "{") -> Closed(inner, "}", Compound("{}", <<inner.v>>))
        [] At(s, "[") -> Items(ops, rest, "]", <<>>)
        [] s # <<>> /\ first.kind = "num" -> Parsed(Num(first.int), 0, rest)
        [] s # <<>> /\ first.kind = "name" ->
             IF SignOf(n, rest) THEN Parsed(Num(-Head(rest).token.int), 0, Tail(rest))
             ELSE IF IsFunctor(n, rest) THEN [args EXCEPT !.v.val = n]
             ELSE IF ReadAsPrefix(ops, n, rest)
             THEN [operand EXCEPT !.v = Compound(n, <<operand.v>>),
                                  !.vpri = OpOf(ops, "prefix", n).pri]
             ELSE Parsed(Name(n), AtomPriority(ops, n), rest)
        [] OTHER -> SyntaxError

\* Does an operator follow that may stand here, and take x as its left operand?
Takes(ops, s, class, x, max) ==
  /\ PeekOp(ops, s, class)
  /\ OpOf(ops, class, Head(s).token.val).pri <= max
  /\ x.vpri <= LeftMax(OpOf(ops, class, Head(s).token.val))

\* On with the operators that follow the term x, as far as max allows.
Continued(ops, x, max) ==
  LET s == OperatorFirst(x.rest)
      n == Head(s).token.val
      infix == OpOf(ops, "infix", n)
      right == Parse(ops, Tail(s), RightMax(infix))
  IN  IF ~x.ok THEN SyntaxError
      ELSE IF Takes(ops, s, "postfix", x, max)
      THEN Continued(ops, Parsed(Compound(n, <<x.v>>), OpOf(ops, "postfix", n).pri, Tail(s)),
                     max)
      ELSE IF Takes(ops, s, "infix", x, max)
      THEN Continued(ops, [right EXCEPT !.v = Compound(n, <<x.v, right.v>>),
                                        !.vpri = infix.pri], max)
      ELSE x

Parse(ops, s, max) == Continued(ops, Primary(ops, s), max)

\* The term that is the whole text; tokens that merge are others than these.
ReadTerm(ops, s) ==
  LET x == Parse(ops, s, 1200)
      merged == \E i \in 1 .. Len(s) - 1 :
                  ~s[i + 1].space /\ Merge(s[i].token.last, s[i + 1].token.first)
  IN  IF x.ok /\ x.rest = <<>> /\ ~merged THEN x.v ELSE SyntaxError.v
=============================================================================
