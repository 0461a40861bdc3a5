------------------------------ MODULE WriteRead ------------------------------
(***************************************************************************)
(* A program that declares operators (op/3), writes terms (writeq/1,       *)
(* term_to_atom/2) and reads them again.                                   *)
(***************************************************************************)
EXTENDS Syntax, FiniteSets

CONSTANTS Declarations,       \* the operators that op/3 may be asked for
          MaxOps,             \* how many there are at a time
          Terms               \* the terms that are written

VARIABLES ops, text

vars == <<ops, text>>

NoText == [tokens |-> <<>>, of |-> Name("none"), back |-> Name("none")]

Comma == [name |-> ",", pri |-> 1000, type |-> "xfy"]

Init == ops = {Comma} /\ text = NoText

Declare(o) ==
  /\ text = NoText
  /\ ops' = op(ops, o)
  /\ Cardinality(ops') <= MaxOps + 1
  /\ UNCHANGED text

Write(t) ==
  /\ text = NoText
  /\ text' = [tokens |-> Spaced(Written(ops, t, 1200, FALSE)), of |-> t,
              back |-> Name("none")]
  /\ UNCHANGED ops

Read ==
  /\ text.tokens # <<>> /\ text.back = Name("none")
  /\ text' = [text EXCEPT !.back = ReadTerm(ops, text.tokens)]
  /\ UNCHANGED ops

Forget == text.back # Name("none") /\ text' = NoText /\ UNCHANGED ops

Next == (\E o \in Declarations : Declare(o)) \/ (\E t \in Terms : Write(t)) \/ Read \/ Forget

Spec == Init /\ [][Next]_vars

-----------------------------------------------------------------------------

RECURSIVE Subterms(_)
Subterms(t) ==
  {t} \cup (IF t.tag = "STR" THEN UNION {Subterms(t.args[i]) : i \in 1 .. Len(t.args)}
            ELSE {})

\* What is declared is within what op/3 takes, and what is written is a term.
ASSUME TermsAssumption ==
  /\ \A o \in Declarations :
       o \in [name : STRING, pri : 0 .. 1200, type : {"xfx", "xfy", "yfx", "fy", "fx", "xf", "yf"}]
  /\ \A t \in Terms : \A s \in Subterms(t) :
       s = CASE s.tag = "ATOM" -> Name(s.val) [] s.tag = "INT" -> Num(s.int)
             [] s.tag = "STR" -> Compound(s.val, s.args)

\* The terms that are written so that they read as another, or as none: an xfy
\* operator to the left of a yfx one of its priority takes that in,
LeftTakesIn(t) ==
  /\ OpKind(ops, t) = "infix" /\ OpKind(ops, t.args[1]) = "infix"
  /\ Operator(ops, t).pri <= RightMax(Operator(ops, t.args[1]))

\* a prefix operator alone in braces takes the } for its operand,
BracedOperator(t) ==
  IsOf(t, "{}", 1) /\ IsAtom(t.args[1]) /\ Has(ops, "prefix", t.args[1].val)

\* a word that is an infix operator as well is never read as a prefix operator,
WordOfBoth(t) ==
  OpKind(ops, t) = "prefix" /\ t.val \in Words /\ Has(ops, "infix", t.val)

\* and a quoted prefix operator before a ( is read as a functor.
QuotedFunctor(tokens) ==
  \E i \in 1 .. Len(tokens) - 1 :
    tokens[i].token.prefix /\ tokens[i].token.val \in Quoted /\ tokens[i + 1].token = Punct("(")

Exceptional ==
  \/ \E t \in Subterms(text.of) : LeftTakesIn(t) \/ BracedOperator(t) \/ WordOfBoth(t)
  \/ QuotedFunctor(text.tokens)

\* What is written with the operators there are is read back, with these, as the
\* same term: the brackets and spaces the printer leaves out are those the reader
\* does without, whatever the priorities and types.  Among them is an infix operator
\* that is also a prefix operator, before a bracket: TODO:12 says that a:-(b:-c) does
\* not parse, but parse_expr does parse it (the K_RIGHT frame it starts there).
ReadsBack == text.back # Name("none") /\ ~Exceptional => text.back = text.of

\* The program's own word for it: "quoted, so it round-trips" (solve.c, of
\* term_to_atom/2). Every term that is written is read back as the term it was.
RoundTrips == text.back # Name("none") => text.back = text.of
=============================================================================
