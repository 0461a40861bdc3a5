---------------------------- MODULE SldReference ----------------------------
(***************************************************************************)
(* The meaning of a program of module Solver, by structural recursion and  *)
(* with no stack, trail or barrier: the answers of a query depth first and *)
(* left to right, and how it ends.  A result is a record of the stores the *)
(* goals succeed with, in order, and why there are no more: "fail", "cut"  *)
(* (a `!' of this clause was reached) or "throw".                          *)
(***************************************************************************)
EXTENDS Solver

Result(sols, end, b) == [sols |-> sols, end |-> end, ball |-> b]
NoBall == Fresh
Once(val) == Result(<<val>>, "fail", NoBall)
None == Result(<<>>, "fail", NoBall)
Thrown(b) == Result(<<>>, "throw", b)

\* A cut inside is local: the goal simply has no more answers.
Opaque(r) == IF r.end = "cut" THEN [r EXCEPT !.end = "fail"] ELSE r

\* r's answers and then, if r ran out of them by failing, those of s.
Then(r, s) ==
  IF r.end # "fail" THEN r ELSE Result(r.sols \o s.sols, s.end, s.ball)

ValueOf(val, a) == IF a \in Vars THEN val[a] ELSE a
Equal(val, a, t) == t = Fresh \/ ValueOf(val, a) \in {Fresh, t}
Set(val, a, t) ==
  IF a \in Vars /\ t # Fresh /\ val[a] = Fresh THEN [val EXCEPT ![a] = t] ELSE val

RECURSIVE Solve(_, _, _, _), Each(_, _, _, _, _), Rules(_, _, _, _, _), Goal(_, _, _, _)

\* The conjunction `body', of a clause whose variable is arg, in store val.
Solve(p, body, arg, val) ==
  IF body = <<>> THEN Once(val)
  ELSE IF Head(body).op = "cut"
       THEN LET r == Solve(p, Tail(body), arg, val)
            IN  IF r.end = "fail" THEN [r EXCEPT !.end = "cut"] ELSE r
       ELSE LET r == Goal(p, Head(body), arg, val)
            IN  Each(p, r, Tail(body), arg, 1)

\* `body' in each of r's answers from the i-th on.
Each(p, r, body, arg, i) ==
  IF i > Len(r.sols) THEN [r EXCEPT !.sols = <<>>]
  ELSE LET now == Solve(p, body, arg, r.sols[i])
       IN  IF now.end # "fail" THEN now ELSE Then(now, Each(p, r, body, arg, i + 1))

\* The clauses of a predicate from the i-th on.
Rules(p, clauses, arg, val, i) ==
  IF i > Len(clauses) THEN None
  ELSE IF ~Equal(val, arg, clauses[i].head) THEN Rules(p, clauses, arg, val, i + 1)
       ELSE LET r == Solve(p, clauses[i].body, arg, Set(val, arg, clauses[i].head))
            IN  IF r.end = "fail" THEN Then(r, Rules(p, clauses, arg, val, i + 1))
                ELSE Opaque(r)

Goal(p, g, arg, val) ==
  LET Arg(a) == IF a = ClauseVar THEN arg ELSE a
      Sub(body) == Solve(p, body, arg, val)
  IN CASE g.op = "pred" ->
            IF p.db[g.name] = <<>> THEN Thrown(ExistenceError)
            ELSE Rules(p, p.db[g.name], Arg(g.arg), val, 1)
       [] g.op = "unify" ->
            IF Equal(val, Arg(g.arg), g.to) THEN Once(Set(val, Arg(g.arg), g.to)) ELSE None
       [] g.op = "fail" -> None
       [] g.op = "throw" -> Thrown(ValueOf(val, Arg(g.ball)))
       [] g.op = "call1" -> Opaque(Sub(g.goal))
       [] g.op = "once" ->
            LET r == Sub(g.goal) IN IF r.sols # <<>> THEN Once(r.sols[1]) ELSE Opaque(r)
       [] g.op = "not" ->
            LET r == Sub(g.goal)
            IN  IF r.sols # <<>> THEN None
                ELSE IF r.end = "throw" THEN r ELSE Once(val)
       [] g.op = "or" ->
            LET r == Sub(g.left) IN IF r.end = "fail" THEN Then(r, Sub(g.right)) ELSE r
       [] g.op = "ifthen" ->
            LET r == Sub(g.cond)
            IN  IF r.sols # <<>> THEN Solve(p, g.then, arg, r.sols[1]) ELSE Opaque(r)
       [] g.op = "ite" ->
            LET r == Sub(g.cond)
            IN  IF r.sols # <<>> THEN Solve(p, g.then, arg, r.sols[1])
                ELSE IF r.end = "throw" THEN r ELSE Sub(g.else)
       [] g.op = "catch" ->
            LET r == Opaque(Sub(g.goal))
            IN  IF r.end = "throw" /\ Equal(val, g.catcher, r.ball)
                THEN LET s == Opaque(Solve(p, g.recovery, arg, Set(val, g.catcher, r.ball)))
                     IN  Result(r.sols \o s.sols, s.end, s.ball)
                ELSE r
       [] g.op = "consult" -> Once(val)

Query(p) == Solve(p, p.query, Fresh, [v \in Vars |-> Fresh])

\* A program with what AnswerStream is to be told of it.
Meaning(p) ==
  LET r == Query(p)
  IN  [all |-> r.sols, end |-> IF r.end = "throw" THEN "throw" ELSE "exhausted", ball |-> r.ball]

(***************************************************************************)
(* Properties that compare the solver with the meaning of its program,     *)
(* which the programs of the instances carry with them.                    *)
(***************************************************************************)
Promise == INSTANCE AnswerStream WITH
  all <- prog.meaning.all, end <- prog.meaning.end, ball <- prog.meaning.ball,
  exhaustible <- prog.oom,
  given <- answers, more <- has_more, result <- status,
  error <- IF status = "error" THEN UncaughtBall ELSE Fresh

\* The solver gives the host the answers of the language, in order, says
\* has_more = false only with the last, and ends as the program does; and it
\* does end.  Collections change none of this, unless one leaves the heap
\* exhausted: then the query may end in that error.
ImplementsAnswerStream == Promise!Spec
=============================================================================
