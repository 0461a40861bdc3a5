------------------------------ MODULE MCSolver ------------------------------
(***************************************************************************)
(* Instances of Solver for TLC: families of programs without recursion,    *)
(* each the product of a few goals in every position, and the properties   *)
(* of the solver.                                                          *)
(***************************************************************************)
EXTENDS SldReference
LOCAL INSTANCE TLC

CONSTANTS X, D, fa, fb, c

\* fa and fb have the same functor, so only unification tells them apart.
MCKeyOf == [t \in Terms |-> IF t \in {fa, fb} THEN "f/1"
                            ELSE IF t = c THEN "c" ELSE "error/2"]

\* Source goals.
Pred(p, a) == [op |-> "pred", name |-> p, arg |-> a]
Eq(a, t) == [op |-> "unify", arg |-> a, to |-> t]
ThrowOf(a) == [op |-> "throw", ball |-> a]
CatchOf(g, t, r) == [op |-> "catch", goal |-> g, catcher |-> t, recovery |-> r]
Or(l, r) == [op |-> "or", left |-> l, right |-> r]
Ite(i, t, e) == [op |-> "ite", cond |-> i, then |-> t, else |-> e]
OnceOf(g) == [op |-> "once", goal |-> g]
Not(g) == [op |-> "not", goal |-> g]
ConsultOf(d) == [op |-> "consult", directive |-> d]

V == ClauseVar
Rule(h, b) == [head |-> h, body |-> b]
Fact(t) == Rule(t, <<>>)
Bodies1(gs) == {<<>>} \cup {<<g>> : g \in gs}
Bodies2(gs) == Bodies1(gs) \cup {<<g, h>> : g, h \in gs}
\* A program carries its meaning, so that TLC works it out once.
Program(q, p, r) ==
  LET source == [query |-> q, db |-> ("p" :> p @@ "q" :> r @@ "none" :> <<>>)]
  IN  [query |-> q, db |-> source.db, gc |-> FALSE, oom |-> FALSE, meaning |-> Meaning(source)]
\* The same program with collections at any point.
Collected(p, exhausts) == [p EXCEPT !.gc = TRUE, !.oom = exhausts]

\* q/1 has three facts; two of them share an index key.
QFacts == <<Fact(fa), Fact(c), Fact(fb)>>

\* Cuts, clause selection and backtracking: two clauses of p/1 in every shape.
CutPrograms ==
  LET gs == {Pred("q", V), CutGoal, FailGoal, Eq(V, fb)}
      queries == {<<Pred("p", X)>>, <<Pred("q", X), Pred("p", X)>>,
                  <<Pred("p", X), CutGoal>>, <<Pred("p", X), Eq(X, fb)>>}
  IN  {Program(q, <<Rule(h, b1), Rule(Fresh, b2)>>, QFacts) :
         q \in queries, h \in {Fresh, fa}, b1 \in Bodies2(gs), b2 \in Bodies1(gs)}

\* Control constructs in a clause with an alternative, cuts in every branch but
\* never inside a condition (see MCSolverFindings for those).
ControlPrograms ==
  LET gs == Bodies1({Pred("q", V), FailGoal, CutGoal, Eq(V, fb)})
      conds == Bodies1({Pred("q", V), FailGoal})
      controls == {Or(l, r) : l, r \in gs} \cup {Ite(i, t, e) : i \in conds, t, e \in gs}
                  \cup {IfThen(i, t) : i \in conds, t \in gs}
                  \cup {OnceOf(g) : g \in gs} \cup {Not(g) : g \in gs} \cup {CallOf(g) : g \in gs}
  IN  {Program(q, <<Rule(Fresh, <<g>>), Fact(fb)>>, QFacts) :
         q \in {<<Pred("p", X)>>, <<Pred("q", X), Pred("p", X), Eq(X, c)>>}, g \in controls}
      \cup {Program(<<Pred("p", X)>>, <<Rule(Fresh, <<Pred("q", V), g, k>>), Fact(fb)>>, QFacts) :
              g \in controls, k \in {CutGoal, Eq(V, c)}}

\* Exceptions: a goal that may throw, succeed more than once or call an unknown
\* procedure, in nested catches, with backtracking into the catch.
CatchPrograms ==
  LET goals == {<<g>> : g \in {Pred("q", X), ThrowOf(fa), ThrowOf(c), FailGoal, Pred("none", X)}}
               \cup {<<Pred("q", X), ThrowOf(fb)>>, <<Or(<<Pred("q", X)>>, <<ThrowOf(c)>>)>>,
                     <<Pred("q", X), CutGoal>>}
      recoveries == {<<>>, <<ThrowOf(c)>>, <<Pred("q", X)>>}
      inner == {CatchOf(g, k, r) : g \in goals, k \in {fa, c, X}, r \in recoveries}
      last == {<<>>, <<ThrowOf(c)>>, <<Eq(X, fb)>>}
  IN  {Program(<<i>> \o l, <<>>, QFacts) : i \in inner, l \in last}
      \cup {Program(<<CatchOf(<<Pred("p", X)>> \o l, k, <<Eq(X, c)>>)>> \o m,
                    <<Rule(Fresh, <<i>>), Fact(c)>>, QFacts) :
              i \in inner, k \in {fa, Fresh}, l \in last, m \in {<<>>, <<Pred("q", X)>>}}

\* Directives of consulted files, with their own choicepoints, catches, errors
\* and files, in the middle of a query that has its own.
DirectivePrograms ==
  LET ds == {<<Pred("q", D)>>, <<Pred("q", D), Eq(D, fb)>>, <<FailGoal>>, <<ThrowOf(fa)>>,
             <<Pred("none", D)>>, <<OnceOf(<<Pred("q", D)>>), Pred("q", D)>>,
             <<CatchOf(<<Pred("q", D), ThrowOf(fa)>>, fa, <<Pred("q", D)>>), FailGoal>>,
             <<CatchOf(<<Pred("q", D)>>, fa, <<>>), ThrowOf(c)>>}
      nested == ds \cup {<<Pred("q", D), ConsultOf(d), Eq(D, c)>> : d \in {<<ThrowOf(fa)>>, <<Pred("q", D)>>}}
  IN  {Program(<<Pred("p", X)>> \o l, <<Rule(Fresh, b1), Rule(Fresh, <<Eq(V, fb)>>)>>, QFacts) :
         l \in {<<>>, <<Eq(X, fb)>>},
         b1 \in {<<Pred("q", V), ConsultOf(d)>> : d \in nested}
                \cup {<<ConsultOf(d), Pred("q", V), CutGoal>> : d \in nested}
                \cup {<<CatchOf(<<Pred("q", V), ConsultOf(d), ThrowOf(c)>>, k, <<Eq(V, c)>>)>> :
                        d \in nested, k \in {c, Fresh}}}

\* For collections: catches in sequence and in choicepoints, so that dead
\* entries lie below live ones, and a catch that only a choicepoint leads to.
\* A goal exits from a catch only where no entry below can die, since what
\* '$$uncatch' does after its entry has moved is a finding (MCSolverFindings).
GcPrograms ==
  LET ends == {FailGoal, ThrowOf(fa), ThrowOf(c)}
      goals == {<<e>> : e \in ends} \cup {<<Pred("q", X), e>> : e \in ends}
      inner == {CatchOf(g, k, r) : g \in goals, k \in {fa, c}, r \in {<<>>, <<Pred("q", X)>>}}
      second == {CatchOf(<<Pred("q", X), Eq(X, fb), i, FailGoal>>, fa, <<>>) : i \in inner}
  IN  {Program(<<i, s>>, <<>>, QFacts) : i \in inner, s \in second}
      \cup {Program(<<Pred("q", X), i, Eq(X, c)>>, <<>>, QFacts) : i \in inner}
      \cup {Program(<<CatchOf(<<Or(<<Pred("q", X)>>, <<ThrowOf(c)>>)>>, c, <<>>), i>>, <<>>, QFacts) :
              i \in inner}

\* The source goals of a body, with their subgoals.
RECURSIVE GoalsOf(_)
GoalsOf(body) ==
  UNION {LET g == body[i]
         IN  {g} \cup CASE g.op = "call1" -> GoalsOf(g.goal)
                        [] g.op \in {"once", "not"} -> {CallOf(g.goal)} \cup GoalsOf(g.goal)
                        [] g.op = "catch" -> GoalsOf(g.goal) \cup GoalsOf(g.recovery)
                        [] g.op = "or" -> GoalsOf(g.left) \cup GoalsOf(g.right)
                        [] g.op = "ifthen" -> GoalsOf(g.cond) \cup GoalsOf(g.then)
                        [] g.op = "ite" -> {IfThen(g.cond, g.then)} \cup GoalsOf(g.cond)
                                           \cup GoalsOf(g.then) \cup GoalsOf(g.else)
                        [] g.op = "consult" -> GoalsOf(g.directive)
                        [] OTHER -> {} : i \in DOMAIN body}

GoalsIn(programs) ==
  {CutGoal, FailGoal}
  \cup UNION {GoalsOf(p.query) \cup UNION {GoalsOf(p.db["p"][j].body) : j \in DOMAIN p.db["p"]} :
                p \in programs}

MCPreds == {"p", "q", "none"}
SldPrograms == CutPrograms \cup ControlPrograms \cup CatchPrograms \cup DirectivePrograms
               \cup {Collected(p, exhausts) : p \in GcPrograms, exhausts \in BOOLEAN}
SldGoals == GoalsIn(SldPrograms)

\* The goals that may cut the clause they are in.
RECURSIVE MayCut(_)
MayCut(g) ==
  LET Cuts(body) == \E i \in DOMAIN body : MayCut(body[i])
  IN  \/ g.op = "cut"
      \/ g.op = "or" /\ (Cuts(g.left) \/ Cuts(g.right))
      \/ g.op \in {"ifthen", "ite"} /\ Cuts(g.then)
      \/ g.op = "ite" /\ Cuts(g.else)

\* None of these programs cuts through a condition or a directive.
ASSUME CutsAreLocal(SldGoals, {g \in SldGoals : MayCut(g)})

\* TLC keeps the value of a definition but not of what a .cfg substitutes.
MCPrograms == SldPrograms
MCGoals == SldGoals
=============================================================================
