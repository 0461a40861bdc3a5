----------------------------- MODULE MCWriteRead -----------------------------
(***************************************************************************)
(* A symbol that may be a sign, a word and a name in quotes as operators   *)
(* of all types, and terms in which two of them meet on either side.       *)
(***************************************************************************)
EXTENDS WriteRead

CONSTANTS Names, Priorities

MCDeclarations ==
  [name : Names, pri : Priorities,
   type : {"xfx", "xfy", "yfx", "fx", "fy", "xf", "yf"}]

Operands == {Name("a"), Num(1)} \cup {Name(n) : n \in Names}

\* The terms of names with an argument of S, and with one of S and one of T.
Of1(S) == {Compound(n, <<s>>) : n \in Names, s \in S}
Of2(S, T) == {Compound(n, <<s, t>>) : n \in Names, s \in S, t \in T}

Small == Of1(Operands) \cup Of2({Name("a")}, {Name("a")})

Wrapped(t) ==
  {Compound("{}", <<t>>), Compound(".", <<t, Name("[]")>>),
   Compound(".", <<Num(-1), t>>), Compound("a", <<t, Num(0)>>),
   Compound(",", <<t, Name("a")>>)}

MCTerms ==
  Operands \cup Of2(Operands, Operands)
  \cup Small \cup Of1(Small) \cup Of2({Name("a")}, Small) \cup Of2(Small, {Num(-1)})
  \cup UNION {Wrapped(t) : t \in Operands \cup Small}
  \cup Of1(UNION {Wrapped(t) : t \in {Name("a")}})
=============================================================================
