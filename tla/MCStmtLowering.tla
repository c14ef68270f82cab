-------------------------- MODULE MCStmtLowering ---------------------------
(***************************************************************************)
(* Small instances of StmtLowering.  A program declares k, prepares it,    *)
(* runs one compound statement from a large family, and reads k again.     *)
(***************************************************************************)
EXTENDS StmtLowering

MCIntMin == -9

P == Var("p")
K == Var("k")

\* What a body may do, in any loop and in a loop over i.
Simple == {Assign("k", Inc("k")), Assign("k", Lit(2)), Assign("k", P), Target(K)}
Jump == {Break, Continue}
Conds == {P, Less("k", 2)}

Steps1(atoms, conds) ==
    atoms \cup {If(c, <<a>>, << >>) : c \in conds, a \in atoms}
          \cup {If(c, <<a>>, <<b>>) : c \in conds, a \in atoms, b \in {Assign("k", Lit(3)), Target(Lit(1))}}

Bodies(atoms, conds, last) ==
    {<<x>> : x \in Steps1(atoms, conds)} \cup
    {<<x, y>> : x \in Steps1(atoms, conds), y \in last}

\* Three steps, the middle one a jump or a write some path skips.
Threes(first, jumps) ==
    {<<x, If(c, <<a>>, << >>), y>> : x \in first, c \in Conds, a \in jumps \cup {Assign("k", Inc("k"))},
                                    y \in {Target(K), Assign("k", Inc("k")), Assign("k", Lit(2)),
                                           If(Less("k", 2), <<Target(Lit(1))>>, << >>)}}

\* A block-local integer, written under a branch and read after it.
LocalBodies ==
    {<<d, x, y>> : d \in {Decl("j"), DeclInit("j", Lit(1)), DeclInit("j", K)},
                   x \in {If(c, <<a>>, << >>) : c \in Conds \cup {Less("j", 2)},
                                                a \in {Assign("j", Inc("j")), Assign("j", Lit(4)), Continue}},
                   y \in {Target(Var("j")), Assign("k", Inc("k")), Assign("k", Var("j")),
                          If(Less("j", 3), <<Target(K)>>, <<Assign("k", Inc("k"))>>)}}

Final == Simple \cup Jump \cup {If(P, <<Break>>, << >>), If(P, <<Assign("k", Inc("k"))>>, << >>),
                               If(Less("k", 2), <<Target(K)>>, <<Break>>)}

ForBodies == Bodies(Simple \cup Jump \cup {Assign("k", Var("i"))}, Conds \cup {Less("i", 2)}, Final)
             \cup Threes(Simple \cup {Assign("k", Var("i"))}, Jump) \cup LocalBodies
IfBodies == Bodies(Simple, Conds, Simple \cup {If(P, <<Assign("k", Inc("k"))>>, << >>)})
            \cup Threes(Simple, {})
WhileBodies == {<<Assign("k", Inc("k"))>> \o b : b \in Bodies(Simple \cup Jump, Conds, {Target(K), If(P, <<Break>>, << >>)})
                                                        \cup LocalBodies \cup Threes(Simple, Jump)}

\* A loop inside a loop or a branch.
Inners ==
    {For("m", h, b) : h \in {Lit(2), K},
                      b \in {<<Assign("k", Inc("k")), If(P, <<j>>, << >>)>> : j \in Jump}
                            \cup {<<If(P, <<j>>, << >>), Target(K)>> : j \in Jump}
                            \cup {<<Target(Var("m"))>>, <<If(Less("m", 2), <<Continue>>, << >>), Assign("k", Var("m"))>>}}
    \cup {While(c, <<Assign("k", Inc("k")), x>>) : c \in {Less("k", 3), Less("k", 1)},
                                                   x \in {Target(K), If(P, <<Break>>, << >>), Continue}}
NestedBodies ==
    {<<x, n>> : x \in {Assign("k", Inc("k")), If(P, <<Assign("k", Lit(2))>>, << >>), DeclInit("j", K)}, n \in Inners}
    \cup {<<n, x>> : x \in {If(P, <<Break>>, << >>), Target(K), Assign("k", Lit(0))}, n \in Inners}

Compounds ==
    {For("i", h, b) : h \in {Lit(1), Lit(2), K}, b \in ForBodies \cup NestedBodies}
    \cup {If(P, b, << >>) : b \in IfBodies \cup NestedBodies}
    \cup {If(P, b, <<Assign("k", Inc("k"))>>) : b \in IfBodies}
    \cup {While(c, b) : c \in {P, Less("k", 2)}, b \in WhileBodies}
    \cup {While(Less("k", 3), <<Assign("k", Inc("k"))>> \o b) : b \in NestedBodies}

Preludes == {<<>>, <<If(P, <<Assign("k", Lit(1))>>, << >>)>>, <<Assign("k", Inc("k"))>>,
             <<Assign("k", P), Assign("k", Lit(1))>>}
Epilogues == {<<If(Less("k", 2), <<Target(Lit(1))>>, << >>), Target(K)>>,
              <<While(Less("k", 4), <<Assign("k", Inc("k"))>>), For("i", K, <<Target(Lit(1)), If(P, <<Target(K)>>, << >>)>>)>>}

MCPrograms == {<<DeclInit("k", Lit(0))>> \o pre \o <<s>> \o post : pre \in Preludes, s \in Compounds, post \in Epilogues}

\* A flag reset by a literal on every trip and set by a runtime branch.
MCFlagPrograms ==
    {<<DeclInit("k", Lit(0)),
       For("i", Lit(2), <<Assign("k", Lit(0)), If(P, <<Assign("k", Lit(1))>>, << >>),
                          If(Less("k", 1), <<Target(Lit(1))>>, << >>)>>)>>}
=============================================================================
