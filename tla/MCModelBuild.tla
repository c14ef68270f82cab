---------------------------- MODULE MCModelBuild ----------------------------
(* Two clients, one of which builds; one level inline, four, three and two  *)
(* levels on the large stacks.  A dimension of a program that a step before *)
(* it ends the build for is left at one value.  A compiler prints nothing   *)
(* or more than a pipe holds, on either pipe.                               *)
EXTENDS ModelBuild

MCOutputs == [out : {0, 2}, err : {0, 2}, status : {0, 1}]

MCStackLimits == <<4, 3, 2>>

Ordinary == [NoProgram EXCEPT !.nesting = 1]

\* Generated quantities of every kind, lowered beside log_prob or after it.
Sections ==
  {[Ordinary EXCEPT !.gq = gq, !.alongside = alongside, !.strict = strict, !.special = special,
                    !.logProb = lp]
     : gq \in {"none", "whole", "partial", "misaligned", "throws"}, alongside \in BOOLEAN,
       strict \in BOOLEAN, special \in {"none", "accepted", "refused"}, lp \in {"ok", "throws"}}

\* Nesting that fits every large stack, the largest, or none; the model keeps
\* the program or not.
Deep == {[Ordinary EXCEPT !.nesting = n, !.gq = gq, !.alongside = TRUE, !.prepare = prepare,
                          !.inits = inits]
           : n \in 2 .. 5, gq \in {"whole", "partial"}, prepare \in BOOLEAN, inits \in BOOLEAN}

MCPrograms == Sections \cup Deep
=============================================================================
