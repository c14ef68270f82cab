--------------------------- MODULE MCGraphPasses ---------------------------
(***************************************************************************)
(* Small instances of GraphPasses.  Each program fixes the opcodes and the *)
(* slots each may read; the operands, cells, roots and the kind of section *)
(* are chosen by TLC.  Slot 1 is the parameter, 2 the scalar constant, 3   *)
(* (and 4) the constant containers; ops write the following slots.         *)
(***************************************************************************)
EXTENDS GraphPasses

AnySlot == 1 .. 9

MCPrograms ==
    { \* chains of element stores, read back and copied
      [ops |-> << <<"SET_INDEX", AnySlot>>, <<"SET_INDEX", AnySlot>>, <<"SET_INDEX", {1, 2, 4, 5}>>,
                  <<"INDEX", {4, 5, 6}>> >>, lens |-> <<2>>, const |-> 3],
      \* stores and loads alternate
      [ops |-> << <<"SET_INDEX", {1, 3}>>, <<"SET_INDEX", {1, 2, 4}>>, <<"INDEX", {5}>>,
                  <<"SET_INDEX", {2, 4, 5, 6}>>, <<"INDEX", {5, 7}>> >>,
       lens |-> <<2>>, const |-> 3],
      \* a version whose value the reverse sweep rereads, as input or output
      [ops |-> << <<"SET_INDEX", {1, 3}>>, <<"MUL", {4}>>, <<"SET_INDEX", {1, 2, 4, 5}>>,
                  <<"INDEX", {5}>>, <<"INDEX", {4, 5, 6}>> >>, lens |-> <<2>>, const |-> 3],
      [ops |-> << <<"SET_INDEX", {1, 3}>>, <<"EXPV", {4}>>, <<"SET_INDEX", {1, 2, 4, 5}>>,
                  <<"INDEX", {5}>>, <<"INDEX", {4, 5, 6}>> >>, lens |-> <<2>>, const |-> 3],
      \* equal ops, one of whose outputs is then updated
      [ops |-> << <<"SET_INDEX", {1, 3}>>, <<"SET_INDEX", {1, 3}>>, <<"SET_INDEX", {1, 2, 5}>>,
                  <<"INDEX", {4, 5}>>, <<"INDEX", {4, 6}>> >>, lens |-> <<2>>, const |-> 3],
      \* full-extent stores and slices, over constants and computed values
      [ops |-> << <<"EXPV", AnySlot>>, <<"SET_SLICE", AnySlot>>, <<"SLICE", AnySlot>>, <<"INDEX", AnySlot>> >>,
       lens |-> <<2>>, const |-> 3],
      [ops |-> << <<"REP_VEC", {1}>>, <<"SET_SLICE", {3, 4}>>, <<"SET_SLICE", {3, 4, 5}>>,
                  <<"SLICE", {4, 5, 6}>>, <<"ADD", {6, 7}>>, <<"INDEX", {6, 7, 8}>> >>,
       lens |-> <<2>>, const |-> 3],
      \* strided stores of two cells into three
      [ops |-> << <<"REP_VEC", {1}>>, <<"SET_SLICE_STRIDED", {3, 4, 5}>>,
                  <<"SET_SLICE_STRIDED", {3, 4, 5, 6}>>, <<"INDEX", {5, 6, 7}>> >>,
       lens |-> <<2, 3>>, const |-> 3],
      \* ops that throw, on constants and on the parameter, between effects
      [ops |-> << <<"CHECK_LOWER", AnySlot>>, <<"DENSITY", AnySlot>>, <<"CHECK_LOWER", AnySlot>> >>,
       lens |-> <<>>, const |-> 0],
      [ops |-> << <<"DENSITY", AnySlot>>, <<"ADD", AnySlot>>, <<"CHECK_LOWER", AnySlot>> >>,
       lens |-> <<>>, const |-> 2],
      \* repeated nonlinear ops, whose primals are shared
      [ops |-> << <<"EXPV", {1}>>, <<"EXPV", {1, 2, 3}>>, <<"DENSITY", {1, 3, 4}>>,
                  <<"DENSITY", {2, 3, 4}>> >>, lens |-> <<>>, const |-> 2] }

MCPoints == <<2, 0, 3>>

\* A vector copied into another between two stores to its second element.
MCDefect ==
    { [ops |-> << <<"SET_INDEX", {1, 3}>>, <<"SET_INDEX", {1, 4}>>, <<"SET_SLICE", {3, 5}>>,
                  <<"SET_INDEX", {1, 2, 5}>>, <<"INDEX", {6}>> >>,
       lens |-> <<2>>, const |-> 3] }
=============================================================================
