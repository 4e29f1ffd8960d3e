---------------------------- MODULE AccessTable ----------------------------
(***************************************************************************)
(* The generated table of _access_timing.py, one row per pattern: the      *)
(* accesses an instruction can make as <<kind, T-state>>, and its shapes   *)
(* <<T-states, accesses made>>.  The DD and FD pages hold the same values, *)
(* so one page stands for both.                                            *)
(***************************************************************************)
EXTENDS Opcodes, Sequences

Timed(ops, accesses, shapes) == [ops |-> ops, accesses |-> accesses, shapes |-> shapes]

LOCAL R(t) == <<"read", t>>
LOCAL W(t) == <<"write", t>>
LOCAL I(t) == <<"in", t>>
LOCAL O(t) == <<"out", t>>

(* A page: rows for the opcodes that stand out, and one for all the others *)
Page(rows, others, accesses, shapes) ==
  rows \cup {Timed(others \ UNION {row.ops : row \in rows}, accesses, shapes)}

LoadsAt(first) == {first + 16 * k : k \in 0 .. 3}
OnMemory(ops)  == {op \in ops : Low(op) = 6}
Unprefixed     == (0 .. 255) \ {\hCB, \hDD, \hED, \hFD}

MainTimes ==
  Page({Timed(LoadsAt(\h01) \cup LoadsAt(\hC1) \cup Every8(\hC2) \cup {\hC3, \hC9},
              <<R(1), R(5), R(8)>>, {<<10, 3>>}),
        Timed({\h02, \h12} \cup ((\h70 .. \h77) \ {\h76}), <<R(1), W(5)>>, {<<7, 2>>}),
        Timed(LoadsAt(\h03) \cup LoadsAt(\h0B) \cup {\hF9}, <<R(1)>>, {<<6, 1>>}),
        Timed({\h0A, \h1A} \cup (Every8(\h06) \ {\h36}) \cup (OnMemory(\h40 .. \hBF) \ {\h76})
                \cup Every8(\hC6), <<R(1), R(5)>>, {<<7, 2>>}),
        Timed(LoadsAt(\h09), <<R(1)>>, {<<11, 1>>}),
        Timed({\h10}, <<R(1), R(6)>>, {<<8, 2>>, <<13, 2>>}),
        Timed({\h18}, <<R(1), R(5)>>, {<<12, 2>>}),
        Timed({\h20, \h28, \h30, \h38}, <<R(1), R(5)>>, {<<7, 2>>, <<12, 2>>}),
        Timed({\h22}, <<R(1), R(5), R(8), W(11), W(14)>>, {<<16, 5>>}),
        Timed({\h2A}, <<R(1), R(5), R(8), R(11), R(14)>>, {<<16, 5>>}),
        Timed({\h32}, <<R(1), R(5), R(8), W(11)>>, {<<13, 4>>}),
        Timed({\h3A}, <<R(1), R(5), R(8), R(11)>>, {<<13, 4>>}),
        Timed({\h34, \h35}, <<R(1), R(5), W(9)>>, {<<11, 3>>}),
        Timed({\h36}, <<R(1), R(5), W(8)>>, {<<10, 3>>}),
        Timed(Every8(\hC0), <<R(1), R(6), R(9)>>, {<<5, 1>>, <<11, 3>>}),
        Timed(Every8(\hC4), <<R(1), R(5), R(8), W(12), W(15)>>, {<<10, 3>>, <<17, 5>>}),
        Timed(LoadsAt(\hC5) \cup Every8(\hC7), <<R(1), W(6), W(9)>>, {<<11, 3>>}),
        Timed({\hCD}, <<R(1), R(5), R(8), W(12), W(15)>>, {<<17, 5>>}),
        Timed({\hD3}, <<R(1), R(5), O(9)>>, {<<11, 3>>}),
        Timed({\hDB}, <<R(1), R(5), I(9)>>, {<<11, 3>>}),
        Timed({\hE3}, <<R(1), R(5), R(8), W(12), W(15)>>, {<<19, 5>>})},
       Unprefixed, <<R(1)>>, {<<4, 1>>})

CbTimes ==
  Page({Timed(OnMemory(\h40 .. \h7F), <<R(1), R(5), R(9)>>, {<<12, 3>>}),
        Timed(OnMemory((\h00 .. \h3F) \cup (\h80 .. \hFF)),
              <<R(1), R(5), R(9), W(13)>>, {<<15, 4>>})},
       0 .. 255, <<R(1), R(5)>>, {<<8, 2>>})

(* _ED_NOP is for the opcodes the table does not list *)
EdTimes ==
  Page({Timed(Every8(\h40), <<R(1), R(5), I(10)>>, {<<12, 3>>}),
        Timed(Every8(\h41), <<R(1), R(5), O(10)>>, {<<12, 3>>}),
        Timed(Every8(\h42), <<R(1), R(5)>>, {<<15, 2>>}),
        Timed(LoadsAt(\h43), <<R(1), R(5), R(9), R(12), W(15), W(18)>>, {<<20, 6>>}),
        Timed(LoadsAt(\h4B), <<R(1), R(5), R(9), R(12), R(15), R(18)>>, {<<20, 6>>}),
        Timed(Every8(\h45), <<R(1), R(5), R(9), R(12)>>, {<<14, 4>>}),
        Timed({\h47, \h4F, \h57, \h5F}, <<R(1), R(5)>>, {<<9, 2>>}),
        Timed({\h67, \h6F}, <<R(1), R(5), R(9), W(16)>>, {<<18, 4>>}),
        Timed({\hA0, \hA8}, <<R(1), R(5), R(9), W(12)>>, {<<16, 4>>}),
        Timed({\hA1, \hA9}, <<R(1), R(5), R(9)>>, {<<16, 3>>}),
        Timed({\hA2, \hAA}, <<R(1), R(5), I(11), W(14)>>, {<<16, 4>>}),
        Timed({\hA3, \hAB}, <<R(1), R(5), R(10), O(14)>>, {<<16, 4>>}),
        Timed({\hB0, \hB8}, <<R(1), R(5), R(9), W(12)>>, {<<16, 4>>, <<21, 4>>}),
        Timed({\hB1, \hB9}, <<R(1), R(5), R(9)>>, {<<16, 3>>, <<21, 3>>}),
        Timed({\hB2, \hBA}, <<R(1), R(5), I(11), W(14)>>, {<<16, 4>>, <<21, 4>>}),
        Timed({\hB3, \hBB}, <<R(1), R(5), R(10), O(14)>>, {<<16, 4>>, <<21, 4>>})},
       0 .. 255, <<R(1), R(5)>>, {<<8, 2>>})

IndexTimes ==
  Page({Timed(LoadsAt(\h01) \cup LoadsAt(\hC1) \cup Every8(\hC2) \cup {\hC3, \hC9},
              <<R(1), R(5), R(9), R(12)>>, {<<14, 4>>}),
        Timed({\h02, \h12}, <<R(1), R(5), W(9)>>, {<<11, 3>>}),
        Timed(LoadsAt(\h03) \cup LoadsAt(\h0B) \cup {\hF9}, <<R(1), R(5)>>, {<<10, 2>>}),
        Timed({\h0A, \h1A} \cup (Every8(\h06) \ {\h36}) \cup Every8(\hC6),
              <<R(1), R(5), R(9)>>, {<<11, 3>>}),
        Timed(LoadsAt(\h09), <<R(1), R(5)>>, {<<15, 2>>}),
        Timed({\h10}, <<R(1), R(5), R(10)>>, {<<12, 3>>, <<17, 3>>}),
        Timed({\h18}, <<R(1), R(5), R(9)>>, {<<16, 3>>}),
        Timed({\h20, \h28, \h30, \h38}, <<R(1), R(5), R(9)>>, {<<11, 3>>, <<16, 3>>}),
        Timed({\h22}, <<R(1), R(5), R(9), R(12), W(15), W(18)>>, {<<20, 6>>}),
        Timed({\h2A}, <<R(1), R(5), R(9), R(12), R(15), R(18)>>, {<<20, 6>>}),
        Timed({\h32}, <<R(1), R(5), R(9), R(12), W(15)>>, {<<17, 5>>}),
        Timed({\h3A}, <<R(1), R(5), R(9), R(12), R(15)>>, {<<17, 5>>}),
        Timed({\h34, \h35}, <<R(1), R(5), R(9), R(17), W(21)>>, {<<23, 5>>}),
        Timed({\h36}, <<R(1), R(5), R(9), R(12), W(17)>>, {<<19, 5>>}),
        Timed(OnMemory(\h40 .. \hBF) \ {\h76}, <<R(1), R(5), R(9), R(17)>>, {<<19, 4>>}),
        Timed((\h70 .. \h77) \ {\h76}, <<R(1), R(5), R(9), W(17)>>, {<<19, 4>>}),
        Timed(Every8(\hC0), <<R(1), R(5), R(10), R(13)>>, {<<9, 2>>, <<15, 4>>}),
        Timed(Every8(\hC4), <<R(1), R(5), R(9), R(12), W(16), W(19)>>, {<<14, 4>>, <<21, 6>>}),
        Timed(LoadsAt(\hC5) \cup Every8(\hC7), <<R(1), R(5), W(10), W(13)>>, {<<15, 4>>}),
        Timed({\hCD}, <<R(1), R(5), R(9), R(12), W(16), W(19)>>, {<<21, 6>>}),
        Timed({\hD3}, <<R(1), R(5), R(9), O(13)>>, {<<15, 4>>}),
        Timed({\hDB}, <<R(1), R(5), R(9), I(13)>>, {<<15, 4>>}),
        Timed({\hE3}, <<R(1), R(5), R(9), R(12), W(16), W(19)>>, {<<23, 6>>})},
       Unprefixed, <<R(1), R(5)>>, {<<8, 2>>})

IndexCbTimes ==
  Page({Timed(\h40 .. \h7F, <<R(1), R(5), R(9), R(12), R(17)>>, {<<20, 5>>})},
       0 .. 255, <<R(1), R(5), R(9), R(12), R(17), W(21)>>, {<<23, 6>>})

=============================================================================
