---------------------------- MODULE MCSliceReader ----------------------------
(***************************************************************************)
(* Archives of up to six bytes in one to three slices; a later slice may   *)
(* hold no data at all.                                                    *)
(***************************************************************************)
EXTENDS SliceReader

MCSlicings ==
    LET Slice(h, f, d) == [header |-> h, first |-> f, data |-> d] IN
    {<<Slice(0, 0, d)>> : d \in {1, 4}}
    \cup {<<Slice(0, 0, 2), Slice(h, 2, d)>> : h \in {1, 2}, d \in 0..2}
    \cup {<<Slice(0, 0, 2), Slice(1, 2, d), Slice(2, 2 + d, 1)>> : d \in 0..2}

MCSeeks == {<<"Start", 0>>, <<"Start", 3>>, <<"End", 0>>, <<"End", -2>>,
            <<"Current", 1>>}
=============================================================================
