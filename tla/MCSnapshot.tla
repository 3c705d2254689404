----------------------------- MODULE MCSnapshot -----------------------------
(***************************************************************************)
(* Snapshot for TLC: snapshots of one to three segments, with a block that *)
(* the CDS has, a block twice in a segment, and segments that two snapshots*)
(* have at the same place, at another place, or in part.                   *)
(***************************************************************************)
EXTENDS Snapshot

MCBlock == {"a", "b", "c"}

MCCdsFile == <<"c">>

MCImages ==
    {<< <<"a", "c">>, <<"b">> >>,
     << <<"b", "a", "b">>, <<"b">>, <<"a", "c">> >>}

MCTraces ==
    {<< <<"a">>, <<"b">> >>,
     << <<"b">>, <<"b">>, <<"c">> >>,
     << <<"b">>, <<"a">> >>}
=============================================================================
