----------------------------- MODULE MCScanner -----------------------------
(***************************************************************************)
(* Scanner for TLC: stores of up to three chunks, among them an empty store*)
(* and chunks of no block, one block and two blocks, a chunk of no block at*)
(* the front, too.                                                         *)
(***************************************************************************)
EXTENDS Scanner

MCChunkId == 0..3

OneBlock == << <<1, 2>> >>
TwoBlocks == << <<1, 2>>, <<3>> >>

MCStores ==
    {<< >>,
     [c \in {0} |-> TwoBlocks],
     [c \in {0, 2} |-> TwoBlocks],
     [c \in {1, 2} |-> IF c = 1 THEN << >> ELSE OneBlock],
     [c \in {0, 1, 2} |-> IF c = 1 THEN << >> ELSE OneBlock]}

ASSUME \A s \in MCStores : \A c \in DOMAIN s : Ascending(s[c])
=============================================================================
