------------------------------ MODULE LogFile ------------------------------
(***************************************************************************)
(* A QFS file as QFSFileHelper (src/src/fs/qfs_file_helper.cpp) writes and *)
(* reads it: a sequence of logs, each one a Header that holds the length   *)
(* of the data, followed by the data.                                      *)
(*                                                                         *)
(* A file is a sequence of cells, a cell being what the store's properties *)
(* can tell apart: one header, or one data record.  An offset in a file is *)
(* a number of cells, so the offset 0 is the first cell and the offset     *)
(* Len(file) is the end of the file.  A write that is cut short leaves a   *)
(* proper prefix of the cells of its log.                                  *)
(*                                                                         *)
(* Simplifications: a compressed block is as long as its records, and cells*)
(* keep their identity, so that data read from the middle of a log is told *)
(* apart from a log.  In the program such a read hands garbage to the      *)
(* decompressor, which fails or returns garbage: neither is a record.      *)
(***************************************************************************)
EXTENDS Naturals, Sequences

CONSTANT Value          \* the strings that clients append

(***************************************************************************)
(* The cells of a file: a header with the number of records in its log, or *)
(* a data record with its index and its value.                             *)
(***************************************************************************)
Header(n) == [kind |-> "header", n |-> n, val |-> "none"]

DataRecord(i, v) == [kind |-> "record", n |-> i, val |-> v]

RecordCell == [kind : {"record"}, n : Nat, val : Value]

Cell == [kind : {"header"}, n : Nat, val : {"none"}] \cup RecordCell

(* The cells that QFSFileHelper::Write sends for a block of records. *)
LogOf(block) == <<Header(Len(block))>> \o block

(***************************************************************************)
(* A complete log of n records starts at the offset off of the file.       *)
(***************************************************************************)
IsLogAt(file, off, n) ==
    /\ off + 1 + n <= Len(file)
    /\ file[off + 1] = Header(n)
    /\ \A k \in 1..n : file[off + 1 + k].kind = "record"

(* What a reader that seeks to the offset off can decode: the records of the
   log that starts there, or nothing when no complete log does. *)
BlockAt(file, off) ==
    IF off < Len(file) /\ IsLogAt(file, off, file[off + 1].n)
    THEN SubSeq(file, off + 2, off + 1 + file[off + 1].n)
    ELSE << >>

(***************************************************************************)
(* After a crash a file holds what it held up to some length, no shorter   *)
(* than what was last synced.                                              *)
(***************************************************************************)
Cut(file, n) == SubSeq(file, 1, n)
=============================================================================
