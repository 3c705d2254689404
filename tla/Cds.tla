-------------------------------- MODULE Cds --------------------------------
(***************************************************************************)
(* The common data store: the blocks that many virtual machines share.     *)
(*                                                                         *)
(* cds_loader.cpp writes the blocks of a trace one after the other to a    *)
(* data file in QFS and their offsets to memcached; snapshot_write asks    *)
(* memcached where a block is and records the offset in its recipes;       *)
(* snapshot_read reads the block there, through a second memcached that    *)
(* caches data by checksum (cds_data.cpp); cds_verify.cpp compares         *)
(* memcached with a trace.  The four are processes that run at any time,   *)
(* and memcached forgets at any time.                                      *)
(*                                                                         *)
(* A checksum stands for its data; the data of a block is a cell for each  *)
(* unit of its size, and a file is a sequence of cells.                    *)
(***************************************************************************)
EXTENDS Integers, Sequences, FiniteSets, SequencesExt, FiniteSetsExt

CONSTANTS
    Block,                  \* what a block holds, and its checksum
    Size,                   \* the size of each block
    RESERVED_REGION_SIZE,   \* the largest size that DataSource accepts
    Traces,                 \* the traces to load and to verify
    MaxLoads,               \* bound: runs of cds_loader
    MaxRecorded             \* bound: offsets recorded by snapshot_write

ASSUME CdsAssumption ==
    /\ Size \in [Block -> Nat]
    /\ RESERVED_REGION_SIZE \in Nat
    /\ Traces \subseteq Seq(Block)
    /\ MaxLoads \in Nat /\ MaxRecorded \in Nat

VARIABLES
    files,      \* the data files ever created
    current,    \* which of them the path names, 0 if none
    index,      \* memcached: the offset of some blocks
    cache,      \* memcached: the data of some blocks
    loader,     \* cds_loader: what it does next, its trace, position and offset
    verifier,   \* cds_verify: likewise, whether all were hits, and (history) loads when it began
    recorded,   \* the blocks and offsets in the recipes of snapshots
    reader,     \* the file snapshot_read has open, 0 if none
    answer,     \* the last answer of CdsData::Read
    (* history *)
    finished,   \* the load that began last has ended, and not by the loader's death
    lastTrace,  \* the trace whose load began last
    grown,      \* every trace loaded so far extended the one before
    loads       \* bound

fileVars == <<files, current>>
history == <<finished, lastTrace, grown, loads>>
vars == <<fileVars, index, cache, loader, verifier, recorded, reader, answer, history>>

NoAnswer == << >>

Data(b) == [n \in 1..Size[b] |-> <<b, n>>]

(* Seek and Read: as much of the block as the file has. *)
ReadAt(f, offset, b) == SubSeq(f, offset + 1, Min({offset + Size[b], Len(f)}))

(* BlockToBlockMeta takes no other block; GetBlock then ends the source. *)
Acceptable(b) == Size[b] # 0 /\ Size[b] <= RESERVED_REGION_SIZE

Put(map, b, v) == [c \in DOMAIN map \cup {b} |-> IF c = b THEN v ELSE map[c]]

Forget(map, b) == [c \in DOMAIN map \ {b} |-> map[c]]

Idle == [pc |-> "none", trace |-> << >>, k |-> 1, offset |-> 0]

IdleVerifier ==
    [pc |-> "none", trace |-> << >>, k |-> 1, offset |-> 0, clean |-> FALSE, seen |-> 0]

Init ==
    /\ files = << >> /\ current = 0
    /\ index = << >> /\ cache = << >>
    /\ loader = Idle /\ verifier = IdleVerifier
    /\ recorded = {} /\ reader = 0 /\ answer = NoAnswer
    /\ finished = FALSE /\ lastTrace = << >> /\ grown = TRUE /\ loads = 0

(***************************************************************************)
(* cds_loader.                                                             *)
(***************************************************************************)

(* RemoveDirectory, if it is there, and CreateDirectory. *)
BeginLoad(trace) ==
    /\ loader.pc = "none" /\ loads < MaxLoads
    /\ current' = 0
    /\ loader' = [Idle EXCEPT !.pc = "create", !.trace = trace]
    /\ finished' = FALSE /\ lastTrace' = trace /\ loads' = loads + 1
    /\ grown' = (grown /\ IsPrefix(lastTrace, trace))
    /\ UNCHANGED <<files, index, cache, verifier, recorded, reader, answer>>

CreateFile ==
    /\ loader.pc = "create"
    /\ files' = Append(files, << >>) /\ current' = Len(files')
    /\ loader' = [loader EXCEPT !.pc = "set"]
    /\ UNCHANGED <<index, cache, verifier, recorded, reader, answer, history>>

HasBlock == loader.k <= Len(loader.trace) /\ Acceptable(loader.trace[loader.k])

SetIndex_EndOffset ==                                               \* mutant
    /\ loader.pc = "set" /\ HasBlock
    /\ LET b == loader.trace[loader.k]
       IN index' \in {Put(index, b, loader.offset + Size[b]), index, Forget(index, b)}
    /\ loader' = [loader EXCEPT !.pc = "write"]
    /\ UNCHANGED <<fileVars, cache, verifier, recorded, reader, answer, history>>

(* CdsIndex::Set.  A set that fails is logged and leaves the old entry, or none. *)
SetIndex ==
    /\ loader.pc = "set" /\ HasBlock
    /\ LET b == loader.trace[loader.k]
       IN index' \in {Put(index, b, loader.offset), index, Forget(index, b)}
    /\ loader' = [loader EXCEPT !.pc = "write"]
    /\ UNCHANGED <<fileVars, cache, verifier, recorded, reader, answer, history>>

WriteBlock_OffsetByOne ==                                           \* mutant
    /\ loader.pc = "write"
    /\ files' = [files EXCEPT ![current] = @ \o Data(loader.trace[loader.k])]
    /\ loader' = [loader EXCEPT !.pc = "set", !.k = @ + 1, !.offset = @ + 1]
    /\ UNCHANGED <<current, index, cache, verifier, recorded, reader, answer, history>>

WriteBlock ==
    /\ loader.pc = "write"
    /\ LET b == loader.trace[loader.k]
       IN /\ files' = [files EXCEPT ![current] = @ \o Data(b)]
          /\ loader' = [loader EXCEPT !.pc = "set", !.k = @ + 1, !.offset = @ + Size[b]]
    /\ UNCHANGED <<current, index, cache, verifier, recorded, reader, answer, history>>

(* Close syncs the file. *)
EndLoad ==
    /\ loader.pc = "set" /\ ~HasBlock
    /\ loader' = Idle
    /\ finished' = TRUE
    /\ UNCHANGED <<fileVars, index, cache, verifier, recorded, reader, answer, lastTrace,
                   grown, loads>>

(* The process is killed, or a short write makes WriteData throw: of what was
   not synced a prefix is left. *)
LoaderDies ==
    /\ loader.pc # "none"
    /\ loader' = Idle
    /\ IF loader.pc = "create"
       THEN UNCHANGED files
       ELSE \E left \in Prefixes(files[current] \o
                                 IF loader.pc = "write" THEN Data(loader.trace[loader.k])
                                                        ELSE << >>) :
              files' = [files EXCEPT ![current] = left]
    /\ UNCHANGED <<current, index, cache, verifier, recorded, reader, answer, history>>

(***************************************************************************)
(* memcached.                                                              *)
(***************************************************************************)
Evict(b) ==
    /\ \/ b \in DOMAIN index /\ index' = Forget(index, b) /\ UNCHANGED cache
       \/ b \in DOMAIN cache /\ cache' = Forget(cache, b) /\ UNCHANGED index
    /\ UNCHANGED <<fileVars, loader, verifier, recorded, reader, answer, history>>

(***************************************************************************)
(* snapshot_write: BatchGet found the block, and a recipe gets its offset. *)
(***************************************************************************)
Record(b) ==
    /\ b \in DOMAIN index
    /\ Cardinality(recorded \cup {<<b, index[b]>>}) <= MaxRecorded
    /\ recorded' = recorded \cup {<<b, index[b]>>}
    /\ UNCHANGED <<fileVars, index, cache, loader, verifier, reader, answer, history>>

(***************************************************************************)
(* snapshot_read.                                                          *)
(***************************************************************************)

(* The constructor of CdsData opens the data file, and makes one if there is
   none, where the loader has not made one yet. *)
OpenData ==
    /\ reader = 0
    /\ IF current # 0
       THEN reader' = current /\ UNCHANGED fileVars
       ELSE /\ files' = Append(files, << >>)
            /\ current' = Len(files') /\ reader' = Len(files')
    /\ UNCHANGED <<index, cache, loader, verifier, recorded, answer, history>>

CloseData ==
    /\ reader # 0 /\ reader' = 0
    /\ answer' = NoAnswer
    /\ UNCHANGED <<fileVars, index, cache, loader, verifier, recorded, history>>

Cached(b) == b \in DOMAIN cache /\ Len(cache[b]) = Size[b]

ReadCache(b) ==
    /\ reader # 0 /\ Cached(b)
    /\ answer' = <<b, cache[b]>>
    /\ UNCHANGED <<fileVars, index, cache, loader, verifier, recorded, reader, history>>

(* A file that is being written or was removed may give less than it has. *)
Unsettled(f) == f # current \/ loader.pc # "none"

FromFile(f, offset, b) ==
    LET got == ReadAt(files[f], offset, b)
    IN IF Unsettled(f) THEN Prefixes(got) ELSE {got}

(* A short read is not cached, and the caller stops; so it does when the read
   fails, which CdsData takes for a very long one and dies of. *)
ReadFile(b, offset) ==
    /\ reader # 0 /\ ~Cached(b)
    /\ \E got \in FromFile(reader, offset, b) :
         IF Len(got) = Size[b]
         THEN /\ answer' = <<b, got>>
              /\ cache' \in {Put(cache, b, got), cache}
              /\ UNCHANGED reader
         ELSE /\ reader' = 0 /\ answer' = NoAnswer
              /\ UNCHANGED cache
    /\ UNCHANGED <<fileVars, index, loader, verifier, recorded, history>>

(***************************************************************************)
(* cds_verify, its first pass.                                             *)
(***************************************************************************)
BeginVerify(trace) ==
    /\ verifier.pc = "none"
    /\ verifier' = [IdleVerifier EXCEPT !.pc = "check", !.trace = trace, !.clean = TRUE,
                                       !.seen = loads]
    /\ UNCHANGED <<fileVars, index, cache, loader, recorded, reader, answer, history>>

Hit_AnyOffset(b, offset) == b \in DOMAIN index                      \* mutant

Hit(b, offset) == b \in DOMAIN index /\ index[b] = offset

VerifyBlock ==
    /\ verifier.pc = "check" /\ verifier.k <= Len(verifier.trace)
    /\ LET b == verifier.trace[verifier.k]
       IN \E hit \in {FALSE, Hit(b, verifier.offset)} :
            verifier' = [verifier EXCEPT !.k = @ + 1, !.offset = @ + Size[b],
                                         !.clean = @ /\ hit]
    /\ UNCHANGED <<fileVars, index, cache, loader, recorded, reader, answer, history>>

EndVerify ==
    /\ verifier.pc = "check" /\ verifier.k > Len(verifier.trace)
    /\ verifier' = [verifier EXCEPT !.pc = "none"]
    /\ UNCHANGED <<fileVars, index, cache, loader, recorded, reader, answer, history>>

Next ==
    \/ \E trace \in Traces : BeginLoad(trace) \/ BeginVerify(trace)
    \/ CreateFile \/ SetIndex \/ WriteBlock \/ EndLoad \/ LoaderDies
    \/ \E b \in Block : Evict(b) \/ Record(b)
    \/ OpenData \/ CloseData
    \/ \E r \in recorded : ReadCache(r[1]) \/ ReadFile(r[1], r[2])
    \/ VerifyBlock \/ EndVerify

Spec == Init /\ [][Next]_vars

-----------------------------------------------------------------------------
Loading == loader.pc \in {"set", "write"}

Cells == {<<b, n>> : b \in Block, n \in 1..RESERVED_REGION_SIZE}

(* The types of the variables; while it loads, the offset that the loader counts
   is the length of the file it writes. *)
TypeOK ==
    /\ \A f \in DOMAIN files : Range(files[f]) \subseteq Cells
    /\ current \in 0..Len(files) /\ reader \in 0..Len(files)
    /\ DOMAIN index \subseteq Block /\ \A b \in DOMAIN index : index[b] \in Nat
    /\ DOMAIN cache \subseteq Block /\ \A b \in DOMAIN cache : Len(cache[b]) = Size[b]
    /\ loader.pc \in {"none", "create", "set", "write"} /\ verifier.pc \in {"none", "check"}
    /\ Loading => current # 0 /\ loader.offset = Len(files[current])
    /\ recorded \subseteq Block \X Nat
    /\ answer = NoAnswer \/ answer[1] \in Block
    /\ finished \in BOOLEAN /\ grown \in BOOLEAN

(* Read returns the data of the block that was asked for or fails, through any
   number of loads, dead loaders, lost entries and open readers, as long as
   every trace loaded extends the one before it. *)
ReadRight == grown /\ answer # NoAnswer => answer[2] = Data(answer[1])

ReadsAt(b, offset) == ReadAt(files[current], offset, b) = Data(b)

(* When a load has ended, what snapshots recorded before, during and after it
   is in the data file where they recorded it, under the same condition. *)
FinishedReadable == grown /\ finished => \A r \in recorded : ReadsAt(r[1], r[2])

(* cds_verify is worth its name: if it finds no miss and no error for the trace
   that was loaded, then memcached says of its blocks where they are or nothing,
   whatever was loaded before and whichever sets failed. *)
VerifiedRight ==
    (/\ verifier.pc = "none" /\ verifier.clean
     /\ verifier.seen = loads /\ finished /\ lastTrace = verifier.trace)
    => \A b \in DOMAIN index \cap Range(lastTrace) : ReadsAt(b, index[b])

(* What memcached says is an offset of the block in the data file. *)
IndexRight == finished => \A b \in DOMAIN index : ReadsAt(b, index[b])
=============================================================================
