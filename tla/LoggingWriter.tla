---------------------------- MODULE LoggingWriter ----------------------------
(***************************************************************************)
(* Logging/Logging_Writer.c: the files the logger task leaves on the SD    *)
(* card.  Each boot takes a directory of its own, each file in it is       *)
(* closed once it has reached MAX_FILE_SIZE, and every write is followed   *)
(* by an fsync.  The power may go at any moment, and any call to the file  *)
(* system may fail.                                                        *)
(*                                                                         *)
(* The card is external: written data is in the cache until fsync or close *)
(* succeeds, and a power loss keeps a prefix of it.                        *)
(***************************************************************************)
EXTENDS Integers, Sequences, SequencesExt

CONSTANTS
  NumDirs,      \* 10000 directory names
  BlockSizes,   \* the sizes of the blocks written
  MaxFileSize,  \* MAX_FILE_SIZE
  MaxBlocks,    \* bound: blocks written, over all boots
  MaxBoots,     \* bound: boots
  Fault         \* the calls that may fail

ASSUME LoggingWriterAssumption ==
  /\ NumDirs \in Nat \ {0} /\ MaxFileSize \in Nat \ {0}
  /\ MaxBlocks \in Nat /\ MaxBoots \in Nat
  /\ BlockSizes \subseteq Nat \ {0} /\ BlockSizes # {}
  /\ Fault \subseteq {"stat", "mkdir", "creat", "write", "fsync"}

NoFile == <<-1, -1>>   \* fd = -1

VARIABLES
  \* the card
  topDir,    \* /mnt/sd0/log: "missing", "dir", or "file"
  dirs,      \* the numbers of the directories in it
  files,     \* <<dirId, fileId>> -> the blocks in the file
  \* Logging_Writer_t, and the data not yet on the card
  at,        \* where the writer is
  dirId, fileId, fileSize,
  fd,        \* the file that is open, or NoFile
  cache,     \* the blocks written to fd and not synchronised
  \* what the caller knows
  block,     \* the number of blocks handed over, over all boots
  acked,     \* the blocks for which Logging_Writer_Write returned OK
  atRisk,    \* those of them whose fsync failed
  boots,
  \* observed, not kept by the code
  passed     \* <<x, d>>: x was free, but its stat failed, when d was made

card == <<topDir, dirs, files>>
position == <<dirId, fileId, fileSize>>
caller == <<block, acked, atRisk, boots>>
vars == <<card, at, position, fd, cache, caller, passed>>

At == {"off", "topDir", "dir", "file", "failed", "idle", "sync", "roll", "closed"}

Init ==
  /\ topDir \in {"missing", "dir", "file"}
  /\ dirs \in {{}, {0}}
  /\ topDir # "dir" => dirs = {}
  /\ files = [f \in {} |-> <<>>]
  /\ at = "off"
  /\ dirId = 0 /\ fileId = 0 /\ fileSize = 0
  /\ fd = NoFile
  /\ cache = <<>>
  /\ block = 0
  /\ acked = {}
  /\ atRisk = {}
  /\ boots = 0
  /\ passed = {}

\* The data of the open file reaches the card.
Flushed(data) == [files EXCEPT ![fd] = @ \o data]

-----------------------------------------------------------------------------
(* Logging_Writer_Initialize *)

Initialize ==
  /\ at = "off"
  /\ boots < MaxBoots
  /\ boots' = boots + 1
  /\ fd' = NoFile
  /\ dirId' = 0 /\ fileId' = 0 /\ fileSize' = 0
  /\ at' = "topDir"
  /\ UNCHANGED <<card, cache, block, acked, atRisk, passed>>

(***************************************************************************)
(* A plain file of that name makes S_ISDIR 0, which is OK, not ERROR.  When *)
(* stat fails although the name is there, mkdir answers EEXIST, which is    *)
(* OK, or fails otherwise.                                                  *)
(***************************************************************************)
CreateTopDir ==
  /\ at = "topDir"
  /\ \/ topDir # "missing" /\ topDir' = topDir /\ at' = "dir"
     \/ topDir = "missing" /\ topDir' = "dir" /\ at' = "dir"
     \/ /\ "mkdir" \in Fault /\ (topDir = "missing" \/ "stat" \in Fault)
        /\ topDir' = topDir /\ at' = "failed"
  /\ UNCHANGED <<dirs, files, position, fd, cache, caller, passed>>

\* The numbers whose stat fails, and not with ENOENT.
Failing == IF "stat" \in Fault THEN SUBSET (0 .. NumDirs - 1) ELSE {{}}

\* The free numbers below d that are passed over when d is made.
PassedOver(failing, d) == {x \in failing \ dirs : x < d} \X {d}

\* Take one of the candidates; ERROR when mkdir fails or there is none.
MakeDir(candidates, failing) ==
  /\ at = "dir"
  /\ \/ \E d \in candidates :
          /\ dirId' = d
          /\ \/ /\ dirs' = dirs \cup {d} /\ at' = "file"
                /\ passed' = passed \cup PassedOver(failing, d)
             \/ "mkdir" \in Fault /\ at' = "failed" /\ UNCHANGED <<dirs, passed>>
     \/ candidates = {} /\ at' = "failed" /\ UNCHANGED <<dirs, dirId, passed>>
  /\ UNCHANGED <<topDir, files, fileId, fileSize, fd, cache, caller>>

\* The first number whose stat says ENOENT; with outDir a plain file none does.
FirstFree(n, failing) ==
  {d \in 0 .. n - 1 : /\ topDir = "dir"
                      /\ d \notin dirs \cup failing
                      /\ 0 .. d - 1 \subseteq dirs \cup failing}

\* Mutant: idx <= 10000.
CreateDir_OneMore ==
  \E failing \in Failing : MakeDir(FirstFree(NumDirs + 1, failing), failing)

\* Mutant: a directory that exists is taken.
CreateDir_Reuse ==
  \E failing \in Failing : MakeDir(FirstFree(NumDirs, failing) \cup dirs, failing)

\* Mutant: any free number is taken, though no stat failed.
CreateDir_Any == MakeDir(IF topDir = "dir" THEN (0 .. NumDirs - 1) \ dirs ELSE {}, {})

CreateDir ==
  \E failing \in Failing : MakeDir(FirstFree(NumDirs, failing), failing)

\* creat truncates a file that is already there.
Creat(nextId) ==
  /\ files' = [f \in DOMAIN files \cup {<<dirId, fileId>>} |->
                 IF f = <<dirId, fileId>> THEN <<>> ELSE files[f]]
  /\ fd' = <<dirId, fileId>>
  /\ fileId' = nextId
  /\ fileSize' = 0

\* Mutant: fileId is not counted up.
OpenFile_Ok_SameName == Creat(fileId)

OpenFile_Ok == Creat(fileId + 1)

OpenFile_Error ==
  /\ "creat" \in Fault
  /\ fd' = NoFile
  /\ UNCHANGED <<files, fileId, fileSize>>

OpenFirst ==
  /\ at = "file"
  /\ \/ OpenFile_Ok /\ at' = "idle"
     \/ OpenFile_Error /\ at' = "failed"
  /\ UNCHANGED <<topDir, dirs, dirId, cache, caller, passed>>

-----------------------------------------------------------------------------
(* Logging_Writer_Write *)

\* write puts the whole block, a part of it or nothing into the file.
Write(size) ==
  /\ at = "idle"
  /\ block < MaxBlocks
  /\ block' = block + 1
  /\ \/ fd # NoFile /\ cache' = Append(cache, [block |-> block', size |-> size, whole |-> TRUE])
     \/ /\ fd # NoFile /\ "write" \in Fault
        /\ cache' = Append(cache, [block |-> block', size |-> size, whole |-> FALSE])
     \/ (fd = NoFile \/ "write" \in Fault) /\ cache' = cache
  /\ at' = "sync"
  /\ UNCHANGED <<card, position, fd, acked, atRisk, boots, passed>>

\* fsync, whose result nobody looks at.
Fsync ==
  \/ files' = (IF fd = NoFile THEN files ELSE Flushed(cache)) /\ cache' = <<>>
  \/ "fsync" \in Fault /\ fd # NoFile /\ UNCHANGED <<files, cache>>

\* The block just written whole, if it was.
Complete == cache # <<>> /\ Last(cache).block = block /\ Last(cache).whole

\* A short write: ERROR, and fileSize does not count it.
Write_Error ==
  /\ at = "sync"
  /\ ~Complete
  /\ Fsync
  /\ at' = "idle"
  /\ UNCHANGED <<topDir, dirs, position, fd, caller, passed>>

\* The size is counted, and a full file is closed next.
Counted(isFull) ==
  /\ at = "sync"
  /\ Complete
  /\ Fsync
  /\ acked' = acked \cup {block}
  /\ atRisk' = IF cache' = <<>> THEN atRisk ELSE atRisk \cup {block}
  /\ fileSize' = fileSize + Last(cache).size
  /\ at' = IF isFull THEN "roll" ELSE "idle"
  /\ UNCHANGED <<topDir, dirs, dirId, fileId, fd, block, boots, passed>>

\* Mutant: > MAX_FILE_SIZE instead of >=.
Write_Ok_Beyond == Counted(fileSize' > MaxFileSize)

Write_Ok == Counted(fileSize' >= MaxFileSize)

\* CloseFile: fsync, close and forget the descriptor, whatever they return.
CloseFile ==
  /\ fd # NoFile
  /\ \E n \in (IF "fsync" \in Fault THEN 0 ELSE Len(cache)) .. Len(cache) :
       files' = Flushed(SubSeq(cache, 1, n))
  /\ fd' = NoFile
  /\ cache' = <<>>

\* The file is full.
Roll_Close ==
  /\ at = "roll"
  /\ CloseFile
  /\ at' = "roll"
  /\ UNCHANGED <<topDir, dirs, position, caller, passed>>

\* When creat fails the writer goes on without a file.
Roll_Open ==
  /\ at = "roll"
  /\ fd = NoFile
  /\ OpenFile_Ok \/ OpenFile_Error
  /\ at' = "idle"
  /\ UNCHANGED <<topDir, dirs, dirId, cache, caller, passed>>

\* Logging_Writer_Close.
Close ==
  /\ at = "idle"
  /\ IF fd = NoFile THEN UNCHANGED <<files, fd, cache>> ELSE CloseFile
  /\ at' = "closed"
  /\ UNCHANGED <<topDir, dirs, position, caller, passed>>

-----------------------------------------------------------------------------
\* The last block that reached the card before the power went may be torn.
Torn(data) == {data} \cup
  (IF data = <<>> THEN {} ELSE {[data EXCEPT ![Len(data)].whole = FALSE]})

PowerLoss ==
  /\ at # "off"
  /\ IF fd = NoFile THEN files' = files
     ELSE \E n \in 0 .. Len(cache) : \E data \in Torn(SubSeq(cache, 1, n)) :
            files' = Flushed(data)
  /\ fd' = NoFile
  /\ cache' = <<>>
  /\ at' = "off"
  /\ UNCHANGED <<topDir, dirs, position, caller, passed>>

Next ==
  \/ Initialize
  \/ CreateTopDir
  \/ CreateDir
  \/ OpenFirst
  \/ \E size \in BlockSizes : Write(size)
  \/ Write_Error
  \/ Write_Ok
  \/ Roll_Close
  \/ Roll_Open
  \/ Close
  \/ PowerLoss

Spec == Init /\ [][Next]_vars

-----------------------------------------------------------------------------
(* Properties *)

Record == [block: 1 .. MaxBlocks, size: BlockSizes, whole: BOOLEAN]

\* Type invariant.
TypeOK ==
  /\ topDir \in {"missing", "dir", "file"}
  /\ dirs \subseteq 0 .. NumDirs - 1
  /\ DOMAIN files \subseteq dirs \X (0 .. MaxBlocks)
  /\ \A f \in DOMAIN files : files[f] \in Seq(Record)
  /\ at \in At
  /\ dirId \in 0 .. NumDirs - 1 /\ fileId \in Nat /\ fileSize \in Nat
  /\ fd \in DOMAIN files \cup {NoFile}
  /\ cache \in Seq(Record)
  /\ block \in 0 .. MaxBlocks /\ boots \in 0 .. MaxBoots
  /\ atRisk \subseteq acked /\ acked \subseteq 1 .. block
  /\ passed \subseteq (0 .. NumDirs - 1) \X dirs

\* The blocks that are whole on the card.
OnCard == UNION {{files[f][i].block : i \in {j \in DOMAIN files[f] : files[f][j].whole}}
                 : f \in DOMAIN files}

(***************************************************************************)
(* A block for which Logging_Writer_Write returned OK is on the card, and  *)
(* stays there through any number of power losses and boots, unless its    *)
(* own fsync failed (Logging_Writer.c:170-181).                            *)
(***************************************************************************)
Durable == acked \ atRisk \subseteq OnCard

(***************************************************************************)
(* A file on the card only ever grows: neither a new boot nor a roll-over  *)
(* opens, and so truncates, one that exists (Logging_Writer.c:71-79, 105). *)
(***************************************************************************)
AppendOnly ==
  [][\A f \in DOMAIN files : f \in DOMAIN files' /\ IsPrefix(files[f], files'[f])]_vars

\* The size of the whole blocks among data.
WholeSize(data) ==
  LET upTo[n \in 0 .. Len(data)] ==
        IF n = 0 THEN 0
        ELSE upTo[n - 1] + (IF data[n].whole THEN data[n].size ELSE 0)
  IN  upTo[Len(data)]

(***************************************************************************)
(* The whole blocks of a file exceed MAX_FILE_SIZE by less than one block, *)
(* even when short writes and failed roll-overs come between them          *)
(* (Logging_Writer.c:182-186).                                             *)
(***************************************************************************)
FileSizeBounded ==
  \A f \in DOMAIN files :
    \E size \in BlockSizes : WholeSize(files[f]) < MaxFileSize + size

\* The places of the card that hold a record, and what they hold.
Places == UNION {{<<f[1], f[2], i>> : i \in DOMAIN files[f]} : f \in DOMAIN files}
Contents == [p \in Places |-> files[<<p[1], p[2]>>][p[3]]]

CL == INSTANCE CardLog WITH
  Block <- 1 .. MaxBlocks, Size <- BlockSizes,
  log <- Contents, safe <- acked \ atRisk

(***************************************************************************)
(* The directories and files of all boots together are one append-only log *)
(* that keeps what was acknowledged: a new boot and a roll-over continue   *)
(* it at its end and nowhere else.  The directories are read in the order  *)
(* of their numbers, but for a number that was passed over because its     *)
(* stat failed: a later boot that takes it comes behind                    *)
(* (Logging_Writer.c:71-87).                                               *)
(***************************************************************************)
ImplementsCardLog == CL!Spec
=============================================================================
