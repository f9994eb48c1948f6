------------------------- MODULE LoggingWriterProofs -------------------------
(***************************************************************************)
(* Machine-checked proofs about LoggingWriter, for any number of boots, of *)
(* directories and of blocks, any block sizes and any failures: that no    *)
(* file is ever truncated, that what was acknowledged stays on the card,   *)
(* that the files together are one log, and how large a file can become.   *)
(***************************************************************************)
EXTENDS LoggingWriter, RingLemmas, SequenceTheorems, TLAPS

Writing == {"idle", "sync", "roll"}

\* The only numbers CreateDir leaves free below a directory were passed over.
GapsArePassed == \A e \in dirs : \A x \in (0 .. e - 1) \ dirs : <<x, e>> \in passed

\* The open file is the last one made; without one nothing waits for fsync.
OpenFile ==
  /\ fd = NoFile => cache = <<>>
  /\ fd # NoFile => at \in Writing /\ fd = <<dirId, fileId - 1>>

\* The next file to be made comes behind all that are there.
NextIsNew ==
  /\ at \in {"topDir", "dir", "file"} => fileId = 0
  /\ at \in {"file"} \cup Writing => dirId \in dirs
  /\ at = "file" => \A f \in DOMAIN files : CL!Precedes(passed, f[1], dirId)
  /\ at \in Writing =>
       \A f \in DOMAIN files :
         CL!Precedes(passed, f[1], dirId) \/ (f[1] = dirId /\ f[2] < fileId)

\* Every file but the first of its directory has followed a block.
FilesFollowBlocks ==
  /\ at = "idle" => fileId <= block + 1
  /\ at \in {"sync", "roll"} => fileId <= block

TypeInv == TypeOK /\ GapsArePassed /\ OpenFile /\ NextIsNew /\ FilesFollowBlocks

\* g is read after f.
Behind(over, g, f) == CL!Precedes(over, f[1], g[1]) \/ (f[1] = g[1] /\ f[2] < g[2])

\* Blocks stand in the order they were handed over: in the cache, behind
\* what is on the card, and on the card.
CacheInOrder ==
  /\ \A i \in DOMAIN cache : cache[i].block <= block
  /\ \A i, j \in DOMAIN cache : i < j => cache[i].block < cache[j].block

CardInOrder ==
  \A f \in DOMAIN files : \A i \in DOMAIN files[f] :
    /\ files[f][i].block <= block
    /\ \A k \in DOMAIN cache : files[f][i].block < cache[k].block
    /\ \A j \in DOMAIN files[f] : i < j => files[f][i].block < files[f][j].block
    /\ \A g \in DOMAIN files : \A j \in DOMAIN files[g] :
         Behind(passed, g, f) => files[f][i].block < files[g][j].block

\* The block just written is not acknowledged yet.
NotYet == at = "sync" => block \notin acked

OrderInv == CacheInOrder /\ CardInOrder /\ NotYet /\ Durable

-----------------------------------------------------------------------------
(* What a step does to the files *)

LEMMA Records ==
  ASSUME NEW s \in Seq(Record)
  PROVE  /\ Len(s) \in Nat /\ DOMAIN s = 1 .. Len(s)
         /\ \A i \in DOMAIN s : /\ s[i] \in Record /\ s[i].block \in 1 .. MaxBlocks
                               /\ s[i].block \in Nat /\ s[i].size \in Nat
<1>1. Len(s) \in Nat /\ DOMAIN s = 1 .. Len(s) /\ \A i \in DOMAIN s : s[i] \in Record
  OBVIOUS
<1>2. ASSUME NEW r \in Record
      PROVE  r.block \in 1 .. MaxBlocks /\ r.block \in Nat /\ r.size \in Nat
  <2>1. r.block \in 1 .. MaxBlocks
    BY DEF Record
  <2>2. r.size \in BlockSizes
    BY DEF Record
  <2>3. 1 .. MaxBlocks \subseteq Nat /\ BlockSizes \subseteq Nat
    BY LoggingWriterAssumption
  <2>4. QED
    BY <2>1, <2>2, <2>3
<1>3. QED
  BY <1>1, <1>2, Zenon

\* data is what is left of a beginning of the cache, the last block torn maybe.
PartOf(data, c) ==
  /\ data \in Seq(Record) /\ Len(data) <= Len(c)
  /\ \A i \in 1 .. Len(data) :
       /\ data[i].block = c[i].block /\ data[i].size = c[i].size
       /\ data[i].whole => c[i].whole

LEMMA BeginningIsPart ==
  ASSUME NEW c \in Seq(Record), NEW n \in 0 .. Len(c)
  PROVE  PartOf(SubSeq(c, 1, n), c)
<1>1. /\ SubSeq(c, 1, n) \in Seq(Record) /\ Len(SubSeq(c, 1, n)) = n
      /\ \A i \in 1 .. n : SubSeq(c, 1, n)[i] = c[i]
  OBVIOUS
<1>2. QED
  BY <1>1 DEF PartOf

LEMMA TornIsPart ==
  ASSUME NEW c \in Seq(Record), NEW d, PartOf(d, c), NEW data \in Torn(d)
  PROVE  PartOf(data, c)
<1>1. CASE data = d
  BY <1>1
<1>2. CASE d # <<>> /\ data = [d EXCEPT ![Len(d)].whole = FALSE]
  <2>1. d \in Seq(Record) /\ Len(d) \in 1 .. Len(d)
    BY <1>2 DEF PartOf
  <2>2. d[Len(d)] \in Record
    BY <2>1
  <2> DEFINE torn == [d[Len(d)] EXCEPT !.whole = FALSE]
  <2>3. /\ torn \in Record /\ ~torn.whole
        /\ torn.block = d[Len(d)].block /\ torn.size = d[Len(d)].size
    BY <2>2 DEF Record
  <2>4. data = [d EXCEPT ![Len(d)] = torn]
    BY <1>2
  <2> HIDE DEF torn
  <2>5. /\ data \in Seq(Record) /\ Len(data) = Len(d)
        /\ \A i \in 1 .. Len(d) : data[i] = IF i = Len(d) THEN torn ELSE d[i]
    BY <2>1, <2>3, <2>4, ExceptSeq
  <2>6. \A i \in 1 .. Len(d) :
          d[i].block = c[i].block /\ d[i].size = c[i].size /\ (d[i].whole => c[i].whole)
    BY DEF PartOf
  <2>7. Len(data) <= Len(c)
    BY <2>5 DEF PartOf
  <2>8. QED
    BY <2>3, <2>5, <2>6, <2>7 DEF PartOf
<1>3. QED
  BY <1>1, <1>2 DEF Torn

\* What flushing data does to the open file, and to no other.
FlushedWith(data) ==
  /\ DOMAIN files' = DOMAIN files
  /\ \A f \in DOMAIN files : f # fd => files'[f] = files[f]
  /\ files[fd] \in Seq(Record) /\ data \in Seq(Record) /\ files'[fd] \in Seq(Record)
  /\ files'[fd] = files[fd] \o data
  /\ Len(files'[fd]) = Len(files[fd]) + Len(data)
  /\ \A i \in 1 .. Len(files[fd]) : files'[fd][i] = files[fd][i]
  /\ \A i \in 1 .. Len(files'[fd]) :
       i > Len(files[fd]) => /\ i - Len(files[fd]) \in 1 .. Len(data)
                             /\ files'[fd][i] = data[i - Len(files[fd])]

LEMMA FlushGrows ==
  ASSUME NEW data \in Seq(Record), fd \in DOMAIN files, files[fd] \in Seq(Record),
         files' = Flushed(data)
  PROVE  FlushedWith(data)
<1>1. files' = [f \in DOMAIN files |-> IF f = fd THEN files[fd] \o data ELSE files[f]]
  BY DEF Flushed
<1>2. /\ files[fd] \o data \in Seq(Record)
      /\ Len(files[fd] \o data) = Len(files[fd]) + Len(data)
      /\ \A i \in 1 .. Len(files[fd]) + Len(data) :
           (files[fd] \o data)[i] = IF i <= Len(files[fd]) THEN files[fd][i]
                                    ELSE data[i - Len(files[fd])]
  OBVIOUS
<1>3. Len(files[fd]) \in Nat /\ Len(data) \in Nat
  OBVIOUS
<1>4. QED
  BY <1>1, <1>2, <1>3 DEF FlushedWith

\* A part of the cache reaches the open file, and the rest of it is gone.
Flushes ==
  /\ fd \in DOMAIN files /\ cache' = <<>>
  /\ \E data : PartOf(data, cache) /\ FlushedWith(data)

\* A file is made.
Makes ==
  /\ at \in {"file", "roll"} /\ fd = NoFile /\ cache' = cache
  /\ <<dirId, fileId>> \notin DOMAIN files
  /\ DOMAIN files' = DOMAIN files \cup {<<dirId, fileId>>}
  /\ files'[<<dirId, fileId>>] = <<>>
  /\ \A f \in DOMAIN files : files'[f] = files[f]

LEMMA Opened ==
  ASSUME TypeInv, at \in {"file", "roll"}, fd = NoFile, cache' = cache, OpenFile_Ok
  PROVE  Makes
<1>1. \A f \in DOMAIN files : f \in dirs \X (0 .. MaxBlocks)
  BY DEF TypeInv, TypeOK
<1>2. <<dirId, fileId>> \notin DOMAIN files
  <2>1. dirId \in Int /\ fileId \in Int
    BY DEF TypeInv, TypeOK
  <2>2. ~CL!Precedes(passed, dirId, dirId)
    BY <2>1 DEF CL!Precedes
  <2>3. \A f \in DOMAIN files :
          CL!Precedes(passed, f[1], dirId) \/ (f[1] = dirId /\ f[2] < fileId)
    BY DEF TypeInv, NextIsNew, Writing
  <2>4. <<dirId, fileId>>[1] = dirId /\ <<dirId, fileId>>[2] = fileId
    OBVIOUS
  <2>5. QED
    BY <2>1, <2>2, <2>3, <2>4
<1>3. QED
  BY <1>2 DEF OpenFile_Ok, Creat, Makes

LEMMA Synchronised ==
  ASSUME TypeInv, Fsync
  PROVE  UNCHANGED <<files, cache>> \/ Flushes
<1>1. cache \in Seq(Record) /\ (fd # NoFile => fd \in DOMAIN files /\ files[fd] \in Seq(Record))
  BY DEF TypeInv, TypeOK
<1>2. CASE fd = NoFile
  BY <1>2 DEF Fsync, TypeInv, OpenFile
<1>3. CASE fd # NoFile /\ files' = Flushed(cache) /\ cache' = <<>>
  <2>1. PartOf(cache, cache)
    BY <1>1 DEF PartOf
  <2>2. FlushedWith(cache)
    BY <1>1, <1>3, FlushGrows
  <2>3. QED
    BY <1>1, <1>3, <2>1, <2>2 DEF Flushes
<1>4. QED
  BY <1>2, <1>3 DEF Fsync

LEMMA Closed ==
  ASSUME TypeInv, CloseFile
  PROVE  Flushes
<1>1. cache \in Seq(Record) /\ fd \in DOMAIN files /\ files[fd] \in Seq(Record)
  BY DEF TypeInv, TypeOK, CloseFile
<1>2. PICK n \in 0 .. Len(cache) : files' = Flushed(SubSeq(cache, 1, n))
  BY <1>1 DEF CloseFile
<1>3. PartOf(SubSeq(cache, 1, n), cache)
  BY <1>1, BeginningIsPart
<1>4. FlushedWith(SubSeq(cache, 1, n))
  BY <1>1, <1>2, <1>3, FlushGrows DEF PartOf
<1>5. QED
  BY <1>1, <1>3, <1>4 DEF Flushes, CloseFile

LEMMA PowerLost ==
  ASSUME TypeInv, PowerLoss
  PROVE  UNCHANGED <<files, cache>> \/ Flushes
<1>1. CASE fd = NoFile
  BY <1>1 DEF PowerLoss, TypeInv, OpenFile
<1>2. CASE fd # NoFile
  <2>1. cache \in Seq(Record) /\ fd \in DOMAIN files /\ files[fd] \in Seq(Record)
    BY <1>2 DEF TypeInv, TypeOK
  <2>2. PICK n \in 0 .. Len(cache) :
          \E data \in Torn(SubSeq(cache, 1, n)) : files' = Flushed(data)
    BY <1>2 DEF PowerLoss
  <2>3. PICK data \in Torn(SubSeq(cache, 1, n)) : files' = Flushed(data)
    BY <2>2
  <2>4. PartOf(data, cache)
    BY <2>1, <2>2, <2>3, BeginningIsPart, TornIsPart
  <2>5. FlushedWith(data)
    BY <2>1, <2>3, <2>4, FlushGrows DEF PartOf
  <2>6. QED
    BY <2>1, <2>4, <2>5 DEF Flushes, PowerLoss
<1>3. QED
  BY <1>1, <1>2

-----------------------------------------------------------------------------
(* Type correctness, and where the next file goes *)

LEMMA FilesKeepTypes ==
  ASSUME TypeInv, UNCHANGED <<files, cache>> \/ Flushes
  PROVE  /\ DOMAIN files' = DOMAIN files
         /\ \A f \in DOMAIN files' : files'[f] \in Seq(Record)
         /\ cache' \in {cache, <<>>} /\ cache' \in Seq(Record)
<1>1. cache \in Seq(Record) /\ \A f \in DOMAIN files : files[f] \in Seq(Record)
  BY DEF TypeInv, TypeOK
<1>2. CASE UNCHANGED <<files, cache>>
  BY <1>1, <1>2
<1>3. CASE Flushes
  <2>1. PICK data : FlushedWith(data)
    BY <1>3 DEF Flushes
  <2>2. \A f \in DOMAIN files' : files'[f] \in Seq(Record)
    BY <1>1, <2>1 DEF FlushedWith
  <2>3. cache' = <<>> /\ <<>> \in Seq(Record)
    BY <1>3 DEF Flushes
  <2>4. QED
    BY <2>1, <2>2, <2>3 DEF FlushedWith
<1>4. QED
  BY <1>2, <1>3

LEMMA TypeInvInit == Init => TypeInv
<1> USE LoggingWriterAssumption
<1>1. Init => TypeOK
  BY DEF Init, TypeOK, At, NoFile
<1>2. Init => GapsArePassed /\ OpenFile /\ NextIsNew /\ FilesFollowBlocks
  BY DEF Init, GapsArePassed, OpenFile, NextIsNew, FilesFollowBlocks, Writing
<1>3. QED
  BY <1>1, <1>2 DEF TypeInv

LEMMA InitializeTypes ==
  ASSUME TypeInv, Initialize \/ CreateTopDir
  PROVE  TypeInv'
<1> USE LoggingWriterAssumption DEF card, caller, position, Writing
<1>1. fd = NoFile /\ fd' = NoFile /\ UNCHANGED <<dirs, files, cache, block, acked, atRisk, passed>>
      /\ at' \in {"topDir", "dir", "failed"}
  BY DEF Initialize, CreateTopDir, TypeInv, OpenFile
<1>2. TypeOK'
  <2>1. CASE Initialize
    BY <2>1, <1>1 DEF Initialize, TypeInv, TypeOK, At
  <2>2. CASE CreateTopDir
    BY <2>2, <1>1 DEF CreateTopDir, TypeInv, TypeOK, At
  <2>3. QED
    BY <2>1, <2>2
<1>3. GapsArePassed' /\ OpenFile' /\ FilesFollowBlocks'
  BY <1>1 DEF TypeInv, GapsArePassed, OpenFile, FilesFollowBlocks
<1>4. NextIsNew'
  BY <1>1 DEF TypeInv, NextIsNew, Initialize, CreateTopDir
<1>5. QED
  BY <1>2, <1>3, <1>4 DEF TypeInv

\* What CreateDir does to the directories.
NoneMade == dirs' = dirs /\ passed' = passed /\ at' = "failed" /\ dirId' \in 0 .. NumDirs - 1

Made(failing) ==
  /\ dirId' \in 0 .. NumDirs - 1 /\ dirId' \notin dirs
  /\ 0 .. dirId' - 1 \subseteq dirs \cup failing
  /\ dirs' = dirs \cup {dirId'} /\ at' = "file"
  /\ passed' = passed \cup PassedOver(failing, dirId')

LEMMA DirCreated ==
  ASSUME TypeInv, CreateDir
  PROVE  NoneMade \/ \E failing \in SUBSET (0 .. NumDirs - 1) : Made(failing)
<1>1. PICK failing \in SUBSET (0 .. NumDirs - 1) :
        MakeDir(FirstFree(NumDirs, failing), failing)
  BY DEF CreateDir, Failing
<1>2. dirId \in 0 .. NumDirs - 1
  BY DEF TypeInv, TypeOK
<1>3. \A d \in FirstFree(NumDirs, failing) :
        d \in 0 .. NumDirs - 1 /\ d \notin dirs /\ 0 .. d - 1 \subseteq dirs \cup failing
  BY DEF FirstFree
<1>4. CASE at' = "failed"
  BY <1>1, <1>2, <1>3, <1>4 DEF MakeDir, NoneMade
<1>5. CASE at' # "failed"
  BY <1>1, <1>3, <1>5 DEF MakeDir, Made
<1>6. QED
  BY <1>4, <1>5

\* Whoever is passed over, or passes over, holds no file yet.
LEMMA PassedAreNew ==
  ASSUME TypeInv, NEW failing \in SUBSET (0 .. NumDirs - 1), Made(failing),
         NEW x, NEW d, <<x, d>> \in passed', <<x, d>> \notin passed
  PROVE  x \notin dirs /\ d = dirId' /\ d \notin dirs
BY DEF Made, PassedOver

\* A new directory comes behind all others.
LEMMA NewIsLast ==
  ASSUME TypeInv, NEW failing \in SUBSET (0 .. NumDirs - 1), Made(failing)
  PROVE  GapsArePassed' /\ \A e \in dirs : CL!Precedes(passed', e, dirId')
<1> USE LoggingWriterAssumption
<1>1. dirs \subseteq Nat /\ dirId' \in Nat
  BY DEF TypeInv, TypeOK, Made
<1>2. ASSUME NEW e \in dirs', NEW x \in (0 .. e - 1) \ dirs' PROVE <<x, e>> \in passed'
  <2>1. CASE e \in dirs
    BY <1>2, <2>1 DEF Made, TypeInv, GapsArePassed
  <2>2. CASE e = dirId'
    <3>1. x \in 0 .. dirId' - 1 /\ x \notin dirs
      BY <1>2, <2>2 DEF Made
    <3>2. x \in failing /\ x < dirId'
      <4>1. 0 .. dirId' - 1 \subseteq dirs \cup failing
        BY DEF Made
      <4>2. x \in failing
        BY <3>1, <4>1, Zenon
      <4>3. \A m \in Nat : \A n \in 0 .. m - 1 : n < m
        OBVIOUS
      <4>4. x < dirId'
        BY <1>1, <3>1, <4>3, Zenon
      <4>5. QED
        BY <4>2, <4>4
    <3>3. <<x, e>> \in PassedOver(failing, dirId')
      BY <2>2, <3>1, <3>2 DEF PassedOver
    <3>4. QED
      BY <3>3 DEF Made
  <2>3. QED
    BY <1>2, <2>1, <2>2 DEF Made
<1>3. ASSUME NEW e \in dirs PROVE CL!Precedes(passed', e, dirId')
  <2>1. CASE e < dirId'
    <3>1. <<e, dirId'>> \notin passed
      BY DEF TypeInv, TypeOK, Made
    <3>2. <<e, dirId'>> \notin passed'
      BY <3>1, PassedAreNew
    <3>3. QED
      BY <2>1, <3>2 DEF CL!Precedes
  <2>2. CASE dirId' < e
    <3>1. dirId' \in (0 .. e - 1) \ dirs
      BY <1>1, <2>2 DEF Made
    <3>2. <<dirId', e>> \in passed'
      BY <3>1 DEF Made, TypeInv, GapsArePassed
    <3>3. QED
      BY <2>2, <3>2 DEF CL!Precedes
  <2>3. QED
    BY <1>1, <2>1, <2>2 DEF Made
<1>4. QED
  BY <1>2, <1>3 DEF GapsArePassed

LEMMA CreateDirTypes == ASSUME TypeInv, CreateDir PROVE TypeInv'
<1> USE LoggingWriterAssumption DEF card, caller, position, Writing
<1>1. /\ at = "dir" /\ fd = NoFile /\ fileId = 0
      /\ UNCHANGED <<topDir, files, fileId, fileSize, fd, cache, block, acked, atRisk, boots>>
  BY DEF CreateDir, MakeDir, TypeInv, OpenFile, NextIsNew
<1>2. CASE NoneMade
  <2>1. TypeOK'
    BY <1>1, <1>2 DEF NoneMade, TypeInv, TypeOK, At
  <2>2. OpenFile' /\ FilesFollowBlocks' /\ GapsArePassed' /\ NextIsNew'
    BY <1>1, <1>2
    DEF NoneMade, TypeInv, OpenFile, FilesFollowBlocks, GapsArePassed, NextIsNew
  <2>3. QED
    BY <2>1, <2>2 DEF TypeInv
<1>3. ASSUME NEW failing \in SUBSET (0 .. NumDirs - 1), Made(failing) PROVE TypeInv'
  <2>1. dirs' \subseteq 0 .. NumDirs - 1 /\ dirId' \in dirs' /\ at' = "file" /\ at' \in At
    BY <1>3 DEF Made, TypeInv, TypeOK, At
  <2>2. passed' \subseteq (0 .. NumDirs - 1) \X dirs'
    BY <1>3 DEF Made, PassedOver, TypeInv, TypeOK
  <2>3. DOMAIN files' \subseteq dirs' \X (0 .. MaxBlocks)
    BY <1>1, <1>3 DEF Made, TypeInv, TypeOK
  <2>4. TypeOK'
    BY <1>1, <2>1, <2>2, <2>3 DEF TypeInv, TypeOK
  <2>5. OpenFile' /\ FilesFollowBlocks'
    BY <1>1, <2>1 DEF TypeInv, OpenFile, FilesFollowBlocks
  <2>6. GapsArePassed' /\ \A f \in DOMAIN files' : CL!Precedes(passed', f[1], dirId')
    <3>1. \A f \in DOMAIN files' : f[1] \in dirs
      BY <1>1 DEF TypeInv, TypeOK
    <3>2. QED
      BY <1>3, <3>1, NewIsLast
  <2>7. NextIsNew'
    BY <1>1, <2>1, <2>6 DEF NextIsNew
  <2>8. QED
    BY <2>4, <2>5, <2>6, <2>7 DEF TypeInv
<1>4. QED
  BY <1>2, <1>3, DirCreated

LEMMA OpenTypes == ASSUME TypeInv, OpenFirst \/ Roll_Open PROVE TypeInv'
<1> USE LoggingWriterAssumption DEF card, caller, position, Writing
<1>1. /\ at \in {"file", "roll"} /\ fd = NoFile /\ dirId \in dirs
      /\ UNCHANGED <<topDir, dirs, dirId, cache, block, acked, atRisk, boots, passed>>
      /\ fileId \in 0 .. block
  BY DEF OpenFirst, Roll_Open, TypeInv, TypeOK, OpenFile, NextIsNew, FilesFollowBlocks
<1>2. CASE OpenFile_Error
  <2>1. UNCHANGED <<files, fileId, fileSize, fd>> /\ at' \in {"failed", "idle"}
        /\ (at' = "idle" => at = "roll")
    BY <1>1, <1>2 DEF OpenFile_Error, OpenFirst, Roll_Open, OpenFile_Ok, Creat, NoFile, TypeInv, TypeOK
  <2>2. TypeOK'
    BY <1>1, <2>1 DEF TypeInv, TypeOK, At
  <2>3. GapsArePassed' /\ OpenFile' /\ FilesFollowBlocks'
    BY <1>1, <2>1 DEF TypeInv, TypeOK, GapsArePassed, OpenFile, FilesFollowBlocks
  <2>4. NextIsNew'
    BY <1>1, <2>1 DEF TypeInv, NextIsNew
  <2>5. QED
    BY <2>2, <2>3, <2>4 DEF TypeInv
<1>3. CASE OpenFile_Ok
  <2>1. Makes
    BY <1>1, <1>3, Opened
  <2>2. /\ fd' = <<dirId, fileId>> /\ fileId' = fileId + 1 /\ fileSize' = 0 /\ at' = "idle"
    BY <1>1, <1>3 DEF OpenFile_Ok, Creat, OpenFirst, Roll_Open, OpenFile_Error, NoFile,
       TypeInv, TypeOK
  <2>3. /\ DOMAIN files' \subseteq dirs' \X (0 .. MaxBlocks)
        /\ \A f \in DOMAIN files' : files'[f] \in Seq(Record)
    <3>1. <<dirId, fileId>> \in dirs \X (0 .. MaxBlocks)
      BY <1>1 DEF TypeInv, TypeOK
    <3>2. <<>> \in Seq(Record)
      OBVIOUS
    <3>3. DOMAIN files \subseteq dirs \X (0 .. MaxBlocks)
          /\ \A f \in DOMAIN files : files[f] \in Seq(Record)
      BY DEF TypeInv, TypeOK
    <3>4. QED
      BY <1>1, <2>1, <3>1, <3>2, <3>3 DEF Makes
  <2>4. TypeOK'
    BY <1>1, <2>1, <2>2, <2>3 DEF TypeInv, TypeOK, At, Makes
  <2>5. OpenFile' /\ GapsArePassed' /\ FilesFollowBlocks'
    BY <1>1, <2>2 DEF TypeInv, TypeOK, GapsArePassed, OpenFile, FilesFollowBlocks, NoFile
  <2>6. NextIsNew'
    <3>1. ASSUME NEW f \in DOMAIN files'
          PROVE  \/ CL!Precedes(passed', f[1], dirId')
                 \/ f[1] = dirId' /\ f[2] < fileId'
      <4>1. CASE f = <<dirId, fileId>>
        BY <1>1, <2>2, <4>1
      <4>2. CASE f \in DOMAIN files
        BY <1>1, <2>2, <4>2 DEF TypeInv, NextIsNew, TypeOK
      <4>3. QED
        BY <2>1, <4>1, <4>2 DEF Makes
    <3>2. QED
      BY <1>1, <2>2, <3>1 DEF NextIsNew
  <2>7. QED
    BY <2>4, <2>5, <2>6 DEF TypeInv
<1>4. QED
  BY <1>2, <1>3 DEF OpenFirst, Roll_Open

LEMMA WriteTypes ==
  ASSUME TypeInv, NEW size \in BlockSizes, Write(size)
  PROVE  TypeInv'
<1> USE LoggingWriterAssumption DEF card, caller, position, Writing
<1>1. /\ at = "idle" /\ at' = "sync" /\ block' = block + 1 /\ block' \in 1 .. MaxBlocks
      /\ UNCHANGED <<card, position, fd, acked, atRisk, boots, passed>>
  BY DEF Write, TypeInv, TypeOK
<1>2. /\ cache' \in Seq(Record)
      /\ fd = NoFile => cache' = cache
  <2>1. \A w \in BOOLEAN : [block |-> block', size |-> size, whole |-> w] \in Record
    BY <1>1 DEF Record
  <2>2. cache \in Seq(Record)
    BY DEF TypeInv, TypeOK
  <2>3. \A w \in BOOLEAN :
          Append(cache, [block |-> block', size |-> size, whole |-> w]) \in Seq(Record)
    BY <2>1, <2>2
  <2>4. QED
    BY <2>2, <2>3 DEF Write
<1>3. TypeOK'
  <2>1. acked' \subseteq 1 .. block'
    BY <1>1 DEF TypeInv, TypeOK
  <2>2. QED
    BY <1>1, <1>2, <2>1 DEF TypeInv, TypeOK, At
<1>4. GapsArePassed' /\ OpenFile' /\ NextIsNew' /\ FilesFollowBlocks'
  BY <1>1, <1>2 DEF TypeInv, TypeOK, GapsArePassed, OpenFile, NextIsNew, FilesFollowBlocks
<1>5. QED
  BY <1>3, <1>4 DEF TypeInv

LEMMA SyncTypes == ASSUME TypeInv, Write_Error \/ Write_Ok PROVE TypeInv'
<1> USE LoggingWriterAssumption DEF card, caller, position, Writing
<1>1. /\ at = "sync" /\ at' \in {"idle", "roll"}
      /\ UNCHANGED <<topDir, dirs, dirId, fileId, fd, block, boots, passed>>
  BY DEF Write_Error, Write_Ok, Counted
<1>2. Fsync
  BY DEF Write_Error, Write_Ok, Counted
<1>3. /\ DOMAIN files' = DOMAIN files
      /\ \A f \in DOMAIN files' : files'[f] \in Seq(Record)
      /\ cache' \in {cache, <<>>} /\ cache' \in Seq(Record)
  BY <1>2, Synchronised, FilesKeepTypes
<1>4. TypeOK'
  <2>1. fileSize' \in Nat /\ atRisk' \subseteq acked' /\ acked' \subseteq 1 .. block'
    <3>1. CASE Write_Error
      BY <3>1 DEF Write_Error, TypeInv, TypeOK
    <3>2. CASE Write_Ok
      <4>1. Last(cache) \in Record /\ Last(cache).block = block
        BY <3>2 DEF Write_Ok, Counted, Complete, Last, TypeInv, TypeOK
      <4>2. Last(cache).size \in Nat /\ block \in 1 .. block
        <5>1. PICK r \in Record : r = Last(cache)
          BY <4>1
        <5>2. r.size \in Nat /\ r.block \in 1 .. MaxBlocks
          BY DEF Record
        <5>3. block = r.block
          BY <4>1, <5>1
        <5>4. block \in 1 .. block
          BY <5>2, <5>3
        <5>5. QED
          BY <5>1, <5>2, <5>4
      <4>3. fileSize' \in Nat
        BY <3>2, <4>2 DEF Write_Ok, Counted, TypeInv, TypeOK
      <4>4. atRisk' \subseteq acked' /\ acked' \subseteq 1 .. block'
        BY <1>1, <3>2, <4>2 DEF Write_Ok, Counted, TypeInv, TypeOK
      <4>5. QED
        BY <4>3, <4>4
    <3>3. QED
      BY <3>1, <3>2
  <2>2. QED
    BY <1>1, <1>3, <2>1 DEF TypeInv, TypeOK, At
<1>5. GapsArePassed' /\ OpenFile' /\ NextIsNew' /\ FilesFollowBlocks'
  BY <1>1, <1>3 DEF TypeInv, TypeOK, GapsArePassed, OpenFile, NextIsNew, FilesFollowBlocks
<1>6. QED
  BY <1>4, <1>5 DEF TypeInv

LEMMA CloseTypes ==
  ASSUME TypeInv, Roll_Close \/ Close \/ PowerLoss
  PROVE  TypeInv'
<1> USE LoggingWriterAssumption DEF card, caller, position, Writing
<1>1. /\ fd' = NoFile
      /\ (at' = at /\ at = "roll") \/ at' \in {"closed", "off"}
      /\ UNCHANGED <<topDir, dirs, dirId, fileId, fileSize, block, acked, atRisk, boots, passed>>
  BY DEF Roll_Close, Close, PowerLoss, CloseFile
<1>2. UNCHANGED <<files, cache>> \/ Flushes
  BY Closed, PowerLost DEF Roll_Close, Close
<1>3. /\ DOMAIN files' = DOMAIN files
      /\ \A f \in DOMAIN files' : files'[f] \in Seq(Record)
      /\ cache' \in {cache, <<>>} /\ cache' \in Seq(Record)
  BY <1>2, FilesKeepTypes
<1>4. cache' = <<>>
  BY DEF Roll_Close, Close, PowerLoss, CloseFile, TypeInv, OpenFile
<1>5. TypeOK'
  BY <1>1, <1>3 DEF TypeInv, TypeOK, At
<1>6. GapsArePassed' /\ OpenFile' /\ NextIsNew' /\ FilesFollowBlocks'
  BY <1>1, <1>3, <1>4
     DEF TypeInv, TypeOK, GapsArePassed, OpenFile, NextIsNew, FilesFollowBlocks
<1>7. QED
  BY <1>5, <1>6 DEF TypeInv

LEMMA TypeInvStep == TypeInv /\ [Next]_vars => TypeInv'
<1> SUFFICES ASSUME TypeInv, [Next]_vars PROVE TypeInv'
  OBVIOUS
<1>1. CASE UNCHANGED vars
  BY <1>1 DEF vars, card, caller, position, TypeInv, TypeOK, GapsArePassed, OpenFile, NextIsNew,
     FilesFollowBlocks
<1>2. QED
  BY <1>1, InitializeTypes, CreateDirTypes, OpenTypes, WriteTypes, SyncTypes, CloseTypes
     DEF Next

LEMMA TypeInvariant == Spec => []TypeInv
BY TypeInvInit, TypeInvStep, PTL DEF Spec

(***************************************************************************)
(* Type correctness: every file is in a directory the writer has made, and *)
(* what is open is on the card (Logging_Writer.c:63-115).                  *)
(***************************************************************************)
THEOREM TypeCorrect == Spec => []TypeOK
<1>1. TypeInv => TypeOK
  BY DEF TypeInv
<1>2. QED
  BY <1>1, TypeInvariant, PTL

-----------------------------------------------------------------------------
(* Files only grow *)

\* The steps, by what they do to the files and the cache.
LEMMA Moves ==
  ASSUME TypeInv, [Next]_vars
  PROVE  \/ UNCHANGED <<files, cache, block>>
         \/ Flushes /\ block' = block
         \/ Makes /\ block' = block
         \/ \E size \in BlockSizes : Write(size)
<1> USE DEF card, caller, position
<1>1. CASE Initialize \/ CreateTopDir \/ CreateDir \/ UNCHANGED vars
  BY <1>1 DEF Initialize, CreateTopDir, CreateDir, MakeDir, vars
<1>2. CASE OpenFirst \/ Roll_Open
  <2>1. at \in {"file", "roll"} /\ fd = NoFile /\ cache' = cache /\ block' = block
    BY <1>2 DEF OpenFirst, Roll_Open, TypeInv, OpenFile, Writing
  <2>2. QED
    BY <1>2, <2>1, Opened DEF OpenFirst, Roll_Open, OpenFile_Error
<1>3. CASE Write_Error \/ Write_Ok
  BY <1>3, Synchronised DEF Write_Error, Write_Ok, Counted
<1>4. CASE Roll_Close \/ Close \/ PowerLoss
  <2>1. block' = block
    BY <1>4 DEF Roll_Close, Close, PowerLoss
  <2>2. UNCHANGED <<files, cache>> \/ Flushes
    BY <1>4, Closed, PowerLost DEF Roll_Close, Close
  <2>3. QED
    BY <2>1, <2>2
<1>5. QED
  BY <1>1, <1>2, <1>3, <1>4 DEF Next

LEMMA FilesGrow ==
  ASSUME TypeInv, [Next]_vars, NEW f \in DOMAIN files
  PROVE  /\ f \in DOMAIN files'
         /\ files[f] \in Seq(Record) /\ files'[f] \in Seq(Record)
         /\ Len(files[f]) <= Len(files'[f])
         /\ \A i \in 1 .. Len(files[f]) : files'[f][i] = files[f][i]
<1>1. /\ files[f] \in Seq(Record) /\ Len(files[f]) \in Nat
  BY DEF TypeInv, TypeOK
<1>2. CASE UNCHANGED files
  BY <1>1, <1>2
<1>3. CASE Flushes
  <2>1. PICK data : PartOf(data, cache) /\ FlushedWith(data)
    BY <1>3 DEF Flushes
  <2>2. CASE f = fd
    <3>1. Len(data) \in Nat
      BY <2>1, Records DEF FlushedWith
    <3>2. Len(files'[fd]) = Len(files[fd]) + Len(data)
      BY <2>1 DEF FlushedWith
    <3>3. Len(files[fd]) <= Len(files'[fd])
      BY <1>1, <2>2, <3>1, <3>2
    <3>4. QED
      BY <1>1, <2>1, <2>2, <3>3 DEF FlushedWith
  <2>3. CASE f # fd
    BY <1>1, <2>1, <2>3 DEF FlushedWith
  <2>4. QED
    BY <2>2, <2>3
<1>4. CASE Makes
  BY <1>1, <1>4 DEF Makes
<1>5. QED
  BY <1>2, <1>3, <1>4, Moves DEF Write, card

(***************************************************************************)
(* No file on the card is ever truncated or rewritten: CreateDir takes a   *)
(* directory that was not there, and OpenFile a number not used in it      *)
(* (Logging_Writer.c:71-79, 105-112).                                      *)
(***************************************************************************)
THEOREM FilesOnlyGrow == Spec => AppendOnly
<1>1. ASSUME TypeInv, [Next]_vars
      PROVE  \A f \in DOMAIN files : f \in DOMAIN files' /\ IsPrefix(files[f], files'[f])
  <2> SUFFICES ASSUME NEW f \in DOMAIN files
               PROVE  f \in DOMAIN files' /\ IsPrefix(files[f], files'[f])
    OBVIOUS
  <2>1. /\ f \in DOMAIN files'
        /\ files[f] \in Seq(Record) /\ files'[f] \in Seq(Record)
        /\ Len(files[f]) <= Len(files'[f])
        /\ \A i \in 1 .. Len(files[f]) : files'[f][i] = files[f][i]
    BY <1>1, FilesGrow
  <2>2. SubSeq(files[f], 1, Len(files[f])) = SubSeq(files'[f], 1, Len(files[f]))
    BY <2>1
  <2>3. QED
    BY <2>1, <2>2 DEF IsPrefix
<1>2. QED
  BY <1>1, TypeInvariant, PTL DEF Spec, AppendOnly

-----------------------------------------------------------------------------
(* Blocks stand in order, and what was acknowledged stays *)

\* After a flush a record was there before, or comes from the cache.
LEMMA FlushedRecords ==
  ASSUME TypeInv, Flushes, NEW f \in DOMAIN files', NEW i \in DOMAIN files'[f]
  PROVE  \/ i \in DOMAIN files[f] /\ files'[f][i] = files[f][i]
         \/ /\ f = fd /\ i > Len(files[fd]) /\ i - Len(files[fd]) \in DOMAIN cache
            /\ files'[f][i].block = cache[i - Len(files[fd])].block
<1>1. PICK data : PartOf(data, cache) /\ FlushedWith(data)
  BY DEF Flushes
<1>2. CASE f # fd
  BY <1>1, <1>2 DEF FlushedWith
<1>3. CASE f = fd
  <2>1. /\ files[fd] \in Seq(Record) /\ files'[fd] \in Seq(Record) /\ cache \in Seq(Record)
        /\ Len(data) <= Len(cache) /\ data \in Seq(Record)
    BY <1>1 DEF FlushedWith, PartOf, TypeInv, TypeOK
  <2>2. /\ DOMAIN files[fd] = 1 .. Len(files[fd]) /\ DOMAIN cache = 1 .. Len(cache)
        /\ i \in 1 .. Len(files'[fd])
    BY <1>3, <2>1
  <2>3. CASE i <= Len(files[fd])
    BY <1>1, <1>3, <2>2, <2>3 DEF FlushedWith
  <2>4. CASE ~(i <= Len(files[fd]))
    <3>1. i > Len(files[fd])
      <4>1. Len(files[fd]) \in Nat /\ i \in Int
        BY <2>1, <2>2
      <4>2. QED
        BY <2>4, <4>1
    <3>2. /\ i - Len(files[fd]) \in 1 .. Len(data)
          /\ files'[fd][i] = data[i - Len(files[fd])]
      BY <1>1, <2>2, <3>1 DEF FlushedWith
    <3>3. i - Len(files[fd]) \in 1 .. Len(cache)
      BY <2>1, <3>2
    <3>4. QED
      BY <1>1, <1>3, <2>2, <3>1, <3>2, <3>3 DEF PartOf
  <2>5. QED
    BY <2>3, <2>4
<1>4. QED
  BY <1>2, <1>3

LEMMA OrderInit == Init => OrderInv
BY DEF Init, OrderInv, CacheInOrder, CardInOrder, NotYet, Durable

LEMMA CacheStaysInOrder ==
  ASSUME TypeInv, CacheInOrder, [Next]_vars
  PROVE  CacheInOrder'
<1>1. CASE block' = block /\ cache' \in {cache, <<>>}
  BY <1>1 DEF CacheInOrder
<1>2. ASSUME NEW size \in BlockSizes, Write(size) PROVE CacheInOrder'
  <2>1. block \in Nat /\ block' = block + 1 /\ cache \in Seq(Record)
    BY <1>2 DEF Write, TypeInv, TypeOK
  <2>2. CASE cache' = cache
    BY <2>1, <2>2, Records DEF CacheInOrder
  <2>3. ASSUME NEW w \in BOOLEAN,
               cache' = Append(cache, [block |-> block', size |-> size, whole |-> w])
        PROVE  CacheInOrder'
    <3> DEFINE r == [block |-> block', size |-> size, whole |-> w]
    <3>0. cache' = Append(cache, r) /\ r.block = block'
      BY <2>3
    <3> HIDE DEF r
    <3>1. /\ DOMAIN cache = 1 .. Len(cache) /\ DOMAIN cache' = 1 .. Len(cache) + 1
          /\ \A i \in 1 .. Len(cache) : cache'[i] = cache[i]
          /\ cache'[Len(cache) + 1].block = block + 1
      BY <2>1, <3>0
    <3>2. Len(cache) \in Nat /\ \A i \in 1 .. Len(cache) : cache[i].block \in Nat
      BY <2>1, Records
    <3>3. ASSUME NEW j \in DOMAIN cache' PROVE cache'[j].block <= block'
      BY <2>1, <3>1, <3>2, <3>3 DEF CacheInOrder
    <3>4. ASSUME NEW j \in DOMAIN cache', NEW k \in DOMAIN cache', j < k
          PROVE  cache'[j].block < cache'[k].block
      <4>1. j \in 1 .. Len(cache) /\ cache'[j] = cache[j]
        BY <3>1, <3>2, <3>4
      <4>2. CASE k \in 1 .. Len(cache)
        BY <3>1, <3>4, <4>1, <4>2 DEF CacheInOrder
      <4>3. CASE k = Len(cache) + 1
        BY <2>1, <3>1, <3>2, <4>1, <4>3 DEF CacheInOrder
      <4>4. QED
        BY <3>1, <3>2, <4>2, <4>3
    <3>5. QED
      BY <3>3, <3>4 DEF CacheInOrder
  <2>4. QED
    BY <1>2, <2>2, <2>3 DEF Write
<1>3. QED
  BY <1>1, <1>2, Moves DEF Flushes, Makes

\* What is passed over holds no file: files keep the order they are read in.
LEMMA OrderStays ==
  ASSUME TypeInv, [Next]_vars, NEW f \in DOMAIN files, NEW g \in DOMAIN files
  PROVE  Behind(passed', g, f) <=> Behind(passed, g, f)
<1>1. f[1] \in dirs /\ g[1] \in dirs
  BY DEF TypeInv, TypeOK
<1>2. CASE passed' = passed
  BY <1>2
<1>3. CASE CreateDir
  <2>1. CASE NoneMade
    BY <1>2, <2>1 DEF NoneMade
  <2>2. ASSUME NEW failing \in SUBSET (0 .. NumDirs - 1), Made(failing)
        PROVE  Behind(passed', g, f) <=> Behind(passed, g, f)
    <3>1. passed \subseteq passed'
      BY <2>2 DEF Made
    <3>2. /\ <<f[1], g[1]>> \in passed' <=> <<f[1], g[1]>> \in passed
          /\ <<g[1], f[1]>> \in passed' <=> <<g[1], f[1]>> \in passed
      BY <1>1, <2>2, <3>1, PassedAreNew
    <3>3. QED
      BY <3>2 DEF Behind, CL!Precedes
  <2>3. QED
    BY <1>3, <2>1, <2>2, DirCreated
<1>4. QED
  BY <1>2, <1>3 DEF Next, vars, Initialize, CreateTopDir, OpenFirst, Write, Write_Error,
     Write_Ok, Counted, Roll_Close, Roll_Open, Close, PowerLoss

\* The open file is behind every other.
LEMMA LastFile ==
  ASSUME TypeInv, fd \in DOMAIN files, NEW f \in DOMAIN files
  PROVE  ~Behind(passed, f, fd)
<1>1. fd # NoFile
  BY DEF TypeInv, TypeOK, NoFile
<1>2. /\ fd = <<dirId, fileId - 1>> /\ dirId \in Nat /\ fileId \in Nat
  BY <1>1 DEF TypeInv, TypeOK, OpenFile
<1>3. CL!Precedes(passed, f[1], dirId) \/ (f[1] = dirId /\ f[2] < fileId)
  BY <1>1 DEF TypeInv, OpenFile, NextIsNew
<1>4. f[1] \in Int /\ f[2] \in Int
  <2>1. f[1] \in dirs /\ f[2] \in 0 .. MaxBlocks /\ dirs \subseteq 0 .. NumDirs - 1
    BY DEF TypeInv, TypeOK
  <2>2. 0 .. NumDirs - 1 \subseteq Int /\ 0 .. MaxBlocks \subseteq Int
    BY LoggingWriterAssumption
  <2>3. QED
    BY <2>1, <2>2
<1>5. ~CL!Precedes(passed, dirId, f[1]) \/ ~CL!Precedes(passed, f[1], dirId)
  BY <1>2, <1>4 DEF CL!Precedes
<1>6. ~CL!Precedes(passed, dirId, dirId)
  BY <1>2 DEF CL!Precedes
<1>7. fd[1] = dirId /\ fd[2] = fileId - 1
  BY <1>2
<1>8. CASE CL!Precedes(passed, f[1], dirId)
  <2>1. f[1] # dirId /\ ~CL!Precedes(passed, dirId, f[1])
    BY <1>5, <1>6, <1>8
  <2>2. QED
    BY <1>7, <2>1 DEF Behind
<1>9. CASE f[1] = dirId /\ f[2] < fileId
  BY <1>2, <1>4, <1>6, <1>7, <1>9 DEF Behind
<1>10. QED
  BY <1>3, <1>8, <1>9

LEMMA CardStaysInOrder ==
  ASSUME TypeInv, CacheInOrder, CardInOrder, [Next]_vars
  PROVE  CardInOrder'
<1>1. /\ block \in Nat /\ cache \in Seq(Record) /\ DOMAIN cache = 1 .. Len(cache)
      /\ \A i \in DOMAIN cache : cache[i].block \in Nat
  BY Records DEF TypeInv, TypeOK
<1>2. \A f \in DOMAIN files : /\ files[f] \in Seq(Record)
                              /\ \A i \in DOMAIN files[f] : files[f][i].block \in Nat
  BY Records DEF TypeInv, TypeOK
<1>3. CASE UNCHANGED <<files, cache, block>>
  BY <1>3, OrderStays DEF CardInOrder
<1>4. CASE Flushes /\ block' = block
  <2>1. DOMAIN files' = DOMAIN files /\ cache' = <<>> /\ fd \in DOMAIN files
    BY <1>4 DEF Flushes, FlushedWith
  <2> SUFFICES ASSUME NEW f \in DOMAIN files', NEW i \in DOMAIN files'[f]
               PROVE  /\ files'[f][i].block <= block
                      /\ \A j \in DOMAIN files'[f] :
                           i < j => files'[f][i].block < files'[f][j].block
                      /\ \A g \in DOMAIN files' : \A j \in DOMAIN files'[g] :
                           Behind(passed, g, f) => files'[f][i].block < files'[g][j].block
    BY <1>4, <2>1, OrderStays DEF CardInOrder
  <2>2. \A g \in DOMAIN files' : \A j \in DOMAIN files'[g] :
          \/ j \in DOMAIN files[g] /\ files'[g][j] = files[g][j]
          \/ /\ g = fd /\ j > Len(files[fd]) /\ j - Len(files[fd]) \in DOMAIN cache
             /\ files'[g][j].block = cache[j - Len(files[fd])].block
    BY <1>4, FlushedRecords
  <2>3. /\ DOMAIN files[fd] = 1 .. Len(files[fd]) /\ Len(files[fd]) \in Nat
    BY <1>2, <2>1
  <2>4. DOMAIN files'[f] \subseteq Int
    BY <1>4, FilesGrow, <2>1, FilesKeepTypes
  <2>5. CASE i \in DOMAIN files[f] /\ files'[f][i] = files[f][i]
    BY <2>1, <2>2, <2>5 DEF CardInOrder
  <2>6. CASE /\ f = fd /\ i > Len(files[fd]) /\ i - Len(files[fd]) \in DOMAIN cache
             /\ files'[f][i].block = cache[i - Len(files[fd])].block
    <3>1. files'[f][i].block <= block
      BY <2>6 DEF CacheInOrder
    <3>2. ASSUME NEW j \in DOMAIN files'[f], i < j
          PROVE  files'[f][i].block < files'[f][j].block
      <4>1. j \notin DOMAIN files[fd] /\ j \in Int /\ i \in Int
        BY <2>3, <2>4, <2>6, <3>2
      <4>2. /\ j - Len(files[fd]) \in DOMAIN cache
            /\ files'[f][j].block = cache[j - Len(files[fd])].block
        BY <2>2, <2>6, <4>1
      <4>3. i - Len(files[fd]) < j - Len(files[fd])
        BY <2>3, <3>2, <4>1
      <4>4. QED
        BY <2>6, <4>2, <4>3 DEF CacheInOrder
    <3>3. \A g \in DOMAIN files' : ~Behind(passed, g, f)
      BY <2>1, <2>6, LastFile
    <3>4. QED
      BY <3>1, <3>2, <3>3
  <2>7. QED
    BY <2>2, <2>5, <2>6
<1>5. CASE Makes /\ block' = block
  <2>1. \A f \in DOMAIN files' : \A i \in DOMAIN files'[f] :
          f \in DOMAIN files /\ files'[f] = files[f]
    BY <1>5 DEF Makes
  <2>2. cache' = cache
    BY <1>5 DEF Makes
  <2>3. QED
    BY <1>5, <2>1, <2>2, OrderStays DEF CardInOrder
<1>6. ASSUME NEW size \in BlockSizes, Write(size) PROVE CardInOrder'
  <2>1. block' = block + 1 /\ UNCHANGED files
    BY <1>6 DEF Write, card
  <2>2. \A k \in DOMAIN cache' :
          (k \in DOMAIN cache /\ cache'[k] = cache[k]) \/ cache'[k].block = block'
    <3>1. ASSUME NEW w \in BOOLEAN,
                 cache' = Append(cache, [block |-> block', size |-> size, whole |-> w])
          PROVE  \A k \in DOMAIN cache' :
                   (k \in DOMAIN cache /\ cache'[k] = cache[k]) \/ cache'[k].block = block'
      <4> DEFINE r == [block |-> block', size |-> size, whole |-> w]
      <4>1. cache' = Append(cache, r) /\ r.block = block'
        BY <3>1
      <4> HIDE DEF r
      <4>2. QED
        BY <1>1, <4>1
    <3>2. CASE cache' = cache
      BY <3>2
    <3>3. QED
      BY <1>6, <3>1, <3>2 DEF Write
  <2>3. \A f \in DOMAIN files : \A i \in DOMAIN files[f] :
          /\ files[f][i].block < block'
          /\ \A k \in DOMAIN cache' : files[f][i].block < cache'[k].block
    <3> SUFFICES ASSUME NEW f \in DOMAIN files, NEW i \in DOMAIN files[f]
                 PROVE  /\ files[f][i].block < block'
                        /\ \A k \in DOMAIN cache' : files[f][i].block < cache'[k].block
      OBVIOUS
    <3>1. files[f][i].block \in Nat /\ files[f][i].block <= block
      BY <1>2 DEF CardInOrder
    <3>2. files[f][i].block < block'
      BY <1>1, <2>1, <3>1
    <3>3. \A k \in DOMAIN cache : files[f][i].block < cache[k].block
      BY DEF CardInOrder
    <3>4. QED
      BY <2>2, <3>2, <3>3
  <2>4. QED
    BY <1>1, <1>2, <2>1, <2>3, OrderStays DEF CardInOrder
<1>7. QED
  BY <1>3, <1>4, <1>5, <1>6, Moves

LEMMA OnCardGrows == ASSUME TypeInv, [Next]_vars PROVE OnCard \subseteq OnCard'
<1> SUFFICES ASSUME NEW f \in DOMAIN files, NEW i \in DOMAIN files[f], files[f][i].whole
             PROVE  files[f][i].block \in OnCard'
  BY DEF OnCard
<1>1. /\ f \in DOMAIN files'
      /\ files[f] \in Seq(Record) /\ files'[f] \in Seq(Record)
      /\ Len(files[f]) <= Len(files'[f])
      /\ \A k \in 1 .. Len(files[f]) : files'[f][k] = files[f][k]
  BY FilesGrow
<1>2. i \in DOMAIN files'[f] /\ files'[f][i] = files[f][i]
  BY <1>1
<1>3. QED
  BY <1>1, <1>2 DEF OnCard

\* A block whose write and fsync succeeded is on the card, whole.
LEMMA SyncedIsOnCard ==
  ASSUME TypeInv, Write_Ok, cache' = <<>>
  PROVE  \E i \in DOMAIN files'[fd] :
           /\ fd \in DOMAIN files'
           /\ files'[fd][i].block = block /\ files'[fd][i].whole
<1>1. cache # <<>> /\ cache[Len(cache)].block = block /\ cache[Len(cache)].whole
  BY DEF Write_Ok, Counted, Complete, Last
<1>2. fd \in DOMAIN files /\ cache \in Seq(Record) /\ files[fd] \in Seq(Record)
  BY <1>1 DEF TypeInv, TypeOK, OpenFile
<1>3. fd # NoFile
  BY <1>1 DEF TypeInv, OpenFile
<1>4. files' = Flushed(cache)
  BY <1>1, <1>3 DEF Write_Ok, Counted, Fsync
<1>5. FlushedWith(cache)
  BY <1>2, <1>4, FlushGrows
<1>6. Len(cache) \in Nat \ {0} /\ Len(files[fd]) \in Nat
  BY <1>1, <1>2
<1>7. Len(files[fd]) + Len(cache) \in DOMAIN files'[fd]
  BY <1>5, <1>6 DEF FlushedWith
<1>8. files'[fd][Len(files[fd]) + Len(cache)] = cache[Len(cache)]
  BY <1>5, <1>6 DEF FlushedWith
<1>9. QED
  BY <1>1, <1>2, <1>5, <1>7, <1>8 DEF FlushedWith

\* The only step that acknowledges, and what it does to the blocks at risk.
LEMMA Acknowledges ==
  ASSUME TypeInv, NotYet, [Next]_vars
  PROVE  \/ UNCHANGED <<acked, atRisk>>
         \/ /\ Write_Ok /\ block \notin acked /\ acked' = acked \cup {block}
            /\ \/ cache' = <<>> /\ atRisk' = atRisk
               \/ atRisk' = atRisk \cup {block}
<1>1. CASE Write_Ok
  BY <1>1 DEF Write_Ok, Counted, NotYet
<1>2. CASE ~Write_Ok
  BY <1>2 DEF Next, vars, card, caller, position, Initialize, CreateTopDir, CreateDir, MakeDir,
     OpenFirst, Write, Write_Error, Roll_Close, Roll_Open, Close, PowerLoss
<1>3. QED
  BY <1>1, <1>2

LEMMA OrderStep == TypeInv /\ OrderInv /\ [Next]_vars => OrderInv'
<1> SUFFICES ASSUME TypeInv, OrderInv, [Next]_vars PROVE OrderInv'
  OBVIOUS
<1>1. CacheInOrder' /\ CardInOrder'
  BY CacheStaysInOrder, CardStaysInOrder DEF OrderInv
<1>2. NotYet'
  <2>1. block \in Nat /\ acked \subseteq 1 .. block
    BY DEF TypeInv, TypeOK
  <2>2. CASE UNCHANGED vars
    BY <2>2 DEF OrderInv, NotYet, vars, caller
  <2>3. ASSUME NEW size \in BlockSizes, Write(size) PROVE NotYet'
    BY <2>1, <2>3 DEF Write, NotYet
  <2>4. CASE at' # "sync"
    BY <2>4 DEF NotYet
  <2>5. QED
    BY <2>2, <2>3, <2>4 DEF Next, Initialize, CreateTopDir, CreateDir, MakeDir, OpenFirst,
       Write_Error, Write_Ok, Counted, Roll_Close, Roll_Open, Close, PowerLoss
<1>3. Durable'
  <2>1. OnCard \subseteq OnCard'
    BY OnCardGrows
  <2>2. CASE Write_Ok /\ acked' = acked \cup {block} /\ cache' = <<>> /\ atRisk' = atRisk
    <3>1. block \in OnCard'
      BY <2>2, SyncedIsOnCard DEF OnCard
    <3>2. QED
      BY <2>1, <2>2, <3>1 DEF OrderInv, Durable
  <2>3. QED
    BY <2>1, <2>2, Acknowledges DEF OrderInv, Durable
<1>4. QED
  BY <1>1, <1>2, <1>3 DEF OrderInv

LEMMA OrderInvariant == Spec => [](TypeInv /\ OrderInv)
BY TypeInvariant, OrderInit, OrderStep, PTL DEF Spec

(***************************************************************************)
(* A block for which Logging_Writer_Write returned OK is on the card and   *)
(* stays there, through any number of power losses and boots, unless its   *)
(* own fsync failed, which nobody looks at (Logging_Writer.c:170-181).     *)
(***************************************************************************)
THEOREM AcknowledgedIsDurable == Spec => []Durable
<1>1. OrderInv => Durable
  BY DEF OrderInv
<1>2. QED
  BY <1>1, OrderInvariant, PTL

-----------------------------------------------------------------------------
(***************************************************************************)
(* The refinement: the directories and files of all boots are one log.     *)
(***************************************************************************)

\* A place is a position in a file of the card.
PlacesInFiles ==
  /\ DOMAIN Contents = Places
  /\ \A p \in Places : /\ p = <<p[1], p[2], p[3]>>
                       /\ <<p[1], p[2]>> \in DOMAIN files
                       /\ p[3] \in DOMAIN files[<<p[1], p[2]>>]
                       /\ Contents[p] = files[<<p[1], p[2]>>][p[3]]
  /\ \A f \in DOMAIN files : /\ f = <<f[1], f[2]>> /\ f[1] \in Nat /\ f[2] \in Nat
                            /\ files[f] \in Seq(Record)
                            /\ DOMAIN files[f] = 1 .. Len(files[f]) /\ Len(files[f]) \in Nat
                            /\ \A i \in DOMAIN files[f] : <<f[1], f[2], i>> \in Places

LEMMA PlacesAreInFiles == TypeInv => PlacesInFiles
<1> SUFFICES ASSUME TypeInv PROVE PlacesInFiles
  OBVIOUS
<1>1. \A f \in DOMAIN files : /\ f = <<f[1], f[2]>> /\ f[1] \in Nat /\ f[2] \in Nat
                            /\ files[f] \in Seq(Record)
  <2>1. /\ DOMAIN files \subseteq dirs \X (0 .. MaxBlocks) /\ dirs \subseteq 0 .. NumDirs - 1
        /\ \A f \in DOMAIN files : files[f] \in Seq(Record)
    BY DEF TypeInv, TypeOK
  <2>2. 0 .. NumDirs - 1 \subseteq Nat /\ 0 .. MaxBlocks \subseteq Nat
    BY LoggingWriterAssumption
  <2>3. \A f \in dirs \X (0 .. MaxBlocks) :
          f = <<f[1], f[2]>> /\ f[1] \in dirs /\ f[2] \in 0 .. MaxBlocks
    OBVIOUS
  <2>4. QED
    BY <2>1, <2>2, <2>3
<1>2. \A f \in DOMAIN files : DOMAIN files[f] = 1 .. Len(files[f]) /\ Len(files[f]) \in Nat
  BY <1>1, Records
<1>3. \A f \in DOMAIN files : \A i \in DOMAIN files[f] : <<f[1], f[2], i>> \in Places
  BY DEF Places
<1>4. ASSUME NEW p \in Places
      PROVE  /\ p = <<p[1], p[2], p[3]>>
             /\ <<p[1], p[2]>> \in DOMAIN files
             /\ p[3] \in DOMAIN files[<<p[1], p[2]>>]
             /\ Contents[p] = files[<<p[1], p[2]>>][p[3]]
  <2>1. PICK f \in DOMAIN files : \E i \in DOMAIN files[f] : p = <<f[1], f[2], i>>
    BY DEF Places
  <2>2. PICK i \in DOMAIN files[f] : p = <<f[1], f[2], i>>
    BY <2>1
  <2>3. p[1] = f[1] /\ p[2] = f[2] /\ p[3] = i
    BY <2>2
  <2>4. <<p[1], p[2]>> = f
    BY <1>1, <2>3
  <2>5. QED
    BY <2>2, <2>3, <2>4 DEF Contents
<1>5. DOMAIN Contents = Places
  BY DEF Contents
<1>6. QED
  BY <1>1, <1>2, <1>3, <1>4, <1>5 DEF PlacesInFiles

LEMMA LogInit == Init => CL!Init
<1> SUFFICES ASSUME Init PROVE CL!Init
  OBVIOUS
<1>1. Places = {}
  BY DEF Init, Places
<1>2. acked \ atRisk = {}
  BY DEF Init
<1>3. Contents = [p \in {} |-> {}]
  BY <1>1 DEF Contents
<1>4. QED
  BY <1>2, <1>3 DEF Init, CL!Init

\* In every state the card holds a log in order.
LEMMA CardHoldsLog == TypeInv /\ OrderInv => CL!Log(Contents, passed)
<1> SUFFICES ASSUME TypeInv, OrderInv PROVE CL!Log(Contents, passed)
  OBVIOUS
<1>1. PlacesInFiles
  BY PlacesAreInFiles
<1>2. ASSUME NEW p \in Places PROVE p \in CL!Place /\ Contents[p] \in CL!Record
  <2>1. /\ p = <<p[1], p[2], p[3]>> /\ <<p[1], p[2]>> \in DOMAIN files
        /\ p[3] \in DOMAIN files[<<p[1], p[2]>>]
        /\ Contents[p] = files[<<p[1], p[2]>>][p[3]]
    BY <1>1 DEF PlacesInFiles
  <2> DEFINE f == <<p[1], p[2]>>
  <2>2. /\ f[1] \in Nat /\ f[2] \in Nat /\ files[f] \in Seq(Record)
        /\ DOMAIN files[f] = 1 .. Len(files[f]) /\ Len(files[f]) \in Nat
    BY <1>1, <2>1 DEF PlacesInFiles
  <2>3. p[1] \in Nat /\ p[2] \in Nat /\ p[3] \in Nat
    BY <2>1, <2>2
  <2>4. files[f][p[3]] \in Record
    BY <2>1, <2>2
  <2>5. QED
    BY <2>1, <2>3, <2>4 DEF CL!Place, CL!Record, Record
<1>3. ASSUME NEW p \in Places, NEW q \in Places, CL!Before(passed, p, q)
      PROVE  Contents[p].block < Contents[q].block
  <2> DEFINE f == <<p[1], p[2]>>
             g == <<q[1], q[2]>>
  <2>1. /\ f \in DOMAIN files /\ p[3] \in DOMAIN files[f] /\ Contents[p] = files[f][p[3]]
        /\ g \in DOMAIN files /\ q[3] \in DOMAIN files[g] /\ Contents[q] = files[g][q[3]]
    BY <1>1 DEF PlacesInFiles
  <2>2. f[1] = p[1] /\ f[2] = p[2] /\ g[1] = q[1] /\ g[2] = q[2]
    OBVIOUS
  <2>3. Behind(passed, g, f) \/ (f = g /\ p[3] < q[3])
    BY <1>3, <2>2 DEF CL!Before, Behind
  <2>4. CardInOrder
    BY DEF OrderInv
  <2> HIDE DEF f, g
  <2>5. QED
    BY <2>1, <2>3, <2>4 DEF CardInOrder
<1>4. QED
  BY <1>1, <1>2, <1>3 DEF CL!Log, PlacesInFiles

\* What a step adds to the card comes behind all that was there.
LEMMA LogContinues ==
  ASSUME TypeInv, OrderInv, PlacesInFiles, PlacesInFiles', [Next]_vars
  PROVE  CL!Continues(Contents', Contents, passed')
<1>1. ASSUME NEW p \in Places PROVE p \in Places' /\ Contents'[p] = Contents[p]
  <2> DEFINE f == <<p[1], p[2]>>
  <2>1. /\ p = <<p[1], p[2], p[3]>> /\ f \in DOMAIN files
        /\ p[3] \in DOMAIN files[f] /\ Contents[p] = files[f][p[3]]
    BY DEF PlacesInFiles
  <2>2. f[1] = p[1] /\ f[2] = p[2]
    OBVIOUS
  <2> HIDE DEF f
  <2>3. /\ f \in DOMAIN files' /\ files'[f] \in Seq(Record)
        /\ Len(files[f]) <= Len(files'[f])
        /\ \A i \in 1 .. Len(files[f]) : files'[f][i] = files[f][i]
        /\ DOMAIN files[f] = 1 .. Len(files[f]) /\ Len(files[f]) \in Nat
    BY <2>1, FilesGrow, Records
  <2>4. p[3] \in DOMAIN files'[f] /\ files'[f][p[3]] = files[f][p[3]]
    BY <2>1, <2>3
  <2>5. p \in Places'
    BY <2>1, <2>2, <2>3, <2>4 DEF PlacesInFiles
  <2>6. Contents'[p] = files'[<<p[1], p[2]>>][p[3]]
    BY <2>5 DEF PlacesInFiles
  <2>7. QED
    BY <2>1, <2>4, <2>5, <2>6 DEF f
<1>2. ASSUME NEW p \in Places, NEW q \in Places' \ Places PROVE CL!Before(passed', p, q)
  <2> DEFINE f == <<p[1], p[2]>>
             g == <<q[1], q[2]>>
  <2>1. /\ f \in DOMAIN files /\ p[3] \in DOMAIN files[f]
        /\ q = <<q[1], q[2], q[3]>> /\ g \in DOMAIN files' /\ q[3] \in DOMAIN files'[g]
    BY DEF PlacesInFiles
  <2>2. f[1] = p[1] /\ f[2] = p[2] /\ g[1] = q[1] /\ g[2] = q[2]
    OBVIOUS
  <2>3. ~(g \in DOMAIN files /\ q[3] \in DOMAIN files[g])
    BY <2>1 DEF PlacesInFiles
  <2> HIDE DEF f, g
  <2>4. Flushes
    <3>1. CASE UNCHANGED files
      BY <2>1, <2>3, <3>1
    <3>2. CASE Makes
      BY <2>1, <2>3, <3>2 DEF Makes
    <3>3. QED
      BY <3>1, <3>2, Moves DEF Write, card
  <2>5. DOMAIN files' = DOMAIN files /\ fd \in DOMAIN files
    BY <2>4 DEF Flushes, FlushedWith
  <2>6. g = fd /\ q[3] > Len(files[fd])
    BY <2>1, <2>3, <2>4, <2>5, FlushedRecords
  <2>7. ~Behind(passed', f, fd)
    BY <2>1, <2>5, LastFile, OrderStays
  <2>8. /\ f = <<f[1], f[2]>> /\ g = <<g[1], g[2]>>
        /\ f[1] \in Nat /\ f[2] \in Nat /\ g[1] \in Nat /\ g[2] \in Nat
        /\ DOMAIN files[f] = 1 .. Len(files[f]) /\ Len(files[f]) \in Nat
        /\ DOMAIN files'[g] = 1 .. Len(files'[g]) /\ Len(files'[g]) \in Nat
    BY <2>1, <2>5 DEF PlacesInFiles
  <2>9. CASE f = g
    BY <2>1, <2>2, <2>6, <2>8, <2>9 DEF CL!Before
  <2>10. CASE f # g
    <3>1. Behind(passed', g, f)
      BY <2>6, <2>7, <2>8, <2>10 DEF Behind, CL!Precedes
    <3>2. QED
      BY <2>2, <3>1 DEF CL!Before, Behind
  <2>11. QED
    BY <2>9, <2>10
<1>3. DOMAIN Contents = Places /\ DOMAIN Contents' = Places'
  BY DEF PlacesInFiles
<1>4. QED
  BY <1>1, <1>2, <1>3 DEF CL!Continues

\* Whoever is passed over, or passes over, holds nothing.
LEMMA PassedHoldsNothing ==
  ASSUME TypeInv, PlacesInFiles, [Next]_vars
  PROVE  /\ passed \subseteq passed'
         /\ \A pr \in passed' \ passed : CL!PassesOver(pr[1], pr[2])
<1>1. \A p \in Places : p[1] \in dirs
  BY DEF PlacesInFiles, TypeInv, TypeOK
<1>2. CASE passed' = passed
  BY <1>2
<1>3. CASE CreateDir
  <2>1. CASE NoneMade
    BY <1>2, <2>1 DEF NoneMade
  <2>2. ASSUME NEW failing \in SUBSET (0 .. NumDirs - 1), Made(failing)
        PROVE  /\ passed \subseteq passed'
               /\ \A pr \in passed' \ passed : pr[1] \notin dirs /\ pr[2] \notin dirs
    BY <2>2 DEF Made, PassedOver
  <2>3. QED
    BY <1>1, <1>3, <2>1, <2>2, DirCreated DEF CL!PassesOver, PlacesInFiles
<1>4. QED
  BY <1>2, <1>3 DEF Next, vars, Initialize, CreateTopDir, OpenFirst, Write, Write_Error,
     Write_Ok, Counted, Roll_Close, Roll_Open, Close, PowerLoss

LEMMA SafeIsOnCard ==
  ASSUME TypeInv, OrderInv, PlacesInFiles', [Next]_vars
  PROVE  /\ acked \ atRisk \subseteq acked' \ atRisk'
         /\ \A b \in (acked' \ atRisk') \ (acked \ atRisk) :
              \E p \in Places' : Contents'[p].block = b /\ Contents'[p].whole
<1>1. NotYet /\ atRisk \subseteq acked
  BY DEF OrderInv, TypeInv, TypeOK
<1>2. acked \ atRisk \subseteq acked' \ atRisk'
  BY <1>1, Acknowledges
<1>3. ASSUME NEW b \in (acked' \ atRisk') \ (acked \ atRisk)
      PROVE  \E p \in Places' : Contents'[p].block = b /\ Contents'[p].whole
  <2>1. b = block /\ Write_Ok /\ cache' = <<>>
    BY <1>1, <1>3, Acknowledges
  <2>2. PICK i \in DOMAIN files'[fd] :
          fd \in DOMAIN files' /\ files'[fd][i].block = block /\ files'[fd][i].whole
    BY <2>1, SyncedIsOnCard
  <2>3. /\ fd = <<fd[1], fd[2]>> /\ <<fd[1], fd[2], i>> \in Places'
    BY <2>2 DEF PlacesInFiles
  <2> DEFINE p == <<fd[1], fd[2], i>>
  <2>4. p[1] = fd[1] /\ p[2] = fd[2] /\ p[3] = i
    OBVIOUS
  <2>5. Contents'[p] = files'[<<p[1], p[2]>>][p[3]]
    BY <2>3 DEF PlacesInFiles
  <2>6. Contents'[p] = files'[fd][i]
    BY <2>3, <2>4, <2>5
  <2>7. QED
    BY <2>1, <2>2, <2>3, <2>6
<1>4. QED
  BY <1>2, <1>3

(***************************************************************************)
(* Logging_Writer.c implements CardLog: whatever the writer, a boot or a   *)
(* power loss does continues the one log at its end, and a block is        *)
(* acknowledged only when the card has it; a stat that fails and passes    *)
(* over a free number changes the order of the directories, and no other   *)
(* (Logging_Writer.c:57-197).                                              *)
(***************************************************************************)
THEOREM WriterImplementsCardLog == Spec => ImplementsCardLog
<1> DEFINE Inv == TypeInv /\ OrderInv /\ PlacesInFiles /\ CL!Log(Contents, passed)
<1>1. TypeInv /\ OrderInv => Inv
  BY PlacesAreInFiles, CardHoldsLog
<1>2. Spec => []Inv
  BY <1>1, OrderInvariant, PTL
<1>3. Inv /\ Inv' /\ [Next]_vars => [CL!Next]_CL!vars
  <2> SUFFICES ASSUME Inv, Inv', [Next]_vars PROVE CL!Next
    OBVIOUS
  <2>1. CL!Log(Contents', passed')
    BY DEF CL!Log, CL!Place, CL!Record, CL!Before, CL!Precedes
  <2>2. CL!Continues(Contents', Contents, passed')
    BY LogContinues
  <2>3. DOMAIN Contents' = Places'
    BY DEF PlacesInFiles
  <2>4. QED
    BY <2>1, <2>2, <2>3, SafeIsOnCard, PassedHoldsNothing DEF CL!Next
<1> HIDE DEF Inv
<1>4. QED
  BY <1>2, <1>3, LogInit, PTL DEF Spec, ImplementsCardLog, CL!Spec

-----------------------------------------------------------------------------
(* The size of a file.  WholeSize is a sum over a sequence: what it is for *)
(* every sequence follows by taking a least counterexample.                *)

Weight(s, n) == IF s[n].whole THEN s[n].size ELSE 0

\* u[n] is the size of the whole blocks among the first n of s.
SumsTo(u, s, m) ==
  u = [n \in 0 .. m |-> IF n = 0 THEN 0 ELSE u[n - 1] + Weight(s, n)]

LEMMA Weights ==
  ASSUME NEW s \in Seq(Record), NEW n \in 1 .. Len(s)
  PROVE  Weight(s, n) \in Nat
BY Records DEF Weight

LEMMA SumExists ==
  ASSUME NEW s \in Seq(Record)
  PROVE  \E u : SumsTo(u, s, Len(s))
<1> DEFINE Bad == {m \in 0 .. Len(s) : ~ \E u : SumsTo(u, s, m)}
<1>1. Len(s) \in Nat
  BY Records
<1>2. SUFFICES ASSUME Bad # {} PROVE FALSE
  BY <1>1
<1>3. Bad \subseteq Nat
  BY <1>1
<1>4. PICK x \in Bad : \A y \in Bad : x <= y
  BY <1>2, <1>3, Least
<1>5. x # 0
  <2> DEFINE u == [n \in 0 .. 0 |-> 0]
  <2>1. SumsTo(u, s, 0)
    BY DEF SumsTo
  <2>2. QED
    BY <2>1
<1>6. x \in 1 .. Len(s) /\ x - 1 \in 0 .. Len(s) /\ x - 1 \notin Bad
  BY <1>1, <1>4, <1>5
<1>7. PICK v : SumsTo(v, s, x - 1)
  BY <1>6
<1> DEFINE u == [n \in 0 .. x |-> IF n = x THEN v[x - 1] + Weight(s, x) ELSE v[n]]
<1>8. \A n \in 0 .. x : u[n] = IF n = 0 THEN 0 ELSE u[n - 1] + Weight(s, n)
  <2> SUFFICES ASSUME NEW n \in 0 .. x
               PROVE  u[n] = IF n = 0 THEN 0 ELSE u[n - 1] + Weight(s, n)
    OBVIOUS
  <2>1. CASE n = x
    <3>1. u[n] = v[x - 1] + Weight(s, x) /\ u[n - 1] = v[x - 1]
      BY <1>6, <2>1
    <3>2. QED
      BY <1>5, <2>1, <3>1
  <2>2. CASE n # x
    <3>1. n \in 0 .. x - 1 /\ u[n] = v[n]
      BY <1>6, <2>2
    <3>2. v[n] = IF n = 0 THEN 0 ELSE v[n - 1] + Weight(s, n)
      BY <1>7, <3>1 DEF SumsTo
    <3>3. n # 0 => u[n - 1] = v[n - 1]
      BY <1>6, <2>2
    <3>4. QED
      BY <3>1, <3>2, <3>3
  <2>3. QED
    BY <2>1, <2>2
<1>9. SumsTo(u, s, x)
  <2>1. u = [n \in 0 .. x |-> u[n]]
    OBVIOUS
  <2> HIDE DEF u
  <2>2. QED
    BY <1>8, <2>1 DEF SumsTo
<1>10. QED
  BY <1>9

\* The sums, step by step.
Sums(u, s) ==
  /\ u[0] = 0
  /\ \A n \in 1 .. Len(s) : u[n] = u[n - 1] + Weight(s, n)
  /\ \A n \in 0 .. Len(s) : u[n] \in Nat

LEMMA SumsAreNumbers ==
  ASSUME NEW s \in Seq(Record), NEW u, SumsTo(u, s, Len(s))
  PROVE  Sums(u, s)
<1> DEFINE Bad == {n \in 0 .. Len(s) : u[n] \notin Nat}
<1>1. Len(s) \in Nat
  BY Records
<1>2. u[0] = 0 /\ \A n \in 1 .. Len(s) : u[n] = u[n - 1] + Weight(s, n)
  BY <1>1 DEF SumsTo
<1>3. ASSUME Bad # {} PROVE FALSE
  <2>1. Bad \subseteq Nat
    BY <1>1
  <2>2. PICK x \in Bad : \A y \in Bad : x <= y
    BY <1>3, <2>1, Least
  <2>3. x # 0
    BY <1>2
  <2>4. x \in 1 .. Len(s) /\ x - 1 \in 0 .. Len(s) /\ x - 1 \notin Bad
    BY <1>1, <2>2, <2>3
  <2>5. u[x - 1] \in Nat /\ Weight(s, x) \in Nat
    BY <2>4, Weights
  <2>6. QED
    BY <1>2, <2>2, <2>4, <2>5
<1>4. QED
  BY <1>2, <1>3 DEF Sums

LEMMA SizeIsSum ==
  ASSUME NEW s \in Seq(Record)
  PROVE  \E u : Sums(u, s) /\ WholeSize(s) = u[Len(s)]
<1> DEFINE u == CHOOSE v : SumsTo(v, s, Len(s))
<1>1. SumsTo(u, s, Len(s))
  BY SumExists
<1>2. WholeSize(s) = u[Len(s)]
  BY DEF WholeSize, SumsTo, Weight
<1> HIDE DEF u
<1>3. QED
  BY <1>1, <1>2, SumsAreNumbers

\* Where no block weighs more, no sum is larger.
LEMMA SumsCompare ==
  ASSUME NEW s \in Seq(Record), NEW t \in Seq(Record), NEW u, NEW v,
         Sums(u, s), Sums(v, t), NEW m \in 0 .. Len(s), m <= Len(t),
         \A n \in 1 .. m : Weight(s, n) <= Weight(t, n)
  PROVE  u[m] <= v[m]
<1> DEFINE Bad == {n \in 0 .. m : ~(u[n] <= v[n])}
<1>1. Len(s) \in Nat /\ Len(t) \in Nat /\ m \in Nat
  BY Records
<1>2. SUFFICES ASSUME Bad # {} PROVE FALSE
  BY <1>1
<1>3. Bad \subseteq Nat
  BY <1>1
<1>4. PICK x \in Bad : \A y \in Bad : x <= y
  BY <1>2, <1>3, Least
<1>5. x # 0
  BY DEF Sums
<1>6. x \in 1 .. m /\ x - 1 \in 0 .. m /\ x - 1 \notin Bad
  BY <1>1, <1>4, <1>5
<1>7. x \in 1 .. Len(s) /\ x \in 1 .. Len(t) /\ x - 1 \in 0 .. Len(s) /\ x - 1 \in 0 .. Len(t)
  BY <1>1, <1>6
<1>8. u[x - 1] <= v[x - 1] /\ Weight(s, x) <= Weight(t, x)
  BY <1>6
<1>9. /\ u[x - 1] \in Nat /\ v[x - 1] \in Nat
      /\ Weight(s, x) \in Nat /\ Weight(t, x) \in Nat
      /\ u[x] = u[x - 1] + Weight(s, x) /\ v[x] = v[x - 1] + Weight(t, x)
  BY <1>7, Weights DEF Sums
<1>10. u[x] <= v[x]
  BY <1>8, <1>9
<1>11. QED
  BY <1>4, <1>10

\* What comes later adds to the sum.
LEMMA SumsGrow ==
  ASSUME NEW s \in Seq(Record), NEW u, Sums(u, s), NEW m \in 0 .. Len(s)
  PROVE  u[m] <= u[Len(s)]
<1> DEFINE Bad == {n \in m .. Len(s) : ~(u[m] <= u[n])}
<1>1. Len(s) \in Nat /\ m \in Nat
  BY Records
<1>2. SUFFICES ASSUME Bad # {} PROVE FALSE
  BY <1>1
<1>3. Bad \subseteq Nat
  BY <1>1
<1>4. PICK x \in Bad : \A y \in Bad : x <= y
  BY <1>2, <1>3, Least
<1>5. x # m
  BY <1>1 DEF Sums
<1>6. x \in 1 .. Len(s) /\ x - 1 \in m .. Len(s) /\ x - 1 \notin Bad /\ x - 1 \in 0 .. Len(s)
  BY <1>1, <1>4, <1>5
<1>7. u[m] <= u[x - 1]
  BY <1>6
<1>8. /\ u[m] \in Nat /\ u[x - 1] \in Nat /\ Weight(s, x) \in Nat
      /\ u[x] = u[x - 1] + Weight(s, x)
  BY <1>6, Weights DEF Sums
<1>9. u[m] <= u[x]
  BY <1>7, <1>8
<1>10. QED
  BY <1>4, <1>9

LEMMA SizeOfNone == WholeSize(<<>>) = 0
<1>1. <<>> \in Seq(Record) /\ Len(<<>>) = 0
  OBVIOUS
<1>2. PICK u : Sums(u, <<>>) /\ WholeSize(<<>>) = u[Len(<<>>)]
  BY <1>1, SizeIsSum
<1>3. QED
  BY <1>1, <1>2 DEF Sums

LEMMA SizeIsNumber == ASSUME NEW s \in Seq(Record) PROVE WholeSize(s) \in Nat
<1>1. Len(s) \in 0 .. Len(s)
  BY Records
<1>2. QED
  BY <1>1, SizeIsSum DEF Sums

\* A part has no larger size than the whole.
LEMMA SizeOfPart ==
  ASSUME NEW s \in Seq(Record), NEW t \in Seq(Record), Len(s) <= Len(t),
         \A n \in 1 .. Len(s) : Weight(s, n) <= Weight(t, n)
  PROVE  WholeSize(s) <= WholeSize(t)
<1>1. PICK u : Sums(u, s) /\ WholeSize(s) = u[Len(s)]
  BY SizeIsSum
<1>2. PICK v : Sums(v, t) /\ WholeSize(t) = v[Len(t)]
  BY SizeIsSum
<1>3. Len(s) \in Nat /\ Len(t) \in Nat /\ Len(s) \in 0 .. Len(s) /\ Len(s) \in 0 .. Len(t)
  BY Records
<1>4. u[Len(s)] <= v[Len(s)]
  BY <1>1, <1>2, <1>3, SumsCompare
<1>5. v[Len(s)] <= v[Len(t)]
  BY <1>2, <1>3, SumsGrow
<1>6. u[Len(s)] \in Nat /\ v[Len(s)] \in Nat /\ v[Len(t)] \in Nat
  BY <1>1, <1>2, <1>3 DEF Sums
<1>7. QED
  BY <1>1, <1>2, <1>4, <1>5, <1>6

LEMMA SizeOfAppend ==
  ASSUME NEW s \in Seq(Record), NEW r \in Record
  PROVE  WholeSize(Append(s, r)) = WholeSize(s) + (IF r.whole THEN r.size ELSE 0)
<1> DEFINE t == Append(s, r)
<1>1. /\ t \in Seq(Record) /\ Len(s) \in Nat /\ Len(t) = Len(s) + 1 /\ t[Len(t)] = r
      /\ \A n \in 1 .. Len(s) : t[n] = s[n]
  BY Records
<1> HIDE DEF t
<1>2. PICK u : Sums(u, s) /\ WholeSize(s) = u[Len(s)]
  BY SizeIsSum
<1>3. PICK v : Sums(v, t) /\ WholeSize(t) = v[Len(t)]
  BY <1>1, SizeIsSum
<1>4. \A n \in 1 .. Len(s) : Weight(s, n) \in Nat /\ Weight(t, n) = Weight(s, n)
  BY <1>1, Weights DEF Weight
<1>5. Len(s) \in 0 .. Len(s) /\ Len(s) \in 0 .. Len(t) /\ Len(t) \in 1 .. Len(t)
  BY <1>1
<1>6. u[Len(s)] <= v[Len(s)]
  <2>1. \A n \in 1 .. Len(s) : Weight(s, n) <= Weight(t, n)
    BY <1>4
  <2>2. Len(s) <= Len(t)
    BY <1>1
  <2>3. QED
    BY <1>1, <1>2, <1>3, <1>5, <2>1, <2>2, SumsCompare
<1>7. v[Len(s)] <= u[Len(s)]
  <2>1. \A n \in 1 .. Len(s) : Weight(t, n) <= Weight(s, n)
    BY <1>4
  <2>2. Len(s) <= Len(s)
    BY <1>1
  <2>3. QED
    BY <1>1, <1>2, <1>3, <1>5, <2>1, <2>2, SumsCompare
<1>8. u[Len(s)] \in Nat /\ v[Len(s)] \in Nat
  BY <1>2, <1>3, <1>5 DEF Sums
<1>9. v[Len(t)] = v[Len(t) - 1] + Weight(t, Len(t))
  BY <1>3, <1>5 DEF Sums
<1>10. Len(t) - 1 = Len(s) /\ Weight(t, Len(t)) = IF r.whole THEN r.size ELSE 0
  BY <1>1 DEF Weight
<1>11. WholeSize(t) = WholeSize(s) + (IF r.whole THEN r.size ELSE 0)
  BY <1>2, <1>3, <1>6, <1>7, <1>8, <1>9, <1>10
<1>12. QED
  BY <1>11 DEF t

\* What fileSize says of the open file.
SizeKnown ==
  fd # NoFile =>
    /\ at \in {"idle", "sync"} => fileSize < MaxFileSize
    /\ at = "roll" => \E size \in BlockSizes : fileSize < MaxFileSize + size
    /\ WholeSize(files[fd] \o cache) <=
         IF at = "sync" /\ Complete THEN fileSize + Last(cache).size ELSE fileSize

SizeInv == SizeKnown /\ FileSizeBounded

\* What is open and what waits in the cache.
OpenData ==
  /\ cache \in Seq(Record) /\ fileSize \in Nat
  /\ fd # NoFile => /\ fd \in DOMAIN files /\ files[fd] \in Seq(Record)
                    /\ files[fd] \o cache \in Seq(Record)
                    /\ WholeSize(files[fd] \o cache) \in Nat
                    /\ at \in Writing

LEMMA OpenDataIs == TypeInv => OpenData
<1> SUFFICES ASSUME TypeInv PROVE OpenData
  OBVIOUS
<1>1. cache \in Seq(Record) /\ fileSize \in Nat
  BY DEF TypeInv, TypeOK
<1>2. ASSUME fd # NoFile
      PROVE  fd \in DOMAIN files /\ files[fd] \in Seq(Record) /\ at \in Writing
  BY <1>2 DEF TypeInv, TypeOK, OpenFile
<1>3. fd # NoFile => files[fd] \o cache \in Seq(Record)
  BY <1>1, <1>2
<1>4. QED
  BY <1>1, <1>2, <1>3, SizeIsNumber DEF OpenData

\* The block just written is a record of the cache.
LEMMA LastIsRecord ==
  ASSUME TypeInv, Complete
  PROVE  /\ Last(cache) \in Record /\ Last(cache).size \in BlockSizes
         /\ Last(cache).size \in Nat
<1>1. cache \in Seq(Record) /\ cache # <<>>
  BY DEF TypeInv, TypeOK, Complete
<1>2. Len(cache) \in 1 .. Len(cache) /\ cache[Len(cache)] \in Record
  BY <1>1
<1>3. PICK r \in Record : r = Last(cache)
  BY <1>2 DEF Last
<1>4. r.size \in BlockSizes
  BY DEF Record
<1>5. QED
  BY <1>3, <1>4, LoggingWriterAssumption

\* The open file is within its bound even when all of the cache reaches it.
LEMMA OpenIsBounded ==
  ASSUME TypeInv, SizeKnown, fd # NoFile
  PROVE  \E size \in BlockSizes : WholeSize(files[fd] \o cache) < MaxFileSize + size
<1> USE LoggingWriterAssumption
<1>1. OpenData
  BY OpenDataIs
<1>2. PICK some \in BlockSizes : some \in Nat \ {0}
  OBVIOUS
<1>3. CASE at = "sync" /\ Complete
  BY <1>1, <1>3, LastIsRecord DEF OpenData, SizeKnown
<1>4. CASE at \in {"idle", "sync"} /\ ~(at = "sync" /\ Complete)
  <2>1. WholeSize(files[fd] \o cache) <= fileSize /\ fileSize < MaxFileSize
    BY <1>4 DEF SizeKnown
  <2>2. WholeSize(files[fd] \o cache) < MaxFileSize + some
    BY <1>1, <1>2, <2>1 DEF OpenData
  <2>3. QED
    BY <2>2
<1>5. CASE at = "roll"
  <2>1. PICK size \in BlockSizes : fileSize < MaxFileSize + size
    BY <1>5 DEF SizeKnown
  <2>2. WholeSize(files[fd] \o cache) <= fileSize
    BY <1>5 DEF SizeKnown
  <2>3. WholeSize(files[fd] \o cache) < MaxFileSize + size
    BY <1>1, <2>1, <2>2 DEF OpenData
  <2>4. QED
    BY <2>3
<1>6. QED
  BY <1>1, <1>3, <1>4, <1>5 DEF OpenData, Writing

\* A flush of a part of the cache leaves no larger file than all of it would.
LEMMA FlushIsPart ==
  ASSUME TypeInv, Flushes
  PROVE  /\ fd # NoFile /\ WholeSize(files'[fd]) \in Nat
         /\ WholeSize(files'[fd]) <= WholeSize(files[fd] \o cache)
<1>1. PICK data : PartOf(data, cache) /\ FlushedWith(data)
  BY DEF Flushes
<1>2. fd # NoFile
  BY DEF Flushes, TypeInv, TypeOK, NoFile
<1>3. /\ files[fd] \in Seq(Record) /\ cache \in Seq(Record) /\ data \in Seq(Record)
      /\ files'[fd] \in Seq(Record) /\ files'[fd] = files[fd] \o data
  BY <1>1 DEF FlushedWith, TypeInv, TypeOK
<1> DEFINE s == files[fd] \o data
           t == files[fd] \o cache
<1>4. Len(files[fd]) \in Nat /\ Len(data) \in Nat /\ Len(cache) \in Nat /\ Len(data) <= Len(cache)
  BY <1>1, <1>3, Records DEF PartOf
<1>5. s \in Seq(Record) /\ t \in Seq(Record)
  BY <1>3
<1>6. Len(s) = Len(files[fd]) + Len(data) /\ Len(t) = Len(files[fd]) + Len(cache)
  BY <1>3
<1>7. ASSUME NEW n \in 1 .. Len(s) PROVE Weight(s, n) <= Weight(t, n)
  <2>0. n \in 1 .. Len(t)
    BY <1>4, <1>6
  <2>1. Weight(s, n) \in Nat /\ Weight(t, n) \in Nat
    BY <1>5, <2>0, Weights
  <2>2. CASE n <= Len(files[fd])
    <3>1. s[n] = files[fd][n] /\ t[n] = files[fd][n]
      BY <1>3, <1>4, <1>6, <2>0, <2>2
    <3>2. QED
      BY <2>1, <3>1 DEF Weight
  <2>3. CASE n > Len(files[fd])
    <3> DEFINE i == n - Len(files[fd])
    <3>1. i \in 1 .. Len(data) /\ s[n] = data[i] /\ t[n] = cache[i]
      BY <1>3, <1>4, <1>6, <2>0, <2>3
    <3> HIDE DEF i
    <3>2. data[i].size = cache[i].size /\ (data[i].whole => cache[i].whole)
      BY <1>1, <3>1 DEF PartOf
    <3>3. QED
      BY <2>1, <3>1, <3>2 DEF Weight
  <2>4. QED
    BY <1>4, <2>2, <2>3
<1>8. Len(s) <= Len(t)
  BY <1>4, <1>6
<1> HIDE DEF s, t
<1>9. WholeSize(s) <= WholeSize(t) /\ WholeSize(s) \in Nat
  BY <1>5, <1>7, <1>8, SizeOfPart, SizeIsNumber
<1>10. QED
  BY <1>2, <1>3, <1>9 DEF s, t

LEMMA FilesStayBounded ==
  ASSUME TypeInv, SizeInv, [Next]_vars
  PROVE  FileSizeBounded'
<1> USE LoggingWriterAssumption
<1> SUFFICES ASSUME NEW f \in DOMAIN files'
             PROVE  \E size \in BlockSizes : WholeSize(files'[f]) < MaxFileSize + size
  BY DEF FileSizeBounded, WholeSize
<1>1. CASE f \in DOMAIN files /\ files'[f] = files[f]
  BY <1>1 DEF SizeInv, FileSizeBounded
<1>2. CASE Flushes
  <2>1. CASE f = fd
    <3>1. PICK size \in BlockSizes : WholeSize(files[fd] \o cache) < MaxFileSize + size
      BY <1>2, FlushIsPart, OpenIsBounded DEF SizeInv
    <3>2. /\ WholeSize(files'[fd]) <= WholeSize(files[fd] \o cache)
          /\ WholeSize(files'[fd]) \in Nat /\ WholeSize(files[fd] \o cache) \in Nat
      BY <1>2, FlushIsPart, OpenDataIs DEF OpenData
    <3>3. WholeSize(files'[fd]) < MaxFileSize + size
      BY <3>1, <3>2
    <3>4. QED
      BY <2>1, <3>3
  <2>2. QED
    BY <1>1, <1>2, <2>1 DEF Flushes, FlushedWith
<1>3. CASE Makes
  <2>1. CASE f = <<dirId, fileId>>
    <3>1. WholeSize(files'[f]) = 0
      BY <1>3, <2>1, SizeOfNone DEF Makes
    <3>2. PICK some \in BlockSizes : some \in Nat \ {0}
      OBVIOUS
    <3>3. 0 < MaxFileSize + some
      BY <3>2
    <3>4. QED
      BY <3>1, <3>3
  <2>2. QED
    BY <1>1, <1>3, <2>1 DEF Makes
<1>4. QED
  BY <1>1, <1>2, <1>3, Moves DEF Write, card

\* write adds at most the block to the file.
LEMMA WriteKeepsSize ==
  ASSUME TypeInv, CacheInOrder, SizeKnown, NEW size \in BlockSizes, Write(size), fd # NoFile
  PROVE  WholeSize(files[fd] \o cache') <=
           IF Complete' THEN fileSize + Last(cache').size ELSE fileSize
<1>1. OpenData
  BY OpenDataIs
<1>2. /\ WholeSize(files[fd] \o cache) <= fileSize /\ WholeSize(files[fd] \o cache) \in Nat
      /\ fileSize \in Nat /\ size \in Nat
  BY <1>1, LoggingWriterAssumption DEF SizeKnown, OpenData, Write
<1>3. block' = block + 1 /\ block \in Nat /\ block' \in 1 .. MaxBlocks
  BY LoggingWriterAssumption DEF Write, TypeInv, TypeOK
<1>4. CASE cache' = cache
  <2>1. ~Complete'
    <3>1. SUFFICES ASSUME cache # <<>> PROVE Last(cache).block # block'
      BY <1>4 DEF Complete
    <3>2. Len(cache) \in DOMAIN cache /\ cache \in Seq(Record)
      BY <1>1, <3>1 DEF OpenData
    <3>3. cache[Len(cache)].block <= block /\ cache[Len(cache)].block \in Nat
      BY <3>2, Records DEF CacheInOrder
    <3>4. QED
      BY <1>3, <3>3 DEF Last
  <2>2. QED
    BY <1>2, <1>4, <2>1
<1>5. ASSUME NEW w \in BOOLEAN,
             cache' = Append(cache, [block |-> block', size |-> size, whole |-> w])
      PROVE  WholeSize(files[fd] \o cache') <=
               IF Complete' THEN fileSize + Last(cache').size ELSE fileSize
  <2> DEFINE r == [block |-> block', size |-> size, whole |-> w]
  <2>1. r \in Record
    BY <1>3 DEF Record
  <2>2. r.block = block' /\ r.size = size /\ r.whole = w
    OBVIOUS
  <2>3. cache' = Append(cache, r)
    BY <1>5
  <2> HIDE DEF r
  <2>4. cache \in Seq(Record) /\ files[fd] \in Seq(Record) /\ files[fd] \o cache \in Seq(Record)
    BY <1>1 DEF OpenData
  <2>5. cache' # <<>> /\ Last(cache') = r
    BY <2>1, <2>3, <2>4 DEF Last
  <2>6. Complete' <=> w
    BY <2>2, <2>5 DEF Complete
  <2>7. files[fd] \o cache' = Append(files[fd] \o cache, r)
    <3> DEFINE a == files[fd]
    <3>1. a \in Seq(Record) /\ cache \in Seq(Record) /\ r \in Record
      BY <2>1, <2>4
    <3> HIDE DEF a
    <3>2. a \o Append(cache, r) = Append(a \o cache, r)
      BY <3>1
    <3>3. QED
      BY <2>3, <3>2 DEF a
  <2>8. WholeSize(files[fd] \o cache') =
          WholeSize(files[fd] \o cache) + (IF w THEN size ELSE 0)
    BY <2>1, <2>2, <2>4, <2>7, SizeOfAppend
  <2>9. CASE w
    BY <1>2, <2>2, <2>5, <2>6, <2>8, <2>9
  <2>10. CASE ~w
    BY <1>2, <2>6, <2>8, <2>10
  <2>11. QED
    BY <2>9, <2>10
<1>6. QED
  BY <1>4, <1>5 DEF Write

\* fsync moves what is in the cache, and changes nothing of the sum.
LEMMA SyncKeepsSize ==
  ASSUME TypeInv, Fsync, fd # NoFile
  PROVE  files'[fd] \o cache' = files[fd] \o cache
<1>1. OpenData
  BY OpenDataIs
<1>2. CASE UNCHANGED <<files, cache>>
  BY <1>2
<1>3. CASE files' = Flushed(cache) /\ cache' = <<>>
  <2>1. FlushedWith(cache)
    BY <1>1, <1>3, FlushGrows DEF OpenData
  <2>2. files'[fd] = files[fd] \o cache /\ files'[fd] \in Seq(Record)
    BY <2>1 DEF FlushedWith
  <2>3. files'[fd] \o <<>> = files'[fd]
    BY <2>2
  <2>4. QED
    BY <1>3, <2>2, <2>3
<1>4. QED
  BY <1>2, <1>3 DEF Fsync

LEMMA SizeStaysKnown ==
  ASSUME TypeInv, TypeInv', CacheInOrder, SizeKnown, [Next]_vars
  PROVE  SizeKnown'
<1> USE LoggingWriterAssumption DEF card, caller, position
<1>0. OpenData /\ fileSize' \in Nat
  BY OpenDataIs DEF TypeInv, TypeOK
<1>1. CASE Initialize \/ CreateTopDir \/ CreateDir \/ Roll_Close \/ Close \/ PowerLoss
  <2>1. fd' = NoFile
    BY <1>1 DEF Initialize, CreateTopDir, CreateDir, MakeDir, Roll_Close, Close, CloseFile,
       PowerLoss, TypeInv, OpenFile, Writing
  <2>2. QED
    BY <2>1 DEF SizeKnown
<1>2. CASE OpenFirst \/ Roll_Open
  <2>1. at \in {"file", "roll"} /\ fd = NoFile /\ cache' = cache /\ cache = <<>>
    BY <1>2 DEF OpenFirst, Roll_Open, TypeInv, OpenFile, Writing
  <2>2. CASE OpenFile_Ok
    <3>1. Makes
      BY <2>1, <2>2, Opened
    <3>2. fd' = <<dirId, fileId>> /\ fileSize' = 0
      BY <2>2 DEF OpenFile_Ok, Creat
    <3>3. at' # "roll" /\ at' # "sync"
      BY <1>2, <2>2, <3>2 DEF OpenFirst, Roll_Open, OpenFile_Error, NoFile, TypeInv, TypeOK
    <3>4. files'[fd'] \o cache' = <<>>
      BY <2>1, <3>1, <3>2 DEF Makes
    <3>5. WholeSize(files'[fd'] \o cache') = 0
      BY <3>4, SizeOfNone
    <3>6. WholeSize(files[fd] \o cache)' = 0
      BY <3>5 DEF WholeSize
    <3>7. QED
      BY <3>2, <3>3, <3>6 DEF SizeKnown
  <2>3. CASE OpenFile_Error
    BY <2>3 DEF OpenFile_Error, SizeKnown
  <2>4. QED
    BY <1>2, <2>2, <2>3 DEF OpenFirst, Roll_Open
<1>3. ASSUME NEW size \in BlockSizes, Write(size) PROVE SizeKnown'
  <2>1. at = "idle" /\ at' = "sync" /\ UNCHANGED <<files, fd, fileSize>>
    BY <1>3 DEF Write
  <2>2. CASE fd # NoFile
    <3>1. fileSize < MaxFileSize
      BY <2>1, <2>2 DEF SizeKnown
    <3>2. WholeSize(files[fd] \o cache') <=
            IF Complete' THEN fileSize + Last(cache').size ELSE fileSize
      BY <1>3, <2>2, WriteKeepsSize
    <3>3. WholeSize(files[fd] \o cache)' = WholeSize(files[fd] \o cache')
      BY <2>1 DEF WholeSize
    <3>4. Last(cache)' = Last(cache')
      BY DEF Last
    <3>5. QED
      BY <2>1, <3>1, <3>2, <3>3, <3>4 DEF SizeKnown
  <2>3. QED
    BY <2>1, <2>2 DEF SizeKnown
<1>4. CASE Write_Error \/ Write_Ok
  <2>1. at = "sync" /\ fd' = fd /\ Fsync
    BY <1>4 DEF Write_Error, Write_Ok, Counted
  <2>2. CASE fd # NoFile
    <3>1. fileSize < MaxFileSize
      BY <2>1, <2>2 DEF SizeKnown
    <3>2. files'[fd'] \o cache' = files[fd] \o cache
      BY <2>1, <2>2, SyncKeepsSize
    <3>3. WholeSize(files'[fd'] \o cache') = WholeSize(files[fd] \o cache)
      BY <3>2
    <3>4. CASE Write_Error
      <4>1. ~Complete /\ fileSize' = fileSize /\ at' = "idle"
        BY <3>4 DEF Write_Error
      <4>2. WholeSize(files'[fd'] \o cache') <= fileSize'
        BY <2>1, <2>2, <3>3, <4>1 DEF SizeKnown
      <4>3. QED
        BY <3>1, <4>1, <4>2 DEF SizeKnown, WholeSize
    <3>5. CASE Write_Ok
      <4>1. /\ Complete /\ fileSize' = fileSize + Last(cache).size
            /\ at' = IF fileSize' >= MaxFileSize THEN "roll" ELSE "idle"
        BY <3>5 DEF Write_Ok, Counted
      <4>2. Last(cache).size \in BlockSizes /\ Last(cache).size \in Nat
        BY <4>1, LastIsRecord
      <4>3. WholeSize(files'[fd'] \o cache') <= fileSize'
        BY <2>1, <2>2, <3>3, <4>1 DEF SizeKnown
      <4>4. fileSize' < MaxFileSize + Last(cache).size
        BY <1>0, <3>1, <4>1, <4>2 DEF OpenData
      <4>5. at' = "idle" => fileSize' < MaxFileSize
        BY <1>0, <4>1 DEF OpenData
      <4>6. QED
        BY <4>1, <4>2, <4>3, <4>4, <4>5 DEF SizeKnown, WholeSize
    <3>6. QED
      BY <1>4, <3>4, <3>5
  <2>3. QED
    BY <2>1, <2>2 DEF SizeKnown
<1>5. CASE UNCHANGED vars
  <2>1. UNCHANGED <<files, at, fileSize, fd, cache, block>>
    BY <1>5 DEF vars
  <2>2. WholeSize(files[fd] \o cache)' = WholeSize(files[fd] \o cache)
    BY <2>1 DEF WholeSize
  <2>3. Last(cache)' = Last(cache) /\ Complete' = Complete
    BY <2>1 DEF Last, Complete
  <2>4. QED
    BY <2>1, <2>2, <2>3 DEF SizeKnown
<1>6. QED
  BY <1>1, <1>2, <1>3, <1>4, <1>5 DEF Next

(***************************************************************************)
(* The whole blocks of a file exceed MAX_FILE_SIZE by less than one block, *)
(* whatever short writes, failed fsyncs, failed roll-overs and power       *)
(* losses come between them (Logging_Writer.c:165-186).                    *)
(***************************************************************************)
THEOREM FilesAreBounded == Spec => []FileSizeBounded
<1>1. Init => SizeInv
  BY DEF Init, SizeInv, SizeKnown, FileSizeBounded
<1>2. TypeInv /\ TypeInv' /\ OrderInv /\ SizeInv /\ [Next]_vars => SizeInv'
  BY FilesStayBounded, SizeStaysKnown DEF SizeInv, OrderInv
<1>3. SizeInv => FileSizeBounded
  BY DEF SizeInv
<1>4. QED
  BY <1>1, <1>2, <1>3, OrderInvariant, PTL DEF Spec
=============================================================================
