------------------------------ MODULE Encryptor ------------------------------
(***************************************************************************)
(* The encryptor of the blobfuse mount (src/blobfuse-launcher/encryptor):   *)
(* a plain text file seen by the block cache is one cipher file, made of   *)
(* encrypted blocks of BlockSize + MetaSize bytes and a trailer that holds  *)
(* the padding of the last block.  The model follows one file name: its     *)
(* cipher file, its entries in handleMap and lastChunkMetaMap, and the      *)
(* upload threads of the block cache that stage its blocks concurrently.    *)
(*                                                                         *)
(* The block cache is external.  What it is taken to guarantee: a block is  *)
(* uploaded by one thread at a time, and CommitData, CreateFile and         *)
(* DeleteFile run when no upload of the file is in flight.                  *)
(***************************************************************************)
EXTENDS Integers, FiniteSets

CONSTANTS
    Workers,            \* threads that call StageData and CommitData
    Data,               \* contents of a block, told apart only by identity
    Lengths,            \* lengths of the data of a staged block
    BlockSize,          \* bytes of plain text in a block
    MetaSize,           \* nonce and authentication tag
    PaddingLengthSize,  \* bytes of the trailer
    MaxBlocks,          \* bound: blocks of the cipher file
    MaxInodes,          \* bound: times the cipher file is created
    None,               \* no entry, no trailer
    Torn                \* bytes that do not decrypt: a hole or an overwritten block

ASSUME SizesAssumption ==
    /\ BlockSize \in Nat \ {0} /\ MetaSize \in Nat /\ PaddingLengthSize \in Nat \ {0}
    /\ PaddingLengthSize < BlockSize + MetaSize
    /\ Lengths \subseteq 1..BlockSize
    /\ MaxBlocks \in Nat \ {0} /\ MaxInodes \in Nat

ASSUME NamesAssumption ==
    /\ None \notin Workers \cup Int \cup {"create", "stage", "commit"}
    /\ None \notin [data: Data, len: Lengths] /\ Torn \notin [data: Data, len: Lengths]
    /\ None \notin [ino: 0..MaxInodes, open: BOOLEAN]
    /\ "create" \notin Workers

VARIABLES
    file,       \* the cipher file: inode, blocks, trailer, and whether it exists
    handleMap,  \* e.handleMap[name]: the inode and whether the handle is still open
    metaMap,    \* e.lastChunkMetaMap[name]: a pointer into metas
    metas,      \* the LastChunkMeta objects, named by the thread that allocated them
    worker,     \* what each thread is doing
    staged,     \* history: the block last written at each index of this inode
    use         \* history: how this inode has been written, see Uses

vars == <<file, handleMap, metaMap, metas, worker, staged, use>>

Indices == 0..(MaxBlocks - 1)
Chunks == [data: Data, len: Lengths]
Paddings == {BlockSize - l : l \in Lengths} \cup {0}
Pointers == Workers \cup {"create"}
EncryptedBlockSize == BlockSize + MetaSize

\* "once": created empty, every block written once, not opened again; "again": blocks written
\* again or the file opened again; "interrupted": created over an existing file, or the
\* process stopped while the file was open.
Uses == {"once", "again", "interrupted"}
Again(b) == IF b /\ use = "once" THEN "again" ELSE use

NothingSeen == [farthestBlockSeen |-> -1, paddingLength |-> 0]
Idle == [pc |-> "idle", op |-> None, index |-> 0, chunk |-> None, ino |-> 0, meta |-> None]
AllIdle == \A w \in Workers : worker[w] = Idle

Init ==
    /\ file = [exists |-> FALSE, ino |-> 0, blocks |-> 0,
               chunk |-> [i \in Indices |-> Torn], trailer |-> None]
    /\ handleMap = None
    /\ metaMap = None
    /\ metas = [p \in Pointers |-> NothingSeen]
    /\ worker = [w \in Workers |-> Idle]
    /\ staged = [i \in Indices |-> None]
    /\ use = "once"

(***************************************************************************)
(* The cipher file                                                         *)
(***************************************************************************)
FileSize == file.blocks * EncryptedBlockSize
            + (IF file.trailer = None THEN 0 ELSE PaddingLengthSize)

\* WriteAt of an encrypted block: it may extend the file, over the trailer and a hole.
WithChunk(f, i, c) ==
    [f EXCEPT !.chunk = [@ EXCEPT ![i] = c],
              !.blocks = IF i < @ THEN @ ELSE i + 1,
              !.trailer = IF i < f.blocks THEN @ ELSE None]

\* WriteAt of the trailer behind block k - 1: inside the file it destroys block k.
WithTrailer(f, k, p) ==
    IF k < f.blocks THEN [f EXCEPT !.chunk[k] = Torn]
    ELSE [f EXCEPT !.trailer = p, !.blocks = k]

\* A handle to an inode that was deleted writes to a file that has no name any more.
Reaches(ino) == file.exists /\ ino = file.ino

checkForActualFileSize ==
    LET totalBlocks == FileSize \div EncryptedBlockSize
    IN  IF FileSize < totalBlocks * EncryptedBlockSize + PaddingLengthSize THEN 0
        ELSE FileSize - (file.trailer + totalBlocks * MetaSize + PaddingLengthSize)

\* The size GetAttr reports, for a file that exists and a handle whose meta is stored.
GetAttrSize ==
    IF handleMap = None THEN checkForActualFileSize
    ELSE LET m == metas[metaMap]
         IN  IF m.farthestBlockSeen = -1 THEN 0
             ELSE (m.farthestBlockSeen + 1) * BlockSize - m.paddingLength

\* ReadInBuffer of the whole block i.
ReadInBuffer(i) ==
    IF i * EncryptedBlockSize + EncryptedBlockSize > FileSize THEN Torn ELSE file.chunk[i]

(***************************************************************************)
(* CreateFile opens with O_CREATE and without O_TRUNC: what an existing     *)
(* file holds stays.                                                        *)
(***************************************************************************)
CreateFile ==
    /\ AllIdle
    /\ file.exists \/ file.ino < MaxInodes
    /\ file' = IF file.exists THEN file
               ELSE [exists |-> TRUE, ino |-> file.ino + 1, blocks |-> 0,
                     chunk |-> [i \in Indices |-> Torn], trailer |-> None]
    /\ handleMap' = [ino |-> file'.ino, open |-> TRUE]
    /\ metaMap' = "create"
    /\ metas' = [metas EXCEPT !["create"] = NothingSeen]
    /\ staged' = IF file.exists THEN staged ELSE [i \in Indices |-> None]
    /\ use' = IF file.exists THEN "interrupted" ELSE "once"
    /\ UNCHANGED worker

\* DeleteFile removes the file and leaves both maps alone.
DeleteFile ==
    /\ AllIdle
    /\ file.exists
    /\ file' = [file EXCEPT !.exists = FALSE]
    /\ UNCHANGED <<handleMap, metaMap, metas, worker, staged, use>>

(***************************************************************************)
(* getFileHandleAndLastChunkMeta                                           *)
(***************************************************************************)
\* Both calls start by looking the name up; a handle without meta is an error.
Lookup(w, call) ==
    /\ handleMap # None \/ file.blocks < MaxBlocks  \* bound: reopened with room for a block
    /\ IF handleMap = None
       THEN worker' = [worker EXCEPT ![w] = [call EXCEPT !.pc = "open"]]
       ELSE IF metaMap = None THEN UNCHANGED worker
       ELSE worker' = [worker EXCEPT ![w] =
                          [call EXCEPT !.pc = "write", !.ino = handleMap.ino, !.meta = metaMap]]
    /\ UNCHANGED <<file, handleMap, metaMap, metas, staged, use>>

\* The name was not in handleMap: open the file and store the handle, or return the error.
OpenFile(w) ==
    /\ worker[w].pc = "open"
    /\ IF file.exists
       THEN /\ handleMap' = [ino |-> file.ino, open |-> TRUE]
            /\ worker' = [worker EXCEPT ![w] = [@ EXCEPT !.pc = "stat", !.ino = file.ino]]
            /\ use' = Again(TRUE)
       ELSE /\ worker' = [worker EXCEPT ![w] = Idle]
            /\ UNCHANGED <<handleMap, use>>
    /\ UNCHANGED <<file, metaMap, metas, staged>>

\* The meta of a file that is opened again: nothing seen without a trailer.
ReopenedMeta ==
    LET totalBlocks == FileSize \div EncryptedBlockSize
        paddingBlockSize == FileSize % EncryptedBlockSize
    IN  IF paddingBlockSize = 0 THEN NothingSeen
        ELSE [farthestBlockSeen |-> totalBlocks, paddingLength |-> file.trailer]

StoreLastChunkMeta(w) ==
    /\ worker[w].pc = "stat"
    /\ metas' = [metas EXCEPT ![w] = ReopenedMeta]
    /\ metaMap' = w
    /\ worker' = [worker EXCEPT ![w] = [@ EXCEPT !.pc = "write", !.meta = w]]
    /\ UNCHANGED <<file, handleMap, staged, use>>

(***************************************************************************)
(* StageData: look up, write the padded and encrypted block, then record    *)
(* the farthest block under the lock of the meta object.                    *)
(***************************************************************************)
StageData(w, i, c) ==
    /\ worker[w] = Idle
    /\ \A v \in Workers : worker[v].op # "commit" /\ (worker[v] # Idle => worker[v].index # i)
    /\ Lookup(w, [Idle EXCEPT !.op = "stage", !.index = i, !.chunk = c])

\* The handle of a failed CommitData is closed but still in the map: writing to it fails.
WriteChunk(w) ==
    /\ worker[w].pc = "write" /\ worker[w].op = "stage"
    /\ handleMap.open
    /\ LET s == worker[w] IN
       IF Reaches(s.ino)
       THEN /\ file' = WithChunk(file, s.index, s.chunk)
            /\ staged' = [staged EXCEPT ![s.index] = s.chunk]
            /\ use' = Again(staged[s.index] # None)
       ELSE UNCHANGED <<file, staged, use>>
    /\ worker' = [worker EXCEPT ![w].pc = "update"]
    /\ UNCHANGED <<handleMap, metaMap, metas>>

\* Encrypting or writing may fail at any time, without effect on the file.
StageFails(w) ==
    /\ worker[w].pc = "write" /\ worker[w].op = "stage"
    /\ worker' = [worker EXCEPT ![w] = Idle]
    /\ UNCHANGED <<file, handleMap, metaMap, metas, staged, use>>

PaddingIsLength(c) == c.len
PaddingOf(c) == BlockSize - c.len

\* What StageData does to the meta object under its lock.
MetaAfterAlways(m, i, c) == [farthestBlockSeen |-> i, paddingLength |-> PaddingOf(c)]
MetaAfter(m, i, c) ==
    IF i > m.farthestBlockSeen
    THEN [farthestBlockSeen |-> i, paddingLength |-> PaddingOf(c)]
    ELSE m

UpdateLastChunkMeta(w) ==
    LET s == worker[w] IN
    /\ s.pc = "update"
    /\ metas' = [metas EXCEPT ![s.meta] = MetaAfter(@, s.index, s.chunk)]
    /\ worker' = [worker EXCEPT ![w] = Idle]
    /\ UNCHANGED <<file, handleMap, metaMap, staged, use>>

(***************************************************************************)
(* CommitData: write the trailer behind the farthest block, forget the      *)
(* file.  The handle is closed whether or not the write succeeds.           *)
(***************************************************************************)
CommitData(w) ==
    /\ AllIdle
    /\ Lookup(w, [Idle EXCEPT !.op = "commit"])

Farthest(w) == metas[worker[w].meta].farthestBlockSeen

WritePaddingLengthAtZero(f, m) == WithTrailer(f, m.farthestBlockSeen, m.paddingLength)
writePaddingLength(f, m) == WithTrailer(f, m.farthestBlockSeen + 1, m.paddingLength)

WritePaddingLength(w) ==
    LET s == worker[w] IN
    /\ s.pc = "write" /\ s.op = "commit"
    /\ Farthest(w) = -1 \/ handleMap.open
    /\ file' = IF Farthest(w) # -1 /\ Reaches(s.ino)
               THEN writePaddingLength(file, metas[s.meta]) ELSE file
    /\ metas' = [metas EXCEPT ![s.meta] = NothingSeen]
    /\ handleMap' = None
    /\ metaMap' = None
    /\ worker' = [worker EXCEPT ![w] = Idle]
    /\ UNCHANGED <<staged, use>>

CommitFails(w) ==
    /\ worker[w].pc = "write" /\ worker[w].op = "commit"
    /\ Farthest(w) # -1
    /\ handleMap' = [handleMap EXCEPT !.open = FALSE]
    /\ worker' = [worker EXCEPT ![w] = Idle]
    /\ UNCHANGED <<file, metaMap, metas, staged, use>>

\* The mount process stops; the cipher file stays as it is.
Restart ==
    /\ handleMap' = None
    /\ metaMap' = None
    /\ worker' = [w \in Workers |-> Idle]
    /\ metas' = [p \in Pointers |-> NothingSeen]
    /\ use' = IF handleMap = None /\ AllIdle THEN use ELSE "interrupted"
    /\ UNCHANGED <<file, staged>>

Next ==
    \/ CreateFile \/ DeleteFile \/ Restart
    \/ \E w \in Workers :
         \/ \E i \in Indices, c \in Chunks : StageData(w, i, c)
         \/ OpenFile(w) \/ StoreLastChunkMeta(w)
         \/ WriteChunk(w) \/ StageFails(w) \/ UpdateLastChunkMeta(w)
         \/ CommitData(w) \/ WritePaddingLength(w) \/ CommitFails(w)

Spec == Init /\ [][Next]_vars

(***************************************************************************)
(* Properties                                                              *)
(***************************************************************************)
WorkerStates == [pc: {"idle", "open", "stat", "write", "update"},
                 op: {"stage", "commit", None}, index: Indices,
                 chunk: Chunks \cup {None}, ino: 0..MaxInodes, meta: Pointers \cup {None}]
Files == [exists: BOOLEAN, ino: 0..MaxInodes, blocks: 0..MaxBlocks,
          chunk: [Indices -> Chunks \cup {Torn}], trailer: Paddings \cup {None}]
Metas == [farthestBlockSeen: -1..(MaxBlocks - 1), paddingLength: Paddings]

\* Every component holds what the encryptor stores in it.
TypeOK ==
    /\ file \in Files
    /\ handleMap \in [ino: 0..MaxInodes, open: BOOLEAN] \cup {None}
    /\ metaMap \in Pointers \cup {None}
    /\ metas \in [Pointers -> Metas]
    /\ worker \in [Workers -> WorkerStates]
    /\ staged \in [Indices -> Chunks \cup {None}]
    /\ use \in Uses

StagedIndices == {i \in Indices : staged[i] # None}

\* The size of the plain text: up to the end of the last block that was staged.
LogicalSize ==
    IF StagedIndices = {} THEN 0
    ELSE LET last == CHOOSE i \in StagedIndices : \A j \in StagedIndices : j <= i
         IN  last * BlockSize + staged[last].len

\* No upload is between writing its block and recording it.
Settled == \A w \in Workers : worker[w].pc # "update"

\* A file written once, by any number of threads in any order, has the size of what was
\* staged: GetAttr reports it from the meta object while the file is being written, and
\* from the trailer once CommitData has returned.
WriteOnceSize ==
    file.exists /\ use = "once" /\ Settled => GetAttrSize = LogicalSize

\* Every block of such a file that StageData has written decrypts to what was staged, at any
\* time: the trailer that CommitData writes never lands on a block.
WriteOnceReads ==
    file.exists /\ use = "once" => \A i \in StagedIndices : ReadInBuffer(i) = staged[i]

\* "keep track of the farthest block that has been written to the file": the meta object
\* names a block that exists.
FarthestIsWritten ==
    file.exists /\ handleMap # None /\ metaMap # None /\ AllIdle
    /\ metas[metaMap].farthestBlockSeen # -1
    => metas[metaMap].farthestBlockSeen < file.blocks
=============================================================================
