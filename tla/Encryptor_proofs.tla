--------------------------- MODULE Encryptor_proofs ---------------------------
(***************************************************************************)
(* Proofs about Encryptor: a file that is written once has the right size   *)
(* and reads back, for any number of threads, blocks, lengths and sizes.    *)
(***************************************************************************)
EXTENDS Encryptor, TLAPS

\* The calls in flight: a commit runs alone, uploads are about different blocks, and a call
\* that has its handle uses the handle and the inode of the map.
CallsInv ==
    /\ \A w \in Workers :
         /\ worker[w].pc = "idle" => worker[w] = Idle
         /\ worker[w].pc # "idle" => worker[w].op \in {"stage", "commit"}
         /\ worker[w].op = "stage" => worker[w].chunk \in Chunks
         /\ worker[w].op = "commit" => worker[w].pc # "update"
         /\ worker[w].pc = "stat" => use # "once" /\ handleMap # None
         /\ worker[w].pc \in {"write", "update"} =>
              worker[w].meta \in Pointers /\ handleMap # None
         /\ worker[w].pc \in {"open", "stat"} /\ file.trailer # None => file.blocks < MaxBlocks
    /\ \A v, w \in Workers :
         v # w /\ worker[v] # Idle /\ worker[w] # Idle =>
           /\ worker[v].op # "commit"
           /\ worker[v].index # worker[w].index
    /\ file.exists /\ handleMap # None =>
         /\ handleMap.ino = file.ino
         /\ \A w \in Workers : worker[w].pc \in {"stat", "write", "update"} => worker[w].ino = file.ino

\* What has been written is in the file, and the file ends with a block that was written.
BlocksInv ==
    /\ \A i \in StagedIndices : i < file.blocks /\ file.chunk[i] = staged[i]
    /\ file.blocks > 0 => file.blocks - 1 \in StagedIndices

\* While the file is open its meta object is the one CreateFile allocated.  It names the
\* farthest block written by a call that has finished.
OpenInv ==
    LET m == metas["create"] IN
    /\ metaMap = "create"
    /\ file.trailer = None
    /\ \A w \in Workers : worker[w].pc \in {"write", "update"} => worker[w].meta = "create"
    /\ \A w \in Workers : worker[w].pc = "update" => staged[worker[w].index] = worker[w].chunk
    /\ m.farthestBlockSeen # -1 =>
         /\ m.farthestBlockSeen \in StagedIndices
         /\ m.paddingLength = PaddingOf(staged[m.farthestBlockSeen])
    /\ \A i \in StagedIndices :
         i <= m.farthestBlockSeen \/ \E w \in Workers : worker[w].pc = "update" /\ worker[w].index = i

\* Once committed the trailer holds the padding of the last block.
ClosedInv ==
    /\ file.blocks = 0 => file.trailer = None
    /\ file.blocks > 0 => file.trailer = PaddingOf(staged[file.blocks - 1])

OnceInv ==
    file.exists /\ use = "once" =>
      /\ BlocksInv
      /\ handleMap # None => OpenInv
      /\ handleMap = None => ClosedInv

IInv == TypeOK /\ CallsInv /\ OnceInv

(***************************************************************************)
(* Types                                                                   *)
(***************************************************************************)
LEMMA ConstantTypes ==
    /\ 0 \in Indices /\ Indices \subseteq Nat
    /\ Paddings \subseteq 0..BlockSize
    /\ \A c \in Chunks : PaddingOf(c) \in Paddings
    /\ NothingSeen \in Metas
    /\ Idle \in WorkerStates
    /\ EncryptedBlockSize \in Nat /\ EncryptedBlockSize > PaddingLengthSize
  <1>1. 0 \in Indices /\ Indices \subseteq Nat
    BY SizesAssumption DEF Indices
  <1>2. Paddings \subseteq 0..BlockSize
    BY SizesAssumption DEF Paddings
  <1>3. \A c \in Chunks : PaddingOf(c) \in Paddings
    BY DEF Chunks, PaddingOf, Paddings
  <1>4. NothingSeen \in Metas
    BY SizesAssumption DEF NothingSeen, Metas, Paddings
  <1>5. Idle \in WorkerStates
    BY <1>1, SizesAssumption DEF Idle, WorkerStates
  <1>6. EncryptedBlockSize \in Nat /\ EncryptedBlockSize > PaddingLengthSize
    BY SizesAssumption DEF EncryptedBlockSize
  <1> QED BY <1>1, <1>2, <1>3, <1>4, <1>5, <1>6

\* Dividing the size of the cipher file gives back its blocks and its trailer.
LEMMA SizeArithmetic ==
    ASSUME NEW n \in Nat, NEW e \in Nat, NEW p \in Nat, p < e
    PROVE  /\ (n * e + p) \div e = n
           /\ (n * e + p) % e = p
  BY SMT

LEMMA FileSizes ==
    ASSUME TypeOK
    PROVE  /\ FileSize \div EncryptedBlockSize = file.blocks
           /\ FileSize % EncryptedBlockSize = IF file.trailer = None THEN 0 ELSE PaddingLengthSize
           /\ FileSize = file.blocks * EncryptedBlockSize
                         + (IF file.trailer = None THEN 0 ELSE PaddingLengthSize)
  <1> DEFINE p == IF file.trailer = None THEN 0 ELSE PaddingLengthSize
  <1>1. p \in Nat /\ file.blocks \in Nat /\ EncryptedBlockSize \in Nat /\ p < EncryptedBlockSize
    BY SizesAssumption, ConstantTypes DEF TypeOK, Files
  <1>2. FileSize = file.blocks * EncryptedBlockSize + p
    BY DEF FileSize
  <1> QED BY <1>1, <1>2, SizeArithmetic

LEMMA InitIInv == Init => IInv
  <1> SUFFICES ASSUME Init PROVE IInv OBVIOUS
  <1> USE SizesAssumption, NamesAssumption, ConstantTypes DEF Init
  <1>1. TypeOK
    BY DEF TypeOK, Files, Uses
  <1>2. CallsInv
    BY DEF CallsInv, Idle
  <1>3. OnceInv
    BY DEF OnceInv
  <1> QED BY <1>1, <1>2, <1>3 DEF IInv

\* What a WriteAt makes of the cipher file is a cipher file.
LEMMA WritesType ==
    ASSUME NEW f \in Files
    PROVE  /\ \A i \in Indices, c \in Chunks : WithChunk(f, i, c) \in Files
           /\ \A k \in 0..MaxBlocks, p \in Paddings : WithTrailer(f, k, p) \in Files
  <1>1. ASSUME NEW i \in Indices, NEW c \in Chunks PROVE WithChunk(f, i, c) \in Files
    <2> DEFINE blocks == IF i < f.blocks THEN f.blocks ELSE i + 1
               trailer == IF i < f.blocks THEN f.trailer ELSE None
               chunk == [f.chunk EXCEPT ![i] = c]
    <2>1. WithChunk(f, i, c) = [f EXCEPT !.chunk = chunk, !.blocks = blocks, !.trailer = trailer]
      BY DEF WithChunk
    <2>2. chunk \in [Indices -> Chunks \cup {Torn}] /\ blocks \in 0..MaxBlocks
          /\ trailer \in Paddings \cup {None}
      BY SizesAssumption DEF Files, Indices
    <2> HIDE DEF blocks, trailer, chunk
    <2> QED BY <2>1, <2>2 DEF Files
  <1>2. ASSUME NEW k \in 0..MaxBlocks, NEW p \in Paddings PROVE WithTrailer(f, k, p) \in Files
    <2>1. CASE k < f.blocks
      BY <2>1, SizesAssumption DEF Files, WithTrailer, Indices
    <2>2. CASE ~(k < f.blocks)
      BY <2>2 DEF Files, WithTrailer
    <2> QED BY <2>1, <2>2
  <1> QED BY <1>1, <1>2

\* The meta object of a file that is opened again is in range: the file is not at its bound.
LEMMA ReopenedType ==
    ASSUME TypeOK, file.trailer # None => file.blocks < MaxBlocks
    PROVE  ReopenedMeta \in Metas
  <1>1. CASE file.trailer = None
    BY <1>1, FileSizes, ConstantTypes DEF ReopenedMeta
  <1>2. CASE file.trailer # None
    <2>1. ReopenedMeta = [farthestBlockSeen |-> file.blocks, paddingLength |-> file.trailer]
      BY <1>2, FileSizes, SizesAssumption DEF ReopenedMeta
    <2>2. file.trailer \in Paddings /\ file.blocks \in 0..(MaxBlocks - 1)
      BY <1>2, SizesAssumption DEF TypeOK, Files
    <2> QED BY <2>1, <2>2 DEF Metas
  <1> QED BY <1>1, <1>2

LEMMA NextTypeOK ==
    ASSUME TypeOK, CallsInv, [Next]_vars
    PROVE  TypeOK'
  <1> USE SizesAssumption, ConstantTypes
  <1>1. CASE CreateFile
    BY <1>1 DEF CreateFile, TypeOK, Files, Pointers, Uses
  <1>2. CASE DeleteFile
    BY <1>2 DEF DeleteFile, TypeOK, Files
  <1>3. CASE Restart
    BY <1>3 DEF Restart, TypeOK, Uses
  <1> SUFFICES ASSUME NEW w \in Workers,
                      \/ \E i \in Indices, c \in Chunks : StageData(w, i, c)
                      \/ OpenFile(w) \/ StoreLastChunkMeta(w)
                      \/ WriteChunk(w) \/ StageFails(w) \/ UpdateLastChunkMeta(w)
                      \/ CommitData(w) \/ WritePaddingLength(w) \/ CommitFails(w)
               PROVE  TypeOK'
    <2>1. CASE UNCHANGED vars
      BY <2>1 DEF vars, TypeOK
    <2> QED BY <1>1, <1>2, <1>3, <2>1 DEF Next
  <1>4. ASSUME NEW call \in WorkerStates, Lookup(w, call) PROVE TypeOK'
    <2>1. [call EXCEPT !.pc = "open"] \in WorkerStates
      BY DEF WorkerStates
    <2>2. handleMap # None /\ metaMap # None =>
            [call EXCEPT !.pc = "write", !.ino = handleMap.ino, !.meta = metaMap] \in WorkerStates
      BY DEF WorkerStates, TypeOK
    <2> QED BY <1>4, <2>1, <2>2 DEF Lookup, TypeOK
  <1>5. ASSUME NEW i \in Indices, NEW c \in Chunks, StageData(w, i, c) PROVE TypeOK'
    <2>1. [Idle EXCEPT !.op = "stage", !.index = i, !.chunk = c] \in WorkerStates
      BY DEF Idle, WorkerStates
    <2> QED BY <1>4, <1>5, <2>1 DEF StageData
  <1>6. CASE OpenFile(w)
    <2>1. worker[w] \in WorkerStates /\ file.ino \in 0..MaxInodes
      BY DEF TypeOK, Files
    <2>2. [worker[w] EXCEPT !.pc = "stat", !.ino = file.ino] \in WorkerStates
      BY <2>1 DEF WorkerStates
    <2>3. worker' \in [Workers -> WorkerStates]
      BY <1>6, <2>1, <2>2 DEF OpenFile, TypeOK
    <2>4. handleMap' \in [ino: 0..MaxInodes, open: BOOLEAN] \cup {None}
      <3>1. [ino |-> file.ino, open |-> TRUE] \in [ino: 0..MaxInodes, open: BOOLEAN]
        BY <2>1
      <3> QED BY <1>6, <3>1 DEF OpenFile, TypeOK
    <2>5. use' \in Uses
      BY <1>6 DEF OpenFile, TypeOK, Again, Uses
    <2> QED BY <1>6, <2>3, <2>4, <2>5 DEF OpenFile, TypeOK
  <1>7. CASE StoreLastChunkMeta(w)
    <2>1. ReopenedMeta \in Metas
      BY <1>7, ReopenedType DEF StoreLastChunkMeta, CallsInv
    <2> QED BY <1>7, <2>1 DEF StoreLastChunkMeta, TypeOK, WorkerStates, Pointers
  <1>8. CASE WriteChunk(w)
    <2>1. worker[w].index \in Indices /\ worker[w].chunk \in Chunks
      BY <1>8 DEF WriteChunk, TypeOK, CallsInv, WorkerStates
    <2>2. file' \in Files
      BY <1>8, <2>1, WritesType DEF WriteChunk, TypeOK
    <2> QED BY <1>8, <2>1, <2>2 DEF WriteChunk, TypeOK, WorkerStates, Again, Uses
  <1>9. CASE StageFails(w)
    BY <1>9 DEF StageFails, TypeOK
  <1>10. CASE UpdateLastChunkMeta(w)
    <2>1. worker[w].index \in Indices /\ worker[w].chunk \in Chunks /\ worker[w].meta \in Pointers
      BY <1>10 DEF UpdateLastChunkMeta, TypeOK, CallsInv, WorkerStates
    <2>2. \A m \in Metas : MetaAfter(m, worker[w].index, worker[w].chunk) \in Metas
      BY <2>1 DEF MetaAfter, Metas, Indices
    <2> QED BY <1>10, <2>1, <2>2 DEF UpdateLastChunkMeta, TypeOK
  <1>11. CASE CommitData(w)
    <2>1. [Idle EXCEPT !.op = "commit"] \in WorkerStates
      BY DEF Idle, WorkerStates
    <2> QED BY <1>4, <1>11, <2>1 DEF CommitData
  <1>12. CASE WritePaddingLength(w)
    <2>1. worker[w].meta \in Pointers /\ metas[worker[w].meta] \in Metas
      BY <1>12 DEF WritePaddingLength, TypeOK, CallsInv
    <2>2. file' \in Files
      <3>1. Farthest(w) \in -1..(MaxBlocks - 1) /\ metas[worker[w].meta].paddingLength \in Paddings
        BY <2>1 DEF Metas, Farthest
      <3>2. Farthest(w) + 1 \in 0..MaxBlocks
        BY <3>1
      <3>3. writePaddingLength(file, metas[worker[w].meta]) \in Files
        BY <3>1, <3>2, WritesType DEF writePaddingLength, Farthest, TypeOK
      <3> QED BY <1>12, <3>3 DEF WritePaddingLength, TypeOK
    <2> QED BY <1>12, <2>1, <2>2 DEF WritePaddingLength, TypeOK
  <1>13. CASE CommitFails(w)
    BY <1>13 DEF CommitFails, TypeOK, CallsInv
  <1> QED BY <1>5, <1>6, <1>7, <1>8, <1>9, <1>10, <1>11, <1>12, <1>13

(***************************************************************************)
(* The calls in flight                                                     *)
(***************************************************************************)
\* A call that starts: nothing but its own state changes.
LEMMA LookupCalls ==
    ASSUME TypeOK, CallsInv, NEW w \in Workers, worker[w] = Idle,
           NEW call \in WorkerStates, call.op \in {"stage", "commit"},
           call.op = "stage" => call.chunk \in Chunks,
           \A v \in Workers : worker[v] # Idle =>
             worker[v].op # "commit" /\ call.op # "commit" /\ worker[v].index # call.index,
           Lookup(w, call)
    PROVE  CallsInv'
  <1>1. CASE UNCHANGED worker
    BY <1>1 DEF Lookup, CallsInv
  <1>2. ASSUME NEW c \in WorkerStates, worker' = [worker EXCEPT ![w] = c],
               c.op = call.op, c.chunk = call.chunk, c.index = call.index,
               \/ c.pc = "open" /\ handleMap = None /\ file.blocks < MaxBlocks
               \/ c.pc = "write" /\ c.meta \in Pointers /\ handleMap # None /\ c.ino = handleMap.ino
        PROVE  CallsInv'
    <2>1. worker'[w] = c /\ \A v \in Workers : v # w => worker'[v] = worker[v]
      BY <1>2 DEF TypeOK
    <2>2. c # Idle /\ c.pc # "idle" /\ c.pc # "stat" /\ c.pc # "update"
      BY <1>2 DEF Idle
    <2> QED BY <1>2, <2>1, <2>2 DEF Lookup, CallsInv
  <1>3. CASE handleMap = None
    BY <1>2, <1>3 DEF Lookup, WorkerStates
  <1>4. CASE handleMap # None /\ metaMap # None
    BY <1>2, <1>4 DEF Lookup, WorkerStates, TypeOK
  <1> QED BY <1>1, <1>3, <1>4 DEF Lookup

\* A call that returns: the others keep their state and the maps keep their entries.
LEMMA ReturnCalls ==
    ASSUME TypeOK, CallsInv, NEW w \in Workers, worker' = [worker EXCEPT ![w] = Idle],
           file'.exists = file.exists, file'.ino = file.ino,
           file'.trailer = file.trailer /\ file'.blocks = file.blocks,
           use' = use, handleMap' = handleMap
    PROVE  CallsInv'
  <1>1. worker'[w] = Idle /\ \A v \in Workers : v # w => worker'[v] = worker[v]
    BY DEF TypeOK
  <1>2. Idle.pc = "idle" /\ Idle.op = None
    BY DEF Idle
  <1> QED BY <1>1, <1>2, NamesAssumption DEF CallsInv

\* A call that proceeds with its handle: the others keep their state.
LEMMA StepCalls ==
    ASSUME TypeOK, CallsInv, NEW w \in Workers, worker[w] # Idle,
           \A v \in Workers : v # w => worker'[v] = worker[v],
           worker'[w].pc \in {"stat", "write", "update"},
           worker'[w].op = worker[w].op, worker'[w].index = worker[w].index,
           worker'[w].chunk = worker[w].chunk,
           worker'[w].op = "commit" => worker'[w].pc # "update",
           worker'[w].pc = "stat" => use' # "once",
           worker'[w].pc \in {"write", "update"} => worker'[w].meta \in Pointers,
           worker'[w].pc = "stat" => worker[w].pc \in {"open", "stat"},
           handleMap' # None,
           file'.exists = file.exists, file'.ino = file.ino,
           file.exists => handleMap'.ino = file.ino /\ worker'[w].ino = file.ino,
           file'.trailer # None => file'.trailer = file.trailer /\ file'.blocks = file.blocks,
           use # "once" => use' # "once"
    PROVE  CallsInv'
  <1>1. worker[w].pc # "idle" /\ worker[w].op \in {"stage", "commit"}
    BY DEF CallsInv
  <1>2. \A v \in Workers : v # w /\ worker[v].pc = "stat" => use' # "once"
    BY DEF CallsInv
  <1>3. ASSUME NEW v \in Workers
        PROVE  /\ worker'[v].pc = "idle" => worker'[v] = Idle
               /\ worker'[v].pc # "idle" => worker'[v].op \in {"stage", "commit"}
               /\ worker'[v].op = "stage" => worker'[v].chunk \in Chunks
               /\ worker'[v].op = "commit" => worker'[v].pc # "update"
               /\ worker'[v].pc = "stat" => use' # "once" /\ handleMap' # None
               /\ worker'[v].pc \in {"write", "update"} =>
                    worker'[v].meta \in Pointers /\ handleMap' # None
               /\ worker'[v].pc \in {"open", "stat"} /\ file'.trailer # None => file'.blocks < MaxBlocks
    <2>1. CASE v = w
      BY <1>1, <2>1 DEF CallsInv
    <2>2. CASE v # w
      BY <1>2, <2>2 DEF CallsInv
    <2> QED BY <2>1, <2>2
  <1>4. ASSUME NEW u \in Workers, NEW v \in Workers, u # v, worker'[u] # Idle, worker'[v] # Idle
        PROVE  worker'[u].op # "commit" /\ worker'[u].index # worker'[v].index
    BY <1>4 DEF CallsInv
  <1>5. ASSUME file'.exists, NEW v \in Workers, worker'[v].pc \in {"stat", "write", "update"}
        PROVE  worker'[v].ino = file'.ino
    BY <1>5, <1>3 DEF CallsInv
  <1> QED BY <1>3, <1>4, <1>5 DEF CallsInv

LEMMA NextCalls ==
    ASSUME TypeOK, CallsInv, [Next]_vars
    PROVE  CallsInv'
  <1> USE NamesAssumption
  <1>i. Idle.pc = "idle" /\ Idle.op = None /\ Idle.index = 0
    BY DEF Idle
  <1>1. CASE CreateFile
    BY <1>1, <1>i DEF CreateFile, CallsInv, AllIdle
  <1>2. CASE DeleteFile
    BY <1>2, <1>i DEF DeleteFile, CallsInv, AllIdle, TypeOK, Files
  <1>3. CASE Restart
    BY <1>3, <1>i DEF Restart, CallsInv
  <1> SUFFICES ASSUME NEW w \in Workers,
                      \/ \E i \in Indices, c \in Chunks : StageData(w, i, c)
                      \/ OpenFile(w) \/ StoreLastChunkMeta(w)
                      \/ WriteChunk(w) \/ StageFails(w) \/ UpdateLastChunkMeta(w)
                      \/ CommitData(w) \/ WritePaddingLength(w) \/ CommitFails(w)
               PROVE  CallsInv'
    <2>1. CASE UNCHANGED vars
      BY <2>1 DEF vars, CallsInv
    <2> QED BY <1>1, <1>2, <1>3, <2>1, SMTT(60) DEF Next
  <1>w. worker[w] \in WorkerStates
    BY DEF TypeOK
  <1>4. ASSUME NEW i \in Indices, NEW c \in Chunks, StageData(w, i, c) PROVE CallsInv'
    <2> DEFINE call == [Idle EXCEPT !.op = "stage", !.index = i, !.chunk = c]
    <2>1. call \in WorkerStates /\ call.op = "stage" /\ call.index = i /\ call.chunk = c
      BY ConstantTypes DEF Idle, WorkerStates
    <2>2. Lookup(w, call) /\ worker[w] = Idle
          /\ \A v \in Workers : worker[v].op # "commit" /\ (worker[v] # Idle => worker[v].index # i)
      BY <1>4 DEF StageData
    <2> HIDE DEF call
    <2> QED BY <2>1, <2>2, LookupCalls
  <1>5. CASE CommitData(w)
    <2> DEFINE call == [Idle EXCEPT !.op = "commit"]
    <2>1. call \in WorkerStates /\ call.op = "commit"
      BY ConstantTypes DEF Idle, WorkerStates
    <2>2. Lookup(w, call) /\ \A v \in Workers : worker[v] = Idle
      BY <1>5 DEF CommitData, AllIdle
    <2> HIDE DEF call
    <2> QED BY <2>1, <2>2, LookupCalls
  <1>6. CASE OpenFile(w)
    <2>1. CASE ~file.exists
      BY <1>6, <2>1, ReturnCalls DEF OpenFile
    <2>2. CASE file.exists
      <3>1. /\ worker'[w] = [worker[w] EXCEPT !.pc = "stat", !.ino = file.ino]
            /\ \A v \in Workers : v # w => worker'[v] = worker[v]
        BY <1>6, <2>2 DEF OpenFile, TypeOK
      <3>2. /\ worker'[w].pc = "stat" /\ worker'[w].ino = file.ino
            /\ worker'[w].op = worker[w].op /\ worker'[w].index = worker[w].index
            /\ worker'[w].chunk = worker[w].chunk
        BY <1>w, <3>1 DEF WorkerStates
      <3>3. handleMap' # None /\ handleMap'.ino = file.ino /\ use' # "once"
        <4>1. handleMap' = [ino |-> file.ino, open |-> TRUE] /\ use' = Again(TRUE)
          BY <1>6, <2>2 DEF OpenFile
        <4>2. [ino |-> file.ino, open |-> TRUE] \in [ino: 0..MaxInodes, open: BOOLEAN]
          BY DEF TypeOK, Files
        <4>3. use' # "once"
          BY <4>1 DEF Again
        <4> QED BY <4>1, <4>2, <4>3
      <3>4. worker[w].pc = "open" /\ worker[w] # Idle /\ UNCHANGED file
        BY <1>6, <1>i DEF OpenFile
      <3>5. worker[w].op = "commit" => worker'[w].pc # "update"
        BY <3>2
      <3> QED BY <3>1, <3>2, <3>3, <3>4, <3>5, StepCalls
    <2> QED BY <2>1, <2>2
  <1>7. CASE StoreLastChunkMeta(w)
    <2>1. /\ worker'[w] = [worker[w] EXCEPT !.pc = "write", !.meta = w]
          /\ \A v \in Workers : v # w => worker'[v] = worker[v]
      BY <1>7 DEF StoreLastChunkMeta, TypeOK
    <2>2. /\ worker'[w].pc = "write" /\ worker'[w].ino = worker[w].ino
          /\ worker'[w].op = worker[w].op /\ worker'[w].index = worker[w].index
          /\ worker'[w].chunk = worker[w].chunk /\ worker'[w].meta = w
      BY <1>w, <2>1 DEF WorkerStates
    <2>3. worker[w].pc = "stat" /\ worker[w] # Idle /\ UNCHANGED <<file, handleMap, use>>
      BY <1>7, <1>i DEF StoreLastChunkMeta
    <2>4. handleMap # None /\ w \in Pointers
          /\ (file.exists => handleMap.ino = file.ino /\ worker[w].ino = file.ino)
      BY <2>3 DEF CallsInv, Pointers
    <2> QED BY <2>1, <2>2, <2>3, <2>4, StepCalls
  <1>8. CASE WriteChunk(w)
    <2>1. /\ worker'[w] = [worker[w] EXCEPT !.pc = "update"]
          /\ \A v \in Workers : v # w => worker'[v] = worker[v]
      BY <1>8 DEF WriteChunk, TypeOK
    <2>2. /\ worker'[w].pc = "update" /\ worker'[w].ino = worker[w].ino
          /\ worker'[w].op = worker[w].op /\ worker'[w].index = worker[w].index
          /\ worker'[w].chunk = worker[w].chunk /\ worker'[w].meta = worker[w].meta
      BY <1>w, <2>1 DEF WorkerStates
    <2>3. worker[w].pc = "write" /\ worker[w].op = "stage" /\ worker[w] # Idle /\ handleMap' = handleMap
      BY <1>8, <1>i DEF WriteChunk
    <2>4. /\ file'.exists = file.exists /\ file'.ino = file.ino
          /\ file'.trailer # None => file'.trailer = file.trailer /\ file'.blocks = file.blocks
          /\ use # "once" => use' # "once"
      BY <1>8, ZenonT(60) DEF WriteChunk, WithChunk, TypeOK, Files, Again
    <2>5. handleMap # None /\ worker[w].meta \in Pointers
          /\ (file.exists => handleMap.ino = file.ino /\ worker[w].ino = file.ino)
      BY <2>3 DEF CallsInv
    <2> QED BY <2>1, <2>2, <2>3, <2>4, <2>5, StepCalls
  <1>9. CASE StageFails(w)
    BY <1>9, ReturnCalls DEF StageFails
  <1>10. CASE UpdateLastChunkMeta(w)
    BY <1>10, ReturnCalls, ZenonT(60) DEF UpdateLastChunkMeta
  <1>11. CASE WritePaddingLength(w)
    <2>1. \A v \in Workers : worker'[v] = Idle
      BY <1>11, <1>i, SMTT(60) DEF WritePaddingLength, CallsInv, TypeOK
    <2> QED BY <1>11, <1>i, <2>1 DEF WritePaddingLength, CallsInv
  <1>12. CASE CommitFails(w)
    <2>1. \A v \in Workers : worker'[v] = Idle
      BY <1>12, <1>i DEF CommitFails, CallsInv, TypeOK
    <2>2. handleMap # None /\ handleMap'.ino = handleMap.ino /\ UNCHANGED <<file, use>>
      BY <1>12 DEF CommitFails, CallsInv, TypeOK
    <2> QED BY <1>i, <2>1, <2>2 DEF CallsInv
  <1> QED BY <1>4, <1>5, <1>6, <1>7, <1>8, <1>9, <1>10, <1>11, <1>12

(***************************************************************************)
(* A file that is written once                                             *)
(***************************************************************************)
\* Steps that change neither the file nor the meta objects: the calls whose block is written
\* but not recorded stay, and a call with a handle uses the meta object of the map.
LEMMA QuietOnce ==
    ASSUME OnceInv, UNCHANGED <<file, metaMap, metas, staged, use>>,
           handleMap' = None <=> handleMap = None,
           handleMap # None /\ OpenInv =>
             \A v \in Workers : worker'[v].pc \in {"write", "update"} => worker'[v].meta = "create",
           \A v \in Workers : worker[v].pc = "update" => worker'[v] = worker[v],
           \A v \in Workers : worker'[v].pc = "update" => worker'[v] = worker[v]
    PROVE  OnceInv'
  <1>1. BlocksInv => BlocksInv'
    BY DEF BlocksInv, StagedIndices
  <1>2. ClosedInv => ClosedInv'
    BY DEF ClosedInv
  <1>3. handleMap # None /\ OpenInv => OpenInv'
    BY DEF OpenInv, StagedIndices
  <1> QED BY <1>1, <1>2, <1>3 DEF OnceInv

LEMMA OnceTypes ==
    ASSUME TypeOK
    PROVE  /\ file.blocks \in Nat /\ file.chunk \in [Indices -> Chunks \cup {Torn}]
           /\ StagedIndices \subseteq Indices /\ StagedIndices \subseteq Nat
           /\ metas["create"].farthestBlockSeen \in Int /\ metas["create"].farthestBlockSeen >= -1
           /\ \A w \in Workers : worker[w].index \in Indices /\ worker[w].index \in Nat
  <1>1. file.blocks \in Nat /\ file.chunk \in [Indices -> Chunks \cup {Torn}]
    BY SizesAssumption DEF TypeOK, Files
  <1>2. Indices \subseteq Nat
    BY ConstantTypes
  <1>3. metas["create"] \in Metas
    BY DEF TypeOK, Pointers
  <1>4. metas["create"].farthestBlockSeen \in -1..(MaxBlocks - 1)
    BY <1>3 DEF Metas
  <1>5. \A w \in Workers : worker[w].index \in Indices
    BY DEF TypeOK, WorkerStates
  <1>6. metas["create"].farthestBlockSeen \in Int /\ metas["create"].farthestBlockSeen >= -1
    BY <1>4, SizesAssumption
  <1>7. StagedIndices \subseteq Indices
    BY DEF StagedIndices
  <1> QED BY <1>1, <1>2, <1>5, <1>6, <1>7

LEMMA WriteOnce ==
    ASSUME IInv, NEW w \in Workers, WriteChunk(w)
    PROVE  OnceInv'
  <1> SUFFICES ASSUME file'.exists, use' = "once"
               PROVE  BlocksInv' /\ handleMap' # None /\ OpenInv'
    BY DEF OnceInv
  <1> DEFINE i == worker[w].index
             c == worker[w].chunk
  <1>1. /\ worker[w].pc = "write" /\ worker[w].op = "stage"
        /\ handleMap' = handleMap /\ UNCHANGED <<metaMap, metas>>
        /\ worker' = [worker EXCEPT ![w].pc = "update"]
    BY DEF WriteChunk
  <1>2. i \in Indices /\ c \in Chunks /\ c # None
    BY <1>1, NamesAssumption DEF IInv, TypeOK, CallsInv, WorkerStates, Chunks
  <1>3. file.exists /\ file'.exists
    BY DEF WriteChunk, WithChunk, IInv, TypeOK, Files
  <1>4. handleMap # None /\ Reaches(worker[w].ino)
    BY <1>1, <1>3 DEF IInv, CallsInv, Reaches
  <1>5. file' = WithChunk(file, i, c) /\ staged' = [staged EXCEPT ![i] = c] /\ use' = Again(staged[i] # None)
    BY <1>4 DEF WriteChunk
  <1>6. use = "once" /\ staged[i] = None
    BY <1>5 DEF Again
  <1>7. BlocksInv /\ OpenInv
    BY <1>3, <1>4, <1>6 DEF IInv, OnceInv
  <1>8. /\ file'.blocks = IF i < file.blocks THEN file.blocks ELSE i + 1
        /\ file'.chunk = [file.chunk EXCEPT ![i] = c]
        /\ file'.trailer = None
    BY <1>5, <1>7 DEF WithChunk, IInv, TypeOK, Files, OpenInv
  <1>9. StagedIndices' = StagedIndices \cup {i} /\ staged'[i] = c
        /\ \A j \in StagedIndices : j # i /\ staged'[j] = staged[j]
    BY <1>2, <1>5, <1>6 DEF StagedIndices, IInv, TypeOK
  <1>10. BlocksInv'
    <2>1. i \in Nat /\ file.blocks \in Nat /\ file.chunk \in [Indices -> Chunks \cup {Torn}]
      BY OnceTypes DEF IInv
    <2>2. StagedIndices \subseteq Indices /\ StagedIndices \subseteq Nat
      BY ConstantTypes DEF StagedIndices
    <2>3. \A j \in StagedIndices \cup {i} : j < file'.blocks
      <3> HIDE DEF i
      <3>1. \A j \in StagedIndices : j \in Nat /\ j < file.blocks
        BY <1>7, <2>2 DEF BlocksInv
      <3>2. file'.blocks \in Nat /\ file.blocks <= file'.blocks /\ i < file'.blocks
        BY <1>8, <2>1
      <3> QED BY <2>1, <3>1, <3>2
    <2>4. \A j \in StagedIndices \cup {i} : file'.chunk[j] = staged'[j]
      BY <1>2, <1>7, <1>8, <1>9, <2>1, <2>2 DEF BlocksInv
    <2>5. file'.blocks - 1 \in StagedIndices \cup {i}
      BY <1>7, <1>8, <2>1 DEF BlocksInv
    <2> QED BY <1>9, <2>3, <2>4, <2>5 DEF BlocksInv
  <1>11. OpenInv'
    <2>1. worker'[w] = [worker[w] EXCEPT !.pc = "update"] /\ \A v \in Workers : v # w => worker'[v] = worker[v]
      BY <1>1 DEF IInv, TypeOK
    <2>2. /\ worker'[w].pc = "update" /\ worker'[w].index = i /\ worker'[w].chunk = c
          /\ worker'[w].meta = worker[w].meta
      BY <2>1 DEF IInv, TypeOK, WorkerStates
    <2>3. \A v \in Workers : worker'[v].pc \in {"write", "update"} => worker'[v].meta = "create"
      BY <1>1, <1>7, <2>1, <2>2 DEF OpenInv
    <2>4. \A v \in Workers : worker[v].pc = "update" => worker[v].index \in StagedIndices
      <3>1. \A v \in Workers : worker[v].pc = "update" => worker[v].chunk \in Chunks /\ worker[v].index \in Indices
        BY DEF IInv, CallsInv, TypeOK, WorkerStates
      <3>2. None \notin Chunks
        BY NamesAssumption DEF Chunks
      <3> QED BY <1>7, <3>1, <3>2 DEF OpenInv, StagedIndices
    <2>5. \A v \in Workers : worker'[v].pc = "update" => staged'[worker'[v].index] = worker'[v].chunk
      <3>1. ASSUME NEW v \in Workers, v # w, worker'[v].pc = "update"
            PROVE  staged'[worker'[v].index] = worker'[v].chunk
        <4>1. worker'[v] = worker[v]
          BY <2>1, <3>1
        <4>2. worker[v].index \in StagedIndices /\ staged[worker[v].index] = worker[v].chunk
          BY <1>7, <2>4, <3>1, <4>1 DEF OpenInv
        <4> QED BY <1>9, <4>1, <4>2
      <3> QED BY <1>9, <2>2, <3>1
    <2> DEFINE m == metas["create"]
    <2>6. m.farthestBlockSeen # -1 => /\ m.farthestBlockSeen \in StagedIndices'
                                      /\ m.paddingLength = PaddingOf(staged'[m.farthestBlockSeen])
      BY <1>7, <1>9 DEF OpenInv
    <2>7. ASSUME NEW j \in StagedIndices'
          PROVE  j <= m.farthestBlockSeen \/ \E v \in Workers : worker'[v].pc = "update" /\ worker'[v].index = j
      <3>1. CASE j = i
        BY <2>2, <3>1
      <3>2. CASE j \in StagedIndices /\ ~(j <= m.farthestBlockSeen)
        <4>1. PICK v \in Workers : worker[v].pc = "update" /\ worker[v].index = j
          BY <1>7, <3>2 DEF OpenInv
        <4>2. v # w
          BY <1>1, <4>1
        <4> QED BY <2>1, <4>1, <4>2
      <3> QED BY <1>9, <3>1, <3>2
    <2> QED BY <1>1, <1>7, <1>8, <2>3, <2>5, <2>6, <2>7 DEF OpenInv
  <1> QED BY <1>1, <1>4, <1>10, <1>11

LEMMA UpdateOnce ==
    ASSUME IInv, NEW w \in Workers, UpdateLastChunkMeta(w)
    PROVE  OnceInv'
  <1> SUFFICES ASSUME file'.exists, use' = "once"
               PROVE  BlocksInv' /\ handleMap' # None /\ OpenInv'
    BY DEF OnceInv
  <1> DEFINE i == worker[w].index
             c == worker[w].chunk
             m == metas["create"]
  <1>1. /\ worker[w].pc = "update"
        /\ UNCHANGED <<file, handleMap, metaMap, staged, use>>
        /\ worker' = [worker EXCEPT ![w] = Idle]
    BY DEF UpdateLastChunkMeta
  <1>2. handleMap # None /\ BlocksInv /\ OpenInv
    BY <1>1 DEF IInv, CallsInv, OnceInv
  <1>3. i \in Indices /\ c \in Chunks /\ staged[i] = c /\ i \in StagedIndices
    <2>1. i \in Indices /\ c \in Chunks /\ staged[i] = c
      BY <1>1, <1>2 DEF IInv, TypeOK, CallsInv, WorkerStates, OpenInv
    <2>2. None \notin Chunks
      BY NamesAssumption DEF Chunks
    <2> QED BY <2>1, <2>2, SMTT(60) DEF StagedIndices
  <1>4. metas'["create"] = MetaAfter(m, i, c)
    BY <1>1, <1>2 DEF UpdateLastChunkMeta, OpenInv, IInv, TypeOK, Pointers
  <1>5. m.farthestBlockSeen \in Int /\ i \in Nat /\ StagedIndices \subseteq Nat
    BY OnceTypes DEF IInv
  <1>6. worker'[w] = Idle /\ \A v \in Workers : v # w => worker'[v] = worker[v]
    BY <1>1 DEF IInv, TypeOK
  <1>7. Idle.pc = "idle"
    BY DEF Idle
  <1>8. StagedIndices' = StagedIndices /\ staged' = staged
    BY <1>1 DEF StagedIndices
  <1> HIDE DEF i, c, m
  <1>9. BlocksInv'
    BY <1>1, <1>2, <1>8 DEF BlocksInv
  <1>10. LET n == metas'["create"]
         IN  n.farthestBlockSeen # -1 => n.farthestBlockSeen \in StagedIndices
                                         /\ n.paddingLength = PaddingOf(staged[n.farthestBlockSeen])
    BY <1>2, <1>3, <1>4 DEF MetaAfter, OpenInv, m
  <1>11. m.farthestBlockSeen <= metas'["create"].farthestBlockSeen /\ i <= metas'["create"].farthestBlockSeen
         /\ metas'["create"].farthestBlockSeen \in Int
    BY <1>4, <1>5 DEF MetaAfter
  <1>12. ASSUME NEW j \in StagedIndices
         PROVE  j <= metas'["create"].farthestBlockSeen
                \/ \E v \in Workers : worker'[v].pc = "update" /\ worker'[v].index = j
    <2>1. CASE j <= m.farthestBlockSeen \/ j = i
      BY <1>5, <1>11, <2>1
    <2>2. CASE ~(j <= m.farthestBlockSeen) /\ j # i
      <3>1. PICK v \in Workers : worker[v].pc = "update" /\ worker[v].index = j
        BY <1>2, <2>2 DEF OpenInv, m
      <3>2. v # w
        BY <2>2, <3>1 DEF i
      <3> QED BY <1>6, <3>1, <3>2
    <2> QED BY <2>1, <2>2
  <1>13. OpenInv'
    BY <1>1, <1>2, <1>6, <1>7, <1>8, <1>10, <1>12 DEF OpenInv
  <1> QED BY <1>1, <1>2, <1>9, <1>13

LEMMA CommitOnce ==
    ASSUME IInv, NEW w \in Workers, WritePaddingLength(w)
    PROVE  OnceInv'
  <1> SUFFICES ASSUME file'.exists, use' = "once"
               PROVE  BlocksInv' /\ handleMap' = None /\ ClosedInv'
    BY DEF OnceInv
  <1> DEFINE m == metas["create"]
             k == m.farthestBlockSeen + 1
  <1>1. worker[w].pc = "write" /\ worker[w].op = "commit" /\ handleMap' = None /\ UNCHANGED <<staged, use>>
    BY DEF WritePaddingLength
  <1>2. file.exists
    BY <1>1, SMTT(60) DEF WritePaddingLength, writePaddingLength, WithTrailer, IInv, TypeOK, Files
  <1>3. handleMap # None /\ BlocksInv /\ OpenInv /\ Reaches(worker[w].ino) /\ worker[w].meta = "create"
    BY <1>1, <1>2 DEF IInv, CallsInv, OnceInv, OpenInv, Reaches
  <1>4. ASSUME NEW v \in Workers
        PROVE  worker[v].pc # "update"
    <2>1. CASE v = w
      BY <1>1, <2>1
    <2>2. CASE v # w
      <3>1. worker[w] # Idle
        BY <1>1 DEF Idle
      <3>2. worker[v] # Idle => worker[w].op # "commit"
        BY <2>2, <3>1 DEF IInv, CallsInv
      <3>3. worker[v] = Idle
        BY <1>1, <3>2
      <3> QED BY <3>3 DEF Idle
    <2> QED BY <2>1, <2>2, SMTT(60)
  <1>5. m.farthestBlockSeen \in Int /\ m.farthestBlockSeen >= -1 /\ StagedIndices \subseteq Nat /\ file.blocks \in Nat
    BY OnceTypes DEF IInv
  <1>6. \A j \in StagedIndices : j <= m.farthestBlockSeen
    BY <1>3, <1>4 DEF OpenInv
  <1>7. file.blocks = k
    <2>1. CASE m.farthestBlockSeen = -1
      BY <1>3, <1>5, <1>6, <2>1 DEF BlocksInv
    <2>2. CASE m.farthestBlockSeen # -1
      <3>1. m.farthestBlockSeen \in StagedIndices
        BY <1>3, <2>2 DEF OpenInv
      <3>2. m.farthestBlockSeen < file.blocks
        BY <1>3, <3>1 DEF BlocksInv
      <3>3. file.blocks - 1 <= m.farthestBlockSeen
        BY <1>3, <1>5, <1>6, <3>2 DEF BlocksInv
      <3> QED BY <1>5, <3>2, <3>3
    <2> QED BY <2>1, <2>2
  <1>8. CASE m.farthestBlockSeen = -1
    <2>1. file' = file /\ file.blocks = 0 /\ file.trailer = None
      BY <1>3, <1>7, <1>8, SMTT(30) DEF WritePaddingLength, Farthest, OpenInv
    <2> QED BY <1>1, <1>3, <2>1 DEF BlocksInv, ClosedInv, StagedIndices
  <1>9. CASE m.farthestBlockSeen # -1
    <2>1. file' = WithTrailer(file, k, m.paddingLength)
      BY <1>3, <1>9 DEF WritePaddingLength, Farthest, writePaddingLength
    <2>2. file' = [file EXCEPT !.trailer = m.paddingLength, !.blocks = k]
      BY <1>5, <1>7, <2>1 DEF WithTrailer
    <2>3. file'.trailer = m.paddingLength /\ file'.blocks = file.blocks /\ file'.chunk = file.chunk
      BY <1>7, <2>2 DEF IInv, TypeOK, Files
    <2>4. file.blocks > 0 /\ file.blocks - 1 = m.farthestBlockSeen
      BY <1>5, <1>7, <1>9
    <2>5. m.paddingLength = PaddingOf(staged[file.blocks - 1])
      BY <1>3, <1>9, <2>4 DEF OpenInv
    <2> QED BY <1>1, <1>3, <2>3, <2>4, <2>5, SMTT(30) DEF BlocksInv, ClosedInv, StagedIndices
  <1> QED BY <1>8, <1>9

LEMMA NextIInv ==
    ASSUME IInv, [Next]_vars
    PROVE  IInv'
  <1>t. TypeOK /\ CallsInv /\ OnceInv
    BY DEF IInv
  <1>i. Idle.pc = "idle"
    BY DEF Idle
  <1>o. OpenInv => /\ metaMap = "create"
                   /\ \A v \in Workers : worker[v].pc \in {"write", "update"} => worker[v].meta = "create"
    BY DEF OpenInv
  <1> SUFFICES OnceInv'
    BY <1>t, NextTypeOK, NextCalls DEF IInv
  <1>1. CASE CreateFile
    <2> SUFFICES ASSUME use' = "once" PROVE BlocksInv' /\ handleMap' # None /\ OpenInv'
      BY DEF OnceInv
    <2>1. ~file.exists
      BY <1>1 DEF CreateFile
    <2>2. /\ file'.blocks = 0 /\ file'.trailer = None /\ staged' = [i \in Indices |-> None]
          /\ metaMap' = "create" /\ worker' = worker /\ metas'["create"] = NothingSeen
      BY <1>1, <2>1 DEF CreateFile, TypeOK, Pointers, IInv
    <2>3. StagedIndices' = {} /\ NothingSeen.farthestBlockSeen = -1
      BY <2>2 DEF StagedIndices, NothingSeen
    <2>4. \A w \in Workers : worker'[w].pc = "idle"
      BY <1>1, <1>i, <2>2 DEF CreateFile, AllIdle
    <2>5. handleMap' # None
      <3>1. file'.ino \in 0..MaxInodes
        BY <1>t, <1>1, NextTypeOK DEF TypeOK, Files
      <3>2. [ino |-> file'.ino, open |-> TRUE] \in [ino: 0..MaxInodes, open: BOOLEAN]
        BY <3>1
      <3> QED BY <1>1, <3>2, NamesAssumption, ZenonT(60) DEF CreateFile
    <2> QED BY <2>2, <2>3, <2>4, <2>5 DEF BlocksInv, OpenInv
  <1>2. CASE DeleteFile
    BY <1>2 DEF DeleteFile, OnceInv, IInv, TypeOK, Files
  <1>3. CASE Restart
    <2> SUFFICES ASSUME file'.exists, use' = "once" PROVE BlocksInv' /\ handleMap' = None /\ ClosedInv'
      BY DEF OnceInv
    <2>1. handleMap = None /\ use = "once" /\ UNCHANGED <<file, handleMap, staged>>
      BY <1>3 DEF Restart
    <2> QED BY <1>t, <2>1 DEF OnceInv, BlocksInv, ClosedInv, StagedIndices
  <1>4. CASE UNCHANGED vars
    BY <1>t, <1>4, SMTT(30) DEF vars, OnceInv, BlocksInv, OpenInv, ClosedInv, StagedIndices
  <1> SUFFICES ASSUME NEW w \in Workers,
                      \/ \E i \in Indices, c \in Chunks : StageData(w, i, c)
                      \/ OpenFile(w) \/ StoreLastChunkMeta(w)
                      \/ WriteChunk(w) \/ StageFails(w) \/ UpdateLastChunkMeta(w)
                      \/ CommitData(w) \/ WritePaddingLength(w) \/ CommitFails(w)
               PROVE  OnceInv'
    BY <1>1, <1>2, <1>3, <1>4, SMTT(60) DEF Next
  <1>5. ASSUME NEW call, call \in WorkerStates, Lookup(w, call), worker[w] = Idle PROVE OnceInv'
    <2>1. UNCHANGED <<file, handleMap, metaMap, metas, staged, use>>
      BY <1>5 DEF Lookup
    <2>2. \A v \in Workers : v # w => worker'[v] = worker[v]
      BY <1>t, <1>5 DEF Lookup, TypeOK
    <2> DEFINE opening == [call EXCEPT !.pc = "open"]
               found == [call EXCEPT !.pc = "write", !.ino = handleMap.ino, !.meta = metaMap]
    <2>a. opening.pc = "open" /\ found.pc = "write" /\ found.meta = metaMap
      BY <1>5 DEF WorkerStates
    <2>b. \/ handleMap = None /\ worker' = [worker EXCEPT ![w] = opening]
          \/ worker' = worker
          \/ worker' = [worker EXCEPT ![w] = found]
      BY <1>5 DEF Lookup
    <2>c. worker \in [Workers -> WorkerStates]
      BY <1>t DEF TypeOK
    <2> HIDE DEF opening, found
    <2>d. \/ handleMap = None /\ worker'[w] = opening
          \/ worker'[w] = Idle
          \/ worker'[w] = found
      BY <1>5, <2>b, <2>c
    <2>3. worker'[w].pc # "update"
      BY <1>i, <2>a, <2>d
    <2>4. handleMap # None /\ worker'[w].pc = "write" => worker'[w].meta = metaMap
      BY <1>i, <2>a, <2>d
    <2>5. handleMap # None /\ OpenInv =>
            \A v \in Workers : worker'[v].pc \in {"write", "update"} => worker'[v].meta = "create"
      <3> SUFFICES ASSUME handleMap # None, OpenInv, NEW v \in Workers,
                          worker'[v].pc \in {"write", "update"}
                   PROVE  worker'[v].meta = "create"
        OBVIOUS
      <3>1. CASE v = w
        BY <1>o, <2>3, <2>4, <3>1
      <3>2. CASE v # w
        BY <1>o, <2>2, <3>2, SMTT(60)
      <3> QED BY <3>1, <3>2
    <2> QED BY <1>t, <1>5, <1>i, <2>1, <2>2, <2>3, <2>5, QuietOnce
  <1>6. ASSUME NEW i \in Indices, NEW c \in Chunks, StageData(w, i, c) PROVE OnceInv'
    <2>1. [Idle EXCEPT !.op = "stage", !.index = i, !.chunk = c] \in WorkerStates
      BY ConstantTypes DEF Idle, WorkerStates
    <2> QED BY <1>5, <1>6, <2>1 DEF StageData
  <1>7. CASE CommitData(w)
    <2>1. [Idle EXCEPT !.op = "commit"] \in WorkerStates
      BY ConstantTypes DEF Idle, WorkerStates
    <2> QED BY <1>5, <1>7, <2>1 DEF CommitData, AllIdle
  <1>8. ASSUME worker' = [worker EXCEPT ![w] = Idle], worker[w].pc # "update",
               UNCHANGED <<file, metaMap, metas, staged, use>>, handleMap' = None <=> handleMap = None
        PROVE  OnceInv'
    <2>1. worker'[w] = Idle /\ \A v \in Workers : v # w => worker'[v] = worker[v]
      BY <1>t, <1>8 DEF TypeOK
    <2>2. handleMap # None /\ OpenInv =>
            \A v \in Workers : worker'[v].pc \in {"write", "update"} => worker'[v].meta = "create"
      <3> SUFFICES ASSUME handleMap # None, OpenInv, NEW v \in Workers,
                          worker'[v].pc \in {"write", "update"}
                   PROVE  worker'[v].meta = "create"
        OBVIOUS
      <3>1. v # w
        BY <1>i, <2>1
      <3> QED BY <1>o, <2>1, <3>1
    <2> QED BY <1>t, <1>i, <1>8, <2>1, <2>2, QuietOnce
  <1>9. CASE OpenFile(w)
    <2>1. CASE file.exists
      BY <1>9, <2>1 DEF OpenFile, Again, OnceInv
    <2>2. CASE ~file.exists
      BY <1>9, <2>2 DEF OpenFile, OnceInv
    <2> QED BY <2>1, <2>2
  <1>10. CASE StoreLastChunkMeta(w)
    BY <1>t, <1>10 DEF StoreLastChunkMeta, CallsInv, OnceInv
  <1>11. CASE StageFails(w)
    BY <1>8, <1>11 DEF StageFails
  <1>12. CASE CommitFails(w)
    <2>1. handleMap # None /\ handleMap' # None
      <3>1. handleMap \in [ino: 0..MaxInodes, open: BOOLEAN]
        BY <1>t, <1>12 DEF CommitFails, CallsInv, TypeOK
      <3>2. [handleMap EXCEPT !.open = FALSE] \in [ino: 0..MaxInodes, open: BOOLEAN]
        BY <3>1
      <3> QED BY <1>12, <3>1, <3>2, NamesAssumption DEF CommitFails
    <2> QED BY <1>8, <1>12, <2>1 DEF CommitFails
  <1> QED BY <1>6, <1>7, <1>9, <1>10, <1>11, <1>12, WriteOnce, UpdateOnce, CommitOnce

LEMMA Invariant == Spec => []IInv
  BY InitIInv, NextIInv, PTL DEF Spec

(***************************************************************************)
(* Theorems                                                                *)
(***************************************************************************)
\* Whatever the calls and their interleaving, restarts and failures included, the maps, the
\* meta objects and the file keep their types: the padding recorded is that of a length that
\* was staged, and a block is never recorded beyond the file's bound.
THEOREM TypeCorrect == Spec => []TypeOK
  <1>1. IInv => TypeOK
    BY DEF IInv
  <1> QED BY Invariant, <1>1, PTL

LEMMA LastStaged ==
    ASSUME NEW last \in StagedIndices, \A j \in StagedIndices : j <= last
    PROVE  LogicalSize = last * BlockSize + staged[last].len
  <1> DEFINE l == CHOOSE i \in StagedIndices : \A j \in StagedIndices : j <= i
  <1>1. l \in StagedIndices /\ \A j \in StagedIndices : j <= l
    OBVIOUS
  <1>2. l \in Int /\ last \in Int
    BY <1>1, SizesAssumption DEF StagedIndices, Indices
  <1>3. l = last
    <2> HIDE DEF l
    <2> QED BY <1>1, <1>2
  <1>4. LogicalSize = l * BlockSize + staged[l].len
    BY DEF LogicalSize
  <1> QED BY <1>3, <1>4

\* The bytes of a committed file of n blocks less padding, block metadata and trailer.
LEMMA CommittedSize ==
    ASSUME NEW n \in Nat, NEW len \in Int, NEW b \in Int, NEW m \in Int, NEW p \in Int
    PROVE  n * (b + m) + p - ((b - len) + n * m + p) = (n - 1) * b + len
  BY SMT

LEMMA OnceSize ==
    ASSUME IInv, file.exists, use = "once", Settled
    PROVE  GetAttrSize = LogicalSize
  <1>t. TypeOK /\ OnceInv /\ BlocksInv
    BY DEF IInv, OnceInv
  <1>n. file.blocks \in Nat /\ BlockSize \in Nat /\ MetaSize \in Nat /\ PaddingLengthSize \in Nat
    BY <1>t, SizesAssumption DEF TypeOK, Files
  <1>s. StagedIndices \subseteq Int
    BY SizesAssumption DEF StagedIndices, Indices
  <1>l. \A i \in StagedIndices : staged[i].len \in Int
    <2> SUFFICES ASSUME NEW i \in StagedIndices PROVE staged[i].len \in Int
      OBVIOUS
    <2>1. staged[i] \in Chunks
      BY <1>t DEF TypeOK, StagedIndices
    <2>2. staged[i].len \in Lengths
      BY <2>1 DEF Chunks
    <2>3. Lengths \subseteq Int
      BY SizesAssumption
    <2> QED BY <2>2, <2>3
  <1>1. CASE handleMap = None
    <2>1. ClosedInv
      BY <1>1, <1>t DEF OnceInv
    <2>2. GetAttrSize = checkForActualFileSize
      BY <1>1 DEF GetAttrSize
    <2>3. CASE file.blocks = 0
      <3>1. StagedIndices = {}
        BY <1>t, <1>s, <2>3 DEF BlocksInv, StagedIndices, Indices
      <3>2. file.trailer = None /\ FileSize \div EncryptedBlockSize = 0 /\ FileSize = 0
        BY <1>t, <1>n, <2>1, <2>3, FileSizes, ConstantTypes DEF ClosedInv
      <3>3. checkForActualFileSize = 0
        <4>1. 0 * EncryptedBlockSize = 0
          BY ConstantTypes
        <4>2. FileSize < (FileSize \div EncryptedBlockSize) * EncryptedBlockSize + PaddingLengthSize
          BY <3>2, <4>1, SizesAssumption
        <4> QED BY <4>2 DEF checkForActualFileSize
      <3> QED BY <2>2, <3>1, <3>3 DEF LogicalSize
    <2>4. CASE file.blocks # 0
      <3> DEFINE last == file.blocks - 1
      <3>1. last \in StagedIndices /\ file.trailer = PaddingOf(staged[last])
        BY <1>t, <1>n, <2>1, <2>4 DEF BlocksInv, ClosedInv
      <3>2. \A j \in StagedIndices : j <= last
        BY <1>t, <1>n, <1>s DEF BlocksInv
      <3>3. LogicalSize = last * BlockSize + staged[last].len
        <4> HIDE DEF last
        <4> QED BY <3>1, <3>2, LastStaged
      <3>4. staged[last].len \in Int
        <4> HIDE DEF last
        <4> QED BY <1>l, <3>1
      <3>5. file.trailer = BlockSize - staged[last].len
        BY <3>1 DEF PaddingOf
      <3>6. file.trailer # None
        BY <1>n, <3>4, <3>5, NamesAssumption
      <3>7. FileSize = file.blocks * (BlockSize + MetaSize) + PaddingLengthSize
            /\ FileSize \div EncryptedBlockSize = file.blocks
        BY <1>t, <3>6, FileSizes DEF EncryptedBlockSize
      <3>8. checkForActualFileSize
              = FileSize - (file.trailer + file.blocks * MetaSize + PaddingLengthSize)
        <4>1. ~(FileSize < file.blocks * EncryptedBlockSize + PaddingLengthSize)
          <5>1. file.blocks * EncryptedBlockSize \in Nat
            BY <1>n, ConstantTypes
          <5> QED BY <1>n, <3>7, <5>1 DEF EncryptedBlockSize
        <4> QED BY <3>7, <4>1 DEF checkForActualFileSize
      <3>9. checkForActualFileSize = last * BlockSize + staged[last].len
        BY <1>n, <3>4, <3>5, <3>7, <3>8, CommittedSize
      <3> QED BY <2>2, <3>3, <3>9
    <2> QED BY <2>3, <2>4
  <1>2. CASE handleMap # None
    <2> DEFINE m == metas["create"]
               f == m.farthestBlockSeen
    <2>1. OpenInv
      BY <1>2, <1>t DEF OnceInv
    <2>2. GetAttrSize = IF f = -1 THEN 0 ELSE (f + 1) * BlockSize - m.paddingLength
      BY <1>2, <2>1 DEF GetAttrSize, OpenInv
    <2>3. f \in Int
      BY <1>t, SizesAssumption DEF TypeOK, Metas, Pointers
    <2>4. \A i \in StagedIndices : i <= f
      BY <2>1 DEF OpenInv, Settled
    <2>5. CASE f = -1
      <3>1. StagedIndices = {}
        BY <1>s, <2>4, <2>5, SizesAssumption DEF StagedIndices, Indices
      <3> QED BY <2>2, <2>5, <3>1 DEF LogicalSize
    <2>6. CASE f # -1
      <3>1. f \in StagedIndices /\ m.paddingLength = BlockSize - staged[f].len
        BY <2>1, <2>6 DEF OpenInv, PaddingOf
      <3>2. LogicalSize = f * BlockSize + staged[f].len /\ staged[f].len \in Int
        <4> HIDE DEF f
        <4> QED BY <1>l, <2>4, <3>1, LastStaged
      <3>3. f * BlockSize \in Int /\ (f + 1) * BlockSize = f * BlockSize + BlockSize
        <4> HIDE DEF f
        <4> QED BY <1>n, <2>3
      <3> HIDE DEF f
      <3> QED BY <1>n, <2>2, <2>6, <3>1, <3>2, <3>3
    <2> QED BY <2>5, <2>6
  <1> QED BY <1>1, <1>2

LEMMA OnceReads ==
    ASSUME IInv, file.exists, use = "once", NEW i \in StagedIndices
    PROVE  ReadInBuffer(i) = staged[i]
  <1>t. TypeOK /\ BlocksInv
    BY DEF IInv, OnceInv
  <1>1. i \in Nat /\ file.blocks \in Nat /\ EncryptedBlockSize \in Nat /\ i + 1 <= file.blocks
    BY <1>t, SizesAssumption, ConstantTypes DEF TypeOK, Files, BlocksInv, StagedIndices, Indices
  <1>2. (i + 1) * EncryptedBlockSize <= file.blocks * EncryptedBlockSize
        /\ (i + 1) * EncryptedBlockSize = i * EncryptedBlockSize + EncryptedBlockSize
        /\ i * EncryptedBlockSize \in Nat /\ file.blocks * EncryptedBlockSize \in Nat
    BY <1>1
  <1>3. file.blocks * EncryptedBlockSize <= FileSize /\ FileSize \in Nat
    BY <1>t, <1>2, FileSizes, SizesAssumption
  <1>4. ~(i * EncryptedBlockSize + EncryptedBlockSize > FileSize)
    BY <1>1, <1>2, <1>3
  <1> QED BY <1>t, <1>4 DEF ReadInBuffer, BlocksInv

\* The size of a file that is written once is that of what was staged, for every number of
\* threads and blocks and every block size: while it is written GetAttr takes it from the
\* meta object that the threads update in any order, afterwards from the trailer.
THEOREM WriteOnceSizeHolds == Spec => []WriteOnceSize
  <1>1. IInv => WriteOnceSize
    BY OnceSize DEF WriteOnceSize
  <1> QED BY Invariant, <1>1, PTL

\* A block of such a file decrypts to what was staged at any time after it was written: no
\* other thread's block and no trailer is ever written over it.
THEOREM WriteOnceReadsHolds == Spec => []WriteOnceReads
  <1>1. IInv => WriteOnceReads
    BY OnceReads DEF WriteOnceReads
  <1> QED BY Invariant, <1>1, PTL

\* In a file that is written once the meta object names a block that StageData wrote, so the
\* trailer is written behind it: only a file that is opened or written again gets the state
\* that the run encryptor_reopen shows.
THEOREM FarthestWhileOnce == Spec => [](use = "once" => FarthestIsWritten)
  <1>1. IInv => (use = "once" => FarthestIsWritten)
    <2> SUFFICES ASSUME IInv, use = "once", file.exists, handleMap # None, metaMap # None,
                        metas[metaMap].farthestBlockSeen # -1
                 PROVE  metas[metaMap].farthestBlockSeen < file.blocks
      BY DEF FarthestIsWritten
    <2>1. BlocksInv /\ OpenInv
      BY DEF IInv, OnceInv
    <2>2. metas[metaMap].farthestBlockSeen \in StagedIndices
      BY <2>1 DEF OpenInv
    <2> QED BY <2>1, <2>2 DEF BlocksInv
  <1> QED BY Invariant, <1>1, PTL
=============================================================================
