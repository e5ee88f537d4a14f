------------------------- MODULE FileContent_proofs -------------------------
(* What FileContent guarantees for every set of files, every number of      *)
(* sessions and workers, and every length of the files.                     *)
EXTENDS FileContent, SequenceTheorems, TLAPS

Data == Chunks \cup {Hole}

-----------------------------------------------------------------------------
(* Contents of files. *)

\* A content is a sequence of chunks no longer than the bound.
LEMMA ContentsAsSeq ==
  ASSUME NEW c
  PROVE  c \in Contents <=> c \in Seq(Data) /\ Len(c) \in 0..MaxLen
<1>1. ASSUME c \in Contents PROVE c \in Seq(Data) /\ Len(c) \in 0..MaxLen
  <2>1. PICK n \in 0..MaxLen : c \in [1..n -> Data]
    BY <1>1 DEF Contents, Data
  <2>2. c \in Seq(Data)
    BY <2>1, MaxLenAssumption, SeqDef
  <2>3. Len(c) = n
    BY <2>1, <2>2, MaxLenAssumption, LenProperties
  <2>. QED
    BY <2>1, <2>2, <2>3
<1>2. ASSUME c \in Seq(Data), Len(c) \in 0..MaxLen PROVE c \in Contents
  BY <1>2, LenProperties DEF Contents, Data
<1>. QED
  BY <1>1, <1>2

\* What a pwrite() leaves behind.
LEMMA PutContents ==
  ASSUME NEW c \in Contents, NEW i \in 1..MaxLen, NEW v \in Data
  PROVE  /\ Put(c, i, v) \in Contents
         /\ Len(Put(c, i, v)) = IF i > Len(c) THEN i ELSE Len(c)
         /\ Put(c, i, v)[i] = v
         /\ \A j \in 1..Len(c) : j # i => Put(c, i, v)[j] = c[j]
<1>. DEFINE n == IF i > Len(c) THEN i ELSE Len(c)
<1>1. c \in Seq(Data) /\ Len(c) \in 0..MaxLen /\ c \in [1..Len(c) -> Data]
  BY ContentsAsSeq, LenProperties
<1>2. n \in 0..MaxLen /\ n \in Nat /\ i \in 1..n /\ Len(c) <= n
  BY <1>1, MaxLenAssumption
<1>3. Put(c, i, v) \in [1..n -> Data]
  BY <1>1, <1>2 DEF Put, Data
<1>4. Put(c, i, v) \in Contents
  BY <1>2, <1>3 DEF Contents, Data
<1>5. Len(Put(c, i, v)) = n
  <2>1. Put(c, i, v) \in Seq(Data)
    BY <1>4, ContentsAsSeq
  <2>2. DOMAIN Put(c, i, v) = 1..Len(Put(c, i, v)) /\ Len(Put(c, i, v)) \in Nat
    BY <2>1, LenProperties
  <2>. QED
    BY <1>2, <1>3, <2>2
<1>6. Put(c, i, v)[i] = v
  BY <1>2 DEF Put
<1>7. \A j \in 1..Len(c) : j # i => Put(c, i, v)[j] = c[j]
  BY <1>1, <1>2 DEF Put
<1>. QED
  BY <1>4, <1>5, <1>6, <1>7

\* What a truncate() leaves behind.
LEMMA ResizeContents ==
  ASSUME NEW c \in Contents, NEW n \in 0..MaxLen
  PROVE  Resize(c, n) \in Contents
<1>1. c \in Seq(Data) /\ Len(c) \in Nat /\ c \in [1..Len(c) -> Data]
  BY ContentsAsSeq, LenProperties
<1>2. Resize(c, n) \in [1..n -> Data]
  BY <1>1, MaxLenAssumption DEF Resize, Data
<1>. QED
  BY <1>2 DEF Contents, Data

\* What a short write() leaves of a download.
LEMMA LoseContents ==
  ASSUME NEW c \in Contents, NEW i \in 1..Len(c)
  PROVE  /\ Lose(c, i) \in Contents /\ Len(Lose(c, i)) = Len(c) - 1
         /\ \A j \in 1..i - 1 : Lose(c, i)[j] = c[j]
<1>1. Len(c) \in 0..MaxLen /\ c \in [1..Len(c) -> Data]
  BY ContentsAsSeq, LenProperties
<1>2. Len(c) - 1 \in 0..MaxLen /\ i \in Nat
  BY <1>1, MaxLenAssumption
<1>3. Lose(c, i) \in [1..Len(c) - 1 -> Data]
  BY <1>1, <1>2, MaxLenAssumption DEF Lose
<1>4. Lose(c, i) \in Contents
  BY <1>2, <1>3 DEF Contents, Data
<1>5. Len(Lose(c, i)) = Len(c) - 1
  <2>1. Lose(c, i) \in Seq(Data)
    BY <1>4, ContentsAsSeq
  <2>2. DOMAIN Lose(c, i) = 1..Len(c) - 1
    BY <1>3
  <2>. QED
    BY <1>2, <2>1, <2>2, LenProperties
<1>6. \A j \in 1..i - 1 : Lose(c, i)[j] = c[j]
  BY <1>1, <1>2, MaxLenAssumption DEF Lose
<1>. QED
  BY <1>4, <1>5, <1>6

\* The empty file is a content, and a longer one grows by a chunk at a time.
LEMMA EmptyContents == <<>> \in Contents
<1>1. <<>> \in Seq(Data) /\ Len(<<>>) = 0
  OBVIOUS
<1>2. 0 \in 0..MaxLen
  BY MaxLenAssumption
<1>. QED
  BY <1>1, <1>2, ContentsAsSeq

LEMMA AppendContents ==
  ASSUME NEW c \in Contents, NEW v \in Data, Len(c) < MaxLen
  PROVE  Append(c, v) \in Contents
<1>1. c \in Seq(Data) /\ Len(c) \in 0..MaxLen
  BY ContentsAsSeq
<1>2. Append(c, v) \in Seq(Data) /\ Len(Append(c, v)) = Len(c) + 1
  BY <1>1
<1>3. Len(Append(c, v)) \in 0..MaxLen
  BY <1>1, <1>2, MaxLenAssumption
<1>. QED
  BY <1>2, <1>3, ContentsAsSeq

-----------------------------------------------------------------------------
(* Type correctness. *)

LEMMA InitType == Init => TypeOK
<1>1. 1 \in 1..MaxLen + 1 /\ 0 \in 0..MaxLen /\ -1 \in -1..MaxLen
  BY MaxLenAssumption
<1>2. EditedContents \subseteq Contents
  BY DEF EditedContents, Contents
<1>. QED
  BY <1>1, <1>2, EmptyContents DEF Init, TypeOK, Steps, Resting

LEMMA FinishType ==
  ASSUME TypeOK, NEW s \in Sessions, Finish(s)
  PROVE  /\ pc' \in [Sessions -> Steps]
         /\ op' \in [Sessions -> {"open", "truncate", "unlink"}]
         /\ file' \in [Sessions -> Files \cup {NoSession}]
         /\ writable' \in [Sessions -> BOOLEAN]
         /\ changed' \in [Sessions -> BOOLEAN]
         /\ buf' \in [Sessions -> Contents]
         /\ pos' \in [Sessions -> 1..MaxLen + 1]
         /\ newSize' \in [Sessions -> 0..MaxLen]
         /\ wrote' \subseteq Sessions
<1>1. 1 \in 1..MaxLen + 1 /\ 0 \in 0..MaxLen
  BY MaxLenAssumption
<1>. QED
  BY <1>1, EmptyContents DEF TypeOK, Finish, Steps, Resting

\* The end of the process leaves only the store, its directories and the drive.
LEMMA DieType ==
  ASSUME TypeOK, Die, store' \in [Files -> Contents \cup {NoFile}], dirs' \subseteq Dirs,
         remote' \in [Files -> Contents \cup {NoFile}]
  PROVE  TypeOK'
<1>1. 1 \in 1..MaxLen + 1 /\ 0 \in 0..MaxLen /\ -1 \in -1..MaxLen
  BY MaxLenAssumption
<1>. QED
  BY <1>1, EmptyContents DEF TypeOK, Die, Steps, Resting

\* A create() that ends the process has made nothing: its copy's directory is missing.
LEMMA DyingOpen ==
  ASSUME TypeOK, NEW s \in Sessions, OpenNew(s), Die
  PROVE  UNCHANGED <<store, dirs, remote>>
<1>1. UNCHANGED <<dirs, remote>>
  BY DEF OpenNew
<1>2. pc'[s] = "idle"
  BY DEF Die
<1>3. pc' = [pc EXCEPT ![s] = "open"] \/ UNCHANGED store
  BY DEF OpenNew
<1>4. pc' # [pc EXCEPT ![s] = "open"]
  BY <1>2 DEF TypeOK
<1>. QED
  BY <1>1, <1>3, <1>4

\* A session that is in use has a file, and its copy unless it is about to make or
\* to delete it.
LEMMA SessionFile ==
  ASSUME TypeOK, SessionOK, NEW s \in Sessions, pc[s] # "idle"
  PROVE  /\ file[s] \in Files
         /\ pc[s] \in {"append", "make", "meta"} => remote[file[s]] \in Contents
         /\ pc[s] \notin {"creat", "make"} \cup Removing => store[file[s]] \in Contents
BY DEF TypeOK, SessionOK

\* The length of a content is a number within the bound, and its chunks are data.
LEMMA ContentsLen ==
  ASSUME NEW c \in Contents
  PROVE  /\ Len(c) \in 0..MaxLen
         /\ \A i \in 1..Len(c) : c[i] \in Data
BY ContentsAsSeq, ElementOfSeq

\* A download writes a chunk it has, at an offset of the file.
LEMMA AppendFacts ==
  ASSUME TypeOK, SessionOK, NEW s \in Sessions, AppendChunk(s)
  PROVE  /\ file[s] \in Files /\ store[file[s]] \in Contents /\ buf[s] \in Contents
         /\ pos[s] \in 1..MaxLen /\ pos[s] + 1 \in 1..MaxLen + 1 /\ pos[s] <= Len(buf[s])
         /\ buf[s][pos[s]] \in Data
         /\ Put(store[file[s]], pos[s], buf[s][pos[s]]) \in Contents
<1>1. file[s] \in Files /\ store[file[s]] \in Contents /\ buf[s] \in Contents
  BY SessionFile DEF AppendChunk, TypeOK, Removing
<1>2. Len(buf[s]) \in 0..MaxLen /\ \A i \in 1..Len(buf[s]) : buf[s][i] \in Data
  BY <1>1, ContentsLen
<1>3. pos[s] \in 1..MaxLen + 1 /\ pos[s] <= Len(buf[s])
  BY DEF AppendChunk, TypeOK
<1>4. pos[s] \in 1..MaxLen /\ pos[s] + 1 \in 1..MaxLen + 1 /\ buf[s][pos[s]] \in Data
  BY <1>2, <1>3, MaxLenAssumption
<1>5. Put(store[file[s]], pos[s], buf[s][pos[s]]) \in Contents
  BY <1>1, <1>4, PutContents
<1>. QED
  BY <1>1, <1>3, <1>4, <1>5

LEMMA TypeStep ==
  ASSUME TypeOK, SessionOK, [Next]_vars
  PROVE  TypeOK'
<1>. USE MaxLenAssumption
<1>1. ASSUME NEW s \in Sessions, CreatCopy(s)
      PROVE  TypeOK'
  <2>1. file[s] \in Files /\ DirOf[file[s]] \in Dirs
    BY <1>1, SessionFile, DirOfAssumption DEF CreatCopy
  <2>. QED
    BY <1>1, <2>1, EmptyContents DEF CreatCopy, TypeOK, Steps, Downloading, history
<1>2. ASSUME NEW s \in Sessions, Fetch(s)
      PROVE  TypeOK'
  BY <1>2, SessionFile DEF Fetch, TypeOK, Steps, Downloading, history, local
<1>3. ASSUME NEW s \in Sessions, AppendChunk(s)
      PROVE  TypeOK'
  BY <1>3, AppendFacts DEF AppendChunk, TypeOK, history
<1>4. ASSUME NEW s \in Sessions, DownloadDone(s)
      PROVE  TypeOK'
  BY <1>4, EmptyContents DEF DownloadDone, TypeOK, Steps, Resting, history, local
<1>5. ASSUME NEW s \in Sessions, ResizeCopy(s)
      PROVE  TypeOK'
  <2>1. file[s] \in Files /\ store[file[s]] \in Contents
    BY <1>5, SessionFile DEF ResizeCopy, Removing
  <2>2. Resize(store[file[s]], newSize[s]) \in Contents
    BY <2>1, ResizeContents DEF TypeOK
  <2>. QED
    BY <1>5, <2>1, <2>2, FinishType DEF ResizeCopy, TypeOK
<1>6. ASSUME NEW s \in Sessions, OpenNew(s)
      PROVE  TypeOK'
  <2>1. file[s] \in Files
    BY <1>6, SessionFile DEF OpenNew
  <2>2. CASE Die
    <3>1. UNCHANGED <<store, dirs, remote>>
      BY <1>6, <2>2, DyingOpen
    <3>2. /\ store' \in [Files -> Contents \cup {NoFile}] /\ dirs' \subseteq Dirs
          /\ remote' \in [Files -> Contents \cup {NoFile}]
      BY <3>1 DEF TypeOK
    <3>. QED
      BY <2>2, <3>2, DieType
  <2>3. CASE ~Die
    <3>1. store' = [store EXCEPT ![file[s]] = <<>>]
      BY <1>6, <2>3 DEF OpenNew
    <3>. QED
      BY <1>6, <2>1, <2>3, <3>1, EmptyContents DEF OpenNew, TypeOK, Steps, Resting
  <2>. QED
    BY <2>2, <2>3
<1>7. ASSUME NEW s \in Sessions, OpenForUpload(s)
      PROVE  TypeOK'
  BY <1>7 DEF OpenForUpload, TypeOK, Steps, Uploading, local
<1>8. ASSUME NEW s \in Sessions, SendChunk(s)
      PROVE  TypeOK'
  <2>3. buf[s] \in Contents /\ store[file[s]] \in Contents
    BY <1>8, SessionFile DEF SendChunk, TypeOK, Removing
  <2>4. /\ Len(buf[s]) \in 0..MaxLen /\ Len(store[file[s]]) \in 0..MaxLen
        /\ \A i \in 1..Len(store[file[s]]) : store[file[s]][i] \in Data
    BY <2>3, ContentsLen
  <2>1. Len(buf[s]) < MaxLen /\ store[file[s]][Len(buf[s]) + 1] \in Data
    BY <1>8, <2>4 DEF SendChunk
  <2>2. Append(buf[s], store[file[s]][Len(buf[s]) + 1]) \in Contents
    BY <2>1, <2>3, AppendContents
  <2>. QED
    BY <1>8, <2>2 DEF SendChunk, TypeOK, history, local
<1>9. ASSUME NEW s \in Sessions, UploadLands(s)
      PROVE  TypeOK'
  BY <1>9, SessionFile DEF UploadLands, TypeOK, Steps, Uploading, history, local
<1>10. ASSUME NEW s \in Sessions, FetchMeta(s)
       PROVE  TypeOK'
  <2>1. file[s] \in Files /\ Len(remote[file[s]]) \in -1..MaxLen
    BY <1>10, SessionFile, ContentsLen DEF FetchMeta
  <2>. QED
    BY <1>10, <2>1, FinishType DEF FetchMeta, TypeOK, history, local
<1>11. ASSUME NEW s \in Sessions, NEW f \in Files, NEW o \in {"open", "truncate"},
              NEW w \in BOOLEAN, NEW n \in 0..MaxLen, Begin(s, f, o, w, n)
       PROVE  TypeOK'
  BY <1>11 DEF Begin, TypeOK, Steps, Downloading, Resting, history, local
<1>12. ASSUME NEW s \in Sessions, NEW f \in Files, Create(s, f)
       PROVE  TypeOK'
  BY <1>12, EmptyContents DEF Create, TypeOK, Steps, history, local
<1>13. ASSUME NEW s \in Sessions, NEW i \in 1..MaxLen, NEW v \in Chunks, Write(s, i, v)
       PROVE  TypeOK'
  <2>1. file[s] \in Files /\ store[file[s]] \in Contents /\ v \in Data
    BY <1>13, SessionFile DEF Write, Data, Removing
  <2>2. Put(store[file[s]], i, v) \in Contents
    BY <2>1, PutContents
  <2>. QED
    BY <1>13, <2>1, <2>2 DEF Write, TypeOK
<1>14. ASSUME NEW s \in Sessions, Release(s)
       PROVE  TypeOK'
  BY <1>14, FinishType DEF Release, TypeOK, Steps, Uploading, history, local
<1>15. ASSUME NEW s \in Sessions, DownloadFails(s)
       PROVE  TypeOK'
  <2>1. file[s] \in Files
    BY <1>15, SessionFile DEF DownloadFails, Downloading
  <2>2. CASE Die
    BY <1>15, <2>2, DieType DEF DownloadFails, TypeOK, local
  <2>3. CASE ~Die
    BY <1>15, <2>1, <2>3, FinishType DEF DownloadFails, TypeOK, local
  <2>. QED
    BY <2>2, <2>3
<1>16. ASSUME NEW s \in Sessions, WriteFails(s)
       PROVE  TypeOK'
  BY <1>16, DieType DEF WriteFails, TypeOK, local
<1>17. ASSUME NEW s \in Sessions, UploadFails(s)
       PROVE  TypeOK'
  <2>1. remote' \in [Files -> Contents \cup {NoFile}]
    BY <1>17, SessionFile DEF UploadFails, TypeOK
  <2>. QED
    BY <1>17, <2>1, DieType DEF UploadFails, TypeOK, local
<1>18. ASSUME NEW s \in Sessions, ShortWrite(s)
       PROVE  TypeOK'
  <2>1. file[s] \in Files /\ buf[s] \in Contents /\ pos[s] \in 1..Len(buf[s])
    <3>1. file[s] \in Files /\ buf[s] \in Contents
      BY <1>18, SessionFile DEF ShortWrite, TypeOK
    <3>2. Len(buf[s]) \in 0..MaxLen /\ pos[s] \in 1..MaxLen + 1 /\ pos[s] <= Len(buf[s])
      BY <1>18, <3>1, ContentsLen DEF ShortWrite, TypeOK
    <3>. QED
      BY <3>1, <3>2
  <2>2. Lose(buf[s], pos[s]) \in Contents
    BY <2>1, LoseContents
  <2>. QED
    BY <1>18, <2>1, <2>2 DEF ShortWrite, TypeOK, local
<1>19. ASSUME NEW s \in Sessions, RemoveRemote(s)
       PROVE  TypeOK'
  BY <1>19 DEF RemoveRemote, TypeOK, Steps, Removing, history, local
<1>20. ASSUME NEW s \in Sessions, DeleteCopy(s)
       PROVE  TypeOK'
  <2>1. -1 \in -1..MaxLen
    OBVIOUS
  <2>. QED
    BY <1>20, <2>1, FinishType DEF DeleteCopy, TypeOK, history
<1>21. ASSUME NEW s \in Sessions, RemoveFails(s)
       PROVE  TypeOK'
  <2>1. remote' \in [Files -> Contents \cup {NoFile}]
    BY <1>21 DEF RemoveFails, TypeOK
  <2>. QED
    BY <1>21, <2>1, FinishType DEF RemoveFails, TypeOK, history, local
<1>22. ASSUME NEW f \in Files, Lookup(f)
       PROVE  TypeOK'
  <2>1. Len(remote[f]) \in -1..MaxLen
    BY <1>22, ContentsLen DEF Lookup, TypeOK
  <2>. QED
    BY <1>22, <2>1 DEF Lookup, TypeOK, session, history, local
<1>23. ASSUME NEW s \in Sessions, NEW f \in Files, Unlink(s, f)
       PROVE  TypeOK'
  BY <1>23 DEF Unlink, TypeOK, Steps, Removing, history, local
<1>24. ASSUME NEW f \in Files, NEW c \in EditedContents, EditRemote(f, c)
       PROVE  TypeOK'
  <2>1. c \in Contents
    BY DEF EditedContents, Contents
  <2>. QED
    BY <1>24, <2>1 DEF EditRemote, TypeOK, session, local
<1>25. ASSUME Crash
       PROVE  TypeOK'
  BY <1>25, DieType DEF Crash, TypeOK, local
<1>26. ASSUME Restart
       PROVE  TypeOK'
  BY <1>26 DEF Restart, TypeOK, session, history, local
<1>27. CASE UNCHANGED vars
  BY <1>27 DEF vars, TypeOK, session, history, local
<1>28. ASSUME NEW s \in Sessions, Request(s)
       PROVE  TypeOK'
  <2>1. 0 \in 0..MaxLen
    OBVIOUS
  <2>. QED
    BY <1>11, <1>12, <1>13, <1>14, <1>23, <1>28, <2>1 DEF Request, Open, Truncate
<1>29. ASSUME NEW s \in Sessions, HandlerStep(s) \/ Failure(s)
       PROVE  TypeOK'
  BY <1>1, <1>2, <1>3, <1>4, <1>5, <1>6, <1>7, <1>8, <1>9, <1>10, <1>15, <1>16, <1>17, <1>29,
     <1>18, <1>19, <1>20, <1>21 DEF HandlerStep, HandlerFails, Failure
<1>. QED
  BY <1>22, <1>24, <1>25, <1>26, <1>27, <1>28, <1>29 DEF Next

-----------------------------------------------------------------------------
(* Where a session is, and what it has done. *)

LEMMA InitSession == Init => SessionOK
BY NoSessionAssumption DEF Init, SessionOK, Uploading, Removing

LEMMA DieSession ==
  ASSUME TypeOK, Die
  PROVE  SessionOK'
BY DEF Die, TypeOK, SessionOK, Uploading, Removing

\* What the sessions of other files and handlers rely on is still there.
Kept(s) ==
  /\ \A f \in Files : (\E t \in Sessions : t # s /\ file[t] = f) =>
       (remote[f] = NoFile <=> remote'[f] = NoFile) /\ (store[f] # NoFile => store'[f] # NoFile)
  /\ touched \subseteq touched'

\* Finishing a session does not disturb the others.
LEMMA FinishSession ==
  ASSUME TypeOK, SessionOK, NEW s \in Sessions, Finish(s), Kept(s)
  PROVE  SessionOK'
BY NoSessionAssumption DEF TypeOK, SessionOK, Finish, Kept, Uploading, Removing

\* An unlink() has its file to itself.
LEMMA AloneOnFile ==
  ASSUME TypeOK, SessionOK, NEW s \in Sessions, pc[s] \in Removing
  PROVE  /\ file[s] \in Files
         /\ \A t \in Sessions : t # s => file[t] # file[s]
BY NoSessionAssumption DEF TypeOK, SessionOK, Removing

LEMMA SessionStep ==
  ASSUME TypeOK, SessionOK, [Next]_vars
  PROVE  SessionOK'
<1>. USE MaxLenAssumption, NoSessionAssumption
<1>0. \A c \in Contents : c # NoFile
  BY NoFileAssumption
<1>1. ASSUME NEW s \in Sessions, CreatCopy(s)
      PROVE  SessionOK'
  BY <1>0, <1>1, SessionFile, EmptyContents
     DEF CreatCopy, TypeOK, SessionOK, Uploading, Removing, history
<1>2. ASSUME NEW s \in Sessions, Fetch(s)
      PROVE  SessionOK'
  BY <1>2 DEF Fetch, TypeOK, SessionOK, Uploading, Removing, history, local
<1>3. ASSUME NEW s \in Sessions, AppendChunk(s)
      PROVE  SessionOK'
  <2>1. \A f \in Files : store[f] # NoFile => store'[f] # NoFile
    BY <1>0, <1>3, AppendFacts DEF AppendChunk, TypeOK
  <2>. QED
    BY <1>3, <2>1, SMTT(20) DEF AppendChunk, TypeOK, SessionOK, Uploading, Removing, history
<1>4. ASSUME NEW s \in Sessions, ShortWrite(s)
      PROVE  SessionOK'
  BY <1>4 DEF ShortWrite, TypeOK, SessionOK, Uploading, Removing, local
<1>5. ASSUME NEW s \in Sessions, DownloadDone(s)
      PROVE  SessionOK'
  BY <1>5 DEF DownloadDone, TypeOK, SessionOK, Uploading, Removing, history, local
<1>6. ASSUME NEW s \in Sessions, ResizeCopy(s)
      PROVE  SessionOK'
  <2>1. \A f \in Files : store[f] # NoFile => store'[f] # NoFile
    BY <1>0, <1>6, SessionFile, ResizeContents DEF TypeOK, ResizeCopy, Removing
  <2>2. Kept(s)
    BY <1>6, <2>1 DEF ResizeCopy, Kept
  <2>. QED
    BY <1>6, <2>2, FinishSession DEF ResizeCopy
<1>7. ASSUME NEW s \in Sessions, OpenNew(s)
      PROVE  SessionOK'
  <2>1. CASE Die
    BY <2>1, DieSession
  <2>2. CASE ~Die
    <3>1. /\ pc[s] = "make" /\ file[s] \in Files
          /\ store' = [store EXCEPT ![file[s]] = <<>>]
          /\ touched' = touched \cup {file[s]}
          /\ changed' = [changed EXCEPT ![s] = TRUE]
          /\ wrote' = wrote \cup {s}
          /\ pc' = [pc EXCEPT ![s] = "open"]
          /\ UNCHANGED <<remote, op, file, writable, pos>>
      BY <1>7, <2>2, SessionFile DEF OpenNew
    <3>. QED
      BY <1>0, <3>1, EmptyContents DEF TypeOK, SessionOK, Uploading, Removing
  <2>. QED
    BY <2>1, <2>2
<1>8. ASSUME NEW s \in Sessions, OpenForUpload(s)
      PROVE  SessionOK'
  BY <1>8 DEF OpenForUpload, TypeOK, SessionOK, Uploading, Removing, local
<1>9. ASSUME NEW s \in Sessions, SendChunk(s)
      PROVE  SessionOK'
  BY <1>9 DEF SendChunk, TypeOK, SessionOK, Uploading, Removing, history, local
<1>10. ASSUME NEW s \in Sessions, UploadLands(s)
       PROVE  SessionOK'
  <2>1. buf[s] # NoFile
    BY <1>0 DEF TypeOK
  <2>. QED
    BY <1>10, <2>1 DEF UploadLands, TypeOK, SessionOK, Uploading, Removing, history, local
<1>11. ASSUME NEW s \in Sessions, FetchMeta(s)
       PROVE  SessionOK'
  <2>1. Kept(s)
    BY <1>11 DEF FetchMeta, Kept, history, local
  <2>. QED
    BY <1>11, <2>1, FinishSession DEF FetchMeta
<1>12. ASSUME NEW s \in Sessions, RemoveRemote(s)
       PROVE  SessionOK'
  <2>1. \A t \in Sessions : t # s => file[t] # file[s]
    BY <1>12, AloneOnFile DEF RemoveRemote, Removing
  <2>. QED
    BY <1>12, <2>1 DEF RemoveRemote, TypeOK, SessionOK, Uploading, Removing, history, local
<1>13. ASSUME NEW s \in Sessions, DeleteCopy(s)
       PROVE  SessionOK'
  <2>1. Kept(s)
    BY <1>13, AloneOnFile DEF DeleteCopy, Kept, TypeOK, Removing, history
  <2>. QED
    BY <1>13, <2>1, FinishSession DEF DeleteCopy
<1>14. ASSUME NEW s \in Sessions, NEW f \in Files, NEW o \in {"open", "truncate"},
              NEW w \in BOOLEAN, NEW n \in 0..MaxLen, Begin(s, f, o, w, n)
       PROVE  SessionOK'
  BY <1>14 DEF Begin, Visible, TypeOK, SessionOK, Uploading, Removing, history, local
<1>15. ASSUME NEW s \in Sessions, NEW f \in Files, Create(s, f)
       PROVE  SessionOK'
  BY <1>0, <1>15, EmptyContents
     DEF Create, Unused, TypeOK, SessionOK, Uploading, Removing, history, local
<1>16. ASSUME NEW s \in Sessions, NEW f \in Files, Unlink(s, f)
       PROVE  SessionOK'
  BY <1>16 DEF Unlink, TypeOK, SessionOK, Uploading, Removing, history, local
<1>17. ASSUME NEW s \in Sessions, NEW i \in 1..MaxLen, NEW v \in Chunks, Write(s, i, v)
       PROVE  SessionOK'
  <2>1. \A f \in Files : store[f] # NoFile => store'[f] # NoFile
    BY <1>0, <1>17, SessionFile, PutContents DEF Write, TypeOK, Data, Removing
  <2>. QED
    BY <1>17, <2>1 DEF Write, TypeOK, SessionOK, Uploading, Removing
<1>18. ASSUME NEW s \in Sessions, Release(s)
       PROVE  SessionOK'
  <2>1. CASE Finish(s)
    <3>1. Kept(s)
      BY <1>18 DEF Release, Kept, history, local
    <3>. QED
      BY <2>1, <3>1, FinishSession
  <2>2. CASE ~Finish(s)
    BY <1>18, <2>2 DEF Release, TypeOK, SessionOK, Uploading, Removing, history, local
  <2>. QED
    BY <2>1, <2>2
<1>19. ASSUME NEW s \in Sessions, DownloadFails(s) \/ WriteFails(s) \/ UploadFails(s)
       PROVE  SessionOK'
  <2>1. CASE Die
    BY <2>1, DieSession
  <2>2. CASE ~Die
    <3>1. Finish(s) /\ Kept(s)
      BY <1>19, <2>2 DEF DownloadFails, WriteFails, UploadFails, Kept, local
    <3>. QED
      BY <3>1, FinishSession
  <2>. QED
    BY <2>1, <2>2
<1>20. ASSUME NEW s \in Sessions, RemoveFails(s)
       PROVE  SessionOK'
  <2>1. Kept(s)
    BY <1>20, AloneOnFile DEF RemoveFails, Kept, TypeOK, Removing, history, local
  <2>. QED
    BY <1>20, <2>1, FinishSession DEF RemoveFails
<1>21. ASSUME NEW f \in Files, Lookup(f)
       PROVE  SessionOK'
  BY <1>21 DEF Lookup, TypeOK, SessionOK, Uploading, session, history, local
<1>22. ASSUME NEW f \in Files, NEW c \in EditedContents, EditRemote(f, c)
       PROVE  SessionOK'
  <2>1. c # NoFile
    BY <1>0 DEF EditedContents, Contents
  <2>. QED
    BY <1>22, <2>1 DEF EditRemote, TypeOK, SessionOK, Uploading, session, local
<1>23. ASSUME Crash
       PROVE  SessionOK'
  BY <1>23, DieSession DEF Crash
<1>24. ASSUME Restart
       PROVE  SessionOK'
  BY <1>24 DEF Restart, SessionOK, session, history, local
<1>25. CASE UNCHANGED vars
  BY <1>25 DEF vars, SessionOK, session, history, local
<1>26. ASSUME NEW s \in Sessions, Request(s)
       PROVE  SessionOK'
  <2>1. 0 \in 0..MaxLen
    OBVIOUS
  <2>. QED
    BY <1>14, <1>15, <1>16, <1>17, <1>18, <1>26, <2>1 DEF Request, Open, Truncate
<1>27. ASSUME NEW s \in Sessions, HandlerStep(s) \/ Failure(s)
       PROVE  SessionOK'
  BY <1>1, <1>2, <1>3, <1>4, <1>5, <1>6, <1>7, <1>8, <1>9, <1>10, <1>11, <1>12, <1>13, <1>19,
     <1>20, <1>27 DEF HandlerStep, HandlerFails, Failure
<1>. QED
  BY <1>21, <1>22, <1>23, <1>24, <1>25, <1>26, <1>27 DEF Next

-----------------------------------------------------------------------------
(* Clean copies. *)

LEMMA InitDownload == Init => DownloadOK
BY DEF Init, DownloadOK, CopyExplained, Downloads, CleanFiles

\* A step that leaves a file, its copy and its downloads alone.
Untouched(f) ==
  /\ f \in CleanFiles
  /\ store'[f] = store[f] /\ remote'[f] = remote[f]
  /\ \A s \in Sessions :
       s \in Downloads(f) => s \in Downloads(f)' /\ pos'[s] = pos[s]
  /\ \A s \in Sessions :
       s \in Downloads(f)' => s \in Downloads(f) /\ buf'[s] = buf[s] /\ pc'[s] = pc[s]

Absent(f) == store'[f] = NoFile /\ Downloads(f)' = {}

LEMMA DownloadFrame ==
  ASSUME DownloadOK, NEW f \in Files, Untouched(f) \/ Absent(f)
  PROVE  CopyExplained(f)'
<1>0. Downloads(f) \subseteq Sessions /\ Downloads(f)' \subseteq Sessions
  BY DEF Downloads
<1>1. CASE Untouched(f)
  <2>1. CopyExplained(f)
    BY <1>1 DEF DownloadOK, Untouched
  <2>. QED
    BY <1>0, <1>1, <2>1 DEF CopyExplained, Untouched
<1>2. CASE Absent(f)
  BY <1>2 DEF CopyExplained, Absent
<1>. QED
  BY <1>1, <1>2

\* When the process dies, the downloads it loses spoil their files.
LEMMA DieDownload ==
  ASSUME DownloadOK, Die, UNCHANGED store,
         \A f \in CleanFiles' : remote'[f] = remote[f]
  PROVE  DownloadOK'
<1>1. ASSUME NEW f \in CleanFiles'
      PROVE  f \in Files /\ Untouched(f)
  BY <1>1 DEF Die, Untouched, Downloads, CleanFiles
<1>. QED
  BY <1>1, DownloadFrame DEF DownloadOK

\* A download that has written all it has fetched ends, whatever comes after it.
Ended(s) ==
  /\ pc[s] = "append" /\ pos[s] > Len(buf[s])
  /\ UNCHANGED <<store, remote>> /\ CleanFiles' = CleanFiles
  /\ pc'[s] \notin {"fetch", "append"}
  /\ \A t \in Sessions : t # s =>
       /\ pc'[t] = pc[t] /\ file'[t] = file[t] /\ buf'[t] = buf[t] /\ pos'[t] = pos[t]

LEMMA DownloadEnds ==
  ASSUME TypeOK, SessionOK, DownloadOK, NEW s \in Sessions, Ended(s)
  PROVE  DownloadOK'
<1>1. ASSUME NEW f \in CleanFiles', f # file[s]
      PROVE  f \in Files /\ Untouched(f)
  BY <1>1 DEF Ended, Untouched, Downloads, CleanFiles
<1>2. ASSUME NEW f \in CleanFiles', f = file[s]
      PROVE  CopyExplained(f)'
  <2>1. /\ f \in Files /\ CopyExplained(f) /\ s \in Downloads(f) /\ remote[f] # NoFile
        /\ Downloads(f) \subseteq Sessions
    BY <1>2 DEF Ended, CleanFiles, DownloadOK, Downloads
  <2>2. Downloads(f)' = Downloads(f) \ {s}
    BY <1>2 DEF Ended, Downloads
  <2>3. buf[s] = remote[f] /\ pos[s] > Len(remote[f])
    BY <2>1 DEF Ended, CopyExplained
  <2>4. remote[f] \in Contents /\ Len(remote[f]) \in Nat /\ pos \in [Sessions -> Nat]
    BY <2>1, ContentsLen, MaxLenAssumption DEF TypeOK
  <2>5. /\ store' = store /\ remote' = remote
        /\ \A t \in Sessions : t # s => pc'[t] = pc[t] /\ buf'[t] = buf[t] /\ pos'[t] = pos[t]
    BY DEF Ended
  <2>6. ASSUME NEW i \in 1..Len(remote[f]), NEW t \in Downloads(f), pos[t] <= i
        PROVE  t \in Downloads(f)' /\ pos'[t] <= i
    BY <2>1, <2>2, <2>3, <2>4, <2>5, <2>6
  <2>7. \A t \in Downloads(f)' : pc'[t] = "append" => buf'[t] = remote'[f]
    BY <2>1, <2>2, <2>5 DEF CopyExplained
  <2>8. ASSUME store'[f] # NoFile
        PROVE  /\ Len(store'[f]) <= Len(remote'[f])
               /\ \A i \in 1..Len(remote'[f]) :
                    \/ i <= Len(store'[f]) /\ store'[f][i] = remote'[f][i]
                    \/ \E t \in Downloads(f)' : pos'[t] <= i
    BY <2>1, <2>5, <2>6, <2>8 DEF CopyExplained
  <2>. QED
    BY <2>7, <2>8 DEF CopyExplained
<1>. QED
  BY <1>1, <1>2, DownloadFrame DEF DownloadOK

LEMMA DownloadStep ==
  ASSUME TypeOK, SessionOK, DownloadOK, [Next]_vars
  PROVE  DownloadOK'
<1>. USE NoSessionAssumption
<1>0. \A c \in Contents : c # NoFile
  BY NoFileAssumption
<1>1. ASSUME NEW s \in Sessions, CreatCopy(s)
      PROVE  DownloadOK'
  <2>1. ASSUME NEW f \in CleanFiles', f # file[s]
        PROVE  f \in Files /\ Untouched(f)
    BY <1>1, <2>1 DEF CreatCopy, Untouched, Downloads, CleanFiles, TypeOK, history
  <2>2. ASSUME NEW f \in CleanFiles', f = file[s]
        PROVE  CopyExplained(f)'
    <3>1. f \in CleanFiles /\ f \in Files /\ CopyExplained(f)
      BY <1>1, <2>2 DEF CreatCopy, CleanFiles, DownloadOK, history
    <3>2. s \in Downloads(f)' /\ pos'[s] = 1 /\ pc'[s] = "fetch"
      BY <1>1, <2>2 DEF CreatCopy, Downloads, TypeOK, SessionOK
    <3>3. \A t \in Downloads(f)' : pc'[t] = "append" => buf'[t] = remote'[f]
      BY <1>1, <2>2, <3>1 DEF CreatCopy, Downloads, TypeOK, CopyExplained
    <3>4. store'[f] = <<>> /\ remote'[f] = remote[f] /\ remote[f] \in Contents
      BY <1>1, <2>2, <3>1 DEF CreatCopy, TypeOK, CleanFiles
    <3>5. Len(remote[f]) \in Nat
      BY <3>4, ContentsLen
    <3>. QED
      BY <3>2, <3>3, <3>4, <3>5 DEF CopyExplained
  <2>. QED
    BY <2>1, <2>2, DownloadFrame DEF DownloadOK
<1>2. ASSUME NEW s \in Sessions, Fetch(s)
      PROVE  DownloadOK'
  <2>1. ASSUME NEW f \in CleanFiles', f # file[s]
        PROVE  f \in Files /\ Untouched(f)
    BY <1>2, <2>1 DEF Fetch, Untouched, Downloads, CleanFiles, TypeOK, history, local
  <2>2. ASSUME NEW f \in CleanFiles', f = file[s]
        PROVE  CopyExplained(f)'
    <3>1. f \in Files /\ CopyExplained(f)
      BY <1>2, <2>2 DEF Fetch, CleanFiles, DownloadOK, history
    <3>2. Downloads(f)' = Downloads(f)
      BY <1>2 DEF Fetch, Downloads, TypeOK
    <3>3. \A t \in Downloads(f) : pc'[t] = "append" => buf'[t] = remote'[f]
      BY <1>2, <2>2, <3>1 DEF Fetch, Downloads, TypeOK, CopyExplained
    <3>. QED
      BY <1>2, <3>1, <3>2, <3>3 DEF Fetch, CopyExplained, local
  <2>. QED
    BY <2>1, <2>2, DownloadFrame DEF DownloadOK
<1>3. ASSUME NEW s \in Sessions, AppendChunk(s)
      PROVE  DownloadOK'
  <2>1. ASSUME NEW f \in CleanFiles', f # file[s]
        PROVE  f \in Files /\ Untouched(f)
    BY <1>3, <2>1 DEF AppendChunk, Untouched, Downloads, CleanFiles, TypeOK, history
  <2>2. ASSUME NEW f \in CleanFiles', f = file[s]
        PROVE  CopyExplained(f)'
    <3>. DEFINE old == store[f]
                new == Put(old, pos[s], buf[s][pos[s]])
    <3>1. f \in Files /\ CopyExplained(f) /\ s \in Downloads(f)
      BY <1>3, <2>2 DEF AppendChunk, CleanFiles, DownloadOK, Downloads, history
    <3>2. Downloads(f)' = Downloads(f) /\ Downloads(f) \subseteq Sessions
      BY <1>3 DEF AppendChunk, Downloads
    <3>3. buf[s] = remote[f]
      BY <1>3, <3>1 DEF AppendChunk, CopyExplained
    <3>4. /\ old \in Contents /\ pos[s] \in 1..MaxLen /\ pos[s] <= Len(remote[f])
          /\ buf[s][pos[s]] \in Data /\ remote[f] \in Contents
      BY <1>3, <2>2, <3>3, AppendFacts
    <3>5. /\ Len(new) = IF pos[s] > Len(old) THEN pos[s] ELSE Len(old)
          /\ new[pos[s]] = remote[f][pos[s]]
          /\ \A j \in 1..Len(old) : j # pos[s] => new[j] = old[j]
      <4>1. PICK i, v : i = pos[s] /\ v = buf[s][pos[s]]
        OBVIOUS
      <4>2. v = remote[f][i]
        BY <3>3, <4>1
      <4>. HIDE DEF old
      <4>3. old \in Contents /\ i \in 1..MaxLen /\ v \in Data
        BY <3>4, <4>1
      <4>4. /\ Len(Put(old, i, v)) = IF i > Len(old) THEN i ELSE Len(old)
            /\ Put(old, i, v)[i] = v
            /\ \A j \in 1..Len(old) : j # i => Put(old, i, v)[j] = old[j]
        BY <4>3, PutContents
      <4>. QED
        BY <4>1, <4>2, <4>4
    <3>6. Len(old) \in Nat /\ Len(remote[f]) \in Nat
      BY <3>4, ContentsLen
    <3>7. /\ store'[f] = new /\ remote'[f] = remote[f] /\ buf' = buf /\ pc' = pc
          /\ pos' = [pos EXCEPT ![s] = pos[s] + 1]
      BY <1>3, <2>2, <3>1 DEF AppendChunk, TypeOK
    <3>8. /\ Len(old) <= Len(remote[f])
          /\ \A i \in 1..Len(remote[f]) :
               \/ i <= Len(old) /\ old[i] = remote[f][i]
               \/ \E t \in Downloads(f) : pos[t] <= i
      BY <1>0, <3>1, <3>4 DEF CopyExplained
    <3>9. Len(new) <= Len(remote[f])
      BY <3>4, <3>5, <3>6, <3>8
    <3>10. ASSUME NEW i \in 1..Len(remote[f])
           PROVE  \/ i <= Len(new) /\ new[i] = remote[f][i]
                  \/ \E t \in Downloads(f) : pos'[t] <= i
      <4>1. CASE i = pos[s]
        BY <3>4, <3>5, <3>6, <4>1
      <4>2. CASE i # pos[s] /\ i <= Len(old) /\ old[i] = remote[f][i]
        <5>1. new[i] = old[i]
          BY <3>5, <3>6, <4>2
        <5>2. i <= Len(new)
          BY <3>4, <3>5, <3>6, <4>2
        <5>. QED
          BY <4>2, <5>1, <5>2
      <4>3. CASE i # pos[s] /\ \E t \in Downloads(f) : pos[t] <= i
        <5>1. PICK t \in Downloads(f) : pos[t] <= i
          BY <4>3
        <5>2. pos[t] \in Nat /\ pos[s] \in Nat /\ t \in Sessions
          BY <3>2, MaxLenAssumption DEF TypeOK
        <5>3. pos'[t] <= i
          BY <3>6, <3>7, <4>3, <5>1, <5>2 DEF TypeOK
        <5>. QED
          BY <5>3
      <4>. QED
        BY <3>8, <4>1, <4>2, <4>3
    <3>11. \A t \in Downloads(f) : pc'[t] = "append" => buf'[t] = remote'[f]
      BY <3>1, <3>7 DEF CopyExplained
    <3>. HIDE DEF new
    <3>. QED
      BY <3>2, <3>7, <3>9, <3>10, <3>11 DEF CopyExplained
  <2>. QED
    BY <2>1, <2>2, DownloadFrame DEF DownloadOK
<1>4. ASSUME NEW s \in Sessions, DownloadDone(s)
      PROVE  DownloadOK'
  BY <1>4, DownloadEnds DEF DownloadDone, Ended, CleanFiles, TypeOK, history, local
<1>5. ASSUME NEW s \in Sessions, ResizeCopy(s)
      PROVE  DownloadOK'
  <2>1. ASSUME NEW f \in CleanFiles'
        PROVE  f \in Files /\ Untouched(f)
    BY <1>5, <2>1, SessionFile
       DEF ResizeCopy, Finish, Untouched, Downloads, CleanFiles, TypeOK
  <2>. QED
    BY <2>1, DownloadFrame DEF DownloadOK
<1>6. ASSUME NEW s \in Sessions, OpenNew(s)
      PROVE  DownloadOK'
  <2>1. CASE Die
    <3>1. UNCHANGED <<store, dirs, remote>>
      BY <1>6, <2>1, DyingOpen
    <3>. QED
      BY <2>1, <3>1, DieDownload
  <2>2. CASE ~Die
    <3>1. ASSUME NEW f \in CleanFiles'
          PROVE  f \in Files /\ Untouched(f)
      BY <1>6, <2>2, <3>1 DEF OpenNew, Untouched, Downloads, CleanFiles, TypeOK
    <3>. QED
      BY <3>1, DownloadFrame DEF DownloadOK
  <2>. QED
    BY <2>1, <2>2
<1>7. ASSUME NEW s \in Sessions, OpenForUpload(s) \/ SendChunk(s)
      PROVE  DownloadOK'
  <2>1. ASSUME NEW f \in CleanFiles'
        PROVE  f \in Files /\ Untouched(f)
    BY <1>7, <2>1
       DEF OpenForUpload, SendChunk, Untouched, Downloads, CleanFiles, TypeOK, history, local
  <2>. QED
    BY <2>1, DownloadFrame DEF DownloadOK
<1>8. ASSUME NEW s \in Sessions, UploadLands(s)
      PROVE  DownloadOK'
  <2>1. file[s] \in touched
    BY <1>8 DEF UploadLands, SessionOK, Uploading
  <2>2. ASSUME NEW f \in CleanFiles'
        PROVE  f \in Files /\ Untouched(f)
    BY <1>8, <2>1, <2>2 DEF UploadLands, Untouched, Downloads, CleanFiles, TypeOK, history, local
  <2>. QED
    BY <2>2, DownloadFrame DEF DownloadOK
<1>9. ASSUME NEW s \in Sessions, FetchMeta(s)
      PROVE  DownloadOK'
  <2>1. ASSUME NEW f \in CleanFiles'
        PROVE  f \in Files /\ Untouched(f)
    BY <1>9, <2>1
       DEF FetchMeta, Finish, Untouched, Downloads, CleanFiles, TypeOK, history, local
  <2>. QED
    BY <2>1, DownloadFrame DEF DownloadOK
<1>10. ASSUME NEW s \in Sessions, NEW f \in Files, NEW o \in {"open", "truncate"},
              NEW w \in BOOLEAN, NEW n \in 0..MaxLen, Begin(s, f, o, w, n)
       PROVE  DownloadOK'
  <2>1. ASSUME NEW g \in CleanFiles'
        PROVE  g \in Files /\ Untouched(g)
    BY <1>10, <2>1 DEF Begin, Untouched, Downloads, CleanFiles, TypeOK, history, local
  <2>. QED
    BY <2>1, DownloadFrame DEF DownloadOK
<1>11. ASSUME NEW s \in Sessions, NEW f \in Files, Create(s, f)
       PROVE  DownloadOK'
  <2>1. ASSUME NEW g \in CleanFiles'
        PROVE  g \in Files /\ (Untouched(g) \/ Absent(g))
    BY <1>11, <2>1
       DEF Create, Unused, Untouched, Absent, Downloads, CleanFiles, TypeOK, local
  <2>. QED
    BY <2>1, DownloadFrame DEF DownloadOK
<1>12. ASSUME NEW s \in Sessions, NEW i \in 1..MaxLen, NEW v \in Chunks, Write(s, i, v)
       PROVE  DownloadOK'
  <2>1. ASSUME NEW f \in CleanFiles'
        PROVE  f \in Files /\ Untouched(f)
    BY <1>12, <2>1 DEF Write, Untouched, Downloads, CleanFiles, TypeOK
  <2>. QED
    BY <2>1, DownloadFrame DEF DownloadOK
<1>13. ASSUME NEW s \in Sessions, Release(s)
       PROVE  DownloadOK'
  <2>1. ASSUME NEW f \in CleanFiles'
        PROVE  f \in Files /\ Untouched(f)
    BY <1>13, <2>1
       DEF Release, Finish, Untouched, Downloads, CleanFiles, TypeOK, history, local
  <2>. QED
    BY <2>1, DownloadFrame DEF DownloadOK
<1>14. ASSUME NEW s \in Sessions, DownloadFails(s)
       PROVE  DownloadOK'
  <2>1. CASE Die
    BY <1>14, <2>1, DieDownload DEF DownloadFails, CleanFiles, local
  <2>2. CASE ~Die /\ pc[s] = "append" /\ pos[s] > Len(buf[s])
    <3>1. UNCHANGED <<store, remote, touched, edited, aborted>> /\ Finish(s)
      BY <1>14, <2>2 DEF DownloadFails, local
    <3>. QED
      BY <2>2, <3>1, DownloadEnds DEF Ended, Finish, CleanFiles, TypeOK
  <2>3. CASE ~Die /\ ~(pc[s] = "append" /\ pos[s] > Len(buf[s]))
    <3>1. /\ UNCHANGED <<store, remote, touched, edited>> /\ Finish(s)
          /\ \/ pc[s] = "creat" /\ aborted' = aborted
             \/ aborted' = aborted \cup {file[s]}
      BY <1>14, <2>3 DEF DownloadFails, local
    <3>2. ASSUME NEW f \in CleanFiles'
          PROVE  f \in Files /\ Untouched(f)
      BY <3>1, <3>2 DEF Finish, Untouched, Downloads, CleanFiles, TypeOK
    <3>. QED
      BY <3>2, DownloadFrame DEF DownloadOK
  <2>. QED
    BY <2>1, <2>2, <2>3
<1>15. ASSUME NEW s \in Sessions, WriteFails(s)
       PROVE  DownloadOK'
  BY <1>15, DieDownload DEF WriteFails, CleanFiles, local
<1>16. ASSUME NEW s \in Sessions, UploadFails(s)
       PROVE  DownloadOK'
  <2>1. file[s] \in touched
    BY <1>16 DEF UploadFails, SessionOK, Uploading
  <2>2. \A f \in CleanFiles' : remote'[f] = remote[f]
    BY <1>16, <2>1 DEF UploadFails, Die, CleanFiles, TypeOK
  <2>. QED
    BY <1>16, <2>2, DieDownload DEF UploadFails, local
<1>17. ASSUME NEW f \in Files, Lookup(f)
       PROVE  DownloadOK'
  BY <1>17 DEF Lookup, DownloadOK, CopyExplained, Downloads, CleanFiles, session, history, local
<1>18. ASSUME NEW s \in Sessions,
              (\E f \in Files : Unlink(s, f)) \/ ShortWrite(s) \/ RemoveRemote(s) \/ DeleteCopy(s)
                \/ RemoveFails(s)
       PROVE  DownloadOK'
  <2>1. SUFFICES ASSUME NEW f \in CleanFiles' PROVE f \in Files /\ Untouched(f)
    BY DownloadFrame DEF DownloadOK
  <2>2. CASE \E g \in Files : Unlink(s, g)
    BY <2>2 DEF Unlink, Untouched, Downloads, CleanFiles, TypeOK, history, local
  <2>3. CASE ShortWrite(s)
    BY <2>3 DEF ShortWrite, Untouched, Downloads, CleanFiles, TypeOK, local
  <2>4. CASE RemoveRemote(s)
    BY <2>4 DEF RemoveRemote, Untouched, Downloads, CleanFiles, TypeOK, history, local
  <2>5. CASE DeleteCopy(s)
    BY <2>5 DEF DeleteCopy, Finish, Untouched, Downloads, CleanFiles, TypeOK, SessionOK, history
  <2>6. CASE RemoveFails(s)
    BY <2>6
       DEF RemoveFails, Removing, Finish, Untouched, Downloads, CleanFiles, TypeOK, history, local
  <2>. QED
    BY <1>18, <2>2, <2>3, <2>4, <2>5, <2>6
<1>19. ASSUME NEW f \in Files, NEW c \in EditedContents, EditRemote(f, c)
       PROVE  DownloadOK'
  <2>1. ASSUME NEW g \in CleanFiles'
        PROVE  g \in Files /\ Untouched(g)
    BY <1>19, <2>1 DEF EditRemote, Untouched, Downloads, CleanFiles, TypeOK, session, local
  <2>. QED
    BY <2>1, DownloadFrame DEF DownloadOK
<1>20. ASSUME Crash
       PROVE  DownloadOK'
  BY <1>20, DieDownload DEF Crash, CleanFiles, local
<1>21. ASSUME Restart
       PROVE  DownloadOK'
  BY <1>21 DEF Restart, DownloadOK, CopyExplained, Downloads, CleanFiles, session, history, local
<1>22. CASE UNCHANGED vars
  BY <1>22 DEF vars, DownloadOK, CopyExplained, Downloads, CleanFiles, session, history, local
<1>23. ASSUME NEW s \in Sessions, Request(s)
       PROVE  DownloadOK'
  <2>1. 0 \in 0..MaxLen
    BY MaxLenAssumption
  <2>. QED
    BY <1>10, <1>11, <1>12, <1>13, <1>18, <1>23, <2>1 DEF Request, Open, Truncate
<1>24. ASSUME NEW s \in Sessions, HandlerStep(s) \/ Failure(s)
       PROVE  DownloadOK'
  BY <1>1, <1>2, <1>3, <1>4, <1>5, <1>6, <1>7, <1>8, <1>9, <1>14, <1>15, <1>16, <1>18, <1>24
     DEF HandlerStep, HandlerFails, Failure
<1>. QED
  BY <1>17, <1>19, <1>20, <1>21, <1>22, <1>23, <1>24 DEF Next

-----------------------------------------------------------------------------
(* Written files. *)

Publishers(f) ==
  {s \in Sessions : file[s] = f /\ changed[s] /\ pc[s] \in {"open", "fopen"}}

\* A step that keeps every publisher, or takes their files off the list.
LEMMA PublisherFrame ==
  ASSUME DirtyHasPublisher,
         \A f \in dirty' : f \in dirty /\ Publishers(f) \subseteq Publishers(f)'
  PROVE  DirtyHasPublisher'
BY DEF DirtyHasPublisher, Publishers

LEMMA PublisherStep ==
  ASSUME TypeOK, SessionOK, DirtyHasPublisher, [Next]_vars
  PROVE  DirtyHasPublisher'
<1>1. ASSUME NEW s \in Sessions,
             CreatCopy(s) \/ Fetch(s) \/ AppendChunk(s) \/ DownloadDone(s)
      PROVE  DirtyHasPublisher'
  BY <1>1, PublisherFrame
     DEF CreatCopy, Fetch, AppendChunk, DownloadDone, Publishers, TypeOK, history
<1>2. ASSUME NEW s \in Sessions, ResizeCopy(s) \/ FetchMeta(s)
      PROVE  DirtyHasPublisher'
  BY <1>2, PublisherFrame DEF ResizeCopy, FetchMeta, Finish, Publishers, TypeOK, history
<1>3. ASSUME Die
      PROVE  DirtyHasPublisher'
  BY <1>3 DEF Die, DirtyHasPublisher
<1>4. ASSUME NEW s \in Sessions, OpenNew(s)
      PROVE  DirtyHasPublisher'
  BY <1>3, <1>4, PublisherFrame DEF OpenNew, Publishers, TypeOK
<1>5. ASSUME NEW s \in Sessions, OpenForUpload(s) \/ SendChunk(s) \/ UploadLands(s)
      PROVE  DirtyHasPublisher'
  BY <1>5, PublisherFrame
     DEF OpenForUpload, SendChunk, UploadLands, Publishers, TypeOK, history
<1>6. ASSUME NEW s \in Sessions, NEW f \in Files, NEW o \in {"open", "truncate"},
             NEW w \in BOOLEAN, NEW n \in 0..MaxLen, Begin(s, f, o, w, n)
      PROVE  DirtyHasPublisher'
  BY <1>6, PublisherFrame DEF Begin, Publishers, TypeOK, SessionOK, history
<1>7. ASSUME NEW s \in Sessions, NEW f \in Files, Create(s, f) \/ Unlink(s, f)
      PROVE  DirtyHasPublisher'
  BY <1>7, PublisherFrame DEF Create, Unlink, Publishers, TypeOK, SessionOK, history
<1>8. ASSUME NEW s \in Sessions, NEW i \in 1..MaxLen, NEW v \in Chunks, Write(s, i, v)
      PROVE  DirtyHasPublisher'
  BY <1>8 DEF Write, DirtyHasPublisher, TypeOK
<1>9. ASSUME NEW s \in Sessions, Release(s)
      PROVE  DirtyHasPublisher'
  BY <1>9, PublisherFrame DEF Release, Finish, Publishers, TypeOK, history
<1>10. ASSUME NEW s \in Sessions, DownloadFails(s) \/ WriteFails(s) \/ UploadFails(s)
       PROVE  DirtyHasPublisher'
  <2>1. CASE ~Die
    <3>1. Finish(s) /\ UNCHANGED dirty /\ pc[s] \in Downloading
      BY <1>10, <2>1 DEF DownloadFails, WriteFails, UploadFails
    <3>. QED
      BY <3>1, PublisherFrame DEF Finish, Publishers, TypeOK, Downloading
  <2>. QED
    BY <1>3, <2>1
<1>11. ASSUME NEW s \in Sessions,
              ShortWrite(s) \/ RemoveRemote(s) \/ DeleteCopy(s) \/ RemoveFails(s)
       PROVE  DirtyHasPublisher'
  BY <1>11, PublisherFrame
     DEF ShortWrite, RemoveRemote, DeleteCopy, RemoveFails, Removing, Finish, Publishers, TypeOK,
         history
<1>12. ASSUME NEW f \in Files, Lookup(f)
       PROVE  DirtyHasPublisher'
  BY <1>12, PublisherFrame DEF Lookup, Publishers, session, history
<1>13. ASSUME NEW f \in Files, NEW c \in EditedContents, EditRemote(f, c)
       PROVE  DirtyHasPublisher'
  BY <1>13, PublisherFrame DEF EditRemote, Publishers, session
<1>14. ASSUME Crash \/ Restart \/ UNCHANGED vars
       PROVE  DirtyHasPublisher'
  BY <1>3, <1>14, PublisherFrame DEF Crash, Restart, vars, Publishers, session, history
<1>15. ASSUME NEW s \in Sessions, Request(s)
       PROVE  DirtyHasPublisher'
  <2>1. 0 \in 0..MaxLen
    BY MaxLenAssumption
  <2>. QED
    BY <1>6, <1>7, <1>8, <1>9, <1>15, <2>1 DEF Request, Open, Truncate
<1>16. ASSUME NEW s \in Sessions, HandlerStep(s) \/ Failure(s)
       PROVE  DirtyHasPublisher'
  BY <1>1, <1>2, <1>4, <1>5, <1>10, <1>16, <1>11 DEF HandlerStep, HandlerFails, Failure
<1>. QED
  BY <1>12, <1>13, <1>14, <1>15, <1>16 DEF Next

-----------------------------------------------------------------------------
(* The theorems. *)

LEMMA Invariance == Spec => []IInv
<1>1. Init => IInv
  BY InitType, InitSession, InitDownload DEF Init, IInv, DirtyHasPublisher
<1>2. IInv /\ [Next]_vars => IInv'
  BY TypeStep, SessionStep, DownloadStep, PublisherStep DEF IInv
<1>. QED
  BY <1>1, <1>2, PTL DEF Spec

\* The variables stay within their types, the bound of the model included.
THEOREM TypeCorrect == Spec => []TypeOK
<1>1. IInv => TypeOK
  BY DEF IInv
<1>. QED
  BY <1>1, Invariance, PTL

\* The copy of a file of the drive that nobody wrote to, with no download aborted
\* half-way or short of a chunk and no edit on the drive, is the whole file once its
\* downloads have ended: any number of concurrent createFile() calls that cut each
\* other off with creat() add up to a complete file.
THEOREM CleanCopiesComplete == Spec => []CleanCopyComplete
<1>1. IInv => CleanCopyComplete
  <2>1. SUFFICES ASSUME IInv, NEW f \in CleanFiles, Downloads(f) = {}, store[f] # NoFile
                 PROVE  store[f] = remote[f]
    BY DEF CleanCopyComplete
  <2>2. f \in Files /\ CopyExplained(f)
    BY <2>1 DEF IInv, DownloadOK, CleanFiles
  <2>3. /\ Len(store[f]) <= Len(remote[f])
        /\ \A i \in 1..Len(remote[f]) : i <= Len(store[f]) /\ store[f][i] = remote[f][i]
    BY <2>1, <2>2 DEF CopyExplained
  <2>4. store[f] \in Contents /\ remote[f] \in Contents
    BY <2>1, <2>2 DEF IInv, TypeOK, CleanFiles
  <2>5. /\ store[f] \in Seq(Data) /\ remote[f] \in Seq(Data)
        /\ Len(store[f]) \in Nat /\ Len(remote[f]) \in Nat
    BY <2>4, ContentsAsSeq
  <2>6. Len(store[f]) = Len(remote[f])
    BY <2>3, <2>5
  <2>. QED
    BY <2>3, <2>5, <2>6, SeqEqual
<1>. QED
  BY <1>1, Invariance, PTL

\* While the process lives, a file written since an upload last began to read
\* it has a handle marked changed whose own upload is still to come.
THEOREM WritesHavePublishers == Spec => []DirtyHasPublisher
<1>1. IInv => DirtyHasPublisher
  BY DEF IInv
<1>. QED
  BY <1>1, Invariance, PTL

\* The drive gets a new content only from the session whose upload ends with the
\* step: what that session read from the copy, after it has itself written to the
\* file or created it.
THEOREM UploadsAreWrites == Spec => OnlyWritersUpload
<1>. DEFINE Changes(f) == remote[f] # NoFile /\ remote'[f] \notin {NoFile, remote[f]}
            Lawful(f) == \/ RemoteEdits /\ f \in edited'
                         \/ \E s \in wrote : /\ file[s] = f /\ pc[s] = "send" /\ pc'[s] # "send"
                                             /\ remote'[f] = buf[s]
<1>1. IInv /\ [Next]_vars => [\A f \in Files : Changes(f) => Lawful(f)]_vars
  <2>1. SUFFICES ASSUME IInv, Next, NEW f \in Files, Changes(f)
                 PROVE  Lawful(f)
    OBVIOUS
  <2>2. TypeOK /\ SessionOK
    BY <2>1 DEF IInv
  <2>3. ASSUME NEW s \in Sessions, UploadLands(s) \/ UploadFails(s)
        PROVE  Lawful(f)
    <3>1. /\ f = file[s] /\ pc[s] = "send" /\ pc'[s] # "send"
          /\ remote' = [remote EXCEPT ![file[s]] = buf[s]]
      BY <2>1, <2>2, <2>3 DEF UploadLands, UploadFails, Die, TypeOK
    <3>2. s \in wrote /\ remote'[f] = buf[s]
      BY <2>2, <3>1 DEF TypeOK, SessionOK, Uploading
    <3>. QED
      BY <3>1, <3>2
  <2>4. ASSUME NEW s \in Sessions, RemoveRemote(s) \/ RemoveFails(s)
        PROVE  ~Changes(f)
    BY <2>2, <2>4 DEF RemoveRemote, RemoveFails, TypeOK
  <2>5. ASSUME NEW s \in Sessions, HandlerStep(s)
        PROVE  UNCHANGED remote \/ UploadLands(s) \/ UploadFails(s) \/ RemoveRemote(s) \/ RemoveFails(s)
    BY <2>5 DEF HandlerStep, HandlerFails, CreatCopy, Fetch, AppendChunk, DownloadDone, ResizeCopy,
                OpenNew, OpenForUpload, SendChunk, FetchMeta, DeleteCopy, DownloadFails
  <2>6. ASSUME NEW s \in Sessions, Request(s)
        PROVE  ~Changes(f)
    BY <2>2, <2>6
       DEF Request, Open, Truncate, Begin, Create, Unused, Unlink, Write, Release, TypeOK
  <2>7. ASSUME NEW s \in Sessions, Failure(s)
        PROVE  UNCHANGED remote \/ UploadFails(s) \/ RemoveFails(s)
    BY <2>7 DEF Failure, HandlerFails, DownloadFails, WriteFails, ShortWrite
  <2>8. ASSUME NEW g \in Files, NEW c \in EditedContents, EditRemote(g, c)
        PROVE  Lawful(f)
    BY <2>1, <2>2, <2>8, SwitchAssumption DEF EditRemote, TypeOK
  <2>9. ASSUME NEW g \in Files, Lookup(g) \/ Crash \/ Restart
        PROVE  UNCHANGED remote
    BY <2>9 DEF Lookup, Crash, Restart
  <2>. QED
    BY <2>1, <2>3, <2>4, <2>5, <2>6, <2>7, <2>8, <2>9 DEF Next
<1>. QED
  BY <1>1, Invariance, PTL DEF Spec, OnlyWritersUpload

\* The copy of a file is deleted only after the drive has deleted the file, whatever
\* fails on the way and whoever else works on it.
THEOREM CopiesGoLast == Spec => CopyGoesLast
<1>. DEFINE Late(f) == store[f] # NoFile /\ store'[f] = NoFile => remote[f] = NoFile
<1>1. IInv /\ [Next]_vars => [\A f \in Files : Late(f)]_vars
  <2>1. SUFFICES ASSUME IInv, Next, NEW f \in Files PROVE Late(f)
    OBVIOUS
  <2>2. TypeOK /\ SessionOK
    BY <2>1 DEF IInv
  <2>3. \A c \in Contents : c # NoFile
    BY NoFileAssumption
  <2>4. ASSUME NEW s \in Sessions, DeleteCopy(s)
        PROVE  Late(f)
    BY <2>2, <2>4 DEF DeleteCopy, TypeOK, SessionOK
  <2>5. ASSUME NEW s \in Sessions, CreatCopy(s) \/ OpenNew(s)
        PROVE  Late(f)
    BY <2>2, <2>3, <2>5, EmptyContents DEF CreatCopy, OpenNew, TypeOK
  <2>6. ASSUME NEW s \in Sessions, AppendChunk(s)
        PROVE  Late(f)
    BY <2>2, <2>3, <2>6, AppendFacts DEF AppendChunk, TypeOK
  <2>7. ASSUME NEW s \in Sessions, ResizeCopy(s)
        PROVE  Late(f)
    BY <2>2, <2>3, <2>7, SessionFile, ResizeContents DEF ResizeCopy, TypeOK, Removing
  <2>8. ASSUME NEW s \in Sessions, HandlerStep(s)
        PROVE  \/ UNCHANGED store \/ DeleteCopy(s) \/ CreatCopy(s) \/ OpenNew(s)
               \/ AppendChunk(s) \/ ResizeCopy(s)
    BY <2>8 DEF HandlerStep, HandlerFails, Fetch, DownloadDone, OpenForUpload, SendChunk, UploadLands,
                FetchMeta, RemoveRemote, DownloadFails, UploadFails, RemoveFails, local
  <2>9. ASSUME NEW s \in Sessions, NEW i \in 1..MaxLen, NEW v \in Chunks, Write(s, i, v)
        PROVE  Late(f)
    BY <2>2, <2>3, <2>9, SessionFile, PutContents DEF Write, TypeOK, Data, Removing
  <2>10. ASSUME NEW s \in Sessions, Request(s)
         PROVE  Late(f)
    BY <2>9, <2>10 DEF Request, Open, Truncate, Begin, Create, Unlink, Release, local
  <2>11. ASSUME NEW s \in Sessions, Failure(s)
         PROVE  UNCHANGED store
    BY <2>11 DEF Failure, HandlerFails, DownloadFails, UploadFails, RemoveFails, WriteFails, ShortWrite,
                 local
  <2>12. ASSUME \/ \E g \in Files : Lookup(g) \/ \E c \in EditedContents : EditRemote(g, c)
                \/ Crash \/ Restart
         PROVE  UNCHANGED store
    BY <2>12 DEF Lookup, EditRemote, Crash, Restart, local
  <2>. QED
    BY <2>1, <2>4, <2>5, <2>6, <2>7, <2>8, <2>10, <2>11, <2>12 DEF Next
<1>. QED
  BY <1>1, Invariance, PTL DEF Spec, CopyGoesLast
=============================================================================
