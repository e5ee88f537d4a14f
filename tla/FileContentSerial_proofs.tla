---------------------- MODULE FileContentSerial_proofs ----------------------
(* What FileContent guarantees when libfuse runs one handler at a time      *)
(* (gd2fuse -s): after the last upload the drive has what local readers     *)
(* see, and the handles behave as CloseToOpen says.                         *)
EXTENDS FileContent_proofs, FiniteSetTheorems

-----------------------------------------------------------------------------
(* Parts of a content. *)

LEMMA PartOfContents ==
  ASSUME NEW c \in Contents, NEW n \in 0..Len(c)
  PROVE  /\ SubSeq(c, 1, n) \in Seq(Data) /\ Len(SubSeq(c, 1, n)) = n
         /\ \A i \in 1..n : SubSeq(c, 1, n)[i] = c[i]
<1>1. c \in Seq(Data) /\ Len(c) \in Nat /\ \A i \in 1..Len(c) : c[i] \in Data
  BY ContentsAsSeq, ContentsLen
<1>. QED
  BY <1>1

LEMMA ContentsEqual ==
  ASSUME NEW c \in Seq(Data), NEW d \in Seq(Data), Len(c) = Len(d),
         \A i \in 1..Len(c) : c[i] = d[i]
  PROVE  c = d
BY SeqEqual

\* The whole, nothing, and one chunk more.
LEMMA WholePart ==
  ASSUME NEW c \in Contents
  PROVE  SubSeq(c, 1, Len(c)) = c
<1>1. c \in Seq(Data) /\ Len(c) \in 0..Len(c)
  BY ContentsAsSeq
<1>. QED
  BY <1>1, PartOfContents, ContentsEqual

LEMMA NoPart ==
  ASSUME NEW c \in Contents
  PROVE  SubSeq(c, 1, 0) = <<>>
<1>1. 0 \in 0..Len(c)
  BY ContentsAsSeq
<1>2. SubSeq(c, 1, 0) \in Seq(Data) /\ Len(SubSeq(c, 1, 0)) = 0
  BY <1>1, PartOfContents
<1>. QED
  BY <1>2

LEMMA NextPart ==
  ASSUME NEW c \in Contents, NEW n \in Nat, n < Len(c)
  PROVE  /\ Append(SubSeq(c, 1, n), c[n + 1]) = SubSeq(c, 1, n + 1)
         /\ Put(SubSeq(c, 1, n), n + 1, c[n + 1]) = SubSeq(c, 1, n + 1)
<1>. DEFINE p == SubSeq(c, 1, n)
            q == SubSeq(c, 1, n + 1)
<1>1. Len(c) \in 0..MaxLen /\ n \in 0..Len(c) /\ n + 1 \in 0..Len(c) /\ n + 1 \in 1..MaxLen
  BY ContentsLen, MaxLenAssumption
<1>2. p \in Seq(Data) /\ Len(p) = n /\ \A i \in 1..n : p[i] = c[i]
  BY <1>1, PartOfContents
<1>3. q \in Seq(Data) /\ Len(q) = n + 1 /\ \A i \in 1..n + 1 : q[i] = c[i]
  BY <1>1, PartOfContents
<1>. HIDE DEF p, q
<1>4. c[n + 1] \in Data /\ p \in Contents
  <2>1. n + 1 \in 1..Len(c) /\ \A i \in 1..Len(c) : c[i] \in Data
    BY <1>1, ContentsLen
  <2>2. Len(p) \in 0..MaxLen
    BY <1>1, <1>2, MaxLenAssumption
  <2>. QED
    BY <1>2, <2>1, <2>2, ContentsAsSeq
<1>5. Append(p, c[n + 1]) = q
  <2>1. /\ Append(p, c[n + 1]) \in Seq(Data) /\ Len(Append(p, c[n + 1])) = n + 1
        /\ \A i \in 1..n + 1 : Append(p, c[n + 1])[i] = IF i <= n THEN p[i] ELSE c[n + 1]
    BY <1>2, <1>4
  <2>2. \A i \in 1..n + 1 : Append(p, c[n + 1])[i] = q[i]
    BY <1>2, <1>3, <2>1
  <2>. QED
    BY <1>3, <2>1, <2>2, ContentsEqual
<1>6. Put(p, n + 1, c[n + 1]) = q
  <2>. DEFINE r == Put(p, n + 1, c[n + 1])
  <2>1. r \in Contents /\ Len(r) = n + 1 /\ r[n + 1] = c[n + 1]
        /\ \A i \in 1..n : r[i] = p[i]
    <3>1. /\ r \in Contents /\ r[n + 1] = c[n + 1]
          /\ Len(r) = IF n + 1 > Len(p) THEN n + 1 ELSE Len(p)
          /\ \A i \in 1..Len(p) : i # n + 1 => r[i] = p[i]
      BY <1>1, <1>4, PutContents
    <3>. QED
      BY <1>1, <1>2, <3>1
  <2>2. r \in Seq(Data)
    BY <2>1, ContentsAsSeq
  <2>. HIDE DEF r
  <2>3. \A i \in 1..n + 1 : r[i] = q[i]
    BY <1>2, <1>3, <2>1
  <2>4. r = q
    BY <1>3, <2>1, <2>2, <2>3, ContentsEqual
  <2>. QED
    BY <2>4 DEF r
<1>. QED
  BY <1>5, <1>6 DEF p, q

\* A chunk that is lost leaves what comes before it.
LEMMA PartOfShortened ==
  ASSUME NEW c \in Contents, NEW i \in 1..Len(c)
  PROVE  /\ i <= Len(Lose(c, i)) + 1
         /\ SubSeq(Lose(c, i), 1, i - 1) = SubSeq(c, 1, i - 1)
<1>1. Len(c) \in Nat
  BY ContentsLen, MaxLenAssumption
<1>2. /\ Lose(c, i) \in Contents /\ Len(Lose(c, i)) = Len(c) - 1
      /\ \A j \in 1..i - 1 : Lose(c, i)[j] = c[j]
  BY LoseContents
<1>3. i - 1 \in 0..Len(c) /\ i - 1 \in 0..Len(Lose(c, i))
  BY <1>1, <1>2
<1>4. /\ SubSeq(c, 1, i - 1) \in Seq(Data) /\ SubSeq(Lose(c, i), 1, i - 1) \in Seq(Data)
      /\ Len(SubSeq(c, 1, i - 1)) = i - 1 /\ Len(SubSeq(Lose(c, i), 1, i - 1)) = i - 1
      /\ \A j \in 1..i - 1 : SubSeq(Lose(c, i), 1, i - 1)[j] = SubSeq(c, 1, i - 1)[j]
  BY <1>2, <1>3, PartOfContents
<1>5. SubSeq(Lose(c, i), 1, i - 1) = SubSeq(c, 1, i - 1)
  BY <1>4, ContentsEqual
<1>. QED
  BY <1>1, <1>2, <1>5

-----------------------------------------------------------------------------
(* One handler at a time. *)

\* A download that has written all its chunks has made the whole copy.
LEMMA CompleteDownload ==
  ASSUME TypeOK, NEW s \in Sessions, Alone(s), pc[s] = "append", pos[s] > Len(buf[s])
  PROVE  store[file[s]] = buf[s]
<1>1. /\ buf[s] \in Contents /\ pos[s] \in 1..MaxLen + 1 /\ pos[s] <= Len(buf[s]) + 1
      /\ store[file[s]] = SubSeq(buf[s], 1, pos[s] - 1)
  BY DEF TypeOK, Alone
<1>2. pos[s] - 1 = Len(buf[s])
  BY <1>1, ContentsLen, MaxLenAssumption
<1>. QED
  BY <1>1, <1>2, WholePart

\* A request begins only when no handler is at work.
LEMMA FreeIsQuiet ==
  ASSUME Workers = 1, SerialOK, FreeWorker
  PROVE  \A s \in Sessions : ~Busy(s)
<1>. DEFINE B == {s \in Sessions : Busy(s)}
<1>1. SUFFICES ASSUME NEW s \in Sessions, Busy(s)
               PROVE  FALSE
  OBVIOUS
<1>2. B = {s}
  BY <1>1 DEF SerialOK
<1>3. Cardinality(B) = 1
  BY <1>2, FS_Singleton
<1>. QED
  BY <1>3 DEF FreeWorker

\* Session s is the only one that may be at work before and after a step.
Turn(s) ==
  \A t \in Sessions \ {s} :
    /\ ~Busy(t)
    /\ pc'[t] = pc[t] /\ file'[t] = file[t] /\ buf'[t] = buf[t]

LEMMA TurnAlone ==
  ASSUME SerialOK, NEW s \in Sessions, Turn(s), Alone(s)'
  PROVE  /\ \A t, u \in Sessions : Busy(t)' /\ Busy(u)' => t = u
         /\ \A t \in Sessions : Alone(t)'
<1>1. \A t \in Sessions \ {s} : ~Busy(t)'
  BY DEF Turn, Busy
<1>2. ASSUME NEW t \in Sessions \ {s}
      PROVE  Alone(t)'
  BY <1>2 DEF Turn, Busy, Resting, Alone, Downloading, SerialOK
<1>. QED
  BY <1>1, <1>2

\* What a step of s has to show: that s still has its files to itself, and that
\* the file g it works on is mirrored.
LEMMA TurnSerial ==
  ASSUME SerialOK, NEW s \in Sessions, Turn(s), Alone(s)',
         NEW g, \A f \in Unowed' : f \in Unowed \/ f = g, file[s] = g \/ \A t \in Sessions : ~Busy(t),
         \A f \in Files \ {g} : store'[f] = store[f] /\ remote'[f] = remote[f],
         g \in Unowed' => Mirrored(g)'
  PROVE  SerialOK'
<1>1. ASSUME NEW f \in Unowed', f # g
      PROVE  Mirrored(f)'
  <2>1. f \in Unowed /\ f \in Files /\ store'[f] = store[f] /\ remote'[f] = remote[f]
    BY <1>1 DEF Unowed
  <2>2. store[f] \in {NoFile, remote[f]}
    BY <1>1, <2>1 DEF SerialOK, Mirrored, Turn, Busy, Resting
  <2>. QED
    BY <2>1, <2>2 DEF Mirrored
<1>. QED
  BY <1>1, TurnAlone DEF SerialOK

\* Whose turn it is: the handler at work, or a new one when nobody is.
LEMMA TurnIsTaken ==
  ASSUME TypeOK, SerialOK, NEW s \in Sessions, Busy(s) \/ \A t \in Sessions : ~Busy(t),
         \A t \in Sessions \ {s} : pc'[t] = pc[t] /\ file'[t] = file[t] /\ buf'[t] = buf[t]
  PROVE  Turn(s)
BY DEF Turn, SerialOK

\* What the process leaves behind when it ends.
LEMMA DieSerial ==
  ASSUME TypeOK, SerialOK, Die,
         \A f \in Unowed' : store'[f] = store[f] /\ remote'[f] = remote[f]
  PROVE  SerialOK'
<1>1. /\ pc' = [s \in Sessions |-> "idle"] /\ buf' = [s \in Sessions |-> <<>>]
      /\ \A s \in Sessions : ~Busy(s)'
  BY DEF Die, Busy, Resting
<1>2. \A s \in Sessions : Alone(s)'
  BY <1>1 DEF Alone, Downloading
<1>3. ASSUME NEW f \in Unowed'
      PROVE  Mirrored(f)'
  <2>1. f \in Unowed /\ ~\E s \in Sessions : file[s] = f /\ pc[s] \in {"fetch", "append", "send"}
    BY <1>3 DEF Die, Unowed, Downloads, Uploading, TypeOK
  <2>2. store[f] \in {NoFile, remote[f]}
    BY <2>1 DEF SerialOK, Mirrored
  <2>. QED
    BY <1>3, <2>2 DEF Mirrored
<1>. QED
  BY <1>1, <1>2, <1>3 DEF SerialOK

LEMMA InitSerial == Init => SerialOK
BY DEF Init, SerialOK, Busy, Resting, Alone, Downloading, Unowed, Mirrored

LEMMA SerialStep ==
  ASSUME Workers = 1, TypeOK, SessionOK, SerialOK, [Next]_vars
  PROVE  SerialOK'
<1>. USE NoSessionAssumption
<1>0. \A s \in Sessions : Alone(s) /\ (pc[s] # "idle" => file[s] \in Files)
  BY SessionFile DEF SerialOK
<1>1. ASSUME NEW s \in Sessions, CreatCopy(s)
      PROVE  SerialOK'
  <2>1. Turn(s)
    BY <1>1, TurnIsTaken DEF CreatCopy, Busy, Resting, TypeOK
  <2>2. Alone(s)'
    BY <1>0, <1>1 DEF CreatCopy, Alone, Downloading, TypeOK
  <2>3. Mirrored(file[s])'
    BY <1>1 DEF CreatCopy, Mirrored, TypeOK
  <2>. QED
    BY <1>1, <2>1, <2>2, <2>3, TurnSerial DEF CreatCopy, Unowed, TypeOK, history
<1>2. ASSUME NEW s \in Sessions, Fetch(s)
      PROVE  SerialOK'
  <2>1. Turn(s)
    BY <1>2, TurnIsTaken DEF Fetch, Busy, Resting, TypeOK
  <2>2. Alone(s)'
    <3>1. remote[file[s]] \in Contents /\ pos[s] = 1 /\ store[file[s]] = <<>>
      BY <1>0, <1>2 DEF Fetch, SessionOK, Alone, TypeOK
    <3>2. SubSeq(remote[file[s]], 1, 0) = <<>> /\ Len(remote[file[s]]) \in Nat
      BY <3>1, NoPart, ContentsAsSeq
    <3>. QED
      BY <1>0, <1>2, <3>1, <3>2 DEF Fetch, Alone, Downloading, TypeOK, local, history
  <2>3. Mirrored(file[s])'
    BY <1>2 DEF Fetch, Mirrored, TypeOK
  <2>. QED
    BY <1>2, <2>1, <2>2, <2>3, TurnSerial DEF Fetch, Unowed, TypeOK, local, history
<1>3. ASSUME NEW s \in Sessions, AppendChunk(s)
      PROVE  SerialOK'
  <2>1. Turn(s)
    BY <1>3, TurnIsTaken DEF AppendChunk, Busy, Resting, TypeOK
  <2>2. Alone(s)'
    <3>1. /\ file[s] \in Files /\ buf[s] \in Contents /\ pos[s] \in 1..MaxLen
          /\ pos[s] <= Len(buf[s]) /\ store[file[s]] = SubSeq(buf[s], 1, pos[s] - 1)
      BY <1>0, <1>3, AppendFacts DEF AppendChunk, Alone
    <3>2. pos[s] - 1 \in Nat /\ pos[s] - 1 < Len(buf[s]) /\ pos[s] - 1 + 1 = pos[s]
          /\ Len(buf[s]) \in Nat
      BY <3>1, ContentsLen, MaxLenAssumption
    <3>3. Put(store[file[s]], pos[s], buf[s][pos[s]]) = SubSeq(buf[s], 1, pos[s])
      BY <3>1, <3>2, NextPart
    <3>4. pos'[s] = pos[s] + 1 /\ pos'[s] - 1 = pos[s] /\ pos'[s] <= Len(buf[s]) + 1
      BY <1>3, <3>1, <3>2, MaxLenAssumption DEF AppendChunk, TypeOK
    <3>. QED
      BY <1>0, <1>3, <3>1, <3>3, <3>4 DEF AppendChunk, Alone, Downloading, TypeOK, history
  <2>3. Mirrored(file[s])'
    BY <1>3 DEF AppendChunk, Mirrored, TypeOK
  <2>. QED
    BY <1>3, <2>1, <2>2, <2>3, TurnSerial DEF AppendChunk, Unowed, TypeOK, history
<1>4. ASSUME NEW s \in Sessions, DownloadDone(s)
      PROVE  SerialOK'
  <2>1. Turn(s)
    BY <1>4, TurnIsTaken DEF DownloadDone, Busy, Resting, TypeOK
  <2>2. Alone(s)'
    BY <1>0, <1>4 DEF DownloadDone, Alone, Downloading, TypeOK, local, history
  <2>3. ASSUME file[s] \in Unowed'
        PROVE  Mirrored(file[s])'
    <3>1. buf[s] = remote[file[s]]
      BY <1>0, <1>4, <2>3 DEF DownloadDone, Alone, Unowed, history
    <3>2. store[file[s]] = buf[s]
      BY <1>0, <1>4, CompleteDownload DEF DownloadDone
    <3>. QED
      BY <1>4, <3>1, <3>2 DEF DownloadDone, Mirrored, local
  <2>. QED
    BY <1>4, <2>1, <2>2, <2>3, TurnSerial DEF DownloadDone, Unowed, local, history
<1>5. ASSUME NEW s \in Sessions, ResizeCopy(s)
      PROVE  SerialOK'
  <2>1. Turn(s)
    BY <1>5, TurnIsTaken DEF ResizeCopy, Finish, Busy, Resting, TypeOK
  <2>2. Alone(s)'
    BY <1>5 DEF ResizeCopy, Finish, Alone, Downloading, TypeOK
  <2>. QED
    BY <1>5, <2>1, <2>2, TurnSerial DEF ResizeCopy, Unowed, TypeOK
<1>6. ASSUME NEW s \in Sessions, OpenNew(s)
      PROVE  SerialOK'
  <2>1. CASE Die
    <3>1. \A f \in Unowed' : store'[f] = store[f] /\ remote'[f] = remote[f]
      BY <1>6, <2>1 DEF OpenNew, Die, Unowed
    <3>. QED
      BY <2>1, <3>1, DieSerial
  <2>2. CASE ~Die
    <3>1. /\ pc[s] = "make" /\ file[s] \in Files /\ UNCHANGED <<remote, file, buf>>
          /\ store' = [store EXCEPT ![file[s]] = <<>>]
          /\ pc' = [pc EXCEPT ![s] = "open"]
          /\ UNCHANGED <<dirty, orphan, aborted, edited>>
      BY <1>0, <1>6, <2>2 DEF OpenNew
    <3>2. Turn(s)
      BY <3>1, TurnIsTaken DEF Busy, Resting, TypeOK
    <3>3. Alone(s)'
      BY <1>0, <3>1 DEF Alone, Downloading, TypeOK
    <3>4. file[s] \in Unowed' => Mirrored(file[s])'
      BY <1>0, <3>1 DEF Alone, Mirrored, Unowed, TypeOK
    <3>. QED
      BY <3>1, <3>2, <3>3, <3>4, TurnSerial DEF Unowed, TypeOK
  <2>. QED
    BY <2>1, <2>2
<1>7. ASSUME NEW s \in Sessions, OpenForUpload(s)
      PROVE  SerialOK'
  <2>1. Turn(s)
    BY <1>7, TurnIsTaken DEF OpenForUpload, Busy, Resting, TypeOK
  <2>2. Alone(s)'
    <3>1. store[file[s]] \in Contents /\ buf[s] = <<>>
      BY <1>0, <1>7, SessionFile DEF OpenForUpload, Alone, Removing
    <3>2. SubSeq(store[file[s]], 1, 0) = <<>> /\ Len(store[file[s]]) \in Nat
      BY <3>1, NoPart, ContentsAsSeq
    <3>. QED
      BY <1>7, <3>1, <3>2 DEF OpenForUpload, Alone, Downloading, TypeOK, local
  <2>3. Mirrored(file[s])'
    BY <1>7 DEF OpenForUpload, Mirrored, TypeOK
  <2>4. \A f \in Unowed' : f \in Unowed \/ f = file[s]
    BY <1>7 DEF OpenForUpload, Unowed
  <2>. QED
    BY <1>7, <2>1, <2>2, <2>3, <2>4, TurnSerial DEF OpenForUpload, local
<1>8. ASSUME NEW s \in Sessions, SendChunk(s)
      PROVE  SerialOK'
  <2>1. Turn(s)
    BY <1>8, TurnIsTaken DEF SendChunk, Busy, Resting, TypeOK
  <2>2. Alone(s)'
    <3>. DEFINE c == store[file[s]]
                n == Len(buf[s])
    <3>1. c \in Contents /\ n < Len(c) /\ buf[s] = SubSeq(c, 1, n) /\ buf[s] \in Contents
      BY <1>0, <1>8, SessionFile DEF SendChunk, Alone, TypeOK, Removing
    <3>2. n \in Nat /\ Len(c) \in Nat
      BY <3>1, ContentsLen
    <3>3. /\ Append(SubSeq(c, 1, n), c[n + 1]) = SubSeq(c, 1, n + 1)
          /\ Len(SubSeq(c, 1, n + 1)) = n + 1
      BY <3>1, <3>2, NextPart, PartOfContents
    <3>4. buf'[s] = Append(buf[s], c[n + 1])
      BY <1>8 DEF SendChunk, TypeOK
    <3>5. buf'[s] = SubSeq(c, 1, n + 1) /\ Len(buf'[s]) = n + 1 /\ n + 1 <= Len(c)
      BY <3>1, <3>2, <3>3, <3>4
    <3>. QED
      BY <1>8, <3>5 DEF SendChunk, Alone, Downloading, local
  <2>3. Mirrored(file[s])'
    BY <1>8 DEF SendChunk, Mirrored, local
  <2>. QED
    BY <1>8, <2>1, <2>2, <2>3, TurnSerial DEF SendChunk, Unowed, local, history
<1>9. ASSUME NEW s \in Sessions, UploadLands(s)
      PROVE  SerialOK'
  <2>1. Turn(s)
    BY <1>9, TurnIsTaken DEF UploadLands, Busy, Resting, TypeOK
  <2>2. Alone(s)'
    BY <1>9 DEF UploadLands, Alone, Downloading, TypeOK
  <2>3. buf[s] = store[file[s]] /\ file[s] \in Files
    <3>1. /\ store[file[s]] \in Contents /\ buf[s] \in Contents /\ file[s] \in Files
          /\ Len(buf[s]) <= Len(store[file[s]]) /\ Len(buf[s]) >= Len(store[file[s]])
          /\ buf[s] = SubSeq(store[file[s]], 1, Len(buf[s]))
      BY <1>0, <1>9, SessionFile DEF UploadLands, Alone, TypeOK, Removing
    <3>2. Len(buf[s]) = Len(store[file[s]])
      BY <3>1, ContentsLen
    <3>. QED
      BY <3>1, <3>2, WholePart
  <2>4. Mirrored(file[s])'
    BY <1>9, <2>3 DEF UploadLands, Mirrored, TypeOK, local
  <2>. QED
    BY <1>9, <2>1, <2>2, <2>4, TurnSerial DEF UploadLands, Unowed, TypeOK, local, history
<1>10. ASSUME NEW s \in Sessions, FetchMeta(s)
       PROVE  SerialOK'
  <2>1. Turn(s)
    BY <1>10, TurnIsTaken DEF FetchMeta, Finish, Busy, Resting, TypeOK
  <2>2. Alone(s)'
    BY <1>10 DEF FetchMeta, Finish, Alone, Downloading, TypeOK
  <2>3. PICK g : g = file[s]
    OBVIOUS
  <2>4. g \in Unowed' => Mirrored(g)'
    <3>1. g \in Unowed => store[g] \in {NoFile, remote[g]}
      BY <1>10, <2>1, <2>3 DEF FetchMeta, Turn, Busy, Resting, Mirrored, SerialOK
    <3>. QED
      BY <1>10, <3>1 DEF FetchMeta, Mirrored, Unowed, local, history
  <2>. QED
    BY <1>10, <2>1, <2>2, <2>3, <2>4, TurnSerial DEF FetchMeta, Unowed, local, history
<1>11. ASSUME NEW s \in Sessions, NEW f \in Files, NEW o \in {"open", "truncate"},
              NEW w \in BOOLEAN, NEW n \in 0..MaxLen, Begin(s, f, o, w, n)
       PROVE  SerialOK'
  <2>1. \A t \in Sessions : ~Busy(t)
    BY <1>11, FreeIsQuiet DEF Begin
  <2>2. Turn(s)
    BY <1>11, <2>1, TurnIsTaken DEF Begin, TypeOK
  <2>3. Alone(s)'
    <3>1. pc[s] = "idle" /\ buf[s] = <<>> /\ file'[s] = f /\ store' = store
      BY <1>0, <1>11 DEF Begin, Alone, TypeOK, local
    <3>2. ASSUME store[f] = NoFile, NEW t \in Sessions \ {s}
          PROVE  file'[t] # f
      BY <1>11, <2>1, <3>2 DEF Begin, SessionOK, Busy, Resting, Removing, TypeOK
    <3>. QED
      BY <1>11, <3>1, <3>2 DEF Begin, Alone, Downloading, TypeOK
  <2>4. f \in Unowed => Mirrored(f)'
    BY <1>11, <2>1 DEF Begin, Busy, Resting, Mirrored, SerialOK, local
  <2>. QED
    BY <1>11, <2>1, <2>2, <2>3, <2>4, TurnSerial DEF Begin, Unowed, local, history
<1>12. ASSUME NEW s \in Sessions, NEW f \in Files, Create(s, f)
       PROVE  SerialOK'
  <2>1. \A t \in Sessions : ~Busy(t)
    BY <1>12, FreeIsQuiet DEF Create
  <2>2. Turn(s)
    BY <1>12, <2>1, TurnIsTaken DEF Create, TypeOK
  <2>3. Alone(s)'
    <3>1. buf[s] = <<>> /\ store[f] = NoFile /\ \A t \in Sessions \ {s} : file[t] # f
      BY <1>0, <1>12 DEF Create, Unused, Alone, SessionOK
    <3>. QED
      BY <1>12, <3>1 DEF Create, Alone, Downloading, TypeOK, local
  <2>4. Mirrored(f)'
    BY <1>12 DEF Create, Unused, Mirrored, local
  <2>. QED
    BY <1>12, <2>1, <2>2, <2>3, <2>4, TurnSerial DEF Create, Unowed, TypeOK, local
<1>13. ASSUME NEW s \in Sessions, NEW i \in 1..MaxLen, NEW v \in Chunks, Write(s, i, v)
       PROVE  SerialOK'
  <2>1. \A t \in Sessions : ~Busy(t)
    BY <1>13, FreeIsQuiet DEF Write
  <2>2. Turn(s)
    BY <1>13, <2>1, TurnIsTaken DEF Write
  <2>3. Alone(s)'
    BY <1>0, <1>13 DEF Write, Alone, Downloading
  <2>. QED
    BY <1>13, <2>1, <2>2, <2>3, TurnSerial DEF Write, Unowed, TypeOK
<1>14. ASSUME NEW s \in Sessions, Release(s)
       PROVE  SerialOK'
  <2>1. \A t \in Sessions : ~Busy(t)
    BY <1>14, FreeIsQuiet DEF Release
  <2>2. Turn(s)
    BY <1>14, <2>1, TurnIsTaken DEF Release, Finish, TypeOK
  <2>3. Alone(s)'
    <3>1. buf[s] = <<>> /\ buf'[s] = <<>>
      BY <1>0, <1>14 DEF Release, Finish, Alone, TypeOK
    <3>2. pc'[s] \in {"idle", "fopen"}
      BY <1>14 DEF Release, Finish, TypeOK
    <3>. QED
      BY <3>1, <3>2 DEF Alone, Downloading
  <2>4. PICK g : g = file[s]
    OBVIOUS
  <2>5. g \in Unowed => Mirrored(g)'
    BY <1>14, <2>1 DEF Release, Busy, Resting, Mirrored, SerialOK, local
  <2>. QED
    BY <1>14, <2>1, <2>2, <2>3, <2>4, <2>5, TurnSerial DEF Release, Unowed, local, history
<1>15. ASSUME NEW s \in Sessions, DownloadFails(s)
       PROVE  SerialOK'
  <2>1. CASE Die
    BY <1>15, <2>1, DieSerial DEF DownloadFails, local
  <2>2. CASE ~Die
    <3>1. Turn(s)
      BY <1>15, <2>2, TurnIsTaken DEF DownloadFails, Downloading, Finish, Busy, Resting, TypeOK
    <3>2. Alone(s)'
      BY <1>15, <2>2 DEF DownloadFails, Finish, Alone, Downloading, TypeOK
    <3>3. PICK g : g = file[s]
      OBVIOUS
    <3>4. /\ UNCHANGED <<store, remote, dirty, orphan, edited>> /\ aborted \subseteq aborted'
          /\ \/ pc[s] = "creat" \/ g \in aborted'
             \/ pc[s] = "append" /\ pos[s] > Len(buf[s])
      BY <1>15, <2>2, <3>3 DEF DownloadFails, local
    <3>5. ASSUME g \in Unowed'
          PROVE  Mirrored(g)'
      <4>1. CASE pc[s] = "creat"
        BY <1>0, <3>3, <3>4, <4>1 DEF Alone, Mirrored
      <4>2. CASE pc[s] = "append" /\ pos[s] > Len(buf[s])
        <5>1. buf[s] = remote[g]
          BY <1>0, <3>3, <3>4, <3>5, <4>2 DEF Alone, Unowed
        <5>2. store[g] = buf[s]
          BY <1>0, <3>3, <4>2, CompleteDownload
        <5>. QED
          BY <3>4, <5>1, <5>2 DEF Mirrored
      <4>. QED
        BY <3>4, <3>5, <4>1, <4>2 DEF Unowed
    <3>. QED
      BY <3>1, <3>2, <3>3, <3>4, <3>5, TurnSerial DEF Unowed
  <2>. QED
    BY <2>1, <2>2
<1>16. ASSUME NEW s \in Sessions, UploadFails(s)
       PROVE  SerialOK'
  <2>1. Die /\ UNCHANGED local /\ file[s] \notin Unowed'
    BY <1>16 DEF UploadFails, Die, Unowed, Uploading
  <2>2. \A f \in Unowed' : remote'[f] = remote[f]
    BY <1>16, <2>1 DEF UploadFails, Unowed, TypeOK
  <2>. QED
    BY <2>1, <2>2, DieSerial DEF local
<1>17. ASSUME Crash \/ \E s \in Sessions : WriteFails(s)
       PROVE  SerialOK'
  BY <1>17, DieSerial DEF Crash, WriteFails, local
<1>18. ASSUME NEW s \in Sessions, NEW f \in Files, Unlink(s, f)
       PROVE  SerialOK'
  <2>1. \A t \in Sessions : ~Busy(t)
    BY <1>18, FreeIsQuiet DEF Unlink
  <2>2. Turn(s)
    BY <1>18, <2>1, TurnIsTaken DEF Unlink, TypeOK
  <2>3. Alone(s)'
    <3>1. buf'[s] = <<>> /\ pc'[s] = "remove"
      BY <1>0, <1>18 DEF Unlink, Alone, TypeOK
    <3>. QED
      BY <3>1 DEF Alone, Downloading
  <2>4. f \in Unowed => Mirrored(f)'
    BY <1>18, <2>1 DEF Unlink, Busy, Resting, Mirrored, SerialOK, local
  <2>. QED
    BY <1>18, <2>1, <2>2, <2>3, <2>4, TurnSerial DEF Unlink, Unowed, local, history
<1>19. ASSUME NEW s \in Sessions, ShortWrite(s)
       PROVE  SerialOK'
  <2>1. Turn(s)
    BY <1>19, TurnIsTaken DEF ShortWrite, Busy, Resting, TypeOK
  <2>2. Alone(s)'
    <3>1. /\ pc[s] = "append" /\ buf[s] \in Contents /\ pos[s] \in 1..Len(buf[s])
          /\ store[file[s]] = SubSeq(buf[s], 1, pos[s] - 1)
      <4>1. /\ pc[s] = "append" /\ buf[s] \in Contents /\ pos[s] <= Len(buf[s])
            /\ store[file[s]] = SubSeq(buf[s], 1, pos[s] - 1) /\ pos[s] \in 1..MaxLen + 1
        BY <1>0, <1>19 DEF ShortWrite, Alone, TypeOK
      <4>. QED
        BY <4>1, ContentsLen, MaxLenAssumption
    <3>2. buf'[s] = Lose(buf[s], pos[s])
      BY <1>19 DEF ShortWrite, TypeOK
    <3>3. /\ pos[s] <= Len(buf'[s]) + 1
          /\ SubSeq(buf'[s], 1, pos[s] - 1) = SubSeq(buf[s], 1, pos[s] - 1)
      BY <3>1, <3>2, PartOfShortened
    <3>. QED
      BY <1>0, <1>19, <3>1, <3>3 DEF ShortWrite, Alone, Downloading, local
  <2>3. file[s] \notin Unowed'
    BY <1>19 DEF ShortWrite, Unowed
  <2>. QED
    BY <1>19, <2>1, <2>2, <2>3, TurnSerial DEF ShortWrite, Unowed, local
<1>20. ASSUME NEW s \in Sessions, RemoveRemote(s)
       PROVE  SerialOK'
  <2>1. Turn(s)
    BY <1>20, TurnIsTaken DEF RemoveRemote, Busy, Resting, TypeOK
  <2>2. Alone(s)'
    BY <1>0, <1>20 DEF RemoveRemote, Alone, Downloading, TypeOK
  <2>3. file[s] \notin Unowed'
    BY <1>20 DEF RemoveRemote, Unowed, TypeOK
  <2>. QED
    BY <1>20, <2>1, <2>2, <2>3, TurnSerial DEF RemoveRemote, Unowed, TypeOK, local, history
<1>21. ASSUME NEW s \in Sessions, DeleteCopy(s)
       PROVE  SerialOK'
  <2>1. Turn(s)
    BY <1>21, TurnIsTaken DEF DeleteCopy, Finish, Busy, Resting, TypeOK
  <2>2. Alone(s)'
    BY <1>21 DEF DeleteCopy, Finish, Alone, Downloading, TypeOK
  <2>3. PICK g : g = file[s]
    OBVIOUS
  <2>4. g \in Unowed' => Mirrored(g)'
    BY <1>21, <2>3 DEF DeleteCopy, Unowed, Mirrored, TypeOK
  <2>. QED
    BY <1>21, <2>1, <2>2, <2>3, <2>4, TurnSerial DEF DeleteCopy, Unowed, TypeOK, history
<1>22. ASSUME NEW s \in Sessions, RemoveFails(s)
       PROVE  SerialOK'
  <2>1. Turn(s)
    BY <1>22, TurnIsTaken DEF RemoveFails, Finish, Removing, Busy, Resting, TypeOK
  <2>2. Alone(s)'
    BY <1>22 DEF RemoveFails, Finish, Alone, Downloading, TypeOK
  <2>3. PICK g : g = file[s]
    OBVIOUS
  <2>4. /\ UNCHANGED <<store, dirty, orphan, aborted, edited>> /\ pc[s] \in Removing
        /\ UNCHANGED remote \/ remote' = [remote EXCEPT ![g] = NoFile]
    BY <1>22, <2>3 DEF RemoveFails, Removing, local, history
  <2>5. ASSUME g \in Unowed'
        PROVE  Mirrored(g)'
    <3>1. g \in Unowed /\ remote'[g] = remote[g]
      BY <2>4, <2>5 DEF Unowed, TypeOK
    <3>2. store[g] \in {NoFile, remote[g]}
      BY <2>1, <2>3, <2>4, <3>1 DEF Removing, Turn, Busy, Resting, Mirrored, SerialOK
    <3>. QED
      BY <2>4, <3>1, <3>2 DEF Mirrored
  <2>. QED
    BY <2>1, <2>2, <2>3, <2>4, <2>5, TurnSerial DEF Unowed, TypeOK
<1>23. ASSUME NEW f \in Files, NEW c \in EditedContents, EditRemote(f, c)
       PROVE  SerialOK'
  <2>1. \A s \in Sessions : Alone(s)' /\ (Busy(s)' <=> Busy(s))
    BY <1>0, <1>23 DEF EditRemote, Alone, Busy, Resting, Downloading, TypeOK, session, local
  <2>2. \A g \in Unowed' : g \in Unowed /\ remote'[g] = remote[g]
    BY <1>23 DEF EditRemote, Unowed, TypeOK
  <2>3. \A g \in Unowed' : Mirrored(g)'
    BY <1>23, <2>2 DEF EditRemote, SerialOK, Mirrored, session, local
  <2>. QED
    BY <2>1, <2>3 DEF SerialOK
<1>24. ASSUME Restart \/ UNCHANGED vars \/ \E f \in Files : Lookup(f)
       PROVE  SerialOK'
  BY <1>24 DEF Restart, Lookup, vars, SerialOK, Alone, Busy, Mirrored, Unowed, session, local,
               history
<1>25. ASSUME NEW s \in Sessions, Request(s)
       PROVE  SerialOK'
  <2>1. 0 \in 0..MaxLen
    BY MaxLenAssumption
  <2>. QED
    BY <1>11, <1>12, <1>13, <1>14, <1>18, <1>25, <2>1 DEF Request, Open, Truncate
<1>26. ASSUME NEW s \in Sessions, HandlerStep(s) \/ Failure(s)
       PROVE  SerialOK'
  BY <1>1, <1>2, <1>3, <1>4, <1>5, <1>6, <1>7, <1>8, <1>9, <1>10, <1>15, <1>16, <1>17, <1>26,
     <1>19, <1>20, <1>21, <1>22
     DEF HandlerStep, HandlerFails, Failure
<1>. QED
  BY <1>17, <1>23, <1>24, <1>25, <1>26 DEF Next

-----------------------------------------------------------------------------
(* The theorems. *)

LEMMA SerialInvariance ==
  ASSUME Workers = 1
  PROVE  Spec => [](IInv /\ SerialOK)
<1>1. IInv /\ SerialOK /\ [Next]_vars => SerialOK'
  BY SerialStep DEF IInv
<1>. QED
  BY <1>1, InitSerial, Invariance, PTL DEF Spec

\* With one handler at a time: when no handle of a file of the drive owes an upload,
\* the copy in the store is what the drive has, unless a truncate, a crash, a
\* download that was cut short or somebody else's edit came between.
THEOREM QuietFilesAreMirrored ==
  ASSUME Workers = 1
  PROVE  Spec => []QuietMirrored
<1>1. IInv /\ SerialOK => QuietMirrored
  <2>1. SUFFICES ASSUME IInv, SerialOK, NEW f \in Files \ (orphan \cup aborted \cup edited),
                        remote[f] # NoFile,
                        \A s \in Sessions : file[s] = f => pc[s] = "open" /\ ~changed[s]
                 PROVE  store[f] \in {NoFile, remote[f]}
    BY DEF QuietMirrored
  <2>2. f \in Unowed
    BY <2>1 DEF IInv, DirtyHasPublisher, Unowed
  <2>. QED
    BY <2>1, <2>2 DEF SerialOK, Mirrored
<1>. QED
  BY <1>1, SerialInvariance, PTL

-----------------------------------------------------------------------------
(* What local readers see, and what the handles are, in CloseToOpen's terms. *)

\* A file that nothing downloads, and one that s downloads.
LEMMA ViewFacts ==
  ASSUME NEW f \in Files
  PROVE  /\ Downloads(f) = {} => AbsView[f] = IF store[f] = NoFile THEN remote[f] ELSE store[f]
         /\ \A s \in Sessions : Downloads(f) = {s} =>
              AbsView[f] = IF store[f] = NoFile \/ pc[s] = "fetch" THEN remote[f] ELSE buf[s]
<1>1. ASSUME Downloads(f) = {}
      PROVE  AbsView[f] = IF store[f] = NoFile THEN remote[f] ELSE store[f]
  BY <1>1 DEF AbsView
<1>2. ASSUME NEW s \in Sessions, Downloads(f) = {s}
      PROVE  AbsView[f] = IF store[f] = NoFile \/ pc[s] = "fetch" THEN remote[f] ELSE buf[s]
  <2>1. (CHOOSE t \in Downloads(f) : TRUE) = s
    BY <1>2
  <2>. QED
    BY <1>2, <2>1 DEF AbsView
<1>. QED
  BY <1>1, <1>2

LEMMA ViewSame ==
  ASSUME \A f \in Files : AbsView'[f] = AbsView[f]
  PROVE  AbsView' = AbsView
BY DEF AbsView

LEMMA ViewUpdate ==
  ASSUME NEW g \in Files, NEW c, AbsView'[g] = c,
         \A f \in Files \ {g} : AbsView'[f] = AbsView[f]
  PROVE  AbsView' = [AbsView EXCEPT ![g] = c]
<1>1. AbsView = [f \in Files |-> AbsView[f]] /\ AbsView' = [f \in Files |-> AbsView'[f]]
  BY DEF AbsView
<1>. QED
  BY <1>1

\* Nothing is downloaded but by the handler at work, and by it only its file.
LEMMA OneDownload ==
  ASSUME SerialOK, NEW s \in Sessions, \A t \in Sessions \ {s} : ~Busy(t)
  PROVE  /\ \A f : f # file[s] \/ pc[s] \notin {"fetch", "append"} => Downloads(f) = {}
         /\ pc[s] \in {"fetch", "append"} => Downloads(file[s]) = {s}
BY DEF Downloads, Busy, Resting

\* What local readers see of the files that a step does not work on.
LEMMA OtherViews ==
  ASSUME SerialOK, NEW s \in Sessions, Turn(s), NEW g, file[s] \in {g, NoSession},
         file'[s] \in {g, NoSession},
         NEW f \in Files, f # g, store'[f] = store[f], remote'[f] = remote[f]
  PROVE  AbsView'[f] = AbsView[f]
<1>1. Downloads(f) = {} /\ Downloads(f)' = {}
  BY NoSessionAssumption DEF Turn, Downloads, Busy, Resting
<1>2. AbsView'[f] = IF store'[f] = NoFile THEN remote'[f] ELSE store'[f]
  BY <1>1 DEF AbsView
<1>. QED
  BY <1>1, <1>2, ViewFacts

\* The states of a handle.
LEMMA StatusFacts ==
  ASSUME NEW s \in Sessions
  PROVE  /\ pc[s] \in {"fopen", "send"} => AbsStatus[s] = "publishing" /\ AbsOf[s] = file[s]
         /\ pc[s] = "open" => /\ AbsStatus[s] = IF changed[s] THEN "changed" ELSE "open"
                              /\ AbsOf[s] = file[s]
         /\ pc[s] \notin {"fopen", "send", "open"} => /\ AbsStatus[s] = "closed"
                                                      /\ AbsOf[s] = NoSession
BY DEF AbsStatus, AbsOf

LEMMA NextStatusFacts ==
  ASSUME NEW s \in Sessions
  PROVE  /\ pc'[s] \in {"fopen", "send"} => AbsStatus'[s] = "publishing" /\ AbsOf'[s] = file'[s]
         /\ pc'[s] = "open" => /\ AbsStatus'[s] = IF changed'[s] THEN "changed" ELSE "open"
                               /\ AbsOf'[s] = file'[s]
         /\ pc'[s] \notin {"fopen", "send", "open"} => /\ AbsStatus'[s] = "closed"
                                                       /\ AbsOf'[s] = NoSession
BY DEF AbsStatus, AbsOf

\* A step of session s moves no other handle.
LEMMA OneHandle ==
  ASSUME NEW s \in Sessions,
         \A t \in Sessions \ {s} :
           pc'[t] = pc[t] /\ file'[t] = file[t] /\ changed'[t] = changed[t]
  PROVE  /\ AbsStatus' = [AbsStatus EXCEPT ![s] = AbsStatus'[s]]
         /\ AbsOf' = [AbsOf EXCEPT ![s] = AbsOf'[s]]
<1>1. \A t \in Sessions \ {s} : AbsStatus'[t] = AbsStatus[t] /\ AbsOf'[t] = AbsOf[t]
  BY StatusFacts, NextStatusFacts
<1>2. /\ AbsStatus = [t \in Sessions |-> AbsStatus[t]]
      /\ AbsStatus' = [t \in Sessions |-> AbsStatus'[t]]
  BY DEF AbsStatus
<1>3. AbsOf = [t \in Sessions |-> AbsOf[t]] /\ AbsOf' = [t \in Sessions |-> AbsOf'[t]]
  BY DEF AbsOf
<1>. QED
  BY <1>1, <1>2, <1>3

\* A file that no other session has in use has no other handle.
LEMMA NoOtherHandle ==
  ASSUME NEW f \in Files, NEW s \in Sessions,
         pc[s] \notin {"fopen", "send", "open"} \/ file[s] # f,
         \A t \in Sessions : file[t] = f => t = s
  PROVE  Abs!NoHandle(f)
<1>1. ASSUME NEW t \in Sessions
      PROVE  AbsOf[t] # f
  BY NoSessionAssumption DEF AbsStatus, AbsOf
<1>. QED
  BY <1>1 DEF Abs!NoHandle

\* A step that local readers, the drive and the handles do not show.
LEMMA Stutters ==
  ASSUME NEW s \in Sessions, \A f \in Files : AbsView'[f] = AbsView[f], UNCHANGED remote,
         AbsStatus'[s] = AbsStatus[s], AbsOf'[s] = AbsOf[s],
         \A t \in Sessions \ {s} :
           pc'[t] = pc[t] /\ file'[t] = file[t] /\ changed'[t] = changed[t]
  PROVE  UNCHANGED Abs!vars
<1>1. AbsView' = AbsView
  BY ViewSame
<1>2. AbsStatus' = AbsStatus /\ AbsOf' = AbsOf
  BY OneHandle DEF AbsStatus, AbsOf
<1>. QED
  BY <1>1, <1>2 DEF Abs!vars

\* What the invariants say of the sessions and of the handler at work.
Known ==
  /\ TypeOK /\ SessionOK /\ SerialOK /\ (\A c \in Contents : c # NoFile)
  /\ \A s \in Sessions :
       /\ Alone(s)
       /\ pc[s] # "idle" => file[s] \in Files
       /\ pc[s] \in {"append", "make", "meta"} => remote[file[s]] \in Contents
       /\ pc[s] \notin {"idle", "creat", "make", "remove", "delete"} => store[file[s]] \in Contents

LEMMA WhatIsKnown == IInv /\ SerialOK => Known
BY SessionFile, NoFileAssumption DEF IInv, SerialOK, Known, Removing

\* A download is hidden: local readers see the content it fetches throughout.
LEMMA DownloadRefines ==
  ASSUME Known, NEW s \in Sessions,
         CreatCopy(s) \/ Fetch(s) \/ AppendChunk(s) \/ DownloadDone(s)
  PROVE  Abs!Next \/ UNCHANGED Abs!vars
<1>. USE NoSessionAssumption
<1>. DEFINE g == file[s]
<1>1. /\ pc[s] \in {"creat", "fetch", "append"} /\ g \in Files /\ file' = file /\ remote' = remote
      /\ changed' = changed /\ ~changed[s] /\ TypeOK /\ SerialOK
      /\ \A t \in Sessions \ {s} : pc'[t] = pc[t] /\ buf'[t] = buf[t]
      /\ \A f \in Files \ {g} : store'[f] = store[f]
  BY DEF CreatCopy, Fetch, AppendChunk, DownloadDone, Known, SessionOK, Uploading, local, TypeOK
<1>2. Turn(s)
  BY <1>1, TurnIsTaken DEF Busy, Resting
<1>3. ASSUME NEW f \in Files, f # g
      PROVE  AbsView'[f] = AbsView[f]
  BY <1>1, <1>2, <1>3, OtherViews
<1>4. /\ pc[s] \in {"fetch", "append"} => Downloads(g) = {s}
      /\ pc[s] = "creat" => Downloads(g) = {}
  BY <1>2, OneDownload DEF Turn, Known
<1>5. /\ pc'[s] \in {"fetch", "append"} => Downloads(g)' = {s}
      /\ pc'[s] \notin {"fetch", "append"} => Downloads(g)' = {}
  BY <1>1, <1>2 DEF Downloads, Turn, Busy, Resting
<1>6. /\ Downloads(g)' = {} => AbsView'[g] = IF store'[g] = NoFile THEN remote'[g] ELSE store'[g]
      /\ Downloads(g)' = {s} =>
           AbsView'[g] = IF store'[g] = NoFile \/ pc'[s] = "fetch" THEN remote'[g] ELSE buf'[s]
  BY <1>1, ViewFacts DEF Downloads, AbsView
<1>7. AbsStatus[s] = "closed" /\ AbsOf[s] = NoSession
  BY <1>1, StatusFacts
<1>8. ASSUME CreatCopy(s)
      PROVE  UNCHANGED Abs!vars
  <2>1. pc[s] = "creat" /\ pc'[s] = "fetch" /\ store[g] = NoFile
    BY <1>8 DEF CreatCopy, Known, TypeOK, Alone
  <2>2. AbsView'[g] = AbsView[g]
    BY <1>1, <1>4, <1>5, <1>6, <2>1, ViewFacts
  <2>3. AbsStatus'[s] = "closed" /\ AbsOf'[s] = NoSession
    BY <2>1, NextStatusFacts
  <2>. QED
    BY <1>1, <1>3, <1>7, <2>2, <2>3, Stutters
<1>9. ASSUME Fetch(s)
      PROVE  UNCHANGED Abs!vars
  <2>1. pc[s] = "fetch" /\ pc'[s] = "append" /\ store[g] # NoFile /\ store'[g] = store[g]
        /\ buf'[s] = remote[g]
    BY <1>9 DEF Fetch, Known, TypeOK, local
  <2>2. AbsView'[g] = AbsView[g]
    BY <1>1, <1>4, <1>5, <1>6, <2>1, ViewFacts
  <2>3. AbsStatus'[s] = "closed" /\ AbsOf'[s] = NoSession
    BY <2>1, NextStatusFacts
  <2>. QED
    BY <1>1, <1>3, <1>7, <2>2, <2>3, Stutters
<1>10. ASSUME AppendChunk(s)
       PROVE  UNCHANGED Abs!vars
  <2>1. pc[s] = "append" /\ pc'[s] = "append" /\ store[g] # NoFile /\ store'[g] # NoFile
        /\ buf'[s] = buf[s]
    <3>1. store[g] \in Contents /\ Put(store[g], pos[s], buf[s][pos[s]]) \in Contents
      BY <1>10, AppendFacts DEF Known
    <3>2. store'[g] = Put(store[g], pos[s], buf[s][pos[s]])
      BY <1>1, <1>10 DEF AppendChunk, TypeOK
    <3>. QED
      BY <1>10, <3>1, <3>2 DEF AppendChunk, Known
  <2>2. AbsView'[g] = AbsView[g]
    BY <1>1, <1>4, <1>5, <1>6, <2>1, ViewFacts
  <2>3. AbsStatus'[s] = "closed" /\ AbsOf'[s] = NoSession
    BY <2>1, NextStatusFacts
  <2>. QED
    BY <1>1, <1>3, <1>7, <2>2, <2>3, Stutters
<1>11. ASSUME DownloadDone(s)
       PROVE  Abs!Next \/ UNCHANGED Abs!vars
  <2>1. /\ pc[s] = "append" /\ store[g] \in Contents /\ store'[g] = store[g] /\ buf[s] \in Contents
        /\ pos[s] <= Len(buf[s]) + 1 /\ pos[s] > Len(buf[s]) /\ pos[s] \in Nat
        /\ store[g] = SubSeq(buf[s], 1, pos[s] - 1)
        /\ pc'[s] = IF op[s] = "open" THEN "open" ELSE "resize"
    <3>1. pc[s] = "append" /\ pos[s] > Len(buf[s])
          /\ pc'[s] = IF op[s] = "open" THEN "open" ELSE "resize"
      BY <1>11 DEF DownloadDone, Known, TypeOK
    <3>2. store[g] \in Contents /\ store'[g] = store[g]
      BY <1>11, <3>1 DEF DownloadDone, Known, local
    <3>3. /\ pos[s] <= Len(buf[s]) + 1
          /\ store[g] = SubSeq(buf[s], 1, pos[s] - 1)
      BY <3>1 DEF Known, Alone
    <3>4. buf[s] \in Contents /\ pos[s] \in Nat
      BY MaxLenAssumption DEF Known, TypeOK
    <3>. QED
      BY <3>1, <3>2, <3>3, <3>4
  <2>2. store[g] = buf[s] /\ store[g] # NoFile
    <3>1. pos[s] - 1 = Len(buf[s])
      BY <2>1, ContentsLen
    <3>. QED
      BY <2>1, <3>1, WholePart DEF Known
  <2>3. AbsView'[g] = AbsView[g]
    BY <1>1, <1>4, <1>5, <1>6, <2>1, <2>2, ViewFacts
  <2>4. AbsView' = AbsView
    BY <1>3, <2>3, ViewSame
  <2>5. CASE op[s] = "open"
    <3>1. AbsStatus'[s] = "open" /\ AbsOf'[s] = g
      BY <1>1, <2>1, <2>5, NextStatusFacts
    <3>2. AbsStatus' = [AbsStatus EXCEPT ![s] = "open"] /\ AbsOf' = [AbsOf EXCEPT ![s] = g]
      BY <1>1, <3>1, OneHandle
    <3>3. AbsView[g] # NoFile
      BY <1>1, <1>4, <2>1, <2>2, ViewFacts
    <3>4. Abs!Open(s, g)
      BY <1>1, <1>7, <2>4, <3>2, <3>3 DEF Abs!Open, Abs!Handle
    <3>. QED
      BY <1>1, <3>4 DEF Abs!Next
  <2>6. CASE op[s] # "open"
    <3>1. AbsStatus'[s] = "closed" /\ AbsOf'[s] = NoSession
      BY <2>1, <2>6, NextStatusFacts
    <3>. QED
      BY <1>1, <1>3, <1>7, <2>3, <3>1, Stutters
  <2>. QED
    BY <2>5, <2>6
<1>. QED
  BY <1>8, <1>9, <1>10, <1>11

\* A truncate, a new file and its handle, a write.
LEMMA ResizeRefines ==
  ASSUME Known, NEW s \in Sessions, ResizeCopy(s)
  PROVE  Abs!Next
<1>. DEFINE g == file[s]
            c == Resize(store[g], newSize[s])
<1>1. /\ pc[s] = "resize" /\ g \in Files /\ store[g] \in Contents /\ c \in Contents
      /\ store' = [store EXCEPT ![g] = c] /\ UNCHANGED remote
      /\ pc'[s] = "idle" /\ file'[s] = NoSession
  BY ResizeContents DEF ResizeCopy, Finish, Known, TypeOK
<1>2. \A t \in Sessions \ {s} :
        pc'[t] = pc[t] /\ file'[t] = file[t] /\ changed'[t] = changed[t] /\ buf'[t] = buf[t]
  BY DEF ResizeCopy, Finish, Known, TypeOK
<1>3. Turn(s)
  BY <1>1, <1>2, TurnIsTaken DEF Busy, Resting, Known
<1>4. PICK h \in Files : h = g
  BY <1>1
<1>5. ASSUME NEW f \in Files \ {h}
      PROVE  AbsView'[f] = AbsView[f]
  <2>1. store'[f] = store[f] /\ remote'[f] = remote[f]
    BY <1>1, <1>4 DEF Known, TypeOK
  <2>. HIDE DEF c
  <2>2. file[s] \in {h, NoSession} /\ file'[s] \in {h, NoSession} /\ f \in Files /\ f # h
    BY <1>1, <1>4
  <2>. QED
    BY <1>3, <2>1, <2>2, OtherViews DEF Known
<1>6. Downloads(h) = {} /\ Downloads(h)' = {}
  BY <1>1, <1>3, <1>4 DEF Downloads, Turn, Busy, Resting
<1>7. AbsView[h] # NoFile /\ AbsView'[h] = c
  <2>1. AbsView'[h] = IF store'[h] = NoFile THEN remote'[h] ELSE store'[h]
    BY <1>6, ViewFacts DEF AbsView
  <2>2. store'[h] = c /\ c # NoFile
    BY <1>1, <1>4 DEF Known, TypeOK
  <2>. QED
    BY <1>1, <1>4, <1>6, <2>1, <2>2, ViewFacts DEF Known
<1>8. AbsView' = [AbsView EXCEPT ![h] = c]
  BY <1>5, <1>4, <1>7, ViewUpdate
<1>9. AbsStatus' = AbsStatus /\ AbsOf' = AbsOf
  <2>1. AbsStatus'[s] = AbsStatus[s] /\ AbsOf'[s] = AbsOf[s]
    BY <1>1, StatusFacts, NextStatusFacts
  <2>. QED
    BY <1>2, <2>1, OneHandle DEF AbsStatus, AbsOf
<1>10. Abs!Truncate(h, c)
  BY <1>1, <1>7, <1>8, <1>9 DEF Abs!Truncate
<1>. QED
  BY <1>1, <1>10 DEF Abs!Next

LEMMA CreateRefines ==
  ASSUME Known, \A t \in Sessions : ~Busy(t), NEW s \in Sessions, NEW g \in Files, Create(s, g)
  PROVE  Abs!Next
<1>1. /\ pc[s] = "idle" /\ remote[g] = NoFile /\ store[g] = NoFile /\ UNCHANGED store
      /\ remote' = [remote EXCEPT ![g] = <<>>] /\ pc'[s] = "make" /\ file'[s] = g
      /\ file[s] = NoSession
  BY DEF Create, Unused, Known, TypeOK, SessionOK, local
<1>2. \A t \in Sessions \ {s} :
        pc'[t] = pc[t] /\ file'[t] = file[t] /\ changed'[t] = changed[t] /\ buf'[t] = buf[t]
  BY DEF Create, Known, TypeOK
<1>3. Turn(s)
  BY <1>1, <1>2, TurnIsTaken DEF Known
<1>4. ASSUME NEW f \in Files \ {g}
      PROVE  AbsView'[f] = AbsView[f]
  <2>1. store'[f] = store[f] /\ remote'[f] = remote[f]
    BY <1>1 DEF Known, TypeOK
  <2>2. file[s] \in {g, NoSession} /\ file'[s] \in {g, NoSession} /\ f \in Files /\ f # g
    BY <1>1
  <2>. QED
    BY <1>3, <2>1, <2>2, OtherViews DEF Known
<1>5. AbsView'[g] = <<>>
  <2>1. store'[g] = NoFile /\ remote'[g] = <<>>
    BY <1>1 DEF Known, TypeOK
  <2>. QED
    BY <2>1 DEF AbsView
<1>6. AbsView' = [AbsView EXCEPT ![g] = <<>>]
  BY <1>4, <1>5, ViewUpdate
<1>7. AbsStatus' = AbsStatus /\ AbsOf' = AbsOf
  <2>1. AbsStatus'[s] = AbsStatus[s] /\ AbsOf'[s] = AbsOf[s]
    BY <1>1, StatusFacts, NextStatusFacts
  <2>. QED
    BY <1>2, <2>1, OneHandle DEF AbsStatus, AbsOf
<1>8. AbsView[g] = NoFile
  <2>1. Downloads(g) = {}
    BY DEF Downloads, Busy, Resting
  <2>. QED
    BY <1>1, <2>1, ViewFacts
<1>9. Abs!Create(g)
  BY <1>1, <1>6, <1>7, <1>8 DEF Abs!Create
<1>. QED
  BY <1>9 DEF Abs!Next

LEMMA WriteRefines ==
  ASSUME Known, \A t \in Sessions : ~Busy(t), NEW s \in Sessions,
         NEW i \in 1..MaxLen, NEW v \in Chunks, Write(s, i, v)
  PROVE  Abs!Next
<1>1. PICK g \in Files : g = file[s] /\ store[g] \in Contents
  BY DEF Write, Known
<1>. DEFINE c == Put(store[g], i, v)
<1>2. c \in Contents /\ c # <<>>
  <2>1. v \in Data
    BY DEF Data
  <2>2. c \in Contents /\ Len(c) = IF i > Len(store[g]) THEN i ELSE Len(store[g])
    BY <1>1, <2>1, PutContents
  <2>3. Len(c) > 0
    BY <1>1, <2>2, ContentsLen, MaxLenAssumption
  <2>. QED
    BY <2>2, <2>3
<1>3. /\ pc[s] = "open" /\ pc' = pc /\ file' = file /\ UNCHANGED <<remote, buf>>
      /\ store' = [store EXCEPT ![g] = c] /\ changed'[s] /\ store'[g] = c
      /\ \A t \in Sessions \ {s} : changed'[t] = changed[t]
  BY <1>1 DEF Write, Known, TypeOK
<1>4. Turn(s)
  BY <1>3, TurnIsTaken DEF Known
<1>5. ASSUME NEW f \in Files \ {g}
      PROVE  AbsView'[f] = AbsView[f]
  <2>1. store'[f] = store[f] /\ remote'[f] = remote[f]
    BY <1>1, <1>3 DEF Known, TypeOK
  <2>2. file[s] \in {g, NoSession} /\ file'[s] \in {g, NoSession} /\ f \in Files /\ f # g
    BY <1>1, <1>3
  <2>. QED
    BY <1>4, <2>1, <2>2, OtherViews DEF Known
<1>6. Downloads(g)' = {}
  BY <1>3 DEF Downloads, Busy, Resting
<1>7. AbsView'[g] = c
  BY <1>2, <1>3, <1>6 DEF AbsView, Known
<1>8. AbsView' = [AbsView EXCEPT ![g] = c]
  BY <1>5, <1>7, ViewUpdate
<1>9. /\ AbsStatus[s] \in {"open", "changed"} /\ AbsOf[s] = g
      /\ AbsStatus'[s] = "changed" /\ AbsOf'[s] = g
  BY <1>1, <1>3, StatusFacts, NextStatusFacts
<1>10. AbsStatus' = [AbsStatus EXCEPT ![s] = "changed"] /\ AbsOf' = AbsOf
  BY <1>3, <1>9, OneHandle DEF AbsOf
<1>11. Abs!Write(s, c)
  BY <1>2, <1>3, <1>8, <1>9, <1>10 DEF Abs!Write
<1>. QED
  BY <1>2, <1>11 DEF Abs!Next

\* An open that finds a copy, or starts a download; a truncate that starts.
LEMMA BeginRefines ==
  ASSUME Known, \A t \in Sessions : ~Busy(t), NEW s \in Sessions, NEW g \in Files,
         NEW o, NEW w, NEW n, Begin(s, g, o, w, n)
  PROVE  Abs!Next \/ UNCHANGED Abs!vars
<1>1. /\ pc[s] = "idle" /\ file[s] = NoSession /\ ~changed[s]
      /\ UNCHANGED <<store, remote, changed, buf>> /\ file'[s] = g
      /\ pc'[s] = IF store[g] = NoFile THEN "creat" ELSE IF o = "open" THEN "open" ELSE "resize"
      /\ \A t \in Sessions \ {s} : pc'[t] = pc[t] /\ file'[t] = file[t]
  BY DEF Begin, Known, TypeOK, SessionOK, Uploading, local
<1>2. Turn(s)
  BY <1>1, TurnIsTaken DEF Known
<1>3. ASSUME NEW f \in Files \ {g}
      PROVE  AbsView'[f] = AbsView[f]
  <2>1. SerialOK /\ file[s] \in {g, NoSession} /\ file'[s] \in {g, NoSession}
    BY <1>1 DEF Known
  <2>2. f \in Files /\ f # g /\ store'[f] = store[f] /\ remote'[f] = remote[f]
    BY <1>1
  <2>. QED
    BY <1>2, <2>1, <2>2, OtherViews
<1>4. Downloads(g) = {} /\ Downloads(g)' = {}
  BY <1>1 DEF Downloads, Busy, Resting
<1>5. AbsView'[g] = AbsView[g]
  BY <1>1, <1>4 DEF AbsView
<1>6. AbsView' = AbsView
  BY <1>3, <1>5, ViewSame
<1>7. AbsStatus[s] = "closed" /\ AbsOf[s] = NoSession
  BY <1>1, StatusFacts
<1>8. CASE pc'[s] = "open"
  <2>1. AbsStatus'[s] = "open" /\ AbsOf'[s] = g
    BY <1>1, <1>8, NextStatusFacts
  <2>2. AbsStatus' = [AbsStatus EXCEPT ![s] = "open"] /\ AbsOf' = [AbsOf EXCEPT ![s] = g]
    BY <1>1, <2>1, OneHandle
  <2>3. AbsView[g] # NoFile
    BY <1>1, <1>4, <1>8, ViewFacts
  <2>4. Abs!Open(s, g)
    BY <1>1, <1>6, <1>7, <2>2, <2>3 DEF Abs!Open, Abs!Handle
  <2>. QED
    BY <2>4 DEF Abs!Next
<1>9. CASE pc'[s] # "open"
  <2>1. AbsStatus'[s] = "closed" /\ AbsOf'[s] = NoSession
    BY <1>1, <1>9, NextStatusFacts
  <2>. QED
    BY <1>1, <1>3, <1>5, <1>7, <2>1, Stutters
<1>. QED
  BY <1>8, <1>9

\* Closing a handle.
LEMMA ReleaseRefines ==
  ASSUME Known, \A t \in Sessions : ~Busy(t), NEW s \in Sessions, Release(s)
  PROVE  Abs!Next
<1>1. /\ pc[s] = "open" /\ file[s] \in Files /\ UNCHANGED <<store, remote>>
      /\ \A t \in Sessions \ {s} :
           pc'[t] = pc[t] /\ file'[t] = file[t] /\ changed'[t] = changed[t] /\ buf'[t] = buf[t]
  BY DEF Release, Finish, Known, TypeOK, local
<1>2. /\ pc'[s] \in {"fopen", "idle"}
      /\ changed[s] => pc'[s] = "fopen" /\ file'[s] = file[s]
      /\ ~changed[s] => pc'[s] = "idle"
  BY DEF Release, Finish, Known, TypeOK
<1>3. AbsView' = AbsView
  <2>1. ASSUME NEW f \in Files
        PROVE  AbsView'[f] = AbsView[f]
    <3>1. Downloads(f) = {} /\ Downloads(f)' = {}
      BY <1>1, <1>2 DEF Downloads, Busy, Resting
    <3>. QED
      BY <1>1, <3>1 DEF AbsView
  <2>. QED
    BY <2>1, ViewSame
<1>4. CASE changed[s]
  <2>1. /\ AbsStatus[s] = "changed" /\ AbsOf[s] = file[s]
        /\ AbsStatus'[s] = "publishing" /\ AbsOf'[s] = file[s]
    BY <1>1, <1>2, <1>4, StatusFacts, NextStatusFacts
  <2>2. AbsStatus' = [AbsStatus EXCEPT ![s] = "publishing"] /\ AbsOf' = [AbsOf EXCEPT ![s] = AbsOf[s]]
    BY <1>1, <2>1, OneHandle
  <2>. QED
    BY <1>1, <1>3, <2>1, <2>2 DEF Abs!Next, Abs!Close, Abs!Handle
<1>5. CASE ~changed[s]
  <2>1. /\ AbsStatus[s] = "open"
        /\ AbsStatus'[s] = "closed" /\ AbsOf'[s] = NoSession
    BY <1>1, <1>2, <1>5, StatusFacts, NextStatusFacts
  <2>2. AbsStatus' = [AbsStatus EXCEPT ![s] = "closed"] /\ AbsOf' = [AbsOf EXCEPT ![s] = NoSession]
    BY <1>1, <2>1, OneHandle
  <2>. QED
    BY <1>1, <1>3, <2>1, <2>2 DEF Abs!Next, Abs!Close, Abs!Handle
<1>. QED
  BY <1>4, <1>5

\* What an upload has read when it ends is the whole copy.
LEMMA UploadIsTheCopy ==
  ASSUME Known, NEW s \in Sessions, pc[s] = "send", Len(buf[s]) >= Len(store[file[s]])
  PROVE  buf[s] = store[file[s]]
<1>1. /\ store[file[s]] \in Contents /\ buf[s] \in Contents
      /\ Len(buf[s]) <= Len(store[file[s]]) /\ buf[s] = SubSeq(store[file[s]], 1, Len(buf[s]))
  BY DEF Known, TypeOK, Alone
<1>2. Len(buf[s]) = Len(store[file[s]])
  BY <1>1, ContentsLen
<1>. QED
  BY <1>1, <1>2, WholePart

\* An upload is one step, the one in which the drive takes the content.
LEMMA UploadRefines ==
  ASSUME Known, NEW s \in Sessions,
         OpenForUpload(s) \/ SendChunk(s) \/ UploadLands(s) \/ FetchMeta(s)
  PROVE  Abs!Next \/ UNCHANGED Abs!vars
<1>1. PICK g \in Files : g = file[s] /\ store[g] \in Contents /\ pc[s] \in Uploading
  BY DEF OpenForUpload, SendChunk, UploadLands, FetchMeta, Known, Uploading
<1>2. /\ UNCHANGED store
      /\ \A t \in Sessions \ {s} :
           pc'[t] = pc[t] /\ file'[t] = file[t] /\ changed'[t] = changed[t] /\ buf'[t] = buf[t]
      /\ \A f \in Files \ {g} : remote'[f] = remote[f]
      /\ pc'[s] \in {"send", "meta", "idle"} /\ file'[s] \in {g, NoSession}
  BY <1>1 DEF OpenForUpload, SendChunk, UploadLands, FetchMeta, Finish, Known, TypeOK, local
<1>3. \A f \in Files : Downloads(f) = {} /\ Downloads(f)' = {}
  <2>1. Turn(s)
    BY <1>1, <1>2, TurnIsTaken DEF Known, Busy, Resting, Uploading
  <2>. QED
    BY <1>1, <1>2, <2>1 DEF Downloads, Turn, Busy, Resting, Uploading
<1>4. ASSUME NEW f \in Files
      PROVE  AbsView'[f] = AbsView[f]
  <2>1. AbsView'[f] = IF store'[f] = NoFile THEN remote'[f] ELSE store'[f]
    BY <1>3 DEF AbsView
  <2>2. f = g => store[f] # NoFile
    BY <1>1 DEF Known
  <2>. QED
    BY <1>2, <1>3, <2>1, <2>2, ViewFacts
<1>5. CASE OpenForUpload(s) \/ SendChunk(s)
  <2>1. pc[s] \in {"fopen", "send"} /\ pc'[s] = "send" /\ file'[s] = file[s] /\ UNCHANGED remote
    BY <1>5 DEF OpenForUpload, SendChunk, Known, TypeOK
  <2>2. AbsStatus'[s] = AbsStatus[s] /\ AbsOf'[s] = AbsOf[s]
    BY <2>1, StatusFacts, NextStatusFacts
  <2>. QED
    BY <1>2, <1>4, <2>1, <2>2, Stutters
<1>6. CASE FetchMeta(s)
  <2>1. pc[s] = "meta" /\ pc'[s] = "idle" /\ UNCHANGED remote
    BY <1>6 DEF FetchMeta, Finish, Known, TypeOK
  <2>2. AbsStatus'[s] = AbsStatus[s] /\ AbsOf'[s] = AbsOf[s]
    BY <2>1, StatusFacts, NextStatusFacts
  <2>. QED
    BY <1>2, <1>4, <2>1, <2>2, Stutters
<1>7. CASE UploadLands(s)
  <2>1. pc[s] = "send" /\ pc'[s] = "meta" /\ buf[s] = store[g] /\ remote[g] # NoFile
    BY <1>1, <1>7, UploadIsTheCopy DEF UploadLands, Known, TypeOK
  <2>2. AbsView[g] = store[g]
    BY <1>1, <1>3, ViewFacts DEF Known
  <2>3. remote' = [remote EXCEPT ![g] = AbsView[g]]
    BY <1>1, <1>7, <2>1, <2>2 DEF UploadLands
  <2>4. /\ AbsStatus[s] = "publishing" /\ AbsOf[s] = g
        /\ AbsStatus'[s] = "closed" /\ AbsOf'[s] = NoSession
    BY <1>1, <2>1, StatusFacts, NextStatusFacts
  <2>5. AbsStatus' = [AbsStatus EXCEPT ![s] = "closed"] /\ AbsOf' = [AbsOf EXCEPT ![s] = NoSession]
    BY <1>2, <2>4, OneHandle
  <2>6. AbsView' = AbsView
    BY <1>4, ViewSame
  <2>7. Abs!Publish(s)
    BY <2>1, <2>3, <2>4, <2>5, <2>6 DEF Abs!Publish, Abs!Handle
  <2>. QED
    BY <2>7 DEF Abs!Next
<1>. QED
  BY <1>5, <1>6, <1>7

\* What a download that stops leaves in the store is a part of what readers saw.
LEMMA CutFacts ==
  ASSUME Known, NEW s \in Sessions, pc[s] \in {"fetch", "append"}, NEW g, g = file[s]
  PROVE  /\ g \in Files /\ Abs!NoHandle(g) /\ store[g] \in Contents
         /\ store[g] \in Abs!Prefixes(AbsView[g])
<1>1. /\ g \in Files /\ store[g] \in Contents /\ buf[s] \in Contents /\ buf[s] # NoFile
      /\ remote[g] \in Contents \cup {NoFile}
      /\ store[g] # NoFile /\ \A t \in Sessions : file[t] = g => t = s
  BY DEF Known, Alone, Downloading, TypeOK
<1>2. Abs!NoHandle(g)
  BY <1>1, NoOtherHandle
<1>3. Downloads(g) = {s}
  BY <1>1 DEF Downloads
<1>4. AbsView[g] = IF pc[s] = "fetch" THEN remote[g] ELSE buf[s]
  BY <1>1, <1>3, ViewFacts
<1>5. CASE pc[s] = "fetch"
  <2>1. store[g] = <<>> /\ AbsView[g] = remote[g]
    BY <1>4, <1>5 DEF Known, Alone
  <2>2. remote[g] # NoFile => SubSeq(remote[g], 1, 0) = <<>> /\ 0 \in 0..Len(remote[g])
    BY <1>1, NoPart, ContentsLen
  <2>. QED
    BY <1>1, <1>2, <2>1, <2>2 DEF Abs!Prefixes
<1>6. CASE pc[s] = "append"
  <2>1. /\ AbsView[g] = buf[s] /\ store[g] = SubSeq(buf[s], 1, pos[s] - 1)
        /\ pos[s] <= Len(buf[s]) + 1
    BY <1>4, <1>6 DEF Known, Alone
  <2>2. pos[s] - 1 \in 0..Len(buf[s])
    BY <1>1, <2>1, ContentsLen, MaxLenAssumption DEF Known, TypeOK
  <2>. QED
    BY <1>1, <1>2, <2>1, <2>2 DEF Abs!Prefixes
<1>. QED
  BY <1>5, <1>6

\* After the end of the process nothing is downloaded and no handle is open.
LEMMA DieViews ==
  ASSUME Known, Die
  PROVE  /\ AbsStatus' = [s \in Sessions |-> "closed"] /\ AbsOf' = [s \in Sessions |-> NoSession]
         /\ \A f \in Files :
              AbsView'[f] = IF store'[f] = NoFile THEN remote'[f] ELSE store'[f]
<1>1. \A s \in Sessions : pc'[s] = "idle"
  BY DEF Die
<1>2. \A s \in Sessions : AbsStatus'[s] = "closed" /\ AbsOf'[s] = NoSession
  BY <1>1, NextStatusFacts
<1>3. /\ AbsStatus' = [s \in Sessions |-> AbsStatus'[s]]
      /\ AbsOf' = [s \in Sessions |-> AbsOf'[s]]
  BY DEF AbsStatus, AbsOf
<1>4. \A f \in Files : Downloads(f)' = {}
  BY <1>1 DEF Downloads
<1>5. \A f \in Files : AbsView'[f] = IF store'[f] = NoFile THEN remote'[f] ELSE store'[f]
  BY <1>4 DEF AbsView
<1>. QED
  BY <1>2, <1>3, <1>5

LEMMA DieRefines ==
  ASSUME Known, Die, UNCHANGED <<store, remote>>
  PROVE  Abs!Next
<1>1. CASE \A s \in Sessions : pc[s] \notin {"fetch", "append"}
  <2>1. \A f \in Files : Downloads(f) = {}
    BY <1>1 DEF Downloads
  <2>2. \A f \in Files : AbsView'[f] = AbsView[f]
    BY <2>1, DieViews, ViewFacts
  <2>3. AbsView' = AbsView
    BY <2>2, ViewSame
  <2>. QED
    BY <2>3, DieViews DEF Abs!Next, Abs!Crash
<1>2. ASSUME NEW s \in Sessions, pc[s] \in {"fetch", "append"}
      PROVE  Abs!Next
  <2>1. PICK g : g = file[s]
    OBVIOUS
  <2>2. /\ g \in Files /\ Abs!NoHandle(g) /\ store[g] \in Contents
        /\ store[g] \in Abs!Prefixes(AbsView[g])
    BY <1>2, <2>1, CutFacts
  <2>3. AbsView'[g] = store[g]
    BY <2>2, DieViews DEF Known
  <2>4. ASSUME NEW f \in Files \ {g}
        PROVE  AbsView'[f] = AbsView[f]
    <3>1. Downloads(f) = {}
      BY <1>2, <2>1 DEF Downloads, Known, SerialOK, Busy, Resting
    <3>. QED
      BY <3>1, DieViews, ViewFacts
  <2>5. AbsView' = [AbsView EXCEPT ![g] = store[g]]
    BY <2>2, <2>3, <2>4, ViewUpdate
  <2>6. Abs!Cut(g)
    BY <2>2, <2>5 DEF Abs!Cut, Known
  <2>. QED
    BY <2>2, <2>6, DieViews DEF Abs!Next, Abs!Crash
<1>. QED
  BY <1>1, <1>2

LEMMA DownloadFailsRefines ==
  ASSUME Known, NEW s \in Sessions, DownloadFails(s)
  PROVE  Abs!Next \/ UNCHANGED Abs!vars
<1>1. CASE Die
  BY <1>1, DieRefines DEF DownloadFails, local
<1>2. CASE ~Die /\ pc[s] = "creat"
  <2>1. UNCHANGED <<store, remote>> /\ Finish(s)
    BY <1>2 DEF DownloadFails, local
  <2>2. /\ pc'[s] = "idle"
        /\ \A t \in Sessions \ {s} :
             pc'[t] = pc[t] /\ file'[t] = file[t] /\ changed'[t] = changed[t] /\ buf'[t] = buf[t]
    BY <2>1 DEF Finish, Known, TypeOK
  <2>3. \A t \in Sessions : pc[t] \notin {"fetch", "append"} /\ pc'[t] \notin {"fetch", "append"}
    BY <1>2, <2>2 DEF Known, SerialOK, Busy, Resting
  <2>4. \A f \in Files : AbsView'[f] = AbsView[f]
    BY <2>1, <2>3 DEF AbsView, Downloads
  <2>5. AbsStatus'[s] = AbsStatus[s] /\ AbsOf'[s] = AbsOf[s]
    BY <1>2, <2>2, StatusFacts, NextStatusFacts
  <2>. QED
    BY <2>1, <2>2, <2>4, <2>5, Stutters
<1>3. CASE ~Die /\ pc[s] # "creat"
  <2>1. PICK g : g = file[s]
    OBVIOUS
  <2>2. /\ pc[s] \in {"fetch", "append"} /\ UNCHANGED <<store, remote>> /\ Finish(s)
    BY <1>3 DEF DownloadFails, Downloading, local
  <2>3. /\ g \in Files /\ Abs!NoHandle(g) /\ store[g] \in Contents
        /\ store[g] \in Abs!Prefixes(AbsView[g])
    BY <2>1, <2>2, CutFacts
  <2>4. /\ pc'[s] = "idle" /\ file'[s] = NoSession
        /\ \A t \in Sessions \ {s} :
             pc'[t] = pc[t] /\ file'[t] = file[t] /\ changed'[t] = changed[t] /\ buf'[t] = buf[t]
    BY <2>2 DEF Finish, Known, TypeOK
  <2>5. Turn(s)
    BY <2>2, <2>4, TurnIsTaken DEF Known, Busy, Resting
  <2>6. AbsView'[g] = store[g]
    <3>1. Downloads(g)' = {}
      BY <2>4, <2>5 DEF Downloads, Turn, Busy, Resting
    <3>. QED
      BY <2>2, <2>3, <3>1 DEF AbsView, Known
  <2>7. ASSUME NEW f \in Files \ {g}
        PROVE  AbsView'[f] = AbsView[f]
    BY <2>1, <2>2, <2>4, <2>5, OtherViews DEF Known
  <2>8. AbsView' = [AbsView EXCEPT ![g] = store[g]]
    BY <2>3, <2>6, <2>7, ViewUpdate
  <2>9. AbsStatus' = AbsStatus /\ AbsOf' = AbsOf
    <3>1. AbsStatus'[s] = AbsStatus[s] /\ AbsOf'[s] = AbsOf[s]
      BY <2>2, <2>4, StatusFacts, NextStatusFacts
    <3>. QED
      BY <2>4, <3>1, OneHandle DEF AbsStatus, AbsOf
  <2>10. Abs!OpenFails(g)
    BY <2>2, <2>3, <2>8, <2>9 DEF Abs!OpenFails, Abs!Cut, Known
  <2>. QED
    BY <2>3, <2>10 DEF Abs!Next
<1>. QED
  BY <1>1, <1>2, <1>3

\* A download that loses a chunk: local readers lose it.
LEMMA ShortWriteRefines ==
  ASSUME Known, NEW s \in Sessions, ShortWrite(s)
  PROVE  Abs!Next
<1>1. PICK g \in Files : g = file[s]
  BY DEF ShortWrite, Known
<1>2. /\ pc[s] = "append" /\ UNCHANGED <<store, remote, pc, file, changed>>
      /\ buf' = [buf EXCEPT ![s] = Lose(@, pos[s])]
      /\ store[g] # NoFile /\ buf[s] # NoFile /\ pos[s] \in 1..Len(buf[s])
      /\ \A t \in Sessions : file[t] = g => t = s
  <2>1. pc[s] = "append" /\ pos[s] <= Len(buf[s]) /\ buf[s] \in Contents /\ pos[s] \in 1..MaxLen + 1
    BY DEF ShortWrite, Known, TypeOK
  <2>2. pos[s] \in 1..Len(buf[s])
    BY <2>1, ContentsLen, MaxLenAssumption
  <2>. QED
    BY <1>1, <2>1, <2>2 DEF ShortWrite, Known, Alone, Downloading, local
<1>3. Turn(s)
  BY <1>2, TurnIsTaken DEF Known, TypeOK, Busy, Resting
<1>4. Downloads(g) = {s} /\ Downloads(g)' = {s}
  BY <1>1, <1>2 DEF Downloads
<1>5. AbsView[g] = buf[s] /\ AbsView'[g] = Lose(buf[s], pos[s])
  <2>1. AbsView'[g] = buf'[s]
    BY <1>2, <1>4 DEF AbsView
  <2>. QED
    BY <1>2, <1>4, <2>1, ViewFacts DEF Known, TypeOK
<1>6. \A f \in Files \ {g} : AbsView'[f] = AbsView[f]
  BY <1>1, <1>2, <1>3, OtherViews DEF Known
<1>7. AbsView' = [AbsView EXCEPT ![g] = Lose(buf[s], pos[s])]
  BY <1>5, <1>6, ViewUpdate
<1>8. Lose(buf[s], pos[s]) \in Abs!Without(AbsView[g])
  BY <1>2, <1>5 DEF Lose, Abs!Without
<1>9. Abs!NoHandle(g)
  BY <1>2, NoOtherHandle
<1>10. Abs!Lose(g)
  BY <1>2, <1>5, <1>7, <1>8, <1>9 DEF Abs!Lose, AbsStatus, AbsOf
<1>. QED
  BY <1>10 DEF Abs!Next

\* An upload that fails ends the process, and the drive may have taken it.
LEMMA UploadFailsRefines ==
  ASSUME Known, NEW s \in Sessions, UploadFails(s)
  PROVE  Abs!Next
<1>1. Die /\ UNCHANGED store
  BY DEF UploadFails, local
<1>2. CASE UNCHANGED remote
  BY <1>1, <1>2, DieRefines
<1>3. CASE /\ pc[s] = "send" /\ Len(buf[s]) >= Len(store[file[s]]) /\ remote[file[s]] # NoFile
           /\ remote' = [remote EXCEPT ![file[s]] = buf[s]]
  <2>1. PICK g \in Files : g = file[s] /\ store[g] \in Contents /\ buf[s] = store[g]
    BY <1>3, UploadIsTheCopy DEF Known
  <2>2. \A f \in Files : Downloads(f) = {}
    BY <1>3 DEF Downloads, Known, SerialOK, Busy, Resting
  <2>3. ASSUME NEW f \in Files
        PROVE  AbsView'[f] = AbsView[f]
    <3>1. AbsView'[f] = IF store[f] = NoFile THEN remote'[f] ELSE store[f]
      BY <1>1, DieViews
    <3>2. remote'[f] = remote[f] \/ store[f] # NoFile
      BY <1>3, <2>1 DEF Known, TypeOK
    <3>. QED
      BY <2>2, <3>1, <3>2, ViewFacts
  <2>4. AbsView' = AbsView
    BY <2>3, ViewSame
  <2>5. AbsStatus[s] = "publishing" /\ AbsOf[s] = g /\ AbsView[g] = store[g]
    BY <1>3, <2>1, <2>2, StatusFacts, ViewFacts DEF Known
  <2>6. remote' = [remote EXCEPT ![AbsOf[s]] = AbsView[AbsOf[s]]]
    BY <1>3, <2>1, <2>5
  <2>7. remote[AbsOf[s]] # NoFile
    BY <1>3, <2>1, <2>5
  <2>. QED
    BY <1>1, <2>4, <2>5, <2>6, <2>7, DieViews DEF Abs!Next, Abs!Crash
<1>. QED
  BY <1>2, <1>3 DEF UploadFails

\* The handle of a new file.
LEMMA OpenNewRefines ==
  ASSUME Known, NEW s \in Sessions, OpenNew(s)
  PROVE  Abs!Next
<1>1. CASE Die
  <2>1. UNCHANGED <<store, dirs, remote>>
    BY <1>1, DyingOpen DEF Known
  <2>. QED
    BY <1>1, <2>1, DieRefines
<1>2. CASE ~Die
  <2>1. PICK g \in Files : g = file[s]
    BY DEF OpenNew, Known
  <2>2. /\ pc[s] = "make" /\ pc' = [pc EXCEPT ![s] = "open"] /\ UNCHANGED <<remote, file, buf>>
        /\ store' = [store EXCEPT ![g] = <<>>] /\ changed' = [changed EXCEPT ![s] = TRUE]
        /\ remote[g] # NoFile /\ \A t \in Sessions : file[t] = g => t = s
    BY <1>2, <2>1 DEF OpenNew, Known, SessionOK, Alone
  <2>3. /\ pc'[s] = "open" /\ changed'[s] /\ store'[g] = <<>> /\ <<>> # NoFile
        /\ \A t \in Sessions \ {s} : pc'[t] = pc[t] /\ changed'[t] = changed[t]
        /\ \A f \in Files \ {g} : store'[f] = store[f]
    BY <2>2, EmptyContents DEF Known, TypeOK
  <2>4. Turn(s)
    BY <2>2, <2>3, TurnIsTaken DEF Known, Busy, Resting
  <2>5. AbsView'[g] = <<>>
    <3>1. Downloads(g)' = {}
      BY <2>2, <2>3 DEF Downloads
    <3>. QED
      BY <2>3, <3>1 DEF AbsView
  <2>6. ASSUME NEW f \in Files \ {g}
        PROVE  AbsView'[f] = AbsView[f]
    BY <2>1, <2>2, <2>3, <2>4, OtherViews DEF Known
  <2>7. AbsView' = [AbsView EXCEPT ![g] = <<>>]
    BY <2>5, <2>6, ViewUpdate
  <2>8. /\ AbsStatus[s] = "closed" /\ AbsStatus'[s] = "changed" /\ AbsOf'[s] = g
    BY <2>1, <2>2, <2>3, StatusFacts, NextStatusFacts
  <2>9. AbsStatus' = [AbsStatus EXCEPT ![s] = "changed"] /\ AbsOf' = [AbsOf EXCEPT ![s] = g]
    BY <2>2, <2>3, <2>8, OneHandle
  <2>10. Abs!NoHandle(g)
    BY <2>2, NoOtherHandle
  <2>11. Abs!OpenNew(s, g)
    BY <2>2, <2>7, <2>8, <2>9, <2>10 DEF Abs!OpenNew, Abs!Handle
  <2>. QED
    BY <2>11 DEF Abs!Next
<1>. QED
  BY <1>1, <1>2

\* An unlink that starts.
LEMMA UnlinkRefines ==
  ASSUME Known, \A t \in Sessions : ~Busy(t), NEW s \in Sessions, NEW g \in Files, Unlink(s, g)
  PROVE  UNCHANGED Abs!vars
<1>1. /\ pc[s] = "idle" /\ pc'[s] = "remove" /\ UNCHANGED <<store, remote, changed>>
      /\ \A t \in Sessions \ {s} : pc'[t] = pc[t] /\ file'[t] = file[t]
  BY DEF Unlink, Known, TypeOK, local
<1>2. \A f \in Files : Downloads(f) = {} /\ Downloads(f)' = {}
  BY <1>1 DEF Downloads, Busy, Resting
<1>3. \A f \in Files : AbsView'[f] = AbsView[f]
  BY <1>1, <1>2 DEF AbsView
<1>4. AbsStatus'[s] = AbsStatus[s] /\ AbsOf'[s] = AbsOf[s]
  BY <1>1, StatusFacts, NextStatusFacts
<1>. QED
  BY <1>1, <1>3, <1>4, Stutters

\* A step of an unlink touches nothing but its file, which has no handle.
LEMMA RemovalFacts ==
  ASSUME Known, NEW s \in Sessions, pc[s] \in {"remove", "delete"}, pc'[s] \in {"delete", "idle"},
         NEW g, g = file[s],
         \A t \in Sessions \ {s} : pc'[t] = pc[t] /\ file'[t] = file[t] /\ changed'[t] = changed[t],
         \A f \in Files \ {g} : store'[f] = store[f] /\ remote'[f] = remote[f]
  PROVE  /\ g \in Files /\ Abs!NoHandle(g) /\ AbsStatus' = AbsStatus /\ AbsOf' = AbsOf
         /\ \A f \in Files \ {g} : AbsView'[f] = AbsView[f]
         /\ AbsView[g] = IF store[g] = NoFile THEN remote[g] ELSE store[g]
         /\ AbsView'[g] = IF store'[g] = NoFile THEN remote'[g] ELSE store'[g]
<1>1. g \in Files /\ \A t \in Sessions : file[t] = g => t = s
  BY AloneOnFile DEF Known, Removing
<1>2. Abs!NoHandle(g)
  BY <1>1, NoOtherHandle
<1>3. \A f \in Files : Downloads(f) = {} /\ Downloads(f)' = {}
  BY DEF Known, SerialOK, Downloads, Busy, Resting
<1>4. \A f \in Files : AbsView'[f] = IF store'[f] = NoFile THEN remote'[f] ELSE store'[f]
  BY <1>3 DEF AbsView
<1>5. \A f \in Files : AbsView[f] = IF store[f] = NoFile THEN remote[f] ELSE store[f]
  BY <1>3, ViewFacts
<1>6. AbsStatus'[s] = AbsStatus[s] /\ AbsOf'[s] = AbsOf[s]
  BY StatusFacts, NextStatusFacts
<1>7. AbsStatus' = AbsStatus /\ AbsOf' = AbsOf
  BY <1>6, OneHandle DEF AbsStatus, AbsOf
<1>. QED
  BY <1>1, <1>2, <1>4, <1>5, <1>7

\* The drive deletes the file: local readers keep the copy if there is one.
LEMMA RemoveRefines ==
  ASSUME Known, NEW s \in Sessions, RemoveRemote(s) \/ RemoveFails(s)
  PROVE  Abs!Next \/ UNCHANGED Abs!vars
<1>1. PICK g : g = file[s]
  OBVIOUS
<1>2. /\ pc[s] \in {"remove", "delete"} /\ pc'[s] \in {"delete", "idle"} /\ UNCHANGED store
      /\ \A t \in Sessions \ {s} : pc'[t] = pc[t] /\ file'[t] = file[t] /\ changed'[t] = changed[t]
      /\ UNCHANGED remote \/ (remote[g] # NoFile /\ remote' = [remote EXCEPT ![g] = NoFile])
  BY <1>1 DEF RemoveRemote, RemoveFails, Finish, Removing, Known, TypeOK, local
<1>3. \A f \in Files \ {g} : store'[f] = store[f] /\ remote'[f] = remote[f]
  BY <1>2 DEF Known, TypeOK
<1>4. /\ g \in Files /\ Abs!NoHandle(g) /\ AbsStatus' = AbsStatus /\ AbsOf' = AbsOf
      /\ \A f \in Files \ {g} : AbsView'[f] = AbsView[f]
      /\ AbsView[g] = IF store[g] = NoFile THEN remote[g] ELSE store[g]
      /\ AbsView'[g] = IF store'[g] = NoFile THEN remote'[g] ELSE store'[g]
  BY <1>1, <1>2, <1>3, RemovalFacts
<1>5. CASE UNCHANGED remote
  <2>1. AbsView' = AbsView
    BY <1>2, <1>4, <1>5, ViewSame
  <2>. QED
    BY <1>4, <1>5, <2>1 DEF Abs!vars
<1>6. CASE remote[g] # NoFile /\ remote' = [remote EXCEPT ![g] = NoFile]
  <2>1. remote'[g] = NoFile
    BY <1>4, <1>6 DEF Known, TypeOK
  <2>2. CASE store[g] = NoFile
    <3>1. AbsView' = [AbsView EXCEPT ![g] = NoFile]
      BY <1>2, <1>4, <2>1, <2>2, ViewUpdate
    <3>. QED
      BY <1>4, <1>6, <3>1 DEF Abs!Next, Abs!Unlink
  <2>3. CASE store[g] # NoFile
    <3>1. AbsView' = AbsView
      BY <1>2, <1>4, <2>3, ViewSame
    <3>. QED
      BY <1>4, <1>6, <3>1 DEF Abs!Next, Abs!Unlink
  <2>. QED
    BY <2>2, <2>3
<1>. QED
  BY <1>2, <1>5, <1>6

\* The copy of a file that the drive has no more is deleted.
LEMMA DeleteRefines ==
  ASSUME Known, NEW s \in Sessions, DeleteCopy(s)
  PROVE  Abs!Next
<1>1. PICK g : g = file[s]
  OBVIOUS
<1>2. /\ pc[s] = "delete" /\ pc'[s] = "idle" /\ UNCHANGED remote /\ remote[g] = NoFile
      /\ store' = [store EXCEPT ![g] = NoFile]
      /\ \A t \in Sessions \ {s} : pc'[t] = pc[t] /\ file'[t] = file[t] /\ changed'[t] = changed[t]
  BY <1>1 DEF DeleteCopy, Finish, Known, TypeOK, SessionOK
<1>3. \A f \in Files \ {g} : store'[f] = store[f] /\ remote'[f] = remote[f]
  BY <1>2 DEF Known, TypeOK
<1>4. /\ g \in Files /\ Abs!NoHandle(g) /\ AbsStatus' = AbsStatus /\ AbsOf' = AbsOf
      /\ \A f \in Files \ {g} : AbsView'[f] = AbsView[f]
      /\ AbsView'[g] = IF store'[g] = NoFile THEN remote'[g] ELSE store'[g]
  BY <1>1, <1>2, <1>3, RemovalFacts
<1>5. AbsView'[g] = NoFile
  BY <1>2, <1>4 DEF Known, TypeOK
<1>6. AbsView' = [AbsView EXCEPT ![g] = NoFile]
  BY <1>4, <1>5, ViewUpdate
<1>. QED
  BY <1>2, <1>4, <1>6 DEF Abs!Next, Abs!Discard

\* Somebody else's edit.
LEMMA EditRefines ==
  ASSUME Known, NEW g \in Files, NEW c \in EditedContents, EditRemote(g, c)
  PROVE  Abs!Next
<1>1. /\ remote[g] # NoFile /\ remote' = [remote EXCEPT ![g] = c] /\ c \in Contents
      /\ UNCHANGED store /\ UNCHANGED session
  BY DEF EditRemote, EditedContents, Contents, local
<1>2. \A f \in Files \ {g} : AbsView'[f] = AbsView[f]
  BY <1>1 DEF AbsView, Downloads, session, Known, TypeOK
<1>3. AbsView'[g] \in {AbsView[g], c}
  BY <1>1 DEF AbsView, Downloads, session, Known, TypeOK
<1>4. AbsView' = [AbsView EXCEPT ![g] = AbsView'[g]]
  BY <1>2, ViewUpdate
<1>5. AbsView' \in {AbsView, [AbsView EXCEPT ![g] = c]}
  <2>1. CASE AbsView'[g] = AbsView[g]
    BY <1>2, <2>1, ViewSame
  <2>2. CASE AbsView'[g] = c
    BY <1>4, <2>2
  <2>. QED
    BY <1>3, <2>1, <2>2
<1>6. AbsStatus' = AbsStatus /\ AbsOf' = AbsOf
  BY <1>1 DEF session, AbsStatus, AbsOf
<1>7. Abs!Edit(g, c)
  BY <1>1, <1>5, <1>6 DEF Abs!Edit
<1>. QED
  BY <1>1, <1>7 DEF Abs!Next

\* A lookup and a restart change none of this.
LEMMA SteadyRefines ==
  ASSUME UNCHANGED <<store, remote, session>>
  PROVE  UNCHANGED Abs!vars
BY DEF Abs!vars, AbsView, AbsStatus, AbsOf, Downloads, session

-----------------------------------------------------------------------------
(* The refinement. *)

LEMMA AbsInit == Init => Abs!Init
<1>1. SUFFICES ASSUME Init
               PROVE  Abs!Init
  OBVIOUS
<1>2. EditedContents \subseteq Contents
  BY DEF EditedContents, Contents
<1>3. \A f \in Files : AbsView[f] = remote[f]
  BY <1>1 DEF Init, AbsView
<1>4. AbsView = remote
  BY <1>1, <1>3 DEF Init, AbsView
<1>5. /\ AbsStatus = [s \in Sessions |-> "closed"]
      /\ AbsOf = [s \in Sessions |-> NoSession]
  BY <1>1 DEF Init, AbsStatus, AbsOf
<1>6. remote \in [Files -> Contents \cup {NoFile}]
  BY <1>1, <1>2 DEF Init
<1>. QED
  BY <1>4, <1>5, <1>6 DEF Abs!Init

LEMMA AbsStep ==
  ASSUME Workers = 1, IInv, SerialOK, [Next]_vars
  PROVE  Abs!Next \/ UNCHANGED Abs!vars
<1>. USE WhatIsKnown
<1>1. FreeWorker => \A t \in Sessions : ~Busy(t)
  BY FreeIsQuiet
<1>2. ASSUME NEW s \in Sessions, HandlerStep(s)
      PROVE  Abs!Next \/ UNCHANGED Abs!vars
  BY <1>2, DownloadRefines, ResizeRefines, OpenNewRefines, UploadRefines, DownloadFailsRefines,
     UploadFailsRefines, RemoveRefines, DeleteRefines
     DEF HandlerStep, HandlerFails
<1>3. ASSUME NEW s \in Sessions, Request(s)
      PROVE  Abs!Next \/ UNCHANGED Abs!vars
  <2>1. CASE \E f \in Files : \/ \E w \in BOOLEAN : Open(s, f, w)
                              \/ \E n \in 0..MaxLen : Truncate(s, f, n)
    <3>1. \A t \in Sessions : ~Busy(t)
      BY <1>1, <2>1 DEF Open, Truncate, Begin
    <3>. QED
      BY <2>1, <3>1, BeginRefines DEF Open, Truncate
  <2>2. ASSUME NEW f \in Files, Create(s, f)
        PROVE  Abs!Next
    BY <1>1, <2>2, CreateRefines DEF Create
  <2>3. ASSUME NEW i \in 1..MaxLen, NEW v \in Chunks, Write(s, i, v)
        PROVE  Abs!Next
    BY <1>1, <2>3, WriteRefines DEF Write
  <2>4. CASE Release(s)
    BY <1>1, <2>4, ReleaseRefines DEF Release
  <2>5. ASSUME NEW f \in Files, Unlink(s, f)
        PROVE  UNCHANGED Abs!vars
    BY <1>1, <2>5, UnlinkRefines DEF Unlink
  <2>. QED
    BY <1>3, <2>1, <2>2, <2>3, <2>4, <2>5 DEF Request
<1>4. ASSUME NEW s \in Sessions, Failure(s)
      PROVE  Abs!Next \/ UNCHANGED Abs!vars
  BY <1>4, DownloadFailsRefines, UploadFailsRefines, RemoveRefines, DieRefines, ShortWriteRefines
     DEF Failure, HandlerFails, WriteFails, local
<1>5. ASSUME NEW f \in Files, Lookup(f)
      PROVE  UNCHANGED Abs!vars
  BY <1>5, SteadyRefines DEF Lookup, local
<1>6. ASSUME NEW f \in Files, NEW c \in EditedContents, EditRemote(f, c)
      PROVE  Abs!Next
  BY <1>6, EditRefines
<1>7. ASSUME Crash
      PROVE  Abs!Next
  BY <1>7, DieRefines DEF Crash, local
<1>8. ASSUME Restart \/ UNCHANGED vars
      PROVE  UNCHANGED Abs!vars
  BY <1>8, SteadyRefines DEF Restart, vars, local
<1>. QED
  BY <1>2, <1>3, <1>4, <1>5, <1>6, <1>7, <1>8 DEF Next

\* With one handler at a time the whole of the content path (the copies in the
\* store, downloads chunk by chunk, uploads, failures, crashes and restarts)
\* behaves as one shared view per file that the drive takes whole, some time
\* after a handle that changed it is closed.
THEOREM SerialIsCloseToOpen ==
  ASSUME Workers = 1
  PROVE  Spec => ImplementsCloseToOpen
<1>1. IInv /\ SerialOK /\ [Next]_vars => [Abs!Next]_(Abs!vars)
  BY AbsStep
<1>. QED
  BY <1>1, AbsInit, SerialInvariance, PTL DEF Spec, ImplementsCloseToOpen, Abs!Spec
=============================================================================
