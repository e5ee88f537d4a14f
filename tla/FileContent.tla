---------------------------- MODULE FileContent ----------------------------
(***************************************************************************)
(* The life of a file's bytes in gd2fuse: the local content store          *)
(* (ContentManager), the copy on Google Drive, the size cached in the      *)
(* node, and the FUSE requests that move bytes between them: open, create, *)
(* write, truncate, release, unlink.                                       *)
(*                                                                         *)
(* A "session" is one file handle from its open() or create() to the end   *)
(* of its release(), one truncate() or one unlink().  pc says how far the  *)
(* handler working for the session is; between two handlers the session of *)
(* an open handle rests in "open".  libfuse runs handlers on Workers       *)
(* threads at once (Workers = 1 is the "-s" option); nothing in the code   *)
(* locks a file, so handlers of one file interleave at every system call   *)
(* and every request to Google Drive.                                      *)
(*                                                                         *)
(* File contents are sequences of chunks, a chunk being the unit in which  *)
(* ContentManager::createFile copies a download.                           *)
(***************************************************************************)
EXTENDS Integers, Sequences, FiniteSets

CONSTANTS
  Files,        \* files on the drive, named by their ids
  Sessions,     \* open handles, truncate and unlink requests
  Dirs,         \* the two-level directories of the content store
  Chunks,       \* what a chunk may hold, beside Hole
  Hole,         \* a chunk of zeroes: what the kernel reads in a gap
  NoFile,       \* no such file, in the store or on the drive
  NoSession,    \* the file of a session that is not in use
  Workers,      \* how many handlers libfuse runs at once
  MaxLen,       \* bound: the longest file, in chunks
  Faults,       \* TRUE iff requests and system calls may fail, the daemon die
  RemoteEdits,  \* TRUE iff other Drive clients change contents
  DirOf         \* DirOf[f]: the store directory that holds the copy of f

\* What other clients put on the drive, and what a file may hold at all.
EditedContents == UNION {[1..n -> Chunks] : n \in 0..MaxLen}
Contents       == UNION {[1..n -> Chunks \cup {Hole}] : n \in 0..MaxLen}

ASSUME WorkersAssumption == Workers \in Nat \ {0}
ASSUME MaxLenAssumption  == MaxLen \in Nat
ASSUME DirOfAssumption   == DirOf \in [Files -> Dirs]
ASSUME SwitchAssumption  == Faults \in BOOLEAN /\ RemoteEdits \in BOOLEAN
ASSUME NoFileAssumption  == NoFile \notin Contents
ASSUME NoSessionAssumption == NoSession \notin Files

VARIABLES
  alive,    \* the daemon process runs
  store,    \* store[f]: the file of id f under the session's data directory
  dirs,     \* store directories that exist
  remote,   \* remote[f]: the content of f on the drive
  meta,     \* meta[f]: Node::_size, or -1 when no node of f is in memory
  pc,       \* pc[s]: where the handler of session s is
  op,       \* op[s]: "open", "truncate" or "unlink"
  file,     \* file[s]: the file of session s
  writable, \* writable[s]: the handle was opened for writing
  changed,  \* changed[s]: FileHandle::_changed
  buf,      \* buf[s]: bytes a transfer carries
  pos,      \* pos[s]: the chunk a download writes next
  newSize,  \* newSize[s]: the argument of a truncate
  \* What has happened to the local copies; only the properties read these.
  wrote,    \* sessions that have written to their file, or created it
  dirty,    \* files written since an upload last began to read the copy
  touched,  \* files whose copy a write or a truncate changed
  orphan,   \* files with local changes that no handle is going to upload
  aborted,  \* files with a download that stopped before its end or lost a chunk
  edited    \* files changed on the drive by somebody else

local    == <<store, dirs>>
session  == <<pc, op, file, writable, changed, buf, pos, newSize, wrote>>
history  == <<dirty, touched, orphan, aborted, edited>>
vars     == <<alive, local, remote, meta, session, history>>

Downloading == {"creat", "fetch", "append"}
Uploading   == {"fopen", "send", "meta"}
Removing    == {"remove", "delete"}
Resting     == {"idle", "open"}
Steps       == Downloading \cup Uploading \cup Removing \cup Resting \cup {"make", "resize"}

Busy(s) == pc[s] \notin Resting

\* A thread of libfuse's loop is free to take the next request.
FreeWorker == Cardinality({s \in Sessions : Busy(s)}) < Workers

\* The kernel holds the inode's lock during a truncate and a write.
InodeLocked(f) == \E s \in Sessions : Busy(s) /\ op[s] = "truncate" /\ file[s] = f

\* The kernel has looked f up, no create() of f is still unanswered, and libfuse
\* holds the path of f for no unlink().
Visible(f) ==
  meta[f] >= 0 /\ \A s \in Sessions : file[s] = f => pc[s] # "make" /\ op[s] # "unlink"

\* A name for a file that has never been: the drive gives every file a new id.
Unused(f) ==
  remote[f] = NoFile /\ store[f] = NoFile /\ meta[f] = -1 /\ \A s \in Sessions : file[s] # f

\* Files of the drive whose copy nothing but downloads have made, all of the
\* same content.
CleanFiles == {f \in Files \ (touched \cup aborted \cup edited) : remote[f] # NoFile}

Downloads(f) == {s \in Sessions : file[s] = f /\ pc[s] \in {"fetch", "append"}}

-----------------------------------------------------------------------------
(* System calls on a copy in the store. *)

\* pwrite() of one chunk v at position i.
Put_Relative(c, i, v) ==
  [j \in 1..(Len(c) + i) |-> IF j <= Len(c) THEN c[j] ELSE IF j = Len(c) + i THEN v ELSE Hole]

Put(c, i, v) ==
  [j \in 1..(IF i > Len(c) THEN i ELSE Len(c)) |->
     IF j = i THEN v ELSE IF j <= Len(c) THEN c[j] ELSE Hole]

\* c without its chunk i.
Lose(c, i) == [j \in 1..Len(c) - 1 |-> IF j < i THEN c[j] ELSE c[j + 1]]

\* truncate() to n chunks.
Resize(c, n) == [j \in 1..n |-> IF j <= Len(c) THEN c[j] ELSE Hole]

-----------------------------------------------------------------------------
Init ==
  /\ alive = TRUE
  /\ store = [f \in Files |-> NoFile]
  /\ dirs = {}
  /\ remote \in [Files -> EditedContents \cup {NoFile}]
  /\ meta = [f \in Files |-> -1]
  /\ pc = [s \in Sessions |-> "idle"]
  /\ op = [s \in Sessions |-> "open"]
  /\ file = [s \in Sessions |-> NoSession]
  /\ writable = [s \in Sessions |-> FALSE]
  /\ changed = [s \in Sessions |-> FALSE]
  /\ buf = [s \in Sessions |-> <<>>]
  /\ pos = [s \in Sessions |-> 1]
  /\ newSize = [s \in Sessions |-> 0]
  /\ wrote = {} /\ dirty = {} /\ touched = {} /\ orphan = {} /\ aborted = {} /\ edited = {}

\* The session is over: its handle is deleted, its thread takes another request.
Finish(s) ==
  /\ pc' = [pc EXCEPT ![s] = "idle"]
  /\ op' = [op EXCEPT ![s] = "open"]
  /\ file' = [file EXCEPT ![s] = NoSession]
  /\ writable' = [writable EXCEPT ![s] = FALSE]
  /\ changed' = [changed EXCEPT ![s] = FALSE]
  /\ buf' = [buf EXCEPT ![s] = <<>>]
  /\ pos' = [pos EXCEPT ![s] = 1]
  /\ newSize' = [newSize EXCEPT ![s] = 0]
  /\ wrote' = wrote \ {s}

\* The process ends at once: an exception left a handler, or it was killed.
\* The store and the drive keep what they have.
Die ==
  /\ alive' = FALSE
  /\ meta' = [f \in Files |-> -1]
  /\ pc' = [s \in Sessions |-> "idle"]
  /\ op' = [s \in Sessions |-> "open"]
  /\ file' = [s \in Sessions |-> NoSession]
  /\ writable' = [s \in Sessions |-> FALSE]
  /\ changed' = [s \in Sessions |-> FALSE]
  /\ buf' = [s \in Sessions |-> <<>>]
  /\ pos' = [s \in Sessions |-> 1]
  /\ newSize' = [s \in Sessions |-> 0]
  /\ wrote' = {}
  /\ aborted' = aborted \cup {f \in Files : Downloads(f) # {}}
  /\ orphan' = orphan \cup dirty
                 \cup {f \in Files : \E s \in Sessions : file[s] = f /\ pc[s] \in Uploading}
  /\ dirty' = {}
  /\ UNCHANGED <<touched, edited>>

-----------------------------------------------------------------------------
(* Plausible mistakes.  PROJECT.json pairs each with the action whose place  *)
(* it takes and with the property that then fails.                           *)

\* The download appends at the end of the file, not at its own offset.
AppendChunk_AtEnd(s) ==
  /\ pc[s] = "append" /\ pos[s] <= Len(buf[s])
  /\ store' = [store EXCEPT ![file[s]] =
                 IF Len(@) < MaxLen THEN Append(@, buf[s][pos[s]]) ELSE @]
  /\ pos' = [pos EXCEPT ![s] = @ + 1]
  /\ UNCHANGED <<alive, dirs, remote, meta, pc, op, file, writable, changed, buf,
                 newSize, wrote, history>>

\* The end of the download is not noticed when its length is a full buffer.
DownloadDone_FullBuffer(s) ==
  /\ pc[s] = "append" /\ pos[s] > Len(buf[s]) /\ Len(buf[s]) < MaxLen
  /\ pc' = [pc EXCEPT ![s] = IF op[s] = "open" THEN "open" ELSE "resize"]
  /\ buf' = [buf EXCEPT ![s] = <<>>]
  /\ pos' = [pos EXCEPT ![s] = 1]
  /\ UNCHANGED <<alive, local, remote, meta, op, file, writable, changed, newSize, wrote, history>>

\* write() leaves the handle unmarked.
Write_Unmarked(s, i, v) ==
  /\ alive /\ FreeWorker
  /\ pc[s] = "open" /\ writable[s]
  /\ ~InodeLocked(file[s])
  /\ store' = [store EXCEPT ![file[s]] = Put(@, i, v)]
  /\ wrote' = wrote \cup {s}
  /\ dirty' = dirty \cup {file[s]}
  /\ touched' = touched \cup {file[s]}
  /\ UNCHANGED <<alive, dirs, remote, meta, pc, op, file, writable, changed, buf, pos, newSize,
                 orphan, aborted, edited>>

\* Every close uploads.
Release_Always(s) ==
  /\ alive /\ FreeWorker
  /\ pc[s] = "open"
  /\ pc' = [pc EXCEPT ![s] = "fopen"]
  /\ UNCHANGED <<alive, local, remote, meta, op, file, writable, changed, buf, pos, newSize,
                 wrote, history>>

\* No close uploads.
Release_Never(s) ==
  /\ alive /\ FreeWorker
  /\ pc[s] = "open"
  /\ Finish(s)
  /\ UNCHANGED <<alive, local, remote, meta, history>>

\* The reader reports the end of file one chunk early.
UploadLands_Early(s) ==
  /\ pc[s] = "send" /\ Len(buf[s]) + 1 >= Len(store[file[s]])
  /\ remote' = [remote EXCEPT ![file[s]] = buf[s]]
  /\ pc' = [pc EXCEPT ![s] = "meta"]
  /\ UNCHANGED <<alive, local, meta, op, file, writable, changed, buf, pos, newSize, wrote, history>>

\* unlink() deletes the copy first and asks the drive afterwards.
RemoveRemote_CopyFirst(s) ==
  /\ pc[s] = "remove"
  /\ store' = [store EXCEPT ![file[s]] = NoFile]
  /\ pc' = [pc EXCEPT ![s] = "delete"]
  /\ UNCHANGED <<alive, dirs, remote, meta, op, file, writable, changed, buf, pos, newSize,
                 wrote, history>>

-----------------------------------------------------------------------------
(* getattr: the first lookup of f reads its size from the drive. *)

Lookup(f) ==
  /\ alive /\ FreeWorker
  /\ meta[f] = -1 /\ remote[f] # NoFile
  /\ meta' = [meta EXCEPT ![f] = Len(remote[f])]
  /\ UNCHANGED <<alive, local, remote, session, history>>

-----------------------------------------------------------------------------
(* open and truncate: make sure there is a copy, then open or resize it. *)

\* Node::openContent and Node::truncate ask the store whether the copy exists;
\* o = "truncate" takes the new size n.
Begin(s, f, o, w, n) ==
  /\ alive /\ FreeWorker
  /\ pc[s] = "idle" /\ Visible(f)
  /\ o = "truncate" => ~InodeLocked(f)
  /\ pc' = [pc EXCEPT ![s] = IF store[f] = NoFile THEN "creat"
                             ELSE IF o = "open" THEN "open" ELSE "resize"]
  /\ op' = [op EXCEPT ![s] = o]
  /\ file' = [file EXCEPT ![s] = f]
  /\ writable' = [writable EXCEPT ![s] = w]
  /\ newSize' = [newSize EXCEPT ![s] = n]
  /\ UNCHANGED <<alive, local, remote, meta, changed, buf, pos, wrote, history>>

Open(s, f, w)     == Begin(s, f, "open", w, 0)
Truncate(s, f, n) == Begin(s, f, "truncate", FALSE, n)

\* ContentManager::createFile makes the directory and creat()s the file, which
\* empties a copy that somebody else created since the check.
CreatCopy(s) ==
  /\ pc[s] = "creat"
  /\ dirs' = dirs \cup {DirOf[file[s]]}
  /\ store' = [store EXCEPT ![file[s]] = <<>>]
  /\ pc' = [pc EXCEPT ![s] = "fetch"]
  /\ UNCHANGED <<alive, remote, meta, op, file, writable, changed, buf, pos, newSize, wrote, history>>

\* The first use of the reader sends the request for the content.
Fetch(s) ==
  /\ pc[s] = "fetch" /\ remote[file[s]] # NoFile
  /\ buf' = [buf EXCEPT ![s] = remote[file[s]]]
  /\ pc' = [pc EXCEPT ![s] = "append"]
  /\ UNCHANGED <<alive, local, remote, meta, op, file, writable, changed, pos, newSize, wrote, history>>

\* One turn of createFile's loop: write() at the offset of the descriptor that
\* creat() returned, whatever the file holds by now.
AppendChunk(s) ==
  /\ pc[s] = "append" /\ pos[s] <= Len(buf[s])
  /\ store' = [store EXCEPT ![file[s]] = Put(@, pos[s], buf[s][pos[s]])]
  /\ pos' = [pos EXCEPT ![s] = @ + 1]
  /\ UNCHANGED <<alive, dirs, remote, meta, pc, op, file, writable, changed, buf,
                 newSize, wrote, history>>

\* write() takes less than it is given, and the loop goes on as if it had not.
ShortWrite(s) ==
  /\ pc[s] = "append" /\ pos[s] <= Len(buf[s])
  /\ buf' = [buf EXCEPT ![s] = Lose(@, pos[s])]
  /\ aborted' = aborted \cup {file[s]}
  /\ UNCHANGED <<alive, local, remote, meta, pc, op, file, writable, changed, pos, newSize, wrote,
                 dirty, touched, orphan, edited>>

\* The loop has ended: openFile opens the copy, or truncate goes on.
DownloadDone(s) ==
  /\ pc[s] = "append" /\ pos[s] > Len(buf[s])
  /\ pc' = [pc EXCEPT ![s] = IF op[s] = "open" THEN "open" ELSE "resize"]
  /\ buf' = [buf EXCEPT ![s] = <<>>]
  /\ pos' = [pos EXCEPT ![s] = 1]
  /\ UNCHANGED <<alive, local, remote, meta, op, file, writable, changed, newSize, wrote, history>>

\* ContentManager::truncateFile.  The node keeps its size and no handle is
\* marked changed.
ResizeCopy(s) ==
  /\ pc[s] = "resize"
  /\ store' = [store EXCEPT ![file[s]] = Resize(@, newSize[s])]
  /\ touched' = touched \cup {file[s]}
  /\ orphan' = orphan \cup {file[s]}
  /\ Finish(s)
  /\ UNCHANGED <<alive, dirs, remote, meta, dirty, aborted, edited>>

\* creat(), the request, a write() or the open() after the download fails.
\* FuseGate::openContent catches the exception and open() reports an error;
\* nothing catches it in truncate().  What createFile has written stays in the
\* store.
DownloadFails(s) ==
  /\ pc[s] \in Downloading
  /\ \/ /\ op[s] = "open"
        /\ aborted' = IF pc[s] = "creat" \/ (pc[s] = "append" /\ pos[s] > Len(buf[s]))
                      THEN aborted ELSE aborted \cup {file[s]}
        /\ Finish(s)
        /\ UNCHANGED <<alive, meta, dirty, touched, orphan, edited>>
     \/ /\ op[s] = "truncate"
        /\ Die
  /\ UNCHANGED <<local, remote>>

-----------------------------------------------------------------------------
(* create: a new file on the drive, then an empty copy to write to. *)

\* FuseGate::createFile makes the node with cloudCreateMeta.
Create(s, f) ==
  /\ alive /\ FreeWorker
  /\ pc[s] = "idle" /\ Unused(f)
  /\ remote' = [remote EXCEPT ![f] = <<>>]
  /\ meta' = [meta EXCEPT ![f] = 0]
  /\ pc' = [pc EXCEPT ![s] = "make"]
  /\ file' = [file EXCEPT ![s] = f]
  /\ writable' = [writable EXCEPT ![s] = TRUE]
  /\ touched' = touched \ {f} /\ orphan' = orphan \ {f}
  /\ aborted' = aborted \ {f} /\ edited' = edited \ {f}
  /\ UNCHANGED <<alive, local, op, changed, buf, pos, newSize, wrote, dirty>>

\* Node::openContent(O_CREAT) leaves the creation of the copy to open(), which
\* does not make the directory createFile would have made; g2f_create catches
\* nothing.
OpenNew(s) ==
  /\ pc[s] = "make"
  /\ \/ /\ DirOf[file[s]] \in dirs
        /\ store' = [store EXCEPT ![file[s]] = <<>>]
        /\ touched' = touched \cup {file[s]}
        /\ changed' = [changed EXCEPT ![s] = TRUE]
        /\ wrote' = wrote \cup {s}
        /\ pc' = [pc EXCEPT ![s] = "open"]
        /\ UNCHANGED <<alive, meta, op, file, writable, buf, pos, newSize, dirty, orphan,
                       aborted, edited>>
     \/ /\ DirOf[file[s]] \notin dirs
        /\ Die
        /\ UNCHANGED store
  /\ UNCHANGED <<dirs, remote>>

-----------------------------------------------------------------------------
(* write: straight into the copy. *)

Write(s, i, v) ==
  /\ alive /\ FreeWorker
  /\ pc[s] = "open" /\ writable[s]
  /\ ~InodeLocked(file[s])
  /\ store' = [store EXCEPT ![file[s]] = Put(@, i, v)]
  /\ changed' = [changed EXCEPT ![s] = TRUE]
  /\ wrote' = wrote \cup {s}
  /\ dirty' = dirty \cup {file[s]}
  /\ touched' = touched \cup {file[s]}
  /\ UNCHANGED <<alive, dirs, remote, meta, pc, op, file, writable, buf, pos, newSize, orphan,
                 aborted, edited>>

\* writeContent throws when pwrite() fails, and g2f_write catches nothing.
WriteFails(s) ==
  /\ FreeWorker
  /\ pc[s] = "open" /\ writable[s]
  /\ ~InodeLocked(file[s])
  /\ Die
  /\ UNCHANGED <<local, remote>>

-----------------------------------------------------------------------------
(* release: close the descriptor and, if the handle wrote, upload the copy. *)

\* FileHandle::close.
Release(s) ==
  /\ alive /\ FreeWorker
  /\ pc[s] = "open"
  /\ \/ /\ changed[s]
        /\ pc' = [pc EXCEPT ![s] = "fopen"]
        /\ UNCHANGED <<op, file, writable, changed, buf, pos, newSize, wrote>>
     \/ /\ ~changed[s]
        /\ Finish(s)
  /\ UNCHANGED <<alive, local, remote, meta, history>>

\* updateNodeContent opens the copy for reading.
OpenForUpload(s) ==
  /\ pc[s] = "fopen"
  /\ pc' = [pc EXCEPT ![s] = "send"]
  /\ dirty' = dirty \ {file[s]}
  /\ orphan' = orphan \ {file[s]}
  /\ UNCHANGED <<alive, local, remote, meta, op, file, writable, changed, buf, pos, newSize,
                 wrote, touched, aborted, edited>>

\* cloudUpdate's transport pulls the next chunk through GoogleReader.
SendChunk(s) ==
  /\ pc[s] = "send" /\ Len(buf[s]) < Len(store[file[s]])
  /\ buf' = [buf EXCEPT ![s] = Append(@, store[file[s]][Len(@) + 1])]
  /\ UNCHANGED <<alive, local, remote, meta, pc, op, file, writable, changed, pos, newSize,
                 wrote, history>>

\* End of file: the drive takes the new content, if it still has the file.
UploadLands(s) ==
  /\ pc[s] = "send" /\ Len(buf[s]) >= Len(store[file[s]]) /\ remote[file[s]] # NoFile
  /\ remote' = [remote EXCEPT ![file[s]] = buf[s]]
  /\ pc' = [pc EXCEPT ![s] = "meta"]
  /\ UNCHANGED <<alive, local, meta, op, file, writable, changed, buf, pos, newSize, wrote, history>>

\* cloudFetchMeta refreshes the size, and release() is over.
FetchMeta(s) ==
  /\ pc[s] = "meta"
  /\ meta' = [meta EXCEPT ![file[s]] = Len(remote[file[s]])]
  /\ Finish(s)
  /\ UNCHANGED <<alive, local, remote, history>>

\* The copy cannot be opened, the update fails, with or without effect on the
\* drive, or the metadata request does.  Nothing in release() catches the exception.
UploadFails(s) ==
  /\ \/ /\ pc[s] \in Uploading
        /\ UNCHANGED remote
     \/ /\ pc[s] = "send" /\ Len(buf[s]) >= Len(store[file[s]]) /\ remote[file[s]] # NoFile
        /\ remote' = [remote EXCEPT ![file[s]] = buf[s]]
  /\ Die
  /\ UNCHANGED local

-----------------------------------------------------------------------------
(* unlink: delete the file on the drive, then the copy, then the node. *)

\* libfuse turns the unlink of a file that has a handle into a rename, and keeps
\* the unlink waiting for an open() or truncate() of its path.
Unlink(s, f) ==
  /\ alive /\ FreeWorker
  /\ pc[s] = "idle" /\ Visible(f)
  /\ \A t \in Sessions : file[t] # f
  /\ pc' = [pc EXCEPT ![s] = "remove"]
  /\ op' = [op EXCEPT ![s] = "unlink"]
  /\ file' = [file EXCEPT ![s] = f]
  /\ UNCHANGED <<alive, local, remote, meta, writable, changed, buf, pos, newSize, wrote, history>>

\* cloudRemove.
RemoveRemote(s) ==
  /\ pc[s] = "remove" /\ remote[file[s]] # NoFile
  /\ remote' = [remote EXCEPT ![file[s]] = NoFile]
  /\ pc' = [pc EXCEPT ![s] = "delete"]
  /\ UNCHANGED <<alive, local, meta, op, file, writable, changed, buf, pos, newSize, wrote, history>>

\* ContentManager::deleteFile, after which removeNodes drops the node.
DeleteCopy(s) ==
  /\ pc[s] = "delete"
  /\ store' = [store EXCEPT ![file[s]] = NoFile]
  /\ meta' = [meta EXCEPT ![file[s]] = -1]
  /\ Finish(s)
  /\ UNCHANGED <<alive, dirs, remote, history>>

\* cloudRemove fails, with or without effect on the drive, or deleteFile does.
\* FuseGate::removeINode catches the exception: the copy and the node stay.
RemoveFails(s) ==
  /\ \/ /\ pc[s] \in Removing
        /\ UNCHANGED remote
     \/ /\ pc[s] = "remove" /\ remote[file[s]] # NoFile
        /\ remote' = [remote EXCEPT ![file[s]] = NoFile]
  /\ Finish(s)
  /\ UNCHANGED <<alive, local, meta, history>>

-----------------------------------------------------------------------------
(* Other clients of the drive, the end of the process. *)

\* Another client of the drive replaces the content.
EditRemote(f, c) ==
  /\ RemoteEdits /\ remote[f] \notin {NoFile, c}
  /\ remote' = [remote EXCEPT ![f] = c]
  /\ edited' = edited \cup {f}
  /\ UNCHANGED <<alive, local, meta, session, dirty, touched, orphan, aborted>>

Crash ==
  /\ Faults /\ alive
  /\ Die
  /\ UNCHANGED <<local, remote>>

\* gd2fuse is started again on the same data directory.
Restart ==
  /\ ~alive
  /\ alive' = TRUE
  /\ UNCHANGED <<local, remote, meta, session, history>>

-----------------------------------------------------------------------------
\* The drive answers that it has no such file.
Missing(s) == pc[s] \in {"fetch", "send", "remove"} /\ remote[file[s]] = NoFile

\* A request or a system call of a handler fails and ends it.
HandlerFails(s) == DownloadFails(s) \/ UploadFails(s) \/ RemoveFails(s)

\* A step of a handler that has begun.
HandlerStep(s) ==
  \/ CreatCopy(s) \/ Fetch(s) \/ AppendChunk(s) \/ DownloadDone(s) \/ ResizeCopy(s)
  \/ OpenNew(s)
  \/ OpenForUpload(s) \/ SendChunk(s) \/ UploadLands(s) \/ FetchMeta(s)
  \/ RemoveRemote(s) \/ DeleteCopy(s)
  \/ Missing(s) /\ HandlerFails(s)

\* A request of the kernel.
Request(s) ==
  \/ \E f \in Files : \/ \E w \in BOOLEAN : Open(s, f, w)
                      \/ \E n \in 0..MaxLen : Truncate(s, f, n)
                      \/ Create(s, f) \/ Unlink(s, f)
  \/ \E i \in 1..MaxLen, v \in Chunks : Write(s, i, v)
  \/ Release(s)

Failure(s) == Faults /\ (HandlerFails(s) \/ WriteFails(s) \/ ShortWrite(s))

Next ==
  \/ \E s \in Sessions : HandlerStep(s) \/ Request(s) \/ Failure(s)
  \/ \E f \in Files : Lookup(f)
  \/ \E f \in Files, c \in EditedContents : EditRemote(f, c)
  \/ Crash \/ Restart

Spec == Init /\ [][Next]_vars

\* Handlers run on threads of their own and every request to the drive has a
\* time limit, so a handler that has begun goes on.  The kernel closes the
\* files of every process in the end, and libfuse takes requests in order.
FairSpec ==
  Spec /\ \A s \in Sessions : WF_vars(HandlerStep(s)) /\ SF_vars(Release(s))

-----------------------------------------------------------------------------
TypeOK ==
  /\ alive \in BOOLEAN
  /\ store \in [Files -> Contents \cup {NoFile}]
  /\ dirs \subseteq Dirs
  /\ remote \in [Files -> Contents \cup {NoFile}]
  /\ meta \in [Files -> -1..MaxLen]
  /\ pc \in [Sessions -> Steps]
  /\ op \in [Sessions -> {"open", "truncate", "unlink"}]
  /\ file \in [Sessions -> Files \cup {NoSession}]
  /\ writable \in [Sessions -> BOOLEAN]
  /\ changed \in [Sessions -> BOOLEAN]
  /\ buf \in [Sessions -> Contents]
  /\ pos \in [Sessions -> 1..MaxLen + 1]
  /\ newSize \in [Sessions -> 0..MaxLen]
  /\ wrote \subseteq Sessions
  /\ dirty \subseteq Files /\ touched \subseteq Files /\ orphan \subseteq Files
  /\ aborted \subseteq Files /\ edited \subseteq Files

\* The copy of a file of the drive that nobody wrote to is all of the file, however
\* many opens were downloading it at the same time and cutting each other's work
\* off with creat(): only a download that stopped half-way or lost a chunk, or an
\* edit on the drive, leaves the store with something else.  (An unlink that ends
\* half-way leaves the copy of a file that the drive has no more.)
CleanCopyComplete ==
  \A f \in CleanFiles : Downloads(f) = {} => store[f] \in {NoFile, remote[f]}

\* How far a session is tells what exists and who has written: this makes the
\* properties around it inductive.
SessionOK ==
  /\ \A s \in Sessions :
       /\ pc[s] = "idle" <=> file[s] = NoSession
       /\ pc[s] \in Removing <=> op[s] = "unlink"
       /\ pc[s] \in Removing => \A t \in Sessions : file[t] = file[s] => t = s
       /\ pc[s] \in {"append", "make", "meta"} => remote[file[s]] # NoFile
       /\ pc[s] = "delete" => remote[file[s]] = NoFile
       /\ pc[s] \notin {"idle", "creat", "make"} \cup Removing => store[file[s]] # NoFile
       /\ pc[s] # "append" => pos[s] = 1
       /\ pc[s] = "make" => writable[s]
       /\ pc[s] \in Uploading => changed[s]
       /\ changed[s] <=> s \in wrote
       /\ changed[s] => /\ pc[s] \in Uploading \cup {"open"}
                        /\ file[s] \in touched /\ writable[s]

\* What a clean copy still lacks, some download has yet to write: the last
\* creat() before the copy is complete is followed by a whole download.
CopyExplained(f) ==
  /\ \A s \in Downloads(f) : pc[s] = "append" => buf[s] = remote[f]
  /\ store[f] # NoFile =>
       /\ Len(store[f]) <= Len(remote[f])
       /\ \A i \in 1..Len(remote[f]) :
            \/ i <= Len(store[f]) /\ store[f][i] = remote[f][i]
            \/ \E s \in Downloads(f) : pos[s] <= i

DownloadOK == \A f \in CleanFiles : CopyExplained(f)

\* A file with writes that no upload has begun to read has an upload still to come:
\* a handle of it is marked changed and has not started its own.  (What that upload
\* will find in the copy is another matter: with two workers a download that began
\* before the write may have emptied it with creat().)
DirtyHasPublisher ==
  \A f \in dirty : \E s \in Sessions :
    file[s] = f /\ changed[s] /\ pc[s] \in {"open", "fopen"}

\* The inductive invariant.
IInv == TypeOK /\ SessionOK /\ DownloadOK /\ DirtyHasPublisher

\* With one worker a handler has the files to itself: a download finds no other
\* handle of its file and leaves in the copy what it has fetched so far, an upload
\* sends the copy as it is.
Alone(s) ==
  /\ pc[s] \notin {"append", "send", "meta"} => buf[s] = <<>>
  /\ pc[s] \in Downloading \cup {"make"} => \A t \in Sessions : file[t] = file[s] => t = s
  /\ pc[s] \in {"creat", "make"} => store[file[s]] = NoFile
  /\ pc[s] = "make" /\ file[s] \notin edited => remote[file[s]] = <<>>
  /\ pc[s] = "fetch" => store[file[s]] = <<>>
  /\ pc[s] = "append" =>
       /\ pos[s] <= Len(buf[s]) + 1 /\ store[file[s]] = SubSeq(buf[s], 1, pos[s] - 1)
       /\ file[s] \notin edited \cup aborted => buf[s] = remote[file[s]]
  /\ pc[s] = "send" =>
       Len(buf[s]) <= Len(store[file[s]]) /\ buf[s] = SubSeq(store[file[s]], 1, Len(buf[s]))

\* The copy of a file of the drive differs from it only between a write and the
\* upload of it, or while it is transferred.
Unowed      == {f \in Files \ (orphan \cup aborted \cup edited \cup dirty) : remote[f] # NoFile}
Mirrored(f) == \/ store[f] \in {NoFile, remote[f]}
               \/ \E s \in Sessions : file[s] = f /\ pc[s] \in {"fetch", "append", "send"}

SerialOK ==
  /\ \A s, t \in Sessions : Busy(s) /\ Busy(t) => s = t
  /\ \A s \in Sessions : Alone(s)
  /\ \A f \in Unowed : Mirrored(f)

\* With one worker: once no handle owes an upload, a file of the drive has exactly
\* what local readers see, unless a truncate or a crash orphaned a change, or a
\* download left the copy incomplete.
QuietMirrored ==
  \A f \in Files \ (orphan \cup aborted \cup edited) :
    remote[f] # NoFile /\ (\A s \in Sessions : file[s] = f => pc[s] = "open" /\ ~changed[s])
      => store[f] \in {NoFile, remote[f]}

\* Read-only use of a file never changes it on the drive: what replaces a content
\* there is what the session whose upload ends with this step has read from the
\* copy, and that session has itself written to the file or created it.
OnlyWritersUpload ==
  [][\A f \in Files : remote[f] # NoFile /\ remote'[f] \notin {NoFile, remote[f]}
       => \/ RemoteEdits /\ f \in edited'
          \/ \E s \in wrote : /\ file[s] = f /\ pc[s] = "send" /\ pc'[s] # "send"
                              /\ remote'[f] = buf[s]]_vars

\* What only the store has is never thrown away with the copy alone: the copy of a
\* file is deleted when the drive has deleted the file, whatever fails on the way.
CopyGoesLast == [][\A f \in Files : store[f] # NoFile /\ store'[f] = NoFile => remote[f] = NoFile]_vars

-----------------------------------------------------------------------------
(* With one worker this implements CloseToOpen: a download in progress is    *)
(* hidden behind the content it fetches, and an upload is one step.          *)

AbsView ==
  [f \in Files |->
     IF store[f] = NoFile \/ \E s \in Downloads(f) : pc[s] = "fetch" THEN remote[f]
     ELSE IF Downloads(f) # {} THEN buf[CHOOSE s \in Downloads(f) : TRUE]
     ELSE store[f]]

AbsStatus ==
  [s \in Sessions |-> CASE pc[s] \in {"fopen", "send"} -> "publishing"
                        [] pc[s] = "open" -> IF changed[s] THEN "changed" ELSE "open"
                        [] OTHER -> "closed"]

AbsOf == [s \in Sessions |-> IF AbsStatus[s] = "closed" THEN NoSession ELSE file[s]]

Abs == INSTANCE CloseToOpen WITH view <- AbsView, cloud <- remote,
                                 status <- AbsStatus, of <- AbsOf

\* Every step of the detailed model is a step of the abstract one, or none.
ImplementsCloseToOpen == Abs!Spec

-----------------------------------------------------------------------------
\* Every request that libfuse hands to a worker is answered.
HandlersReturn == \A s \in Sessions : Busy(s) ~> ~Busy(s)

\* After a write an upload of the file begins, or the process ends: no interleaving
\* of handles leaves a written file with nobody to upload it.  (DirtyHasPublisher
\* says what it does not promise about the bytes.)
DirtyPublished == \A f \in Files : f \in dirty ~> f \notin dirty
-----------------------------------------------------------------------------
(* What comments of the code say, and the code does not do. *)

\* "Read should return exactly the number of bytes requested except on EOF or
\* error" (handler.cpp:167-168): a reader of a file that nobody has changed gets as
\* many bytes as its st_size announces.
ReadServesSize ==
  \A s \in Sessions :
    pc[s] = "open" /\ file[s] \notin touched => Len(store[file[s]]) = meta[file[s]]

\* "Create and open a file" (handler.cpp:255): create() answers.
CreateAnswers == [][\A s \in Sessions : pc[s] = "make" /\ pc'[s] # "make" => alive']_vars
=============================================================================
