---------------------------- MODULE CloseToOpen ----------------------------
(***************************************************************************)
(* What gd2fuse promises about the bytes of a file when libfuse runs one   *)
(* handler at a time: every local handle of a file works on one shared     *)
(* view of it, and the drive takes the whole view, at once, some time      *)
(* after a handle that changed it is closed.  There are no downloads, no   *)
(* transfers and no store here.  FileContent implements this.              *)
(***************************************************************************)
EXTENDS Naturals, Sequences

CONSTANTS Files, Sessions, Contents, NoFile, NoSession

VARIABLES
  view,    \* view[f]: what local readers get
  cloud,   \* cloud[f]: what the drive holds
  status,  \* status[s]: the handle's state
  of       \* of[s]: the handle's file

vars == <<view, cloud, status, of>>

Init ==
  /\ cloud \in [Files -> Contents \cup {NoFile}]
  /\ view = cloud
  /\ status = [s \in Sessions |-> "closed"]
  /\ of = [s \in Sessions |-> NoSession]

Handle(s, f, st) ==
  /\ status' = [status EXCEPT ![s] = st]
  /\ of' = [of EXCEPT ![s] = f]

Open(s, f) ==
  /\ status[s] = "closed" /\ view[f] # NoFile
  /\ Handle(s, f, "open")
  /\ UNCHANGED <<view, cloud>>

Create(f) ==
  /\ cloud[f] = NoFile /\ view[f] = NoFile
  /\ cloud' = [cloud EXCEPT ![f] = <<>>]
  /\ view' = [view EXCEPT ![f] = <<>>]
  /\ UNCHANGED <<status, of>>

NoHandle(f) == \A s \in Sessions : of[s] # f

\* The handle of a file just created starts empty and owes the drive an upload.
OpenNew(s, f) ==
  /\ status[s] = "closed" /\ NoHandle(f) /\ cloud[f] # NoFile
  /\ view' = [view EXCEPT ![f] = <<>>]
  /\ Handle(s, f, "changed")
  /\ UNCHANGED cloud

Write(s, c) ==
  /\ status[s] \in {"open", "changed"}
  /\ c # <<>>
  /\ view' = [view EXCEPT ![of[s]] = c]
  /\ status' = [status EXCEPT ![s] = "changed"]
  /\ UNCHANGED <<cloud, of>>

\* A truncate owes the drive nothing: it is published with the next write.
Truncate(f, c) ==
  /\ view[f] # NoFile
  /\ view' = [view EXCEPT ![f] = c]
  /\ UNCHANGED <<cloud, status, of>>

Close(s) ==
  \/ /\ status[s] = "open"
     /\ Handle(s, NoSession, "closed")
     /\ UNCHANGED <<view, cloud>>
  \/ /\ status[s] = "changed"
     /\ Handle(s, of[s], "publishing")
     /\ UNCHANGED <<view, cloud>>

\* What the drive has no more it takes no content for.
Publish(s) ==
  /\ status[s] = "publishing" /\ cloud[of[s]] # NoFile
  /\ cloud' = [cloud EXCEPT ![of[s]] = view[of[s]]]
  /\ Handle(s, NoSession, "closed")
  /\ UNCHANGED view

\* The drive deletes f.  Local readers lose it too, or keep what they have until
\* it is discarded: the removal may end before it gets that far.
Unlink(f) ==
  /\ cloud[f] # NoFile /\ NoHandle(f)
  /\ cloud' = [cloud EXCEPT ![f] = NoFile]
  /\ view' \in {view, [view EXCEPT ![f] = NoFile]}
  /\ UNCHANGED <<status, of>>

Discard(f) ==
  /\ cloud[f] = NoFile /\ NoHandle(f)
  /\ view' = [view EXCEPT ![f] = NoFile]
  /\ UNCHANGED <<cloud, status, of>>

\* Another client of the drive changes f; local readers may not get to see it.
Edit(f, c) ==
  /\ cloud[f] # NoFile
  /\ cloud' = [cloud EXCEPT ![f] = c]
  /\ view' \in {view, [view EXCEPT ![f] = c]}
  /\ UNCHANGED <<status, of>>

\* Of a file the drive has no more, a download gets nothing.
Prefixes(c) == IF c = NoFile THEN {<<>>} ELSE {SubSeq(c, 1, n) : n \in 0..Len(c)}

\* A first open that fails may leave local readers with a part of the file.
Cut(f) ==
  /\ NoHandle(f)
  /\ view' \in {[view EXCEPT ![f] = c] : c \in Prefixes(view[f])}

OpenFails(f) == Cut(f) /\ UNCHANGED <<cloud, status, of>>

\* A download may lose a chunk.
Without(c) == {[j \in 1..Len(c) - 1 |-> IF j < i THEN c[j] ELSE c[j + 1]] : i \in 1..Len(c)}

Lose(f) ==
  /\ NoHandle(f) /\ view[f] # NoFile
  /\ view' \in {[view EXCEPT ![f] = c] : c \in Without(view[f])}
  /\ UNCHANGED <<cloud, status, of>>

\* The process ends: every handle is lost, what they owe stays unpublished,
\* except for an upload the drive takes as the process dies.
Crash ==
  /\ status' = [s \in Sessions |-> "closed"]
  /\ of' = [s \in Sessions |-> NoSession]
  /\ \/ UNCHANGED <<view, cloud>>
     \/ /\ UNCHANGED cloud
        /\ \E f \in Files : Cut(f)
     \/ /\ UNCHANGED view
        /\ \E s \in Sessions : /\ status[s] = "publishing" /\ cloud[of[s]] # NoFile
                               /\ cloud' = [cloud EXCEPT ![of[s]] = view[of[s]]]

Next ==
  \/ \E s \in Sessions :
       \/ \E f \in Files : Open(s, f) \/ OpenNew(s, f)
       \/ \E c \in Contents : Write(s, c)
       \/ Close(s) \/ Publish(s)
  \/ \E f \in Files :
       \/ Create(f) \/ Unlink(f) \/ Discard(f) \/ OpenFails(f) \/ Lose(f)
       \/ \E c \in Contents : Truncate(f, c) \/ Edit(f, c)
  \/ Crash

Spec == Init /\ [][Next]_vars
=============================================================================
