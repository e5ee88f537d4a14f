----------------------------- MODULE ControlFs -----------------------------
(***************************************************************************)
(* What the mount point shows: JoinedFileSystem puts the drive at "/" and  *)
(* the settings of the program at "/.control", each property a file that   *)
(* is read, written and truncated.  Requests find the file system that     *)
(* answers them by path; a rename may go from one to the other.            *)
(*                                                                         *)
(* The drive is the files of its root, and the entries that a folder of    *)
(* its own called ".control" has: NodeTree has the rest.  Requests to the  *)
(* drive succeed.  A property has the values that matter for its type:     *)
(* the default, those the type accepts and others.                         *)
(***************************************************************************)
EXTENDS Naturals, Sequences, FiniteSets

CONSTANTS
  Ids,         \* files the drive may have
  Files,       \* names that are no property's
  Props,       \* names of the properties
  Runtime,     \* properties with isRuntimeChange()
  ControlDir,  \* the property "control_dir", read once: the name of the mount
  Values,      \* values, normalised
  Default,     \* Default[p]: the default value of p
  Accepts,     \* Accepts[p]: the values that checkValidity accepts for p
  Handles,     \* open handles of properties
  NoPath, Unset, NoProp, NoNode

Names == Files \cup Props \cup {ControlDir}
Root  == <<>>
Mount == <<ControlDir>>

\* Paths that the kernel may ask for, and those that files of the drive have.
Inside == {<<ControlDir, x>> : x \in Files \cup Props}
Paths  == {Root} \cup {<<x>> : x \in Names} \cup Inside

\* What a program writes: a value with or without blanks and capitals about it.
Texts == [value : Values, plain : BOOLEAN]

ASSUME NamesAssumption ==
  /\ Files \cap Props = {} /\ ControlDir \notin Files \cup Props
  /\ NoPath \notin Paths /\ NoProp \notin Props
ASSUME PropsAssumption ==
  /\ Runtime \subseteq Props /\ Default \in [Props -> Values]
  /\ Accepts \in [Props -> SUBSET Values] /\ Unset \notin Values
ASSUME NoNodeAssumption ==
  NoNode \notin ({"mount"} \X Paths) \cup ({"prop"} \X Props) \cup ({"file"} \X Ids)

VARIABLES
  drive,    \* drive[i]: the path that file i has on the drive, or NoPath
  setting,  \* setting[p]: InMemoryProperty::_value, Unset when _lastChange is
  handle,   \* handle[h]: the property that h has open, or NoProp
  told      \* for the properties below: told[p] is what the writers of p have
            \* been told it is, by the last request that succeeded

vars == <<drive, setting, handle, told>>

-----------------------------------------------------------------------------
(* InMemoryProperty. *)

\* getValue.
Value(p) == IF setting[p] = Unset THEN Default[p] ELSE setting[p]

NormalizeValue(t) == t.value

\* What is checked is not what is stored.
SetValue_Raw(p, t) ==
  setting' = IF NormalizeValue(t) \in Accepts[p] THEN [setting EXCEPT ![p] = t] ELSE setting

\* Nothing asks the type.
SetValue_Unchecked(p, t) == setting' = [setting EXCEPT ![p] = NormalizeValue(t)]

\* A value like the default counts as no change.
SetValue_KeepsOld(p, t) ==
  LET v == NormalizeValue(t)
  IN setting' = IF v \in Accepts[p] /\ v # Default[p] THEN [setting EXCEPT ![p] = v] ELSE setting

\* setValue; EINVAL for what the type does not accept.
SetValue(p, t) ==
  LET v == NormalizeValue(t)
      changed == (setting[p] # Unset /\ v # setting[p]) \/ v # Default[p]
  IN setting' = IF v \in Accepts[p] /\ changed THEN [setting EXCEPT ![p] = v] ELSE setting

ResetToDefault(p) == setting' = [setting EXCEPT ![p] = Unset]

-----------------------------------------------------------------------------
(* JoinedFileSystem: the mounts are Root, of the drive, and Mount. *)

\* The first mount on the way down answers.
FindMountPoint_Shallow(path) == Root

\* The deepest mount on the way to path.
FindMountPoint(path) == IF path # Root /\ Head(path) = ControlDir THEN Mount ELSE Root

Rest(path) == SubSeq(path, Len(FindMountPoint(path)) + 1, Len(path))

\* getFS: nobody answers for a mount itself.
HasFs(path) == Rest(path) # <<>>

InDrive(path)   == HasFs(path) /\ FindMountPoint(path) = Root
InControl(path) == HasFs(path) /\ FindMountPoint(path) = Mount

\* The drive's files at path.
At(path) == {i \in Ids : drive[i] = path}

\* The drive's answer to get; which of two files of one path is left open.
DriveGet(path) == IF At(path) = {} THEN NoNode ELSE <<"file", CHOOSE i \in At(path) : TRUE>>

\* PropRootNode::get.
ControlGet(path) ==
  LET name == path[Len(path)] IN IF name \in Props THEN <<"prop", name>> ELSE NoNode

\* JoinedFileSystem::get answers for a mount itself.
Get(path) ==
  IF ~HasFs(path) THEN <<"mount", path>>
  ELSE IF FindMountPoint(path) = Mount THEN ControlGet(path) ELSE DriveGet(path)

\* The drive's own entry of the mount's name is listed as well.
List_Unfiltered(dir) ==
  IF dir = Mount THEN [p \in Props |-> {<<"prop", p>>}]
  ELSE [x \in {drive[i][1] : i \in {j \in Ids : drive[j] # NoPath}} \cup {ControlDir} |->
          {<<"file", i>> : i \in {j \in Ids : drive[j] = <<x>>}}
            \cup IF x = ControlDir THEN {<<"mount", Mount>>} ELSE {}]

\* JoinedNode::getDirectoryIterator and MergeIt: what a directory lists, by name;
\* the entries of the drive first, without those a mount hides.
List(dir) ==
  IF dir = Mount THEN [p \in Props |-> {<<"prop", p>>}]
  ELSE LET shown == {i \in Ids : drive[i] # NoPath /\ Len(drive[i]) = 1
                                 /\ drive[i] # Mount}
       IN [x \in {drive[i][1] : i \in shown} \cup {ControlDir} |->
             IF x = ControlDir THEN {<<"mount", Mount>>}
             ELSE {<<"file", i>> : i \in {j \in shown : drive[j] = <<x>>}}]

-----------------------------------------------------------------------------
(* AbstractFileSystem, on a drive that answers. *)

Spare   == \E i \in Ids : drive[i] = NoPath   \* bound: another file fits
FreshId == CHOOSE i \in Ids : drive[i] = NoPath

\* createNode.
DriveCreate(path) == drive' = [drive EXCEPT ![FreshId] = path]

\* removeNode.
DriveRemove(path) == drive' = [drive EXCEPT ![DriveGet(path)[2]] = NoPath]

\* renameNode: the file that was at new goes.
DriveRename(old, new) ==
  LET moved  == DriveGet(old)[2]
      target == DriveGet(new)
  IN drive' = [i \in Ids |-> IF i = moved THEN new
                             ELSE IF target # NoNode /\ i = target[2] THEN NoPath
                             ELSE drive[i]]

\* importNreplace, of a property: a new file that is empty, as the property says
\* its size is 0, and has the property's name, not the one asked for.  The file it
\* replaces is removed before; here the new file takes its place i.
ImportNReplace(i, name) == drive' = [drive EXCEPT ![i] = <<name>>]

\* replaceNode.  Its onNodeChange is for the node that importNreplace has freed:
\* the only slot, Cache::slotNodeChanged, forgets what it has under that address,
\* the replaced node already, or the new one if malloc gave it the same address;
\* lookups find the new node without the cache, too.
ReplaceNode(path, name) == ImportNReplace(DriveGet(path)[2], name)

\* insertNode.
InsertNode(name) == ImportNReplace(FreshId, name)

-----------------------------------------------------------------------------
(* The requests of the kernel. *)

\* create, of a path that does not exist: createNode of the control directory
\* answers CreateForbidden.
MakeFile(path) ==
  /\ Get(path) = NoNode /\ Spare
  /\ IF InDrive(path) THEN DriveCreate(path) ELSE UNCHANGED drive
  /\ UNCHANGED <<setting, handle, told>>

\* unlink and rmdir: RemoveForbidden in the control directory, RemoveNotFound
\* for a mount.
Unlink(path) ==
  /\ Get(path) # NoNode
  /\ IF InDrive(path) THEN DriveRemove(path) ELSE UNCHANGED drive
  /\ UNCHANGED <<setting, handle, told>>

\* removeNode comes first: the control directory then refuses to take the file.
RenameNode_RemoveFirst(old, new) ==
  IF InDrive(old) /\ InDrive(new) THEN DriveRename(old, new)
  ELSE IF InDrive(old) /\ InControl(new) THEN DriveRemove(old)
  ELSE UNCHANGED drive

\* JoinedFileSystem::renameNode: ENOENT for a mount; EPERM from the control
\* directory, which takes nothing and renames nothing.  Of a property the drive
\* imports a copy; the RemoveForbidden that removeNode then answers is ignored.
RenameNode(old, new) ==
  IF InDrive(old) /\ InDrive(new) THEN DriveRename(old, new)
  ELSE IF InControl(old) /\ InDrive(new)
  THEN IF Get(new) # NoNode THEN ReplaceNode(new, Get(old)[2]) ELSE InsertNode(Get(old)[2])
  ELSE UNCHANGED drive

Rename(old, new) ==
  /\ Get(old) # NoNode /\ old # new
  /\ old # Root /\ new # Root   \* the kernel renames no root
  /\ InControl(old) /\ InDrive(new) /\ Get(new) = NoNode => Spare
  /\ RenameNode(old, new)
  /\ UNCHANGED <<setting, handle, told>>

\* open of a property; the text that reads return is made here.
OpenProp(h, p) ==
  /\ handle[h] = NoProp
  /\ handle' = [handle EXCEPT ![h] = p]
  /\ UNCHANGED <<drive, setting, told>>

MaxSizeConfFile == 100
Sizes == {0, 1, MaxSizeConfFile, MaxSizeConfFile + 1}   \* bound: sizes asked for

\* PropNode::truncate: EACCES for a property that may not change while the program
\* runs, EFBIG for a size above the maximum, and a success that does nothing for
\* every other but 0, which open() with O_TRUNC asks for.
Truncate(p, newSize) ==
  /\ \/ /\ p \notin Runtime \/ newSize > MaxSizeConfFile
        /\ UNCHANGED <<setting, told>>
     \/ /\ p \in Runtime /\ newSize \in 1..MaxSizeConfFile
        /\ UNCHANGED <<setting, told>>
     \/ /\ p \in Runtime /\ newSize = 0
        /\ ResetToDefault(p) /\ told' = [told EXCEPT ![p] = Default[p]]
  /\ UNCHANGED <<drive, handle>>

\* write: EINVAL unless it is at the start.
Write(h, t, offset) ==
  /\ handle[h] # NoProp
  /\ IF offset = 0 THEN SetValue(handle[h], t) ELSE UNCHANGED setting
  /\ told' = IF offset = 0 /\ NormalizeValue(t) \in Accepts[handle[h]]
             THEN [told EXCEPT ![handle[h]] = NormalizeValue(t)] ELSE told
  /\ UNCHANGED <<drive, handle>>

Release(h) ==
  /\ handle[h] # NoProp
  /\ handle' = [handle EXCEPT ![h] = NoProp]
  /\ UNCHANGED <<drive, setting, told>>

\* The daemon ends and is started again: the settings are in memory only.
Restart ==
  /\ setting' = [p \in Props |-> Unset]
  /\ handle' = [h \in Handles |-> NoProp]
  /\ told' = Default
  /\ UNCHANGED drive

-----------------------------------------------------------------------------
\* No two files of the drive have one path.
DistinctPaths ==
  \A i, j \in Ids : drive[i] = drive[j] /\ drive[i] # NoPath => i = j

\* Entries below ".control" are in a folder of the drive.
Init ==
  /\ drive \in [Ids -> (Paths \ {Root}) \cup {NoPath}]
  /\ DistinctPaths
  /\ \A i \in Ids : drive[i] \in Inside => \E j \in Ids : drive[j] = Mount
  /\ setting = [p \in Props |-> Unset]
  /\ handle = [h \in Handles |-> NoProp]
  /\ told = Default

Next ==
  \/ \E old, new \in Paths : Rename(old, new)
  \/ \E path \in Paths : MakeFile(path) \/ Unlink(path)
  \/ \E h \in Handles :
       \/ \E p \in Props : OpenProp(h, p)
       \/ \E t \in Texts, offset \in 0..1 : Write(h, t, offset)
       \/ Release(h)
  \/ \E p \in Props, newSize \in Sizes : Truncate(p, newSize)
  \/ Restart

Spec == Init /\ [][Next]_vars

-----------------------------------------------------------------------------
TypeOK ==
  /\ drive \in [Ids -> (Paths \ {Root}) \cup {NoPath}]
  /\ setting \in [Props -> Values \cup {Unset}]
  /\ handle \in [Handles -> Props \cup {NoProp}]
  /\ told \in [Props -> Values]

\* readdir and getattr agree: what a path resolves to is listed under its name,
\* nothing else is, and what is listed resolves - whatever the drive itself has
\* under the name of the control directory.  Only of the names of properties the
\* drive may have several files (RenameMoves); then getattr answers one of them.
ListingResolves ==
  \A dir \in {Root, Mount} :
    \A path \in {p \in Paths : p # Root /\ SubSeq(p, 1, Len(p) - 1) = dir} :
      LET name == path[Len(path)]
      IN IF name \in DOMAIN List(dir)
         THEN /\ Get(path) \in List(dir)[name]
              /\ name \notin Props => List(dir)[name] = {Get(path)}
         ELSE Get(path) = NoNode

\* What the drive has under the name of the control directory is out of reach:
\* no request removes it, moves it or adds to it.
HiddenUntouched ==
  [][LET hidden(d) == {<<i, d[i]>> : i \in {j \in Ids : d[j] = Mount \/ d[j] \in Inside}}
     IN hidden(drive) = hidden(drive')]_vars

\* A property has its default or a value of its type, whatever has been written.
ValuesUsable == \A p \in Props : Value(p) \in Accepts[p] \cup {Default[p]}

\* A reader sees what the last write or truncation that succeeded made of the
\* property, also when a write sets the default again.
ReadersSeeWrites == \A p \in Props : Value(p) = told[p]

\* A rename, also one between the mounts that is several calls of which the last
\* is refused, loses no file but the one that it replaces: every file of the drive
\* stays where it is, or was at the old path and is at the new one.
RenameLosesNothing ==
  [][\A old, new \in Paths :
       Rename(old, new) =>
         \A i \in Ids : \/ drive'[i] = drive[i]
                        \/ drive[i] = old /\ drive'[i] = new
                        \/ drive[i] \in {new, NoPath}]_vars

\* "Rename a file" (handler.cpp:412): a rename that changes anything moves what
\* the old path showed to the new path.
RenameMoves ==
  [][\A old, new \in Paths :
       Rename(old, new) /\ drive' # drive =>
         /\ Get(new)' = Get(old)
         /\ Get(old)' = NoNode]_vars
=============================================================================
