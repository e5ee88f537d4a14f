-------------------------- MODULE ControlFs_proofs --------------------------
(* What ControlFs guarantees for every set of files, names, properties and  *)
(* values.                                                                  *)
EXTENDS ControlFs, SequenceTheorems, TLAPS

USE NamesAssumption, PropsAssumption, NoNodeAssumption

-----------------------------------------------------------------------------
(* Routing. *)

\* The paths that the drive answers for: those of the root but the mount.
LEMMA DrivePaths ==
  ASSUME NEW path \in Paths
  PROVE  InDrive(path) <=> path # Root /\ path # Mount /\ path \notin Inside
<1>1. CASE path = Root
  <2>1. Rest(path) = <<>>
    BY <1>1 DEF Rest, FindMountPoint, Root
  <2>. QED
    BY <1>1, <2>1 DEF InDrive, HasFs
<1>2. CASE \E x \in Names : path = <<x>>
  <2>1. PICK x \in Names : path = <<x>>
    BY <1>2
  <2>2. path # Root /\ Head(path) = x /\ Len(path) = 1
    BY <2>1 DEF Root
  <2>3. path \notin Inside
    BY <2>1 DEF Inside
  <2>4. CASE x = ControlDir
    <3>1. FindMountPoint(path) = Mount
      BY <2>2, <2>4 DEF FindMountPoint
    <3>. QED
      BY <2>1, <2>4, <3>1 DEF InDrive, Mount, Root
  <2>5. CASE x # ControlDir
    <3>1. FindMountPoint(path) = Root /\ Len(Root) = 0
      BY <2>2, <2>5 DEF FindMountPoint, Root
    <3>2. Rest(path) = SubSeq(path, 1, 1)
      BY <2>2, <3>1 DEF Rest
    <3>3. Rest(path) # <<>>
      BY <2>1, <3>2
    <3>. QED
      BY <2>1, <2>2, <2>3, <2>5, <3>1, <3>3 DEF InDrive, HasFs, Mount
  <2>. QED
    BY <2>4, <2>5
<1>3. CASE path \in Inside
  <2>1. PICK x \in Files \cup Props : path = <<ControlDir, x>>
    BY <1>3 DEF Inside
  <2>2. FindMountPoint(path) = Mount
    BY <2>1 DEF FindMountPoint, Root
  <2>. QED
    BY <1>3, <2>2 DEF InDrive, Mount, Root
<1>. QED
  BY <1>1, <1>2, <1>3 DEF Paths

\* The paths that the control directory answers for.
LEMMA ControlPaths ==
  ASSUME NEW path \in Paths
  PROVE  InControl(path) <=> path \in Inside
<1>1. CASE path = Root
  <2>1. Rest(path) = <<>> /\ path \notin Inside
    BY <1>1 DEF Rest, FindMountPoint, Root, Inside
  <2>. QED
    BY <2>1 DEF InControl, HasFs
<1>2. CASE \E x \in Names : path = <<x>>
  <2>1. PICK x \in Names : path = <<x>>
    BY <1>2
  <2>2. path # Root /\ Head(path) = x /\ Len(path) = 1 /\ path \notin Inside
    BY <2>1 DEF Root, Inside
  <2>3. CASE x = ControlDir
    <3>1. FindMountPoint(path) = Mount /\ Len(Mount) = 1
      BY <2>2, <2>3 DEF FindMountPoint, Mount
    <3>2. Rest(path) = <<>>
      BY <2>1, <2>2, <3>1 DEF Rest
    <3>. QED
      BY <2>2, <3>2 DEF InControl, HasFs
  <2>4. CASE x # ControlDir
    BY <2>2, <2>4 DEF InControl, FindMountPoint, Mount, Root
  <2>. QED
    BY <2>3, <2>4
<1>3. CASE path \in Inside
  <2>1. PICK x \in Files \cup Props : path = <<ControlDir, x>>
    BY <1>3 DEF Inside
  <2>2. FindMountPoint(path) = Mount /\ Len(Mount) = 1
    BY <2>1 DEF FindMountPoint, Root, Mount
  <2>3. Rest(path) # <<>>
    <3>1. path \in Seq(Names) /\ Len(path) = 2
      BY <2>1 DEF Names
    <3>2. Rest(path) = SubSeq(path, 2, 2)
      BY <2>2, <3>1 DEF Rest
    <3>3. Len(SubSeq(path, 2, 2)) = 1
      <4>1. \A i \in 2..2 : path[i] \in Names
        BY <3>1
      <4>. QED
        BY <4>1, SubSeqProperties
    <3>4. SUFFICES ASSUME Rest(path) = <<>> PROVE FALSE
      OBVIOUS
    <3>5. Len(Rest(path)) = 1
      BY <3>2, <3>3
    <3>. QED
      BY <3>4, <3>5
  <2>. QED
    BY <1>3, <2>2, <2>3 DEF InControl, HasFs
<1>. QED
  BY <1>1, <1>2, <1>3 DEF Paths

LEMMA RootIsNoMount == Root # Mount
BY DEF Root, Mount

LEMMA DriveAnswers ==
  ASSUME NEW path \in Paths, InDrive(path)
  PROVE  Get(path) = DriveGet(path)
BY RootIsNoMount DEF Get, InDrive

LEMMA ControlAnswers ==
  ASSUME NEW path \in Paths, InControl(path), Get(path) # NoNode
  PROVE  Get(path)[2] \in Props
BY DEF Get, InControl, ControlGet

-----------------------------------------------------------------------------
(* What the drive has, and how a request changes it. *)

DriveOK == drive \in [Ids -> (Paths \ {Root}) \cup {NoPath}]

\* No two files of the drive have one path, unless it is a property's name: a
\* property renamed into the drive brings its name along.
OnePathEach ==
  \A i, j \in Ids :
    drive[i] = drive[j] /\ drive[i] # NoPath /\ (\A p \in Props : drive[i] # <<p>>) => i = j

Hidden(x) == x = Mount \/ x \in Inside

\* What is hidden before or after a step is as it was.
KeepsHidden ==
  \A i \in Ids : drive'[i] = drive[i] \/ (~Hidden(drive[i]) /\ ~Hidden(drive'[i]))

LEMMA FileFound ==
  ASSUME NEW path \in Paths, DriveGet(path) # NoNode
  PROVE  /\ DriveGet(path)[2] \in Ids
         /\ drive[DriveGet(path)[2]] = path
         /\ DriveGet(path) = <<"file", DriveGet(path)[2]>>
<1>1. At(path) # {}
  BY DEF DriveGet
<1>2. (CHOOSE i \in At(path) : TRUE) \in At(path)
  BY <1>1
<1>. QED
  BY <1>1, <1>2 DEF DriveGet, At

LEMMA FileMissing ==
  ASSUME NEW path \in Paths, DriveGet(path) = NoNode
  PROVE  \A i \in Ids : drive[i] # path
<1>1. SUFFICES ASSUME At(path) # {} PROVE FALSE
  BY DEF At
<1>2. (CHOOSE i \in At(path) : TRUE) \in Ids
  BY <1>1 DEF At
<1>3. DriveGet(path) \in {"file"} \X Ids
  BY <1>1, <1>2 DEF DriveGet
<1>. QED
  BY <1>3

LEMMA FreshIsFree ==
  ASSUME Spare
  PROVE  FreshId \in Ids /\ drive[FreshId] = NoPath
BY DEF Spare, FreshId

LEMMA NoPathIsNotHidden == ~Hidden(NoPath)
<1>1. Mount \in Paths /\ Inside \subseteq Paths
  BY DEF Mount, Paths, Names
<1>. QED
  BY <1>1 DEF Hidden

LEMMA CreateStep ==
  ASSUME DriveOK, NEW path \in Paths, InDrive(path), DriveGet(path) = NoNode, Spare,
         DriveCreate(path)
  PROVE  DriveOK' /\ KeepsHidden /\ (OnePathEach => OnePathEach')
<1>1. path # Root /\ ~Hidden(path)
  BY DrivePaths DEF Hidden
<1>2. FreshId \in Ids /\ drive[FreshId] = NoPath
  BY FreshIsFree
<1>3. drive' = [drive EXCEPT ![FreshId] = path]
  BY DEF DriveCreate
<1>4. DriveOK'
  BY <1>1, <1>3 DEF DriveOK
<1>5. KeepsHidden
  BY <1>1, <1>2, <1>3, NoPathIsNotHidden DEF DriveOK, KeepsHidden
<1>6. ASSUME OnePathEach PROVE OnePathEach'
  BY <1>2, <1>3, <1>6, FileMissing DEF DriveOK, OnePathEach
<1>. QED
  BY <1>4, <1>5, <1>6

LEMMA RemoveStep ==
  ASSUME DriveOK, NEW path \in Paths, InDrive(path), DriveGet(path) # NoNode,
         DriveRemove(path)
  PROVE  DriveOK' /\ KeepsHidden /\ (OnePathEach => OnePathEach')
<1>. DEFINE i == DriveGet(path)[2]
<1>1. ~Hidden(path)
  BY DrivePaths DEF Hidden
<1>2. i \in Ids /\ drive[i] = path
  BY FileFound
<1>3. drive' = [drive EXCEPT ![i] = NoPath]
  BY DEF DriveRemove
<1>. HIDE DEF i
<1>4. DriveOK'
  BY <1>3 DEF DriveOK
<1>5. KeepsHidden
  BY <1>1, <1>2, <1>3, NoPathIsNotHidden DEF DriveOK, KeepsHidden
<1>6. ASSUME OnePathEach PROVE OnePathEach'
  BY <1>2, <1>3, <1>6 DEF DriveOK, OnePathEach
<1>. QED
  BY <1>4, <1>5, <1>6

\* A rename within the drive moves one file and may remove another at its new path.
LEMMA RenameStep ==
  ASSUME DriveOK, NEW old \in Paths, NEW new \in Paths, InDrive(old), InDrive(new),
         old # new, DriveGet(old) # NoNode, DriveRename(old, new)
  PROVE  /\ DriveOK' /\ KeepsHidden
         /\ OnePathEach => OnePathEach'
         /\ \A i \in Ids : \/ drive'[i] = drive[i]
                           \/ drive[i] = old /\ drive'[i] = new
                           \/ drive[i] = new
<1>. DEFINE moved == DriveGet(old)[2]
            target == DriveGet(new)
<1>1. ~Hidden(old) /\ ~Hidden(new) /\ new # Root /\ old # NoPath /\ new # NoPath
  BY DrivePaths DEF Hidden
<1>2. moved \in Ids /\ drive[moved] = old /\ DriveGet(old) = <<"file", moved>>
  BY FileFound
<1>3. target # NoNode => target[2] \in Ids /\ drive[target[2]] = new
  BY FileFound
<1>4. target = NoNode => \A i \in Ids : drive[i] # new
  BY FileMissing
<1>5. drive' = [i \in Ids |-> IF i = moved THEN new
                              ELSE IF target # NoNode /\ i = target[2] THEN NoPath
                              ELSE drive[i]]
  BY DEF DriveRename
<1>. HIDE DEF moved, target
<1>6. DriveOK'
  BY <1>1, <1>5 DEF DriveOK
<1>7. KeepsHidden
  BY <1>1, <1>2, <1>3, <1>5, NoPathIsNotHidden DEF DriveOK, KeepsHidden
<1>8. ASSUME OnePathEach PROVE OnePathEach'
  <2>1. SUFFICES ASSUME NEW i \in Ids, NEW j \in Ids, drive'[i] = drive'[j],
                        drive'[i] # NoPath, \A p \in Props : drive'[i] # <<p>>
                 PROVE  i = j
    BY DEF OnePathEach
  <2>2. CASE drive'[i] # new
    BY <1>5, <1>8, <2>1, <2>2 DEF OnePathEach
  <2>3. CASE drive'[i] = new
    <3>1. \A k \in Ids : drive'[k] = new => k = moved
      BY <1>1, <1>2, <1>3, <1>4, <1>5, <1>8, <2>1, <2>3 DEF OnePathEach
    <3>. QED
      BY <2>1, <2>3, <3>1
  <2>. QED
    BY <2>2, <2>3
<1>9. \A i \in Ids : \/ drive'[i] = drive[i]
                     \/ drive[i] = old /\ drive'[i] = new
                     \/ drive[i] = new
  BY <1>2, <1>3, <1>5
<1>. QED
  BY <1>6, <1>7, <1>8, <1>9

\* An import changes one file, which was at no path or at the one that is replaced.
LEMMA ImportStep ==
  ASSUME DriveOK, NEW i \in Ids, NEW name \in Props, ~Hidden(drive[i]),
         ImportNReplace(i, name)
  PROVE  DriveOK' /\ KeepsHidden /\ (OnePathEach => OnePathEach')
<1>2. <<name>> \in Paths \ {Root}
  BY DEF Paths, Names, Root
<1>3. ~Hidden(<<name>>)
  BY DEF Hidden, Mount, Inside
<1>4. drive' = [drive EXCEPT ![i] = <<name>>]
  BY DEF ImportNReplace
<1>5. DriveOK'
  BY <1>2, <1>4 DEF DriveOK
<1>6. KeepsHidden
  BY <1>3, <1>4 DEF DriveOK, KeepsHidden
<1>7. ASSUME OnePathEach PROVE OnePathEach'
  BY <1>4, <1>7 DEF DriveOK, OnePathEach
<1>. QED
  BY <1>5, <1>6, <1>7

\* The file that a rename of a property writes to.
LEMMA ImportTarget ==
  ASSUME DriveOK, NEW old \in Paths, NEW new \in Paths,
         InControl(old), ~InDrive(old), InDrive(new), Rename(old, new)
  PROVE  \E i \in Ids, name \in Props :
           drive[i] \in {new, NoPath} /\ ImportNReplace(i, name)
<1>1. Get(old)[2] \in Props /\ (Get(new) = NoNode => Spare)
  BY ControlAnswers DEF Rename
<1>2. CASE Get(new) = NoNode
  BY <1>1, <1>2, FreshIsFree DEF Rename, RenameNode, InsertNode
<1>3. CASE Get(new) # NoNode
  BY <1>1, <1>3, DriveAnswers, FileFound DEF Rename, RenameNode, ReplaceNode
<1>. QED
  BY <1>2, <1>3

-----------------------------------------------------------------------------
(* The requests. *)

\* What the kernel asks for changes the drive in one of four ways, or not.
LEMMA DriveStep ==
  ASSUME DriveOK, Next
  PROVE  /\ DriveOK' /\ KeepsHidden
         /\ OnePathEach => OnePathEach'
<1>1. ASSUME UNCHANGED drive
      PROVE  DriveOK' /\ KeepsHidden /\ (OnePathEach => OnePathEach')
  BY <1>1 DEF DriveOK, KeepsHidden, OnePathEach
<1>2. ASSUME NEW path \in Paths, MakeFile(path)
      PROVE  DriveOK' /\ KeepsHidden /\ (OnePathEach => OnePathEach')
  <2>1. CASE InDrive(path)
    BY <1>2, <2>1, DriveAnswers, CreateStep DEF MakeFile
  <2>2. CASE ~InDrive(path)
    BY <1>1, <1>2, <2>2 DEF MakeFile
  <2>. QED
    BY <2>1, <2>2
<1>3. ASSUME NEW path \in Paths, Unlink(path)
      PROVE  DriveOK' /\ KeepsHidden /\ (OnePathEach => OnePathEach')
  <2>1. CASE InDrive(path)
    BY <1>3, <2>1, DriveAnswers, RemoveStep DEF Unlink
  <2>2. CASE ~InDrive(path)
    BY <1>1, <1>3, <2>2 DEF Unlink
  <2>. QED
    BY <2>1, <2>2
<1>4. ASSUME NEW old \in Paths, NEW new \in Paths, Rename(old, new)
      PROVE  /\ DriveOK' /\ KeepsHidden
             /\ OnePathEach => OnePathEach'
  <2>1. CASE InDrive(old) /\ InDrive(new)
    <3>1. old # new /\ DriveGet(old) # NoNode /\ DriveRename(old, new)
      BY <1>4, <2>1, DriveAnswers DEF Rename, RenameNode
    <3>. QED
      BY <2>1, <3>1, RenameStep
  <2>2. CASE InControl(old) /\ InDrive(new) /\ ~InDrive(old)
    <3>1. PICK i \in Ids, name \in Props : drive[i] \in {new, NoPath} /\ ImportNReplace(i, name)
      BY <1>4, <2>2, ImportTarget
    <3>2. ~Hidden(drive[i])
      BY <2>2, <3>1, DrivePaths, NoPathIsNotHidden DEF Hidden
    <3>. QED
      BY <3>1, <3>2, ImportStep
  <2>3. CASE ~(InDrive(old) /\ InDrive(new)) /\ ~(InControl(old) /\ InDrive(new))
    BY <1>1, <1>4, <2>3 DEF Rename, RenameNode
  <2>. QED
    BY <2>1, <2>2, <2>3
<1>5. ASSUME NEW h \in Handles, NEW p \in Props, OpenProp(h, p)
      PROVE  UNCHANGED drive
  BY <1>5 DEF OpenProp
<1>6. ASSUME NEW h \in Handles, NEW t \in Texts, NEW offset \in 0..1, Write(h, t, offset)
      PROVE  UNCHANGED drive
  BY <1>6 DEF Write
<1>7. ASSUME NEW h \in Handles, Release(h) PROVE UNCHANGED drive
  BY <1>7 DEF Release
<1>8. ASSUME NEW p \in Props, NEW newSize \in Sizes, Truncate(p, newSize)
      PROVE  UNCHANGED drive
  BY <1>8 DEF Truncate
<1>9. ASSUME Restart PROVE UNCHANGED drive
  BY <1>9 DEF Restart
<1>. QED
  BY <1>1, <1>2, <1>3, <1>4, <1>5, <1>6, <1>7, <1>8, <1>9 DEF Next

\* A stored value is one that the type accepts.
StoredAccepted == \A p \in Props : setting[p] = Unset \/ setting[p] \in Accepts[p]

\* What the properties and their handles are, and that readers get what the
\* writers were told.
PropsOK ==
  /\ setting \in [Props -> Values \cup {Unset}]
  /\ handle \in [Handles -> Props \cup {NoProp}]
  /\ told \in [Props -> Values]
  /\ StoredAccepted
  /\ ReadersSeeWrites

LEMMA PropsInit == Init => PropsOK
BY DEF Init, PropsOK, StoredAccepted, ReadersSeeWrites, Value

LEMMA WriteStep ==
  ASSUME PropsOK, NEW h \in Handles, NEW t \in Texts, NEW offset \in 0..1,
         Write(h, t, offset)
  PROVE  PropsOK'
<1>. DEFINE p == handle[h]
            v == NormalizeValue(t)
<1>1. p \in Props /\ v \in Values /\ v # Unset /\ UNCHANGED handle
  BY DEF PropsOK, Write, NormalizeValue, Texts
<1>2. CASE offset = 0 /\ v \in Accepts[p] /\ ((setting[p] # Unset /\ v # setting[p]) \/ v # Default[p])
  <2>1. setting' = [setting EXCEPT ![p] = v] /\ told' = [told EXCEPT ![p] = v]
    BY <1>2 DEF Write, SetValue
  <2>. HIDE DEF p, v
  <2>. QED
    BY <1>1, <1>2, <2>1 DEF PropsOK, StoredAccepted, ReadersSeeWrites, Value
<1>3. CASE offset = 0 /\ v \in Accepts[p] /\ ~((setting[p] # Unset /\ v # setting[p]) \/ v # Default[p])
  <2>1. setting' = setting /\ told' = [told EXCEPT ![p] = v]
    BY <1>3 DEF Write, SetValue
  <2>. HIDE DEF p, v
  <2>2. Value(p) = v
    BY <1>3 DEF Value
  <2>. QED
    BY <1>1, <2>1, <2>2 DEF PropsOK, StoredAccepted, ReadersSeeWrites, Value
<1>4. CASE ~(offset = 0 /\ v \in Accepts[p])
  <2>1. setting' = setting /\ told' = told
    BY <1>4 DEF Write, SetValue
  <2>. QED
    BY <1>1, <2>1 DEF PropsOK, StoredAccepted, ReadersSeeWrites, Value
<1>. QED
  BY <1>2, <1>3, <1>4

LEMMA PropsStep ==
  ASSUME PropsOK, [Next]_vars
  PROVE  PropsOK'
<1>1. ASSUME UNCHANGED <<setting, handle, told>> PROVE PropsOK'
  BY <1>1 DEF PropsOK, StoredAccepted, ReadersSeeWrites, Value
<1>2. ASSUME NEW path \in Paths, MakeFile(path) PROVE PropsOK'
  BY <1>1, <1>2 DEF MakeFile
<1>3. ASSUME NEW path \in Paths, Unlink(path) PROVE PropsOK'
  BY <1>1, <1>3 DEF Unlink
<1>4. ASSUME NEW old \in Paths, NEW new \in Paths, Rename(old, new) PROVE PropsOK'
  BY <1>1, <1>4 DEF Rename
<1>5. ASSUME NEW h \in Handles, NEW p \in Props, OpenProp(h, p) PROVE PropsOK'
  BY <1>5 DEF OpenProp, PropsOK, StoredAccepted, ReadersSeeWrites, Value
<1>6. ASSUME NEW h \in Handles, NEW t \in Texts, NEW offset \in 0..1, Write(h, t, offset)
      PROVE  PropsOK'
  BY <1>6, WriteStep
<1>7. ASSUME NEW h \in Handles, Release(h) PROVE PropsOK'
  BY <1>7 DEF Release, PropsOK, StoredAccepted, ReadersSeeWrites, Value
<1>8. ASSUME NEW p \in Props, NEW newSize \in Sizes, Truncate(p, newSize)
      PROVE  PropsOK'
  <2>1. UNCHANGED handle
    BY <1>8 DEF Truncate
  <2>2. CASE UNCHANGED <<setting, told>>
    BY <1>1, <2>1, <2>2
  <2>3. CASE setting' = [setting EXCEPT ![p] = Unset] /\ told' = [told EXCEPT ![p] = Default[p]]
    BY <2>1, <2>3 DEF PropsOK, StoredAccepted, ReadersSeeWrites, Value
  <2>. QED
    BY <1>8, <2>2, <2>3 DEF Truncate, ResetToDefault
<1>9. ASSUME Restart PROVE PropsOK'
  BY <1>9 DEF Restart, PropsOK, StoredAccepted, ReadersSeeWrites, Value
<1>10. ASSUME UNCHANGED vars PROVE PropsOK'
  BY <1>1, <1>10 DEF vars
<1>. QED
  BY <1>2, <1>3, <1>4, <1>5, <1>6, <1>7, <1>8, <1>9, <1>10 DEF Next

-----------------------------------------------------------------------------
(* Theorems. *)

\* The state stays within its types: no request gives the drive a path that the
\* mount point cannot have, nor a property something that is no value.
THEOREM ControlTypeCorrect == Spec => []TypeOK
<1>1. Init => DriveOK /\ PropsOK
  BY PropsInit DEF Init, DriveOK
<1>2. DriveOK /\ PropsOK /\ [Next]_vars => (DriveOK /\ PropsOK)'
  <2>1. ASSUME DriveOK, UNCHANGED vars PROVE DriveOK'
    BY <2>1 DEF DriveOK, vars
  <2>. QED
    BY <2>1, DriveStep, PropsStep
<1>3. DriveOK /\ PropsOK => TypeOK
  BY DEF DriveOK, PropsOK, TypeOK
<1>. QED
  BY <1>1, <1>2, <1>3, PTL DEF Spec

\* A property has its default or a value of its type, whatever has been written,
\* truncated and restarted (InMemoryProperty::setValue, resetToDefault).
THEOREM PropertiesUsable == Spec => []ValuesUsable
<1>1. PropsOK => ValuesUsable
  BY DEF PropsOK, StoredAccepted, ValuesUsable, Value
<1>. QED
  BY <1>1, PropsInit, PropsStep, PTL DEF Spec

\* A reader of a property gets what the last request that succeeded made of it,
\* although setValue stores nothing for what it takes for no change.
THEOREM PropertiesReadBack == Spec => []ReadersSeeWrites
<1>1. PropsOK => ReadersSeeWrites
  BY DEF PropsOK
<1>. QED
  BY <1>1, PropsInit, PropsStep, PTL DEF Spec

\* No request reaches what the drive has under the name of the control
\* directory, not even a rename of a property into the drive
\* (JoinedFileSystem::getFS).
THEOREM HiddenEntriesUntouched == Spec => HiddenUntouched
<1>1. Init => DriveOK
  BY DEF Init, DriveOK
<1>2. DriveOK /\ [Next]_vars => DriveOK'
  <2>1. ASSUME DriveOK, UNCHANGED vars PROVE DriveOK'
    BY <2>1 DEF DriveOK, vars
  <2>. QED
    BY <2>1, DriveStep
<1>3. DriveOK /\ [Next]_vars =>
        [{<<i, drive[i]>> : i \in {j \in Ids : drive[j] = Mount \/ drive[j] \in Inside}}
           = {<<i, drive'[i]>> : i \in {j \in Ids : drive'[j] = Mount \/ drive'[j] \in Inside}}]_vars
  <2>1. SUFFICES ASSUME DriveOK, Next
                 PROVE  {<<i, drive[i]>> : i \in {j \in Ids : Hidden(drive[j])}}
                          = {<<i, drive'[i]>> : i \in {j \in Ids : Hidden(drive'[j])}}
    BY DEF Hidden
  <2>2. KeepsHidden
    BY <2>1, DriveStep
  <2>3. \A i \in Ids : Hidden(drive[i]) <=> Hidden(drive'[i])
    BY <2>2 DEF KeepsHidden
  <2>4. \A i \in Ids : Hidden(drive[i]) => drive'[i] = drive[i]
    BY <2>2 DEF KeepsHidden
  <2>. QED
    BY <2>3, <2>4
<1>. QED
  BY <1>1, <1>2, <1>3, PTL DEF Spec, HiddenUntouched

\* What one directory lists is what lookups find.
LEMMA ListsAgree ==
  ASSUME DriveOK, OnePathEach
  PROVE  ListingResolves
<1>. DEFINE shown == {i \in Ids : drive[i] # NoPath /\ Len(drive[i]) = 1 /\ drive[i] # Mount}
            names == {drive[i][1] : i \in shown} \cup {ControlDir}
<1>1. SUFFICES ASSUME NEW dir \in {Root, Mount}, NEW path \in Paths, path # Root,
                      SubSeq(path, 1, Len(path) - 1) = dir
               PROVE  LET name == path[Len(path)]
                      IN IF name \in DOMAIN List(dir)
                         THEN /\ Get(path) \in List(dir)[name]
                              /\ name \notin Props => List(dir)[name] = {Get(path)}
                         ELSE Get(path) = NoNode
  BY DEF ListingResolves
<1>2. ASSUME NEW i \in shown PROVE drive[i] = <<drive[i][1]>>
  <2>1. drive[i] \in Paths \ {Root} /\ Len(drive[i]) = 1
    BY DEF DriveOK
  <2>2. drive[i] \notin Inside
    BY <2>1 DEF Inside
  <2>. QED
    BY <2>1, <2>2 DEF Paths
<1>3. CASE \E x \in Names : path = <<x>>
  <2>1. PICK x \in Names : path = <<x>>
    BY <1>3
  <2>2. dir = Root /\ Root # Mount /\ path[Len(path)] = x
    <3>1. SubSeq(path, 1, Len(path) - 1) = <<>>
      BY <2>1
    <3>. QED
      BY <1>1, <2>1, <3>1, RootIsNoMount DEF Root
  <2>3. List(dir) = [y \in names |-> IF y = ControlDir THEN {<<"mount", Mount>>}
                                     ELSE {<<"file", i>> : i \in {j \in shown : drive[j] = <<y>>}}]
    BY <2>2 DEF List
  <2>4. CASE x = ControlDir
    <3>1. path = Mount /\ ~HasFs(path)
      <4>1. FindMountPoint(path) = path /\ path = Mount /\ Len(path) = 1
        BY <2>1, <2>4 DEF FindMountPoint, Mount, Root
      <4>. QED
        BY <2>1, <4>1 DEF HasFs, Rest
    <3>2. Get(path) = <<"mount", Mount>>
      BY <3>1 DEF Get
    <3>. QED
      BY <2>2, <2>3, <2>4, <3>2
  <2>5. CASE x # ControlDir
    <3>1. Get(path) = DriveGet(path) /\ path # Mount /\ path # NoPath
      <4>1. path # Mount /\ path \notin Inside
        BY <2>1, <2>5 DEF Mount, Inside
      <4>. QED
        BY <1>1, <4>1, DrivePaths, DriveAnswers
    <3>2. \A i \in Ids : drive[i] = path => i \in shown /\ drive[i][1] = x
      BY <2>1, <3>1
    <3>3. CASE DriveGet(path) = NoNode
      <4>1. x \notin names
        BY <1>2, <2>1, <2>5, <3>3, FileMissing
      <4>. QED
        BY <2>2, <2>3, <3>1, <3>3, <4>1
    <3>4. CASE DriveGet(path) # NoNode
      <4>. DEFINE f == DriveGet(path)[2]
      <4>1. f \in Ids /\ drive[f] = path /\ DriveGet(path) = <<"file", f>>
        BY <3>4, FileFound
      <4>. HIDE DEF f
      <4>2. f \in {j \in shown : drive[j] = <<x>>}
        BY <2>1, <3>2, <4>1
      <4>3. x \in names
        BY <3>2, <4>1
      <4>4. List(dir)[x] = {<<"file", i>> : i \in {j \in shown : drive[j] = <<x>>}}
        BY <2>3, <2>5, <4>3
      <4>5. Get(path) \in List(dir)[x]
        BY <3>1, <4>1, <4>2, <4>4
      <4>6. ASSUME x \notin Props PROVE List(dir)[x] = {Get(path)}
        <5>1. \A p \in Props : drive[f] # <<p>>
          BY <2>1, <4>1, <4>6
        <5>2. {j \in shown : drive[j] = <<x>>} = {f}
          BY <2>1, <3>1, <4>1, <4>2, <5>1 DEF OnePathEach
        <5>. QED
          BY <3>1, <4>1, <4>4, <5>2
      <4>. QED
        BY <2>2, <2>3, <4>3, <4>5, <4>6
    <3>. QED
      BY <3>3, <3>4
  <2>. QED
    BY <2>4, <2>5
<1>4. CASE path \in Inside
  <2>1. PICK x \in Files \cup Props : path = <<ControlDir, x>>
    BY <1>4 DEF Inside
  <2>2. dir = Mount /\ path[Len(path)] = x
    <3>1. SubSeq(path, 1, Len(path) - 1) # <<>>
      <4>. DEFINE above == SubSeq(path, 1, 1)
      <4>1. Len(above) = 1
        <5>1. path[1] \in Names
          BY <2>1 DEF Names
        <5>2. \A i \in 1..1 : path[i] \in Names
          BY <5>1
        <5>. QED
          BY <5>2, SubSeqProperties
      <4>2. SubSeq(path, 1, Len(path) - 1) = above
        BY <2>1
      <4>. HIDE DEF above
      <4>3. above # <<>>
        BY <4>1
      <4>. QED
        BY <4>2, <4>3
    <3>. QED
      BY <1>1, <2>1, <3>1 DEF Root
  <2>3. Get(path) = ControlGet(path)
    BY <1>4, ControlPaths DEF Get, InControl
  <2>4. List(dir) = [p \in Props |-> {<<"prop", p>>}]
    BY <2>2 DEF List
  <2>5. CASE x \in Props
    <3>1. Get(path) = <<"prop", x>>
      BY <2>2, <2>3, <2>5 DEF ControlGet
    <3>2. x \in DOMAIN List(dir) /\ List(dir)[x] = {<<"prop", x>>}
      BY <2>4, <2>5
    <3>. QED
      BY <2>2, <2>5, <3>1, <3>2
  <2>6. CASE x \notin Props
    <3>1. Get(path) = NoNode
      BY <2>2, <2>3, <2>6 DEF ControlGet
    <3>2. x \notin DOMAIN List(dir)
      BY <2>4, <2>6
    <3>. QED
      BY <2>2, <3>1, <3>2
  <2>. QED
    BY <2>5, <2>6
<1>. QED
  BY <1>1, <1>3, <1>4 DEF Paths

\* readdir and getattr agree on every name, also on those a mount hides (MergeIt,
\* JoinedFileSystem::get): of one file each but for the names of properties, of
\* which renames out of the control directory may leave several.
THEOREM ListingsResolve == Spec => []ListingResolves
<1>1. Init => DriveOK /\ OnePathEach
  BY DEF Init, DriveOK, DistinctPaths, OnePathEach
<1>2. DriveOK /\ OnePathEach /\ [Next]_vars => (DriveOK /\ OnePathEach)'
  <2>1. ASSUME DriveOK, OnePathEach, UNCHANGED vars PROVE (DriveOK /\ OnePathEach)'
    BY <2>1 DEF DriveOK, OnePathEach, vars
  <2>. QED
    BY <2>1, DriveStep
<1>3. DriveOK /\ OnePathEach => ListingResolves
  BY ListsAgree
<1>. QED
  BY <1>1, <1>2, <1>3, PTL DEF Spec

\* A rename loses no file but the one it replaces, within the drive and between the
\* mounts, although what was asked for may be refused after the drive has changed
\* (JoinedFileSystem::renameNode, AbstractFileSystem::renameNode).
THEOREM RenamesLoseNothing == Spec => RenameLosesNothing
<1>1. Init => DriveOK
  BY DEF Init, DriveOK
<1>2. DriveOK /\ [Next]_vars => DriveOK'
  <2>1. ASSUME DriveOK, UNCHANGED vars PROVE DriveOK'
    BY <2>1 DEF DriveOK, vars
  <2>. QED
    BY <2>1, DriveStep
<1>3. DriveOK /\ [Next]_vars =>
        [\A old, new \in Paths :
           Rename(old, new) =>
             \A i \in Ids : \/ drive'[i] = drive[i]
                            \/ drive[i] = old /\ drive'[i] = new
                            \/ drive[i] \in {new, NoPath}]_vars
  <2>1. SUFFICES ASSUME DriveOK, NEW old \in Paths, NEW new \in Paths, Rename(old, new),
                        NEW i \in Ids
                 PROVE  \/ drive'[i] = drive[i]
                        \/ drive[i] = old /\ drive'[i] = new
                        \/ drive[i] \in {new, NoPath}
    OBVIOUS
  <2>2. CASE InDrive(old) /\ InDrive(new)
    <3>1. old # new /\ DriveGet(old) # NoNode /\ DriveRename(old, new)
      BY <2>1, <2>2, DriveAnswers DEF Rename, RenameNode
    <3>. QED
      BY <2>1, <2>2, <3>1, RenameStep
  <2>3. CASE InControl(old) /\ InDrive(new) /\ ~InDrive(old)
    <3>1. PICK k \in Ids, name \in Props : drive[k] \in {new, NoPath} /\ ImportNReplace(k, name)
      BY <2>1, <2>3, ImportTarget
    <3>. QED
      BY <2>1, <3>1 DEF ImportNReplace, DriveOK
  <2>4. CASE ~(InDrive(old) /\ InDrive(new)) /\ ~(InControl(old) /\ InDrive(new))
    BY <2>1, <2>4 DEF Rename, RenameNode
  <2>. QED
    BY <2>2, <2>3, <2>4
<1>. QED
  BY <1>1, <1>2, <1>3, PTL DEF Spec, RenameLosesNothing
=============================================================================
