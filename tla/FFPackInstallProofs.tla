------------------------- MODULE FFPackInstallProofs -------------------------
(***************************************************************************)
(* For any packs, zips, files, processes and process ids: what a scan      *)
(* finds in place is always one whole version, and installing implements   *)
(* PackShelf, wherever the processes die.                                  *)
(***************************************************************************)
EXTENDS FFPackInstall, TLAPS

USE DEF Labels

----------------------------------------------------------------------------
(* Directories *)

\* No directory is None, and a directory with its manifest is not the empty one.
LEMMA EmptyIsDir == EmptyDir \in Dirs /\ None \notin Dirs
  BY NoneIsNoDir DEF EmptyDir, Dirs

\* Removing a file leaves a directory that is not whole, or none.
LEMMA RemovalBreaks ==
  ASSUME NEW d \in Dirs, NEW e \in Removals(d)
  PROVE  /\ e \in Dirs \union {None}
         /\ e # None => \A i \in Ids : ~Whole(e, i)
  <1>1. CASE d = EmptyDir BY <1>1 DEF Removals
  <1>2. CASE d # EmptyDir
    <2>1. PICK f \in Files : d[f] # None /\ e = [d EXCEPT ![f] = None]
      BY <1>2 DEF Removals
    <2>2. e \in Dirs /\ e[f] = None BY <2>1 DEF Dirs
    <2> QED BY <2>2 DEF Whole
  <1> QED BY <1>1, <1>2

\* The manifest of a whole directory is a zip that validated.
LEMMA WholeManifest ==
  ASSUME NEW d \in Dirs, NEW i \in Ids, Whole(d, i)
  PROVE  d[Manifest] \in {z \in Zips : Valid[z]} /\ d[Manifest] # None
  BY PackInstallAssumption DEF Whole, Dirs

\* What has been extracted whole and loads is a whole version of the pack it says.
LEMMA LoadsWhole ==
  ASSUME NEW d \in Dirs, Loads(d), NEW z, \A f \in Files : d[f] = z
  PROVE  IdOf[d[Manifest]] \in Ids /\ Whole(d, IdOf[d[Manifest]])
  <1>1. d[Manifest] = z /\ d[Manifest] \in Zips /\ Valid[z]
    BY PackInstallAssumption DEF Loads, Dirs
  <1> QED BY <1>1, PackInstallAssumption DEF Whole, Loads

----------------------------------------------------------------------------
(* The invariant *)

LEMMA InstallInit == Init => IInv
  <1> SUFFICES ASSUME Init PROVE IInv OBVIOUS
  <1>1. TypeOK BY DEF Init, TypeOK
  <1>2. CallInv BY DEF Init, CallInv, Knows
  <1>3. DestIsWhole BY DEF Init, DestIsWhole
  <1>4. CopyInv BY DEF Init, CopyInv, Clearing
  <1> QED BY <1>1, <1>2, <1>3, <1>4 DEF IInv

\* Two calls under way work in different directories.
LEMMA OthersApart ==
  ASSUME IInv, NEW n \in Processes, NEW m \in Processes, m # n, pc[n] # "idle"
  PROVE  pid[n] \in Pids /\ pid[m] # pid[n]
  BY PackInstallAssumption DEF IInv, TypeOK, CallInv, Knows

\* A step that leaves places and backups alone, and no call starts to clear one.
LEMMA ShelfUntouched ==
  ASSUME IInv, UNCHANGED <<dest, bak>>,
         \A n \in Processes, i \in Ids : Clearing(n, i)' => Clearing(n, i) \/ dest[i] # None,
         \A n \in Processes : pid'[n] = pid[n] \/ pc'[n] \in {"idle", "clear_tmp"}
  PROVE  DestIsWhole' /\ CopyInv'
  <1>1. DestIsWhole' BY DEF IInv, DestIsWhole, Whole
  <1>2. ASSUME NEW i \in Ids, dest'[i] = None, NEW n \in Processes, Clearing(n, i)'
        PROVE  \E q \in Pids :
                 /\ bak'[q][i] # None /\ Whole(bak'[q][i], i)
                 /\ \A m \in Processes : pid'[m] = q => ~Clearing(m, i)'
    <2>1. dest[i] = None /\ Clearing(n, i) BY <1>2
    <2>2. PICK q \in Pids : /\ bak[q][i] # None /\ Whole(bak[q][i], i)
                            /\ \A m \in Processes : pid[m] = q => ~Clearing(m, i)
      BY <2>1 DEF IInv, CopyInv
    <2>3. ASSUME NEW m \in Processes, pid'[m] = q PROVE ~Clearing(m, i)'
      BY <2>1, <2>2, <2>3 DEF Clearing
    <2> QED BY <2>2, <2>3
  <1>3. CopyInv' BY <1>2 DEF CopyInv
  <1> QED BY <1>1, <1>3

\* A step that works only in the directories of call n takes nothing from what
\* another call knows of its own.
LEMMA OthersKnow ==
  ASSUME IInv, NEW n \in Processes, NEW m \in Processes, m # n,
         UNCHANGED <<pc[m], pid[m], zip[m], id[m]>>,
         \A p \in Pids : p # pid[n] => UNCHANGED <<tmp[p], bak[p]>>
  PROVE  Knows(m)'
  <1>1. Knows(m) BY DEF IInv, CallInv
  <1>2. CASE pc[m] = "idle" BY <1>2 DEF Knows
  <1>3. CASE pc[m] # "idle"
    <2>1. pid[m] \in Pids /\ pid[m] # pid[n]
      BY <1>1, <1>3, PackInstallAssumption DEF Knows, IInv, TypeOK
    <2>2. tmp'[pid'[m]] = tmp[pid[m]] /\ bak'[pid'[m]] = bak[pid[m]] BY <2>1
    <2> QED BY <1>1, <2>2 DEF Knows, Tmp, Bak, Whole
  <1> QED BY <1>2, <1>3

\* The calls that work on their temporary directory, and those that end.
LEMMA TmpSteps ==
  ASSUME IInv, NEW n \in Processes,
         \/ \E z \in Zips : Begin(n, z)
         \/ Crash(n) \/ ClearTmp(n) \/ MakeTmp(n) \/ \E f \in Files : ExtractFile(n, f)
         \/ Refuse(n) \/ DropTmp(n)
  PROVE  IInv'
  <1> USE DEF Goto, Return, SetTmp, diskVars
  <1>0. TypeOK /\ Knows(n) BY DEF IInv, CallInv
  <1>1. UNCHANGED <<dest, bak>>
    BY DEF Begin, Crash, ClearTmp, MakeTmp, ExtractFile, Refuse, DropTmp
  <1>2. \A m \in Processes : m # n => UNCHANGED <<pc[m], pid[m], zip[m], id[m]>>
    BY <1>0 DEF TypeOK, Begin, Crash, ClearTmp, MakeTmp, ExtractFile, Refuse, DropTmp
  <1>3. \A p \in Pids : p # pid[n] => tmp'[p] = tmp[p]
    BY <1>0 DEF TypeOK, Begin, Crash, ClearTmp, MakeTmp, ExtractFile, Refuse, DropTmp
  <1> DEFINE Fine == /\ TypeOK' /\ Knows(n)'
                     /\ pc'[n] \notin {"clear_bak", "drop_bak"}
                     /\ pid'[n] = pid[n] \/ pc'[n] \in {"idle", "clear_tmp"}
  <1>4. Fine
    <2> USE DEF TypeOK, Knows, Tmp, Bak
    <2>1. ASSUME NEW z \in Zips, Begin(n, z) PROVE Fine
      BY <1>0, <2>1, PackInstallAssumption DEF Begin
    <2>2. CASE Crash(n) BY <1>0, <2>2, PackInstallAssumption DEF Crash
    <2>3. CASE ClearTmp(n)
      <3>1. PICK d \in Removals(tmp[pid[n]]) : tmp' = [tmp EXCEPT ![pid[n]] = d]
        BY <2>3 DEF ClearTmp
      <3>2. tmp[pid[n]] \in Dirs BY <1>0, <2>3 DEF ClearTmp
      <3>3. d \in Dirs \union {None} BY <3>1, <3>2, RemovalBreaks
      <3> QED BY <1>0, <2>3, <3>1, <3>3 DEF ClearTmp
    <2>4. CASE MakeTmp(n)
      BY <1>0, <2>4, EmptyIsDir DEF MakeTmp
    <2>5. ASSUME NEW f \in Files, ExtractFile(n, f) PROVE Fine
      <3>1. tmp[pid[n]] \in Dirs /\ zip[n] \in Zips BY <1>0, <2>5 DEF ExtractFile
      <3>2. [tmp[pid[n]] EXCEPT ![f] = zip[n]] \in Dirs BY <3>1 DEF Dirs
      <3> QED BY <1>0, <2>5, <3>1, <3>2, EmptyIsDir DEF ExtractFile
    <2>6. CASE Refuse(n) BY <1>0, <2>6 DEF Refuse
    <2>7. CASE DropTmp(n)
      <3>1. CASE Return(n) /\ UNCHANGED tmp
        BY <1>0, <1>1, <2>7, <3>1, PackInstallAssumption DEF DropTmp
      <3>2. CASE ~(Return(n) /\ UNCHANGED tmp)
        <4>1. PICK d \in Removals(tmp[pid[n]]) : tmp' = [tmp EXCEPT ![pid[n]] = d]
          BY <2>7, <3>2 DEF DropTmp
        <4>2. tmp[pid[n]] \in Dirs BY <1>0, <2>7, <3>2 DEF DropTmp
        <4>3. d \in Dirs \union {None} BY <4>1, <4>2, RemovalBreaks
        <4> QED BY <1>0, <2>7, <3>2, <4>1, <4>3 DEF DropTmp
      <3> QED BY <3>1, <3>2
    <2> HIDE DEF Fine
    <2> QED BY <2>1, <2>2, <2>3, <2>4, <2>5, <2>6, <2>7
  <1>5. CallInv'
    <2>1. \A m \in Processes : m # n => Knows(m)'
      BY <1>1, <1>2, <1>3, OthersKnow
    <2> QED BY <1>4, <2>1 DEF CallInv
  <1>6. DestIsWhole' /\ CopyInv'
    <2>1. \A m \in Processes, i \in Ids : Clearing(m, i)' => Clearing(m, i)
      BY <1>2, <1>4 DEF Clearing
    <2>2. \A m \in Processes : pid'[m] = pid[m] \/ pc'[m] \in {"idle", "clear_tmp"}
      BY <1>2, <1>4
    <2> QED BY <1>1, <2>1, <2>2, ShelfUntouched
  <1> QED BY <1>4, <1>5, <1>6 DEF IInv

\* The pack that is validated is a whole version of the pack its manifest names.
LEMMA ValidateStep == ASSUME IInv, NEW n \in Processes, Validate(n) PROVE IInv'
  <1> USE DEF Goto
  <1>0. TypeOK /\ Knows(n) BY DEF IInv, CallInv
  <1>1. Tmp(n) \in Dirs BY <1>0 DEF TypeOK, Knows, Tmp, Validate
  <1>2. id'[n] = IdOf[Tmp(n)[Manifest]] /\ id'[n] \in Ids /\ Whole(Tmp(n), id'[n])
    BY <1>0, <1>1, LoadsWhole DEF Validate, TypeOK
  <1>3. pc'[n] = IF dest[id'[n]] # None THEN "clear_bak" ELSE "put"
    BY <1>0, <1>2 DEF Validate, TypeOK
  <1>4. TypeOK' BY <1>0, <1>2 DEF Validate, TypeOK
  <1>5. CallInv'
    <2>1. Knows(n)'
      BY <1>0, <1>1, <1>2, <1>3, EmptyIsDir DEF Knows, Tmp, Bak, Validate, TypeOK, Whole
    <2>2. \A m \in Processes : m # n => Knows(m)'
      BY <1>0, OthersKnow DEF Validate, TypeOK
    <2> QED BY <2>1, <2>2 DEF CallInv
  <1>6. DestIsWhole' /\ CopyInv'
    <2>1. \A m \in Processes, i \in Ids : Clearing(m, i)' => Clearing(m, i) \/ dest[i] # None
      BY <1>0, <1>3 DEF Validate, Clearing, TypeOK
    <2> QED BY <2>1, ShelfUntouched DEF Validate
  <1> QED BY <1>4, <1>5, <1>6 DEF IInv

\* Taking a backup apart spares the whole one that CopyInv speaks of.
LEMMA BakSteps ==
  ASSUME IInv, NEW n \in Processes, ClearBak(n) \/ DropBak(n) PROVE IInv'
  <1> USE DEF Goto, SetBak
  <1>0. TypeOK /\ Knows(n) /\ pid[n] \in Pids /\ id[n] \in Ids /\ Clearing(n, id[n])
    BY DEF IInv, CallInv, Knows, Clearing, ClearBak, DropBak
  <1>1. CASE ClearBak(n) \/ (DropBak(n) /\ UNCHANGED pc)
    <2>1. UNCHANGED <<dest, tmp, pid, pc, zip, id>> BY <1>1 DEF ClearBak, DropBak
    <2>2. PICK d : /\ Bak(n) # None /\ d \in Removals(Bak(n))
                   /\ bak' = [bak EXCEPT ![pid[n]][id[n]] = d]
      BY <1>0, <1>1 DEF ClearBak, DropBak, TypeOK, Clearing
    <2>3. Bak(n) \in Dirs BY <1>0, <2>2 DEF Bak, TypeOK
    <2>4. d \in Dirs \union {None} BY <2>2, <2>3, RemovalBreaks
    <2>5. TypeOK' BY <1>0, <2>1, <2>2, <2>4 DEF TypeOK
    <2>6. \A p \in Pids : p # pid[n] => bak'[p] = bak[p] BY <1>0, <2>2 DEF TypeOK
    <2>7. CallInv'
      <3>1. \A m \in Processes : m # n => Knows(m)'
        BY <2>1, <2>6, OthersKnow
      <3>2. Knows(n)'
        BY <1>0, <1>1, <2>1 DEF Knows, Tmp, ClearBak, DropBak, Whole
      <3> QED BY <3>1, <3>2 DEF CallInv
    <2>8. DestIsWhole' BY <2>1 DEF IInv, DestIsWhole, Whole
    <2>9. CopyInv'
      <3> SUFFICES ASSUME NEW i \in Ids, dest[i] = None, NEW m \in Processes, Clearing(m, i)
                   PROVE  \E q \in Pids :
                            /\ bak'[q][i] # None /\ Whole(bak'[q][i], i)
                            /\ \A k \in Processes : pid[k] = q => ~Clearing(k, i)
        BY <2>1 DEF CopyInv, Clearing
      <3>1. PICK q \in Pids : /\ bak[q][i] # None /\ Whole(bak[q][i], i)
                              /\ \A k \in Processes : pid[k] = q => ~Clearing(k, i)
        BY DEF IInv, CopyInv
      <3>2. bak'[q][i] = bak[q][i]
        BY <1>0, <2>2, <3>1 DEF TypeOK, Clearing
      <3> QED BY <3>1, <3>2
    <2> QED BY <2>5, <2>7, <2>8, <2>9 DEF IInv
  <1>2. CASE DropBak(n) /\ Goto(n, "drop_tmp") /\ UNCHANGED bak
    <2>1. TypeOK' BY <1>0, <1>2 DEF TypeOK, DropBak
    <2>2. \A m \in Processes : m # n => Knows(m)'
      BY <1>0, <1>2, OthersKnow DEF DropBak, TypeOK
    <2>3. Knows(n)' BY <1>0, <1>2 DEF Knows, DropBak, TypeOK
    <2>4. \A m \in Processes, i \in Ids : Clearing(m, i)' => Clearing(m, i)
      BY <1>0, <1>2 DEF DropBak, Clearing, TypeOK
    <2>5. DestIsWhole' /\ CopyInv'
      BY <1>2, <2>4, ShelfUntouched DEF DropBak
    <2> QED BY <2>1, <2>2, <2>3, <2>5 DEF IInv, CallInv
  <1> QED BY <1>1, <1>2 DEF DropBak

\* A call that only returns: it was the last step of its call, and left the disk alone.
LEMMA ReturnStep ==
  ASSUME IInv, NEW n \in Processes, Return(n), UNCHANGED diskVars
  PROVE  IInv'
  <1> USE DEF Goto, Return, diskVars
  <1>0. TypeOK BY DEF IInv
  <1>1. TypeOK' BY <1>0, PackInstallAssumption DEF TypeOK
  <1>2. \A m \in Processes : m # n => Knows(m)'
    BY <1>0, OthersKnow DEF TypeOK
  <1>3. Knows(n)' BY <1>0 DEF Knows, TypeOK
  <1>4. \A m \in Processes, i \in Ids : Clearing(m, i)' => Clearing(m, i)
    BY <1>0 DEF Clearing, TypeOK
  <1>5. \A m \in Processes : pid'[m] = pid[m] \/ pc'[m] = "idle"
    BY <1>0 DEF TypeOK
  <1>6. DestIsWhole' /\ CopyInv' BY <1>4, <1>5, ShelfUntouched
  <1> QED BY <1>1, <1>2, <1>3, <1>6 DEF IInv, CallInv

\* What stands in place is moved whole into the call's own backup.
LEMMA MoveAsideStep == ASSUME IInv, NEW n \in Processes, MoveAside(n) PROVE IInv'
  <1> USE DEF Goto, SetBak, SetDest
  <1>0. TypeOK /\ Knows(n) /\ pid[n] \in Pids /\ id[n] \in Ids
    BY DEF IInv, CallInv, Knows, MoveAside
  <1>1. CASE Return(n) /\ UNCHANGED <<dest, bak>>
    BY <1>1, ReturnStep DEF MoveAside, diskVars
  <1>2. CASE ~(Return(n) /\ UNCHANGED <<dest, bak>>)
    <2>1. /\ pc[n] = "clear_bak" /\ dest[id[n]] # None /\ Bak(n) = None
          /\ bak' = [bak EXCEPT ![pid[n]][id[n]] = dest[id[n]]]
          /\ dest' = [dest EXCEPT ![id[n]] = None]
          /\ pc' = [pc EXCEPT ![n] = "move_in"]
          /\ UNCHANGED <<tmp, pid, zip, id>>
      BY <1>2 DEF MoveAside
    <2>2. Whole(dest[id[n]], id[n]) BY <1>0, <2>1 DEF IInv, DestIsWhole
    <2>3. bak'[pid[n]][id[n]] = dest[id[n]] BY <1>0, <2>1 DEF TypeOK
    <2>4. TypeOK' BY <1>0, <2>1 DEF TypeOK
    <2>5. Knows(n)'
      BY <1>0, <2>1, <2>2, <2>3 DEF Knows, Tmp, Bak, TypeOK, Whole
    <2>6. \A m \in Processes : m # n => Knows(m)'
      BY <1>0, <2>1, OthersKnow DEF TypeOK
    <2>7. DestIsWhole'
      BY <1>0, <2>1 DEF IInv, DestIsWhole, Whole, TypeOK
    <2>8. CopyInv'
      <3> SUFFICES ASSUME NEW i \in Ids, dest'[i] = None,
                          NEW m \in Processes, Clearing(m, i)'
                   PROVE  \E q \in Pids :
                            /\ bak'[q][i] # None /\ Whole(bak'[q][i], i)
                            /\ \A k \in Processes : pid'[k] = q => ~Clearing(k, i)'
        BY DEF CopyInv
      <3>1. CASE i = id[n]
        <4>1. bak'[pid[n]][i] # None /\ Whole(bak'[pid[n]][i], i)
          BY <2>1, <2>2, <2>3, <3>1
        <4>2. \A k \in Processes : pid'[k] = pid[n] => k = n
          BY <1>0, <2>1, PackInstallAssumption DEF TypeOK
        <4>3. ~Clearing(n, i)' BY <1>0, <2>1 DEF Clearing, TypeOK
        <4> QED BY <1>0, <4>1, <4>2, <4>3
      <3>2. CASE i # id[n]
        <4>1. \A k \in Processes : Clearing(k, i)' => Clearing(k, i)
          BY <1>0, <2>1 DEF Clearing, TypeOK
        <4>2. dest[i] = None BY <1>0, <2>1, <3>2 DEF TypeOK
        <4>3. PICK q \in Pids : /\ bak[q][i] # None /\ Whole(bak[q][i], i)
                                /\ \A k \in Processes : pid[k] = q => ~Clearing(k, i)
          BY <4>1, <4>2 DEF IInv, CopyInv
        <4>4. bak'[q][i] = bak[q][i] BY <1>0, <2>1, <3>2, <4>3 DEF TypeOK
        <4> QED BY <2>1, <4>1, <4>3, <4>4
      <3> QED BY <3>1, <3>2
    <2> QED BY <2>4, <2>5, <2>6, <2>7, <2>8 DEF IInv, CallInv
  <1> QED BY <1>1, <1>2

\* A whole directory of the call's own is moved into the empty place.
LEMMA PutInPlace ==
  ASSUME IInv, NEW n \in Processes, pc[n] # "idle", id[n] \in Ids,
         NEW d \in Dirs, Whole(d, id[n]),
         dest' = [dest EXCEPT ![id[n]] = d],
         \A p \in Pids : p # pid[n] => UNCHANGED <<tmp[p], bak[p]>>,
         \A i \in Ids : i # id[n] => bak'[pid[n]][i] = bak[pid[n]][i],
         \A m \in Processes : m # n => UNCHANGED <<pc[m], pid[m], zip[m], id[m]>>,
         pid'[n] = pid[n] \/ pc'[n] = "idle",
         \A i \in Ids : Clearing(n, i)' => i = id[n],
         TypeOK', Knows(n)'
  PROVE  IInv'
  <1>0. TypeOK /\ pid[n] \in Pids BY DEF IInv, CallInv, Knows
  <1>1. CallInv' BY OthersKnow DEF CallInv
  <1>2. \A i \in Ids : dest'[i] = IF i = id[n] THEN d ELSE dest[i] BY <1>0 DEF TypeOK
  <1>3. DestIsWhole' BY <1>2 DEF IInv, DestIsWhole, Whole
  <1>4. CopyInv'
    <2> SUFFICES ASSUME NEW i \in Ids, dest'[i] = None,
                        NEW m \in Processes, Clearing(m, i)'
                 PROVE  \E q \in Pids :
                          /\ bak'[q][i] # None /\ Whole(bak'[q][i], i)
                          /\ \A k \in Processes : pid'[k] = q => ~Clearing(k, i)'
      BY DEF CopyInv
    <2>1. i # id[n] /\ dest[i] = None BY <1>2, EmptyIsDir
    <2>2. \A k \in Processes : Clearing(k, i)' => k # n /\ Clearing(k, i)
      BY <2>1 DEF Clearing
    <2>3. PICK q \in Pids : /\ bak[q][i] # None /\ Whole(bak[q][i], i)
                            /\ \A k \in Processes : pid[k] = q => ~Clearing(k, i)
      BY <2>1, <2>2 DEF IInv, CopyInv
    <2>4. bak'[q][i] = bak[q][i] BY <2>1, <2>3
    <2>5. ASSUME NEW k \in Processes, pid'[k] = q PROVE ~Clearing(k, i)'
      BY <2>2, <2>3, <2>5
    <2> QED BY <2>3, <2>4, <2>5
  <1> QED BY <1>1, <1>3, <1>4 DEF IInv

LEMMA PutSteps ==
  ASSUME IInv, NEW n \in Processes, MoveIn(n) \/ Restore(n) \/ PlainRename(n) PROVE IInv'
  <1> USE DEF Goto, SetBak, SetDest, SetTmp, Return
  <1>0. /\ TypeOK /\ Knows(n) /\ pc[n] # "idle" /\ pid[n] \in Pids /\ id[n] \in Ids
        /\ Tmp(n) \in Dirs /\ Whole(Tmp(n), id[n])
    BY DEF IInv, CallInv, TypeOK, Knows, Tmp, MoveIn, Restore, PlainRename
  <1>1. CASE MoveIn(n) /\ dest' # dest
    <2>1. /\ dest' = [dest EXCEPT ![id[n]] = Tmp(n)]
          /\ tmp' = [tmp EXCEPT ![pid[n]] = EmptyDir]
          /\ pc' = [pc EXCEPT ![n] = "drop_bak"]
          /\ UNCHANGED <<bak, pid, zip, id>>
      BY <1>1 DEF MoveIn
    <2>2. TypeOK' BY <1>0, <2>1, EmptyIsDir DEF TypeOK
    <2>3. Knows(n)' BY <1>0, <2>1 DEF Knows, TypeOK
    <2>4. \A m \in Processes : m # n => UNCHANGED <<pc[m], pid[m], zip[m], id[m]>>
      BY <1>0, <2>1 DEF TypeOK
    <2>5. \A p \in Pids : p # pid[n] => UNCHANGED <<tmp[p], bak[p]>>
      BY <1>0, <2>1 DEF TypeOK
    <2>6. \A i \in Ids : Clearing(n, i)' => i = id[n]
      BY <2>1 DEF Clearing
    <2> QED BY <1>0, <2>1, <2>2, <2>3, <2>4, <2>5, <2>6, PutInPlace
  <1>2. CASE MoveIn(n) /\ dest' = dest
    <2>1. pc' = [pc EXCEPT ![n] = "restore"] /\ UNCHANGED <<dest, tmp, bak, pid, zip, id>>
      <3>1. dest[id[n]] = None => [dest EXCEPT ![id[n]] = Tmp(n)] # dest
        BY <1>0, EmptyIsDir DEF TypeOK
      <3> QED BY <1>2, <3>1 DEF MoveIn
    <2>2. TypeOK' BY <1>0, <2>1 DEF TypeOK
    <2>3. Knows(n)' BY <1>0, <1>2, <2>1 DEF Knows, TypeOK, MoveIn, Tmp, Bak, Whole
    <2>4. \A m \in Processes : m # n => Knows(m)'
      BY <1>0, <2>1, OthersKnow DEF TypeOK
    <2>5. \A m \in Processes, i \in Ids : Clearing(m, i)' => Clearing(m, i)
      BY <1>0, <2>1 DEF Clearing, TypeOK
    <2>6. DestIsWhole' /\ CopyInv' BY <2>1, <2>5, ShelfUntouched
    <2> QED BY <2>2, <2>3, <2>4, <2>6 DEF IInv, CallInv
  <1>3. CASE (Restore(n) \/ PlainRename(n)) /\ UNCHANGED <<dest, tmp, bak>>
    <2>1. dest[id[n]] = None => [dest EXCEPT ![id[n]] = Tmp(n)] # dest
      BY <1>0, EmptyIsDir DEF TypeOK
    <2>2. Return(n)
      BY <1>3, <2>1 DEF Restore, PlainRename
    <2> QED BY <1>3, <2>2, ReturnStep DEF diskVars
  <1>4. CASE Restore(n) /\ ~UNCHANGED <<dest, tmp, bak>>
    <2>1. /\ dest' = [dest EXCEPT ![id[n]] = Bak(n)]
          /\ bak' = [bak EXCEPT ![pid[n]][id[n]] = None]
          /\ Return(n) /\ tmp' = tmp
      BY <1>4 DEF Restore
    <2>2. Bak(n) \in Dirs /\ Whole(Bak(n), id[n])
      BY <1>0, <1>4 DEF Knows, TypeOK, Bak, Restore
    <2>3. TypeOK' BY <1>0, <2>1, <2>2, PackInstallAssumption DEF TypeOK
    <2>4. Knows(n)' /\ pc'[n] = "idle" BY <1>0, <2>1 DEF Knows, TypeOK
    <2>5. \A m \in Processes : m # n => UNCHANGED <<pc[m], pid[m], zip[m], id[m]>>
      BY <1>0, <2>1 DEF TypeOK
    <2>6. /\ \A p \in Pids : p # pid[n] => UNCHANGED <<tmp[p], bak[p]>>
          /\ \A i \in Ids : i # id[n] => bak'[pid[n]][i] = bak[pid[n]][i]
      BY <1>0, <2>1 DEF TypeOK
    <2>7. \A i \in Ids : ~Clearing(n, i)' BY <2>4 DEF Clearing
    <2> QED BY <1>0, <2>1, <2>2, <2>3, <2>4, <2>5, <2>6, <2>7, PutInPlace
  <1>5. CASE PlainRename(n) /\ ~UNCHANGED <<dest, tmp, bak>>
    <2>1. /\ dest' = [dest EXCEPT ![id[n]] = Tmp(n)]
          /\ tmp' = [tmp EXCEPT ![pid[n]] = EmptyDir]
          /\ pc' = [pc EXCEPT ![n] = "drop_tmp"]
          /\ UNCHANGED <<bak, pid, zip, id>>
      BY <1>5 DEF PlainRename
    <2>2. TypeOK' BY <1>0, <2>1, EmptyIsDir DEF TypeOK
    <2>3. Knows(n)' BY <1>0, <2>1 DEF Knows, TypeOK
    <2>4. \A m \in Processes : m # n => UNCHANGED <<pc[m], pid[m], zip[m], id[m]>>
      BY <1>0, <2>1 DEF TypeOK
    <2>5. \A p \in Pids : p # pid[n] => UNCHANGED <<tmp[p], bak[p]>>
      BY <1>0, <2>1 DEF TypeOK
    <2>6. \A i \in Ids : ~Clearing(n, i)' BY <1>0, <2>1 DEF Clearing, TypeOK
    <2> QED BY <1>0, <2>1, <2>2, <2>3, <2>4, <2>5, <2>6, PutInPlace
  <1> QED BY <1>1, <1>2, <1>3, <1>4, <1>5

LEMMA InstallStep == IInv /\ [Next]_vars => IInv'
  <1> SUFFICES ASSUME IInv, [Next]_vars PROVE IInv' OBVIOUS
  <1>1. CASE UNCHANGED vars
    BY <1>1 DEF vars, IInv, TypeOK, CallInv, Knows, Tmp, Bak, DestIsWhole, Whole, CopyInv, Clearing
  <1>2. ASSUME NEW n \in Processes, Install(n) \/ Crash(n) PROVE IInv'
    BY <1>2, TmpSteps, ValidateStep, BakSteps, MoveAsideStep, PutSteps DEF Install
  <1> QED BY <1>1, <1>2 DEF Next

\* The invariant, for any packs, zips, files, processes and process ids.
THEOREM InstallInvariant == Spec => []IInv
  <1> QED BY InstallInit, InstallStep, PTL DEF Spec

\* The types, and one holder at most of each process id.
THEOREM InstallTypeOK == Spec => []TypeOK
  <1>1. IInv => TypeOK BY DEF IInv
  <1> QED BY <1>1, InstallInvariant, PTL

\* Under a pack's id a scan finds one whole version of that pack or nothing,
\* wherever which processes died (ff_packs_install_zip, scan_dir).
THEOREM InstallDestIsWhole == Spec => []DestIsWhole
  <1>1. IInv => DestIsWhole BY DEF IInv
  <1> QED BY <1>1, InstallInvariant, PTL

----------------------------------------------------------------------------
(* Installing implements PackShelf *)

\* Is there a whole copy of pack i in this backup, in directory d?
Copy(p, i) == bak[p][i] # None /\ Whole(bak[p][i], i)

LEMMA InAsides ==
  ASSUME NEW i \in Ids
  PROVE  /\ \A x : x \in Asides(i) <=> \E q \in Pids : Copy(q, i) /\ x = bak[q][i][Manifest]
         /\ \A x : x \in Asides(i)' <=> \E q \in Pids : Copy(q, i)' /\ x = bak'[q][i][Manifest]
  BY DEF Asides, Copy

\* When backup p of pack i is the only one that changes, and is whole no longer,
\* the copies set aside are the same or one fewer.
LEMMA AsidesLess ==
  ASSUME NEW i \in Ids, NEW p \in Pids,
         \A q \in Pids : q # p => bak'[q][i] = bak[q][i], ~Copy(p, i)'
  PROVE  \/ Asides(i)' = Asides(i)
         \/ Copy(p, i) /\ Asides(i)' = Asides(i) \ {bak[p][i][Manifest]}
  <1>1. \A q \in Pids : q # p => (Copy(q, i)' <=> Copy(q, i)) BY DEF Copy, Whole
  <1>2. \A x : x \in Asides(i)' <=> \E q \in Pids \ {p} : Copy(q, i) /\ x = bak[q][i][Manifest]
    BY <1>1, InAsides
  <1>3. CASE ~Copy(p, i)
    <2>1. \A x : x \in Asides(i)' <=> x \in Asides(i) BY <1>2, <1>3, InAsides
    <2> QED BY <2>1 DEF Asides
  <1>4. CASE Copy(p, i)
    <2> DEFINE v == bak[p][i][Manifest]
    <2>1. \A x : x \in Asides(i) <=> x \in Asides(i)' \/ x = v BY <1>2, <1>4, InAsides
    <2> HIDE DEF v
    <2>2. Asides(i) = Asides(i)' \union {v} BY <2>1 DEF Asides
    <2>3. CASE v \in Asides(i)' BY <2>2, <2>3
    <2>4. CASE v \notin Asides(i)'
      <3>1. Asides(i)' = Asides(i) \ {v} BY <2>2, <2>4
      <3> QED BY <1>4, <3>1 DEF v
    <2> QED BY <2>3, <2>4
  <1> QED BY <1>3, <1>4

\* The place and the copies of one pack are all that a step changes.
LEMMA OnePack ==
  ASSUME NEW i \in Ids,
         \A j \in Ids : j # i => dest'[j] = dest[j] /\ \A p \in Pids : bak'[p][j] = bak[p][j]
  PROVE  /\ [j \in Ids |-> Place(j)]' = [[j \in Ids |-> Place(j)] EXCEPT ![i] = Place(i)']
         /\ [j \in Ids |-> Asides(j)]' = [[j \in Ids |-> Asides(j)] EXCEPT ![i] = Asides(i)']
  <1>1. \A j \in Ids : j # i => Place(j)' = Place(j) BY DEF Place
  <1>2. ASSUME NEW j \in Ids, j # i PROVE Asides(j)' = Asides(j)
    <2>1. \A q \in Pids : (Copy(q, j)' <=> Copy(q, j)) /\ bak'[q][j] = bak[q][j]
      BY <1>2 DEF Copy, Whole
    <2>2. \A x : x \in Asides(j)' <=> x \in Asides(j) BY <2>1, InAsides
    <2> QED BY <2>2 DEF Asides
  <1> QED BY <1>1, <1>2

LEMMA ShelfInit == Init => Shelf!Init
  <1> SUFFICES ASSUME Init PROVE Shelf!Init OBVIOUS
  <1>1. \A i \in Ids : Place(i) = None BY DEF Init, Place
  <1>2. \A i \in Ids : Asides(i) = {} BY DEF Init, Asides
  <1> QED BY <1>1, <1>2 DEF Shelf!Init

\* Nothing but the temporary directories and the calls changes: a stutter.
LEMMA SameShelf ==
  ASSUME UNCHANGED <<dest, bak>> PROVE UNCHANGED Shelf!vars
  BY DEF Shelf!vars, Place, Asides, Whole

LEMMA PutOnShelf ==
  ASSUME IInv, NEW i \in Ids, NEW p \in Pids, NEW d \in Dirs, Whole(d, i),
         dest[i] = None, dest' = [dest EXCEPT ![i] = d],
         \/ UNCHANGED bak
         \/ bak' = [bak EXCEPT ![p][i] = None] /\ bak[p][i] = d
  PROVE  Shelf!Next
  <1> DEFINE v == d[Manifest]
  <1>0. TypeOK /\ v \in {z \in Zips : Valid[z]} /\ v # None
    BY WholeManifest DEF IInv
  <1>1. Place(i) = None /\ Place(i)' = v BY <1>0, EmptyIsDir DEF Place, TypeOK
  <1>2. Asides(i)' = Asides(i) \/ Asides(i)' = Asides(i) \ {v}
    <2>1. CASE UNCHANGED bak BY <2>1 DEF Asides, Whole
    <2>2. CASE bak' = [bak EXCEPT ![p][i] = None] /\ bak[p][i] = d
      <3>1. ~Copy(p, i)' /\ \A q \in Pids : q # p => bak'[q][i] = bak[q][i]
        BY <1>0, <2>2 DEF Copy, TypeOK
      <3> QED BY <2>2, <3>1, AsidesLess
    <2> QED BY <2>1, <2>2
  <1>3. \A j \in Ids : j # i => dest'[j] = dest[j] /\ \A q \in Pids : bak'[q][j] = bak[q][j]
    BY <1>0 DEF TypeOK
  <1> HIDE DEF v
  <1>4. Shelf!Put(i, v)
    <2> DEFINE sh == [j \in Ids |-> Place(j)]
               as == [j \in Ids |-> Asides(j)]
    <2>1. sh[i] = None /\ as[i] = Asides(i) BY <1>1
    <2>2. sh' = [sh EXCEPT ![i] = v] BY <1>1, <1>3, OnePack
    <2>3. as' = [as EXCEPT ![i] = Asides(i)'] BY <1>3, OnePack
    <2>4. as' = as \/ as' = [as EXCEPT ![i] = @ \ {v}] BY <1>2, <2>1, <2>3
    <2> HIDE DEF sh, as
    <2>5. sh[i] = None /\ sh' = [sh EXCEPT ![i] = v] /\ (as' = as \/ as' = [as EXCEPT ![i] = @ \ {v}])
      BY <2>1, <2>2, <2>4
    <2> QED BY <2>5 DEF Shelf!Put, sh, as
  <1> QED BY <1>0, <1>4 DEF Shelf!Next

LEMMA SetAsideOnShelf ==
  ASSUME IInv, NEW i \in Ids, NEW p \in Pids,
         dest[i] # None, dest' = [dest EXCEPT ![i] = None],
         bak[p][i] = None, bak' = [bak EXCEPT ![p][i] = dest[i]]
  PROVE  Shelf!Next
  <1>0. TypeOK /\ dest[i] \in Dirs /\ Whole(dest[i], i) BY DEF IInv, TypeOK, DestIsWhole
  <1>1. Place(i) = dest[i][Manifest] /\ Place(i) # None /\ Place(i)' = None
    BY <1>0, WholeManifest DEF Place, TypeOK
  <1>2. Asides(i)' = Asides(i) \union {Place(i)}
    <2>1. bak'[p][i] = dest[i] /\ \A q \in Pids : q # p => bak'[q][i] = bak[q][i]
      BY <1>0 DEF TypeOK
    <2>2. ~Copy(p, i) /\ Copy(p, i)' BY <1>0, <2>1 DEF Copy, Whole
    <2>3. \A q \in Pids : q # p => (Copy(q, i)' <=> Copy(q, i)) BY <2>1 DEF Copy, Whole
    <2>4. \A x : x \in Asides(i)' <=> x \in Asides(i) \/ x = Place(i)
      BY <1>1, <2>1, <2>2, <2>3, InAsides
    <2> QED BY <2>4 DEF Asides
  <1>3. \A j \in Ids : j # i => dest'[j] = dest[j] /\ \A q \in Pids : bak'[q][j] = bak[q][j]
    BY <1>0 DEF TypeOK
  <1>4. Shelf!SetAside(i)
    <2> DEFINE sh == [j \in Ids |-> Place(j)]
               as == [j \in Ids |-> Asides(j)]
    <2>1. sh[i] = Place(i) /\ as[i] = Asides(i) OBVIOUS
    <2>2. sh' = [sh EXCEPT ![i] = None] BY <1>1, <1>3, OnePack
    <2>3. as' = [as EXCEPT ![i] = Asides(i)'] BY <1>3, OnePack
    <2> HIDE DEF sh, as
    <2>4. sh[i] # None /\ sh' = [sh EXCEPT ![i] = None] /\ as' = [as EXCEPT ![i] = @ \union {sh[i]}]
      BY <1>1, <1>2, <2>1, <2>2, <2>3
    <2> QED BY <2>4 DEF Shelf!SetAside, sh, as
  <1> QED BY <1>4 DEF Shelf!Next

\* One file less in a backup: if it was a whole copy, it was not the last of its pack.
LEMMA ThrowAwayOnShelf ==
  ASSUME IInv, NEW n \in Processes, NEW i \in Ids, NEW p \in Pids,
         Clearing(n, i), p = pid[n], bak[p][i] # None, UNCHANGED dest,
         NEW d \in Removals(bak[p][i]), bak' = [bak EXCEPT ![p][i] = d]
  PROVE  Shelf!Next \/ UNCHANGED Shelf!vars
  <1>0. TypeOK /\ bak[p][i] \in Dirs BY DEF IInv, TypeOK
  <1>1. bak'[p][i] = d /\ \A q \in Pids : q # p => bak'[q][i] = bak[q][i]
    BY <1>0 DEF TypeOK
  <1>2. ~Copy(p, i)' BY <1>0, <1>1, RemovalBreaks DEF Copy, Whole
  <1>3. \A j \in Ids : j # i => dest'[j] = dest[j] /\ \A q \in Pids : bak'[q][j] = bak[q][j]
    BY <1>0 DEF TypeOK
  <1> DEFINE sh == [j \in Ids |-> Place(j)]
             as == [j \in Ids |-> Asides(j)]
  <1>4. sh' = sh BY DEF Place
  <1>5. as' = [as EXCEPT ![i] = Asides(i)'] BY <1>0, <1>3, OnePack
  <1>6. sh[i] = Place(i) /\ as[i] = Asides(i) BY <1>0
  <1>7. CASE Asides(i)' = Asides(i)
    <2>1. as' = as BY <1>5, <1>6, <1>7
    <2> QED BY <1>4, <2>1 DEF Shelf!vars
  <1>8. CASE Asides(i)' # Asides(i)
    <2> DEFINE v == bak[p][i][Manifest]
    <2>1. Copy(p, i) /\ Asides(i)' = Asides(i) \ {v}
      BY <1>0, <1>1, <1>2, <1>8, AsidesLess
    <2>2. v \in {z \in Zips : Valid[z]} BY <1>0, <2>1, WholeManifest DEF Copy
    <2>3. sh[i] # None \/ as[i] \ {v} # {}
      <3>1. CASE dest[i] # None
        <4>1. Place(i) # None
          BY <1>0, <3>1, WholeManifest DEF Place, IInv, DestIsWhole, TypeOK
        <4> QED BY <1>6, <4>1
      <3>2. CASE dest[i] = None
        <4>1. PICK q \in Pids : /\ bak[q][i] # None /\ Whole(bak[q][i], i)
                                /\ \A k \in Processes : pid[k] = q => ~Clearing(k, i)
          BY <1>0, <3>2 DEF IInv, CopyInv
        <4>2. q # p /\ Copy(q, i) /\ Copy(q, i)' BY <1>1, <4>1 DEF Copy, Whole
        <4>3. bak'[q][i][Manifest] \in Asides(i)' BY <1>0, <4>2, InAsides
        <4> QED BY <1>6, <2>1, <4>3
      <3> QED BY <3>1, <3>2
    <2>4. as' = [as EXCEPT ![i] = @ \ {v}] BY <1>0, <1>5, <2>1
    <2> HIDE DEF sh, as, v
    <2>5. Shelf!ThrowAway(i, v) BY <1>4, <2>3, <2>4 DEF Shelf!ThrowAway, sh, as
    <2> QED BY <1>0, <2>2, <2>5 DEF Shelf!Next
  <1> QED BY <1>7, <1>8

\* Every step of every process, a crash included, is a step of the shelf or none.
LEMMA ShelfStep == IInv /\ [Next]_vars => [Shelf!Next]_Shelf!vars
  <1> SUFFICES ASSUME IInv, [Next]_vars PROVE Shelf!Next \/ UNCHANGED Shelf!vars
    OBVIOUS
  <1> USE DEF Goto, SetBak, SetDest, SetTmp
  <1>1. CASE UNCHANGED vars BY <1>1, SameShelf DEF vars
  <1>2. ASSUME NEW n \in Processes, Install(n) \/ Crash(n)
        PROVE  Shelf!Next \/ UNCHANGED Shelf!vars
    <2>0. TypeOK /\ Knows(n) BY DEF IInv, CallInv
    <2>1. CASE UNCHANGED <<dest, bak>> BY <2>1, SameShelf
    <2>2. CASE ClearBak(n) \/ DropBak(n)
      <3>1. CASE UNCHANGED bak
        BY <2>2, <3>1, SameShelf DEF ClearBak, DropBak
      <3>2. CASE ~UNCHANGED bak
        <4>1. PICK d \in Removals(Bak(n)) : bak' = [bak EXCEPT ![pid[n]][id[n]] = d]
          BY <2>2, <3>2 DEF ClearBak, DropBak
        <4>2. Bak(n) # None /\ UNCHANGED dest /\ Clearing(n, id[n])
          BY <2>2, <3>2 DEF ClearBak, DropBak, Clearing
        <4>3. pid[n] \in Pids /\ id[n] \in Ids
          BY <2>0, <2>2 DEF ClearBak, DropBak, Knows
        <4> QED BY <4>1, <4>2, <4>3, ThrowAwayOnShelf DEF Bak
      <3> QED BY <3>1, <3>2
    <2>3. CASE MoveAside(n) /\ ~UNCHANGED <<dest, bak>>
      <3>1. pid[n] \in Pids /\ id[n] \in Ids BY <2>0, <2>3 DEF MoveAside, Knows
      <3> QED BY <2>3, <3>1, SetAsideOnShelf DEF MoveAside, Bak
    <2>4. CASE (MoveIn(n) \/ PlainRename(n)) /\ ~UNCHANGED <<dest, bak>>
      <3>1. /\ pid[n] \in Pids /\ id[n] \in Ids /\ Tmp(n) \in Dirs
            /\ Whole(Tmp(n), id[n])
        BY <2>0, <2>4 DEF MoveIn, PlainRename, Knows, TypeOK, Tmp
      <3>2. dest[id[n]] = None /\ dest' = [dest EXCEPT ![id[n]] = Tmp(n)] /\ UNCHANGED bak
        BY <2>4 DEF MoveIn, PlainRename
      <3> QED BY <3>1, <3>2, PutOnShelf
    <2>5. CASE Restore(n) /\ ~UNCHANGED <<dest, bak>>
      <3>1. /\ pid[n] \in Pids /\ id[n] \in Ids /\ Bak(n) \in Dirs
            /\ Whole(Bak(n), id[n])
        BY <2>0, <2>5 DEF Restore, Knows, TypeOK, Bak
      <3>2. /\ dest[id[n]] = None /\ dest' = [dest EXCEPT ![id[n]] = Bak(n)]
            /\ bak' = [bak EXCEPT ![pid[n]][id[n]] = None] /\ bak[pid[n]][id[n]] = Bak(n)
        BY <2>5 DEF Restore, Bak
      <3> QED BY <3>1, <3>2, PutOnShelf
    <2>6. UNCHANGED <<dest, bak>> \/ ClearBak(n) \/ DropBak(n) \/ MoveAside(n) \/ MoveIn(n)
          \/ PlainRename(n) \/ Restore(n)
      BY <1>2 DEF Install, Crash, Begin, ClearTmp, MakeTmp, ExtractFile, Refuse, Validate,
         DropTmp, diskVars
    <2> QED BY <2>1, <2>2, <2>3, <2>4, <2>5, <2>6
  <1> QED BY <1>1, <1>2 DEF Next

\* Installing implements the shelf: versions come and go whole, and no step of
\* any process destroys the last copy of a pack that was installed.
THEOREM InstallIsShelf == Spec => IsShelf
  <1> QED BY ShelfInit, ShelfStep, InstallInvariant, PTL DEF Spec, IsShelf, Shelf!Spec
=============================================================================
