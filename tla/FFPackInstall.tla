---------------------------- MODULE FFPackInstall ----------------------------
(***************************************************************************)
(* Installing packs from zips into the one packs directory that every      *)
(* Foxfire plugin and every OBS process shares (ff-pack.c), with processes *)
(* that die at any step and process ids that are used again.               *)
(*                                                                         *)
(* A directory is a function from the files of a pack to the zip they came *)
(* out of.  Extraction writes and ff_remove_recursive removes one file at  *)
(* a time; a rename moves a whole directory at once, and fails when        *)
(* something is in the way (or for reasons of its own).                    *)
(***************************************************************************)
EXTENDS Naturals, Sequences, FiniteSets

CONSTANTS
  Processes,  \* the OBS processes that install
  Pids,       \* the process ids the system hands out
  Zips,       \* the zips a viewer picks
  Files,      \* the files of a pack: Manifest and those it names
  Manifest,   \* pack.json
  Ids,        \* the ids of the packs
  IdOf,       \* the id in the manifest of each zip
  Listing,    \* of each zip: its entries, a sequence of [top, climbs, link]
  Valid,      \* whether its manifest passes ff_pack_load_dir's checks
  None        \* no zip, no directory, no process id

ASSUME PackInstallAssumption ==
  /\ Manifest \in Files
  /\ IdOf \in [Zips -> Ids] /\ Valid \in [Zips -> BOOLEAN]
  /\ None \notin Zips /\ None \notin Pids

Dirs == [Files -> Zips \union {None}]
EmptyDir == [f \in Files |-> None]

VARIABLES
  dest,  \* packs/<id>
  bak,   \* packs/.bak-<id>-<pid>
  tmp,   \* packs/.tmp-<pid>, the one folder in it
  pid,   \* of each process
  pc,    \* where its ff_packs_install_zip is
  zip,   \* and what it was called with
  id     \* the id it read from the extracted manifest

diskVars == <<dest, bak, tmp>>
vars == <<dest, bak, tmp, pid, pc, zip, id>>

ASSUME NoneIsNoDir == None \notin Dirs

Init ==
  /\ dest = [i \in Ids |-> None]
  /\ bak = [p \in Pids |-> [i \in Ids |-> None]]
  /\ tmp = [p \in Pids |-> None]
  /\ pid = [n \in Processes |-> None]
  /\ pc = [n \in Processes |-> "idle"]
  /\ zip = [n \in Processes |-> None]
  /\ id = [n \in Processes |-> None]

Goto(n, label) == pc' = [pc EXCEPT ![n] = label]

(***************************************************************************)
(* The files.                                                              *)
(***************************************************************************)
\* The names of the directories one install works in.
Tmp(n) == tmp[pid[n]]
Bak(n) == bak[pid[n]][id[n]]
SetTmp(n, d) == tmp' = [tmp EXCEPT ![pid[n]] = d]
SetBak(n, d) == bak' = [bak EXCEPT ![pid[n]][id[n]] = d]
SetDest(n, d) == dest' = [dest EXCEPT ![id[n]] = d]

\* What one step of ff_remove_recursive may make of a directory: a file less,
\* or the empty directory gone.
Removals(d) ==
  IF d = EmptyDir THEN {None}
  ELSE {[d EXCEPT ![f] = None] : f \in {g \in Files : d[g] # None}}

\* Mutant: whatever was extracted is as good as a pack.
LoadsUnread(d) == d # None /\ d[Manifest] # None

\* ff_pack_load_dir: the manifest is there and acceptable, and so is what it names.
Loads(d) ==
  /\ d # None
  /\ d[Manifest] # None /\ Valid[d[Manifest]]
  /\ \A f \in Files : d[f] # None

(***************************************************************************)
(* ff_packs_install_zip.  Between two calls a process does nothing here,   *)
(* and may as well have quit: each call has a process id that no other     *)
(* call under way has, perhaps that of a process that died.  Within one    *)
(* process only the UI thread installs.                                    *)
(***************************************************************************)
\* check_zip_entries and listing_has_symlink: one top folder, named like an id,
\* and nothing that leaves it.
EntriesOK(entries) ==
  /\ entries # <<>> /\ entries[1].top # None
  /\ \A i \in 1..Len(entries) :
       entries[i].top = entries[1].top /\ ~entries[i].climbs /\ ~entries[i].link

\* The listing is checked before the packs directory is touched.
Begin(n, z) ==
  /\ pc[n] = "idle"
  /\ EntriesOK(Listing[z])
  /\ \E p \in Pids \ {pid[m] : m \in Processes} : pid' = [pid EXCEPT ![n] = p]
  /\ zip' = [zip EXCEPT ![n] = z]
  /\ Goto(n, "clear_tmp")
  /\ UNCHANGED <<dest, bak, tmp, id>>

\* The call returns: nothing of it is remembered but what is on disk.
Return(n) ==
  /\ Goto(n, "idle")
  /\ pid' = [pid EXCEPT ![n] = None]
  /\ zip' = [zip EXCEPT ![n] = None]
  /\ id' = [id EXCEPT ![n] = None]

\* OBS dies in the call; what it was doing stays on disk as it is.
Crash(n) ==
  /\ pc[n] # "idle"
  /\ Return(n)
  /\ UNCHANGED diskVars

\* ff_remove_recursive in a loop of its own; a failure is only logged.
ClearTmp(n) ==
  /\ pc[n] = "clear_tmp" /\ Tmp(n) # None
  /\ \E d \in Removals(Tmp(n)) : SetTmp(n, d)
  /\ UNCHANGED <<dest, bak, pid, pc, zip, id>>

MakeTmp(n) ==
  /\ pc[n] = "clear_tmp"
  /\ SetTmp(n, IF Tmp(n) = None THEN EmptyDir ELSE Tmp(n))
  /\ Goto(n, "extract")
  /\ UNCHANGED <<dest, bak, pid, zip, id>>

ExtractFile(n, f) ==
  /\ pc[n] = "extract" /\ Tmp(n)[f] # zip[n]
  /\ SetTmp(n, [Tmp(n) EXCEPT ![f] = zip[n]])
  /\ UNCHANGED <<dest, bak, pid, pc, zip, id>>

\* The extraction has failed, or everything is out and the pack does not load.
Refuse(n) ==
  /\ pc[n] = "extract"
  /\ (\A f \in Files : Tmp(n)[f] = zip[n]) => ~Loads(Tmp(n))
  /\ Goto(n, "drop_tmp")
  /\ UNCHANGED <<dest, bak, tmp, pid, zip, id>>

\* The pack loads.  Its own manifest says where it goes; is there one already?
Validate(n) ==
  /\ pc[n] = "extract"
  /\ \A f \in Files : Tmp(n)[f] = zip[n]
  /\ Loads(Tmp(n))
  /\ LET i == IdOf[Tmp(n)[Manifest]]
     IN  /\ id' = [id EXCEPT ![n] = i]
         /\ Goto(n, IF dest[i] # None THEN "clear_bak" ELSE "put")
  /\ UNCHANGED <<dest, bak, tmp, pid, zip>>

\* Mutant: the pack that is there is taken apart before the new one is in place.
ClearDestToo(n) ==
  /\ pc[n] = "clear_bak" /\ dest[id[n]] # None
  /\ \E d \in Removals(dest[id[n]]) : SetDest(n, d)
  /\ UNCHANGED <<bak, tmp, pid, pc, zip, id>>

ClearBak(n) ==
  /\ pc[n] = "clear_bak" /\ Bak(n) # None
  /\ \E d \in Removals(Bak(n)) : SetBak(n, d)
  /\ UNCHANGED <<dest, tmp, pid, pc, zip, id>>

\* os_safe_replace, first rename: dest becomes the backup.
MoveAside(n) ==
  /\ pc[n] = "clear_bak"
  /\ \/ /\ dest[id[n]] # None /\ Bak(n) = None
        /\ SetBak(n, dest[id[n]]) /\ SetDest(n, None)
        /\ Goto(n, "move_in")
        /\ UNCHANGED <<pid, zip, id>>
     \/ Return(n) /\ UNCHANGED <<dest, bak>>
  /\ UNCHANGED tmp

\* Second rename: the extracted folder becomes dest.
MoveIn(n) ==
  /\ pc[n] = "move_in"
  /\ \/ /\ dest[id[n]] = None
        /\ SetDest(n, Tmp(n)) /\ SetTmp(n, EmptyDir)
        /\ Goto(n, "drop_bak")
     \/ Goto(n, "restore") /\ UNCHANGED <<dest, tmp>>
  /\ UNCHANGED <<bak, pid, zip, id>>

\* The second rename failed: the first is undone, if nothing is in the way.
Restore(n) ==
  /\ pc[n] = "restore"
  /\ \/ /\ dest[id[n]] = None
        /\ SetDest(n, Bak(n)) /\ SetBak(n, None)
     \/ UNCHANGED <<dest, bak>>
  /\ Return(n)
  /\ UNCHANGED tmp

\* The backup is removed only when the new pack is in place; a failure leaves it.
DropBak(n) ==
  /\ pc[n] = "drop_bak"
  /\ \/ /\ Bak(n) # None
        /\ \E d \in Removals(Bak(n)) : SetBak(n, d)
        /\ UNCHANGED pc
     \/ Goto(n, "drop_tmp") /\ UNCHANGED bak
  /\ UNCHANGED <<dest, tmp, pid, zip, id>>

\* There was no pack of this id: one rename.  When it fails tmp is kept: it
\* holds the only copy.
PlainRename(n) ==
  /\ pc[n] = "put"
  /\ \/ /\ dest[id[n]] = None
        /\ SetDest(n, Tmp(n)) /\ SetTmp(n, EmptyDir)
        /\ Goto(n, "drop_tmp")
        /\ UNCHANGED <<pid, zip, id>>
     \/ Return(n) /\ UNCHANGED <<dest, tmp>>
  /\ UNCHANGED bak

\* What is left of the extraction is cleared, after success and after refusal.
DropTmp(n) ==
  /\ pc[n] = "drop_tmp"
  /\ \/ /\ Tmp(n) # None
        /\ \E d \in Removals(Tmp(n)) : SetTmp(n, d)
        /\ UNCHANGED <<pid, pc, zip, id>>
     \/ Return(n) /\ UNCHANGED tmp
  /\ UNCHANGED <<dest, bak>>

Install(n) ==
  \/ \E z \in Zips : Begin(n, z)
  \/ ClearTmp(n) \/ MakeTmp(n) \/ \E f \in Files : ExtractFile(n, f)
  \/ Refuse(n) \/ Validate(n)
  \/ ClearBak(n) \/ MoveAside(n) \/ MoveIn(n) \/ Restore(n) \/ DropBak(n)
  \/ PlainRename(n) \/ DropTmp(n)

Next == \E n \in Processes : Install(n) \/ Crash(n)

Spec == Init /\ [][Next]_vars

(***************************************************************************)
(* Properties.                                                             *)
(***************************************************************************)
Labels == {"idle", "clear_tmp", "extract", "clear_bak", "move_in", "restore", "drop_bak",
           "put", "drop_tmp"}

\* The types, and no process id is held twice.
TypeOK ==
  /\ dest \in [Ids -> Dirs \union {None}]
  /\ bak \in [Pids -> [Ids -> Dirs \union {None}]]
  /\ tmp \in [Pids -> Dirs \union {None}]
  /\ pid \in [Processes -> Pids \union {None}]
  /\ pc \in [Processes -> Labels]
  /\ zip \in [Processes -> Zips \union {None}]
  /\ id \in [Processes -> Ids \union {None}]
  /\ \A n, m \in Processes : pid[n] = pid[m] /\ pid[n] # None => n = m

\* One valid version of this pack, with all its files and none of another version's.
Whole(d, i) ==
  LET z == d[Manifest] IN z # None /\ Valid[z] /\ IdOf[z] = i /\ \A f \in Files : d[f] = z

\* What a scan finds under a pack's id is the whole of one version of that
\* pack or nothing, whatever has been installed over it, by how many processes,
\* and wherever they died (ff_packs_install_zip, scan_dir).
DestIsWhole == \A i \in Ids : dest[i] = None \/ Whole(dest[i], i)

(***************************************************************************)
(* Why it stays so: the inductive invariant.                               *)
(***************************************************************************)
\* What a call knows of the directories it works in.  Nobody else works in
\* them, because nobody else has its process id.
Knows(n) ==
  /\ pc[n] # "idle" => pid[n] \in Pids /\ zip[n] \in Zips
  /\ pc[n] = "extract" => Tmp(n) # None
  /\ pc[n] \in {"clear_bak", "move_in", "restore", "drop_bak", "put"} => id[n] \in Ids
  /\ pc[n] \in {"clear_bak", "move_in", "restore", "put"} =>
       Tmp(n) # None /\ Whole(Tmp(n), id[n])
  /\ pc[n] \in {"move_in", "restore"} => Bak(n) # None /\ Whole(Bak(n), id[n])

CallInv == \A n \in Processes : Knows(n)

\* This call is taking its backup of pack i apart.
Clearing(n, i) == pc[n] \in {"clear_bak", "drop_bak"} /\ id[n] = i

\* When a backup is being taken apart and the pack is not in place (another call
\* has moved it since), a backup that nobody takes apart is whole.
CopyInv ==
  \A i \in Ids :
    dest[i] = None /\ (\E n \in Processes : Clearing(n, i)) =>
      \E q \in Pids :
        /\ bak[q][i] # None /\ Whole(bak[q][i], i)
        /\ \A n \in Processes : pid[n] = q => ~Clearing(n, i)

IInv == TypeOK /\ CallInv /\ DestIsWhole /\ CopyInv

(***************************************************************************)
(* What it implements.                                                     *)
(***************************************************************************)
\* The shelf: what is in place, and the whole copies set aside.
Place(i) == IF dest[i] = None THEN None ELSE dest[i][Manifest]
Asides(i) == {bak[p][i][Manifest] : p \in {q \in Pids : bak[q][i] # None /\ Whole(bak[q][i], i)}}

Shelf == INSTANCE PackShelf
  WITH Versions <- {z \in Zips : Valid[z]}, Empty <- None,
       shelf <- [i \in Ids |-> Place(i)], aside <- [i \in Ids |-> Asides(i)]

\* Installing implements the shelf: versions come and go whole, and no step of
\* any process, a crash or a cleanup included, destroys the last copy of a pack
\* that was installed (the comment on os_safe_replace in ff_packs_install_zip).
IsShelf == Shelf!Spec
=============================================================================
