-------------------------- MODULE Services_proofs ---------------------------
(***************************************************************************)
(* What is proved of the services around the API, each for every value of  *)
(* its constants: file tasks, image files, the storage of accounts and     *)
(* keys, the log of calls and the backups.                                 *)
(***************************************************************************)
EXTENDS EditableTasks, ImageFiles, KeyStore, CallLog, Backups, FiniteSetTheorems, TLAPS

-----------------------------------------------------------------------------
(* File tasks: paid for once, with saves that fail and with crashes.       *)

\* The places of a thread before its conversation, which is what is paid for.
Unpaid == {"starting", "preparing", "conversing"}
Places == Unpaid \cup {"waiting", "downloading", "succeeding", "failing"}

TablesType ==
    /\ exporting \in [DOMAIN exporting -> Places]
    /\ paid \in [TaskKeys -> Nat]

\* A thread is started after its task was saved, and no task is ever forgotten that has
\* one or had one: this is why a task that was paid for is known after every crash.
NoneForgotten ==
    /\ DOMAIN saved \subseteq DOMAIN fileTasks
    /\ DOMAIN exporting \subseteq DOMAIN saved
    /\ \A key \in TaskKeys : paid[key] > 0 => key \in DOMAIN saved

\* A thread pays once, and finds its task unpaid.
PaidByThread ==
    /\ PaidOnce
    /\ \A key \in TaskKeys :
           (key \in DOMAIN exporting /\ exporting[key] \in Unpaid) => paid[key] = 0

EditableInv == TablesType /\ NoneForgotten /\ PaidByThread

\* A submission makes an unknown task, hence one that was never paid for.
LEMMA SubmitKeeps ==
    ASSUME EditableInv, NEW key \in TaskKeys, SubmitNew(key)
    PROVE  EditableInv'
<1> USE DEF EditableInv
<1>1. /\ DOMAIN fileTasks' = DOMAIN fileTasks \cup {key}
      /\ key \notin DOMAIN saved /\ key \notin DOMAIN exporting /\ paid[key] = 0
      /\ paid' = paid
    BY DEF SubmitNew, SetStatus, NoneForgotten, TablesType
<1>2. CASE saved' = fileTasks' /\ exporting' = SetStatus(exporting, key, "starting")
    <2>1. /\ DOMAIN exporting' = DOMAIN exporting \cup {key}
          /\ exporting'[key] = "starting"
          /\ \A x \in DOMAIN exporting : exporting'[x] = exporting[x]
          /\ exporting' \in [DOMAIN exporting' -> Places]
        BY <1>1, <1>2 DEF SetStatus, TablesType, Places, Unpaid
    <2>2. TablesType'
        BY <1>1, <1>2, <2>1 DEF TablesType, Places, Unpaid
    <2>3. NoneForgotten'
        BY <1>1, <1>2, <2>1 DEF NoneForgotten
    <2>4. PaidByThread'
        BY <1>1, <1>2, <2>1 DEF PaidByThread, PaidOnce
    <2> QED BY <2>2, <2>3, <2>4
<1>3. CASE UNCHANGED <<saved, exporting>>
    BY <1>1, <1>3 DEF TablesType, NoneForgotten, PaidByThread, PaidOnce
<1> QED BY <1>2, <1>3 DEF SubmitNew, SaveTasks, SaveBreaks

\* The steps of a thread: its task is known, in memory and in the file.
LEMMA ThreadKeeps ==
    ASSUME EditableInv, NEW key \in TaskKeys,
           \/ RunFileTask(key) \/ PrepareExport(key) \/ Converse(key) \/ AwaitFiles(key)
           \/ Download(key) \/ FileTaskSucceeds(key) \/ FileTaskFails(key)
    PROVE  EditableInv'
<1> USE DEF EditableInv, ThreadAt, ThreadGoes
<1>0. key \in DOMAIN exporting /\ key \in DOMAIN saved /\ key \in DOMAIN fileTasks
    BY DEF RunFileTask, PrepareExport, Converse, AwaitFiles, Download, FileTaskSucceeds,
       FileTaskFails, NoneForgotten
<1>1. ASSUME fileTasks' = SetStatus(fileTasks, key, "running") \/
             fileTasks' = SetStatus(fileTasks, key, "success") \/
             fileTasks' = SetStatus(fileTasks, key, "error") \/ fileTasks' = fileTasks,
             saved' = fileTasks' \/ saved' = saved
      PROVE  /\ DOMAIN fileTasks' = DOMAIN fileTasks
             /\ DOMAIN saved \subseteq DOMAIN saved' /\ DOMAIN saved' \subseteq DOMAIN fileTasks'
           <2>1. DOMAIN fileTasks' = DOMAIN fileTasks
        BY <1>0, <1>1 DEF SetStatus
    <2> QED BY <1>1, <2>1 DEF NoneForgotten
<1>2. ASSUME NEW place \in Places, ThreadGoes(key, place), UNCHANGED paid,
             place \in Unpaid => exporting[key] \in Unpaid,
             fileTasks' = SetStatus(fileTasks, key, "running") \/
             fileTasks' = SetStatus(fileTasks, key, "success") \/ fileTasks' = fileTasks,
             saved' = fileTasks' \/ saved' = saved
      PROVE  EditableInv'
    <2>1. /\ DOMAIN exporting' = DOMAIN exporting /\ exporting'[key] = place
          /\ \A x \in DOMAIN exporting : x # key => exporting'[x] = exporting[x]
          /\ exporting' \in [DOMAIN exporting' -> Places]
        BY <1>0, <1>2 DEF TablesType
    <2>2. TablesType' /\ NoneForgotten'
        BY <1>1, <1>2, <2>1 DEF TablesType, NoneForgotten
    <2>3. PaidByThread'
        BY <1>0, <1>2, <2>1 DEF PaidByThread, PaidOnce
    <2> QED BY <2>2, <2>3
<1>3. ASSUME ThreadDies(key), UNCHANGED paid,
             fileTasks' = SetStatus(fileTasks, key, "running") \/
             fileTasks' = SetStatus(fileTasks, key, "success") \/
             fileTasks' = SetStatus(fileTasks, key, "error"),
             saved' = fileTasks' \/ saved' = saved
      PROVE  EditableInv'
    <2>1. /\ DOMAIN exporting' = DOMAIN exporting \ {key}
          /\ \A x \in DOMAIN exporting' : exporting'[x] = exporting[x]
          /\ exporting' \in [DOMAIN exporting' -> Places]
        BY <1>3 DEF ThreadDies, Restrict, TablesType
    <2>2. TablesType' /\ NoneForgotten'
        BY <1>1, <1>3, <2>1 DEF TablesType, NoneForgotten
    <2>3. PaidByThread'
        BY <1>3, <2>1 DEF PaidByThread, PaidOnce
    <2> QED BY <2>2, <2>3
<1>4. CASE RunFileTask(key)
    BY <1>2, <1>3, <1>4 DEF RunFileTask, SaveTasks, SaveBreaks, Places, Unpaid
<1>5. CASE PrepareExport(key) \/ AwaitFiles(key) \/ Download(key)
    BY <1>2, <1>5 DEF PrepareExport, AwaitFiles, Download, Places, Unpaid
<1>6. CASE FileTaskSucceeds(key)
    BY <1>2, <1>3, <1>6 DEF FileTaskSucceeds, SaveTasks, SaveBreaks, Places, Unpaid
<1>7. CASE FileTaskFails(key)
    BY <1>3, <1>7 DEF FileTaskFails, SaveTasks, SaveBreaks
<1>8. CASE Converse(key)
    <2>1. /\ DOMAIN exporting' = DOMAIN exporting /\ exporting'[key] \in {"waiting", "failing"}
          /\ \A x \in DOMAIN exporting : x # key => exporting'[x] = exporting[x]
          /\ exporting' \in [DOMAIN exporting' -> Places]
          /\ fileTasks' = fileTasks /\ saved' = saved
        BY <1>0, <1>8 DEF Converse, TablesType, Places, Unpaid
    <2>2. paid[key] = 0
        BY <1>8 DEF Converse, PaidByThread, Unpaid
    <2>3. paid' = [paid EXCEPT ![key] = 1]
        BY <1>8, <2>2 DEF Converse
    <2>4. TablesType' /\ NoneForgotten'
        BY <1>0, <2>1, <2>3 DEF TablesType, NoneForgotten
    <2>5. PaidByThread'
        BY <1>0, <2>1, <2>3 DEF PaidByThread, PaidOnce, TablesType, Unpaid
    <2> QED BY <2>4, <2>5
<1> QED BY <1>4, <1>5, <1>6, <1>7, <1>8

LEMMA EditableInvariant == EditableSpec => []EditableInv
<1>1. EditableInit => EditableInv
    BY DEF EditableInit, EditableInv, TablesType, NoneForgotten, PaidByThread, PaidOnce
<1>2. EditableInv /\ [EditableNext]_editableVars => EditableInv'
    <2> SUFFICES ASSUME EditableInv, [EditableNext]_editableVars PROVE EditableInv'
        OBVIOUS
    <2>1. CASE RestartTasks
        <3>1. /\ DOMAIN fileTasks' = DOMAIN saved /\ saved' = fileTasks'
                      /\ exporting' = <<>> /\ paid' = paid
            BY <2>1 DEF RestartTasks
        <3> QED BY <3>1 DEF EditableInv, TablesType, NoneForgotten, PaidByThread, PaidOnce
    <2>2. ASSUME NEW key \in TaskKeys, SubmitNew(key) PROVE EditableInv'
        BY <2>2, SubmitKeeps
    <2>3. CASE UNCHANGED editableVars
        BY <2>3 DEF editableVars, EditableInv, TablesType, NoneForgotten, PaidByThread, PaidOnce
    <2> QED BY <2>1, <2>2, <2>3, ThreadKeeps DEF EditableNext
<1> QED BY <1>1, <1>2, PTL DEF EditableSpec

\* A task is paid for once: for any owners and ids, any number of failing saves and of
\* crashes (_submit, _run_task and _recover_unfinished_locked of
\* editable_file_task_service.py).
THEOREM PaidOnceHolds == EditableSpec => []PaidOnce
<1>1. EditableInv => PaidOnce
    BY DEF EditableInv, PaidByThread
<1> QED BY <1>1, EditableInvariant, PTL

-----------------------------------------------------------------------------
(* Image files: what was saved is served, what was deleted is gone.        *)

Entries    == UNION {[D -> BOOLEAN] : D \in SUBSET Photos}
SavePlaces == {"none", "writing", "putting", "indexing", "saved", "failed"}

ImageTypeOK ==
    /\ mode \in StorageModes
    /\ {local, remote, expired, deleted, early, unentered} \subseteq SUBSET Photos
    /\ index \in Entries
    /\ saving \in [Photos -> [pc : SavePlaces, mode : StorageModes]]
    /\ sync \in [on : BOOLEAN, todo : SUBSET Photos, at : Photos \cup {Nobody},
                 items : Entries]
    /\ deleting \in [photo : Photos \cup {Nobody}, hadFile : BOOLEAN]
    /\ deleting.hadFile => deleting.photo \in Photos

\* A sync works on an index that nobody changes, and finds more copies only.
SyncOwnsIndex ==
    /\ ~sync.on => sync = NoSync
    /\ sync.on => \A i \in Photos : /\ HasCopy(index, i) => HasCopy(sync.items, i)
                                    /\ i \in DOMAIN index => i \in DOMAIN sync.items

\* An image nobody has begun to save.
Unknown(i) ==
    /\ i \notin local \cup remote \cup deleted \cup sync.todo \cup unentered
    /\ i \notin DOMAIN index \cup DOMAIN sync.items
    /\ sync.at # i /\ deleting.photo # i

\* One whose save is under way.
Underway(i) ==
    /\ i \notin deleted /\ deleting.photo # i
    /\ saving[i].pc = "writing" => saving[i].mode # "webdav" /\ i \notin remote
    /\ saving[i].pc = "putting" => saving[i].mode # "local"
    /\ (saving[i].pc \in {"putting", "indexing"} /\ saving[i].mode # "webdav")
           => i \in local \cup expired
    /\ saving[i].pc = "indexing" => (i \in remote <=> saving[i].mode # "local")

\* One that can be had: every copy is known, or was left by a sync, also when deleting the
\* image may still fail.
Known(i) == i \in remote => HasCopy(index, i) \/ HasCopy(sync.items, i) \/ i \in unentered

Available(i) == (i \notin remote \/ ~HasCopy(index, i)) => i \in local \cup expired

\* One that was deleted.
Away(i) ==
    /\ i \notin local \cup sync.todo
    /\ i \notin DOMAIN index \cup DOMAIN sync.items
    /\ sync.at # i

PhotoOK(i) ==
    /\ saving[i].pc = "none" => Unknown(i)
    /\ (Open(i) /\ i \notin early) => Underway(i)
    /\ (saving[i].pc = "saved" /\ i \notin deleted \cup early) =>
           Known(i) /\ (Available(i) \/ (deleting.photo = i /\ deleting.hadFile))
    /\ (deleting.photo = i /\ i \notin early) => ~Open(i) /\ i \notin local
    /\ i \in deleted \ early => ~Open(i) /\ Away(i)

ImageInv == ImageTypeOK /\ SyncOwnsIndex /\ \A i \in Photos : PhotoOK(i)

LEMMA NoEntries == <<>> \in Entries /\ DOMAIN <<>> = {} /\ \A i : ~HasCopy(<<>>, i)
<1>1. <<>> \in [{} -> BOOLEAN] /\ DOMAIN <<>> = {}
    OBVIOUS
<1> QED BY <1>1 DEF Entries, HasCopy

LEMMA PutEntry ==
    ASSUME NEW e \in Entries, NEW i \in Photos, NEW copied \in BOOLEAN
    PROVE  /\ Put(e, i, copied) \in Entries
           /\ DOMAIN Put(e, i, copied) = DOMAIN e \cup {i}
           /\ HasCopy(Put(e, i, copied), i) = copied
           /\ \A j : j # i => HasCopy(Put(e, i, copied), j) = HasCopy(e, j)
<1>1. PICK D \in SUBSET Photos : e \in [D -> BOOLEAN]
    BY DEF Entries
<1>2. Put(e, i, copied) \in [D \cup {i} -> BOOLEAN]
    BY <1>1 DEF Put
<1>3. D \cup {i} \in SUBSET Photos
    OBVIOUS
<1>4. Put(e, i, copied) \in Entries
    BY <1>2, <1>3 DEF Entries
<1> QED BY <1>1, <1>4 DEF Put, HasCopy

LEMMA RestrictEntries ==
    ASSUME NEW e \in Entries, NEW i
    PROVE  LET r == Restrict(e, DOMAIN e \ {i}) IN
           /\ r \in Entries /\ DOMAIN r = DOMAIN e \ {i} /\ ~HasCopy(r, i)
           /\ \A j : j # i => HasCopy(r, j) = HasCopy(e, j)
<1> DEFINE r == Restrict(e, DOMAIN e \ {i})
<1>1. PICK D \in SUBSET Photos : e \in [D -> BOOLEAN]
    BY DEF Entries
<1>2. r \in [D \ {i} -> BOOLEAN] /\ DOMAIN r = DOMAIN e \ {i}
    BY <1>1 DEF Restrict
<1>3. D \ {i} \in SUBSET Photos
    OBVIOUS
<1>4. r \in Entries
    BY <1>2, <1>3 DEF Entries
<1>5. ~HasCopy(r, i) /\ \A j : j # i => HasCopy(r, j) = HasCopy(e, j)
    BY <1>1 DEF Restrict, HasCopy
<1> QED BY <1>2, <1>4, <1>5

LEMMA ImageInitInv == ImageInit => ImageInv
<1> SUFFICES ASSUME ImageInit PROVE ImageInv
    OBVIOUS
<1>1. /\ index = <<>> /\ sync.items = <<>> /\ sync.on = FALSE /\ sync.todo = {}
      /\ sync.at = Nobody /\ sync = NoSync /\ deleting.photo = Nobody
      /\ local = {} /\ remote = {} /\ expired = {} /\ deleted = {} /\ early = {}
      /\ unentered = {} /\ \A i \in Photos : saving[i].pc = "none"
    BY DEF ImageInit, NoSync, NotDeleting
<1>2. ImageTypeOK
    BY NoEntries DEF ImageInit, ImageTypeOK, NoSync, NotDeleting, SavePlaces, StorageModes
<1>3. SyncOwnsIndex
    BY <1>1 DEF SyncOwnsIndex
<1>4. ASSUME NEW i \in Photos PROVE PhotoOK(i)
    BY <1>1, ImageAssumption, NoEntries DEF PhotoOK, Unknown, Open
<1> QED BY <1>2, <1>3, <1>4 DEF ImageInv

\* All that is known of an image stays.
Same(j) ==
    /\ saving'[j] = saving[j]
    /\ j \in local' <=> j \in local
    /\ j \in remote' <=> j \in remote
    /\ j \in DOMAIN index' <=> j \in DOMAIN index
    /\ HasCopy(index', j) <=> HasCopy(index, j)
    /\ j \in DOMAIN sync'.items <=> j \in DOMAIN sync.items
    /\ HasCopy(sync'.items, j) <=> HasCopy(sync.items, j)
    /\ j \in sync'.todo <=> j \in sync.todo
    /\ sync'.at = j <=> sync.at = j
    /\ deleting'.photo = j <=> deleting.photo = j
    /\ deleting'.photo = j => deleting'.hadFile = deleting.hadFile
    /\ j \in expired' <=> j \in expired
    /\ j \in deleted' <=> j \in deleted
    /\ j \in early' <=> j \in early
    /\ j \in unentered' <=> j \in unentered

LEMMA SamePhoto ==
    ASSUME NEW j, PhotoOK(j), Same(j)
    PROVE  PhotoOK(j)'
BY DEF PhotoOK, Same, Unknown, Open, Underway, Known, Available, Away

\* A save begins, writes the file or puts the copy, and only what is known of its image
\* changes.
LEMMA SaveStep ==
    ASSUME ImageInv, NEW i \in Photos, SaveBegins(i) \/ WriteLocal(i) \/ PutRemote(i)
    PROVE  ImageInv'
<1> USE DEF ImageInv
<1>0. /\ saving[i] \in [pc : SavePlaces, mode : StorageModes] /\ mode \in StorageModes
      /\ saving = [j \in Photos |-> saving[j]] /\ PhotoOK(i)
    BY DEF ImageTypeOK
<1>1. UNCHANGED <<mode, index, sync, deleting, expired, deleted, early, unentered>>
    BY DEF SaveBegins, WriteLocal, PutRemote
<1>2. /\ local' \in {local, local \cup {i}} /\ remote' \in {remote, remote \cup {i}}
    BY DEF SaveBegins, WriteLocal, PutRemote
<1>3. PICK pc \in {"writing", "putting", "indexing", "failed"}, m \in StorageModes :
          saving' = [saving EXCEPT ![i] = [pc |-> pc, mode |-> m]]
    <2>1. CASE SaveBegins(i)
        BY <1>0, <2>1 DEF SaveBegins
    <2>2. CASE WriteLocal(i) \/ PutRemote(i)
        <3>1. PICK pc \in {"putting", "indexing", "failed"} : SaveGoes(i, pc)
            BY <2>2 DEF WriteLocal, PutRemote
        <3> DEFINE r == [saving[i] EXCEPT !.pc = pc]
        <3>2. r = [pc |-> pc, mode |-> saving[i].mode] /\ saving' = [saving EXCEPT ![i] = r]
            BY <1>0, <3>1 DEF SaveGoes
        <3> QED BY <1>0, <3>2
    <2> QED BY <2>1, <2>2
<1>4. /\ \A j \in Photos : j # i => saving'[j] = saving[j]
      /\ saving' \in [Photos -> [pc : SavePlaces, mode : StorageModes]]
      /\ saving'[i].pc = pc /\ saving'[i].mode = m
    BY <1>3 DEF ImageTypeOK, SavePlaces
<1>5. ImageTypeOK' /\ SyncOwnsIndex'
    BY <1>1, <1>2, <1>4 DEF ImageTypeOK, SyncOwnsIndex
<1>6. \A j \in Photos : j # i => PhotoOK(j)'
    <2> SUFFICES ASSUME NEW j \in Photos, j # i PROVE PhotoOK(j)'
        OBVIOUS
    <2>1. Same(j)
        BY <1>1, <1>2, <1>4 DEF Same
    <2> QED BY <2>1, SamePhoto
<1>7. saving[i].pc = "none" \/ Open(i)
    BY DEF SaveBegins, WriteLocal, PutRemote, Open
<1>8. i \in early \/ (i \notin deleted /\ deleting.photo # i)
    BY <1>0, <1>7 DEF PhotoOK, Unknown, Underway
<1>9. PhotoOK(i)'
    <2>1. i \notin early => (Open(i)' => Underway(i)')
        <3> SUFFICES ASSUME i \notin early, pc # "failed" PROVE Underway(i)'
            BY <1>4 DEF Open
        <3>1. i \notin deleted' /\ deleting'.photo # i
            BY <1>1, <1>8
        <3>2. CASE SaveBegins(i)
            <4>1. /\ pc = (IF mode = "webdav" THEN "putting" ELSE "writing") /\ m = mode
                  /\ remote' = remote /\ i \notin remote
                BY <1>0, <1>3, <3>2 DEF SaveBegins, PhotoOK, Unknown, ImageTypeOK
            <4> QED BY <1>4, <3>1, <4>1 DEF Underway
        <3>3. CASE WriteLocal(i)
            <4>1. /\ saving[i].mode # "webdav" /\ i \notin remote
                BY <1>0, <3>3 DEF WriteLocal, PhotoOK, Open, Underway
            <4>2. /\ m = saving[i].mode /\ remote' = remote /\ i \in local'
                  /\ pc = (IF m = "both" THEN "putting" ELSE "indexing")
                BY <1>0, <1>3, <3>3 DEF WriteLocal, SaveGoes, ImageTypeOK
            <4> QED BY <1>0, <1>4, <3>1, <4>1, <4>2 DEF Underway, StorageModes
        <3>4. CASE PutRemote(i)
            <4>1. saving[i].mode # "local" /\ (saving[i].mode # "webdav" => i \in local \cup expired)
                BY <1>0, <3>4 DEF PutRemote, PhotoOK, Open, Underway
            <4>2. m = saving[i].mode /\ i \in remote' /\ pc = "indexing" /\ local' = local
                BY <1>0, <1>3, <3>4 DEF PutRemote, SaveGoes, ImageTypeOK
            <4> QED BY <1>1, <1>4, <3>1, <4>1, <4>2 DEF Underway
        <3> QED BY <3>2, <3>3, <3>4
    <2> QED BY <1>1, <1>4, <1>8, <2>1 DEF PhotoOK
<1> QED BY <1>5, <1>6, <1>9

\* A save is entered into the index, which only then says of a copy what is true.
LEMMA IndexSavedStep ==
    ASSUME ImageInv, NEW i \in Photos, IndexSaved(i)
    PROVE  ImageInv'
<1> USE DEF ImageInv
<1> DEFINE copied == saving[i].mode # "local"
<1>1. /\ UNCHANGED <<mode, local, folder, remote, sync, deleting, expired, deleted, early, unentered>>
      /\ saving[i].pc = "indexing" /\ ~sync.on /\ PhotoOK(i)
      /\ \/ index' = Put(index, i, copied) /\ saving' = [saving EXCEPT ![i].pc = "saved"]
         \/ index' = index /\ saving' = [saving EXCEPT ![i].pc = "failed"]
    BY DEF IndexSaved, SaveGoes, LockIsFree
<1>a. CASE index' = index /\ saving' = [saving EXCEPT ![i].pc = "failed"]
    <2>1. /\ saving' \in [Photos -> [pc : SavePlaces, mode : StorageModes]]
          /\ saving'[i].pc = "failed" /\ \A j \in Photos : j # i => saving'[j] = saving[j]
        BY <1>a DEF ImageTypeOK, SavePlaces
    <2>2. ImageTypeOK' /\ SyncOwnsIndex'
        BY <1>1, <1>a, <2>1 DEF ImageTypeOK, SyncOwnsIndex
    <2>3. ASSUME NEW j \in Photos, j # i PROVE PhotoOK(j)'
        <3>1. Same(j)
            BY <1>1, <1>a, <2>1, <2>3 DEF Same
        <3> QED BY <3>1, SamePhoto
    <2>4. PhotoOK(i)'
        <3>1. Open(i) /\ ~Open(i)'
            BY <1>1, <2>1 DEF Open
        <3> QED BY <1>1, <2>1, <3>1 DEF PhotoOK, Underway
    <2> QED BY <2>2, <2>3, <2>4
<1>b. CASE index' = Put(index, i, copied) /\ saving' = [saving EXCEPT ![i].pc = "saved"]
    <2>2. /\ index' \in Entries /\ DOMAIN index' = DOMAIN index \cup {i}
          /\ HasCopy(index', i) = copied
          /\ \A j : j # i => HasCopy(index', j) = HasCopy(index, j)
        <3>1. index \in Entries /\ copied \in BOOLEAN /\ index' = Put(index, i, copied)
            BY <1>b DEF ImageTypeOK
        <3>2. PICK c \in BOOLEAN : c = copied
            BY <3>1
        <3> HIDE DEF copied
        <3>3. index' = Put(index, i, c)
            BY <3>1, <3>2
        <3>4. /\ Put(index, i, c) \in Entries /\ DOMAIN Put(index, i, c) = DOMAIN index \cup {i}
              /\ HasCopy(Put(index, i, c), i) = c
              /\ \A j : j # i => HasCopy(Put(index, i, c), j) = HasCopy(index, j)
            BY <3>1, PutEntry
        <3> QED BY <3>2, <3>3, <3>4
    <2>3. /\ saving' \in [Photos -> [pc : SavePlaces, mode : StorageModes]]
          /\ saving'[i].pc = "saved" /\ \A j \in Photos : j # i => saving'[j] = saving[j]
        BY <1>b DEF ImageTypeOK, SavePlaces
    <2>4. ImageTypeOK' /\ SyncOwnsIndex'
        BY <1>1, <1>b, <2>2, <2>3 DEF ImageTypeOK, SyncOwnsIndex
    <2>5. \A j \in Photos : j # i => PhotoOK(j)'
        <3> SUFFICES ASSUME NEW j \in Photos, j # i PROVE PhotoOK(j)'
            OBVIOUS
        <3>1. Same(j)
            BY <1>1, <1>b, <2>2, <2>3 DEF Same
        <3> QED BY <3>1, SamePhoto
    <2>6. PhotoOK(i)'
        <3>1. Open(i) /\ ~Open(i)'
            BY <1>1, <1>b, <2>3 DEF Open
        <3>2. CASE i \in early
            BY <1>1, <1>b, <2>3, <3>1, <3>2 DEF PhotoOK
        <3>3. CASE i \notin early
            <4>1. Underway(i)
                BY <1>1, <1>b, <3>1, <3>3 DEF PhotoOK
            <4>2. /\ saving[i].mode \in StorageModes /\ (i \in remote <=> copied)
                  /\ saving[i].mode # "webdav" => i \in local \cup expired
                BY <1>1, <4>1 DEF Underway, ImageTypeOK
            <4>3. Known(i)'
                BY <1>1, <2>2, <4>2 DEF Known
            <4>4. Available(i)'
                BY <1>1, <2>2, <4>2 DEF Available
            <4> QED BY <1>1, <2>3, <3>1, <4>1, <4>3, <4>4 DEF PhotoOK, Underway
        <3> QED BY <3>2, <3>3
    <2> QED BY <2>4, <2>5, <2>6
<1> QED BY <1>1, <1>a, <1>b

\* list_items forgets no entry with a copy.
LEMMA ListStep ==
    ASSUME ImageInv, ListImages
    PROVE  ImageInv'
<1> USE DEF ImageInv
<1> DEFINE D == local \cup {x \in DOMAIN index : index[x]}
<1>1. /\ UNCHANGED <<mode, local, remote, saving, sync, deleting, expired, deleted, early, unentered>>
      /\ index' = [i \in D |-> HasCopy(index, i)] /\ deleting = NotDeleting /\ ~sync.on
    BY DEF ListImages, LoopFree, LockIsFree
<1>2. DOMAIN index \subseteq Photos
    BY DEF ImageTypeOK, Entries
<1>3. D \in SUBSET Photos /\ DOMAIN index' = D
    BY <1>1, <1>2 DEF ImageTypeOK
<1>4. index' \in Entries
    <2>1. index' \in [D -> BOOLEAN]
        BY <1>1 DEF HasCopy
    <2> QED BY <1>3, <2>1 DEF Entries
<1>5. \A j : HasCopy(index', j) <=> HasCopy(index, j)
    BY <1>1 DEF HasCopy
<1>6. \A j : j \in DOMAIN index' => j \in local \/ j \in DOMAIN index
    BY <1>3
<1>7. deleting.photo = Nobody
    BY <1>1 DEF NotDeleting
<1> HIDE DEF D
<1>8. ASSUME NEW j \in Photos PROVE PhotoOK(j)'
    <2>1. PhotoOK(j)
        OBVIOUS
    <2> QED BY <1>1, <1>5, <1>6, <2>1
            DEF PhotoOK, Unknown, Open, Underway, Known, Available, Away
<1> QED BY <1>1, <1>4, <1>8 DEF ImageTypeOK, SyncOwnsIndex

\* The operator deletes a file: if its save is under way, nothing is promised any more.
LEMMA DeleteFileStep ==
    ASSUME ImageInv, NEW i \in Photos, DeleteFile(i)
    PROVE  ImageInv'
<1> USE DEF ImageInv
<1>1. /\ UNCHANGED <<mode, remote, index, saving, sync, expired, deleted, unentered>>
      /\ deleting' = [photo |-> i, hadFile |-> i \in local] /\ local' = local \ {i}
      /\ early' = early \cup {j \in {i} : Open(j)}
      /\ deleting = NotDeleting /\ i \in local \cup DOMAIN index
    BY DEF DeleteFile, LoopFree, Early
<1>2. /\ deleting'.photo = i /\ deleting'.hadFile = (i \in local) /\ deleting.photo = Nobody
      /\ deleting' \in [photo : Photos \cup {Nobody}, hadFile : BOOLEAN]
    BY <1>1 DEF NotDeleting
<1>3. ImageTypeOK' /\ SyncOwnsIndex'
    BY <1>1, <1>2 DEF ImageTypeOK, SyncOwnsIndex
<1>4. \A j \in Photos : j # i => PhotoOK(j)'
    <2> SUFFICES ASSUME NEW j \in Photos, j # i PROVE PhotoOK(j)'
        OBVIOUS
    <2>1. Same(j)
        BY <1>1, <1>2, ImageAssumption DEF Same
    <2> QED BY <2>1, SamePhoto
<1>5. PhotoOK(i)'
    <2>1. PhotoOK(i) /\ saving[i].pc # "none"
        BY <1>1 DEF PhotoOK, Unknown
    <2>2. Open(i)' = Open(i) /\ (Open(i) => i \in early')
        BY <1>1 DEF Open
    <2> QED BY <1>1, <1>2, <2>1, <2>2, ImageAssumption DEF PhotoOK, Known, Available, Away
<1> QED BY <1>3, <1>4, <1>5

\* Then its entry and its copy go, or an error of the server leaves both.
LEMMA DeleteEntryStep ==
    ASSUME ImageInv, DeleteEntry
    PROVE  ImageInv'
<1> USE DEF ImageInv
<1>0. PICK i \in Photos : i = deleting.photo
    BY DEF DeleteEntry, ImageTypeOK
<1>1. /\ ~sync.on /\ sync = NoSync /\ deleting' = NotDeleting
      /\ UNCHANGED <<mode, local, saving, sync, early, unentered>>
    BY DEF DeleteEntry, LockIsFree, SyncOwnsIndex
<1>2. \/ /\ index' = Restrict(index, DOMAIN index \ {i}) /\ deleted' = deleted \cup {i}
         /\ remote' \in {remote, remote \ {i}} /\ expired' = expired
      \/ UNCHANGED <<index, remote, deleted, expired>> /\ ~deleting.hadFile
      \/ /\ UNCHANGED <<index, deleted>> /\ expired' = expired \cup {i}
         /\ i \in DOMAIN index /\ remote' \in {remote, remote \ {i}}
    BY <1>0 DEF DeleteEntry
<1>3. deleting'.photo = Nobody /\ sync.items = <<>> /\ sync.todo = {} /\ sync.at = Nobody
    BY <1>1 DEF NotDeleting, NoSync
<1>4. /\ index' \in Entries
      /\ \A j : j # i => /\ j \in DOMAIN index' <=> j \in DOMAIN index
                         /\ HasCopy(index', j) = HasCopy(index, j)
    <2>1. CASE index' = Restrict(index, DOMAIN index \ {i})
        <3>1. /\ index' \in Entries /\ DOMAIN index' = DOMAIN index \ {i}
              /\ \A j : j # i => HasCopy(index', j) = HasCopy(index, j)
            BY <2>1, RestrictEntries DEF ImageTypeOK
        <3> QED BY <3>1
    <2>2. CASE index' = index
        BY <2>2 DEF ImageTypeOK
    <2> QED BY <1>2, <2>1, <2>2
<1>5. ImageTypeOK' /\ SyncOwnsIndex'
    <2>1. /\ deleting' \in [photo : Photos \cup {Nobody}, hadFile : BOOLEAN]
          /\ ~deleting'.hadFile
        BY <1>1 DEF NotDeleting
    <2>2. {remote', deleted', expired'} \subseteq SUBSET Photos
        BY <1>0, <1>1, <1>2 DEF ImageTypeOK
    <2> QED BY <1>1, <1>4, <2>1, <2>2 DEF ImageTypeOK, SyncOwnsIndex
<1>6. \A j \in Photos : j # i => PhotoOK(j)'
    <2> SUFFICES ASSUME NEW j \in Photos, j # i PROVE PhotoOK(j)'
        OBVIOUS
    <2>1. Same(j)
        BY <1>0, <1>1, <1>2, <1>3, <1>4, ImageAssumption DEF Same
    <2> QED BY <2>1, SamePhoto
<1>7. PhotoOK(i)'
    <2>1. PhotoOK(i) /\ Open(i)' = Open(i)
        BY <1>1 DEF Open
    <2>2. CASE UNCHANGED <<index, remote, deleted, expired>> /\ ~deleting.hadFile
        BY <1>0, <1>1, <1>3, <2>1, <2>2, ImageAssumption
           DEF PhotoOK, Unknown, Underway, Known, Available, Away
    <2>3. CASE /\ index' = Restrict(index, DOMAIN index \ {i}) /\ deleted' = deleted \cup {i}
               /\ remote' \in {remote, remote \ {i}} /\ expired' = expired
        <3>1. i \notin DOMAIN index'
            <4>1. index \in Entries
                BY DEF ImageTypeOK
            <4>2. DOMAIN Restrict(index, DOMAIN index \ {i}) = DOMAIN index \ {i}
                BY <4>1, RestrictEntries
            <4> QED BY <2>3, <4>2
        <3>2. saving[i].pc # "none"
            BY <1>0, <2>1 DEF PhotoOK, Unknown
        <3>3. i \notin DOMAIN sync.items
            BY <1>3, NoEntries
        <3> QED BY <1>0, <1>1, <1>3, <2>1, <2>3, <3>1, <3>2, <3>3, ImageAssumption
                DEF PhotoOK, Away
    <2>4. CASE /\ UNCHANGED <<index, deleted>> /\ expired' = expired \cup {i}
               /\ i \in DOMAIN index /\ remote' \in {remote, remote \ {i}}
        <3>1. saving[i].pc # "none" /\ i \notin deleted \ early
            BY <2>1, <2>4 DEF PhotoOK, Unknown, Away
        <3> QED BY <1>0, <1>1, <1>3, <2>1, <2>4, <3>1, ImageAssumption
                DEF PhotoOK, Known, Available
    <2> QED BY <1>2, <2>2, <2>3, <2>4
<1> QED BY <1>1, <1>5, <1>6, <1>7

\* sync_all.
LEMMA SyncBeginsStep ==
    ASSUME ImageInv, SyncBegins
    PROVE  ImageInv'
<1> USE DEF ImageInv
<1>1. /\ UNCHANGED <<mode, local, remote, index, saving, deleting, expired, deleted, early, unentered>>
      /\ sync' = [on |-> TRUE, todo |-> local, at |-> Nobody, items |-> index]
      /\ ~sync.on /\ sync = NoSync
    BY DEF SyncBegins, LockIsFree, SyncOwnsIndex
<1>2. /\ sync'.on = TRUE /\ sync'.todo = local /\ sync'.at = Nobody /\ sync'.items = index
      /\ sync.items = <<>>
    BY <1>1 DEF NoSync
<1>3. ImageTypeOK' /\ SyncOwnsIndex'
    BY <1>1, <1>2 DEF ImageTypeOK, SyncOwnsIndex
<1>4. ASSUME NEW j \in Photos PROVE PhotoOK(j)'
    <2>1. PhotoOK(j) /\ ~HasCopy(sync.items, j) /\ Open(j)' = Open(j)
        BY <1>1, <1>2, NoEntries DEF Open
    <2> QED BY <1>1, <1>2, <2>1, ImageAssumption
            DEF PhotoOK, Unknown, Underway, Known, Available, Away
<1> QED BY <1>3, <1>4

LEMMA SyncReadsStep ==
    ASSUME ImageInv, NEW i \in Photos, SyncReads(i)
    PROVE  ImageInv'
<1> USE DEF ImageInv
<1>1. /\ UNCHANGED <<mode, local, remote, index, saving, deleting, expired, deleted, early, unentered>>
      /\ sync.on /\ i \in sync.todo
      /\ sync' = [sync EXCEPT !.todo = @ \ {i},
                              !.at = IF i \in local /\ ~HasCopy(sync.items, i) THEN i ELSE Nobody]
    BY DEF SyncReads
<1>2. PICK at \in {i, Nobody} :
          /\ at = i => i \in local
          /\ sync' = [sync EXCEPT !.todo = @ \ {i}, !.at = at]
    <2>1. CASE i \in local /\ ~HasCopy(sync.items, i)
        BY <1>1, <2>1
    <2>2. CASE ~(i \in local /\ ~HasCopy(sync.items, i))
        BY <1>1, <2>2, ImageAssumption
    <2> QED BY <2>1, <2>2
<1>3. /\ sync'.on = sync.on /\ sync'.todo = sync.todo \ {i} /\ sync'.at = at
      /\ sync'.items = sync.items
      /\ sync' \in [on : BOOLEAN, todo : SUBSET Photos, at : Photos \cup {Nobody}, items : Entries]
    BY <1>2 DEF ImageTypeOK
<1>4. ImageTypeOK' /\ SyncOwnsIndex'
    BY <1>1, <1>3 DEF ImageTypeOK, SyncOwnsIndex
<1>5. ASSUME NEW j \in Photos PROVE PhotoOK(j)'
    <2>1. PhotoOK(j) /\ Open(j)' = Open(j)
        BY <1>1 DEF Open
    <2>2. sync'.at = j => j \in local
        BY <1>2, <1>3, ImageAssumption
    <2> QED BY <1>1, <1>3, <2>1, <2>2 DEF PhotoOK, Unknown, Underway, Known, Available, Away
<1> QED BY <1>4, <1>5

LEMMA SyncPutsStep ==
    ASSUME ImageInv, SyncPuts
    PROVE  ImageInv'
<1> USE DEF ImageInv
<1>0. PICK i \in Photos : i = sync.at
    BY DEF SyncPuts, ImageTypeOK
<1>1. /\ UNCHANGED <<mode, local, index, saving, deleting, expired, deleted>>
      /\ sync.on
    BY DEF SyncPuts
<1>a. CASE /\ remote' = remote \cup {i} /\ early' = early \cup {j \in {i} : Open(j)}
           /\ sync' = [sync EXCEPT !.at = Nobody] /\ unentered' = unentered \cup {i}
    <2>1. /\ sync'.on = sync.on /\ sync'.todo = sync.todo /\ sync'.at = Nobody
          /\ sync'.items = sync.items
          /\ sync' \in [on : BOOLEAN, todo : SUBSET Photos, at : Photos \cup {Nobody},
                        items : Entries]
        BY <1>a DEF ImageTypeOK
    <2>2. ImageTypeOK' /\ SyncOwnsIndex'
        <3>1. {early', remote', unentered'} \subseteq SUBSET Photos
            BY <1>a DEF ImageTypeOK
        <3>2. ImageTypeOK'
            BY <1>1, <2>1, <3>1 DEF ImageTypeOK
        <3> QED BY <1>1, <2>1, <3>2 DEF SyncOwnsIndex
    <2>3. ASSUME NEW j \in Photos, j # i PROVE PhotoOK(j)'
        <3>1. Same(j)
            BY <1>0, <1>1, <1>a, <2>1, <2>3, ImageAssumption DEF Same
        <3> QED BY <3>1, SamePhoto
    <2>4. PhotoOK(i)'
        <3>1. PhotoOK(i) /\ Open(i)' = Open(i) /\ saving[i].pc # "none" /\ i \notin deleted \ early
            BY <1>0, <1>1 DEF Open, PhotoOK, Unknown, Away
        <3>2. Open(i) => i \in early'
            BY <1>a
        <3> QED BY <1>0, <1>1, <1>a, <2>1, <3>1, <3>2, ImageAssumption
                DEF PhotoOK, Known, Available, HasCopy
    <2> QED BY <2>2, <2>3, <2>4
<1>2. CASE UNCHANGED <<remote, early, unentered>> /\ sync' = [sync EXCEPT !.at = Nobody]
    <2>1. /\ sync'.on = sync.on /\ sync'.todo = sync.todo /\ sync'.at = Nobody
          /\ sync'.items = sync.items
          /\ sync' \in [on : BOOLEAN, todo : SUBSET Photos, at : Photos \cup {Nobody},
                        items : Entries]
        BY <1>2 DEF ImageTypeOK
    <2>2. ImageTypeOK' /\ SyncOwnsIndex'
        BY <1>1, <1>2, <2>1 DEF ImageTypeOK, SyncOwnsIndex
    <2>3. ASSUME NEW j \in Photos PROVE PhotoOK(j)'
        <3>1. PhotoOK(j) /\ Open(j)' = Open(j)
            BY <1>1 DEF Open
        <3> QED BY <1>1, <1>2, <2>1, <3>1, ImageAssumption
                DEF PhotoOK, Unknown, Underway, Known, Available, Away
    <2> QED BY <2>2, <2>3
<1>3. CASE /\ remote' = remote \cup {i} /\ early' = early \cup {j \in {i} : Open(j)}
           /\ sync' = [sync EXCEPT !.at = Nobody, !.items = Put(@, i, TRUE)]
           /\ unentered' = unentered
    <2> DEFINE items == Put(sync.items, i, TRUE)
    <2>1. /\ items \in Entries /\ DOMAIN items = DOMAIN sync.items \cup {i}
          /\ HasCopy(items, i) = TRUE
          /\ \A j : j # i => HasCopy(items, j) = HasCopy(sync.items, j)
        BY <1>1, PutEntry DEF ImageTypeOK
    <2>2. /\ sync'.on = sync.on /\ sync'.todo = sync.todo /\ sync'.at = Nobody
          /\ sync'.items = items
          /\ sync' \in [on : BOOLEAN, todo : SUBSET Photos, at : Photos \cup {Nobody},
                        items : Entries]
        BY <1>3, <2>1 DEF ImageTypeOK
    <2> HIDE DEF items
    <2>3. ImageTypeOK' /\ SyncOwnsIndex'
        <3>1. {early', remote', unentered'} \subseteq SUBSET Photos
            BY <1>3 DEF ImageTypeOK
        <3>2. ImageTypeOK'
            BY <1>1, <2>2, <3>1 DEF ImageTypeOK
        <3>3. SyncOwnsIndex'
            BY <1>1, <2>1, <2>2 DEF SyncOwnsIndex
        <3> QED BY <3>2, <3>3
    <2>4. \A j \in Photos : j # i => PhotoOK(j)'
        <3> SUFFICES ASSUME NEW j \in Photos, j # i PROVE PhotoOK(j)'
            OBVIOUS
        <3>1. Same(j)
            BY <1>0, <1>1, <1>3, <2>1, <2>2, ImageAssumption DEF Same
        <3> QED BY <3>1, SamePhoto
    <2>5. PhotoOK(i)'
        <3>1. PhotoOK(i) /\ Open(i)' = Open(i) /\ saving[i].pc # "none" /\ i \notin deleted \ early
            BY <1>0, <1>1 DEF Open, PhotoOK, Unknown, Away
        <3>2. Open(i) => i \in early'
            BY <1>3
        <3> QED BY <1>0, <1>1, <1>3, <2>1, <2>2, <3>1, <3>2, ImageAssumption
                DEF PhotoOK, Known, Available
    <2> QED BY <1>1, <2>3, <2>4, <2>5
<1> QED BY <1>0, <1>a, <1>2, <1>3 DEF SyncPuts, Early

LEMMA SyncEndsStep ==
    ASSUME ImageInv, SyncEnds
    PROVE  ImageInv'
<1> USE DEF ImageInv
<1>1. /\ UNCHANGED <<mode, local, remote, saving, deleting, expired, deleted, early>>
      /\ sync.on /\ sync' = NoSync
      /\ \/ index' = sync.items /\ unentered' = {i \in unentered : ~HasCopy(index', i)}
         \/ index' = index /\ unentered' = Unentered
    BY DEF SyncEnds
<1>2. /\ sync'.on = FALSE /\ sync'.todo = {} /\ sync'.at = Nobody /\ sync'.items = <<>>
      /\ sync' \in [on : BOOLEAN, todo : SUBSET Photos, at : Photos \cup {Nobody}, items : Entries]
    BY <1>1, NoEntries DEF NoSync
<1>3. ImageTypeOK' /\ SyncOwnsIndex'
    <2>1. unentered' \in SUBSET Photos /\ index' \in Entries
        BY <1>1 DEF ImageTypeOK, Unentered
    <2> QED BY <1>1, <1>2, <2>1 DEF ImageTypeOK, SyncOwnsIndex
<1>4. ASSUME NEW j \in Photos PROVE PhotoOK(j)'
    <2>1. /\ PhotoOK(j) /\ Open(j)' = Open(j) /\ ~HasCopy(sync'.items, j)
          /\ j \notin DOMAIN sync'.items
          /\ HasCopy(index, j) => HasCopy(index', j)
        BY <1>1, <1>2, NoEntries DEF Open, SyncOwnsIndex
    <2>2. /\ j \in DOMAIN index' => j \in DOMAIN index \cup DOMAIN sync.items
          /\ j \in unentered' => j \in unentered \/ HasCopy(sync.items, j)
          /\ (HasCopy(sync.items, j) \/ j \in unentered)
                 => HasCopy(index', j) \/ j \in unentered'
        BY <1>1 DEF Unentered
    <2>3. HasCopy(sync.items, j) => j \in DOMAIN sync.items
        BY DEF HasCopy
    <2> QED BY <1>1, <1>2, <2>1, <2>2, <2>3, ImageAssumption
            DEF PhotoOK, Unknown, Underway, Known, Available, Away
<1> QED BY <1>3, <1>4

\* A restart leaves files, copies and entries, and what a sync has not entered.
LEMMA RestartStep ==
    ASSUME ImageInv, RestartFiles
    PROVE  ImageInv'
<1> USE DEF ImageInv
<1>1. /\ UNCHANGED <<mode, local, remote, index, deleted, early>>
      /\ sync' = NoSync /\ unentered' = Unentered /\ deleting' = NotDeleting
      /\ expired' = IF deleting.hadFile THEN expired \cup {deleting.photo} ELSE expired
      /\ saving' = [i \in Photos |-> IF Open(i) THEN [saving[i] EXCEPT !.pc = "failed"]
                                               ELSE saving[i]]
    BY DEF RestartFiles
<1>2. /\ sync'.on = FALSE /\ sync'.todo = {} /\ sync'.at = Nobody /\ sync'.items = <<>>
      /\ sync' \in [on : BOOLEAN, todo : SUBSET Photos, at : Photos \cup {Nobody}, items : Entries]
      /\ deleting'.photo = Nobody /\ ~deleting'.hadFile
      /\ deleting' \in [photo : Photos \cup {Nobody}, hadFile : BOOLEAN]
    BY <1>1, NoEntries DEF NoSync, NotDeleting
<1>3. \A i \in Photos : /\ saving'[i] \in [pc : SavePlaces, mode : StorageModes]
                        /\ ~Open(i)'
                        /\ saving'[i].pc = (IF Open(i) THEN "failed" ELSE saving[i].pc)
    BY <1>1 DEF ImageTypeOK, SavePlaces, Open
<1>4. ImageTypeOK' /\ SyncOwnsIndex'
    <2>1. unentered' \in SUBSET Photos
        BY <1>1 DEF ImageTypeOK, Unentered
    <2>2. deleting.hadFile => deleting.photo \in Photos
        BY DEF ImageTypeOK
    <2>3. expired' \in SUBSET Photos
        BY <1>1, <2>2 DEF ImageTypeOK
    <2>4. saving' \in [Photos -> [pc : SavePlaces, mode : StorageModes]]
        BY <1>1, <1>3
    <2> QED BY <1>1, <1>2, <2>1, <2>3, <2>4 DEF ImageTypeOK, SyncOwnsIndex
<1>5. ASSUME NEW j \in Photos PROVE PhotoOK(j)'
    <2>1. /\ PhotoOK(j) /\ ~HasCopy(sync'.items, j) /\ j \notin DOMAIN sync'.items
          /\ j \in unentered' => j \in unentered \/ HasCopy(sync.items, j)
          /\ (HasCopy(sync.items, j) \/ j \in unentered)
                 => HasCopy(index, j) \/ j \in unentered'
        BY <1>1, <1>2, NoEntries DEF Unentered
    <2>2. /\ j \in expired => j \in expired'
          /\ (deleting.photo = j /\ deleting.hadFile) => j \in expired'
        BY <1>1
    <2>3. saving'[j].pc \in {"none", "saved"} => saving'[j].pc = saving[j].pc
        BY <1>3
    <2>4. HasCopy(sync.items, j) => j \in DOMAIN sync.items
        BY DEF HasCopy
    <2> QED BY <1>1, <1>2, <1>3, <2>1, <2>2, <2>3, <2>4, ImageAssumption
            DEF PhotoOK, Unknown, Known, Available, Away
<1> QED BY <1>4, <1>5

\* Files that are removed as old, and the setting.
LEMMA CleanUpStep ==
    ASSUME ImageInv, SetMode \/ \E old \in SUBSET Photos : CleanUp(old)
    PROVE  ImageInv'
<1> USE DEF ImageInv
<1>1. PICK old \in SUBSET Photos :
          /\ old \subseteq local /\ local' = local \ old /\ expired' = expired \cup old
          /\ mode' \in StorageModes
          /\ UNCHANGED <<remote, index, saving, sync, deleting, deleted, early, unentered>>
    <2>1. CASE SetMode
        <3>1. local \ {} = local /\ expired \cup {} = expired /\ {} \in SUBSET Photos
            OBVIOUS
        <3> QED BY <2>1, <3>1 DEF SetMode
    <2>2. CASE \E old \in SUBSET Photos : CleanUp(old)
        BY <2>2 DEF CleanUp, ImageTypeOK
    <2> QED BY <2>1, <2>2
<1>2. ImageTypeOK' /\ SyncOwnsIndex'
    BY <1>1 DEF ImageTypeOK, SyncOwnsIndex
<1>3. ASSUME NEW j \in Photos PROVE PhotoOK(j)'
    <2>1. PhotoOK(j) /\ Open(j)' = Open(j)
        BY <1>1 DEF Open
    <2> QED BY <1>1, <2>1 DEF PhotoOK, Unknown, Underway, Known, Available, Away
<1> QED BY <1>2, <1>3

LEMMA ImageStep ==
    ASSUME ImageInv, [ImageNext]_imageVars
    PROVE  ImageInv'
<1>1. CASE UNCHANGED imageVars
    <2>1. \A j \in Photos : Same(j)
        BY <1>1 DEF imageVars, Same
    <2>2. ImageTypeOK' /\ SyncOwnsIndex'
        BY <1>1 DEF imageVars, ImageInv, ImageTypeOK, SyncOwnsIndex
    <2> QED BY <2>1, <2>2, SamePhoto DEF ImageInv
<1> QED BY <1>1, SaveStep, IndexSavedStep, ListStep, DeleteFileStep, DeleteEntryStep,
           SyncBeginsStep, SyncReadsStep, SyncPutsStep, SyncEndsStep, CleanUpStep, RestartStep
        DEF ImageNext

LEMMA ImageInvHolds == ImageSpec => []ImageInv
BY ImageInitInv, ImageStep, PTL DEF ImageSpec

\* An image whose address was given out can be had until it is deleted or expires, and as
\* long as it has a known copy after that: the saves of image_storage_service, the listing,
\* the sync and the clean-up each write the index or remove files without the others, and
\* any of them may fail or be cut off.
THEOREM SavedIsServedHolds == ImageSpec => []SavedIsServed
<1>1. ImageInv => SavedIsServed
    BY DEF ImageInv, PhotoOK, Known, Available, SavedIsServed
<1> QED BY <1>1, ImageInvHolds, PTL

\* delete leaves neither file nor entry, and neither a sync that had the image before it
\* nor a listing brings it back.
THEOREM DeletedIsGoneHolds == ImageSpec => []DeletedIsGone
<1>1. ImageInv => DeletedIsGone
    BY DEF ImageInv, ImageTypeOK, PhotoOK, Away, DeletedIsGone, Served, HasCopy
<1> QED BY <1>1, ImageInvHolds, PTL

-----------------------------------------------------------------------------
(* The storage of accounts and keys: what was confirmed stays.             *)

StoredData == [accounts : Nat, keys : SUBSET ApiKeys]
SaverPlaces == {"idle", "saving", "writing", "adding", "checking", "committing", "pushing"}
KeyTasks    == {<<"use">>} \cup {UpdateOf(k, create) : k \in ApiKeys, create \in BOOLEAN}
SaverTasks  == {<<"none">>, <<"save">>} \cup KeyTasks

ValueFits(d, value) == IF d = "accounts" THEN value \in Nat ELSE value \in SUBSET ApiKeys

TaskFits(d, task)   == IF d = "accounts" THEN task = <<"save">> ELSE task \in KeyTasks

SaverRecords == [pc : SaverPlaces, value : Nat \cup SUBSET ApiKeys, task : SaverTasks,
                 seen : StoredData]

DataTypeOK ==
    /\ backend \in {"json", "database", "git"}
    /\ files \in StoredData /\ confirmed \in StoredData
    /\ staged \in StoredData /\ head \in StoredData /\ branch \in StoredData
    /\ memory \in SUBSET ApiKeys /\ refused \in SUBSET ApiKeys

SaverTypeOK ==
    /\ saver \in [Documents -> SaverRecords]
    /\ \A d \in Documents : saver[d].pc # "idle" =>
           ValueFits(d, saver[d].value) /\ TaskFits(d, saver[d].task)

StoreTypeOK == DataTypeOK /\ SaverTypeOK

\* What a caller was told is not, or no longer, promised.
Excused ==
    \/ backend = "json" /\ Suffered("torn")
    \/ backend = "git" /\ {"network", "torn", "overlap"} \cap faults.kinds # {}
    \/ backend = "database" /\ Suffered("unread")

\* A file that was opened to be written is empty; all others hold what was promised, and
\* the memory does.
Emptied(d) == backend = "json" /\ saver[d].pc = "writing"

AccountsKept ==
    /\ Emptied("accounts") \/ files.accounts >= confirmed.accounts
    /\ saver["accounts"].pc # "idle" =>
           saver["accounts"].value >= confirmed.accounts

KeysKept ==
    /\ confirmed.keys \subseteq memory /\ refused \cap memory = {}
    /\ Emptied("keys") \/ (confirmed.keys \subseteq files.keys /\ refused \cap files.keys = {})
    /\ saver["keys"].pc # "idle" =>
           /\ saver["keys"].value = memory
           /\ \/ saver["keys"].task = <<"use">>
              \/ \E k \in memory : saver["keys"].task = UpdateOf(k, TRUE)
              \/ \E k \in ApiKeys \ (memory \cup confirmed.keys) :
                     saver["keys"].task = UpdateOf(k, FALSE)

\* With Git, what was written is added, committed and pushed by one of the two who write,
\* though not always by the one who wrote it; what one has read of the index lacks at most
\* what the other has added since and will commit.
ReadOfIndex(d) ==
    LET e == Other(d) IN
    /\ saver[d].pc = "adding" => saver[d].seen = staged
    /\ saver[d].pc = "committing" =>
           /\ saver[d].seen[d] = staged[d]
           /\ \/ saver[d].seen[e] = staged[e]
              \/ saver[e].pc \in {"checking", "committing"} /\ saver[d].seen[e] = head[e]

GitPlaces == {"adding", "checking", "committing", "pushing"}

WrittenIsPushed ==
    /\ \A d \in Documents : saver[d].pc \in GitPlaces =>
           backend = "git" /\ files[d] = saver[d].value
    /\ backend = "git" =>
           /\ cloned
           /\ branch = head \/ \E d \in Documents : saver[d].pc = "pushing"
           /\ \A d \in Documents :
                 /\ files[d] = staged[d] \/ saver[d].pc = "adding"
                 /\ staged[d] = head[d] \/ saver[d].pc \in {"checking", "committing"}
                 /\ ReadOfIndex(d)

PromiseKept == AccountsKept /\ KeysKept /\ WrittenIsPushed
StoreInv    == StoreTypeOK /\ (~Excused => PromiseKept)

LEMMA StoreInitInv == StoreInit => StoreInv
<1> SUFFICES ASSUME StoreInit PROVE StoreInv
    OBVIOUS
<1>1. Repo \in StoredData /\ Repo.accounts = 0 /\ Repo.keys = {}
    BY DEF Repo, StoredData
<1>2. Rest \in SaverRecords
    BY <1>1 DEF Rest, SaverRecords, SaverPlaces, SaverTasks
<1>3. \A d \in Documents : saver[d].pc = "idle"
    BY DEF StoreInit, Rest
<1>4. StoreTypeOK
    BY <1>1, <1>2, <1>3, KeyStoreAssumption
       DEF StoreInit, StoreTypeOK, DataTypeOK, SaverTypeOK
<1>a. saver["accounts"].pc = "idle" /\ saver["keys"].pc = "idle"
    BY <1>3 DEF Documents
<1>5. AccountsKept /\ KeysKept
    <2>1. /\ files.accounts = 0 /\ confirmed.accounts = 0 /\ confirmed.keys = {}
          /\ refused = {}
        BY <1>1 DEF StoreInit
    <2>2. AccountsKept
        BY <1>a, <2>1 DEF AccountsKept
    <2>3. KeysKept
        BY <1>a, <2>1 DEF KeysKept
    <2> QED BY <2>2, <2>3
<1>6. WrittenIsPushed
    BY <1>3 DEF StoreInit, WrittenIsPushed, ReadOfIndex, GitPlaces
<1> QED BY <1>4, <1>5, <1>6 DEF StoreInv, PromiseKept

-----------------------------------------------------------------------------
(* What went wrong is not forgotten.                                       *)

LEMMA FaultSuffered ==
    ASSUME NEW kind, Fault(kind)
    PROVE  Suffered(kind)' /\ \A k : Suffered(k) => Suffered(k)'
BY DEF Fault, Suffered

LEMMA FaultsGrow ==
    ASSUME [StoreNext]_storeVars
    PROVE  backend' = backend /\ (Excused => Excused')
<1>1. backend' = backend /\ (UNCHANGED faults \/ \E kind : Fault(kind))
    <2>1. CASE UNCHANGED storeVars
        BY <2>1 DEF storeVars
    <2>2. CASE \/ \E k \in ApiKeys, create \in BOOLEAN : ChangeKeys(k, create)
               \/ ListKeys \/ Authenticate \/ SaveAccounts \/ CrashStore
        BY <2>2 DEF ChangeKeys, ListKeys, Authenticate, SaveAccounts, CrashStore, LoadedKeys,
           Fetched, FetchFails
    <2>3. CASE \E d \in Documents : SaveRows(d) \/ SaveRaises(d) \/ OpenFile(d) \/ WriteFile(d)
        BY <2>3 DEF SaveRows, SaveRaises, OpenFile, WriteFile, Raises, FetchFails, Unwritten,
           Locked, Beside
    <2>4. CASE \E d \in Documents : Pull(d) \/ WriteTree(d) \/ Stage(d) \/ IsDirty(d)
                                      \/ Commit(d) \/ Push(d)
        BY <2>4 DEF Pull, WriteTree, Stage, IsDirty, Commit, Push, Fetched, Beside
    <2> QED BY <2>1, <2>2, <2>3, <2>4 DEF StoreNext
<1>2. \A k : Suffered(k) => Suffered(k)'
    BY <1>1, FaultSuffered DEF Suffered
<1> QED BY <1>1, <1>2 DEF Excused, Suffered

\* As long as nobody is excused, fetching changes nothing, and the keys that are loaded are
\* those that were saved.
LEMMA FetchedQuiet ==
    ASSUME StoreInv, ~Excused, ~Excused', backend' = backend, Fetched
    PROVE  UNCHANGED <<files, staged, head, cloned>>
<1>1. backend = "git" => cloned /\ ~Suffered("network")' /\ ~Suffered("overlap")
    BY DEF StoreInv, PromiseKept, WrittenIsPushed, Excused, Suffered
<1> QED BY <1>1, FaultSuffered DEF Fetched

LEMMA FailedIsExcused ==
    ASSUME ~Excused', backend' = backend
    PROVE  ~FetchFails
BY FaultSuffered DEF FetchFails, Excused, Suffered

LEMMA LoadedQuiet ==
    ASSUME StoreInv, ~Excused, ~Excused', backend' = backend,
           NEW keys, LoadedKeys(keys)
    PROVE  keys = files.keys /\ UNCHANGED <<files, staged, head, cloned>>
BY FetchedQuiet, FailedIsExcused DEF LoadedKeys

-----------------------------------------------------------------------------
(* Types.                                                                  *)

LEMMA WriteTyped ==
    ASSUME NEW r \in StoredData, NEW d \in Documents, NEW v,
           ValueFits(d, v)
    PROVE  /\ [r EXCEPT ![d] = v] \in StoredData
           /\ d = "accounts" => /\ [r EXCEPT ![d] = v].accounts = v
                                /\ [r EXCEPT ![d] = v].keys = r.keys
           /\ d = "keys" => /\ [r EXCEPT ![d] = v].keys = v
                            /\ [r EXCEPT ![d] = v].accounts = r.accounts
BY DEF StoredData, Documents, ValueFits

\* A step of one saver: it alone goes on.
MovesAlone(d) ==
    /\ saver' \in [Documents -> SaverRecords]
    /\ \A e \in Documents : e # d => saver'[e] = saver[e]

LEMMA RepoTyped == Repo \in StoredData
BY DEF Repo, StoredData

LEMMA AskedMoves ==
    ASSUME StoreTypeOK, NEW d \in Documents, NEW pc \in SaverPlaces, NEW value,
           ValueFits(d, value), NEW task \in SaverTasks, Asked(d, pc, value, task)
    PROVE  /\ MovesAlone(d)
           /\ saver'[d].pc = pc /\ saver'[d].value = value /\ saver'[d].task = task
<1> DEFINE r == [pc |-> pc, value |-> value, task |-> task, seen |-> Repo]
<1>1. value \in Nat \cup SUBSET ApiKeys
    BY DEF ValueFits
<1>2. r \in SaverRecords /\ r.pc = pc /\ r.value = value /\ r.task = task
    BY <1>1, RepoTyped DEF SaverRecords
<1>3. saver' = [saver EXCEPT ![d] = r]
    BY DEF Asked
<1> HIDE DEF r
<1> QED BY <1>2, <1>3 DEF StoreTypeOK, SaverTypeOK, SaverRecords, MovesAlone

LEMMA ContinuesMoves ==
    ASSUME StoreTypeOK, NEW d \in Documents, NEW pc \in SaverPlaces,
           NEW seen \in StoredData, Continues(d, pc, seen)
    PROVE  /\ MovesAlone(d)
           /\ saver'[d].pc = pc /\ saver'[d].value = saver[d].value
           /\ saver'[d].task = saver[d].task /\ saver'[d].seen = seen
BY DEF StoreTypeOK, SaverTypeOK, Continues, SaverRecords, MovesAlone

LEMMA RestMoves ==
    ASSUME StoreTypeOK, NEW d \in Documents, saver' = [saver EXCEPT ![d] = Rest]
    PROVE  MovesAlone(d) /\ saver'[d].pc = "idle"
<1>1. Rest \in SaverRecords /\ Rest.pc = "idle"
    BY RepoTyped DEF Rest, SaverRecords, SaverPlaces, SaverTasks
<1> HIDE DEF Rest
<1> QED BY <1>1 DEF StoreTypeOK, SaverTypeOK, SaverRecords, MovesAlone

\* What the caller is told follows from the task.
LEMMA ToldTyped ==
    ASSUME StoreTypeOK, NEW d \in Documents, saver[d].pc # "idle", Told(d)
    PROVE  confirmed' \in StoredData /\ refused' \in SUBSET ApiKeys
<1>1. ValueFits(d, saver[d].value) /\ TaskFits(d, saver[d].task)
    BY DEF StoreTypeOK, SaverTypeOK
<1>2. CASE d = "accounts"
    <2>1. saver[d].task[1] = "save" /\ saver[d].value \in Nat
        BY <1>1, <1>2 DEF TaskFits, ValueFits
    <2>2. confirmed' = [confirmed EXCEPT !.accounts = saver[d].value] /\ refused' = refused
        BY <2>1 DEF Told
    <2> QED BY <2>1, <2>2 DEF StoreTypeOK, DataTypeOK, StoredData
<1>3. CASE d # "accounts"
    <2>1. CASE saver[d].task = <<"use">>
        <3>1. confirmed' = confirmed /\ refused' = refused
            BY <2>1 DEF Told
        <3> QED BY <3>1 DEF StoreTypeOK, DataTypeOK
    <2>2. ASSUME NEW k \in ApiKeys, NEW create \in BOOLEAN, saver[d].task = UpdateOf(k, create)
          PROVE  confirmed' \in StoredData /\ refused' \in SUBSET ApiKeys
        <3>1. CASE create
            <4>1. saver[d].task[1] = "create" /\ saver[d].task[2] = k
                BY <2>2, <3>1 DEF UpdateOf
            <4>2. confirmed' = [confirmed EXCEPT !.keys = @ \cup {k}] /\ refused' = refused
                BY <4>1 DEF Told
            <4> QED BY <4>2 DEF StoreTypeOK, DataTypeOK, StoredData
        <3>2. CASE ~create
            <4>1. saver[d].task[1] = "delete" /\ saver[d].task[2] = k
                BY <2>2, <3>2 DEF UpdateOf
            <4>2. confirmed' = confirmed /\ refused' = refused \cup {k}
                BY <4>1 DEF Told
            <4> QED BY <4>2 DEF StoreTypeOK, DataTypeOK, StoredData
        <3> QED BY <3>1, <3>2
    <2> QED BY <1>1, <1>3, <2>1, <2>2 DEF TaskFits, KeyTasks
<1> QED BY <1>2, <1>3

LEMMA SaverTyped ==
    ASSUME StoreTypeOK, NEW d \in Documents, MovesAlone(d),
           saver'[d].pc # "idle" => ValueFits(d, saver'[d].value) /\ TaskFits(d, saver'[d].task)
    PROVE  SaverTypeOK'
BY DEF StoreTypeOK, SaverTypeOK, MovesAlone

LEMMA ContinuesTyped ==
    ASSUME StoreTypeOK, NEW d \in Documents, NEW pc \in SaverPlaces,
           NEW seen \in StoredData, Continues(d, pc, seen), saver[d].pc # "idle"
    PROVE  SaverTypeOK'
BY ContinuesMoves, SaverTyped DEF StoreTypeOK, SaverTypeOK

LEMMA FetchTyped ==
    ASSUME StoreTypeOK, Fetched \/ FetchFails
    PROVE  files' \in StoredData /\ staged' \in StoredData /\ head' \in StoredData
<1> QED BY RepoTyped DEF Fetched, FetchFails, StoreTypeOK, DataTypeOK

LEMMA RequestsTyped ==
    ASSUME StoreTypeOK, [StoreNext]_storeVars,
           \/ \E k \in ApiKeys, create \in BOOLEAN : ChangeKeys(k, create)
           \/ ListKeys \/ Authenticate \/ SaveAccounts \/ CrashStore
    PROVE  StoreTypeOK'
<1>0. backend' = backend /\ "keys" \in Documents /\ "accounts" \in Documents
          /\ "saving" \in SaverPlaces
    BY FaultsGrow DEF Documents, SaverPlaces
<1>1. ASSUME NEW k \in ApiKeys, NEW create \in BOOLEAN, ChangeKeys(k, create)
      PROVE  StoreTypeOK'
    <2>1. memory' \in SUBSET ApiKeys /\ (Fetched \/ FetchFails)
        BY <1>1 DEF ChangeKeys, LoadedKeys
    <2>2. Asked("keys", "saving", memory', UpdateOf(k, create))
        BY <1>1 DEF ChangeKeys
    <2>3. ValueFits("keys", memory') /\ TaskFits("keys", UpdateOf(k, create))
              /\ UpdateOf(k, create) \in SaverTasks
        BY <2>1 DEF ValueFits, TaskFits, KeyTasks, SaverTasks
    <2>4. SaverTypeOK'
        BY <1>0, <2>2, <2>3, AskedMoves, SaverTyped
    <2>5. confirmed' \in StoredData /\ UNCHANGED <<branch, refused>>
        BY <1>1 DEF ChangeKeys, StoreTypeOK, DataTypeOK, StoredData
    <2> QED BY <1>0, <2>1, <2>4, <2>5, FetchTyped DEF StoreTypeOK, DataTypeOK
<1>2. CASE ListKeys
    <2>1. memory' \in SUBSET ApiKeys /\ (Fetched \/ FetchFails)
        BY <1>2 DEF ListKeys, LoadedKeys
    <2> QED BY <1>0, <1>2, <2>1, FetchTyped DEF ListKeys, StoreTypeOK, DataTypeOK, SaverTypeOK
<1>3. CASE Authenticate
    <2>1. Asked("keys", "saving", memory, <<"use">>)
        BY <1>3 DEF Authenticate
    <2>2. ValueFits("keys", memory) /\ TaskFits("keys", <<"use">>) /\ <<"use">> \in SaverTasks
        BY DEF ValueFits, TaskFits, KeyTasks, SaverTasks, StoreTypeOK, DataTypeOK
    <2>3. SaverTypeOK'
        BY <1>0, <2>1, <2>2, AskedMoves, SaverTyped
    <2> QED BY <1>3, <2>3 DEF Authenticate, StoreTypeOK, DataTypeOK
<1>4. CASE SaveAccounts
    <2> DEFINE v == confirmed.accounts + 1
    <2>1. Asked("accounts", "saving", v, <<"save">>) /\ v \in Nat
        BY <1>4 DEF SaveAccounts, StoreTypeOK, DataTypeOK, StoredData
    <2>2. ValueFits("accounts", v) /\ TaskFits("accounts", <<"save">>)
              /\ <<"save">> \in SaverTasks
        BY <2>1 DEF ValueFits, TaskFits, SaverTasks
    <2> HIDE DEF v
    <2>3. SaverTypeOK'
        BY <1>0, <2>1, <2>2, AskedMoves, SaverTyped
    <2> QED BY <1>4, <2>3 DEF SaveAccounts, StoreTypeOK, DataTypeOK
<1>5. CASE CrashStore
    <2>1. Rest \in SaverRecords /\ Rest.pc = "idle"
        BY RepoTyped DEF Rest, SaverRecords, SaverPlaces, SaverTasks
    <2>2. SaverTypeOK'
        BY <1>5, <2>1 DEF CrashStore, SaverTypeOK
    <2> QED BY <1>5, <2>2 DEF CrashStore, StoreTypeOK, DataTypeOK, StoredData
<1> QED BY <1>1, <1>2, <1>3, <1>4, <1>5

LEMMA SavesTyped ==
    ASSUME StoreTypeOK, [StoreNext]_storeVars, NEW d \in Documents,
           \/ SaveRows(d) \/ SaveRaises(d) \/ OpenFile(d) \/ WriteFile(d)
           \/ Pull(d) \/ WriteTree(d) \/ Stage(d) \/ IsDirty(d) \/ Commit(d) \/ Push(d)
    PROVE  StoreTypeOK'
<1> DEFINE Saves == SaveRows(d) \/ SaveRaises(d) \/ OpenFile(d) \/ WriteFile(d)
           Gits  == Pull(d) \/ WriteTree(d) \/ Stage(d) \/ IsDirty(d) \/ Commit(d) \/ Push(d)
<1>0. /\ backend' = backend /\ memory' = memory /\ saver[d].pc # "idle"
      /\ Told(d) \/ UNCHANGED <<confirmed, refused>>
    <2>1. CASE Saves
        BY <2>1, FaultsGrow DEF SaveRows, SaveRaises, OpenFile, WriteFile, Raises, Unwritten, Locked
    <2>2. CASE Gits
        BY <2>2, FaultsGrow DEF Pull, WriteTree, Stage, IsDirty, Commit, Push
    <2> QED BY <2>1, <2>2
<1>1. /\ ValueFits(d, saver[d].value) /\ ValueFits(d, Empty(d)) /\ saver[d].seen \in StoredData
      /\ files \in StoredData /\ staged \in StoredData
      /\ head \in StoredData /\ branch \in StoredData
    BY <1>0 DEF StoreTypeOK, DataTypeOK, SaverTypeOK, SaverRecords, ValueFits, Empty
<1>2. SaverTypeOK'
    <2>1. \/ Told(d) \/ saver' = [saver EXCEPT ![d] = Rest]
          \/ \E pc \in SaverPlaces \ {"idle"}, seen \in StoredData : Continues(d, pc, seen)
        <3>1. CASE Saves
            BY <3>1, RepoTyped DEF SaveRows, SaveRaises, OpenFile, WriteFile, SaverPlaces
        <3>2. CASE Gits
            BY <1>1, <3>2, RepoTyped DEF Pull, WriteTree, Stage, IsDirty, Commit, Push, SaverPlaces
        <3> QED BY <3>1, <3>2
    <2>2. Told(d) => saver' = [saver EXCEPT ![d] = Rest]
        BY DEF Told
    <2>3. CASE saver' = [saver EXCEPT ![d] = Rest]
        BY <2>3, RestMoves, SaverTyped
    <2>4. CASE \E pc \in SaverPlaces \ {"idle"}, seen \in StoredData : Continues(d, pc, seen)
        BY <1>0, <2>4, ContinuesTyped
    <2> QED BY <2>1, <2>2, <2>3, <2>4
<1>3. confirmed' \in StoredData /\ refused' \in SUBSET ApiKeys
    BY <1>0, ToldTyped DEF StoreTypeOK, DataTypeOK
<1>4. /\ files' \in StoredData /\ staged' \in StoredData
      /\ head' \in StoredData /\ branch' \in StoredData
    <2>1. CASE Pull(d)
        BY <1>1, <2>1, FetchTyped DEF Pull
    <2>2. CASE SaveRaises(d)
        <3>1. \/ FetchFails \/ UNCHANGED <<files, staged, head>>
              \/ files' = [files EXCEPT ![d] = Empty(d)] /\ UNCHANGED <<staged, head>>
            BY <2>2 DEF SaveRaises, Raises, Unwritten, Locked
        <3> QED BY <1>1, <2>2, <3>1, FetchTyped, WriteTyped DEF SaveRaises
    <2>3. CASE SaveRows(d) \/ OpenFile(d) \/ WriteFile(d) \/ WriteTree(d)
        BY <1>1, <2>3, WriteTyped DEF SaveRows, OpenFile, WriteFile, WriteTree
    <2>4. CASE Stage(d)
        <3>1. ValueFits(d, files[d])
            BY <1>1 DEF ValueFits, StoredData, Documents
        <3> QED BY <1>1, <2>4, <3>1, WriteTyped DEF Stage
    <2>5. CASE IsDirty(d) \/ Commit(d) \/ Push(d)
        BY <1>1, <2>5 DEF IsDirty, Commit, Push
    <2> QED BY <2>1, <2>2, <2>3, <2>4, <2>5
<1> QED BY <1>0, <1>2, <1>3, <1>4 DEF StoreTypeOK, DataTypeOK

-----------------------------------------------------------------------------
(* The promise.                                                            *)

\* A step in a run in which nobody is excused so far.
Binding == StoreInv /\ StoreTypeOK' /\ ~Excused /\ ~Excused' /\ backend' = backend

LEMMA BindingGives ==
    ASSUME Binding
    PROVE  /\ StoreTypeOK /\ AccountsKept /\ KeysKept /\ WrittenIsPushed
           /\ "keys" \in Documents /\ "accounts" \in Documents
           /\ \A d \in Documents : d = "keys" \/ d = "accounts"
           /\ \A d \in Documents : ~Emptied(d) \/ saver[d].pc # "idle"
BY DEF Binding, StoreInv, PromiseKept, Documents, Emptied

\* A step before the add of a save, or of a backend that is not Git.
LEMMA NothingAdded ==
    ASSUME Binding, NEW d \in Documents, MovesAlone(d),
           UNCHANGED <<backend, staged, head, branch, cloned>>,
           files' = files \/ backend # "git",
           saver[d].pc \notin GitPlaces, saver'[d].pc \notin GitPlaces
    PROVE  WrittenIsPushed'
<1> USE BindingGives
<1>1. CASE backend # "git"
    BY <1>1 DEF WrittenIsPushed, MovesAlone
<1>2. CASE backend = "git"
    <2>1. \A x \in Documents : saver'[x].pc \in GitPlaces => saver'[x] = saver[x]
        BY DEF MovesAlone
    <2>2. \A x \in Documents : saver[x].pc \in GitPlaces => saver'[x] = saver[x]
        BY DEF MovesAlone
    <2>3. branch = head \/ \E x \in Documents : saver[x].pc = "pushing" /\ saver'[x] = saver[x]
        BY <1>2, <2>2 DEF WrittenIsPushed, GitPlaces
    <2>4. ASSUME NEW x \in Documents
          PROVE  /\ files[x] = staged[x] \/ saver'[x].pc = "adding"
                 /\ staged[x] = head[x] \/ saver'[x].pc \in {"checking", "committing"}
                 /\ ReadOfIndex(x)'
        <3>1. Other(x) \in Documents
            BY DEF Other
        <3>2. ReadOfIndex(x)
            BY <1>2 DEF WrittenIsPushed
        <3> QED BY <1>2, <2>1, <2>2, <3>1, <3>2 DEF WrittenIsPushed, ReadOfIndex, GitPlaces
    <2> QED BY <1>2, <2>1, <2>3, <2>4 DEF WrittenIsPushed
<1> QED BY <1>1, <1>2

\* An operation on the keys is asked for.
LEMMA ChangeKept ==
    ASSUME Binding, NEW k \in ApiKeys, NEW create \in BOOLEAN, ChangeKeys(k, create)
    PROVE  PromiseKept'
<1> USE BindingGives
<1>1. PICK keys \in SUBSET ApiKeys :
          LoadedKeys(keys) /\ memory' = IF create THEN keys \cup {k} ELSE keys \ {k}
    BY DEF ChangeKeys
<1>2. /\ keys = files.keys /\ UNCHANGED <<files, staged, head, cloned, branch, refused>>
      /\ backend' = backend
    BY <1>1, LoadedQuiet DEF ChangeKeys, Binding
<1>3. /\ Asked("keys", "saving", memory', UpdateOf(k, create))
      /\ confirmed' = [confirmed EXCEPT !.keys = @ \ {k}] /\ k \notin refused
      /\ saver["keys"].pc = "idle"
    BY DEF ChangeKeys
<1>4. /\ MovesAlone("keys") /\ saver'["keys"].pc = "saving" /\ saver'["keys"].value = memory'
      /\ saver'["keys"].task = UpdateOf(k, create)
    <2>1. ValueFits("keys", memory') /\ UpdateOf(k, create) \in SaverTasks /\ "saving" \in SaverPlaces
        BY DEF Binding, StoreTypeOK, DataTypeOK, ValueFits, SaverTasks, KeyTasks, SaverPlaces
    <2> QED BY <1>3, <2>1, AskedMoves
<1>5. /\ confirmed'.keys = confirmed.keys \ {k} /\ confirmed'.accounts = confirmed.accounts
      /\ confirmed.keys \subseteq files.keys /\ refused \cap files.keys = {}
    BY <1>3 DEF StoreTypeOK, DataTypeOK, StoredData, KeysKept, Emptied
<1>6. AccountsKept'
    BY <1>2, <1>4, <1>5 DEF AccountsKept, MovesAlone, Emptied
<1>7. KeysKept'
    <2>1. \/ \E j \in memory' : saver'["keys"].task = UpdateOf(j, TRUE)
          \/ \E j \in ApiKeys \ (memory' \cup confirmed'.keys) :
                 saver'["keys"].task = UpdateOf(j, FALSE)
        BY <1>1, <1>4, <1>5
    <2>2. confirmed'.keys \subseteq memory' /\ refused' \cap memory' = {}
        <3>1. CASE create
            BY <1>1, <1>2, <1>3, <1>5, <3>1
        <3>2. CASE ~create
            BY <1>1, <1>2, <1>3, <1>5, <3>2
        <3> QED BY <3>1, <3>2
    <2>3. confirmed'.keys \subseteq files'.keys /\ refused' \cap files'.keys = {}
        BY <1>2, <1>5
    <2> QED BY <1>4, <2>1, <2>2, <2>3 DEF KeysKept
<1>8. WrittenIsPushed'
    BY <1>2, <1>3, <1>4, NothingAdded DEF GitPlaces
<1> QED BY <1>6, <1>7, <1>8 DEF PromiseKept

LEMMA ListKept ==
    ASSUME Binding, ListKeys
    PROVE  PromiseKept'
<1> USE BindingGives
<1>1. PICK keys \in SUBSET ApiKeys : LoadedKeys(keys) /\ memory' = keys
    BY DEF ListKeys
<1>2. /\ memory' = files.keys /\ UNCHANGED <<files, staged, head, cloned, branch, saver, confirmed, refused>>
      /\ backend' = backend /\ saver["keys"].pc = "idle"
    BY <1>1, LoadedQuiet DEF ListKeys, Binding
<1> QED BY <1>2 DEF PromiseKept, AccountsKept, KeysKept, WrittenIsPushed, ReadOfIndex, Emptied

LEMMA AskKept ==
    ASSUME Binding, Authenticate \/ SaveAccounts
    PROVE  PromiseKept'
<1> USE BindingGives
<1>1. /\ UNCHANGED <<backend, files, staged, head, branch, cloned, memory, confirmed, refused>>
      /\ confirmed.accounts \in Nat
    BY DEF Authenticate, SaveAccounts, StoreTypeOK, DataTypeOK, StoredData
<1>2. "saving" \in SaverPlaces /\ <<"use">> \in SaverTasks /\ <<"save">> \in SaverTasks
    BY DEF SaverPlaces, SaverTasks, KeyTasks
<1>3. CASE Authenticate
    <2>1. /\ MovesAlone("keys") /\ saver'["keys"].pc = "saving"
          /\ saver'["keys"].value = memory /\ saver'["keys"].task = <<"use">>
          /\ saver["keys"].pc = "idle"
        BY <1>2, <1>3, AskedMoves DEF Authenticate, ValueFits, StoreTypeOK, DataTypeOK
    <2>2. saver'["accounts"] = saver["accounts"]
        BY <2>1 DEF MovesAlone, Documents
    <2>3. AccountsKept'
        BY <1>1, <2>2 DEF AccountsKept, Emptied
    <2>4. KeysKept'
        BY <1>1, <2>1 DEF KeysKept, Emptied
    <2>5. WrittenIsPushed'
        BY <1>1, <2>1, NothingAdded DEF GitPlaces
    <2> QED BY <2>3, <2>4, <2>5 DEF PromiseKept
<1>4. CASE SaveAccounts
    <2>1. /\ MovesAlone("accounts") /\ saver'["accounts"].pc = "saving"
          /\ saver'["accounts"].value = confirmed.accounts + 1
          /\ saver["accounts"].pc = "idle"
        <3>1. ValueFits("accounts", confirmed.accounts + 1)
            BY <1>1 DEF ValueFits
        <3> QED BY <1>2, <1>4, <3>1, AskedMoves DEF SaveAccounts
    <2>2. AccountsKept'
        BY <1>1, <2>1 DEF AccountsKept, Emptied
    <2>3. saver'["keys"] = saver["keys"]
        BY <2>1 DEF MovesAlone, Documents
    <2>4. KeysKept'
        BY <1>1, <2>3 DEF KeysKept, Emptied
    <2>5. WrittenIsPushed'
        BY <1>1, <2>1, NothingAdded DEF GitPlaces
    <2> QED BY <2>2, <2>4, <2>5 DEF PromiseKept
<1> QED BY <1>3, <1>4

\* A crash that finds a save under way leaves the promise to the database.
LEMMA CrashKept ==
    ASSUME Binding, CrashStore
    PROVE  PromiseKept'
<1> USE BindingGives
<1>1. /\ memory' = files.keys /\ saver' = [d \in Documents |-> Rest]
      /\ UNCHANGED <<backend, files, staged, head, branch, cloned, confirmed, refused>>
    BY DEF CrashStore
<1>2. \A d \in Documents : saver'[d].pc = "idle"
    BY <1>1 DEF Rest
<1>3. backend = "database" \/ \A d \in Documents : saver[d].pc = "idle"
    <2>1. CASE \E d \in Documents : saver[d].pc # "idle"
        <3>1. Fault("torn")
            BY <2>1 DEF CrashStore
        <3> QED BY <3>1, FaultSuffered DEF Binding, Excused, Suffered, StoreTypeOK, DataTypeOK
    <2> QED BY <2>1
<1>4. /\ files.accounts >= confirmed.accounts
      /\ confirmed.keys \subseteq files.keys /\ refused \cap files.keys = {}
    BY <1>3 DEF AccountsKept, KeysKept, Emptied
<1>5. /\ backend = "git" => cloned /\ branch = head
      /\ backend = "git" => \A d \in Documents : files[d] = staged[d] /\ staged[d] = head[d]
    BY <1>3 DEF WrittenIsPushed
<1>6. AccountsKept' /\ KeysKept'
    BY <1>1, <1>2, <1>4 DEF AccountsKept, KeysKept
<1>7. WrittenIsPushed'
    BY <1>1, <1>2, <1>5 DEF WrittenIsPushed, ReadOfIndex, GitPlaces
<1> QED BY <1>6, <1>7 DEF PromiseKept

\* What a caller is told is what his save has written.
LEMMA ToldKept ==
    ASSUME Binding, NEW d \in Documents, saver[d].pc # "idle", Told(d), memory' = memory
    PROVE  /\ MovesAlone(d) /\ saver'[d].pc = "idle"
           /\ d = "accounts" => /\ confirmed'.accounts = saver[d].value
                                /\ confirmed'.keys = confirmed.keys /\ refused' = refused
           /\ d = "keys" => /\ confirmed'.accounts = confirmed.accounts
                            /\ confirmed'.keys \subseteq memory /\ refused' \cap memory = {}
<1> USE BindingGives
<1>1. MovesAlone(d) /\ saver'[d].pc = "idle"
    BY RestMoves DEF Told
<1>2. ASSUME d = "accounts"
      PROVE  /\ confirmed'.accounts = saver[d].value
             /\ confirmed'.keys = confirmed.keys /\ refused' = refused
    <2>1. saver[d].task[1] = "save"
        BY <1>2 DEF StoreTypeOK, SaverTypeOK, TaskFits
    <2>2. confirmed' = [confirmed EXCEPT !.accounts = saver[d].value] /\ refused' = refused
        BY <2>1 DEF Told
    <2> QED BY <2>2 DEF StoreTypeOK, DataTypeOK, StoredData
<1>3. ASSUME d = "keys"
      PROVE  /\ confirmed'.accounts = confirmed.accounts
             /\ confirmed'.keys \subseteq memory /\ refused' \cap memory = {}
    <2>1. confirmed.keys \subseteq memory /\ refused \cap memory = {}
        BY DEF KeysKept
    <2>2. CASE saver[d].task = <<"use">>
        <3>1. confirmed' = confirmed /\ refused' = refused
            BY <2>2 DEF Told
        <3> QED BY <2>1, <3>1
    <2>3. ASSUME NEW k \in memory, saver[d].task = UpdateOf(k, TRUE)
          PROVE  /\ confirmed'.accounts = confirmed.accounts
                 /\ confirmed'.keys \subseteq memory /\ refused' \cap memory = {}
        <3>1. saver[d].task[1] = "create" /\ saver[d].task[2] = k
            BY <2>3 DEF UpdateOf
        <3>2. confirmed' = [confirmed EXCEPT !.keys = @ \cup {k}] /\ refused' = refused
            BY <3>1 DEF Told
        <3> QED BY <2>1, <3>2 DEF StoreTypeOK, DataTypeOK, StoredData
    <2>4. ASSUME NEW k \in ApiKeys \ (memory \cup confirmed.keys),
                 saver[d].task = UpdateOf(k, FALSE)
          PROVE  /\ confirmed'.accounts = confirmed.accounts
                 /\ confirmed'.keys \subseteq memory /\ refused' \cap memory = {}
        <3>1. saver[d].task[1] = "delete" /\ saver[d].task[2] = k
            BY <2>4 DEF UpdateOf
        <3>2. confirmed' = confirmed /\ refused' = refused \cup {k}
            BY <3>1 DEF Told
        <3> QED BY <2>1, <2>4, <3>2
    <2> QED BY <1>3, <2>2, <2>3, <2>4 DEF KeysKept
<1> QED BY <1>1, <1>2, <1>3

\* A whole value is written, and nobody is told yet or the writer is.
LEMMA WrittenKept ==
    ASSUME Binding, NEW d \in Documents, SaveRows(d) \/ WriteFile(d) \/ WriteTree(d)
    PROVE  PromiseKept'
<1> USE BindingGives
<1>1. /\ files' = [files EXCEPT ![d] = saver[d].value] /\ saver[d].pc # "idle"
      /\ UNCHANGED <<backend, staged, head, branch, cloned, memory>>
      /\ backend = "git" => saver[d].pc = "writing"
    BY DEF SaveRows, WriteFile, WriteTree
<1>2. /\ d = "accounts" => files'.accounts = saver[d].value /\ files'.keys = files.keys
      /\ d = "keys" => files'.keys = saver[d].value /\ files'.accounts = files.accounts
      /\ files'[d] = saver[d].value /\ \A e \in Documents : e # d => files'[e] = files[e]
    <2>1. ValueFits(d, saver[d].value) /\ files \in StoredData
        BY <1>1 DEF StoreTypeOK, DataTypeOK, SaverTypeOK
    <2>2. files'[d] = saver[d].value /\ \A e \in Documents : e # d => files'[e] = files[e]
        BY <1>1, <2>1 DEF StoredData, Documents
    <2> QED BY <1>1, <2>1, <2>2, WriteTyped
<1>3. CASE Told(d)
    <2>1. /\ MovesAlone(d) /\ saver'[d].pc = "idle" /\ backend # "git"
          /\ d = "accounts" => /\ confirmed'.accounts = saver[d].value
                               /\ confirmed'.keys = confirmed.keys /\ refused' = refused
          /\ d = "keys" => /\ confirmed'.accounts = confirmed.accounts
                           /\ confirmed'.keys \subseteq memory /\ refused' \cap memory = {}
        <3>1. backend # "git"
            BY <1>1, <1>3 DEF SaveRows, WriteFile, WriteTree, Told, Continues, Rest,
               StoreTypeOK, SaverTypeOK, SaverRecords
        <3> QED BY <1>1, <1>3, <3>1, ToldKept
    <2>2. AccountsKept' /\ KeysKept'
        <3>1. CASE d = "accounts"
            <4>1. confirmed.accounts \in Nat /\ saver[d].value \in Nat
                BY <1>1, <3>1 DEF StoreTypeOK, DataTypeOK, SaverTypeOK, StoredData, ValueFits
            <4>2. AccountsKept'
                BY <1>2, <2>1, <3>1, <4>1 DEF AccountsKept
            <4>3. UNCHANGED saver["keys"] /\ confirmed'.keys = confirmed.keys
                      /\ files'.keys = files.keys /\ refused' = refused
                BY <1>2, <2>1, <3>1 DEF MovesAlone
            <4>4. KeysKept'
                BY <1>1, <4>3 DEF KeysKept, Emptied
            <4> QED BY <4>2, <4>4
        <3>2. CASE d = "keys"
            <4>1. saver[d].value = memory
                BY <1>1, <3>2 DEF KeysKept
            <4> QED BY <1>1, <1>2, <2>1, <3>2, <4>1
                    DEF AccountsKept, KeysKept, Emptied, MovesAlone
        <3> QED BY <3>1, <3>2
    <2>3. WrittenIsPushed'
        BY <1>1, <2>1 DEF WrittenIsPushed, MovesAlone, GitPlaces
    <2> QED BY <2>2, <2>3 DEF PromiseKept
<1>4. CASE WriteTree(d)
    <2>1. /\ MovesAlone(d) /\ saver'[d].pc = "adding" /\ saver'[d].value = saver[d].value
          /\ saver'[d].task = saver[d].task /\ UNCHANGED <<confirmed, refused>>
          /\ saver'[d].seen = staged /\ backend = "git"
        BY <1>4, ContinuesMoves DEF WriteTree, SaverPlaces, StoreTypeOK, DataTypeOK
    <2>2. AccountsKept' /\ KeysKept'
        <3>1. CASE d = "accounts"
            BY <1>1, <1>2, <2>1, <3>1 DEF AccountsKept, KeysKept, Emptied, MovesAlone
        <3>2. CASE d = "keys"
            <4>1. saver[d].value = memory
                BY <1>1, <3>2 DEF KeysKept
            <4> QED BY <1>1, <1>2, <2>1, <3>2, <4>1
                    DEF AccountsKept, KeysKept, Emptied, MovesAlone
        <3> QED BY <3>1, <3>2
    <2>3. WrittenIsPushed'
        <3>1. \A x \in Documents : x # d => saver'[x] = saver[x] /\ files'[x] = files[x]
            BY <1>2, <2>1 DEF MovesAlone
        <3>2. saver[d].pc = "writing"
            BY <1>4 DEF WriteTree
        <3>3. branch = head \/ \E x \in Documents : saver'[x].pc = "pushing"
            BY <2>1, <3>1, <3>2 DEF WrittenIsPushed
        <3>4. ASSUME NEW x \in Documents PROVE ReadOfIndex(x)'
            <4>1. Other(x) \in Documents
                BY DEF Other
            <4>2. ReadOfIndex(x)
                BY <2>1 DEF WrittenIsPushed
            <4> QED BY <1>1, <2>1, <3>1, <3>2, <4>1, <4>2 DEF ReadOfIndex
        <3> QED BY <1>1, <1>2, <2>1, <3>1, <3>2, <3>3, <3>4 DEF WrittenIsPushed, GitPlaces
    <2> QED BY <2>2, <2>3 DEF PromiseKept
<1> QED BY <1>3, <1>4 DEF SaveRows, WriteFile

\* A writer with Git is told when the file has its value.
LEMMA ToldKeeps ==
    ASSUME Binding, NEW d \in Documents, saver[d].pc # "idle", Told(d), backend = "git",
           files[d] = saver[d].value, UNCHANGED <<backend, files, memory>>
    PROVE  AccountsKept' /\ KeysKept'
<1> USE BindingGives
<1>1. /\ MovesAlone(d) /\ saver'[d].pc = "idle"
      /\ d = "accounts" => /\ confirmed'.accounts = saver[d].value
                           /\ confirmed'.keys = confirmed.keys /\ refused' = refused
      /\ d = "keys" => /\ confirmed'.accounts = confirmed.accounts
                       /\ confirmed'.keys \subseteq memory /\ refused' \cap memory = {}
    BY ToldKept
<1>2. CASE d = "accounts"
    <2>1. saver[d].value \in Nat
        BY <1>2 DEF StoreTypeOK, SaverTypeOK, ValueFits
    <2>2. AccountsKept'
        BY <1>1, <1>2, <2>1 DEF AccountsKept
    <2>3. UNCHANGED saver["keys"] /\ confirmed'.keys = confirmed.keys /\ refused' = refused
        BY <1>1, <1>2 DEF MovesAlone
    <2>4. KeysKept'
        BY <2>3 DEF KeysKept, Emptied
    <2> QED BY <2>2, <2>4
<1>3. CASE d = "keys"
    <2>1. saver[d].value = memory /\ files.keys = memory
        BY <1>3 DEF KeysKept
    <2> QED BY <1>1, <1>3, <2>1 DEF AccountsKept, KeysKept, Emptied, MovesAlone
<1> QED BY <1>2, <1>3

\* A writer with Git goes on with its value and touches no file.
LEMMA QuietKeys ==
    ASSUME Binding, NEW d \in Documents, MovesAlone(d), backend = "git", saver[d].pc # "idle",
           saver'[d].value = saver[d].value, saver'[d].task = saver[d].task,
           UNCHANGED <<backend, files, memory, confirmed, refused>>
    PROVE  KeysKept'
<1> USE BindingGives
<1>1. /\ saver'["keys"].value = saver["keys"].value
      /\ saver'["keys"].task = saver["keys"].task
      /\ saver'["keys"].pc # "idle" => saver["keys"].pc # "idle"
    BY DEF MovesAlone, Documents
<1> QED BY <1>1 DEF KeysKept, Emptied

\* A save fails, empties the file, or looks at the repository.
LEMMA NotYetWrittenKept ==
    ASSUME Binding, NEW d \in Documents, SaveRaises(d) \/ OpenFile(d) \/ Pull(d)
    PROVE  PromiseKept'
<1> USE BindingGives
<1>1. CASE SaveRaises(d)
    <2>1. ~Raises(d)
        <3>1. ~Unwritten(d)
            BY FaultSuffered DEF Unwritten, Binding, Excused, StoreTypeOK, DataTypeOK, Suffered
        <3>2. ~Locked(d)
            BY FaultSuffered DEF Locked, Beside, Binding, Excused, Suffered
        <3> QED BY <3>1, <3>2, FailedIsExcused DEF Raises, Binding
    <2>2. /\ backend = "database" /\ saver[d].pc = "saving"
          /\ UNCHANGED <<files, staged, head, cloned, branch, memory, confirmed, refused>>
        BY <1>1, <2>1 DEF SaveRaises
    <2>3. MovesAlone(d) /\ saver'[d].pc = "idle" /\ backend' = backend
        BY <1>1, RestMoves DEF SaveRaises
    <2>4. WrittenIsPushed'
        BY <2>2, <2>3, NothingAdded DEF GitPlaces
    <2> QED BY <2>2, <2>3, <2>4
            DEF PromiseKept, AccountsKept, KeysKept, Emptied, MovesAlone
<1>2. CASE OpenFile(d)
    <2>1. /\ MovesAlone(d) /\ saver'[d].pc = "writing" /\ saver'[d].value = saver[d].value
          /\ saver'[d].task = saver[d].task /\ backend = "json" /\ saver[d].pc = "saving"
          /\ UNCHANGED <<backend, staged, head, branch, cloned, memory, confirmed, refused>>
        BY <1>2, ContinuesMoves, RepoTyped DEF OpenFile, SaverPlaces
    <2>2. /\ d = "accounts" => files'.keys = files.keys
          /\ d = "keys" => files'.accounts = files.accounts
        <3>1. ValueFits(d, Empty(d)) /\ files \in StoredData
            BY DEF ValueFits, Empty, StoreTypeOK, DataTypeOK
        <3> QED BY <1>2, <3>1, WriteTyped DEF OpenFile
    <2>3. \A e \in Documents : e # d => saver'[e] = saver[e]
        BY <2>1 DEF MovesAlone
    <2>4. AccountsKept'
        <3>1. CASE d = "accounts"
            BY <2>1, <3>1 DEF AccountsKept, Emptied
        <3>2. CASE d = "keys"
            <4>1. files'.accounts = files.accounts /\ saver'["accounts"] = saver["accounts"]
                BY <2>2, <2>3, <3>2 DEF Documents
            <4> QED BY <2>1, <4>1 DEF AccountsKept, Emptied
        <3> QED BY <3>1, <3>2 DEF Documents
    <2>5. KeysKept'
        <3>1. CASE d = "accounts"
            <4>1. files'.keys = files.keys /\ saver'["keys"] = saver["keys"]
                BY <2>2, <2>3, <3>1 DEF Documents
            <4> QED BY <2>1, <4>1 DEF KeysKept, Emptied
        <3>2. CASE d = "keys"
            BY <2>1, <3>2 DEF KeysKept, Emptied
        <3> QED BY <3>1, <3>2 DEF Documents
    <2>6. WrittenIsPushed'
        BY <2>1, NothingAdded DEF GitPlaces
    <2> QED BY <2>4, <2>5, <2>6 DEF PromiseKept
<1>3. CASE Pull(d)
    <2>1. /\ MovesAlone(d) /\ saver'[d].pc = "writing" /\ saver'[d].value = saver[d].value
          /\ saver'[d].task = saver[d].task /\ backend = "git" /\ saver[d].pc = "saving"
          /\ UNCHANGED <<backend, branch, memory, confirmed, refused>>
        BY <1>3, ContinuesMoves, RepoTyped DEF Pull, SaverPlaces
    <2>2. UNCHANGED <<files, staged, head, cloned>>
        BY <1>3, FetchedQuiet DEF Pull, Binding
    <2>3. AccountsKept'
        BY <2>1, <2>2 DEF AccountsKept, Emptied, MovesAlone
    <2>4. KeysKept'
        BY <2>1, <2>2, QuietKeys
    <2>5. WrittenIsPushed'
        BY <2>1, <2>2, NothingAdded DEF GitPlaces
    <2> QED BY <2>3, <2>4, <2>5 DEF PromiseKept
<1> QED BY <1>1, <1>2, <1>3

\* A save with Git that goes on keeps what it is about.
LEMMA GoesOnKept ==
    ASSUME Binding, NEW d \in Documents, MovesAlone(d), backend = "git", saver[d].pc # "idle",
           saver'[d].value = saver[d].value, saver'[d].task = saver[d].task,
           UNCHANGED <<backend, files, memory, confirmed, refused>>
    PROVE  AccountsKept' /\ KeysKept'
<1> USE BindingGives
<1>1. AccountsKept'
    BY DEF AccountsKept, Emptied, MovesAlone
<1> QED BY <1>1, QuietKeys

\* Nobody is in an add, or a commit, beside another.
LEMMA NotBeside ==
    ASSUME Binding, backend = "git", NEW d \in Documents, NEW pc, Beside(d, pc)
    PROVE  saver[Other(d)].pc # pc
BY FaultSuffered DEF Beside, Binding, Excused, Suffered

LEMMA StageKept ==
    ASSUME Binding, NEW d \in Documents, Stage(d)
    PROVE  PromiseKept'
<1> USE BindingGives
<1> DEFINE e == Other(d)
<1>0. e \in Documents /\ e # d /\ Other(e) = d /\ \A x \in Documents : x = d \/ x = e
    BY DEF Other, Documents
<1>1. /\ backend = "git" /\ cloned /\ saver[d].pc = "adding" /\ saver[e].pc # "adding"
      /\ UNCHANGED <<backend, files, head, branch, cloned, memory, confirmed, refused>>
      /\ saver[d].seen = staged /\ staged' = [staged EXCEPT ![d] = files[d]]
      /\ files[d] = saver[d].value
    BY NotBeside DEF Stage, WrittenIsPushed, ReadOfIndex, GitPlaces
<1>2. staged'[d] = files[d] /\ staged'[e] = staged[e]
    BY <1>0, <1>1 DEF StoreTypeOK, DataTypeOK, StoredData, Documents
<1>3. /\ MovesAlone(d) /\ saver'[d].pc = "checking" /\ saver'[d].value = saver[d].value
      /\ saver'[d].task = saver[d].task /\ saver'[e] = saver[e]
    BY <1>0, ContinuesMoves, RepoTyped DEF Stage, SaverPlaces, MovesAlone
<1> HIDE DEF e
<1>4. AccountsKept' /\ KeysKept'
    BY <1>1, <1>3, GoesOnKept
<1>5. branch = head \/ \E x \in Documents : saver'[x].pc = "pushing"
    BY <1>0, <1>1, <1>3 DEF WrittenIsPushed
<1>6. ReadOfIndex(d)' /\ ReadOfIndex(e)'
    <2>1. ReadOfIndex(e) /\ staged[d] = head[d]
        BY <1>0, <1>1 DEF WrittenIsPushed
    <2>2. ReadOfIndex(d)'
        BY <1>3 DEF ReadOfIndex
    <2> QED BY <1>0, <1>1, <1>2, <1>3, <2>1, <2>2 DEF ReadOfIndex
<1>7. WrittenIsPushed'
    BY <1>0, <1>1, <1>2, <1>3, <1>5, <1>6 DEF WrittenIsPushed, GitPlaces
<1> QED BY <1>4, <1>7 DEF PromiseKept

\* Who finds everything committed is told: the other has pushed it or will.
LEMMA IsDirtyKept ==
    ASSUME Binding, NEW d \in Documents, IsDirty(d)
    PROVE  PromiseKept'
<1> USE BindingGives
<1> DEFINE e == Other(d)
<1>0. e \in Documents /\ e # d /\ Other(e) = d /\ \A x \in Documents : x = d \/ x = e
    BY DEF Other, Documents
<1>1. /\ backend = "git" /\ cloned /\ saver[d].pc = "checking" /\ files[d] = saver[d].value
      /\ UNCHANGED <<backend, files, staged, head, branch, cloned, memory>>
    BY DEF IsDirty, WrittenIsPushed, GitPlaces
<1>2. CASE Continues(d, "committing", staged) /\ UNCHANGED <<confirmed, refused>>
    <2>1. /\ MovesAlone(d) /\ saver'[d].pc = "committing" /\ saver'[d].value = saver[d].value
          /\ saver'[d].task = saver[d].task /\ saver'[d].seen = staged /\ saver'[e] = saver[e]
        BY <1>0, <1>2, ContinuesMoves DEF SaverPlaces, StoreTypeOK, DataTypeOK, MovesAlone
    <2> HIDE DEF e
    <2>2. AccountsKept' /\ KeysKept'
        BY <1>1, <1>2, <2>1, GoesOnKept
    <2>3. branch = head \/ \E x \in Documents : saver'[x].pc = "pushing"
        BY <1>0, <1>1, <2>1 DEF WrittenIsPushed
    <2>4. ReadOfIndex(d)' /\ ReadOfIndex(e)'
        BY <1>0, <1>1, <2>1 DEF WrittenIsPushed, ReadOfIndex
    <2>5. WrittenIsPushed'
        BY <1>0, <1>1, <2>1, <2>3, <2>4 DEF WrittenIsPushed, GitPlaces
    <2> QED BY <2>2, <2>5 DEF PromiseKept
<1>3. CASE files = staged /\ staged = head /\ Told(d)
    <2>1. MovesAlone(d) /\ saver'[d].pc = "idle" /\ saver'[e] = saver[e]
        BY <1>0, <1>1, <1>3, ToldKept DEF MovesAlone
    <2> HIDE DEF e
    <2>2. AccountsKept' /\ KeysKept'
        BY <1>1, <1>3, ToldKeeps
    <2>3. branch = head \/ \E x \in Documents : saver'[x].pc = "pushing"
        BY <1>0, <1>1, <2>1 DEF WrittenIsPushed
    <2>4. ReadOfIndex(d)' /\ ReadOfIndex(e)'
        <3>1. ReadOfIndex(e)
            BY <1>0, <1>1 DEF WrittenIsPushed
        <3> QED BY <1>0, <1>1, <1>3, <2>1, <3>1 DEF ReadOfIndex
    <2>5. WrittenIsPushed'
        BY <1>0, <1>1, <1>3, <2>1, <2>3, <2>4 DEF WrittenIsPushed, GitPlaces
    <2> QED BY <2>2, <2>5 DEF PromiseKept
<1> QED BY <1>1, <1>2, <1>3 DEF IsDirty

\* Whoever commits takes along what the other has added.
LEMMA CommitKept ==
    ASSUME Binding, NEW d \in Documents, Commit(d)
    PROVE  PromiseKept'
<1> USE BindingGives
<1> DEFINE e == Other(d)
<1>0. e \in Documents /\ e # d /\ Other(e) = d /\ \A x \in Documents : x = d \/ x = e
    BY DEF Other, Documents
<1>1. /\ backend = "git" /\ cloned /\ saver[d].pc = "committing" /\ saver[e].pc # "committing"
      /\ UNCHANGED <<backend, files, staged, branch, cloned, memory, confirmed, refused>>
      /\ head' = saver[d].seen /\ files[d] = saver[d].value
    BY NotBeside DEF Commit, WrittenIsPushed, GitPlaces
<1>2. /\ MovesAlone(d) /\ saver'[d].pc = "pushing" /\ saver'[d].value = saver[d].value
      /\ saver'[d].task = saver[d].task /\ saver'[e] = saver[e]
    BY <1>0, ContinuesMoves, RepoTyped DEF Commit, SaverPlaces, MovesAlone
<1> HIDE DEF e
<1>3. AccountsKept' /\ KeysKept'
    BY <1>1, <1>2, GoesOnKept
<1>4. /\ head'[d] = staged[d]
      /\ head'[e] = staged[e] \/ saver[e].pc = "checking"
    <2>1. ReadOfIndex(d)
        BY <1>1 DEF WrittenIsPushed
    <2> QED BY <1>0, <1>1, <2>1 DEF ReadOfIndex, e
<1>5. ReadOfIndex(d)' /\ ReadOfIndex(e)'
    <2>1. ReadOfIndex(e)
        BY <1>0, <1>1 DEF WrittenIsPushed
    <2> QED BY <1>0, <1>1, <1>2, <2>1 DEF ReadOfIndex
<1>6. WrittenIsPushed'
    BY <1>0, <1>1, <1>2, <1>4, <1>5 DEF WrittenIsPushed, GitPlaces
<1> QED BY <1>3, <1>6 DEF PromiseKept

\* Whoever pushes, pushes everything that was committed.
LEMMA PushKept ==
    ASSUME Binding, NEW d \in Documents, Push(d)
    PROVE  PromiseKept'
<1> USE BindingGives
<1> DEFINE e == Other(d)
<1>0. e \in Documents /\ e # d /\ Other(e) = d /\ \A x \in Documents : x = d \/ x = e
    BY DEF Other, Documents
<1>1. /\ backend = "git" /\ cloned /\ saver[d].pc = "pushing" /\ files[d] = saver[d].value
      /\ UNCHANGED <<backend, files, staged, head, cloned, memory>> /\ Told(d)
    BY DEF Push, WrittenIsPushed, GitPlaces
<1>2. branch' = head
    <2>1. ~Fault("network") /\ ~Suffered("overlap")
        BY <1>1, FaultSuffered DEF Binding, Excused, Suffered
    <2> QED BY <2>1 DEF Push
<1>3. MovesAlone(d) /\ saver'[d].pc = "idle" /\ saver'[e] = saver[e]
    BY <1>0, <1>1, ToldKept DEF MovesAlone
<1> HIDE DEF e
<1>4. AccountsKept' /\ KeysKept'
    BY <1>1, ToldKeeps
<1>5. ReadOfIndex(d)' /\ ReadOfIndex(e)'
    <2>1. ReadOfIndex(e)
        BY <1>0, <1>1 DEF WrittenIsPushed
    <2> QED BY <1>0, <1>1, <1>3, <2>1 DEF ReadOfIndex
<1>6. WrittenIsPushed'
    BY <1>0, <1>1, <1>2, <1>3, <1>5 DEF WrittenIsPushed, GitPlaces
<1> QED BY <1>4, <1>6 DEF PromiseKept

LEMMA StoreStep ==
    ASSUME StoreInv, [StoreNext]_storeVars
    PROVE  StoreInv'
<1>1. StoreTypeOK /\ backend' = backend /\ (Excused => Excused')
    BY FaultsGrow DEF StoreInv
<1>2. StoreTypeOK'
    <2>1. CASE UNCHANGED storeVars
        BY <1>1, <2>1 DEF storeVars, StoreTypeOK, DataTypeOK, SaverTypeOK
    <2> QED BY <1>1, <2>1, RequestsTyped, SavesTyped DEF StoreNext
<1>3. ASSUME ~Excused' PROVE PromiseKept'
    <2>1. Binding
        BY <1>1, <1>2, <1>3 DEF Binding
    <2>2. CASE UNCHANGED storeVars
        BY <2>1, <2>2 DEF storeVars, Binding, StoreInv, PromiseKept, AccountsKept, KeysKept,
           WrittenIsPushed, ReadOfIndex, Emptied
    <2> QED BY <2>1, <2>2, ChangeKept, ListKept, AskKept, CrashKept, WrittenKept,
               NotYetWrittenKept, StageKept, IsDirtyKept, CommitKept, PushKept DEF StoreNext
<1> QED BY <1>2, <1>3 DEF StoreInv

\* What the callers of auth_service and account_service were told is saved stays, and what
\* was deleted stays deleted, though the two write the same backend without a lock: with
\* every number of keys and saves, and whatever faults came before that the backend
\* withstands.
THEOREM SavedStaysHolds == StoreSpec => []SavedStays
<1>1. StoreInv => SavedStays
    <2> SUFFICES ASSUME StoreInv, \A d \in Documents : saver[d].pc = "idle", ~Excused
                 PROVE  /\ Kept.accounts >= confirmed.accounts
                        /\ confirmed.keys \subseteq Kept.keys
                        /\ refused \cap (Kept.keys \cup memory) = {}
        BY DEF SavedStays, Excused
    <2>1. saver["keys"].pc = "idle" /\ saver["accounts"].pc = "idle"
        BY DEF Documents
    <2>2. Kept.accounts = files.accounts /\ Kept.keys = files.keys
        BY <2>1 DEF Kept, StoreInv, PromiseKept, WrittenIsPushed, Documents
    <2> QED BY <2>1, <2>2 DEF StoreInv, PromiseKept, AccountsKept, KeysKept, Emptied
<1>2. StoreInv /\ [StoreNext]_storeVars => StoreInv'
    BY StoreStep
<1> QED BY <1>1, <1>2, StoreInitInv, PTL DEF StoreSpec

-----------------------------------------------------------------------------
(* The log of calls: once, and as the call ended.                          *)

Over      == Success \cup Failure
CallPlaces == Over \cup {"received", "handling", "awaiting the first", "opened", "streaming",
                         "never streamed"}
Logs      == [Calls -> [Statuses -> Nat]]

OneRecord(status) == [s \in Statuses |-> IF s = status THEN 1 ELSE 0]

LogTypeOK ==
    /\ call \in [Calls -> CallPlaces]
    /\ logFile \in Logs
    /\ rewriting \in [busy : BOOLEAN, kept : Logs]

\* What a log, the file or what is to be written back, may hold of a call.
FitsCall(log, c) ==
    /\ log[c] = NoRecords \/ (call[c] \in Over /\ log[c] = OneRecord(StatusOf(c)))
    /\ call[c] \in Over /\ c \notin deletedCalls \cup overlapped => log[c] # NoRecords

\* A call that is not over is in neither, so that none is logged twice.
LogInv ==
    /\ LogTypeOK
    /\ \A c \in Calls : FitsCall(logFile, c)
    /\ rewriting.busy => \A c \in Calls : FitsCall(rewriting.kept, c)

LEMMA RecordsTyped ==
    /\ NoRecords \in [Statuses -> Nat]
    /\ EmptyLog \in Logs /\ \A c \in Calls : EmptyLog[c] = NoRecords
    /\ \A status \in Statuses :
           /\ OneRecord(status) = [NoRecords EXCEPT ![status] = @ + 1]
           /\ OneRecord(status) # NoRecords
<1>1. NoRecords \in [Statuses -> Nat] /\ \A status \in Statuses : NoRecords[status] = 0
    BY DEF NoRecords
<1>2. EmptyLog \in Logs /\ \A c \in Calls : EmptyLog[c] = NoRecords
    BY <1>1 DEF EmptyLog, Logs
<1>3. ASSUME NEW status \in Statuses
      PROVE  OneRecord(status) = [NoRecords EXCEPT ![status] = @ + 1]
    <2>1. NoRecords = [s \in Statuses |-> 0]
        BY DEF NoRecords
    <2> QED BY <2>1 DEF OneRecord
<1>4. ASSUME NEW status \in Statuses
      PROVE  OneRecord(status) # NoRecords
    <2>1. OneRecord(status)[status] = 1
        BY DEF OneRecord
    <2> QED BY <1>1, <2>1
<1> QED BY <1>1, <1>2, <1>3, <1>4

LEMMA LogInitInv == LogInit => LogInv
<1> SUFFICES ASSUME LogInit PROVE LogInv
    OBVIOUS
<1>1. rewriting \in [busy : BOOLEAN, kept : Logs] /\ ~rewriting.busy
    BY RecordsTyped DEF LogInit, NotRewriting
<1>2. call \in [Calls -> CallPlaces] /\ logFile \in Logs
    BY RecordsTyped DEF LogInit, CallPlaces
<1>3. \A c \in Calls : FitsCall(logFile, c)
    BY RecordsTyped DEF LogInit, FitsCall, Over, Success, Failure
<1> QED BY <1>1, <1>2, <1>3 DEF LogInv, LogTypeOK

\* A call moves on, without a record.
LEMMA GoesKept ==
    ASSUME LogInv, NEW c \in Calls, NEW to \in CallPlaces \ Over, call[c] \notin Over,
           CallGoes(c, to), UNCHANGED <<logFile, rewriting, deletedCalls, overlapped>>
    PROVE  LogInv'
<1>1. call' \in [Calls -> CallPlaces] /\ call'[c] = to
    BY DEF LogInv, LogTypeOK, CallGoes
<1>2. \A e \in Calls : e # c => call'[e] = call[e]
    BY DEF LogInv, LogTypeOK, CallGoes
<1>3. ASSUME NEW log, NEW e \in Calls, FitsCall(log, e)
      PROVE  /\ log[e] = NoRecords \/ (call'[e] \in Over /\ log[e] = OneRecord(StatusOf(e)'))
             /\ call'[e] \in Over /\ e \notin deletedCalls \cup overlapped => log[e] # NoRecords
    <2>1. CASE e = c
        BY <1>1, <1>3, <2>1 DEF FitsCall
    <2>2. CASE e # c
        BY <1>2, <1>3, <2>2 DEF FitsCall, StatusOf
    <2> QED BY <2>1, <2>2
<1>4. (\A e \in Calls : FitsCall(logFile, e))'
    BY <1>3 DEF LogInv, FitsCall
<1>5. (rewriting.busy => \A e \in Calls : FitsCall(rewriting.kept, e))'
    BY <1>3 DEF LogInv, FitsCall
<1> QED BY <1>1, <1>4, <1>5 DEF LogInv, LogTypeOK

\* A call is over and logged: it was in no log before.
LEMMA LoggedKept ==
    ASSUME LogInv, NEW c \in Calls, NEW to \in Over, call[c] \notin Over, CallGoes(c, to),
           Add(c, IF to \in Success THEN "success" ELSE "failed"),
           UNCHANGED <<rewriting, deletedCalls>>
    PROVE  LogInv'
<1> DEFINE status == IF to \in Success THEN "success" ELSE "failed"
<1>1. status \in Statuses
    BY DEF Statuses
<1>2. call' \in [Calls -> CallPlaces] /\ call'[c] = to /\ StatusOf(c)' = status
    BY DEF LogInv, LogTypeOK, CallGoes, CallPlaces, StatusOf
<1>3. \A e \in Calls : e # c => call'[e] = call[e]
    BY DEF LogInv, LogTypeOK, CallGoes
<1>4. logFile[c] = NoRecords /\ (rewriting.busy => rewriting.kept[c] = NoRecords)
    BY DEF LogInv, FitsCall
<1>5. logFile' = [logFile EXCEPT ![c] = [logFile[c] EXCEPT ![status] = logFile[c][status] + 1]]
    BY DEF Add
<1>6. logFile'[c] = OneRecord(status) /\ logFile' \in Logs
    <2>1. logFile[c] \in [Statuses -> Nat] /\ logFile \in Logs
        BY DEF LogInv, LogTypeOK, Logs
    <2>2. [logFile[c] EXCEPT ![status] = logFile[c][status] + 1] = OneRecord(status)
        BY <1>1, <1>4, RecordsTyped
    <2>3. OneRecord(status) \in [Statuses -> Nat]
        BY DEF OneRecord
    <2> QED BY <1>5, <2>1, <2>2, <2>3 DEF Logs
<1>7. \A e \in Calls : e # c => logFile'[e] = logFile[e]
    BY <1>5 DEF LogInv, LogTypeOK, Logs
<1>8. overlapped \subseteq overlapped' /\ (rewriting.busy => c \in overlapped')
    BY DEF Add
<1> HIDE DEF status
<1>9. ASSUME NEW e \in Calls, e # c
      PROVE  FitsCall(logFile, e)' /\ (rewriting.busy => FitsCall(rewriting.kept, e))'
    BY <1>3, <1>7, <1>8, <1>9 DEF LogInv, FitsCall, StatusOf
<1>10. FitsCall(logFile, c)' /\ (rewriting.busy => FitsCall(rewriting.kept, c))'
    <2>1. OneRecord(status) # NoRecords
        BY <1>1, RecordsTyped
    <2> QED BY <1>2, <1>4, <1>6, <1>8, <2>1 DEF FitsCall
<1> QED BY <1>2, <1>6, <1>9, <1>10 DEF LogInv, LogTypeOK

LEMMA CallKept ==
    ASSUME LogInv, NEW c \in Calls,
           \/ Filtered(c) \/ Handled(c) \/ FirstItem(c)
           \/ StreamBegins(c) \/ LeavesBeforeStream(c) \/ StreamEnds(c) \/ StreamFails(c)
    PROVE  LogInv'
<1> USE DEF Over, Success, Failure, CallPlaces
<1>1. call[c] \notin Over /\ UNCHANGED <<rewriting, deletedCalls>>
    BY DEF Filtered, Handled, FirstItem, StreamBegins, LeavesBeforeStream, StreamEnds,
       StreamFails, CallAt
<1>2. \/ \E to \in CallPlaces \ Over : CallGoes(c, to) /\ UNCHANGED <<logFile, overlapped>>
      \/ CallGoes(c, "answered") /\ Add(c, "success")
      \/ \E to \in Failure : CallGoes(c, to) /\ Add(c, "failed")
    BY DEF Filtered, Handled, FirstItem, StreamBegins, LeavesBeforeStream, StreamEnds,
       StreamFails
<1>3. "answered" \in Success /\ \A to \in Failure : to \notin Success /\ to \in Over
    OBVIOUS
<1> HIDE DEF Over, Success, Failure, CallPlaces
<1>4. CASE \E to \in CallPlaces \ Over : CallGoes(c, to) /\ UNCHANGED <<logFile, overlapped>>
    BY <1>1, <1>4, GoesKept
<1>5. CASE CallGoes(c, "answered") /\ Add(c, "success")
    BY <1>1, <1>3, <1>5, LoggedKept DEF Over
<1>6. CASE \E to \in Failure : CallGoes(c, to) /\ Add(c, "failed")
    BY <1>1, <1>3, <1>6, LoggedKept
<1> QED BY <1>2, <1>4, <1>5, <1>6

\* The deletion: what is written back is what was read, without what was chosen.
LEMMA RewriteKept ==
    ASSUME LogInv, WriteKept \/ \E calls \in SUBSET Calls : ReadToDelete(calls)
    PROVE  LogInv'
<1>1. CASE WriteKept
    <2>1. /\ logFile' = rewriting.kept /\ rewriting' = NotRewriting /\ rewriting.busy
          /\ UNCHANGED <<call, deletedCalls, overlapped>>
        BY <1>1 DEF WriteKept
    <2>2. rewriting' \in [busy : BOOLEAN, kept : Logs] /\ ~rewriting'.busy
        BY <2>1, RecordsTyped DEF NotRewriting
    <2>3. \A c \in Calls : FitsCall(logFile, c)'
        BY <2>1 DEF LogInv, FitsCall, StatusOf
    <2> QED BY <2>1, <2>2, <2>3 DEF LogInv, LogTypeOK
<1>2. ASSUME NEW calls \in SUBSET Calls, ReadToDelete(calls) PROVE LogInv'
    <2> DEFINE kept == [c \in Calls |-> IF c \in calls THEN NoRecords ELSE logFile[c]]
    <2>1. /\ rewriting' = [busy |-> TRUE, kept |-> kept] /\ deletedCalls' = deletedCalls \cup calls
          /\ UNCHANGED <<call, logFile, overlapped>>
        BY <1>2 DEF ReadToDelete
    <2>2. kept \in Logs
        BY RecordsTyped DEF LogInv, LogTypeOK, Logs
    <2>3. ASSUME NEW c \in Calls
          PROVE  FitsCall(logFile, c)' /\ FitsCall(kept, c)'
        BY <2>1 DEF LogInv, FitsCall, StatusOf
    <2> HIDE DEF kept
    <2>4. rewriting' \in [busy : BOOLEAN, kept : Logs] /\ rewriting'.kept = kept
        BY <2>1, <2>2
    <2>5. ASSUME NEW c \in Calls
          PROVE  FitsCall(rewriting.kept, c)'
        <3>1. rewriting'.kept[c] = kept[c] /\ kept[c] = IF c \in calls THEN NoRecords ELSE logFile[c]
            BY <2>4 DEF kept
        <3> QED BY <2>1, <3>1 DEF LogInv, FitsCall, StatusOf
    <2> QED BY <2>1, <2>3, <2>4, <2>5 DEF LogInv, LogTypeOK
<1> QED BY <1>1, <1>2

\* LoggedCall logs a call once and as it ended, whichever of its ways it took, and a line
\* is lost only by LogService.delete that read the file before the call ended: for every
\* number of calls and of deletions.
THEOREM LoggedAsEndedHolds == LogSpec => []LoggedAsEnded
<1>1. LogInv /\ [LogNext]_logVars => LogInv'
    <2> SUFFICES ASSUME LogInv, [LogNext]_logVars PROVE LogInv'
        OBVIOUS
    <2>1. CASE UNCHANGED logVars
        BY <2>1 DEF logVars, LogInv, LogTypeOK, FitsCall, StatusOf
    <2> QED BY <2>1, CallKept, RewriteKept DEF LogNext
<1>2. LogInv => LoggedAsEnded
    <2> SUFFICES ASSUME LogInv, NEW c \in Calls
                 PROVE  /\ Lines(c) <= 1
                        /\ Recorded(c) => call[c] \in Over /\ logFile[c][StatusOf(c)] = 1
                        /\ call[c] \in Over /\ c \notin deletedCalls \cup overlapped => Recorded(c)
        BY DEF LoggedAsEnded, Over
    <2>1. FitsCall(logFile, c) /\ StatusOf(c) \in Statuses
        BY DEF LogInv, StatusOf, Statuses
    <2>2. CASE logFile[c] = NoRecords
        BY <2>1, <2>2 DEF FitsCall, Lines, Recorded, NoRecords, Statuses
    <2>3. CASE call[c] \in Over /\ logFile[c] = OneRecord(StatusOf(c))
        BY <2>1, <2>3 DEF Lines, Recorded, OneRecord, Statuses
    <2> QED BY <2>1, <2>2, <2>3 DEF FitsCall
<1> QED BY <1>1, <1>2, LogInitInv, PTL DEF LogSpec

-----------------------------------------------------------------------------
(* Backups: the last success is in the bucket.                             *)

BackupPlaces == {"none", "starting", "uploading", "rotating", "deleting"}

BackupTypeOK ==
    /\ backupSettings \in BackupSettings
    /\ record \in [status : {"idle", "error", "success"}, key : Nat]
    /\ backup \in [pc : BackupPlaces, keep : Nat, key : Nat, doomed : SUBSET Nat]
    /\ uploads \in Nat /\ bucket \subseteq 1 .. uploads

\* The archive of the backup under way is the newest of the bucket, unless the operator
\* deleted it, and is not among those that are rotated away.
NewestUnderWay ==
    /\ backup.pc \in {"rotating", "deleting"} =>
           backup.key = uploads /\ backup.key \in bucket \cup removed
    /\ backup.pc = "deleting" => backup.key \notin backup.doomed

\* A success is recorded only when nothing is under way.
LastSuccess ==
    record.status = "success" => backup.pc = "none" /\ record.key \in bucket \cup removed

BackupInv == BackupTypeOK /\ NewestUnderWay /\ LastSuccess

LEMMA NoJobTyped ==
    /\ NoBackup.pc = "none"
    /\ NoBackup \in [pc : BackupPlaces, keep : Nat, key : Nat, doomed : SUBSET Nat]
    /\ [NoBackup EXCEPT !.pc = "starting"]
           \in [pc : BackupPlaces, keep : Nat, key : Nat, doomed : SUBSET Nat]
    /\ [NoBackup EXCEPT !.pc = "starting"].pc = "starting"
BY DEF NoBackup, BackupPlaces

LEMMA BackupInitInv == BackupInit => BackupInv
<1> SUFFICES ASSUME BackupInit PROVE BackupInv
    OBVIOUS
<1>1. record.status = "idle" /\ record \in [status : {"idle", "error", "success"}, key : Nat]
    BY DEF BackupInit
<1> QED BY <1>1, NoJobTyped
        DEF BackupInit, BackupInv, BackupTypeOK, NewestUnderWay, LastSuccess

\* A backup that fails leaves no success behind.
LEMMA FailureKept ==
    ASSUME BackupInv, JobFails, uploads' \in Nat, bucket' \subseteq 1 .. uploads'
    PROVE  BackupInv'
<1>1. /\ record' = [status |-> "error", key |-> record.key] /\ backup' = NoBackup
      /\ backupSettings' = backupSettings
    BY DEF JobFails, BackupOver
<1>2. record'.status = "error" /\ record' \in [status : {"idle", "error", "success"}, key : Nat]
    BY <1>1 DEF BackupInv, BackupTypeOK
<1> QED BY <1>1, <1>2, NoJobTyped
        DEF BackupInv, BackupTypeOK, NewestUnderWay, LastSuccess

LEMMA BeginKept ==
    ASSUME BackupInv, Begin
    PROVE  BackupInv'
<1>1. UNCHANGED <<backupSettings, bucket, uploads, removed>>
    BY DEF Begin
<1>2. CASE UNCHANGED <<record, backup>>
    BY <1>1, <1>2 DEF BackupInv, BackupTypeOK, NewestUnderWay, LastSuccess
<1>3. CASE record' = [record EXCEPT !.status = "idle"] /\ backup' = [NoBackup EXCEPT !.pc = "starting"]
    <2>1. record'.status = "idle" /\ record' \in [status : {"idle", "error", "success"}, key : Nat]
        BY <1>3 DEF BackupInv, BackupTypeOK
    <2> QED BY <1>1, <1>3, <2>1, NoJobTyped
            DEF BackupInv, BackupTypeOK, NewestUnderWay, LastSuccess
<1> QED BY <1>2, <1>3 DEF Begin

LEMMA PrepareKept ==
    ASSUME BackupInv, Prepare
    PROVE  BackupInv'
<1>1. CASE backupSettings.fit
    <2>1. /\ backup' = [backup EXCEPT !.pc = "uploading", !.keep = backupSettings.keep]
          /\ UNCHANGED <<backupSettings, record, removed, bucket, uploads>> /\ backup.pc = "starting"
        BY <1>1 DEF Prepare, JobAt
    <2>2. backupSettings.keep \in Nat
        BY BackupAssumption DEF BackupInv, BackupTypeOK, BackupSettings
    <2>3. /\ backup' \in [pc : BackupPlaces, keep : Nat, key : Nat, doomed : SUBSET Nat]
          /\ backup'.pc = "uploading"
        BY <2>1, <2>2 DEF BackupInv, BackupTypeOK, BackupPlaces
    <2> QED BY <2>1, <2>3 DEF BackupInv, BackupTypeOK, NewestUnderWay, LastSuccess
<1>2. CASE ~backupSettings.fit
    BY <1>2, FailureKept DEF Prepare, BackupInv, BackupTypeOK
<1> QED BY <1>1, <1>2

LEMMA UploadKept ==
    ASSUME BackupInv, Upload
    PROVE  BackupInv'
<1>1. uploads' = uploads + 1 /\ uploads' \in Nat /\ backup.pc = "uploading"
    BY DEF Upload, JobAt, BackupInv, BackupTypeOK
<1>2. bucket' \subseteq bucket \cup {uploads'} /\ bucket' \subseteq 1 .. uploads'
    <2>1. bucket' \subseteq bucket \cup {uploads'}
        BY DEF Upload
    <2> QED BY <1>1, <2>1 DEF BackupInv, BackupTypeOK
<1>3. CASE /\ bucket' = bucket \cup {uploads'}
           /\ backup' = [backup EXCEPT !.pc = "rotating", !.key = uploads']
           /\ UNCHANGED <<backupSettings, record, removed>>
    <2>1. /\ backup' \in [pc : BackupPlaces, keep : Nat, key : Nat, doomed : SUBSET Nat]
          /\ backup'.pc = "rotating" /\ backup'.key = uploads'
        BY <1>1, <1>3 DEF BackupInv, BackupTypeOK, BackupPlaces
    <2> QED BY <1>1, <1>2, <1>3, <2>1 DEF BackupInv, BackupTypeOK, NewestUnderWay, LastSuccess
<1>4. CASE JobFails
    BY <1>1, <1>2, <1>4, FailureKept
<1> QED BY <1>3, <1>4 DEF Upload

\* The newest backup is not in excess of any number that is kept.
LEMMA NewestIsKept ==
    ASSUME BackupInv, backup.key = uploads
    PROVE  backup.key \notin Excess /\ Excess \in SUBSET Nat
<1>1. ~ \E other \in bucket : other > backup.key
    BY DEF BackupInv, BackupTypeOK
<1>2. NewerThan(backup.key) = {}
    BY <1>1 DEF NewerThan
<1>3. Cardinality(NewerThan(backup.key)) = 0
    BY <1>2, FS_EmptySet
<1>4. backup.keep \in Nat
    BY DEF BackupInv, BackupTypeOK
<1>5. Excess \in SUBSET Nat
    <2>1. Excess \subseteq bucket
        BY DEF Excess
    <2>2. bucket \subseteq Nat
        BY DEF BackupInv, BackupTypeOK
    <2> QED BY <2>1, <2>2
<1> QED BY <1>3, <1>4, <1>5 DEF Excess

LEMMA RotationListKept ==
    ASSUME BackupInv, ListForRotation
    PROVE  BackupInv'
<1>1. UNCHANGED <<bucket, uploads>> /\ backup.pc = "rotating"
    BY DEF ListForRotation, JobAt
<1>2. CASE /\ backup' = [backup EXCEPT !.pc = "deleting", !.doomed = Excess]
           /\ UNCHANGED <<backupSettings, record, removed>>
    <2>1. backup.key \notin Excess /\ Excess \in SUBSET Nat
        BY <1>1, NewestIsKept DEF BackupInv, NewestUnderWay
    <2>2. /\ backup' \in [pc : BackupPlaces, keep : Nat, key : Nat, doomed : SUBSET Nat]
          /\ backup'.pc = "deleting" /\ backup'.key = backup.key /\ backup'.doomed = Excess
        BY <1>2, <2>1 DEF BackupInv, BackupTypeOK, BackupPlaces
    <2> QED BY <1>1, <1>2, <2>1, <2>2
            DEF BackupInv, BackupTypeOK, NewestUnderWay, LastSuccess
<1>3. CASE JobFails
    BY <1>1, <1>3, FailureKept DEF BackupInv, BackupTypeOK
<1> QED BY <1>2, <1>3 DEF ListForRotation

LEMMA RotateKept ==
    ASSUME BackupInv, RotateOne
    PROVE  BackupInv'
<1>1. PICK key \in backup.doomed :
         /\ \/ /\ bucket' = bucket \ {key}
               /\ backup' = [backup EXCEPT !.doomed = @ \ {key}]
               /\ UNCHANGED <<backupSettings, record, removed>>
            \/ bucket' \in {bucket, bucket \ {key}} /\ JobFails
         /\ UNCHANGED uploads
    BY DEF RotateOne
<1>2. backup.pc = "deleting" /\ uploads \in Nat /\ bucket' \subseteq 1 .. uploads
    BY <1>1 DEF RotateOne, JobAt, BackupInv, BackupTypeOK
<1>3. CASE /\ bucket' = bucket \ {key} /\ backup' = [backup EXCEPT !.doomed = @ \ {key}]
           /\ UNCHANGED <<backupSettings, record, removed>>
    <2>1. /\ backup' \in [pc : BackupPlaces, keep : Nat, key : Nat, doomed : SUBSET Nat]
          /\ backup'.pc = "deleting" /\ backup'.key = backup.key
          /\ backup'.doomed = backup.doomed \ {key}
        BY <1>2, <1>3 DEF BackupInv, BackupTypeOK
    <2>2. key # backup.key
        BY <1>2 DEF BackupInv, NewestUnderWay
    <2> QED BY <1>1, <1>2, <1>3, <2>1, <2>2
            DEF BackupInv, BackupTypeOK, NewestUnderWay, LastSuccess
<1>4. CASE JobFails
    BY <1>1, <1>2, <1>4, FailureKept
<1> QED BY <1>1, <1>3, <1>4

LEMMA SuccessKept ==
    ASSUME BackupInv, JobSucceeds
    PROVE  BackupInv'
<1>1. /\ record' = [status |-> "success", key |-> backup.key] /\ backup' = NoBackup
      /\ UNCHANGED <<backupSettings, removed, bucket, uploads>> /\ backup.pc = "deleting"
    BY DEF JobSucceeds, BackupOver, JobAt
<1>2. /\ record' \in [status : {"idle", "error", "success"}, key : Nat]
      /\ record'.key = backup.key
    BY <1>1 DEF BackupInv, BackupTypeOK
<1> QED BY <1>1, <1>2, NoJobTyped
        DEF BackupInv, BackupTypeOK, NewestUnderWay, LastSuccess

LEMMA OthersKept ==
    ASSUME BackupInv,
           \/ Look \/ RunRefused \/ ChangeSettings \/ IntervalPasses \/ BackupRestart
           \/ \E key \in 1 .. MaxUploads : DeleteBackup(key)
           \/ UNCHANGED backupVars
    PROVE  BackupInv'
<1>1. CASE BackupRestart
    BY <1>1, NoJobTyped DEF BackupRestart, BackupInv, BackupTypeOK, NewestUnderWay, LastSuccess
<1>2. CASE \E key \in 1 .. MaxUploads : DeleteBackup(key)
    <2>1. /\ bucket' \subseteq bucket /\ bucket \cup removed \subseteq bucket' \cup removed'
          /\ UNCHANGED <<backupSettings, record, backup, uploads>>
        BY <1>2 DEF DeleteBackup
    <2> QED BY <2>1 DEF BackupInv, BackupTypeOK, NewestUnderWay, LastSuccess
<1>3. CASE Look \/ RunRefused \/ ChangeSettings \/ IntervalPasses \/ UNCHANGED backupVars
    <2>1. /\ backupSettings' \in BackupSettings /\ UNCHANGED <<record, backup, bucket, uploads, removed>>
        BY <1>3 DEF Look, RunRefused, ChangeSettings, IntervalPasses, backupVars, BackupInv,
           BackupTypeOK
    <2> QED BY <2>1 DEF BackupInv, BackupTypeOK, NewestUnderWay, LastSuccess
<1> QED BY <1>1, <1>2, <1>3

\* The backup that the console shows as the last success is in the bucket or was deleted by
\* the operator: _apply_rotation deletes whatever number of backups is to be kept, however
\* often the settings change, uploads and deletions fail and the process dies, and never
\* takes the newest away.
THEOREM SuccessIsThereHolds == BackupSpec => []SuccessIsThere
<1>1. BackupInv /\ [BackupNext]_backupVars => BackupInv'
    <2> SUFFICES ASSUME BackupInv, [BackupNext]_backupVars PROVE BackupInv'
        OBVIOUS
    <2>1. CASE RunManually \/ RunScheduled
        BY <2>1, BeginKept DEF RunManually, RunScheduled
    <2>2. CASE JobStep
        BY <2>2, PrepareKept, UploadKept, RotationListKept, RotateKept, SuccessKept DEF JobStep
    <2> QED BY <2>1, <2>2, OthersKept DEF BackupNext
<1>2. BackupInv => SuccessIsThere
    BY DEF BackupInv, LastSuccess, SuccessIsThere
<1> QED BY <1>1, <1>2, BackupInitInv, PTL DEF BackupSpec
=============================================================================
