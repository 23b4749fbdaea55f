------------------------------ MODULE ImageFiles ------------------------------
(***************************************************************************)
(* The images that were generated (services/image_storage_service.py,      *)
(* services/image_service.py, cleanup_old_images of services/config.py):   *)
(* a file, a copy on a WebDAV server, or both, and an index that says      *)
(* which of them have a copy.  Requests save images in their threads; the  *)
(* console lists and deletes them on the event loop; a sync uploads what   *)
(* has no copy; old files are removed by whoever cleans up.                *)
(***************************************************************************)
EXTENDS Naturals, FiniteSets, Functions

CONSTANTS Photos, Nobody

ASSUME ImageAssumption == Nobody \notin Photos

VARIABLES
    mode,       \* the setting image_storage.mode
    local,      \* images with a file
    folder,     \* the folder of the day exists
    remote,     \* images with a copy on the server
    index,      \* image_index.json: for each entry, whether it has a copy
    saving,     \* each save: where it is, and the mode it started with
    sync,       \* sync_all: whether it runs (and holds the index lock), the files it has
                \* before it, the one it uploads, its version of the index
    deleting,   \* the image that the event loop deletes, and whether its file was there
    expired,    \* images whose file was removed as old, to free space, or by a deletion that
                \* failed afterwards
    deleted,    \* images the operator deleted
    early,      \* images that were synchronised or deleted before their save was over
    unentered   \* images with a copy from a sync that did not come to enter it

imageVars == <<mode, local, folder, remote, index, saving, sync, deleting, expired, deleted,
               early, unentered>>

StorageModes == {"local", "webdav", "both"}
NoSync       == [on |-> FALSE, todo |-> {}, at |-> Nobody, items |-> <<>>]
NotDeleting  == [photo |-> Nobody, hadFile |-> FALSE]
LockIsFree   == ~sync.on
LoopFree     == deleting = NotDeleting

Put(entries, i, copied) ==
    [x \in DOMAIN entries \cup {i} |-> IF x = i THEN copied ELSE entries[x]]
HasCopy(entries, i) == i \in DOMAIN entries /\ entries[i]
Open(i)  == saving[i].pc \notin {"none", "saved", "failed"}
Early(s) == early' = early \cup {i \in s : Open(i)}

\* get_bytes: the file, or the copy that the index knows of.
Served(i) == i \in local \/ (HasCopy(index, i) /\ i \in remote)

-----------------------------------------------------------------------------
(* save, in the thread of a request.                                       *)

SaveGoes(i, pc) == saving' = [saving EXCEPT ![i].pc = pc]

\* The clean-up at its start is CleanUp; then the folder is made.
SaveBegins(i) ==
    /\ saving[i].pc = "none"
    /\ saving' = [saving EXCEPT ![i] =
                      [pc |-> IF mode = "webdav" THEN "putting" ELSE "writing", mode |-> mode]]
    /\ folder' = (folder \/ mode # "webdav")
    /\ UNCHANGED <<mode, local, remote, index, sync, deleting, expired, deleted, early,
                   unentered>>

\* Another clean-up may have removed the folder, which was empty.
WriteLocal(i) ==
    /\ saving[i].pc = "writing"
    /\ IF folder
       THEN /\ local' = local \cup {i}
            /\ SaveGoes(i, IF saving[i].mode = "both" THEN "putting" ELSE "indexing")
       ELSE SaveGoes(i, "failed") /\ UNCHANGED local
    /\ UNCHANGED <<mode, folder, remote, index, sync, deleting, expired, deleted, early,
                   unentered>>

\* A failed upload fails the request, and leaves the file.
PutRemote(i) ==
    /\ saving[i].pc = "putting"
    /\ \/ remote' = remote \cup {i} /\ SaveGoes(i, "indexing")
       \/ remote' \in {remote, remote \cup {i}} /\ SaveGoes(i, "failed")
    /\ UNCHANGED <<mode, local, folder, index, sync, deleting, expired, deleted, early,
                   unentered>>

\* Mutant: without the lock.
IndexSavedAtOnce(i) ==
    /\ saving[i].pc = "indexing"
    /\ index' = Put(index, i, saving[i].mode # "local")
    /\ SaveGoes(i, "saved")
    /\ UNCHANGED <<mode, local, folder, remote, sync, deleting, expired, deleted, early,
                   unentered>>

\* The lock is the index's own, and not held over the writing of the file. Writing the
\* index may fail, and the request with it.
IndexSaved(i) ==
    /\ saving[i].pc = "indexing" /\ LockIsFree
    /\ \/ index' = Put(index, i, saving[i].mode # "local") /\ SaveGoes(i, "saved")
       \/ SaveGoes(i, "failed") /\ UNCHANGED index
    /\ UNCHANGED <<mode, local, folder, remote, sync, deleting, expired, deleted, early,
                   unentered>>

-----------------------------------------------------------------------------
(* The console, on the event loop.                                         *)

\* list_items brings the index up to date: files it does not know, entries without
\* file or copy.
ListImages ==
    /\ LoopFree /\ LockIsFree
    /\ index' = [i \in local \cup {x \in DOMAIN index : index[x]} |-> HasCopy(index, i)]
    /\ UNCHANGED <<mode, local, folder, remote, saving, sync, deleting, expired, deleted,
                   early, unentered>>

DeleteFile(i) ==
    /\ LoopFree /\ i \in local \cup DOMAIN index
    /\ deleting' = [photo |-> i, hadFile |-> i \in local]
    /\ local' = local \ {i}
    /\ Early({i})
    /\ UNCHANGED <<mode, folder, remote, index, saving, sync, expired, deleted, unentered>>

\* Mutant: an entry with a copy stays when its file was there.
DeleteEntryOfCopies ==
    LET i == deleting.photo IN
    /\ i # Nobody /\ LockIsFree
    /\ deleting' = NotDeleting
    /\ \/ deleting.hadFile /\ HasCopy(index, i) /\ UNCHANGED <<index, remote>>
       \/ /\ ~deleting.hadFile /\ remote' = remote \ {i}
          /\ index' = Restrict(index, DOMAIN index \ {i})
    /\ deleted' = deleted \cup {i}
    /\ UNCHANGED <<mode, local, folder, saving, sync, expired, early, unentered>>

\* The copy is deleted, too. An answer of the server that is an error is raised only when
\* there was no file; an error on the way to it, and one of writing the index, always is,
\* and leaves the entry.
DeleteEntry ==
    LET i == deleting.photo IN
    /\ i # Nobody /\ LockIsFree
    /\ deleting' = NotDeleting
    /\ \/ /\ remote' = IF HasCopy(index, i) THEN remote \ {i} ELSE remote
          /\ index' = Restrict(index, DOMAIN index \ {i})
          /\ deleted' = deleted \cup {i} /\ UNCHANGED expired
       \/ /\ HasCopy(index, i) /\ UNCHANGED <<remote, expired>>
          /\ IF deleting.hadFile
             THEN index' = Restrict(index, DOMAIN index \ {i}) /\ deleted' = deleted \cup {i}
             ELSE UNCHANGED <<index, deleted>>
       \/ /\ i \in DOMAIN index
          /\ remote' \in {remote, IF HasCopy(index, i) THEN remote \ {i} ELSE remote}
          /\ expired' = expired \cup {i} /\ UNCHANGED <<index, deleted>>
    /\ UNCHANGED <<mode, local, folder, saving, sync, early, unentered>>

-----------------------------------------------------------------------------
(* sync_all, in a thread, under the index lock from its start to its end.  *)

SyncBegins ==
    /\ LockIsFree /\ mode # "local"
    /\ sync' = [on |-> TRUE, todo |-> local, at |-> Nobody, items |-> index]
    /\ UNCHANGED <<mode, local, folder, remote, index, saving, deleting, expired, deleted,
                   early, unentered>>

\* What has a copy, or is gone meanwhile, is passed over.
SyncReads(i) ==
    /\ sync.on /\ sync.at = Nobody /\ i \in sync.todo
    /\ sync' = [sync EXCEPT !.todo = @ \ {i},
                            !.at = IF i \in local /\ ~HasCopy(sync.items, i) THEN i ELSE Nobody]
    /\ UNCHANGED <<mode, local, folder, remote, index, saving, deleting, expired, deleted,
                   early, unentered>>

SyncPuts ==
    /\ sync.on /\ sync.at # Nobody
    /\ \/ /\ remote' = remote \cup {sync.at}
          /\ sync' = [sync EXCEPT !.at = Nobody, !.items = Put(@, sync.at, TRUE)]
          /\ Early({sync.at}) /\ UNCHANGED unentered
       \/ /\ remote' = remote \cup {sync.at}
          /\ sync' = [sync EXCEPT !.at = Nobody]
          /\ Early({sync.at}) /\ unentered' = unentered \cup {sync.at}
       \/ sync' = [sync EXCEPT !.at = Nobody] /\ UNCHANGED <<remote, early, unentered>>
    /\ UNCHANGED <<mode, local, folder, index, saving, deleting, expired, deleted>>

\* The index is written, or cannot be.
Unentered == unentered \cup {i \in Photos : HasCopy(sync.items, i) /\ ~HasCopy(index, i)}

SyncEnds ==
    /\ sync.on /\ sync.at = Nobody /\ sync.todo = {}
    /\ \/ index' = sync.items /\ unentered' = {i \in unentered : ~HasCopy(index', i)}
       \/ unentered' = Unentered /\ UNCHANGED index
    /\ sync' = NoSync
    /\ UNCHANGED <<mode, local, folder, remote, saving, deleting, expired, deleted, early>>

-----------------------------------------------------------------------------
(* Cleaning up, in any thread: cleanup_old_images, delete_to_target.       *)

\* Old files go, copies and entries stay; an empty folder goes as well.
CleanUp(old) ==
    /\ old \subseteq local
    /\ local' = local \ old /\ expired' = expired \cup old
    /\ folder' = (folder /\ local' # {})
    /\ UNCHANGED <<mode, remote, index, saving, sync, deleting, deleted, early, unentered>>

SetMode ==
    /\ mode' \in StorageModes
    /\ UNCHANGED <<local, folder, remote, index, saving, sync, deleting, expired, deleted,
                   early, unentered>>

\* The process dies in the middle of saves, a deletion or a sync.
RestartFiles ==
    /\ saving' = [i \in Photos |-> IF Open(i) THEN [saving[i] EXCEPT !.pc = "failed"]
                                             ELSE saving[i]]
    /\ sync' = NoSync /\ unentered' = Unentered
    /\ deleting' = NotDeleting
    /\ expired' = IF deleting.hadFile THEN expired \cup {deleting.photo} ELSE expired
    /\ UNCHANGED <<mode, local, folder, remote, index, deleted, early>>

-----------------------------------------------------------------------------
ImageInit ==
    /\ mode \in StorageModes
    /\ local = {} /\ folder = FALSE /\ remote = {} /\ index = <<>>
    /\ saving = [i \in Photos |-> [pc |-> "none", mode |-> "local"]]
    /\ sync = NoSync /\ deleting = NotDeleting
    /\ expired = {} /\ deleted = {} /\ early = {} /\ unentered = {}

ImageNext ==
    \/ ListImages \/ DeleteEntry \/ SyncBegins \/ SyncPuts \/ SyncEnds \/ SetMode
    \/ RestartFiles
    \/ \E old \in SUBSET Photos : CleanUp(old)
    \/ \E i \in Photos :
          \/ SaveBegins(i) \/ WriteLocal(i) \/ PutRemote(i) \/ IndexSaved(i)
          \/ DeleteFile(i) \/ SyncReads(i)

ImageSpec == ImageInit /\ [][ImageNext]_imageVars

-----------------------------------------------------------------------------
\* An image whose address was given out can be had until the operator deletes it or its
\* file expires, and after that as long as it has a copy, whatever lists, synchronises,
\* cleans up and fails beside it: no entry of the index is lost. A copy that so far only
\* a running sync knows counts, one that a broken sync has left does not; and nothing is
\* promised of an image that was synchronised or deleted before its save was over, which
\* then overwrites the entry of the sync.
SavedIsServed ==
    \A i \in Photos :
        (saving[i].pc = "saved" /\ i \notin deleted \cup early /\ deleting.photo # i) =>
            \/ i \in local
            \/ i \in expired /\ (i \notin remote \/ i \in unentered)
            \/ i \in remote /\ (HasCopy(index, i) \/ HasCopy(sync.items, i))

\* What was deleted is not there any more, unless its save was still under way.
DeletedIsGone == \A i \in deleted \ early : ~Served(i)
=============================================================================
