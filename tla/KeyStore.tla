------------------------------- MODULE KeyStore -------------------------------
(***************************************************************************)
(* The storage of accounts and API keys (services/storage) under the two   *)
(* services that use it: services/auth_service.py, which rereads the keys  *)
(* before it changes them, and services/account_service.py, which writes   *)
(* all accounts after every change.  Each service works under a lock of    *)
(* its own, and both share the backend: files that are overwritten, a      *)
(* database in which a save is a transaction, or a Git repository that is  *)
(* pulled, changed, committed and pushed.                                  *)
(*                                                                         *)
(* A version number stands for the accounts, a set for the keys.           *)
(***************************************************************************)
EXTENDS Naturals, FiniteSets

CONSTANTS
    ApiKeys,    \* API keys that are created
    Backends,   \* "json", "database", "git"
    MaxSaves,   \* bound: saves of the accounts
    MaxFaults   \* bound: crashes, failures and saves that overlap

ASSUME KeyStoreAssumption ==
    Backends \subseteq {"json", "database", "git"} /\ {MaxSaves, MaxFaults} \subseteq Nat

VARIABLES
    backend,
    files,      \* what the file, the table or the working tree holds of each document
    staged,     \* Git: what is staged in the clone
    head,       \* Git: the last commit of the clone
    branch,     \* Git: the remote branch
    cloned,     \* Git: whether the clone is there
    memory,     \* the keys in the memory of auth_service
    saver,      \* each service: where its save is, its value, what it was asked for, and
                \* what it has read of the index
    confirmed,  \* what callers were told is saved: the accounts, and the keys that were
                \* created and nobody tried to delete
    refused,    \* keys somebody was told are deleted
    faults      \* what went wrong: how often, and which data may suffer from it

storeVars == <<backend, files, staged, head, branch, cloned, memory, saver, confirmed, refused,
               faults>>

Documents == {"accounts", "keys"}
Empty(d)  == IF d = "accounts" THEN 0 ELSE {}
Repo      == [accounts |-> 0, keys |-> {}]
Rest      == [pc |-> "idle", value |-> {}, task |-> <<"none">>, seen |-> Repo]
Other(d)  == IF d = "accounts" THEN "keys" ELSE "accounts"

Asked(d, pc, value, task) ==
    saver' = [saver EXCEPT ![d] = [pc |-> pc, value |-> value, task |-> task, seen |-> Repo]]
Continues(d, pc, seen) == saver' = [saver EXCEPT ![d].pc = pc, ![d].seen = seen]
Fault(kind) == /\ faults.count < MaxFaults
               /\ faults' = [count |-> faults.count + 1, kinds |-> faults.kinds \cup {kind}]

Suffered(kind) == kind \in faults.kinds

\* GitPython reads the index for add and the index and the head for commit, and writes them
\* back: two services that are between the two at once lose one of the changes.
Beside(d, pc) ==
    IF saver[Other(d)].pc = pc THEN Fault("overlap") ELSE UNCHANGED faults

-----------------------------------------------------------------------------
(* _clone_or_pull: nobody else pushes, so a pull changes nothing, and one  *)
(* that fails (the network, a head that lost what was pushed) costs the    *)
(* clone. The other backends have nothing to fetch.                        *)

Fetched ==
    \/ backend # "git" /\ UNCHANGED <<files, staged, head, cloned, faults>>
    \/ backend = "git" /\ cloned /\ UNCHANGED <<files, staged, head, cloned, faults>>
    \/ /\ backend = "git"
       /\ files' = branch /\ staged' = branch /\ head' = branch /\ cloned' = TRUE
       /\ IF cloned /\ ~Suffered("overlap") THEN Fault("network") ELSE UNCHANGED faults

\* The repository cannot be cloned either; the query of the database fails.
FetchFails ==
    \/ /\ backend = "git" /\ Fault("network")
       /\ files' = Repo /\ staged' = Repo /\ head' = Repo /\ cloned' = FALSE
    \/ backend = "database" /\ Fault("unread") /\ UNCHANGED <<files, staged, head, cloned>>

\* _load: whatever is wrong, there are no keys.
LoadedKeys(keys) ==
    \/ Fetched /\ keys = files'.keys
    \/ FetchFails /\ keys = {}

-----------------------------------------------------------------------------
(* auth_service: one operation at a time under its lock.                   *)

UpdateOf(k, create) == IF create THEN <<"create", k>> ELSE <<"delete", k>>

\* create_key and delete_key reread the keys, and save them with the change.
ChangeKeys(k, create) ==
    /\ saver["keys"].pc = "idle"
    /\ k \in confirmed.keys => ~create
    /\ k \notin refused
    /\ \E keys \in SUBSET ApiKeys :
          /\ LoadedKeys(keys)
          /\ create \/ k \in keys
          /\ memory' = IF create THEN keys \cup {k} ELSE keys \ {k}
    /\ Asked("keys", "saving", memory', UpdateOf(k, create))
    /\ confirmed' = [confirmed EXCEPT !.keys = @ \ {k}]
    /\ UNCHANGED <<backend, branch, refused>>

\* list_keys, and delete_key of a key that is not there.
ListKeys ==
    /\ saver["keys"].pc = "idle"
    /\ \E keys \in SUBSET ApiKeys : LoadedKeys(keys) /\ memory' = keys
    /\ UNCHANGED <<backend, branch, saver, confirmed, refused>>

\* authenticate notes the use of a key, and saves the keys as they are in memory.
Authenticate ==
    /\ saver["keys"].pc = "idle" /\ memory # {}
    /\ Asked("keys", "saving", memory, <<"use">>)
    /\ UNCHANGED <<backend, files, staged, head, branch, cloned, memory, confirmed, refused,
                   faults>>

\* _save_accounts
SaveAccounts ==
    /\ saver["accounts"].pc = "idle" /\ confirmed.accounts < MaxSaves
    /\ Asked("accounts", "saving", confirmed.accounts + 1, <<"save">>)
    /\ UNCHANGED <<backend, files, staged, head, branch, cloned, memory, confirmed, refused,
                   faults>>

-----------------------------------------------------------------------------
(* The steps of a save.                                                    *)

\* The caller is told.
Told(d) ==
    LET task == saver[d].task IN
    /\ saver' = [saver EXCEPT ![d] = Rest]
    /\ confirmed' = CASE task[1] = "save"   -> [confirmed EXCEPT !.accounts = saver[d].value]
                      [] task[1] = "create" -> [confirmed EXCEPT !.keys = @ \cup {task[2]}]
                      [] OTHER              -> confirmed
    /\ refused' = IF task[1] = "delete" THEN refused \cup {task[2]} ELSE refused

\* Database: delete, insert and commit; a failure rolls back and raises.
SaveRows(d) ==
    /\ backend = "database" /\ saver[d].pc = "saving"
    /\ files' = [files EXCEPT ![d] = saver[d].value]
    /\ Told(d)
    /\ UNCHANGED <<backend, staged, head, branch, cloned, memory, faults>>

\* A save raises: the repository or the database is not there; a file was emptied and
\* cannot be written; the index of the clone is locked by the other service's add.
Unwritten(d) ==
    /\ backend # "database" /\ saver[d].pc = "writing" /\ Fault("torn")
    /\ files' = [files EXCEPT ![d] = Empty(d)] /\ UNCHANGED <<staged, head, cloned>>

Locked(d) ==
    /\ backend = "git" /\ saver[d].pc = "adding" /\ saver[Other(d)].pc = "adding"
    /\ Beside(d, "adding") /\ UNCHANGED <<files, staged, head, cloned>>

Raises(d) ==
    \/ backend = "git" /\ saver[d].pc = "saving" /\ FetchFails
    \/ Unwritten(d)
    \/ Locked(d)

\* Mutant: nothing rolls back what the delete did.
RaisesDeleting(d) ==
    /\ \/ Raises(d)
       \/ /\ backend = "database" /\ saver[d].pc = "saving" /\ Fault("raised")
          /\ files' = [files EXCEPT ![d] = Empty(d)] /\ UNCHANGED <<staged, head, cloned>>
    /\ saver' = [saver EXCEPT ![d] = Rest]
    /\ UNCHANGED <<backend, branch, memory, confirmed, refused>>
SaveRaises(d) ==
    /\ \/ Raises(d)
       \/ /\ backend = "database" /\ saver[d].pc = "saving" /\ Fault("raised")
          /\ UNCHANGED <<files, staged, head, cloned>>
    /\ saver' = [saver EXCEPT ![d] = Rest]
    /\ UNCHANGED <<backend, branch, memory, confirmed, refused>>

\* JSON: the file is emptied, then written.
OpenFile(d) ==
    /\ backend = "json" /\ saver[d].pc = "saving"
    /\ files' = [files EXCEPT ![d] = Empty(d)]
    /\ Continues(d, "writing", Repo)
    /\ UNCHANGED <<backend, staged, head, branch, cloned, memory, confirmed, refused,
                   faults>>

WriteFile(d) ==
    /\ backend = "json" /\ saver[d].pc = "writing"
    /\ files' = [files EXCEPT ![d] = saver[d].value]
    /\ Told(d)
    /\ UNCHANGED <<backend, staged, head, branch, cloned, memory, faults>>

\* Git: the file is written into a clone that was pulled.
Pull(d) ==
    /\ backend = "git" /\ saver[d].pc = "saving"
    /\ Fetched
    /\ Continues(d, "writing", Repo)
    /\ UNCHANGED <<backend, branch, memory, confirmed, refused>>

\* The file is written, and the index read for add.
WriteTree(d) ==
    /\ backend = "git" /\ saver[d].pc = "writing"
    /\ files' = [files EXCEPT ![d] = saver[d].value]
    /\ Continues(d, "adding", staged)
    /\ UNCHANGED <<backend, staged, head, branch, cloned, memory, confirmed, refused,
                   faults>>

\* add writes the index it has read, with the file in it.
Stage(d) ==
    /\ backend = "git" /\ saver[d].pc = "adding"
    /\ staged' = [saver[d].seen EXCEPT ![d] = files[d]]
    /\ Beside(d, "adding")
    /\ Continues(d, "checking", Repo)
    /\ UNCHANGED <<backend, files, head, branch, cloned, memory, confirmed, refused>>

\* is_dirty, and commit reads the index. When the clone was replaced or is gone, nothing
\* of it is left to commit.
IsDirty(d) ==
    /\ backend = "git" /\ saver[d].pc = "checking"
    /\ IF cloned /\ (files # staged \/ staged # head)
       THEN Continues(d, "committing", staged) /\ UNCHANGED <<confirmed, refused>>
       ELSE Told(d)
    /\ UNCHANGED <<backend, files, staged, head, branch, cloned, memory, faults>>

\* A commit takes along what the other service has added.
Commit(d) ==
    /\ backend = "git" /\ saver[d].pc = "committing"
    /\ head' = saver[d].seen
    /\ Beside(d, "committing")
    /\ Continues(d, "pushing", Repo)
    /\ UNCHANGED <<backend, files, staged, branch, cloned, memory, confirmed, refused>>

\* push reports a failure in its result, which nobody looks at: the network, or a head
\* that lost what was pushed before.
Push(d) ==
    /\ backend = "git" /\ saver[d].pc = "pushing"
    /\ \/ branch' = head /\ UNCHANGED faults
       \/ Fault("network") /\ UNCHANGED branch
       \/ Suffered("overlap") /\ UNCHANGED <<branch, faults>>
    /\ Told(d)
    /\ UNCHANGED <<backend, files, staged, head, cloned, memory>>

\* The process dies in the middle of anything, and loads everything.
CrashStore ==
    /\ Fault(IF \E d \in Documents : saver[d].pc # "idle" THEN "torn" ELSE "none")
    /\ memory' = files.keys
    /\ saver' = [d \in Documents |-> Rest]
    /\ UNCHANGED <<backend, files, staged, head, branch, cloned, confirmed, refused>>

-----------------------------------------------------------------------------
StoreInit ==
    /\ backend \in Backends
    /\ files = Repo /\ staged = Repo /\ head = Repo /\ branch = Repo /\ cloned = TRUE
    /\ memory = {}
    /\ saver = [d \in Documents |-> Rest]
    /\ confirmed = Repo /\ refused = {}
    /\ faults = [count |-> 0, kinds |-> {}]

StoreNext ==
    \/ \E k \in ApiKeys, create \in BOOLEAN : ChangeKeys(k, create)
    \/ ListKeys \/ Authenticate \/ SaveAccounts \/ CrashStore
    \/ \E d \in Documents :
          \/ SaveRows(d) \/ SaveRaises(d) \/ OpenFile(d) \/ WriteFile(d)
          \/ Pull(d) \/ WriteTree(d) \/ Stage(d) \/ IsDirty(d) \/ Commit(d) \/ Push(d)

StoreSpec == StoreInit /\ [][StoreNext]_storeVars

-----------------------------------------------------------------------------
\* What a load finds when nobody writes: with Git, what a new clone would.
Kept == IF backend = "git" THEN branch ELSE files

\* What a caller was told is saved is there when no save is under way, and a key that was
\* deleted is not back, though the two services share the backend without a lock: a
\* database keeps its promise as long as it can be read (keys that cannot be are lost with
\* the next change), a file unless a write of it fails halfway or the process dies over
\* it, and Git unless the network or the write of a file fails, the process dies between
\* its steps, or both services are in an add, or in a commit, at the same time.
SavedStays ==
    (\A d \in Documents : saver[d].pc = "idle") =>
        \/ backend = "json" /\ Suffered("torn")
        \/ backend = "git" /\ {"network", "torn", "overlap"} \cap faults.kinds # {}
        \/ backend = "database" /\ Suffered("unread")
        \/ /\ Kept.accounts >= confirmed.accounts
           /\ confirmed.keys \subseteq Kept.keys
           /\ refused \cap (Kept.keys \cup memory) = {}
=============================================================================
