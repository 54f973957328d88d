---------------------------- MODULE LibraryStore ----------------------------
(***************************************************************************)
(* The local library: the application store with its revision, the copy of *)
(* it in memory, the files on disk, and those who change them: the delete  *)
(* protocol, the delivery of download outcomes, whole-library saves and    *)
(* the projector of media imports.                                         *)
(*                                                                         *)
(*   row, diskRev  app_library_entries and the revision in app_store_meta  *)
(*   mem, memRev   AppData.library and AppData.store_revision              *)
(*   src           entries whose session directory is in place             *)
(*   trash         payloads moved aside, by operation and entry            *)
(*   marker        marker files beside them                                *)
(*   intent        app_library_delete_intents, by operation and entry      *)
(*   lease         app_operation_leases                                    *)
(*   claimed       AppData.library_delete_keys                             *)
(*   op            one record per delete command                           *)
(*   pend          entries with a download outcome to deliver              *)
(*   dl            one record per thread that delivers                     *)
(*   media         the projector: the revision it read, 0 when idle        *)
(*   up            the process runs                                        *)
(*   adopted       history: memory once took over the revision of the      *)
(*                 store without its rows, after which nothing guards them *)
(***************************************************************************)
EXTENDS Naturals, FiniteSetsExt

CONSTANTS
    Entries, Ops, Deliverers,
    NoOne, Uploader, \* no operation; the upload that may hold a lease
    Budget,          \* bound of each kind of event
    MaxEvents,       \* bound of all of them together
    MaxMishaps       \* bound of the faults and crashes among them

VARIABLES row, diskRev, mem, memRev, src, trash, marker, intent, lease, claimed,
          op, pend, dl, media, up, used, adopted

files == <<src, trash, marker>>
appStore == <<row, diskRev, intent, lease>>
copy == <<mem, memRev, claimed>>
libVars == <<appStore, copy, files, op, pend, dl, media, up, used, adopted>>

Kinds == {"deletes", "downloads", "saves", "imports", "uploads", "faults", "crashes"}

ASSUME LibraryConstants ==
    /\ NoOne \notin Ops /\ Uploader \notin Ops /\ NoOne # Uploader /\ NoOne \notin Entries
    /\ Budget \in [Kinds -> Nat]
    /\ MaxEvents \in Nat /\ MaxMishaps \in Nat

Contents == {"absent", "old", "new"}
IdleOp == [pc |-> "idle", batch |-> {}, todo |-> {}, at |-> {}, expected |-> 0,
           kept |-> TRUE, committed |-> 0]
IdleDelivery == [pc |-> "idle", at |-> NoOne, expected |-> 0, seen |-> "absent"]

Events == MapThenSumSet(LAMBDA k : used[k], Kinds)
Spend(event) ==
    /\ used[event] < Budget[event]
    /\ Events < MaxEvents
    /\ event \in {"faults", "crashes"} => used["faults"] + used["crashes"] < MaxMishaps
    /\ used' = [used EXCEPT ![event] = @ + 1]

LibraryInit ==
    /\ row = [e \in Entries |-> "old"] /\ diskRev = 1
    /\ mem = row /\ memRev = 1
    /\ src = Entries /\ trash = {} /\ marker = {}
    /\ intent = [o \in Ops |-> [e \in Entries |-> "none"]]
    /\ lease = [e \in Entries |-> NoOne]
    /\ claimed = {}
    /\ op = [o \in Ops |-> IdleOp]
    /\ pend = {}
    /\ dl = [d \in Deliverers |-> IdleDelivery]
    /\ media = 0
    /\ up = TRUE
    /\ used = [k \in Kinds |-> 0]
    /\ adopted = FALSE

-----------------------------------------------------------------------------
(* The delete command.                                                     *)

Goto(o, label) == op' = [op EXCEPT ![o].pc = label]
Intended(o, e) == intent[o][e] # "none"
LeasesOf(o) == [e \in Entries |-> IF lease[e] = o THEN NoOne ELSE lease[e]]

remove_library_entries(o, batch) ==
    /\ up /\ op[o].pc = "idle"
    /\ Spend("deletes")
    /\ \A e \in batch : mem[e] # "absent"
    /\ IF batch \cap claimed = {}
       THEN /\ claimed' = claimed \cup batch
            /\ op' = [op EXCEPT ![o] = [IdleOp EXCEPT !.pc = "busy", !.batch = batch,
                                          !.todo = batch, !.expected = memRev]]
       ELSE /\ Goto(o, "done")
            /\ UNCHANGED claimed
    /\ UNCHANGED <<appStore, mem, memRev, files, pend, dl, media, up, adopted>>

entry_busy_reason(o) ==
    /\ up /\ op[o].pc = "busy"
    /\ Goto(o, IF \E e \in op[o].batch : lease[e] # NoOne THEN "fail" ELSE "lease")
    /\ UNCHANGED <<appStore, copy, files, pend, dl, media, up, used, adopted>>

acquire_operation_leases(o) ==
    /\ up /\ op[o].pc = "lease"
    /\ IF \A e \in op[o].batch : lease[e] = NoOne
       THEN /\ lease' = [e \in Entries |-> IF e \in op[o].batch THEN o ELSE lease[e]]
            /\ Goto(o, "stage")
       ELSE Goto(o, "fail") /\ UNCHANGED lease
    /\ UNCHANGED <<row, diskRev, intent, copy, files, pend, dl, media, up, used, adopted>>

(* A file or a directory that cannot be synced fails its step as well, and *)
(* what the step did stays.                                                *)
write_marker(o, e) ==
    /\ up /\ op[o].pc = "stage" /\ e \in op[o].todo
    /\ \/ /\ marker' = marker \cup {<<o, e>>}
          /\ op' = [op EXCEPT ![o].pc = "rename", ![o].at = {e}]
          /\ UNCHANGED used
       \/ /\ Spend("faults")
          /\ Goto(o, "recover")
          /\ marker' \in {marker, marker \cup {<<o, e>>}}
    /\ UNCHANGED <<appStore, copy, src, trash, pend, dl, media, up, adopted>>

(* The directory is moved, or was missing already.                         *)
move_to_trash(o, e) ==
    /\ up /\ op[o].pc = "rename" /\ op[o].at = {e}
    /\ LET todo == op[o].todo \ {e}
           next == IF todo = {} THEN "record" ELSE "stage"
           moved == /\ src' = src \ {e}
                    /\ trash' = IF e \in src THEN trash \cup {<<o, e>>} ELSE trash
       IN  \/ /\ moved
              /\ op' = [op EXCEPT ![o].pc = next, ![o].todo = todo]
              /\ UNCHANGED used
           \/ /\ Spend("faults")
              /\ moved \/ UNCHANGED <<src, trash>>
              /\ Goto(o, "recover")
    /\ UNCHANGED <<appStore, copy, marker, pend, dl, media, up, adopted>>

(* recover_orphan_markers looks at every operation in the trash, not only  *)
(* at its own, in the order of the directory, and stops at one it cannot   *)
(* decide: its payload and the directory it came from are both there.      *)
Orphans == {x \in marker : ~Intended(x[1], x[2])}
Ambiguous(x) == x \in trash /\ x[2] \in src
Restorable(xs) ==
    /\ \A x \in xs : ~Ambiguous(x)
    /\ \A x, y \in xs \cap trash : x[2] = y[2] => x = y
(* Mutant: the marker goes and the payload stays where it is.              *)
RestoredNothing(xs) == src
RestoredSrc(xs) == src \cup {x[2] : x \in xs \cap trash}

recover_orphan_markers(o) ==
    /\ up /\ op[o].pc = "recover"
    /\ \E done \in SUBSET Orphans :
          /\ Restorable(done)
          /\ done = Orphans \/ \E x \in Orphans \ done : ~Restorable(done \cup {x})
          /\ src' = RestoredSrc(done)
          /\ trash' = trash \ done
          /\ marker' = marker \ done
    /\ lease' = LeasesOf(o)
    /\ Goto(o, "fail")
    /\ UNCHANGED <<row, diskRev, intent, copy, pend, dl, media, up, used, adopted>>

record_library_delete_intents(o) ==
    /\ up /\ op[o].pc = "record"
    /\ \/ /\ intent' = [intent EXCEPT ![o] =
                          [e \in Entries |-> IF e \in op[o].batch THEN "staged" ELSE "none"]]
          /\ Goto(o, "commit")
          /\ UNCHANGED used
       \/ /\ Spend("faults")
          /\ op' = [op EXCEPT ![o].pc = "rollback", ![o].kept = FALSE, ![o].todo = op[o].batch]
          /\ UNCHANGED intent
    /\ UNCHANGED <<row, diskRev, lease, copy, files, pend, dl, media, up, adopted>>

(* Mutant: the revision is not compared.                                   *)
RevisionAny(expected) == TRUE
RevisionIs(expected) == diskRev = expected

commit_library_delete_if_revision(o) ==
    /\ up /\ op[o].pc = "commit"
    /\ LET batch == op[o].batch
           removed == \E e \in batch : row[e] # "absent"
       IN  \/ /\ RevisionIs(op[o].expected)
              /\ row' = [e \in Entries |-> IF e \in batch THEN "absent" ELSE row[e]]
              /\ diskRev' = IF removed THEN diskRev + 1 ELSE diskRev
              /\ intent' = [intent EXCEPT ![o] =
                              [e \in Entries |-> IF @[e] = "staged" THEN "committed" ELSE @[e]]]
              /\ op' = [op EXCEPT ![o].pc = "cleanup", ![o].todo = batch, ![o].committed = diskRev']
              /\ UNCHANGED used
           \/ /\ ~RevisionIs(op[o].expected)
              /\ op' = [op EXCEPT ![o].pc = "rollback", ![o].todo = batch]
              /\ UNCHANGED <<row, diskRev, intent, used>>
           \/ /\ Spend("faults")
              /\ op' = [op EXCEPT ![o].pc = "rollback", ![o].todo = batch]
              /\ UNCHANGED <<row, diskRev, intent>>
    /\ UNCHANGED <<lease, copy, files, pend, dl, media, up, adopted>>

(* Mutant: a refused commit empties the trash.                             *)
rollback_discards(o, e) ==
    /\ up /\ op[o].pc = "rollback" /\ e \in op[o].todo
    /\ marker' = marker \ {<<o, e>>} /\ trash' = trash \ {<<o, e>>}
    /\ op' = [op EXCEPT ![o].todo = @ \ {e}, ![o].pc = IF op[o].todo = {e} THEN "abort" ELSE "rollback"]
    /\ UNCHANGED <<appStore, copy, src, pend, dl, media, up, used, adopted>>

(* rollback_staged moves each payload back; the marker goes either way.    *)
rollback_staged(o, e) ==
    /\ up /\ op[o].pc = "rollback" /\ e \in op[o].todo
    /\ marker' = marker \ {<<o, e>>}
    /\ LET todo == op[o].todo \ {e}
           step(ok) == op' = [op EXCEPT ![o].todo = todo, ![o].at = IF ok THEN @ ELSE {NoOne},
                                ![o].pc = IF todo = {} THEN "abort" ELSE "rollback"]
       IN  \/ /\ <<o, e>> \in trash => e \notin src
              /\ trash' = trash \ {<<o, e>>}
              /\ src' = IF <<o, e>> \in trash THEN src \cup {e} ELSE src
              /\ step(TRUE)
              /\ UNCHANGED used
           \/ /\ <<o, e>> \in trash /\ e \in src
              /\ step(FALSE)
              /\ UNCHANGED <<src, trash, used>>
           \/ /\ <<o, e>> \in trash /\ e \notin src
              /\ Spend("faults")
              /\ \/ UNCHANGED <<src, trash>>
                 \/ src' = src \cup {e} /\ trash' = trash \ {<<o, e>>}
              /\ step(FALSE)
    /\ UNCHANGED <<appStore, copy, pend, dl, media, up, adopted>>

(* The intents and leases go when every payload is back, or when the       *)
(* intents could not be recorded in the first place.                       *)
abort_library_delete(o) ==
    /\ up /\ op[o].pc = "abort"
    /\ \/ /\ op[o].at # {NoOne} \/ ~op[o].kept
          /\ intent' = [intent EXCEPT ![o] =
                            [e \in Entries |-> IF @[e] = "staged" THEN "none" ELSE @[e]]]
          /\ lease' = LeasesOf(o)
          /\ UNCHANGED used
       \/ /\ op[o].at # {NoOne} \/ ~op[o].kept
          /\ Spend("faults")
          /\ UNCHANGED <<intent, lease>>
       \/ /\ op[o].at = {NoOne} /\ op[o].kept
          /\ UNCHANGED <<intent, lease, used>>
    /\ Goto(o, "fail")
    /\ UNCHANGED <<row, diskRev, copy, files, pend, dl, media, up, adopted>>

cleanup_committed_delete(o, e) ==
    /\ up /\ op[o].pc = "cleanup" /\ e \in op[o].todo
    /\ marker' = marker \ {<<o, e>>}
    /\ LET todo == op[o].todo \ {e}
       IN  \/ /\ trash' = trash \ {<<o, e>>}
              /\ op' = [op EXCEPT ![o].todo = todo,
                          ![o].pc = IF todo = {} THEN "finalize" ELSE "cleanup"]
              /\ UNCHANGED used
           \/ /\ Spend("faults")
              /\ Goto(o, "settle")
              /\ UNCHANGED trash
    /\ UNCHANGED <<appStore, copy, src, pend, dl, media, up, adopted>>

finalize_library_delete(o) ==
    /\ up /\ op[o].pc = "finalize"
    /\ \/ /\ intent' = [intent EXCEPT ![o] = [e \in Entries |-> "none"]]
          /\ lease' = LeasesOf(o)
          /\ UNCHANGED used
       \/ /\ Spend("faults")
          /\ UNCHANGED <<intent, lease>>
    /\ Goto(o, "settle")
    /\ UNCHANGED <<row, diskRev, copy, files, pend, dl, media, up, adopted>>

(* Back in the command: memory follows, or only the claims are released.   *)
release_library_delete_keys(o) ==
    /\ up /\ op[o].pc \in {"settle", "fail"}
    /\ claimed' = claimed \ op[o].batch
    /\ IF op[o].pc = "settle"
       THEN /\ mem' = [e \in Entries |-> IF e \in op[o].batch THEN "absent" ELSE mem[e]]
            /\ memRev' = op[o].committed
       ELSE UNCHANGED <<mem, memRev>>
    /\ Goto(o, "done")
    /\ UNCHANGED <<appStore, files, pend, dl, media, up, used, adopted>>

-----------------------------------------------------------------------------
(* A download publishes files for an entry, and its outcome is delivered   *)
(* by any of several threads: read under the lock, verify the files, write *)
(* under the lock if the library did not move.                             *)

(* A second outcome of one entry waits until the first is delivered.       *)
download_session(e) ==
    /\ up /\ e \notin pend /\ Spend("downloads")
    /\ pend' = pend \cup {e}
    /\ src' = src \cup {e}
    /\ UNCHANGED <<appStore, copy, trash, marker, op, dl, media, up, adopted>>

apply_download_completion(d, e) ==
    /\ up /\ dl[d].pc = "idle" /\ e \in pend /\ e \in src
    /\ dl' = [dl EXCEPT ![d] = [pc |-> "write", at |-> e, expected |-> memRev, seen |-> mem[e]]]
    /\ UNCHANGED <<appStore, copy, files, op, pend, media, up, used, adopted>>

Deferred(d) == dl' = [dl EXCEPT ![d] = IdleDelivery]
Acknowledge(d) == dl' = [dl EXCEPT ![d].pc = "ack"]

upsert_library_entry_if_revision(d) ==
    /\ up /\ dl[d].pc = "write"
    /\ LET e == dl[d].at
           expected == dl[d].expected
       IN  \/ /\ memRev # expected /\ row[e] = "new"
              /\ mem' = [mem EXCEPT ![e] = "new"] /\ memRev' = diskRev
              /\ adopted' = (adopted \/ memRev # diskRev)
              /\ Acknowledge(d)
              /\ UNCHANGED <<row, diskRev>>
           \/ /\ \/ memRev # expected /\ row[e] # "new"
                 \/ memRev = expected /\ mem[e] # dl[d].seen
                 \/ memRev = expected /\ mem[e] = dl[d].seen /\ mem[e] # "new"
                    /\ ~RevisionIs(expected)
              /\ Deferred(d)
              /\ UNCHANGED <<row, diskRev, mem, memRev, adopted>>
           \/ /\ memRev = expected /\ mem[e] = dl[d].seen /\ mem[e] = "new"
              /\ Acknowledge(d)
              /\ UNCHANGED <<row, diskRev, mem, memRev, adopted>>
           \/ /\ memRev = expected /\ mem[e] = dl[d].seen /\ mem[e] # "new"
              /\ RevisionIs(expected)
              /\ row' = [row EXCEPT ![e] = "new"] /\ diskRev' = diskRev + 1
              /\ mem' = [mem EXCEPT ![e] = "new"] /\ memRev' = diskRev + 1
              /\ Acknowledge(d)
              /\ UNCHANGED adopted
    /\ UNCHANGED <<intent, lease, claimed, files, op, pend, media, up, used>>

acknowledge_projected_completion(d) ==
    /\ up /\ dl[d].pc = "ack"
    /\ pend' = pend \ {dl[d].at}
    /\ Deferred(d)
    /\ UNCHANGED <<appStore, copy, files, op, media, up, used, adopted>>

-----------------------------------------------------------------------------
(* Whole-library saves, media imports, uploads, the end of the process.    *)

persist_result ==
    /\ up /\ Spend("saves")
    /\ RevisionIs(memRev)
    /\ row' = mem /\ diskRev' = diskRev + 1 /\ memRev' = diskRev + 1
    /\ UNCHANGED <<intent, lease, mem, claimed, files, op, pend, dl, media, up, adopted>>

load_projection ==
    /\ up /\ media = 0
    /\ Spend("imports")
    /\ media' = diskRev
    /\ UNCHANGED <<appStore, copy, files, op, pend, dl, up, adopted>>

(* The commit of a projection moves the shared revision; a conflict reads  *)
(* it again.                                                               *)
replace_media_library_entry_if_revision ==
    /\ up /\ media # 0
    /\ IF RevisionIs(media)
       THEN diskRev' = diskRev + 1 /\ media' = 0
       ELSE media' = diskRev /\ UNCHANGED diskRev
    /\ UNCHANGED <<row, intent, lease, copy, files, op, pend, dl, up, used, adopted>>

acquire_upload_lease(e) ==
    /\ up /\ Spend("uploads")
    /\ lease[e] = NoOne /\ mem[e] # "absent"
    /\ lease' = [lease EXCEPT ![e] = Uploader]
    /\ UNCHANGED <<row, diskRev, intent, copy, files, op, pend, dl, media, up, adopted>>

release_upload_lease(e) ==
    /\ up /\ lease[e] = Uploader
    /\ lease' = [lease EXCEPT ![e] = NoOne]
    /\ UNCHANGED <<row, diskRev, intent, copy, files, op, pend, dl, media, up, used, adopted>>

crash ==
    /\ up /\ Spend("crashes")
    /\ up' = FALSE
    /\ op' = [o \in Ops |-> IF op[o].pc = "idle" THEN IdleOp ELSE [IdleOp EXCEPT !.pc = "done"]]
    /\ dl' = [d \in Deliverers |-> IdleDelivery]
    /\ media' = 0
    /\ claimed' = {}
    /\ UNCHANGED <<appStore, mem, memRev, files, pend, adopted>>

(* Startup: load the store, undo the operations that were staged, finish   *)
(* the ones that were committed, restore what a marker names and nobody    *)
(* recorded, drop the leases that are left.  An ambiguous payload stops it.*)
Staged(x) == intent[x[1]][x[2]] = "staged"

recover_pending_deletes ==
    /\ ~up
    /\ LET pairs == Ops \X Entries
           back == {x \in pairs : Staged(x)} \cup Orphans
       IN  /\ Restorable(back)
           /\ src' = RestoredSrc(back)
           /\ trash' = {x \in trash : ~Intended(x[1], x[2]) /\ x \notin back}
    /\ marker' = {}
    /\ intent' = [o \in Ops |-> [e \in Entries |-> "none"]]
    /\ lease' = [e \in Entries |-> NoOne]
    /\ mem' = row /\ memRev' = diskRev
    /\ up' = TRUE
    /\ UNCHANGED <<row, diskRev, claimed, op, pend, dl, media, used, adopted>>

-----------------------------------------------------------------------------
delete_entries(o) ==
    \/ entry_busy_reason(o) \/ acquire_operation_leases(o) \/ recover_orphan_markers(o)
    \/ record_library_delete_intents(o) \/ commit_library_delete_if_revision(o)
    \/ abort_library_delete(o) \/ finalize_library_delete(o)
    \/ release_library_delete_keys(o)
    \/ \E e \in Entries : \/ write_marker(o, e) \/ move_to_trash(o, e)
                          \/ rollback_staged(o, e) \/ cleanup_committed_delete(o, e)

deliver_terminal_outcomes(d) ==
    \/ \E e \in Entries : apply_download_completion(d, e)
    \/ upsert_library_entry_if_revision(d)
    \/ acknowledge_projected_completion(d)

LibraryNext ==
    \/ \E o \in Ops : delete_entries(o)
    \/ \E o \in Ops, batch \in (SUBSET Entries) \ {{}} : remove_library_entries(o, batch)
    \/ \E e \in Entries : download_session(e) \/ acquire_upload_lease(e) \/ release_upload_lease(e)
    \/ \E d \in Deliverers : deliver_terminal_outcomes(d)
    \/ persist_result \/ load_projection \/ replace_media_library_entry_if_revision
    \/ crash \/ recover_pending_deletes

LibrarySpec == LibraryInit /\ [][LibraryNext]_libVars

LibraryFairSpec ==
    /\ LibrarySpec
    /\ \A o \in Ops : WF_libVars(delete_entries(o))
    /\ \A d \in Deliverers : WF_libVars(deliver_terminal_outcomes(d))
    /\ WF_libVars(replace_media_library_entry_if_revision)

-----------------------------------------------------------------------------
(* Properties.                                                             *)

(* Every variable stays in the shape the store and the threads give it.    *)
LibraryTypeOK ==
    /\ row \in [Entries -> Contents] /\ mem \in [Entries -> Contents]
    /\ diskRev \in Nat /\ memRev \in 1..diskRev
    /\ src \subseteq Entries /\ trash \subseteq Ops \X Entries /\ marker \subseteq Ops \X Entries
    /\ intent \in [Ops -> [Entries -> {"none", "staged", "committed"}]]
    /\ lease \in [Entries -> Ops \cup {NoOne, Uploader}]
    /\ claimed \subseteq Entries /\ pend \subseteq Entries /\ adopted \in BOOLEAN

InFlight(e) == \E o \in Ops : op[o].pc \notin {"idle", "done"} /\ e \in op[o].batch

(* The files of a library row whose entry no delete is working on are in   *)
(* place, or in the trash where the next start looks for them, under an    *)
(* intent or a marker: also after a crash, and after any single failure of *)
(* a rename or a write (a failure and a crash break it: MaxMishaps = 2).   *)
(* The one exception is a row brought back by a save from an adopted       *)
(* revision.                                                               *)
RowKeepsFiles ==
    ~adopted => \A e \in Entries : row[e] # "absent" /\ ~InFlight(e) =>
        e \in src \/ \E o \in Ops : <<o, e>> \in trash /\ (Staged(<<o, e>>) \/ <<o, e>> \in Orphans)

(* The files are in place, or the delete that took them away is recorded:  *)
(* "restore any entries staged before the failure" (delete_entries).       *)
RowHasFiles ==
    up /\ ~adopted => \A e \in Entries : row[e] # "absent" /\ ~InFlight(e) =>
        e \in src \/ \E o \in Ops : Intended(o, e)

(* Files are destroyed only after the row is gone: a payload leaves the    *)
(* trash for good only when its delete was committed.                      *)
FilesOutliveRow ==
    [][\A o \in Ops, e \in Entries :
          <<o, e>> \in trash /\ <<o, e>> \notin trash' /\ e \notin src' =>
              intent[o][e] = "committed"]_libVars

(* A row that was deleted comes back only by delivering a download, as     *)
(* long as memory never took over a revision without its rows: the         *)
(* revision guards every write against a stale copy in memory.             *)
Delivering(e) == \E d \in Deliverers : dl[d].pc = "write" /\ dl[d].at = e
Returns(e) == row[e] = "absent" /\ row'[e] # "absent"
DeletedStaysDeleted ==
    [][\A e \in Entries : Returns(e) => Delivering(e) \/ adopted]_libVars

(* The same without the exception.                                         *)
DeletedNeverReturns == [][\A e \in Entries : Returns(e) => Delivering(e)]_libVars

(* A download whose outcome is recorded and whose files are in place       *)
(* reaches the library.                                                    *)
DownloadIsDelivered == \A e \in Entries : (e \in pend) ~> (e \notin pend \/ e \notin src)
=============================================================================
