--------------------------- MODULE JournalOffline ---------------------------
(***************************************************************************)
(* A journal file between its writer and the thread that takes it offline  *)
(* (managed-journal-file.c, journal-file.c).                               *)
(*                                                                         *)
(* While the state in the header is ONLINE, the file may be incomplete on  *)
(* disk.  Taking it offline means fsync(), changing the header, and        *)
(* fsync() again; a thread does that so that the daemon need not wait.     *)
(* The two sides negotiate over one atomic variable: the writer may cancel *)
(* the thread or send it round again, and must wait for it only once it    *)
(* has begun to change the header.  The file is mapped: the kernel may     *)
(* write any of it back at any time.  fsync() is assumed not to fail (its  *)
(* result is ignored everywhere).                                          *)
(***************************************************************************)
CONSTANTS MaySeal    \* may files have sealing tags?

ASSUME MaySealAssumption == MaySeal \in BOOLEAN

VARIABLES
  offline_state,  \* f->offline_state, the atomic
  archive,        \* f->archive
  sealed,         \* JOURNAL_HEADER_SEALED()
  hdr,            \* f->header->state in the mapping
  diskHdr,        \* the same on disk
  dirty,          \* some data is in the mapping only
  untagged,       \* f->hmac_running: entries follow the last tag
  grown,          \* objects were appended after the thread looked for the end
  cut,            \* objects were cut off by truncating the file
  thread,         \* the thread: none, running, or ended and to be joined
  tpc,            \* where the one who takes the file offline is
  tseen,          \* the offline_state it has read
  op,             \* what the writer is doing
  wpc,            \* where the writer is in set_online() or set_offline()
  wseen,          \* the offline_state the writer has read
  life            \* open, rotated (to be closed later), closed or crashed

tvars == <<tpc, tseen>>
disk == <<diskHdr, dirty>>
content == <<untagged, grown, cut>>
fileVars == <<archive, sealed, life>>
vars == <<offline_state, archive, sealed, hdr, diskHdr, dirty, untagged, grown,
          cut, thread, tpc, tseen, op, wpc, wseen, life>>

(* journal_file_open() of a new file: header and hash tables are written,  *)
(* the header is ONLINE on disk.                                           *)
Init ==
  /\ sealed \in {FALSE, MaySeal}
  /\ hdr = "ONLINE" /\ diskHdr = "ONLINE" /\ dirty = TRUE
  /\ untagged = FALSE /\ grown = FALSE /\ cut = FALSE
  /\ offline_state = "JOINED" /\ archive = FALSE
  /\ thread = "none" /\ tpc = "out" /\ tseen = "JOINED"
  /\ op = "none" /\ wpc = "idle" /\ wseen = "JOINED"
  /\ life = "open"

Up == life \in {"open", "rotated"}

(* Mutated: a plain store.                                                 *)
Exchange_blindly(old, new) == offline_state' = new

(* __atomic_compare_exchange_n() on f->offline_state.                      *)
Exchange(old, new) ==
  offline_state' = IF offline_state = old THEN new ELSE offline_state

Exchanged(old) == offline_state = old
-----------------------------------------------------------------------------
(* managed_journal_file_set_offline_internal(), run by the thread or, if   *)
(* wait was asked for and no thread runs, by the writer itself.            *)

ThreadReturns ==
  /\ tpc' = "out"
  /\ thread' = IF thread = "running" THEN "ended" ELSE thread

(* switch (f->file->offline_state)                                         *)
ThreadSwitch ==
  /\ Up /\ tpc = "switch"
  /\ tseen' = offline_state
  /\ IF offline_state \in {"DONE", "JOINED"}
       THEN ThreadReturns
       ELSE /\ tpc' = CASE offline_state # "SYNCING" -> "cas"
                        [] offline_state = "SYNCING" /\ archive -> "end"
                        [] OTHER -> "sync"
            /\ UNCHANGED thread
  /\ UNCHANGED <<offline_state, fileVars, hdr, disk, content, op, wpc, wseen>>

(* managed_journal_file_truncate() finds the end of the last object...     *)
ThreadFindsEnd ==
  /\ Up /\ tpc = "end"
  /\ grown' = FALSE
  /\ tpc' = "truncate"
  /\ UNCHANGED <<offline_state, fileVars, hdr, disk, untagged, cut, thread,
                 tseen, op, wpc, wseen>>

(* ...and truncates the file there; then managed_journal_file_punch_holes()*)
(* frees what no object uses.                                              *)
ThreadTruncates ==
  /\ Up /\ tpc = "truncate"
  /\ cut' = (cut \/ grown)
  /\ grown' = FALSE
  /\ tpc' = "sync"
  /\ UNCHANGED <<offline_state, fileVars, hdr, disk, untagged, thread, tseen,
                 op, wpc, wseen>>

(* fsync()                                                                 *)
SyncAll == dirty' = FALSE /\ diskHdr' = hdr

ThreadSyncs ==
  /\ Up /\ tpc = "sync"
  /\ SyncAll
  /\ tpc' = "cas"
  /\ UNCHANGED <<offline_state, fileVars, hdr, content, thread, tseen, op, wpc,
                 wseen>>

(* Mutated: going round again from the header is forgotten.                *)
ThreadTarget_once ==
  CASE tseen = "CANCEL" -> "DONE"
    [] tseen = "AGAIN_FROM_SYNCING" -> "SYNCING"
    [] tseen = "SYNCING" -> "OFFLINING"
    [] OTHER -> "DONE"

(* What the thread makes of the state it has read.                         *)
ThreadTarget ==
  CASE tseen = "CANCEL" -> "DONE"
    [] tseen = "AGAIN_FROM_SYNCING" -> "SYNCING"
    [] tseen = "AGAIN_FROM_OFFLINING" -> "SYNCING"
    [] tseen = "SYNCING" -> "OFFLINING"
    [] OTHER -> "DONE"

(* The exchange at the end of every case; when it fails the thread looks   *)
(* at the variable again.                                                  *)
ThreadExchanges ==
  /\ Up /\ tpc = "cas"
  /\ Exchange(tseen, ThreadTarget)
  /\ IF Exchanged(tseen) /\ tseen \in {"CANCEL", "OFFLINING"}
       THEN ThreadReturns
       ELSE /\ tpc' = IF Exchanged(tseen) /\ tseen = "SYNCING" THEN "header"
                                                               ELSE "switch"
            /\ UNCHANGED thread
  /\ UNCHANGED <<fileVars, hdr, disk, content, tseen, op, wpc, wseen>>

ThreadMarks ==
  /\ Up /\ tpc = "header"
  /\ hdr' = IF archive THEN "ARCHIVED" ELSE "OFFLINE"
  /\ tpc' = "sync_header"
  /\ UNCHANGED <<offline_state, fileVars, disk, content, thread, tseen, op, wpc,
                 wseen>>

ThreadSyncsHeader ==
  /\ Up /\ tpc = "sync_header"
  /\ SyncAll
  /\ tpc' = "switch"
  /\ UNCHANGED <<offline_state, fileVars, hdr, content, thread, tseen, op, wpc,
                 wseen>>

Thread == \/ ThreadSwitch \/ ThreadFindsEnd \/ ThreadTruncates \/ ThreadSyncs
          \/ ThreadExchanges \/ ThreadMarks \/ ThreadSyncsHeader
-----------------------------------------------------------------------------
(* The operations of the writer.  An archived file is not appended to any  *)
(* more, but for the tag that closing adds.                                *)

WriterBegins(o, at) ==
  /\ wpc = "idle"
  /\ op' = o /\ wpc' = at
  /\ UNCHANGED <<offline_state, sealed, hdr, disk, content, thread, tvars,
                 wseen>>

(* journal_file_append_object()                                            *)
Append == /\ life = "open"
          /\ WriterBegins("append", "online")
          /\ UNCHANGED <<archive, life>>

(* server_sync()                                                           *)
Sync == /\ life = "open"
        /\ WriterBegins("sync", "offline")
        /\ UNCHANGED <<archive, life>>

(* managed_journal_file_rotate() and the deferred close of the old file.   *)
Rotate == /\ life = "open"
          /\ archive' = TRUE /\ life' = "rotated"
          /\ WriterBegins("rotate", "offline")

(* managed_journal_file_close(): of a file that is in use, of one whose    *)
(* close was deferred and has finished, or, when the next file is opened,  *)
(* of one that is still on its way.                                        *)
Close == /\ Up
         /\ IF sealed /\ untagged THEN WriterBegins("tag", "online")
                                  ELSE WriterBegins("close", "offline")
         /\ UNCHANGED <<archive, life>>

(* The end of an operation: closing a sealed file goes on after the tag.   *)
WriterDone ==
  /\ op' = IF op = "tag" THEN "close" ELSE "none"
  /\ wpc' = IF op = "tag" THEN "offline" ELSE "idle"
  /\ life' = IF op = "close" THEN "closed" ELSE life

WriterAt(here) == Up /\ wpc = here

Writes == <<offline_state, archive, sealed, hdr, disk, content, thread, tvars>>

-----------------------------------------------------------------------------
(* journal_file_set_online()                                               *)

(* Mutated: a thread is joined even if there is none.                      *)
OnlineSwitch_joins ==
  /\ WriterAt("online")
  /\ wseen' = offline_state
  /\ wpc' = IF offline_state \in {"SYNCING", "AGAIN_FROM_SYNCING",
                                  "AGAIN_FROM_OFFLINING"} THEN "online_cas"
                                                          ELSE "online_join"
  /\ UNCHANGED <<Writes, op, life>>

OnlineSwitch ==
  /\ WriterAt("online")
  /\ wseen' = offline_state
  /\ wpc' = CASE offline_state = "JOINED" -> "online_header"
              [] offline_state \in {"SYNCING", "AGAIN_FROM_SYNCING",
                                    "AGAIN_FROM_OFFLINING"} -> "online_cas"
              [] OTHER -> "online_join"
  /\ UNCHANGED <<Writes, op, life>>

(* Where set_online() goes on after it has cancelled the thread.           *)
AfterCancel(seen) ==
  IF seen = "AGAIN_FROM_OFFLINING" THEN "online_join" ELSE "online_header"

OnlineCancels ==
  /\ WriterAt("online_cas")
  /\ Exchange(wseen, "CANCEL")
  /\ wpc' = IF Exchanged(wseen) THEN AfterCancel(wseen) ELSE "online"
  /\ UNCHANGED <<archive, sealed, hdr, disk, content, thread, tvars, op, wseen,
                 life>>

(* journal_file_set_offline_thread_join()                                  *)
Joins(next) ==
  /\ thread = "ended"
  /\ thread' = "none"
  /\ offline_state' = "JOINED"
  /\ wpc' = next
  /\ UNCHANGED <<archive, sealed, hdr, disk, content, tvars, op, wseen, life>>

OnlineJoins == WriterAt("online_join") /\ Joins("online_header")

(* Mutated: the header is not synced before data is written.               *)
OnlineHeader_unsynced ==
  /\ WriterAt("online_header")
  /\ hdr' = IF hdr = "OFFLINE" THEN "ONLINE" ELSE hdr
  /\ IF hdr = "ARCHIVED" THEN WriterDone
                         ELSE wpc' = "write" /\ UNCHANGED <<op, life>>
  /\ UNCHANGED <<offline_state, archive, sealed, disk, content, thread, tvars,
                 wseen>>

(* switch (f->header->state): an archived file cannot go online again.     *)
OnlineHeader ==
  /\ WriterAt("online_header")
  /\ hdr' = IF hdr = "OFFLINE" THEN "ONLINE" ELSE hdr
  /\ IF hdr = "ARCHIVED"
       THEN WriterDone
       ELSE /\ wpc' = IF hdr = "OFFLINE" THEN "online_sync" ELSE "write"
            /\ UNCHANGED <<op, life>>
  /\ UNCHANGED <<offline_state, archive, sealed, disk, content, thread, tvars,
                 wseen>>

OnlineSyncs ==
  /\ WriterAt("online_sync")
  /\ SyncAll
  /\ wpc' = "write"
  /\ UNCHANGED <<offline_state, archive, sealed, hdr, content, thread, tvars, op,
                 wseen, life>>

(* The object is written into the mapping.                                 *)
WriteObject ==
  /\ WriterAt("write")
  /\ dirty' = TRUE
  /\ untagged' = (op = "append")
  /\ grown' = (tpc = "truncate")
  /\ WriterDone
  /\ UNCHANGED <<offline_state, archive, sealed, hdr, diskHdr, cut, thread, tvars,
                 wseen>>
-----------------------------------------------------------------------------
(* managed_journal_file_set_offline()                                      *)

Target == IF archive THEN "ARCHIVED" ELSE "OFFLINE"

managed_journal_file_is_offlining == offline_state \notin {"DONE", "JOINED"}

InTargetState == ~managed_journal_file_is_offlining /\ hdr = Target

OfflineBegins ==
  /\ WriterAt("offline")
  /\ wpc' = IF InTargetState THEN "join_only" ELSE "restart"
  /\ UNCHANGED <<Writes, op, wseen, life>>

(* Nothing to do but to join a thread that has ended.                      *)
JoinOnly ==
  /\ WriterAt("join_only")
  /\ offline_state # "JOINED" => thread = "ended"
  /\ thread' = IF offline_state = "JOINED" THEN thread ELSE "none"
  /\ offline_state' = "JOINED"
  /\ WriterDone
  /\ UNCHANGED <<archive, sealed, hdr, disk, content, tvars, wseen>>

(* Mutated: closing does not wait for the thread.                          *)
Waits_never == FALSE

(* The argument wait: only managed_journal_file_close() sets it.           *)
Waits == op = "close"

(* managed_journal_file_set_offline_try_restart(), and what its caller     *)
(* does with a thread that was restarted already.                          *)
RestartSwitch ==
  /\ WriterAt("restart")
  /\ wseen' = offline_state
  /\ CASE offline_state \in {"CANCEL", "SYNCING", "OFFLINING"} ->
            /\ wpc' = "restart_cas"
            /\ UNCHANGED <<op, life>>
       [] offline_state \in {"AGAIN_FROM_SYNCING", "AGAIN_FROM_OFFLINING"} ->
            IF Waits THEN wpc' = "offline_join" /\ UNCHANGED <<op, life>>
                     ELSE WriterDone
       [] OTHER ->
            /\ wpc' = IF offline_state = "JOINED" THEN "start" ELSE "offline_join"
            /\ UNCHANGED <<op, life>>
  /\ UNCHANGED Writes

RestartExchanges ==
  /\ WriterAt("restart_cas")
  /\ Exchange(wseen, IF wseen = "OFFLINING" THEN "AGAIN_FROM_OFFLINING"
                                            ELSE "AGAIN_FROM_SYNCING")
  /\ IF Exchanged(wseen) /\ ~Waits
       THEN WriterDone
       ELSE /\ wpc' = IF Exchanged(wseen) THEN "offline_join" ELSE "restart"
            /\ UNCHANGED <<op, life>>
  /\ UNCHANGED <<archive, sealed, hdr, disk, content, thread, tvars, wseen>>

(* A thread that was restarted has done the work when it is joined; one    *)
(* that had ended before is followed by a new one.                         *)
OfflineJoins ==
  /\ WriterAt("offline_join")
  /\ thread = "ended"
  /\ thread' = "none"
  /\ offline_state' = "JOINED"
  /\ IF wseen = "DONE" THEN wpc' = "start" /\ UNCHANGED <<op, life>>
                       ELSE WriterDone
  /\ UNCHANGED <<archive, sealed, hdr, disk, content, tvars, wseen>>

(* A new offline, in a thread or, if the caller waits, right here.         *)
Start ==
  /\ WriterAt("start")
  /\ offline_state' = "SYNCING"
  /\ tpc' = "switch"
  /\ IF Waits THEN wpc' = "inline" /\ UNCHANGED <<thread, op, life>>
              ELSE thread' = "running" /\ WriterDone
  /\ UNCHANGED <<archive, sealed, hdr, disk, content, tseen, wseen>>

(* pthread_create() fails.                                                 *)
StartFails ==
  /\ WriterAt("start") /\ ~Waits
  /\ offline_state' = "JOINED"
  /\ WriterDone
  /\ UNCHANGED <<archive, sealed, hdr, disk, content, thread, tvars, wseen>>

InlineReturns ==
  /\ WriterAt("inline") /\ tpc = "out"
  /\ WriterDone
  /\ UNCHANGED <<Writes, wseen>>

Writer == \/ OnlineSwitch \/ OnlineCancels \/ OnlineJoins \/ OnlineHeader
          \/ OnlineSyncs \/ WriteObject
          \/ OfflineBegins \/ JoinOnly \/ RestartSwitch \/ RestartExchanges
          \/ OfflineJoins \/ Start \/ StartFails \/ InlineReturns
-----------------------------------------------------------------------------
(* The kernel writes back data or header pages on its own.                 *)
Writeback ==
  /\ Up
  /\ \/ dirty' = FALSE /\ UNCHANGED diskHdr
     \/ diskHdr' = hdr /\ UNCHANGED dirty
  /\ UNCHANGED <<offline_state, fileVars, hdr, content, thread, tvars, op, wpc,
                 wseen>>

(* Power fails, or the machine crashes: what is not on disk is gone.       *)
Crash ==
  /\ Up
  /\ life' = "crashed"
  /\ UNCHANGED <<offline_state, archive, sealed, hdr, disk, content, thread,
                 tvars, op, wpc, wseen>>

(* managed_journal_file_open_reliably(): a file that is OFFLINE is used    *)
(* again; any other one is moved out of the way, unless rotating has       *)
(* renamed it already, and a new one is created.                           *)
Reopen ==
  /\ ~Up
  /\ hdr' = "ONLINE" /\ diskHdr' = "ONLINE"
  /\ IF diskHdr = "OFFLINE" /\ ~archive
       THEN UNCHANGED <<sealed, dirty, cut>>
       ELSE /\ sealed' \in {FALSE, MaySeal}
            /\ dirty' = TRUE /\ cut' = FALSE
  /\ untagged' = FALSE
  /\ offline_state' = "JOINED" /\ archive' = FALSE /\ grown' = FALSE
  /\ thread' = "none" /\ tpc' = "out" /\ tseen' = "JOINED"
  /\ op' = "none" /\ wpc' = "idle" /\ wseen' = "JOINED"
  /\ life' = "open"

Next == \/ Thread \/ Writer
        \/ Append \/ Sync \/ Rotate \/ Close
        \/ Writeback \/ Crash \/ Reopen

(* The scheduler runs both threads.  Nothing makes the daemon append,      *)
(* sync, rotate or close.                                                  *)
Fairness == WF_vars(Thread) /\ WF_vars(Writer)

Spec == Init /\ [][Next]_vars /\ Fairness
-----------------------------------------------------------------------------
(* A crash at any moment leaves a file that says ONLINE unless all of its  *)
(* data is on disk: what journal_file_verify_header() relies on.           *)
CleanIsComplete == diskHdr # "ONLINE" => ~dirty

(* The writer never joins a thread that does not exist or was joined.      *)
JoinsOnce ==
  /\ wpc \in {"online_join", "offline_join"} => thread # "none"
  /\ wpc = "join_only" => (offline_state = "JOINED" <=> thread = "none")

(* The header has one writer at a time: the thread changes it only while   *)
(* the file is on its way offline, and set_online() only when it cannot.   *)
HeaderHasOneWriter ==
  ~ (tpc \in {"header", "sync_header"} /\ wpc \in {"online_header", "online_sync", "write"})

(* A file that was closed, and whose memory is freed, is not in use by any *)
(* thread, and on disk it is offline or, if it was rotated, archived.      *)
ClosedIsClean ==
  life = "closed" => /\ thread = "none" /\ tpc = "out"
                     /\ diskHdr = (IF archive THEN "ARCHIVED" ELSE "OFFLINE")

(* Truncating an archived file removes no objects if it is not sealed.     *)
UnsealedIsNotCut == ~sealed => ~cut

Disk == INSTANCE JournalDisk WITH state <- diskHdr, missing <- dirty

(* Whatever the threads do, data reaches the file only while the header    *)
(* on disk says ONLINE, and that changes only once the data is there.      *)
ImplementsJournalDisk == Disk!Spec

(* No operation of the writer blocks for ever, and a rotated file for      *)
(* which a thread was started ends up archived on disk.                    *)
WriterReturns == (wpc # "idle" /\ Up) ~> (wpc = "idle" \/ ~Up)
RotatedIsArchived ==
  (life = "rotated" /\ wpc = "idle" /\ thread # "none")
     ~> (diskHdr = "ARCHIVED" \/ life = "crashed")

(* managed-journal-file.c:26: "truncate excess from the end of archives".  *)
OnlyExcessIsCut == ~cut

(* JOURNAL_FILE_FORMAT.md:697: "Before the file is closed a tag should be  *)
(* written too, to seal it off."                                           *)
ClosedIsTagged == life = "closed" /\ sealed => ~untagged
=============================================================================
