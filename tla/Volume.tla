------------------------------- MODULE Volume -------------------------------
(***************************************************************************)
(* runtime-fs/littlefs: a file system in a file of the host, or in memory, *)
(* where it starts empty and goes with its volume.  littlefs (external)    *)
(* commits every change of its directories whole: it programs it, then it  *)
(* asks the volume to sync.  Between the two, and after a sync that        *)
(* failed, the change is in buffers, and may or may not be on the disk     *)
(* when the process dies.  Any call of the host, of the allocator or of    *)
(* littlefs may fail.  The contents of a file are its size.                *)
(***************************************************************************)
EXTENDS Naturals, FiniteSets

CONSTANTS Names, MaxSize
ASSUME VolumeAssumption == IsFiniteSet(Names) /\ MaxSize \in Nat

VARIABLES
  host,    \* the image on the host's disk
  image,   \* the image as littlefs wrote it, the part in buffers included
  mount,   \* the call of fs_vol_init_file, or that a volume is mounted
  commit,  \* the call whose commit is programmed and not yet synced
  file,    \* the open file of each name: fs_file_t over lfs_file_t
  iter,    \* the iterators of directories that are open
  blocks,  \* history: blocks of memory the volume allocated
  kept     \* history: the sizes each file may have, by what its callers were told

volVars == <<host, image, mount, commit, file, iter, blocks, kept>>

Absent == MaxSize + 1
Nothing == [n \in Names |-> Absent]
NoImage == [there |-> FALSE, formatted |-> FALSE, files |-> Nothing]
NoFile == [open |-> FALSE, size |-> 0, pos |-> 0, len |-> 0, at |-> 0, dirty |-> FALSE,
           failed |-> FALSE, astray |-> FALSE]
Unmounted == [at |-> "none", existed |-> FALSE, memory |-> FALSE]
NoCommit == [call |-> "none"]
Mounted == mount.at = "mounted" /\ commit = NoCommit

(* All that is known of a file is that it has the size littlefs wrote.     *)
Exactly(files) == [n \in Names |-> {files[n]}]

VolInit ==
  /\ host = NoImage /\ image = NoImage /\ mount = Unmounted
  /\ file = [n \in Names |-> NoFile] /\ iter = 0 /\ commit = NoCommit
  /\ blocks = 0 /\ kept = Exactly(Nothing)

-----------------------------------------------------------------------------
(* fs_vol_init_file.                                                       *)
Stat ==
  /\ mount.at = "none"
  /\ mount' = [Unmounted EXCEPT !.at = "open", !.existed = host.there]
  /\ UNCHANGED <<host, image, commit, file, iter, blocks, kept>>

(* fopen creates the file, empty; the failures up to ftruncate leave it.   *)
OpenImage ==
  /\ mount.at = "open"
  /\ \/ /\ host' = [host EXCEPT !.there = TRUE] /\ image' = host'
        /\ mount' = [mount EXCEPT !.at = "alloc"]
     \/ host' = [host EXCEPT !.there = TRUE] /\ image' = host' /\ mount' = Unmounted
     \/ mount' = Unmounted /\ UNCHANGED <<host, image>>
  /\ UNCHANGED <<commit, file, iter, blocks, kept>>

(* A failure after that unlinks a file that was not there before.          *)
Unlinked == IF mount.existed THEN host ELSE NoImage
Fail ==
  /\ mount' = Unmounted
  /\ host' = Unlinked /\ image' = Unlinked

Allocate ==
  /\ mount.at = "alloc"
  /\ \/ /\ mount' = [mount EXCEPT !.at = IF mount.existed THEN "mount" ELSE "format"]
        /\ blocks' = blocks + 1 /\ UNCHANGED <<host, image>>
     \/ Fail /\ UNCHANGED blocks
  /\ UNCHANGED <<commit, file, iter, kept>>

Format ==
  /\ mount.at = "format"
  /\ \/ /\ host' = [there |-> TRUE, formatted |-> TRUE, files |-> Nothing] /\ image' = host'
        /\ kept' = Exactly(Nothing) /\ mount' = [mount EXCEPT !.at = "mount"] /\ UNCHANGED blocks
     \/ Fail /\ blocks' = blocks - 1 /\ UNCHANGED kept
  /\ UNCHANGED <<commit, file, iter>>

MountImage ==
  /\ mount.at = "mount"
  /\ \/ /\ host.formatted /\ mount' = [mount EXCEPT !.at = "mounted"]
        /\ UNCHANGED <<host, image, blocks>>
     \/ Fail /\ blocks' = blocks - 1
  /\ UNCHANGED <<commit, file, iter, kept>>

(* fs_vol_init_memory: one block for the volume and its storage, which is  *)
(* formatted and mounted; any failure frees it.                            *)
InitMemory ==
  /\ mount.at = "none" /\ host.files = Nothing  \* bound: beside an empty image, or none
  /\ \/ /\ mount' = [Unmounted EXCEPT !.at = "mounted", !.memory = TRUE]
        /\ image' = [there |-> TRUE, formatted |-> TRUE, files |-> Nothing]
        /\ blocks' = blocks + 1
     \/ mount' = Unmounted /\ UNCHANGED <<image, blocks>>
  /\ UNCHANGED <<host, commit, file, iter, kept>>

(* What the file of the host holds when its buffers are flushed.           *)
Flushed == IF mount.memory THEN host ELSE image

(* fs_vol_finalize, of an application that closed its files: it does not   *)
(* close them itself.  That the host may fail to flush is ignored.         *)
Finalize ==
  /\ Mounted /\ iter = 0 /\ \A n \in Names : ~file[n].open
  /\ mount' = Unmounted /\ blocks' = blocks - 1
  /\ host' \in {host, Flushed} /\ image' = host' /\ UNCHANGED <<commit, file, iter, kept>>

(* The process dies; what was in buffers is on the disk by then, or lost.  *)
Crash ==
  /\ host' \in {host, Flushed} /\ image' = host'
  /\ mount' = Unmounted /\ commit' = NoCommit /\ blocks' = 0
  /\ file' = [n \in Names |-> NoFile] /\ iter' = 0
  /\ UNCHANGED kept

-----------------------------------------------------------------------------
(* _lfsbd_file_prog or _lfsbd_mem_prog of a commit: from now on a file may *)
(* have the size it had or the one it is to have.                          *)
Programmed(call, n, files) ==
  /\ image' = [image EXCEPT !.files = files] /\ commit' = [call |-> call, name |-> n]
  /\ kept' = IF mount.memory THEN kept ELSE [m \in Names |-> kept[m] \cup {files[m]}]

(* A commit that fails before the disk has it.                             *)
NotProgrammed == UNCHANGED <<image, commit, kept>>

(* Mutation: the buffer of the host is not flushed.                        *)
SyncedLazily == UNCHANGED host /\ kept' = IF mount.memory THEN kept ELSE Exactly(image.files)

(* _lfsbd_file_sync, which flushes all there is; _lfsbd_mem_sync does      *)
(* nothing.                                                                *)
Synced == host' = Flushed /\ kept' = IF mount.memory THEN kept ELSE Exactly(image.files)

Opened(len) == [NoFile EXCEPT !.open = TRUE, !.size = len, !.len = len]
Freed(n) == file' = [file EXCEPT ![n] = NoFile] /\ blocks' = blocks - 1

(* The rest of the call after its sync: close frees the handle whatever    *)
(* littlefs says, create one that littlefs could not open, also where only *)
(* the memory for its cache is missing.                                    *)
CommitSynced ==
  /\ commit # NoCommit /\ commit' = NoCommit
  /\ Synced
  /\ \/ commit.call \in {"create", "close"} /\ Freed(commit.name)
     \/ commit.call \in {"create", "change"} /\ UNCHANGED <<file, blocks>>
  /\ UNCHANGED <<image, mount, iter>>

(* The sync fails: the call does, though what it programmed stays in       *)
(* buffers, or came through.                                               *)
SyncFails ==
  /\ commit # NoCommit /\ ~mount.memory /\ commit' = NoCommit
  /\ IF commit.call = "change" THEN UNCHANGED <<file, blocks>> ELSE Freed(commit.name)
  /\ host' \in {host, image}
  /\ UNCHANGED <<image, mount, iter, kept>>

(* fs_file_create: a new entry is committed; that an existing file is cut  *)
(* is known when it is closed.                                             *)
Create(n) ==
  /\ Mounted /\ ~file[n].open
  /\ LET new == image.files[n] = Absent IN
       \/ /\ file' = [file EXCEPT ![n] = [Opened(0) EXCEPT !.dirty = ~new]]
          /\ blocks' = blocks + 1
          /\ IF new THEN Programmed("create", n, [image.files EXCEPT ![n] = 0])
             ELSE NotProgrammed
       \/ UNCHANGED <<file, blocks>> /\ NotProgrammed
  /\ UNCHANGED <<host, mount, iter>>

(* fs_file_open.                                                           *)
OpenFile(n) ==
  /\ Mounted /\ ~file[n].open
  /\ \/ /\ image.files[n] # Absent
        /\ file' = [file EXCEPT ![n] = Opened(image.files[n])] /\ blocks' = blocks + 1
     \/ UNCHANGED <<file, blocks>>
  /\ UNCHANGED <<host, image, mount, commit, iter, kept>>

(* fs_file_close; littlefs writes nothing of a file a write of which       *)
(* failed.                                                                 *)
Close(n) ==
  /\ Mounted /\ file[n].open
  /\ \/ /\ file[n].dirty /\ ~file[n].failed
        /\ Programmed("close", n, [image.files EXCEPT ![n] = file[n].len])
        /\ UNCHANGED <<file, blocks>>
     \/ Freed(n) /\ NotProgrammed
  /\ UNCHANGED <<host, mount, iter>>

Moved(f, at) == [f EXCEPT !.at = at, !.pos = at, !.astray = FALSE]

Seek(n, offset) ==
  /\ Mounted /\ file[n].open
  /\ file' = [file EXCEPT ![n] = Moved(@, offset)]
  /\ UNCHANGED <<host, image, mount, commit, iter, blocks, kept>>

(* A seek that fails leaves the position of the handle alone; littlefs may *)
(* have moved on while it wrote what was buffered before it.               *)
Strayed(f, at, failed) ==
  [f EXCEPT !.at = at, !.failed = @ \/ failed, !.astray = @ \/ at # f.at]

SeekFails(n) ==
  /\ Mounted /\ file[n].open /\ file[n].dirty
  /\ \E at \in file[n].at .. MaxSize, failed \in BOOLEAN :
       /\ at <= file[n].len \/ at = file[n].at
       /\ file' = [file EXCEPT ![n] = Strayed(@, at, failed)]
  /\ UNCHANGED <<host, image, mount, commit, iter, blocks, kept>>

(* fs_file_read of one byte, or an error, which is taken for a number of   *)
(* bytes: the handle follows littlefs.                                     *)
ReadFile(n) ==
  /\ Mounted /\ file[n].open
  /\ \/ file[n].at < file[n].len /\ file' = [file EXCEPT ![n] = Moved(@, file[n].at + 1)]
     \/ file' = [file EXCEPT ![n] = Moved(@, file[n].at)]
  /\ UNCHANGED <<host, image, mount, commit, iter, blocks, kept>>

(* fs_file_write: littlefs moved to `at`, and the handle follows it, also  *)
(* when littlefs returned an error, which is taken for a number of bytes.  *)
WrittenTo(f, at, failed) ==
  LET len == IF at > f.len THEN at ELSE f.len
  IN  [f EXCEPT !.at = at, !.len = len, !.pos = at, !.size = len,
                !.dirty = TRUE, !.failed = @ \/ failed, !.astray = FALSE]

WriteFile(n) ==
  /\ Mounted /\ file[n].open
  /\ \E at \in file[n].at .. MaxSize, failed \in BOOLEAN :
       /\ at > file[n].at \/ failed
       /\ file' = [file EXCEPT ![n] = WrittenTo(@, at, failed)]
  /\ UNCHANGED <<host, image, mount, commit, iter, blocks, kept>>

-----------------------------------------------------------------------------
(* fs_vol_remove and fs_vol_move, of files that are not open.              *)
Change(n, files) ==
  /\ Programmed("change", n, files) \/ NotProgrammed
  /\ UNCHANGED <<host, mount, file, iter, blocks>>

RemoveFile(n) ==
  /\ Mounted /\ ~file[n].open /\ image.files[n] # Absent
  /\ Change(n, [image.files EXCEPT ![n] = Absent])

(* A destination that exists is replaced and the move answers true, where  *)
(* fs.h:182-183 wants it not to exist and calls a conflict an error.       *)
Move(from, to) ==
  /\ Mounted /\ ~file[from].open /\ ~file[to].open /\ image.files[from] # Absent
  /\ from # to /\ Change(to, [image.files EXCEPT ![to] = image.files[from], ![from] = Absent])

(* fs_vol_readdir: the first call of an iteration allocates for it and     *)
(* opens the directory; the one after the last entry, or a failure, frees. *)
Readdir ==
  /\ Mounted
  /\ iter' \in 0 .. 1  \* bound: one at a time
  /\ blocks' = (blocks + iter') - iter
  /\ UNCHANGED <<host, image, mount, commit, file, kept>>

VolStep ==
  \/ Stat \/ InitMemory \/ OpenImage \/ Allocate \/ Format \/ MountImage \/ Finalize \/ Crash \/ Readdir
  \/ CommitSynced \/ SyncFails
  \/ \E n \in Names : \/ Create(n) \/ OpenFile(n) \/ Close(n) \/ ReadFile(n) \/ WriteFile(n)
                      \/ SeekFails(n) \/ RemoveFile(n)
  \/ \E n \in Names, offset \in 0 .. MaxSize : Seek(n, offset)
  \/ \E from, to \in Names : Move(from, to)

-----------------------------------------------------------------------------
(* What a caller was told is stored is on the disk of the host, so that a  *)
(* crash at any time, then or later, does not lose it.  A file of which a  *)
(* call is under way, or failed, has the size it had or was to have, and   *)
(* no other file is touched; a later call that succeeds settles that too.  *)
ClosedSurvives == host.formatted => \A n \in Names : host.files[n] \in kept[n]

(* The position and size of a handle are those of littlefs, also after     *)
(* writes that failed half-way; a seek that failed may part the positions  *)
(* until the next one, or the next read or write.                          *)
HandleFollows ==
  \A n \in Names : file[n].open =>
    /\ file[n].pos = file[n].at \/ file[n].astray
    /\ file[n].size = file[n].len

(* The volume, each open file and an iterator own one block, and nothing   *)
(* else does: no failure leaks one or frees one twice.                     *)
BlocksOwned ==
  blocks = Cardinality({n \in Names : file[n].open})
           + iter + (IF mount.at \in {"format", "mount", "mounted"} THEN 1 ELSE 0)

(* Writes that fail half-way and a host that stops at any moment lose no   *)
(* closed file, no position of an open one, and no memory.                 *)
FilesSafe ==
  /\ ClosedSurvives
  /\ HandleFollows
  /\ BlocksOwned
=============================================================================
