------------------------------- MODULE Fat16 -------------------------------
(* The FAT16 driver (kernel/src/fat16.c) behind the one lock of              *)
(* kernel/src/vfs.c.  A step is one call's work up to its next disk command, *)
(* so calls on different cores, and a loss of power, may come between any    *)
(* two commands.  Paths are split and names formed by Fat16Path; a byte is a *)
(* number; a directory is a sequence of entries.                             *)
EXTENDS Fat16Path, FiniteSetsExt

CONSTANTS
    Images,              \* the disks found at boot: [fat, root, data], and the files
                         \* they hold: a function from 8.3 names to bytes
    Procs,               \* the callers of vfs.c
    Writes,              \* what they write: [name, data]
    Reads,               \* what they read: [op, path, max]
    cluster_size_bytes,
    fat_cache_entries,   \* entries of the FAT, those past the last cluster included
    DataClusters,        \* clusters the volume has, the first being cluster 2
    entries_per_sector,  \* of a directory
    fat_per_sector,      \* entries of the FAT in a sector
    MaxPath,             \* bound on the length of the paths that are tried
    MaxWrites,           \* bound on the calls of vfs_write_file()
    MaxCrashes           \* bound on the losses of power

VARIABLES
    disk,       \* what the disk holds: the first FAT, the root directory, the clusters
    fat_cache,  \* fs.fat_cache
    lock,       \* fat16_vfs_lock: who holds it
    proc,       \* per caller: where it is and its locals
    panicked, writes, crashes,
    stored,     \* history: what was last written to each file, by its 8.3 names
    exposed     \* history: the files that a loss of power put at risk

vars == <<disk, fat_cache, lock, proc, panicked, writes, crashes, stored, exposed>>
history == <<writes, crashes, stored, exposed>>

FREE == 0
EOC == 65535
None == "none"
Clusters == 2 .. fat_cache_entries - 1
InChain(c) == c >= 2 /\ c < EOC
EndName == [base |-> <<"0x00">>, ext |-> <<>>]
DeletedName == [base |-> <<"0xE5">>, ext |-> <<>>]
Idle == [at |-> "idle"]
Missing == [found |-> FALSE, bytes |-> <<>>]
Found(bytes) == [found |-> TRUE, bytes |-> bytes]
CutOff == [found |-> FALSE, bytes |-> <<0>>]  \* a file whose writing was cut off

ASSUME Fat16Assumption ==
    /\ cluster_size_bytes \in Nat \ {0} /\ entries_per_sector \in Nat \ {0}
    /\ fat_per_sector \in Nat \ {0} /\ MaxPath \in Nat
    /\ DataClusters <= fat_cache_entries - 2
    /\ MaxWrites \in Nat /\ MaxCrashes \in Nat

-----------------------------------------------------------------------------
(* Reading the volume *)

(* The clusters reached from c by fat_next_cluster(), in order *)
Chain(fat, c) ==
    LET upto[n \in 0 .. fat_cache_entries] ==
            IF n = 0 THEN IF InChain(c) THEN <<c>> ELSE <<>>
            ELSE LET chain == upto[n - 1] IN
                 IF chain # <<>> /\ InChain(fat[Last(chain)])
                 THEN Append(chain, fat[Last(chain)]) ELSE chain
    IN  upto[fat_cache_entries]

(* read_subdir_clusters(): the entries of a subdirectory *)
read_subdir_clusters(fat, entry) ==
    LET chain == Chain(fat, entry.first)
    IN  FlattenSeq([i \in 1 .. Len(chain) |-> disk.data[chain[i]]])

(* read_directory(): cluster 0 stands for the root directory *)
read_directory(fat, entry) ==
    IF entry.first = 0 THEN disk.root ELSE read_subdir_clusters(fat, entry)

(* Entries past the first one whose name starts with 0x00 are not looked at *)
BeforeEnd(dir, e) == \A d \in 1 .. e : dir[d].name # EndName

(* find_entry_in_dir(): the index of the entry with that name, or 0 *)
find_entry_in_dir(dir, want) ==
    LET match == {e \in 1 .. Len(dir) : /\ BeforeEnd(dir, e)
                                        /\ dir[e].attr # "skip"
                                        /\ dir[e].name = want}
    IN  IF match = {} THEN 0 ELSE Min(match)

(* The entries of the directory reached through these components, <<>> if    *)
(* there is none (a directory on the disk has at least one entry)            *)
Walk(fat, components) ==
    LET Enter(dir, component) ==
            LET e == find_entry_in_dir(dir, format_83(component))
            IN  IF e = 0 THEN <<>>
                ELSE IF dir[e].attr # "dir" THEN <<>>
                ELSE read_directory(fat, dir[e])
    IN  FoldLeft(Enter, disk.root, components)

resolve_directory(fat, path) == Walk(fat, DirectoryComponents(path))

(* fat16_open(): the entry at path, or NoEntry *)
NoEntry == [name |-> EndName, attr |-> "file", first |-> 0, size |-> 0]
fat16_open(fat, path) ==
    LET components == ParentComponents(path)
        dir == Walk(fat, Front(components))
        e == find_entry_in_dir(dir, format_83(Last(components)))
    IN  IF e = 0 THEN NoEntry ELSE dir[e]

(* What reading the file of an entry in one go gives *)
Contents(fat, entry) ==
    LET chain == Chain(fat, entry.first)
        bytes == FlattenSeq([i \in 1 .. Len(chain) |-> disk.data[chain[i]]])
    IN  IF entry = NoEntry THEN Missing
        ELSE Found(SubSeq(bytes, 1, Min({entry.size, Len(bytes)})))

(* The files that are there or may be, each by its 8.3 names *)
Files ==
    (UNION {DOMAIN image.files : image \in Images}) \cup {Spelled(w.name) : w \in Writes}
    \cup {Spelled(r.path) : r \in {q \in Reads : q.op # "vfs_list_dir"}}

(* vfs_init(): fat16_init() reads the FAT *)
Init ==
    /\ \E image \in Images :
         /\ disk = [fat |-> image.fat, root |-> image.root, data |-> image.data]
         /\ stored = [file \in Files |-> IF file \in DOMAIN image.files
                                        THEN Found(image.files[file]) ELSE Missing]
    /\ fat_cache = disk.fat
    /\ lock = None
    /\ proc = [p \in Procs |-> Idle]
    /\ panicked = FALSE /\ writes = 0 /\ crashes = 0
    /\ exposed = {}

-----------------------------------------------------------------------------
(* The public calls.  Each takes the lock, and Return gives it up. *)

At(p, place) == ~panicked /\ proc[p].at = place

panic ==
    /\ panicked' = TRUE
    /\ UNCHANGED <<disk, fat_cache, lock, proc, history>>

Goto(p, place) == proc' = [proc EXCEPT ![p].at = place]

CallRead(p, r) ==
    /\ At(p, "idle")
    /\ proc' = [proc EXCEPT ![p] = [at |-> "acquire", op |-> r.op, path |-> r.path,
                                    max |-> r.max]]
    /\ UNCHANGED <<disk, fat_cache, lock, panicked, history>>

CallWrite(p, w) ==
    /\ At(p, "idle")
    /\ writes < MaxWrites
    /\ writes' = writes + 1
    /\ proc' = [proc EXCEPT ![p] = [at |-> "acquire", op |-> "vfs_write_file",
                                    path |-> w.name, data |-> w.data]]
    /\ UNCHANGED <<disk, fat_cache, lock, panicked, crashes, stored, exposed>>

(* Mutant: the lock is not waited for *)
MutNoLock(p) ==
    /\ At(p, "acquire")
    /\ lock' = p
    /\ Goto(p, proc[p].op)
    /\ UNCHANGED <<disk, fat_cache, panicked, history>>

(* irq_save_disable(); spinlock_acquire(&fat16_vfs_lock) *)
Acquire(p) ==
    /\ At(p, "acquire")
    /\ lock = None
    /\ lock' = p
    /\ Goto(p, proc[p].op)
    /\ UNCHANGED <<disk, fat_cache, panicked, history>>

Return(p) ==
    /\ At(p, "return")
    /\ lock' = None
    /\ proc' = [proc EXCEPT ![p] = Idle]
    /\ UNCHANGED <<disk, fat_cache, panicked, history>>

-----------------------------------------------------------------------------
(* vfs_read_file() and vfs_read_file_into(): fat16_open(), fat16_read() *)

Open(p) ==
    LET entry == fat16_open(fat_cache, proc[p].path)
        whole == proc[p].op = "vfs_read_file"
    IN
    /\ At(p, "vfs_read_file") \/ At(p, "vfs_read_file_into")
    /\ IF entry # NoEntry /\ whole /\ entry.size = 0
       THEN panic            \* kmalloc(0) is NULL
       ELSE /\ proc' = [proc EXCEPT ![p] =
                  IF entry = NoEntry
                  THEN [at |-> "return", op |-> @.op, path |-> @.path, max |-> @.max,
                        result |-> Missing]
                  ELSE [at |-> "read", op |-> @.op, path |-> @.path, max |-> @.max,
                        cluster |-> entry.first, buf |-> <<>>,
                        left |-> IF whole THEN entry.size ELSE Min({entry.size, @.max})]]
            /\ UNCHANGED <<disk, fat_cache, lock, panicked, history>>

(* One turn of fat16_read()'s loop *)
ReadCluster(p) ==
    LET chunk == Min({cluster_size_bytes, proc[p].left}) IN
    /\ At(p, "read")
    /\ proc[p].left > 0 /\ InChain(proc[p].cluster)
    /\ proc' = [proc EXCEPT ![p].buf = @ \o SubSeq(disk.data[proc[p].cluster], 1, chunk),
                            ![p].left = @ - chunk,
                            ![p].cluster = fat_cache[@]]
    /\ UNCHANGED <<disk, fat_cache, lock, panicked, history>>

(* The loop is over; vfs_read_file() panics on a short read *)
ReadDone(p) ==
    /\ At(p, "read")
    /\ proc[p].left = 0 \/ ~InChain(proc[p].cluster)
    /\ IF proc[p].op = "vfs_read_file" /\ proc[p].left > 0
       THEN panic
       ELSE /\ proc' = [proc EXCEPT ![p] =
                  [at |-> "return", op |-> @.op, path |-> @.path, max |-> @.max,
                   result |-> Found(@.buf)]]
            /\ UNCHANGED <<disk, fat_cache, lock, panicked, history>>

(* vfs_list_dir(): a line for each name, as long as the lines and a NUL fit *)
Shown(dir, e) == BeforeEnd(dir, e) /\ dir[e].name # DeletedName /\ dir[e].attr # "skip"
Listing(dir, max) ==
    LET AddLine(out, e) ==
            LET line == Append(Line(dir[e].name), "newline")
            IN  IF out.full \/ ~Shown(dir, e) THEN out
                ELSE IF Len(out.buf) + Len(line) >= max THEN [out EXCEPT !.full = TRUE]
                ELSE [out EXCEPT !.buf = @ \o line]
    IN  FoldLeft(AddLine, [buf |-> <<>>, full |-> FALSE], [e \in 1 .. Len(dir) |-> e]).buf

ListDir(p) ==
    LET dir == resolve_directory(fat_cache, proc[p].path) IN
    /\ At(p, "vfs_list_dir")
    /\ proc' = [proc EXCEPT ![p] =
          [at |-> "return", op |-> @.op, path |-> @.path,
           result |-> IF dir = <<>> THEN Missing ELSE Found(Listing(dir, @.max))]]
    /\ UNCHANGED <<disk, fat_cache, lock, panicked, history>>

-----------------------------------------------------------------------------
(* vfs_write_file(): fat16_write_file(), in the root directory only *)

(* The slot for a new entry: a deleted one, or the end of the directory *)
FreeSlot(dir) ==
    LET free == {e \in 1 .. Len(dir) : /\ dir[e].name \in {EndName, DeletedName}
                                       /\ e = 1 \/ BeforeEnd(dir, e - 1)}
    IN  IF free = {} THEN 0 ELSE Min(free)

(* Mutant: the chain of a file that is overwritten is not freed *)
MutKeepsOldChain(p) ==
    LET root == disk.root
        existing == find_entry_in_dir(root, format_83(proc[p].path))
        slot == IF existing > 0 THEN existing ELSE FreeSlot(root)
    IN
    /\ At(p, "vfs_write_file")
    /\ slot > 0
    /\ proc' = [proc EXCEPT ![p] =
          [at |-> "write", op |-> @.op, path |-> @.path, data |-> @.data,
           root |-> root, slot |-> slot, src |-> @.data,
           first_cluster |-> 0, prev_cluster |-> 0]]
    /\ UNCHANGED <<disk, fat_cache, lock, panicked, history>>

(* The root directory is read, the slot chosen, and the chain of the file    *)
(* that is overwritten freed in the cache.                                   *)
FindSlot(p) ==
    LET root == disk.root
        existing == find_entry_in_dir(root, format_83(proc[p].path))
        slot == IF existing > 0 THEN existing ELSE FreeSlot(root)
        old == IF existing > 0 THEN ToSet(Chain(fat_cache, root[existing].first)) ELSE {}
    IN
    /\ At(p, "vfs_write_file")
    /\ IF slot = 0
       THEN panic            \* root directory is full
       ELSE /\ fat_cache' = [c \in DOMAIN fat_cache |->
                                IF c \in old THEN FREE ELSE fat_cache[c]]
            /\ proc' = [proc EXCEPT ![p] =
                  [at |-> "write", op |-> @.op, path |-> @.path, data |-> @.data,
                   root |-> root, slot |-> slot, src |-> @.data,
                   first_cluster |-> 0, prev_cluster |-> 0]]
            /\ UNCHANGED <<disk, lock, panicked, history>>

(* The clusters alloc_cluster() may take; it takes the first *)
FreeClusters == {c \in Clusters : fat_cache[c] = FREE}

(* memset() and memcpy() into cluster_buf *)
Padded(bytes) == [i \in 1 .. cluster_size_bytes |-> IF i <= Len(bytes) THEN bytes[i] ELSE 0]

(* One turn of the loop over clusters_needed *)
WriteCluster(p) ==
    LET c == Min(FreeClusters)
        prev == proc[p].prev_cluster
        chunk == Min({cluster_size_bytes, Len(proc[p].src)})
    IN
    /\ At(p, "write")
    /\ proc[p].src # <<>>
    /\ IF FreeClusters = {}
       THEN panic            \* disk full
       ELSE /\ fat_cache' = [d \in DOMAIN fat_cache |->
                  IF d = c THEN EOC ELSE IF d = prev /\ prev # 0 THEN c ELSE fat_cache[d]]
            /\ disk' = [disk EXCEPT !.data[c] = Padded(SubSeq(proc[p].src, 1, chunk))]
            /\ proc' = [proc EXCEPT ![p].src = SubSeq(@, chunk + 1, Len(@)),
                                    ![p].prev_cluster = c,
                                    ![p].first_cluster = IF prev = 0 THEN c ELSE @]
            /\ UNCHANGED <<lock, panicked, history>>

(* The sector of the root directory that holds the entry is written back *)
WriteDirent(p) ==
    LET slot == proc[p].slot
        entry == [name |-> format_83(proc[p].path), attr |-> "file",
                  first |-> proc[p].first_cluster, size |-> Len(proc[p].data)]
        SameSector(e) == (e - 1) \div entries_per_sector = (slot - 1) \div entries_per_sector
    IN
    /\ At(p, "write")
    /\ proc[p].src = <<>>
    /\ disk' = [disk EXCEPT !.root = [e \in DOMAIN @ |->
                    IF e = slot THEN entry
                    ELSE IF SameSector(e) THEN proc[p].root[e] ELSE @[e]]]
    /\ Goto(p, "fat")
    /\ UNCHANGED <<fat_cache, lock, panicked, history>>

(* A file whose writing was cut off is whole again once it is rewritten,     *)
(* unless others were written in between: the entry that was left may lead   *)
(* to clusters that they were given, so that they are at risk with it.       *)
Completed(file, data) ==
    /\ stored' = [stored EXCEPT ![file] = Found(data)]
    /\ exposed' = IF exposed \subseteq {file} THEN {} ELSE exposed \cup {file}

(* Mutant: the FAT stays in memory *)
MutFatNotWritten(p) ==
    /\ At(p, "fat")
    /\ proc' = [proc EXCEPT ![p] = [at |-> "return", op |-> @.op, path |-> @.path]]
    /\ Completed(Spelled(proc[p].path), proc[p].data)
    /\ UNCHANGED <<disk, fat_cache, lock, panicked, writes, crashes>>

(* write_fat_cache_to_disk(): the file is written *)
WriteFat(p) ==
    /\ At(p, "fat")
    /\ disk' = [disk EXCEPT !.fat = fat_cache]
    /\ proc' = [proc EXCEPT ![p] = [at |-> "return", op |-> @.op, path |-> @.path]]
    /\ Completed(Spelled(proc[p].path), proc[p].data)
    /\ UNCHANGED <<fat_cache, lock, panicked, writes, crashes>>

-----------------------------------------------------------------------------
Writing(p) == proc[p].at \in {"write", "fat"}

(* Power is lost, or the machine is reset after a panic, and it boots again: *)
(* vfs_init() reads the FAT from the disk.  The one command of several       *)
(* sectors, which writes the FAT, may have got any number of them to disk.   *)
Crash ==
    /\ crashes < MaxCrashes
    /\ crashes' = crashes + 1
    /\ \E sectors \in IF \E p \in Procs : proc[p].at = "fat"
                      THEN 0 .. fat_cache_entries \div fat_per_sector ELSE {0} :
          disk' = [disk EXCEPT !.fat = [c \in DOMAIN @ |->
                      IF c < sectors * fat_per_sector THEN fat_cache[c] ELSE @[c]]]
    /\ fat_cache' = disk'.fat
    /\ lock' = None
    /\ proc' = [p \in Procs |-> Idle]
    /\ panicked' = FALSE
    /\ LET cut == {Spelled(proc[p].path) : p \in {q \in Procs : Writing(q)}}
       IN  /\ stored' = [file \in Files |-> IF file \in cut THEN CutOff ELSE stored[file]]
           /\ exposed' = exposed \cup cut
    /\ UNCHANGED writes

Halted == panicked /\ UNCHANGED vars

Next ==
    \/ \E p \in Procs :
         \/ \E r \in Reads : CallRead(p, r)
         \/ \E w \in Writes : CallWrite(p, w)
         \/ Acquire(p) \/ Return(p)
         \/ Open(p) \/ ReadCluster(p) \/ ReadDone(p) \/ ListDir(p)
         \/ FindSlot(p) \/ WriteCluster(p) \/ WriteDirent(p) \/ WriteFat(p)
    \/ Crash
    \/ Halted

Spec == Init /\ [][Next]_vars

-----------------------------------------------------------------------------
(* Every variable has its type, and only the holder of the lock is past it.  *)
TypeOK ==
    /\ disk.fat \in [0 .. fat_cache_entries - 1 -> Nat]
    /\ fat_cache \in [0 .. fat_cache_entries - 1 -> Nat]
    /\ lock \in Procs \cup {None}
    /\ panicked \in BOOLEAN
    /\ \A p \in Procs : proc[p].at \in {"idle", "acquire"} \/ lock = p

(* Nobody is writing this file, and its last writing was not cut off.        *)
Settled(file) ==
    /\ \A p \in Procs : Writing(p) => Spelled(proc[p].path) # file
    /\ stored[file] # CutOff

(* What a read of this file is to give, and the disk to hold *)
Trusted(file) == Settled(file) /\ file \notin exposed

IsRead(p) == proc[p].op \in {"vfs_read_file", "vfs_read_file_into"}

(* A read that returns gives what the last completed write to the file that  *)
(* its path spells stored, cut at max_len: calls on different cores do not   *)
(* see each other's half-done work (vfs.c's fat16_vfs_lock), and             *)
(* fat16_write_file(), which takes its argument whole, names the same file   *)
(* as fat16_open(), which takes it apart.  The only reads that stop the      *)
(* machine are vfs_read_file()'s of an empty file.  Both are said of files   *)
(* no loss of power has exposed: after one that cut a write off, neither the *)
(* file of that write nor those written before it is rewritten are covered.  *)
(* Every variable keeps its type.                                            *)
ReadsLastWrite ==
    /\ TypeOK
    /\ \A p \in Procs :
         lock = p /\ IsRead(p) /\ Trusted(Spelled(proc[p].path)) =>
            LET last == stored[Spelled(proc[p].path)]
                whole == proc[p].op = "vfs_read_file"
            IN  /\ panicked => whole /\ last = Found(<<>>)
                /\ At(p, "return") =>
                      proc[p].result =
                         IF whole THEN last
                         ELSE [last EXCEPT !.bytes = SubSeq(@, 1, Min({Len(@), proc[p].max}))]

(* The entries of files and directories reachable from the root *)
Reachable ==
    LET inRoot == {disk.root[e] : e \in {x \in 1 .. Len(disk.root) : Shown(disk.root, x)}}
        subs == {e \in inRoot : e.attr = "dir"}
    IN  inRoot \cup UNION {{d \in ToSet(read_subdir_clusters(fat_cache, s)) :
                                d.name \notin {EndName, DeletedName}} : s \in subs}

(* The entry that 8.3 names lead to in a volume of two levels *)
EntryOf(fat, names) ==
    LET Named(entries, name) == {e \in entries : e.name = name /\ e.attr # "skip"}
        top == Named(ToSet(disk.root), names[1])
        Inside == UNION {ToSet(read_subdir_clusters(fat, d)) : d \in {e \in top : e.attr = "dir"}}
        found == CASE Len(names) = 1 -> top
                   [] Len(names) = 2 -> Named(Inside, names[2])
                   [] OTHER -> {}
    IN  IF found = {} THEN NoEntry ELSE CHOOSE e \in found : TRUE

(* Between calls the chain of a file or directory shares no cluster with any *)
(* other chain, unless a loss of power exposed the file; and as long as no   *)
(* power was lost every cluster marked used is in a chain.  What             *)
(* alloc_cluster() takes belongs to nobody, and fat16_write_file() gives     *)
(* back what an overwritten file no longer needs.                            *)
ClustersOwnedOnce ==
    lock = None =>
        /\ \A e \in Reachable \ {EntryOf(fat_cache, file) : file \in exposed} :
              \A f \in Reachable \ {e} :
                 ToSet(Chain(fat_cache, e.first)) \cap ToSet(Chain(fat_cache, f.first)) = {}
        /\ crashes = 0 =>
              {c \in Clusters : fat_cache[c] # FREE}
                  = UNION {ToSet(Chain(fat_cache, e.first)) : e \in Reachable}

(* At every instant the disk, read with its own FAT, holds every file that   *)
(* is not being written: losing power, even in the middle of the command     *)
(* that writes the FAT, costs the file being written and may cost the files  *)
(* written after it and before that file is rewritten (exposed), and no      *)
(* other, whatever is written afterwards.                                    *)
DiskKeepsOtherFiles ==
    \A file \in Files : Trusted(file) => Contents(disk.fat, EntryOf(disk.fat, file)) = stored[file]

(* The volume as it was found at boot *)
AsFound == writes = 0 /\ crashes = 0 /\ \A p \in Procs : proc[p] = Idle

Strings(n) == UNION {[1 .. k -> Chars] : k \in 1 .. n}

(* A relative path whose components fit opens the file that it spells, in    *)
(* upper or lower case, with repeated and trailing slashes, and one that     *)
(* spells no file opens none: resolve_parent_dir(), format_83() and          *)
(* find_entry_in_dir() together.  Every line of a listing opens its entry.   *)
PathsOpenWhatTheySpell ==
    AsFound =>
        /\ \A path \in Strings(MaxPath) :
              path[1] # "/" /\ Fitting(path) =>
                  fat16_open(fat_cache, path) = EntryOf(fat_cache, Spelled(path))
        /\ \A e \in 1 .. Len(disk.root) : Shown(disk.root, e) =>
              fat16_open(fat_cache, Line(disk.root[e].name)) = disk.root[e]

-----------------------------------------------------------------------------
(* What the code's comments lead one to expect, and the code does not do *)

(* "Returns 1 and fills out_buf/out_size on success, 0 if the file doesn't   *)
(* exist": no vfs_read_file() of a file that is there and was not cut off    *)
(* stops the machine.                                                        *)
ReadNeverPanics ==
    panicked /\ IsRead(lock) => ~Settled(Spelled(proc[lock].path))

(* "to overwrite -- its old clusters get freed below": an overwrite takes    *)
(* the clusters of the file it overwrites and no others, so that every file  *)
(* whose own writing was completed is on the disk.                           *)
CompletedWritesKept ==
    \A file \in Files : Settled(file) => Contents(disk.fat, EntryOf(disk.fat, file)) = stored[file]

(* A write leaves the files of subdirectories alone.                         *)
SubdirectoriesKept ==
    lock = None =>
        \A file \in Files : Len(file) > 1 =>
            Contents(disk.fat, EntryOf(disk.fat, file)) = stored[file]

(* Clusters are allocated inside the volume.                                 *)
AllocatesInsideVolume ==
    \A c \in Clusters : fat_cache[c] # FREE => c < 2 + DataClusters
=============================================================================
