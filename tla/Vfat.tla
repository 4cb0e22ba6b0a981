-------------------------------- MODULE Vfat --------------------------------
(***************************************************************************)
(* The FUSE driver task3_vfat/vfat.c: mounting a volume (vfat_init), the   *)
(* scan of the root directory, and the callbacks readdir and read.         *)
(*                                                                         *)
(* libfuse calls the callbacks from several threads.  vfat_fuse_read keeps *)
(* its place in the cluster chain in the globals of struct vfat, so a step *)
(* of a read is what it does between two accesses to them.  A directory    *)
(* slot is "null", "free", "lfn", "blank" (a name of spaces only) or a     *)
(* name; the slots behind the last one of a directory are "null".          *)
(***************************************************************************)
EXTENDS Integers, Sequences, SequencesExt

CONSTANTS
    Volumes,     \* boot sectors
    Directories, \* root directories, as sequences of slots
    Chains,      \* cluster chains of the file; <<>> is an empty file
    Requests,    \* <<size, offset>> that read is called with
    Threads,     \* threads of libfuse
    FAT12_END,   \* 4085, the first number of clusters that is not FAT12
    FAT16_END    \* 65525, the first that is not FAT16

ASSUME VfatAssumption ==
    /\ FAT12_END \in Nat /\ FAT16_END \in Nat /\ FAT12_END < FAT16_END
    /\ \A q \in Requests : q[1] \in Nat /\ q[2] \in Nat
    /\ \A c \in Chains : IsInjective(c) /\ \A i \in DOMAIN c : c[i] \in Nat \ {0, 1}

VFAT_SIGNATURE == 43605
VFAT_EOC == -1   \* stands for every value IS_EOC accepts, (uint32_t)-1 included

VARIABLES
    mounting,   \* "start", "scan", "ready", "exited" or "crashed"
    bs,         \* the boot sector
    dir, slot,  \* the directory on the volume, and the slot the scan is at
    root,       \* f->root_direntries_list
    current,    \* f->current_direntries_list
    filled,     \* the names the last readdir passed to filler
    chain,      \* the chain on the volume
    cur, next,  \* f->currentClusterNumber and f->nextClusterNumber
    pc,         \* where each thread is in vfat_fuse_read
    req,        \* its size and offset, as called and as they are now
    pieces,     \* the pieces of the file it has read, if undisturbed (history)
    result,        \* the value it returns
    disturbed   \* has another read overlapped this one? (history)

mountVars == <<mounting, bs, dir, slot, root>>
readVars  == <<chain, cur, next, pc, req, pieces, result, disturbed>>
vfVars == <<mountVars, current, filled, readVars>>

NoRequest == [size |-> 0, offset |-> 0, asked |-> <<0, 0>>]

VfInit ==
    /\ mounting = "start"
    /\ bs \in Volumes
    /\ dir \in Directories /\ slot = 1
    /\ root = <<>> /\ current = <<>> /\ filled = <<>>
    /\ chain \in Chains
    /\ cur = 0 /\ next = 0
    /\ pc = [t \in Threads |-> "idle"]
    /\ req = [t \in Threads |-> NoRequest]
    /\ pieces = [t \in Threads |-> <<>>]
    /\ result = [t \in Threads |-> 0]
    /\ disturbed = [t \in Threads |-> FALSE]

-----------------------------------------------------------------------------
\* The geometry vfat_init computes from the boot sector.
RootDirSectors(b) == ((b.RootEntCnt * 32) + (b.BytsPerSec - 1)) \div b.BytsPerSec
FATSz(b) == IF b.FATSz16 # 0 THEN b.FATSz16 ELSE b.FATSz32
FirstDataSector(b) == b.RsvdSecCnt + (b.NumFATs * FATSz(b)) + RootDirSectors(b)
TotSec(b) == IF b.TotSec16 # 0 THEN b.TotSec16 ELSE b.TotSec32

DataSec(b) == TotSec(b) - (b.RsvdSecCnt + (b.NumFATs * FATSz(b)) + RootDirSectors(b))
CountOfClusters(b) == DataSec(b) \div b.SecPerClus

ComputeFirstSectorOfCluster(b, n) == FirstDataSector(b) + (n - 2) * b.SecPerClus
FatEntry(b, n) == b.RsvdSecCnt * b.BytsPerSec + n * 4
ClusterBytes == bs.BytsPerSec * bs.SecPerClus

\* Mount the volume.  Everything but a FAT32 volume with its signature ends the
\* program; when the boot sector cannot be allocated, the scan that follows
\* goes through a null pointer.
vfat_init ==
    /\ mounting = "start"
    /\ mounting' \in
         {"crashed",
          IF CountOfClusters(bs) < FAT12_END THEN "exited"
          ELSE IF CountOfClusters(bs) < FAT16_END THEN "exited"
          ELSE IF bs.Sig # VFAT_SIGNATURE THEN "exited" ELSE "scan"}
    /\ UNCHANGED <<bs, dir, slot, root, current, filled, readVars>>

-----------------------------------------------------------------------------
Slot(i) == IF i <= Len(dir) THEN dir[i] ELSE "null"
Skipped == {"null", "free", "lfn"}

\* The loop ends: free(old->next), through a null pointer if nothing was listed.
EndScan(list) == mounting' = IF list = <<>> THEN "crashed" ELSE "ready"

\* One turn of the loop.  A skipped record is freed and its first byte read
\* after that, so the loop may end or go on; the first byte of a listed one is
\* 0 only after a blank name has been trimmed.
vfat_read_root_directory ==
    /\ mounting = "scan"
    /\ slot' = IF slot <= Len(dir) THEN slot + 1 ELSE slot
    /\ IF Slot(slot) \in Skipped
       THEN UNCHANGED root /\ (UNCHANGED mounting \/ EndScan(root))
       ELSE /\ root' = Append(root, Slot(slot))
            /\ IF Slot(slot) = "blank" THEN EndScan(root') ELSE UNCHANGED mounting
    /\ UNCHANGED <<bs, dir, current, filled, readVars>>

-----------------------------------------------------------------------------

\* readdir of "/": vfat_resolve goes back to the root, vfat_readdir walks the
\* list.  Of any other path: -ENOENT.
vfat_fuse_readdir ==
    /\ mounting = "ready"
    /\ current' = root
    /\ filled' = <<".", "..">> \o root
    /\ UNCHANGED <<mountVars, readVars>>

-----------------------------------------------------------------------------
Busy(t) == pc[t] \notin {"idle", "done"}
Others(t) == {u \in Threads \ {t} : Busy(u)}

At(t, from, to) ==
    /\ mounting = "ready"
    /\ pc[t] = from
    /\ pc' = [pc EXCEPT ![t] = to]
    /\ UNCHANGED <<mountVars, current, filled, chain>>

\* The entry of the FAT for cluster n.
Link(n) ==
    IF \E i \in 1 .. Len(chain) - 1 : chain[i] = n
    THEN chain[(CHOOSE i \in 1 .. Len(chain) - 1 : chain[i] = n) + 1]
    ELSE VFAT_EOC

\* The start of vfat_fuse_read, up to the read of the directory entry.
vfat_fuse_read(t, q) ==
    /\ At(t, "idle", IF q[2] >= q[1] THEN "done" ELSE "open")
    /\ IF q[2] >= q[1]
       THEN result' = [result EXCEPT ![t] = -1] /\ UNCHANGED <<next, req, pieces, disturbed>>
       ELSE /\ next' = IF chain = <<>> THEN 0 ELSE chain[1]
            /\ req' = [req EXCEPT ![t] = [size |-> q[1], offset |-> q[2], asked |-> q]]
            /\ disturbed' = [u \in Threads |-> IF u = t THEN Others(t) # {}
                                               ELSE disturbed[u] \/ Busy(u)]
            /\ pieces' = [u \in Threads |-> IF disturbed'[u] THEN <<>> ELSE pieces[u]]
            /\ UNCHANGED result
    /\ UNCHANGED cur

open(t) ==
    /\ At(t, "open", "next")
    /\ cur' = next
    /\ UNCHANGED <<next, req, pieces, result, disturbed>>

\* get_next_cluster_number: first the copy, then the look at the FAT.
get_next_cluster_number(t) ==
    /\ At(t, "next", "link")
    /\ cur' = next
    /\ UNCHANGED <<next, req, pieces, result, disturbed>>

ReturnsSize(t) == result' = [result EXCEPT ![t] = req[t].asked[1]]

\* Mutant: at the end of the chain the loop goes on.
LinkRetries(t) ==
    IF cur > 0
    THEN /\ At(t, "link", "block")
         /\ next' = Link(cur)
         /\ UNCHANGED <<cur, req, pieces, result, disturbed>>
    ELSE /\ At(t, "link", "next")
         /\ cur' = VFAT_EOC /\ next' = VFAT_EOC
         /\ UNCHANGED <<req, pieces, result, disturbed>>

link(t) ==
    IF cur > 0
    THEN /\ At(t, "link", "block")
         /\ next' = Link(cur)
         /\ UNCHANGED <<cur, req, pieces, result, disturbed>>
    ELSE /\ At(t, "link", "done")
         /\ cur' = VFAT_EOC /\ next' = VFAT_EOC
         /\ ReturnsSize(t)
         /\ UNCHANGED <<req, pieces, disturbed>>


\* What one turn of the loop reads of the cluster, and what is left to do.
Plan(size, offset, B) ==
    IF size + offset <= B
    THEN [read |-> size - offset, size |-> size, offset |-> offset, last |-> size + offset < B]
    ELSE IF offset >= B
    THEN [read |-> 0, size |-> size, offset |-> offset - B, last |-> FALSE]
    ELSE [read |-> B - offset, size |-> IF size > B THEN size - B ELSE size - (B - offset),
          offset |-> 0, last |-> FALSE]

block(t) ==
    LET q == req[t]
        p == Plan(q.size, q.offset, ClusterBytes)
    IN  /\ At(t, "block", IF p.last THEN "done" ELSE "next")
        /\ req' = [req EXCEPT ![t].size = p.size, ![t].offset = p.offset]
        /\ pieces' = [pieces EXCEPT ![t] = IF disturbed[t] THEN <<>>
                        ELSE Append(@, [cluster |-> cur, from |-> q.offset, len |-> p.read])]
        /\ IF p.last THEN ReturnsSize(t) ELSE UNCHANGED result
        /\ UNCHANGED <<cur, next, disturbed>>

\* libfuse sends the answer and the thread waits for the next call.
reply(t) ==
    /\ At(t, "done", "idle")
    /\ req' = [req EXCEPT ![t] = NoRequest]
    /\ pieces' = [pieces EXCEPT ![t] = <<>>]
    /\ result' = [result EXCEPT ![t] = 0]
    /\ disturbed' = [disturbed EXCEPT ![t] = FALSE]
    /\ UNCHANGED <<cur, next>>

ReadStep(t) ==
    \/ \E q \in Requests : vfat_fuse_read(t, q)
    \/ open(t)
    \/ get_next_cluster_number(t)
    \/ link(t)
    \/ block(t)
    \/ reply(t)

\* A program that has ended stays as it is.
Ended == mounting \in {"exited", "crashed"} /\ UNCHANGED vfVars

VfNext ==
    \/ vfat_init
    \/ vfat_read_root_directory
    \/ vfat_fuse_readdir
    \/ \E t \in Threads : ReadStep(t)
    \/ Ended

\* A read that has started goes on: its thread is never stopped.
Steps(t) == open(t) \/ get_next_cluster_number(t) \/ link(t) \/ block(t)
VfFairness == \A t \in Threads : WF_vfVars(Steps(t))

VfSpec == VfInit /\ [][VfNext]_vfVars /\ VfFairness

-----------------------------------------------------------------------------
\* The globals hold a cluster of the chain, nothing, or the end of it.
VfTypeOK ==
    /\ mounting \in {"start", "scan", "ready", "exited", "crashed"}
    /\ bs \in Volumes /\ dir \in Directories /\ chain \in Chains
    /\ slot \in 1 .. Len(dir) + 1
    /\ {cur, next} \subseteq Range(chain) \cup {0, VFAT_EOC}
    /\ pc \in [Threads -> {"idle", "open", "next", "link", "block", "done"}]
    /\ \A t \in Threads : req[t].size \in Nat /\ req[t].offset \in Nat
    /\ disturbed \in [Threads -> BOOLEAN]

\* A volume that is mounted is laid out consistently: for every cluster its
\* number of clusters allows, the FAT entry that get_next_cluster_number reads
\* is inside the first FAT and the data that read reads inside the volume.
GeometrySound ==
    mounting \in {"scan", "ready"} =>
        \A n \in {2, CountOfClusters(bs) + 1} :
            /\ FatEntry(bs, n) + 4 <= (bs.RsvdSecCnt + FATSz(bs)) * bs.BytsPerSec
            /\ ComputeFirstSectorOfCluster(bs, n) + bs.SecPerClus <= TotSec(bs)

\* Wherever the read of freed memory makes the scan stop, the list holds the
\* names of the slots before that point, all of them, in order, and never a
\* deleted or a long-name slot.
ListsAPrefix ==
    root = SelectSeq(SubSeq(dir, 1, slot - 1), LAMBDA s : s \notin Skipped)

\* readdir shows the root directory as it was found at mount time.
ReaddirShowsRoot == filled # <<>> => filled = <<".", "..">> \o root

\* No turn of the loop reads beyond the cluster or beyond the caller's buffer
\* of size bytes, and the count passed to pread is never negative, however often
\* size and offset have been reduced.
PiecesFit ==
    \A t \in Threads : pc[t] = "block" =>
        LET p == Plan(req[t].size, req[t].offset, ClusterBytes) IN
        /\ p.read >= 0 /\ p.read <= req[t].asked[1]
        /\ p.read > 0 => req[t].offset + p.read <= ClusterBytes

\* A read that no other read overlaps walks the chain of the file from its
\* start, cluster by cluster, whatever earlier reads left in the globals.
AloneInOrder ==
    \A t \in Threads : ~disturbed[t] =>
        IsPrefix([i \in DOMAIN pieces[t] |-> pieces[t][i].cluster], chain)

\* ...and, from offset 0, reads exactly the bytes that were asked for, unless
\* the file ends before or they end with a cluster.
AloneComplete ==
    \A t \in Threads :
        LET size == req[t].asked[1] IN
        pc[t] = "done" /\ ~disturbed[t] /\ req[t].asked[2] = 0 /\ size % ClusterBytes # 0
          /\ size <= Len(chain) * ClusterBytes
        => /\ FoldLeft(LAMBDA s, p : s + p.len, 0, pieces[t]) = size
           /\ \A i \in DOMAIN pieces[t] : pieces[t][i].from = 0

\* A read that is left alone comes to an end.
ReadEnds == \A t \in Threads : Busy(t) ~> (~Busy(t) \/ disturbed[t])


=============================================================================
