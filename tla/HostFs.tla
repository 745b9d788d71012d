------------------------------- MODULE HostFs -------------------------------
(***************************************************************************)
(* A mounted host directory: the guest kernel names files by inode number, *)
(* apc-fuse (apc-fuse/src/vfs.rs) turns a number into a path by its inode  *)
(* table and sends the operation to the host, which carries it out on that *)
(* path (apc-host/src/fs_server.rs).  apc-fuse handles one request of the  *)
(* kernel at a time and the host answers it before the next; programs of   *)
(* the host change the directory at any moment in between: they create,    *)
(* remove and rename files and directories and make hard links.  A move    *)
(* out of the directory is a removal there, one into it a creation.        *)
(*                                                                         *)
(* A path is a sequence of names below the root.  Of a node, only whether  *)
(* it is a directory and which object it is are kept; a symbolic link and  *)
(* the data, size, mode and times of a file are not.  The kernel's cache   *)
(* of names (dentries) and its open files stand for all it remembers; an   *)
(* entry may be used within a second without a new lookup, and an open     *)
(* file for as long as it is open.                                         *)
(***************************************************************************)
EXTENDS Naturals, Sequences, FiniteSets

CONSTANTS
    Names,        \* names of files and directories
    MaxInodes,    \* bound: inode numbers handed out
    MaxObjects,   \* bound: files and directories ever created
    MaxRenames,   \* bound: renames by the guest
    MaxMoves      \* bound: from so many objects moved on, programs of the host move none

ASSUME BoundsAssumption ==
    /\ MaxInodes \in Nat \ {0} /\ MaxObjects \in Nat \ {0}
    /\ MaxRenames \in Nat /\ MaxMoves \in Nat

Root == <<>>
Children(p) == {Append(p, n) : n \in Names}
Paths == {Root} \cup Children(Root) \cup UNION {Children(p) : p \in Children(Root)}
Parent(p) == SubSeq(p, 1, Len(p) - 1)
Name(p) == p[Len(p)]
Below(p) == {q \in Paths : Len(q) >= Len(p) /\ SubSeq(q, 1, Len(p)) = p}
Moved(q, from, to) == to \o SubSeq(q, Len(from) + 1, Len(q))

VARIABLES
    host,      \* per path: what is there on the host
    objects,   \* objects created so far
    table,     \* the inode table: ino_to_path, from 1 on
    dentry,    \* per name the kernel knows: its inode number, 0 if none
    opened,    \* open files: the inode number and (history) the object opened
    renames,   \* renames the guest has made
    moved      \* history: objects that programs of the host renamed or linked

vars == <<host, objects, table, dentry, opened, renames, moved>>

Absent == [kind |-> "none", object |-> 0]
RootIno == 1

Init ==
    /\ host = [p \in Paths |-> IF p = Root THEN [kind |-> "dir", object |-> 0] ELSE Absent]
    /\ objects = 0
    /\ table = <<Root>>
    /\ dentry = [p \in Paths |-> IF p = Root THEN RootIno ELSE 0]
    /\ opened = {} /\ renames = 0 /\ moved = {}

Exists(p) == host[p] # Absent
IsDir(p) == host[p].kind = "dir"
IsFile(p) == host[p].kind = "file"
Empty(p) == \A q \in Children(p) \cap Paths : ~Exists(q)

-----------------------------------------------------------------------------
(* The inode table *)

Numbers == DOMAIN table
Known(p) == \E i \in Numbers : table[i] = p

InsertReusesNumbers(p) ==
    IF Known(p) THEN table
    ELSE IF \E i \in Numbers : ~Exists(table[i]) /\ \A q \in Paths : dentry[q] # i
    THEN LET free == CHOOSE i \in Numbers :
                       ~Exists(table[i]) /\ \A q \in Paths : dentry[q] # i
         IN  [table EXCEPT ![free] = p]
    ELSE Append(table, p)

\* get_or_insert: a path keeps its number for ever.
Insert(p) == IF Known(p) THEN table ELSE Append(table, p)

Ino(t, p) == CHOOSE i \in DOMAIN t : t[i] = p
CanInsert(p) == Known(p) \/ Len(table) < MaxInodes

ChildPathFlat(p) == <<Name(p)>>

\* child_path: the table's path of the parent's number, and the name.
ChildPath(p) == Append(table[dentry[Parent(p)]], Name(p))

\* A name whose parent the kernel knows; it looks up the parent first.
Addressable(p) == p # Root /\ dentry[Parent(p)] # 0 /\ ChildPath(p) \in Paths

-----------------------------------------------------------------------------
(* What the host does (fs_server::dispatch) *)

CanCreate(p) == IsDir(Parent(p)) /\ ~Exists(p) /\ objects < MaxObjects

MakeNode(p, kind) ==
    /\ objects' = objects + 1
    /\ host' = [host EXCEPT ![p] = [kind |-> kind, object |-> objects + 1]]

RemoveNode(p) == host' = [host EXCEPT ![p] = Absent] /\ UNCHANGED objects

CanRename(from, to) ==
    /\ Exists(from) /\ IsDir(Parent(to)) /\ from # to /\ to \notin Below(from)
    /\ IF IsDir(from) THEN (~Exists(to) \/ IsDir(to)) /\ Empty(to) ELSE ~IsDir(to)
    /\ \A q \in Below(from) : Exists(q) => Moved(q, from, to) \in Paths

\* rename(2); of two links of one file it leaves both.
RenameNode(from, to) ==
    host' = [q \in Paths |->
               IF host[from].object = host[to].object THEN host[q]
               ELSE IF q \in Below(to)
               THEN LET old == Moved(q, to, from)
                    IN  IF old \in Paths THEN host[old] ELSE Absent
               ELSE IF q \in Below(from) THEN Absent ELSE host[q]]

-----------------------------------------------------------------------------
(* The kernel's requests *)

\* The number is stored in the table only if the host has the path.
Lookup(p) ==
    /\ Addressable(p) /\ CanInsert(ChildPath(p))
    /\ LET path == ChildPath(p)
       IN  IF Exists(path)
           THEN /\ table' = Insert(path)
                /\ dentry' = [dentry EXCEPT ![p] = Ino(table', path)]
           ELSE dentry' = [dentry EXCEPT ![p] = 0] /\ UNCHANGED table
    /\ UNCHANGED <<host, objects, opened, renames, moved>>

\* readdir enters the children in the table, in the order the host lists them
\* and as many as the reply has room for; the kernel keeps none of them.
ReadDir(p) ==
    /\ dentry[p] # 0 /\ IsDir(table[dentry[p]])
    /\ LET new == {q \in Children(table[dentry[p]]) \cap Paths : Exists(q) /\ ~Known(q)}
       IN  \E k \in 0 .. Cardinality(new) : \E listed \in [1 .. k -> new] :
             /\ \A i, j \in 1 .. k : listed[i] = listed[j] => i = j
             /\ Len(table) + k <= MaxInodes
             /\ table' = table \o listed
    /\ UNCHANGED <<host, objects, dentry, opened, renames, moved>>

OpenFile(i, object) == [ino |-> i, object |-> object]

\* create and mkdir insert the path before they ask the host, which may fail;
\* create opens what is there already.
Make(p, kind) ==
    /\ Addressable(p) /\ CanInsert(ChildPath(p))
    /\ LET path == ChildPath(p)
       IN  /\ table' = Insert(path)
           /\ \/ /\ CanCreate(path)
                 /\ MakeNode(path, kind)
                 /\ dentry' = [dentry EXCEPT ![p] = Ino(table', path)]
                 /\ opened' = IF kind = "file"
                              THEN opened \cup {OpenFile(Ino(table', path), objects')} ELSE opened
              \/ /\ kind = "file" /\ IsFile(path)
                 /\ dentry' = [dentry EXCEPT ![p] = Ino(table', path)]
                 /\ opened' = opened \cup {OpenFile(Ino(table', path), host[path].object)}
                 /\ UNCHANGED <<host, objects>>
              \/ UNCHANGED <<host, objects, dentry, opened>>   \* EEXIST, ENOENT, EIO...
    /\ UNCHANGED <<renames, moved>>

Forget(p) == dentry' = [q \in Paths |-> IF q \in Below(p) THEN 0 ELSE dentry[q]]

\* unlink and rmdir; the table keeps the path.
Remove(p) ==
    /\ Addressable(p)
    /\ LET path == ChildPath(p)
       IN  Exists(path) /\ (IsDir(path) => Empty(path)) /\ RemoveNode(path)
    /\ Forget(p)
    /\ UNCHANGED <<table, opened, renames, moved>>

\* rename: on success the kernel moves its entry, number and all, to the new
\* name; the table is not changed.
Rename(p, q) ==
    /\ renames < MaxRenames /\ renames' = renames + 1
    /\ Addressable(p) /\ Addressable(q) /\ dentry[p] # 0
    /\ CanRename(ChildPath(p), ChildPath(q)) /\ RenameNode(ChildPath(p), ChildPath(q))
    /\ dentry' = [r \in Paths |->
                    IF r \in Below(q)
                    THEN LET old == Moved(r, q, p) IN IF old \in Paths THEN dentry[old] ELSE 0
                    ELSE IF r \in Below(p) THEN 0 ELSE dentry[r]]
    /\ UNCHANGED <<objects, table, opened, moved>>

\* open stats the path; the file is addressed by its number from then on.
Open(p) ==
    /\ p # Root /\ dentry[p] # 0 /\ IsFile(table[dentry[p]])
    /\ opened' = opened \cup {OpenFile(dentry[p], host[table[dentry[p]]].object)}
    /\ UNCHANGED <<host, objects, table, dentry, renames, moved>>

Release(o) ==
    /\ opened' = opened \ {o}
    /\ UNCHANGED <<host, objects, table, dentry, renames, moved>>

KernelRequest ==
    \/ \E p \in Paths :
         \/ Lookup(p) \/ ReadDir(p) \/ Remove(p) \/ Open(p)
         \/ \E kind \in {"file", "dir"} : Make(p, kind)
         \/ \E q \in Paths : Rename(p, q)
    \/ \E o \in opened : Release(o)

\* Programs of the host, by path alone.
HostRename(p, q) ==
    /\ Cardinality(moved) < MaxMoves
    /\ CanRename(p, q) /\ RenameNode(p, q)
    /\ moved' = moved \cup {host[r].object : r \in {r \in Below(p) : Exists(r)}}
    /\ UNCHANGED objects

HostLink(p, q) ==
    /\ Cardinality(moved) < MaxMoves
    /\ IsFile(p) /\ IsDir(Parent(q)) /\ ~Exists(q)
    /\ host' = [host EXCEPT ![q] = host[p]]
    /\ moved' = moved \cup {host[p].object}
    /\ UNCHANGED objects

HostEdits ==
    /\ \E p \in Paths \ {Root} :
         \/ \E kind \in {"file", "dir"} : CanCreate(p) /\ MakeNode(p, kind) /\ UNCHANGED moved
         \/ Exists(p) /\ Empty(p) /\ RemoveNode(p) /\ UNCHANGED moved
         \/ \E q \in Paths \ {Root} : HostRename(p, q) \/ HostLink(p, q)
    /\ UNCHANGED <<table, dentry, opened, renames>>

Next == KernelRequest \/ HostEdits

Spec == Init /\ [][Next]_vars

-----------------------------------------------------------------------------
(* Properties *)

\* The file that the kernel knows by a name has that very name on the host:
\* whatever it reads, writes or opens there, it does to that path.
NameIsPath == \A p \in Paths : dentry[p] # 0 => table[dentry[p]] = p

\* So it is, through every order of lookups, creations, failures, removals and
\* edits on the host, as long as the guest renames nothing.
NameIsPathUntilRename == renames = 0 => NameIsPath

\* apc-fuse opens nothing: every read and write goes to the path of the number,
\* and a removed path keeps its number.  As long as the guest renames nothing,
\* that reaches the file that was opened or, once it is gone from the
\* directory, a newer one made in its place; never a file that was there before.
\* The exceptions are files that programs of the host rename or link: one that
\* was opened may live on elsewhere, and one put in its place may be older.
OpenFileIsReached ==
    renames = 0 =>
      \A o \in opened :
        LET reached == host[table[o.ino]]
        IN  /\ reached \notin {Absent, [kind |-> "file", object |-> o.object]}
            /\ {o.object, reached.object} \cap moved = {}
            => /\ reached.object > o.object
               /\ \A p \in Paths : host[p].object # o.object
=============================================================================
