----------------------------- MODULE HostFsProofs -----------------------------
(***************************************************************************)
(* Proofs about mounted directories.  Of their file names, for any names   *)
(* and any number of files: as long as the guest renames nothing, a name   *)
(* leads to its own path, and an open file to the file that was opened,    *)
(* unless programs of the host move files about.                           *)
(* Of how they get mounted (Mounts), for any number of mounts and any set  *)
(* of allowed ones: nothing else is mounted, and errors are final.         *)
(***************************************************************************)
EXTENDS HostFs, Mounts, FiniteSetTheorems, SequenceTheorems, TLAPS

Nodes == [kind : {"none", "file", "dir"}, object : 0 .. objects]

Types ==
  /\ objects \in Nat
  /\ host \in [Paths -> Nodes]
  /\ table \in Seq(Paths)
  /\ dentry \in [Paths -> 0 .. Len(table)]
  /\ opened \subseteq [ino : 1 .. Len(table), object : 1 .. objects]

\* An object that no program of the host has moved is in one place, and only
\* directories and what is absent have none.
ObjectsAreUnique ==
  /\ \A p, q \in Paths : host[p].object = host[q].object /\ host[p].object \notin moved \cup {0}
                           => p = q
  /\ \A p \in Paths : IsFile(p) => host[p].object # 0

\* The path of an open file that was not moved has that file, or the file is
\* nowhere and what the path has by now is newer or was moved there.
OpenIsReached(o) ==
  LET reached == host[table[o.ino]]
  IN  \/ o.object \in moved
      \/ reached = [kind |-> "file", object |-> o.object]
      \/ /\ reached = Absent \/ reached.object > o.object \/ reached.object \in moved
         /\ \A p \in Paths : host[p].object # o.object

OpenAreReached == \A o \in opened : OpenIsReached(o)

\* The inductive invariant: until the first rename there is no number whose
\* path is not the kernel's.
Names0 == Types /\ ObjectsAreUnique /\ NameIsPath /\ OpenAreReached
IInv == renames \in Nat /\ (renames = 0 => Names0)

-----------------------------------------------------------------------------
(* Paths and the inode table *)

LEMMA PathsAreNested ==
  ASSUME NEW p \in Paths, p # Root
  PROVE  Parent(p) \in Paths /\ p = Append(Parent(p), Name(p))
<1>1. CASE p \in Children(Root)
  <2>1. PICK n \in Names : p = <<n>>
    BY <1>1 DEF Children, Root
  <2>2. Parent(p) = <<>> /\ Name(p) = n
    BY <2>1, SubSeqEmpty DEF Parent, Name
  <2> QED BY <2>1, <2>2 DEF Paths, Root
<1>2. ASSUME NEW q \in Children(Root), p \in Children(q)
      PROVE  Parent(p) \in Paths /\ p = Append(Parent(p), Name(p))
  <2>1. PICK m \in Names : q = <<m>>
    BY <1>2 DEF Children, Root
  <2>2. PICK n \in Names : p = <<m, n>>
    BY <1>2, <2>1 DEF Children
  <2>3. SubSeq(p, 1, 1) = <<m>> /\ Len(p) = 2
    <3> DEFINE s == SubSeq(p, 1, 1)
    <3>1. Len(p) = 2 /\ p[1] = m /\ p \in Seq(Names)
      BY <2>2
    <3>2. s \in Seq(Names) /\ Len(s) = 1 /\ s[1] = m
      BY <3>1, SubSeqProperties
    <3> HIDE DEF s
    <3>3. s = <<m>>
      BY <3>2, SeqEqual
    <3> QED BY <3>1, <3>3 DEF s
  <2>4. Parent(p) = q /\ Name(p) = n
    BY <2>1, <2>2, <2>3 DEF Parent, Name
  <2>5. p = Append(q, n)
    BY <2>1, <2>2
  <2> QED BY <1>2, <2>4, <2>5 DEF Paths
<1> QED BY <1>1, <1>2 DEF Paths

\* While names are paths, the table's path of a name is the name.
LEMMA ChildPathIsPath ==
  ASSUME NameIsPath, NEW p \in Paths, Addressable(p)
  PROVE  ChildPath(p) = p
BY PathsAreNested DEF NameIsPath, Addressable, ChildPath

\* get_or_insert moves no number, and the path has one afterwards.
LEMMA InsertKeeps ==
  ASSUME table \in Seq(Paths), NEW p \in Paths, NEW t, t = Insert(p)
  PROVE  /\ t \in Seq(Paths) /\ Len(table) <= Len(t)
         /\ \A i \in 1 .. Len(table) : t[i] = table[i]
         /\ Ino(t, p) \in 1 .. Len(t) /\ t[Ino(t, p)] = p
<1>1. /\ t \in Seq(Paths) /\ Len(table) <= Len(t)
      /\ \A i \in 1 .. Len(table) : t[i] = table[i]
      /\ \E i \in DOMAIN t : t[i] = p
  <2>1. CASE Known(p)
    BY <2>1, LenProperties DEF Insert, Known, Numbers
  <2>2. CASE ~ Known(p)
    <3>1. t = Append(table, p)
      BY <2>2 DEF Insert
    <3> QED BY <3>1, AppendProperties, LenProperties
  <2> QED BY <2>1, <2>2
<1>2. Ino(t, p) \in DOMAIN t /\ t[Ino(t, p)] = p
  BY <1>1 DEF Ino
<1> QED BY <1>1, <1>2, LenProperties

-----------------------------------------------------------------------------
(* What a step does to the host and to the open files *)

TableGrows ==
  /\ table' \in Seq(Paths) /\ Len(table) <= Len(table')
  /\ \A i \in 1 .. Len(table) : table'[i] = table[i]

\* A path has what it had, or nothing, or what was moved there.
Rearranged ==
  /\ UNCHANGED objects /\ moved \subseteq moved'
  /\ DOMAIN host' = Paths /\ host' = [q \in DOMAIN host' |-> host'[q]]
  /\ \A q \in Paths : \/ host'[q] = Absent \/ host'[q] = host[q]
                       \/ \E r \in Paths : host'[q] = host[r] /\ host[r].object \in moved'

HostStep ==
  \/ Rearranged
  \/ \E p \in Paths, kind \in {"file", "dir"} :
       ~ Exists(p) /\ MakeNode(p, kind) /\ UNCHANGED moved

LEMMA SameHost ==
  ASSUME Types, UNCHANGED <<host, objects, moved>> PROVE HostStep
BY DEF HostStep, Rearranged, Types

LEMMA RemovedNode ==
  ASSUME Types, NEW p \in Paths, RemoveNode(p), UNCHANGED moved PROVE HostStep
<1>1. host' = [q \in Paths |-> IF q = p THEN Absent ELSE host[q]] /\ UNCHANGED objects
  BY DEF RemoveNode, Types
<1> QED BY <1>1 DEF HostStep, Rearranged

LEMMA PathsAreSequences == Paths \subseteq Seq(Names)
<1>1. Root \in Seq(Names)
  BY DEF Root
<1>2. ASSUME NEW p \in Seq(Names) PROVE Children(p) \subseteq Seq(Names)
  BY AppendProperties DEF Children
<1> QED BY <1>1, <1>2 DEF Paths

\* A path that is moved below another one begins with it.
LEMMA MovedIsBelow ==
  ASSUME NEW p \in Paths, NEW from, NEW q \in Paths, Moved(q, from, p) \in Paths,
         Len(from) \in Nat, Len(from) <= Len(q)
  PROVE  Moved(q, from, p) \in Below(p)
<1>1. p \in Seq(Names) /\ q \in Seq(Names)
  BY PathsAreSequences
<1> PICK s : s = SubSeq(q, Len(from) + 1, Len(q))
  OBVIOUS
<1>2. s \in Seq(Names)
  BY <1>1, SubSeqProperties, LenProperties
<1>3. Moved(q, from, p) = p \o s
  BY DEF Moved
<1> PICK c : c = p \o s
  OBVIOUS
<1>4. c \in Seq(Names) /\ Len(c) = Len(p) + Len(s) /\ \A i \in 1 .. Len(p) : c[i] = p[i]
  BY <1>1, <1>2, ConcatProperties
<1>5. Len(p) \in Nat /\ Len(s) \in Nat
  BY <1>1, <1>2, LenProperties
<1>6. SubSeq(c, 1, Len(p)) = p
  <2> PICK b : b = SubSeq(c, 1, Len(p))
    OBVIOUS
  <2>1. b \in Seq(Names) /\ Len(b) = Len(p) /\ \A i \in 1 .. Len(p) : b[i] = c[i]
    BY <1>4, <1>5, SubSeqProperties
  <2> QED BY <1>1, <1>4, <2>1, SeqEqual
<1>7. c \in Paths /\ Len(c) >= Len(p)
  BY <1>3, <1>4, <1>5
<1>8. c \in Below(p)
  BY <1>6, <1>7 DEF Below
<1> QED BY <1>3, <1>8

LEMMA RenamedByHost ==
  ASSUME Types, NEW p \in Paths, NEW q \in Paths, HostRename(p, q) PROVE HostStep
<1>1. /\ moved' = moved \cup {host[r].object : r \in {r \in Below(p) : Exists(r)}}
      /\ UNCHANGED objects /\ RenameNode(p, q)
  BY DEF HostRename
<1>2. ASSUME NEW r \in Paths
      PROVE  \/ host'[r] = Absent \/ host'[r] = host[r]
             \/ \E old \in Paths : host'[r] = host[old] /\ host[old].object \in moved'
  <2> PICK old : old = Moved(r, q, p)
    OBVIOUS
  <2>1. CASE host[p].object # host[q].object /\ r \in Below(q) /\ old \in Paths
    <3>1. host'[r] = host[old]
      BY <1>1, <2>1 DEF RenameNode
    <3>2. q \in Seq(Names) /\ Len(q) \in Nat
      BY LenProperties, PathsAreSequences
    <3>3. old \in Below(p)
      BY <2>1, <3>2, MovedIsBelow DEF Below
    <3> QED BY <1>1, <2>1, <3>1, <3>3 DEF Exists
  <2>2. CASE ~ (host[p].object # host[q].object /\ r \in Below(q) /\ old \in Paths)
    BY <1>1, <2>2 DEF RenameNode
  <2> QED BY <2>1, <2>2
<1>3. DOMAIN host' = Paths /\ host' = [r \in DOMAIN host' |-> host'[r]]
  BY <1>1 DEF RenameNode
<1> QED BY <1>1, <1>2, <1>3 DEF HostStep, Rearranged

LEMMA LinkedByHost ==
  ASSUME Types, NEW p \in Paths, NEW q \in Paths, HostLink(p, q) PROVE HostStep
<1>1. /\ host' = [r \in Paths |-> IF r = q THEN host[p] ELSE host[r]]
      /\ moved' = moved \cup {host[p].object} /\ UNCHANGED objects
  BY DEF HostLink, Types
<1> QED BY <1>1 DEF HostStep, Rearranged

LEMMA HostKeeps ==
  ASSUME Types, ObjectsAreUnique, OpenAreReached, TableGrows, HostStep
  PROVE  /\ objects' \in Nat /\ objects <= objects' /\ host' \in [Paths -> Nodes']
         /\ ObjectsAreUnique'
         /\ \A o \in opened : OpenIsReached(o)'
<1>t. ASSUME NEW o \in opened
      PROVE  /\ table'[o.ino] = table[o.ino] /\ table[o.ino] \in Paths
             /\ o.object \in 1 .. objects
  <2>1. o.ino \in 1 .. Len(table) /\ o.object \in 1 .. objects
    BY DEF Types
  <2> QED BY <2>1 DEF Types, TableGrows
<1>1. CASE Rearranged
  <2>1. /\ objects' = objects /\ objects \in Nat /\ moved \subseteq moved' /\ Nodes' = Nodes
        /\ \A q \in Paths : \/ host'[q] = Absent \/ host'[q] = host[q]
                             \/ \E r \in Paths : host'[q] = host[r] /\ host[r].object \in moved'
    BY <1>1 DEF Rearranged, Types, Nodes
  <2>2. host' \in [Paths -> Nodes']
    <3>1. Absent \in Nodes /\ \A q \in Paths : host[q] \in Nodes
      BY <2>1 DEF Absent, Nodes, Types
    <3>2. \A q \in Paths : host'[q] \in Nodes
      BY <2>1, <3>1
    <3> QED BY <1>1, <2>1, <3>2 DEF Rearranged
  <2>3. ASSUME NEW q \in Paths, host'[q].object \notin moved' \cup {0}
        PROVE  host'[q] = host[q] /\ host[q].object \notin moved \cup {0}
    BY <2>1, <2>3 DEF Absent
  <2>4. ObjectsAreUnique'
    <3>1. ASSUME NEW p \in Paths, NEW q \in Paths, host'[p].object = host'[q].object,
                 host'[p].object \notin moved' \cup {0}
          PROVE  p = q
      BY <2>3, <3>1 DEF ObjectsAreUnique
    <3>2. ASSUME NEW p \in Paths, IsFile(p)' PROVE host'[p].object # 0
      BY <2>1, <3>2 DEF ObjectsAreUnique, IsFile, Absent
    <3> QED BY <3>1, <3>2 DEF ObjectsAreUnique
  <2>5. ASSUME NEW o \in opened PROVE OpenIsReached(o)'
    <3> PICK path \in Paths : path = table[o.ino] /\ path = table'[o.ino]
      BY <1>t
    <3>1. OpenIsReached(o) /\ o.object # 0
      BY <1>t DEF OpenAreReached, Types
    <3>2. CASE o.object \in moved'
      BY <3>2 DEF OpenIsReached
    <3>3. CASE o.object \notin moved' /\ host[path] = [kind |-> "file", object |-> o.object]
      <4>1. CASE host'[path] = host[path]
        BY <3>3, <4>1 DEF OpenIsReached
      <4>2. CASE host'[path] # host[path]
        <5>1. \A q \in Paths : host'[q].object # o.object
          <6>1. ASSUME NEW q \in Paths, host'[q].object = o.object PROVE FALSE
            <7>1. host'[q] = host[q] /\ host[q].object \notin moved \cup {0}
              BY <2>3, <3>1, <3>3, <6>1
            <7>2. q = path
              BY <3>3, <6>1, <7>1 DEF ObjectsAreUnique
            <7> QED BY <4>2, <7>1, <7>2
          <6> QED BY <6>1
        <5>2. host'[path] = Absent \/ host'[path].object \in moved'
          BY <2>1, <4>2
        <5> QED BY <5>1, <5>2 DEF OpenIsReached
      <4> QED BY <4>1, <4>2
    <3>4. CASE o.object \notin moved' /\ host[path] # [kind |-> "file", object |-> o.object]
      <4>1. /\ host[path] = Absent \/ host[path].object > o.object \/ host[path].object \in moved
            /\ \A q \in Paths : host[q].object # o.object
        BY <2>1, <3>1, <3>4 DEF OpenIsReached
      <4>2. \A q \in Paths : host'[q].object # o.object
        BY <2>3, <3>1, <3>4, <4>1
      <4>3. \/ host'[path] = Absent \/ host'[path].object > o.object
            \/ host'[path].object \in moved'
        BY <2>1, <4>1
      <4> QED BY <4>2, <4>3 DEF OpenIsReached
    <3> QED BY <3>2, <3>3, <3>4
  <2> QED BY <2>1, <2>2, <2>4, <2>5
<1>2. ASSUME NEW p \in Paths, NEW kind \in {"file", "dir"}, ~ Exists(p), MakeNode(p, kind),
             UNCHANGED moved
      PROVE  /\ objects' \in Nat /\ objects <= objects' /\ host' \in [Paths -> Nodes']
             /\ ObjectsAreUnique'
             /\ \A o \in opened : OpenIsReached(o)'
  <2> DEFINE new == [kind |-> kind, object |-> objects + 1]
  <2>1. objects' = objects + 1 /\ host' = [host EXCEPT ![p] = new] /\ host[p] = Absent
    BY <1>2 DEF MakeNode, Exists
  <2>2. \A q \in Paths : host'[q] = IF q = p THEN new ELSE host[q]
    BY <2>1 DEF Types
  <2>3. objects \in Nat /\ objects' \in Nat /\ objects <= objects'
    BY <2>1 DEF Types
  <2>4. \A q \in Paths : host[q].object <= objects /\ host[q].object \in Nat
    BY <2>3 DEF Types, Nodes
  <2>5. host' \in [Paths -> Nodes']
    <3>1. new \in Nodes'
      BY <2>1, <2>3 DEF Nodes
    <3>2. \A q \in Paths : host[q] \in Nodes'
      BY <2>1, <2>3 DEF Types, Nodes
    <3> HIDE DEF new
    <3> QED BY <2>1, <3>1, <3>2 DEF Types
  <2>6. ObjectsAreUnique'
    <3>1. \A q \in Paths : q # p => host'[q] = host[q] /\ host'[q].object # objects + 1
      BY <2>2, <2>3, <2>4
    <3>2. host'[p].object = objects + 1 /\ objects + 1 # 0
      BY <2>2, <2>3
    <3> QED BY <1>2, <3>1, <3>2 DEF ObjectsAreUnique, IsFile
  <2>7. ASSUME NEW o \in opened PROVE OpenIsReached(o)'
    <3>1. o.object \in Nat /\ o.object < objects + 1 /\ table[o.ino] \in Paths
      BY <1>t, <2>3
    <3>2. OpenIsReached(o)
      BY DEF OpenAreReached
    <3>3. CASE table[o.ino] = p
      <4>1. o.object \in moved \/ \A q \in Paths : host[q].object # o.object
        BY <2>1, <3>1, <3>2, <3>3 DEF OpenIsReached, Absent
      <4>2. o.object \in moved' \/ \A q \in Paths : host'[q].object # o.object
        BY <1>2, <2>2, <3>1, <4>1
      <4>3. host'[table'[o.ino]].object > o.object
        BY <1>t, <2>2, <2>3, <3>1, <3>3
      <4> QED BY <4>2, <4>3 DEF OpenIsReached
    <3>4. CASE table[o.ino] # p
      <4>1. host'[table'[o.ino]] = host[table[o.ino]]
        BY <1>t, <2>2, <3>4
      <4>2. \A q \in Paths : host'[q].object = o.object => host[q].object = o.object
        BY <2>2, <3>1
      <4> QED BY <1>2, <3>2, <4>1, <4>2 DEF OpenIsReached, Absent
    <3> QED BY <3>3, <3>4
  <2> QED BY <2>3, <2>5, <2>6, <2>7
<1> QED BY <1>1, <1>2 DEF HostStep

\* A file that a request opens is the one at its path.
LEMMA OpenedIsReached ==
  ASSUME NEW i, IsFile(table[i]), host[table[i]] \in Nodes
  PROVE  OpenIsReached(OpenFile(i, host[table[i]].object))
BY DEF OpenIsReached, OpenFile, IsFile, Nodes

\* Most steps: numbers are added, the host changes or not, and open files are
\* closed.
LEMMA StepKeeps ==
  ASSUME Names0, TableGrows, HostStep, opened' \subseteq opened,
         dentry' \in [Paths -> 0 .. Len(table')],
         \A p \in Paths : dentry'[p] # 0 => table'[dentry'[p]] = p
  PROVE  Names0'
<1>1. /\ objects' \in Nat /\ objects <= objects' /\ host' \in [Paths -> Nodes']
      /\ ObjectsAreUnique'
      /\ \A o \in opened : OpenIsReached(o)'
  BY HostKeeps DEF Names0
<1>2. opened' \subseteq [ino : 1 .. Len(table'), object : 1 .. objects']
  <2>1. opened \subseteq [ino : 1 .. Len(table), object : 1 .. objects]
    BY DEF Names0, Types
  <2>2. 1 .. Len(table) \subseteq 1 .. Len(table') /\ 1 .. objects \subseteq 1 .. objects'
    BY <1>1 DEF TableGrows, Names0, Types
  <2> QED BY <2>1, <2>2
<1>3. Types'
  BY <1>1, <1>2 DEF Types, TableGrows
<1> QED BY <1>1, <1>3 DEF Names0, OpenAreReached, NameIsPath

LEMMA SameTable ==
  ASSUME Types, UNCHANGED table PROVE TableGrows
BY DEF Types, TableGrows

\* Names whose number the kernel forgets, and the others.
LEMMA DentryKept ==
  ASSUME Names0, TableGrows, NEW F \in SUBSET Paths,
         dentry' = [p \in Paths |-> IF p \in F THEN 0 ELSE dentry[p]]
  PROVE  /\ dentry' \in [Paths -> 0 .. Len(table')]
         /\ \A p \in Paths : dentry'[p] # 0 => table'[dentry'[p]] = p
<1>1. \A p \in Paths : dentry[p] \in 0 .. Len(table) /\ (dentry[p] # 0 => table[dentry[p]] = p)
  BY DEF Names0, Types, NameIsPath
<1>2. Len(table) \in Nat /\ Len(table') \in Nat
  BY LenProperties DEF Names0, Types, TableGrows
<1>3. \A p \in Paths : dentry'[p] \in 0 .. Len(table')
  BY <1>1, <1>2 DEF TableGrows
<1>4. ASSUME NEW p \in Paths, dentry'[p] # 0 PROVE table'[dentry'[p]] = p
  <2>1. dentry'[p] = dentry[p] /\ dentry[p] \in 1 .. Len(table)
    BY <1>1, <1>2, <1>4
  <2> QED BY <1>1, <1>4, <2>1 DEF TableGrows
<1> QED BY <1>3, <1>4

\* A name that is entered with the number of its path.
LEMMA DentryEntered ==
  ASSUME Names0, NEW p \in Paths, table' = Insert(p),
         dentry' = [dentry EXCEPT ![p] = Ino(table', p)]
  PROVE  /\ dentry' \in [Paths -> 0 .. Len(table')]
         /\ \A q \in Paths : dentry'[q] # 0 => table'[dentry'[q]] = q
<1>1. \A q \in Paths : dentry[q] \in 0 .. Len(table) /\ (dentry[q] # 0 => table[dentry[q]] = q)
  BY DEF Names0, Types, NameIsPath
<1> PICK i : i = Ino(table', p)
  OBVIOUS
<1>2. /\ table' \in Seq(Paths) /\ Len(table) <= Len(table')
      /\ \A j \in 1 .. Len(table) : table'[j] = table[j]
      /\ i \in 1 .. Len(table') /\ table'[i] = p
  BY InsertKeeps DEF Names0, Types
<1>3. Len(table) \in Nat /\ Len(table') \in Nat
  BY <1>2, LenProperties DEF Names0, Types
<1>4. dentry' = [q \in Paths |-> IF q = p THEN i ELSE dentry[q]]
  BY DEF Names0, Types
<1>5. \A q \in Paths : dentry'[q] \in 0 .. Len(table')
  BY <1>1, <1>2, <1>3, <1>4
<1>6. ASSUME NEW q \in Paths, dentry'[q] # 0 PROVE table'[dentry'[q]] = q
  <2>1. CASE q = p
    BY <1>2, <1>4, <2>1
  <2>2. CASE q # p
    <3>1. dentry'[q] = dentry[q] /\ dentry[q] \in 1 .. Len(table)
      BY <1>1, <1>3, <1>4, <1>6, <2>2
    <3> QED BY <1>1, <1>2, <1>6, <3>1
  <2> QED BY <2>1, <2>2
<1> QED BY <1>4, <1>5, <1>6

-----------------------------------------------------------------------------
(* The requests *)

LEMMA LookupStep ==
  ASSUME Names0, NEW p \in Paths, Lookup(p) PROVE Names0'
<1>1. ChildPath(p) = p /\ UNCHANGED <<host, objects, moved, opened>>
  BY ChildPathIsPath DEF Names0, Lookup
<1>2. HostStep
  BY <1>1, SameHost DEF Names0
<1>3. CASE Exists(p)
  <2>1. table' = Insert(p) /\ dentry' = [dentry EXCEPT ![p] = Ino(table', p)]
    BY <1>1, <1>3 DEF Lookup
  <2>2. TableGrows
    BY <2>1, InsertKeeps DEF TableGrows, Names0, Types
  <2> QED BY <1>1, <1>2, <2>1, <2>2, DentryEntered, StepKeeps
<1>4. CASE ~ Exists(p)
  <2>1. UNCHANGED table /\ dentry' = [dentry EXCEPT ![p] = 0]
    BY <1>1, <1>4 DEF Lookup
  <2>2. TableGrows
    BY <2>1, SameTable DEF Names0
  <2>3. dentry' = [q \in Paths |-> IF q \in {p} THEN 0 ELSE dentry[q]]
    BY <2>1 DEF Names0, Types
  <2>4. {p} \in SUBSET Paths
    OBVIOUS
  <2> QED BY <1>1, <1>2, <2>2, <2>3, <2>4, DentryKept, StepKeeps
<1> QED BY <1>3, <1>4

LEMMA DentrySame ==
  ASSUME Names0, TableGrows, UNCHANGED dentry
  PROVE  /\ dentry' \in [Paths -> 0 .. Len(table')]
         /\ \A q \in Paths : dentry'[q] # 0 => table'[dentry'[q]] = q
<1>1. dentry' = [q \in Paths |-> IF q \in {} THEN 0 ELSE dentry[q]]
  BY DEF Names0, Types
<1>2. {} \in SUBSET Paths
  OBVIOUS
<1> QED BY <1>1, <1>2, DentryKept

LEMMA ReadDirStep ==
  ASSUME Names0, NEW p \in Paths, ReadDir(p) PROVE Names0'
<1>1. UNCHANGED <<host, objects, moved, dentry, opened>>
  BY DEF ReadDir
<1>2. \E listed \in Seq(Paths) : table' = table \o listed
  <2> DEFINE new == {q \in Children(table[dentry[p]]) \cap Paths : Exists(q) /\ ~Known(q)}
  <2>1. PICK k \in 0 .. Cardinality(new) : \E listed \in [1 .. k -> new] :
          table' = table \o listed
    BY DEF ReadDir
  <2>2. PICK listed \in [1 .. k -> new] : table' = table \o listed
    BY <2>1
  <2>3. listed \in [1 .. k -> Paths] /\ k \in Nat
    OBVIOUS
  <2>4. listed \in Seq(Paths)
    BY <2>3, SeqDef
  <2> QED BY <2>2, <2>4
<1>4. TableGrows
  <2> PICK listed \in Seq(Paths) : table' = table \o listed
    BY <1>2
  <2> QED BY ConcatProperties, LenProperties DEF TableGrows, Names0, Types
<1>5. HostStep
  BY <1>1, SameHost DEF Names0
<1>6. /\ dentry' \in [Paths -> 0 .. Len(table')]
      /\ \A q \in Paths : dentry'[q] # 0 => table'[dentry'[q]] = q
  BY <1>1, <1>4, DentrySame
<1> QED BY <1>1, <1>4, <1>5, <1>6, StepKeeps

LEMMA MakeStep ==
  ASSUME Names0, NEW p \in Paths, NEW kind \in {"file", "dir"}, Make(p, kind) PROVE Names0'
<1>1. ChildPath(p) = p /\ table' = Insert(p) /\ UNCHANGED moved
  BY ChildPathIsPath DEF Names0, Make
<1>2. TableGrows
  BY <1>1, InsertKeeps DEF TableGrows, Names0, Types
<1> PICK i : i = Ino(table', p)
  OBVIOUS
<1>3. i \in 1 .. Len(table') /\ table'[i] = p
  BY <1>1, InsertKeeps DEF Names0, Types
<1>4. CASE UNCHANGED <<host, objects, dentry, opened>>
  <2>1. HostStep
    BY <1>1, <1>4, SameHost DEF Names0
  <2>2. /\ dentry' \in [Paths -> 0 .. Len(table')]
        /\ \A q \in Paths : dentry'[q] # 0 => table'[dentry'[q]] = q
    BY <1>2, <1>4, DentrySame
  <2> QED BY <1>2, <1>4, <2>1, <2>2, StepKeeps
<1>5. ASSUME dentry' = [dentry EXCEPT ![p] = i], HostStep, NEW new,
             opened' = opened \cup new,
             new = {} \/ (new = {OpenFile(i, host'[p].object)} /\ IsFile(p)')
      PROVE  Names0'
  <2>1. /\ objects' \in Nat /\ objects <= objects' /\ host' \in [Paths -> Nodes']
        /\ ObjectsAreUnique'
        /\ \A o \in opened : OpenIsReached(o)'
    BY <1>2, <1>5, HostKeeps DEF Names0
  <2>2. /\ dentry' \in [Paths -> 0 .. Len(table')]
        /\ \A q \in Paths : dentry'[q] # 0 => table'[dentry'[q]] = q
    BY <1>1, <1>5, DentryEntered
  <2>3. opened \subseteq [ino : 1 .. Len(table'), object : 1 .. objects']
    <3>1. opened \subseteq [ino : 1 .. Len(table), object : 1 .. objects]
      BY DEF Names0, Types
    <3>2. 1 .. Len(table) \subseteq 1 .. Len(table') /\ 1 .. objects \subseteq 1 .. objects'
      BY <1>2, <2>1 DEF TableGrows, Names0, Types
    <3> QED BY <3>1, <3>2
  <2>4. ASSUME NEW o \in new
        PROVE  o \in [ino : 1 .. Len(table'), object : 1 .. objects'] /\ OpenIsReached(o)'
    <3>1. o = OpenFile(i, host'[p].object) /\ host'[p].kind = "file"
      BY <1>5, <2>4 DEF IsFile
    <3>2. host'[p].object \in 1 .. objects'
      <4>1. host'[p].object # 0
        BY <2>1, <3>1 DEF ObjectsAreUnique, IsFile
      <4>2. host'[p].object \in 0 .. objects'
        BY <2>1 DEF Nodes
      <4> QED BY <2>1, <4>1, <4>2
    <3>3. host'[p] = [kind |-> "file", object |-> host'[p].object]
      BY <2>1, <3>1 DEF Nodes
    <3>4. o.ino = i /\ o.object = host'[p].object
      BY <3>1 DEF OpenFile
    <3>5. OpenIsReached(o)'
      BY <1>3, <3>3, <3>4 DEF OpenIsReached
    <3> QED BY <1>3, <3>1, <3>2, <3>5 DEF OpenFile
  <2>5. opened' \subseteq [ino : 1 .. Len(table'), object : 1 .. objects']
    BY <1>5, <2>3, <2>4
  <2>6. Types'
    BY <1>2, <2>1, <2>2, <2>5 DEF Types, TableGrows
  <2>7. OpenAreReached'
    BY <1>5, <2>1, <2>4 DEF OpenAreReached
  <2> QED BY <2>1, <2>2, <2>6, <2>7 DEF Names0, NameIsPath
<1>6. CASE /\ CanCreate(p) /\ MakeNode(p, kind)
           /\ dentry' = [dentry EXCEPT ![p] = Ino(table', p)]
           /\ opened' = IF kind = "file"
                        THEN opened \cup {OpenFile(Ino(table', p), objects')} ELSE opened
  <2>1. HostStep
    BY <1>1, <1>6 DEF HostStep, CanCreate
  <2>2. host'[p] = [kind |-> kind, object |-> objects']
    BY <1>6 DEF MakeNode, Names0, Types
  <2> PICK new : new = IF kind = "file" THEN {OpenFile(i, objects')} ELSE {}
    OBVIOUS
  <2>3. new = {} \/ (new = {OpenFile(i, host'[p].object)} /\ IsFile(p)')
    <3>1. host'[p].object = objects' /\ host'[p].kind = kind
      BY <2>2
    <3>2. IsFile(p)' <=> kind = "file"
      BY <3>1 DEF IsFile
    <3>3. CASE kind = "file"
      BY <3>1, <3>2, <3>3
    <3>4. CASE kind # "file"
      BY <3>4
    <3> QED BY <3>3, <3>4
  <2>4. opened' = opened \cup new
    BY <1>6
  <2> QED BY <1>5, <1>6, <2>1, <2>3, <2>4
<1>7. CASE /\ kind = "file" /\ IsFile(p)
           /\ dentry' = [dentry EXCEPT ![p] = Ino(table', p)]
           /\ opened' = opened \cup {OpenFile(Ino(table', p), host[p].object)}
           /\ UNCHANGED <<host, objects>>
  <2>1. HostStep /\ IsFile(p)' /\ host' = host
    BY <1>1, <1>7, SameHost DEF Names0, IsFile
  <2> QED BY <1>5, <1>7, <2>1
<1> QED BY <1>1, <1>4, <1>6, <1>7 DEF Make

LEMMA RemoveStep ==
  ASSUME Names0, NEW p \in Paths, Remove(p) PROVE Names0'
<1>1. ChildPath(p) = p /\ UNCHANGED <<table, opened, moved>> /\ RemoveNode(p) /\ Forget(p)
  BY ChildPathIsPath DEF Names0, Remove
<1>2. TableGrows /\ HostStep
  BY <1>1, SameTable, RemovedNode DEF Names0
<1>3. Below(p) \in SUBSET Paths
  BY DEF Below
<1>4. /\ dentry' \in [Paths -> 0 .. Len(table')]
      /\ \A q \in Paths : dentry'[q] # 0 => table'[dentry'[q]] = q
  BY <1>1, <1>2, <1>3, DentryKept DEF Forget
<1> QED BY <1>1, <1>2, <1>4, StepKeeps

LEMMA OpenStep ==
  ASSUME Names0, NEW p \in Paths, Open(p) PROVE Names0'
<1> PICK i : i = dentry[p]
  OBVIOUS
<1> PICK o : o = OpenFile(i, host[table[i]].object)
  OBVIOUS
<1>1. /\ opened' = opened \cup {o} /\ IsFile(table[i]) /\ i # 0
      /\ UNCHANGED <<host, objects, table, dentry, moved>>
  BY DEF Open
<1>2. i \in 1 .. Len(table) /\ table[i] = p /\ objects \in Nat
  BY <1>1, LenProperties DEF Names0, Types, NameIsPath
<1>3. host[p] \in Nodes /\ host[p].object \in 1 .. objects
  <2>1. host[p].object # 0
    BY <1>1, <1>2 DEF Names0, ObjectsAreUnique
  <2>2. host[p] \in Nodes
    BY DEF Names0, Types
  <2>3. host[p].object \in 0 .. objects
    BY <2>2 DEF Nodes
  <2> QED BY <1>2, <2>1, <2>2, <2>3
<1>4. o \in [ino : 1 .. Len(table), object : 1 .. objects] /\ OpenIsReached(o)
  BY <1>1, <1>2, <1>3, OpenedIsReached DEF OpenFile
<1>5. Types' /\ ObjectsAreUnique' /\ NameIsPath'
  BY <1>1, <1>4 DEF Names0, Types, Nodes, ObjectsAreUnique, NameIsPath, IsFile
<1>6. OpenAreReached'
  BY <1>1, <1>4 DEF Names0, OpenAreReached, OpenIsReached
<1> QED BY <1>5, <1>6 DEF Names0

LEMMA HostEditsStep ==
  ASSUME Names0, HostEdits PROVE Names0'
<1>1. UNCHANGED <<table, dentry, opened>> /\ HostStep
  <2>1. ASSUME NEW p \in Paths, NEW kind \in {"file", "dir"},
               CanCreate(p), MakeNode(p, kind), UNCHANGED moved
        PROVE  HostStep
    BY <2>1 DEF HostStep, CanCreate
  <2> QED BY <2>1, RemovedNode, RenamedByHost, LinkedByHost DEF HostEdits, Names0
<1>2. TableGrows
  BY <1>1, SameTable DEF Names0
<1>3. /\ dentry' \in [Paths -> 0 .. Len(table')]
      /\ \A q \in Paths : dentry'[q] # 0 => table'[dentry'[q]] = q
  BY <1>1, <1>2, DentrySame
<1> QED BY <1>1, <1>2, <1>3, StepKeeps

\* A step that closes a file, or nothing.
LEMMA ReleaseStep ==
  ASSUME Names0, UNCHANGED <<host, objects, moved, table, dentry>>, opened' \subseteq opened
  PROVE  Names0'
<1>1. HostStep
  BY SameHost DEF Names0
<1>2. TableGrows
  BY SameTable DEF Names0
<1> QED BY <1>1, <1>2, DentrySame, StepKeeps

-----------------------------------------------------------------------------
(* The theorems *)

LEMMA InitIInv == Init => IInv
<1> SUFFICES ASSUME Init PROVE Names0 /\ renames \in Nat
  BY DEF IInv
<1> USE DEF Init
<1>1. Root \in Paths /\ RootIno \in Nat /\ RootIno # 0
  BY DEF Paths, RootIno
<1>2. Types
  <2>1. table \in Seq(Paths) /\ Len(table) = 1
    BY <1>1
  <2>2. \A p \in Paths : host[p] \in Nodes /\ dentry[p] \in 0 .. Len(table)
    BY <2>1 DEF Nodes, Absent, RootIno
  <2> QED BY <2>1, <2>2 DEF Types
<1>3. ObjectsAreUnique
  BY DEF ObjectsAreUnique, Absent, IsFile
<1>4. NameIsPath
  BY DEF NameIsPath, RootIno
<1>5. OpenAreReached
  BY DEF OpenAreReached
<1> QED BY <1>2, <1>3, <1>4, <1>5 DEF Names0

LEMMA NextIInv == IInv /\ [Next]_vars => IInv'
<1> SUFFICES ASSUME IInv, [Next]_vars PROVE IInv'
  OBVIOUS
<1>1. ASSUME NEW p \in Paths, NEW q \in Paths, Rename(p, q) PROVE IInv'
  BY <1>1 DEF IInv, Rename
<1>2. ASSUME Names0 => Names0', UNCHANGED renames PROVE IInv'
  BY <1>2 DEF IInv
<1>3. ASSUME NEW p \in Paths, Lookup(p) \/ ReadDir(p) \/ Remove(p) \/ Open(p) PROVE IInv'
  <2>1. UNCHANGED renames
    BY <1>3 DEF Lookup, ReadDir, Remove, Open
  <2> QED BY <1>2, <1>3, <2>1, LookupStep, ReadDirStep, RemoveStep, OpenStep
<1>4. ASSUME NEW p \in Paths, NEW kind \in {"file", "dir"}, Make(p, kind) PROVE IInv'
  <2>1. UNCHANGED renames
    BY <1>4 DEF Make
  <2> QED BY <1>2, <1>4, <2>1, MakeStep
<1>5. ASSUME NEW o \in opened, Release(o) PROVE IInv'
  <2>1. UNCHANGED <<host, objects, moved, table, dentry, renames>> /\ opened' \subseteq opened
    BY <1>5 DEF Release
  <2> QED BY <1>2, <2>1, ReleaseStep
<1>6. CASE HostEdits
  <2>1. UNCHANGED renames
    BY <1>6 DEF HostEdits
  <2> QED BY <1>2, <1>6, <2>1, HostEditsStep
<1>7. CASE UNCHANGED vars
  <2>1. UNCHANGED <<host, objects, moved, table, dentry, renames>> /\ opened' \subseteq opened
    BY <1>7 DEF vars
  <2> QED BY <1>2, <2>1, ReleaseStep
<1> QED BY <1>1, <1>3, <1>4, <1>5, <1>6, <1>7 DEF Next, KernelRequest

\* Until the guest renames something, the inode table, the kernel's names, the
\* host's files and the open ones fit together.
THEOREM Invariance == Spec => []IInv
BY InitIInv, NextIInv, PTL DEF Spec

\* No order of lookups, listings, creations that fail or succeed, removals and
\* edits on the host makes a name of the kernel lead to another path.
THEOREM NamesArePaths == Spec => []NameIsPathUntilRename
<1>1. IInv => NameIsPathUntilRename
  BY DEF IInv, Names0, NameIsPathUntilRename
<1> QED BY <1>1, Invariance, PTL

\* A read or write by number reaches the file that was opened or, once that
\* is gone, a newer one at its path, never an older one that no program of the
\* host has moved there.
THEOREM OpenFilesAreReached == Spec => []OpenFileIsReached
<1>1. IInv => OpenFileIsReached
  BY DEF IInv, Names0, OpenAreReached, OpenIsReached, OpenFileIsReached
<1> QED BY <1>1, Invariance, PTL

-----------------------------------------------------------------------------
(* The life cycle of mounts *)

MountTypes ==
    /\ fuse \in [Mounts -> {"none", "starting", "listening", "init sent", "accepted",
                            "mounted", "failed", "unmounted"}]
    /\ reply \in [Mounts -> {"none", "mounted", "error"}]
    /\ server \in [pc : {"serve"}, mount : Mounts] \cup {NoOne}

\* bind keeps two processes from listening at once.
OneListener == \A m, k \in Mounts : fuse[m] = "listening" /\ fuse[k] = "listening" => m = k

\* A process the host has connected to is the one the server serves.
ConnectedIsServed ==
    \A m \in Mounts :
      fuse[m] \in {"init sent", "accepted", "mounted"} => server = Serving("serve", m)

\* What has got past Init is allowed, and while it lasts its session is rooted.
AcceptedIsRooted ==
    \A m \in Mounts :
      /\ fuse[m] \in {"accepted", "mounted", "unmounted"} => m \in Allowed
      /\ fuse[m] \in {"accepted", "mounted"} => rooted

\* The inductive invariant: a mount is allowed because Init let it pass, and
\* its root lasts because only one connection is served at a time.
MountsIInv == MountTypes /\ OneListener /\ ConnectedIsServed /\ AcceptedIsRooted /\ ErrorIsFinal

-----------------------------------------------------------------------------
LEMMA ServingIsInjective ==
    \A m, k : Serving("serve", m) = Serving("serve", k) => m = k
BY DEF Serving

LEMMA ServingIsNotSleeping == \A m : Serving("serve", m) # NoOne
BY DEF Serving, NoOne

LEMMA MountsInitIInv == MountsInit => MountsIInv
BY DEF MountsInit, MountsIInv, MountTypes, OneListener, ConnectedIsServed, AcceptedIsRooted, ErrorIsFinal

LEMMA MountsNextIInv == MountsIInv /\ [MountsNext]_mountVars => MountsIInv'
<1> SUFFICES ASSUME MountsIInv, [MountsNext]_mountVars PROVE MountsIInv'
    OBVIOUS
<1> USE DEF MountsIInv, MountTypes, OneListener, ConnectedIsServed, AcceptedIsRooted, ErrorIsFinal
<1>1. ASSUME NEW m \in Mounts, FsMount(m) PROVE MountsIInv'
    BY <1>1 DEF FsMount, Become
<1>2. ASSUME NEW m \in Mounts, Reply(m) PROVE MountsIInv'
    BY <1>2 DEF Reply
<1>3. ASSUME NEW m \in Mounts, FsUnmount(m) PROVE MountsIInv'
    BY <1>3 DEF FsUnmount, Become
<1>4. ASSUME NEW m \in Mounts, Listen(m) PROVE MountsIInv'
    BY <1>4 DEF Listen, Become, Listeners
<1>5. ASSUME NEW m \in Mounts, Mount(m) PROVE MountsIInv'
    BY <1>5 DEF Mount, Become
<1>6. ASSUME NEW m \in Mounts, Connect(m) PROVE MountsIInv'
  <2>1. \A k \in Mounts : fuse[k] \notin {"init sent", "accepted", "mounted"}
      BY <1>6, ServingIsNotSleeping DEF Connect
  <2>2. server' \in [pc : {"serve"}, mount : Mounts]
      BY <1>6 DEF Connect, Serving
  <2>3. QED
      BY <1>6, <2>1, <2>2 DEF Connect, Become
<1>7. ASSUME NEW m \in Mounts, HandleInit(m) PROVE MountsIInv'
  <2>1. \A k \in Mounts \ {m} : fuse[k] \notin {"init sent", "accepted", "mounted"}
      BY <1>7, ServingIsInjective DEF HandleInit
  <2>2. m \in Allowed => rooted'
      BY <1>7, Zenon DEF HandleInit
  <2>3. fuse' = [fuse EXCEPT ![m] = IF m \in Allowed THEN "accepted" ELSE "failed"]
      BY <1>7 DEF HandleInit, Become
  <2>4. MountTypes' /\ OneListener' /\ ConnectedIsServed' /\ ErrorIsFinal'
      BY <1>7, <2>1, <2>2, <2>3 DEF HandleInit
  <2>5. AcceptedIsRooted'
    <3>1. CASE m \in Allowed
        BY <2>1, <2>2, <2>3, <3>1
    <3>2. CASE m \notin Allowed
        BY <2>1, <2>2, <2>3, <3>2
    <3>3. QED
        BY <3>1, <3>2
  <2>6. QED
      BY <2>4, <2>5
<1>8. ASSUME NEW m \in Mounts, ServeEnds(m) PROVE MountsIInv'
  <2>1. \A k \in Mounts : fuse[k] \notin {"init sent", "accepted", "mounted"}
      BY <1>8, ServingIsInjective DEF ServeEnds, Ended
  <2>2. QED
      BY <1>8, <2>1 DEF ServeEnds
<1>9. CASE UNCHANGED mountVars
    BY <1>9 DEF mountVars
<1>10. QED
    BY <1>1, <1>2, <1>3, <1>4, <1>5, <1>6, <1>7, <1>8, <1>9
    DEF MountsNext, FuseStep, ServerStep

-----------------------------------------------------------------------------
\* The invariant holds of every reachable state.
THEOREM MountsInvariance == MountsSpec => []MountsIInv
<1>1. QED
    BY MountsInitIInv, MountsNextIInv, PTL DEF MountsSpec

LEMMA AtMostOneListens == OneListener => Cardinality(Listeners) <= 1
<1> SUFFICES ASSUME OneListener PROVE Cardinality(Listeners) <= 1
    OBVIOUS
<1>1. CASE Listeners = {}
    BY <1>1, FS_EmptySet
<1>2. CASE Listeners # {}
  <2>1. PICK m \in Mounts : Listeners = {m}
      BY <1>2 DEF Listeners, OneListener
  <2>2. Cardinality({m}) = 1
      BY FS_Singleton
  <2>3. QED
      BY <2>1, <2>2
<1>3. QED
    BY <1>1, <1>2

\* The types of all variables; in particular at most one process listens, and
\* what is mounted is what the server serves, with its root set by Init.
THEOREM TypeCorrect == MountsSpec => []TypeOK
<1>1. MountsIInv => TypeOK
    BY AtMostOneListens DEF MountsIInv, MountTypes, ConnectedIsServed, AcceptedIsRooted, TypeOK
<1>2. QED
    BY <1>1, MountsInvariance, PTL

\* No host directory that the allowlist refuses is ever mounted.
THEOREM NothingElseMounted == MountsSpec => []OnlyAllowedMounted
<1>1. MountsIInv => OnlyAllowedMounted
    BY DEF MountsIInv, AcceptedIsRooted, OnlyAllowedMounted
<1>2. QED
    BY <1>1, MountsInvariance, PTL

\* A mount that fs_mount reported as failed is never mounted later.
THEOREM ErrorsAreFinal == MountsSpec => []ErrorIsFinal
<1>1. MountsIInv => ErrorIsFinal
    BY DEF MountsIInv
<1>2. QED
    BY <1>1, MountsInvariance, PTL
-----------------------------------------------------------------------------
(* What WaitingMountSettled rests on *)

\* The process the server serves has got past listening.
ServedIsConnected ==
    \A m \in Mounts :
      server = Serving("serve", m) => fuse[m] \notin {"none", "starting", "listening"}

\* Steps of the server and of the process it serves until the server is free
\* again, not counting an unmount, which need not come.
UntilFree ==
    IF \E m \in Mounts : server = Serving("serve", m) /\ fuse[m] = "init sent" THEN 3
    ELSE IF \E m \in Mounts : server = Serving("serve", m) /\ fuse[m] = "accepted" THEN 2
    ELSE IF server # NoOne THEN 1
    ELSE 0

\* A process that waits for the host never waits for nothing: the server is
\* free to connect to it, or serves another that is mounted, that it or the
\* process itself can take further, or that has ended (fs_server's loop, the
\* listener of vfs.rs).
HostIsComing ==
    \A m \in Mounts :
      fuse[m] = "listening" =>
        \/ server = NoOne
        \/ \E k \in Mounts : /\ server = Serving("serve", k)
                             /\ fuse[k] \in {"init sent", "accepted", "mounted"} \/ Ended(k)

\* While it waits, nothing takes its turn further away: each step of the server, and
\* the mount or failure of the process being served, brings it nearer, and no
\* other process gets in between.
HostComesNearer ==
    [][\A m \in Mounts :
         fuse[m] = "listening" /\ fuse'[m] = "listening" =>
           /\ UntilFree' <= UntilFree
           /\ ServerStep => UntilFree' < UntilFree
           /\ \A k \in Mounts : Mount(k) => UntilFree' < UntilFree]_mountVars

LEMMA MountsNextServed ==
    MountsIInv /\ ServedIsConnected /\ [MountsNext]_mountVars => ServedIsConnected'
<1> SUFFICES ASSUME MountsIInv, ServedIsConnected, [MountsNext]_mountVars
             PROVE  ServedIsConnected'
    OBVIOUS
<1> USE DEF ServedIsConnected
<1>1. fuse \in [Mounts -> {"none", "starting", "listening", "init sent", "accepted",
                           "mounted", "failed", "unmounted"}]
    BY DEF MountsIInv, MountTypes
<1>2. ASSUME NEW m \in Mounts, FsMount(m) PROVE ServedIsConnected'
    BY <1>1, <1>2 DEF FsMount, Become
<1>3. ASSUME NEW m \in Mounts, Reply(m) PROVE ServedIsConnected'
    BY <1>3 DEF Reply
<1>4. ASSUME NEW m \in Mounts, FsUnmount(m) \/ Listen(m) \/ Mount(m) PROVE ServedIsConnected'
    BY <1>1, <1>4 DEF FsUnmount, Listen, Mount, Become
<1>5. ASSUME NEW m \in Mounts, Connect(m) PROVE ServedIsConnected'
    BY <1>1, <1>5, ServingIsInjective DEF Connect, Become
<1>6. ASSUME NEW m \in Mounts, HandleInit(m) PROVE ServedIsConnected'
    BY <1>1, <1>6 DEF HandleInit, Become
<1>7. ASSUME NEW m \in Mounts, ServeEnds(m) PROVE ServedIsConnected'
    BY <1>7, ServingIsNotSleeping DEF ServeEnds
<1>8. CASE UNCHANGED mountVars
    BY <1>8 DEF mountVars
<1>9. QED
    BY <1>2, <1>3, <1>4, <1>5, <1>6, <1>7, <1>8 DEF MountsNext, FuseStep, ServerStep

LEMMA ServedInvariance == MountsSpec => []ServedIsConnected
<1>1. MountsInit => ServedIsConnected
    BY ServingIsNotSleeping DEF MountsInit, ServedIsConnected
<1>2. QED
    BY <1>1, MountsNextServed, MountsInvariance, PTL DEF MountsSpec

\* The host comes to every process that waits for it, whatever the others do,
\* as long as the one it serves is not mounted.
THEOREM NobodyListensInVain == MountsSpec => []HostIsComing
<1>1. ASSUME MountsIInv, ServedIsConnected, NEW m \in Mounts, fuse[m] = "listening",
             server # NoOne
      PROVE  \E k \in Mounts : /\ server = Serving("serve", k)
                               /\ fuse[k] \in {"init sent", "accepted", "mounted"} \/ Ended(k)
  <2>1. PICK k \in Mounts : server = Serving("serve", k)
      BY <1>1 DEF MountsIInv, MountTypes, Serving
  <2>2. fuse[k] \in {"init sent", "accepted", "mounted", "failed", "unmounted"}
      BY <1>1, <2>1 DEF MountsIInv, MountTypes, ServedIsConnected
  <2>3. QED
      BY <2>1, <2>2 DEF Ended
<1>2. MountsIInv /\ ServedIsConnected => HostIsComing
    BY <1>1 DEF HostIsComing
<1>3. QED
    BY <1>2, MountsInvariance, ServedInvariance, PTL

\* What is left until the server is free, for the process that it serves.
LEMMA UntilFreeIs ==
    /\ server = NoOne => UntilFree = 0
    /\ \A k \in Mounts :
         server = Serving("serve", k) =>
           UntilFree = IF fuse[k] = "init sent" THEN 3
                       ELSE IF fuse[k] = "accepted" THEN 2 ELSE 1
BY ServingIsInjective, ServingIsNotSleeping DEF UntilFree

LEMMA UntilFreeNext ==
    /\ server' = NoOne => UntilFree' = 0
    /\ \A k \in Mounts :
         server' = Serving("serve", k) =>
           UntilFree' = IF fuse'[k] = "init sent" THEN 3
                        ELSE IF fuse'[k] = "accepted" THEN 2 ELSE 1
BY ServingIsInjective, ServingIsNotSleeping DEF UntilFree

\* Each step of the server and of the process it serves brings it nearer to
\* those that wait, and none takes it further away.
THEOREM TheHostComesNearer == MountsSpec => HostComesNearer
<1>1. ASSUME MountsIInv, ServedIsConnected, [MountsNext]_mountVars,
             NEW m \in Mounts, fuse[m] = "listening", fuse'[m] = "listening"
      PROVE  /\ UntilFree' <= UntilFree
             /\ ServerStep => UntilFree' < UntilFree
             /\ \A k \in Mounts : Mount(k) => UntilFree' < UntilFree
  <2>1. fuse \in [Mounts -> {"none", "starting", "listening", "init sent", "accepted",
                             "mounted", "failed", "unmounted"}]
      BY <1>1 DEF MountsIInv, MountTypes
  <2>2. server = NoOne \/ \E k \in Mounts : server = Serving("serve", k)
      BY <1>1 DEF MountsIInv, MountTypes, Serving
  <2>3. \A k \in Mounts : ~ Connect(k)
      BY <1>1, <2>1 DEF Connect, Become, MountsIInv, OneListener
  <2>4. ASSUME NEW k \in Mounts, HandleInit(k) PROVE UntilFree = 3 /\ UntilFree' \in {1, 2}
    <3>1. /\ server = Serving("serve", k) /\ server' = server /\ fuse[k] = "init sent"
          /\ fuse'[k] \in {"accepted", "failed"}
        BY <2>1, <2>4 DEF HandleInit, Become
    <3>2. UntilFree = 3
        BY <3>1, UntilFreeIs
    <3>3. UntilFree' = IF fuse'[k] = "accepted" THEN 2 ELSE 1
        BY <3>1, UntilFreeNext
    <3>4. QED
        BY <3>2, <3>3
  <2>5. ASSUME NEW k \in Mounts, ServeEnds(k) PROVE UntilFree = 1 /\ UntilFree' = 0
    <3>1. server = Serving("serve", k) /\ server' = NoOne /\ fuse[k] \in {"failed", "unmounted"}
        BY <2>5 DEF ServeEnds, Ended
    <3>2. QED
        BY <3>1, UntilFreeIs, UntilFreeNext
  <2>6. ASSUME NEW k \in Mounts, Mount(k) PROVE UntilFree = 2 /\ UntilFree' = 1
    <3>1. /\ fuse[k] = "accepted" /\ server' = server /\ fuse'[k] \in {"mounted", "failed"}
        BY <2>1, <2>6 DEF Mount, Become
    <3>2. server = Serving("serve", k)
        BY <1>1, <3>1 DEF MountsIInv, ConnectedIsServed
    <3>3. QED
        BY <3>1, <3>2, UntilFreeIs, UntilFreeNext
  <2>7. ASSUME server' = server,
               \A k \in Mounts : server = Serving("serve", k) =>
                 (fuse'[k] = fuse[k] \/ (fuse[k] = "mounted" /\ fuse'[k] = "unmounted"))
        PROVE  UntilFree' = UntilFree /\ UntilFree \in Nat
    <3>1. CASE server = NoOne
        BY <2>7, <3>1, UntilFreeIs, UntilFreeNext
    <3>2. ASSUME NEW k \in Mounts, server = Serving("serve", k)
          PROVE  UntilFree' = UntilFree /\ UntilFree \in Nat
      <4>1. UntilFree = IF fuse[k] = "init sent" THEN 3
                        ELSE IF fuse[k] = "accepted" THEN 2 ELSE 1
          BY <3>2, UntilFreeIs
      <4>2. UntilFree' = IF fuse'[k] = "init sent" THEN 3
                         ELSE IF fuse'[k] = "accepted" THEN 2 ELSE 1
          BY <2>7, <3>2, UntilFreeNext
      <4>3. fuse'[k] = fuse[k] \/ (fuse[k] = "mounted" /\ fuse'[k] = "unmounted")
          BY <2>7, <3>2
      <4>4. QED
          BY <4>1, <4>2, <4>3
    <3>3. QED
        BY <2>2, <3>1, <3>2
  <2>8. CASE ServerStep \/ \E k \in Mounts : Mount(k)
    <3>1. UntilFree' < UntilFree /\ UntilFree' \in Nat /\ UntilFree \in Nat
        BY <2>3, <2>4, <2>5, <2>6, <2>8 DEF ServerStep
    <3>2. QED
        BY <3>1
  <2>9. CASE ~ (ServerStep \/ \E k \in Mounts : Mount(k))
    <3>1. \/ \E k \in Mounts : FsMount(k) \/ Reply(k) \/ FsUnmount(k) \/ Listen(k)
          \/ UNCHANGED mountVars
        BY <1>1, <2>9 DEF MountsNext, FuseStep
    <3>2. ASSUME NEW k \in Mounts, FsMount(k) \/ Reply(k) \/ FsUnmount(k) \/ Listen(k)
          PROVE  UntilFree' = UntilFree /\ UntilFree \in Nat
      <4>1. server' = server
          BY <3>2 DEF FsMount, Reply, FsUnmount, Listen
      <4>2. ASSUME NEW l \in Mounts, server = Serving("serve", l)
            PROVE  fuse'[l] = fuse[l] \/ (fuse[l] = "mounted" /\ fuse'[l] = "unmounted")
        <5>1. fuse[l] \notin {"none", "starting"}
            BY <1>1, <4>2 DEF ServedIsConnected
        <5>2. QED
            BY <2>1, <3>2, <5>1 DEF FsMount, Reply, FsUnmount, Listen, Become
      <4>3. QED
          BY <2>7, <4>1, <4>2
    <3>3. ASSUME UNCHANGED mountVars PROVE UntilFree' = UntilFree /\ UntilFree \in Nat
      <4>1. server' = server /\ \A k \in Mounts : fuse'[k] = fuse[k]
          BY <3>3 DEF mountVars
      <4>2. UntilFree' = UntilFree /\ UntilFree \in Nat
          BY <2>7, <4>1
      <4>3. QED
          BY <4>2
    <3>4. UntilFree' = UntilFree /\ UntilFree \in Nat
      <4>1. CASE UNCHANGED mountVars
          BY <3>3, <4>1
      <4>2. CASE \E k \in Mounts : FsMount(k) \/ Reply(k) \/ FsUnmount(k) \/ Listen(k)
          BY <3>2, <4>2
      <4>3. QED
          BY <3>1, <4>1, <4>2
    <3>5. QED
        BY <2>9, <3>4
  <2>10. QED
      BY <2>8, <2>9
<1>2. MountsIInv /\ ServedIsConnected /\ [MountsNext]_mountVars =>
        [\A m \in Mounts :
           fuse[m] = "listening" /\ fuse'[m] = "listening" =>
             /\ UntilFree' <= UntilFree
             /\ ServerStep => UntilFree' < UntilFree
             /\ \A k \in Mounts : Mount(k) => UntilFree' < UntilFree]_mountVars
    BY <1>1
<1>3. QED
    BY <1>2, MountsInvariance, ServedInvariance, PTL DEF MountsSpec, HostComesNearer
=============================================================================
