-------------------------------- MODULE VFS ---------------------------------
(***************************************************************************)
(* The tree of files: the inodes of TempFS file systems (TempFSInode.cpp,  *)
(* TempFileSystem.cpp), the mount points that join them and the resolution *)
(* of paths across them (VFS.cpp), the archive that fills the root at boot *)
(* (initramfs.cpp), and the calls that mount, unmount, create and change   *)
(* the working directory.                                                  *)
(*                                                                         *)
(* Inodes and file systems are numbered in the order of creation; 0 is a   *)
(* null pointer.  File system 1 is the root's, and stands for its mount    *)
(* point as every other one does.  A path is absolute or not, a sequence of*)
(* names, and may end in a separator.                                      *)
(***************************************************************************)
EXTENDS Privilege, Integers, Sequences, FiniteSets, SequencesExt

CONSTANTS
    Threads, Cred,  \* Cred[t]: the effective [uid, gid] of its process
    Archives,       \* what the initial file system may be: sequences of items
    Paths,          \* arguments of the calls: [abs, names, slash]
    MaxInodes, MaxMounts    \* bounds

VARIABLES
    inodes,     \* sequence of [name, type, parent, children, fs] and privileges
    roots,      \* sequence: of each file system, the inodes of its root
    mounts,     \* m_mountPoints: [fs, root, parent], in the order of mounting
    archive,    \* items of the archive still to be unpacked
    cwd,        \* thread -> [mount, inode]
    opened,     \* thread -> directory streams it holds: [fs, inode]
    hung        \* threads that never return from a call; all, after a panic

vars == <<inodes, roots, mounts, archive, cwd, opened, hung>>

NoWD == [mount |-> 1, inode |-> 0]

Init ==
    /\ inodes = <<>> /\ roots = << <<>> >>
    /\ mounts = <<[fs |-> 1, root |-> 0, parent |-> 0]>>
    /\ archive \in Archives
    /\ cwd = [t \in Threads |-> NoWD]
    /\ opened = [t \in Threads |-> {}]
    /\ hung = {}

-----------------------------------------------------------------------------
\* The first inode of a list with this name, or 0.
FirstNamed(list, name) ==
    LET i == SelectInSeq(list, LAMBDA n : inodes[n].name = name)
    IN  IF i = 0 THEN 0 ELSE list[i]

\* GetTarget, as often as a call through a chain of links makes it.
RECURSIVE GetTarget(_)
GetTarget(i) == IF inodes[i].type = "link" THEN GetTarget(inodes[i].children[1]) ELSE i

GetType(i) == inodes[GetTarget(i)].type

GetParent(i) == inodes[GetTarget(i)].parent

GetChildCount(i) == Len(inodes[GetTarget(i)].children)

GetTMPFSChild(i, name) ==
    IF GetType(i) # "folder" THEN 0 ELSE FirstNamed(inodes[GetTarget(i)].children, name)

Found(inode, last, end, status) == [inode |-> inode, last |-> last, end |-> end, status |-> status]

\* The walk from last on over the names from the k-th on; last = 0 is the
\* root of the file system.  "." and ".." mean something in front of a
\* separator only.  A name that the root does not have is passed over.
RECURSIVE GetSubInode(_, _, _, _)
GetSubInode(fs, last, path, k) ==
    LET name == path.names[k]
        inner == k < Len(path.names) \/ path.slash
        child == GetTMPFSChild(last, name)
    IN  IF k > Len(path.names) THEN Found(last, last, k - 1, IF last = 0 THEN "ENOENT" ELSE "ok")
        ELSE IF inner /\ name = "." THEN GetSubInode(fs, last, path, k + 1)
        ELSE IF inner /\ name = ".." /\ last # 0 THEN GetSubInode(fs, GetParent(last), path, k + 1)
        ELSE IF inner /\ name = ".." THEN Found(0, 0, k, "ok")
        ELSE IF last = 0 THEN GetSubInode(fs, FirstNamed(roots[fs], name), path, k + 1)
        ELSE IF child = 0 THEN Found(0, last, k - 1, "ENOENT")
        ELSE GetSubInode(fs, child, path, k + 1)

-----------------------------------------------------------------------------
Place(mount, inode, status) == [mount |-> mount, inode |-> inode, status |-> status]

Nowhere == Place(0, 0, "EINVAL")

\* The first mount point on this inode, or 0.
MountedOn(inode) ==
    LET i == SelectInSeq(mounts, LAMBDA m : m.root = inode)
    IN  IF i = 0 THEN 0 ELSE mounts[i].fs

\* Where a search that found no inode has stopped: on the last inode it saw,
\* or, when it went up above the root, on the one that the search began with.
Up(r) == r.inode = 0 /\ r.last = 0

StoppedAt(r, last) == IF Up(r) THEN last ELSE r.last

\* The mount point in which the search goes on from there, or 0.
Crossing(r, mount, last) ==
    IF (Up(r) /\ r.status # "ok") \/ MountedOn(StoppedAt(r, last)) = mount THEN 0
    ELSE MountedOn(StoppedAt(r, last))

\* Fault: the name that the file system does not have is not looked up again.
DescendNext(mount, last, path, split) ==
    LET r == GetSubInode(mount, 0, [path EXCEPT !.names = SubSeq(@, split + 1, Len(@))], 1)
    IN  IF r.inode # 0 THEN Place(mount, r.inode, "ok")
        ELSE IF MountedOn(r.last) \in {0, mount} THEN Nowhere
        ELSE Place(MountedOn(r.last), 0, "ok")

\* The loop over mount points: mount is searched for the names after the
\* first split.  Where the search stops counts from there, but is used as
\* if it counted from the beginning of the path.
RECURSIVE Descend(_, _, _, _)
Descend(mount, last, path, split) ==
    LET rest == [path EXCEPT !.names = SubSeq(@, split + 1, Len(@))]
        after(r) == IF r.inode # 0 THEN Place(mount, r.inode, "ok")
                    ELSE IF Crossing(r, mount, last) = 0 THEN Nowhere
                    ELSE Descend(Crossing(r, mount, last), StoppedAt(r, last), path, r.end)
    IN  after(GetSubInode(mount, 0, rest, 1))

\* A relative path, after the walk from the working directory.
FromWD(r, path, wd) ==
    IF r.inode \notin {0, wd.inode} THEN Place(wd.mount, r.inode, "ok")
    ELSE IF Crossing(r, wd.mount, wd.inode) = 0 THEN Nowhere
    ELSE Descend(Crossing(r, wd.mount, wd.inode), StoppedAt(r, wd.inode), path, r.end)

\* GetMountPoint: where a path leads; ".." from right below a root panics.
GetMountPoint(path, wd) ==
    LET only(name) == path.names = <<name>> /\ ~path.slash
    IN  IF path.abs /\ path.names = <<>> THEN Place(1, 0, "ok")
        ELSE IF path.abs THEN Descend(1, 0, path, 0)
        ELSE IF only(".") THEN Place(wd.mount, wd.inode, "ok")
        ELSE IF only("..") THEN
            IF wd.inode = 0 THEN Nowhere
            ELSE IF GetParent(wd.inode) = 0 THEN Place(0, 0, "panic")
            ELSE Place(wd.mount, GetParent(wd.inode), "ok")
        ELSE FromWD(GetSubInode(wd.mount, wd.inode, path, 1), path, wd)

IsValidPath(path, wd) == GetMountPoint(path, wd).mount # 0

\* The same, and from an inode that is mounted on to the root of its mount.
\* The root, and of any mount point itself, has no inode: it is the first.
MountedRoot(r) ==
    IF r.mount = 0 \/ MountedOn(r.inode) = 0 THEN r ELSE Place(MountedOn(r.inode), 0, "ok")

GetChildMountPoint(path, wd) == MountedRoot(GetMountPoint(path, wd))

-----------------------------------------------------------------------------
Inode(name, type, parent, children, fs, priv) ==
    [name |-> name, type |-> type, parent |-> parent, children |-> children, fs |-> fs,
     owner |-> priv.owner, group |-> priv.group, acl |-> priv.acl]

AddChild(all, parent, i) == [all EXCEPT ![GetTarget(parent)].children = Append(@, i)]

\* TempFSInode::Create: into the parent's children or the file system's root.
Create(inode) ==
    LET n == Len(inodes) + 1
        all == Append(inodes, inode)
    IN  /\ n <= MaxInodes
        /\ inodes' = IF inode.parent = 0 THEN all ELSE AddChild(all, inode.parent, n)
        /\ roots' = IF inode.parent = 0 THEN [roots EXCEPT ![inode.fs] = Append(@, n)] ELSE roots

\* The privileges of a place, m_rootPrivilege at the root of a file system:
\* those of the inode that it was mounted on.
PrivilegeAt(place) ==
    LET on == SelectSeq(mounts, LAMBDA m : m.fs = place.mount)[1].root
    IN  IF place.inode # 0 THEN inodes[place.inode]
        ELSE IF on = 0 THEN RootDirectory ELSE inodes[on]

\* Where something can be created, and where CreateFile and CreateFolder may
\* do so for cred.
IsDirectory(place) == place.mount # 0 /\ (place.inode # 0 => GetType(place.inode) = "folder")

CanCreate(cred, place) == IsDirectory(place) /\ Granted(cred, PrivilegeAt(place), "w")

CreateFile(cred, parent, name, priv) ==
    \E at \in {GetChildMountPoint(parent, NoWD)} :
        CanCreate(cred, at) /\ Create(Inode(name, "file", at.inode, <<>>, at.mount, priv))

CreateFolder(cred, parent, name, priv) ==
    \E at \in {GetChildMountPoint(parent, NoWD)} :
        CanCreate(cred, at) /\ Create(Inode(name, "folder", at.inode, <<>>, at.mount, priv))

\* The target is an inode of the same file system.
CreateSymLink(cred, parent, name, target, priv) ==
    \E at \in {GetChildMountPoint(parent, NoWD)}, to \in {GetMountPoint(target, NoWD)} :
        /\ IsDirectory(at) /\ to.inode # 0 /\ to.mount = at.mount
        /\ MayLink(cred, PrivilegeAt(at))
        /\ Create(Inode(name, "link", at.inode, <<to.inode>>, at.mount, priv))

\* One item of the archive, created by user 0.  The parent of an item is
\* written without a separator in front, the root's as "/".
Initialise_InitRAMFS ==
    LET item == Head(archive)
        root == [uid |-> 0, gid |-> 0]
        parent == [abs |-> item.parent = <<>>, names |-> item.parent, slash |-> FALSE]
    IN  /\ archive # <<>>
        /\ CASE item.type = "file" -> CreateFile(root, parent, item.name, item.priv)
             [] item.type = "folder" -> CreateFolder(root, parent, item.name, item.priv)
             [] item.type = "link" ->
                CreateSymLink(root, parent, item.name,
                              [abs |-> FALSE, names |-> item.target, slash |-> FALSE], item.priv)
        /\ archive' = Tail(archive)
        /\ UNCHANGED <<mounts, cwd, opened, hung>>

-----------------------------------------------------------------------------
\* The first program starts when the archive is unpacked.  A thread whose
\* working directory was unmounted holds a freed pointer: it goes no further.
Calls(t) ==
    /\ archive = <<>> /\ t \notin hung
    /\ \E i \in DOMAIN mounts : mounts[i].fs = cwd[t].mount

\* The calls that resolve a path: a panic stops every thread.
Resolving(t, path, wd) ==
    /\ Calls(t)
    /\ GetMountPoint(path, wd).status = "panic"
    /\ hung' = Threads
    /\ UNCHANGED <<inodes, roots, mounts, archive, cwd, opened>>

\* The parent of a path as sys_open writes it: "/" when it has no separator.
ParentPath(path) ==
    IF Len(path.names) = 1 THEN [abs |-> TRUE, names |-> <<>>, slash |-> FALSE]
    ELSE [path EXCEPT !.names = Front(@), !.slash = TRUE]

\* sys_open with O_CREATE of a path that leads nowhere.  The parent is looked
\* up once from the working directory and once, to create, from the root.
sys_open_create(t, path) ==
    /\ Calls(t)
    /\ path.names # <<>> /\ ~path.slash
    /\ GetMountPoint(path, cwd[t]) = Nowhere
    /\ Len(path.names) > 1 => IsValidPath(ParentPath(path), cwd[t])
    /\ CreateFile(Cred[t], ParentPath(path), Last(path.names),
                  [owner |-> Cred[t].uid, group |-> Cred[t].gid, acl |-> {<<"u", "w">>}])
    /\ UNCHANGED <<mounts, archive, cwd, opened, hung>>

\* sys_open of a folder or a root: OpenDirectoryStream on what GetMountPoint
\* gives, which for a mount point is the folder it covers.
OpenDirectoryStream(t, path) ==
    \E to \in {GetChildMountPoint(path, cwd[t])}, at \in {GetMountPoint(path, cwd[t])} :
        /\ Calls(t) /\ to.mount # 0
        /\ to.inode # 0 => GetType(to.inode) = "folder"
        /\ Listable(Cred[t], PrivilegeAt(at))
        /\ opened' = [opened EXCEPT ![t] =
                        {[fs |-> at.mount, inode |-> IF MountedOn(at.inode) = at.mount THEN 0 ELSE at.inode]}]
        /\ UNCHANGED <<inodes, roots, mounts, archive, cwd, hung>>

\* No check that it is a folder.
sys_chdir(t, path) ==
    \E to \in {GetChildMountPoint(path, cwd[t])} :
        /\ Calls(t) /\ to.mount # 0
        /\ cwd' = [cwd EXCEPT ![t] = [mount |-> to.mount, inode |-> to.inode]]
        /\ UNCHANGED <<inodes, roots, mounts, archive, opened, hung>>

sys_fchdir(t, stream) ==
    /\ Calls(t)
    /\ \E i \in DOMAIN mounts : mounts[i].fs = stream.fs
    /\ cwd' = [cwd EXCEPT ![t] = [mount |-> stream.fs, inode |-> stream.inode]]
    /\ UNCHANGED <<inodes, roots, mounts, archive, opened, hung>>

\* Only on a folder that is empty.
sys_mount(t, path) ==
    \E at \in {GetMountPoint(path, NoWD)} :
        /\ Calls(t) /\ Cred[t].uid = 0 /\ Len(roots) < MaxMounts
        /\ at.inode # 0 /\ GetType(at.inode) = "folder" /\ GetChildCount(at.inode) = 0
        /\ mounts' = Append(mounts, [fs |-> Len(roots) + 1, root |-> at.inode, parent |-> at.mount])
        /\ roots' = Append(roots, <<>>)
        /\ UNCHANGED <<inodes, archive, cwd, opened, hung>>

\* The first mount point on the inode, if nothing is mounted below it.  The
\* root inodes are deleted with their list locked, and deleting one locks it.
sys_unmount(t, path) ==
    \E at \in {GetMountPoint(path, NoWD)} : \E fs \in {MountedOn(at.inode)} :
        /\ Calls(t) /\ Cred[t].uid = 0
        /\ at.inode # 0 /\ fs # 0
        /\ \A i \in DOMAIN mounts : mounts[i].parent # fs
        /\ mounts' = SelectSeq(mounts, LAMBDA m : m.fs # fs)
        /\ hung' = IF roots[fs] = <<>> THEN hung ELSE hung \cup {t}
        /\ UNCHANGED <<inodes, roots, archive, cwd, opened>>

Next ==
    \/ Initialise_InitRAMFS
    \/ \E t \in Threads :
        \/ \E path \in Paths :
            \/ sys_open_create(t, path) \/ OpenDirectoryStream(t, path) \/ sys_chdir(t, path)
            \/ sys_mount(t, path) \/ sys_unmount(t, path)
            \/ Resolving(t, path, cwd[t])
        \/ \E stream \in opened[t] : sys_fchdir(t, stream)

Spec == Init /\ [][Next]_vars

-----------------------------------------------------------------------------
\* Type correctness.
TypeOK ==
    /\ \A i \in DOMAIN inodes :
        /\ inodes[i].type \in {"file", "folder", "link"}
        /\ inodes[i].parent \in 0..Len(inodes) /\ inodes[i].fs \in DOMAIN roots
        /\ ToSet(inodes[i].children) \subseteq DOMAIN inodes
    /\ \A t \in Threads : cwd[t].mount \in DOMAIN roots /\ cwd[t].inode \in 0..Len(inodes)
    /\ hung \subseteq Threads

\* Every inode is listed once: at the root of its file system, or in the
\* folder that its parent is or, through links, leads to.
ListedOnce ==
    \A i \in DOMAIN inodes :
        LET folders == {f \in DOMAIN inodes : inodes[f].type # "link" /\ i \in ToSet(inodes[f].children)}
            atRoot == {f \in DOMAIN roots : i \in ToSet(roots[f])}
        IN  IF inodes[i].parent = 0 THEN folders = {} /\ atRoot = {inodes[i].fs}
            ELSE atRoot = {} /\ folders = {GetTarget(inodes[i].parent)}

\* A working directory pairs a mount point with an inode of its file system,
\* whichever of chdir and fchdir set it and through whatever path.
CwdMatches ==
    \A t \in Threads : cwd[t].inode # 0 => inodes[cwd[t].inode].fs = cwd[t].mount

\* What a directory shows under a name: under a mount point, what the folder
\* it covers has comes first.
Lookup(place, name) ==
    LET m == SelectSeq(mounts, LAMBDA x : x.fs = place.mount)[1]
        covered == IF m.root = 0 THEN 0 ELSE GetTMPFSChild(m.root, name)
    IN  IF place.inode # 0 THEN GetTMPFSChild(place.inode, name)
        ELSE IF covered # 0 THEN covered ELSE FirstNamed(roots[place.mount], name)

\* An absolute path without dots leads to what its parent's directory shows
\* under its last name: sys_open looks a file up by the path and creates it by
\* the parent, and what is found by one must be what the other would have
\* created, across mount points and links.
FoundInParent ==
    \A path \in Paths :
        path.abs /\ path.names # <<>> /\ ~path.slash /\ ToSet(path.names) \cap {".", ".."} = {} =>
            \A dir \in {GetChildMountPoint([ParentPath(path) EXCEPT !.abs = TRUE], NoWD)} :
                dir.mount # 0 => GetMountPoint(path, NoWD).inode = Lookup(dir, Last(path.names))

=============================================================================
