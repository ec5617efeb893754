----------------------------- MODULE Privilege ------------------------------
(***************************************************************************)
(* Permissions of inodes (FilePrivilegeLevel): an owner, a group and an    *)
(* access list, the set of pairs of a class (user, group or other) and a   *)
(* right (r, w or x).                                                      *)
(***************************************************************************)

\* The class of permissions that applies to cred, and whether it has right.
Granted(cred, inode, right) ==
    LET class == IF cred.uid = inode.owner \/ cred.uid = 0 THEN "u"
                 ELSE IF cred.gid = inode.group \/ cred.gid = 0 THEN "g" ELSE "o"
    IN  <<class, right>> \in inode.acl

\* CreateSymLink makes no exception for user 0 and group 0.
MayLink(cred, inode) ==
    LET class == IF cred.uid = inode.owner THEN "u"
                 ELSE IF cred.gid = inode.group THEN "g" ELSE "o"
    IN  <<class, "w">> \in inode.acl

\* DirectoryStream::Open takes the user's class for a directory of root's.
Listable(cred, inode) ==
    LET class == IF inode.owner \in {cred.uid, 0} THEN "u"
                 ELSE IF cred.gid = inode.group THEN "g" ELSE "o"
    IN  <<class, "r">> \in inode.acl

\* m_rootPrivilege of the root's file system: {0, 0, 00755}.
RootDirectory ==
    [owner |-> 0, group |-> 0,
     acl |-> {<<"u", "r">>, <<"u", "w">>, <<"u", "x">>, <<"g", "r">>, <<"g", "x">>,
              <<"o", "r">>, <<"o", "x">>}]
=============================================================================
