----------------------------- MODULE MCFSStore -----------------------------
(* Small disks for FSStore, and who uses them.                             *)
EXTENDS FSStore

Root == {<< >>}

(* Files that grow, shrink and lose their names while they are open.       *)
Files == [names |-> {"x"}, paths |-> Root, inodes |-> 3, filps |-> 2,
          calls |-> {"open", "creat", "close", "write", "unlink"}]

(* Pipes, with files that take the inodes and the zones they leave.        *)
Pipes == [names |-> {"x"}, paths |-> Root, inodes |-> 3, filps |-> 3,
          calls |-> {"creat", "close", "pipe", "unlink"}]

(* Several names for a file, and one slot beside the root directory.       *)
Links == [names |-> {"x", "y"}, paths |-> Root, inodes |-> 2, filps |-> 2,
          calls |-> {"open", "creat", "close", "link", "unlink", "rename"}]

(* Directories in directories.                                             *)
Trees == [names |-> {"x", "y"}, paths |-> {<< >>, <<"x">>}, inodes |-> 4, filps |-> 1,
          calls |-> {"creat", "close", "mkdir", "rmdir", "rename"}]

(* The same with too few slots for some of the calls.                      *)
Crowded == [Trees EXCEPT !.inodes = 3, !.calls = {"creat", "unlink", "mkdir", "rmdir", "rename"}]

AllSetups == {Files, Pipes, Links, Trees, Crowded}
OnlyLinks == {Links}
=============================================================================
