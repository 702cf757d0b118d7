-------------------------- MODULE YshellProperties --------------------------
(***************************************************************************)
(* What the inode graph of Yshell should satisfy.                          *)
(***************************************************************************)
EXTENDS Yshell

Allocated == {i \in Inodes : type[i] # "free"}
Directories == {i \in Inodes : type[i] = "directory"}
\* The entries that give an inode a name: all but "." and "..".
Links == {l \in Inodes \X Names : dirents[l[1]][l[2]] # Absent}
Target(l) == dirents[l[1]][l[2]]
\* The inodes that named entries lead to from the root.
Attached ==
  LET below[k \in 0 .. Cardinality(Inodes)] ==
        IF k = 0 THEN {Root}
        ELSE below[k-1] \cup {Target(l) : l \in {m \in Links : m[1] \in below[k-1]}}
  IN  below[Cardinality(Inodes)]

\* The inode whose path from the root is p, or Null.
Resolve(p) ==
  LET at[k \in 0 .. Len(p)] ==
        IF k = 0 THEN Root ELSE check_dirents(at[k-1], p[k])
  IN  at[Len(p)]

\* The path that get_path finds, if it finds one name at each step.
PathOf(d) == LET path == get_path(d)
             IN  [j \in DOMAIN path |-> CHOOSE n \in path[j] : TRUE]

SessionOK ==
  /\ prompt_ \in Seq(Words \cup {"%"}) /\ status \in Nat
  /\ ysh \in {"running", "exited", "lost"}

\* Every variable has its type, a plain file has no entries, and the current
\* inode of a running shell is a directory (fn_cd, commands.cpp:192).
TypeOK ==
  /\ type \in [Inodes -> {"free", "plain", "directory"}]
  /\ nr \in [Inodes -> Int] /\ next_inode_nr \in Int
  /\ dirents \in [Inodes -> [Entries -> Inodes \cup {Null, Absent}]]
  /\ \A i \in Inodes \ Directories : dirents[i] = NoDirents
  /\ data \in [Inodes -> Seq(Words)]
  /\ cwd \in Directories
  /\ SessionOK

\* No inode has two names and the root has none: the graph that mkdir and make
\* build (file_sys.cpp:305, 321) has no hard links and no cycles of names.
OneNameEach ==
  /\ \A l, m \in Links : Target(l) = Target(m) => l = m
  /\ \A l \in Links : Target(l) \in Allocated \ {Root}

\* In every directory "." is the directory and ".." is a directory; where the
\* directory has a name, ".." is the one that holds it (file_sys.cpp:310-314).
DotsAgree ==
  /\ \A d \in Directories : dirents[d]["."] = d /\ dirents[d][".."] \in Directories
  /\ dirents[Root][".."] = Root
  /\ \A l \in Links : type[Target(l)] = "directory" =>
       dirents[Target(l)][".."] = l[1]

\* The path that pwd, ls and lsr collect on the way up from a directory leads
\* back down to it from the root, for the current directory and for all that
\* can be reached: rm never cuts off the branch it sits on (file_sys.cpp:86).
PathLeadsBack ==
  \A d \in (Directories \cap Attached) \cup {cwd} :
    /\ ReachesRoot(d)
    /\ \A j \in DOMAIN get_path(d) : Cardinality(get_path(d)[j]) = 1
    /\ Resolve(PathOf(d)) = d

\* What was removed never comes back, and is never in the way of a path: an
\* inode without a way from the root stays so (file_sys.cpp:296).
RemovedStaysRemoved ==
  [][dirents' # dirents => Attached' \cap Allocated \subseteq Attached]_vars

\* The number of the root, 1, is never given to another inode, although rm
\* lowers the counter that numbers are taken from and never asks how far: it
\* lowers it only for an entry that some make or mkdir has counted, once each,
\* also when many more are cut off with it (file_sys.cpp:164, 296-303).
RootNumberAlone == \A i \in Allocated : nr[i] = nr[Root] => i = Root

\* The paths that exist, each with the inode it leads to.
Deeper(taken) == taken \cup UNION {
  {<< Append(t[1], n), dirents[t[2]][n] >> : n \in {m \in Names : dirents[t[2]][m] # Absent}} :
    t \in taken}
PathsTaken ==
  LET upto[k \in 0 .. (Cardinality(Inodes) - 1)] ==
        IF k = 0 THEN {<< << >>, Root >>} ELSE Deeper(upto[k-1])
  IN  upto[Cardinality(Inodes) - 1]

PathsOfTree == UNION {[1 .. n -> Names] : n \in 0 .. (Cardinality(Inodes) - 1)}
FilesOfTree == [p \in {t[1] : t \in PathsTaken} |->
                  [plain |-> type[Resolve(p)] = "plain", words |-> data[Resolve(p)]]]

\* The graph of inodes, seen as the paths it gives to files, is the tree of
\* YshellTree, and each command at most one of its changes: cd, mkdir and make
\* act on one path whatever pointers they follow, and rm takes away exactly
\* the paths at and below an entry of the current directory, which stays
\* (commands.cpp:148, 593, 676, 781).
Tree == INSTANCE YshellTree WITH
  Paths <- PathsOfTree, files <- FilesOfTree, here <- PathOf(cwd)
ImplementsTree == Tree!Spec

-----------------------------------------------------------------------------
(* What the documents say *)

\* "an inode number, which is uniquely assigned, starting from 1 for the root"
\* (asg2-shell-fnptrs-oop.mm:123): rm gives numbers back that are in use.
NumbersUnique ==
  \A i, j \in Attached : nr[i] = nr[j] => i = j
=============================================================================
