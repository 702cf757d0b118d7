---------------------------- MODULE YshellProofs ----------------------------
(***************************************************************************)
(* The inode graph of Yshell keeps its shape and implements the tree of    *)
(* YshellTree, for every set of names, for every finite set of inodes and  *)
(* for paths of any length, as long as the user never gives "." or ".." to *)
(* rm.                                                                     *)
(***************************************************************************)
EXTENDS YshellProperties, Induction, SequenceTheorems,
        FiniteSetTheorems, TLAPS

\* OneNameEach and DotsAgree, said of entries instead of links.
OneName ==
  \A c, d \in Inodes, m, n \in Names : dirents[c][m] # Absent =>
    /\ dirents[c][m] \in Inodes \ {Root} /\ type[dirents[c][m]] # "free"
    /\ dirents[d][n] = dirents[c][m] => c = d /\ m = n
Dots ==
  /\ \A d \in Inodes : type[d] = "directory" =>
       /\ dirents[d]["."] = d
       /\ dirents[d][".."] \in Inodes /\ type[dirents[d][".."]] = "directory"
  /\ type[Root] = "directory" /\ dirents[Root][".."] = Root
  /\ \A c \in Inodes, m \in Names :
       dirents[c][m] # Absent /\ type[dirents[c][m]] = "directory" =>
         dirents[dirents[c][m]][".."] = c

IInv == TypeOK /\ OneName /\ Dots

\* The inductive invariant implies the invariants that the runs check.
LEMMA InvImplies == IInv => OneNameEach /\ DotsAgree
<1>. SUFFICES ASSUME IInv PROVE OneNameEach /\ DotsAgree
  OBVIOUS
<1>1. \A l \in Links : /\ l[1] \in Inodes /\ l[2] \in Names
                       /\ l = << l[1], l[2] >>
                       /\ dirents[l[1]][l[2]] # Absent
  BY DEF Links
<1>2. OneNameEach
  <2>1. ASSUME NEW l \in Links, NEW m \in Links, Target(l) = Target(m) PROVE l = m
    <3>1. l[1] = m[1] /\ l[2] = m[2]
      BY <1>1, <2>1 DEF IInv, OneName, Target
    <3>. QED
      BY <1>1, <3>1
  <2>2. ASSUME NEW l \in Links PROVE Target(l) \in Allocated \ {Root}
    BY <1>1 DEF IInv, OneName, Target, Allocated
  <2>. QED
    BY <2>1, <2>2 DEF OneNameEach
<1>3. DotsAgree
  <2>1. \A l \in Links : type[Target(l)] = "directory" => dirents[Target(l)][".."] = l[1]
    BY <1>1 DEF IInv, Dots, Target
  <2>. QED
    BY <2>1 DEF IInv, Dots, DotsAgree, Directories
<1>. QED
  BY <1>2, <1>3

\* The last component of a path that is not "/" is an entry.
LEMMA LastIsEntry ==
  ASSUME NEW p \in Paths, p # << >>
  PROVE  Last(p) \in Entries
<1>1. PICK n \in 0 .. MaxDepth : p \in [1 .. n -> Entries]
  BY DEF Paths
<1>2. n \in Nat
  BY <1>1, BoundsAssumption
<1>3. p \in Seq(Entries) /\ Len(p) = n
  BY <1>1, <1>2
<1>4. Len(p) # 0
  BY <1>3, EmptySeq
<1>. QED
  BY <1>1, <1>2, <1>3, <1>4 DEF Last

\* What the user types after make and prompt.
LEMMA WordsType ==
  ASSUME NEW w \in Contents
  PROVE  w \in Seq(Words) /\ w \in Seq(Words \cup {"%"})
<1>1. PICK n \in 0 .. MaxWords : w \in [1 .. n -> Words]
  BY DEF Contents
<1>2. n \in Nat /\ w \in [1 .. n -> Words \cup {"%"}]
  BY <1>1, BoundsAssumption
<1>. QED
  BY <1>1, <1>2

\* A step that leaves the session alone keeps its types.
LEMMA SessionKept ==
  ASSUME SessionOK, UNCHANGED session
  PROVE  SessionOK'
BY DEF SessionOK, session

\* Commands that leave the tree alone keep the types of the session.
LEMMA StatusType ==
  ASSUME SessionOK, NEW n \in Nat, Status(n)
  PROVE  status' \in Nat
BY DEF SessionOK, Status

\* check_dirents answers with an inode or a null pointer, whatever it is asked.
LEMMA CheckedType ==
  ASSUME TypeOK, NEW d, NEW n \in Entries
  PROVE  check_dirents(d, n) \in Inodes \cup {Null}
BY DEF TypeOK, check_dirents, isDirectory

\* In a directory a missing entry is a name, for "." and ".." are there.
LEMMA MissingIsName ==
  ASSUME IInv, NEW d \in Inodes, type[d] = "directory", NEW n \in Entries,
         check_dirents(d, n) = Null
  PROVE  n \in Names /\ dirents[d][n] = Absent
<1>1. dirents[d]["."] = d /\ dirents[d][".."] \in Inodes
  BY DEF IInv, Dots
<1>2. \A i \in Inodes : i # Null /\ i # Absent
  BY InodesAssumption DEF Null, Absent
<1>3. dirents[d][n] \in Inodes \cup {Null, Absent}
  BY DEF IInv, TypeOK
<1>4. dirents[d][n] \in {Null, Absent}
  BY <1>2, <1>3 DEF check_dirents, isDirectory
<1>5. n \in Names
  BY <1>1, <1>2, <1>4 DEF Entries
<1>6. Null # Absent
  BY DEF Null, Absent
<1>. QED
  BY <1>2, <1>4, <1>5, <1>6 DEF IInv, OneName

\* A directory of the file system is looked up, or nothing is.
LEMMA LookupTypes ==
  ASSUME IInv, NEW p \in Paths, p # << >>
  PROVE  /\ MakeParent(p) # Null => isDirectory(MakeParent(p))
         /\ isDirectory(MkdirParent(p)) => MkdirParent(p) \in Inodes
BY DEF MakeParent, MkdirParent, LookupDirectory, isDirectory, IInv, TypeOK, Directories

\* What a new inode changes in the entries, for mkdir and for mkfile.
LEMMA MkdirEntries ==
  ASSUME IInv, NEW d \in Inodes, type[d] = "directory", NEW name \in Names,
         NEW i \in Inodes, mkdir(d, name, i)
  PROVE  /\ i # d /\ i # Root /\ type[i] = "free"
         /\ type' = [type EXCEPT ![i] = "directory"]
         /\ dirents' \in [Inodes -> [Entries -> Inodes \cup {Null, Absent}]]
         /\ \A c \in Inodes : c # i /\ type[c] # "directory" => dirents'[c] = dirents[c]
         /\ \A c \in Inodes, m \in Names :
              dirents'[c][m] = IF c = d /\ m = name THEN i ELSE dirents[c][m]
         /\ \A c \in Inodes : dirents'[c]["."] = IF c = i THEN i ELSE dirents[c]["."]
         /\ \A c \in Inodes : dirents'[c][".."] = IF c = i THEN d ELSE dirents[c][".."]
<1>1. /\ type[i] = "free" /\ type' = [type EXCEPT ![i] = "directory"]
      /\ i # d /\ i # Root
  BY DEF mkdir, NewInode, Fresh, IInv, Dots
<1>2. dirents[d]["."] = d /\ d # Absent /\ dirents[i] = NoDirents
  BY <1>1, InodesAssumption DEF IInv, Dots, TypeOK, Directories, Absent
<1>3. dirents' = [dirents EXCEPT
         ![i] = [NoDirents EXCEPT !["."] = i, ![".."] = d],
         ![d] = [@ EXCEPT !["."] = d, ![name] = i]]
  BY <1>2 DEF mkdir
<1>4. /\ dirents \in [Inodes -> [Entries -> Inodes \cup {Null, Absent}]]
      /\ NoDirents \in [Entries -> Inodes \cup {Null, Absent}]
      /\ \A n \in Entries : NoDirents[n] = Absent
  BY DEF IInv, TypeOK, NoDirents
<1>5. "." \in Entries /\ ".." \in Entries /\ name \in Entries /\ Names \subseteq Entries
      /\ "." \notin Names /\ ".." \notin Names
  BY NamesAssumption DEF Entries
<1>6. dirents'[i] = [NoDirents EXCEPT !["."] = i, ![".."] = d]
  BY <1>1, <1>3, <1>4
<1>7. dirents'[d] = [dirents[d] EXCEPT !["."] = d, ![name] = i]
  BY <1>1, <1>3, <1>4
<1>8. \A c \in Inodes : c # i /\ c # d => dirents'[c] = dirents[c]
  BY <1>3, <1>4
<1>9. dirents' \in [Inodes -> [Entries -> Inodes \cup {Null, Absent}]]
  BY <1>3, <1>4, <1>5
<1>10. ASSUME NEW n \in Entries
       PROVE  /\ dirents'[i][n] = IF n = "." THEN i ELSE IF n = ".." THEN d ELSE Absent
              /\ dirents'[d][n] = IF n = name THEN i ELSE dirents[d][n]
  <2>1. dirents'[i][n] = IF n = "." THEN i ELSE IF n = ".." THEN d ELSE Absent
    BY <1>4, <1>6
  <2>2. dirents[d] \in [Entries -> Inodes \cup {Null, Absent}]
    BY <1>4
  <2>3. dirents'[d][n] = IF n = name THEN i ELSE dirents[d][n]
    BY <1>2, <1>5, <1>7, <2>2
  <2>. QED
    BY <2>1, <2>3
<1>11. ASSUME NEW c \in Inodes, NEW m \in Names
       PROVE  dirents'[c][m] = IF c = d /\ m = name THEN i ELSE dirents[c][m]
  <2>1. m \in Entries /\ m # "." /\ m # ".." /\ dirents[i][m] = Absent
    BY <1>2, <1>4, <1>5
  <2>2. CASE c = i
    BY <1>1, <1>10, <2>1, <2>2
  <2>3. CASE c = d
    BY <1>10, <2>1, <2>3
  <2>4. CASE c # i /\ c # d
    BY <1>8, <2>4
  <2>. QED
    BY <2>2, <2>3, <2>4
<1>12. ASSUME NEW c \in Inodes
       PROVE  /\ dirents'[c]["."] = IF c = i THEN i ELSE dirents[c]["."]
              /\ dirents'[c][".."] = IF c = i THEN d ELSE dirents[c][".."]
  <2>1. CASE c = i
    BY <1>5, <1>10, <2>1
  <2>2. CASE c = d
    BY <1>1, <1>5, <1>10, <2>2
  <2>3. CASE c # i /\ c # d
    BY <1>8, <2>3
  <2>. QED
    BY <2>1, <2>2, <2>3
<1>. QED
  BY <1>1, <1>8, <1>9, <1>11, <1>12

\* The same for make: the new inode is a plain file without entries.
LEMMA MkfileEntries ==
  ASSUME IInv, NEW d \in Inodes, type[d] = "directory", NEW name \in Names,
         NEW i \in Inodes, NEW w \in Contents, mkfile(d, name, i, w)
  PROVE  /\ i # d /\ i # Root /\ type[i] = "free"
         /\ type' = [type EXCEPT ![i] = "plain"]
         /\ dirents' = [dirents EXCEPT ![d] = [@ EXCEPT ![name] = i]]
         /\ data' = [data EXCEPT ![i] = w]
BY DEF mkfile, NewInode, Fresh, IInv, Dots

\* The invariant survives a new directory, a new file, and a removed name.
LEMMA MkdirKeeps ==
  ASSUME IInv, NEW d \in Inodes, type[d] = "directory", NEW name \in Names,
         NEW i \in Inodes, dirents[d][name] = Absent,
         mkdir(d, name, i), UNCHANGED << cwd, session >>
  PROVE  IInv'
<1>1. /\ i # d /\ i # Root /\ type[i] = "free"
      /\ type' = [type EXCEPT ![i] = "directory"]
      /\ dirents' \in [Inodes -> [Entries -> Inodes \cup {Null, Absent}]]
      /\ \A c \in Inodes : c # i /\ type[c] # "directory" => dirents'[c] = dirents[c]
  BY MkdirEntries
<1>2. \A c \in Inodes, m \in Names :
        dirents'[c][m] = IF c = d /\ m = name THEN i ELSE dirents[c][m]
  BY MkdirEntries
<1>3. \A c \in Inodes : /\ dirents'[c]["."] = IF c = i THEN i ELSE dirents[c]["."]
                        /\ dirents'[c][".."] = IF c = i THEN d ELSE dirents[c][".."]
  BY MkdirEntries
<1>4. \A c \in Inodes : type'[c] = IF c = i THEN "directory" ELSE type[c]
  BY <1>1 DEF IInv, TypeOK
<1>5. Root \in Inodes
  BY InodesAssumption DEF Root
<1>6. TypeOK'
  <2>1. \A c \in Inodes \ Directories' : dirents'[c] = NoDirents
    <3>. SUFFICES ASSUME NEW c \in Inodes, type'[c] # "directory"
                  PROVE  dirents'[c] = NoDirents
      BY DEF Directories
    <3>. QED
      BY <1>1, <1>4 DEF IInv, TypeOK, Directories
  <2>2. nr' \in [Inodes -> Int] /\ next_inode_nr' \in Int
    BY DEF IInv, TypeOK, mkdir, NewInode
  <2>3. type' \in [Inodes -> {"free", "plain", "directory"}]
    BY <1>1 DEF IInv, TypeOK
  <2>4. data' = data
    BY DEF mkdir
  <2>5. cwd' \in Directories'
    BY <1>1, <1>4 DEF IInv, TypeOK, Directories
  <2>. QED
    BY <1>1, <2>1, <2>2, <2>3, <2>4, <2>5, SessionKept DEF IInv, TypeOK, NoDirents
<1>7. OneName'
  BY <1>1, <1>2, <1>4 DEF IInv, OneName
<1>8. Dots'
  <2>1. ASSUME NEW c \in Inodes, type'[c] = "directory"
        PROVE  /\ dirents'[c]["."] = c
               /\ dirents'[c][".."] \in Inodes /\ type'[dirents'[c][".."]] = "directory"
    BY <1>3, <1>4, <2>1 DEF IInv, Dots
  <2>2. type'[Root] = "directory" /\ dirents'[Root][".."] = Root
    BY <1>1, <1>3, <1>4, <1>5 DEF IInv, Dots
  <2>3. ASSUME NEW c \in Inodes, NEW m \in Names,
               dirents'[c][m] # Absent, type'[dirents'[c][m]] = "directory"
        PROVE  dirents'[dirents'[c][m]][".."] = c
    <3>1. CASE c = d /\ m = name
      BY <1>2, <1>3, <3>1
    <3>2. CASE ~ (c = d /\ m = name)
      <4>1. dirents'[c][m] = dirents[c][m] /\ dirents[c][m] # Absent
        BY <1>2, <2>3, <3>2
      <4>2. dirents[c][m] \in Inodes /\ type[dirents[c][m]] # "free"
        BY <4>1 DEF IInv, OneName
      <4>3. dirents[c][m] # i
        BY <1>1, <4>2
      <4>4. type[dirents[c][m]] = "directory"
        BY <1>4, <2>3, <4>1, <4>2, <4>3
      <4>. QED
        BY <1>3, <4>1, <4>2, <4>3, <4>4 DEF IInv, Dots
    <3>. QED
      BY <3>1, <3>2
  <2>. QED
    BY <2>1, <2>2, <2>3 DEF Dots
<1>. QED
  BY <1>6, <1>7, <1>8 DEF IInv

\* A new plain file keeps the invariant.
LEMMA MkfileKeeps ==
  ASSUME IInv, NEW d \in Inodes, type[d] = "directory", NEW name \in Names,
         NEW i \in Inodes, NEW w \in Contents, dirents[d][name] = Absent,
         mkfile(d, name, i, w), UNCHANGED << cwd, session >>
  PROVE  IInv'
<1>1. /\ i # d /\ i # Root /\ type[i] = "free"
      /\ type' = [type EXCEPT ![i] = "plain"]
      /\ dirents' = [dirents EXCEPT ![d] = [@ EXCEPT ![name] = i]]
      /\ data' = [data EXCEPT ![i] = w]
  BY MkfileEntries
<1>2. /\ dirents \in [Inodes -> [Entries -> Inodes \cup {Null, Absent}]]
      /\ type \in [Inodes -> {"free", "plain", "directory"}]
      /\ name \in Entries /\ name # "." /\ name # ".." /\ Names \subseteq Entries
      /\ "." \in Entries /\ ".." \in Entries
  BY NamesAssumption DEF IInv, TypeOK, Entries
<1>3. ASSUME NEW c \in Inodes, NEW m \in Entries
      PROVE  dirents'[c][m] = IF c = d /\ m = name THEN i ELSE dirents[c][m]
  BY <1>1, <1>2
<1>4. \A c \in Inodes : type'[c] = IF c = i THEN "plain" ELSE type[c]
  BY <1>1, <1>2
<1>5. Root \in Inodes
  BY InodesAssumption DEF Root
<1>6. TypeOK'
  <2>1. w \in Seq(Words)
    BY WordsType
  <2>2. dirents' \in [Inodes -> [Entries -> Inodes \cup {Null, Absent}]]
    BY <1>1, <1>2
  <2>3. data' \in [Inodes -> Seq(Words)]
    BY <1>1, <2>1 DEF IInv, TypeOK, mkfile
  <2>4. \A c \in Inodes \ Directories' : dirents'[c] = NoDirents
    BY <1>1, <1>2, <1>4 DEF IInv, TypeOK, Directories
  <2>5. nr' \in [Inodes -> Int] /\ next_inode_nr' \in Int
    BY DEF IInv, TypeOK, mkfile, NewInode
  <2>6. type' \in [Inodes -> {"free", "plain", "directory"}]
    BY <1>1, <1>2
  <2>7. cwd' \in Directories'
    BY <1>1, <1>4 DEF IInv, TypeOK, Directories
  <2>. QED
    BY <2>2, <2>3, <2>4, <2>5, <2>6, <2>7, SessionKept DEF IInv, TypeOK, NoDirents
<1>7. OneName'
  BY <1>1, <1>2, <1>3, <1>4 DEF IInv, OneName
<1>8. Dots'
  <2>1. ASSUME NEW c \in Inodes, type'[c] = "directory"
        PROVE  /\ dirents'[c]["."] = c
               /\ dirents'[c][".."] \in Inodes /\ type'[dirents'[c][".."]] = "directory"
    BY <1>1, <1>2, <1>3, <1>4, <2>1 DEF IInv, Dots
  <2>2. type'[Root] = "directory" /\ dirents'[Root][".."] = Root
    BY <1>1, <1>2, <1>3, <1>4, <1>5 DEF IInv, Dots
  <2>3. ASSUME NEW c \in Inodes, NEW m \in Names,
               dirents'[c][m] # Absent, type'[dirents'[c][m]] = "directory"
        PROVE  dirents'[dirents'[c][m]][".."] = c
    <3>1. ~ (c = d /\ m = name)
      BY <1>2, <1>3, <1>4, <2>3
    <3>2. dirents'[c][m] = dirents[c][m] /\ dirents[c][m] # Absent
      BY <1>2, <1>3, <2>3, <3>1
    <3>3. dirents[c][m] \in Inodes /\ dirents[dirents[c][m]][".."] = c
      BY <1>1, <1>4, <2>3, <3>2 DEF IInv, OneName, Dots
    <3>. QED
      BY <1>2, <1>3, <3>2, <3>3
  <2>. QED
    BY <2>1, <2>2, <2>3 DEF Dots
<1>. QED
  BY <1>6, <1>7, <1>8 DEF IInv

\* A removed name keeps the invariant, for it is neither "." nor "..".
LEMMA RmKeeps ==
  ASSUME IInv, NEW n \in Names, fn_rm(n)
  PROVE  IInv'
<1>1. CASE UNCHANGED vars
  BY <1>1, SessionKept DEF IInv, TypeOK, OneName, Dots, Directories, vars, tree
<1>2. CASE dirents' = [dirents EXCEPT ![cwd][n] = Absent]
           /\ next_inode_nr' = next_inode_nr - 1
           /\ UNCHANGED << type, nr, data, cwd, session >>
  <2>1. /\ dirents \in [Inodes -> [Entries -> Inodes \cup {Null, Absent}]]
        /\ n \in Entries /\ n # "." /\ n # ".." /\ Names \subseteq Entries
        /\ "." \in Entries /\ ".." \in Entries
        /\ cwd \in Inodes /\ type[cwd] = "directory"
    BY NamesAssumption DEF IInv, TypeOK, Entries, Directories
  <2>2. ASSUME NEW c \in Inodes, NEW m \in Entries
        PROVE  dirents'[c][m] = IF c = cwd /\ m = n THEN Absent ELSE dirents[c][m]
    BY <1>2, <2>1
  <2>3. TypeOK'
    <3>1. dirents' \in [Inodes -> [Entries -> Inodes \cup {Null, Absent}]]
      BY <1>2, <2>1
    <3>2. \A c \in Inodes \ Directories' : dirents'[c] = NoDirents
      BY <1>2, <2>1 DEF IInv, TypeOK, Directories
    <3>. QED
      BY <1>2, <3>1, <3>2, SessionKept DEF IInv, TypeOK, Directories, NoDirents
  <2>4. OneName'
    <3>. SUFFICES ASSUME NEW c \in Inodes, NEW d \in Inodes,
                         NEW m \in Names, NEW k \in Names, dirents'[c][m] # Absent
                  PROVE  /\ dirents'[c][m] \in Inodes \ {Root}
                         /\ type'[dirents'[c][m]] # "free"
                         /\ dirents'[d][k] = dirents'[c][m] => c = d /\ m = k
      BY DEF OneName
    <3>1. dirents'[c][m] = dirents[c][m] /\ dirents[c][m] # Absent
      BY <2>1, <2>2
    <3>2. dirents'[d][k] = dirents'[c][m] => dirents'[d][k] = dirents[d][k]
      BY <2>1, <2>2, <3>1
    <3>. QED
      BY <1>2, <3>1, <3>2 DEF IInv, OneName
  <2>5. Dots'
    <3>1. \A c \in Inodes : /\ dirents'[c]["."] = dirents[c]["."]
                            /\ dirents'[c][".."] = dirents[c][".."]
      BY <2>1, <2>2
    <3>2. ASSUME NEW c \in Inodes, NEW m \in Names,
                 dirents'[c][m] # Absent, type'[dirents'[c][m]] = "directory"
          PROVE  dirents'[dirents'[c][m]][".."] = c
      <4>1. dirents'[c][m] = dirents[c][m] /\ dirents[c][m] # Absent
        BY <2>1, <2>2, <3>2
      <4>2. dirents[c][m] \in Inodes /\ dirents[dirents[c][m]][".."] = c
        BY <1>2, <3>2, <4>1 DEF IInv, OneName, Dots
      <4>. QED
        BY <3>1, <4>1, <4>2
    <3>3. Root \in Inodes
      BY InodesAssumption DEF Root
    <3>. QED
      BY <1>2, <3>1, <3>2, <3>3 DEF IInv, Dots
  <2>. QED
    BY <2>3, <2>4, <2>5 DEF IInv
<1>. QED
  BY <1>1, <1>2 DEF fn_rm, PrintsOnly

\* A command that leaves the graph alone keeps the invariant as long as the
\* current inode stays a directory.
LEMMA GraphKept ==
  ASSUME IInv, UNCHANGED << type, nr, dirents, next_inode_nr >>,
         data' \in [Inodes -> Seq(Words)],
         isDirectory(cwd'), SessionOK'
  PROVE  IInv'
<1>1. TypeOK'
  BY DEF IInv, TypeOK, Directories, isDirectory, NoDirents
<1>. QED
  BY <1>1 DEF IInv, OneName, Dots

\* Commands that print, or end the shell, keep the invariant.
LEMMA LosesOrPrints ==
  ASSUME IInv, Lose \/ UNCHANGED vars
  PROVE  IInv'
<1>1. isDirectory(cwd)
  BY DEF IInv, TypeOK, Directories, isDirectory
<1>2. CASE Lose
  <2>1. SessionOK'
    BY <1>2 DEF Lose, SessionOK, IInv, TypeOK
  <2>. QED
    BY <1>1, <1>2, <2>1, GraphKept DEF Lose, tree, isDirectory, IInv, TypeOK
<1>3. CASE UNCHANGED vars
  BY <1>1, <1>3, GraphKept, SessionKept DEF vars, tree, isDirectory, IInv, TypeOK
<1>. QED
  BY <1>2, <1>3

\* The commands that only change the session.
LEMMA SessionKeeps ==
  ASSUME IInv, UNCHANGED << tree, cwd >>, SessionOK'
  PROVE  IInv'
<1>1. isDirectory(cwd')
  BY DEF IInv, TypeOK, Directories, isDirectory, tree
<1>. QED
  BY <1>1, GraphKept DEF tree, IInv, TypeOK

\* cd goes to a directory or stays where it is.
LEMMA CdKeeps ==
  ASSUME IInv, NEW p \in Paths, fn_cd(p)
  PROVE  IInv'
<1>1. isDirectory(cwd')
  BY InodesAssumption DEF fn_cd, isDirectory, IInv, Dots, TypeOK, Directories, Root
<1>. QED
  BY <1>1, GraphKept, SessionKept DEF fn_cd, tree, IInv, TypeOK

\* make adds a file, or words to one.
LEMMA MakeKeeps ==
  ASSUME IInv, NEW p \in Paths, NEW w \in Contents, fn_make(p, w)
  PROVE  IInv'
<1>. DEFINE d == MakeParent(p)
            f == check_dirents(d, Last(p))
<1>1. isDirectory(cwd)
  BY DEF IInv, TypeOK, Directories, isDirectory
<1>2. CASE Lose \/ PrintsOnly
  BY <1>1, <1>2, LosesOrPrints DEF PrintsOnly, Lose
<1>3. ASSUME p # << >>, d # Null, f = Null, NEW i \in Inodes,
             mkfile(d, Last(p), i, w), UNCHANGED << cwd, session >>
      PROVE  IInv'
  <2>1. d \in Inodes /\ type[d] = "directory"
    BY <1>3, LookupTypes DEF isDirectory
  <2>2. Last(p) \in Names /\ dirents[d][Last(p)] = Absent
    BY <1>3, <2>1, LastIsEntry, MissingIsName
  <2>. HIDE DEF d
  <2>. QED
    BY <1>3, <2>1, <2>2, MkfileKeeps
<1>4. ASSUME p # << >>, f # Null, data' = [data EXCEPT ![f] = @ \o w],
             UNCHANGED << type, nr, dirents, next_inode_nr, cwd, session >>
      PROVE  IInv'
  <2>1. f \in Inodes
    BY <1>4, LastIsEntry, CheckedType DEF IInv
  <2>2. w \in Seq(Words)
    BY WordsType
  <2>3. data \in [Inodes -> Seq(Words)]
    BY DEF IInv, TypeOK
  <2>. HIDE DEF f
  <2>4. data' \in [Inodes -> Seq(Words)]
    <3>. SUFFICES ASSUME NEW i \in Inodes PROVE data'[i] \in Seq(Words)
      BY <1>4, <2>3
    <3>1. CASE i = f
      BY <1>4, <2>1, <2>2, <2>3, <3>1, ConcatProperties
    <3>2. CASE i # f
      BY <1>4, <2>3, <3>2
    <3>. QED
      BY <3>1, <3>2
  <2>. QED
    BY <1>1, <1>4, <2>4, GraphKept, SessionKept DEF IInv, TypeOK
<1>. QED
  BY <1>2, <1>3, <1>4 DEF fn_make, writefile

\* mkdir adds a directory to one, or ends the shell.
LEMMA MkdirStepKeeps ==
  ASSUME IInv, NEW p \in Paths, fn_mkdir(p)
  PROVE  IInv'
<1>. DEFINE d == MkdirParent(p)
<1>1. isDirectory(cwd)
  BY DEF IInv, TypeOK, Directories, isDirectory
<1>2. CASE Lose \/ PrintsOnly
  BY <1>1, <1>2, LosesOrPrints DEF PrintsOnly, Lose
<1>3. ASSUME p # << >>, check_dirents(d, Last(p)) = Null, isDirectory(d),
             NEW i \in Inodes, mkdir(d, Last(p), i), UNCHANGED << cwd, session >>
      PROVE  IInv'
  <2>1. d \in Inodes /\ type[d] = "directory"
    BY <1>3 DEF isDirectory
  <2>2. Last(p) \in Names /\ dirents[d][Last(p)] = Absent
    BY <1>3, <2>1, LastIsEntry, MissingIsName
  <2>. HIDE DEF d
  <2>. QED
    BY <1>3, <2>1, <2>2, MkdirKeeps
<1>. QED
  BY <1>2, <1>3 DEF fn_mkdir

\* The invariant holds at the start.
LEMMA InitInv == Init => IInv
<1>. SUFFICES ASSUME Init PROVE IInv
  OBVIOUS
<1>1. Root \in Inodes /\ Root # Absent /\ Root # Null
  BY InodesAssumption DEF Root, Absent, Null
<1>2. /\ NoDirents \in [Entries -> Inodes \cup {Null, Absent}]
      /\ \A n \in Entries : NoDirents[n] = Absent
      /\ "." \in Entries /\ ".." \in Entries /\ Names \subseteq Entries
      /\ "." \notin Names /\ ".." \notin Names
  BY NamesAssumption DEF NoDirents, Entries
<1>3. dirents \in [Inodes -> [Entries -> Inodes \cup {Null, Absent}]]
  BY <1>1, <1>2 DEF Init
<1>4. \A i \in Inodes : i # Root => dirents[i] = NoDirents
  BY DEF Init
<1>5. dirents[Root] = [NoDirents EXCEPT !["."] = Root, ![".."] = Root]
  BY <1>1 DEF Init
<1>6. dirents[Root]["."] = Root /\ dirents[Root][".."] = Root
  BY <1>2, <1>5
<1>7. \A i \in Inodes, n \in Names : dirents[i][n] = Absent
  BY <1>2, <1>4, <1>5
<1>8. \A i \in Inodes : type[i] = IF i = Root THEN "directory" ELSE "free"
  BY DEF Init
<1>9. TypeOK
  <2>1. \A i \in Inodes \ Directories : dirents[i] = NoDirents
    BY <1>4, <1>8 DEF Directories
  <2>2. /\ data \in [Inodes -> Seq(Words)]
        /\ nr \in [Inodes -> Int] /\ next_inode_nr \in Int
        /\ type \in [Inodes -> {"free", "plain", "directory"}]
    BY DEF Init
  <2>. QED
    BY <1>1, <1>3, <1>8, <2>1, <2>2 DEF Init, TypeOK, Directories, SessionOK
<1>. QED
  BY <1>1, <1>6, <1>7, <1>8, <1>9 DEF IInv, OneName, Dots

\* What prompt, exit and an unknown command change.
LEMMA SessionSteps ==
  ASSUME IInv,
         \/ \E w \in Contents : fn_prompt(w)
         \/ fn_exit_none \/ NoSuchFunction \/ EndOfFile
         \/ \E n \in Statuses \cup {NonNumeric} : fn_exit(n)
  PROVE  SessionOK' /\ UNCHANGED << tree, cwd >>
<1>. SessionOK
  BY DEF IInv, TypeOK
<1>1. CASE \E w \in Contents : fn_prompt(w)
  BY <1>1, WordsType DEF fn_prompt, SessionOK
<1>2. CASE fn_exit_none \/ NoSuchFunction
  BY <1>2, StatusType DEF fn_exit_none, NoSuchFunction, SessionOK
<1>3. CASE EndOfFile
  BY <1>3 DEF EndOfFile, SessionOK
<1>4. CASE \E n \in Statuses \cup {NonNumeric} : fn_exit(n)
  <2>1. PICK n \in Nat : fn_exit(n)
    BY <1>4, StatusesAssumption DEF NonNumeric
  <2>. QED
    BY <2>1, StatusType DEF fn_exit, SessionOK
<1>. QED
  BY <1>1, <1>2, <1>3, <1>4

\* Every command keeps the invariant.
LEMMA NextInv ==
  ASSUME Removable \subseteq Names, IInv, [Next]_vars
  PROVE  IInv'
<1>1. CASE Lose \/ UNCHANGED vars
  BY <1>1, LosesOrPrints
<1>2. ASSUME NEW p \in Paths, fn_cat(p) \/ fn_ls(p) \/ fn_lsr(p) PROVE IInv'
  BY <1>1, <1>2 DEF fn_cat, fn_ls, fn_lsr, PrintsOnly
<1>3. CASE fn_ls_cwd \/ fn_pwd \/ fn_comm \/ fn_echo \/ BlankLine
  BY <1>1, <1>3 DEF fn_ls_cwd, fn_pwd, fn_comm, fn_echo, BlankLine, PrintsOnly
<1>4. ASSUME NEW n \in Removable, fn_rm(n) PROVE IInv'
  BY <1>4, RmKeeps
<1>. QED
  BY <1>1, <1>2, <1>3, <1>4, CdKeeps, MakeKeeps, MkdirStepKeeps,
     SessionSteps, SessionKeeps DEF Next

\* The invariant holds in every state, which needs that "." and ".." stay.
LEMMA Invariant == ASSUME Removable \subseteq Names PROVE Spec => []IInv
<1>1. Init => IInv
  BY InitInv
<1>2. IInv /\ [Next]_vars => IInv'
  BY NextInv
<1>. QED
  BY <1>1, <1>2, PTL DEF Spec

\* Every variable keeps its type and the current inode is a directory, so that
\* fn_ls, fn_rm and fn_make may take its entries (commands.cpp:192).
THEOREM TypeCorrect == ASSUME Removable \subseteq Names PROVE Spec => []TypeOK
<1>1. IInv => TypeOK
  BY DEF IInv
<1>. QED
  BY <1>1, Invariant, PTL

\* No sequence of commands gives an inode two names or the root a name
\* (file_sys.cpp:305, 321).
THEOREM NoHardLinks == ASSUME Removable \subseteq Names PROVE Spec => []OneNameEach
<1>1. IInv => OneNameEach
  BY InvImplies
<1>. QED
  BY <1>1, Invariant, PTL

\* "." is the directory and ".." the directory that holds it, in every
\* directory, also in those that rm has cut off (file_sys.cpp:310-314).
THEOREM DotsKept == ASSUME Removable \subseteq Names PROVE Spec => []DotsAgree
<1>1. IInv => DotsAgree
  BY InvImplies
<1>. QED
  BY <1>1, Invariant, PTL

-----------------------------------------------------------------------------
(* The count of entries, for finitely many inodes and names *)

\* The next number is 2 more than the named entries that exist: each make and
\* mkdir takes one number and each rm gives one back, whatever the entry was and
\* however many were below it.  This is what the counter does; that the number
\* given back need not be that of the entry is what NumbersUnique shows.
Balance == next_inode_nr = 2 + Cardinality(Links)

\* The named entries are finitely many.
LEMMA LinksFinite ==
  ASSUME IsFiniteSet(Inodes), IsFiniteSet(Names)
  PROVE  IsFiniteSet(Links) /\ Cardinality(Links) \in Nat
<1>1. IsFiniteSet(Inodes \X Names)
  BY FS_Product
<1>2. Links \in SUBSET (Inodes \X Names)
  BY DEF Links
<1>. QED
  BY <1>1, <1>2, FS_Subset, FS_CardinalityType

\* mkdir and make add one named entry and take one number.
LEMMA OneMore ==
  ASSUME IsFiniteSet(Inodes), IsFiniteSet(Names), Balance,
         NEW d \in Inodes, NEW name \in Names, NEW i \in Inodes,
         dirents[d][name] = Absent, next_inode_nr' = next_inode_nr + 1,
         \A c \in Inodes, m \in Names :
           dirents'[c][m] = IF c = d /\ m = name THEN i ELSE dirents[c][m]
  PROVE  Balance'
<1>1. i # Absent
  BY InodesAssumption DEF Absent
<1>2. Links' = Links \cup {<< d, name >>}
  BY <1>1 DEF Links
<1>3. << d, name >> \notin Links
  BY DEF Links
<1>4. Cardinality(Links') = Cardinality(Links) + 1
  BY <1>2, <1>3, LinksFinite, FS_AddElement
<1>. QED
  BY <1>4, LinksFinite DEF Balance

\* rm takes one named entry and gives one number back.
LEMMA BalanceRm ==
  ASSUME IsFiniteSet(Inodes), IsFiniteSet(Names), IInv, Balance,
         NEW n \in Names, fn_rm(n)
  PROVE  Balance'
<1>1. CASE UNCHANGED vars
  BY <1>1 DEF Balance, Links, vars, tree
<1>2. CASE /\ dirents[cwd][n] # Absent
           /\ dirents' = [dirents EXCEPT ![cwd][n] = Absent]
           /\ next_inode_nr' = next_inode_nr - 1
  <2>1. /\ dirents \in [Inodes -> [Entries -> Inodes \cup {Null, Absent}]]
        /\ Names \subseteq Entries /\ cwd \in Inodes
    BY DEF IInv, TypeOK, Entries, Directories
  <2>2. \A c \in Inodes, m \in Names :
          dirents'[c][m] = IF c = cwd /\ m = n THEN Absent ELSE dirents[c][m]
    BY <1>2, <2>1
  <2>3. Links' = Links \ {<< cwd, n >>} /\ << cwd, n >> \in Links
    BY <1>2, <2>1, <2>2 DEF Links
  <2>4. Cardinality(Links') = Cardinality(Links) - 1
    BY <2>3, LinksFinite, FS_RemoveElement
  <2>. QED
    BY <1>2, <2>4, LinksFinite DEF Balance
<1>. QED
  BY <1>1, <1>2 DEF fn_rm, PrintsOnly

\* make takes one number for one entry, or neither.
LEMMA BalanceMake ==
  ASSUME IsFiniteSet(Inodes), IsFiniteSet(Names), IInv, Balance,
         NEW p \in Paths, NEW w \in Contents, fn_make(p, w)
  PROVE  Balance'
<1>. DEFINE d == MakeParent(p)
            f == check_dirents(d, Last(p))
<1>1. CASE UNCHANGED << dirents, next_inode_nr >>
  BY <1>1 DEF Balance, Links
<1>2. ASSUME p # << >>, d # Null, f = Null, NEW i \in Inodes, mkfile(d, Last(p), i, w)
      PROVE  Balance'
  <2>1. d \in Inodes /\ type[d] = "directory"
    BY <1>2, LookupTypes DEF isDirectory
  <2>2. Last(p) \in Names /\ dirents[d][Last(p)] = Absent
    BY <1>2, <2>1, LastIsEntry, MissingIsName
  <2>. DEFINE name == Last(p)
  <2>3. mkfile(d, name, i, w) /\ name \in Names /\ dirents[d][name] = Absent
    BY <1>2, <2>2
  <2>. HIDE DEF d, name
  <2>4. /\ dirents' = [dirents EXCEPT ![d] = [@ EXCEPT ![name] = i]]
        /\ next_inode_nr' = next_inode_nr + 1
    <3>1. dirents' = [dirents EXCEPT ![d] = [@ EXCEPT ![name] = i]]
      BY <2>1, <2>3, MkfileEntries
    <3>2. next_inode_nr' = next_inode_nr + 1
      BY <2>3 DEF mkfile, NewInode
    <3>. QED
      BY <3>1, <3>2
  <2>5. /\ dirents \in [Inodes -> [Entries -> Inodes \cup {Null, Absent}]]
        /\ Names \subseteq Entries
    BY DEF IInv, TypeOK, Entries
  <2>6. \A c \in Inodes, m \in Names :
          dirents'[c][m] = IF c = d /\ m = name THEN i ELSE dirents[c][m]
    BY <2>1, <2>3, <2>4, <2>5
  <2>. QED
    BY <2>1, <2>3, <2>4, <2>6, OneMore
<1>. QED
  BY <1>1, <1>2 DEF fn_make, Lose, PrintsOnly, vars, tree

\* mkdir takes one number for one entry, or neither.
LEMMA BalanceMkdir ==
  ASSUME IsFiniteSet(Inodes), IsFiniteSet(Names), IInv, Balance,
         NEW p \in Paths, fn_mkdir(p)
  PROVE  Balance'
<1>. DEFINE d == MkdirParent(p)
<1>1. CASE UNCHANGED << dirents, next_inode_nr >>
  BY <1>1 DEF Balance, Links
<1>2. ASSUME p # << >>, check_dirents(d, Last(p)) = Null, isDirectory(d),
             NEW i \in Inodes, mkdir(d, Last(p), i)
      PROVE  Balance'
  <2>1. d \in Inodes /\ type[d] = "directory"
    BY <1>2 DEF isDirectory
  <2>2. Last(p) \in Names /\ dirents[d][Last(p)] = Absent
    BY <1>2, <2>1, LastIsEntry, MissingIsName
  <2>. DEFINE name == Last(p)
  <2>3. mkdir(d, name, i) /\ name \in Names /\ dirents[d][name] = Absent
    BY <1>2, <2>2
  <2>. HIDE DEF d, name
  <2>4. next_inode_nr' = next_inode_nr + 1
    BY <2>3 DEF mkdir, NewInode
  <2>5. \A c \in Inodes, m \in Names :
          dirents'[c][m] = IF c = d /\ m = name THEN i ELSE dirents[c][m]
    BY <2>1, <2>3, MkdirEntries
  <2>. QED
    BY <2>1, <2>3, <2>4, <2>5, OneMore
<1>. QED
  BY <1>1, <1>2 DEF fn_mkdir, Lose, PrintsOnly, vars, tree

\* At the start there is no named entry and the next number is 2.
LEMMA InitBalance == Init => Balance
<1>. SUFFICES ASSUME Init PROVE Balance
  OBVIOUS
<1>1. \A c \in Inodes, m \in Names : dirents[c][m] = Absent
  <2>1. Names \subseteq Entries /\ "." \notin Names /\ ".." \notin Names
    BY NamesAssumption DEF Entries
  <2>2. \A m \in Names : NoDirents[m] = Absent
    BY <2>1 DEF NoDirents
  <2>. QED
    BY <2>1, <2>2 DEF Init, NoDirents
<1>2. Links = {}
  BY <1>1 DEF Links
<1>. QED
  BY <1>2, FS_EmptySet DEF Init, Balance

\* Every command keeps the balance.
LEMMA NextBalance ==
  ASSUME IsFiniteSet(Inodes), IsFiniteSet(Names), Removable \subseteq Names,
         IInv, Balance, [Next]_vars
  PROVE  Balance'
<1>1. CASE UNCHANGED << dirents, next_inode_nr >>
  BY <1>1 DEF Balance, Links
<1>2. CASE UNCHANGED vars
  BY <1>1, <1>2 DEF vars, tree
<1>3. CASE Lose
  BY <1>1, <1>3 DEF Lose, tree
<1>4. CASE UNCHANGED << tree, cwd >>
  BY <1>1, <1>4 DEF tree
<1>5. ASSUME NEW p \in Paths, fn_cat(p) \/ fn_ls(p) \/ fn_lsr(p) PROVE Balance'
  BY <1>2, <1>3, <1>5 DEF fn_cat, fn_ls, fn_lsr, PrintsOnly
<1>6. CASE fn_ls_cwd \/ fn_pwd \/ fn_comm \/ fn_echo \/ BlankLine
  BY <1>2, <1>3, <1>6 DEF fn_ls_cwd, fn_pwd, fn_comm, fn_echo, BlankLine, PrintsOnly
<1>8. ASSUME NEW n \in Removable, fn_rm(n) PROVE Balance'
  BY <1>8, BalanceRm
<1>9. ASSUME NEW p \in Paths, fn_cd(p) PROVE Balance'
  BY <1>1, <1>9 DEF fn_cd, tree
<1>. QED
  BY <1>2, <1>4, <1>5, <1>6, <1>8, <1>9, SessionSteps, BalanceMake, BalanceMkdir DEF Next

\* A new inode is given a number of 2 or more, and no other number changes.
RootIsOne == nr[Root] = 1 /\ \A i \in Allocated \ {Root} : nr[i] >= 2

LEMMA NewInodeNumber ==
  ASSUME IsFiniteSet(Inodes), IsFiniteSet(Names), IInv, Balance, RootIsOne,
         NEW i \in Inodes, NEW t \in {"plain", "directory"}, NewInode(i, t)
  PROVE  RootIsOne'
<1>1. next_inode_nr \in Int /\ next_inode_nr >= 2
  BY LinksFinite DEF Balance
<1>2. /\ nr \in [Inodes -> Int] /\ type \in [Inodes -> {"free", "plain", "directory"}]
      /\ type[Root] = "directory" /\ Root \in Inodes
  BY InodesAssumption DEF IInv, TypeOK, Dots, Root
<1>3. /\ type[i] = "free" /\ type' = [type EXCEPT ![i] = t]
      /\ nr' = [nr EXCEPT ![i] = next_inode_nr]
  BY DEF NewInode, Fresh
<1>4. i # Root
  BY <1>2, <1>3
<1>5. nr'[Root] = 1
  BY <1>2, <1>3, <1>4 DEF RootIsOne
<1>6. ASSUME NEW j \in Inodes \ {Root}, type'[j] # "free" PROVE nr'[j] >= 2
  <2>1. CASE j = i
    BY <1>1, <1>2, <1>3, <2>1
  <2>2. CASE j # i
    BY <1>2, <1>3, <1>6, <2>2 DEF RootIsOne, Allocated
  <2>. QED
    BY <2>1, <2>2
<1>. QED
  BY <1>5, <1>6 DEF RootIsOne, Allocated

\* Only make and mkdir give out numbers.
LEMMA NextRootIsOne ==
  ASSUME IsFiniteSet(Inodes), IsFiniteSet(Names), IInv, Balance, RootIsOne, [Next]_vars
  PROVE  RootIsOne'
<1>1. CASE UNCHANGED << type, nr >>
  BY <1>1 DEF RootIsOne, Allocated
<1>2. CASE UNCHANGED vars
  BY <1>1, <1>2 DEF vars, tree
<1>3. CASE Lose
  BY <1>1, <1>3 DEF Lose, tree
<1>4. CASE UNCHANGED << tree, cwd >>
  BY <1>1, <1>4 DEF tree
<1>5. ASSUME NEW p \in Paths, fn_cat(p) \/ fn_ls(p) \/ fn_lsr(p) PROVE RootIsOne'
  BY <1>2, <1>3, <1>5 DEF fn_cat, fn_ls, fn_lsr, PrintsOnly
<1>6. CASE fn_ls_cwd \/ fn_pwd \/ fn_comm \/ fn_echo \/ BlankLine
  BY <1>2, <1>3, <1>6 DEF fn_ls_cwd, fn_pwd, fn_comm, fn_echo, BlankLine, PrintsOnly
<1>7. ASSUME NEW n \in Removable, fn_rm(n) PROVE RootIsOne'
  BY <1>1, <1>2, <1>7 DEF fn_rm, PrintsOnly
<1>8. ASSUME NEW p \in Paths, fn_cd(p) PROVE RootIsOne'
  BY <1>1, <1>8 DEF fn_cd, tree
<1>9. ASSUME NEW p \in Paths, NEW w \in Contents, fn_make(p, w) PROVE RootIsOne'
  <2>1. ASSUME NEW i \in Inodes, mkfile(MakeParent(p), Last(p), i, w) PROVE RootIsOne'
    BY <2>1, NewInodeNumber DEF mkfile
  <2>. QED
    BY <1>1, <1>2, <1>3, <1>9, <2>1 DEF fn_make, PrintsOnly
<1>10. ASSUME NEW p \in Paths, fn_mkdir(p) PROVE RootIsOne'
  <2>1. ASSUME NEW i \in Inodes, mkdir(MkdirParent(p), Last(p), i) PROVE RootIsOne'
    BY <2>1, NewInodeNumber DEF mkdir
  <2>. QED
    BY <1>2, <1>3, <1>10, <2>1 DEF fn_mkdir, PrintsOnly
<1>. QED
  BY <1>2, <1>4, <1>5, <1>6, <1>7, <1>8, <1>9, <1>10, SessionSteps DEF Next

\* As long as "." and ".." stay, no sequence of commands, however often it
\* removes, gives the number of the root to another inode: the counter is 2
\* more than the entries that exist, reachable or not (file_sys.cpp:164, 301).
THEOREM RootNumberKept ==
  ASSUME IsFiniteSet(Inodes), IsFiniteSet(Names), Removable \subseteq Names
  PROVE  Spec => []RootNumberAlone
<1>1. Init => Balance /\ RootIsOne
  <2>1. Init => RootIsOne
    BY InodesAssumption DEF Init, RootIsOne, Allocated, Root
  <2>. QED
    BY <2>1, InitBalance
<1>2. IInv /\ Balance /\ RootIsOne /\ [Next]_vars => Balance' /\ RootIsOne'
  BY NextBalance, NextRootIsOne
<1>3. RootIsOne => RootNumberAlone
  BY DEF RootIsOne, RootNumberAlone
<1>. QED
  BY <1>1, <1>2, <1>3, Invariant, PTL DEF Spec

-----------------------------------------------------------------------------
(* Paths from the root *)

\* The entries are the names, "." and "..", which differ.
LEMMA EntriesHaveNames == Names \subseteq Entries /\ "." \in Entries /\ ".." \in Entries
                          /\ "." \notin Names /\ ".." \notin Names /\ "." # ".."
BY NamesAssumption DEF Entries

\* No inode is a null pointer or a missing key.
LEMMA Pointers == Null \notin Inodes /\ Absent \notin Inodes /\ Null # Absent
                  /\ Root \in Inodes /\ Root # Null
BY InodesAssumption DEF Null, Absent, Root

\* Resolve goes down one component at a time.
LEMMA ResolveSteps ==
  ASSUME IInv, NEW p \in Seq(Names)
  PROVE  \E at \in [0 .. Len(p) -> Inodes \cup {Null}] :
           /\ at[0] = Root /\ Resolve(p) = at[Len(p)]
           /\ \A k \in 1 .. Len(p) : at[k] = check_dirents(at[k - 1], p[k])
<1> DEFINE n == Len(p)
           S == Inodes \cup {Null}
           F(g) == g = [k \in 0 .. n |-> IF k = 0 THEN Root ELSE check_dirents(g[k - 1], p[k])]
           step == [q \in Nat \X S |-> IF q[1] \in 1 .. n THEN check_dirents(q[2], p[q[1]]) ELSE Null]
<1>1. n \in Nat /\ \A k \in 1 .. n : p[k] \in Entries
  BY LenProperties, EntriesHaveNames
<1>2. Resolve(p) = (CHOOSE g : F(g))[n]
  BY DEF Resolve
<1> HIDE DEF n
<1>3. \A d \in S, k \in 1 .. n : check_dirents(d, p[k]) \in S
  BY <1>1, CheckedType DEF IInv
<1>4. Root \in S /\ Null \in S
  BY Pointers
<1>5. step \in [Nat \X S -> S]
  BY <1>3, <1>4
<1>6. \A k \in 1 .. n, d \in S : k \in Nat /\ step[<< k, d >>] = check_dirents(d, p[k])
  BY <1>1
<1> HIDE DEF step, S
<1>7. PICK g \in [0 .. n -> S] : Follows(g, Root, n, step)
  BY <1>1, <1>4, <1>5, Recursion
<1>8. F(g)
  <2>1. ASSUME NEW k \in 1 .. n PROVE g[k] = check_dirents(g[k - 1], p[k])
    <3>1. g[k - 1] \in S /\ g[k] = step[<< k, g[k - 1] >>]
      BY <1>1, <1>7 DEF Follows
    <3> QED
      BY <1>6, <3>1
  <2>2. g = [k \in 0 .. n |-> g[k]] /\ g[0] = Root
    BY <1>7 DEF Follows
  <2>3. \A k \in 0 .. n : g[k] = IF k = 0 THEN Root ELSE check_dirents(g[k - 1], p[k])
    BY <1>1, <2>1, <2>2
  <2> QED
    BY <2>2, <2>3
<1> DEFINE at == CHOOSE h : F(h)
<1>9. F(at)
  BY <1>8
<1>10. Resolve(p) = at[n]
  BY <1>2
<1> HIDE DEF at
<1>11. at[0] = Root /\ \A k \in 1 .. n : k - 1 \in 0 .. n /\ at[k] = check_dirents(at[k - 1], p[k])
  BY <1>1, <1>9
<1>12. ASSUME NEW k \in 0 .. n PROVE at[k] \in S
  <2>1. CASE k = 0
    BY <1>4, <1>11, <2>1
  <2>2. CASE k \in 1 .. n
    <3>1. p[k] \in Entries /\ at[k] = check_dirents(at[k - 1], p[k])
      BY <1>1, <1>11, <2>2
    <3> QED
      BY <3>1, CheckedType DEF IInv, S
  <2> QED
    BY <1>1, <2>1, <2>2
<1>13. at \in [0 .. n -> S]
  BY <1>9, <1>12
<1> QED
  BY <1>10, <1>11, <1>13 DEF n, S

\* The empty path leads to the root; a longer one, an entry further.
LEMMA ResolveEmpty ==
  ASSUME IInv
  PROVE  Resolve(<< >>) = Root
<1>1. << >> \in Seq(Names) /\ Len(<< >>) = 0
  OBVIOUS
<1> QED
  BY <1>1, ResolveSteps

\* One component more is one entry further.
LEMMA ResolveAppend ==
  ASSUME IInv, NEW p \in Seq(Names), NEW n \in Names
  PROVE  Resolve(Append(p, n)) = check_dirents(Resolve(p), n)
<1> DEFINE q == Append(p, n)
           m == Len(p)
<1>1. q \in Seq(Names) /\ Len(q) = m + 1 /\ m \in Nat /\ q[m + 1] = n
      /\ \A k \in 1 .. m : q[k] = p[k]
  BY AppendProperties, LenProperties
<1>2. PICK a \in [0 .. m -> Inodes \cup {Null}] :
           /\ a[0] = Root /\ Resolve(p) = a[m]
           /\ \A k \in 1 .. m : a[k] = check_dirents(a[k - 1], p[k])
  BY ResolveSteps
<1>3. PICK b \in [0 .. m + 1 -> Inodes \cup {Null}] :
           /\ b[0] = Root /\ Resolve(q) = b[m + 1]
           /\ \A k \in 1 .. m + 1 : b[k] = check_dirents(b[k - 1], q[k])
  <2> HIDE DEF q, m
  <2>1. \E b \in [0 .. Len(q) -> Inodes \cup {Null}] :
           /\ b[0] = Root /\ Resolve(q) = b[Len(q)]
           /\ \A k \in 1 .. Len(q) : b[k] = check_dirents(b[k - 1], q[k])
    BY <1>1, ResolveSteps
  <2>2. Len(q) = m + 1
    BY <1>1
  <2> QED
    BY <2>1, <2>2, Zenon
<1> HIDE DEF q, m
<1> DEFINE T == {k \in 0 .. m : a[k] = b[k]}
<1>4. 0 \in T
  BY <1>1, <1>2, <1>3
<1>5. ASSUME NEW k \in 0 .. m - 1, k \in T PROVE k + 1 \in T
  <2>1. k + 1 \in 1 .. m /\ k + 1 \in 1 .. m + 1 /\ (k + 1) - 1 = k
    BY <1>1
  <2>2. a[k + 1] = check_dirents(a[k], p[k + 1]) /\ b[k + 1] = check_dirents(b[k], q[k + 1])
    BY <1>2, <1>3, <2>1
  <2> QED
    BY <1>1, <1>5, <2>1, <2>2
<1>6. \A k \in 0 .. m : k \in T
  <2> HIDE DEF T
  <2> QED
    BY <1>1, <1>4, <1>5, InductionTo
<1>7. a[m] = b[m] /\ m + 1 \in 1 .. m + 1 /\ (m + 1) - 1 = m
  BY <1>1, <1>6
<1>8. b[m + 1] = check_dirents(b[m], q[m + 1])
  BY <1>3, <1>7
<1> QED
  BY <1>1, <1>2, <1>3, <1>7, <1>8 DEF q

\* A path leads to an inode or to a null pointer.
LEMMA ResolveType ==
  ASSUME IInv, NEW p \in Seq(Names)
  PROVE  Resolve(p) \in Inodes \cup {Null}
<1>1. PICK at \in [0 .. Len(p) -> Inodes \cup {Null}] : Resolve(p) = at[Len(p)]
  BY ResolveSteps
<1>2. Len(p) \in 0 .. Len(p)
  BY LenProperties
<1> QED
  BY <1>1, <1>2

\* A claim that holds of the root's path and is handed down holds of any path.
LEMMA PathInduction ==
  ASSUME NEW T, << >> \in T,
         \A p \in Seq(Names), n \in Names : p \in T => Append(p, n) \in T
  PROVE  \A p \in Seq(Names) : p \in T
<1> DEFINE U == {k \in Nat : \A p \in Seq(Names) : Len(p) = k => p \in T}
<1>1. 0 \in U
  <2>1. \A p \in Seq(Names) : Len(p) = 0 => p = << >>
    BY EmptySeq
  <2> QED
    BY <2>1
<1>2. ASSUME NEW k \in Nat, k \in U PROVE k + 1 \in U
  <2>1. ASSUME NEW p \in Seq(Names), Len(p) = k + 1 PROVE p \in T
    <3>1. p # << >>
      <4>1. Len(<< >>) = 0 /\ k + 1 # 0
        OBVIOUS
      <4> QED
        BY <2>1, <4>1
    <3>2. PICK q \in Seq(Names), n \in Names : p = Append(q, n)
      BY <3>1, SequenceEmptyOrAppend
    <3>3. Len(q) = k
      <4>1. Len(p) = Len(q) + 1 /\ Len(q) \in Nat
        BY <3>2, AppendProperties, LenProperties
      <4> QED
        BY <2>1, <4>1
    <3> QED
      BY <1>2, <3>2, <3>3
  <2> QED
    BY <2>1
<1>3. \A k \in Nat : k \in U
  <2> HIDE DEF U
  <2> QED
    BY <1>1, <1>2, InductionNat
<1>4. \A p \in Seq(Names) : Len(p) \in Nat
  BY LenProperties
<1> QED
  BY <1>3, <1>4

\* An entry with a name is a link to an inode of its own.
LEMMA ChildLink ==
  ASSUME IInv, NEW d, NEW n \in Names, check_dirents(d, n) # Null
  PROVE  /\ d \in Inodes /\ type[d] = "directory" /\ isDirectory(d)
         /\ dirents[d][n] # Absent /\ check_dirents(d, n) = dirents[d][n]
         /\ check_dirents(d, n) \in Inodes \ {Root} /\ type[check_dirents(d, n)] # "free"
         /\ \A c, m : m \in Names /\ check_dirents(c, m) = check_dirents(d, n) => c = d /\ m = n
<1>1. isDirectory(d) /\ dirents[d][n] # Absent /\ check_dirents(d, n) = dirents[d][n] /\ d \in Inodes
  BY DEF check_dirents, isDirectory
<1>2. dirents[d][n] \in Inodes \ {Root} /\ type[dirents[d][n]] # "free"
  BY <1>1 DEF IInv, OneName
<1>3. ASSUME NEW c, NEW m \in Names, check_dirents(c, m) = check_dirents(d, n) PROVE c = d /\ m = n
  <2>1. isDirectory(c) /\ dirents[c][m] # Absent /\ check_dirents(c, m) = dirents[c][m] /\ c \in Inodes
    BY <1>3 DEF check_dirents, isDirectory
  <2>2. dirents[c][m] = dirents[d][n] /\ OneName
    BY <1>1, <1>3, <2>1 DEF IInv
  <2> QED
    BY <1>1, <2>1, <2>2 DEF OneName
<1> QED
  BY <1>1, <1>2, <1>3 DEF isDirectory

\* No inode has two paths.
LEMMA OnePathEach ==
  ASSUME IInv, NEW p \in Seq(Names), NEW q \in Seq(Names),
         Resolve(p) = Resolve(q), Resolve(p) # Null
  PROVE  p = q
<1> DEFINE T == {r \in Seq(Names) : \A s \in Seq(Names) :
                   Resolve(r) = Resolve(s) /\ Resolve(r) # Null => r = s}
<1>1. << >> \in T
  <2>1. << >> \in Seq(Names) /\ Resolve(<< >>) = Root
    BY ResolveEmpty
  <2>2. ASSUME NEW s \in Seq(Names), s # << >>, Resolve(s) = Root PROVE FALSE
    <3>1. PICK t \in Seq(Names), n \in Names : s = Append(t, n)
      BY <2>2, SequenceEmptyOrAppend
    <3>2. check_dirents(Resolve(t), n) = Root
      BY <2>2, <3>1, ResolveAppend
    <3> QED
      BY <3>2, ChildLink, Pointers
  <2> QED
    BY <2>1, <2>2
<1>2. ASSUME NEW r \in Seq(Names), NEW n \in Names, r \in T PROVE Append(r, n) \in T
  <2>1. Append(r, n) \in Seq(Names) /\ Resolve(Append(r, n)) = check_dirents(Resolve(r), n)
    BY AppendProperties, ResolveAppend
  <2>2. ASSUME NEW s \in Seq(Names), Resolve(Append(r, n)) = Resolve(s), Resolve(s) # Null
        PROVE  Append(r, n) = s
    <3>1. check_dirents(Resolve(r), n) \in Inodes \ {Root}
      BY <2>1, <2>2, ChildLink
    <3>2. s # << >>
      BY <2>1, <2>2, <3>1, ResolveEmpty
    <3>3. PICK t \in Seq(Names), m \in Names : s = Append(t, m)
      BY <3>2, SequenceEmptyOrAppend
    <3>4. check_dirents(Resolve(t), m) = check_dirents(Resolve(r), n)
      BY <2>1, <2>2, <3>3, ResolveAppend
    <3>5. Resolve(t) = Resolve(r) /\ m = n
      <4>1. check_dirents(Resolve(r), n) # Null
        BY <2>1, <2>2
      <4>2. \A c, k : k \in Names /\ check_dirents(c, k) = check_dirents(Resolve(r), n)
                         => c = Resolve(r) /\ k = n
        BY <4>1, ChildLink
      <4> QED
        BY <3>4, <4>2, Zenon
    <3>6. Resolve(r) # Null
      BY <2>1, <2>2, Pointers, ChildLink
    <3> QED
      BY <1>2, <3>3, <3>5, <3>6
  <2> QED
    BY <2>1, <2>2
<1>3. \A r \in Seq(Names) : r \in T
  <2> HIDE DEF T
  <2> QED
    BY <1>1, <1>2, PathInduction
<1> QED
  BY <1>3

\* A path that exists has fewer components than there are inodes, since it
\* passes through each at most once.
LEMMA PathsAreShort ==
  ASSUME IsFiniteSet(Inodes), IInv, NEW p \in Seq(Names), Resolve(p) # Null
  PROVE  Len(p) \in 0 .. Cardinality(Inodes) - 1 /\ Cardinality(Inodes) \in Nat
<1> DEFINE Passed(A, r) ==
             /\ A \subseteq Inodes /\ IsFiniteSet(A) /\ Cardinality(A) = Len(r) + 1
             /\ \A i \in A : \E s \in Seq(Names) : Len(s) <= Len(r) /\ Resolve(s) = i
           T == {r \in Seq(Names) : Resolve(r) # Null => \E A : Passed(A, r)}
<1>1. << >> \in T
  <2>1. << >> \in Seq(Names) /\ Resolve(<< >>) = Root /\ Len(<< >>) = 0 /\ Root \in Inodes
    BY ResolveEmpty, Pointers
  <2>2. IsFiniteSet({Root}) /\ Cardinality({Root}) = 1
    BY FS_Singleton
  <2>3. \A i \in {Root} : \E s \in Seq(Names) : Len(s) <= Len(<< >>) /\ Resolve(s) = i
    <3>1. Len(<< >>) <= Len(<< >>)
      BY <2>1
    <3> QED
      BY <2>1, <3>1
  <2>4. Passed({Root}, << >>)
    <3>1. Cardinality({Root}) = Len(<< >>) + 1 /\ {Root} \subseteq Inodes
      BY <2>1, <2>2
    <3> QED
      BY <2>2, <2>3, <3>1
  <2> QED
    BY <2>1, <2>4
<1>2. ASSUME NEW r \in Seq(Names), NEW n \in Names, r \in T PROVE Append(r, n) \in T
  <2> DEFINE q == Append(r, n)
  <2>1. q \in Seq(Names) /\ Len(q) = Len(r) + 1 /\ Len(r) \in Nat /\ Resolve(q) = check_dirents(Resolve(r), n)
    BY AppendProperties, LenProperties, ResolveAppend
  <2> HIDE DEF q
  <2>2. ASSUME Resolve(q) # Null PROVE \E A : Passed(A, q)
    <3>1. isDirectory(Resolve(r)) /\ Resolve(q) \in Inodes
      BY <2>1, <2>2, ChildLink
    <3>2. Resolve(r) # Null
      BY <3>1, Pointers DEF isDirectory
    <3>3. PICK A : Passed(A, r)
      BY <1>2, <3>2
    <3>4. Resolve(q) \notin A
      <4> SUFFICES ASSUME Resolve(q) \in A PROVE FALSE
        OBVIOUS
      <4>1. PICK s \in Seq(Names) : Len(s) <= Len(r) /\ Resolve(s) = Resolve(q)
        BY <3>3
      <4>2. s = q
        BY <2>1, <2>2, <4>1, OnePathEach
      <4> QED
        BY <2>1, <4>1, <4>2
    <3> DEFINE B == A \cup {Resolve(q)}
    <3>5. IsFiniteSet(B) /\ Cardinality(B) = Cardinality(A) + 1
      BY <3>3, <3>4, FS_AddElement
    <3>6. B \subseteq Inodes /\ Cardinality(B) = Len(q) + 1
      BY <2>1, <3>1, <3>3, <3>5
    <3>7. ASSUME NEW i \in B PROVE \E s \in Seq(Names) : Len(s) <= Len(q) /\ Resolve(s) = i
      <4>1. CASE i = Resolve(q)
        BY <2>1, <4>1
      <4>2. CASE i \in A
        <5>1. PICK s \in Seq(Names) : Len(s) <= Len(r) /\ Resolve(s) = i
          BY <3>3, <4>2
        <5>2. Len(s) \in Nat
          BY LenProperties
        <5>3. Len(s) <= Len(q)
          BY <2>1, <5>1, <5>2
        <5> QED
          BY <5>1, <5>3
      <4> QED
        BY <4>1, <4>2
    <3>8. Passed(B, q)
      <4> HIDE DEF B
      <4> QED
        BY <3>5, <3>6, <3>7
    <3> QED
      BY <3>8
  <2> QED
    BY <2>1, <2>2 DEF q
<1>3. p \in T
  <2> HIDE DEF T
  <2> QED
    BY <1>1, <1>2, PathInduction
<1>4. PICK A : Passed(A, p)
  BY <1>3
<1>5. Cardinality(A) <= Cardinality(Inodes) /\ Cardinality(Inodes) \in Nat
  BY <1>4, FS_Subset, FS_CardinalityType
<1>6. Len(p) \in Nat
  BY LenProperties
<1> QED
  BY <1>4, <1>5, <1>6

\* A link is what check_dirents finds.
LEMMA LinkFound ==
  ASSUME IInv, NEW d \in Inodes, NEW n \in Names, dirents[d][n] # Absent
  PROVE  check_dirents(d, n) = dirents[d][n] /\ check_dirents(d, n) # Null
         /\ isDirectory(d) /\ dirents[d][n] \in Inodes
<1>1. dirents[d][n] \in Inodes
  BY DEF IInv, OneName
<1>2. type[d] = "directory"
  <2>1. NoDirents[n] = Absent
    BY EntriesHaveNames DEF NoDirents
  <2> QED
    BY <2>1 DEF IInv, TypeOK, Directories
<1> QED
  BY <1>1, <1>2, Pointers DEF check_dirents, isDirectory

\* A set of inodes and those one link further.
Below(A) == A \cup {Target(l) : l \in {m \in Links : m[1] \in A}}

\* The inodes that some path of at most k components leads to.
Within(k) == {i \in Inodes : \E p \in Seq(Names) : Len(p) <= k /\ Resolve(p) = i}

\* One component more reaches what one link more does.
LEMMA WithinNext ==
  ASSUME IInv, NEW k \in Nat
  PROVE  Within(k + 1) = Below(Within(k))
<1>1. ASSUME NEW i \in Within(k + 1), i \notin Within(k)
      PROVE  \E l \in Links : l[1] \in Within(k) /\ Target(l) = i
  <2>1. PICK p \in Seq(Names) : Len(p) <= k + 1 /\ Resolve(p) = i /\ i \in Inodes
    BY <1>1 DEF Within
  <2>2. Len(p) = k + 1 /\ p # << >>
    <3>1. ~ (Len(p) <= k) /\ Len(p) \in Nat /\ Len(<< >>) = 0
      BY <1>1, <2>1, LenProperties DEF Within
    <3> QED
      BY <2>1, <3>1
  <2>3. PICK q \in Seq(Names), n \in Names : p = Append(q, n)
    BY <2>2, SequenceEmptyOrAppend
  <2>4. Len(q) <= k
    <3>1. Len(p) = Len(q) + 1 /\ Len(q) \in Nat
      BY <2>3, AppendProperties, LenProperties
    <3> QED
      BY <2>2, <3>1
  <2>5. check_dirents(Resolve(q), n) = i /\ i # Null
    BY <2>1, <2>3, ResolveAppend, Pointers
  <2>6. Resolve(q) \in Inodes /\ dirents[Resolve(q)][n] # Absent /\ dirents[Resolve(q)][n] = i
    BY <2>5, ChildLink
  <2>7. << Resolve(q), n >> \in Links /\ Target(<< Resolve(q), n >>) = i
    BY <2>6 DEF Links, Target
  <2>8. Resolve(q) \in Within(k)
    BY <2>4, <2>6 DEF Within
  <2> QED
    BY <2>7, <2>8
<1>2. ASSUME NEW l \in Links, l[1] \in Within(k) PROVE Target(l) \in Within(k + 1)
  <2>1. l[1] \in Inodes /\ l[2] \in Names /\ dirents[l[1]][l[2]] # Absent
    BY DEF Links
  <2>2. PICK q \in Seq(Names) : Len(q) <= k /\ Resolve(q) = l[1]
    BY <1>2 DEF Within
  <2>3. Resolve(Append(q, l[2])) = Target(l) /\ Target(l) \in Inodes
    BY <2>1, <2>2, ResolveAppend, LinkFound DEF Target
  <2>4. Append(q, l[2]) \in Seq(Names) /\ Len(Append(q, l[2])) = Len(q) + 1 /\ Len(q) \in Nat
    BY <2>1, AppendProperties, LenProperties
  <2>5. Len(Append(q, l[2])) <= k + 1
    BY <2>2, <2>4
  <2> QED
    BY <2>3, <2>4, <2>5 DEF Within
<1>3. ASSUME NEW i \in Within(k) PROVE i \in Within(k + 1)
  <2>1. \A p \in Seq(Names) : Len(p) <= k => Len(p) <= k + 1
    BY LenProperties
  <2> QED
    BY <1>3, <2>1 DEF Within
<1> QED
  BY <1>1, <1>2, <1>3 DEF Below

\* Attached is where the paths lead.
LEMMA AttachedIs ==
  ASSUME IsFiniteSet(Inodes), IInv
  PROVE  Attached = {i \in Inodes : \E p \in Seq(Names) : Resolve(p) = i}
<1> DEFINE n == Cardinality(Inodes)
           S == SUBSET Inodes
           F(g) == g = [k \in 0 .. n |-> IF k = 0 THEN {Root} ELSE Below(g[k - 1])]
           step == [q \in Nat \X S |-> Below(q[2])]
<1>1. n \in Nat
  BY FS_CardinalityType
<1>2. Attached = (CHOOSE g : F(g))[n]
  BY DEF Attached, Below
<1>3. \A l \in Links : Target(l) \in Inodes
  BY LinkFound DEF Links, Target
<1>4. {Root} \in S /\ \A A \in S : Below(A) \in S
  BY <1>3, Pointers DEF Below
<1> HIDE DEF n
<1>5. step \in [Nat \X S -> S] /\ \A k \in Nat, A \in S : step[<< k, A >>] = Below(A)
  BY <1>4
<1> HIDE DEF step, S
<1>6. PICK g \in [0 .. n -> S] : Follows(g, {Root}, n, step)
  BY <1>1, <1>4, <1>5, Recursion
<1>7. F(g)
  <2>1. \A k \in 1 .. n : g[k] = Below(g[k - 1])
    <3> TAKE k \in 1 .. n
    <3>1. g[k - 1] \in S /\ g[k] = step[<< k, g[k - 1] >>] /\ k \in Nat
      BY <1>1, <1>6 DEF Follows
    <3> QED
      BY <1>5, <3>1
  <2>2. g = [k \in 0 .. n |-> g[k]] /\ g[0] = {Root}
    BY <1>6 DEF Follows
  <2>3. \A k \in 0 .. n : g[k] = IF k = 0 THEN {Root} ELSE Below(g[k - 1])
    BY <1>1, <2>1, <2>2
  <2> QED
    BY <2>2, <2>3
<1> DEFINE at == CHOOSE h : F(h)
<1>8. F(at) /\ Attached = at[n]
  BY <1>2, <1>7
<1> HIDE DEF at
<1>9. at[0] = {Root} /\ \A k \in 0 .. n - 1 : at[k + 1] = Below(at[k])
  <2>1. at = [k \in 0 .. n |-> IF k = 0 THEN {Root} ELSE Below(at[k - 1])]
    BY <1>8
  <2>2. \A k \in 0 .. n : at[k] = IF k = 0 THEN {Root} ELSE Below(at[k - 1])
    BY <2>1, Zenon
  <2>3. 0 \in 0 .. n
    BY <1>1
  <2>4. ASSUME NEW k \in 0 .. n - 1 PROVE at[k + 1] = Below(at[k])
    <3>1. k + 1 \in 0 .. n /\ k + 1 # 0 /\ (k + 1) - 1 = k
      BY <1>1
    <3>2. at[k + 1] = Below(at[(k + 1) - 1])
      BY <2>2, <3>1, Zenon
    <3> QED
      BY <3>1, <3>2
  <2> QED
    BY <2>2, <2>3, <2>4, Zenon
<1> DEFINE T == {k \in 0 .. n : at[k] = Within(k)}
<1>10. 0 \in T
  <2>1. Within(0) = {Root}
    <3>1. \A p \in Seq(Names) : Len(p) <= 0 <=> p = << >>
      BY LenProperties, EmptySeq
    <3>2. << >> \in Seq(Names) /\ Resolve(<< >>) = Root /\ Root \in Inodes
      BY ResolveEmpty, Pointers
    <3>3. \A i : i \in Within(0) <=> i = Root
      BY <3>1, <3>2, Zenon DEF Within
    <3> QED
      BY <3>3
  <2>2. 0 \in 0 .. n
    BY <1>1
  <2> QED
    BY <1>9, <2>1, <2>2
<1>11. ASSUME NEW k \in 0 .. n - 1, k \in T PROVE k + 1 \in T
  <2>1. k \in Nat /\ k + 1 \in 0 .. n
    BY <1>1
  <2>2. Within(k + 1) = Below(Within(k))
    BY <2>1, WithinNext
  <2>3. at[k + 1] = Below(at[k]) /\ at[k] = Within(k)
    BY <1>9, <1>11
  <2> QED
    BY <2>1, <2>2, <2>3
<1>12. n \in T
  <2> HIDE DEF T
  <2>1. \A k \in 0 .. n : k \in T
    BY <1>1, <1>10, <1>11, InductionTo
  <2> QED
    BY <1>1, <2>1
<1>13. ASSUME NEW p \in Seq(Names), Resolve(p) \in Inodes PROVE Len(p) <= n
  <2>1. Len(p) \in 0 .. n - 1
    BY <1>13, PathsAreShort, Pointers DEF n
  <2> QED
    BY <1>1, <2>1
<1> QED
  BY <1>8, <1>12, <1>13 DEF Within

\* The inodes that the path p passes through.
Stations(p, at) ==
  /\ at \in [0 .. Len(p) -> Inodes]
  /\ at[0] = Root /\ at[Len(p)] = Resolve(p)
  /\ \A k \in 1 .. Len(p) : isDirectory(at[k - 1]) /\ dirents[at[k - 1]][p[k]] = at[k]
  /\ \A k \in 0 .. Len(p) : \E s \in Seq(Names) : Len(s) = k /\ Resolve(s) = at[k]

\* A path that exists passes through inodes from the root on.
LEMMA StationsExist ==
  ASSUME IInv, NEW p \in Seq(Names), Resolve(p) # Null
  PROVE  \E at : Stations(p, at)
<1> DEFINE T == {r \in Seq(Names) : Resolve(r) # Null => \E at : Stations(r, at)}
<1>1. << >> \in T
  <2>1. << >> \in Seq(Names) /\ Resolve(<< >>) = Root /\ Len(<< >>) = 0 /\ Root \in Inodes
    BY ResolveEmpty, Pointers
  <2> DEFINE at == [k \in 0 .. 0 |-> Root]
  <2>2. at \in [0 .. 0 -> Inodes] /\ at[0] = Root /\ \A k \in 0 .. 0 : k = 0
    BY <2>1
  <2>3. Stations(<< >>, at)
    <3> HIDE DEF at
    <3>1. \A k \in 0 .. Len(<< >>) : \E s \in Seq(Names) : Len(s) = k /\ Resolve(s) = at[k]
      BY <2>1, <2>2
    <3>2. at \in [0 .. Len(<< >>) -> Inodes] /\ at[Len(<< >>)] = Resolve(<< >>)
      BY <2>1, <2>2
    <3>3. \A k \in 1 .. Len(<< >>) : FALSE
      BY <2>1
    <3> QED
      BY <2>2, <3>1, <3>2, <3>3 DEF Stations
  <2> QED
    BY <2>1, <2>3
<1>2. ASSUME NEW r \in Seq(Names), NEW n \in Names, r \in T PROVE Append(r, n) \in T
  <2> DEFINE q == Append(r, n)
             m == Len(r)
             e == Resolve(q)
  <2>1. q \in Seq(Names) /\ Len(q) = m + 1 /\ m \in Nat /\ e = check_dirents(Resolve(r), n)
        /\ q[m + 1] = n /\ \A k \in 1 .. m : q[k] = r[k]
    BY AppendProperties, LenProperties, ResolveAppend
  <2>2. ASSUME e # Null PROVE \E at : Stations(q, at)
    <3>1. isDirectory(Resolve(r)) /\ e \in Inodes /\ dirents[Resolve(r)][n] = e
      BY <2>1, <2>2, ChildLink
    <3>2. Resolve(r) # Null
      BY <3>1, Pointers DEF isDirectory
    <3>3. PICK at : Stations(r, at)
      BY <1>2, <3>2
    <3>4. /\ at \in [0 .. m -> Inodes] /\ at[0] = Root /\ at[m] = Resolve(r)
          /\ \A k \in 1 .. m : isDirectory(at[k - 1]) /\ dirents[at[k - 1]][r[k]] = at[k]
          /\ \A k \in 0 .. m : \E s \in Seq(Names) : Len(s) = k /\ Resolve(s) = at[k]
      BY <3>3 DEF Stations
    <3> DEFINE b == [k \in 0 .. m + 1 |-> IF k = m + 1 THEN e ELSE at[k]]
    <3> HIDE DEF q, m, e
    <3>5. /\ b \in [0 .. m + 1 -> Inodes]
          /\ b[0] = Root /\ b[m + 1] = e /\ \A k \in 0 .. m : b[k] = at[k]
      BY <2>1, <3>1, <3>4
    <3> HIDE DEF b
    <3>6. ASSUME NEW k \in 1 .. m + 1
          PROVE  isDirectory(b[k - 1]) /\ dirents[b[k - 1]][q[k]] = b[k]
      <4>1. CASE k = m + 1
        <5>1. k - 1 = m /\ m \in 0 .. m
          BY <2>1, <4>1
        <5> QED
          BY <2>1, <3>1, <3>4, <3>5, <4>1, <5>1
      <4>2. CASE k \in 1 .. m
        <5>1. k - 1 \in 0 .. m /\ k \in 0 .. m
          BY <2>1, <4>2
        <5> QED
          BY <2>1, <3>4, <3>5, <4>2, <5>1
      <4> QED
        BY <2>1, <4>1, <4>2
    <3>7. ASSUME NEW k \in 0 .. m + 1
          PROVE  \E s \in Seq(Names) : Len(s) = k /\ Resolve(s) = b[k]
      <4>1. CASE k = m + 1
        BY <2>1, <3>5, <4>1 DEF e
      <4>2. CASE k \in 0 .. m
        BY <3>4, <3>5, <4>2
      <4> QED
        BY <2>1, <4>1, <4>2
    <3>8. Stations(q, b)
      BY <2>1, <3>5, <3>6, <3>7 DEF Stations, e
    <3> QED
      BY <3>8
  <2> QED
    BY <2>1, <2>2
<1>3. p \in T
  <2> HIDE DEF T
  <2> QED
    BY <1>1, <1>2, PathInduction
<1> QED
  BY <1>3

\* No inode is passed through twice.
LEMMA StationsDiffer ==
  ASSUME IInv, NEW p \in Seq(Names), NEW at, Stations(p, at),
         NEW j \in 0 .. Len(p), NEW k \in 0 .. Len(p), at[j] = at[k]
  PROVE  j = k
<1>1. PICK s \in Seq(Names) : Len(s) = j /\ Resolve(s) = at[j]
  BY DEF Stations
<1>2. PICK t \in Seq(Names) : Len(t) = k /\ Resolve(t) = at[k]
  BY DEF Stations
<1>3. at[j] # Null
  BY Pointers DEF Stations
<1>4. s = t
  BY <1>1, <1>2, <1>3, OnePathEach
<1> QED
  BY <1>1, <1>2, <1>4

\* Climb goes up from d by "..".
LEMMA ClimbSteps ==
  ASSUME IsFiniteSet(Inodes), IInv, NEW d \in Inodes
  PROVE  /\ Climb(d) = [k \in 0 .. Cardinality(Inodes) |-> Climb(d)[k]]
         /\ Climb(d)[0] = d
         /\ \A k \in 1 .. Cardinality(Inodes) : Climb(d)[k] = Up(Climb(d)[k - 1])
<1> DEFINE n == Cardinality(Inodes)
           S == Inodes \cup {Null}
           F(g) == g = [k \in 0 .. n |-> IF k = 0 THEN d ELSE Up(g[k - 1])]
           step == [q \in Nat \X S |-> Up(q[2])]
<1>1. n \in Nat
  BY FS_CardinalityType
<1>2. Climb(d) = (CHOOSE g : F(g))
  BY DEF Climb
<1> HIDE DEF n
<1>3. \A i \in S : Up(i) \in S
  <2>1. \A i \in Inodes : dirents[i][".."] \in S \cup {Absent}
    BY EntriesHaveNames DEF IInv, TypeOK
  <2> QED
    BY <2>1 DEF Up, dotdot
<1>4. step \in [Nat \X S -> S] /\ \A k \in Nat, i \in S : step[<< k, i >>] = Up(i)
  BY <1>3
<1>5. d \in S
  OBVIOUS
<1> HIDE DEF step, S
<1>6. PICK g \in [0 .. n -> S] : Follows(g, d, n, step)
  BY <1>1, <1>4, <1>5, Recursion
<1>7. F(g)
  <2>1. \A k \in 1 .. n : g[k] = Up(g[k - 1])
    <3> TAKE k \in 1 .. n
    <3>1. g[k - 1] \in S /\ g[k] = step[<< k, g[k - 1] >>] /\ k \in Nat
      BY <1>1, <1>6 DEF Follows
    <3> QED
      BY <1>4, <3>1
  <2>2. g = [k \in 0 .. n |-> g[k]] /\ g[0] = d
    BY <1>6 DEF Follows
  <2>3. \A k \in 0 .. n : g[k] = IF k = 0 THEN d ELSE Up(g[k - 1])
    <3> TAKE k \in 0 .. n
    <3>1. CASE k = 0
      BY <2>2, <3>1
    <3>2. CASE k # 0
      <4>1. k \in 1 .. n
        BY <1>1, <3>2
      <4> QED
        BY <2>1, <3>2, <4>1
    <3> QED
      BY <3>1, <3>2
  <2> QED
    BY <2>2, <2>3
<1> DEFINE c == Climb(d)
<1>8. c = [k \in 0 .. n |-> IF k = 0 THEN d ELSE Up(c[k - 1])]
  <2>1. F(c)
    BY <1>2, <1>7, Zenon
  <2> QED
    BY <2>1, Zenon
<1> HIDE DEF c
<1>9. \A k \in 0 .. n : c[k] = IF k = 0 THEN d ELSE Up(c[k - 1])
  BY <1>8, Zenon
<1>10. c = [k \in 0 .. n |-> c[k]]
  <2>1. \E h : c = [k \in 0 .. n |-> h[k]]
    <3>1. c = [k \in 0 .. n |-> [i \in 0 .. n |-> IF i = 0 THEN d ELSE Up(c[i - 1])][k]]
      BY <1>8
    <3> QED
      BY <3>1
  <2> QED
    BY <2>1
<1>11. 0 \in 0 .. n /\ \A k \in 1 .. n : k \in 0 .. n /\ k # 0
  BY <1>1
<1> QED
  BY <1>9, <1>10, <1>11 DEF c, n

\* The way up from a directory passes through the stations of its path, and
\* get_path collects that path.
LEMMA ClimbsBack ==
  ASSUME IsFiniteSet(Inodes), IInv, NEW p \in Seq(Names), isDirectory(Resolve(p))
  PROVE  /\ ReachesRoot(Resolve(p))
         /\ get_path(Resolve(p)) = [j \in 1 .. Len(p) |-> {p[j]}]
         /\ PathOf(Resolve(p)) = p
<1> DEFINE d == Resolve(p)
           m == Len(p)
           N == Cardinality(Inodes)
           c == Climb(d)
<1>1. d \in Inodes /\ d # Null
  BY Pointers DEF isDirectory
<1>2. m \in Nat /\ N \in Nat /\ m \in 0 .. N - 1
  BY <1>1, PathsAreShort, LenProperties
<1>3. PICK at : Stations(p, at)
  BY <1>1, StationsExist
<1>4. /\ at \in [0 .. m -> Inodes] /\ at[0] = Root /\ at[m] = d
      /\ \A k \in 1 .. m : isDirectory(at[k - 1]) /\ dirents[at[k - 1]][p[k]] = at[k]
  BY <1>3 DEF Stations
<1>5. \A j, k \in 0 .. m : at[j] = at[k] => j = k
  BY <1>3, StationsDiffer
<1>6. c = [k \in 0 .. N |-> c[k]] /\ c[0] = d /\ \A k \in 1 .. N : c[k] = Up(c[k - 1])
  BY <1>1, ClimbSteps
<1>7. \A k \in 1 .. m : p[k] \in Names
  BY LenProperties
<1>8. \A k \in 0 .. m : type[at[k]] = "directory" /\ at[k] \in Inodes
  <2> TAKE k \in 0 .. m
  <2>1. CASE k = m
    BY <1>1, <1>4, <2>1 DEF isDirectory
  <2>2. CASE k # m
    <3>1. k + 1 \in 1 .. m /\ (k + 1) - 1 = k
      BY <1>2, <2>2
    <3> QED
      BY <1>4, <3>1 DEF isDirectory
  <2> QED
    BY <2>1, <2>2
<1> HIDE DEF d, m, N, c
<1>9. \A k \in 1 .. m : Up(at[k]) = at[k - 1] /\ dirents[at[k]][".."] = at[k - 1]
  <2> TAKE k \in 1 .. m
  <2>1. k \in 0 .. m /\ k - 1 \in 0 .. m /\ 0 \in 0 .. m /\ k # 0
    BY <1>2
  <2>2. /\ dirents[at[k - 1]][p[k]] = at[k] /\ at[k] # Absent /\ at[k - 1] # Absent
        /\ type[at[k]] = "directory" /\ p[k] \in Names /\ at[k - 1] \in Inodes
    BY <1>4, <1>7, <1>8, <2>1, Pointers
  <2>3. dirents[at[k]][".."] = at[k - 1]
    BY <2>2 DEF IInv, Dots
  <2>4. at[k] # Root /\ at[k] # Null
    BY <1>4, <1>5, <1>8, <2>1, Pointers
  <2> QED
    BY <2>2, <2>3, <2>4 DEF Up, dotdot
<1>10. \A k \in 0 .. m : c[k] = at[m - k]
  <2> DEFINE T == {k \in 0 .. m : c[k] = at[m - k]}
  <2>1. 0 \in T
    <3>1. m - 0 = m /\ 0 \in 0 .. m
      BY <1>2
    <3> QED
      BY <1>4, <1>6, <3>1
  <2>2. ASSUME NEW k \in 0 .. m - 1, k \in T PROVE k + 1 \in T
    <3>1. k + 1 \in 1 .. N /\ k + 1 \in 0 .. m /\ m - k \in 1 .. m /\ (k + 1) - 1 = k
          /\ (m - k) - 1 = m - (k + 1)
      BY <1>2
    <3>2. c[k + 1] = Up(c[k]) /\ c[k] = at[m - k]
      BY <1>6, <2>2, <3>1
    <3>3. Up(at[m - k]) = at[m - (k + 1)]
      BY <1>9, <3>1
    <3> QED
      BY <3>1, <3>2, <3>3
  <2> HIDE DEF T
  <2>3. \A k \in 0 .. m : k \in T
    BY <1>2, <2>1, <2>2, InductionTo
  <2> QED
    BY <2>3 DEF T
<1>11. c[m] = Root /\ \A j \in 0 .. m - 1 : c[j] # Root
  <2>1. m \in 0 .. m /\ m - m = 0
    BY <1>2
  <2>2. \A j \in 0 .. m - 1 : j \in 0 .. m /\ m - j \in 0 .. m /\ 0 \in 0 .. m /\ m - j # 0
    BY <1>2
  <2>3. c[m] = Root
    BY <1>4, <1>10, <2>1
  <2>4. ASSUME NEW j \in 0 .. m - 1 PROVE c[j] # Root
    <3>1. c[j] = at[m - j] /\ at[m - j] # at[0]
      BY <1>5, <1>10, <2>2
    <3> QED
      BY <1>4, <3>1
  <2> QED
    BY <2>3, <2>4
<1>12. DOMAIN c = 0 .. N
  BY <1>6
<1>13. ReachesRoot(d)
  <2>1. m \in DOMAIN c /\ c[m] = Root
    BY <1>2, <1>11, <1>12
  <2> QED
    BY <2>1 DEF ReachesRoot, c
<1> DEFINE top == CHOOSE k \in DOMAIN c : c[k] = Root /\ \A j \in 0 .. (k - 1) : c[j] # Root
<1>14. top = m
  <2>1. m \in DOMAIN c /\ c[m] = Root /\ \A j \in 0 .. (m - 1) : c[j] # Root
    BY <1>2, <1>11, <1>12
  <2>2. top \in DOMAIN c /\ c[top] = Root /\ \A j \in 0 .. (top - 1) : c[j] # Root
    BY <2>1, Zenon
  <2> HIDE DEF top
  <2>3. top \in Nat /\ ~ (m \in 0 .. (top - 1)) /\ ~ (top \in 0 .. (m - 1))
    BY <1>2, <1>11, <1>12, <2>1, <2>2
  <2> QED
    BY <1>2, <2>3
<1> DEFINE names(k) == {n \in Entries : dirents[c[k + 1]][n] = c[k]}
<1>15. get_path(d) = [j \in 1 .. top |-> names(top - j)]
  BY DEF get_path, c
<1> HIDE DEF top
<1>16. \A j \in 1 .. m : names(m - j) = {p[j]}
  <2> TAKE j \in 1 .. m
  <2>1. m - j \in 0 .. m /\ (m - j) + 1 \in 0 .. m /\ m - (m - j) = j /\ m - ((m - j) + 1) = j - 1
        /\ j - 1 \in 0 .. m /\ j \in 0 .. m /\ j # j - 1
    BY <1>2
  <2>2. c[m - j] = at[j] /\ c[(m - j) + 1] = at[j - 1]
    BY <1>10, <2>1
  <2> DEFINE e == at[j - 1]
  <2>3. /\ e \in Inodes /\ type[e] = "directory" /\ dirents[e][p[j]] = at[j] /\ p[j] \in Names
        /\ at[j] \in Inodes /\ at[j] # e /\ at[j] # Absent
    BY <1>4, <1>5, <1>7, <1>8, <2>1, Pointers
  <2>4. dirents[e]["."] # at[j]
    BY <2>3 DEF IInv, Dots
  <2>5. dirents[e][".."] # at[j]
    <3>1. CASE j = 1
      <4>1. e = Root
        BY <1>4, <3>1
      <4> QED
        BY <2>3, <4>1 DEF IInv, Dots
    <3>2. CASE j # 1
      <4>1. j - 1 \in 1 .. m /\ (j - 1) - 1 \in 0 .. m /\ (j - 1) - 1 # j
        BY <1>2, <3>2
      <4>2. dirents[e][".."] = at[(j - 1) - 1]
        BY <1>9, <4>1
      <4> QED
        BY <1>5, <2>1, <4>1, <4>2
    <3> QED
      BY <3>1, <3>2
  <2> HIDE DEF e
  <2>6. \A n \in Names : dirents[e][n] = at[j] => n = p[j]
    BY <2>3 DEF IInv, OneName
  <2>7. \A n \in Entries : dirents[e][n] = at[j] <=> n = p[j]
    BY <2>3, <2>4, <2>5, <2>6, EntriesHaveNames DEF Entries
  <2>8. names(m - j) = {n \in Entries : dirents[e][n] = at[j]}
    BY <2>2 DEF e
  <2> QED
    BY <2>3, <2>7, <2>8, EntriesHaveNames
<1>17. get_path(d) = [j \in 1 .. m |-> {p[j]}]
  <2>1. get_path(d) = [j \in 1 .. m |-> names(m - j)]
    BY <1>14, <1>15
  <2> HIDE DEF names
  <2> QED
    BY <1>16, <2>1
<1>18. PathOf(d) = p
  <2>1. PathOf(d) = [j \in 1 .. m |-> CHOOSE n \in {p[j]} : TRUE]
    BY <1>17 DEF PathOf
  <2>2. \A j \in 1 .. m : (CHOOSE n \in {p[j]} : TRUE) = p[j]
    OBVIOUS
  <2>3. PathOf(d) = [j \in 1 .. m |-> p[j]]
    BY <2>1, <2>2
  <2>4. p = [j \in 1 .. m |-> p[j]]
    BY LenProperties DEF m
  <2> QED
    BY <2>3, <2>4
<1> QED
  BY <1>13, <1>17, <1>18 DEF d, m

\* What PathLeadsBack says, of every directory that is attached.
LEMMA LeadsBack ==
  ASSUME IsFiniteSet(Inodes), IInv, cwd \in Attached
  PROVE  PathLeadsBack
<1>1. ASSUME NEW d \in (Directories \cap Attached) \cup {cwd}
      PROVE  /\ ReachesRoot(d)
             /\ \A j \in DOMAIN get_path(d) : Cardinality(get_path(d)[j]) = 1
             /\ Resolve(PathOf(d)) = d
  <2>1. d \in Directories /\ d \in Attached
    BY <1>1 DEF IInv, TypeOK
  <2>2. PICK p \in Seq(Names) : Resolve(p) = d
    BY <2>1, AttachedIs
  <2>3. isDirectory(d)
    BY <2>1 DEF Directories, isDirectory
  <2>4. ReachesRoot(d) /\ get_path(d) = [j \in 1 .. Len(p) |-> {p[j]}] /\ PathOf(d) = p
    BY <2>2, <2>3, ClimbsBack
  <2>5. ASSUME NEW j \in DOMAIN get_path(d) PROVE Cardinality(get_path(d)[j]) = 1
    <3>1. get_path(d)[j] = {p[j]}
      BY <2>4, <2>5
    <3> QED
      BY <3>1, FS_Singleton
  <2> QED
    BY <2>2, <2>4, <2>5
<1> QED
  BY <1>1 DEF PathLeadsBack

-----------------------------------------------------------------------------
(* The inodes that are attached *)

\* Attached holds the root and is the least set that links do not lead out of.
Closed(A) == \A d \in A \cap Inodes, n \in Names : dirents[d][n] # Absent => dirents[d][n] \in A
AttachedLeast ==
  /\ Root \in Attached /\ Attached \subseteq Inodes /\ Closed(Attached)
  /\ \A A \in SUBSET Inodes : Root \in A /\ Closed(A) => Attached \subseteq A

\* Attached is this least set.
LEMMA AttachedIsLeast ==
  ASSUME IsFiniteSet(Inodes), IInv
  PROVE  AttachedLeast
<1>1. \A i : i \in Attached <=> i \in Inodes /\ \E p \in Seq(Names) : Resolve(p) = i
  BY AttachedIs
<1>2. Root \in Attached
  <2>1. << >> \in Seq(Names)
    OBVIOUS
  <2> QED
    BY <1>1, <2>1, ResolveEmpty, Pointers
<1>3. Closed(Attached)
  <2> SUFFICES ASSUME NEW d \in Attached \cap Inodes, NEW n \in Names, dirents[d][n] # Absent
               PROVE  dirents[d][n] \in Attached
    BY DEF Closed
  <2>1. PICK p \in Seq(Names) : Resolve(p) = d
    BY <1>1
  <2>2. Append(p, n) \in Seq(Names) /\ Resolve(Append(p, n)) = check_dirents(d, n)
    BY <2>1, AppendProperties, ResolveAppend
  <2> QED
    BY <1>1, <2>2, LinkFound
<1>4. ASSUME NEW A \in SUBSET Inodes, Root \in A, Closed(A) PROVE Attached \subseteq A
  <2> DEFINE T == {p \in Seq(Names) : Resolve(p) # Null => Resolve(p) \in A}
  <2>1. << >> \in T
    BY <1>4, ResolveEmpty
  <2>2. ASSUME NEW p \in Seq(Names), NEW n \in Names, p \in T PROVE Append(p, n) \in T
    <3>1. Append(p, n) \in Seq(Names) /\ Resolve(Append(p, n)) = check_dirents(Resolve(p), n)
      BY AppendProperties, ResolveAppend
    <3>2. ASSUME check_dirents(Resolve(p), n) # Null PROVE check_dirents(Resolve(p), n) \in A
      <4>1. Resolve(p) \in Inodes /\ dirents[Resolve(p)][n] # Absent
            /\ check_dirents(Resolve(p), n) = dirents[Resolve(p)][n]
        BY <3>2, ChildLink
      <4>2. Resolve(p) \in A
        BY <2>2, <4>1, Pointers
      <4> QED
        BY <1>4, <4>1, <4>2 DEF Closed
    <3> QED
      BY <3>1, <3>2
  <2>3. \A p \in Seq(Names) : p \in T
    <3> HIDE DEF T
    <3> QED
      BY <2>1, <2>2, PathInduction
  <2> QED
    BY <1>1, <2>3, Pointers
<1> QED
  BY <1>1, <1>2, <1>3, <1>4 DEF AttachedLeast

\* What holds an attached inode is attached: the root is held by nothing, and
\* any other inode by one directory.
LEMMA HolderAttached ==
  ASSUME IsFiniteSet(Inodes), IInv, NEW d \in Inodes, NEW n \in Names,
         dirents[d][n] # Absent, dirents[d][n] \in Attached
  PROVE  d \in Attached
<1> SUFFICES ASSUME d \notin Attached PROVE FALSE
  OBVIOUS
<1> DEFINE i == dirents[d][n]
           A == Attached \ {i}
<1>1. AttachedLeast
  BY AttachedIsLeast
<1>2. i # Root /\ \A c \in Inodes, m \in Names : dirents[c][m] = i => c = d
  BY DEF IInv, OneName
<1>3. ASSUME NEW c \in A \cap Inodes, NEW m \in Names, dirents[c][m] # Absent
      PROVE  dirents[c][m] \in A
  BY <1>1, <1>2, <1>3 DEF AttachedLeast, Closed
<1>4. Root \in A /\ Closed(A) /\ A \in SUBSET Inodes
  BY <1>1, <1>2, <1>3 DEF AttachedLeast, Closed
<1>5. Attached \subseteq A
  BY <1>1, <1>4 DEF AttachedLeast
<1> QED
  BY <1>5

\* Every attached inode but the root is held by an attached one.
LEMMA HeldByAttached ==
  ASSUME IsFiniteSet(Inodes), IInv, NEW i \in Attached, i # Root
  PROVE  \E d \in Attached, n \in Names : dirents[d][n] # Absent /\ dirents[d][n] = i
<1> SUFFICES ASSUME \A d \in Attached, n \in Names : dirents[d][n] # Absent => dirents[d][n] # i
             PROVE  FALSE
  OBVIOUS
<1> DEFINE A == Attached \ {i}
<1>1. AttachedLeast
  BY AttachedIsLeast
<1>2. Root \in A /\ A \in SUBSET Inodes
  BY <1>1 DEF AttachedLeast
<1>3. Closed(A)
  BY <1>1 DEF AttachedLeast, Closed
<1>4. Attached \subseteq A
  BY <1>1, <1>2, <1>3 DEF AttachedLeast
<1> QED
  BY <1>4

\* No entry leads out of the attached inodes, "." and ".." included.
LEMMA EntriesStay ==
  ASSUME IsFiniteSet(Inodes), IInv, NEW d \in Attached, NEW n \in Entries,
         check_dirents(d, n) # Null
  PROVE  check_dirents(d, n) \in Attached
<1>1. AttachedLeast
  BY AttachedIsLeast
<1>2. d \in Inodes /\ type[d] = "directory" /\ dirents[d][n] # Absent
      /\ check_dirents(d, n) = dirents[d][n]
  BY DEF check_dirents, isDirectory
<1>3. CASE n \in Names
  BY <1>1, <1>2, <1>3 DEF AttachedLeast, Closed
<1>4. CASE n = "."
  BY <1>2, <1>4 DEF IInv, Dots
<1>5. CASE n = ".."
  <2>1. CASE d = Root
    BY <1>1, <1>2, <1>5, <2>1 DEF AttachedLeast, IInv, Dots
  <2>2. CASE d # Root
    <3>1. PICK c \in Attached, m \in Names : dirents[c][m] # Absent /\ dirents[c][m] = d
      BY <2>2, HeldByAttached
    <3>2. c \in Inodes
      BY <1>1 DEF AttachedLeast
    <3>3. dirents[d][".."] = c
      BY <1>2, <3>1, <3>2 DEF IInv, Dots
    <3> QED
      BY <1>2, <1>5, <3>1, <3>3
  <2> QED
    BY <2>1, <2>2
<1> QED
  BY <1>3, <1>4, <1>5 DEF Entries

\* The loops over the components of a path stay among the attached inodes.
LEMMA PassAllStays ==
  ASSUME IsFiniteSet(Inodes), IInv, cwd \in Attached, NEW p \in Seq(Entries)
  PROVE  PassAll(p) \in Attached
<1> DEFINE n == Len(p)
           S == Attached
           F(g) == g = [k \in 0 .. n |-> IF k = 0 THEN cwd ELSE Pass(g[k - 1], p[k])]
           step == [q \in Nat \X S |-> IF q[1] \in 1 .. n THEN Pass(q[2], p[q[1]]) ELSE cwd]
<1>1. n \in Nat /\ \A k \in 1 .. n : p[k] \in Entries
  BY LenProperties
<1>2. PassAll(p) = (CHOOSE g : F(g))[n]
  BY DEF PassAll
<1> HIDE DEF n
<1>3. \A d \in S, e \in Entries : Pass(d, e) \in S
  BY EntriesStay DEF Pass
<1>4. step \in [Nat \X S -> S]
  BY <1>1, <1>3
<1>5. \A k \in 1 .. n, d \in S : k \in Nat /\ step[<< k, d >>] = Pass(d, p[k])
  BY <1>1
<1> HIDE DEF step, S
<1>6. PICK g \in [0 .. n -> S] : Follows(g, cwd, n, step)
  BY <1>1, <1>4, Recursion DEF S
<1>7. F(g)
  <2>1. ASSUME NEW k \in 1 .. n PROVE g[k] = Pass(g[k - 1], p[k])
    <3>1. g[k - 1] \in S /\ g[k] = step[<< k, g[k - 1] >>]
      BY <1>1, <1>6 DEF Follows
    <3> QED
      BY <1>5, <3>1
  <2>2. g = [k \in 0 .. n |-> g[k]] /\ g[0] = cwd
    BY <1>6 DEF Follows
  <2>3. \A k \in 0 .. n : g[k] = IF k = 0 THEN cwd ELSE Pass(g[k - 1], p[k])
    <3> TAKE k \in 0 .. n
    <3>1. CASE k = 0
      BY <2>2, <3>1
    <3>2. CASE k # 0
      <4>1. k \in 1 .. n
        BY <1>1, <3>2
      <4> QED
        BY <2>1, <3>2, <4>1
    <3> QED
      BY <3>1, <3>2
  <2> QED
    BY <2>2, <2>3
<1> DEFINE at == CHOOSE h : F(h)
<1>8. F(at)
  BY <1>7
<1>9. PassAll(p) = at[n]
  BY <1>2
<1> HIDE DEF at
<1>10. at[0] = cwd /\ \A k \in 0 .. n - 1 : at[k + 1] = Pass(at[k], p[k + 1])
  <2>1. \A k \in 0 .. n : at[k] = IF k = 0 THEN cwd ELSE Pass(at[k - 1], p[k])
    BY <1>8, Zenon
  <2>2. 0 \in 0 .. n
    BY <1>1
  <2>3. ASSUME NEW k \in 0 .. n - 1 PROVE at[k + 1] = Pass(at[k], p[k + 1])
    <3>1. k + 1 \in 0 .. n /\ k + 1 # 0 /\ (k + 1) - 1 = k
      BY <1>1
    <3>2. at[k + 1] = Pass(at[(k + 1) - 1], p[k + 1])
      BY <2>1, <3>1, Zenon
    <3> QED
      BY <3>1, <3>2
  <2> QED
    BY <2>1, <2>2, <2>3, Zenon
<1> DEFINE T == {k \in 0 .. n : at[k] \in S}
<1>11. 0 \in T
  BY <1>1, <1>10 DEF S
<1>12. ASSUME NEW k \in 0 .. n - 1, k \in T PROVE k + 1 \in T
  <2>1. k + 1 \in 0 .. n /\ k + 1 \in 1 .. n
    BY <1>1
  <2>2. at[k + 1] = Pass(at[k], p[k + 1]) /\ at[k] \in S /\ p[k + 1] \in Entries
    BY <1>1, <1>10, <1>12, <2>1
  <2> QED
    BY <1>3, <2>1, <2>2
<1>13. n \in T
  <2> HIDE DEF T
  <2>1. \A k \in 0 .. n : k \in T
    BY <1>1, <1>11, <1>12, InductionTo
  <2> QED
    BY <1>1, <2>1
<1> QED
  BY <1>9, <1>13 DEF S

\* The same for the loops that enter directories only.
LEMMA EnterAllStays ==
  ASSUME IsFiniteSet(Inodes), IInv, cwd \in Attached, NEW p \in Seq(Entries)
  PROVE  EnterAll(p) \in Attached
<1> DEFINE n == Len(p)
           S == Attached
           F(g) == g = [k \in 0 .. n |-> IF k = 0 THEN cwd ELSE Enter(g[k - 1], p[k])]
           step == [q \in Nat \X S |-> IF q[1] \in 1 .. n THEN Enter(q[2], p[q[1]]) ELSE cwd]
<1>1. n \in Nat /\ \A k \in 1 .. n : p[k] \in Entries
  BY LenProperties
<1>2. EnterAll(p) = (CHOOSE g : F(g))[n]
  BY DEF EnterAll
<1> HIDE DEF n
<1>3. \A d \in S, e \in Entries : Enter(d, e) \in S
  BY EntriesStay, Pointers DEF Enter, isDirectory
<1>4. step \in [Nat \X S -> S]
  BY <1>1, <1>3
<1>5. \A k \in 1 .. n, d \in S : k \in Nat /\ step[<< k, d >>] = Enter(d, p[k])
  BY <1>1
<1> HIDE DEF step, S
<1>6. PICK g \in [0 .. n -> S] : Follows(g, cwd, n, step)
  BY <1>1, <1>4, Recursion DEF S
<1>7. F(g)
  <2>1. ASSUME NEW k \in 1 .. n PROVE g[k] = Enter(g[k - 1], p[k])
    <3>1. g[k - 1] \in S /\ g[k] = step[<< k, g[k - 1] >>]
      BY <1>1, <1>6 DEF Follows
    <3> QED
      BY <1>5, <3>1
  <2>2. g = [k \in 0 .. n |-> g[k]] /\ g[0] = cwd
    BY <1>6 DEF Follows
  <2>3. \A k \in 0 .. n : g[k] = IF k = 0 THEN cwd ELSE Enter(g[k - 1], p[k])
    <3> TAKE k \in 0 .. n
    <3>1. CASE k = 0
      BY <2>2, <3>1
    <3>2. CASE k # 0
      <4>1. k \in 1 .. n
        BY <1>1, <3>2
      <4> QED
        BY <2>1, <3>2, <4>1
    <3> QED
      BY <3>1, <3>2
  <2> QED
    BY <2>2, <2>3
<1> DEFINE at == CHOOSE h : F(h)
<1>8. F(at)
  BY <1>7
<1>9. EnterAll(p) = at[n]
  BY <1>2
<1> HIDE DEF at
<1>10. at[0] = cwd /\ \A k \in 0 .. n - 1 : at[k + 1] = Enter(at[k], p[k + 1])
  <2>1. \A k \in 0 .. n : at[k] = IF k = 0 THEN cwd ELSE Enter(at[k - 1], p[k])
    BY <1>8, Zenon
  <2>2. 0 \in 0 .. n
    BY <1>1
  <2>3. ASSUME NEW k \in 0 .. n - 1 PROVE at[k + 1] = Enter(at[k], p[k + 1])
    <3>1. k + 1 \in 0 .. n /\ k + 1 # 0 /\ (k + 1) - 1 = k
      BY <1>1
    <3>2. at[k + 1] = Enter(at[(k + 1) - 1], p[k + 1])
      BY <2>1, <3>1, Zenon
    <3> QED
      BY <3>1, <3>2
  <2> QED
    BY <2>1, <2>2, <2>3, Zenon
<1> DEFINE T == {k \in 0 .. n : at[k] \in S}
<1>11. 0 \in T
  BY <1>1, <1>10 DEF S
<1>12. ASSUME NEW k \in 0 .. n - 1, k \in T PROVE k + 1 \in T
  <2>1. k + 1 \in 0 .. n /\ k + 1 \in 1 .. n
    BY <1>1
  <2>2. at[k + 1] = Enter(at[k], p[k + 1]) /\ at[k] \in S /\ p[k + 1] \in Entries
    BY <1>1, <1>10, <1>12, <2>1
  <2> QED
    BY <1>3, <2>1, <2>2
<1>13. n \in T
  <2> HIDE DEF T
  <2>1. \A k \in 0 .. n : k \in T
    BY <1>1, <1>11, <1>12, InductionTo
  <2> QED
    BY <1>1, <2>1
<1> QED
  BY <1>9, <1>13 DEF S

\* Where the commands look up a path.
LEMMA PathParts ==
  ASSUME NEW p \in Seq(Entries), p # << >>
  PROVE  Front(p) \in Seq(Entries) /\ Last(p) \in Entries /\ Len(Front(p)) = Len(p) - 1
<1>1. Len(p) \in Nat /\ Len(p) # 0 /\ \A k \in 1 .. Len(p) : p[k] \in Entries
  BY EmptySeq, LenProperties
<1>2. Len(p) \in 1 .. Len(p) /\ Len(p) - 1 \in Nat /\ \A k \in 1 .. Len(p) - 1 : k \in 1 .. Len(p)
  BY <1>1
<1> DEFINE f == [k \in 1 .. Len(p) - 1 |-> p[k]]
<1>3. f \in [1 .. Len(p) - 1 -> Entries]
  BY <1>1, <1>2
<1>4. Front(p) = f
  <2>1. Front(p) = SubSeq(p, 1, Len(p) - 1)
    BY DEF Front
  <2>2. SubSeq(p, 1, Len(p) - 1) = [k \in 1 .. ((Len(p) - 1) - 1) + 1 |-> p[(1 + k) - 1]]
    BY <1>1 DEF SubSeq
  <2> QED
    BY <1>1, <2>1, <2>2
<1> HIDE DEF f
<1>5. f \in Seq(Entries) /\ Len(f) = Len(p) - 1
  BY <1>2, <1>3
<1> QED
  BY <1>1, <1>2, <1>4, <1>5 DEF Last

\* What the user types is a sequence of entries.
LEMMA PathIsSeq ==
  ASSUME NEW p \in Paths
  PROVE  p \in Seq(Entries)
<1>1. PICK n \in 0 .. MaxDepth : p \in [1 .. n -> Entries]
  BY DEF Paths
<1>2. n \in Nat
  BY <1>1, BoundsAssumption
<1> QED
  BY <1>1, <1>2

\* The directory that a command changes, or goes to, is attached.
LEMMA LookupsStay ==
  ASSUME IsFiniteSet(Inodes), IInv, cwd \in Attached, NEW p \in Seq(Entries), p # << >>
  PROVE  /\ LookupAny(p) # Null => LookupAny(p) \in Attached
         /\ LookupDirectory(p) # Null => LookupDirectory(p) \in Attached
         /\ MakeParent(p) # Null => MakeParent(p) \in Attached
         /\ MkdirParent(p) # Null => MkdirParent(p) \in Attached
<1>1. ASSUME NEW q \in Seq(Entries), q # << >>
      PROVE  /\ LookupAny(q) # Null => LookupAny(q) \in Attached
             /\ LookupDirectory(q) # Null => LookupDirectory(q) \in Attached
  <2>1. Front(q) \in Seq(Entries) /\ Last(q) \in Entries
    BY <1>1, PathParts
  <2>2. EnterAll(Front(q)) \in Attached /\ PassAll(Front(q)) \in Attached
    BY <2>1, EnterAllStays, PassAllStays
  <2>3. /\ check_dirents(EnterAll(Front(q)), Last(q)) # Null
             => check_dirents(EnterAll(Front(q)), Last(q)) \in Attached
        /\ check_dirents(PassAll(Front(q)), Last(q)) # Null
             => check_dirents(PassAll(Front(q)), Last(q)) \in Attached
    BY <2>1, <2>2, EntriesStay
  <2> QED
    BY <2>3, Pointers DEF LookupAny, LookupDirectory, isDirectory
<1>2. CASE Len(p) = 1
  BY <1>1, <1>2 DEF MakeParent, MkdirParent
<1>3. CASE Len(p) # 1
  <2>1. Front(p) \in Seq(Entries) /\ Front(p) # << >>
    <3>1. Len(p) \in Nat /\ Len(p) # 0 /\ Len(<< >>) = 0
      BY EmptySeq, LenProperties
    <3>2. Front(p) \in Seq(Entries) /\ Len(Front(p)) = Len(p) - 1
      BY PathParts
    <3> QED
      BY <1>3, <3>1, <3>2
  <2>2. /\ LookupAny(Front(p)) # Null => LookupAny(Front(p)) \in Attached
        /\ LookupDirectory(Front(p)) # Null => LookupDirectory(Front(p)) \in Attached
    BY <1>1, <2>1
  <2> QED
    BY <1>1, <1>3, <2>2 DEF MakeParent, MkdirParent
<1> QED
  BY <1>2, <1>3

-----------------------------------------------------------------------------
(* What the commands do to the graph *)

\* A new inode i gets the name n in the directory d.
Adds(d, n, i) ==
  /\ d \in Attached /\ type[d] = "directory" /\ dirents[d][n] = Absent
  /\ type[i] = "free" /\ i # Root /\ i # d
  /\ \A c \in Inodes, m \in Names :
       dirents'[c][m] = IF c = d /\ m = n THEN i ELSE dirents[c][m]
  /\ UNCHANGED << cwd, ysh >>
AddsDirectory(d, n, i) ==
  Adds(d, n, i) /\ type' = [type EXCEPT ![i] = "directory"] /\ UNCHANGED data
AddsFile(d, n, i, w) ==
  Adds(d, n, i) /\ type' = [type EXCEPT ![i] = "plain"] /\ data' = [data EXCEPT ![i] = w]
AppendsWords(f, w) ==
  /\ f \in Attached /\ type[f] = "plain" /\ data' = [data EXCEPT ![f] = @ \o w]
  /\ UNCHANGED << type, dirents, cwd, ysh >>
Removes(n) ==
  /\ dirents[cwd][n] # Absent /\ dirents' = [dirents EXCEPT ![cwd][n] = Absent]
  /\ UNCHANGED << type, data, cwd, ysh >>
Moves ==
  isDirectory(cwd') /\ cwd' \in Attached /\ UNCHANGED << type, dirents, data, ysh >>
Idles ==
  /\ UNCHANGED << type, dirents, data, cwd >>
  /\ ysh' = ysh \/ (ysh = "running" /\ ysh' \in {"exited", "lost"})

StepKinds ==
  \/ Idles
  \/ /\ ysh = "running"
     /\ \/ Moves
        \/ \E n \in Names : Removes(n)
        \/ \E f \in Inodes, w \in Contents : AppendsWords(f, w)
        \/ \E d \in Inodes, n \in Names, i \in Inodes :
             AddsDirectory(d, n, i) \/ \E w \in Contents : AddsFile(d, n, i, w)

\* cd only moves, to an attached directory.
LEMMA MovesStep ==
  ASSUME IsFiniteSet(Inodes), IInv, cwd \in Attached, NEW p \in Paths, fn_cd(p)
  PROVE  Moves
<1>1. AttachedLeast /\ p \in Seq(Entries)
  BY AttachedIsLeast, PathIsSeq
<1>2. isDirectory(cwd) /\ isDirectory(Root) /\ Root \in Attached
  BY <1>1, Pointers DEF IInv, Dots, TypeOK, Directories, isDirectory, AttachedLeast
<1>3. UNCHANGED << type, dirents, data, ysh >>
  BY DEF fn_cd, tree, session
<1>4. isDirectory(cwd') /\ cwd' \in Attached
  <2>1. CASE p = << >>
    BY <1>2, <1>3, <2>1 DEF fn_cd, isDirectory
  <2>2. CASE p # << >> /\ isDirectory(LookupAny(p))
    <3>1. LookupAny(p) \in Attached
      BY <1>1, <2>2, LookupsStay, Pointers DEF isDirectory
    <3> QED
      BY <1>3, <2>2, <3>1 DEF fn_cd, isDirectory
  <2>3. CASE p # << >> /\ ~ isDirectory(LookupAny(p))
    BY <1>2, <1>3, <2>3 DEF fn_cd, isDirectory
  <2> QED
    BY <2>1, <2>2, <2>3
<1> QED
  BY <1>3, <1>4 DEF Moves

\* mkdir adds a directory below an attached one, or changes nothing of the tree.
LEMMA MkdirStep ==
  ASSUME IsFiniteSet(Inodes), IInv, cwd \in Attached, NEW p \in Paths, fn_mkdir(p)
  PROVE  \/ Lose \/ UNCHANGED vars
         \/ \E d \in Inodes, n \in Names, i \in Inodes : AddsDirectory(d, n, i)
<1> DEFINE d == MkdirParent(p)
<1>1. ASSUME p # << >>, d # Null, check_dirents(d, Last(p)) = Null, isDirectory(d),
             NEW i \in Inodes, mkdir(d, Last(p), i), UNCHANGED << cwd, session >>
      PROVE  AddsDirectory(d, Last(p), i) /\ d \in Inodes /\ Last(p) \in Names
  <2>1. d \in Inodes /\ type[d] = "directory" /\ d \in Attached
    BY <1>1, PathIsSeq, LookupsStay DEF isDirectory
  <2> DEFINE n == Last(p)
  <2>2. n \in Names /\ dirents[d][n] = Absent
    BY <1>1, <2>1, LastIsEntry, MissingIsName
  <2>3. mkdir(d, n, i)
    BY <1>1
  <2> HIDE DEF d, n
  <2>4. /\ i # d /\ i # Root /\ type[i] = "free"
        /\ type' = [type EXCEPT ![i] = "directory"]
        /\ \A c \in Inodes, m \in Names :
             dirents'[c][m] = IF c = d /\ m = n THEN i ELSE dirents[c][m]
    BY <2>1, <2>2, <2>3, MkdirEntries
  <2>5. UNCHANGED << cwd, ysh, data >>
    BY <1>1, <2>3 DEF session, mkdir
  <2>6. AddsDirectory(d, n, i)
    BY <2>1, <2>2, <2>4, <2>5 DEF AddsDirectory, Adds
  <2> QED
    BY <2>1, <2>2, <2>6 DEF n
<1> QED
  BY <1>1 DEF fn_mkdir, PrintsOnly

\* make adds a file below an attached directory, adds words to an attached
\* file, or changes nothing of the tree.
LEMMA MakeStep ==
  ASSUME IsFiniteSet(Inodes), IInv, cwd \in Attached, NEW p \in Paths, NEW w \in Contents,
         fn_make(p, w)
  PROVE  \/ Lose \/ UNCHANGED vars
         \/ \E f \in Inodes : AppendsWords(f, w)
         \/ \E d \in Inodes, n \in Names, i \in Inodes : AddsFile(d, n, i, w)
<1> DEFINE d == MakeParent(p)
           f == check_dirents(d, Last(p))
<1>1. ASSUME p # << >>, d # Null, f = Null,
             NEW i \in Inodes, mkfile(d, Last(p), i, w), UNCHANGED << cwd, session >>
      PROVE  AddsFile(d, Last(p), i, w) /\ d \in Inodes /\ Last(p) \in Names
  <2>1. d \in Inodes /\ type[d] = "directory" /\ d \in Attached
    BY <1>1, PathIsSeq, LookupsStay, LookupTypes DEF isDirectory
  <2> DEFINE n == Last(p)
  <2>2. n \in Names /\ dirents[d][n] = Absent
    BY <1>1, <2>1, LastIsEntry, MissingIsName
  <2>3. mkfile(d, n, i, w)
    BY <1>1
  <2> HIDE DEF d, n, f
  <2>4. /\ i # d /\ i # Root /\ type[i] = "free"
        /\ type' = [type EXCEPT ![i] = "plain"]
        /\ dirents' = [dirents EXCEPT ![d] = [@ EXCEPT ![n] = i]]
        /\ data' = [data EXCEPT ![i] = w]
    BY <2>1, <2>2, <2>3, MkfileEntries
  <2>5. dirents \in [Inodes -> [Entries -> Inodes \cup {Null, Absent}]] /\ Names \subseteq Entries
    BY EntriesHaveNames DEF IInv, TypeOK
  <2>6. \A c \in Inodes, m \in Names :
          dirents'[c][m] = IF c = d /\ m = n THEN i ELSE dirents[c][m]
    BY <2>1, <2>2, <2>4, <2>5
  <2>7. UNCHANGED << cwd, ysh >>
    BY <1>1 DEF session
  <2>8. AddsFile(d, n, i, w)
    BY <2>1, <2>2, <2>4, <2>6, <2>7 DEF AddsFile, Adds
  <2> QED
    BY <2>1, <2>2, <2>8 DEF n
<1>2. ASSUME p # << >>, d # Null, f # Null, ~ isDirectory(f),
             data' = [data EXCEPT ![f] = @ \o w],
             UNCHANGED << type, nr, dirents, next_inode_nr, cwd, session >>
      PROVE  AppendsWords(f, w) /\ f \in Inodes
  <2>1. d \in Attached /\ Last(p) \in Entries
    BY <1>2, PathIsSeq, LookupsStay, LastIsEntry
  <2>2. f \in Attached /\ f \in Inodes
    BY <1>2, <2>1, EntriesStay, AttachedIsLeast DEF AttachedLeast
  <2>3. type[f] = "plain"
    <3>1. dirents[d][Last(p)] = f /\ isDirectory(d) /\ d \in Inodes
      BY <1>2 DEF check_dirents, isDirectory
    <3> DEFINE n == Last(p)
    <3> HIDE DEF d, f, n
    <3>2. CASE n \in Names
      <4>1. type[f] # "free"
        BY <2>2, <3>1, <3>2, Pointers DEF IInv, OneName, n
      <4> QED
        BY <1>2, <2>2, <4>1 DEF IInv, TypeOK, isDirectory
    <3>3. CASE n \in {".", ".."}
      BY <1>2, <3>1, <3>3 DEF IInv, Dots, isDirectory, n
    <3> QED
      BY <2>1, <3>2, <3>3 DEF Entries, n
  <2>4. UNCHANGED << type, dirents, cwd, ysh >>
    BY <1>2 DEF session
  <2> QED
    BY <1>2, <2>2, <2>3, <2>4 DEF AppendsWords
<1> HIDE DEF d, f
<1>3. \/ Lose \/ PrintsOnly
      \/ /\ p # << >> /\ d # Null /\ f = Null
         /\ \E i \in Inodes : mkfile(d, Last(p), i, w)
         /\ UNCHANGED << cwd, session >>
      \/ /\ p # << >> /\ d # Null /\ f # Null /\ ~ isDirectory(f)
         /\ data' = [data EXCEPT ![f] = @ \o w]
         /\ UNCHANGED << type, nr, dirents, next_inode_nr, cwd, session >>
  BY DEF fn_make, writefile, d, f
<1> QED
  BY <1>1, <1>2, <1>3 DEF PrintsOnly

\* Every step is of one of these kinds.
LEMMA NextKinds ==
  ASSUME IsFiniteSet(Inodes), Removable \subseteq Names, IInv, cwd \in Attached, [Next]_vars
  PROVE  StepKinds
<1>1. CASE Lose \/ UNCHANGED vars
  <2>1. UNCHANGED vars => Idles
    BY DEF Idles, vars, tree, session
  <2>2. ASSUME Lose, ~ (UNCHANGED vars) PROVE Idles
    <3>1. ysh = "running"
      BY <2>2 DEF Next
    <3> QED
      BY <2>2, <3>1 DEF Idles, Lose, tree
  <2> QED
    BY <1>1, <2>1, <2>2 DEF StepKinds
<1> SUFFICES ASSUME Next, ~ (Lose \/ UNCHANGED vars) PROVE StepKinds
  BY <1>1
<1>2. ysh = "running"
  BY DEF Next
<1>3. ASSUME NEW p \in Paths, fn_cat(p) \/ fn_ls(p) \/ fn_lsr(p) PROVE FALSE
  BY <1>3 DEF fn_cat, fn_ls, fn_lsr, PrintsOnly
<1>4. CASE fn_ls_cwd \/ fn_pwd \/ fn_comm \/ fn_echo \/ BlankLine
  BY <1>4 DEF fn_ls_cwd, fn_pwd, fn_comm, fn_echo, BlankLine, PrintsOnly
<1>5. ASSUME NEW n \in Removable, fn_rm(n) PROVE StepKinds
  <2>1. n \in Names /\ Removes(n)
    BY <1>5 DEF fn_rm, PrintsOnly, Removes, session
  <2> QED
    BY <1>2, <2>1 DEF StepKinds
<1>6. ASSUME NEW p \in Paths, fn_cd(p) PROVE StepKinds
  BY <1>2, <1>6, MovesStep DEF StepKinds
<1>7. ASSUME NEW p \in Paths, fn_mkdir(p) PROVE StepKinds
  BY <1>2, <1>7, MkdirStep DEF StepKinds
<1>8. ASSUME NEW p \in Paths, NEW w \in Contents, fn_make(p, w) PROVE StepKinds
  BY <1>2, <1>8, MakeStep DEF StepKinds
<1>9. CASE \E w \in Contents : fn_prompt(w)
  BY <1>9 DEF fn_prompt, Idles, StepKinds, tree
<1>10. CASE fn_exit_none \/ NoSuchFunction \/ EndOfFile
  BY <1>2, <1>10 DEF fn_exit_none, NoSuchFunction, EndOfFile, Idles, StepKinds, tree
<1>11. CASE \E n \in Statuses \cup {NonNumeric} : fn_exit(n)
  BY <1>2, <1>11 DEF fn_exit, Idles, StepKinds, tree
<1> QED
  BY <1>3, <1>4, <1>5, <1>6, <1>7, <1>8, <1>9, <1>10, <1>11 DEF Next

-----------------------------------------------------------------------------
(* What stays attached *)

\* AttachedIsLeast, of the next state.
LEMMA AttachedIsLeastNext ==
  ASSUME IsFiniteSet(Inodes)
  PROVE  IInv' => AttachedLeast'
<1>1. IInv => AttachedLeast
  BY AttachedIsLeast
<1> QED
  BY <1>1, PTL

\* A new inode is attached to what is attached already, and nothing else is.
LEMMA AttachedAdds ==
  ASSUME IsFiniteSet(Inodes), IInv, IInv', NEW d \in Inodes, NEW n \in Names, NEW i \in Inodes,
         Adds(d, n, i)
  PROVE  Attached' = Attached \cup {i}
<1>1. AttachedLeast /\ AttachedLeast'
  BY AttachedIsLeast, AttachedIsLeastNext
<1>2. /\ d \in Attached /\ dirents[d][n] = Absent /\ i # d /\ type[i] = "free"
      /\ i # Absent
      /\ \A c \in Inodes, m \in Names :
           dirents'[c][m] = IF c = d /\ m = n THEN i ELSE dirents[c][m]
  BY Pointers DEF Adds
<1>3. \A m \in Names : dirents[i][m] = Absent
  <2>1. dirents[i] = NoDirents
    BY <1>2 DEF IInv, TypeOK, Directories
  <2>2. \A m \in Names : NoDirents[m] = Absent
    BY EntriesHaveNames DEF NoDirents
  <2> QED
    BY <2>1, <2>2
<1>4. Attached \subseteq Attached'
  <2>1. Closed(Attached')
    <3> SUFFICES ASSUME NEW c \in Attached' \cap Inodes, NEW m \in Names, dirents[c][m] # Absent
                 PROVE  dirents[c][m] \in Attached'
      BY DEF Closed
    <3>1. dirents'[c][m] = dirents[c][m]
      BY <1>2
    <3> QED
      BY <1>1, <3>1 DEF AttachedLeast, Closed
  <2> QED
    BY <1>1, <2>1 DEF AttachedLeast
<1>5. i \in Attached'
  <2>1. dirents'[d][n] = i /\ d \in Attached'
    BY <1>2, <1>4
  <2> QED
    BY <1>1, <1>2, <2>1 DEF AttachedLeast, Closed
<1>6. Attached' \subseteq Attached \cup {i}
  <2> DEFINE A == Attached \cup {i}
  <2>1. ASSUME NEW c \in A \cap Inodes, NEW m \in Names, dirents'[c][m] # Absent
        PROVE  dirents'[c][m] \in A
    <3>1. CASE c = d /\ m = n
      BY <1>2, <3>1
    <3>2. CASE ~ (c = d /\ m = n)
      <4>1. dirents'[c][m] = dirents[c][m] /\ dirents[c][m] # Absent
        BY <1>2, <2>1, <3>2
      <4>2. c \in Attached
        BY <1>3, <2>1, <4>1
      <4> QED
        BY <1>1, <4>1, <4>2 DEF AttachedLeast, Closed
    <3> QED
      BY <3>1, <3>2
  <2>2. A \in SUBSET Inodes /\ Root \in A
    BY <1>1 DEF AttachedLeast
  <2> HIDE DEF A
  <2>3. A \in SUBSET Inodes /\ Root \in A
        /\ \A c \in A \cap Inodes, m \in Names : dirents'[c][m] # Absent => dirents'[c][m] \in A
    BY <2>1, <2>2
  <2>4. Attached' \subseteq A
    BY <1>1, <2>3 DEF AttachedLeast, Closed
  <2> QED
    BY <2>4 DEF A
<1> QED
  BY <1>4, <1>5, <1>6

\* Nothing is attached by a removal, and the current directory, in which it is
\* made, is not cut off by it.
LEMMA AttachedRemoves ==
  ASSUME IsFiniteSet(Inodes), IInv, IInv', cwd \in Attached, NEW n \in Names, Removes(n)
  PROVE  Attached' \subseteq Attached /\ cwd' \in Attached'
<1>1. AttachedLeast /\ AttachedLeast'
  BY AttachedIsLeast, AttachedIsLeastNext
<1>2. cwd' = cwd /\ \A c \in Inodes, m \in Names :
        dirents'[c][m] = IF c = cwd /\ m = n THEN Absent ELSE dirents[c][m]
  BY EntriesHaveNames DEF Removes, IInv, TypeOK
<1>3. Attached' \subseteq Attached
  <2>1. \A c \in Attached \cap Inodes, m \in Names :
          dirents'[c][m] # Absent => dirents'[c][m] \in Attached
    BY <1>1, <1>2 DEF AttachedLeast, Closed
  <2>2. Attached \in SUBSET Inodes /\ Root \in Attached
    BY <1>1 DEF AttachedLeast
  <2> QED
    BY <1>1, <2>1, <2>2 DEF AttachedLeast, Closed
<1>4. cwd \in Attached'
  <2> SUFFICES ASSUME cwd \notin Attached' PROVE FALSE
    OBVIOUS
  <2>1. Closed(Attached')
    <3> SUFFICES ASSUME NEW c \in Attached' \cap Inodes, NEW m \in Names, dirents[c][m] # Absent
                 PROVE  dirents[c][m] \in Attached'
      BY DEF Closed
    <3>1. dirents'[c][m] = dirents[c][m]
      BY <1>2
    <3> QED
      BY <1>1, <3>1 DEF AttachedLeast, Closed
  <2>2. Attached \subseteq Attached'
    BY <1>1, <2>1 DEF AttachedLeast
  <2> QED
    BY <2>2
<1> QED
  BY <1>2, <1>3, <1>4

\* Entries that stay lead where they led.
LEMMA AttachedStays ==
  ASSUME IsFiniteSet(Inodes), IInv, IInv', UNCHANGED dirents
  PROVE  Attached' = Attached
<1>1. AttachedLeast /\ AttachedLeast'
  BY AttachedIsLeast, AttachedIsLeastNext
<1>2. Closed(Attached')
  BY <1>1 DEF AttachedLeast, Closed
<1>3. Attached \subseteq Attached'
  BY <1>1, <1>2 DEF AttachedLeast
<1>4. \A c \in Attached \cap Inodes, m \in Names :
        dirents'[c][m] # Absent => dirents'[c][m] \in Attached
  BY <1>1 DEF AttachedLeast, Closed
<1>5. Attached' \subseteq Attached
  BY <1>1, <1>4 DEF AttachedLeast, Closed
<1> QED
  BY <1>3, <1>5

\* The current directory is attached.
AInv == IInv /\ cwd \in Attached

\* Every command leaves the current directory attached, and attaches nothing
\* that was made before and cut off.
LEMMA NextAttached ==
  ASSUME IsFiniteSet(Inodes), Removable \subseteq Names, AInv, [Next]_vars
  PROVE  /\ AInv'
         /\ dirents' # dirents => Attached' \cap Allocated \subseteq Attached
<1>1. IInv' /\ IInv /\ cwd \in Attached
  BY NextInv DEF AInv
<1>2. StepKinds
  BY <1>1, NextKinds
<1>3. ASSUME UNCHANGED dirents, cwd' \in Attached
      PROVE  cwd' \in Attached'
  BY <1>1, <1>3, AttachedStays
<1>4. CASE Idles \/ Moves \/ \E f \in Inodes, w \in Contents : AppendsWords(f, w)
  BY <1>1, <1>3, <1>4 DEF Idles, Moves, AppendsWords, AInv
<1>5. ASSUME NEW n \in Names, Removes(n)
      PROVE  cwd' \in Attached' /\ Attached' \subseteq Attached
  BY <1>1, <1>5, AttachedRemoves
<1>6. ASSUME NEW d \in Inodes, NEW n \in Names, NEW i \in Inodes,
             AddsDirectory(d, n, i) \/ \E w \in Contents : AddsFile(d, n, i, w)
      PROVE  cwd' \in Attached' /\ Attached' \cap Allocated \subseteq Attached
  <2>1. Adds(d, n, i)
    BY <1>6 DEF AddsDirectory, AddsFile
  <2>2. Attached' = Attached \cup {i}
    BY <1>1, <2>1, AttachedAdds
  <2>3. i \notin Allocated /\ cwd' = cwd
    BY <2>1 DEF Adds, Allocated
  <2> QED
    BY <1>1, <2>2, <2>3
<1> QED
  BY <1>1, <1>2, <1>4, <1>5, <1>6 DEF StepKinds, AInv

\* The root, where the shell starts, is attached.
LEMMA InitAttached ==
  ASSUME IsFiniteSet(Inodes)
  PROVE  Init => AInv
<1> SUFFICES ASSUME Init PROVE AInv
  OBVIOUS
<1>1. IInv
  BY InitInv
<1>2. AttachedLeast
  BY <1>1, AttachedIsLeast
<1> QED
  BY <1>1, <1>2 DEF Init, AInv, AttachedLeast

\* The current directory is attached in every state.
LEMMA AttachedInvariant ==
  ASSUME IsFiniteSet(Inodes), Removable \subseteq Names
  PROVE  Spec => []AInv
<1>1. Init => AInv
  BY InitAttached
<1>2. AInv /\ [Next]_vars => AInv'
  BY NextAttached
<1> QED
  BY <1>1, <1>2, PTL DEF Spec

\* The way up from the current directory, and from every directory that has a
\* path, is its path from the root: pwd, ls and lsr reach the root and find one
\* name at each step (file_sys.cpp:86).
THEOREM PathsLeadBack ==
  ASSUME IsFiniteSet(Inodes), Removable \subseteq Names
  PROVE  Spec => []PathLeadsBack
<1>1. AInv => PathLeadsBack
  BY LeadsBack DEF AInv
<1> QED
  BY <1>1, AttachedInvariant, PTL

\* No command makes what rm has cut off reachable again, and mkdir and make
\* attach only what is new (file_sys.cpp:296).
THEOREM RemovedForGood ==
  ASSUME IsFiniteSet(Inodes), Removable \subseteq Names
  PROVE  Spec => RemovedStaysRemoved
<1>1. AInv /\ [Next]_vars
        => [dirents' # dirents => Attached' \cap Allocated \subseteq Attached]_vars
  BY NextAttached
<1> QED
  BY <1>1, AttachedInvariant, PTL DEF Spec, RemovedStaysRemoved

-----------------------------------------------------------------------------
(* The paths that exist *)

\* The paths of at most k components, with the inodes they lead to.
UpTo(k) == {t \in Seq(Names) \X Inodes : Len(t[1]) <= k /\ Resolve(t[1]) = t[2]}

\* The paths one component longer.
LEMMA DeeperIs ==
  ASSUME NEW taken \in SUBSET (Seq(Names) \X Inodes), NEW u
  PROVE  u \in Deeper(taken) <=>
           \/ u \in taken
           \/ \E t \in taken, n \in Names : dirents[t[2]][n] # Absent
                /\ u = << Append(t[1], n), dirents[t[2]][n] >>
<1> DEFINE Children(t) == {<< Append(t[1], n), dirents[t[2]][n] >> :
                             n \in {m \in Names : dirents[t[2]][m] # Absent}}
<1>1. Deeper(taken) = taken \cup UNION {Children(t) : t \in taken}
  BY DEF Deeper
<1>2. \A t : u \in Children(t) <=>
         \E n \in Names : dirents[t[2]][n] # Absent /\ u = << Append(t[1], n), dirents[t[2]][n] >>
  OBVIOUS
<1> HIDE DEF Children
<1>3. u \in UNION {Children(t) : t \in taken} <=> \E t \in taken : u \in Children(t)
  OBVIOUS
<1> QED
  BY <1>1, <1>2, <1>3

\* One round of Deeper adds the paths one component longer.
LEMMA UpToNext ==
  ASSUME IInv, NEW k \in Nat
  PROVE  Deeper(UpTo(k)) = UpTo(k + 1)
<1>1. UpTo(k) \in SUBSET (Seq(Names) \X Inodes)
  BY DEF UpTo
<1>2. ASSUME NEW u \in UpTo(k + 1), u \notin UpTo(k)
      PROVE  \E t \in UpTo(k), n \in Names : dirents[t[2]][n] # Absent
                /\ u = << Append(t[1], n), dirents[t[2]][n] >>
  <2> DEFINE p == u[1]
             i == u[2]
  <2>1. p \in Seq(Names) /\ i \in Inodes /\ u = << p, i >> /\ Len(p) <= k + 1 /\ Resolve(p) = i
    BY <1>2 DEF UpTo
  <2>2. ~ (Len(p) <= k)
    BY <1>2, <2>1 DEF UpTo
  <2> HIDE DEF p, i
  <2>3. Len(p) = k + 1 /\ p # << >>
    <3>1. Len(p) \in Nat /\ Len(<< >>) = 0
      BY <2>1, LenProperties
    <3> QED
      BY <2>1, <2>2, <3>1
  <2>4. PICK q \in Seq(Names), n \in Names : p = Append(q, n)
    BY <2>1, <2>3, SequenceEmptyOrAppend
  <2>5. Len(q) <= k
    <3>1. Len(p) = Len(q) + 1 /\ Len(q) \in Nat
      BY <2>4, AppendProperties, LenProperties
    <3> QED
      BY <2>3, <3>1
  <2>6. check_dirents(Resolve(q), n) = i /\ i # Null
    BY <2>1, <2>4, ResolveAppend, Pointers
  <2>7. Resolve(q) \in Inodes /\ dirents[Resolve(q)][n] # Absent /\ dirents[Resolve(q)][n] = i
    BY <2>6, ChildLink
  <2> DEFINE t == << q, Resolve(q) >>
  <2>8. t \in UpTo(k) /\ t[1] = q /\ t[2] = Resolve(q)
    BY <2>5, <2>7 DEF UpTo
  <2> HIDE DEF t
  <2>9. dirents[t[2]][n] # Absent /\ u = << Append(t[1], n), dirents[t[2]][n] >>
    BY <2>1, <2>4, <2>7, <2>8
  <2> QED
    BY <2>8, <2>9
<1>3. ASSUME NEW t \in UpTo(k), NEW n \in Names, dirents[t[2]][n] # Absent
      PROVE  << Append(t[1], n), dirents[t[2]][n] >> \in UpTo(k + 1)
  <2> DEFINE q == t[1]
             d == t[2]
             e == dirents[d][n]
  <2>1. q \in Seq(Names) /\ d \in Inodes /\ Len(q) <= k /\ Resolve(q) = d
    BY DEF UpTo
  <2>2. e # Absent
    BY <1>3
  <2> HIDE DEF q, d
  <2>3. Resolve(Append(q, n)) = e /\ e \in Inodes
    BY <2>1, <2>2, ResolveAppend, LinkFound
  <2>4. Append(q, n) \in Seq(Names) /\ Len(Append(q, n)) = Len(q) + 1 /\ Len(q) \in Nat
    BY <2>1, AppendProperties, LenProperties
  <2>5. Len(Append(q, n)) <= k + 1
    BY <2>1, <2>4
  <2> HIDE DEF e
  <2>6. << Append(q, n), e >> \in UpTo(k + 1)
    BY <2>3, <2>4, <2>5 DEF UpTo
  <2> QED
    BY <2>6 DEF q, d, e
<1>4. ASSUME NEW t \in UpTo(k) PROVE t \in UpTo(k + 1)
  <2>1. Len(t[1]) <= k /\ Len(t[1]) \in Nat
    BY LenProperties DEF UpTo
  <2>2. Len(t[1]) <= k + 1
    BY <2>1
  <2> QED
    BY <2>2 DEF UpTo
<1>5. \A u : u \in Deeper(UpTo(k)) <=>
           \/ u \in UpTo(k)
           \/ \E t \in UpTo(k), n \in Names : dirents[t[2]][n] # Absent
                /\ u = << Append(t[1], n), dirents[t[2]][n] >>
  BY <1>1, DeeperIs
<1>6. \A u : u \in Deeper(UpTo(k)) <=> u \in UpTo(k + 1)
  BY <1>2, <1>3, <1>4, <1>5
<1> QED
  BY <1>6

\* As many rounds as there are inodes but one find every path.
LEMMA PathsTakenAre ==
  ASSUME IsFiniteSet(Inodes), IInv
  PROVE  PathsTaken = UpTo(Cardinality(Inodes) - 1)
<1> DEFINE n == Cardinality(Inodes) - 1
           S == SUBSET (Seq(Names) \X Inodes)
           start == {<< << >>, Root >>}
           F(g) == g = [k \in 0 .. n |-> IF k = 0 THEN start ELSE Deeper(g[k - 1])]
           step == [q \in Nat \X S |-> IF Deeper(q[2]) \in S THEN Deeper(q[2]) ELSE {}]
<1>1. n \in Nat
  <2>1. << >> \in Seq(Names) /\ Resolve(<< >>) # Null
    BY ResolveEmpty, Pointers
  <2>2. Len(<< >>) \in 0 .. n /\ Cardinality(Inodes) \in Nat
    BY <2>1, PathsAreShort
  <2>3. Len(<< >>) = 0
    OBVIOUS
  <2> QED
    BY <2>2, <2>3
<1>2. PathsTaken = (CHOOSE g : F(g))[n]
  BY DEF PathsTaken
<1>3. start \in S /\ {} \in S
  <2>1. << >> \in Seq(Names) /\ Root \in Inodes
    BY Pointers
  <2>2. << << >>, Root >> \in Seq(Names) \X Inodes
    BY <2>1
  <2> QED
    BY <2>2, Zenon
<1>4. start = UpTo(0)
  <2>1. << >> \in Seq(Names) /\ Resolve(<< >>) = Root /\ Root \in Inodes
    BY ResolveEmpty, Pointers
  <2>2. \A p \in Seq(Names) : Len(p) <= 0 <=> p = << >>
    BY LenProperties, EmptySeq
  <2>3. ASSUME NEW t PROVE t \in UpTo(0) <=> t = << << >>, Root >>
    <3>1. ASSUME t \in UpTo(0) PROVE t = << << >>, Root >>
      <4>1. t \in Seq(Names) \X Inodes /\ t[1] = << >> /\ t[2] = Root
        BY <2>1, <2>2, <3>1 DEF UpTo
      <4> QED
        BY <4>1
    <3>2. << << >>, Root >> \in UpTo(0)
      <4>1. Len(<< >>) <= 0
        BY <2>1, <2>2
      <4> QED
        BY <2>1, <4>1 DEF UpTo
    <3> QED
      BY <3>1, <3>2
  <2> QED
    BY <2>3
<1> HIDE DEF n, start
<1>5. step \in [Nat \X S -> S]
  BY <1>3
<1>6. \A k \in Nat : UpTo(k) \in S
  BY DEF UpTo
<1>7. \A k \in Nat, l \in Nat : step[<< l, UpTo(k) >>] = UpTo(k + 1)
  <2> TAKE k \in Nat, l \in Nat
  <2>1. Deeper(UpTo(k)) = UpTo(k + 1) /\ k + 1 \in Nat
    BY UpToNext
  <2> QED
    BY <1>6, <2>1
<1> HIDE DEF step, S
<1>8. PICK g \in [0 .. n -> S] : Follows(g, start, n, step)
  BY <1>1, <1>3, <1>5, Recursion
<1>9. \A k \in 0 .. n : g[k] = UpTo(k)
  <2> DEFINE T == {k \in 0 .. n : g[k] = UpTo(k)}
  <2>1. 0 \in T
    BY <1>1, <1>4, <1>8 DEF Follows
  <2>2. ASSUME NEW k \in 0 .. n - 1, k \in T PROVE k + 1 \in T
    <3>1. k + 1 \in 1 .. n /\ (k + 1) - 1 = k /\ k \in Nat /\ k + 1 \in 0 .. n /\ k + 1 \in Nat
      BY <1>1
    <3>2. g[k + 1] = step[<< k + 1, g[k] >>] /\ g[k] = UpTo(k)
      BY <1>8, <2>2, <3>1 DEF Follows
    <3> QED
      BY <1>7, <3>1, <3>2
  <2> HIDE DEF T
  <2>3. \A k \in 0 .. n : k \in T
    BY <1>1, <2>1, <2>2, InductionTo
  <2> QED
    BY <2>3 DEF T
<1>10. F(g)
  <2>1. g = [k \in 0 .. n |-> g[k]] /\ g[0] = start
    BY <1>8 DEF Follows
  <2>2. \A k \in 0 .. n : g[k] = IF k = 0 THEN start ELSE Deeper(g[k - 1])
    <3> TAKE k \in 0 .. n
    <3>1. CASE k = 0
      BY <2>1, <3>1
    <3>2. CASE k # 0
      <4>1. k - 1 \in 0 .. n /\ k - 1 \in Nat /\ (k - 1) + 1 = k
        BY <1>1, <3>2
      <4>2. g[k - 1] = UpTo(k - 1) /\ g[k] = UpTo((k - 1) + 1)
        BY <1>9, <4>1
      <4> QED
        BY <3>2, <4>1, <4>2, UpToNext
    <3> QED
      BY <3>1, <3>2
  <2> QED
    BY <2>1, <2>2
<1> DEFINE at == CHOOSE h : F(h)
<1>11. F(at)
  BY <1>10
<1>12. PathsTaken = at[n]
  BY <1>2
<1> HIDE DEF at
<1>13. \A k \in 0 .. n : at[k] = UpTo(k)
  <2> DEFINE T == {k \in 0 .. n : at[k] = UpTo(k)}
  <2>1. \A k \in 0 .. n : at[k] = IF k = 0 THEN start ELSE Deeper(at[k - 1])
    BY <1>11, Zenon
  <2>2. 0 \in T
    BY <1>1, <1>4, <2>1
  <2>3. ASSUME NEW k \in 0 .. n - 1, k \in T PROVE k + 1 \in T
    <3>1. k + 1 \in 0 .. n /\ k + 1 # 0 /\ (k + 1) - 1 = k /\ k \in Nat
      BY <1>1
    <3>2. at[k + 1] = Deeper(at[(k + 1) - 1])
      BY <2>1, <3>1, Zenon
    <3>3. at[k] = UpTo(k) /\ Deeper(UpTo(k)) = UpTo(k + 1)
      BY <2>3, <3>1, UpToNext
    <3> QED
      BY <3>1, <3>2, <3>3
  <2> HIDE DEF T
  <2>4. \A k \in 0 .. n : k \in T
    BY <1>1, <2>2, <2>3, InductionTo
  <2> QED
    BY <2>4 DEF T
<1>14. n \in 0 .. n
  BY <1>1
<1> QED
  BY <1>12, <1>13, <1>14 DEF n

\* The tree of files holds every path that leads somewhere.
LEMMA PathsOfFiles ==
  ASSUME IsFiniteSet(Inodes), IInv
  PROVE  {t[1] : t \in PathsTaken} = {p \in Seq(Names) : Resolve(p) # Null}
<1> DEFINE n == Cardinality(Inodes) - 1
<1>1. PathsTaken = UpTo(n)
  BY PathsTakenAre
<1>2. ASSUME NEW t \in UpTo(n) PROVE t[1] \in Seq(Names) /\ Resolve(t[1]) # Null
  BY Pointers DEF UpTo
<1>3. ASSUME NEW p \in Seq(Names), Resolve(p) # Null PROVE \E t \in UpTo(n) : t[1] = p
  <2>1. Len(p) <= n
    <3>1. Len(p) \in 0 .. n
      BY <1>3, PathsAreShort
    <3>2. n \in Int
      BY <1>3, PathsAreShort
    <3> HIDE DEF n
    <3> QED
      BY <3>1, <3>2
  <2>2. Resolve(p) \in Inodes
    BY <1>3, ResolveType
  <2> HIDE DEF n
  <2>3. << p, Resolve(p) >> \in UpTo(n)
    BY <2>1, <2>2 DEF UpTo
  <2> QED
    BY <2>3
<1> HIDE DEF n
<1> QED
  BY <1>1, <1>2, <1>3

-----------------------------------------------------------------------------
(* The graph implements the tree *)

\* The inode that a name leads to from another, or from nowhere.
Entry(d, n) == IF d \in Inodes /\ dirents[d][n] # Absent THEN dirents[d][n] ELSE Null
\* The file of the tree that an inode is.
FileOf(i) == [plain |-> type[i] = "plain", words |-> data[i]]
Exist == {p \in Seq(Names) : Resolve(p) # Null}

\* What the steps of the tree need to know of a state.
TreeFacts ==
  /\ Resolve(<< >>) = Root
  /\ \A p \in Seq(Names), n \in Names : Resolve(Append(p, n)) = Entry(Resolve(p), n)
  /\ \A p \in Exist, q \in Seq(Names) : Resolve(p) = Resolve(q) => p = q
  /\ \A p \in Exist : Resolve(p) \in Attached /\ type[Resolve(p)] # "free"
  /\ \A i \in Attached : \E p \in Exist : Resolve(p) = i
  /\ Exist \subseteq PathsOfTree
  /\ FilesOfTree = [p \in Exist |-> FileOf(Resolve(p))]
  /\ PathOf(cwd) \in Exist /\ Resolve(PathOf(cwd)) = cwd

\* The facts follow from the invariant.
LEMMA TreeFactsHold ==
  ASSUME IsFiniteSet(Inodes), AInv
  PROVE  TreeFacts
<1>0. IInv /\ cwd \in Attached
  BY DEF AInv
<1>1. Resolve(<< >>) = Root
  BY <1>0, ResolveEmpty
<1>2. \A p \in Seq(Names), n \in Names : Resolve(Append(p, n)) = Entry(Resolve(p), n)
  <2> TAKE p \in Seq(Names), n \in Names
  <2>1. Resolve(Append(p, n)) = check_dirents(Resolve(p), n)
    BY <1>0, ResolveAppend
  <2>2. CASE check_dirents(Resolve(p), n) # Null
    BY <1>0, <2>1, <2>2, ChildLink DEF Entry
  <2>3. CASE check_dirents(Resolve(p), n) = Null
    BY <1>0, <2>1, <2>3, LinkFound DEF Entry
  <2> QED
    BY <2>2, <2>3
<1>3. \A p \in Exist, q \in Seq(Names) : Resolve(p) = Resolve(q) => p = q
  BY <1>0, OnePathEach DEF Exist
<1>4. \A i : i \in Attached <=> i \in Inodes /\ \E p \in Seq(Names) : Resolve(p) = i
  BY <1>0, AttachedIs
<1>5. ASSUME NEW p \in Exist PROVE Resolve(p) \in Attached /\ type[Resolve(p)] # "free"
  <2>1. p \in Seq(Names) /\ Resolve(p) \in Attached /\ Resolve(p) \in Inodes
    BY <1>0, <1>4, ResolveType DEF Exist
  <2>2. CASE Resolve(p) = Root
    BY <1>0, <2>1, <2>2 DEF IInv, Dots
  <2>3. CASE Resolve(p) # Root
    <3>1. PICK d \in Attached, n \in Names : dirents[d][n] # Absent /\ dirents[d][n] = Resolve(p)
      BY <1>0, <2>1, <2>3, HeldByAttached
    <3>2. d \in Inodes
      BY <1>4
    <3> QED
      BY <1>0, <2>1, <3>1, <3>2 DEF IInv, OneName
  <2> QED
    BY <2>1, <2>2, <2>3
<1>6. \A i \in Attached : \E p \in Exist : Resolve(p) = i
  BY <1>4, Pointers DEF Exist
<1>7. ASSUME NEW p \in Exist PROVE p \in PathsOfTree
  <2>1. Len(p) \in 0 .. Cardinality(Inodes) - 1 /\ p \in Seq(Names)
    BY <1>0, PathsAreShort DEF Exist
  <2>2. p \in [1 .. Len(p) -> Names]
    BY <2>1, LenProperties
  <2> DEFINE n == Len(p)
             N == Cardinality(Inodes) - 1
  <2>3. n \in 0 .. N /\ p \in [1 .. n -> Names]
    BY <2>1, <2>2
  <2> HIDE DEF n, N
  <2>4. p \in UNION {[1 .. k -> Names] : k \in 0 .. N}
    BY <2>3
  <2> QED
    BY <2>4 DEF PathsOfTree, N
<1>8. FilesOfTree = [p \in Exist |-> FileOf(Resolve(p))]
  <2>1. {t[1] : t \in PathsTaken} = Exist
    BY <1>0, PathsOfFiles DEF Exist
  <2> QED
    BY <2>1, Zenon DEF FilesOfTree, FileOf
<1>9. PathOf(cwd) \in Exist /\ Resolve(PathOf(cwd)) = cwd
  <2>1. PICK p \in Exist : Resolve(p) = cwd
    BY <1>0, <1>6
  <2>2. isDirectory(cwd)
    BY <1>0 DEF IInv, TypeOK, Directories, isDirectory
  <2>3. PathOf(cwd) = p
    BY <1>0, <2>1, <2>2, ClimbsBack DEF Exist
  <2> QED
    BY <2>1, <2>3
<1> QED
  BY <1>1, <1>2, <1>3, <1>5, <1>6, <1>7, <1>8, <1>9 DEF TreeFacts

\* TreeFactsHold, of the next state.
LEMMA TreeFactsNext ==
  ASSUME IsFiniteSet(Inodes)
  PROVE  AInv' => TreeFacts'
<1>1. AInv => TreeFacts
  BY TreeFactsHold
<1> QED
  BY <1>1, PTL

\* An inode that is not a plain file has no words.
WordsInFiles == \A i \in Inodes : type[i] # "plain" => data[i] = << >>
RInv == AInv /\ WordsInFiles

\* Every command leaves words in plain files only.
LEMMA NextWords ==
  ASSUME IsFiniteSet(Inodes), Removable \subseteq Names, RInv, [Next]_vars
  PROVE  RInv'
<1>1. AInv' /\ AInv /\ IInv /\ IInv' /\ cwd \in Attached
  BY NextAttached DEF AInv, RInv
<1>2. StepKinds
  BY <1>1, NextKinds
<1>3. /\ type \in [Inodes -> {"free", "plain", "directory"}]
      /\ data \in [Inodes -> Seq(Words)]
      /\ \A i \in Inodes : type[i] # "plain" => data[i] = << >>
  BY <1>1 DEF IInv, TypeOK, RInv, WordsInFiles
<1> SUFFICES \A i \in Inodes : type'[i] # "plain" => data'[i] = << >>
  BY <1>1, <1>3 DEF RInv, WordsInFiles
<1>4. CASE UNCHANGED << type, data >>
  BY <1>3, <1>4
<1>5. ASSUME NEW f \in Inodes, NEW w \in Contents, AppendsWords(f, w)
      PROVE  \A i \in Inodes : type'[i] # "plain" => data'[i] = << >>
  BY <1>3, <1>5 DEF AppendsWords
<1>6. ASSUME NEW d \in Inodes, NEW n \in Names, NEW i \in Inodes, AddsDirectory(d, n, i)
      PROVE  \A j \in Inodes : type'[j] # "plain" => data'[j] = << >>
  BY <1>3, <1>6 DEF AddsDirectory, Adds
<1>7. ASSUME NEW d \in Inodes, NEW n \in Names, NEW i \in Inodes, NEW w \in Contents, AddsFile(d, n, i, w)
      PROVE  \A j \in Inodes : type'[j] # "plain" => data'[j] = << >>
  BY <1>3, <1>7 DEF AddsFile, Adds
<1> QED
  BY <1>2, <1>4, <1>5, <1>6, <1>7 DEF StepKinds, Idles, Moves, Removes

\* A prefix, component by component.
LEMMA PrefixIs ==
  ASSUME NEW s \in Seq(Names), NEW t \in Seq(Names)
  PROVE  IsPrefix(s, t) <=> Len(s) <= Len(t) /\ \A k \in 1 .. Len(s) : s[k] = t[k]
<1> DEFINE m == Len(s)
<1>1. m \in Nat /\ Len(t) \in Nat /\ s = [k \in 1 .. m |-> s[k]] /\ DOMAIN t = 1 .. Len(t)
  BY LenProperties
<1>2. SubSeq(s, 1, m) = [k \in 1 .. m |-> s[k]] /\ SubSeq(t, 1, m) = [k \in 1 .. m |-> t[k]]
  <2>1. /\ SubSeq(s, 1, m) = [k \in 1 .. (1 + m) - 1 |-> s[(k + 1) - 1]]
        /\ SubSeq(t, 1, m) = [k \in 1 .. (1 + m) - 1 |-> t[(k + 1) - 1]]
    BY <1>1 DEF SubSeq
  <2> HIDE DEF m
  <2>2. (1 + m) - 1 = m /\ \A k \in 1 .. m : (k + 1) - 1 = k
    BY <1>1
  <2> QED
    BY <2>1, <2>2
<1> HIDE DEF m
<1>3. IsPrefix(s, t) <=> m <= Len(t) /\ [k \in 1 .. m |-> s[k]] = [k \in 1 .. m |-> t[k]]
  BY <1>2 DEF IsPrefix, m
<1>4. [k \in 1 .. m |-> s[k]] = [k \in 1 .. m |-> t[k]] <=> \A k \in 1 .. m : s[k] = t[k]
  OBVIOUS
<1> QED
  BY <1>3, <1>4 DEF m

\* A prefix of a path one longer is a prefix of the path or all of it.
LEMMA PrefixAppend ==
  ASSUME NEW q \in Seq(Names), NEW p \in Seq(Names), NEW m \in Names
  PROVE  IsPrefix(q, Append(p, m)) <=> IsPrefix(q, p) \/ q = Append(p, m)
<1> DEFINE r == Append(p, m)
<1>1. r \in Seq(Names) /\ Len(r) = Len(p) + 1 /\ Len(p) \in Nat /\ Len(q) \in Nat
      /\ \A k \in 1 .. Len(p) : r[k] = p[k]
  BY AppendProperties, LenProperties
<1> HIDE DEF r
<1>2. /\ IsPrefix(q, r) <=> Len(q) <= Len(r) /\ \A k \in 1 .. Len(q) : q[k] = r[k]
      /\ IsPrefix(q, p) <=> Len(q) <= Len(p) /\ \A k \in 1 .. Len(q) : q[k] = p[k]
  BY <1>1, PrefixIs
<1>3. CASE Len(q) <= Len(p)
  <2>1. \A k \in 1 .. Len(q) : k \in 1 .. Len(p)
    BY <1>1, <1>3
  <2>2. q # r
    BY <1>1, <1>3
  <2>3. Len(q) <= Len(r)
    BY <1>1, <1>3
  <2>4. (\A k \in 1 .. Len(q) : q[k] = r[k]) <=> (\A k \in 1 .. Len(q) : q[k] = p[k])
    BY <1>1, <2>1
  <2> QED
    BY <1>2, <1>3, <2>2, <2>3, <2>4 DEF r
<1>4. CASE ~ (Len(q) <= Len(p))
  <2>1. ~ IsPrefix(q, p)
    BY <1>2, <1>4
  <2>2. ASSUME IsPrefix(q, r) PROVE q = r
    <3>1. Len(q) = Len(r) /\ \A k \in 1 .. Len(q) : q[k] = r[k]
      BY <1>1, <1>2, <1>4, <2>2
    <3> QED
      BY <1>1, <3>1, SeqEqual
  <2>3. q = r => IsPrefix(q, r)
    BY <1>1, <1>2
  <2> QED
    BY <2>1, <2>2, <2>3 DEF r
<1> QED
  BY <1>3, <1>4

\* The components of a path one longer.
LEMMA AppendDiffers ==
  ASSUME NEW p \in Seq(Names), NEW n \in Names
  PROVE  /\ Append(p, n) \in Seq(Names) /\ Append(p, n) # p /\ Append(p, n) # << >>
         /\ \A q \in Seq(Names), m \in Names : Append(p, n) = Append(q, m) => p = q /\ n = m
         /\ \A m \in Names : Append(Append(p, n), m) # Append(p, n)
<1>1. Append(p, n) \in Seq(Names) /\ Len(Append(p, n)) = Len(p) + 1 /\ Len(p) \in Nat
      /\ Append(p, n)[Len(p) + 1] = n /\ \A k \in 1 .. Len(p) : Append(p, n)[k] = p[k]
  BY AppendProperties, LenProperties
<1>2. Append(p, n) # p /\ Append(p, n) # << >>
  <2>1. Len(<< >>) = 0
    OBVIOUS
  <2> QED
    BY <1>1, <2>1
<1>3. ASSUME NEW q \in Seq(Names), NEW m \in Names, Append(p, n) = Append(q, m)
      PROVE  p = q /\ n = m
  <2>1. Len(Append(q, m)) = Len(q) + 1 /\ Len(q) \in Nat
        /\ Append(q, m)[Len(q) + 1] = m /\ \A k \in 1 .. Len(q) : Append(q, m)[k] = q[k]
    BY AppendProperties, LenProperties
  <2>2. Len(p) = Len(q)
    BY <1>1, <1>3, <2>1
  <2>3. \A k \in 1 .. Len(p) : p[k] = q[k]
    BY <1>1, <1>3, <2>1, <2>2
  <2>4. p = q
    BY <2>2, <2>3, SeqEqual
  <2> QED
    BY <1>1, <1>3, <2>1, <2>2, <2>4
<1>4. ASSUME NEW m \in Names PROVE Append(Append(p, n), m) # Append(p, n)
  <2>1. Len(Append(Append(p, n), m)) = Len(Append(p, n)) + 1
    BY <1>1, AppendProperties
  <2> QED
    BY <1>1, <2>1
<1> QED
  BY <1>1, <1>2, <1>3, <1>4

\* What a path leads to in the next state, one component further.
LEMMA NextEntry ==
  ASSUME TreeFacts', NEW p \in Seq(Names), NEW n \in Names
  PROVE  (Resolve(Append(p, n)))' =
           IF Resolve(p)' \in Inodes /\ dirents'[Resolve(p)'][n] # Absent
             THEN dirents'[Resolve(p)'][n] ELSE Null
BY DEF TreeFacts, Entry

\* A new inode takes a path that led nowhere, and the others lead where they did.
LEMMA AddsPath ==
  ASSUME IInv, TreeFacts, TreeFacts', NEW d \in Inodes, NEW n \in Names, NEW i \in Inodes,
         Adds(d, n, i), NEW up \in Exist, Resolve(up) = d
  PROVE  \A p \in Seq(Names) :
           (Resolve(p))' = IF p = Append(up, n) THEN i ELSE Resolve(p)
<1> DEFINE q == Append(up, n)
           T == {p \in Seq(Names) : (Resolve(p))' = IF p = q THEN i ELSE Resolve(p)}
<1>1. /\ dirents[d][n] = Absent /\ i # d /\ i # Absent /\ up \in Seq(Names) /\ Null \notin Inodes
      /\ \A c \in Inodes, m \in Names :
           dirents'[c][m] = IF c = d /\ m = n THEN i ELSE dirents[c][m]
  BY Pointers DEF Adds, Exist
<1>2. \A m \in Names : dirents[i][m] = Absent
  <2>1. dirents[i] = NoDirents
    BY DEF Adds, IInv, TypeOK, Directories
  <2>2. \A m \in Names : NoDirents[m] = Absent
    BY EntriesHaveNames DEF NoDirents
  <2> QED
    BY <2>1, <2>2
<1>3. q # << >> /\ q \in Seq(Names) /\ \A m \in Names : Append(q, m) # q
  BY <1>1, AppendDiffers
<1>4. Resolve(q) = Null
  BY <1>1 DEF TreeFacts, Entry
<1>5. \A p \in Seq(Names), m \in Names : Resolve(Append(p, m)) = Entry(Resolve(p), m)
  BY DEF TreeFacts
<1>6. << >> \in T
  BY <1>3 DEF TreeFacts
<1>7. ASSUME NEW p \in Seq(Names), NEW m \in Names, p \in T PROVE Append(p, m) \in T
  <2>1. Append(p, m) \in Seq(Names)
    BY AppendDiffers
  <2>2. CASE p = q
    <3>1. (Resolve(p))' = i
      BY <1>7, <2>2
    <3>2. (Resolve(Append(p, m)))' = Null
      BY <1>1, <1>2, <3>1, NextEntry
    <3>3. Resolve(Append(p, m)) = Null
      BY <1>1, <1>4, <1>5, <2>2 DEF Entry
    <3> QED
      BY <1>3, <2>1, <2>2, <3>2, <3>3
  <2>3. CASE p # q
    <3>1. (Resolve(p))' = Resolve(p)
      BY <1>7, <2>3
    <3> DEFINE x == Resolve(p)
    <3>2. (Resolve(Append(p, m)))' =
            IF x \in Inodes /\ dirents'[x][m] # Absent THEN dirents'[x][m] ELSE Null
      BY <3>1, NextEntry
    <3>3. Resolve(Append(p, m)) = Entry(x, m)
      BY <1>5
    <3>4. x = d => p = up
      BY DEF TreeFacts
    <3>5. Append(p, m) = q => p = up /\ m = n
      BY <1>1, AppendDiffers
    <3> HIDE DEF x, q, T
    <3>6. CASE x = d /\ m = n
      <4>1. Append(p, m) = q
        BY <3>4, <3>6 DEF q
      <4>2. (Resolve(Append(p, m)))' = i
        BY <1>1, <3>2, <3>6
      <4> QED
        BY <2>1, <4>1, <4>2 DEF T
    <3>7. CASE ~ (x = d /\ m = n)
      <4>1. Append(p, m) # q
        BY <3>5, <3>7 DEF x
      <4>2. x \in Inodes => dirents'[x][m] = dirents[x][m]
        BY <1>1, <3>7
      <4>3. (Resolve(Append(p, m)))' = Resolve(Append(p, m))
        BY <3>2, <3>3, <4>2 DEF Entry
      <4> QED
        BY <2>1, <4>1, <4>3 DEF T
    <3> QED
      BY <3>6, <3>7
  <2> QED
    BY <2>2, <2>3
<1> HIDE DEF T
<1>8. \A p \in Seq(Names) : p \in T
  BY <1>6, <1>7, PathInduction
<1> QED
  BY <1>8 DEF T

\* A removed path leads nowhere, nor does any that begins with it.
LEMMA RemovesPaths ==
  ASSUME IInv, TreeFacts, TreeFacts', NEW n \in Names, Removes(n)
  PROVE  \A p \in Seq(Names) :
           (Resolve(p))' = IF IsPrefix(Append(PathOf(cwd), n), p) THEN Null ELSE Resolve(p)
<1> DEFINE here == PathOf(cwd)
           q == Append(here, n)
           T == {p \in Seq(Names) : (Resolve(p))' = IF IsPrefix(q, p) THEN Null ELSE Resolve(p)}
<1>1. \A c \in Inodes, m \in Names :
        dirents'[c][m] = IF c = cwd /\ m = n THEN Absent ELSE dirents[c][m]
  BY EntriesHaveNames DEF Removes, IInv, TypeOK
<1>2. here \in Exist /\ Resolve(here) = cwd /\ here \in Seq(Names) /\ Null \notin Inodes
  BY Pointers DEF TreeFacts, Exist
<1> HIDE DEF here
<1>3. q \in Seq(Names) /\ Len(q) = Len(here) + 1 /\ Len(here) \in Nat
  BY <1>2, AppendProperties, LenProperties
<1>4. \A p \in Seq(Names), m \in Names : Resolve(Append(p, m)) = Entry(Resolve(p), m)
  BY DEF TreeFacts
<1>5. << >> \in T
  <2>1. ~ IsPrefix(q, << >>)
    <3>1. Len(<< >>) = 0
      OBVIOUS
    <3> QED
      BY <1>3, <3>1 DEF IsPrefix
  <2>2. Resolve(<< >>) = Root /\ (Resolve(<< >>))' = Root
    BY DEF TreeFacts
  <2> QED
    BY <2>1, <2>2
<1>6. ASSUME NEW p \in Seq(Names), NEW m \in Names
      PROVE  IsPrefix(q, Append(p, m)) <=> IsPrefix(q, p) \/ q = Append(p, m)
  BY <1>3, PrefixAppend
<1>7. ASSUME NEW p \in Seq(Names), NEW m \in Names, p \in T PROVE Append(p, m) \in T
  <2>1. Append(p, m) \in Seq(Names)
    BY AppendDiffers
  <2>2. CASE IsPrefix(q, p)
    <3>1. (Resolve(p))' = Null
      BY <1>7, <2>2
    <3>2. (Resolve(Append(p, m)))' = Null
      BY <1>2, <3>1, NextEntry
    <3> QED
      BY <1>6, <2>1, <2>2, <3>2
  <2>3. CASE ~ IsPrefix(q, p)
    <3>1. (Resolve(p))' = Resolve(p)
      BY <1>7, <2>3
    <3> DEFINE x == Resolve(p)
    <3>2. (Resolve(Append(p, m)))' =
            IF x \in Inodes /\ dirents'[x][m] # Absent THEN dirents'[x][m] ELSE Null
      BY <3>1, NextEntry
    <3>3. Resolve(Append(p, m)) = Entry(x, m)
      BY <1>4
    <3>4. x = cwd => p = here
      BY <1>2 DEF TreeFacts
    <3>5. q = Append(p, m) => p = here /\ m = n
      BY <1>2, AppendDiffers
    <3> HIDE DEF x, T
    <3>6. CASE x = cwd /\ m = n
      <4>1. Append(p, m) = q
        BY <3>4, <3>6
      <4>2. (Resolve(Append(p, m)))' = Null
        BY <1>1, <3>2, <3>6
      <4> QED
        BY <1>6, <2>1, <4>1, <4>2 DEF T
    <3>7. CASE ~ (x = cwd /\ m = n)
      <4>1. ~ IsPrefix(q, Append(p, m))
        BY <1>2, <1>6, <2>3, <3>5, <3>7 DEF x
      <4>2. x \in Inodes => dirents'[x][m] = dirents[x][m]
        BY <1>1, <3>7
      <4>3. (Resolve(Append(p, m)))' = Resolve(Append(p, m))
        BY <3>2, <3>3, <4>2 DEF Entry
      <4> QED
        BY <2>1, <4>1, <4>3 DEF T
    <3> QED
      BY <3>6, <3>7
  <2> QED
    BY <2>2, <2>3
<1> HIDE DEF T
<1>8. \A p \in Seq(Names) : p \in T
  BY <1>5, <1>7, PathInduction
<1> QED
  BY <1>8 DEF T, here

\* What the tree says of sequences is what the graph says of them.
LEMMA TreeSequences ==
  /\ \A s, t : Tree!IsPrefix(s, t) <=> IsPrefix(s, t)
  /\ \A p \in Seq(Names), n \in Names : Tree!Front(Append(p, n)) = p
<1>1. \A s, t : Tree!IsPrefix(s, t) <=> IsPrefix(s, t)
  BY DEF IsPrefix, Tree!IsPrefix
<1>2. ASSUME NEW p \in Seq(Names), NEW n \in Names PROVE Tree!Front(Append(p, n)) = p
  <2> DEFINE q == Append(p, n)
             m == Len(p)
  <2>1. q \in Seq(Names) /\ Len(q) = m + 1 /\ m \in Nat /\ \A k \in 1 .. m : q[k] = p[k]
    BY AppendProperties, LenProperties
  <2>2. Tree!Front(q) = SubSeq(q, 1, Len(q) - 1)
    BY DEF Tree!Front
  <2> HIDE DEF q
  <2>3. Len(q) - 1 = m /\ \A k \in 1 .. m : k \in 1 .. m + 1
    BY <2>1
  <2>4. \A k \in 1 .. m : q[k] \in Names
    BY <2>1, <2>3, LenProperties
  <2>5. /\ SubSeq(q, 1, m) \in Seq(Names)
        /\ Len(SubSeq(q, 1, m)) = IF 1 <= m THEN m - 1 + 1 ELSE 0
        /\ \A k \in 1 .. m - 1 + 1 : SubSeq(q, 1, m)[k] = q[1 + k - 1]
    BY <2>1, <2>4, SubSeqProperties
  <2>6. Len(SubSeq(q, 1, m)) = m /\ \A k \in 1 .. m : SubSeq(q, 1, m)[k] = q[k]
    BY <2>1, <2>5
  <2>7. SubSeq(q, 1, m) = p
    BY <2>1, <2>5, <2>6, SeqEqual
  <2> QED
    BY <2>2, <2>3, <2>7 DEF q
<1> QED
  BY <1>1, <1>2

\* A step of the tree, or one that changes nothing of it.
TreeStep == Tree!Next \/ UNCHANGED << FilesOfTree, PathOf(cwd), ysh >>

\* At the start the tree is an empty root.
LEMMA InitTree ==
  ASSUME IsFiniteSet(Inodes), Init
  PROVE  Tree!Init
<1>1. AInv
  BY InitAttached
<1>2. TreeFacts
  BY <1>1, TreeFactsHold
<1>3. \A i \in Inodes, m \in Names : dirents[i][m] = Absent
  <2>1. /\ NoDirents \in [Entries -> {Absent}] /\ "." \in Entries /\ ".." \in Entries
        /\ Names \subseteq Entries /\ "." \notin Names /\ ".." \notin Names
    BY EntriesHaveNames DEF NoDirents
  <2> QED
    BY <2>1 DEF Init
<1>4. ASSUME NEW p \in Exist PROVE p = << >>
  <2> SUFFICES ASSUME p # << >> PROVE FALSE
    OBVIOUS
  <2>1. p \in Seq(Names) /\ Resolve(p) # Null
    BY DEF Exist
  <2>2. PICK q \in Seq(Names), n \in Names : p = Append(q, n)
    BY <2>1, SequenceEmptyOrAppend
  <2>3. Resolve(p) = Entry(Resolve(q), n)
    BY <1>2, <2>2 DEF TreeFacts
  <2> QED
    BY <1>2, <1>3, <2>1, <2>2, <2>3 DEF Entry, TreeFacts
<1>5. PathOf(cwd) = << >> /\ Exist = {<< >>}
  <2>1. << >> \in Exist
    <3>1. << >> \in Seq(Names)
      OBVIOUS
    <3> QED
      BY <1>2, <3>1, Pointers DEF TreeFacts, Exist
  <2> QED
    BY <1>2, <1>4, <2>1 DEF TreeFacts
<1>6. FileOf(Root) = [plain |-> FALSE, words |-> << >>]
  BY Pointers DEF Init, FileOf
<1>7. FilesOfTree = [p \in {<< >>} |-> FileOf(Resolve(p))] /\ Resolve(<< >>) = Root
  BY <1>2, <1>5 DEF TreeFacts
<1>8. FilesOfTree = [p \in {<< >>} |-> [plain |-> FALSE, words |-> << >>]]
  BY <1>6, <1>7
<1> QED
  BY <1>5, <1>8 DEF Tree!Init, Tree!Directory, Init

\* What the files are in the next state.
LEMMA NextFiles ==
  ASSUME TreeFacts, TreeFacts'
  PROVE  /\ FilesOfTree = [p \in Exist |-> FileOf(Resolve(p))]
         /\ FilesOfTree' = [p \in Exist' |->
              [plain |-> type'[Resolve(p)'] = "plain", words |-> data'[Resolve(p)']]]
BY DEF TreeFacts, FileOf

\* Paths lead where they did as long as no entry changes.
LEMMA ResolveStays ==
  ASSUME TreeFacts, TreeFacts', UNCHANGED dirents
  PROVE  \A p \in Seq(Names) : (Resolve(p))' = Resolve(p)
<1> DEFINE T == {p \in Seq(Names) : (Resolve(p))' = Resolve(p)}
<1>1. << >> \in T
  BY DEF TreeFacts
<1>2. ASSUME NEW p \in Seq(Names), NEW m \in Names, p \in T PROVE Append(p, m) \in T
  <2>1. Append(p, m) \in Seq(Names) /\ (Resolve(p))' = Resolve(p)
    BY <1>2, AppendDiffers
  <2>2. (Resolve(Append(p, m)))' =
          IF Resolve(p) \in Inodes /\ dirents[Resolve(p)][m] # Absent
            THEN dirents[Resolve(p)][m] ELSE Null
    BY <2>1, NextEntry
  <2>3. Resolve(Append(p, m)) = Entry(Resolve(p), m)
    BY DEF TreeFacts
  <2> QED
    BY <2>1, <2>2, <2>3 DEF Entry
<1> HIDE DEF T
<1>3. \A p \in Seq(Names) : p \in T
  BY <1>1, <1>2, PathInduction
<1> QED
  BY <1>3 DEF T

\* The current directory has the path that leads to it.
LEMMA HereIs ==
  ASSUME TreeFacts', NEW p \in Seq(Names), Resolve(p)' = cwd', p \in Exist'
  PROVE  PathOf(cwd)' = p
BY DEF TreeFacts, Exist

\* The path of the current directory stays if it leads there in both states.
LEMMA HereStays ==
  ASSUME TreeFacts, TreeFacts', UNCHANGED cwd,
         NEW p \in Exist, Resolve(p) = cwd, (Resolve(p))' = cwd
  PROVE  PathOf(cwd)' = PathOf(cwd)
<1>1. PathOf(cwd) = p
  BY DEF TreeFacts, Exist
<1>2. p \in Exist' /\ p \in Seq(Names)
  BY DEF TreeFacts, Exist
<1>3. PathOf(cwd)' = p
  BY <1>2, HereIs
<1> QED
  BY <1>1, <1>3

\* A step that leaves the graph alone, or moves in it.
LEMMA QuietTree ==
  ASSUME IsFiniteSet(Inodes), IInv, TreeFacts, TreeFacts', IInv',
         Idles \/ (Moves /\ ysh = "running")
  PROVE  TreeStep
<1>1. UNCHANGED << type, dirents, data >>
  BY DEF Idles, Moves
<1>2. \A p \in Seq(Names) : (Resolve(p))' = Resolve(p)
  BY <1>1, ResolveStays
<1>3. Exist' = Exist
  BY <1>2 DEF Exist
<1>4. FilesOfTree' = FilesOfTree
  <2>1. \A p \in Exist : FileOf(Resolve(p)) =
          [plain |-> type'[Resolve(p)'] = "plain", words |-> data'[Resolve(p)']]
    BY <1>1, <1>2 DEF FileOf, Exist
  <2> QED
    BY <1>3, <2>1, NextFiles
<1>5. CASE Idles
  <2>1. PathOf(cwd)' = PathOf(cwd)
    <3>1. PICK p \in Exist : Resolve(p) = cwd
      BY DEF TreeFacts
    <3>2. (Resolve(p))' = cwd /\ UNCHANGED cwd
      BY <1>2, <1>5, <3>1 DEF Idles, Exist
    <3> QED
      BY <3>1, <3>2, HereStays
  <2>2. ysh' = ysh \/ (ysh = "running" /\ ysh' \in {"exited", "lost"})
    BY <1>5 DEF Idles
  <2> QED
    BY <1>4, <2>1, <2>2 DEF TreeStep, Tree!Next, Tree!Stop
<1>6. CASE Moves /\ ysh = "running"
  <2> DEFINE q == PathOf(cwd)'
  <2>1. q \in Exist /\ Resolve(q) = cwd' /\ q \in Seq(Names)
    BY <1>2, <1>3 DEF TreeFacts, Exist
  <2>2. FilesOfTree[q] = FileOf(cwd') /\ DOMAIN FilesOfTree = Exist
    BY <2>1 DEF TreeFacts
  <2>3. type[cwd'] # "plain" /\ ysh' = ysh
    BY <1>1, <1>6 DEF Moves, isDirectory
  <2>4. ~ FilesOfTree[q].plain
    <3> DEFINE c == cwd'
    <3>1. FileOf(c).plain = (type[c] = "plain")
      BY DEF FileOf
    <3>2. FilesOfTree[q].plain = FileOf(c).plain
      BY <2>2
    <3> HIDE DEF q, c
    <3> QED
      BY <2>3, <3>1, <3>2 DEF c
  <2> QED
    BY <1>4, <1>6, <2>1, <2>2, <2>3, <2>4 DEF TreeStep, Tree!Next, Tree!ChangeDir
<1> QED
  BY <1>5, <1>6

\* A new inode is a new file of the tree.
LEMMA AddsTree ==
  ASSUME IInv, AttachedLeast, TreeFacts, TreeFacts', WordsInFiles, ysh = "running",
         NEW d \in Inodes, NEW n \in Names, NEW i \in Inodes,
         AddsDirectory(d, n, i) \/ \E w \in Contents : AddsFile(d, n, i, w)
  PROVE  TreeStep
<1>1. Adds(d, n, i)
  BY DEF AddsDirectory, AddsFile
<1>2. d \in Attached /\ type[d] = "directory" /\ type[i] = "free" /\ i # Null
      /\ UNCHANGED << cwd, ysh >>
  BY <1>1, Pointers DEF Adds
<1>3. PICK up \in Exist : Resolve(up) = d
  BY <1>2 DEF TreeFacts
<1>4. up \in Seq(Names) /\ Resolve(up) # Null
  BY <1>3 DEF Exist
<1> DEFINE q == Append(up, n)
<1>5. \A p \in Seq(Names) : (Resolve(p))' = IF p = q THEN i ELSE Resolve(p)
  BY <1>1, <1>3, AddsPath
<1>6. q \in Seq(Names) /\ q # << >> /\ q # up /\ Tree!Front(q) = up
  BY <1>4, AppendDiffers, TreeSequences
<1>7. Resolve(q) = Null
  BY <1>1, <1>3, <1>4 DEF TreeFacts, Entry, Adds
<1> HIDE DEF q
<1>8. q \notin Exist /\ Exist' = {q} \cup Exist
  BY <1>2, <1>5, <1>6, <1>7 DEF Exist
<1>9. q \in PathsOfTree
  BY <1>8 DEF TreeFacts
<1>10. \A p \in Exist : Resolve(p) \in Inodes /\ Resolve(p) # i /\ (Resolve(p))' = Resolve(p)
  BY <1>2, <1>5, <1>8 DEF TreeFacts, Exist, AttachedLeast
<1>11. q \in Tree!Free
  <2>1. FilesOfTree = [p \in Exist |-> FileOf(Resolve(p))]
    BY DEF TreeFacts
  <2>2. FilesOfTree[up].plain = (type[d] = "plain")
    BY <1>3, <2>1 DEF FileOf
  <2> QED
    BY <1>2, <1>3, <1>6, <1>8, <1>9, <2>1, <2>2 DEF Tree!Free
<1>12. PathOf(cwd)' = PathOf(cwd)
  <2>1. PICK p \in Exist : Resolve(p) = cwd
    BY DEF TreeFacts
  <2>2. (Resolve(p))' = cwd
    BY <1>10, <2>1
  <2> QED
    BY <1>2, <2>1, <2>2, HereStays
<1>13. ASSUME NEW f, f = [plain |-> type'[i] = "plain", words |-> data'[i]],
              \A j \in Inodes : j # i => type'[j] = type[j] /\ data'[j] = data[j]
       PROVE  FilesOfTree' = Tree!With(q, f)
  <2>1. /\ FilesOfTree = [p \in Exist |-> FileOf(Resolve(p))]
        /\ FilesOfTree' = [p \in Exist' |->
             [plain |-> type'[Resolve(p)'] = "plain", words |-> data'[Resolve(p)']]]
    BY NextFiles
  <2>2. DOMAIN FilesOfTree = Exist
    BY <2>1
  <2>3. (Resolve(q))' = i
    BY <1>5, <1>6
  <2>4. \A p \in Exist : [plain |-> type'[Resolve(p)'] = "plain", words |-> data'[Resolve(p)']]
                           = FilesOfTree[p]
    BY <1>10, <1>13, <2>1 DEF FileOf
  <2>5. \A p \in Exist' : [plain |-> type'[Resolve(p)'] = "plain", words |-> data'[Resolve(p)']]
                           = IF p = q THEN f ELSE FilesOfTree[p]
    BY <1>8, <1>13, <2>3, <2>4
  <2>6. FilesOfTree' = [p \in {q} \cup Exist |-> IF p = q THEN f ELSE FilesOfTree[p]]
    BY <1>8, <2>1, <2>5
  <2> QED
    BY <2>2, <2>6 DEF Tree!With
<1>14. CASE AddsDirectory(d, n, i)
  <2>1. type'[i] = "directory" /\ data'[i] = << >>
        /\ \A j \in Inodes : j # i => type'[j] = type[j] /\ data'[j] = data[j]
    BY <1>2, <1>14 DEF AddsDirectory, WordsInFiles, IInv, TypeOK
  <2>2. Tree!Directory = [plain |-> type'[i] = "plain", words |-> data'[i]]
    BY <2>1 DEF Tree!Directory
  <2>3. FilesOfTree' = Tree!With(q, Tree!Directory)
    BY <1>13, <2>1, <2>2
  <2> QED
    BY <1>2, <1>11, <1>12, <2>3 DEF TreeStep, Tree!Next, Tree!MakeDirectory
<1>15. ASSUME NEW w \in Contents, AddsFile(d, n, i, w) PROVE TreeStep
  <2>1. type'[i] = "plain" /\ data'[i] = w
        /\ \A j \in Inodes : j # i => type'[j] = type[j] /\ data'[j] = data[j]
    BY <1>2, <1>15 DEF AddsFile, IInv, TypeOK
  <2>2. Tree!Plain(w) = [plain |-> type'[i] = "plain", words |-> data'[i]]
    BY <2>1 DEF Tree!Plain
  <2>3. FilesOfTree' = Tree!With(q, Tree!Plain(w))
    BY <1>13, <2>1, <2>2
  <2> QED
    BY <1>2, <1>11, <1>12, <2>3 DEF TreeStep, Tree!Next, Tree!MakeFile
<1> QED
  BY <1>14, <1>15

\* make on a file that exists puts the words after those of the file.
LEMMA AppendsTree ==
  ASSUME IInv, AttachedLeast, TreeFacts, TreeFacts', ysh = "running",
         NEW f \in Inodes, NEW w \in Contents, AppendsWords(f, w)
  PROVE  TreeStep
<1>1. /\ f \in Attached /\ type[f] = "plain" /\ data' = [data EXCEPT ![f] = @ \o w]
      /\ UNCHANGED << type, dirents, cwd, ysh >>
  BY DEF AppendsWords
<1>2. \A p \in Seq(Names) : (Resolve(p))' = Resolve(p)
  BY <1>1, ResolveStays
<1>3. Exist' = Exist
  BY <1>2 DEF Exist
<1>4. PICK q \in Exist : Resolve(q) = f
  BY <1>1 DEF TreeFacts
<1>5. \A p \in Exist : Resolve(p) \in Inodes /\ (Resolve(p) = f => p = q) /\ p \in Seq(Names)
  BY <1>4 DEF TreeFacts, Exist, AttachedLeast
<1>6. /\ FilesOfTree = [p \in Exist |-> FileOf(Resolve(p))]
      /\ FilesOfTree' = [p \in Exist' |->
           [plain |-> type'[Resolve(p)'] = "plain", words |-> data'[Resolve(p)']]]
  BY NextFiles
<1>7. FilesOfTree[q] = [plain |-> TRUE, words |-> data[f]]
  BY <1>1, <1>4, <1>6 DEF FileOf
<1>8. data'[f] = data[f] \o w /\ \A j \in Inodes : j # f => data'[j] = data[j]
  BY <1>1 DEF IInv, TypeOK
<1> DEFINE g == [FilesOfTree EXCEPT ![q] = Tree!Plain(@.words \o w)]
<1>9. /\ g = [p \in Exist |-> g[p]] /\ \A p \in Exist : p # q => g[p] = FilesOfTree[p]
      /\ g[q] = [plain |-> TRUE, words |-> data[f] \o w]
  <2> DEFINE F == FilesOfTree
             r == Tree!Plain(F[q].words \o w)
  <2>1. DOMAIN F = Exist
    BY <1>6
  <2>2. r = [plain |-> TRUE, words |-> data[f] \o w]
    BY <1>7 DEF Tree!Plain
  <2>3. g = [F EXCEPT ![q] = r]
    OBVIOUS
  <2> HIDE DEF F, r, g
  <2>4. g = [p \in Exist |-> IF p = q THEN r ELSE F[p]]
    BY <2>1, <2>3
  <2> QED
    BY <2>2, <2>4 DEF F
<1>10. \A p \in Exist :
         [plain |-> type'[Resolve(p)'] = "plain", words |-> data'[Resolve(p)']] = g[p]
  <2> TAKE p \in Exist
  <2>1. (Resolve(p))' = Resolve(p) /\ Resolve(p) \in Inodes
    BY <1>2, <1>5
  <2> HIDE DEF g
  <2>2. CASE p = q
    BY <1>1, <1>4, <1>8, <1>9, <2>1, <2>2
  <2>3. CASE p # q
    <3>1. Resolve(p) # f
      BY <1>5, <2>3
    <3>2. g[p] = FileOf(Resolve(p))
      BY <1>6, <1>9, <2>3
    <3> QED
      BY <1>1, <1>8, <2>1, <3>1, <3>2 DEF FileOf
  <2> QED
    BY <2>2, <2>3
<1> HIDE DEF g
<1>11. FilesOfTree' = g
  BY <1>3, <1>6, <1>9, <1>10
<1>12. PathOf(cwd)' = PathOf(cwd)
  <2>1. PICK p \in Exist : Resolve(p) = cwd
    BY DEF TreeFacts
  <2>2. (Resolve(p))' = cwd
    BY <1>2, <1>5, <2>1
  <2> QED
    BY <1>1, <2>1, <2>2, HereStays
<1>13. q \in DOMAIN FilesOfTree /\ FilesOfTree[q].plain
  BY <1>6, <1>7
<1> QED
  BY <1>1, <1>11, <1>12, <1>13 DEF g, TreeStep, Tree!Next, Tree!MakeFile

\* What rm removes takes what is below it along.
LEMMA RemovesTree ==
  ASSUME IInv, TreeFacts, TreeFacts', ysh = "running", NEW n \in Names, Removes(n)
  PROVE  TreeStep
<1>1. dirents[cwd][n] # Absent /\ UNCHANGED << type, data, cwd, ysh >>
  BY DEF Removes
<1>2. PICK here \in Exist : here = PathOf(cwd) /\ Resolve(here) = cwd
  BY DEF TreeFacts
<1> DEFINE q == Append(here, n)
<1>3. here \in Seq(Names) /\ q \in Seq(Names) /\ q # << >> /\ Tree!Front(q) = here
      /\ Len(q) = Len(here) + 1 /\ Len(here) \in Nat
  BY AppendDiffers, TreeSequences, AppendProperties, LenProperties DEF Exist
<1>4. \A p \in Seq(Names) : (Resolve(p))' = IF IsPrefix(q, p) THEN Null ELSE Resolve(p)
  BY <1>2, RemovesPaths
<1>5. q \in Exist
  <2>1. cwd \in Inodes /\ dirents[cwd][n] \in Inodes
    BY <1>1, LinkFound DEF IInv, TypeOK, Directories
  <2>2. Resolve(q) = Entry(cwd, n)
    BY <1>2, <1>3 DEF TreeFacts
  <2> QED
    BY <1>1, <1>3, <2>1, <2>2, Pointers DEF Entry, Exist
<1> HIDE DEF q
<1>6. Exist' = {p \in Exist : ~ IsPrefix(q, p)}
  BY <1>4 DEF Exist
<1>7. \A p \in Exist' : p \in Exist /\ (Resolve(p))' = Resolve(p)
  BY <1>4, <1>6 DEF Exist
<1>8. ~ IsPrefix(q, here)
  BY <1>3 DEF IsPrefix
<1>9. PathOf(cwd)' = PathOf(cwd)
  <2>1. (Resolve(here))' = cwd
    BY <1>2, <1>3, <1>4, <1>8
  <2> QED
    BY <1>1, <1>2, <2>1, HereStays
<1>10. FilesOfTree' = [p \in {s \in DOMAIN FilesOfTree : ~ Tree!IsPrefix(q, s)} |-> FilesOfTree[p]]
  <2>1. /\ FilesOfTree = [p \in Exist |-> FileOf(Resolve(p))]
        /\ FilesOfTree' = [p \in Exist' |->
             [plain |-> type'[Resolve(p)'] = "plain", words |-> data'[Resolve(p)']]]
    BY NextFiles
  <2>2. DOMAIN FilesOfTree = Exist
    BY <2>1
  <2>3. \A p \in Exist' : [plain |-> type'[Resolve(p)'] = "plain", words |-> data'[Resolve(p)']]
                            = FilesOfTree[p]
    BY <1>1, <1>7, <2>1 DEF FileOf
  <2>4. {s \in DOMAIN FilesOfTree : ~ Tree!IsPrefix(q, s)} = Exist'
    BY <1>6, <2>2, TreeSequences
  <2> QED
    BY <2>1, <2>3, <2>4
<1>11. q \in DOMAIN FilesOfTree
  BY <1>5 DEF TreeFacts
<1> QED
  BY <1>1, <1>2, <1>3, <1>9, <1>10, <1>11 DEF TreeStep, Tree!Next, Tree!Unlink

\* Every command is a step of the tree, or changes nothing of it.
LEMMA NextTree ==
  ASSUME IsFiniteSet(Inodes), Removable \subseteq Names, RInv, [Next]_vars
  PROVE  TreeStep
<1>1. RInv'
  BY NextWords
<1>2. AInv /\ AInv' /\ IInv /\ IInv' /\ cwd \in Attached /\ WordsInFiles
  BY <1>1 DEF RInv, AInv
<1>3. TreeFacts /\ TreeFacts' /\ AttachedLeast
  BY <1>2, TreeFactsHold, TreeFactsNext, AttachedIsLeast
<1>4. StepKinds
  BY <1>2, NextKinds
<1> QED
  BY <1>2, <1>3, <1>4, QuietTree, AddsTree, AppendsTree, RemovesTree DEF StepKinds

\* The strengthened invariant holds in every state.
LEMMA WordsInvariant ==
  ASSUME IsFiniteSet(Inodes), Removable \subseteq Names
  PROVE  Spec => []RInv
<1>1. Init => RInv
  BY InitAttached DEF Init, RInv, WordsInFiles
<1>2. RInv /\ [Next]_vars => RInv'
  BY NextWords
<1> QED
  BY <1>1, <1>2, PTL DEF Spec

\* The graph of inodes is, command by command, a tree of files named by their
\* paths: cd goes to a directory of it, mkdir and make add one file below a
\* directory, or words to a file, and rm removes a file of the current directory
\* with all that is below it (commands.cpp:192-740, file_sys.cpp:292-330).
THEOREM TreeImplemented ==
  ASSUME IsFiniteSet(Inodes), Removable \subseteq Names
  PROVE  Spec => ImplementsTree
<1>1. Init => Tree!Init
  BY InitTree
<1>2. RInv /\ [Next]_vars => [Tree!Next]_<< FilesOfTree, PathOf(cwd), ysh >>
  BY NextTree DEF TreeStep
<1> QED
  BY <1>1, <1>2, WordsInvariant, PTL DEF Spec, ImplementsTree, Tree!Spec, Tree!vars
=============================================================================
