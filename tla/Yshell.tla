------------------------------- MODULE Yshell -------------------------------
(***************************************************************************)
(* yshell (src/asg2/code): a shell whose file system is a graph of inodes  *)
(* in memory.  An inode is an object; its number, nr, is data it carries.  *)
(* A command is one step, since nothing runs beside it.  A command with    *)
(* several operands treats each as a command of its own, from the same     *)
(* directory, so commands take one operand here.  The text printed is left *)
(* out, and with it what echo does.                                        *)
(*                                                                         *)
(* A shell that a null pointer, an index out of range, an exception nobody *)
(* catches or an endless loop has ended is "lost".                         *)
(***************************************************************************)
EXTENDS Integers, Sequences, FiniteSets, SequencesExt

CONSTANTS
  Names,      \* file names other than "." and ".."
  Words,      \* words that files hold
  Removable,  \* the entries the user gives to rm
  Inodes,     \* bound: 1 .. n, the inodes made in a run
  Statuses,   \* the numbers the user gives to exit
  MaxDepth,   \* bound: components of a pathname
  MaxWords    \* bound: words of a file and of a prompt

ASSUME InodesAssumption == Inodes \in SUBSET (Nat \ {0}) /\ 1 \in Inodes
ASSUME NamesAssumption ==
  /\ Names \cap {".", ".."} = {}
  /\ Removable \subseteq Names \cup {".", ".."}
ASSUME BoundsAssumption == MaxDepth \in Nat /\ MaxWords \in Nat
ASSUME StatusesAssumption == Statuses \subseteq Nat

Entries == Names \cup {".", ".."}
\* What split (line, "/") leaves of an operand; the empty one is "/".
Paths == UNION {[1 .. n -> Entries] : n \in 0 .. MaxDepth}
Root == 1
Null == 0      \* a pointer that points nowhere
Absent == -1   \* a map without the key

VARIABLES
  type,     \* inode -> "free", "plain" or "directory"
  nr,       \* inode -> inode_nr
  dirents,  \* inode -> entry -> inode, Null or Absent
  data,     \* inode -> words of the file
  next_inode_nr,
  cwd,
  prompt_,  \* words, each followed by a space
  status,   \* exec::status_
  ysh       \* "running", "exited" or "lost"

tree == << type, nr, dirents, data, next_inode_nr >>
session == << prompt_, status, ysh >>
vars == << tree, cwd, session >>

NoDirents == [n \in Entries |-> Absent]

Init ==
  /\ type = [i \in Inodes |-> IF i = Root THEN "directory" ELSE "free"]
  /\ nr = [i \in Inodes |-> IF i = Root THEN 1 ELSE 0]
  /\ dirents = [i \in Inodes |-> IF i = Root
                  THEN [NoDirents EXCEPT !["."] = Root, ![".."] = Root]
                  ELSE NoDirents]
  /\ data = [i \in Inodes |-> << >>]
  /\ next_inode_nr = 2
  /\ cwd = Root
  /\ prompt_ = << "%" >>
  /\ status \in {0, 1}    \* scan_options may complain
  /\ ysh = "running"

Lose == ysh' = "lost" /\ UNCHANGED << tree, cwd, prompt_, status >>
PrintsOnly == UNCHANGED vars

-----------------------------------------------------------------------------
(* Pathnames *)

isDirectory(i) == i \in Inodes /\ type[i] = "directory"

\* A plain file has no entries, base_file::check_dirents.
check_dirents(d, n) ==
  IF isDirectory(d) /\ dirents[d][n] # Absent THEN dirents[d][n] ELSE Null

\* The loops over the components skip one that does not exist.  Those of cat,
\* make, ls and lsr enter directories only, those of cd and mkdir any inode.
Enter(d, n) == LET e == check_dirents(d, n) IN IF isDirectory(e) THEN e ELSE d
Pass(d, n) == LET e == check_dirents(d, n) IN IF e # Null THEN e ELSE d
\* Where the loops over the components of p lead from the current directory.
\* (Not FoldLeft: a recursive function can be proved about.)
EnterAll(p) ==
  LET at[k \in 0 .. Len(p)] == IF k = 0 THEN cwd ELSE Enter(at[k-1], p[k])
  IN  at[Len(p)]
PassAll(p) ==
  LET at[k \in 0 .. Len(p)] == IF k = 0 THEN cwd ELSE Pass(at[k-1], p[k])
  IN  at[Len(p)]

\* The inode a whole path leads to, or Null if its last component is missing.
LookupDirectory(p) ==
  LET e == check_dirents(EnterAll(Front(p)), Last(p)) IN
  IF isDirectory(e) THEN e ELSE Null
LookupAny(p) == check_dirents(PassAll(Front(p)), Last(p))

\* get_path climbs from d to the root and collects, at each step, the names
\* that the parent has for the inode: one, as long as the graph is a tree.
dotdot(d) == IF dirents[d][".."] = Absent THEN Null ELSE dirents[d][".."]
Up(d) == IF d \in {Null, Root} THEN d ELSE dotdot(d)
Climb(d) ==
  LET at[k \in 0 .. Cardinality(Inodes)] == IF k = 0 THEN d ELSE Up(at[k-1])
  IN  at
ReachesRoot(d) == \E k \in DOMAIN Climb(d) : Climb(d)[k] = Root
get_path(d) ==
  LET at == Climb(d)
      depth == CHOOSE k \in DOMAIN at :
                 at[k] = Root /\ \A j \in 0 .. (k - 1) : at[j] # Root
      names(k) == {n \in Entries : dirents[at[k + 1]][n] = at[k]}
  IN  [j \in 1 .. depth |-> names(depth - j)]
\* print_path and printDirents follow every pointer of a directory.
Printable(d) == ReachesRoot(d) /\ \A n \in Entries : dirents[d][n] # Null

\* The directories lsr_recursion visits from d.
Subdirs(d) == {i \in Inodes : \E n \in Names : dirents[d][n] = i /\ isDirectory(i)}
Subtree(d) ==
  LET below[k \in 0 .. Cardinality(Inodes)] ==
        IF k = 0 THEN {d} ELSE below[k-1] \cup UNION {Subdirs(e) : e \in below[k-1]}
  IN  below[Cardinality(Inodes)]

-----------------------------------------------------------------------------
(* Inodes *)

\* inode (file_type): a new object, whose number is next_inode_nr.
Fresh_by_number(i) == i = next_inode_nr
Fresh_recycled(i) == \A d \in Inodes, n \in Names : dirents[d][n] # i /\ i # Root
Fresh(i) == type[i] = "free" /\ \A j \in Inodes : type[j] = "free" => i <= j
NewInode(i, t) ==
  /\ Fresh(i)
  /\ type' = [type EXCEPT ![i] = t]
  /\ nr' = [nr EXCEPT ![i] = next_inode_nr]
  /\ next_inode_nr' = next_inode_nr + 1

\* directory::mkdir: reading dirents["."] inserts a null pointer if erased.
mkdir_dotdot_root(d, name, i) ==
  /\ NewInode(i, "directory")
  /\ dirents' = [dirents EXCEPT
       ![i] = [NoDirents EXCEPT !["."] = i, ![".."] = Root],
       ![d] = [@ EXCEPT ![name] = i]]
  /\ UNCHANGED data
mkdir(d, name, i) ==
  LET self == IF dirents[d]["."] = Absent THEN Null ELSE dirents[d]["."] IN
  /\ NewInode(i, "directory")
  /\ dirents' = [dirents EXCEPT
       ![i] = [NoDirents EXCEPT !["."] = i, ![".."] = self],
       ![d] = [@ EXCEPT !["."] = self, ![name] = i]]
  /\ UNCHANGED data

\* plain_file::writefile: the words after the path are pushed onto what is there.
writefile(words, w) == words \o w

\* directory::mkfile: the entry goes to the inode that "." names; fn_make then
\* writes to the new file, which is empty.
mkfile(d, name, i, w) ==
  /\ NewInode(i, "plain")
  /\ dirents' = [dirents EXCEPT ![dirents[d]["."]] = [@ EXCEPT ![name] = i]]
  /\ data' = [data EXCEPT ![i] = w]

-----------------------------------------------------------------------------
(* Commands *)

\* cd, cd / and cd p; "//" is not compared with "/" and leads nowhere.
fn_cd_any(p) ==
  /\ cwd' = IF p = << >> THEN Root
            ELSE IF LookupAny(p) # Null THEN LookupAny(p) ELSE cwd
  /\ UNCHANGED << tree, session >>
fn_cd(p) ==
  /\ cwd' = IF p = << >> THEN Root
            ELSE IF isDirectory(LookupAny(p)) THEN LookupAny(p) ELSE cwd
  /\ UNCHANGED << tree, session >>

\* The directory in which make and cat look for the last component, and the
\* inode, of any type, in which mkdir does.
MakeParent(p) == IF Len(p) = 1 THEN cwd ELSE LookupDirectory(Front(p))
MkdirParent(p) == IF Len(p) = 1 THEN cwd ELSE LookupAny(Front(p))

\* Split leaves nothing of "/", and size()-1 wraps around.
fn_make(p, w) ==
  \/ p = << >> /\ Lose
  \/ p # << >> /\ MakeParent(p) = Null /\ PrintsOnly
  \/ /\ p # << >> /\ MakeParent(p) # Null
     /\ LET d == MakeParent(p)
            f == check_dirents(d, Last(p)) IN
        \/ f = Null /\ dirents[d]["."] \in {Null, Absent} /\ Lose
        \/ /\ f = Null /\ dirents[d]["."] \notin {Null, Absent}
           /\ \E i \in Inodes : mkfile(d, Last(p), i, w)
           /\ UNCHANGED << cwd, session >>
        \/ isDirectory(f) /\ PrintsOnly
        \/ /\ f # Null /\ ~ isDirectory(f)
           /\ Len(data[f]) + Len(w) <= MaxWords
           /\ data' = [data EXCEPT ![f] = writefile(@, w)]
           /\ UNCHANGED << type, nr, dirents, next_inode_nr, cwd, session >>

\* A plain file has no mkdir: its file_error is caught by nobody.
fn_mkdir_replaces(p) ==
  /\ p # << >> /\ isDirectory(MkdirParent(p)) /\ Last(p) \in Names
  /\ \E i \in Inodes : mkdir(MkdirParent(p), Last(p), i)
  /\ UNCHANGED << cwd, session >>
fn_mkdir(p) ==
  \/ p = << >> /\ Lose
  \/ p # << >> /\ MkdirParent(p) = Null /\ PrintsOnly
  \/ /\ p # << >> /\ MkdirParent(p) # Null
     /\ LET d == MkdirParent(p) IN
        \/ check_dirents(d, Last(p)) # Null /\ PrintsOnly
        \/ check_dirents(d, Last(p)) = Null /\ ~ isDirectory(d) /\ Lose
        \/ /\ check_dirents(d, Last(p)) = Null /\ isDirectory(d)
           /\ \E i \in Inodes : mkdir(d, Last(p), i)
           /\ UNCHANGED << cwd, session >>

\* rm takes an entry of the current directory, never a path, and does not ask
\* whether a directory is empty; a name that is not there is passed over.
fn_rm_anywhere(n) ==
  \E d \in {cwd, dirents[cwd][".."]} :
    /\ dirents[d][n] # Absent
    /\ dirents' = [dirents EXCEPT ![d][n] = Absent]
    /\ next_inode_nr' = next_inode_nr - 1
    /\ UNCHANGED << type, nr, data, cwd, session >>
fn_rm_uncounted(n) ==
  /\ dirents' = [dirents EXCEPT ![cwd][n] = Absent]
  /\ next_inode_nr' = next_inode_nr - 1
  /\ UNCHANGED << type, nr, data, cwd, session >>
fn_rm(n) ==
  \/ dirents[cwd][n] = Absent /\ PrintsOnly
  \/ /\ dirents[cwd][n] # Absent
     /\ dirents' = [dirents EXCEPT ![cwd][n] = Absent]
     /\ next_inode_nr' = next_inode_nr - 1
     /\ UNCHANGED << type, nr, data, cwd, session >>

fn_cat(p) == IF p = << >> THEN Lose ELSE PrintsOnly

fn_pwd == IF ReachesRoot(cwd) THEN PrintsOnly ELSE Lose

\* The directory ls and lsr take.
LsTarget(p) ==
  IF p = << >> THEN Root
  ELSE IF p = << "." >> THEN cwd
  ELSE IF p = << ".." >> THEN dotdot(cwd)
  ELSE LookupDirectory(p)

\* "." and ".." are printed as such, without get_path.
fn_ls(p) ==
  LET d == LsTarget(p) IN
  IF d = Null
    THEN IF p = << ".." >> THEN Lose ELSE PrintsOnly
    ELSE IF \/ Printable(d)
            \/ p \in {<< "." >>, << ".." >>} /\ \A n \in Entries : dirents[d][n] # Null
      THEN PrintsOnly ELSE Lose

fn_ls_cwd == IF Printable(cwd) THEN PrintsOnly ELSE Lose

\* lsr without an operand does what lsr . does.
fn_lsr(p) ==
  LET d == LsTarget(p) IN
  IF d = Null
    THEN IF p = << ".." >> THEN Lose ELSE PrintsOnly
    ELSE IF \A e \in Subtree(d) : Printable(e) THEN PrintsOnly ELSE Lose

fn_prompt(w) == prompt_' = w /\ UNCHANGED << tree, cwd, status, ysh >>

\* A comment does nothing, and echo prints.
fn_comm == PrintsOnly
fn_echo == PrintsOnly

\* exec::status keeps the greatest status it was ever given.
Status(n) == status' = IF status < n THEN n ELSE status

\* Without a status exit sets 0 and goes on; with one it throws ysh_exit.
NonNumeric == 127
fn_exit_none == Status(0) /\ UNCHANGED << tree, cwd, prompt_, ysh >>
fn_exit(n) == Status(n) /\ ysh' = "exited" /\ UNCHANGED << tree, cwd, prompt_ >>

\* find_command_fn throws command_error, about which main complains.
NoSuchFunction == Status(1) /\ UNCHANGED << tree, cwd, prompt_, ysh >>
\* words.at(0) of a line without words.
BlankLine == Lose
EndOfFile == ysh' = "exited" /\ UNCHANGED << tree, cwd, prompt_, status >>

Contents == UNION {[1 .. n -> Words] : n \in 0 .. MaxWords}

Next ==
  /\ ysh = "running"
  /\ \/ \E p \in Paths : fn_cat(p)
     \/ \E p \in Paths : fn_cd(p)
     \/ \E p \in Paths : fn_ls(p)
     \/ fn_ls_cwd
     \/ \E p \in Paths : fn_lsr(p)
     \/ \E p \in Paths, w \in Contents : fn_make(p, w)
     \/ \E p \in Paths : fn_mkdir(p)
     \/ fn_pwd
     \/ \E n \in Removable : fn_rm(n)
     \/ \E w \in Contents : fn_prompt(w)
     \/ fn_comm
     \/ fn_echo
     \/ fn_exit_none
     \/ \E n \in Statuses \cup {NonNumeric} : fn_exit(n)
     \/ NoSuchFunction
     \/ BlankLine
     \/ EndOfFile

Spec == Init /\ [][Next]_vars
=============================================================================
