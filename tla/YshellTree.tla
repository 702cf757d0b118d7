----------------------------- MODULE YshellTree -----------------------------
(***************************************************************************)
(* What a shell like yshell is, as long as nobody removes "." or ".." from *)
(* a directory: a tree of files and directories named by their paths from  *)
(* the root, and a current directory, which always exists.  Each command   *)
(* changes one place of it or nothing.  Where the manual and the code of   *)
(* yshell differ both are allowed: whether make replaces the words of a    *)
(* file or adds to them, and whether rm refuses a directory that is not    *)
(* empty.  Which place a pathname means is not said either.                *)
(***************************************************************************)
EXTENDS Integers, Sequences, SequencesExt

CONSTANTS
  Paths,     \* sequences of file names
  Contents   \* sequences of words

VARIABLES
  files,  \* path from the root -> its directory or plain file
  here,   \* path of the current directory
  ysh     \* "running", "exited" or "lost"

vars == << files, here, ysh >>

Directory == [plain |-> FALSE, words |-> << >>]
Plain(w) == [plain |-> TRUE, words |-> w]

Init ==
  /\ files = [q \in {<< >>} |-> Directory]
  /\ here = << >>
  /\ ysh = "running"

\* Paths that do not exist, in a directory that does.
Free == {q \in Paths : /\ q # << >> /\ q \notin DOMAIN files
                       /\ Front(q) \in DOMAIN files /\ ~ files[Front(q)].plain}

\* The files and one more.
With(q, f) == [r \in {q} \cup DOMAIN files |-> IF r = q THEN f ELSE files[r]]

ChangeDir ==
  /\ UNCHANGED << files, ysh >>
  /\ here' \in {q \in DOMAIN files : ~ files[q].plain}

MakeDirectory ==
  /\ UNCHANGED << here, ysh >>
  /\ \E q \in Free : files' = With(q, Directory)

\* Words are put in a new file, or in an old one instead of its words (as
\* asg2-shell-fnptrs-oop.mm:190 has it) or after them (as file_sys.cpp:268 has).
MakeFile ==
  /\ UNCHANGED << here, ysh >>
  /\ \E w \in Contents :
       \/ \E q \in Free : files' = With(q, Plain(w))
       \/ \E q \in DOMAIN files :
            /\ files[q].plain
            /\ files' \in {[files EXCEPT ![q] = Plain(w)],
                           [files EXCEPT ![q] = Plain(@.words \o w)]}

\* What is removed, from the current directory, takes all that is below it
\* along, if there is any (the manual's rm refuses then, and its rmr does not).
Unlink ==
  /\ UNCHANGED << here, ysh >>
  /\ \E q \in DOMAIN files :
       /\ q # << >> /\ Front(q) = here
       /\ files' = [r \in {s \in DOMAIN files : ~ IsPrefix(q, s)} |-> files[r]]

Stop == ysh' \in {"exited", "lost"} /\ UNCHANGED << files, here >>

Next == ysh = "running" /\ (ChangeDir \/ MakeDirectory \/ MakeFile \/ Unlink \/ Stop)

Spec == Init /\ [][Next]_vars
=============================================================================
