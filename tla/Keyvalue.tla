------------------------------ MODULE Keyvalue ------------------------------
(***************************************************************************)
(* keyvalue (CSE111/asg3/code/main.cpp): reads its operands in turn and    *)
(* answers each line from a map that lives as long as one operand is read. *)
(*                                                                         *)
(* A line is what the three regular expressions make of it: the one that   *)
(* matched first and its captures.  A key or a value is a number, 0 the    *)
(* empty string and < the order of xless.  The program's own listmap.tcc is  *)
(* not in the repository (asg3-listmap-templates has the one handed out,   *)
(* in which insert, find and erase are left to write): a listmap is a      *)
(* function from keys, Empty where there is no entry, that iterates in the *)
(* order of its keys.  The lines of an operand are chosen as they are      *)
(* read; MaxLines bounds them.                                             *)
(***************************************************************************)
EXTENDS Order, Sequences, SequencesExt

CONSTANTS Keys, Values,         \* the keys and the values of lines
          Filenames,            \* the operands that name files
          CommandLines,         \* the lists of operands
          MaxLines              \* bound: lines of one operand

cin_name == "-"

ASSUME KeyvalueAssumption ==
  /\ Keys \subseteq Nat \ {0} /\ Values \subseteq Nat \ {0}
  /\ cin_name \notin Filenames
  /\ CommandLines \subseteq Seq(Filenames \cup {cin_name})
  /\ MaxLines \in Nat

Empty == 0
NoMatch == "neither"
Lines == [regex : {"comment", NoMatch}, key : {Empty}, value : {Empty}]
           \cup [regex : {"key_value"}, key : Keys \cup {Empty}, value : Values \cup {Empty}]
           \cup [regex : {"trimmed"}, key : Keys, value : {Empty}]

Kinds == {"file", "directory", "missing"}
PC == {"main", "reading", "done", "lost"}

VARIABLES kind, filenames,      \* what names lead to and the operands: they never change
          at,                   \* the operand that the loop of main is at
          pc,
          cin_eof,              \* cin has met its end, and nothing clears it
          lines,                \* the lines read since the operand was opened
          key_value_map,        \* of keyValue_Function
          out,                  \* the pairs the last line printed
          status

vars == <<kind, filenames, at, pc, cin_eof, lines, key_value_map, out, status>>

NoEntries == [k \in Keys |-> Empty]
operands(args) == IF args = <<>> THEN <<cin_name>> ELSE args
HasNext == at \in DOMAIN filenames
IsCin == filenames[at] = cin_name
Leads(to) == ~IsCin /\ kind[filenames[at]] = to

Init == /\ kind \in [Filenames -> Kinds]
        /\ \E args \in CommandLines : filenames = operands(args)
        /\ at = 1 /\ pc = "main" /\ cin_eof = FALSE /\ status = 0
        /\ lines = <<>> /\ key_value_map = NoEntries /\ out = <<>>

-----------------------------------------------------------------------------
HasKey(line) == line.regex = "key_value" /\ line.key # Empty
Listing(line) == line.regex = "key_value" /\ line.key = Empty

(* Mutant: the loop over all entries compares with the empty result[2]. *)
Entries_compares(map, value) ==
  LET order == InOrder({k \in Keys : map[k] # Empty /\ map[k] = value})
  IN  [i \in DOMAIN order |-> <<order[i], map[order[i]]>>]

(* What the loops over a listmap print, in the order of its keys: all its  *)
(* entries, or those with one value.                                       *)
Entries(map, value) ==
  LET order == InOrder({k \in Keys : map[k] # Empty /\ value \in {Empty, map[k]}})
  IN  [i \in DOMAIN order |-> <<order[i], map[order[i]]>>]

(* A key that is not found is printed with no value. *)
Answer(map, line) ==
  CASE line.regex = "trimmed" -> << <<line.key, map[line.key]>> >>
    [] Listing(line) -> Entries(map, line.value)
    [] HasKey(line) /\ line.value # Empty -> << <<line.key, line.value>> >>
    [] OTHER -> <<>>

(* Mutant: insert leaves the entry of a key that has one, as a map's does. *)
After_keeps(map, line) ==
  IF HasKey(line) /\ (map[line.key] = Empty \/ line.value = Empty)
  THEN [map EXCEPT ![line.key] = line.value] ELSE map

(* insert and erase, where erase of a key that is not there changes nothing. *)
After(map, line) == IF HasKey(line) THEN [map EXCEPT ![line.key] = line.value] ELSE map

(* Lines on which the program may end: one that no expression matches, as  *)
(* when a carriage return is inside its key, and an erase of end (), which *)
(* listmap may or may not survive.                                         *)
Breaks(map, line) == \/ line.regex = NoMatch
                     \/ HasKey(line) /\ line.value = Empty /\ map[line.key] = Empty

-----------------------------------------------------------------------------
(* The loop of main. *)

Call == /\ pc' = "reading" /\ lines' = <<>> /\ key_value_map' = NoEntries /\ out' = <<>>
        /\ UNCHANGED <<kind, filenames, at, cin_eof, status>>

(* Mutant: main does not ask whether the file could be opened. *)
Opens_unchecked == /\ pc = "main" /\ HasNext
                   /\ Call

Opens == /\ pc = "main" /\ HasNext /\ ~Leads("missing")
         /\ Call

(* Mutant: an operand that cannot be opened is the last one. *)
Fails_stops == /\ pc = "main" /\ HasNext /\ Leads("missing")
               /\ status' = 1 /\ at' = at + 1 /\ pc' = "done"
               /\ UNCHANGED <<kind, filenames, cin_eof, lines, key_value_map, out>>

Fails == /\ pc = "main" /\ HasNext /\ Leads("missing")
         /\ status' = 1 /\ at' = at + 1
         /\ UNCHANGED <<kind, filenames, pc, cin_eof, lines, key_value_map, out>>

Returns == /\ pc = "main" /\ ~HasNext /\ pc' = "done"
           /\ UNCHANGED <<kind, filenames, at, cin_eof, lines, key_value_map, out, status>>

-----------------------------------------------------------------------------
(* The loop of keyValue_Function. *)

HasLine == /\ pc = "reading" /\ Len(lines) < MaxLines
           /\ Leads("file") \/ (IsCin /\ ~cin_eof)

Reads(line) == /\ HasLine /\ line.regex # NoMatch
               /\ lines' = Append(lines, line)
               /\ out' = Answer(key_value_map, line)
               /\ key_value_map' = After(key_value_map, line)
               /\ UNCHANGED <<kind, filenames, at, pc, cin_eof, status>>

Aborts(line) == /\ HasLine /\ Breaks(key_value_map, line)
                /\ pc' = "lost"
                /\ UNCHANGED <<kind, filenames, at, cin_eof, lines, key_value_map, out, status>>

(* Mutant: each call clears the state of the stream and waits for more. *)
EndOfFile_unread == /\ pc = "reading" /\ ~Leads("directory") /\ lines # <<>>
                    /\ cin_eof' = (cin_eof \/ IsCin)
                    /\ pc' = "main" /\ at' = at + 1
                    /\ UNCHANGED <<kind, filenames, lines, key_value_map, out, status>>

(* infile.eof () holds when getline met the end, also after a last line    *)
(* without a newline: that line is dropped.                                *)
EndOfFile == /\ pc = "reading" /\ ~Leads("directory")
             /\ cin_eof' = (cin_eof \/ IsCin)
             /\ pc' = "main" /\ at' = at + 1
             /\ UNCHANGED <<kind, filenames, lines, key_value_map, out, status>>

(* A directory opens, and getline then fails without ever meeting its end: *)
(* the loop goes on with empty lines.                                      *)
ReadsNothing == /\ pc = "reading" /\ Leads("directory")
                /\ out' = <<>>
                /\ UNCHANGED <<kind, filenames, at, pc, cin_eof, lines, key_value_map, status>>

Next == \/ Opens \/ Fails \/ Returns
        \/ \E line \in Lines : Reads(line) \/ Aborts(line)
        \/ EndOfFile \/ ReadsNothing

Spec == Init /\ [][Next]_vars /\ WF_vars(Next)

-----------------------------------------------------------------------------
(* The variables keep their types, and what is being read could be opened. *)
TypeOK ==
  /\ kind \in [Filenames -> Kinds]
  /\ filenames \in Seq(Filenames \cup {cin_name})
  /\ at \in 1..Len(filenames) + 1
  /\ pc \in PC /\ (pc = "reading" => HasNext /\ ~Leads("missing"))
  /\ cin_eof \in BOOLEAN /\ status \in {0, 1}
  /\ lines \in Seq(Lines)
  /\ key_value_map \in [Keys -> Values \cup {Empty}]

(* Once a line of an operand has named a key before an equal sign, the map *)
(* has for it what the last such line gave it: no later line of another    *)
(* key moves it, an insert replaces, and nothing comes back after it was   *)
(* deleted.  Of a key that this operand has not named nothing is said.     *)
Names(line, k) == line.regex = "key_value" /\ line.key = k
NamedIn(read, k) == \E i \in DOMAIN read : Names(read[i], k)
AssignedIn(read, k, v) == \E i \in DOMAIN read :
                             /\ Names(read[i], k) /\ read[i].value = v /\ v # Empty
                             /\ \A j \in DOMAIN read : j > i => ~Names(read[j], k)

LastAssignmentCounts ==
  pc = "reading" =>
    \A k \in Keys : NamedIn(lines, k) =>
      \A v \in Values : key_value_map[k] = v <=> AssignedIn(lines, k, v)

(* A line prints the keys in their order, each once, and of the keys that  *)
(* this operand has named exactly those it asks for, each with what the    *)
(* last line naming it gave it: a key asked for after it was deleted is    *)
(* printed with no value.                                                  *)
Asks(line, k, v) ==
  \/ line.regex = "trimmed" /\ line.key = k
  \/ line.regex = "key_value" /\ line.key \in {k, Empty} /\ line.value = v
  \/ line.regex = "key_value" /\ line.key = Empty /\ line.value = Empty

AnswersFor(read, k, line) ==
  LET found == {v \in Values : AssignedIn(read, k, v) /\ Asks(line, k, v)}
  IN  IF line.regex = "trimmed" /\ line.key = k /\ found = {} THEN {Empty} ELSE found

AnswersFollowLines ==
  (pc = "reading" /\ lines # <<>>) =>
    /\ \A i, j \in DOMAIN out : i < j => out[i][1] < out[j][1]
    /\ \A k \in Keys : NamedIn(lines, k) =>
         {v \in Values \cup {Empty} : <<k, v>> \in {out[i] : i \in DOMAIN out}}
           = AnswersFor(lines, k, Last(lines))

(* The exit status is 1 exactly when some operand so far could not be      *)
(* opened, and keyvalue does not end before it has come to all of them.    *)
StatusTells ==
  /\ status = 1 <=> \E i \in 1..at - 1 : filenames[i] # cin_name /\ kind[filenames[i]] = "missing"
  /\ pc = "done" => ~HasNext

(* keyvalue ends when none of its operands is a directory: every other     *)
(* input is finite, and a second "-" meets the end of cin at once.         *)
OnFiles == \A name \in Filenames : kind[name] # "directory"
EndsOnFiles == OnFiles ~> pc \in {"done", "lost"}
=============================================================================
