---------------------------- MODULE KeyvalueProofs ----------------------------
(***************************************************************************)
(* Proofs about keyvalue for any keys, values, operands and lengths of     *)
(* files: types, the exit status, that the map holds what the lines read   *)
(* so far say, and that each line prints what they say.  For the induction *)
(* these two are strengthened to every key, named by the operand or not:   *)
(* this code makes its map anew for each operand.  The answers also need   *)
(* the map to have finitely many entries: only then is there an order to   *)
(* list them in.                                                           *)
(***************************************************************************)
EXTENDS Keyvalue, Induction, TLAPS

LEMMA EmptyIsNothing == Empty \notin Keys /\ Empty \notin Values
BY KeyvalueAssumption DEF Empty

LEMMA LineParts ==
  ASSUME NEW line \in Lines
  PROVE  line.key \in Keys \cup {Empty} /\ line.value \in Values \cup {Empty}
BY DEF Lines

LEMMA MapAfter ==
  ASSUME NEW line \in Lines, NEW map \in [Keys -> Values \cup {Empty}]
  PROVE  After(map, line) \in [Keys -> Values \cup {Empty}]
BY LineParts DEF After, HasKey

LEMMA TypeInit == Init => TypeOK
<1> SUFFICES ASSUME Init PROVE TypeOK
  OBVIOUS
<1>1. PICK args \in CommandLines : filenames = operands(args)
  BY DEF Init
<1>2. filenames \in Seq(Filenames \cup {cin_name})
  <2>1. CASE args = <<>>
    BY <1>1, <2>1 DEF operands
  <2>2. CASE args # <<>>
    BY <1>1, <2>2, KeyvalueAssumption DEF operands
  <2> QED
    BY <2>1, <2>2
<1>3. at \in 1..Len(filenames) + 1
  BY <1>2 DEF Init
<1>4. lines \in Seq(Lines) /\ key_value_map \in [Keys -> Values \cup {Empty}]
  BY DEF Init, NoEntries
<1> QED
  BY <1>2, <1>3, <1>4 DEF Init, TypeOK, PC

LEMMA TypeStep == TypeOK /\ [Next]_vars => TypeOK'
<1> SUFFICES ASSUME TypeOK, [Next]_vars PROVE TypeOK'
  OBVIOUS
<1> USE DEF TypeOK, PC, HasNext, Leads, IsCin
<1>1. CASE Opens
  BY <1>1 DEF Opens, Call, NoEntries
<1>2. CASE Fails
  BY <1>2 DEF Fails
<1>3. CASE Returns
  BY <1>3 DEF Returns
<1>4. CASE \E line \in Lines : Reads(line)
  <2>1. PICK line \in Lines : Reads(line)
    BY <1>4
  <2>2. key_value_map' \in [Keys -> Values \cup {Empty}]
    BY <2>1, MapAfter DEF Reads
  <2> QED
    BY <2>1, <2>2 DEF Reads
<1>5. CASE \E line \in Lines : Aborts(line)
  BY <1>5 DEF Aborts
<1>6. CASE EndOfFile
  <2>1. HasNext /\ pc' = "main" /\ at' = at + 1
    BY <1>6 DEF EndOfFile
  <2>2. cin_eof' \in BOOLEAN
    BY <1>6 DEF EndOfFile
  <2> QED
    BY <1>6, <2>1, <2>2 DEF EndOfFile
<1>7. CASE ReadsNothing
  BY <1>7 DEF ReadsNothing
<1>8. CASE UNCHANGED vars
  BY <1>8 DEF vars
<1> QED
  BY <1>1, <1>2, <1>3, <1>4, <1>5, <1>6, <1>7, <1>8 DEF Next

(* The variables keep their types for every list of operands. *)
THEOREM TypeCorrect == Spec => []TypeOK
BY TypeInit, TypeStep, PTL DEF Spec

-----------------------------------------------------------------------------
(* The strengthening of LastAssignmentCounts to every key: the map has the *)
(* entries that the lines of this operand make, and no other.              *)
MapIsLines ==
  pc = "reading" =>
    \A k \in Keys, v \in Values : key_value_map[k] = v <=> AssignedIn(lines, k, v)

(* Only a line of the operand at hand changes what a key was last given:   *)
(* after it the key has the line's value if it names the key, else what it *)
(* had.                                                                    *)
LEMMA AssignedAfter ==
  ASSUME lines \in Seq(Lines), NEW line \in Lines, lines' = Append(lines, line),
         NEW k \in Keys, NEW v \in Values
  PROVE  AssignedIn(lines, k, v)' <=> IF Names(line, k) THEN line.value = v ELSE AssignedIn(lines, k, v)
<1>1. /\ DOMAIN lines = 1..Len(lines) /\ Len(lines) \in Nat
      /\ DOMAIN lines' = 1..Len(lines) + 1
      /\ \A i \in DOMAIN lines : lines'[i] = lines[i]
      /\ lines'[Len(lines) + 1] = line
  OBVIOUS
<1>2. v # Empty
  BY EmptyIsNothing
<1>3. CASE Names(line, k)
  <2>1. \A i \in DOMAIN lines' : (\A j \in DOMAIN lines' : j > i => ~Names(lines'[j], k))
                                  => i = Len(lines) + 1
    BY <1>1, <1>3
  <2> QED
    BY <1>1, <1>2, <1>3, <2>1 DEF AssignedIn
<1>4. CASE ~Names(line, k)
  BY <1>1, <1>2, <1>4 DEF AssignedIn
<1> QED
  BY <1>3, <1>4

LEMMA MapIsLinesStep ==
  TypeOK /\ MapIsLines /\ [Next]_vars => MapIsLines'
<1> SUFFICES ASSUME TypeOK, MapIsLines, [Next]_vars, pc' = "reading",
                    NEW k \in Keys, NEW v \in Values
             PROVE  (key_value_map[k] = v)' <=> AssignedIn(lines, k, v)'
  BY DEF MapIsLines
<1>1. CASE Opens
  <2>1. ~AssignedIn(lines, k, v)'
    BY <1>1 DEF Opens, Call, AssignedIn
  <2> QED
    BY <1>1, <2>1, EmptyIsNothing DEF Opens, Call, NoEntries
<1>2. CASE \E line \in Lines : Reads(line)
  <2>1. PICK line \in Lines : Reads(line)
    BY <1>2
  <2>2. AssignedIn(lines, k, v)' <=> IF Names(line, k) THEN line.value = v ELSE AssignedIn(lines, k, v)
    BY <2>1, AssignedAfter DEF Reads, TypeOK
  <2>3. key_value_map'[k] = IF Names(line, k) THEN line.value ELSE key_value_map[k]
    BY <2>1, LineParts, EmptyIsNothing DEF Reads, TypeOK, After, HasKey, Names
  <2>4. key_value_map[k] = v <=> AssignedIn(lines, k, v)
    BY <2>1 DEF Reads, HasLine, MapIsLines
  <2> QED
    BY <2>2, <2>3, <2>4
<1>3. CASE UNCHANGED <<pc, lines, key_value_map>>
  BY <1>3 DEF MapIsLines, AssignedIn
<1>4. CASE pc' # "reading"
  BY <1>4
<1>5. ReadsNothing => UNCHANGED <<pc, lines, key_value_map>>
  BY DEF ReadsNothing
<1>6. Fails \/ vars' = vars => UNCHANGED <<pc, lines, key_value_map>>
  BY DEF Fails, vars
<1>7. Returns \/ EndOfFile \/ (\E line \in Lines : Aborts(line)) => pc' # "reading"
  BY DEF Returns, EndOfFile, Aborts
<1> QED
  BY <1>1, <1>2, <1>3, <1>4, <1>5, <1>6, <1>7 DEF Next

LEMMA MapIsLinesInit == Init => MapIsLines
BY DEF Init, MapIsLines

(* Whatever lines and operands are read, a key that this operand has named *)
(* has the value of the last line naming it, and none after a deletion.    *)
THEOREM MapFollowsLines == Spec => []LastAssignmentCounts
<1>1. MapIsLines => LastAssignmentCounts
  BY DEF MapIsLines, LastAssignmentCounts
<1> QED
  BY <1>1, MapIsLinesInit, TypeCorrect, MapIsLinesStep, PTL DEF Spec

-----------------------------------------------------------------------------
StatusOfMissing ==
  status = 1 <=> \E i \in 1..at - 1 : filenames[i] # cin_name /\ kind[filenames[i]] = "missing"
ReturnsLast == pc = "done" => ~HasNext

(* keyvalue returns only from the end of its loop, and stays there. *)
LEMMA ReturnsStep == TypeOK /\ ReturnsLast /\ [Next]_vars => ReturnsLast'
BY DEF TypeOK, ReturnsLast, HasNext, Next, Opens, Call, Fails, Returns, Reads, HasLine, Aborts,
       EndOfFile, ReadsNothing, vars

LEMMA StatusStep == TypeOK /\ StatusOfMissing /\ [Next]_vars => StatusOfMissing'
<1> SUFFICES ASSUME TypeOK, StatusOfMissing, [Next]_vars PROVE StatusOfMissing'
  OBVIOUS
<1> DEFINE Missing(i) == filenames[i] # cin_name /\ kind[filenames[i]] = "missing"
<1>1. UNCHANGED <<kind, filenames>> /\ at \in Nat \ {0}
  BY DEF TypeOK, Next, Opens, Call, Fails, Returns, Reads, Aborts, EndOfFile, ReadsNothing, vars
<1>2. status = 1 <=> \E i \in 1..at - 1 : Missing(i)
  BY DEF StatusOfMissing
<1>3. StatusOfMissing' <=> (status' = 1 <=> \E i \in 1..at' - 1 : Missing(i))
  BY <1>1 DEF StatusOfMissing
<1>4. CASE Fails
  <2>1. at' = at + 1 /\ status' = 1 /\ Missing(at)
    BY <1>4 DEF Fails, Leads, IsCin
  <2> HIDE DEF Missing
  <2> QED
    BY <1>1, <1>3, <2>1
<1>5. CASE EndOfFile
  <2>1. at' = at + 1 /\ status' = status
    BY <1>5 DEF EndOfFile
  <2>2. ~Missing(at)
    BY <1>5 DEF EndOfFile, TypeOK, Leads, IsCin
  <2> HIDE DEF Missing
  <2> QED
    BY <1>1, <1>2, <1>3, <2>1, <2>2
<1>6. CASE UNCHANGED <<at, status>>
  BY <1>2, <1>3, <1>6
<1> QED
  BY <1>4, <1>5, <1>6 DEF Next, Opens, Call, Returns, Reads, Aborts, ReadsNothing, vars

(* The exit status is 1 exactly when an operand could not be opened, and   *)
(* every operand has been come to when keyvalue returns.                   *)
THEOREM StatusCorrect == Spec => []StatusTells
<1>1. Init => StatusOfMissing /\ ReturnsLast
  BY DEF Init, StatusOfMissing, ReturnsLast
<1>2. StatusOfMissing /\ ReturnsLast => StatusTells
  BY DEF StatusOfMissing, ReturnsLast, StatusTells
<1> QED
  BY <1>1, <1>2, TypeCorrect, StatusStep, ReturnsStep, PTL DEF Spec

-----------------------------------------------------------------------------
WithEntry(map) == {k \in Keys : map[k] # Empty}

(* What a loop over the map prints: the entries it is asked for, each once *)
(* and in the order of their keys.                                         *)
LEMMA EntriesRight ==
  ASSUME NEW map \in [Keys -> Values \cup {Empty}], IsFiniteSet(WithEntry(map)), NEW value
  PROVE  LET o == Entries(map, value)
         IN  /\ \A i, j \in DOMAIN o : i < j => o[i][1] < o[j][1]
             /\ {o[i] : i \in DOMAIN o} =
                  {p \in Keys \X Values : map[p[1]] = p[2] /\ value \in {Empty, p[2]}}
<1> DEFINE S == {k \in Keys : map[k] # Empty /\ value \in {Empty, map[k]}}
           n == Cardinality(S)
           order == InOrder(S)
           o == Entries(map, value)
<1>1. S \subseteq Nat /\ IsFiniteSet(S)
  <2>1. S \in SUBSET WithEntry(map)
    BY DEF WithEntry
  <2>2. IsFiniteSet(S)
    BY <2>1, FS_Subset
  <2> QED
    BY <2>2, KeyvalueAssumption
<1>2. /\ order \in [1..n -> S]
      /\ \A i, j \in 1..n : i < j => order[i] < order[j]
      /\ \A x \in S : \E i \in 1..n : order[i] = x
  <2> HIDE DEF S
  <2> QED
    BY <1>1, InOrderLists
<1>3. o = [i \in 1..n |-> <<order[i], map[order[i]]>>]
  BY <1>2 DEF Entries
<1>4. \A i, j \in DOMAIN o : i < j => o[i][1] < o[j][1]
  <2> HIDE DEF o, order, n, S
  <2> QED
    BY <1>2, <1>3
<1>5. \A k \in S : k \in Keys /\ map[k] \in Values /\ value \in {Empty, map[k]}
  OBVIOUS
<1>6. ASSUME NEW p \in Keys \X Values, map[p[1]] = p[2], value \in {Empty, p[2]}
      PROVE  p[1] \in S /\ p = <<p[1], map[p[1]]>>
  BY <1>6, EmptyIsNothing
<1>7. ASSUME NEW p
      PROVE  p \in {o[i] : i \in DOMAIN o} <=>
               p \in Keys \X Values /\ map[p[1]] = p[2] /\ value \in {Empty, p[2]}
  <2>1. ASSUME p \in {o[i] : i \in DOMAIN o}
        PROVE  p \in Keys \X Values /\ map[p[1]] = p[2] /\ value \in {Empty, p[2]}
    <3> HIDE DEF o, order, n, S
    <3>1. PICK i \in 1..n : p = <<order[i], map[order[i]]>>
      BY <1>3, <2>1
    <3>2. order[i] \in S
      BY <1>2
    <3> QED
      BY <1>5, <3>1, <3>2
  <2>2. ASSUME p \in Keys \X Values, map[p[1]] = p[2], value \in {Empty, p[2]}
        PROVE  p \in {o[i] : i \in DOMAIN o}
    <3>1. p[1] \in S /\ p = <<p[1], map[p[1]]>>
      BY <1>6, <2>2
    <3> HIDE DEF o, order, n, S
    <3>2. PICK i \in 1..n : order[i] = p[1]
      BY <1>2, <3>1
    <3> QED
      BY <1>3, <3>1, <3>2
  <2> QED
    BY <2>1, <2>2
<1> QED
  <2> HIDE DEF o
  <2>1. {o[i] : i \in DOMAIN o} =
          {p \in Keys \X Values : map[p[1]] = p[2] /\ value \in {Empty, p[2]}}
    BY <1>7
  <2> QED
    BY <1>4, <2>1 DEF o

(* What a line prints, seen from the map after the line. *)
Found(map, line) == {p \in Keys \X Values : map[p[1]] = p[2] /\ Asks(line, p[1], p[2])}
Printed(map, line) ==
  IF line.regex = "trimmed" /\ Found(map, line) = {} THEN {<<line.key, Empty>>}
  ELSE Found(map, line)

(* Every line prints the entries of the map after it that it asks for. *)
LEMMA AnswerRight ==
  ASSUME NEW map \in [Keys -> Values \cup {Empty}], IsFiniteSet(WithEntry(map)),
         NEW line \in Lines
  PROVE  LET o == Answer(map, line)
         IN  /\ \A i, j \in DOMAIN o : i < j => o[i][1] < o[j][1]
             /\ {o[i] : i \in DOMAIN o} = Printed(After(map, line), line)
<1> DEFINE m == After(map, line)
           o == Answer(map, line)
<1>1. line.key \in Keys \cup {Empty} /\ line.value \in Values \cup {Empty}
  BY LineParts
<1> USE EmptyIsNothing
<1>2. CASE line.regex = "trimmed"
  <2>1. line.key \in Keys
    BY <1>2 DEF Lines, NoMatch
  <2>2. o = << <<line.key, map[line.key]>> >> /\ m = map
    <3>1. ~HasKey(line) /\ ~Listing(line)
      BY <1>2 DEF HasKey, Listing
    <3>2. m = map
      BY <3>1 DEF After
    <3> QED
      BY <1>2, <3>1, <3>2 DEF Answer
  <2>3. \A p \in Keys \X Values : Asks(line, p[1], p[2]) <=> line.key = p[1]
    BY <1>2 DEF Asks
  <2>4. CASE map[line.key] = Empty
    <3>1. Found(m, line) = {}
      BY <2>2, <2>3, <2>4 DEF Found
    <3> QED
      BY <1>2, <2>2, <2>4, <3>1 DEF Printed
  <2>5. CASE map[line.key] # Empty
    <3>1. <<line.key, map[line.key]>> \in Keys \X Values
      BY <2>1, <2>5
    <3>2. Found(m, line) = {<<line.key, map[line.key]>>}
      BY <2>2, <2>3, <3>1 DEF Found
    <3> QED
      BY <2>2, <3>2 DEF Printed
  <2> QED
    BY <2>4, <2>5
<1>3. CASE Listing(line)
  <2>1. o = Entries(map, line.value) /\ m = map
    BY <1>3 DEF Answer, After, HasKey, Listing
  <2>2. \A p \in Keys \X Values : Asks(line, p[1], p[2]) <=> line.value \in {Empty, p[2]}
    BY <1>3 DEF Asks, Listing
  <2>3. Printed(m, line) =
          {p \in Keys \X Values : map[p[1]] = p[2] /\ line.value \in {Empty, p[2]}}
    BY <1>3, <2>1, <2>2 DEF Printed, Found, Listing
  <2> QED
    BY <2>1, <2>3, EntriesRight
<1>4. CASE HasKey(line) /\ line.value # Empty
  <2>1. o = << <<line.key, line.value>> >>
    BY <1>4 DEF Answer, HasKey, Listing
  <2>2. line.key \in Keys /\ m[line.key] = line.value
    BY <1>1, <1>4 DEF After, HasKey
  <2>3. \A p \in Keys \X Values :
           Asks(line, p[1], p[2]) <=> line.key = p[1] /\ line.value = p[2]
    BY <1>4 DEF Asks, HasKey
  <2>4. <<line.key, line.value>> \in Keys \X Values
    BY <1>1, <1>4, <2>2
  <2>5. Found(m, line) = {<<line.key, line.value>>}
    BY <2>2, <2>3, <2>4 DEF Found
  <2> QED
    BY <1>4, <2>1, <2>5 DEF Printed, HasKey
<1>5. CASE line.regex # "trimmed" /\ ~Listing(line) /\ ~(HasKey(line) /\ line.value # Empty)
  <2>1. o = <<>>
    BY <1>5 DEF Answer
  <2>2. \A p \in Keys \X Values : ~Asks(line, p[1], p[2])
    BY <1>5 DEF Asks, HasKey, Listing
  <2> QED
    BY <1>5, <2>1, <2>2 DEF Printed, Found
<1> QED
  BY <1>2, <1>3, <1>4, <1>5

-----------------------------------------------------------------------------
(* The strengthening of AnswersFollowLines to every key: what a line       *)
(* prints, as one set of pairs.                                            *)
PrintsLines ==
  (pc = "reading" /\ lines # <<>>) =>
    LET line == Last(lines)
        found == {p \in Keys \X Values : AssignedIn(lines, p[1], p[2]) /\ Asks(line, p[1], p[2])}
    IN  /\ \A i, j \in DOMAIN out : i < j => out[i][1] < out[j][1]
        /\ {out[i] : i \in DOMAIN out} =
             IF line.regex = "trimmed" /\ found = {} THEN {<<line.key, Empty>>} ELSE found

(* The inductive invariant of the answers: only finitely many keys have    *)
(* entries, so that they can be listed in order, and no line has been read *)
(* from a directory, whose empty lines print nothing.                      *)
AInv == /\ IsFiniteSet(WithEntry(key_value_map))
        /\ pc = "reading" /\ Leads("directory") => lines = <<>>
        /\ PrintsLines

(* The map of a new call is empty, and a line adds at most one key. *)
LEMMA NoEntriesFinite == IsFiniteSet(WithEntry(NoEntries))
<1>1. WithEntry(NoEntries) = {}
  BY DEF WithEntry, NoEntries
<1> QED
  BY <1>1, FS_EmptySet

LEMMA AfterFinite ==
  ASSUME NEW map \in [Keys -> Values \cup {Empty}], IsFiniteSet(WithEntry(map)),
         NEW line
  PROVE  IsFiniteSet(WithEntry(After(map, line)))
<1>1. WithEntry(After(map, line)) \in SUBSET (WithEntry(map) \cup {line.key})
  BY DEF WithEntry, After
<1>2. IsFiniteSet(WithEntry(map) \cup {line.key})
  BY FS_AddElement
<1> QED
  BY <1>1, <1>2, FS_Subset

(* AInv holds at the start, after a line that was read, after any step. *)
LEMMA AInit == Init => AInv
BY NoEntriesFinite DEF Init, AInv, PrintsLines

LEMMA AnswersAfterRead ==
  ASSUME TypeOK, MapIsLines', IsFiniteSet(WithEntry(key_value_map)),
         NEW line \in Lines, Reads(line)
  PROVE  PrintsLines'
<1>1. lines \in Seq(Lines) /\ key_value_map \in [Keys -> Values \cup {Empty}]
  BY DEF TypeOK
<1>2. Last(lines') = line
  BY <1>1 DEF Reads, Last
<1>3. pc' = "reading" /\ out' = Answer(key_value_map, line)
      /\ key_value_map' = After(key_value_map, line)
  BY DEF Reads, HasLine
<1>4. \A k \in Keys, v \in Values : AssignedIn(lines, k, v)' <=> key_value_map'[k] = v
  BY <1>3 DEF MapIsLines
<1> DEFINE found == {p \in Keys \X Values : AssignedIn(lines, p[1], p[2])' /\ Asks(line, p[1], p[2])}
<1>5. found = Found(key_value_map', line)
  BY <1>4 DEF Found
<1>6. /\ \A i, j \in DOMAIN out' : i < j => out'[i][1] < out'[j][1]
      /\ {out'[i] : i \in DOMAIN out'} = Printed(key_value_map', line)
  BY <1>1, <1>3, AnswerRight
<1>7. {out'[i] : i \in DOMAIN out'} =
        IF line.regex = "trimmed" /\ found = {} THEN {<<line.key, Empty>>} ELSE found
  BY <1>5, <1>6 DEF Printed
<1> QED
  BY <1>2, <1>6, <1>7 DEF PrintsLines

LEMMA AStep == TypeOK /\ MapIsLines /\ AInv /\ [Next]_vars => AInv'
<1> SUFFICES ASSUME TypeOK, MapIsLines, AInv, [Next]_vars PROVE AInv'
  OBVIOUS
<1>0. MapIsLines'
  BY MapIsLinesStep
<1>1. CASE Opens
  BY <1>1, NoEntriesFinite DEF Opens, Call, AInv, PrintsLines
<1>2. CASE \E line \in Lines : Reads(line)
  <2>1. PICK line \in Lines : Reads(line)
    BY <1>2
  <2>2. IsFiniteSet(WithEntry(key_value_map'))
    BY <2>1, AfterFinite DEF Reads, TypeOK, AInv
  <2>3. ~Leads("directory")'
    BY <2>1 DEF Reads, HasLine, Leads, IsCin
  <2>4. PrintsLines'
    BY <1>0, <2>1, AnswersAfterRead DEF AInv
  <2> QED
    BY <2>2, <2>3, <2>4 DEF AInv, WithEntry
<1>3. CASE ReadsNothing
  <2>1. pc = "reading" /\ lines = <<>> /\ UNCHANGED <<kind, filenames, at, pc, lines, key_value_map>>
    BY <1>3 DEF ReadsNothing, AInv
  <2> QED
    BY <2>1 DEF AInv, PrintsLines, WithEntry
<1>4. CASE pc' # "reading" /\ key_value_map' = key_value_map
  BY <1>4 DEF AInv, PrintsLines, WithEntry
<1>5. CASE UNCHANGED vars
  BY <1>5 DEF vars, AInv, PrintsLines, WithEntry, Leads, IsCin, AssignedIn
<1>6. Fails \/ Returns \/ EndOfFile \/ (\E line \in Lines : Aborts(line))
        => pc' # "reading" /\ key_value_map' = key_value_map
  BY DEF Fails, Returns, EndOfFile, Aborts
<1> QED
  BY <1>1, <1>2, <1>3, <1>4, <1>5, <1>6 DEF Next

(* Of each key the set of pairs has what AnswersFor says. *)
LEMMA PrintsEachKey == TypeOK /\ PrintsLines => AnswersFollowLines
<1> SUFFICES ASSUME TypeOK, PrintsLines, pc = "reading", lines # <<>>
             PROVE  /\ \A i, j \in DOMAIN out : i < j => out[i][1] < out[j][1]
                    /\ \A k \in Keys :
                         {v \in Values \cup {Empty} : <<k, v>> \in {out[i] : i \in DOMAIN out}}
                           = AnswersFor(lines, k, Last(lines))
  BY DEF AnswersFollowLines
<1> DEFINE line == Last(lines)
           printed == {out[i] : i \in DOMAIN out}
           found == {p \in Keys \X Values : AssignedIn(lines, p[1], p[2]) /\ Asks(line, p[1], p[2])}
<1>1. /\ \A i, j \in DOMAIN out : i < j => out[i][1] < out[j][1]
      /\ printed = IF line.regex = "trimmed" /\ found = {} THEN {<<line.key, Empty>>} ELSE found
  BY DEF PrintsLines
<1>2. ASSUME NEW k \in Keys
      PROVE  {v \in Values \cup {Empty} : <<k, v>> \in printed} = AnswersFor(lines, k, line)
  <2> DEFINE ofKey == {v \in Values : AssignedIn(lines, k, v) /\ Asks(line, k, v)}
  <2>1. \A v \in Values : v \in ofKey <=> <<k, v>> \in found
    OBVIOUS
  <2>2. <<k, Empty>> \notin found
    BY EmptyIsNothing
  <2>3. AnswersFor(lines, k, line) =
          IF line.regex = "trimmed" /\ line.key = k /\ ofKey = {} THEN {Empty} ELSE ofKey
    BY DEF AnswersFor
  <2>4. CASE line.regex = "trimmed" /\ found = {}
    <3>1. printed = {<<line.key, Empty>>} /\ ofKey = {}
      BY <1>1, <2>1, <2>4
    <3>2. \A v \in Values \cup {Empty} : <<k, v>> \in printed <=> line.key = k /\ v = Empty
      BY <3>1
    <3> HIDE DEF printed, ofKey, found, line
    <3> QED
      BY <2>3, <2>4, <3>1, <3>2
  <2>5. CASE ~(line.regex = "trimmed" /\ found = {})
    <3>1. printed = found
      BY <1>1, <2>5
    <3>2. ~(line.regex = "trimmed" /\ line.key = k /\ ofKey = {})
      <4> SUFFICES ASSUME line.regex = "trimmed", line.key = k, ofKey = {} PROVE FALSE
        OBVIOUS
      <4>1. PICK p \in Keys \X Values : p \in found
        BY <2>5
      <4>2. p[1] = k
        BY <4>1 DEF Asks
      <4>3. p = <<k, p[2]>> /\ p[2] \in Values
        BY <4>2
      <4> QED
        BY <2>1, <4>1, <4>3
    <3>3. \A v \in Values \cup {Empty} : <<k, v>> \in printed <=> v \in ofKey
      BY <2>1, <2>2, <3>1, EmptyIsNothing
    <3>4. ofKey \subseteq Values
      OBVIOUS
    <3> HIDE DEF printed, ofKey, found, line
    <3> QED
      BY <2>3, <3>2, <3>3, <3>4
  <2> QED
    BY <2>4, <2>5
<1> QED
  BY <1>1, <1>2

(* Whatever lines are read, each line prints of the keys its operand has   *)
(* named what the last line naming them says, in the order of the keys.    *)
THEOREM AnswersCorrect == Spec => []AnswersFollowLines
<1>1. AInv => PrintsLines
  BY DEF AInv
<1> QED
  BY <1>1, MapIsLinesInit, TypeInit, TypeStep, MapIsLinesStep, AInit, AStep, PrintsEachKey,
     PTL DEF Spec
=============================================================================
