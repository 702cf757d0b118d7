# TLA+ models of the CSE111 programs

The repository holds four C++ programs and the course material they were
written for. This directory holds TLA+ modules for the programs whose
behaviour goes beyond one function call, TLC configurations that check them
on small instances, and proofs that TLAPS checks for every instance. Paths
below are relative to `src/` at the root of the repository; `cixd.cpp:139`
means line 139 of the file of that name.

## 1. The system

### 1.1 Components

| component | source | state it keeps | operations | modelled in |
|---|---|---|---|---|
| cix protocol | `CSE111/asg4/code/protocol.{h,cpp}` | none; a 64-byte header on a byte stream | `send_packet`, `recv_packet` | `CixProtocol` |
| cix packets and sockets | `CSE111/asg4/code/protocol.cpp`, `sockets.{h,cpp}` | a call in progress: `bufptr`, `ntosend`, `ntorecv`, the buffer; the bytes the kernel holds | `create`, `connect`, `accept`, `send`, `recv`, `close`, the loops of `send_packet` and `recv_packet` | `CixPackets` |
| cix client | `CSE111/asg4/code/cix.cpp` | the connection, local files | `cix_ls`, `cix_get`, `cix_put`, `cix_rm`, exit | `Cix` |
| cix child server | `CSE111/asg4/code/cixd.cpp` | the header it works on, an open file, the buffer of an `ofstream`; the directory, shared with the other servers | `reply_ls`, `reply_get`, `reply_put`, `reply_rm`, the end of the session | `Cix` |
| cix daemon | `CSE111/asg4/code/cixd.cpp`, `sockets.{h,cpp}` | processes, their open sockets, `errno`, pending signals | `accept`, `fork`, `close`, `waitpid`, `signal_handler` | `CixListener` |
| logstream | `CSE111/asg4/code/logstream.h` | none | formats log lines | not modelled |
| yshell | `asg2/code/{commands,file_sys,main,util}.{h,cpp}` | a graph of inodes, `cwd`, the counter of inode numbers, the prompt, the exit status | `cat cd echo exit ls lsr make mkdir prompt pwd rm` | `Yshell` |
| ydc | `asg1/code/` | a stack of big integers, each a sign and a vector of digits | `+ - * / % ^ Y c d f p q` | `Ydc`, `Ubigint`, `Division` |
| keyvalue | `CSE111/asg3/code/` | a sorted map per operand, the stream `cin`, the status | assign, print, delete, search; the loop over the operands | `Keyvalue` |
| debug, util | `*/code/{debug,util}.{h,cpp}` | trace flags | tracing, string helpers | not modelled (`split` is part of `Yshell!Paths`) |
| course material | `asg*-*/`, `*.mm`, `RCS/`, listings | none | none | quoted where it claims something of a program |

### 1.2 How they interact

* A **cix client** and its **child server** share one TCP connection: two byte
  streams, each read with `recv_packet`, which blocks until it has as many
  bytes as it was asked for and throws when the stream ends before. The request
  and the reply are each a header and perhaps a payload. Nothing in the stream
  marks where a header begins.
  Below that, `send` and `recv` move as many bytes as the kernel has room for or has.
* The **child servers** share one directory of the file system, without locks.
* The **daemon** owns the listening socket, forks a child server for each
  connection, and is interrupted by the SIGCHLD of each that ends. Parent and
  child run the same text of `main`, told apart only by what `fork` returned.
* **yshell**, **ydc** and **keyvalue** are sequential: one user, one command or line
  at a time, a data structure that every command relies on.

### 1.3 What is hard, and what makes each part correct

* *Sessions* (`Cix`): the two ends must agree on how many bytes belong to each
  message. When they do, each request is answered once with an answer of its
  own kind, and takes effect in the directory at one instant. When they do not
  (a payload is counted in the wrong byte order, or stays unread after a NAK)
  the stream is garbage from there on, and what should still hold is that no
  forbidden name is used and that both sides end when the other has.
* *Packets* (`CixPackets`): both loops keep a position in a buffer across calls that
  may do a part of the work, the peer may end at any point, and the buffer of the
  kernel may be full. A packet must come out whole and in order whatever the pieces,
  and an end that waits must hear of what arrives or of a peer that is gone.
* *The daemon* (`CixListener`): signals are merged, interrupt `accept`, and run
  a handler in the middle of any line; children share the sockets and the
  code of their parent. Every zombie must be reaped, every connection accepted
  and then served or closed, and only the daemon may accept.
* *The inode graph* (`Yshell`): `mkdir`, `make` and `rm` edit a graph that is
  meant to be a tree, `cd` walks over it and `pwd`, `ls` and `lsr` climb it. They
  rely on `.` and `..` and on the tree having no second way to an inode, and on the
  number of the root being its own.
* *Big integers* (`Ubigint`, `Ydc`): every operation carries from digit to
  digit, and every comparison trusts that no number has zeros in front. Division
  runs two loops that must end, keep their invariant and give the numbers of Euclid.
* *Lines and operands* (`Keyvalue`): the code's map belongs to one operand, `cin` and its
  eof bit outlive it, and the status outlives both. What a line prints of a key must follow
  from the last line that named it, and the course's text means one of any operand.

`PROJECT.json` lists each of these under `hazards`, at its line, with the
properties that would show it going wrong.

## 2. The modules

```
CixProtocol <- Cix <- CixProperties <- MCCixEmpty, MCCixPayload, MCCixClaims
                       |   |  \-- INSTANCE CixFileService    (abstract service)
                       |   \----- CixProofs
CixProtocol <- CixPackets <- MCCixPackets
                    |  \---- INSTANCE CixStream                (abstract stream), twice
                    \------- CixPacketsProofs
CixListener <- MCCixListener
       \------ CixListenerProofs
Yshell <- YshellProperties <- MCYshell
                 |  \---- INSTANCE YshellTree                (abstract tree)
                 \------- YshellProofs
Ubigint <- Ydc <- YdcProperties <- MCYdc
                      |  \---- INSTANCE Division                (naturals)
                      \------- YdcProofs   (INSTANCE DivisionProofs)
Division <- DivisionProofs
Keyvalue <- MCKeyvalue
   |  \---- KeyvalueProofs
   \------- KeyvalueHistory <- MCKeyvalueHistory
Order <- Cix, CixFileService, Keyvalue
      \- Induction <- CixProofs, YshellProofs, YdcProofs, KeyvalueProofs
```

`Order` is the order in which numbered things are listed (`listmap` by its keys, `ls` by
the names), and `Induction` the lemmas on numbers, finite sets and recursive functions that
four of the proof modules share.

Definitions named `x_something` that stand just before a definition `x` are
plausible bugs in the code of `x` (a dropped check, a missing reset); nothing
uses them but the list of mutants in `PROJECT.json`. Each property of a passing
run is violated when one of them replaces its `x`.

### 2.1 CixProtocol and Cix

`CixProtocol` is the layout of a header and what `recv_packet` takes from a
stream. The header is scaled down to four bytes, two of `nbytes`, one of
`command`, one of `filename`, over bytes of `Radix` values (16 in the runs).
The scale keeps what the code's behaviour turns on: `nbytes` comes first and has
a byte order, `command` is one byte, and the codes of the commands are values
that any byte may have. File names are single bytes above the codes.

| variable of `Cix` | code |
|---|---|
| `cpc`, `spc` | the call of `recv_packet` or `send_packet` each program is in |
| `request`, `reply` | `cix_header header` of the client's commands |
| `local` | the files of the client's directory |
| `up`, `down` | the bytes in flight in each direction of the connection |
| `header` | `cix_header header` of `run_server` |
| `handle`, `buffer` | the `ifstream` or `ofstream` of a reply, and what it has not written yet |
| `dir`, `disk` | the directory: names to inodes, inodes to bytes |

`dir` and `disk` are apart because an open file outlives its name: `rm` unlinks
what `get` is still reading. `Content` is a file whose length fits an `int`: in a longer
one the code of `file_length` overflows.

Each action is the code between two points where another process can get in:
`reply_get` takes the length and sends the header, `send_file` reads and sends the
bytes; `reply_put` opens and truncates, `recv_file` receives the payload and
sends ACK, `flush_file` is the destructor of the `ofstream`, which runs after the
ACK, or as the exception of an ACK that could not be sent leaves `reply_put` (`"unwind"`). `heap_overflow` is one outcome of `recv` clearing more bytes than the buffer
holds; going on as if nothing had happened is the other.
Either program may lose its peer at any time (`leave`, `heap_overflow`, a failed
send), and a send to a peer that has gone is either lost or throws. What a program
that has gone had sent may lose its end on the way (`lose_end`): the rest of a packet
it died in, or what a reset threw away. To `CixFileService` such a request was never
made (`Forget`).

`Slashed`, `Unwritable`, `Unreadable` and `Unremovable` are the names for which
`checkValidFileName`, the `ofstream`, the `ifstream` and `unlink` fail.

`CixFileService` is the promise: a directory of contents, and for each client a
request that takes effect once, atomically, at some instant before its answer is
heard. `CixProperties!Service` maps the sessions to it: a request is pending
while its header is unread, and its answer exists from the moment its header is
sent, the bytes a `get` has still to read being part of it.

### 2.2 CixPackets and CixStream

One connection between a client and a server, from `create`, `connect` and `accept` to
`close`. `pc` says which call an end is in; `unsent` is what `bufptr` and `ntosend` of
`send_packet` stand for, `buffer` and `fill` what `bufptr` and `ntorecv` of `recv_packet`
do, `wire` what the kernels hold. `send` and `recv` are one turn of a loop, of any
number of bytes that fits; `recv` also clears the rest of the buffer, as its `memset` does.
A call that throws is `close`, since each program ends with its connection. `reset` is
what TCP does when a peer ends with bytes it has not read.

`CixStream` is one direction of it as the programs see it: a queue of bytes to which a
send adds and from which a receive takes at once, and whose end may be cut once the sender
is gone. `ImplementsStreams` maps both directions: the bytes of a packet count
as sent when `send_packet` is called, and as received when `recv_packet` returns. This is
why `Cix` may take the sending or the receiving of a packet as one step, and what
`lose_end` there stands for. A send in `Cix` never waits for room: both ends blocked in
`send_packet` is in `CixPackets` (its capacity is smaller than a packet) and not in `Cix`.

### 2.3 CixListener

One set of actions, indexed by the process, is the text of `main`, because a
child runs the same text: if naming its peer fails (`cixd.cpp:183`) the exception
is caught in the daemon's loop, and the child carries on in it. A signal handler
is a flag (`handling`) that keeps main from moving, entered by any process with
a pending signal (`sigchld`, one bit, since signals merge). `errno` is a variable
since the loop decides on it what to do, and the handler changes it. `accept` may be
interrupted, have no listener, or fail as in `AcceptErrors`, which ends the daemon.

### 2.4 Yshell

An inode is an object and `nr` a number it carries. `dirents` maps an inode and
an entry to an inode, to `Null` (a null `shared_ptr`, which `operator[]` leaves in
the map when it reads a key that is not there) or to `Absent`. A command is
one step. The walks over a path (`EnterAll`, `PassAll`) are the loops of the code, one
turn of which is `Enter` or `Pass`, with what they do at a component that does not exist:
skip it. `Lose` is every way in
which a command ends the shell: a null pointer, `words.at (0)` of a blank line,
`size() - 1` of an empty vector, a `file_error` that `main` does not catch, a climb
that never meets the root. `prompt_`, `status` and `ysh` are the session: `Status` is
`exec::status`, which every complaint and `exit` call, and `exit` without a number does
not end the shell.

`YshellTree` is a file system seen through its paths: a map from absolute paths to files
and directories, a current path, and changes that each concern one path: a node is added
under an existing directory, words are put in a file, a path is removed with what is below
it, or the current path moves. `YshellProperties!Tree` maps the graph to it by resolving
every path from the root. It says that the graph is never anything but a tree and that
nothing else moves with a command; it does not say that a command does what the manual
says. That these differ is known from reading, and one command shows each
(`asg2-shell-fnptrs-oop.mm`; the model has what the code does):

* `make` of a file that exists appends the words (`file_sys.cpp:268`); the text (190-191),
  `file_sys.h:124` and the comment at `commands.cpp:664` say that it replaces them.
* `rm` takes a directory that is not empty, with all below it (`file_sys.cpp:296`); the
  text (216) and `file_sys.h:147-150` say that it must be empty. There is no `rmr`.
* A `/` in front of a path is ignored, and the walk begins at the current directory; the
  text (106-110) has it begin at the root.
* A component that does not exist is skipped and the walk goes on (`commands.cpp:627`); the
  text (140-141, 156, 196-198) calls it an error after which nothing is done.
* `exit 0` does not lower the status (`util.cpp:36`); the text (163) has the shell exit
  with the given status. And most commands that fail print a message without raising it
  (`commands.cpp:205, 561, 671, 752`); the text (303-305) has it become 1.

That inode numbers are unique (123) takes several commands to refute, and is a run
(`ysh_numbers`). The sample session of the text itself removes `bar` and then gives the
number 4 to the next file (337-348), which a counter that never goes down does not give.
What the code's counter does keep is `RootNumberAlone`: `get_path` knows the root by
its number.

### 2.5 Ubigint, Ydc and Division

`Ubigint` is the arithmetic on vectors of digits, the lowest first, as functions:
a carry or a borrow is a function of the position, so that `Plus`, `Minus` and
`Times` are what the loops of `ubigint.cpp` compute in place. The digits are
those of `Base` (10 in the code; any even number above 2 here, since `divide_by_2`
passes half of it down).

`Ydc` is the loop of `main` and the stack. A token is one step. A division that
the user asks for is taken turn by turn: `loop` is the record of the variables of
`udivide`, and `Doubles` and `Halves` are its two loops; the divisions inside `pow`
use the same turns in one step (`udivide`). "Lost" is a calculator ended by
an exception that nobody catches, by the top of an empty vector, or by the one
endless loop: the product of 0 and a number of two digits is `00`, which is not equal to
zero, and doubling it never reaches a longer dividend.

`Division` is `udivide` on natural numbers. `YdcProperties!Natural` maps the digits to
their values, as long as neither operand has zeros in front.

### 2.6 Keyvalue

A line is the expression that matched it first, with its two captures, 0 for an empty one.
The lines of an operand are chosen as they are read, since nothing in the code looks ahead;
`kind` says what each name leads to: a file, a directory (which opens, and never
meets its end) or nothing. `Opens`, `Fails` and `Returns` are the loop of `main`;
`Reads`, `Aborts`, `EndOfFile` and `ReadsNothing` that of `keyValue_Function`. The map is
made anew by each call. The program's own `listmap.tcc` is not in the repository (the stub
handed out is, at `asg3-listmap-templates/code/listmap.tcc`), so that the map is what
its name and its uses say: a function from keys that iterates in their order. `erase` of
`end ()` may end the program (`Aborts`) or change nothing.

The program differs from `misc/pkeyvalue.perl`, "whose behavior your program should
emulate" (`asg3-listmap-templates.mm:168`), in two ways that the model has. It drops a last
line without a newline (`eof ()` holds after it). And it does not carry the map from operand
to operand: `KeyvalueHistory` adds to `Keyvalue` the lines of the operands that have been
read, and the run `keyvalue_carried` refutes that answers follow from them. The passing
properties of `keyvalue` take no side: they speak of keys that the operand being read
has named itself, for which both programs answer the same.

## 3. The runs

| run | instance | what it shows |
|---|---|---|
| `cix_empty` | 2 clients, 3 requests, puts of empty files, one file that can be neither read nor removed | sessions stay in step, every request is answered with an answer of its kind, and the service is atomic (`ImplementsService`) |
| `cix_payload` | 2 clients, 3 requests, puts of 1, 5, 16 and 17 bytes | what still holds when streams are out of step: no name with a slash is created, answers are sent only to a client that made a request, and neither side outlives the other |
| `cix_packets` | 2 ends, packets of 0, 1 and 3 bytes, receives of 0, 1 and 3, kernel buffers of 2 | packets travel whole and in order (`ImplementsStreams`, both directions), what has been sent arrives, a lost peer is noticed, no buffer is overrun |
| `cix_put_stored` | violation of `AckedPutStored` | a put is acknowledged whose bytes are not in the file |
| `cix_get_torn` | violation of `GotWholeFile` | a get pads with zeros what a put truncated after the length was sent |
| `cix_listener` | 3 connections, lookups, forks and `accept` may fail | zombies, sockets and stray children; every connection is accepted and served or closed |
| `cix_listener_stops` | 2 connections, nothing fails; violation of `DaemonKeepsListening` | a signal between the failure of `accept` and the copy of `errno` ends the daemon |
| `ysh_tree` | 4 inodes, 2 names, paths of 2 components | the graph stays a tree, the way up leads back down, what is removed stays so, the number of the root is its own (`RootNumberAlone`), and the graph implements `YshellTree` |
| `ysh_numbers` | violation of `NumbersUnique` | two files with the number 3 |
| `ydc` | 3 numbers on the stack, base 4, 11 literals | sums, products, powers and differences are those of the integers, no operation on trimmed numbers leaves zeros in front (but a product with 0), a division by a number other than 0 ends with the quotient and remainder of Euclid, and its loops implement `Division` |
| `keyvalue` | 2 keys, 2 values, up to 3 operands of up to 3 lines | for the keys an operand names, the map and the answers are those of the last lines to name them (`LastAssignmentCounts`, `AnswersFollowLines`); the operands are all read and the status tells of one that failed; and files end |
| `keyvalue_carried` | 2 keys, 2 values, 2 operands; violation of `AnswersFollowAllOperands` | a key set in one operand is not found in the next |

The violations are the `findings` of `PROJECT.json`, each with the sentence of the
course's text that the code does not meet. More departures are in the models without
a run of their own, beside those of section 2.4. A put that `reply_put` refuses leaves its
payload in the stream; the next header is read from there, and in `cix_payload` a put of
five bytes after one of one byte is acknowledged while its file is made under another name.
After a put whose length reads the same in both byte orders (17 bytes there) client and
server wait for each other until one of them is ended. A peer without a host name, and an
error of `accept`, end the daemon. A `mkdir` through a plain file throws an exception nobody
catches and ends the shell (`Lose`). A directory as an operand keeps keyvalue busy for ever
(`ReadsNothing`).

### 3.1 Bounds, and why they are enough

* *cix*: two clients are the fewest that race in one directory, and no action
  involves more. Three requests in all (`MaxRequests`) allow one client to make
  two while the other makes one in between, which is what truncates or unlinks a file
  between the halves of a get, and allow two requests after a garbled one. The
  lengths of `cix_payload` are the distinct cases of the byte order with
  `Radix` = 16: 1 reads as 16 (more than is sent), 16 reads as 1 (the rest stays in
  the stream), 17 reads as itself, and 5 has the code of PUT as its low byte, so
  that a stream shifted by one byte holds a request. `MaxInodes` is never the
  reason a put fails: it exceeds the names in use by the files that can be open
  without a name.
  `Cuts` are the lengths a broken stream may be left with: in `cix_empty` nothing or
  half a header, in `cix_payload` nothing or a header and one byte of what follows it.
  No packet is taken from a part of it, whatever its length.
* *packets*: a kernel buffer of two bytes is less than a packet of three, so that both
  loops take several turns and the writer waits for the reader; a packet of three and one of one
  let a receive of three take parts of several packets, and one of one a part of
  one. No byte decides anything, so that four values tell all positions apart.
* *listener*: three connections give a zombie, a running child and a queued
  connection at once, the least for a merged signal to matter.
* *yshell*: four inodes are the root and three more, enough for a directory in a
  directory with a file in it, for a chain of three and for two siblings that are
  removed and made again; numbers collide after three. The paths have two
  components, and from any directory that is enough to climb past the root and
  to walk through a file. `MaxWords` bounds a file to one word: the words of a file
  do not decide anything but what is appended, and the one word is shared with the prompt.
  `Statuses` are 0, which is less than any, and 2, which exceeds one; 127 is always
  possible.
* *ydc*: in base 4 numbers of one to four digits have the carries, the borrows and the
  odd halves that base 10 has in longer ones. Three numbers on the stack let each
  operand of an operation be a result itself, a product with 0 (`00`) among them. Operands
  have up to two digits (`MaxDigits`), but `ArithRight` and `TrimmedKept` speak of
  the result whatever its length, and doubling goes beyond it. Exponents have
  one digit (`MaxExponent`), enough for a turn of each kind of `pow`.
* *keyvalue*: three lines are an assignment, its replacement or deletion and a question; three
  operands put a name between two reads of `cin`, or a name twice. Two keys and two values
  have an order to print in and a search with one answer, two answers or none.

`CHECK_DEADLOCK FALSE` is set where the program may stop: all clients have left, the
daemon has ended, the shell has exited or used up its inodes, the calculator or keyvalue has ended.

### 3.2 Fairness

Fairness is assumed of what the operating system schedules and of nothing that
a user decides. `Cix!Fairness`: a server that can move does, and a client that is
sending or receiving does; nobody need type a command or leave. `CixListener!Fairness`:
a process that is not blocked in `accept` or in a session runs on, and a pending
signal is delivered; no client need connect, no session (`ServeEnds`) need end, and `accept` need not fail
(`AcceptFails`): were it to, no daemon could be stuck in `accept`.
Weak fairness is enough: what a process can do next stays possible until it does it,
but for a signal handler, which holds main up only as often as a child ends.
`Yshell` states no fairness, and no liveness.
`CixPackets!Fairness`: a call goes on when the kernel lets it, but for a `recv` of no bytes,
on which a kernel may wait; nobody need make a call. `Keyvalue`: the program runs, and
its input is finite (`MaxLines`), as that of files is.
`Ydc`: the loops of a division run on; nobody need type a token.

## 4. What is proved

TLAPS checks the following for every value of the constants that meets the
named assumptions. A run checks each property first, on a small instance.

* **`CixListenerProofs`**: `TypeCorrect`, `NoZombieForgotten`, `OneDaemon` and
  `NoSockLeaks` for any set of connections. None is inductive. `IInv` adds
  `DaemonInv` and `ChildInv`: the line a process is at determines which sockets it
  holds. From this a child that falls back into the loop has no listener, so its
  `accept` fails with EBADF and it never forks, hence the parent of every child is
  the daemon, hence the SIGCHLD of every zombie goes to the process that must
  reap it.
* **`CixProofs`**: `TypeCorrect`; `SlashesRefused`, that no stream of bytes whatever makes a file under a name with
  a slash, by an invariant (`SlashInv`) that also covers the file a server has open.
  The other three are about puts of empty files, without which they are false (the
  findings). Under `EmptyPuts`, `SessionInv` with `TypeOK` is inductive (`SessionStep`): it
  says for each state of a client what the two streams hold and where its server is
  (`Session`: nothing, the request unread, the reply and what is still owed of it, or what a
  dead client has left behind), and that the files which can be put are empty wherever they are (`EmptyFiles`), so that the
  length sent ahead by a `get` is still that of the file when it is read. From it
  follow `SessionsInStep` and `RequestsMatched`. `ServiceImplemented` is the refinement of
  `CixFileService`, action by action; it needs `DiskRoom` too, since a put for which there is
  no inode left is refused by the model and not by the service, and a count of the
  inodes in use (`dir` and the open files) to show that there always is one.
  The configuration of `cix_empty` meets both hypotheses: TLC evaluates them there
  (`McAssumption`).
* **`CixPacketsProofs`**: `TypeCorrect`, and `PacketsImplementStreams`, the refinement of
  `CixStream` in both directions, for packets of any bytes and length, receives of any
  size and kernels of any capacity. `TypeOK` is inductive, and says what the refinement needs:
  how far a buffer is filled, and that nothing is held outside a call. The rest is that a turn of
  `send` moves bytes from `unsent` to `wire`, and one of `recv` from `wire` to the filled part of
  `buffer` (`FilledTaken`), without changing their concatenation.
* **`YshellProofs`**: `TypeCorrect`, `NoHardLinks` and `DotsKept`, for any names,
  any inodes and paths of any depth, under the hypothesis that the user never gives
  `.` or `..` to `rm` (`Removable \subseteq Names`); without it they are false.
  `IInv` is `TypeOK` with `OneName` and `Dots`, the two properties said of entries
  in place of links. They hold each other up: a new entry goes where its name
  is missing, and a missing entry is a name only because `.` and `..` are always there
  (`MissingIsName`); `mkfile` writes to the inode that `.` names, which is the
  directory only by `Dots`; and that `..` stays right needs that the new inode had
  no name before. `RootNumberKept` adds, for finitely many inodes and names,
  that the counter is 2 more than the number of named entries (`Balance`), by counting what
  each step adds to or removes from `Links`; so it never comes down to the number of the
  root.
  The rest is about what is reachable from the root, for finitely many inodes.
  `Attached` is the least set with the root that is closed under entries (`AttachedIs`,
  `AttachedLeast`); in it every inode has one path (`OnePathEach`), no path is longer
  than there are inodes (`PathsAreShort`), and a climb by `..` undoes a walk
  down (`ClimbsBack`), which gives `PathsLeadBack`. `AInv` adds to `IInv` that `cwd` is
  attached: `cd` moves along entries only, and `rm` takes an entry of `cwd` itself, which is
  not on the path to `cwd`. Each command is one of six kinds of step (`StepKinds`):
  no change, a move, a new file, a new directory, words for a file, a removal. With that
  `RemovedForGood` is that an attached inode was attached before or is new, and `TreeImplemented` the refinement of `YshellTree`: a new entry adds its path
  (`AddsPath`), a removal takes the paths through the removed inode (`RemovesPaths`),
  and a path resolves in the graph as it does in the tree (`TreeFacts`).
  `RInv` adds to `AInv` that only plain files have words.
* **`DivisionProofs`**: `DivisionCorrect`, the quotient and the remainder for any
  dividend and any divisor but 0. The invariant says that `power_of_2` is a power of 2 and
  `divisor = power_of_2 * divisor_` while it is positive, that the sum holds, and in the
  second loop that `remainder < 2 * divisor`; a power of 2 is a member of every set
  that holds 1 and doubles.
* **`YdcProofs`**: the calculator for every even `Base` above 2, any literals and bounds. The
  value of a vector is Horner's rule; each algorithm of `ubigint.cpp` is followed
  place by place with it (carries of `Plus`, borrows of `Minus`, rows of `Times`, the halves
  passed down by `divide_by_2`, `Trim`, the comparisons by length and then by digit). From
  this `ArithCorrect` (with `pow`, whose loop squares and halves) and `TrimmedAlways`.
  `TypeInv` strengthens `TypeOK` by what the code relies on: no number of a division has lost
  all its digits, the result has room on the stack, and no divisor is the single digit 0. `IInv` adds that no number of an exact division has
  zeros in front; under it a turn on digits is a turn of `Division`
  (`DivisionImplemented`), and `QuotientCorrect` is `DivisionCorrect` carried over by
  that refinement.
* **`KeyvalueProofs`**: `TypeCorrect`, `MapFollowsLines`, `AnswersCorrect` and
  `StatusCorrect`, for any keys, values, operands and number of lines. The properties speak
  of the keys an operand names and of the status; what is inductive is more, that the map is
  that of all the operand's lines (`MapIsLines`: an appended line is the last to name
  its own key and leaves the others as they were, `AssignedAfter`) and that what is printed
  is that of the map (`PrintsLines`). `AInv` adds that the map has finitely many
  entries, without which there would be no order to list them in, and that nothing is read
  from a directory.
* **`Induction`** states induction over sets: the numbers for which a claim holds are a set,
  and one that holds 0 and the successor of each of its numbers holds all
  (`InductionNat`, `InductionTo`, `InductionDown`, from the well-foundedness of `<`).
  `Recursion` is that an equation which gives each value from the one before has a solution on
  an interval, so that the recursive functions of the modules are what their equations
  say. The proofs about digits, carries, paths and listings rest on these. `InOrderLists` is that
  the numbers of a finite set have an order to be listed in.

The assumptions are those named `...Assumption` in the modules: `Radix` exceeds the
codes of the commands, the daemon is not a connection, inodes are positive integers,
names are not `.` or `..`, the ends of a
connection differ, keys and values are positive numbers and `-` names no file.

Every safety invariant, every refinement and every action property but one that a run
checks is stated by a theorem. Only model-checked are:

* liveness: `RequestsAnswered`, `ServerFollowsClient`, `ClientNoticesDeath`,
  `PacketArrives`, `EndNoticed`, `ZombiesReaped`, `ConnectionsAccepted`, `ServedOrClosed`,
  `DivisionEnds`, `EndsOnFiles`. Fairness and ENABLED are outside what the provers used
  here can do. (That the loops of a division inside `pow` end is proved: they are given a number
  of turns, and `YdcProofs` shows it to suffice.)
* `OnlyAnswers`, the action property of `cix_payload`, which holds of sessions that are out
  of step: it would need an invariant over garbled streams.
* sessions whose puts have a payload, but for `TypeCorrect` and `SlashesRefused`.
* the shell whose user removes `.` or `..`, for which most of its theorems are false.

## 5. What is left out

* *cix*: buffering of an `ofstream` is that of small payloads, which reach the file
  when it is closed; a payload larger than its buffer (8191 bytes) would be
  written earlier. `open` and `tellg` of a get are one step, and so are the two sends of
  `reply_ls`: the listing is already read, so that nothing another program does in between
  shows. A `get` of a directory is left out, which an `ifstream` opens: what `tellg` then
  tells is the system's, a length of -1 is sent as such, and `make_unique` of it throws
  `bad_array_new_length`, which nothing catches (`cixd.cpp:90-101`). So is a failing
  allocation in `reply_put` (`cixd.cpp:137`), for a length near 2^32, and a write that fails.
  Names longer than the
  header's field (`strcpy`) are left out, as are `popen`'s child and its SIGCHLD
  in a server, whose effect is a log line. A listing is a total and the names in
  order.
* *packets*: names of hosts and services, `bind` and `listen` (they come before any
  connection), and `set_non_blocking`, which nothing calls. A signal that interrupts
  `send` or `recv` is a call that throws.
* *listener*: the log in the signal handler is left out (it is not
  async-signal-safe; what it may do then is inside the C library).
* *yshell*: what is printed; so `echo` is a step that changes nothing. A command with
  several operands is several commands from one directory, and is modelled as such.
  `//` as an operand is not told apart from `/`: after it `cd`, `ls`, `lsr` and `cat` end in a
  message, and `make` and `mkdir` do as for `/`. Removed inodes keep their memory.
* *ydc*: printing, with its broken lines, and the characters of a token. `+0` and `-0`
  are told apart as in the code. `operator-` is modelled as it is: it ignores
  the signs of its operands, where the text (`asg1-dc-bigint.mm:294-300`) wants them looked at,
  and `ArithRight` asks it to be right for operands that are not negative. `operator*` does
  not trim, where the text (258-264) wants every result trimmed: `TrimmedKept` excepts a
  product with zero, for which this shows. Results longer than `MaxDigits` are not pushed.
* *keyvalue*: the characters of a line and what is echoed of it, and the numbers of its lines.
  Lines that a matcher of the library gives up on (very long ones) are left out.
* *logstream, debug, util*: formatting and tracing. *Course material*: no program.

## 6. Plan

What could follow:

1. A run of `Yshell` in which `.` and `..` are removed, against "Every directory has
   both of these entries".
2. A proof of `OnlyAnswers`: an invariant over streams that are out of step, which says of a
   server only what it still owes for each header it has taken.
3. The sessions of `CixPackets` under those of `Cix`, so that both ends blocked in `send_packet`
   is a behaviour of the composition.
