# A TLA+ verification of radmind

radmind keeps the file systems of many machines the way a set of *transcripts* on a server says.  On
a client `ktcheck` fetches the command file and its transcripts, `fsdiff` compares the file system
with them and prints the differences as an *applicable transcript*, and `lapply` applies it,
downloading files from the server `radmind`.  On an administrator's machine `fsdiff -C` and `lcreate`
make and upload new transcripts; on the server `lmerge` and `lcksum` merge them and check them.
`ra.sh` strings the client's steps together.

This directory holds TLA+ modules for the core of that: the update of the command files, the
comparison, the application, the two of them in turn with failures and crashes, uploads, the server's
accept loop, the session of a client with the server, merging and checking of loadsets, the script
that runs the client's tools, several times at once, and the order, patterns and writing of names
that all of them rest on.  TLC checks them on small instances,
and TLAPS proves the theorems listed below for every instance.

## 1. Inventory

| component | source | state it keeps | operations | what is hard | what makes it correct |
|---|---|---|---|---|---|
| order of paths | `pathcmp.c` | none | `pathcasecmp()`, `ischildcase()` | `/` sorts first, but after the end of a string; `-I`; signed chars | a total order in which the subtree of a directory is contiguous and in which the walk proceeds |
| fsdiff | `fsdiff.c`, `transcript.c`, `hardlink.c`, `radstat.c` | one reader position per transcript, the recursion, `fs_minus`, `prev_tran`, names and flags of inodes | `fs_walk()`, `transcript()`, `transcript_select()`, `t_compare()`, `t_print()` | merging several sorted streams with a walk; precedence, minus lines, excludes, special and negative transcripts, hard links; globals read long after they were set | every path gets exactly the edit it needs, in order, under the transcript it is from |
| lapply | `lapply.c`, `update.c`, `retr.c`, `mkprefix.c` | the list of directories to remove, a shared `struct stat`, `special`, `change`, the file system, temporary files | the main loop, `do_line()`, `retr()`, `update()`, `mkprefix()` | removals put off until a directory is empty; each call may fail; the process may be killed; stale `stat` data | exit 0 means applied; files appear whole; the exit status says what happened |
| update cycle | `ra.sh` | the file system from pass to pass, `CHECKEDOUT` with its owner | `trip`, `update`, `create`, `auto`, `force`, `checkout`, `checkin`, the login hook | convergence after failures; several runs at once, and people at work on the machine; exit statuses on the way from tool to tool | one pass suffices if nothing fails, and a failure costs a bounded number of passes; each command does what the manual says; no run undoes what an administrator is at |
| server daemon | `daemon.c`, head of `cmdloop()` | `connections`, two signal flags, children | accept, fork, wait, reload of TLS | signals at any point of the loop; copies of the counter in the children | no child is lost, the limit holds, the counter is right |
| server sessions | `command.c`, `repo.c` | table of commands in force, `authorized`, `command_file`, `special_dir`, `access_list`, `remote_cn`, `upload_xscript`, files under `tmp` | `LOGIN`, `STARTTLS`, `COMP`, `STAT`, `RETR`, `STOR`, `REPO`, reading of the config and command files | globals that outlive a second `STARTTLS`; includes of includes; clients that upload at the same time, lost connections | who is served what is what the config files say, and only after TLS and a login where they are asked for; an upload belongs to one session |
| connections and TLS | `connect.c`, `tls.c`, `report.c` | capabilities, compression, the TLS layer on both sides | banner, `STARTTLS`, `COMP`, `closesn()` | banner of one line or two; a handshake that fails on one side; replies nobody asked for | both sides are in the same mode, and an answer is taken for the answer to the command it belongs to |
| ktcheck | `ktcheck.c` | command files and transcripts of the client | `check()`, `getstat()`, `createspecial()` | replacing files one by one, loops of command files | after exit 0 the client has what the server has |
| command files | `transcript_init()`, `read_kfile()` | list of transcripts, special, exclude, `kfile_list` | reading, inclusion, minus lines | precedence by position, removal of earlier entries | the transcripts in the order the command file says |
| uploads | `lcreate.c`, `stor.c` | count of outstanding answers | `STOR` in a pipeline | answers matched by parity | exit 0 means everything stored |
| lmerge | `lmerge.c`, `root.c`, `mkdirs.c` | n readers, the candidate, where its file is, the match flag, directories to remove, a buffered transcript | n-way merge, linking and copying of files, two renames | precedence, `-` lines, `-f` in place, a flag shared by all transcripts | the merged transcript means what its parts mean, its files are there before it is, and nothing else is harmed |
| lcksum | `lcksum.c` | a buffered copy of the transcript, counts, exit status | reading, checking, replacing transcripts in turn | the copy takes the place of the transcript before it is flushed | exit 0 means verified; a transcript is the old one or the right one |
| names | `wildcard.c`, `code.c`, `argcargv.c`, `list.c` | none | `wildcard()`, `encode()`, `decode()`, `acav_parse()` | backtracking; three files that have to agree on every byte | a pattern matches what it should; a name survives being written and read |
| other tools | `lfdiff.c`, `lsort.c`, `lsize.c`, `twhich.c`, `t2pkg.c`, `contrib` | | | sequential filters | |
| helpers | `base64.c`, `cksum.c`, `progress.c`, ... | | | pure conversions, libraries | |

The components interact through files and the server: the output of fsdiff is the input of lapply
(`MODULE Reconcile` composes the two); `ra.sh` runs the tools one after the other, and several runs of
it share the machine (`MODULE Rash`); lapply and ktcheck talk to a child of the daemon, one for each
connection (`MODULE Session` for the connection itself, `MODULE Ktcheck` and `MODULE Upload` for what
is fetched and stored over it); children and daemon share nothing but the copy of `connections` made
by `fork()` and the `SIGCHLD` a child leaves; sessions share the directories of the server; lmerge and
lcksum work on the loadsets there, one after the other (`MODULE Tools`).

`PROJECT.json` lists under "hazards" what in this code is hard to test, at its line, with the
properties that would notice.

## 2. The modules

| module | models |
|---|---|
| `PathOrder` | `pathcasecmp()`, `ischildcase()` and the sort of `fs_walk()` over byte strings |
| `Wildcard` | `wildcard()` over patterns and texts, extends `PathOrder` for the bytes |
| `Encoding` | `encode()`, `encode_space()`, `decode()`, `acav_parse()` |
| `Naming` | the three together |
| `RadFS` | paths as ranks, inodes and names, `lstat()`, transcript lines |
| `TreeDiff` | what fsdiff must print, stated over the whole tree and whole transcripts |
| `Fsdiff` | fsdiff, one iteration of a loop at a time |
| `Lapply` | lapply, one system call or exchange with the server at a time |
| `Reconcile` | fsdiff and lapply in turn, extends `Lapply`, instantiates `TreeDiff` |
| `Rash` | runs of `ra.sh` at the same time, one tool at a time |
| `Daemon` | the accept loop of radmind with signals and children |
| `CommandFiles` | what command files mean, and how `transcript_init()` and `read_kfile()` of fsdiff read them |
| `Ktcheck` | ktcheck against a server whose files change, then fsdiff's reading; extends `CommandFiles` |
| `Upload` | several runs of lcreate, each with `f_stor()` in its child of radmind |
| `ServerConfig` | `command_k()`, `match_config_entry()` and `read_kfile()` of the server, line by line |
| `Session` | a client and the child that serves it, message by message; extends `ServerConfig` |
| `LoadSets` | transcripts with their file directories, `mkdirs()`, what makes a loadset complete |
| `Lmerge`, `Lcksum` | the two tools; both extend `LoadSets` |
| `Tools` | one run of lmerge and then one of lcksum on the same repository |
| `Naming_proofs`, `Lapply_proofs`, `Daemon_proofs`, `Upload_proofs`, `Session_proofs`, `Tools_proofs`, `Rash_proofs`, `Fsdiff_proofs` | theorems and their proofs |
| `MCObjects`, `MCFsdiff`, `MCLapply`, `MCReconcile`, `MCKtcheck`, `MCUpload`, `MCNaming`, `MCSession`, `MCTools`, `MCRash` | instances for TLC |

**Paths.**  A path is its rank in the order of `pathcasecmp()`; `Last[p]` is the greatest rank below
`p`, so `ischildcase()` becomes membership in an interval.  `PathOrder` checks on real byte strings,
with and without `-I` (the variable `caseSensitive`), that the order has this shape.  Names are
therefore never put together from characters elsewhere.

**Objects** are records of type, data (contents, link target, device number), owner, mode and mtime.
`Data` has a size for each element, with two elements of the same size, so that size, checksum and
timestamp can be told apart.  `fs` maps paths to inodes and `node` inodes to objects, which makes hard
links what they are.  `D` (doors) behaves as `s` and `a` (AppleSingle) as `f` in the code modelled.

The options of a tool are a variable, `opt`, that no step changes: the initial states range over the
modes a tool is run in, and one run of TLC covers them all.

**Fsdiff.**  The recursion of `fs_walk()` is `stack`, the reader of transcript `r` is `pos[r]`, and
`pc` says which loop is running: the call of `transcript_select()` for an excluded object
("excluded"), the loop of `transcript()` ("compare"; "drain" when called without a path), the loop
over a negative directory ("select") and over the entries of a directory ("walk").  `Selected`,
`Passed` and `Hidden` are the three parts of `transcript_select()`; `TranOnly`, `FsOnly` and `Both`
are the three results of `t_compare()`, each with what `t_print()` does and what `transcript()` and
`fs_walk()` do with the result.  The directory is read at the moment it is entered; the file system
does not change meanwhile.  The null transcript at the end of the list is the case in which all
readers are at their end.  `-1`, `-W`, `-V` and progress output are left out.

One thing `InputAssumption` excludes: a line of a `special.T` for a path that is excluded and not in
the special list of the command file.  In a negative directory `fs_walk()` would select that line
without end; `ktcheck` builds `special.T` from the list, so that the case does not arise.  Another
is that lstat() would report a hard link: `readlink()` and `hardlink()` of fsdiff make one of a file.

**Lapply.**  `Read` .. `Apply` are the main loop (the four copies of the code that removes the first
directory of the list are the one action `Pop`), `Request` .. `Check` are `retr()`, `Clear` ..
`SetMode` are `update()`, and `Rename` ends a download.  `job` is the call of `do_line()`; `st` is the
one `struct stat` that `main()` and `do_line()` share, stale values included.  A call that cannot
succeed fails; up to `MaxFaults` others fail for reasons of their own, and a kill is one of these
(`Kill`).  The main loop keeps `command` pointing into the line buffer, so that it follows the first
character of each line; hence a line's own `op` is what it tests.  A temporary file
`path.radmind.pid` is a path of its own, `Temp[p][pid]`.  Not modelled: connection and login,
compression, reports, file flags of BSD, Finder information.  An `f` line without `+` whose object is
gone is applied to nothing without an error if the stale attributes happen to agree; the model does
the same.

**Reconcile.**  `Update` is a run of fsdiff, of which `EditsExact` and `EditsOrdered` in `Fsdiff` have
shown that it prints what `TreeDiff` defines (and `Relinks`, the slack in `EditsExact`, are
nondeterministic), followed by the start of lapply, whose steps are those of `Lapply`.  `Top` is the
path that fsdiff walks, and `TimesIgnored` is its option `-t`.

**Rash.**  A call of `ra.sh` is a process with a `pc` that names what it does next: `Begin` is the
case of its command up to the first tool, and every tool is one step with the results that its own
module has (`Ktcheck`, `Fsdiff`, `Reconcile`, `Upload`).  All command files and transcripts that come
from the server at one moment are a number, their version; after a ktcheck that has failed a client
may have `Mixed` ones.  The file system is what a version describes, or `Partial` after an lapply that
has failed, or `Work` after somebody has changed something on it.  `diff` is the difference
transcript: lapply does what it should if the file system has not been touched since (`fresh`) and the
server still has the files; otherwise anything may come out.  The questions of `update`, `create` and
`checkout` are answered in every way, but `update` is not given an edited transcript.  A kill
(`Killed`) may come in the middle of a tool; the shell runs its trap when the tool has ended, so that
what the tool does may have been done in part or altogether.  `checked` is the file `CHECKEDOUT`;
writing it is a step of its own, since another run may do so between the test and the write.  The
machine changes only while a run is at it (`Running`); whatever may have happened before is one of the
`Starts`.  `was`, `alone`, `failed` (at which of its steps a run has failed) and `unseen` are read by
the properties only.

**Daemon.**  `pc` is the place in the loop.  The handlers may run between any two steps, and interrupt
`accept()` only once it has been entered ("blocked").  A child decides by `seat`, its copy of
`connections`.  TLS is on (`-w 1` or more); `accept()` fails only with `EINTR`.

**CommandFiles and Ktcheck.**  A name is a number, the rank of its path; the data of a command file
stands for its lines (`Lines`), so that replacing a file is choosing other data.  The upper half of
`CommandFiles` says what the command files on a machine mean: all lines in place of their inclusion
(`Text`), those that no later minus line takes back (`Counts`), the precedence of transcripts.  The
lower half is the program: `Load`, one line at a time with its stack of open files.  `Ktcheck` is
`check()` step by step (`Ask` is STAT and the comparison, `Unlink`, `Fetch`, `Stamp` and `Install`
what follows), `read_kfile()` (`Skip`, `ListSpecial`, `Examine`, `Return`), `createspecial()`
(`AskSpecial`, `PlaceSpecial`) and `-C` (`Sweep`).  The server's child computes `access` when the
client connects, from the command files of that moment, in one step: `Edit`, which stands for the
administrator, may come between any two later steps.  `quiet` remembers that nothing has failed or
been changed since the connection.  Assumed: no name is both a command file and a transcript (the
server keeps them in one list and would not read such a command file); an edited file has an mtime
that no file had before.  Left out: reports, `-I`, temporary files of killed runs, minus lines before
`k` on the client, which ktcheck skips and fsdiff refuses.

**Upload.**  `up` and `down` are the two directions of a connection.  A STOR command with its size is
one part, each block of the contents is one, and the "." is one; the client may be `UpRoom` parts
ahead of the server.  Answers always fit (a few bytes for each file).  `lc` is lcreate: `Open`,
`Send`, `Finished` and `End` are `stor_file()` and `n_stor_file()`, `Answer` is an iteration of
`stor_response()`, called from three places ("poll" before each line, "drain" at the end, "giveup"
after an error), which differ in whether they wait.  `child` is `f_stor()`: `Accepted` is its
`mkdir()`, its comparison with `upload_xscript` and its `open()` with `O_EXCL`.  A connection that
breaks is noticed by both sides (`Lose`); one that silently vanishes is not modelled, because the last
`stor_response()` has no timeout.  An lcreate that ends with answers unread resets the connection, so
that its child may lose what is on its way (`HangUp`).  `Clean` stands for the administrator who
removes what a failed upload has left, when neither an lcreate nor a child is at it: `f_stor()`
unlinks by name, so that a late child might otherwise remove a file of the next upload.

**Names.**  `Wildcard` computes `wildcard()` as a function of the place in the pattern and in the
text. Its result is a set of values: behind the end of the text, where a `?` or a list may lead,
anything may come out.  It is compared with two definitions over whole texts, both by cutting the text
into one part for each element: `Documented`, which is radmind(8) (`Says`), and `Matches`, which takes
a list in brackets and a `*` for what the code makes of them (`Takes`).  `Encoding` writes names and
takes lines apart; `Kept` stands for the byte that `decode()` leaves in its static buffer for an
escape nobody writes.  The state of `Naming` is one question: three paths to compare, a pattern and a
text, or two names to put in a line.  A byte is a number from 1 to 255; with `-I` paths have bytes
below 128 only (`PathOrderAssumption`), since `tolower()` is given signed chars and orders the others
in another way in the walk than in the comparison.  What recurses in the code, `wildcard()`, or goes
from byte to byte, `decode()` and `acav_parse()`, is a recursive function of the place, which proofs
can unfold.

**ServerConfig and Session.**  `ConfigLine` is one turn of the loop of `command_k()`, its recursion is
`stack`; a file that does not exist is not in the domain of `conf`, and a pattern is the set of the
client's names that it matches (`Wildcard` is about the patterns themselves).  `KFileLine` is one
turn of `read_kfile()`.  In `Session` a message is a command or a reply, with the mode it was sent in
(TLS, compressed) and, for replies, the number of the command they answer, which is not on the wire
and is read by properties only.  `cl` is the client: `ClientWrites` sends what its options and the
capabilities of the server make it send (`PlanOf`), `ClientReads` is `get_capabilities()`,
`tls_client_start()`, `negotiate_compression()` and the reading of replies.  `sv` is the child:
`ServerStart` .. `LookupDone` are what `cmdloop()` and `f_starttls()` do before and after
`command_k()`, `Command` is one turn of the loop with the table of commands in force.  Requests are
what `Ktcheck`, `Lapply` and `Upload` say they are; here they are answered, refused, or end the
session.  A handshake is one step of both sides or fails on one or both (`HandshakeFails`).  A message
is read only if both sides are in its mode; whoever meets bytes of another mode fails (`Garbled`).
The comparison of the name in a certificate is abstracted to its result (`sname`); config files do
not change during a session; the names of command files and of transcripts differ
(`ServerConfigAssumption`).

**LoadSets, Lmerge, Lcksum, Tools.**  A loadset is a transcript, `tran[t]`, and the directory of its
files, `files[t]`; transcript 0 is one that lmerge makes.  `Select` .. `Skip` are the n-way merge
(`Compare` is the inner loop, with `Match` and `Change` for its two ways to end a turn, `Place` the
link or copy of a file and `NoSource` what is left if there is none to copy, `Output` the line),
`RemoveDirs` what `-f` does at the end, `RenameFiles` and
`RenameTran` the two renames.  `out` is the new transcript as written to stdio: nothing closes the
stream before `exit()`, so that any part of it may be on disk when `Flush` or a kill comes (`Partly`:
some of the lines, and maybe a piece of the next, which is what `torn` says).  `Crash`
is the comparison of arguments that a line does not have.  `CkLine` is one turn of `do_lcksum()`;
`pending` keeps the copies that have taken the place of transcripts and are not on disk yet.  A
checksum is the data that it is taken of.  A transcript named twice is read the second time as far as
stdio has written its copy; half a line at its end is "line too long" (`CkTorn`).
`Tools` composes the two: lmerge first (or not at all), then lcksum on what it has left, whatever has
become of it.  In front of both stands one job out of `Jobs`, which the initial state picks.

## 3. Properties and runs

| run | properties | instance |
|---|---|---|
| `fsdiff` | `EditsExact`, `EditsOrdered`, `Terminates` | `-A` and `-C`, 5 paths, among them a directory and its entries; a special, a negative and a positive transcript; minus lines; two excludes; three names sharing inodes in every way; 12 objects with owner and mode changed against every line in every kind of transcript, without `-c` and with `-c -t`; unsorted transcripts |
| `lapply` | `TypeOK`, `HeadsNested`, `ZeroMeansApplied`, `Ends` | 6 paths, two of them temporary files; plans with up to three lines, with the network and with `-n`; every object made into every other, with set-id modes, `-C -F`; one fault or kill |
| `reconcile` | `OnePassEnough`, `PassesPaidFor`, `ArriveWhole` | all trees over 4 names against 90 or so command files, one fault or kill anywhere |
| `daemon` | `NoLostChild`, `ServedBounded`, `CountsBack`, `Answered`, `ReloadSeen` | 3 connections, `-m 2`, one failing `fork()`, one reload |
| `naming` | `OrderSound`, `WildcardExact`, `LinesSurvive` | all triples of paths of up to 3 of 3 bytes, with and without `-I`; all patterns of up to 3 elements over all texts of up to 3 of 4 bytes; all pairs of names of up to 3 of a space, a tab, a newline, a backslash and the letter `b` |
| `ktcheck` | `UpToDate`, `DryRunTruthful`, `Loadable`, `LoadedAsWritten`, `EveryRunEnds` | two command files, three transcripts, one of which is in a directory named like another, two special files; six servers (inclusion, minus lines, a command file included twice, a loop, empty ones), four clients, all options; two runs of ktcheck with one change of the server and one fault or kill |
| `upload` | `OneWriter`, `ExitZeroStored`, `AnswersMatch`, `SessionsEnd` | two uploads with one name or two, two files of one and two blocks, lcreate three parts ahead, `-c`, `-c -F`, `-N`, `-T`; one fault, kill, lost connection or changed file, one removal |
| `session` | `LookupExact`, `SessionExact`, `ServedAsSet`, `InStep`, `SessionEnds` | `-w 0` to `-w 2` on both sides with every combination of certificates that are accepted or not; users, capabilities, compression, a full server; clients that send any three of STARTTLS, LOGIN, STOR and COMP; all pairs of lines of a config file that may include another, two deep; command files that include each other; one fault, timeout or kill |
| `tools` | `MergeExact`, `FilesFollow`, `NoFileLost`, `MergeFeasible`, `CksumExact`, `OldOrNew` | a directory with a file in it and a path beside it; two and three transcripts of up to three lines, minus lines, unsorted ones, file directories with something missing or too much; all options of lmerge; lcksum over every content of the files with `-n`, `-a`, `-P`, over one or two transcripts, the first of them named twice; one fault or kill |
| `rash` | `RunExact`, `WorkSpared` | two runs of two users: every command beside a `checkout`, and `auto` and the hook, with and without flag file and checksum, beside `auto`, `force` and `update`; five machines, checked out by one of them or not; one release, one change by hand, two faults or kills |

Several of these are conjunctions of parts that are stated apart in their modules: `EditsExact` says
that the edits are those that are needed (`EditsNeeded`) and that none means that the file system is
as the transcripts say (`SilenceMeansSame`), `EditsOrdered` that they are sorted at every moment
(`EditsSorted`) and that, at the end, downloads stand under the name of the transcript that decides
about their path (`DownloadsNameTranscript`); `OnePassEnough` that a plan can be carried out
(`FeasiblePlans`) and leaves nothing to do; `OrderSound` that the order is total, keeps subtrees in
one piece, and is that of the walk; `UpToDate` includes that ktcheck succeeds when it can (`Feasible`)
and what `-C` leaves (`CleanExact`), and `LoadedAsWritten` that ktcheck and fsdiff read the special
lists alike (`SpecialAgrees`). `MergeExact` is the meaning of the merged transcript: its lines without
a minus as lmerge(1) has them (`PositiveExact`), its minus lines as the comment in the code has them,
since the manual has none (`MinusRecreated`), and lines out of order (`OrderChecked`); `FilesFollow`
what is in its directory (`FilesPlaced`, `DirsRemoved`) and that lcksum has nothing to object to
(`MergedVerifies`), `MergeFeasible` that sorted transcripts are merged unless something is in the way
(`Hindered`), `NoFileLost` that complete loadsets are complete at every moment (`AlwaysBacked`) and
what `-f`, which works in place, leaves alone (`OthersKept`; this part speaks of the time until lcksum
is called, and both of loadsets that were complete before). `CksumExact` is `ZeroMeansVerified` and,
if nothing of the system fails, what `-n` and what an update must have done (`VerifyWhole`,
`UpdateWhole`, against `UpToDate`, which is lcksum(1)). `WildcardExact` is `AsDocumented`, where the
code follows radmind(8), and `SearchComplete`, for all patterns as the code reads them.  `LookupExact`
says that the first line of the config files, read in the order of inclusion, that matches the client
decides (`FirstEntryWins`), and that `access_list` is what its command files name (`AccessExact`);
`SessionExact` that no side reads in a mode it was not written in (`Readable`) and that a session
succeeds exactly if its set-up allows (`OutcomeExact`, against `Welcome`).  `ExitZeroStored` says both
ways what exit status 0 of lcreate means (`Stored`, `UploadFeasible`).  `RunExact` says what a run
that nobody disturbs leaves and whether it may then succeed (`AsMeant`, against `Meant`, which has an
entry for each command), that no failure passes for a success but at the steps that are known to
forget it (`Told`, with `Forgotten`), that none but that of lapply leaves the machine half way
(`Told`), and that one whose lapply has failed ends with the machine up to date or says that it is not
(`Heals`).

Where code and manual differ and the difference has no run, the property is one of three things: it
leaves the case out (`Plain`, `Listless`, `Unlike`, `Updated`, `VerifyWhole`), it allows both (`Meant`,
`Forgotten`), or it says whose promise it states (`MinusRecreated`, `SearchComplete`, `MergeFeasible`).
None of them calls what the code does the manual's; section 5 lists the differences.

`TypeOK` of `Fsdiff`, `Daemon`, `Ktcheck`, `Upload`, `Tools` and `Session` documents the ranges of the
variables and is not among the runs' invariants; those of `Daemon`, `Upload` and `Tools` are proved,
that of `Session` is part of a proved invariant.

The remaining runs each show one statement of the manual or of a comment that the code does not keep
(section 5).

*Why the bounds are enough.*  `Fsdiff` treats a path only by comparison with its neighbours, its
parent and the first name of its inode; five paths hold a directory with entries and a sibling, or a
directory with three links, and each reader can then be before, at and behind the object of the walk.
Three transcripts are one of each kind.  `lapply` holds at most one line and the list of directories;
six paths give a list of two, a line that waits for each of them, a download inside and one in the
place of a directory, and a hard link to what has just been downloaded.  One fault is enough to reach
every error path from every state; a second could only hit a run that has already ended, or, in
`Reconcile`, a later pass that starts from a tree of which the first fault is one way to reach it.
For the daemon, three connections are one more than the limit.
In `ktcheck`, two runs are one that may fail at any point and one that has to mend it; two command
files include each other and themselves in every way, and precedence shows with three transcripts.
In `upload`, three parts are more than the commands for a transcript need to be answered, so that the
file of a refused transcript is on its way before the refusal is read; and two files are needed for an
answer to the first to be taken for one to the second.
In `naming`, `wildcard()` looks at one element at a time and goes back only to a `*` or to strings
in braces; three elements put one before and one behind it, and three bytes of text are more than any
of them takes.  A name of three bytes has a backslash before and behind every byte that is special.
In `session`, three commands are one more than it takes to do a thing twice; two config files include
each other or themselves beyond `MaxDepth`, which is 2 there.  In `tools`, the match flag needs three
transcripts to be carried from one to another, and every other step of the merge compares two; three
paths hold a directory, what is in it and what comes after it; one transcript named twice is enough
for lcksum to read what it has itself replaced.  In `rash`, a second run can come between any two
steps of the first and change all that it looks at; `auto` gives up after two failures there instead
of five, so that one fault is made up for, and two, or a fault together with a release, are not.

*Liveness and fairness.*  `Terminates` and `Ends` hold under weak fairness of the program's own step:
it is sequential, and every call it makes returns (the network is read with a timeout).  `Answered`
and `ReloadSeen` need weak fairness of the loop and of each child, which is that the system schedules
them, and so do `EveryRunEnds` (of ktcheck and fsdiff) and `SessionsEnd` (of each lcreate and each
child).  `SessionEnds` needs it of the client, of the server, and of a TLS handshake that both have
begun, which OpenSSL ends one way or the other; it does not need the timeouts of 60 seconds and 60
minutes.  No fairness is assumed of signals, faults, timeouts or kills.

*Deadlock* is checked everywhere but in the runs of the daemon, of `session`, of `tools` and of
`rash`: all clients may be done and the daemon may have exited, a session is over, and the tools and
scripts end.

Each property has a mutant of the code in `PROJECT.json` that it catches; they are kept beside the
definition they replace.

## 4. Proofs

`Daemon_proofs` proves for every number of clients, limit, number of failures and of reloads:

* `TypeCorrect`, `ChildrenReaped` (`NoLostChild`), `LimitKept` (`ServedBounded`) and `CounterExact`
  (`CountsBack`: with no child left and the daemon in `accept()`, the counter is the number of forks
  that failed, and so zero if none did).

The invariant `IInv` says besides these that the counter is at least the number of children, counting
the connection just accepted (`Counted`); that the seats of children differ in the way they were
handed out, so that a child with a seat within the limit leaves room for at most the limit (`Seats`);
and that whoever is served had such a seat (`Admitted`).  `NoLostChild` is inductive because the flag
is cleared before the `wait3()` loop; it is not if the order is swapped.  `ServedBounded` does not
follow from the counter alone: it may be too high but never too low, and that is what is proved.

`Lapply_proofs` proves for every tree, plan, set of options and number of faults:

* `TypeCorrect` (`TypeOK`): above all that `WellFormed(fs, node)` survives every call, that is, that
  `lapply` is modelled by calls that keep the tree a tree.  The helper lemmas `UnlinkSound`,
  `CreateSound`, `SetSound`, `NameSound` say so for each kind of call; `TypeOK` is split in three
  parts (`MainOK`, `WorkOK`, `EndOK`) with one lemma each.
* `RemovalsNested` (`HeadsNested`): the directories that wait form a chain.  It needs that a line is
  read only if it sorts after the one before, and that `Last` bounds nested intervals.
* `DownloadsWhole` (`ArriveWhole`): files change only as a whole, and a file to be replaced is never
  missing.  Its invariant `Fresh` follows a new temporary file from `open()` to `rename()`: it has no
  second name while it is written, then the contents that have come with the size of the line and,
  with `-c`, its digest, and after each of `utime()`, `chown()` and `chmod()` one more of the
  attributes, also where `update()` leaves a call out because the attribute is right, and where
  `chown()` has cleared the set-id bits.  Of a temporary file that an earlier run has left nothing is
  claimed: what other names it may have are written to with it, and its old attributes are compared
  with the line's (`Temporary`).  `UnlinkWhole`, `CreateWhole`, `SetWhole`, `LinkWhole` and
  `RenameWhole` say what each kind of call may show under a path.

`Upload_proofs` proves for any number of runs of lcreate, names, files, faults and removals:

* `TypeCorrect` (`TypeOK`).  Besides the types, `TInv` needs that STOR commands on their way name files
  that exist (`Stream`) and that lcreate is at a line of the transcript, with one more to come when it
  polls (`Place`).
* `UploadsLocked` (`OneWriter`).  `mkdir()` is a lock that nobody releases but the administrator.  The
  invariant `WInv` says who holds it: a child that lives and has set `upload_xscript` made the
  directory, and all files in it are its own (`HolderWrites`), no two such children share a name
  (`OneHolder`), where there is no directory there are no files (`EmptyOutside`), and a child that has
  not been started holds nothing, so that the administrator, who waits only for the uploads that have
  started, takes the lock from nobody (`IdleChild`).  `OneWriter` alone is not inductive: it would
  also hold of two children that have both passed `mkdir()`, until each has stored a file.
* `UploadsStored` (`ExitZeroStored`): after exit status 0 the transcript and the files of all its lines
  are on the server, whole and in the name of this upload, and an upload that nothing disturbs ends
  with 0.  The invariant `SInv` balances the books of a connection (`InOrder`): two answers for each
  file announced are outstanding, with the client, on their way, or still to be given by the child
  (`Balanced`), and what is on its way to the child is the rest of the file at hand and all that has
  been announced after it, in order (`Tidy`).  `Kept` says that what has been reported stays: the
  transcript is locked, the child is at rest, and no other upload holds the name.  For the second
  half, `Smooth` says that no error is on its way where nothing has gone wrong, and that what lcreate
  sends is what its transcript lists.
* `AnswersInStep` (`AnswersMatch`): lcreate counts answers down and takes them in turn for the 3xx and
  the 2xx of a file.  `InStep` says that the parity of `respcount` fits the answers on their way and
  the one that the child gives next, unless an error takes its place.

`Session_proofs` proves for any set-up, any commands in any order, any config and command files and any
number of faults:

* `OnlyAsSet` (`ServedAsSet`): nothing is served but to a client that has been found in the config
  files, after TLS if `-w` asks for it and, for STOR, after a LOGIN if `-U` does.  The part `Tables` of
  the invariant says what each table of commands stands for: `auth` only for a client that has been
  found, and after TLS if it is asked for; while a client is looked up again nothing is served.
* `AnswersInStep` (`InStep`): what a client takes for success is the answer to its last command.  It
  is not inductive by far; `Turns` says that a command is on its way only when no success is, that
  successes on their way belong to that command or to the banner, and that nothing but the lines of a
  banner is followed by another success, while any number of unasked errors may be on the way.
  `OnPlan` says where a client that has met no error is.  `Types` holds the ranges.
* `LookedUp` (`LookupExact`): what the server finds out about a client is what the text of its files
  says.  `command_k()` calls itself for each include and leaves a file at the first line that decides;
  the text is `SaidBy`, a recursive function of the levels of includes left.  While the config files
  are searched (`Searching`), no file that is open has been read beyond a line at which it is left,
  each but the innermost has just included the one above it, and what the client finds in any of them
  is what it finds in all (`Decision`).  While command files are listed (`Listing`), every line of
  every file on the access list has been dealt with (`Taken`) or is ahead in a place of the stack where
  that file is open, which is what makes a file that includes itself harmless; nothing is open that is
  not in the least set closed under inclusion (`KReached`).  `Complete` keeps that for the rest of the
  session, and `Asked` says that a second look-up, after STARTTLS, is under the name in the
  certificate.
* `GoesAsSet` (`SessionExact`): how a session goes in which no call fails.  The property speaks of two
  modes at the reader and of an exit status at the end, and neither is inductive.  `Lockstep` lists the
  phases of such a session (`Greeting`, `Writing`, `Asking`, `Denied`, `Accepted`, `Compressing`,
  `Handshaking`, and its ends `Deserted`, `Misled`, `Over`), each with all that is on its way and the
  modes of both sides; `Misled` is the one in which they differ, a client that takes a failed handshake
  for a good one because the server did not like its certificate.  `Earned` says that a client that has
  come so far without an error is set up for every command behind it, so that no client succeeds that
  is not welcome; `Smooth` says that a welcome one stays in the phases without an error, has the table
  of commands that its plan needs, and asks for compression and LOGIN once (the plan of a client of the
  project holds them once), which is why the second free of a password is not reached.

`Tools_proofs` proves for any number of transcripts, any lines in any order, all options and any number
of faults:

* `TypeCorrect` (`TypeOK` of `Tools`).
* `NoFileLostEver` (`NoFileLost`).  Its invariant has a part for each way in which lmerge could harm:
  `Others` (it writes to nothing but its destination, and the transcript last), `FilesFirst` (the file
  of a line is in place before the line is written), `InTurn` (with `-f` both readers are beyond what
  has been written and what is beyond them is still backed, so that the file that is unlinked belongs
  to no line of the new transcript but the one in hand), `NewBacked` and `OldBacked` (the result, with
  and without `-f`).  `FoundBacked` carries it over to lcksum.
* `TranscriptsOldOrNew` (`OldOrNew`).  `Replaced` says of each transcript that lcksum has dealt with
  what has become of it, and `CopySoFar` that the copy is what it should be up to the line lcksum is
  at, and that `ucount` counts differences, even when a transcript is named twice and the second
  reading is of the copy that the first one has made, as far as it is on disk (`TornWhy`: as long as
  nothing has failed, a transcript ends in a piece of a line only while the rest of the copy that has
  taken its place is still to be written).
  A copy that a kill cuts off before `exit()` has written it stays cut off; the theorem says no more of
  it than that it is the beginning of a right one.
* `MergesWhole` (`MergeExact`): what lmerge makes of the transcripts, against lmerge(1) for the lines
  without a minus (`LikeDecides` leads from what lmerge goes by, `Deciding`, to the line of the
  highest precedence; of the paths that are `Unlike` under `-n` only `Taken` is left: no line is made
  up) and against the comment in the code for minus lines.  The invariant compares what is written
  with what the readers have still to come to: paths written lie before the line of every reader
  (`BeyondOut`), a path that no reader has still to come to is settled for good (`AllSettled`), of
  those that list a path the one of the highest precedence comes to it last (`WinnerLeft`), and with
  two transcripts the second is not before the first unless they match (`Together`).  In the inner
  loop the candidate is not behind any reader that it has been compared with (`CandLow`); `Stage`,
  `Matches` and `Located` say what may have been decided about it at each place, with `-f` and `-n`,
  too.  `SeenSoFar` is about transcripts that are not sorted: a line out of order that has not stopped
  lmerge stands behind one that an earlier transcript hides.
* `FilesFollowLines` (`FilesFollow`): what goes with the lines.  Of every path the invariant says what
  its file in the new directory is (`FilesSoFar`): that of the transcript its line comes from, once the
  line is written or its file placed (`Supplied`); with `-f`, what was there before if the first
  transcript does not list it (`Untouched`); and nothing else but files that `-f` is still to remove or
  has no reason to (`NoMore`, `Kept`).  Where a file is fetched from is in `FromCand`.  Directories are
  removed last: the queue of them holds all that should go, those below first (`QueueSorted`,
  `QueueLow`, `QueueFull`), so that one that is left has something in it that should stay (`Left`, by
  well-founded induction over the paths below it; the nesting of intervals is used here).  With
  `WrittenOut` and `CleanSoFar` it follows that lcksum finds no fault with a transcript that was made
  of complete loadsets.
* `FeasibleEver` (`MergeFeasible`): lmerge of sorted transcripts stops half way only for what was there,
  or was missing, when it was called (`Hindered`), never for anything it has done itself.  For every
  place where it may stop, the invariant says what it has touched by then: a file of the second
  transcript is there until its line is read (`StillThere`), a directory that was not there is above a
  file of the new transcript (`OnlyDug`), and a file in the new directory has its line there or was
  there before (from `FilesSoFar`); readers compare a line with the one before it (`AtLine`).  The
  proof has shown that one reason had been overlooked: a file that the first transcript puts above a
  directory it removes (`NoFolder`); `MCTools` has a job for it now.
* `ChecksWhole` (`CksumExact`): what the exit status says and what has become of every transcript,
  named or not.  An update ends at the first transcript with a fault or at one that is named again
  whose copy is on disk in part (`Ends`); before it all are as lcksum(1) has them, up to the time in
  lines without a checksum (`Updated`), and after it all are as they were.  `Progress` says that
  main() is past a transcript only if it is without fault and, with `-n`, does not differ, and that
  the status so far and the copies tell exactly which have differed; `ReadSoFar` says the same of the
  lines of the present one (`InOrderSoFar`, `CountedSoFar`: nothing that differs goes unnoticed, and
  nothing else is counted), also when it is the half written copy of an earlier reading; `Verdict` and
  `Written` keep the reason for the status until exit() has written the copies.

`Rash_proofs` proves for any number of runs and users, any faults, releases and changes:

* `WorkIsSpared` (`WorkSpared`): what somebody has changed on the machine is removed only by a run
  that has found the machine not checked out, or that belongs to the one who has, and for `auto` only
  if the change came after the tripwire.  The invariant says so of every place a run may be at:
  `NotBarred` from the moment it has looked (the hook looks again after each failure, and is free to
  find otherwise), `NotWork` from the tripwire on, also over the retries of `auto`, which do not
  repeat it; `Placed` says which commands come to which tool.
* `RunsAsMeant` (`RunExact`): a run that nobody disturbs leaves what `Meant` has in its table for the
  command, and succeeds only if it may; one that has failed does not end with 0 unless it was at a step
  that forgets it, nor leaves the machine half way unless lapply has failed; and one whose lapply has
  failed ends with the machine up to date or, in `auto` and the hook with its flag, says that it is
  not.  `OnPlan` says of each place of a run what it has found, what is in its hands and what is
  on the machine by then, against the state in which it started (`Calm` picks the runs of which this
  can be said); `Mended` says what a run does after its lapply has failed, and `Lone` that while no
  other run moves the difference transcript is that of the machine as it is.
* `TypeCorrect`, the ranges.

`Fsdiff_proofs` proves for every tree, every list of transcripts, sorted or not, and every option
(the last of the three for all but two kinds of input):

* `TypeCorrect` (`TypeOK`), with the shape of the recursion: which loop runs on which stack, that the
  entries still to come in a directory are below it and exist (`Stacked`), and that the line sought
  below a negative directory is the one in hand (`Sought`).
* `EditsInOrder` (`EditsOrdered`).  That the edits are sorted needs what the walk and the readers have
  still to say: all that is printed lies before the line of every reader (`Ahead`), before the object
  in hand and the entries left in every directory (`Before`, `Pending`), which lie in turn behind all
  that is below the directories further in.  That a download stands under the right transcript needs
  that the lines that a reader has left are behind those in front of every other, or are for the same
  path and of lower precedence (`Behind`), and so that no transcript of higher precedence has had, or
  will have, a line for the path (`Named`).
* `Exactness` (`EditsExact`), for transcripts and excludes that are `OrdinaryInputs`: what has been
  printed at the end is for every path the edit that it needs and no other, and nothing has been
  printed for an object exactly if it is as the line that decides says.  `Fate`, which `TreeDiff`
  defines by recursion over the paths, is unfolded by induction (`FateIs`), and `Rules` says what
  becomes of a path in terms of the directory it is in.  That run fails which meets a line out of
  order, so that the rest need be shown only as long as all that is read is sorted (`ReadSorted`,
  `SortedKept`).  The invariant says that the walk is through with the paths below one (`At`): what is
  still to come hangs from a frame of the stack (`Stack`), the lines of paths to be compared are unread
  exactly from there on (`LinesLeft`), the first names of files met so far are in the table of inodes,
  and marked if they were printed (`Linked`, `Marked`), and the edits printed are those wanted of the
  paths before (`Edited`).  `LinesBeyond` has the readers beyond every negative directory on the
  stack.  That what is wanted depends on what is given alone, and not on the state of the walk, is
  shown with a second instance of `TreeDiff` (`Told`, `Steady`).  The two kinds of input that are not
  `OrdinaryInputs` are those where the code does something else: with `-C`, `fs_minus` is also set
  by a line `-` before a directory, so that excluded entries of it are printed; and lines
  below an excluded path that is itself below a negative directory (section 5).  TLC checks that the
  inputs of the run are ordinary (`MCAssumption`).

`Naming_proofs` proves for any bytes and names of any length:

* `Ordered` (`OrderSound`): the order of paths.  Each path is taken for the infinite sequence of the
  ranks of its bytes, with the end below `/` and `/` below all others (`Rank`); `pathcasecmp()`, which
  looks for the first difference and then has three cases, compares these lexicographically
  (`Before`).  `strcmp()` over names without `/` and `ischildcase()` over a prefix are brought to the
  same ranks.  What the other modules assume of `Last` is this theorem.
* `Matched` (`WildcardExact`): without lists a pattern matches only what radmind(8) says, and all of it
  as long as each list has two different bytes and each `*` something after it that needs a byte
  (`Plain`); and for all patterns, with lists and `*` as the code reads them, trying one possibility
  after the other finds a match exactly when there is one.  The second is proved first.  `Fits` lays
  the rest of a pattern over the rest of a text; the induction goes from the last element to the first
  (`RightAll`) and shows with `LeadsAre` that the places an element leads to are the ends of what it
  may take.  Of a `*` it needs that what the code leaves out, the end of the text, is left out of
  `Matches`, and of a `?` or a list at the end of the text that the results, which may then be
  anything, are covered by `Overruns`.  Then `ListlessIs` and `PlainIs` compare the two ways to read a
  pattern; `ByteNeeded` says why a `*` never has to reach the end of the text in a `Plain` one.
* `Survive` (`LinesSurvive`): names come back from a line.  `Ends` says where in an encoded name the
  bytes that stand for each byte end.  `DecodedIs` goes through these places from the last to the first;
  `NoWhite` goes forward and shows that before each the number of backslashes is even, so that
  `acav_parse()` takes no space of a name for the end of a word, and the space behind it for one;
  `WordRead` follows the parser through a word.

The assumptions are those of the modules: `PathAssumption` (intervals nest; `PathOrder` is about
that), `ObjectAssumption`, `InputAssumption` (trees are well formed, and the two things named under
Fsdiff in section 2 do not occur), `LapplyAssumption` (a temporary file sorts after the file and what
is below it and lies in the same directory), `StartAssumption`, `DaemonAssumption`, `UploadAssumption`
(the bounds are numbers, blocks are numbers), `StartsAssumption` (each line of a transcript has a file
on the disk of the administrator, which may be another one than listed), `ServerConfigAssumption`
(config files, command files and transcripts have different names), `SessionAssumption` (users are
checked only with TLS, as `daemon.c` insists, and files consist of lines), `PathOrderAssumption` and
`NamingAssumption` (bytes are bytes; patterns consist of elements), `LoadSetsAssumption` (intervals
nest), `LmergeAssumption`, `RashAssumption` (the bounds are numbers, and "none" is no user) and
`ToolsAssumption` (the tools are called as their `main()` permits).

What stays with TLC: liveness and everything about `ENABLED` (TLAPS does not do these), and the safety
properties that say what whole programs leave when one has run after the other: `OnePassEnough` and
`PassesPaidFor` (fsdiff, lapply, and fsdiff again; the second and third run start from what the one
before has left, also where it failed), `UpToDate`, `DryRunTruthful`, `Loadable` and `LoadedAsWritten`
(two readers of the same command files, with a server that changes between).  Their definitions by
recursion, over the tree or over files that include each other, are no obstacle: such a function can be
unfolded once it has been shown, by induction on its argument, that there is one which satisfies its
definition, as `Fsdiff_proofs`, `Naming_proofs` and `Session_proofs` do.

`ZeroMeansApplied` is no theorem for the `Starts` that `StartAssumption` allows: a plan may ask for
different owners under two names of one file, for a hard link to a file that a later line replaces, or
for a path that is the temporary file of another, and the property is true only of plans that fit the
tree, as those of the runs do; to say which fit is to say what fsdiff prints.  All theorems are about
safety and need no fairness.

## 5. Where code and documentation differ

Two statements have a run that violates the property named; the quotations are in `PROJECT.json`.

* `RoomWhenIdle`: a `fork()` that fails leaves its connection counted.
* `NoLostReload`: a signal that comes while the files are being read is cleared.

Seen while reading, without a run:

* lapply: exit 2 is said to mean that nothing was done (man/lapply.1:167-169), but may come after
  removals (lapply.c:255).  A download put off until a directory is gone is asked for under the
  `special` flag of the header read last (`RightSource` in `Lapply`).  A `-` line for what has become
  a directory leaves the object of the line in place with exit 0.  The owner of a new link is
  compared with a stale `struct stat`.  A temporary file is opened without being truncated
  (retr.c:142): one that a killed run with the same process id has left, and that is longer, keeps its
  end, and the checksum is taken of what has come over the network.
* fsdiff: `fs_minus` means "a `-` was printed during this call", so that excluded objects in a
  directory that becomes another type are kept although the directory is removed, and with `-C` an
  excluded object may be printed.  What transcripts list below an excluded path below a negative
  directory is compared if the walk is back in the loop over that directory when its line comes, and
  is taken to be missing if not (`OrdinaryInputs` in `Fsdiff` leaves both out).  A hard link that is
  right is printed again when anything was printed for the first name of its inode.  With `-I` and
  bytes above 127 the walk and the comparison order names differently, since `tolower()` is applied to
  signed chars (`BytesI` leaves these bytes out).  fsdiff(1) says in one place that edits are to the
  file system by default and in another that they are to the transcript.
* ktcheck: `-n` removes what is in the way of a file that it then does not fetch (ktcheck.c:402-429,
  man/ktcheck.1:105-106).  `utime()` failing lets `check()` say "updated" although the file is gone
  (`unstamped` in `Ktcheck`).  `getstat()` exits and leaves `special.T.pid`.  `read_kfile()` calls it a
  loop when a command file is merely included twice.
* `ra.sh`: without the flag file `.RadmindRunning`, which nothing in the repository creates, the login
  hook says "Applying changes failed, trying again" (ra.sh:292-293) and then, because ktcheck has
  nothing new, ends with 0 and the machine half applied (ra.sh:189-191); `Heals` therefore speaks of
  the hook with the flag.  With it, the hook still ends with 0 and the machine half applied if the
  ktcheck of the second try fails as well, which takes two faults and came out of the proof of
  `RunsAsMeant`; `Heals` leaves it out, and the run has `MaxFaults = 2`.  `cleanup; exit $?` exits
  with the status of `cleanup`, so that a failing ktcheck, or an lapply under `force`, ends with 0,
  and so does `update` after a failing lapply. `auto` ends with 0 if ktcheck fails and may leave
  command files that the next `auto` trips over. All this is against rash(1), which has 0 for success
  only (man/rash.1:195-202); `Forgotten` lists the steps that may end so, and `Told` says that there
  are no others.  The manual has an exit status above 1 for errors; ra.sh exits with 1, and with 2
  only where `update` and `create` pass on the status of ktcheck. The user who has checked the machine
  out is refused `auto`, `force` and the hook, while others may `create` (man/rash.1:91-94 lets only
  that user do anything but `trip`); `trip` goes on when the command files are out of date
  (man/rash.1:81-82); `Meant` has both what the manual says and what ra.sh does there. `checkout` and
  `checkin` test and write in two steps, so that two users may both be told that they have the
  machine.
* lmerge: a minus line that nothing matches is written to the new transcript (lmerge.c:690), against
  lmerge(1), which says that a line of the highest precedence with a `-` is not (man/lmerge.1:55-57);
  `MinusRecreated` is the promise of the code's comment.  With three transcripts and more the match
  flag of one may make a minus line of a lower one disappear (`MinusRecreated` allows it).  `-n` drops
  what is not a file from the first transcript, together with what it matches, and of a file with other
  contents in the second it takes the second's line, also if the first has a `-` (lmerge.c:498-514,
  550-558), where lmerge(1) has the line of the highest precedence (man/lmerge.1:42-44, 55-57, 82-88);
  `PositiveExact` only says of these paths (`Unlike`) that no line is made up, and `Uploaded`, `Filed`
  and what is built on them describe lmerge as it is, to say what may be in its way.
  Arguments that a line does not have are compared all the same (`Crash`).  A wrong order goes
  unnoticed after a matched line (`OrderChecked`).  `-f` that has been interrupted cannot be resumed,
  since `unlink()` fails for a file that is gone; it removes directories under their encoded names
  (`Escaped`).  Neither lmerge nor lcksum closes what it writes before the rename, so that a full disk
  goes unnoticed.
* lcksum: after a line that cannot be checked, `-a` reads and closes a stream that is closed
  (`BadLine`).  A rename that fails leaves the copy behind.  `-n` stops at the first transcript that
  differs (lcksum.c:613-616), while lcksum(1) has all of them verified (man/lcksum.1:25-28);
  `VerifyWhole` therefore does not say which status it is if one differs and another has a fault.  A
  line without a checksum keeps the time it had in the transcript (lcksum.c:441-446), where lcksum(1)
  has that of the file (man/lcksum.1:42-44); `Updated` says nothing of the time in such lines.  A
  transcript that is named again after it has been updated may be read while its last line is only in
  part on disk, and lcksum then ends with 2 (lcksum.c:250-255; `UpdatedBefore`).  A copy that has taken
  the place of a transcript and is lost by a kill before `exit()` has written it stays cut off;
  `OldOrNew` says that it is the beginning of a right one, and no property excludes the loss.
* sessions: a comment in `f_starttls()` (command.c:989) says that STARTTLS is no longer valid once it
  has succeeded, but it is in `auth[]`; `access_list` is not emptied by a second one.  A second LOGIN
  frees the password twice (`freed` in `Session`), and one that fails leaves `authorized` as it was.
  `special_dir` is set before it is known that a line matches.  Includes that are too deep give up the
  file they are in.  A failed handshake is told in clear.  421 and 444 are sent unasked, and a client
  reads them as the reply to its next command.  The comparison of names in `tls_client_start()` takes
  a difference that `strncasecmp()` reports for a match (tls.c:378-380).
* `wildcard()`: radmind(8) says that a list in brackets matches any one of its characters; the code
  (wildcard.c:74-84) takes any byte that differs from one of them, so that a list of two takes
  everything and a list of one all but that byte; `AsDocumented` leaves the first half of this out by
  `Listless` and the second by `Plain`.  radmind(8) has `*` match any string; one with something
  behind it wants at least one byte to be left (`a**` does not match `a`), which `Plain` leaves out,
  too.  `?` and lists do not see the end of the text (`Overruns`).
* `decode()` keeps what an earlier call has left for an escape it does not know; `list_remove()`
  (list.c) goes on from a node that it has freed.

## 6. Plan

1. *(done)* `PathOrder`, `RadFS`, `TreeDiff`, `Fsdiff`, `Lapply`, `Reconcile`, `Daemon` and the first
   theorems.
2. *(done)* Command files and ktcheck; uploads.
3. *(done)* `lmerge` and `lcksum`, with the repository between them; the theorems of `Tools`.
4. *(done)* The rest of the sessions: tables of commands, TLS, LOGIN, compression, config files; the
   theorems of `Session`.  Patterns and the writing of names.
5. *(done)* `ra.sh` with several runs at once, and the theorem about administrators' work.
6. *(done)* Proofs: `AnswersMatch` and `ExitZeroStored` of `Upload`, `RunExact` of `Rash`,
   `ArriveWhole` of `Lapply`, `EditsOrdered` and `EditsExact` of `Fsdiff`, `CksumExact`, `MergeExact`,
   `FilesFollow` and `MergeFeasible` of `Tools`, `LookupExact` of `ServerConfig`, `SessionExact` of
   `Session`, the properties of `Naming`.
7. Proofs still worth the work: those named under "What stays with TLC".

## 7. Not modelled

* `lfdiff`, `lsort`, `lsize`, `twhich`: they read one transcript, or fetch one file, and print; nothing
  they do depends on anything but the line in hand and, for lsort, the order that `PathOrder` is about.
* `t2pkg.c`, `contrib`, the examples, build and container files: installers of Mac OS and packaging.
* Finder information and AppleSingle files, file flags of BSD: they behave as attributes and contents.
* `base64.c`, `cksum.c` and the digests: a checksum stands for the data it is taken of.
* Of `ra.sh` the editing of transcripts, pre- and post-apply scripts and `-C` of `update` and `force`
  (which only warn).
* The linked lists of `list.c` (lists are sets and sequences here), option parsing, logging, progress
  output, `-1`, `-W`, `-V`.
* In the sessions `special_t()`, the checks of `keyword()`, the syntax errors of single commands, name
  resolution, the choice of a port and the setup of TLS contexts; Bonjour registration in the daemon.
