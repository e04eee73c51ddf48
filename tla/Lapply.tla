------------------------------- MODULE Lapply -------------------------------
(****************************************************************************)
(* lapply(1): an applicable transcript is applied to the file system, one   *)
(* line at a time (lapply.c main() and do_line(), update.c, retr.c).        *)
(*                                                                          *)
(* An action is one system call, or one exchange with the server, so that   *)
(* the program can be killed, and any call can fail, between two of them.   *)
(* Nobody else writes to the tree meanwhile.  A symbolic link inside the    *)
(* tree points out of it.                                                   *)
(****************************************************************************)
EXTENDS RadFS

CONSTANTS
  Pid,          \* process ids
  Temp,         \* Temp[p][i]: the path "p.radmind.i", 0 if that is too long
  TempMode,     \* the mode of a temporary file, 0600
  Now,          \* the modification time of what is written now
  Partial,      \* the contents of a file before all of it has arrived
  Mixed,        \* new contents with the end of longer old contents
  Umask(_),     \* the mode mkdir() gives for a mode
  SetId,        \* the modes with a set-uid or set-gid bit ...
  Cleared(_),   \* ... which chown() clears in a file
  MaxFaults,    \* how many calls may fail for reasons of their own
  Starts        \* what lapply may be run on: records [fs, node, plan, opt]

ASSUME LapplyAssumption ==
  /\ Temp \in [Path -> [Pid -> Path \cup {0}]]
  /\ \A p \in Path, i \in Pid : Temp[p][i] # 0 =>
        Temp[p][i] > Last[p] /\ Parent(Temp[p][i]) = Parent(p)
  /\ TempMode \in Modes /\ Now \in Times
  /\ Partial \in Data /\ Mixed \in Data
  /\ SetId \subseteq Modes
  /\ \A m \in Modes : /\ Umask(m) \in Modes /\ Cleared(m) \in Modes
                      /\ m \notin SetId => Cleared(m) = m
  /\ MaxFaults \in Nat

(* A line of the plan, with what the last transcript header above it says:  *)
(* is the file one of special.T?                                            *)
Edit == [op : {"", "+", "-"}, special : BOOLEAN, path : Path, obj : Obj]
NoLine == [op |-> "", special |-> FALSE, path |-> 0, obj |-> Missing]

(* -F, -C, without -n, and -c                                               *)
Options == [force : BOOLEAN, createPrefix : BOOLEAN, network : BOOLEAN,
            cksum : BOOLEAN]

ASSUME StartAssumption == \A s \in Starts :
  WellFormed(s.fs, s.node) /\ s.plan \in Seq(Edit) /\ s.opt \in Options

VARIABLES
  plan,   \* the applicable transcript
  opt,    \* the options
  pid,    \* our process id
  ln,     \* the number of lines read
  prev,   \* prepath: the path of the last line that was not skipped
  found,  \* fstype of the current line's path, "X" for present == 0
  st,     \* the struct stat that main() and do_line() share
  heads,  \* the directories to remove, the innermost first; "line" is what
          \* is to be made in the place of one (NoLine for doline == 0)
  phase,  \* what is done next
  job,    \* the call of do_line()
  change, \* a line has been applied
  exit,   \* "run", the exit status, or "killed"
  faults  \* how many calls have failed for reasons of their own

tree == <<fs, node>>
main == <<plan, opt, pid, ln, prev, found, heads>>
vars == <<tree, main, st, phase, job, change, exit, faults>>

(* "back" is the phase in which main() goes on, "got" the contents that the *)
(* server sends, "fresh" whether the temporary file was not there before    *)
Idle == [line |-> NoLine, present |-> FALSE, back |-> "line", got |-> 0,
         fresh |-> TRUE]
Job  == [line : Edit \cup {NoLine}, present : BOOLEAN, back : {"line", "place"},
         got : Data \cup {0}, fresh : BOOLEAN]
Removal == [path : Path, line : Edit \cup {NoLine}]

Current   == plan[ln]                        \* the line main() deals with
Want    == job.line.obj
TempOf(p) == Temp[p][pid]
Target  == IF job.line.op = "+" THEN TempOf(job.line.path) ELSE job.line.path
Forced       == opt.force
CreatePrefix == opt.createPrefix
Network      == opt.network
Cksum        == opt.cksum

Working == exit = "run"
-----------------------------------------------------------------------------
(* System calls                                                             *)

CanCreate(p) ==
  /\ ~Exists(p)
  /\ Parent(p) # 0 => IsDir(Parent(p))

(* unlink() does not remove a directory, and rmdir() only an empty one      *)
CanUnlink(p) == Exists(p) /\ ~IsDir(p)
CanRmdir(p)  == IsDir(p) /\ Children(p) = {}

(* The file system with names f, where objects without a name are gone      *)
Settled(f, n) ==
  /\ fs' = f
  /\ node' = [i \in Inode |-> IF \E p \in Path : f[p] = i THEN n[i] ELSE Missing]

Unlink(p)    == Settled([fs EXCEPT ![p] = 0], node)
Create(p, o) == \E i \in Inode :
  /\ \A q \in Path : fs[q] # i
  /\ \A j \in 1..(i - 1) : \E q \in Path : fs[q] = j
  /\ Settled([fs EXCEPT ![p] = i], [node EXCEPT ![i] = o])
Set(p, o)    == fs' = fs /\ node' = [node EXCEPT ![fs[p]] = o]

(* The directories above p that mkprefix() has to make                      *)
Lacking(p) == { q \in 1..(p - 1) : Inside(p, q) /\ ~Exists(q) }

(* lstat() fails with ENOTDIR when something else is in a directory's place *)
NotDir(p) == \E q \in 1..(p - 1) :
  Inside(p, q) /\ Exists(q) /\ Lstat(q).type \notin {"d", "l"}
-----------------------------------------------------------------------------
(* main(): a line is read and its path looked up                            *)

More == ln < Len(plan)

Skip ==
  /\ phase = "line" /\ More
  /\ plan[ln + 1].op = "+" /\ ~Network
  /\ ln' = ln + 1
  /\ UNCHANGED <<tree, plan, opt, pid, prev, found, heads, st, phase, job, change,
                 exit, faults>>

Read ==
  /\ phase = "line" /\ More
  /\ ~(plan[ln + 1].op = "+" /\ ~Network)
  /\ LET p == plan[ln + 1].path
     IN  /\ p > prev /\ ~NotDir(p)
         /\ ln' = ln + 1 /\ prev' = p
         /\ found' = Lstat(p).type /\ st' = Lstat(p)
  /\ phase' = "place"
  /\ UNCHANGED <<tree, plan, opt, pid, heads, job, change, exit, faults>>

(* A directory is removed once the lines below it are done                  *)
Due ==
  /\ heads # <<>>
  /\ \/ phase = "place" /\ ~Inside(Current.path, Head(heads).path)
     \/ phase = "line" /\ ~More

Start(line, present, back, stat) ==
  /\ job' = [Idle EXCEPT !.line = line, !.present = present, !.back = back]
  /\ phase' = IF line.op = "+" THEN "request" ELSE "update"
  /\ st' = stat

(* Mutant: unlink() for rmdir(), which lets root detach a full directory    *)
PopUnlink ==
  /\ Due
  /\ Unlink(Head(heads).path)
  /\ heads' = Tail(heads)
  /\ IF Head(heads).line = NoLine
     THEN UNCHANGED <<job, phase, st>>
     ELSE Start(Head(heads).line, FALSE, phase, st)
  /\ UNCHANGED <<plan, opt, pid, ln, prev, found, change, exit, faults>>

Pop ==
  /\ Due
  /\ CanRmdir(Head(heads).path)
  /\ Unlink(Head(heads).path)
  /\ heads' = Tail(heads)
  /\ IF Head(heads).line = NoLine
     THEN UNCHANGED <<job, phase, st>>
     ELSE Start(Head(heads).line, FALSE, phase, st)
  /\ UNCHANGED <<plan, opt, pid, ln, prev, found, change, exit, faults>>

Differs  == found # "X" /\ found # Current.obj.type
Removing == Current.op = "-" \/ Differs

(* Mutant: the outermost directory first                                    *)
PushLast ==
  /\ phase = "place" /\ ~Due /\ Removing /\ found = "d"
  /\ heads' = heads \o <<[path |-> Current.path,
                          line |-> IF Differs THEN Current ELSE NoLine]>>
  /\ phase' = "line"
  /\ UNCHANGED <<tree, plan, opt, pid, ln, prev, found, st, job, change, exit, faults>>

Push ==
  /\ phase = "place" /\ ~Due /\ Removing /\ found = "d"
  /\ heads' = <<[path |-> Current.path,
                 line |-> IF Differs THEN Current ELSE NoLine]>> \o heads
  /\ phase' = "line"
  /\ UNCHANGED <<tree, plan, opt, pid, ln, prev, found, st, job, change, exit, faults>>

Remove ==
  /\ phase = "place" /\ ~Due /\ Removing /\ found # "d"
  /\ \/ CanUnlink(Current.path) /\ Unlink(Current.path)
     \/ ~Exists(Current.path) /\ Forced /\ UNCHANGED tree
  /\ found' = "X"
  /\ IF Current.op = "-" THEN phase' = "line" /\ UNCHANGED <<job, st>>
     ELSE Start(Current, FALSE, "line", st)
  /\ UNCHANGED <<plan, opt, pid, ln, prev, heads, change, exit, faults>>

(* do_line() is called; for an update of what is there it looks once more   *)
Apply ==
  /\ phase = "place" /\ ~Due /\ ~Removing
  /\ Start(Current, found # "X", "line",
           IF found # "X" /\ Current.op # "+" THEN Lstat(Current.path) ELSE st)
  /\ UNCHANGED <<tree, main, change, exit, faults>>
-----------------------------------------------------------------------------
(* retr()                                                                   *)

(* The command sent is "SPECIAL path" or "FILE transcript path", and the    *)
(* flag for it that of the header read last                                 *)
AsksSpecial == Current.special
RightSource == AsksSpecial = job.line.special

(* The server knows the size of the transcript.  It sends what it should,   *)
(* or, if it does not have it, or is asked for something else, any file.    *)
Request(d) ==
  /\ phase = "request" /\ Want.type = "f"
  /\ Size[d] = Size[Want.data]
  /\ d # Want.data /\ RightSource => faults < MaxFaults
  /\ faults' = IF d # Want.data /\ RightSource THEN faults + 1 ELSE faults
  /\ job' = [job EXCEPT !.got = d]
  /\ phase' = "open"
  /\ UNCHANGED <<tree, main, st, change, exit>>

(* Mutant: with O_EXCL                                                      *)
OpenExcl ==
  /\ phase = "open" /\ TempOf(job.line.path) # 0
  /\ LET t == TempOf(job.line.path)
     IN  /\ CanCreate(t)
         /\ Create(t, [type |-> "f", data |-> Partial, own |-> 0,
                       mode |-> TempMode, mtime |-> Now])
  /\ phase' = "body"
  /\ UNCHANGED <<main, st, job, change, exit, faults>>

(* open( temppath, O_WRONLY | O_CREAT )                                     *)
Open ==
  /\ phase = "open" /\ TempOf(job.line.path) # 0
  /\ LET t == TempOf(job.line.path)
     IN  \/ /\ CanCreate(t)
            /\ Create(t, [type |-> "f", data |-> Partial, own |-> 0,
                          mode |-> TempMode, mtime |-> Now])
            /\ job' = job
         \/ /\ Lstat(t).type = "f"
            /\ UNCHANGED tree
            /\ job' = [job EXCEPT !.fresh = FALSE]
  /\ phase' = "body"
  /\ UNCHANGED <<main, st, change, exit, faults>>

(* Without O_TRUNC, what an old file has beyond the new size stays          *)
Overwritten(old, new) == IF Size[old] <= Size[new] THEN new ELSE Mixed

Body ==
  /\ phase = "body"
  /\ LET old == Lstat(Target)
         d   == IF job.fresh THEN job.got ELSE Overwritten(old.data, job.got)
     IN  Set(Target, [old EXCEPT !.data = d, !.mtime = Now])
  /\ phase' = "check"
  /\ UNCHANGED <<main, st, job, change, exit, faults>>

(* Mutant: the size is all that is compared                                 *)
VerifiedSize == Size[job.got] = Size[Want.data]

(* The digest is that of what came over the network                         *)
Verified == Cksum => job.got = Want.data

(* Mutant: a file with the wrong digest is asked for again                  *)
CheckRetries ==
  /\ phase = "check"
  /\ IF Verified THEN st' = Lstat(Target) /\ phase' = "update"
     ELSE st' = st /\ phase' = "request"
  /\ UNCHANGED <<tree, main, job, change, exit, faults>>

Check ==
  /\ phase = "check" /\ Verified
  /\ st' = Lstat(Target)
  /\ phase' = "update"
  /\ UNCHANGED <<tree, main, job, change, exit, faults>>
-----------------------------------------------------------------------------
(* update()                                                                 *)

(* The end of do_line()                                                     *)
Done ==
  /\ change' = TRUE
  /\ job' = Idle
  /\ phase' = job.back

Makeable  == {"d", "p", "c", "b", "l", "h"}
There     == job.present \/ job.line.op = "+"
Replaced  == job.present /\ ( \/ Want.type = "l"
                              \/ Want.type \in {"c", "b"} /\ st.data # Want.data )

(* A link, or a device with another number, is first removed                *)
Clear ==
  /\ phase = "update" /\ Replaced
  /\ CanUnlink(Target) /\ Unlink(Target)
  /\ job' = [job EXCEPT !.present = FALSE]
  /\ UNCHANGED <<main, st, phase, change, exit, faults>>

(* mkdir(), mkfifo() or mknod(), and the stat() of what they made           *)
Make ==
  /\ phase = "update" /\ ~There /\ Want.type \in {"d", "p", "c", "b"}
  /\ CanCreate(Target)
  /\ LET o == [type |-> Want.type, data |-> Want.data, own |-> 0,
               mode |-> Umask(Want.mode), mtime |-> 0]
     IN  Create(Target, o) /\ st' = o
  /\ phase' = "own"
  /\ UNCHANGED <<main, job, change, exit, faults>>

Symlink ==
  /\ phase = "update" /\ ~There /\ Want.type = "l"
  /\ CanCreate(Target)
  /\ Create(Target, [Want EXCEPT !.own = 0, !.mode = 0, !.mtime = 0])
  /\ phase' = "own"
  /\ UNCHANGED <<main, st, job, change, exit, faults>>

Link ==
  /\ phase = "update" /\ Want.type = "h"
  /\ Exists(Want.data) /\ ~IsDir(Want.data)
  /\ CanCreate(Target)
  /\ Settled([fs EXCEPT ![Target] = fs[Want.data]], node)
  /\ Done
  /\ UNCHANGED <<main, st, exit, faults>>

(* A socket cannot be made, "but not an error"                              *)
NoSocket ==
  /\ phase = "update" /\ ~There /\ Want.type = "s"
  /\ Done
  /\ UNCHANGED <<tree, main, st, exit, faults>>

(* mkprefix(), when the call before it failed with ENOENT; the directories  *)
(* take after the last one that was there                                   *)
MakePrefix ==
  /\ CreatePrefix
  /\ \/ phase = "open" /\ TempOf(job.line.path) # 0
     \/ phase = "update" /\ ~There /\ ~Replaced /\ Want.type \in Makeable
  /\ Lacking(Target) # {}
  /\ LET q == Least(Lacking(Target))
     IN  Parent(q) # 0 /\ CanCreate(q) /\ Create(q, Lstat(Parent(q)))
  /\ UNCHANGED <<main, st, phase, job, change, exit, faults>>

(* utime(), of files only                                                   *)
SetTime ==
  /\ phase = "update" /\ ~Replaced
  /\ There \/ Want.type = "f"
  /\ IF Want.type = "f" /\ Want.mtime # st.mtime
     THEN Exists(Target) /\ Set(Target, [Lstat(Target) EXCEPT !.mtime = Want.mtime])
     ELSE UNCHANGED tree
  /\ phase' = "own"
  /\ UNCHANGED <<main, st, job, change, exit, faults>>

(* chown(), or lchown() for a link                                          *)
SetOwner ==
  /\ phase = "own"
  /\ IF Want.own # st.own
     THEN LET o == Lstat(Target)
          IN  /\ Exists(Target)
              /\ Set(Target, [o EXCEPT !.own = Want.own,
                                       !.mode = IF o.type = "f" THEN Cleared(@) ELSE @])
     ELSE UNCHANGED tree
  /\ IF Want.type = "l" THEN Done ELSE phase' = "mode" /\ UNCHANGED <<job, change>>
  /\ UNCHANGED <<main, st, exit, faults>>

(* chmod(), also after a chown() that cleared the bits                      *)
NeedsMode ==
  \/ Want.mode # st.mode
  \/ Want.own # st.own /\ Want.mode \in SetId

SetMode ==
  /\ phase = "mode"
  /\ IF NeedsMode
     THEN Exists(Target) /\ Set(Target, [Lstat(Target) EXCEPT !.mode = Want.mode])
     ELSE UNCHANGED tree
  /\ IF job.line.op = "+" THEN phase' = "rename" /\ UNCHANGED <<job, change>> ELSE Done
  /\ UNCHANGED <<main, st, exit, faults>>

Rename ==
  /\ phase = "rename"
  /\ ~IsDir(job.line.path)
  /\ Parent(job.line.path) # 0 => IsDir(Parent(job.line.path))
  /\ Settled([fs EXCEPT ![job.line.path] = fs[Target], ![Target] = 0], node)
  /\ Done
  /\ UNCHANGED <<main, st, exit, faults>>
-----------------------------------------------------------------------------
(* The end of main()                                                        *)

Stop(status) ==
  /\ exit' = status
  /\ UNCHANGED <<main, st, phase, job, change>>

(* Mutant: the directories that still wait are forgotten                    *)
SucceedEarly ==
  /\ phase = "line" /\ ~More
  /\ Stop("0")
  /\ UNCHANGED <<tree, faults>>

Succeed ==
  /\ phase = "line" /\ ~More /\ heads = <<>>
  /\ Stop("0")
  /\ UNCHANGED <<tree, faults>>

Advance ==
  \/ Skip \/ Read \/ Pop \/ Push \/ Remove \/ Apply
  \/ (\E d \in Data : Request(d)) \/ Open \/ Body \/ Check
  \/ Clear \/ Make \/ Symlink \/ Link \/ NoSocket \/ MakePrefix
  \/ SetTime \/ SetOwner \/ SetMode \/ Rename
  \/ Succeed

(* A call fails because it must, because the server has no such file, or    *)
(* for a reason of its own                                                  *)
Stuck == ~ENABLED Advance
Fault == faults < MaxFaults /\ faults' = faults + 1
Bound == (Stuck \/ (phase = "request" /\ ~RightSource)) /\ faults' = faults

(* error2; retr() first unlinks what it has of the file                     *)
Fail ==
  /\ Fault \/ Bound
  /\ IF phase \in {"body", "check"} THEN Unlink(Target) ELSE UNCHANGED tree
  /\ Stop(IF change THEN "1" ELSE "2")

(* closesn() fails when everything has been done                            *)
CloseFails ==
  /\ phase = "line" /\ ~More /\ heads = <<>> /\ Network
  /\ Fault
  /\ Stop("2")
  /\ UNCHANGED tree

Kill == Fault /\ Stop("killed") /\ UNCHANGED tree

Init ==
  /\ \E s \in Starts : fs = s.fs /\ node = s.node /\ plan = s.plan /\ opt = s.opt
  /\ pid \in Pid
  /\ ln = 0 /\ prev = 0 /\ found = "X" /\ st = Missing /\ heads = <<>>
  /\ phase = "line" /\ job = Idle /\ change = FALSE /\ exit = "run"
  /\ faults = 0

Step   == Working /\ (Advance \/ Fail \/ CloseFails \/ Kill)
Exited == ~Working /\ UNCHANGED vars
Next   == Step \/ Exited

(* lapply runs by itself, and every call returns: the network is read with  *)
(* a timeout                                                                *)
Spec == Init /\ [][Next]_vars /\ WF_vars(Step)
-----------------------------------------------------------------------------
Phases == {"line", "place", "request", "open", "body", "check", "update", "own",
           "mode", "rename"}

TypeOK ==
  /\ WellFormed(fs, node)
  /\ plan \in Seq(Edit) /\ opt \in Options /\ pid \in Pid
  /\ ln \in 0..Len(plan) /\ (phase = "place" => ln > 0)
  /\ prev \in Path \cup {0}
  /\ found \in Types \cup {"X"} /\ st \in Obj \cup {Missing}
  /\ heads \in Seq(Removal)
  /\ phase \in Phases /\ job \in Job
  /\ change \in BOOLEAN /\ exit \in {"run", "0", "1", "2", "killed"}
  /\ faults \in 0..MaxFaults
-----------------------------------------------------------------------------
(* The removal list is a chain of directories each inside the next, with    *)
(* the current line still to come inside the first or beyond (main(), the   *)
(* dirchecklist loop): so no rmdir() comes before the lines below it.       *)
HeadsNested ==
  /\ \A m, n \in DOMAIN heads : m < n =>
       /\ Inside(heads[m].path, heads[n].path)
       /\ heads[n].path < heads[m].path
  /\ \A n \in DOMAIN heads : heads[n].path <= prev

(* A temporary file and, if an earlier run has left it, whatever else names *)
(* that file                                                                *)
Temporary(p) ==
  LET t == TempOf(job.line.path)
  IN  job.line.op = "+" /\ (p = t \/ (~job.fresh /\ fs[p] = fs[t]))

(* A file is only ever changed as a whole: what a path shows changes by a   *)
(* chown(), chmod() or utime() that keeps the contents, by a link to an     *)
(* object there is, or to a downloaded file that has the attributes of its  *)
(* line and, with -c, the contents (retr() and do_line() work on "p.radmind *)
(* .pid" and rename() it).  And a file to be replaced is never missing.     *)
ArrivesWhole(p) ==
  LET line == job.line
  IN  /\ Exists(p)' /\ Lstat(p)'.type = "f" /\ Lstat(p)' # Lstat(p) /\ ~Temporary(p) =>
           \/ fs'[p] = fs[p] /\ Lstat(p)'.data = Lstat(p).data
           \/ line.obj.type = "h" /\ p = line.path /\ fs'[p] = fs[line.obj.data]
           \/ /\ line.op = "+" /\ p = line.path
              /\ job.fresh =>
                   /\ Lstat(p)' = [line.obj EXCEPT !.data = Lstat(p)'.data]
                   /\ Size[Lstat(p)'.data] = Size[line.obj.data]
                   /\ Cksum => Lstat(p)'.data = line.obj.data
      /\ line.op = "+" /\ p = line.path /\ Exists(p) => Exists(p)'
FilesArriveWhole == \A p \in Path : ArrivesWhole(p)
ArriveWhole == [][FilesArriveWhole]_vars

(* What a line asks for is there.  Left out are sockets, which cannot be    *)
(* made, and the owner of a symbolic link: update() compares it with that   *)
(* of the object before, and may leave the new link with another.           *)
Holds(e) ==
  LET o == Lstat(e.path)
      same == [o EXCEPT !.data = e.obj.data]
  IN  CASE e.op = "+" /\ ~Network -> TRUE
        [] e.op = "-" -> o.type = "X"
        [] e.obj.type = "h" -> Exists(e.path) /\ fs[e.path] = fs[e.obj.data]
        [] e.obj.type = "l" -> o.type = "l" /\ o.data = e.obj.data
        [] e.obj.type = "s" -> o.type \in {"X", "s"}
        [] e.op = "+" -> /\ same = e.obj
                         /\ IF Cksum THEN o = e.obj ELSE Size[o.data] = Size[e.obj.data]
        [] e.obj.type = "f" -> same = e.obj
        [] OTHER -> o = e.obj

(* lapply(1), exit 0: "Transcript was applied", all of it at once, and no   *)
(* temporary file is left                                                   *)
ZeroMeansApplied ==
  exit = "0" => \A n \in 1..Len(plan) :
    /\ Holds(plan[n])
    /\ plan[n].op = "+" /\ TempOf(plan[n].path) # 0 => ~Exists(TempOf(plan[n].path))

(* Every run of lapply comes to an end                                      *)
Ends == <>~Working
=============================================================================
