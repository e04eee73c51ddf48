------------------------------- MODULE Upload -------------------------------
(****************************************************************************)
(* lcreate uploads a transcript and its files: STOR commands sent one       *)
(* after the other without waiting, answers counted; and f_stor() of the    *)
(* child of radmind at the other end.  Several run at the same time, for    *)
(* the same transcript or not.                                              *)
(*                                                                          *)
(* Contents are sequences of blocks.  File 0 is the transcript itself.      *)
(* Connecting, TLS and logging in are over; "conn" is the connection.       *)
(****************************************************************************)
EXTENDS Integers, Sequences

CONSTANTS
  Session,    \* runs of lcreate, each with its child of radmind
  Transcript, \* names on the server
  Block,
  NFile,      \* the greatest number of files of a transcript
  Versions,   \* what a file may be changed into while it is uploaded
  Starts,     \* set of [name, lines, disk, opt], functions on Session
  UpRoom,     \* how many parts of commands the connection holds
  MaxFaults,  \* bound on failing calls, kills, lost connections and files that change
  MaxCleans   \* bound on removals by the administrator

Nobody == "nobody"

Options == [cksum : BOOLEAN, force : BOOLEAN, negative : BOOLEAN, only : BOOLEAN]

ASSUME UploadAssumption ==
  /\ NFile \in Nat /\ UpRoom \in Nat \ {0} /\ MaxFaults \in Nat /\ MaxCleans \in Nat
  /\ Block \subseteq Nat /\ 1 \in Block /\ Versions \subseteq Seq(Block)
  /\ Nobody \notin Session \cup Transcript

ASSUME StartsAssumption ==
  \A st \in Starts :
    /\ st.name \in [Session -> Transcript]
    /\ st.lines \in [Session -> Seq(Seq(Block))] /\ st.disk \in [Session -> Seq(Seq(Block))]
    /\ st.opt \in [Session -> Options]
    /\ \A s \in Session : Len(st.disk[s]) = Len(st.lines[s]) /\ Len(st.lines[s]) <= NFile

VARIABLES
  name,   \* [Session -> Transcript], -t
  lines,  \* [Session -> what the f lines of the transcript say of the contents]
  opt,    \* [Session -> options]: cksum (-c), force (-F), negative (-N), only (-T)
  disk,   \* [Session -> contents of the files at the administrator's machine]
  lc,     \* lcreate: pc, the file at hand, its size when opened, what was sent, respcount
  exit,   \* of lcreate
  up, down, \* the connection in both directions
  conn,   \* the connection works
  child,  \* f_stor(): pc, upload_xscript, the file at hand and the bytes to come
  dir,    \* transcripts with a directory in tmp/file
  stored, \* [Transcript -> [0..NFile -> file]], the files in tmp
  faults, cleans

client == <<lc, exit>>
net    == <<up, down, conn>>
tmp    == <<dir, stored>>
fixed  == <<name, lines, opt>>
vars   == <<fixed, disk, client, net, child, tmp, faults, cleans>>

None == [by |-> Nobody, blocks |-> <<>>]

(* The contents that lcreate finds for file k, and what it says of them     *)
TranBlocks == <<1>>
Found(s, k) == IF k = 0 THEN TranBlocks ELSE disk[s][k]
ListedAs(s, k) == IF k = 0 THEN TranBlocks ELSE lines[s][k]
Files(s) == IF opt[s].only THEN 0 ELSE Len(lines[s])
Zero(s, k) == opt[s].negative /\ k > 0

Part == [op : {"stor", "block", "end"}, arg : Nat, size : Nat]
Stor(k, n) == [op |-> "stor", arg |-> k, size |-> n]
Bytes(b)   == [op |-> "block", arg |-> b, size |-> 0]
Dot        == [op |-> "end", arg |-> 0, size |-> 0]

FixedOK ==
  /\ name \in [Session -> Transcript] /\ opt \in [Session -> Options]
  /\ lines \in [Session -> Seq(Seq(Block))]

LcPc == {"idle", "poll", "open", "send", "end", "drain", "giveup", "over"}

LcState == [pc : LcPc, k : 0..NFile, size : Nat, sent : Seq(Block), respcount : Nat]

ClientOK ==
  /\ disk \in [Session -> Seq(Seq(Block))]
  /\ lc \in [Session -> LcState]
  /\ exit \in [Session -> {"run", "0", "2", "killed"}]

NetOK ==
  /\ up \in [Session -> Seq(Part)]
  /\ \A s \in Session : Len(up[s]) <= UpRoom
  /\ down \in [Session -> Seq({"3", "2", "5"})]
  /\ conn \in [Session -> BOOLEAN]

ChildPc == {"none", "cmd", "data", "gone"}

ChildState == [pc : ChildPc, xscript : Transcript \cup {Nobody}, k : 0..NFile, len : Nat]

TmpFile == [by : Session \cup {Nobody}, blocks : Seq(Nat)]

ServerOK ==
  /\ child \in [Session -> ChildState]
  /\ dir \in SUBSET Transcript
  /\ stored \in [Transcript -> [0..NFile -> TmpFile]]

TypeOK == FixedOK /\ ClientOK /\ NetOK /\ ServerOK
-----------------------------------------------------------------------------
(* lcreate                                                                  *)
At(s, pc) == lc[s].pc = pc

Exits(s, status) ==
  /\ exit' = [exit EXCEPT ![s] = status]
  /\ lc' = [lc EXCEPT ![s].pc = "over"]

(* The server has closed the connection, or it is lost                      *)
Broken(s) == ~conn[s] \/ child[s].pc = "gone"

Room(s) == Len(up[s]) < UpRoom

Connect(s) ==
  /\ At(s, "idle")
  /\ lc' = [lc EXCEPT ![s].pc = "open", ![s].respcount = 2]
  /\ child' = [child EXCEPT ![s].pc = "cmd"]
  /\ UNCHANGED <<fixed, disk, exit, net, tmp, faults, cleans>>

(* stor_file() finds the file, compares its size and announces it;          *)
(* n_stor_file() announces nothing at all                                   *)
Open(s) ==
  /\ At(s, "open")
  /\ LET k  == lc[s].k
         n  == IF Zero(s, k) THEN 0 ELSE Len(Found(s, k))
         ok == Zero(s, k) \/ n = Len(ListedAs(s, k)) \/ opt[s].force
     IN  IF ~ok \/ Broken(s) THEN Exits(s, "2") /\ UNCHANGED up
         ELSE /\ Room(s)
              /\ up' = [up EXCEPT ![s] = Append(@, Stor(k, n))]
              /\ lc' = [lc EXCEPT ![s].pc = IF Zero(s, k) THEN "end" ELSE "send",
                                  ![s].size = n, ![s].sent = <<>>]
              /\ UNCHANGED exit
  /\ UNCHANGED <<fixed, disk, down, conn, child, tmp, faults, cleans>>

(* Mutant: one answer for a file                                            *)
CountedOnce(s) == IF lc[s].k = 0 THEN lc[s].respcount ELSE lc[s].respcount + 1

(* Two answers will come for the file; for the transcript they have been    *)
(* counted before                                                           *)
Counted(s) == IF lc[s].k = 0 THEN lc[s].respcount ELSE lc[s].respcount + 2

GiveUp(s) == lc' = [lc EXCEPT ![s].pc = "giveup", ![s].respcount = Counted(s)]

(* One block, read from the file as it is now                               *)
Send(s) ==
  /\ At(s, "send")
  /\ Len(lc[s].sent) < Len(Found(s, lc[s].k))
  /\ IF Broken(s) THEN GiveUp(s) /\ UNCHANGED up
     ELSE LET b == Found(s, lc[s].k)[Len(lc[s].sent) + 1]
          IN  /\ Room(s)
              /\ up' = [up EXCEPT ![s] = Append(@, Bytes(b))]
              /\ lc' = [lc EXCEPT ![s].sent = Append(@, b)]
  /\ UNCHANGED <<fixed, disk, exit, down, conn, child, tmp, faults, cleans>>

(* The end of the file: as many bytes as announced, or exit                 *)
Finished(s) ==
  /\ At(s, "send")
  /\ Len(lc[s].sent) >= Len(Found(s, lc[s].k))
  /\ IF Len(lc[s].sent) # lc[s].size THEN Exits(s, "2")
     ELSE lc' = [lc EXCEPT ![s].pc = "end"] /\ UNCHANGED exit
  /\ UNCHANGED <<fixed, disk, net, child, tmp, faults, cleans>>

(* "." and the checksum of what was sent; then the next line of the         *)
(* transcript, if there is one                                              *)
End(s) ==
  /\ At(s, "end")
  /\ LET k     == lc[s].k
         wrong == opt[s].cksum /\ k > 0 /\ ~Zero(s, k) /\ lc[s].sent # ListedAs(s, k)
     IN  IF Broken(s) /\ Zero(s, k) THEN Exits(s, "2") /\ UNCHANGED up
         ELSE IF Broken(s) THEN GiveUp(s) /\ UNCHANGED <<exit, up>>
         ELSE /\ Room(s)
              /\ up' = [up EXCEPT ![s] = Append(@, Dot)]
              /\ IF wrong /\ ~opt[s].force THEN Exits(s, "2")
                 ELSE /\ lc' = [lc EXCEPT ![s].pc = IF k < Files(s) THEN "poll" ELSE "drain",
                                          ![s].respcount = Counted(s)]
                      /\ UNCHANGED exit
  /\ UNCHANGED <<fixed, disk, down, conn, child, tmp, faults, cleans>>

(* stor_response(): one answer, a 3 and a 2 in turn.  Nothing more to       *)
(* read because the connection is closed is an error, like a wrong answer   *)
Due(s) == IF lc[s].respcount % 2 = 0 THEN "3" ELSE "2"

Reading(s) == lc[s].pc \in {"poll", "drain", "giveup"} /\ lc[s].respcount > 0

(* Mutant: the end of the connection is taken for nothing to read yet       *)
AnswerOrNone(s) ==
  /\ Reading(s)
  /\ down[s] # <<>> \/ Broken(s)
  /\ IF down[s] = <<>> THEN UNCHANGED client
     ELSE IF Head(down[s]) = Due(s)
     THEN lc' = [lc EXCEPT ![s].respcount = @ - 1] /\ UNCHANGED exit
     ELSE Exits(s, "2")
  /\ down' = [down EXCEPT ![s] = IF @ = <<>> THEN @ ELSE Tail(@)]
  /\ UNCHANGED <<fixed, disk, up, conn, child, tmp, faults, cleans>>

Answer(s) ==
  /\ Reading(s)
  /\ down[s] # <<>> \/ Broken(s)
  /\ IF down[s] # <<>> /\ Head(down[s]) = Due(s)
     THEN lc' = [lc EXCEPT ![s].respcount = @ - 1] /\ UNCHANGED exit
     ELSE Exits(s, "2")
  /\ down' = [down EXCEPT ![s] = IF @ = <<>> THEN @ ELSE Tail(@)]
  /\ UNCHANGED <<fixed, disk, up, conn, child, tmp, faults, cleans>>

(* Before each line of the transcript: what has come is read, more is not   *)
(* waited for                                                               *)
NextLine(s) ==
  /\ At(s, "poll")
  /\ lc[s].respcount = 0 \/ (down[s] = <<>> /\ ~Broken(s))
  /\ lc' = [lc EXCEPT ![s].pc = "open", ![s].k = @ + 1]
  /\ UNCHANGED <<fixed, disk, exit, net, child, tmp, faults, cleans>>

(* Mutant: the last answer is not waited for                                *)
CloseEarly(s) ==
  /\ lc[s].pc \in {"drain", "giveup"} /\ lc[s].respcount <= 1
  /\ Exits(s, IF At(s, "drain") /\ ~Broken(s) THEN "0" ELSE "2")
  /\ UNCHANGED <<fixed, disk, net, child, tmp, faults, cleans>>

(* All answers have come: closesn() says QUIT, and fails if nobody hears;   *)
(* after a failure the exit status is 2 all the same                        *)
Close(s) ==
  /\ lc[s].pc \in {"drain", "giveup"} /\ lc[s].respcount = 0
  /\ Exits(s, IF At(s, "drain") /\ ~Broken(s) THEN "0" ELSE "2")
  /\ UNCHANGED <<fixed, disk, net, child, tmp, faults, cleans>>
-----------------------------------------------------------------------------
(* f_stor() in the child of radmind                                         *)
In(s, pc) == child[s].pc = pc /\ up[s] # <<>>

Says(s, answer) == down' = [down EXCEPT ![s] = IF conn[s] THEN Append(@, answer) ELSE @]

Takes(s) == up' = [up EXCEPT ![s] = Tail(@)]

(* mkdir() for the transcript, which keeps others out; for a file, the      *)
(* transcript given before; and open() of a new file                        *)
Accepted(s, k) ==
  /\ IF k = 0 THEN name[s] \notin dir ELSE child[s].xscript = name[s]
  /\ stored[name[s]][k].by = Nobody

(* Mutant: the child says 551 and reads on                                  *)
RefusedStays(s, x) == child' = [child EXCEPT ![s].xscript = x]

(* An error ends the child; upload_xscript has been set before mkdir()      *)
Refused(s, x) == child' = [child EXCEPT ![s].pc = "gone", ![s].xscript = x]

(* Anything but STOR here would be no command for cmdloop()                 *)
StorCommand(s) ==
  /\ In(s, "cmd")
  /\ LET k == Head(up[s]).arg
         t == name[s]
         x == IF k = 0 THEN t ELSE child[s].xscript
     IN  IF Head(up[s]).op = "stor" /\ Accepted(s, k)
         THEN /\ child' = [child EXCEPT ![s] = [pc |-> "data", xscript |-> x, k |-> k,
                                                len |-> Head(up[s]).size]]
              /\ dir' = dir \cup {t}
              /\ stored' = [stored EXCEPT ![t][k] = [by |-> s, blocks |-> <<>>]]
              /\ Says(s, "3")
         ELSE /\ Refused(s, x)
              /\ dir' = IF k = 0 THEN dir \cup {t} ELSE dir
              /\ Says(s, "5") /\ UNCHANGED stored
  /\ Takes(s)
  /\ UNCHANGED <<fixed, disk, client, conn, faults, cleans>>

WantsBlock(s) == child[s].len > 0

StorBlock(s) ==
  /\ In(s, "data") /\ WantsBlock(s)
  /\ child' = [child EXCEPT ![s].len = @ - 1]
  /\ stored' = [stored EXCEPT ![name[s]][child[s].k].blocks = Append(@, Head(up[s]).arg)]
  /\ Takes(s)
  /\ UNCHANGED <<fixed, disk, client, down, conn, dir, faults, cleans>>

(* "." is what should come after the bytes; if not, the file is removed     *)
StorEnd(s) ==
  /\ In(s, "data") /\ ~WantsBlock(s)
  /\ LET t == name[s]
     IN  IF Head(up[s]).op = "end"
         THEN child' = [child EXCEPT ![s].pc = "cmd"] /\ Says(s, "2") /\ UNCHANGED stored
         ELSE /\ child' = [child EXCEPT ![s].pc = "gone"] /\ Says(s, "5")
              /\ stored' = [stored EXCEPT ![t][child[s].k] = None]
  /\ Takes(s)
  /\ UNCHANGED <<fixed, disk, client, conn, dir, faults, cleans>>

(* End of file, or a reset, which overtakes what is on its way              *)
HangUp(s) ==
  /\ child[s].pc \in {"cmd", "data"}
  /\ ~conn[s] \/ exit[s] \in {"2", "killed"} \/ (exit[s] = "0" /\ up[s] = <<>>)
  /\ child' = [child EXCEPT ![s].pc = "gone"]
  /\ UNCHANGED <<fixed, disk, client, net, tmp, faults, cleans>>
-----------------------------------------------------------------------------
(* What may happen around them                                              *)
Faulty == faults < MaxFaults /\ faults' = faults + 1

Lose(s) ==
  /\ Faulty /\ conn[s] /\ child[s].pc \in {"cmd", "data"}
  /\ conn' = [conn EXCEPT ![s] = FALSE]
  /\ \E n \in 0..Len(down[s]) : down' = [down EXCEPT ![s] = SubSeq(@, 1, n)]
  /\ UNCHANGED <<fixed, disk, client, up, child, tmp, cleans>>

(* lcreate is killed                                                        *)
Kill(s) ==
  /\ Faulty /\ lc[s].pc \notin {"idle", "over"}
  /\ Exits(s, "killed")
  /\ UNCHANGED <<fixed, disk, net, child, tmp, cleans>>

(* A call of the child fails, it waits too long, or is killed: with or      *)
(* without a last answer, and perhaps between mkdir() and open()            *)
Fault(s) ==
  /\ Faulty /\ child[s].pc \in {"cmd", "data"}
  /\ child' = [child EXCEPT ![s].pc = "gone"]
  /\ Says(s, "5") \/ UNCHANGED down
  /\ \/ UNCHANGED dir
     \/ In(s, "cmd") /\ Head(up[s]) = Stor(0, Len(TranBlocks)) /\ dir' = dir \cup {name[s]}
  /\ UNCHANGED <<fixed, disk, client, up, conn, stored, cleans>>

(* A file that is being uploaded changes                                    *)
Modify(s) ==
  /\ Faulty /\ lc[s].pc \notin {"idle", "over"}
  /\ \E k \in DOMAIN disk[s], v \in Versions : disk' = [disk EXCEPT ![s][k] = v]
  /\ UNCHANGED <<fixed, client, net, child, tmp, cleans>>

(* The administrator removes what a failed upload has left, when no lcreate *)
(* and no child is at it                                                    *)
Clean(t) ==
  /\ cleans < MaxCleans /\ cleans' = cleans + 1
  /\ t \in dir
  /\ \A s \in Session : name[s] = t =>
       \/ At(s, "idle")
       \/ At(s, "over") /\ child[s].pc = "gone" /\ exit[s] # "0"
  /\ dir' = dir \ {t}
  /\ stored' = [stored EXCEPT ![t] = [k \in 0..NFile |-> None]]
  /\ UNCHANGED <<fixed, disk, client, net, child, faults>>

Ended(s) == At(s, "over") /\ child[s].pc = "gone"

Idle == (\A s \in Session : Ended(s)) /\ UNCHANGED vars
-----------------------------------------------------------------------------
Init ==
  \E st \in Starts :
    /\ name = st.name /\ lines = st.lines /\ disk = st.disk /\ opt = st.opt
    /\ lc = [s \in Session |->
         [pc |-> "idle", k |-> 0, size |-> 0, sent |-> <<>>, respcount |-> 0]]
    /\ exit = [s \in Session |-> "run"]
    /\ up = [s \in Session |-> <<>>] /\ down = [s \in Session |-> <<>>]
    /\ conn = [s \in Session |-> TRUE]
    /\ child = [s \in Session |-> [pc |-> "none", xscript |-> Nobody, k |-> 0, len |-> 0]]
    /\ dir = {} /\ stored = [t \in Transcript |-> [k \in 0..NFile |-> None]]
    /\ faults = 0 /\ cleans = 0

Lcreate(s) ==
  \/ Connect(s) \/ Open(s) \/ Send(s) \/ Finished(s) \/ End(s)
  \/ Answer(s) \/ NextLine(s) \/ Close(s)

Child(s) == StorCommand(s) \/ StorBlock(s) \/ StorEnd(s) \/ HangUp(s)

Next ==
  \/ \E s \in Session : Lcreate(s) \/ Child(s)
  \/ \E s \in Session : Lose(s) \/ Kill(s) \/ Fault(s) \/ Modify(s)
  \/ \E t \in Transcript : Clean(t)
  \/ Idle

Spec ==
  Init /\ [][Next]_vars /\ \A s \in Session : WF_vars(Lcreate(s)) /\ WF_vars(Child(s))
-----------------------------------------------------------------------------
(* A transcript in tmp is the work of one lcreate: mkdir() of its           *)
(* directory keeps all others out, also when the first has failed, until    *)
(* the administrator removes what it has left                               *)
OneWriter ==
  \A t \in Transcript : \A j, k \in 0..NFile :
    stored[t][j].by # Nobody /\ stored[t][k].by # Nobody => stored[t][j].by = stored[t][k].by

(* If nobody else uploads under that name, the files stay as they are       *)
(* listed and nothing fails, the upload succeeds                            *)
UploadFeasible ==
  \A s \in Session :
    /\ faults = 0 /\ At(s, "over")
    /\ \A t \in Session \ {s} : name[t] # name[s] \/ At(t, "idle")
    /\ \A k \in 1..Files(s) : disk[s][k] = lines[s][k]
    => exit[s] = "0"

(* What lcreate has promised with exit status 0: the transcript and all     *)
(* its files are in tmp, written by this lcreate and by no other, as long   *)
(* as it found them, empty for -N, as long as listed unless -F was given,   *)
(* and with the listed contents for -c                                      *)
Stored ==
  \A s \in Session : exit[s] = "0" =>
    \A k \in 0..Files(s) :
      LET f == stored[name[s]][k]
      IN  /\ f.by = s
          /\ Zero(s, k) => f.blocks = <<>>
          /\ ~Zero(s, k) /\ ~opt[s].force =>
               /\ Len(f.blocks) = Len(ListedAs(s, k))
               /\ opt[s].cksum => f.blocks = ListedAs(s, k)

(* Exit status 0 means that all is stored, and is what there is if nothing  *)
(* stands in the way                                                        *)
ExitZeroStored == Stored /\ UploadFeasible

(* The answers and respcount keep step: lcreate never takes "250 stored"    *)
(* of one file for the answer to another, or an answer for an error         *)
AnswersMatch ==
  \A s \in Session :
    Reading(s) /\ down[s] # <<>> => Head(down[s]) \in {Due(s), "5"}

(* lcreate ends, and its child ends, whatever fails                         *)
SessionsEnd == \A s \in Session : <>[]Ended(s)
=============================================================================
