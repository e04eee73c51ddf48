------------------------------ MODULE Ktcheck ------------------------------
(****************************************************************************)
(* ktcheck: brings the command files and transcripts of a client up to      *)
(* date, one after the other, while the administrator replaces them on the  *)
(* server; then fsdiff reads them (module CommandFiles).                    *)
(*                                                                          *)
(* The server is the child of radmind that serves the connection: what the  *)
(* client may see is computed once, when it connects (read_kfile() in       *)
(* command.c), and STAT and RETR answer for the file of that moment.        *)
(****************************************************************************)
EXTENDS CommandFiles

CONSTANTS
  Nested,    \* <<d, n>>: the path of n lies in a directory named like d
  Releases,  \* [Name \cup Special -> SUBSET Data]: what the administrator may put there
  Starts,    \* set of [server, client, specialT, opt]
  MaxEdits,  \* bound on the changes on the server
  MaxFaults, \* bound on failing calls and kills
  MaxRuns    \* bound on the runs of ktcheck

ASSUME KtcheckAssumption ==
  /\ Nested \subseteq Name \X Name
  /\ \A n \in Name \cup Special : Releases[n] \subseteq Data
  /\ MaxEdits \in Nat /\ MaxFaults \in Nat /\ MaxRuns \in Nat

VARIABLES
  server,   \* its files, special files included
  opt,      \* cksum (-c), update (no -n), clean (-C)
  access,   \* access_list of the server's child
  pc,       \* the place in ktcheck
  stack,    \* the calls of read_kfile()
  seen,     \* kfile_seen
  slist,    \* special_list
  item,     \* what check() is called for
  info,     \* what STAT said of it
  temp,     \* the data that RETR has brought
  draft,    \* special.T.pid
  change, exit,
  quiet,    \* nothing has failed or been changed on the server since the connection
  unstamped,\* utime() has failed
  edits, faults, runs

disk == <<client, specialT>>
main == <<stack, seen, slist, item, info, temp, draft, change>>
env  == <<server, opt, edits, faults, runs>>
vars == <<disk, loader, main, env, access, pc, exit, quiet, unstamped>>

TypeOK ==
  /\ client \in [Name -> File]
  /\ server \in [Name \cup Special -> File]
  /\ LoaderType
  /\ access \subseteq Name
  /\ pc \in {"connect", "line", "ask", "remove", "fetch", "stamp", "install", "special",
             "place", "sweep", "load", "over"}
  /\ stack \in Seq([data : Data, at : Nat])
  /\ seen \subseteq KFile /\ slist \subseteq Special /\ item \in Name
  /\ info \in File /\ temp \in Data
  /\ specialT \in Seq([name : Special, file : File])
  /\ draft \in Seq([name : Special, file : File])
  /\ change \in BOOLEAN /\ exit \in {"run", "0", "1", "2", "killed"}
  /\ quiet \in BOOLEAN /\ unstamped \in BOOLEAN
-----------------------------------------------------------------------------
(* The server                                                               *)

(* The command files that read_kfile() of the server opens                  *)
Opened ==
  LET Included(k) == { l.name : l \in { m \in ToSet(Lines[server[k].data]) :
                                          m.op = "k" /\ ~m.minus } }
      Upto[i \in 0..Cardinality(KFile)] ==
        IF i = 0 THEN {Base} ELSE Upto[i - 1] \cup UNION { Included(k) : k \in Upto[i - 1] }
  IN  Upto[Cardinality(KFile)]

(* The names that it finds there, minus lines left out                      *)
Granted ==
  UNION { { l.name : l \in { m \in ToSet(Lines[server[k].data]) :
                               m.op \in {"k", "p", "n"} /\ ~m.minus } } : k \in Opened }

Edited == 1000  \* later than any file was made before

(* The administrator replaces or removes a file                             *)
Edit ==
  /\ edits < MaxEdits /\ pc \notin {"load", "over"}
  /\ \E n \in Name \cup Special, d \in Data :
       /\ d \in Releases[n]
       /\ d # server[n].data
       /\ d # 0 /\ n \in Name => \A m \in Name : {<<n, m>>, <<m, n>>} \cap Nested # {} =>
                                   server[m] = Absent
       /\ server' = [server EXCEPT ![n] =
            IF d = 0 THEN Absent ELSE [data |-> d, mtime |-> Edited + edits]]
  /\ edits' = edits + 1
  /\ quiet' = FALSE
  /\ UNCHANGED <<disk, loader, main, opt, faults, runs, access, pc, exit, unstamped>>
-----------------------------------------------------------------------------
(* ktcheck                                                                  *)
Ends(status) == exit' = status /\ pc' = IF status \in {"0", "1"} THEN "load" ELSE "over"

(* Directories that a path needs, or that are where it belongs, in check()  *)
Prepared(n) ==
  [m \in Name |-> IF <<m, n>> \in Nested \/ <<n, m>> \in Nested THEN Absent ELSE client[m]]

Connect ==
  /\ pc = "connect"
  /\ quiet' = TRUE
  /\ IF \E k \in Opened : server[k] = Absent
     THEN Ends("2") /\ UNCHANGED <<access, item>>
     ELSE /\ access' = Granted
          /\ item' = Base /\ pc' = "ask" /\ UNCHANGED exit
  /\ UNCHANGED <<disk, loader, stack, seen, slist, info, temp, draft, change, env, unstamped>>

(* After check(): read_kfile() opens a command file, anything else is done  *)
Proceed(files, top) ==
  IF item \notin KFile THEN stack' = top /\ pc' = "line" /\ UNCHANGED exit
  ELSE IF files[item] = Absent THEN Ends("2") /\ UNCHANGED stack
  ELSE stack' = <<Frame(files[item])>> \o top /\ pc' = "line" /\ UNCHANGED exit

(* Mutant: only sizes are compared                                          *)
OutOfDateSize ==
  client[item] = Absent \/ Size[client[item].data] # Size[info'.data]

OutOfDate ==
  \/ client[item] = Absent
  \/ Size[client[item].data] # Size[info'.data]
  \/ IF opt.cksum THEN client[item].data # info'.data ELSE client[item].mtime # info'.mtime

(* f_stat() and f_retr() look a file up in access_list, but for the base    *)
(* command file, for which no name is given                                 *)
Denied == item \notin access /\ stack # <<>>

NoAnswer == Denied \/ server[item] = Absent

(* STAT, and what check() makes of the answer                               *)
Ask ==
  /\ pc = "ask"
  /\ IF NoAnswer
     THEN Ends("2") /\ UNCHANGED <<info, change, stack>>
     ELSE /\ info' = server[item]
          /\ IF ~OutOfDate THEN Proceed(client, stack) /\ UNCHANGED change
             ELSE IF ~opt.update THEN Ends("1") /\ change' = TRUE /\ UNCHANGED stack
             ELSE /\ pc' = IF client[item] = Absent THEN "fetch" ELSE "remove"
                  /\ UNCHANGED <<change, stack, exit>>
  /\ UNCHANGED <<disk, loader, seen, slist, item, temp, draft, env, access, quiet, unstamped>>

Unlink ==
  /\ pc = "remove"
  /\ client' = [client EXCEPT ![item] = Absent]
  /\ pc' = "fetch"
  /\ UNCHANGED <<specialT, loader, main, env, access, exit, quiet, unstamped>>

Sent == ~Denied /\ server[item] # Absent

(* What has come must have the size that STAT said, and the checksum with   *)
(* -c                                                                       *)
AsStated(d) == Size[d] = Size[info.data] /\ (opt.cksum => d = info.data)

(* RETR into a temporary file                                               *)
Fetch ==
  /\ pc = "fetch"
  /\ IF Sent /\ AsStated(server[item].data)
     THEN temp' = server[item].data /\ pc' = "stamp" /\ UNCHANGED exit
     ELSE Ends("2") /\ UNCHANGED temp
  /\ UNCHANGED <<disk, loader, stack, seen, slist, item, info, draft, change, env, access,
                 quiet, unstamped>>

(* utime(): if it fails, check() says that there was an update              *)
Stamp ==
  /\ pc = "stamp"
  /\ \/ pc' = "install" /\ UNCHANGED <<stack, exit, change, faults, quiet, unstamped>>
     \/ /\ faults < MaxFaults /\ faults' = faults + 1
        /\ change' = TRUE /\ quiet' = FALSE /\ unstamped' = TRUE
        /\ Proceed(client, stack)
  /\ UNCHANGED <<disk, loader, seen, slist, item, info, temp, draft, server, opt, edits, runs,
                 access>>

Install ==
  /\ pc = "install"
  /\ client' = [client EXCEPT ![item] = [data |-> temp, mtime |-> info.mtime]]
  /\ change' = TRUE
  /\ Proceed(client', stack)
  /\ UNCHANGED <<specialT, loader, seen, slist, item, info, temp, draft, env, access, quiet,
                 unstamped>>
-----------------------------------------------------------------------------
Reads(ops) ==
  /\ pc = "line" /\ stack # <<>> /\ ~AtEnd(Head(stack))
  /\ Current(Head(stack)).op \in ops

(* Mutant: the line is not left                                             *)
SkipStays ==
  /\ Reads({"k", "p", "n", "x"})
  /\ LET l == Current(Head(stack)) IN l.minus \/ l.op = "x"
  /\ UNCHANGED vars

(* Minus lines matter for special files only, excludes not at all           *)
Skip ==
  /\ Reads({"k", "p", "n", "x"})
  /\ LET l == Current(Head(stack)) IN l.minus \/ l.op = "x"
  /\ stack' = Advanced(stack)
  /\ UNCHANGED <<disk, loader, seen, slist, item, info, temp, draft, change, env, access, pc,
                 exit, quiet, unstamped>>

ListSpecial ==
  /\ Reads({"s"})
  /\ LET l == Current(Head(stack))
     IN  slist' = IF l.minus THEN slist \ {l.name} ELSE slist \cup {l.name}
  /\ stack' = Advanced(stack)
  /\ UNCHANGED <<disk, loader, seen, item, info, temp, draft, change, env, access, pc, exit,
                 quiet, unstamped>>

(* A command file must not have been seen; then as for a transcript         *)
Examine ==
  /\ Reads({"k", "p", "n"})
  /\ LET l == Current(Head(stack))
     IN  /\ ~l.minus
         /\ IF l.op = "k" /\ l.name \in seen
            THEN Ends("2") /\ UNCHANGED <<client, stack, seen, item>>
            ELSE /\ seen' = IF l.op = "k" THEN seen \cup {l.name} ELSE seen
                 /\ client' = Prepared(l.name)
                 /\ item' = l.name /\ pc' = "ask" /\ stack' = Advanced(stack)
                 /\ UNCHANGED exit
  /\ UNCHANGED <<specialT, loader, slist, info, temp, draft, change, env, access, quiet,
                 unstamped>>

Return ==
  /\ pc = "line" /\ stack # <<>> /\ AtEnd(Head(stack))
  /\ stack' = Tail(stack)
  /\ pc' = IF Len(stack) > 1 THEN "line" ELSE IF slist # {} THEN "special" ELSE "sweep"
  /\ UNCHANGED <<disk, loader, seen, slist, item, info, temp, draft, change, env, access,
                 exit, quiet, unstamped>>
-----------------------------------------------------------------------------
(* The list is kept in order                                                *)
Ordered(list) == SetToSortSeq(list, LAMBDA a, b : a < b)

(* createspecial(): STAT for each special file, or exit                     *)
AskSpecial ==
  /\ pc = "special"
  /\ LET s == Ordered(slist)[Len(draft) + 1]
     IN  IF server[s] = Absent THEN Ends("2") /\ UNCHANGED draft
         ELSE /\ draft' = Append(draft, [name |-> s, file |-> server[s]])
              /\ pc' = IF Len(draft') = Cardinality(slist) THEN "place" ELSE pc
              /\ UNCHANGED exit
  /\ UNCHANGED <<disk, loader, stack, seen, slist, item, info, temp, change, env, access,
                 quiet, unstamped>>

(* Mutant: with -n a wrong special.T is no change                           *)
PlaceSilently ==
  /\ pc = "place"
  /\ IF (opt.cksum /\ specialT = draft) \/ ~opt.update THEN UNCHANGED <<change, specialT>>
     ELSE change' = TRUE /\ specialT' = draft
  /\ pc' = "sweep"
  /\ UNCHANGED <<client, loader, stack, seen, slist, item, info, temp, draft, env, access,
                 exit, quiet, unstamped>>

(* Without checksums, special.T counts as changed                           *)
PlaceSpecial ==
  /\ pc = "place"
  /\ IF opt.cksum /\ specialT = draft THEN UNCHANGED <<change, specialT>>
     ELSE /\ change' = TRUE
          /\ specialT' = IF opt.update THEN draft ELSE specialT
  /\ pc' = "sweep"
  /\ UNCHANGED <<client, loader, stack, seen, slist, item, info, temp, draft, env, access,
                 exit, quiet, unstamped>>

(* Mutant: expand_kfile() of the base command file only                     *)
(* spared                                                                   *)
ListedBase ==
  {Base} \cup { l.name : l \in { m \in ToSet(Lines[client[Base].data]) :
                                  m.op \in {"k", "p", "n"} /\ ~m.minus } }

(* expand_kfile() of all the command files that have been read              *)
Listed ==
  {Base} \cup UNION { { l.name : l \in { m \in ToSet(Lines[client[k].data]) :
                                           m.op \in {"k", "p", "n"} /\ ~m.minus } } :
                      k \in seen \cup {Base} }

(* cleandirs(): what no command file lists is removed, one by one; a        *)
(* failure ends that, and ktcheck says nothing                              *)
Sweep ==
  /\ pc = "sweep"
  /\ LET rest == IF opt.clean /\ opt.update
                 THEN { n \in Name \ Listed : client[n] # Absent } ELSE {}
     IN  \/ /\ \E n \in rest : client' = [client EXCEPT ![n] = Absent]
            /\ UNCHANGED <<pc, exit, faults, quiet>>
         \/ /\ rest # {} /\ faults < MaxFaults /\ faults' = faults + 1 /\ quiet' = FALSE
            /\ Ends(IF change THEN "1" ELSE "0") /\ UNCHANGED client
         \/ /\ rest = {} /\ Ends(IF change THEN "1" ELSE "0")
            /\ UNCHANGED <<client, faults, quiet>>
  /\ UNCHANGED <<specialT, loader, main, server, opt, edits, runs, access, unstamped>>

(* Any other call fails, or ktcheck is killed                               *)
Fail ==
  /\ pc \notin {"load", "over"} /\ faults < MaxFaults
  /\ faults' = faults + 1 /\ quiet' = FALSE
  /\ \E status \in {"2", "killed"} : Ends(status)
  /\ UNCHANGED <<disk, loader, main, server, opt, edits, runs, access, unstamped>>
-----------------------------------------------------------------------------
(* fsdiff is run after an exit status of 0 or 1                             *)
LoadFiles ==
  /\ pc = "load"
  /\ Load
  /\ pc' = IF loader'.state = "reading" THEN pc ELSE "over"
  /\ UNCHANGED <<disk, main, env, access, exit, quiet, unstamped>>

Again ==
  /\ pc = "over" /\ runs < MaxRuns
  /\ runs' = runs + 1
  /\ pc' = "connect" /\ exit' = "run" /\ loader' = NotLoading
  /\ stack' = <<>> /\ seen' = {} /\ slist' = {} /\ item' = Base /\ info' = Absent
  /\ temp' = 0 /\ draft' = <<>> /\ change' = FALSE /\ access' = {} /\ unstamped' = FALSE
  /\ UNCHANGED <<disk, server, opt, edits, faults, quiet>>

Idle == pc = "over" /\ runs = MaxRuns /\ UNCHANGED vars

Init ==
  /\ \E s \in Starts : server = s.server /\ client = s.client /\ specialT = s.specialT
                       /\ opt = s.opt
  /\ pc = "connect" /\ exit = "run" /\ loader = NotLoading
  /\ stack = <<>> /\ seen = {} /\ slist = {} /\ item = Base /\ info = Absent
  /\ temp = 0 /\ draft = <<>> /\ change = FALSE /\ access = {} /\ unstamped = FALSE
  /\ quiet = TRUE /\ edits = 0 /\ faults = 0 /\ runs = 1

Step ==
  \/ Connect \/ Ask \/ Unlink \/ Fetch \/ Stamp \/ Install
  \/ Skip \/ ListSpecial \/ Examine \/ Return
  \/ AskSpecial \/ PlaceSpecial \/ Sweep \/ LoadFiles

Next == Step \/ Fail \/ Edit \/ Again \/ Idle

Spec == Init /\ [][Next]_vars /\ WF_vars(Step)
-----------------------------------------------------------------------------
Done == pc = "over" /\ exit \in {"0", "1"}

(* The files that a client of this server needs are all there               *)
Complete ==
  LET text == Text(server)
  IN  /\ NoRepeat(text)
      /\ \A n \in Mentioned(text) \cup {Base} \cup NamedBy(text, "s") : server[n] # Absent
      /\ Precedence(text) # <<>> \/ NamedBy(text, "s") # {}

(* What special.T should say                                                *)
SpecialWanted ==
  LET list == Ordered(NamedBy(Text(server), "s"))
  IN  [i \in DOMAIN list |-> [name |-> list[i], file |-> server[list[i]]]]

Same(f, g) ==
  /\ f # Absent /\ Size[f.data] = Size[g.data]
  /\ IF opt.cksum THEN f.data = g.data ELSE f.mtime = g.mtime

(* ktcheck has nothing to do                                                *)
Settled ==
  /\ \A n \in Mentioned(Text(server)) \cup {Base} : Same(client[n], server[n])
  /\ SpecialWanted # <<>> => opt.cksum /\ specialT = SpecialWanted

(* If all that a client needs is on the server and nothing goes wrong,      *)
(* ktcheck does its work: the list of accessible files, made when the       *)
(* client connects, is enough, whatever the client has to start with, and   *)
(* no command file is taken for a loop                                      *)
Feasible == quiet /\ Complete /\ pc = "over" => exit \in {"0", "1"}

(* After an update the client has what the server has: all files and        *)
(* special.T, even if the run before was killed or met with changes         *)
Updated ==
  Done /\ quiet /\ (exit = "0" \/ opt.update) =>
    /\ \A n \in Mentioned(Text(server)) \cup {Base} : client[n].data = server[n].data
    /\ SpecialWanted # <<>> => specialT = SpecialWanted

(* -C leaves what the command files list and nothing else                   *)
CleanExact ==
  Done /\ quiet /\ opt.clean /\ opt.update =>
    { n \in Name : client[n] # Absent } = Mentioned(Text(client)) \cup {Base}

(* ktcheck brings the client up to date whenever it can, and when it says so *)
UpToDate == Feasible /\ Updated /\ CleanExact

(* ktcheck -n says 0 exactly if an update would change nothing              *)
DryRunTruthful ==
  quiet /\ ~opt.update /\ Complete /\ pc = "over" => ((exit = "0") <=> Settled)

(* Whatever has been changed on the server and has failed meanwhile: if     *)
(* ktcheck says 0 or 1, fsdiff can read the command files, all transcripts  *)
(* are there, and none is read twice by way of a loop; -C has removed none  *)
(* of them                                                                  *)
Loadable ==
  Done /\ opt.update /\ ~unstamped /\ loader.state = "failed" =>
    Precedence(Text(client)) = <<>>

(* fsdiff reads what the command files say: the transcripts in their order  *)
(* of precedence, without those that a later minus line takes out, and the  *)
(* lists in the same way                                                    *)
ListsAsWritten ==
  loader.state = "loaded" =>
    LET text == Text(client)
    IN  /\ SelectSeq(loader.tran, LAMBDA t : t.kind # "s") = Precedence(text)
        /\ loader.special = NamedBy(text, "s")
        /\ loader.exclude = NamedBy(text, "x")
        /\ loader.special # {} <=> loader.tran[1].kind = "s"

(* special.T lists the special files of fsdiff's list, in order: the two    *)
(* programs read the command files with code of their own                   *)
SpecialAgrees ==
  Done /\ opt.update /\ loader.state = "loaded" /\ loader.special # {} =>
    [i \in DOMAIN specialT |-> specialT[i].name] = Ordered(loader.special)

(* All readers of the command files agree on what they mean                 *)
LoadedAsWritten == ListsAsWritten /\ SpecialAgrees

(* ktcheck and fsdiff end, even if command files include each other         *)
EveryRunEnds == pc = "connect" ~> pc = "over"
=============================================================================
