-------------------------------- MODULE Rash --------------------------------
(****************************************************************************)
(* ra.sh, the script that strings the tools together on a client, called    *)
(* several times at once: by cron ("auto"), by the login hook, and by       *)
(* administrators, who can check the machine out while they work on it.     *)
(*                                                                          *)
(* Each tool is one step, with the results that its own module has.  What   *)
(* ktcheck has brought to the client is a version of the description of the *)
(* file system: all command files and transcripts of one moment.            *)
(****************************************************************************)
EXTENDS Naturals

CONSTANTS
  Run,         \* calls of ra.sh
  User,
  MaxVersion,  \* bound on the versions on the server
  MaxFaults,   \* bound on tools that fail, and kills
  MaxWork,     \* bound on changes that somebody makes on the machine
  MaxTries,    \* after how many failures of lapply auto gives up
  Starts       \* set of [server, desc, fs, checked, setup]

(* What the client has, and what its file system is like                    *)
Version == 1..MaxVersion
Absent  == 0               \* no command file
Mixed   == MaxVersion + 1  \* of versions, after a ktcheck that has failed
Partial == MaxVersion + 2  \* after an lapply that has failed
Work    == MaxVersion + 3  \* after somebody has changed something
Desc    == Version \cup {Absent, Mixed}
Tree    == Version \cup {Mixed, Partial, Work}

NoOne == "none"
Empty == [from |-> Absent, to |-> Absent]
Diff  == [from : Tree, to : Version \cup {Mixed}] \cup {Empty}

(* The command and its user, whether the flag file of the hook is there,    *)
(* and -C with the transcript that has this checksum                        *)
Modes == {"trip", "update", "create", "auto", "force", "hook", "checkout", "checkin"}
Setup == [mode : Modes, user : User, flag : BOOLEAN, check : BOOLEAN, sum : Diff]

ASSUME RashAssumption ==
  /\ MaxVersion \in Nat /\ MaxFaults \in Nat /\ MaxWork \in Nat /\ MaxTries \in Nat \ {0}
  /\ NoOne \notin User
  /\ \A s \in Starts :
       /\ s.server \in Version /\ s.desc \in Desc /\ s.fs \in Tree
       /\ s.checked \in User \cup {NoOne} /\ s.setup \in [Run -> Setup]

VARIABLES
  setup,   \* how each run is called
  server,  \* the version on the server
  desc,    \* the version on the client
  fs,      \* what the file system is like
  checked, \* who has checked the machine out (CHECKEDOUT)
  run,     \* each run: pc, diff (FTMP), tries: how often lapply has failed, exit
  fresh,   \* runs for whose diff the file system is still what it was
  faults, works,
  (* for the properties *)
  was,     \* what each run found when it was called
  alone,   \* runs since whose call nobody else has changed anything
  failed,  \* at which of its steps each run has failed: a tool that has met
           \* with a fault, a kill, an lapply that has not made what it should
  unseen   \* what has happened since the run has looked: "checkout", "work"

client == <<desc, fs, checked>>
ghosts == <<was, alone, failed, unseen>>
vars   == <<setup, server, client, run, fresh, faults, works, ghosts>>

At(i, pc)    == run[i].pc = pc
Mode(i)      == setup[i].mode
Go(i, pc)    == run' = [run EXCEPT ![i].pc = pc]
Exit(i, st)  == run' = [run EXCEPT ![i].pc = "over", ![i].diff = Empty, ![i].exit = st]
NoFault      == faults' = faults
Fault        == faults < MaxFaults /\ faults' = faults + 1
-----------------------------------------------------------------------------
(* checkedout().  The hook comes here again after lapply has failed.        *)
Refused(i) == checked # NoOne

Begin(i) ==
  /\ At(i, "begin")
  /\ \/ Mode(i) = "trip" /\ IF desc = Absent THEN Exit(i, "1") ELSE Go(i, "dry")
     \/ Mode(i) = "create" /\ Go(i, "dry")
     \/ Mode(i) \in {"auto", "force", "hook"}
        /\ IF Refused(i) THEN Exit(i, "1")
           ELSE Go(i, IF Mode(i) = "auto" THEN "trip" ELSE "ktcheck")
     \/ Mode(i) = "update" /\ checked \in {NoOne, setup[i].user} /\ Go(i, "dry")
     \/ Mode(i) = "update" /\ checked # NoOne /\ Exit(i, "1")
     \/ Mode(i) = "checkout" /\ checked # setup[i].user /\ Go(i, "write")
     \/ Mode(i) = "checkout" /\ checked # NoOne /\ Exit(i, "1")
     \/ Mode(i) = "checkin" /\ IF checked = setup[i].user THEN Go(i, "remove") ELSE Exit(i, "1")
  /\ NoFault /\ UNCHANGED client

Checkout(i) ==
  /\ At(i, "write") /\ checked' = setup[i].user /\ Exit(i, "0")
  /\ NoFault /\ UNCHANGED <<desc, fs>>

Checkin(i) ==
  /\ At(i, "remove") /\ checked' = NoOne /\ Exit(i, "0")
  /\ NoFault /\ UNCHANGED <<desc, fs>>

(* ktcheck -n.  "cleanup; exit $?" exits with the status of cleanup.        *)
KtcheckDry(i) ==
  /\ At(i, "dry")
  /\ \/ NoFault /\ Go(i, "fsdiff")
     \/ NoFault /\ desc # server /\ Mode(i) # "trip" /\ Go(i, "ktcheck")
     \/ Fault /\ Exit(i, "0")
  /\ UNCHANGED client

(* ktcheck, and what its exit status leads to                               *)
Kept == IF desc = server THEN {desc} ELSE {desc, server, Mixed}
Ktchecked(i, status) ==
  CASE Mode(i) = "force" -> IF status = "2" THEN Exit(i, "0") ELSE Go(i, "fsdiff")
    [] Mode(i) = "hook"  -> IF status = "1" \/ (status = "0" /\ setup[i].flag) THEN Go(i, "fsdiff")
                            ELSE Exit(i, "0")
    [] Mode(i) = "auto"  -> IF status = "1" THEN Go(i, "fsdiff") ELSE Exit(i, "0")
    [] OTHER             -> IF status = "1" THEN Go(i, "fsdiff") ELSE Exit(i, status)

Ktcheck(i) ==
  /\ At(i, "ktcheck")
  /\ \/ NoFault /\ desc' = server /\ Ktchecked(i, IF desc = server THEN "0" ELSE "1")
     \/ Fault /\ desc' \in Kept /\ Ktchecked(i, "2")
  /\ UNCHANGED <<fs, checked>>

(* auto, after lapply has failed, whatever comes of it                      *)
KtcheckAgain(i) ==
  /\ At(i, "again") /\ Go(i, "fsdiff")
  /\ \/ NoFault /\ desc' = server
     \/ Fault /\ desc' \in Kept
  /\ UNCHANGED <<fs, checked>>
-----------------------------------------------------------------------------
Mismatch(s, diff) == s.check /\ s.sum # diff

(* Does fsdiff find nothing to print?  Two mixtures may differ.             *)
Clean == IF fs = Mixed /\ desc = Mixed THEN BOOLEAN ELSE {fs = desc}

FsdiffFails(i) == Exit(i, "1") /\ (Fault \/ (desc = Absent /\ NoFault))

(* auto: the tripwire.  Mutant: it is reported only                         *)
TripIgnored(i) == Go(i, "ktcheck")
Trip(i) == Exit(i, "1")

Tripwire(i) ==
  /\ At(i, "trip")
  /\ \/ FsdiffFails(i)
     \/ desc # Absent /\ NoFault /\ TRUE \in Clean /\ Go(i, "ktcheck")
     \/ desc # Absent /\ NoFault /\ FALSE \in Clean /\ Trip(i)
  /\ UNCHANGED client

(* fsdiff -C: trip only prints what it finds; create may store it           *)
FsdiffCreatable(i) ==
  /\ At(i, "fsdiff") /\ Mode(i) \in {"trip", "create"}
  /\ \/ FsdiffFails(i)
     \/ desc # Absent /\ NoFault /\ \E clean \in Clean :
          \/ Mode(i) = "trip" /\ Exit(i, "0")
          \/ Mode(i) = "create" /\ clean /\ Exit(i, "1")
          \/ Mode(i) = "create" /\ ~clean /\ (Go(i, "store") \/ Exit(i, "0"))
  /\ UNCHANGED client

Lcreate(i) ==
  /\ At(i, "store")
  /\ \/ NoFault /\ Exit(i, "0")
     \/ Fault /\ Exit(i, "1")
  /\ UNCHANGED client

(* fsdiff -A.  auto compares the checksum before it looks whether there is  *)
(* anything; update asks before it goes on.                                 *)
Found(i, diff) ==
  IF Mode(i) = "auto" /\ Mismatch(setup[i], diff) THEN Exit(i, "1")
  ELSE IF diff = Empty THEN Exit(i, "0")
  ELSE \/ run' = [run EXCEPT ![i].pc = "lapply", ![i].diff = diff]
       \/ Mode(i) = "update" /\ Exit(i, "0")

FsdiffApplicable(i) ==
  /\ At(i, "fsdiff") /\ Mode(i) \notin {"trip", "create"}
  /\ \/ FsdiffFails(i)
     \/ desc # Absent /\ NoFault /\ \E clean \in Clean :
          Found(i, IF clean THEN Empty ELSE [from |-> fs, to |-> desc])
  /\ UNCHANGED client

(* What comes of lapply: the hook begins again, auto after ktcheck, and     *)
(* nobody else tells that it has failed                                     *)
Failed(i, pc, st) ==
  run' = [run EXCEPT ![i] = [pc |-> pc, diff |-> Empty, tries |-> @.tries + 1, exit |-> st]]

(* Mutant: the hook does not look again whether the machine is checked out  *)
HookBlind(i) == Failed(i, "ktcheck", "none")

HookAgain(i) == Failed(i, "begin", "none")

Lapplied(i, status) ==
  \/ status = "0" /\ Exit(i, "0")
  \/ status # "0" /\ Mode(i) \in {"force", "update"} /\ Exit(i, "0")
  \/ status # "0" /\ Mode(i) = "hook" /\ HookAgain(i)
  \/ status # "0" /\ Mode(i) = "auto"
     /\ IF run[i].tries + 1 < MaxTries THEN Failed(i, "again", "none")
        ELSE Failed(i, "over", "1")

(* lapply does what it should if the file system is still the one that has  *)
(* been compared and the server still has the files; else anything may come *)
(* out                                                                      *)
Lapply(i) ==
  /\ At(i, "lapply")
  /\ LET d == run[i].diff
     IN  \/ NoFault /\ i \in fresh /\ fs' = d.to /\ Lapplied(i, "0")
         \/ NoFault /\ i \notin fresh /\ fs' \in {d.to, Partial} /\ Lapplied(i, "0")
         \/ NoFault /\ (i \notin fresh \/ server # d.to)
            /\ fs' \in {fs, Partial} /\ \E s \in {"1", "2"} : Lapplied(i, s)
         \/ Fault /\ fs' \in {fs, Partial} /\ \E s \in {"1", "2"} : Lapplied(i, s)
  /\ UNCHANGED <<desc, checked>>
-----------------------------------------------------------------------------
(* A signal, in the middle of what is being done: sh lets the tool end that *)
(* it has started and then runs "trap cleanup_and_exit", so that what the   *)
(* tool does may have been done in part or altogether                       *)
Killed(i) ==
  /\ run[i].pc \notin {"idle", "over"}
  /\ Fault /\ Exit(i, "1")
  /\ fs' \in IF At(i, "lapply") THEN {fs, Partial, run[i].diff.to} ELSE {fs}
  /\ desc' \in IF run[i].pc \in {"ktcheck", "again"} THEN Kept ELSE {desc}
  /\ checked' \in {checked} \cup (IF At(i, "write") THEN {setup[i].user} ELSE {})
                            \cup (IF At(i, "remove") THEN {NoOne} ELSE {})

Program(i) ==
  \/ Begin(i) \/ Checkout(i) \/ Checkin(i) \/ KtcheckDry(i) \/ Ktcheck(i) \/ KtcheckAgain(i)
  \/ Tripwire(i) \/ FsdiffCreatable(i) \/ FsdiffApplicable(i) \/ Lcreate(i) \/ Lapply(i)

(* What each step means to the others                                       *)
Looks(i) == At(i, "begin") \/ (At(i, "lapply") /\ Mode(i) = "hook")

Noticed(i) ==
  /\ fresh' = IF At(i, "lapply") THEN {}
              ELSE IF run'[i].pc = "lapply" THEN fresh \cup {i} ELSE fresh \ {i}
  /\ alone' = IF client' = client /\ ~At(i, "lapply") THEN alone ELSE alone \cap {i}
  /\ failed' = IF faults' = faults /\ (At(i, "lapply") => fs' = run[i].diff.to) THEN failed
               ELSE [failed EXCEPT ![i] = @ \cup {run[i].pc}]
  /\ unseen' = [j \in Run |->
       IF j = i /\ (Looks(i) \/ run'[i].pc = "over") THEN {}
       ELSE IF j = i /\ At(i, "trip") THEN unseen[i] \ {"work"}
       ELSE IF checked' \in {checked, NoOne} THEN unseen[j] ELSE unseen[j] \cup {"checkout"}]
  /\ UNCHANGED <<setup, server, works, was>>

(* Somebody calls ra.sh                                                     *)
Call(i) ==
  /\ At(i, "idle") /\ Go(i, "begin")
  /\ was' = [was EXCEPT ![i] = [server |-> server, desc |-> desc, fs |-> fs, checked |-> checked]]
  /\ alone' = alone \cup {i}
  /\ UNCHANGED <<setup, server, client, fresh, faults, works, failed, unseen>>

(* The machine and the server are only looked at while somebody runs ra.sh; *)
(* what has happened before is in Starts                                    *)
Running == \E i \in Run : run[i].pc \notin {"idle", "over"}

(* There is a new version on the server                                     *)
Release ==
  /\ Running /\ server < MaxVersion /\ server' = server + 1 /\ alone' = {}
  /\ UNCHANGED <<setup, client, run, fresh, faults, works, was, failed, unseen>>

(* Somebody changes something on the machine                                *)
Change ==
  /\ Running /\ works < MaxWork /\ works' = works + 1
  /\ fs' = Work /\ fresh' = {} /\ alone' = {}
  /\ unseen' = [j \in Run |-> unseen[j] \cup {"work"}]
  /\ UNCHANGED <<setup, server, desc, checked, run, faults, was, failed>>

Init ==
  /\ \E s \in Starts :
       /\ server = s.server /\ desc = s.desc /\ fs = s.fs /\ checked = s.checked /\ setup = s.setup
       /\ was = [i \in Run |-> [server |-> server, desc |-> desc, fs |-> fs, checked |-> checked]]
  /\ run = [i \in Run |-> [pc |-> "idle", diff |-> Empty, tries |-> 0, exit |-> "none"]]
  /\ fresh = {} /\ faults = 0 /\ works = 0
  /\ alone = {} /\ failed = [i \in Run |-> {}] /\ unseen = [i \in Run |-> {}]

Next ==
  \/ \E i \in Run : Call(i) \/ ((Program(i) \/ Killed(i)) /\ Noticed(i))
  \/ Release \/ Change

Spec == Init /\ [][Next]_vars
-----------------------------------------------------------------------------
Over(i) == At(i, "over")

(* What a command may leave, and whether it may then say that it has        *)
(* succeeded, when it is called with s where it has found w and nothing     *)
(* comes in its way: rash(1), and ra.sh for what rash(1) does not mention   *)
(* (the hook, and that auto does nothing to a machine whose tripwire is not *)
(* clean).  rash(1) lets only the user who has checked a machine out do     *)
(* anything but trip; ra.sh refuses auto, force and the hook to this user   *)
(* as well, and create to nobody.  rash(1) runs the tripwire only if the    *)
(* command files are correct, and ra.sh always.  Where they differ both are *)
(* in the table.                                                            *)
Meant(w, s) ==
  LET Left(d, f, ok) == [desc |-> d, fs |-> f, checked |-> w.checked, ok |-> ok]
      Owned(c)       == [desc |-> w.desc, fs |-> w.fs, checked |-> c, ok |-> TRUE]
      same    == Left(w.desc, w.fs, TRUE)
      refused == Left(w.desc, w.fs, FALSE)
      updated == Left(w.server, w.server, TRUE)
      Unless(barred) == IF barred THEN {refused} ELSE {}
      Barred(outcomes) ==
        Unless(w.checked # NoOne) \cup (IF w.checked \in {NoOne, s.user} THEN outcomes ELSE {})
  IN  CASE s.mode = "force" -> Barred({updated})
        [] s.mode = "hook"  -> Barred({IF w.desc = w.server /\ ~s.flag THEN same ELSE updated})
        [] s.mode = "auto"  -> Barred({IF w.desc = Absent \/ w.fs # w.desc THEN refused
                                       ELSE IF w.desc = w.server THEN same
                                       ELSE IF Mismatch(s, [from |-> w.fs, to |-> w.server])
                                       THEN Left(w.server, w.fs, FALSE)
                                       ELSE updated})
        [] s.mode = "trip"  -> Unless(w.desc # w.server) \cup (IF w.desc = Absent THEN {} ELSE {same})
        [] s.mode = "create" ->
             Unless(w.checked \notin {NoOne, s.user})
               \cup { Left(d, w.fs, d \notin {Absent, w.fs}) : d \in {w.desc, w.server} }
        [] s.mode = "update" ->
             Barred(UNION { IF d = Absent THEN {refused} ELSE { Left(d, f, TRUE) : f \in {w.fs, d} } :
                              d \in {w.desc, w.server} })
        [] s.mode = "checkout" ->
             Unless(w.checked # NoOne) \cup (IF w.checked # s.user THEN {Owned(s.user)} ELSE {})
        [] s.mode = "checkin" -> IF w.checked = s.user THEN {Owned(NoOne)} ELSE {refused}

Succeeded(i)   == run[i].exit = "0"
Undisturbed(i) == Over(i) /\ i \in alone /\ failed[i] = {}

AsMeant == \A i \in Run : Undisturbed(i) /\ was[i].fs # Mixed =>
  [desc |-> desc, fs |-> fs, checked |-> checked, ok |-> Succeeded(i)] \in Meant(was[i], setup[i])

(* "0 successful, >1 an error occurred" (rash(1)).  That is not so of all   *)
(* failures: "cleanup; exit $?" after a ktcheck or an lapply ends with 0,   *)
(* update forgets that its lapply has failed, and auto passes a ktcheck     *)
(* over.                                                                    *)
Forgotten(mode) ==
  CASE mode \in {"trip", "create"} -> {"dry"}
    [] mode = "update"             -> {"dry", "lapply"}
    [] mode \in {"force", "hook"}  -> {"ktcheck", "lapply"}
    [] mode = "auto"               -> {"ktcheck", "again", "lapply"}
    [] OTHER                       -> {}

(* No other failure passes for a success, nor does a kill; and unless it is *)
(* lapply that has failed, no failure leaves the machine half way           *)
Told == \A i \in Run : Over(i) =>
  /\ Succeeded(i) => failed[i] \subseteq Forgotten(Mode(i))
  /\ i \in alone /\ "lapply" \notin failed[i] => fs \in {was[i].fs, desc}

(* "looping when possible to handle temporary problems": auto, and the hook *)
(* that has the flag file, make up for an lapply that has failed, or say    *)
(* so.  (Without the flag file the hook ends with 0 as soon as ktcheck has  *)
(* nothing new, and with it when a ktcheck fails: "cleanup; exit $?".)      *)
Heals == \A i \in Run :
  /\ Over(i) /\ i \in alone /\ run[i].tries > 0
  /\ \/ Mode(i) = "auto"
     \/ Mode(i) = "hook" /\ setup[i].flag /\ "ktcheck" \notin failed[i]
  => fs = desc \/ run[i].exit = "1"

(* As long as nobody else is about each command does what it should; when   *)
(* something fails, it says so or is one of those that are known not to     *)
RunExact == AsMeant /\ Told /\ Heals

(* What somebody has changed on the machine is removed only by a run that   *)
(* could not know: auto has found it as it should be before, and all have   *)
(* found it not checked out, or by the user who runs an update              *)
WorkSpared ==
  [][ fs = Work /\ fs' # Work =>
        \E i \in Run :
          /\ At(i, "lapply") /\ run'[i] # run[i]
          /\ Mode(i) = "auto" => "work" \in unseen[i]
          /\ \/ checked = NoOne \/ "checkout" \in unseen[i]
             \/ Mode(i) = "update" /\ checked = setup[i].user ]_vars
=============================================================================
