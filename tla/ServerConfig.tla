---------------------------- MODULE ServerConfig ----------------------------
(****************************************************************************)
(* How the child of radmind finds out what a client may have: command_k()   *)
(* looks for the client in the config file and those that it includes,      *)
(* read_kfile() lists what its command file names (command.c).              *)
(*                                                                          *)
(* A file that is missing is not in the domain of "conf" or "kfiles".  The  *)
(* pattern of a line is the set of the client's names that it matches.      *)
(****************************************************************************)
EXTENDS Naturals, Sequences, FiniteSets

CONSTANTS
  ConfFile,   \* config files
  TopConf,    \* the first one, "config"
  KFile,      \* command files
  DirName,    \* the directory part of the name of a command file
  Transcript,
  MaxDepth    \* RADMIND_MAX_INCLUDE_DEPTH

(* The names of a client: that in its certificate, that of the host, its    *)
(* address                                                                  *)
ClientName == {"cn", "host", "addr"}

ConfLine == [op : {"entry", "include", "bad"}, pattern : SUBSET ClientName,
             name : KFile \cup ConfFile]

(* No name is that of a command file in one line and of a transcript in     *)
(* another: access_list does not tell them apart, and a command file that   *)
(* is already on it is not read                                             *)
KLine ==
  { l \in [op : {"k", "p", "s", "bad"}, minus : BOOLEAN, name : KFile \cup Transcript] :
      (l.op = "k" => l.name \in KFile) /\ (l.op = "p" => l.name \in Transcript) }

NoOne     == "nobody"
NoEntry   == [file |-> NoOne, id |-> NoOne]
NoSpecial == [dir |-> "none", id |-> NoOne]

ASSUME ServerConfigAssumption ==
  /\ TopConf \in ConfFile /\ MaxDepth \in Nat
  /\ ConfFile \cap KFile = {} /\ KFile \cap Transcript = {}
  /\ DOMAIN DirName = KFile

VARIABLES
  conf, kfiles, \* the files
  hasCn,    \* remote_cn is set
  finding,  \* "idle", "config", "found", "none", "kfile", "ready" or "failed"
  stack,    \* the files that are open, the last one opened first
  command,  \* command_file
  special,  \* special_dir: a directory and the name of the client
  access    \* access_list

configFiles == <<conf, kfiles>>
lookup      == <<hasCn, finding, stack, command, special, access>>

FirstLineOf(f) == [file |-> f, at |-> 1]
NextLine       == [stack EXCEPT ![1].at = @ + 1]
Top            == stack[1]
-----------------------------------------------------------------------------
(* match_config_entry(): the first name of the client that matches          *)
WhoFor(pattern, cn) ==
  CASE cn /\ "cn" \in pattern -> "cn"
    [] ~(cn /\ "cn" \in pattern) /\ "host" \in pattern -> "host"
    [] ~(cn /\ "cn" \in pattern) /\ "host" \notin pattern /\ "addr" \in pattern -> "addr"
    [] OTHER -> NoOne

Who(pattern) == WhoFor(pattern, hasCn)

ConfigIdle ==
  /\ hasCn = FALSE /\ finding = "idle" /\ stack = <<>>
  /\ command = NoOne /\ special = NoSpecial /\ access = {}

(* command_k( "config", 0 )                                                 *)
ConfigOpen(cn) ==
  /\ hasCn' = cn
  /\ IF TopConf \in DOMAIN conf
     THEN finding' = "config" /\ stack' = <<FirstLineOf(TopConf)>>
     ELSE finding' = "none" /\ stack' = <<>>
  /\ UNCHANGED <<command, special, access>>

(* Mutant: if a file does not list the client, no other is looked at        *)
NotThereEnds == stack' = <<>> /\ finding' = "none"

(* command_k() returns -1: the file that included it is read on             *)
NotThere ==
  /\ stack' = Tail(stack)
  /\ finding' = IF Len(stack) = 1 THEN "none" ELSE finding

Include(l) ==
  IF Len(stack) > MaxDepth THEN NotThere
  ELSE /\ finding' = finding
       /\ stack' = IF Who(l.pattern) # NoOne /\ l.name \in DOMAIN conf
                   THEN <<FirstLineOf(l.name)>> \o NextLine ELSE NextLine

(* special_dir is set before it is known whether the line matches           *)
Entry(l) ==
  /\ special' = [dir |-> DirName[l.name], id |-> Who(l.pattern)]
  /\ IF Who(l.pattern) = NoOne
     THEN stack' = NextLine /\ UNCHANGED <<command, finding>>
     ELSE command' = l.name /\ stack' = <<>> /\ finding' = "found"

(* One turn of the loop in command_k()                                      *)
ConfigLine ==
  /\ finding = "config"
  /\ IF Top.at > Len(conf[Top.file]) THEN NotThere /\ UNCHANGED <<command, special>>
     ELSE LET l == conf[Top.file][Top.at]
          IN  \/ l.op = "bad" /\ stack' = NextLine /\ UNCHANGED <<finding, command, special>>
              \/ l.op = "include" /\ Include(l) /\ UNCHANGED <<command, special>>
              \/ l.op = "entry" /\ Entry(l)
  /\ UNCHANGED <<hasCn, access>>
-----------------------------------------------------------------------------
(* read_kfile( command_file )                                               *)
KOpen ==
  /\ finding = "found"
  /\ IF command \in DOMAIN kfiles
     THEN finding' = "kfile" /\ stack' = <<FirstLineOf(command)>>
     ELSE finding' = "failed" /\ stack' = <<>>
  /\ UNCHANGED <<hasCn, command, special, access>>

KFails == finding' = "failed" /\ stack' = <<>>

Included(name) ==
  IF name \in DOMAIN kfiles
  THEN stack' = <<FirstLineOf(name)>> \o NextLine /\ UNCHANGED finding
  ELSE KFails

(* A line that names a file: a command file is read the first time          *)
Names(l) ==
  /\ access' = access \cup {l.name}
  /\ IF l.op = "k" /\ l.name \notin access THEN Included(l.name)
     ELSE stack' = NextLine /\ UNCHANGED finding

(* One turn of the loop in read_kfile()                                     *)
KFileLine ==
  /\ finding = "kfile"
  /\ IF Top.at > Len(kfiles[Top.file])
     THEN /\ stack' = Tail(stack)
          /\ finding' = IF Len(stack) = 1 THEN "ready" ELSE finding
          /\ access' = access
     ELSE LET l == kfiles[Top.file][Top.at]
          IN  \/ (l.minus \/ l.op = "s")
                 /\ stack' = NextLine /\ UNCHANGED <<finding, access>>
              \/ ~l.minus /\ l.op = "bad" /\ KFails /\ UNCHANGED access
              \/ ~l.minus /\ l.op \in {"k", "p"} /\ Names(l)
  /\ UNCHANGED <<hasCn, command, special>>

ConfigTypeOK ==
  /\ DOMAIN conf \subseteq ConfFile /\ \A f \in DOMAIN conf : conf[f] \in Seq(ConfLine)
  /\ DOMAIN kfiles \subseteq KFile /\ \A f \in DOMAIN kfiles : kfiles[f] \in Seq(KLine)
  /\ hasCn \in BOOLEAN
  /\ finding \in {"idle", "config", "found", "none", "kfile", "ready", "failed"}
  /\ \A n \in DOMAIN stack : stack[n].file \in DOMAIN conf \cup DOMAIN kfiles /\ stack[n].at \in Nat \ {0}
  /\ stack # <<>> <=> finding \in {"config", "kfile"}
  /\ finding = "config" => Len(stack) <= MaxDepth + 1
  /\ command \in KFile \cup {NoOne} /\ special.id \in ClientName \cup {NoOne}
  /\ access \subseteq KFile \cup Transcript
-----------------------------------------------------------------------------
(* What the files say, without an order of steps                            *)

(* What a line says of the client, if "below" is what the files that it     *)
(* may include say                                                          *)
LineSays(cn, below, l) ==
  IF WhoFor(l.pattern, cn) = NoOne THEN NoEntry
  ELSE CASE l.op = "entry" -> [file |-> l.name, id |-> WhoFor(l.pattern, cn)]
         [] l.op = "include" /\ l.name \in DOMAIN below -> below[l.name]
         [] OTHER -> NoEntry

(* The lines at which file f is left, if n levels of includes may follow:   *)
(* an entry for the client, an include that decides, or one too deep; the   *)
(* first of them says what the file says                                    *)
Leaving(cn, n, below, f) ==
  { k \in DOMAIN conf[f] : \/ LineSays(cn, below, conf[f][k]) # NoEntry
                           \/ conf[f][k].op = "include" /\ n = 0 }
FileSays(cn, n, below, f) ==
  LET ends == Leaving(cn, n, below, f)
  IN  IF ends = {} THEN NoEntry
      ELSE LineSays(cn, below, conf[f][CHOOSE k \in ends : \A m \in ends : k <= m])

(* What all files say, with so many levels of includes                      *)
SaidBy(cn) ==
  LET At[n \in 0..MaxDepth] ==
        [f \in DOMAIN conf |-> FileSays(cn, n, IF n = 0 THEN <<>> ELSE At[n - 1], f)]
  IN  At

Decision(cn) == IF TopConf \in DOMAIN conf THEN SaidBy(cn)[MaxDepth][TopConf] ELSE NoEntry

(* All command files that are read for the client: the fewest such that     *)
(* what one of them includes is one of them                                 *)
KClosed(files) ==
  \A f \in files \cap DOMAIN kfiles : \A m \in DOMAIN kfiles[f] :
    kfiles[f][m].op = "k" /\ ~kfiles[f][m].minus => kfiles[f][m].name \in files

KReached(k) ==
  { f \in KFile \cup {k} :
      \A files \in SUBSET (KFile \cup {k}) : k \in files /\ KClosed(files) => f \in files }

KReadable(k) ==
  \A f \in KReached(k) : f \in DOMAIN kfiles /\
    \A m \in DOMAIN kfiles[f] : kfiles[f][m].op = "bad" => kfiles[f][m].minus

KNamed(k) ==
  UNION { { kfiles[f][m].name : m \in { n \in DOMAIN kfiles[f] :
              ~kfiles[f][n].minus /\ kfiles[f][n].op \in {"k", "p"} } } :
            f \in KReached(k) \cap DOMAIN kfiles }

(* The command file and the special files of the client are those of the    *)
(* first entry for it in the text of the config files                       *)
FirstEntryWins ==
  LET d == Decision(hasCn)
  IN  /\ finding \in {"found", "kfile", "ready", "failed"} =>
           d # NoEntry /\ command = d.file /\ special = [dir |-> DirName[d.file], id |-> d.id]
      /\ finding = "none" => d = NoEntry

(* The client may have what its command files name, in all of them, and     *)
(* nothing else; no command file is read that cannot be                     *)
AccessExact ==
  /\ finding = "ready" => access = KNamed(command) /\ KReadable(command)
  /\ finding = "failed" => ~KReadable(command)
  /\ access # {} => access \subseteq KNamed(command)

(* What the server finds out about a client is what the text of its config  *)
(* files and command files says                                             *)
LookupExact == FirstEntryWins /\ AccessExact
=============================================================================
