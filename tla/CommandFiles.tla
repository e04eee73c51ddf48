---------------------------- MODULE CommandFiles ----------------------------
(****************************************************************************)
(* Command files: what they mean, and how fsdiff and the other tools read   *)
(* them (transcript_init() and read_kfile() in transcript.c).               *)
(*                                                                          *)
(* A name is a number, the rank of its path; a file has data, of some size, *)
(* and an mtime.  The data of a command file stands for its lines.          *)
(****************************************************************************)
EXTENDS Naturals, Sequences, FiniteSets, SequencesExt

CONSTANTS
  KFile,       \* command files
  Base,        \* the one that the client starts with
  Transcript,
  Special,     \* special files
  Pattern,     \* of excludes
  Data,        \* contents of files; 0 for those of a file that is missing
  Size,        \* [Data -> Nat]
  Lines        \* [Data -> sequences of lines], << >> for transcripts

Name == KFile \cup Transcript

Line == [op : {"k", "p", "n", "s", "x"}, minus : BOOLEAN,
         name : Name \cup Special \cup Pattern]

ASSUME CommandFilesAssumption ==
  /\ KFile \cap Transcript = {} /\ Base \in KFile /\ 0 \in Data /\ Lines[0] = <<>>
  /\ Size \in [Data -> Nat]
  /\ Lines \in [Data -> Seq(Line)]

File   == [data : Data, mtime : Nat]
Absent == [data |-> 0, mtime |-> 0]
-----------------------------------------------------------------------------
(* What the command files on a machine say.                                 *)
(* All their lines, each command file in the place where it is included,    *)
(* down to the depth beyond which there must be a loop                      *)
Text(files) ==
  LET Depth == Cardinality(KFile)
      All[d \in 0..Depth, k \in KFile] ==
        FlattenSeq([i \in DOMAIN Lines[files[k].data] |->
          LET l == Lines[files[k].data][i]
          IN  IF l.op = "k" /\ ~l.minus /\ d < Depth
              THEN <<l>> \o All[d + 1, l.name] ELSE <<l>>])
  IN  All[0, Base]

(* Line i of the text counts: it is no minus line, and no later minus line  *)
(* takes it back                                                            *)
Counts(text, i) ==
  /\ ~text[i].minus
  /\ \A j \in i + 1..Len(text) :
       ~(text[j].minus /\ text[j].op = text[i].op /\ text[j].name = text[i].name)

NamedBy(text, op) == { text[i].name : i \in { j \in DOMAIN text : text[j].op = op /\ Counts(text, j) } }

(* The transcripts, the one that takes precedence first                     *)
Precedence(text) ==
  LET pick == { i \in DOMAIN text : text[i].op \in {"p", "n"} /\ Counts(text, i) }
      order == SetToSortSeq(pick, LAMBDA i, j : i > j)
  IN  [m \in DOMAIN order |-> [kind |-> text[order[m]].op, name |-> text[order[m]].name]]

(* The names that have to be fetched: of minus lines, only command files    *)
Mentioned(text) == { text[i].name : i \in { j \in DOMAIN text :
                       text[j].op \in {"k", "p", "n"} /\ ~text[j].minus } }

(* No command file is included twice                                        *)
NoRepeat(text) ==
  LET ks == { i \in DOMAIN text : text[i].op = "k" }
  IN  \A i, j \in ks : text[i].name # Base /\ (text[i].name = text[j].name => i = j)
-----------------------------------------------------------------------------
VARIABLES
  client,    \* the files of the client
  specialT,  \* special.T of the client; << >> if there is none
  loader     \* transcript_init(): the command files being read and the lists

Frame(f) == [data |-> f.data, at |-> 1]
Advanced(stack) == [stack EXCEPT ![1].at = @ + 1]
AtEnd(frame) == frame.at > Len(Lines[frame.data])
Current(frame) == Lines[frame.data][frame.at]

NotLoading ==
  [state |-> "off", stack |-> <<>>, seen |-> {}, tran |-> <<>>, special |-> {},
   exclude |-> {}]

LoaderType ==
  /\ loader.state \in {"off", "reading", "loaded", "failed"}
  /\ loader.stack \in Seq([data : Data, at : Nat])
  /\ loader.seen \subseteq KFile
  /\ loader.tran \in Seq([kind : {"p", "n", "s"}, name : Transcript \cup {0}])
  /\ loader.special \subseteq Special /\ loader.exclude \subseteq Pattern

Refuse == loader' = [loader EXCEPT !.state = "failed"]

(* transcript_init() opens the command file                                 *)
LoadBegin ==
  /\ loader.state = "off"
  /\ IF client[Base] = Absent THEN Refuse
     ELSE loader' = [NotLoading EXCEPT !.state = "reading", !.seen = {Base},
                                       !.stack = <<Frame(client[Base])>>]

Reading(ops) ==
  /\ loader.state = "reading" /\ loader.stack # <<>> /\ ~AtEnd(Head(loader.stack))
  /\ Current(Head(loader.stack)).op \in ops

(* A command file: not one that has been read, and none can be taken back   *)
LoadInclude ==
  /\ Reading({"k"})
  /\ LET l == Current(Head(loader.stack))
     IN  IF l.minus \/ l.name \in loader.seen \/ client[l.name] = Absent THEN Refuse
         ELSE loader' = [loader EXCEPT !.seen = @ \cup {l.name},
                !.stack = <<Frame(client[l.name])>> \o Advanced(@)]

(* Mutant: a transcript is put after the others                             *)
LoadAfter ==
  /\ Reading({"p", "n"})
  /\ LET l == Current(Head(loader.stack))
         t == [kind |-> l.op, name |-> l.name]
     IN  IF ~l.minus /\ client[l.name] = Absent THEN Refuse
         ELSE loader' = [loader EXCEPT !.stack = Advanced(@),
                !.tran = IF l.minus THEN SelectSeq(@, LAMBDA u : u # t) ELSE @ \o <<t>>]

(* t_new() opens a transcript and puts it before the others, t_remove()     *)
(* takes it out wherever it is                                              *)
LoadTranscript ==
  /\ Reading({"p", "n"})
  /\ LET l == Current(Head(loader.stack))
         t == [kind |-> l.op, name |-> l.name]
     IN  IF ~l.minus /\ client[l.name] = Absent THEN Refuse
         ELSE loader' = [loader EXCEPT !.stack = Advanced(@),
                !.tran = IF l.minus THEN SelectSeq(@, LAMBDA u : u # t) ELSE <<t>> \o @]

LoadListed ==
  /\ Reading({"s", "x"})
  /\ LET l == Current(Head(loader.stack))
         Changed(list) == IF l.minus THEN list \ {l.name} ELSE list \cup {l.name}
     IN  loader' = [loader EXCEPT !.stack = Advanced(@),
            !.special = IF l.op = "s" THEN Changed(@) ELSE @,
            !.exclude = IF l.op = "x" THEN Changed(@) ELSE @]

(* The end of a command file; after the last one, special.T takes           *)
(* precedence over everything else, and fsdiff -A wants a transcript        *)
LoadReturn ==
  /\ loader.state = "reading" /\ loader.stack # <<>> /\ AtEnd(Head(loader.stack))
  /\ LET tran == IF loader.special = {} THEN loader.tran
                 ELSE <<[kind |-> "s", name |-> 0]>> \o loader.tran
     IN  IF Len(loader.stack) > 1 THEN loader' = [loader EXCEPT !.stack = Tail(@)]
         ELSE IF tran = <<>> \/ (loader.special # {} /\ specialT = <<>>) THEN Refuse
         ELSE loader' = [loader EXCEPT !.stack = <<>>, !.state = "loaded", !.tran = tran]

Load == LoadBegin \/ LoadInclude \/ LoadTranscript \/ LoadListed \/ LoadReturn
=============================================================================
