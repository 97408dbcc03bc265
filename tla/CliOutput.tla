------------------------------- MODULE CliOutput -------------------------------
(***************************************************************************)
(* The command line adapter (apps/cli/src/main.rs): how a command's paths  *)
(* are resolved and compared, the input read and converted, and the        *)
(* document and the report written, each to a temporary file that is       *)
(* synchronized and then renamed.  Several commands may run at once, any   *)
(* step may fail, a command may be killed and the machine may lose power.  *)
(*                                                                         *)
(* A path is [dir, name], with the directory as it is written; a location  *)
(* is a path whose directory is canonical and whose name is no link.  What *)
(* a location holds is a content: nothing, what it held at first, or an    *)
(* output of a command, torn if the bytes did not all reach the disk.      *)
(*                                                                         *)
(* A definition with a fault in its name is the faulty variant of the one  *)
(* after it, which a property is measured against.                         *)
(***************************************************************************)
EXTENDS Naturals, FiniteSets

CONSTANTS
  Processes,     \* the commands
  Commands,      \* the command lines each may be given, [input, output, report]
  Directories,   \* the canonical directory of each spelling of a directory
  Links,         \* where each symbolic link leads
  Originals,     \* the locations that hold a file at first
  Stdio,         \* the path "-"
  NoReport,      \* no --report option
  Nobody         \* the owner of what no command wrote

VARIABLES
  command,   \* each process's command line: never changes
  paths,     \* its resolved paths
  pc,        \* what it does next, or how it ended
  failure,   \* the stage at which it failed, or "none"
  seen,      \* the content it read
  temp,      \* its temporary file
  stdout,    \* what it wrote to standard output
  visible,   \* what each location holds
  possible,  \* what each location may hold after a loss of power
  powerLost

fileVars    == <<visible, possible, powerLost>>
processVars == <<command, paths, pc, failure, seen, temp, stdout>>
vars == <<processVars, fileVars>>

-----------------------------------------------------------------------------
(* Files and paths                                                         *)

\* The locations: every name the command lines use, in every directory.
CommandSet == UNION {Commands[p] : p \in Processes}
PathSet == UNION {{c.input, c.output, c.report} : c \in CommandSet}
Tree == [dir  : {Directories[d] : d \in DOMAIN Directories},
         name : {path.name : path \in PathSet \ {Stdio, NoReport}}]

\* Links lead from locations to locations, what stands for no file is none,
\* and only --report may be left out.
ASSUME TreeAssumption ==
  /\ Stdio \notin Tree /\ NoReport \notin Tree /\ Stdio # NoReport
  /\ Nobody \notin Processes
  /\ \A c \in CommandSet : c.input # NoReport /\ c.output # NoReport
  /\ \A loc \in DOMAIN Links : loc \in Tree /\ Links[loc] \in Tree

Content(owner, kind, whole) == [owner |-> owner, kind |-> kind, whole |-> whole]
Absent   == Content(Nobody, "absent", TRUE)
Original == Content(Nobody, "original", TRUE)
NoTemp    == [kind |-> "none", written |-> FALSE, synced |-> FALSE]
EmptyTemp(kind) == [kind |-> kind, written |-> FALSE, synced |-> FALSE]

Locations == DOMAIN visible

Written(path)  == path.dir \in DOMAIN Directories
Location(path) == [dir |-> Directories[path.dir], name |-> path.name]
Target(loc)    == IF loc \in DOMAIN Links THEN Links[loc] ELSE loc
Exists(loc)    == visible[loc].kind # "absent"

\* symlink_metadata finds the name itself, a link that leads nowhere included.
Found(path) == Written(path)
                 /\ (Location(path) \in DOMAIN Links \/ Exists(Location(path)))

\* canonicalize of a path needs the file at its end, and the canonical parent
\* of a new file needs a directory that is written out: "" is none.
Available(path, mustExist) ==
  path # Stdio =>
     IF mustExist \/ Found(path) THEN Written(path) /\ Exists(Target(Location(path)))
     ELSE Written(path) /\ path.dir # ""

Resolved(path) == IF path \in {Stdio, NoReport} THEN path ELSE Target(Location(path))

ResolvedPaths(c) == [input |-> Resolved(c.input), output |-> Resolved(c.output),
                     report |-> Resolved(c.report)]

\* Two of the paths identify one file.
SameUnresolved(c) == \/ c.output # Stdio /\ c.output \in {c.input, c.report}
                     \/ c.report # NoReport /\ c.report = c.input
SameFile(c) ==
  LET r == ResolvedPaths(c)
  IN \/ r.output # Stdio /\ r.output \in {r.input, r.report}
     \/ r.report # NoReport /\ r.report = r.input

AllAvailable(c) == /\ Available(c.input, TRUE) /\ Available(c.output, FALSE)
                   /\ c.report # NoReport => Available(c.report, FALSE)

-----------------------------------------------------------------------------
(* The command                                                             *)

Init ==
  /\ command \in [Processes -> CommandSet]
  /\ \A p \in Processes : command[p] \in Commands[p]
  /\ paths   = [p \in Processes |-> [input |-> Stdio, output |-> Stdio, report |-> NoReport]]
  /\ pc      = [p \in Processes |-> "resolve"]
  /\ failure = [p \in Processes |-> "none"]
  /\ seen    = [p \in Processes |-> Absent]
  /\ temp    = [p \in Processes |-> NoTemp]
  /\ stdout  = [p \in Processes |-> "none"]
  /\ visible = [loc \in Tree |-> IF loc \in Originals THEN Original ELSE Absent]
  /\ possible = [loc \in DOMAIN visible |-> {visible[loc]}]
  /\ powerLost = FALSE

Goto(p, stage) == pc' = [pc EXCEPT ![p] = stage]

\* An error returns from main: the temporary file, if any, is deleted.
FailKeepingTemp(p) == /\ Goto(p, "failed")
                      /\ failure' = [failure EXCEPT ![p] = pc[p]]
                      /\ UNCHANGED <<command, paths, seen, temp, fileVars>>
Fail(p) == /\ Goto(p, "failed")
           /\ failure' = [failure EXCEPT ![p] = pc[p]]
           /\ temp' = [temp EXCEPT ![p] = NoTemp]
           /\ UNCHANGED <<command, paths, seen, fileVars>>

\* The report may not go to standard output, every path must be available
\* and no two of them may be one file.
Acceptable(c) == c.report # Stdio /\ AllAvailable(c) /\ ~SameFile(c)

Resolve(p) == /\ pc[p] = "resolve" /\ Acceptable(command[p])
              /\ paths' = [paths EXCEPT ![p] = ResolvedPaths(command[p])]
              /\ Goto(p, "read")
              /\ UNCHANGED <<command, failure, seen, temp, stdout, fileVars>>

RejectPaths(p) == /\ pc[p] = "resolve" /\ ~Acceptable(command[p])
                  /\ Fail(p) /\ UNCHANGED stdout

ReadInput(p) == /\ pc[p] = "read"
                /\ seen' = [seen EXCEPT ![p] = IF paths[p].input = Stdio THEN Original
                                               ELSE visible[paths[p].input]]
                /\ Goto(p, "convert")
                /\ UNCHANGED <<command, paths, failure, temp, stdout, fileVars>>

\* Conversion, serialization of the document and of the report.  What another
\* command wrote over the input is no SVG.
Convert(p) == /\ pc[p] = "convert" /\ seen[p] = Original
              /\ Goto(p, "document")
              /\ UNCHANGED <<command, paths, failure, seen, temp, stdout, fileVars>>

\* Whatever the stage, it may fail.
StageFails(p) == /\ pc[p] \in {"read", "convert", "document", "report"}
                 /\ ~(pc[p] = "document" /\ paths[p].output = Stdio)
                 /\ Fail(p) /\ UNCHANGED stdout

-----------------------------------------------------------------------------
(* Writing                                                                 *)

AfterDocument(p) == IF command[p].report = NoReport THEN "done" ELSE "report"
AfterStage(p)    == IF pc[p] = "document" THEN AfterDocument(p) ELSE "done"
Destination(p)   == IF pc[p] = "document" THEN paths[p].output ELSE paths[p].report
ToFile(p)        == pc[p] = "report" \/ (pc[p] = "document" /\ paths[p].output # Stdio)

WriteStdout(p) == /\ pc[p] = "document" /\ paths[p].output = Stdio
                  /\ stdout' = [stdout EXCEPT ![p] = "document"]
                  /\ Goto(p, AfterDocument(p))
                  /\ UNCHANGED <<command, paths, failure, seen, temp, fileVars>>

\* Part of the document may have been written when standard output fails.
StdoutErrorIgnored(p) == /\ pc[p] = "document" /\ paths[p].output = Stdio
                         /\ stdout' = [stdout EXCEPT ![p] = "partial"]
                         /\ Goto(p, AfterDocument(p))
                         /\ UNCHANGED <<command, paths, failure, seen, temp, fileVars>>
StdoutFails(p) == /\ pc[p] = "document" /\ paths[p].output = Stdio
                  /\ stdout' \in {[stdout EXCEPT ![p] = out] : out \in {"none", "partial"}}
                  /\ Fail(p)

CreateTemp(p) == /\ ToFile(p) /\ temp[p] = NoTemp
                 /\ temp' = [temp EXCEPT ![p] = EmptyTemp(pc[p])]
                 /\ UNCHANGED <<command, paths, pc, failure, seen, stdout, fileVars>>

WriteTemp(p) == /\ ToFile(p) /\ temp[p] = EmptyTemp(pc[p])
                /\ temp' = [temp EXCEPT ![p].written = TRUE]
                /\ UNCHANGED <<command, paths, pc, failure, seen, stdout, fileVars>>

SyncUnwritten(p) == /\ ToFile(p) /\ temp[p].kind = pc[p] /\ ~temp[p].synced
                    /\ temp' = [temp EXCEPT ![p].synced = TRUE]
                    /\ UNCHANGED <<command, paths, pc, failure, seen, stdout, fileVars>>
SyncTemp(p) == /\ ToFile(p) /\ temp[p].written /\ ~temp[p].synced
               /\ temp' = [temp EXCEPT ![p].synced = TRUE]
               /\ UNCHANGED <<command, paths, pc, failure, seen, stdout, fileVars>>

\* The rename replaces the destination at once, and reaches the disk later:
\* until then a loss of power may bring back what it held before, or show the
\* new name with bytes that were not synchronized.
PersistUnsynced(p) == ToFile(p) /\ temp[p].written
PersistReady(p) == ToFile(p) /\ temp[p].synced

Persist(p) ==
  /\ PersistReady(p)
  /\ LET whole == Content(p, pc[p], TRUE)
         after == IF temp[p].synced THEN {whole} ELSE {whole, Content(p, pc[p], FALSE)}
     IN /\ visible' = [visible EXCEPT ![Destination(p)] = whole]
        /\ possible' = [possible EXCEPT ![Destination(p)] = @ \cup after]
  /\ temp' = [temp EXCEPT ![p] = NoTemp]
  /\ Goto(p, AfterStage(p))
  /\ UNCHANGED <<command, paths, failure, seen, stdout, powerLost>>

-----------------------------------------------------------------------------
(* The world                                                               *)

Running(p) == pc[p] \notin {"done", "failed", "killed"}

\* A killed command leaves its temporary file behind.
Kill(p) == /\ Running(p)
           /\ Goto(p, "killed")
           /\ UNCHANGED <<command, paths, failure, seen, temp, stdout, fileVars>>

LosePower == /\ ~powerLost
             /\ powerLost' = TRUE
             /\ LET unsettled == {loc \in Locations : possible[loc] # {visible[loc]}}
                IN \E found \in [unsettled -> UNION {possible[loc] : loc \in unsettled}] :
                     /\ \A loc \in unsettled : found[loc] \in possible[loc]
                     /\ visible' = [loc \in Locations |->
                          IF loc \in unsettled THEN found[loc] ELSE visible[loc]]
             /\ possible' = [loc \in Locations |-> {visible'[loc]}]
             /\ pc' = [p \in Processes |-> IF Running(p) THEN "killed" ELSE pc[p]]
             /\ UNCHANGED <<command, paths, failure, seen, temp, stdout>>

Step(p) == \/ Resolve(p) \/ RejectPaths(p) \/ ReadInput(p) \/ Convert(p) \/ StageFails(p)
           \/ WriteStdout(p) \/ StdoutFails(p)
           \/ CreateTemp(p) \/ WriteTemp(p) \/ SyncTemp(p) \/ Persist(p)

Next == LosePower \/ \E p \in Processes : Step(p) \/ Kill(p)

Spec == Init /\ [][Next]_vars

-----------------------------------------------------------------------------
(* Properties                                                              *)

Stages   == {"resolve", "read", "convert", "document", "report"}
Contents == {Absent, Original}
              \cup [owner : Processes, kind : {"document", "report"}, whole : BOOLEAN]
Temps    == {NoTemp} \cup [kind : {"document", "report"}, written : BOOLEAN, synced : BOOLEAN]

\* The type invariant: a temporary file belongs to the write in progress and
\* is written before it is synchronized.
TypeOK ==
  /\ \A p \in Processes : command[p] \in Commands[p]
  /\ pc \in [Processes -> Stages \cup {"done", "failed", "killed"}]
  /\ failure \in [Processes -> Stages \cup {"none"}]
  /\ \A p \in Processes : (failure[p] # "none") <=> (pc[p] = "failed")
  /\ seen \in [Processes -> Contents]
  /\ temp \in [Processes -> Temps]
  /\ \A p \in Processes : /\ temp[p].synced => temp[p].written
                          /\ pc[p] \in Stages => temp[p].kind \in {"none", pc[p]}
  /\ stdout \in [Processes -> {"none", "partial", "document"}]
  /\ \A loc \in Locations : visible[loc] \in possible[loc] /\ possible[loc] \subseteq Contents
  /\ powerLost \in BOOLEAN

\* The outputs of a command that go to a location.
Sent(p, loc) == {kind \in {"document", "report"} :
                   loc = IF kind = "document" THEN paths[p].output ELSE paths[p].report}

\* Atomic writes: whatever was interrupted, a location holds what it held at
\* first or the whole of an output that some command sends there, and a loss of
\* power at any moment would leave no more than that either.
DestinationsWhole ==
  \A loc \in Locations : \A content \in possible[loc] :
    \/ content = IF loc \in Originals THEN Original ELSE Absent
    \/ \E p \in Processes, kind \in {"document", "report"} :
         content = Content(p, kind, TRUE) /\ kind \in Sent(p, loc)

\* A command never overwrites its own input, however its paths are spelled and
\* wherever links lead.
InputKept ==
  \A p \in Processes : paths[p].input # Stdio =>
    \A content \in possible[paths[p].input] : content.owner # p

\* Somebody's document is where the document of p goes: its own, or that of
\* a command that sends an output to the same file.
Committed(p, path, kind) ==
  IF path = Stdio THEN stdout[p] = "document"
  ELSE LET held == visible[path]
       IN \/ held = Content(p, kind, TRUE)
          \/ held.owner \in Processes \ {p} /\ held.kind \in Sent(held.owner, path)

\* A command that ends well, or that comes to write its report, has written its
\* document, and one that ends well its report too; another command may have
\* replaced them since.  Only a loss of power takes them back.
SuccessMeansWritten ==
  \A p \in Processes : ~powerLost =>
    /\ (pc[p] \in {"report", "done"} \/ failure[p] = "report")
         => Committed(p, paths[p].output, "document")
    /\ pc[p] = "done" /\ command[p].report # NoReport
         => Committed(p, paths[p].report, "report")

\* A command that fails leaves no temporary file and no report, and unless it
\* is the report that failed, no document: the report of a command is seen only
\* after its success.
FailureIsClean ==
  \A p \in Processes :
    /\ pc[p] = "failed" => temp[p] = NoTemp
    /\ pc[p] # "done" => \A loc \in Locations : Content(p, "report", TRUE) \notin possible[loc]
    /\ pc[p] = "failed" /\ failure[p] # "report"
         => \A loc \in Locations : \A content \in possible[loc] : content.owner # p

\* A new file named without a directory is a legal output: README.md:37 writes
\* to rfc.excalidraw in the working directory.  A command is rejected only for
\* a report on standard output, a path that leads nowhere, or paths that are
\* one file.
Plain(path) == path \notin {Stdio, NoReport} => Written(path)
LegalPaths(c) == /\ c.report # Stdio
                 /\ Plain(c.input) /\ Plain(c.output) /\ Plain(c.report)
                 /\ Available(c.input, TRUE)
                 /\ \A path \in {c.output, c.report} \ {Stdio, NoReport} :
                      Location(path) \notin DOMAIN Links
                 /\ ~SameFile(c)
NewFileAccepted == [][\A p \in Processes : RejectPaths(p) => ~LegalPaths(command[p])]_vars
=============================================================================
