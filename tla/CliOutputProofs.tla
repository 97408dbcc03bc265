--------------------------- MODULE CliOutputProofs ---------------------------
(***************************************************************************)
(* Theorems of CliOutput.tla, for any number of commands, any command      *)
(* lines, and any directories and links.  The invariant says where each    *)
(* content comes from: a location may hold only what it held at first and  *)
(* whole outputs of commands that have got as far as writing them; and the *)
(* resolved paths of a command are locations apart from one another.       *)
(***************************************************************************)
EXTENDS CliOutput, TLAPS

\* The resolved paths of a command that has any: locations or streams, its
\* outputs apart from each other and from its input.
PathsApart(r) ==
  /\ r.input \in Tree \cup {Stdio} /\ r.output \in Tree \cup {Stdio}
  /\ r.report \in Tree \cup {NoReport}
  /\ r.output # Stdio => r.output # r.input /\ r.output # r.report
  /\ r.report # NoReport => r.report # r.input

PathsKept ==
  /\ paths \in [Processes -> [input  : Tree \cup {Stdio}, output : Tree \cup {Stdio},
                              report : Tree \cup {NoReport}]]
  /\ \A p \in Processes :
       /\ PathsApart(paths[p])
       /\ pc[p] \in Stages \cup {"done"} /\ pc[p] # "resolve" =>
            (command[p].report = NoReport <=> paths[p].report = NoReport)
       /\ pc[p] = "report" => command[p].report # NoReport

\* What a location held at first.
AtFirst(loc) == IF loc \in Originals THEN Original ELSE Absent

\* Command p has got as far as renaming an output.
HasWritten(p, kind) == IF kind = "document"
                       THEN pc[p] \in {"report", "done", "killed"} \/ failure[p] = "report"
                       ELSE pc[p] = "done"

Output(content, loc) ==
  \E p \in Processes, kind \in {"document", "report"} :
    /\ content = Content(p, kind, TRUE)
    /\ loc = (IF kind = "document" THEN paths[p].output ELSE paths[p].report)
    /\ HasWritten(p, kind)

FilesKept ==
  /\ DOMAIN visible = Tree /\ DOMAIN possible = Tree
  /\ \A loc \in Tree : /\ visible[loc] \in possible[loc]
                       /\ \A content \in possible[loc] :
                            content = AtFirst(loc) \/ Output(content, loc)

TempsKept ==
  /\ temp \in [Processes -> Temps]
  /\ \A p \in Processes : /\ temp[p].synced => temp[p].written
                          /\ pc[p] \in Stages => temp[p].kind \in {"none", pc[p]}
                          /\ pc[p] = "failed" => temp[p] = NoTemp
                          /\ pc[p] = "document" /\ paths[p].output = Stdio => temp[p] = NoTemp

StagesKept ==
  /\ \A p \in Processes : command[p] \in Commands[p]
  /\ pc \in [Processes -> Stages \cup {"done", "failed", "killed"}]
  /\ failure \in [Processes -> Stages \cup {"none"}]
  /\ \A p \in Processes : (failure[p] # "none") <=> (pc[p] = "failed")
  /\ seen \in [Processes -> Contents]
  /\ stdout \in [Processes -> {"none", "partial", "document"}]
  /\ powerLost \in BOOLEAN

CommandInv == StagesKept /\ TempsKept /\ PathsKept /\ FilesKept

-----------------------------------------------------------------------------
LEMMA Distinctness ==
  /\ Stdio \notin Tree /\ NoReport \notin Tree /\ Stdio # NoReport
  /\ Nobody \notin Processes
BY TreeAssumption

\* What a location may hold is a content.
LEMMA ContentsTyped ==
  ASSUME FilesKept, NEW loc \in Tree, NEW content \in possible[loc]
  PROVE  content \in Contents
<1>1. content = AtFirst(loc) \/ Output(content, loc)
  BY DEF FilesKept
<1>2. ASSUME NEW p \in Processes, NEW kind \in {"document", "report"}
      PROVE  Content(p, kind, TRUE) \in Contents
  BY DEF Content, Contents
<1>3. AtFirst(loc) \in Contents
  BY DEF AtFirst, Contents
<1>4. QED
  BY <1>1, <1>2, <1>3 DEF Output

\* A path that a command line names and that is available resolves to a
\* location.
LEMMA ResolvesInTree ==
  ASSUME NEW p \in Processes, NEW c \in Commands[p], NEW path \in {c.input, c.output, c.report},
         path # Stdio, path # NoReport, NEW must \in BOOLEAN, Available(path, must)
  PROVE  Resolved(path) \in Tree
<1>1. path.dir \in DOMAIN Directories
  BY DEF Available, Written
<1>2. c \in CommandSet
  BY DEF CommandSet
<1>3. path.name \in {q.name : q \in PathSet \ {Stdio, NoReport}}
  <2>1. path \in PathSet
    BY <1>2 DEF PathSet
  <2>2. QED
    BY <2>1
<1>4. Location(path) \in Tree
  BY <1>1, <1>3 DEF Location, Tree
<1>5. Target(Location(path)) \in Tree
  BY <1>4, TreeAssumption DEF Target
<1>6. QED
  BY <1>5 DEF Resolved

LEMMA AcceptableApart ==
  ASSUME NEW p \in Processes, NEW c \in Commands[p], Acceptable(c)
  PROVE  /\ PathsApart(ResolvedPaths(c))
         /\ ResolvedPaths(c) \in [input  : Tree \cup {Stdio}, output : Tree \cup {Stdio},
                                  report : Tree \cup {NoReport}]
         /\ ResolvedPaths(c).report = NoReport <=> c.report = NoReport
<1> DEFINE r == ResolvedPaths(c)
<1>1. /\ r.input = Resolved(c.input) /\ r.output = Resolved(c.output)
      /\ r.report = Resolved(c.report)
      /\ r = [input |-> r.input, output |-> r.output, report |-> r.report]
  BY DEF ResolvedPaths
<1>a. c.input # NoReport /\ c.output # NoReport
  BY TreeAssumption DEF CommandSet
<1>2. r.input \in Tree \cup {Stdio}
  <2>1. Available(c.input, TRUE)
    BY DEF Acceptable, AllAvailable
  <2>2. CASE c.input = Stdio
    BY <1>1, <2>2 DEF Resolved
  <2>3. CASE c.input # Stdio
    BY <1>1, <1>a, <2>1, <2>3, ResolvesInTree
  <2>4. QED
    BY <2>2, <2>3
<1>3. r.output \in Tree \cup {Stdio}
  <2>1. Available(c.output, FALSE)
    BY DEF Acceptable, AllAvailable
  <2>2. CASE c.output = Stdio
    BY <1>1, <2>2 DEF Resolved
  <2>3. CASE c.output # Stdio
    BY <1>1, <1>a, <2>1, <2>3, ResolvesInTree
  <2>4. QED
    BY <2>2, <2>3
<1>4. /\ r.report \in Tree \cup {NoReport}
      /\ r.report = NoReport <=> c.report = NoReport
  <2>1. CASE c.report = NoReport
    BY <1>1, <2>1 DEF Resolved
  <2>2. CASE c.report # NoReport
    <3>1. Available(c.report, FALSE) /\ c.report # Stdio
      BY <2>2 DEF Acceptable, AllAvailable
    <3>2. r.report \in Tree
      BY <1>1, <2>2, <3>1, ResolvesInTree
    <3>3. QED
      BY <2>2, <3>2, Distinctness
  <2>3. QED
    BY <2>1, <2>2
<1>5. ~SameFile(c)
  BY DEF Acceptable
<1>6. PathsApart(r)
  BY <1>2, <1>3, <1>4, <1>5 DEF PathsApart, SameFile
<1> HIDE DEF r
<1>7. r \in [input  : Tree \cup {Stdio}, output : Tree \cup {Stdio},
             report : Tree \cup {NoReport}]
  BY <1>1, <1>2, <1>3, <1>4
<1>8. QED
  BY <1>4, <1>6, <1>7 DEF r

-----------------------------------------------------------------------------
LEMMA CommandInit == Init => CommandInv
<1> SUFFICES ASSUME Init PROVE CommandInv
  OBVIOUS
<1>1. StagesKept
  BY DEF Init, StagesKept, Stages, Contents
<1>2. TempsKept
  BY DEF Init, TempsKept, Temps, NoTemp
<1>3. PathsKept
  BY Distinctness DEF Init, PathsKept, PathsApart, Stages
<1>4. FilesKept
  BY DEF Init, FilesKept, AtFirst
<1>5. QED
  BY <1>1, <1>2, <1>3, <1>4 DEF CommandInv

\* What the locations hold stands while no file changes and no command loses
\* what it has written.
Further == \A q \in Processes, kind \in {"document", "report"} :
             HasWritten(q, kind) => HasWritten(q, kind)' /\ paths'[q] = paths[q]

LEMMA FilesStand ==
  ASSUME FilesKept, UNCHANGED <<visible, possible>>, Further
  PROVE  FilesKept'
<1>1. ASSUME NEW content, NEW loc, Output(content, loc) PROVE Output(content, loc)'
  <2>1. PICK p \in Processes, kind \in {"document", "report"} :
          /\ content = Content(p, kind, TRUE)
          /\ loc = (IF kind = "document" THEN paths[p].output ELSE paths[p].report)
          /\ HasWritten(p, kind)
    BY <1>1 DEF Output
  <2>2. HasWritten(p, kind)' /\ paths'[p] = paths[p]
    BY <2>1 DEF Further
  <2>3. QED
    BY <2>1, <2>2 DEF Output
<1>2. QED
  BY <1>1 DEF FilesKept, AtFirst

\* A stage of command p ends, well or not.
StageStep(p) == \/ Resolve(p) \/ RejectPaths(p) \/ ReadInput(p) \/ Convert(p)
                \/ StageFails(p) \/ WriteStdout(p) \/ StdoutFails(p)
                \/ CreateTemp(p) \/ WriteTemp(p) \/ SyncTemp(p) \/ Kill(p)

LEMMA StagesNext ==
  ASSUME CommandInv, NEW p \in Processes, StageStep(p)
  PROVE  StagesKept'
<1> USE DEF CommandInv, StagesKept, Stages, fileVars, Goto
<1>1. CASE Resolve(p)
  BY <1>1 DEF Resolve
<1>2. CASE RejectPaths(p)
  BY <1>2 DEF RejectPaths, Fail
<1>3. CASE ReadInput(p)
  <2>1. seen'[p] \in Contents
    <3>1. CASE paths[p].input = Stdio
      BY <1>3, <3>1 DEF ReadInput, Contents
    <3>2. CASE paths[p].input # Stdio
      <4>1. visible[paths[p].input] \in possible[paths[p].input] /\ paths[p].input \in Tree
        BY <3>2 DEF PathsKept, FilesKept
      <4>2. QED
        BY <1>3, <3>2, <4>1, ContentsTyped DEF ReadInput
    <3>3. QED
      BY <3>1, <3>2
  <2>2. seen' \in [Processes -> Contents]
    BY <1>3, <2>1 DEF ReadInput
  <2>3. QED
    BY <1>3, <2>2 DEF ReadInput
<1>4. CASE Convert(p)
  BY <1>4 DEF Convert
<1>5. CASE StageFails(p)
  BY <1>5 DEF StageFails, Fail
<1>6. CASE WriteStdout(p)
  BY <1>6 DEF WriteStdout, AfterDocument
<1>7. CASE StdoutFails(p)
  BY <1>7 DEF StdoutFails, Fail
<1>8. CASE CreateTemp(p)
  BY <1>8 DEF CreateTemp
<1>9. CASE WriteTemp(p)
  BY <1>9 DEF WriteTemp
<1>10. CASE SyncTemp(p)
  BY <1>10 DEF SyncTemp
<1>11. CASE Kill(p)
  BY <1>11 DEF Kill, Running
<1>12. QED
  BY <1>1, <1>2, <1>3, <1>4, <1>5, <1>6, <1>7, <1>8, <1>9, <1>10, <1>11 DEF StageStep

LEMMA TempsNext ==
  ASSUME CommandInv, NEW p \in Processes, StageStep(p)
  PROVE  TempsKept'
<1> USE DEF CommandInv, StagesKept, TempsKept, Stages, Goto, Temps, NoTemp, EmptyTemp
<1>0. ASSUME NEW t \in Temps, temp' = [temp EXCEPT ![p] = t], t.synced => t.written,
             UNCHANGED <<pc, paths>>, pc[p] # "failed", ToFile(p), pc[p] \in Stages => t.kind \in {"none", pc[p]}
      PROVE  TempsKept'
  <2>1. temp' \in [Processes -> Temps]
    BY <1>0
  <2>2. \A q \in Processes : temp'[q] = IF q = p THEN t ELSE temp[q]
    BY <1>0
  <2> HIDE DEF Temps, NoTemp
  <2>3. QED
    BY <1>0, <2>1, <2>2 DEF ToFile
<1>1. CASE Resolve(p)
  <2>1. temp' = temp /\ pc' = [pc EXCEPT ![p] = "read"]
        /\ \A q \in Processes : q # p => paths'[q] = paths[q]
    BY <1>1 DEF Resolve, PathsKept
  <2>2. temp[p].kind = "none"
    BY <1>1 DEF Resolve
  <2>3. QED
    BY <2>1, <2>2
<1>2. CASE RejectPaths(p)
  BY <1>2 DEF RejectPaths, Fail
<1>3. CASE ReadInput(p)
  BY <1>3 DEF ReadInput
<1>4. CASE Convert(p)
  BY <1>4 DEF Convert
<1>5. CASE StageFails(p)
  BY <1>5 DEF StageFails, Fail
<1>6. CASE WriteStdout(p)
  BY <1>6 DEF WriteStdout, AfterDocument
<1>7. CASE StdoutFails(p)
  <2>1. Fail(p)
    BY <1>7 DEF StdoutFails
  <2>2. QED
    BY <2>1 DEF Fail
<1>8. CASE CreateTemp(p)
  <2>1. temp' = [temp EXCEPT ![p] = EmptyTemp(pc[p])] /\ UNCHANGED <<pc, paths>>
    BY <1>8 DEF CreateTemp
  <2>2. pc[p] \in {"document", "report"} /\ ToFile(p)
    BY <1>8 DEF CreateTemp, ToFile
  <2>3. EmptyTemp(pc[p]) \in Temps
    BY <1>8, <2>2 DEF CreateTemp
  <2>4. /\ EmptyTemp(pc[p]).synced => EmptyTemp(pc[p]).written
        /\ EmptyTemp(pc[p]).kind \in {"none", pc[p]}
    BY <1>8, <2>2 DEF CreateTemp
  <2>5. QED
    BY <1>0, <2>1, <2>2, <2>3, <2>4
<1>9. CASE WriteTemp(p)
  <2>1. temp' = [temp EXCEPT ![p] = [temp[p] EXCEPT !.written = TRUE]] /\ UNCHANGED <<pc, paths>>
    BY <1>9 DEF WriteTemp
  <2>2. pc[p] \in {"document", "report"} /\ ToFile(p)
    BY <1>9 DEF WriteTemp, ToFile
  <2>3. [temp[p] EXCEPT !.written = TRUE] \in Temps
    <3>1. temp[p] \in [kind : {"document", "report"}, written : BOOLEAN, synced : BOOLEAN]
      BY <1>9, <2>2 DEF WriteTemp
    <3>2. [temp[p] EXCEPT !.written = TRUE]
            \in [kind : {"document", "report"}, written : BOOLEAN, synced : BOOLEAN]
      BY <3>1
    <3>3. QED
      BY <3>2
  <2>4. /\ [temp[p] EXCEPT !.written = TRUE].synced => [temp[p] EXCEPT !.written = TRUE].written
        /\ [temp[p] EXCEPT !.written = TRUE].kind \in {"none", pc[p]}
    BY <1>9, <2>2 DEF WriteTemp
  <2>5. QED
    BY <1>0, <2>1, <2>2, <2>3, <2>4
<1>10. CASE SyncTemp(p)
  <2>1. temp' = [temp EXCEPT ![p] = [temp[p] EXCEPT !.synced = TRUE]] /\ UNCHANGED <<pc, paths>>
    BY <1>10 DEF SyncTemp
  <2>2. pc[p] \in {"document", "report"} /\ ToFile(p)
    BY <1>10 DEF SyncTemp, ToFile
  <2>3. [temp[p] EXCEPT !.synced = TRUE] \in Temps
    <3>1. temp[p] \in Temps /\ temp[p].written = TRUE
      BY <1>10 DEF SyncTemp
    <3>2. temp[p] # NoTemp
      BY <3>1
    <3>3. temp[p] \in [kind : {"document", "report"}, written : BOOLEAN, synced : BOOLEAN]
      BY <3>1, <3>2
    <3>4. [temp[p] EXCEPT !.synced = TRUE]
            \in [kind : {"document", "report"}, written : BOOLEAN, synced : BOOLEAN]
      BY <3>3
    <3>5. QED
      BY <3>4
  <2>4. /\ [temp[p] EXCEPT !.synced = TRUE].synced => [temp[p] EXCEPT !.synced = TRUE].written
        /\ [temp[p] EXCEPT !.synced = TRUE].kind \in {"none", pc[p]}
    BY <1>10, <2>2 DEF SyncTemp
  <2>5. QED
    BY <1>0, <2>1, <2>2, <2>3, <2>4
<1>11. CASE Kill(p)
  BY <1>11 DEF Kill, Running
<1>12. QED
  BY <1>1, <1>2, <1>3, <1>4, <1>5, <1>6, <1>7, <1>8, <1>9, <1>10, <1>11 DEF StageStep

LEMMA PathsNext ==
  ASSUME CommandInv, NEW p \in Processes, StageStep(p)
  PROVE  PathsKept'
<1> USE DEF CommandInv, StagesKept, PathsKept, Stages, Goto
<1>1. CASE Resolve(p)
  <2>1. command[p] \in Commands[p] /\ Acceptable(command[p])
    BY <1>1 DEF Resolve
  <2>2. /\ PathsApart(ResolvedPaths(command[p]))
        /\ ResolvedPaths(command[p]) \in
             [input : Tree \cup {Stdio}, output : Tree \cup {Stdio}, report : Tree \cup {NoReport}]
        /\ ResolvedPaths(command[p]).report = NoReport <=> command[p].report = NoReport
    BY <2>1, AcceptableApart
  <2>3. /\ paths' = [paths EXCEPT ![p] = ResolvedPaths(command[p])]
        /\ pc' = [pc EXCEPT ![p] = "read"] /\ command' = command
    BY <1>1 DEF Resolve
  <2>4. \A q \in Processes : /\ paths'[q] = IF q = p THEN ResolvedPaths(command[p]) ELSE paths[q]
                             /\ pc'[q] = IF q = p THEN "read" ELSE pc[q]
    BY <2>3
  <2>5. paths' \in [Processes -> [input  : Tree \cup {Stdio}, output : Tree \cup {Stdio},
                                  report : Tree \cup {NoReport}]]
    BY <2>2, <2>3
  <2>6. QED
    BY <2>2, <2>3, <2>4, <2>5
<1>2. CASE RejectPaths(p)
  BY <1>2 DEF RejectPaths, Fail
<1>3. CASE ReadInput(p)
  BY <1>3 DEF ReadInput
<1>4. CASE Convert(p)
  BY <1>4 DEF Convert
<1>5. CASE StageFails(p)
  BY <1>5 DEF StageFails, Fail
<1>6. CASE WriteStdout(p)
  BY <1>6 DEF WriteStdout, AfterDocument
<1>7. CASE StdoutFails(p)
  BY <1>7 DEF StdoutFails, Fail
<1>8. CASE CreateTemp(p)
  BY <1>8 DEF CreateTemp
<1>9. CASE WriteTemp(p)
  BY <1>9 DEF WriteTemp
<1>10. CASE SyncTemp(p)
  BY <1>10 DEF SyncTemp
<1>11. CASE Kill(p)
  BY <1>11 DEF Kill
<1>12. QED
  BY <1>1, <1>2, <1>3, <1>4, <1>5, <1>6, <1>7, <1>8, <1>9, <1>10, <1>11 DEF StageStep

LEMMA FurtherNext ==
  ASSUME CommandInv, NEW p \in Processes, StageStep(p)
  PROVE  Further
<1> USE DEF CommandInv, StagesKept, PathsKept, Stages, Goto, Further, HasWritten
<1>1. CASE Resolve(p)
  BY <1>1 DEF Resolve
<1>2. CASE RejectPaths(p)
  BY <1>2 DEF RejectPaths, Fail
<1>3. CASE ReadInput(p)
  BY <1>3 DEF ReadInput
<1>4. CASE Convert(p)
  BY <1>4 DEF Convert
<1>5. CASE StageFails(p)
  BY <1>5 DEF StageFails, Fail
<1>6. CASE WriteStdout(p)
  BY <1>6 DEF WriteStdout, AfterDocument
<1>7. CASE StdoutFails(p)
  BY <1>7 DEF StdoutFails, Fail
<1>8. CASE CreateTemp(p)
  BY <1>8 DEF CreateTemp
<1>9. CASE WriteTemp(p)
  BY <1>9 DEF WriteTemp
<1>10. CASE SyncTemp(p)
  BY <1>10 DEF SyncTemp
<1>11. CASE Kill(p)
  BY <1>11 DEF Kill, Running
<1>12. QED
  BY <1>1, <1>2, <1>3, <1>4, <1>5, <1>6, <1>7, <1>8, <1>9, <1>10, <1>11 DEF StageStep

\* A rename puts a whole output where the command's path leads.
LEMMA PersistWrites ==
  ASSUME CommandInv, NEW p \in Processes, Persist(p)
  PROVE  /\ pc[p] \in {"document", "report"} /\ Destination(p) \in Tree
         /\ Destination(p) = IF pc[p] = "document" THEN paths[p].output ELSE paths[p].report
         /\ visible' = [visible EXCEPT ![Destination(p)] = Content(p, pc[p], TRUE)]
         /\ possible' = [possible EXCEPT ![Destination(p)] = @ \cup {Content(p, pc[p], TRUE)}]
         /\ pc' = [pc EXCEPT ![p] = AfterStage(p)] /\ temp' = [temp EXCEPT ![p] = NoTemp]
         /\ UNCHANGED <<command, paths, failure, seen, stdout, powerLost>>
<1>1. ToFile(p) /\ temp[p].synced
  BY DEF Persist, PersistReady
<1>2. pc[p] \in {"document", "report"} /\ (pc[p] = "document" => paths[p].output # Stdio)
  BY <1>1 DEF ToFile
<1>3. pc[p] = "report" => paths[p].report # NoReport
  BY DEF CommandInv, PathsKept, Stages
<1>4. Destination(p) \in Tree
  BY <1>2, <1>3 DEF Destination, CommandInv, PathsKept
<1>5. QED
  BY <1>1, <1>2, <1>4 DEF Persist, Destination, Goto

LEMMA PersistKeeps ==
  ASSUME CommandInv, NEW p \in Processes, Persist(p)
  PROVE  CommandInv'
<1>1. /\ pc[p] \in {"document", "report"} /\ Destination(p) \in Tree
      /\ Destination(p) = IF pc[p] = "document" THEN paths[p].output ELSE paths[p].report
      /\ visible' = [visible EXCEPT ![Destination(p)] = Content(p, pc[p], TRUE)]
      /\ possible' = [possible EXCEPT ![Destination(p)] = @ \cup {Content(p, pc[p], TRUE)}]
      /\ pc' = [pc EXCEPT ![p] = AfterStage(p)] /\ temp' = [temp EXCEPT ![p] = NoTemp]
      /\ UNCHANGED <<command, paths, failure, seen, stdout, powerLost>>
  BY PersistWrites
<1>2. /\ AfterStage(p) = IF pc[p] = "document" /\ command[p].report # NoReport
                         THEN "report" ELSE "done"
      /\ AfterStage(p) \in {"report", "done"}
  BY <1>1 DEF AfterStage, AfterDocument
<1>3. \A q \in Processes : pc'[q] = IF q = p THEN AfterStage(p) ELSE pc[q]
  BY <1>1 DEF CommandInv, StagesKept
<1>4. StagesKept'
  BY <1>1, <1>2, <1>3 DEF CommandInv, StagesKept, Stages
<1>5. TempsKept'
  <2>1. temp' \in [Processes -> Temps] /\ NoTemp \in Temps
    BY <1>1 DEF CommandInv, TempsKept, Temps
  <2>2. \A q \in Processes : temp'[q] = IF q = p THEN NoTemp ELSE temp[q]
    BY <1>1 DEF CommandInv, TempsKept
  <2>3. NoTemp.kind = "none" /\ ~NoTemp.synced
    BY DEF NoTemp
  <2>4. QED
    BY <1>1, <1>2, <1>3, <2>1, <2>2, <2>3 DEF CommandInv, TempsKept
<1>6. PathsKept'
  BY <1>1, <1>2, <1>3 DEF CommandInv, PathsKept, Stages
<1>7. ASSUME NEW content, NEW loc, Output(content, loc) PROVE Output(content, loc)'
  <2>1. PICK q \in Processes, kind \in {"document", "report"} :
          /\ content = Content(q, kind, TRUE)
          /\ loc = (IF kind = "document" THEN paths[q].output ELSE paths[q].report)
          /\ HasWritten(q, kind)
    BY <1>7 DEF Output
  <2>2. HasWritten(q, kind)'
    BY <1>1, <1>2, <1>3, <2>1 DEF HasWritten
  <2>3. QED
    BY <1>1, <2>1, <2>2 DEF Output
<1>8. ASSUME NEW k, NEW l, k = pc[p], l = Destination(p)
      PROVE  Output(Content(p, k, TRUE), l)'
  <2>1. k \in {"document", "report"}
    BY <1>1, <1>8
  <2>2. l = IF k = "document" THEN paths'[p].output ELSE paths'[p].report
    BY <1>1, <1>8
  <2>3. HasWritten(p, k)'
    BY <1>1, <1>2, <1>3, <1>8 DEF HasWritten
  <2>4. QED
    BY <2>1, <2>2, <2>3 DEF Output, Content
<1>9. FilesKept'
  <2>1. ASSUME NEW k, NEW l, k = pc[p], l = Destination(p)
        PROVE  FilesKept'
    <3> DEFINE new == Content(p, k, TRUE)
    <3>1. /\ DOMAIN visible' = Tree /\ DOMAIN possible' = Tree
          /\ \A loc \in Tree :
               /\ visible'[loc] = IF loc = l THEN new ELSE visible[loc]
               /\ possible'[loc] = IF loc = l THEN possible[loc] \cup {new} ELSE possible[loc]
      BY <1>1, <2>1 DEF CommandInv, FilesKept
    <3>2. Output(new, l)'
      BY <1>8, <2>1
    <3> HIDE DEF new
    <3>3. ASSUME NEW loc \in Tree
          PROVE  /\ visible'[loc] \in possible'[loc]
                 /\ \A content \in possible'[loc] :
                      content = AtFirst(loc) \/ Output(content, loc)'
      <4>1. /\ visible[loc] \in possible[loc]
            /\ \A content \in possible[loc] : content = AtFirst(loc) \/ Output(content, loc)
        BY DEF CommandInv, FilesKept
      <4>2. CASE loc = l
        BY <1>7, <3>1, <3>2, <4>1, <4>2
      <4>3. CASE loc # l
        BY <1>7, <3>1, <4>1, <4>3
      <4>4. QED
        BY <4>2, <4>3
    <3>4. QED
      BY <3>1, <3>3 DEF FilesKept, AtFirst
  <2>2. QED
    BY <2>1
<1>10. QED
  BY <1>4, <1>5, <1>6, <1>9 DEF CommandInv

\* A loss of power leaves at each location something it might hold.
LEMMA LosePowerKeeps == ASSUME CommandInv, LosePower PROVE CommandInv'
<1>1. /\ UNCHANGED <<command, paths, failure, seen, temp, stdout>> /\ powerLost' = TRUE
      /\ pc' = [q \in Processes |-> IF Running(q) THEN "killed" ELSE pc[q]]
      /\ possible' = [loc \in Tree |-> {visible'[loc]}]
  BY DEF LosePower, CommandInv, FilesKept, Locations
<1>2. DOMAIN visible' = Tree /\ \A loc \in Tree : visible'[loc] \in possible[loc]
  BY DEF LosePower, CommandInv, FilesKept, Locations
<1>3. StagesKept'
  BY <1>1 DEF CommandInv, StagesKept, Running
<1>4. TempsKept'
  BY <1>1 DEF CommandInv, TempsKept, StagesKept, Stages, Running
<1>5. PathsKept'
  BY <1>1 DEF CommandInv, PathsKept, StagesKept, Stages, Running
<1>6. ASSUME NEW content, NEW loc, Output(content, loc) PROVE Output(content, loc)'
  <2>1. PICK q \in Processes, kind \in {"document", "report"} :
          /\ content = Content(q, kind, TRUE)
          /\ loc = (IF kind = "document" THEN paths[q].output ELSE paths[q].report)
          /\ HasWritten(q, kind)
    BY <1>6 DEF Output
  <2>2. HasWritten(q, kind)'
    BY <1>1, <2>1 DEF HasWritten, Running
  <2>3. QED
    BY <1>1, <2>1, <2>2 DEF Output
<1>7. FilesKept'
  BY <1>1, <1>2, <1>6 DEF CommandInv, FilesKept, AtFirst
<1>8. QED
  BY <1>3, <1>4, <1>5, <1>7 DEF CommandInv

LEMMA CommandNext == ASSUME CommandInv, [Next]_vars PROVE CommandInv'
<1>1. CASE UNCHANGED vars
  <2>1. Further
    BY <1>1 DEF Further, HasWritten, vars, processVars
  <2>2. FilesKept'
    BY <1>1, <2>1, FilesStand DEF CommandInv, vars, fileVars
  <2>3. StagesKept' /\ TempsKept' /\ PathsKept'
    BY <1>1 DEF CommandInv, StagesKept, TempsKept, PathsKept, vars, processVars, fileVars
  <2>4. QED
    BY <2>2, <2>3 DEF CommandInv
<1>2. CASE LosePower
  BY <1>2, LosePowerKeeps
<1>3. ASSUME NEW p \in Processes, Persist(p)
      PROVE  CommandInv'
  BY <1>3, PersistKeeps
<1>4. ASSUME NEW p \in Processes, StageStep(p)
      PROVE  CommandInv'
  <2>1. UNCHANGED <<visible, possible>>
    BY <1>4 DEF StageStep, Resolve, RejectPaths, ReadInput, Convert, StageFails, WriteStdout,
         StdoutFails, CreateTemp, WriteTemp, SyncTemp, Kill, Fail, fileVars
  <2>2. FilesKept'
    BY <1>4, <2>1, FurtherNext, FilesStand DEF CommandInv
  <2>3. QED
    BY <1>4, <2>2, StagesNext, TempsNext, PathsNext DEF CommandInv
<1>5. QED
  BY <1>1, <1>2, <1>3, <1>4 DEF Next, Step, StageStep

\* Where every content comes from, and which paths a command has.
THEOREM CommandInvariant == Spec => []CommandInv
<1>1. Init => CommandInv
  BY CommandInit
<1>2. CommandInv /\ [Next]_vars => CommandInv'
  BY CommandNext
<1>3. QED
  BY <1>1, <1>2, PTL DEF Spec

-----------------------------------------------------------------------------
\* The variables keep their types, and a temporary file belongs to the write
\* in progress and is written before it is synchronized.
THEOREM CommandTyped == Spec => []TypeOK
<1>1. CommandInv => TypeOK
  BY ContentsTyped DEF CommandInv, StagesKept, TempsKept, FilesKept, TypeOK, Locations
<1>2. QED
  BY <1>1, CommandInvariant, PTL

\* Atomic writes: a location holds what it held at first or the whole of an
\* output that some command sends there, also after a loss of power.
THEOREM WritesAtomic == Spec => []DestinationsWhole
<1>1. ASSUME CommandInv PROVE DestinationsWhole
  <2>1. ASSUME NEW loc, NEW content, Output(content, loc)
        PROVE  \E p \in Processes, kind \in {"document", "report"} :
                 content = Content(p, kind, TRUE) /\ kind \in Sent(p, loc)
    <3>1. PICK p \in Processes, kind \in {"document", "report"} :
            /\ content = Content(p, kind, TRUE)
            /\ loc = (IF kind = "document" THEN paths[p].output ELSE paths[p].report)
      BY <2>1 DEF Output
    <3>2. kind \in Sent(p, loc)
      BY <3>1 DEF Sent
    <3>3. QED
      BY <3>1, <3>2
  <2>2. \A loc \in Locations : \A content \in possible[loc] :
          content = AtFirst(loc) \/ Output(content, loc)
    BY <1>1 DEF CommandInv, FilesKept, Locations
  <2>3. QED
    BY <2>1, <2>2 DEF DestinationsWhole, AtFirst
<1>2. QED
  BY <1>1, CommandInvariant, PTL

\* No command overwrites its own input, however its paths are spelled.
THEOREM InputNeverOverwritten == Spec => []InputKept
<1>1. CommandInv => InputKept
  <2> SUFFICES ASSUME CommandInv, NEW p \in Processes, paths[p].input # Stdio,
                      NEW content \in possible[paths[p].input]
               PROVE  content.owner # p
    BY DEF InputKept
  <2>1. PathsApart(paths[p]) /\ paths[p].input \in Tree
    BY DEF CommandInv, PathsKept
  <2>2. CASE content = AtFirst(paths[p].input)
    BY <2>2, Distinctness DEF AtFirst, Original, Absent, Content
  <2>3. CASE Output(content, paths[p].input)
    <3>1. PICK q \in Processes, kind \in {"document", "report"} :
            /\ content = Content(q, kind, TRUE)
            /\ paths[p].input = (IF kind = "document" THEN paths[q].output ELSE paths[q].report)
      BY <2>3 DEF Output
    <3>2. content.owner = q
      BY <3>1 DEF Content
    <3>3. q # p
      BY <2>1, <3>1, Distinctness DEF PathsApart
    <3>4. QED
      BY <3>2, <3>3
  <2>4. QED
    BY <2>1, <2>2, <2>3 DEF CommandInv, FilesKept
<1>2. QED
  BY <1>1, CommandInvariant, PTL

\* A command that fails leaves no temporary file and no report, and a document
\* only if it is the report that failed.
THEOREM FailuresClean == Spec => []FailureIsClean
<1>1. CommandInv => FailureIsClean
  <2> SUFFICES ASSUME CommandInv, NEW p \in Processes
               PROVE  /\ pc[p] = "failed" => temp[p] = NoTemp
                      /\ pc[p] # "done" =>
                           \A loc \in Tree : Content(p, "report", TRUE) \notin possible[loc]
                      /\ pc[p] = "failed" /\ failure[p] # "report" =>
                           \A loc \in Tree : \A content \in possible[loc] : content.owner # p
    BY DEF FailureIsClean, Locations, CommandInv, FilesKept
  <2>1. pc[p] = "failed" => temp[p] = NoTemp
    BY DEF CommandInv, TempsKept
  <2>2. ASSUME NEW loc \in Tree, NEW content \in possible[loc], content.owner = p
        PROVE  \E kind \in {"document", "report"} :
                 content = Content(p, kind, TRUE) /\ HasWritten(p, kind)
    <3>1. content # AtFirst(loc)
      BY <2>2, Distinctness DEF AtFirst, Original, Absent, Content
    <3>2. Output(content, loc)
      BY <3>1 DEF CommandInv, FilesKept
    <3>3. PICK q \in Processes, kind \in {"document", "report"} :
            content = Content(q, kind, TRUE) /\ HasWritten(q, kind)
      BY <3>2 DEF Output
    <3>4. q = p
      BY <2>2, <3>3 DEF Content
    <3>5. QED
      BY <3>3, <3>4
  <2>3. Content(p, "report", TRUE).owner = p /\ Content(p, "report", TRUE).kind = "report"
    BY DEF Content
  <2>4. \A kind : Content(p, kind, TRUE).kind = kind
    BY DEF Content
  <2>5. pc[p] # "done" => \A loc \in Tree : Content(p, "report", TRUE) \notin possible[loc]
    BY <2>2, <2>3, <2>4 DEF HasWritten
  <2>6. pc[p] = "failed" /\ failure[p] # "report" =>
          \A loc \in Tree : \A content \in possible[loc] : content.owner # p
    BY <2>2 DEF HasWritten
  <2>7. QED
    BY <2>1, <2>5, <2>6
<1>2. QED
  BY <1>1, CommandInvariant, PTL

-----------------------------------------------------------------------------
\* What was committed stays while no file changes: the owner of what a
\* location holds has its paths.
LEMMA CommittedStands ==
  ASSUME CommandInv, Further, visible' = visible,
         NEW p \in Processes, NEW path \in Tree \cup {Stdio}, NEW kind,
         stdout[p] = "document" => stdout'[p] = "document",
         Committed(p, path, kind)
  PROVE  Committed(p, path, kind)'
<1>1. CASE path = Stdio
  BY <1>1 DEF Committed
<1>2. CASE path # Stdio
  <2> DEFINE held == visible[path]
  <2>1. held \in possible[path] /\ path \in Tree
    BY <1>2 DEF CommandInv, FilesKept
  <2>2. CASE held = Content(p, kind, TRUE)
    BY <1>2, <2>2 DEF Committed
  <2>3. CASE held.owner \in Processes \ {p} /\ held.kind \in Sent(held.owner, path)
    <3>1. held # AtFirst(path)
      BY <2>3, Distinctness DEF AtFirst, Original, Absent, Content
    <3>2. Output(held, path)
      BY <2>1, <3>1 DEF CommandInv, FilesKept
    <3>3. PICK q \in Processes, k \in {"document", "report"} :
            held = Content(q, k, TRUE) /\ HasWritten(q, k)
      BY <3>2 DEF Output
    <3>4. held.owner = q
      BY <3>3 DEF Content
    <3>5. paths'[q] = paths[q]
      BY <3>3 DEF Further
    <3>6. visible'[path] = held
      OBVIOUS
    <3> HIDE DEF held
    <3>7. held.kind \in Sent(q, path)'
      BY <2>3, <3>4, <3>5 DEF Sent
    <3>8. QED
      BY <1>2, <2>3, <3>4, <3>6, <3>7 DEF Committed
  <2>4. QED
    BY <1>2, <2>2, <2>3 DEF Committed
<1>3. QED
  BY <1>1, <1>2

\* A command owes its document, respectively its report.
OwesDocument(p) == pc[p] \in {"report", "done"} \/ failure[p] = "report"
OwesReport(p)   == pc[p] = "done" /\ command[p].report # NoReport

LEMMA SuccessStage ==
  ASSUME CommandInv, SuccessMeansWritten, ~powerLost, NEW q \in Processes, StageStep(q),
         NEW p \in Processes, OwesDocument(p)'
  PROVE  \/ OwesDocument(p) /\ stdout'[p] = stdout[p]
         \/ paths[p].output = Stdio /\ stdout'[p] = "document"
<1> USE DEF CommandInv, StagesKept, PathsKept, OwesDocument, Goto, Stages
<1>1. CASE Resolve(q)
  BY <1>1 DEF Resolve
<1>2. CASE RejectPaths(q)
  BY <1>2 DEF RejectPaths, Fail
<1>3. CASE ReadInput(q)
  BY <1>3 DEF ReadInput
<1>4. CASE Convert(q)
  BY <1>4 DEF Convert
<1>5. CASE StageFails(q)
  BY <1>5 DEF StageFails, Fail
<1>6. CASE WriteStdout(q)
  BY <1>6 DEF WriteStdout
<1>7. CASE StdoutFails(q)
  BY <1>7 DEF StdoutFails, Fail
<1>8. CASE CreateTemp(q)
  BY <1>8 DEF CreateTemp
<1>9. CASE WriteTemp(q)
  BY <1>9 DEF WriteTemp
<1>10. CASE SyncTemp(q)
  BY <1>10 DEF SyncTemp
<1>11. CASE Kill(q)
  BY <1>11 DEF Kill
<1>12. QED
  BY <1>1, <1>2, <1>3, <1>4, <1>5, <1>6, <1>7, <1>8, <1>9, <1>10, <1>11 DEF StageStep

LEMMA SuccessStageStep ==
  ASSUME CommandInv, SuccessMeansWritten, ~powerLost, NEW q \in Processes, StageStep(q),
         NEW p \in Processes
  PROVE  /\ OwesDocument(p)' => Committed(p, paths[p].output, "document")'
         /\ OwesReport(p)' => Committed(p, paths[p].report, "report")'
<1>1. visible' = visible /\ command' = command
  BY DEF StageStep, Resolve, RejectPaths, ReadInput, Convert, StageFails, WriteStdout,
         StdoutFails, CreateTemp, WriteTemp, SyncTemp, Kill, Fail, fileVars
<1>2. Further
  BY FurtherNext
<1>3. OwesReport(p)' => OwesReport(p)
  BY DEF StageStep, Resolve, RejectPaths, ReadInput, Convert, StageFails, WriteStdout,
         StdoutFails, CreateTemp, WriteTemp, SyncTemp, Kill, Fail, Goto, AfterDocument,
         OwesReport, CommandInv, StagesKept, Stages
<1>4. OwesReport(p) => OwesDocument(p)
  BY DEF OwesReport, OwesDocument
<1>5. OwesDocument(p) => paths'[p] = paths[p]
  BY <1>2 DEF OwesDocument, Further, HasWritten
<1>6. paths[p].output \in Tree \cup {Stdio} /\ paths[p].report \in Tree \cup {NoReport}
  BY DEF CommandInv, PathsKept
<1>7. ASSUME OwesDocument(p)', NEW o, o = paths'[p].output
      PROVE  Committed(p, o, "document")'
  <2>1. CASE OwesDocument(p) /\ stdout'[p] = stdout[p]
    <3>1. o = paths[p].output
      BY <1>5, <1>7, <2>1
    <3>2. Committed(p, o, "document")
      BY <2>1, <3>1 DEF SuccessMeansWritten, OwesDocument
    <3>3. QED
      BY <1>1, <1>2, <1>6, <2>1, <3>1, <3>2, CommittedStands
  <2>2. CASE paths[p].output = Stdio /\ stdout'[p] = "document" /\ OwesDocument(p)
    BY <1>5, <1>7, <2>2 DEF Committed
  <2>3. CASE paths[p].output = Stdio /\ stdout'[p] = "document" /\ ~OwesDocument(p)
    <3>1. paths'[p] = paths[p]
      BY <1>7, <2>3 DEF StageStep, Resolve, RejectPaths, ReadInput, Convert, StageFails,
           WriteStdout, StdoutFails, CreateTemp, WriteTemp, SyncTemp, Kill, Fail, Goto,
           OwesDocument, CommandInv, StagesKept, PathsKept, Stages
    <3>2. QED
      BY <1>7, <2>3, <3>1 DEF Committed
  <2>4. QED
    BY <1>7, <2>1, <2>2, <2>3, SuccessStage
<1>8. ASSUME OwesReport(p)', NEW o, o = paths'[p].report
      PROVE  Committed(p, o, "report")'
  <2>1. OwesReport(p) /\ o = paths[p].report
    BY <1>3, <1>4, <1>5, <1>8
  <2>2. Committed(p, o, "report")
    BY <2>1 DEF SuccessMeansWritten, OwesReport
  <2>3. o \in Tree
    BY <1>6, <2>1 DEF OwesReport, CommandInv, PathsKept, Stages
  <2>4. o # Stdio
    BY <2>3, Distinctness
  <2>5. Committed(p, o, "report")'
    <3>1. stdout[p] = "document" => stdout'[p] = "document"
      BY <2>1 DEF OwesReport, StageStep, Resolve, RejectPaths, ReadInput, Convert, StageFails,
           WriteStdout, StdoutFails, CreateTemp, WriteTemp, SyncTemp, Kill, Fail, CommandInv,
           StagesKept
    <3>2. QED
      BY <1>1, <1>2, <2>2, <2>3, <3>1, CommittedStands
  <2>6. QED
    BY <2>5
<1>9. QED
  BY <1>7, <1>8

LEMMA SuccessPersist ==
  ASSUME CommandInv, SuccessMeansWritten, ~powerLost, NEW q \in Processes, Persist(q),
         NEW p \in Processes
  PROVE  /\ OwesDocument(p)' => Committed(p, paths[p].output, "document")'
         /\ OwesReport(p)' => Committed(p, paths[p].report, "report")'
<1>1. /\ pc[q] \in {"document", "report"} /\ Destination(q) \in Tree
      /\ Destination(q) = IF pc[q] = "document" THEN paths[q].output ELSE paths[q].report
      /\ visible' = [visible EXCEPT ![Destination(q)] = Content(q, pc[q], TRUE)]
      /\ pc' = [pc EXCEPT ![q] = AfterStage(q)]
      /\ UNCHANGED <<command, paths, failure, seen, stdout, powerLost>>
  BY PersistWrites
<1>2. /\ \A r \in Processes : pc'[r] = IF r = q THEN AfterStage(q) ELSE pc[r]
      /\ AfterStage(q) = IF pc[q] = "document" /\ command[q].report # NoReport
                         THEN "report" ELSE "done"
  BY <1>1 DEF CommandInv, StagesKept, AfterStage, AfterDocument
<1>3. \A loc \in Tree : visible'[loc] = IF loc = Destination(q) THEN Content(q, pc[q], TRUE)
                                        ELSE visible[loc]
  BY <1>1 DEF CommandInv, FilesKept
<1>4. /\ paths[p].output \in Tree \cup {Stdio} /\ paths[p].report \in Tree \cup {NoReport}
      /\ paths[p].output # Stdio => paths[p].output # paths[p].report
      /\ pc[p] = "document" => (command[p].report = NoReport <=> paths[p].report = NoReport)
      /\ pc[p] = "done" => (command[p].report = NoReport <=> paths[p].report = NoReport)
      /\ pc[p] = "report" => paths[p].report # NoReport
  BY DEF CommandInv, PathsKept, PathsApart, Stages
<1>5. \A k : Content(q, k, TRUE).owner = q /\ Content(q, k, TRUE).kind = k
  BY DEF Content
<1>6. ASSUME NEW path \in Tree \cup {Stdio}, NEW kind, Committed(p, path, kind),
             path = Destination(q) /\ q = p => pc[q] = kind
      PROVE  Committed(p, path, kind)'
  <2>1. CASE path = Stdio
    BY <1>1, <1>6, <2>1 DEF Committed
  <2>2. CASE path # Stdio /\ path # Destination(q)
    <3>1. visible'[path] = visible[path]
      BY <1>3, <2>2
    <3>2. \A r : Sent(r, path)' = Sent(r, path)
      BY <1>1 DEF Sent
    <3>3. QED
      BY <1>6, <2>2, <3>1, <3>2 DEF Committed
  <2>3. CASE path # Stdio /\ path = Destination(q)
    <3>1. visible'[path] = Content(q, pc[q], TRUE)
      BY <1>1, <1>3, <2>3
    <3>2. pc[q] \in Sent(q, path)'
      BY <1>1, <2>3 DEF Sent
    <3>3. CASE q = p
      BY <1>6, <2>3, <3>1, <3>3 DEF Committed
    <3>4. CASE q # p
      BY <1>5, <2>3, <3>1, <3>2, <3>4 DEF Committed
    <3>5. QED
      BY <3>3, <3>4
  <2>4. QED
    BY <2>1, <2>2, <2>3
<1>7. ASSUME OwesDocument(p)', NEW o, o = paths[p].output
      PROVE  Committed(p, o, "document")'
  <2>1. CASE q = p /\ pc[p] = "document"
    <3>1. o = Destination(q) /\ visible'[o] = Content(q, pc[q], TRUE)
      BY <1>1, <1>3, <1>7, <2>1
    <3>2. o # Stdio
      BY <1>1, <3>1, Distinctness
    <3>3. QED
      BY <2>1, <3>1, <3>2 DEF Committed
  <2>2. CASE ~(q = p /\ pc[p] = "document")
    <3>1. OwesDocument(p)
      BY <1>1, <1>2, <1>7, <2>2 DEF OwesDocument
    <3>2. Committed(p, o, "document")
      BY <1>7, <3>1 DEF SuccessMeansWritten, OwesDocument
    <3>3. o = Destination(q) /\ q = p => pc[q] = "document"
      BY <1>1, <1>4, <1>7, Distinctness
    <3>4. QED
      BY <1>4, <1>6, <1>7, <3>2, <3>3
  <2>3. QED
    BY <2>1, <2>2
<1>8. ASSUME OwesReport(p)', NEW o, o = paths[p].report
      PROVE  Committed(p, o, "report")'
  <2>1. CASE q = p
    <3>1. pc[p] = "report"
      BY <1>1, <1>2, <1>8, <2>1 DEF OwesReport
    <3>2. o = Destination(q) /\ visible'[o] = Content(q, pc[q], TRUE)
      BY <1>1, <1>3, <1>8, <2>1, <3>1
    <3>3. o # Stdio
      BY <1>1, <3>2, Distinctness
    <3>4. QED
      BY <2>1, <3>1, <3>2, <3>3 DEF Committed
  <2>2. CASE q # p
    <3>1. OwesReport(p)
      BY <1>1, <1>2, <1>8, <2>2 DEF OwesReport
    <3>2. Committed(p, o, "report") /\ o \in Tree
      BY <1>4, <1>8, <3>1 DEF SuccessMeansWritten, OwesReport
    <3>3. QED
      BY <1>6, <2>2, <3>2
  <2>3. QED
    BY <2>1, <2>2
<1>9. QED
  BY <1>1, <1>7, <1>8

\* A command that ends well has written its document, and its report too, while
\* no power is lost.
THEOREM SuccessWritten == Spec => []SuccessMeansWritten
<1>1. Init => SuccessMeansWritten
  BY DEF Init, SuccessMeansWritten
<1>2. CommandInv /\ SuccessMeansWritten /\ [Next]_vars => SuccessMeansWritten'
  <2> SUFFICES ASSUME CommandInv, SuccessMeansWritten, [Next]_vars, ~powerLost',
                      NEW p \in Processes
               PROVE  /\ OwesDocument(p)' => Committed(p, paths[p].output, "document")'
                      /\ OwesReport(p)' => Committed(p, paths[p].report, "report")'
    BY DEF SuccessMeansWritten, OwesDocument, OwesReport
  <2>1. CASE UNCHANGED vars
    BY <2>1 DEF SuccessMeansWritten, OwesDocument, OwesReport, Committed, Sent, vars,
         processVars, fileVars
  <2>2. CASE LosePower
    BY <2>2 DEF LosePower
  <2>3. ASSUME NEW q \in Processes, Persist(q)
        PROVE  /\ OwesDocument(p)' => Committed(p, paths[p].output, "document")'
               /\ OwesReport(p)' => Committed(p, paths[p].report, "report")'
    <3>1. ~powerLost
      BY <2>3 DEF Persist
    <3>2. QED
      BY <2>3, <3>1, SuccessPersist
  <2>4. ASSUME NEW q \in Processes, StageStep(q)
        PROVE  /\ OwesDocument(p)' => Committed(p, paths[p].output, "document")'
               /\ OwesReport(p)' => Committed(p, paths[p].report, "report")'
    <3>1. ~powerLost
      BY <2>4 DEF StageStep, Resolve, RejectPaths, ReadInput, Convert, StageFails, WriteStdout,
           StdoutFails, CreateTemp, WriteTemp, SyncTemp, Kill, Fail, fileVars
    <3>2. QED
      BY <2>4, <3>1, SuccessStageStep
  <2>5. QED
    BY <2>1, <2>2, <2>3, <2>4 DEF Next, Step, StageStep
<1>3. QED
  BY <1>1, <1>2, CommandInvariant, PTL DEF Spec
=============================================================================
