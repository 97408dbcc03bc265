------------------------------ MODULE MCCliOutput ------------------------------
(***************************************************************************)
(* Two commands in one small tree: the working directory, written "." or   *)
(* not at all, and a directory "sub".  The input in.svg is there at first, *)
(* and a link "alias" that leads to it.                                    *)
(***************************************************************************)
EXTENDS CliOutput, TLC

CONSTANTS First, Second

File(dir, name)    == [dir |-> dir, name |-> name]
Cmd(in, out, rep)  == [input |-> in, output |-> out, report |-> rep]

Spellings == [dir \in {"", ".", "sub", "sub/.."} |-> IF dir = "sub" THEN "sub" ELSE "."]
AliasLink == [loc \in {File(".", "alias")} |-> File(".", "in.svg")]
InputOnly == {File(".", "in.svg")}

Input == File("", "in.svg")
Out(dir) == File(dir, "out")
Rep(dir) == File(dir, "rep")

FirstCommands ==
  {Cmd(Input, Out("."), Rep(".")),              \* both outputs to files
   Cmd(Stdio, Stdio, Rep(".")),                 \* a filter with a report
   Cmd(Input, Out("."), NoReport),
   Cmd(Input, Out("."), Stdio),                 \* the report on standard output
   Cmd(Input, File(".", "alias"), NoReport),    \* the output is the input, by a link
   Cmd(Input, Out("."), File("sub/..", "in.svg")), \* the report is the input
   Cmd(Input, Out("."), Out("sub/.."))}         \* the outputs are one file

SecondCommands ==
  {Cmd(Input, Out("sub/.."), Rep("sub")),       \* shares the output
   Cmd(Out("."), Out("sub"), NoReport),         \* reads the other's output
   Cmd(Stdio, Input, NoReport),                 \* writes the other's input
   Cmd(Input, Rep("."), Out(".")),              \* its outputs swapped
   Cmd(Stdio, Out(""), NoReport),               \* a bare name
   Cmd(Input, File("none", "out"), NoReport)}   \* no such directory

CommandLines == First :> FirstCommands @@ Second :> SecondCommands
=============================================================================
