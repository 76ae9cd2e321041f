----------------------------- MODULE ShellKeys -----------------------------
(***************************************************************************)
(* What a user types at the SSH shell of internal/sshsim/server.go and     *)
(* what a line of it means.  A key is one byte; a word stands for the text *)
(* of a whole command or answer, typed as one byte.                        *)
(***************************************************************************)
EXTENDS Integers, Sequences

CONSTANTS
    Words,      \* texts a user types
    Enters      \* line terminators the user's terminal sends

ASSUME KeysAssumption ==
    /\ Words \cap {"cr", "lf", "backspace", "interrupt"} = {}
    /\ Enters \subseteq {"cr", "lf"}

Keys == Words \cup Enters \cup {"backspace", "interrupt"}

\* How runShell, handleInteractiveCopy and executeCommand take a line:
\*   "tftp" is `copy <source> tftp`, "scp" is `copy <source> scp`,
\*   "url" is `copy <source> tftp://host/file`, "badurl" one without a file.
Command(line) ==
    IF line = << >> THEN "empty"
    ELSE IF line \in {<<w>> : w \in {"exit", "tftp", "scp", "url", "badurl"}} THEN Head(line)
    ELSE "other"

\* The commands that ask the user something.
CopyWords == {"tftp", "scp", "url"}

\* Backspace removes the last byte, if there is one.
Erase(line) == IF line = << >> THEN line ELSE SubSeq(line, 1, Len(line) - 1)

\* The line editor of runShell, for a key that does not end the line.
ShellEdit(line, k) ==
    CASE k = "backspace" -> Erase(line)
      [] k = "interrupt" -> << >>
      [] OTHER -> Append(line, k)

\* The line editor of readLinePrompt: Ctrl+C is a byte like any other.
PromptEdit(line, k) == IF k = "backspace" THEN Erase(line) ELSE Append(line, k)

\* The prompt a copy command asks first, or "shell" when it asks nothing.
FirstPrompt(c) ==
    CASE c \in {"tftp", "scp"} -> "host"
      [] c = "url" -> "file"
      [] OTHER -> "shell"

\* Whether pushTFTP contacts anyone: scp is only pretended, and an empty host
\* name is given up at once.
Sends(copy, host) == copy = "url" \/ (copy = "tftp" /\ host # << >>)

\* What a session does: a command logged and run, a copy logged, a
\* configuration sent to host under the name file (empty: the default name).
Event == [op : {"run", "copy", "push"}, line : Seq(Keys), host : Seq(Keys), file : Seq(Keys)]

Ran(line) == [op |-> "run", line |-> line, host |-> << >>, file |-> << >>]

Copied(copy, host, file) == [op |-> "copy", line |-> <<copy>>, host |-> host, file |-> file]

\* The configuration goes where the copy just logged says.
PushOf(did) == [did[Len(did)] EXCEPT !.op = "push"]
=============================================================================
