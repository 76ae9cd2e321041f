----------------------------- MODULE LineShell -----------------------------
(***************************************************************************)
(* What an SSH session promises its user: the bytes typed are interpreted  *)
(* one by one, each once, at the prompt that is showing when its turn      *)
(* comes, and in the order they were typed, with one exception.  When a    *)
(* copy command begins to ask, a front part of what was typed ahead of its *)
(* first question may be held back; it is interpreted, in order and before *)
(* anything else, at the shell's prompt once the dialog is over.           *)
(***************************************************************************)
EXTENDS ShellKeys

VARIABLES
    pending,    \* bytes typed and not interpreted yet
    held,       \* those of them a dialog keeps back for the shell
    eof,        \* the client has closed its side
    mode,       \* "new", "other", "shell", the prompt "host" or "file", "push", "closed"
    copy,       \* the copy command under way
    line,       \* the line being edited
    host,       \* the answer to the first prompt
    did         \* what the session has done

vars == <<pending, held, eof, mode, copy, line, host, did>>

Init ==
    /\ pending = << >> /\ held = << >> /\ eof = FALSE /\ mode = "new"
    /\ copy = "none" /\ line = << >> /\ host = << >> /\ did = << >>

Type ==
    /\ ~eof /\ \E k \in Keys : pending' = Append(pending, k)
    /\ UNCHANGED <<held, eof, mode, copy, line, host, did>>

HangUp == eof' = TRUE /\ UNCHANGED <<pending, held, mode, copy, line, host, did>>

Open ==
    /\ mode = "new" /\ mode' \in {"shell", "other", "closed"}
    /\ did' = did \/ \E w \in Words : did' = Append(did, Ran(<<w>>))
    /\ UNCHANGED <<pending, held, eof, copy, line, host>>

\* SCP and SFTP take bytes as they like.
Other ==
    /\ mode = "other" /\ mode' \in {"other", "closed"}
    /\ pending' = pending \/ (pending # << >> /\ pending' = Tail(pending))
    /\ UNCHANGED <<held, eof, copy, line, host, did>>

\* The next byte, at the shell's prompt, that does not end the line.
ShellEditKey ==
    /\ mode = "shell" /\ pending # << >> /\ Head(pending) \notin Enters
    /\ line' = ShellEdit(line, Head(pending)) /\ pending' = Tail(pending)
    /\ UNCHANGED <<held, eof, mode, copy, host, did>>

\* The line is complete.  A command that asks splits what was typed ahead.
ShellEnter ==
    /\ mode = "shell" /\ pending # << >> /\ Head(pending) \in Enters /\ line' = << >>
    /\ LET c == Command(line) IN
        /\ mode' = IF c = "exit" THEN "closed" ELSE FirstPrompt(c)
        /\ IF FirstPrompt(c) = "shell"
           THEN pending' = Tail(pending) /\ held' = << >> /\ copy' = copy
           ELSE held' \o pending' = Tail(pending) /\ copy' = c
        /\ did' = IF c \in {"empty", "exit"} THEN did ELSE Append(did, Ran(line))
    /\ UNCHANGED <<eof, host>>

\* The dialog is over, rest is typed and not read: the shell goes on with
\* what was held back.
Resume(rest) == mode' = "shell" /\ pending' = held \o rest /\ held' = << >>

\* An answer is complete; after the second one the copy is logged.
Answered(answer, rest) ==
    /\ line' = << >>
    /\ IF mode = "host"
       THEN /\ mode' = "file" /\ host' = answer /\ pending' = rest
            /\ UNCHANGED <<held, did>>
       ELSE /\ did' = Append(did, Copied(copy, host, answer)) /\ host' = host
            /\ IF Sends(copy, host) THEN mode' = "push" /\ pending' = rest /\ held' = held
               ELSE Resume(rest)

\* The next byte, at a prompt of a copy command.
PromptKey ==
    /\ mode \in {"host", "file"} /\ pending # << >>
    /\ IF Head(pending) \in Enters THEN Answered(line, Tail(pending))
       ELSE /\ line' = PromptEdit(line, Head(pending)) /\ pending' = Tail(pending)
            /\ UNCHANGED <<held, mode, host, did>>
    /\ UNCHANGED <<eof, copy>>

\* The input ends at a prompt: what was typed so far is the answer.
PromptEOF ==
    /\ mode \in {"host", "file"} /\ eof /\ pending = << >> /\ Answered(line, << >>)
    /\ UNCHANGED <<eof, copy>>

\* The peer took the configuration, or did not.
PushDone ==
    /\ mode = "push" /\ Resume(pending)
    /\ did' \in {did, Append(did, PushOf(did))}
    /\ UNCHANGED <<eof, copy, line, host>>

\* The session is over when everything typed has been interpreted.
End ==
    /\ mode = "shell" /\ eof /\ pending = << >> /\ mode' = "closed"
    /\ UNCHANGED <<pending, held, eof, copy, line, host, did>>

Next ==
    \/ Type \/ HangUp \/ Open \/ Other
    \/ ShellEditKey \/ ShellEnter \/ PromptKey \/ PromptEOF \/ PushDone \/ End

Spec == Init /\ [][Next]_vars
=============================================================================
