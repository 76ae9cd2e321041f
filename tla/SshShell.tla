------------------------------ MODULE SshShell ------------------------------
(***************************************************************************)
(* One SSH connection of internal/sshsim/server.go: the password, the      *)
(* session requests, the interactive shell, the copy commands that ask     *)
(* questions, SCP and SFTP.                                                *)
(*                                                                         *)
(* Bytes the client has sent are in wire until a Read takes them.  The     *)
(* shell reads a chunk into buf and interprets it byte by byte;            *)
(* readLinePrompt, called from inside that loop, reads single bytes from   *)
(* the channel and knows nothing of what is left in buf.                   *)
(***************************************************************************)
EXTENDS ShellKeys

CONSTANTS
    BufSize,    \* size of runShell's buffer (1024 in the code)
    MaxKeys     \* bound: bytes typed

ASSUME ShellAssumption == BufSize \in Nat \ {0} /\ MaxKeys \in Nat

VARIABLES
    wire,       \* bytes sent, not yet read
    eof,        \* the client has closed its side
    buf,        \* rest of the chunk runShell is working on
    pc,         \* where the session's goroutine is
    copy,       \* the copy command under way
    line,       \* the line being edited
    host,       \* the answer to the first prompt
    acks,       \* reads handleSCP has still to do
    did,        \* log entries and transfers
    typed       \* bytes typed so far

vars == <<wire, eof, buf, pc, copy, line, host, acks, did, typed>>

Init ==
    /\ wire = << >> /\ eof = FALSE /\ buf = << >> /\ pc = "auth"
    /\ copy = "none" /\ line = << >> /\ host = << >> /\ acks = 0
    /\ did = << >> /\ typed = 0

----------------------------------------------------------------------------
(* The client *)

Type(k) ==
    /\ ~eof /\ pc # "closed" /\ typed < MaxKeys
    /\ wire' = Append(wire, k) /\ typed' = typed + 1
    /\ UNCHANGED <<eof, buf, pc, copy, line, host, acks, did>>

HangUp ==
    /\ ~eof /\ eof' = TRUE
    /\ UNCHANGED <<wire, buf, pc, copy, line, host, acks, did, typed>>

----------------------------------------------------------------------------
(* handleConnection and handleSession *)

\* The handshake: a wrong password ends the connection.  Requests that were
\* queued before the client hung up are still served.
Authenticate ==
    /\ pc = "auth" /\ pc' \in {"session", "closed"}
    /\ UNCHANGED <<wire, eof, buf, copy, line, host, acks, did, typed>>

ShellRequest ==
    /\ pc = "session" /\ pc' = "read"
    /\ UNCHANGED <<wire, eof, buf, copy, line, host, acks, did, typed>>

\* `exec`: logged, run, and the channel is closed; a payload shorter than its
\* length field says is not run.
ExecRequest(w) ==
    /\ pc = "session" /\ pc' = "closed"
    /\ did' \in {did, Append(did, Ran(<<w>>))}
    /\ UNCHANGED <<wire, eof, buf, copy, line, host, acks, typed>>

\* `exec scp -f file`: logged; handleSCP waits for the client three times.
ScpRequest(w) ==
    /\ pc = "session" /\ pc' = "scp" /\ acks' = 3
    /\ did' = Append(did, Ran(<<w>>))
    /\ UNCHANGED <<wire, eof, buf, copy, line, host, typed>>

SftpRequest ==
    /\ pc = "session" /\ pc' = "sftp"
    /\ UNCHANGED <<wire, eof, buf, copy, line, host, acks, did, typed>>

\* The request channel is closed before a request came that starts something.
SessionGone ==
    /\ pc = "session" /\ eof /\ pc' = "closed"
    /\ UNCHANGED <<wire, eof, buf, copy, line, host, acks, did, typed>>

\* channel.Read(buf) of handleSCP: a byte or an error, it does not look.
ScpRead ==
    /\ pc = "scp" /\ (wire # << >> \/ eof)
    /\ wire' = IF wire = << >> THEN wire ELSE Tail(wire)
    /\ acks' = acks - 1 /\ pc' = IF acks = 1 THEN "closed" ELSE "scp"
    /\ UNCHANGED <<eof, buf, copy, line, host, did, typed>>

\* The SFTP server handles a packet of the client ...
SftpServe ==
    /\ pc = "sftp" /\ wire # << >> /\ wire' = Tail(wire)
    /\ UNCHANGED <<eof, buf, pc, copy, line, host, acks, did, typed>>

\* ... until there is none left.
SftpEnd ==
    /\ pc = "sftp" /\ eof /\ wire = << >> /\ pc' = "closed"
    /\ UNCHANGED <<wire, eof, buf, copy, line, host, acks, did, typed>>

----------------------------------------------------------------------------
(* runShell *)

\* channel.Read(buf): as much as has arrived, at most a buffer.
ShellRead ==
    /\ pc = "read" /\ wire # << >>
    /\ \E n \in 1 .. Len(wire) :
        /\ n <= BufSize
        /\ buf' = SubSeq(wire, 1, n) /\ wire' = SubSeq(wire, n + 1, Len(wire))
    /\ pc' = "loop"
    /\ UNCHANGED <<eof, copy, line, host, acks, did, typed>>

ShellEOF ==
    /\ pc = "read" /\ wire = << >> /\ eof /\ pc' = "closed"
    /\ UNCHANGED <<wire, eof, buf, copy, line, host, acks, did, typed>>

\* The chunk is used up.
ShellNext ==
    /\ pc = "loop" /\ buf = << >> /\ pc' = "read"
    /\ UNCHANGED <<wire, eof, buf, copy, line, host, acks, did, typed>>

\* A byte that does not end the line.
ShellEditKey ==
    /\ pc = "loop" /\ buf # << >> /\ Head(buf) \notin Enters
    /\ line' = ShellEdit(line, Head(buf)) /\ buf' = Tail(buf)
    /\ UNCHANGED <<wire, eof, pc, copy, host, acks, did, typed>>

\* The rest of the chunk is thrown away with the line.
ShellEnterDropsRest ==
    /\ pc = "loop" /\ buf # << >> /\ Head(buf) \in Enters
    /\ buf' = << >> /\ line' = << >>
    /\ LET c == Command(line) IN
        /\ did' = IF c \in {"empty", "exit"} THEN did ELSE Append(did, Ran(line))
        /\ copy' = IF c \in CopyWords THEN c ELSE copy
        /\ pc' = CASE c = "exit" -> "closed"
                   [] c \in {"tftp", "url"} -> "ensure"
                   [] c = "scp" -> "host"
                   [] OTHER -> "loop"
    /\ UNCHANGED <<wire, eof, host, acks, typed>>

\* A line: exit ends the session, a copy asks, anything else is executed.
\* `copy ... tftp` and a URL first wait in tftpMgr.EnsureRunning.
ShellEnter ==
    /\ pc = "loop" /\ buf # << >> /\ Head(buf) \in Enters
    /\ buf' = Tail(buf) /\ line' = << >>
    /\ LET c == Command(line) IN
        /\ did' = IF c \in {"empty", "exit"} THEN did ELSE Append(did, Ran(line))
        /\ copy' = IF c \in CopyWords THEN c ELSE copy
        /\ pc' = CASE c = "exit" -> "closed"
                   [] c \in {"tftp", "url"} -> "ensure"
                   [] c = "scp" -> "host"
                   [] OTHER -> "loop"
    /\ UNCHANGED <<wire, eof, host, acks, typed>>

----------------------------------------------------------------------------
(* handleInteractiveCopy, readLinePrompt and pushTFTP *)

\* EnsureRunning returned.
TftpEnsured ==
    /\ pc = "ensure" /\ pc' = FirstPrompt(copy)
    /\ UNCHANGED <<wire, eof, buf, copy, line, host, acks, did, typed>>

\* readLinePrompt returned answer.
Answer(answer) ==
    /\ line' = << >>
    /\ IF pc = "host"
       THEN pc' = "file" /\ host' = answer /\ UNCHANGED did
       ELSE /\ pc' = IF Sends(copy, host) THEN "push" ELSE "loop"
            /\ did' = Append(did, Copied(copy, host, answer))
            /\ UNCHANGED host

\* One byte read from the channel, whatever is left in buf.
PromptRead ==
    /\ pc \in {"host", "file"} /\ wire # << >> /\ wire' = Tail(wire)
    /\ IF Head(wire) \in Enters THEN Answer(line)
       ELSE line' = PromptEdit(line, Head(wire)) /\ UNCHANGED <<pc, host, did>>
    /\ UNCHANGED <<eof, buf, copy, acks, typed>>

\* A read error is not noticed.
PromptEOFIgnored ==
    /\ pc \in {"host", "file"} /\ wire = << >> /\ eof
    /\ UNCHANGED vars

\* A read error ends the prompt with what was typed so far.
PromptEOF ==
    /\ pc \in {"host", "file"} /\ wire = << >> /\ eof /\ Answer(line)
    /\ UNCHANGED <<wire, eof, buf, copy, acks, typed>>

\* pushTFTP: sent, or given up; "copied" is printed either way.
PushTFTP ==
    /\ pc = "push" /\ pc' = "loop"
    /\ did' \in {did, Append(did, PushOf(did))}
    /\ UNCHANGED <<wire, eof, buf, copy, line, host, acks, typed>>

Shell ==
    \/ ShellRead \/ ShellEOF \/ ShellNext \/ ShellEditKey \/ ShellEnter
    \/ TftpEnsured \/ PromptRead \/ PromptEOF \/ PushTFTP

Server == SessionGone \/ ScpRead \/ SftpServe \/ SftpEnd \/ Shell

Client ==
    \/ (\E k \in Keys : Type(k)) \/ HangUp
    \/ ShellRequest \/ (\E w \in Words : ExecRequest(w) \/ ScpRequest(w)) \/ SftpRequest

Next == Authenticate \/ Client \/ Server

Spec == Init /\ [][Next]_vars

\* The scheduler runs the session's goroutine whenever it is not blocked in a
\* Read; EnsureRunning and the TFTP client return by themselves.  Nothing is
\* assumed of the client.
FairSpec == Spec /\ WF_vars(Authenticate \/ Server)

----------------------------------------------------------------------------
(* Properties *)

PCs == {"auth", "session", "scp", "sftp", "read", "loop", "ensure", "host", "file", "push", "closed"}

(* Type invariant. *)
TypeOK ==
    /\ wire \in Seq(Keys) /\ buf \in Seq(Keys) /\ line \in Seq(Keys) /\ host \in Seq(Keys)
    /\ eof \in BOOLEAN /\ pc \in PCs /\ copy \in {"none", "tftp", "scp", "url"}
    /\ acks \in 0 .. 3 /\ did \in Seq(Event) /\ typed \in Nat

Mode ==
    CASE pc \in {"auth", "session"} -> "new"
      [] pc \in {"scp", "sftp"} -> "other"
      [] pc \in {"read", "loop"} -> "shell"
      [] pc = "ensure" -> FirstPrompt(copy)
      [] OTHER -> pc

\* While a copy command asks and sends, its prompts read past buf.
InDialog == pc \in {"ensure", "host", "file", "push"}
Pending == IF InDialog THEN wire ELSE buf \o wire
Held == IF InDialog THEN buf ELSE << >>

(* The shell's two readers never lose, double or reorder a byte, however the
   network cuts the input into chunks and however far ahead the client types:
   the session interprets every byte once, in the order typed, at the prompt
   then showing, but for what the shell's chunk still held when a copy command
   in it began to ask; that is the first the shell takes up afterwards. *)
Abstract == INSTANCE LineShell WITH pending <- Pending, held <- Held, mode <- Mode
ImplementsLineShell == Abstract!Spec

(* A session ends once its client has gone away, wherever its goroutine then
   is: between two requests, in a prompt, in the middle of a copy. *)
SessionEnds == eof ~> pc = "closed"
=============================================================================
