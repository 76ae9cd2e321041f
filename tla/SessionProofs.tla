--------------------------- MODULE SessionProofs ----------------------------
(***************************************************************************)
(* An SSH session and the TFTP servers it starts.                          *)
(*                                                                         *)
(* The session of SshShell implements the line shell: for any set of       *)
(* words, any buffer size, however far ahead the client types and however  *)
(* the network cuts the input into chunks.                                 *)
(***************************************************************************)
EXTENDS SshShell, TftpManager, SequenceTheorems, TLAPS

(* The shell reads from the channel when its chunk is used up, and nothing
   else has begun with a chunk. *)
BufOnlyInLoop == pc \in {"auth", "session", "scp", "sftp", "read"} => buf = << >>

(* What a copy command remembers while it asks and sends. *)
CopyKnown ==
    /\ pc = "ensure" => copy \in {"tftp", "url"}
    /\ pc \in {"ensure", "host", "file"} => copy \in Keys
    /\ pc = "push" => did # << >>
    /\ pc = "scp" => acks # 0

Inv == TypeOK /\ BufOnlyInLoop /\ CopyKnown

----------------------------------------------------------------------------
(* Sequences *)

(* Taking the first byte of the chunk takes the first byte of the input. *)
LEMMA TailOfConcat ==
    ASSUME NEW S, NEW b \in Seq(S), NEW w \in Seq(S), b # << >>
    PROVE  /\ b \o w \in Seq(S) /\ b \o w # << >>
           /\ Head(b \o w) = Head(b) /\ (b \o w)[1] = Head(b)
           /\ Tail(b \o w) = Tail(b) \o w
<1>0. /\ b \o w \in Seq(S) /\ Len(b) \in Nat \ {0} /\ Len(w) \in Nat
      /\ Len(b \o w) = Len(b) + Len(w)
      /\ \A i \in 1 .. Len(b) + Len(w) : (b \o w)[i] = IF i <= Len(b) THEN b[i] ELSE w[i - Len(b)]
  BY ConcatProperties, EmptySeq, LenProperties
<1>1. b \o w # << >>  BY <1>0, ConcatEqualIffEmpty
<1>2. /\ Tail(b) \in Seq(S) /\ Len(Tail(b)) = Len(b) - 1
      /\ \A i \in 1 .. Len(Tail(b)) : Tail(b)[i] = b[i + 1]
  BY HeadTailProperties
<1>3. /\ Tail(b \o w) \in Seq(S) /\ Len(Tail(b \o w)) = Len(b) + Len(w) - 1
      /\ \A i \in 1 .. Len(Tail(b \o w)) : Tail(b \o w)[i] = (b \o w)[i + 1]
  BY <1>0, <1>1, HeadTailProperties
<1>4. /\ Tail(b) \o w \in Seq(S) /\ Len(Tail(b) \o w) = Len(b) - 1 + Len(w)
      /\ \A i \in 1 .. Len(b) - 1 + Len(w) :
            (Tail(b) \o w)[i] = IF i <= Len(b) - 1 THEN Tail(b)[i] ELSE w[i - (Len(b) - 1)]
  BY <1>2, ConcatProperties
<1>5. \A i \in 1 .. Len(Tail(b \o w)) : Tail(b \o w)[i] = (Tail(b) \o w)[i]
  <2> SUFFICES ASSUME NEW i \in 1 .. Len(b) + Len(w) - 1
               PROVE  Tail(b \o w)[i] = (Tail(b) \o w)[i]
    BY <1>3
  <2>1. Tail(b \o w)[i] = (b \o w)[i + 1] /\ i + 1 \in 1 .. Len(b) + Len(w)  BY <1>0, <1>3
  <2>2. (b \o w)[i + 1] = IF i + 1 <= Len(b) THEN b[i + 1] ELSE w[i + 1 - Len(b)]  BY <2>1, <1>0
  <2>3. (Tail(b) \o w)[i] = IF i <= Len(b) - 1 THEN Tail(b)[i] ELSE w[i - (Len(b) - 1)]  BY <1>0, <1>4
  <2>4. i + 1 <= Len(b) => Tail(b)[i] = b[i + 1]  BY <1>0, <1>2
  <2>5. i + 1 - Len(b) = i - (Len(b) - 1) /\ (i + 1 <= Len(b) <=> i <= Len(b) - 1)  BY <1>0
  <2> QED BY <2>1, <2>2, <2>3, <2>4, <2>5
<1>6. Tail(b \o w) = Tail(b) \o w  BY <1>3, <1>4, <1>5, <1>0, SeqEqual
<1>7. Head(b \o w) = (b \o w)[1] /\ (b \o w)[1] = b[1] /\ b[1] = Head(b)  BY <1>0, <1>1
<1> QED BY <1>0, <1>1, <1>6, <1>7

(* What is typed arrives behind what was typed before. *)
LEMMA AppendToConcat ==
    ASSUME NEW S, NEW b \in Seq(S), NEW w \in Seq(S), NEW k \in S
    PROVE  b \o Append(w, k) = Append(b \o w, k)
<1>1. <<k>> \in Seq(S) /\ b \o w \in Seq(S)  BY ConcatProperties
<1>2. b \o (w \o <<k>>) = (b \o w) \o <<k>>  BY <1>1, ConcatAssociative
<1> QED BY <1>1, <1>2, AppendIsConcat

(* A read takes a chunk off the wire and nothing is lost. *)
LEMMA ChunkOfWire ==
    ASSUME NEW S, NEW w \in Seq(S), NEW n \in 1 .. Len(w)
    PROVE  /\ SubSeq(w, 1, n) \in Seq(S) /\ SubSeq(w, n + 1, Len(w)) \in Seq(S)
           /\ SubSeq(w, 1, n) \o SubSeq(w, n + 1, Len(w)) = w
<1>1. Len(w) \in Nat /\ \A i \in 1 .. Len(w) : w[i] \in S  BY LenProperties, ElementOfSeq
<1>2. SubSeq(w, 1, n) \in Seq(S)
  <2>1. 1 \in Int /\ n \in Int /\ \A i \in 1 .. n : w[i] \in S  BY <1>1
  <2> QED BY <2>1, SubSeqProperties
<1>3. SubSeq(w, n + 1, Len(w)) \in Seq(S)
  <2>1. n + 1 \in Int /\ Len(w) \in Int /\ \A i \in n + 1 .. Len(w) : w[i] \in S  BY <1>1
  <2> QED BY <2>1, SubSeqProperties
<1>4. 1 \in 1 .. Len(w) + 1 /\ n \in 1 - 1 .. Len(w) /\ Len(w) \in n .. Len(w)  BY <1>1
<1>5. SubSeq(w, 1, n) \o SubSeq(w, n + 1, Len(w)) = SubSeq(w, 1, Len(w))
  BY <1>4, ConcatAdjacentSubSeq
<1> QED BY <1>2, <1>3, <1>5, SubSeqFull

(* Every edit leaves a line of keys. *)
LEMMA EditKeeps ==
    ASSUME NEW l \in Seq(Keys), NEW k \in Keys, NEW m \in {ShellEdit(l, k), PromptEdit(l, k)}
    PROVE  m \in Seq(Keys)
<1>1. Erase(l) \in Seq(Keys)
  <2>1. CASE l = << >>  BY <2>1 DEF Erase
  <2>2. CASE l # << >>
    <3>1. Len(l) \in Nat \ {0} /\ l \in [1 .. Len(l) -> Keys]
      BY <2>2, EmptySeq, LenProperties
    <3>2. 1 \in Int /\ Len(l) - 1 \in Int /\ \A i \in 1 .. Len(l) - 1 : l[i] \in Keys  BY <3>1
    <3> QED BY <2>2, <3>1, <3>2, SubSeqProperties DEF Erase
  <2> QED BY <2>1, <2>2
<1>2. << >> \in Seq(Keys) /\ Append(l, k) \in Seq(Keys)  BY EmptySeq, AppendProperties
<1> QED BY <1>1, <1>2 DEF ShellEdit, PromptEdit

----------------------------------------------------------------------------
(* The invariant *)

(* The invariant holds of a new connection. *)
LEMMA InitInv == Init => Inv
<1> SUFFICES ASSUME Init PROVE Inv  OBVIOUS
<1>0. << >> \in Seq(Keys) /\ << >> \in Seq(Event)  BY EmptySeq
<1>1. TypeOK
  <2>1. wire \in Seq(Keys) /\ buf \in Seq(Keys) /\ line \in Seq(Keys) /\ host \in Seq(Keys) /\ did \in Seq(Event)
    BY <1>0, Zenon DEF Init
  <2>2. pc = "auth" /\ copy = "none" /\ eof = FALSE /\ acks = 0 /\ typed = 0  BY Zenon DEF Init
  <2>3. acks \in 0 .. 3 /\ typed \in Nat  BY <2>2
  <2>4. eof \in BOOLEAN /\ pc \in PCs /\ copy \in {"none", "tftp", "scp", "url"}  BY <2>2, Zenon DEF PCs
  <2> QED BY <2>1, <2>3, <2>4, Zenon DEF TypeOK
<1> QED BY <1>1 DEF Init, Inv, BufOnlyInLoop, CopyKnown

(* Every step preserves the invariant. *)
LEMMA StepInv == Inv /\ [Next]_vars => Inv'
<1> SUFFICES ASSUME Inv, [Next]_vars PROVE Inv'  OBVIOUS
<1>a. /\ wire \in Seq(Keys) /\ buf \in Seq(Keys) /\ line \in Seq(Keys) /\ host \in Seq(Keys)
      /\ did \in Seq(Event)
  BY DEF Inv, TypeOK
<1>r. \A w \in Words : Ran(<<w>>) \in Event
  BY EmptySeq DEF Ran, Event, Keys
<1>1. ASSUME NEW k \in Keys, Type(k) PROVE Inv'
  <2>1. wire' \in Seq(Keys)  BY <1>1, <1>a, AppendProperties DEF Type
  <2> QED BY <1>1, <2>1 DEF Inv, Type, TypeOK, BufOnlyInLoop, CopyKnown
<1>2. CASE HangUp \/ Authenticate \/ ShellRequest \/ SftpRequest \/ SessionGone \/ SftpEnd \/ ShellEOF \/ ShellNext
  <2> USE <1>2 DEF HangUp, Authenticate, ShellRequest, SftpRequest, SessionGone, SftpEnd, ShellEOF, ShellNext
  <2> QED BY DEF Inv, TypeOK, PCs, BufOnlyInLoop, CopyKnown
<1>3. ASSUME NEW w \in Words, ExecRequest(w) \/ ScpRequest(w) PROVE Inv'
  <2>1. UNCHANGED <<wire, eof, buf, copy, line, host, typed>>  BY <1>3 DEF ExecRequest, ScpRequest
  <2>2. did' \in Seq(Event)
    <3>1. Append(did, Ran(<<w>>)) \in Seq(Event)  BY <1>a, <1>r, AppendProperties
    <3> QED BY <1>3, <1>a, <3>1 DEF ExecRequest, ScpRequest
  <2>3. pc = "session" /\ ((pc' = "closed" /\ acks' = acks) \/ (pc' = "scp" /\ acks' = 3))
    BY <1>3 DEF ExecRequest, ScpRequest
  <2>4. TypeOK'
    <3>1. acks' \in 0 .. 3 /\ pc' \in PCs  BY <2>3 DEF Inv, TypeOK, PCs
    <3> QED BY <2>1, <2>2, <3>1 DEF Inv, TypeOK
  <2>5. BufOnlyInLoop' /\ CopyKnown'  BY <2>1, <2>3 DEF Inv, BufOnlyInLoop, CopyKnown
  <2> QED BY <2>4, <2>5 DEF Inv
<1>4. CASE ScpRead \/ SftpServe
  <2> USE <1>4 DEF ScpRead, SftpServe
  <2>1. wire' \in Seq(Keys)  BY <1>a, HeadTailProperties
  <2>2. acks' \in 0 .. 3 /\ (pc' = "scp" => acks' # 0)  BY DEF Inv, TypeOK, CopyKnown
  <2> QED BY <2>1, <2>2 DEF Inv, TypeOK, PCs, BufOnlyInLoop, CopyKnown
<1>5. CASE ShellRead
  <2>1. buf' \in Seq(Keys) /\ wire' \in Seq(Keys)
    BY <1>5, <1>a, ChunkOfWire DEF ShellRead
  <2>2. pc' = "loop" /\ UNCHANGED <<eof, copy, line, host, acks, did, typed>>  BY <1>5 DEF ShellRead
  <2>3. TypeOK'  BY <2>1, <2>2 DEF Inv, TypeOK, PCs
  <2>4. BufOnlyInLoop' /\ CopyKnown'  BY <2>2 DEF BufOnlyInLoop, CopyKnown
  <2> QED BY <2>3, <2>4 DEF Inv
<1>6. CASE ShellEditKey
  <2>1. buf' \in Seq(Keys) /\ Head(buf) \in Keys
    BY <1>6, <1>a, HeadTailProperties DEF ShellEditKey
  <2>2. line' \in Seq(Keys)
    BY <1>6, <1>a, <2>1, EditKeeps DEF ShellEditKey
  <2>3. pc = "loop" /\ UNCHANGED <<wire, eof, pc, copy, host, acks, did, typed>>  BY <1>6 DEF ShellEditKey
  <2>4. TypeOK'  BY <2>1, <2>2, <2>3 DEF Inv, TypeOK
  <2>5. BufOnlyInLoop' /\ CopyKnown'  BY <2>3 DEF BufOnlyInLoop, CopyKnown
  <2> QED BY <2>4, <2>5 DEF Inv
<1>7. CASE ShellEnter
  <2>1. buf' \in Seq(Keys) /\ line' \in Seq(Keys)
    BY <1>7, <1>a, EmptySeq, HeadTailProperties DEF ShellEnter
  <2>2. did' \in Seq(Event)
    <3>1. Ran(line) \in Event  BY <1>a, EmptySeq DEF Ran, Event
    <3> QED BY <1>7, <1>a, <3>1, AppendProperties DEF ShellEnter
  <2>3. Command(line) \in CopyWords => Command(line) \in Keys
    <3> SUFFICES ASSUME Command(line) \in CopyWords PROVE Command(line) \in Keys  OBVIOUS
    <3>1. PICK c \in CopyWords : line = <<c>> /\ Command(line) = c  BY DEF Command, CopyWords
    <3>2. Len(line) = 1 /\ line[1] = c  BY <3>1
    <3> QED BY <1>a, <3>1, <3>2
  <2>4. /\ pc' \in {"closed", "loop", "ensure", "host"}
        /\ pc' \in {"ensure", "host"} => Command(line) \in CopyWords
        /\ pc' = "ensure" => Command(line) \in {"tftp", "url"}
        /\ copy' = IF Command(line) \in CopyWords THEN Command(line) ELSE copy
    BY <1>7 DEF ShellEnter, CopyWords
  <2>5. UNCHANGED <<wire, eof, host, acks, typed>>  BY <1>7 DEF ShellEnter
  <2>6. TypeOK'  BY <2>1, <2>2, <2>4, <2>5 DEF Inv, TypeOK, PCs, CopyWords
  <2>7. BufOnlyInLoop' /\ CopyKnown'  BY <2>3, <2>4 DEF BufOnlyInLoop, CopyKnown, CopyWords
  <2> QED BY <2>6, <2>7 DEF Inv
<1>8. CASE TftpEnsured
  BY <1>8 DEF TftpEnsured, FirstPrompt, Inv, TypeOK, PCs, BufOnlyInLoop, CopyKnown
<1>9. ASSUME Answer(line), pc \in {"host", "file"}, UNCHANGED <<eof, buf, copy, acks, typed>>, wire' \in Seq(Keys)
      PROVE  Inv'
  <2>1. line' = << >> /\ << >> \in Seq(Keys)  BY <1>9, EmptySeq DEF Answer
  <2>2. CASE pc = "host"
    <3>1. pc' = "file" /\ host' = line /\ did' = did  BY <1>9, <2>2 DEF Answer
    <3> QED BY <1>9, <2>1, <2>2, <3>1, <1>a DEF Inv, TypeOK, PCs, BufOnlyInLoop, CopyKnown
  <2>3. CASE pc = "file"
    <3>1. pc' \in {"push", "loop"} /\ host' = host /\ did' = Append(did, Copied(copy, host, line))
      BY <1>9, <2>3 DEF Answer
    <3>2. copy \in Keys  BY <2>3 DEF Inv, CopyKnown
    <3>3. Copied(copy, host, line) \in Event  BY <1>a, <3>2 DEF Copied, Event
    <3>4. did' \in Seq(Event) /\ did' # << >>  BY <1>a, <3>1, <3>3, AppendProperties
    <3>5. TypeOK'  BY <1>9, <2>1, <2>3, <3>1, <3>4 DEF Inv, TypeOK, PCs
    <3> QED BY <1>9, <2>3, <3>1, <3>4, <3>5 DEF Inv, BufOnlyInLoop, CopyKnown
  <2> QED BY <1>9, <2>2, <2>3
<1>10. CASE PromptRead
  <2>1. wire # << >> /\ wire' \in Seq(Keys) /\ Head(wire) \in Keys
    BY <1>10, <1>a, HeadTailProperties DEF PromptRead
  <2>2. CASE Head(wire) \in Enters
    BY <1>9, <1>10, <2>1, <2>2 DEF PromptRead
  <2>3. CASE Head(wire) \notin Enters
    <3>1. line' = PromptEdit(line, Head(wire)) /\ UNCHANGED <<pc, host, did, eof, buf, copy, acks, typed>>
      BY <1>10, <2>3 DEF PromptRead
    <3>2. line' \in Seq(Keys)  BY <1>a, <2>1, <3>1, EditKeeps
    <3> QED BY <2>1, <3>1, <3>2 DEF Inv, TypeOK, BufOnlyInLoop, CopyKnown
  <2> QED BY <2>2, <2>3
<1>11. CASE PromptEOF
  BY <1>11, <1>9, <1>a DEF PromptEOF
<1>12. CASE PushTFTP
  <2>1. PushOf(did) \in Event
    <3>1. did # << >>  BY <1>12 DEF PushTFTP, Inv, CopyKnown
    <3>2. Len(did) \in 1 .. Len(did)  BY <3>1, <1>a, EmptySeq
    <3>3. did[Len(did)] \in Event  BY <3>2, <1>a, ElementOfSeq
    <3> QED BY <3>3 DEF PushOf, Event
  <2>2. did' \in Seq(Event)
    <3>1. Append(did, PushOf(did)) \in Seq(Event)  BY <1>a, <2>1, AppendProperties
    <3> QED BY <1>12, <1>a, <3>1 DEF PushTFTP
  <2> QED BY <1>12, <2>2 DEF PushTFTP, Inv, TypeOK, PCs, BufOnlyInLoop, CopyKnown
<1>13. CASE UNCHANGED vars
  BY <1>13 DEF vars, Inv, TypeOK, BufOnlyInLoop, CopyKnown
<1> QED
  BY <1>1, <1>2, <1>3, <1>4, <1>5, <1>6, <1>7, <1>8, <1>10, <1>11, <1>12, <1>13
     DEF Next, Client, Server, Shell

----------------------------------------------------------------------------
(* Refinement *)

(* A new connection is a new line shell. *)
LEMMA InitRefines == Init => Abstract!Init
<1> SUFFICES ASSUME Init PROVE Abstract!Init  OBVIOUS
<1>1. pc = "auth" /\ buf = << >> /\ wire = << >>  BY DEF Init
<1>2. Pending = << >> /\ Held = << >> /\ Mode = "new"
  BY <1>1, EmptySeq, ConcatEmptySeq DEF Pending, Held, InDialog, Mode
<1> QED BY <1>2, Zenon DEF Init, Abstract!Init

(* The line shell speaks of the same keys, commands and events. *)
LEMMA SameWords ==
    /\ Abstract!Keys = Keys
    /\ \A l : Abstract!Command(l) = Command(l)
    /\ \A c : Abstract!FirstPrompt(c) = FirstPrompt(c)
    /\ \A c, h : Abstract!Sends(c, h) = Sends(c, h)
    /\ \A l : Abstract!Ran(l) = Ran(l)
    /\ \A c, h, f : Abstract!Copied(c, h, f) = Copied(c, h, f)
    /\ \A d : Abstract!PushOf(d) = PushOf(d)
    /\ \A l, k : Abstract!ShellEdit(l, k) = ShellEdit(l, k)
    /\ \A l, k : Abstract!PromptEdit(l, k) = PromptEdit(l, k)
BY Zenon
   DEF Abstract!Keys, Keys, Abstract!Command, Command, Abstract!FirstPrompt, FirstPrompt,
       Abstract!Sends, Sends, Abstract!Ran, Ran, Abstract!Copied, Copied, Abstract!PushOf, PushOf,
       Abstract!ShellEdit, ShellEdit, Abstract!PromptEdit, PromptEdit, Abstract!Erase, Erase

(* Every step of the session is a step of the line shell, or none. *)
LEMMA StepRefines == Inv /\ Inv' /\ [Next]_vars => [Abstract!Next]_Abstract!vars
<1> SUFFICES ASSUME Inv, Inv', [Next]_vars PROVE Abstract!Next \/ UNCHANGED Abstract!vars  OBVIOUS
<1>a. /\ wire \in Seq(Keys) /\ buf \in Seq(Keys) /\ wire' \in Seq(Keys) /\ buf' \in Seq(Keys)
      /\ << >> \o wire = wire /\ << >> \o wire' = wire'
  BY EmptySeq, ConcatEmptySeq DEF Inv, TypeOK
<1>b. /\ pc \in {"auth", "session", "scp", "sftp", "read"} => Pending = wire /\ Held = << >>
      /\ pc' \in {"auth", "session", "scp", "sftp", "read"} => Pending' = wire' /\ Held' = << >>
  BY <1>a DEF Inv, BufOnlyInLoop, Pending, Held, InDialog
<1>c. UNCHANGED <<buf, wire, pc>> => UNCHANGED <<Pending, Held>>
  BY DEF Pending, Held, InDialog
<1>d. UNCHANGED <<pc, copy>> => Mode' = Mode  BY DEF Mode
<1>1. ASSUME NEW k \in Keys, Type(k) PROVE Abstract!Type
  <2>1. Pending' = Append(Pending, k) /\ Held' = Held
    BY <1>1, <1>a, AppendToConcat DEF Type, Pending, Held, InDialog
  <2> QED BY SameWords, <1>1, <1>d, <2>1 DEF Type, Abstract!Type
<1>2. CASE HangUp
  BY <1>2, <1>c, <1>d DEF HangUp, Abstract!Next, Abstract!HangUp
<1>4. CASE Authenticate \/ ShellRequest \/ SftpRequest \/ SessionGone
  <2>1. /\ Mode = "new" /\ Mode' \in {"new", "shell", "other", "closed"}
        /\ UNCHANGED <<wire, buf, eof, copy, line, host, did>>
    BY <1>4 DEF Authenticate, ShellRequest, SftpRequest, SessionGone, Mode
  <2>2. UNCHANGED <<Pending, Held>>
    BY <1>4 DEF Authenticate, ShellRequest, SftpRequest, SessionGone, Pending, Held, InDialog
  <2> QED BY <2>1, <2>2 DEF Abstract!Next, Abstract!Open, Abstract!vars
<1>5. ASSUME NEW w \in Words, ExecRequest(w) \/ ScpRequest(w) PROVE Abstract!Open
  <2>1. UNCHANGED <<Pending, Held>>
    BY <1>5 DEF ExecRequest, ScpRequest, Pending, Held, InDialog
  <2> QED BY SameWords, <1>5, <2>1 DEF ExecRequest, ScpRequest, Mode, Abstract!Open
<1>6. CASE ScpRead \/ SftpServe
  <2>1. Pending = wire /\ Pending' = wire' /\ UNCHANGED Held
    <3>1. buf = << >> /\ buf' = << >>  BY <1>6 DEF ScpRead, SftpServe, Inv, BufOnlyInLoop
    <3> QED BY <1>6, <1>a, <3>1 DEF ScpRead, SftpServe, Pending, Held, InDialog
  <2> QED BY <1>6, <2>1 DEF ScpRead, SftpServe, Mode, Abstract!Next, Abstract!Other
<1>7. CASE SftpEnd
  <2>1. UNCHANGED <<Pending, Held>>
    BY <1>7 DEF SftpEnd, Pending, Held, InDialog
  <2> QED BY <1>7, <2>1 DEF SftpEnd, Mode, Abstract!Next, Abstract!Other
<1>8. CASE ShellRead
  <2>1. Pending' = wire /\ Held' = << >>
    BY <1>8, <1>a, ChunkOfWire DEF ShellRead, Pending, Held, InDialog
  <2>2. Pending = wire /\ Held = << >>  BY <1>8, <1>b DEF ShellRead
  <2> QED BY <1>8, <2>1, <2>2 DEF ShellRead, Mode, Abstract!vars
<1>9. CASE ShellEOF
  <2>1. Pending = << >> /\ UNCHANGED <<Pending, Held>>
    BY <1>9, <1>b DEF ShellEOF, Pending, Held, InDialog
  <2> QED BY <1>9, <2>1 DEF ShellEOF, Mode, Abstract!Next, Abstract!End
<1>10. CASE ShellNext
  <2>1. UNCHANGED <<Pending, Held>>
    BY <1>10 DEF ShellNext, Pending, Held, InDialog
  <2> QED BY <1>10, <2>1 DEF ShellNext, Mode, Abstract!vars
<1>11. ASSUME buf # << >>, pc = "loop"
       PROVE  /\ Pending # << >> /\ Head(Pending) = Head(buf) /\ Tail(Pending) = Tail(buf) \o wire
              /\ Held = << >>
  BY <1>11, <1>a, TailOfConcat DEF Pending, Held, InDialog
<1>12. CASE ShellEditKey
  <2>1. Pending # << >> /\ Head(Pending) = Head(buf) /\ Pending' = Tail(Pending) /\ UNCHANGED Held
    BY <1>12, <1>11 DEF ShellEditKey, Pending, Held, InDialog
  <2> QED BY SameWords, <1>12, <2>1 DEF ShellEditKey, Mode, Abstract!Next, Abstract!ShellEditKey
<1>13. CASE ShellEnter
  <2>1. /\ Pending # << >> /\ Head(Pending) = Head(buf) /\ Head(buf) \in Enters
        /\ buf' \o wire' = Tail(Pending) /\ Held = << >>
    BY <1>13, <1>11 DEF ShellEnter
  <2>2. /\ Mode = "shell"
        /\ Mode' = IF Command(line) = "exit" THEN "closed" ELSE FirstPrompt(Command(line))
    BY <1>13 DEF ShellEnter, Mode, FirstPrompt, CopyWords
  <2>3. copy' = IF FirstPrompt(Command(line)) = "shell" THEN copy ELSE Command(line)
    BY <1>13 DEF ShellEnter, FirstPrompt, CopyWords
  <2>4. InDialog' <=> FirstPrompt(Command(line)) # "shell"
    BY <1>13 DEF ShellEnter, FirstPrompt, InDialog
  <2>5. IF FirstPrompt(Command(line)) = "shell"
        THEN Pending' = Tail(Pending) /\ Held' = << >>
        ELSE Held' \o Pending' = Tail(Pending)
    BY <2>1, <2>4 DEF Pending, Held
  <2>6. Abstract!ShellEnter
    BY SameWords, <1>13, <2>1, <2>2, <2>3, <2>5 DEF ShellEnter, Abstract!ShellEnter
  <2> QED BY <2>6 DEF Abstract!Next
<1>14. CASE TftpEnsured
  <2>1. copy \in {"tftp", "url"}  BY <1>14 DEF TftpEnsured, Inv, CopyKnown
  <2>2. UNCHANGED <<Pending, Held>>
    BY <1>14, <2>1 DEF TftpEnsured, FirstPrompt, Pending, Held, InDialog
  <2> QED BY <1>14, <2>1, <2>2 DEF TftpEnsured, Mode, FirstPrompt, Abstract!vars
<1>15. ASSUME pc \in {"host", "file"}, Answer(line), buf' = buf
       PROVE  Abstract!Answered(line, wire') /\ Mode \in {"host", "file"}
  <2>1. Held = buf /\ Mode = pc  BY <1>15 DEF Held, InDialog, Mode
  <2>2. CASE pc' \in {"file", "push"}
    <3>1. Held' = buf /\ Pending' = wire' /\ Mode' = pc'  BY <1>15, <2>2 DEF Held, Pending, InDialog, Mode
    <3> QED BY SameWords, <1>15, <2>1, <2>2, <3>1 DEF Answer, Abstract!Answered
  <2>3. CASE pc' = "loop"
    <3>1. Held' = << >> /\ Pending' = buf \o wire' /\ Mode' = "shell"
      BY <1>15, <2>3 DEF Held, Pending, InDialog, Mode
    <3> QED BY SameWords, <1>15, <2>1, <2>3, <3>1 DEF Answer, Abstract!Answered, Abstract!Resume
  <2> QED BY <1>15, <2>1, <2>2, <2>3 DEF Answer
<1>16. CASE PromptRead
  <2>1. Pending = wire /\ wire # << >> /\ wire' = Tail(wire)  BY <1>16 DEF PromptRead, Pending, InDialog
  <2>2. CASE Head(wire) \in Enters
    BY <1>16, <1>15, <2>1, <2>2 DEF PromptRead, Abstract!Next, Abstract!PromptKey
  <2>3. CASE Head(wire) \notin Enters
    <3>1. UNCHANGED Held /\ Pending' = wire'  BY <1>16, <2>3 DEF PromptRead, Held, Pending, InDialog
    <3> QED BY SameWords, <1>16, <2>1, <2>3, <3>1 DEF PromptRead, Mode, Abstract!Next, Abstract!PromptKey
  <2> QED BY <2>2, <2>3
<1>17. CASE PromptEOF
  <2>1. Pending = << >> /\ wire' = << >>  BY <1>17 DEF PromptEOF, Pending, InDialog
  <2> QED BY <1>17, <1>15, <2>1 DEF PromptEOF, Abstract!Next, Abstract!PromptEOF
<1>18. CASE PushTFTP
  <2>1. Held = buf /\ Pending = wire /\ Held' = << >> /\ Pending' = buf \o wire
    BY <1>18 DEF PushTFTP, Held, Pending, InDialog
  <2> QED BY SameWords, <1>18, <2>1 DEF PushTFTP, Mode, Abstract!Next, Abstract!PushDone, Abstract!Resume
<1>19. CASE UNCHANGED vars
  BY <1>19, <1>c, <1>d DEF vars, Abstract!vars
<1> QED
  BY <1>1, <1>2, <1>4, <1>5, <1>6, <1>7, <1>8, <1>9, <1>10, <1>12, <1>13, <1>14, <1>16, <1>17, <1>18, <1>19
     DEF Next, Client, Server, Shell, Abstract!Next

(* Every session implements the line shell (runShell, handleInteractiveCopy
   and readLinePrompt together): every byte is interpreted once, at the prompt
   then showing, and in order but for those the shell's chunk still held when
   a copy command in it began to ask, which come next after the dialog. *)
THEOREM SessionImplementsLineShell == Spec => ImplementsLineShell
BY InitInv, StepInv, InitRefines, StepRefines, PTL DEF Spec, ImplementsLineShell, Abstract!Spec

(* And its state stays in its types. *)
THEOREM SessionTypes == Spec => []TypeOK
<1>1. Inv => TypeOK  BY DEF Inv
<1> QED BY InitInv, StepInv, <1>1, PTL DEF Spec

----------------------------------------------------------------------------
(* The TFTP servers that sessions start: for any number of sessions, calls and
   instances, the map entry is never a dead instance and nobody waits for a
   ready channel that is past being closed, although instances overwrite and
   delete each other's entry. *)

(* The invariant of a run is inductive as it stands. *)
TftpInv == TftpTypeOK /\ EntryIsAlive /\ WaitersAreServed

(* Before the first call the map is empty and nobody waits. *)
LEMMA TftpInitInv == TftpInit => TftpInv
BY ConstantsAssumption DEF TftpInit, TftpInv, TftpTypeOK, EntryIsAlive, WaitersAreServed, Instances

(* What the steps of a session do to the invariant. *)
LEMMA TftpCallerInv ==
    ASSUME TftpInv, NEW c \in Callers, CallerStep(c)
    PROVE  TftpInv'
<1> USE ConstantsAssumption DEF TftpInv, Instances
<1>1. CASE EnsureCheck(c)
  <2>1. TftpTypeOK'
    <3>1. fresh' \in [Instances -> BOOLEAN]
      BY <1>1 DEF EnsureCheck, TftpTypeOK
    <3>2. caller' \in [Callers -> {"idle", "spawn", "wait", "ready"}]
          /\ \A d \in Callers : caller'[d] = "wait" => caller[d] = "wait"
      BY <1>1 DEF EnsureCheck, TftpTypeOK
    <3> QED  BY <1>1, <3>1, <3>2 DEF EnsureCheck, TftpTypeOK
  <2>2. EntryIsAlive' /\ WaitersAreServed'
    BY <1>1 DEF EnsureCheck, TftpTypeOK, EntryIsAlive, WaitersAreServed
  <2> QED  BY <2>1, <2>2
<1>2. CASE EnsureSpawn(c)
  <2>1. started + 1 \in Instances /\ inst[started + 1] = "none"
    BY <1>2 DEF EnsureSpawn, TftpTypeOK
  <2>2. inst' = [inst EXCEPT ![started + 1] = "listen"] /\ started' = started + 1
    BY <1>2 DEF EnsureSpawn, Become
  <2>3. TftpTypeOK'
    BY <1>2, <2>1, <2>2 DEF EnsureSpawn, TftpTypeOK
  <2>4. EntryIsAlive'
    BY <1>2, <2>1, <2>2 DEF EnsureSpawn, TftpTypeOK, EntryIsAlive
  <2>5. WaitersAreServed'
    BY <1>2, <2>1, <2>2 DEF EnsureSpawn, TftpTypeOK, WaitersAreServed
  <2> QED  BY <2>3, <2>4, <2>5
<1>3. CASE Finish(c)
  BY <1>3 DEF Finish, TftpTypeOK, EntryIsAlive, WaitersAreServed
<1> QED  BY <1>1, <1>2, <1>3 DEF CallerStep

(* What the steps of an instance do to it. *)
LEMMA TftpRunInv ==
    ASSUME TftpInv, NEW k \in Instances, RunStep(k) \/ Transfer(k) \/ ServeEnds(k)
    PROVE  TftpInv'
<1> USE ConstantsAssumption DEF TftpInv, Instances
<1>1. CASE RunListen(k)
  BY <1>1 DEF RunListen, Become, TftpTypeOK, EntryIsAlive, WaitersAreServed
<1>2. CASE RunListenFails(k)
  <2>1. TftpTypeOK'
    BY <1>2 DEF RunListenFails, Become, Ready, TftpTypeOK
  <2>2. EntryIsAlive' /\ WaitersAreServed'
    BY <1>2 DEF RunListenFails, Become, Ready, TftpTypeOK, EntryIsAlive, WaitersAreServed
  <2> QED  BY <2>1, <2>2
<1>3. CASE RunRegister(k)
  BY <1>3 DEF RunRegister, Become, TftpTypeOK, EntryIsAlive, WaitersAreServed
<1>9. CASE RunServe(k)
  <2>1. TftpTypeOK'
    BY <1>9 DEF RunServe, Become, Ready, TftpTypeOK
  <2>2. EntryIsAlive' /\ WaitersAreServed'
    BY <1>9 DEF RunServe, Become, Ready, TftpTypeOK, EntryIsAlive, WaitersAreServed
  <2> QED  BY <2>1, <2>2
<1>4. CASE Elapse(k)
  BY <1>4 DEF Elapse, TftpTypeOK, EntryIsAlive, WaitersAreServed
<1>5. CASE IdleTimeout(k)
  BY <1>5 DEF IdleTimeout, Become, TftpTypeOK, EntryIsAlive, WaitersAreServed
<1>6. CASE Shutdown(k)
  BY <1>6 DEF Shutdown, Become, TftpTypeOK, EntryIsAlive, WaitersAreServed
<1>7. CASE Delete(k)
  BY <1>7 DEF Delete, Become, TftpTypeOK, EntryIsAlive, WaitersAreServed
<1>8. CASE Transfer(k)
  BY <1>8 DEF Transfer, TftpTypeOK, EntryIsAlive, WaitersAreServed
<1>10. CASE ServeEnds(k)
  BY <1>10 DEF ServeEnds, Become, TftpTypeOK, EntryIsAlive, WaitersAreServed
<1> QED
  BY <1>1, <1>2, <1>3, <1>4, <1>5, <1>6, <1>7, <1>8, <1>9, <1>10 DEF RunStep

(* The manager never gets stuck on a dead entry and never strands a waiter,
   for any number of sessions and instances. *)
THEOREM TftpSafety == TftpSpec => [](EntryIsAlive /\ WaitersAreServed)
<1>1. TftpInv /\ [TftpNext]_tftpVars => TftpInv'
  <2> SUFFICES ASSUME TftpInv, [TftpNext]_tftpVars PROVE TftpInv'  OBVIOUS
  <2>1. CASE UNCHANGED tftpVars
    BY <2>1 DEF tftpVars, TftpInv, TftpTypeOK, EntryIsAlive, WaitersAreServed
  <2> QED  BY <2>1, TftpCallerInv, TftpRunInv DEF TftpNext
<1> QED  BY <1>1, TftpInitInv, PTL DEF TftpSpec, TftpInv
=============================================================================
