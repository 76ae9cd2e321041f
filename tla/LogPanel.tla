------------------------------ MODULE LogPanel ------------------------------
(***************************************************************************)
(* The dashboard's live log panel over the access-log store: the page asks *)
(* once for the newest entries (loadLogs) and at the same time opens the   *)
(* stream (connectSSE), which it opens again three seconds after an error. *)
(* All channels of the store belong to this page; one whose connection     *)
(* broke stays registered until its handler notices.                       *)
(***************************************************************************)
EXTENDS AccessLog

CONSTANTS
    PanelSize,      \* entries the panel keeps and asks for (500 in the code)
    NoChannel       \* the page has no connection

ASSUME PanelAssumption == PanelSize \in Nat \ {0} /\ NoChannel \notin Channels

VARIABLES
    panel,      \* rows of logContainer, newest first
    conn,       \* channel of the page's EventSource
    arrived,    \* of what each channel's handler wrote, how much reached the page
    fetch,      \* /api/logs: not asked yet, the answer under way, or shown
    got,        \* ghost: what the page received over its streams, in order
    before      \* ghost: entries owed to conn before the page had settled on it

pageVars == <<panel, conn, arrived, fetch, got, before>>
panelVars == <<vars, pageVars>>

First(s, n) == SubSeq(s, 1, IF Len(s) < n THEN Len(s) ELSE n)
Newest(s, n) == SubSeq(s, IF Len(s) < n THEN 1 ELSE Len(s) - n + 1, Len(s))
NewestFirst(s) == [i \in 1 .. Len(s) |-> s[Len(s) + 1 - i]]

\* The answer to the page's only request has come: nothing is wiped any more.
Loaded == fetch.st = "shown"

PanelInit ==
    /\ Init
    /\ arrived = [c \in Channels |-> 0]
    /\ panel = << >> /\ conn = NoChannel /\ got = << >> /\ before = {}
    /\ fetch = [st |-> "asked", logs |-> << >>]

\* The handler of /api/logs: Recent.
RecentServed ==
    /\ ~crashed /\ fetch.st = "asked"
    /\ fetch' = [st |-> "sent", logs |-> Newest(entries, PanelSize)]
    /\ UNCHANGED <<vars, panel, conn, arrived, got, before>>

\* The answer replaces the panel, unless it is empty.
LogsShown ==
    /\ fetch.st = "sent"
    /\ fetch' = [st |-> "shown", logs |-> << >>]
    /\ panel' = IF fetch.logs = << >> THEN panel ELSE NewestFirst(fetch.logs)
    /\ before' = IF conn = NoChannel THEN {} ELSE owed[conn]
    /\ UNCHANGED <<vars, conn, arrived, got>>

\* A new connection gets a new channel.
Connect(c) ==
    /\ conn = NoChannel /\ Subscribe(c) /\ c = CHOOSE d \in Channels : stream[d] = "none"
    /\ conn' = c /\ before' = {}
    /\ UNCHANGED <<panel, arrived, fetch, got>>

\* es.onerror: the page lets go; the handler may notice later, or has before.
ConnectionBreaks ==
    /\ conn # NoChannel /\ conn' = NoChannel /\ before' = {}
    /\ UNCHANGED <<vars, panel, arrived, fetch, got>>

HandlerEnds(c) == Unsubscribe(c) /\ UNCHANGED pageVars

\* The handler takes an entry out of its channel and writes it, whether the page
\* still listens or not.
HandlerWrites(c) == Receive(c) /\ UNCHANGED pageVars

Entering(c) == sent[c][arrived[c] + 1]

Arrives(c) ==
    /\ arrived[c] < taken[c]
    /\ arrived' = [arrived EXCEPT ![c] = @ + 1] /\ got' = Append(got, Entering(c))
    /\ UNCHANGED <<vars, conn, fetch, before>>

\* The row goes to the bottom, where trimming takes it away.
ReceivedBelow(c) ==
    c = conn /\ Arrives(c) /\ panel' = First(Append(panel, Entering(c)), PanelSize)

\* The old EventSource was not closed.
ReceivedFromAny(c) ==
    Arrives(c) /\ panel' = First(<<Entering(c)>> \o panel, PanelSize)

\* es.onmessage: the row goes on top, the panel is trimmed.
Received(c) ==
    c = conn /\ Arrives(c) /\ panel' = First(<<Entering(c)>> \o panel, PanelSize)

PageStep ==
    \/ RecentServed \/ LogsShown \/ ConnectionBreaks
    \/ \E c \in Channels : Connect(c) \/ HandlerEnds(c) \/ HandlerWrites(c) \/ Received(c)

PanelNext == PageStep \/ \E p \in Producers : ProducerStep(p) /\ UNCHANGED pageVars

PanelFairness == \A p \in Producers :
    WF_panelVars((Notify(p) \/ NotifyPanics(p) \/ AddReturns(p)) /\ UNCHANGED pageVars)

PanelSpec == PanelInit /\ [][PanelNext]_panelVars /\ PanelFairness

----------------------------------------------------------------------------
(* Properties *)

\* However often the connection breaks, the page's streams together show it each
\* entry at most once and those of one producer in order: the reconnect of
\* connectSSE neither repeats nor overtakes what Add still sends to a channel
\* whose handler has not noticed the break.
StreamedOnceInOrder ==
    \A i, j \in 1 .. Len(got) : i < j /\ got[i].by = got[j].by => got[i].n < got[j].n

Rows == {panel[i] : i \in 1 .. Len(panel)}

\* Once loadLogs is shown and while the connection holds, every new entry gets
\* onto the panel and stays until PanelSize newer ones are above it, or it is
\* under way, or it overflowed the channel, or its Add panicked.  What was under
\* way while loadLogs was is not promised (the answer replaces the panel).
NewEntriesAppear ==
    Loaded /\ conn # NoChannel =>
        \A e \in owed[conn] \ before :
            \/ e \in Rows
            \/ \E i \in 1 .. Len(got) : got[i] = e /\ Len(got) - i >= PanelSize
            \/ \E i \in arrived[conn] + 1 .. Len(sent[conn]) : sent[conn][i] = e
            \/ e = Current(e.by) /\ \E i \in 1 .. Len(pending[e.by]) : pending[e.by][i] = conn
            \/ e \in dropped[conn] \/ e \in panics
=============================================================================
