----------------------------- MODULE AccessLog -----------------------------
(***************************************************************************)
(* The access-log store of internal/accesslog together with its live       *)
(* consumers, the dashboard's SSE stream handlers.                         *)
(*                                                                         *)
(* Every protocol server is a producer that calls Store.Add.  Add appends  *)
(* to the ring and copies the listener slice under the store's lock, then  *)
(* offers the entry to each copied channel AFTER releasing the lock, so    *)
(* the notifications of several producers interleave with each other and   *)
(* with Subscribe and Unsubscribe.                                         *)
(*                                                                         *)
(* A channel is represented by everything ever put into it (sent) and by   *)
(* how many of those entries its reader has taken (taken): its buffer is   *)
(* what lies between.                                                      *)
(***************************************************************************)
EXTENDS Integers, Sequences

CONSTANTS
    Producers,      \* goroutines that call Add
    HttpProducers,  \* those that run inside a net/http handler
    Channels,       \* channels Subscribe may make, one per SSE request
    MaxSize,        \* NewStore's maxSize (10000 in cmd/wlcsim)
    ChanCap,        \* capacity of a listener channel (64 in the code)
    MaxAdds         \* bound: entries added

ASSUME ConstantsAssumption ==
    /\ HttpProducers \subseteq Producers
    /\ MaxSize \in Nat \ {0}
    /\ ChanCap \in Nat \ {0}
    /\ MaxAdds \in Nat

VARIABLES
    entries,     \* Store.entries
    listeners,   \* Store.listeners
    sent,        \* sent[c]: every entry ever put into channel c, in order
    taken,       \* taken[c]: how many of them the stream handler has read
    closed,      \* closed[c]: close(c) has happened
    stream,      \* the SSE handler owning channel c
    pending,     \* pending[p]: p's copy of the listener slice, still to notify
    adding,      \* adding[p]: p is past the critical section of Add
    count,       \* count[p]: entries p has added; its current one is the last
    crashed,     \* an unrecovered panic ended the process
    history,     \* ghost: every entry in the order the lock was taken
    dropped,     \* ghost: dropped[c]: entries refused because c was full
    panics,      \* ghost: entries whose notification panicked
    owed         \* ghost: owed[c]: entries added while c was registered

vars == <<entries, listeners, sent, taken, closed, stream, pending, adding,
          count, crashed, history, dropped, panics, owed>>

Entry == [by : Producers, n : Nat \ {0}]

Current(p) == [by |-> p, n |-> count[p]]

Buffered(c) == Len(sent[c]) - taken[c]

IsRegistered(c) == \E i \in 1 .. Len(listeners) : listeners[i] = c

Init ==
    /\ entries = << >>
    /\ listeners = << >>
    /\ sent = [c \in Channels |-> << >>]
    /\ taken = [c \in Channels |-> 0]
    /\ closed = [c \in Channels |-> FALSE]
    /\ stream = [c \in Channels |-> "none"]
    /\ pending = [p \in Producers |-> << >>]
    /\ adding = [p \in Producers |-> FALSE]
    /\ count = [p \in Producers |-> 0]
    /\ crashed = FALSE
    /\ history = << >>
    /\ dropped = [c \in Channels |-> {}]
    /\ panics = {}
    /\ owed = [c \in Channels |-> {}]

----------------------------------------------------------------------------
(* Store.Add *)

\* Eviction is off by one.
PushedEvictLate(ring, e) ==
    Append(IF Len(ring) > MaxSize THEN Tail(ring) ELSE ring, e)

\* The ring after e is appended: the oldest entry goes when it is full.
Pushed(ring, e) ==
    Append(IF Len(ring) >= MaxSize THEN Tail(ring) ELSE ring, e)

\* The copy of the listener slice misses its first element.
AddEntryCopyShort(p) ==
    /\ ~crashed /\ ~adding[p] /\ Len(history) < MaxAdds
    /\ LET e == [by |-> p, n |-> count[p] + 1] IN
        /\ entries' = Pushed(entries, e)
        /\ history' = Append(history, e)
        /\ owed' = [c \in Channels |-> IF IsRegistered(c) THEN owed[c] \cup {e} ELSE owed[c]]
    /\ count' = [count EXCEPT ![p] = @ + 1]
    /\ pending' = [pending EXCEPT ![p] = IF listeners = << >> THEN listeners ELSE Tail(listeners)]
    /\ adding' = [adding EXCEPT ![p] = TRUE]
    /\ UNCHANGED <<listeners, sent, taken, closed, stream, crashed, dropped, panics>>

\* The critical section: append, evict, copy the listener slice.
AddEntry(p) ==
    /\ ~crashed /\ ~adding[p] /\ Len(history) < MaxAdds
    /\ LET e == [by |-> p, n |-> count[p] + 1] IN
        /\ entries' = Pushed(entries, e)
        /\ history' = Append(history, e)
        /\ owed' = [c \in Channels |-> IF IsRegistered(c) THEN owed[c] \cup {e} ELSE owed[c]]
    /\ count' = [count EXCEPT ![p] = @ + 1]
    /\ pending' = [pending EXCEPT ![p] = listeners]
    /\ adding' = [adding EXCEPT ![p] = TRUE]
    /\ UNCHANGED <<listeners, sent, taken, closed, stream, crashed, dropped, panics>>

\* `select { case ch <- e: default: }`.
Offer(p, c) ==
    IF Buffered(c) < ChanCap
    THEN /\ sent' = [sent EXCEPT ![c] = Append(@, Current(p))]
         /\ UNCHANGED dropped
    ELSE /\ dropped' = [dropped EXCEPT ![c] = @ \cup {Current(p)}]
         /\ UNCHANGED sent

\* The select has no default case.
NotifyBlocking(p) ==
    /\ ~crashed /\ pending[p] # << >>
    /\ LET c == Head(pending[p]) IN ~closed[c] /\ Buffered(c) < ChanCap /\ Offer(p, c)
    /\ pending' = [pending EXCEPT ![p] = Tail(@)]
    /\ UNCHANGED <<entries, listeners, taken, closed, stream, adding, count,
                   crashed, history, panics, owed>>

\* A channel may be offered the entry again.
NotifyTwice(p) ==
    /\ ~crashed /\ pending[p] # << >>
    /\ LET c == Head(pending[p]) IN ~closed[c] /\ Offer(p, c)
    /\ \/ pending' = [pending EXCEPT ![p] = Tail(@)]
       \/ UNCHANGED pending
    /\ UNCHANGED <<entries, listeners, taken, closed, stream, adding, count,
                   crashed, history, panics, owed>>

\* One iteration of the notify loop.
Notify(p) ==
    /\ ~crashed /\ pending[p] # << >>
    /\ LET c == Head(pending[p]) IN ~closed[c] /\ Offer(p, c)
    /\ pending' = [pending EXCEPT ![p] = Tail(@)]
    /\ UNCHANGED <<entries, listeners, taken, closed, stream, adding, count,
                   crashed, history, panics, owed>>

\* Sending on a closed channel panics, `default` or not.  net/http recovers a
\* panic of its handler, which abandons the rest of the notify loop; in any
\* other goroutine nothing recovers it and the process dies.
NotifyPanics(p) ==
    /\ ~crashed /\ pending[p] # << >>
    /\ closed[Head(pending[p])]
    /\ panics' = panics \cup {Current(p)}
    /\ pending' = [pending EXCEPT ![p] = << >>]
    /\ adding' = [adding EXCEPT ![p] = FALSE]
    /\ crashed' = (p \notin HttpProducers)
    /\ UNCHANGED <<entries, listeners, sent, taken, closed, stream, count,
                   history, dropped, owed>>

\* The loop is over and Add returns.
AddReturns(p) ==
    /\ ~crashed /\ adding[p] /\ pending[p] = << >>
    /\ adding' = [adding EXCEPT ![p] = FALSE]
    /\ UNCHANGED <<entries, listeners, sent, taken, closed, stream, pending,
                   count, crashed, history, dropped, panics, owed>>

----------------------------------------------------------------------------
(* Subscribe, Unsubscribe and the SSE stream handler *)

Subscribe(c) ==
    /\ ~crashed /\ stream[c] = "none"
    /\ stream' = [stream EXCEPT ![c] = "open"]
    /\ listeners' = Append(listeners, c)
    /\ UNCHANGED <<entries, sent, taken, closed, pending, adding, count,
                   crashed, history, dropped, panics, owed>>

\* `case entry := <-ch`: the handler writes one entry to its client.
Receive(c) ==
    /\ ~crashed /\ stream[c] = "open" /\ Buffered(c) > 0
    /\ taken' = [taken EXCEPT ![c] = @ + 1]
    /\ UNCHANGED <<entries, listeners, sent, closed, stream, pending, adding,
                   count, crashed, history, dropped, panics, owed>>

\* The wrong slot is cut out.
DropHead(s, i) == [k \in 1 .. Len(s) - 1 |-> s[k + 1]]

\* append(s[:i], s[i+1:]...)
DropAt(s, i) == [k \in 1 .. Len(s) - 1 |-> IF k < i THEN s[k] ELSE s[k + 1]]

\* The loop of Unsubscribe: the first slot holding c is cut out and c closed.
RemoveListener(c) ==
    \E i \in 1 .. Len(listeners) :
        /\ listeners[i] = c
        /\ \A j \in 1 .. i - 1 : listeners[j] # c
        /\ listeners' = DropAt(listeners, i)
        /\ closed' = [closed EXCEPT ![c] = TRUE]

\* The client went away: the handler's deferred Unsubscribe runs.
Unsubscribe(c) ==
    /\ ~crashed /\ stream[c] = "open"
    /\ stream' = [stream EXCEPT ![c] = "done"]
    /\ IF IsRegistered(c) THEN RemoveListener(c) ELSE UNCHANGED <<listeners, closed>>
    /\ UNCHANGED <<entries, sent, taken, pending, adding, count, crashed,
                   history, dropped, panics, owed>>

ProducerStep(p) == AddEntry(p) \/ Notify(p) \/ NotifyPanics(p) \/ AddReturns(p)

StreamStep(c) == Subscribe(c) \/ Receive(c) \/ Unsubscribe(c)

Next == (\E p \in Producers : ProducerStep(p)) \/ (\E c \in Channels : StreamStep(c))

\* A goroutine inside Add is never blocked, so the scheduler runs it to the
\* end.  Nothing is assumed of the clients that read the streams.
Fairness == \A p \in Producers : WF_vars(Notify(p) \/ NotifyPanics(p) \/ AddReturns(p))

Spec == Init /\ [][Next]_vars

FairSpec == Spec /\ Fairness

----------------------------------------------------------------------------
(* Properties *)

(* Type invariant; a channel never holds more than its capacity. *)
TypeOK ==
    /\ entries \in Seq(Entry)
    /\ listeners \in Seq(Channels)
    /\ sent \in [Channels -> Seq(Entry)]
    /\ taken \in [Channels -> Nat]
    /\ \A c \in Channels : Buffered(c) \in 0 .. ChanCap
    /\ closed \in [Channels -> BOOLEAN]
    /\ stream \in [Channels -> {"none", "open", "done"}]
    /\ pending \in [Producers -> Seq(Channels)]
    /\ adding \in [Producers -> BOOLEAN]
    /\ count \in [Producers -> Nat]
    /\ crashed \in BOOLEAN
    /\ history \in Seq(Entry)
    /\ dropped \in [Channels -> SUBSET Entry]
    /\ panics \in SUBSET Entry
    /\ owed \in [Channels -> SUBSET Entry]

(* Store is a bounded ring of the newest entries: whatever the interleaving
   of producers, entries is exactly the last min(maxSize, added) entries in
   the order their Add calls took the lock. *)
RingHoldsNewest ==
    /\ Len(entries) <= MaxSize /\ Len(entries) <= Len(history)
    /\ Len(entries) < MaxSize => Len(entries) = Len(history)
    /\ \A i \in 1 .. Len(entries) :
          entries[i] = history[Len(history) - Len(entries) + i]

(* A stream shows the entries of one producer in the order that producer
   added them and never twice, although Add sends outside the lock.  (Entries
   of different producers may overtake each other.) *)
StreamKeepsProducerOrder ==
    \A c \in Channels : \A i, j \in 1 .. Len(sent[c]) :
        (i < j /\ sent[c][i].by = sent[c][j].by) => sent[c][i].n < sent[c][j].n

(* A channel is closed exactly when its handler has unsubscribed, and an
   open stream is registered exactly once: Unsubscribe never closes a channel
   twice and never leaves a stale registration behind. *)
RegistrationMatchesStream ==
    /\ \A c \in Channels : closed[c] <=> stream[c] = "done"
    /\ \A c \in Channels :
          stream[c] = "open" <=> IsRegistered(c)
    /\ \A i, j \in 1 .. Len(listeners) : listeners[i] = listeners[j] => i = j

(* No entry is lost to an open stream except by overflow of its own buffer:
   an entry added while c was registered is in c, still to be offered, was
   dropped because c was full, or its Add panicked on another channel. *)
LossOnlyByOverflow ==
    \A c \in Channels : \A e \in owed[c] :
        \/ \E i \in 1 .. Len(sent[c]) : sent[c][i] = e
        \/ e \in dropped[c]
        \/ e \in panics
        \/ e = Current(e.by) /\ \E i \in 1 .. Len(pending[e.by]) : pending[e.by][i] = c

(* Add is never held up by a slow or stopped reader: every Add that entered
   its critical section returns (or the process has died). *)
AddNeverBlocks == \A p \in Producers : adding[p] ~> (~adding[p] \/ crashed)

(* Thread safety as the store's comment promises: no producer ever panics. *)
NoSendOnClosed == panics = {}
=============================================================================
