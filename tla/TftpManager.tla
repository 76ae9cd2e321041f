---------------------------- MODULE TftpManager ----------------------------
(***************************************************************************)
(* internal/tftpsim: the on-demand TFTP servers of one device address.     *)
(*                                                                         *)
(* A caller is an SSH session that runs a copy command and calls           *)
(* EnsureRunning.  An instance is one goroutine of Manager.run with its    *)
(* socket (SO_REUSEPORT: several may be open at once) and idle timer.      *)
(* Addresses do not interact: each has its own map key and sockets.        *)
(***************************************************************************)
EXTENDS Integers

CONSTANTS
    Callers,        \* SSH sessions
    None,           \* no instance
    ListenMayFail,  \* whether the socket may be refused
    MaxCalls,       \* bound: calls of EnsureRunning
    MaxTransfers    \* bound: file transfers

\* A call starts at most one.
Instances == 1 .. MaxCalls

ASSUME ConstantsAssumption ==
    /\ None \notin Instances
    /\ ListenMayFail \in BOOLEAN
    /\ MaxCalls \in Nat /\ MaxTransfers \in Nat

VARIABLES
    entry,      \* Manager.inst[dev.IP], or None
    inst,       \* inst[k]: where the goroutine of instance k is
    fresh,      \* fresh[k]: its idle timer was set within half its period
    caller,     \* caller[c]: "idle", "spawn", "wait" or "ready"
    waits,      \* waits[c]: instance whose ready channel c waits for
    calls,      \* calls begun so far
    started,    \* instances started so far
    transfers   \* transfers so far

tftpVars == <<entry, inst, fresh, caller, waits, calls, started, transfers>>

TftpInit ==
    /\ entry = None
    /\ inst = [k \in Instances |-> "none"]
    /\ fresh = [k \in Instances |-> FALSE]
    /\ caller = [c \in Callers |-> "idle"]
    /\ waits = [c \in Callers |-> None]
    /\ calls = 0 /\ started = 0 /\ transfers = 0

Become(k, s) == inst' = [inst EXCEPT ![k] = s]

\* Those that wait for instance k's ready channel go on.
Ready(k) == caller' = [c \in Callers |-> IF waits[c] = k /\ caller[c] = "wait" THEN "ready" ELSE caller[c]]

----------------------------------------------------------------------------
(* EnsureRunning *)

\* The look-up under m.mu: a registered instance is touched and that is all.
EnsureCheck(c) ==
    /\ caller[c] = "idle" /\ calls < MaxCalls
    /\ calls' = calls + 1
    /\ IF entry # None
       THEN /\ fresh' = [fresh EXCEPT ![entry] = TRUE]
            /\ caller' = [caller EXCEPT ![c] = "ready"]
       ELSE caller' = [caller EXCEPT ![c] = "spawn"] /\ UNCHANGED fresh
    /\ UNCHANGED <<entry, inst, waits, started, transfers>>

\* m.mu is free again: `go m.run(...)`, its timer armed, then `<-ready`.
EnsureSpawn(c) ==
    /\ caller[c] = "spawn" /\ started < MaxCalls
    /\ started' = started + 1
    /\ Become(started + 1, "listen")
    /\ fresh' = [fresh EXCEPT ![started + 1] = TRUE]
    /\ waits' = [waits EXCEPT ![c] = started + 1]
    /\ caller' = [caller EXCEPT ![c] = "wait"]
    /\ UNCHANGED <<entry, calls, transfers>>

\* The copy dialog is over.
Finish(c) ==
    /\ caller[c] = "ready"
    /\ caller' = [caller EXCEPT ![c] = "idle"]
    /\ waits' = [waits EXCEPT ![c] = None]
    /\ UNCHANGED <<entry, inst, fresh, calls, started, transfers>>

----------------------------------------------------------------------------
(* Manager.run *)

\* The socket is bound.
RunListen(k) ==
    /\ inst[k] = "listen" /\ Become(k, "bound")
    /\ UNCHANGED <<entry, fresh, caller, waits, calls, started, transfers>>

\* The error path returns without closing ready.
RunListenFailsSilent(k) ==
    /\ inst[k] = "listen" /\ ListenMayFail /\ Become(k, "gone")
    /\ UNCHANGED <<entry, fresh, caller, waits, calls, started, transfers>>

\* The socket is refused: ready is closed all the same.
RunListenFails(k) ==
    /\ inst[k] = "listen" /\ ListenMayFail /\ Become(k, "gone") /\ Ready(k)
    /\ UNCHANGED <<entry, fresh, waits, calls, started, transfers>>

\* Registered under m.mu.
RunRegister(k) ==
    /\ inst[k] = "bound" /\ Become(k, "registered") /\ entry' = k
    /\ UNCHANGED <<fresh, caller, waits, calls, started, transfers>>

\* close(ready), and server.Serve in a goroutine of its own.
RunServe(k) ==
    /\ inst[k] = "registered" /\ Become(k, "serving") /\ Ready(k)
    /\ UNCHANGED <<entry, fresh, waits, calls, started, transfers>>

\* A read or write request reaches k's socket; its handler touches the timer.
Transfer(k) ==
    /\ inst[k] = "serving" /\ transfers < MaxTransfers
    /\ transfers' = transfers + 1
    /\ fresh' = [fresh EXCEPT ![k] = TRUE]
    /\ UNCHANGED <<entry, inst, caller, waits, calls, started>>

\* Half of the idle period passes without a touch; it has been running since
\* before the socket was bound.
Elapse(k) ==
    /\ inst[k] \in {"listen", "bound", "registered", "serving"} /\ fresh[k]
    /\ fresh' = [fresh EXCEPT ![k] = FALSE]
    /\ UNCHANGED <<entry, inst, caller, waits, calls, started, transfers>>

\* Only registered instances are timed out.
IdleTimeoutRegistered(k) ==
    /\ inst[k] = "serving" /\ ~fresh[k] /\ entry = k /\ Become(k, "expired")
    /\ UNCHANGED <<entry, fresh, caller, waits, calls, started, transfers>>

\* `<-inst.timer.C`: from here on a touch re-arms a timer nobody reads.
IdleTimeout(k) ==
    /\ inst[k] = "serving" /\ ~fresh[k] /\ Become(k, "expired")
    /\ UNCHANGED <<entry, fresh, caller, waits, calls, started, transfers>>

\* `<-done`: Serve has returned by itself, on an error of the socket.
ServeEnds(k) ==
    /\ inst[k] = "serving" /\ Become(k, "expired")
    /\ UNCHANGED <<entry, fresh, caller, waits, calls, started, transfers>>

\* server.Shutdown(), conn.Close()
Shutdown(k) ==
    /\ inst[k] = "expired" /\ Become(k, "closed")
    /\ UNCHANGED <<entry, fresh, caller, waits, calls, started, transfers>>

\* The goroutine ends without removing the entry.
DeleteSkipped(k) ==
    /\ inst[k] = "closed" /\ Become(k, "gone")
    /\ UNCHANGED <<entry, fresh, caller, waits, calls, started, transfers>>

\* delete(m.inst, dev.IP), whoever is registered there by now.
Delete(k) ==
    /\ inst[k] = "closed" /\ Become(k, "gone")
    /\ entry' = None
    /\ UNCHANGED <<fresh, caller, waits, calls, started, transfers>>

CallerStep(c) == EnsureCheck(c) \/ EnsureSpawn(c) \/ Finish(c)

RunStep(k) ==
    RunListen(k) \/ RunListenFails(k) \/ RunRegister(k) \/ RunServe(k) \/ Elapse(k) \/ IdleTimeout(k)
    \/ Shutdown(k) \/ Delete(k)

TftpNext ==
    \/ \E c \in Callers : CallerStep(c)
    \/ \E k \in Instances : RunStep(k) \/ Transfer(k) \/ ServeEnds(k)

TftpSpec == TftpInit /\ [][TftpNext]_tftpVars

\* Time passes and goroutines run; sessions and TFTP clients may stop, and no
\* socket has to break.
Fairness ==
    /\ \A k \in Instances : WF_tftpVars(RunStep(k))
    /\ \A c \in Callers : WF_tftpVars(EnsureSpawn(c))

TftpFairSpec == TftpSpec /\ Fairness

----------------------------------------------------------------------------
(* Properties *)

(* Type invariant; a caller waits for an instance that was started. *)
TftpTypeOK ==
    /\ entry \in Instances \cup {None}
    /\ inst \in [Instances -> {"none", "listen", "bound", "registered", "serving", "expired", "closed", "gone"}]
    /\ fresh \in [Instances -> BOOLEAN]
    /\ caller \in [Callers -> {"idle", "spawn", "wait", "ready"}]
    /\ waits \in [Callers -> Instances \cup {None}]
    /\ started \in 0 .. MaxCalls /\ calls \in 0 .. MaxCalls /\ transfers \in 0 .. MaxTransfers
    /\ \A k \in Instances : inst[k] = "none" <=> k > started
    /\ \A c \in Callers : caller[c] = "wait" => waits[c] \in 1 .. started

(* The map never keeps an instance whose goroutine has ended, although
   instances overwrite and delete each other's entry: else EnsureRunning
   would never start a server for the address again. *)
EntryIsAlive == entry # None => inst[entry] \in {"registered", "serving", "expired", "closed"}

(* A caller that waits has a goroutine ahead of it that will close its ready
   channel: nobody waits for an instance that is already past that point. *)
WaitersAreServed == \A c \in Callers : caller[c] = "wait" => inst[waits[c]] \in {"listen", "bound", "registered"}

(* EnsureRunning always returns. *)
EnsureReturns == \A c \in Callers : caller[c] \in {"spawn", "wait"} ~> caller[c] = "ready"

(* Every server shuts down once nobody uses it, registered or not. *)
ServersStop == \A k \in Instances : inst[k] # "none" ~> inst[k] = "gone"
=============================================================================
