---------------------------- MODULE ReconnectLoop ----------------------------
(***************************************************************************)
(* The two loops that keep a client connected: the example client's main    *)
(* (examples/client/main.go), which waits longer after every failure, may   *)
(* give up, and has a deadline and an interrupt; and the upstream of the    *)
(* mock server (mock/upstream.go), which has neither and never gives up.    *)
(*                                                                          *)
(* Every round makes a context and a client.  What a connection does is the *)
(* subject of ClientConnection; here it says that it is closed, or ends.    *)
(* Time passes in slots, half a reconnectDelay each.                        *)
(***************************************************************************)
EXTENDS Integers

CONSTANTS MaxReconnectCounts, Deadlines,  \* values of the flags, apart from
                                          \* the default, no limit
          MaxDelayCount,
          FailCap   \* bound: failCount stays there, where nothing looks at it

ASSUME FlagAssumption ==
    /\ MaxReconnectCounts \subseteq Nat /\ Deadlines \subseteq Nat
    /\ MaxDelayCount \in Nat /\ FailCap \in Nat
    /\ FailCap > MaxDelayCount
    /\ \A n \in MaxReconnectCounts : FailCap > n

VARIABLES
    owner,              \* whose loop it is: "client", "upstream"
    maxReconnectCount,
    deadline,           \* 0: none
    at,                 \* "start", "backoff", "dial", "serve", "exited"
    failCount,
    wait,               \* what is left of the backoff
    since,              \* time since the last failure, to beyond any backoff
    rest,               \* what is left of the context's deadline
    ended,              \* the round's context has ended
    closed,             \* the round's client has said that it is closed
    deaf                \* its reader has ended: it will not say so any more

flagVars == <<owner, maxReconnectCount, deadline>>
roundVars == <<rest, ended, closed, deaf>>
vars == <<flagVars, at, failCount, wait, since, roundVars>>

Init ==
    /\ \/ /\ owner = "client"
          /\ maxReconnectCount \in MaxReconnectCounts \cup {-1}
          /\ deadline \in Deadlines
       \/ owner = "upstream" /\ maxReconnectCount = -1 /\ deadline = 0
    /\ at = "start"
    /\ failCount = 0 /\ wait = 0 /\ since = 0
    /\ rest = 0 /\ ended = TRUE /\ closed = FALSE /\ deaf = FALSE

Least(m, n) == IF m < n THEN m ELSE n

-----------------------------------------------------------------------------
(* 1 << c.                                                                  *)
Shifted[c \in Nat] == IF c = 0 THEN 1 ELSE 2 * Shifted[c - 1]

\* Mutant: the backoff grows with every failure.
BackoffUncapped(c) == Shifted[c] - 1

(* In slots, for c up to maxDelayCount.                                     *)
expectBackoff(c) == Shifted[Least(c, MaxDelayCount)] - 1

(* The upstream sleeps for a fixed time.                                    *)
Backoff(c) == IF owner = "client" THEN expectBackoff(c) ELSE 1

\* Mutant: the backoff is that of the failures before this one.
FailedWaitsLess ==
    /\ failCount' = Least(failCount + 1, FailCap)
    /\ since' = 0
    /\ IF maxReconnectCount >= 0 /\ failCount' > maxReconnectCount
       THEN at' = "exited" /\ wait' = 0
       ELSE at' = "backoff" /\ wait' = Backoff(failCount)

\* Mutant: the count starts again with every failure.
FailedNotCounted ==
    /\ failCount' = 1
    /\ since' = 0
    /\ IF maxReconnectCount >= 0 /\ failCount' > maxReconnectCount
       THEN at' = "exited" /\ wait' = 0
       ELSE at' = "backoff" /\ wait' = Backoff(failCount')

(* A round that did not work out: give up, or wait.                         *)
Failed ==
    /\ failCount' = Least(failCount + 1, FailCap)
    /\ since' = 0
    /\ IF maxReconnectCount >= 0 /\ failCount' > maxReconnectCount
       THEN at' = "exited" /\ wait' = 0
       ELSE at' = "backoff" /\ wait' = Backoff(failCount')

-----------------------------------------------------------------------------
(* A round begins with a context, with all of the deadline, and a client.   *)
getContext ==
    /\ \/ at = "start"
       \/ at = "backoff" /\ wait = 0
    /\ at' = "dial"
    /\ rest' = deadline
    /\ ended' = FALSE /\ closed' = FALSE /\ deaf' = FALSE
    /\ UNCHANGED <<flagVars, failCount, wait, since>>

(* Connect fails, at the deadline at the latest: `continue`, and the        *)
(* context is not ended; nobody looks at it, or at the caches made for it,  *)
(* again.                                                                   *)
ConnectFails ==
    /\ at = "dial"
    /\ Failed
    /\ UNCHANGED <<flagVars, roundVars>>

Connect ==
    /\ at = "dial" /\ ~ended
    /\ at' = "serve"
    /\ failCount' = 0
    /\ UNCHANGED <<flagVars, wait, since, roundVars>>

(* The client says that it is closed, whatever has become of its context,   *)
(* as long as its reader runs.                                              *)
ConnectionLost ==
    /\ at = "serve" /\ ~closed /\ ~deaf
    /\ closed' = TRUE
    /\ UNCHANGED <<flagVars, at, failCount, wait, since, rest, ended, deaf>>

(* The upstream's consumer has lost its destination and ends the context;   *)
(* the reader ends when it looks at the context.                            *)
ConsumerEnds ==
    /\ owner = "upstream" /\ at = "serve" /\ ~ended
    /\ ended' = TRUE
    /\ UNCHANGED <<flagVars, at, failCount, wait, since, rest, closed, deaf>>

ReaderEnds ==
    /\ at = "serve" /\ ended /\ ~closed /\ ~deaf
    /\ deaf' = TRUE
    /\ UNCHANGED <<flagVars, at, failCount, wait, since, rest, ended, closed>>

(* <-ins.Closed(): end the context and go round again.                      *)
Closed ==
    /\ at = "serve" /\ closed
    /\ ended' = TRUE
    /\ Failed
    /\ UNCHANGED <<flagVars, rest, closed, deaf>>

\* Mutant: the end of the context is not looked at.
DeadlineIgnored == at = "serve" /\ ended /\ owner # "client" /\ UNCHANGED vars

(* <-ctx.Done(), which only the example client looks at.                    *)
DeadlineSeen ==
    /\ owner = "client" /\ at = "serve" /\ ended
    /\ at' = "exited"
    /\ UNCHANGED <<flagVars, failCount, wait, since, roundVars>>

(* sigChan has no buffer: an interrupt is received in one of the two        *)
(* selects, and lost when it comes at another time.                         *)
Interrupt ==
    /\ owner = "client" /\ at \in {"backoff", "serve"}
    /\ at' = "exited"
    /\ UNCHANGED <<flagVars, failCount, wait, since, roundVars>>

-----------------------------------------------------------------------------
(* Time.                                                                    *)
Tick ==
    /\ at \in {"backoff", "dial", "serve"}
    /\ wait' = IF wait > 0 THEN wait - 1 ELSE 0
    /\ since' = Least(since + 1, Shifted[MaxDelayCount])
    /\ rest' = IF rest > 0 THEN rest - 1 ELSE 0
    /\ ended' = (ended \/ (deadline > 0 /\ rest' = 0))
    /\ UNCHANGED <<flagVars, at, failCount, closed, deaf>>

-----------------------------------------------------------------------------
Next ==
    \/ getContext \/ ConnectFails \/ Connect
    \/ ConnectionLost \/ ConsumerEnds \/ ReaderEnds
    \/ Closed \/ DeadlineSeen \/ Interrupt
    \/ Tick

Spec == Init /\ [][Next]_vars

(* The loop goes on when it can, a dial comes to an end and time passes.    *)
(* Nobody need interrupt, no dial need succeed, no connection be lost.      *)
Fairness ==
    /\ WF_vars(getContext) /\ WF_vars(ConnectFails \/ Connect)
    /\ WF_vars(Closed \/ DeadlineSeen)
    /\ WF_vars(Tick)

FairSpec == Spec /\ Fairness

-----------------------------------------------------------------------------
(* Every variable has its type; the backoff stays below its longest.        *)
LoopTypeOK ==
    /\ owner \in {"client", "upstream"}
    /\ maxReconnectCount \in MaxReconnectCounts \cup {-1}
    /\ deadline \in Deadlines \cup {0}
    /\ at \in {"start", "backoff", "dial", "serve", "exited"}
    /\ failCount \in 0..FailCap
    /\ wait \in 0..Shifted[MaxDelayCount] /\ since \in Nat /\ rest \in Nat
    /\ ended \in BOOLEAN /\ closed \in BOOLEAN /\ deaf \in BOOLEAN

(* The loop does not hammer the server: after n failures in a row it dials  *)
(* no sooner than the backoff for n failures after the last of them.        *)
DialsSpaced == at = "dial" /\ failCount > 0 => since >= Backoff(failCount)

(* A round that is over is followed by another dial or the end of the       *)
(* program.  The exception is an upstream whose consumer has ended the      *)
(* context: it goes on waiting for a client that may never say that it is   *)
(* closed (upstream.go:73).                                                 *)
Reconnects ==
    at = "serve" /\ (closed \/ ended)
        ~> at \in {"dial", "exited"} \/ (owner = "upstream" /\ ended /\ ~closed)

(* With a limit on them, failures in a row end the program: once no dial    *)
(* succeeds any more it exits.                                              *)
GivesUp == (maxReconnectCount >= 0 /\ <>[](at # "serve")) => <>(at = "exited")

(* The program runs for the duration it is given and exits by itself then   *)
(* (README.md:17).                                                          *)
DeadlineEnds == deadline > 0 => <>(at = "exited")
=============================================================================
