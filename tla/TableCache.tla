----------------------------- MODULE TableCache -----------------------------
(***************************************************************************)
(* tableCache (utils/cache.go) and its response channel, rspChannel         *)
(* (utils/channel.go): the two goroutines every topic has, and the Go       *)
(* channels between them.                                                   *)
(*                                                                          *)
(*   pipeline --> cache goroutine --> source --> dispatcher --> destinations*)
(*                                                                          *)
(* The pipeline and the source also carry breakpoints, functions that run   *)
(* in the goroutine that receives them: a snapshot is taken, a destination  *)
(* is added or removed.  Every channel is bounded and a send to a full one  *)
(* blocks; only the dispatcher gives up, after 3 seconds, and closes the    *)
(* destination it could not write to.                                       *)
(*                                                                          *)
(* What a message says is left to the modules of the caches: here the k-th  *)
(* one published is k, and a snapshot taken after k messages is the list of *)
(* them, written k too.  Who reads a destination is left to ServerStream.   *)
(***************************************************************************)
EXTENDS Integers, SequencesExt

CONSTANTS Reader,     \* the destinations that RetriveData can make
          PipeCap,    \* capacity of the pipeline,
          SourceCap,  \*   of the source
          DestCap,    \*   and of a destination (each 1000 in the source)
          MaxData     \* bound: messages that are fed

ASSUME CapAssumption == {PipeCap, SourceCap, DestCap} \subseteq Nat \ {0}
ASSUME MaxDataAssumption == MaxData \in Nat

None == "none"
ASSUME NoneAssumption == None \notin Reader

(* The message k, to one destination or to all; the breakpoints.            *)
Data(k, dst) == [kind |-> "data", n |-> k, reader |-> dst]
Snap(k, dst) == [kind |-> "snap", n |-> k, reader |-> dst]
Breakpoint(k, r) == [kind |-> k, n |-> 0, reader |-> r]
Kind == {"data", "snap", "ask", "add", "remove"}
Input == [kind : Kind, n : 0..MaxData, reader : Reader \cup {None}]
NoInput == Breakpoint("ask", None)

VARIABLES
    fed,           \* messages appended to the pipeline
    pipeline,
    applied,       \* messages the cache has applied
    publishing,    \* what the cache goroutine is sending, NoInput when idle
    answered,      \* readers whose TakeSnapshot has been answered
    source,
    destinations,  \* the dispatcher's map,
    dest,          \*   what each destination holds,
    shut,          \*   and by whom it has been closed
    dispatching,   \* what the dispatcher is handing out, NoInput when idle
    left,          \*   destinations it still has to visit,
    blocked,       \*   the one it is blocked on,
    invalid,       \*   and those it has closed
    armed, fired   \* its timer runs; its timer's channel holds a value

cacheVars == <<pipeline, applied, publishing, answered>>
chanVars == <<destinations, dest, shut>>
roundVars == <<dispatching, left, blocked, invalid, armed, fired>>
tableVars == <<fed, cacheVars, source, chanVars, roundVars>>

TableInit ==
    /\ fed = 0
    /\ pipeline = <<>> /\ applied = 0 /\ publishing = NoInput /\ answered = {}
    /\ source = <<>>
    /\ destinations = {}
    /\ dest = [r \in Reader |-> <<>>]
    /\ shut = [r \in Reader |-> "open"]
    /\ dispatching = NoInput /\ left = {} /\ blocked = None /\ invalid = {}
    /\ armed = FALSE /\ fired = FALSE

-----------------------------------------------------------------------------
(* The sends that other goroutines make.                                    *)
SendPipeline(in) ==
    /\ Len(pipeline) < PipeCap
    /\ pipeline' = Append(pipeline, in)
    /\ UNCHANGED <<applied, publishing, answered>>

\* Mutant: a source that never blocks.
SendSourceUnbounded(in) == source' = Append(source, in)

SendSource(in) ==
    /\ Len(source) < SourceCap
    /\ source' = Append(source, in)

(* The upstream appends a message to the pipeline.                          *)
Feed ==
    /\ fed < MaxData
    /\ fed' = fed + 1
    /\ SendPipeline(Data(fed', None))
    /\ UNCHANGED <<source, chanVars, roundVars>>

-----------------------------------------------------------------------------
(* The cache goroutine: a message is applied and published; a breakpoint    *)
(* takes the snapshot and publishes it to the destination that asked.       *)
handleInput ==
    /\ publishing = NoInput
    /\ pipeline # <<>>
    /\ pipeline' = Tail(pipeline)
    /\ \/ /\ Head(pipeline).kind = "data"
          /\ applied' = applied + 1
          /\ publishing' = Data(applied', None)
       \/ /\ Head(pipeline).kind = "ask"
          /\ publishing' = Snap(applied, Head(pipeline).reader)
          /\ UNCHANGED applied
    /\ UNCHANGED <<fed, answered, source, chanVars, roundVars>>

(* The cache has one channel here.  MBLCache has one for each depth and the  *)
(* same goroutine publishes to one after the other, so that a dispatcher    *)
(* that is blocked holds up the other stream of the order book as well.     *)
PublishData ==
    /\ publishing # NoInput
    /\ SendSource(publishing)
    /\ publishing' = NoInput
    /\ answered' = IF publishing.kind = "snap"
                     THEN answered \cup {publishing.reader} ELSE answered
    /\ UNCHANGED <<fed, pipeline, applied, chanVars, roundVars>>

-----------------------------------------------------------------------------
(* The dispatcher.  A breakpoint runs at once; a message is handed out to   *)
(* every destination, in any order (a Go map), or to the one it is for.     *)
takeInput ==
    /\ dispatching = NoInput
    /\ source # <<>>
    /\ source' = Tail(source)
    /\ UNCHANGED <<fed, cacheVars>>

AddDestination ==
    /\ takeInput
    /\ Head(source).kind = "add"
    /\ destinations' = destinations \cup {Head(source).reader}
    /\ UNCHANGED <<dest, shut, roundVars>>

RemoveDestination ==
    /\ takeInput
    /\ Head(source).kind = "remove"
    /\ LET r == Head(source).reader
       IN  /\ destinations' = destinations \ {r}
           /\ shut' = IF r \in destinations THEN [shut EXCEPT ![r] = "removed"] ELSE shut
    /\ UNCHANGED <<dest, roundVars>>

\* Mutant: the timer is not started.
StartDispatchUntimed ==
    /\ takeInput
    /\ Head(source).kind \in {"data", "snap"}
    /\ dispatching' = Head(source)
    /\ left' = IF Head(source).reader = None THEN destinations
               ELSE destinations \cap {Head(source).reader}
    /\ UNCHANGED <<chanVars, blocked, invalid, armed, fired>>

StartDispatch ==
    /\ takeInput
    /\ Head(source).kind \in {"data", "snap"}
    /\ dispatching' = Head(source)
    /\ left' = IF Head(source).reader = None THEN destinations
               ELSE destinations \cap {Head(source).reader}
    /\ armed' = TRUE /\ fired' = FALSE
    /\ UNCHANGED <<chanVars, blocked, invalid>>

(* The destination being visited: any of those left, until it blocks.       *)
Visiting(r) ==
    /\ dispatching # NoInput
    /\ r \in left
    /\ blocked \in {None, r}
Room(r) == Len(dest[r]) < DestCap

(* The send to a closed channel is a panic, and ends the process.           *)
Write(r) ==
    /\ Visiting(r) /\ Room(r)
    /\ dest' = [dest EXCEPT ![r] = Append(@, dispatching)]
    /\ left' = left \ {r}
    /\ blocked' = None
    /\ armed' = TRUE
    /\ UNCHANGED <<fed, cacheVars, source, destinations, shut, dispatching, invalid, fired>>

Block(r) ==
    /\ Visiting(r) /\ ~Room(r) /\ ~fired
    /\ blocked = None
    /\ blocked' = r
    /\ UNCHANGED <<fed, cacheVars, source, chanVars, dispatching, left, invalid, armed, fired>>

(* Three seconds pass only while the dispatcher is blocked.                 *)
TimerFires ==
    /\ blocked # None
    /\ armed
    /\ armed' = FALSE /\ fired' = TRUE
    /\ UNCHANGED <<fed, cacheVars, source, chanVars, dispatching, left, blocked, invalid>>

\* Mutant: after the timeout the write is tried again.
WriteTimeoutRetries(r) ==
    /\ Visiting(r) /\ fired
    /\ fired' = FALSE
    /\ blocked' = r
    /\ UNCHANGED <<fed, cacheVars, source, chanVars, dispatching, left, invalid, armed>>

\* Mutant: after the timeout the message is dropped, the destination kept.
WriteTimeoutSkips(r) ==
    /\ Visiting(r) /\ fired
    /\ left' = left \ {r}
    /\ blocked' = None
    /\ fired' = FALSE
    /\ UNCHANGED <<fed, cacheVars, source, chanVars, dispatching, invalid, armed>>

(* The new timer is given to a parameter of the closure: the dispatcher     *)
(* goes on with the old one, which does not run any more.  Reset (in Write) *)
(* does not take back a value the timer has already sent.                   *)
WriteTimeout(r) ==
    /\ Visiting(r) /\ fired
    /\ shut' = [shut EXCEPT ![r] = "timeout"]
    /\ invalid' = invalid \cup {r}
    /\ left' = left \ {r}
    /\ blocked' = None
    /\ fired' = FALSE
    /\ UNCHANGED <<fed, cacheVars, source, destinations, dest, dispatching, armed>>

\* Mutant: the closed destinations stay in the map.
FinishDispatchKeeps ==
    /\ dispatching # NoInput /\ left = {}
    /\ dispatching' = NoInput /\ invalid' = {}
    /\ armed' = FALSE /\ fired' = FALSE
    /\ UNCHANGED <<fed, cacheVars, source, chanVars, left, blocked>>

FinishDispatch ==
    /\ dispatching # NoInput /\ left = {}
    /\ destinations' = destinations \ invalid
    /\ dispatching' = NoInput /\ invalid' = {}
    /\ armed' = FALSE /\ fired' = FALSE
    /\ UNCHANGED <<fed, cacheVars, source, dest, shut, left, blocked>>

Dispatcher ==
    \/ AddDestination \/ RemoveDestination \/ StartDispatch \/ FinishDispatch
    \/ \E r \in Reader : Write(r) \/ Block(r) \/ WriteTimeout(r)

-----------------------------------------------------------------------------
TableTypeOK ==
    /\ fed \in 0..MaxData
    /\ pipeline \in Seq(Input) /\ Len(pipeline) <= PipeCap
    /\ applied \in 0..fed
    /\ publishing \in Input /\ dispatching \in Input
    /\ answered \subseteq Reader
    /\ source \in Seq(Input) /\ Len(source) <= SourceCap
    /\ destinations \subseteq Reader
    /\ dest \in [Reader -> Seq(Input)]
    /\ shut \in [Reader -> {"open", "removed", "timeout"}]
    /\ left \subseteq Reader /\ invalid \subseteq Reader
    /\ blocked \in Reader \cup {None}
    /\ armed \in BOOLEAN /\ fired \in BOOLEAN
=============================================================================
