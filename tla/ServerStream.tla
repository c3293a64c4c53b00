---------------------------- MODULE ServerStream ----------------------------
(***************************************************************************)
(* The subscriptions of one topic of the server (server/server.go) and the  *)
(* sessions they belong to (server/session.go), on top of the topic's cache *)
(* and channel.                                                             *)
(*                                                                          *)
(* A subscription is a goroutine of handleSubscribe, its forwarder: it gets *)
(* a destination, leaves the session a function that gives it back, asks    *)
(* for a snapshot and then writes to the session whatever the destination   *)
(* holds.  The session's sender puts it on the wire; it stops taking        *)
(* messages when the session is closed, or may be held up by its client.    *)
(***************************************************************************)
EXTENDS TableCache

CONSTANTS Session,
          SessionOf,  \* the session of a reader
          Closable,   \* sessions that may be closed
          Slow        \* sessions whose clients may stop reading

ASSUME SessionAssumption ==
    /\ SessionOf \in [Reader -> Session]
    /\ Closable \subseteq Session /\ Slow \subseteq Session
    /\ None \notin Session

VARIABLES
    pc,        \* where the forwarder is
    got,       \* the messages it has taken from its destination
    status,    \* session: "open", then Close: "cleanup", "waiting", "cleaned",
               \* or "closed" when there was nothing to give back
    cleanupFn, \* the reader whose destination Close gives back
    sending    \* the session's sendMessageLoop runs

fwdVars == <<pc, got>>
sessionVars == <<status, cleanupFn, sending>>
vars == <<tableVars, fwdVars, sessionVars>>

Init ==
    /\ TableInit
    /\ pc = [r \in Reader |-> "none"]
    /\ got = [r \in Reader |-> <<>>]
    /\ status = [s \in Session |-> "open"]
    /\ cleanupFn = [s \in Session |-> None]
    /\ sending = [s \in Session |-> TRUE]

Goto(r, next) == pc' = [pc EXCEPT ![r] = next]

-----------------------------------------------------------------------------
(* The forwarder: RetriveData, SetCleanup, TakeSnapshot.  It runs when the  *)
(* request has been answered; by then the session may be closed.            *)
RetriveData(r) ==
    /\ pc[r] = "none"
    /\ SendSource(Breakpoint("add", r))
    /\ Goto(r, "retrived")
    /\ UNCHANGED <<fed, cacheVars, chanVars, roundVars, got, sessionVars>>

SetCleanup(r) ==
    /\ pc[r] = "retrived"
    /\ cleanupFn' = [cleanupFn EXCEPT ![SessionOf[r]] = r]
    /\ Goto(r, "asking")
    /\ UNCHANGED <<tableVars, got, status, sending>>

TakeSnapshot(r) ==
    /\ pc[r] = "asking"
    /\ SendPipeline(Breakpoint("ask", r))
    /\ Goto(r, "reading")
    /\ UNCHANGED <<fed, source, chanVars, roundVars, got, sessionVars>>

(* `for data := range dataChan`, once the snapshot has been answered: take  *)
(* a message, write it, until the destination is closed and empty.          *)
Receive(r) ==
    /\ pc[r] = "reading" /\ r \in answered
    /\ dest[r] # <<>>
    /\ dest' = [dest EXCEPT ![r] = Tail(@)]
    /\ got' = [got EXCEPT ![r] = Append(@, Head(dest[r]))]
    /\ Goto(r, "writing")
    /\ UNCHANGED <<fed, cacheVars, source, destinations, shut, roundVars, sessionVars>>

WriteJSONMessage(r) ==
    /\ pc[r] = "writing"
    /\ sending[SessionOf[r]]
    /\ Goto(r, "reading")
    /\ UNCHANGED <<tableVars, got, sessionVars>>

RangeEnds(r) ==
    /\ pc[r] = "reading" /\ r \in answered
    /\ dest[r] = <<>> /\ shut[r] # "open"
    /\ Goto(r, "ended")
    /\ UNCHANGED <<tableVars, got, sessionVars>>

-----------------------------------------------------------------------------
(* Close, by whoever calls it first: the context is cancelled, the cleanup  *)
(* function run if there is one.                                            *)
Close(s) ==
    /\ status[s] = "open"
    /\ status' = [status EXCEPT ![s] = IF cleanupFn[s] = None THEN "closed" ELSE "cleanup"]
    /\ UNCHANGED <<tableVars, fwdVars, cleanupFn, sending>>

(* The sender may put one more message on the wire before it sees the end.  *)
SenderStops(s) ==
    /\ status[s] # "open"
    /\ sending[s]
    /\ sending' = [sending EXCEPT ![s] = FALSE]
    /\ UNCHANGED <<tableVars, fwdVars, status, cleanupFn>>

(* The cleanup function waits until the dispatcher has run its breakpoint.  *)
ShutdownRetrive(s) ==
    /\ status[s] = "cleanup"
    /\ SendSource(Breakpoint("remove", cleanupFn[s]))
    /\ status' = [status EXCEPT ![s] = "waiting"]
    /\ UNCHANGED <<fed, cacheVars, chanVars, roundVars, fwdVars, cleanupFn, sending>>

\* Mutant: the removal is queued and not waited for.
RetriveShutAtOnce(s) ==
    /\ status[s] = "waiting"
    /\ status' = [status EXCEPT ![s] = "cleaned"]
    /\ UNCHANGED <<tableVars, fwdVars, cleanupFn, sending>>

RetriveShut(s) ==
    /\ status[s] = "waiting"
    /\ \A i \in DOMAIN source : ~(source[i].kind = "remove" /\ SessionOf[source[i].reader] = s)
    /\ status' = [status EXCEPT ![s] = "cleaned"]
    /\ UNCHANGED <<tableVars, fwdVars, cleanupFn, sending>>

-----------------------------------------------------------------------------
Forwarder(r) == SetCleanup(r) \/ TakeSnapshot(r) \/ Receive(r) \/ RangeEnds(r)

Closing(s) == ShutdownRetrive(s) \/ RetriveShut(s) \/ SenderStops(s)

Table(step) == step /\ UNCHANGED <<fwdVars, sessionVars>>

Next ==
    \/ Table(Feed) \/ Table(handleInput) \/ Table(PublishData)
    \/ Table(AddDestination) \/ Table(RemoveDestination)
    \/ Table(StartDispatch) \/ Table(FinishDispatch) \/ Table(TimerFires)
    \/ \E r \in Reader :
          Table(Write(r)) \/ Table(Block(r)) \/ Table(WriteTimeout(r))
    \/ \E r \in Reader : RetriveData(r) \/ Forwarder(r) \/ WriteJSONMessage(r)
    \/ \E s \in Closable : Close(s) \/ Closing(s)

Spec == Init /\ [][Next]_vars

(* Every goroutine that can run does, time passes, and a client that is not *)
(* slow reads what it is sent.  No session need ever be closed, nothing     *)
(* need be fed or subscribed.                                               *)
Fairness ==
    /\ WF_vars(Table(handleInput)) /\ WF_vars(Table(PublishData))
    /\ WF_vars(Table(Dispatcher)) /\ WF_vars(Table(TimerFires))
    /\ \A r \in Reader :
          /\ WF_vars(Forwarder(r))
          /\ SessionOf[r] \notin Slow => WF_vars(WriteJSONMessage(r))
    /\ \A s \in Session : WF_vars(Closing(s))

FairSpec == Spec /\ Fairness

-----------------------------------------------------------------------------
TypeOK ==
    /\ TableTypeOK
    /\ pc \in [Reader -> {"none", "retrived", "asking", "reading",
                          "writing", "ended"}]
    /\ got \in [Reader -> Seq(Input)]
    /\ status \in [Session -> {"open", "cleanup", "waiting", "cleaned", "closed"}]
    /\ cleanupFn \in [Session -> Reader \cup {None}]
    /\ sending \in [Session -> BOOLEAN]

(* What a forwarder has taken and what is on its way to it are one stretch  *)
(* of the stream: message follows message, the snapshot stands where it was *)
(* taken, nothing is lost, repeated or out of order before the destination  *)
(* is closed.  A client that starts from the snapshot needs nothing else.   *)
GaplessStream ==
    \A r \in Reader :
        LET seen == got[r] \o dest[r]
        IN  \A i \in 1..(Len(seen) - 1) :
                seen[i + 1].n = seen[i].n + (IF seen[i + 1].kind = "data" THEN 1 ELSE 0)

(* A destination in the dispatcher's map is open whenever the dispatcher is *)
(* between two messages, and whatever it still has to visit is open: it     *)
(* never sends to a closed Go channel, nor closes one twice, which would    *)
(* end the server.                                                          *)
NeverClosedTwice ==
    /\ dispatching = NoInput => \A r \in destinations : shut[r] = "open"
    /\ \A r \in left : shut[r] = "open"

(* When Close returns from the function SetCleanup was given, the           *)
(* destination is out of the stream and closed.  A subscription whose       *)
(* function comes after Close, or was replaced by a later one, is not given *)
(* back at all: Close calls the one it finds (session.go:113).              *)
CleanupDone ==
    \A s \in Session : status[s] = "cleaned" =>
        \E r \in Reader :
            SessionOf[r] = s /\ r \notin destinations /\ shut[r] # "open"

(* The dispatcher is blocked on a full destination and its timer has been   *)
(* used up, by an earlier one of the same message: it waits for as long as  *)
(* it takes.                                                                *)
Wedged ==
    /\ blocked # None /\ ~Room(blocked)
    /\ ~armed /\ ~fired /\ invalid # {}

(* However long a client does not read, the others are not left behind: a   *)
(* client that reads catches up with the cache again and again, unless its  *)
(* session is closed or the dispatcher has given up on it.  Only a second   *)
(* full destination at the same message can stop the stream.                *)
CaughtUp(r) == got[r] # <<>> /\ Last(got[r]).n = applied

ReaderKeepsUp ==
    \/ <>[]Wedged
    \/ \A r \in {q \in Reader : SessionOf[q] \notin Slow} :
          []<>(\/ CaughtUp(r)
               \/ pc[r] = "none" \/ shut[r] # "open" \/ status[SessionOf[r]] # "open")

(* Close returns, whatever the stream is doing: the read loop of a session  *)
(* is not left waiting for the dispatcher.                                  *)
CloseReturns ==
    \/ <>[]Wedged
    \/ \A s \in Closable : status[s] = "cleanup" ~> status[s] = "cleaned"

(* TakeSnapshot returns when its queued operation is finished               *)
(* (cache.go:42-43): it does return.                                        *)
TakeSnapshotReturns ==
    \A r \in Reader : pc[r] = "reading" ~> r \in answered
=============================================================================
