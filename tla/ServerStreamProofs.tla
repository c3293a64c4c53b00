-------------------------- MODULE ServerStreamProofs --------------------------
(***************************************************************************)
(* Proofs about ServerStream, for any number of readers and sessions and    *)
(* all capacities: the dispatcher never sends to a closed destination, nor  *)
(* closes one twice, Close gives back what it was left, every variable has  *)
(* its type, and every subscriber gets one stretch of its topic's stream.   *)
(***************************************************************************)
EXTENDS ServerStream, TLAPS

AnyInput == [kind : Kind, n : Nat, reader : Reader \cup {None}]

Shape ==
    /\ fed \in Nat /\ applied \in Nat
    /\ pipeline \in Seq(AnyInput) /\ source \in Seq(AnyInput)
    /\ publishing \in AnyInput /\ publishing.kind \in {"ask", "data", "snap"}
    /\ destinations \subseteq Reader
    /\ shut \in [Reader -> {"open", "removed", "timeout"}]
    /\ pc \in [Reader -> {"none", "retrived", "asking", "reading", "writing", "ended"}]
    /\ cleanupFn \in [Session -> Reader \cup {None}]

(* Within a round: what is left to visit and what has been closed are parts *)
(* of the map; between rounds both are empty.                               *)
Round ==
    /\ left \subseteq destinations \ invalid
    /\ dispatching = NoInput => left = {} /\ invalid = {}

(* Only a destination closed in this round is in the map and not open.      *)
OpenInMap == \A r \in destinations \ invalid : shut[r] = "open"

(* A destination on its way into the map is new: it is open, in the source  *)
(* once, and its reader has begun.                                          *)
Fresh(r) == r \notin destinations /\ shut[r] = "open"

NewOnce ==
    /\ \A r \in Reader : pc[r] = "none" => Fresh(r)
    /\ \A i \in 1..Len(source) : source[i].kind = "add" =>
          /\ source[i].reader \in Reader
          /\ pc[source[i].reader] # "none"
          /\ Fresh(source[i].reader)
          /\ \A j \in 1..Len(source) :
                source[j].kind = "add" /\ source[j].reader = source[i].reader => i = j

IInv == Shape /\ Round /\ OpenInMap /\ NewOnce

USE SessionAssumption, NoneAssumption

LEMMA InitIInv == Init => IInv
  BY DEF Init, TableInit, IInv, Shape, Round, OpenInMap, NewOnce, Fresh,
         AnyInput, NoInput, Breakpoint, Kind

(* The source and what it feeds stay as they are.                           *)
LEMMA SourceUnchanged ==
  ASSUME IInv, Shape', UNCHANGED <<source, destinations, shut, left, invalid, dispatching>>,
         \A r \in Reader : pc'[r] = "none" <=> pc[r] = "none"
  PROVE  IInv'
  BY DEF IInv, Shape, Round, OpenInMap, NewOnce, Fresh

(* A message that adds no destination is queued.                            *)
LEMMA SourceGrows ==
  ASSUME IInv, Shape', NEW in \in AnyInput, in.kind # "add",
         source' = Append(source, in),
         UNCHANGED <<destinations, shut, left, invalid, dispatching, pc>>
  PROVE  IInv'
  BY DEF IInv, Shape, Round, OpenInMap, NewOnce, Fresh

(* The dispatcher takes a message.                                          *)
LEMMA TailKept ==
  ASSUME NEW s \in Seq(AnyInput), s # <<>>
  PROVE  /\ Tail(s) \in Seq(AnyInput) /\ Head(s) \in AnyInput
         /\ Len(Tail(s)) = Len(s) - 1 /\ Head(s) = s[1]
         /\ \A i \in 1..Len(Tail(s)) : Tail(s)[i] = s[i + 1]
  OBVIOUS

LEMMA TableStep ==
  ASSUME IInv,
         Table(Feed) \/ Table(handleInput) \/ Table(PublishData)
  PROVE  IInv'
<1> USE DEF Table
<1>1. CASE Table(Feed)
  <2>1. Shape'
    BY <1>1 DEF IInv, Shape, Feed, SendPipeline, Data, AnyInput, Kind, chanVars,
                roundVars, fwdVars, sessionVars
  <2> QED
    BY <1>1, <2>1, SourceUnchanged DEF Feed, chanVars, roundVars, fwdVars, sessionVars
<1>2. CASE Table(handleInput)
  <2>1. Head(pipeline) \in AnyInput /\ pipeline' \in Seq(AnyInput)
    BY <1>2, TailKept DEF IInv, Shape, handleInput
  <2>2. applied' \in Nat
    BY <1>2 DEF IInv, Shape, handleInput
  <2>3. publishing' \in AnyInput /\ publishing'.kind \in {"data", "snap"}
    BY <1>2, <2>1, <2>2 DEF IInv, Shape, handleInput, Data, Snap, AnyInput, Kind
  <2>4. Shape'
    BY <1>2, <2>1, <2>2, <2>3 DEF IInv, Shape, handleInput, chanVars,
                roundVars, fwdVars, sessionVars
  <2> QED
    BY <1>2, <2>4, SourceUnchanged DEF handleInput, chanVars, roundVars, fwdVars, sessionVars
<1>3. CASE Table(PublishData)
  <2>1. Shape'
    BY <1>3 DEF IInv, Shape, PublishData, SendSource, NoInput, Breakpoint, AnyInput, Kind,
                chanVars, roundVars, fwdVars, sessionVars
  <2>2. publishing \in AnyInput /\ publishing.kind # "add" /\ source' = Append(source, publishing)
    BY <1>3 DEF IInv, Shape, PublishData, SendSource
  <2> QED
    BY <1>3, <2>1, <2>2, SourceGrows
       DEF PublishData, chanVars, roundVars, fwdVars, sessionVars
<1> QED
  BY <1>1, <1>2, <1>3

LEMMA DispatcherStep ==
  ASSUME IInv,
         \/ Table(AddDestination) \/ Table(RemoveDestination)
         \/ Table(StartDispatch) \/ Table(FinishDispatch) \/ Table(TimerFires)
  PROVE  IInv'
<1> USE DEF Table, takeInput, cacheVars, fwdVars, sessionVars
<1>1. CASE Table(AddDestination)
  <2>1. source # <<>> /\ source' = Tail(source)
    BY <1>1 DEF AddDestination
  <2>2. Shape'
    BY <1>1, <2>1, TailKept DEF IInv, Shape, NewOnce, AddDestination, roundVars
  <2>3. PICK r \in Reader : r = source[1].reader /\ Fresh(r) /\ pc[r] # "none"
                            /\ destinations' = destinations \cup {r}
    BY <1>1, <2>1, TailKept DEF IInv, Shape, NewOnce, AddDestination
  <2>4. \A i \in 1..Len(source') : source'[i].kind = "add" => source'[i].reader # r
    BY <1>1, <2>1, <2>3, TailKept DEF IInv, Shape, NewOnce, AddDestination
  <2>5. Round' /\ OpenInMap'
    BY <1>1, <2>3 DEF IInv, Shape, Round, OpenInMap, Fresh, AddDestination, roundVars
  <2>6. NewOnce'
    BY <1>1, <2>1, <2>3, <2>4, TailKept
       DEF IInv, Shape, NewOnce, Fresh, AddDestination, roundVars
  <2> QED
    BY <2>2, <2>5, <2>6 DEF IInv
<1>2. CASE Table(RemoveDestination)
  <2>1. source # <<>> /\ source' = Tail(source)
    BY <1>2 DEF RemoveDestination
  <2>2. PICK r \in Reader \cup {None} :
           /\ destinations' = destinations \ {r}
           /\ shut' = IF r \in destinations THEN [shut EXCEPT ![r] = "removed"] ELSE shut
    BY <1>2, <2>1, TailKept DEF IInv, Shape, RemoveDestination, AnyInput
  <2>3. Shape'
    BY <1>2, <2>1, <2>2, TailKept DEF IInv, Shape, RemoveDestination, roundVars
  <2>4. left' = {} /\ invalid' = {} /\ left = {} /\ invalid = {}
    BY <1>2 DEF IInv, Round, RemoveDestination, roundVars
  <2>5. Round' /\ OpenInMap'
    BY <1>2, <2>2, <2>4 DEF IInv, Shape, Round, OpenInMap, RemoveDestination, roundVars
  <2>6. NewOnce'
    BY <1>2, <2>1, <2>2, TailKept
       DEF IInv, Shape, NewOnce, Fresh, RemoveDestination, roundVars
  <2> QED
    BY <2>3, <2>5, <2>6 DEF IInv
<1>3. CASE Table(StartDispatch)
  <2>1. source # <<>> /\ source' = Tail(source)
    BY <1>3 DEF StartDispatch
  <2>2. Shape'
    BY <1>3, <2>1, TailKept DEF IInv, Shape, StartDispatch, chanVars
  <2>3. Round' /\ OpenInMap'
    BY <1>3, <2>1 DEF IInv, Shape, Round, OpenInMap, StartDispatch, chanVars,
                      NoInput, Breakpoint
  <2>4. NewOnce'
    BY <1>3, <2>1, TailKept DEF IInv, Shape, NewOnce, Fresh, StartDispatch, chanVars
  <2> QED
    BY <2>2, <2>3, <2>4 DEF IInv
<1>4. CASE Table(FinishDispatch)
  BY <1>4 DEF FinishDispatch, IInv, Shape, Round, OpenInMap, NewOnce, Fresh
<1>5. CASE Table(TimerFires)
  BY <1>5 DEF TimerFires, IInv, Shape, Round, OpenInMap, NewOnce, Fresh, chanVars
<1> QED
  BY <1>1, <1>2, <1>3, <1>4, <1>5

LEMMA VisitStep ==
  ASSUME IInv, NEW r \in Reader,
         Table(Write(r)) \/ Table(Block(r)) \/ Table(WriteTimeout(r))
  PROVE  IInv'
<1> USE DEF Table, cacheVars, fwdVars, sessionVars, Visiting,
            IInv, Shape, Round, OpenInMap, NewOnce, Fresh
<1>1. CASE Table(Write(r))
  BY <1>1 DEF Write
<1>2. CASE Table(Block(r))
  BY <1>2 DEF Block, chanVars
<1>3. CASE Table(WriteTimeout(r))
  BY <1>3 DEF WriteTimeout
<1> QED
  BY <1>1, <1>2, <1>3

LEMMA ReaderStep ==
  ASSUME IInv, NEW r \in Reader,
         RetriveData(r) \/ Forwarder(r) \/ WriteJSONMessage(r)
  PROVE  IInv'
<1> USE DEF chanVars, roundVars, sessionVars, Goto
<1>1. CASE RetriveData(r)
  <2>1. /\ pc[r] = "none" /\ source' = Append(source, Breakpoint("add", r))
        /\ pc' = [pc EXCEPT ![r] = "retrived"]
        /\ UNCHANGED <<fed, cacheVars, chanVars, roundVars, cleanupFn>>
    BY <1>1 DEF RetriveData, SendSource
  <2>2. Breakpoint("add", r) \in AnyInput
    BY DEF Breakpoint, AnyInput, Kind
  <2>3. Shape'
    BY <2>1, <2>2 DEF IInv, Shape, cacheVars
  <2>4. Round' /\ OpenInMap'
    BY <2>1 DEF IInv, Round, OpenInMap
  <2>5. \A i \in 1..Len(source) : source[i].kind = "add" => source[i].reader # r
    BY <2>1 DEF IInv, NewOnce
  <2>6. Fresh(r)
    BY <2>1 DEF IInv, NewOnce
  <2>7. /\ Len(source') = Len(source) + 1
        /\ \A i \in 1..Len(source) : source'[i] = source[i]
        /\ source'[Len(source) + 1].reader = r
    BY <2>1, <2>2 DEF IInv, Shape, Breakpoint
  <2>8. NewOnce'
    BY <2>1, <2>5, <2>6, <2>7 DEF IInv, Shape, NewOnce, Fresh
  <2> QED
    BY <2>3, <2>4, <2>8 DEF IInv
<1>2. CASE SetCleanup(r) \/ Receive(r) \/ RangeEnds(r) \/ WriteJSONMessage(r)
  <2>1. UNCHANGED <<fed, pipeline, applied, publishing, source, destinations, shut,
                    left, invalid, dispatching>>
    BY <1>2 DEF SetCleanup, Receive, RangeEnds, WriteJSONMessage, tableVars, cacheVars
  <2>2. pc[r] # "none" /\ \E next \in {"asking", "reading", "writing", "ended"} :
           pc' = [pc EXCEPT ![r] = next]
    BY <1>2 DEF SetCleanup, Receive, RangeEnds, WriteJSONMessage
  <2>3. cleanupFn' \in [Session -> Reader \cup {None}]
    BY <1>2 DEF SetCleanup, Receive, RangeEnds, WriteJSONMessage, IInv, Shape
  <2>4. Shape'
    BY <2>1, <2>2, <2>3 DEF IInv, Shape
  <2> QED
    BY <2>1, <2>2, <2>4, SourceUnchanged DEF IInv, Shape
<1>3. CASE TakeSnapshot(r)
  <2>1. UNCHANGED <<fed, applied, publishing, source, destinations, shut,
                    left, invalid, dispatching, cleanupFn>>
    BY <1>3 DEF TakeSnapshot, SendPipeline
  <2>2. pc[r] # "none" /\ pc' = [pc EXCEPT ![r] = "reading"]
    BY <1>3 DEF TakeSnapshot
  <2>3. pipeline' \in Seq(AnyInput)
    BY <1>3 DEF TakeSnapshot, SendPipeline, IInv, Shape, Breakpoint, AnyInput, Kind
  <2>4. Shape'
    BY <2>1, <2>2, <2>3 DEF IInv, Shape
  <2> QED
    BY <2>1, <2>2, <2>4, SourceUnchanged DEF IInv, Shape
<1> QED
  BY <1>1, <1>2, <1>3 DEF Forwarder

LEMMA SessionStep ==
  ASSUME IInv, NEW s \in Session, Close(s) \/ Closing(s)
  PROVE  IInv'
<1> USE DEF fwdVars, cacheVars, chanVars, roundVars
<1>1. CASE Close(s) \/ SenderStops(s) \/ RetriveShut(s)
  <2>1. UNCHANGED <<tableVars, pc, cleanupFn>>
    BY <1>1 DEF Close, SenderStops, RetriveShut
  <2>2. Shape'
    BY <2>1 DEF IInv, Shape, tableVars
  <2> QED
    BY <2>1, <2>2, SourceUnchanged DEF tableVars
<1>2. CASE ShutdownRetrive(s)
  <2>1. /\ source' = Append(source, Breakpoint("remove", cleanupFn[s]))
        /\ UNCHANGED <<fed, cacheVars, chanVars, roundVars, fwdVars, cleanupFn>>
    BY <1>2 DEF ShutdownRetrive, SendSource
  <2>2. Breakpoint("remove", cleanupFn[s]) \in AnyInput
    BY DEF IInv, Shape, Breakpoint, AnyInput, Kind
  <2>3. Shape'
    BY <2>1, <2>2 DEF IInv, Shape
  <2> QED
    BY <2>1, <2>2, <2>3, SourceGrows DEF Breakpoint
<1> QED
  BY <1>1, <1>2 DEF Closing

LEMMA NextIInv == IInv /\ [Next]_vars => IInv'
<1> SUFFICES ASSUME IInv, [Next]_vars PROVE IInv'
  OBVIOUS
<1>1. CASE Next
  BY <1>1, TableStep, DispatcherStep, VisitStep, ReaderStep, SessionStep DEF Next
<1>2. CASE UNCHANGED vars
  <2>1. Shape'
    BY <1>2 DEF IInv, Shape, vars, tableVars, cacheVars, chanVars, roundVars,
                fwdVars, sessionVars
  <2> QED
    BY <1>2, <2>1, SourceUnchanged
       DEF vars, tableVars, cacheVars, chanVars, roundVars, fwdVars, sessionVars
<1> QED
  BY <1>1, <1>2

(* The dispatcher's map, and what it has still to visit, hold open          *)
(* destinations only: no send to a closed Go channel and no second close,   *)
(* whoever closes what when (channel.go:159-171, 283-323).                  *)
THEOREM NoSecondClose == Spec => []NeverClosedTwice
<1>1. IInv => NeverClosedTwice
  BY DEF IInv, Shape, Round, OpenInMap, NeverClosedTwice
<1> QED
  BY <1>1, InitIInv, NextIInv, PTL DEF Spec

-----------------------------------------------------------------------------
(* Close returns from its cleanup function with the destination closed and  *)
(* out of the stream.  A destination goes from fresh to open in the map to  *)
(* closed and never back, and its removal is queued behind its addition: so *)
(* when the removal runs it finds the destination in the map, or closed by  *)
(* a timeout.                                                               *)
Gone(r) == r \notin destinations /\ shut[r] # "open"

Adds(i, r) == source[i].kind = "add" /\ source[i].reader = r
Removes(i, s) ==
    /\ source[i].kind = "remove"
    /\ source[i].reader \in Reader /\ SessionOf[source[i].reader] = s

SessionShape ==
    /\ status \in [Session -> {"open", "cleanup", "waiting", "cleaned", "closed"}]
    /\ \A s \in Session : cleanupFn[s] # None =>
          SessionOf[cleanupFn[s]] = s /\ pc[cleanupFn[s]] # "none"
    /\ \A s \in Session : status[s] = "cleanup" => cleanupFn[s] # None
    /\ \A r \in Reader : r \in invalid => shut[r] # "open"

(* A reader that has begun and is not in the map yet is on its way there.   *)
OnItsWay ==
    \A r \in Reader : pc[r] # "none" /\ Fresh(r) => \E i \in 1..Len(source) : Adds(i, r)

(* A removal is that of a reader who has begun, and behind its addition.    *)
Ordered ==
    \A j \in 1..Len(source) : source[j].kind = "remove" =>
        /\ source[j].reader \in Reader
        /\ pc[source[j].reader] # "none"
        /\ \A i \in 1..Len(source) : Adds(i, source[j].reader) => i < j

Cleaned(s) == \E r \in Reader : SessionOf[r] = s /\ Gone(r)

UnderWay ==
    \A s \in Session :
        /\ status[s] = "waiting" => Cleaned(s) \/ \E i \in 1..Len(source) : Removes(i, s)
        /\ status[s] = "cleaned" => Cleaned(s)

CInv == SessionShape /\ OnItsWay /\ Ordered /\ UnderWay

LEMMA InitCInv == Init => CInv
  BY DEF Init, TableInit, CInv, SessionShape, OnItsWay, Ordered, UnderWay

(* What is closed and out of the map stays so.                              *)
LEMMA GoneStays ==
  ASSUME IInv, [Next]_vars, NEW r \in Reader, Gone(r)
  PROVE  Gone(r)'
<1>1. CASE Table(AddDestination)
  <2>1. source # <<>> /\ Head(source) = source[1] /\ source[1].kind = "add"
        /\ 1 \in 1..Len(source) /\ UNCHANGED shut
        /\ destinations' = destinations \cup {source[1].reader}
    BY <1>1, TailKept DEF Table, AddDestination, takeInput, IInv, Shape
  <2>2. Fresh(source[1].reader)
    BY <2>1 DEF IInv, NewOnce
  <2> QED
    BY <2>1, <2>2 DEF Gone, Fresh
<1>2. CASE Table(RemoveDestination)
  BY <1>2 DEF Table, RemoveDestination, Gone, IInv, Shape
<1>3. CASE \E q \in Reader : Table(WriteTimeout(q))
  BY <1>3 DEF Table, WriteTimeout, Gone, IInv, Shape
<1>4. CASE Table(FinishDispatch)
  BY <1>4 DEF Table, FinishDispatch, Gone
<1>5. CASE UNCHANGED <<destinations, shut>>
  BY <1>5 DEF Gone
<1>6. CASE \/ Table(Feed) \/ Table(handleInput) \/ Table(PublishData)
           \/ Table(StartDispatch) \/ Table(TimerFires)
           \/ UNCHANGED vars
  BY <1>5, <1>6 DEF Table, Feed, handleInput, PublishData, StartDispatch, TimerFires,
                    chanVars, vars, tableVars
<1>7. CASE \E q \in Reader : Table(Write(q)) \/ Table(Block(q))
  BY <1>5, <1>7 DEF Table, Write, Block, chanVars
<1>8. CASE \E q \in Reader : RetriveData(q) \/ Forwarder(q) \/ WriteJSONMessage(q)
  BY <1>5, <1>8 DEF RetriveData, Forwarder, SetCleanup, TakeSnapshot, Receive, RangeEnds,
                    WriteJSONMessage, chanVars, tableVars
<1>9. CASE \E s \in Closable : Close(s) \/ Closing(s)
  BY <1>5, <1>9 DEF Close, Closing, ShutdownRetrive, RetriveShut, SenderStops,
                    chanVars, tableVars
<1> QED
  BY <1>1, <1>2, <1>3, <1>4, <1>6, <1>7, <1>8, <1>9 DEF Next

LEMMA CleanedStays ==
  ASSUME IInv, [Next]_vars, NEW s \in Session, Cleaned(s)
  PROVE  Cleaned(s)'
  BY GoneStays DEF Cleaned

(* Nothing that the invariant looks at changes, or pc only from one place   *)
(* past "none" to another.                                                  *)
LEMMA Untouched ==
  ASSUME IInv, CInv, UNCHANGED <<source, destinations, shut, invalid, status, cleanupFn>>,
         \A r \in Reader : pc'[r] = "none" <=> pc[r] = "none"
  PROVE  CInv'
<1>1. SessionShape'
  BY DEF CInv, SessionShape, IInv, Shape
<1>2. OnItsWay' /\ Ordered'
  BY DEF CInv, OnItsWay, Ordered, Adds, Fresh
<1>3. UnderWay'
  BY DEF CInv, UnderWay, Cleaned, Gone, Removes
<1> QED
  BY <1>1, <1>2, <1>3 DEF CInv

(* An entry that neither adds nor removes is queued.                        *)
LEMMA OtherQueued ==
  ASSUME IInv, CInv, NEW in \in AnyInput, in.kind \notin {"add", "remove"},
         source' = Append(source, in),
         UNCHANGED <<destinations, shut, invalid, status, cleanupFn, pc>>
  PROVE  CInv'
<1>1. /\ Len(source) \in Nat /\ Len(source') = Len(source) + 1
      /\ source'[Len(source')] = in
      /\ \A i \in 1..Len(source) : source'[i] = source[i]
  BY DEF IInv, Shape
<1>2. SessionShape'
  BY DEF CInv, SessionShape
<1>3. OnItsWay'
  BY <1>1 DEF CInv, OnItsWay, Adds, Fresh
<1>4. Ordered'
  BY <1>1 DEF CInv, Ordered, Adds
<1>5. UnderWay'
  BY <1>1 DEF CInv, UnderWay, Cleaned, Gone, Removes
<1> QED
  BY <1>2, <1>3, <1>4, <1>5 DEF CInv

(* The dispatcher takes an entry that neither adds nor removes.             *)
LEMMA OtherTaken ==
  ASSUME IInv, CInv, source # <<>>, source' = Tail(source),
         Head(source).kind \notin {"add", "remove"},
         UNCHANGED <<destinations, shut, invalid, status, cleanupFn, pc>>
  PROVE  CInv'
<1>1. /\ Len(source) \in Nat \ {0} /\ Len(source') = Len(source) - 1
      /\ Head(source) = source[1]
      /\ \A i \in 1..Len(source') : source'[i] = source[i + 1]
  BY TailKept DEF IInv, Shape
<1>2. \A i \in 1..Len(source) : source[i].kind \in {"add", "remove"} =>
         \E k \in 1..Len(source') : source'[k] = source[i]
  <2>1. \A i \in 1..Len(source) : i # 1 =>
           i - 1 \in 1..Len(source') /\ source'[i - 1] = source[i]
    BY <1>1
  <2> QED
    BY <1>1, <2>1
<1>3. SessionShape'
  BY DEF CInv, SessionShape
<1>4. OnItsWay'
  BY <1>2 DEF CInv, OnItsWay, Adds, Fresh
<1>7. ASSUME NEW j \in 1..Len(source'), source'[j].kind = "remove"
      PROVE  /\ source'[j].reader \in Reader
             /\ pc[source'[j].reader] # "none"
             /\ \A i \in 1..Len(source') :
                  source'[i].kind = "add" /\ source'[i].reader = source'[j].reader => i < j
  <2>1. source'[j] = source[j + 1] /\ j + 1 \in 1..Len(source)
    BY <1>1
  <2>2. \A i \in 1..Len(source') :
           source'[i] = source[i + 1] /\ i \in Int /\ i + 1 \in 1..Len(source)
    BY <1>1
  <2>3. \A i \in 1..Len(source') : Adds(i + 1, source'[j].reader) => i < j
    BY <1>7, <2>1, <2>2 DEF CInv, Ordered
  <2> QED
    BY <1>7, <2>1, <2>2, <2>3 DEF CInv, Ordered, Adds
<1>5. Ordered'
  BY <1>7 DEF Ordered, Adds
<1>6. UnderWay'
  BY <1>2 DEF CInv, UnderWay, Cleaned, Gone, Removes
<1> QED
  BY <1>3, <1>4, <1>5, <1>6 DEF CInv

LEMMA BreakpointsClean ==
  ASSUME IInv, CInv, [Next]_vars,
         Table(AddDestination) \/ Table(RemoveDestination)
  PROVE  CInv'
<1> USE DEF Table, takeInput, fwdVars, sessionVars
<1>1. /\ source # <<>> /\ source' = Tail(source)
      /\ UNCHANGED <<status, cleanupFn, pc>>
  BY DEF AddDestination, RemoveDestination
<1>2. /\ Len(source) \in Nat \ {0} /\ Len(source') = Len(source) - 1
      /\ Head(source) = source[1] /\ 1 \in 1..Len(source)
      /\ \A i \in 1..Len(source') : source'[i] = source[i + 1]
      /\ \A i \in 1..Len(source) : i # 1 =>
            \E k \in 1..Len(source') : source'[k] = source[i]
  <2>1. /\ Len(source) \in Nat \ {0} /\ Len(source') = Len(source) - 1
        /\ Head(source) = source[1]
        /\ \A i \in 1..Len(source') : source'[i] = source[i + 1]
    BY <1>1, TailKept DEF IInv, Shape
  <2>2. \A i \in 1..Len(source) : i # 1 =>
           i - 1 \in 1..Len(source') /\ source'[i - 1] = source[i]
    BY <2>1
  <2> QED
    BY <2>1, <2>2
<1>3. SessionShape'
  BY <1>1 DEF CInv, SessionShape, IInv, Shape, Round, AddDestination, RemoveDestination,
              roundVars
<1>4. ASSUME NEW j \in 1..Len(source'), source'[j].kind = "remove"
      PROVE  /\ source'[j].reader \in Reader
             /\ pc[source'[j].reader] # "none"
             /\ \A i \in 1..Len(source') :
                  source'[i].kind = "add" /\ source'[i].reader = source'[j].reader => i < j
  <2>1. source'[j] = source[j + 1] /\ j + 1 \in 1..Len(source)
    BY <1>2
  <2>2. \A i \in 1..Len(source') :
           source'[i] = source[i + 1] /\ i \in Int /\ i + 1 \in 1..Len(source)
    BY <1>2
  <2>3. \A i \in 1..Len(source') : Adds(i + 1, source'[j].reader) => i < j
    BY <1>4, <2>1, <2>2 DEF CInv, Ordered
  <2> QED
    BY <1>4, <2>1, <2>2, <2>3 DEF CInv, Ordered, Adds
<1>5. Ordered'
  BY <1>1, <1>4 DEF Ordered, Adds
<1>6. CASE Table(AddDestination)
  <2>1. /\ source[1].kind = "add" /\ UNCHANGED shut
        /\ destinations' = destinations \cup {source[1].reader}
    BY <1>2, <1>6 DEF AddDestination
  <2>4. ASSUME NEW q \in Reader, pc'[q] # "none", Fresh(q)'
        PROVE  \E k \in 1..Len(source') : Adds(k, q)'
    <3>1. Fresh(q) /\ pc[q] # "none" /\ q # source[1].reader
      BY <1>1, <2>1, <2>4 DEF Fresh
    <3>2. PICK i \in 1..Len(source) : Adds(i, q)
      BY <3>1 DEF CInv, OnItsWay
    <3>3. i # 1
      BY <3>1, <3>2 DEF Adds
    <3> QED
      BY <1>2, <3>2, <3>3 DEF Adds
  <2>2. OnItsWay'
    BY <2>4 DEF OnItsWay
  <2>3. UnderWay'
    BY <1>1, <1>2, <2>1, CleanedStays DEF CInv, UnderWay, Removes
  <2> QED
    BY <1>3, <1>5, <2>2, <2>3 DEF CInv
<1>7. CASE Table(RemoveDestination)
  <2>r. PICK r : r = source[1].reader
    OBVIOUS
  <2>1. /\ source[1].kind = "remove"
        /\ destinations' = destinations \ {r}
        /\ shut' = IF r \in destinations THEN [shut EXCEPT ![r] = "removed"] ELSE shut
    BY <1>2, <1>7, <2>r DEF RemoveDestination
  <2>2. r \in Reader /\ pc[r] # "none" /\ \A i \in 1..Len(source) : ~Adds(i, r)
    BY <1>2, <2>1, <2>r DEF CInv, Ordered
  <2>3. ~Fresh(r)
    BY <2>2 DEF CInv, OnItsWay
  <2>4. Gone(r)'
    BY <2>1, <2>2, <2>3 DEF Gone, Fresh, IInv, Shape
  <2>5. \A q \in Reader : Fresh(q)' => Fresh(q)
    BY <2>1, <2>2 DEF Fresh, IInv, Shape
  <2>9. ASSUME NEW q \in Reader, pc'[q] # "none", Fresh(q)'
        PROVE  \E k \in 1..Len(source') : Adds(k, q)'
    <3>1. PICK i \in 1..Len(source) : Adds(i, q)
      BY <1>1, <2>5, <2>9 DEF CInv, OnItsWay
    <3>2. i # 1
      BY <2>1, <3>1 DEF Adds
    <3> QED
      BY <1>2, <3>1, <3>2 DEF Adds
  <2>6. OnItsWay'
    BY <2>9 DEF OnItsWay
  <2>7. ASSUME NEW s \in Session, status[s] = "waiting"
        PROVE  Cleaned(s)' \/ \E i \in 1..Len(source') : Removes(i, s)'
    <3>1. CASE Cleaned(s)
      BY <3>1, CleanedStays
    <3>2. CASE SessionOf[r] = s
      BY <2>2, <2>4, <3>2 DEF Cleaned
    <3>3. CASE ~Cleaned(s) /\ SessionOf[r] # s
      <4>1. PICK i \in 1..Len(source) : Removes(i, s)
        BY <2>7, <3>3 DEF CInv, UnderWay
      <4>2. \E k \in 1..Len(source') : source'[k] = source[i]
        BY <1>2, <2>r, <3>3, <4>1 DEF Removes
      <4> QED
        BY <4>1, <4>2 DEF Removes
    <3> QED
      BY <3>1, <3>2, <3>3
  <2>8. UnderWay'
    BY <1>1, <2>7, CleanedStays DEF CInv, UnderWay
  <2> QED
    BY <1>3, <1>5, <2>6, <2>8 DEF CInv
<1> QED
  BY <1>6, <1>7

LEMMA DispatcherCleans ==
  ASSUME IInv, CInv, [Next]_vars, NEW r \in Reader,
         \/ Table(StartDispatch) \/ Table(FinishDispatch) \/ Table(TimerFires)
         \/ Table(Write(r)) \/ Table(Block(r)) \/ Table(WriteTimeout(r))
  PROVE  CInv'
<1> USE DEF Table, fwdVars, sessionVars, cacheVars, chanVars
<1>1. CASE Table(StartDispatch)
  BY <1>1, OtherTaken DEF StartDispatch, takeInput
<1>2. CASE Table(TimerFires) \/ Table(Write(r)) \/ Table(Block(r))
  BY <1>2, Untouched DEF TimerFires, Write, Block
<1>3. CASE Table(FinishDispatch) \/ Table(WriteTimeout(r))
  <2>1. UNCHANGED <<source, status, cleanupFn, pc>>
    BY <1>3 DEF FinishDispatch, WriteTimeout
  <2>2. \A q \in Reader : Fresh(q)' => Fresh(q)
    BY <1>3 DEF FinishDispatch, WriteTimeout, Visiting, Fresh, IInv, Shape, Round,
                CInv, SessionShape
  <2>3. SessionShape'
    BY <1>3, <2>1 DEF CInv, SessionShape, FinishDispatch, WriteTimeout, IInv, Shape
  <2>6. Ordered'
    BY <2>1 DEF CInv, Ordered, Adds
  <2>4. OnItsWay'
    BY <2>1, <2>2 DEF CInv, OnItsWay, Adds
  <2>5. UnderWay'
    BY <2>1, CleanedStays DEF CInv, UnderWay, Removes
  <2> QED
    BY <2>3, <2>4, <2>5, <2>6 DEF CInv
<1> QED
  BY <1>1, <1>2, <1>3

LEMMA TableCleans ==
  ASSUME IInv, CInv, Table(Feed) \/ Table(handleInput) \/ Table(PublishData)
  PROVE  CInv'
<1> USE DEF Table, fwdVars, sessionVars, chanVars, roundVars
<1>1. CASE Table(Feed) \/ Table(handleInput)
  BY <1>1, Untouched DEF Feed, handleInput
<1>2. CASE Table(PublishData)
  <2>1. publishing \in AnyInput /\ publishing.kind \notin {"add", "remove"}
    BY DEF IInv, Shape
  <2> QED
    BY <1>2, <2>1, OtherQueued DEF PublishData, SendSource
<1> QED
  BY <1>1, <1>2

LEMMA ReaderCleans ==
  ASSUME IInv, CInv, [Next]_vars, NEW r \in Reader,
         RetriveData(r) \/ Forwarder(r) \/ WriteJSONMessage(r)
  PROVE  CInv'
<1> USE DEF tableVars, fwdVars, sessionVars, chanVars, roundVars, Goto
<1>1. CASE RetriveData(r)
  <2>1. /\ pc[r] = "none" /\ pc' = [pc EXCEPT ![r] = "retrived"]
        /\ source' = Append(source, Breakpoint("add", r))
        /\ UNCHANGED <<destinations, shut, invalid, status, cleanupFn>>
    BY <1>1 DEF RetriveData, SendSource
  <2>2. /\ Len(source) \in Nat /\ Len(source') = Len(source) + 1
        /\ Len(source') \in 1..Len(source')
        /\ source'[Len(source')] = Breakpoint("add", r)
        /\ \A i \in 1..Len(source) : source'[i] = source[i] /\ i \in 1..Len(source')
    BY <2>1 DEF IInv, Shape
  <2>3. SessionShape'
    BY <2>1 DEF CInv, SessionShape, IInv, Shape
  <2>4. OnItsWay'
    BY <2>1, <2>2 DEF CInv, OnItsWay, Adds, Fresh, Breakpoint, IInv, Shape
  <2>5. Ordered'
    BY <2>1, <2>2 DEF CInv, Ordered, Adds, Breakpoint, IInv, Shape
  <2>6. UnderWay'
    BY <2>1, <2>2, CleanedStays DEF CInv, UnderWay, Removes
  <2> QED
    BY <2>3, <2>4, <2>5, <2>6 DEF CInv
<1>2. CASE SetCleanup(r)
  <2>1. /\ pc[r] = "retrived" /\ pc' = [pc EXCEPT ![r] = "asking"]
        /\ cleanupFn' = [cleanupFn EXCEPT ![SessionOf[r]] = r]
        /\ UNCHANGED <<source, destinations, shut, invalid, status>>
    BY <1>2 DEF SetCleanup
  <2>2. \A q \in Reader : pc'[q] = "none" <=> pc[q] = "none"
    BY <2>1 DEF IInv, Shape
  <2>3. SessionShape'
    BY <2>1, <2>2, SessionAssumption, NoneAssumption DEF CInv, SessionShape, IInv, Shape
  <2>4. OnItsWay' /\ Ordered' /\ UnderWay'
    BY <2>1, <2>2, CleanedStays
       DEF CInv, OnItsWay, Ordered, UnderWay, Adds, Removes, Fresh
  <2> QED
    BY <2>3, <2>4 DEF CInv
<1>3. CASE TakeSnapshot(r) \/ Receive(r) \/ RangeEnds(r) \/ WriteJSONMessage(r)
  <2>1. /\ UNCHANGED <<source, destinations, shut, invalid, status, cleanupFn>>
        /\ pc[r] # "none" /\ \E next \in {"reading", "writing", "ended"} :
              pc' = [pc EXCEPT ![r] = next]
    BY <1>3 DEF TakeSnapshot, Receive, RangeEnds, WriteJSONMessage
  <2> QED
    BY <2>1, Untouched DEF IInv, Shape
<1> QED
  BY <1>1, <1>2, <1>3 DEF Forwarder

LEMMA SessionCleans ==
  ASSUME IInv, CInv, [Next]_vars, NEW s \in Session, Close(s) \/ Closing(s)
  PROVE  CInv'
<1> USE DEF tableVars, fwdVars, chanVars, roundVars
<1>1. CASE SenderStops(s)
  BY <1>1, Untouched DEF SenderStops
<1>2. CASE Close(s)
  <2>1. UNCHANGED <<source, destinations, shut, invalid, cleanupFn, pc>>
        /\ status' = [status EXCEPT ![s] = IF cleanupFn[s] = None THEN "closed" ELSE "cleanup"]
    BY <1>2 DEF Close
  <2>2. SessionShape' /\ OnItsWay' /\ Ordered'
    BY <2>1 DEF CInv, SessionShape, OnItsWay, Ordered, Adds, Fresh
  <2>3. UnderWay'
    BY <2>1, CleanedStays DEF CInv, SessionShape, UnderWay, Removes
  <2> QED
    BY <2>2, <2>3 DEF CInv
<1>3. CASE RetriveShut(s)
  <2>1. UNCHANGED <<source, destinations, shut, invalid, cleanupFn, pc>>
        /\ status' = [status EXCEPT ![s] = "cleaned"] /\ status[s] = "waiting"
        /\ \A i \in 1..Len(source) :
              ~(source[i].kind = "remove" /\ SessionOf[source[i].reader] = s)
    BY <1>3 DEF RetriveShut, IInv, Shape
  <2>2. SessionShape' /\ OnItsWay' /\ Ordered'
    BY <2>1 DEF CInv, SessionShape, OnItsWay, Ordered, Adds, Fresh
  <2>3. Cleaned(s)
    BY <2>1 DEF CInv, UnderWay, Removes
  <2>4. UnderWay'
    BY <2>1, <2>3, CleanedStays DEF CInv, SessionShape, UnderWay, Removes
  <2> QED
    BY <2>2, <2>4 DEF CInv
<1>4. CASE ShutdownRetrive(s)
  <2>1. /\ status[s] = "cleanup" /\ status' = [status EXCEPT ![s] = "waiting"]
        /\ source' = Append(source, Breakpoint("remove", cleanupFn[s]))
        /\ UNCHANGED <<destinations, shut, invalid, cleanupFn, pc>>
    BY <1>4 DEF ShutdownRetrive, SendSource
  <2>2. /\ cleanupFn[s] \in Reader /\ SessionOf[cleanupFn[s]] = s
        /\ pc[cleanupFn[s]] # "none"
    BY <2>1 DEF CInv, SessionShape, IInv, Shape
  <2>3. /\ Len(source) \in Nat /\ Len(source') = Len(source) + 1
        /\ Len(source') \in 1..Len(source')
        /\ source'[Len(source')].kind = "remove"
        /\ source'[Len(source')].reader = cleanupFn[s]
        /\ \A i \in 1..Len(source) : source'[i] = source[i] /\ i \in 1..Len(source')
    BY <2>1 DEF IInv, Shape, Breakpoint
  <2>4. SessionShape'
    BY <2>1 DEF CInv, SessionShape
  <2>5. OnItsWay'
    BY <2>1, <2>3 DEF CInv, OnItsWay, Adds, Fresh
  <2>6. Ordered'
    BY <2>1, <2>2, <2>3 DEF CInv, Ordered, Adds
  <2>7. UnderWay'
    BY <2>1, <2>2, <2>3, CleanedStays DEF CInv, SessionShape, UnderWay, Removes
  <2> QED
    BY <2>4, <2>5, <2>6, <2>7 DEF CInv
<1> QED
  BY <1>1, <1>2, <1>3, <1>4 DEF Closing

LEMMA NextCInv == IInv /\ CInv /\ [Next]_vars => CInv'
<1> SUFFICES ASSUME IInv, CInv, [Next]_vars PROVE CInv'
  OBVIOUS
<1>1. CASE Table(StartDispatch)
  BY <1>1, OtherTaken DEF Table, StartDispatch, takeInput, chanVars, fwdVars, sessionVars
<1>2. CASE Table(FinishDispatch) \/ Table(TimerFires)
  <2>1. CASE Reader # {}
    BY <1>2, <2>1, DispatcherCleans
  <2>2. CASE Reader = {}
    BY <1>2, <2>2 DEF Table, FinishDispatch, TimerFires, fwdVars, sessionVars, chanVars,
       cacheVars, CInv, SessionShape, OnItsWay, Ordered, UnderWay, Adds, Removes, Cleaned
  <2> QED
    BY <2>1, <2>2
<1>3. CASE UNCHANGED vars
  BY <1>3, Untouched
     DEF vars, tableVars, cacheVars, chanVars, roundVars, fwdVars, sessionVars
<1>4. CASE Next /\ ~(Table(StartDispatch) \/ Table(FinishDispatch) \/ Table(TimerFires))
  BY <1>4, TableCleans, BreakpointsClean, DispatcherCleans, ReaderCleans, SessionCleans,
     SessionAssumption DEF Next
<1> QED
  BY <1>1, <1>2, <1>3, <1>4

(* Close, having run the function SetCleanup was given, leaves no open      *)
(* destination of that subscription in the stream (session.go:113,          *)
(* channel.go:154-174), whatever the dispatcher was doing meanwhile.        *)
THEOREM CloseCleans == Spec => []CleanupDone
<1>1. CInv => CleanupDone
  BY DEF CInv, UnderWay, Cleaned, Gone, CleanupDone
<1> QED
  BY <1>1, InitIInv, NextIInv, InitCInv, NextCInv, PTL DEF Spec

-----------------------------------------------------------------------------
(* The types, goroutine by goroutine.  The cache applies no more messages   *)
(* than have been fed, because those in the pipeline are numbered upwards   *)
(* from its own number; who asks for a snapshot is a reader.                *)
CacheTypes ==
    /\ fed \in 0..MaxData
    /\ pipeline \in Seq(Input) /\ Len(pipeline) <= PipeCap
    /\ applied \in 0..fed
    /\ publishing \in Input
    /\ answered \subseteq Reader

SourceTypes == source \in Seq(Input) /\ Len(source) <= SourceCap

DispatcherTypes ==
    /\ destinations \subseteq Reader
    /\ dest \in [Reader -> Seq(Input)]
    /\ shut \in [Reader -> {"open", "removed", "timeout"}]
    /\ dispatching \in Input
    /\ left \subseteq Reader /\ invalid \subseteq Reader
    /\ blocked \in Reader \cup {None}
    /\ armed \in BOOLEAN /\ fired \in BOOLEAN

SessionTypes ==
    /\ pc \in [Reader -> {"none", "retrived", "asking", "reading",
                          "writing", "ended"}]
    /\ got \in [Reader -> Seq(Input)]
    /\ status \in [Session -> {"open", "cleanup", "waiting", "cleaned", "closed"}]
    /\ cleanupFn \in [Session -> Reader \cup {None}]
    /\ sending \in [Session -> BOOLEAN]

Numbered ==
    /\ \A i \in 1..Len(pipeline) : pipeline[i].kind = "data" =>
          /\ applied < pipeline[i].n /\ pipeline[i].n <= fed
          /\ \A j \in 1..Len(pipeline) :
                i < j /\ pipeline[j].kind = "data" => pipeline[i].n < pipeline[j].n
    /\ \A i \in 1..Len(pipeline) : pipeline[i].kind = "ask" => pipeline[i].reader \in Reader
    /\ publishing.kind = "snap" => publishing.reader \in Reader

Produced == CacheTypes /\ Numbered
TInv == Produced /\ SourceTypes /\ DispatcherTypes /\ SessionTypes

LEMMA Typed == TInv => TypeOK
  BY DEF TInv, Produced, CacheTypes, SourceTypes, DispatcherTypes, SessionTypes,
         TypeOK, TableTypeOK

LEMMA InputTypes ==
  /\ NoInput \in Input /\ NoInput.kind = "ask"
  /\ \A k \in Kind, r \in Reader \cup {None} :
        /\ Breakpoint(k, r) \in Input
        /\ Breakpoint(k, r).kind = k /\ Breakpoint(k, r).reader = r
  /\ \A n \in 0..MaxData, r \in Reader \cup {None} :
        /\ Data(n, r) \in Input /\ Data(n, r).kind = "data" /\ Data(n, r).n = n
        /\ Snap(n, r) \in Input /\ Snap(n, r).kind = "snap" /\ Snap(n, r).reader = r
  BY MaxDataAssumption DEF NoInput, Breakpoint, Data, Snap, Input, Kind

(* A bounded queue with one message more, or its first taken.               *)
LEMMA QueueTypes ==
  ASSUME NEW q \in Seq(Input), NEW cap \in Nat, Len(q) <= cap
  PROVE  /\ \A in \in Input :
               /\ Append(q, in) \in Seq(Input) /\ Len(Append(q, in)) = Len(q) + 1
               /\ \A i \in 1..Len(q) : Append(q, in)[i] = q[i]
               /\ Append(q, in)[Len(q) + 1] = in
         /\ Len(q) < cap => \A in \in Input : Len(Append(q, in)) <= cap
         /\ q # <<>> => /\ Tail(q) \in Seq(Input) /\ Len(Tail(q)) = Len(q) - 1
                        /\ Len(Tail(q)) <= cap
                        /\ Head(q) \in Input /\ Head(q) = q[1] /\ 1 \in 1..Len(q)
                        /\ \A i \in 1..Len(Tail(q)) :
                              Tail(q)[i] = q[i + 1] /\ i + 1 \in 1..Len(q)
  OBVIOUS

LEMMA InitTypes == Init => TInv
<1>. SUFFICES ASSUME Init PROVE TInv
  OBVIOUS
<1>1. /\ fed = 0 /\ pipeline = <<>> /\ applied = 0 /\ publishing = NoInput /\ answered = {}
      /\ Len(pipeline) = 0 /\ PipeCap \in Nat /\ MaxData \in Nat
  BY CapAssumption, MaxDataAssumption DEF Init, TableInit
<1>5. CacheTypes
  BY <1>1, InputTypes DEF CacheTypes
<1>6. Numbered
  BY <1>1, InputTypes DEF Numbered
<1>2. SourceTypes
  BY CapAssumption DEF Init, TableInit, SourceTypes
<1>3. DispatcherTypes
  <2>1. dest \in [Reader -> Seq(Input)] /\ shut \in [Reader -> {"open", "removed", "timeout"}]
    BY DEF Init, TableInit
  <2>. QED  BY <2>1, InputTypes DEF Init, TableInit, DispatcherTypes
<1>4. SessionTypes
  BY DEF Init, SessionTypes
<1>. QED  BY <1>5, <1>6, <1>2, <1>3, <1>4 DEF TInv, Produced

(* What a step leaves alone keeps its types.                                *)
LEMMA Kept ==
  ASSUME TInv
  PROVE  /\ UNCHANGED <<fed, cacheVars>> => Produced'
         /\ UNCHANGED source => SourceTypes'
         /\ UNCHANGED <<chanVars, roundVars>> => DispatcherTypes'
         /\ UNCHANGED <<fwdVars, sessionVars>> => SessionTypes'
<1>1. UNCHANGED <<fed, cacheVars>> => Produced'
  BY DEF TInv, cacheVars, Produced, CacheTypes, Numbered
<1>2. UNCHANGED source => SourceTypes'
  BY DEF TInv, SourceTypes
<1>3. UNCHANGED <<chanVars, roundVars>> => DispatcherTypes'
  BY DEF TInv, chanVars, roundVars, DispatcherTypes
<1>4. UNCHANGED <<fwdVars, sessionVars>> => SessionTypes'
  BY DEF TInv, fwdVars, sessionVars, SessionTypes
<1>. QED  BY <1>1, <1>2, <1>3, <1>4

LEMMA SendTypes ==
  ASSUME TInv, NEW in \in Input, SendSource(in)
  PROVE  SourceTypes'
<1>1. SourceCap \in Nat /\ source \in Seq(Input) /\ Len(source) <= SourceCap
  BY CapAssumption DEF TInv, SourceTypes
<1>. QED  BY <1>1, QueueTypes DEF SendSource, SourceTypes

(* A message is queued behind the others, or a breakpoint.                  *)
LEMMA PipelineGrows ==
  ASSUME TInv, NEW in \in Input, SendPipeline(in), fed' \in 0..MaxData, fed <= fed',
         in.kind = "data" => in.n = fed + 1 /\ in.n <= fed',
         in.kind = "ask" => in.reader \in Reader
  PROVE  Produced'
<1>1. /\ pipeline' = Append(pipeline, in) /\ Len(pipeline) < PipeCap
      /\ applied' = applied /\ publishing' = publishing /\ answered' = answered
  BY DEF SendPipeline
<1>2. /\ pipeline \in Seq(Input) /\ Len(pipeline) <= PipeCap /\ PipeCap \in Nat
      /\ Len(pipeline) \in Nat /\ fed \in Nat /\ fed' \in Nat /\ applied \in 0..fed
  BY CapAssumption, MaxDataAssumption DEF TInv, Produced, CacheTypes
<1>3. /\ pipeline' \in Seq(Input) /\ Len(pipeline') <= PipeCap
      /\ Len(pipeline') = Len(pipeline) + 1
      /\ \A i \in 1..Len(pipeline) : pipeline'[i] = pipeline[i]
      /\ pipeline'[Len(pipeline) + 1] = in
  BY <1>1, <1>2, QueueTypes
<1>4. \A i \in 1..Len(pipeline') : i \in 1..Len(pipeline) \/ i = Len(pipeline) + 1
  BY <1>2, <1>3
<1>5. \A i \in 1..Len(pipeline) : pipeline[i].n \in Nat
  <2>1. \A i \in 1..Len(pipeline) : pipeline[i] \in Input
    BY <1>2
  <2>2. \A msg \in Input : msg.n \in Nat
    BY MaxDataAssumption DEF Input
  <2>. QED  BY <2>1, <2>2
<1>6. CacheTypes'
  <2>1. applied' \in 0..fed'
    BY <1>1, <1>2
  <2>2. publishing' \in Input /\ answered' \subseteq Reader
    BY <1>1 DEF TInv, Produced, CacheTypes
  <2>. QED  BY <1>3, <2>1, <2>2 DEF CacheTypes
<1>7. ASSUME NEW i \in 1..Len(pipeline'), pipeline'[i].kind = "data"
      PROVE  /\ applied' < pipeline'[i].n /\ pipeline'[i].n <= fed'
             /\ \A j \in 1..Len(pipeline') :
                   i < j /\ pipeline'[j].kind = "data" => pipeline'[i].n < pipeline'[j].n
  <2>1. CASE i \in 1..Len(pipeline)
    <3>1. pipeline'[i] = pipeline[i] /\ pipeline[i].kind = "data" /\ pipeline[i].n \in Nat
      BY <1>3, <1>5, <1>7, <2>1
    <3>2. applied < pipeline[i].n /\ pipeline[i].n <= fed
      BY <2>1, <3>1 DEF TInv, Produced, Numbered
    <3>3. ASSUME NEW j \in 1..Len(pipeline'), i < j, pipeline'[j].kind = "data"
          PROVE  pipeline'[i].n < pipeline'[j].n
      <4>1. CASE j \in 1..Len(pipeline)
        <5>1. pipeline'[j] = pipeline[j]
          BY <1>3, <4>1
        <5>. QED  BY <2>1, <3>1, <3>3, <4>1, <5>1 DEF TInv, Produced, Numbered
      <4>2. CASE j = Len(pipeline) + 1
        <5>1. pipeline'[j] = in /\ in.n = fed + 1
          BY <1>3, <3>3, <4>2
        <5>. QED  BY <1>2, <3>1, <3>2, <5>1
      <4>. QED  BY <1>4, <4>1, <4>2
    <3>4. applied' < pipeline'[i].n /\ pipeline'[i].n <= fed'
      BY <1>1, <1>2, <3>1, <3>2
    <3>. QED  BY <3>3, <3>4
  <2>2. CASE i = Len(pipeline) + 1
    <3>1. pipeline'[i] = in /\ in.n = fed + 1 /\ in.n <= fed'
      BY <1>3, <1>7, <2>2
    <3>2. \A j \in 1..Len(pipeline') : ~(i < j)
      BY <1>2, <1>3, <2>2
    <3>. QED  BY <1>1, <1>2, <3>1, <3>2
  <2>. QED  BY <1>4, <2>1, <2>2
<1>8. ASSUME NEW i \in 1..Len(pipeline'), pipeline'[i].kind = "ask"
      PROVE  pipeline'[i].reader \in Reader
  <2>1. CASE i \in 1..Len(pipeline)
    BY <1>3, <1>8, <2>1 DEF TInv, Produced, Numbered
  <2>2. CASE i = Len(pipeline) + 1
    BY <1>3, <1>8, <2>2
  <2>. QED  BY <1>4, <2>1, <2>2
<1>9. publishing'.kind = "snap" => publishing'.reader \in Reader
  BY <1>1 DEF TInv, Produced, Numbered
<1>10. Numbered'
  BY <1>7, <1>8, <1>9 DEF Numbered
<1>. QED  BY <1>6, <1>10 DEF Produced

LEMMA FeedTypes == TInv /\ Table(Feed) => TInv'
<1>. SUFFICES ASSUME TInv, Table(Feed) PROVE TInv'
  OBVIOUS
<1>1. /\ fed' = fed + 1 /\ fed < MaxData /\ SendPipeline(Data(fed', None))
      /\ UNCHANGED <<source, chanVars, roundVars, fwdVars, sessionVars>>
  BY DEF Table, Feed
<1>2. fed \in Nat /\ fed' \in 0..MaxData /\ fed <= fed' /\ fed' <= fed'
  BY <1>1, MaxDataAssumption DEF TInv, Produced, CacheTypes
<1>3. Data(fed', None) \in Input /\ Data(fed', None).kind = "data" /\ Data(fed', None).n = fed'
  BY <1>2, InputTypes
<1>4. Produced'
  BY <1>1, <1>2, <1>3, PipelineGrows
<1>. QED  BY <1>1, <1>4, Kept DEF TInv

LEMMA ApplyTypes == TInv /\ Table(handleInput) => TInv'
<1>. SUFFICES ASSUME TInv, Table(handleInput) PROVE TInv'
  OBVIOUS
<1>1. /\ pipeline # <<>> /\ pipeline' = Tail(pipeline)
      /\ fed' = fed /\ answered' = answered
      /\ UNCHANGED <<source, chanVars, roundVars, fwdVars, sessionVars>>
  BY DEF Table, handleInput
<1>2. /\ pipeline \in Seq(Input) /\ Len(pipeline) <= PipeCap /\ PipeCap \in Nat
      /\ applied \in 0..fed /\ fed \in 0..MaxData /\ MaxData \in Nat /\ answered \subseteq Reader
  BY CapAssumption, MaxDataAssumption DEF TInv, Produced, CacheTypes
<1>3. /\ pipeline' \in Seq(Input) /\ Len(pipeline') <= PipeCap /\ Len(pipeline') \in Nat
      /\ Head(pipeline) = pipeline[1] /\ 1 \in 1..Len(pipeline)
      /\ \A i \in 1..Len(pipeline') : pipeline'[i] = pipeline[i + 1] /\ i + 1 \in 1..Len(pipeline)
  BY <1>1, <1>2, QueueTypes
<1>4. \A i \in 1..Len(pipeline) : pipeline[i].n \in Nat
  <2>1. \A i \in 1..Len(pipeline) : pipeline[i] \in Input
    BY <1>2
  <2>2. \A msg \in Input : msg.n \in Nat
    BY MaxDataAssumption DEF Input
  <2>. QED  BY <2>1, <2>2
<1>5. \A i \in 1..Len(pipeline') : pipeline'[i].kind = "ask" => pipeline'[i].reader \in Reader
  BY <1>3 DEF TInv, Produced, Numbered
<1>6. ASSUME NEW i \in 1..Len(pipeline'), pipeline'[i].kind = "data"
      PROVE  /\ applied < pipeline'[i].n /\ pipeline'[i].n <= fed
             /\ pipeline[1].kind = "data" => pipeline[1].n < pipeline'[i].n
             /\ \A j \in 1..Len(pipeline') :
                   i < j /\ pipeline'[j].kind = "data" => pipeline'[i].n < pipeline'[j].n
  <2>1. i + 1 \in 1..Len(pipeline) /\ 1 < i + 1 /\ pipeline'[i] = pipeline[i + 1]
    BY <1>3
  <2>2. applied < pipeline'[i].n /\ pipeline'[i].n <= fed
    BY <1>6, <2>1 DEF TInv, Produced, Numbered
  <2>3. pipeline[1].kind = "data" => pipeline[1].n < pipeline'[i].n
    BY <1>3, <1>6, <2>1 DEF TInv, Produced, Numbered
  <2>4. ASSUME NEW j \in 1..Len(pipeline'), i < j, pipeline'[j].kind = "data"
        PROVE  pipeline'[i].n < pipeline'[j].n
    <3>1. j + 1 \in 1..Len(pipeline) /\ i + 1 < j + 1 /\ pipeline'[j] = pipeline[j + 1]
      BY <1>3, <2>4
    <3>. QED  BY <1>6, <2>1, <2>4, <3>1 DEF TInv, Produced, Numbered
  <2>. QED  BY <2>2, <2>3, <2>4
<1>7. Produced'
  <2>1. CASE /\ Head(pipeline).kind = "data"
             /\ applied' = applied + 1 /\ publishing' = Data(applied', None)
    <3>1. pipeline[1].kind = "data" /\ applied < pipeline[1].n /\ pipeline[1].n <= fed
      BY <1>3, <2>1 DEF TInv, Produced, Numbered
    <3>2. /\ pipeline[1].n \in Nat /\ applied \in Nat /\ fed \in Nat
          /\ applied' <= pipeline[1].n /\ applied' \in 0..fed /\ applied' \in 0..MaxData
      BY <1>2, <1>3, <1>4, <2>1, <3>1
    <3>3. publishing' \in Input /\ publishing'.kind = "data"
      BY <2>1, <3>2, InputTypes
    <3>4. ASSUME NEW i \in 1..Len(pipeline'), pipeline'[i].kind = "data"
          PROVE  applied' < pipeline'[i].n
      <4>1. pipeline[1].n < pipeline'[i].n /\ pipeline'[i].n \in Nat
        BY <1>3, <1>4, <1>6, <3>1, <3>4
      <4>. QED  BY <3>2, <4>1
    <3>5. Numbered'
      BY <1>1, <1>5, <1>6, <3>3, <3>4 DEF Numbered
    <3>. QED  BY <1>1, <1>2, <1>3, <3>2, <3>3, <3>5 DEF Produced, CacheTypes
  <2>2. CASE /\ Head(pipeline).kind = "ask"
             /\ publishing' = Snap(applied, Head(pipeline).reader) /\ applied' = applied
    <3>1. Head(pipeline).reader \in Reader
      BY <1>3, <2>2 DEF TInv, Produced, Numbered
    <3>2. applied \in 0..MaxData
      BY <1>2
    <3>3. publishing' \in Input /\ publishing'.reader \in Reader
      BY <2>2, <3>1, <3>2, InputTypes
    <3>4. Numbered'
      BY <1>1, <1>5, <1>6, <2>2, <3>3 DEF Numbered
    <3>. QED  BY <1>1, <1>2, <1>3, <2>2, <3>3, <3>4 DEF Produced, CacheTypes
  <2>. QED  BY <2>1, <2>2 DEF Table, handleInput
<1>. QED  BY <1>1, <1>7, Kept DEF TInv

LEMMA PublishTypes == TInv /\ Table(PublishData) => TInv'
<1>. SUFFICES ASSUME TInv, Table(PublishData) PROVE TInv'
  OBVIOUS
<1>1. /\ SendSource(publishing) /\ publishing' = NoInput
      /\ fed' = fed /\ pipeline' = pipeline /\ applied' = applied
      /\ answered' = IF publishing.kind = "snap"
                       THEN answered \cup {publishing.reader} ELSE answered
      /\ UNCHANGED <<chanVars, roundVars, fwdVars, sessionVars>>
  BY DEF Table, PublishData
<1>2. publishing \in Input /\ answered' \subseteq Reader
  BY <1>1 DEF TInv, Produced, CacheTypes, Numbered
<1>3. SourceTypes'
  BY <1>1, <1>2, SendTypes
<1>4. Numbered'
  BY <1>1, InputTypes DEF TInv, Produced, Numbered
<1>5. CacheTypes'
  BY <1>1, <1>2, InputTypes DEF TInv, Produced, CacheTypes
<1>. QED  BY <1>1, <1>3, <1>4, <1>5, Kept DEF TInv, Produced

(* The dispatcher: who is added is a reader, by the invariant above.        *)
LEMMA DispatcherTyped ==
  ASSUME IInv, TInv,
         \/ Table(AddDestination) \/ Table(RemoveDestination)
         \/ Table(StartDispatch) \/ Table(FinishDispatch) \/ Table(TimerFires)
  PROVE  TInv'
<1>1. UNCHANGED <<fed, cacheVars, fwdVars, sessionVars>>
  BY DEF Table, AddDestination, RemoveDestination, StartDispatch, FinishDispatch,
         TimerFires, takeInput
<1>2. SourceTypes'
  <2>1. CASE takeInput
    <3>1. SourceCap \in Nat /\ source \in Seq(Input) /\ Len(source) <= SourceCap
      BY CapAssumption DEF TInv, SourceTypes
    <3>. QED  BY <2>1, <3>1, QueueTypes DEF takeInput, SourceTypes
  <2>2. CASE UNCHANGED source
    BY <2>2, Kept
  <2>. QED
    BY <2>1, <2>2 DEF Table, AddDestination, RemoveDestination, StartDispatch,
                      FinishDispatch, TimerFires
<1>3. takeInput => /\ Head(source) \in Input
                   /\ Head(source).kind = "add" => Head(source).reader \in Reader
  <2>. SUFFICES ASSUME takeInput
                PROVE  /\ Head(source) \in Input
                       /\ Head(source).kind = "add" => Head(source).reader \in Reader
    OBVIOUS
  <2>1. SourceCap \in Nat /\ source \in Seq(Input) /\ Len(source) <= SourceCap /\ source # <<>>
    BY CapAssumption DEF TInv, SourceTypes, takeInput
  <2>2. Head(source) \in Input /\ Head(source) = source[1] /\ 1 \in 1..Len(source)
    BY <2>1, QueueTypes
  <2>. QED  BY <2>2 DEF IInv, NewOnce
<1>4. DispatcherTypes'
  <2>1. CASE AddDestination
    BY <1>3, <2>1 DEF AddDestination, roundVars, TInv, DispatcherTypes
  <2>2. CASE RemoveDestination
    BY <2>2 DEF RemoveDestination, roundVars, TInv, DispatcherTypes
  <2>3. CASE StartDispatch
    BY <1>3, <2>3 DEF StartDispatch, chanVars, TInv, DispatcherTypes
  <2>4. CASE FinishDispatch
    BY <2>4, InputTypes DEF FinishDispatch, TInv, DispatcherTypes
  <2>5. CASE TimerFires
    BY <2>5 DEF TimerFires, chanVars, TInv, DispatcherTypes
  <2>. QED  BY <2>1, <2>2, <2>3, <2>4, <2>5 DEF Table
<1>. QED  BY <1>1, <1>2, <1>4, Kept DEF TInv

LEMMA VisitTyped ==
  ASSUME TInv, NEW r \in Reader,
         Table(Write(r)) \/ Table(Block(r)) \/ Table(WriteTimeout(r))
  PROVE  TInv'
<1>1. UNCHANGED <<fed, cacheVars, source, fwdVars, sessionVars>>
  BY DEF Table, Write, Block, WriteTimeout
<1>2. DispatcherTypes'
  <2>1. CASE Write(r)
    <3>1. Append(dest[r], dispatching) \in Seq(Input)
      BY DEF TInv, DispatcherTypes
    <3>. QED  BY <2>1, <3>1 DEF Write, TInv, DispatcherTypes
  <2>2. CASE Block(r)
    BY <2>2 DEF Block, chanVars, TInv, DispatcherTypes
  <2>3. CASE WriteTimeout(r)
    BY <2>3 DEF WriteTimeout, TInv, DispatcherTypes
  <2>. QED  BY <2>1, <2>2, <2>3 DEF Table
<1>. QED  BY <1>1, <1>2, Kept DEF TInv

LEMMA ReaderTyped ==
  ASSUME TInv, NEW r \in Reader, RetriveData(r) \/ Forwarder(r) \/ WriteJSONMessage(r)
  PROVE  TInv'
<1>1. CASE RetriveData(r)
  <2>1. SourceTypes'
    BY <1>1, InputTypes, SendTypes DEF RetriveData, Kind
  <2>2. SessionTypes'
    BY <1>1 DEF RetriveData, Goto, sessionVars, TInv, SessionTypes
  <2>. QED  BY <1>1, <2>1, <2>2, Kept DEF RetriveData, TInv
<1>2. CASE SetCleanup(r)
  <2>1. SessionTypes'
    BY <1>2 DEF SetCleanup, Goto, TInv, SessionTypes
  <2>. QED  BY <1>2, <2>1, Kept DEF SetCleanup, tableVars, TInv
<1>3. CASE TakeSnapshot(r)
  <2>1. /\ SendPipeline(Breakpoint("ask", r)) /\ fed' = fed
        /\ UNCHANGED <<source, chanVars, roundVars>>
    BY <1>3 DEF TakeSnapshot
  <2>2. fed' \in 0..MaxData /\ fed <= fed'
    BY <2>1, MaxDataAssumption DEF TInv, Produced, CacheTypes
  <2>3. Breakpoint("ask", r) \in Input /\ Breakpoint("ask", r).kind = "ask"
        /\ Breakpoint("ask", r).reader = r
    BY InputTypes DEF Kind
  <2>4. Produced'
    BY <2>1, <2>2, <2>3, PipelineGrows
  <2>5. SessionTypes'
    BY <1>3 DEF TakeSnapshot, Goto, sessionVars, TInv, SessionTypes
  <2>. QED  BY <2>1, <2>4, <2>5, Kept DEF TInv
<1>4. CASE Receive(r)
  <2>1. dest[r] \in Seq(Input) /\ dest[r] # <<>> /\ got[r] \in Seq(Input)
    BY <1>4 DEF Receive, TInv, DispatcherTypes, SessionTypes
  <2>2. Tail(dest[r]) \in Seq(Input) /\ Append(got[r], Head(dest[r])) \in Seq(Input)
    BY <2>1
  <2>3. DispatcherTypes'
    BY <1>4, <2>2 DEF Receive, roundVars, TInv, DispatcherTypes
  <2>4. SessionTypes'
    BY <1>4, <2>2 DEF Receive, Goto, sessionVars, TInv, SessionTypes
  <2>. QED  BY <1>4, <2>3, <2>4, Kept DEF Receive, TInv
<1>5. CASE RangeEnds(r) \/ WriteJSONMessage(r)
  <2>1. SessionTypes'
    BY <1>5 DEF RangeEnds, WriteJSONMessage, Goto, sessionVars, TInv, SessionTypes
  <2>. QED  BY <1>5, <2>1, Kept DEF RangeEnds, WriteJSONMessage, tableVars, TInv
<1>. QED  BY <1>1, <1>2, <1>3, <1>4, <1>5 DEF Forwarder

LEMMA SessionTyped ==
  ASSUME TInv, NEW s \in Session, Close(s) \/ Closing(s)
  PROVE  TInv'
<1>1. CASE Close(s) \/ SenderStops(s) \/ RetriveShut(s)
  <2>1. SessionTypes'
    BY <1>1 DEF Close, SenderStops, RetriveShut, fwdVars, TInv, SessionTypes
  <2>. QED
    BY <1>1, <2>1, Kept DEF Close, SenderStops, RetriveShut, tableVars, TInv
<1>2. CASE ShutdownRetrive(s)
  <2>1. cleanupFn[s] \in Reader \cup {None}
    BY DEF TInv, SessionTypes
  <2>2. SourceTypes'
    BY <1>2, <2>1, InputTypes, SendTypes DEF ShutdownRetrive, Kind
  <2>3. SessionTypes'
    BY <1>2 DEF ShutdownRetrive, fwdVars, TInv, SessionTypes
  <2>. QED  BY <1>2, <2>2, <2>3, Kept DEF ShutdownRetrive, TInv
<1>. QED  BY <1>1, <1>2 DEF Closing

LEMMA NextTInv == IInv /\ TInv /\ [Next]_vars => TInv'
<1>. SUFFICES ASSUME IInv, TInv, [Next]_vars PROVE TInv'
  OBVIOUS
<1>1. CASE Next
  BY <1>1, FeedTypes, ApplyTypes, PublishTypes, DispatcherTyped, VisitTyped,
     ReaderTyped, SessionTyped, SessionAssumption DEF Next
<1>2. CASE UNCHANGED vars
  BY <1>2, Kept DEF vars, tableVars, TInv
<1>. QED  BY <1>1, <1>2

(* Every queue stays within its capacity, the cache applies no more than it *)
(* was fed, and only readers are in the map, answered, or given back.       *)
THEOREM TypeCorrect == Spec => []TypeOK
<1>1. Init => IInv /\ TInv
  BY InitIInv, InitTypes
<1>2. (IInv /\ TInv) /\ [Next]_vars => (IInv /\ TInv)'
  BY NextIInv, NextTInv
<1>. QED  BY <1>1, <1>2, Typed, PTL DEF Spec

-----------------------------------------------------------------------------
(* One stretch of the stream.  A level is the number of messages a snapshot *)
(* would contain.  Along the source the level goes up by one with every     *)
(* message, and each message or snapshot carries the level it leads to; so  *)
(* there is a level b[0] the dispatcher has come to, and every destination  *)
(* in its map holds it, except those it still has to visit, which are one   *)
(* message behind.                                                          *)
Rise(m) == IF m.kind = "data" THEN 1 ELSE 0
Flows(m) == m.kind \in {"data", "snap"}

Seen(r) == got[r] \o dest[r]

Gapless(s) == \A i \in 1..(Len(s) - 1) : s[i + 1].n = s[i].n + Rise(s[i + 1])

StreamShape ==
    /\ got \in [Reader -> Seq(AnyInput)] /\ dest \in [Reader -> Seq(AnyInput)]
    /\ dispatching \in AnyInput
    /\ dispatching # NoInput => Flows(dispatching)
    /\ publishing # NoInput => Flows(publishing)

(* A message is for everybody.                                              *)
ForAll ==
    /\ publishing.kind = "data" => publishing.reader = None
    /\ \A i \in 1..Len(source) : source[i].kind = "data" => source[i].reader = None

(* A destination that has not come into the map has nothing; one that the   *)
(* dispatcher has given up on is not open.                                  *)
Unseen ==
    /\ \A r \in Reader : Fresh(r) => Seen(r) = <<>>
    /\ \A r \in invalid : shut[r] # "open"

SourceLevels(b) ==
    /\ b \in [0..Len(source) -> Int]
    /\ \A i \in 1..Len(source) :
          /\ b[i] = b[i - 1] + Rise(source[i])
          /\ Flows(source[i]) => source[i].n = b[i]

LastLevel(b) ==
    /\ b[Len(source)] = applied - Rise(publishing)
    /\ Flows(publishing) => publishing.n = applied

Behind(r) == IF r \in left THEN Rise(dispatching) ELSE 0

SeenLevel(n) ==
    /\ dispatching # NoInput => dispatching.n = n
    /\ \A r \in destinations \ invalid :
          Seen(r) # <<>> => Seen(r)[Len(Seen(r))].n = n - Behind(r)

Levels(b) == SourceLevels(b) /\ LastLevel(b) /\ SeenLevel(b[0])

AllGapless == \A r \in Reader : Gapless(Seen(r))

GInv == StreamShape /\ ForAll /\ Unseen /\ AllGapless /\ \E b : Levels(b)

-----------------------------------------------------------------------------
LEMMA SeenAppend ==
  ASSUME NEW s \in Seq(AnyInput), NEW t \in Seq(AnyInput), NEW m \in AnyInput
  PROVE  s \o Append(t, m) = Append(s \o t, m)
  OBVIOUS

LEMMA SeenMoved ==
  ASSUME NEW s \in Seq(AnyInput), NEW t \in Seq(AnyInput), t # <<>>
  PROVE  Append(s, Head(t)) \o Tail(t) = s \o t
  OBVIOUS

LEMMA GaplessAppend ==
  ASSUME NEW s \in Seq(AnyInput), NEW m \in AnyInput, Gapless(s),
         s # <<>> => m.n = s[Len(s)].n + Rise(m)
  PROVE  Gapless(Append(s, m))
  BY DEF Gapless

LEMMA InitGInv == Init => GInv
<1> SUFFICES ASSUME Init PROVE GInv
  OBVIOUS
<1> USE DEF Init, TableInit
<1>1. StreamShape /\ ForAll /\ Unseen /\ AllGapless
  BY DEF StreamShape, ForAll, Unseen, AllGapless, Gapless, Seen, AnyInput, NoInput,
         Breakpoint, Kind
<1>2. PICK b : b = [i \in {0} |-> 0]
  OBVIOUS
<1>3. Len(source) = 0 /\ 0..0 = {0} /\ 1..0 = {}
  OBVIOUS
<1>4. SourceLevels(b)
  BY <1>2, <1>3 DEF SourceLevels
<1>5. publishing.kind = "ask" /\ applied = 0 /\ b[0] = 0
  BY <1>2 DEF NoInput, Breakpoint
<1>6. LastLevel(b)
  BY <1>3, <1>5 DEF LastLevel, Rise, Flows
<1>7. SeenLevel(b[0])
  BY DEF SeenLevel
<1> QED
  BY <1>1, <1>4, <1>6, <1>7 DEF GInv, Levels

(* Nothing of the stream moves.                                             *)
LEMMA StreamUnchanged ==
  ASSUME GInv,
         UNCHANGED <<got, dest, dispatching, source, applied, publishing,
                     destinations, invalid, left, shut>>
  PROVE  GInv'
<1>1. StreamShape' /\ ForAll' /\ Unseen' /\ AllGapless'
  BY DEF GInv, StreamShape, ForAll, Unseen, Fresh, Seen, AllGapless
<1>2. PICK b : Levels(b)
  BY DEF GInv
<1>3. SourceLevels(b)' /\ LastLevel(b)'
  BY <1>2 DEF Levels, SourceLevels, LastLevel
<1>4. SeenLevel(b[0])'
  BY <1>2 DEF Levels, SeenLevel, Seen, Behind
<1> QED
  BY <1>1, <1>3, <1>4 DEF GInv, Levels

(* The source gets one more entry, at the level n.                          *)
LEMMA SourceLevelsGrow ==
  ASSUME IInv, NEW b, SourceLevels(b), NEW in \in AnyInput, NEW n \in Int,
         source' = Append(source, in),
         n = b[Len(source)] + Rise(in), Flows(in) => in.n = n
  PROVE  \E c : SourceLevels(c)' /\ c[0] = b[0] /\ c[Len(source')] = n
<1>1. /\ Len(source) \in Nat /\ Len(source') = Len(source) + 1
      /\ source'[Len(source')] = in
      /\ \A i \in 1..Len(source) : source'[i] = source[i]
  BY DEF IInv, Shape
<1>2. PICK c : c = [i \in 0..Len(source') |-> IF i <= Len(source) THEN b[i] ELSE n]
  OBVIOUS
<1>3. /\ c[Len(source')] = n
      /\ \A i \in 0..Len(source) : c[i] = b[i]
      /\ c \in [0..Len(source') -> Int]
  BY <1>1, <1>2 DEF SourceLevels
<1>4. ASSUME NEW i \in 1..Len(source')
      PROVE  /\ c[i] = c[i - 1] + Rise(source'[i])
             /\ Flows(source'[i]) => source'[i].n = c[i]
  <2>1. CASE i = Len(source')
    BY <1>1, <1>3, <2>1
  <2>2. CASE i # Len(source')
    BY <1>1, <1>3, <2>2 DEF SourceLevels
  <2> QED
    BY <2>1, <2>2
<1>5. SourceLevels(c)'
  BY <1>3, <1>4 DEF SourceLevels, Rise, Flows
<1> QED
  BY <1>1, <1>3, <1>5

(* The source loses its first entry.                                        *)
LEMMA SourceLevelsShrink ==
  ASSUME IInv, NEW b, SourceLevels(b), source # <<>>, source' = Tail(source)
  PROVE  /\ \E c : SourceLevels(c)' /\ c[0] = b[1] /\ c[Len(source')] = b[Len(source)]
         /\ b[0] \in Int /\ b[1] = b[0] + Rise(source[1])
         /\ Flows(source[1]) => source[1].n = b[1]
<1>1. /\ Len(source) \in Nat \ {0} /\ Len(source') = Len(source) - 1
      /\ \A i \in 1..Len(source') : source'[i] = source[i + 1]
  BY TailKept DEF IInv, Shape
<1>2. PICK c : c = [i \in 0..Len(source') |-> b[i + 1]]
  OBVIOUS
<1>3. /\ c \in [0..Len(source') -> Int]
      /\ \A i \in 0..Len(source') : c[i] = b[i + 1]
  BY <1>1, <1>2 DEF SourceLevels
<1>4. ASSUME NEW i \in 1..Len(source')
      PROVE  /\ c[i] = c[i - 1] + Rise(source'[i])
             /\ Flows(source'[i]) => source'[i].n = c[i]
  <2>1. c[i] = b[i + 1] /\ c[i - 1] = b[i] /\ source'[i] = source[i + 1]
        /\ i + 1 \in 1..Len(source)
    BY <1>1, <1>3
  <2> QED
    BY <2>1 DEF SourceLevels
<1>5. SourceLevels(c)'
  BY <1>3, <1>4 DEF SourceLevels, Rise, Flows
<1>6. c[0] = b[1] /\ c[Len(source')] = b[Len(source)]
  BY <1>1, <1>3
<1>7. b[0] \in Int /\ b[1] = b[0] + Rise(source[1])
      /\ (Flows(source[1]) => source[1].n = b[1])
  BY <1>1 DEF SourceLevels
<1> QED
  BY <1>5, <1>6, <1>7

(* A breakpoint is queued.                                                  *)
LEMMA BreakpointQueued ==
  ASSUME IInv, GInv, NEW in \in AnyInput, ~Flows(in), source' = Append(source, in),
         UNCHANGED <<got, dest, dispatching, applied, publishing,
                     destinations, invalid, left, shut>>
  PROVE  GInv'
<1>1. StreamShape' /\ ForAll' /\ Unseen' /\ AllGapless'
  BY DEF GInv, IInv, Shape, StreamShape, ForAll, Unseen, Fresh, Seen, AllGapless, Flows
<1>2. PICK b : Levels(b)
  BY DEF GInv
<1>3. b[Len(source)] \in Int /\ Rise(in) = 0
  BY <1>2 DEF Levels, SourceLevels, Flows, Rise, IInv, Shape
<1>4. PICK c : SourceLevels(c)' /\ c[0] = b[0] /\ c[Len(source')] = b[Len(source)]
  BY <1>2, <1>3, SourceLevelsGrow DEF Levels
<1>5. LastLevel(c)'
  BY <1>2, <1>4 DEF Levels, LastLevel
<1>6. SeenLevel(c[0])'
  BY <1>2, <1>4 DEF Levels, SeenLevel, Seen, Behind
<1> QED
  BY <1>1, <1>4, <1>5, <1>6 DEF GInv, Levels

LEMMA TableGapless ==
  ASSUME IInv, GInv, Table(Feed) \/ Table(handleInput) \/ Table(PublishData)
  PROVE  GInv'
<1> USE DEF Table, chanVars, roundVars, fwdVars, sessionVars
<1>1. CASE Table(Feed)
  BY <1>1, StreamUnchanged DEF Feed, SendPipeline
<1>2. CASE Table(handleInput)
  <2>1. /\ publishing = NoInput /\ applied \in Nat
        /\ \/ applied' = applied + 1 /\ publishing' = Data(applied', None)
           \/ applied' = applied /\ publishing' = Snap(applied, Head(pipeline).reader)
        /\ UNCHANGED <<got, dest, dispatching, source, destinations, invalid, left, shut>>
    BY <1>2 DEF handleInput, IInv, Shape
  <2>2. StreamShape' /\ ForAll' /\ Unseen' /\ AllGapless'
    BY <2>1 DEF GInv, StreamShape, ForAll, Unseen, Fresh, Seen, AllGapless, Data, Snap, Flows
  <2>3. PICK b : Levels(b)
    BY DEF GInv
  <2>4. SourceLevels(b)'
    BY <2>1, <2>3 DEF Levels, SourceLevels
  <2>5. LastLevel(b)'
    BY <2>1, <2>3 DEF Levels, LastLevel, Data, Snap, NoInput, Breakpoint, Flows, Rise
  <2>6. SeenLevel(b[0])'
    BY <2>1, <2>3 DEF Levels, SeenLevel, Seen, Behind
  <2> QED
    BY <2>2, <2>4, <2>5, <2>6 DEF GInv, Levels
<1>3. CASE Table(PublishData)
  <2>1. /\ publishing \in AnyInput /\ Flows(publishing) /\ publishing' = NoInput
        /\ source' = Append(source, publishing) /\ applied \in Nat
        /\ UNCHANGED <<got, dest, dispatching, applied, destinations, invalid, left, shut>>
    BY <1>3 DEF PublishData, SendSource, IInv, Shape, GInv, StreamShape
  <2> publishing'.kind = "ask"
    BY <2>1 DEF NoInput, Breakpoint
  <2> ForAll'
    BY <2>1 DEF GInv, ForAll, IInv, Shape
  <2>2. StreamShape' /\ ForAll' /\ Unseen' /\ AllGapless'
    BY <2>1 DEF GInv, StreamShape, Unseen, Fresh, Seen, AllGapless
  <2>3. PICK b : Levels(b)
    BY DEF GInv
  <2>4. applied = b[Len(source)] + Rise(publishing) /\ publishing.n = applied
    BY <2>1, <2>3 DEF Levels, SourceLevels, LastLevel, IInv, Shape, Rise
  <2>5. PICK c : SourceLevels(c)' /\ c[0] = b[0] /\ c[Len(source')] = applied
    BY <2>1, <2>3, <2>4, SourceLevelsGrow DEF Levels
  <2>6. LastLevel(c)'
    BY <2>1, <2>5 DEF LastLevel, NoInput, Breakpoint, Flows, Rise
  <2>7. SeenLevel(c[0])'
    BY <2>1, <2>3, <2>5 DEF Levels, SeenLevel, Seen, Behind
  <2> QED
    BY <2>2, <2>5, <2>6, <2>7 DEF GInv, Levels
<1> QED
  BY <1>1, <1>2, <1>3

(* The dispatcher takes what is first in the source.                        *)
LEMMA Taken ==
  ASSUME IInv, takeInput
  PROVE  /\ source # <<>> /\ source' = Tail(source) /\ dispatching = NoInput
         /\ left = {} /\ invalid = {}
         /\ Head(source) = source[1] /\ source[1] \in AnyInput
         /\ Len(source) \in Nat \ {0} /\ Len(source') = Len(source) - 1
         /\ \A i \in 1..Len(source') : source'[i] = source[i + 1]
         /\ UNCHANGED <<applied, publishing>>
  BY TailKept DEF IInv, Shape, Round, takeInput, cacheVars

LEMMA BreakpointRuns ==
  ASSUME IInv, GInv,
         Table(AddDestination) \/ Table(RemoveDestination)
  PROVE  GInv'
<1> USE DEF Table, fwdVars, sessionVars, roundVars
<1>1. /\ takeInput
      /\ UNCHANGED <<got, dest, dispatching, left, invalid>>
      /\ ~Flows(source[1]) /\ Rise(source[1]) = 0
  <2>1. takeInput
    BY DEF AddDestination, RemoveDestination
  <2> QED
    BY <2>1, Taken DEF AddDestination, RemoveDestination, Flows, Rise
<1>2. \A q \in destinations' : q \in destinations \/ Seen(q) = <<>>
  <2>1. CASE Table(AddDestination)
    <3>1. source[1].kind = "add" /\ destinations' = destinations \cup {source[1].reader}
      BY <1>1, <2>1, Taken DEF AddDestination
    <3>2. Fresh(source[1].reader) /\ source[1].reader \in Reader
      BY <1>1, <3>1, Taken DEF IInv, NewOnce
    <3> QED
      BY <3>1, <3>2 DEF GInv, Unseen
  <2>2. CASE Table(RemoveDestination)
    BY <2>2 DEF RemoveDestination
  <2> QED
    BY <2>1, <2>2
<1>3. StreamShape' /\ ForAll' /\ AllGapless'
  BY <1>1, Taken DEF GInv, StreamShape, ForAll, AllGapless, Seen
<1>4. Unseen'
  <2>1. \A q \in Reader : Fresh(q)' => Fresh(q)
    BY DEF Fresh, AddDestination, RemoveDestination, IInv, Shape
  <2> QED
    BY <1>1, <2>1, Taken DEF GInv, Unseen, Seen
<1>5. PICK b : Levels(b)
  BY DEF GInv
<1>6. PICK c : SourceLevels(c)' /\ c[0] = b[1] /\ c[Len(source')] = b[Len(source)]
  BY <1>1, <1>5, Taken, SourceLevelsShrink DEF Levels
<1>7. b[1] = b[0]
  BY <1>1, <1>5, Taken, SourceLevelsShrink DEF Levels
<1>8. LastLevel(c)'
  BY <1>1, <1>5, <1>6, Taken DEF Levels, LastLevel
<1>9. SeenLevel(c[0])'
  BY <1>1, <1>2, <1>5, <1>6, <1>7 DEF Levels, SeenLevel, Seen, Behind
<1> QED
  BY <1>3, <1>4, <1>6, <1>8, <1>9 DEF GInv, Levels

LEMMA DispatchStarts ==
  ASSUME IInv, GInv, Table(StartDispatch)
  PROVE  GInv'
<1> USE DEF Table, fwdVars, sessionVars, chanVars
<1>1. /\ takeInput /\ Flows(source[1])
      /\ dispatching' = source[1]
      /\ left' = IF source[1].reader = None THEN destinations
                 ELSE destinations \cap {source[1].reader}
      /\ UNCHANGED <<got, dest, destinations, shut, invalid>>
  <2>1. takeInput
    BY DEF StartDispatch
  <2> QED
    BY <2>1, Taken DEF StartDispatch, Flows
<1>2. Rise(source[1]) = 0 \/ (Rise(source[1]) = 1 /\ left' = destinations)
  BY <1>1, Taken DEF GInv, ForAll, Rise
<1>3. StreamShape' /\ ForAll' /\ Unseen' /\ AllGapless'
  BY <1>1, Taken DEF GInv, StreamShape, ForAll, Unseen, Fresh, AllGapless, Seen
<1>4. PICK b : Levels(b)
  BY DEF GInv
<1>5. PICK c : SourceLevels(c)' /\ c[0] = b[1] /\ c[Len(source')] = b[Len(source)]
  BY <1>1, <1>4, Taken, SourceLevelsShrink DEF Levels
<1>6. /\ b[0] \in Int /\ b[1] = b[0] + Rise(source[1])
      /\ source[1].n = b[1]
  BY <1>1, <1>4, Taken, SourceLevelsShrink DEF Levels
<1>7. LastLevel(c)'
  BY <1>1, <1>4, <1>5, Taken DEF Levels, LastLevel
<1>8. ASSUME NEW r \in destinations' \ invalid', Seen(r)' # <<>>
      PROVE  Seen(r)'[Len(Seen(r)')].n = c[0] - Behind(r)'
  <2>1. Seen(r)' = Seen(r) /\ r \in destinations \ invalid /\ r \notin left
    BY <1>1, <1>8, Taken DEF Seen
  <2>2. Seen(r)[Len(Seen(r))].n = b[0]
    BY <1>4, <1>6, <1>8, <2>1 DEF Levels, SeenLevel, Behind
  <2>3. c[0] - Behind(r)' = b[0]
    BY <1>1, <1>2, <1>5, <1>6, <2>1 DEF Behind
  <2> QED
    BY <2>1, <2>2, <2>3
<1>9. SeenLevel(c[0])'
  BY <1>1, <1>5, <1>6, <1>8 DEF SeenLevel
<1> QED
  BY <1>3, <1>5, <1>7, <1>9 DEF GInv, Levels

LEMMA DispatchEnds ==
  ASSUME IInv, GInv, Table(FinishDispatch)
  PROVE  GInv'
<1> USE DEF Table, FinishDispatch, fwdVars, sessionVars, cacheVars
<1>1. dispatching'.kind = "ask" /\ dispatching' = NoInput /\ dispatching' \in AnyInput
  BY DEF NoInput, Breakpoint, AnyInput, Kind
<1>2. StreamShape' /\ ForAll' /\ AllGapless'
  BY <1>1 DEF GInv, StreamShape, ForAll, AllGapless, Seen
<1>3. Unseen'
  BY DEF GInv, Unseen, Fresh, Seen
<1>4. PICK b : Levels(b)
  BY DEF GInv
<1>5. SourceLevels(b)' /\ LastLevel(b)'
  BY <1>4 DEF Levels, SourceLevels, LastLevel
<1>6. SeenLevel(b[0])'
  BY <1>1, <1>4 DEF Levels, SeenLevel, Seen, Behind
<1> QED
  BY <1>2, <1>3, <1>5, <1>6 DEF GInv, Levels

(* A destination gets the message: it was one behind.                       *)
LEMMA VisitGapless ==
  ASSUME IInv, GInv, NEW r \in Reader,
         Table(Write(r)) \/ Table(Block(r)) \/ Table(WriteTimeout(r))
  PROVE  GInv'
<1> USE DEF Table, fwdVars, sessionVars, cacheVars, Visiting
<1>1. PICK b : Levels(b)
  BY DEF GInv
<1>2. CASE Table(Block(r))
  BY <1>2, StreamUnchanged DEF Block, chanVars
<1>3. CASE Table(WriteTimeout(r))
  <2>1. /\ r \in left /\ left' = left \ {r} /\ invalid' = invalid \cup {r}
        /\ shut' = [shut EXCEPT ![r] = "timeout"] /\ r \in destinations
        /\ UNCHANGED <<got, dest, dispatching, source, applied, publishing, destinations>>
    BY <1>3 DEF WriteTimeout, IInv, Round
  <2>2. StreamShape' /\ ForAll' /\ AllGapless'
    BY <2>1 DEF GInv, StreamShape, ForAll, AllGapless, Seen
  <2>3. Unseen'
    BY <2>1 DEF GInv, Unseen, Fresh, Seen, IInv, Shape
  <2>4. SourceLevels(b)' /\ LastLevel(b)'
    BY <1>1, <2>1 DEF Levels, SourceLevels, LastLevel
  <2>5. SeenLevel(b[0])'
    BY <1>1, <2>1 DEF Levels, SeenLevel, Seen, Behind
  <2> QED
    BY <2>2, <2>3, <2>4, <2>5 DEF GInv, Levels
<1>4. CASE Table(Write(r))
  <2>1. /\ r \in left /\ left' = left \ {r} /\ r \in destinations \ invalid
        /\ dest' = [dest EXCEPT ![r] = Append(@, dispatching)]
        /\ dispatching # NoInput /\ dispatching \in AnyInput
        /\ UNCHANGED <<got, dispatching, source, applied, publishing, destinations,
                       invalid, shut>>
    BY <1>4 DEF Write, IInv, Round, GInv, StreamShape
  <2>2. /\ Seen(r) \in Seq(AnyInput) /\ Seen(r)' = Append(Seen(r), dispatching)
        /\ \A q \in Reader : q # r => Seen(q)' = Seen(q)
    BY <2>1, SeenAppend DEF GInv, StreamShape, Seen
  <2>3. b[0] \in Int /\ dispatching.n = b[0]
    BY <1>1, <2>1 DEF Levels, SourceLevels, SeenLevel, IInv, Shape
  <2>4. Seen(r) # <<>> => dispatching.n = Seen(r)[Len(Seen(r))].n + Rise(dispatching)
    BY <1>1, <2>1, <2>2, <2>3 DEF Levels, SeenLevel, Behind, Rise
  <2>5. Gapless(Seen(r)')
    BY <2>1, <2>2, <2>4, GaplessAppend DEF GInv, AllGapless
  <2>6. AllGapless'
    BY <2>2, <2>5 DEF GInv, AllGapless, Gapless, Rise
  <2>7. StreamShape' /\ ForAll'
    BY <2>1 DEF GInv, StreamShape, ForAll
  <2>8. Unseen'
    BY <2>1, <2>2 DEF GInv, Unseen, Fresh
  <2>9. SourceLevels(b)' /\ LastLevel(b)'
    BY <1>1, <2>1 DEF Levels, SourceLevels, LastLevel
  <2>10. ASSUME NEW q \in destinations' \ invalid', Seen(q)' # <<>>
         PROVE  Seen(q)'[Len(Seen(q)')].n = b[0] - Behind(q)'
    <3>1. CASE q = r
      BY <2>1, <2>2, <2>3, <3>1 DEF Behind
    <3>2. CASE q # r
      <4>1. q \in Reader
        BY <2>1, <2>10 DEF IInv, Shape
      <4>2. Seen(q)' = Seen(q) /\ Behind(q)' = Behind(q)
        BY <2>1, <2>2, <3>2, <4>1 DEF Behind
      <4> QED
        BY <1>1, <2>1, <2>10, <4>2 DEF Levels, SeenLevel
    <3> QED
      BY <3>1, <3>2
  <2>11. SeenLevel(b[0])'
    BY <2>1, <2>3, <2>10 DEF SeenLevel
  <2> QED
    BY <2>6, <2>7, <2>8, <2>9, <2>11 DEF GInv, Levels
<1> QED
  BY <1>2, <1>3, <1>4

LEMMA ReaderGapless ==
  ASSUME IInv, GInv, NEW r \in Reader,
         RetriveData(r) \/ Forwarder(r) \/ WriteJSONMessage(r)
  PROVE  GInv'
<1> USE DEF chanVars, roundVars, sessionVars, cacheVars, tableVars
<1>1. CASE RetriveData(r)
  BY <1>1, BreakpointQueued
     DEF RetriveData, SendSource, Breakpoint, AnyInput, Kind, Flows
<1>2. CASE SetCleanup(r) \/ RangeEnds(r) \/ WriteJSONMessage(r)
  BY <1>2, StreamUnchanged DEF SetCleanup, RangeEnds, WriteJSONMessage
<1>3. CASE TakeSnapshot(r)
  BY <1>3, StreamUnchanged DEF TakeSnapshot, SendPipeline
<1>4. CASE Receive(r)
  <2>1. /\ dest[r] # <<>> /\ dest' = [dest EXCEPT ![r] = Tail(@)]
        /\ got' = [got EXCEPT ![r] = Append(@, Head(dest[r]))]
        /\ UNCHANGED <<dispatching, source, applied, publishing, destinations,
                       invalid, left, shut>>
    BY <1>4 DEF Receive
  <2>2. Head(dest[r]) \in AnyInput /\ Tail(dest[r]) \in Seq(AnyInput)
    BY <2>1, TailKept DEF GInv, StreamShape
  <2>3. \A q \in Reader : Seen(q)' = Seen(q)
    <3>1. ASSUME NEW q \in Reader, q # r PROVE Seen(q)' = Seen(q)
      BY <2>1, <3>1 DEF GInv, StreamShape, Seen
    <3>2. /\ dest[r] \in Seq(AnyInput) /\ got[r] \in Seq(AnyInput)
          /\ dest'[r] = Tail(dest[r]) /\ got'[r] = Append(got[r], Head(dest[r]))
      BY <2>1 DEF GInv, StreamShape
    <3>3. Append(got[r], Head(dest[r])) \o Tail(dest[r]) = got[r] \o dest[r]
      BY <2>1, <3>2, SeenMoved
    <3>4. Seen(r)' = Seen(r)
      BY <3>2, <3>3 DEF Seen
    <3>. QED  BY <3>1, <3>4
  <2>4. StreamShape'
    BY <2>1, <2>2 DEF GInv, StreamShape
  <2>5. ForAll' /\ Unseen' /\ AllGapless'
    BY <2>1, <2>3 DEF GInv, ForAll, Unseen, Fresh, AllGapless, Gapless, Rise
  <2>6. PICK b : Levels(b)
    BY DEF GInv
  <2>7. SourceLevels(b)' /\ LastLevel(b)'
    BY <2>1, <2>6 DEF Levels, SourceLevels, LastLevel
  <2>8. SeenLevel(b[0])'
    BY <2>1, <2>3, <2>6 DEF Levels, SeenLevel, Behind, IInv, Shape
  <2> QED
    BY <2>4, <2>5, <2>7, <2>8 DEF GInv, Levels
<1> QED
  BY <1>1, <1>2, <1>3, <1>4 DEF Forwarder

LEMMA SessionGapless ==
  ASSUME IInv, GInv, NEW s \in Session, Close(s) \/ Closing(s)
  PROVE  GInv'
<1> USE DEF chanVars, roundVars, fwdVars, cacheVars, tableVars
<1>1. CASE Close(s) \/ SenderStops(s) \/ RetriveShut(s)
  BY <1>1, StreamUnchanged DEF Close, SenderStops, RetriveShut
<1>2. CASE ShutdownRetrive(s)
  <2>1. Breakpoint("remove", cleanupFn[s]) \in AnyInput
        /\ ~Flows(Breakpoint("remove", cleanupFn[s]))
    BY DEF IInv, Shape, Breakpoint, AnyInput, Kind, Flows
  <2> QED
    BY <1>2, <2>1, BreakpointQueued DEF ShutdownRetrive, SendSource
<1> QED
  BY <1>1, <1>2 DEF Closing

LEMMA NextGInv == IInv /\ GInv /\ [Next]_vars => GInv'
<1> SUFFICES ASSUME IInv, GInv, [Next]_vars PROVE GInv'
  OBVIOUS
<1>1. CASE Table(TimerFires)
  BY <1>1, StreamUnchanged
     DEF Table, TimerFires, chanVars, cacheVars, fwdVars, sessionVars
<1>2. CASE UNCHANGED vars
  BY <1>2, StreamUnchanged
     DEF vars, tableVars, cacheVars, chanVars, roundVars, fwdVars, sessionVars
<1>3. CASE Next /\ ~Table(TimerFires)
  BY <1>3, TableGapless, BreakpointRuns, DispatchStarts, DispatchEnds, VisitGapless,
     ReaderGapless, SessionGapless, SessionAssumption DEF Next
<1> QED
  BY <1>1, <1>2, <1>3

(* What a subscriber receives follows message by message, with its snapshot *)
(* where it was taken, until its destination is closed: whatever the order  *)
(* in which it was registered, its snapshot asked for and messages handed   *)
(* out (server.go:229-236, cache.go:196-221, channel.go:283-323).           *)
THEOREM Stretch == Spec => []GaplessStream
<1>1. ASSUME GInv, NEW r \in Reader, NEW i \in 1..(Len(Seen(r)) - 1)
      PROVE  Seen(r)[i + 1].n = Seen(r)[i].n + Rise(Seen(r)[i + 1])
  BY <1>1 DEF GInv, AllGapless, Gapless
<1>2. GInv => GaplessStream
  BY <1>1 DEF GaplessStream, Seen, Rise
<1> QED
  BY <1>2, InitIInv, NextIInv, InitGInv, NextGInv, PTL DEF Spec
=============================================================================
