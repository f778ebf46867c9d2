------------------------ MODULE ChildProcessProofs ------------------------
(***************************************************************************)
(* Why a polling client loses nothing unannounced, why the log of a        *)
(* process session shows the interactions in order and one exit, for every *)
(* number of callers and every length of the event deque; and why the      *)
(* browser runtime owns what it spawned, for every number of callers and   *)
(* starts.                                                                 *)
(*                                                                         *)
(* Sessions: the deque holds the last events without a gap, so             *)
(* dropped_through_cursor is the cursor before its first (LogOK). The      *)
(* order of the interactions is not inductive: between operation_seq and   *)
(* the interaction event is an unlocked moment, in which the caller holds  *)
(* a number that no interaction in the log has reached yet (NumbersAhead). *)
(* It stays that way because of the interaction lock (CallOK).             *)
(*                                                                         *)
(* Browser: one process at most serves the port (OneServes), starts are    *)
(* numbered (StartsNumbered), a start that is not in the file yet is known *)
(* only to the call that spawned it (KnownToOne), and a call remembers     *)
(* which processes it has seen dead (CallKnowsDead).                       *)
(***************************************************************************)
EXTENDS ProcessSession, BrowserRuntime, FiniteSetTheorems, TLAPS

(***************************************************************************)
(* Process sessions                                                        *)
(***************************************************************************)
EventTypes == Ops \cup {"interaction", "output", "process_exit"}
Event == [cursor : Nat, type : EventTypes, seq : Nat]

LogOK ==
    /\ cursor \in Nat
    /\ events \in Seq(Event)
    /\ Len(events) <= MaxEvents /\ Len(events) <= cursor
    /\ \A i \in 1..Len(events) : events[i].cursor = cursor - Len(events) + i
    /\ dropped = cursor - Len(events)

Interactions == {i \in 1..Len(events) : events[i].type = "interaction"}

NumbersAhead ==
    /\ \A i \in Interactions : events[i].seq <= opSeq
    /\ \A i \in Interactions : \A c \in Callers :
          call[c].pc = "record" => events[i].seq < call[c].seq

CallRecord ==
    [op : Ops \cup {"none"}, pc : LockedPcs \cup {"idle", "result"},
     seq : 0..MaxOps, left : 0..Payload, code : {"none", "code"}]

CallOK ==
    /\ opSeq \in 0..MaxOps
    /\ call \in [Callers -> CallRecord]
    /\ \A c \in Callers :
          /\ call[c].seq <= opSeq
          /\ call[c].op \in Ops \/ call[c].pc = "idle"
          /\ call[c].pc = "writing" => call[c].left # 0
    /\ \A c, d \in Callers : call[c].pc \in LockedPcs /\ call[d].pc \in LockedPcs => c = d

CountsOK ==
    /\ input \in 0..InPipe /\ output \in 0..OutPipe /\ held \in {0, 1} /\ pending \in {0, 1}

PipesOK ==
    /\ CountsOK
    /\ job \in BOOLEAN /\ alive \in BOOLEAN /\ watch \in {"waiting", "record", "done"}

ExitOK ==
    /\ exits <= 1
    /\ status = "exited" => exits = 1
    /\ exits = 1 => status # "running"

StatusOK ==
    /\ status \in {"running", "exited", "closed"}
    /\ returncode \in {"none", "code"} /\ exits \in {0, 1} /\ stdinClosed \in BOOLEAN
    /\ ExitOK

SessionInv ==
    /\ LogOK /\ seen \in 0..cursor
    /\ CallOK
    /\ InteractionsInOrder /\ NumbersAhead
    /\ PipesOK /\ StatusOK

\* What SessionAssumption says of each bound.
LEMMA Bounds ==
  /\ MaxEvents \in Nat \ {0} /\ MaxRead \in Nat \ {0} /\ Payload \in Nat \ {0}
  /\ InPipe \in Nat \ {0} /\ OutPipe \in Nat \ {0} /\ MaxOps \in Nat
  BY SessionAssumption DEF SessionAssumption

-----------------------------------------------------------------------------
(* The log *)

\* _append_event puts the new event last; the others stay, or move up by the
\* one that is dropped.
LEMMA AppendShifts ==
  ASSUME SessionAssumption, LogOK, NEW type \in EventTypes, NEW seq \in Nat,
         AppendEvent(type, seq)
  PROVE  /\ LogOK'
         /\ cursor' = cursor + 1
         /\ \E k \in {0, 1} :
              /\ Len(events') = Len(events) + 1 - k
              /\ \A i \in 1..Len(events') - 1 :
                    i + k \in 1..Len(events) /\ events'[i] = events[i + k]
         /\ Len(events') >= 1
         /\ events'[Len(events')] = [cursor |-> cursor + 1, type |-> type, seq |-> seq]
<1> DEFINE new == [cursor |-> cursor + 1, type |-> type, seq |-> seq]
<1>1. MaxEvents \in Nat \ {0} /\ Len(events) \in Nat /\ new \in Event
  BY DEF SessionAssumption, LogOK, Event
<1>2. CASE Len(events) = MaxEvents
  <2>1. /\ Tail(events) \in Seq(Event) /\ Len(Tail(events)) = Len(events) - 1
        /\ \A i \in 1..Len(events) - 1 : Tail(events)[i] = events[i + 1]
    BY <1>1, <1>2 DEF LogOK
  <2>2. events' = Append(Tail(events), new) /\ dropped' = events[1].cursor
    BY <1>2 DEF AppendEvent
  <2>3. /\ events' \in Seq(Event) /\ Len(events') = Len(events)
        /\ \A i \in 1..Len(events) - 1 : events'[i] = events[i + 1]
        /\ events'[Len(events)] = new
    BY <1>1, <2>1, <2>2
  <2>4. dropped' = cursor - Len(events) + 1 /\ cursor' = cursor + 1
    BY <1>1, <1>2, <2>2 DEF LogOK, AppendEvent
  <2>5. LogOK'
    <3>1. ASSUME NEW i \in 1..Len(events)
          PROVE  events'[i].cursor = cursor + 1 - Len(events) + i
      <4>1. CASE i = Len(events)
        BY <1>1, <2>3, <4>1 DEF LogOK
      <4>2. CASE i # Len(events)
        <5>1. i + 1 \in 1..Len(events) /\ events'[i] = events[i + 1]
          BY <1>1, <2>3, <4>2
        <5> QED
          BY <1>1, <5>1 DEF LogOK
      <4> QED
        BY <4>1, <4>2
    <3> QED
      BY <1>1, <2>3, <2>4, <3>1 DEF LogOK
  <2> QED
    BY <1>1, <1>2, <2>3, <2>4, <2>5
<1>3. CASE Len(events) # MaxEvents
  <2>1. events' = Append(events, new) /\ dropped' = dropped /\ cursor' = cursor + 1
    BY <1>3 DEF AppendEvent
  <2>2. /\ events' \in Seq(Event) /\ Len(events') = Len(events) + 1
        /\ \A i \in 1..Len(events) : events'[i] = events[i]
        /\ events'[Len(events) + 1] = new
    BY <1>1, <2>1 DEF LogOK
  <2>3. LogOK'
    <3>1. ASSUME NEW i \in 1..Len(events) + 1
          PROVE  events'[i].cursor = cursor - Len(events) + i
      <4>1. CASE i = Len(events) + 1
        BY <1>1, <2>2, <4>1 DEF LogOK
      <4>2. CASE i # Len(events) + 1
        <5>1. i \in 1..Len(events) /\ events'[i] = events[i]
          BY <1>1, <2>2, <4>2
        <5> QED
          BY <1>1, <5>1 DEF LogOK
      <4> QED
        BY <4>1, <4>2
    <3> QED
      BY <1>1, <1>3, <2>1, <2>2, <3>1 DEF LogOK
  <2>4. /\ Len(events') = Len(events) + 1 - 0
        /\ \A i \in 1..Len(events') - 1 :
              i + 0 \in 1..Len(events) /\ events'[i] = events[i + 0]
    BY <1>1, <2>2
  <2> QED
    BY <1>1, <2>1, <2>2, <2>3, <2>4
<1> QED
  BY <1>2, <1>3

\* The interactions in the log after an append: the new event, if it is one,
\* and some that were there before, in their order.
LEMMA OlderInteractions ==
  ASSUME SessionAssumption, LogOK, NEW type \in EventTypes, NEW seq \in Nat,
         AppendEvent(type, seq)
  PROVE  \E k \in {0, 1} : \A i \in Interactions' :
            \/ i = Len(events') /\ type = "interaction" /\ events'[i].seq = seq
            \/ i + k \in Interactions /\ events'[i] = events[i + k]
<1>1. LogOK' /\ events'[Len(events')] = [cursor |-> cursor + 1, type |-> type, seq |-> seq]
  BY AppendShifts
<1>2. PICK k \in {0, 1} : \A i \in 1..Len(events') - 1 :
        i + k \in 1..Len(events) /\ events'[i] = events[i + k]
  BY AppendShifts
<1>3. ASSUME NEW i \in Interactions'
      PROVE  \/ i = Len(events') /\ type = "interaction" /\ events'[i].seq = seq
             \/ i + k \in Interactions /\ events'[i] = events[i + k]
  <2>1. i \in 1..Len(events') /\ events'[i].type = "interaction"
    BY DEF Interactions
  <2>2. CASE i = Len(events')
    BY <1>1, <2>1, <2>2
  <2>3. CASE i # Len(events')
    <3>1. Len(events') \in Nat
      BY <1>1 DEF LogOK
    <3>2. i \in 1..Len(events') - 1
      BY <2>1, <2>3, <3>1
    <3> QED
      BY <1>2, <2>1, <3>2 DEF Interactions
  <2> QED
    BY <2>2, <2>3
<1> QED
  BY <1>3

\* An event that is no interaction leaves the order of those in the log alone.
LEMMA OtherEventKeepsOrder ==
  ASSUME SessionAssumption, SessionInv, NEW type \in EventTypes, NEW seq \in Nat,
         AppendEvent(type, seq), type # "interaction", opSeq' = opSeq,
         \A c \in Callers : call'[c].pc = "record" => call'[c] = call[c]
  PROVE  LogOK' /\ InteractionsInOrder' /\ NumbersAhead' /\ cursor' = cursor + 1
<1>1. LogOK /\ LogOK' /\ cursor' = cursor + 1
  BY AppendShifts DEF SessionInv
<1>2. PICK k \in {0, 1} : \A i \in Interactions' :
        i + k \in Interactions /\ events'[i] = events[i + k]
  BY <1>1, OlderInteractions
<1>3. DOMAIN events' = 1..Len(events') /\ DOMAIN events = 1..Len(events)
  BY <1>1 DEF LogOK
<1>4. \A m, n \in Interactions : m < n => events[m].seq < events[n].seq
  BY <1>3 DEF InteractionsInOrder, Interactions, SessionInv
<1>5. \A i, j \in Interactions' : i < j => events'[i].seq < events'[j].seq
  <2> SUFFICES ASSUME NEW i \in Interactions', NEW j \in Interactions', i < j
               PROVE  events'[i].seq < events'[j].seq
    OBVIOUS
  <2>1. i + k < j + k
    BY DEF Interactions
  <2> QED
    BY <1>2, <1>4, <2>1
<1>6. InteractionsInOrder'
  BY <1>3, <1>5 DEF InteractionsInOrder, Interactions
<1>7. NumbersAhead'
  <2>1. \A i \in Interactions :
          /\ events[i].seq <= opSeq
          /\ \A c \in Callers : call[c].pc = "record" => events[i].seq < call[c].seq
    BY DEF NumbersAhead, SessionInv
  <2>2. \A i \in Interactions', c \in Callers :
          call'[c].pc = "record" => events'[i].seq < call'[c].seq
    BY <1>2, <2>1
  <2>3. \A i \in Interactions' : events'[i].seq <= opSeq'
    BY <1>2, <2>1
  <2> QED
    BY <2>2, <2>3 DEF NumbersAhead
<1> QED
  BY <1>1, <1>6, <1>7

\* The interaction event of the caller that holds the interaction lock comes
\* after all others, and nobody else has a number yet.
LEMMA RecordKeepsOrder ==
  ASSUME SessionAssumption, SessionInv, NEW c \in Callers, Record(c)
  PROVE  LogOK' /\ InteractionsInOrder' /\ NumbersAhead' /\ cursor' = cursor + 1
<1>1. /\ call[c].seq \in Nat /\ call[c].seq <= opSeq /\ call[c].pc = "record"
      /\ AppendEvent("interaction", call[c].seq) /\ opSeq' = opSeq
      /\ call' = [call EXCEPT ![c].pc = "body"]
  BY DEF Record, Goto, SessionInv, CallOK, CallRecord, SessionAssumption
<1>2. "interaction" \in EventTypes /\ LogOK
  BY DEF SessionInv, EventTypes
<1>3. LogOK' /\ cursor' = cursor + 1
  BY <1>1, <1>2, AppendShifts
<1>4. DOMAIN events' = 1..Len(events') /\ DOMAIN events = 1..Len(events)
  BY <1>3, <1>2 DEF LogOK
<1>5. PICK k \in {0, 1} : \A i \in Interactions' :
        \/ i = Len(events') /\ events'[i].seq = call[c].seq
        \/ i + k \in Interactions /\ events'[i] = events[i + k]
  BY <1>1, <1>2, OlderInteractions
<1>6. /\ \A m, n \in Interactions : m < n => events[m].seq < events[n].seq
      /\ \A m \in Interactions : events[m].seq < call[c].seq /\ events[m].seq <= opSeq
  BY <1>1, <1>4 DEF InteractionsInOrder, NumbersAhead, Interactions, SessionInv
<1>7. \A i, j \in Interactions' : i < j => events'[i].seq < events'[j].seq
  <2> SUFFICES ASSUME NEW i \in Interactions', NEW j \in Interactions', i < j
               PROVE  events'[i].seq < events'[j].seq
    OBVIOUS
  <2>1. i + k < j + k /\ i # Len(events')
    BY <1>3 DEF Interactions, LogOK
  <2> QED
    BY <1>5, <1>6, <2>1
<1>8. InteractionsInOrder'
  BY <1>4, <1>7 DEF InteractionsInOrder, Interactions
<1>9. \A d \in Callers : call'[d].pc # "record"
  BY <1>1 DEF SessionInv, CallOK, CallRecord, LockedPcs
<1>10. NumbersAhead'
  BY <1>1, <1>5, <1>6, <1>9 DEF NumbersAhead
<1> QED
  BY <1>3, <1>8, <1>10

-----------------------------------------------------------------------------
(* The interaction lock *)

NobodyNumbered == \A d \in Callers : call'[d].pc = "record" => call'[d] = call[d]

\* The holder of the interaction lock moves on, or a caller returns: there is
\* still at most one holder, and no new number.
LEMMA MovesOn ==
  ASSUME CallOK, NEW c \in Callers, opSeq' = opSeq,
         NEW new \in CallRecord, call' = [call EXCEPT ![c] = new],
         new.pc = "writing" => new.left # 0,
         \/ new.pc = "idle" /\ new.seq = 0
         \/ /\ call[c].pc \in LockedPcs /\ new.pc # "record"
            /\ new.seq = call[c].seq /\ new.op = call[c].op
  PROVE  CallOK' /\ NobodyNumbered
<1>1. call' \in [Callers -> CallRecord]
  BY DEF CallOK
<1>2. call'[c] = new /\ \A d \in Callers \ {c} : call'[d] = call[d]
  BY DEF CallOK
<1>3. opSeq \in Nat
  BY SessionAssumption DEF CallOK, SessionAssumption
<1> QED
  BY <1>1, <1>2, <1>3 DEF CallOK, NobodyNumbered, LockedPcs

\* A caller gives back the interaction lock, or had it no longer.
LEMMA Returns ==
  ASSUME CallOK, NEW c \in Callers, opSeq' = opSeq, Return(c)
  PROVE  CallOK' /\ NobodyNumbered
<1>1. Idle \in CallRecord /\ Idle.pc = "idle" /\ Idle.seq = 0
  BY SessionAssumption DEF SessionAssumption, Idle, CallRecord
<1> QED
  BY <1>1, MovesOn DEF Return

\* The stage changes and nothing else does.
LEMMA GoesTo ==
  ASSUME CallOK, NEW c \in Callers, call[c].pc \in LockedPcs, opSeq' = opSeq,
         NEW pc \in {"body", "waiting", "result"}, Goto(c, pc)
  PROVE  CallOK' /\ NobodyNumbered
<1> DEFINE new == [call[c] EXCEPT !.pc = pc]
<1>1. /\ new \in CallRecord /\ new.pc = pc
      /\ new.seq = call[c].seq /\ new.op = call[c].op
  BY DEF CallOK, CallRecord, LockedPcs
<1>2. call' = [call EXCEPT ![c] = new] /\ new.pc \notin {"record", "writing"}
  BY <1>1 DEF Goto
<1> HIDE DEF new
<1> QED
  BY <1>1, <1>2, MovesOn

\* A write begins with its payload still to go, and goes on while there is some.
LEMMA GoesWriting ==
  ASSUME CallOK, NEW c \in Callers, call[c].pc \in LockedPcs, opSeq' = opSeq,
         NEW left \in 1..Payload,
         call' = [call EXCEPT ![c].pc = "writing", ![c].left = left]
  PROVE  CallOK' /\ NobodyNumbered
<1> DEFINE mid == [call[c] EXCEPT !.pc = "writing"]
<1> DEFINE new == [mid EXCEPT !.left = left]
<1>1. /\ mid \in CallRecord /\ mid.pc = "writing"
      /\ mid.seq = call[c].seq /\ mid.op = call[c].op
  BY DEF CallOK, CallRecord, LockedPcs
<1>2. call' = [call EXCEPT ![c] = new]
  BY DEF CallOK
<1> HIDE DEF mid
<1>3. /\ new \in CallRecord /\ new.pc = mid.pc /\ new.left # 0
      /\ new.seq = mid.seq /\ new.op = mid.op
  BY <1>1 DEF CallRecord
<1> HIDE DEF new
<1> QED
  BY <1>1, <1>2, <1>3, MovesOn

LEMMA GoesOnWriting ==
  ASSUME CallOK, NEW c \in Callers, call[c].pc = "writing", opSeq' = opSeq,
         call[c].left # 1, call' = [call EXCEPT ![c].left = @ - 1]
  PROVE  CallOK' /\ NobodyNumbered
<1> DEFINE new == [call[c] EXCEPT !.left = call[c].left - 1]
<1>1. call[c] \in CallRecord /\ call[c].left \in 2..Payload
  BY SessionAssumption DEF SessionAssumption, CallOK, CallRecord
<1>2. call' = [call EXCEPT ![c] = new]
  OBVIOUS
<1>3. /\ new \in CallRecord /\ new.pc = "writing" /\ new.left # 0
      /\ new.seq = call[c].seq /\ new.op = call[c].op
  BY <1>1, SessionAssumption DEF SessionAssumption, CallRecord
<1> HIDE DEF new
<1>4. call[c].pc \in LockedPcs
  BY DEF LockedPcs
<1> QED
  BY <1>2, <1>3, <1>4, MovesOn

\* The wait for the child is over, with or without an exit.
LEMMA GoesToExit ==
  ASSUME CallOK, NEW c \in Callers, call[c].pc \in LockedPcs, opSeq' = opSeq,
         NEW code \in {"none", "code"},
         call' = [call EXCEPT ![c].pc = "exit", ![c].code = code]
  PROVE  CallOK' /\ NobodyNumbered
<1> DEFINE mid == [call[c] EXCEPT !.pc = "exit"]
<1> DEFINE new == [mid EXCEPT !.code = code]
<1>1. /\ mid \in CallRecord /\ mid.pc = "exit"
      /\ mid.seq = call[c].seq /\ mid.op = call[c].op
  BY DEF CallOK, CallRecord, LockedPcs
<1>2. call' = [call EXCEPT ![c] = new]
  BY DEF CallOK
<1> HIDE DEF mid
<1>3. new \in CallRecord /\ new.pc = mid.pc /\ new.seq = mid.seq /\ new.op = mid.op
  BY <1>1 DEF CallRecord
<1> HIDE DEF new
<1> QED
  BY <1>1, <1>2, <1>3, MovesOn

\* A step without an event.
LEMMA QuietStep ==
  ASSUME SessionInv, UNCHANGED <<logVars, seen, opSeq>>, CallOK', NobodyNumbered,
         PipesOK', StatusOK'
  PROVE  SessionInv'
<1>1. LogOK' /\ seen' \in 0..cursor' /\ InteractionsInOrder'
  BY DEF SessionInv, LogOK, InteractionsInOrder, logVars
<1>2. NumbersAhead'
  BY DEF SessionInv, NumbersAhead, Interactions, NobodyNumbered, logVars
<1> QED
  BY <1>1, <1>2 DEF SessionInv

\* A step with an event that is no interaction.
LEMMA EventStep ==
  ASSUME SessionAssumption, SessionInv, UNCHANGED <<seen, opSeq>>, CallOK', NobodyNumbered,
         PipesOK', StatusOK',
         NEW type \in EventTypes, NEW seq \in Nat, type # "interaction", AppendEvent(type, seq)
  PROVE  SessionInv'
<1>1. LogOK' /\ InteractionsInOrder' /\ NumbersAhead' /\ cursor' = cursor + 1
  BY OtherEventKeepsOrder DEF NobodyNumbered
<1>2. seen' \in 0..cursor'
  BY <1>1 DEF SessionInv, LogOK
<1> QED
  BY <1>1, <1>2 DEF SessionInv

\* _record_exit logs the first exit only, whoever saw it.
LEMMA ExitStep ==
  ASSUME SessionAssumption, SessionInv, UNCHANGED <<seen, opSeq>>, CallOK', NobodyNumbered,
         PipesOK', NEW code \in {"none", "code"}, RecordExit(code)
  PROVE  SessionInv'
<1>1. StatusOK'
  BY DEF RecordExit, SessionInv, StatusOK, ExitOK
<1>2. CASE UNCHANGED logVars
  BY <1>1, <1>2, QuietStep DEF logVars
<1>3. CASE AppendEvent("process_exit", 0)
  <2>1. "process_exit" \in EventTypes /\ 0 \in Nat
    BY DEF EventTypes
  <2> QED
    BY <1>1, <1>3, <2>1, EventStep
<1> QED
  BY <1>2, <1>3 DEF RecordExit, logVars

-----------------------------------------------------------------------------
(* The actions, one by one *)

\* The new number is ahead of all numbers in the log.
LEMMA InteractKeeps ==
  ASSUME SessionInv, NEW c \in Callers, NEW o \in Ops, Interact(c, o)
  PROVE  SessionInv'
<1> DEFINE new == [op |-> o, pc |-> "record", seq |-> opSeq + 1, left |-> 0, code |-> "none"]
<1>1. opSeq \in Nat /\ MaxOps \in Nat /\ Payload \in Nat /\ opSeq < MaxOps
  BY SessionAssumption DEF SessionAssumption, SessionInv, CallOK, Interact
<1>2. new \in CallRecord /\ new.pc = "record" /\ new.seq = opSeq + 1 /\ new.op = o
  BY <1>1 DEF CallRecord, LockedPcs
<1>3. call' = [call EXCEPT ![c] = new] /\ opSeq' = opSeq + 1
  BY DEF Interact
<1> HIDE DEF new
<1>4. /\ call' \in [Callers -> CallRecord]
      /\ call'[c] = new /\ \A d \in Callers \ {c} : call'[d] = call[d]
  BY <1>2, <1>3 DEF SessionInv, CallOK
<1>5. CallOK'
  <2>1. \A d \in Callers \ {c} : call'[d].pc \notin LockedPcs
    BY <1>4 DEF Interact
  <2>2. \A d \in Callers : call[d].seq \in Nat
    BY <1>1 DEF SessionInv, CallOK, CallRecord
  <2> QED
    BY <1>1, <1>2, <1>3, <1>4, <2>1, <2>2 DEF SessionInv, CallOK
<1>6. NumbersAhead'
  <2>1. \A i \in Interactions : events[i].seq \in Nat /\ events[i].seq <= opSeq
    <3> SUFFICES ASSUME NEW i \in Interactions
                 PROVE  events[i].seq \in Nat /\ events[i].seq <= opSeq
      OBVIOUS
    <3>1. i \in 1..Len(events) /\ events \in Seq(Event)
      BY DEF Interactions, SessionInv, LogOK
    <3>2. events[i] \in Event
      BY <3>1
    <3> QED
      BY <3>2 DEF Event, SessionInv, NumbersAhead
  <2>3. Interactions' = Interactions /\ events' = events
    BY DEF Interactions, Interact, logVars
  <2>2. \A i \in Interactions : \A d \in Callers \ {c} :
          call'[d].pc = "record" => events[i].seq < call'[d].seq
    BY <1>4 DEF SessionInv, NumbersAhead
  <2> QED
    BY <1>1, <1>2, <1>3, <1>4, <2>1, <2>2, <2>3 DEF NumbersAhead
<1> QED
  BY <1>5, <1>6
  DEF Interact, SessionInv, LogOK, InteractionsInOrder, PipesOK, CountsOK, StatusOK,
      ExitOK, logVars, stateVars, childVars

\* The holder of the interaction lock logs its number.
LEMMA RecordKeeps ==
  ASSUME SessionInv, NEW c \in Callers, Record(c)
  PROVE  SessionInv'
<1>1. CallOK'
  <2>1. call[c].pc \in LockedPcs
    BY DEF LockedPcs, Record
  <2> QED
    BY <2>1, GoesTo DEF Record, SessionInv
<1>2. LogOK' /\ InteractionsInOrder' /\ NumbersAhead' /\ cursor' = cursor + 1
  BY SessionAssumption, RecordKeepsOrder
<1>3. seen' \in 0..cursor' /\ PipesOK' /\ StatusOK'
  BY <1>2
  DEF Record, SessionInv, LogOK, PipesOK, CountsOK, StatusOK, ExitOK, stateVars, childVars
<1> QED
  BY <1>1, <1>2, <1>3 DEF SessionInv

\* The bodies of the interactions up to their last event.
LEMMA BodyKeeps ==
  ASSUME SessionInv, NEW c \in Callers,
         BeginWrite(c) \/ Write(c) \/ CloseStdin(c) \/ Terminate(c) \/ Close(c) \/ Waited(c)
  PROVE  SessionInv'
<1>1. CallOK /\ call[c].pc \in LockedPcs /\ UNCHANGED <<logVars, seen, opSeq>>
  BY DEF SessionInv, BeginWrite, Write, CloseStdin, Terminate, Close, Waited, LockedPcs
<1>2. PipesOK'
  <2>1. CountsOK'
    BY Bounds
    DEF BeginWrite, Write, CloseStdin, Terminate, Close, Waited, SessionInv, PipesOK, CountsOK,
        childVars
  <2>2. /\ job' \in BOOLEAN /\ alive' = alive /\ watch' = watch
    BY DEF BeginWrite, Write, CloseStdin, Terminate, Close, Waited, SessionInv, PipesOK, childVars
  <2> QED
    BY <2>1, <2>2 DEF SessionInv, PipesOK
<1>3. StatusOK'
  BY DEF BeginWrite, Write, CloseStdin, Terminate, Close, Waited, SessionInv, StatusOK,
         ExitOK, stateVars
<1>4. CallOK' /\ NobodyNumbered
  <2>1. CASE Return(c)
    BY <1>1, <2>1, Returns
  <2>2. CASE Goto(c, "result") \/ Goto(c, "waiting")
    BY <1>1, <2>2, GoesTo
  <2>3. CASE call' = [call EXCEPT ![c].pc = "writing", ![c].left = Payload]
    <3>1. Payload \in 1..Payload
      BY Bounds
    <3> QED
      BY <1>1, <2>3, <3>1, GoesWriting
  <2>4. CASE /\ call[c].pc = "writing" /\ call[c].left # 1
             /\ call' = [call EXCEPT ![c].left = @ - 1]
    BY <1>1, <2>4, GoesOnWriting
  <2>5. CASE call' = [call EXCEPT ![c].pc = "exit", ![c].code = IF alive THEN "none" ELSE "code"]
    BY <1>1, <2>5, GoesToExit
  <2> QED
    BY <2>1, <2>2, <2>3, <2>4, <2>5 DEF BeginWrite, Write, CloseStdin, Terminate, Close, Waited
<1> QED
  BY <1>1, <1>2, <1>3, <1>4, QuietStep

\* terminate and close report what their wait saw.
LEMMA EndByExitKeeps ==
  ASSUME SessionInv, NEW c \in Callers, EndByExit(c)
  PROVE  SessionInv'
<1>1. CallOK /\ call[c].pc \in LockedPcs /\ opSeq' = opSeq /\ call[c].code \in {"none", "code"}
  BY DEF SessionInv, CallOK, CallRecord, EndByExit, LockedPcs
<1>2. CallOK' /\ NobodyNumbered
  <2>1. CASE Return(c)
    BY <1>1, <2>1, Returns
  <2>2. CASE Goto(c, "result")
    BY <1>1, <2>2, GoesTo
  <2> QED
    BY <2>1, <2>2 DEF EndByExit
<1>3. PipesOK' /\ UNCHANGED <<seen, opSeq>>
  BY DEF EndByExit, SessionInv, PipesOK, CountsOK, childVars
<1> QED
  BY <1>1, <1>2, <1>3, ExitStep, SessionAssumption DEF EndByExit

\* The event after the interaction lock was given back is no interaction.
LEMMA ResultKeeps ==
  ASSUME SessionInv, NEW c \in Callers, Result(c)
  PROVE  SessionInv'
<1>1. /\ call[c].op \in EventTypes /\ call[c].op # "interaction"
      /\ call[c].seq \in Nat
  BY SessionAssumption
  DEF SessionAssumption, SessionInv, CallOK, CallRecord, Result, EventTypes, Ops
<1>2. CallOK' /\ NobodyNumbered
  BY Returns DEF SessionInv, Result
<1>3. PipesOK' /\ StatusOK' /\ UNCHANGED <<seen, opSeq>>
  BY DEF Result, SessionInv, PipesOK, CountsOK, StatusOK, ExitOK, childVars, stateVars
<1> QED
  BY <1>1, <1>2, <1>3, EventStep, SessionAssumption DEF Result

\* The child and the reader thread.
LEMMA PipeKeeps ==
  ASSUME SessionInv, Echo \/ ChildExit \/ ReadPipe \/ AppendOutput
  PROVE  SessionInv'
<1>1. PipesOK'
  <2>1. CountsOK'
    BY Bounds
    DEF Echo, ChildExit, ReadPipe, AppendOutput, SessionInv, PipesOK, CountsOK, childVars
  <2>2. job' = job /\ alive' \in BOOLEAN /\ watch' = watch
    BY DEF Echo, ChildExit, ReadPipe, AppendOutput, SessionInv, PipesOK, childVars
  <2> QED
    BY <2>1, <2>2 DEF SessionInv, PipesOK
<1>2. CallOK' /\ NobodyNumbered /\ StatusOK' /\ UNCHANGED <<seen, opSeq>>
  BY DEF Echo, ChildExit, ReadPipe, AppendOutput, SessionInv, CallOK, NobodyNumbered, StatusOK,
         ExitOK, stateVars
<1>3. CASE UNCHANGED logVars
  BY <1>1, <1>2, <1>3, QuietStep
<1>4. CASE AppendEvent("output", 0)
  <2>1. "output" \in EventTypes /\ 0 \in Nat
    BY DEF EventTypes
  <2> QED
    BY <1>1, <1>2, <1>4, <2>1, EventStep, SessionAssumption
<1> QED
  BY <1>3, <1>4 DEF Echo, ChildExit, ReadPipe, AppendOutput

\* The watching thread waits, then records the exit.
LEMMA WatchKeeps ==
  ASSUME SessionInv, Watch
  PROVE  SessionInv'
<1>1. PipesOK' /\ CallOK' /\ NobodyNumbered /\ UNCHANGED <<seen, opSeq>>
  BY DEF Watch, SessionInv, PipesOK, CountsOK, CallOK, NobodyNumbered
<1>2. CASE UNCHANGED <<logVars, stateVars>>
  <2>1. StatusOK'
    BY <1>2 DEF SessionInv, StatusOK, ExitOK, stateVars
  <2> QED
    BY <1>1, <1>2, <2>1, QuietStep
<1>3. CASE RecordExit("code")
  BY <1>1, <1>3, ExitStep, SessionAssumption
<1> QED
  BY <1>2, <1>3 DEF Watch

\* The client's cursor is the cursor of an event in the log.
LEMMA ReadKeeps ==
  ASSUME SessionInv, Read
  PROVE  SessionInv'
<1>1. PICK last \in 1..Len(events) : seen' = events[last].cursor
  <2>1. DOMAIN events = 1..Len(events)
    BY DEF SessionInv, LogOK
  <2> QED
    BY <2>1 DEF Read, Newer
<1>2. /\ events[last].cursor \in Nat /\ events[last].cursor = cursor - Len(events) + last
      /\ cursor \in Nat /\ Len(events) \in Nat
  <2>1. events \in Seq(Event) /\ events[last] \in Event
    BY DEF SessionInv, LogOK
  <2> QED
    BY <2>1 DEF SessionInv, LogOK, Event
<1>3. seen' \in 0..cursor
  BY <1>1, <1>2
<1> QED
  BY <1>3
  DEF Read, SessionInv, LogOK, CallOK, InteractionsInOrder, NumbersAhead, Interactions,
      PipesOK, CountsOK, StatusOK, ExitOK, logVars, stateVars, childVars

-----------------------------------------------------------------------------
LEMMA InitHolds == Init => SessionInv
<1> SUFFICES ASSUME Init PROVE SessionInv
  OBVIOUS
<1>1. Len(events) = 0 /\ events \in Seq(Event) /\ DOMAIN events = {}
  BY DEF Init
<1>2. LogOK /\ seen \in 0..cursor
  <2>1. cursor = 0 /\ dropped = 0 /\ seen = 0
    BY DEF Init
  <2> QED
    BY <1>1, <2>1, Bounds DEF LogOK
<1>3. InteractionsInOrder /\ NumbersAhead
  BY <1>1 DEF InteractionsInOrder, NumbersAhead, Interactions
<1>4. PipesOK
  BY Bounds DEF Init, PipesOK, CountsOK
<1>5. StatusOK
  <2>1. exits = 0 /\ exits # 1 /\ exits <= 1
    BY DEF Init
  <2> QED
    BY <2>1 DEF Init, StatusOK, ExitOK
<1>6. CallOK
  <2>1. Idle \in CallRecord /\ Idle.pc = "idle" /\ Idle.seq = 0
    BY Bounds DEF Idle, CallRecord
  <2> QED
    BY <2>1, Bounds DEF Init, CallOK, LockedPcs
<1> QED
  BY <1>2, <1>6, <1>3, <1>4, <1>5 DEF SessionInv

LEMMA NextKeeps == SessionInv /\ [Next]_vars => SessionInv'
<1> SUFFICES ASSUME SessionInv, [Next]_vars PROVE SessionInv'
  OBVIOUS
<1>1. ASSUME NEW c \in Callers, CallStep(c) PROVE SessionInv'
  BY <1>1, RecordKeeps, BodyKeeps, EndByExitKeeps, ResultKeeps DEF CallStep
<1>2. CASE UNCHANGED vars
  BY <1>2
  DEF vars, SessionInv, LogOK, CallOK, InteractionsInOrder, NumbersAhead, Interactions,
      PipesOK, CountsOK, StatusOK, ExitOK, logVars, stateVars, childVars
<1> QED
  BY <1>1, <1>2, InteractKeeps, PipeKeeps, WatchKeeps, ReadKeeps DEF Next

\* One exit, in a log that has no gap and shows the interactions in order.
THEOREM InvariantHolds == Spec => []SessionInv
  BY InitHolds, NextKeeps, PTL DEF Spec

\* The types of the session, the contiguous cursors of its log, and that one
\* caller at most holds the interaction lock.
THEOREM SessionTypeCorrect == Spec => []SessionTypeOK
<1>1. SessionInv => SessionTypeOK
  <2> SUFFICES ASSUME SessionInv PROVE SessionTypeOK
    OBVIOUS
  <2>1. /\ cursor \in Nat /\ dropped \in Nat /\ seen \in 0..cursor
        /\ Len(events) <= MaxEvents
        /\ \A i \in DOMAIN events : events[i].cursor = cursor - Len(events) + i
    <3>1. Len(events) \in Nat /\ DOMAIN events = 1..Len(events)
      BY DEF SessionInv, LogOK
    <3> QED
      BY <3>1 DEF SessionInv, LogOK
  <2> QED
    BY <2>1 DEF SessionInv, SessionTypeOK, CallOK, CallRecord, PipesOK, CountsOK, StatusOK
<1> QED
  BY <1>1, InvariantHolds, PTL

\* A client that polls from its last cursor is told events_truncated exactly
\* when an event it has not seen was dropped.
THEOREM NothingLostUnannounced == Spec => []NoSilentGap
<1>1. SessionInv => NoSilentGap
  <2> SUFFICES ASSUME SessionInv PROVE NoSilentGap
    OBVIOUS
  <2>1. /\ cursor \in Nat /\ Len(events) \in Nat /\ seen \in 0..cursor
        /\ dropped = cursor - Len(events)
        /\ DOMAIN events = 1..Len(events)
        /\ \A i \in 1..Len(events) : events[i].cursor = dropped + i
    BY DEF SessionInv, LogOK
  <2>2. ASSUME seen < dropped
        PROVE  \E n \in seen + 1 .. cursor : \A i \in DOMAIN events : events[i].cursor # n
    <3>1. seen + 1 \in seen + 1 .. cursor
      BY <2>1, <2>2
    <3>2. \A i \in DOMAIN events : events[i].cursor # seen + 1
      BY <2>1, <2>2
    <3> QED
      BY <3>1, <3>2
  <2>3. ASSUME NEW n \in seen + 1 .. cursor, \A i \in DOMAIN events : events[i].cursor # n
        PROVE  seen < dropped
    <3>1. CASE n - dropped \in 1..Len(events)
      <4>1. events[n - dropped].cursor = dropped + (n - dropped)
        BY <2>1, <3>1
      <4> QED
        BY <2>1, <2>3, <3>1, <4>1
    <3>2. CASE n - dropped \notin 1..Len(events)
      BY <2>1, <2>3, <3>2
    <3> QED
      BY <3>1, <3>2
  <2> QED
    BY <2>2, <2>3 DEF NoSilentGap
<1> QED
  BY <1>1, InvariantHolds, PTL

\* However many threads append around them, the log shows the interactions in
\* the order in which they got their numbers.
THEOREM InteractionsOrdered == Spec => []InteractionsInOrder
<1>1. SessionInv => InteractionsInOrder
  BY DEF SessionInv
<1> QED
  BY <1>1, InvariantHolds, PTL

ClosingCaller(c) == call[c].op = "close" /\ call[c].pc \in {"waiting", "exit"}
CloseUnderWay == status = "closed" /\ exits = 0 => \E c \in Callers : ClosingCaller(c)

\* "closed" is there before the exit only in a close that goes on to log it.
LEMMA CloseGoesOn == SessionInv /\ CloseUnderWay /\ [Next]_vars => CloseUnderWay'
<1> SUFFICES ASSUME SessionInv, CloseUnderWay, [Next]_vars, status' = "closed", exits' = 0
             PROVE  \E c \in Callers : ClosingCaller(c)'
  BY DEF CloseUnderWay
<1>1. call \in [Callers -> CallRecord] /\ exits \in {0, 1}
  BY DEF SessionInv, CallOK, StatusOK
<1>2. ASSUME NEW c \in Callers, ClosingCaller(c), status = "closed", exits = 0, call'[c] = call[c]
      PROVE  \E d \in Callers : ClosingCaller(d)'
  BY <1>2 DEF ClosingCaller
<1>3. ASSUME call' = call, status' = status, exits' = exits
      PROVE  \E c \in Callers : ClosingCaller(c)'
  BY <1>3 DEF CloseUnderWay, ClosingCaller
<1>4. ASSUME NEW d \in Callers, NEW o \in Ops, Interact(d, o)
      PROVE  \E c \in Callers : ClosingCaller(c)'
  <2>1. PICK c \in Callers : ClosingCaller(c) /\ status = "closed" /\ exits = 0
    BY <1>4 DEF CloseUnderWay, Interact, stateVars
  <2>2. c # d /\ call'[c] = call[c]
    BY <1>1, <1>4, <2>1 DEF Interact, ClosingCaller, Idle
  <2> QED
    BY <1>2, <2>1, <2>2
<1>5. ASSUME NEW d \in Callers, CallStep(d)
      PROVE  \E c \in Callers : ClosingCaller(c)'
  <2>1. CASE Close(d) /\ status # "closed"
    <3>1. call'[d].op = "close" /\ call'[d].pc = "waiting"
      BY <1>1, <2>1 DEF Close, Goto, CallRecord
    <3> QED
      BY <3>1 DEF ClosingCaller
  <2>2. CASE ~(Close(d) /\ status # "closed")
    <3>1. status = "closed" /\ exits = 0
      BY <1>1, <1>5, <2>2
      DEF CallStep, Record, BeginWrite, Write, CloseStdin, Terminate, Close, Waited, EndByExit, Result,
          RecordExit, stateVars
    <3>2. PICK c \in Callers : ClosingCaller(c)
      BY <3>1 DEF CloseUnderWay
    <3>3. \A e \in Callers \ {d} : call'[e] = call[e]
      BY <1>1, <1>5
      DEF CallStep, Record, BeginWrite, Write, CloseStdin, Terminate, Close, Waited, EndByExit, Result,
          Goto, Return
    <3>4. CASE c # d
      BY <1>2, <3>1, <3>2, <3>3, <3>4
    <3>5. CASE c = d
      <4>1. ~EndByExit(d)
        BY <3>1 DEF EndByExit, RecordExit
      <4>2. Waited(d)
        BY <1>5, <3>2, <3>5, <4>1
        DEF CallStep, Record, BeginWrite, Write, CloseStdin, Terminate, Close, Result, ClosingCaller
      <4>3. call'[d].op = "close" /\ call'[d].pc = "exit"
        BY <1>1, <3>2, <3>5, <4>2 DEF Waited, ClosingCaller, CallRecord
      <4> QED
        BY <4>3 DEF ClosingCaller
    <3> QED
      BY <3>4, <3>5
  <2> QED
    BY <2>1, <2>2
<1>6. CASE Watch
  <2>1. call' = call /\ status = "closed" /\ exits = 0
    BY <1>1, <1>6 DEF Watch, RecordExit, stateVars
  <2> QED
    BY <2>1 DEF CloseUnderWay, ClosingCaller
<1>7. CASE Echo \/ ChildExit \/ ReadPipe \/ AppendOutput \/ Read \/ UNCHANGED vars
  BY <1>3, <1>7 DEF Echo, ChildExit, ReadPipe, AppendOutput, Read, vars, stateVars
<1> QED
  BY <1>4, <1>5, <1>6, <1>7 DEF Next

\* Watcher, terminate and close log one exit between them; a poller that sees
\* "exited" finds it, and one that sees "closed" without it sees a close that
\* has not returned.
THEOREM OneExit == Spec => []ExitLoggedOnce
<1>1. Init => CloseUnderWay
  BY DEF Init, CloseUnderWay
<1>2. SessionInv /\ CloseUnderWay => ExitLoggedOnce
  BY DEF SessionInv, StatusOK, ExitOK, CloseUnderWay, ClosingCaller, ExitLoggedOnce
<1> QED
  BY <1>1, <1>2, CloseGoesOn, InvariantHolds, PTL DEF Spec

(***************************************************************************)
(* The browser runtime                                                     *)
(***************************************************************************)
CallSteps == {"idle", "restarting", "clearing", "spawning", "waiting keeper", "verifying"}
                 \cup Unnamed \cup Cleaning \cup Stopping
BrowserCalls == [at : CallSteps, again : BOOLEAN, spared : BOOLEAN, of : 0..MaxBrowserStarts,
                 seen : 0..MaxBrowserStarts, said : {"none", "ready", "raised", "stopped"}]
McpLives == {"none", "starting", "serving", "gone"}
KeeperLives == {"none", "starting", "connecting", "ready", "gone"}

BrowserTypes ==
    /\ browserFile \in 0..MaxBrowserStarts /\ readyFile \in 0..MaxBrowserStarts
    /\ browserStarts \in 0..MaxBrowserStarts
    /\ mcpLife \in [BrowserStarts -> McpLives] /\ keeperLife \in [BrowserStarts -> KeeperLives]
    /\ browserCall \in [Starters -> BrowserCalls]

OneServes == \A m, n \in BrowserStarts : mcpLife[m] = "serving" /\ mcpLife[n] = "serving" => m = n

\* Starts are numbered as they come: what names one names one that was made.
StartsNumbered ==
    /\ browserFile <= browserStarts
    /\ \A c \in Starters : browserCall[c].of <= browserStarts /\ browserCall[c].seen <= browserStarts
    /\ \A n \in BrowserStarts : n > browserStarts => keeperLife[n] = "none"

\* Until it writes the file, nobody but the call that spawned a start knows of it.
KnownToOne(c) ==
    browserCall[c].at \in Unnamed =>
        /\ browserCall[c].of # 0 /\ browserFile # browserCall[c].of
        /\ \A d \in Starters : browserCall[d].seen # browserCall[c].of
        /\ \A d \in Starters \ {c} : browserCall[d].of # browserCall[c].of

Dead(n) == ~Lives(mcpLife, n) /\ ~Lives(keeperLife, n)

Starting == {"waiting keeper"} \cup Unnamed \cup Cleaning

\* What a call knows to be dead: the start it found in the file and replaces,
\* what it killed of its own, what it has stopped.
CallKnowsDead(c) ==
    /\ browserCall[c].at \in {"clearing", "spawning"} => Dead(browserCall[c].seen)
    /\ browserCall[c].at \in Starting /\ browserCall[c].seen # browserCall[c].of => Dead(browserCall[c].seen)
    /\ browserCall[c].at \in {"waiting port", "spawning keeper"} => ~Lives(keeperLife, browserCall[c].of)
    /\ browserCall[c].at = "cleaning mcp" /\ ~browserCall[c].spared => ~Lives(keeperLife, browserCall[c].of)
    /\ browserCall[c].at \in {"cleaning state", "cleaning ready"} /\ ~browserCall[c].spared =>
           Dead(browserCall[c].of)
    /\ browserCall[c].at \in Stopping \ {"checking"} => browserCall[c].seen = browserCall[c].of
    /\ browserCall[c].at = "stopping mcp" => ~Lives(keeperLife, browserCall[c].of)
    /\ browserCall[c].at \in {"unmarking", "unnaming", "checking"} => Dead(browserCall[c].of)
    /\ browserCall[c].at = "checking" => browserCall[c].seen = 0

BrowserInv ==
    /\ BrowserTypes /\ OneServes /\ StartsNumbered
    /\ \A c \in Starters : KnownToOne(c) /\ CallKnowsDead(c)

LEMMA BrowserFacts ==
  ASSUME BrowserInv
  PROVE  /\ BrowserTypes /\ OneServes /\ StartsNumbered
         /\ \A c \in Starters : KnownToOne(c) /\ CallKnowsDead(c)
         /\ \A c \in Starters : browserCall[c] \in BrowserCalls
BY DEF BrowserInv, BrowserTypes

LEMMA BrowserNumbers == 0 \in 0..MaxBrowserStarts /\ \A n \in BrowserStarts : n \in 0..MaxBrowserStarts /\ n # 0
BY BrowserAssumption DEF BrowserStarts

LEMMA StartNumbers == \A m \in 0..MaxBrowserStarts : m # 0 => m \in BrowserStarts
BY BrowserAssumption DEF BrowserStarts

LEMMA StartOrder ==
  \A m, n \in 0..MaxBrowserStarts : m <= m /\ (m <= n => ~(m > n))
BY BrowserAssumption

LEMMA BrowserInvInit == BrowserInit => BrowserInv
<1> SUFFICES ASSUME BrowserInit PROVE BrowserInv
  OBVIOUS
<1>1. NoCall \in BrowserCalls
  BY BrowserNumbers DEF NoCall, BrowserCalls, CallSteps
<1>2. BrowserTypes
  BY <1>1, BrowserNumbers DEF BrowserInit, BrowserTypes, McpLives, KeeperLives
<1>3. OneServes /\ StartsNumbered
  BY DEF BrowserInit, OneServes, StartsNumbered, NoCall
<1>4. \A c \in Starters : KnownToOne(c) /\ CallKnowsDead(c)
  BY DEF BrowserInit, KnownToOne, CallKnowsDead, NoCall, Unnamed, Starting, Cleaning, Stopping
<1> QED
  BY <1>2, <1>3, <1>4 DEF BrowserInv

\* In a step, no process of start n comes to life.
NothingNew(n) == (Lives(mcpLife', n) => Lives(mcpLife, n)) /\ (Lives(keeperLife', n) => Lives(keeperLife, n))

LEMMA DeadStays ==
  ASSUME BrowserInv, NEW d \in Starters, browserCall'[d] = browserCall[d],
         NothingNew(browserCall[d].of), NothingNew(browserCall[d].seen)
  PROVE  CallKnowsDead(d)'
BY BrowserFacts DEF CallKnowsDead, NothingNew, Dead, Lives

\* A step of caller c that at most spawns a process of the start only it knows.
LEMMA OneCallGoes ==
  ASSUME BrowserInv, NEW c \in Starters, BrowserTypes', OneServes', UNCHANGED browserStarts,
         \A d \in Starters \ {c} : browserCall'[d] = browserCall[d],
         browserFile' \in {0, browserFile, browserCall[c].of},
         browserCall'[c].of \in {0, browserFile, browserCall[c].of},
         browserCall'[c].seen \in {0, browserFile, browserCall[c].seen, browserCall[c].of},
         browserCall'[c].at \in Unnamed =>
             /\ browserCall[c].at \in Unnamed /\ browserFile' = browserFile
             /\ browserCall'[c].of = browserCall[c].of /\ browserCall'[c].seen = browserCall[c].seen,
         \A n \in 0..MaxBrowserStarts : NothingNew(n) \/ (n = browserCall[c].of /\ browserCall[c].at \in Unnamed),
         \A n \in BrowserStarts : n > browserStarts => keeperLife'[n] = "none",
         CallKnowsDead(c)'
  PROVE  BrowserInv'
<1> USE BrowserFacts
<1>1. StartsNumbered'
  <2>1. browserFile' <= browserStarts'
    BY DEF StartsNumbered, BrowserTypes
  <2>2. ASSUME NEW d \in Starters PROVE browserCall'[d].of <= browserStarts' /\ browserCall'[d].seen <= browserStarts'
    <3>1. CASE d = c
      BY <3>1 DEF StartsNumbered, BrowserTypes
    <3>2. CASE d # c
      BY <3>2 DEF StartsNumbered
    <3> QED
      BY <3>1, <3>2
  <2> QED
    BY <2>1, <2>2 DEF StartsNumbered
<1>2. ASSUME NEW d \in Starters PROVE KnownToOne(d)'
  <2> SUFFICES ASSUME browserCall'[d].at \in Unnamed
               PROVE  /\ browserCall'[d].of # 0 /\ browserFile' # browserCall'[d].of
                      /\ \A e \in Starters : browserCall'[e].seen # browserCall'[d].of
                      /\ \A e \in Starters \ {d} : browserCall'[e].of # browserCall'[d].of
    BY DEF KnownToOne
  <2>1. browserCall[d].at \in Unnamed /\ browserCall'[d].of = browserCall[d].of
    OBVIOUS
  <2>2. /\ browserCall[d].of # 0 /\ browserFile # browserCall[d].of
        /\ \A e \in Starters : browserCall[e].seen # browserCall[d].of
        /\ \A e \in Starters \ {d} : browserCall[e].of # browserCall[d].of
    BY <2>1 DEF KnownToOne
  <2>3. browserFile' # browserCall[d].of
    BY <2>2
  <2>4. \A e \in Starters : browserCall'[e].seen # browserCall[d].of
    <3>1. CASE d = c
      BY <2>2, <3>1
    <3>2. CASE d # c
      BY <2>2, <3>2
    <3> QED
      BY <3>1, <3>2
  <2>5. \A e \in Starters \ {d} : browserCall'[e].of # browserCall[d].of
    BY <2>2
  <2> QED
    BY <2>1, <2>2, <2>3, <2>4, <2>5
<1>3. ASSUME NEW d \in Starters \ {c} PROVE CallKnowsDead(d)'
  <2>1. browserCall[d].of \in 0..MaxBrowserStarts /\ browserCall[d].seen \in 0..MaxBrowserStarts
    BY DEF BrowserCalls
  <2>2. browserCall[c].at \in Unnamed => browserCall[d].of # browserCall[c].of /\ browserCall[d].seen # browserCall[c].of
    BY DEF KnownToOne
  <2>3. NothingNew(browserCall[d].of) /\ NothingNew(browserCall[d].seen)
    BY <2>1, <2>2
  <2> QED
    BY <2>3, DeadStays
<1> QED
  BY <1>1, <1>2, <1>3 DEF BrowserInv

\* The caller's own record, before and after.
LEMMA BrowserCallRecord ==
  ASSUME BrowserInv, NEW c \in Starters, NEW r \in BrowserCalls, browserCall' = [browserCall EXCEPT ![c] = r]
  PROVE  /\ browserCall'[c] = r /\ browserCall' \in [Starters -> BrowserCalls]
         /\ \A d \in Starters \ {c} : browserCall'[d] = browserCall[d]
BY BrowserFacts DEF BrowserTypes

LEMMA CallGone ==
  ASSUME BrowserInv, NEW c \in Starters, NEW from, NEW to \in CallSteps, CallGoes(c, from, to)
  PROVE  /\ browserCall[c].at = from
         /\ browserCall' \in [Starters -> BrowserCalls]
         /\ browserCall'[c].at = to /\ browserCall'[c].of = browserCall[c].of /\ browserCall'[c].seen = browserCall[c].seen
         /\ browserCall'[c].spared = browserCall[c].spared
         /\ \A d \in Starters \ {c} : browserCall'[d] = browserCall[d]
<1>1. [browserCall[c] EXCEPT !.at = to] \in BrowserCalls
  BY BrowserFacts DEF BrowserCalls
<1>2. browserCall' = [browserCall EXCEPT ![c] = [browserCall[c] EXCEPT !.at = to]]
  BY DEF CallGoes
<1>3. PICK r \in BrowserCalls : r = [browserCall[c] EXCEPT !.at = to]
  BY <1>1
<1>4. /\ browserCall'[c] = r /\ browserCall' \in [Starters -> BrowserCalls]
      /\ \A d \in Starters \ {c} : browserCall'[d] = browserCall[d]
  BY <1>2, <1>3, BrowserCallRecord
<1>5. r.at = to /\ r.of = browserCall[c].of /\ r.seen = browserCall[c].seen /\ r.spared = browserCall[c].spared
  BY <1>3, BrowserFacts DEF BrowserCalls
<1> QED
  BY <1>3, <1>4, <1>5 DEF CallGoes

LEMMA CallSaid ==
  ASSUME BrowserInv, NEW c \in Starters, NEW from, NEW said \in {"none", "ready", "raised", "stopped"},
         CallSays(c, from, said)
  PROVE  /\ browserCall[c].at = from
         /\ browserCall'[c].at = "idle" /\ browserCall'[c].of = 0 /\ browserCall'[c].seen = 0
         /\ browserCall' \in [Starters -> BrowserCalls]
         /\ \A d \in Starters \ {c} : browserCall'[d] = browserCall[d]
         /\ CallKnowsDead(c)'
<1>1. PICK r : r = [NoCall EXCEPT !.said = said]
  OBVIOUS
<1>2. r \in BrowserCalls /\ r.at = "idle" /\ r.of = 0 /\ r.seen = 0
  BY <1>1, BrowserNumbers DEF NoCall, BrowserCalls, CallSteps
<1>3. browserCall' = [browserCall EXCEPT ![c] = r] /\ browserCall[c].at = from
  BY <1>1 DEF CallSays
<1>4. /\ browserCall'[c] = r /\ browserCall' \in [Starters -> BrowserCalls]
      /\ \A d \in Starters \ {c} : browserCall'[d] = browserCall[d]
  BY <1>2, <1>3, BrowserCallRecord
<1>5. CallKnowsDead(c)'
  BY <1>2, <1>4 DEF CallKnowsDead, Starting, Unnamed, Cleaning, Stopping
<1> QED
  BY <1>2, <1>3, <1>4, <1>5

\* What may happen to the processes when nothing is spawned.
LivesShrink ==
    /\ mcpLife' \in [BrowserStarts -> McpLives] /\ keeperLife' \in [BrowserStarts -> KeeperLives]
    /\ OneServes' /\ \A n \in 0..MaxBrowserStarts : NothingNew(n)
    /\ \A n \in BrowserStarts : n > browserStarts => keeperLife'[n] = "none"

LEMMA LivesUnchanged == ASSUME BrowserInv, UNCHANGED <<mcpLife, keeperLife>> PROVE LivesShrink
BY BrowserFacts DEF LivesShrink, NothingNew, BrowserTypes, OneServes, StartsNumbered

LEMMA KilledMcp ==
  ASSUME BrowserInv, NEW n \in 0..MaxBrowserStarts, Killed(mcpLife, n), UNCHANGED keeperLife
  PROVE  LivesShrink /\ ~Lives(mcpLife', n)
<1> USE BrowserFacts
<1>1. CASE ~Lives(mcpLife, n)
  BY <1>1, LivesUnchanged DEF Killed
<1>2. CASE Lives(mcpLife, n)
  <2>1. mcpLife' = [mcpLife EXCEPT ![n] = "gone"] /\ n \in BrowserStarts
    BY <1>2, BrowserAssumption DEF Killed, Lives, BrowserStarts
  <2>2. mcpLife'[n] = "gone" /\ (\A m \in BrowserStarts \ {n} : mcpLife'[m] = mcpLife[m])
        /\ mcpLife' \in [BrowserStarts -> McpLives]
    BY <2>1 DEF BrowserTypes, McpLives
  <2>3. OneServes'
    BY <2>2 DEF OneServes
  <2>4. \A m \in 0..MaxBrowserStarts : NothingNew(m)
    BY <2>2, StartNumbers DEF NothingNew, Lives
  <2>5. ~Lives(mcpLife', n)
    BY <2>2 DEF Lives
  <2> QED
    BY <2>2, <2>3, <2>4, <2>5 DEF LivesShrink, BrowserTypes, StartsNumbered
<1> QED
  BY <1>1, <1>2

LEMMA KilledKeeper ==
  ASSUME BrowserInv, NEW n \in 0..MaxBrowserStarts, Killed(keeperLife, n), UNCHANGED mcpLife
  PROVE  LivesShrink /\ ~Lives(keeperLife', n)
<1> USE BrowserFacts
<1>1. CASE ~Lives(keeperLife, n)
  BY <1>1, LivesUnchanged DEF Killed
<1>2. CASE Lives(keeperLife, n)
  <2>1. keeperLife' = [keeperLife EXCEPT ![n] = "gone"] /\ n \in BrowserStarts
    BY <1>2, BrowserAssumption DEF Killed, Lives, BrowserStarts
  <2>2. keeperLife'[n] = "gone" /\ (\A m \in BrowserStarts \ {n} : keeperLife'[m] = keeperLife[m])
        /\ keeperLife' \in [BrowserStarts -> KeeperLives]
    BY <2>1 DEF BrowserTypes, KeeperLives
  <2>3. \A m \in BrowserStarts : m > browserStarts => keeperLife'[m] = "none"
    <3>1. keeperLife[n] # "none"
      BY <1>2 DEF Lives
    <3> QED
      BY <2>2, <3>1 DEF StartsNumbered
  <2>4. \A m \in 0..MaxBrowserStarts : NothingNew(m)
    BY <2>2, StartNumbers DEF NothingNew, Lives
  <2>5. ~Lives(keeperLife', n) /\ OneServes'
    BY <2>2 DEF Lives, OneServes
  <2> QED
    BY <2>2, <2>3, <2>4, <2>5 DEF LivesShrink, BrowserTypes
<1> QED
  BY <1>1, <1>2

LEMMA ShrinkTypes ==
  ASSUME BrowserInv, LivesShrink, UNCHANGED browserStarts, browserCall' \in [Starters -> BrowserCalls],
         browserFile' \in 0..MaxBrowserStarts, readyFile' \in 0..MaxBrowserStarts
  PROVE  BrowserTypes'
BY BrowserFacts DEF BrowserTypes, LivesShrink

\* A call that ends, whatever it says.
LEMMA CallEndsSo ==
  ASSUME BrowserInv, NEW c \in Starters, NEW from, NEW said \in {"none", "ready", "raised", "stopped"},
         CallSays(c, from, said), UNCHANGED <<browserFile, browserStarts>>, readyFile' \in {0, readyFile},
         LivesShrink
  PROVE  BrowserInv'
<1>1. /\ browserCall'[c].at = "idle" /\ browserCall'[c].of = 0 /\ browserCall'[c].seen = 0
      /\ \A d \in Starters \ {c} : browserCall'[d] = browserCall[d]
      /\ CallKnowsDead(c)' /\ browserCall' \in [Starters -> BrowserCalls]
  BY CallSaid
<1>2. browserCall'[c].at \notin Unnamed
  BY <1>1 DEF Unnamed
<1>3. browserFile' \in 0..MaxBrowserStarts /\ readyFile' \in 0..MaxBrowserStarts
  BY BrowserFacts, BrowserNumbers DEF BrowserTypes
<1>4. BrowserTypes'
  BY <1>1, <1>3, ShrinkTypes
<1> QED
  BY <1>1, <1>2, <1>4, OneCallGoes DEF LivesShrink

\* A call that takes its next step.
LEMMA CallGoesOn ==
  ASSUME BrowserInv, NEW c \in Starters, NEW from, NEW to \in CallSteps, CallGoes(c, from, to),
         LivesShrink, UNCHANGED browserStarts, browserFile' \in {0, browserFile}, readyFile' \in {0, readyFile},
         to \in Unnamed => from \in Unnamed /\ browserFile' = browserFile,
         CallKnowsDead(c)'
  PROVE  BrowserInv'
<1>1. /\ browserCall[c].at = from /\ browserCall' \in [Starters -> BrowserCalls]
      /\ browserCall'[c].at = to /\ browserCall'[c].of = browserCall[c].of /\ browserCall'[c].seen = browserCall[c].seen
      /\ \A d \in Starters \ {c} : browserCall'[d] = browserCall[d]
  BY CallGone
<1>2. browserFile' \in 0..MaxBrowserStarts /\ readyFile' \in 0..MaxBrowserStarts
  BY BrowserFacts, BrowserNumbers DEF BrowserTypes
<1>3. BrowserTypes'
  BY <1>1, <1>2, ShrinkTypes
<1> QED
  BY <1>1, <1>3, OneCallGoes DEF LivesShrink

-----------------------------------------------------------------------------
(* start_browser_runtime *)

LEMMA BrowserBegins ==
  ASSUME BrowserInv, NEW c \in Starters, BeginBrowser(c)
  PROVE  BrowserInv'
<1> USE BrowserFacts, BrowserNumbers
<1>1. UNCHANGED <<browserFile, readyFile, browserStarts, mcpLife, keeperLife>> /\ LivesShrink
  BY LivesUnchanged DEF BeginBrowser, browserFiles, browserLives
<1>2. CASE CallSays(c, "idle", "ready") \/ CallSays(c, "idle", "raised")
  BY <1>1, <1>2, CallEndsSo
<1>3. CASE BrowserStatus(browserFile) \notin {"ready", "conflict"}
  <2>1. PICK r : r = [NoCall EXCEPT !.at = IF BrowserStatus(browserFile) = "degraded" THEN "restarting" ELSE "clearing",
                                    !.seen = browserFile]
    OBVIOUS
  <2>2. browserCall' = [browserCall EXCEPT ![c] = r]
    BY <1>3, <2>1 DEF BeginBrowser, LooksFirst
  <2>3. /\ r \in BrowserCalls /\ r.at \in {"restarting", "clearing"} /\ r.seen = browserFile /\ r.of = 0
        /\ r.at = "clearing" => BrowserStatus(browserFile) # "degraded"
    BY <2>1 DEF NoCall, BrowserCalls, CallSteps, BrowserTypes
  <2>4. /\ browserCall'[c] = r /\ browserCall' \in [Starters -> BrowserCalls]
        /\ \A d \in Starters \ {c} : browserCall'[d] = browserCall[d]
    BY <2>2, <2>3, BrowserCallRecord
  <2>5. r.at = "clearing" => Dead(browserFile)
    BY <1>3, <2>3 DEF BrowserStatus, StillSeen, Dead
  <2>6. CallKnowsDead(c)'
    BY <1>1, <2>3, <2>4, <2>5 DEF CallKnowsDead, Starting, Unnamed, Cleaning, Stopping, Dead
  <2>7. BrowserTypes'
    BY <1>1, <2>4, ShrinkTypes DEF BrowserTypes
  <2>8. browserCall'[c].at \notin Unnamed
    BY <2>3, <2>4 DEF Unnamed
  <2> QED
    BY <1>1, <2>3, <2>4, <2>6, <2>7, <2>8, OneCallGoes DEF LivesShrink
<1> QED
  BY <1>2, <1>3 DEF BeginBrowser, LooksFirst

\* The start to come is not the number of anything yet.
LEMMA NextStart ==
  ASSUME BrowserInv, browserStarts < MaxBrowserStarts
  PROVE  /\ browserStarts \in Nat /\ MaxBrowserStarts \in Nat
         /\ browserStarts + 1 \in BrowserStarts /\ browserStarts + 1 \in 0..MaxBrowserStarts
         /\ browserStarts + 1 # 0 /\ browserStarts + 1 > browserStarts
         /\ \A m \in 0..MaxBrowserStarts : m <= browserStarts => m # browserStarts + 1 /\ m <= browserStarts + 1
         /\ \A m \in 0..MaxBrowserStarts : m # 0 => m \in BrowserStarts
         /\ \A m \in BrowserStarts : m > browserStarts + 1 => m > browserStarts
         /\ browserFile \in 0..MaxBrowserStarts /\ browserFile <= browserStarts
         /\ \A c \in Starters : /\ browserCall[c].of \in 0..MaxBrowserStarts /\ browserCall[c].of <= browserStarts
                                /\ browserCall[c].seen \in 0..MaxBrowserStarts /\ browserCall[c].seen <= browserStarts
<1>1. browserStarts \in 0..MaxBrowserStarts /\ browserFile \in 0..MaxBrowserStarts /\ browserFile <= browserStarts
  BY BrowserFacts DEF BrowserTypes, StartsNumbered
<1>2. \A c \in Starters : /\ browserCall[c].of \in 0..MaxBrowserStarts /\ browserCall[c].of <= browserStarts
                          /\ browserCall[c].seen \in 0..MaxBrowserStarts /\ browserCall[c].seen <= browserStarts
  BY BrowserFacts DEF BrowserCalls, StartsNumbered
<1>3. MaxBrowserStarts \in Nat
  BY BrowserAssumption
<1> QED
  BY <1>1, <1>2, <1>3 DEF BrowserStarts

LEMMA McpSpawns ==
  ASSUME BrowserInv, NEW c \in Starters, browserCall[c].at = "spawning", browserStarts < MaxBrowserStarts,
         browserStarts' = browserStarts + 1, mcpLife' = [mcpLife EXCEPT ![browserStarts'] = "starting"],
         browserCall' = [browserCall EXCEPT ![c].at = "waiting port", ![c].of = browserStarts'],
         UNCHANGED <<browserFile, readyFile, keeperLife>>
  PROVE  BrowserInv' /\ browserCall'[c].at = "waiting port" /\ browserCall'[c].of = browserStarts'
<1>0. PICK n : n = browserStarts + 1
  OBVIOUS
<1>1. /\ n \in BrowserStarts /\ n \in 0..MaxBrowserStarts /\ n # 0 /\ n > browserStarts
      /\ \A m \in 0..MaxBrowserStarts : m <= browserStarts => m # n /\ m <= n
      /\ \A m \in 0..MaxBrowserStarts : m # 0 => m \in BrowserStarts
      /\ \A m \in BrowserStarts : m > n => m > browserStarts
      /\ browserFile \in 0..MaxBrowserStarts /\ browserFile <= browserStarts
      /\ \A d \in Starters : /\ browserCall[d].of \in 0..MaxBrowserStarts /\ browserCall[d].of <= browserStarts
                             /\ browserCall[d].seen \in 0..MaxBrowserStarts /\ browserCall[d].seen <= browserStarts
  <2>1. /\ n \in BrowserStarts /\ n \in 0..MaxBrowserStarts /\ n # 0 /\ n > browserStarts
        /\ \A m \in 0..MaxBrowserStarts : m <= browserStarts => m # n /\ m <= n
        /\ \A m \in 0..MaxBrowserStarts : m # 0 => m \in BrowserStarts
        /\ \A m \in BrowserStarts : m > n => m > browserStarts
    BY ONLY <1>0, NextStart, BrowserInv, browserStarts < MaxBrowserStarts
  <2>2. /\ browserFile \in 0..MaxBrowserStarts /\ browserFile <= browserStarts
        /\ \A d \in Starters : /\ browserCall[d].of \in 0..MaxBrowserStarts /\ browserCall[d].of <= browserStarts
                               /\ browserCall[d].seen \in 0..MaxBrowserStarts /\ browserCall[d].seen <= browserStarts
    BY NextStart
  <2> QED
    BY <2>1, <2>2
<1>2. browserStarts' = n /\ n <= n
  BY <1>0, <1>1, StartOrder
<1>3. PICK r : r = [browserCall[c] EXCEPT !.at = "waiting port", !.of = n]
  OBVIOUS
<1>4. r \in BrowserCalls /\ r.at = "waiting port" /\ r.of = n /\ r.seen = browserCall[c].seen
  BY <1>1, <1>3, BrowserFacts DEF BrowserCalls, CallSteps, Unnamed
<1>5. browserCall' = [browserCall EXCEPT ![c] = r]
  BY <1>2, <1>3
<1>6. /\ browserCall'[c] = r /\ browserCall' \in [Starters -> BrowserCalls]
      /\ \A d \in Starters \ {c} : browserCall'[d] = browserCall[d]
  BY <1>4, <1>5, BrowserCallRecord
<1>7. /\ mcpLife' \in [BrowserStarts -> McpLives] /\ mcpLife'[n] = "starting"
      /\ \A m \in BrowserStarts \ {n} : mcpLife'[m] = mcpLife[m]
  BY <1>1, <1>2, BrowserFacts DEF BrowserTypes, McpLives
<1>8. BrowserTypes'
  BY <1>1, <1>2, <1>6, <1>7, BrowserFacts DEF BrowserTypes
<1>9. OneServes'
  BY <1>7, BrowserFacts DEF OneServes
<1>10. StartsNumbered'
  <2>1. browserFile' <= n
    BY <1>1
  <2>2. ASSUME NEW d \in Starters PROVE browserCall'[d].of <= n /\ browserCall'[d].seen <= n
    <3>1. CASE d = c
      <4>1. browserCall'[d].of = n /\ browserCall'[d].seen = browserCall[c].seen
        BY <1>4, <1>6, <3>1
      <4>2. browserCall[c].seen <= n
        BY <1>1
      <4> QED
        BY <1>2, <4>1, <4>2
    <3>2. CASE d # c
      BY <1>1, <1>6, <3>2
    <3> QED
      BY <3>1, <3>2
  <2>3. \A m \in BrowserStarts : m > n => keeperLife'[m] = "none"
    BY <1>1, BrowserFacts DEF StartsNumbered
  <2> QED
    BY <1>2, <2>1, <2>2, <2>3 DEF StartsNumbered
<1>11. \A d \in Starters : KnownToOne(d)'
  <2>1. browserFile' # n /\ \A d \in Starters : browserCall[d].seen # n /\ browserCall[d].of # n
    BY <1>1
  <2>2. \A d \in Starters : browserCall'[d].seen # n
    BY <1>4, <1>6, <2>1
  <2>3. KnownToOne(c)'
    BY <1>1, <1>4, <1>6, <2>1, <2>2 DEF KnownToOne
  <2>4. ASSUME NEW d \in Starters \ {c} PROVE KnownToOne(d)'
    <3>1. KnownToOne(d) /\ browserCall'[d] = browserCall[d] /\ browserCall[d].of # n
      BY <1>6, <2>1, BrowserFacts
    <3>2. \A e \in Starters : browserCall'[e].seen = browserCall[e].seen
      BY <1>4, <1>6
    <3>3. \A e \in Starters : browserCall'[e].of = browserCall[e].of \/ browserCall'[e].of = n
      BY <1>4, <1>6
    <3> QED
      BY <3>1, <3>2, <3>3 DEF KnownToOne
  <2> QED
    BY <2>3, <2>4
<1>12. \A m \in 0..MaxBrowserStarts : m <= browserStarts => NothingNew(m)
  BY <1>1, <1>7 DEF NothingNew, Lives
<1>13. \A d \in Starters \ {c} : CallKnowsDead(d)'
  BY <1>1, <1>6, <1>12, DeadStays
<1>14. CallKnowsDead(c)'
  <2>1. Dead(browserCall[c].seen) /\ NothingNew(browserCall[c].seen)
    BY <1>1, <1>12, BrowserFacts DEF CallKnowsDead
  <2>2. Dead(r.seen)'
    BY <1>4, <2>1 DEF Dead, NothingNew
  <2>3. keeperLife'[n] = "none"
    BY <1>1, BrowserFacts DEF StartsNumbered
  <2>4. ~Lives(keeperLife', n)
    BY <2>3 DEF Lives
  <2>5. r.at \notin Cleaning \cup Stopping \cup {"clearing", "spawning"}
    BY <1>4 DEF Cleaning, Stopping
  <2> QED
    BY <1>4, <1>6, <2>2, <2>4, <2>5 DEF CallKnowsDead, Cleaning, Stopping
<1> QED
  BY <1>2, <1>4, <1>6, <1>8, <1>9, <1>10, <1>11, <1>13, <1>14 DEF BrowserInv

\* A keeper comes to life for the start only its caller knows.
LEMMA KeeperSpawns ==
  ASSUME BrowserInv, NEW c \in Starters, CallGoes(c, "spawning keeper", "naming"),
         keeperLife' = [keeperLife EXCEPT ![browserCall[c].of] = "starting"],
         UNCHANGED <<browserFile, readyFile, browserStarts, mcpLife>>
  PROVE  BrowserInv'
<1>1. /\ browserCall[c].at = "spawning keeper" /\ browserCall' \in [Starters -> BrowserCalls]
      /\ browserCall'[c].at = "naming" /\ browserCall'[c].of = browserCall[c].of
      /\ browserCall'[c].seen = browserCall[c].seen
      /\ \A d \in Starters \ {c} : browserCall'[d] = browserCall[d]
  BY CallGone DEF CallSteps, Unnamed
<1>2. PICK n : n = browserCall[c].of
  OBVIOUS
<1>3. n # 0 /\ n \in 0..MaxBrowserStarts /\ n <= browserStarts /\ browserCall[c].seen # n
  BY <1>1, <1>2, BrowserFacts DEF KnownToOne, Unnamed, BrowserCalls, StartsNumbered
<1>4. \A m \in 0..MaxBrowserStarts : m # 0 => m \in BrowserStarts
  BY StartNumbers
<1>5. /\ keeperLife' \in [BrowserStarts -> KeeperLives]
      /\ \A m \in BrowserStarts \ {n} : keeperLife'[m] = keeperLife[m]
  BY <1>2, <1>3, <1>4, BrowserFacts DEF BrowserTypes, KeeperLives
<1>6. \A m \in 0..MaxBrowserStarts : NothingNew(m) \/ m = n
  BY <1>4, <1>5 DEF NothingNew, Lives
<1>7. BrowserTypes' /\ OneServes'
  BY <1>1, <1>5, BrowserFacts DEF BrowserTypes, OneServes
<1>8. \A m \in BrowserStarts : m > browserStarts => keeperLife'[m] = "none"
  <2>1. browserStarts \in 0..MaxBrowserStarts
    BY BrowserFacts DEF BrowserTypes
  <2>2. ~(n > browserStarts)
    BY <1>3, <2>1, StartOrder
  <2> QED
    BY <1>5, <2>2, BrowserFacts DEF StartsNumbered
<1>9. CallKnowsDead(c)'
  <2>1. Dead(browserCall[c].seen)
    BY <1>1, <1>2, <1>3, BrowserFacts DEF CallKnowsDead, Starting, Unnamed
  <2>2. NothingNew(browserCall[c].seen)
    <3>1. browserCall[c].seen \in 0..MaxBrowserStarts
      BY BrowserFacts DEF BrowserCalls
    <3> QED
      BY <1>3, <1>6, <3>1
  <2>3. ~Lives(mcpLife', browserCall[c].seen) /\ ~Lives(keeperLife', browserCall[c].seen)
    BY <2>1, <2>2 DEF Dead, NothingNew
  <2> QED
    BY <1>1, <2>3 DEF CallKnowsDead, Dead, Cleaning, Stopping
<1>10. "naming" \in Unnamed /\ "spawning keeper" \in Unnamed
  BY DEF Unnamed
<1>11. UNCHANGED browserStarts /\ browserFile' = browserFile
  OBVIOUS
<1> QED
  BY <1>1, <1>2, <1>6, <1>7, <1>8, <1>9, <1>10, <1>11, OneCallGoes

\* Steps of a start that leave the processes alone.
LEMMA StartGoesOn ==
  ASSUME BrowserInv, NEW c \in Starters,
         ClearReady(c) \/ WaitPort(c) \/ WaitKeeper(c) \/ VerifyReady(c) \/ CleanState(c) \/ CleanReady(c)
  PROVE  BrowserInv'
<1>1. UNCHANGED <<browserStarts, mcpLife, keeperLife>> /\ LivesShrink
  BY LivesUnchanged DEF ClearReady, WaitPort, WaitKeeper, VerifyReady, CleanState, CleanReady, browserLives
<1>2. browserFile' \in {0, browserFile} /\ readyFile' \in {0, readyFile}
  BY DEF ClearReady, WaitPort, WaitKeeper, VerifyReady, CleanState, CleanReady, browserFiles
<1>3. ASSUME NEW from, NEW to \in {"spawning", "spawning keeper", "cleaning mcp", "verifying", "cleaning keeper",
                                   "cleaning ready"},
             CallGoes(c, from, to),
             \/ from = "clearing" /\ to = "spawning"
             \/ from = "waiting port" /\ to \in {"spawning keeper", "cleaning mcp"} /\ browserFile' = browserFile
             \/ from = "waiting keeper" /\ to \in {"verifying", "cleaning keeper"}
             \/ from = "cleaning state" /\ to = "cleaning ready"
      PROVE  BrowserInv'
  <2>1. to \in CallSteps
    BY <1>3 DEF CallSteps, Unnamed, Cleaning
  <2>2. /\ browserCall[c].at = from
        /\ browserCall'[c].at = to /\ browserCall'[c].of = browserCall[c].of /\ browserCall'[c].seen = browserCall[c].seen
        /\ browserCall'[c].spared = browserCall[c].spared
    BY <1>3, <2>1, CallGone
  <2>3. CallKnowsDead(c)
    BY BrowserFacts
  <2>4. CallKnowsDead(c)'
    BY <1>1, <1>3, <2>2, <2>3 DEF CallKnowsDead, Dead, Starting, Unnamed, Cleaning, Stopping
  <2>5. to \in Unnamed => from \in Unnamed /\ browserFile' = browserFile
    BY <1>3 DEF Unnamed
  <2> QED
    BY <1>1, <1>2, <1>3, <2>1, <2>4, <2>5, CallGoesOn
<1>4. ASSUME NEW from, NEW said \in {"ready", "raised"}, CallSays(c, from, said), browserFile' = browserFile
      PROVE  BrowserInv'
  BY <1>1, <1>2, <1>4, CallEndsSo
<1>5. CASE ClearReady(c) \/ WaitPort(c) \/ WaitKeeper(c) \/ CleanState(c)
  <2>1. CASE ClearReady(c)
    BY <1>3, <1>4, <2>1 DEF ClearReady
  <2>2. CASE WaitPort(c)
    BY <1>3, <2>2 DEF WaitPort, browserFiles
  <2>3. CASE WaitKeeper(c)
    BY <1>3, <2>3 DEF WaitKeeper
  <2>4. CASE CleanState(c)
    BY <1>3, <2>4 DEF CleanState
  <2> QED
    BY <1>5, <2>1, <2>2, <2>3, <2>4
<1>6. CASE VerifyReady(c) \/ CleanReady(c)
  BY <1>4, <1>6 DEF VerifyReady, CleanReady, browserFiles
<1> QED
  BY <1>5, <1>6

LEMMA StartSpawns ==
  ASSUME BrowserInv, NEW c \in Starters, SpawnMcp(c) \/ SpawnKeeper(c)
  PROVE  BrowserInv'
<1>1. CASE CallSays(c, "spawning", "raised") /\ UNCHANGED <<browserFile, readyFile, browserStarts, mcpLife, keeperLife>>
  BY <1>1, CallEndsSo, LivesUnchanged
<1>2. CASE CallGoes(c, "spawning keeper", "cleaning mcp") /\ UNCHANGED <<browserFile, readyFile, browserStarts, mcpLife, keeperLife>>
  <2>1. "cleaning mcp" \in CallSteps /\ "cleaning mcp" \notin Unnamed
    BY DEF CallSteps, Cleaning, Unnamed
  <2>2. /\ browserCall[c].at = "spawning keeper"
        /\ browserCall'[c].at = "cleaning mcp" /\ browserCall'[c].of = browserCall[c].of
        /\ browserCall'[c].seen = browserCall[c].seen
    BY <1>2, <2>1, CallGone
  <2>3. CallKnowsDead(c)'
    BY <1>2, <2>2, BrowserFacts DEF CallKnowsDead, Dead, Starting, Unnamed, Cleaning, Stopping
  <2> QED
    BY <1>2, <2>1, <2>3, CallGoesOn, LivesUnchanged
<1> QED
  BY <1>1, <1>2, McpSpawns, KeeperSpawns DEF SpawnMcp, SpawnKeeper, browserFiles

LEMMA StateWritten ==
  ASSUME BrowserInv, NEW c \in Starters, WriteState(c)
  PROVE  BrowserInv'
<1>1. UNCHANGED <<readyFile, browserStarts, mcpLife, keeperLife>> /\ LivesShrink /\ browserCall[c].at = "naming"
  BY LivesUnchanged DEF WriteState, browserLives
<1>2. CASE CallGoes(c, "naming", "cleaning keeper") /\ UNCHANGED browserFile
  <2>1. "cleaning keeper" \in CallSteps /\ "cleaning keeper" \notin Unnamed
    BY DEF CallSteps, Cleaning, Unnamed
  <2>2. /\ browserCall'[c].at = "cleaning keeper" /\ browserCall'[c].of = browserCall[c].of
        /\ browserCall'[c].seen = browserCall[c].seen
    BY <1>2, <2>1, CallGone
  <2>3. CallKnowsDead(c)'
    BY <1>1, <2>2, BrowserFacts DEF CallKnowsDead, Dead, Starting, Unnamed, Cleaning, Stopping
  <2> QED
    BY <1>1, <1>2, <2>1, <2>3, CallGoesOn
<1>3. CASE /\ browserFile' = browserCall[c].of
           /\ browserCall' = [browserCall EXCEPT ![c].at = "waiting keeper", ![c].seen = browserFile']
  <2>1. PICK r : r = [browserCall[c] EXCEPT !.at = "waiting keeper", !.seen = browserCall[c].of]
    OBVIOUS
  <2>2. r \in BrowserCalls /\ r.at = "waiting keeper" /\ r.of = browserCall[c].of /\ r.seen = browserCall[c].of
    BY <2>1, BrowserFacts DEF BrowserCalls, CallSteps
  <2>3. browserCall' = [browserCall EXCEPT ![c] = r]
    BY <1>3, <2>1
  <2>4. /\ browserCall'[c] = r /\ browserCall' \in [Starters -> BrowserCalls]
        /\ \A d \in Starters \ {c} : browserCall'[d] = browserCall[d]
    BY <2>2, <2>3, BrowserCallRecord
  <2>5. CallKnowsDead(c)'
    BY <2>2, <2>4 DEF CallKnowsDead, Starting, Unnamed, Cleaning, Stopping
  <2>6. browserFile' \in 0..MaxBrowserStarts /\ readyFile' \in 0..MaxBrowserStarts
    BY <1>1, <1>3, BrowserFacts DEF BrowserCalls, BrowserTypes
  <2>7. BrowserTypes'
    BY <1>1, <2>4, <2>6, ShrinkTypes
  <2>8. browserCall'[c].at \notin Unnamed
    BY <2>2, <2>4 DEF Unnamed
  <2> QED
    BY <1>1, <1>3, <2>2, <2>4, <2>5, <2>7, <2>8, OneCallGoes DEF LivesShrink
<1> QED
  BY <1>2, <1>3 DEF WriteState

\* The cleanup of a start kills, or notes that it could not.
LEMMA CleansUp ==
  ASSUME BrowserInv, NEW c \in Starters, CleanKeeper(c) \/ CleanMcp(c)
  PROVE  BrowserInv'
<1> DEFINE n == browserCall[c].of
<1>1. /\ n \in 0..MaxBrowserStarts /\ UNCHANGED <<browserFile, readyFile, browserStarts>>
      /\ CallKnowsDead(c)
  BY BrowserFacts DEF CleanKeeper, CleanMcp, browserFiles, BrowserCalls
<1>2. ASSUME NEW from, NEW to \in {"cleaning mcp", "cleaning state"}, CallGoes(c, from, to), LivesShrink,
             \/ from = "cleaning keeper" /\ to = "cleaning mcp" /\ ~Lives(keeperLife', n)
             \/ from = "cleaning mcp" /\ to = "cleaning state" /\ ~Lives(mcpLife', n)
      PROVE  BrowserInv'
  <2>1. to \in CallSteps /\ to \notin Unnamed
    BY DEF CallSteps, Cleaning, Unnamed
  <2>2. /\ browserCall[c].at = from
        /\ browserCall'[c].at = to /\ browserCall'[c].of = n /\ browserCall'[c].seen = browserCall[c].seen
        /\ browserCall'[c].spared = browserCall[c].spared
    BY <1>2, <2>1, CallGone
  <2>3. browserCall[c].seen \in 0..MaxBrowserStarts
    BY BrowserFacts DEF BrowserCalls
  <2>4. NothingNew(n) /\ NothingNew(browserCall[c].seen)
    BY <1>1, <1>2, <2>3 DEF LivesShrink
  <2>5. CallKnowsDead(c)'
    <3>1. browserCall[c].seen # n => Dead(browserCall[c].seen)
      BY <1>1, <1>2, <2>2 DEF CallKnowsDead, Starting, Cleaning
    <3>2. to = "cleaning state" /\ ~browserCall[c].spared => ~Lives(keeperLife, n)
      BY <1>1, <1>2, <2>2 DEF CallKnowsDead
    <3>3. browserCall[c].seen # n => ~Lives(mcpLife', browserCall[c].seen) /\ ~Lives(keeperLife', browserCall[c].seen)
      BY <2>4, <3>1 DEF Dead, NothingNew
    <3>4. to = "cleaning state" /\ ~browserCall[c].spared => ~Lives(keeperLife', n) /\ ~Lives(mcpLife', n)
      BY <1>2, <2>4, <3>2 DEF NothingNew
    <3>5. to = "cleaning mcp" => ~Lives(keeperLife', n)
      BY <1>2
    <3> HIDE DEF n
    <3> QED
      BY <2>2, <3>3, <3>4, <3>5 DEF CallKnowsDead, Dead, Stopping
  <2> QED
    BY <1>1, <1>2, <2>1, <2>5, CallGoesOn
<1>3. ASSUME NEW to \in {"cleaning mcp", "cleaning state"}, UNCHANGED <<mcpLife, keeperLife>>,
             browserCall[c].at \in {"cleaning keeper", "cleaning mcp"},
             browserCall' = [browserCall EXCEPT ![c].at = to, ![c].spared = TRUE]
      PROVE  BrowserInv'
  <2>1. PICK r : r = [browserCall[c] EXCEPT !.at = to, !.spared = TRUE]
    OBVIOUS
  <2>2. r \in BrowserCalls /\ r.at = to /\ r.of = n /\ r.seen = browserCall[c].seen /\ r.spared
    BY <2>1, BrowserFacts DEF BrowserCalls, CallSteps, Cleaning
  <2>3. browserCall' = [browserCall EXCEPT ![c] = r]
    BY <1>3, <2>1
  <2>4. /\ browserCall'[c] = r /\ browserCall' \in [Starters -> BrowserCalls]
        /\ \A d \in Starters \ {c} : browserCall'[d] = browserCall[d]
    BY <2>2, <2>3, BrowserCallRecord
  <2>5. CallKnowsDead(c)'
    BY <1>1, <1>3, <2>2, <2>4 DEF CallKnowsDead, Dead, Starting, Cleaning, Stopping
  <2>6. LivesShrink
    BY <1>3, LivesUnchanged
  <2>7. BrowserTypes'
    BY <1>1, <2>4, <2>6, ShrinkTypes, BrowserFacts DEF BrowserTypes
  <2>8. browserCall'[c].at \notin Unnamed
    BY <2>2, <2>4 DEF Unnamed
  <2> QED
    BY <1>1, <2>2, <2>4, <2>5, <2>6, <2>7, <2>8, OneCallGoes DEF LivesShrink
<1>4. CASE CleanKeeper(c)
  <2>1. CASE CallGoes(c, "cleaning keeper", "cleaning mcp") /\ Killed(keeperLife, n)
    <3>1. LivesShrink /\ ~Lives(keeperLife', n)
      BY <1>1, <1>4, <2>1, KilledKeeper DEF CleanKeeper
    <3> QED
      BY <1>2, <2>1, <3>1
  <2>2. CASE ~(CallGoes(c, "cleaning keeper", "cleaning mcp") /\ Killed(keeperLife, n))
    BY <1>3, <1>4, <2>2 DEF CleanKeeper, Survives
  <2> QED
    BY <2>1, <2>2
<1>5. CASE CleanMcp(c)
  <2>1. CASE CallGoes(c, "cleaning mcp", "cleaning state") /\ Killed(mcpLife, n)
    <3>1. LivesShrink /\ ~Lives(mcpLife', n)
      BY <1>1, <1>5, <2>1, KilledMcp DEF CleanMcp
    <3> QED
      BY <1>2, <2>1, <3>1
  <2>2. CASE ~(CallGoes(c, "cleaning mcp", "cleaning state") /\ Killed(mcpLife, n))
    BY <1>3, <1>5, <2>2 DEF CleanMcp, Survives
  <2> QED
    BY <2>1, <2>2
<1> QED
  BY <1>4, <1>5

-----------------------------------------------------------------------------
(* stop_browser_runtime *)

LEMMA StopBegins ==
  ASSUME BrowserInv, NEW c \in Starters, BeginBrowserStop(c)
  PROVE  BrowserInv'
<1>1. UNCHANGED <<browserFile, readyFile, browserStarts, mcpLife, keeperLife>> /\ LivesShrink
  BY LivesUnchanged DEF BeginBrowserStop, browserFiles, browserLives
<1>2. PICK r : r = [at |-> "stopping keeper", again |-> browserCall[c].at = "restarting",
                    spared |-> FALSE, of |-> browserFile, seen |-> browserFile, said |-> "none"]
  OBVIOUS
<1>3. (browserCall[c].at = "restarting") \in BOOLEAN
  OBVIOUS
<1>4. r \in BrowserCalls /\ r.at = "stopping keeper" /\ r.of = browserFile /\ r.seen = browserFile
  <2>1. "stopping keeper" \in CallSteps
    BY DEF CallSteps, Stopping
  <2>2. browserFile \in 0..MaxBrowserStarts
    BY BrowserFacts DEF BrowserTypes
  <2> QED
    BY <1>2, <1>3, <2>1, <2>2 DEF BrowserCalls
<1>5. browserCall' = [browserCall EXCEPT ![c] = r]
  BY <1>2 DEF BeginBrowserStop
<1>6. /\ browserCall'[c] = r /\ browserCall' \in [Starters -> BrowserCalls]
      /\ \A d \in Starters \ {c} : browserCall'[d] = browserCall[d]
  BY <1>4, <1>5, BrowserCallRecord
<1>7. CallKnowsDead(c)'
  BY <1>4, <1>6 DEF CallKnowsDead, Starting, Unnamed, Cleaning
<1>8. BrowserTypes'
  BY <1>1, <1>6, ShrinkTypes, BrowserFacts DEF BrowserTypes
<1>9. browserCall'[c].at \notin Unnamed
  BY <1>4, <1>6 DEF Unnamed
<1> QED
  BY <1>1, <1>4, <1>6, <1>7, <1>8, <1>9, OneCallGoes DEF LivesShrink

LEMMA StopKills ==
  ASSUME BrowserInv, NEW c \in Starters, StopKeeper(c) \/ StopMcp(c)
  PROVE  BrowserInv'
<1> DEFINE n == browserCall[c].of
<1>1. /\ n \in 0..MaxBrowserStarts /\ UNCHANGED <<browserFile, readyFile, browserStarts>>
      /\ CallKnowsDead(c)
  BY BrowserFacts DEF StopKeeper, StopMcp, browserFiles, BrowserCalls
<1>2. ASSUME NEW from, CallSays(c, from, "raised"), LivesShrink
      PROVE  BrowserInv'
  BY <1>1, <1>2, CallEndsSo
<1>3. ASSUME NEW from, NEW to \in {"stopping mcp", "unmarking"}, CallGoes(c, from, to), LivesShrink,
             \/ from = "stopping keeper" /\ to = "stopping mcp" /\ ~Lives(keeperLife', n)
             \/ from = "stopping mcp" /\ to = "unmarking" /\ ~Lives(mcpLife', n)
      PROVE  BrowserInv'
  <2>1. to \in CallSteps /\ to \notin Unnamed
    BY DEF CallSteps, Stopping, Unnamed
  <2>2. /\ browserCall[c].at = from
        /\ browserCall'[c].at = to /\ browserCall'[c].of = n /\ browserCall'[c].seen = browserCall[c].seen
    BY <1>3, <2>1, CallGone
  <2>3. CallKnowsDead(c)'
    <3>1. browserCall[c].seen = n
      BY <1>1, <1>3, <2>2 DEF CallKnowsDead, Stopping
    <3>2. to = "unmarking" => ~Lives(keeperLife, n)
      BY <1>1, <1>3, <2>2 DEF CallKnowsDead
    <3>3. NothingNew(n)
      BY <1>1, <1>3 DEF LivesShrink
    <3>4. to = "unmarking" => ~Lives(keeperLife', n) /\ ~Lives(mcpLife', n)
      BY <1>3, <3>2, <3>3 DEF NothingNew
    <3>5. to = "stopping mcp" => ~Lives(keeperLife', n)
      BY <1>3
    <3> HIDE DEF n
    <3> QED
      BY <2>2, <3>1, <3>4, <3>5 DEF CallKnowsDead, Dead, Starting, Unnamed, Cleaning
  <2> QED
    BY <1>1, <1>3, <2>1, <2>3, CallGoesOn
<1>4. CASE StopKeeper(c)
  <2>1. CASE Killed(keeperLife, n)
    <3>1. LivesShrink /\ ~Lives(keeperLife', n)
      BY <1>1, <1>4, <2>1, KilledKeeper DEF StopKeeper
    <3>2. CallSays(c, "stopping keeper", "raised") \/ CallGoes(c, "stopping keeper", "stopping mcp")
      BY <1>4 DEF StopKeeper
    <3> QED
      BY <1>2, <1>3, <3>1, <3>2
  <2>2. CASE Survives(keeperLife, n) /\ CallSays(c, "stopping keeper", "raised")
    <3>1. LivesShrink
      BY <1>4, <2>2, LivesUnchanged DEF StopKeeper, Survives
    <3> QED
      BY <1>2, <2>2, <3>1
  <2> QED
    BY <1>4, <2>1, <2>2 DEF StopKeeper
<1>5. CASE StopMcp(c)
  <2>1. CASE Killed(mcpLife, n)
    <3>1. LivesShrink /\ ~Lives(mcpLife', n)
      BY <1>1, <1>5, <2>1, KilledMcp DEF StopMcp
    <3>2. CallSays(c, "stopping mcp", "raised") \/ CallGoes(c, "stopping mcp", "unmarking")
      BY <1>5 DEF StopMcp
    <3> QED
      BY <1>2, <1>3, <3>1, <3>2
  <2>2. CASE Survives(mcpLife, n) /\ CallSays(c, "stopping mcp", "raised")
    <3>1. LivesShrink
      BY <1>5, <2>2, LivesUnchanged DEF StopMcp, Survives
    <3> QED
      BY <1>2, <2>2, <3>1
  <2> QED
    BY <1>5, <2>1, <2>2 DEF StopMcp
<1> QED
  BY <1>4, <1>5

\* The files are removed, and the stop answers.
LEMMA StopGoesOn ==
  ASSUME BrowserInv, NEW c \in Starters, RemoveReady(c) \/ RemoveState(c) \/ EndStop(c) \/ CallerDies(c)
  PROVE  BrowserInv'
<1>1. UNCHANGED <<browserStarts, mcpLife, keeperLife>> /\ LivesShrink
  BY LivesUnchanged DEF RemoveReady, RemoveState, EndStop, CallerDies, browserLives
<1>2. browserFile' \in {0, browserFile} /\ readyFile' \in {0, readyFile}
  BY DEF RemoveReady, RemoveState, EndStop, CallerDies, browserFiles
<1>3. CASE RemoveReady(c)
  <2>1. "unnaming" \in CallSteps /\ "unnaming" \notin Unnamed /\ CallGoes(c, "unmarking", "unnaming")
    BY <1>3 DEF RemoveReady, CallSteps, Stopping, Unnamed
  <2>2. /\ browserCall[c].at = "unmarking"
        /\ browserCall'[c].at = "unnaming" /\ browserCall'[c].of = browserCall[c].of
        /\ browserCall'[c].seen = browserCall[c].seen
    BY <2>1, CallGone
  <2>3. CallKnowsDead(c)'
    BY <1>1, <2>2, BrowserFacts DEF CallKnowsDead, Dead, Starting, Unnamed, Cleaning, Stopping
  <2> QED
    BY <1>1, <1>2, <2>1, <2>3, CallGoesOn
<1>4. CASE RemoveState(c)
  <2>1. PICK r : r = [browserCall[c] EXCEPT !.at = "checking", !.seen = 0]
    OBVIOUS
  <2>2. r \in BrowserCalls /\ r.at = "checking" /\ r.of = browserCall[c].of /\ r.seen = 0
    BY <2>1, BrowserFacts, BrowserNumbers DEF BrowserCalls, CallSteps, Stopping
  <2>3. browserCall' = [browserCall EXCEPT ![c] = r] /\ browserCall[c].at = "unnaming"
    BY <1>4, <2>1 DEF RemoveState
  <2>4. /\ browserCall'[c] = r /\ browserCall' \in [Starters -> BrowserCalls]
        /\ \A d \in Starters \ {c} : browserCall'[d] = browserCall[d]
    BY <2>2, <2>3, BrowserCallRecord
  <2>5. CallKnowsDead(c)'
    BY <1>1, <2>2, <2>3, <2>4, BrowserFacts DEF CallKnowsDead, Dead, Starting, Unnamed, Cleaning, Stopping
  <2>6. browserFile' \in 0..MaxBrowserStarts /\ readyFile' \in 0..MaxBrowserStarts
    BY <1>2, BrowserFacts, BrowserNumbers DEF BrowserTypes
  <2>7. BrowserTypes'
    BY <1>1, <2>4, <2>6, ShrinkTypes
  <2>8. browserCall'[c].at \notin Unnamed
    BY <2>2, <2>4 DEF Unnamed
  <2> QED
    BY <1>1, <1>2, <2>2, <2>4, <2>5, <2>7, <2>8, OneCallGoes DEF LivesShrink
<1>5. ASSUME NEW from, NEW said \in {"none", "ready", "raised", "stopped"}, CallSays(c, from, said),
             browserFile' = browserFile
      PROVE  BrowserInv'
  BY <1>1, <1>2, <1>5, CallEndsSo
<1>6. CASE EndStop(c) \/ CallerDies(c)
  <2>1. browserFile' = browserFile
    BY <1>6 DEF EndStop, CallerDies, browserFiles
  <2>2. CASE CallGoes(c, "checking", "clearing")
    <3>1. "clearing" \in CallSteps /\ "clearing" \notin Unnamed
      BY DEF CallSteps, Unnamed
    <3>2. /\ browserCall[c].at = "checking"
          /\ browserCall'[c].at = "clearing" /\ browserCall'[c].of = browserCall[c].of
          /\ browserCall'[c].seen = browserCall[c].seen
      BY <2>2, <3>1, CallGone
    <3>3. browserCall[c].seen = 0
      BY <3>2, BrowserFacts DEF CallKnowsDead
    <3>4. CallKnowsDead(c)'
      BY <3>2, <3>3 DEF CallKnowsDead, Dead, Lives, Starting, Unnamed, Cleaning, Stopping
    <3> QED
      BY <1>1, <1>2, <2>2, <3>1, <3>4, CallGoesOn
  <2> QED
    BY <1>5, <1>6, <2>1, <2>2 DEF EndStop, CallerDies
<1> QED
  BY <1>3, <1>4, <1>6

-----------------------------------------------------------------------------
(* The processes that were spawned *)

\* One process of start n takes its next step; none comes to life.
LEMMA ProcessesMove ==
  ASSUME BrowserInv, NEW n \in BrowserStarts, UNCHANGED <<browserFile, browserStarts, browserCall>>,
         readyFile' \in {0, n, readyFile},
         \/ /\ Lives(mcpLife, n) /\ UNCHANGED keeperLife
            /\ \/ mcpLife' = [mcpLife EXCEPT ![n] = "gone"]
               \/ mcpLife' = [mcpLife EXCEPT ![n] = "serving"] /\ ~Listening
         \/ /\ Lives(keeperLife, n) /\ UNCHANGED mcpLife
            /\ \E to \in {"connecting", "ready", "gone"} : keeperLife' = [keeperLife EXCEPT ![n] = to]
  PROVE  BrowserInv' /\ \A m \in 0..MaxBrowserStarts : NothingNew(m)
<1> USE BrowserFacts
<1>1. /\ mcpLife' \in [BrowserStarts -> McpLives] /\ keeperLife' \in [BrowserStarts -> KeeperLives]
      /\ \A m \in BrowserStarts \ {n} : mcpLife'[m] = mcpLife[m] /\ keeperLife'[m] = keeperLife[m]
      /\ Lives(mcpLife, n) \/ mcpLife'[n] = mcpLife[n]
      /\ Lives(keeperLife, n) \/ keeperLife'[n] = keeperLife[n]
  BY DEF BrowserTypes, McpLives, KeeperLives
<1>2. \A m \in 0..MaxBrowserStarts : NothingNew(m)
  BY <1>1, StartNumbers DEF NothingNew, Lives
<1>3. BrowserTypes'
  BY <1>1, BrowserNumbers DEF BrowserTypes
<1>4. OneServes'
  <2>1. mcpLife'[n] = "serving" => ~Listening \/ mcpLife[n] = "serving"
    BY DEF BrowserTypes
  <2> QED
    BY <1>1, <2>1 DEF OneServes, Listening
<1>5. StartsNumbered'
  <2>1. Lives(keeperLife, n) => ~(n > browserStarts)
    BY DEF StartsNumbered, Lives
  <2> QED
    BY <1>1, <2>1 DEF StartsNumbered
<1>6. \A d \in Starters : KnownToOne(d)'
  BY DEF KnownToOne
<1>7. \A d \in Starters : CallKnowsDead(d)'
  <2>1. \A d \in Starters : browserCall[d].of \in 0..MaxBrowserStarts /\ browserCall[d].seen \in 0..MaxBrowserStarts
    BY DEF BrowserCalls
  <2> QED
    BY <1>2, <2>1, DeadStays
<1> QED
  BY <1>2, <1>3, <1>4, <1>5, <1>6, <1>7 DEF BrowserInv

LEMMA ProcessesGoOn ==
  ASSUME BrowserInv, NEW n \in BrowserStarts,
         McpListens(n) \/ McpEnds(n) \/ KeeperBegins(n) \/ KeeperConnects(n) \/ KeeperEnds(n)
  PROVE  BrowserInv' /\ UNCHANGED <<browserFile, browserCall>> /\ \A m \in 0..MaxBrowserStarts : NothingNew(m)
<1>1. UNCHANGED <<browserFile, browserStarts, browserCall>> /\ readyFile' \in {0, n, readyFile} /\ n # 0
  BY BrowserNumbers DEF McpListens, McpEnds, KeeperBegins, KeeperConnects, KeeperEnds, browserFiles
<1>2. CASE McpListens(n) \/ McpEnds(n)
  <2>1. Lives(mcpLife, n) /\ UNCHANGED keeperLife
    BY <1>1, <1>2 DEF McpListens, McpEnds, Lives
  <2>2. \/ mcpLife' = [mcpLife EXCEPT ![n] = "gone"]
        \/ mcpLife' = [mcpLife EXCEPT ![n] = "serving"] /\ ~Listening
    BY <1>2 DEF McpListens, McpEnds
  <2> QED
    BY <1>1, <2>1, <2>2, ProcessesMove
<1>3. CASE KeeperBegins(n) \/ KeeperConnects(n) \/ KeeperEnds(n)
  <2>1. Lives(keeperLife, n) /\ UNCHANGED mcpLife
    BY <1>1, <1>3 DEF KeeperBegins, KeeperConnects, KeeperEnds, Lives
  <2>2. \E to \in {"connecting", "ready", "gone"} : keeperLife' = [keeperLife EXCEPT ![n] = to]
    BY <1>3 DEF KeeperBegins, KeeperConnects, KeeperEnds
  <2> QED
    BY <1>1, <2>1, <2>2, ProcessesMove
<1> QED
  BY <1>2, <1>3

LEMMA BrowserInvKept == BrowserInv /\ [BrowserNext]_browserVars => BrowserInv'
<1> SUFFICES ASSUME BrowserInv, [BrowserNext]_browserVars PROVE BrowserInv'
  OBVIOUS
<1>1. ASSUME NEW c \in Starters,
             \/ BeginBrowser(c) \/ ClearReady(c) \/ SpawnMcp(c) \/ WaitPort(c) \/ SpawnKeeper(c)
             \/ WriteState(c) \/ WaitKeeper(c) \/ VerifyReady(c)
             \/ CleanKeeper(c) \/ CleanMcp(c) \/ CleanState(c) \/ CleanReady(c)
      PROVE  BrowserInv'
  BY <1>1, BrowserBegins, StartGoesOn, StartSpawns, StateWritten, CleansUp
<1>2. ASSUME NEW c \in Starters,
             \/ BeginBrowserStop(c) \/ StopKeeper(c) \/ StopMcp(c) \/ RemoveReady(c) \/ RemoveState(c)
             \/ EndStop(c) \/ CallerDies(c)
      PROVE  BrowserInv'
  BY <1>2, StopBegins, StopKills, StopGoesOn
<1>3. ASSUME NEW n \in BrowserStarts,
             McpListens(n) \/ McpEnds(n) \/ KeeperBegins(n) \/ KeeperConnects(n) \/ KeeperEnds(n)
      PROVE  BrowserInv'
  BY <1>3, ProcessesGoOn
<1>4. CASE UNCHANGED browserVars
  <2>1. BrowserTypes' /\ OneServes' /\ StartsNumbered'
    BY <1>4 DEF browserVars, BrowserInv, BrowserTypes, OneServes, StartsNumbered
  <2>2. \A c \in Starters : KnownToOne(c)'
    BY <1>4 DEF browserVars, BrowserInv, KnownToOne
  <2>3. \A c \in Starters : CallKnowsDead(c)'
    BY <1>4 DEF browserVars, BrowserInv, CallKnowsDead, Dead, Lives
  <2> QED
    BY <2>1, <2>2, <2>3 DEF BrowserInv
<1> QED
  BY <1>1, <1>2, <1>3, <1>4 DEF BrowserNext

-----------------------------------------------------------------------------
(* What is lost, and what a stop that answers has ended *)

LEMMA BrowserTypesOK == BrowserInv => BrowserTypeOK
<1> SUFFICES ASSUME BrowserInv PROVE BrowserTypeOK
  OBVIOUS
<1> DEFINE Serving == {n \in BrowserStarts : mcpLife[n] = "serving"}
<1>1. IsFiniteSet(Serving) /\ Cardinality(Serving) <= 1
  <2>1. CASE Serving = {}
    <3>1. IsFiniteSet({}) /\ Cardinality({}) = 0
      BY FS_EmptySet
    <3> QED
      BY <2>1, <3>1
  <2>2. CASE Serving # {}
    <3>1. PICK m \in Serving : TRUE
      BY <2>2
    <3>2. Serving = {m}
      BY <3>1, BrowserFacts DEF OneServes
    <3>3. IsFiniteSet({m}) /\ Cardinality({m}) = 1
      BY FS_Singleton
    <3> QED
      BY <3>2, <3>3
  <2> QED
    BY <2>1, <2>2
<1>2. Cardinality({n \in BrowserStarts : mcpLife[n] = "serving"}) <= 1
  BY <1>1
<1> HIDE DEF Serving
<1> QED
  BY <1>2, BrowserFacts DEF BrowserTypes, BrowserTypeOK, BrowserCalls, CallSteps, McpLives, KeeperLives

Held(n, rec) == rec.of = n /\ rec.at \in Unnamed \cup Cleaning

\* The three ways to lose a process, as the property names them.
Excused(n) ==
    \/ \E c \in Starters : /\ browserCall[c].of = n /\ browserCall[c].at # "idle"
                           /\ browserCall[c].spared \/ browserCall'[c] = NoCall
    \/ \E c \in Starters : browserCall'[c] # browserCall[c]
                          /\ browserFile = n /\ browserCall[c].seen # n

\* A process is lost by the call that moved: it changed the file, or let go.
LEMMA LostBy ==
  ASSUME NEW c \in Starters, NEW n \in BrowserStarts, NothingNew(n),
         \A d \in Starters \ {c} : browserCall'[d] = browserCall[d], Astray(n)', ~Astray(n)
  PROVE  /\ Lives(mcpLife, n) \/ Lives(keeperLife, n)
         /\ browserFile' # n /\ ~Held(n, browserCall'[c])
         /\ browserFile = n \/ Held(n, browserCall[c])
BY DEF Astray, NothingNew, Held, Lives

LEMMA NotLostByStep ==
  ASSUME BrowserInv, NEW c \in Starters, NEW n \in BrowserStarts, Astray(n)', ~Astray(n),
         LivesShrink, browserFile' = browserFile,
         NEW from, NEW to \in CallSteps, CallGoes(c, from, to),
         from \in Unnamed \cup Cleaning => to \in Unnamed \cup Cleaning
  PROVE  FALSE
<1>1. NothingNew(n)
  BY BrowserNumbers DEF LivesShrink
<1>2. /\ browserCall[c].at = from /\ browserCall'[c].at = to /\ browserCall'[c].of = browserCall[c].of
      /\ \A d \in Starters \ {c} : browserCall'[d] = browserCall[d]
  BY CallGone
<1> QED
  BY <1>1, <1>2, LostBy DEF Held

LEMMA NotLostBySaying ==
  ASSUME BrowserInv, NEW c \in Starters, NEW n \in BrowserStarts, Astray(n)', ~Astray(n),
         LivesShrink, browserFile' = browserFile,
         NEW from, NEW said \in {"none", "ready", "raised", "stopped"}, CallSays(c, from, said)
  PROVE  /\ browserCall[c].at = from /\ Held(n, browserCall[c])
         /\ Lives(mcpLife, n) \/ Lives(keeperLife, n)
<1>1. NothingNew(n)
  BY BrowserNumbers DEF LivesShrink
<1>2. /\ browserCall[c].at = from /\ \A d \in Starters \ {c} : browserCall'[d] = browserCall[d]
  BY CallSaid
<1> QED
  BY <1>1, <1>2, LostBy

\* A start that begins, waits or spawns loses nothing.
LEMMA StartLosesNothing ==
  ASSUME BrowserInv, NEW c \in Starters, NEW n \in BrowserStarts, Astray(n)', ~Astray(n),
         \/ BeginBrowser(c) \/ ClearReady(c) \/ SpawnMcp(c) \/ WaitPort(c) \/ SpawnKeeper(c)
         \/ WaitKeeper(c) \/ VerifyReady(c)
  PROVE  FALSE
<1>1. browserFile' = browserFile
  BY DEF BeginBrowser, ClearReady, SpawnMcp, WaitPort, SpawnKeeper, WaitKeeper, VerifyReady, browserFiles
<1>2. {"spawning", "spawning keeper", "cleaning mcp", "verifying", "cleaning keeper"} \subseteq CallSteps
  BY DEF CallSteps, Unnamed, Cleaning
<1>3. n \in 0..MaxBrowserStarts /\ n # 0
  BY BrowserNumbers
<1>4. ASSUME UNCHANGED <<mcpLife, keeperLife>>,
             NEW from \in {"idle", "clearing", "spawning", "verifying"}, NEW said \in {"ready", "raised"},
             CallSays(c, from, said)
      PROVE  FALSE
  BY <1>1, <1>4, NotLostBySaying, LivesUnchanged DEF Held, Unnamed, Cleaning
<1>5. ASSUME UNCHANGED <<mcpLife, keeperLife>>, NEW from, NEW to, CallGoes(c, from, to),
             \/ from = "clearing" /\ to = "spawning"
             \/ from \in {"waiting port", "spawning keeper"} /\ to \in {"spawning keeper", "cleaning mcp"}
             \/ from = "waiting keeper" /\ to \in {"verifying", "cleaning keeper"}
      PROVE  FALSE
  <2>1. to \in CallSteps /\ (from \in Unnamed \cup Cleaning => to \in Unnamed \cup Cleaning)
    BY <1>2, <1>5 DEF Unnamed, Cleaning
  <2> QED
    BY <1>1, <1>5, <2>1, NotLostByStep, LivesUnchanged
<1>6. CASE BeginBrowser(c)
  <2>1. UNCHANGED <<mcpLife, keeperLife>> /\ browserCall[c].at = "idle"
    BY <1>6 DEF BeginBrowser, browserLives
  <2>2. NothingNew(n)
    BY <2>1 DEF NothingNew
  <2>3. \A d \in Starters \ {c} : browserCall'[d] = browserCall[d]
    BY <1>6, BrowserFacts DEF BeginBrowser, LooksFirst, CallSays, BrowserTypes
  <2> QED
    BY <1>1, <2>1, <2>2, <2>3, LostBy DEF Held, Unnamed, Cleaning
<1>7. CASE ClearReady(c) \/ WaitPort(c) \/ WaitKeeper(c) \/ VerifyReady(c)
  <2>1. UNCHANGED <<mcpLife, keeperLife>>
    BY <1>7 DEF ClearReady, WaitPort, WaitKeeper, VerifyReady, browserLives
  <2>2. CASE ClearReady(c) \/ VerifyReady(c)
    BY <1>4, <1>5, <2>1, <2>2 DEF ClearReady, VerifyReady
  <2>3. CASE WaitPort(c) \/ WaitKeeper(c)
    BY <1>5, <2>1, <2>3 DEF WaitPort, WaitKeeper
  <2> QED
    BY <1>7, <2>2, <2>3
<1>8. CASE SpawnMcp(c)
  <2>1. CASE CallSays(c, "spawning", "raised") /\ UNCHANGED <<mcpLife, keeperLife>>
    BY <1>4, <2>1
  <2>2. CASE browserCall[c].at = "spawning" /\ browserStarts < MaxBrowserStarts
             /\ browserStarts' = browserStarts + 1 /\ mcpLife' = [mcpLife EXCEPT ![browserStarts'] = "starting"]
             /\ browserCall' = [browserCall EXCEPT ![c].at = "waiting port", ![c].of = browserStarts']
             /\ UNCHANGED <<browserFile, readyFile, keeperLife>>
    <3>1. browserCall'[c].at = "waiting port" /\ browserCall'[c].of = browserStarts'
      BY <2>2, McpSpawns
    <3>2. n # browserStarts'
      BY <3>1 DEF Astray, Unnamed
    <3>3. NothingNew(n)
      BY <2>2, <3>2, BrowserFacts DEF NothingNew, Lives, BrowserTypes
    <3>4. \A d \in Starters \ {c} : browserCall'[d] = browserCall[d]
      BY <2>2, BrowserFacts DEF BrowserTypes
    <3> QED
      BY <1>1, <2>2, <3>3, <3>4, LostBy DEF Held, Unnamed, Cleaning
  <2> QED
    BY <1>8, <2>1, <2>2 DEF SpawnMcp, browserFiles
<1>9. CASE SpawnKeeper(c)
  <2>1. CASE CallGoes(c, "spawning keeper", "cleaning mcp") /\ UNCHANGED <<mcpLife, keeperLife>>
    BY <1>5, <2>1
  <2>2. CASE CallGoes(c, "spawning keeper", "naming") /\ UNCHANGED mcpLife
             /\ keeperLife' = [keeperLife EXCEPT ![browserCall[c].of] = "starting"]
    <3>1. /\ browserCall[c].at = "spawning keeper" /\ browserCall'[c].at = "naming"
          /\ browserCall'[c].of = browserCall[c].of
          /\ \A d \in Starters \ {c} : browserCall'[d] = browserCall[d]
      BY <2>2, CallGone DEF CallSteps, Unnamed
    <3>2. n # browserCall[c].of
      BY <3>1 DEF Astray, Unnamed
    <3>3. NothingNew(n)
      BY <2>2, <3>2, BrowserFacts DEF NothingNew, Lives, BrowserTypes
    <3> QED
      BY <1>1, <3>1, <3>2, <3>3, LostBy DEF Held
  <2> QED
    BY <1>9, <2>1, <2>2 DEF SpawnKeeper
<1> QED
  BY <1>6, <1>7, <1>8, <1>9

\* The cleanup of a start.
LEMMA CleanupLoses ==
  ASSUME BrowserInv, NEW c \in Starters, NEW n \in BrowserStarts, Astray(n)', ~Astray(n),
         CleanKeeper(c) \/ CleanMcp(c) \/ CleanReady(c)
  PROVE  Excused(n)
<1>1. browserFile' = browserFile
  BY DEF CleanKeeper, CleanMcp, CleanReady, browserFiles
<1>2. browserCall[c].of \in 0..MaxBrowserStarts
  BY BrowserFacts DEF BrowserCalls
<1>3. CASE CleanReady(c)
  <2>1. LivesShrink /\ CallSays(c, "cleaning ready", "raised")
    BY <1>3, LivesUnchanged DEF CleanReady, browserLives
  <2>2. browserCall[c].at = "cleaning ready" /\ browserCall[c].of = n /\ ~Dead(n)
    BY <1>1, <2>1, NotLostBySaying DEF Held, Dead
  <2>3. browserCall[c].spared
    BY <2>2, BrowserFacts DEF CallKnowsDead
  <2> QED
    BY <2>2, <2>3 DEF Excused
<1>4. CASE CleanKeeper(c) \/ CleanMcp(c)
  <2>1. NothingNew(n)
    <3>1. CASE CleanKeeper(c)
      <4>1. LivesShrink
        BY <1>2, <3>1, KilledKeeper, LivesUnchanged DEF CleanKeeper, Survives
      <4> QED
        BY <4>1, BrowserNumbers DEF LivesShrink
    <3>2. CASE CleanMcp(c)
      <4>1. LivesShrink
        BY <1>2, <3>2, KilledMcp, LivesUnchanged DEF CleanMcp, Survives
      <4> QED
        BY <4>1, BrowserNumbers DEF LivesShrink
    <3> QED
      BY <1>4, <3>1, <3>2
  <2>2. /\ \A d \in Starters \ {c} : browserCall'[d] = browserCall[d]
        /\ browserCall'[c].of = browserCall[c].of /\ browserCall'[c].at \in Cleaning
    <3>1. browserCall \in [Starters -> BrowserCalls] /\ browserCall[c] \in BrowserCalls
      BY BrowserFacts DEF BrowserTypes
    <3>2. PICK to \in {"cleaning mcp", "cleaning state"} :
            \/ browserCall' = [browserCall EXCEPT ![c].at = to]
            \/ browserCall' = [browserCall EXCEPT ![c].at = to, ![c].spared = TRUE]
      BY <1>4 DEF CleanKeeper, CleanMcp, CallGoes
    <3>3. CASE browserCall' = [browserCall EXCEPT ![c].at = to]
      BY <3>1, <3>3 DEF BrowserCalls, Cleaning
    <3>4. CASE browserCall' = [browserCall EXCEPT ![c].at = to, ![c].spared = TRUE]
      BY <3>1, <3>4 DEF BrowserCalls, Cleaning
    <3> QED
      BY <3>2, <3>3, <3>4
  <2> QED
    BY <1>1, <2>1, <2>2, LostBy DEF Held
<1> QED
  BY <1>3, <1>4

\* The file is written or removed.
LEMMA FileLoses ==
  ASSUME BrowserInv, NEW c \in Starters, NEW n \in BrowserStarts, Astray(n)', ~Astray(n),
         WriteState(c) \/ CleanState(c) \/ RemoveState(c)
  PROVE  Excused(n)
<1>1. UNCHANGED <<mcpLife, keeperLife>> /\ NothingNew(n)
  BY DEF WriteState, CleanState, RemoveState, browserLives, NothingNew
<1>2. /\ \A d \in Starters \ {c} : browserCall'[d] = browserCall[d]
      /\ browserCall'[c].of = browserCall[c].of /\ browserCall'[c] # browserCall[c]
  <2>1. CASE WriteState(c)
    <3>1. browserCall[c].at = "naming"
      BY <2>1 DEF WriteState
    <3>2. CASE CallGoes(c, "naming", "cleaning keeper")
      <4>1. /\ browserCall'[c].at = "cleaning keeper" /\ browserCall'[c].of = browserCall[c].of
            /\ \A d \in Starters \ {c} : browserCall'[d] = browserCall[d]
        BY <3>2, CallGone DEF CallSteps, Cleaning
      <4> QED
        BY <3>1, <4>1
    <3>3. CASE browserCall' = [browserCall EXCEPT ![c].at = "waiting keeper", ![c].seen = browserFile']
      <4>1. /\ browserCall'[c] = [browserCall[c] EXCEPT !.at = "waiting keeper", !.seen = browserFile']
            /\ \A d \in Starters \ {c} : browserCall'[d] = browserCall[d]
        BY <3>3, BrowserFacts DEF BrowserTypes
      <4>2. browserCall'[c].at = "waiting keeper" /\ browserCall'[c].of = browserCall[c].of
        BY <4>1, BrowserFacts DEF BrowserCalls
      <4> QED
        BY <3>1, <4>1, <4>2
    <3> QED
      BY <2>1, <3>2, <3>3 DEF WriteState
  <2>2. CASE CleanState(c)
    <3>1. CallGoes(c, "cleaning state", "cleaning ready") /\ "cleaning ready" \in CallSteps
      BY <2>2 DEF CleanState, CallSteps, Cleaning
    <3>2. /\ browserCall[c].at = "cleaning state" /\ browserCall'[c].at = "cleaning ready"
          /\ browserCall'[c].of = browserCall[c].of
          /\ \A d \in Starters \ {c} : browserCall'[d] = browserCall[d]
      BY <3>1, CallGone
    <3> QED
      BY <3>2
  <2>3. CASE RemoveState(c)
    <3>1. browserCall[c].at = "unnaming" /\ browserCall'[c].at = "checking"
      BY <2>3, BrowserFacts DEF RemoveState, BrowserTypes, BrowserCalls
    <3> QED
      BY <2>3, <3>1, BrowserFacts DEF RemoveState, BrowserTypes, BrowserCalls
  <2> QED
    BY <2>1, <2>2, <2>3
<1>3. /\ ~Dead(n) /\ browserFile' # n /\ ~Held(n, browserCall'[c])
      /\ browserFile = n \/ Held(n, browserCall[c])
  BY <1>1, <1>2, LostBy DEF Dead
<1>4. browserFile = n
  <2>1. CASE WriteState(c)
    <3>1. browserFile' = browserCall[c].of \/ (CallGoes(c, "naming", "cleaning keeper") /\ browserFile' = browserFile)
      BY <2>1 DEF WriteState
    <3>2. CASE browserFile' = browserCall[c].of
      BY <1>3, <3>2 DEF Held
    <3>3. CASE CallGoes(c, "naming", "cleaning keeper")
      <4>1. browserCall'[c].at = "cleaning keeper"
        BY <3>3, CallGone DEF CallSteps, Cleaning
      <4> QED
        BY <1>2, <1>3, <4>1 DEF Held, Cleaning
    <3> QED
      BY <3>1, <3>2, <3>3
  <2>2. CASE CleanState(c)
    <3>1. browserCall'[c].at = "cleaning ready"
      BY <2>2, CallGone DEF CleanState, CallSteps, Cleaning
    <3> QED
      BY <1>2, <1>3, <3>1 DEF Held, Cleaning
  <2>3. CASE RemoveState(c)
    BY <1>3, <2>3 DEF RemoveState, Held, Unnamed, Cleaning
  <2> QED
    BY <2>1, <2>2, <2>3
<1>5. CASE browserCall[c].seen # n
  BY <1>2, <1>4, <1>5 DEF Excused
<1>6. CASE browserCall[c].seen = n
  <2>1. CallKnowsDead(c) /\ KnownToOne(c)
    BY BrowserFacts
  <2>2. CASE WriteState(c)
    <3>1. browserCall[c].at = "naming" /\ browserCall[c].of # n
      BY <1>4, <2>1, <2>2 DEF WriteState, KnownToOne, Unnamed
    <3> QED
      BY <1>3, <1>6, <2>1, <3>1 DEF CallKnowsDead, Starting, Unnamed
  <2>3. CASE CleanState(c)
    <3>1. browserCall[c].at = "cleaning state"
      BY <2>3 DEF CleanState, CallGoes
    <3>2. browserCall[c].of = n
      BY <1>3, <1>6, <2>1, <3>1 DEF CallKnowsDead, Starting, Cleaning
    <3>3. browserCall[c].spared
      BY <1>3, <2>1, <3>1, <3>2 DEF CallKnowsDead
    <3> QED
      BY <3>1, <3>2, <3>3 DEF Excused
  <2>4. CASE RemoveState(c)
    <3>1. browserCall[c].at = "unnaming"
      BY <2>4 DEF RemoveState
    <3> QED
      BY <1>3, <1>6, <2>1, <3>1 DEF CallKnowsDead, Stopping
  <2> QED
    BY <2>2, <2>3, <2>4
<1> QED
  BY <1>5, <1>6

LEMMA StopLoses ==
  ASSUME BrowserInv, NEW c \in Starters, NEW n \in BrowserStarts, Astray(n)', ~Astray(n),
         BeginBrowserStop(c) \/ StopKeeper(c) \/ StopMcp(c) \/ RemoveReady(c) \/ EndStop(c) \/ CallerDies(c)
  PROVE  Excused(n)
<1>1. browserFile' = browserFile
  BY DEF BeginBrowserStop, StopKeeper, StopMcp, RemoveReady, EndStop, CallerDies, browserFiles
<1>2. browserCall[c].of \in 0..MaxBrowserStarts
  BY BrowserFacts DEF BrowserCalls
<1>3. LivesShrink
  <2>1. CASE StopKeeper(c)
    BY <1>2, <2>1, KilledKeeper, LivesUnchanged DEF StopKeeper, Survives
  <2>2. CASE StopMcp(c)
    BY <1>2, <2>2, KilledMcp, LivesUnchanged DEF StopMcp, Survives
  <2> QED
    BY <2>1, <2>2, LivesUnchanged DEF BeginBrowserStop, RemoveReady, EndStop, CallerDies, browserLives
<1>4. NothingNew(n)
  BY <1>3, BrowserNumbers DEF LivesShrink
<1>5. \A d \in Starters \ {c} : browserCall'[d] = browserCall[d]
  BY BrowserFacts
  DEF BeginBrowserStop, StopKeeper, StopMcp, RemoveReady, EndStop, CallerDies, CallGoes, CallSays, BrowserTypes
<1>6. Held(n, browserCall[c])
  BY <1>1, <1>4, <1>5, LostBy
<1>7. CallerDies(c)
  BY <1>6 DEF BeginBrowserStop, StopKeeper, StopMcp, RemoveReady, EndStop, CallGoes, CallSays, Held, Unnamed, Cleaning
<1>8. browserCall'[c] = NoCall
  BY <1>7, BrowserFacts DEF CallerDies, CallSays, BrowserTypes, NoCall
<1> QED
  BY <1>6, <1>7, <1>8 DEF Excused, Held, CallerDies

LEMMA LostOnlySo ==
  BrowserInv /\ [BrowserNext]_browserVars =>
      [\A n \in BrowserStarts : Astray(n)' /\ ~Astray(n) =>
             \/ \E c \in Starters : /\ browserCall[c].of = n /\ browserCall[c].at # "idle"
                                    /\ browserCall[c].spared \/ browserCall'[c] = NoCall
             \/ \E c \in Starters : browserCall'[c] # browserCall[c]
                                   /\ browserFile = n /\ browserCall[c].seen # n]_browserVars
<1> SUFFICES ASSUME BrowserInv, BrowserNext, NEW n \in BrowserStarts, Astray(n)', ~Astray(n)
             PROVE  Excused(n)
  BY DEF Excused
<1>1. ASSUME NEW c \in Starters,
             \/ BeginBrowser(c) \/ ClearReady(c) \/ SpawnMcp(c) \/ WaitPort(c) \/ SpawnKeeper(c)
             \/ WriteState(c) \/ WaitKeeper(c) \/ VerifyReady(c)
             \/ CleanKeeper(c) \/ CleanMcp(c) \/ CleanState(c) \/ CleanReady(c)
      PROVE  Excused(n)
  BY <1>1, StartLosesNothing, CleanupLoses, FileLoses
<1>2. ASSUME NEW c \in Starters,
             \/ BeginBrowserStop(c) \/ StopKeeper(c) \/ StopMcp(c) \/ RemoveReady(c) \/ RemoveState(c)
             \/ EndStop(c) \/ CallerDies(c)
      PROVE  Excused(n)
  BY <1>2, StopLoses, FileLoses
<1>3. ASSUME NEW m \in BrowserStarts,
             McpListens(m) \/ McpEnds(m) \/ KeeperBegins(m) \/ KeeperConnects(m) \/ KeeperEnds(m)
      PROVE  Excused(n)
  <2>1. UNCHANGED <<browserFile, browserCall>> /\ NothingNew(n)
    BY <1>3, ProcessesGoOn, BrowserNumbers
  <2> QED
    BY <2>1 DEF Astray, NothingNew, Lives
<1> QED
  BY <1>1, <1>2, <1>3 DEF BrowserNext

\* browser_runtime.py and the keeper: a spawned process is lost only when its
\* caller dies, taskkill fails or the file was changed since it was read; a stop
\* that answers has ended what it read; and one MCP at most has the port.
THEOREM BrowserOwned == BrowserSpec => BrowserIsOwned
<1>1. BrowserSpec => []BrowserInv
  BY BrowserInvInit, BrowserInvKept, PTL DEF BrowserSpec
<1>2. BrowserInv =>
        \A c \in Starters : browserCall[c].at = "checking" /\ browserCall'[c].said = "stopped" =>
             ~Lives(mcpLife, browserCall[c].of) /\ ~Lives(keeperLife, browserCall[c].of)
  BY BrowserFacts DEF CallKnowsDead, Dead
<1>3. BrowserInv =>
        [\A c \in Starters : browserCall[c].at = "checking" /\ browserCall'[c].said = "stopped" =>
             ~Lives(mcpLife, browserCall[c].of) /\ ~Lives(keeperLife, browserCall[c].of)]_browserVars
  BY <1>2
<1> QED
  BY <1>1, <1>3, BrowserTypesOK, LostOnlySo, PTL DEF BrowserSpec, BrowserIsOwned

===========================================================================
