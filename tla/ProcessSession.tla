--------------------------- MODULE ProcessSession ---------------------------
(***************************************************************************)
(* One persistent process session, src/runtime/session_runtime.py: the     *)
(* callers of the store, the thread that reads the child's output, the     *)
(* thread that waits for its exit, and a client that polls the events.     *)
(*                                                                         *)
(* Two locks are modelled as they are held: the interaction lock by the    *)
(* one caller between Interact and its last locked step, and the session   *)
(* lock (of session.condition) across steps only by a caller that writes,  *)
(* because stdin.write blocks under it.  Every other use of the session    *)
(* lock is a single step.  The child echoes its input, unit by unit,       *)
(* through pipes of bounded capacity.  ConPTY and resize are left out.     *)
(***************************************************************************)
EXTENDS Integers, FiniteSets, Sequences

CONSTANTS
    Callers,      \* threads that call the store
    MaxEvents,    \* MAX_EVENTS, the length of the event deque
    MaxRead,      \* MAX_READ_EVENTS
    Payload,      \* units of input in one write
    InPipe,       \* capacity of the child's stdin pipe
    OutPipe,      \* capacity of its stdout pipe
    MaxOps        \* bound on the interactions explored

ASSUME SessionAssumption ==
    /\ \A n \in {MaxEvents, MaxRead, Payload, InPipe, OutPipe} : n \in Nat \ {0}
    /\ MaxOps \in Nat

VARIABLES
    status,       \* running, exited or closed
    returncode,   \* "none", or "code" once an exit was seen
    exits,        \* process_exit events appended so far
    stdinClosed,
    opSeq,        \* operation_seq
    cursor,       \* number of the newest event
    events,       \* the retained events, oldest first
    dropped,      \* dropped_through_cursor
    seen,         \* the polling client's cursor
    call,         \* Callers -> the interaction it is in
    watch,        \* the watching thread: waiting, record, done
    job,          \* the kill-on-close job is open
    alive,        \* the child runs
    input,        \* units in the stdin pipe
    held,         \* units the child has read and not echoed
    output,       \* units in the stdout pipe
    pending       \* units the reader thread has read and not appended

logVars == <<cursor, events, dropped>>
stateVars == <<status, returncode, exits, stdinClosed>>
childVars == <<job, alive, input, held, output>>
vars == <<logVars, stateVars, childVars, opSeq, seen, call, watch, pending>>

Ops == {"write", "close_stdin", "terminate", "close"}
Idle == [op |-> "none", pc |-> "idle", seq |-> 0, left |-> 0, code |-> "none"]
LockedPcs == {"record", "body", "writing", "waiting", "exit"}

SessionTypeOK ==
    /\ status \in {"running", "exited", "closed"}
    /\ returncode \in {"none", "code"} /\ exits \in Nat
    /\ stdinClosed \in BOOLEAN /\ job \in BOOLEAN /\ alive \in BOOLEAN
    /\ opSeq \in 0..MaxOps /\ cursor \in Nat /\ dropped \in Nat /\ seen \in 0..cursor
    /\ Len(events) <= MaxEvents
    /\ \A i \in DOMAIN events : events[i].cursor = cursor - Len(events) + i
    /\ call \in [Callers -> [op : Ops \cup {"none"}, pc : LockedPcs \cup {"idle", "result"},
                             seq : 0..MaxOps, left : 0..Payload, code : {"none", "code"}]]
    /\ watch \in {"waiting", "record", "done"}
    /\ input \in 0..InPipe /\ output \in 0..OutPipe /\ held \in {0, 1} /\ pending \in {0, 1}
    /\ \A c, d \in Callers : call[c].pc \in LockedPcs /\ call[d].pc \in LockedPcs => c = d

\* _open_resolved, once its threads run.
Init ==
    /\ status = "running" /\ returncode = "none" /\ exits = 0 /\ stdinClosed = FALSE
    /\ opSeq = 0 /\ cursor = 0 /\ events = <<>> /\ dropped = 0 /\ seen = 0
    /\ call = [c \in Callers |-> Idle]
    /\ watch = "waiting"
    /\ job = TRUE /\ alive = TRUE
    /\ input = 0 /\ held = 0 /\ output = 0 /\ pending = 0

-----------------------------------------------------------------------------
(* The event log *)

SessionLockFree == \A c \in Callers : call[c].pc # "writing"

\* Mutant: the mark is taken from the deque after the append.
AppendThenMark(type, seq) ==
    LET kept == IF Len(events) = MaxEvents THEN Tail(events) ELSE events IN
    /\ cursor' = cursor + 1
    /\ events' = Append(kept, [cursor |-> cursor + 1, type |-> type, seq |-> seq])
    /\ dropped' = IF Len(events') = MaxEvents THEN events'[1].cursor ELSE dropped

\* _append_event: a full deque drops its oldest event.
AppendEvent(type, seq) ==
    LET full == Len(events) = MaxEvents IN
    /\ cursor' = cursor + 1
    /\ events' = Append(IF full THEN Tail(events) ELSE events,
                        [cursor |-> cursor + 1, type |-> type, seq |-> seq])
    /\ dropped' = IF full THEN events[1].cursor ELSE dropped

\* Mutant: both threads that see the exit report it.
RecordExitAgain(code) ==
    /\ returncode' = code
    /\ status' = IF status = "running" THEN "exited" ELSE status
    /\ AppendEvent("process_exit", 0) /\ exits' = exits + 1
    /\ UNCHANGED stdinClosed

\* _record_exit
RecordExit(code) ==
    /\ returncode' = code
    /\ status' = IF status = "running" THEN "exited" ELSE status
    /\ IF exits > 0 THEN UNCHANGED <<logVars, exits>>
       ELSE AppendEvent("process_exit", 0) /\ exits' = exits + 1
    /\ UNCHANGED stdinClosed

-----------------------------------------------------------------------------
(* write, close_stdin, terminate and close *)

Goto(c, pc) == call' = [call EXCEPT ![c].pc = pc]
Return(c) == call' = [call EXCEPT ![c] = Idle]

\* Mutant: the interaction lock is not taken.
InteractUnlocked(c, op) ==
    /\ call[c] = Idle
    /\ opSeq < MaxOps /\ SessionLockFree
    /\ opSeq' = opSeq + 1
    /\ call' = [call EXCEPT ![c] = [op |-> op, pc |-> "record", seq |-> opSeq + 1,
                                    left |-> 0, code |-> "none"]]
    /\ UNCHANGED <<logVars, stateVars, childVars, seen, watch, pending>>

\* The interaction lock, then operation_seq under the session lock.
Interact(c, op) ==
    /\ call[c] = Idle
    /\ \A d \in Callers : call[d].pc \notin LockedPcs
    /\ opSeq < MaxOps
    /\ opSeq' = opSeq + 1
    /\ call' = [call EXCEPT ![c] = [op |-> op, pc |-> "record", seq |-> opSeq + 1,
                                    left |-> 0, code |-> "none"]]
    /\ UNCHANGED <<logVars, stateVars, childVars, seen, watch, pending>>

\* The interaction event, in a critical section of its own.
Record(c) ==
    /\ call[c].pc = "record" /\ SessionLockFree
    /\ AppendEvent("interaction", call[c].seq)
    /\ Goto(c, "body")
    /\ UNCHANGED <<stateVars, childVars, opSeq, seen, watch, pending>>

BeginWrite(c) ==
    /\ call[c].pc = "body" /\ call[c].op = "write"
    /\ IF status = "running" /\ alive /\ ~stdinClosed
       THEN call' = [call EXCEPT ![c].pc = "writing", ![c].left = Payload]
       ELSE Return(c)
    /\ UNCHANGED <<logVars, stateVars, childVars, opSeq, seen, watch, pending>>

\* stdin.write blocks while the pipe is full; a dead child breaks it.
Write(c) ==
    /\ call[c].pc = "writing"
    /\ \/ /\ ~alive
          /\ stdinClosed' = TRUE
          /\ Return(c) /\ UNCHANGED input
       \/ /\ alive /\ input < InPipe
          /\ input' = input + 1
          /\ IF call[c].left = 1 THEN Return(c) ELSE call' = [call EXCEPT ![c].left = @ - 1]
          /\ UNCHANGED stdinClosed
    /\ UNCHANGED <<logVars, status, returncode, exits, job, alive, held, output,
                   opSeq, seen, watch, pending>>

CloseStdin(c) ==
    /\ call[c].pc = "body" /\ call[c].op = "close_stdin"
    /\ stdinClosed' = TRUE
    /\ IF stdinClosed THEN Return(c) ELSE Goto(c, "result")
    /\ UNCHANGED <<logVars, status, returncode, exits, childVars, opSeq, seen, watch, pending>>

Terminate(c) ==
    /\ call[c].pc = "body" /\ call[c].op = "terminate"
    /\ IF status = "closed" THEN Return(c) /\ UNCHANGED job
       ELSE Goto(c, "waiting") /\ job' = (job /\ ~alive)
    /\ UNCHANGED <<logVars, stateVars, alive, input, held, output, opSeq, seen, watch, pending>>

Close(c) ==
    /\ call[c].pc = "body" /\ call[c].op = "close"
    /\ IF status = "closed" THEN Return(c) /\ UNCHANGED <<status, stdinClosed, job>>
       ELSE /\ Goto(c, "waiting")
            /\ status' = "closed" /\ stdinClosed' = TRUE /\ job' = FALSE
    /\ UNCHANGED <<logVars, returncode, exits, alive, input, held, output,
                   opSeq, seen, watch, pending>>

\* process.wait(timeout=5) ends either way; poll() is read before _record_exit.
Waited(c) ==
    /\ call[c].pc = "waiting"
    /\ call' = [call EXCEPT ![c].pc = "exit", ![c].code = IF alive THEN "none" ELSE "code"]
    /\ UNCHANGED <<logVars, stateVars, childVars, opSeq, seen, watch, pending>>

EndByExit(c) ==
    /\ call[c].pc = "exit"
    /\ RecordExit(call[c].code)
    /\ IF call[c].op = "terminate" THEN Goto(c, "result") ELSE Return(c)
    /\ UNCHANGED <<childVars, opSeq, seen, watch, pending>>

\* stdin_closed and terminate events are appended after the interaction lock.
Result(c) ==
    /\ call[c].pc = "result" /\ SessionLockFree
    /\ AppendEvent(call[c].op, call[c].seq)
    /\ Return(c)
    /\ UNCHANGED <<stateVars, childVars, opSeq, seen, watch, pending>>

-----------------------------------------------------------------------------
(* The child and the threads of the session *)

Echo ==
    /\ alive
    /\ \/ held = 0 /\ input > 0 /\ input' = input - 1 /\ held' = 1 /\ UNCHANGED output
       \/ held = 1 /\ output < OutPipe /\ output' = output + 1 /\ held' = 0 /\ UNCHANGED input
    /\ UNCHANGED <<logVars, stateVars, job, alive, opSeq, seen, call, watch, pending>>

\* By itself, or because the job was closed.
ChildExit ==
    /\ alive
    /\ alive' = FALSE
    /\ UNCHANGED <<logVars, stateVars, job, input, held, output, opSeq, seen, call, watch, pending>>

ReadPipe ==
    /\ pending = 0 /\ output > 0
    /\ pending' = 1 /\ output' = output - 1
    /\ UNCHANGED <<logVars, stateVars, job, alive, input, held, opSeq, seen, call, watch>>

AppendOutput ==
    /\ pending = 1 /\ SessionLockFree
    /\ AppendEvent("output", 0)
    /\ pending' = 0
    /\ UNCHANGED <<stateVars, childVars, opSeq, seen, call, watch>>

Watch ==
    /\ \/ /\ watch = "waiting" /\ ~alive
          /\ watch' = "record"
          /\ UNCHANGED <<logVars, stateVars, job>>
       \/ /\ watch = "record" /\ SessionLockFree
          /\ RecordExit("code")
          /\ watch' = "done" /\ job' = FALSE
    /\ UNCHANGED <<alive, input, held, output, opSeq, seen, call, pending>>

\* read() from the cursor the last read returned: MAX_READ_EVENTS of the newer
\* events, or all of them.
Newer == {i \in DOMAIN events : events[i].cursor > seen}

Read ==
    /\ SessionLockFree
    /\ \E last \in Newer :
          /\ \/ Cardinality({i \in Newer : i <= last}) = MaxRead
             \/ last = Len(events) /\ Cardinality(Newer) < MaxRead
          /\ seen' = events[last].cursor
    /\ UNCHANGED <<logVars, stateVars, childVars, opSeq, call, watch, pending>>

-----------------------------------------------------------------------------
CallStep(c) ==
    \/ Record(c) \/ BeginWrite(c) \/ Write(c) \/ CloseStdin(c) \/ Terminate(c)
    \/ Close(c) \/ Waited(c) \/ EndByExit(c) \/ Result(c)

Next ==
    \/ \E c \in Callers, op \in Ops : Interact(c, op)
    \/ \E c \in Callers : CallStep(c)
    \/ Echo \/ ChildExit \/ ReadPipe \/ AppendOutput \/ Watch \/ Read

\* Threads run and the child echoes; nothing makes it exit or a caller call.
Fairness ==
    /\ \A c \in Callers : WF_vars(CallStep(c))
    /\ WF_vars(Echo) /\ WF_vars(ReadPipe) /\ WF_vars(AppendOutput)
    /\ WF_vars(Watch) /\ WF_vars(Read)

Spec == Init /\ [][Next]_vars /\ Fairness

-----------------------------------------------------------------------------
(* Incremental cursors over a bounded history: a client that polls from its *)
(* last cursor either gets the very next event or is told events_truncated, *)
(* and is not told so when nothing was lost to it.                          *)
NoSilentGap ==
    (seen < dropped) <=> (\E n \in seen + 1 .. cursor : \A i \in DOMAIN events : events[i].cursor # n)

(* "state-changing interactions are serialized by a per-session interaction *)
(* lock" (docs/codex_runtime_parity_audit.md): the log shows interactions   *)
(* in the order of their operation_seq, whatever threads append around them. *)
InteractionsInOrder ==
    \A i, j \in DOMAIN events :
        events[i].type = "interaction" /\ events[j].type = "interaction" /\ i < j =>
            events[i].seq < events[j].seq

(* The watcher, terminate and close may all see the exit: it is logged at   *)
(* most once, and whoever reads "exited" finds it in the log.  "closed" is  *)
(* shown before that: close sets the status, waits for the child twice five *)
(* seconds at most, then logs, and read stops waiting at any status but     *)
(* running.  A poller that reads "closed" without the exit reads it while   *)
(* that close is under way; when it has returned the exit is in the log.    *)
ExitLoggedOnce ==
    /\ exits <= 1
    /\ status = "exited" => exits = 1
    /\ exits = 1 => status # "running"
    /\ status = "closed" /\ exits = 0 =>
          \E c \in Callers : call[c].op = "close" /\ call[c].pc \in {"waiting", "exit"}

(* docs/codex_runtime_parity_audit.md: "long-poll reads stay outside that   *)
(* lock so read/write cannot deadlock".  A write blocks under the session   *)
(* lock, which the reader thread needs to drain the child's output.         *)
WriteReturns ==
    \A c \in Callers : call[c].pc = "writing" ~> call[c].pc # "writing"
=============================================================================
