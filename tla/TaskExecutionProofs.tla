------------------------ MODULE TaskExecutionProofs ------------------------
(***************************************************************************)
(* Why a command is started at most once, why only a refused write leaves  *)
(* an open task without an owner, why a terminal record is final, and why  *)
(* the Runner keeps its word: for every number of tasks, threads and       *)
(* records in the ledger, and however often the server and the Runner      *)
(* restart, stop answering or refuse a request.                            *)
(*                                                                         *)
(* The worker's place, the row of its task and the context go together     *)
(* (Placed): a worker on the exception path may hold a row it never marked   *)
(* running, or one that was cancelled before it read it; what it writes    *)
(* over the latter is what is there, since the context says cancelled.     *)
(* That a command was started at most once is not inductive: while a       *)
(* client submits for the second time, the record of its first attempt may *)
(* wait in the Runner, be running, be gone with the process that held it,  *)
(* or never have been made (StartedOnce).                                  *)
(***************************************************************************)
EXTENDS TaskExecution, FiniteSetTheorems, FunctionTheorems, TLAPS

\* Where the worker of a task that never reached a backend can be.
BeforeBackend == {"job", "begin", "announce", "ready", "submit1", "local"}

\* A worker's place, its row and context, and whether its last write was refused.
Placed(where, status, ctx, lost) ==
    /\ where = "none" <=> ctx = "none"
    /\ where # "none" => status # "none"
    /\ where \in {"none", "leave"} => status \in {"none"} \cup TERMINAL \/ lost
    /\ where = "job" => status \in {"queued", "cancelled"}
    /\ where = "bad" => status \in {"queued", "running", "cancelled"}
    /\ where \in {"job", "bad"} /\ status = "cancelled" => ctx = "cancelled"
    /\ where \in (RunPcs \ {"bad"}) \cup RecoverPcs \cup {"recoverJob"} => status = "running"

RowFits(t) ==
    /\ Placed(pc[t], row[t], context[t], t \in unwritten)
    /\ canceller = t => pc[t] # "none"

StartedOnce(t) ==
    /\ launches[t] <= 1
    /\ exec[t] \in {"waiting", "launching"} => launches[t] = 0
    /\ row[t] = "none" \/ pc[t] \in BeforeBackend =>
          launches[t] = 0 /\ exec[t] = "absent"
    /\ pc[t] = "submit2" /\ SameRunner(t) /\ exec[t] = "absent" => launches[t] = 0
    /\ pc[t] = "submit2" => t \notin collected

LedgerOK ==
    /\ \A r \in collected : exec[r] = "done"
    /\ \A r \in live : exec[r] = "running"
    /\ live \cap cancelAsked = {}

RunnerInv == RunnerTypeOK /\ LedgerOK

TaskTypeOK ==
    /\ row \in [Tasks -> {"none", "queued", "running"} \cup TERMINAL]
    /\ announced \subseteq Tasks
    /\ context \in [Tasks -> {"none", "live", "cancelled"}]
    /\ pc \in [Tasks -> Pcs]
    /\ bound \in [Tasks -> 0..MaxInstances]
    /\ canceller \in Tasks \cup {NoTask}
    /\ unwritten \subseteq Tasks
    /\ restarts \in 0..MaxRestarts

RowInv ==
    /\ TaskTypeOK
    /\ \A t \in Tasks : RowFits(t)
    /\ \A t \in Tasks : bound[t] <= instance

TaskInv ==
    /\ RunnerInv
    /\ RowInv
    /\ \A t \in Tasks \ Repeatable : StartedOnce(t)

-----------------------------------------------------------------------------
(* The ledger *)

\* Induction over the naturals, for a set rather than a predicate: were n the
\* first number to miss, the numbers up to n that S has would go one to one
\* into themselves without 0.
LEMMA SetInduction ==
  ASSUME NEW S, 0 \in S, \A n \in Nat : n \in S => n + 1 \in S
  PROVE  Nat \subseteq S
<1> SUFFICES ASSUME NEW n \in Nat, n \notin S
             PROVE  FALSE
  OBVIOUS
<1> DEFINE T == {i \in 0..n : i \in S}
           U == T \ {0}
           next == [i \in T |-> i + 1]
<1>1. IsFiniteSet(T)
  <2>1. IsFiniteSet(0..n)
    BY FS_Interval
  <2> QED
    BY <2>1, FS_Subset
<1>2. IsFiniteSet(U) /\ Cardinality(U) = Cardinality(T) - 1 /\ Cardinality(T) \in Nat
  <2>1. 0 \in T
    OBVIOUS
  <2> HIDE DEF T
  <2> QED
    BY <1>1, <2>1, FS_RemoveElement, FS_CardinalityType
<1>3. next \in [T -> U]
  OBVIOUS
<1>4. \E i, j \in T : i # j /\ next[i] = next[j]
  <2> HIDE DEF T, U, next
  <2> QED
    BY <1>1, <1>2, <1>3, FS_PigeonHole
<1> QED
  BY <1>4

\* The function Without defines by recursion exists, so it is as defined.
LEMMA KeptDefined ==
  ASSUME NEW q \in Seq(Requests), NEW gone
  PROVE  \E kept :
           /\ Without(q, gone) = kept[Len(q)]
           /\ kept[0] = <<>>
           /\ \A i \in 1..Len(q) :
                 kept[i] = IF q[i] \in gone THEN kept[i - 1] ELSE Append(kept[i - 1], q[i])
<1> DEFINE Val(k, i) ==
             IF i = 0 THEN <<>>
             ELSE IF q[i] \in gone THEN k[i - 1] ELSE Append(k[i - 1], q[i])
           IsKept(k, n) == \A i \in 0..n : k[i] = Val(k, i)
           S == {n \in Nat : \E k : IsKept(k, n)}
<1>1. 0 \in S
  <2>1. IsKept([i \in {0} |-> <<>>], 0)
    OBVIOUS
  <2> QED
    BY <2>1
<1>2. ASSUME NEW n \in Nat, n \in S
      PROVE  n + 1 \in S
  <2> HIDE DEF Val
  <2>1. PICK k : IsKept(k, n)
    BY <1>2
  <2> HIDE DEF IsKept
  <2> DEFINE k1 == [i \in 0..n + 1 |-> IF i = n + 1 THEN Val(k, i) ELSE k[i]]
  <2>2. ASSUME NEW i \in 0..n + 1
        PROVE  k1[i] = Val(k1, i)
    <3>1. Val(k, i) = Val(k1, i)
      BY DEF Val
    <3>2. i # n + 1 => k[i] = Val(k, i)
      BY <2>1 DEF IsKept
    <3> QED
      BY <3>1, <3>2
  <2>3. IsKept(k1, n + 1)
    BY <2>2 DEF IsKept
  <2> QED
    BY <2>3
<1>3. Len(q) \in S
  <2>1. \A n \in Nat : n \in S => n + 1 \in S
    BY <1>2
  <2> HIDE DEF S
  <2> QED
    BY <1>1, <2>1, SetInduction
<1>4. PICK k : IsKept(k, Len(q))
  BY <1>3
<1> DEFINE Fits(g) == g = [i \in 0..Len(q) |-> Val(g, i)]
           kept == CHOOSE g : Fits(g)
<1>5. Fits([i \in 0..Len(q) |-> k[i]])
  <2> DEFINE g == [i \in 0..Len(q) |-> k[i]]
  <2>1. \A i \in 0..Len(q) : g[i] = Val(g, i)
    BY <1>4
  <2> HIDE DEF Val
  <2> QED
    BY <2>1
<1>6. Fits(kept)
  <2> HIDE DEF Fits
  <2> QED
    BY <1>5
<1>7. Without(q, gone) = kept[Len(q)]
  BY DEF Without
<1>8. \A i \in 0..Len(q) : kept[i] = Val(kept, i)
  <2> HIDE DEF Val, kept
  <2> QED
    BY <1>6
<1> QED
  <2> HIDE DEF kept, Fits
  <2>1. kept[0] = <<>>
    <3>1. 0 \in 0..Len(q)
      OBVIOUS
    <3> QED
      BY <1>8, <3>1
  <2>2. ASSUME NEW i \in 1..Len(q)
        PROVE  kept[i] = IF q[i] \in gone THEN kept[i - 1] ELSE Append(kept[i - 1], q[i])
    <3>1. i \in 0..Len(q) /\ i # 0
      OBVIOUS
    <3> QED
      BY <1>8, <3>1
  <2> QED
    BY <1>7, <2>1, <2>2

Members(s) == {s[i] : i \in 1..Len(s)}
Distinct(s) == \A i, j \in 1..Len(s) : s[i] = s[j] => i = j

LEMMA AppendKeeps ==
  ASSUME NEW s \in Seq(Requests), NEW r \in Requests
  PROVE  /\ Append(s, r) \in Seq(Requests) /\ Len(Append(s, r)) = Len(s) + 1
         /\ Members(Append(s, r)) = Members(s) \cup {r}
         /\ Distinct(s) /\ r \notin Members(s) => Distinct(Append(s, r))
<1>1. /\ Append(s, r) \in Seq(Requests) /\ Len(Append(s, r)) = Len(s) + 1
      /\ \A i \in 1..Len(s) : Append(s, r)[i] = s[i]
      /\ Append(s, r)[Len(s) + 1] = r
  OBVIOUS
<1>2. Members(Append(s, r)) = Members(s) \cup {r}
  BY <1>1 DEF Members
<1>3. ASSUME Distinct(s), r \notin Members(s)
      PROVE  Distinct(Append(s, r))
  BY <1>1, <1>3 DEF Distinct, Members
<1> QED
  BY <1>1, <1>2, <1>3

\* Pruning takes the records of gone out of the ledger and no other, and keeps
\* each record once.
LEMMA WithoutKeeps ==
  ASSUME NEW q \in Seq(Requests), NEW gone, Distinct(q)
  PROVE  /\ Without(q, gone) \in Seq(Requests)
         /\ Members(Without(q, gone)) = Members(q) \ gone
         /\ Distinct(Without(q, gone))
<1>1. PICK kept :
        /\ Without(q, gone) = kept[Len(q)]
        /\ kept[0] = <<>>
        /\ \A i \in 1..Len(q) :
              kept[i] = IF q[i] \in gone THEN kept[i - 1] ELSE Append(kept[i - 1], q[i])
  BY KeptDefined
<1> DEFINE Upto(n) == {q[i] : i \in 1..n} \ gone
           Good(n) == /\ kept[n] \in Seq(Requests)
                      /\ Members(kept[n]) = Upto(n)
                      /\ Distinct(kept[n])
           S == {n \in Nat : n <= Len(q) => Good(n)}
<1>2. 0 \in S
  <2>1. Upto(0) = {} /\ Members(<<>>) = {} /\ Distinct(<<>>) /\ <<>> \in Seq(Requests)
    BY DEF Members, Distinct
  <2> HIDE DEF Upto
  <2> QED
    BY <1>1, <2>1
<1>3. ASSUME NEW n \in Nat, n \in S
      PROVE  n + 1 \in S
  <2> SUFFICES ASSUME n + 1 <= Len(q)
               PROVE  Good(n + 1)
    OBVIOUS
  <2>1. Good(n)
    BY <1>3
  <2>2. n + 1 \in 1..Len(q) /\ q[n + 1] \in Requests
    OBVIOUS
  <2>3. CASE q[n + 1] \in gone
    <3>1. kept[n + 1] = kept[n]
      BY <1>1, <2>2, <2>3
    <3>2. Upto(n + 1) = Upto(n)
      BY <2>3
    <3> HIDE DEF Upto
    <3> QED
      BY <2>1, <3>1, <3>2
  <2>4. CASE q[n + 1] \notin gone
    <3>1. kept[n + 1] = Append(kept[n], q[n + 1])
      <4>1. (n + 1) - 1 = n
        OBVIOUS
      <4> QED
        BY <1>1, <2>2, <2>4, <4>1
    <3>2. Upto(n + 1) = Upto(n) \cup {q[n + 1]}
      BY <2>4
    <3>3. q[n + 1] \notin Upto(n)
      BY DEF Distinct
    <3> DEFINE s == kept[n]
               r == q[n + 1]
    <3>4. /\ s \in Seq(Requests) /\ Members(s) = Upto(n) /\ Distinct(s)
          /\ r \in Requests /\ r \notin Members(s)
      BY <2>1, <2>2, <3>3
    <3>5. /\ Append(s, r) \in Seq(Requests) /\ Members(Append(s, r)) = Members(s) \cup {r}
          /\ Distinct(Append(s, r))
      <4> HIDE DEF Upto, s, r
      <4> QED
        BY <3>4, AppendKeeps
    <3> HIDE DEF Upto
    <3> QED
      BY <3>1, <3>2, <3>4, <3>5
  <2> QED
    BY <2>3, <2>4
<1>4. Len(q) \in S
  <2> HIDE DEF S
  <2> QED
    BY <1>2, <1>3, SetInduction
<1>5. Good(Len(q)) /\ Upto(Len(q)) = Members(q) \ gone
  BY <1>4 DEF Members
<1> QED
  BY <1>1, <1>5

\* A ledger is as long as its set of records exactly when none occurs twice.
LEMMA DistinctLength ==
  ASSUME NEW q \in Seq(Requests)
  PROVE  Cardinality(Members(q)) = Len(q) <=> Distinct(q)
<1>1. q \in [1..Len(q) -> Members(q)]
  BY DEF Members
<1>2. q \in Surjection(1..Len(q), Members(q))
  BY <1>1, Fun_IsSurj DEF Members
<1>3. IsFiniteSet(1..Len(q)) /\ Cardinality(1..Len(q)) = Len(q)
  <2>1. 1 \in Int /\ Len(q) \in Int /\ Len(q) >= 0
    OBVIOUS
  <2>2. /\ IsFiniteSet(1..Len(q))
        /\ Cardinality(1..Len(q)) = IF 1 > Len(q) THEN 0 ELSE Len(q) - 1 + 1
    <3> DEFINE m == Len(q)
    <3> HIDE DEF m
    <3> SUFFICES IsFiniteSet(1..m) /\ Cardinality(1..m) = IF 1 > m THEN 0 ELSE m - 1 + 1
      BY DEF m
    <3>1. m \in Int
      BY <2>1 DEF m
    <3> QED
      BY <3>1, FS_Interval
  <2> QED
    BY <2>1, <2>2
<1>4. Cardinality(Members(q)) = Len(q) <=> q \in Injection(1..Len(q), Members(q))
  BY <1>2, <1>3, FS_Surjection
<1>5. q \in Injection(1..Len(q), Members(q)) => Distinct(q)
  BY Fun_InjectionProperties DEF Distinct
<1>6. Distinct(q) => q \in Injection(1..Len(q), Members(q))
  BY <1>1, Fun_IsInj DEF Distinct
<1> QED
  BY <1>4, <1>5, <1>6

-----------------------------------------------------------------------------
(* The Runner *)

\* RunnerTypeOK without its count: the ledger holds no record twice.
RunnerTypes ==
    /\ up \in BOOLEAN /\ mute \in BOOLEAN /\ (mute => up)
    /\ instance \in 0..MaxInstances
    /\ ledger \in Seq(Requests) /\ Distinct(ledger)
    /\ exec \in [Requests -> Stages] /\ answer \in [Requests -> Answers]
    /\ Members(ledger) = {r \in Requests : exec[r] # "absent"}
    /\ collected \subseteq Requests /\ cancelAsked \subseteq Requests
    /\ live \subseteq Requests /\ launches \in [Requests -> Nat]

LEMMA SameTypes == (RunnerTypeOK <=> RunnerTypes) /\ (RunnerTypeOK' <=> RunnerTypes')
<1>1. /\ ledger \in Seq(Requests) => Records = Members(ledger)
      /\ ledger' \in Seq(Requests) => Records' = Members(ledger')
  BY DEF Records, Members
<1>2. /\ ledger \in Seq(Requests) =>
            (Cardinality(Members(ledger)) = Len(ledger) <=> Distinct(ledger))
      /\ ledger' \in Seq(Requests) =>
            (Cardinality(Members(ledger')) = Len(ledger') <=> Distinct(ledger'))
  BY DistinctLength
<1> QED
  BY <1>1, <1>2 DEF RunnerTypeOK, RunnerTypes

\* What a Runner step may do to a record, other than make it: a stage follows
\* its predecessor, the start of the command is the step out of launching, and
\* a record leaves a Runner that serves only after its result was read.
Advances(r) ==
    /\ exec'[r] \in {"waiting", "launching"} =>
          exec[r] \in {"waiting", "launching"} /\ launches'[r] = launches[r]
    /\ \/ launches'[r] = launches[r]
       \/ exec[r] = "launching" /\ launches'[r] = launches[r] + 1
    /\ exec[r] = "absent" => exec'[r] = "absent"
    /\ up' /\ exec'[r] = "absent" => exec[r] = "absent" \/ r \in collected

LEMMA NewRecordKeeps ==
  ASSUME RunnerInv, NEW r \in Requests, r \notin Records, NewRecord(r),
         UNCHANGED <<up, mute, instance, live, launches>>
  PROVE  /\ RunnerInv'
         /\ exec'[r] = "waiting" /\ r \notin collected' /\ exec[r] = "absent"
         /\ \A x \in Requests \ {r} : Advances(x) /\ (x \in collected' => x \in collected)
<1> DEFINE q == Append(ledger, r)
           gone == Pruned(q)
<1>1. /\ ledger \in Seq(Requests) /\ Distinct(ledger)
      /\ Members(ledger) = {x \in Requests : exec[x] # "absent"} /\ r \notin Members(ledger)
  BY SameTypes DEF RunnerInv, RunnerTypes, Records, Members
<1>2. q \in Seq(Requests) /\ Distinct(q) /\ Members(q) = Members(ledger) \cup {r}
  BY <1>1, AppendKeeps
<1>3. gone \subseteq collected
  BY DEF Pruned
<1>4. r \notin collected /\ exec[r] = "absent"
  BY <1>1, SameTypes DEF RunnerInv, RunnerTypes, LedgerOK
<1> HIDE DEF q, gone
<1>5. /\ ledger' \in Seq(Requests) /\ Distinct(ledger')
      /\ Members(ledger') = Members(q) \ gone
  BY <1>2, WithoutKeeps DEF NewRecord, q, gone
<1>6. /\ exec' = [x \in Requests |->
            IF x = r THEN "waiting" ELSE IF x \in gone THEN "absent" ELSE exec[x]]
      /\ answer' = [x \in Requests |-> IF x \in gone \cup {r} THEN "none" ELSE answer[x]]
      /\ collected' = collected \ (gone \cup {r})
      /\ cancelAsked' = cancelAsked \ (gone \cup {r})
  BY DEF NewRecord, q, gone
<1>7. Members(ledger') = {x \in Requests : exec'[x] # "absent"}
  BY <1>1, <1>2, <1>3, <1>4, <1>5, <1>6
<1>8. RunnerTypeOK'
  <2>1. exec' \in [Requests -> Stages] /\ answer' \in [Requests -> Answers]
    BY <1>6, SameTypes DEF RunnerInv, RunnerTypes, Stages, Answers
  <2>2. /\ up' \in BOOLEAN /\ mute' \in BOOLEAN /\ (mute' => up')
        /\ instance' \in 0..MaxInstances
    BY DEF RunnerInv, RunnerTypeOK
  <2>3. live' \subseteq Requests /\ launches' \in [Requests -> Nat]
    BY DEF RunnerInv, RunnerTypeOK
  <2>4. collected' \subseteq Requests /\ cancelAsked' \subseteq Requests
    BY <1>6 DEF RunnerInv, RunnerTypeOK
  <2> QED
    BY <1>5, <1>7, <2>1, <2>2, <2>3, <2>4, SameTypes DEF RunnerTypes
<1>9. LedgerOK'
  BY <1>3, <1>4, <1>6, SameTypes DEF RunnerInv, RunnerTypes, LedgerOK
<1>10. ASSUME NEW x \in Requests \ {r}
       PROVE  Advances(x) /\ (x \in collected' => x \in collected)
  <2>1. launches'[x] = launches[x] /\ (x \in collected' => x \in collected)
    BY <1>6
  <2>2. CASE x \in gone
    <3>1. exec'[x] = "absent" /\ x \in collected
      BY <1>3, <1>6, <2>2
    <3> QED
      BY <2>1, <3>1 DEF Advances
  <2>3. CASE x \notin gone
    <3>1. exec'[x] = exec[x]
      BY <1>6, <2>3
    <3> QED
      BY <2>1, <3>1 DEF Advances
  <2> QED
    BY <2>2, <2>3
<1>11. exec'[r] = "waiting" /\ r \notin collected'
  BY <1>6
<1> QED
  BY <1>4, <1>8, <1>9, <1>10, <1>11 DEF RunnerInv

\* Reading a result marks a done record and leaves the rest alone.
LEMMA CollectKeeps ==
  ASSUME RunnerInv, NEW r \in Requests, NEW reply, Collect(r, reply),
         UNCHANGED <<up, mute, instance, ledger, exec, answer, cancelAsked, live, launches>>
  PROVE  /\ RunnerInv'
         /\ \A x \in Requests : Advances(x)
         /\ \A x \in Requests \ {r} : x \in collected' => x \in collected
         /\ exec[r] # "absent"
<1>1. /\ collected' \subseteq collected \cup {r}
      /\ \A x \in collected' : exec'[x] = "done"
  BY DEF Collect, RunnerInv, LedgerOK
<1>2. RunnerTypeOK'
  BY <1>1, SameTypes DEF RunnerInv, RunnerTypes
<1>3. LedgerOK'
  BY <1>1 DEF RunnerInv, LedgerOK
<1>4. exec[r] # "absent"
  BY DEF Collect, RunnerInv, RunnerTypeOK
<1> QED
  BY <1>1, <1>2, <1>3, <1>4 DEF RunnerInv, Advances

\* A step that changes nothing of the Runner.
LEMMA RunnerStutters ==
  ASSUME RunnerInv, UNCHANGED runnerVars
  PROVE  RunnerInv' /\ \A x \in Requests : Advances(x)
<1>1. RunnerTypeOK'
  BY SameTypes DEF RunnerInv, RunnerTypes, runnerVars
<1>2. LedgerOK'
  BY DEF RunnerInv, LedgerOK, runnerVars
<1> QED
  BY <1>1, <1>2 DEF RunnerInv, Advances, runnerVars

\* A submission reads a record, is refused, or makes the record.
LEMMA SubmitKeeps ==
  ASSUME RunnerInv, NEW r \in Requests, NEW reply, HandleSubmit(r, reply)
  PROVE  /\ RunnerInv'
         /\ UNCHANGED <<up, mute, instance, live, launches>>
         /\ \A x \in Requests \ {r} : Advances(x) /\ (x \in collected' => x \in collected)
         /\ \/ Advances(r)
            \/ exec[r] = "absent" /\ exec'[r] = "waiting"
         /\ exec[r] = "absent" => r \notin collected'
<1>1. UNCHANGED <<up, mute, instance, live, launches>>
  BY DEF HandleSubmit
<1>2. CASE Collect(r, reply) /\ UNCHANGED <<ledger, exec, answer, cancelAsked>>
  BY <1>1, <1>2, CollectKeeps
<1>3. CASE UNCHANGED <<ledger, exec, answer, collected, cancelAsked>>
  <2>1. UNCHANGED runnerVars
    BY <1>1, <1>3 DEF runnerVars
  <2>2. exec[r] = "absent" => r \notin collected'
    BY <1>3 DEF RunnerInv, LedgerOK
  <2> QED
    BY <1>1, <1>3, <2>1, <2>2, RunnerStutters
<1>4. CASE r \notin Records /\ NewRecord(r)
  BY <1>1, <1>4, NewRecordKeeps
<1> QED
  BY <1>2, <1>3, <1>4 DEF HandleSubmit

LEMMA ResultKeeps ==
  ASSUME RunnerInv, NEW r \in Requests, NEW reply, HandleResult(r, reply)
  PROVE  /\ RunnerInv'
         /\ UNCHANGED <<up, mute, instance, launches>>
         /\ \A x \in Requests : Advances(x)
         /\ \A x \in Requests \ {r} : x \in collected' => x \in collected
<1>1. UNCHANGED <<up, mute, instance, ledger, exec, answer, cancelAsked, live, launches>>
  BY DEF HandleResult
<1>2. CASE Collect(r, reply)
  BY <1>1, <1>2, CollectKeeps
<1>3. CASE UNCHANGED collected
  <2>1. UNCHANGED runnerVars
    BY <1>1, <1>3 DEF runnerVars
  <2> QED
    BY <1>1, <1>3, <2>1, RunnerStutters
<1> QED
  BY <1>2, <1>3 DEF HandleResult

LEMMA CancelKeeps ==
  ASSUME RunnerInv, NEW r \in Requests, HandleCancel(r)
  PROVE  /\ RunnerInv'
         /\ UNCHANGED <<up, mute, instance, collected, launches>>
         /\ \A x \in Requests : Advances(x)
<1>1. /\ UNCHANGED <<up, mute, instance, ledger, exec, answer, collected, launches>>
      /\ cancelAsked' \subseteq cancelAsked \cup {r}
      /\ live' \subseteq live
      /\ cancelAsked' \cap live' = {}
  BY DEF HandleCancel, RunnerInv, LedgerOK
<1>2. RunnerTypeOK'
  BY <1>1, SameTypes DEF RunnerInv, RunnerTypes
<1>3. LedgerOK'
  BY <1>1 DEF RunnerInv, LedgerOK
<1> QED
  BY <1>1, <1>2, <1>3 DEF RunnerInv, Advances

\* A pool thread moves a record that is not done to a later stage, and only a
\* child that no cancellation asked for stays registered.
LEMMA ThreadKeeps ==
  ASSUME RunnerInv, NEW r \in Requests, exec[r] \notin {"absent", "done"},
         NEW stage \in Stages \ {"absent"}, exec' = [exec EXCEPT ![r] = stage],
         answer' \in [Requests -> Answers], launches' \in [Requests -> Nat],
         live' \subseteq live \cup {r}, r \in live' => stage = "running" /\ r \notin cancelAsked,
         cancelAsked' \subseteq cancelAsked,
         UNCHANGED <<up, mute, instance, ledger, collected>>
  PROVE  RunnerInv'
<1>1. exec \in [Requests -> Stages]
  BY DEF RunnerInv, RunnerTypeOK
<1>2. \A x \in Requests : exec'[x] = IF x = r THEN stage ELSE exec[x]
  BY <1>1
<1>3. exec' \in [Requests -> Stages]
  BY <1>1
<1>4. Members(ledger') = {x \in Requests : exec'[x] # "absent"}
  BY <1>2, SameTypes DEF RunnerInv, RunnerTypes
<1>5. live' \subseteq Requests /\ cancelAsked' \subseteq Requests
  BY DEF RunnerInv, RunnerTypeOK
<1>6. RunnerTypeOK'
  BY <1>3, <1>4, <1>5, SameTypes DEF RunnerInv, RunnerTypes
<1>7. LedgerOK'
  <2>1. \A x \in collected : x \in Requests /\ x # r
    BY DEF RunnerInv, LedgerOK, RunnerTypeOK
  <2> QED
    BY <1>2, <1>5, <2>1 DEF RunnerInv, LedgerOK, RunnerTypeOK
<1> QED
  BY <1>6, <1>7 DEF RunnerInv

\* The pool's threads and the process: a Runner with the identity an earlier
\* one had does not come back.
LEMMA StepKeeps ==
  ASSUME RunnerInv, RunnerStep
  PROVE  /\ RunnerInv'
         /\ instance' \in Nat /\ instance <= instance'
         /\ up' /\ instance' = instance => up
         /\ collected' \subseteq collected
         /\ \A x \in Requests : Advances(x)
<1> DEFINE Kept == /\ RunnerInv' /\ UNCHANGED <<up, mute, instance, collected>>
                   /\ \A x \in Requests : Advances(x)
<1>1. /\ exec \in [Requests -> Stages] /\ answer \in [Requests -> Answers]
      /\ launches \in [Requests -> Nat] /\ instance \in Nat
  BY RunnerAssumption DEF RunnerInv, RunnerTypeOK, RunnerAssumption
<1>2. ASSUME NEW r \in Requests, Begin(r)
      PROVE  Kept
  <2>1. PICK stage \in {"launching", "done"} : exec' = [exec EXCEPT ![r] = stage]
    BY <1>2 DEF Begin, Done
  <2>2. /\ exec[r] = "waiting" /\ UNCHANGED <<up, mute, instance, ledger, collected, live, launches>>
        /\ cancelAsked' \subseteq cancelAsked
        /\ answer' \in [Requests -> Answers]
    BY <1>1, <1>2 DEF Begin, Done, Answers
  <2>3. r \notin live
    BY <2>2 DEF RunnerInv, LedgerOK
  <2>4. RunnerInv'
    BY <1>1, <2>1, <2>2, <2>3, ThreadKeeps DEF Stages
  <2>5. \A x \in Requests : Advances(x)
    BY <1>1, <2>1, <2>2 DEF Advances
  <2> QED
    BY <2>2, <2>4, <2>5
<1>3. ASSUME NEW r \in Requests, Launch(r)
      PROVE  Kept
  <2>1. /\ exec[r] = "launching" /\ UNCHANGED <<up, mute, instance, ledger, collected>>
        /\ cancelAsked' \subseteq cancelAsked
    BY <1>3 DEF Launch, Done
  <2>2. r \notin live
    BY <2>1 DEF RunnerInv, LedgerOK
  <2>3. CASE Done(r, "error") /\ UNCHANGED <<live, launches>>
    <3>1. answer' \in [Requests -> Answers] /\ exec' = [exec EXCEPT ![r] = "done"]
      BY <1>1, <2>3 DEF Done, Answers
    <3>2. RunnerInv'
      BY <1>1, <2>1, <2>2, <2>3, <3>1, ThreadKeeps DEF Stages
    <3> QED
      BY <1>1, <2>1, <2>3, <3>1, <3>2 DEF Advances
  <2>4. CASE /\ exec' = [exec EXCEPT ![r] = "running"]
             /\ live' = IF r \in cancelAsked THEN live ELSE live \cup {r}
             /\ launches' = [launches EXCEPT ![r] = @ + 1]
             /\ UNCHANGED <<answer, cancelAsked>>
    <3>1. live' \subseteq live \cup {r} /\ (r \in live' => r \notin cancelAsked)
      BY <2>2, <2>4
    <3>2. launches' \in [Requests -> Nat]
      BY <1>1, <2>4
    <3>3. RunnerInv'
      BY <1>1, <2>1, <2>4, <3>1, <3>2, ThreadKeeps DEF Stages
    <3> QED
      BY <1>1, <2>1, <2>4, <3>3 DEF Advances
  <2> QED
    BY <1>3, <2>3, <2>4 DEF Launch
<1>4. ASSUME NEW r \in Requests, Exit(r)
      PROVE  Kept
  <2>1. /\ exec[r] = "running" /\ exec' = [exec EXCEPT ![r] = "done"] /\ live' = live \ {r}
        /\ cancelAsked' \subseteq cancelAsked
        /\ UNCHANGED <<up, mute, instance, ledger, collected, launches>>
    BY <1>4 DEF Exit, Done
  <2>2. answer' \in [Requests -> Answers]
    BY <1>1, <1>4 DEF Exit, Done, Answers
  <2>3. RunnerInv'
    BY <1>1, <2>1, <2>2, ThreadKeeps DEF Stages
  <2> QED
    BY <1>1, <2>1, <2>3 DEF Advances
<1>5. ASSUME Gone
      PROVE  /\ RunnerInv' /\ ~up' /\ UNCHANGED instance /\ collected' = {}
             /\ \A x \in Requests : Advances(x)
  <2>1. /\ up' = FALSE /\ mute' = FALSE /\ ledger' = <<>> /\ exec' = [r \in Requests |-> "absent"]
        /\ answer' = [r \in Requests |-> "none"]
        /\ collected' = {} /\ cancelAsked' = {} /\ live' = {}
        /\ UNCHANGED <<instance, launches>>
    BY <1>5 DEF Gone
  <2>2. Members(<<>>) = {} /\ Distinct(<<>>) /\ <<>> \in Seq(Requests)
    BY DEF Members, Distinct
  <2>3. exec' \in [Requests -> Stages] /\ answer' \in [Requests -> Answers]
    BY <2>1 DEF Stages, Answers
  <2>4. RunnerTypeOK'
    BY <2>1, <2>2, <2>3, SameTypes DEF RunnerInv, RunnerTypes
  <2> QED
    BY <2>1, <2>4 DEF RunnerInv, LedgerOK, Advances
<1>6. ASSUME RunnerStart
      PROVE  /\ RunnerInv' /\ instance' = instance + 1 /\ UNCHANGED collected
             /\ \A x \in Requests : Advances(x)
  <2>1. /\ instance < MaxInstances /\ up' = TRUE /\ instance' = instance + 1
        /\ UNCHANGED <<mute, ledger, exec, answer, collected, cancelAsked, live, launches>>
    BY <1>6 DEF RunnerStart
  <2>2. instance' \in 0..MaxInstances
    BY <1>1, <2>1, RunnerAssumption DEF RunnerAssumption
  <2>3. RunnerTypeOK'
    BY <2>1, <2>2, SameTypes DEF RunnerInv, RunnerTypes
  <2> QED
    BY <2>1, <2>3 DEF RunnerInv, LedgerOK, Advances
<1>7. ASSUME RunnerMute
      PROVE  /\ RunnerInv' /\ UNCHANGED <<up, instance, collected>>
             /\ \A x \in Requests : Advances(x)
  <2>1. /\ up /\ mute' = TRUE
        /\ UNCHANGED <<up, instance, ledger, exec, answer, collected, cancelAsked, live, launches>>
    BY <1>7 DEF RunnerMute, Answering
  <2>2. RunnerTypeOK'
    BY <2>1, SameTypes DEF RunnerInv, RunnerTypes
  <2> QED
    BY <2>1, <2>2 DEF RunnerInv, LedgerOK, Advances
<1> HIDE DEF Kept
<1>8. Kept => /\ RunnerInv' /\ UNCHANGED <<up, mute, instance, collected>>
              /\ \A x \in Requests : Advances(x)
  BY DEF Kept
<1> QED
  BY <1>1, <1>2, <1>3, <1>4, <1>5, <1>6, <1>7, <1>8 DEF RunnerStep, RunnerCrash, RunnerShutdown

-----------------------------------------------------------------------------
(* The row of a task and its worker *)

\* What a step of one task does to its worker and its row.
LEMMA WorkerMoves ==
  ASSUME RowInv, NEW t \in Tasks, NEW where \in Pcs, NEW status \in {"none", "queued", "running"} \cup TERMINAL,
         NEW ctx \in {"none", "live", "cancelled"},
         pc' = [pc EXCEPT ![t] = where], row' = [row EXCEPT ![t] = status],
         context' = [context EXCEPT ![t] = ctx],
         bound' = bound \/ bound' = [bound EXCEPT ![t] = instance] \/ bound' = [bound EXCEPT ![t] = 0],
         instance \in 0..MaxInstances, instance' = instance,
         announced' \subseteq Tasks, unwritten \subseteq unwritten', unwritten' \subseteq Tasks,
         canceller' \in {canceller, NoTask} \/ (canceller' = t /\ where # "none"),
         where = "none" => canceller' # t, restarts' = restarts,
         Placed(where, status, ctx, t \in unwritten')
  PROVE  RowInv'
<1>1. /\ row \in [Tasks -> {"none", "queued", "running"} \cup TERMINAL] /\ pc \in [Tasks -> Pcs]
      /\ context \in [Tasks -> {"none", "live", "cancelled"}] /\ canceller \in Tasks \cup {NoTask}
      /\ bound \in [Tasks -> 0..MaxInstances] /\ restarts \in 0..MaxRestarts
      /\ 0 \in 0..MaxInstances /\ NoTask \notin Tasks
  BY RunnerAssumption, TaskAssumption DEF RowInv, TaskTypeOK, RunnerAssumption, TaskAssumption
<1>2. TaskTypeOK'
  BY <1>1 DEF TaskTypeOK
<1>3. \A u \in Tasks : bound'[u] <= instance'
  BY <1>1, RunnerAssumption DEF RowInv, RunnerAssumption
<1>4. RowFits(t)'
  <2>1. pc'[t] = where /\ row'[t] = status /\ context'[t] = ctx
    BY <1>1
  <2> QED
    BY <1>1, <2>1 DEF RowFits
<1>5. ASSUME NEW u \in Tasks, u # t
      PROVE  RowFits(u)'
  <2>1. pc'[u] = pc[u] /\ row'[u] = row[u] /\ context'[u] = context[u] /\ (u \in unwritten => u \in unwritten')
    BY <1>1, <1>5
  <2>2. RowFits(u) /\ (canceller' = u => canceller = u)
    BY <1>1, <1>5 DEF RowInv
  <2> QED
    BY <2>1, <2>2 DEF RowFits, Placed
<1> QED
  BY <1>2, <1>3, <1>4, <1>5 DEF RowInv

\* The steps of a worker outside its client.
LEMMA WorkerStays ==
  ASSUME RowInv, NEW t \in Tasks, NEW where \in Pcs, NEW status \in {"none", "queued", "running"} \cup TERMINAL,
         NEW ctx \in {"none", "live", "cancelled"},
         pc' = [pc EXCEPT ![t] = where], row' = [row EXCEPT ![t] = status],
         context' = [context EXCEPT ![t] = ctx],
         unwritten' = unwritten \/ unwritten' = unwritten \cup {t},
         instance \in 0..MaxInstances, UNCHANGED <<instance, announced, bound, canceller, restarts>>,
         where = "none" => canceller # t, Placed(where, status, ctx, t \in unwritten')
  PROVE  RowInv'
<1>1. announced' \subseteq Tasks /\ unwritten \subseteq unwritten' /\ unwritten' \subseteq Tasks
  BY DEF RowInv, TaskTypeOK
<1> QED
  BY <1>1, WorkerMoves

\* The steps of a worker that leave its row alone.
LEMMA WorkerGoes ==
  ASSUME RowInv, NEW t \in Tasks, NEW where \in RunPcs \cup RecoverPcs, Goto(t, where),
         row[t] = "running", UNCHANGED row,
         bound' = bound \/ bound' = [bound EXCEPT ![t] = instance],
         instance \in 0..MaxInstances, instance' = instance, announced' \subseteq Tasks,
         pc[t] # "none", UNCHANGED <<context, canceller, unwritten, restarts>>
  PROVE  RowInv'
<1>1. /\ row = [row EXCEPT ![t] = "running"] /\ context = [context EXCEPT ![t] = context[t]]
      /\ context[t] \in {"none", "live", "cancelled"} /\ context[t] # "none"
      /\ unwritten \subseteq Tasks
  BY DEF RowInv, TaskTypeOK, RowFits, Placed
<1>2. where \in Pcs /\ where \notin {"none", "job", "leave"}
  BY DEF Pcs, RunPcs, RecoverPcs
<1>3. Placed(where, "running", context[t], t \in unwritten)
  BY <1>1, <1>2 DEF Placed, TERMINAL
<1> QED
  BY <1>1, <1>2, <1>3, WorkerMoves DEF Goto, TERMINAL

-----------------------------------------------------------------------------
(* How often a command was started *)

\* Of a task that does not move itself: whatever the Runner does meanwhile, and
\* a Runner that still serves under the identity its client saw is the same.
LEMMA OtherIsOnce ==
  ASSUME RunnerInv, RunnerInv', NEW u \in Tasks, StartedOnce(u), Advances(u), bound[u] <= instance,
         TaskTypeOK, instance' \in Nat, instance <= instance', up' /\ instance' = instance => up,
         u \in collected' => u \in collected,
         pc'[u] = pc[u], bound'[u] = bound[u], row'[u] = "none" => row[u] = "none"
  PROVE  StartedOnce(u)'
<1>1. launches[u] \in Nat /\ instance \in Nat /\ bound[u] \in Nat
  BY RunnerAssumption DEF RunnerInv, RunnerTypeOK, TaskTypeOK, RunnerAssumption, Tasks
<1>2. SameRunner(u)' => SameRunner(u) /\ up'
  BY <1>1 DEF SameRunner
<1>3. launches'[u] <= 1 /\ (exec'[u] \in {"waiting", "launching"} => launches'[u] = 0)
  BY <1>1 DEF StartedOnce, Advances
<1>4. exec[u] = "absent" => exec'[u] = "absent" /\ launches'[u] = launches[u]
  BY DEF Advances
<1>5. pc'[u] = "submit2" /\ SameRunner(u)' /\ exec'[u] = "absent" => launches'[u] = 0
  BY <1>2, <1>4 DEF StartedOnce, Advances
<1> QED
  BY <1>3, <1>4, <1>5 DEF StartedOnce

\* Of a task whose client is past its submissions, or whose recovery is on its
\* way: the record there is runs once.
LEMMA LateIsOnce ==
  ASSUME RunnerInv, NEW t \in Tasks, StartedOnce(t), Advances(t),
         row'[t] # "none", pc'[t] \notin BeforeBackend \cup {"submit2"}
  PROVE  StartedOnce(t)'
<1>1. launches[t] \in Nat
  BY DEF RunnerInv, RunnerTypeOK, Tasks
<1> QED
  BY <1>1 DEF StartedOnce, Advances

\* A step of task t, given what it does to t.
LEMMA TaskMoves ==
  ASSUME TaskInv, NEW t \in Tasks, RunnerInv', RowInv',
         \A u \in Tasks \ {t} : Advances(u) /\ (u \in collected' => u \in collected),
         UNCHANGED <<up, instance>>,
         \A u \in Tasks \ {t} : pc'[u] = pc[u] /\ row'[u] = row[u] /\ bound'[u] = bound[u],
         t \notin Repeatable => StartedOnce(t)'
  PROVE  TaskInv'
<1>1. ASSUME NEW u \in Tasks \ Repeatable, u # t
      PROVE  StartedOnce(u)'
  <2>1. instance \in Nat
    BY RunnerAssumption DEF TaskInv, RunnerInv, RunnerTypeOK, RunnerAssumption
  <2> QED
    BY <1>1, <2>1, OtherIsOnce DEF TaskInv, RowInv
<1> QED
  BY <1>1 DEF TaskInv

\* A step of task t that leaves the Runner alone, other than into the second
\* submission: a client that can still reach a backend has not reached one.
LEMMA QuietMoves ==
  ASSUME TaskInv, NEW t \in Tasks, UNCHANGED runnerVars, RowInv',
         \A u \in Tasks \ {t} : pc'[u] = pc[u] /\ row'[u] = row[u] /\ bound'[u] = bound[u],
         pc'[t] # "submit2",
         \/ t \in Repeatable \/ row[t] = "none" \/ pc[t] \in BeforeBackend
         \/ row'[t] # "none" /\ pc'[t] \notin BeforeBackend
  PROVE  TaskInv'
<1>1. RunnerInv' /\ \A u \in Tasks : Advances(u)
  BY RunnerStutters DEF TaskInv, Tasks
<1>2. UNCHANGED <<up, instance, exec, launches, collected>>
  BY DEF runnerVars
<1>3. t \notin Repeatable => StartedOnce(t)'
  BY <1>2 DEF TaskInv, StartedOnce
<1> QED
  BY <1>1, <1>2, <1>3, TaskMoves

\* The steps of a task in which the Runner handles no request of it.
LEMMA QuietSteps ==
  ASSUME TaskInv, NEW t \in Tasks,
         \/ Submit(t) \/ TakeJob(t) \/ Check(t) \/ Announce(t) \/ Finish(t) \/ Leave(t)
         \/ FindRunner(t) \/ RunnerChanged(t) \/ PollDeadline(t) \/ Fallback(t)
         \/ LocalExit(t) \/ TakeRecovery(t) \/ RecoveryEnds(t) \/ FinishRecovery(t)
         \/ AskResult(t) \/ AskRecovered(t)
  PROVE  TaskInv'
<1>1. /\ instance \in 0..MaxInstances /\ RowInv /\ RowFits(t)
      /\ row \in [Tasks -> {"none", "queued", "running"} \cup TERMINAL] /\ pc \in [Tasks -> Pcs]
      /\ context \in [Tasks -> {"none", "live", "cancelled"}]
      /\ announced \subseteq Tasks /\ unwritten \subseteq Tasks
      /\ canceller \in Tasks \cup {NoTask} /\ bound \in [Tasks -> 0..MaxInstances]
      /\ NoTask \notin Tasks
      /\ row = [row EXCEPT ![t] = row[t]] /\ pc = [pc EXCEPT ![t] = pc[t]]
      /\ context = [context EXCEPT ![t] = context[t]]
  BY TaskAssumption DEF TaskInv, RunnerInv, RunnerTypeOK, RowInv, TaskTypeOK, TaskAssumption
<1>2. CASE Submit(t)
  <2>1. /\ UNCHANGED <<runnerVars, announced, bound, canceller, restarts>> /\ canceller = NoTask
        /\ row[t] = "none" /\ pc[t] = "none" /\ context[t] = "none"
    BY <1>1, <1>2 DEF Submit, Unlocked, RowFits, Placed
  <2>2. PICK status \in {"queued", "failed"}, ctx \in {"none", "live"}, where \in {"none", "job"} :
          /\ row' = [row EXCEPT ![t] = status] /\ context' = [context EXCEPT ![t] = ctx]
          /\ pc' = [pc EXCEPT ![t] = where]
          /\ unwritten' = unwritten \/ unwritten' = unwritten \cup {t}
          /\ where = "none" <=> ctx = "none"
          /\ where = "none" => status = "failed" \/ t \in unwritten'
          /\ where = "job" => status = "queued"
    <3>1. CASE /\ row' = [row EXCEPT ![t] = "queued"] /\ context' = [context EXCEPT ![t] = "live"]
               /\ Goto(t, "job") /\ UNCHANGED unwritten
      BY <3>1 DEF Goto
    <3>2. CASE row' = [row EXCEPT ![t] = "failed"] /\ UNCHANGED <<context, pc, unwritten>>
      BY <1>1, <2>1, <3>2
    <3>3. CASE /\ row' = [row EXCEPT ![t] = "queued"] /\ unwritten' = unwritten \cup {t}
               /\ UNCHANGED <<context, pc>>
      BY <1>1, <2>1, <3>3
    <3> QED
      BY <1>2, <3>1, <3>2, <3>3 DEF Submit
  <2>3. Placed(where, status, ctx, t \in unwritten') /\ where \in Pcs
    BY <2>2 DEF Placed, Pcs, RunPcs, RecoverPcs, TERMINAL
  <2>4. RowInv'
    <3>1. /\ status \in {"none", "queued", "running"} \cup TERMINAL
          /\ UNCHANGED <<instance, announced, bound, canceller, restarts>> /\ canceller # t
          /\ ctx \in {"none", "live", "cancelled"} /\ instance \in 0..MaxInstances /\ RowInv
          /\ pc' = [pc EXCEPT ![t] = where] /\ row' = [row EXCEPT ![t] = status]
          /\ context' = [context EXCEPT ![t] = ctx]
          /\ unwritten' = unwritten \/ unwritten' = unwritten \cup {t}
      BY <1>1, <2>1, <2>2 DEF runnerVars, TERMINAL
    <3> QED
      BY <2>3, <3>1, WorkerStays
  <2> QED
    BY <1>1, <2>1, <2>2, <2>4, QuietMoves
<1>3. CASE TakeJob(t)
  <2>1. /\ UNCHANGED <<runnerVars, announced, context, bound, canceller, unwritten, restarts>>
        /\ pc[t] = "job" /\ context[t] # "none" /\ row[t] \in {"queued", "cancelled"}
        /\ row[t] = "cancelled" => context[t] = "cancelled"
    BY <1>1, <1>3 DEF TakeJob, RowFits, Placed
  <2>2. PICK status \in {row[t], "running"}, where \in {"leave", "begin", "bad"} :
          /\ row' = [row EXCEPT ![t] = status] /\ pc' = [pc EXCEPT ![t] = where]
          /\ where = "leave" => status = row[t] /\ row[t] = "cancelled"
          /\ where = "begin" => status = "running"
          /\ where = "bad" => status = row[t]
    BY <1>1, <1>3, <2>1 DEF TakeJob, Goto
  <2>3. Placed(where, status, context[t], t \in unwritten') /\ where \in Pcs
    BY <2>1, <2>2 DEF Placed, Pcs, RunPcs, RecoverPcs, TERMINAL
  <2>4. RowInv'
    <3>1. /\ status \in {"none", "queued", "running"} \cup TERMINAL
          /\ UNCHANGED <<instance, announced, bound, canceller, unwritten, restarts>>
          /\ where # "none" /\ context' = [context EXCEPT ![t] = context[t]]
          /\ pc' = [pc EXCEPT ![t] = where] /\ row' = [row EXCEPT ![t] = status]
          /\ context[t] \in {"none", "live", "cancelled"} /\ instance \in 0..MaxInstances /\ RowInv
      BY <1>1, <2>1, <2>2 DEF runnerVars
    <3> QED
      BY <2>3, <3>1, WorkerStays
  <2> QED
    BY <1>1, <2>1, <2>2, <2>4, QuietMoves DEF BeforeBackend
<1>4. CASE \/ Check(t) \/ Announce(t) \/ FindRunner(t) \/ RunnerChanged(t) \/ PollDeadline(t)
           \/ Fallback(t) \/ LocalExit(t) \/ TakeRecovery(t) \/ RecoveryEnds(t)
           \/ AskResult(t) \/ AskRecovered(t)
  <2>1. /\ UNCHANGED <<runnerVars, row, context, canceller, unwritten, restarts>>
        /\ announced' \subseteq Tasks
        /\ bound' = bound \/ bound' = [bound EXCEPT ![t] = instance]
    BY <1>1, <1>4 DEF Check, Announce, FindRunner, RunnerChanged, PollDeadline, Fallback,
       LocalExit, TakeRecovery, RecoveryEnds, AskResult, AskRecovered, Stay
  <2>2. /\ pc[t] \in (RunPcs \ {"bad"}) \cup RecoverPcs \cup {"recoverJob"} /\ pc[t] # "none"
        /\ \E where \in (RunPcs \cup RecoverPcs) \ {"submit2"} :
             /\ Goto(t, where)
             /\ t \in Repeatable \/ pc[t] \in BeforeBackend \/ where \notin BeforeBackend
    BY <1>4 DEF Check, Announce, FindRunner, RunnerChanged, PollDeadline, Fallback,
       LocalExit, TakeRecovery, RecoveryEnds, AskResult, AskRecovered, RunPcs, RecoverPcs, BeforeBackend
  <2>3. PICK where \in (RunPcs \cup RecoverPcs) \ {"submit2"} :
             /\ Goto(t, where)
             /\ t \in Repeatable \/ pc[t] \in BeforeBackend \/ where \notin BeforeBackend
    BY <2>2
  <2>4. row[t] = "running"
    BY <1>1, <2>2 DEF RowFits, Placed
  <2>5. RowInv'
    BY <1>1, <2>1, <2>2, <2>3, <2>4, WorkerGoes DEF runnerVars
  <2> QED
    BY <1>1, <2>1, <2>3, <2>4, <2>5, QuietMoves DEF Goto
<1>5. CASE Finish(t) \/ FinishRecovery(t)
  <2>1. /\ UNCHANGED <<runnerVars, announced, context, bound, canceller, restarts>>
        /\ pc[t] \in {"ok", "bad", "recovered", "recoverBad"}
    BY <1>5 DEF Finish, FinishRecovery
  <2>2. context[t] # "none" /\ row[t] # "none"
    BY <1>1, <2>1 DEF RowFits, Placed
  <2>3. PICK status \in TERMINAL, where \in {"bad", "recoverBad"} :
          /\ Closing(t, status, where)
          /\ where = "bad" <=> pc[t] \in {"ok", "bad"}
    BY <1>5 DEF Finish, FinishRecovery, Verdict, TERMINAL
  <2>4. CASE row' = [row EXCEPT ![t] = status] /\ Goto(t, "leave") /\ UNCHANGED unwritten
    <3>1. Placed("leave", status, context[t], t \in unwritten') /\ "leave" \in Pcs
      BY <2>2 DEF Placed, Pcs, RunPcs, RecoverPcs, TERMINAL
    <3>2. RowInv'
      <4>1. /\ status \in {"none", "queued", "running"} \cup TERMINAL
            /\ UNCHANGED <<instance, announced, bound, canceller, unwritten, restarts>>
            /\ context' = [context EXCEPT ![t] = context[t]]
            /\ context[t] \in {"none", "live", "cancelled"}
            /\ pc' = [pc EXCEPT ![t] = "leave"] /\ row' = [row EXCEPT ![t] = status]
            /\ instance \in 0..MaxInstances /\ RowInv
        BY <1>1, <2>1, <2>4 DEF Goto, runnerVars
      <4> QED
        BY <3>1, <4>1, WorkerStays
    <3> QED
      BY <1>1, <2>1, <2>4, <3>2, QuietMoves DEF Goto, BeforeBackend, TERMINAL
  <2>5. CASE pc[t] # where /\ Goto(t, where) /\ UNCHANGED <<row, unwritten>>
    <3>1. row[t] = "running"
      BY <1>1, <2>1, <2>3, <2>5 DEF RowFits, Placed, RunPcs, RecoverPcs
    <3>2. RowInv'
      BY <1>1, <2>1, <2>5, <3>1, WorkerGoes DEF runnerVars, RunPcs, RecoverPcs
    <3> QED
      BY <1>1, <2>1, <2>2, <2>5, <3>2, QuietMoves DEF Goto, BeforeBackend
  <2>6. CASE Goto(t, "leave") /\ unwritten' = unwritten \cup {t} /\ UNCHANGED row
    <3>1. Placed("leave", row[t], context[t], t \in unwritten') /\ "leave" \in Pcs
      BY <2>2, <2>6 DEF Placed, Pcs, RunPcs, RecoverPcs, TERMINAL
    <3>2. RowInv'
      <4>1. /\ UNCHANGED <<instance, announced, bound, canceller, restarts>>
            /\ context' = [context EXCEPT ![t] = context[t]] /\ row' = [row EXCEPT ![t] = row[t]]
            /\ context[t] \in {"none", "live", "cancelled"}
            /\ row[t] \in {"none", "queued", "running"} \cup TERMINAL
            /\ pc' = [pc EXCEPT ![t] = "leave"] /\ instance \in 0..MaxInstances /\ RowInv
            /\ unwritten' = unwritten \cup {t}
        BY <1>1, <2>1, <2>6 DEF Goto, runnerVars
      <4> QED
        BY <3>1, <4>1, WorkerStays
    <3> QED
      BY <1>1, <2>1, <2>2, <2>6, <3>2, QuietMoves DEF Goto, BeforeBackend
  <2> QED
    BY <2>3, <2>4, <2>5, <2>6 DEF Closing
<1>6. CASE Leave(t)
  <2>1. /\ UNCHANGED <<runnerVars, row, announced, canceller, unwritten, restarts>>
        /\ canceller = NoTask /\ pc[t] = "leave"
        /\ context' = [context EXCEPT ![t] = "none"] /\ bound' = [bound EXCEPT ![t] = 0]
        /\ pc' = [pc EXCEPT ![t] = "none"]
    BY <1>6 DEF Leave, Unlocked, Goto
  <2>2. row[t] # "none" /\ Placed("none", row[t], "none", t \in unwritten') /\ "none" \in Pcs
    BY <1>1, <2>1 DEF RowFits, Placed, Pcs, RunPcs, RecoverPcs
  <2>3. RowInv'
    BY <1>1, <2>1, <2>2, WorkerMoves DEF runnerVars
  <2> QED
    BY <1>1, <2>1, <2>2, <2>3, QuietMoves DEF BeforeBackend
<1> QED
  BY <1>2, <1>3, <1>4, <1>5, <1>6

\* A lost acknowledgement: the second submission finds the record of the first
\* or the first was never handled.
LEMMA SubmitToRunnerKeeps ==
  ASSUME TaskInv, NEW t \in Tasks, SubmitToRunner(t)
  PROVE  TaskInv'
<1>1. /\ RunnerInv /\ RowInv /\ RowFits(t) /\ instance \in 0..MaxInstances
      /\ pc \in [Tasks -> Pcs] /\ announced \subseteq Tasks
      /\ pc[t] \in {"submit1", "submit2"} /\ SameRunner(t) /\ UNCHANGED row /\ Stay
  BY DEF TaskInv, RunnerInv, RunnerTypeOK, RowInv, TaskTypeOK, SubmitToRunner
<1>2. row[t] = "running" /\ pc[t] # "none"
  BY <1>1 DEF RowFits, Placed, RunPcs
<1>3. PICK where \in {"submit2", "indeterminate", "poll", "ok", "bad"} :
        /\ Goto(t, where)
        /\ where = "submit2" => pc[t] = "submit1"
        /\ UNCHANGED runnerVars \/ \E reply \in Replies : HandleSubmit(t, reply)
  BY <1>1 DEF SubmitToRunner, AfterSubmit
<1> DEFINE Handled ==
             /\ RunnerInv' /\ UNCHANGED <<up, instance, launches>>
             /\ \A x \in Requests \ {t} : Advances(x) /\ (x \in collected' => x \in collected)
             /\ \/ Advances(t)
                \/ exec[t] = "absent" /\ exec'[t] = "waiting"
             /\ exec[t] = "absent" => t \notin collected'
<1>4. Handled
  <2>1. CASE UNCHANGED runnerVars
    <3>1. exec[t] = "absent" => t \notin collected'
      BY <1>1, <2>1 DEF RunnerInv, LedgerOK, runnerVars
    <3> QED
      BY <1>1, <2>1, <3>1, RunnerStutters DEF runnerVars, Tasks
  <2>2. ASSUME NEW reply \in Replies, HandleSubmit(t, reply)
        PROVE  Handled
    BY <1>1, <2>2, SubmitKeeps DEF Tasks
  <2> QED
    BY <1>3, <2>1, <2>2
<1>5. RowInv'
  BY <1>1, <1>2, <1>3, <1>4, WorkerGoes DEF Stay, RunPcs, RecoverPcs
<1>6. ASSUME t \notin Repeatable
      PROVE  StartedOnce(t)'
  <2>1. StartedOnce(t) /\ launches'[t] = launches[t] /\ launches[t] \in Nat
    BY <1>1, <1>4, <1>6 DEF TaskInv, RunnerInv, RunnerTypeOK, Tasks
  <2>2. row'[t] = "running" /\ pc'[t] = where
    BY <1>1, <1>2, <1>3 DEF Goto
  <2>3. CASE where = "submit2"
    <3>1. launches[t] = 0 /\ exec[t] = "absent"
      BY <1>3, <2>1, <2>3 DEF StartedOnce, BeforeBackend
    <3> QED
      BY <1>4, <2>1, <2>2, <2>3, <3>1 DEF StartedOnce, BeforeBackend
  <2>4. CASE where # "submit2" /\ Advances(t)
    BY <1>1, <2>1, <2>2, <2>4, LateIsOnce DEF BeforeBackend
  <2>5. CASE where # "submit2" /\ exec[t] = "absent" /\ exec'[t] = "waiting"
    <3>1. launches[t] = 0
      BY <1>1, <2>1, <2>5 DEF StartedOnce, BeforeBackend
    <3> QED
      BY <1>3, <2>1, <2>2, <2>5, <3>1 DEF StartedOnce, BeforeBackend
  <2> QED
    BY <1>3, <1>4, <2>3, <2>4, <2>5
<1> QED
  BY <1>1, <1>3, <1>4, <1>5, <1>6, TaskMoves DEF Goto, Stay, Tasks

LEMMA RunLocallyKeeps ==
  ASSUME TaskInv, NEW t \in Tasks, RunLocally(t)
  PROVE  TaskInv'
<1>1. /\ RunnerInv /\ RowInv /\ RowFits(t) /\ instance \in 0..MaxInstances
      /\ launches \in [Requests -> Nat] /\ pc \in [Tasks -> Pcs] /\ announced \subseteq Tasks
      /\ pc[t] = "local" /\ Stay
      /\ UNCHANGED <<up, mute, instance, ledger, exec, answer, collected, cancelAsked, live, row>>
  BY DEF TaskInv, RunnerInv, RunnerTypeOK, RowInv, TaskTypeOK, RunLocally
<1>2. PICK where \in {"bad", "localRunning"} :
        /\ Goto(t, where)
        /\ launches' = launches \/ launches' = [launches EXCEPT ![t] = @ + 1]
  BY DEF RunLocally
<1>3. launches' \in [Requests -> Nat]
  BY <1>1, <1>2
<1>4. RunnerInv'
  <2>1. RunnerTypeOK'
    BY <1>1, <1>3, SameTypes DEF RunnerInv, RunnerTypes
  <2> QED
    BY <1>1, <2>1 DEF RunnerInv, LedgerOK
<1>5. RowInv'
  <2>1. row[t] = "running" /\ pc[t] # "none"
    BY <1>1 DEF RowFits, Placed, RunPcs
  <2> QED
    BY <1>1, <1>2, <2>1, WorkerGoes DEF Stay, RunPcs
<1>6. ASSUME NEW u \in Tasks \ {t}
      PROVE  Advances(u) /\ (u \in collected' => u \in collected)
  <2>1. launches'[u] = launches[u]
    BY <1>1, <1>2 DEF Tasks
  <2> QED
    BY <1>1, <2>1 DEF Advances
<1>7. t \notin Repeatable => StartedOnce(t)'
  <2>1. launches[t] \in Nat /\ (launches'[t] = launches[t] \/ launches'[t] = launches[t] + 1)
    BY <1>1, <1>2 DEF Tasks
  <2>2. pc'[t] = where /\ row'[t] = row[t] /\ row[t] # "none"
    BY <1>1, <1>2 DEF Goto, RowFits, Placed
  <2> QED
    BY <1>1, <2>1, <2>2 DEF TaskInv, StartedOnce, BeforeBackend
<1> QED
  BY <1>1, <1>2, <1>4, <1>5, <1>6, <1>7, TaskMoves DEF Goto, Stay

LEMMA PollKeeps ==
  ASSUME TaskInv, NEW t \in Tasks, Poll(t) \/ RecoveryPoll(t)
  PROVE  TaskInv'
<1>1. /\ RunnerInv /\ RowInv /\ RowFits(t) /\ instance \in 0..MaxInstances
      /\ pc \in [Tasks -> Pcs] /\ announced \subseteq Tasks
      /\ pc[t] \in {"asked", "recoverAsked"} /\ UNCHANGED row /\ Stay
  BY DEF TaskInv, RunnerInv, RunnerTypeOK, RowInv, TaskTypeOK, Poll, RecoveryPoll
<1>2. PICK where \in {"poll", "ok", "bad", "indeterminate", "recover", "recovered", "recoverBad"} :
        /\ Goto(t, where)
        /\ UNCHANGED runnerVars \/ \E reply \in Replies : HandleResult(t, reply)
  BY DEF Poll, RecoveryPoll, AfterPoll, AfterRecoveryPoll
<1>3. /\ RunnerInv' /\ UNCHANGED <<up, instance, launches>>
      /\ \A x \in Requests : Advances(x)
      /\ \A x \in Requests \ {t} : x \in collected' => x \in collected
  BY <1>1, <1>2, RunnerStutters, ResultKeeps DEF runnerVars, Tasks
<1>4. row[t] = "running" /\ pc[t] # "none"
  BY <1>1 DEF RowFits, Placed, RunPcs, RecoverPcs
<1>5. RowInv'
  BY <1>1, <1>2, <1>3, <1>4, WorkerGoes DEF Stay, RunPcs, RecoverPcs
<1>6. t \notin Repeatable => StartedOnce(t)'
  <2>1. pc'[t] = where /\ row'[t] = "running"
    BY <1>1, <1>2, <1>4 DEF Goto
  <2> QED
    BY <1>1, <1>2, <1>3, <2>1, LateIsOnce DEF TaskInv, BeforeBackend, Tasks
<1> QED
  BY <1>1, <1>2, <1>3, <1>5, <1>6, TaskMoves DEF Goto, Stay, Tasks

\* A request that fails: the client that got no answer to its submission
\* submits again, and until then its task was started nowhere.
LEMMA RequestLostKeeps ==
  ASSUME TaskInv, NEW t \in Tasks, RequestLost(t)
  PROVE  TaskInv'
<1>1. /\ RunnerInv /\ RowInv /\ RowFits(t) /\ instance \in 0..MaxInstances
      /\ pc \in [Tasks -> Pcs] /\ announced \subseteq Tasks
      /\ UNCHANGED <<runnerVars, row>> /\ Stay
  BY DEF TaskInv, RunnerInv, RunnerTypeOK, RowInv, TaskTypeOK, RequestLost
<1>2. PICK where \in {"local", "submit2", "indeterminate", "poll", "recoverBad"} :
        /\ Goto(t, where)
        /\ where = "local" => pc[t] = "ready"
        /\ where = "submit2" => pc[t] = "submit1"
        /\ pc[t] \in {"ready", "submit1", "submit2", "asked", "recoverAsked"}
  BY DEF RequestLost
<1>3. row[t] = "running" /\ pc[t] # "none"
  BY <1>1, <1>2 DEF RowFits, Placed, RunPcs, RecoverPcs
<1>4. RowInv'
  BY <1>1, <1>2, <1>3, WorkerGoes DEF Stay, RunPcs, RecoverPcs, runnerVars
<1>5. RunnerInv' /\ \A u \in Tasks : Advances(u)
  BY <1>1, RunnerStutters DEF Tasks
<1>6. t \notin Repeatable => StartedOnce(t)'
  <2>1. pc'[t] = where /\ row'[t] # "none" /\ UNCHANGED <<exec, launches, collected>>
    BY <1>1, <1>2, <1>3 DEF Goto, runnerVars
  <2>2. exec[t] = "absent" => t \notin collected
    BY <1>1 DEF RunnerInv, LedgerOK
  <2> QED
    BY <1>2, <2>1, <2>2 DEF TaskInv, StartedOnce, BeforeBackend
<1> QED
  BY <1>1, <1>2, <1>4, <1>5, <1>6, TaskMoves DEF Goto, Stay, runnerVars

\* Whatever the Runner was asked: a context is signalled, or not, and a queued
\* row closed, or not.
LEMMA SignalKeeps ==
  ASSUME TaskInv, NEW t \in Tasks, pc[t] # "none", Signal(t), HandleCancel(t) \/ UNCHANGED runnerVars
  PROVE  TaskInv'
<1>1. /\ RunnerInv /\ RowInv /\ RowFits(t) /\ instance \in 0..MaxInstances
      /\ row \in [Tasks -> {"none", "queued", "running"} \cup TERMINAL] /\ pc \in [Tasks -> Pcs]
      /\ context \in [Tasks -> {"none", "live", "cancelled"}]
      /\ announced \subseteq Tasks /\ unwritten \subseteq Tasks
      /\ UNCHANGED <<announced, pc, bound, unwritten, restarts>> /\ canceller' = NoTask
  BY DEF TaskInv, RunnerInv, RunnerTypeOK, RowInv, TaskTypeOK, Signal
<1>2. /\ RunnerInv' /\ UNCHANGED <<up, instance, launches, collected>>
      /\ \A x \in Requests : Advances(x)
  BY <1>1, CancelKeeps, RunnerStutters DEF runnerVars, Tasks
<1>3. PICK status \in {row[t], "cancelled"}, ctx \in {context[t], "cancelled"} :
        /\ row' = [row EXCEPT ![t] = status] /\ context' = [context EXCEPT ![t] = ctx]
        /\ status # row[t] => row[t] = "queued" /\ ctx = "cancelled"
  <2>1. row = [row EXCEPT ![t] = row[t]] /\ context = [context EXCEPT ![t] = context[t]]
    BY <1>1
  <2>2. CASE UNCHANGED <<context, row>>
    BY <2>1, <2>2
  <2>3. CASE context' = [context EXCEPT ![t] = "cancelled"] /\ UNCHANGED row
    BY <2>1, <2>3
  <2>4. CASE /\ context' = [context EXCEPT ![t] = "cancelled"]
             /\ row' = [row EXCEPT ![t] = IF @ = "queued" THEN "cancelled" ELSE @]
    <3>1. CASE row[t] = "queued"
      BY <2>4, <3>1
    <3>2. CASE row[t] # "queued"
      BY <2>1, <2>4, <3>2
    <3> QED
      BY <3>1, <3>2
  <2> QED
    BY <2>2, <2>3, <2>4 DEF Signal
<1>4. RowInv'
  <2>1. Placed(pc[t], status, ctx, t \in unwritten)
    BY <1>1, <1>3 DEF RowFits, Placed, TERMINAL, RunPcs, RecoverPcs
  <2>2. /\ pc[t] \in Pcs /\ pc' = [pc EXCEPT ![t] = pc[t]]
        /\ status \in {"none", "queued", "running"} \cup TERMINAL
        /\ ctx \in {"none", "live", "cancelled"}
    BY <1>1, <1>3 DEF TERMINAL
  <2> QED
    BY <1>1, <1>2, <1>3, <2>1, <2>2, WorkerMoves
<1>5. t \notin Repeatable => StartedOnce(t)'
  <2>1. row'[t] = "none" => row[t] = "none"
    BY <1>1, <1>3
  <2> QED
    BY <1>1, <1>2, <2>1, OtherIsOnce, RunnerAssumption
    DEF TaskInv, RowInv, RunnerAssumption, Tasks
<1> QED
  BY <1>1, <1>2, <1>3, <1>4, <1>5, TaskMoves DEF Tasks

LEMMA CancellingKeeps ==
  ASSUME TaskInv, NEW t \in Tasks, Cancelling(t)
  PROVE  TaskInv'
<1>1. /\ RowInv /\ RowFits(t) /\ NoTask \notin Tasks /\ instance \in 0..MaxInstances
      /\ TaskTypeOK
  BY TaskAssumption DEF TaskInv, RunnerInv, RunnerTypeOK, RowInv, TaskAssumption
<1>2. CASE /\ canceller' = t /\ Cancellable(t)
           /\ UNCHANGED <<runnerVars, row, announced, context, pc, bound, unwritten, restarts>>
  <2>1. pc[t] # "none"
    BY <1>1, <1>2 DEF Cancellable, RowFits, Placed
  <2>2. RunnerInv'
    BY <1>2, RunnerStutters DEF TaskInv
  <2>3. RowInv'
    BY <1>1, <1>2, <2>1 DEF RowInv, TaskTypeOK, RowFits, Placed, runnerVars
  <2>4. \A u \in Tasks \ Repeatable : StartedOnce(u)'
    BY <1>2 DEF TaskInv, StartedOnce, SameRunner, runnerVars
  <2> QED
    BY <2>2, <2>3, <2>4 DEF TaskInv
<1>3. CASE Signal(t) /\ Cancellable(t) /\ UNCHANGED runnerVars
  <2>1. pc[t] # "none"
    BY <1>1, <1>3 DEF Cancellable, RowFits, Placed
  <2> QED
    BY <1>3, <2>1, SignalKeeps
<1>4. CASE Signal(t) /\ canceller = t /\ (HandleCancel(t) \/ UNCHANGED runnerVars)
  <2>1. pc[t] # "none"
    BY <1>1, <1>4 DEF RowFits
  <2> QED
    BY <1>4, <2>1, SignalKeeps
<1> QED
  BY <1>2, <1>3, <1>4 DEF Cancelling, Cancel, CancelDeliver, CancelLost

LEMMA RestartKeeps ==
  ASSUME TaskInv, Restart
  PROVE  TaskInv'
<1>1. RunnerInv /\ RowInv /\ RunnerInv' /\ UNCHANGED runnerVars
  BY RunnerStutters DEF TaskInv, Restart
<1>2. TaskTypeOK'
  BY TaskAssumption, RunnerAssumption DEF TaskInv, RunnerInv, RunnerTypeOK, RowInv, TaskTypeOK,
     Restart, TaskAssumption, RunnerAssumption, TERMINAL, Pcs, runnerVars
<1>3. ASSUME NEW u \in Tasks
      PROVE  /\ RowFits(u)' /\ bound'[u] = 0 /\ pc'[u] \in {"recoverJob", "none"}
             /\ row'[u] = "none" => row[u] = "none"
  <2>1. row[u] \in {"none", "queued", "running"} \cup TERMINAL /\ canceller' # u
    BY TaskAssumption DEF TaskInv, RowInv, TaskTypeOK, Restart, TaskAssumption
  <2>2. /\ row'[u] = IF row[u] \in {"queued", "running"} /\ ~Recoverable(u) THEN "failed" ELSE row[u]
        /\ context'[u] = IF Recoverable(u) THEN "live" ELSE "none"
        /\ pc'[u] = IF Recoverable(u) THEN "recoverJob" ELSE "none"
        /\ bound'[u] = 0
    BY DEF Restart
  <2>3. CASE Recoverable(u)
    BY <2>1, <2>2, <2>3 DEF Recoverable, RowFits, Placed, TERMINAL, RunPcs, RecoverPcs
  <2>4. CASE ~Recoverable(u)
    BY <2>1, <2>2, <2>4 DEF RowFits, Placed, TERMINAL, RunPcs, RecoverPcs
  <2> QED
    BY <2>3, <2>4
<1>4. instance' \in Nat
  BY <1>1, RunnerAssumption DEF RunnerInv, RunnerTypeOK, RunnerAssumption, runnerVars
<1>5. \A u \in Tasks \ Repeatable : StartedOnce(u)'
  BY <1>1, <1>3 DEF TaskInv, StartedOnce, BeforeBackend, runnerVars
<1> QED
  BY <1>1, <1>2, <1>3, <1>4, <1>5 DEF TaskInv, RowInv

LEMMA TaskInvKept == TaskInv /\ [Next]_allVars => TaskInv'
<1> SUFFICES ASSUME TaskInv, [Next]_allVars
             PROVE  TaskInv'
  OBVIOUS
<1>1. ASSUME NEW t \in Tasks, Work(t)
      PROVE  TaskInv'
  BY <1>1, QuietSteps, SubmitToRunnerKeeps, RunLocallyKeeps DEF Work
<1>2. ASSUME NEW t \in Tasks, Submit(t) \/ Cancelling(t) \/ Exchange(t) \/ RequestLost(t)
      PROVE  TaskInv'
  BY <1>2, QuietSteps, CancellingKeeps, PollKeeps, RequestLostKeeps DEF Exchange
<1>3. CASE RunnerStep /\ UNCHANGED taskVars
  <2>1. /\ RunnerInv' /\ instance' \in Nat /\ instance \in Nat /\ instance <= instance'
        /\ up' /\ instance' = instance => up
        /\ collected' \subseteq collected /\ \A x \in Requests : Advances(x)
    BY <1>3, StepKeeps, RunnerAssumption DEF TaskInv, RunnerInv, RunnerTypeOK, RunnerAssumption
  <2>2. RowInv'
    BY <1>3, <2>1 DEF TaskInv, RowInv, TaskTypeOK, RowFits, Placed, taskVars
  <2>3. \A u \in Tasks \ Repeatable : StartedOnce(u)'
    BY <1>3, <2>1, OtherIsOnce DEF TaskInv, RowInv, taskVars, Tasks
  <2> QED
    BY <2>1, <2>2, <2>3 DEF TaskInv
<1>4. CASE UNCHANGED allVars
  <2>1. RunnerInv' /\ UNCHANGED <<runnerVars, taskVars>>
    BY <1>4, RunnerStutters DEF TaskInv, allVars
  <2>2. RowInv'
    BY <2>1 DEF TaskInv, RowInv, TaskTypeOK, RowFits, Placed, taskVars, runnerVars
  <2>3. \A u \in Tasks \ Repeatable : StartedOnce(u)'
    BY <2>1 DEF TaskInv, StartedOnce, SameRunner, taskVars, runnerVars
  <2> QED
    BY <2>1, <2>2, <2>3 DEF TaskInv
<1> QED
  BY <1>1, <1>2, <1>3, <1>4, RestartKeeps DEF Next

LEMMA TaskInvInit == Init => TaskInv
<1> SUFFICES ASSUME Init
             PROVE  TaskInv
  OBVIOUS
<1>1. RunnerTypeOK
  <2>1. Members(<<>>) = {} /\ Distinct(<<>>) /\ <<>> \in Seq(Requests)
    BY DEF Members, Distinct
  <2>2. /\ up \in BOOLEAN /\ mute \in BOOLEAN /\ (mute => up)
    BY DEF Init, RunnerInit
  <2>3. instance \in 0..MaxInstances
    BY RunnerAssumption DEF Init, RunnerInit, RunnerAssumption
  <2>4. /\ ledger \in Seq(Requests) /\ Distinct(ledger)
        /\ exec \in [Requests -> Stages] /\ answer \in [Requests -> Answers]
        /\ Members(ledger) = {r \in Requests : exec[r] # "absent"}
        /\ collected \subseteq Requests /\ cancelAsked \subseteq Requests
        /\ live \subseteq Requests /\ launches \in [Requests -> Nat]
    BY <2>1 DEF Init, RunnerInit, Stages, Answers
  <2> QED
    BY <2>2, <2>3, <2>4, SameTypes DEF RunnerTypes
<1>2. LedgerOK
  BY DEF Init, RunnerInit, LedgerOK
<1>3. RowInv
  BY RunnerAssumption, TaskAssumption DEF Init, RunnerInit, RowInv, TaskTypeOK, RowFits, Placed, Pcs,
     RunPcs, RecoverPcs, TERMINAL, RunnerAssumption, TaskAssumption
<1>4. \A t \in Tasks \ Repeatable : StartedOnce(t)
  BY DEF Init, RunnerInit, StartedOnce, Tasks
<1> QED
  BY <1>1, <1>2, <1>3, <1>4 DEF TaskInv, RunnerInv

LEMMA TaskInvHolds == Spec => []TaskInv
  BY TaskInvInit, TaskInvKept, PTL DEF Spec

-----------------------------------------------------------------------------
(* Every variable of the Runner and of the tasks keeps its type, and the     *)
(* ledger of execution_runner_service.py holds exactly the records that are  *)
(* there, each once.                                                         *)
THEOREM TaskTypeCorrect == Spec => []TypeOK
<1>1. TaskInv => TypeOK
  BY DEF TaskInv, RunnerInv, RowInv, TaskTypeOK, TypeOK
<1> QED
  BY <1>1, TaskInvHolds, PTL

(* A command that is not repeatable is started at most once by Runner and    *)
(* fallback together, through lost acknowledgements, the retry of            *)
(* run_production_oneshot, prunings of the ledger, and restarts of the       *)
(* Runner and of the server.                                                 *)
THEOREM CommandStartedOnce == Spec => []AtMostOnce
<1>1. TaskInv => AtMostOnce
  BY DEF TaskInv, StartedOnce, AtMostOnce
<1> QED
  BY <1>1, TaskInvHolds, PTL

(* Only a last record the database refused leaves an open row without a      *)
(* context: any other open task cancel() reaches, and after a restart all.   *)
THEOREM OpenTaskOwned == Spec => []OpenTasksAreOwned
<1>1. TaskInv => OpenTasksAreOwned
  BY DEF TaskInv, RowInv, RowFits, Placed, OpenTasksAreOwned, TERMINAL
<1> QED
  BY <1>1, TaskInvHolds, PTL

(* No late worker, cancellation or recovery rewrites a terminal record.      *)
THEOREM TerminalStays == Spec => TerminalIsFinal
<1>1. ASSUME TaskInv, [Next]_allVars, NEW t \in Tasks, row[t] \in TERMINAL
      PROVE  row'[t] = row[t]
  <2>1. /\ RowFits(t) /\ row \in [Tasks -> {"none", "queued", "running"} \cup TERMINAL]
    BY <1>1 DEF TaskInv, RowInv, TaskTypeOK
  <2>2. ASSUME NEW u \in Tasks, Submit(u) \/ Cancelling(u) \/ Exchange(u) \/ RequestLost(u)
        PROVE  row'[t] = row[t]
    BY <1>1, <2>1, <2>2 DEF TERMINAL, Submit, Cancelling, Cancel, CancelDeliver, CancelLost, Signal,
       Exchange, AskResult, Poll, AskRecovered, RecoveryPoll, RequestLost
  <2>3. ASSUME NEW u \in Tasks, Work(u)
        PROVE  row'[t] = row[t]
    <3>1. CASE Finish(u) \/ FinishRecovery(u)
      <4>1. pc[t] # "bad" => t # u \/ UNCHANGED row
        BY <1>1, <2>1, <3>1 DEF TERMINAL, RowFits, Placed, RunPcs, RecoverPcs, Finish, FinishRecovery
      <4>2. pc[t] = "bad" /\ t = u => Finish(t) /\ row[t] = "cancelled" /\ context[t] = "cancelled"
        BY <1>1, <2>1, <3>1 DEF TERMINAL, RowFits, Placed, FinishRecovery
      <4> QED
        BY <1>1, <2>1, <3>1, <4>1, <4>2 DEF Finish, FinishRecovery, Closing, Verdict
    <3>2. CASE ~(Finish(u) \/ FinishRecovery(u))
      BY <1>1, <2>1, <2>3, <3>2 DEF TERMINAL, Work, TakeJob, Check, Announce, Leave, FindRunner,
         SubmitToRunner, RunnerChanged, PollDeadline, Fallback, RunLocally, LocalExit,
         TakeRecovery, RecoveryEnds
    <3> QED
      BY <3>1, <3>2
  <2>4. Restart => row'[t] = row[t]
    BY <1>1, <2>1 DEF Restart, Recoverable, TERMINAL
  <2> QED
    BY <1>1, <2>2, <2>3, <2>4 DEF Next, allVars, taskVars
<1>2. TaskInv /\ [Next]_allVars =>
        [\A t \in Tasks : row[t] \in TERMINAL => row'[t] = row[t]]_allVars
  BY <1>1
<1> QED
  BY <1>2, TaskInvHolds, PTL DEF Spec, TerminalIsFinal

(* The Runner lets no child run on whose cancellation it took, and forgets   *)
(* no record whose result was not read.                                      *)
THEOREM RunnerWord == Spec => RunnerKeepsItsWord
<1>1. TaskInv => live \cap cancelAsked = {}
  BY DEF TaskInv, RunnerInv, LedgerOK
<1>2. ASSUME TaskInv, [Next]_allVars, up, up', NEW r \in Records, r \notin collected
      PROVE  exec'[r] # "absent"
  <2>1. RunnerInv /\ r \in Requests /\ exec[r] # "absent"
    BY <1>2 DEF TaskInv, RunnerInv, RunnerTypeOK
  <2>2. Advances(r) => exec'[r] # "absent"
    BY <1>2, <2>1 DEF Advances
  <2>3. ASSUME NEW t \in Tasks, NEW reply, HandleSubmit(t, reply)
        PROVE  exec'[r] # "absent"
    BY <2>1, <2>2, <2>3, SubmitKeeps DEF Tasks
  <2>4. ASSUME NEW t \in Tasks, NEW reply, HandleResult(t, reply)
        PROVE  exec'[r] # "absent"
    BY <2>1, <2>2, <2>4, ResultKeeps DEF Tasks
  <2>5. UNCHANGED exec => exec'[r] # "absent"
    BY <2>1
  <2>6. RunnerStep => exec'[r] # "absent"
    BY <2>1, <2>2, StepKeeps
  <2>7. ASSUME NEW t \in Tasks, Work(t)
        PROVE  (\E reply : HandleSubmit(t, reply)) \/ UNCHANGED exec
    BY <2>7 DEF Work, runnerVars, TakeJob, Check, Announce, Finish, Leave, FindRunner,
       SubmitToRunner, RunnerChanged, PollDeadline, Fallback, RunLocally, LocalExit, TakeRecovery,
       RecoveryEnds, FinishRecovery
  <2>8. ASSUME NEW t \in Tasks, Submit(t) \/ Cancelling(t) \/ Exchange(t) \/ RequestLost(t)
        PROVE  (\E reply : HandleResult(t, reply)) \/ UNCHANGED exec
    BY <2>8 DEF Submit, Cancelling, Cancel, CancelDeliver, CancelLost, HandleCancel, Exchange,
       AskResult, Poll, AskRecovered, RecoveryPoll, RequestLost, runnerVars
  <2>9. Restart \/ UNCHANGED allVars => UNCHANGED exec
    BY DEF Restart, allVars, runnerVars
  <2> QED
    BY <1>2, <2>3, <2>4, <2>5, <2>6, <2>7, <2>8, <2>9 DEF Next
<1>3. TaskInv /\ [Next]_allVars =>
        [up /\ up' => \A r \in Records : r \notin collected => exec'[r] # "absent"]_runnerVars
  BY <1>2
<1> QED
  BY <1>1, <1>3, TaskInvHolds, PTL DEF Spec, RunnerKeepsItsWord
====
