------------------------- MODULE FlowExecutorProofs -------------------------
(***************************************************************************)
(* Proofs, for every flow and every set of scripts, that no script's output*)
(* is lost, that the context outlives the threads that use it, and that a  *)
(* flow without threads stops at the first failure and reports it.         *)
(***************************************************************************)
EXTENDS FlowExecutor, FiniteSetTheorems, SequenceTheorems, TLAPS

(* A step of an execution is one of a script in progress, while main() is
   alive; it moves that execution only, and never back to its start. *)
LEMMA ExecuteFacts ==
  ASSUME TypeOK, NEW i \in Nodes, Execute(i)
  PROVE  /\ Alive /\ step[i] \notin {"idle", "done"} /\ UNCHANGED main
         /\ \E l \in Steps \ {"idle", "begin"} : step' = [step EXCEPT ![i] = l]
<1>1. Alive /\ step[i] \notin {"idle", "done"}
  BY DEF Execute, DagExecute, Begin, GeneratePath, TryOpen, TryAccess, TryPopen, ReadLine,
         Lock, Store, Pclose, Throw, Abandon, SetFlag, BeginMessage, EndMessage, SetExecStatus, Return, At,
         Outside
<1>2. UNCHANGED main
  BY DEF Execute, DagExecute, Begin, GeneratePath, TryOpen, TryAccess, TryPopen, ReadLine,
         Lock, Store, Pclose, Throw, Abandon, SetFlag, BeginMessage, EndMessage, SetExecStatus, Return
<1>3. \E l \in Steps \ {"idle", "begin"} : step' = [step EXCEPT ![i] = l]
  BY DEF Execute, DagExecute, Begin, GeneratePath, TryOpen, TryAccess, TryPopen, ReadLine,
         Lock, Store, Pclose, Throw, Abandon, SetFlag, BeginMessage, EndMessage, SetExecStatus, Return,
         Goto, Report, Steps
<1> QED
  BY <1>1, <1>2, <1>3

(* Where a step neither touches the output nor enters or leaves the critical
   section, the mutex and the output stay right. *)
LEMMA OutputFrame ==
  ASSUME MutexInv, OutputComplete, UNCHANGED <<copy, output, mutex, emitted>>,
         \A i \in Nodes : step'[i] = "store" <=> step[i] = "store"
  PROVE  MutexInv' /\ OutputComplete'
BY DEF MutexInv, OutputComplete

(* The executions of a flow in progress stay accounted for when one of them
   moves and main() does not. *)
LEMMA ThreadsFrame ==
  ASSUME TypeOK, ThreadsInv, AheadIdle, NEW i \in Nodes, Execute(i)
  PROVE  ThreadsInv' /\ AheadIdle' /\ ContextOutlivesThreads'
<1>1. /\ Alive /\ step[i] \notin {"idle", "done"} /\ UNCHANGED <<pc, node, threads>>
      /\ \E l \in Steps \ {"idle", "begin"} : step' = [step EXCEPT ![i] = l]
  BY ExecuteFacts DEF main
<1>2. \A m \in Nodes : m # i => step'[m] = step[m]
  BY <1>1 DEF TypeOK
<1>3. \A m \in Nodes : Started(m)' = Started(m)
  BY <1>1 DEF Started
<1> QED
  BY <1>1, <1>2, <1>3 DEF ThreadsInv, AheadIdle, ContextOutlivesThreads, Alive

-----------------------------------------------------------------------------
(* The invariant holds before anything has run. *)
LEMMA FlowInit == Init => FlowInv
<1> SUFFICES ASSUME Init PROVE FlowInv
  OBVIOUS
<1>1. Len(Flow) \in Nat
  BY FlowAssumption
<1>2. TypeOK
  <2>1. <<>> \in Seq(Nodes)
    OBVIOUS
  <2>2. /\ threads \in Seq(Nodes) /\ output \in Seq(Nodes)
        /\ copy \in [Nodes -> Seq(Nodes)]
    BY <2>1 DEF Init
  <2>3. node \in 1 .. Len(Flow) + 1
    BY <1>1 DEF Init
  <2>4. /\ step \in [Nodes -> Steps]
        /\ failing \in [Nodes -> BOOLEAN]
        /\ status \in [Nodes -> {"ok", "invalid", "not_found", "internal"}]
        /\ handler \in [Nodes -> {"none", "inner", "outer"}]
        /\ emitted \in [Nodes -> Nat]
    BY DEF Init, Steps
  <2> QED
    BY <2>2, <2>3, <2>4 DEF Init, TypeOK
<1>3. MutexInv
  BY FlowAssumption DEF Init, MutexInv, Nodes
<1>4. OutputComplete
  <2> SUFFICES ASSUME NEW i \in Nodes
               PROVE  Cardinality({n \in 1 .. Len(output) : output[n] = i}) = emitted[i]
    BY DEF OutputComplete
  <2>1. output = <<>> /\ emitted[i] = 0
    BY DEF Init
  <2>2. Len(output) = 0
    BY <2>1
  <2>3. {n \in 1 .. Len(output) : output[n] = i} = {}
    BY <2>2
  <2> QED
    BY <2>1, <2>3, FS_EmptySet
<1>5. ThreadsInv /\ AheadIdle /\ ContextOutlivesThreads
  BY DEF Init, ThreadsInv, AheadIdle, ContextOutlivesThreads
<1> QED
  BY <1>2, <1>3, <1>4, <1>5 DEF FlowInv

-----------------------------------------------------------------------------
(* Types. *)

(* Reporting sets values of the right types. *)
LEMMA ReportType ==
  ASSUME TypeOK, NEW i \in Nodes, NEW b \in BOOLEAN,
         NEW s \in {"ok", "invalid", "not_found", "internal"}, Report(i, b, s)
  PROVE  /\ step' \in [Nodes -> Steps] /\ failing' \in [Nodes -> BOOLEAN]
         /\ status' \in [Nodes -> {"ok", "invalid", "not_found", "internal"}]
<1>1. step' \in [Nodes -> Steps]
  BY DEF Report, Goto, TypeOK, Steps
<1>2. failing' \in [Nodes -> BOOLEAN]
  BY DEF Report, TypeOK
<1>3. status' \in [Nodes -> {"ok", "invalid", "not_found", "internal"}]
  BY DEF Report, TypeOK
<1> QED
  BY <1>1, <1>2, <1>3

(* A step of main() that sets its own variables and the place of an execution to
   values of their types keeps all the types. *)
LEMMA MainFrame ==
  ASSUME TypeOK,
         pc' \in {"load", "check", "dispatch", "sync", "join", "exited", "terminated"},
         node' \in 1 .. Len(Flow) + 1,
         result' \in {NONE, "ok", "stopped", "unsupported", "not_found", "invalid", "internal"},
         threads' \in Seq(Nodes),
         step' \in [Nodes -> Steps],
         UNCHANGED <<locals, context, emitted, failed>>
  PROVE  TypeOK'
<1>1. UNCHANGED <<failing, status, copy, handler>>
  BY DEF locals
<1>2. UNCHANGED <<has_error, error_msg, writers, exec_status, exit_code, output, mutex>>
  BY DEF context, error
<1> QED
  BY <1>1, <1>2 DEF TypeOK

(* So does a step of an execution that leaves main() and the report
   alone. *)
LEMMA ExecutionFrame ==
  ASSUME TypeOK,
         step' \in [Nodes -> Steps],
         failing' \in [Nodes -> BOOLEAN],
         status' \in [Nodes -> {"ok", "invalid", "not_found", "internal"}],
         copy' \in [Nodes -> Seq(Nodes)],
         handler' \in [Nodes -> {"none", "inner", "outer"}],
         mutex' \in Nodes \cup {NONE},
         UNCHANGED <<main, error, exec_status, exit_code, output, emitted, failed>>
  PROVE  TypeOK'
<1>1. UNCHANGED <<pc, node, result, threads>>
  BY DEF main
<1>2. UNCHANGED <<has_error, error_msg, writers>>
  BY DEF error
<1> QED
  BY <1>1, <1>2 DEF TypeOK

(* An attempt that may fail goes on or reports, and keeps the types. *)
LEMMA AttemptType ==
  ASSUME TypeOK, NEW i \in Nodes, NEW l \in Steps,
         NEW s \in {"ok", "invalid", "not_found", "internal"},
         \/ Goto(i, l) /\ UNCHANGED <<failing, status>>
         \/ Report(i, TRUE, s),
         UNCHANGED <<main, copy, handler, context, emitted, failed>>
  PROVE  TypeOK'
<1>1. /\ step' \in [Nodes -> Steps] /\ failing' \in [Nodes -> BOOLEAN]
      /\ status' \in [Nodes -> {"ok", "invalid", "not_found", "internal"}]
  <2>1. CASE Goto(i, l) /\ UNCHANGED <<failing, status>>
    BY <2>1 DEF Goto, TypeOK
  <2>2. CASE Report(i, TRUE, s)
    BY <2>2, ReportType
  <2> QED
    BY <2>1, <2>2
<1>2. /\ copy' \in [Nodes -> Seq(Nodes)] /\ mutex' \in Nodes \cup {NONE}
      /\ handler' \in [Nodes -> {"none", "inner", "outer"}]
  BY DEF TypeOK, context
<1>3. UNCHANGED <<main, error, exec_status, exit_code, output, emitted, failed>>
  BY DEF context
<1> QED
  BY <1>1, <1>2, <1>3, ExecutionFrame

(* Every step of an execution keeps the types. *)
LEMMA ExecuteType ==
  ASSUME TypeOK, NEW i \in Nodes, Execute(i)
  PROVE  TypeOK'
<1> USE DEF TypeOK, Goto, main, locals, error, context, At
<1>1. CASE DagExecute(i)
  BY <1>1 DEF DagExecute, Steps
<1>2. CASE Begin(i)
  <2>1. step' \in [Nodes -> Steps]
    BY <1>2 DEF Begin, Steps
  <2> QED
    BY <1>2, <2>1 DEF Begin
<1>3. CASE GeneratePath(i)
  BY <1>3 DEF GeneratePath, Steps
<1>4. CASE TryOpen(i) \/ TryAccess(i) \/ TryPopen(i)
  <2>1. /\ \E l \in Steps, s \in {"ok", "invalid", "not_found", "internal"} :
             \/ Goto(i, l) /\ UNCHANGED <<failing, status>>
             \/ Report(i, TRUE, s)
        /\ UNCHANGED <<main, copy, handler, context, emitted, failed>>
    <3> HIDE DEF Goto, main, context
    <3> QED
      BY <1>4 DEF TryOpen, TryAccess, TryPopen, Steps
  <2> HIDE DEF Goto, main, context, TypeOK
  <2> QED
    BY <2>1, AttemptType
<1>5. CASE ReadLine(i)
  <2>1. step' \in [Nodes -> Steps]
    BY <1>5 DEF ReadLine, Steps
  <2> QED
    BY <1>5, <2>1 DEF ReadLine
<1>6. CASE Lock(i)
  BY <1>6 DEF Lock, Steps
<1>7. CASE Store(i)
  <2>1. <<>> \in Seq(Nodes) /\ Append(copy[i], i) \in Seq(Nodes)
    OBVIOUS
  <2>2. emitted' \in [Nodes -> Nat]
    BY <1>7 DEF Store
  <2>3. copy' \in [Nodes -> Seq(Nodes)] /\ output' \in Seq(Nodes)
    BY <1>7, <2>1 DEF Store
  <2>4. step' \in [Nodes -> Steps]
    BY <1>7 DEF Store, Steps
  <2> QED
    BY <1>7, <2>2, <2>3, <2>4 DEF Store
<1>8. CASE Pclose(i)
  BY <1>8 DEF Pclose, Report, Steps
<1>9. CASE Throw(i)
  <2>1. <<>> \in Seq(Nodes)
    OBVIOUS
  <2>2. copy' \in [Nodes -> Seq(Nodes)]
    BY <1>9, <2>1 DEF Throw
  <2>3. mutex' \in Nodes \cup {NONE}
    BY <1>9 DEF Throw, Unlock
  <2>4. /\ step' \in [Nodes -> Steps] /\ failing' \in [Nodes -> BOOLEAN]
        /\ status' \in [Nodes -> {"ok", "invalid", "not_found", "internal"}]
    BY <1>9 DEF Throw, Report, Steps
  <2>5. UNCHANGED <<main, error, exec_status, exit_code, output, emitted, failed>>
    BY <1>9 DEF Throw
  <2>6. handler' \in [Nodes -> {"none", "inner", "outer"}]
    BY <1>9 DEF Throw
  <2> HIDE DEF TypeOK, main, error
  <2> QED
    BY <2>2, <2>3, <2>4, <2>5, <2>6, ExecutionFrame
<1>10. CASE SetFlag(i)
  BY <1>10 DEF SetFlag, Steps
<1>11. CASE BeginMessage(i)
  BY <1>11 DEF BeginMessage, Steps
<1>12. CASE EndMessage(i)
  BY <1>12 DEF EndMessage, Steps
<1>13. CASE SetExecStatus(i)
  BY <1>13 DEF SetExecStatus, Steps
<1>14. CASE Abandon(i)
  BY <1>14 DEF Abandon, Steps
<1>15. CASE Return(i)
  BY <1>15 DEF Return, Steps
<1> QED
  BY <1>1, <1>2, <1>3, <1>4, <1>5, <1>6, <1>7, <1>8, <1>9, <1>10,
     <1>11, <1>12, <1>13, <1>14, <1>15 DEF Execute

(* Every step of main() keeps the types. *)
LEMMA MainType ==
  ASSUME TypeOK, ThreadsInv, Main
  PROVE  TypeOK'
<1> DEFINE Labels == {"load", "check", "dispatch", "sync", "join", "exited", "terminated"}
           Results == {NONE, "ok", "stopped", "unsupported", "not_found", "invalid", "internal"}
<1>1. Len(Flow) \in Nat
  BY FlowAssumption
<1>2. /\ pc \in Labels /\ node \in 1 .. Len(Flow) + 1 /\ result \in Results
      /\ threads \in Seq(Nodes) /\ step \in [Nodes -> Steps]
  BY DEF TypeOK
<1>3. \A i \in Nodes : status[i] \in Results
  BY DEF TypeOK
<1>4. UNCHANGED <<locals, context, emitted, failed>>
  BY DEF Main, LoadConfigFromFile, CheckNode, RejectNode, StartThread, CallSync, ReturnSync,
         Join, Exit
<1>5. node \in Nodes => node + 1 \in 1 .. Len(Flow) + 1
  BY <1>1 DEF Nodes
<1>6. pc \in {"dispatch", "sync"} => node \in Nodes
  BY DEF ThreadsInv
<1>7. pc' \in Labels
  BY <1>2 DEF Main, LoadConfigFromFile, CheckNode, RejectNode, StartThread, CallSync, ReturnSync,
         Join, Exit
<1>8. node' \in 1 .. Len(Flow) + 1
  BY <1>2, <1>5, <1>6
  DEF Main, LoadConfigFromFile, CheckNode, RejectNode, StartThread, CallSync, ReturnSync,
         Join, Exit
<1>9. result' \in Results
  BY <1>2, <1>3, <1>6
  DEF Main, LoadConfigFromFile, LoadStatuses, CheckNode, RejectNode, StartThread, CallSync, ReturnSync,
         Join, Exit
<1>10. threads' \in Seq(Nodes)
  <2>1. CASE StartThread
    <3>1. node \in Nodes
      BY <1>6, <2>1 DEF StartThread
    <3>2. Append(threads, node) \in Seq(Nodes)
      BY <1>2, <3>1
    <3> QED
      BY <1>2, <2>1, <3>2 DEF StartThread
  <2>2. CASE Join
    BY <1>2, <2>2 DEF Join
  <2>3. CASE LoadConfigFromFile \/ CheckNode \/ RejectNode \/ CallSync \/ ReturnSync \/ Exit
    BY <1>2, <2>3 DEF LoadConfigFromFile, CheckNode, RejectNode, CallSync, ReturnSync, Exit
  <2> QED
    BY <2>1, <2>2, <2>3 DEF Main
<1>11. step' \in [Nodes -> Steps]
  <2>1. CASE StartThread \/ CallSync
    <3>1. step' = step \/ step' = [step EXCEPT ![node] = "begin"]
      BY <2>1 DEF StartThread, CallSync
    <3> QED
      BY <1>2, <3>1 DEF Steps
  <2>2. CASE LoadConfigFromFile \/ CheckNode \/ RejectNode \/ ReturnSync \/ Join \/ Exit
    BY <1>2, <2>2 DEF LoadConfigFromFile, CheckNode, RejectNode, ReturnSync, Join, Exit
  <2> QED
    BY <2>1, <2>2 DEF Main
<1> QED
  BY <1>4, <1>7, <1>8, <1>9, <1>10, <1>11, MainFrame

-----------------------------------------------------------------------------
(* The output and its mutex. *)

(* Appending a line of i adds one to the lines of i, and none to the others'. *)
LEMMA AppendCount ==
  ASSUME NEW s \in Seq(Nodes), NEW i \in Nodes, NEW m \in Nodes
  PROVE  Cardinality({n \in 1 .. Len(Append(s, i)) : Append(s, i)[n] = m})
           = Cardinality({n \in 1 .. Len(s) : s[n] = m}) + (IF i = m THEN 1 ELSE 0)
<1> DEFINE Old == {n \in 1 .. Len(s) : s[n] = m}
           New == {n \in 1 .. Len(Append(s, i)) : Append(s, i)[n] = m}
<1>1. /\ Len(s) \in Nat /\ Len(Append(s, i)) = Len(s) + 1
      /\ \A n \in 1 .. Len(s) + 1 :
           Append(s, i)[n] = IF n = Len(s) + 1 THEN i ELSE s[n]
  OBVIOUS
<1>2. IsFiniteSet(Old) /\ Cardinality(Old) \in Nat
  <2>1. IsFiniteSet(1 .. Len(s))
    BY <1>1, FS_Interval
  <2> QED
    BY <2>1, FS_Subset, FS_CardinalityType
<1>3. CASE i = m
  <2>1. New = Old \cup {Len(s) + 1} /\ Len(s) + 1 \notin Old
    BY <1>1, <1>3
  <2> HIDE DEF Old, New
  <2>2. Cardinality(New) = Cardinality(Old) + 1
    BY <2>1, <1>2, FS_AddElement
  <2> QED
    BY <2>2, <1>3 DEF Old, New
<1>4. CASE i # m
  <2>1. New = Old
    BY <1>1, <1>4
  <2> HIDE DEF Old, New
  <2>2. Cardinality(New) = Cardinality(Old) + 0
    BY <2>1, <1>2
  <2> QED
    BY <2>2, <1>4 DEF Old, New
<1> QED
  BY <1>3, <1>4

(* Entering the critical section takes the free mutex. *)
LEMMA LockStep ==
  ASSUME TypeOK, MutexInv, OutputComplete, NEW i \in Nodes, Lock(i)
  PROVE  MutexInv' /\ OutputComplete'
<1>1. /\ mutex = NONE /\ mutex' = i /\ UNCHANGED <<output, emitted>>
      /\ step[i] = "append" /\ step' = [step EXCEPT ![i] = "store"]
      /\ copy' = [copy EXCEPT ![i] = output]
  BY DEF Lock, Lockable, At, Goto
<1>2. \A m \in Nodes : m # NONE
  BY FlowAssumption DEF Nodes
<1>3. \A m \in Nodes : step[m] # "store"
  BY <1>1, <1>2 DEF MutexInv
<1>4. \A m \in Nodes : /\ step'[m] = IF m = i THEN "store" ELSE step[m]
                       /\ copy'[m] = IF m = i THEN output ELSE copy[m]
  BY <1>1 DEF TypeOK
<1>5. MutexInv'
  BY <1>1, <1>3, <1>4 DEF MutexInv
<1> QED
  BY <1>1, <1>5 DEF OutputComplete

(* The copy that is extended and stored is still the output, so nothing another
   execution appended is overwritten. *)
LEMMA StoreStep ==
  ASSUME TypeOK, MutexInv, OutputComplete, NEW i \in Nodes, Store(i)
  PROVE  MutexInv' /\ OutputComplete'
<1>1. /\ step[i] = "store" /\ mutex' = NONE
      /\ output' = Append(copy[i], i)
      /\ emitted' = [emitted EXCEPT ![i] = @ + 1]
      /\ \E l \in {"access", "read"} : step' = [step EXCEPT ![i] = l]
  BY DEF Store, At, Goto
<1>2. mutex = i /\ copy[i] = output
  BY <1>1 DEF MutexInv
<1>3. \A m \in Nodes : step'[m] # "store" /\ m # NONE
  <2>1. \A m \in Nodes : m # i => step[m] # "store"
    BY <1>2 DEF MutexInv
  <2>2. \A m \in Nodes : m # NONE
    BY FlowAssumption DEF Nodes
  <2> QED
    BY <1>1, <2>1, <2>2 DEF TypeOK
<1>4. MutexInv'
  BY <1>1, <1>3 DEF MutexInv
<1>5. OutputComplete'
  <2> SUFFICES ASSUME NEW m \in Nodes
               PROVE  Cardinality({n \in 1 .. Len(output') : output'[n] = m}) = emitted'[m]
    BY DEF OutputComplete
  <2>1. output' = Append(output, i) /\ output \in Seq(Nodes)
    BY <1>1, <1>2 DEF TypeOK
  <2>2. Cardinality({n \in 1 .. Len(output') : output'[n] = m})
          = Cardinality({n \in 1 .. Len(output) : output[n] = m}) + (IF i = m THEN 1 ELSE 0)
    BY <2>1, AppendCount
  <2>3. Cardinality({n \in 1 .. Len(output) : output[n] = m}) = emitted[m]
    BY DEF OutputComplete
  <2>4. emitted'[m] = emitted[m] + (IF i = m THEN 1 ELSE 0) /\ emitted[m] \in Nat
    BY <1>1 DEF TypeOK
  <2> QED
    BY <2>2, <2>3, <2>4
<1> QED
  BY <1>4, <1>5

(* An exception releases the mutex exactly where it was held. *)
LEMMA ThrowStep ==
  ASSUME TypeOK, MutexInv, OutputComplete, NEW i \in Nodes, Throw(i)
  PROVE  MutexInv' /\ OutputComplete'
<1>1. UNCHANGED <<output, emitted>>
  BY DEF Throw
<1>2. \A m \in Nodes : m # NONE
  BY FlowAssumption DEF Nodes
<1>3. \A m \in Nodes : m # i => step'[m] = step[m] /\ copy'[m] = copy[m]
  BY DEF Throw, Goto, Report, TypeOK
<1>4. step'[i] # "store"
  BY DEF Throw, Goto, Report, TypeOK
<1>5. mutex' = IF mutex = i THEN NONE ELSE mutex
  BY DEF Throw, Unlock, At, MutexInv
<1>6. MutexInv'
  BY <1>1, <1>2, <1>3, <1>4, <1>5 DEF MutexInv
<1> QED
  BY <1>1, <1>6 DEF OutputComplete

(* No step of an execution loses a line of the output. *)
LEMMA ExecuteOutput ==
  ASSUME TypeOK, MutexInv, OutputComplete, NEW i \in Nodes, Execute(i)
  PROVE  MutexInv' /\ OutputComplete'
<1>1. CASE Lock(i)
  BY <1>1, LockStep
<1>2. CASE Store(i)
  BY <1>2, StoreStep
<1>3. CASE Throw(i)
  BY <1>3, ThrowStep
<1>4. CASE \/ DagExecute(i) \/ Begin(i) \/ GeneratePath(i) \/ TryOpen(i)
           \/ TryAccess(i) \/ TryPopen(i)
           \/ ReadLine(i) \/ Pclose(i) \/ Abandon(i) \/ SetFlag(i) \/ BeginMessage(i)
           \/ EndMessage(i) \/ SetExecStatus(i) \/ Return(i)
  <2>1. UNCHANGED <<copy, output, mutex, emitted>>
    BY <1>4 DEF DagExecute, Begin, GeneratePath, TryOpen, TryAccess, TryPopen, ReadLine, Pclose,
           Abandon, SetFlag, BeginMessage, EndMessage, SetExecStatus, Return, locals, context
  <2>2. step[i] # "store" /\ \E l \in Steps \ {"store"} : step' = [step EXCEPT ![i] = l]
    BY <1>4 DEF DagExecute, Begin, GeneratePath, TryOpen, TryAccess, TryPopen, ReadLine, Pclose,
           Abandon, SetFlag, BeginMessage, EndMessage, SetExecStatus, Return, At, Goto, Report, Steps,
           Outside
  <2>3. \A m \in Nodes : step'[m] = "store" <=> step[m] = "store"
    BY <2>2 DEF TypeOK
  <2> QED
    BY <2>1, <2>3, OutputFrame
<1> QED
  BY <1>1, <1>2, <1>3, <1>4 DEF Execute

-----------------------------------------------------------------------------
(* Threads and the context. *)

(* Every execution in progress is a thread main() has yet to join or the call it
   is in, so the context goes only after the last of them. *)
LEMMA MainThreads ==
  ASSUME TypeOK, ThreadsInv, AheadIdle, ContextOutlivesThreads, Main
  PROVE  ThreadsInv' /\ ContextOutlivesThreads'
<1> DEFINE Accounted(i) == \/ step[i] \in {"idle", "done"} \/ Started(i)
                           \/ (pc = "sync" /\ i = node)
<1>1. Alive /\ \A i \in Nodes : Accounted(i)
  BY DEF Main, LoadConfigFromFile, CheckNode, RejectNode, StartThread, CallSync, ReturnSync, Join, Exit,
         Alive, ThreadsInv
<1>0. CASE LoadConfigFromFile
  <2>1. /\ pc = "load" /\ pc' \in {"check", "exited"} /\ UNCHANGED <<node, threads, step>>
    BY <1>0 DEF LoadConfigFromFile
  <2>2. \A i \in Nodes : step[i] = "idle"
    BY <2>1 DEF AheadIdle, ThreadsInv, Nodes
  <2> QED
    BY <2>1, <2>2 DEF ThreadsInv, ContextOutlivesThreads
<1>2. CASE CheckNode \/ RejectNode
  <2>1. UNCHANGED <<threads, step, node>> /\ pc # "sync" /\ pc' \notin {"load", "sync", "exited"}
    BY <1>2 DEF CheckNode, RejectNode
  <2>2. \A i \in Nodes : Started(i)' = Started(i)
    BY <2>1 DEF Started
  <2>3. pc' = "dispatch" => node' \in Nodes
    BY <1>2 DEF CheckNode, RejectNode
  <2> QED
    BY <1>1, <2>1, <2>2, <2>3 DEF ThreadsInv, ContextOutlivesThreads
<1>3. CASE StartThread
  <2>1. node \in Nodes /\ pc = "dispatch"
    BY <1>3 DEF StartThread, ThreadsInv
  <2>2. CASE threads' = Append(threads, node)
    <3>1. step' = [step EXCEPT ![node] = "begin"] /\ pc' = "check"
      BY <1>3, <2>2 DEF StartThread, TypeOK
    <3>2. \A i \in Nodes : Started(i) \/ i = node => Started(i)'
      <4>1. /\ Len(threads) \in Nat /\ Len(threads') = Len(threads) + 1
            /\ threads'[Len(threads) + 1] = node
            /\ \A a \in 1 .. Len(threads) : threads'[a] = threads[a]
        BY <2>1, <2>2 DEF TypeOK
      <4> QED
        BY <4>1 DEF Started
    <3>3. \A i \in Nodes : i # node => step'[i] = step[i]
      BY <3>1 DEF TypeOK
    <3> QED
      BY <1>1, <2>1, <3>1, <3>2, <3>3 DEF ThreadsInv, ContextOutlivesThreads
  <2>3. CASE threads = <<>> /\ pc' = "exited" /\ UNCHANGED <<threads, step, node>>
    <3>1. \A i \in Nodes : ~Started(i)
      BY <2>3 DEF Started
    <3> QED
      BY <1>1, <2>1, <2>3, <3>1 DEF ThreadsInv, ContextOutlivesThreads, Alive
  <2>4. CASE pc' = "terminated"
    BY <2>4 DEF ThreadsInv, ContextOutlivesThreads, Alive
  <2> QED
    BY <1>3, <2>2, <2>3, <2>4 DEF StartThread
<1>4. CASE CallSync
  <2>1. /\ node \in Nodes /\ pc = "dispatch" /\ pc' = "sync"
        /\ step' = [step EXCEPT ![node] = "begin"] /\ UNCHANGED <<node, threads>>
    BY <1>4 DEF CallSync, ThreadsInv
  <2>2. \A i \in Nodes : /\ i # node => step'[i] = step[i]
                         /\ Started(i)' = Started(i)
    BY <2>1 DEF TypeOK, Started
  <2> QED
    BY <1>1, <2>1, <2>2 DEF ThreadsInv, ContextOutlivesThreads
<1>5. CASE ReturnSync
  <2>1. /\ step[node] = "done" /\ pc = "sync" /\ pc' \in {"check", "join"}
        /\ UNCHANGED <<threads, step>>
    BY <1>5 DEF ReturnSync
  <2>2. \A i \in Nodes : Started(i)' = Started(i)
    BY <2>1 DEF Started
  <2> QED
    BY <1>1, <2>1, <2>2 DEF ThreadsInv, ContextOutlivesThreads
<1>6. CASE Join
  <2>1. /\ pc = "join" /\ threads # <<>> /\ step[Head(threads)] = "done"
        /\ threads' = Tail(threads) /\ UNCHANGED <<pc, node, step>>
    BY <1>6 DEF Join
  <2>2. \A i \in Nodes : Started(i) => Started(i)' \/ step[i] = "done"
    <3> SUFFICES ASSUME NEW i \in Nodes, NEW a \in 1 .. Len(threads), threads[a] = i,
                        step[i] # "done"
                 PROVE  Started(i)'
      BY DEF Started
    <3>1. Len(threads) \in Nat /\ Len(threads') = Len(threads) - 1
      BY <2>1 DEF TypeOK
    <3>2. a # 1
      BY <2>1
    <3>3. a - 1 \in 1 .. Len(threads') /\ threads'[a - 1] = i
      BY <2>1, <3>1, <3>2 DEF TypeOK
    <3> QED
      BY <3>3 DEF Started
  <2> QED
    BY <1>1, <2>1, <2>2 DEF ThreadsInv, ContextOutlivesThreads
<1>7. CASE Exit
  <2>1. /\ pc = "join" /\ threads = <<>> /\ pc' = "exited" /\ UNCHANGED step
    BY <1>7 DEF Exit
  <2>2. \A i \in Nodes : ~Started(i)
    BY <2>1 DEF Started
  <2> QED
    BY <1>1, <2>1, <2>2 DEF ThreadsInv, ContextOutlivesThreads, Alive
<1> QED
  BY <1>0, <1>2, <1>3, <1>4, <1>5, <1>6, <1>7 DEF Main

(* main() goes through the nodes in order, and runs each once. *)
LEMMA MainAhead ==
  ASSUME TypeOK, ThreadsInv, AheadIdle, Main
  PROVE  /\ AheadIdle'
         /\ \A i \in Nodes : step'[i] = "store" <=> step[i] = "store"
<1>1. CASE /\ UNCHANGED <<node, step>>
           /\ pc' \in {"load", "check", "dispatch"} => pc \in {"load", "check", "dispatch"}
  BY <1>1 DEF AheadIdle
<1>2. CASE StartThread /\ threads' # threads
  <2>1. /\ node \in Nodes /\ pc = "dispatch" /\ node' = node + 1
        /\ step' = [step EXCEPT ![node] = "begin"]
    BY <1>2 DEF StartThread, ThreadsInv
  <2>2. \A i \in Nodes : step'[i] = IF i = node THEN "begin" ELSE step[i]
    BY <2>1 DEF TypeOK
  <2>3. step[node] = "idle" /\ \A i \in Nodes : i > node => step[i] = "idle"
    BY <2>1 DEF AheadIdle
  <2> QED
    BY <2>1, <2>2, <2>3 DEF AheadIdle, Nodes
<1>3. CASE CallSync
  <2>1. /\ node \in Nodes /\ pc = "dispatch" /\ pc' = "sync" /\ node' = node
        /\ step' = [step EXCEPT ![node] = "begin"]
    BY <1>3 DEF CallSync, ThreadsInv
  <2>2. \A i \in Nodes : step'[i] = IF i = node THEN "begin" ELSE step[i]
    BY <2>1 DEF TypeOK
  <2>3. step[node] = "idle" /\ \A i \in Nodes : i > node => step[i] = "idle"
    BY <2>1 DEF AheadIdle
  <2> QED
    BY <2>1, <2>2, <2>3 DEF AheadIdle, Nodes
<1>4. CASE ReturnSync /\ node' = node + 1
  BY <1>4 DEF ReturnSync, AheadIdle, TypeOK, Nodes
<1>5. LoadConfigFromFile \/ CheckNode \/ RejectNode \/ Join \/ Exit
        => /\ UNCHANGED <<node, step>>
           /\ pc' \in {"load", "check", "dispatch"} => pc \in {"load", "check", "dispatch"}
  BY DEF LoadConfigFromFile, CheckNode, RejectNode, Join, Exit
<1>6. CASE StartThread /\ threads' = threads
  <2>1. threads # Append(threads, node)
    BY <1>6 DEF TypeOK
  <2>2. UNCHANGED <<node, step>> /\ pc' \in {"exited", "terminated"}
    BY <1>6, <2>1 DEF StartThread
  <2> QED
    BY <1>1, <2>2
<1>7. CASE ReturnSync /\ node' # node + 1
  BY <1>1, <1>7 DEF ReturnSync
<1> QED
  BY <1>1, <1>2, <1>3, <1>4, <1>5, <1>6, <1>7 DEF Main

-----------------------------------------------------------------------------
(* An exception that leaves Execute() ends the process, and with it main() only if no
   thread is left. *)
LEMMA EscapeFacts ==
  ASSUME TypeOK, NEW i \in Nodes, Escape(i)
  PROVE  /\ Alive /\ step[i] \in {"path", "flag", "message"}
         /\ \A m \in Nodes : step'[m] = IF m = i THEN "done" ELSE step[m]
         /\ pc' = (IF threads = <<>> THEN "exited" ELSE "terminated")
         /\ handler'[i] = "outer" /\ \A m \in Nodes : m # i => handler'[m] = handler[m]
         /\ UNCHANGED <<node, result, threads, failing, status, copy, context, emitted, failed>>
BY DEF Escape, Outside, At, Goto, TypeOK

LEMMA EscapeStep ==
  ASSUME FlowInv, NEW i \in Nodes, Escape(i)
  PROVE  FlowInv'
<1> USE DEF FlowInv
<1>1. /\ Alive /\ step[i] \in {"path", "flag", "message"}
      /\ \A m \in Nodes : step'[m] = IF m = i THEN "done" ELSE step[m]
      /\ pc' = (IF threads = <<>> THEN "exited" ELSE "terminated")
      /\ UNCHANGED <<node, result, threads, failing, status, copy, context, emitted, failed>>
  BY EscapeFacts
<1>2. TypeOK'
  <2>1. step' = [step EXCEPT ![i] = "done"] /\ handler' = [handler EXCEPT ![i] = "outer"]
    BY DEF Escape, Goto
  <2>2. step' \in [Nodes -> Steps] /\ handler' \in [Nodes -> {"none", "inner", "outer"}]
    BY <2>1 DEF TypeOK, Steps
  <2>3. pc' \in {"load", "check", "dispatch", "sync", "join", "exited", "terminated"}
    BY <1>1
  <2> QED
    BY <1>1, <2>2, <2>3 DEF TypeOK, context, error
<1>3. MutexInv' /\ OutputComplete'
  BY <1>1, OutputFrame DEF context
<1>4. AheadIdle'
  BY <1>1 DEF AheadIdle
<1>5. ThreadsInv'
  BY <1>1 DEF ThreadsInv, Alive
<1>6. ContextOutlivesThreads'
  <2>1. threads = <<>> => \A m \in Nodes : ~Started(m)
    BY DEF Started
  <2>2. \A m \in Nodes : Started(m) \/ step[m] \in {"idle", "done"} \/ (pc = "sync" /\ m = node)
    BY <1>1 DEF ThreadsInv
  <2>3. step[i] \notin {"idle", "done"}
    BY <1>1
  <2> QED
    BY <1>1, <2>1, <2>2, <2>3 DEF ContextOutlivesThreads
<1> QED
  BY <1>2, <1>3, <1>4, <1>5, <1>6

(* Every step keeps the invariant. *)
LEMMA FlowStep == FlowInv /\ [Next]_vars => FlowInv'
<1> SUFFICES ASSUME FlowInv, [Next]_vars PROVE FlowInv'
  OBVIOUS
<1> USE DEF FlowInv
<1>1. CASE Main
  <2>1. UNCHANGED <<copy, output, mutex, emitted>>
    BY <1>1 DEF Main, LoadConfigFromFile, CheckNode, RejectNode, StartThread, CallSync, ReturnSync, Join,
           Exit, locals, context
  <2> QED
    BY <1>1, <2>1, MainType, MainAhead, MainThreads, OutputFrame
<1>2. CASE \E i \in Nodes : Execute(i)
  BY <1>2, ExecuteType, ExecuteOutput, ThreadsFrame
<1>4. CASE \E i \in Nodes : Escape(i)
  BY <1>4, EscapeStep
<1>3. CASE UNCHANGED vars
  <2>1. UNCHANGED <<main, step, locals, context, emitted, failed>>
    BY <1>3 DEF vars
  <2>2. TypeOK'
    BY <2>1 DEF TypeOK, main, locals, context, error
  <2>3. MutexInv' /\ OutputComplete'
    BY <2>1, OutputFrame DEF locals, context
  <2>4. ThreadsInv' /\ AheadIdle' /\ ContextOutlivesThreads'
    BY <2>1 DEF ThreadsInv, AheadIdle, ContextOutlivesThreads, Started, Alive, main
  <2> QED
    BY <2>2, <2>3, <2>4
<1> QED
  BY <1>1, <1>2, <1>3, <1>4 DEF Next, Ended

(* In every state of every run of every flow: the output, its mutex, the threads
   and the context fit together. *)
THEOREM FlowInvariance == Spec => []FlowInv
<1>1. Init => FlowInv
  BY FlowInit
<1>2. FlowInv /\ [Next]_vars => FlowInv'
  BY FlowStep
<1> QED
  BY <1>1, <1>2, PTL DEF Spec

(* The variables keep their types. *)
THEOREM FlowTyping == Spec => []TypeOK
<1>1. FlowInv => TypeOK
  BY DEF FlowInv
<1> QED
  BY <1>1, FlowInvariance, PTL

(* AppendOutput() loses no line, however many scripts run at the same time. *)
THEOREM NoOutputLost == Spec => []OutputComplete
<1>1. FlowInv => OutputComplete
  BY DEF FlowInv
<1> QED
  BY <1>1, FlowInvariance, PTL

(* No thread uses the context after main() has destroyed it. *)
THEOREM ContextSafe == Spec => []ContextOutlivesThreads
<1>1. FlowInv => ContextOutlivesThreads
  BY DEF FlowInv
<1> QED
  BY <1>1, FlowInvariance, PTL
-----------------------------------------------------------------------------
(* The status of the context. *)

(* What StatusSettled follows from.  kRunning was written by an execution that has
   not ended since, except by an exception that reached its outer handler. *)
Unsettled(i) ==
  step[i] \notin {"idle", "begin", "return", "done"} \/ (step[i] = "done" /\ handler[i] = "outer")
RunningInv == exec_status = "kRunning" => \E i \in Nodes : Unsettled(i)

(* main() only moves executions from "idle" to "begin", and reports nothing. *)
LEMMA MainRunning ==
  ASSUME TypeOK, ThreadsInv, AheadIdle, RunningInv, Main
  PROVE  RunningInv'
<1>1. UNCHANGED <<handler, exec_status>>
  BY DEF Main, LoadConfigFromFile, CheckNode, RejectNode, StartThread, CallSync, ReturnSync,
         Join, Exit, locals, context
<1>2. \A i \in Nodes : step'[i] = step[i] \/ (step[i] = "idle" /\ step'[i] = "begin")
  <2>1. CASE StartThread \/ CallSync
    <3>1. node \in Nodes /\ pc = "dispatch"
      BY <2>1 DEF StartThread, CallSync, ThreadsInv
    <3>2. step[node] = "idle"
      BY <3>1 DEF AheadIdle
    <3>3. step' = step \/ step' = [step EXCEPT ![node] = "begin"]
      BY <2>1 DEF StartThread, CallSync
    <3> QED
      BY <3>2, <3>3 DEF TypeOK
  <2>2. CASE LoadConfigFromFile \/ CheckNode \/ RejectNode \/ ReturnSync \/ Join \/ Exit
    BY <2>2 DEF LoadConfigFromFile, CheckNode, RejectNode, ReturnSync, Join, Exit
  <2> QED
    BY <2>1, <2>2 DEF Main
<1>3. \A i \in Nodes : Unsettled(i) => Unsettled(i)'
  BY <1>1, <1>2 DEF Unsettled
<1> QED
  BY <1>1, <1>2, <1>3 DEF RunningInv

(* An execution that ends has written its status, or an exception reached its outer
   handler; a dag script was never running. *)
LEMMA ExecuteRunning ==
  ASSUME TypeOK, RunningInv, NEW k \in Nodes, Execute(k)
  PROVE  RunningInv'
<1>1. \A i \in Nodes : i # k => step'[i] = step[i] /\ handler'[i] = handler[i]
  <2>1. \A i \in Nodes : i # k => step'[i] = step[i]
    BY ExecuteFacts DEF TypeOK
  <2>2. \A i \in Nodes : i # k => handler'[i] = handler[i]
    BY DEF Execute, DagExecute, Begin, GeneratePath, TryOpen, TryAccess, TryPopen, ReadLine,
         Lock, Store, Pclose, Throw, Abandon, SetFlag, BeginMessage, EndMessage, SetExecStatus,
         Return, locals, TypeOK
  <2> QED
    BY <2>1, <2>2
<1>2. CASE Begin(k)
  <2>1. step'[k] = "path"
    BY <1>2 DEF Begin, Goto, TypeOK
  <2> QED
    BY <2>1 DEF RunningInv, Unsettled
<1>3. CASE SetExecStatus(k)
  BY <1>3 DEF SetExecStatus, RunningInv
<1>4. CASE ~Begin(k) /\ ~SetExecStatus(k)
  <2> SUFFICES ASSUME exec_status' = "kRunning" PROVE \E i \in Nodes : Unsettled(i)'
    BY DEF RunningInv
  <2>1. exec_status = "kRunning"
    BY <1>4 DEF Execute, DagExecute, GeneratePath, TryOpen, TryAccess, TryPopen, ReadLine,
           Lock, Store, Pclose, Throw, Abandon, SetFlag, BeginMessage, EndMessage, Return, context
  <2>2. PICK i \in Nodes : Unsettled(i)
    BY <2>1 DEF RunningInv
  <2>3. CASE i # k
    BY <1>1, <2>2, <2>3 DEF Unsettled
  <2>4. CASE i = k
    <3>1. step[k] \notin {"idle", "begin", "return", "done"}
      BY <2>2, <2>4, ExecuteFacts DEF Unsettled
    <3>2. CASE Abandon(k)
      BY <3>2 DEF Abandon, Goto, Unsettled, TypeOK
    <3>3. CASE ~Abandon(k)
      <4>1. step'[k] \notin {"idle", "begin", "return", "done"}
        BY <1>4, <3>1, <3>3 DEF Execute, DagExecute, GeneratePath, TryOpen, TryAccess, TryPopen,
               ReadLine, Lock, Store, Pclose, Throw, SetFlag, BeginMessage, EndMessage, Return,
               At, Goto, Report, TypeOK
      <4> QED
        BY <4>1 DEF Unsettled
    <3> QED
      BY <3>2, <3>3
  <2> QED
    BY <2>3, <2>4
<1> QED
  BY <1>2, <1>3, <1>4

(* The context does not say kRunning once nothing runs, for every flow, unless an
   exception reached the outer handler of an execution. *)
THEOREM StatusSettles == Spec => []StatusSettled
<1>1. Init => RunningInv
  BY DEF Init, RunningInv
<1>2. FlowInv /\ RunningInv /\ [Next]_vars => RunningInv'
  <2> SUFFICES ASSUME FlowInv, RunningInv, [Next]_vars PROVE RunningInv'
    OBVIOUS
  <2>1. CASE Main
    BY <2>1, MainRunning DEF FlowInv
  <2>2. CASE \E i \in Nodes : Execute(i)
    BY <2>2, ExecuteRunning DEF FlowInv
  <2>3. CASE \E i \in Nodes : Escape(i)
    <3>1. PICK i \in Nodes : Escape(i)
      BY <2>3
    <3>2. \A m \in Nodes : m # i => step'[m] = step[m] /\ handler'[m] = handler[m]
      BY <3>1, EscapeFacts DEF FlowInv
    <3>3. step'[i] = "done" /\ handler'[i] = "outer"
      BY <3>1, EscapeFacts DEF FlowInv
    <3> QED
      BY <3>3 DEF RunningInv, Unsettled
  <2>4. CASE UNCHANGED vars
    BY <2>4 DEF vars, locals, context, RunningInv, Unsettled
  <2> QED
    BY <2>1, <2>2, <2>3, <2>4 DEF Next, Ended
<1>3. RunningInv => StatusSettled
  BY DEF RunningInv, Unsettled, StatusSettled
<1> QED
  BY <1>1, <1>2, <1>3, FlowInvariance, PTL DEF Spec

-----------------------------------------------------------------------------
(* A flow none of whose nodes runs on a thread stops at the first failure and
   reports it truly.  With threads it does not: the repository's own configuration
   breaks both. *)

WithoutThreads == \A i \in Nodes : ~OnThread(i)

(* The context holds the failure of execution k and of no other. *)
ReportOf(k) == exec_status = "kFailed" /\ failed = {k} /\ error_msg = k

(* What the execution main() is in has told the context so far. *)
Before == {"begin", "path", "open", "append", "store", "access", "popen", "read", "pclose"}
Progress ==
  /\ step[node] # "idle"
  /\ step[node] \in Before => ~has_error /\ failed = {}
  /\ step[node] \in {"flag", "message", "assign", "status"} =>
       failed \subseteq {node} /\ (failing[node] \/ failed = {})
  /\ step[node] \in {"message", "assign", "status"} => has_error = failing[node]
  /\ step[node] \in {"assign", "status"} => error_msg = node
  /\ writers = IF step[node] = "assign" THEN {node} ELSE {}
  /\ step[node] = "return" => failed \subseteq {node} /\ status[node] # "ok"
  /\ step[node] = "done" =>
       status[node] # "ok" \/ (IF has_error THEN ReportOf(node) ELSE failed = {})

(* One execution at a time, inside main(); between two of them the flag is up
   exactly if the last one failed. *)
SequentialInv ==
  /\ threads = <<>>
  /\ \A i \in Nodes : step[i] \in {"idle", "done"} \/ (pc = "sync" /\ i = node)
  /\ pc = "sync" => Progress
  /\ pc # "sync" => writers = {}
  /\ pc \in {"load", "dispatch"} => ~has_error /\ failed = {}
  /\ pc = "check" => IF has_error THEN ReportOf(node - 1) ELSE failed = {}
  /\ pc \in {"load", "check", "dispatch", "sync"} => result # "stopped"
  /\ ReportTruthful

-----------------------------------------------------------------------------
(* main() starts the next execution only when the last one has told everything, and
   stops on the flag it left. *)
LEMMA MainSequential ==
  ASSUME WithoutThreads, FlowInv, SequentialInv, Main
  PROVE  SequentialInv'
<1>1. UNCHANGED <<failing, status, has_error, error_msg, writers, exec_status, failed>>
  BY DEF Main, LoadConfigFromFile, CheckNode, RejectNode, StartThread, CallSync, ReturnSync,
         Join, Exit, locals, context, error
<1>2. CASE LoadConfigFromFile
  <2>1. /\ pc = "load" /\ UNCHANGED <<node, threads, step>>
        /\ \/ pc' = "check" /\ result' = result
           \/ pc' = "exited" /\ result' # "stopped"
    BY <1>2 DEF LoadConfigFromFile, LoadStatuses
  <2> QED
    BY <1>1, <2>1 DEF SequentialInv, ReportTruthful
<1>3. CASE CheckNode
  <2>1. pc = "check" /\ UNCHANGED <<node, threads, step>>
    BY <1>3 DEF CheckNode
  <2>2. CASE pc' = "join" /\ result' = "ok"
    BY <1>1, <2>1, <2>2 DEF SequentialInv, ReportTruthful
  <2>3. CASE has_error /\ pc' = "join" /\ result' = "stopped"
    <3>1. ReportOf(node - 1)
      BY <2>1, <2>3 DEF SequentialInv
    <3>2. \A i \in Nodes : i >= node => step[i] = "idle"
      <4>1. node \in Int /\ \A i \in Nodes : i \in Int
        BY FlowAssumption DEF FlowInv, TypeOK, Nodes
      <4>2. \A i \in Nodes : i > node \/ i = node => step[i] = "idle"
        BY <2>1 DEF FlowInv, AheadIdle
      <4> QED
        BY <4>1, <4>2
    <3> QED
      BY <1>1, <2>1, <2>3, <3>1, <3>2 DEF SequentialInv, ReportTruthful, ReportOf
  <2>4. CASE ~has_error /\ pc' = "dispatch" /\ result' = result
    BY <1>1, <2>1, <2>4 DEF SequentialInv, ReportTruthful
  <2> QED
    BY <1>3, <2>2, <2>3, <2>4 DEF CheckNode
<1>4. CASE RejectNode
  <2>1. /\ pc = "dispatch" /\ pc' = "join" /\ result' # "stopped"
        /\ UNCHANGED <<node, threads, step>>
    BY <1>4 DEF RejectNode
  <2> QED
    BY <1>1, <2>1 DEF SequentialInv, ReportTruthful
<1>5. CASE StartThread
  BY <1>5 DEF StartThread, WithoutThreads, FlowInv, ThreadsInv
<1>6. CASE CallSync
  <2>1. /\ pc = "dispatch" /\ pc' = "sync" /\ node \in Nodes
        /\ step' = [step EXCEPT ![node] = "begin"] /\ UNCHANGED <<node, threads, result>>
    BY <1>6 DEF CallSync, FlowInv, ThreadsInv
  <2>2. \A i \in Nodes : step'[i] = IF i = node THEN "begin" ELSE step[i]
    BY <2>1 DEF FlowInv, TypeOK
  <2>3. Progress'
    BY <1>1, <2>1, <2>2 DEF SequentialInv, Progress, Before
  <2> QED
    BY <1>1, <2>1, <2>2, <2>3 DEF SequentialInv, ReportTruthful
<1>7. CASE ReturnSync
  <2>1. pc = "sync" /\ step[node] = "done" /\ UNCHANGED <<threads, step>>
    BY <1>7 DEF ReturnSync
  <2>2. node \in Nodes /\ node \in Nat /\ status[node] # "stopped" /\ result # "stopped"
    <3>1. node \in Nodes /\ result # "stopped"
      BY <2>1 DEF FlowInv, ThreadsInv, SequentialInv
    <3>2. status[node] \in {"ok", "invalid", "not_found", "internal"}
      BY <3>1 DEF FlowInv, TypeOK
    <3>3. node \in Nat
      BY <3>1, FlowAssumption DEF Nodes
    <3> QED
      BY <3>1, <3>2, <3>3
  <2>3. writers = {} /\ (status[node] # "ok" \/ (IF has_error THEN ReportOf(node) ELSE failed = {}))
    BY <2>1 DEF SequentialInv, Progress
  <2>4. CASE status[node] = "ok" /\ node' = node + 1 /\ pc' = "check" /\ result' = result
    <3>1. node' - 1 = node
      BY <2>2, <2>4
    <3> QED
      BY <1>1, <2>1, <2>2, <2>3, <2>4, <3>1 DEF SequentialInv, ReportTruthful, ReportOf
  <2>5. CASE pc' = "join" /\ result' = status[node] /\ node' = node
    BY <1>1, <2>1, <2>2, <2>3, <2>5 DEF SequentialInv, ReportTruthful
  <2> QED
    BY <1>7, <2>4, <2>5 DEF ReturnSync
<1>8. CASE Join
  BY <1>8 DEF Join, SequentialInv
<1>9. CASE Exit
  <2>1. pc = "join" /\ pc' = "exited" /\ UNCHANGED <<node, result, threads, step>>
    BY <1>9 DEF Exit
  <2> QED
    BY <1>1, <2>1 DEF SequentialInv, ReportTruthful
<1> QED
  BY <1>2, <1>3, <1>4, <1>5, <1>6, <1>7, <1>8, <1>9 DEF Main

(* The only execution in progress reports flag, message and status in turn, and
   nothing comes between. *)
LEMMA ExecuteSequential ==
  ASSUME FlowInv, SequentialInv, NEW i \in Nodes, Execute(i)
  PROVE  SequentialInv'
<1>1. /\ step[i] \notin {"idle", "done"} /\ UNCHANGED <<pc, node, result, threads>>
      /\ \E l \in Steps \ {"idle", "begin"} : step' = [step EXCEPT ![i] = l]
  BY ExecuteFacts DEF FlowInv, main
<1>2. pc = "sync" /\ i = node /\ Progress /\ result # "stopped"
  BY <1>1 DEF SequentialInv
<1>3. \A m \in Nodes : m # i => step'[m] = step[m]
  BY <1>1 DEF FlowInv, TypeOK
<1>4. /\ step \in [Nodes -> Steps] /\ failing \in [Nodes -> BOOLEAN]
  BY DEF FlowInv, TypeOK
<1>5. Progress'
  <2>1. CASE \/ Begin(i) \/ GeneratePath(i) \/ TryOpen(i) \/ TryAccess(i) \/ TryPopen(i)
             \/ ReadLine(i) \/ Lock(i) \/ Store(i) \/ Pclose(i)
    <3>1. step[i] \in Before /\ step'[i] \in Before \cup {"flag"}
      BY <1>4, <2>1 DEF Begin, GeneratePath, TryOpen, TryAccess, TryPopen, ReadLine, Lock, Store,
             Pclose, At, Goto, Report, Before, Steps
    <3>2. UNCHANGED <<has_error, writers, failed>>
      BY <2>1 DEF Begin, GeneratePath, TryOpen, TryAccess, TryPopen, ReadLine, Lock, Store,
             Pclose, context, error
    <3> QED
      BY <1>1, <1>2, <3>1, <3>2 DEF Progress, Before
  <2>2. CASE DagExecute(i)
    <3>1. /\ step[i] = "begin" /\ step'[i] = "done" /\ UNCHANGED <<has_error, writers, failed>>
      BY <1>4, <2>2 DEF DagExecute, At, Goto, context, error
    <3>2. ~has_error /\ failed = {} /\ writers = {}
      BY <1>2, <3>1 DEF Progress, Before, Steps
    <3> QED
      BY <1>1, <1>2, <3>1, <3>2 DEF Progress, Before
  <2>3. CASE Throw(i)
    <3>1. /\ step[i] \in Before \cup {"flag", "message", "return"} /\ step'[i] = "flag"
          /\ failing'[i] = TRUE /\ UNCHANGED <<has_error, writers, failed>>
      BY <1>4, <2>3 DEF Throw, At, Goto, Report, Before, error
    <3>2. failed \subseteq {i} /\ writers = {}
      BY <1>2, <3>1 DEF Progress, Before
    <3> QED
      BY <1>1, <1>2, <3>1, <3>2 DEF Progress, Before
  <2>8. CASE Abandon(i)
    <3>1. /\ step[i] \in {"path", "flag", "message"} /\ step'[i] = "done"
          /\ status'[i] = "internal" /\ UNCHANGED writers
      BY <1>4, <2>8 DEF Abandon, Outside, At, Goto, FlowInv, TypeOK, context, error
    <3>2. writers = {}
      BY <1>2, <3>1 DEF Progress
    <3> QED
      BY <1>1, <1>2, <3>1, <3>2 DEF Progress, Before
  <2>9. CASE Return(i)
    <3>1. /\ step[i] = "return" /\ step'[i] = "done" /\ UNCHANGED <<status, writers>>
      BY <1>4, <2>9 DEF Return, At, Goto, locals, context, error
    <3>2. writers = {} /\ status[i] # "ok"
      BY <1>2, <3>1 DEF Progress
    <3> QED
      BY <1>1, <1>2, <3>1, <3>2 DEF Progress, Before
  <2>4. CASE SetFlag(i)
    <3>1. /\ step[i] = "flag" /\ step'[i] = "message" /\ has_error' = failing[i]
          /\ UNCHANGED <<failing, writers, failed>>
      BY <1>4, <2>4 DEF SetFlag, At, Goto, locals
    <3>2. failed \subseteq {i} /\ (failing[i] \/ failed = {}) /\ writers = {}
      BY <1>2, <3>1 DEF Progress
    <3> QED
      BY <1>1, <1>2, <3>1, <3>2 DEF Progress, Before
  <2>5. CASE BeginMessage(i)
    <3>1. /\ step[i] = "message" /\ step'[i] = "assign" /\ writers' = writers \cup {i}
          /\ error_msg' = IF writers = {} THEN i ELSE TORN
          /\ UNCHANGED <<failing, has_error, failed>>
      BY <1>4, <2>5 DEF BeginMessage, At, Goto, locals
    <3>2. /\ failed \subseteq {i} /\ (failing[i] \/ failed = {})
          /\ writers = {} /\ has_error = failing[i]
      BY <1>2, <3>1 DEF Progress
    <3> QED
      BY <1>1, <1>2, <3>1, <3>2 DEF Progress, Before
  <2>6. CASE EndMessage(i)
    <3>1. /\ step[i] = "assign" /\ step'[i] = "status" /\ writers' = writers \ {i}
          /\ UNCHANGED <<failing, has_error, error_msg, failed>>
      BY <1>4, <2>6 DEF EndMessage, At, Goto, locals
    <3>2. /\ failed \subseteq {i} /\ (failing[i] \/ failed = {})
          /\ writers = {i} /\ error_msg = i /\ has_error = failing[i]
      BY <1>2, <3>1 DEF Progress
    <3> QED
      BY <1>1, <1>2, <3>1, <3>2 DEF Progress, Before
  <2>7. CASE SetExecStatus(i)
    <3>1. /\ step[i] = "status" /\ step'[i] = (IF status[i] = "ok" THEN "done" ELSE "return")
          /\ exec_status' = IF failing[i] THEN "kFailed" ELSE "kSucceeded"
          /\ failed' = IF failing[i] THEN failed \cup {i} ELSE failed
          /\ UNCHANGED <<status, has_error, error_msg, writers>>
      BY <1>4, <2>7 DEF SetExecStatus, At, Goto, locals, error
    <3>2. /\ failed \subseteq {i} /\ (failing[i] \/ failed = {})
          /\ writers = {} /\ error_msg = i /\ has_error = failing[i]
      BY <1>2, <3>1 DEF Progress
    <3> QED
      BY <1>1, <1>2, <3>1, <3>2 DEF Progress, Before, ReportOf
  <2> QED
    BY <2>1, <2>2, <2>3, <2>4, <2>5, <2>6, <2>7, <2>8, <2>9 DEF Execute
<1> QED
  BY <1>1, <1>2, <1>3, <1>5 DEF SequentialInv, ReportTruthful

(* Every step of a flow without threads keeps both invariants. *)
LEMMA SequentialStep ==
  ASSUME WithoutThreads
  PROVE  FlowInv /\ SequentialInv /\ [Next]_vars => SequentialInv'
<1> SUFFICES ASSUME FlowInv, SequentialInv, [Next]_vars PROVE SequentialInv'
  OBVIOUS
<1>1. CASE Main
  BY <1>1, MainSequential
<1>2. CASE \E i \in Nodes : Execute(i)
  BY <1>2, ExecuteSequential
<1>3. CASE \E i \in Nodes : Escape(i)
  <2>1. PICK i \in Nodes : Escape(i)
    BY <1>3
  <2>2. /\ step[i] \in {"path", "flag", "message"} /\ pc' \in {"exited", "terminated"}
        /\ \A m \in Nodes : step'[m] = IF m = i THEN "done" ELSE step[m]
        /\ UNCHANGED <<node, result, threads, writers>>
    BY <2>1, EscapeFacts DEF FlowInv, context, error
  <2>3. pc = "sync" /\ i = node /\ Progress /\ result # "stopped"
    BY <2>2 DEF SequentialInv
  <2>4. writers = {}
    BY <2>2, <2>3 DEF Progress
  <2> QED
    BY <2>2, <2>3, <2>4 DEF SequentialInv, ReportTruthful
<1>4. CASE UNCHANGED vars
  <2>1. UNCHANGED <<pc, node, result, threads, step, failing, status, has_error, error_msg, writers,
                    exec_status, failed>>
    BY <1>4 DEF vars, main, locals, context, error
  <2> QED
    BY <2>1 DEF SequentialInv, ReportTruthful, Progress, ReportOf
<1> QED
  BY <1>1, <1>2, <1>3, <1>4 DEF Next, Ended

LEMMA SequentialInit == Init => SequentialInv
<1> SUFFICES ASSUME Init PROVE SequentialInv
  OBVIOUS
<1>1. result # "stopped"
  BY FlowAssumption DEF Init
<1> QED
  BY <1>1 DEF Init, SequentialInv, ReportTruthful

-----------------------------------------------------------------------------
(* Without threads, when ExecuteFlow() stops on the error flag the message and the
   status are those of the one script that failed, the last to run. *)
THEOREM ReportsTruly ==
  ASSUME WithoutThreads
  PROVE  Spec => []ReportTruthful
<1>1. Init => SequentialInv
  BY SequentialInit
<1>2. FlowInv /\ SequentialInv /\ [Next]_vars => SequentialInv'
  BY SequentialStep
<1>3. SequentialInv => ReportTruthful
  BY DEF SequentialInv
<1> QED
  BY <1>1, <1>2, <1>3, FlowInvariance, PTL DEF Spec

(* Without threads, no node is started after a script has reported a failure. *)
THEOREM StopsAtError ==
  ASSUME WithoutThreads
  PROVE  Spec => ErrorStopsFlow
<1>1. Init => SequentialInv
  BY SequentialInit
<1>2. FlowInv /\ SequentialInv /\ [Next]_vars => SequentialInv'
  BY SequentialStep
<1>3. SequentialInv /\ [Next]_vars => [pc = "check" /\ pc' = "dispatch" => failed = {}]_vars
  <2> SUFFICES ASSUME SequentialInv, Next, pc = "check", pc' = "dispatch"
               PROVE  failed = {}
    OBVIOUS
  <2>1. CASE Main
    <3>1. ~has_error
      BY <2>1 DEF Main, LoadConfigFromFile, CheckNode, RejectNode, StartThread, CallSync,
             ReturnSync, Join, Exit
    <3> QED
      BY <3>1 DEF SequentialInv
  <2>2. CASE \E i \in Nodes : Execute(i)
    <3>1. UNCHANGED main
      BY <2>2 DEF Execute, DagExecute, Begin, GeneratePath, TryOpen, TryAccess,
             TryPopen, ReadLine, Lock, Store, Pclose, Throw, Abandon, SetFlag, BeginMessage,
             EndMessage, SetExecStatus, Return
    <3> QED
      BY <3>1 DEF main
  <2>3. CASE \E i \in Nodes : Escape(i)
    BY <2>3 DEF Escape
  <2>4. CASE Ended
    BY <2>4 DEF Ended, Alive
  <2> QED
    BY <2>1, <2>2, <2>3, <2>4 DEF Next
<1> QED
  BY <1>1, <1>2, <1>3, FlowInvariance, PTL DEF Spec, ErrorStopsFlow
=============================================================================
