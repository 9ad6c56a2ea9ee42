---------------------------- MODULE FlowExecutor ----------------------------
(***************************************************************************)
(* The script runner (executor_factory): main() walks the nodes of a flow  *)
(* and runs one script per node, either itself or on a thread of its own;  *)
(* all of them report into one ExecContext, of which only the output text  *)
(* is protected by a mutex.  Execution i is the run of node i's script,    *)
(* on whichever thread; each of its accesses to the context is a step.     *)
(*                                                                         *)
(* The file system and bash are modelled from how they are used.           *)
(***************************************************************************)
EXTENDS Integers, Sequences, FiniteSets, ConfigParser

CONSTANTS
  TORN,        \* an error message assigned by two threads at once
  MaxOutput,   \* bound: lines a script prints
  Throws       \* TRUE: threads may fail to start, and library calls may throw

Nodes == 1 .. Len(Flow)

(* The fields of the document have the types the parser expects; one that has not
   ends the program before anything was started. *)
ASSUME FlowAssumption ==
  /\ MaxOutput \in Nat /\ Throws \in BOOLEAN
  /\ Len(Flow) \in Nat
  /\ \A i \in Nodes : Flow[i].async \in BOOLEAN
  /\ NONE \notin Nat /\ NONE \notin {"shell", "dag", "unknown", "stopped"}

(* The condition parser is a stub that accepts everything, so that no node is
   skipped and a branch always takes its "true" script. *)
EvaluateCondition(condition) == TRUE

VARIABLES
  (* main(): FlowExecutor::ExecuteFlow() and Wait() *)
  pc,           \* "load", "check", "dispatch", "sync", "join", "exited", "terminated"
  node,         \* the node being looked at
  result,       \* what the parser or ExecuteFlow() returned, NONE before
  threads,      \* threads_: started and not joined
  (* the executions *)
  step,         \* where Execute() is
  failing,      \* the is_error it reports
  status,       \* the status it returns
  copy,         \* output_content_ as AppendOutput() found it
  handler,      \* the handler of Execute() an exception has reached: "none", "inner", "outer"
  (* ExecContext *)
  has_error, error_msg, exec_status, exit_code, output,
  mutex,        \* the execution that holds output_mutex_
  writers,      \* the executions in the middle of assigning error_msg_
  (* history, never read by the program *)
  emitted,      \* lines each execution has appended
  failed        \* the executions that reported a failure

main == <<pc, node, result, threads>>
locals == <<failing, status, copy, handler>>
error == <<has_error, error_msg, writers>>
context == <<error, exec_status, exit_code, output, mutex>>
vars == <<main, step, locals, context, emitted, failed>>

ScriptOf(i) ==
  CASE Flow[i].step_type = "common" -> Flow[i].script_name
    [] EvaluateCondition(Flow[i].condition) -> Flow[i].true_script_name
    [] OTHER -> Flow[i].false_script_name
Alive == pc \notin {"exited", "terminated"}

-----------------------------------------------------------------------------
(* main(). *)

(* The configuration is read and the executors are registered.  main() returns if
   the first fails, and does not look at the status of the second. *)
LoadConfigFromFile ==
  /\ pc = "load"
  /\ \E loaded \in LoadStatuses :
       IF loaded = "ok" THEN pc' = "check" /\ UNCHANGED result
                        ELSE pc' = "exited" /\ result' = loaded
  /\ UNCHANGED <<node, threads, step, locals, context, emitted, failed>>

(* Mutation: the loop does not look at the error flag. *)
CheckNodeOnly ==
  /\ pc = "check"
  /\ \/ node \notin Nodes /\ result' = "ok" /\ pc' = "join"
     \/ node \in Nodes /\ pc' = "dispatch" /\ UNCHANGED result
  /\ UNCHANGED <<node, threads, step, locals, context, emitted, failed>>

(* The loop head: stop after the last node, or if the context holds an error. *)
CheckNode ==
  /\ pc = "check"
  /\ \/ node \notin Nodes /\ result' = "ok" /\ pc' = "join"
     \/ node \in Nodes /\ has_error /\ result' = "stopped" /\ pc' = "join"
     \/ node \in Nodes /\ ~has_error /\ pc' = "dispatch" /\ UNCHANGED result
  /\ UNCHANGED <<node, threads, step, locals, context, emitted, failed>>

(* A node that cannot be run ends the flow. *)
RejectNode ==
  /\ pc = "dispatch"
  /\ \/ Flow[node].step_type \notin {"common", "branch"} /\ result' = "unsupported"
     \/ /\ Flow[node].step_type \in {"common", "branch"}
        /\ GetScriptExecutor(ScriptOf(node)) = NONE
        /\ result' = "not_found"
  /\ pc' = "join"
  /\ UNCHANGED <<node, threads, step, locals, context, emitted, failed>>

Runnable(i) ==
  Flow[i].step_type \in {"common", "branch"} /\ GetScriptExecutor(ScriptOf(i)) # NONE
OnThread(i) == Flow[i].step_type = "common" /\ Flow[i].async

(* An asynchronous node gets a thread.  If none can be started the exception
   unwinds main(): threads_ is destroyed, which terminates the process if it
   holds a thread that was not joined, even one that has finished. *)
StartThread ==
  /\ pc = "dispatch" /\ Runnable(node) /\ OnThread(node)
  /\ \/ /\ threads' = Append(threads, node)
        /\ step' = [step EXCEPT ![node] = "begin"]
        /\ node' = node + 1
        /\ pc' = "check"
     \/ /\ Throws
        /\ pc' = IF threads = <<>> THEN "exited" ELSE "terminated"
        /\ UNCHANGED <<threads, step, node>>
  /\ UNCHANGED <<result, locals, context, emitted, failed>>

(* A synchronous node, and every branch, runs on main()'s own thread. *)
CallSync ==
  /\ pc = "dispatch" /\ Runnable(node) /\ ~OnThread(node)
  /\ step' = [step EXCEPT ![node] = "begin"]
  /\ pc' = "sync"
  /\ UNCHANGED <<node, result, threads, locals, context, emitted, failed>>

ReturnSync ==
  /\ pc = "sync" /\ step[node] = "done"
  /\ \/ status[node] = "ok" /\ node' = node + 1 /\ pc' = "check" /\ UNCHANGED result
     \/ status[node] # "ok" /\ result' = status[node] /\ pc' = "join" /\ UNCHANGED node
  /\ UNCHANGED <<threads, step, locals, context, emitted, failed>>

(* Mutation: Wait() detaches the threads. *)
Detach ==
  /\ pc = "join" /\ threads # <<>>
  /\ threads' = Tail(threads)
  /\ UNCHANGED <<pc, node, result, step, locals, context, emitted, failed>>

(* Wait() joins the threads in the order they were started. *)
Join ==
  /\ pc = "join" /\ threads # <<>>
  /\ step[Head(threads)] = "done"
  /\ threads' = Tail(threads)
  /\ UNCHANGED <<pc, node, result, step, locals, context, emitted, failed>>

(* main() returns: the executor, the factory and the context are destroyed. *)
Exit ==
  /\ pc = "join" /\ threads = <<>>
  /\ pc' = "exited"
  /\ UNCHANGED <<node, result, threads, step, locals, context, emitted, failed>>

-----------------------------------------------------------------------------
(* ShellScriptExecutor::Execute(), one execution i. *)

At(i, l) == Alive /\ step[i] = l
Goto(i, l) == step' = [step EXCEPT ![i] = l]

(* Reporting: SetError(b), then SetExecStatus(), then return s. *)
Report(i, b, s) ==
  /\ Goto(i, "flag")
  /\ failing' = [failing EXCEPT ![i] = b]
  /\ status' = [status EXCEPT ![i] = s]

(* A dag script does nothing. *)
DagExecute(i) ==
  /\ At(i, "begin") /\ GetScriptExecutor(ScriptOf(i)) = "dag"
  /\ Goto(i, "done")
  /\ UNCHANGED <<main, locals, context, emitted, failed>>

Begin(i) ==
  /\ At(i, "begin") /\ GetScriptExecutor(ScriptOf(i)) = "shell"
  /\ Goto(i, "path")
  /\ exec_status' = "kRunning"
  /\ UNCHANGED <<main, locals, error, exit_code, output, mutex, emitted, failed>>

(* GenerateOutputFilePath() makes the directory and composes a name. *)
GeneratePath(i) ==
  /\ At(i, "path")
  /\ Goto(i, "open")
  /\ UNCHANGED <<main, locals, context, emitted, failed>>

(* Mutation: an output file that cannot be opened is tried again for ever. *)
TryOpenAgain(i) ==
  /\ At(i, "open")
  /\ Goto(i, "append") \/ Goto(i, "path")
  /\ UNCHANGED <<main, locals, context, emitted, failed>>

(* Opening the output, finding the script and starting bash may each fail. *)
TryOpen(i) ==
  /\ At(i, "open")
  /\ \/ Goto(i, "append") /\ UNCHANGED <<failing, status>>
     \/ Report(i, TRUE, "invalid")
  /\ UNCHANGED <<main, copy, handler, context, emitted, failed>>

TryAccess(i) ==
  /\ At(i, "access")
  /\ \/ Goto(i, "popen") /\ UNCHANGED <<failing, status>>
     \/ Report(i, TRUE, "not_found")
  /\ UNCHANGED <<main, copy, handler, context, emitted, failed>>

TryPopen(i) ==
  /\ At(i, "popen")
  /\ \/ Goto(i, "read") /\ UNCHANGED <<failing, status>>
     \/ Report(i, TRUE, "internal")
  /\ UNCHANGED <<main, copy, handler, context, emitted, failed>>

(* fgets(): another line, which is appended to the output, or the end. *)
ReadLine(i) ==
  /\ At(i, "read")
  /\ \/ emitted[i] <= MaxOutput /\ Goto(i, "append")
     \/ Goto(i, "pclose")
  /\ UNCHANGED <<main, locals, context, emitted, failed>>

(* AppendOutput(): under output_mutex_, output_content_ is read, extended and
   written back. *)
NoLock(i) == TRUE \* mutation: no lock_guard
Lockable(i) == mutex = NONE
Lock(i) ==
  /\ At(i, "append") /\ Lockable(i)
  /\ mutex' = i
  /\ copy' = [copy EXCEPT ![i] = output]
  /\ Goto(i, "store")
  /\ UNCHANGED <<main, failing, status, handler, error, exec_status, exit_code, output,
                 emitted, failed>>

Store(i) ==
  /\ At(i, "store")
  /\ output' = Append(copy[i], i)
  /\ mutex' = NONE
  /\ copy' = [copy EXCEPT ![i] = <<>>]
  /\ emitted' = [emitted EXCEPT ![i] = @ + 1]
  /\ Goto(i, IF emitted[i] = 0 THEN "access" ELSE "read")
  /\ UNCHANGED <<main, failing, status, handler, error, exec_status, exit_code, failed>>

(* pclose(): anything but success is a failure, which Execute() reports but does
   not return; where pclose() itself fails the exit code stays 0. *)
Pclose(i) ==
  /\ At(i, "pclose")
  /\ \E ret \in {-1, 0, 1} :
       /\ exit_code' = IF ret = -1 THEN 0 ELSE ret
       /\ Report(i, ret # 0, "ok")
  /\ UNCHANGED <<main, copy, handler, error, exec_status, output, mutex,
                 emitted, failed>>

(* An exception inside the inner try, also one from composing or assigning a message or
   from making the status to return, is reported as an error.  One thrown in
   AppendOutput() releases the mutex on its way. *)
KeepLocked(i) == UNCHANGED mutex \* mutation: lock() and unlock() without a guard
Unlock(i) == mutex' = IF mutex = i THEN NONE ELSE mutex
Throw(i) ==
  /\ Throws /\ handler[i] = "none"
  /\ \E l \in {"open", "access", "popen", "read", "store", "flag", "message", "return"} : At(i, l)
  /\ Report(i, TRUE, "ok")
  /\ handler' = [handler EXCEPT ![i] = "inner"]
  /\ copy' = [copy EXCEPT ![i] = <<>>]
  /\ Unlock(i)
  /\ UNCHANGED <<main, error, exec_status, exit_code, output, emitted, failed>>

(* One outside of it, before the output file is opened or inside the inner handler, is
   caught by the outer one, which returns an error and reports nothing. *)
Outside(i) ==
  At(i, "path") \/ (handler[i] = "inner" /\ (At(i, "flag") \/ At(i, "message")))
Abandon(i) ==
  /\ Throws /\ Outside(i)
  /\ Goto(i, "done")
  /\ handler' = [handler EXCEPT ![i] = "outer"]
  /\ status' = [status EXCEPT ![i] = "internal"]
  /\ UNCHANGED <<main, failing, copy, context, emitted, failed>>

(* And one inside the outer handler leaves Execute(): it ends its thread, and with it the
   process, or unwinds main(), which terminates the process if threads_ holds a thread. *)
Escape(i) ==
  /\ Throws /\ Outside(i)
  /\ Goto(i, "done")
  /\ handler' = [handler EXCEPT ![i] = "outer"]
  /\ pc' = IF threads = <<>> THEN "exited" ELSE "terminated"
  /\ UNCHANGED <<node, result, threads, failing, status, copy, context, emitted, failed>>

(* SetError(): two plain assignments.  Assigning the string is not atomic; one
   that overlaps with another leaves it torn. *)
SetFlag(i) ==
  /\ At(i, "flag")
  /\ has_error' = failing[i]
  /\ Goto(i, "message")
  /\ UNCHANGED <<main, locals, error_msg, writers, exec_status, exit_code, output,
                 mutex, emitted, failed>>

BeginMessage(i) ==
  /\ At(i, "message")
  /\ writers' = writers \cup {i}
  /\ error_msg' = IF writers = {} THEN i ELSE TORN
  /\ Goto(i, "assign")
  /\ UNCHANGED <<main, locals, has_error, exec_status, exit_code, output, mutex,
                 emitted, failed>>

EndMessage(i) ==
  /\ At(i, "assign")
  /\ writers' = writers \ {i}
  /\ Goto(i, "status")
  /\ UNCHANGED <<main, locals, has_error, error_msg, exec_status, exit_code, output,
                 mutex, emitted, failed>>

(* Mutation: only a failure sets the status. *)
SetFailedStatus(i) ==
  /\ At(i, "status")
  /\ exec_status' = IF failing[i] THEN "kFailed" ELSE exec_status
  /\ failed' = IF failing[i] THEN failed \cup {i} ELSE failed
  /\ Goto(i, IF status[i] = "ok" THEN "done" ELSE "return")
  /\ UNCHANGED <<main, locals, error, exit_code, output, mutex, emitted>>

SetExecStatus(i) ==
  /\ At(i, "status")
  /\ exec_status' = IF failing[i] THEN "kFailed" ELSE "kSucceeded"
  /\ failed' = IF failing[i] THEN failed \cup {i} ELSE failed
  /\ Goto(i, IF status[i] = "ok" THEN "done" ELSE "return")
  /\ UNCHANGED <<main, locals, error, exit_code, output, mutex, emitted>>

(* A status other than absl::OkStatus() is made of a message. *)
Return(i) ==
  /\ At(i, "return")
  /\ Goto(i, "done")
  /\ UNCHANGED <<main, locals, context, emitted, failed>>

-----------------------------------------------------------------------------
Init ==
  /\ pc = "load" /\ node = 1 /\ result = NONE /\ threads = <<>>
  /\ step = [i \in Nodes |-> "idle"]
  /\ failing = [i \in Nodes |-> FALSE]
  /\ status = [i \in Nodes |-> "ok"]
  /\ copy = [i \in Nodes |-> <<>>]
  /\ handler = [i \in Nodes |-> "none"]
  /\ has_error = FALSE /\ error_msg = NONE /\ writers = {}
  /\ exec_status = "kNotStarted" /\ exit_code = 0
  /\ output = <<>> /\ mutex = NONE
  /\ emitted = [i \in Nodes |-> 0]
  /\ failed = {}

Main ==
  LoadConfigFromFile
  \/ CheckNode \/ RejectNode \/ StartThread \/ CallSync \/ ReturnSync \/ Join \/ Exit

Execute(i) ==
  \/ DagExecute(i) \/ Begin(i) \/ GeneratePath(i) \/ TryOpen(i) \/ TryAccess(i) \/ TryPopen(i)
  \/ ReadLine(i) \/ Lock(i) \/ Store(i) \/ Pclose(i) \/ Throw(i) \/ Abandon(i)
  \/ SetFlag(i) \/ BeginMessage(i) \/ EndMessage(i) \/ SetExecStatus(i) \/ Return(i)

Ended == ~Alive /\ UNCHANGED vars

Next == Main \/ (\E i \in Nodes : Execute(i) \/ Escape(i)) \/ Ended

Spec == Init /\ [][Next]_vars

(* The scheduler runs every thread, and every script ends. *)
FairSpec == Spec /\ WF_vars(Main) /\ \A i \in Nodes : WF_vars(Execute(i))

-----------------------------------------------------------------------------
(* Properties. *)

Steps == {"idle", "begin", "path", "open", "append", "store", "access", "popen",
          "read", "pclose", "flag", "message", "assign", "status", "return", "done"}

(* Every variable holds a value of its type. *)
TypeOK ==
  /\ pc \in {"load", "check", "dispatch", "sync", "join", "exited", "terminated"}
  /\ node \in 1 .. Len(Flow) + 1
  /\ result \in {NONE, "ok", "stopped", "unsupported", "not_found", "invalid", "internal"}
  /\ threads \in Seq(Nodes)
  /\ step \in [Nodes -> Steps]
  /\ failing \in [Nodes -> BOOLEAN]
  /\ status \in [Nodes -> {"ok", "invalid", "not_found", "internal"}]
  /\ copy \in [Nodes -> Seq(Nodes)]
  /\ handler \in [Nodes -> {"none", "inner", "outer"}]
  /\ has_error \in BOOLEAN
  /\ error_msg \in Nodes \cup {NONE, TORN}
  /\ exec_status \in {"kNotStarted", "kRunning", "kSucceeded", "kFailed"}
  /\ exit_code \in {0, 1}
  /\ output \in Seq(Nodes)
  /\ mutex \in Nodes \cup {NONE}
  /\ writers \subseteq Nodes
  /\ emitted \in [Nodes -> Nat]
  /\ failed \subseteq Nodes

(* No line of any script is lost from the collected output, however the scripts
   that run at the same time interleave their appends. *)
OutputComplete ==
  \A i \in Nodes :
    Cardinality({n \in 1 .. Len(output) : output[n] = i}) = emitted[i]

(* The context, the executor and the factory live on main()'s stack: when they
   are destroyed no execution is still using them. *)
ContextOutlivesThreads ==
  pc = "exited" => \A i \in Nodes : step[i] \in {"idle", "done"}

(* What makes the last two hold for any flow: the mutex is held exactly by the
   execution that is between reading and writing the output, whose copy is
   still the output; an execution in progress is a thread main() has yet to join,
   or the call main() is in; and no node is run before main() comes to it. *)
MutexInv ==
  \A i \in Nodes :
    /\ step[i] = "store" <=> mutex = i
    /\ step[i] = "store" => copy[i] = output
Started(i) == \E a \in 1 .. Len(threads) : threads[a] = i
ThreadsInv ==
  /\ pc \in {"dispatch", "sync"} => node \in Nodes
  /\ pc = "load" => node = 1
  /\ Alive => \A i \in Nodes :
       step[i] \in {"idle", "done"} \/ Started(i) \/ (pc = "sync" /\ i = node)
AheadIdle ==
  \A i \in Nodes :
    i > node \/ (i = node /\ pc \in {"load", "check", "dispatch"}) => step[i] = "idle"

(* All of it: the invariant from which no lost output and no use of a destroyed
   context follow for any flow. *)
FlowInv ==
  /\ TypeOK /\ MutexInv /\ OutputComplete
  /\ ThreadsInv /\ AheadIdle /\ ContextOutlivesThreads

(* The flow goes on to another node only while no script has reported a failure:
   "if there is already an error, end the flow". *)
ErrorStopsFlow == [][pc = "check" /\ pc' = "dispatch" => failed = {}]_vars

(* In a flow without threads the context tells the truth when the flow stops:
   the message and the status are those of the script that failed, which was
   the last to run. *)
ReportTruthful ==
  result = "stopped" =>
    /\ exec_status = "kFailed" /\ failed = {node - 1} /\ error_msg = node - 1
    /\ \A i \in Nodes : i >= node => step[i] = "idle"

(* The status settles: when nothing is running any more, the context does not say
   kRunning, however the threads' reports were interleaved and whatever the inner
   handlers caught, unless an exception reached the outer handler of an execution. *)
StatusSettled ==
  exec_status = "kRunning" =>
    \E i \in Nodes : step[i] \notin {"idle", "done"} \/ handler[i] = "outer"

(* The run ends: main() is not left waiting for a thread, and no thread for the
   output mutex, whatever is thrown where. *)
RunEnds == <>(pc \in {"exited", "terminated"})
=============================================================================
