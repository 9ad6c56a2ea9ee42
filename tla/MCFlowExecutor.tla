--------------------------- MODULE MCFlowExecutor ---------------------------
(* Configuration files for model checking FlowExecutor. *)
EXTENDS FlowExecutor, TLC

Shell(s) == [script_name |-> s, script_id |-> "ignored", path |-> <<s, ".sh">>]
ShellById(s) == [script_id |-> s, path |-> <<s, ".sh">>]
Dag(s) == [script_id |-> s, path |-> <<s, ".dag">>]
Unknown(s) == [script_name |-> s, path |-> <<s, ".txt">>]

Common(s) == [step_type |-> "common", script_name |-> s]
CommonAsync(s, async) == Common(s) @@ [async |-> async]
Branch(yes, no) ==
  [step_type |-> "branch", condition |-> "device_model == FC-5",
   true_script_name |-> yes, false_script_name |-> no]

(* Two threads, one of them because its node does not say "async", then a script
   that is not loaded: it comes after one of unknown type. *)
TwoThreads ==
  [device |-> "d",
   scripts |-> <<Shell("s1"), ShellById("s2"), Unknown("s4"), Shell("s3")>>,
   flow |-> <<Common("s1"), CommonAsync("s2", TRUE), Common("s3")>>]

(* Every kind of node, one after the other; the second "s2" replaces the first, the
   last script has no name, and the last node is of no type. *)
Sequential ==
  [device |-> "d",
   scripts |-> <<Shell("s1"), Shell("s2"), Dag("s2"), [path |-> <<"s0", ".sh">>]>>,
   flow |-> <<CommonAsync("s1", FALSE), Branch("s1", "s2"), CommonAsync("s2", FALSE),
              [step_type |-> "common", async |-> FALSE], [script_name |-> "s1"]>>]

(* config/document_20251204_111812.json: the first two steps say "async": false. *)
Step(n, async) ==
  [step_type |-> "common", script_name |-> n, condition |-> "runtime_data.error == false"]
    @@ async
Deployment ==
  LET sync == [async |-> FALSE]
  IN  [device |-> "FC-5",
       output_file_path |-> "logs",
       scripts |-> <<Shell("step1"), ShellById("step2"), ShellById("step3"),
                     ShellById("step4"), ShellById("step5")>>,
       flow |-> <<Step("step1", sync), Step("step2", sync),
                  Step("step3", <<>>), Step("step4", <<>>), Step("step5", <<>>)>>]
=============================================================================
