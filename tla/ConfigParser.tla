---------------------------- MODULE ConfigParser ----------------------------
(***************************************************************************)
(* What the script runner makes of its configuration file: the parser      *)
(* (config_parser.cpp) and the factory that registers an executor for each *)
(* script (script_factory.cpp).                                            *)
(*                                                                         *)
(* A JSON object is a function of the names of its fields, a list a        *)
(* sequence.  A path is a sequence of parts, the last of which is its      *)
(* suffix.  Modules and sensor models are read by nobody and left out.     *)
(***************************************************************************)
EXTENDS Naturals, Sequences

CONSTANTS
  Document,  \* the configuration file
  NONE       \* no executor

Field(object, name, default) ==
  IF name \in DOMAIN object THEN object[name] ELSE default

(* The script's name is preferred to its id. *)
ParseScripts(list) ==
  [i \in DOMAIN list |->
     [script_id |-> Field(list[i], "script_name", Field(list[i], "script_id", "")),
      path |-> Field(list[i], "path", <<>>)]]

(* A node that does not say otherwise is asynchronous. *)
AsyncAlways(object) == TRUE \* mutation: the field is not looked for
Async(object) == Field(object, "async", TRUE)

ParseFlow(list) ==
  [i \in DOMAIN list |->
     [step_type |-> Field(list[i], "step_type", ""),
      script_name |-> Field(list[i], "script_name", ""),
      condition |-> Field(list[i], "condition", ""),
      true_script_name |-> Field(list[i], "true_script_name", ""),
      false_script_name |-> Field(list[i], "false_script_name", ""),
      async |-> Async(list[i])]]

Scripts == ParseScripts(Field(Document, "scripts", <<>>))
Flow == ParseFlow(Field(Document, "flow", <<>>))

(* LoadConfigFromFile() fails if there is no file, if it is not JSON, or if it
   names no device. *)
LoadStatuses ==
  {"not_found", "invalid"} \cup (IF "device" \in DOMAIN Document THEN {"ok"} ELSE {})

-----------------------------------------------------------------------------
(* The type of a script is that of the suffix of its path. *)
EndsWith(path, suffix) == path # <<>> /\ path[Len(path)] = suffix
GetScriptType(script) ==
  CASE EndsWith(script.path, ".sh") -> "shell"
    [] EndsWith(script.path, ".dag") -> "dag"
    [] OTHER -> "unknown"

(* ScriptFactory::Init() stops at the first script of unknown type and keeps those
   before it; a later script replaces an earlier one of the same id. *)
Loaded ==
  {i \in DOMAIN Scripts : \A m \in 1 .. i : GetScriptType(Scripts[m]) # "unknown"}
GetScriptExecutor(id) ==
  LET mine == {i \in Loaded : Scripts[i].script_id = id}
  IN  IF mine = {} THEN NONE
      ELSE GetScriptType(Scripts[CHOOSE i \in mine : \A m \in mine : m <= i])
=============================================================================
