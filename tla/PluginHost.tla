----------------------------- MODULE PluginHost -----------------------------
(***************************************************************************)
(* The plugin host (plugin): manifests found in a directory become modules *)
(* of the engine, and Analyze runs one as a child process that is bounded  *)
(* in time and output.  A plugin may write, end, crash, flood its output   *)
(* and start a helper that inherits its output, at any moment.             *)
(*                                                                         *)
(* Output is counted in pieces: a plugin's response is complete after      *)
(* ResponseSize of them, Cap of them are kept (maxOutput).                 *)
(***************************************************************************)
EXTENDS Naturals, Sequences, SequencesExt, FiniteSets, FiniteSetsExt

CONSTANTS
  Directories,   \* what --dir may be: "missing", "unreadable" or "read" with its manifests
  Builtin,       \* the modules registered before, a sequence of names
  ResponseSize, Cap,
  MaxOutput      \* bound: pieces written

VARIABLES
  listing,   \* the directory
  registry,  \* the engine's modules in order: [name, file], file "" for a builtin
  notice,    \* what RegisterDir returned
  child,     \* the process of the running Analyze
  runCtx,    \* its context: "live", "deadline" or "cancelled"
  delay,     \* the timer of WaitDelay: "off", "on" or "over"
  result     \* what Analyze returned: its kind and the module stamped on the findings

pluginVars == <<listing, registry, notice, child, runCtx, delay, result>>

NoChild == [state |-> "none", code |-> 0, wrote |-> 0, helper |-> "none", reports |-> FALSE, of |-> ""]
None == [kind |-> "none", module |-> ""]

(***************************************************************************)
(*                                 Loading                                 *)
(***************************************************************************)
\* Load and newPlugin: small, strict JSON, named, with a command that is there
\* or is looked up in PATH.
valid(m) == m.small /\ m.decodes /\ m.name # "" /\ m.argv /\ (m.exec = "bare" \/ m.exec = "found")

considered(m) == ~m.isDir /\ m.json

\* LoadDir: the valid manifests by name (sort.Slice is not stable), and whether any
\* was skipped.
loadable(d) == {m \in d : considered(m) /\ valid(m)}
skipped(d) == {m \in d : considered(m) /\ ~valid(m)}
byName(s) == \A i, j \in DOMAIN s : i < j => s[i].rank <= s[j].rank

\* Registry.Register replaces a module of the same name in its place.
register(reg, m) ==
  LET at == {i \in DOMAIN reg : reg[i].name = m.name} IN
  IF at = {} THEN Append(reg, [name |-> m.name, file |-> m.file])
  ELSE [reg EXCEPT ![Min(at)].file = m.file]

builtins == [i \in DOMAIN Builtin |-> [name |-> Builtin[i], file |-> ""]]

\* RegisterDir: a directory that cannot be read yields no host at all, whose
\* plugins it goes on to register; that ends the process.
RegisterDir ==
  /\ notice = "none"
  /\ \/ listing.state = "missing" /\ registry' = builtins /\ notice' = "ok"
     \/ listing.state = "unreadable" /\ UNCHANGED registry /\ notice' = "panic"
     \/ /\ listing.state = "read"
        /\ \E order \in SetToSeqs(loadable(listing.manifests)) :
             byName(order) /\ registry' = FoldLeft(register, builtins, order)
        /\ notice' = IF skipped(listing.manifests) = {} THEN "ok" ELSE "skipped"
  /\ UNCHANGED <<listing, child, runCtx, delay, result>>

(***************************************************************************)
(*                                 Analyze                                 *)
(***************************************************************************)
\* The helper keeps the output open after the child.
pipeOpen == child.state = "running" \/ child.helper # "none"
waiting == child.state # "none" /\ result = None

\* The engine calls a plugin that supports the target.  A command that is not
\* there cannot be started.
Analyze ==
  /\ notice \in {"ok", "skipped"} /\ child.state = "none" /\ result = None
  /\ \E i \in DOMAIN registry, reports \in BOOLEAN :
       /\ registry[i].file # ""
       /\ \/ child' = [NoChild EXCEPT !.state = "running", !.reports = reports, !.of = registry[i].name]
             /\ UNCHANGED result
          \/ ~reports /\ result' = [None EXCEPT !.kind = "exec failed"] /\ UNCHANGED child
  /\ runCtx' = "live" /\ delay' = "off"
  /\ UNCHANGED <<listing, registry, notice>>

\* What the plugin does.
Write ==
  /\ waiting /\ pipeOpen /\ delay # "over" /\ child.wrote < MaxOutput
  /\ child' = [child EXCEPT !.wrote = @ + 1]
  /\ UNCHANGED <<listing, registry, notice, runCtx, delay, result>>
Fork ==
  /\ waiting /\ child.state = "running" /\ child.helper = "none"
  /\ \E h \in {"group", "session"} : child' = [child EXCEPT !.helper = h]
  /\ UNCHANGED <<listing, registry, notice, runCtx, delay, result>>
HelperEnds ==
  /\ waiting /\ child.helper # "none"
  /\ child' = [child EXCEPT !.helper = "none"]
  /\ UNCHANGED <<listing, registry, notice, runCtx, delay, result>>

\* Wait sees the child end: from then on the output is awaited for WaitDelay.
Exit ==
  /\ waiting /\ child.state = "running"
  /\ \E code \in {0, 1} : child' = [child EXCEPT !.state = "exited", !.code = code]
  /\ delay' = "on"
  /\ UNCHANGED <<listing, registry, notice, runCtx, result>>

\* The deadline passes or the scan is cancelled: the process group is killed, with
\* a helper that is in it, unless the child ended before.
End(why) ==
  /\ waiting /\ runCtx = "live"
  /\ runCtx' = why
  /\ IF child.state = "running"
       THEN child' = [child EXCEPT !.state = "killed", !.code = 1,
                                   !.helper = IF @ = "group" THEN "none" ELSE @]
            /\ delay' = "on"
       ELSE UNCHANGED <<child, delay>>
  /\ UNCHANGED <<listing, registry, notice, result>>
Deadline == End("deadline")
Cancel == End("cancelled")

\* Variant: WaitDelay is not set.
DelayNeverOver == FALSE /\ UNCHANGED pluginVars

DelayOver ==
  /\ waiting /\ delay = "on"
  /\ delay' = "over"
  /\ UNCHANGED <<listing, registry, notice, child, runCtx, result>>

\* limitedWriter keeps the first pieces; blanks around the response are no matter,
\* a response that is cut or followed by more does not decode.
kept == Min({child.wrote, Cap})
parsed ==
  IF kept = 0 THEN "no output"
  ELSE IF kept # ResponseSize THEN "decode"
  ELSE IF child.reports THEN "reported" ELSE "findings"

\* Variant: what a plugin wrote counts whatever it exited with.
verdictOfOutput == IF runCtx = "deadline" THEN "timed out" ELSE parsed

\* What run makes of the end: a deadline before everything else, then the error of
\* the child or of the wait.
verdict ==
  IF runCtx = "deadline" THEN "timed out"
  ELSE IF child.code # 0 \/ (runCtx = "cancelled" /\ child.state = "killed") \/ pipeOpen THEN "exec failed"
  ELSE parsed

\* Run returns when the output is closed, or when the delay is over and it is
\* closed for the plugin.
Return ==
  /\ waiting /\ child.state \in {"exited", "killed"}
  /\ ~pipeOpen \/ delay = "over"
  /\ result' = [kind |-> verdict, module |-> IF verdict = "findings" THEN child.of ELSE ""]
  /\ UNCHANGED <<listing, registry, notice, child, runCtx, delay>>

PluginInit ==
  /\ listing \in Directories
  /\ registry = <<>> /\ notice = "none" /\ child = NoChild
  /\ runCtx = "live" /\ delay = "off" /\ result = None

\* The scan is over, or there was no plugin to run.
Over == (result # None \/ (notice # "none" /\ child = NoChild)) /\ UNCHANGED pluginVars

PluginNext ==
  \/ RegisterDir \/ Analyze \/ Write \/ Fork \/ HelperEnds \/ Exit
  \/ Deadline \/ Cancel \/ DelayOver \/ Return \/ Over

\* Timers fire and Wait returns; nothing is asked of the plugin.
PluginFairness ==
  /\ WF_pluginVars(Deadline) /\ WF_pluginVars(DelayOver) /\ WF_pluginVars(Return)

PluginSpec == PluginInit /\ [][PluginNext]_pluginVars /\ PluginFairness

(***************************************************************************)
(*                               Properties                                *)
(***************************************************************************)
\* Findings come only from a plugin that ended by itself without an error, before
\* the deadline, whose whole response and no more was read to the end of the
\* output, and they carry the name it was registered under (plugin.go:123-127).
FindingsAreWhole ==
  result.kind = "findings" =>
    /\ child.state = "exited" /\ child.code = 0 /\ runCtx # "deadline"
    /\ child.helper = "none" /\ ~child.reports
    /\ child.wrote = ResponseSize \/ (Cap = ResponseSize /\ child.wrote > Cap)
    /\ \E i \in DOMAIN registry : registry[i].name = result.module /\ registry[i].file # ""

\* exec.go:76-78: Analyze returns whatever the plugin does: hang, flood, crash or
\* leave behind a helper that is out of the reach of the kill.
AnalyzeReturns == (child.state # "none") ~> (result # None)
=============================================================================
