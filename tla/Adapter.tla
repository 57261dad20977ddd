------------------------------- MODULE Adapter -------------------------------
(***************************************************************************)
(* The execution pipeline of the Holon Claude adapter: run_adapter() in    *)
(* src/images/adapter-claude/adapter.py, one flow of control from loading *)
(* the inputs to the exit status, together with the parts of its          *)
(* environment it reads and writes: the git workspace, the streamed       *)
(* agent session, the agent acting on the workspace while it streams, and *)
(* the output directory the host reads afterwards.                        *)
(*                                                                         *)
(* Data is abstracted to what the properties tell apart: a workspace file *)
(* holds one of a few versions, an assistant text is a model value, an    *)
(* output file records only who wrote it and who owns it.                 *)
(***************************************************************************)
EXTENDS Naturals, Sequences, FiniteSets

CONSTANTS
    Files,          \* tracked (non-ignored) workspace files
    Versions,       \* contents a workspace file can hold
    Absent,         \* a file that does not exist
    Texts,          \* payloads of assistant TextBlocks
    MaxEvents,      \* bound on non-terminal messages in one response stream
    MaxAgentSteps,  \* bound on the agent's own actions on the workspace
    GitMayFail,     \* git commands can exit non-zero
    AgentMayCommit, \* the agent may run `git commit` itself (bypassPermissions)
    OutputReused,   \* /holon/output may hold files of an earlier run
    ChownMayFail,   \* os.chown can raise (e.g. EPERM on a mounted volume)
    RepoStates      \* the workspaces the run may start on, a subset of
                    \* {"none", "clean", "dirty", "unborn"}: no .git, a clean
                    \* checkout of HEAD, a checkout with uncommitted (staged
                    \* or unstaged) changes, or `git init` with no commit

ASSUME /\ Absent \notin Versions
       /\ MaxEvents \in Nat /\ MaxAgentSteps \in Nat
       /\ RepoStates \subseteq {"none", "clean", "dirty", "unborn"}

Content == Versions \cup {Absent}

\* The output files: manifest.json, diff.patch, summary.md, evidence/execution.log
OutFiles == {"manifest", "patch", "summary", "log"}

\* StreamEvent: AssistantMessage with a TextBlock, any other message, ResultMessage
Messages ==
    [kind : {"text"}, text : Texts]
      \cup {[kind |-> "other"]}
      \cup [kind : {"result"}, isError : BOOLEAN]

FinalMarker == [kind |-> "final"]   \* the "--- FINAL OUTPUT ---" line

NoCommit == [f \in Files |-> Absent]  \* the empty tree diffed against with no HEAD

VARIABLES
    pc,            \* where run_adapter is
    exitCode,      \* the process exit status, meaningful once pc = "exited"
    inputsPresent, \* spec.yaml, system.md and user.md all exist
    hasGit,        \* /holon/workspace/.git exists
    head,          \* tree of HEAD, or NoCommit
    index,         \* the git index
    worktree,      \* the workspace files
    settings,      \* ~/.claude/settings.json: "absent", "present" or "synced"
    log,           \* lines of evidence/execution.log written by this run
    success,       \* the local `success` of run_adapter
    patch,         \* patch_content: changed file -> new content
    manifest,      \* content of manifest.json when this run wrote it
    files,         \* provenance of each output file
    owner,         \* owner of each output file
    summaryReadable, \* summary.md can be decoded as text
    hostIds,       \* HOST_UID/HOST_GID: "unset", "valid" or "malformed"
    \* history variables, read only by properties
    preRun,          \* the workspace when the agent session starts
    sessionStarted,  \* control reached client.connect()
    headAtSession,   \* HEAD when the agent session starts
    agentSteps,      \* actions the agent has taken
    agentCommitted,  \* the agent created a commit
    gitFailed,       \* an unchecked git command of the artifact step failed
    chownFailed,     \* fix_permissions stopped on an exception
    manifestWrites   \* times manifest.json was written by this run

codeVars == <<pc, exitCode, hasGit, head, index, worktree, settings, log,
              success, patch, manifest, files, owner, summaryReadable>>
envVars == <<inputsPresent, hostIds>>
historyVars == <<preRun, sessionStarted, headAtSession, agentSteps,
                 agentCommitted, gitFailed, chownFailed, manifestWrites>>
vars == <<codeVars, envVars, historyVars>>

Pcs == {"start", "baseline", "sync", "connect", "query", "stream", "finish",
        "stage", "manifest", "patch", "summary", "fixperms", "except", "exited"}

Provenance == {"absent", "stale", "agent", "this"}

TypeOK ==
    /\ pc \in Pcs
    /\ exitCode \in {0, 1}
    /\ inputsPresent \in BOOLEAN
    /\ hasGit \in BOOLEAN
    /\ head \in [Files -> Content]
    /\ index \in [Files -> Content]
    /\ worktree \in [Files -> Content]
    /\ settings \in {"absent", "present", "synced"}
    /\ log \in Seq(Messages \cup {FinalMarker})
    /\ success \in BOOLEAN
    /\ \E S \in SUBSET Files : patch \in [S -> Content]
    /\ manifest \in [outcome : {"none", "success", "failure"}, error : BOOLEAN]
    /\ files \in [OutFiles -> Provenance]
    /\ owner \in [OutFiles -> {"root", "host"}]
    /\ summaryReadable \in BOOLEAN
    /\ hostIds \in {"unset", "valid", "malformed"}
    /\ preRun \in [Files -> Content]
    /\ sessionStarted \in BOOLEAN
    /\ headAtSession \in [Files -> Content]
    /\ agentSteps \in 0..MaxAgentSteps
    /\ agentCommitted \in BOOLEAN
    /\ gitFailed \in BOOLEAN
    /\ chownFailed \in BOOLEAN
    /\ manifestWrites \in 0..2

-----------------------------------------------------------------------------
(* Helpers                                                                 *)

\* `git diff --cached`: the staged tree against HEAD (the empty tree if none)
DiffCached(idx, hd) == [f \in {g \in Files : idx[g] # hd[g]} |-> idx[f]]

\* what `git apply` of a patch does to a tree
Apply(p, tree) == [f \in Files |-> IF f \in DOMAIN p THEN p[f] ELSE tree[f]]

\* open(path, 'w'): creates the file owned by the writer (root) if it is
\* absent; truncating an existing file keeps its owner
WriteOwner(f) == IF files[f] = "absent" THEN "root" ELSE owner[f]

Present == {f \in OutFiles : files[f] # "absent"}

(* fix_permissions(directory): nothing without both ids; int() of a      *)
(* malformed id raises inside the try; otherwise os.chown the directory   *)
(* and then every entry os.walk yields, top-down: the three files of      *)
(* /holon/output in listdir order, then evidence/execution.log. The first *)
(* exception ends the walk. Returns the set of files re-owned and whether *)
(* the walk stopped on an exception, given the files present.             *)
FixPermissionsOutcomes(present) ==
    LET top == present \ {"log"}
        full == {[owned |-> present, failed |-> FALSE]}
        partial == {[owned |-> S, failed |-> TRUE] :
                      S \in {T \in SUBSET present :
                               "log" \in T => top \subseteq T}}
    IN CASE hostIds # "valid" -> {[owned |-> {}, failed |-> FALSE]}
         [] ChownMayFail       -> full \cup partial
         [] OTHER              -> full

ApplyFixPermissions(r) ==
    /\ owner' = [f \in OutFiles |-> IF f \in r.owned THEN "host" ELSE owner[f]]
    /\ chownFailed' = (chownFailed \/ r.failed)

-----------------------------------------------------------------------------
(* Initial states                                                          *)

\* Output of an earlier run left in a reused /holon/output
StaleOutputs ==
    IF OutputReused
    THEN {[f \in OutFiles |-> "absent"], [f \in OutFiles |-> "stale"]}
    ELSE {[f \in OutFiles |-> "absent"]}

Init ==
    /\ pc = "start"
    /\ exitCode = 0
    /\ inputsPresent \in BOOLEAN
    /\ worktree \in [Files -> Content]
    /\ \/ "none" \in RepoStates
          /\ hasGit = FALSE /\ head = NoCommit /\ index = NoCommit
       \/ "clean" \in RepoStates
          /\ hasGit = TRUE /\ head = worktree /\ index = worktree
       \/ "dirty" \in RepoStates
          /\ hasGit = TRUE /\ head \in [Files -> Content] \ {worktree}
          /\ index \in {head, worktree}
       \/ "unborn" \in RepoStates
          /\ hasGit = TRUE /\ head = NoCommit /\ index = NoCommit
    /\ settings \in {"absent", "present"}
    /\ log = <<>>
    /\ success = TRUE
    /\ patch = <<>>
    /\ manifest = [outcome |-> "none", error |-> FALSE]
    /\ files \in StaleOutputs
    /\ owner \in {[f \in OutFiles |-> o] : o \in {"root", "host"}}
    /\ summaryReadable = TRUE
    /\ hostIds \in {"unset", "valid", "malformed"}
    /\ preRun = worktree
    /\ sessionStarted = FALSE
    /\ headAtSession = head
    /\ agentSteps = 0
    /\ agentCommitted = FALSE
    /\ gitFailed = FALSE
    /\ chownFailed = FALSE
    /\ manifestWrites = 0

-----------------------------------------------------------------------------
(* Actions of run_adapter, in program order                                *)

\* Create /holon/output and its evidence directory, then load spec.yaml and
\* the two compiled prompts; a missing input is sys.exit(1).
LoadInputs ==
    /\ pc = "start"
    /\ IF inputsPresent
       THEN pc' = "baseline" /\ UNCHANGED exitCode
       ELSE pc' = "exited" /\ exitCode' = 1
    /\ UNCHANGED <<hasGit, head, index, worktree, settings, log, success,
                   patch, manifest, files, owner, summaryReadable>>
    /\ UNCHANGED <<envVars, historyVars>>

\* The git baseline. The config commands are check=False and have no
\* effect modelled here. Without .git: `git init`, the .gitignore append,
\* `git add -A` and `git commit`, where init and commit are check=True and
\* their exception is not caught (the process dies with status 1). With
\* .git, whatever history exists is taken as the baseline.
Baseline ==
    /\ pc = "baseline"
    /\ IF hasGit
       THEN /\ pc' = "sync"
            /\ UNCHANGED <<exitCode, hasGit, head, index>>
       ELSE \/ /\ pc' = "sync"
               /\ hasGit' = TRUE
               /\ index' = worktree
               /\ head' = worktree
               /\ UNCHANGED exitCode
            \/ /\ GitMayFail          \* `git init` fails
               /\ pc' = "exited" /\ exitCode' = 1
               /\ UNCHANGED <<hasGit, head, index>>
            \/ /\ GitMayFail          \* `git add` or `git commit` fails after init
               /\ pc' = "exited" /\ exitCode' = 1
               /\ hasGit' = TRUE
               /\ index' \in {NoCommit, worktree}
               /\ UNCHANGED head
    /\ UNCHANGED <<worktree, settings, log, success, patch, manifest, files,
                   owner, summaryReadable>>
    /\ UNCHANGED <<envVars, historyVars>>

\* Copy the auth environment into ~/.claude/settings.json when the file
\* exists; any exception is caught and only printed.
SyncSettings ==
    /\ pc = "sync"
    /\ pc' = "connect"
    /\ \/ settings = "absent" /\ UNCHANGED settings
       \/ settings # "absent" /\ settings' = "synced"
       \/ settings # "absent" /\ UNCHANGED settings   \* read or write raised
    /\ UNCHANGED <<exitCode, hasGit, head, index, worktree, log, success,
                   patch, manifest, files, owner, summaryReadable>>
    /\ UNCHANGED <<envVars, historyVars>>

\* Build ClaudeAgentOptions and the client, take start_time and await
\* client.connect(); a failure goes to the except block.
Connect ==
    /\ pc = "connect"
    /\ pc' \in {"query", "except"}
    /\ sessionStarted' = TRUE
    /\ preRun' = worktree
    /\ headAtSession' = head
    /\ UNCHANGED <<exitCode, hasGit, head, index, worktree, settings, log,
                   success, patch, manifest, files, owner, summaryReadable>>
    /\ UNCHANGED <<envVars, agentSteps, agentCommitted, gitFailed,
                   chownFailed, manifestWrites>>

\* Fault variant: open(execution.log, 'a'): a log a previous run left in a
\* reused /holon/output is extended, not replaced.
QueryAppendLog ==
    /\ pc = "query"
    /\ pc' \in {"stream", "except"}
    /\ log' = <<>>
    /\ files' = [files EXCEPT !["log"] = IF @ = "absent" THEN "this" ELSE @]
    /\ owner' = [owner EXCEPT !["log"] = WriteOwner("log")]
    /\ UNCHANGED <<exitCode, hasGit, head, index, worktree, settings,
                   success, patch, manifest, summaryReadable>>
    /\ UNCHANGED <<envVars, historyVars>>

\* open(execution.log, 'w') truncates the log, then await client.query().
Query ==
    /\ pc = "query"
    /\ pc' \in {"stream", "except"}
    /\ log' = <<>>
    /\ files' = [files EXCEPT !["log"] = "this"]
    /\ owner' = [owner EXCEPT !["log"] = WriteOwner("log")]
    /\ UNCHANGED <<exitCode, hasGit, head, index, worktree, settings,
                   success, patch, manifest, summaryReadable>>
    /\ UNCHANGED <<envVars, historyVars>>

(***************************************************************************)
(* The response stream: `async for msg in client.receive_response()`. Each *)
(* message is written to the log; TextBlocks extend final_output; a        *)
(* ResultMessage sets success from is_error and breaks. Nothing bounds     *)
(* the wait for the next message: no timeout wraps the loop.               *)
(***************************************************************************)
\* Fault variant: `if not msg.is_error: success = False`.
ReceiveMessageInvertedError ==
    /\ pc = "stream"
    /\ \E m \in Messages :
          /\ m.kind # "result" => Len(log) < MaxEvents
          /\ log' = Append(log, m)
          /\ success' = IF m.kind = "result" /\ ~m.isError THEN FALSE ELSE success
          /\ pc' = IF m.kind = "result" THEN "finish" ELSE "stream"
    /\ UNCHANGED <<exitCode, hasGit, head, index, worktree, settings, patch,
                   manifest, files, owner, summaryReadable>>
    /\ UNCHANGED <<envVars, historyVars>>

\* Fault variant: no `break` after the ResultMessage; the loop keeps reading.
ReceiveMessageNoBreak ==
    /\ pc = "stream"
    /\ \E m \in Messages :
          /\ m.kind # "result" => Len(log) < MaxEvents
          /\ Len(log) < MaxEvents + 1
          /\ log' = Append(log, m)
          /\ success' = IF m.kind = "result" /\ m.isError THEN FALSE ELSE success
          /\ UNCHANGED pc
    /\ UNCHANGED <<exitCode, hasGit, head, index, worktree, settings, patch,
                   manifest, files, owner, summaryReadable>>
    /\ UNCHANGED <<envVars, historyVars>>

ReceiveMessage ==
    /\ pc = "stream"
    /\ \E m \in Messages :
          /\ m.kind # "result" => Len(log) < MaxEvents
          /\ log' = Append(log, m)
          /\ success' = IF m.kind = "result" /\ m.isError THEN FALSE ELSE success
          /\ pc' = IF m.kind = "result" THEN "finish" ELSE "stream"
    /\ UNCHANGED <<exitCode, hasGit, head, index, worktree, settings, patch,
                   manifest, files, owner, summaryReadable>>
    /\ UNCHANGED <<envVars, historyVars>>

\* The iterator is exhausted without a ResultMessage: the loop just ends.
StreamEnds ==
    /\ pc = "stream"
    /\ pc' = "finish"
    /\ UNCHANGED <<exitCode, hasGit, head, index, worktree, settings, log,
                   success, patch, manifest, files, owner, summaryReadable>>
    /\ UNCHANGED <<envVars, historyVars>>

\* The SDK raises while streaming: control goes to the except block.
StreamRaises ==
    /\ pc = "stream"
    /\ pc' = "except"
    /\ UNCHANGED <<exitCode, hasGit, head, index, worktree, settings, log,
                   success, patch, manifest, files, owner, summaryReadable>>
    /\ UNCHANGED <<envVars, historyVars>>

\* result = final_output and the FINAL OUTPUT trailer, then the log closes.
FinishStream ==
    /\ pc = "finish"
    /\ pc' = "stage"
    /\ log' = Append(log, FinalMarker)
    /\ UNCHANGED <<exitCode, hasGit, head, index, worktree, settings, success,
                   patch, manifest, files, owner, summaryReadable>>
    /\ UNCHANGED <<envVars, historyVars>>

-----------------------------------------------------------------------------
(***************************************************************************)
(* The agent (the Claude Code CLI the SDK drives, in permission mode       *)
(* bypassPermissions and cwd /holon/workspace) acts while the response     *)
(* streams: it edits files, may commit them, and may write summary.md into *)
(* /holon/output. These are its actions, not the adapter's.                *)
(***************************************************************************)
AgentActive == pc = "stream" /\ agentSteps < MaxAgentSteps

AgentEdit ==
    /\ AgentActive
    /\ \E f \in Files, c \in Content :
          /\ c # worktree[f]
          /\ worktree' = [worktree EXCEPT ![f] = c]
    /\ agentSteps' = agentSteps + 1
    /\ UNCHANGED <<pc, exitCode, hasGit, head, index, settings, log, success,
                   patch, manifest, files, owner, summaryReadable>>
    /\ UNCHANGED <<envVars, preRun, sessionStarted, headAtSession,
                   agentCommitted, gitFailed, chownFailed, manifestWrites>>

\* `git add -A && git commit` run by the agent through its shell tool
AgentCommit ==
    /\ AgentActive
    /\ AgentMayCommit
    /\ worktree # head
    /\ index' = worktree
    /\ head' = worktree
    /\ agentSteps' = agentSteps + 1
    /\ agentCommitted' = TRUE
    /\ UNCHANGED <<pc, exitCode, hasGit, worktree, settings, log, success,
                   patch, manifest, files, owner, summaryReadable>>
    /\ UNCHANGED <<envVars, preRun, sessionStarted, headAtSession, gitFailed,
                   chownFailed, manifestWrites>>

\* The agent writes /holon/output/summary.md, as text or as bytes that are
\* not valid in the adapter's text encoding.
AgentWriteSummary ==
    /\ AgentActive
    /\ files' = [files EXCEPT !["summary"] = "agent"]
    /\ owner' = [owner EXCEPT !["summary"] = WriteOwner("summary")]
    /\ summaryReadable' \in BOOLEAN
    /\ agentSteps' = agentSteps + 1
    /\ UNCHANGED <<pc, exitCode, hasGit, head, index, worktree, settings, log,
                   success, patch, manifest>>
    /\ UNCHANGED <<envVars, preRun, sessionStarted, headAtSession,
                   agentCommitted, gitFailed, chownFailed, manifestWrites>>

-----------------------------------------------------------------------------
(* Artifact generation on the success path                                 *)

\* Fault variant: the diff is taken without `git add -A` first.
StageAndDiffWithoutAdd ==
    /\ pc = "stage"
    /\ pc' = "manifest"
    /\ \E diffOk \in BOOLEAN :
          /\ ~GitMayFail => diffOk
          /\ patch' = IF diffOk THEN DiffCached(index, head) ELSE <<>>
          /\ gitFailed' = (gitFailed \/ ~diffOk)
    /\ UNCHANGED <<exitCode, hasGit, head, index, worktree, settings, log,
                   success, manifest, files, owner, summaryReadable>>
    /\ UNCHANGED <<envVars, preRun, sessionStarted, headAtSession, agentSteps,
                   agentCommitted, chownFailed, manifestWrites>>

\* `git add -A` and `git diff --cached --binary --full-index`; neither
\* return code is looked at, so a failing add leaves the index as it was
\* and a failing diff yields an empty patch_content.
StageAndDiff ==
    /\ pc = "stage"
    /\ pc' = "manifest"
    /\ \E addOk, diffOk \in BOOLEAN :
          /\ ~GitMayFail => addOk /\ diffOk
          /\ index' = IF addOk THEN worktree ELSE index
          /\ patch' = IF diffOk THEN DiffCached(index', head) ELSE <<>>
          /\ gitFailed' = (gitFailed \/ ~addOk \/ ~diffOk)
    /\ UNCHANGED <<exitCode, hasGit, head, worktree, settings, log, success,
                   manifest, files, owner, summaryReadable>>
    /\ UNCHANGED <<envVars, preRun, sessionStarted, headAtSession, agentSteps,
                   agentCommitted, chownFailed, manifestWrites>>

\* Fault variant: the manifest's outcome carries the status ("completed").
WriteManifestStatusAsOutcome ==
    /\ pc = "manifest"
    /\ pc' = "patch"
    /\ manifest' = [outcome |-> "completed", error |-> FALSE]
    /\ files' = [files EXCEPT !["manifest"] = "this"]
    /\ owner' = [owner EXCEPT !["manifest"] = WriteOwner("manifest")]
    /\ manifestWrites' = manifestWrites + 1
    /\ UNCHANGED <<exitCode, hasGit, head, index, worktree, settings, log,
                   success, patch, summaryReadable>>
    /\ UNCHANGED <<envVars, preRun, sessionStarted, headAtSession, agentSteps,
                   agentCommitted, gitFailed, chownFailed>>

\* manifest.json with the outcome taken from `success`
WriteManifest ==
    /\ pc = "manifest"
    /\ pc' = "patch"
    /\ manifest' = [outcome |-> IF success THEN "success" ELSE "failure",
                    error |-> FALSE]
    /\ files' = [files EXCEPT !["manifest"] = "this"]
    /\ owner' = [owner EXCEPT !["manifest"] = WriteOwner("manifest")]
    /\ manifestWrites' = manifestWrites + 1
    /\ UNCHANGED <<exitCode, hasGit, head, index, worktree, settings, log,
                   success, patch, summaryReadable>>
    /\ UNCHANGED <<envVars, preRun, sessionStarted, headAtSession, agentSteps,
                   agentCommitted, gitFailed, chownFailed>>

WritePatch ==
    /\ pc = "patch"
    /\ pc' = "summary"
    /\ files' = [files EXCEPT !["patch"] = "this"]
    /\ owner' = [owner EXCEPT !["patch"] = WriteOwner("patch")]
    /\ UNCHANGED <<exitCode, hasGit, head, index, worktree, settings, log,
                   success, patch, manifest, summaryReadable>>
    /\ UNCHANGED <<envVars, historyVars>>

\* An existing summary.md is read and written back verbatim (its content
\* keeps its provenance); reading undecodable bytes raises. Without one the
\* fallback summary is written.
WriteSummary ==
    /\ pc = "summary"
    /\ IF files["summary"] = "absent"
       THEN /\ pc' = "fixperms"
            /\ files' = [files EXCEPT !["summary"] = "this"]
            /\ owner' = [owner EXCEPT !["summary"] = "root"]
       ELSE /\ pc' = IF summaryReadable THEN "fixperms" ELSE "except"
            /\ UNCHANGED <<files, owner>>
    /\ UNCHANGED <<exitCode, hasGit, head, index, worktree, settings, log,
                   success, patch, manifest, summaryReadable>>
    /\ UNCHANGED <<envVars, historyVars>>

\* fix_permissions(output_dir), then run_adapter returns: exit status 0.
FinishSuccess ==
    /\ pc = "fixperms"
    /\ \E r \in FixPermissionsOutcomes(Present) : ApplyFixPermissions(r)
    /\ pc' = "exited"
    /\ exitCode' = 0
    /\ UNCHANGED <<hasGit, head, index, worktree, settings, log, success,
                   patch, manifest, files, summaryReadable>>
    /\ UNCHANGED <<envVars, preRun, sessionStarted, headAtSession, agentSteps,
                   agentCommitted, gitFailed, manifestWrites>>

\* Fault variant: the except block prints and exits without a manifest.
HandleFailureNoManifest ==
    /\ pc = "except"
    /\ \E r \in FixPermissionsOutcomes(Present) : ApplyFixPermissions(r)
    /\ pc' = "exited"
    /\ exitCode' = 1
    /\ UNCHANGED <<hasGit, head, index, worktree, settings, log, success,
                   patch, manifest, files, summaryReadable>>
    /\ UNCHANGED <<envVars, preRun, sessionStarted, headAtSession, agentSteps,
                   agentCommitted, gitFailed, manifestWrites>>

\* Fault variant: the except block does not call fix_permissions.
HandleFailureNoFixPermissions ==
    /\ pc = "except"
    /\ manifest' = [outcome |-> "failure", error |-> TRUE]
    /\ files' = [files EXCEPT !["manifest"] = "this"]
    /\ manifestWrites' = manifestWrites + 1
    /\ owner' = [owner EXCEPT !["manifest"] = WriteOwner("manifest")]
    /\ pc' = "exited"
    /\ exitCode' = 1
    /\ UNCHANGED <<hasGit, head, index, worktree, settings, log, success,
                   patch, summaryReadable>>
    /\ UNCHANGED <<envVars, preRun, sessionStarted, headAtSession, agentSteps,
                   agentCommitted, gitFailed, chownFailed>>

\* The except block: the failure manifest, fix_permissions, sys.exit(1).
HandleFailure ==
    /\ pc = "except"
    /\ manifest' = [outcome |-> "failure", error |-> TRUE]
    /\ files' = [files EXCEPT !["manifest"] = "this"]
    /\ manifestWrites' = manifestWrites + 1
    /\ \E r \in FixPermissionsOutcomes(Present \cup {"manifest"}) :
          LET written == [owner EXCEPT !["manifest"] = WriteOwner("manifest")]
          IN  /\ owner' = [f \in OutFiles |->
                             IF f \in r.owned THEN "host" ELSE written[f]]
              /\ chownFailed' = (chownFailed \/ r.failed)
    /\ pc' = "exited"
    /\ exitCode' = 1
    /\ UNCHANGED <<hasGit, head, index, worktree, settings, log, success,
                   patch, summaryReadable>>
    /\ UNCHANGED <<envVars, preRun, sessionStarted, headAtSession, agentSteps,
                   agentCommitted, gitFailed>>

\* The process has exited; nothing changes any more.
Exited ==
    /\ pc = "exited"
    /\ UNCHANGED vars

-----------------------------------------------------------------------------
AdapterStep ==
    \/ LoadInputs \/ Baseline \/ SyncSettings \/ Connect \/ Query
    \/ FinishStream \/ StageAndDiff \/ WriteManifest \/ WritePatch
    \/ WriteSummary \/ FinishSuccess \/ HandleFailure

\* What the SDK delivers, or fails to, while the loop awaits it
SdkStep == ReceiveMessage \/ StreamEnds \/ StreamRaises

AgentStep == AgentEdit \/ AgentCommit \/ AgentWriteSummary

Next == AdapterStep \/ SdkStep \/ AgentStep \/ Exited

\* The adapter's own steps never wait on anything: it is one flow of
\* control, so each of them is weakly fair. The SDK and the agent are
\* outside the code and get no fairness.
Spec == Init /\ [][Next]_vars /\ WF_vars(AdapterStep)

-----------------------------------------------------------------------------
(***************************************************************************)
(* Properties                                                              *)
(***************************************************************************)

\* The Result messages the evidence log holds
LoggedResults == {log[i] : i \in {j \in DOMAIN log : log[j].kind = "result"}}

\* Once run_adapter has reached client.connect(), every way the process can
\* end (success path, except block after a connect, query, stream or
\* summary-read failure) leaves a manifest.json written by this run
\* (spec §7: "always leave a Manifest once the output directory exists",
\* for the phase where the code promises it).
ManifestOnSessionExit ==
    pc = "exited" /\ sessionStarted => files["manifest"] = "this"

\* A manifest written on the normal path (no error field) says "failure"
\* exactly when the stream delivered a ResultMessage with is_error set:
\* the flag read in the receive loop survives staging, diffing and the
\* manifest write unchanged.
OutcomeNotContradicted ==
    pc = "exited" /\ files["manifest"] = "this" /\ ~manifest.error =>
        (manifest.outcome = "failure" <=> \E r \in LoggedResults : r.isError)

\* When the git commands of the artifact step succeed and nobody but the
\* adapter committed, diff.patch applied to the commit the agent session
\* started from gives exactly the workspace the run ends with: every edit,
\* creation and deletion the agent made is in the patch (spec §3: "the diff
\* is always computed relative to that baseline").
PatchFromBaseline ==
    pc = "exited" /\ exitCode = 0 /\ ~agentCommitted /\ ~gitFailed =>
        Apply(patch, headAtSession) = worktree

\* With valid HOST_UID/HOST_GID and no chown raising, every file left in
\* /holon/output when the process exits, on the success path or the
\* failure path, is owned by the host user: fix_permissions runs after
\* the last write of each path (spec §4.5).
HostOwnsOutput ==
    pc = "exited" /\ sessionStarted /\ hostIds = "valid" /\ ~chownFailed =>
        \A f \in Present : owner[f] = "host"

\* Spec §8 round trip: diff.patch applied to the workspace as it was
\* before the run reproduces the workspace after it.
PatchRoundTrip ==
    pc = "exited" /\ exitCode = 0 => Apply(patch, preRun) = worktree

\* Spec §3: the workspace has a baseline commit before the agent acts.
BaselineBeforeAgent ==
    sessionStarted => headAtSession # NoCommit

\* Spec §8: the manifest's outcome is "success" iff the session's terminal
\* event reported no error; a stream that ends without a ResultMessage is
\* to count as a failure (spec §9).
OutcomeIffResultOk ==
    pc = "exited" /\ files["manifest"] = "this" =>
        (manifest.outcome = "success" <=> \E r \in LoggedResults : ~r.isError)

\* Spec §3: manifest.json is written exactly once per run.
ManifestWrittenOnce ==
    manifestWrites <= 1

\* Spec §3, §4.4: the manifest is the single record consumers trust, and its
\* artifact list names diff.patch and summary.md; whenever this run's normal
\* manifest is on disk, those two files of this run are on disk beside it.
ArtifactsBeforeManifest ==
    files["manifest"] = "this" /\ ~manifest.error =>
        files["patch"] = "this" /\ files["summary"] \in {"this", "agent"}

\* Spec §4.4 step 3: summary.md is used verbatim only when the agent itself
\* wrote it. Once WriteSummary has passed on the normal path, the summary
\* beside this run's manifest is the agent's or this run's fallback, never a
\* summary.md an earlier run left in a reused /holon/output.
SummaryFromThisRun == pc = "fixperms" => files["summary"] \in {"this", "agent"}

\* Where the agent session of spec §4.3 stands, read off run_adapter: not
\* connected until client.connect() returns; querying from client.query()
\* until the first message; completed once the receive loop is left
\* normally (the FINAL OUTPUT trailer then stays in the log); failed when
\* the except block is reached from connect, query or the loop.
FinalLogged == \E i \in DOMAIN log : log[i] = FinalMarker

SessionState ==
    CASE ~sessionStarted \/ pc = "connect" -> "Disconnected"
      [] pc = "query"                       -> "Connected"
      [] pc = "stream"                      -> IF log = <<>> THEN "Querying"
                                                            ELSE "Streaming"
      [] pc \in {"finish", "stage", "manifest", "patch", "summary",
                 "fixperms"} \/ FinalLogged  -> "Completed"
      [] OTHER                              -> "Failed"

Session == INSTANCE AgentSession
    WITH Events <- Messages,
         state <- SessionState,
         events <- SelectSeq(log, LAMBDA m : m # FinalMarker),
         outcome <- CASE SessionState = "Completed" ->
                             IF success THEN "success" ELSE "failure"
                      [] SessionState = "Failed" -> "failure"
                      [] OTHER -> "pending"

\* run_adapter implements the AgentSession state machine of spec §4.3: the
\* log holds exactly the messages consumed, in arrival order; nothing is
\* consumed after the ResultMessage; the outcome is fixed by the Result's
\* is_error and never changes once the loop is left, whatever the artifact
\* step and the except block do afterwards.
SessionRefined == Session!Spec

\* Spec §4.3, §7: the evidence log beside a normal manifest is this run's
\* and complete. execution.log is truncated only once client.connect() has
\* returned, so a log of an earlier run survives a connect failure; when
\* the process exits with this run's manifest and no error in it, the log
\* on disk was opened by this run's query and ends with its FINAL OUTPUT.
EvidenceOfThisRun ==
    pc = "exited" /\ files["manifest"] = "this" /\ ~manifest.error =>
        files["log"] = "this" /\ FinalLogged

\* Spec §4.3: idle and total timeouts bound the session, so a run that
\* got its inputs always ends.
Termination ==
    <>(pc = "exited")

=============================================================================
