# TLA+ models of the Holon Claude adapter

The adapter (`src/images/adapter-claude/`) runs one coding-agent task inside a
container. It loads the pre-rendered inputs, commits a git baseline of the
workspace, streams one agent session through the Claude Agent SDK, and writes
an artifact bundle to `/holon/output`: `manifest.json`, `diff.patch`,
`summary.md` and `evidence/execution.log`. It then re-owns that directory to
the host user.

## 1. Inventory

| Component | Source | State it keeps | Operations |
|---|---|---|---|
| Orchestrator | `adapter.py` `run_adapter` (40-263) | program position, `success`, the except boundary, exit status | the steps below, in program order; `sys.exit(1)` on missing inputs and in the except block |
| WorkspaceBaseline | `adapter.py` 91-113; `subprocess_helpers.py` `SubprocessRunner` | `.git`, HEAD, index, the worktree | git config (unchecked), and without `.git`: init, append `.gitignore`, `add -A`, `commit` (checked, not caught) |
| Claude settings sync | `adapter.py` 115-141 | `~/.claude/settings.json` | rewrite its `env` section; every exception is caught |
| AgentSession | `adapter.py` 143-190 | the SDK client, `execution.log`, `final_output`, `success` | connect, open the log and query, the receive loop (log each message, append TextBlocks, stop at the ResultMessage) |
| ArtifactGenerator | `adapter.py` 192-249 | `patch_content`, the output files | `git add -A`, `git diff --cached --binary --full-index` (return codes ignored), write manifest, patch, summary (the agent's `summary.md` verbatim, else a fallback) |
| PermissionNormalizer | `adapter.py` `fix_permissions` (12-38); `fs_helpers.py` `PermissionFixer` | owners of the output entries | chown the directory, then each entry of a top-down `os.walk`; one `try` around it all |
| ConfigResolver | `config.py` `HolonConfig` | the root path; reads the environment on each call | path properties, env accessors (`or` fallbacks, `_int_env` with defaults) |
| I/O wrappers | `fs_helpers.py` `FileSystemOperations`, `network_helpers.py` | none | one-line pass-throughs to `os`, `open`, `urllib`, the SDK |

How they interact. Everything runs on one flow of control (`asyncio.run`).
The only concurrency is outside the adapter: the agent (the Claude Code CLI
the SDK drives, with `permission_mode="bypassPermissions"` and cwd the
workspace) edits files, runs git, and may write `/holon/output/summary.md`
while the adapter waits in the receive loop. The shared state is the
workspace, its git repository and the output directory. The host reads the
output directory after the container ends.

What is hard here:

- the agent acting on the same git repository the adapter later diffs (it can
  commit, so HEAD is no longer the baseline);
- the wait in the receive loop, which has no timeout although `HolonConfig`
  defines four time settings;
- failure at each step, and which steps are inside the `try`: the baseline is
  not; the settings sync catches its own; everything from `connect` on is;
  git return codes in the artifact step are ignored;
- the order of the output writes (manifest first) against exceptions raised
  after it, and against files of an earlier run in a reused output directory;
- a chown walk that stops at its first exception.

What makes each component correct (the properties):

- Orchestrator: once the session starts, every exit leaves this run's
  manifest; the exit status agrees with the manifest; the run ends.
- WorkspaceBaseline: a commit exists before the agent acts; the patch is
  relative to it.
- AgentSession: the outcome is success iff the terminal Result reported no
  error; the log holds the messages in arrival order.
- ArtifactGenerator: the patch reproduces the agent's changes; the manifest is
  written once and describes artifacts of this run.
- ConfigResolver: an integer setting never raises; unset, empty and
  malformed values give the default; a fallback skips an empty variable
  (spec §4.1).
- PermissionNormalizer: every output entry ends host-owned, on both paths, and
  one failing entry does not stop the rest (spec §4.5).

## 2. Plan

1. `Adapter` (done): the whole of `run_adapter` with the workspace, the
   stream, the agent and the output directory; `MC_Adapter` instantiates it.
2. `PermissionFixer` (done): the chown walk entry by entry, both implementations
   (`adapter.fix_permissions` and `fs_helpers.PermissionFixer`), against an
   abstract `PermissionNormalizer` specification of spec §4.5 (every entry
   whose chown does not fail ends host-owned), as a refinement checked by
   `INSTANCE ... WITH` with the abstract spec as a PROPERTY.
3. `HolonConfig` (done): `_int_env` and the accessors as operators, checked against a
   reference over a small set of environment strings (unset, empty, decimal,
   signed, malformed).
4. `Adapter` extensions: the ordering of the manifest against the
   artifacts (done, `ArtifactsBeforeManifest`), a stale-summary property
   over reused output directories (done, `SummaryFromThisRun`), a dirty
   initial worktree (done), and an abstract specification that `Adapter`
   is checked to refine (done, as `AgentSession`, the session state machine
   of spec §4.3, section 7 below). An abstract whole-run spec with "one manifest"
   would not hold: `manifest_twice` shows the manifest can be written twice.
5. `GitRunner` (not planned any more): `SubprocessRunner` is never called by
   `run_adapter`, and `Adapter` already models the git calls `run_adapter`
   makes.
6. Done: every computing accessor of `HolonConfig`; `EvidenceOfThisRun`
   for the stale-log hazard on the normal path.

## 3. The `Adapter` module

State. `pc` is the position in `run_adapter`. The git workspace is three
functions from `Files` to contents (`worktree`, `index`, `head`; `head =
NoCommit` is the empty tree of a repository with no commit). `log` is the
sequence of messages written to `execution.log`. `files` records for each
output file whether it is absent, of an earlier run (`stale`), written by the
agent, or written by this run, and `owner` who owns it. `manifest` is the
content this run wrote. History variables (`preRun`, `headAtSession`,
`agentCommitted`, `gitFailed`, `chownFailed`, `manifestWrites`,
`sessionStarted`) are read only by properties.

Actions, in program order: `LoadInputs` (40-89), `Baseline` (91-113),
`SyncSettings` (115-141), `Connect` (143-166), `Query` (168-171),
`ReceiveMessage`/`StreamEnds`/`StreamRaises` (the loop, 173-185),
`FinishStream` (187-190), `StageAndDiff` (192-208), `WriteManifest`
(210-228), `WritePatch` (230-231), `WriteSummary` (233-249), `FinishSuccess`
(250), `HandleFailure` (252-263). `fix_permissions` is the set of its
outcomes, `FixPermissionsOutcomes`. The agent's actions (`AgentEdit`,
`AgentCommit`, `AgentWriteSummary`) are enabled while the loop streams.

Fairness. The adapter's own steps are weakly fair: it is one flow of control
and none of them waits for anything. The SDK and the agent get no fairness:
nothing in the code forces the runtime to answer.

Bounds (`MC_Adapter.cfg`): two workspace files, each absent or holding one
version, so creation and deletion happen but an in-place modification of a
file cannot; one text payload; at most 2 non-terminal messages per stream
and 2 agent actions; all four initial repository states (none, clean,
dirty, unborn); reused and fresh output directories; every failure switch
the model has on (git, agent commits, chown, connect/query/stream
exceptions, an undecodable summary). Failed writes of the output files,
an undecodable `git diff` output (`text=True`) and a raise while the SDK
client is constructed before the `try` are not modelled. The two files are symmetric.
The pass run reaches about 2.7 million distinct states in about 35 seconds.

## 4. Runs

| Run | Expect | What it shows |
|---|---|---|
| `pipeline` | pass | `ManifestOnSessionExit`: after `connect` is reached, every exit leaves this run's manifest. `OutcomeNotContradicted`: a normal-path manifest says failure exactly when an error Result was logged. `PatchFromBaseline`: when git works and nobody else commits, the patch applied to the session's HEAD gives the final workspace (creations, edits and deletions). `HostOwnsOutput`: with valid ids and no chown error, every output file ends host-owned on both paths. `EvidenceOfThisRun`: a manifest without an error always sits beside an `execution.log` this run's query opened and that ends with the FINAL OUTPUT trailer, although the log of an earlier run survives a `connect` failure. `SessionRefined`: `run_adapter` implements the `AgentSession` state machine. |
| `agent_commit` | violation | `PatchRoundTrip` (spec §8): the agent commits an edit, `git diff --cached` no longer sees it, the patch misses it. |
| `unborn_repo` | violation | `BaselineBeforeAgent` (spec §3): a `.git` with no commit is accepted as the baseline. |
| `no_result` | violation | `OutcomeIffResultOk` (spec §8, §9): a stream that ends without a ResultMessage gives outcome success. |
| `manifest_twice` | violation | `ManifestWrittenOnce` (spec §3): an undecodable agent `summary.md` makes the except block overwrite the success manifest. |
| `stall` | violation | `Termination` (spec §4.3): with a silent runtime the receive loop waits forever. |
| `manifest_first` | violation | `ArtifactsBeforeManifest`: the success manifest names `diff.patch` and `summary.md` while neither is on disk yet. That is the state a container kill between the writes would leave. |
| `stale_summary` | violation | `SummaryFromThisRun` (spec §4.4): in a reused `/holon/output`, an earlier run's `summary.md` is kept as if the agent had written it. |
| `permfix_walk` | pass | `ConfigIntsAsSpecified`: the four duration accessors and `_int_env` never raise and agree with the reference conversion and their defaults, for every short string and every environment the walk meets. The run also fires every action of both implementations. |
| `permfix_refines` | pass | `NormalizerRefined`: `adapter.fix_permissions` with chowns that succeed implements `PermissionNormalizer`. |
| `permfix_abort` | violation | `NormalizerRefined` (spec §4.5): one failing chown ends the walk, and the entries after it are never re-owned. |
| `permfix_malformed` | violation | `NormalizerRefined` (spec §4.5): `PermissionFixer` parses a malformed `HOST_UID` outside its `try` and raises `ValueError`. |

Each property of the pass run has a mutant in `PROJECT.json` (a dropped
`git add`, an inverted `is_error` test, an except block without manifest or
without `fix_permissions`, a manifest with the status as outcome, a walk
that skips directories, a loop with no `break` after the Result, an
`_int_env` without its `try`, the log opened in append mode)
that TLC finds violating it.

## 5. The `PermissionFixer` and `PermissionNormalizer` modules

`PermissionNormalizer` is what spec §4.5 promises, with no walk in it. When
both ids are usable, each entry whose chown does not fail is re-owned, in any
order, and then the call returns. When an id is unusable, the call returns
and does nothing. It never raises.

`PermissionFixer` models both implementations entry by entry. The walk order
`WalkOrder` is built recursively the way `os.walk(topdown=True)` produces it:
the root, then for each directory its subdirectories and files in the order
`os.scandir` lists them (`listing`, any permutation), then the recursion into
each subdirectory. The actions are:

- `ParseIdsAdapter`: the blank and `int()` checks inside the `try`;
- `ParseIdsHelper`: the same checks before the `try`, so a malformed id raises;
- `Chown`: one entry, where a raise ends the walk with the warning;
- `WalkEnds`;
- `Returned`.

The refinement mapping sends `status` to the abstract `outcome` (done to
returned, raised to raised). `idsValid` becomes "passed in, or both parsed".
`Normalizer!Spec` is checked as a PROPERTY.

Fairness: weak fairness on the four steps of the call. `fix_permissions`
is one flow of control and waits for nothing. No run checks a liveness
property of it: a walk over a finite tree ends whatever the code does, so
such a property would say nothing about `fix_permissions`.

The ids are real environment strings (`EnvValues`), converted by `PyInt`.
With `args = "config"` the helper is handed
`HolonConfig.get_env_host_uid/gid()`, the wiring spec §9 asks for. Because
their fallback is `None`, the helper re-reads the variable and raises on a
malformed one all the same. `os.chown` raises `OverflowError` for an id
below -1. The mapping counts that as every entry failing.

Bounds (`MC_PermissionFixer`): the output tree `out/{manifest.json,
summary.md, evidence/execution.log}`, two directories and five entries
(`diff.patch` is left out: it sits beside `manifest.json` and
`summary.md` and adds only another listing order), every listing order, each id unset, empty, valid or malformed, and
any set of failing entries. Each id is unset, `""`, `"1"`, `" 1"`,
`"-10"` or `" "`. That is the tree the adapter writes, and it
exercises a failure at every depth.


## 6. The `PyInt` and `HolonConfig` modules

`PyInt` is Python's `int(str)` in base 10, written the way CPython scans a
string: `SkipSpaces`, an optional sign, then `ScanDigits`, a recursive scan
with states start, digit, under (after `_`) and trail. `RefInt` is the
reference. It describes an accepted string as a whole (spaces, sign, a run
of digits with single underscores, spaces) and reads its value with
`FoldLeft`. `HolonConfig` has `IntEnv` (`_int_env`), `GetEnvHostId`
(`get_env_host_uid/gid`), the four duration accessors (`IntEnv` with the
defaults 300, 60, 1800 and 7200), and `GetEnvAuthToken` and `GetEnvBaseUrl`,
Python's `or` (`EnvOr`) over two variables and, for the URL, the default.
No property is checked on the last two. They are one `or` expression, and
any statement of what they return only restates it.

`ConfigIntsAsSpecified` is checked in `permfix_walk`. It compares `IntEnv`
with what spec §4.1 asks (the default for unset, empty or malformed values,
otherwise the integer) over all 2,801 strings of up to four characters from
`0 7 space + - _ x`. The whole-set part is a constant definition, so TLC
evaluates it once. The part for the state's own `HOST_UID` and `HOST_GID`
is evaluated in every state. Each of the four duration accessors is
compared with its own default.

## 7. The `AgentSession` module and `SessionRefined`

`AgentSession` is spec §4.3 with no adapter in it. Its states are
Disconnected, Connected, Querying, Streaming, Completed and Failed. Events
are appended in arrival order, and a Result completes the session with
the outcome its error flag gives. An exhausted stream completes with
either outcome, because spec §9 leaves that open. Any exception fails the
session.

`Adapter` maps onto it through `SessionState`:
- before `connect` returns: Disconnected;
- `pc = "query"`: Connected;
- `pc = "stream"` with an empty log: Querying;
- `pc = "stream"` with events logged: Streaming;
- once the loop is left normally: Completed, where the FINAL OUTPUT trailer
  marks a Completed session even after a later exception;
- the except block reached from connect, query or the loop: Failed.

The abstract `events` are the log without the trailer. The abstract
`outcome` is `success` once completed. `SessionRefined == Session!Spec`
is checked in `pipeline`. It shows four things: nothing is logged after
the Result, the log is append-only, the outcome never changes once the
loop is left, and an exception in the artifact step does not turn a
completed session into a failed one.

## 8. Not modelled

- `Adapter` keeps `HOST_UID`/`HOST_GID` as unset, valid or malformed;
  `PermissionFixer` has the string-level detail.
- `FileSystemOperations`, `NetworkClient` and `SubprocessRunner`:
  pass-throughs with no state, never called by `run_adapter`. `Adapter`
  models the git calls `run_adapter` itself makes. `SubprocessRunner`
  differs only in flags nothing calls: `run_git_add` runs without
  `check`, where the baseline's `git add -A` uses `check=True`.
- `HolonConfig.__init__`, the path properties, and the model, fallback-model
  and log-level accessors: string joins and a bare `os.environ.get`, with
  no control flow. The duration accessors are modelled but never called by
  `run_adapter` (the `stall` finding).
- The stale `execution.log` left by an earlier run when `connect` fails in a
  reused output directory: the model keeps it (`files["log"]` stays
  `stale`). `EvidenceOfThisRun` checks that it never sits beside a manifest
  without an error. Beside the failure manifest it is what the code does.
- A `json.dump` into `~/.claude/settings.json` that fails after `open('w')`
  truncated it: it is folded into the caught-exception branch of
  `SyncSettings`. No property concerns the settings file.
- `HOST_UID=-1`, which `os.chown` takes as "leave unchanged": a chown that
  succeeds is modelled as re-owning the entry.
- Unicode whitespace and digits, which `int()` also accepts: only `" "` and
  ASCII digits are modelled.
- The text of the manifest, summary and log: only who wrote a file and what
  the manifest's outcome and error field are matter to the properties.
- `.gitignore` patterns: `Files` are the files git tracks.
- The SDK's protocol internals: a message is text, other, or a Result.
