# A TLA+ model of mod_explain

mod_explain is a module of the ProFTPD FTP server.  When a system call of the
server fails, the server's error API asks the registered *explainer* for a
reason to put into the log: "chroot() failed with ... because **directory
'/srv/ftp' does not exist**".  This directory holds TLA+ modules that model
the module's C code, TLC configurations that check them, and proofs checked by
TLAPS.  References such as `path.c:196` are to the files in `src/`.

## The system

| Part | State it keeps | Operations | Correct when |
|---|---|---|---|
| **Path explanation** (`path.c`) | locals of one walk: index, path so far, previous path, limits | `explain_path_error`: compare lengths, then `lstat(2)` every prefix of the path until one is at fault | what it asserts was true while it looked; it names the first fault; its reason fits the errno; it returns |
| **Path splitting** (`path_split` in `path.c`) | a buffer on the stack, the array of components | copy the path into the buffer, append a '.' after a last '/', split | the components are "/" and the names of the path; of a path that does not fit, its first names at their places |
| **Explainers** (`chroot.c`, `lstat.c`, `stat.c`, `unlink.c`) | none | dispatch on errno: to the path walk, to a text of their own, to the generic texts | every errno gets the text meant for it |
| **Generic texts** (`generic.c`) | none | errno to text | 0 has no text, all else has |
| **Platform limits** (`platform.c`) | three static limits, a listener for `core.chroot` | init, free, the listener, three getters | a confined session uses limits looked up before `chroot(2)`; nobody uses limits of a directory that has nothing to do with the session |
| **Module** (`mod_explain.c`) | pool, engine switch, verbosity, options, the registered explainer | load, three directives, post-parse, restart, shutdown, unload, session init | no explainer in a destroyed pool; engine and verbosity are those of the configuration that was parsed last |

How the parts interact.  The daemon loads the module (`explain_init`), parses
the configuration (the directive handlers), and announces `core.postparse`, on
which the explainer is registered in the module's pool.  A restart calls
`explain_restart_ev` and parses anew.  Every connection is a forked process: a
copy of all variables, which calls `explain_sess_init` and through it
`explain_platform_init`.  Before the session is confined the server announces
`core.chroot`, and the limits of the directory are stored.  A failed call leads
through the callbacks to an `explain_*_error` function, from there to
`explain_path_error`, which asks the limits' getters and calls `lstat(2)`.

What is hard about it:

* **Other processes.**  The walk looks at the path after the call has failed,
  with one `lstat(2)` for each prefix and one more for the parent; other
  processes may change the path between any two of them.
* **Reconstruction.**  The reason is derived from the errnos of these fresh
  calls, not from the call that failed, so it may be a reason for another
  errno, or for another component.
* **Limits.**  -1 means "unknown" in a `long` that is stored in an
  `unsigned long`.  Stored limits outlive the `chroot(2)` they were meant for,
  and also one that fails.  `_PC_PATH_MAX` counts the NUL and `strlen` does not.
  `pathconf(3)` is asked with the very path that could not be looked up.
* **Signals.**  Each turn of the walk handles the signals that have arrived
  (`path.c:162`), which may end the process before there is an answer.
* **Buffers.**  A path longer than the buffer of `path_split` is cut wherever
  the buffer ends.
* **Life cycle.**  The explainer lives in a pool that three listeners destroy;
  a directive changes a static variable that a restart has to reset; sessions
  keep copies from before a restart.

`PROJECT.json` lists these and smaller hazards, each at its line, with the
properties that cover it.

## The modules

| Module | What it is |
|---|---|
| `ExplainErrno` | the dispatch: callbacks, errno switches, the table of `generic.c` |
| `PathFS` | the kernel (not code of this repository): a file system along one path, `lstat(2)` and the errnos of the explained calls |
| `ExplainPath` | the walk of `path.c` as a state machine, with other processes; the properties |
| `PromptExplanation` | the abstract promise: one answer to one failure, and only facts witnessed in between |
| `DocumentedPath` | what tests and texts say and the walk does not do |
| `PathSplit` | `path_split`: from a path to the components that are walked |
| `PlatformLimits` | `platform.c` in one session |
| `ExplainSession` | the composition: `ExplainPath` with an instance of `PlatformLimits` |
| `ExplainModule` | `mod_explain.c` in the daemon and its sessions |
| `OfferedExplanations` | the abstract promise of the module: what is offered is wanted, and a session keeps what it was forked with |
| `DocumentedModule` | what `mod_explain.html` says and the module does not do |
| `MCExplainPath`, `MCPlatformLimits`, `MCExplainSession`, `MCExplainModule` | constants for TLC |
| `ExplainPathProofs`, `ExplainReasonProofs`, `ExplainFaultProofs`, `PathSplitProofs`, `PlatformLimitsProofs`, `ExplainSessionProofs`, `ExplainModuleProofs` | proofs |
| `NaturalFacts` | lemmas the proofs share: least and largest elements, and induction |

### `ExplainPath`: state and actions

A path is the sequence of its components, which `PathSplit` shows to be what
`path_split` gives, and the prefix `1..k` stands for the string built by
`pdircat`.  `fs[k]` is what
that prefix names: `type` once symbolic links are followed ("loop" is a link
that never ends), `link` if `lstat(2)` sees a link, `perm` the permissions the
user has, "t" for a sticky directory whose entry belongs to somebody else.  A
dangling link is `link` with type "none".

| Action | Code |
|---|---|
| `Fail`, `Resume` | the failing call, and the error API that logs the answer (not in `src/`); the errno is the one the kernel gives, or one of `OtherErrnos` |
| `Change` | other processes: the path becomes any other one |
| `ExplainOther`, `ExplainNonRoot` | the errno switches; the latter with the outcomes of its undefined behaviour, `faulted` being a process that ended |
| `EnterPath` | `path.c:113-155`: the comparison of the whole path, the limits |
| `HandleSignal` | `path.c:162`: a signal ends the process (`ended`) |
| `LongName` | `path.c:167-181` |
| `LookFails`, `NotDirectory`, `Descend` | a turn of the loop with its `lstat(2)`: `path.c:183-260`, `280` |
| `LeafDenied`, `LeafUnexplained`, `ShowParent` | the leaf exists: `path.c:262-278`; the `lstat(2)` of the parent is a step of its own |

The permissions in a node are the user's effective ones, and the mode bits that
a text shows are taken for the same: who owns a directory is not modelled.

A text is a tag with the prefix it names (`Answer`).  `lim` are the limits of
the walk; what the getters may answer is `LimitAnswers`.  `witnessed` is a
history variable with all facts that have held on the path since the failure;
`changes` counts and bounds the changes.  Nothing else is bounded but the
constants.  The kernel refuses a path of `path_max` characters (`Overlong`),
because its limit counts the NUL; `path.c:136` takes it for allowed, so the
properties about an undisturbed path leave out the length `AtLimit`.

### `PathSplit`: state and actions

`path` is an absolute path as the sequence of the lengths of its names; `buf`
is what the buffer of `Size` bytes holds of it, with `slash` for a text that
ends in '/'.  `CopyPath` is `pr_fs_virtual_path` (not in `src/`), which copies
what fits (`Cut`); `AppendDot` is `path.c:53-57`, where the '.' replaces the
NUL: the text goes on with what is left on the stack, at most `Left` characters
up to the next NUL, and any of them may be a '/', so that `stray` is one or
several components; `Split` is `path.c:59-75`.

### `PlatformLimits`

`told` is a history variable: what `pathconf(3)` said of the last announced
directory; `Others` lets all that `pathconf(3)` says change at any time.
`sess` are the three static variables, `pathconf[r][p]` what `pathconf(3)` says
of name `p` to a process with root directory `r`.  `AnnounceChroot` is the
event, with the listener if it is registered; `ChrootSucceeds` and
`ChrootFails` are the attempt.  `explain_platform_free` is called by the C tests
only, as `t/api/platform.c` does, in the same process as a later init.  `Limit`
is the getter of each of the three.  That the event comes before the attempt,
and that a session may survive a failed attempt, are facts of the server, not
of `src/`; `platform.c:127-129` relies on the first.

### `ExplainSession`

The names of `PlatformLimits` are the paths `1 .. MaxN` of the walk, and 0 for
a directory elsewhere, on a file system with limits `dir`.  What `pathconf(3)`
says (`Pathconf`) follows from the file system: the limits of the path's own
file system if the path can be looked up, and `Untold` if it cannot.
`SessionExplain` is the walk of `ExplainPath` with `EnterPath` taking the
answers of the three getters (`Getters`); they are asked in one step, which is
exact as long as nobody changes the path in between, and the runs have
`MaxChanges = 0`.  `ChrootFails` is at once the failed attempt of
`PlatformLimits` and the failed call of `ExplainPath`.  `SessionChange` changes
the path before a call and the directory elsewhere at any time.  The paths of a
session that has been confined are what `SessionChange` makes of them.

### `ExplainModule`

`daemon` and every `session[s]` are processes with copies of the variables; a
pool is the number of its making and `live` are those not destroyed;
`explainer` is the pool of the registered explainer.  `corrupt` becomes true
when `pr_error_unregister_explainer` would walk through a destroyed pool or
`explain_sess_init` would read a NULL argument.  One action for each handler,
with all it does; the restart's action includes that the server forgets its
configuration.  A refused directive ends the daemon, which is what the server
does with an error in its configuration; an `ExplainOptions` without arguments,
refused before a record is added, is not told apart from one with a bad option.
`Offer` maps this to
`OfferedExplanations`: `wanted` is that the configuration parsed does not say
"off", `offered` that the daemon has the explainer.

## The runs

| Run | Question | Result |
|---|---|---|
| `path_walk` | nobody changes the path: does the walk find a reason of the right errno, at the component where the kernel stopped, with permissions that bear it out? | holds |
| `path_race` | others change the path: was everything asserted true at some moment; can they keep the walk from coming nearer to its end; does it return; does it implement `PromptExplanation`? | holds |
| `path_limits` | are lengths that are complained of really over the limit, and those that are found explained, when limits are unknown or partly known? | holds |
| `platform_limits` | whose limits does an explanation work with after any sequence of attempts to confine the session? | holds |
| `session_limits` | limits and walk together: is a length that is complained of over a limit that is known, does a confined session explain lengths, and does it explain as `ExplainPath` says? | holds |
| `path_split` | are the components those of the path, also if the buffer cuts it? | holds |
| `module_life` | load, parse, restart, unload, shut down, fork: no dangling explainer, engine and verbosity as configured, every step one of `OfferedExplanations`? | holds |
| `unlink_sticky` | `unlink.pm:660`: the sticky directory is named | violated |
| `unlink_unsearchable` | `unlink.pm:396`: an unlink in a directory that may not be searched is explained by that | violated |
| `blamed_directory` | `path.c:92`: the directory named is unsearchable | violated |
| `chroot_nonroot` | `chroot.pm:129`, `mod_explain.pm:372`: the process lives to explain | violated |
| `engine_context` | `mod_explain.html:45`: ExplainEngine in a virtual server | violated |

What the properties say, beyond their comments:

* `ClaimsWitnessed` is the strongest promise a walk without locks can keep: two
  assertions of one answer (the leaf was denied; the parent has these
  permissions) may be true at different moments.  Errno `EACCES` itself
  witnesses "the operation on the leaf was denied".
* `ReasonMatchesErrno`, `FirstFaultNamed`, `ReasonFound` and
  `ShownModeBearsOut` are about an undisturbed path, where the answer could be
  wrong only by the code's own doing.  `ReasonFound` names the failures that
  are always explained; the rest (`EPERM`, `ELOOP` and `ENOTDIR` of the leaf,
  dangling links) is not.
* `FaultLocated` says exactly which component is named, from how the kernel
  resolves the path: the one it stopped at, but the one behind it if it stopped
  at a directory that may not be searched or at a link that leads nowhere.
  `FirstFaultNamed` alone would let the walk name a component too early.
* `WalkShortens` is about every single step, also with other processes
  interfering: `StepsLeft` falls with each step of the walk and no change of
  the path raises it.  `ExplanationReturns` adds fairness.
* `LookedUpBefore` excludes limits that are 0 or -1 outside: `platform.c:64`
  takes those from inside the confinement (`_PC_NO_TRUNC` may be 0).
* `LastAttemptOnly` bounds what a failed `chroot(2)` leaves behind, and
  `LengthOverKnownLimit` what comes of it: a length is compared with the limit
  of the path's file system or of the last directory announced.
* `JailExplainsLength` is why the limits are stored: it holds whatever
  `pathconf(3)` says of the path that failed.
* `WalksAsSpecified` is the whole specification `ExplainPath!Spec` as a
  property of a session: the getters never give what the walk is not specified
  for, and fairness of the session's walk is fairness of the walk.
* `LeadingIntact` holds of paths that were cut: texts about a leading directory
  are about one of the path's, unless the cut is right behind a '/', where what
  is on the stack adds components at the end.  For "/" itself the length from
  before the '.' keeps that from being read (`SplitExact`).
* `KeepsOffer` says that no handler takes an explainer from a session or gives
  it one, that none is registered under a configuration that says "off", and
  that the configuration does not change while one is registered.

What they leave out, because the code does not do it:

* A path of exactly `path_max` characters (`AtLimit`) is refused by the kernel
  and passes the comparison of `path.c:136`; the walk then finds no reason, or
  that of another errno.
* A session that goes on after a failed `chroot(2)` prefers the limits stored
  for it (`platform.c:64`): of a name its file system allows it may say that it
  is too long, and of one that is too long nothing.
* Without stored limits, `path.c:154` asks `pathconf(3)` with the path that has
  just failed; if it cannot be looked up, the limit of names is unknown and a
  name that is too long gets no reason.
* Where the buffer of `path_split` cuts a path right behind a '/', the '.' of
  `path.c:56` replaces the terminating NUL, and what is on the stack up to the
  next NUL is split and walked as well (`stray`).
* An `unlink(2)` that lacked search permission is explained by "not writable",
  as one that lacked write permission is (`path.c:101`, `unlink_unsearchable`);
  `ReasonMatchesErrno` and `ClaimsWitnessed` take both for a denied operation.
* Without an `ExplainVerbosity` a session logs in the detailed format
  (`mod_explain.c:43`), and `SessionVerbosity` says so; `mod_explain.html:57`
  gives terse as the default.

### Bounds

* `MaxN = 3`, but 4 in `path_limits`: "/", one leading component, the leaf; the
  cases of the loop are the first turn (`prev_path` NULL), a leading component,
  the leaf.  With three
  components a fault can be before, at and after the component looked at.
* `MaxChanges`: 2 in `path_race`, each to *any* other file system, so that the
  path can change and change back, and once before each of two `lstat(2)`;
  0 in the runs about undisturbed paths, whose properties say nothing else.
* `path_limits`: a name that is too long, "/bbbb", as the leaf and before it, a
  path of exactly the 8 characters that are the limit, "/bbbb/cc", and one that
  is longer; a comparison with >= would violate `LengthClaimsHold`.
* `WordSize = 16`: lengths are up to 10, so -1 is larger than each of them, as
  2^64-1 is; the theorem is about every word size.
* Permissions: `path_walk` uses none, search, search and write, and the sticky
  bit; `path_race` only none and all, which suffices for every action.
* `platform_limits`: two directories, three kinds of file system: one with a
  `no_trunc` of 0, one that knows no limit of names, and one that knows none.
* `session_limits`: two directories elsewhere, one where names and one where
  paths have to be shorter, each with a limit `pathconf(3)` leaves open, so that
  a walk works with limits of two file systems, and a third name that is too
  long for the path's own file system.  `MaxChanges = 0`: changes during a walk are `path_race`'s
  matter; the file system still changes between calls.  `Untold` knows all but
  the limit of names: whatever `pathconf(3)` can tell without the path.
* `path_split`: a buffer of 10 bytes and paths of up to 16 characters, so that
  the cut comes in a name, behind a name and behind a '/'; `Left = 4`, so that
  what is left is one component or up to three.  It ends, so deadlock is not
  checked.
* `module_life`: two servers, two sessions, two pools, that is one restart or
  one reload of the module with sessions from before and after it.
  Deadlock is not checked there: after a shutdown without sessions the server
  has ended, and the bound on pools ends the daemon's restarts.

### Fairness

`Spec` of `ExplainPath` has weak fairness of `Explain`, the steps of the walk,
and none of `Change`, `Fail` or `Resume`.  The walk is a loop in the only thread
of a process, and `lstat(2)` returns; each of its steps stays enabled in some
form whatever others do to the path, so that weak fairness is enough for
`ExplanationReturns`.  A signal that ends the process is no step of the walk
and needs no fairness: the process has then returned, in a way.  `SessionSpec`
has the same fairness, of `SessionExplain`; `WalksAsSpecified` checks that it
implies that of `ExplainPath`.  The other specifications have no liveness
property.

## What is proved

Every invariant and action property of the runs that pass, and both refinements
of an abstract promise, are proved for every value of the constants.  The
assumptions are those named in the modules and, where a theorem says so, one
about the limits.

**`NaturalFacts`**: a non-empty set of naturals has a least element
(`LeastElement`, from the well-foundedness of < on the naturals) and, if it is
bounded, a largest (`LargestElement`).  `SetInduction` is induction up to a
bound with a set in place of a predicate, so that no step of it needs an
operator as a parameter: a proof builds the set of the numbers for which its
claim holds.

**`ExplainPathProofs`**: any number of components, permissions, word size and
changes.

* `TypeCorrect`: `Spec => []TypeOK`.  It needs that `lstat(2)` always has an
  answer: `First` chooses the least fault (`FirstIsLeast`), so it is a component
  of the path.
* `ClaimsTrue`: `Spec => []ClaimsWitnessed`.  The property is not inductive: an
  assertion is taken from the file system of the moment, so `WalkInv` adds that
  all that is true of the path has been recorded, that `EACCES` has, that the
  previous path is one component shorter, and that the answer waiting for the
  parent's permissions has none yet.  One step for each action.
* `Implements`: `Spec => KeepsPromise`, the refinement of `PromptExplanation`:
  `Fail` is `Ask`, a change during the walk is `Observe`, whatever returns or
  ends the process is `Give`, `Resume` is `Forget`, and the inner steps of the
  walk are stutters.
* `AlwaysShortens`: `Spec => WalkShortens`, the safety half of that an
  explanation returns.  It needs of `WalkInv` that the walk begins at 1 and that
  `i` is never behind the leaf.
* `FirstFaultIsNamed`: `Spec => []FirstFaultNamed`, with the invariant that the
  prefixes before `i` have been seen to lead onwards.
* `LengthsAreOver`: `Spec => []LengthClaimsHold` assuming `LimitsHonest`, that
  `pathconf(3)` tells the limits of the path's file system or -1; the
  arithmetic is in `UnsignedLimit`.  It needs no bound on the word size.

**`ExplainReasonProofs`**: `ReasonsMatch` and `ReasonsAreFound`, assuming
`LimitsKnown`, that the limits of the path's file system are known and fit an
`unsigned long`. First lemmas about how the kernel resolves a path: what a
prefix fails with the whole path fails with (`LstatExtends`), and a leading
component that is no directory decides the answer (`NondirDecides`). The
invariant `ReasonInv` then ties the walk to the call that failed: the errno is
the one the path gives (`Cause`), its length is no reason once the comparison
of `path.c:136` is passed (`Room`), and the parent is only shown for a leaf
that is there but was denied (`Denied`).

**`ExplainFaultProofs`**: `FaultsAreLocated` and `ModesBearOut`, with no
assumption about the limits.  Where `lstat(2)` fails with `ENOENT` or `EACCES` for the first time, the fault is the component itself or the
one just before it (`FaultJustBefore`): a fault further back would have made
the prefix in between fail, and the walk has seen that it does not.
`LookLocates` and `NondirLocates` turn this into the component to be named, and
`FaultInv` keeps, besides the properties, that the errno is still the path's
(`Cause`) and that the parent is shown only for a leaf that is there (`Denied`).

**`PathSplitProofs`**: paths of any length, any names, a buffer of any size.

* `Taken` is a recursive function; that it exists and adds up the names is
  proved by `SetInduction` (`TakenSums`), and so is that it grows (`TakenGrows`).
* `Cut` keeps as many whole names as there is room for: `LastWhole` has the
  largest such number from `LargestElement`, and `CutShape` says what is in the
  buffer, that the rest of a name or a '/' comes after names of the path.
* The components are three parts one behind the other (`ListShape`): "/", the
  names in the buffer, what the stack adds.
* `SplitInv` says what each step has left for the next: the buffer is the cut,
  something is added only behind a '/', the components are these parts.
  `TypeCorrect`, `SplitsExactly` and `LeadingNamesIntact` follow from it; for
  the last, a '/' ends the buffer exactly where the path is cut behind one.

**`PlatformLimitsProofs`**: the four properties, from `LimitsInv`: what is stored
is what was told of the last announced directory, because the listener is
registered for as long as a directory can be announced.

**`ExplainSessionProofs`**: a session with any directories and any attempts.

* `ExplainsAsTheWalk`: each step of a session is one of `ExplainPath` or none,
  assuming `AnswersCovered`, that `LimitAnswers` has every mixture of stored and
  told limits the getters can give.  All theorems about the walk hold of a
  session by it; `SessionClaimsTrue` and `SessionImplements` are the first.
* `OnlyKnownLimits`: `LengthOverKnownLimit`, if limits are -1 or fit an
  `unsigned long`; the walk's limits are those told (`Heard`).
* `ConfinedLengths`: `JailExplainsLength`, from `ReasonInv` and that limits that
  are stored, all three known, are those the walk works with (`JailInv`).

**`ExplainModuleProofs`**: any sessions, servers and number of pools.  All four
invariants follow from one invariant of a process (`ProcessInv`), kept by each
handler: the explainer is in the only pool that lives (`PoolInv`), the engine is
what the phase allows (`EngineInv`), the verbosity is the one of the
configuration the process has (`ConfInv`).  `Implements` is the refinement of
`OfferedExplanations`.

Only model-checked: `ExplanationReturns`, and the fairness in `WalksAsSpecified`.
Liveness under fairness is out of reach of the prover; what does not depend on
it is proved as `AlwaysShortens` and `ExplainsAsTheWalk`.

## What is not modelled

* What `pr_fs_virtual_path` does with "..", which is not in `src/`: it resolves
  the name before it by text, the kernel by following links.
* Guards against NULL arguments, the wording and formatting of texts, trace
  logging, `get_args`.
* The limits changing between the three getters of one walk: the getters of
  `ExplainSession` are asked in one step.
* Builds without `HAVE_PATHCONF`: every limit is then unknown, which
  `path_limits` covers.  The `sysconf(3)` wrappers, which nothing calls.
* A HOST command that binds the session to another server later: the module
  does not listen for it.
* Build files, and the C tests but for what `t/api/path.c` says is to be
  explained: each of them checks a constant answer of one call.

## Plan

1. *Done*: the walk, the limits, the module, the path's splitting, the session
   that composes limits and walk, the two abstract promises, the divergences.
2. *Done*: proofs of every invariant, action property and refinement the
   passing runs check; liveness stays with TLC.
3. *Left*: nothing of the code in `src/` that changes state.  If ".." is to be
   covered, `pr_fs_virtual_path` of the server has to be modelled first, and
   `PathFS` needs paths that lead through links.
