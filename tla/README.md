# Formal models of pxe-app

TLA+ specifications of the PXE provisioning service in `src/app`, checked with
TLC and proved about with TLAPS.

1. [The system](#1-the-system)
2. [The modules](#2-the-modules)
3. [How the models correspond to the code](#3-how-the-models-correspond-to-the-code)
4. [What the runs check and show](#4-what-the-runs-check-and-show)
5. [What is proved](#5-what-is-proved)
6. [Where code and documentation disagree](#6-where-code-and-documentation-disagree)
7. [What is not modelled](#7-what-is-not-modelled)
8. [Plan](#8-plan)

## 1. The system

pxe-app is one FastAPI process over a SQL database (PostgreSQL in production,
SQLite in development). Machines boot over the network, ask it for an iPXE
script, fetch an installer config with an *install token* and report the outcome
with the same token; operators manage hosts, profiles, images and assets through
a JSON API and an HTML front end. Handlers are ordinary functions that FastAPI
runs in a thread pool, each with a database session of its own; long jobs
(Ansible playbooks, media imports, DHCP probes) run as background tasks of the
same process.

| Component | Source | State it keeps | Operations |
|---|---|---|---|
| Boot service | `routers/boot.py` | `hosts`, `build_records`, `assets`, `ansible_runs` rows | `/boot.ipxe`, `/register`, `/config/{token}` (and the cloud-init pair), `/callback/{token}` |
| Host administration | `routers/hosts.py`, `routers/ui.py` | `hosts` | create, update, request install, decommission, each as API and as form |
| Build records | `services/builds.py` | `build_records`, `assets` | start a record, finish the latest one, create the asset of a host |
| Unattended enrolment | `services/unattended.py` | `app_settings` row | resolve and persist the default profile, assign it to a host |
| iPXE scripts, config rendering | `services/ipxe.py`, `services/config_render.py` | none | text out of a host row |
| Asset inventory | `routers/assets.py`, `routers/ui.py` | `assets` | create, update |
| Post-install runs | `services/ansible_runner.py`, `routers/post_install.py` | `ansible_runs`, `post_install_configs` | queue, run in the background, retry; edit the config |
| Media import jobs | `services/media_jobs.py` | `media_import_runs` | queue, run `app.media_import` as a subprocess, stream its progress |
| Media import pipeline | `media_import.py` | files under the media root, `images` | download, verify, extract, publish, upsert |
| Catalogue | `services/profiles.py`, `routers/images.py`, `routers/profiles.py`, `routers/ui.py` | `images`, `profiles` | CRUD, one managed profile per image |
| DHCP probe | `services/dhcp_probe.py`, `dhcp_probe_server.py`, `dhcp_detect.py` | `app_settings` row | probe through a sidecar or a subprocess, store the result |
| Setup status | `services/setup_status.py` | none | readiness checks over settings and files |
| Users, sessions, CSRF | `security.py`, `dependencies.py`, `routers/auth.py` | `users`, signed cookies | login, logout, guards |
| Bootstrap, database, settings | `bootstrap.py`, `database.py`, `settings.py`, `main.py`, `manage.py` | engine, session factory | create tables, default profiles, first admin |
| Audit log | `services/audit.py` | `boot_events` | append |

**How they interact.** Everything meets in the database. The boot service calls
unattended enrolment (which reads the catalogue and writes `app_settings`), the
script and config renderers, build records (which write assets) and, after a
successful callback, the Ansible runner, whose background task it starts once the
callback has committed. A finished media import calls the catalogue and unattended
enrolment. No component notifies another otherwise: a handler finds out about what
others did when it loads a row.

**What makes it hard.**

- *The token is the only protocol state.* `boot_callback` never looks at
  `host.state`; that an old config cannot end an installation it does not belong
  to, start a second playbook run or revive a decommissioned host rests on every
  other handler rotating the token at the right moments (and on some not doing so).
- *Requests overlap.* Sessions are not isolated beyond READ COMMITTED, rows are
  neither locked nor versioned, and the ORM writes the columns that changed *in its
  own session*. `boot_callback` even awaits the request body between loading the
  host and using it.
- *Machines repeat themselves.* They boot again in the middle of an installation,
  fetch a config twice, send a callback late or twice.
- *Operators interfere* at any moment, through two front ends with different rules.
- *Jobs live in the process only.* A restart forgets background tasks; nothing at
  start-up looks at runs that were queued or running.
- *Shared uniqueness.* Asset tags, host MACs and profile names are unique across
  rows that different requests create from unrelated data.

**What makes each component correct**, with the property that says so:

- Boot service and host administration: a served token is current only while its
  installation runs (`ServedTokenIsInstalling`); one build record and one playbook
  run per token (`OneRecordPerToken`, `OneRunPerToken`); the current record is open
  (`CurrentRecordIsOpen`); machines cannot restart a finished host
  (`FinishedStaysFinished`); installations end (`InstallEnds`).
- Build records: a callback closes the record of its own installation
  (`CallbackClosesOwnRecord`), a run is attached to it (`RunsFollowInstalls`).
- Unattended enrolment: it never replaces a chosen profile (`ChosenProfileIsKept`),
  it is off when it is switched off (`OperatorsDecide`), and it does reach every
  pending machine (`PendingIsEnrolled`).
- Assets: a callback leaves the assets and tags of other hosts alone (`AssetsOfOthersAreKept`).
- Sessions: requests that do not overlap on a host are serialisable
  (`ImplementsSerial`); those that do never revive a token or lose an edit
  (`RetiredTokensStayRetired`, `HostnameEditsSurvive`), and reopen a finished host only if they
  had loaded it before (`OnlyStaleRequestsReopen`).
- Post-install and import jobs: a row is queued once, says RUNNING before its work begins,
  its work is done at most once and is over when the row says so (`ImplementsJob`); every
  queued job ends (`RunsEnd`, `ImportsEnd`); a run whose profile is deleted executes
  nothing (`DeletedProfilesRunNothing`); an import gives a deleted image no profile
  (`ProfilesHaveImages`).
- Catalogue: nothing refers to a profile or an image that has been deleted
  (`ReferencesResolve`), and no image is deleted under a host (`ImagesInUseStay`).
- Output of an import's subprocess: none is lost (`OutputIsComplete`), the outcome that is reported is
  what happened (`OutcomeIsTrue`), and the job comes back from reading (`ReaderReturns`).
- Media import pipeline: an import that knows the digest of the release serves the release
  (`KnownReleasesAreWhole`), the image row names what is served (`RecordedDigestIsServed`), a
  complete download is not damaged (`CompleteDownloadsStay`), and when imports overlap, only by one that had looked
  for the ISO before there was any (`OnlyEarlyLooksDamage`); a machine is never sent to fetch a file that is not there (`ImagesHaveFiles`), a manifest means
  boot loaders (`ManifestMeansLoaders`), and what was recorded or unpacked together belongs together
  (`RecordsAreTrue`, `UnpackedImagesFit`).
- DHCP probe: what is shown answers the probe it is shown with (`OffersAnswerTheProbe`), "running" means that
  there is a probe (`RunningMeansProbing`), a result is not replaced by an outdated one
  (`ResultIsRecent`), and a probe that is announced ends (`ProbesAreReported`).

`PROJECT.json` lists every component, and under `hazards` each place of the code
where one of these could go wrong.

## 2. The modules

| Module | What it is |
|---|---|
| `HostRows` | The rows of `hosts` and `build_records` and what each request does to the row it loaded, as pure operators. The *slips* next to them are plausible bugs, used only to show that the properties can fail. |
| `HostLifecycle` | State machine of the hosts: one action per handler, each request one step. The abstract specification of the host side of the service. |
| `HostProperties` | The properties of `HostLifecycle`. |
| `HostRequests` | The same handlers as they run: requests are loaded and committed in separate steps, several at a time, and write the columns they changed. |
| `HostProofs` | Proofs about `HostLifecycle` and `HostRequests`. |
| `JobLifecycle` | The abstract specification of a row in a job table. |
| `AnsibleRuns` | Post-install runs: configs, queueing, retries, the background task, timeouts, restarts; implements `JobLifecycle`. |
| `MediaImports` | Media import jobs, their subprocess and the step that makes profiles afterwards; implements `JobLifecycle`. |
| `Catalogue` | Images, profiles, the profile of each host and the unattended default, under requests that look first and write later. |
| `MediaPipeline` | The files and the image row that imports of one Ubuntu release share. |
| `ServedFiles` | The files, rows and manifest of the other imports: the RHEL family, Debian, Windows and the boot loaders. |
| `ImportStreams` | How an import job reads the output of its subprocess: pipes, buffers, deadline. |
| `DhcpPackets` | The DHCP option parser and the address range that is proposed for a network, as pure operators. |
| `DhcpProbe` | DHCP probes that share one row of `app_settings` and one port. |
| `AnsibleProofs`, `ImportProofs`, `CatalogueProofs`, `PipelineProofs`, `FilesProofs`, `StreamProofs`, `DhcpProofs` | Proofs about the seven state machines before. |
| `MCHostLifecycle`, `MCHostRequests`, `MCAnsibleRuns`, `MCMediaImports`, `MCCatalogue`, `MCMediaPipeline`, `MCServedFiles`, `MCImportStreams`, `MCDhcpProbe` | Instances for TLC (symmetry sets). |

`HostLifecycle` extends `HostRows`, `HostProperties` extends `HostLifecycle`,
`HostRequests` extends `HostProperties` and is shown to implement the
specification it extends (`ImplementsSerial == Spec`: its variables include those of
`HostLifecycle`, so the refinement mapping is the identity on them).
`DhcpProbe` extends `DhcpPackets`. `ImportStreams` is one step (`Exit` or `Expire`) of `MediaImports` in detail;
`MediaPipeline` and `ServedFiles` are what happens inside the subprocess in the meantime.

## 3. How the models correspond to the code

**Host row.** `hosts[h]` is the row of the machine with MAC `h`: `state`,
`profile` (`NoProfile` for NULL), `hostname` and `token`. A row that does not exist
has the state `Absent`. Tokens are random strings the code never compares except
for equality; the model numbers them per host in the order they are generated, so a
fresh token is `Fresh(h)` and "older" means "generated earlier". `variables` and the
timestamps are left out: no decision reads them.

**Build records, runs, assets.** `builds[h]` and `runs[h]` are the rows of
`build_records` and `ansible_runs` in the order of their ids (the code finds the
latest record by ordering on `started_at`, `id`). `assets` is a set of rows with
a tag, a host (either may be missing; `FitsNextTo` are the unique columns) and a status; the tag of an asset made by a callback is the
hostname or the MAC, as in `ensure_asset_for_host`. Two rows that agree in all three are one.

**What machines know.** `offered[h]` and `served[h]` are not in the database: they
are the tokens a machine has been handed in an iPXE script and in a rendered config.
They never shrink, so a machine may fetch with any script it was ever given and call
back with any config it was ever served, as late and as often as it likes. That is
how lost, delayed and duplicated requests enter the model.

**Requests.** Each handler is one action, with its early returns as guards:
`BootIpxe`, `RegisterHost`, `FetchConfig` / `BootConfig`, `FetchConfigFails` /
`BootConfigFails` (a `ConfigRenderError`), `CallBack` / `BootCallback`, and for the
operators `CreateHost`, `UpdateHost`, `RequestInstall`, `DecommissionHost` with the
form of each, `SetUnattendedDefault`, and `CreateAsset`, `UpdateAsset` with their forms. Requests that only
answer an error change nothing and are not steps.

The catalogue is constant here: `Profiles`, the profile `FirstProfile` that the
fallback query finds, the one `PinnedProfile` that the settings name,
`Bootable` for those whose image names all media paths, and `Playbooks` for those with an
enabled post-install config. `UnattendedAutoEnroll` is the setting of that name.

**Sessions (`HostRequests`).** A worker loads the row (`LoadBoot`, `LoadConfig`,
`LoadCallback`, `LoadOperator`) and commits later. The commit computes the new row
from what was *loaded* and writes the columns in which the two differ
(`WriteChangedColumns`, the unit-of-work rule of the session made at
`database.py:33`). An insert fails if the MAC exists by then (`Insertable`);
`Rollback` is every end without a commit. What a handler reads late (latest record,
assets, default profile) belongs to the commit step, so two commits are still
atomic towards one another.

**Jobs (`AnsibleRuns`, `MediaImports`).** `runs` and `imports` are the rows; `task`
says where the background task of a row is, which only the memory of the process knows.
A task waits for one of `Threads` threads (requests need one too: `FreeThread`),
sets its row RUNNING, starts its subprocess, and saves an outcome. `Restart` loses
every task and leaves the rows as they are, as `init_database` does; the container takes
the subprocesses with it. `executed` and `interrupted` are history variables.

- `AnsibleRuns`: a run refers to the config of a profile (`QueueAnsibleRun`), so that the
  deletion of the profile detaches it (`DeleteProfile`; refused while runs refer to the profile
  if the database enforces foreign keys) and the task ends SKIPPED (`SkipRun`). `QueueUnanswered` is a request
  that fails between its commit and its response: background tasks start behind the response, so the row stays
  QUEUED without a task. Everything that
  can go wrong before the row says RUNNING is `PreparationFails`; inventory and
  command are abstracted to `Preparable`. `ReportRefused` is an outcome that the database does
  not store.
- `MediaImports`: the command of a form publishes a set of images, one at a
  time (`Publish`, in the session of the subprocess). After the subprocess has succeeded the
  task reads which images lack a managed profile (`EnsureProfiles`) and inserts them in a
  later step (`Complete`), with other sessions in between; `NoImage` stands for a row
  that has been deleted after it was read. `EnsureFails` is the flush that fails, in the session
  that has to save the outcome. `managed` counts the managed profiles of an image. Hosts
  do not occur: only images and profiles that no host uses may be deleted.

**Catalogue.** Profile ids are given out in order, and 0 is NULL. A profile is its image and
whether its variables carry the marker of a managed profile. `CreateImage`, `UpdateImage`, `CreateProfile`,
`UpdateProfile`, `SetUnattendedDefault` and `AssignProfile` are one step each: what they check and what
they write is protected by the constraints of the database, or is theirs alone. The requests that delete
(`LookDeleteProfile`, `LookDeleteImage`) and the fallback to another default (`LookFallBack`) look in one step
and commit in a later one. What the commit does follows from what the session has loaded by then: hosts that
`delete_image` has counted through `profile.hosts` are not looked at again, while the flush of
`delete_profile` loads the hosts of the profile and clears their `profile_id`. Foreign keys are enforced, as
PostgreSQL does; a commit they refuse is `Rollback`. `history` is what build records refer to.
The name in `UNATTENDED_DEFAULT_PROFILE_NAME` is left to `HostLifecycle`; names in general are abstracted, and with
them the second managed profile that an image may get (see [6](#6-where-code-and-documentation-disagree)).

**Files (`MediaPipeline`).** Three files matter to an import: the ISO in the cache, kernel and initrd, and the
served ISO, which is a hard link to the first (`linked`) or a copy. A file is absent, whole or *partial*, which stands for
any other content. `open("wb")` truncates (`Truncate`) and makes the process the writer that the file's
completeness depends on (`Written`): all imports write the same bytes, each from its own position. A served ISO
that is a link changes with the cache. `Break` ends an import anywhere. Downloads may end early
without an error, since `response.read(n)` returns what there is. The model is about imports that choose the same
file names; a local ISO (`--iso`, for Ubuntu on the command line only) does not go through the cache and is left out. `found` is a
history field: what the import saw when it looked whether the ISO is there.

**The other imports (`ServedFiles`).** What an import does is a sequence of operations on its files (`BootloaderPlan`,
`RhelPlan`, `DebianPlan`, `WindowsPlan`, in the order of `media_import.py`); a process goes through the plan of its image and may
break off at every step. A file belongs to an image, or to the TFTP root (`Root`) if it is a boot loader. It is absent, has the
bytes of one of the `Releases` that the mirror has had, or other bytes (`Partial`). Opening truncates; when two processes have
a file open at a time, what is left in it is any of what they have been writing, or none of it (`contested`). Boot loaders and
RHEL images are downloaded over the files that machines fetch; Debian's tarball and Windows' ISO are downloaded
if nothing is at their path, whole or not. A Debian image has a tarball of its own; the path of a Windows ISO is one of `Isos`,
which several images may share, be it the name in the cache that their URLs end in or the path given with `--iso`, where an
operator may have put the ISO (`found` in `Begin`). Without an ISO and without a URL the import breaks off.
A tarball that is cut short does not unpack, but an ISO may give the files wanted. Windows
also serves a copy of `wimboot`: the file given with `--wimboot`, which belongs to nobody else, or else the one of the TFTP root
(`FindWimboot`, `Wimboot`; a path in the TFTP root that is given is the same as none). So two imports get in each other's way if they
are of one image, share an archive, or one is of the boot loaders and the other of Windows (`Disturbs`, `Overlaps`).
`settled` and `origin` are history variables: the images whose last
import had what it is made of for itself, and that nobody has begun to work on since, and the `wimboot` given with it. Somebody else
may begin to work with the same ISO afterwards: what was unpacked from it stays. `Init` has the boot loaders of an earlier
import or none, as `setup.sh` leaves them. Two of the four iPXE loaders stand for all of them, and the second copy of
`wimboot` for Windows is not distinguished from the first; a digest given on the command line can only `Break` an import. A set of
the images page is one import after the other.

**Output of the subprocess (`ImportStreams`).** The child writes lines to two pipes of a limited capacity; the job waits in
`select()` for the pipes and in `readline()` for the end of a line, and `readline()` buffers what it has taken out of
the pipe. Lines are written and read in two pieces, so that "the middle of a line" exists. The child may stop, close its streams
and go on (`Close`), end, or die at any moment (`Die`); `Expire` is the deadline, which is looked at between lines, and `Raise` any
exception of the job itself. `MediaImports` has of all this the steps `Exit` and `Expire`, which are what `OutcomeIsTrue` and
`ReaderReturns` show, and leaves out `Raise` and a child that goes on for more than ten
seconds after closing its streams.

**DHCP probes.** A request reads the row of the last probe (`LoadSetting`) and writes it back with the flag (`Mark`), or
fails if both are to insert it (`MarkRefused`). The background task asks the sidecar, which listens (`Listen`,
`Receive`, `EndProbe`), or fails in a foreseen (`FailProbe`) or unforeseen way (`CrashProbe`); `Store` is the `finally` clause. The
sidecar and the subprocess of `_probe_via_subprocess` are the same here: both open a socket on the DHCP client port, where every
probe hears the answers to all of them and to other machines (`Nobody`). `Receive` parses the bytes of an answer that was laid out in one
of several ways and may be cut off anywhere; bytes are numbers and `Option` is the loop of `parse_options` as a recursive
function. The four bytes of a server identifier are the packet's, its source address is a number. Error texts are a Boolean.

## 4. What the runs check and show

| Run | Configuration | Checks |
|---|---|---|
| `host_unattended` | 1 host, 2 profiles, enrolment on, 3 operator requests, fairness | `ServedTokenIsInstalling`, `OneRecordPerToken`, `CurrentRecordIsOpen`, `OneRunPerToken`, `RunsFollowInstalls`, `FinishedStaysFinished`, `ChosenProfileIsKept`, `CallbackClosesOwnRecord`, `InstallEnds`, `PendingIsEnrolled` |
| `host_attended` | 2 hosts, 1 hostname, enrolment off, 2 operator requests | `OperatorsDecide`, `AssetsOfOthersAreKept` |
| `requests_overlap` | 1 host, 2 workers on it at once, 1 operator request | `ServedTokenIsInstalling`, `RetiredTokensStayRetired`, `HostnameEditsSurvive`, `OnlyStaleRequestsReopen` |
| `requests_serial` | 2 hosts, 2 workers, one request per host at a time | `ImplementsSerial` |
| `ansible_jobs` | 2 runs, 1 thread, 2 profiles, 2 playbooks of which one exists, restarts, fairness | `ImplementsJob`, `DeletedProfilesRunNothing`, `RunsEnd` |
| `media_jobs` | 3 imports, 2 threads, 1 image, restarts, fairness | `ProfilesHaveImages`, `ImplementsJob`, `ImportsEnd` |
| `import_streams` | pipes that hold one line and a half, 3 lines, fairness | `OutputIsComplete`, `OutcomeIsTrue`, `ReaderReturns` |
| `media_pipeline` | 3 imports of one release | `KnownReleasesAreWhole`, `RecordedDigestIsServed`, `CompleteDownloadsStay`, `OnlyEarlyLooksDamage` |
| `served_files` | 2 imports, a RHEL and a Debian image, two Windows images with one ISO path, the boot loaders, 2 releases | `ImagesHaveFiles`, `ManifestMeansLoaders`, `RecordsAreTrue`, `UnpackedImagesFit` |
| `catalogue` | 2 images, 3 profiles, 1 host, 2 workers | `ReferencesResolve`, `ImagesInUseStay` |
| `dhcp_probe` | 3 probes, 1 server, restarts, fairness | `OffersAnswerTheProbe`, `RunningMeansProbing`, `ResultIsRecent`, `ProbesAreReported` |
| `media_persisted` | as small as the counterexample allows | `ErrorsArePersisted`, violated, see [6](#6-where-code-and-documentation-disagree) |

Every module has a type invariant, `TypeOK`. It is part of the inductive invariant that is proved ([5](#5-what-is-proved)), for every value
of the constants, and is not run beside it.

**Bounds.** `MaxOps` bounds the operators' requests, the only unbounded source of
fresh tokens: between two operator requests a machine can only run its course
(boot, fetch, fail or call back) and come to rest, so builds, runs and tokens are
finite. Three operator requests are enough for "create, interfere
in the middle of an installation, interfere again", and every state is reachable with
two because an update may write any state. Two profiles, one of them
without boot media and without a playbook, give every branch of the scripts and of
the queueing. One host suffices where the property speaks of one host and hosts
share nothing; `host_attended` and `requests_serial` have two because assets and the
default profile are shared. `requests_overlap` has two workers: every pair of
handlers overlaps, in every order of commits.

`AnsibleRuns` and `MediaImports` are finite without a bound: jobs are rows, and every row goes through
its states once. More jobs than threads leave one waiting while the others work, which is
where deletions and restarts between queueing and starting happen. The same holds for `MediaPipeline`: two of its
three imports may overlap and leave the third what they have made of the files. `Catalogue` is bounded by
`MaxProfiles`, the profiles ever made: with three of them, two images have a managed profile each and one
of them another one, or one is deleted and made again; two workers make every pair of requests overlap.

`ServedFiles` ends when every process has made one import; two processes, each with any image, are one import after the
other, on what the first has left or damaged, and every overlap of two. Two releases are an old and a new one. One ISO path is
shared by the two Windows images; two images with a path each would not meet. `DhcpProbe`
has a probe that stores between the reading and the writing of a request, and a third one that was requested after
the first had ended, which is what an outdated result takes; more servers would only be more members of a set. The server
has the address 10.0.0.54, so that its packets hold the number of the option that names it. `MaxLines` is the bound of
`ImportStreams`: three lines are six pieces, which is twice a pipe, so that the child waits for the reader on either
stream while the other has something to read.

**Fairness.** `FairSpec` of `HostLifecycle` assumes weak fairness of a machine's boots, config
fetches and callbacks, each per host. That is the assumption that a machine which is
left on keeps trying: PXE firmware and installers retry, and the service answers each
request independently of others. No fairness is assumed of operators or of
rendering errors. The runs without liveness properties use no fairness. The fairness of the jobs is that of the process: a thread that
works makes progress and time passes (weak fairness of every step of a task and of its deadline), and
the pool takes tasks in the order they came (strong fairness of starting a task, which is not enabled all
the time because other jobs take the threads). No subprocess needs to end by itself. In `ImportStreams` the reader
goes on, time passes, and the child ends a line that it has begun (Python's `print` flushes whole lines, and progress lines end), but
need not do more. In `DhcpProbe` the tasks are started and the probe ends, because both the sidecar and the subprocess have a
deadline; that an answer arrives is not assumed.

**Deadlock** is checked wherever the system does not stop by itself: a machine can always boot again, and a catalogue or a job
table can always be asked something. It is switched off in `media_pipeline`, `served_files`,
`import_streams` and `dhcp_probe`, whose imports, reader and probes all come to their end.

## 5. What is proved

All theorems hold for every value of the constants: any sets of hosts, profiles, names, workers,
runs, imports and images, any number of threads and of operator requests. They rest on the assumptions
that the modelling modules name (`...Assumption`: the null values are not members of the sets they
complete, the settings are Booleans, what exists is among what is named, bounds are natural
numbers, there is a thread); TLC evaluates these in every run.

`HostProofs`, about `Spec`:

- `InvariantHolds`: `Spec => []IInv`. None of the safety properties is inductive:
  that a callback closes the right record depends on the current token having no
  younger record, which depends on where tokens come from. `IInv` is the type
  invariant and, for every host,
  - `TokenInv`: served tokens are not from the future, a row that does not exist has used
    none, and the current token is served only during an installation;
  - `RecordInv`: records are made for served tokens and carry increasing ones, and
    a record of the current token is the last one and open;
  - `RunInv`: runs carry increasing tokens that are all retired, and point at
    the record of their token if there is one.
- `TypeCorrect`, `ServedTokensAreInstalling`, `RecordsAreOnePerToken`,
  `CurrentRecordsAreOpen`, `RunsAreOnePerToken`, `RunsAreForInstalls`: the checked
  invariants, from `IInv`.
- `FinishedMachinesStayFinished`, `OperatorsHaveToDecide`, `ChosenProfilesAreKept`,
  `CallbacksCloseTheirOwnRecords`, `OtherAssetsAreKept`: the action properties, from `IInv` and
  the shape of each action. `FinishedMachinesStayFinished` needs `TokenInv` (the current token of a
  finished host was never served), `CallbacksCloseTheirOwnRecords` needs `RecordInv` (the latest
  record is that of the current token).

`HostProofs`, about `RequestSpec`, with overlapping requests:

- `RequestInvariantHolds`: `RequestSpec => []RInv`. Next to the types and the token part
  of `IInv`, `RInv` says what a loaded row still tells about the current one
  (`SnapInv`): its token is not newer, and while the token is the same only a
  config fetch can have changed the state; and what the guards of the loading handler
  established (`ArgInv`).
- `OverlapKeepsServedTokens`: `ServedTokenIsInstalling` even under overlap.
- `OverlapRetiresTokens`: `RetiredTokensStayRetired`.
- `OverlapKeepsHostnames`, `OverlapKeepsFinished`: `HostnameEditsSurvive` and `OnlyStaleRequestsReopen`. Both rest on
  `CommitLeavesOtherHosts` (a commit writes one row) and on the rule of the UPDATE: no machine's request changes the
  hostname of the row it has loaded (`MachinesKeepHostnames`), and one that had loaded a finished row leaves every column
  as it was (`FinishedRowIsLeft`).
- `OverlapTypes` and `OverlapQueuesForRetired` (`TablesInv`): the tables keep their types, and the run that a callback queues, however
  late it commits, is for a retired token and an existing record. `RunsAreForRetiredTokens` is what overlap leaves of
  `RunsFollowInstalls`; the rest, and one record and one run per token, hold of separate requests only (TLC refutes them when
  requests of one host overlap).
- `SeparateRequestsAreSerial`: without overlap on one host, `RequestSpec` implements `HostLifecycle`. Initial states are initial states,
  loads and rollbacks stutter, and every commit is the handler of `HostLifecycle` in one step. The invariant is `SInv`:
  `RInv`, `IInv`, and for requests in flight that no two are about one host and that what each has loaded is still the row, with
  the token it came with (`SerialReq`). Requests about other hosts may commit in between, so each commit is
  shown to leave what the others rely on (`CommitIsLocal`).
- `SeparateRequestsKeepPromises`: hence the invariants and action properties of `HostLifecycle` for such requests.

`AnsibleProofs` and `ImportProofs`:

- `RunsInv` and `ImportsInv` relate a row to its task (`RowsFollowTasks`): a row with a waiting task is
  queued, one with a later task says RUNNING, and nothing was executed for a row that is not RUNNING yet or
  whose task has only started. `RunsInv` adds that a run whose config is known has a profile (`ConfigsHaveProfiles`),
  `ImportsInv` that the images found without a profile exist (`FoundImagesExist`).
- `RunTypes`, `ImportTypes`; `DeletedProfilesDoNotRun`; `ProfilesAlwaysHaveImages`.
- `RunsAreJobs`, `ImportsAreJobs`: the refinement of `JobLifecycle`. Initial states map to
  initial states, and every step maps to a step of one job or to a stutter, by way of the mapping in
  `Job == INSTANCE JobLifecycle`. A restart maps to `Stop`: it ends whatever executes and leaves
  the rows.
- `RunsShowTheirWork`, `ImportsShowTheirWork`: what the abstract job promises (`WorkIsAnnounced`: work is under way only
  behind a row that says RUNNING; `WorkIsNotRepeated`), proved of its steps and carried over by the refinement.

`CatalogueProofs`:

- `CatalogueInv` is the types, `ReferencesResolve`, and `FallBacksAreMade`: what a session has read as a
  replacement for the default is a profile id that was given out. `CatalogueTypes`, `ReferencesAlwaysResolve` and
  `ImagesOfHostsStay` follow. That the oldest remaining profile exists is the well-ordering of the
  natural numbers, cited from the library.

`PipelineProofs`:

- `PipelineInv` says that whoever is past the download finds an ISO in the cache (`CacheIsThere`), that
  an import which counts as alone is the only active one (`AloneIsAlone`), and what such an import can rely
  on at each of its steps (`Undisturbed`): which file it is writing, that its digest is that of the cache, that
  what it has extracted and published comes from it.
- `PipelineTypes`, `KnownReleasesAreSavedWhole`, `DigestsAreOfServedIsos`, `CompleteDownloadsAreKept`,
  `OnlyEarlyLooksCanDamage`.
- The last one does not need anybody to be alone. `EarlyLooks` says that whoever is between the look and the download has found nothing,
  and that the cache is not whole while the download that truncated it last is under way. So the end of a download never
  replaces a complete ISO by part of one, and `Download`, the only step left, is taken by an import that found nothing.

`FilesProofs`:

- `FilesInv` has the types, `ImagesHaveFiles` and `ManifestMeansLoaders`, and says for every import under way what its finished steps
  have left whatever others do (`Stands`: no step takes a file away, so what was downloaded, unpacked or copied is
  there, and a wimboot that was found), what it can rely on if nobody works on what it uses (`Relies`: its files and digests still fit
  together; an archive is that of its path, not of its image, so `Has` says which file a part of a plan is, and `IsAlone` is about
  `Overlaps`), and for every settled image that nobody works on it and what its import has left (`LeftAlone`, `Left`), whoever uses its ISO. The plans are
  sequences, so that what "step 4 of a Windows import" is comes from lemmas about each plan.
- `FilesInvariantHolds`, `FilesTypes`, `SavedImagesHaveFiles`, `ManifestsComeLast`, `RecordsStayTrue`, `UnpackedImagesStayFit`.

`StreamProofs`:

- `StreamsInv`: every piece written has been returned, is buffered or is in the pipe (`Balanced`); a stream that is not watched any more is at
  its end (`Drained`); and what the outcome was made of (`OutcomeFits`).
- `StreamsInvariantHolds`, `StreamTypes`, `OutputIsReadToItsEnd`, `OutcomesAreTrue`.

`DhcpProofs`:

- `ProbeInv`: every offer, stored, read or just heard, answers the probe it stands with (`AnswersFit`); and a result that is final is not among
  what had ended when any probe that has marked the row was requested (`ResultsFollow`): a request that puts back an outdated row
  marks it as running, and what is stored afterwards is younger than the request.
- `ProbeInvariantHolds`, `AnnouncedProbesExist`, `ResultsAreRecent`.
- The option parser is a function defined by recursion towards the end of the data. That it exists for all data is proved
  for this function (`OptionIsParsed`: take the smallest index from which on a function is right, by the
  well-ordering of the natural numbers). Then the parser moves from field to field (`SkipsField`, `SkipsPad`, `Ends`, `FindsField`),
  of data that may break off anywhere (`Arrived`), through each layout (`IdIsLookedUp`, `TypeIsLookedUp`).
- `IdNamesTheServer`: what is read as the server identifier of an offer, cut off anywhere, is the sender's or none.
- `OffersAnswer`: `OffersAnswerTheProbe`, from the above, `ProbeInv` and `NamesFit`: stored, read or heard offers name their source or none;
  `ProbeTypes`.
- `RangeIsInsideNetwork`: the range that is proposed for a network of at least four addresses, a power of two or not, lies between its
  network and broadcast addresses and is not empty.

Each step lemma has one step per action of `Next`, and one below it per part of
the invariant the action can disturb; the lemmas about rows
(what `PatchHost`, `SubmitHostForm`, `FinishLatestBuildRecord` ... may leave) come first.

**Only model-checked:** the liveness properties (`InstallEnds`, `PendingIsEnrolled`, `RunsEnd`, `ImportsEnd`, `ReaderReturns`,
`ProbesAreReported`), which are out of the prover's reach. Every invariant, action property and refinement that a passing run
checks is a theorem.

## 6. Where code and documentation disagree

One run looks for a violation, and TLC finds it.

- `media_persisted`: exceptions of an import are said to be "persisted for operator
  diagnostics" (`services/media_jobs.py:267`). When the flush in the import's session
  fails, the session has to be rolled back before it can be used again; nobody
  does, the commit that should persist the error fails too, and the row stays RUNNING.

Also seen while modelling, without a run:

- A callback is said to end the installation (`README.md:258`); when the asset tag it would create is taken, every
  callback fails with an uncaught `IntegrityError` and the host stays INSTALLING (`services/builds.py:20`;
  `TagClash`, the exception that `InstallEnds` makes).
- A reinstall is said to return the host to READY (`README.md:258`); if a config fetch commits while it is
  under way, the host gets a new token and stays INSTALLING (`routers/hosts.py:118`).
- "Profiles assigned to hosts cannot be deleted" (`templates/profile_detail.html:101`); a profile that is
  assigned after its hosts have been counted is deleted, and taken away from the host (`routers/profiles.py:103`).
- The two asset forms have a field `status`, which hides the module of that name in their functions: after the commit, or
  after the rollback, `status.HTTP_303_SEE_OTHER` and `status.HTTP_400_BAD_REQUEST` raise an `AttributeError`
  (`routers/ui.py:1196`, `1198`, `1281-1284`, `1299`). The operator sees an error although the asset was
  saved, and who tries again without a tag and a serial number saves it twice.
- "If the sidecar isn't reachable we fall back to running the probe in-process" (`services/dhcp_probe.py:13`);
  `run_dhcp_probe` reports the failure instead (`:145-155`).
- An exception that `run_dhcp_probe` has not foreseen is stored as neither offers nor an error
  (`CrashProbe`), and the setup page says "No DHCP server detected" of a probe that has failed or never ran
  (`services/setup_status.py:282`). When two probes overlap, the first to end says that none is running.
- The DHCP range that is proposed for a /32 lies outside of it (`dhcp_detect.py`, `default_dhcp_range`).
- No line of the repository says what should happen in these cases, which the models contain: the fallback
  overwrites a default that was chosen meanwhile (`services/unattended.py:53`); a retry runs with the profile of now, next to a run
  that still goes on (`services/ansible_runner.py:212`); two imports of one release disturb each other
  (`media_import.py:257`); an exception while reading the output of an import leaves its subprocess running
  (`services/media_jobs.py:231`); a line without an end keeps the job past its deadline (`:213`).
- Successful callbacks are said to create assets (`README.md:160`); failed ones do too,
  as ACTIVE (`services/builds.py:48`).
- A PENDING machine is told to have a profile assigned (`services/ipxe.py:96`); the host form
  leaves hosts with a profile PENDING (`routers/ui.py:253`).
- "no install will be started" for a DECOMMISSIONED host (`routers/boot.py:116`); a config fetch that
  had loaded the host before puts it back to INSTALLING (`routers/boot.py:176`).
- The outcome of an Ansible run is lost like that of an import if the database refuses it
  (`services/ansible_runner.py:201`; `ReportRefused`).
- The images page announces QUEUED and RUNNING imports as "in progress" (`templates/images.html:87`);
  after a restart nobody works on them (`bootstrap.py:18-34`).
- Every image is said to get one managed profile (`README.md:173`); two sessions that make it at the
  same time make two, the second as `<image>-profile` (`services/profiles.py:91`).

## 7. What is not modelled

- **Text.** Scripts, configs, templates, HTML: what matters to the protocol is
  whether they carry a token.
- **Boot events and timestamps.** Written by every handler and read by none that decides.
- **Authentication.** Stateless cookies over third-party cryptography; every
  operator action stands for a request that passed the guards.
- **Serial numbers of assets.** Operators set them, nothing else reads them, and a clash changes nothing.
- **Errors of the database itself** other than constraint violations, except
  as `Rollback`.
- **Options of the import command** that neither the images page nor `src/scripts/prepare_media.sh` passes on: `--no-wimboot`,
  `--destination`, the mirrors, and `--iso` for Ubuntu. They are left to who runs `app.media_import` by hand
  (`src/scripts/import_iso.sh`). The `--iso` and `--wimboot` of a Windows import are modelled (`ServedFiles`); names of Windows
  images that differ in punctuation only, and so share a directory, are not, nor Ubuntu URLs that end in the same name but lead to
  different ISOs. A digest that is given can only stop an import of `ServedFiles` (`Break`); in `MediaPipeline` it is `expected`.
- **DHCP mode and the addresses in the forms of the network page**: single assignments to a settings row that the server
  configuration reads.
- **Setup status**, apart from the boot loaders and the row of the last probe: read-only reports. **Profile extras**: rows
  that only the templates read. **Distribution registry**: a constant table. **Scripts**: external tools in sequence.

## 8. Plan

In order of importance; the first nine are done.

1. `HostRows`, `HostLifecycle`, `HostProperties`: the life of a host, with
   machines and operators in any order.
2. `HostRequests`: the same under overlapping sessions.
3. `HostProofs`: the safety properties of both (and, with the next ones, a module of proofs for each).
4. `JobLifecycle`, an abstract job (queued, running, ended, at most one task), with
   `AnsibleRuns` and `MediaImports` as implementations: background tasks, timeouts,
   restarts, manual retries, a session that a failed flush has poisoned.
5. `Catalogue`: images, managed profiles and deletions next to the hosts that use them.
6. `MediaPipeline`: download, verify, extract and publish with interruptions and retries; `ServedFiles`: the other imports.
7. `ImportStreams`: what a job can know of its subprocess.
8. `DhcpPackets`, `DhcpProbe`: probes that overlap and store out of order, the running flag across restarts, and the
   arithmetic of `default_dhcp_range`.
9. Proofs about overlapping requests (`OnlyStaleRequestsReopen`, `HostnameEditsSurvive`, the step simulation behind
   `ImplementsSerial`) and about the option parser (`OffersAnswerTheProbe`).
10. Unique profile names under the 160 character limit.
