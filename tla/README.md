# TLA+ models of nixos-fleet

This directory models the programs of this repository that change state over several steps, checks them
with TLC on small instances and proves their most important invariants with TLAPS. `PROJECT.json` is the
index: components, runs, mutants of each property, the source lines of every definition, hazards,
findings and theorems.

    tlc -workers 2 -config GarageConvert.cfg GarageConvert     # check a model
    tlapm GarageConvert_proofs.tla                             # check its proofs

## 1. The system

nixos-fleet is a flake that configures a handful of NixOS hosts, and the programs around it.

| Component | State it keeps | Operations | Hard behaviour | What makes it correct |
| --- | --- | --- | --- | --- |
| Fill, verify and deploy (`scripts/build.sh`, `verify-from-attic.sh`, `deploy-from-attic.sh` over `attic-common.sh`) | Nix stores of builders and hosts, narinfos and NARs of the Attic cache, `/run/current-system` | skip, build, push in batches, prove by narinfo, realize, copy, switch | several runs on one builder, retries, `set -e` that is off inside `$(...)`, narinfos that outlive their NARs, deletes beside running generations | the running generation stays whole; only what Attic has is switched to; a fill that succeeds verifies; a deploy fails by a fault of its own or not at all |
| GitLab pipelines (`.gitlab-ci.yml`, `ci/jobs.yml`, `gitlab-select-hosts.sh`, `changed-hosts.sh`, `gitlab-gen-pipeline.sh`) | commits of main, job states, deployments, what each host runs | select hosts by diff, fill, verify, deploy | overlapping pipelines, resource groups, auto-cancel, jobs allowed to fail, deploys that fail after their switch, a parent that waits for its child, deployments created in another order than their pipelines | merges arrive, verified, and no younger deployment is undone; no job waits for ever |
| Garage metadata conversion (`services/garage.nix`) | the files of `metadata_dir`, the unit, garage.service | look, wait, convert, publish, retire | power loss between two renames, failed steps, Garage starting or stopping meanwhile, rolled-back generations | no write is erased, none is lost to the Garage that serves, one engine at a time |
| Jellyfin I/O bench (`scripts/jellyfin-io-bench`, `run-jellyfin-io-bench.sh`) | scratch directories, an ffmpeg child, two goroutines, the report, the page cache | phases of load with samplers beside them, a simulated player, verdicts, one report | timers against exits, cancellation against a request in flight, leftovers of earlier benches | nothing outlives a phase, counts are its own, a pass means what it says, the report that is fetched is whole and new |
| attic-nar-proxy (`services/attic-nar-proxy`) | none besides the exchange: two bodies and a context | pass on what atticd answers, or GET what it redirects to | HEAD by GET, clients that resume, bodies that break off, a stalled Garage | what a client puts together is the NAR; a client that hangs up leaves nothing open |
| ntfy webhook (`services/ntfy-group-webhook.py`) | the accept queue of one thread | post to ntfy, answer 204 or 500 | Alertmanager retries, gives up and cannot recall; posts that time out and are published all the same; restarts | every change is published in the end, and only a post nobody waits for comes after a newer one |
| wait-for-host units (`config/wait-for-host.nix`) | the states of units | probe until a deadline, start what waits | three hosts in any boot order, a chain of waits, outages, deadlines that pass | every service ends up running, or a wait of its own has failed |
| garage-bootstrap (`services/garage.nix`) | keys, key files, buckets, permissions | create, save, allow, for each name | a kill or a failed call between two steps, restarts | success means keys, buckets and permissions are there, and success comes |
| Backups (`services/postgres.nix`, `services/gitlab.nix`) | dumps here and on the target | rename, copy, verify, delete | incomplete transfers, crashes, a dump that begins meanwhile | the newest dump is on one of the two sides |
| Build-cache images (`config/build-cache.nix`) | an image file and its filesystem | create, check, grow | a crash between two steps, another size at the next start | a filesystem is never cut off nor mounted with errors |
| iperf3 mesh, `run-on-rpi4.sh` | small files, one directory | measure, sync and run | clocks, shared directories | slots do not overlap, runs do not share a tree |

How they interact: the pipelines of main run the scripts; the scripts fill the cache that attic-nar-proxy
serves out of Garage; hosts are switched by the scripts, and a switch (or a boot) is what starts the
one-shot units, the conversion of Garage's metadata among them. When Garage comes back as a new cluster,
Attic keeps narinfos for what is gone, which is the coupling between Garage and the scripts that
`AtticDeploy` models. The bench is a program of its own, started by an operator over ssh.

The rest of the repository is declarative: NixOS options of third-party daemons, disk layouts, dashboards,
Ansible settings. No program of this repository runs in them and they are listed in `PROJECT.json` as not
modelled, each with its reason.

## 2. Plan

Order: what can take down a host or lose data first, then what misleads an operator.

1. `AtticDeploy`, `GitlabPipelines`, `GarageConvert`: the way of a commit to a host, and the one migration of
   data. *Done*, with proofs.
2. The bench: `PlaybackSchedule` (abstract) and `PlayerSim` (implements it), `CopyProgress`, `BenchPhase`,
   `BenchRun`, `MountStats`. *Done*, with proofs.
3. The programs and units of the services: `NarProxy`, `NtfyWebhook`, `WaitForHost`, `GarageBootstrap`, `BackupShip`,
   `ImageInit`. *Done*, with proofs of their safety properties (`WaitForHost` has liveness properties only).
4. Left: an abstract specification of the way of a commit to a host that `GitlabPipelines` implements; the directory that
   runs of `run-on-rpi4.sh` share.

| Module | Extends / instantiates | Role |
| --- | --- | --- |
| `AtticDeploy`, `MCAtticDeploy` | | scripts; fleet, closures and environments for TLC |
| `AtticDeploy_proofs` | `AtticDeploy`, `TLAPS` | types and all of its safety and action properties |
| `GitlabPipelines`, `MCGitlabPipelines`, `GitlabPipelines_proofs` | | pipelines of main; the symmetry of toplevels; types and all of its safety and action properties |
| `GarageConvert`, `GarageConvert_proofs` | | the conversion; types and its four safety invariants |
| `PlaybackSchedule` | | abstract: what a player has waited |
| `PlayerSim` | `PlaybackSchedule` (INSTANCE WITH) | the virtual player and its refinement |
| `CopyProgress` | | the stalls among ffmpeg's progress reports |
| `MountStats` | | NFS counters of a phase and the automount under them |
| `BenchPhase`, `MCBenchPhase`, `BenchPhase_proofs` | | a phase: main, goroutines, ffmpeg, directories; `NothingOutlives`, `FilesAreOwn`, `MountsReleased` |
| `BenchRun` | | main, its exits, the report, the runner script |
| `MCDirectPlay` | `PlayerSim`, `CopyProgress`, `MountStats`, `BenchRun` | the sequential parts of the bench, one per behaviour |
| `DirectPlay_proofs` | the same four, `TLAPS` | the refinement and the properties of the four parts that `MCDirectPlay` checks |
| `NarProxy`, `NarProxy_proofs` | | exchanges of one client through the proxy; `AssembledIsWhole` |
| `NtfyWebhook`, `NtfyWebhook_proofs` | | Alertmanager, the webhook, ntfy; `NeverBack` |
| `WaitForHost` | | waits and start jobs on three hosts |
| `GarageBootstrap` | | the bootstrap of keys and buckets |
| `BackupShip` | | the two backups that leave their host |
| `ImageInit` | | the image unit |
| `Units_proofs` | `BackupShip`, `ImageInit`, `GarageBootstrap`, `TLAPS` | the units on one host: `DumpKept`, `NeverCutOff`, `MountedIsClean`, `ActiveIsReady` |
| `MCServices` | the six above | the programs and units of the services, one per behaviour |

`MCDirectPlay` and `MCServices` put components that share no state behind one variable `part`, chosen in the initial state: each
behaviour is one of a component's own specification, with the others at rest, and its fairness is the component's, guarded by
`part`.

## 3. The models and the code

Definitions carry the names of the code. Operators that end in `_Something` directly before a definition are
its mutants: the same definition with a bug that somebody could write. Each property is broken by one of them
(`PROJECT.json`, "mutants").

### AtticDeploy

*State.* `narinfo` (what atticd answers for) and `nar` (what Garage serves) are two sets of store paths, because
the difference between them is the incident of `docs/runbooks/attic-ghost-narinfos.md`. `store` and
`current` are the stores and running systems of all machines; `job` is the program counter and the locals of
each run of a script. Paths are model values and `Closure` is an arbitrary reflexive, transitive function, so
nothing depends on what a store path looks like.

*Actions.* `Skip`, `EnsureCli` are the start of the three scripts; `FillSkip`, `FillBuild`, `ListClosure`, `PushOk`,
`PushFails`, `Pushed`, `FillNextPhase` are `attic_fill_*` and `attic_push_closure` with batches and attempts;
`Verify`, `Prove`, `Realize`, `CopyOk`, `CopyFails`, `Switch` the rest of verify and deploy. `Strict(j)` is where
`set -e` counts: bash turns it off in `out_path=$(attic_fill_installable ...)`, so a build or push that
failed there falls through to the narinfo gate. Surroundings: `GarageEmptied`, `TruncateRows` (the
repair), `Kill` (a cancelled job, a crash). What nix does is modelled from how the scripts use it: a ghost
narinfo fails a build rather than falling through to the next substituter, a broken copy leaves whole closures,
`nix store delete` refuses what is referenced or alive.

Any command of a script may also fail of itself: `StartFails` (evaluations, the CLI, the login), `BuildFails`, `ListFails`,
`HostListFails`, `ProveFails`, `RealizeFails`, `SwitchFails` (before or after the system was activated). Nothing retries these, they
put the run into `broken`, and where `set -e` is off the run goes on all the same.

*Properties.* `RunningIsWhole`, `SwitchedIsOnAttic`, `FillMeansVerified`, `RetriesAbsorb`, `OnlyFromAttic` and `RunsEnd`.
`RetriesAbsorb` says by what a deploy fails: with fewer failed pushes and copies than the loops have attempts, only by a command of its own
that nothing retries, never by what the runs around it push, delete or break off. Three exceptions are part of the statements because
the model found them: a host that runs `build.sh` itself while it is deployed, by itself or from another machine, can have
its profile deleted between realize and switch (`Undercut`); after `TruncateRows` nothing is said of what was on Attic before; and a
`build.sh` whose list of hosts could not be evaluated may exit 0 (section 6), so that `FillMeansVerified` is stated of runs that did not break.

### GitlabPipelines

*State.* `main` is the sequence of commits with a toplevel per host (a version, so that a revert is the old
value); `pipes` the pipelines with the status of each parent and child job; `current` what each host runs and `switched` which pipeline
made it; `listed` the deployments of each host in the order in which GitLab created them, `deployed` the last of them to succeed.

*Actions.* `Merge`, `Manual` create pipelines under the rules of `.rules-fill`; `Start` is a runner taking a job
when `needs` and its resource group allow it, and for `trigger` the creation of the child pipeline;
`FinishSelect` is `gitlab-select-hosts.sh` with `changed-hosts.sh` (`Selections`), `FinishTrigger` is `strategy: depend`,
`FinishDeploy` is the deploy script seen from outside; `Fail`, `FailSwitched` (a deploy that fails after the host is switched), `AutoCancel`,
`List`, `DropOutdated` the rest.

*What GitLab calls outdated.* A deploy is dropped at its start when a *younger deployment* of the same host, of another commit, has
succeeded (`Outdated`). The age is that of the deployment record. Between which two moments GitLab creates it depends on its version, so
`List` may happen at any time from the creation of the child to the start of the job, in any order over all pipelines. Nothing
ties that order to the order of the pipelines: a pipeline that was slower to its child has the younger deployments, and is free to bring its older
commit. The statements about what a host ends on are therefore of hosts whose deployments were created `InOrder`.

*Properties.* `MergedIsDeployed`; `ForwardOnly` (no deployment, not even one that fails after its switch, goes over a younger one that has
succeeded: the check is at the start of the job, and it is the resource group that keeps it true to the end); `PipelinesEnd` (the trigger job is
outside the group its child needs); `WebRepairs` (of every state, also while other pipelines run); `SwitchIsVerified`; `LanesApart` (what fails on the Pi or on a gaming
host never fails the pipeline). `EveryMergeIsDeployed` is what the README of the
repository says, and is refuted (section 6). `MergedIsDeployed` also excepts changes that came with a file outside
the changes list (`Seen`): their deployment is never begun.

### GarageConvert

*State.* A file is absent, a part (a directory without `data.mdb`, a conversion that has not ended) or a database
that holds a set of writes; `nested` is what `mv` puts *inside* an existing `db.lmdb`. *Actions.* One per command of
the script (`Look` to `RetireSidecars`), `Abort` for `set -e` and signals at any of them, systemd's part (`UnitStart`,
`Retry`, `MayStart`, `StartGarage`, `StopGarage`, `GarageExits`), and `Deploy`, `Rollback`, `Crash`, `Write`. *Properties.*
`EveryWriteKept` holds whatever happens. `NoWriteLost`, `OneEngine` and `NotLive` are stated of an `Ordinary`
node: one that was not rolled back to sqlite and whose Garage never was `deactivating`; section 6 says why.
`ServesOrFails` is liveness.

### PlaybackSchedule and PlayerSim

`PlaybackSchedule` is the promise of `docs/services/jellyfin.md` without a buffer: playback starts when the preroll has
arrived, is due at a constant rate, and `late` is the longest the due data was late. `PlayerSim` is
`runPlayerSim` turn by turn: `Drain` (with a partial drain), `Pause` when the buffer is full, `Read` with reads cut to
the room, `ReadEnds`, `Finish`. Time is counted in the bytes drained in it, which makes `drainBps * dt` an integer without
rounding; the one-second windows decide nothing and are left out. The refinement maps `stallDur` to `late`: the
stalls that are added up step by step from what a finite buffer lacks are exactly the lateness of the data.
`PassMeansSmooth` is the verdict; `NeverOverfilled`, the capacity, is proved and not run.

### CopyProgress

`runFFmpegCopy`: ticks of `-stats_period`, a report at each tick or none while ffmpeg is blocked. `speed=` is media over
time since the start, and `-re` catches up. `slowRun` and `slowN` are the locals of the callback. `StallsCounted` compares the counter with the
history of reports. The lag and the verdict are comparisons of what is known at the end, made in one step, and are left out.

### BenchPhase

main (`Make` to `Unwind`, one action per place where it blocks or may return), two timers, ffmpeg, the sampler and the
health goroutine, and a directory stack per path: `layers[d]` is what was mounted over `d` and what is in each layer, and
the content of a directory is the set of ffmpegs that wrote there. `Interrupt` leaves an ffmpeg of its own process group
behind (`orphans`); `PowerLoss` keeps the disks. The context of main is never done, so its branches are dead code and
left out. Properties: `NothingOutlives`, `FilesAreOwn`, `MountsReleased`, `BenchEnds`; `NoFalseFail` is refuted (section 6).

### BenchRun

`todo` is the list of steps main has before it (`Plan`, per subcommand), each of which may end it with or without the
report; `json` is the file on the host that survives runs (`Written`: a full disk may leave it cut), `copied` what
`run-jellyfin-io-bench.sh` fetched. `Direct` drops or does not drop the page cache and reads parts of the file. Properties:
`CopiedIsWhole`, `CopiedIsFresh`, `ColdReads`; `CopyReadsNFS` is refuted (section 6).

### MountStats

`ops` is what a phase still does with its file and its two snapshots (`PhaseOps`: `runSequentialMax` and `runPlayerSim` snapshot
inside the time they hold their file, `runFFmpegCopy` outside that of ffmpeg); `share` is the counter of the mounted share, which
`OpenInput` and Jellyfin's `Transfer` mount and the idle timeout (`Unmount`) takes away with its counter. `NfsDelta` is unsigned (`CounterSize`).
`DeltaIsTraffic`: the difference is the traffic, whatever happens for a phase that holds its file, unless there was an unmount for the
others.

### NarProxy

One client that asks for one object, `Size` parts long, until it has it: `Ask` (HEAD, or GET from the first part it lacks),
`FromAtticd` (the object, a part of it, an error, or a redirect), `FromGarage` (always a GET of the whole; `Drained` for a HEAD),
`Send`, `Break`, `HangUp`, `Cancel`. `Relay` is `ReverseProxy`. A server may answer a range with 206 or with 200 from the start, and
Garage, which gets no range, always does the latter: `AssembledIsWhole` holds because 200 starts again. `HungUpIsClosed` is liveness with
fairness of `Cancel` alone: nobody else has to go on, as there is no timeout (`Timeout: 0`).

### NtfyWebhook

`group` is the version of a group's alerts; `flush` the one Alertmanager is notifying of, retried until it is answered 204 or given
up; `queue` the requests at the socket of the single-threaded `HTTPServer`, the abandoned ones too. `Post` publishes and may still fail;
`PostFails` does not publish; `PostTimesOut` is the 15 seconds of `urlopen`, after which the next request is served while ntfy may still
publish the message (`overdue`: `PublishLate` or `Forget`); `Restart` drops the queue and may cut the POST that is under way. `latest` is the newest version
that was published. `NeverBack`: what is published after a newer version is `overdue`, and nothing else is; a request that Alertmanager gave up does not
overtake either. `EveryChangeShown`: each version, or a later one, is published.

### WaitForHost

A unit per service and port (`wait`), the services behind them, the databases of a third host (the two Redis instances have a port each).
`StartJob` is systemd's `requires` with `after`; a failed wait ends it. `Timeout` is the deadline of `wait-for-host.nix`, which any wait runs into whose
port is not open at the moment, Keycloak's too. `Exit` and `Respawn` are Keycloak's `Restart=always` without a start limit; vikunja and oauth2-proxy have no such
setting in this repository and are not followed after their start. `ServicesSettle`: a service whose start job was queued ends up running for
good unless one of its own waits has run into the deadline, and then as failed; `KeycloakNeverDead`, which makes no such exception, is refuted (section 6).

### GarageBootstrap

`unit` is the step of the script for the name `which`; each call of `garage` may fail, with or without having done what it was
asked, up to `MaxFaults`, and `Killed` is a fault too. `KeyInfo` does not tell absence from ambiguity or an unreachable daemon; a query that
failed for the last reason is `misread`. `ActiveIsReady` is of keys, buckets and permissions; a key's file may be missing (section 6).
`BootstrapEnds` (unless misread).

### BackupShip

Both backups: `host` says which. On `postgres` the dump and its `postStart` are one unit, on `gitlab` the sync is a unit of its own beside
the next dump. `Copy` leaves out any files; `Verify` compares; `Delete` takes what is there; `HostDies` anywhere. `DumpKept` holds of the
first, `ArchiveKept` is refuted of the second (section 6).

### ImageInit

`file` and `extent` are the sizes of the image and of the filesystem in it, `fs` its condition, `step` what the unit does;
`StopImage` is a reboot, a deploy with another `imageSize`, or a death at that step. `NeverCutOff`, `MountedIsClean`.

## 4. Runs

All bounds are constants of the `.cfg`. The system may stop in every model (scripts end, pipelines end, the bench ends), so
deadlock is not checked; where something has to happen there is a liveness property instead.

| Run | States | What happens in it | Why the bounds suffice |
| --- | --- | --- | --- |
| `attic` | 1.08M | two runs out of an operator's, CI's and the hatches' (deploys of two revisions, a local deploy, a deploy of the builder from CI, builds, a public-only refill) on one builder that is a host, in containers and on hosts; two tries, batches of one, two faults, any command that is not retried may fail, a kill, Garage emptied once and repaired once at any time | two runs interleave in every pair of steps; a shared library makes the closures overlap; two faults reach the end of a two-try loop, one does not; one emptying makes ghosts, one repair removes them |
| `gitlab_merges` | 2.38M | three pipelines of an x86 host, three commits with reverts, seen and unseen changes and docs, web pipelines, any two jobs that fail (a deploy also after its switch), an auto-cancel, deployments created in any order | order, age and cancellation are relations of two pipelines, the third repairs or overtakes; the initial commit and two more make A-B-A. Toplevels are only compared, so that they are symmetric (`MCGitlabPipelines`); a third source of pipelines is left to the theorems |
| `gitlab_lanes` | 525k | two pipelines of a Pi and a gaming host, pushes and web pipelines, any job fails, an auto-cancel, a gaming deploy by hand at any time | the lanes meet in one pipeline; the resource group is shared by two |
| `garage_convert` | 170k | three writes, two power losses, one failed step, one rollback, one slow stop | a loss in the conversion and one in its repetition; a write before, during and after |
| `direct_play` | 1.23M | player: buffer of 4, reads up to 3, file of 12, delays up to 5; copies: 6 ticks of media, 9 ticks of time, any speed, missing reports; counters of 5 values, 4 units of traffic, any number of phases and unmounts; main: every subcommand, twice, with failures, a full disk and a warm or cold cache | reads smaller and larger than the room, stalls longer than the buffer; two separate stalls of three reports fit in nine ticks; counters wrap; staleness is a relation of two runs |
| `bench_phases` | 102k | idle, two phases on one directory, tmpfs; two benches; errors, interrupts, power loss | leftovers go from phase to phase and from bench to bench |
| `services` | 45k | proxy: objects of 3 parts and 4 requests; webhook: 4 changes, a backlog of 3, two restarts, posts that time out; boot: databases that come up late or go away again (two outages), any wait running into its deadline; bootstrap: two names, three faults; ship: three dumps and three crashes; image: three sizes and three crashes (`Services.cfg`) | an object is resumed and begun again; an abandoned or overdue request meets a newer one; a wait fails on each side of the chain; a crash in a step and one in its repetition |
| `gitlab_cancel`, `bench_health`, `bench_warm`, `wait_boot`, `backup_sync` | | refutations | section 6 |

*Fairness.* `AtticDeploy` assumes weak fairness of each run: its commands return; they have timeouts or are killed with
the job. `GitlabPipelines` assumes that a job that can start or end does (`WF` of `JobStep`; `gitlab_lanes` only, the other run checks safety): runners poll. `GarageConvert`
assumes that systemd starts units it may start, kills a Garage that does not stop (`TimeoutStopSec`), and that commands
return; nothing is assumed of writes, stops, retries or deploys. `BenchPhase` assumes that timers fire, system calls and
requests (which have a timeout of two seconds) return and a killed process is gone; *not* that ffmpeg obeys SIGINT or ends by
itself. The goroutines' `select` needs strong fairness of the `ctx.Done` case: Go chooses among ready cases at random, so
a case that is ready again and again is taken. `NarProxy` assumes that `net/http` ends an exchange whose context is cancelled, and
nothing of atticd, Garage or the client. `NtfyWebhook`: Alertmanager notifies, a flush has an end, `urlopen` has a timeout (`WF` of
`Post \/ PostFails \/ PostTimesOut`) and ntfy is not down for ever (`SF` of `Post`). `WaitForHost`: hosts boot, databases come up in the end, systemd runs
jobs, and a wait ends, by its port or by its deadline (`WF` of `Reachable \/ Timeout`); nothing says that the port comes first. `GarageBootstrap`: `Restart=on-failure`,
commands return, and somebody applies the layout (`docs/services/garage.md`). `BackupShip` and `ImageInit` assume none.

## 5. Proofs

Every safety and action property of a passing run is a theorem. Each holds for every value of the constants that meets the
module's ASSUMEs: types of the bounds, closures that are reflexive and transitive, disjoint classes of hosts, a list of names that is
not empty (`GarageBootstrap`), and for `AtticDeploy` that a host's toplevel is no tool of the scripts and that the cap on counted
faults (a bound of the model) is not below the attempts of a batch, so that the count can tell whether a batch has used them up. The pattern is the usual one: a strengthened invariant that `Init`
establishes and every action keeps, one step of the proof per action, PTL for the temporal step.

- **GarageConvert.** `TypeCorrect`. `KeptCorrect` (`EveryWriteKept`, no condition): `KeptInv` adds that what is absent
  holds nothing and that `db.sqlite` is whole or absent, without which a rename could hide a write.
  `NoWriteLostCorrect`, `OneEngineCorrect`, `NotLiveCorrect` share `ConvertInv`: `Whereabouts` (which files exist at each step),
  `Engines` (who may run, on which database) and `Holder` (LMDB holds all acknowledged writes as soon as it is a
  database, sqlite until then). It is guarded by `Ordinary`; `OrdinaryBefore` shows that a node that is ordinary after a
  step was so before. `Holder` is not inductive without `Whereabouts`: a power loss between `Publish` and `Retire` leaves both.
- **AtticDeploy.** `TypeCorrect` needs `JobsOk` (a run that lists or pushes has a head of `todo`, one that copies has an
  `out_path`). `WholeCorrect` (`RunningIsWhole`): `StoresOk` says that stores are closed under references and hold what runs;
  the lemmas `Grow`, `GrowByMissing`, `Shrink` are about the three ways a store changes, `Shrink` being `nix store delete`.
  `OnAtticCorrect` (`SwitchedIsOnAttic`): `GateInv` says that a run past the gate has its closure on Attic, which is why the
  gate suffices although `set -e` is off before it, and whatever breaks. `OnlyFromAtticCorrect` is about steps and needs the types only
  (`StepOnlyFromAttic`: which store a step writes to).
  The two statements about whole runs share `ShapeInv`, which variables of a run mean something at which step of which script.
  `FillCorrect` (`FillMeansVerified`): `FillInv` says that what a `build.sh` that did not break was asked for is cached or still on its list, and `PushInv`
  that the push of a run that stops at errors has uploaded what is no longer in its rest.
  `RetriesCorrect` (`RetriesAbsorb`): with nothing emptied or repaired a narinfo has its NAR (`CalmInv`), attempts are bounded by faults (`TriesInv`), and
  `DeployInv` follows a deploy of which no command broke: what it proves, realizes and copies is in the store it works in, as a fill on that machine
  deletes its profile only after pushing it. The runs around it may break, be killed and delete.
- **GitlabPipelines.** All from `Inv`, whose parts lean on each other. `ForwardOnlyCorrect`: `GroupInv` (one job of the resource group at a time,
  over all pipelines), `ListedInv` and `DeployedInv` (a deploy that runs or succeeded has its deployment) and `NewestInv` (no deployment runs when a younger
  one of another commit has succeeded last); `NewestInv` is not inductive without `GroupInv`, and needs no order of the pipelines. `SwitchIsVerifiedCorrect`: `VerifyInv`, kept
  because a verify job that succeeded stays so: the child is created once, when the trigger job starts (`ChildInv`). `WebRepairsCorrect`: `RunsInv` (a host runs what
  the pipeline that switched it last wanted, also one that failed after it), `WebInv` (a web pipeline has selected every host; after its trigger job each
  x86 deployment is a success), `HeadsInv` (newer pipelines are of commits that are not older) and `OrderInv`: with the deployments of the host in the order of the pipelines, the
  last switch was of no older commit than any deployment that succeeded. `LanesApartCorrect`: `LaneInv` (the jobs of the x86 hosts are there together,
  none waits for an operator or is cancelled beside a running trigger job), so that a child that is over without their success has lost one of them.
  `MergedIsDeployedCorrect` adds, while nothing has failed or been cancelled: `LifeInv` (the jobs of a pipeline go on, its selection holds what
  its merge changed, a deployment dropped in order has one of no older commit that succeeded), `MergesInv` (every merge has its pipeline) and `LastInv` (what a host should
  run was last changed by a commit the changes list sees). The pipeline of that last change deployed it, or a newer one did, and then both wanted the same
  toplevel: this is why comparing two revisions loses nothing, even after a revert.
- **PlayerSim** (in `DirectPlay_proofs`, with the next three). `TypeCorrect`, `NeverOverfilledCorrect`, `SmoothCorrect`, and `Refinement`: `Spec => Schedule!Spec`. The
  invariant relates the buffer to the schedule: while it plays, what has arrived less what is in the buffer is what was due
  less what was missed.
- **CopyProgress.** `StallsCountedCorrect`: `TrailInv` says that `slowRun` is the length of the run of slow reports the last one ends; the lemma
  `OneReport` compares the sets of runs before and after a report, by cardinality.
- **MountStats.** `DeltaIsTrafficCorrect`: `CountInv` says that between the two snapshots the counter is that of the first plus the traffic, modulo its
  size; it needs to know where a phase is (`Before`, `Reading`, `Over`) and that a held file keeps the share mounted (`MountInv`). The lemma
  `Wrap` is the arithmetic of a counter that wraps.
- **BenchRun.** `CopiedIsWholeCorrect`, `CopiedIsFreshCorrect` from `RunInv`: what was planned is still before main or in the report (`Progress`), and a phase
  that failed has the verdict still to come (`Ordered`), so the step that writes the report writes a whole one. `PlanFacts` says what the plan of each
  subcommand holds, from the lemma `Joined` about concatenation. `ColdReadsCorrect` is inductive by itself.
- **BenchPhase.** `NothingOutlivesCorrect`: the invariant adds the states between, namely that ffmpeg is dead from `stop` on and
  that an idle phase has none. `FilesAreOwnCorrect`: `FilesInv` says that from the moment a directory is emptied to the count only the ffmpeg of the phase
  has written to it, which fails to be inductive without the dead goroutines and children of `Inv` and the types of the mounts (`StackInv`).
  `MountsReleasedCorrect`: `MountInv` counts the mounts over a directory, its own and those of earlier benches that were interrupted.
- **NarProxy.** `AssembledIsWholeCorrect`: `PartsInv` says that what the client has is a prefix of the object, and that a body on its
  way to a client that will count it goes on exactly there (`Missing`); `Sound` is what a server may answer.
- **NtfyWebhook.** `NeverBackCorrect`: `QueueInv` orders the queue and the flush by version, `OrderInv` adds that what was published and what is overdue is
  not newer than either. It needs both the single thread (only the head of the queue is answered) and that Alertmanager retries one flush at a time; a
  POST that timed out is the one thing that escapes it.
- **BackupShip** (in `Units_proofs`, with the next two). `DumpKeptCorrect`: `ShipInv` follows the newest dump from `all` through its stamped name to the target; the lemma
  `RenamedAll` says that a rename replaces at most an older dump.
- **ImageInit.** `NeverCutOffCorrect`, `MountedIsCleanCorrect` from `ImageInv`: what a step of the unit knows, which a stop forgets.
- **GarageBootstrap.** `ActiveIsReadyCorrect`: `BootstrapInv` says that the names before `which` are ready, unless one of them is the name the unit is at
  once more (a list may name a key twice), and that permissions are asked for only when the bucket is there. A key's file is no part of it.

The type invariants are part of the proofs and not invariants of runs: `TypeCorrect` of `AtticDeploy`, `GarageConvert`, `GitlabPipelines` and `PlayerSim`, and conjuncts of
the invariants of the others. Only model-checked: liveness (`RunsEnd`, `PipelinesEnd`, `ServesOrFails`, `BenchEnds`, `HungUpIsClosed`,
`EveryChangeShown`, `ServicesSettle`, `BootstrapEnds`), as fairness and ENABLED are out of the prover's reach, and with it all of `WaitForHost`; and the five
properties of section 6, which do not hold.

## 6. Where the code and its documents differ

Five are runs of their own ("violation" in `PROJECT.json`):

- `gitlab_cancel`: a second push cancels the first pipeline while it tests or selects, and each pipeline compares with its
  own parent commit only, so hosts that only the first merge changed stay undeployed. A web pipeline repairs it
  (`WebRepairs`).
- `bench_health`: the health request that is in flight when a phase ends is cancelled and counted as a failure of Jellyfin.
- `bench_warm`: `ffmpeg_copy` begins where `nfs_sequential_max` has just read, without a drop of the page cache.
- `wait_boot`: when Postgres is away for longer than the wait in front of Keycloak, the start job of `keycloak.service` fails with the
  result `dependency`; the service never ran, so that `Restart=always` without a start limit, which `keycloak.nix:56-60` sets for this very
  case, does not apply, and SSO stays dead.
- `backup_sync`: `gitlab-backup-sync` deletes what is in the directory after the verification, also an archive that the next
  `gitlab-backup` has put there meanwhile. (`postgresqlBackup` ships in its `postStart`, and cannot dump at the same time.)

Further observations, met while modelling and not kept as runs:

- `.gitlab-ci.yml:40`: the changes list omits files a closure is built from (`services/attic-nar-proxy/*.go`,
  `services/ntfy-group-webhook.py`, JSON and XML files that modules read). This is `Seen` in `MergedIsDeployed`.
- `ci/jobs.yml:98`: `deploy-rpi4` is in no resource group, so that the deploys of two merges may overlap and the older end last.
  `ForwardOnly` is therefore stated of the x86 hosts.
- `attic-common.sh:211`: `nixos_hosts_selected` asks for the hosts of this system in a command substitution, inside a function that itself runs in one, where
  `set -e` is off. When that evaluation fails and `ATTIC_HOSTS` is set, every name is skipped, the list is empty and the status 0: `build.sh` fills no host and
  `verify-from-attic.sh` proves none, and both exit 0 (`HostListFails`; the exception in `FillMeansVerified`).
- `deploy-from-attic.sh:120`: `switch-to-configuration` exits non-zero when a unit fails to start after the system was activated: the job has
  failed and the host is switched, on a closure that is whole and proved all the same (`SwitchFails`, `FailSwitched`).
- `ci/jobs.yml:84`: a resource group does one job at a time but not the older pipeline first, and GitLab drops a deployment only for a younger one. When
  the verify job of a newer pipeline ends first, the older pipeline may have the younger deployment, and takes the host back to its commit; nothing fails,
  and the host stays there until a closure changes again. Hence `InOrder`.
- `ntfy-group-webhook.py:125`: a POST that times out is answered 500 and sent again, and ntfy may publish both, the first after newer ones (`overdue`).
- `wait-for-host.nix:130`: the deadline is unconditional. A host that boots that long before the one it waits for, or Keycloak behind a wait of its own, loses the
  service until an operator starts it (the `failed` case of `ServicesSettle`).
- `gitlab-select-hosts.sh:19`: a pipeline of main that has no previous commit and is neither `web` nor `pipeline` compares main
  with itself and selects nothing, where the ADR says every host.
- `garage.nix:204`: `systemctl is-active` fails for a unit that is deactivating as well; what keeps the conversion from
  reading a database of a Garage that is still stopping is the order in which the switch stops and starts units, not the loop.
  Hence `Ordinary`. After a rollback to sqlite, the next conversion finds `db.lmdb` and retires the newer sqlite database:
  nothing is erased (`EveryWriteKept`) and nothing is served from it.
- `directplay.go:418`: ffmpeg's `speed=` is an average since the start, so a hang that `-re` catches up with is no stall.
- `directplay.go:447`: a copy whose share is unmounted between `nfs0` and ffmpeg's open reports a wrapped `ServerRead` as `read_mib`.
- `nfs.go:160`: a mount over several transports has several `xprt:` lines, of which the last counts. `/proc/mounts` says `nfs4` (and
  `autofs` for an idle automount) where the note of `probe` looks for `nfs`. `measure.go:159`: iowait may decrease, and its unsigned difference
  wraps.
- `attic-nar-proxy/main.go:83`: no range is passed on, so that a client that resumes through the redirect begins again.
- `build-cache.nix:152`: after a crash between `truncate` and `mkfs.ext4` every later start fails in `e2fsck`; after one between `truncate` and
  `resize2fs` the sizes agree and the filesystem is never grown.
- `garage.nix:299`: any failure of `garage key info` creates another key of the name, which makes the name ambiguous: every later run
  fails, and creates one more. A unit that dies between `key create` and the file has made a key whose secret is nowhere, and later runs report
  success.
- `main.go:377-391`: of `all`, a failed check of `directplay` exits without the report that other failures write.
- `dns.go:136`: one answer that is the public edge is enough for the note that says both resolvers return it.

## 7. What is not modelled, and why

Sizes, formats, messages and log lines; the numbers inside samples and reports; evaluation by nix (a toplevel is a
value); TLS, ssh and sops; atticd, Garage, GitLab and ffmpeg beyond what the code here uses of them. A run on the Pi is a run on
a machine of its own: the directory that `run-on-rpi4.sh` shares would need the tree the scripts are read from as state.
`attic-push.sh` and the make targets are loops around what is modelled. `render()` of the webhook is formatting. The samples of `measure.go` and
the reports of `probe.go` decide nothing. The start limit of the `oauth2-proxy` unit is nixpkgs' own and is not followed. The
iperf3 mesh depends on clocks that differ by a slot, and its result is one number of a graph. Uploads through attic-nar-proxy are not
redirected and are left out. The declarative rest of the repository has no program of its own; `PROJECT.json` lists it part by part.
