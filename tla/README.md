# kube-csr in TLA+

`kube-csr` obtains X.509 certificates from the Kubernetes API
(`certificates.k8s.io/v1beta1`). It is one binary with three ways to run:

* `issue`: query, generate, submit, approve, fetch, delete, each step chosen
  by a flag, always in this order, once (`pkg/operation`);
* `issue --renew`: a sidecar that repeats those steps when the certificate
  file comes near its expiry (`pkg/renew`);
* `garbage-collect`: deletes CSR objects that are denied, fetched or expired,
  once or as a daemon (`pkg/operation/purge`).

No process talks to another. They meet at the API server, where several of
them, the signer of the controller manager and administrators work on the same
CSR objects, and at the files, which an earlier run, a crashed run or a workload
has left. The specifications are about those two meeting points.

## Inventory

| part | state | operations | what is hard | what makes it correct |
|---|---|---|---|---|
| `operation` | configuration, `approved` | `Run`, `submit` | hands the *name* of the CSR from submit to fetch, the CSR *file* from generate to submit | success means that key, CSR and certificate belong together |
| `generate`, `pemio` | key, CSR, certificate files | `Generate`, `WritePem`, `WriteFile` | two files written one after the other, each truncated in place | a run with `--override` recovers from anything a dead run left |
| `submit` | none | `Submit` | replacing is create, delete, create | what is approved is what was submitted |
| `approve` | none | `GetCSR`, `ApproveCSR` | sends back the object read earlier | never approves another request, nor a denied one |
| `fetch` | annotations of the object | `Fetch`, `updateAnnotations` | polls against a timer and signals, counts before it writes | ends; the count is the number of certificates delivered |
| `purge` | the list of a pass, index, ticker | `GarbageCollect`, `GarbageCollectLoop`, `Delete`, predicates | decides on a list that is old when it deletes, by name | deletes only what qualifies, leaves nothing that does |
| `renew` | ticker, `renewedCh`, signal channel | `Renew`, `processRenew`, `shouldRenew` | one goroutine sends to the channel it reads | renews in time, runs the command, never blocks itself |
| `query` | `elt.ok` per service, `Hosts` of the configuration | `NewQuery`, `GetKubernetesServices...` | two pieces of state that outlive a call, and a failed call drops only what is between them | all addresses of all services, each once |
| `cmd` | flags | `issue`, `garbage-collect`, one constructor per operation | one flag (`--override`) reaches four places by three ways, and the renewer patches two of them | nothing an earlier process left stops one that may override |
| `kubeclient`, `api` | none | clients; metrics and pprof servers | | calls time out after 10 s (`kubeclient.go:66`) |

The hazards, each at its line, are in `PROJECT.json`.

## Modules

| module | models |
|---|---|
| `CSRApi` | the CSR objects of the API server, its optimistic concurrency (`uid`, `rv`), the signer, administrators, the clock. External: it is what the calls in `pkg/operation` rely on |
| `Operation` | the order of the steps of `Operation.Run` under a set of operations |
| `Issue` | any number of `issue` processes on one API server: one action per API call and per file effect of `Operation.Run` |
| `RunContract` | abstract: what a run may do to the certificate file and the key, and when |
| `Renew` | the renew loop with its three channels; a run is whatever `RunContract` allows |
| `GarbageCollect` | one collector; issuers, administrators and the signer change its objects meanwhile |
| `Sweep` | abstract: a collector that looks, removes one by one the very objects that qualified, and finishes when none is left |
| `Hosts` | the names and addresses of a request: each once, the names sorted, the addresses as they came |
| `Query` | the polling of the services, and what outlives a call |
| `Cmd` | the processes of one Pod: flags, constructors, exits, queries, the other operations as one step each |
| `MCIssue`, `MCGarbageCollect`, `MCRenew`, `MCCmd` | the constants of the runs |
| `CSRApiProofs` | lemmas: each API call keeps the types, and what it does to the objects of others |
| `IssueProofs`, `IssuePairingProofs`, `IssueApprovalProofs`, `IssueCountProofs` | theorems about `Issue`: types; pairing of key and certificate, and the contract of a run; approval; the fetch count |
| `GarbageCollectProofs`, `RenewProofs` | theorems about the collector and the renewer, their refinements included |
| `CmdProofs` | lemmas about sequences of hosts, theorems about `Cmd` |

`Issue`, `GarbageCollect` and `Sweep` extend `CSRApi`; `Cmd` extends `Query`,
which extends `Hosts`; `Issue` and `Cmd` extend `Operation`.

**Two levels.** `RunContract` lies between `Issue` and `Renew`. It says that the
certificate file changes only by a truncation and then a write of what belongs to
the key, that the key may be replaced before, and that a run may end, by an error
or by the death of the process, at any point: between the truncation and the
write too, where it leaves an empty file. The two sides use it in opposite directions:

* `Issue`, with all the steps of a run, keeps it (`KeepsContract`: for each issuer,
  each step is a step of the contract or a stutter under the mapping `Stage`,
  `CertFile`, `Matches`);
* in `Renew` a run is every behaviour of it: `stage`, `file`, `match` are the variables of the
  contract, and the steps of a run (`Check`, `Rekey`, `Truncate`, `WriteCert`,
  `Finish`, `RunFails`, `Dies`) are its actions, none of them left out or restricted.
  What `Renew` adds is named: the certificate found at the start is whole (issued by
  an init container); a run waits at most `RunTicks`, before the
  truncation; a new certificate lives for one of `Lifetimes`; errors are
  bounded by `MaxFaults`; a run that does not fail goes on to its end (fairness).

So what holds of `Renew` holds of a renewer whose runs are those of `Issue`, as far
as `KeepsContract` is proved: for runs that generate, submit and fetch under a
name of their own. A renewal from an existing CSR (without `--generate`)
replaces no key; that its certificate goes with the key on disk then also takes
that the CSR file was made of it.

`Sweep` is to `GarbageCollect` what the flags' help is to the code: `ImplementsSweep`
maps the list of the pass, its time and its result, and hides the two loops, the
index, the pending items and the replies that get lost. A sweep removes the object it
saw, not another one that has taken its name. The code deletes by name, so it
implements `Sweep` only where no listed object can be replaced before its delete: nobody
else deletes, and no object meets two of the chosen predicates (the second would
delete again). Outside of that `gc_replaced` shows what happens. What others create
and change is left open in `Sweep`.

**Abstractions.** A public key stands for the whole signing request and for the
certificate's subject; 0 stands for an absent annotation; a file is absent,
truncated, or holds a key's worth of content. In `Renew` time is relative (time
left on the certificate, time to the next tick), so that it may pass for ever in a
finite state space; it passes only where the code waits, for at most `RunTicks`
in a run and `CommandTicks` in a command, and other steps take none. In `Hosts` a
host is a number, ordered as its string is; the library sorts up to twelve
addresses by insertion, which is where their order is known. In `Cmd` a
certificate file exists or not, and a check for renewal finds it due or not: the
rest is in `Issue` and `Renew`.

**State and code.** In `Issue`, `pc` is the place in `Operation.Run`, `mem` the
key held between `generateCryptoData` and the files, `obj` the variable `r` of
`submit` and of `Fetch`, `files` the three paths of the configuration.
`AfterFetch` up to `FirstStep` are the chain of `if o.X != nil` in `Run`. A step
that changes the API server has a second outcome, the reply that is lost
(`Reply`). In `GarbageCollect`, `snap` and `todo` are `csrList`, `cur` is `elt`
and `k` the index of `fn`. In `Renew`, `tick` and `renewed` are the contents of
the two channels, `first` says whether the loop's handler and ticker exist, and a run
is over without error when `stage` is "done", whereupon the loop sends. In
`Cmd`, `line` holds the flags, `at` the place in `newIssueCommand` and
`Operation.Run` or the way the process ended, `name` and `hosts` the fields of
`SourceConfig`; in `Query`, `ok` is `elt.ok`, `sans` the local variable of the call, `turn` the
index of its loop; `found`, `lost` and `refused` are history for the properties.

## Runs

| run | question | result |
|---|---|---|
| `issue_whole` | one issuer, whole runs in all variants (loaded key, left to others to approve, query, no override), crashes, lost replies, disk errors, timeouts, signals, administrators | `TypeOK`, `DoneMeansPaired`, `CountNeverLags`, `RunTerminates`, `KeepsContract` hold |
| `issue_shared` | two issuers, one name, overrides and deletes by each other | `CountIsDeliveries`, `ApprovesWhatItSubmitted` hold |
| `issue_restart` | crashes at any step and restarts, with `--override` | `RecoversAfterCrash` holds |
| `gc_once` | one pass, two names, `--denied --fetched` with a grace period, objects created, denied, fetched, signed meanwhile, failing calls, lost replies | `PassCollectsEligible`, `DeletesOnlyRequired`, `ImplementsSweep` hold |
| `gc_daemon` | passes in a loop, `--fetched --expired`, a failing call, a lost reply, a signal | `GcTypeOK`, `EventuallyCollected` hold |
| `renew_loop` | runs that fail at any point, failing commands, signals, crashes, restarts, a command longer than the interval | all six properties hold |
| `cmd_runs` | up to three processes of a Pod, seven command lines, services that come, go and change, failing steps, kills | `CmdTypeOK`, `NeverRefused`, `KeepsAnswers`, `QueryEnds` hold |
| `gc_replaced` | one pass, an object replaced between the list and its delete | `DeletesOnlyNeeded` is violated (`purge.go:252`) |
| `gc_ends` | the daemon, a signal and a call that fails, during a pass | `LoopEnds` is violated (`purge.go:281`, `purge.go:295`) |
| `renew_blocked` | new certificates that are due at once, a run as long as the interval | `CommandFollowsRenew` is violated: the loop blocks on its own channel (`renew.go:240`) |
| `renew_lost` | one error, at any point of a run | `RenewsPeriodically` is violated: the write errs after the truncation (`write.go:30`) |
| `query_lost` | a renewer whose query fails half way | `RequestNamesAll` is violated (`query.go:132`) |

What the violations mean for a user:

* **`renew_blocked`**: `renewedCh` has room for one and only the loop reads it.
  If a certificate is due again as soon as it is renewed, and a tick fires while
  the run goes on, `select` finds both channels ready and may take the tick. The
  second send never returns. Signals are then dropped as well. The end-to-end
  test uses a threshold equal to the default signing duration.
  `RenewNeverBlocks` proves that nothing else leads there.
* **`renew_lost`**: `WriteFile` truncates the certificate before it writes. When the
  write or the flush errs (a full disk), the workload has lost a certificate that
  was still good, and the loop, which counts the error and goes on, has lost the
  file by which it decides: it can decode nothing, so that every later check is an
  error, nothing is ever renewed, and, unlike after a crash, nothing restarts the
  process. `RenewedInTheEnd` and `PairedInTheEnd` show that this state
  (`Lost`), left by an error or by a crash at this one point, is the only
  exception: whatever else goes wrong, renewal is made up for.
* **`gc_replaced`**: an issuer with `--override` (or an administrator and then any
  issuer) puts a new object under a name that the pass has listed; the pass deletes it,
  and the issuer's fetch fails. A delete with the listed uid as a precondition would
  not. The same happens without anyone else deleting, when an object is both
  fetched and expired and its name is taken again between the two deletes.
* **`gc_ends`**: the comment of `purge.go:275` says "returns on error or
  SIGINT/TERM". `LoopEnds` asks of the loop that it ends when it has had both;
  the trace has a signal during a pass (dropped, the channel has no buffer) that
  then fails (counted), and passes for ever after. As an end for either reason would
  satisfy it, the one trace refutes both halves. For the error the code has the better
  behaviour, and `EventuallyCollected` shows what it is good for: the comment is
  wrong. For the signal the code is.
* **`query_lost`**: a service that has answered is never asked again, and what it
  answered is dropped when the call then fails on another one or times out. A
  renewer goes on after such an error; the certificate of its next run lacks the
  addresses. `KeepsAnswers` shows that nothing else loses one: neither runs that
  fail later, nor services that change, nor the order of ticks.

Other disagreements met on the way, for which no run is kept:

* DNS names are sorted "to get a stable result" (`generate.go:74`), IP addresses are
  not: the comparator compares an address with itself (`generate.go:77`), so the
  same hosts make different requests. `CategorizeHosts` has it so;
* `--delete` panics in `NewPurge`, before the first operation (`cmd.go:521`,
  `purge.go:89`), and the object stays. In `Cmd` such a command line ends in "panic"; the
  action `Delete` of `Issue` stands for users of the package;
* a generate that finds a key file and no `--override` fails, but only after it
  has written the CSR of a key that it then drops (`generate.go:154`); run on its
  own, submit then succeeds with that CSR, and the certificate is for a key that
  is nowhere. `PairingCorrect` therefore assumes `OnlyWholeRuns`;
* a fetch that an existing certificate file refuses is counted in the
  annotation all the same (`fetch.go:132`), so that `--fetched` collects the object;
* an object approved and then denied is never collected as denied (`purge.go:170`);
* two issuers that share a name and override each other may exchange certificates
  (`fetch.go:126`; it is why `PairingCorrect` assumes `OwnNames`) and may fail half
  way through the replacement (`submit.go:81`);
* the gauge of `purge.go:264` may fall below zero;
* the exporter flags of `issue` are bound to those of `garbage-collect`
  (`cmd.go:407-411`);
* a renewer without `--override` leaves one CSR object per renewal, the failed ones
  included (`renew.go:176`).

**Bounds.** `MaxRuns` (1 to 4) is enough for a run to meet what an earlier one
left; two issuers are enough for one to overtake another at any step;
two names let a pass fail on one item and have another to come back to;
`MaxObjects` = 2 lets an object be replaced once; `MaxClock` lets a grace period and
a lifetime pass; `MaxErrors`, `MaxFaults` bound the failures so that "in the
end" makes sense, and `Crash` leaves a run to recover with. Keys are as many as the runs may make; `KeySymmetry`
is used for the safety run only. In `gc_daemon` the grace
period is 0, as in the end-to-end test, and the clock moves far enough for a
certificate to be fetched and expired at once, which ends a pass with an error; `gc_once`
has a real grace period, of which both sides are met. In `gc_once` and
`gc_daemon` administrators do not delete: `Sweep` supposes so, and the theorems
about `DeletesOnlyRequired` and `PassCollectsEligible` hold with them; in
`gc_replaced` they do, which stands for issuers with `--override` too. `cmd_runs` has three processes and four
runs: an issue, then a renewer whose query fails in one run and succeeds in two, or
two renewers; two services, two specifications and an argument list with a
duplicate and an address that a service has too. `renew_loop` has a command (4) longer than the
interval (3), so that ticks are dropped, and the smallest threshold that covers
the longer of the two and a run: with one less, TLC finds `NeverExpires` violated. Deadlock is not
checked where runs, objects and clock are used up (`Issue`, `GarbageCollect`);
it is in `Renew` and `Cmd`.

**Fairness.** `FairSpec` of `Issue`: a process takes its next step, because
every API call returns (10 s timeout) and the fetch loop's timer fires; nothing
is assumed of signer or administrators. `RestartSpec` adds the restart policy
of the Pod and a working signer. `GcFairSpec`: ticker and calls. `Renew`:
bounded runs, time, the restart policy, and, for the receive from `renewedCh`,
strong fairness, because Go's `select` chooses among ready channels at random. The
same holds for the timer of the query in `Cmd`, which stays ready once it has
fired; of the rest of `Cmd` only the steps of the query are fair, and nothing is
assumed of the services.

## Proofs

All are checked by TLAPS for every value of the constants that satisfies the
named assumptions (`ApiAssumption`, `IssueAssumption`, `GcAssumption`,
`RenewAssumption`, `HostsAssumption`, `QueryAssumption`, `CmdAssumption`). Where a
theorem has a further hypothesis, the constants of the run that checks its
property satisfy it.

**Issue**

* `TypeCorrect`: `TypeOK`. It carries the fact that a certificate is written only
  from an object that has one.
* `PairingCorrect`: `DoneMeansPaired`, when each issuer has a CSR name of its own
  (`OwnNames`) and runs the steps as a whole (`OnlyWholeRuns`).
  `DoneMeansPaired` says nothing of the steps before the end; the invariant
  `PairInv` follows the one key of a run through memory, CSR file, key file,
  object and certificate. The runs that break the property break an assumption.
* `IssueKeepsContract`: `KeepsContract`, the refinement of `RunContract`, under
  the same two assumptions, which name what the contract is about: a run of all
  the steps. Each step of an issuer is a step of the contract or a stutter
  (`IssuerKeeps`), and what others do is a stutter (`OthersKeep`). `PairInv` gives the
  write of a certificate that belongs to the key. What it does not give is that key
  and certificate can only come apart while the files are written: `SpareInv` says
  that a new key is in no file yet, so that making one does not by chance match
  the certificate on disk.
* `ApprovalCorrect`: `ApprovesWhatItSubmitted`, for issuers that share names. The
  invariant `SnapInv` relates the object held to the object stored as long as
  `uid` and `rv` agree: the server's optimistic concurrency is what the property
  rests on.
* `CountCoversDeliveries`: `CountNeverLags`, whatever fails, when every fetch
  annotates (`AnnotatesAll`), and `CountExact`: `CountIsDeliveries`, when besides
  nothing can come between the count and the write (`Reliable`: no crash, lost reply or
  disk error, and the certificate may be overwritten; timeouts and signals may
  happen). One invariant, `CountInv`, serves both: a run writes one certificate, so
  that each delivery is a new one, and a uid is of one object. With `SnapInv`, an
  update that the server takes was made from the count it has. A run that fails
  between the two leaves the count ahead, never behind.

**GarbageCollect**

* `GcTypeCorrect`: `GcTypeOK`.
* `CollectsAllEligible`: `PassCollectsEligible`. `PassInv` says of each listed
  object that either it is yet to come, or the predicates before the index do not
  hold of it, or the object that was listed is gone; `GoneForGood` that a uid
  never comes back, whatever the server does next, and `EligibleGone` puts the
  two together at the end of the list.
* `GcImplementsSweep`: `ImplementsSweep`, when administrators do not delete
  (`"delete" \notin AdminActions`) and the predicates are `Exclusive` (at most one of
  fetched and expired, each once). `StepSweeps` maps each action of the collector to one
  of `Sweep` or a stutter; `PassInv` is what `Finish` needs. `Remove` needs
  that what stands under the name is what was listed: `SeenInv` says that only
  objects the pass itself has deleted are gone, the current one only by a
  predicate already tried, and `MeetsOne` that there is no second one. For
  "denied" beside another that rests on the order of things at the server (`Orderly`):
  fetched only when signed, signed only when approved before any denial.
* `CollectsOnlyRequired`: `DeletesOnlyRequired`, for every list of predicates and
  grace period. `ScanInv` says that what is about to be deleted met its predicate,
  and `MeetsLasts` that time does not undo that.

**Renew**

* `RenewTypeCorrect`: `RenewTypeOK`; no channel ever holds two items.
* `RenewNeverBlocks`: `SendNeverBlocks`, when new certificates outlive the
  threshold (`OutlivesThreshold`), whatever fails. `FreshInv`: a renewal that waits
  in the channel is of a certificate that is not due, and so is that of a run that is
  about to send; the certificate file is whole then, because only a run
  changes it and none has broken since.
* `RenewNeverExpires`: `NeverExpires`, for any interval, threshold, duration of runs
  and commands that are `Timely`: the threshold covers the longer of interval and
  command plus a run, new certificates outlive it, the one found at the start lasts
  for a run, and the process does not end with the first renewal. `Covered`
  bounds, for each place of the loop, the time left on the certificate by what still lies
  ahead. The case that needs it is the command: while it runs, the ticker may
  fire once and is kept, or it may not have fired yet, and then the next tick is
  no further than an interval from where the command began.

**Cmd**, for any command lines, services, specifications and arguments, and any
number of processes and runs

* `CmdTypeCorrect`: `CmdTypeOK`. It needs what a request is made of:
  `OrderedWhole` (a finite set ordered by ranks that differ is enumerated whole, without
  repetition and in order, because counting those below is a bijection
  onto the places) and `RequestOfHosts`.
* `RenewerNeverRefused`: `NeverRefused`. For the files it is a matter of the override
  that `NewRenewer` sets; for the object of the server it is not inductive, because
  the step before has to have chosen a name nobody has: `NameStillNew` keeps that
  from the check to the submit, while objects are deleted and processes are
  killed, and the types bound every name by those made up so far.
* `AnswersKept`: `KeepsAnswers`. `AnswersInv`: the hosts hold exactly the answers of
  the services in `ok`, but during a call, which has the new ones in `sans`;
  `FoundInv`: which those are, and that all of them are when a run is past its
  query; `RequestInv`: the request on disk was made of the hosts. `AnswersInv`
  breaks in one step only, the failure of a call, which is what `query_lost` shows.

**Only model-checked**: the liveness properties (`RunTerminates`,
`RecoversAfterCrash`, `EventuallyCollected`, `CommandFollowsRenew`,
`RenewedInTheEnd`, `PairedInTheEnd`, `QueryEnds`), because fairness and ENABLED are
beyond the prover. Every invariant and every action property that a passing run
checks is proved.

## Not modelled

The bytes of keys, CSRs and certificates; the parsing and binding of flags;
metrics, logging and the HTTP endpoints; a chain in
`Status.Certificate` (`purge.go:137`); the overflow of the fetch count; the
order in which the daemon takes down its signal handler (`purge.go:284`); the
namespace that `NewQuery` falls back to; clients that cannot be built. The
update scripts and the example keep no state.

## Plan

Done: the models of all parts that keep state, two abstract specifications and
the refinements to them, and a theorem for each safety property. Next, proof again:

1. What liveness rests on and is safety: a measure that each step of a run but
   the polling decreases, for any configuration, so that `RunTerminates` needs
   only the fairness of the steps and the timer.
2. The contract for runs of part of the steps (`Configs` without `OnlyWholeRuns`):
   which part of `RunContract` is left, for a sidecar that only approves and
   fetches.
3. That the operations `Cmd` takes as one step each change the files and the objects
   as the steps of `Issue` together do.
