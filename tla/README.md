# A TLA+ model of 2026-terraform-last

The repository prepares the tasks of a cloud computing contest. Most of it is
declarative (Terraform, Kubernetes manifests, documents). The programs with
behaviour of their own are

* the **tuning tools** of `3과제`: they measure a live EKS cluster, propose CPU
  requests and HPA settings, try a proposal with `terraform apply` and adopt it
  or roll it back;
* the **load engine** of `부하`: an HTTP server that runs a load of worker
  threads for a given time;
* the **event consumers** of `2과제`: Lambda functions and workers fed by MSK,
  SQS, DynamoDB streams and CloudTrail.

This directory models them: the tuning tools, where a mistake costs most
because they change production settings by themselves, the load engine, and
the event consumers with the Kafka producer one of them brings along. TLC
checks the models on small instances; TLAPS proves the central ones for every
value of the constants.

## 1. Inventory

Paths are below `src/`.

### 1.1 Tuning transaction runner (`3과제/tuning/optimize.ps1`)

* *State*: the tuning file `tuning.auto.tfvars.json`; the Deployments and HPAs
  of the cluster; in the script `$bestKnobs`, `$bestScore`, `$first`/`$knobSet`,
  `$pending`, `$sw` and `$script:ApplyCostSeconds`.
* *Operations*: baseline measurement and plan; one optional presize (request
  and target of several applications); one candidate (a knob set of one or
  more applications): write, apply, measure, adopt or reject, undo; `finally`.
* *Interactions*: reads the cluster through `tuning_engine.py` (kubectl) and
  `optimize.py` (the planner), measures through `loadtest.ps1` and `score.py`,
  changes the cluster through `terraform apply -target`.
* *Hard*: an apply that fails half way; Ctrl+C and exceptions at any statement;
  death of the process inside a write; file, cluster and `$bestKnobs` are three
  copies of one thing and must agree before a rollback means anything; the
  time budget of twenty minutes is checked on estimates.
* *Correct when*: a run that ends leaves the best measured configuration, in
  the cluster and in the file; a rejected candidate leaves no trace; an
  application that no candidate names never moves; no application is left with
  a zero request or an HPA that the API rejects; the run ends, within its
  budget unless an apply is slower than the last one.

### 1.2 Tuning file and Terraform (`3과제/terraform/apps.tf`, `k8s_apps.tf`)

* *State*: per application up to four fields, `cpu_request_m`,
  `cpu_target_utilization_percentage`, `min_replicas`, `max_replicas`; a field
  that is not listed falls back to `terraform.tfvars`.
* *Hard*: "not listed" and "zero" differ for Terraform and are confused by
  casts; a file that was cut short does not parse; an apply is not atomic.

### 1.3 Manual commands (`apply.ps1`, `rollback.ps1`, texts of `tuning_engine.py`)

* *State*: the same file and cluster, plus the snapshot inside a text that the
  dashboard offers for pasting.
* *Operations*: set fields of one application; clear everything; drop one
  application; paste an apply text, paste its rollback text.
* *Hard*: read, write and apply are separate steps of several shells without a
  lock on the file; a write empties the file before it fills it; Terraform reads
  the file before it takes the state lock; the texts call terraform in a form
  that the scripts avoid.
* *Correct when*: a command that ended in success and that nothing overlapped
  had the effect it names, in file and cluster, and spared other applications.

### 1.4 Load engine (`부하/server.py`)

* *State*: the dictionary `_load` (running flag, stop event, timer), worker
  threads, one timer per run.
* *Operations*: `start_load`, `stop_load` (from HTTP threads and from the
  timer), the worker loop.
* *Hard*: nothing locks `_load`; start and stop are several accesses each.
* *Correct when*: a load that was started ends; one load at a time; a stop that
  answered left nothing running; the flag tells the truth; a worker that was
  told to stop leaves.

### 1.5 Planner, score, load test (`tuning_engine.py`, `optimize.py`, `rubric.py`, `score.py`, `loadtest.ps1`, `sampler.py`)

Pure computation over one reading of the cluster: node packing, reservation of
system pods, a frontier of request/target pairs, bands of the official score.
It keeps no state of its own, and yet there is a loop: a request is derived
from the pods and their usage, which the last request caused through the HPA.

* *Hard*: that feedback (an earlier version of the floor made requests grow
  from run to run, `tuning_engine.py:47-49`); a run may size for another load
  than it measured (`-LoadScale`, `-TargetRps`); rounding to units of 25m and to
  whole per cents; several kinds of proposal that change the same four numbers
  with rules of their own, one after the other.
* *Correct when*: a proposal is one that the HPA API accepts and a node can
  hold; what is meant to fit the idle nodes does; nothing starves a pod at the
  load that was sized for; sizing comes to rest; the score is monotone in its inputs.

### 1.6 Dashboard, page, monitor, advice, verification, setup

Read-only views and installation. Two pieces of shared state (the bounded CPU
history and a cached number) are listed as hazards.

### 1.7 Raw sensor consumer and its Kafka producer (`2과제/02/module3/lambda/raw`)

* *State*: of `index.py`, a global producer and the locals of an invocation; of
  the event source mapping, the committed offset; of the vendored kafka-python
  client, the accumulator's deque of batches, the set of incomplete batches,
  the heap of batches in flight, the connection's requests and the metadata.
* *Operations*: per record `put_item`, or `send` of an alert; `flush` at the
  end. In the client a sender thread: expire, drain, send, answers, disconnects,
  retries, metadata.
* *Interactions*: the function is given a batch until it returns; caller's and
  sender's thread share the accumulator and the futures; what the sender sends
  outlives the invocation in a warm process.
* *Hard*: a record is in one of several containers and moves between them under
  different locks; an answer may come after the batch expired; a connection
  that closes fails its requests one by one, and each goes back to the front;
  a process that is killed at the function's timeout, which equals the delivery
  timeout; futures that nobody reads.
* *Correct when*: no batch is forgotten or counted twice; a verdict is given
  once and "succeeded" is true; what is acknowledged is stored or sent, except
  where a send failed; a partition without a malformed record is consumed.

### 1.8 The small consumers of `2과제`

* *Alert consumer* (`02/module3/lambda/alert`): `put_object`, then `publish`,
  for each record of a batch that is given again until the function returns.
  Correct when an acknowledged alert was stored and notified.
* *SQS consumers* (`07/module3/app/app.py`, `08/app/module4/worker.py`): receive,
  work, delete, in several copies that are scaled to zero at any time. Hard: a
  batch of ten messages of three seconds takes all of the 30 s for which they
  are hidden, every slow call is added to that, and both queues are standard
  ones, which deliver at least once. Correct when none is deleted before it was worked on, and when it
  is clear which may be worked on twice.
* *Seat reservation* (`07/module1`): conditional updates of one item by several
  users, and an audit function fed by the stream of changes. Hard: the AWS
  client repeats a call whose answer was lost. Correct when nobody is promised
  a seat that is another's and every change is audited.
* *Security group remediation* (`08/app/module3`): describe, then revoke, for
  each event, asynchronously and with three attempts. Hard: two events read the
  same rules and the second revocation fails as a whole. Correct when no rule is
  left once the events are dealt with.

### 1.9 The rest

Terraform modules, one-time deployment scripts, CloudFront header functions, a
sequential CSV pipeline, a DocumentDB query client and static pages: no state
machine of their own, or behaviour that belongs to a provider. They are listed
in `PROJECT.json` with the reason.

## 2. Modules

| Module | Models | Uses |
| --- | --- | --- |
| `TuningStore` | the tuning file, its readers and writers, the fallback of `apps.tf`, a targeted apply | |
| `TuningTxn` | abstract: a configuration is tried, then accepted or given up for the one before | |
| `OptimizeRun` | `optimize.ps1`, statement by statement | `TuningStore` |
| `OptimizeRunProps` | its properties, the refinement of `TuningTxn`, the inductive invariant | `OptimizeRun`, `TuningTxn` |
| `TuningStoreLemmas`, `OptimizeRunProofs` | theorems | |
| `RunBudget` | the clock of `optimize.ps1` | |
| `TuningWriters`, `TuningWritersProofs` | the manual commands, in several shells; theorems | `TuningStore` |
| `LoadEngine`, `LoadEngineProofs` | `server.py`'s load, one dictionary access per step; theorems | |
| `Planner` | what `tuning_engine.py` proposes, one operator per kind of proposal | |
| `SizingLoop` | one run after the other: measure, size, measure, adopt | `Planner` |
| `TuningRunsProofs` | theorems about the time of one run and the settings that many leave | `RunBudget`, `SizingLoop` |
| `KafkaProducer` | the producer of the vendored client: accumulator, sender, connection, metadata | |
| `ProducerPromise` | abstract: one verdict for each batch, "succeeded" only for what the topic has | |
| `SensorPipeline`, `SensorPipelineProofs` | `raw/index.py`, its event source mapping and its process; theorems | `KafkaProducer`, `ProducerPromise` |
| `QueueConsumers` | the loop of `app.py` and `worker.py`, and the queue | |
| `BatchConsumer` | a function that is given a batch until it returns | |
| `ConsumerProofs` | theorems about one queue and one batch source | `QueueConsumers`, `BatchConsumer` |
| `SeatReservation` | reserve and cancel, and repeated calls | |
| `SecurityGroup` | the remediation and its attempts | |
| `EventConsumers`, `EventConsumersProofs` | the four above side by side; the reservations with their audit; theorems | all of them, the queue twice, the batches twice |
| `MC*` | values for the constants | |

### How they correspond to the code

**TuningStore.** A file is `[whole, map]`: `map` gives each application an
entry of four fields, `Absent` where the file lists nothing; a
process that died inside `WriteAllText` leaves `Torn`, which does not parse and
has lost every entry. `ReadTuning` is `Read-Tuning`, the
cast of a missing field to 0 included; `SetEntries` is `Set-TuningSet`, with
its rule for `cpu_request_m`; `Effective` is the fallback of `apps.tf`.
`ApplySucceeds` and `ApplyFails` are the targeted `terraform apply`: all
Deployments and HPAs become what the file says, or an arbitrary part of them
does and the exit code is not 0. The HPA object is rejected unless target and
min are at least 1 and max at least min; a Deployment with `0m` is accepted,
as it is by Kubernetes.

**OptimizeRun.** `pc` is the statement that runs next; every statement that
changes file, cluster, `$bestKnobs`, `$bestScore`, `$knobSet` or `$pending` is
an action, so that adoption is three of them (`AdoptScore`, `AdoptKnobs`,
`Settle`); only the update of `$bestKnobs` after the presize is taken together
with its apply, because nothing but `finally` could run in between and
`$pending` is `$null` then. `Interrupt` is Ctrl+C or an exception at any statement of the `try`
block, `ApplyThrows` an apply with another exit code, `Kill` the death of the
process, in the middle of a write if there is one. The planner may propose
anything that `optimize.py` may print: a presize keeps `min` and `max`, a plan
with `--hpa-only` keeps the request. Scores are arbitrary. `Test-TimeFor` may
answer either way, which is why the clock can be a module of its own.

Three variables are not the script's: `aux_best` is the cluster on which
`$bestScore` was measured, `aux_trial` is TRUE while a configuration is in the
file that is neither adopted nor put back, and `aux_trusted` says that the
run's surroundings were as it assumes (section 4).

**RunBudget.** The same control flow with durations in place of knobs. The
estimate is what `Measure-Apply` keeps: the *last* measurement, although the
comment at `optimize.ps1:220` speaks of an average. Its names (`stage`,
`ClockInit`, `ClockSpec`, ...) differ from those of `SizingLoop`, so that one
module can extend both.

**TuningWriters.** A command is a first step that reads, one or two steps that
write (`WriteAllText` empties the file before it fills it), and three that
Terraform makes: read the variable file, take the state lock, apply. A second
writer that finds the file open fails, as does a second Terraform that finds
the lock taken. A pasted text records its map and stops there
(`TerraformRefuses`): its `-target=a.b` is the form of which `apply.ps1:55-56`
and `optimize.ps1:110-113` say that PowerShell splits it and terraform ends on
its command line. `Snapshot` is what the texts hold, `_current_dict` with its
defaults for a missing value. `Kill` closes a shell anywhere, in the middle of a
write too, `Drift` changes the cluster by hand.

**LoadEngine.** `start_load` builds its event and timer, starts the workers,
starts the timer and publishes all of it with one assignment to `_load`;
`stop_load` reads the event, then the timer, then writes the flag. A step is
one access of the dictionary, because nothing locks it and HTTP threads and
timers run concurrently. The request mix and the counters are left out; the
counters have a lock of their own.

**Planner.** An operator is one function of `tuning_engine.py`, or one kind of
candidate in `generate_candidates`, from the settings of an application and
what was measured of it to new settings. Every rule sizes from the CPU at the
load that the run sizes for, not from the CPU that was measured: `AppTarget` and
`Required` are `app_target_rps` and `required_cpu_m`, and a measurement carries
the result as `need`. An `aim` is `-LoadScale` and, per application, the CPU
that the requests of `-TargetRps` take. Units, rounding, floors, caps and the
trigger (request times target) that resizing preserves are the code's; its
fractions are exact here and floating point there. Left open is the choice among
the candidates: the conditions on the predicted score and the latency are
dropped, so that `Proposals` contains everything that may be chosen. CPU limits
are not in it, because `cpu_limit_ratio` is 0 by default.

**SizingLoop.** A run is `LoadTest`, `Sizing` (which is the presize of
`optimize.ps1:265-275`, and leads to another `LoadTest`), and then a candidate
that is adopted (`AdoptBundle`, `AdoptShed`) or leaves no trace
(`KeepSettings`; that a rejected one leaves none is `EndsOnBest` of the runner).
The options of the runs, `aim`, are chosen once and stay. `Measured` is not
code but the cluster under the load: the HPA has settled on the replicas that
`_predicted_replicas` also computes, and each pod may use what one node has to
give and no more. `aux_beyond` remembers that some run sized for a load that the
pods it found could not carry in that way.

**KafkaProducer.** One action is one step of the sender thread between two
points at which the caller could see a difference: an iteration of
`_send_producer_data` (expire, drain, send), one answer, one request failed by
a closing connection, one step of the connection or the metadata. `append` is
one action because it holds the deque's lock. The containers are kept apart as
in the code, since their agreement is what is in question: `queue` is the
accumulator's deque, `incomplete` the set that `flush` reads, `inFlight` the
sender's heap, `requests` those of the connection. Time is `age`; whether a
record fits an open batch and whether a back-off is over is a choice. A batch
identity is used again once nobody refers to it.

**SensorPipeline.** `phase` and `pos` are the place in `lambda_handler`; a
record is normal, an alert or malformed. An exception ends the invocation and
drops its locals, not the producer; a timeout or a lost process drops both.
`Return` commits. `outcome` remembers what the unread future of an
acknowledged alert said.

**QueueConsumers.** `Tick` is time: the sleep for one message takes `WorkTime`
ticks, and in any tick any copy may be held up, in a sleep, with the answer of
a receive on its way or in a deletion that hangs and is repeated by boto3. So
the copies have a pace of their own, and delays need no failure. A receive hides
what it returns for `Visibility` ticks and makes its receipt handle the valid
one; `DeliverAgain` is the standard queue, which may deliver a message again
within its timeout or after its deletion. `receiver` is that handle; `spent` and
`left` say how long a copy has had its batch. Three ghosts collect what explains
a repetition: `cut` (the copy died or the deletion failed), `doubled` (the queue
delivered it again by itself) and `overdue` (by its place in the batch and the
delays up to it, it was not finished within the timeout). Ticks in which some
copy is held up, failures and repeated deliveries share one bound.

**BatchConsumer** has a record's effects as numbers performed in order: two for
an alert (store, publish), one for an audited change (`put_item`). The source is
a variable of the module that instantiates it: a constant for the alerts, the
version of the seat for the audit, which so reads what the reservations wrote.

**SeatReservation.** A call has its effect at the table in one step, the
answer arrives in another, and between the two the client may make the call
again. `told` is what the user was told last: the version under which the seat
is theirs.

**SecurityGroup.** `Describe` reads, `Revoke` removes exactly what was read or
raises when part of it is gone. `before[e]` holds the runs that were under way
when `e` failed: its next attempt comes after they have ended (section 4).

**EventConsumers** puts the services side by side. They share nothing, so a
behaviour chooses one of them at the start; only reservations and audit, which
share the stream of changes, interleave.

## 3. Runs

| Run | States | What it shows |
| --- | --- | --- |
| `OptimizeRun` | 10,563 | every outcome of every apply, interrupts and deaths at every statement; the promised transaction; termination |
| `TuningWriters` | 581,515 | three commands from two shells |
| `LoadEngine` | 48,196 | two HTTP threads, two runs, their timers and workers |
| `RunBudget` | 149,370 | every duration of every stage |
| `SizingLoop` | 63,775 | runs one after the other, sized for the load as measured or another, one candidate of any kind adopted in between |
| `SensorPipeline` | 297,813 | two records through the function and the producer, with two faults of any kind |
| `EventConsumers` | 857,904 | the small consumers, each with delays, failures and repeated calls |
| `ZeroRequest`, `BundleInterrupt`, `PastedRollback`, `LoadsEnd`, `SizingFlips` | | the disagreements of section 6 |

**OptimizeRun.** `EndsOnBest`: after a normal end the cluster is exactly what
it was when the best score was measured. `ReportIsTrue`: the knobs printed are
those of cluster and file, so that a later `terraform apply` changes nothing.
`LoneTrialUndone`: an interrupted candidate of *one* application, its apply
half done included, is gone once the rollback of `finally` succeeded (for
several applications this is false, section 6). `AlwaysServing`: no zero
request and no rejected HPA at any time. `OnlyTouchedMove`: an apply moves the
applications of the knob set only, although it always targets all of them.
`Consistent` is the inductive invariant of section 5. `ImplementsTxn` is the
refinement of `TuningTxn`, with `best <- aux_best` and
`phase <- IF aux_trial THEN "trial" ELSE "settled"`: a write to the file opens a
trial, adoption or a successful undo closes it, and a rollback that did not
restore everything leaves it open for ever. `EventuallyDone` is termination.

*Bounds*: two applications, so that "touched" and "other" both exist and a
bundle can name both; per field two values beside zero, so that a value that is
lost, swapped or left behind is visible; three proposals (as deployed, a
resized request with its target, a raised ceiling); three scores, which reach
every branch of the adoption rule. This run explores the trusted starts
(section 4), file and cluster in agreement, with and without entries. Its
claims say nothing of the others, in which entries are partial, the file is cut
short or the cluster has drifted; `ZeroRequest` and `BundleInterrupt` explore
those as well, and the theorems are about all of them.

**TuningWriters.** `SetTakesEffect`, `RemovalTakesEffect`, `BackRecorded` and
`OthersKept` are what an undisturbed command (`aux_alone`) guarantees. An apply
covers every application, so the first two also say what the others get: what
was recorded for them, by a refused text too. `BackRecorded`: the rollback text
leaves a file that is the snapshot whole, whatever was recorded since; that its
own apply is refused is the run `PastedRollback`. `OthersKept`: the entries of
the other applications are never lost in silence; a command that stops inside
its write does lose them, and leaves a file that does not parse. `NothingZero`
holds of any interleaving. Three commands are enough for a text, a command in
between and the rollback text, or for one that overlaps two.

**LoadEngine.** `OneLoad`: requests that follow each other never make two loads
at once, whatever the timers of earlier runs do meanwhile. `StopStops`: when
the answer to a stop is sent every worker has been told, unless requests
overlapped. `FlagHonest`, of overlapping requests too: once nothing is in
progress, the flag says running only of a run that has not been told to stop.
`ToldWorkersLeave`: workers that were told to stop do, although a later run may
have begun. Two runs are enough because a step only ever names the run it makes
and the run it finds.

**RunBudget.** Unit ten seconds, the script's default times, a budget of eleven
minutes: tight enough that each admission test answers both ways, which twenty
minutes would not do for the times given. `EndsInBudget`, `RollbackFits` and
`OverrunBounded` say which runs stay within the budget and by how much the
others exceed it.

**SizingLoop.** `KnobsAccepted`: however candidates follow each other, settings
stay what the HPA API accepts, with no zero; `OptimizeRun` assumes that of the
planner. `Schedulable`: no request outgrows a node, until a run sizes for a load
that the pods it found could not carry on nodes of their own; a headroom of 1
breaks it within one run. The premise is there because `_usage_sized` has no
upper limit: `-LoadScale` or `-TargetRps` far above the measured load do make
requests that no node can hold. `IdleFitFits`: after an idle fit the smallest
replicas do fit the baseline nodes, rounding included. `NeverStarved`: no kind
of candidate lowers a request below half of what a pod needs at the load that
the run sizes for, which is what `3과제/README.md:186-187` promises.
`UsageSettles`: unless the idle fit interferes, sizing comes to rest under a
steady load.

*Bounds*: the CPU of a t3.medium (1930m, of which 1480m are left for
applications); two applications, two zones with a baseline node each; four
initial settings per application, between the smallest request and one that
fills half a node, with and without room to scale; a light, uneven load and one
that throttles the pods when there are two of them. Runs size for the load as
measured, or for half of it with one application fixed at more than its pods
can carry, so that both sides of the premise of `Schedulable` and floors below
half of the measured use occur. One adopted candidate of any kind may come
between the runs; the search of `request-optimal` looks at targets 25 and 90 and
at requests 200m apart, which contains its extremes. `SizingFlips` keeps to the
load as measured, which is the default.

**SensorPipeline.** `NothingForgotten`: the four containers of the producer
agree about every batch at every step. `LossIsFailed`: what is acknowledged is
in the table or in the alert topic, except an alert whose last send failed; it
is what the function loses by not reading its futures, and no more.
`ImplementsPromise` is the refinement of `ProducerPromise`, with
`fate <- final`. `EventuallyCommitted`: a partition without a malformed record
is consumed to its end, whatever failed on the way. It is the property that a
leader which is never looked up again, or a flush that waits for a batch nobody
has, would break.

*Bounds*: two records, in the three combinations that matter (an alert before a
normal record whose failure repeats the batch; two alerts, in one producer
batch or in two; an alert before a malformed record); two batch identities and
two requests in flight, so that an older batch is retried in front of, or is
overtaken by, a newer one; delivery timeout and function timeout are both 120 s
in the code and both two ticks here; two ticks, after which no invocation times
out any more, and two faults among disconnects, refusals, moved leaders, lost
metadata, raised exceptions and lost processes. Two faults are what a retry
that fails again needs.

**EventConsumers.** `RepeatIsExplained`: a message is worked on twice only if a
copy died with it, its deletion failed, the queue delivered it again by itself,
or its place in the batch and the delays up to it took the whole visibility
timeout; none is deleted before it was worked on.
`AckedIsDone`: what is acknowledged has had every effect, and none has a later
effect without the earlier. `ToldIsOwned`: whoever was told that the seat is
theirs has it. `GroupClean`: no rule is left once nothing is left to handle.

*Bounds*: three messages for two copies, so that a full batch and a second
holder of the same message both exist. `app.py`'s ten messages of three seconds
against 30 s are three of two ticks against six, the same equality, with half a
message as the smallest delay; `worker.py` takes one message at a time and hides
it for three times what it needs (60 s for 20 s by default), and so here. Two
troubles, among them the ticks in which a copy is held up: two such ticks make
the last but one of a full batch late, and the only message of `worker.py`, and
any two failures can meet. Three alerts in batches of two
with two failures: a second batch, and a retry of either. Two users, four
changes of the seat and two repeated calls. Two rules and four additions, three
attempts, one other error: a rule comes back while earlier runs are under way.

`TuningWriters` and `PastedRollback` use the symmetry of the two shells, and
`EventConsumers` that of messages and copies: they check invariants only and
nothing names one of them. Deadlock is checked in every passing run but one;
`Terminated` is the only step of a script that has ended. In `EventConsumers`
it is not, because services without work, or whose bounds are used up, rest.

## 4. Assumptions

*Trusted runs.* The script does not check, and its documents differ on, what it
may assume when it starts. The properties of `OptimizeRun` are therefore
claimed of runs (`aux_trusted`) that start with cluster and file in agreement,
complete entries and working settings, and whose first kubectl reads succeed.
The other runs are in the model, and `TypeCorrect` holds of them: a drifted
cluster is moved by the first apply, and a failed first read makes `$bestKnobs`
a row of zeros. Both are listed as hazards.

*Fairness.* `optimize.ps1` is sequential and each of its statements returns:
hey runs for a fixed time, kubectl and terraform return in success or failure
(a rollout that does not finish times out). So the script
is weakly fair as a whole; no single outcome of a statement is. In the load
engine the operating system runs every thread: weak fairness of each HTTP
thread once it has begun, of each timer, and of each worker, whose requests
time out after five seconds. Nobody is obliged to start or stop a load. In
`SizingLoop` runs follow each other without end, and none has to adopt anything.

In `SensorPipeline` the service invokes the function again and stops one that
has used its time, the caller's thread goes on, the broker answers what it has
received, and the sender thread goes on with each of its activities as long as
the process runs: sending, answers, connecting, metadata. `SendProducerData` is
fair for a batch whose back-off is over. Nothing is assumed of faults and of
the clock: an invocation need not be timed out, but may be in the middle of
anything. Faults are bounded, which stands for "the trouble ends at last".

*Consumers of events.* The function of the security group has a timeout of 30 s
and asynchronous invocations are repeated after a minute, so that an attempt
that failed is repeated after the runs of that time have ended; and a describe
sees what revocations before it removed. Without the first of these
`GroupClean` fails: two runs with old readings can fail a third again and
again. The alert topic has one partition (`2과제/02/README.md:95`), so the producer
has one deque and one leader; the raw topic has three, whose invocations run in
processes of their own and share nothing but the table.

*Timers.* A timer does not fire before its run is published: the form asks for
at least ten seconds (`부하/index.html:77`) and the statements in between take
microseconds.

*External.* What Terraform, Kubernetes and the network do is modelled from how
the code uses it and marked external in `PROJECT.json`.

## 5. Proofs

All theorems hold for any values of the constants that satisfy the named
assumptions of the modules: any applications, proposals, scores, files, clusters
and times; any partition, batches, messages, users and rules.

* `TuningStoreLemmas`: a targeted apply that succeeds makes the cluster what
  the file says, whatever it was (`ApplySucceedsExact`); one that fails never
  leaves an HPA half updated (`ApplyFailsBetween`); `Read-Tuning` is exact on
  complete entries (`ReadTuningComplete`), so zeros come from partial ones only.
* `OptimizeRunProofs`: `TypeCorrect`, `RunsConsistent`, and from the latter
  `NormalEndIsBest`, `ReportCorrect`, `LoneRollback`, `ServingKept`; the action
  property `OthersUntouched`; `RunImplementsTxn`.
* `TuningRunsProofs`, of the clock: `ClockTypes`, `StagesFunded`, and from it
  `BudgetKept`, `RollbackKept`, `OverrunKept`. Of the sizing loop: the inductive
  invariant `SizingStays`, and from it `SizingTypes`, `SettingsAccepted`,
  `PodsStaySchedulable`, `MeasuredRunsFit` (which needs no premise when runs size
  for the measured load or less), `IdleFitHolds` and the action property
  `NobodyStarved`;
  below them one lemma for each kind of proposal, and the equations of sums and
  of first fit.
* `TuningWritersProofs`: `CommandTypes`; of lone commands `SetApplied`,
  `RemovalApplied`, `SnapshotRecorded`, `OthersLeft`; of any interleaving
  `ZeroNeverWritten`, from files, clusters and defaults without a zero.
* `LoadEngineProofs`: `LoadTypes`, `OneLoadAtMost`, `StopTellsAll`, `FlagTrue`.
* `SensorPipelineProofs`: `PipelineTyped`, `NoBatchForgotten`,
  `OnlyFailedSendsAreLost`, and the refinement `ProducerKeepsPromise`.
* `ConsumerProofs`: `RepeatsAreExplained` and `AcknowledgedIsDone`, for any batch
  size, visibility timeout and number of effects that their assumptions allow.
* `EventConsumersProofs`: `PromisedSeatsKept` of the reservations alone,
  `RemediationWins` of the remediation alone, and `QueuesExplained`,
  `AcknowledgedHandled`, `SeatsKept`, `GroupKeptClean` of the composition, with
  the two queues and the two batch sources as instances.

**Why `Consistent`.** None of the properties is inductive. `EndsOnBest` is
about the end, and whether the end is right depends on what was in the file
when the last apply began, which depends on `$bestKnobs` when the file was
written. `Consistent` says for each statement which of the four copies of a
configuration agree: the cluster, what the file would bring, `$bestKnobs`, and
the measured best. At rest all four do. After a candidate was written the file
is ahead; after its apply the cluster is too; `$bestKnobs` and the measured
best stay behind until adoption, in the touched applications only. After a
presize `$bestKnobs` is ahead of the measurement. In `finally` only the
*untouched* applications are known to agree, because the interrupted apply may
have stopped anywhere; that is exactly why putting back one application
restores a candidate of one and not a bundle. The lemmas `RecordEffect`,
`SuccessEffect` and `FailureEffect` say what the three operations on the store
do to these agreements; `HealthyKept` and `ConsistentStep` go through the
actions.

**Why `Funded`.** To show that the clock stays below the budget one must know
at every statement what the stages that were admitted may still spend. `Left`
is that amount: `Funded` says elapsed time plus `Left` fits, unless an apply
was slower than its stage was admitted with.

**Why `SizingInv`.** What a proposal may do to a request depends on the
measurement it is derived from, and the rules trust it: seven tenths of the need
of a pod fit a node only if there is a pod and the pods can carry the load that
the run sizes for. So `SizingInv` carries, beside acceptable settings
(`AllValid`) and `Schedulable`, that between a load test and what is made of it
the measurement is of the pods that the live settings cause (`AllFound`), and
that these can carry the load (`Carried`) unless `aux_beyond` says otherwise. A
step then comes down to one application and one kind of proposal: `Follows` says
that the new settings are acceptable, that a smaller request is at least half of
what a pod needs, and that the request fits a node if the old one did and the
load is carried; each `...Follows` lemma shows it of one kind, with its own
rounding, floor and cap. A bundle combines them, since each application gets one
proposal, made from the settings and the measurement that the run began with.
`MeasuredRunsFit` adds that a load scaled down and rounded is no more than what
was measured (`RoundedAtMost`, `AsMeasuredNeed`), and what was measured was
carried.

`IdleFitFits` needs one thing more, and it must be remembered past the step that
made it true: the requests add up to `ZoneBudget` at most. The shares of the room
above the floors add up to that room at most, and rounding goes down, never
below the floor; what is kept as it was is no larger than its share
(`IdleFitFollows`; when the floors alone are too much nothing is fitted). From
the sum to the nodes, `OneNode` follows first fit pod by pod: every partial sum of a
zone is within a node, so no second one is opened.

Sums over applications and the placing of pods are folds of the community
modules. The induction theorems of the library take an operator as parameter,
so their equations are proved from the least counterexample instead: a set of
subsets without a smallest member is empty (`NoSmallestSubset`, from the
theorem that well-founded relations have minimal elements).

What is assumed: finitely many applications; a node whose room for applications
(`Usable`) holds seven tenths of its CPU, rounded up to a unit, as that of a
t3.medium does (`NodeAssumption`; without it the usage sizing could propose a
request that fits no node); loads that use some CPU; initial settings that the
API accepts and a node can hold. The premises of `IdleFitFits` (one baseline
node for each zone, no application with two idle pods in a zone) are those of
the comment in `_idle_fit` (`tuning_engine.py:1072-1074`).

**Why `Intends` and `Reached`.** The properties of the manual commands speak of
the end of a command, and of what was there when it began. In between, the map
that a lone command holds is its own change of the file it found (`Intends`), and
file, Terraform's reading and cluster are as far on the way to that map as the
next statement says (`Reached`). Nothing else about the file or the cluster is
needed, because an apply that succeeds covers every application
(`ApplySucceedsExact`): so half written files, drift and earlier failures drop
out. A second command ends the claim for both.

**Why `Apart`, `Honest`, `Single`.** The flag and the event of `_load` are set by
different steps of different threads. That a published run has not been stopped
needs that nobody could reach it before: `_load` did not name it (`Apart`). Then
`Honest` carries itself: whoever stops the run that the flag stands for is on
its way to clear the flag, and a publication in between replaces the run as
well. `Single` says, by the statement of the only request, which run may be
untold.

**Why `Accounted` and `Truthful`.** A retry puts a batch back into the deque; it
must not be there already, and it must leave the heap. Both follow from where
the batch is known to be: in the heap, because it has no verdict and its request
exists. So the agreement of the containers carries itself, with one request for
each batch as the hinge. For "succeeded" to be true one must look further back,
to the answer of the broker that is still on its way: `Truthful` says that an
"ok" in a request is true of the records the batch has *now*, which holds since
a batch that was drained is never joined again and one that is reopened has no
request.

**Why `FuturesHeld` and `Progress`.** `flush` waits for the batches that were
incomplete when it began. That this includes all alerts of the invocation needs
that no future the function holds was given to other records (`OpenBatch` never
takes a batch that is held), and that nothing is sent during a flush. What the
loop has passed is in the table or has such a future; an exception drops both
claims, and the next attempt begins again.

**Why `RegularOnce`.** Call a message regular while nothing explains a second
delivery of it. A regular message is in one batch at most, the batch of the copy
whose receipt handle is valid, and the ticks for which it stays hidden and the
time for which its copy has had it make up the timeout (`Held`): in a tick the
first loses one and the second gains one, whether the copy sleeps or is held up.
It would be overdue if its place and the delays so far took the whole timeout
(`LateIsOverdue`), so it is hidden as long as it is held, and no receive returns
it; its deletion, with the valid handle, takes effect. Who is in no batch has
been worked on once and deleted, or not at all.

**Why `Fresh`, `Waiting`, `Sure`.** While a rule is left some event sees to it.
The event of the last addition is `Fresh`: it will see, or has seen, every rule.
It can fail because an older run removes part of that; then it is `Waiting`
until the runs of that moment are over, and every later run has also seen every
rule; so the next time it is `Sure`. That is one failed attempt beside the other
errors, hence two attempts more than errors.

*Model-checked only*: liveness (`EventuallyDone`, `ToldWorkersLeave`,
`EventuallyCommitted`, `UsageSettles`), which is out of the prover's reach, and
the properties that the five violating runs refute. Every invariant and every
other action property of a passing run is the statement of a theorem.

## 6. Where code and documents disagree

* `ZeroRequest` violates `ZeroNeverRecorded`: `Read-Tuning`
  (`optimize.ps1:82`) turns the fields that a partial entry does not list into
  zeros and `Write-Tuning` records them for every application the knob set does
  not name. The comments at `optimize.ps1:72-73` and `140-141` say that partial
  maps are safe and that `0m` is never written.
* `BundleInterrupt` violates `InterruptRestores`: `$pending` names one
  application; an interrupted bundle keeps the rest.
  `terraform/README.md:381-383` promises the exact snapshot.
* `PastedRollback` violates `BackRestores`: the texts of `tuning_engine.py:1297`
  pass `-target=a.b` unquoted, the form of which `optimize.ps1:110-113` and
  `apply.ps1:55-56` say that it was seen to fail. A pasted rollback records the
  snapshot and the cluster keeps what it should take back, until some other
  command applies the file; `tuning_engine.py:1264-1265` says that the rollback
  is exact and that the file tells what the cluster runs.
* `LoadsEnd` violates the property of that name: a stop that overlaps a start,
  or two overlapping starts, leave a load whose timer was cancelled and whose
  event nobody sets. `부하/README.md` says that a load ends by itself.
* `SizingFlips` violates `SizingSettles`: the idle fit shrinks what the usage
  sizing, in the next run, restores. With two pods each, 450m and 3860m of use
  on t3.medium nodes, the requests alternate between 175m/1375m and 150m/1300m,
  each time with a rollout. `tuning_engine.py:50` says that sizing converges.
  It does not happen when the requests that usage sizing gives fit the idle
  nodes, or when half of the usage alone is too much for them.

Observed, without a run of their own: after a `rollback.ps1` without
`-RunTerraform` the file is gone, and `rollback.ps1 -RunTerraform`
(`rollback.ps1:46-48`) says that the cluster already runs the values of
`terraform.tfvars` and does nothing; the adoption rule accepts a candidate
that improves performance *or* availability although the gate fails
(`optimize.ps1:299-300`); an interrupted presize is not put back
(`InFinally` says what still holds); what a write that was cut short leaves
makes `apply.ps1 -App` and `rollback.ps1 -App` throw, while `Read-Tuning` of
`optimize.ps1` takes it for an empty file and records its own applications over
it; a run halves a request at most in the search of `request-optimal`
(`tuning_engine.py:1196`), where `3과제/README.md:188` says it of every run and
the sizing before the load may lower it further; with `-LoadScale` below 1 the
floor is below half of what was *measured*, which the comment at
`tuning_engine.py:45` speaks of; with `-LoadScale` or `-TargetRps` far above the
measured load the usage sizing may ask for more than a node has; the comment at `optimize.ps1:3` speaks of
up to three candidates where the loop runs once; `rollback.ps1:15` documents a
switch that does not exist.

Of the consumers:

* `raw/index.py:109` reads no future and `flush` raises nothing: an alert whose
  send failed is acknowledged and gone. `LossIsFailed` says that this is all.
* A malformed record (`index.py:99`) raises in every attempt: the partition
  stands still behind it and the alerts before it are sent again each time. So
  `EventuallyCommitted` has a premise.
* A record without a timestamp gets a new one at each attempt and so becomes
  another item of the table.
* A batch that expires in the iteration that drained it is sent all the same:
  it is reported failed and may be written. And `expired_batches` stops at the
  first batch that is not late, so a newer batch that was retried in front of
  an older one delays its verdict beyond `delivery_timeout_ms`, which
  `kafka.py:149` calls an upper bound. Retries with several requests in flight
  also change the order of alerts.
* The delivery timeout equals the function's timeout, so a batch can expire in
  a live invocation only if an earlier, failed one opened it.
* `app.py` receives ten messages of three seconds and the queue hides them for
  30 s: the tenth may be worked on twice without any failure, and so may earlier
  ones when a receive or a deletion is slow and succeeds in the end. Both queues
  are standard ones (`07/module3/main.tf:39`, `08/module4.tf:181`), which may
  deliver twice by themselves. Nothing in either loop notices a repetition.
* The client library repeats an update whose answer was lost; the second fails
  its condition, so the owner can be told 409. Nobody is told a seat they do
  not have. A cancel's row in the audit table has no user.
* The remediation hears of `AuthorizeSecurityGroupIngress` only: rules that come
  another way are removed with the next event.

## 7. Not modelled

The clock is not composed with the knobs: `OptimizeRun` lets every admission
test answer both ways, which contains every timed behaviour. `optimize.ps1`
beside the manual commands of other shells is not composed either; its
properties assume that it is alone, which the documents ask for. What the
planner predicts (nodes, latencies, the frontier), the score, the dashboard and
the providers are not modelled.

Most of the Python in the repository is the vendored kafka-python. What
`raw/index.py` reaches of it is the producer; of that, transactions, idempotence
and linger are off and their branches left out, as are the wire protocol, the
authentication and `close`, which `index.py` never calls. A second process that
Lambda keeps warm while the first is stale, the periodic refresh of metadata
(`metadata_max_age_ms`), and answers received in the very poll in which the
connection closes are abstracted. So are three things that no property depends
on: a batch is drained only when no metadata request is due, while the client
(`cluster.py:174-186`, `client_async.py:575-579`) lets requests go during the
back-off of a refresh; a broker answers while the connection is up, although it
may still append after a disconnect, which is the same to the producer as an
answer that was lost; and every retriable answer also asks for new metadata. The branch of `_get_expired_inflight` that
raises `IllegalStateError` cannot be reached, by `NothingForgotten`. Consumer,
fetcher, group coordinator, admin client and transaction manager, more than half
of the package, are called by nothing here: a model of them would be one of
somebody else's program, driven by inputs this repository never gives it.

The HTTP routes and counters of `app.py`, the read-only routes of the
reservation, the read paths of the other functions, the CSV pipeline and the
DocumentDB client have no state machine of their own. Terraform modules,
deployment scripts, header functions and pages are declarative, linear or
stateless. `PROJECT.json` lists each with its reason.

## 8. Plan

1. Done: `TuningStore`, `OptimizeRun`, `TuningTxn`, `RunBudget`,
   `TuningWriters`, `LoadEngine`, `Planner`, `SizingLoop`, `KafkaProducer`,
   `ProducerPromise`, `SensorPipeline`, the event consumers; theorems of all of
   them, down to every safety and action property that a passing run checks.
2. Lemmas that say more of the planner than its properties ask: which kinds of
   candidate keep the trigger (request times target) up to rounding, and which
   never raise the idle nodes.
3. `Rubric` and the frontier: pure operators (no recursion); bands and cost
   points against their tables, the frontier's unit of cost
   (`tuning_engine.py:955-956` takes nodes where the other columns use
   `cost_units`), and the choice of a candidate by its predicted score.
4. Two processes of the raw consumer, one of them stale, on one partition.
