# A TLA+ model of the Trust Agent

The Trust Agent (`tagent`) runs on a host with a TPM 2.0 and lets the Host
Verification Service (HVS) attest that host. This directory holds TLA+ models of
the agent, the TLC configurations that check them on small instances, and proofs
that TLAPS checks for every instance.

## 1. The system

| Component | State it keeps | Operations | Talks to |
|---|---|---|---|
| `tagent setup` (`tasks/`, `main.go`) | owner password, tag index, AIK and primary key in the TPM; `aik.pem`, `privacy-ca.cer`, `config.yml` | one task per setup command; `all` runs eight or nine of them | TPM, HVS (two-round AIK handshake), CMS, AAS |
| Configuration (`config/`) | `config.yml`, loaded once per process | load, apply environment, save (truncate, then encode) | every command |
| Request handlers (`common/`) | none of their own: they read the TPM, `aik.pem`, `measure-log.json`, `ramfs/*.xml`, and write the tag index and manifests | quote, deploy tag, deploy manifest, measure application, host info, AIK, binding key | TPM, the two services below |
| Service process (`main.go`, `service/`) | main goroutine, signal channel, web server goroutine, report retry goroutine | start, request a report, wait for a signal, stop | systemd, HVS |
| Outbound service (`service/outbound_service.go`) | NATS connection and eight subscriptions | start, one callback per topic, stop | NATS server |
| Event log (`eventlog/`, `tagent init`) | `measure-log.json` | parse UEFI, TXT and application logs | `/dev/mem`, ACPI tables |
| Measurement (`tboot-xm/src/wml`) | fixed files in `/tmp` | measure a manifest | the measure-application handler, `measure_host` |
| Boot measurement (`tboot-xm/tcb_protection`, `tpmextend`) | PCR 15, application event log, `ramfs/*.xml` | measure the manifests in the initrd, extend PCR 15 | TPM |
| Installers and scripts (`dist/`, `tboot-xm`) | files, boot entries | install, uninstall | the commands above |

What is hard in this code:

* **Crashes and failures between two steps.** Provisioning is a sequence of TPM
  commands, network rounds and file writes without a transaction. What survives a
  failed run is the TPM and half-written files; the tag secret exists only in
  memory until `cfg.Save()`.
* **Two processes and many goroutines on one TPM.** The service keeps the secret it
  loaded at its start, while a later setup may redefine the index. A quote consists
  of several TPM commands and file reads, with other requests in between.
* **Process lifecycle.** Signals go to a channel without a buffer, `Shutdown`
  races with `log.Fatalf`, and the retry loop closes a channel from inside a
  `select`.
* **In-place editing.** The PCR bank list is edited while it is iterated.
* **Evidence made in three places.** PCR 15 is extended in the initrd, its event log is
  copied by `tagent init`, and a quote puts both together with measurement files. Each
  of the three can stop early, and old files stay when it does.
* **Commands that save more than they change.** Every setup command applies the whole
  environment to the whole configuration and saves it, some of them in the middle of
  their tasks, and the files a mode needs are written by other tasks.
* **Parsing what firmware left in memory.** Sizes, counts and offsets come from the log
  itself, are unsigned and wrap, a buffer that is too short yields a short slice, and an
  index past a slice ends the process with status 0.
* **Fixed file names.** Measure processes of concurrent requests use the same two
  files in `/tmp`, and one process uses one of them for two lists at once.

The properties that make each part correct are listed with its module in section 3,
and every hazard, with its line, under `hazards` in `PROJECT.json`.

## 2. Modules

| Module | Models | Uses |
|---|---|---|
| `Provisioning` | `tagent setup` and `uninstall` against the TPM and the configuration directory | |
| `Attestation` | the service's quote and deploy-tag handlers beside `tagent setup` | extends `Provisioning`, and is checked and proved to implement it |
| `PcrBanks` | the bank loop of `CreateTpmQuoteResponse` | |
| `AssetTag` | what the agent promises of a host's asset tag, without index, secrets and steps | implemented by `Provisioning`, checked and proved |
| `Config` | `config.yml`, the environment, the credential and certificate files and the registration with HVS, under every setup command | |
| `OutboundService` | `Start`, the callbacks and `Stop` of the NATS service | |
| `ServiceLifecycle` | the goroutines of `tagent startService`, those of the NATS service included | extends `OutboundService` |
| `EventLog` | the parsers of the UEFI, TXT and application event logs, and how `tagent init` puts them together | |
| `MeasuredLaunch` | manifests, `measure_host`, `tpmextend`, the application event log, `measure-log.json` and what a quote takes from them | |
| `Measure` | the measurement library, as the service runs it: one process per request | |
| `MC*` | the constants TLC needs that a `.cfg` cannot express | |
| `*Proofs` | theorems about the module of that name, and their proofs; `ServiceLifecycleProofs` is about `OutboundService` too | TLAPS |

Definitions marked "Mutant of X" are wrong variants of X. Each property has one, and
TLC finds the property violated when X is replaced by it; the list is in
`PROJECT.json`.

## 3. How the modules correspond to the code

### Provisioning

Three groups of variables are the three places where state lives.

* TPM: `owner` (password), `nv` (tag index: password and content), `aik`, `primary`.
* Disk: `config` (`config.yml` seen through `Tpm.TagSecretKey`, or `Missing`, or
  `Torn` after a truncation), `aikPem`, `privacyCa`.
* Process: `pc`, `cmd`, `todo` (the runner's remaining tasks), `ownerSecret`,
  `tagSecret` (the configuration in memory), `newAssetTag`, `aikCert`, `exit`.

`provisioned`, `acked` and `disturbed` are history variables. A command is the set
of its tasks because all the lists of `CreateTaskRunner` follow one order, `Rank`.
Tasks that touch neither the TPM nor the secret do nothing but succeed or fail.

`take-ownership`, the downloads and `provision-primary-key` are one action each: at
most one TPM command or file write changes state. `DefineTagIndex.Run` is five
actions (begin, `NvRead`, `NvRelease`, `NvDefine`, `NvWrite`), the AIK handshake
three, writing `aik.pem` two and `cfg.Save()` two. `SetupAbort` stands for every
error of an external call, every failed write and every kill, so it is enabled
wherever the process is. The early returns that depend on modelled state
(ownership, an unreadable index, a missing privacy CA) are disjuncts of the actions.
`define-tag-index` as a command of its own is `DefineTagIndexPanic`: it has no TPM
factory.

The TPM itself is external. It is modelled by what the code relies on: owner
authorization opens `NvRead`/`NvRelease`/`NvDefine`; the index password opens
`NvRead`/`NvWrite`; an index that was defined and not written cannot be read (the
TPM answers that it is uninitialized); clearing removes the owner password, indices
and keys. `DeployTag` lets any process that knows the password write a tag at any
time; `Attestation` replaces it by real requests.

Checked: the saved secret always opens the index (`SecretAgreement`), a deployed tag
survives (`TagKept`), a successful full setup leaves a host that can attest
(`ProvisionedWorks`), repeating setup succeeds again and again, or the host is for good
in one of two named states (`RetryProvisionsUnlessWedged`), and all of it implements
`AssetTag` (`ImplementsAssetTag`). Every run passes through both states for a moment, so
the exception is that the host stays there.

### AssetTag

The abstract specification has a tag, a flag for "the index is being replaced" and one
for "in doubt". A replacement begins and ends without touching the tag; a deployment
sets it; only a failure or a deployment inside a replacement puts it in doubt. The
refinement mapping says where the tag is at each moment: in the process between
`NvRelease` and the end of `NvWrite`, in the TPM otherwise; `inDoubt` is the history
variable `disturbed`. What the abstract specification leaves out is everything setup
does to secrets, keys and files, so the refinement says that none of it moves the tag.

### Config

`config` is `config.yml` reduced to the mode, the port, the host id and whether there is
an API token: the fields that decide whether a service can start and that more than one
command writes. `tlsCert` and `credential` are the files a service of each mode needs,
`hvs` the port in the connection string that `create-host` registered. A setup process
has its environment, its configuration in memory and its tasks; `SetupFails` stands for
every error and kill. `download-api-token` saves everything in the middle of a run,
`main` saves it at the end, `ioutil.WriteFile` and the certificate download are two
steps each. `Save` truncates the file before it encodes it: a process that is stopped
where it saves (`AtSave`) leaves either the old file or one that no command can decode
(`TornConfig`), and then only an edit goes on from there. `ready` remembers for which
mode and host id the last complete setup was; only an edit, an uninstallation and
another complete setup change it, failures do not. `moved` says that the port was set
again after the registration, `unsaved` that a process ended after it had replaced the
credential and before it saved the host id that one was issued for.

Checked: what a successful `tagent setup` made ready stays ready under every later
command, successful, failed or killed, with two named exceptions (`SetUpServes`): the
host was given other values (`Reconfigured`), or a process was cut short in one of three
places (`CutShort`: in `Save`, in the replacement of the credential or of the TLS files,
between the new credential and `Save`). Everywhere else a failure costs nothing.
HVS keeps the right port until someone sets it (`RegisteredPort`); a field no variable
sets keeps its value (`UnsetKept`). That the mode does too is what the user stories ask
for and does not hold (`KeepEverythingElse`). Only one setup process runs at a time, as
in `Provisioning`, although nothing in the code prevents two.

### EventLog

Memory is a sequence of cells, and a cell is one field, one character or a part of a
digest. Every `binary.Read` and `buf.Next` of `createMeasureLog` that can fail or fall
short is a step: the three fields of a record, each digest, the event data, and then one
event per digest into the group of its PCR and bank. Sizes wrap at `UintRange`.
`getEventTag` is an operator per kind of data; the value `Panics` stands for an index
past a slice, after which `main` recovers and the process ends with status 0. The TPM2
table and the tables of the TXT heap are reduced to the numbers that are read from them;
the rest of the heap, with both record sets, is cells. `host.uefi.events` and its like
are what the firmware recorded. Only the properties look at them, through `Encode`,
which is written from the record format and not from the parser. Which events a group
must hold is said by position: the event of every `Places` of its PCR and bank, each at
its rank (`Selects`).

`EventLogAssumption` says what a host can be: sizes are unsigned and below `UintRange`,
a log in memory is not longer than the memory, and the recorded events are well formed
(one to five digests, each of the size of its algorithm, and the tags that `getEventTag`
makes of their data if it does not panic on it). It says nothing of the cells, and
nothing of whether the data is such that the agent can read it.

Whether a log is intact is said of the format alone: the TXT container lies in the heap
and its two record sets in the container (`TxtIntact`). Whether the agent reads all of an
intact TXT log is another question, and `TxtCovered` is the answer: the slice that
`getTxtEventLog` takes fits into the heap, something ends each set, and the second set is
not longer than the size it computes. Names are given to the 501 events by their
occurrence in the whole log, as the comment at `common.go:325` says (`TxtEntries`); the
code counts from 0 again in the second set (`TxtEntriesRestarted`).

Checked: when `init` comes to its end an intact log is published completely, in order, in
every bank, although another parser failed (`IntactLogsPublished`); a cut produces no
event that is not in the log (`TruncationSafe`); the log of an earlier boot stays only if
one of this boot was torn, is not covered, has data that the agent panics on, or there are
no events (`StaleOnlyIfTorn`); `init` ends (`InitEnds`).

### Attestation

`svc` is the secret the service process loaded. Each request in `req` goes through
`getAssetTags` (index exists, then read), `getNonce`/`getQuote` (sign),
`readAikAsBase64`, and the reply; a deployment checks the index and writes. All of
them interleave with each other and with the steps of setup, and the service can be
stopped and restarted at any point. The event log and the measurements that a quote
also reads are the subject of `MeasuredLaunch`.

`QuoteVerifies` says what HVS needs: the certificate belongs to the key that signed,
and the tag is one that was deployed at some moment of the request. It is stated for
requests that no setup process overlapped on a provisioned host. With an overlap it
does not hold, and the user stories (10 and 12) ask the administrator to stop the
service first. `PROPERTY Spec` is the refinement: whatever the service does to the
TPM, `Provisioning` allows it.

### PcrBanks

`array`, `len` and `i` are the backing array, the slice length and the index of the
`range` loop. `range` evaluates the slice once, so the loop runs over the original
length and reads the edited array. The active banks always survive
(`ActiveBanksKept`), and a single inactive one is removed correctly
(`OneInactiveBankStripped`). Both compare the slice with the request by a map from the
indices of the one to the indices of the other (`Remains`).

### ServiceLifecycle

`main`, `server` and `retry` are the three goroutines, `tick` and `quit` the channels
of the retry loop. `Signal` drops a signal unless main is at `<-stop`, as package
`signal` does with a channel that has no buffer. `ServerReturns` is `log.Fatalf`
after `ListenAndServeTLS`, on a listen error and after `Shutdown` alike. A panic in
`uuid.MustParse` is recovered in main (status 0) and fatal in the retry goroutine.

An attempt of `sendAsyncReportRequest` ends in an error, after which it is repeated, or
returns nil. It returns nil when HVS has accepted a report request (`reported`) and also
when there is no client, no `platform-info`, an expired token or no such host in HVS
(`main.go:746-790`), and then nobody asks again (`gaveUp`). `ReportRequested` says that
one of the two comes, `RetryEnds` that the loop then ends. `TypeOK` covers the variables of
the NATS service as well (`NatsTypeOK`).

While it serves in outbound mode the process takes the steps of `OutboundService`: a
signal or a kill can come between any two of them, and `Stop` ends the callbacks.

### OutboundService

The deploy-manifest callback shares `err` with `Start`. The Go memory model leaves
open what a racing read sees, so each read takes the goroutine's own last value or
the shared one. `raced` records that the two met. Without such a meeting replies are
truthful and `Start`'s result is right; with it, neither is.

### MeasuredLaunch

`manifests`, `ramfs`, `eventLog` and `measureLog` are the files, `pcr15` the sequence
of extensions since the boot. `phase` and `next` are the place of `measure_host` and
of its two loops, which go through the uuids in the order of `ls`. A digest is the
thing it is computed from, so the measurement of a manifest is that manifest, and
`Failed` is the error message that `measure` leaves in the file the shell had already
created. `Faults` says what the environment may do wrong in the initrd: the root file
system or the configuration is not there (`root`), another partition is not
(`partition`), `measure` fails on a good manifest (`measure`), the file with the TPM
version is empty (`version`), the device is not there (`device`), the TPM does not
perform the extend (`extend`). A manifest whose digest algorithm wml does not support
is an input, not a fault: the handler accepts it.

`Boot` can come at any point and cuts off every process. Writing a manifest and
writing `measure-log.json` are two steps each, so what was truncated stays truncated.
Two writers of one file leave either content or, if one is longer, a mixture
(`Garbled`). What is written survives the boot: the loss of data in the page cache is
not modelled. `tagent init` runs one at a time (systemd) and can run again. Mounting
is reduced to whether the paths are found. The TPM 1.2 branch is not told apart from
the 2.0 one: both ignore the result of the command.

Checked: the evidence in a quote is consistent (`EvidenceAgrees`), for the launches
that `measure_host` began, inits that finished and TPMs that performed the extends.
Each of the three conditions is needed (section 4). `LaunchComplete` says that a launch
that came to its end passed over no manifest. A manifest here is a file whose name holds a
UUID: the deploy handler refuses others (`ValidateUUIDv4`), HVS makes those that
`get-configured-manifest` saves, and the `continue` for other names in both loops
(`measure_host:199-201`) is left out.

### Measure

`link` maps the two names in `/tmp` to inodes and `data` holds their cells: a process
that has a file open keeps its inode when another one removes the name. `m` is the state
of each process: `fq`, `out` and `off` are the result stream with its buffer and offset,
`fd`, `buf` and `pos` the stream of the list that is read, `tw` the list that is
written, `sum` the input of the cumulative hash. Every `fopen`, every write or read that
reaches a file and each of the two `remove`s is one action, and actions of different
processes interleave. A process whose digest algorithm is not supported closes its
stream, and what that holds reaches the file all the same (`GiveUp`). An element of a
measurement and a line of a list are one cell; `ReadBlock` and `WriteBlock` are the
buffers of a stream in cells (4096 bytes in glibc). `Matches` and `Listing` are what
`walkDirRecurse` writes for a search and for a directory, whatever it leaves out (it
skips the first two names of a directory, which are `.` and `..` unless a name sorts
before them); `NoBase` are the searches for which it fails, because the directory is not
there (`SearchFails`). A digest is what it is computed from. Files and symbolic links
differ only in what is hashed and are one kind of entry. `MeasureAssumption` says what
the constants are: a finite set of processes, manifests that are sequences of entries,
lists of strings, and buffers of at least one cell.

The measurement that a manifest must have (`Reference`) is defined without the streams:
the paths that exist (`Items`), ordered by entry and by place in the entry's list
(`Rank`), with the digest of a file or of the names in a directory for each.

Checked: a process that no other overlapped returns exactly the reference measurement,
also after a killed one (`SoloMeasurement`, for directory searches that `SearchesFit`
allows: the list fits into a block, and no name in a found directory is itself that of a
directory); no file is left (`NothingLeft`); every process ends (`MeasureEnds`).

## 4. Runs

| Run | Bounds | Result |
|---|---|---|
| `provisioning` | 2 secrets, 1 owner password beside the empty one, 2 keys, 2 tags, all commands | passes |
| `config` | 2 host ids; ports absent, valid, negative, too large; an environment of each kind | passes |
| `config_kept` | as above | violated: an outbound agent becomes an HTTP agent |
| `attestation` | 2 secrets, 2 keys, 1 tag, 2 concurrent requests, commands `all` and `provision-aik` | passes |
| `pcr_banks` | every request of at most 4 banks, every set of active banks | passes |
| `pcr_banks_stripped` | requests of at most 3 distinct banks | violated: a second inactive bank stays |
| `service_lifecycle` | 3 concurrent HTTP requests, both modes, all 8 topics, requests on `aik`, `deploy-manifest`, `version` | passes |
| `service_signal` | 1 HTTP request, requests on `aik` | violated: a signal is dropped |
| `event_log` | UEFI logs of up to 3 events cut off at every cell, with data on which the agent panics; TXT logs of up to 7 and 2 events around gaps of 0 to 3 cells; application logs of up to 3 lines; sizes modulo 256 | passes |
| `measured_launch` | 2 uuids, 2 measurable manifests and an unsupported one, a request beside setup, every fault | passes |
| `measure` | 3 processes, a block of 2 cells, a list of matches of 2 and one of names of 3 | passes |
| `measure_shared` | 2 processes | violated: a process returns the other's measurement |

Why the bounds are enough. Two secrets and two keys are what it takes to confuse an
old one with a new one; a third is equivalent to one of the two as far as any
comparison in the code can tell. The number of setup runs, failures, clears and
deployments is not bounded. Two concurrent requests give a quote one deployment to
race with, and a deployment slot is reused. Three banks are all the agent knows; the
fourth place lets one repeat. Two uuids give the loops of `measure_host` a manifest
before and one after each failure, and boots, deployments and inits are not bounded.
In `config` the number of commands, failures, edits and uninstallations is not bounded,
and two host ids are what it takes for a credential to be another one's. The logs of
`event_log` have every kind of event data, two banks, two PCRs, an algorithm the agent
does not know, six tboot events (one more than have names), every kind of fill after the
last event, sizes on both sides of a wrap, and complete data of the three kinds that the
agent panics on.
Two overlapping measure processes already reach every pair of operations on the shared
files, and the third lets one run alone after, or be overlapped by, what two others
left; one list fits into a block and one does not, one search fails, and one process
gives up. The symmetry sets are permutations of model values that
the modules only compare for equality; no run with symmetry checks liveness. On the
topics left out of `service_lifecycle` the callbacks have an `err` of their own,
like `aik`.

Deadlock is checked in the provisioning, config, attestation and launch runs. The other runs switch
it off because their system stops: a request is answered, a process exits.

### What the conditions of the properties leave out

Four runs fail because the code does something else than a comment or a document says;
`findings` in `PROJECT.json` describes them. Other properties that pass state a
condition, and dropping it gives a counterexample at these lines:

* `TagKept` without `~disturbed`: the tag is only in memory between `NvRelease` and
  `NvWrite` (`tasks/define_tag_index.go:81-95`), and a failure there loses it.
* `RetryProvisionsUnlessWedged` without the wedged states, which is what story 4 of
  `doc/SETUP_USER_STORIES.md` ("re-run ... as needed until it is successful") says: a
  failure between `NvDefine` and `NvWrite` leaves an index that a TPM refuses to read, and
  every later run reads it first (`tasks/define_tag_index.go:67`). A failure between the
  truncation and the encoding of `config.yml` (`config/config.go:107-133`) leaves a file
  that every command refuses.
* `SetUpServes` without `Reconfigured`: `UpdateServiceConfig.Validate` lets a negative port
  pass (`tasks/update_service_config.go:134`) and the service cannot listen on it. If a
  later command with another environment changed the mode or the host id, also one that
  failed after `download-api-token` had saved them, the files of the new mode may not be
  there.
* `SetUpServes` without `CutShort`: a process that is stopped in `Save` leaves an empty
  `config.yml` (`config/config.go:107-133`); one that is stopped in the replacement of the
  credential (`tasks/download_credential.go:77`) or of the TLS key and certificate leaves
  files of which one is cut short or belongs to another; and one that is stopped after the
  credential was replaced leaves a host id it was not issued for.
* `ReportRequested` without `gaveUp`: on an expired token, for example, the attempt logs
  the error and returns nil (`main.go:765-767`), the loop takes it for a success, and HVS
  gets no request until the service starts again.
* `RegisteredPort` says nothing about whether the port is one an agent listens on:
  `create-host` before the first setup registers port 0, and in outbound mode the
  connection string is that of a web service all the same (`util/connection_string.go:39`).
* `IntactLogsPublished` without `Terminated`: if one or two zero fields follow the last
  event, the loop reads past the end of the area, and the error loses the whole log
  (`eventlog/common.go:257-277`). Without `KnownAlgorithms`: nothing is skipped for an
  unknown algorithm (line 298), and the rest of the log is read out of step.
* `IntactLogsPublished` without `TxtCovered`: the size of the second set subtracts an
  offset in the heap from the size of the container (`eventlog/collect_txt_event.go:125`),
  so records near its end are not read, and if the difference wraps the loop reads to the
  end of the heap and fails. When `nextRecordOffset` points into the first set, events are
  published twice.
* `IntactLogsPublished` without `CountRestarts`: `event501Index` starts at 0 in each call
  of `createMeasureLog`, so if both record sets have 501 events those of the second get the
  names of the first ones again, against the comment at `common.go:325-330`.
* `IntactLogsPublished` for runs that panic: an intact log is lost with the others when
  data in another one panics.
* `StaleOnlyIfTorn` for torn logs: a variable name (`common.go:461`), a NO_ACTION string
  (line 516), a PFR string (line 574) or a line of the application log
  (`collect_application_event.go:48-58`) that is cut off panics, and the log of an earlier
  boot stays in `measure-log.json`.
* `StaleOnlyIfTorn` without `UnreadableData`: complete data panics too. A NO_ACTION string
  whose only NUL is its last byte (line 516), a PFR string that is `P` or `PF` (line 574)
  and a variable name longer than the data (line 461) index past a slice.
* `StaleOnlyIfTorn` without `TxtCovered`: the agent slices `allocated` cells from the first
  record on, not from the beginning of the container (`collect_txt_event.go:107`), and a
  container at the end of the heap makes it panic.
* `EvidenceAgrees` without `~refused`: `tpm_extend2` ignores the result of the TPM
  command (`tpmextend.c:173`), and `measure_host` logs the event all the same.
* `EvidenceAgrees` without `launch # "none"`: `measure_host` removes the results of the
  last boot at line 190, after its first early returns (lines 57-60, 178-182). The old
  event log stays, and `tagent init` publishes it for a boot in which PCR 15 was not
  extended.
* `EvidenceAgrees` without `inited`: until `tagent init` has run, and when its parsers
  find no event at all (`main.go:240`), `measure-log.json` is that of an earlier boot.
* `LaunchComplete` for launches that did not complete: `manifest_verify` returns at the
  first manifest that `measure` refuses (line 214), for example an empty file of an
  interrupted deployment, and then neither the manifests after it are measured nor any
  of those before it extended.
* `SoloMeasurement` without `SearchesFit`: `generateDirHash` truncates the list that
  `calculateDirHash` is still reading (`util.c:354`, `measurement.c:188-199`), and the
  matches beyond the buffered block are not measured. If the rewritten list is longer than
  what was read, the search reads on in it, and a name there that is a directory is
  measured as if it had matched; a name that is none is passed over.
* `tagent setup define-tag-index` ends with status 0 and defines nothing
  (`DefineTagIndexPanic`): `CreateTaskRunner` gives it no TPM factory, and `main`
  recovers from the panic.

### Fairness

* `Provisioning`: a setup process that can take its next step does (weak), and the
  administrator keeps running `tagent setup` with an owner secret the TPM accepts
  (strong, because other commands and clears come in between). The property itself
  assumes that failures end (`<>[](exit # "aborted")`).
* `ServiceLifecycle`: the Go scheduler runs goroutines that can run; the ticker
  fires; calls to HVS return, and not all of them fail; `select` chooses at random
  among ready cases, hence strong fairness for `RetryQuits`. Requests, signals, kills
  and listen errors have no fairness.
* `Config`: a setup process that can take its next step does. Only the violation
  `config_kept` uses it; the other properties are safety.
* `EventLog`: the process runs (weak fairness of `Next`).
* `Measure`: the kernel runs every process that is ready (weak, one condition per
  process). Nothing makes a process start or be killed.

## 5. Proofs

`ProvisioningProofs` proves, for all sets of secrets, owner passwords, keys and tags
and every set of invoked commands, `Spec => []P` for `TypeOK`, `SecretAgreement`,
`TagKept` and `ProvisionedWorks`. Assumed of the constants: the special values
(missing, torn, zeros and so on) are not secrets, keys or tags, and the invoked
commands exist.

None of these is inductive. The inductive invariant `IInv` adds what the process
knows in the middle of a run:

* `SecretInv`: the secret in memory is the saved one if there is one, and it is the
  index's password except while the old index still exists;
* `TagInv`: while the index is being replaced, the tag is in memory;
* `IndexInv`, `KeyInv`: what each completed task of a full provisioning has
  established is still there when the run ends.

Each conjunct has a lemma with one step per action.

`AttestationProofs` proves for any number of concurrent requests that

* `AttestationSpec => Spec`: the service beside setup implements `Provisioning`
  (`ServiceImplementsProvisioning`), so the theorems above hold with it running;
* `AttestationSpec => []QuoteVerifies` (`UndisturbedQuotesVerify`). The invariant
  `AInv` adds `CarryInv` (a tag enters the index only from the index or by a
  deployment) and `QuietInv` (what a request that no setup overlapped has collected
  is still what the TPM and the disk hold, up to deployments it has noted).

`MeasuredLaunchProofs` proves `Spec => []EvidenceAgrees` for any number of uuids,
manifests and requests and every subset of the faults (`EvidenceOfQuotesAgrees`). Its
invariant `LaunchInv` says what `measure_host` has established at each stage
(`StageInv`), that the log follows the PCR, one event behind between the extend and the
`echo` (`LogInv`), that what was extended is still in its measurement file (`FileInv`),
and that `measure-log.json`, or what `init` is about to write there, is the log of this
boot (`CopyInv`). Assumed of the constants: the special values are not manifests.

It also proves `Spec => []LaunchComplete` (`LaunchesAreComplete`). `BootFilesInv` says
that nobody writes manifests before `measure_host` has ended, so what its loops read is
what was there at boot; `LoopInv` says how far each of the two loops has come: the first
has measured the manifests below `next` and no others, the second has logged exactly
those (`Holds`).

`AttestationProofs` also proves that `Provisioning` implements `AssetTag`
(`SetupImplementsAssetTag`), and so does the service beside setup
(`ServiceImplementsAssetTag`). Every action is mapped to a step of `AssetTag` or to none
(`TagStepSimulation`). The mapping needs `IInv` and one more invariant, `CarriedTagInv`:
between `NvRead` and `NvRelease` the tag that `define-tag-index` carries is still the
host's, unless a deployment came in between.

`ServiceLifecycleProofs` proves the four invariants of the service process, `TypeOK`,
`PanicNeedsLateTick`, `RepliesTruthful` and `StartHonest`, for every set of topics that
HVS uses and any number of concurrent HTTP requests. The steps of the NATS service are
those of `OutboundService`, whatever the process does around them, so the invariant
`LifecycleInv` has two halves. That of the NATS service says that, until `Start` and the
deploy-manifest callback have met at `err`, each of them finds there what it put there
(`ErrInv`), and that the topics subscribed are a prefix of the list (`StartInv`). That
of the process says that a tick during an attempt, or an attempt after `quit` was
closed, is a late one (`RetryInv`). Assumed: the requested topics exist, and the bound
on requests is a number.

`ConfigProofs` proves `SetUpServes`, `RegisteredPort` and the action property `UnsetKept`
for all host ids, ports and environments. `ConfigInv` consists of

* `TaskInv`: what a process still has to do is the end of the task list of its command
  and mode;
* `MemoryInv`: the configuration in memory differs from the file only in what the
  command and its environment set. `UnsetKept` and `RegisteredPort` follow from it;
* `ProgressInv`: what the tasks that are done have established, by the number of those
  that are left;
* `ReadySaved`, `ReadyMode`, `ReadyCredential`, `ReadyCertificate`: what a complete setup
  left is still there, or is being replaced, or was cut short when it was. A failure
  changes none of the history variables but `unsaved`, so each of them has to hold at the
  point where the process is stopped. `SetUpServes` is what remains of them when no
  process runs.

Assumed: the default port is valid, ports are integers, and the values that stand for no
host id or a torn file are no host ids.

`PcrBanksProofs` proves `ActiveBanksKept` and `OneInactiveBankStripped` for requests of
any length over any banks. The invariant of the first is that there is a map from the
slice to the request (`Origin`); a removal at `i` composes it with the shift of what
follows. That of the second is that either nothing has been removed and all banks before
`i` are active, or the one inactive bank was, and the array is the request shifted from
there (`Removed`).

`EventLogProofs` proves `IntactLogsPublished`, `TruncationSafe` and `StaleOnlyIfTorn` for
every set of hosts: logs of any length, memory of any size and content, any digest sizes
and algorithms, and every bound of sizes. It is the longest proof, because the properties
compare what a loop has computed with the encoding of a whole list. It has four parts.

* *What the operators compute.* `FlattenSeq` is a recursive function, and the library's
  induction theorems take an operator. `SetInduction` is induction over a set of numbers
  instead, derived from the well-foundedness of `<`; from it follows `Fits`, a table of
  where each part of a flattened sequence begins and ends. `DigAt`, `RecAt` and `EntAt`
  are these tables for the digests of an event, the records of a log and its entries.
* *What is read at such a place.* The cells of a log, or of the beginning of one, agree
  with the encoding as far as they go (`ReadsAs`). At the beginning of a piece, `Next`
  returns the piece, or less if the memory ends, and then nothing is left (`Spells`).
* *The loop.* `Reading` says that the groups hold exactly the entries published so far
  (`Tracks`), that these are the first of those wanted, and where the loop is: at a
  record, after some digests of an event, or after some of its publications. In each
  case `offset`, `buf`, `index501` and `rec` are those of that place. A log that is cut
  off follows the same invariant; it differs only in that the tags of the last event may
  be those of shorter data, and in that the loop may end early. That is why
  `TruncationSafe` compares events without tags. `SizeFits` and `SizeEnds` relate the
  unsigned `size` to the end of the log: the loop does not stop before it and, if nothing
  follows, not after it.
* *The aggregate.* `EventLogInv` is the inductive invariant. `Control` says which parser
  is where; `Gathered` that `eventLogs` has three parts, one for each parser that has
  ended, each of which tracks its log if that was intact (`UefiDone`, `TxtDone`,
  `AppDone`); `Written` what is on disk; `UefiLoop`, `TxtLoop` and `AppLoop` that the
  running parser is in the state of the third part; and the last conjunct that `init`
  panicked only if a log was torn, not covered or has unreadable data. Two bridges lead
  from the properties to the loops: `TagPanics` (`getEventTag` panics on complete data
  only if it is of one of the three kinds of `Unreadable`) and `ReadableRead` (records that are
  in the container and covered are in the cells the agent reads, `TxtRead`).

`MeasureProofs` proves `NothingLeft` for any number of processes, manifests and
directories: as long as one of the two names exists and nobody was killed, a process runs
that will remove it (`OwnedInv`); for the result that is one that has not removed it yet
(`Owner`).

It also proves `SoloMeasurement`, from `MeasureAssumption`, for manifests, lists and
buffers of any length and any number of processes before, after and beside. The inductive
invariant `MeasureInv` is needed because the property speaks of a process that has ended
and its two streams decide about the result long before:

* `SoloInv`: while a process in `alone` runs, nobody else does; for such a process `Solo`
  says what its files hold at each place of the program, and when it has ended its result
  is right.
* `Writes`: the file and the buffer of the result stream are together the header and what
  was hashed, whatever `WriteBlock` is (`EmitWrites`, and `CloseSolo` for the whole).
* `Measures(p, cells, items)`: the cells are those of the items, in their order. It is
  stated by rank and not by recursion over the manifest, so that the next path extends it
  by one (`MeasuresNext`) and the end of an entry leaves the items the same (`BeforeWrap`):
  no induction over the manifest is needed.
* `Streams`: a search of files still has its list, and the buffer is the part of it from
  the matches that were taken to the offset of the stream. A search of directories has the
  rest of its list in the buffer, because the list file may have become that of a
  directory; when the buffer is empty all matches were taken, and what is read from then
  on are names that are no directories. The first block holds the list and those names are
  harmless by `SearchesFit`, the only place where it is used.
* `LinksInv`: the two names are different inodes. A truncation keeps the other file
  (`TruncateMakes`), and there is always an inode for a new file, by counting those that
  processes and names can hold (`FreshInode`).

Only model-checked:

* the liveness properties `RetryProvisionsUnlessWedged`, `StopEnds`, `ReportRequested`,
  `RetryEnds`, `InitEnds` and `MeasureEnds`: fairness is beyond the proof system.

## 6. Not modelled

Not modelled, and why:

* permissions and the refresh of JWT certificates (`service/webservice.go:172-279`): the
  state is that of a middleware in another repository, and the code here hands it one
  callback, which downloads a certificate;
* `platform-info`, and the commands `start`, `stop` and `status`: one external command
  each, with nothing kept in between;
* the handlers that return one file (AIK certificate, binding key certificate, host
  information, version) and the utilities they use: they read and change nothing;
* installers and boot-entry scripts (file copying), the REST documentation, log
  formatting;
* the cryptography inside the TPM, HVS and the privacy CA handshake, which is reduced
  to "certifies the key the TPM holds".
