# Specifications of multi-networkpolicy-tc

multi-networkpolicy-tc is a Kubernetes daemon that runs on every node and
enforces the egress part of MultiNetworkPolicy objects on secondary networks
whose pods are attached by SR-IOV or accelerated bridge VFs.  For every local pod and
every such interface it keeps a list of tc flower filters on the VF's
representor.  This directory holds TLA+ models of its logic, the TLC runs that
check them on small instances, and proofs checked by TLAPS.

`PROJECT.json` lists the components, the runs, the source lines each
definition stands for, the hazards of the code and the properties that look
at them, and the theorems.  Everything is run in this directory:

    tlc -config MCServerSync.cfg MCServerSync
    tlapm ServerSync_proofs.tla

## 1. Inventory

The parts, with what they keep, what they do, what is hard about them and what
makes them correct.

### 1.1 Informer configurations (`pkg/controllers/{pod,namespace,networkpolicy,net-attach-def}.go`)

* *State*: a client-go informer per kind; none of their own.
* *Operations*: `Run` waits for the informer's cache and calls `OnXSynced`;
  `handleAddX`, `handleUpdateX`, `handleDeleteX` pass each event to the server.
* *Interactions*: called by the informer's goroutines, call Server's handlers.
* *Hard*: `HasSynced` of the informer says that the initial list is queued
  for the handlers, not that they have seen it.  Resyncs, missed deletions
  and a restart of the watch show up as updates.
* *Correct* if every change of the cluster ends in a tracker, in order, and
  `OnXSynced` means what its comment says.

### 1.2 Change trackers and maps (same files)

* *State*: per kind `items`, one pending change per name (previous and current
  information); the map the server owns; for pods, a reference to the tracker
  of network attachment definitions, which has a map of its own.
* *Operations*: `Update(previous, current)` folds an event into the pending
  change and drops a change that leads nowhere; `XMap.Update` applies and clears
  the changes.
* *Hard*: any number of events between two applications; the same events seen
  by two goroutines under one lock; pod information that also depends on
  attachment definitions that come, change and go independently.
* *Correct* if applying the changes always gives the informer's last word.

### 1.3 Server (`pkg/server/server.go`)

* *State*: four trackers, three maps, the flags `nsSynced`, `netdefSynced`,
  `policySynced`, `podSynced`, `initialized`, the channel `startPodConfig`, the
  bounded-frequency runner, `podsWithRules`.
* *Operations*: `Run`, `RunPodConfig`, `SyncLoop`, the twelve event handlers,
  `OnXSynced`, `Sync`, `syncMultiPolicy`, `deleteStalePodInterfaceRules`.
* *Interactions*: informers' goroutines request syncs from the runner, the
  runner's goroutine reads the maps, renders, generates and actuates.
* *Hard*: handlers read flags outside the lock, requests merge, the maps of
  one sync are of different instants, one pod's failure must not stop
  the others, and everything but the kernel is lost in a crash.
* *Correct* if no delivered change is left out of the maps or the kernel with
  nobody left to see to it, if pods are programmed only once all kinds
  are known, and if the kernel converges once the cluster stops changing.

### 1.4 Policy rule renderer (`pkg/policyrules`)

* *State*: none; one call per pod per sync.
* *Operations*: `RenderEgress` makes, for each interface of a pod, a list of
  pass and drop rules out of all policies that apply; `RenderIngress` is not
  implemented.
* *Hard*: policies come in random order; several policies apply to one
  interface and one policy to several; empty means "everything" in one place
  and "nothing" in another; peers are pods whose namespaces may not be known yet.
* *Correct* if the traffic the rules let out is what the CRD says, and if
  the result does not depend on the order of maps.

### 1.5 TC generator (`pkg/tc/generator`)

* *State*: none.
* *Operations*: `GenerateFromPolicyRuleSet` turns one interface's rules into an
  ingress qdisc and flower filters with a priority per action, family and tag.
* *Hard*: each verdict needs a filter per family and with and without VLAN
  tag; the kernel accepts one protocol per priority; nil and empty rules
  differ.
* *Correct* if the filters, tried by priority, let out what the rules say.

### 1.6 TC actuator (`pkg/tc/actuator_tc.go`, `filterset.go`)

* *State*: none between calls; the kernel's qdiscs, chains and filters.
* *Operations*: `Actuate` compares the representor's filters with the wanted
  ones, removes what is not needed and adds what is missing.
* *Hard*: traffic flows between two calls; each call may fail, and then
  nothing is undone; what is found may be anyone's.
* *Correct* if success means the kernel is as wanted, a failure leaves
  nothing that a later call does not repair, and traffic that neither the old
  nor the new policies allow is not let out in between.

### 1.7 TC drivers and types (`pkg/tc/driver/*`, `pkg/tc/types`)

* *State*: none; the netlink library and the `tc` command.
* *Operations*: list, add and delete qdiscs, chains and filters; conversions
  between the types of `pkg/tc/types` and the kernel's.
* *Hard*: what is written must read back equal, or the actuator rewrites it in
  every sync; foreign filters in the listing.
* *Correct* if the round trip is the identity on the generator's filters.

### 1.8 The rest

`actuator_file_writer.go` (a listing of the rules for humans), the wrappers of
the netlink and sriovnet libraries, command line options, signals, `main`.

## 2. Modules

| Module | What it models | Builds on |
|---|---|---|
| `SnapshotView` | what a tracker with its map promises: an update makes the map equal to all that was reported | |
| `ChangeTracker` | the four trackers and maps, one model for four copies of the code | implements `SnapshotView` |
| `ServerSync` | informers, handlers, start-up, sync loop, kernel, crash and restart | trackers represented by `SnapshotView` |
| `Actuator` | `Actuate`, one driver call per action | |
| `Generator` | `SimpleTCGenerator`, and the kernel's classifier | |
| `Renderer` | `RenderEgress`, then the generator, for one pod | extends `Generator` |
| `PodTracker` | pods' events converted while attachment definitions come and go | the definitions' tracker represented by `SnapshotView`; for who a pod is, implements `SnapshotView` |
| `SyncPods` | `syncMultiPolicy` pod by pod and interface by interface, while pods are replaced; the directory of rules | the pods' tracker represented by `SnapshotView` |
| `Driver` | `Actuate` through the netlink or the command line driver: what is written and what is read back | extends `Generator`, implements `Actuator` |
| `MC*` | instances for TLC | |
| `*_proofs` | theorems | |

### 2.1 ChangeTracker

`items` is the tracker's map of changes and `view` the map it feeds;
`delivered` is the object the informer last passed to the handler, which is
what client-go passes as the old object of the next event.  `OnAdd`,
`OnUpdate` and `OnDelete` are the three handlers up to the tracker's `Update`
(one step, since it is under the tracker's lock), `Apply` is `XMap.Update`.
`ToEntry` may be `Nil`: `newNetDefInfo` fails for an unreadable
configuration and an attachment definition with no map entry is then the same
as none.  In the maps of the other kinds the conversion never fails.  An object
converts to the same entry each time (section 6 names the exception).

### 2.2 ServerSync

State outside the daemon: the cluster (`api`) and, per local pod, the
maps that its rules in the kernel were rendered from (`kernel`).  That is all
the rules depend on, so the properties can say "up to date" without the
rules themselves; `Renderer` and `Actuator` say what happens in between.

Per kind there are three goroutines: a reflector (`List`), one that waits for
`HasSynced` and calls `OnXSynced` (`OnSynced`), and one that calls the
handlers.  A handler is two steps, `Handle` (the tracker's `Update`) and
`RequestSync` (it looks at a flag and calls the runner): anything may happen
between them.  The sync loop is `StartLoop` (the poll of `initialized`, the
first `Sync()`), `RunOnRequest` or `RunOnTimer`, three updates of maps in the
order of the code, and one `ProgramPod` per pod of this node, which first
updates the pods' map again as the code does.  `Crash` loses everything but
`api` and `kernel`.

Each kind's `OnXSynced` looks at the flags of the others, so all four kinds
take part even in the instances with objects of two kinds only.

### 2.3 Actuator

One action per driver call, in the order of `Actuate`.  `kernel` is the
representor's ingress qdisc and the filters of chain 0; `wanted` is what the
generator makes of the policies at the moment and may change at any time,
`target` is the argument of the running call.  `Abort` is a driver call that
fails (the code returns its error) or the death of the daemon: nothing is
undone, and the properties of what packets meet speak of what is left, too.  The lists of filters keep their order where it matters: removal in
the order of the kernel's listing (by priority), addition in the order of the
generator (the defaults, then rule by rule).

### 2.4 Generator and Renderer

A rule has CIDRs, ports and an action, a filter has what the code puts in
it.  A CIDR is the set of addresses in it and an address is of one of two
families; a label selector has wanted and unwanted labels, where the second
stand for selectors that `LabelSelectorAsMap` refuses to convert
(`matchExpressions`).  `RenderPolicy` is one turn of `RenderEgress`'s loop over
the policies, in any order; `AppendEmpty` adds the interfaces to which no
policy applies; `Generate` makes the filters of one interface.  `Admits`
is the kernel's classifier: the matching filters of the best priority decide,
a packet that nothing matches passes.

The second half of `Renderer` is the CRD's meaning of the same policies
(`Allowed`), written from `deploy/crds/multi-net-crd.yaml` and not from the
code.  `Plain` names the policies for which the two are to agree; what it
excludes is the subject of the run `crd` and listed in section 5.

### 2.5 PodTracker

A pod's event is several steps under the pod tracker's lock: `StartUpdate`, one
`GetPluginType` per network of the annotation, for the previous object
(`ConvertPrevious`; only when there is no pending change yet) and for the current one
(`FinishUpdate`).  Definitions are delivered by another goroutine between any
two of them (`DeliverInitial`, `ChangeDefinition`), so one object may be
converted with definitions of different instants; `netdefMap` equals what was
delivered after each lookup, which is what `ChangeTracker` says.
`undisturbed` is a history variable: the pods since whose creation no definition
was delivered, the only ones whose interfaces the code keeps right.  Who a
pod is (UID, labels, node and the rest that only the pod's object says) does not
depend on definitions: for that part of an entry, `IdentityOf`, tracker and map keep
the promise of `SnapshotView` without exceptions (`Who`).

### 2.6 SyncPods

`cluster` is what the API server has and `podMap` what `GetPodInfo` and `List`
see: every look at the map comes right after an update of it, so it equals what
the handlers were last told (`ChangeTracker`).  A handler is one step
that requests a sync (`Handle`): the gap between the tracker's change and the
request is the subject of `ServerSync`, which shows that it loses nothing.  A
pod is its UID, whether it is scheduled here, and its VFs; the rules of a
representor are known by the pod whose they are (`rep`), the rule files by
UID and VF.

`Begin` lists the pods; for each pod of the list, `SkipOtherNode` looks at the
node as listed, `Visit` reads the pod again and renders, `Program` is the turn
of one rule set (representor, generator, actuator, file), and `DeleteStale`
ends the sync.  Each of them may fail where the code logs an error and goes
on: a failed `Program` leaves the old rules or a part of the new ones, a
failed `Save` a missing directory or an incomplete file, a failed `DeleteStale`
some directories.  `Crash` loses everything but the cluster, the kernel and the
files.  `undisturbed`, `served` and `hurt` are history variables: of which
pods nothing was handled since the sync began, which of their interfaces were
programmed, and which failed.

### 2.7 Driver

The same control as `Actuator`, over the kernel's own filters.  `Entry` is a
filter as the kernel has it: a kind, a protocol, the match keys, with those
that the program never reads summed up in `hidden`, an action and a handle.  `Generable`
are the filters that the generator can make.  `WrittenBy` is
what a driver makes of one, `ReadingBy` what it makes of a
filter in the listing, `Comparable` what of that `Equals` compares;
`Written` and `Reading` are those of the driver in use.  The two
drivers differ in the frame's type behind a VLAN tag, in port 0, and in what they
do with kinds of filters and of actions that they do not know (`Unlistable`); an
action of the kind `gact` that neither passes nor drops is listed by both.  Of what others
left in the kernel two things are said.  `FoundAssumption` is the kernel's:
handles differ within a priority, and a filter's types and addresses are of one family
(`Agree`).  `FoundApart` is a restriction: no two filters found
read alike, nor does one read like what is written for an exceptional filter.  Of
filters that read alike `Actuate` keeps the first in its set and removes no
other in that call, so that success may leave the second one behind.  `Refuses` is
the kernel's answer to a filter whose match keys it has already in that
priority, whatever the action, or whose kind or protocol is not the one of
its priority.

`Actuation` is `Actuator` with its filters being what `Equals` compares, and
`ImplementsActuator` says that every step of `Driver` is one of `Actuator`'s,
with two exceptions: a call that the kernel refuses, which in `Actuator` is
one of the bounded failures, and calls whose target has a filter that does
not read back as it was written.  `OnlyKnownExceptions` says which those are.
What the refinement leaves to refused calls, `EventuallyEnforced` looks at: filters
of others are removed or do not matter, and what is wanted gets in, unless one
of them is `InTheWay`, and then no retry helps.

## 3. Runs

| Run | Instance | Question |
|---|---|---|
| `tracker` | 2 names, 3 contents (one does not convert), unbounded events | Does folding lose events?  Does the pair implement `SnapshotView`? |
| `sync` | a namespace and two local pods, two contents each, one change, one failure, one crash | Can a wake-up get lost between handlers, maps and kernel?  In what order do things start? |
| `converge` | a policy, a local and a remote pod, two contents each, a change, a failure, a crash | Do events alone bring the kernel in line, and the timer what failed? |
| `actuator` | 7 filters, 6 targets, every content of the kernel, two changes, two aborts | What does traffic meet between two calls, what does success mean, do retries come to an end? |
| `pods` | a pod name with 2 UIDs and 6 contents, 2 networks, a supported and an unsupported type, a late and a changed definition | When do a pod's entry and the definitions agree?  Does the map follow who the pod is, whatever the definitions do? |
| `policies` | all sets of up to 3 of 17 policies, with and without peers, with and without one namespace | Is what the filters admit what the CRD says? |
| `sync_pods` | two pod names, two VFs, three pods over time, an update or deletion, a failure or crash | Whose rules does a representor have, whose files are deleted, and whom does a failure hurt, when pods change under the loop? |
| `driver` | either driver, 6 generated targets and none, 5 contents of the kernel left by others, one change of the target, one abort | Does what is written read back equal, what does success mean to packets, and which filters of others keep the wanted ones out for good? |
| `synced_means_delivered`, `initial_definitions`, `actuator_except`, `crd` | as small as they can be; `actuator_except` from the default drops alone to a block with an exception | Expected violations, see section 5 |

**Bounds.**  `MaxChanges`, `MaxCrashes`, `MaxFails` and `MaxAborts` cap what
comes from outside; the daemon itself is not bounded.  In `ServerSync` one
change suffices to put an event at any point of a sync or of the start-up,
where late initial events race with it; the theorems do not need the bound.  A
crash may happen in any state, and what follows it is a start with rules in the
kernel.  In `pods` a definition of each network may be late, one changes once
more, and the UIDs are those of a pod and of one that replaces it: each pod
name is treated by itself.  Two names in `tracker` suffice because
the code treats each name by itself (the proofs do not need the bound).  The
filters of `actuator` are one pass and one drop of an old and of a new policy
over the same excepted block, defaults for both families and a foreign filter:
the smallest list in which removal order, addition order and priorities matter
separately.  In `sync_pods` three pods suffice for one to be replaced under its
name while another holds, or takes over, its VF, and the one failure or crash may hit any
step before or after that; a pod that is replaced by one of another node and
comes back needs no more than the same three.  The targets of `driver` contain
what the drivers treat differently: both families, tagged and untagged, ports
0 and 80, two filters in one priority of which one goes, a CIDR of prefix
length 0 alone, with an exception and beside an allow-all rule.  What others left is a filter of
another kind, out of the way or at one of the generator's priorities, one with
another kind of action, one with another action of the kind `gact`, one of another
protocol at one of the generator's priorities, and two with keys that are not read, of
which one otherwise agrees with a generated filter.  The 17 policies of `policies` have one reason each: deny-all,
allow-all, ports with and without protocol, blocks with exceptions and
malformed CIDRs, every combination of pod and namespace selectors, policies of
other pods, namespaces and networks, defaulted policy types, ingress only and
SCTP; three at a time because merging is pairwise and a third one meets
a merged list.

Deadlock is checked except in `Renderer`'s runs: one call of `RenderEgress`
and the generation that follows come to an end.

**Fairness.**  `FairSpec` of `ServerSync` assumes weak fairness of each kind's
informer and of the sync loop.  They are goroutines that block only on
channels and locks which are held for a bounded time; disjunctions of one
goroutine's steps are fair as a whole, which is what a scheduler gives.
`Informer(k)` lumps the three goroutines of a kind: their steps do not
disable each other for good, and each is used up when taken (a list, a
synced flag, a finite queue), so fairness of the lump is fairness of each.
Nothing is assumed of the cluster, of crashes and failures, or, in
`FairSpec`, of the timer; `TimerConverges` assumes in its own formula that the
runner's 30-second timer fires, which is what `async.BoundedFrequencyRunner` was created with
(`server.go:318`).  `FairSpec` of `Actuator` assumes that `Actuate` runs to its
end and that it is called again, which is the sync loop's timer; that of `Driver`
the same, a refused call being an end.  `FairSpec` of `SyncPods`
assumes that the handlers are called for the pods that are there after a start,
that the loop goes on, and that its timer fires: the same goroutines and the same
runner; pods, failures and crashes are free.  All the
liveness runs bound the failures: with infinitely many nothing converges.

## 4. Proofs

All theorems hold for every value of the constants that satisfies the
assumptions named in the module, which TLC evaluates on each run:
`TrackerAssumption`, `ServerAssumption`, `ActuatorAssumption`,
`GeneratorAssumption`, `RendererAssumption`, `PodTrackerAssumption` with
`NilAssumption` (`Nil` is none of the values it stands in for),
`SyncPodsAssumption`, `DriverAssumption` (what is wanted could have been
generated; the names of fields' values are distinct) and `FoundAssumption`.  Two
theorems of `Driver_proofs` have `FoundApart` (section 2.7) as a hypothesis, which
`MCDriver` assumes and TLC evaluates as well.

* **ChangeTracker_proofs**.  The inductive invariant is `TypeOK` and, for each
  name by itself: without a pending change the map holds the conversion of what
  was delivered; with one, the change starts from the map's entry, ends at that
  conversion, and the two differ.  `NothingLost` and `ChangesStartAtView` follow at
  once.  `Refinement` uses it twice: a handler's step is `Report`, and `Apply`
  is `Refresh` because applying the pending changes gives `truth`.
* **ServerSync_proofs**.  The invariant is `TypeOK`, `Startup` (the flags agree
  with each other and with the loop), `MapsStaleIsOwed` and
  `KernelStaleIsOwed`.  `Startup` is what makes a dropped request harmless: a
  handler that finds its flag unset finds the loop not started, and the loop
  starts with a request of its own.  A request taken from the channel is
  served by a sync that still has every map to update, and a pod that is not on
  a sync's list was not in the pods' map when the list was made, so that its
  event is owed another sync.
* **Actuator_proofs**.  The invariant says that `Actuate`'s local variables
  describe the kernel: the branch taken fits the target, `toRemove` and `toAdd`
  are what separates the kernel from the target, the kernel lies between what was
  found and the target, and nothing is added before all removals.
  `ClosedOnTheWay` needs in addition that the default filters match every packet,
  that filters of one priority have one action (which `PrioritiesDecide` of
  `Renderer` checks of the generator), and the defaults' place in the list.  That no
  verdict changes that one filter gives before and after (`CommonVerdictsStay`)
  needs only that the kernel lies in between.  `OldOrNewWithoutExceptions`
  says when what `actuator_except` refutes does hold: if, before and after, no drop
  filter comes before a pass filter that matches the same packet.
* **Renderer_proofs**.  The assumption is that the input is well formed
  (`WellFormed`: objects of the declared kinds, peers that are either a block or
  selectors).  The invariant says that the rule set of each interface is the
  union of the rules of the policies visited so far that apply to it
  (`Collected`), which is why the order does not matter (`OrderIndependent`).
  `GeneratedVerdict` says of every set of rules that the generated filters
  admit a packet if and only if a pass rule covers it and no drop rule does;
  it needs the priorities to tell actions and protocols apart (`Priorities`).
  `Enforcement` composes the two with the CRD's meaning of plain policies, rule
  by rule and peer by peer; `TypeCorrect` and `TagBlind` follow on the way.

* **PodTracker_proofs**.  `Update` computes the entry a change starts from anew
  from the previous object, so it need never have been in the map.  The
  invariant has two layers.  `Identified`: that entry agrees with the map's on who
  the pod is, and a change's end with the pod's object; so a change is dropped
  only if the map is right about that.  `IdentityIsFresh` and the refinement of
  `SnapshotView` rest on this layer alone.  `Defined`, of the pods in
  `undisturbed`: all lookups of the conversion under way agree with the
  definitions, and a change starts from the map's entry or from that of an
  earlier pod of the name, which has another UID (UIDs are handed out in
  order, `Numbered`) and cannot be mistaken for the one it ends at.
  `PodsSeeDefinitions` follows.  `ChangesRepair` looks at the step that ends an event
  and needs the first layer only: the entry a change starts from agrees with the
  map's on who the pod is, so if the pod is someone else after the event, the change
  is not dropped.
* **SyncPods_proofs**.  The invariant is about the pods of which nothing was
  handled since the sync began: the list and what `GetPodInfo` returns agree on
  them (`ListFits`), and each is on the list, under way, or done with, failures
  apart (`Progress`).  `EveryPodServed` is that at the end of the list.  Without a
  request pending these are all pods, and a VF that one pod has alone is then
  programmed in its turn only (`LastProgrammed`), whence `QuietMeansProgrammed`.
  `LiveRulesKept` needs, beside `Progress`, that files are deleted after the list
  is through.  The failures may be anywhere and as many as one likes.
* **Driver_proofs**.  `RoundTrip`: a filter that could have been generated reads back
  field by field from what was written, the exceptions apart;
  `GeneratedAreGenerable` says that the generator makes no others, and
  `KnownExceptions` is the two together.  `Base` holds whatever was
  found: the local variables fit the program counter and the target (`Phases`),
  handles tell filters apart, the entries are finitely many (so that the handle
  the kernel picks is a new one), and what is to be removed reads like nothing
  wanted (`RemovesUnwanted`); `WantedFiltersStay` follows from it.  Under
  `FoundApart` no two entries ever read alike (`Apart`), because of what the
  daemon writes the kernel refuses the second; so what `Actuate` sees is all
  there is, and between listing and success the entries are the target's but for
  what is yet to be removed and added (`Differences`).
  `SuccessIsEnforced` is then a lemma on the classifier: an entry that serves a
  filter matches the packets the filter matches.  `Refinement` maps each step to one of
  `Actuator` or a stutter.  `ActuatorFits` states `Actuator`'s own
  assumption of the generator's filters, with the packets they match, so that
  the theorems of `Actuator_proofs` are about the filters the code makes; they
  are not restated for them, since the prover does not take theorems through an
  `INSTANCE`.

Only model-checked: liveness (`EventsConverge`, `TimerConverges`,
`EventuallyApplied`, `Converges`, `EventuallyEnforced`), which under fairness is out of the prover's
reach.  Every other property of a passing run is stated by a theorem.

## 5. Where the code and the documentation differ

Each is a run that is expected to violate one property; `PROJECT.json`
("findings") quotes the lines.

1. `OnXSynced` "is called once all the initial event handlers were called": it
   may be called before (`synced_means_delivered`).  The first sync after a
   restart may then render a pod's rules without a policy that exists all along;
   the next sync, which the late event requests, repairs it.  An attachment
   definition that comes later than the pods that use it is not repaired: the pod's
   entry lacks the interface until a change of who the pod is reaches the map
   (`initial_definitions`), where a change that leads back to what the map has before
   the map is updated is none.
2. Pass filters of a block are added before the drop filters of its exceptions.
   In the run a deny-all policy is replaced by one with an exception, and
   packets of the excepted block are let out between the two calls
   (`actuator_except`); if the second one fails, nothing undoes the first, and they
   stay let out until a later sync succeeds.  Without exceptions this cannot happen
   (`OldOrNewWithoutExceptions` in `Actuator_proofs`).
3. `policyTypes` is not looked at: a policy for ingress only closes the interface
   for egress (`crd`, first interface).
4. The exceptions of one block override all other rules and policies of the
   interface (`crd`, second interface).
5. A rule with ports whose selector peers select no pod on the network lets
   those ports out to every destination (`crd`, third interface).
6. A rule whose ports are all of a kind that is not supported lets all ports out
   (`crd`, third interface).

The runs that pass show some more behaviours that a user of the daemon would
want to know of.  No document says otherwise, so they are not findings; the
properties name them as their exceptions.

* A pod that is deleted and created again under its name while a sync runs is
  programmed with its old entry on the list: its new directory is then
  deleted as stale, or its old one kept, and if the new pod is on another node, its rules go to a
  representor of this one if it has a VF with the same address.  The pod's
  own event has requested another sync, which repairs the directories
  (`OnlyReplacedPodsAreStrangers`, `QuietMeansProgrammed`, `Converges`); the rules on a VF
  that no pod of this node has stay.
* When rendering fails for a pod, its directory of rules is deleted although
  the rules in the kernel stay (`LiveRulesKept` excepts this case).
* Interfaces that stale definitions gave a pod stay through resyncs, and through
  changes of the pod that are taken back before the next sync updates the map:
  such a change is dropped, although it was converted with the new definitions
  (`ChangesRepair` speaks of the other events only).
* A directory keeps the file of an interface that its pod has lost.
* Port 0 through netlink is all ports; a block of prefix length 0 is
  rewritten in every sync, and refused by the kernel beside a rule for all
  destinations with the same ports (`OnlyKnownExceptions`).
* With the command line driver, one filter of another kind or with another kind of
  action stops every later `Actuate` of a non-empty list on that representor.  With
  either driver, a filter of another kind at one of the program's priorities makes
  every `FilterAdd` there fail.  The other filters of the run are
  removed or do not matter (`EventuallyEnforced`).
* A filter of others that agrees with a generated one in all that the drivers
  read is taken for it (`SuccessIsEnforced` excepts this case).
* Of several filters of others that read alike, one `Actuate` removes one only and
  reports success; the next sync removes the next (`FoundApart` excludes this
  case from the proofs).

## 6. Not modelled, and why

* The files that `newNetDefInfo` reads the configuration of an attachment definition
  with an empty spec from (`net-attach-def.go:223`).  If they changed, the
  previous object of an update could convert to something else than the map
  has.  `deploy.yaml` does not mount their directory, so that there this
  conversion always fails.
* A race between readers of `netdefMap`: there is none,
  every lookup is made under the pod tracker's lock, as in `PodTracker`.  In
  `ServerSync` definitions are only a kind that takes part in the start-up
  protocol and requests syncs.
* The text of the rule files, wording, logs, command line, and the wrappers of
  libraries: no logic of this program.
* `CheckNodeNameIdentical` compares names up to the first dot.  In `SyncPods`
  it is a fact of the pod (`here`), which a pod that is replaced may change.
* Handles of qdiscs and chains, which are read and never used; chains other
  than 0, which the program never makes and, with a qdisc in place, does not
  look at; hardware offload.
* IPs as bytes: that a CIDR has two representations, of 4 and of 16 bytes, which
  `Equals` takes care of, is below the sets of addresses in `Generator`.
* `RenderIngress`: not implemented in the code.

## 7. Plan

Modules, in the order in which they were or will be written:

1. `ChangeTracker` with `SnapshotView`; `ServerSync`, which uses what the first
   is proved to implement; `Actuator`; `Generator` and `Renderer`; `PodTracker`.
   (Done.)
2. `SyncPods`; `Driver`, which implements `Actuator`.  (Done.)
3. A composition of `Renderer`, `Actuator` and `ServerSync`'s loop on one pod:
   from an event to the packet.  Property: once converged, the representor
   admits what the CRD says.

Abstract specifications: `SnapshotView` (done), `Actuator` for `Driver` (done), and for the composition "the
representor jumps from one enforced state to the next, or stands still",
which `Actuator` implements when it does not fail.

Theorems to prove, all safety properties of the runs being done: with the
composition, that what it promises of the packet follows from `Renderer`'s and
`Actuator`'s theorems.
