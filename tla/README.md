# Bitcoin Cache Machine: TLA+ specifications

Bitcoin Cache Machine (BCM) is a set of bash scripts that turns a machine with
LXD into a small data centre: LXC hosts that run dockerd, joined in one docker
swarm, and docker stacks (tor, bitcoind, clightning, ...) on top. There is no
daemon and no database. The state is what LXD, dockerd and the file system
hold; every script looks at some of it, issues commands under `set -e`, and
ends at the first one that is refused. What makes the system hard is therefore
what a script leaves behind when it does not get to its end, and what the next
script takes that for.

The repository also holds the project's website, a jekyll theme with JavaScript
of its own kind of difficulty: handlers, timers and answers that come in any
order, over state that one handler reads and another has changed.

The modules here model both. For the scripts: the commands as atomic steps,
what LXD or dockerd refuses, runs that are cut short anywhere, hosts and
containers that go down, several operators at once, and repeated runs as the
only recovery. For the website: one action per handler, timer or message, with
all that it calls. They are checked with TLC on small instances, and what is
safety in them is proved with TLAPS for any number of sessions, chains, faults
and messages, for every deck and every form.

All paths below are relative to the repository.

## 1. Inventory

### 1.1 Components

| Component | State it keeps | Operations | Modelled in |
|---|---|---|---|
| Template image (`project/create_bcm_host_template.sh`) | LXD: network `bcmbr0`, container `bcm-template`, its profiles and snapshot, image `bcm-template` | one script, called by `deploy.sh` when the image list lacks the image | `HostTemplate`, promise `HostImage` |
| Deployment (`bcm`, `project/deploy.sh`, `project/tiers/**/up.sh`, `create_tier.sh`, `spread_lxc_hosts.sh`, `wait_for_dockerd.sh`) | LXD: project, profiles, networks, volumes, hosts; swarm: members, registries, kafka services, toronion | running `bcm` | `Deploy`, promise `HostLife` |
| Destruction (`commands/tier/entrypoint.sh`, `remove_tier.sh`, `tiers/**/destroy.sh`, `shared/delete_*.sh`) | the same | `tier destroy TIER` | `Teardown` (extends `Deploy`) |
| bitcoind's stack (`stacks/bitcoind/up.sh`, `shared/backup_restore.sh`, `commands/stack/entrypoint.sh`) | docker volumes of the tier's host, backups, the swarm's list of stacks and networks | `stack start`, `stack stop`, backup | `BitcoindStack` |
| Containers of a tier (`stacks/*/build/entrypoint.sh`, `stacks/*/stack/*.yml`) | where each entrypoint is, the tor address it took | start, wait, time out, die | `NodeTasks` |
| clightning, torproxy, toronion stacks (`up.sh`, `stop.sh`) | list of stacks, overlay networks | start, stop | as one step each in `BitcoindStack`, `NodeTasks`, `Deploy` |
| Docker images (`shared/docker_image_ops.sh`) | images in the private registry | pull or build, push | its effect only, in `Deploy` and `BitcoindStack` |
| Kafka quorum strings (`tiers/kafka/*/get_env.sh`) | environment | computing lists of members | not yet |
| Installation (`install.sh`, `uninstall.sh`, `reset.sh`) | loop files and devices, LXD pools and profiles | install, uninstall | not yet |
| VM endpoint (`commands/vm`) | image cache, VM, profile | up, destroy | not yet |
| SSH onions (`commands/ssh`) | lines of the local torrc | add, remove | not yet |
| esplora, rtl | - | both scripts stop before they deploy anything | no |
| git, file, controller, firewall, archive, resources | - | helpers on the operator's machine; no state shared with the deployment | no |
| Slide deck (`js/reveal.js`) | the deck's position, fragments, timers and modes; the page's classes, media, backgrounds, hash | keys, clicks, wheel, touches, hash changes, timers, scripts that arrive | `DeckSlides` (what a handler calls), `Deck` (the handlers) |
| Contact form (`js/clean-blog.js`: jqBootstrapValidation, the form's script) | values, marks, the last check of each field; messages on their way | typing, pasting, focus, blur, submit; answers and timers | `ContactForm` |
| ZeroFrame channel (`js/ZeroFrame.js`) | numbers, waiting callbacks, the key of patched requests | commands, patching, messages of the wrapper | `ZeroFrame` |
| Site search (`js/search.js`) | the index, searches waiting for it, what is displayed | load, submit, the data's arrival | `Search` (extends `ZeroFrame`) |
| bootstrap, three.js examples, `Gruntfile.js`, publication (`bcmweb/*.sh`) | - | third-party code shipped unchanged; build tasks; linear scripts | no |

`js/` is `bcmweb/site/jekyll_site/js/`. `PROJECT.json` lists every component
with the reason where one is left out. What the site does with these four
scripts should be known: it ships them, `_includes/head.html` loads jQuery
2.1.4, and no page as committed calls `Reveal.initialize` or `new ZeroFrame`,
or has a search or contact form. The modules model the scripts as their own API
documents their use, not a page.

### 1.2 How they interact

`bcm` runs `deploy.sh`, which builds the image if the image list lacks it,
makes the LXD project, and deploys the tiers *manager*, *kafka*, *underlay* and
one *bitcoin* tier per chain, each unless its host is `RUNNING`. A tier's
`up.sh` in turn deploys the tier below it first. A host is a container made
from the image with the tier's profile, with a volume for docker's state,
joined to the swarm the manager holds. The base docker image, zookeeper, kafka
and toronion are pushed and deployed along the way. `tier destroy` undoes one
tier. The stack commands then talk to the manager's dockerd, which starts
containers on a tier's host when it gets to it and after the command has
returned; the containers wait for one another by themselves.

Nothing is locked. Scripts communicate only through what they find: names in
`lxc list`, `docker stack list`, `docker volume list`. A script that reads such
a list and acts on it later is the usual hazard, and
`PROJECT.json` "hazards" names each place.

The scripts of the website meet in the browser. A page in ZeroNet's frame posts
commands to a wrapper, which answers by number; with `monkeyPatchAjax` its
ajax requests carry a key the wrapper gave, and `search.js` requests the data it
searches that way. A deck and a form each have the page to themselves: their
handlers run one at a time and to the end, and what comes between them is
what the browser queues: timers, `hashchange`, answers to requests.

### 1.3 What has to hold

* Template: published once, and complete if nothing disturbed it; two sessions
  never publish over each other; a cut-short build can be repeated.
* Deployment: a host never runs on its root disk; no run reports success over
  half a manager; a deployment that was cut short can be completed.
* Destruction: a tier takes down only what is its own; what is broken can be
  destroyed and deployed again.
* bitcoind's stack: block files are never pushed onto those of a node; a start
  repeated often enough ends in a running node; backups are restored.
* Containers: no node talks past tor; each comes up whatever was started first.
* Deck: what the page shows is where the deck is; the auto-slide is armed just
  when it should be, and ends; a touch does one thing; the hash names the
  slide.
* Form: marks are those of the values as they are; nothing invalid is sent;
  verdicts come.
* Channel and search: a callback gets the answer to its own command, once; both
  sides learn of each other; the last search is the one displayed.

The runs and theorems say which of these the code keeps, and for those it keeps
only sometimes, *exactly* when.

### 1.4 Prerequisites no script provides

`Deploy` has a constant `Provided` for what is used and never created: the
storage pool `bcm` and the profiles `bcm_disk` and `privileged` (`install.sh`
makes pools `bcm-sd`, `bcm-ssd`, `bcm-hdd` and profiles `bcm-privileged`,
`bcm-unprivileged`), and `BCM_BACKUP_DIR`, expanded under `set -u`. The runs
take them as provided (`Everything`); the theorems hold for every subset. In
the same way `LXC_HOSTNAME`, which `clightning/up.sh` expands and nothing
exports, is the variable `hostname` of `NodeTasks`, set by the operator or not.

## 2. Modules

A script is a control variable `pc` with one label per command. The operator
`Command(here, next)` (in `Teardown` `Issue`) says that the command at `here`
is accepted and the script goes on at `next`; `Feasible` (`Allowed`) is what
LXD, dockerd or wait-for-it require of it; `Refused` (`Disallowed`) is `set
-e`. `Begin` is the operator running the script from its top. Faults
(interruptions, hosts stopped, joins lost, stacks removed, containers dead) are
bounded by `MaxFaults`, and `faults` counts them. Tests that guard a command,
such as `if ! lxc list | grep ...`, belong to its step. Definitions called
`Bug...` are mutants: the definition that follows each with one plausible
mistake; no specification uses them.

JavaScript runs a handler to its end, and one handler calls a dozen functions
that each change a little. `DeckSlides` therefore writes a function as an
operator from a record of the state to the one it leaves, in the source's order
of calls; an action is the handler's composition of them. `ContactForm` writes
an event, which judges several fields in turn, as one update of all of them:
what a field is judged by, its value and the check that knows that value, no
handler of the event changes for another field. `FormInTurn` has the handlers
in turn, and TLC compares the two (`InTurnAsAtOnce`) before it runs `form`.

| Module | Models | Variables and what they stand for |
|---|---|---|
| `HostTemplate` | `create_bcm_host_template.sh`, any number of concurrent `Sessions`, standalone or cluster | `pc`, `todo` (endpoints still to get `bcmbr0`); `baseImage`, `bridge`, `definedAt`; `template`, `software`, `applied` (profile, network), `snapshot`, `image` |
| `HostImage` | what the rest of BCM expects of the image; `HostTemplate` implements it, `Deploy` uses its steps as the template script | `image`, `disturbed` |
| `Deploy` | `bcm`, `deploy.sh`, every script below it on one endpoint | `pc`, `tier`, `stack` (which script called which: kafka's `up.sh` may call manager's, `Call`/`Return`), `chain`; LXD in `image` ... `dockerless`; the swarm in `member`, `nodes`, `deployed` |
| `HostLife` | the life of an LXC host; `Deploy` and `Teardown` implement it | `phase` |
| `Teardown` | `tier destroy`, extends `Deploy`: deploying and destroying in any order (`AnyOrder`), and an operator's repair (`Runbook`) | those of `Deploy` |
| `BitcoindStack` | `bitcoind/up.sh` with `backup_restore.sh`, stop, and the swarm that starts and stops the task on its own | `pc`, `newInstall`; `volume`, `seed` (what was pushed into `blocks`), `backup`, `backupDir`, `local`; `stacks`, `nets`, `task` |
| `NodeTasks` | the containers of torproxy, bitcoind, clightning and their entrypoints | `listed`, `nets`, `vip`; `step`, `proxy`; `hostname` |
| `DeckSlides` | `reveal.js`: `slide()` and all it calls, fragments, progress, controls, URL, auto-slide | operators on a deck |
| `Deck` | `reveal.js`: loading, every handler and timer, overview, black screen, link previews | `deck` (position `h`, `v`, `shown`, `present`, `resume`, timers, modes, what the page shows), `loader`, `touch` |
| `FormInTurn` | the handlers of a form's event one after the other: the reference for `ContactForm`'s updates | - |
| `ContactForm` | rules read from the markup, judging, asynchronous checks, submit | `form` (`value`, `mark`, `check`, `asked`, `retrigger`, `failed`), `mails`, `box`; `unseen` is history: the fields changed without an event, by a paste or a drop |
| `ZeroFrame` | the page's half of the channel, the wrapper as its environment | `nextId`, `waiting`, `heard`, `promise` (of each `monkeyPatchAjax`), `ajaxKey` (which answer it is), ...; `up`, `owes`, `gave`; `toWrapper`, `toPage` |
| `Search` | `search.js` on a page with the channel, that awaits the promise of `monkeyPatchAjax` or not | `carried`, `data`, `pending`, `shown`, `last` |
| `MC...` | definitions for TLC's constants | |
| `...Proofs` | theorems and proofs | |

Each definition's source lines are in `PROJECT.json` "map".

**External parts.** LXD, dockerd and the swarm are not in the repository. What
they refuse is in `Feasible`/`Allowed`, from how the scripts use them: a device
cannot be added twice, a snapshot name not taken twice, a running container not
deleted, an instance not made without its image or profile, a stack not
deployed without its external networks. The swarm acts on its list whenever it
gets to it (`StartTask`, `StopTask`, `StartContainer`, ...). The browser
(`TouchCancel`, `HashEdited`), ZeroNet's wrapper and the servers behind ajax
requests are external too; messages a side posts arrive in order and are lost
if the other does not listen yet.

**Abstractions.** Names are the tiers and chains themselves. Contents are what
a later step can tell apart (an image is `bare`, has `docker`, or is `ready`; a
profile is `empty` or `full`). `Deploy` takes the template script as one step
with the outcomes `HostTemplate` shows it has; `StartOther` and `NodeTasks`'
deployments take the one-command scripts of the small stacks as one step.
The volume of a host and the data in it go together. A deck is a grid of slides
whose fragments, states, ids and times are constants; sizes, positions, text and
styles are left out. A form's values are model values with, per rule, the set
that passes it.

## 3. Runs

Passing runs, all with every property a mutant of the code violates:

| Run | Instance | Shows |
|---|---|---|
| `template_rerun` | one session; standalone or three endpoints; three interruptions | `ImplementsHostImage`; `RerunPublishes` and `StuckForGood`: running again publishes the image from every leftover but those in `Stuck`, and never from those |
| `template_race` | three sessions at once; two interruptions | `CleanupIsLast`, `OnePublisher`: the snapshot's fixed name, met by accident or not, works as a lock |
| `deploy_chains` | two chains in any order; three faults | `RunningHasDisk`, `ManagerComplete`; `HostLives`: each host created, given its disk and started once; `RerunDeploys` and `BlockedForGood`: `Blocked` is exactly what `bcm` cannot repair |
| `teardown_any` | two chains; `bcm` and `tier destroy` in any order; one fault | `OthersKeepTheirs`; `HostsLiveAndDie`; `HopelessForGood`: no sequence of commands whatever gets out of `Hopeless` |
| `teardown_runbook` | one chain; three faults, within destroy scripts too | `RunbookDeploys`: "destroy the tier that is broken, else run `bcm`" completes a deployment from everything not `Hopeless` |
| `stack_starts` | each of three chains, any `~/.bitcoin`; three disturbances | `SeedsOnlyFresh`; `StartsBringItUp`; `OneChanceToSeed`: block files are pushed by the start that made the volume, or never |
| `tasks` | two addresses; three dead containers or removed stacks | `BehindTor`; `ClightningAfterBitcoind`; `NodesComeUp` for every node but one tor was redeployed under |
| `deck` | three columns with a stack, fragments, states, media, ids, link previews; five configurations | `DeckTypeOK`; `ViewIsCurrent`; `AutoSlideIsArmed`; `NothingLeftBehind`; `HashNamesCurrent`; `OneActionPerTouch`; `AutoSlideEnds` |
| `form` | an address a server checks, a password, the password again | `FormTypeOK`; `MarksAreCurrent`: also when the other of two compared fields changed, and after a paste from the next event on; `SentIsValid`: a rejected value is posted only while its check is not finished; `VerdictsCome` |
| `site` | two commands, two patches, a ping, two early searches | `SettledByItsAnswer`; `RequestIsKeyed`: the key that has come is the one carried, and a page that awaits it does not ask before; `SearchesAreRight`: an early search stays empty; `ComesUp`: also which commands are settled, and that a lost one never is |

Runs that find a statement of the repository's own comments false (each
is quoted in `PROJECT.json` "findings"):

| Run | Statement | What happens |
|---|---|---|
| `deploy_active` | each script ends upon service activation | a kafka host that runs is taken for a kafka tier; `bcm` ends well without zookeeper or brokers |
| `stack_restore` | an existing backup is restored first | the test asks for a volume under a name none has, and calls the restore script without `--restore` |

Three more such statements are in the models without a run of their own: the
last command of the template script, which should initialise `bcmbr0` across a
cluster, is behind a test its first phase has made false (`IsCluster` is in
`Stuck`); "if the manager is stopped, start it" ends at the attachment before
the start (a stopped host is in `Blocked`); `remove_docker_node.sh` replaces
its arguments by `set -Eeu pipefail` and deletes no node (`RemoveNode` changes
nothing). The website's scripts have two of their own: a call of a server-side
check that fails is handled under a name jQuery does not know, so its field is
never judged again (`CheckFails`, the condition of `VerdictsCome`); and a page
that patches its requests twice makes `open` call itself (`Carried`).

**Bounds.** *Faults*: the repair properties speak of states with no fault left,
so a bound must allow the worst combination. The leftovers that matter take one
fault each (a script is cut short at one place, or a host goes down), the sets
`Stuck`, `Blocked`, `Hopeless` are unions of independent conditions, and the
steps that lead out of a leftover involve at most two of them: three cover any
two with one more on top. `teardown_any` has one fault, as the destroy scripts,
which may be run for any tier at any time, take things away without one.
*Chains*: two bitcoin tiers share every other tier, and are otherwise alike;
with two, one's script can act on the other's things, which is what chains can
do to each other. *Sessions*: an overlap of three has every order that two have
with a third in between; `OnePublisher` is about pairs, and proved for any
number. *Endpoints*: three have a first, a middle and a last one. *Addresses*:
an old one and a new one. *Deck*: a first column with fragments, a stack whose
second row has a fragment, a state, a time, an id and a link, and a last plain
column: each transition between plain slides and stacks exists, in both
directions. The five configurations each turn on what can interact (loop with
progress, right to left with controls, touch, history with dependencies and
previews, the stoppable auto-slide with wheel). `MaxResets` and `MaxEvents`
allow one stack reset and two hash changes to be outstanding: enough for one to
be overtaken. `Hashes` gives each configuration the links its reader knows: all
kinds in two of them, none but the start of the deck where it is touched; three
fingers. *Form*: one field of each kind of rule. Only one of them has a check, of which
one answer at most is awaited, whatever the form (`FormTypeInvariant`):
`MaxChecks` allows this answer and the timer that an earlier one set. One
message, which may be answered after more was typed. One change without a key
(`MaxUnseen`) with all that is compared with the field: before another field is
changed by hand this one is left, which judges it. `InTurnAsAtOnce` is about one event, so it is evaluated over forms and
not in a behaviour: all values and states of the checks, equal marks, on this form and
on a larger one, where three fields must match another, two of them the same
one, a callback checks a field of either kind, and a field comes before or
after the one it must match. *Channel*: a command and the patch's
own, or two patches, in any order with a ping; two searches before the data.
Every action, and every disjunct, fires in a passing run. `CHECK_DEADLOCK
FALSE` is set in `tasks`, where the system rests once all containers run, and
in `deck`, `form` and `site`, where a page may come to rest.

**Fairness.** `Deploy`: `WF_vars(Run)`, and `WF_vars(Repair)` in `Runbook`. A
run is a single process with nothing to do but issue its next command, so a
command that can be issued is; and the operator who sees it end runs it again.
No fairness on faults. `wait_for_dockerd.sh`, which has no timeout, may wait
for ever (`KeepWaiting`). `HostTemplate`: the same per session.
`BitcoindStack`: weak fairness of the running `up.sh` and of the swarm, which
keeps reconciling its list; strong fairness of the start of the two other
stacks, since their script is available again and again, whenever no other
command runs, and not all the time. `NodeTasks`: weak fairness per service: a
container of a listed stack is started, an entrypoint goes on when what it
waits for answers, and its `wait-for-it -t` ends when it does not. Neither the
operator nor `lightningd`'s giving up is fair. `Deck` and `ContactForm`: the
browser fires every timer and event it has queued, and every check is answered
or fails; that is weak fairness, written out as "infinitely often nothing is
pending, or the action is taken infinitely often", which spares TLC the search
for enabled actions. The reader is never fair: `AutoSlideEnds` and
`VerdictsCome` speak of a reader who stops. `Search`: weak fairness of the
page's construction, the wrapper's start and answers, and of delivery.

## 4. Proofs

Proved with TLAPS, for every value of the constants under the named assumptions
of each module, which TLC evaluates in its runs. Those of the scripts
(`HostTemplateAssumption`, `DeployAssumption`, ...) say that sets are not
empty, names distinct, bounds natural numbers. Those of `DeckSlides` and `Deck`
describe a deck's markup: columns numbered from 0 (`GridAssumption`), fragments
with a number or without, names apart from the absence of one
(`MarkupAssumption`), a view distance and a finite list of scripts
(`ConfigAssumption`), links that name an index or a known name
(`HashAssumption`), `MaxValue` beyond every index, and slides that name no
state twice (`StatesDistinct`). Those of `ContactForm`: each rule exists, a
field has one check at most, must match a field that need match none itself
(`NoChain`: in a circle the source's handlers would call each other without
end), and is listed once. `MCContactForm` has two more assumptions,
which are the comparison of `InTurnAsAtOnce` and which no proof uses.

* `HostTemplateProofs`: `HostTemplateTypeOK`, `HostTemplateCleanupIsLast`,
  `HostTemplateOnePublisher`, `HostTemplateImplementsHostImage`. The inductive
  invariants are `OrderOK` (what each session's label says of the template's
  clean-up, which no other session takes back), `LockOK` (a session about to
  publish has its snapshot and no image exists; an image always has its
  snapshot behind it) and `SoloOK` (the contents at each label of an
  undisturbed session). Without `LockOK`'s conditions on the snapshot a second
  session could take one between two others, and `OnePublisher` would not be
  preserved. The refinement is proved step by step; `Promise!Spec` has no
  fairness. `HostTemplateStuckForGood` is stated for a single session
  (`Cardinality(Sessions) = 1`, as in its run): `Wedged` follows the four ways
  to be `Stuck` through a run. With two sessions the half-cleaned template,
  stopped and without its profile, with or without its network, is
  not for good: while the first one works on it, it is running, and the second
  takes it for prepared and publishes it.
* `DeployProofs`: `DeployTypeOK`, `DeployRunningHasDisk`,
  `DeployManagerComplete`. `StackOK` says that every script but `deploy.sh` has
  a caller, without which `Return` would pop an empty stack; `DiskOK` that a
  host has its volume from `lxc init` on and is attached from `lxc config
  device add` on; `ServeOK` that the base image is served only after both
  registries. `ManagerComplete` needs `ServeOK`: a run that skips a `RUNNING`
  manager gets to its end only through toronion, whose build pulls the base
  image from the registry. `DeployHostLives` maps each step to one of
  `HostLife` for one host and a stutter for the others. `DeployBlockedForGood`:
  once `faults = MaxFaults`, `LeftBehind` keeps what `Blocked` lists, through
  any number of runs for any chains. Most of it needs only that no script makes
  the thing that is missing; a host that is down needs `PassedOK` too, that
  every tier the script has been through is running, so that a run which is
  past a tier cannot be one that found it down, and `ControlOK`, which script
  can have called which.
* `TeardownProofs`: `AnyOrderTypeOK`, `AnyOrderKeepsDisks` (the invariants of
  `Deploy` with destruction in between), `AnyOrderOthersKeepTheirs`,
  `AnyOrderHostsLiveAndDie`, `AnyOrderHopelessForGood`. `TeardownInv` is the
  invariant of `Deploy` with `DestroyOK` for the labels of the destroy scripts;
  a step of `Deploy` keeps it by the lemmas of `DeployProofs`, so that only the
  removals are proved anew. `Doomed` is `Hopeless` with the moments between two
  removals added, above all `TakingImage`: a destroy script on its way to the
  image has taken the manager's fault away and is about to leave a worse one.
* `BitcoindStackProofs`: `BitcoindStackTypeOK`, `BitcoindStackSeedsOnlyFresh`,
  with `NewIsFresh`: between the volume's creation and the deployment of the
  stack, the node has written nothing unless its stack was listed already.
  `BitcoindStackOneChanceToSeed` by `SeedKept`: a volume that is there makes
  `newInstall` false in every later start.
* `NodeTasksProofs`: `NodesTypeOK`, `NodesBehindTor`, `ClightningWaits`.
  `TorOK` (a torproxy with a container has an address) and `FirstOK` (before
  the first fault an unlisted torproxy has no container) make `BehindTor`
  inductive: its address can change only when `torproxy` is deployed anew, and
  until something fails that is before any node is past waiting for it.
* `SearchProofs`: `AnswersSettle`, `AwaitedKey`, `LastSearchShown`, from
  `ZeroFrameAssumption` (the bounds are natural numbers). The inductive
  invariant of the channel, `IInv`, follows a number through its life: on its
  way to the wrapper, owed, answered. `IdsUsed` says that all of these are
  below `nextId`, `IdsApart` that a number is in one of these places only and
  once, `AnswersGiven` that what is on its way to the page was answered;
  without them a second answer for a number could be on its way, and
  `SettledByItsAnswer` would not be preserved. `AwaitedKey` needs `KeyOK`
  as well: the callback of a command is the key's just where that command made
  a promise, `ajaxKey` is one of the answers to such commands once one is heard
  and undefined until then, and a promise is fulfilled only after that. With it
  the guard of `Load`, which looks at promises, says something of what the
  request carries. `LastSearchShown` needs that the last pending search is the
  last one submitted (`SearchOK`).
* `DeckProofs`: all six invariants of the deck, `DeckTypeInvariant`,
  `DeckViewIsCurrent`, `DeckAutoSlideIsArmed`, `DeckLeavesNothingBehind`,
  `DeckHashNamesCurrent`, `DeckOneActionPerTouch`. The invariant `DeckInv` has
  two states, as the page has: `Fresh` until the last script arrived, and from
  `start()` on `Placed` (the fields are of their kind and what the page shows
  is where the deck is) with `Armed` (the timer is what `Eligible` says).
  Handlers break both on their way. A function that every handler ends in is
  therefore a lemma that asks for less than it returns: `slide()` is taken
  stage by stage, each stage with what is already right when it begins, and a
  handler's step only names the stages it goes through. Fragments need one fact
  of their own, that a slide numbers them from 0 without gaps
  (`sortFragments`), without which "next" could show nothing and the arrows
  promise something. `TouchInv` says what the fingers that are down tell of the
  gesture already made. `DeckHashNamesCurrent` has a hypothesis, `IdsAreNames`:
  ids are distinct and none begins with a number. The source needs it, as
  `readURL` passes the hash to `parseInt` before it looks for an element.
* `ContactFormProofs`: `FormTypeInvariant`, `FormMarksAreCurrent`,
  `FormSentIsValid`. `ChecksOK`: a check is finished exactly when no answer to
  it is on its way and none failed, so at most one answer is awaited per field,
  and it is about the value the check remembers; and a finished check says of
  that value what its server does (`IsKnown`). `MarksOK`: each mark is the
  verdict on the values as they are, but for the fields in `unseen`. For
  `SentIsValid` a submission either finds a check that knows the value, and
  then is refused if it is rejected, or asks again (`AskTells`), and then the
  check is not finished.

Proving also corrected the model. `Feasible` in `Deploy` asked too little of
the commands with which another tier joins the swarm or deploys to it: a proof
of `BlockedForGood` failed at a tier that did so although the manager's host
was down. `ManagerReached` is the condition that was missing.

**Model-checked only.** Liveness under fairness, which the prover does not do:
`RerunPublishes`, `RerunDeploys`, `RunbookDeploys`, `StartsBringItUp`,
`NodesComeUp`, `AutoSlideEnds`, `VerdictsCome`, `ComesUp`. `InTurnAsAtOnce`, as
a fold over the fields is a recursive definition, and what one computes for
every form takes induction over data; the proofs about the form use the updates
it compares with. The two statements that runs refute. Every other property of
a run is stated by a theorem.

## 5. Not modelled, and why

* Everything marked so in section 1; in particular installation, the VM
  endpoint and the SSH onion list are planned, the rest shares no state with
  the deployment.
* Deployment on a cluster: `manager/up.sh` lines 117-161 and the `--target`
  networks. It is not reached: on a cluster no image is ever made (`Stuck`).
* Two runs of `bcm` at once in `Deploy` (only the template has several
  sessions): the interleavings of two whole deployments are out of TLC's reach.
* The contents of configuration files, environment variables without influence
  on control, logging, and the bytes of backups (only which are complete).
* mainnet's clightning: an empty quoted argument ends `lightningd`
  (`NodeTasks`, header).
* `bcm stack` starting a stopped manager (`cli_entrypoint.sh` 89-93).
* Of `reveal.js`: layout, sizes, what backgrounds look like, parallax, slide
  numbers, fullscreen, speaker notes, PDF printing, pointer events of one old
  browser, and the calls of its API while a deck runs (`configure`, `sync`,
  `slide` with a fragment). A section whose name starts with a number is read
  by `parseInt` as an index (line 2175); the instance has none, and with one
  `HashNamesCurrent` does not hold. Slides that name a state twice
  (`StatesDistinct`).
* Of `clean-blog.js`: groups of checkboxes, hidden fields, the texts of
  messages; the scrolling navigation bar and bootstrap's floating labels.
* `bootstrap.js` and the two three.js examples are other projects' code;
  `Gruntfile.js` declares tasks.

## 6. Plan

Done: `HostTemplate`/`HostImage`, `Deploy`/`HostLife`, `Teardown`,
`BitcoindStack`, `NodeTasks`, in this order, since each rests on what the one
before leaves behind; then the website's scripts, `ZeroFrame`/`Search`,
`DeckSlides`/`Deck`, `ContactForm`.

Next, extending the model:

1. `Storage`: `install.sh` and `uninstall.sh`, with loop files, pools and
   profiles; which leftovers of a cut-short installation a second one repairs;
   an uninstallation that stops half way; `reset.sh` as their composition. One
   run for repeated installations, with crashes between any two commands.
2. `KafkaQuorum`: `get_env.sh` and the loops of `zookeeper/up.sh` and
   `up_lxc_broker.sh` as functions on sequences of endpoints, against a
   definition of a quorum; up to twelve endpoints.
3. `BitcoindStack` and `NodeTasks` composed: the former's `StartTask` and
   `StopTask` are the latter's containers, and the latter shown to implement
   the former's task.
4. `Deploy`: the manager started by a stack command.
5. The VM image cache; the onion list; the git container.
6. The deck's API calls while it runs, as further actions of `Deck`.

Then, proofs: `StuckForGood` for any number of sessions, with the half-cleaned
template left out of `Stuck`; with each new module its type invariant and what
it promises to the others.

## 7. Running

    tlc -config HostTemplate_rerun.cfg MCHostTemplate
    tlapm DeployProofs.tla

Each `X_y.cfg` belongs to the module `MCX`. The longest runs, `Deck_deck`,
`Teardown_any` and `Deploy_chains`, take one to three minutes with two workers,
`ContactForm_form` two, `Search_site` about one, the rest seconds. `DeckProofs`
is the longest proof, several minutes from nothing.
