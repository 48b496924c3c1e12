# A verification of htop

TLA+ modules for the parts of htop whose behaviour is more than formatting: the
process list and its scan on Linux and on seven other systems, what is read of a
process and how its row is made, the tree view, the event loop, the panels and
containers under them, the header, the other pages of the setup, the
configuration files, the screens about one process, the CPUs it may use, and what
the meters of CPUs, memory, disks, networks, batteries and systemd show. TLC checks
small instances of all of them; TLAPS proves for every instance what matters most of nine
of them. Line numbers and names are those of the source in `src/`.

Contents: [the system](#the-system), [the modules](#the-modules),
[the runs](#the-runs), [fairness](#fairness), [the proofs](#the-proofs),
[what the models found](#what-the-models-found),
[what is not modelled](#what-is-not-modelled), [plan](#plan).

## The system

htop is one single-threaded process. What runs concurrently with it is the
kernel: processes start and exit, CPUs come and go and pids are reused while htop
reads `/proc` file by file. The user's keys are handled between two passes of an
event loop; menus and other screens run an event loop of their own inside a
handler, under which the scans go on. `strace`, started by the trace screen, is
the only other process.

| component | state | operations | what is hard | what must hold |
|---|---|---|---|---|
| Process list (`ProcessList.c`, `linux/LinuxProcessList.c`) | `processes`, `processTable`, `displayTreeSet`, `following`, the counters, a stamp for new and for exited rows | scan (read, age, tomb, remove), sort, rebuild the panel, add, remove | every read may find that the task has gone; flags of a row are read scans later; three containers hold one object; settings change between scans | a task that lives through a scan is listed; tombstones end in time; no freed process is followed, drawn or sorted; pausing freezes the list |
| Process tree (`ProcessList.c`: `buildTree`, `updateTreeSet`) | `tree_left/right/depth/index`, `indent`, `showChildren` of each process | build from parent pids, sort again layer by layer | orphans, hidden parents, nested sets that are both input and output of a sort | intervals, lines and visible rows are those of one forest |
| Event loop (`ScreenManager.c`) | panels, focus, `timedOut`, `redraw`, `rescan`, `sortTimeout`, `closeTimeout` | scan at a timeout, sort, draw, dispatch a key, change the focus | flags set in one iteration and used in another; panels that are deleted by the panel that has the focus; a terminal that is gone | the list drawn is the list scanned; the focus is a live panel; no sorting under the user's hands; the loop ends without its terminal, and only then |
| Main panel (`MainPanel.c`, `Action.c`) | tags, `following`, `pidSearch` | tag, untag, follow, search by pid, menus | the target of a menu exits while it is open | a choice hits what it was made for |
| Panel (`Panel.c`) | items, selection, scroll position, `needsRedraw` | keys, insert, remove, refill, resize, draw | partial redraws read what was there at the last drawing | the screen shows the items |
| Vector, Hashtable | array and count; buckets with probe counts | insert, remove, sort, splice, ...; put, remove, get | growth at a boundary; stale cells; backward shift across the end of the table | a list; a dictionary |
| Header and setup (`Header.c`, `MetersPanel.c`, `AvailableMetersPanel.c`, `HeaderOptionsPanel.c`) | meters per column, a panel per column | move, add, remove, change style and layout | two lists that every key must change alike; spans that are computed ahead | panels and columns agree; no meter is lost or drawn over; what is saved is what is shown |
| Settings (`Settings.c`) | the file, the legacy file, the settings in memory | read, write, migrate | the file is emptied before it is written; files of other versions | nothing is lost by moving the file; no mixture of two headers is read |
| Info screens (`InfoScreen.c`, `IncSet.c`, `TraceScreen.c`, `EnvScreen.c`, `OpenFilesScreen.c`, `ProcessLocksScreen.c`, `CommandScreen.c`) | lines, the panel of those that pass the filter, the search | read again, filter, find, trace | lines that grow while a filter is changed; a pipe cut anywhere; a child to be ended | nothing is lost, doubled or joined; the cursor stays on its line |
| CPUs (`linux/LinuxProcessList.c`) | `cpuData`, `existingCPUs`, `activeCPUs` | count, read `/proc/stat`, read frequencies | three sources are read one after another while CPUs come and go | what is shown is what was read in this scan of this CPU |
| Process scans of the other systems (`freebsd/`, `dragonflybsd/`, `openbsd/`, `netbsd/`, `darwin/`, `solaris/`, `pcp/`) | rows, counters of tasks | take a snapshot from the kernel, handle its entries | jails, users, thread counts and names are asked for later than the list; what a row takes over only once differs on each | a row is of one process, and the counters are of the rows |
| CPUs and memory of all systems (`*/Platform.c`, `*ProcessList.c`) | clicks, online flags, pages | count, read, divide, draw | numbers that are read one after another are subtracted | a bar shows each part once and no more than there is |
| Figures of a process (`linux/LinuxProcessList.c`) | rates, CPU shares, `m_pss`, `usesDeletedLib`, ... | read `stat`, `io`, `smaps`, `maps`, ... | files are read by turns, at random times, only for columns shown; and fail | a figure arrives, and is of the period it is divided by |
| Command column (`Process.c`, each platform's reader) | command line, `exe`, `comm`, the merged string and its marks | read, match, strip, merge again | three names that change one after another; offsets that are computed before a prefix goes | the string is of the present data, and its marks point at what they name |
| Fields and order (`Process.c`, `linux/LinuxProcess.c`) | widths of pid and uid, titles | print, compare | units and digits change at boundaries; titles are printed less often than rows | rows stay under their titles; the order is an order |
| Affinity (`AffinityPanel.c`, `Affinity.c`) | one set of CPUs, a list, a tree of parts | open, toggle, fold, set | CPUs go while the panel is open | what is marked is what is set |
| Columns, colours, options (`ColumnsPanel.c`, `AvailableColumnsPanel.c`, `ColorsPanel.c`, `DisplayOptionsPanel.c`) | the settings, through pages made anew | move, add, remove, toggle | the settings are rebuilt from the items at every key | pages and settings agree |
| Meters (`Meter.c`, `DiskIOMeter.c`, `NetworkIOMeter.c`, `BatteryMeter.c`, `linux/SystemdMeter.c`, `linux/LibSensors.c`) | static caches shared by all meters of a kind; the graph's history | read again when due, draw | clocks that are set, sources that fail; sensors that do not say what they measure | figures are of now and of one period; what is drawn is what was read |

How they interact. `ScreenManager_run` calls `ProcessList_scan` and
`ProcessList_rebuildPanel` (`checkRecalculation`), draws the panels, and gives a
key to the focused panel's `eventHandler`. The main panel's handler calls an
`Htop_Action` through `Action.c`, whose result bits ask for a refresh, a redraw, a
recalculation or to keep following. `ProcessList` reads the settings and keeps
its rows in a Vector and two Hashtables; the panel refers to the same rows and
does not own them. The setup's panels edit the header and the settings and set
`settings->changed`; on exit `Settings_write` makes a file of them. After each scan
`Header_updateData` asks every meter for new values, which come from the scan or, for
disks, networks, batteries and systemd, from `Platform_*` functions that the meter
calls itself.

`PROJECT.json` lists the hazards of this code line by line, with the properties
that are aimed at each.

## The modules

Names of actions and operators are those of the functions they translate. Data
are abstracted to what a property tells apart; control is not.

**`ProcessList`** is the scan step by step. The kernel's actions (`Fork`, `Clone`,
`Exit`, `Tick`) may occur between any two steps of htop. `StartScan` is
`ProcessList_scan` up to `goThroughEntries`; `OpenEntry`, `ReadTask` and
`FinishEntry` are `LinuxProcessList_recurseProcTree`, split where a task may
vanish: when the directory is opened, for each thread of its `task/` directory,
and when its own files are read, which may fail at each of them. `EndScan` is the
sweep over the rows with the building of the tree, `SortTree` is `updateTreeSet`,
`RebuildPanel` ends the pass. A row is the record of the flags that the source
keeps (`updated`, `show`, `wasShown`, `tombStampMs`, `isKernelThread`, ...). A task
is a pid with an incarnation, so that reuse of a pid is visible to properties
though not to htop. The user's commands each are one action and
happen only between passes. Each instance names the commands its user has
(`Toggles`).

**`ProcessTree`** is the two algorithms on nested sets, exactly as recursive as the
source: building from `tree_parent`, and the layers of `updateTreeSetLayer`.
`ProcessList` uses only their effect on which rows are in `displayTreeSet` and
whether they are visible. `show` and `visible` start as the scan leaves them, and
`Resort` may follow any number of times, as it does while updates are paused.

**`ScreenManager`** has one action per part of an iteration: `checkRecalculation`,
drawing, `Timeout` for a `getch` that returns `ERR`, and one action for each kind of key or
click. The time since the last scan may lie before it (the clock is set back). A
page's panels are `[id, items]`, and keys may replace those to the right of the
focus, as the categories of the setup do.

**`MainPanel`** takes a pass of the loop as one step and looks at what the keys do
with rows: tags live in processes, commands go to rows, and `OpenMenu` and
`CloseMenu` (the two ends of `Action_pickFromVector`) have passes between them.
The check that the selection is still what it was when the menu was opened is
`StillSelected`. `tagAllChildren` is modelled call by call: `calls` is the stack of
the recursion (a row each of them has reached), `TagRow` a pass of its loop, which calls itself for a
child without a tag, and `TagReturn` its end.

**`Panel`**, **`Vector`** (with the abstract **`List`**) and **`Hashtable`** (with the
abstract **`Dictionary`**) have one action per exported operation. Assertions of
debug builds are in the models: a flag says that one failed.

**`HeaderSetup`** has the columns of the header, the panels of the meters page, and
every key of the three pages that change them; it starts from any header with columns of up to
`StartLength` meters. **`Settings`** has the two files as
sequences of lines (`FileLines`: a key, a column, and a list of numbers and `Names`), of which a write appends one at each step, the reader line by
line, and sessions that end, fail or crash anywhere. **`InfoScreen`** is what the
screens about a process share (lines, panel, `IncSet`); **`TraceScreen`**,
**`SnapshotScreen`** and **`CommandScreen`** are the screens. **`LinuxCPUs`** is
the part of a Linux scan that is about CPUs.

**`PlatformScan`** is `ProcessList_goThroughEntries` of seven systems. `GetProcs` takes
the kernel's snapshot and `HandleEntry` one entry of it, processes in any order and each
before its threads, with kernel steps (fork,
exec, setuid, jail, exit, a pid used again) before and between. What a platform copies
for new rows only, each time, or from another list is a set or a case by its name.
**`PlatformCPUs`** has the same systems' ways to count CPUs, read clicks and make
percentages and an average of them; **`PlatformMemory`** reads one number after
the other (`ReadNext`) while pages change their use, and then computes the bar.

**`LinuxTask`** follows one process with one thread through several passes: the
readers of `stat`, `io`, `smaps`, `maps`, each with its condition of column,
turn or time, and its early return when the file cannot be read.
**`CommandText`** has the pure algorithms on command lines (where the basename
is, how the executable and the name are found in it, what is stripped), and
**`MergedCommand`** the state around them: the reading of each host, the options,
and the string that is made again when something has changed. **`ProcessFields`**
is printing and comparing: every format as the number of columns it takes, the
titles, and when each is printed.

**`AffinityPanel`** has both builds, with hwloc and without; the parts of the machine are
numbered as the depth-first walk meets them, so that those below a part follow it; **`SetupPanels`** the pages
of columns, colours and options.

**`MeterReadings`** has the meters of disks, networks, batteries and systemd: the static
variables, the conditions under which they are read again, and the source of each system;
**`CPUTemperatures`** is `LibSensors_getCPUTemperatures` on chips that number
their sensors as the drivers do; **`MeterDrawing`** draws bars and graphs.

**`Community`** names the instances of the community modules that several modules share.

How modules are composed. `TraceScreen` and `SnapshotScreen` extend
`InfoScreen` and conjoin its actions with theirs. `Vector` and `Hashtable`
instantiate their abstract specifications. `MCContainers`, `MCScreens`,
`MCSetup`, `MCMachine` and `MCRows` put components that have nothing to do with each
other into one model, as a sum: a behaviour is about one of them, the subject, which
never changes, and the variables of the others stay at an initial value. Properties
that belong together have one name, a conjunction: see [the runs](#the-runs). `ProcessList`, `ProcessTree`,
`ScreenManager` and `MainPanel` look at the same pass at different grains: a step
per file that is read, a step per sort, a step per flag, one step. What a coarser
module takes for granted of a finer one is a property of the finer one: after a
scan the list is complete (`ScanComplete`), the tree is ordered (`SortedForest`),
and the panel is rebuilt before the next key (`ListCurrent`).
`LinuxTask`, `MergedCommand`, `PlatformScan` and `ProcessFields` start where `ProcessList`
ends: it says that a task is found, they what is read of it and how it is shown.

## The runs

`tlc -config X.cfg M` in this directory. Sizes are distinct states; none takes more
than three and a half minutes with two workers.

| run | module, configuration | states | properties |
|---|---|---|---|
| processes_options | `MCProcessList`, `ProcessList_options` | 342 850 | `TypeOK` `TombsTimely` `TombExpires` |
| processes_commands | `MCProcessList`, `ProcessList_commands` | 5 160 272 | `ScanComplete` `FollowingListed` `TreeSetFresh` `PausedFrozen` |
| tree_four | `MCProcessTree`, `ProcessTree_four` | 41 146 | `TreeDrawn` `SortedForest` |
| containers | `MCContainers`, `Containers` | 165 388 | `DrawnSafely` `VectorSound` `TableSound` |
| event_loop | `MCScreenManager`, `ScreenManager_loop` | 265 484 | `ListCurrent` `FocusLive` `SortedInTime` `ClosesWithTerminal` |
| main_keys | `MCMainPanel`, `MainPanel_keys` | 1 489 696 | `FollowedSelected` `MenuHitsTarget` `FamilyTagged` `PidSearchFinds` |
| setup | `MCSetup`, `Setup` | 1 060 676 | `HeaderSound` `FilesWhole` `MetersKept` `SetupSound` `MigrationSafe` `AffinitySound` |
| screens | `MCScreens`, `Screens` | 605 139 | `OutputShown` `ShowsSnapshot` `WrapsAtSpaces` `CursorSound` |
| machine | `MCMachine`, `Machine` | 3 054 778 | `PlatformTrue` `MemoryAddsUp` `CPUsTrue` `CPUBarsTrue` `ReadingsTrue` `TemperaturesTrue` `DrawnRight` |
| rows | `MCRows`, `Rows` | 2 993 743 | `FiguresTrue` `CommandSound` `RowsSound` |
| violation_paused_sort | `MCProcessList`, `ProcessList_pausedSort` | | `TreeSetSized` is violated |
| violation_continued_line | `TraceScreen`, `TraceScreen_assert` | | `NoAssertionFails` is violated |

What they say:

- *The list.* A task that lives through a scan is listed, counted, and hidden only if
  its kind is (`ScanComplete`); rows of exited tasks go in time (`TombsTimely`,
  `TombExpires`); the followed process and the tree's set have no freed rows
  (`FollowingListed`, `TreeSetFresh`); nothing ages while paused (`PausedFrozen`).
- *The tree.* `TreeDrawn` = `NestedSets` (intervals) and `ShownIfExpanded` (rows) and
  `LinesDrawn` (the lines left of them); `SortedForest`: each layer is in the chosen order.
- *Containers.* `DrawnSafely` = `SelectionValid`, `PartialRedrawSafe` and `ScreenCurrent`;
  `VectorSound` = `[]HoldsItsItems` and `StableList` (it implements `List`); `TableSound` =
  `[]RobinHood` and the dictionary it implements.
- *The loop.* `ListCurrent`, `FocusLive`; `SortedInTime` = `[]NoSortWhileBrowsing` and `SortsWhenIdle`;
  `ClosesWithTerminal`: it ends if and only if the terminal is gone.
- *Keys.* The cursor stays on the followed process; a menu's choice hits what it was opened for;
  the recursion that tags a family returns, has then reached all of it that tags did not cut off and nothing
  else, and never nests deeper than there are rows (`FamilyTagged` = `FamilyReached` and its end); a pid that is typed is found.
- *Setup.* `HeaderSound` = `PanelsMatch`, `NoOverlap` and `SavedAsShown`; `MetersKept`;
  `FilesWhole` = `RoundTrip` and `HeaderWhole`; `MigrationSafe`; `SetupSound` = `[]SettingsShown` (the
  pages, the fields and the flags of the scan agree, and so does the scheme in use, but for a terminal without colours),
  `ChosenIsUsed` (a scheme that is chosen is the one used) and `LastColumnStays` (the command,
  which takes the rest of a line, is never moved, removed or followed); `AffinitySound` = `[]MarksAgree`
  (list, tree and set agree) and `AffinityKept` (opening and confirming changes nothing).
- *Screens.* `OutputShown` = `[]NothingLost` and `NothingHeldBack` (of output, of the end of the child, and of
  a search that was begun); `ShowsSnapshot`; `WrapsAtSpaces`; `CursorSound` = `SelectionFollows` (the cursor keeps its line
  when the filter changes, unless the text typed or a click finds another), `FindSkipsNone` (F3 goes to the nearest other match, and
  stays only if there is none) and `FindEnds` (each line looked at is one further, of as many as the panel has).
- *The machine.* `PlatformTrue` = `RowsTrue` (each field of a row is of the process that was
  listed, at the age its platform allows) and `CountsAgree`; `CPUsTrue` = `[]OnlineAgrees` and
  `ReadingsFresh` (times, and frequencies with their average); `CPUBarsTrue` = `BarsTrue` and `AverageTrue`; `MemoryAddsUp`: no page is in two parts of a bar, and
  the bar is no longer than the memory, up to what pages changed while they were read;
  `ReadingsTrue` = `IORates` (figures at most half a second old, even when the clock is set back,
  each device counted once, growth and time of the same two readings), `BatteryTrue` and `SystemdTrue`;
  `TemperaturesTrue`: each CPU has the temperature of its core or package wherever the guess is
  not ambiguous; `DrawnRight` = `BarExact`, `BarText` and `GraphRight`.
- *Rows.* `FiguresTrue` = `[]LateFigures` (what is read by turns arrives) and `RatesTrue`;
  `CommandSound` = `CommandFresh` (the string is of what was read last), `NamesNow` (what is read again is of now) and
  `MarksRight`; `RowsSound` = `RowsLineUp` (a field is as wide as its title, but where the code prints it uncut) and `RowsOrdered`.

The bounds, and why they are enough:

- **processes**: two pids are a leader and its thread, a parent and its child, or
  two strangers, and everything a scan does to a row depends on the row, its
  leader or its parent. Time runs to 2 with a delay of 1, so that a row is
  stamped, expires, and is stamped again. Each pid is used by one task (`MaxInc = 1`);
  what changes with reuse is said [below](#what-the-models-found). The commands are
  divided between two runs, because all ten at once are too many states: the
  first has the highlighting of old and new rows, which keeps tombs in the list,
  with the hiding of kernel threads and the collapsing of branches; the second all the
  others. All
  safety properties of both are proved under all of them at once.
- **tree_four**: four processes are the smallest forest with a hidden process that
  has a sibling, a parent and a child. `MaxSpecial = 1` bounds the hidden, the collapsed and
  the odd parents (itself, not listed, a later one) together; every combination of parents, kinds and
  ranks within it is an initial state.
- **containers**: four items on up to three lines make every scroll position
  and a panel higher than its items. The vector grows by two, twice. The table uses primes 5 and 11 with five
  keys, of which some share a home bucket. Sizes 2 and 3 are left out: growth is
  tested before the insertion (`Hashtable.c:221`), so that such a table can fill
  up and a search not end, but the tables of htop from which something is removed
  start with 200 and do not shrink below 127.
- **event_loop**: a delay of 2 ticks has early, exact and late timeouts. The
  resets of 5 and 100 are 2 and 4: what matters is that a count passes through
  values between its ends. `MaxOdd` bounds the steps that no program can make
  harmless: the clock set back, and clicks that hit no panel, which the loop takes for an `ERR`.
- **main_keys**: FreeBSD's kernel with pid 0, which is its own parent, init and a child of it with two digits, so that a
  search by pid can pass through a wrong row, and a family has a loop and two generations. Processes come and go for ever.
- **setup**: two meters of one and of two lines, a layout of two and one of three
  columns, any number of visits. The two meters are interchangeable: no
  action names one, and the height belongs to the mode, not to the meter; the properties are invariants
  and action properties, so symmetry is sound. Four columns, the command among them, and a
  dynamic one; numbers that begin outside of their range. Three settings of different shape, with files of an older
  version, a newer one, and an editor; a line may be cut anywhere that leaves a different
  parse. `Names` are the meters of these files and the beginning of one. Four CPUs in two packages, so that a part can be full, empty or partly
  marked, and the numbers of CPUs pass the width of a machine word of three bits.
- **screens**: `strace` writes three lines of two letters, of which a chunk of two cuts one in the middle, or two empty lines and one
  without an end, or any beginning of these (`Outputs`). Filters have up to two characters (`Filters`), so that a line whose pieces
  lie on either side of the filter occurs, with the click that brings it into the panel; longer ones differ in no
  condition of the code but the room for them, which `IncModeMax = 2` reaches. The trace has no search mode of its own and writes nothing
  after a loss (`TraceBound`), for the number of states; the lists have search and filter. The lists have equal lines, lines that contain each other, and an
  order that is not theirs. Screens of three columns have commands of up to six
  characters, so that three lines occur.
- **machine**: three CPUs on Linux, of which CPU 0 stays up, so that one lies between two
  others, with two changes between any two reads. Two steps of the kernel and four
  pids, listed in any order, in the scans of the other systems: an exec between list and names, or an exit and a fork that takes the pid. Two CPUs
  and three clicks. Four pages in eight uses, one of which changes while they are counted.
  Two disks with a partition and a mapped device, two cards and a loopback, two batteries of which the second says its
  capacity in per cent; up to four steps of machine, clock and failures between the updates, the clock moving to both sides
  of each limit and back. Up to four cores of one or two threads with two CPUs offline and pairs of chips in
  both orders. Bars of up to five columns with up to three values, texts of all lengths around them; a graph of four
  values, so that it is narrower and wider than its history. The numbers of `Settings` (500 ms,
  30 s) are 1 and 4: what matters is which side of them a time is on.
- **rows**: three passes and two steps of the process, the kernel or the user suffice for a file that
  fails, a column that comes and goes, and a turn that is missed. Command lines lead to every
  branch of the heuristics; names have the longest length that fits. Sizes, times and counts are on both sides of
  every change of form; numbers and names are shorter and longer than their columns.

Deadlock is checked where the system cannot stop. It is not in the sums whose subjects end: a
screen that is left, a command that is wrapped, a session, a bar that is drawn, a number of steps
that is bounded.

For every property of every passing run `PROJECT.json` names a mutant: a plausible
slip in one definition (`Definition_Slip` in the module) under which the run fails.

## Fairness

- `ProcessList!FairSpec`: a scan that has begun goes on (`WF`: nothing in it
  waits), the event loop comes back to a scan again and again (`SF(StartScan)`: a key
  takes turns with passes, and `getch` returns after the delay), and time passes.
  Nothing is assumed of the kernel's other steps or of the user.
- `ScreenManager!FairSpec`: `WF(Pass)`. `getch` has a timeout, so an iteration ends
  without a key. No key is ever owed. A terminal that is gone makes `getch` return
  at once, so its timeouts take less than the delay.
- `TraceScreen!TraceFairness`: `getch` does not wait in this screen, so it finds no key again and
  again, and then `updateTrace` runs (`SF`: the steps of a search lie between); the loop of a search goes on;
  `strace` ends after `SIGTERM`, and then `waitpid` returns. Nothing is assumed of what it writes.
- `MainPanel!FairSpec`: the recursion of `tagAllChildren` goes on. Nothing is assumed of the user.

## The proofs

Each theorem holds for every value of the constants that satisfies the assumptions
named in the modules. These say what the code guarantees of its data:

- `ProcessList`: a finite set of pids; any bounds, any set of commands.
- `Panel`: a set of items, any size, any heights. `ScreenManager`: any delay and limits, and any number of
  panels on a page.
- `MainPanel`: `PidAssumption`, parents of any shape, loops included; `SearchAssumption`: no
  pid is above the limit of the search (10 000 000, `MainPanel.c:43`; on Linux pids end at 4 194 304).
- `VectorAssumption`: a finite set of objects with numbers for keys; an array grows by one cell or more.
- `HashtableAssumption`: keys are numbers; sizes come from a set of positive ones, which has 13 if a table is asked for with size 0.
- `LinuxCPUsAssumption`: there is a CPU 0; any number of others, of changes and of clicks.
- `PlatformCPUsAssumption`: one CPU or more, any number of clicks and switches.
- `PlatformMemoryAssumption`: any number of pages, of which any number move during a scan.
- `AffinityPanelAssumption`: the parts are a tree, numbered depth first. `HeaderAssumption`: finitely many
  meters, at least one mode, layouts of one column or more. `SetupPanelsAssumption`: the fields
  of the settings are columns, no dynamic column is one of the others, there is a monochrome scheme beside the default, options have numbers for bounds.
- `InfoScreenAssumption`, `SnapshotAssumption`, `CommandAssumption`: characters are numbers, in the order of `strcmp`; lists and
  texts of any length; there is room for one character to search for; a screen has a column. No text is assumed to differ from another.
- `SettingsAssumption`: settings of the user and the defaults have a field, a column, as many modes as
  names in each, and the default header is a valid one; files are lines of any kind, in any
  order, of any number. A part of a meter's name is a name.

The argument is the same everywhere: an inductive invariant, the conjunction of named parts,
each of which says what some later step relies on; a lemma per action, or one for
all steps that do the same to what the invariant is about; a last step that
combines them. Liveness is left out: a theorem states the safety half.

**`ProcessListProofs`**

- `TypeCorrect`: `Spec => []TypeOK`. `TypeOK` is not inductive: a thread's task
  directory is read for an entry that must be a pid, so `TypeInv` adds that. The
  lemmas before it give the type of every row operator (`ReadRow`, `Sweep`,
  `BuildTree`, ...).
- `ViewCorrect`: `Spec => [](FollowingListed /\ PanelLive)`. The invariant is
  inductive relative to `TypeInv`. The steps of a scan are summed up in `ListStep`:
  a row stays with its tombstone, is new and without one, or goes and is not followed.
- `TombsCorrect`: `Spec => []TombsTimely`, which needs `ClockInv`: the stamp of the
  last scan is not ahead of the clock, and 0 before the first scan. `ClockStep` shows
  that it only grows; `EndScanList` says what the sweep does with stamps.
- `TreeSetCorrect`: `Spec => []TreeSetFresh`, from `EndScanList` (the sweep leaves the
  listed rows that it does not take away) and `QuietList` (steps outside a scan keep the set of rows).
- `PauseFreezes`: `Spec => PausedFrozen`, from `PauseInv`: no scan begins while updates are paused, and none
  is running when the user pauses them; every other step is shown to leave the rows alone.
- `ScansAreComplete`: `Spec => [](ScanComplete /\ TombsAreDead)` if `MaxInc = 1`. The invariant
  `ScanInv` is about the middle of a scan: a task that has lived since it began is
  updated, or its leader is still to be read, or it is in what remains of the task
  directory that is open (`ReachInv`); nothing that was updated is still to be read
  (`UnreadInv`), or a row would be counted twice (`CountInv`); what is to be read as a leader is one
  (`DirInv`); exited rows have no task and are not read again (`GraveInv`); kinds and what is
  shown agree with the settings (`KindInv`, `ShowInv`). `GroupInv` and `SeenInv` say that groups have
  leaders and that htop knows only pids that were given out.

All but the last hold with any reuse of pids, which the runs leave out. The hypothesis of the
last is needed and not only convenient: with `MaxInc = 2` TLC finds a pid that was a thread's,
is opened as a leader's, and takes the row with it. It has instances, those of the runs among them.

**`ContainerProofs`**

- `DrawingCorrect`, `Spec => []DrawnSafely` (Panel). That the screen is current after drawing is about one phase only;
  `DrawInv` says what is true between a key and the drawing: unless a full redraw
  is asked for, only the lines of the old and the new selection may be out
  of date, and both are on the screen. `PartialFacts` and `PartialIsFull` show that
  then a partial redraw has the result of a full one. `KeyStep` has a case per kind of key.
- `VectorIsList`, `VectorSpec => StableList`: the array implements `List`. `VectorInv` says that the used cells hold distinct objects,
  and an owner exactly those. What sorts do is told by a permutation (`Moves`, `Shuffled`). `partition` is a chain
  of exchanges, each of which leaves the cells before its place below the pivot (`Parted`, `IsPartition`); quickSort sorts stretches
  of any width because it sorts all narrower ones (`Narrow`, `HalvesSort`); insertionSort keeps a sorted beginning in
  which equal objects are in their first order (`Settles`). Each operation is then a step of the list (`Sound`).
- `VectorCorrect`, `VectorSpec => VectorSound` if `MaxSplice <= Growth`: no assertion fails. Without the hypothesis TLC
  refutes it (the first of `Vector_checkArraySize`'s assertions, see below).
- `TableIsDictionary`, `TableSpec => ImplementsDictionary`, and `TableCorrect`, `TableSpec => TableSound` (Hashtable). `InPlace` is `RobinHood` for any
  table, with each key once. An item `p` buckets from its home has a trail (`TrailExists`): the buckets
  between are full of items that are as far from their homes as it would be there. So a search does
  not stop before its key (`FindsKey`), and a probe count stays below the size while a bucket is
  free (`TrailEnds`). The loop of `insert` is a chain of states, each of them searching,
  carrying an item that has nothing like it in the table, or done (`OnItsWay`); rehashing is a chain of insertions (`FilledTo`);
  removal is shown bucket by bucket, counted from the one that is emptied (`VacatedFacts`). The hypothesis is that
  sizes are 4 or more. It is needed: a table of 2 or 3 fills up. htop's tables that remove
  items have 127 buckets or more, and the others never shrink below their first size, 7 or more.

**`ScreenManagerProofs`**: `ListIsCurrent`, `FocusIsLive`, and the safety halves of `SortedInTime`
(`BrowsingUndisturbed`) and `ClosesWithTerminal` (`OpenTerminalServed`). `LoopInv` ties each flag of the loop
to the point where it is used: a rescan that a handler asked for is owed only until the check
(`ListInv`), what is left to wait for the sort and what was waited add up
(`SortInv`), the panels that are replaced are to the right of the focus (`PageInv`), and
on an open terminal only the odd timeouts, which are counted, bring the end nearer (`CloseInv`).

**`MainPanelProofs`**: `FollowedIsSelected` (`PanelInv`: rows are of the list, and the followed one has the cursor),
`MenusHitTheirTarget`, `FamiliesAreTagged` (`CallsInv`: the calls that are open are of different rows, tagged since the first began, and
every child of the family has a tag or is still ahead in the call for its parent; that the recursion ends is left to TLC), and `TypedPidIsFound`, with `SearchInv`: `pidSearch` is the number typed, times ten, until it passes the limit.

**`MachineProofs`**

- `CPUsAreTrue`, `LinuxSpec => CPUsTrue`. `CPUInv`: what the machine is (`WorldInv`), a row per known CPU and
  one for their average (`DataInv`), online flags that agree unless CPUs changed in between (`AgreeInv`), and times that are those of
  the last scan (`SeenInv`). Which files of frequencies are there and have a number is any choice (`WithFrequencyStep`).
- `CPUBarsAreTrue`, `CPUSpec => CPUBarsTrue` if `NarrowClicks`: fewer clicks than the counters are wide, which
  the hypothesis is for (on Solaris the differences are unsigned, of 16 bits in the model). `CPUsInv`: clicks are
  never lost (`ClicksInv`); only two systems know of CPUs that are off (`FlagsInv`); once the CPUs are counted again after
  a switch their number is right, and they are the right ones unless some were swapped (`SettledInv`); then the rows that are read
  with each scan keep the times of the reading before (`KeptInv`). The average is a sum in the order of the loop, the property one over a set:
  both are the last of a sequence of sums (`Prefix`, `SumIsPrefix`), and differences
  and sums change places (`SumDifference`). Its parts are rounded once (`MeanFacts`).
- `MemoryIsRight`, `MemorySpec => []MemoryAddsUp`. While counts are read one after the other, `Cur` is what each
  has been read as or would be read as now; reading the next one does not change it, and a page that
  moves changes it by at most one, which `moved` counts (`ReadInv`). What is made of the counts (`CountedInv`) has a part per
  way of counting: pages in use less what is available (`BSDCounted`), Linux's subtractions (`LinuxCounted`), and
  each page once (`OnceCounted`).
- `PlatformIsTrue`, `PlatformSpec => []PlatformTrue`, for any `MaxPid` and any number of kernel steps. `ListInvs`: the kernel's processes
  are what they claim (`KernInv`: the names a process has had, which one is the kernel's, who has a parent); the entries are of
  processes that had the pid, and no other has had it since (`EntriesInv`, which `Rested` keeps: a pid is not
  given out again before a scan has seen it free); a row, also one of a scan before, is
  such a process's or its thread's, and fixed by its key (`RowsInv`); in a scan the entries handled so far
  are the rows marked as updated, each shown as far as it is known, OpenBSD's thread counts included
  (`ScanInv`), and the counters are those of the processes among them (`CountInv`). Each system's way to fill a row has a lemma
  (`FreeBSDRow` to `PCPRow`, together `HandledIs`), and `CountedIs` says what each adds to the counters. The statement needs nothing
  of the order in which the kernel lists processes, only that threads follow theirs, which the first thread
  of OpenBSD's processes is recognised by.

**`SetupProofs`**

- `AffinityIsSound`: the list on the screen is what `AffinityPanel_update` makes of the tree and the set (`ItemsInv`), and the set
  is the one that was asked for until a key changes it (`KeptInv`).
- `HeaderIsSound`, `NoMeterIsLost`: `HeaderInv` says that columns hold each meter at most once (`ColumnsOK`), each panel of the page
  has the items, the styles and a valid selection of its column (`PageInv`), spans and height are those of the columns
  (`LinesInv`), and the settings hold what is shown unless marked as changed (`SavedInv`). The lemmas before it
  say what each edit of a column does to all three; `LayoutFacts`, that a smaller layout puts each meter of the columns it
  takes away once into the last, is an induction over the set of those columns.
- `SetupIsSound`: `PagesInv` has a part for each page, fields, colours and numbers. It holds on terminals with and without colours.
- `FilesAreWhole`, `MigrationLosesNothing`: the state of the reader after `i` lines of what
  `Settings_write` makes has a closed form (`ReadTo`): the columns before the line are as they were written, the others are empty, the one
  between has its names but no modes. So a header is not valid before its last line
  (`NotYetValid`), nor after a part of a line that is not all of it (`ReadPart`), and it is the whole one after (`ReadComplete`).
  `SettingsInv` then says where the file is on the way: what is written and what is still to write are
  the whole (`WriteInv`), a file once begun is a beginning of it, perhaps with a part of a line
  (`BegunInv`), a saved one is all of it (`WrittenInv`), and a legacy file is moved only if it gave a valid header (`MigrateInv`).

**`ScreenProofs`**

- `SnapshotIsShown`, `SnapshotSpec => []ShowsSnapshot`, and `CursorIsSound`, `SnapshotSpec => CursorSound`. `SnapInv`: the lines are
  those read last, sorted, and the panel is what a fold over them leaves of those that pass the filter (`Only`).
  Reading makes the panel in another way, by a sort of its own; it is the same because
  a strict order allows one sequence only (`OrderIsOne`, `SortedPanel`). That the sort is by `strcmp` and then by the order read, and that this
  is a strict order, are `LessFacts` and `OrderOfTexts`. `KeysStep` has a case per key. What F3 has
  looked at are the lines between the cursor and where it is, none of which matches (`FindFacts`, `FindStep`, `FindSkips`); one step
  more is one further (`StepAway`), of less than the panel has (`AwayRange`), which is why it ends. The theorem about the cursor
  is not about `TraceScreen`, where TLC checks the same property: `InfoScreen_appendLine` compares only the new part of a line with
  the filter, so that panel may lack lines that pass until the filter is applied again.
- `WrappingIsRight`, `CommandSpec => []WrapsAtSpaces`. `WrapInv`: the lines shown and the one being filled are the command
  so far (`TextKept`); the space remembered is one of the line being filled, and not the one it begins with
  (`SpaceInv`), or a line would be shown empty; what follows a line that is not full begins with a space (`PiecesInv`).

**`FoldFacts`** has what these share: induction over a set of numbers and over subsets of a finite set (stated with
sets in place of the predicate), that a fold over a sequence is the last of a sequence of states,
each of which follows from the one before, that a loop over an interval has such states (`ChainExists`, `ChainType`), what
removing from and inserting into a sequence gives, and the arithmetic of a ring (`ModAdd`, `ModReach`).

Only model-checked:

- liveness: the provers know neither fairness nor `ENABLED`;
- what is written with RECURSIVE operators, which take the SMT backend away from every module that reaches
  them: `ProcessTree` (`TreeDrawn`, `SortedForest`);
- what would need an induction over data whose statement has an operator for a parameter, as
  for the text algorithms of `CommandText`;
- the other modules about what is read and shown (`LinuxTask`,
  `MeterReadings`, `CPUTemperatures`, `MeterDrawing`, `MergedCommand`, `ProcessFields`,
  `TraceScreen`).

## What the models found

Two disagreements have a run:

- `violation_paused_sort`: in list view, pause (`Z`), switch to tree view (`t`), invert
  (`I`). `actionInvertSortOrder` sorts a paused list at once (`Action.c:282`), but
  `displayTreeSet` was not built since the list was last in tree view: `updateTreeSet`
  asserts that it has the size of the list (`ProcessList.c:320`).
- `violation_continued_line`: a line of `strace` is continued while the filter hides
  all lines: `InfoScreen_appendLine` reads the last item of an empty panel (`InfoScreen.c:75`,
  asserted against in `Vector.c:75`).

Others are kept as definitions. Each is refuted by TLC when it replaces the
properties of the named configuration:

| definition | configuration | what happens |
|---|---|---|
| `ProcessList!NoTreeLoop` | `ProcessList_commands`, `MaxInc = 2` | a tombed row keeps its parent's pid; a reused pid closes a loop, which `buildTree` takes to be impossible (`ProcessList.c:477`) |
| `ProcessList!TombsAreDead` | `ProcessList_options`, `MaxInc = 2`, `Spec` | between the scan that tombs a row and the next one its pid is used again; proved for `MaxInc = 1` |
| `ProcessList!HiddenByKind` | `ProcessList_commands`, `MaxInc = 2` | a process with the pid of a former kernel thread is taken for one (`linux/LinuxProcessList.c:1420`) |
| `MainPanel!UntagAllUntags` | `MainPanel_keys` | "Untag all processes" (`htop.1.in:138`): tags of filtered processes stay |
| `MainPanel!SignalsAllTagged` | `MainPanel_keys` | "sends the signal to all tagged processes" (`htop.1.in:205`): those with a row get it |
| `Vector!VectorNoAssertionFails` | `Containers`, `MaxSplice = 3` | `Vector_splice` adds to `items` before `Vector_checkArraySize`, whose first assertion fails if the array is not long enough yet: the affinity panel on more than `DEFAULT_SIZE` CPUs |
| `HeaderSetup!MovingKeepsFocus` | `Setup` | "lock user here until it exits positioning-mode" (`MetersPanel.c:155`): Tab, Ctrl-F and Ctrl-B take the focus elsewhere while a meter is moving |
| `HeaderSetup!NoAssertionFails` | `Setup` | moving a meter in an empty column (`Vector.c:246`) |
| `Settings!OnlyBrokenReset` | `Setup` | "only settings that cannot be parsed properly are reset" (`ChangeLog:52`): a header with an empty column is |
| `Settings!WrittenIsRead` | `Setup` | a legacy file that cannot be deleted wins over the written one (`htop.1.in:572`) |
| `TraceScreen!LiveUpdate` | `TraceScreen_assert` with `FairTraceSpec` | "a live update of system calls" (`htop.1.in:142`): `select` does not know what stdio holds, which stays there until more is written |
| `CommandScreen!LineFits` | `Screens` | `line_offset < sizeof(line)` (`CommandScreen.c:23`): if the last space of a full line is its first character, nothing is taken off the line, which grows by one more |
| `LinuxCPUs!NoAssertionFails` | `Machine` | the directory of a CPU disappears: `existing == currExisting` fails |
| `PlatformMemory!UsedNotNegative` | `Machine` | on PCP the reclaimable slab is taken off the used memory twice, then the ARC (`pcp/PCPProcessList.c:484-488`, `pcp/Platform.c:501-503`): with four pages the used part of the bar is below zero |
| `PlatformScan!HidesThreads` | `Machine` | "prevent the threads belonging the kernel to be displayed" (`htop.1.in:246`): NetBSD decides whether a new row is shown before it knows what it is (`NetBSDProcessList.c:278`, `287`) |
| `MergedCommand!DeletedTrue` | `Rows`, `MaxCommandSteps = 2` | "Tells if the executable has been replaced in the filesystem since start" (`Process.h:183`): the mark is only looked for, and cleared, in names longer than itself, so that it stays when the process executes one of up to ten characters (`LinuxProcessList.c:1271`) |
| `LinuxTask!CPUCurrent` | `Rows`, `MaxTaskSteps = 3` | "The percentage of the CPU time that the process is currently using" (`htop.1.in:422`): after passes that did not read the task, the growth of all of them is divided by the time of the last (`LinuxProcessList.c:1426-1440`, `1487`) |
| `LinuxTask!SmapsEverySecondPass` | `Rows` | "Read smaps file of each process only every second pass" (`LinuxProcessList.c:1472`): the turns change when pid 1 is read; where it is not listed, odd pids are never read |
| `ProcessFields!ElapsedShown` | `Rows`, `ClockSteps <- Back` | the clock is set back behind the start of a process: `realtimeMs / 10 - 100 * starttime_ctime` wraps (`Process.c:871`), the text of `Process_printTime` does not fit its ten characters, and `xSnprintf` ends htop |
| the same | `Rows`, `FiguresOf <- TheLongFigures` | a `cgroup` of more characters than the buffer of the field has is printed uncut (`LinuxProcess.c:249`), and `xSnprintf` ends htop |
| `AffinityPanel!FullPartsCollapsed` | `Setup` | "if obj is fully included or fully excluded, collapse the item" (`AffinityPanel.c:303`): only what is excluded is |
| `MeterReadings!BatteryReturns` | `Machine` | one reading without a battery, and none is asked for again (`linux/Platform.c:803-815`) |
| `MeterReadings!NoDataShown` | `Machine` | when a reading fails, the first meter says "no data" and returns, the second shows the old figures (`DiskIOMeter.c:51-54`) |
| `MeterReadings!RateAfterFailure` | `Machine` | after a reading that failed the growth of two periods is divided by one (`DiskIOMeter.c:77`) |

What the new modules show of the code without a property of their own, because the model
follows the code and the properties leave the case out by name:

- *CPUs.* If every file of a frequency can be opened but none has a number, `/proc/cpuinfo` is not asked
  (`LinuxProcessList.c:2025`); a CPU whose own file has none shows no frequency beside an average that others make.
- *Platforms.* DragonFly reads jails before processes, and a jail entered in between is shown as "-" for
  ever (`DragonFlyBSDProcessList.c:429`, `438`). FreeBSD subtracts the ARC that was read before the
  wired pages it is part of. PCP shows shared memory twice, as used and as shared (`pcp/PCPProcessList.c:484-488`, `pcp/Platform.c:495-497`), shifts the figures of
  the CPUs behind one that is off, and never toggles `smaps_flag`
  (`PCPProcessList.c:691`). OpenBSD keeps the online flags of a CPU that another replaced
  (`OpenBSDProcessList.c:54-75`). NetBSD's and PCP's average frequency is 0. NetBSD adds the bytes of its
  network cards to a record that was never set (`netbsd/Platform.c:388`, `NetworkIOMeter.c:44`).
- *Rates and figures.* A first reading that fails lets the next one show all since boot. Disk figures
  are per reading, not per second. A disk whose name begins with that of the one before
  (`nvme0n1`, `nvme0n10`) is taken for its partition (`linux/Platform.c:561`). The rate after a
  failed `io` file is over the wrong period (`LinuxProcessList.c:479-485`). Huge pages free beyond the pool
  underflow (`:1739`), RAM disks behind a gap in their numbers are not seen (`:1757`), and each line of a
  `cgroup` file overwrites the one before (`:866-881`).
- *Sensors.* Which CPU has which temperature is a guess, and wrong in the four cases that
  `CPUTemperatures!Ambiguous` lists; each of them alone makes TLC refute `TemperaturesTrue` without it.
- *Command.* A process whose command line is empty during an `exec` stays a kernel thread
  (`LinuxProcessList.c:1116`). `Process_updateCmdline` asserts what an `argv[0]` that ends in
  "/" does not give. Names are read again only with `updateProcessNames`, which is off at first
  (`Settings.c:499`), and on macOS and Solaris never: a process that has called `exec` keeps the names it was first
  seen with. The BSDs and macOS read the executable of new rows only, so that a BSD that does read the names again shows the first
  executable in front of the new command line. `NamesNow` is about the rows that are read; the model reads the state and the command line of a
  process in one step. Options
  that change while paused show the old text.
- *Rows.* `TTY`, `CTID` and `CGROUP` are padded but not cut (`Process.c:951`, `LinuxProcess.c:243`, `249`), and numbers with
  more digits than their column are printed whole: both shift the rest of the line, and `RowsLineUp` leaves such rows out (`Overlong`).
  `PSSWP` and `AGRP` have titles of another width than their columns; a uid that is an exact power of ten
  and sizes from 100 P are one character too wide; the missing numbers of the delay columns compare equal to all
  others, so that the order is not one; a row keeps the start time of an earlier process with its pid.
- *Setup.* A list of CPUs does not end if htop believes an allowed CPU to be offline
  (`AffinityPanel.c:385-408`); without hwloc CPUs from 64 on are dropped (`Affinity.c:111`); the flags of
  dynamic columns are not added; on a terminal without colours htop starts in monochrome and the settings keep their scheme,
  which the page marks (`CRT.c:932`), but a scheme that is then picked is used all the same; `hide_function_bar` is not clamped (`Settings.c:330`).
- *Graph.* After the clock is set back a graph stands still until the time of its last value.

## What is not modelled

Every part has a line in `PROJECT.json` with its reason. In short: the terminal (colours, curses, signals,
stderr), the options of the command line, the expressions of PCP's dynamic meters and columns, the class mechanism and
string helpers; meters that print one number, and the text and LED styles.
Within modelled components: `ProcessList` takes the order of rows as an
abstract rank in `ProcessTree` (the comparison is in `ProcessFields`); `ScreenManager` leaves out the
coordinates and the nested loop of a menu (it is in `MainPanel`); `HeaderSetup` multi-column, blank and
parametrised meters; `Settings` has one option for the many that are lines `name=number`; `LinuxCPUs` has one
counter for ten; `PlatformScan` leaves out tombstones and fields that are only copied, takes the list of Solaris as read at
one moment, although `proc_walk` reads process by process (`SolarisProcessList.c:546`, so that there each entry is of a moment of its own), and gives no pid out again before a scan has seen it free (`Rested`; htop takes such a process for the old one); `ProcessFields` the
colours of a field and fields that only other systems have; `MeterReadings` one counter for read, written and
time; `MeterDrawing` the characters of a graph's dots; the screens do not draw. A signal that reaches another process
because a pid was reused since the last scan is inherent in signalling by pid.

## Plan

The order was: the list and its scan, the tree, the event loop, the containers, then what
edits and stores, then what is read and shown. What is next:

1. *More of the system.* `CRT.c` (the signal handlers and the redirection of stderr); `ScreenManager` with the nested
   loop of a menu; PCP's metrics that are switched on and off with columns; the order of start and end in
   `CommandLine.c`.
2. *Abstract specifications.* A scan seen as one step on the set of tasks, which
   `ProcessList` implements; a forest, which `ProcessTree` implements; a header as a
   list of lists, which the panels of `HeaderSetup` implement.
3. *Theorems*, where TLC already agrees: `IORates` of `MeterReadings`, `CommandFresh` of
   `MergedCommand`, `RatesTrue` of `LinuxTask`; that `ProcessTree` draws a forest, once its recursion is
   rewritten as functions.
4. *Runs.* New modules join the sums or the run of the component they belong to; a
   property gives way when a deeper one implies it.
