--------------------------- MODULE PlatformMemory ---------------------------
(****************************************************************************)
(* The Memory meter: what each system's scan reads about the pages of the   *)
(* machine, one number after the other while pages change their use, and    *)
(* how it makes of them the parts of one bar.  The other figures of memory  *)
(* on Linux, huge pages and compressed RAM disks, are read the same way.    *)
(****************************************************************************)
EXTENDS Integers, Sequences

CONSTANTS
    MemorySystems,   \* the systems looked at
    Pages,           \* pages of the machine
    MaxMoves         \* bound: pages that change their use

AllMemorySystems == {"linux", "pcp", "freebsd", "dragonfly", "openbsd", "netbsd", "solaris", "darwin"}
ASSUME PlatformMemoryAssumption ==
    MemorySystems \subseteq AllMemorySystems /\ Pages \in Nat \ {0} /\ MaxMoves \in Nat

VARIABLES
    machine,      \* the system
    use,          \* how many pages are in each use
    huge,         \* Linux: huge pages, those in use and those free
    disks,        \* Linux: the numbers of the RAM disks
    moves, moved, \* how often pages moved, and in this scan
    toRead,       \* what the scan still reads
    got,          \* what it has read
    memStage      \* "idle", "read" or "shown"
worldOfMemory == <<machine, use, huge, disks, moves>>
memoryVars == <<worldOfMemory, moved, toRead, got, memStage>>

\* shared: pages of files in memory only; slab: the kernel's, to be had back;
\* arc: the cache of ZFS, among the kernel's, too.
Uses == {"program", "kernel", "arc", "slab", "buffers", "file", "shared", "free"}
InUse == use["program"] + use["kernel"] + use["arc"] + use["slab"] + use["buffers"] + use["file"] + use["shared"]

MemoryInit ==
    /\ machine \in MemorySystems
    /\ use \in [Uses -> 0 .. Pages] /\ InUse + use["free"] = Pages
    /\ use["kernel"] > 0 /\ (machine \notin {"linux", "pcp", "freebsd"} => use["arc"] = 0)
    /\ huge \in IF machine = "linux" THEN [used : 0 .. 1, free : 0 .. 1] ELSE {[used |-> 0, free |-> 0]}
    /\ disks \in IF machine = "linux" THEN SUBSET (0 .. 1) ELSE {{}}
    /\ moves = 0 /\ moved = 0 /\ toRead = <<>> /\ got = <<>> /\ memStage = "idle"

Moved(newUse, newHuge, newDisks) ==
    /\ moves < MaxMoves /\ moves' = moves + 1
    /\ moved' = (IF memStage = "read" THEN moved + 1 ELSE moved)
    /\ use' = newUse /\ huge' = newHuge /\ disks' = newDisks
    /\ memStage' = (IF memStage = "shown" THEN "idle" ELSE memStage)
    /\ UNCHANGED <<machine, toRead, got>>

Move(from, to) ==
    /\ from # to /\ use[from] > 0 /\ "kernel" \notin {from, to}
    /\ "arc" \in {from, to} => machine \in {"linux", "pcp", "freebsd"}
    /\ Moved([use EXCEPT ![from] = @ - 1, ![to] = @ + 1], huge, disks)

\* The pool of huge pages changes, as when the administrator resizes it.
Resize(used, free) ==
    /\ machine = "linux" /\ [used |-> used, free |-> free] # huge
    /\ Moved(use, [used |-> used, free |-> free], disks)

\* RAM disks are added and removed by number.
AddDisk(d) == machine = "linux" /\ Moved(use, huge, disks \cup {d})
RemoveDisk(d) == machine = "linux" /\ d \in disks /\ Moved(use, huge, disks \ {d})

(****************************************************************************)
(* What is read at once, in the order of the source.                        *)
(****************************************************************************)
ReadsOf ==
    CASE machine = "linux" -> <<"meminfo", "nr_hugepages", "free_hugepages", "arc", "zram">>
      [] machine = "pcp" -> <<"fetch">>
      [] machine = "freebsd" -> <<"arc", "active", "wired", "buffers", "cache">>
      [] machine = "dragonfly" -> <<"active", "wired", "buffers", "cache">>
      [] machine = "openbsd" -> <<"uvmexp", "bcachestats">>
      [] OTHER -> <<"all">>

\* All that one reading can tell.
Numbers ==
    [active |-> use["program"] + use["shared"], free |-> use["free"],
     wired |-> use["kernel"] + use["arc"] + use["slab"], arc |-> use["arc"],
     buffers |-> use["buffers"], cache |-> use["file"],
     cached |-> use["file"] + use["shared"], shared |-> use["shared"], slab |-> use["slab"],
     hugeTotal |-> huge.used + huge.free, hugeFree |-> huge.free, disks |-> disks]

Told(what) ==
    CASE what = "meminfo" -> {"free", "buffers", "cached", "shared", "slab"}
      [] what \in {"fetch", "all"} -> DOMAIN Numbers \ {"disks"}
      [] what = "nr_hugepages" -> {"hugeTotal"}
      [] what = "free_hugepages" -> {"hugeFree"}
      [] what = "zram" -> {"disks"}
      [] what = "uvmexp" -> {"free"}
      [] what = "bcachestats" -> {"buffers", "cache"}
      [] OTHER -> {what}

StartReading ==
    /\ memStage \in {"idle", "shown"} /\ memStage' = "read"
    /\ toRead' = ReadsOf /\ got' = <<>> /\ moved' = 0 /\ UNCHANGED worldOfMemory

ReadNext ==
    /\ memStage = "read" /\ toRead # <<>> /\ toRead' = Tail(toRead)
    /\ got' = [n \in DOMAIN got \cup Told(Head(toRead)) |->
                  IF n \in Told(Head(toRead)) THEN Numbers[n] ELSE got[n]]
    /\ UNCHANGED <<worldOfMemory, moved, memStage>>

ShowMemory ==
    /\ memStage = "read" /\ toRead = <<>> /\ memStage' = "shown"
    /\ UNCHANGED <<worldOfMemory, moved, toRead, got>>

MemoryNext ==
    \/ \E from, to \in Uses : Move(from, to)
    \/ \E used, free \in 0 .. 1 : Resize(used, free)
    \/ \E d \in 0 .. 1 : AddDisk(d) \/ RemoveDisk(d)
    \/ StartReading \/ ReadNext \/ ShowMemory

MemorySpec == MemoryInit /\ [][MemoryNext]_memoryVars

(****************************************************************************)
(* The parts of the bar: the values of MemoryMeter, with a part that the    *)
(* system does not have as 0.                                               *)
(****************************************************************************)
Parts(used, buffers, shared, cached) ==
    [used |-> used, buffers |-> buffers, shared |-> shared, cached |-> cached]

\* Mutant: shared memory is subtracted from the used, too.
LinuxProcessList_scanMemoryInfo_Twice ==
    LET usedDiff == got.free + got.cached + got.slab + got.buffers + got.shared
    IN  Parts(IF Pages >= usedDiff THEN Pages - usedDiff ELSE Pages - got.free,
              got.buffers, got.shared, got.cached + got.slab - got.shared)

LinuxProcessList_scanMemoryInfo ==
    LET usedDiff == got.free + got.cached + got.slab + got.buffers
    IN  Parts(IF Pages >= usedDiff THEN Pages - usedDiff ELSE Pages - got.free,
              got.buffers, got.shared, got.cached + got.slab - got.shared)

\* Here the cached are reduced before they are subtracted.
PCPProcessList_updateMemoryInfo ==
    LET cached == got.cached + got.slab - got.shared
        usedDiff == got.free + cached + got.slab + got.buffers
    IN  Parts(IF Pages >= usedDiff THEN Pages - usedDiff ELSE Pages - got.free,
              got.buffers, got.shared, cached)

\* The cache of ZFS is one of the kernel's pages, and is shown with the others.
WithArc(parts) == [parts EXCEPT !.used = @ - got.arc, !.cached = @ + got.arc]

FreeBSDProcessList_scanMemoryInfo ==
    Parts(got.active + (got.wired - got.arc), got.buffers, 0, got.cache + got.arc)
DragonFlyBSDProcessList_scanMemoryInfo ==
    Parts(got.active + got.wired, got.buffers, 0, got.cache)

\* In use is what is not free; the cache is subtracted when it is shown.
OpenBSDProcessList_scanMemoryInfo ==
    LET cached == got.buffers + got.cache
    IN  Parts((Pages - got.free) - cached, 0, 0, cached)

NetBSDProcessList_scanMemoryInfo == Parts(got.active + got.wired, 0, 0, got.cache + got.buffers)

\* The buffers are pages the kernel has taken for itself at the start.
SolarisProcessList_scanMemoryInfo ==
    Parts(IF Pages > got.free THEN Pages - got.free ELSE 0, got.wired, 0, 0)

Darwin_setMemoryValues == Parts(got.active + got.wired - got.slab, got.slab, 0, got.cache + got.buffers)

Shown ==
    CASE machine = "linux" -> WithArc(LinuxProcessList_scanMemoryInfo)
      [] machine = "pcp" -> WithArc(PCPProcessList_updateMemoryInfo)
      [] machine = "freebsd" -> FreeBSDProcessList_scanMemoryInfo
      [] machine = "dragonfly" -> DragonFlyBSDProcessList_scanMemoryInfo
      [] machine = "openbsd" -> OpenBSDProcessList_scanMemoryInfo
      [] machine = "netbsd" -> NetBSDProcessList_scanMemoryInfo
      [] machine = "solaris" -> SolarisProcessList_scanMemoryInfo
      [] machine = "darwin" -> Darwin_setMemoryValues

\* Differences are unsigned.
Unsigned(n) == n % 65536
LinuxProcessList_scanHugePages == Unsigned(got.hugeTotal - got.hugeFree)

\* The disks are tried by number until there is none.
LinuxProcessList_scanZramInfo == {d \in got.disks : 0 .. d \subseteq got.disks}

(****************************************************************************)
(* Properties.                                                              *)
(****************************************************************************)
Bar == Shown.used + Shown.buffers + Shown.shared + Shown.cached

\* What a system shows besides the pages in use: Solaris the kernel's own once
\* more, PCP shared memory once more and reclaimable slabs once less, and all it
\* calls cached and buffers once more when they seem to be more than there is.
Besides ==
    CASE machine = "solaris" -> got.wired
      [] machine = "pcp" ->
           IF Pages < got.free + got.cached + 2 * got.slab - got.shared + got.buffers
           THEN got.buffers + got.cached + got.slab ELSE got.shared - got.slab
      [] OTHER -> 0

\* More slabs than there are pages of programs, of files in memory and of the
\* kernel's own: what PCP subtracts once more is more than what is used.
SlabsTakenTwice == machine = "pcp" /\ got.slab > got.active + (got.wired - got.arc - got.slab)

\* The bar shows the pages in use once: what it leaves empty is what is free,
\* to the page that moved while the numbers were read ("do not show twice ...
\* do not subtract twice" in LinuxProcessList.c), but for what Besides names.
\* No part is negative, but the used pages by what moved, and on PCP by slabs
\* taken off twice.
\* The huge pages in use are those of the pool, unless it changed meanwhile, and
\* the RAM disks all those whose numbers have no gap.
MemoryAddsUp ==
    memStage = "shown" =>
        /\ (Bar - Besides) - (Pages - use["free"]) \in -moved .. moved
        /\ Shown.used >= -moved \/ SlabsTakenTwice
        /\ Shown.buffers >= 0 /\ Shown.cached >= 0
        /\ machine = "linux" /\ moved = 0 =>
             /\ LinuxProcessList_scanHugePages = huge.used
             /\ disks # {1} => LinuxProcessList_scanZramInfo = disks

\* The used memory is never negative. With four pages TLC refutes this one, by
\* SlabsTakenTwice: PCP subtracts the slabs, which its cached pages have in them,
\* and then the cache of ZFS, from what may be left.
UsedNotNegative == memStage = "shown" => Shown.used >= -moved
=============================================================================
