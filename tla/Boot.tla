-------------------------------- MODULE Boot --------------------------------
(***************************************************************************)
(* From GRUB to the first thread: the loader (MyLoader/main.cpp) turns on  *)
(* paging, moves the three modules and loads the microkernel, which sets   *)
(* up its memory (memory.cpp, mKMM.cpp) and loads the root server into an  *)
(* address space of its own (elfLoader.cpp).                               *)
(*                                                                         *)
(* Addresses and sizes are in MB, rounded up, and so are the two bytes     *)
(* between moved modules. A page directory is a function from its present  *)
(* entries to the first MB of the 4 MB they map. A file is one segment,    *)
(* followed by bytes that are zero.                                        *)
(***************************************************************************)
EXTENDS Integers, Sequences

CONSTANTS Memories,   \* sizes of the physical memory
          Starts,     \* where GRUB may put a module
          Sizes       \* of a module, and of the zeroes behind the root server

ASSUME BootAssumption ==
  Memories \subseteq Nat /\ Starts \subseteq Nat /\ Sizes \subseteq Nat \ {0}

MICROKERNEL_BASE_ADDRESS  == 4
KERNEL_PAGE_TABLE_ADDRESS == 5
MICROKERNEL_HEAP2         == 9
KERNEL_BASE_ADDRESS       == 12
MICROKERNEL_ADDRESS       == 3072
HardwareMemory            == 4080
FirstModule               == 20
PagesPerMB                == 256

Files == <<"microkernel", "root", "ramdisk">>

Cell == [of : {"microkernel", "root", "ramdisk", "tables", "pages", "directory",
               "zero", "other"}, part : Nat]
Single(kind) == [of |-> kind, part |-> 0]

VARIABLES memory,      \* MB of physical memory
          module,      \* where GRUB put each module: start, size; zeroes of the root
          ram,         \* what each MB holds
          stage,       \* the next step
          address,     \* where the moved modules lie
          pd,          \* the page directory in use, of the loader and the kernel
          rootPD,      \* the one of the root server
          allocator,   \* kAllocator, in pages
          bootInfo     \* ramdisk1 as told to the root server

bootVars == <<memory, module, ram, stage, address, pd, rootPD, allocator, bootInfo>>
given == <<memory, module>>

Extent(start, size) == start .. start + size - 1
Place(m) == Extent(module[m].start, module[m].size)

Loaded(m, place) ==
  \A k \in 1 .. 3 : k # m => Place(k) \intersect place = {}

\* What GRUB leaves behind: modules that do not overlap, the first MB used otherwise. A
\* microkernel takes less than 1 MB, because its heap begins behind it and ends 1 MB
\* after its address (InitMemory); the loader asks for less than 4 and checks neither.
BootInit ==
  /\ memory \in Memories
  /\ module \in [1 .. 3 -> [start : Starts, size : Sizes, zeroes : Sizes \union {0}]]
  /\ module[1].size = 1 /\ module[1].zeroes = 0 /\ module[3].zeroes = 0
  /\ \A m \in 1 .. 3 : Loaded(m, Place(m)) /\ Place(m) \subseteq 2 .. memory - 1
  /\ ram = [a \in 0 .. memory - 1 |->
              IF \E m \in 1 .. 3 : a \in Place(m)
              THEN LET m == CHOOSE m \in 1 .. 3 : a \in Place(m)
                   IN  [of |-> Files[m], part |-> a - module[m].start]
              ELSE Single("other")]
  /\ stage = "paging"
  /\ address = <<>>
  /\ pd = <<>> /\ rootPD = <<>>
  /\ allocator = [data |-> 0, count |-> 0, index |-> 0]
  /\ bootInfo = 0

-----------------------------------------------------------------------------
(* Paging.                                                                 *)

Physical(dir, v) == dir[v \div 4] + (v % 4)
Mapped(dir, v) == v \div 4 \in DOMAIN dir /\ Physical(dir, v) < memory
AllMapped(dir, place) == \A v \in place : Mapped(dir, v)

\* Mutant: memUpper is taken for a number of KB that is still to be divided.
EntriesHalved == (memory - 1) \div 8

\* NumeroEntradas: memUpper does not count the first MB.
NumeroEntradas == (memory - 1) \div 4

\* The low memory as it is, the kernel's 12 MB from 3 GB on, and the first 12 MB again
\* from 4080 MB on.
LoaderDirectory(n) ==
  LET kernel  == 768 .. 770
      base(i) == IF i \in kernel THEN MICROKERNEL_BASE_ADDRESS + 4 * (i - 768) ELSE 4 * i
      present == 0 .. n - 1 \union kernel
      window  == {i \in 1020 .. 1022 : i - 1020 \in present}
  IN  [i \in present \union window |-> IF i \in window THEN base(i - 1020) ELSE base(i)]

\* The page tables of the low memory and of the kernel, a page each.
Tables ==
  Extent(KERNEL_PAGE_TABLE_ADDRESS, ((NumeroEntradas + 3) + (PagesPerMB - 1)) \div PagesPerMB)

\* init32bitPagingMode of the loader.
Paging ==
  /\ stage = "paging" /\ stage' = "move"
  /\ pd' = LoaderDirectory(NumeroEntradas)
  /\ ram' = [a \in DOMAIN ram |-> IF a \in Tables THEN Single("tables") ELSE ram[a]]
  /\ UNCHANGED <<given, address, rootPD, allocator, bootInfo>>

-----------------------------------------------------------------------------
(* Copying, from the first byte to the last; what has been written is read *)
(* again if it lies ahead.                                                 *)

Copied(mem, dir, dst, src, size) ==
  LET after[k \in 0 .. size] ==
        IF k = 0 THEN mem
        ELSE [after[k - 1] EXCEPT ![Physical(dir, dst + k - 1)] =
                after[k - 1][Physical(dir, src + k - 1)]]
  IN  after[size]

Zeroed(mem, dir, place) ==
  [a \in DOMAIN mem |-> IF \E v \in place : Physical(dir, v) = a THEN Single("zero") ELSE mem[a]]

Fault == stage' = "fault" /\ UNCHANGED <<given, ram, address, pd, rootPD, allocator, bootInfo>>

\* The first module goes to 20 MB, each other one two bytes behind the one before.
Destination ==
  LET n == Len(address)
  IN  IF n = 0 THEN FirstModule ELSE address[n] + module[n].size + 1

MoveModule ==
  LET m    == Len(address) + 1
      from == Place(m)
      to   == Extent(Destination, module[m].size)
  IN  /\ stage = "move"
      /\ IF AllMapped(pd, from \union to)
         THEN /\ ram' = Copied(ram, pd, Destination, module[m].start, module[m].size)
              /\ address' = Append(address, Destination)
              /\ stage' = (IF m = 3 THEN "load" ELSE "move")
              /\ UNCHANGED <<given, pd, rootPD, allocator, bootInfo>>
         ELSE Fault

\* What was not brought over whole does not run.
Intact(m) ==
  \A k \in 0 .. module[m].size - 1 :
    ram[Physical(pd, address[m] + k)] = [of |-> Files[m], part |-> k]

LoadMicrokernel ==
  /\ stage = "load"
  /\ IF Intact(1) /\ Mapped(pd, MICROKERNEL_ADDRESS)
     THEN /\ ram' = Copied(ram, pd, MICROKERNEL_ADDRESS, address[1], module[1].size)
          /\ stage' = "setup"
          /\ UNCHANGED <<given, address, pd, rootPD, allocator, bootInfo>>
     ELSE Fault

-----------------------------------------------------------------------------
(* The kernel's own set-up.                                                *)

\* CreatePageAllocator: the first pages hold the numbers of the others, 1024 each.
CreatePageAllocator(begin, end) ==
  LET pages == (end - begin) * PagesPerMB
      used  == CHOOSE c \in 0 .. pages :
                 c * 1024 >= pages - c /\ (c = 0 \/ (c - 1) * 1024 < pages - (c - 1))
  IN  [data |-> begin * PagesPerMB + used, count |-> pages - used, index |-> 0]

\* The page given out next.
AllocPage == allocator.data + allocator.index

\* setupHardware; of memory it touches the screen, through the window at 4080 MB, its
\* copy of the directory, inside its own image, and the numbers of the free pages.
SetupHardware ==
  LET heap2 == MICROKERNEL_ADDRESS + MICROKERNEL_HEAP2
  IN  /\ stage = "setup"
      /\ IF AllMapped(pd, {HardwareMemory, heap2})
         THEN /\ pd' = [i \in DOMAIN pd \union 1020 .. 1022 |->
                          IF i \in 1020 .. 1022 THEN pd[i - 1020] ELSE pd[i]]
              /\ allocator' = CreatePageAllocator(heap2, MICROKERNEL_ADDRESS + KERNEL_BASE_ADDRESS)
              /\ ram' = [ram EXCEPT ![Physical(pd, heap2)] = Single("pages")]
              /\ stage' = "root"
              /\ UNCHANGED <<given, address, rootPD, bootInfo>>
         ELSE Fault

\* Mutant: the kernel's entries are set before the spare ones are cleared.
RootDirectoryCleared(n) ==
  [i \in 0 .. n - 4 \union 1020 .. 1022 |-> IF i \in 1020 .. 1022 THEN pd[i - 1020] ELSE pd[i + 3]]

\* Mutant: the user's memory begins one entry earlier.
RootDirectoryEarly(n) ==
  [i \in 0 .. n - 3 \union 768 .. 770 \union 1020 .. 1022 |->
     IF i \in 1020 .. 1022 THEN pd[i - 1020] ELSE IF i \in 768 .. 770 THEN pd[i] ELSE pd[i + 2]]

\* The root server sees the memory from 12 MB on from 0 on, the kernel where it is
\* and the first 12 MB from 4080 MB on; the rest is not present.
RootDirectory(n) ==
  [i \in 0 .. n - 4 \union 768 .. 770 \union 1020 .. 1022 |->
     IF i \in 1020 .. 1022 THEN pd[i - 1020] ELSE IF i \in 768 .. 770 THEN pd[i] ELSE pd[i + 3]]

\* LoadRootServer: a page for the directory, which the kernel reaches by its physical
\* address, the image at 12 MB, and the first thread.
LoadRootServer ==
  LET page  == (AllocPage \div PagesPerMB) - MICROKERNEL_ADDRESS
      image == Extent(KERNEL_BASE_ADDRESS, module[2].size)
      zeros == Extent(KERNEL_BASE_ADDRESS + module[2].size, module[2].zeroes)
  IN  /\ stage = "root"
      /\ IF Intact(2) /\ AllMapped(pd, image \union zeros \union {page})
         THEN /\ allocator' = [allocator EXCEPT !.index = @ + 1]
              /\ ram' = LET mem == [ram EXCEPT ![Physical(pd, page)] = Single("directory")]
                        IN  Zeroed(Copied(mem, pd, KERNEL_BASE_ADDRESS, address[2], module[2].size),
                                   pd, zeros)
              /\ rootPD' = RootDirectory(NumeroEntradas)
              /\ bootInfo' = address[3] - KERNEL_BASE_ADDRESS
              /\ stage' = "run"
              /\ UNCHANGED <<given, address, pd>>
         ELSE Fault

BootNext == Paging \/ MoveModule \/ LoadMicrokernel \/ SetupHardware \/ LoadRootServer

BootSpec == BootInit /\ [][BootNext]_bootVars

-----------------------------------------------------------------------------
(* Properties.                                                             *)

\* Where a module is moved to.
TargetStart(m) ==
  CASE m = 1 -> FirstModule
    [] m = 2 -> FirstModule + module[1].size + 1
    [] m = 3 -> FirstModule + module[1].size + 1 + module[2].size + 1
Target(m) == Extent(TargetStart(m), module[m].size)

\* The memory beyond the first MB is used in pieces of 4 MB.
Usable == (memory - 1) - ((memory - 1) % 4)

\* The loader maps the kernel from 3 GB on, also over memory that lies there.
BelowKernel == memory <= MICROKERNEL_ADDRESS

\* What the loader counts on and does not check: the modules lie in memory that is
\* mapped, also when they are moved, the root server ends before them, and all of the
\* memory lies below the kernel's addresses.
Room ==
  /\ BelowKernel
  /\ \A m \in 1 .. 3 : \A a \in Place(m) \union Target(m) : a < Usable
  /\ KERNEL_BASE_ADDRESS + module[2].size + module[2].zeroes <= FirstModule

\* Nothing is written over a module before it is moved: not the page tables, not a
\* module moved earlier, not its own first bytes.
Spared ==
  \A m \in 1 .. 3 :
    /\ Tables \intersect Place(m) = {}
    /\ \A e \in 1 .. m - 1 : Target(e) \intersect Place(m) = {}
    /\ TargetStart(m) \notin Place(m) \ {module[m].start}

\* The whole file of a module is seen at an address of an address space.
Seen(dir, v, m) ==
  \A k \in 0 .. module[m].size - 1 :
    /\ Mapped(dir, v + k)
    /\ ram[Physical(dir, v + k)] = [of |-> Files[m], part |-> k]

\* With room for everything no access faults, wherever GRUB has put the modules as long
\* as they are spared.
NoFault == Room /\ Spared => stage # "fault"

\* The first thread finds what GRUB loaded: its image at 0 and zeroes behind it, its ram
\* disk where the boot information says, and the hardware's memory at 4080 MB.
RootFindsItsFiles ==
  stage = "run" /\ Room /\ Spared =>
    /\ Seen(rootPD, 0, 2)
    /\ \A v \in Extent(module[2].size, module[2].zeroes) : ram[Physical(rootPD, v)] = Single("zero")
    /\ Seen(rootPD, bootInfo, 3)
    /\ \A v \in Extent(0, KERNEL_BASE_ADDRESS) : Physical(rootPD, HardwareMemory + v) = v

\* Where the kernel keeps the numbers of its free pages: at 13 MB, since the loader maps
\* 3 GB to 4 MB, and not at the 9 MB that memory.h says.
FreePages == ram[Physical(pd, MICROKERNEL_ADDRESS + MICROKERNEL_HEAP2)]

\* Nothing that comes later is written over the microkernel, the page tables or the
\* directory of the root server, the kernel is at 3 GB in both address spaces, and the
\* numbers of its free pages stay if the root server takes no more than 1 MB; a larger
\* one is written over them.
KernelStays ==
  /\ stage \in {"setup", "root", "run"} /\ BelowKernel =>
       /\ Seen(pd, MICROKERNEL_ADDRESS, 1)
       /\ Spared /\ Room => \A a \in Tables : ram[a] = Single("tables")
  /\ stage = "run" /\ BelowKernel =>
       /\ Seen(rootPD, MICROKERNEL_ADDRESS, 1)
       /\ \E a \in DOMAIN ram : ram[a] = Single("directory")
       /\ module[2].size + module[2].zeroes <= 1 => FreePages = Single("pages")

=============================================================================
