---------------------------- MODULE MachineProofs ----------------------------
(***************************************************************************)
(* What the machine is left with: the memory from GRUB to the first thread *)
(* (Boot), and what a successful read of a block hands out (Disk).         *)
(***************************************************************************)
EXTENDS Boot, Disk, WellFoundedInduction, TLAPS

-----------------------------------------------------------------------------
(* Induction, from the well-founded order of the natural numbers.          *)

\* A set of natural numbers has a smallest one.
LEMMA Smallest ==
  ASSUME NEW T \in SUBSET Nat, T # {}
  PROVE  \E n \in T : \A m \in T : n <= m
<1>1. \E n \in T : \A m \in T : ~(<<m, n>> \in OpToRel(<,Nat))
  BY NatLessThanWellFounded, WFMin
<1>2. PICK n \in T : \A m \in T : ~(<<m, n>> \in OpToRel(<,Nat))
  BY <1>1
<1>3. ASSUME NEW m \in T, m < n PROVE FALSE
  <2>1. <<m, n>> \in Nat \X Nat /\ <<m, n>>[1] < <<m, n>>[2]
    BY <1>3
  <2>2. <<m, n>> \in OpToRel(<, Nat)
    BY <2>1 DEF OpToRel
  <2> QED BY <1>2, <2>2
<1>4. \A m \in T : n <= m
  <2> TAKE m \in T
  <2>1. m \in Nat /\ n \in Nat
    OBVIOUS
  <2> QED BY <2>1, <1>3
<1> QED BY <1>4

\* What holds of 0 and of each next number holds of every natural number.
LEMMA Induction ==
  ASSUME NEW S \in SUBSET Nat, 0 \in S, \A n \in S : n + 1 \in S
  PROVE  S = Nat
<1> SUFFICES ASSUME S # Nat PROVE FALSE
  OBVIOUS
<1>1. PICK n \in Nat \ S : \A m \in Nat \ S : n <= m
  BY Smallest
<1>2. n # 0 /\ n - 1 \in Nat /\ n - 1 \in S
  BY <1>1
<1> QED BY <1>1, <1>2

-----------------------------------------------------------------------------
(* Copying.                                                                *)

\* The function that Copied defines by recursion on the number of MB copied.
Copies(mem, dir, dst, src, size, f) ==
  f = [k \in 0 .. size |->
         IF k = 0 THEN mem
         ELSE [f[k - 1] EXCEPT ![Physical(dir, dst + k - 1)] =
                 f[k - 1][Physical(dir, src + k - 1)]]]

LEMMA CopyExists ==
  ASSUME NEW mem, NEW dir, NEW dst, NEW src, NEW size \in Nat
  PROVE  \E f : Copies(mem, dir, dst, src, size, f)
<1> DEFINE S == {k \in Nat : \E f : Copies(mem, dir, dst, src, k, f)}
<1>1. 0 \in S
  <2> DEFINE f == [k \in 0 .. 0 |-> mem]
  <2>1. Copies(mem, dir, dst, src, 0, f)
    BY DEF Copies
  <2> QED BY <2>1
<1>2. ASSUME NEW k \in S PROVE k + 1 \in S
  <2>1. PICK f : Copies(mem, dir, dst, src, k, f)
    BY <1>2
  <2>2. k \in Nat /\ \A j \in 0 .. k + 1 : j \in Nat /\ (j # k + 1 => j \in 0 .. k)
    BY <1>2
  <2>3. ASSUME NEW j \in 0 .. k
        PROVE  f[j] = IF j = 0 THEN mem
                      ELSE [f[j - 1] EXCEPT ![Physical(dir, dst + j - 1)] =
                              f[j - 1][Physical(dir, src + j - 1)]]
    BY <2>1 DEF Copies
  <2> DEFINE next == [f[k] EXCEPT ![Physical(dir, dst + (k + 1) - 1)] =
                        f[k][Physical(dir, src + (k + 1) - 1)]]
             g == [j \in 0 .. k + 1 |-> IF j = k + 1 THEN next ELSE f[j]]
  <2>4. ASSUME NEW j \in 0 .. k + 1
        PROVE  g[j] = IF j = 0 THEN mem
                      ELSE [g[j - 1] EXCEPT ![Physical(dir, dst + j - 1)] =
                              g[j - 1][Physical(dir, src + j - 1)]]
    <3>1. CASE j = k + 1
      <4>1. j # 0 /\ j - 1 \in 0 .. k + 1 /\ j - 1 # k + 1 /\ j - 1 = k
        BY <2>2, <3>1
      <4>2. g[j] = next /\ g[j - 1] = f[k]
        BY <3>1, <4>1
      <4> HIDE DEF g
      <4> QED BY <3>1, <4>1, <4>2
    <3>2. CASE j # k + 1
      <4>1. j \in 0 .. k /\ g[j] = f[j] /\ (j # 0 => g[j - 1] = f[j - 1])
        <5>1. j \in 0 .. k /\ (j # 0 => j - 1 \in 0 .. k + 1 /\ j - 1 # k + 1)
          BY <2>2, <3>2
        <5> HIDE DEF next
        <5> QED BY <3>2, <5>1
      <4> HIDE DEF g
      <4> QED BY <2>3, <4>1
    <3> QED BY <3>1, <3>2
  <2>5. Copies(mem, dir, dst, src, k + 1, g)
    <3>1. g = [j \in 0 .. k + 1 |-> g[j]]
      OBVIOUS
    <3> HIDE DEF g
    <3> QED BY <2>4, <3>1 DEF Copies
  <2> QED BY <2>2, <2>5
<1>3. S = Nat
  <2> HIDE DEF S
  <2>1. S \in SUBSET Nat
    BY DEF S
  <2> QED BY <1>1, <1>2, <2>1, Induction
<1> QED BY <1>3

\* One MB after the other is copied.
Traces(mem, dir, dst, src, size, f) ==
  /\ f[0] = mem /\ f[size] = Copied(mem, dir, dst, src, size)
  /\ \A k \in 0 .. size - 1 :
       f[k + 1] = [f[k] EXCEPT ![Physical(dir, dst + k)] = f[k][Physical(dir, src + k)]]

LEMMA CopyTraces ==
  ASSUME NEW mem, NEW dir, NEW dst \in Nat, NEW src \in Nat, NEW size \in Nat
  PROVE  \E f : Traces(mem, dir, dst, src, size, f)
<1>1. PICK f : f = CHOOSE h : Copies(mem, dir, dst, src, size, h)
  OBVIOUS
<1>2. Copies(mem, dir, dst, src, size, f)
  BY <1>1, CopyExists
<1>3. Copied(mem, dir, dst, src, size) = f[size]
  BY <1>1 DEF Copied, Copies
<1>4. f[0] = mem
  BY <1>2 DEF Copies
<1>5. ASSUME NEW k \in 0 .. size - 1
      PROVE  f[k + 1] = [f[k] EXCEPT ![Physical(dir, dst + k)] = f[k][Physical(dir, src + k)]]
  <2>1. k + 1 \in 0 .. size /\ k + 1 # 0 /\ k + 1 - 1 = k
    OBVIOUS
  <2>2. dst + (k + 1) - 1 = dst + k /\ src + (k + 1) - 1 = src + k
    OBVIOUS
  <2>3. PICK j \in 0 .. size : j = k + 1
    BY <2>1
  <2>4. f[j] = IF j = 0 THEN mem
               ELSE [f[j - 1] EXCEPT ![Physical(dir, dst + j - 1)] =
                       f[j - 1][Physical(dir, src + j - 1)]]
    BY <1>2 DEF Copies
  <2> QED BY <2>1, <2>2, <2>3, <2>4
<1> QED BY <1>3, <1>4, <1>5 DEF Traces

\* What is copied is at the destination, if the copy does not run into what is still to
\* be copied; nothing else changes.
IsCopy(mem, dir, to, src, size, new) ==
  /\ DOMAIN new = DOMAIN mem /\ new = [a \in DOMAIN mem |-> new[a]]
  /\ \A a \in DOMAIN mem : a \notin Extent(to, size) => new[a] = mem[a]
  /\ \A from \in Nat :
       /\ Extent(to, size) \union Extent(from, size) \subseteq DOMAIN mem
       /\ \A k \in 0 .. size - 1 : Physical(dir, src + k) = from + k
       /\ to \notin Extent(from, size) \ {from}
       => \A k \in 0 .. size - 1 : new[to + k] = mem[from + k]

LEMMA CopiedIs ==
  ASSUME NEW mem, mem = [a \in DOMAIN mem |-> mem[a]],
         NEW dir, NEW dst \in Nat, NEW src \in Nat, NEW size \in Nat,
         NEW to \in Nat, \A k \in 0 .. size - 1 : Physical(dir, dst + k) = to + k
  PROVE  IsCopy(mem, dir, to, src, size, Copied(mem, dir, dst, src, size))
<1> DEFINE new == Copied(mem, dir, dst, src, size)
           D   == DOMAIN mem
<1>d. DOMAIN mem = D /\ mem = [a \in D |-> mem[a]]
  OBVIOUS
<1> HIDE DEF new, D
<1>0. PICK f : Traces(mem, dir, dst, src, size, f)
  BY CopyTraces
<1>1. /\ f[0] = mem /\ f[size] = new
      /\ \A k \in 0 .. size - 1 :
            f[k + 1] = [f[k] EXCEPT ![Physical(dir, dst + k)] = f[k][Physical(dir, src + k)]]
  BY <1>0 DEF Traces, new
<1> DEFINE Rest(k) ==
             k <= size =>
               /\ DOMAIN f[k] = D /\ f[k] = [a \in D |-> f[k][a]]
               /\ \A a \in D : a \notin Extent(to, k) => f[k][a] = mem[a]
<1>2. ASSUME NEW k \in Nat, k + 1 <= size
      PROVE  /\ k \in 0 .. size - 1
             /\ f[k + 1] = [f[k] EXCEPT ![to + k] = f[k][Physical(dir, src + k)]]
  <2>1. k \in 0 .. size - 1
    BY <1>2
  <2> QED BY <1>1, <2>1
<1>3. \A k \in Nat : Rest(k)
  <2> DEFINE S == {k \in Nat : Rest(k)}
  <2>1. 0 \in S
    BY <1>d, <1>1
  <2>2. ASSUME NEW k \in S PROVE k + 1 \in S
    <3> SUFFICES ASSUME k + 1 <= size
                 PROVE  /\ DOMAIN f[k + 1] = D /\ f[k + 1] = [a \in D |-> f[k + 1][a]]
                        /\ \A a \in D : a \notin Extent(to, k + 1) => f[k + 1][a] = mem[a]
      BY <2>2
    <3>1. k \in Nat /\ k <= size
      BY <2>2
    <3>2. /\ DOMAIN f[k] = D /\ f[k] = [a \in D |-> f[k][a]]
          /\ \A a \in D : a \notin Extent(to, k) => f[k][a] = mem[a]
      BY <2>2, <3>1
    <3>3. f[k + 1] = [f[k] EXCEPT ![to + k] = f[k][Physical(dir, src + k)]]
      BY <1>2, <3>1
    <3>4. DOMAIN f[k + 1] = D /\ f[k + 1] = [a \in D |-> f[k + 1][a]]
      BY <3>2, <3>3
    <3>5. ASSUME NEW a \in D, a \notin Extent(to, k + 1) PROVE f[k + 1][a] = mem[a]
      <4>1. a # to + k /\ a \notin Extent(to, k)
        BY <3>1, <3>5 DEF Extent
      <4>2. f[k + 1][a] = f[k][a]
        BY <3>2, <3>3, <4>1
      <4> QED BY <3>2, <4>1, <4>2
    <3> QED BY <3>4, <3>5
  <2>3. S = Nat
    <3> HIDE DEF S
    <3>1. S \in SUBSET Nat
      BY DEF S
    <3> QED BY <2>1, <2>2, <3>1, Induction
  <2> QED BY <2>3
<1>4. ASSUME NEW from \in Nat, Extent(to, size) \union Extent(from, size) \subseteq D,
             \A k \in 0 .. size - 1 : Physical(dir, src + k) = from + k,
             to \notin Extent(from, size) \ {from}
      PROVE  \A k \in 0 .. size - 1 : new[to + k] = mem[from + k]
  <2> DEFINE There(k) == k <= size => \A j \in 0 .. k - 1 : f[k][to + j] = mem[from + j]
             S == {k \in Nat : There(k)}
  <2>1. 0 \in S
    OBVIOUS
  <2>2. ASSUME NEW k \in S PROVE k + 1 \in S
    <3> SUFFICES ASSUME k + 1 <= size, NEW j \in 0 .. k + 1 - 1
                 PROVE  f[k + 1][to + j] = mem[from + j]
      BY <2>2
    <3>1. k \in Nat /\ k <= size /\ k \in 0 .. size - 1
      BY <2>2
    <3>2. /\ DOMAIN f[k] = D /\ f[k] = [a \in D |-> f[k][a]]
          /\ \A a \in D : a \notin Extent(to, k) => f[k][a] = mem[a]
      BY <1>3, <3>1
    <3>3. f[k + 1] = [f[k] EXCEPT ![to + k] = f[k][from + k]]
      BY <1>2, <1>4, <3>1
    <3>4. \A i \in 0 .. size - 1 : to + i \in D
      BY <1>4 DEF Extent
    <3>5. CASE j = k
      <4>1. f[k + 1][to + k] = f[k][from + k]
        BY <3>1, <3>2, <3>3, <3>4
      <4>2. from + k \notin Extent(to, k)
        BY <1>4, <3>1 DEF Extent
      <4>3. from + k \in D
        BY <1>4, <3>1 DEF Extent
      <4> QED BY <3>2, <3>5, <4>1, <4>2, <4>3
    <3>6. CASE j # k
      <4>1. j \in 0 .. k - 1 /\ to + j # to + k
        BY <3>1, <3>6
      <4>2. f[k + 1][to + j] = f[k][to + j]
        BY <3>1, <3>2, <3>3, <3>4, <4>1
      <4> QED BY <2>2, <3>1, <4>1, <4>2
    <3> QED BY <3>5, <3>6
  <2>3. S = Nat
    <3> HIDE DEF S
    <3>1. S \in SUBSET Nat
      BY DEF S
    <3> QED BY <2>1, <2>2, <3>1, Induction
  <2>4. size <= size /\ There(size)
    <3> HIDE DEF There
    <3> QED BY <2>3
  <2> QED BY <1>1, <2>4
<1>5. Rest(size) /\ size <= size
  <2> HIDE DEF Rest
  <2> QED BY <1>3
<1>6. /\ DOMAIN new = D /\ new = [a \in D |-> new[a]]
      /\ \A a \in D : a \notin Extent(to, size) => new[a] = mem[a]
  BY <1>1, <1>5
<1>7. /\ DOMAIN new = DOMAIN mem /\ new = [a \in DOMAIN mem |-> new[a]]
      /\ \A a \in DOMAIN mem : a \notin Extent(to, size) => new[a] = mem[a]
  BY <1>d, <1>6
<1>8. \A from \in Nat :
        /\ Extent(to, size) \union Extent(from, size) \subseteq DOMAIN mem
        /\ \A k \in 0 .. size - 1 : Physical(dir, src + k) = from + k
        /\ to \notin Extent(from, size) \ {from}
        => \A k \in 0 .. size - 1 : new[to + k] = mem[from + k]
  BY <1>d, <1>4
<1>9. IsCopy(mem, dir, to, src, size, new)
  BY <1>7, <1>8 DEF IsCopy
<1> QED BY <1>9 DEF new

-----------------------------------------------------------------------------
(* The inductive invariant.                                                *)

\* What GRUB leaves behind stays known.
GivenOK ==
  /\ memory \in Nat
  /\ module \in [1 .. 3 -> [start : Nat, size : Nat \ {0}, zeroes : Nat]]
  /\ module[1].size = 1
  /\ \A m \in 1 .. 3 : Place(m) \subseteq 2 .. memory - 1
  /\ \A m, k \in 1 .. 3 : k # m => Place(k) \intersect Place(m) = {}

\* Every MB of the memory holds something.
RamOK == DOMAIN ram = 0 .. memory - 1 /\ ram = [a \in 0 .. memory - 1 |-> ram[a]]

\* The modules are moved one after the other to where they belong, and only then what
\* follows is done; the kernel goes on with the loader's page directory.
OrderOK ==
  /\ stage \in {"paging", "move", "load", "setup", "root", "run", "fault"}
  /\ address \in Seq(Nat) /\ Len(address) <= 3
  /\ stage = "paging" => Len(address) = 0
  /\ stage = "move" => Len(address) < 3
  /\ stage \in {"load", "setup", "root", "run"} => Len(address) = 3
  /\ \A e \in 1 .. Len(address) : address[e] = TargetStart(e) /\ Target(e) \subseteq 0 .. Usable - 1
  /\ stage # "paging" => pd = LoaderDirectory(NumeroEntradas)

\* The microkernel is in the fifth MB, its free pages are the 767 behind the one with
\* their numbers, and the directory of the root server is in the tenth MB. The numbers
\* are in the fourteenth, where a root server of more than 1 MB is written over them.
KernelOK ==
  /\ stage \in {"setup", "root", "run"} =>
       4 < memory /\ ram[4] = [of |-> Files[1], part |-> 0]
  /\ stage \in {"root", "run"} =>
       /\ 13 < memory
       /\ allocator = [data  |-> 3081 * PagesPerMB + 1, count |-> 767,
                       index |-> IF stage = "run" THEN 1 ELSE 0]
       /\ (stage = "root" \/ module[2].size + module[2].zeroes <= 1) => ram[13] = Single("pages")
  /\ stage = "run" => ram[9] = Single("directory") /\ rootPD = RootDirectory(NumeroEntradas)

\* A module is whole in memory.
Whole(start, m) ==
  \A k \in 0 .. module[m].size - 1 : ram[start + k] = [of |-> Files[m], part |-> k]

\* The root server is whole at 12 MB, with zeroes behind it, and told where its ram disk is.
RootOK ==
  /\ Whole(KERNEL_BASE_ADDRESS, 2)
  /\ \A a \in Extent(KERNEL_BASE_ADDRESS + module[2].size, module[2].zeroes) :
       ram[a] = Single("zero")
  /\ bootInfo = TargetStart(3) - KERNEL_BASE_ADDRESS

\* A module is whole where GRUB has put it until it is moved, and where it was moved
\* from then on, and the page tables and the image of the root server stay.
ModulesOK ==
  /\ stage # "fault"
  /\ \A m \in 1 .. 3 : Whole(IF m <= Len(address) THEN TargetStart(m) ELSE module[m].start, m)
  /\ stage # "paging" => \A a \in Tables : ram[a] = Single("tables")
  /\ stage = "run" => RootOK

BootIInv ==
  /\ GivenOK
  /\ BelowKernel => RamOK /\ OrderOK /\ KernelOK
  /\ Room /\ Spared => ModulesOK

-----------------------------------------------------------------------------
(* Addresses.                                                              *)

\* Dividing by 4.
LEMMA Quarters ==
  ASSUME NEW v \in Nat
  PROVE  /\ v \div 4 \in Nat /\ v % 4 \in 0 .. 3 /\ v = 4 * (v \div 4) + (v % 4)
         /\ \A k \in Nat : (v < 4 * k <=> v \div 4 < k)
         /\ v - (v % 4) = 4 * (v \div 4)
OBVIOUS

\* What the numbers are.
LEMMA Numbers ==
  /\ MICROKERNEL_BASE_ADDRESS = 4 /\ KERNEL_PAGE_TABLE_ADDRESS = 5 /\ MICROKERNEL_HEAP2 = 9
  /\ KERNEL_BASE_ADDRESS = 12 /\ MICROKERNEL_ADDRESS = 3072 /\ HardwareMemory = 4080
  /\ FirstModule = 20 /\ PagesPerMB = 256
BY DEF MICROKERNEL_BASE_ADDRESS, KERNEL_PAGE_TABLE_ADDRESS, MICROKERNEL_HEAP2,
       KERNEL_BASE_ADDRESS, MICROKERNEL_ADDRESS, HardwareMemory, FirstModule, PagesPerMB

\* The loader's directory maps what there is of the low memory to itself, the kernel's
\* addresses to 4 MB, and the window to the first 12 MB.
Maps(n, dir) ==
  /\ n \in 0 .. 767 /\ Usable = 4 * n /\ Usable <= memory - 1
  /\ \A i \in 0 .. n - 1 : i \in DOMAIN dir /\ dir[i] = 4 * i
  /\ \A i \in DOMAIN dir : i \in 0 .. n - 1 \union 768 .. 770 \union 1020 .. 1022
  /\ 768 \in DOMAIN dir /\ dir[768] = 4
  /\ 770 \in DOMAIN dir /\ dir[770] = 12
  /\ n >= 3 => \A k \in 0 .. 2 : 1020 + k \in DOMAIN dir /\ dir[1020 + k] = 4 * k
  /\ n >= 3 => [i \in DOMAIN dir \union 1020 .. 1022 |->
                  IF i \in 1020 .. 1022 THEN dir[i - 1020] ELSE dir[i]] = dir

LEMMA DirectoryIs ==
  ASSUME memory \in Nat, memory >= 1, BelowKernel
  PROVE  Maps(NumeroEntradas, LoaderDirectory(NumeroEntradas))
<1>0. PICK n : n = NumeroEntradas
  OBVIOUS
<1> DEFINE dir == LoaderDirectory(n)
<1> HIDE DEF dir
<1>1. n \in 0 .. 767 /\ Usable = 4 * n /\ Usable <= memory - 1
  <2>1. memory - 1 \in Nat /\ n = (memory - 1) \div 4 /\ memory <= 3072
        /\ Usable = (memory - 1) - ((memory - 1) % 4)
    BY <1>0, Numbers DEF NumeroEntradas, BelowKernel, Usable
  <2>2. PICK v \in Nat : v = memory - 1
    BY <2>1
  <2>3. n = v \div 4 /\ Usable = v - (v % 4)
    BY <2>1, <2>2
  <2>4. v <= 3071
    BY <2>1, <2>2
  <2>5. v \div 4 \in Nat /\ v % 4 \in 0 .. 3 /\ v = 4 * (v \div 4) + (v % 4)
    BY <2>2, Quarters
  <2> QED BY <2>2, <2>3, <2>4, <2>5
<1> DEFINE kernel  == 768 .. 770
           base(i) == IF i \in kernel THEN 4 + 4 * (i - 768) ELSE 4 * i
           present == 0 .. n - 1 \union kernel
           window  == {i \in 1020 .. 1022 : i - 1020 \in present}
<1>2. dir = [i \in present \union window |-> IF i \in window THEN base(i - 1020) ELSE base(i)]
  BY Numbers DEF LoaderDirectory, dir
<1>3. ASSUME NEW i \in 0 .. n - 1 PROVE i \in DOMAIN dir /\ dir[i] = 4 * i
  <2>1. i \in present /\ i \notin window /\ i \notin kernel
    BY <1>1
  <2> QED BY <1>2, <2>1
<1>4. \A i \in DOMAIN dir : i \in 0 .. n - 1 \union 768 .. 770 \union 1020 .. 1022
  BY <1>2
<1>5. ASSUME NEW i \in 768 .. 770 PROVE i \in DOMAIN dir /\ dir[i] = 4 + 4 * (i - 768)
  <2>1. i \in present /\ i \notin window /\ i \in kernel
    BY <1>1
  <2> QED BY <1>2, <2>1
<1>6. ASSUME n >= 3, NEW k \in 0 .. 2 PROVE 1020 + k \in DOMAIN dir /\ dir[1020 + k] = 4 * k
  <2>1. 1020 + k \in window /\ 1020 + k - 1020 = k /\ k \notin kernel
    BY <1>1, <1>6
  <2> QED BY <1>2, <2>1
<1> HIDE DEF kernel, base, present, window
<1>7. ASSUME n >= 3
      PROVE  [i \in DOMAIN dir \union 1020 .. 1022 |->
                IF i \in 1020 .. 1022 THEN dir[i - 1020] ELSE dir[i]] = dir
  <2>1. \A i \in 1020 .. 1022 : i \in DOMAIN dir /\ dir[i] = dir[i - 1020]
    <3> TAKE i \in 1020 .. 1022
    <3>1. i - 1020 \in 0 .. 2 /\ 1020 + (i - 1020) = i /\ i - 1020 \in 0 .. n - 1
      BY <1>1, <1>7
    <3>2. PICK k \in 0 .. 2 : k = i - 1020
      BY <3>1
    <3>3. i \in DOMAIN dir /\ dir[i] = 4 * k
      BY <1>6, <1>7, <3>1, <3>2
    <3>4. dir[i - 1020] = 4 * k
      BY <1>3, <3>1, <3>2
    <3> QED BY <3>3, <3>4
  <2>2. dir = [i \in DOMAIN dir |-> dir[i]]
    BY <1>2
  <2>3. DOMAIN dir \union 1020 .. 1022 = DOMAIN dir
    BY <2>1
  <2>4. \A i \in DOMAIN dir : (IF i \in 1020 .. 1022 THEN dir[i - 1020] ELSE dir[i]) = dir[i]
    BY <2>1
  <2>5. [i \in DOMAIN dir |-> IF i \in 1020 .. 1022 THEN dir[i - 1020] ELSE dir[i]]
          = [i \in DOMAIN dir |-> dir[i]]
    BY <2>4
  <2> QED BY <2>2, <2>3, <2>5
<1>8. 768 \in DOMAIN dir /\ dir[768] = 4 /\ 770 \in DOMAIN dir /\ dir[770] = 12
  <2>1. 768 \in 768 .. 770 /\ 770 \in 768 .. 770 /\ 4 + 4 * (768 - 768) = 4
        /\ 4 + 4 * (770 - 768) = 12
    OBVIOUS
  <2> QED BY <1>5, <2>1
<1> QED BY <1>0, <1>1, <1>3, <1>4, <1>6, <1>7, <1>8 DEF Maps, dir

\* Below 3 GB an address that is mapped is the memory's own, and usable.
LEMMA LowIs ==
  ASSUME memory \in Nat, memory >= 1, BelowKernel, NEW dir, dir = LoaderDirectory(NumeroEntradas),
         NEW v \in Nat
  PROVE  /\ v < Usable => Mapped(dir, v) /\ Physical(dir, v) = v
         /\ v < 3072 /\ Mapped(dir, v) => v < Usable
         /\ ~Mapped(dir, 3071)
<1>1. PICK n : n = NumeroEntradas
  OBVIOUS
<1>2. /\ n \in 0 .. 767 /\ Usable = 4 * n /\ Usable <= memory - 1
      /\ \A i \in 0 .. n - 1 : i \in DOMAIN dir /\ dir[i] = 4 * i
      /\ \A i \in DOMAIN dir : i \in 0 .. n - 1 \union 768 .. 770 \union 1020 .. 1022
  BY <1>1, DirectoryIs DEF Maps
<1>3. /\ v \div 4 \in Nat /\ v % 4 \in 0 .. 3 /\ v = 4 * (v \div 4) + (v % 4)
      /\ v < 4 * n <=> v \div 4 < n
      /\ v < 4 * 768 <=> v \div 4 < 768
  BY <1>2, Quarters
<1>4. ASSUME v < Usable PROVE Mapped(dir, v) /\ Physical(dir, v) = v
  <2>1. v \div 4 \in 0 .. n - 1
    BY <1>2, <1>3, <1>4
  <2>2. v \div 4 \in DOMAIN dir /\ dir[v \div 4] = 4 * (v \div 4)
    BY <1>2, <2>1
  <2>3. Physical(dir, v) = v
    BY <1>3, <2>2 DEF Physical
  <2> QED BY <1>2, <1>4, <2>2, <2>3 DEF Mapped
<1>5. ASSUME v < 3072, Mapped(dir, v) PROVE v < Usable
  <2>1. v \div 4 \in 0 .. n - 1 \union 768 .. 770 \union 1020 .. 1022 /\ v \div 4 < 768
    BY <1>2, <1>3, <1>5 DEF Mapped
  <2> QED BY <1>2, <1>3, <2>1
<1>6. ~Mapped(dir, 3071)
  <2>1. 3071 \div 4 = 767
    OBVIOUS
  <2> QED BY <1>2, <2>1 DEF Mapped
<1> QED BY <1>4, <1>5, <1>6

\* A piece of memory from below 3 GB on that is mapped is usable as it is.
LEMMA PieceIs ==
  ASSUME memory \in Nat, memory >= 1, BelowKernel, NEW dir, dir = LoaderDirectory(NumeroEntradas),
         NEW start \in Nat, start < 3072, NEW size \in Nat, AllMapped(dir, Extent(start, size))
  PROVE  \A v \in Extent(start, size) : v \in Nat /\ v < Usable /\ Physical(dir, v) = v
<1>1. ASSUME NEW v \in Extent(start, size) PROVE v \in Nat /\ v < 3072 /\ Mapped(dir, v)
  <2>1. v \in Nat /\ Mapped(dir, v)
    BY DEF AllMapped, Extent
  <2>2. ASSUME v >= 3072 PROVE FALSE
    <3>1. 3071 \in Extent(start, size)
      BY <2>1, <2>2 DEF Extent
    <3> QED BY <3>1, LowIs DEF AllMapped
  <2> QED BY <2>1, <2>2
<1> QED BY <1>1, LowIs

\* What is known of every module.
LEMMA ModulesAre ==
  ASSUME GivenOK
  PROVE  \A m \in 1 .. 3 : /\ module[m].size \in Nat \ {0} /\ module[m].start \in Nat
                           /\ module[m].zeroes \in Nat
BY DEF GivenOK

\* Where the modules go.
LEMMA TargetsAre ==
  ASSUME GivenOK
  PROVE  /\ TargetStart(1) = 20 /\ TargetStart(2) = 22 /\ TargetStart(3) = 23 + module[2].size
         /\ \A m \in 1 .. 3 : /\ TargetStart(m) \in Nat /\ TargetStart(m) >= 20
                              /\ module[m].size \in Nat \ {0} /\ module[m].start \in Nat
                              /\ module[m].zeroes \in Nat
         /\ \A e, m \in 1 .. 3 : e # m => Target(e) \intersect Target(m) = {}
         /\ memory >= 3
<1>1. /\ module[1].size = 1
      /\ \A m \in 1 .. 3 : /\ module[m].size \in Nat \ {0} /\ module[m].start \in Nat
                           /\ module[m].zeroes \in Nat
  BY ModulesAre DEF GivenOK
<1>2. TargetStart(1) = 20 /\ TargetStart(2) = 22 /\ TargetStart(3) = 23 + module[2].size
  <2>1. TargetStart(1) = 20
    BY Numbers DEF TargetStart
  <2>2. TargetStart(2) = 20 + 1 + 1
    BY <1>1, Numbers DEF TargetStart
  <2>3. TargetStart(3) = 20 + 1 + 1 + module[2].size + 1
    BY <1>1, Numbers DEF TargetStart
  <2>4. PICK n \in Nat : n = module[2].size
    BY <1>1
  <2>5. 20 + 1 + 1 + n + 1 = 23 + n /\ 20 + 1 + 1 = 22
    OBVIOUS
  <2> QED BY <2>1, <2>2, <2>3, <2>4, <2>5
<1>3. ASSUME NEW m \in 1 .. 3 PROVE TargetStart(m) \in Nat /\ TargetStart(m) >= 20
  <2>1. m = 1 \/ m = 2 \/ m = 3
    OBVIOUS
  <2> QED BY <1>1, <1>2, <2>1
<1>4. /\ Target(1) = 20 .. 20 /\ Target(2) = 22 .. 22 + module[2].size - 1
      /\ Target(3) = 23 + module[2].size .. 23 + module[2].size + module[3].size - 1
  <2>1. 20 + 1 - 1 = 20
    OBVIOUS
  <2> QED BY <1>1, <1>2, <2>1 DEF Target, Extent
<1>5. \A e, m \in 1 .. 3 : e # m => Target(e) \intersect Target(m) = {}
  <2>1. Target(1) \intersect Target(2) = {} /\ Target(1) \intersect Target(3) = {}
    <3>1. \A a \in 20 .. 20 : a = 20
      OBVIOUS
    <3>2. ~(20 \in 22 .. 22 + module[2].size - 1)
          /\ ~(20 \in 23 + module[2].size .. 23 + module[2].size + module[3].size - 1)
      BY <1>1
    <3>3. \A a \in Target(1) : a \notin Target(2) /\ a \notin Target(3)
      BY <1>4, <3>1, <3>2
    <3> QED BY <3>3
  <2>2. Target(2) \intersect Target(3) = {}
    <3>1. ASSUME NEW a \in Target(2), a \in Target(3) PROVE FALSE
      <4>0. PICK n \in Nat : n = module[2].size
        BY <1>1
      <4>1. a \in 22 .. 22 + n - 1 /\ a \in 23 + n .. 23 + n + module[3].size - 1
        BY <1>4, <3>1, <4>0
      <4> QED BY <1>1, <4>1
    <3> QED BY <3>1
  <2>3. ASSUME NEW e \in 1 .. 3, NEW m \in 1 .. 3, e # m PROVE Target(e) \intersect Target(m) = {}
    <3>1. (e = 1 \/ e = 2 \/ e = 3) /\ (m = 1 \/ m = 2 \/ m = 3)
      OBVIOUS
    <3> QED BY <2>1, <2>2, <2>3, <3>1
  <2> QED BY <2>3
<1>6. memory >= 3
  <2>1. module[1].start \in 2 .. memory - 1 /\ memory \in Nat
    BY <1>1 DEF GivenOK, Place, Extent
  <2> QED BY <2>1
<1> QED BY <1>1, <1>2, <1>3, <1>5, <1>6

\* The page tables take at most 4 MB.
LEMMA TablesAre ==
  ASSUME GivenOK, BelowKernel
  PROVE  Tables \subseteq 5 .. 8
<1>1. PICK n : n = NumeroEntradas
  OBVIOUS
<1>2. n \in 0 .. 767
  BY <1>1, TargetsAre, DirectoryIs DEF Maps, GivenOK
<1>3. ((n + 3) + (256 - 1)) \div 256 \in 0 .. 4
  BY <1>2
<1>4. Tables = 5 .. 5 + (((n + 3) + (256 - 1)) \div 256) - 1
  BY <1>1, Numbers DEF Tables, Extent
<1> QED BY <1>3, <1>4

\* With room for everything there are more than 24 MB, below 3 GB.
LEMMA RoomIs ==
  ASSUME GivenOK, Room
  PROVE  /\ BelowKernel /\ Usable \in Nat /\ Usable > 23 /\ Usable < memory
         /\ 12 + module[2].size + module[2].zeroes <= 20
         /\ \A m \in 1 .. 3 : \A a \in Place(m) \union Target(m) : a \in Nat /\ a < Usable
<1>1. BelowKernel /\ 12 + module[2].size + module[2].zeroes <= 20
      /\ \A m \in 1 .. 3 : \A a \in Place(m) \union Target(m) : a < Usable
  BY Numbers DEF Room
<1>2. memory \in Nat /\ memory >= 3
  BY TargetsAre DEF GivenOK
<1>3. Usable \in Nat /\ Usable < memory
  <2>1. NumeroEntradas \in 0 .. 767 /\ Usable = 4 * NumeroEntradas /\ Usable <= memory - 1
    BY <1>1, <1>2, DirectoryIs DEF Maps
  <2> QED BY <1>2, <2>1
<1>4. \A m \in 1 .. 3 : \A a \in Place(m) \union Target(m) : a \in Nat
  BY TargetsAre DEF Place, Target, Extent
<1>5. Usable > 23
  <2>1. TargetStart(3) \in Target(3)
    BY TargetsAre DEF Target, Extent
  <2>2. TargetStart(3) \in Nat /\ TargetStart(3) > 23 /\ TargetStart(3) < Usable
    BY <1>1, <2>1, TargetsAre
  <2> QED BY <1>3, <2>2
<1> QED BY <1>1, <1>3, <1>4, <1>5

\* Nothing that is derived from what GRUB leaves behind changes.
LEMMA GivenStays ==
  ASSUME GivenOK, UNCHANGED given
  PROVE  /\ GivenOK' /\ memory' = memory /\ module' = module
         /\ BelowKernel' = BelowKernel /\ Room' = Room /\ Spared' = Spared
         /\ NumeroEntradas' = NumeroEntradas /\ Usable' = Usable /\ Tables' = Tables
         /\ \A m \in 1 .. 3 : TargetStart(m)' = TargetStart(m) /\ Target(m)' = Target(m)
<1>1. memory' = memory /\ module' = module
  BY DEF given
<1>2. GivenOK'
  BY <1>1 DEF GivenOK, Place
<1>3. NumeroEntradas' = NumeroEntradas /\ Usable' = Usable /\ BelowKernel' = BelowKernel
  BY <1>1 DEF NumeroEntradas, Usable, BelowKernel
<1>4. Tables' = Tables
  BY <1>3 DEF Tables
<1>5. \A m \in 1 .. 3 : TargetStart(m)' = TargetStart(m) /\ Target(m)' = Target(m)
                        /\ Place(m)' = Place(m)
  BY <1>1 DEF TargetStart, Target, Place
<1>6. Room' = Room
  BY <1>1, <1>3, <1>5 DEF Room
<1>7. Spared' = Spared
  <2>1. \A m \in 1 .. 3 : 1 .. m - 1 \subseteq 1 .. 3
    OBVIOUS
  <2> QED BY <1>1, <1>4, <1>5, <2>1 DEF Spared
<1> QED BY <1>1, <1>2, <1>3, <1>4, <1>5, <1>6, <1>7

-----------------------------------------------------------------------------
(* The invariant holds.                                                    *)

LEMMA BootInitIInv == BootInit => BootIInv
<1> SUFFICES ASSUME BootInit PROVE BootIInv
  OBVIOUS
<1>1. GivenOK
  <2>1. memory \in Nat
    BY BootAssumption DEF BootInit
  <2>2. module \in [1 .. 3 -> [start : Nat, size : Nat \ {0}, zeroes : Nat]]
    <3>1. Starts \subseteq Nat /\ Sizes \subseteq Nat \ {0} /\ Sizes \union {0} \subseteq Nat
      BY BootAssumption
    <3>2. [start : Starts, size : Sizes, zeroes : Sizes \union {0}]
            \subseteq [start : Nat, size : Nat \ {0}, zeroes : Nat]
      BY <3>1
    <3> QED BY <3>2 DEF BootInit
  <2>3. \A m \in 1 .. 3 : Place(m) \subseteq 2 .. memory - 1
    BY DEF BootInit
  <2>4. \A m, k \in 1 .. 3 : k # m => Place(k) \intersect Place(m) = {}
    BY DEF BootInit, Loaded
  <2> QED BY <2>1, <2>2, <2>3, <2>4 DEF BootInit, GivenOK
<1>2. RamOK
  BY DEF BootInit, RamOK
<1>3. OrderOK
  <2>1. address = <<>> /\ stage = "paging"
    BY DEF BootInit
  <2>2. Len(address) = 0 /\ address \in Seq(Nat)
    BY <2>1
  <2> QED BY <2>1, <2>2 DEF OrderOK
<1>4. KernelOK
  BY DEF BootInit, KernelOK
<1>5. ModulesOK
  <2>1. address = <<>> /\ stage = "paging" /\ Len(address) = 0
    BY DEF BootInit
  <2>2. ASSUME NEW m \in 1 .. 3, NEW k \in 0 .. module[m].size - 1
        PROVE  ram[module[m].start + k] = [of |-> Files[m], part |-> k]
    <3>1. module[m].start \in Nat /\ module[m].size \in Nat
      BY <1>1, TargetsAre
    <3>2. PICK a : a = module[m].start + k
      OBVIOUS
    <3>3. a \in Place(m) /\ a - module[m].start = k
      BY <3>1, <3>2 DEF Place, Extent
    <3>4. a \in 0 .. memory - 1
      BY <1>1, <3>3 DEF GivenOK
    <3>5. PICK c : c = CHOOSE j \in 1 .. 3 : a \in Place(j)
      OBVIOUS
    <3>6. c \in 1 .. 3 /\ a \in Place(c)
      BY <3>3, <3>5
    <3>7. c = m
      BY <1>1, <3>3, <3>6 DEF GivenOK
    <3>8. ram[a] = [of |-> Files[c], part |-> a - module[c].start]
      BY <3>3, <3>4, <3>5 DEF BootInit
    <3> QED BY <3>2, <3>3, <3>7, <3>8
  <2> QED BY <2>1, <2>2 DEF ModulesOK, Whole
<1> QED BY <1>1, <1>2, <1>3, <1>4, <1>5 DEF BootIInv

\* The page tables are written beside the modules.
LEMMA PagingKeeps == BootIInv /\ Paging => BootIInv'
<1> SUFFICES ASSUME BootIInv, Paging PROVE BootIInv'
  OBVIOUS
<1>1. GivenOK /\ UNCHANGED given /\ stage = "paging" /\ stage' = "move" /\ address' = address
      /\ pd' = LoaderDirectory(NumeroEntradas)
      /\ ram' = [a \in DOMAIN ram |-> IF a \in Tables THEN Single("tables") ELSE ram[a]]
  BY DEF BootIInv, Paging
<1>2. ASSUME BelowKernel PROVE RamOK' /\ OrderOK' /\ KernelOK'
  <2>1. RamOK /\ OrderOK
    BY <1>2 DEF BootIInv
  <2>2. RamOK'
    <3>1. memory' = memory
      BY <1>1, GivenStays
    <3>2. DOMAIN ram' = DOMAIN ram /\ ram' = [a \in DOMAIN ram |-> ram'[a]]
      BY <1>1
    <3> QED BY <2>1, <3>1, <3>2 DEF RamOK
  <2>3. Len(address) = 0
    BY <1>1, <2>1 DEF OrderOK
  <2>4. (LoaderDirectory(NumeroEntradas))' = LoaderDirectory(NumeroEntradas)
    BY <1>1, GivenStays DEF LoaderDirectory
  <2>5. OrderOK'
    BY <1>1, <2>1, <2>3, <2>4 DEF OrderOK
  <2> QED BY <1>1, <2>2, <2>5 DEF KernelOK
<1>3. ASSUME Room, Spared PROVE ModulesOK'
  <2>1. ModulesOK /\ BelowKernel /\ RamOK /\ OrderOK
    BY <1>1, <1>3, RoomIs DEF BootIInv
  <2>2. Len(address) = 0
    BY <1>1, <2>1 DEF OrderOK
  <2>3. ASSUME NEW m \in 1 .. 3, NEW k \in 0 .. module[m].size - 1
        PROVE  ram'[module[m].start + k] = [of |-> Files[m], part |-> k]
    <3>1. ram[module[m].start + k] = [of |-> Files[m], part |-> k]
      BY <2>1, <2>2 DEF ModulesOK, Whole
    <3>2. module[m].start + k \in Place(m)
      BY <1>1, TargetsAre DEF Place, Extent
    <3>3. module[m].start + k \notin Tables
      BY <1>3, <3>2 DEF Spared
    <3>4. module[m].start + k \in DOMAIN ram
      <4>1. Place(m) \subseteq 2 .. memory - 1 /\ memory \in Nat
        BY <1>1 DEF GivenOK
      <4>2. DOMAIN ram = 0 .. memory - 1
        BY <2>1 DEF RamOK
      <4> QED BY <3>2, <4>1, <4>2
    <3>5. PICK a : a = module[m].start + k
      OBVIOUS
    <3>6. ram'[a] = ram[a]
      BY <1>1, <3>3, <3>4, <3>5
    <3> QED BY <3>1, <3>5, <3>6
  <2>4. ASSUME NEW a \in Tables PROVE ram'[a] = Single("tables")
    <3>1. a \in 5 .. 8 /\ Usable \in Nat /\ Usable > 23 /\ Usable < memory
      BY <1>1, <1>3, <2>1, TablesAre, RoomIs
    <3>2. memory \in Nat /\ DOMAIN ram = 0 .. memory - 1
      BY <1>1, <2>1 DEF RamOK, GivenOK
    <3>3. a \in DOMAIN ram
      BY <3>1, <3>2
    <3> QED BY <1>1, <3>3
  <2>5. Tables' = Tables /\ module' = module
    BY <1>1, GivenStays
  <2>6. \A m \in 1 .. 3 : ~(m <= Len(address))
    BY <2>2
  <2> QED BY <1>1, <2>3, <2>4, <2>5, <2>6 DEF ModulesOK, Whole
<1> QED BY <1>1, <1>2, <1>3, GivenStays DEF BootIInv

\* A fault ends what the rest is about; with room for everything there is none.
LEMMA FaultKeeps ==
  ASSUME BootIInv, Fault, stage # "paging", ~(Room /\ Spared)
  PROVE  BootIInv'
<1>1. /\ GivenOK /\ UNCHANGED given /\ stage' = "fault"
      /\ ram' = ram /\ address' = address /\ pd' = pd
  BY DEF BootIInv, Fault
<1>2. ASSUME BelowKernel PROVE RamOK' /\ OrderOK' /\ KernelOK'
  <2>1. RamOK /\ OrderOK
    BY <1>2 DEF BootIInv
  <2>2. RamOK'
    BY <1>1, <2>1, GivenStays DEF RamOK
  <2>3. (LoaderDirectory(NumeroEntradas))' = LoaderDirectory(NumeroEntradas)
    BY <1>1, GivenStays DEF LoaderDirectory
  <2>4. Len(address) <= 3 /\ address \in Seq(Nat)
    BY <2>1 DEF OrderOK
  <2>5. \A e \in 1 .. Len(address) : e \in 1 .. 3
    BY <2>4
  <2>6. \A e \in 1 .. Len(address)' :
           address'[e] = TargetStart(e)' /\ Target(e)' \subseteq 0 .. Usable' - 1
    BY <1>1, <2>1, <2>5, GivenStays DEF OrderOK
  <2>7. OrderOK'
    BY <1>1, <1>2, <2>1, <2>3, <2>6 DEF OrderOK
  <2> QED BY <1>1, <2>2, <2>7 DEF KernelOK
<1> QED BY <1>1, <1>2, GivenStays DEF BootIInv

\* What a step needs to know of the loader's part.
LEMMA LoadedIs ==
  ASSUME BootIInv, BelowKernel, stage # "paging"
  PROVE  /\ GivenOK /\ RamOK /\ OrderOK /\ KernelOK /\ memory \in Nat /\ memory >= 3
         /\ Usable \in Nat /\ Usable < memory /\ Usable <= 3068
         /\ pd = LoaderDirectory(NumeroEntradas)
         /\ Maps(NumeroEntradas, pd)
         /\ \A v \in 0 .. Usable - 1 : Mapped(pd, v) /\ Physical(pd, v) = v
         /\ Physical(pd, 3072) = 4 /\ (Mapped(pd, 3072) <=> 4 < memory)
         /\ Physical(pd, 3081) = 13 /\ (Mapped(pd, 3081) <=> 13 < memory)
<1>1. GivenOK /\ RamOK /\ OrderOK /\ KernelOK /\ memory \in Nat /\ memory >= 3
  BY TargetsAre DEF BootIInv, GivenOK
<1>2. pd = LoaderDirectory(NumeroEntradas)
  BY <1>1 DEF OrderOK
<1>3. Maps(NumeroEntradas, pd)
  BY <1>1, <1>2, DirectoryIs
<1>4. Usable \in Nat /\ Usable < memory /\ Usable <= 3068
  <2>1. PICK n : n = NumeroEntradas
    OBVIOUS
  <2>2. n \in 0 .. 767 /\ Usable = 4 * n /\ Usable <= memory - 1
    BY <1>3, <2>1 DEF Maps
  <2> QED BY <1>1, <2>2
<1>5. \A v \in 0 .. Usable - 1 : Mapped(pd, v) /\ Physical(pd, v) = v
  BY <1>1, <1>2, <1>4, LowIs
<1>6. 768 \in DOMAIN pd /\ pd[768] = 4 /\ 770 \in DOMAIN pd /\ pd[770] = 12
  BY <1>3 DEF Maps
<1>7. 3072 \div 4 = 768 /\ 3072 % 4 = 0 /\ 3081 \div 4 = 770 /\ 3081 % 4 = 1
  OBVIOUS
<1>8. Physical(pd, 3072) = 4 /\ Physical(pd, 3081) = 13
  BY <1>6, <1>7 DEF Physical
<1>9. (Mapped(pd, 3072) <=> 4 < memory) /\ (Mapped(pd, 3081) <=> 13 < memory)
  BY <1>6, <1>7, <1>8 DEF Mapped
<1> QED BY <1>1, <1>2, <1>3, <1>4, <1>5, <1>8, <1>9

\* The next module goes behind the one before.
LEMMA DestinationIs ==
  ASSUME BootIInv, BelowKernel, stage = "move"
  PROVE  /\ Len(address) + 1 \in 1 .. 3 /\ address \in Seq(Nat)
         /\ Destination = TargetStart(Len(address) + 1)
         /\ TargetStart(Len(address) + 1) \in Nat /\ TargetStart(Len(address) + 1) < 3072
         /\ TargetStart(Len(address) + 1) >= 20
<1>1. /\ GivenOK /\ address \in Seq(Nat) /\ Len(address) \in 0 .. 2
      /\ Usable \in Nat /\ Usable <= 3068
      /\ \A e \in 1 .. Len(address) :
            address[e] = TargetStart(e) /\ Target(e) \subseteq 0 .. Usable - 1
  <2>1. GivenOK /\ OrderOK /\ Usable \in Nat /\ Usable <= 3068
    BY LoadedIs
  <2>2. address \in Seq(Nat) /\ Len(address) < 3
    BY <2>1 DEF OrderOK
  <2>3. Len(address) \in 0 .. 2
    <3>1. PICK l \in Nat : l = Len(address)
      BY <2>2
    <3>2. l < 3
      BY <2>2, <3>1
    <3>3. l \in 0 .. 2
      BY <3>2
    <3> QED BY <3>1, <3>3
  <2>4. \A e \in 1 .. Len(address) :
          address[e] = TargetStart(e) /\ Target(e) \subseteq 0 .. Usable - 1
    BY <2>1 DEF OrderOK
  <2> QED BY <2>1, <2>2, <2>3, <2>4
<1>2. /\ TargetStart(1) = 20 /\ TargetStart(2) = 22 /\ TargetStart(3) = 23 + module[2].size
      /\ module[2].size \in Nat \ {0} /\ module[1].size = 1
  <2>1. module[1].size = 1
    BY <1>1 DEF GivenOK
  <2>2. \A m \in 1 .. 3 : module[m].size \in Nat \ {0}
    BY <1>1, ModulesAre
  <2>3. TargetStart(1) = 20 /\ TargetStart(2) = 22 /\ TargetStart(3) = 23 + module[2].size
    BY <1>1, TargetsAre
  <2> QED BY <2>1, <2>2, <2>3
<1>3. CASE Len(address) = 0
  BY <1>1, <1>2, <1>3, Numbers DEF Destination
<1>4. CASE Len(address) = 1
  <2>1. address[1] = 20
    BY <1>1, <1>2, <1>4
  <2> QED BY <1>1, <1>2, <1>4, <2>1 DEF Destination
<1>5. CASE Len(address) = 2
  <2>1. address[2] = 22 /\ Target(2) \subseteq 0 .. Usable - 1
    BY <1>1, <1>2, <1>5
  <2>2. 22 + module[2].size - 1 \in Target(2)
    <3>1. PICK n \in Nat \ {0} : n = module[2].size
      BY <1>2
    <3>2. Target(2) = 22 .. 22 + n - 1
      BY <1>2, <3>1 DEF Target, Extent
    <3>3. 22 + n - 1 \in 22 .. 22 + n - 1
      OBVIOUS
    <3> QED BY <3>1, <3>2, <3>3
  <2>3. 22 + module[2].size - 1 <= 3067
    <3>1. 22 + module[2].size - 1 \in 0 .. Usable - 1
      BY <2>1, <2>2
    <3> QED BY <1>1, <3>1
  <2>4. Destination = 22 + module[2].size + 1
    BY <1>5, <2>1 DEF Destination
  <2>5. Len(address) + 1 = 3
    BY <1>5
  <2>6. PICK n \in Nat : n = module[2].size
    BY <1>2
  <2>7. TargetStart(3) = 23 + n /\ Destination = 22 + n + 1 /\ 22 + n - 1 <= 3067
    BY <1>2, <2>3, <2>4, <2>6
  <2>8. TargetStart(3) \in Nat /\ TargetStart(3) < 3072 /\ TargetStart(3) >= 20
        /\ Destination = TargetStart(3)
    BY <2>6, <2>7
  <2> QED BY <1>1, <2>5, <2>8
<1> QED BY <1>1, <1>3, <1>4, <1>5

\* A module that is moved is whole where it belongs, and the others stay so.
LEMMA MoveKeeps == BootIInv /\ MoveModule => BootIInv'
<1> SUFFICES ASSUME BootIInv, MoveModule PROVE BootIInv'
  OBVIOUS
<1> DEFINE m    == Len(address) + 1
           size == module[m].size
           from == Place(m)
           to   == Extent(Destination, size)
<1>1. GivenOK /\ UNCHANGED given /\ stage = "move"
  BY DEF BootIInv, MoveModule, Fault
<1>2. CASE ~BelowKernel
  <2>1. GivenOK' /\ ~BelowKernel' /\ ~Room'
    BY <1>1, <1>2, GivenStays DEF Room
  <2> QED BY <2>1 DEF BootIInv
<1>3. CASE BelowKernel
  <2>1. /\ RamOK /\ OrderOK /\ memory \in Nat /\ memory >= 3
        /\ Usable \in Nat /\ Usable < memory
        /\ pd = LoaderDirectory(NumeroEntradas)
        /\ \A v \in 0 .. Usable - 1 : Mapped(pd, v) /\ Physical(pd, v) = v
    BY <1>1, <1>3, LoadedIs
  <2>2. m \in 1 .. 3 /\ address \in Seq(Nat) /\ Destination = TargetStart(m)
        /\ TargetStart(m) \in Nat /\ TargetStart(m) < 3072 /\ TargetStart(m) >= 20
    BY <1>1, <1>3, DestinationIs
  <2>3. size \in Nat \ {0} /\ module[m].start \in Nat
    <3>1. \A j \in 1 .. 3 : module[j].size \in Nat \ {0} /\ module[j].start \in Nat
      BY <1>1, ModulesAre
    <3>2. PICK j \in 1 .. 3 : j = m
      BY <2>2
    <3> QED BY <3>1, <3>2
  <2>4. to = Target(m) /\ from = Extent(module[m].start, size)
    BY <2>2 DEF Target, Place
  <2>5. CASE AllMapped(pd, from \union to)
    <3>1. /\ ram' = Copied(ram, pd, Destination, module[m].start, size)
          /\ address' = Append(address, Destination)
          /\ stage' = (IF m = 3 THEN "load" ELSE "move")
          /\ pd' = pd
      BY <2>5 DEF MoveModule
    <3>2. PICK t \in Nat : t = TargetStart(m)
      BY <2>2
    <3>3. \A v \in Extent(t, size) : v \in Nat /\ v < Usable /\ Physical(pd, v) = v
      <4>1. AllMapped(pd, Extent(t, size))
        BY <2>2, <2>5, <3>2 DEF AllMapped
      <4>2. memory >= 1
        BY <2>1
      <4> HIDE DEF size
      <4> QED BY <1>3, <2>1, <2>2, <2>3, <3>2, <4>1, <4>2, PieceIs
    <3>4. \A k \in 0 .. size - 1 : t + k \in Extent(t, size) /\ Physical(pd, t + k) = t + k
      <4>1. \A k \in 0 .. size - 1 : t + k \in Extent(t, size)
        BY <2>3 DEF Extent
      <4> QED BY <3>3, <4>1
    <3>5. /\ DOMAIN ram' = DOMAIN ram /\ ram' = [a \in DOMAIN ram |-> ram'[a]]
          /\ \A a \in DOMAIN ram : a \notin Extent(t, size) => ram'[a] = ram[a]
          /\ \A f \in Nat :
               /\ Extent(t, size) \union Extent(f, size) \subseteq DOMAIN ram
               /\ \A k \in 0 .. size - 1 : Physical(pd, module[m].start + k) = f + k
               /\ t \notin Extent(f, size) \ {f}
               => \A k \in 0 .. size - 1 : ram'[t + k] = ram[f + k]
      <4>1. ram = [a \in DOMAIN ram |-> ram[a]]
        BY <2>1 DEF RamOK
      <4>2. ram' = Copied(ram, pd, t, module[m].start, size)
        BY <2>2, <3>1, <3>2
      <4> HIDE DEF size
      <4>3. size \in Nat /\ module[m].start \in Nat
        BY <2>3
      <4>4. \A k \in 0 .. size - 1 : Physical(pd, t + k) = t + k
        BY <3>4
      <4> HIDE DEF m
      <4>5. IsCopy(ram, pd, t, module[m].start, size, Copied(ram, pd, t, module[m].start, size))
        BY <4>1, <4>3, <4>4, CopiedIs
      <4>6. IsCopy(ram, pd, t, module[m].start, size, ram')
        BY <4>2, <4>5
      <4> QED BY <4>6 DEF IsCopy
    <3>6. RamOK'
      <4>1. memory' = memory
        BY <1>1, GivenStays
      <4> QED BY <2>1, <3>5, <4>1 DEF RamOK
    <3>7. /\ Len(address') = m /\ address' \in Seq(Nat) /\ address'[m] = TargetStart(m)
          /\ \A e \in 1 .. Len(address) : address'[e] = address[e]
      BY <2>2, <3>1
    <3>8. OrderOK'
      <4>1. (LoaderDirectory(NumeroEntradas))' = LoaderDirectory(NumeroEntradas)
        BY <1>1, GivenStays DEF LoaderDirectory
      <4>2. ASSUME NEW e \in 1 .. m
            PROVE  address'[e] = TargetStart(e) /\ Target(e) \subseteq 0 .. Usable - 1
        <5>1. CASE e = m
          <6>1. Target(m) = Extent(t, size)
            BY <2>2, <2>4, <3>2
          <6>2. \A v \in Extent(t, size) : v \in 0 .. Usable - 1
            BY <2>1, <3>3
          <6> QED BY <3>7, <5>1, <6>1, <6>2
        <5>2. CASE e # m
          <6>1. e \in 1 .. Len(address)
            BY <2>2, <5>2
          <6> QED BY <2>1, <3>7, <6>1 DEF OrderOK
        <5> QED BY <5>1, <5>2
      <4>3. \A e \in 1 .. m : e \in 1 .. 3
        BY <2>2
      <4>4. \A e \in 1 .. m :
               address'[e] = TargetStart(e)' /\ Target(e)' \subseteq 0 .. Usable' - 1
        BY <1>1, <4>2, <4>3, GivenStays
      <4>5. m <= 3 /\ (m # 3 => m < 3)
        BY <2>2
      <4> HIDE DEF m
      <4>6. pd' = (LoaderDirectory(NumeroEntradas))'
        BY <2>1, <3>1, <4>1
      <4> QED BY <3>1, <3>7, <4>4, <4>5, <4>6 DEF OrderOK
    <3>9. KernelOK'
      <4>1. stage' \in {"load", "move"}
        BY <3>1
      <4> QED BY <4>1 DEF KernelOK
    <3>10. ASSUME Room, Spared PROVE ModulesOK'
      <4>1. ModulesOK /\ Usable > 23 /\ \A v \in Place(m) \union Target(m) : v \in Nat /\ v < Usable
        BY <1>1, <2>2, <3>10, RoomIs DEF BootIInv
      <4>2. \A k \in 0 .. size - 1 : ram'[t + k] = ram[module[m].start + k]
        <5>1. Extent(t, size) \union Extent(module[m].start, size) \subseteq DOMAIN ram
          <6>1. \A v \in Nat : v < Usable => v \in DOMAIN ram
            BY <2>1 DEF RamOK
          <6>2. Extent(t, size) = Target(m)
            BY <2>2, <2>4, <3>2
          <6> QED BY <2>4, <4>1, <6>1, <6>2
        <5>2. ASSUME NEW k \in 0 .. size - 1
              PROVE  Physical(pd, module[m].start + k) = module[m].start + k
          <6>1. module[m].start + k \in Extent(module[m].start, size)
            BY <2>3 DEF Extent
          <6>2. module[m].start + k \in 0 .. Usable - 1
            BY <2>1, <2>4, <4>1, <6>1
          <6> QED BY <2>1, <6>2
        <5>3. t \notin Extent(module[m].start, size) \ {module[m].start}
          BY <2>2, <2>4, <3>2, <3>10 DEF Spared
        <5> QED BY <2>3, <3>5, <5>1, <5>2, <5>3
      <4>3. ASSUME NEW j \in 1 .. 3, NEW k \in 0 .. module[j].size - 1
            PROVE  ram'[(IF j <= m THEN TargetStart(j) ELSE module[j].start) + k]
                     = [of |-> Files[j], part |-> k]
        <5>1. ram[(IF j <= Len(address) THEN TargetStart(j) ELSE module[j].start) + k]
                = [of |-> Files[j], part |-> k]
          BY <4>1 DEF ModulesOK, Whole
        <5>2. CASE j = m
          <6>1. ~(j <= Len(address)) /\ j <= m
            BY <2>2, <5>2
          <6>2. ram[module[m].start + k] = [of |-> Files[m], part |-> k]
            BY <5>1, <5>2, <6>1
          <6> QED BY <3>2, <4>2, <5>2, <6>1, <6>2
        <5>3. CASE j < m
          <6>1. j <= Len(address) /\ j <= m
            BY <2>2, <5>3
          <6>2. PICK a : a = TargetStart(j) + k
            OBVIOUS
          <6>3. ram[a] = [of |-> Files[j], part |-> k]
            BY <5>1, <6>1, <6>2
          <6>4. a \in Target(j)
            BY <1>1, <6>2, TargetsAre DEF Target, Extent
          <6>5. a \notin Target(m)
            <7>1. j # m
              BY <5>3, <2>2
            <7> HIDE DEF m
            <7>2. \A e, i \in 1 .. 3 : e # i => Target(e) \intersect Target(i) = {}
              BY <1>1, TargetsAre
            <7> QED BY <2>2, <6>4, <7>1, <7>2
          <6>6. a \in DOMAIN ram
            <7>1. a \in Nat /\ a < Usable
              BY <1>1, <3>10, <6>4, RoomIs
            <7> QED BY <2>1, <7>1 DEF RamOK
          <6>7. ram'[a] = ram[a]
            BY <2>2, <2>4, <3>2, <3>5, <6>5, <6>6
          <6> QED BY <6>1, <6>2, <6>3, <6>7
        <5>4. CASE j > m
          <6>1. ~(j <= Len(address)) /\ ~(j <= m) /\ m \in 1 .. j - 1
            BY <2>2, <5>4
          <6>2. PICK a : a = module[j].start + k
            OBVIOUS
          <6>3. ram[a] = [of |-> Files[j], part |-> k]
            BY <5>1, <6>1, <6>2
          <6>4. a \in Place(j)
            BY <1>1, <6>2, TargetsAre DEF Place, Extent
          <6>5. a \notin Target(m)
            BY <3>10, <6>1, <6>4 DEF Spared
          <6>6. a \in DOMAIN ram
            <7>1. a \in Nat /\ a < Usable
              BY <1>1, <3>10, <6>4, RoomIs
            <7> QED BY <2>1, <7>1 DEF RamOK
          <6>7. ram'[a] = ram[a]
            BY <2>2, <2>4, <3>2, <3>5, <6>5, <6>6
          <6> QED BY <6>1, <6>2, <6>3, <6>7
        <5> QED BY <2>2, <5>2, <5>3, <5>4
      <4>4. ASSUME NEW a \in Tables PROVE ram'[a] = Single("tables")
        <5>1. a \in 5 .. 8
          BY <1>1, <1>3, TablesAre
        <5>2. a \in DOMAIN ram
          <6>1. 8 < memory
            BY <2>1, <4>1
          <6> QED BY <2>1, <5>1, <6>1 DEF RamOK
        <5>3. a \notin Extent(t, size)
          <6>1. \A v \in Extent(t, size) : v >= 20
            BY <2>2, <2>3, <3>2 DEF Extent
          <6> QED BY <5>1, <6>1
        <5>4. ram[a] = Single("tables")
          BY <1>1, <4>1 DEF ModulesOK
        <5> QED BY <3>5, <5>2, <5>3, <5>4
      <4>5. stage' \in {"load", "move"}
        BY <3>1
      <4>6. Tables' = Tables /\ module' = module
            /\ \A j \in 1 .. 3 : TargetStart(j)' = TargetStart(j)
        BY <1>1, GivenStays
      <4>7. ASSUME NEW j \in 1 .. 3
            PROVE  Whole(IF j <= Len(address) THEN TargetStart(j) ELSE module[j].start, j)'
        BY <3>7, <4>3, <4>6 DEF Whole
      <4> QED BY <4>4, <4>5, <4>6, <4>7 DEF ModulesOK
    <3> HIDE DEF m, size, from, to
    <3> QED BY <1>1, <3>6, <3>8, <3>9, <3>10, GivenStays DEF BootIInv
  <2>6. CASE ~AllMapped(pd, from \union to)
    <3>1. Fault
      BY <2>6 DEF MoveModule
    <3>2. ~Room
      <4> SUFFICES ASSUME Room PROVE FALSE
        OBVIOUS
      <4>1. \A v \in from \union to : v \in 0 .. Usable - 1
        BY <1>1, <2>1, <2>2, <2>4, RoomIs
      <4> QED BY <2>1, <2>6, <4>1 DEF AllMapped
    <3> QED BY <1>1, <3>1, <3>2, FaultKeeps
  <2> QED BY <2>5, <2>6
<1> QED BY <1>2, <1>3

\* The order of the steps that follow the moves.
LEMMA OrderStays ==
  ASSUME BootIInv, BelowKernel, UNCHANGED given, address' = address, pd' = pd,
         stage \in {"load", "setup", "root"}, stage' \in {"setup", "root", "run"}
  PROVE  OrderOK'
<1>1. GivenOK /\ OrderOK
  BY DEF BootIInv
<1>2. (LoaderDirectory(NumeroEntradas))' = LoaderDirectory(NumeroEntradas)
  BY <1>1, GivenStays DEF LoaderDirectory
<1>3. Len(address) = 3 /\ address \in Seq(Nat)
  BY <1>1 DEF OrderOK
<1>4. \A e \in 1 .. 3 : address'[e] = TargetStart(e)' /\ Target(e)' \subseteq 0 .. Usable' - 1
  BY <1>1, <1>3, GivenStays DEF OrderOK
<1>5. pd = LoaderDirectory(NumeroEntradas)
  BY <1>1 DEF OrderOK
<1> QED BY <1>2, <1>3, <1>4, <1>5 DEF OrderOK

\* With room for everything what was moved is read whole.
LEMMA IntactIs ==
  ASSUME BootIInv, BelowKernel, Room, Spared, stage # "paging", Len(address) = 3, NEW m \in 1 .. 3
  PROVE  Intact(m)
<1>1. ModulesOK /\ OrderOK /\ GivenOK
      /\ \A v \in 0 .. Usable - 1 : Mapped(pd, v) /\ Physical(pd, v) = v
  BY LoadedIs DEF BootIInv
<1>2. Whole(TargetStart(m), m)
  BY <1>1 DEF ModulesOK
<1>3. address[m] = TargetStart(m) /\ Target(m) \subseteq 0 .. Usable - 1
  BY <1>1 DEF OrderOK
<1>4. ASSUME NEW k \in 0 .. module[m].size - 1
      PROVE  ram[Physical(pd, address[m] + k)] = [of |-> Files[m], part |-> k]
  <2>1. TargetStart(m) + k \in Target(m)
    BY <1>1, TargetsAre DEF Target, Extent
  <2>2. Physical(pd, TargetStart(m) + k) = TargetStart(m) + k
    BY <1>1, <1>3, <2>1
  <2> QED BY <1>2, <1>3, <2>2 DEF Whole
<1> QED BY <1>4 DEF Intact

\* What is written below 20 MB, outside of the page tables, leaves the modules whole.
LEMMA ModulesStay ==
  ASSUME BootIInv, Room, Spared, UNCHANGED given, address' = address, ModulesOK,
         stage \in {"load", "setup", "root"}, stage' \in {"setup", "root", "run"},
         \A a \in DOMAIN ram : a >= 20 \/ a \in 5 .. 8 => ram'[a] = ram[a],
         stage' = "run" => RootOK'
  PROVE  ModulesOK'
<1>1. GivenOK /\ BelowKernel /\ RamOK /\ OrderOK
  BY RoomIs DEF BootIInv
<1>2. Len(address) = 3
  BY <1>1 DEF OrderOK
<1>3. memory \in Nat /\ Usable \in Nat /\ Usable > 23 /\ Usable < memory
      /\ \A m \in 1 .. 3 : \A a \in Target(m) : a \in Nat /\ a < Usable
  BY <1>1, RoomIs DEF GivenOK
<1>4. ASSUME NEW m \in 1 .. 3, NEW k \in 0 .. module[m].size - 1
      PROVE  ram'[TargetStart(m) + k] = [of |-> Files[m], part |-> k]
  <2>1. ram[TargetStart(m) + k] = [of |-> Files[m], part |-> k]
    BY <1>2 DEF ModulesOK, Whole
  <2>2. TargetStart(m) + k \in Target(m) /\ TargetStart(m) + k >= 20
    BY <1>1, TargetsAre DEF Target, Extent
  <2>3. TargetStart(m) + k \in DOMAIN ram
    BY <1>1, <1>3, <2>2 DEF RamOK
  <2> QED BY <2>1, <2>2, <2>3
<1>5. ASSUME NEW a \in Tables PROVE ram'[a] = Single("tables")
  <2>1. a \in 5 .. 8
    BY <1>1, TablesAre
  <2>2. a \in DOMAIN ram
    BY <1>1, <1>3, <2>1 DEF RamOK
  <2> QED BY <2>1, <2>2 DEF ModulesOK
<1>6. Tables' = Tables /\ module' = module /\ \A m \in 1 .. 3 : TargetStart(m)' = TargetStart(m)
  BY <1>1, GivenStays
<1>7. ASSUME NEW m \in 1 .. 3
      PROVE  Whole(IF m <= Len(address) THEN TargetStart(m) ELSE module[m].start, m)'
  BY <1>2, <1>4, <1>6 DEF Whole
<1> QED BY <1>5, <1>6, <1>7 DEF ModulesOK

\* The microkernel, of 1 MB, comes to the fifth MB.
LEMMA LoadKeeps == BootIInv /\ LoadMicrokernel => BootIInv'
<1> SUFFICES ASSUME BootIInv, LoadMicrokernel PROVE BootIInv'
  OBVIOUS
<1>1. GivenOK /\ UNCHANGED given /\ stage = "load"
  BY DEF BootIInv, LoadMicrokernel, Fault
<1>2. CASE ~BelowKernel
  <2>1. GivenOK' /\ ~BelowKernel' /\ ~Room'
    BY <1>1, <1>2, GivenStays DEF Room
  <2> QED BY <2>1 DEF BootIInv
<1>3. CASE BelowKernel
  <2>1. /\ RamOK /\ OrderOK /\ memory \in Nat
        /\ Usable \in Nat /\ Usable < memory
        /\ \A v \in 0 .. Usable - 1 : Mapped(pd, v) /\ Physical(pd, v) = v
        /\ Physical(pd, 3072) = 4 /\ (Mapped(pd, 3072) <=> 4 < memory)
    BY <1>1, <1>3, LoadedIs
  <2>2. /\ TargetStart(1) = 20 /\ module[1].size = 1 /\ 20 \in Target(1) /\ Target(1) = {20}
    <3>1. TargetStart(1) = 20 /\ module[1].size = 1
      BY <1>1, TargetsAre DEF GivenOK
    <3> QED BY <3>1 DEF Target, Extent
  <2>3. Len(address) = 3 /\ address \in Seq(Nat)
    BY <1>1, <2>1 DEF OrderOK
  <2>4. address[1] = 20 /\ 20 \in 0 .. Usable - 1
    BY <2>1, <2>2, <2>3 DEF OrderOK
  <2>5. Physical(pd, 20) = 20
    BY <2>1, <2>4
  <2>6. CASE Intact(1) /\ Mapped(pd, MICROKERNEL_ADDRESS)
    <3>1. /\ ram' = Copied(ram, pd, 3072, 20, 1) /\ stage' = "setup"
          /\ address' = address /\ pd' = pd /\ 4 < memory
      BY <2>1, <2>2, <2>4, <2>6, Numbers DEF LoadMicrokernel
    <3>2. IsCopy(ram, pd, 4, 20, 1, ram')
      <4>1. ram = [a \in DOMAIN ram |-> ram[a]]
        BY <2>1 DEF RamOK
      <4>2. \A k \in 0 .. 1 - 1 : 3072 + k = 3072 /\ 4 + k = 4
        OBVIOUS
      <4>3. \A k \in 0 .. 1 - 1 : Physical(pd, 3072 + k) = 4 + k
        BY <2>1, <4>2
      <4>4. IsCopy(ram, pd, 4, 20, 1, Copied(ram, pd, 3072, 20, 1))
        BY <4>1, <4>3, CopiedIs
      <4> QED BY <3>1, <4>4
    <3>3. Extent(4, 1) = {4} /\ Extent(20, 1) = {20}
      BY DEF Extent
    <3>4. /\ DOMAIN ram' = DOMAIN ram /\ ram' = [a \in DOMAIN ram |-> ram'[a]]
          /\ \A a \in DOMAIN ram : a # 4 => ram'[a] = ram[a]
      BY <3>2, <3>3 DEF IsCopy
    <3>5. ram'[4] = [of |-> Files[1], part |-> 0]
      <4>1. 4 \in DOMAIN ram /\ 20 \in DOMAIN ram
        BY <2>1, <2>4, <3>1 DEF RamOK
      <4>2. \A k \in 0 .. 1 - 1 : Physical(pd, 20 + k) = 20 + k
        <5>1. \A k \in 0 .. 1 - 1 : 20 + k = 20
          OBVIOUS
        <5> QED BY <2>5, <5>1
      <4>3. \A k \in 0 .. 1 - 1 : ram'[4 + k] = ram[20 + k]
        <5>1. Extent(4, 1) \union Extent(20, 1) \subseteq DOMAIN ram
              /\ 4 \notin Extent(20, 1) \ {20} /\ 20 \in Nat
          BY <3>3, <4>1
        <5> QED BY <3>2, <4>2, <5>1 DEF IsCopy
      <4>4. 0 \in 0 .. 1 - 1 /\ 4 + 0 = 4 /\ 20 + 0 = 20
        OBVIOUS
      <4>5. ram'[4] = ram[20]
        BY <4>3, <4>4
      <4>6. ram[Physical(pd, 20 + 0)] = [of |-> Files[1], part |-> 0]
        BY <2>2, <2>4, <2>6, <4>4 DEF Intact
      <4> QED BY <2>5, <4>4, <4>5, <4>6
    <3>6. RamOK'
      <4>1. memory' = memory
        BY <1>1, GivenStays
      <4> QED BY <2>1, <3>4, <4>1 DEF RamOK
    <3>7. OrderOK'
      BY <1>1, <1>3, <3>1, OrderStays
    <3>8. KernelOK'
      <4>1. memory' = memory
        BY <1>1, GivenStays
      <4> QED BY <3>1, <3>5, <4>1 DEF KernelOK
    <3>9. ASSUME Room, Spared PROVE ModulesOK'
      <4>1. ModulesOK
        BY <3>9 DEF BootIInv
      <4>2. stage' = "setup"
        BY <3>1
      <4> QED BY <1>1, <2>3, <3>1, <3>4, <3>9, <4>1, <4>2, ModulesStay
    <3> QED BY <1>1, <3>6, <3>7, <3>8, <3>9, GivenStays DEF BootIInv
  <2>7. CASE ~(Intact(1) /\ Mapped(pd, MICROKERNEL_ADDRESS))
    <3>1. Fault
      BY <2>7 DEF LoadMicrokernel
    <3>2. ~(Room /\ Spared)
      <4> SUFFICES ASSUME Room, Spared PROVE FALSE
        OBVIOUS
      <4>1. Mapped(pd, MICROKERNEL_ADDRESS)
        BY <2>1, <2>4, Numbers
      <4>2. Intact(1)
        BY <1>1, <1>3, <2>3, IntactIs
      <4> QED BY <2>7, <4>1, <4>2
    <3> QED BY <1>1, <3>1, <3>2, FaultKeeps
  <2> QED BY <2>6, <2>7
<1> QED BY <1>2, <1>3

\* One page holds the numbers of the 767 others.
LEMMA AllocatorIs ==
  CreatePageAllocator(3081, 3084)
    = [data |-> 3081 * PagesPerMB + 1, count |-> 767, index |-> 0]
<1> DEFINE Enough(c) == c * 1024 >= 768 - c /\ (c = 0 \/ (c - 1) * 1024 < 768 - (c - 1))
<1>1. Enough(1) /\ 1 \in 0 .. 768
  OBVIOUS
<1>2. \A c \in 0 .. 768 : Enough(c) => c = 1
  OBVIOUS
<1>3. (CHOOSE c \in 0 .. 768 : Enough(c)) = 1
  <2> HIDE DEF Enough
  <2> QED BY <1>1, <1>2
<1>4. (3084 - 3081) * PagesPerMB = 768
  BY Numbers
<1>5. 768 - 1 = 767
  OBVIOUS
<1> QED BY <1>3, <1>4, <1>5 DEF CreatePageAllocator

\* The kernel keeps the loader's directory, and its second heap becomes pages.
LEMMA SetupKeeps == BootIInv /\ SetupHardware => BootIInv'
<1> SUFFICES ASSUME BootIInv, SetupHardware PROVE BootIInv'
  OBVIOUS
<1>1. GivenOK /\ UNCHANGED given /\ stage = "setup"
  BY DEF BootIInv, SetupHardware, Fault
<1>2. CASE ~BelowKernel
  <2>1. GivenOK' /\ ~BelowKernel' /\ ~Room'
    BY <1>1, <1>2, GivenStays DEF Room
  <2> QED BY <2>1 DEF BootIInv
<1>3. CASE BelowKernel
  <2>1. /\ RamOK /\ OrderOK /\ KernelOK /\ memory \in Nat /\ Maps(NumeroEntradas, pd)
        /\ Usable \in Nat /\ Usable < memory
        /\ \A v \in 0 .. Usable - 1 : Mapped(pd, v) /\ Physical(pd, v) = v
        /\ Physical(pd, 3081) = 13 /\ (Mapped(pd, 3081) <=> 13 < memory)
    BY <1>1, <1>3, LoadedIs
  <2>2. MICROKERNEL_ADDRESS + MICROKERNEL_HEAP2 = 3081
        /\ MICROKERNEL_ADDRESS + KERNEL_BASE_ADDRESS = 3084
    BY Numbers
  <2>3. CASE AllMapped(pd, {HardwareMemory, 3081})
    <3>1. /\ pd' = [i \in DOMAIN pd \union 1020 .. 1022 |->
                      IF i \in 1020 .. 1022 THEN pd[i - 1020] ELSE pd[i]]
          /\ allocator' = CreatePageAllocator(3081, 3084)
          /\ ram' = [ram EXCEPT ![13] = Single("pages")]
          /\ stage' = "root" /\ address' = address
      BY <2>1, <2>2, <2>3 DEF SetupHardware
    <3>2. 13 < memory
      BY <2>1, <2>3 DEF AllMapped
    <3>3. pd' = pd
      <4>1. PICK n : n = NumeroEntradas
        OBVIOUS
      <4>2. n \in 0 .. 767 /\ Usable = 4 * n /\ Usable = (memory - 1) - ((memory - 1) % 4)
        BY <2>1, <4>1 DEF Maps, Usable
      <4>3. PICK v \in Nat : v = memory - 1
        BY <3>2, <2>1
      <4>4. v % 4 \in 0 .. 3 /\ v >= 13 /\ 4 * n = v - (v % 4)
        BY <2>1, <3>2, <4>2, <4>3
      <4>5. n >= 3
        BY <4>2, <4>3, <4>4
      <4>6. [i \in DOMAIN pd \union 1020 .. 1022 |->
                IF i \in 1020 .. 1022 THEN pd[i - 1020] ELSE pd[i]] = pd
        BY <2>1, <4>1, <4>5 DEF Maps
      <4> QED BY <3>1, <4>6
    <3>4. RamOK'
      <4>1. memory' = memory
        BY <1>1, GivenStays
      <4>2. DOMAIN ram' = DOMAIN ram /\ ram' = [a \in DOMAIN ram |-> ram'[a]]
        BY <3>1
      <4> QED BY <2>1, <4>1, <4>2 DEF RamOK
    <3>5. OrderOK'
      BY <1>1, <1>3, <3>1, <3>3, OrderStays
    <3>6. \A a \in DOMAIN ram : a # 13 => ram'[a] = ram[a]
      BY <2>1, <3>1 DEF RamOK
    <3>7. KernelOK'
      <4>1. memory' = memory
        BY <1>1, GivenStays
      <4>2. 4 < memory /\ ram[4] = [of |-> Files[1], part |-> 0]
        BY <1>1, <2>1 DEF KernelOK
      <4>3. ram'[4] = ram[4]
        BY <2>1, <3>6, <4>2 DEF RamOK
      <4>4. allocator' = [data |-> 3081 * PagesPerMB + 1, count |-> 767, index |-> 0]
        BY <3>1, AllocatorIs
      <4>5. ram'[13] = Single("pages")
        <5>1. 13 \in DOMAIN ram
          BY <2>1, <3>2 DEF RamOK
        <5> QED BY <3>1, <5>1
      <4> QED BY <3>1, <3>2, <4>1, <4>2, <4>3, <4>4, <4>5 DEF KernelOK
    <3>8. ASSUME Room, Spared PROVE ModulesOK'
      <4>1. ModulesOK
        BY <3>8 DEF BootIInv
      <4>2. \A a \in DOMAIN ram : a >= 20 \/ a \in 5 .. 8 => ram'[a] = ram[a]
        BY <2>1, <3>6 DEF RamOK
      <4> QED BY <1>1, <3>1, <3>8, <4>1, <4>2, ModulesStay
    <3> QED BY <1>1, <3>4, <3>5, <3>7, <3>8, GivenStays DEF BootIInv
  <2>4. CASE ~AllMapped(pd, {HardwareMemory, 3081})
    <3>1. Fault
      BY <2>2, <2>4 DEF SetupHardware
    <3>2. ~Room
      <4> SUFFICES ASSUME Room PROVE FALSE
        OBVIOUS
      <4>1. Usable > 23
        BY <1>1, RoomIs
      <4>2. Mapped(pd, 3081)
        BY <2>1, <4>1
      <4>3. PICK n : n = NumeroEntradas
        OBVIOUS
      <4>4. n \in 0 .. 767 /\ Usable = 4 * n
        BY <2>1, <4>3 DEF Maps
      <4>5. n >= 3
        BY <4>1, <4>4
      <4>6. \A k \in 0 .. 2 : 1020 + k \in DOMAIN pd /\ pd[1020 + k] = 4 * k
        BY <2>1, <4>3, <4>5 DEF Maps
      <4>7. 0 \in 0 .. 2 /\ 1020 + 0 = 1020 /\ 4 * 0 = 0
        OBVIOUS
      <4>8. 1020 \in DOMAIN pd /\ pd[1020] = 0
        BY <4>6, <4>7
      <4>9. 4080 \div 4 = 1020 /\ 4080 % 4 = 0
        OBVIOUS
      <4>10. Mapped(pd, 4080)
        BY <2>1, <4>1, <4>8, <4>9 DEF Mapped, Physical
      <4> QED BY <2>4, <4>2, <4>10, Numbers DEF AllMapped
    <3> QED BY <1>1, <3>1, <3>2, FaultKeeps
  <2> QED BY <2>3, <2>4
<1> QED BY <1>2, <1>3

\* The root server is copied to 12 MB, behind the page with its directory.
LEMMA RootKeeps == BootIInv /\ LoadRootServer => BootIInv'
<1> SUFFICES ASSUME BootIInv, LoadRootServer PROVE BootIInv'
  OBVIOUS
<1> DEFINE size   == module[2].size
           zeroes == module[2].zeroes
           image  == Extent(12, size)
           zeros  == Extent(12 + size, zeroes)
<1>1. GivenOK /\ UNCHANGED given /\ stage = "root"
  BY DEF BootIInv, LoadRootServer, Fault
<1>2. CASE ~BelowKernel
  <2>1. GivenOK' /\ ~BelowKernel' /\ ~Room'
    BY <1>1, <1>2, GivenStays DEF Room
  <2> QED BY <2>1 DEF BootIInv
<1>3. CASE BelowKernel
  <2>1. /\ RamOK /\ OrderOK /\ KernelOK /\ memory \in Nat /\ memory >= 3
        /\ Usable \in Nat /\ Usable < memory
        /\ pd = LoaderDirectory(NumeroEntradas)
        /\ \A v \in 0 .. Usable - 1 : Mapped(pd, v) /\ Physical(pd, v) = v
    BY <1>1, <1>3, LoadedIs
  <2>2. size \in Nat \ {0} /\ zeroes \in Nat /\ TargetStart(2) = 22
    <3>1. \A m \in 1 .. 3 : module[m].size \in Nat \ {0} /\ module[m].zeroes \in Nat
      BY <1>1, ModulesAre
    <3>2. TargetStart(2) = 22
      BY <1>1, TargetsAre
    <3> QED BY <3>1, <3>2
  <2>3. Len(address) = 3 /\ address \in Seq(Nat) /\ address[2] = 22 /\ address[3] = TargetStart(3)
    <3>1. address \in Seq(Nat) /\ Len(address) = 3
      BY <1>1, <2>1 DEF OrderOK
    <3>2. \A e \in 1 .. Len(address) : address[e] = TargetStart(e)
      BY <2>1 DEF OrderOK
    <3>3. 2 \in 1 .. Len(address) /\ 3 \in 1 .. Len(address)
      BY <3>1
    <3>4. address[2] = TargetStart(2) /\ address[3] = TargetStart(3)
      BY <3>2, <3>3
    <3> QED BY <2>2, <3>1, <3>4
  <2>4. allocator = [data |-> 3081 * PagesPerMB + 1, count |-> 767, index |-> 0]
        /\ 13 < memory /\ 4 < memory /\ ram[4] = [of |-> Files[1], part |-> 0]
        /\ ram[13] = Single("pages")
    BY <1>1, <2>1 DEF KernelOK
  <2>5. (AllocPage \div PagesPerMB) - MICROKERNEL_ADDRESS = 9
    <3>1. AllocPage = 3081 * 256 + 1
      BY <2>4, Numbers DEF AllocPage
    <3>2. (3081 * 256 + 1) \div 256 = 3081
      OBVIOUS
    <3> QED BY <3>1, <3>2, Numbers
  <2>6. Extent(KERNEL_BASE_ADDRESS, module[2].size) = image
        /\ Extent(KERNEL_BASE_ADDRESS + module[2].size, module[2].zeroes) = zeros
    BY Numbers
  <2>7. CASE Intact(2) /\ AllMapped(pd, image \union zeros \union {9})
    <3> DEFINE mem == [ram EXCEPT ![9] = Single("directory")]
               cp  == Copied(mem, pd, 12, 22, size)
    <3>1. \A v \in image \union zeros : v \in Nat /\ v < Usable /\ Physical(pd, v) = v
      <4>1. image \union zeros = Extent(12, size + zeroes)
        BY <2>2 DEF Extent
      <4>2. AllMapped(pd, Extent(12, size + zeroes))
        BY <2>7, <4>1 DEF AllMapped
      <4>3. memory >= 1 /\ size + zeroes \in Nat
        BY <2>1, <2>2
      <4> HIDE DEF size, zeroes, image, zeros
      <4>4. \A v \in Extent(12, size + zeroes) : v \in Nat /\ v < Usable /\ Physical(pd, v) = v
        BY <1>3, <2>1, <4>2, <4>3, PieceIs
      <4> QED BY <4>1, <4>4
    <3>2. Physical(pd, 9) = 9
      <4>1. Mapped(pd, 9)
        BY <2>7 DEF AllMapped
      <4>2. 9 < Usable
        BY <1>3, <2>1, <4>1, LowIs
      <4> QED BY <2>1, <4>2
    <3>3. /\ allocator' = [allocator EXCEPT !.index = @ + 1]
          /\ ram' = Zeroed(cp, pd, zeros)
          /\ rootPD' = RootDirectory(NumeroEntradas)
          /\ bootInfo' = address[3] - 12
          /\ stage' = "run" /\ address' = address /\ pd' = pd
      <4>1. PICK page : page = (AllocPage \div PagesPerMB) - MICROKERNEL_ADDRESS
        OBVIOUS
      <4>2. PICK im, ze : im = image /\ ze = zeros
        OBVIOUS
      <4>3. page = 9 /\ im = Extent(KERNEL_BASE_ADDRESS, module[2].size)
            /\ ze = Extent(KERNEL_BASE_ADDRESS + module[2].size, module[2].zeroes)
            /\ Intact(2) /\ AllMapped(pd, im \union ze \union {page})
        BY <2>5, <2>6, <2>7, <4>1, <4>2
      <4> HIDE DEF size, image, zeros, cp, mem
      <4>4. /\ allocator' = [allocator EXCEPT !.index = @ + 1]
            /\ ram' = Zeroed(Copied([ram EXCEPT ![Physical(pd, page)] = Single("directory")], pd,
                                    KERNEL_BASE_ADDRESS, address[2], module[2].size), pd, ze)
            /\ rootPD' = RootDirectory(NumeroEntradas)
            /\ bootInfo' = address[3] - KERNEL_BASE_ADDRESS
            /\ stage' = "run" /\ address' = address /\ pd' = pd
        BY <4>1, <4>3 DEF LoadRootServer
      <4>5. cp = Copied([ram EXCEPT ![Physical(pd, page)] = Single("directory")], pd,
                        KERNEL_BASE_ADDRESS, address[2], module[2].size)
        <5>1. Physical(pd, page) = 9 /\ KERNEL_BASE_ADDRESS = 12 /\ address[2] = 22
          BY <2>3, <3>2, <4>3, Numbers
        <5> QED BY <5>1 DEF cp, mem, size
      <4> QED BY <4>2, <4>4, <4>5, Numbers
    <3>4. /\ DOMAIN mem = DOMAIN ram /\ mem = [a \in DOMAIN mem |-> mem[a]]
          /\ 9 \in DOMAIN ram /\ mem[9] = Single("directory")
          /\ \A a \in DOMAIN ram : a # 9 => mem[a] = ram[a]
      <4>1. DOMAIN ram = 0 .. memory - 1 /\ memory \in Nat /\ 13 < memory
        BY <2>1, <2>4 DEF RamOK
      <4>2. 9 \in DOMAIN ram
        BY <4>1
      <4>3. DOMAIN mem = DOMAIN ram /\ mem = [a \in DOMAIN ram |-> mem[a]]
        OBVIOUS
      <4> QED BY <4>2, <4>3
    <3>5. IsCopy(mem, pd, 12, 22, size, cp)
      <4>1. ASSUME NEW k \in 0 .. size - 1 PROVE Physical(pd, 12 + k) = 12 + k
        <5>1. 12 + k \in image
          BY <2>2 DEF Extent
        <5> QED BY <3>1, <5>1
      <4>2. size \in Nat
        BY <2>2
      <4> HIDE DEF mem, size
      <4> QED BY <3>4, <4>1, <4>2, CopiedIs
    <3> HIDE DEF cp, mem
    <3>6. /\ DOMAIN cp = DOMAIN ram
          /\ \A a \in DOMAIN ram : a \notin image => cp[a] = mem[a]
      BY <3>4, <3>5 DEF IsCopy
    <3>7. /\ DOMAIN ram' = DOMAIN ram /\ ram' = [a \in DOMAIN ram |-> ram'[a]]
          /\ \A a \in DOMAIN ram : a \in zeros => ram'[a] = Single("zero")
          /\ \A a \in DOMAIN ram : a \notin zeros => ram'[a] = cp[a]
      <4>1. ram' = [a \in DOMAIN cp |->
                      IF \E v \in zeros : Physical(pd, v) = a THEN Single("zero") ELSE cp[a]]
        BY <3>3 DEF Zeroed
      <4>2. \A a \in DOMAIN ram : (\E v \in zeros : Physical(pd, v) = a) <=> a \in zeros
        <5> HIDE DEF zeros
        <5> QED BY <3>1
      <4> HIDE DEF zeros
      <4> QED BY <3>6, <4>1, <4>2
    <3>8. \A a \in image \union zeros : a \in Nat /\ a >= 12
      BY <2>2 DEF Extent
    <3>9. \A a \in DOMAIN ram : a < 12 /\ a # 9 => ram'[a] = ram[a]
      <4>1. \A a \in DOMAIN ram : a < 12 => a \notin image /\ a \notin zeros
        BY <2>1, <3>8 DEF RamOK
      <4> HIDE DEF image, zeros
      <4> QED BY <3>4, <3>6, <3>7, <4>1
    <3>10. RamOK'
      <4>1. memory' = memory
        BY <1>1, GivenStays
      <4> QED BY <2>1, <3>7, <4>1 DEF RamOK
    <3>11. OrderOK'
      BY <1>1, <1>3, <3>3, OrderStays
    <3>12. KernelOK'
      <4>1. memory' = memory /\ NumeroEntradas' = NumeroEntradas
        BY <1>1, GivenStays
      <4>2. ram'[4] = ram[4]
        <5>1. 4 \in DOMAIN ram
          <6>1. DOMAIN ram = 0 .. memory - 1 /\ memory \in Nat /\ 13 < memory
            BY <2>1, <2>4 DEF RamOK
          <6> QED BY <6>1
        <5> QED BY <3>9, <5>1
      <4>3. ram'[9] = Single("directory")
        <5>1. 9 \notin image /\ 9 \notin zeros
          BY <3>8
        <5> HIDE DEF image, zeros
        <5> QED BY <3>4, <3>6, <3>7, <5>1
      <4>4. allocator' = [data |-> 3081 * PagesPerMB + 1, count |-> 767, index |-> 1]
        <5>1. PICK d : d = 3081 * PagesPerMB + 1
          OBVIOUS
        <5>2. allocator = [data |-> d, count |-> 767, index |-> 0]
          BY <2>4, <5>1
        <5>3. allocator' = [data |-> d, count |-> 767, index |-> 0 + 1]
          BY <3>3, <5>2
        <5>4. 0 + 1 = 1
          OBVIOUS
        <5> QED BY <5>1, <5>3, <5>4
      <4>5. rootPD' = RootDirectory(NumeroEntradas)'
        BY <3>3, <4>1 DEF RootDirectory
      <4>6. module' = module
        BY <1>1, GivenStays
      <4>7. ASSUME size + zeroes <= 1 PROVE ram'[13] = Single("pages")
        <5>1. 13 \notin image /\ 13 \notin zeros
          BY <2>2, <4>7 DEF Extent
        <5>2. 13 \in DOMAIN ram
          BY <2>1, <2>4 DEF RamOK
        <5> HIDE DEF image, zeros
        <5>3. ram'[13] = ram[13]
          BY <3>4, <3>6, <3>7, <5>1, <5>2
        <5> QED BY <2>4, <5>3
      <4> QED BY <2>4, <3>3, <4>1, <4>2, <4>3, <4>4, <4>5, <4>6, <4>7 DEF KernelOK
    <3>13. ASSUME Room, Spared PROVE ModulesOK'
      <4>1. ModulesOK /\ 12 + size + zeroes <= 20 /\ \A a \in Target(2) : a \in Nat /\ a < Usable
        BY <1>1, <3>13, RoomIs DEF BootIInv
      <4>2. \A a \in DOMAIN ram : a >= 20 \/ a \in 5 .. 8 => ram'[a] = ram[a]
        <5>1. \A a \in image \union zeros : a < 20
          BY <2>2, <4>1 DEF Extent
        <5>2. \A a \in DOMAIN ram : a >= 20 => a \notin image /\ a \notin zeros /\ a # 9
          BY <2>1, <5>1 DEF RamOK
        <5>3. \A a \in DOMAIN ram : a >= 20 => ram'[a] = ram[a]
          <6> HIDE DEF image, zeros
          <6> QED BY <3>4, <3>6, <3>7, <5>2
        <5>4. \A a \in 5 .. 8 : a < 12 /\ a # 9
          OBVIOUS
        <5> QED BY <3>9, <5>3, <5>4
      <4>3. ASSUME NEW k \in 0 .. size - 1
            PROVE  ram'[12 + k] = [of |-> Files[2], part |-> k]
        <5>1. 12 + k \in image /\ 12 + k \notin zeros /\ 22 + k # 9
          BY <2>2 DEF Extent
        <5>2. 12 + k \in DOMAIN ram
          BY <2>1, <3>1, <5>1 DEF RamOK
        <5>3. ram'[12 + k] = cp[12 + k]
          BY <3>7, <5>1, <5>2
        <5>4. ASSUME NEW j \in 0 .. size - 1
              PROVE  22 + j \in Target(2) /\ 22 + j \in DOMAIN ram /\ Physical(pd, 22 + j) = 22 + j
          <6>1. 22 + j \in Target(2)
            BY <2>2 DEF Target, Extent
          <6>2. 22 + j \in 0 .. Usable - 1
            BY <2>1, <4>1, <6>1
          <6> QED BY <2>1, <6>1, <6>2 DEF RamOK
        <5>5. cp[12 + k] = mem[22 + k]
          <6>1. Extent(12, size) \union Extent(22, size) \subseteq DOMAIN mem
            <7>1. Extent(22, size) = Target(2)
              BY <2>2 DEF Target
            <7>2. \A v \in Nat : v < Usable => v \in DOMAIN ram
              BY <2>1 DEF RamOK
            <7> QED BY <3>1, <3>4, <4>1, <7>1, <7>2
          <6>2. 12 \notin Extent(22, size) \ {22}
            BY <2>2 DEF Extent
          <6> HIDE DEF size
          <6> QED BY <3>5, <5>4, <6>1, <6>2 DEF IsCopy
        <5>6. mem[22 + k] = ram[22 + k]
          BY <3>4, <5>1, <5>4
        <5>7. ram[22 + k] = [of |-> Files[2], part |-> k]
          BY <2>2, <2>3, <4>1 DEF ModulesOK, Whole
        <5> QED BY <5>3, <5>5, <5>6, <5>7
      <4>4. \A a \in zeros : ram'[a] = Single("zero")
        <5>1. \A a \in zeros : a \in DOMAIN ram
          BY <2>1, <3>1 DEF RamOK
        <5> QED BY <3>7, <5>1
      <4>5. module' = module /\ TargetStart(3)' = TargetStart(3)
        BY <1>1, GivenStays
      <4>6. bootInfo' = TargetStart(3)' - 12
        BY <2>3, <3>3, <4>5
      <4>7. RootOK'
        BY <4>3, <4>4, <4>5, <4>6, Numbers DEF RootOK, Whole
      <4> QED BY <1>1, <3>3, <3>13, <4>1, <4>2, <4>7, ModulesStay
    <3> QED BY <1>1, <3>10, <3>11, <3>12, <3>13, GivenStays DEF BootIInv
  <2>8. CASE ~(Intact(2) /\ AllMapped(pd, image \union zeros \union {9}))
    <3>1. Fault
      BY <2>5, <2>6, <2>8 DEF LoadRootServer
    <3>2. ~(Room /\ Spared)
      <4> SUFFICES ASSUME Room, Spared PROVE FALSE
        OBVIOUS
      <4>1. Usable > 23 /\ 12 + size + zeroes <= 20
        BY <1>1, RoomIs
      <4>2. \A v \in image \union zeros \union {9} : v \in 0 .. Usable - 1
        BY <2>1, <2>2, <4>1 DEF Extent
      <4>3. AllMapped(pd, image \union zeros \union {9})
        BY <2>1, <4>2 DEF AllMapped
      <4>4. Intact(2)
        BY <1>1, <1>3, <2>3, IntactIs
      <4> QED BY <2>8, <4>3, <4>4
    <3> QED BY <1>1, <3>1, <3>2, FaultKeeps
  <2> QED BY <2>7, <2>8
<1> QED BY <1>2, <1>3

-----------------------------------------------------------------------------
(* What holds from GRUB to the first thread.                               *)

\* The parts of the invariant hold in every reachable state, for every size of the memory,
\* every size of the files and every place GRUB puts them in.
THEOREM BootInvariance == BootSpec => []BootIInv
<1>1. ASSUME BootIInv, UNCHANGED bootVars PROVE BootIInv'
  <2>1. UNCHANGED given /\ ram' = ram /\ stage' = stage /\ address' = address /\ pd' = pd
        /\ rootPD' = rootPD /\ allocator' = allocator /\ bootInfo' = bootInfo
        /\ memory' = memory /\ module' = module
    BY <1>1 DEF bootVars, given
  <2>2. GivenOK
    BY <1>1 DEF BootIInv
  <2>3. RootDirectory(NumeroEntradas)' = RootDirectory(NumeroEntradas)
        /\ LoaderDirectory(NumeroEntradas)' = LoaderDirectory(NumeroEntradas)
    BY <2>1, <2>2, GivenStays DEF RootDirectory, LoaderDirectory
  <2>4. RamOK => RamOK'
    BY <2>1 DEF RamOK
  <2>5. KernelOK => KernelOK'
    BY <2>1, <2>3 DEF KernelOK
  <2>6. OrderOK => OrderOK'
    <3> SUFFICES ASSUME OrderOK PROVE OrderOK'
      OBVIOUS
    <3>1. address \in Seq(Nat) /\ Len(address) <= 3
      BY DEF OrderOK
    <3>2. \A e \in 1 .. Len(address) : e \in 1 .. 3
      BY <3>1
    <3>3. \A e \in 1 .. Len(address) :
            address[e] = TargetStart(e)' /\ Target(e)' \subseteq 0 .. Usable' - 1
      BY <2>1, <2>2, <3>2, GivenStays DEF OrderOK
    <3> QED BY <2>1, <2>3, <3>3 DEF OrderOK
  <2>7. ModulesOK => ModulesOK'
    <3>1. \A m \in 1 .. 3 : TargetStart(m)' = TargetStart(m)
      BY <2>1, <2>2, GivenStays
    <3>2. Tables' = Tables
      BY <2>1, <2>2, GivenStays
    <3>3. RootOK => RootOK'
      BY <2>1, <3>1 DEF RootOK, Whole
    <3> QED BY <2>1, <3>1, <3>2, <3>3 DEF ModulesOK, Whole
  <2> QED BY <1>1, <2>1, <2>2, <2>4, <2>5, <2>6, <2>7, GivenStays DEF BootIInv
<1>2. BootIInv /\ [BootNext]_bootVars => BootIInv'
  BY <1>1, PagingKeeps, MoveKeeps, LoadKeeps, SetupKeeps, RootKeeps DEF BootNext
<1> QED BY BootInitIInv, <1>2, PTL DEF BootSpec

\* With room for everything no copy of the loader or of the kernel touches an address
\* that is not mapped.
THEOREM NothingFaults == BootSpec => []NoFault
<1>1. BootIInv => NoFault
  BY DEF BootIInv, NoFault, ModulesOK
<1> QED BY <1>1, BootInvariance, PTL

\* The directory of the root server maps the memory from 12 MB on.
LEMMA RootDirectoryIs ==
  ASSUME BootIInv, BelowKernel, stage = "run"
  PROVE  /\ \A v \in Nat : v + 12 < Usable => Mapped(rootPD, v) /\ Physical(rootPD, v) = v + 12
         /\ Mapped(rootPD, 3072) /\ Physical(rootPD, 3072) = 4
         /\ \A v \in 0 .. 11 : Physical(rootPD, 4080 + v) = v
<1>1. /\ GivenOK /\ KernelOK /\ memory \in Nat /\ Maps(NumeroEntradas, pd)
      /\ Usable \in Nat /\ Usable < memory
  BY LoadedIs
<1>2. 13 < memory /\ rootPD = RootDirectory(NumeroEntradas)
  BY <1>1 DEF KernelOK
<1>3. PICK n : n = NumeroEntradas
  OBVIOUS
<1>4. /\ n \in 0 .. 767 /\ Usable = 4 * n
      /\ \A i \in 0 .. n - 1 : pd[i] = 4 * i
      /\ pd[768] = 4
  BY <1>1, <1>3 DEF Maps
<1>5. n >= 3
  <2>1. Usable = (memory - 1) - ((memory - 1) % 4)
    BY DEF Usable
  <2>2. PICK v \in Nat : v = memory - 1
    BY <1>1, <1>2
  <2>3. v % 4 \in 0 .. 3 /\ v >= 13 /\ 4 * n = v - (v % 4)
    BY <1>1, <1>2, <1>4, <2>1, <2>2
  <2> QED BY <1>4, <2>2, <2>3
<1>6. rootPD = [i \in 0 .. n - 4 \union 768 .. 770 \union 1020 .. 1022 |->
                  IF i \in 1020 .. 1022 THEN pd[i - 1020]
                  ELSE IF i \in 768 .. 770 THEN pd[i] ELSE pd[i + 3]]
  BY <1>2, <1>3 DEF RootDirectory
<1>7. ASSUME NEW v \in Nat, v + 12 < Usable
      PROVE  Mapped(rootPD, v) /\ Physical(rootPD, v) = v + 12
  <2>1. PICK q \in Nat, r \in 0 .. 3 : q = v \div 4 /\ r = v % 4 /\ v = 4 * q + r
    BY Quarters
  <2>2. q \in 0 .. n - 4 /\ q \notin 768 .. 770 /\ q \notin 1020 .. 1022 /\ q + 3 \in 0 .. n - 1
    BY <1>4, <1>7, <2>1
  <2>3. q \in DOMAIN rootPD /\ rootPD[q] = pd[q + 3]
    BY <1>6, <2>2
  <2>4. pd[q + 3] = 4 * (q + 3)
    BY <1>4, <2>2
  <2>5. Physical(rootPD, v) = v + 12
    BY <2>1, <2>3, <2>4 DEF Physical
  <2> QED BY <1>1, <1>7, <2>1, <2>3, <2>5 DEF Mapped
<1>8. Mapped(rootPD, 3072) /\ Physical(rootPD, 3072) = 4
  <2>1. 768 \in DOMAIN rootPD /\ rootPD[768] = 4
    BY <1>4, <1>6
  <2>2. 3072 \div 4 = 768 /\ 3072 % 4 = 0
    OBVIOUS
  <2> QED BY <1>1, <1>2, <2>1, <2>2 DEF Mapped, Physical
<1>9. ASSUME NEW v \in 0 .. 11 PROVE Physical(rootPD, 4080 + v) = v
  <2>1. PICK w : w = 4080 + v
    OBVIOUS
  <2>2. PICK q \in Nat, r \in 0 .. 3 : q = w \div 4 /\ r = w % 4 /\ w = 4 * q + r
    BY <2>1, Quarters
  <2>3. q \in 1020 .. 1022 /\ q - 1020 \in 0 .. n - 1
    BY <1>4, <1>5, <2>1, <2>2
  <2>4. rootPD[q] = pd[q - 1020] /\ pd[q - 1020] = 4 * (q - 1020)
    BY <1>4, <1>6, <2>3
  <2> QED BY <2>1, <2>2, <2>4 DEF Physical
<1> QED BY <1>7, <1>8, <1>9

\* The first thread finds its image, the zeroes behind it, its ram disk and the hardware's
\* memory through its own page directory, as GRUB left them, although every file has been
\* copied once or twice, upwards and over memory that held others.
THEOREM RootStartsWhole == BootSpec => []RootFindsItsFiles
<1>1. BootIInv => RootFindsItsFiles
  <2> SUFFICES ASSUME BootIInv, stage = "run", Room, Spared
               PROVE  /\ Seen(rootPD, 0, 2)
                      /\ \A v \in Extent(module[2].size, module[2].zeroes) :
                            ram[Physical(rootPD, v)] = Single("zero")
                      /\ Seen(rootPD, bootInfo, 3)
                      /\ \A v \in Extent(0, KERNEL_BASE_ADDRESS) :
                            Physical(rootPD, HardwareMemory + v) = v
    BY DEF RootFindsItsFiles
  <2>1. GivenOK /\ BelowKernel /\ ModulesOK /\ Usable > 23
        /\ 12 + module[2].size + module[2].zeroes <= 20 /\ Usable \in Nat
        /\ \A a \in Target(3) : a \in Nat /\ a < Usable
    BY RoomIs DEF BootIInv
  <2>2. /\ module[2].size \in Nat /\ module[2].zeroes \in Nat /\ module[3].size \in Nat
        /\ TargetStart(3) = 23 + module[2].size
    <3>1. \A m \in 1 .. 3 : module[m].size \in Nat /\ module[m].zeroes \in Nat
      BY <2>1, ModulesAre
    <3>2. TargetStart(3) = 23 + module[2].size
      BY <2>1, TargetsAre
    <3> QED BY <3>1, <3>2
  <2>3. RootOK /\ Whole(TargetStart(3), 3)
    <3>1. OrderOK
      BY <2>1 DEF BootIInv
    <3>2. Len(address) = 3
      BY <3>1 DEF OrderOK
    <3> QED BY <2>1, <3>2 DEF ModulesOK
  <2>4. ASSUME NEW k \in 0 .. module[2].size - 1
        PROVE  Mapped(rootPD, 0 + k) /\ ram[Physical(rootPD, 0 + k)] = [of |-> Files[2], part |-> k]
    <3>1. k \in Nat /\ k + 12 < Usable /\ 0 + k = k /\ k + 12 = 12 + k
      BY <2>1, <2>2
    <3>2. Mapped(rootPD, k) /\ Physical(rootPD, k) = 12 + k
      BY <2>1, <3>1, RootDirectoryIs
    <3>3. ram[12 + k] = [of |-> Files[2], part |-> k]
      BY <2>3, Numbers DEF RootOK, Whole
    <3> QED BY <3>1, <3>2, <3>3
  <2>5. ASSUME NEW v \in Extent(module[2].size, module[2].zeroes)
        PROVE  ram[Physical(rootPD, v)] = Single("zero")
    <3>1. v \in Nat /\ v + 12 < Usable /\ v + 12 \in Extent(12 + module[2].size, module[2].zeroes)
      BY <2>1, <2>2 DEF Extent
    <3>2. Physical(rootPD, v) = v + 12
      BY <2>1, <3>1, RootDirectoryIs
    <3> QED BY <2>3, <3>1, <3>2, Numbers DEF RootOK
  <2>6. ASSUME NEW k \in 0 .. module[3].size - 1
        PROVE  /\ Mapped(rootPD, bootInfo + k)
               /\ ram[Physical(rootPD, bootInfo + k)] = [of |-> Files[3], part |-> k]
    <3>1. PICK v \in Nat : v = bootInfo + k /\ v + 12 = TargetStart(3) + k
      <4>1. bootInfo = 11 + module[2].size
        BY <2>2, <2>3, Numbers DEF RootOK
      <4> QED BY <2>2, <4>1
    <3>2. v + 12 \in Target(3)
      BY <2>2, <3>1 DEF Target, Extent
    <3>3. v + 12 < Usable
      BY <2>1, <3>2
    <3>4. Mapped(rootPD, v) /\ Physical(rootPD, v) = v + 12
      BY <2>1, <3>3, RootDirectoryIs
    <3>5. ram[TargetStart(3) + k] = [of |-> Files[3], part |-> k]
      BY <2>3 DEF Whole
    <3> QED BY <3>1, <3>4, <3>5
  <2>7. ASSUME NEW v \in Extent(0, KERNEL_BASE_ADDRESS)
        PROVE  Physical(rootPD, HardwareMemory + v) = v
    <3>1. v \in 0 .. 11
      BY Numbers DEF Extent
    <3> QED BY <2>1, <3>1, RootDirectoryIs, Numbers
  <2> QED BY <2>4, <2>5, <2>6, <2>7 DEF Seen
<1> QED BY <1>1, BootInvariance, PTL

\* The microkernel is seen at 3 GB from both page directories, and neither it nor the page
\* tables nor the directory of the root server is written over; the numbers of the free
\* pages are not if the root server takes no more than 1 MB.
THEOREM KernelSurvives == BootSpec => []KernelStays
<1>1. BootIInv => KernelStays
  <2> SUFFICES ASSUME BootIInv, BelowKernel, stage \in {"setup", "root", "run"}
               PROVE  /\ Seen(pd, MICROKERNEL_ADDRESS, 1)
                      /\ Spared /\ Room => \A a \in Tables : ram[a] = Single("tables")
                      /\ stage = "run" =>
                           /\ Seen(rootPD, MICROKERNEL_ADDRESS, 1)
                           /\ \E a \in DOMAIN ram : ram[a] = Single("directory")
                           /\ module[2].size + module[2].zeroes <= 1 =>
                                FreePages = Single("pages")
    BY DEF KernelStays
  <2>1. /\ GivenOK /\ RamOK /\ KernelOK /\ memory \in Nat
        /\ Physical(pd, 3072) = 4 /\ (Mapped(pd, 3072) <=> 4 < memory)
        /\ Physical(pd, 3081) = 13
    BY LoadedIs
  <2>2. 4 < memory /\ ram[4] = [of |-> Files[1], part |-> 0] /\ module[1].size = 1
    BY <2>1 DEF KernelOK, GivenOK
  <2>3. \A k \in 0 .. module[1].size - 1 : k = 0 /\ 3072 + k = 3072
    BY <2>2
  <2>4. Seen(pd, MICROKERNEL_ADDRESS, 1)
    BY <2>1, <2>2, <2>3, Numbers DEF Seen
  <2>5. Spared /\ Room => \A a \in Tables : ram[a] = Single("tables")
    BY DEF BootIInv, ModulesOK
  <2>6. ASSUME stage = "run"
        PROVE  /\ Seen(rootPD, MICROKERNEL_ADDRESS, 1)
               /\ \E a \in DOMAIN ram : ram[a] = Single("directory")
               /\ module[2].size + module[2].zeroes <= 1 => FreePages = Single("pages")
    <3>1. Mapped(rootPD, 3072) /\ Physical(rootPD, 3072) = 4
      BY <2>6, RootDirectoryIs
    <3>2. Seen(rootPD, MICROKERNEL_ADDRESS, 1)
      BY <2>2, <2>3, <3>1, Numbers DEF Seen
    <3>3. ram[9] = Single("directory") /\ 13 < memory
          /\ (module[2].size + module[2].zeroes <= 1 => ram[13] = Single("pages"))
      BY <2>1, <2>6 DEF KernelOK
    <3>4. 9 \in DOMAIN ram
      BY <2>1, <3>3 DEF RamOK
    <3>5. MICROKERNEL_ADDRESS + MICROKERNEL_HEAP2 = 3081
      BY Numbers
    <3>6. FreePages = ram[13]
      BY <2>1, <3>5 DEF FreePages
    <3> QED BY <3>2, <3>3, <3>4, <3>6
  <2> QED BY <2>4, <2>5, <2>6
<1> QED BY <1>1, BootInvariance, PTL

-----------------------------------------------------------------------------
(* The driver of the disks.                                                *)

Types ==
  /\ selected \in [Channels -> {0, 1}]
  /\ drive \in [Devices -> {"idle", "busy", "data", "error"}]
  /\ data \in [Devices -> [from : Int, block : Int]]
  /\ device \in Devices
  /\ request \in Devices \X Nat
  /\ result \in {0, 1}
  /\ pc \in {"select", "look", "wait", "idle", "poll"}

\* While the driver polls for a block the drive it has selected is the one asked for,
\* and that drive, if it is there, is at work on that block or has it, or an error.
Asked ==
  pc = "poll" =>
    /\ device = request[1]
    /\ InRange(request[2]) =>
         /\ selected[ChannelOf(device)] = Slave(device)
         /\ kind[device] # "absent" =>
              /\ drive[device] # "idle"
              /\ data[device] = [from |-> request[1], block |-> request[2]]

\* No result is left over from before.
NoOldResult == pc # "idle" => result = 0

IInv == Types /\ Asked /\ NoOldResult /\ ReadsTheBlockAsked

-----------------------------------------------------------------------------

\* The drives are two to a channel.
LEMMA Drives ==
  /\ \A d \in Devices : /\ ChannelOf(d) \in Channels /\ Slave(d) \in {0, 1}
                        /\ 2 * ChannelOf(d) + Slave(d) = d
  /\ \A c \in Channels, s \in {0, 1} : 2 * c + s \in Devices
BY DEF Devices, Channels, ChannelOf, Slave

\* 28 bits are written to the registers as they are, and touch no other drive.
LEMMA Registers ==
  ASSUME NEW block \in Nat, InRange(block), NEW d \in Devices
  PROVE  Address(block) = block /\ SelectedBy(d, block) = Slave(d)
<1>1. 2^28 = 268435456 /\ 2^24 = 16777216
  OBVIOUS
<1>2. block < 268435456
  BY <1>1 DEF InRange
<1>3. PICK high : high = block \div 16777216
  OBVIOUS
<1>4. /\ high \in 0 .. 15
      /\ (block % 16777216) + 16777216 * high = block
  BY <1>2, <1>3
<1>5. high % 16 = high /\ high \div 16 = 0
  BY <1>4
<1>6. HighBits(block) = high
  BY <1>1, <1>3 DEF HighBits
<1>7. Address(block) = block
  BY <1>1, <1>4, <1>5, <1>6 DEF Address
<1>8. SelectedBy(d, block) = Slave(d)
  BY <1>5, <1>6, Drives DEF SelectedBy
<1> QED BY <1>7, <1>8

LEMMA Addressed == ASSUME NEW block \in Nat PROVE Address(block) \in Int
<1>1. 2^24 = 16777216
  OBVIOUS
<1>2. PICK high : high = block \div 16777216
  OBVIOUS
<1>3. high \in Int /\ high % 16 \in Int /\ block % 16777216 \in Int
  BY <1>2
<1> QED BY <1>1, <1>2, <1>3 DEF Address, HighBits

\* What a command does to the drives.
LEMMA CommandTypes ==
  ASSUME Types, NEW c \in Channels, NEW outcome \in [Devices -> [from : Int, block : Int]],
         selected' \in [Channels -> {0, 1}], Command(c, outcome)
  PROVE  /\ drive' \in [Devices -> {"idle", "busy", "data", "error"}]
         /\ data' \in [Devices -> [from : Int, block : Int]]
         /\ LET d == 2 * c + selected'[c]
            IN  kind[d] # "absent" => drive'[d] = "busy" /\ data'[d] = outcome[d]
<1>1. PICK d \in Devices : d = 2 * c + selected'[c]
  BY Drives
<1>2. CASE kind[d] = "absent"
  BY <1>1, <1>2 DEF Command, Types
<1>3. CASE kind[d] # "absent"
  BY <1>1, <1>3 DEF Command, Types
<1> QED BY <1>2, <1>3

\* What handing out data does to the drives.
LEMMA ReadTypes ==
  ASSUME Types, NEW c \in Channels, ReadData(c)
  PROVE  /\ drive' \in [Devices -> {"idle", "busy", "data", "error"}]
         /\ selected' = selected /\ data' = data
<1>1. PICK d \in Devices : d = Answering(c)
  BY Drives DEF Answering, Types
<1> QED BY <1>1 DEF ReadData, Types

-----------------------------------------------------------------------------
(* The steps.                                                              *)

LEMMA InitEstablishes == ASSUME Init PROVE IInv
<1>1. Types
  BY DEF Init, Types, Devices, Channels, Nothing
<1>2. pc = "select" /\ result = 0
  BY DEF Init
<1> QED BY <1>1, <1>2 DEF IInv, Asked, NoOldResult, ReadsTheBlockAsked

\* Before it polls the driver has neither asked for a block nor said that it has one.
LEMMA Searching ==
  ASSUME Types', pc' # "poll", result' = 0
  PROVE  IInv'
BY DEF IInv, Asked, NoOldResult, ReadsTheBlockAsked

LEMMA NextDeviceTypes ==
  ASSUME Types, NextDevice
  PROVE  device' \in Devices /\ pc' \in {"idle", "select"}
BY DEF Types, NextDevice, Devices

LEMMA IdentifyStep == ASSUME IInv, Identify PROVE IInv'
<1>1. PICK c \in Channels : c = ChannelOf(device)
  BY Drives DEF IInv, Types
<1>2. /\ pc = "select" /\ pc' = "look" /\ Select(c, Slave(device)) /\ Command(c, Identity)
      /\ UNCHANGED <<device, request, result>>
  BY <1>1 DEF Identify
<1>3. selected' \in [Channels -> {0, 1}]
  BY <1>2, Drives DEF Select, IInv, Types
<1>4. Identity \in [Devices -> [from : Int, block : Int]]
  BY DEF Identity, Devices
<1>5. /\ drive' \in [Devices -> {"idle", "busy", "data", "error"}]
      /\ data' \in [Devices -> [from : Int, block : Int]]
  BY <1>2, <1>3, <1>4, CommandTypes DEF IInv
<1>6. Types'
  BY <1>2, <1>3, <1>5 DEF IInv, Types
<1>7. result' = 0
  BY <1>2 DEF IInv, NoOldResult
<1> QED BY <1>2, <1>6, <1>7, Searching

LEMMA LookStep == ASSUME IInv, Look PROVE IInv'
<1>1. /\ device' \in Devices /\ pc' \in {"idle", "select", "wait"}
  BY NextDeviceTypes DEF Look, IInv, Types
<1>2. pc = "look" /\ UNCHANGED <<selected, drive, data, request, result>>
  BY DEF Look, hardware
<1>3. Types'
  BY <1>1, <1>2 DEF IInv, Types
<1> QED BY <1>1, <1>2, <1>3, Searching DEF IInv, NoOldResult

LEMMA WaitIdentityStep == ASSUME IInv, WaitIdentity PROVE IInv'
<1>1. PICK c \in Channels : c = ChannelOf(device)
  BY Drives DEF IInv, Types
<1>2. /\ pc = "wait" /\ NextDevice /\ UNCHANGED <<request, result>>
      /\ UNCHANGED <<selected, drive, data>> \/ ReadData(c)
  BY <1>1 DEF WaitIdentity, hardware
<1>3. device' \in Devices /\ pc' \in {"idle", "select"}
  BY <1>2, NextDeviceTypes DEF IInv
<1>4. /\ drive' \in [Devices -> {"idle", "busy", "data", "error"}]
      /\ selected' = selected /\ data' = data
  BY <1>2, ReadTypes DEF IInv, Types
<1>5. Types'
  BY <1>2, <1>3, <1>4 DEF IInv, Types
<1> QED BY <1>2, <1>3, <1>5, Searching DEF IInv, NoOldResult

LEMMA ReadBlockStep ==
  ASSUME IInv, NEW d \in Devices, NEW block \in Nat, ReadBlock(d, block)
  PROVE  IInv'
<1>1. /\ pc = "idle" /\ request' = <<d, block>> /\ result' = 0
  BY DEF ReadBlock
<1>2. CASE existe[d]
  <2>1. PICK c \in Channels : c = ChannelOf(d)
    BY Drives
  <2> DEFINE found == [e \in Devices |-> [from |-> e, block |-> Address(block)]]
  <2>2. /\ Select(c, SelectedBy(d, block)) /\ Command(c, found)
        /\ pc' = "poll" /\ device' = d /\ kind' = kind
    BY <1>2, <2>1 DEF ReadBlock
  <2>3. selected' = [selected EXCEPT ![c] = SelectedBy(d, block)] /\ SelectedBy(d, block) \in {0, 1}
    BY <2>2 DEF Select, SelectedBy
  <2>4. selected' \in [Channels -> {0, 1}] /\ selected'[c] = SelectedBy(d, block)
    BY <2>3 DEF IInv, Types
  <2>5. found \in [Devices -> [from : Int, block : Int]]
    BY Addressed DEF Devices
  <2>6. found[d] = [from |-> d, block |-> Address(block)]
    OBVIOUS
  <2> HIDE DEF found
  <2>7. /\ drive' \in [Devices -> {"idle", "busy", "data", "error"}]
        /\ data' \in [Devices -> [from : Int, block : Int]]
        /\ LET e == 2 * c + selected'[c]
           IN  kind[e] # "absent" => drive'[e] = "busy" /\ data'[e] = found[e]
    BY <2>2, <2>4, <2>5, CommandTypes DEF IInv
  <2>8. request'[1] = d /\ request'[2] = block /\ request' \in Devices \X Nat
    BY <1>1
  <2>9. Types'
    BY <1>1, <2>2, <2>4, <2>7, <2>8 DEF IInv, Types
  <2>10. ASSUME InRange(block)
         PROVE  /\ selected'[c] = Slave(d)
                /\ kind[d] # "absent" =>
                     drive'[d] = "busy" /\ data'[d] = [from |-> d, block |-> block]
    <3>1. Address(block) = block /\ SelectedBy(d, block) = Slave(d)
      BY <2>10, Registers
    <3>2. 2 * c + selected'[c] = d
      BY <2>1, <2>4, <3>1, Drives
    <3> QED BY <2>4, <2>6, <2>7, <3>1, <3>2
  <2>11. Asked'
    <3>1. selected'[ChannelOf(device')] = selected'[c] /\ Slave(device') = Slave(d)
      BY <2>1, <2>2
    <3> QED BY <2>2, <2>8, <2>10, <3>1 DEF Asked
  <2>12. NoOldResult' /\ ReadsTheBlockAsked'
    BY <1>1, <2>2 DEF NoOldResult, ReadsTheBlockAsked
  <2> QED BY <2>9, <2>11, <2>12 DEF IInv
<1>3. CASE ~existe[d]
  <2>1. UNCHANGED <<selected, drive, data, pc, device>>
    BY <1>3 DEF ReadBlock, hardware
  <2>2. Types'
    BY <1>1, <2>1 DEF IInv, Types
  <2> QED BY <1>1, <2>1, <2>2, Searching
<1> QED BY <1>2, <1>3

\* A drive that is ready to hand out what it was asked for is there.
LEMMA PollStep == ASSUME IInv, Poll PROVE IInv'
<1>1. PICK c \in Channels : c = ChannelOf(device)
  BY Drives DEF IInv, Types
<1>2. /\ pc = "poll" /\ pc' = "idle" /\ UNCHANGED <<device, request>>
      /\ \/ result' = 0 /\ UNCHANGED <<selected, drive, data>>
         \/ "ready" \in Status(c) /\ result' = 1 /\ ReadData(c)
  BY <1>1 DEF Poll, hardware
<1>3. /\ drive' \in [Devices -> {"idle", "busy", "data", "error"}]
      /\ selected' = selected /\ data' = data
  BY <1>2, ReadTypes DEF IInv, Types
<1>4. Types'
  BY <1>2, <1>3 DEF IInv, Types
<1>5. CASE result' = 0
  BY <1>2, <1>4, <1>5, Searching
<1>6. CASE result' = 1
  <2>1. "ready" \in Status(c) /\ ReadData(c)
    BY <1>2, <1>6
  <2>2. ASSUME InRange(request[2])
        PROVE  buffer' = [from |-> request[1], block |-> request[2]]
    <3>1. /\ device = request[1] /\ device \in Devices
          /\ selected[c] = Slave(device)
          /\ kind[device] # "absent" =>
               /\ drive[device] # "idle"
               /\ data[device] = [from |-> request[1], block |-> request[2]]
      BY <1>1, <1>2, <2>2 DEF IInv, Types, Asked
    <3>2. Answering(c) = device
      BY <1>1, <3>1, Drives DEF Answering
    <3>3. kind[device] # "absent" /\ drive[device] # "busy" /\ drive[device] # "error"
      BY <2>1, <3>2, Zenon DEF Status
    <3>4. drive[device] = "data"
      BY <3>1, <3>3 DEF IInv, Types
    <3> QED BY <2>1, <3>1, <3>2, <3>3, <3>4 DEF ReadData
  <2>3. ReadsTheBlockAsked'
    BY <1>2, <2>2 DEF ReadsTheBlockAsked, InRange
  <2>4. Asked' /\ NoOldResult'
    BY <1>2 DEF Asked, NoOldResult
  <2> QED BY <1>4, <2>3, <2>4 DEF IInv
<1> QED BY <1>2, <1>5, <1>6

LEMMA FinishStep == ASSUME IInv, NEW d \in Devices, Finish(d) PROVE IInv'
<1>1. PICK done \in {"data", "error"} : drive' = [drive EXCEPT ![d] = done]
  BY DEF Finish
<1>2. UNCHANGED <<kind, selected, data, pc, device, request, result, buffer>>
  BY DEF Finish
<1>3. Types'
  BY <1>1, <1>2 DEF IInv, Types
<1>4. \A e \in Devices : drive[e] # "idle" => drive'[e] # "idle"
  BY <1>1 DEF IInv, Types
<1>5. Asked'
  BY <1>2, <1>4 DEF IInv, Types, Asked, InRange
<1>6. NoOldResult' /\ ReadsTheBlockAsked'
  BY <1>2 DEF IInv, NoOldResult, ReadsTheBlockAsked, InRange
<1> QED BY <1>3, <1>5, <1>6 DEF IInv

LEMMA NextKeeps == ASSUME IInv, [Next]_vars PROVE IInv'
<1>1. ASSUME NEW r \in Requests, ReadBlock(r[1], r[2]) PROVE IInv'
  <2>1. r[1] \in Devices /\ r[2] \in Nat
    BY DiskAssumption
  <2> QED BY <1>1, <2>1, ReadBlockStep
<1>2. CASE UNCHANGED vars
  BY <1>2 DEF vars, IInv, Types, Asked, NoOldResult, ReadsTheBlockAsked, InRange
<1> QED
  BY <1>1, <1>2, IdentifyStep, LookStep, WaitIdentityStep, PollStep, FinishStep
  DEF Next, Driver

-----------------------------------------------------------------------------
(* The theorems about the driver.                                          *)

\* The parts of the invariant hold in every reachable state, whatever is attached and
\* whichever blocks are asked for.
THEOREM Invariance == Spec => []IInv
<1>1. Init => IInv
  BY InitEstablishes
<1>2. IInv /\ [Next]_vars => IInv'
  BY NextKeeps
<1> QED BY <1>1, <1>2, PTL DEF Spec

\* A block that is read is the one asked for, of the disk asked for.
THEOREM BlockAskedIsRead == Spec => []ReadsTheBlockAsked
<1>1. IInv => ReadsTheBlockAsked
  BY DEF IInv
<1> QED BY <1>1, Invariance, PTL

=============================================================================
