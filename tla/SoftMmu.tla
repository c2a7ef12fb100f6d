------------------------------ MODULE SoftMmu ------------------------------
(* Guest loads and stores of an S2E that runs without its own TLB: the        *)
(* handlers which replace the helpers of QEMU's software MMU                  *)
(* (src/src/s2e/MMUFunctionHandlers.cpp).  An access hits the TLB or fills    *)
(* it, goes to a memory object, to I/O, or is cut into accesses that do not   *)
(* span two memory objects.                                                   *)
(*                                                                            *)
(* A byte is the set of the bytes that were or'ed into it, so that {} is 0    *)
(* and a value is a sequence of bytes, the lowest first.  External: the TLB's *)
(* refill, the kinds of the physical pages, the devices, the guest that       *)
(* changes its page table, the translator that protects the code it reads.    *)
EXTENDS Integers, Sequences, FiniteSets, SequencesExt

CONSTANTS
  ObjectSize, PageSize,  \* S2E_RAM_OBJECT_SIZE and TARGET_PAGE_SIZE
  TlbSize,               \* CPU_TLB_SIZE
  Kind,                  \* physical page |-> what is there, one of Kinds
  SymbolicMmio,          \* the pages whose I/O a plugin made symbolic: isMmioSymbolic()
  PageTables,            \* the page tables the guest may use
  Addresses,             \* the addresses the guest accesses
  Nothing,
  MaxStores              \* bound: the stores issued

Kinds == {"ram", "rom", "unassigned", "device", "subpage"}
Physical == DOMAIN Kind
Sizes == {1, 2, 4}
Byte(p, o) == {<<p, o>>}            \* what byte o of physical page p holds at first
Stored(k, i) == {<<-k, i>>}         \* byte i of what the k-th store writes

Page(a) == a \div PageSize

(* A page table says something of every page that an access may touch.        *)
ASSUME SoftMmuAssumption ==
  /\ ObjectSize \in Nat /\ PageSize \in Nat \ {0} /\ TlbSize \in Nat \ {0}
  /\ ObjectSize >= 4 /\ ObjectSize % 4 = 0 /\ PageSize % ObjectSize = 0
  /\ Kind \in [Physical -> Kinds] /\ SymbolicMmio \subseteq Physical
  /\ Physical \subseteq Nat /\ Nothing \notin Nat /\ Addresses \subseteq Nat
  /\ \A t \in PageTables, a \in Addresses, i \in 0 .. 3 :
       /\ Page(a + i) \in DOMAIN t
       /\ t[Page(a + i)] \in [phys : Physical, present : BOOLEAN, writable : BOOLEAN]

VARIABLES
  ram,       \* the bytes of the physical pages
  table,     \* the page table: page |-> [phys, present, writable]
  tlb,       \* env->tlb_table[mmu_idx] and env->iotlb[mmu_idx]
  code,      \* the physical pages that hold translated code: stores to them are noticed
  access,    \* the access in progress, or the last one
  canDoIo,   \* can_do_io(env): the instruction is the last one of its block
  stores     \* counts the stores

mmuVars == <<ram, table, tlb, code, access, canDoIo, stores>>

Idle == [op |-> "none"]
Invalid == [read |-> Nothing, write |-> Nothing, phys |-> 0]

Index(a) == Page(a) % TlbSize
EntryOf(a) == tlb[Index(a)]
Aligned(a, n) == a % n = 0
SpansObjects(a, n) == (a % ObjectSize) + n - 1 >= ObjectSize

(* The flags QEMU keeps in the low bits of addr_read and addr_write.          *)
Flagged(op, p) ==
  \/ Kind[p] \in {"unassigned", "device", "subpage"}
  \/ op = "store" /\ (Kind[p] = "rom" \/ p \in code)

(* s2e_ismemfunc(): what the I/O branch handles as memory.                    *)
IsMemory(op, p) == Kind[p] \in (IF op = "store" THEN {"ram", "subpage"}
                                                ELSE {"ram", "rom", "subpage"})

(* A load through io_read_chk() gets an answer instead of what memory holds:  *)
(* a device's, QEMU's for an address where nothing is, or a symbolic value    *)
(* for memory whose I/O is symbolic.                                          *)
Answers(p) == Flagged("load", p) /\ (~IsMemory("load", p) \/ p \in SymbolicMmio)

Bytes(mem, p, a, n) == [i \in 1 .. n |-> mem[p][(a % PageSize) + i - 1]]
Written(mem, p, a, v) ==
  [mem EXCEPT ![p] = [o \in DOMAIN @ |->
     LET i == o - (a % PageSize) + 1 IN IF i \in DOMAIN v THEN v[i] ELSE @[o]]]

MmuInit ==
  /\ ram = [p \in Physical |-> [o \in 0 .. PageSize - 1 |-> Byte(p, o)]]
  /\ table \in PageTables
  /\ tlb = [i \in 0 .. TlbSize - 1 |-> Invalid]
  /\ code = {} /\ access = Idle /\ canDoIo = FALSE /\ stores = 0

-----------------------------------------------------------------------------
(* The parts of the access that are still to do: [addr, size, value].         *)
Head1 == Head(access.todo)
HitOf(op, a) == (IF op = "store" THEN EntryOf(a).write ELSE EntryOf(a).read) = Page(a)
Hit == HitOf(access.op, Head1.addr)
Phys == EntryOf(Head1.addr).phys
Busy == access # Idle /\ access.todo # <<>>

Part(a, n, v) == [addr |-> a, size |-> n, value |-> v]

(* The last part is done: what it read is combined and the access ends.  Of   *)
(* two words, the low one is shifted right and the high one left, in the      *)
(* width that handle_ldst_mmu() gave them.                                    *)
ShiftRight(v, k) == [i \in DOMAIN v |-> IF i + k \in DOMAIN v THEN v[i + k] ELSE {}]
ShiftLeft(v, k) == [i \in DOMAIN v |-> IF i - k \in DOMAIN v THEN v[i - k] ELSE {}]
ZeroExtend(v) ==
  IF access.op = "load" /\ access.kernel /\ access.size = 2
  THEN [i \in 1 .. 4 |-> IF i \in DOMAIN v THEN v[i] ELSE {}] ELSE v

Combined(parts) ==
  IF Len(parts) = 1 THEN ZeroExtend(parts[1])
  ELSE LET low  == ShiftRight(ZeroExtend(parts[1]), access.addr % access.size)
           high == ShiftLeft(ZeroExtend(parts[2]), access.size - (access.addr % access.size))
       IN  [i \in DOMAIN low |-> low[i] \cup high[i]]

Ends(kind, value) ==
  access' = [access EXCEPT !.todo = <<>>, !.got = <<>>,
                           !.result = [kind |-> kind, value |-> value]]

PartDone(v) ==
  LET parts == Append(access.got, v)
  IN  IF Len(access.todo) > 1
      THEN access' = [access EXCEPT !.todo = Tail(@), !.got = parts]
      ELSE Ends("done", IF access.op = "load" THEN Combined(parts) ELSE <<>>)

-----------------------------------------------------------------------------
(* An instruction accesses memory.  A symbolic address is one of its values   *)
(* by then: handleForkAndConcretizeNative() has forked the others off.  The   *)
(* kernel accessors (lduw_kernel, ldl_kernel, ldq_kernel, stl_kernel and      *)
(* stq_kernel) go straight to memory when the address is aligned and its page *)
(* is in the TLB for reading, without a flag.                                 *)
KernelSizes(op) == IF op = "load" THEN {2, 4} ELSE {4}
Fast(a, n) ==
  EntryOf(a).read = Page(a) /\ ~Flagged("load", EntryOf(a).phys) /\ Aligned(a, n)

Start(op, kernel, a, n) ==
  LET v == IF op = "store" THEN [i \in 1 .. n |-> Stored(stores + 1, i)] ELSE <<>>
  IN  /\ access = Idle
      /\ op = "store" => stores < MaxStores
      /\ kernel => n \in KernelSizes(op)
      /\ stores' = stores + (IF op = "store" THEN 1 ELSE 0)
      /\ access' = [op |-> op, kernel |-> kernel, fast |-> kernel /\ Fast(a, n),
                    addr |-> a, size |-> n, value |-> v, todo |-> <<Part(a, n, v)>>,
                    got |-> <<>>, result |-> Nothing, before |-> ram]
      /\ UNCHANGED <<ram, table, tlb, code, canDoIo>>

-----------------------------------------------------------------------------
(* The page is not in the TLB: tlb_fill() puts it there, or raises the guest  *)
(* exception that ends the instruction.                                       *)
Translated(op, a) == table[Page(a)].present /\ (op = "store" => table[Page(a)].writable)
Misses == Busy /\ ~access.fast /\ ~Hit

TlbFill ==
  /\ Misses /\ Translated(access.op, Head1.addr)
  /\ LET p == Page(Head1.addr)
     IN  tlb' = [tlb EXCEPT ![Index(Head1.addr)] =
                   [read |-> p, phys |-> table[p].phys,
                    write |-> IF table[p].writable THEN p ELSE Nothing]]
  /\ UNCHANGED <<ram, table, code, access, canDoIo, stores>>

PageFault ==
  /\ Misses /\ ~Translated(access.op, Head1.addr)
  /\ Ends("fault", <<>>)
  /\ UNCHANGED <<ram, table, tlb, code, canDoIo, stores>>

Hits == Busy /\ ~access.fast /\ Hit
GoesToIo == Flagged(access.op, Phys)

(* An access to I/O that is not aligned, or one that spans two objects: a     *)
(* store is done a byte at a time, the highest first, a load as two words.    *)
BytewiseAscending(p) ==   \* for comparison: the lowest byte first
  [i \in 1 .. p.size |-> Part(p.addr + i - 1, 1, <<p.value[i]>>)]
Bytewise(p) ==
  Reverse([i \in 1 .. p.size |-> Part(p.addr + i - 1, 1, <<p.value[i]>>)])
TwoWords(p) ==
  LET a == p.addr - (p.addr % p.size)
  IN  <<Part(a, p.size, <<>>), Part(a + p.size, p.size, <<>>)>>
Parts(p) == IF access.op = "store" THEN Bytewise(p) ELSE TwoWords(p)

MustSplit(p) == IF GoesToIo THEN ~Aligned(p.addr, p.size) ELSE SpansObjects(p.addr, p.size)

UnalignedAccess ==
  /\ Hits /\ MustSplit(Head1)
  /\ access' = [access EXCEPT !.todo = Parts(Head1)]
  /\ UNCHANGED <<ram, table, tlb, code, canDoIo, stores>>

(* The memory object is read or written.                                      *)
AccessObject ==
  /\ ram' = IF access.op = "store" THEN Written(ram, Phys, Head1.addr, Head1.value) ELSE ram
  /\ PartDone(Bytes(ram, Phys, Head1.addr, Head1.size))

MemoryAccess ==
  /\ Hits /\ ~GoesToIo /\ ~MustSplit(Head1)
  /\ AccessObject
  /\ UNCHANGED <<table, tlb, code, canDoIo, stores>>

KernelAccess ==
  /\ Busy /\ access.fast
  /\ AccessObject
  /\ UNCHANGED <<table, tlb, code, canDoIo, stores>>

(* io_read_chk() and io_write_chk(): s2e_notdirty_mem_write() throws away the *)
(* code translated from the page before it is written; QEMU's functions reach *)
(* the device or drop what is written to ROM, or to where nothing is.  RAM    *)
(* that is flagged because of its code is io_mem_notdirty: it, ROM and what   *)
(* is unassigned need not be the last access of a block, a device and memory  *)
(* behind a subpage must.                                                     *)
MayDoIo == Kind[Phys] \in {"ram", "rom", "unassigned"} \/ canDoIo
NotDirtyMemWriteKeepsCode(p) == UNCHANGED code   \* for comparison: only the write
NotDirtyMemWrite(p) == code' = code \ {p}

IoWriteChk ==
  /\ Hits /\ access.op = "store" /\ GoesToIo /\ ~MustSplit(Head1) /\ MayDoIo
  /\ IF IsMemory("store", Phys)
     THEN NotDirtyMemWrite(Phys) /\ AccessObject
     ELSE UNCHANGED <<ram, code>> /\ PartDone(<<>>)
  /\ UNCHANGED <<table, tlb, canDoIo, stores>>

Answer == [i \in 1 .. 4 |-> {<<"device", i>>}]
IoReadChk ==
  /\ Hits /\ access.op = "load" /\ GoesToIo /\ ~MustSplit(Head1) /\ MayDoIo
  /\ IF Answers(Phys)
     THEN PartDone(SubSeq(Answer, 1, Head1.size)) /\ UNCHANGED ram
     ELSE AccessObject
  /\ UNCHANGED <<table, tlb, code, canDoIo, stores>>

(* A device or a subpage is accessed in the middle of a block:                *)
(* cpu_io_recompile() starts the instruction again, as the last one of a      *)
(* block.                                                                     *)
IoRecompile ==
  /\ Hits /\ GoesToIo /\ ~MustSplit(Head1) /\ ~MayDoIo
  /\ canDoIo' = TRUE
  /\ access' = [access EXCEPT !.got = <<>>,
                  !.todo = <<Part(access.addr, access.size, access.value)>>]
  /\ UNCHANGED <<ram, table, tlb, code, stores>>

-----------------------------------------------------------------------------
(* The rest of the guest: the next instruction, another page table, blocks    *)
(* translated from a page.                                                    *)
NextInstruction ==
  /\ access # Idle /\ ~Busy
  /\ access' = Idle /\ canDoIo' = FALSE
  /\ UNCHANGED <<ram, table, tlb, code, stores>>

SwitchTable(t) ==
  /\ access = Idle /\ t \in PageTables /\ t # table
  /\ table' = t /\ tlb' = [i \in DOMAIN tlb |-> Invalid]
  /\ UNCHANGED <<ram, code, access, canDoIo, stores>>

Translate(p) ==
  /\ access = Idle /\ Kind[p] = "ram" /\ p \notin code
  /\ code' = code \cup {p}
  /\ UNCHANGED <<ram, table, tlb, access, canDoIo, stores>>

MmuNext ==
  \/ \E op \in {"load", "store"}, kernel \in BOOLEAN, a \in Addresses, n \in Sizes :
        Start(op, kernel, a, n)
  \/ TlbFill \/ PageFault \/ UnalignedAccess \/ MemoryAccess \/ KernelAccess
  \/ IoWriteChk \/ IoReadChk \/ IoRecompile \/ NextInstruction
  \/ \E t \in PageTables : SwitchTable(t)
  \/ \E p \in Physical : Translate(p)

MmuSpec == MmuInit /\ [][MmuNext]_mmuVars

-----------------------------------------------------------------------------
(* An access is all or nothing.  It faults if the page table forbids it, in   *)
(* the first or the second page it touches, and then leaves memory as it was, *)
(* whatever entries it displaced from the TLB and however often it started    *)
(* again.  A store that ends has changed the bytes at its addresses and       *)
(* nothing else (in memory: ROM drops it, devices take it); a load returns    *)
(* the bytes at its addresses.  Loads of what Answers read what they are told.*)
(* Two accesses are excepted: lduw_kernel on a word that is read in two parts *)
(* returns a byte too many, for handle_ldst_mmu() shifts the high half in 32  *)
(* bits; and the fast path of stl_kernel and stq_kernel looks at addr_read,   *)
(* so that it writes to ROM and to pages the guest may only read.             *)
Target(i) == LET a == access.addr + i - 1
             IN  [phys |-> table[Page(a)].phys, offset |-> a % PageSize]
Touched == {Target(i) : i \in 1 .. access.size}

Allowed == \A i \in 1 .. access.size :
             Translated(IF access.fast THEN "load" ELSE access.op, access.addr + i - 1)

Stores(p) == Kind[p] \in {"ram", "subpage"} \/ (access.fast /\ Kind[p] = "rom")
Expected ==
  [p \in Physical |-> [o \in 0 .. PageSize - 1 |->
     IF Stores(p) /\ [phys |-> p, offset |-> o] \in Touched
     THEN access.value[CHOOSE i \in 1 .. access.size :
                         Target(i) = [phys |-> p, offset |-> o]]
     ELSE access.before[p][o]]]
Read == [i \in 1 .. access.size |-> ram[Target(i).phys][Target(i).offset]]

UnalignedWord == access.kernel /\ access.size = 2 /\ ~Aligned(access.addr, 2)

AccessesAtomic ==
  access # Idle /\ ~Busy =>
    IF access.result.kind = "fault" THEN ~Allowed /\ ram = access.before
    ELSE /\ Allowed
         /\ access.op = "store" => ram = Expected
         /\ access.op = "load" =>
              /\ ram = access.before
              /\ \/ \E t \in Touched : Answers(t.phys)
                 \/ access.result.value = ZeroExtend(Read)
                 \/ UnalignedWord /\ SubSeq(access.result.value, 1, 2) = Read

(* Code that was translated from a page is thrown away when the page is       *)
(* written, whether the page was in the TLB before it was protected, the      *)
(* store spans objects, or another page took its entry: a block never runs    *)
(* on after its bytes changed.  The fast path of stl_kernel and stq_kernel is *)
(* excepted: it looks at addr_read, which the protection leaves alone.        *)
CodeFollowsMemory ==
  [][\A p \in code : ram'[p] # ram[p] => p \notin code' \/ access.fast]_mmuVars

=============================================================================
