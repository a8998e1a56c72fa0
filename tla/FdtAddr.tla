------------------------------ MODULE FdtAddr -------------------------------
(***************************************************************************)
(* What main.c reads from a device tree: numbers made of cells, children   *)
(* of a node, nodes by their compatible property, and the address of a     *)
(* device as the processor sees it (libfdt/fdt_addresses.c, fdt_ro.c and   *)
(* the helpers of main.c).  A cell is one word below Radix, which stands   *)
(* for 2^32; a string of a property's value is one word too.               *)
(***************************************************************************)
EXTENDS FdtRw

CONSTANTS Radix,    \* values a cell can have
          LongMod   \* values an unsigned long can have: Radix or Radix^2

ASSUME AddrAssumption == Radix \in Nat /\ Radix > 4 /\ LongMod \in {Radix, Radix * Radix}

BADNCELLS      == -14
FDT_MAX_NCELLS == 4

(* Cells as an uint64_t: more than two lose the highest.                   *)
Number(words) ==
  LET Go[i \in 0 .. Len(words)] ==
        IF i = 0 THEN 0 ELSE (Go[i - 1] * Radix + words[i][2]) % (Radix * Radix)
  IN  Go[Len(words)]

(* The words of the property at p from the one after the first from.       *)
Cells(t, p, from, n) == SubSeq(t.struct, p + 4 + from, p + 3 + from + n)

(* fdt_cells: a property that holds a number of cells.                     *)
FdtCells(t, o, name) ==
  LET Checked(n) == IF n > FDT_MAX_NCELLS THEN BADNCELLS ELSE n
      At(p) == IF p < 0 THEN p
               ELSE IF PropLen(t, p) # 1 THEN BADNCELLS
               ELSE Checked(Number(Cells(t, p, 0, 1)))
  IN  At(PropOffset(t, o, name))

AddressCells(t, o) ==
  LET Or2(n) == IF n = 0 THEN BADNCELLS ELSE IF n = NOTFOUND THEN 2 ELSE n
  IN  Or2(FdtCells(t, o, "#address-cells"))

SizeCells(t, o) ==
  LET Or1(n) == IF n = NOTFOUND THEN 1 ELSE n IN Or1(FdtCells(t, o, "#size-cells"))

(* fdt_translate_address: an address on the bus at parent, as the bus      *)
(* above it sees it; only the first entry of ranges is looked at.          *)
Translate(t, reg, parent) ==
  LET Range(caddr, paddr, rsize) ==
        IF reg < caddr \/ caddr >= (reg + rsize) % (Radix * Radix)
          THEN [rc |-> NOTFOUND, addr |-> 0]
        ELSE [rc |-> 0, addr |-> (paddr + reg - caddr) % LongMod]
      By(ca, cs, p) ==
        IF ca < 1 \/ cs < 0 THEN [rc |-> NOTFOUND, addr |-> 0]
        ELSE IF p < 0 \/ PropLen(t, p) = 0 THEN [rc |-> 0, addr |-> reg % LongMod]
        ELSE Range(Number(Cells(t, p, 0, ca)), Number(Cells(t, p, ca, ca)),
                   Number(Cells(t, p, 2 * ca, cs)))
  IN  By(AddressCells(t, parent), SizeCells(t, parent), PropOffset(t, parent, "ranges"))

(* fdt_get_node_addr_size: address and size of the node at o; the address  *)
(* stays old when not even the first bus translates it, and is that of the *)
(* last bus that did when a bus above does not.                            *)
AddrSizeUntranslated(t, o, old) ==                  \* mutant: buses not climbed
  [rc |-> 0, addr |-> Number(Cells(t, PropOffset(t, o, "reg"), 0, 1)) % LongMod, size |-> 0]
AddrSize(t, o, old) ==
  LET Climb[r \in [rc : Int, addr : Nat], bus \in Int, kept \in Nat] ==
        IF r.rc # 0 THEN kept                    \* r: the address as bus sees it
        ELSE IF bus < 0 THEN r.addr
        ELSE Climb[Translate(t, r.addr, bus), ParentOffset(t.struct, bus), r.addr]
      Error(e) == [rc |-> e, addr |-> old, size |-> 0]
      On(parent, ca, cs, p) ==
        IF parent < 0 THEN Error(parent)
        ELSE IF ca < 1 \/ cs < 0 \/ p < 0 THEN Error(NOTFOUND)
        ELSE [rc   |-> 0,
              addr |-> Climb[Translate(t, Number(Cells(t, p, 0, ca)), parent),
                             ParentOffset(t.struct, parent), old],
              size |-> Number(Cells(t, p, ca, cs)) % LongMod]
      In(parent) == On(parent, AddressCells(t, parent), SizeCells(t, parent),
                       PropOffset(t, o, "reg"))
  IN  In(ParentOffset(t.struct, o))

(* A property main reads as one cell: the second one when it has several;  *)
(* none when it is missing or empty.                                       *)
OneCellOnly(t, o, name) ==                          \* mutant: one cell and no more
  LET At(p) == IF p < 0 \/ PropLen(t, p) # 1 THEN {} ELSE {Number(Cells(t, p, 0, 1))}
  IN  At(PropOffset(t, o, name))
OneCell(t, o, name) ==
  LET At(p) == IF p < 0 \/ PropLen(t, p) = 0 THEN {}
               ELSE {Number(Cells(t, p, IF PropLen(t, p) > 1 THEN 1 ELSE 0, 1))}
  IN  At(PropOffset(t, o, name))

----------------------------------------------------------------------------
FirstSubnode(s, o) ==
  LET Child(n) == IF n.off < 0 \/ n.depth # 1 THEN NOTFOUND ELSE n.off
  IN  Child(NextNode(s, o, 0))

NextSubnode(s, o) ==
  LET Go[n \in NodesMet] ==
        IF n.off < 0 \/ n.depth < 1 THEN NOTFOUND
        ELSE IF n.depth > 1 THEN Go[NextNode(s, n.off, n.depth)]
        ELSE n.off
  IN  Go[NextNode(s, o, 1)]

(* fdt_parse_hart_id: the reg of a node whose device_type is cpu.          *)
HartId(t, o) ==
  LET IsCpu(p) == p >= 0 /\ PropLen(t, p) > 0 /\ Cells(t, p, 0, 1) = <<Str("cpu")>>
  IN  IF IsCpu(PropOffset(t, o, "device_type")) THEN OneCell(t, o, "reg") ELSE {}

(* fdt_parse_max_hart_id: the largest hart id below /cpus, or 0.           *)
MaxHartId(t) ==
  LET Higher(ids, high) == IF \E id \in ids : id > high THEN CHOOSE id \in ids : TRUE ELSE high
      Go[o \in Int, high \in Nat] ==
        IF o < 0 THEN high ELSE Go[NextSubnode(t.struct, o), Higher(HartId(t, o), high)]
      Below(cpus) == IF cpus < 0 THEN 0 ELSE Go[FirstSubnode(t.struct, cpus), 0]
  IN  Below(PathOffset(t.struct, <<"cpus">>))

(* fdt_node_offset_by_compatible: the first node behind o that has the     *)
(* string in its compatible property.                                      *)
NodeByCompatible(t, o, string) ==
  LET Holds(c) == c >= 0 /\ \E i \in 1 .. PropLen(t, c) : PropValue(t, c)[i] = Str(string)
      Go[p \in Int, c \in Int] ==                    \* c: its compatible property
        IF p < 0 \/ Holds(c) THEN p
        ELSE IF c < 0 /\ c # NOTFOUND THEN c
        ELSE LET next == NextNodeAny(t.struct, p)
             IN  Go[next, PropOffset(t, next, "compatible")]
      From(p) == Go[p, PropOffset(t, p, "compatible")]
  IN  From(NextNodeAny(t.struct, o))
=============================================================================
