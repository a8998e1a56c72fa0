------------------------------ MODULE BootMain ------------------------------
(***************************************************************************)
(* main() of src/main.c on hart 0, from the device tree the boot ROM left  *)
(* to the loop behind the application: it reads the registers of the       *)
(* devices from the tree, opens it into a buffer at the end of memory,     *)
(* changes the copy and packs it.  One action per numbered section.  A     *)
(* section that fails ends in a loop (halt), in boot_fail (fail) or is     *)
(* ignored.  Addresses are counted in the unit of the model's cells.       *)
(***************************************************************************)
EXTENDS FdtAddr, TLC

CONSTANTS Dtbs,        \* device trees a boot ROM may leave
          BufWords,    \* words of the copy's buffer, 1 MiB
          BelowEnd,    \* distance of the buffer from the end of memory, 2 MiB
          BootArgs,    \* the kernel arguments, a value
          TimeBase,    \* cell written to the cpus' timebase-frequency
          Baud         \* rate of the UART, 115200

(* /chosen and /cpus are the only ones of these names: libfdt would take a *)
(* node with a unit address for them.                                      *)
PlainlyNamed(t) ==
  \A q \in TreeOf(t).nodes : \A n \in {"chosen", "cpus"} :
    Len(q) = 1 /\ BaseName[q[1]] = n => q = <<n>>

ASSUME MainAssumption == /\ \A t \in Dtbs : /\ t \in Blobs /\ WellLaidOut(t) /\ Terminated(t)
                                            /\ WellFormed(t) /\ PlainlyNamed(t)
                         /\ "chosen" \in NodeNames /\ BaseName["chosen"] = "chosen"
                         /\ {"bootargs", "timebase-frequency"} \subseteq PropNames
                         /\ BootArgs \in Seq(ValueWords)
                         /\ BufWords \in Nat /\ BelowEnd \in Nat
                         /\ TimeBase \in Nat /\ Baud \in Nat \ {0}

VARIABLES section, \* the section to run next
          dtb,     \* the tree the boot ROM left
          node,    \* nodeoffset
          regs,    \* what main has extracted, as the tree's numbers
          at,      \* dtb_target
          target   \* the copy

mvars == <<section, dtb, node, regs, at, target>>

MainInit == /\ section = "uart"
            /\ dtb \in Dtbs
            /\ node = 0
            /\ regs = <<>>
            /\ at = 0
            /\ target = dtb

(* Main goes on to section next when ok, with what it extracted, or stops. *)
Section(here, ok, extracted, next, else) ==
  /\ section = here
  /\ section' = IF ok THEN next ELSE else
  /\ regs' = IF ok THEN extracted @@ regs ELSE regs
  /\ UNCHANGED dtb

OnlyReads == UNCHANGED <<at, target>>

FindUart ==
  /\ node' = PathOffset(dtb.struct, <<"soc", "serial">>)
  /\ LET Got(r) == Section("uart", node' >= 0 /\ r.rc >= 0, "uart_reg" :> r.addr,
                           "tlclk", "halt")
     IN  Got(AddrSize(dtb, node', 0))
  /\ OnlyReads

(* uart_min_clk_divisor(tlclk_freq, 115200), in unsigned longs.            *)
UartMinClkDivisor(hz) ==
  LET quotient == ((hz + Baud - 1) % LongMod) \div Baud
  IN  IF quotient = 0 THEN 0 ELSE quotient - 1

FindClock ==
  /\ node' = PathOffset(dtb.struct, <<"soc", "subsystem_pbus_clock">>)
  /\ LET Freq(c) == CHOOSE x \in c : TRUE
         Got(c)  == Section("tlclk", node' >= 0 /\ c # {},
                            "tlclk_freq" :> Freq(c) @@ "uart_div" :> UartMinClkDivisor(Freq(c)),
                            "memory", "halt")
     IN  Got(OneCell(dtb, node', "clock-frequency"))
  /\ OnlyReads

(* mem_base is on the stack: when no address is stored into it, it is what *)
(* was there (main.c:324).                                                 *)
FindMemory ==
  /\ node' = PathOffset(dtb.struct, <<"memory">>)
  /\ LET Got(r) == Section("memory", node' >= 0 /\ r.rc >= 0,
                           "mem_base" :> r.addr @@ "mem_size" :> r.size, "cores", "halt")
     IN  \E junk \in 0 .. LongMod - 1 : Got(AddrSize(dtb, node', junk))
  /\ OnlyReads

CountCores ==
  /\ Section("cores", TRUE, "num_cores" :> MaxHartId(dtb) + 1, "plic", "halt")
  /\ UNCHANGED node
  /\ OnlyReads

FindPlic ==
  /\ node' = PathOffset(dtb.struct, <<"soc", "interrupt-controller">>)
  /\ LET Got(r, ndev, prio) ==
           Section("plic", node' >= 0 /\ r.rc >= 0 /\ ndev # {} /\ prio # {},
                   "plic_reg" :> r.addr @@ "plic_ndevs" :> (CHOOSE x \in ndev : TRUE)
                     @@ "plic_max_priority" :> (CHOOSE x \in prio : TRUE),
                   "open", "halt")
     IN  Got(AddrSize(dtb, node', 0), OneCell(dtb, node', "riscv,ndev"),
             OneCell(dtb, node', "riscv,max-priority"))
  /\ OnlyReads

(* ddr_end and dtb_target are unsigned longs and may wrap around.          *)
OpenTarget ==
  LET Opened(r) == /\ Section("open", r.ret >= 0, <<>>, "chosen", "fail")
                   /\ at' = (regs["mem_base"] + regs["mem_size"] - BelowEnd) % LongMod
                   /\ target' = IF r.ret >= 0 THEN r.t ELSE target
                   /\ UNCHANGED node
  IN  Opened(FdtOpenInto(dtb, BufWords, TRUE))

(* fdt_find_or_add_subnode of the root.                                    *)
FindOrAdd(t, name) ==
  LET OrAdd(o) == IF o = NOTFOUND THEN Rw(t, FdtAddSubnode(t, 0, name)) ELSE [ret |-> o, t |-> t]
  IN  OrAdd(SubnodeOffset(t.struct, 0, name))

AddChosen ==
  LET Got(r) == /\ Section("chosen", r.ret >= 0, <<>>, "bootargs", "fail")
                /\ node' = r.ret
                /\ target' = r.t
                /\ UNCHANGED at
  IN  Got(FindOrAdd(target, "chosen"))

SetBootArgs ==
  LET Set(r) == /\ Section("bootargs", r.ret >= 0, <<>>, "cpu0", "fail")
                /\ target' = r.t
                /\ UNCHANGED <<node, at>>
  IN  Set(Rw(target, FdtSetProp(target, node, "bootargs", BootArgs)))

GetTimeBase ==
  /\ node' = PathOffset(target.struct, <<"cpus", "cpu@0">>)
  /\ LET Got(c) == Section("cpu0", node' >= 0 /\ c # {},
                           "timescale_freq" :> CHOOSE x \in c : TRUE, "cpus", "halt")
     IN  Got(OneCell(target, node', "timebase-frequency"))
  /\ OnlyReads

SetTimeBaseStale ==                              \* mutant: nodeoffset still cpu@0
  /\ LET Set(r) == /\ Section("cpus", r.ret >= 0, <<>>, "pack", "halt")
                   /\ target' = r.t
     IN  Set(Rw(target, FdtSetProp(target, node, "timebase-frequency", <<Value(TimeBase)>>)))
  /\ UNCHANGED <<node, at>>
SetTimeBase ==
  /\ node' = SubnodeOffset(target.struct, 0, "cpus")
  /\ LET Set(r) == /\ Section("cpus", node' >= 0 /\ r.ret >= 0, <<>>, "pack", "halt")
                   /\ target' = IF node' >= 0 THEN r.t ELSE target
     IN  Set(Rw(target, FdtSetProp(target, node', "timebase-frequency", <<Value(TimeBase)>>)))
  /\ UNCHANGED at

PackTargetNot ==                                 \* mutant: packing has failed
  Section("pack", TRUE, <<>>, "trng", "halt") /\ UNCHANGED <<node, at, target>>
PackTarget ==
  /\ Section("pack", TRUE, <<>>, "trng", "halt")
  /\ target' = Rw(target, FdtPack(target)).t
  /\ UNCHANGED <<node, at>>

(* The node is looked up in the boot ROM's tree and its address in the     *)
(* copy.                                                                   *)
FindTrng ==
  /\ node' = NodeByCompatible(dtb, 0, "console,trng0")
  /\ LET Got(r) == Section("trng", node' >= 0 /\ r.rc >= 0, "trng_reg" :> r.addr,
                           "run", "halt trng")
     IN  Got(AddrSize(target, node', 0))
  /\ OnlyReads

Stopped == section \in {"run", "halt", "halt trng", "fail"} /\ UNCHANGED mvars

MainNext == \/ FindUart \/ FindClock \/ FindMemory \/ CountCores \/ FindPlic
            \/ OpenTarget \/ AddChosen \/ SetBootArgs \/ GetTimeBase
            \/ SetTimeBase \/ PackTarget \/ FindTrng
            \/ Stopped

MainSpec == MainInit /\ [][MainNext]_mvars

----------------------------------------------------------------------------
(* What the trees mean, independently of how libfdt finds it.              *)
Read == INSTANCE DeviceTree WITH tree <- TreeOf(dtb), Values <- {}, NewNames <- {}

Given == TreeOf(dtb)

Held(path, p) == Read!ValueOf(Given, path, p)

(* The nodes main may mean by a path of names without unit addresses.      *)
Named(names) == {q \in Given.nodes : /\ Len(q) = Len(names)
                                     /\ \A i \in DOMAIN q : names[i] \in {q[i], BaseName[q[i]]}}

CellsOf(path, p, default) ==
  LET Of(values) == IF values = {} THEN default ELSE Number(CHOOSE v \in values : TRUE)
  IN  Of(Held(path, p))

(* The addresses bus shows the bus above for its address a: by each entry  *)
(* of ranges that covers it, or the same address when there are none.      *)
Above(bus, a) ==
  LET up == SubSeq(bus, 1, Len(bus) - 1)
      Entry(r, ca, pca) == [child  |-> Number(SubSeq(r, 1, ca)),
                            parent |-> Number(SubSeq(r, ca + 1, ca + pca)),
                            size   |-> Number(SubSeq(r, ca + pca + 1, Len(r)))]
      Entries(ca, pca, width) ==
        UNION {{Entry(SubSeq(r, i * width + 1, (i + 1) * width), ca, pca) :
                  i \in 0 .. Len(r) \div width - 1} : r \in Held(bus, "ranges")}
      All(ca, pca, cs) == Entries(ca, pca, ca + pca + cs)
      Through(entries) ==
        IF entries = {} THEN {a}
        ELSE {e.parent + a - e.child : e \in {x \in entries : x.child <= a /\ a < x.child + x.size}}
  IN  IF bus = <<>> THEN {a}
      ELSE Through(All(CellsOf(bus, "#address-cells", 2), CellsOf(up, "#address-cells", 2),
                       CellsOf(bus, "#size-cells", 1)))

(* The addresses at which the processor finds the device at path.          *)
DeviceAddr(path) ==
  LET parent == SubSeq(path, 1, Len(path) - 1)
      base   == {Number(SubSeq(v, 1, CellsOf(parent, "#address-cells", 2))) : v \in Held(path, "reg")}
      Climb[i \in 0 .. Len(parent)] ==
        IF i = Len(parent) THEN base
        ELSE UNION {Above(SubSeq(path, 1, i + 1), a) : a \in Climb[i + 1]}
  IN  Climb[0]

LastOfTwo(v) == IF Len(v) > 1 THEN v[2][2] ELSE v[1][2]
CellsHeld(names, p) == UNION {{LastOfTwo(v) : v \in Held(q, p) \ {<<>>}} : q \in Named(names)}

HartIds == {LastOfTwo(v) : v \in UNION {Held(q, "reg") : q \in
             {x \in Given.nodes : /\ Len(x) = 2 /\ x[1] = "cpus"
                                  /\ Held(x, "device_type") = {<<Str("cpu")>>}}}}

(* What main works on is a tree with its blocks apart all along; once it   *)
(* has called fdt_pack, whose return value it ignores (main.c:458), there  *)
(* is no gap in the copy: packing cannot have failed.                      *)
CopyPacked == /\ target \in Blobs /\ WellLaidOut(target) /\ Terminated(target)
              /\ section \in {"trng", "run", "halt trng"} => target.total = StringsEnd(target)

(* What main goes on with is what the tree says: the address of a device   *)
(* through every bus above it, the cells of its properties, one core more  *)
(* than the largest hart id (main.c:289-365, 429-441).  The UART's divisor *)
(* is the smallest that keeps it within the rate, unless the sum overflows *)
(* an unsigned long (uart.h:27-37).                                        *)
UartClosest(hz, div) == /\ hz <= Baud * (div + 1)
                        /\ div > 0 => hz > Baud * div
ReadsExact ==
  LET Addr(r, names) == r \in DOMAIN regs =>
                          \E q \in Named(names) : DeviceAddr(q) = {regs[r]}
      Cell(r, names, p) == r \in DOMAIN regs => regs[r] \in CellsHeld(names, p)
  IN  /\ Addr("uart_reg", <<"soc", "serial">>)
      /\ Addr("mem_base", <<"memory">>)
      /\ Addr("plic_reg", <<"soc", "interrupt-controller">>)
      /\ Cell("tlclk_freq", <<"soc", "subsystem_pbus_clock">>, "clock-frequency")
      /\ Cell("plic_ndevs", <<"soc", "interrupt-controller">>, "riscv,ndev")
      /\ Cell("plic_max_priority", <<"soc", "interrupt-controller">>, "riscv,max-priority")
      /\ Cell("timescale_freq", <<"cpus", "cpu@0">>, "timebase-frequency")
      /\ "uart_div" \in DOMAIN regs /\ regs["tlclk_freq"] + Baud <= LongMod =>
           UartClosest(regs["tlclk_freq"], regs["uart_div"])
      /\ "num_cores" \in DOMAIN regs =>
           /\ \A id \in HartIds : id < regs["num_cores"]
           /\ regs["num_cores"] - 1 \in HartIds \cup {0}

(* The packed copy is the boot ROM's tree with the bootargs and the        *)
(* timebase-frequency put in and nothing else changed.                     *)
Patched(tr) == Read!WithProp(Read!WithProp(Read!WithNode(tr, <<>>, "chosen"),
                                           <<"chosen">>, "bootargs", BootArgs),
                             <<"cpus">>, "timebase-frequency", <<Value(TimeBase)>>)

CopyIsPatched ==
  section \in {"trng", "run", "halt trng"} =>
    LET copy == TreeOf(target)
    IN  /\ copy.ok
        /\ [nodes |-> copy.nodes, props |-> copy.props]
             = Patched([nodes |-> Given.nodes, props |-> Given.props])

(* Up to the copy's patching, main stops only for a tree that lacks a node *)
(* or a property main needs, or that leaves no room in the buffer.         *)
Room == /\ dtb.total <= BufWords
        /\ \A t \in {dtb, Packed(dtb)} :
             StringsEnd(t) + Len(NodeWords("chosen")) + Len(PropWords(1, BootArgs)) + 4
               + SumWords(<<"bootargs", "timebase-frequency">>) <= BufWords

Complete == /\ \A d \in {<<"soc", "serial">>, <<"memory">>, <<"soc", "interrupt-controller">>} :
                 \E q \in Named(d) : Held(q, "reg") # {}
            /\ CellsHeld(<<"soc", "subsystem_pbus_clock">>, "clock-frequency") # {}
            /\ CellsHeld(<<"soc", "interrupt-controller">>, "riscv,ndev") # {}
            /\ CellsHeld(<<"soc", "interrupt-controller">>, "riscv,max-priority") # {}
            /\ CellsHeld(<<"cpus", "cpu@0">>, "timebase-frequency") # {}

StopsForCause == section \in {"halt", "fail"} => ~Complete \/ ~Room

(* main gets the address of the node compatible with console,trng0, and    *)
(* stops with "Cannot get reg space from compatible 'console,trng0'"       *)
(* (main.c:468) only when there is no such node with a reg.                *)
Compatible == {q \in Given.nodes : \E v \in Held(q, "compatible") :
                                     \E i \in DOMAIN v : v[i] = Str("console,trng0")}

TrngIsTrng ==
  /\ section = "halt trng" => \A q \in Compatible : Held(q, "reg") = {}
  /\ "trng_reg" \in DOMAIN regs => \E q \in Compatible : DeviceAddr(q) = {regs["trng_reg"]}

(* main.c:138 calls it an invalid address translation when an address is   *)
(* outside the range its bus translates: main does not use such an address.*)
OnlyMappedAddresses == "uart_reg" \in DOMAIN regs =>
                         \E q \in Named(<<"soc", "serial">>) : DeviceAddr(q) # {}
=============================================================================
