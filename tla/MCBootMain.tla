----------------------------- MODULE MCBootMain -----------------------------
(* Device trees of the shape the boot ROM leaves, complete or with one     *)
(* node or property missing, with and without /chosen (in front of the     *)
(* other nodes or behind them), with a bus that translates addresses or    *)
(* does not, with the strings behind the structure or in front of it, and  *)
(* with more or less room in the copy.                                     *)
EXTENDS BootMain

MCNodeNames == {"root", "cpus", "cpu@0", "cpu@1", "cpu", "memory", "memory@8", "soc", "chosen",
                "serial", "serial@6", "subsystem_pbus_clock", "interrupt-controller",
                "interrupt-controller@c", "trng@9", "trng"}

MCUnitNames == [cpu |-> {"cpu@0", "cpu@1"}, memory |-> {"memory@8"}, serial |-> {"serial@6"},
                trng |-> {"trng@9"}]

MCBaseName == [n \in MCNodeNames |->
                 IF n = "interrupt-controller@c" THEN "interrupt-controller"
                 ELSE IF \E b \in DOMAIN MCUnitNames : n \in MCUnitNames[b]
                   THEN CHOOSE b \in DOMAIN MCUnitNames : n \in MCUnitNames[b]
                 ELSE n]

MCPropNames == {"#address-cells", "#size-cells", "ranges", "reg", "device_type", "compatible",
                "clock-frequency", "riscv,ndev", "riscv,max-priority", "timebase-frequency",
                "bootargs", "filler"}

MCNameWords   == [n \in MCNodeNames |-> IF n \in {"trng@9", "interrupt-controller@c"} THEN 2 ELSE 1]
MCStringWords == [p \in MCPropNames |-> 1]
MCRadix       == 16
MCBelowEnd    == 2
MCBootArgs    == <<Str("console=hvc0"), Str("earlycon=sbi")>>
MCTimeBase    == 10
MCBufWords    == 165

(* Structure blocks: a property as its name and value, a node as its name, *)
(* properties and children (already words).                                *)
MCStrings == <<"#address-cells", "#size-cells", "ranges", "reg", "device_type", "compatible",
               "clock-frequency", "riscv,ndev", "riscv,max-priority", "timebase-frequency", "filler">>

Cell(n) == <<Value(n)>>
Text(s) == <<Str(s)>>
Prop(p, v) == PropWords(CHOOSE i \in DOMAIN MCStrings : MCStrings[i] = p, v)
Node(n, props, children) == <<Tag("begin")>> \o NameOf(n) \o props \o children \o <<Tag("endnode")>>

Clock(filler) == IF filler = 0 THEN 4 ELSE filler % MCRadix

(* lack: what is missing; wide: two cells per address; bus: ranges of soc. *)
Struct(lack, wide, bus, chosen, filler) ==
  LET Unless(x, words) == IF x = lack THEN <<>> ELSE words
      High   == IF wide THEN Cell(0) ELSE <<>>
      Reg(a) == Prop("reg", High \o Cell(a) \o Cell(2))
      CellCounts == IF wide THEN Prop("#address-cells", Cell(2)) \o Prop("#size-cells", Cell(1))
                    ELSE Prop("#address-cells", Cell(1)) \o Prop("#size-cells", Cell(1))
      cpu(n, id) == Node(n, Prop("device_type", Text("cpu")) \o Prop("reg", Cell(id))
                              \o Unless("timebase", Prop("timebase-frequency", Cell(3))), <<>>)
      ranges == IF bus = <<>> THEN Prop("ranges", <<>>)
                ELSE Prop("ranges", High \o Cell(bus[1]) \o High \o Cell(bus[2]) \o Cell(bus[3]))
      plic   == Unless("plic reg", Reg(12)) \o Unless("ndev", Prop("riscv,ndev", Cell(5)))
                  \o Unless("prio", Prop("riscv,max-priority", Cell(0) \o Cell(7)))
      soc    == Unless("serial", Node("serial@6", Unless("serial reg", Reg(6)), <<>>))
                  \o Unless("clock", Node("subsystem_pbus_clock",
                                          Unless("clock-frequency", Prop("clock-frequency", Cell(Clock(filler)))), <<>>))
                  \o Unless("plic", Node("interrupt-controller@c", plic, <<>>))
                  \o Unless("trng", Node("trng@9", Prop("compatible", Text("other") \o Text("console,trng0"))
                                                     \o Reg(9), <<>>))
      Chosen == Node("chosen", IF chosen = "bare" THEN <<>>
                               ELSE Prop("compatible", Text("x")), <<>>)
      Cpus   == Unless("cpus", Node("cpus", <<>>, cpu("cpu@1", 1) \o Unless("cpu0", cpu("cpu@0", 0))))
                  \o Unless("memory", Node("memory@8", Unless("memory reg", Reg(8)), <<>>))
      Soc    == Unless("soc", Node("soc", CellCounts \o ranges, soc))
      Filler == IF filler = 0 THEN <<>> ELSE Prop("filler", [i \in 1 .. filler |-> Value(0)])
  IN  Node("root", CellCounts \o Filler,
        IF chosen = "none" THEN Cpus \o Soc
        ELSE IF chosen = "last" THEN Soc \o Cpus \o Chosen
        ELSE Chosen \o Cpus \o Soc)
      \o <<Tag("end")>>

MCBlob(s, slack) ==
  [offRsv |-> HeaderWords, rsv |-> <<0>>, offStruct |-> HeaderWords + RsvWords, struct |-> s,
   offStrings |-> HeaderWords + RsvWords + Len(s), strings |-> MCStrings,
   total |-> HeaderWords + RsvWords + Len(s) + Len(MCStrings) + slack]

(* The strings block in front of the structure block.                      *)
MCStringsFirst(t) == [t EXCEPT !.offStrings = t.offStruct, !.offStruct = @ + Len(t.strings)]

MCLacks == {"", "serial", "serial reg", "clock", "clock-frequency", "memory", "memory reg", "plic",
            "plic reg", "ndev", "prio", "cpus", "cpu0", "timebase", "trng", "soc"}

MCDtbs ==
  {MCBlob(Struct(lack, wide, bus, chosen, 0), 0) :
     lack \in MCLacks, wide \in BOOLEAN, bus \in {<<>>, <<4, 2, 12>>}, chosen \in {"none", "full"}}
  \cup {MCBlob(Struct("", wide, bus, chosen, 0), 0) :
          wide \in BOOLEAN, bus \in {<<>>, <<4, 2, 12>>}, chosen \in {"bare", "last"}}
  \cup {MCBlob(Struct("", FALSE, <<>>, chosen, filler), slack) :
          chosen \in {"none", "last"}, filler \in 1 .. 24, slack \in {0, 9}}
  \cup {MCStringsFirst(MCBlob(Struct("", wide, bus, chosen, filler), 0)) :
          wide \in BOOLEAN, bus \in {<<>>, <<4, 2, 12>>}, chosen \in {"none", "last"}, filler \in {0, 9, 24}}

(* The UART lies behind the range soc translates.                          *)
MCUnmapped == {MCBlob(Struct(lack, FALSE, <<3, 2, 2>>, "full", 0), 0) : lack \in MCLacks}
=============================================================================
