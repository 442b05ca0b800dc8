------------------------- MODULE AvivoOutputsProofs -------------------------
(***************************************************************************)
(* Proofs about AvivoOutputs, for any connector tables with any numbers    *)
(* and any failures: no two outputs share a bus or a block, no connector   *)
(* is lost but to a panel, there is one panel at most, and the two outputs *)
(* of a DVI-I connector do not both claim its monitor.                     *)
(***************************************************************************)
EXTENDS AvivoOutputs, SequenceTheorems, FiniteSetTheorems, WellFoundedInduction, TLAPS

Entry  == [type : Connectors, number : 0 .. 15]
Output == [type : Kinds, number : 0 .. 15, ddc : 0 .. 15,
           bus : Kinds \X (0 .. 15), driver : Driver, crtcs : SUBSET {1, 2}]

(* Where the loops are: setup begins with nothing.                         *)
LoopInv ==
  /\ pc = "bios" => i = 1 /\ table = <<>> /\ outputs = <<>>
  /\ pc = "table" => i <= Len(table) + 1
  /\ pc = "pair" => i <= Len(outputs) + 1
  /\ table \in Seq(Entry)

(* The bus remembers what an output was created as; its functions are of   *)
(* that type for good, while a panel may take its type.                    *)
CreatedAs(o) == o.bus[1]

OriginInv ==
  \A k \in 1 .. Len(outputs) :
    LET o == outputs[k] IN
    /\ o.bus[2] = o.number
    /\ o.driver = DriverOf(CreatedAs(o), o.number)
    /\ o.type = CreatedAs(o) \/ o.type = "LFP"
    /\ o.type = "LFP" => o.number >= 1
    /\ CreatedAs(o) = "LFP" => o.number = 1

(* A panel with its own bus was created when no output had a number above  *)
(* 0, and there is none since.                                             *)
PanelAlone ==
  \A k, h \in 1 .. Len(outputs) :
    CreatedAs(outputs[k]) = "LFP" /\ outputs[h].number >= 1 => h = k

(* A panel is the first of the outputs with a number above 0.              *)
PanelLeads ==
  \A k, h \in 1 .. Len(outputs) :
    outputs[k].type = "LFP" /\ outputs[h].number >= 1 => k <= h

(* What the table lists bounds the outputs: their numbers, and the panel.  *)
ListedInv ==
  /\ (\A e \in Entries : e.number <= 1) => \A k \in 1 .. Len(outputs) : outputs[k].number <= 1
  /\ \A k \in 1 .. Len(outputs) :
       outputs[k].type = "LFP" => \E e \in Entries : e.type = "LFP"

(* The entries the first loop has gone through, and what each has become.  *)
Read(k) == k \in 1 .. Len(table) /\ pc # "bios" /\ (pc = "table" => k < i)

Served(k) ==
  LET e == table[k] IN
  /\ (e.type \in {"VGA", "DVI-I"} /\ (e.number = 0 \/ \A f \in Entries : f.type # "LFP")) =>
       \E h \in 1 .. Len(outputs) : Same(outputs[h], e.type, e.number)
  /\ e.type = "LFP" => \E h \in 1 .. Len(outputs) : outputs[h].type = "LFP"

ServedInv ==
  (failures = 0 /\ pc # "failed") => \A k \in 1 .. Len(table) : Read(k) => Served(k)

(* A panel that is listed first is created, and takes nothing over.        *)
PanelCreated ==
  (failures = 0 /\ PanelFirst) =>
    \A k \in 1 .. Len(outputs) : outputs[k].number >= 1 => CreatedAs(outputs[k]) = "LFP"

MaskInv ==
  pc \in {"done", "detected"} =>
    \A k \in 1 .. Len(outputs) :
      outputs[k].crtcs = IF outputs[k].type = "LFP" THEN {1} ELSE {1, 2}

(* A panel's own functions always find it.                                 *)
AnswerInv ==
  pc = "detected" =>
    \A k \in 1 .. Len(outputs) : outputs[k].driver = "lvds" => status[k] = "Connected"

SharedInv == LoopInv /\ OriginInv /\ BusesAreOwned /\ PanelAlone /\ PanelLeads /\ ListedInv
PanelInv  == PanelCreated /\ MaskInv /\ AnswerInv
OutputsInv == TypeOK /\ SharedInv /\ ServedInv /\ PanelInv

-----------------------------------------------------------------------------
(* Sequences and numbers.                                                  *)

(* A non-empty set of naturals has a least element: the intervals below    *)
(* its elements are finite, and strict inclusion of those is well founded. *)
LEMMA LeastOfSet ==
  ASSUME NEW S, S \subseteq Nat, S # {}
  PROVE  \E m \in S : \A k \in S : m <= k
<1> DEFINE R == StrictSubsetOrdering(Nat)
           T == {0 .. m : m \in S}
<1>1. T \subseteq FiniteSubsetsOf(Nat)
  <2>1. \A m \in S : IsFiniteSet(0 .. m) /\ 0 .. m \in SUBSET Nat
    BY FS_Interval
  <2> QED BY <2>1 DEF FiniteSubsetsOf
<1>2. IsWellFoundedOn(R, FiniteSubsetsOf(Nat))
  BY FS_StrictSubsetOrderingWellFounded
<1>3. T # {}
  OBVIOUS
<1>4. PICK t \in T : \A u \in T : ~ (<<u, t>> \in R)
  <2> HIDE DEF R, T
  <2> QED BY <1>1, <1>2, <1>3, WFMin
<1>5. PICK m \in S : t = 0 .. m
  BY DEF T
<1>6. ASSUME NEW k \in S, k < m PROVE FALSE
  <2>1. 0 .. k \in SUBSET Nat /\ t \in SUBSET Nat /\ 0 .. k \subseteq t
    BY <1>5, <1>6
  <2>2. m \in t /\ m \notin 0 .. k
    BY <1>5, <1>6
  <2>3. <<0 .. k, t>> \in R
    BY <2>1, <2>2 DEF StrictSubsetOrdering
  <2> QED BY <1>4, <2>3
<1> QED BY <1>6

(* avivo_output_exist answers at the first of the outputs that hit.        *)
LEMMA FirstHit ==
  ASSUME outputs \in Seq(Output), NEW type, NEW number, Hits(type, number) # {}
  PROVE  LET k == CHOOSE h \in Hits(type, number) : \A g \in Hits(type, number) : h <= g
         IN  k \in Hits(type, number) /\ \A g \in Hits(type, number) : k <= g
<1>1. Hits(type, number) \subseteq Nat
  BY DEF Hits
<1>2. \E m \in Hits(type, number) : \A k \in Hits(type, number) : m <= k
  BY <1>1, LeastOfSet
<1> QED BY <1>2

(* What is known of an output by its being one.                            *)
LEMMA OutputFields ==
  ASSUME NEW o \in Output
  PROVE  /\ o.type \in Kinds /\ o.number \in 0 .. 15 /\ o.ddc \in 0 .. 15
         /\ o.bus \in Kinds \X (0 .. 15) /\ o.driver \in Driver /\ o.crtcs \in SUBSET {1, 2}
         /\ o.bus[1] \in Kinds /\ o.bus[2] \in 0 .. 15 /\ o.bus = <<o.bus[1], o.bus[2]>>
BY DEF Output

(* A new output goes to the end.                                           *)
NewOutput(type, number, ddc) ==
  [type |-> type, number |-> number, ddc |-> ddc, bus |-> <<type, number>>,
   driver |-> DriverOf(type, number), crtcs |-> {}]

Adds(type, number, ddc) ==
  /\ <<type, number>> \notin buses
  /\ outputs' = Append(outputs, NewOutput(type, number, ddc))
  /\ buses' = buses \cup {<<type, number>>}
  /\ UNCHANGED failures

LEMMA NewIsOutput ==
  ASSUME NEW type \in Kinds, NEW number \in 0 .. 15, NEW ddc \in 0 .. 15
  PROVE  NewOutput(type, number, ddc) \in Output
<1>1. DriverOf(type, number) \in Driver
  BY DEF DriverOf, Driver, Kinds
<1> QED BY <1>1 DEF NewOutput, Output

LEMMA AddedOutputs ==
  ASSUME outputs \in Seq(Output), NEW type \in Kinds, NEW number \in 0 .. 15,
         NEW ddc \in 0 .. 15, Adds(type, number, ddc)
  PROVE  /\ outputs' \in Seq(Output) /\ Len(outputs) \in Nat
         /\ Len(outputs') = Len(outputs) + 1
         /\ \A k \in 1 .. Len(outputs) : outputs'[k] = outputs[k]
         /\ outputs'[Len(outputs) + 1] = NewOutput(type, number, ddc)
<1>1. NewOutput(type, number, ddc) \in Output
  BY NewIsOutput
<1>2. outputs' = Append(outputs, NewOutput(type, number, ddc))
  BY DEF Adds
<1> QED BY <1>1, <1>2, AppendProperties, LenProperties

LEMMA AddedBuses ==
  ASSUME buses \subseteq Kinds \X (0 .. 15), failures \in 0 .. MaxFailures,
         NEW type \in Kinds, NEW number \in 0 .. 15, NEW ddc, Adds(type, number, ddc)
  PROVE  buses' \subseteq Kinds \X (0 .. 15) /\ failures' \in 0 .. MaxFailures
<1>1. buses' = buses \cup {<<type, number>>} /\ failures' = failures
  BY DEF Adds
<1>2. <<type, number>> \in Kinds \X (0 .. 15)
  OBVIOUS
<1> QED BY <1>1, <1>2

(* A panel takes an output's type and DDC register.                        *)
LEMMA TakenOutputs ==
  ASSUME outputs \in Seq(Output), NEW k \in 1 .. Len(outputs), NEW ddc \in 0 .. 15,
         TakeOver(k, ddc)
  PROVE  /\ outputs' \in Seq(Output)
         /\ Len(outputs') = Len(outputs)
         /\ \A h \in 1 .. Len(outputs) : h # k => outputs'[h] = outputs[h]
         /\ outputs'[k] = [outputs[k] EXCEPT !.type = "LFP", !.ddc = ddc]
<1>1. outputs[k] \in Output
  OBVIOUS
<1>2. [outputs[k] EXCEPT !.type = "LFP", !.ddc = ddc] \in Output
  BY <1>1 DEF Output, Kinds
<1>3. outputs' = [outputs EXCEPT ![k] = [outputs[k] EXCEPT !.type = "LFP", !.ddc = ddc]]
  BY <1>1 DEF TakeOver, Output
<1> DEFINE o == [outputs[k] EXCEPT !.type = "LFP", !.ddc = ddc]
<1>4. o \in Output /\ outputs' = [outputs EXCEPT ![k] = o]
  BY <1>2, <1>3
<1> HIDE DEF o
<1>5. outputs' \in Seq(Output) /\ Len(outputs') = Len(outputs)
  BY <1>4, ExceptSeq
<1>6. outputs'[k] = o /\ \A h \in 1 .. Len(outputs) : h # k => outputs'[h] = outputs[h]
  BY <1>4, LenProperties
<1> QED BY <1>5, <1>6 DEF o

(* The masks change nothing else.                                          *)
Masked(o) == [o EXCEPT !.crtcs = IF o.type = "LFP" THEN {1} ELSE {1, 2}]

LEMMA MaskedOutputs ==
  ASSUME outputs \in Seq(Output), SetMasks
  PROVE  /\ outputs' \in Seq(Output)
         /\ Len(outputs') = Len(outputs)
         /\ \A k \in 1 .. Len(outputs) : outputs'[k] = Masked(outputs[k])
<1>1. \A o \in Output : Masked(o) \in Output
  BY DEF Masked, Output
<1>2. outputs' = [k \in 1 .. Len(outputs) |-> Masked(outputs[k])]
  BY DEF SetMasks, Masked
<1> HIDE DEF Masked
<1> QED BY <1>1, <1>2

LEMMA MaskedFields ==
  ASSUME NEW o \in Output
  PROVE  /\ Masked(o).type = o.type /\ Masked(o).number = o.number /\ Masked(o).ddc = o.ddc
         /\ Masked(o).bus = o.bus /\ Masked(o).driver = o.driver
         /\ Masked(o).crtcs = IF o.type = "LFP" THEN {1} ELSE {1, 2}
BY DEF Masked, Output

LEMMA NewFields ==
  ASSUME NEW type, NEW number, NEW ddc
  PROVE  LET o == NewOutput(type, number, ddc) IN
         /\ o.type = type /\ o.number = number /\ o.ddc = ddc
         /\ o.bus = <<type, number>> /\ CreatedAs(o) = type /\ o.bus[2] = number
         /\ o.driver = DriverOf(type, number)
BY DEF NewOutput, CreatedAs

LEMMA TakenFields ==
  ASSUME NEW o \in Output, NEW ddc
  PROVE  LET p == [o EXCEPT !.type = "LFP", !.ddc = ddc] IN
         /\ p.type = "LFP" /\ p.number = o.number
         /\ p.bus = o.bus /\ p.driver = o.driver
BY DEF Output

-----------------------------------------------------------------------------
(* Setup begins with no outputs and no buses.                              *)
LEMMA StartsRight == Init => OutputsInv
<1> SUFFICES ASSUME Init PROVE OutputsInv
  OBVIOUS
<1> USE DEF Init
<1>1. Len(outputs) = 0 /\ Len(table) = 0
  <2>1. Len(<<>>) = 0
    BY EmptySeq
  <2> QED BY <2>1
<1>2. outputs \in Seq(Output) /\ table \in Seq(Entry)
      /\ status \in Seq({"Unknown", "Connected", "Disconnected"})
  BY EmptySeq
<1>3. TypeOK
  BY <1>1, <1>2, OutputsAssumption DEF TypeOK, Output
<1>4. 1 .. Len(outputs) = {} /\ Entries = {}
  BY <1>1 DEF Entries
<1>5. SharedInv
  BY <1>1, <1>2, <1>4 DEF SharedInv, LoopInv, OriginInv, BusesAreOwned, PanelAlone, PanelLeads,
                          ListedInv
<1>6. ServedInv /\ PanelInv
  BY <1>4 DEF ServedInv, PanelInv, PanelCreated, MaskInv, AnswerInv
<1> QED BY <1>3, <1>5, <1>6 DEF OutputsInv

(* A new output keeps the conditions on bus, type and number when it does  *)
(* not get between a panel and the connectors it shuts out.                *)
LEMMA AddKeeps ==
  ASSUME outputs \in Seq(Output), SharedInv, table' = table,
         NEW type \in Kinds, NEW number \in 0 .. 15, NEW ddc \in 0 .. 15,
         Adds(type, number, ddc),
         type = "LFP" => /\ number = 1
                         /\ \A k \in 1 .. Len(outputs) : outputs[k].number = 0
                         /\ \E e \in Entries : e.type = "LFP",
         number >= 1 => \A k \in 1 .. Len(outputs) : CreatedAs(outputs[k]) # "LFP",
         (\A e \in Entries : e.number <= 1) => number <= 1
  PROVE  OriginInv' /\ BusesAreOwned' /\ PanelAlone' /\ PanelLeads' /\ ListedInv'
<1> DEFINE n == Len(outputs)
           o == NewOutput(type, number, ddc)
<1>1. /\ n \in Nat /\ Len(outputs') = n + 1
      /\ \A k \in 1 .. n : outputs'[k] = outputs[k]
      /\ outputs'[n + 1] = o
  BY AddedOutputs
<1>2. /\ o.type = type /\ o.number = number
      /\ o.bus = <<type, number>> /\ CreatedAs(o) = type /\ o.bus[2] = number
      /\ o.driver = DriverOf(type, number)
  BY NewFields
<1>3. \A k \in 1 .. n : outputs[k].number \in 0 .. 15
  BY OutputFields
<1>4. Entries' = Entries
  BY DEF Entries
<1> HIDE DEF o, n
<1>5. \A k \in 1 .. n + 1 : k \in 1 .. n \/ k = n + 1
  BY <1>1
<1>6. OriginInv'
  <2> SUFFICES ASSUME NEW k \in 1 .. n + 1
               PROVE  LET p == outputs'[k] IN
                      /\ p.bus[2] = p.number
                      /\ p.driver = DriverOf(CreatedAs(p), p.number)
                      /\ p.type = CreatedAs(p) \/ p.type = "LFP"
                      /\ p.type = "LFP" => p.number >= 1
                      /\ CreatedAs(p) = "LFP" => p.number = 1
    BY <1>1 DEF OriginInv, CreatedAs
  <2>1. CASE k \in 1 .. n
    BY <1>1, <2>1 DEF SharedInv, OriginInv, n
  <2>2. CASE k = n + 1
    BY <1>1, <1>2, <2>2
  <2> QED BY <1>5, <2>1, <2>2
<1>7. BusesAreOwned'
  <2>1. buses' = buses \cup {o.bus} /\ o.bus \notin buses
    BY <1>2 DEF Adds
  <2>2. buses = {outputs[k].bus : k \in 1 .. n}
    BY DEF SharedInv, BusesAreOwned, n
  <2>3. {outputs'[k].bus : k \in 1 .. n + 1} = {outputs[k].bus : k \in 1 .. n} \cup {o.bus}
    BY <1>1, <1>5
  <2>4. ASSUME NEW k \in 1 .. n + 1, NEW h \in 1 .. n + 1, outputs'[k].bus = outputs'[h].bus
        PROVE  k = h
    <3>1. \A g \in 1 .. n : outputs[g].bus # o.bus
      BY <2>1, <2>2
    <3>2. \A f, g \in 1 .. n : outputs[f].bus = outputs[g].bus => f = g
      BY DEF SharedInv, BusesAreOwned, n
    <3> QED BY <1>1, <1>5, <2>4, <3>1, <3>2
  <2> QED BY <1>1, <2>1, <2>2, <2>3, <2>4 DEF BusesAreOwned
<1>8. PanelAlone'
  <2> SUFFICES ASSUME NEW k \in 1 .. n + 1, NEW h \in 1 .. n + 1,
                      CreatedAs(outputs'[k]) = "LFP", outputs'[h].number >= 1
               PROVE  h = k
    BY <1>1 DEF PanelAlone, CreatedAs
  <2>1. CASE k \in 1 .. n /\ h \in 1 .. n
    BY <1>1, <2>1 DEF SharedInv, PanelAlone, n
  <2>2. CASE k = n + 1 /\ h \in 1 .. n
    BY <1>1, <1>2, <2>2 DEF n
  <2>3. CASE k \in 1 .. n /\ h = n + 1
    BY <1>1, <1>2, <2>3 DEF n
  <2> QED BY <1>5, <2>1, <2>2, <2>3
<1>9. PanelLeads'
  <2> SUFFICES ASSUME NEW k \in 1 .. n + 1, NEW h \in 1 .. n + 1,
                      outputs'[k].type = "LFP", outputs'[h].number >= 1
               PROVE  k <= h
    BY <1>1 DEF PanelLeads
  <2>1. CASE k \in 1 .. n /\ h \in 1 .. n
    BY <1>1, <2>1 DEF SharedInv, PanelLeads, n
  <2>2. CASE k = n + 1 /\ h \in 1 .. n
    BY <1>1, <1>2, <2>2 DEF n
  <2>3. CASE h = n + 1
    BY <1>1, <2>3
  <2> QED BY <1>5, <2>1, <2>2, <2>3
<1>10. ListedInv'
  <2>1. ASSUME \A e \in Entries : e.number <= 1, NEW k \in 1 .. n + 1
        PROVE  outputs'[k].number <= 1
    BY <1>1, <1>2, <1>5, <2>1 DEF SharedInv, ListedInv, n
  <2>2. ASSUME NEW k \in 1 .. n + 1, outputs'[k].type = "LFP"
        PROVE  \E e \in Entries : e.type = "LFP"
    BY <1>1, <1>2, <1>5, <2>2 DEF SharedInv, ListedInv, n
  <2> QED BY <1>1, <1>4, <2>1, <2>2 DEF ListedInv
<1> QED BY <1>6, <1>7, <1>8, <1>9, <1>10

(* An output that a panel takes over keeps its bus and functions; it is    *)
(* the first with a number above 0.                                        *)
LEMMA TakeOverKeeps ==
  ASSUME outputs \in Seq(Output), SharedInv, table' = table, buses' = buses,
         NEW k \in 1 .. Len(outputs), NEW ddc \in 0 .. 15, TakeOver(k, ddc),
         outputs[k].number >= 1,
         \A h \in 1 .. Len(outputs) : outputs[h].number >= 1 => k <= h,
         \E e \in Entries : e.type = "LFP"
  PROVE  OriginInv' /\ BusesAreOwned' /\ PanelAlone' /\ PanelLeads' /\ ListedInv'
<1>1. /\ Len(outputs') = Len(outputs)
      /\ \A h \in 1 .. Len(outputs) : outputs'[h] = outputs[h] \/ h = k
      /\ outputs'[k].type = "LFP" /\ outputs'[k].number = outputs[k].number
      /\ outputs'[k].bus = outputs[k].bus /\ outputs'[k].driver = outputs[k].driver
  <2>1. outputs[k] \in Output
    BY ElementOfSeq, Zenon
  <2>2. /\ Len(outputs') = Len(outputs)
        /\ \A h \in 1 .. Len(outputs) : h # k => outputs'[h] = outputs[h]
        /\ outputs'[k] = [outputs[k] EXCEPT !.type = "LFP", !.ddc = ddc]
    BY TakenOutputs, Zenon
  <2>3. /\ outputs'[k].type = "LFP" /\ outputs'[k].number = outputs[k].number
        /\ outputs'[k].bus = outputs[k].bus /\ outputs'[k].driver = outputs[k].driver
    BY <2>1, <2>2, TakenFields
  <2> QED BY <2>2, <2>3
<1>2. \A h \in 1 .. Len(outputs) :
        /\ outputs'[h].number = outputs[h].number /\ outputs'[h].bus = outputs[h].bus
        /\ outputs'[h].driver = outputs[h].driver
        /\ outputs'[h].type = outputs[h].type \/ (h = k /\ outputs'[h].type = "LFP")
  BY <1>1
<1>3. Entries' = Entries
  BY DEF Entries
<1>4. \A h \in 1 .. Len(outputs) : CreatedAs(outputs'[h]) = CreatedAs(outputs[h])
  BY <1>2 DEF CreatedAs
<1>5. OriginInv'
  BY <1>1, <1>2, <1>4 DEF SharedInv, OriginInv, CreatedAs
<1>6. BusesAreOwned'
  <2>1. {outputs'[h].bus : h \in 1 .. Len(outputs)} = {outputs[h].bus : h \in 1 .. Len(outputs)}
    BY <1>2
  <2> QED BY <1>1, <1>2, <2>1 DEF SharedInv, BusesAreOwned
<1>7. PanelAlone'
  BY <1>1, <1>2, <1>4 DEF SharedInv, PanelAlone, CreatedAs
<1>8. PanelLeads'
  BY <1>1, <1>2 DEF SharedInv, PanelLeads
<1>9. ListedInv'
  BY <1>1, <1>2, <1>3 DEF SharedInv, ListedInv
<1> QED BY <1>5, <1>6, <1>7, <1>8, <1>9

(* Giving out the masks keeps everything else.                             *)
LEMMA MasksKeep ==
  ASSUME outputs \in Seq(Output), SharedInv, SetMasks
  PROVE  OriginInv' /\ BusesAreOwned' /\ PanelAlone' /\ PanelLeads' /\ ListedInv'
<1>1. Len(outputs') = Len(outputs)
  BY MaskedOutputs
<1>2. \A h \in 1 .. Len(outputs) :
        /\ outputs'[h].number = outputs[h].number /\ outputs'[h].bus = outputs[h].bus
        /\ outputs'[h].driver = outputs[h].driver /\ outputs'[h].type = outputs[h].type
  BY MaskedOutputs, MaskedFields, ElementOfSeq
<1>3. Entries' = Entries /\ buses' = buses
  BY DEF Entries, SetMasks
<1>4. \A h \in 1 .. Len(outputs) : CreatedAs(outputs'[h]) = CreatedAs(outputs[h])
  BY <1>2 DEF CreatedAs
<1>5. OriginInv'
  BY <1>1, <1>2, <1>4 DEF SharedInv, OriginInv, CreatedAs
<1>6. BusesAreOwned'
  <2>1. {outputs'[h].bus : h \in 1 .. Len(outputs)} = {outputs[h].bus : h \in 1 .. Len(outputs)}
    BY <1>2
  <2> QED BY <1>1, <1>2, <1>3, <2>1 DEF SharedInv, BusesAreOwned
<1>7. PanelAlone' /\ PanelLeads'
  BY <1>1, <1>2, <1>4 DEF SharedInv, PanelAlone, PanelLeads, CreatedAs
<1>8. ListedInv'
  BY <1>1, <1>2, <1>3 DEF SharedInv, ListedInv
<1> QED BY <1>5, <1>6, <1>7, <1>8

-----------------------------------------------------------------------------
(* A connector that no output stands for has a name that is free.          *)
LEMMA NameIsFree ==
  ASSUME outputs \in Seq(Output), SharedInv,
         NEW type \in Kinds, NEW number \in 0 .. 15, Hits(type, number) = {}
  PROVE  <<type, number>> \notin buses
<1> SUFFICES ASSUME NEW k \in 1 .. Len(outputs), outputs[k].bus = <<type, number>>
             PROVE  FALSE
  BY DEF SharedInv, BusesAreOwned
<1>1. outputs[k].number = number /\ CreatedAs(outputs[k]) = type
  BY DEF SharedInv, OriginInv, CreatedAs
<1>2. outputs[k].type = type \/ (outputs[k].type = "LFP" /\ number >= 1)
  BY <1>1 DEF SharedInv, OriginInv
<1>3. k \in Hits(type, number)
  BY <1>1, <1>2 DEF Hits, Same, PanelIsThere
<1> QED BY <1>3

(* What one turn of the first loop may do.                                 *)
TypeAt   == table[i].type
NumberAt == IF TypeAt = "LFP" THEN 1 ELSE table[i].number
DdcAt    == table[i].number

Passes == UNCHANGED <<outputs, buses, failures>>
Fails  == failures < MaxFailures /\ failures' = failures + 1 /\ UNCHANGED <<outputs, buses>>
Takes(k) ==
  /\ TypeAt = "LFP" /\ outputs[k].number >= 1
  /\ \A h \in 1 .. Len(outputs) : outputs[h].number >= 1 => k <= h
  /\ TakeOver(k, DdcAt)
  /\ UNCHANGED <<buses, failures>>

LEMMA EntryAt ==
  ASSUME table \in Seq(Entry), i \in 1 .. Len(table)
  PROVE  /\ TypeAt \in Connectors /\ NumberAt \in 0 .. 15 /\ DdcAt \in 0 .. 15
         /\ table[i] \in Entries
<1>1. table[i] \in Entry
  BY ElementOfSeq
<1> QED BY <1>1 DEF Entry, TypeAt, NumberAt, DdcAt, Entries

LEMMA EntryRead ==
  ASSUME outputs \in Seq(Output), SharedInv, table \in Seq(Entry), i \in 1 .. Len(table),
         ReadEntry
  PROVE  \/ Passes /\ TypeAt \notin Kinds
         \/ /\ Passes /\ TypeAt \in Kinds
            /\ \E k \in 1 .. Len(outputs) : \/ Same(outputs[k], TypeAt, NumberAt)
                                            \/ PanelIsThere(outputs[k], NumberAt)
         \/ \E k \in 1 .. Len(outputs) : Takes(k)
         \/ /\ TypeAt \in Kinds /\ Hits(TypeAt, NumberAt) = {}
            /\ Adds(TypeAt, NumberAt, DdcAt) \/ Fails
<1>1. CASE TypeAt \notin Kinds
  BY <1>1 DEF ReadEntry, TypeAt, Passes
<1>2. CASE TypeAt \in Kinds /\ Hits(TypeAt, NumberAt) # {}
  <2> DEFINE k == CHOOSE h \in Hits(TypeAt, NumberAt) : \A g \in Hits(TypeAt, NumberAt) : h <= g
  <2>1. k \in Hits(TypeAt, NumberAt) /\ \A g \in Hits(TypeAt, NumberAt) : k <= g
    BY <1>2, FirstHit
  <2>2. OutputExist(TypeAt, NumberAt, DdcAt)
    BY <1>2 DEF ReadEntry, TypeAt, NumberAt, DdcAt
  <2>3. /\ IF Same(outputs[k], TypeAt, NumberAt) \/ PanelIsThere(outputs[k], NumberAt)
           THEN UNCHANGED outputs ELSE TakeOver(k, DdcAt)
        /\ UNCHANGED <<buses, failures>>
    BY <2>2 DEF OutputExist
  <2> HIDE DEF k
  <2>4. k \in 1 .. Len(outputs)
    BY <2>1 DEF Hits
  <2>5. CASE Same(outputs[k], TypeAt, NumberAt) \/ PanelIsThere(outputs[k], NumberAt)
    BY <1>2, <2>3, <2>4, <2>5 DEF Passes
  <2>6. CASE ~(Same(outputs[k], TypeAt, NumberAt) \/ PanelIsThere(outputs[k], NumberAt))
    <3>1. PanelTakesOver(outputs[k], TypeAt)
      BY <2>1, <2>6 DEF Hits
    <3>2. \A h \in 1 .. Len(outputs) : outputs[h].number >= 1 => k <= h
      BY <2>1, <3>1 DEF Hits, PanelTakesOver
    <3> QED BY <2>3, <2>4, <2>6, <3>1, <3>2 DEF Takes, PanelTakesOver
  <2> QED BY <2>5, <2>6
<1>3. CASE TypeAt \in Kinds /\ Hits(TypeAt, NumberAt) = {}
  <2>1. <<TypeAt, NumberAt>> \notin buses
    BY <1>3, EntryAt, NameIsFree
  <2>2. OutputInit(TypeAt, NumberAt, DdcAt)
    BY <1>3 DEF ReadEntry, TypeAt, NumberAt, DdcAt
  <2> QED BY <1>3, <2>1, <2>2 DEF OutputInit, Adds, NewOutput, Fails
<1> QED BY <1>1, <1>2, <1>3

(* One turn of the second loop: nothing, or the VGA output of a DVI-I one. *)
LEMMA Paired ==
  ASSUME PairDvi, pc = "pair"
  PROVE  \/ Passes \/ Fails
         \/ /\ i \in 1 .. Len(outputs) => outputs[i].type = "DVI-I"
            /\ Adds("VGA", outputs[i].number, outputs[i].ddc)
BY DEF PairDvi, OutputInit, Passes, Fails, Adds, NewOutput

-----------------------------------------------------------------------------
(* Each action keeps the types and the conditions on the outputs.          *)
LEMMA TypeFacts ==
  ASSUME TypeOK, SharedInv
  PROVE  /\ outputs \in Seq(Output) /\ Len(outputs) \in Nat
         /\ table \in Seq(Entry) /\ Len(table) \in Nat /\ i \in Nat \ {0}
BY LenProperties DEF TypeOK, Output, SharedInv, LoopInv

(* The conditions that tell only of the outputs stay when those do.        *)
LEMMA SameOutputs ==
  ASSUME SharedInv, outputs' = outputs, buses' = buses, table' = table
  PROVE  OriginInv' /\ BusesAreOwned' /\ PanelAlone' /\ PanelLeads' /\ ListedInv'
<1>1. OriginInv' /\ BusesAreOwned'
  BY DEF SharedInv, OriginInv, BusesAreOwned, CreatedAs
<1>2. PanelAlone' /\ PanelLeads'
  BY DEF SharedInv, PanelAlone, PanelLeads, CreatedAs
<1>3. ListedInv'
  BY DEF SharedInv, ListedInv, Entries
<1> QED BY <1>1, <1>2, <1>3

(* Of no output at all everything is true.                                 *)
LEMMA NoOutputs ==
  ASSUME outputs = <<>>, buses = {}, outputs' = <<>>, buses' = {}
  PROVE  OriginInv' /\ BusesAreOwned' /\ PanelAlone' /\ PanelLeads' /\ ListedInv'
<1>1. 1 .. Len(outputs') = {}
  <2>1. Len(<<>>) = 0
    BY EmptySeq
  <2> QED BY <2>1
<1> QED BY <1>1 DEF OriginInv, BusesAreOwned, PanelAlone, PanelLeads, ListedInv

LEMMA BiosKeeps ==
  ASSUME TypeOK, SharedInv, GetBIOSInfo
  PROVE  TypeOK' /\ SharedInv'
<1>1. i = 1 /\ table = <<>> /\ outputs = <<>> /\ buses = {}
  <2>1. i = 1 /\ table = <<>> /\ outputs = <<>>
    BY DEF SharedInv, LoopInv, GetBIOSInfo
  <2>2. 1 .. Len(outputs) = {}
    BY <2>1, EmptySeq
  <2> QED BY <2>1, <2>2 DEF SharedInv, BusesAreOwned
<1>2. table' \in Seq(Entry)
  BY <1>1, EmptySeq, OutputsAssumption DEF GetBIOSInfo, Entry
<1>3. Len(table') \in Nat /\ Len(outputs) = 0
  BY <1>1, <1>2, LenProperties, EmptySeq
<1>4. TypeOK'
  BY <1>1, <1>3 DEF TypeOK, GetBIOSInfo
<1>5. LoopInv'
  BY <1>1, <1>2, <1>3 DEF LoopInv, GetBIOSInfo
<1>6. OriginInv' /\ BusesAreOwned' /\ PanelAlone' /\ PanelLeads' /\ ListedInv'
  BY <1>1, NoOutputs DEF GetBIOSInfo
<1> QED BY <1>4, <1>5, <1>6 DEF SharedInv

LEMMA ReadKeeps ==
  ASSUME TypeOK, SharedInv, ReadEntry
  PROVE  TypeOK' /\ SharedInv'
<1>1. /\ outputs \in Seq(Output) /\ Len(outputs) \in Nat
      /\ table \in Seq(Entry) /\ Len(table) \in Nat /\ i \in 1 .. Len(table)
  BY TypeFacts DEF ReadEntry
<1>2. pc = "table" /\ i' = i + 1 /\ pc' = pc /\ table' = table /\ status' = status
  BY DEF ReadEntry
<1>3. /\ TypeAt \in Connectors /\ NumberAt \in 0 .. 15 /\ DdcAt \in 0 .. 15
      /\ table[i] \in Entries
  BY <1>1, EntryAt
<1>4. ASSUME outputs' \in Seq(Output), Len(outputs') >= Len(outputs),
             buses' \subseteq Kinds \X (0 .. 15), failures' \in 0 .. MaxFailures,
             OriginInv', BusesAreOwned', PanelAlone', PanelLeads', ListedInv'
      PROVE  TypeOK' /\ SharedInv'
  <2>1. Len(outputs') \in Nat
    BY <1>4, LenProperties
  <2>2. TypeOK'
    BY <1>1, <1>2, <1>4, <2>1 DEF TypeOK, Output
  <2>3. LoopInv'
    BY <1>1, <1>2 DEF LoopInv
  <2> QED BY <1>4, <2>2, <2>3 DEF SharedInv
<1>5. CASE Passes \/ Fails
  <2>1. OriginInv' /\ BusesAreOwned' /\ PanelAlone' /\ PanelLeads' /\ ListedInv'
    BY <1>2, <1>5, SameOutputs DEF Passes, Fails
  <2>2. failures' \in 0 .. MaxFailures
    BY <1>5, OutputsAssumption DEF Passes, Fails, TypeOK
  <2>3. outputs' = outputs /\ buses' = buses /\ buses \subseteq Kinds \X (0 .. 15)
    BY <1>5 DEF Passes, Fails, TypeOK
  <2> QED BY <1>1, <1>4, <2>1, <2>2, <2>3
<1>6. ASSUME NEW k \in 1 .. Len(outputs), Takes(k) PROVE TypeOK' /\ SharedInv'
  <2>1. \E e \in Entries : e.type = "LFP"
    BY <1>3, <1>6 DEF Takes, TypeAt
  <2>2. OriginInv' /\ BusesAreOwned' /\ PanelAlone' /\ PanelLeads' /\ ListedInv'
    BY <1>1, <1>2, <1>3, <1>6, <2>1, TakeOverKeeps, Zenon DEF Takes
  <2>3. outputs' \in Seq(Output) /\ Len(outputs') = Len(outputs)
    BY <1>1, <1>3, <1>6, TakenOutputs, Zenon DEF Takes
  <2>4. buses' = buses /\ failures' = failures
    BY <1>6 DEF Takes
  <2> QED BY <1>1, <1>4, <2>2, <2>3, <2>4 DEF TypeOK
<1>7. CASE TypeAt \in Kinds /\ Hits(TypeAt, NumberAt) = {} /\ Adds(TypeAt, NumberAt, DdcAt)
  <2>1. TypeAt = "LFP" => /\ NumberAt = 1
                          /\ \A k \in 1 .. Len(outputs) : outputs[k].number = 0
                          /\ \E e \in Entries : e.type = "LFP"
    <3> SUFFICES ASSUME TypeAt = "LFP"
                 PROVE  /\ NumberAt = 1
                        /\ \A k \in 1 .. Len(outputs) : outputs[k].number = 0
                        /\ \E e \in Entries : e.type = "LFP"
      OBVIOUS
    <3>1. \A k \in 1 .. Len(outputs) : outputs[k].number \in 0 .. 15
      BY <1>1, OutputFields, ElementOfSeq
    <3>2. \A k \in 1 .. Len(outputs) : ~(outputs[k].number >= 1)
      BY <1>7 DEF Hits, PanelTakesOver
    <3> QED BY <1>3, <3>1, <3>2, SMTT(30) DEF NumberAt, TypeAt
  <2>2. NumberAt >= 1 => \A k \in 1 .. Len(outputs) : CreatedAs(outputs[k]) # "LFP"
    <3> SUFFICES ASSUME NumberAt >= 1, NEW k \in 1 .. Len(outputs),
                        CreatedAs(outputs[k]) = "LFP"
                 PROVE  FALSE
      OBVIOUS
    <3>1. outputs[k].type = "LFP"
      BY DEF SharedInv, OriginInv
    <3>2. k \in Hits(TypeAt, NumberAt)
      BY <3>1 DEF Hits, PanelIsThere
    <3> QED BY <1>7, <3>2
  <2>3. (\A e \in Entries : e.number <= 1) => NumberAt <= 1
    BY <1>3 DEF NumberAt
  <2>4. OriginInv' /\ BusesAreOwned' /\ PanelAlone' /\ PanelLeads' /\ ListedInv'
    BY <1>1, <1>2, <1>3, <1>7, <2>1, <2>2, <2>3, AddKeeps
  <2>5. outputs' \in Seq(Output) /\ Len(outputs') = Len(outputs) + 1
    BY <1>1, <1>3, <1>7, AddedOutputs
  <2>6. buses' \subseteq Kinds \X (0 .. 15) /\ failures' \in 0 .. MaxFailures
    BY <1>3, <1>7, AddedBuses DEF TypeOK
  <2> QED BY <1>1, <1>4, <2>4, <2>5, <2>6
<1> QED BY <1>1, <1>5, <1>6, <1>7, EntryRead

LEMMA PairKeeps ==
  ASSUME TypeOK, SharedInv, PairDvi
  PROVE  TypeOK' /\ SharedInv'
<1>1. /\ outputs \in Seq(Output) /\ Len(outputs) \in Nat
      /\ table \in Seq(Entry) /\ Len(table) \in Nat /\ i \in 1 .. Len(outputs)
  BY TypeFacts DEF PairDvi
<1>2. pc = "pair" /\ i' = i + 1 /\ pc' = pc /\ table' = table /\ status' = status
  BY DEF PairDvi
<1>3. ASSUME outputs' \in Seq(Output), Len(outputs') >= Len(outputs),
             buses' \subseteq Kinds \X (0 .. 15), failures' \in 0 .. MaxFailures,
             OriginInv', BusesAreOwned', PanelAlone', PanelLeads', ListedInv'
      PROVE  TypeOK' /\ SharedInv'
  <2>1. Len(outputs') \in Nat
    BY <1>3, LenProperties
  <2>2. TypeOK'
    BY <1>1, <1>2, <1>3, <2>1 DEF TypeOK, Output
  <2>3. LoopInv'
    BY <1>1, <1>2, <1>3, <2>1 DEF LoopInv
  <2> QED BY <1>3, <2>2, <2>3 DEF SharedInv
<1>4. CASE Passes \/ Fails
  <2>1. OriginInv' /\ BusesAreOwned' /\ PanelAlone' /\ PanelLeads' /\ ListedInv'
    BY <1>2, <1>4, SameOutputs DEF Passes, Fails
  <2>2. failures' \in 0 .. MaxFailures
    BY <1>4, OutputsAssumption DEF Passes, Fails, TypeOK
  <2>3. outputs' = outputs /\ buses' = buses /\ buses \subseteq Kinds \X (0 .. 15)
    BY <1>4 DEF Passes, Fails, TypeOK
  <2> QED BY <1>1, <1>3, <2>1, <2>2, <2>3
<1>5. ASSUME NEW number, NEW ddc, number = outputs[i].number, ddc = outputs[i].ddc,
             outputs[i].type = "DVI-I", Adds("VGA", number, ddc)
      PROVE  TypeOK' /\ SharedInv'
  <2>1. number \in 0 .. 15 /\ ddc \in 0 .. 15 /\ "VGA" \in Kinds
    BY <1>1, <1>5, OutputFields, ElementOfSeq DEF Kinds
  <2>2. CreatedAs(outputs[i]) = "DVI-I"
    BY <1>1, <1>5 DEF SharedInv, OriginInv
  <2>3. number >= 1 => \A k \in 1 .. Len(outputs) : CreatedAs(outputs[k]) # "LFP"
    BY <1>1, <1>5, <2>2 DEF SharedInv, PanelAlone
  <2>4. (\A e \in Entries : e.number <= 1) => number <= 1
    BY <1>1, <1>5 DEF SharedInv, ListedInv
  <2>5. OriginInv' /\ BusesAreOwned' /\ PanelAlone' /\ PanelLeads' /\ ListedInv'
    BY <1>1, <1>2, <1>5, <2>1, <2>3, <2>4, AddKeeps
  <2>6. outputs' \in Seq(Output) /\ Len(outputs') = Len(outputs) + 1
    BY <1>1, <1>5, <2>1, AddedOutputs
  <2>7. buses' \subseteq Kinds \X (0 .. 15) /\ failures' \in 0 .. MaxFailures
    BY <1>5, <2>1, AddedBuses DEF TypeOK
  <2> QED BY <1>1, <1>3, <2>5, <2>6, <2>7
<1> QED BY <1>1, <1>2, <1>4, <1>5, Paired

LEMMA MasksTypes ==
  ASSUME TypeOK, SharedInv, SetMasks
  PROVE  TypeOK' /\ SharedInv'
<1>1. outputs \in Seq(Output) /\ outputs' \in Seq(Output) /\ Len(outputs') = Len(outputs)
  BY TypeFacts, MaskedOutputs
<1>2. OriginInv' /\ BusesAreOwned' /\ PanelAlone' /\ PanelLeads' /\ ListedInv'
  BY <1>1, MasksKeep
<1>3. TypeOK'
  BY <1>1 DEF TypeOK, SetMasks, Output
<1>4. LoopInv'
  BY DEF SharedInv, LoopInv, SetMasks
<1> QED BY <1>2, <1>3, <1>4 DEF SharedInv

LEMMA DetectTypes ==
  ASSUME TypeOK, SharedInv, Detect
  PROVE  TypeOK' /\ SharedInv'
<1>1. OriginInv' /\ BusesAreOwned' /\ PanelAlone' /\ PanelLeads' /\ ListedInv'
  BY SameOutputs DEF Detect
<1>2. status' \in Seq({"Unknown", "Connected", "Disconnected"})
  <2>1. PICK d \in {0} \cup {outputs[k].ddc : k \in 1 .. Len(outputs)}, e \in Edids :
          \E F \in SUBSET {k \in 1 .. Len(outputs) : outputs[k].ddc = d} :
            status' = [k \in 1 .. Len(outputs) |->
                         Answer(outputs[k].driver,
                                IF outputs[k].ddc = d /\ k \notin F THEN e ELSE "none")]
    BY DEF Detect
  <2>2. PICK F \in SUBSET {k \in 1 .. Len(outputs) : outputs[k].ddc = d} :
          status' = [k \in 1 .. Len(outputs) |->
                       Answer(outputs[k].driver,
                              IF outputs[k].ddc = d /\ k \notin F THEN e ELSE "none")]
    BY <2>1
  <2>3. \A driver \in Driver, f \in Edids :
          Answer(driver, f) \in {"Unknown", "Connected", "Disconnected"}
    BY DEF Driver, Edids, Answer, DetectDac, DetectTmds
  <2>4. \A k \in 1 .. Len(outputs) :
          /\ outputs[k].driver \in Driver
          /\ (IF outputs[k].ddc = d /\ k \notin F THEN e ELSE "none") \in Edids
    BY TypeFacts, OutputFields, ElementOfSeq DEF Edids
  <2>5. Len(outputs) \in Nat
    BY TypeFacts
  <2> DEFINE answer(k) == Answer(outputs[k].driver,
                                 IF outputs[k].ddc = d /\ k \notin F THEN e ELSE "none")
  <2>6. \A k \in 1 .. Len(outputs) : answer(k) \in {"Unknown", "Connected", "Disconnected"}
    BY <2>3, <2>4
  <2>7. status' = [k \in 1 .. Len(outputs) |-> answer(k)]
    BY <2>2
  <2> HIDE DEF answer
  <2> QED BY <2>5, <2>6, <2>7
<1>3. TypeOK'
  BY <1>2 DEF TypeOK, Detect
<1>4. LoopInv'
  BY DEF SharedInv, LoopInv, Detect
<1> QED BY <1>1, <1>3, <1>4 DEF SharedInv

LEMMA SharedStep == TypeOK /\ SharedInv /\ [Next]_vars => TypeOK' /\ SharedInv'
<1> SUFFICES ASSUME TypeOK, SharedInv, [Next]_vars PROVE TypeOK' /\ SharedInv'
  OBVIOUS
<1>1. CASE GetBIOSInfo
  BY <1>1, BiosKeeps
<1>2. CASE ReadEntry
  BY <1>2, ReadKeeps
<1>3. CASE TableRead
  <2>1. OriginInv' /\ BusesAreOwned' /\ PanelAlone' /\ PanelLeads' /\ ListedInv'
    BY <1>3, SameOutputs DEF TableRead
  <2>2. TypeOK' /\ LoopInv'
    BY <1>3, TypeFacts DEF TypeOK, SharedInv, LoopInv, TableRead
  <2> QED BY <2>1, <2>2 DEF SharedInv
<1>4. CASE PairDvi
  BY <1>4, PairKeeps
<1>5. CASE SetMasks
  BY <1>5, MasksTypes
<1>6. CASE Detect
  BY <1>6, DetectTypes
<1>7. CASE Finished \/ UNCHANGED vars
  <2>1. UNCHANGED vars
    BY <1>7 DEF Finished
  <2>2. OriginInv' /\ BusesAreOwned' /\ PanelAlone' /\ PanelLeads' /\ ListedInv'
    BY <2>1, SameOutputs DEF vars
  <2>3. TypeOK' /\ LoopInv'
    BY <2>1 DEF vars, TypeOK, SharedInv, LoopInv
  <2> QED BY <2>2, <2>3 DEF SharedInv
<1> QED BY <1>1, <1>2, <1>3, <1>4, <1>5, <1>6, <1>7 DEF Next

-----------------------------------------------------------------------------
(* A connector that is served stays so: an output changes its type only    *)
(* for a panel, and only with a number above 0.                            *)
Stay ==
  /\ Len(outputs) <= Len(outputs')
  /\ \A h \in 1 .. Len(outputs) :
       /\ outputs'[h].number = outputs[h].number
       /\ outputs'[h].bus = outputs[h].bus
       /\ \/ outputs'[h].type = outputs[h].type
          \/ /\ outputs'[h].type = "LFP" /\ outputs[h].number >= 1
             /\ \E f \in Entries : f.type = "LFP"

LEMMA StaysServed ==
  ASSUME TypeOK, SharedInv, table' = table, Stay, Len(outputs') \in Nat,
         NEW k \in 1 .. Len(table), Served(k)
  PROVE  Served(k)'
<1> DEFINE e == table[k]
<1>1. Len(outputs) \in Nat /\ e \in Entries
  BY TypeFacts DEF Entries
<1>2. Entries' = Entries
  BY DEF Entries
<1>3. ASSUME e.type \in {"VGA", "DVI-I"}, e.number = 0 \/ \A f \in Entries : f.type # "LFP"
      PROVE  \E h \in 1 .. Len(outputs') : outputs'[h].number = e.number /\ outputs'[h].type = e.type
  <2>1. PICK h \in 1 .. Len(outputs) : outputs[h].number = e.number /\ outputs[h].type = e.type
    BY <1>3 DEF Served, Same
  <2>2. outputs'[h].number = outputs[h].number /\ outputs'[h].type = outputs[h].type
    BY <1>3, <2>1 DEF Stay
  <2> QED BY <1>1, <2>1, <2>2 DEF Stay
<1>4. ASSUME e.type = "LFP"
      PROVE  \E h \in 1 .. Len(outputs') : outputs'[h].type = "LFP"
  <2>1. PICK h \in 1 .. Len(outputs) : outputs[h].type = "LFP"
    BY <1>4 DEF Served
  <2>2. outputs'[h].type = "LFP"
    BY <2>1 DEF Stay
  <2> QED BY <1>1, <2>1, <2>2 DEF Stay
<1> QED BY <1>2, <1>3, <1>4 DEF Served, Same

(* Every action but GetBIOSInfo lets the outputs stay.                     *)
LEMMA OutputsStay ==
  ASSUME TypeOK, SharedInv, ReadEntry \/ TableRead \/ PairDvi \/ SetMasks \/ Detect \/ UNCHANGED vars
  PROVE  Stay /\ Len(outputs') \in Nat /\ table' = table
<1>1. table' = table
  BY DEF ReadEntry, TableRead, PairDvi, SetMasks, Detect, vars
<1>2. /\ outputs \in Seq(Output) /\ Len(outputs) \in Nat
      /\ table \in Seq(Entry) /\ Len(table) \in Nat /\ i \in Nat \ {0}
  BY TypeFacts
<1>3. CASE outputs' = outputs
  BY <1>1, <1>2, <1>3 DEF Stay
<1>4. ASSUME NEW type \in Kinds, NEW number \in 0 .. 15, NEW ddc \in 0 .. 15,
             Adds(type, number, ddc)
      PROVE  Stay /\ Len(outputs') \in Nat
  <2>1. /\ Len(outputs') = Len(outputs) + 1
        /\ \A h \in 1 .. Len(outputs) : outputs'[h] = outputs[h]
    BY <1>2, <1>4, AddedOutputs
  <2> QED BY <1>2, <2>1 DEF Stay
<1>5. CASE ReadEntry
  <2>1. i \in 1 .. Len(table)
    BY <1>2, <1>5 DEF ReadEntry
  <2>2. /\ TypeAt \in Connectors /\ NumberAt \in 0 .. 15 /\ DdcAt \in 0 .. 15
        /\ table[i] \in Entries
    BY <1>2, <2>1, EntryAt
  <2>3. ASSUME NEW k \in 1 .. Len(outputs), Takes(k) PROVE Stay /\ Len(outputs') \in Nat
    <3>1. /\ Len(outputs') = Len(outputs)
          /\ \A h \in 1 .. Len(outputs) : h # k => outputs'[h] = outputs[h]
          /\ outputs'[k] = [outputs[k] EXCEPT !.type = "LFP", !.ddc = DdcAt]
      BY <1>2, <2>2, <2>3, TakenOutputs, Zenon DEF Takes
    <3>2. /\ outputs'[k].type = "LFP" /\ outputs'[k].number = outputs[k].number
          /\ outputs'[k].bus = outputs[k].bus
      BY <1>2, <3>1, TakenFields, ElementOfSeq
    <3>3. \E f \in Entries : f.type = "LFP"
      BY <2>2, <2>3 DEF Takes, TypeAt
    <3>4. outputs[k].number >= 1
      BY <2>3 DEF Takes
    <3>5. ASSUME NEW h \in 1 .. Len(outputs)
          PROVE  /\ outputs'[h].number = outputs[h].number /\ outputs'[h].bus = outputs[h].bus
                 /\ \/ outputs'[h].type = outputs[h].type
                    \/ outputs'[h].type = "LFP" /\ outputs[h].number >= 1
      <4>1. CASE h # k
        BY <3>1, <4>1
      <4>2. CASE h = k
        BY <3>2, <3>4, <4>2
      <4> QED BY <4>1, <4>2
    <3>6. Len(outputs) <= Len(outputs') /\ Len(outputs') \in Nat
      BY <1>2, <3>1
    <3> QED BY <3>3, <3>5, <3>6 DEF Stay
  <2>4. \/ outputs' = outputs
        \/ \E k \in 1 .. Len(outputs) : Takes(k)
        \/ TypeAt \in Kinds /\ Adds(TypeAt, NumberAt, DdcAt)
    BY <1>2, <1>5, <2>1, EntryRead DEF Passes, Fails
  <2> QED BY <1>1, <1>3, <1>4, <2>2, <2>3, <2>4
<1>6. CASE PairDvi
  <2>1. i \in 1 .. Len(outputs) /\ pc = "pair"
    BY <1>2, <1>6 DEF PairDvi
  <2>2. outputs[i].number \in 0 .. 15 /\ outputs[i].ddc \in 0 .. 15 /\ "VGA" \in Kinds
    BY <1>2, <2>1, OutputFields, ElementOfSeq DEF Kinds
  <2>3. outputs' = outputs \/ Adds("VGA", outputs[i].number, outputs[i].ddc)
    BY <1>6, <2>1, Paired DEF Passes, Fails
  <2> QED BY <1>1, <1>3, <1>4, <2>2, <2>3
<1>7. CASE SetMasks
  <2>1. Len(outputs') = Len(outputs)
    BY <1>2, <1>7, MaskedOutputs
  <2>2. \A h \in 1 .. Len(outputs) :
          /\ outputs'[h].number = outputs[h].number /\ outputs'[h].bus = outputs[h].bus
          /\ outputs'[h].type = outputs[h].type
    BY <1>2, <1>7, MaskedOutputs, MaskedFields, ElementOfSeq
  <2> QED BY <1>1, <1>2, <2>1, <2>2 DEF Stay
<1>8. CASE TableRead \/ Detect \/ UNCHANGED vars
  <2>1. outputs' = outputs
    BY <1>8 DEF TableRead, Detect, vars
  <2> QED BY <1>1, <1>3, <2>1
<1> QED BY <1>5, <1>6, <1>7, <1>8

(* The entry the loop is at is served when nothing fails.                  *)
LEMMA EntryServed ==
  ASSUME TypeOK, SharedInv, ReadEntry, failures' = 0, NEW k \in Nat, k = i
  PROVE  Served(k)'
<1>1. /\ outputs \in Seq(Output) /\ Len(outputs) \in Nat
      /\ table \in Seq(Entry) /\ Len(table) \in Nat /\ i \in 1 .. Len(table)
  BY TypeFacts DEF ReadEntry
<1>2. /\ TypeAt \in Connectors /\ NumberAt \in 0 .. 15 /\ DdcAt \in 0 .. 15
      /\ table[i] \in Entries
  BY <1>1, EntryAt
<1>3. Stay /\ Len(outputs') \in Nat /\ table' = table /\ Entries' = Entries
  BY OutputsStay DEF Entries
<1>4. ~Fails
  BY DEF Fails, TypeOK
<1> DEFINE G(h) ==
      /\ (TypeAt \in {"VGA", "DVI-I"} /\ (NumberAt = 0 \/ \A f \in Entries : f.type # "LFP")) =>
           outputs'[h].number = NumberAt /\ outputs'[h].type = TypeAt
      /\ TypeAt = "LFP" => outputs'[h].type = "LFP"
<1>5. TypeAt \in Kinds => \E h \in 1 .. Len(outputs') : G(h)
  <2> SUFFICES ASSUME TypeAt \in Kinds PROVE \E h \in 1 .. Len(outputs') : G(h)
    OBVIOUS
  <2>1. ASSUME Passes, NEW g \in 1 .. Len(outputs),
               Same(outputs[g], TypeAt, NumberAt) \/ PanelIsThere(outputs[g], NumberAt)
        PROVE  \E h \in 1 .. Len(outputs') : G(h)
    <3>1. outputs' = outputs
      BY <2>1 DEF Passes
    <3>2. CASE Same(outputs[g], TypeAt, NumberAt)
      BY <3>1, <3>2 DEF Same
    <3>3. CASE PanelIsThere(outputs[g], NumberAt)
      <4>1. outputs[g].type = "LFP" /\ NumberAt # 0 /\ \E f \in Entries : f.type = "LFP"
        BY <1>2, <3>3 DEF PanelIsThere, SharedInv, ListedInv
      <4> QED BY <3>1, <4>1
    <3> QED BY <2>1, <3>2, <3>3
  <2>2. ASSUME NEW g \in 1 .. Len(outputs), Takes(g)
        PROVE  \E h \in 1 .. Len(outputs') : G(h)
    <3>1. outputs'[g].type = "LFP" /\ g \in 1 .. Len(outputs') /\ TypeAt = "LFP"
      <4>1. TakeOver(g, DdcAt) /\ TypeAt = "LFP"
        BY <2>2, Zenon DEF Takes
      <4>2. /\ Len(outputs') = Len(outputs)
            /\ outputs'[g] = [outputs[g] EXCEPT !.type = "LFP", !.ddc = DdcAt]
        BY <1>1, <1>2, <4>1, TakenOutputs, Zenon
      <4>3. outputs'[g].type = "LFP"
        BY <1>1, <4>2, TakenFields, ElementOfSeq
      <4> QED BY <4>1, <4>2, <4>3
    <3> QED BY <3>1
  <2>3. CASE Adds(TypeAt, NumberAt, DdcAt)
    <3>1. /\ Len(outputs) + 1 \in 1 .. Len(outputs')
          /\ outputs'[Len(outputs) + 1] = NewOutput(TypeAt, NumberAt, DdcAt)
      <4>1. /\ Len(outputs') = Len(outputs) + 1
            /\ outputs'[Len(outputs) + 1] = NewOutput(TypeAt, NumberAt, DdcAt)
        BY <1>1, <1>2, <2>3, AddedOutputs
      <4> QED BY <1>1, <4>1
    <3>2. G(Len(outputs) + 1)
      BY <3>1, NewFields
    <3> QED BY <3>1, <3>2
  <2> QED BY <1>1, <1>4, <2>1, <2>2, <2>3, EntryRead
<1>6. TypeAt = table[i].type /\ (TypeAt # "LFP" => NumberAt = table[i].number)
  BY DEF TypeAt, NumberAt
<1>7. ASSUME table[i].type \in {"VGA", "DVI-I"},
             table[i].number = 0 \/ \A f \in Entries : f.type # "LFP"
      PROVE  \E h \in 1 .. Len(outputs') :
               outputs'[h].number = table[i].number /\ outputs'[h].type = table[i].type
  BY <1>5, <1>6, <1>7 DEF Kinds
<1>8. ASSUME table[i].type = "LFP"
      PROVE  \E h \in 1 .. Len(outputs') : outputs'[h].type = "LFP"
  BY <1>5, <1>6, <1>8 DEF Kinds
<1> HIDE DEF G
<1>9. table'[k] = table[i]
  BY <1>3
<1> QED BY <1>3, <1>7, <1>8, <1>9 DEF Served, Same

(* What has been read is served, entry by entry.                           *)
LEMMA ServedStep ==
  TypeOK /\ SharedInv /\ ServedInv /\ [Next]_vars => ServedInv'
<1> SUFFICES ASSUME TypeOK, SharedInv, ServedInv, [Next]_vars,
                    failures' = 0, pc' # "failed",
                    NEW k \in 1 .. Len(table'), Read(k)'
             PROVE  Served(k)'
  BY DEF ServedInv
<1>1. Len(table) \in Nat /\ i \in Nat \ {0}
  BY TypeFacts
<1>2. CASE GetBIOSInfo
  <2>1. i' = 1 /\ (pc' = "done" => table' = <<>>)
    BY <1>2 DEF GetBIOSInfo, SharedInv, LoopInv
  <2>2. k \in Nat \ {0} /\ (table' = <<>> => Len(table') = 0)
    BY EmptySeq
  <2> QED BY <1>2, <2>1, <2>2 DEF GetBIOSInfo, Read
<1>3. CASE ReadEntry \/ TableRead \/ PairDvi \/ SetMasks \/ Detect \/ UNCHANGED vars
  <2>1. Stay /\ Len(outputs') \in Nat /\ table' = table
    BY <1>3, OutputsStay
  <2>2. ASSUME Read(k), failures = 0, pc # "failed"
        PROVE  Served(k)'
    <3>1. Served(k) /\ k \in 1 .. Len(table)
      BY <2>1, <2>2 DEF ServedInv
    <3> QED BY <2>1, <3>1, StaysServed
  <2>3. failures = 0
    <3>1. failures \in Nat /\ (failures' = failures \/ failures' = failures + 1)
      BY <1>3 DEF TypeOK, ReadEntry, TableRead, PairDvi, SetMasks, Detect, vars, OutputInit,
                  OutputExist
    <3> QED BY <3>1
  <2>4. CASE ReadEntry
    <3>1. CASE k = i
      BY <1>1, <2>4, <3>1, EntryServed
    <3>2. CASE k # i
      <4>1. pc = "table" /\ pc' = "table" /\ i' = i + 1
        BY <2>4 DEF ReadEntry
      <4>2. Read(k)
        BY <1>1, <2>1, <3>2, <4>1 DEF Read
      <4> QED BY <2>2, <2>3, <4>1, <4>2
    <3> QED BY <3>1, <3>2
  <2>5. CASE TableRead
    <3>1. Read(k) /\ pc = "table"
      BY <1>1, <2>1, <2>5 DEF TableRead, Read
    <3> QED BY <2>2, <2>3, <3>1
  <2>6. CASE PairDvi \/ SetMasks \/ Detect
    <3>1. Read(k) /\ pc # "failed"
      BY <2>1, <2>6 DEF PairDvi, SetMasks, Detect, Read
    <3> QED BY <2>2, <2>3, <3>1
  <2>7. CASE UNCHANGED vars
    <3>1. Read(k) /\ pc # "failed"
      BY <2>7 DEF vars, Read
    <3> QED BY <2>2, <2>3, <3>1
  <2> QED BY <1>3, <2>4, <2>5, <2>6, <2>7
<1>4. CASE Finished
  BY <1>3, <1>4 DEF Finished
<1> QED BY <1>2, <1>3, <1>4 DEF Next

(* A new output with a number above 0 is the panel, when one comes first.  *)
LEMMA CreatedStep ==
  TypeOK /\ SharedInv /\ ServedInv /\ PanelCreated /\ [Next]_vars => PanelCreated'
<1> SUFFICES ASSUME TypeOK, SharedInv, ServedInv, PanelCreated, [Next]_vars,
                    failures' = 0, PanelFirst',
                    NEW k \in 1 .. Len(outputs'), outputs'[k].number >= 1
             PROVE  CreatedAs(outputs'[k]) = "LFP"
  BY DEF PanelCreated, CreatedAs
<1>1. /\ outputs \in Seq(Output) /\ Len(outputs) \in Nat
      /\ table \in Seq(Entry) /\ Len(table) \in Nat /\ i \in Nat \ {0}
  BY TypeFacts
<1>2. CASE GetBIOSInfo
  <2>1. outputs' = <<>>
    BY <1>2 DEF GetBIOSInfo, SharedInv, LoopInv
  <2>2. Len(<<>>) = 0
    BY EmptySeq
  <2> QED BY <2>1, <2>2
<1>3. CASE ReadEntry \/ TableRead \/ PairDvi \/ SetMasks \/ Detect \/ UNCHANGED vars
  <2>1. Stay /\ Len(outputs') \in Nat /\ table' = table
    BY <1>3, OutputsStay
  <2>2. failures = 0
    <3>1. failures \in Nat /\ (failures' = failures \/ failures' = failures + 1)
      BY <1>3 DEF TypeOK, ReadEntry, TableRead, PairDvi, SetMasks, Detect, vars, OutputInit,
                  OutputExist
    <3> QED BY <3>1
  <2>3. PanelFirst
    BY <2>1 DEF PanelFirst
  <2>4. ASSUME k \in 1 .. Len(outputs) PROVE CreatedAs(outputs'[k]) = "LFP"
    <3>1. outputs'[k].number = outputs[k].number /\ outputs'[k].bus = outputs[k].bus
      BY <2>1, <2>4 DEF Stay
    <3>2. CreatedAs(outputs[k]) = "LFP"
      BY <2>2, <2>3, <2>4, <3>1 DEF PanelCreated
    <3> QED BY <3>1, <3>2 DEF CreatedAs
  <2>5. ASSUME NEW type \in Kinds, NEW number \in 0 .. 15, NEW ddc \in 0 .. 15,
               Adds(type, number, ddc), number >= 1 => type = "LFP"
        PROVE  CreatedAs(outputs'[k]) = "LFP"
    <3>1. /\ Len(outputs') = Len(outputs) + 1
          /\ outputs'[Len(outputs) + 1] = NewOutput(type, number, ddc)
      BY <1>1, <2>5, AddedOutputs
    <3>2. CASE k = Len(outputs) + 1
      <4>1. outputs'[k].number = number /\ CreatedAs(outputs'[k]) = type
        BY <3>1, <3>2, NewFields
      <4> QED BY <2>5, <4>1
    <3> QED BY <1>1, <2>4, <3>1, <3>2
  <2>6. ASSUME ReadEntry, TypeAt \in Kinds, Hits(TypeAt, NumberAt) = {},
               NumberAt >= 1, TypeAt # "LFP"
        PROVE  FALSE
    <3>1. i \in 1 .. Len(table) /\ pc = "table"
      BY <1>1, <2>6 DEF ReadEntry
    <3>2. PICK p \in 1 .. Len(table) :
            /\ table[p].type = "LFP"
            /\ \A h \in 1 .. p - 1 : table[h].type \in Kinds => table[h].number = 0
      BY <2>3 DEF PanelFirst
    <3>3. table[i].type \in Kinds /\ table[i].number = NumberAt /\ table[i].type # "LFP"
      BY <2>6 DEF TypeAt, NumberAt
    <3>4. p < i
      <4>1. p # i
        BY <3>2, <3>3
      <4>2. ~(i \in 1 .. p - 1)
        BY <1>1, <2>6, <3>1, <3>2, <3>3, EntryAt
      <4> QED BY <3>1, <4>1, <4>2
    <3>5. Served(p)
      BY <2>2, <3>1, <3>4 DEF ServedInv, Read
    <3>6. PICK h \in 1 .. Len(outputs) : outputs[h].type = "LFP"
      BY <3>2, <3>5 DEF Served
    <3>7. h \in Hits(TypeAt, NumberAt)
      BY <2>6, <3>6 DEF Hits, PanelIsThere
    <3> QED BY <2>6, <3>7
  <2>7. CASE ReadEntry
    <3>1. i \in 1 .. Len(table)
      BY <1>1, <2>7 DEF ReadEntry
    <3>2. TypeAt \in Connectors /\ NumberAt \in 0 .. 15 /\ DdcAt \in 0 .. 15
      BY <1>1, <3>1, EntryAt
    <3>3. CASE Passes \/ Fails
      BY <2>4, <3>3 DEF Passes, Fails
    <3>4. ASSUME NEW h \in 1 .. Len(outputs), Takes(h) PROVE CreatedAs(outputs'[k]) = "LFP"
      <4>1. Len(outputs') = Len(outputs)
        BY <1>1, <3>2, <3>4, TakenOutputs, Zenon DEF Takes
      <4> QED BY <2>4, <4>1, Zenon
    <3>5. CASE TypeAt \in Kinds /\ Hits(TypeAt, NumberAt) = {} /\ Adds(TypeAt, NumberAt, DdcAt)
      <4>1. NumberAt >= 1 => TypeAt = "LFP"
        BY <2>6, <2>7, <3>5
      <4> QED BY <2>5, <3>2, <3>5, <4>1
    <3> QED BY <1>1, <2>7, <3>1, <3>3, <3>4, <3>5, EntryRead
  <2>8. CASE PairDvi
    <3>1. i \in 1 .. Len(outputs) /\ pc = "pair"
      BY <1>1, <2>8 DEF PairDvi
    <3>2. outputs[i].number \in 0 .. 15 /\ outputs[i].ddc \in 0 .. 15 /\ "VGA" \in Kinds
      BY <1>1, <3>1, OutputFields, ElementOfSeq DEF Kinds
    <3>3. CASE Passes \/ Fails
      BY <2>4, <3>3 DEF Passes, Fails
    <3>4. CASE outputs[i].type = "DVI-I" /\ Adds("VGA", outputs[i].number, outputs[i].ddc)
      <4>1. CreatedAs(outputs[i]) = "DVI-I"
        BY <3>1, <3>4 DEF SharedInv, OriginInv
      <4>2. ~(outputs[i].number >= 1)
        BY <2>2, <2>3, <3>1, <4>1 DEF PanelCreated
      <4> QED BY <2>5, <3>2, <3>4, <4>2
    <3> QED BY <2>8, <3>1, <3>3, <3>4, Paired
  <2>9. CASE SetMasks
    <3>1. Len(outputs') = Len(outputs)
      BY <1>1, <2>9, MaskedOutputs
    <3> QED BY <2>4, <3>1
  <2>10. CASE TableRead \/ Detect \/ UNCHANGED vars
    <3>1. outputs' = outputs
      BY <2>10 DEF TableRead, Detect, vars
    <3> QED BY <2>4, <3>1
  <2> QED BY <1>3, <2>7, <2>8, <2>9, <2>10
<1>4. CASE Finished
  BY <1>3, <1>4 DEF Finished
<1> QED BY <1>2, <1>3, <1>4 DEF Next

(* What the outputs answer: each by its own functions, over its register.  *)
Heard(d, e, F) ==
  \A k \in 1 .. Len(outputs) :
    status'[k] = Answer(outputs[k].driver,
                        IF outputs[k].ddc = d /\ k \notin F THEN e ELSE "none")

LEMMA Answers == Detect => \E d, e, F : Heard(d, e, F)
<1> SUFFICES ASSUME Detect PROVE \E d, e, F : Heard(d, e, F)
  OBVIOUS
<1>1. PICK d \in {0} \cup {outputs[k].ddc : k \in 1 .. Len(outputs)}, e \in Edids :
        \E F \in SUBSET {k \in 1 .. Len(outputs) : outputs[k].ddc = d} :
          status' = [k \in 1 .. Len(outputs) |->
                       Answer(outputs[k].driver,
                              IF outputs[k].ddc = d /\ k \notin F THEN e ELSE "none")]
  BY DEF Detect
<1>2. PICK F \in SUBSET {k \in 1 .. Len(outputs) : outputs[k].ddc = d} :
        status' = [k \in 1 .. Len(outputs) |->
                     Answer(outputs[k].driver,
                            IF outputs[k].ddc = d /\ k \notin F THEN e ELSE "none")]
  BY <1>1
<1>3. Heard(d, e, F)
  BY <1>2 DEF Heard
<1> QED BY <1>3

LEMMA DoneStep ==
  TypeOK /\ SharedInv /\ MaskInv /\ AnswerInv /\ [Next]_vars => MaskInv' /\ AnswerInv'
<1> SUFFICES ASSUME TypeOK, SharedInv, MaskInv, AnswerInv, [Next]_vars
             PROVE  MaskInv' /\ AnswerInv'
  OBVIOUS
<1>1. outputs \in Seq(Output)
  BY TypeFacts
<1>2. CASE GetBIOSInfo
  <2>1. outputs' = <<>> /\ pc' # "detected"
    BY <1>2 DEF GetBIOSInfo, SharedInv, LoopInv
  <2>2. 1 .. Len(outputs') = {}
    BY <2>1, EmptySeq
  <2> QED BY <2>1, <2>2 DEF MaskInv, AnswerInv
<1>3. CASE ReadEntry \/ TableRead \/ PairDvi
  BY <1>3 DEF ReadEntry, TableRead, PairDvi, MaskInv, AnswerInv
<1>4. CASE SetMasks
  <2>1. \A k \in 1 .. Len(outputs) :
          outputs'[k].crtcs = IF outputs'[k].type = "LFP" THEN {1} ELSE {1, 2}
    BY <1>1, <1>4, MaskedOutputs, MaskedFields, ElementOfSeq
  <2>2. Len(outputs') = Len(outputs) /\ pc' = "done"
    BY <1>1, <1>4, MaskedOutputs DEF SetMasks
  <2> QED BY <2>1, <2>2 DEF MaskInv, AnswerInv
<1>5. CASE Detect
  <2>1. outputs' = outputs /\ pc = "done" /\ pc' = "detected"
    BY <1>5 DEF Detect
  <2>2. \A k \in 1 .. Len(outputs) : outputs[k].driver = "lvds" => status'[k] = "Connected"
    BY <1>5, Answers DEF Heard, Answer
  <2> QED BY <2>1, <2>2 DEF MaskInv, AnswerInv
<1>6. CASE Finished \/ UNCHANGED vars
  BY <1>6 DEF Finished, vars, MaskInv, AnswerInv
<1> QED BY <1>2, <1>3, <1>4, <1>5, <1>6 DEF Next

LEMMA OutputsStep == OutputsInv /\ [Next]_vars => OutputsInv'
BY SharedStep, ServedStep, CreatedStep, DoneStep DEF OutputsInv, PanelInv

-----------------------------------------------------------------------------
(* The conditions hold at every moment of avivo_output_setup.              *)
THEOREM OutputsInductive == Spec => []OutputsInv
BY StartsRight, OutputsStep, PTL DEF Spec

(* The outputs, buses and answers have their types.                        *)
THEOREM OutputsTypesCorrect == Spec => []TypeOK
<1>1. OutputsInv => TypeOK
  BY DEF OutputsInv
<1> QED BY <1>1, OutputsInductive, PTL

(* I2CBusList is the outputs' buses at every moment, whatever fails in     *)
(* avivo_output_init and whichever output a panel takes over.              *)
THEOREM NoBusLeaks == Spec => []BusesAreOwned
<1>1. OutputsInv => BusesAreOwned
  BY DEF OutputsInv, SharedInv
<1> QED BY <1>1, OutputsInductive, PTL

(* The block that an output created as type and number programs.           *)
LEMMA BlockOf ==
  ASSUME NEW o, NEW type \in Kinds, NEW number \in 0 .. 1, o.driver = DriverOf(type, number)
  PROVE  /\ type = "VGA" => Block(o) = IF number = 0 THEN "DACA" ELSE "DACB"
         /\ type = "DVI-I" => Block(o) = IF number = 0 THEN "TMDSA" ELSE "LVTMA"
         /\ type = "LFP" => Block(o) = "LVTMA"
<1>1. CASE type = "VGA"
  <2>1. o.driver = IF number = 0 THEN "dac1" ELSE "dac2"
    BY <1>1 DEF DriverOf
  <2> QED BY <1>1, <2>1 DEF Block
<1>2. CASE type = "DVI-I"
  <2>1. o.driver = IF number = 0 THEN "tmds1" ELSE "tmds2"
    BY <1>2 DEF DriverOf
  <2> QED BY <1>2, <2>1 DEF Block
<1>3. CASE type = "LFP"
  <2>1. o.driver = "lvds"
    BY <1>3 DEF DriverOf
  <2> QED BY <1>3, <2>1 DEF Block
<1> QED BY <1>1, <1>2, <1>3 DEF Kinds

(* With connectors numbered 0 and 1 no two outputs program one block.      *)
THEOREM OneOutputPerBlock == Spec => []BlocksNotShared
<1>1. OutputsInv => BlocksNotShared
  <2> SUFFICES ASSUME OutputsInv, \A e \in Entries : e.number <= 1,
                      NEW k \in 1 .. Len(outputs), NEW h \in 1 .. Len(outputs),
                      Block(outputs[k]) = Block(outputs[h])
               PROVE  k = h
    BY DEF BlocksNotShared
  <2>1. /\ outputs[k].driver = DriverOf(CreatedAs(outputs[k]), outputs[k].number)
        /\ outputs[h].driver = DriverOf(CreatedAs(outputs[h]), outputs[h].number)
        /\ CreatedAs(outputs[k]) = "LFP" => outputs[k].number = 1
        /\ CreatedAs(outputs[h]) = "LFP" => outputs[h].number = 1
        /\ outputs[k].bus[2] = outputs[k].number /\ outputs[h].bus[2] = outputs[h].number
    BY DEF OutputsInv, SharedInv, OriginInv
  <2>2. outputs[k].number <= 1 /\ outputs[h].number <= 1
    BY DEF OutputsInv, SharedInv, ListedInv
  <2>3. /\ outputs[k].number \in 0 .. 15 /\ outputs[h].number \in 0 .. 15
        /\ CreatedAs(outputs[k]) \in Kinds /\ CreatedAs(outputs[h]) \in Kinds
    BY TypeFacts, OutputFields, ElementOfSeq DEF OutputsInv, CreatedAs
  <2>4. /\ outputs[k].bus = <<CreatedAs(outputs[k]), outputs[k].bus[2]>>
        /\ outputs[h].bus = <<CreatedAs(outputs[h]), outputs[h].bus[2]>>
    BY TypeFacts, OutputFields, ElementOfSeq DEF OutputsInv, CreatedAs
  <2> DEFINE a == CreatedAs(outputs[k])
             b == CreatedAs(outputs[h])
             m == outputs[k].number
             n == outputs[h].number
  <2>5. m \in 0 .. 1 /\ n \in 0 .. 1 /\ a \in Kinds /\ b \in Kinds
    <3>1. \A x \in 0 .. 15 : x <= 1 => x \in 0 .. 1
      OBVIOUS
    <3> QED BY <2>2, <2>3, <3>1, Zenon
  <2>6. /\ a = "VGA" => Block(outputs[k]) = IF m = 0 THEN "DACA" ELSE "DACB"
        /\ a = "DVI-I" => Block(outputs[k]) = IF m = 0 THEN "TMDSA" ELSE "LVTMA"
        /\ a = "LFP" => Block(outputs[k]) = "LVTMA"
    BY <2>1, <2>5, BlockOf
  <2>7. /\ b = "VGA" => Block(outputs[h]) = IF n = 0 THEN "DACA" ELSE "DACB"
        /\ b = "DVI-I" => Block(outputs[h]) = IF n = 0 THEN "TMDSA" ELSE "LVTMA"
        /\ b = "LFP" => Block(outputs[h]) = "LVTMA"
    BY <2>1, <2>5, BlockOf
  <2>8. /\ (a = "LFP" \/ b = "LFP") => m = 1 /\ n = 1
        /\ (a # "LFP" /\ b # "LFP") => a = b /\ m = n
    <3>1. (a = "LFP" => m = 1) /\ (b = "LFP" => n = 1)
      BY <2>1
    <3> HIDE DEF a, b, m, n
    <3> QED BY <2>5, <2>6, <2>7, <3>1 DEF Kinds
  <2>9. CASE CreatedAs(outputs[k]) = "LFP"
    <3>1. outputs[h].number = 1
      BY <2>8, <2>9
    <3> QED BY <2>9, <3>1 DEF OutputsInv, SharedInv, PanelAlone
  <2>10. CASE CreatedAs(outputs[h]) = "LFP"
    <3>1. outputs[k].number = 1
      BY <2>8, <2>10
    <3> QED BY <2>10, <3>1 DEF OutputsInv, SharedInv, PanelAlone
  <2>11. CASE CreatedAs(outputs[k]) # "LFP" /\ CreatedAs(outputs[h]) # "LFP"
    <3>1. /\ CreatedAs(outputs[k]) = CreatedAs(outputs[h])
          /\ outputs[k].number = outputs[h].number
      BY <2>8, <2>11
    <3>2. outputs[k].bus = outputs[h].bus
      BY <2>1, <2>4, <3>1
    <3> QED BY <3>2 DEF OutputsInv, SharedInv, BusesAreOwned
  <2> QED BY <2>9, <2>10, <2>11
<1> QED BY <1>1, OutputsInductive, PTL

(* Every connector has its output in the end, but one that a panel shut    *)
(* out or took over.                                                       *)
THEOREM NoConnectorLost == Spec => []ConnectorsServed
<1>1. OutputsInv => ConnectorsServed
  <2> SUFFICES ASSUME OutputsInv, pc = "detected", failures = 0, NEW k \in 1 .. Len(table),
                      table[k].type \in {"VGA", "DVI-I"},
                      table[k].number = 0 \/ \A f \in Entries : f.type # "LFP"
               PROVE  \E h \in 1 .. Len(outputs) : Same(outputs[h], table[k].type, table[k].number)
    BY DEF ConnectorsServed, Entries
  <2>1. Served(k)
    BY DEF OutputsInv, ServedInv, Read
  <2> QED BY <2>1 DEF Served
<1> QED BY <1>1, OutputsInductive, PTL

(* One panel if the table lists any, on the first CRTC; one listed first   *)
(* has the panel's functions and is found.                                 *)
THEOREM ExactlyOnePanel == Spec => []OnePanel
<1>1. OutputsInv => OnePanel
  <2> SUFFICES ASSUME OutputsInv, pc = "detected", failures = 0
               PROVE  LET panels == {k \in 1 .. Len(outputs) : outputs[k].type = "LFP"} IN
                      /\ Cardinality(panels) = IF \E e \in Entries : e.type = "LFP" THEN 1 ELSE 0
                      /\ \A k \in panels :
                           /\ outputs[k].crtcs = {1}
                           /\ PanelFirst => outputs[k].driver = "lvds" /\ status[k] = "Connected"
    BY DEF OnePanel
  <2> DEFINE panels == {k \in 1 .. Len(outputs) : outputs[k].type = "LFP"}
  <2>1. ASSUME NEW e \in Entries, e.type = "LFP"
        PROVE  Cardinality(panels) = 1
    <3>1. PICK k \in 1 .. Len(table) : table[k] = e
      BY DEF Entries
    <3>2. Served(k)
      BY DEF OutputsInv, ServedInv, Read
    <3>3. PICK h \in 1 .. Len(outputs) : outputs[h].type = "LFP"
      BY <2>1, <3>1, <3>2 DEF Served
    <3>4. ASSUME NEW g \in panels PROVE g = h
      <4>1. outputs[g].number >= 1 /\ outputs[h].number >= 1
        BY <3>3 DEF OutputsInv, SharedInv, OriginInv
      <4>2. g <= h /\ h <= g
        BY <3>3, <4>1 DEF OutputsInv, SharedInv, PanelLeads
      <4> QED BY <4>2
    <3>5. panels = {h}
      BY <3>3, <3>4
    <3> QED BY <3>5, FS_Singleton
  <2>2. ASSUME ~ \E e \in Entries : e.type = "LFP"
        PROVE  Cardinality(panels) = 0
    <3>1. panels = {}
      BY <2>2 DEF OutputsInv, SharedInv, ListedInv
    <3> QED BY <3>1, FS_EmptySet
  <2>3. ASSUME NEW k \in panels
        PROVE  /\ outputs[k].crtcs = {1}
               /\ PanelFirst => outputs[k].driver = "lvds" /\ status[k] = "Connected"
    <3>1. outputs[k].crtcs = {1}
      BY DEF OutputsInv, PanelInv, MaskInv
    <3>2. outputs[k].driver = DriverOf(CreatedAs(outputs[k]), outputs[k].number)
          /\ outputs[k].number >= 1
      BY DEF OutputsInv, SharedInv, OriginInv
    <3>3. PanelFirst => CreatedAs(outputs[k]) = "LFP"
      BY <3>2 DEF OutputsInv, PanelInv, PanelCreated
    <3>4. DriverOf("LFP", outputs[k].number) = "lvds"
      BY DEF DriverOf
    <3>5. outputs[k].driver = "lvds" => status[k] = "Connected"
      BY DEF OutputsInv, PanelInv, AnswerInv
    <3> QED BY <3>1, <3>2, <3>3, <3>4, <3>5
  <2> QED BY <2>1, <2>2, <2>3
<1> QED BY <1>1, OutputsInductive, PTL

(* Of the VGA and the DVI-I output of a connector exactly one claims the   *)
(* monitor that both have read the EDID of: detect_monitor_dac and         *)
(* detect_monitor_tmds answer the other way round.                         *)
THEOREM OneTwinClaims == Spec => []TwinsAgree
<1>1. Init => TwinsAgree
  BY DEF Init, TwinsAgree
<1>2. OutputsInv /\ TwinsAgree /\ [Next]_vars => TwinsAgree'
  <2> SUFFICES ASSUME OutputsInv, TwinsAgree, [Next]_vars PROVE TwinsAgree'
    OBVIOUS
  <2>1. CASE Detect
    <3>1. outputs' = outputs
      BY <2>1 DEF Detect
    <3> SUFFICES ASSUME NEW k \in 1 .. Len(outputs), NEW h \in 1 .. Len(outputs),
                        outputs[k].type = "VGA", outputs[h].type = "DVI-I",
                        outputs[k].ddc = outputs[h].ddc,
                        "Unknown" \notin {status'[k], status'[h]}
                 PROVE  status'[k] # status'[h]
      BY <3>1 DEF TwinsAgree
    <3>2. PICK d, e, F : Heard(d, e, F)
      BY <2>1, Answers
    <3>3. outputs[k].driver \in {"dac1", "dac2"} /\ outputs[h].driver \in {"tmds1", "tmds2"}
      BY DEF OutputsInv, SharedInv, OriginInv, DriverOf
    <3>4. \A f : Answer(outputs[k].driver, f) = DetectDac(f)
                 /\ Answer(outputs[h].driver, f) = DetectTmds(f)
      BY <3>3 DEF Answer
    <3>5. status'[k] = DetectDac(e) /\ status'[h] = DetectTmds(e)
      BY <3>2, <3>4 DEF Heard, DetectDac, DetectTmds
    <3> QED BY <3>5 DEF DetectDac, DetectTmds
  <2>2. CASE Finished \/ UNCHANGED vars
    BY <2>2 DEF Finished, vars, TwinsAgree
  <2>3. CASE GetBIOSInfo \/ ReadEntry \/ TableRead \/ PairDvi \/ SetMasks
    BY <2>3 DEF GetBIOSInfo, ReadEntry, TableRead, PairDvi, SetMasks, TwinsAgree
  <2> QED BY <2>1, <2>2, <2>3 DEF Next
<1> QED BY <1>1, <1>2, OutputsInductive, PTL DEF Spec

=============================================================================
