-------------------------- MODULE PortScanner_proofs --------------------------
(***************************************************************************)
(* Proofs about PortScanner: the threads are a pool of workers that prints *)
(* every port of every address, the types, what the verdicts say of the    *)
(* hosts, the bound on the descriptors, and a measure that every step      *)
(* lessens.                                                                *)
(***************************************************************************)
EXTENDS PortScanner, FiniteSetTheorems, SequenceTheorems, FunctionTheorems,
        WellFoundedInduction, NaturalsInduction, TLAPS

Ports == DOMAIN args.ports
AllPorts == [i \in Ports |-> i]
Busy == {"open", "probe", "wait", "print"}

(* The inductive invariant, in parts.                                      *)

\* What a thread and what main() can be at.
Labels ==
  /\ pc \in [Procs -> Busy \cup {"take", "exit", "join", "end"}]
  /\ \A t \in Threads : pc[t] \in Busy \cup {"take", "exit"}
  /\ pc[Main] \in Busy \cup {"join", "end"}

\* Who is busy has a job, a thread one port and main() one address.
Work ==
  /\ job \in [Procs -> Jobs \cup {<<e, 0>> : e \in Entries \cup {0}}]
  /\ \A t \in Threads : IF pc[t] \in Busy THEN job[t] \in Jobs
                                          ELSE job[t] = NoJob
  /\ IF pc[Main] \in Busy THEN job[Main] \in {<<e, 0>> : e \in Entries}
                          ELSE job[Main] = NoJob

\* The queues behind the iterator are untouched, those it has passed are
\* empty, and none names a port twice.
Queues ==
  /\ map_iterator \in 1 .. Len(args.addresses) + 1
  /\ ip_map \in [Entries -> Seq(Ports)]
  /\ \A e \in Entries :
       /\ DOMAIN ip_map[e] \subseteq Ports
       /\ e > map_iterator => ip_map[e] = AllPorts
       /\ e < map_iterator => ip_map[e] = << >>
       /\ \A i, j \in DOMAIN ip_map[e] : ip_map[e][i] = ip_map[e][j] => i = j

\* A thread leaves when the iterator is past the last address, and main()
\* goes on when all have left.
Phases ==
  /\ \A t \in Threads : pc[t] = "exit" => map_iterator = Len(args.addresses) + 1
  /\ pc[Main] # "join" => \A t \in Threads : pc[t] = "exit"

Printed == printed \subseteq Jobs \cup {<<e, 0>> : e \in Entries}

CrewInv == Labels /\ Work /\ Queues /\ Phases /\ Printed

-----------------------------------------------------------------------------
(* The command line.                                                       *)

\* What holds of 0 and of each number after one it holds of.
LEMMA Counting ==
  ASSUME NEW n \in Nat, NEW T, 0 \in T, \A i \in 1 .. n : i - 1 \in T => i \in T
  PROVE  0 .. n \subseteq T
<1> DEFINE Rest == (0 .. n) \ T
<1> SUFFICES ASSUME Rest # {} PROVE FALSE
  OBVIOUS
<1> HIDE DEF Rest
<1>1. Rest \subseteq Nat
  BY DEF Rest
<1>2. PICK i \in Rest : \A j \in Rest : <<j, i>> \notin OpToRel(<, Nat)
  BY <1>1, NatLessThanWellFounded, WFMin, Zenon
<1>3. i \in 0 .. n /\ i \notin T
  BY DEF Rest
<1>4. i - 1 \in Rest
  BY <1>3 DEF Rest
<1>5. <<i - 1, i>> \in OpToRel(<, Nat)
  BY <1>1, <1>4 DEF OpToRel
<1> QED
  BY <1>2, <1>4, <1>5

LEMMA PowersAre == ASSUME NEW k \in Nat PROVE 2 ^ k \in Nat \ {0}
<1>1. IsFiniteSet(1 .. k) /\ Cardinality(1 .. k) = k
  BY FS_Interval
<1>2. IsFiniteSet(SUBSET (1 .. k)) /\ Cardinality(SUBSET (1 .. k)) = 2 ^ k
  BY <1>1, FS_SUBSET
<1>3. SUBSET (1 .. k) # {}
  OBVIOUS
<1> QED
  BY <1>2, <1>3, FS_CardinalityType, FS_EmptySet

LEMMA RunIs ==
  ASSUME NEW first \in Int, NEW last \in Int
  PROVE  Run(first, last) \in Seq(Int) /\ ToSet(Run(first, last)) = first .. last
<1> DEFINE n == last - first + 1
<1>1. CASE n \in Nat
  <2>1. Run(first, last) \in Seq(Int)
    BY <1>1 DEF Run
  <2>2. \A h \in first .. last : h - first + 1 \in 1 .. n /\ h = first + (h - first + 1) - 1
    OBVIOUS
  <2>3. first .. last \subseteq ToSet(Run(first, last))
    BY <2>2 DEF Run, ToSet
  <2>4. ToSet(Run(first, last)) \subseteq first .. last
    BY DEF Run, ToSet
  <2> QED
    BY <2>1, <2>3, <2>4
<1>2. CASE n \notin Nat
  <2>1. 1 .. n = {} /\ first .. last = {}
    BY <1>2
  <2>2. Run(first, last) = << >>
    BY <2>1 DEF Run
  <2> QED
    BY <2>1, <2>2 DEF ToSet
<1> QED
  BY <1>1, <1>2

\* The block of a prefix is what shares its first bits.
LEMMA BlockIs ==
  ASSUME NEW address \in Nat, NEW prefix \in 2 .. 32, NEW size, size = 2 ^ (32 - prefix)
  PROVE  /\ Block(address, prefix) \in Seq(Int)
         /\ ToSet(Block(address, prefix)) =
              {h \in address - size .. address + size : h \div size = address \div size}
<1>1. size \in Nat /\ size > 0
  <2>1. 32 - prefix \in Nat
    OBVIOUS
  <2> QED
    BY <2>1, PowersAre
<1> DEFINE q == address \div size
           r == address % size
           base == address - r
<1>2. q \in Int /\ r \in 0 .. size - 1 /\ address = size * q + r
  BY <1>1
<1>3. base \in Int /\ base = size * q
  <2> DEFINE m == size * q
  <2>1. m \in Int /\ r \in Int /\ address = m + r
    BY <1>1, <1>2
  <2> HIDE DEF m, r
  <2>2. address - r \in Int /\ address - r = m
    BY <2>1
  <2> QED
    BY <2>2 DEF m, r
<1>4. ASSUME NEW h \in Int PROVE h \div size = q <=> h \in base .. base + size - 1
  <2> DEFINE p == h \div size
             s == h % size
  <2>1. p \in Int /\ s \in 0 .. size - 1 /\ h = size * p + s
    BY <1>1
  <2>2. CASE p = q
    BY <1>1, <1>2, <1>3, <2>1, <2>2
  <2>3. CASE p # q
    <3>1. p >= q + 1 \/ p + 1 <= q
      BY <1>2, <2>1, <2>3
    <3>2. CASE p >= q + 1
      <4>1. size * p >= size * q + size
        BY <1>1, <1>2, <2>1, <3>2
      <4> QED
        BY <1>1, <1>2, <1>3, <2>1, <2>3, <4>1
    <3>3. CASE p + 1 <= q
      <4>1. size * p + size <= size * q
        BY <1>1, <1>2, <2>1, <3>3
      <4> QED
        BY <1>1, <1>2, <1>3, <2>1, <2>3, <4>1
    <3> QED
      BY <3>1, <3>2, <3>3
  <2> QED
    BY <2>2, <2>3
<1>5. Block(address, prefix) = Run(base, base + size - 1)
  BY DEF Block
<1>6. base .. base + size - 1 \subseteq address - size .. address + size
  BY <1>1, <1>2
<1> HIDE DEF q, r, base
<1>7. base + size - 1 \in Int
  BY <1>1, <1>3
<1>8. /\ Block(address, prefix) \in Seq(Int)
      /\ ToSet(Block(address, prefix)) = base .. base + size - 1
  BY <1>3, <1>5, <1>7, RunIs
<1>9. address - size \in Int /\ address + size \in Int
  BY <1>1
<1>10. \A h \in address - size .. address + size : h \div size = q <=> h \in base .. base + size - 1
  BY <1>4, <1>9
<1>11. base .. base + size - 1 =
         {h \in address - size .. address + size : h \div size = q}
  BY <1>6, <1>10
<1> QED
  BY <1>8, <1>11 DEF q

\* Each turn of the loop over the lines of a file.
LEMMA KeptStep ==
  ASSUME NEW lines, Len(lines) \in Nat
  PROVE  /\ Kept(lines)[0] = << >>
         /\ \A i \in 1 .. Len(lines) :
              Kept(lines)[i] = IF Counts(lines[i])
                                 THEN Append(Kept(lines)[i - 1], lines[i].address)
                                 ELSE Kept(lines)[i - 1]
<1> DEFINE Turn(g, i) == IF i = 0 THEN << >>
                         ELSE IF Counts(lines[i]) THEN Append(g[i - 1], lines[i].address)
                                                  ELSE g[i - 1]
           T == {n \in 0 .. Len(lines) : \E g : \A i \in 0 .. n : g[i] = Turn(g, i)}
<1>1. 0 \in T
  <2> DEFINE g == [i \in {0} |-> << >>]
  <2>1. \A i \in 0 .. 0 : g[i] = Turn(g, i)
    OBVIOUS
  <2> HIDE DEF g
  <2> QED
    BY <2>1
<1>2. ASSUME NEW i \in 1 .. Len(lines), i - 1 \in T PROVE i \in T
  <2>1. PICK g : \A k \in 0 .. i - 1 : g[k] = Turn(g, k)
    BY <1>2
  <2> DEFINE h == [k \in 0 .. i |-> IF k = i THEN Turn(g, i) ELSE g[k]]
  <2>2. \A k \in 0 .. i : h[k] = Turn(h, k)
    <3> SUFFICES ASSUME NEW k \in 0 .. i PROVE h[k] = Turn(h, k)
      OBVIOUS
    <3>1. k # 0 => h[k - 1] = g[k - 1]
      OBVIOUS
    <3>2. CASE k = i
      BY <3>1, <3>2
    <3>3. CASE k # i
      <4>1. k \in 0 .. i - 1 /\ h[k] = g[k]
        BY <3>3
      <4> QED
        BY <2>1, <3>1, <4>1
    <3> QED
      BY <3>2, <3>3
  <2> HIDE DEF h
  <2> QED
    BY <2>2
<1>3. 0 .. Len(lines) \subseteq T
  <2> HIDE DEF T
  <2> QED
    BY <1>1, <1>2, Counting
<1>4. \E g : g = [i \in 0 .. Len(lines) |-> Turn(g, i)]
  <2>1. PICK g : \A i \in 0 .. Len(lines) : g[i] = Turn(g, i)
    BY <1>3
  <2> DEFINE h == [i \in 0 .. Len(lines) |-> g[i]]
  <2>2. \A i \in 0 .. Len(lines) : h[i] = Turn(h, i)
    BY <2>1
  <2>3. h = [i \in 0 .. Len(lines) |-> Turn(h, i)]
    BY <2>2
  <2> HIDE DEF h
  <2> QED
    BY <2>3
<1>5. Kept(lines) = [i \in 0 .. Len(lines) |-> Turn(Kept(lines), i)]
  BY <1>4 DEF Kept
<1>6. \A i \in 0 .. Len(lines) : Kept(lines)[i] = Turn(Kept(lines), i)
  <2> HIDE DEF Turn
  <2> QED
    BY <1>5
<1> QED
  BY <1>6

\* ... and over the options.
LEMMA TurnsStep ==
  ASSUME NEW options, Len(options) \in Nat
  PROVE  /\ Turns(options)[0] = NoArgs
         /\ \A i \in 1 .. Len(options) :
              Turns(options)[i] = Apply(Turns(options)[i - 1], options[i])
<1> DEFINE Turn(g, i) == IF i = 0 THEN NoArgs ELSE Apply(g[i - 1], options[i])
           T == {n \in 0 .. Len(options) : \E g : \A i \in 0 .. n : g[i] = Turn(g, i)}
<1>1. 0 \in T
  <2> DEFINE g == [i \in {0} |-> NoArgs]
  <2>1. \A i \in 0 .. 0 : g[i] = Turn(g, i)
    OBVIOUS
  <2> HIDE DEF g
  <2> QED
    BY <2>1
<1>2. ASSUME NEW i \in 1 .. Len(options), i - 1 \in T PROVE i \in T
  <2>1. PICK g : \A k \in 0 .. i - 1 : g[k] = Turn(g, k)
    BY <1>2
  <2> DEFINE h == [k \in 0 .. i |-> IF k = i THEN Turn(g, i) ELSE g[k]]
  <2>2. \A k \in 0 .. i : h[k] = Turn(h, k)
    <3> SUFFICES ASSUME NEW k \in 0 .. i PROVE h[k] = Turn(h, k)
      OBVIOUS
    <3>1. k # 0 => h[k - 1] = g[k - 1]
      OBVIOUS
    <3>2. CASE k = i
      BY <3>1, <3>2
    <3>3. CASE k # i
      <4>1. k \in 0 .. i - 1 /\ h[k] = g[k]
        BY <3>3
      <4> QED
        BY <2>1, <3>1, <4>1
    <3> QED
      BY <3>2, <3>3
  <2> HIDE DEF h
  <2> QED
    BY <2>2
<1>3. 0 .. Len(options) \subseteq T
  <2> HIDE DEF T
  <2> QED
    BY <1>1, <1>2, Counting
<1>4. \E g : g = [i \in 0 .. Len(options) |-> Turn(g, i)]
  <2>1. PICK g : \A i \in 0 .. Len(options) : g[i] = Turn(g, i)
    BY <1>3
  <2> DEFINE h == [i \in 0 .. Len(options) |-> g[i]]
  <2>2. \A i \in 0 .. Len(options) : h[i] = Turn(h, i)
    BY <2>1
  <2>3. h = [i \in 0 .. Len(options) |-> Turn(h, i)]
    BY <2>2
  <2> HIDE DEF h
  <2> QED
    BY <2>3
<1>5. Turns(options) = [i \in 0 .. Len(options) |-> Turn(Turns(options), i)]
  BY <1>4 DEF Turns
<1>6. \A i \in 0 .. Len(options) : Turns(options)[i] = Turn(Turns(options), i)
  <2> HIDE DEF Turn
  <2> QED
    BY <1>5
<1> QED
  BY <1>6

\* What the sequences hold.
LEMMA HeldBy ==
  ASSUME NEW S, NEW s \in Seq(S)
  PROVE  /\ \A t \in Seq(S) : ToSet(s \o t) = ToSet(s) \cup ToSet(t)
         /\ \A x \in S : ToSet(Append(s, x)) = ToSet(s) \cup {x}
         /\ ToSet(<< >>) = {}
<1>1. ASSUME NEW t \in Seq(S) PROVE ToSet(s \o t) = ToSet(s) \cup ToSet(t)
  <2>1. Len(s \o t) = Len(s) + Len(t) /\ Len(s) \in Nat /\ Len(t) \in Nat
    OBVIOUS
  <2>2. ToSet(s \o t) \subseteq ToSet(s) \cup ToSet(t)
    BY <2>1 DEF ToSet
  <2>3. \A i \in DOMAIN s : i \in DOMAIN (s \o t) /\ (s \o t)[i] = s[i]
    BY <2>1
  <2>4. \A i \in DOMAIN t : Len(s) + i \in DOMAIN (s \o t) /\ (s \o t)[Len(s) + i] = t[i]
    BY <2>1
  <2>5. ToSet(s) \subseteq ToSet(s \o t)
    BY <2>3 DEF ToSet
  <2>6. ToSet(t) \subseteq ToSet(s \o t)
    BY <2>4 DEF ToSet
  <2> QED
    BY <2>2, <2>5, <2>6
<1>2. ASSUME NEW x \in S PROVE ToSet(Append(s, x)) = ToSet(s) \cup {x}
  <2>1. Len(Append(s, x)) = Len(s) + 1 /\ Len(s) \in Nat
    OBVIOUS
  <2>2. \A i \in DOMAIN s : i \in DOMAIN Append(s, x) /\ Append(s, x)[i] = s[i]
    BY <2>1
  <2>3. Len(s) + 1 \in DOMAIN Append(s, x) /\ Append(s, x)[Len(s) + 1] = x
    BY <2>1
  <2>4. \A i \in DOMAIN Append(s, x) : i \in DOMAIN s \/ i = Len(s) + 1
    BY <2>1
  <2> QED
    BY <2>2, <2>3, <2>4 DEF ToSet
<1>3. ToSet(<< >>) = {}
  BY DEF ToSet
<1> QED
  BY <1>1, <1>2, <1>3

LEMMA FileAddressesAre ==
  ASSUME NEW lines \in Seq([length : Nat, address : Nat])
  PROVE  /\ FileAddresses(lines) \in Seq(Int)
         /\ ToSet(FileAddresses(lines)) =
              {l.address : l \in {m \in ToSet(lines) : m.length > 6}}
<1>1. Len(lines) \in Nat /\ DOMAIN lines = 1 .. Len(lines)
  OBVIOUS
<1>2. ASSUME NEW i \in 1 .. Len(lines) PROVE lines[i].address \in Int
  <2>1. lines[i] \in [length : Nat, address : Nat]
    BY ElementOfSeq
  <2> QED
    BY <2>1
<1> DEFINE First(n) == {lines[i].address : i \in {j \in 1 .. n : Counts(lines[j])}}
           Good(n) == Kept(lines)[n] \in Seq(Int) /\ ToSet(Kept(lines)[n]) = First(n)
           T == {n \in 0 .. Len(lines) : Good(n)}
<1>3. Good(0)
  <2>1. First(0) = {}
    OBVIOUS
  <2>2. Kept(lines)[0] = << >>
    BY <1>1, KeptStep
  <2>3. ToSet(<< >>) = {} /\ << >> \in Seq(Int)
    BY DEF ToSet
  <2> HIDE DEF First
  <2> QED
    BY <2>1, <2>2, <2>3
<1>4. ASSUME NEW i \in 1 .. Len(lines), Good(i - 1) PROVE Good(i)
  <2>1. Kept(lines)[i - 1] \in Seq(Int) /\ ToSet(Kept(lines)[i - 1]) = First(i - 1)
    BY <1>4
  <2>2. 1 .. i = (1 .. i - 1) \cup {i}
    OBVIOUS
  <2>3. First(i) = IF Counts(lines[i]) THEN First(i - 1) \cup {lines[i].address}
                                       ELSE First(i - 1)
    BY <2>2
  <2>4. Kept(lines)[i] = IF Counts(lines[i])
                           THEN Append(Kept(lines)[i - 1], lines[i].address)
                           ELSE Kept(lines)[i - 1]
    BY <1>1, KeptStep
  <2> DEFINE s == Kept(lines)[i - 1]
             x == lines[i].address
  <2>5. s \in Seq(Int) /\ x \in Int
    BY <1>2, <2>1
  <2>6. ToSet(Append(s, x)) = ToSet(s) \cup {x}
    <3> HIDE DEF s, x
    <3> QED
      BY <2>5, HeldBy
  <2>7. Append(s, x) \in Seq(Int)
    <3> HIDE DEF s, x
    <3> QED
      BY <2>5
  <2> HIDE DEF First
  <2>8. CASE Counts(lines[i])
    BY <2>1, <2>3, <2>4, <2>6, <2>7, <2>8
  <2>9. CASE ~ Counts(lines[i])
    BY <2>1, <2>3, <2>4, <2>9
  <2> QED
    BY <2>8, <2>9
<1>5. Good(Len(lines))
  <2> HIDE DEF Good
  <2>1. 0 \in T
    BY <1>1, <1>3
  <2>2. \A i \in 1 .. Len(lines) : i - 1 \in T => i \in T
    BY <1>4
  <2> HIDE DEF T
  <2>3. 0 .. Len(lines) \subseteq T
    BY <1>1, <2>1, <2>2, Counting
  <2> QED
    BY <1>1, <2>3 DEF T
<1>6. First(Len(lines)) = {l.address : l \in {m \in ToSet(lines) : m.length > 6}}
  BY <1>1 DEF Counts, ToSet
<1> QED
  <2> HIDE DEF First
  <2> QED
    BY <1>5, <1>6 DEF FileAddresses

LEMMA ShortIs == \A n \in Int : Short(n) \in Int
BY DEF Short

\* What the loop over the options keeps.
Arguments == [ports : Seq(Int), addresses : Seq(Int), scans : SUBSET ToSet(ScanTypes),
              protocols : Seq(Int), speedup : Nat \ {0}]

\* One turn of the loop, by the kind of the option.
LEMMA ApplyOne ==
  ASSUME NEW a, NEW o
  PROVE  /\ o.opt = "ports" => Apply(a, o) = [a EXCEPT !.ports = @ \o Numbers(o)]
         /\ o.opt = "ip" => Apply(a, o) = [a EXCEPT !.addresses = Append(@, o.address)]
         /\ o.opt = "prefix" =>
              Apply(a, o) = [a EXCEPT !.addresses = @ \o Block(o.address, o.prefix)]
         /\ o.opt = "file" =>
              Apply(a, o) = [a EXCEPT !.addresses = @ \o FileAddresses(o.lines)]
         /\ o.opt = "speedup" =>
              Apply(a, o) = IF o.value > 0 THEN [a EXCEPT !.speedup = o.value] ELSE a
         /\ o.opt = "scans" => Apply(a, o) = [a EXCEPT !.scans = ScansNamed(o)]
         /\ o.opt = "protocol-range" =>
              Apply(a, o) = [a EXCEPT !.protocols = @ \o Protocols(o)]
BY SMT DEF Apply

LEMMA AddsHosts ==
  ASSUME NEW o
  PROVE  /\ o.opt \in {"ports", "speedup", "scans", "protocol-range"} => HostsOf(o) = {}
         /\ o.opt = "ip" => HostsOf(o) = {o.address}
         /\ o.opt # "ports" => PortsOf(o) = {}
BY SMT DEF HostsOf, PortsOf

\* What an option of each kind carries.
LEMMA OptionIs ==
  ASSUME NEW o \in OptionRecords
  PROVE  \/ /\ o.opt \in {"ports", "protocol-range"} /\ o.range \in BOOLEAN
            /\ o.values \in Seq(Int) /\ (o.range => Len(o.values) = 2)
         \/ o.opt = "ip" /\ o.address \in Nat
         \/ o.opt = "prefix" /\ o.address \in Nat /\ o.prefix \in 2 .. 32
         \/ o.opt = "file" /\ o.lines \in Seq([length : Nat, address : Nat])
         \/ o.opt = "speedup" /\ o.value \in Int
         \/ o.opt = "scans" /\ o.empty \in BOOLEAN /\ o.names \in SUBSET ToSet(ScanTypes)
<1>1. CASE o \in [opt : {"ports", "protocol-range"}, range : BOOLEAN, values : Seq(Int)]
           /\ (o.range => Len(o.values) = 2)
  BY <1>1
<1>2. CASE o \in [opt : {"ip"}, address : Nat]
  BY <1>2
<1>3. CASE o \in [opt : {"prefix"}, address : Nat, prefix : 2 .. 32]
  BY <1>3
<1>4. CASE o \in [opt : {"file"}, lines : Seq([length : Nat, address : Nat])]
  BY <1>4
<1>5. CASE o \in [opt : {"speedup"}, value : {n \in Int : n <= IntMax}]
  BY <1>5
<1>6. CASE o \in [opt : {"scans"}, empty : BOOLEAN, names : SUBSET ToSet(ScanTypes)]
  BY <1>6
<1> QED
  BY <1>1, <1>2, <1>3, <1>4, <1>5, <1>6, Zenon DEF OptionRecords

\* An option sets one of the arguments.
LEMMA SetsPorts ==
  ASSUME NEW a \in Arguments, NEW v \in Seq(Int), NEW b, b = [a EXCEPT !.ports = v]
  PROVE  b \in Arguments /\ b.ports = v /\ b.addresses = a.addresses
<1> DEFINE I == Seq(Int)
           W == SUBSET ToSet(ScanTypes)
           N == Nat \ {0}
<1>1. a \in [ports : I, addresses : I, scans : W, protocols : I, speedup : N] /\ v \in I
  BY DEF Arguments
<1> HIDE DEF I, W, N
<1>2. /\ b \in [ports : I, addresses : I, scans : W, protocols : I, speedup : N]
      /\ b.ports = v /\ b.addresses = a.addresses
  BY <1>1
<1> QED
  BY <1>2 DEF Arguments, I, W, N

LEMMA SetsAddresses ==
  ASSUME NEW a \in Arguments, NEW v \in Seq(Int), NEW b, b = [a EXCEPT !.addresses = v]
  PROVE  b \in Arguments /\ b.addresses = v /\ b.ports = a.ports
<1> DEFINE I == Seq(Int)
           W == SUBSET ToSet(ScanTypes)
           N == Nat \ {0}
<1>1. a \in [ports : I, addresses : I, scans : W, protocols : I, speedup : N] /\ v \in I
  BY DEF Arguments
<1> HIDE DEF I, W, N
<1>2. /\ b \in [ports : I, addresses : I, scans : W, protocols : I, speedup : N]
      /\ b.addresses = v /\ b.ports = a.ports
  BY <1>1
<1> QED
  BY <1>2 DEF Arguments, I, W, N

LEMMA SetsProtocols ==
  ASSUME NEW a \in Arguments, NEW v \in Seq(Int), NEW b, b = [a EXCEPT !.protocols = v]
  PROVE  b \in Arguments /\ b.ports = a.ports /\ b.addresses = a.addresses
<1> DEFINE I == Seq(Int)
           W == SUBSET ToSet(ScanTypes)
           N == Nat \ {0}
<1>1. a \in [ports : I, addresses : I, scans : W, protocols : I, speedup : N] /\ v \in I
  BY DEF Arguments
<1> HIDE DEF I, W, N
<1>2. /\ b \in [ports : I, addresses : I, scans : W, protocols : I, speedup : N]
      /\ b.ports = a.ports /\ b.addresses = a.addresses
  BY <1>1
<1> QED
  BY <1>2 DEF Arguments, I, W, N

LEMMA SetsSpeedup ==
  ASSUME NEW a \in Arguments, NEW v \in Nat \ {0}, NEW b, b = [a EXCEPT !.speedup = v]
  PROVE  b \in Arguments /\ b.ports = a.ports /\ b.addresses = a.addresses
<1> DEFINE I == Seq(Int)
           W == SUBSET ToSet(ScanTypes)
           N == Nat \ {0}
<1>1. a \in [ports : I, addresses : I, scans : W, protocols : I, speedup : N] /\ v \in N
  BY DEF Arguments
<1> HIDE DEF I, W, N
<1>2. /\ b \in [ports : I, addresses : I, scans : W, protocols : I, speedup : N]
      /\ b.ports = a.ports /\ b.addresses = a.addresses
  BY <1>1
<1> QED
  BY <1>2 DEF Arguments, I, W, N

LEMMA SetsScans ==
  ASSUME NEW a \in Arguments, NEW v \in SUBSET ToSet(ScanTypes), NEW b, b = [a EXCEPT !.scans = v]
  PROVE  b \in Arguments /\ b.ports = a.ports /\ b.addresses = a.addresses
<1> DEFINE I == Seq(Int)
           W == SUBSET ToSet(ScanTypes)
           N == Nat \ {0}
<1>1. a \in [ports : I, addresses : I, scans : W, protocols : I, speedup : N] /\ v \in W
  BY DEF Arguments
<1> HIDE DEF I, W, N
<1>2. /\ b \in [ports : I, addresses : I, scans : W, protocols : I, speedup : N]
      /\ b.ports = a.ports /\ b.addresses = a.addresses
  BY <1>1
<1> QED
  BY <1>2 DEF Arguments, I, W, N

\* What one option adds.
LEMMA ApplyIs ==
  ASSUME NEW a \in Arguments, NEW o \in OptionRecords
  PROVE  /\ Apply(a, o) \in Arguments
         /\ ToSet(Apply(a, o).addresses) = ToSet(a.addresses) \cup HostsOf(o)
         /\ ToSet(Apply(a, o).ports) = ToSet(a.ports) \cup PortsOf(o)
<1>1. a.ports \in Seq(Int) /\ a.addresses \in Seq(Int) /\ a.protocols \in Seq(Int)
  BY DEF Arguments
<1>2. CASE /\ o.opt = "ports" /\ o.range \in BOOLEAN
           /\ o.values \in Seq(Int) /\ (o.range => Len(o.values) = 2)
  <2>1. Numbers(o) \in Seq(Int) /\ ToSet(Numbers(o)) = PortsOf(o)
    <3>1. CASE o.range
      <4>1. o.values[1] \in Int /\ o.values[2] \in Int
        BY <1>2, <3>1
      <4>2. /\ Run(o.values[1], o.values[2]) \in Seq(Int)
            /\ ToSet(Run(o.values[1], o.values[2])) = o.values[1] .. o.values[2]
        BY <4>1, RunIs
      <4> QED
        BY <1>2, <3>1, <4>2 DEF Numbers, PortsOf
    <3>2. CASE ~ o.range
      BY <1>2, <3>2 DEF Numbers, PortsOf
    <3> QED
      BY <3>1, <3>2
  <2> DEFINE v == a.ports \o Numbers(o)
  <2>2. ToSet(v) = ToSet(a.ports) \cup ToSet(Numbers(o)) /\ v \in Seq(Int)
    BY <1>1, <2>1, HeldBy
  <2>3. Apply(a, o) = [a EXCEPT !.ports = v] /\ HostsOf(o) = {}
    BY <1>2, ApplyOne, AddsHosts
  <2> HIDE DEF v
  <2> QED
    BY <2>1, <2>2, <2>3, SetsPorts
<1>3. CASE o.opt = "ip" /\ o.address \in Nat
  <2>1. HostsOf(o) = {o.address} /\ PortsOf(o) = {} /\ o.address \in Int
    BY <1>3, AddsHosts
  <2> DEFINE v == Append(a.addresses, o.address)
  <2>2. ToSet(v) = ToSet(a.addresses) \cup {o.address} /\ v \in Seq(Int)
    BY <1>1, <2>1, HeldBy
  <2>3. Apply(a, o) = [a EXCEPT !.addresses = v]
    BY <1>3, ApplyOne
  <2> HIDE DEF v
  <2> QED
    BY <2>1, <2>2, <2>3, SetsAddresses
<1>4. CASE o.opt = "prefix" /\ o.address \in Nat /\ o.prefix \in 2 .. 32
  <2>1. PortsOf(o) = {}
    BY <1>4, AddsHosts
  <2> DEFINE b == Block(o.address, o.prefix)
  <2>2. b \in Seq(Int)
    BY <1>4, BlockIs
  <2>3. ToSet(b) = HostsOf(o)
    <3> DEFINE size == 2 ^ (32 - o.prefix)
               same == {h \in o.address - size .. o.address + size :
                          h \div size = o.address \div size}
    <3>1. HostsOf(o) = same
      BY <1>4 DEF HostsOf
    <3>2. ToSet(b) = same
      BY <1>4, BlockIs
    <3> QED
      BY <3>1, <3>2
  <2> DEFINE v == a.addresses \o b
  <2>4. Apply(a, o) = [a EXCEPT !.addresses = v]
    BY <1>4, ApplyOne
  <2> HIDE DEF b
  <2>5. ToSet(v) = ToSet(a.addresses) \cup ToSet(b) /\ v \in Seq(Int)
    BY <1>1, <2>2, HeldBy
  <2> HIDE DEF v
  <2> QED
    BY <2>1, <2>3, <2>4, <2>5, SetsAddresses
<1>5. CASE o.opt = "file" /\ o.lines \in Seq([length : Nat, address : Nat])
  <2>1. PortsOf(o) = {}
    BY <1>5, AddsHosts
  <2> DEFINE b == FileAddresses(o.lines)
  <2>2. b \in Seq(Int)
    BY <1>5, FileAddressesAre
  <2>3. HostsOf(o) = {l.address : l \in {m \in ToSet(o.lines) : m.length > 6}}
    BY <1>5, SMT DEF HostsOf
  <2>4. ToSet(b) = HostsOf(o)
    BY <1>5, <2>3, FileAddressesAre
  <2> DEFINE v == a.addresses \o b
  <2>5. Apply(a, o) = [a EXCEPT !.addresses = v]
    BY <1>5, ApplyOne
  <2> HIDE DEF b
  <2>6. ToSet(v) = ToSet(a.addresses) \cup ToSet(b) /\ v \in Seq(Int)
    BY <1>1, <2>2, HeldBy
  <2> HIDE DEF v
  <2> QED
    BY <2>1, <2>4, <2>5, <2>6, SetsAddresses
<1>6. CASE o.opt = "speedup" /\ o.value \in Int
  <2>1. /\ Apply(a, o) = IF o.value > 0 THEN [a EXCEPT !.speedup = o.value] ELSE a
        /\ HostsOf(o) = {} /\ PortsOf(o) = {}
    BY <1>6, ApplyOne, AddsHosts
  <2>2. CASE o.value > 0
    <3>1. o.value \in Nat \ {0}
      BY <1>6, <2>2
    <3> QED
      BY <2>1, <2>2, <3>1, SetsSpeedup
  <2>3. CASE ~ (o.value > 0)
    BY <2>1, <2>3
  <2> QED
    BY <2>2, <2>3
<1>7. CASE o.opt = "scans" /\ o.empty \in BOOLEAN /\ o.names \in SUBSET ToSet(ScanTypes)
  <2>1. ScansNamed(o) \in SUBSET ToSet(ScanTypes)
    BY <1>7 DEF ScansNamed
  <2>2. /\ Apply(a, o) = [a EXCEPT !.scans = ScansNamed(o)]
        /\ HostsOf(o) = {} /\ PortsOf(o) = {}
    BY <1>7, ApplyOne, AddsHosts
  <2> QED
    BY <2>1, <2>2, SetsScans
<1>8. CASE /\ o.opt = "protocol-range" /\ o.range \in BOOLEAN
           /\ o.values \in Seq(Int) /\ (o.range => Len(o.values) = 2)
  <2>1. Protocols(o) \in Seq(Int)
    <3>1. CASE o.range
      <4>1. o.values[1] \in Int /\ o.values[2] \in Int
        BY <1>8, <3>1
      <4>2. Run(Short(o.values[1]), Short(o.values[2])) \in Seq(Int)
        BY <4>1, RunIs, ShortIs
      <4> QED
        BY <1>8, <3>1, <4>2 DEF Protocols
    <3>2. CASE ~ o.range
      <4>1. PICK n \in Nat : DOMAIN o.values = 1 .. n /\ \A i \in 1 .. n : o.values[i] \in Int
        BY <1>8
      <4>2. \A i \in 1 .. n : Short(o.values[i]) \in Int
        BY <4>1, ShortIs
      <4>3. [i \in DOMAIN o.values |-> Short(o.values[i])] \in Seq(Int)
        BY <4>1, <4>2
      <4> QED
        BY <1>8, <3>2, <4>3 DEF Protocols
    <3> QED
      BY <3>1, <3>2
  <2> DEFINE v == a.protocols \o Protocols(o)
  <2>2. v \in Seq(Int)
    BY <1>1, <2>1
  <2>3. /\ Apply(a, o) = [a EXCEPT !.protocols = v]
        /\ HostsOf(o) = {} /\ PortsOf(o) = {}
    BY <1>8, ApplyOne, AddsHosts
  <2> HIDE DEF v
  <2> QED
    BY <2>2, <2>3, SetsProtocols
<1>9. o.opt \in {"ports", "protocol-range"} => o.opt = "ports" \/ o.opt = "protocol-range"
  OBVIOUS
<1> QED
  BY <1>2, <1>3, <1>4, <1>5, <1>6, <1>7, <1>8, <1>9, OptionIs

LEMMA TurnsAre ==
  \A i \in 0 .. Len(Options) :
    /\ Turns(Options)[i] \in Arguments
    /\ ToSet(Turns(Options)[i].addresses) = UNION {HostsOf(Options[k]) : k \in 1 .. i}
    /\ ToSet(Turns(Options)[i].ports) = UNION {PortsOf(Options[k]) : k \in 1 .. i}
<1>1. Len(Options) \in Nat /\ \A i \in 1 .. Len(Options) : Options[i] \in OptionRecords
  BY PortScannerAssumption
<1> DEFINE Hosts(n) == UNION {HostsOf(Options[k]) : k \in 1 .. n}
           Asks(n)  == UNION {PortsOf(Options[k]) : k \in 1 .. n}
           Good(n) == /\ Turns(Options)[n] \in Arguments
                      /\ ToSet(Turns(Options)[n].addresses) = Hosts(n)
                      /\ ToSet(Turns(Options)[n].ports) = Asks(n)
           T == {n \in 0 .. Len(Options) : Good(n)}
<1>2. Good(0)
  <2>1. Turns(Options)[0] = NoArgs
    BY <1>1, TurnsStep
  <2>2. NoArgs \in Arguments
    BY DEF NoArgs, Arguments
  <2>3. ToSet(NoArgs.addresses) = {} /\ ToSet(NoArgs.ports) = {}
    BY DEF NoArgs, ToSet
  <2>4. Hosts(0) = {} /\ Asks(0) = {}
    OBVIOUS
  <2> HIDE DEF Hosts, Asks
  <2> QED
    BY <1>1, <2>1, <2>2, <2>3, <2>4
<1>3. ASSUME NEW i \in 1 .. Len(Options), Good(i - 1) PROVE Good(i)
  <2>1. Turns(Options)[i] = Apply(Turns(Options)[i - 1], Options[i])
    BY <1>1, TurnsStep
  <2>2. 1 .. i = (1 .. i - 1) \cup {i}
    OBVIOUS
  <2>3. /\ Hosts(i) = Hosts(i - 1) \cup HostsOf(Options[i])
        /\ Asks(i) = Asks(i - 1) \cup PortsOf(Options[i])
    BY <2>2
  <2> HIDE DEF Hosts, Asks
  <2>4. /\ Turns(Options)[i - 1] \in Arguments
        /\ ToSet(Turns(Options)[i - 1].addresses) = Hosts(i - 1)
        /\ ToSet(Turns(Options)[i - 1].ports) = Asks(i - 1)
    BY <1>3
  <2>5. /\ Turns(Options)[i] \in Arguments
        /\ ToSet(Turns(Options)[i].addresses) = Hosts(i - 1) \cup HostsOf(Options[i])
        /\ ToSet(Turns(Options)[i].ports) = Asks(i - 1) \cup PortsOf(Options[i])
    BY <1>1, <2>1, <2>4, ApplyIs
  <2> QED
    BY <2>3, <2>5
<1>4. \A i \in 0 .. Len(Options) : Good(i)
  <2> HIDE DEF Good
  <2>1. 0 \in T
    BY <1>1, <1>2
  <2>2. \A i \in 1 .. Len(Options) : i - 1 \in T => i \in T
    BY <1>3
  <2> HIDE DEF T
  <2>3. 0 .. Len(Options) \subseteq T
    BY <1>1, <2>1, <2>2, Counting
  <2> QED
    BY <2>3 DEF T
<1> QED
  BY <1>4

\* What fillOptions() leaves: vectors of numbers, and at least one thread.
LEMMA ArgsAre ==
  /\ args.addresses \in Seq(Int) /\ args.ports \in Seq(Int)
  /\ args.protocols \in Seq(Int)
  /\ args.speedup \in Nat \ {0}
<1> DEFINE last == Turns(Options)[Len(Options)]
<1>1. last \in Arguments
  BY TurnsAre, PortScannerAssumption
<1>2. Run(1, 1024) \in Seq(Int) /\ Run(1, 255) \in Seq(Int)
  BY RunIs
<1> HIDE DEF last
<1>3. /\ args.addresses = last.addresses /\ args.speedup = last.speedup
      /\ args.ports \in {last.ports, Run(1, 1024)}
      /\ args.protocols \in {last.protocols, Run(1, 255)}
  BY <1>1 DEF args, FillOptions, Arguments, last
<1> QED
  BY <1>1, <1>2, <1>3 DEF Arguments

\* The vectors hold what was asked for, in whatever order the options came.
LEMMA AskedIsKept ==
  ToSet(args.addresses) = AskedHosts /\ ToSet(args.ports) = AskedPorts
<1> DEFINE n == Len(Options)
           last == Turns(Options)[n]
<1>1. n \in 0 .. n /\ DOMAIN Options = 1 .. n
  BY PortScannerAssumption
<1>2. /\ last \in Arguments
      /\ ToSet(last.addresses) = UNION {HostsOf(Options[k]) : k \in 1 .. n}
      /\ ToSet(last.ports) = UNION {PortsOf(Options[k]) : k \in 1 .. n}
  BY <1>1, TurnsAre, Zenon
<1> HIDE DEF last
<1>3. ToSet(Options) = {Options[k] : k \in 1 .. n}
  BY <1>1 DEF ToSet
<1>4. /\ ToSet(last.addresses) = UNION {HostsOf(o) : o \in ToSet(Options)}
      /\ ToSet(last.ports) = UNION {PortsOf(o) : o \in ToSet(Options)}
  <2> HIDE DEF n
  <2>1. {HostsOf(o) : o \in ToSet(Options)} = {HostsOf(Options[k]) : k \in 1 .. n}
    BY <1>3, Zenon
  <2>2. {PortsOf(o) : o \in ToSet(Options)} = {PortsOf(Options[k]) : k \in 1 .. n}
    BY <1>3, Zenon
  <2>3. ToSet(last.addresses) = UNION {HostsOf(o) : o \in ToSet(Options)}
    BY <1>2, <2>1, Zenon
  <2>4. ToSet(last.ports) = UNION {PortsOf(o) : o \in ToSet(Options)}
    BY <1>2, <2>2, Zenon
  <2> QED
    BY <2>3, <2>4, Zenon
<1> DEFINE high == 1024
<1>5. /\ args.addresses = last.addresses
      /\ args.ports = IF Given(Options, "ports") THEN last.ports ELSE Run(1, high)
  BY <1>2, SMT DEF args, FillOptions, Arguments, last
<1>6. Given(Options, "ports") <=> \E o \in ToSet(Options) : o.opt = "ports"
  BY DEF Given, ToSet
<1>7. ToSet(Run(1, high)) = 1 .. high
  <2>1. high \in Int
    OBVIOUS
  <2> HIDE DEF high
  <2> QED
    BY <2>1, RunIs
<1> HIDE DEF high
<1>8. ToSet(args.ports) = IF \E o \in ToSet(Options) : o.opt = "ports"
                            THEN UNION {PortsOf(o) : o \in ToSet(Options)} ELSE 1 .. high
  BY <1>4, <1>5, <1>6, <1>7, Zenon
<1> QED
  BY <1>4, <1>5, <1>8, SMT DEF AskedHosts, AskedPorts, high

-----------------------------------------------------------------------------
(* The constants.                                                          *)

LEMMA Constants ==
  /\ Len(args.addresses) \in Nat /\ Entries = 1 .. Len(args.addresses)
  /\ Len(args.ports) \in Nat \ {0} /\ Ports = 1 .. Len(args.ports)
  /\ Main \notin Threads /\ Main \in Procs /\ Threads # {}
  /\ \A t \in Threads : t \in Procs
  /\ \A p \in Procs : p # Main => p \in Threads
  /\ 0 \notin Entries /\ 0 \notin Ports
<1>1. args.ports # << >>
  BY PortScannerAssumption DEF GoodOptions, args
<1>2. /\ Len(args.addresses) \in Nat /\ Entries = 1 .. Len(args.addresses)
      /\ Len(args.ports) \in Nat /\ Ports = 1 .. Len(args.ports)
  BY ArgsAre, LenProperties DEF Entries, Ports
<1>3. Len(args.ports) # 0
  BY <1>1, ArgsAre, EmptySeq
<1>4. args.speedup \in Nat /\ args.speedup >= 1
  BY ArgsAre
<1>5. Main \notin Threads /\ Main \in Procs /\ 1 \in Threads
  BY <1>4 DEF Main, Threads, Procs
<1> QED
  BY <1>2, <1>3, <1>5 DEF Procs

LEMMA NoJobIsNone == NoJob \notin Jobs /\ \A e \in Int : <<e, 0>> \notin Jobs
BY Constants DEF NoJob, Jobs, Ports

LEMMA AllPortsQueue ==
  /\ AllPorts \in Seq(Ports) /\ AllPorts # << >> /\ DOMAIN AllPorts = Ports
  /\ \A i \in Ports : AllPorts[i] = i
<1>1. AllPorts \in Seq(Ports)
  BY Constants DEF AllPorts
<1>2. 1 \in DOMAIN AllPorts
  BY Constants DEF AllPorts
<1> QED
  BY <1>1, <1>2 DEF AllPorts

-----------------------------------------------------------------------------
(* What every action does to the crew's state.                             *)

LEMMA CrewInit == Init => CrewInv
<1> SUFFICES ASSUME Init PROVE CrewInv
  OBVIOUS
<1> USE Constants
<1>1. /\ map_iterator = 1 /\ ip_map = [e \in Entries |-> AllPorts]
      /\ pc = [p \in Procs |-> IF p = Main THEN "join" ELSE "take"]
      /\ job = [p \in Procs |-> NoJob] /\ printed = {}
  BY DEF Init, AllPorts, Ports
<1>2. Labels
  BY <1>1 DEF Labels, Busy
<1>3. Work
  BY <1>1, <1>2 DEF Work, Busy, NoJob, Labels
<1>4. Queues
  BY <1>1, AllPortsQueue DEF Queues
<1>5. Phases /\ Printed
  BY <1>1 DEF Phases, Printed
<1> QED
  BY <1>2, <1>3, <1>4, <1>5 DEF CrewInv

\* The steps of a scan leave the queues, the jobs and what is printed alone;
\* a busy thread stays busy.
ScanMoves(p) ==
  /\ UNCHANGED <<map_iterator, ip_map, job, printed>>
  /\ pc[p] \in Busy /\ \E l \in Busy : pc' = [pc EXCEPT ![p] = l]

LEMMA ConcludeMoves ==
  ASSUME NEW p \in Procs, NEW state, NEW why, Conclude(p, state, why)
  PROVE  \E l \in Busy : pc' = [pc EXCEPT ![p] = l]
<1> DEFINE l == IF Len(results[p]) + 1 < ScanCount(p) THEN "open" ELSE "print"
<1>1. pc' = [pc EXCEPT ![p] = l]
  BY DEF Conclude
<1>2. l \in Busy
  BY DEF Busy
<1> QED
  BY <1>1, <1>2

LEMMA ScanStepMoves ==
  ASSUME NEW p \in Procs, Labels, ScanStep(p) \/ SelectError(p)
  PROVE  ScanMoves(p)
<1> USE DEF queues, wire
<1>1. CASE OpenFirst(p)
  BY <1>1 DEF OpenFirst, ScanMoves, Busy
<1>2. CASE OpenRest(p)
  BY <1>2 DEF OpenRest, ScanMoves, Busy
<1>3. CASE Decide(p)
  <2>1. PICK i \in DOMAIN Round(p) :
          /\ Conclude(p, Heard(p, Round(p)[i]),
                      Head(inbox[p][Round(p)[i]]).kind)
          /\ UNCHANGED <<queues, job, net, printed>>
    BY <1>3 DEF Decide
  <2>2. \E l \in Busy : pc' = [pc EXCEPT ![p] = l]
    BY <2>1, ConcludeMoves
  <2> QED
    BY <1>3, <2>1, <2>2 DEF Decide, ScanMoves, Busy
<1>4. CASE Ignore(p) \/ Retry(p)
  <2>1. /\ UNCHANGED <<map_iterator, ip_map, job, printed, pc>>
        /\ pc[p] = "wait"
    BY <1>4 DEF Ignore, Retry, Undecided
  <2>2. pc' = [pc EXCEPT ![p] = "wait"]
    BY <2>1 DEF Labels
  <2> QED
    BY <2>1, <2>2 DEF ScanMoves, Busy
<1>5. CASE GiveUp(p)
  <2>1. \E l \in Busy : pc' = [pc EXCEPT ![p] = l]
    BY <1>5, ConcludeMoves DEF GiveUp
  <2> QED
    BY <1>5, <2>1 DEF GiveUp, Undecided, ScanMoves, Busy
<1>6. CASE SelectError(p)
  <2>1. \E l \in Busy : pc' = [pc EXCEPT ![p] = l]
    BY <1>6, ConcludeMoves DEF SelectError
  <2> QED
    BY <1>6, <2>1 DEF SelectError, ScanMoves, Busy
<1> QED
  BY <1>1, <1>2, <1>3, <1>4, <1>5, <1>6 DEF ScanStep

LEMMA ScanKeepsCrew ==
  ASSUME NEW p \in Procs, CrewInv, ScanMoves(p)
  PROVE  CrewInv'
<1> USE Constants
<1>1. PICK l \in Busy : pc' = [pc EXCEPT ![p] = l]
  BY DEF ScanMoves
<1>2. \A q \in Procs : pc'[q] = IF q = p THEN l ELSE pc[q]
  BY <1>1 DEF CrewInv, Labels
<1>3. \A q \in Procs : pc'[q] \in Busy <=> pc[q] \in Busy
  BY <1>2 DEF ScanMoves
<1>4. UNCHANGED <<map_iterator, ip_map, job, printed>> /\ pc[p] \in Busy
  BY DEF ScanMoves
<1>5. Labels'
  BY <1>1, <1>2 DEF CrewInv, Labels
<1>6. Work'
  BY <1>3, <1>4 DEF CrewInv, Work
<1>7. Queues' /\ Printed'
  BY <1>4 DEF CrewInv, Queues, Printed
<1>8. Phases'
  <2>1. "exit" \notin Busy /\ "join" \notin Busy
    BY DEF Busy
  <2>2. \A t \in Threads : pc'[t] = "exit" <=> pc[t] = "exit"
    BY <1>2, <1>4, <2>1
  <2>3. pc'[Main] = "join" <=> pc[Main] = "join"
    BY <1>2, <1>4, <2>1
  <2> QED
    BY <1>4, <2>2, <2>3 DEF CrewInv, Phases
<1> QED
  BY <1>5, <1>6, <1>7, <1>8 DEF CrewInv

\* The queue a thread takes from holds something, the port at its head is in
\* it once, and the other queues stay.
LEMMA TakeFrom ==
  ASSUME CrewInv, NEW t \in Threads, Take(t), map_iterator' \in Entries
  PROVE  LET e == map_iterator'
         IN /\ ip_map[e] \in Seq(Ports) /\ ip_map[e] # << >>
            /\ ip_map' = [ip_map EXCEPT ![e] = Tail(@)]
            /\ job' = [job EXCEPT ![t] = <<e, Head(ip_map[e])>>]
            /\ pc' = [pc EXCEPT ![t] = "open"]
            /\ \/ e = map_iterator
               \/ e = map_iterator + 1 /\ map_iterator \in Entries
                                      /\ ip_map[map_iterator] = << >>
<1> USE Constants
<1> DEFINE skip == map_iterator \in Entries /\ ip_map[map_iterator] = << >>
           e == IF skip THEN map_iterator + 1 ELSE map_iterator
<1>1. /\ map_iterator' = e
      /\ e \in Entries => /\ ip_map' = [ip_map EXCEPT ![e] = Tail(@)]
                          /\ job' = [job EXCEPT ![t] = <<e, Head(ip_map[e])>>]
                          /\ pc' = [pc EXCEPT ![t] = "open"]
  BY DEF Take
<1>2. ip_map[e] \in Seq(Ports)
  BY <1>1 DEF CrewInv, Queues
<1>3. ip_map[e] # << >>
  <2>1. CASE skip
    <3>1. e > map_iterator /\ e \in Entries
      BY <1>1, <2>1 DEF CrewInv, Queues
    <3>2. ip_map[e] = AllPorts
      BY <3>1 DEF CrewInv, Queues
    <3> QED
      BY <3>2, AllPortsQueue
  <2>2. CASE ~skip
    BY <1>1, <2>2
  <2> QED
    BY <2>1, <2>2
<1> QED
  BY <1>1, <1>2, <1>3

LEMMA TakeKeepsCrew ==
  ASSUME CrewInv, NEW t \in Threads, Take(t)
  PROVE  CrewInv'
<1> USE Constants
<1>1. CASE map_iterator' \in Entries
  <2> DEFINE e == map_iterator'
             q == ip_map[e]
  <2>1. /\ q \in Seq(Ports) /\ q # << >>
        /\ ip_map' = [ip_map EXCEPT ![e] = Tail(@)]
        /\ job' = [job EXCEPT ![t] = <<e, Head(q)>>]
        /\ pc' = [pc EXCEPT ![t] = "open"]
        /\ \/ e = map_iterator
           \/ e = map_iterator + 1 /\ map_iterator \in Entries
                                  /\ ip_map[map_iterator] = << >>
        /\ e \in Entries
    BY <1>1, TakeFrom
  <2>2. printed' = printed /\ pc[t] = "take"
    BY DEF Take
  <2>3. \A p \in Procs : /\ pc'[p] = IF p = t THEN "open" ELSE pc[p]
                         /\ job'[p] = IF p = t THEN <<e, Head(q)>> ELSE job[p]
    BY <2>1 DEF CrewInv, Labels, Work
  <2>4. /\ Head(q) \in Ports /\ Tail(q) \in Seq(Ports)
        /\ Len(Tail(q)) = Len(q) - 1 /\ Len(q) \in Nat
        /\ DOMAIN q = 1 .. Len(q) /\ DOMAIN Tail(q) = 1 .. Len(Tail(q))
        /\ \A i \in 1 .. Len(Tail(q)) : Tail(q)[i] = q[i + 1]
    BY <2>1, HeadTailProperties, LenProperties
  <2>5. \A f \in Entries : ip_map'[f] = IF f = e THEN Tail(q) ELSE ip_map[f]
    BY <2>1 DEF CrewInv, Queues
  <2>6. Labels'
    BY <2>1, <2>3 DEF CrewInv, Labels, Busy
  <2>7. Work'
    <3>1. <<e, Head(q)>> \in Jobs
      BY <2>1, <2>4 DEF Jobs, Ports
    <3>2. pc'[t] \in Busy /\ job'[t] \in Jobs
      BY <2>3, <3>1 DEF Busy
    <3>3. \A p \in Procs : p # t => pc'[p] = pc[p] /\ job'[p] = job[p]
      BY <2>3
    <3>4. job' \in [Procs -> Jobs \cup {<<f, 0>> : f \in Entries \cup {0}}]
      BY <2>1, <3>1 DEF CrewInv, Work
    <3> QED
      BY <3>2, <3>3, <3>4 DEF CrewInv, Work
  <2>8. Queues'
    <3> HIDE DEF q, e
    <3>1. e \in 1 .. Len(args.addresses) + 1
      BY <2>1
    <3>2. ip_map' \in [Entries -> Seq(Ports)]
      BY <2>1, <2>4 DEF CrewInv, Queues, q
    <3>3. \A f \in Entries : f > e => f > map_iterator /\ f # e
      BY <2>1, <3>1 DEF CrewInv, Queues
    <3>4. \A f \in Entries : f < e =>
            /\ f # e
            /\ \/ f < map_iterator
               \/ f = map_iterator /\ ip_map[f] = << >>
      BY <2>1, <3>1 DEF CrewInv, Queues
    <3>5. \A f \in Entries :
            /\ f > e => ip_map'[f] = AllPorts
            /\ f < e => ip_map'[f] = << >>
      BY <3>3, <3>4, <2>5 DEF CrewInv, Queues
    <3>6. \A i, j \in DOMAIN q : q[i] = q[j] => i = j
      BY <2>1 DEF CrewInv, Queues, q
    <3>7. DOMAIN q \subseteq Ports
      BY <2>1 DEF CrewInv, Queues, q
    <3>8. DOMAIN Tail(q) \subseteq DOMAIN q
      BY <2>4
    <3>9. \A i, j \in DOMAIN Tail(q) : Tail(q)[i] = Tail(q)[j] => i = j
      <4> SUFFICES ASSUME NEW i \in DOMAIN Tail(q), NEW j \in DOMAIN Tail(q),
                          Tail(q)[i] = Tail(q)[j]
                   PROVE  i = j
        OBVIOUS
      <4>0. /\ i \in 1 .. Len(q) - 1 /\ j \in 1 .. Len(q) - 1
            /\ Len(q) \in Nat /\ DOMAIN q = 1 .. Len(q)
            /\ Tail(q)[i] = q[i + 1] /\ Tail(q)[j] = q[j + 1]
        BY <2>4
      <4>1. i + 1 \in DOMAIN q /\ j + 1 \in DOMAIN q
        BY <4>0
      <4>2. q[i + 1] = q[j + 1]
        BY <4>0
      <4>3. i + 1 = j + 1
        BY <3>6, <4>1, <4>2
      <4> QED
        BY <4>0, <4>3
    <3>10. \A f \in Entries :
             /\ DOMAIN ip_map'[f] \subseteq Ports
             /\ \A i, j \in DOMAIN ip_map'[f] :
                  ip_map'[f][i] = ip_map'[f][j] => i = j
      <4> SUFFICES ASSUME NEW f \in Entries
                   PROVE  /\ DOMAIN ip_map'[f] \subseteq Ports
                          /\ \A i, j \in DOMAIN ip_map'[f] :
                               ip_map'[f][i] = ip_map'[f][j] => i = j
        OBVIOUS
      <4>1. CASE f = e
        <5>1. ip_map'[f] = Tail(q)
          BY <2>5, <4>1
        <5>2. DOMAIN Tail(q) \subseteq Ports
          BY <3>7, <3>8
        <5> QED
          BY <3>9, <5>1, <5>2
      <4>2. CASE f # e
        <5>1. ip_map'[f] = ip_map[f]
          BY <2>5, <4>2
        <5>2. /\ DOMAIN ip_map[f] \subseteq Ports
              /\ \A i, j \in DOMAIN ip_map[f] : ip_map[f][i] = ip_map[f][j] => i = j
          BY DEF CrewInv, Queues
        <5> QED
          BY <5>1, <5>2
      <4> QED
        BY <4>1, <4>2
    <3> QED
      BY <3>1, <3>2, <3>5, <3>10 DEF Queues, e
  <2>9. Phases' /\ Printed'
    <3>1. pc[Main] = "join"
      BY <2>2 DEF CrewInv, Phases
    <3>2. pc'[Main] = "join"
      BY <2>3, <3>1
    <3>3. \A u \in Threads : pc[u] # "exit"
      BY <2>1, <2>2 DEF CrewInv, Phases, Queues
    <3>4. \A u \in Threads : pc'[u] # "exit"
      BY <2>3, <3>3
    <3> QED
      BY <2>2, <3>2, <3>4 DEF CrewInv, Phases, Printed
  <2> QED
    BY <2>6, <2>7, <2>8, <2>9 DEF CrewInv
<1>2. CASE map_iterator' \notin Entries
  <2>1. /\ pc' = [pc EXCEPT ![t] = "exit"] /\ pc[t] = "take"
        /\ UNCHANGED <<job, ip_map, printed>>
        /\ map_iterator' =
             IF map_iterator \in Entries /\ ip_map[map_iterator] = << >>
             THEN map_iterator + 1 ELSE map_iterator
    BY <1>2 DEF Take
  <2>2. map_iterator' = Len(args.addresses) + 1
    BY <1>2, <2>1 DEF CrewInv, Queues
  <2>3. \A p \in Procs : pc'[p] = IF p = t THEN "exit" ELSE pc[p]
    BY <2>1 DEF CrewInv, Labels
  <2>4. Labels'
    BY <2>1, <2>3 DEF CrewInv, Labels
  <2>5. \A p \in Procs : pc'[p] \in Busy <=> pc[p] \in Busy
    BY <2>1, <2>3 DEF Busy
  <2>6. Work'
    BY <2>1, <2>5 DEF CrewInv, Work
  <2>7. Queues'
    <3>1. \A e \in Entries : /\ ~ e > map_iterator'
                             /\ e < map_iterator' => ip_map[e] = << >>
      BY <2>1, <2>2 DEF CrewInv, Queues
    <3> QED
      BY <2>1, <2>2, <3>1 DEF CrewInv, Queues
  <2>8. Phases' /\ Printed'
    <3>1. pc[Main] = "join"
      BY <2>1 DEF CrewInv, Phases
    <3>2. pc'[Main] = "join"
      BY <2>3, <3>1
    <3> QED
      BY <2>1, <2>2, <3>2 DEF CrewInv, Phases, Printed
  <2> QED
    BY <2>4, <2>6, <2>7, <2>8 DEF CrewInv
<1> QED
  BY <1>1, <1>2

LEMMA PrintRowsKeepsCrew ==
  ASSUME CrewInv, NEW t \in Threads, PrintRows(t)
  PROVE  CrewInv'
<1> USE Constants
<1>1. /\ pc[t] = "print" /\ pc' = [pc EXCEPT ![t] = "take"]
      /\ job' = [job EXCEPT ![t] = NoJob]
      /\ printed' = printed \cup {job[t]}
      /\ UNCHANGED <<map_iterator, ip_map>>
  BY DEF PrintRows, queues
<1>2. \A p \in Procs : /\ pc'[p] = IF p = t THEN "take" ELSE pc[p]
                       /\ job'[p] = IF p = t THEN NoJob ELSE job[p]
  BY <1>1 DEF CrewInv, Labels, Work
<1>3. "take" \notin Busy /\ "print" \in Busy
  BY DEF Busy
<1>4. job[t] \in Jobs
  BY <1>1, <1>3 DEF CrewInv, Work
<1>5. Labels'
  BY <1>1, <1>2 DEF CrewInv, Labels
<1>6. Work'
  <2>1. NoJob \in {<<e, 0>> : e \in Entries \cup {0}}
    BY DEF NoJob
  <2>2. job' \in [Procs -> Jobs \cup {<<e, 0>> : e \in Entries \cup {0}}]
    BY <1>1, <2>1 DEF CrewInv, Work
  <2> QED
    BY <1>2, <1>3, <2>2 DEF CrewInv, Work
<1>7. Queues' /\ Printed'
  BY <1>1, <1>4 DEF CrewInv, Queues, Printed
<1>8. Phases'
  <2>1. pc[Main] = "join"
    BY <1>1 DEF CrewInv, Phases
  <2>2. pc'[Main] = "join"
    BY <1>2, <2>1
  <2> QED
    BY <1>1, <1>2, <2>2 DEF CrewInv, Phases
<1> QED
  BY <1>5, <1>6, <1>7, <1>8 DEF CrewInv

LEMMA AddressMoves ==
  ASSUME CrewInv, NEW e \in Int, Address(e)
  PROVE  \/ /\ e \in Entries /\ job' = [job EXCEPT ![Main] = <<e, 0>>]
            /\ pc' = [pc EXCEPT ![Main] = "open"]
            /\ args.protocols # << >>
         \/ /\ e \in Entries /\ job' = [job EXCEPT ![Main] = <<e, 0>>]
            /\ pc' = [pc EXCEPT ![Main] = "print"]
         \/ /\ job' = [job EXCEPT ![Main] = NoJob]
            /\ pc' = [pc EXCEPT ![Main] = "end"]
BY DEF Address

LEMMA MainKeepsCrew ==
  ASSUME CrewInv, Join \/ PrintProtocols
  PROVE  CrewInv'
<1> USE Constants
<1>1. PICK e \in Int : Address(e)
  <2>1. CASE Join
    BY <2>1 DEF Join
  <2>2. CASE PrintProtocols
    <3>1. pc[Main] \in Busy
      BY <2>2 DEF PrintProtocols, Busy
    <3>2. job[Main][1] + 1 \in Int
      BY <3>1 DEF CrewInv, Work
    <3> QED
      BY <2>2, <3>2 DEF PrintProtocols
  <2> QED
    BY <2>1, <2>2
<1>2. /\ \A t \in Threads : pc[t] = "exit"
      /\ UNCHANGED <<map_iterator, ip_map>>
      /\ pc[Main] \in {"join", "print"}
  BY DEF Join, PrintProtocols, queues, CrewInv, Phases
<1>3. \/ printed' = printed
      \/ printed' = printed \cup {job[Main]} /\ pc[Main] \in Busy
  BY DEF Join, PrintProtocols, Busy
<1>4. PICK j, l :
        /\ job' = [job EXCEPT ![Main] = j] /\ pc' = [pc EXCEPT ![Main] = l]
        /\ \/ l \in {"open", "print"} /\ j \in {<<f, 0>> : f \in Entries}
           \/ l = "end" /\ j = NoJob
  BY <1>1, AddressMoves
<1>5. \A p \in Procs : /\ pc'[p] = IF p = Main THEN l ELSE pc[p]
                       /\ job'[p] = IF p = Main THEN j ELSE job[p]
  BY <1>4 DEF CrewInv, Labels, Work
<1>6. Labels'
  BY <1>4, <1>5 DEF CrewInv, Labels, Busy
<1>7. Work'
  <2>1. j \in Jobs \cup {<<f, 0>> : f \in Entries \cup {0}}
    BY <1>4 DEF NoJob
  <2>2. IF l \in Busy THEN j \in {<<f, 0>> : f \in Entries} ELSE j = NoJob
    BY <1>4 DEF Busy
  <2>3. \A t \in Threads : pc'[t] = pc[t] /\ job'[t] = job[t]
    BY <1>5
  <2>4. pc'[Main] = l /\ job'[Main] = j
    BY <1>5
  <2> QED
    BY <1>4, <2>1, <2>2, <2>3, <2>4 DEF CrewInv, Work
<1>8. Queues'
  BY <1>2 DEF CrewInv, Queues
<1>9. Phases'
  BY <1>2, <1>5 DEF CrewInv, Phases
<1>10. Printed'
  BY <1>3 DEF CrewInv, Printed, Work
<1> QED
  BY <1>6, <1>7, <1>8, <1>9, <1>10 DEF CrewInv

LEMMA IdleKeepsCrew ==
  ASSUME CrewInv, UNCHANGED <<map_iterator, ip_map, pc, job, printed>>
  PROVE  CrewInv'
BY DEF CrewInv, Labels, Work, Queues, Phases, Printed

\* A step is one of these.
LEMMA Steps ==
  ASSUME [Next]_vars
  PROVE  \/ \E p \in Procs : ScanStep(p) \/ SelectError(p)
         \/ \E t \in Threads : Take(t) \/ PrintRows(t)
         \/ Join \/ PrintProtocols
         \/ \E k \in net : Deliver(k)
         \/ UNCHANGED scanner
BY Constants DEF Next, Step, MainStep, CallFails, vars

LEMMA CrewStep == CrewInv /\ [Next]_vars => CrewInv'
<1> SUFFICES ASSUME CrewInv, [Next]_vars PROVE CrewInv'
  OBVIOUS
<1>1. ASSUME NEW p \in Procs, ScanStep(p) \/ SelectError(p) PROVE CrewInv'
  BY <1>1, ScanStepMoves, ScanKeepsCrew DEF CrewInv
<1>2. ASSUME NEW t \in Threads, Take(t) PROVE CrewInv'
  BY <1>2, TakeKeepsCrew
<1>3. ASSUME NEW t \in Threads, PrintRows(t) PROVE CrewInv'
  BY <1>3, PrintRowsKeepsCrew
<1>4. CASE Join \/ PrintProtocols
  BY <1>4, MainKeepsCrew
<1>5. ASSUME NEW k \in net, Deliver(k) PROVE CrewInv'
  BY <1>5, IdleKeepsCrew DEF Deliver, queues
<1>6. CASE UNCHANGED scanner
  BY <1>6, IdleKeepsCrew DEF scanner, queues, wire
<1> QED
  BY <1>1, <1>2, <1>3, <1>4, <1>5, <1>6, Steps

LEMMA CrewInvariant == Spec => []CrewInv
BY CrewInit, CrewStep, PTL DEF Spec

-----------------------------------------------------------------------------
(* The threads are a pool of workers.                                      *)

Todo == {<<x[1], ip_map[x[1]][x[2]]>> :
           x \in {y \in Jobs : y[2] \in DOMAIN ip_map[y[1]]}}
Hold == [t \in Threads |-> {job[t]} \ {NoJob}]
Done == printed \cap Jobs

\* The jobs to do are what the queues hold.
Queued(e, q) == e \in Entries /\ \E i \in DOMAIN ip_map[e] : ip_map[e][i] = q
TodoIsQueued == /\ Todo \subseteq Jobs
                /\ \A e, q : <<e, q>> \in Todo <=> Queued(e, q)

LEMMA TodoIs == CrewInv => TodoIsQueued
<1> SUFFICES ASSUME CrewInv PROVE TodoIsQueued
  OBVIOUS
<1>1. \A e \in Entries : \A i \in DOMAIN ip_map[e] :
        i \in Ports /\ ip_map[e][i] \in Ports
  <2> SUFFICES ASSUME NEW e \in Entries, NEW i \in DOMAIN ip_map[e]
               PROVE  i \in Ports /\ ip_map[e][i] \in Ports
    OBVIOUS
  <2>1. ip_map[e] \in Seq(Ports) /\ DOMAIN ip_map[e] \subseteq Ports
    BY DEF CrewInv, Queues
  <2>2. i \in 1 .. Len(ip_map[e])
    BY <2>1, LenProperties
  <2> QED
    BY <2>1, <2>2, ElementOfSeq
<1>2. \A e, q : <<e, q>> \in Todo => Queued(e, q)
  BY DEF Todo, Jobs, Queued
<1>3. \A e \in Entries : \A i \in DOMAIN ip_map[e] : <<e, ip_map[e][i]>> \in Todo
  <2> SUFFICES ASSUME NEW e \in Entries, NEW i \in DOMAIN ip_map[e]
               PROVE  <<e, ip_map[e][i]>> \in Todo
    OBVIOUS
  <2>1. <<e, i>> \in {y \in Jobs : y[2] \in DOMAIN ip_map[y[1]]}
    BY <1>1 DEF Jobs, Ports
  <2> QED
    BY <2>1 DEF Todo
<1>4. Todo \subseteq Jobs
  BY <1>1 DEF Todo, Jobs, Ports
<1> QED
  BY <1>2, <1>3, <1>4 DEF TodoIsQueued, Queued

LEMMA TodoIsNext == CrewInv' => TodoIsQueued'
BY TodoIs, PTL

LEMMA PoolInit == Init => Pool!Init
<1> SUFFICES ASSUME Init PROVE Pool!Init
  OBVIOUS
<1> USE Constants
<1>1. /\ ip_map = [e \in Entries |-> AllPorts]
      /\ job = [p \in Procs |-> NoJob] /\ printed = {}
  BY DEF Init, AllPorts, Ports
<1>2. Todo = Jobs
  <2>1. \A x \in Jobs : x[2] \in DOMAIN ip_map[x[1]] /\ ip_map[x[1]][x[2]] = x[2]
    BY <1>1, AllPortsQueue DEF Jobs, Ports
  <2>2. \A x \in Jobs : x = <<x[1], x[2]>>
    BY DEF Jobs
  <2> QED
    BY <2>1, <2>2 DEF Todo
<1>3. Hold = [t \in Threads |-> {}] /\ Done = {}
  BY <1>1 DEF Hold, Done
<1> QED
  BY <1>2, <1>3 DEF Pool!Init, Todo, Hold, Done

\* Taking a port is taking a job; the thread that finds no address left and
\* the one that is told of an empty queue take nothing.
LEMMA TakeIsPool ==
  ASSUME CrewInv, NEW t \in Threads, Take(t)
  PROVE  Pool!Next \/ UNCHANGED Pool!vars
<1> USE Constants
<1>1. CASE map_iterator' \in Entries
  <2> DEFINE e == map_iterator'
             q == ip_map[e]
             j == <<e, Head(q)>>
  <2>1. /\ q \in Seq(Ports) /\ q # << >> /\ e \in Entries
        /\ ip_map' = [ip_map EXCEPT ![e] = Tail(@)]
        /\ job' = [job EXCEPT ![t] = j]
    BY <1>1, TakeFrom
  <2>2. printed' = printed /\ pc[t] = "take"
    BY DEF Take
  <2>3. /\ Head(q) = q[1] /\ Tail(q) \in Seq(Ports)
        /\ Len(Tail(q)) = Len(q) - 1 /\ Len(q) \in Nat \ {0}
        /\ DOMAIN q = 1 .. Len(q) /\ DOMAIN Tail(q) = 1 .. Len(Tail(q))
        /\ \A i \in 1 .. Len(Tail(q)) : Tail(q)[i] = q[i + 1]
    <3> HIDE DEF q
    <3>1. Head(q) = q[1]
      BY <2>1
    <3>2. Len(q) \in Nat \ {0}
      BY <2>1, EmptySeq
    <3> QED
      BY <2>1, <3>1, <3>2, HeadTailProperties, LenProperties
  <2>4. \A f \in Entries : ip_map'[f] = IF f = e THEN Tail(q) ELSE ip_map[f]
    BY <2>1 DEF CrewInv, Queues
  <2>5. \A i, k \in DOMAIN q : q[i] = q[k] => i = k
    BY <2>1 DEF CrewInv, Queues
  <2>6. j \in Todo
    <3>1. 1 \in DOMAIN q /\ q[1] = Head(q)
      BY <2>3
    <3> QED
      BY <3>1, <2>1, TodoIs DEF TodoIsQueued, Queued
  <2>7. CrewInv'
    BY TakeKeepsCrew
  <2>8. /\ Todo \subseteq Jobs /\ Todo' \subseteq Jobs
        /\ \A f, x : <<f, x>> \in Todo <=> Queued(f, x)
        /\ \A f, x : <<f, x>> \in Todo' <=> Queued(f, x)'
    BY <2>7, TodoIs, TodoIsNext DEF TodoIsQueued
  <2>9. Todo' = Todo \ {j}
    <3> SUFFICES ASSUME NEW f \in Entries, NEW x \in Ports
                 PROVE  <<f, x>> \in Todo' <=> <<f, x>> \in Todo /\ <<f, x>> # j
      BY <2>8 DEF Jobs, Ports
    <3> HIDE DEF q, e
    <3>1. CASE f # e
      BY <3>1, <2>4, <2>8 DEF Queued
    <3>2. CASE f = e
      <4>0. ip_map'[f] = Tail(q)
        BY <3>2, <2>4
      <4>1. <<f, x>> \in Todo' <=> \E i \in DOMAIN Tail(q) : Tail(q)[i] = x
        <5>1. <<f, x>> \in Todo' <=> Queued(f, x)'
          BY <2>8
        <5>2. Queued(f, x)' <=> \E i \in DOMAIN ip_map'[f] : ip_map'[f][i] = x
          BY DEF Queued
        <5> QED
          BY <4>0, <5>1, <5>2
      <4>2. <<f, x>> \in Todo <=> \E i \in DOMAIN q : q[i] = x
        BY <3>2, <2>1, <2>8 DEF q, Queued
      <4>3. <<f, x>> # j <=> x # q[1]
        BY <3>2, <2>3
      <4>4. (\E i \in DOMAIN Tail(q) : Tail(q)[i] = x) =>
              (\E i \in DOMAIN q : q[i] = x) /\ x # q[1]
        <5> SUFFICES ASSUME NEW i \in DOMAIN Tail(q), Tail(q)[i] = x
                     PROVE  (\E k \in DOMAIN q : q[k] = x) /\ x # q[1]
          OBVIOUS
        <5>1. i + 1 \in DOMAIN q /\ q[i + 1] = x /\ i + 1 # 1 /\ 1 \in DOMAIN q
          BY <2>3
        <5> QED
          BY <5>1, <2>5
      <4>5. (\E i \in DOMAIN q : q[i] = x) /\ x # q[1] =>
              \E i \in DOMAIN Tail(q) : Tail(q)[i] = x
        <5> SUFFICES ASSUME NEW i \in DOMAIN q, q[i] = x, x # q[1]
                     PROVE  \E k \in DOMAIN Tail(q) : Tail(q)[k] = x
          OBVIOUS
        <5>1. i # 1
          OBVIOUS
        <5>2. i - 1 \in DOMAIN Tail(q) /\ Tail(q)[i - 1] = x
          BY <5>1, <2>3
        <5> QED
          BY <5>2
      <4> QED
        BY <4>1, <4>2, <4>3, <4>4, <4>5
    <3> QED
      BY <3>1, <3>2
  <2>10. Hold[t] = {} /\ Hold' = [Hold EXCEPT ![t] = {j}]
    <3>1. job[t] = NoJob
      BY <2>2 DEF CrewInv, Work, Busy
    <3>2. j # NoJob
      BY <2>1 DEF NoJob
    <3>3. \A u \in Threads : job'[u] = IF u = t THEN j ELSE job[u]
      BY <2>1 DEF CrewInv, Work
    <3> HIDE DEF j
    <3> QED
      BY <3>1, <3>2, <3>3 DEF Hold
  <2>11. Done' = Done
    BY <2>2 DEF Done
  <2>12. Pool!Take(t)
    BY <2>6, <2>9, <2>10, <2>11 DEF Pool!Take, Todo, Hold, Done
  <2> QED
    BY <2>12 DEF Pool!Next
<1>2. CASE map_iterator' \notin Entries
  <2>1. UNCHANGED <<job, ip_map, printed>>
    BY <1>2 DEF Take
  <2>2. UNCHANGED Pool!vars
    BY <2>1 DEF Pool!vars
  <2> QED
    BY <2>2
<1> QED
  BY <1>1, <1>2

LEMMA PrintIsPool ==
  ASSUME CrewInv, NEW t \in Threads, PrintRows(t)
  PROVE  Pool!Next
<1> USE Constants
<1>1. /\ pc[t] = "print" /\ job' = [job EXCEPT ![t] = NoJob]
      /\ printed' = printed \cup {job[t]} /\ ip_map' = ip_map
  BY DEF PrintRows, queues
<1>2. job[t] \in Jobs /\ job[t] # NoJob
  BY <1>1, NoJobIsNone DEF CrewInv, Work, Busy
<1>3. \A u \in Threads : job'[u] = IF u = t THEN NoJob ELSE job[u]
  BY <1>1 DEF CrewInv, Work
<1>4. Hold[t] = {job[t]} /\ Hold' = [Hold EXCEPT ![t] = {}]
  BY <1>2, <1>3 DEF Hold
<1>5. Done' = Done \cup Hold[t]
  BY <1>1, <1>2, <1>4 DEF Done
<1>6. Todo' = Todo
  BY <1>1 DEF Todo
<1>7. Pool!Finish(t)
  BY <1>2, <1>4, <1>5, <1>6 DEF Pool!Finish, Todo, Hold, Done
<1> QED
  BY <1>7 DEF Pool!Next

\* What main() does is no job of the pool.
LEMMA MainIsIdle ==
  ASSUME CrewInv, Join \/ PrintProtocols
  PROVE  UNCHANGED Pool!vars
<1> USE Constants
<1>1. PICK j : job' = [job EXCEPT ![Main] = j]
  BY DEF Join, PrintProtocols, Address
<1>2. \A t \in Threads : job'[t] = job[t]
  BY <1>1 DEF CrewInv, Work
<1>3. ip_map' = ip_map
  BY DEF Join, PrintProtocols, queues
<1>4. printed' \cap Jobs = printed \cap Jobs
  <2>1. CASE Join
    BY <2>1 DEF Join
  <2>2. CASE PrintProtocols
    <3>1. job[Main] \in {<<e, 0>> : e \in Entries}
      BY <2>2 DEF PrintProtocols, CrewInv, Work, Busy
    <3>2. job[Main] \notin Jobs
      BY <3>1, NoJobIsNone
    <3> QED
      BY <2>2, <3>2 DEF PrintProtocols
  <2> QED
    BY <2>1, <2>2
<1> QED
  BY <1>2, <1>3, <1>4 DEF Pool!vars

LEMMA PoolStep == CrewInv /\ [Next]_vars => [Pool!Next]_Pool!vars
<1> SUFFICES ASSUME CrewInv, [Next]_vars
             PROVE  Pool!Next \/ UNCHANGED Pool!vars
  OBVIOUS
<1>1. ASSUME NEW p \in Procs, ScanStep(p) \/ SelectError(p)
      PROVE  UNCHANGED Pool!vars
  BY <1>1, ScanStepMoves DEF ScanMoves, Pool!vars, CrewInv
<1>2. ASSUME NEW t \in Threads, Take(t) PROVE Pool!Next \/ UNCHANGED Pool!vars
  BY <1>2, TakeIsPool
<1>3. ASSUME NEW t \in Threads, PrintRows(t) PROVE Pool!Next
  BY <1>3, PrintIsPool
<1>4. CASE Join \/ PrintProtocols
  BY <1>4, MainIsIdle
<1>5. ASSUME NEW k \in net, Deliver(k) PROVE UNCHANGED Pool!vars
  BY <1>5 DEF Deliver, queues, Pool!vars
<1>6. CASE UNCHANGED scanner
  BY <1>6 DEF scanner, queues, Pool!vars
<1> QED
  BY <1>1, <1>2, <1>3, <1>4, <1>5, <1>6, Steps

\* Every port of every address is taken by one thread, once, and its rows are
\* printed before that thread takes another: what request_handler() does under
\* its two mutexes implements a pool of workers.
THEOREM ThreadsArePool == Spec => IsPool
BY PoolInit, PoolStep, CrewInvariant, PTL DEF Spec, IsPool, Pool!Spec

\* What a pool promises, proved of this one: a port is still to be taken, held
\* by one thread, or done.
LEMMA PoolPartitioned == IsPool => []Pool!Partition
<1> DEFINE Whole == Jobs \subseteq Todo \cup Done \cup UNION {Hold[t] : t \in Threads}
           Apart == /\ Todo \cap Done = {}
                    /\ \A t \in Threads : Hold[t] \cap (Todo \cup Done) = {}
                    /\ \A t, v \in Threads : t # v => Hold[t] \cap Hold[v] = {}
           Split == /\ Hold \in [Threads -> SUBSET Jobs] /\ Todo \subseteq Jobs
                    /\ Whole /\ Apart
           Takes(t, j) == /\ Hold[t] = {} /\ Todo' = Todo \ {j}
                          /\ Hold' = [Hold EXCEPT ![t] = {j}] /\ Done' = Done
           Gives(t) == /\ Done' = Done \cup Hold[t]
                          /\ Hold' = [Hold EXCEPT ![t] = {}] /\ Todo' = Todo
<1>1. Pool!Partition <=> Split
  BY DEF Pool!Partition, Pool!Complete, Pool!Exclusive, Todo, Hold, Done
<1>2. Pool!Init => Split
  BY DEF Pool!Init, Todo, Hold, Done
<1>3. ASSUME Split, NEW t \in Threads, NEW j \in Todo, Takes(t, j) PROVE Split'
  <2>1. \A v \in Threads : Hold'[v] = IF v = t THEN {j} ELSE Hold[v]
    BY <1>3
  <2>2. Whole'
    BY <1>3, <2>1
  <2>3. Apart'
    BY <1>3, <2>1
  <2> QED
    BY <1>3, <2>2, <2>3
<1>4. ASSUME Split, NEW t \in Threads, Gives(t) PROVE Split'
  <2>1. \A v \in Threads : Hold'[v] = IF v = t THEN {} ELSE Hold[v]
    BY <1>4
  <2>2. Whole'
    BY <1>4, <2>1
  <2>3. Apart'
    BY <1>4, <2>1
  <2> QED
    BY <1>4, <2>2, <2>3
<1>5. ASSUME Split, Todo' = Todo, Hold' = Hold, Done' = Done PROVE Split'
  BY <1>5
<1>6. ASSUME NEW t \in Threads, Pool!Take(t) PROVE \E j \in Todo : Takes(t, j)
  BY <1>6 DEF Pool!Take, Todo, Hold, Done
<1>7. ASSUME NEW t \in Threads, Pool!Finish(t) PROVE Gives(t)
  BY <1>7 DEF Pool!Finish, Todo, Hold, Done
<1>8. ASSUME UNCHANGED Pool!vars PROVE Todo' = Todo /\ Hold' = Hold /\ Done' = Done
  BY <1>8 DEF Pool!vars, Todo, Hold, Done
<1> HIDE DEF Split, Takes, Gives
<1>9. Split /\ [Pool!Next]_(Pool!vars) => Split'
  BY <1>3, <1>4, <1>5, <1>6, <1>7, <1>8 DEF Pool!Next
<1> QED
  BY <1>1, <1>2, <1>9, PTL DEF IsPool, Pool!Spec

\* When main() is done every port of every address has been printed: the crew
\* ran out of addresses, so nothing is left to take, and nobody holds a port.
THEOREM EveryPortIsPrinted == Spec => [](pc[Main] = "end" => Jobs \subseteq printed)
<1>1. CrewInv /\ Pool!Partition => (pc[Main] = "end" => Jobs \subseteq printed)
  <2> SUFFICES ASSUME CrewInv, Pool!Partition, pc[Main] = "end"
               PROVE  Jobs \subseteq printed
    OBVIOUS
  <2> USE Constants
  <2>1. \A t \in Threads : pc[t] = "exit"
    BY DEF CrewInv, Phases
  <2>2. \A t \in Threads : Hold[t] = {}
    BY <2>1 DEF CrewInv, Work, Busy, Hold
  <2>3. map_iterator = Len(args.addresses) + 1
    BY <2>1 DEF CrewInv, Phases
  <2>4. \A e \in Entries : ip_map[e] = << >>
    BY <2>3 DEF CrewInv, Queues
  <2>5. \A e, q : ~ Queued(e, q)
    BY <2>4 DEF Queued
  <2>6. \A e, q : <<e, q>> \notin Todo
    BY <2>5, TodoIs DEF TodoIsQueued
  <2>7. Todo = {}
    BY <2>6, TodoIs DEF TodoIsQueued, Jobs
  <2>8. Jobs \subseteq Todo \cup Done \cup UNION {Hold[t] : t \in Threads}
    BY DEF Pool!Partition, Pool!Complete, Todo, Done, Hold
  <2> QED
    BY <2>2, <2>7, <2>8 DEF Done
<1> QED
  BY <1>1, PoolPartitioned, CrewInvariant, ThreadsArePool, PTL

\* When the program ends it has reported the ports that the command line asks for,
\* of the hosts it asks for, and no others: the options, in any order and however
\* often they are given, are what the threads work off.
THEOREM AskedReported == Spec => []AskedIsReported
<1>1. (pc[Main] = "end" => Jobs \subseteq printed) => AskedIsReported
  <2> SUFFICES ASSUME Jobs \subseteq printed
               PROVE  {<<args.addresses[j[1]], args.ports[j[2]]>> : j \in printed \cap Jobs}
                        = AskedHosts \X AskedPorts
    BY DEF AskedIsReported
  <2>1. printed \cap Jobs = Jobs
    OBVIOUS
  <2>2. {<<args.addresses[j[1]], args.ports[j[2]]>> : j \in Jobs}
          = ToSet(args.addresses) \X ToSet(args.ports)
    <3> DEFINE hs == args.addresses
               ps == args.ports
               D  == DOMAIN hs
               E  == DOMAIN ps
    <3>1. /\ Jobs = D \X E
          /\ ToSet(hs) = {hs[i] : i \in D} /\ ToSet(ps) = {ps[i] : i \in E}
      BY DEF Jobs, Entries, ToSet
    <3> HIDE DEF hs, ps, D, E
    <3>2. {<<hs[j[1]], ps[j[2]]>> : j \in D \X E} = {hs[i] : i \in D} \X {ps[i] : i \in E}
      <4>1. ASSUME NEW j \in D \X E
            PROVE  <<hs[j[1]], ps[j[2]]>> \in {hs[i] : i \in D} \X {ps[i] : i \in E}
        BY j[1] \in D /\ j[2] \in E
      <4>2. ASSUME NEW i \in D, NEW k \in E
            PROVE  \E j \in D \X E : <<hs[i], ps[k]>> = <<hs[j[1]], ps[j[2]]>>
        <5>1. <<i, k>> \in D \X E /\ <<i, k>>[1] = i /\ <<i, k>>[2] = k
          OBVIOUS
        <5> QED
          BY <5>1, Zenon
      <4>3. ASSUME NEW x \in {hs[i] : i \in D} \X {ps[i] : i \in E}
            PROVE  x \in {<<hs[j[1]], ps[j[2]]>> : j \in D \X E}
        <5>1. PICK i \in D, k \in E : x = <<hs[i], ps[k]>>
          OBVIOUS
        <5> QED
          BY <4>2, <5>1
      <4> QED
        BY <4>1, <4>3
    <3>3. {<<hs[j[1]], ps[j[2]]>> : j \in Jobs} = ToSet(hs) \X ToSet(ps)
      BY <3>1, <3>2
    <3> QED
      BY <3>3 DEF hs, ps
  <2> QED
    BY <2>1, <2>2, AskedIsKept
<1> QED
  BY <1>1, EveryPortIsPrinted, PTL

-----------------------------------------------------------------------------
(* The scans, and the packets that answer them.                            *)

PortScans == {[type |-> y, host |-> args.addresses[j[1]],
               port |-> args.ports[j[2]], protocol |-> 0] :
                y \in TcpTypes \cup {"UDP"}, j \in Jobs}
ProtocolScans == {ProtocolScan(e, i) : e \in Entries, i \in DOMAIN args.protocols}
Scans == PortScans \cup ProtocolScans

\* main() probes protocols when the threads have gone.
Underway == IF pc[Main] = "join" THEN PortScans ELSE Scans
PacketsOf(S) == UNION {Answers(q) : q \in [scan : S, try : 1 .. 4]}

\* SYN is the first of the scans, if it is one.
SynFirst(s) == /\ s \in Seq(TcpTypes \cup {"UDP"})
               /\ \A i \in 1 .. Len(s) : s[i] = "SYN" => i = 1

LEMMA SelectedIs ==
  ASSUME NEW S, NEW y \in S
  PROVE  Selected(y) \in Seq(S) /\ Len(Selected(y)) \in {0, 1}
<1>1. CASE y \in args.scans
  BY <1>1 DEF Selected
<1>2. CASE y \notin args.scans
  BY <1>2, EmptySeq DEF Selected
<1> QED
  BY <1>1, <1>2

LEMMA SynStaysFirst ==
  ASSUME NEW s, SynFirst(s), NEW r \in Seq(TcpTypes \cup {"UDP"}),
         \A i \in 1 .. Len(r) : r[i] # "SYN"
  PROVE  SynFirst(s \o r)
<1> DEFINE T == TcpTypes \cup {"UDP"}
<1>1. s \in Seq(T) /\ \A i \in 1 .. Len(s) : s[i] = "SYN" => i = 1
  BY DEF SynFirst
<1>2. Len(s) \in Nat /\ Len(r) \in Nat
  BY <1>1, LenProperties
<1> HIDE DEF T
<1>3. /\ s \o r \in Seq(T) /\ Len(s \o r) = Len(s) + Len(r)
      /\ \A i \in 1 .. Len(s) + Len(r) :
           (s \o r)[i] = IF i <= Len(s) THEN s[i] ELSE r[i - Len(s)]
  BY <1>1, ConcatProperties DEF T
<1>4. ASSUME NEW i \in 1 .. Len(s \o r), (s \o r)[i] = "SYN" PROVE i = 1
  <2>1. CASE i <= Len(s)
    BY <1>1, <1>2, <1>3, <1>4, <2>1
  <2>2. CASE ~ i <= Len(s)
    <3>1. i - Len(s) \in 1 .. Len(r)
      BY <1>2, <1>3, <2>2
    <3>2. (s \o r)[i] = r[i - Len(s)]
      BY <1>3, <2>2
    <3> QED
      BY <1>4, <3>1, <3>2
  <2> QED
    BY <2>1, <2>2
<1> QED
  BY <1>3, <1>4 DEF SynFirst, T

LEMMA OneMore ==
  ASSUME NEW s, SynFirst(s), NEW y \in {"NULL", "FIN", "XMAS", "ACK"}
  PROVE  SynFirst(s \o Selected(y))
<1>1. y \in TcpTypes \cup {"UDP"}
  BY DEF TcpTypes
<1>2. Selected(y) \in Seq(TcpTypes \cup {"UDP"}) /\ Selected(y) \in Seq({y})
  BY <1>1, SelectedIs
<1>3. \A i \in 1 .. Len(Selected(y)) : Selected(y)[i] # "SYN"
  BY <1>2, ElementOfSeq
<1> QED
  BY <1>2, <1>3, SynStaysFirst

LEMMA PortTypesAre == SynFirst(PortTypes) /\ Len(PortTypes) \in Nat \ {0}
<1>1. SynFirst(Selected("SYN"))
  <2>1. "SYN" \in TcpTypes \cup {"UDP"}
    BY DEF TcpTypes
  <2>2. /\ Selected("SYN") \in Seq(TcpTypes \cup {"UDP"})
        /\ Len(Selected("SYN")) \in {0, 1}
    BY <2>1, SelectedIs
  <2> QED
    BY <2>2 DEF SynFirst
<1> DEFINE a == Selected("SYN") \o Selected("NULL")
           b == a \o Selected("FIN")
           c == b \o Selected("XMAS")
           d == c \o Selected("ACK")
           u == <<"UDP">>
<1>2. SynFirst(a)
  BY <1>1, OneMore
<1> HIDE DEF a
<1>3. SynFirst(b)
  BY <1>2, OneMore
<1> HIDE DEF b
<1>4. SynFirst(c)
  BY <1>3, OneMore
<1> HIDE DEF c
<1>5. SynFirst(d)
  BY <1>4, OneMore
<1>6. /\ u \in Seq(TcpTypes \cup {"UDP"}) /\ Len(u) = 1
      /\ \A i \in 1 .. Len(u) : u[i] # "SYN"
  OBVIOUS
<1> HIDE DEF d, u
<1>7. SynFirst(d \o u)
  BY <1>5, <1>6, SynStaysFirst
<1>8. Len(d \o u) \in Nat \ {0}
  <2>1. Len(d) \in Nat /\ Len(d \o u) = Len(d) + Len(u)
    BY <1>5, <1>6, LenProperties, ConcatProperties DEF SynFirst
  <2> QED
    BY <2>1, <1>6
<1>9. PortTypes = d \o u
  BY DEF PortTypes, a, b, c, d, u
<1> QED
  BY <1>7, <1>8, <1>9

LEMMA PortScansAre ==
  ASSUME NEW s \in PortScans
  PROVE  /\ s.type \in TcpTypes \cup {"UDP"} /\ s.type # "PROTOCOL"
         /\ TcpClass[<<s.host, HeaderPort(s.port)>>]
              \in {"open", "closed", "silent", "rejected"}
BY HostsAssumption DEF PortScans, TcpTypes

LEMMA ProtocolScansAre ==
  ASSUME NEW s \in ProtocolScans
  PROVE  s.type = "PROTOCOL"
BY DEF ProtocolScans, ProtocolScan

\* What a packet that answers a scan of a port says of the port.
Tells(k) ==
  LET s     == k.probe.scan
      class == TcpClass[<<s.host, HeaderPort(s.port)>>]
  IN /\ k.kind \in {"TCP", "ICMP"}
     /\ k.kind = "ICMP" => \/ class = "rejected"
                           \/ UdpClass[<<s.host, HeaderPort(s.port)>>] = "closed"
     /\ k.kind = "TCP" => /\ class \in {"open", "closed"}
                          /\ "syn" \in k.flags => class = "open"
                          /\ {"rst", "ack"} \subseteq k.flags => class = "closed"

LEMMA TcpAnswersTell ==
  ASSUME NEW q, q.scan \in PortScans, NEW k \in TcpAnswers(q)
  PROVE  Tells(k)
<1> DEFINE s == q.scan
           class == TcpClass[<<s.host, HeaderPort(s.port)>>]
<1>1. \/ class = "rejected" /\ k = Icmp(q, "PKT_FILTERED")
      \/ class \in {"open", "closed"} /\ k = Segment(q, {"rst"})
      \/ class = "closed" /\ k = Segment(q, {"rst", "ack"})
      \/ class = "open" /\ k = Segment(q, {"syn", "ack"})
  BY DEF TcpAnswers
<1> HIDE DEF class
<1>a. \A f : LET m == Segment(q, f) IN m.kind = "TCP" /\ m.probe = q /\ m.flags = f
  BY DEF Segment
<1>b. \A c : LET m == Icmp(q, c) IN m.kind = "ICMP" /\ m.probe = q
  BY DEF Icmp
<1>2. \/ class = "rejected" /\ k.kind = "ICMP" /\ k.probe = q
      \/ class = "open" /\ k.kind = "TCP" /\ k.probe = q /\ "rst" \notin k.flags
      \/ /\ class = "closed" /\ k.kind = "TCP" /\ k.probe = q
         /\ "syn" \notin k.flags
      \/ /\ class \in {"open", "closed"} /\ k.kind = "TCP" /\ k.probe = q
         /\ "syn" \notin k.flags /\ "ack" \notin k.flags
  BY <1>1, <1>a, <1>b
<1>3. k.probe = q => class = TcpClass[<<k.probe.scan.host, HeaderPort(k.probe.scan.port)>>]
  BY DEF class
<1> QED
  BY <1>2, <1>3 DEF Tells

LEMMA PortAnswersTell ==
  ASSUME NEW k \in PacketsOf(PortScans)
  PROVE  Tells(k)
<1>1. PICK q \in [scan : PortScans, try : 1 .. 4] : k \in Answers(q)
  BY DEF PacketsOf
<1>2. q.scan \in PortScans
  BY <1>1
<1>3. CASE q.scan.type \in TcpTypes
  <2>1. Answers(q) = TcpAnswers(q)
    BY <1>3 DEF Answers, TcpTypes
  <2> QED
    BY <1>1, <1>2, <2>1, TcpAnswersTell
<1>4. CASE q.scan.type = "UDP"
  <2>1. /\ k = Icmp(q, "PORT_UNREACH")
        /\ UdpClass[<<q.scan.host, HeaderPort(q.scan.port)>>] = "closed"
    BY <1>1, <1>4 DEF Answers, TcpTypes
  <2> QED
    BY <2>1 DEF Tells, Icmp
<1> QED
  BY <1>2, <1>3, <1>4, PortScansAre

LEMMA PacketKinds ==
  ASSUME NEW k \in PacketsOf(Scans)
  PROVE  k.kind \in {"TCP", "ICMP"}
<1>1. PICK q \in [scan : Scans, try : 1 .. 4] : k \in Answers(q)
  BY DEF PacketsOf
<1>2. CASE q.scan \in PortScans
  <2>1. q \in [scan : PortScans, try : 1 .. 4]
    BY <1>1, <1>2
  <2>2. k \in PacketsOf(PortScans)
    BY <1>1, <2>1 DEF PacketsOf
  <2> QED
    BY <2>2, PortAnswersTell DEF Tells
<1>3. CASE q.scan \in ProtocolScans
  <2>1. q.scan.type = "PROTOCOL"
    BY <1>3, ProtocolScansAre
  <2>2. k = Icmp(q, "PROT_UNREACH")
    BY <1>1, <2>1 DEF Answers, TcpTypes
  <2> QED
    BY <2>2 DEF Icmp
<1> QED
  BY <1>1, <1>2, <1>3 DEF Scans

LEMMA VerdictStates ==
  ASSUME NEW s, NEW k
  PROVE  Verdict(s, k) \in States
BY DEF Verdict, ProtocolVerdict, OtherVerdict, UdpVerdict, UnreachableVerdict,
       TcpVerdict, FlagsVerdict, States

LEMMA TimeoutStates ==
  ASSUME NEW s
  PROVE  TimeoutVerdict(s) \in States
BY DEF TimeoutVerdict, States

\* A packet that decides a scan of a port answers a scan of that port, and
\* what the scan concludes is what the packet says.
LEMMA VerdictTells ==
  ASSUME NEW s \in PortScans, NEW k \in PacketsOf(PortScans), Verdict(s, k) # ""
  PROVE  /\ Truthful([scan |-> s, state |-> Verdict(s, k), why |-> k.kind])
         /\ Verdict(s, k) = "OPEN" => TcpClass[<<s.host, s.port>>] = "open"
<1> DEFINE r == [scan |-> s, state |-> Verdict(s, k), why |-> k.kind]
           class == TcpClass[<<s.host, s.port>>]
           v == Verdict(s, k)
<1>1. Tells(k)
  BY PortAnswersTell
<1>2. s.type \in TcpTypes \cup {"UDP"} /\ s.type # "PROTOCOL"
  BY PortScansAre
<1>3. CASE k.kind = "ICMP"
  <2>1. v = UnreachableVerdict(s, k)
    BY <1>2, <1>3 DEF Verdict, UdpVerdict
  <2>2. k.probe.scan.host = s.host /\ HeaderPort(k.probe.scan.port) = s.port /\ v = "FILTERED"
    BY <2>1 DEF UnreachableVerdict
  <2> QED
    BY <1>1, <1>3, <2>2 DEF Tells, Truthful
<1>4. CASE k.kind = "TCP"
  <2>1. s.type # "UDP" /\ v = TcpVerdict(s, k)
    BY <1>2, <1>4 DEF Verdict, UdpVerdict
  <2>2. /\ k.probe.scan.host = s.host /\ HeaderPort(k.probe.scan.port) = s.port
        /\ v = FlagsVerdict(s, k)
    BY <2>1 DEF TcpVerdict
  <2>3. \/ v = "OPEN" /\ "syn" \in k.flags
        \/ v = "CLOSED" /\ {"rst", "ack"} \subseteq k.flags
        \/ v = "UNFILTERED"
    BY <2>2 DEF FlagsVerdict
  <2>4. \/ v = "OPEN" /\ class = "open"
        \/ v = "CLOSED" /\ class = "closed"
        \/ v = "UNFILTERED" /\ class \in {"open", "closed"}
    BY <1>1, <1>4, <2>2, <2>3 DEF Tells
  <2> HIDE DEF v
  <2>5. r.scan = s /\ r.state = v /\ r.why = "TCP"
    BY <1>4 DEF v
  <2> HIDE DEF r
  <2>6. Truthful(r)
    BY <2>4, <2>5 DEF Truthful
  <2> QED
    BY <2>4, <2>6 DEF v, r
<1> QED
  BY <1>1, <1>3, <1>4 DEF Tells

-----------------------------------------------------------------------------
(* The rest of the invariant.                                              *)

\* A scan has sockets while it runs; what service checks leave is finite.
Sockets ==
  /\ fd \in [Procs -> [recv : Nat, send : Nat, icmp : Nat]]
  /\ \A p \in Procs : pc[p] \notin {"probe", "wait"} => fd[p] = NoSockets
  /\ leaked \in SUBSET Nat /\ IsFiniteSet(leaked)

\* All packets answer scans, and each kind has its socket.
Packets(kind) == {k \in PacketsOf(Underway) : k.kind = kind}
Traffic ==
  /\ net \subseteq PacketsOf(Underway)
  /\ inbox \in [Procs -> [recv : Seq(Packets("TCP")), icmp : Seq(Packets("ICMP"))]]

Tries == retry_count \in [Procs -> 0 .. 2]

\* A thread has no more rows than scans, and none when it is at no port.
Rows == [scan : Scans, state : States, why : {"TCP", "ICMP", "timeout", "error"}]
RowsKept ==
  /\ results \in [Procs -> Seq(Rows)]
  /\ \A p \in Procs : pc[p] \in {"open", "probe", "wait"} =>
                        Len(results[p]) < ScanCount(p)
  /\ \A p \in Procs : pc[p] \notin Busy => results[p] = << >>
  /\ VerdictIsTrue

\* A service check leaves one socket for an open port, when its first scan is
\* done.
Served == {j \in Services : \/ j \in printed
                            \/ \E t \in Threads : job[t] = j /\ results[t] # << >>}
LeaksCounted == Cardinality(leaked) <= Cardinality(Served)

ScanInv == CrewInv /\ Sockets /\ Traffic /\ Tries /\ RowsKept

-----------------------------------------------------------------------------
(* Descriptors.                                                            *)

Names == {"recv", "send", "icmp"}

\* A set of natural numbers has a least one.
LEMMA MinIs ==
  ASSUME NEW S, S \subseteq Nat, S # {}
  PROVE  Min(S) \in S
<1>1. PICK x \in S : \A y \in S : <<y, x>> \notin OpToRel(<, Nat)
  BY WFMin, NatLessThanWellFounded, Zenon
<1>2. \A y \in S : ~ y < x
  BY <1>1 DEF OpToRel
<1>3. \A y \in S : x <= y
  BY <1>2
<1> QED
  BY <1>3 DEF Min

\* There is a free descriptor, and socket() gives one that is free.
LEMMA LowestIsFree ==
  ASSUME NEW used, IsFiniteSet(used)
  PROVE  Lowest(used) \in Nat \ {0} /\ Lowest(used) \notin used
<1> DEFINE n == Cardinality(used)
           S == (1 .. n + 1) \ used
<1>1. n \in Nat
  BY FS_CardinalityType
<1>2. S # {}
  <2> SUFFICES ASSUME S = {} PROVE FALSE
    OBVIOUS
  <2>1. 1 .. n + 1 \in SUBSET used
    OBVIOUS
  <2> HIDE DEF n
  <2>2. IsFiniteSet(1 .. n + 1) /\ Cardinality(1 .. n + 1) = n + 1
    BY <1>1, FS_Interval
  <2>3. Cardinality(1 .. n + 1) <= Cardinality(used)
    BY <2>1, FS_Subset
  <2> QED
    BY <1>1, <2>2, <2>3 DEF n
<1>3. S \subseteq Nat \ {0}
  BY <1>1
<1>4. Min(S) \in S
  BY <1>2, <1>3, MinIs
<1> QED
  BY <1>3, <1>4 DEF Lowest

\* What the processes of P have open is at most three times their number.
Open(P) == {fd[x[1]][x[2]] : x \in P \X Names}

LEMMA OpenIsBounded ==
  ASSUME NEW P, IsFiniteSet(P)
  PROVE  /\ IsFiniteSet(Open(P)) /\ Cardinality(Open(P)) \in Nat
         /\ Cardinality(P) \in Nat /\ Cardinality(Open(P)) <= 3 * Cardinality(P)
<1>1. IsFiniteSet(Names) /\ Cardinality(Names) = 3
  <2>1. IsFiniteSet({}) /\ Cardinality({}) = 0
    BY FS_EmptySet
  <2>2. IsFiniteSet({"recv"}) /\ Cardinality({"recv"}) = 1
    BY FS_Singleton
  <2>3. IsFiniteSet({"recv", "send"}) /\ Cardinality({"recv", "send"}) = 2
    <3>1. {"recv", "send"} = {"recv"} \cup {"send"}
      OBVIOUS
    <3> QED
      BY <2>2, <3>1, FS_AddElement
  <2>4. Names = {"recv", "send"} \cup {"icmp"}
    BY DEF Names
  <2> QED
    BY <2>3, <2>4, FS_AddElement
<1>2. IsFiniteSet(P \X Names) /\ Cardinality(P \X Names) = Cardinality(P) * 3
  BY <1>1, FS_Product
<1> DEFINE f == [x \in P \X Names |-> fd[x[1]][x[2]]]
<1>3. f \in Surjection(P \X Names, Open(P))
  BY DEF Surjection, Open
<1>4. /\ IsFiniteSet(Open(P))
      /\ Cardinality(Open(P)) <= Cardinality(P \X Names)
  <2> HIDE DEF f
  <2> QED
    BY <1>2, <1>3, FS_Surjection
<1>5. Cardinality(P) \in Nat /\ Cardinality(Open(P)) \in Nat
  BY <1>4, FS_CardinalityType
<1> QED
  BY <1>2, <1>4, <1>5

LEMMA ProcsAreFinite == IsFiniteSet(Procs)
<1>1. IsFiniteSet(Threads)
  BY ArgsAre, FS_Interval DEF Threads
<1> QED
  BY <1>1, FS_AddElement DEF Procs

LEMMA UsedIs ==
  ASSUME Sockets
  PROVE  Used = leaked \cup Open(Procs) /\ IsFiniteSet(Used)
<1>1. Open(Procs) = UNION {{fd[p].recv, fd[p].send, fd[p].icmp} : p \in Procs}
  <2>1. ASSUME NEW d, d \in Open(Procs)
        PROVE  \E p \in Procs : d \in {fd[p].recv, fd[p].send, fd[p].icmp}
    BY <2>1 DEF Open, Names
  <2>2. ASSUME NEW p \in Procs, NEW d \in {fd[p].recv, fd[p].send, fd[p].icmp}
        PROVE  d \in Open(Procs)
    <3>1. PICK n \in Names : d = fd[p][n]
      BY DEF Names
    <3>2. <<p, n>> \in Procs \X Names
      OBVIOUS
    <3> QED
      BY <3>1, <3>2 DEF Open
  <2> QED
    BY <2>1, <2>2
<1>2. Used = leaked \cup Open(Procs)
  BY <1>1 DEF Used
<1>3. IsFiniteSet(Open(Procs))
  BY ProcsAreFinite, OpenIsBounded
<1> QED
  BY <1>2, <1>3, FS_Union DEF Sockets

-----------------------------------------------------------------------------
(* The scans.                                                              *)

AtScan == {"open", "probe", "wait"}

\* Once main() has joined the threads it does not go back.
LEMMA UnderwayGrows ==
  ASSUME CrewInv, [Next]_vars
  PROVE  PacketsOf(Underway) \subseteq PacketsOf(Underway')
<1> USE Constants
<1>1. pc'[Main] = "join" => pc[Main] = "join"
  <2>1. ASSUME NEW p \in Procs, ScanStep(p) \/ SelectError(p)
        PROVE  pc'[Main] = "join" => pc[Main] = "join"
    <3>1. PICK l \in Busy : pc' = [pc EXCEPT ![p] = l]
      BY <2>1, ScanStepMoves DEF ScanMoves, CrewInv
    <3>2. l # "join"
      BY DEF Busy
    <3> QED
      BY <3>1, <3>2 DEF CrewInv, Labels
  <2>2. ASSUME NEW t \in Threads, Take(t) \/ PrintRows(t)
        PROVE  pc'[Main] = "join" => pc[Main] = "join"
    BY <2>2 DEF Take, PrintRows, CrewInv, Labels
  <2>3. ASSUME Join \/ PrintProtocols
        PROVE  pc'[Main] = "join" => pc[Main] = "join"
    BY <2>3 DEF Join, PrintProtocols, Address, CrewInv, Labels
  <2>4. ASSUME NEW k \in net, Deliver(k)
        PROVE  pc'[Main] = "join" => pc[Main] = "join"
    BY <2>4 DEF Deliver
  <2> QED
    BY <2>1, <2>2, <2>3, <2>4, Steps DEF scanner
<1>2. Underway \subseteq Underway'
  BY <1>1 DEF Underway, Scans
<1> QED
  BY <1>2 DEF PacketsOf

LEMMA ScanIs ==
  ASSUME ScanInv, NEW p \in Procs, pc[p] \in AtScan
  PROVE  /\ Scan(p) \in Underway /\ Scan(p) \in Scans
         /\ p = Main => Scan(p).type = "PROTOCOL"
         /\ p # Main =>
              /\ pc[Main] = "join" /\ Scan(p) \in PortScans
              /\ job[p] \in Jobs
              /\ Scan(p).host = args.addresses[job[p][1]]
              /\ Scan(p).port = args.ports[job[p][2]]
              /\ Scan(p).type = "SYN" => results[p] = << >>
<1> USE Constants
<1> DEFINE i == Len(results[p]) + 1
<1>1. Len(results[p]) \in Nat /\ Len(results[p]) < ScanCount(p)
  BY LenProperties DEF ScanInv, RowsKept, AtScan
<1>2. pc[p] \in Busy
  BY DEF AtScan, Busy
<1>3. CASE p = Main
  <2>1. /\ job[p] \in {<<e, 0>> : e \in Entries} /\ pc[Main] # "join"
        /\ Scan(p) = ProtocolScan(job[p][1], i)
    BY <1>2, <1>3 DEF ScanInv, CrewInv, Work, Busy, Scan
  <2>2. i \in DOMAIN args.protocols
    BY <1>1, <1>3, ArgsAre, LenProperties DEF ScanCount
  <2>3. Scan(p) \in ProtocolScans
    BY <2>1, <2>2 DEF ProtocolScans
  <2> QED
    BY <1>3, <2>1, <2>3, ProtocolScansAre DEF Underway, Scans
<1>4. CASE p # Main
  <2>1. /\ p \in Threads /\ job[p] \in Jobs
        /\ Scan(p) = PortScan(job[p], i)
    BY <1>2, <1>4 DEF ScanInv, CrewInv, Work, Scan
  <2>2. pc[Main] = "join"
    BY <1>2, <2>1 DEF ScanInv, CrewInv, Phases, Busy
  <2>3. i \in 1 .. Len(PortTypes)
    BY <1>1, <1>4, PortTypesAre DEF ScanCount
  <2>4. PortTypes[i] \in TcpTypes \cup {"UDP"} /\ (PortTypes[i] = "SYN" => i = 1)
    BY <2>3, PortTypesAre, ElementOfSeq DEF SynFirst
  <2>5. Scan(p) \in PortScans
    BY <2>1, <2>4 DEF PortScan, PortScans
  <2>6. Scan(p).type = "SYN" => results[p] = << >>
    <3>1. Scan(p).type = PortTypes[i]
      BY <2>1 DEF PortScan
    <3>2. results[p] # << >> => Len(results[p]) # 0
      BY EmptySeq DEF ScanInv, RowsKept
    <3> QED
      BY <1>1, <2>4, <3>1, <3>2
  <2> QED
    BY <1>4, <2>1, <2>2, <2>5, <2>6 DEF Underway, Scans, PortScan
<1> QED
  BY <1>3, <1>4

LEMMA RoundIs ==
  ASSUME NEW p \in Procs, NEW i \in DOMAIN Round(p)
  PROVE  Round(p)[i] \in {"recv", "icmp"} /\ Readable(p, Round(p)[i])
<1> DEFINE S == {x \in {"recv", "icmp"} : Readable(p, x)}
<1>1. ASSUME NEW x \in {"recv", "icmp"} PROVE Ready(p, x) \in Seq(S)
  <2>1. CASE Readable(p, x)
    BY <2>1 DEF Ready
  <2>2. CASE ~ Readable(p, x)
    BY <2>2, EmptySeq DEF Ready
  <2> QED
    BY <2>1, <2>2
<1>2. Ready(p, "recv") \in Seq(S) /\ Ready(p, "icmp") \in Seq(S)
  BY <1>1
<1> HIDE DEF S
<1>3. Round(p) \in Seq(S)
  BY <1>2, ConcatProperties DEF Round
<1>4. Round(p)[i] \in S
  BY <1>3, LenProperties, ElementOfSeq
<1> QED
  BY <1>4 DEF S

\* What a scan concludes from a packet is so.
LEMMA HeardIs ==
  ASSUME ScanInv, NEW p \in Procs, pc[p] = "wait",
         NEW x \in {"recv", "icmp"}, Readable(p, x), Heard(p, x) # ""
  PROVE  LET k == Head(inbox[p][x])
         IN /\ Heard(p, x) \in States /\ k.kind \in {"TCP", "ICMP"}
            /\ Truthful([scan |-> Scan(p), state |-> Heard(p, x), why |-> k.kind])
            /\ p # Main /\ Heard(p, x) = "OPEN" =>
                 TcpClass[<<Scan(p).host, Scan(p).port>>] = "open"
<1> DEFINE k == Head(inbox[p][x])
<1>1. Heard(p, x) = Verdict(Scan(p), k)
  BY DEF Heard
<1>2. k \in PacketsOf(Underway)
  <2>1. PICK S : inbox[p][x] \in Seq(S) /\ S \subseteq PacketsOf(Underway)
    <3>1. inbox[p] \in [recv : Seq(Packets("TCP")), icmp : Seq(Packets("ICMP"))]
      BY DEF ScanInv, Traffic
    <3>2. \A kind : Packets(kind) \subseteq PacketsOf(Underway)
      BY DEF Packets
    <3>3. CASE x = "recv"
      BY <3>1, <3>2, <3>3
    <3>4. CASE x = "icmp"
      BY <3>1, <3>2, <3>4
    <3> QED
      BY <3>3, <3>4
  <2>2. inbox[p][x] # << >>
    BY DEF Readable
  <2>3. k \in S
    BY <2>1, <2>2, HeadTailProperties
  <2> QED
    BY <2>1, <2>3
<1>3. k \in PacketsOf(Scans)
  BY <1>2 DEF PacketsOf, Underway, Scans
<1>4. k.kind \in {"TCP", "ICMP"}
  BY <1>3, PacketKinds
<1>5. CASE p = Main
  <2>1. Scan(p).type = "PROTOCOL"
    BY <1>5, ScanIs DEF AtScan
  <2>2. Truthful([scan |-> Scan(p), state |-> Heard(p, x), why |-> k.kind])
    BY <2>1 DEF Truthful, TcpTypes
  <2> QED
    BY <1>1, <1>4, <1>5, <2>2, VerdictStates
<1>6. CASE p # Main
  <2>1. Scan(p) \in PortScans /\ pc[Main] = "join"
    BY <1>6, ScanIs DEF AtScan
  <2>2. k \in PacketsOf(PortScans)
    BY <1>2, <2>1 DEF Underway
  <2> QED
    BY <1>1, <1>4, <2>1, <2>2, VerdictTells, VerdictStates
<1> QED
  BY <1>5, <1>6

ScanPart == Sockets /\ Traffic /\ Tries /\ RowsKept
Grows == PacketsOf(Underway) \subseteq PacketsOf(Underway')
Fds == [recv : Nat, send : Nat, icmp : Nat]

LEMMA PacketsGrow ==
  ASSUME Grows
  PROVE  /\ Packets("TCP") \subseteq Packets("TCP")'
         /\ Packets("ICMP") \subseteq Packets("ICMP")'
BY DEF Grows, Packets

LEMMA InboxStays ==
  ASSUME Traffic, Grows, NEW p \in Procs
  PROVE  /\ inbox[p].recv \in Seq(Packets("TCP")')
         /\ inbox[p].icmp \in Seq(Packets("ICMP")')
<1>1. inbox[p].recv \in Seq(Packets("TCP")) /\ inbox[p].icmp \in Seq(Packets("ICMP"))
  BY DEF Traffic
<1> QED
  BY <1>1, PacketsGrow, SeqMonotonic

LEMMA TrafficStays ==
  ASSUME Traffic, Grows, UNCHANGED wire
  PROVE  Traffic'
<1>1. inbox' = inbox /\ net' = net
  BY DEF wire
<1>2. \A p \in Procs : inbox[p] \in [recv : Seq(Packets("TCP")'),
                                     icmp : Seq(Packets("ICMP")')]
  <2> SUFFICES ASSUME NEW p \in Procs
               PROVE  inbox[p] \in [recv : Seq(Packets("TCP")'),
                                    icmp : Seq(Packets("ICMP")')]
    OBVIOUS
  <2>1. inbox[p] = [recv |-> inbox[p].recv, icmp |-> inbox[p].icmp]
    BY DEF Traffic
  <2> QED
    BY <2>1, InboxStays
<1>3. inbox \in [Procs -> [recv : Seq(Packets("TCP")'), icmp : Seq(Packets("ICMP")')]]
  BY <1>2 DEF Traffic
<1>4. net \subseteq PacketsOf(Underway')
  BY DEF Traffic, Grows
<1> QED
  BY <1>1, <1>3, <1>4 DEF Traffic

LEMMA SendKeeps ==
  ASSUME Traffic, Grows, NEW p \in Procs, NEW n \in 1 .. 4, Send(p, n),
         Scan(p) \in Underway
  PROVE  net' \subseteq PacketsOf(Underway')
<1>1. net' \subseteq net \cup Answers([scan |-> Scan(p), try |-> n])
  BY DEF Send
<1>2. [scan |-> Scan(p), try |-> n] \in [scan : Underway, try : 1 .. 4]
  OBVIOUS
<1>3. Answers([scan |-> Scan(p), try |-> n]) \subseteq PacketsOf(Underway)
  BY <1>2 DEF PacketsOf
<1> QED
  BY <1>1, <1>3 DEF Traffic, Grows

\* A queue of packets after an arrival, and after a read.
LEMMA InboxMoves ==
  ASSUME NEW q, NEW S, q \in Seq(S)
  PROVE  /\ \A k \in S : Append(q, k) \in Seq(S)
         /\ q # << >> => Tail(q) \in Seq(S)
         /\ \A n \in Nat : Drop(q, n) \in Seq(S)
<1>1. \A k \in S : Append(q, k) \in Seq(S)
  OBVIOUS
<1>2. q # << >> => Tail(q) \in Seq(S)
  BY HeadTailProperties
<1>3. ASSUME NEW n \in Nat PROVE Drop(q, n) \in Seq(S)
  <2>1. Len(q) \in Nat
    BY LenProperties
  <2>2. \A i \in n + 1 .. Len(q) : q[i] \in S
    BY <2>1, ElementOfSeq
  <2> QED
    BY <2>1, <2>2, SubSeqProperties DEF Drop
<1> QED
  BY <1>1, <1>2, <1>3

LEMMA ReadKeeps ==
  ASSUME Traffic, Grows, NEW p \in Procs, inbox' = Read(p),
         net' \subseteq PacketsOf(Underway')
  PROVE  Traffic'
<1> DEFINE T == Packets("TCP")'
           C == Packets("ICMP")'
           r == IF Readable(p, "recv") THEN Tail(inbox[p].recv) ELSE inbox[p].recv
           c == Drop(inbox[p].icmp, IF Stray(p) THEN 2 ELSE 1)
<1>1. \A q \in Procs : inbox[q].recv \in Seq(T) /\ inbox[q].icmp \in Seq(C)
  BY InboxStays
<1>2. inbox' = [inbox EXCEPT ![p] = [recv |-> r, icmp |-> c]]
  BY DEF Read
<1>3. r \in Seq(T)
  BY <1>1, InboxMoves DEF Readable
<1>4. c \in Seq(C)
  BY <1>1, InboxMoves
<1> HIDE DEF r, c, T, C
<1>5. \A q \in Procs : inbox'[q] \in [recv : Seq(T), icmp : Seq(C)]
  <2> SUFFICES ASSUME NEW q \in Procs
               PROVE  inbox'[q] \in [recv : Seq(T), icmp : Seq(C)]
    OBVIOUS
  <2>1. inbox[q] = [recv |-> inbox[q].recv, icmp |-> inbox[q].icmp]
    BY DEF Traffic
  <2>2. inbox'[q] = IF q = p THEN [recv |-> r, icmp |-> c] ELSE inbox[q]
    BY <1>2 DEF Traffic
  <2> QED
    BY <1>1, <1>3, <1>4, <2>1, <2>2
<1>6. inbox' \in [Procs -> [recv : Seq(T), icmp : Seq(C)]]
  BY <1>2, <1>5 DEF Traffic
<1> QED
  BY <1>6 DEF Traffic, T, C

LEMMA DeliverKeeps ==
  ASSUME Traffic, Grows, NEW k \in net, Deliver(k)
  PROVE  Traffic'
<1> DEFINE T == Packets("TCP")'
           C == Packets("ICMP")'
<1>1. \A q \in Procs : inbox[q].recv \in Seq(T) /\ inbox[q].icmp \in Seq(C)
  BY InboxStays
<1>2. (k.kind = "TCP" => k \in T) /\ (k.kind = "ICMP" => k \in C)
  BY PacketsGrow DEF Traffic, Packets
<1> HIDE DEF T, C
<1>3. \A q \in Procs : \E r \in Seq(T), c \in Seq(C) :
        inbox'[q] = [recv |-> r, icmp |-> c]
  <2> SUFFICES ASSUME NEW q \in Procs
               PROVE  \E r \in Seq(T), c \in Seq(C) : inbox'[q] = [recv |-> r, icmp |-> c]
    OBVIOUS
  <2> DEFINE R == inbox'[q].recv
             I == inbox'[q].icmp
  <2>1. /\ inbox'[q] = [recv |-> R, icmp |-> I]
        /\ \/ R = inbox[q].recv
           \/ k.kind = "TCP" /\ R = Append(inbox[q].recv, k)
        /\ \/ I = inbox[q].icmp
           \/ k.kind = "ICMP" /\ I = Append(inbox[q].icmp, k)
    BY DEF Deliver, Arrival
  <2> HIDE DEF R, I
  <2>2. R \in Seq(T) /\ I \in Seq(C)
    BY <1>1, <1>2, <2>1, InboxMoves
  <2> QED
    BY <2>1, <2>2
<1>4. inbox' \in [Procs -> [recv : Seq(T), icmp : Seq(C)]]
  <2>1. inbox' = [q \in Procs |-> Arrival(q, k)]
    BY DEF Deliver
  <2>2. ASSUME NEW q \in Procs PROVE inbox'[q] \in [recv : Seq(T), icmp : Seq(C)]
    <3>1. PICK r \in Seq(T), c \in Seq(C) : inbox'[q] = [recv |-> r, icmp |-> c]
      BY <1>3
    <3> QED
      BY <3>1
  <2> QED
    BY <2>1, <2>2
<1>5. net' \subseteq PacketsOf(Underway')
  BY DEF Traffic, Grows, Deliver
<1> QED
  BY <1>4, <1>5 DEF Traffic, T, C

LEMMA AppendIs ==
  ASSUME NEW S, NEW s \in Seq(S), NEW r \in S
  PROVE  /\ Append(s, r) \in Seq(S) /\ Len(s) \in Nat /\ DOMAIN s = 1 .. Len(s)
         /\ Len(Append(s, r)) = Len(s) + 1
         /\ DOMAIN Append(s, r) = 1 .. Len(s) + 1
         /\ \A i \in 1 .. Len(s) + 1 :
              Append(s, r)[i] = IF i <= Len(s) THEN s[i] ELSE r
<1>1. /\ Append(s, r) \in Seq(S) /\ Len(s) \in Nat /\ DOMAIN s = 1 .. Len(s)
      /\ Len(Append(s, r)) = Len(s) + 1
  BY LenProperties, AppendProperties
<1>2. \A i \in 1 .. Len(s) + 1 : Append(s, r)[i] = IF i <= Len(s) THEN s[i] ELSE r
  BY <1>1, AppendProperties
<1> QED
  BY <1>1, <1>2, LenProperties

\* A scan has ended: its row is kept, and its sockets are given back.
Ended(p, r) ==
  /\ fd' = [fd EXCEPT ![p] = NoSockets]
  /\ \A q \in Procs : IF q = p THEN pc'[q] \in {"open", "print"}
                                 ELSE pc'[q] = pc[q]
  /\ Traffic' /\ Tries' /\ RowsKept'
  /\ \A q \in Procs : results'[q] = IF q = p THEN Append(results[q], r)
                                               ELSE results[q]

LEMMA ConcludeKeeps ==
  ASSUME ScanInv, Grows, NEW p \in Procs, pc[p] = "wait",
         NEW state \in States, NEW why \in {"TCP", "ICMP", "timeout", "error"},
         Truthful([scan |-> Scan(p), state |-> state, why |-> why]),
         Conclude(p, state, why), net' = net
  PROVE  Ended(p, [scan |-> Scan(p), state |-> state, why |-> why])
<1> DEFINE r == [scan |-> Scan(p), state |-> state, why |-> why]
           l == IF Len(results[p]) + 1 < ScanCount(p) THEN "open" ELSE "print"
<1>1. /\ results' = [results EXCEPT ![p] = Append(@, r)]
      /\ fd' = [fd EXCEPT ![p] = NoSockets]
      /\ inbox' = [inbox EXCEPT ![p] = Empty]
      /\ retry_count' = [retry_count EXCEPT ![p] = 0]
      /\ pc' = [pc EXCEPT ![p] = l]
  BY DEF Conclude
<1>2. \A q \in Procs : pc'[q] = IF q = p THEN l ELSE pc[q]
  BY <1>1 DEF ScanInv, CrewInv, Labels
<1>3. l \in {"open", "print"} /\ (l = "open" => Len(results[p]) + 1 < ScanCount(p))
  OBVIOUS
<1>4. r \in Rows
  BY ScanIs DEF AtScan, Rows
<1>5. results[p] \in Seq(Rows)
  BY DEF ScanInv, RowsKept
<1> HIDE DEF r, l
<1>6. \A q \in Procs : results'[q] = IF q = p THEN Append(results[q], r) ELSE results[q]
  BY <1>1 DEF ScanInv, RowsKept
<1>7. /\ Append(results[p], r) \in Seq(Rows)
      /\ Len(Append(results[p], r)) = Len(results[p]) + 1
      /\ DOMAIN Append(results[p], r) = 1 .. Len(results[p]) + 1
      /\ DOMAIN results[p] = 1 .. Len(results[p]) /\ Len(results[p]) \in Nat
      /\ \A i \in 1 .. Len(results[p]) + 1 :
           Append(results[p], r)[i] = IF i <= Len(results[p]) THEN results[p][i] ELSE r
  BY <1>4, <1>5, AppendIs
<1>8. RowsKept'
  <2>1. results' \in [Procs -> Seq(Rows)]
    BY <1>1, <1>7 DEF ScanInv, RowsKept
  <2>2. ASSUME NEW q \in Procs, pc'[q] \in {"open", "probe", "wait"}
        PROVE  Len(results'[q]) < ScanCount(q)'
    <3>1. ScanCount(q)' = ScanCount(q)
      BY DEF ScanCount
    <3> QED
      BY <1>2, <1>3, <1>6, <1>7, <2>2, <3>1 DEF ScanInv, RowsKept
  <2>3. ASSUME NEW q \in Procs, pc'[q] \notin Busy PROVE results'[q] = << >>
    BY <1>2, <1>3, <1>6, <2>3 DEF ScanInv, RowsKept, Busy
  <2>4. VerdictIsTrue'
    <3> SUFFICES ASSUME NEW q \in Procs, NEW i \in DOMAIN results'[q]
                 PROVE  Truthful(results'[q][i])
      BY DEF VerdictIsTrue
    <3> DEFINE a == Append(results[p], r)
    <3>a. q = p => results'[q] = a
      BY <1>6
    <3>b. /\ DOMAIN a = 1 .. Len(results[p]) + 1 /\ Len(results[p]) \in Nat
          /\ \A j \in 1 .. Len(results[p]) + 1 :
               a[j] = IF j <= Len(results[p]) THEN results[p][j] ELSE r
      BY <1>7
    <3> HIDE DEF a
    <3>c. q = p => i \in 1 .. Len(results[p]) + 1
      BY <3>a, <3>b
    <3>1. CASE q = p /\ i = Len(results[p]) + 1
      <4>1. results'[q][i] = r
        BY <3>a, <3>b, <3>c, <3>1
      <4> QED
        BY <4>1 DEF r
    <3>2. CASE q = p /\ i # Len(results[p]) + 1
      <4>1. i \in 1 .. Len(results[p]) /\ results'[q][i] = results[p][i]
        BY <3>a, <3>b, <3>c, <3>2
      <4> QED
        BY <1>7, <4>1 DEF ScanInv, RowsKept, VerdictIsTrue
    <3>3. CASE q # p
      BY <1>6, <3>3 DEF ScanInv, RowsKept, VerdictIsTrue
    <3> QED
      BY <3>1, <3>2, <3>3
  <2> QED
    BY <2>1, <2>2, <2>3, <2>4 DEF RowsKept
<1>9. Traffic'
  <2> DEFINE T == Packets("TCP")'
             C == Packets("ICMP")'
  <2>1. \A q \in Procs : inbox[q].recv \in Seq(T) /\ inbox[q].icmp \in Seq(C)
    BY InboxStays DEF ScanInv
  <2>2. << >> \in Seq(T) /\ << >> \in Seq(C)
    BY EmptySeq
  <2> HIDE DEF T, C
  <2>3. ASSUME NEW q \in Procs PROVE inbox'[q] \in [recv : Seq(T), icmp : Seq(C)]
    <3>1. inbox[q] = [recv |-> inbox[q].recv, icmp |-> inbox[q].icmp]
      BY DEF ScanInv, Traffic
    <3>2. inbox'[q] = IF q = p THEN [recv |-> << >>, icmp |-> << >>] ELSE inbox[q]
      BY <1>1 DEF ScanInv, Traffic, Empty
    <3>3. CASE q = p
      BY <2>2, <3>2, <3>3
    <3>4. CASE q # p
      BY <2>1, <3>1, <3>2, <3>4
    <3> QED
      BY <3>3, <3>4
  <2>4. inbox' \in [Procs -> [recv : Seq(T), icmp : Seq(C)]]
    BY <1>1, <2>3 DEF ScanInv, Traffic
  <2>5. net' \subseteq PacketsOf(Underway')
    BY DEF ScanInv, Traffic, Grows
  <2> QED
    BY <2>4, <2>5 DEF Traffic, T, C
<1>10. Tries'
  <2>1. retry_count' = [retry_count EXCEPT ![p] = 0] /\ 0 \in 0 .. 2
    BY <1>1
  <2> QED
    BY <2>1 DEF ScanInv, Tries
<1>11. \A q \in Procs : IF q = p THEN pc'[q] \in {"open", "print"}
                                   ELSE pc'[q] = pc[q]
  BY <1>2, <1>3
<1> QED
  BY <1>1, <1>6, <1>8, <1>9, <1>10, <1>11 DEF r, Ended

LEMMA RowsStay ==
  ASSUME RowsKept, UNCHANGED results,
         \A q \in Procs : pc'[q] \in AtScan =>
                          pc[q] \in AtScan \/ Len(results[q]) < ScanCount(q),
         \A q \in Procs : pc'[q] \notin Busy => pc[q] \notin Busy
  PROVE  RowsKept'
<1>1. \A q \in Procs : ScanCount(q)' = ScanCount(q)
  BY DEF ScanCount
<1>2. VerdictIsTrue'
  BY DEF RowsKept, VerdictIsTrue
<1> QED
  BY <1>1, <1>2 DEF RowsKept, AtScan

LEMMA OpenFirstKeeps ==
  ASSUME ScanInv, Grows, NEW p \in Procs, OpenFirst(p)
  PROVE  ScanPart'
<1> DEFINE n == IF Scan(p).type \in TcpTypes THEN "recv" ELSE "send"
           d == Lowest(Used)
<1>1. /\ pc[p] = "open" /\ pc' = [pc EXCEPT ![p] = "probe"]
      /\ fd' = [fd EXCEPT ![p] = [@ EXCEPT ![n] = d]]
      /\ UNCHANGED <<leaked, wire, retry_count, results>>
  BY DEF OpenFirst
<1>2. d \in Nat
  BY UsedIs, LowestIsFree DEF ScanInv
<1>3. n \in {"recv", "send"}
  OBVIOUS
<1> HIDE DEF n, d
<1>4. \A q \in Procs : pc'[q] = IF q = p THEN "probe" ELSE pc[q]
  BY <1>1 DEF ScanInv, CrewInv, Labels
<1>5. Sockets'
  <2>1. fd[p] \in Fds
    BY DEF ScanInv, Sockets, Fds
  <2>2. [fd[p] EXCEPT ![n] = d] \in Fds
    <3>1. CASE n = "recv"
      BY <1>2, <2>1, <3>1 DEF Fds
    <3>2. CASE n = "send"
      BY <1>2, <2>1, <3>2 DEF Fds
    <3> QED
      BY <1>3, <3>1, <3>2
  <2>3. fd' \in [Procs -> Fds]
    BY <1>1, <2>2 DEF ScanInv, Sockets, Fds
  <2>4. \A q \in Procs : q # p => fd'[q] = fd[q]
    BY <1>1 DEF ScanInv, Sockets
  <2> QED
    BY <1>1, <1>4, <2>3, <2>4 DEF ScanInv, Sockets, Fds
<1>6. Traffic'
  BY <1>1, TrafficStays DEF ScanInv
<1>7. Tries'
  BY <1>1 DEF ScanInv, Tries
<1>8. RowsKept'
  BY <1>1, <1>4, RowsStay DEF ScanInv, AtScan, Busy
<1> QED
  BY <1>5, <1>6, <1>7, <1>8 DEF ScanPart

LEMMA OpenRestKeeps ==
  ASSUME ScanInv, Grows, NEW p \in Procs, OpenRest(p)
  PROVE  ScanPart'
<1>1. PICK f : /\ f \in TcpSockets(p) \cup UdpSockets(p) \cup ProtocolSockets(p)
               /\ fd' = [fd EXCEPT ![p] = f]
  BY DEF OpenRest
<1>2. /\ pc[p] = "probe" /\ pc' = [pc EXCEPT ![p] = "wait"] /\ Send(p, 1)
      /\ UNCHANGED <<leaked, inbox, retry_count, results>>
  BY DEF OpenRest
<1>3. \A q \in Procs : pc'[q] = IF q = p THEN "wait" ELSE pc[q]
  BY <1>2 DEF ScanInv, CrewInv, Labels
<1>4. f \in Fds
  <2>1. fd[p] \in Fds
    BY DEF ScanInv, Sockets, Fds
  <2>2. IsFiniteSet(Used) /\ Lowest(Used) \in Nat
    BY UsedIs, LowestIsFree DEF ScanInv
  <2>3. IsFiniteSet(Used \cup {Lowest(Used)})
    BY <2>2, FS_AddElement
  <2>4. Lowest(Used \cup {Lowest(Used)}) \in Nat
    BY <2>3, LowestIsFree
  <2> DEFINE d == Lowest(Used)
             e == Lowest(Used \cup {Lowest(Used)})
  <2>5. \/ f = [fd[p] EXCEPT !.send = d, !.icmp = e]
        \/ f = [fd[p] EXCEPT !.icmp = d]
        \/ f = [fd[p] EXCEPT !.recv = d, !.icmp = e]
        \/ \E r \in {0, d} : f = [fd[p] EXCEPT !.recv = r, !.icmp = d]
    BY <1>1 DEF TcpSockets, UdpSockets, ProtocolSockets
  <2>6. d \in Nat /\ e \in Nat
    BY <2>2, <2>4
  <2> HIDE DEF d, e
  <2>7. CASE f = [fd[p] EXCEPT !.send = d, !.icmp = e]
    BY <2>1, <2>6, <2>7 DEF Fds
  <2>8. CASE f = [fd[p] EXCEPT !.icmp = d]
    BY <2>1, <2>6, <2>8 DEF Fds
  <2>9. CASE f = [fd[p] EXCEPT !.recv = d, !.icmp = e]
    BY <2>1, <2>6, <2>9 DEF Fds
  <2>10. ASSUME NEW r \in {0, d}, f = [fd[p] EXCEPT !.recv = r, !.icmp = d]
         PROVE  f \in Fds
    <3>1. r \in Nat
      BY <2>6
    <3> QED
      BY <2>1, <2>6, <2>10, <3>1 DEF Fds
  <2> QED
    BY <2>5, <2>7, <2>8, <2>9, <2>10
<1>5. Sockets'
  <2>1. fd' \in [Procs -> Fds]
    BY <1>1, <1>4 DEF ScanInv, Sockets, Fds
  <2>2. \A q \in Procs : q # p => fd'[q] = fd[q]
    BY <1>1 DEF ScanInv, Sockets
  <2> QED
    BY <1>2, <1>3, <2>1, <2>2 DEF ScanInv, Sockets, Fds
<1>6. Traffic'
  <2>1. Scan(p) \in Underway
    BY <1>2, ScanIs DEF AtScan
  <2>2. net' \subseteq PacketsOf(Underway')
    BY <1>2, <2>1, SendKeeps DEF ScanInv
  <2>3. \A q \in Procs : inbox[q] \in [recv : Seq(Packets("TCP")'),
                                       icmp : Seq(Packets("ICMP")')]
    <3> SUFFICES ASSUME NEW q \in Procs
                 PROVE  inbox[q] \in [recv : Seq(Packets("TCP")'),
                                      icmp : Seq(Packets("ICMP")')]
      OBVIOUS
    <3>1. inbox[q] = [recv |-> inbox[q].recv, icmp |-> inbox[q].icmp]
      BY DEF ScanInv, Traffic
    <3> QED
      BY <3>1, InboxStays DEF ScanInv
  <2>4. inbox \in [Procs -> [recv : Seq(Packets("TCP")'),
                            icmp : Seq(Packets("ICMP")')]]
    BY <2>3 DEF ScanInv, Traffic
  <2> QED
    BY <1>2, <2>2, <2>4 DEF Traffic
<1>7. Tries'
  BY <1>2 DEF ScanInv, Tries
<1>8. RowsKept'
  BY <1>2, <1>3, RowsStay DEF ScanInv, AtScan, Busy
<1> QED
  BY <1>5, <1>6, <1>7, <1>8 DEF ScanPart

\* A scan that ends gives its sockets back; a service check may leave one.
LEMMA EndKeeps ==
  ASSUME ScanInv, NEW p \in Procs, NEW r, Ended(p, r),
         \/ leaked' = leaked
         \/ leaked' = leaked \cup {Lowest(Used)}
  PROVE  ScanPart'
<1> DEFINE d == Lowest(Used)
<1>1. IsFiniteSet(Used) /\ d \in Nat
  BY UsedIs, LowestIsFree DEF ScanInv
<1> HIDE DEF d
<1>2. leaked \in SUBSET Nat /\ IsFiniteSet(leaked)
  BY DEF ScanInv, Sockets
<1>3. IsFiniteSet(leaked \cup {d})
  BY <1>2, FS_AddElement
<1>4. leaked' \in SUBSET Nat /\ IsFiniteSet(leaked')
  BY <1>1, <1>2, <1>3 DEF d
<1>5. NoSockets \in Fds
  BY DEF NoSockets, Fds
<1>6. fd' = [fd EXCEPT ![p] = NoSockets]
  BY DEF Ended
<1>7. \A q \in Procs : fd'[q] = IF q = p THEN NoSockets ELSE fd[q]
  BY <1>6 DEF ScanInv, Sockets
<1>8. fd' \in [Procs -> Fds]
  BY <1>5, <1>6 DEF ScanInv, Sockets, Fds
<1>9. \A q \in Procs : pc'[q] \notin {"probe", "wait"} => fd'[q] = NoSockets
  <2> SUFFICES ASSUME NEW q \in Procs, pc'[q] \notin {"probe", "wait"}
               PROVE  fd'[q] = NoSockets
    OBVIOUS
  <2>1. CASE q = p
    BY <1>7, <2>1
  <2>2. CASE q # p
    <3>1. pc'[q] = pc[q]
      BY <2>2 DEF Ended
    <3> QED
      BY <1>7, <2>2, <3>1 DEF ScanInv, Sockets
  <2> QED
    BY <2>1, <2>2
<1> QED
  BY <1>4, <1>8, <1>9 DEF Sockets, Fds, Ended, ScanPart

\* What a scan's deciding packet does, and what it is.
LEMMA DecideIs ==
  ASSUME ScanInv, NEW p \in Procs, Decide(p)
  PROVE  \E x \in {"recv", "icmp"} :
           LET k     == Head(inbox[p][x])
               state == Heard(p, x)
           IN /\ pc[p] = "wait" /\ Readable(p, x) /\ state # ""
              /\ Conclude(p, state, k.kind)
              /\ leaked' = leaked \cup ServiceSockets(Scan(p), state)
              /\ UNCHANGED <<queues, job, net, printed>>
<1>1. PICK i \in DOMAIN Round(p) :
        /\ Heard(p, Round(p)[i]) # ""
        /\ Conclude(p, Heard(p, Round(p)[i]), Head(inbox[p][Round(p)[i]]).kind)
        /\ leaked' = leaked \cup ServiceSockets(Scan(p), Heard(p, Round(p)[i]))
        /\ UNCHANGED <<queues, job, net, printed>>
  BY DEF Decide
<1>2. Round(p)[i] \in {"recv", "icmp"} /\ Readable(p, Round(p)[i])
  BY RoundIs
<1>3. pc[p] = "wait"
  BY DEF Decide
<1> QED
  BY <1>1, <1>2, <1>3

LEMMA DecideKeeps ==
  ASSUME ScanInv, Grows, NEW p \in Procs, Decide(p)
  PROVE  ScanPart'
<1>1. PICK x \in {"recv", "icmp"} :
        /\ pc[p] = "wait" /\ Readable(p, x) /\ Heard(p, x) # ""
        /\ Conclude(p, Heard(p, x), Head(inbox[p][x]).kind)
        /\ leaked' = leaked \cup ServiceSockets(Scan(p), Heard(p, x))
        /\ net' = net
  BY DecideIs
<1> DEFINE k == Head(inbox[p][x])
<1>2. /\ Heard(p, x) \in States /\ k.kind \in {"TCP", "ICMP"}
      /\ Truthful([scan |-> Scan(p), state |-> Heard(p, x), why |-> k.kind])
  BY <1>1, HeardIs
<1>3. \/ leaked' = leaked
      \/ leaked' = leaked \cup {Lowest(Used)}
  BY <1>1 DEF ServiceSockets
<1>4. k.kind \in {"TCP", "ICMP", "timeout", "error"}
  BY <1>2
<1> HIDE DEF k
<1>5. Conclude(p, Heard(p, x), k.kind)
  BY <1>1 DEF k
<1>6. Ended(p, [scan |-> Scan(p), state |-> Heard(p, x), why |-> k.kind])
  BY <1>1, <1>2, <1>4, <1>5, ConcludeKeeps
<1> QED
  BY <1>3, <1>6, EndKeeps

\* A scan that ends without a packet concludes nothing of the port.
LEMMA SilentKeeps ==
  ASSUME ScanInv, Grows, NEW p \in Procs, NEW state \in States,
         NEW why \in {"timeout", "error"}, pc[p] = "wait",
         Conclude(p, state, why), UNCHANGED <<leaked, net>>
  PROVE  ScanPart'
<1>1. Truthful([scan |-> Scan(p), state |-> state, why |-> why])
  BY DEF Truthful
<1>2. why \in {"TCP", "ICMP", "timeout", "error"}
  OBVIOUS
<1>3. Ended(p, [scan |-> Scan(p), state |-> state, why |-> why])
  BY <1>1, <1>2, ConcludeKeeps
<1> QED
  BY <1>3, EndKeeps

LEMMA RetriesAre ==
  ASSUME NEW s
  PROVE  Retries(s) \in {2, 3}
BY DEF Retries

LEMMA WaitKeeps ==
  ASSUME ScanInv, Grows, NEW p \in Procs, Ignore(p) \/ Retry(p)
  PROVE  ScanPart'
<1>1. /\ pc[p] = "wait" /\ inbox' = Read(p)
      /\ UNCHANGED <<pc, fd, leaked, results>>
  BY DEF Ignore, Retry, Undecided
<1>2. /\ net' \subseteq PacketsOf(Underway')
      /\ Tries'
  <2>1. CASE Ignore(p)
    BY <2>1 DEF Ignore, ScanInv, Traffic, Tries, Grows
  <2>2. CASE Retry(p)
    <3>1. /\ retry_count[p] + 1 < Retries(Scan(p))
          /\ retry_count' = [retry_count EXCEPT ![p] = @ + 1]
          /\ Send(p, retry_count[p] + 2)
      BY <2>2 DEF Retry
    <3>2. retry_count[p] \in 0 .. 2
      BY DEF ScanInv, Tries
    <3>3. retry_count[p] + 1 \in 0 .. 2 /\ retry_count[p] + 2 \in 1 .. 4
      BY <3>1, <3>2, RetriesAre
    <3>4. Scan(p) \in Underway
      BY <1>1, ScanIs DEF AtScan
    <3>5. net' \subseteq PacketsOf(Underway')
      BY <3>1, <3>3, <3>4, SendKeeps DEF ScanInv
    <3>6. Tries'
      BY <3>1, <3>3 DEF ScanInv, Tries
    <3> QED
      BY <3>5, <3>6
  <2> QED
    BY <2>1, <2>2
<1>3. Traffic'
  BY <1>1, <1>2, ReadKeeps DEF ScanInv
<1>4. Sockets'
  BY <1>1 DEF ScanInv, Sockets
<1>5. RowsKept'
  BY <1>1, RowsStay DEF ScanInv
<1> QED
  BY <1>2, <1>3, <1>4, <1>5 DEF ScanPart

\* Between the scans no socket is open.
LEMMA CrewKeepsScans ==
  ASSUME ScanInv, Grows, NEW p \in Procs, NEW l, pc' = [pc EXCEPT ![p] = l],
         pc[p] \notin AtScan, l \notin {"probe", "wait"},
         UNCHANGED <<fd, leaked, wire, retry_count>>
  PROVE  Sockets' /\ Traffic' /\ Tries'
<1>1. \A q \in Procs : pc'[q] = IF q = p THEN l ELSE pc[q]
  BY DEF ScanInv, CrewInv, Labels
<1>2. fd[p] = NoSockets
  BY DEF ScanInv, Sockets, AtScan
<1>3. Sockets'
  BY <1>1, <1>2 DEF ScanInv, Sockets
<1>4. Traffic'
  BY TrafficStays DEF ScanInv
<1>5. Tries'
  BY DEF ScanInv, Tries
<1> QED
  BY <1>3, <1>4, <1>5

LEMMA TakeKeeps ==
  ASSUME ScanInv, Grows, NEW t \in Threads, Take(t)
  PROVE  ScanPart'
<1> USE Constants
<1>1. /\ pc[t] = "take" /\ \E l \in {"open", "exit"} : pc' = [pc EXCEPT ![t] = l]
      /\ UNCHANGED <<fd, leaked, wire, retry_count, results>>
  BY DEF Take
<1>2. PICK l \in {"open", "exit"} : pc' = [pc EXCEPT ![t] = l]
  BY <1>1
<1>3. Sockets' /\ Traffic' /\ Tries'
  BY <1>1, <1>2, CrewKeepsScans DEF AtScan
<1>4. \A q \in Procs : pc'[q] = IF q = t THEN l ELSE pc[q]
  BY <1>2 DEF ScanInv, CrewInv, Labels
<1>5. results[t] = << >>
  BY <1>1 DEF ScanInv, RowsKept, Busy
<1>6. Len(results[t]) < ScanCount(t)
  <2>1. Len(results[t]) = 0 /\ ScanCount(t) = Len(PortTypes)
    BY <1>5, EmptySeq DEF ScanCount
  <2> QED
    BY <2>1, PortTypesAre
<1>7. \A q \in Procs : pc'[q] \in AtScan =>
                       pc[q] \in AtScan \/ Len(results[q]) < ScanCount(q)
  BY <1>4, <1>6
<1>8. \A q \in Procs : pc'[q] \notin Busy => pc[q] \notin Busy
  BY <1>1, <1>4 DEF Busy
<1>9. RowsKept'
  BY <1>1, <1>7, <1>8, RowsStay DEF ScanInv
<1> QED
  BY <1>3, <1>9 DEF ScanPart

\* Printing leaves no rows behind; main() goes on to its next address with a
\* scan to make, if there are protocols.
LEMMA PrintKeeps ==
  ASSUME ScanInv, Grows, NEW p \in Procs, NEW l \in {"open", "print", "take", "end"},
         pc' = [pc EXCEPT ![p] = l], l = "open" => ScanCount(p) > 0,
         pc[p] \notin AtScan, UNCHANGED <<fd, leaked, wire, retry_count>>,
         \/ results' = [results EXCEPT ![p] = << >>]
         \/ results' = results /\ results[p] = << >>
  PROVE  ScanPart'
<1>1. Sockets' /\ Traffic' /\ Tries'
  BY CrewKeepsScans
<1>2. \A q \in Procs : pc'[q] = IF q = p THEN l ELSE pc[q]
  BY DEF ScanInv, CrewInv, Labels
<1>3. << >> \in Seq(Rows) /\ Len(<< >>) = 0
  BY EmptySeq
<1>4. /\ results' \in [Procs -> Seq(Rows)]
      /\ \A q \in Procs : results'[q] = IF q = p THEN << >> ELSE results[q]
  BY <1>3 DEF ScanInv, RowsKept
<1>5. ASSUME NEW q \in Procs, pc'[q] \in {"open", "probe", "wait"}
      PROVE  Len(results'[q]) < ScanCount(q)'
  <2>1. ScanCount(q)' = ScanCount(q)
    BY DEF ScanCount
  <2>2. CASE q = p
    <3>1. pc'[q] = "open"
      BY <1>2, <1>5, <2>2
    <3>2. ScanCount(p) \in Nat
      BY PortTypesAre, ArgsAre, LenProperties DEF ScanCount
    <3> QED
      BY <1>2, <1>3, <1>4, <2>1, <2>2, <3>1, <3>2
  <2>3. CASE q # p
    BY <1>2, <1>4, <1>5, <2>1, <2>3 DEF ScanInv, RowsKept
  <2> QED
    BY <2>2, <2>3
<1>6. ASSUME NEW q \in Procs, pc'[q] \notin Busy PROVE results'[q] = << >>
  BY <1>2, <1>4, <1>6 DEF ScanInv, RowsKept
<1>7. VerdictIsTrue'
  <2> SUFFICES ASSUME NEW q \in Procs, NEW i \in DOMAIN results'[q]
               PROVE  Truthful(results'[q][i])
    BY DEF VerdictIsTrue
  <2>1. q # p
    BY <1>4
  <2> QED
    BY <1>4, <2>1 DEF ScanInv, RowsKept, VerdictIsTrue
<1>8. RowsKept'
  BY <1>4, <1>5, <1>6, <1>7 DEF RowsKept
<1> QED
  BY <1>1, <1>8 DEF ScanPart

LEMMA MainKeeps ==
  ASSUME ScanInv, Grows, Join \/ PrintProtocols
  PROVE  ScanPart'
<1> USE Constants
<1>1. PICK l \in {"open", "print", "end"} :
        /\ pc' = [pc EXCEPT ![Main] = l] /\ (l = "open" => args.protocols # << >>)
  BY DEF Join, PrintProtocols, Address
<1>2. l = "open" => ScanCount(Main) > 0
  <2>1. args.protocols # << >> => Len(args.protocols) \in Nat \ {0}
    BY ArgsAre, EmptySeq
  <2> QED
    BY <1>1, <2>1 DEF ScanCount
<1>3. /\ pc[Main] \in {"join", "print"}
      /\ UNCHANGED <<fd, leaked, wire, retry_count>>
  BY DEF Join, PrintProtocols
<1>4. \/ results' = [results EXCEPT ![Main] = << >>]
      \/ results' = results /\ results[Main] = << >>
  BY DEF Join, PrintProtocols, ScanInv, RowsKept, Busy
<1> QED
  BY <1>1, <1>2, <1>3, <1>4, PrintKeeps DEF AtScan

LEMMA PrintRowsKeeps ==
  ASSUME ScanInv, Grows, NEW t \in Threads, PrintRows(t)
  PROVE  ScanPart'
<1> USE Constants
<1>1. /\ pc[t] = "print" /\ pc' = [pc EXCEPT ![t] = "take"]
      /\ UNCHANGED <<fd, leaked, wire, retry_count>>
      /\ results' = [results EXCEPT ![t] = << >>]
  BY DEF PrintRows
<1> QED
  BY <1>1, PrintKeeps DEF AtScan

LEMMA ScanInit == Init => ScanInv
<1> SUFFICES ASSUME Init PROVE ScanInv
  OBVIOUS
<1>1. CrewInv
  BY CrewInit
<1>2. << >> \in Seq(Packets("TCP")) /\ << >> \in Seq(Packets("ICMP"))
      /\ << >> \in Seq(Rows)
  BY EmptySeq
<1>3. Sockets
  BY FS_EmptySet DEF Init, Sockets, NoSockets
<1>4. Traffic
  BY <1>2 DEF Init, Traffic, Empty
<1>5. Tries
  BY DEF Init, Tries
<1>6. RowsKept
  BY <1>2 DEF Init, RowsKept, VerdictIsTrue
<1> QED
  BY <1>1, <1>3, <1>4, <1>5, <1>6 DEF ScanInv

LEMMA ScanStepKeeps ==
  ASSUME ScanInv, Grows, NEW p \in Procs, ScanStep(p) \/ SelectError(p)
  PROVE  ScanPart'
<1>1. CASE OpenFirst(p)
  BY <1>1, OpenFirstKeeps
<1>2. CASE OpenRest(p)
  BY <1>2, OpenRestKeeps
<1>3. CASE Decide(p)
  BY <1>3, DecideKeeps
<1>4. CASE Ignore(p) \/ Retry(p)
  BY <1>4, WaitKeeps
<1>5. CASE GiveUp(p)
  <2>1. TimeoutVerdict(Scan(p)) \in States
    BY TimeoutStates
  <2> QED
    BY <1>5, <2>1, SilentKeeps DEF GiveUp, Undecided
<1>6. CASE SelectError(p)
  <2>1. "" \in States
    BY DEF States
  <2> QED
    BY <1>6, <2>1, SilentKeeps DEF SelectError
<1> QED
  BY <1>1, <1>2, <1>3, <1>4, <1>5, <1>6 DEF ScanStep

LEMMA ScanInvStep == ScanInv /\ [Next]_vars => ScanInv'
<1> SUFFICES ASSUME ScanInv, [Next]_vars PROVE ScanInv'
  OBVIOUS
<1>1. CrewInv'
  BY CrewStep DEF ScanInv
<1>2. Grows
  BY UnderwayGrows DEF ScanInv, Grows
<1>3. ScanPart'
  <2>1. ASSUME NEW p \in Procs, ScanStep(p) \/ SelectError(p) PROVE ScanPart'
    BY <1>2, <2>1, ScanStepKeeps
  <2>2. ASSUME NEW t \in Threads, Take(t) PROVE ScanPart'
    BY <1>2, <2>2, TakeKeeps
  <2>3. ASSUME NEW t \in Threads, PrintRows(t) PROVE ScanPart'
    BY <1>2, <2>3, PrintRowsKeeps
  <2>4. CASE Join \/ PrintProtocols
    BY <1>2, <2>4, MainKeeps
  <2>5. ASSUME NEW k \in net, Deliver(k) PROVE ScanPart'
    <3>1. Traffic'
      BY <1>2, <2>5, DeliverKeeps DEF ScanInv
    <3>2. UNCHANGED <<pc, fd, leaked, retry_count, results>>
      BY <2>5 DEF Deliver
    <3>3. RowsKept'
      BY <3>2, RowsStay DEF ScanInv
    <3> QED
      BY <3>1, <3>2, <3>3 DEF ScanInv, ScanPart, Sockets, Tries
  <2>6. CASE UNCHANGED scanner
    <3>1. UNCHANGED <<pc, fd, leaked, wire, retry_count, results>>
      BY <2>6 DEF scanner
    <3>2. Traffic'
      BY <1>2, <3>1, TrafficStays DEF ScanInv
    <3>3. RowsKept'
      BY <3>1, RowsStay DEF ScanInv
    <3> QED
      BY <3>1, <3>2, <3>3 DEF ScanInv, ScanPart, Sockets, Tries
  <2> QED
    BY <2>1, <2>2, <2>3, <2>4, <2>5, <2>6, Steps
<1> QED
  BY <1>1, <1>3 DEF ScanInv, ScanPart

LEMMA ScanInvariant == Spec => []ScanInv
BY ScanInit, ScanInvStep, PTL DEF Spec

Flag == exited \in BOOLEAN

LEMMA FlagInvariant == Spec => []Flag
<1>1. Init => Flag
  BY DEF Init, Flag
<1>2. Flag /\ [Next]_vars => Flag'
  BY DEF Next, Step, MainStep, Runs, CallFails, vars, Flag
<1> QED
  BY <1>1, <1>2, PTL DEF Spec

\* The variables have their types.
THEOREM TypeCorrect == Spec => []TypeOK
<1>1. ScanInv /\ Flag => TypeOK
  <2> SUFFICES ASSUME ScanInv, Flag PROVE TypeOK
    OBVIOUS
  <2> USE Constants
  <2>1. map_iterator \in 1 .. Len(args.addresses) + 1
    BY DEF ScanInv, CrewInv, Queues
  <2>2. \A e \in Entries : \A i \in DOMAIN ip_map[e] :
          ip_map[e][i] \in DOMAIN args.ports
    <3> SUFFICES ASSUME NEW e \in Entries, NEW i \in DOMAIN ip_map[e]
                 PROVE  ip_map[e][i] \in DOMAIN args.ports
      OBVIOUS
    <3>1. ip_map[e] \in Seq(Ports)
      BY DEF ScanInv, CrewInv, Queues
    <3> QED
      BY <3>1, LenProperties, ElementOfSeq DEF Ports
  <2>3. pc \in [Procs -> {"take", "open", "probe", "wait", "print", "exit",
                         "join", "end"}]
    BY DEF ScanInv, CrewInv, Labels, Busy
  <2>4. job \in [Procs -> Jobs \cup {<<e, 0>> : e \in Entries \cup {0}}]
    BY DEF ScanInv, CrewInv, Work
  <2>5. ASSUME NEW p \in Procs
        PROVE  /\ fd[p] \in [recv : Nat, send : Nat, icmp : Nat]
               /\ retry_count[p] \in 0 .. 2
               /\ \A s \in {"recv", "icmp"} : \A i \in DOMAIN inbox[p][s] :
                    inbox[p][s][i].kind \in {"TCP", "ICMP"}
               /\ \A i \in DOMAIN results[p] : results[p][i].state \in States
    <3>1. fd[p] \in [recv : Nat, send : Nat, icmp : Nat] /\ retry_count[p] \in 0 .. 2
      BY DEF ScanInv, Sockets, Tries
    <3>2. ASSUME NEW s \in {"recv", "icmp"}, NEW i \in DOMAIN inbox[p][s]
          PROVE  inbox[p][s][i].kind \in {"TCP", "ICMP"}
      <4>1. PICK kind \in {"TCP", "ICMP"} : inbox[p][s] \in Seq(Packets(kind))
        BY DEF ScanInv, Traffic
      <4>2. inbox[p][s][i] \in Packets(kind)
        BY <4>1, LenProperties, ElementOfSeq
      <4> QED
        BY <4>2 DEF Packets
    <3>3. ASSUME NEW i \in DOMAIN results[p] PROVE results[p][i].state \in States
      <4>1. results[p] \in Seq(Rows)
        BY DEF ScanInv, RowsKept
      <4>2. results[p][i] \in Rows
        BY <4>1, LenProperties, ElementOfSeq
      <4> QED
        BY <4>2 DEF Rows
    <3> QED
      BY <3>1, <3>2, <3>3
  <2>6. \A k \in net : k.kind \in {"TCP", "ICMP"}
    <3>1. \A k \in net : k \in PacketsOf(Scans)
      BY DEF ScanInv, Traffic, PacketsOf, Underway, Scans
    <3> QED
      BY <3>1, PacketKinds
  <2>7. printed \subseteq Jobs \cup {<<e, 0>> : e \in Entries}
    BY DEF ScanInv, CrewInv, Printed
  <2> QED
    BY <2>1, <2>2, <2>3, <2>4, <2>5, <2>6, <2>7 DEF TypeOK, Flag
<1> QED
  BY <1>1, ScanInvariant, FlagInvariant, PTL

\* Whatever is lost, late or meant for another scan, a row that a packet gave
\* says what the port is: every packet answers a scan, and the header fields
\* that tcp_scan() and udp_scan() compare tell which port it came from.
THEOREM VerdictsAreTrue == Spec => []VerdictIsTrue
<1>1. ScanInv => VerdictIsTrue
  BY DEF ScanInv, RowsKept
<1> QED
  BY <1>1, ScanInvariant, PTL

-----------------------------------------------------------------------------
(* The bound on the descriptors.                                           *)

\* What was asked for is a finite number of ports.
LEMMA JobsAreFinite == IsFiniteSet(Jobs)
<1> USE Constants
<1>1. IsFiniteSet(Entries)
  BY FS_Interval
<1>2. IsFiniteSet(DOMAIN args.ports)
  <2>1. IsFiniteSet(Ports)
    BY FS_Interval
  <2> QED
    BY <2>1 DEF Ports
<1> QED
  BY <1>1, <1>2, FS_Product DEF Jobs

LEMMA ServicesAreFinite ==
  ASSUME NEW S \in SUBSET Services
  PROVE  /\ IsFiniteSet(S) /\ Cardinality(S) \in Nat
         /\ Cardinality(Services) \in Nat
         /\ Cardinality(S) <= Cardinality(Services)
<1>1. Services \in SUBSET Jobs
  BY DEF Services
<1>2. IsFiniteSet(Services)
  BY <1>1, JobsAreFinite, FS_Subset
<1>3. IsFiniteSet(S) /\ Cardinality(S) <= Cardinality(Services)
  BY <1>2, FS_Subset
<1> QED
  BY <1>2, <1>3, FS_CardinalityType

\* A port that was asked for its service stays one that was: its rows are kept
\* until they are printed.
LEMMA ServedStays ==
  ASSUME printed \subseteq printed',
         \A t \in Threads : job[t] \in Services /\ results[t] # << >> =>
           \/ job[t] \in printed'
           \/ job'[t] = job[t] /\ results'[t] # << >>
  PROVE  Served \subseteq Served'
<1> SUFFICES ASSUME NEW j \in Served PROVE j \in Served'
  OBVIOUS
<1>1. j \in Services /\ Services' = Services
  BY DEF Served, Services
<1>2. CASE j \in printed
  BY <1>1, <1>2 DEF Served
<1>3. CASE \E t \in Threads : job[t] = j /\ results[t] # << >>
  BY <1>1, <1>3 DEF Served
<1> QED
  BY <1>2, <1>3 DEF Served

\* The end of a scan leaves its job, and a row.
LEMMA EndServes ==
  ASSUME ScanInv, NEW p \in Procs, pc[p] = "wait",
         NEW state \in States, NEW why \in {"TCP", "ICMP", "timeout", "error"},
         Conclude(p, state, why), UNCHANGED <<job, printed>>
  PROVE  Served \subseteq Served' /\ results'[p] # << >>
<1> DEFINE r == [scan |-> Scan(p), state |-> state, why |-> why]
<1>1. results' = [results EXCEPT ![p] = Append(@, r)]
  BY DEF Conclude
<1>2. r \in Rows
  BY ScanIs DEF AtScan, Rows
<1> HIDE DEF r
<1>3. results \in [Procs -> Seq(Rows)]
  BY DEF ScanInv, RowsKept
<1>4. \A q \in Procs : results'[q] = IF q = p THEN Append(results[q], r) ELSE results[q]
  BY <1>1, <1>3
<1>5. Append(results[p], r) # << >>
  BY <1>2, <1>3, AppendProperties
<1>6. results'[p] # << >>
  BY <1>4, <1>5
<1>7. \A t \in Threads : results[t] # << >> => results'[t] # << >>
  BY <1>4, <1>6, Constants
<1>8. Served \subseteq Served'
  BY <1>7, ServedStays
<1> QED
  BY <1>6, <1>8

LEMMA ServedGrows ==
  ASSUME ScanInv, [Next]_vars
  PROVE  Served \subseteq Served'
<1> USE Constants
<1>1. ASSUME NEW p \in Procs, OpenFirst(p) \/ OpenRest(p) \/ Ignore(p) \/ Retry(p)
      PROVE  Served \subseteq Served'
  <2>1. UNCHANGED <<job, results, printed>>
    BY <1>1 DEF OpenFirst, OpenRest, Ignore, Retry
  <2> QED
    BY <2>1, ServedStays
<1>2. ASSUME NEW p \in Procs, Decide(p)
      PROVE  Served \subseteq Served'
  <2>1. PICK x \in {"recv", "icmp"} :
          /\ pc[p] = "wait" /\ Readable(p, x) /\ Heard(p, x) # ""
          /\ Conclude(p, Heard(p, x), Head(inbox[p][x]).kind)
          /\ UNCHANGED <<job, printed>>
    BY <1>2, DecideIs
  <2> DEFINE k == Head(inbox[p][x])
  <2>2. Heard(p, x) \in States /\ k.kind \in {"TCP", "ICMP", "timeout", "error"}
    BY <2>1, HeardIs
  <2> QED
    BY <2>1, <2>2, EndServes
<1>3. ASSUME NEW p \in Procs, GiveUp(p)
      PROVE  Served \subseteq Served'
  <2>1. /\ pc[p] = "wait" /\ Conclude(p, TimeoutVerdict(Scan(p)), "timeout")
        /\ UNCHANGED <<job, printed>>
    BY <1>3 DEF GiveUp, Undecided
  <2>2. TimeoutVerdict(Scan(p)) \in States
    BY TimeoutStates
  <2> QED
    BY <2>1, <2>2, EndServes
<1>4. ASSUME NEW p \in Procs, SelectError(p)
      PROVE  Served \subseteq Served'
  <2>1. pc[p] = "wait" /\ Conclude(p, "", "error") /\ UNCHANGED <<job, printed>>
    BY <1>4 DEF SelectError
  <2>2. "" \in States
    BY DEF States
  <2> QED
    BY <2>1, <2>2, EndServes
<1>5. ASSUME NEW t \in Threads, Take(t)
      PROVE  Served \subseteq Served'
  <2>1. pc[t] = "take" /\ UNCHANGED <<results, printed>>
    BY <1>5 DEF Take
  <2>2. \A q \in Threads : q # t => job'[q] = job[q]
    BY <1>5 DEF Take, ScanInv, CrewInv, Work
  <2>3. results[t] = << >>
    BY <2>1 DEF ScanInv, RowsKept, Busy
  <2> QED
    BY <2>1, <2>2, <2>3, ServedStays
<1>6. ASSUME NEW t \in Threads, PrintRows(t)
      PROVE  Served \subseteq Served'
  <2>1. printed' = printed \cup {job[t]}
    BY <1>6 DEF PrintRows
  <2>2. \A q \in Threads : q # t => job'[q] = job[q] /\ results'[q] = results[q]
    BY <1>6 DEF PrintRows, ScanInv, CrewInv, Work, RowsKept
  <2> QED
    BY <2>1, <2>2, ServedStays
<1>7. ASSUME Join \/ PrintProtocols
      PROVE  Served \subseteq Served'
  <2>1. printed \subseteq printed'
    BY <1>7 DEF Join, PrintProtocols
  <2>2. \A q \in Threads : job'[q] = job[q] /\ results'[q] = results[q]
    BY <1>7 DEF Join, PrintProtocols, Address, ScanInv, CrewInv, Work, RowsKept
  <2> QED
    BY <2>1, <2>2, ServedStays
<1>8. ASSUME UNCHANGED <<job, results, printed>>
      PROVE  Served \subseteq Served'
  BY <1>8, ServedStays
<1> QED
  BY <1>1, <1>2, <1>3, <1>4, <1>5, <1>6, <1>7, <1>8, Steps DEF ScanStep, Deliver, scanner

\* A service check is made for an open port that no scan has yet ended for:
\* SYN is the first scan, and no other thread has or had the port.
LEMMA LeakIsServed ==
  ASSUME ScanInv, Pool!Partition, NEW p \in Procs, Decide(p)
  PROVE  \/ leaked' = leaked
         \/ /\ leaked' = leaked \cup {Lowest(Used)}
            /\ \E j \in Served' : j \notin Served
<1> USE Constants
<1>1. PICK x \in {"recv", "icmp"} :
        /\ pc[p] = "wait" /\ Readable(p, x) /\ Heard(p, x) # ""
        /\ Conclude(p, Heard(p, x), Head(inbox[p][x]).kind)
        /\ leaked' = leaked \cup ServiceSockets(Scan(p), Heard(p, x))
        /\ UNCHANGED <<job, printed>>
  BY DecideIs
<1> DEFINE s == Scan(p)
<1>2. CASE ~ (s.type = "SYN" /\ Heard(p, x) = "OPEN" /\ s.port \in ServicePorts)
  BY <1>1, <1>2 DEF ServiceSockets
<1>3. CASE s.type = "SYN" /\ Heard(p, x) = "OPEN" /\ s.port \in ServicePorts
  <2>1. leaked' = leaked \cup {Lowest(Used)}
    BY <1>1, <1>3 DEF ServiceSockets
  <2>2. p \in Threads
    BY <1>1, <1>3, ScanIs DEF AtScan
  <2>3. /\ job[p] \in Jobs /\ results[p] = << >>
        /\ s.host = args.addresses[job[p][1]]
        /\ s.port = args.ports[job[p][2]]
    BY <1>1, <1>3, <2>2, ScanIs DEF AtScan
  <2>4. TcpClass[<<s.host, s.port>>] = "open"
    BY <1>1, <1>3, <2>2, HeardIs
  <2>5. job[p] \in Services
    BY <1>3, <2>3, <2>4 DEF Services
  <2>6. job[p] # NoJob
    BY <2>3, NoJobIsNone
  <2>7. Hold[p] = {job[p]}
    BY <2>2, <2>6 DEF Hold
  <2>8. job[p] \notin printed
    <3>1. Hold[p] \cap (Todo \cup Done) = {}
      BY <2>2 DEF Pool!Partition, Pool!Exclusive, Hold, Todo, Done
    <3> QED
      BY <2>3, <2>7, <3>1 DEF Done
  <2>9. ASSUME NEW t \in Threads, job[t] = job[p] PROVE t = p
    <3>1. t # p => Hold[t] \cap Hold[p] = {}
      BY <2>2 DEF Pool!Partition, Pool!Exclusive, Hold
    <3>2. Hold[t] = {job[p]}
      BY <2>6, <2>9 DEF Hold
    <3> QED
      BY <2>7, <3>1, <3>2
  <2>10. job[p] \notin Served
    BY <2>3, <2>8, <2>9 DEF Served
  <2>11. results'[p] # << >>
    <3>1. Heard(p, x) \in States
          /\ Head(inbox[p][x]).kind \in {"TCP", "ICMP", "timeout", "error"}
      BY <1>1, HeardIs
    <3> QED
      BY <1>1, <3>1, EndServes
  <2>12. job[p] \in Served'
    <3>1. job'[p] = job[p] /\ job[p] \in Services'
      BY <1>1, <2>5 DEF Services
    <3> QED
      BY <2>2, <2>11, <3>1 DEF Served
  <2> QED
    BY <2>1, <2>10, <2>12
<1> QED
  BY <1>2, <1>3

LEMMA LeaksStep ==
  ScanInv /\ Pool!Partition /\ LeaksCounted /\ [Next]_vars => LeaksCounted'
<1> SUFFICES ASSUME ScanInv, Pool!Partition, LeaksCounted, [Next]_vars
             PROVE  LeaksCounted'
  OBVIOUS
<1> USE Constants
<1>1. Served \subseteq Served'
  BY ServedGrows
<1>2. Served \in SUBSET Services /\ Served' \in SUBSET Services
  BY DEF Served, Services
<1>3. /\ IsFiniteSet(Served) /\ Cardinality(Served) \in Nat
      /\ IsFiniteSet(Served') /\ Cardinality(Served') \in Nat
  BY <1>2, ServicesAreFinite
<1>4. IsFiniteSet(leaked) /\ Cardinality(leaked) \in Nat
  BY FS_CardinalityType DEF ScanInv, Sockets
<1>5. Cardinality(leaked) <= Cardinality(Served)
  BY DEF LeaksCounted
<1>6. Cardinality(Served) <= Cardinality(Served')
  BY <1>1, <1>3, FS_Subset
<1>7. ASSUME leaked' = leaked PROVE LeaksCounted'
  BY <1>3, <1>4, <1>5, <1>6, <1>7 DEF LeaksCounted
<1>8. ASSUME NEW d, leaked' = leaked \cup {d}, NEW j \in Served', j \notin Served
      PROVE  LeaksCounted'
  <2>1. /\ Cardinality(leaked') \in Nat
        /\ Cardinality(leaked') <= Cardinality(leaked) + 1
    <3>1. /\ IsFiniteSet(leaked \cup {d})
          /\ Cardinality(leaked \cup {d})
               = IF d \in leaked THEN Cardinality(leaked) ELSE Cardinality(leaked) + 1
      BY <1>4, FS_AddElement
    <3>2. /\ Cardinality(leaked \cup {d}) \in Nat
          /\ Cardinality(leaked \cup {d}) <= Cardinality(leaked) + 1
      BY <1>4, <3>1
    <3> QED
      BY <1>8, <3>2
  <2>2. Cardinality(Served \cup {j}) = Cardinality(Served) + 1
    BY <1>3, <1>8, FS_AddElement
  <2>3. Served \cup {j} \in SUBSET Served'
    BY <1>1
  <2>4. Cardinality(Served \cup {j}) <= Cardinality(Served')
    BY <1>3, <2>3, FS_Subset
  <2>5. Cardinality(Served') >= Cardinality(Served) + 1
    BY <2>2, <2>4
  <2>6. Cardinality(leaked') <= Cardinality(Served')
    BY <1>3, <1>4, <1>5, <2>1, <2>5
  <2> QED
    BY <2>6 DEF LeaksCounted
<1>9. ASSUME NEW p \in Procs, ScanStep(p) \/ SelectError(p) PROVE LeaksCounted'
  <2>1. CASE Decide(p)
    BY <1>7, <1>8, <2>1, LeakIsServed
  <2>2. CASE ~ Decide(p)
    <3>1. leaked' = leaked
      BY <1>9, <2>2 DEF ScanStep, OpenFirst, OpenRest, Ignore, Retry, GiveUp,
                        SelectError
    <3> QED
      BY <1>7, <3>1
  <2> QED
    BY <2>1, <2>2
<1>10. ASSUME NEW t \in Threads, Take(t) \/ PrintRows(t) PROVE leaked' = leaked
  BY <1>10 DEF Take, PrintRows
<1>11. ASSUME Join \/ PrintProtocols PROVE leaked' = leaked
  BY <1>11 DEF Join, PrintProtocols
<1>12. ASSUME NEW k \in net, Deliver(k) PROVE leaked' = leaked
  BY <1>12 DEF Deliver
<1>13. ASSUME UNCHANGED scanner PROVE leaked' = leaked
  BY <1>13 DEF scanner
<1> QED
  BY <1>7, <1>9, <1>10, <1>11, <1>12, <1>13, Steps

\* Every way out of a scan gives its sockets back, whatever the threads, the
\* timeouts and the failures of select(): what is open is at most three sockets
\* for each scan that runs, and one for each open port that has been asked for
\* its service.
THEOREM DescriptorsBounded == Spec => []DescriptorsAreBounded
<1>1. Init => LeaksCounted
  <2> SUFFICES ASSUME Init PROVE LeaksCounted
    OBVIOUS
  <2>1. Cardinality(leaked) = 0
    BY FS_EmptySet DEF Init
  <2>2. Served \in SUBSET Services
    BY DEF Served
  <2> QED
    BY <2>1, <2>2, ServicesAreFinite DEF LeaksCounted
<1>2. Spec => []LeaksCounted
  BY <1>1, PoolPartitioned, LeaksStep, ScanInvariant, ThreadsArePool, PTL DEF Spec
<1>3. ScanInv /\ LeaksCounted => DescriptorsAreBounded
  <2> SUFFICES ASSUME ScanInv, LeaksCounted PROVE DescriptorsAreBounded
    OBVIOUS
  <2> DEFINE P == {p \in Procs : pc[p] \in {"probe", "wait"}}
  <2>1. Used = leaked \cup Open(Procs) /\ IsFiniteSet(leaked)
    BY UsedIs DEF ScanInv, Sockets
  <2>2. IsFiniteSet(P)
    BY ProcsAreFinite, FS_Subset
  <2>3. Used \ {0} \in SUBSET (leaked \cup Open(P))
    <3> SUFFICES ASSUME NEW d \in Open(Procs), d # 0 PROVE d \in Open(P)
      BY <2>1
    <3>1. PICK p \in Procs, n \in Names : d = fd[p][n]
      BY DEF Open
    <3>2. p \in P
      BY <3>1 DEF ScanInv, Sockets, NoSockets, Names
    <3>3. <<p, n>> \in P \X Names
      BY <3>2
    <3> QED
      BY <3>1, <3>3 DEF Open
  <2> HIDE DEF P
  <2>4. /\ IsFiniteSet(Open(P)) /\ Cardinality(Open(P)) \in Nat
        /\ Cardinality(P) \in Nat /\ Cardinality(Open(P)) <= 3 * Cardinality(P)
    BY <2>2, OpenIsBounded
  <2>5. /\ IsFiniteSet(leaked \cup Open(P))
        /\ Cardinality(leaked \cup Open(P))
             = Cardinality(leaked) + Cardinality(Open(P))
                 - Cardinality(leaked \cap Open(P))
    BY <2>1, <2>4, FS_Union
  <2>6. /\ IsFiniteSet(Used \ {0})
        /\ Cardinality(Used \ {0}) <= Cardinality(leaked \cup Open(P))
    BY <2>3, <2>5, FS_Subset
  <2>7. /\ Cardinality(leaked) \in Nat /\ Cardinality(Used \ {0}) \in Nat
        /\ Cardinality(leaked \cap Open(P)) \in Nat
    <3>1. leaked \cap Open(P) \in SUBSET leaked
      OBVIOUS
    <3>2. IsFiniteSet(leaked \cap Open(P))
      BY <2>1, <3>1, FS_Subset
    <3> QED
      BY <2>1, <2>6, <3>2, FS_CardinalityType
  <2>8. /\ Cardinality(leaked) <= Cardinality(Services)
        /\ Cardinality(Services) \in Nat
    <3>1. Served \in SUBSET Services
      BY DEF Served
    <3>2. /\ Cardinality(Served) \in Nat /\ Cardinality(Services) \in Nat
          /\ Cardinality(Served) <= Cardinality(Services)
      BY <3>1, ServicesAreFinite
    <3>3. Cardinality(leaked) <= Cardinality(Served)
      BY DEF LeaksCounted
    <3> QED
      BY <2>7, <3>2, <3>3
  <2>9. Cardinality(Used \ {0}) <= 3 * Cardinality(P) + Cardinality(Services)
    BY <2>4, <2>5, <2>6, <2>7, <2>8
  <2> QED
    BY <2>9 DEF DescriptorsAreBounded, P
<1> QED
  BY <1>2, <1>3, ScanInvariant, PTL
-----------------------------------------------------------------------------
(* No scan goes on for ever.                                               *)

\* How far a thread is with its port, from the first scan of it to the next port.
Place(p) ==
  CASE pc[p] = "open"  -> 6 * Len(results[p])
    [] pc[p] = "probe" -> 6 * Len(results[p]) + 1
    [] pc[p] = "wait"  -> 6 * Len(results[p]) + 2 + retry_count[p]
    [] pc[p] = "print" -> 6 * ScanCount(p)
    [] pc[p] = "take"  -> 6 * ScanCount(p) + 1
    [] OTHER           -> 6 * ScanCount(p) + 2
LastPlace(p) == 6 * ScanCount(p) + 2

\* How far main() is with the addresses, and what a thread has not read.
AtAddress == CASE pc[Main] = "join" -> 0
               [] pc[Main] = "end"  -> Len(args.addresses) + 1
               [] OTHER             -> job[Main][1]
Unread(p) == Len(inbox[p].recv) + Len(inbox[p].icmp)

\* Each step ends the program or lessens the first of these that it changes: the ports nobody has taken,
\* the addresses before main(), the places before a thread, the packets under way,
\* the packets unread.  There is an end to each.
PlaceGrows == \E p \in Procs : /\ Place(p)' > Place(p)
                               /\ \A q \in Procs \ {p} : Place(q)' = Place(q)
PlacesStay == \A q \in Procs : Place(q)' = Place(q)
Reads == \E p \in Procs : /\ Unread(p)' < Unread(p)
                          /\ \A q \in Procs \ {p} : Unread(q)' = Unread(q)
Lessens ==
  \/ ~exited /\ exited'
  \/ Todo' \subseteq Todo /\ Todo' # Todo
  \/ Todo' = Todo /\ AtAddress' > AtAddress
  \/ Todo' = Todo /\ AtAddress' = AtAddress /\ PlaceGrows
  \/ Todo' = Todo /\ AtAddress' = AtAddress /\ PlacesStay /\ net' \subseteq net /\ net' # net
  \/ Todo' = Todo /\ AtAddress' = AtAddress /\ PlacesStay /\ net' = net /\ Reads
Bounded ==
  /\ IsFiniteSet(Todo) /\ AtAddress \in 0 .. Len(args.addresses) + 1
  /\ \A p \in Procs : Place(p) \in 0 .. LastPlace(p) /\ Unread(p) \in Nat
  /\ IsFiniteSet(net)

LEMMA CountIs ==
  ASSUME NEW p \in Procs
  PROVE  ScanCount(p) \in Nat /\ ScanCount(p)' = ScanCount(p)
<1>1. Len(args.protocols) \in Nat /\ Len(PortTypes) \in Nat
  BY ArgsAre, LenProperties, PortTypesAre
<1>2. ScanCount(p)' = ScanCount(p)
  BY DEF ScanCount
<1>3. ScanCount(p) = IF p = Main THEN Len(args.protocols) ELSE Len(PortTypes)
  BY DEF ScanCount
<1> QED
  BY <1>1, <1>2, <1>3

\* What the lengths are, and that a scan under way is before the last row.
LEMMA LengthsAre ==
  ASSUME ScanInv, NEW p \in Procs
  PROVE  /\ Len(results[p]) \in Nat /\ retry_count[p] \in 0 .. 2
         /\ pc[p] \in AtScan => Len(results[p]) < ScanCount(p)
         /\ Len(inbox[p].recv) \in Nat /\ Len(inbox[p].icmp) \in Nat
<1>1. results[p] \in Seq(Rows) /\ retry_count[p] \in 0 .. 2
  BY DEF ScanInv, RowsKept, Tries
<1>2. \E S : inbox[p].recv \in Seq(S)
  BY DEF ScanInv, Traffic
<1>3. \E S : inbox[p].icmp \in Seq(S)
  BY DEF ScanInv, Traffic
<1> QED
  BY <1>1, <1>2, <1>3, LenProperties DEF ScanInv, RowsKept, AtScan

\* A thread that does nothing stays in its place.
LEMMA PlaceStays ==
  ASSUME NEW q \in Procs, pc'[q] = pc[q], results'[q] = results[q],
         retry_count'[q] = retry_count[q]
  PROVE  Place(q)' = Place(q)
BY CountIs DEF Place

\* One thread moves on, and nothing before it in the order has changed.
LEMMA ConcludeGrows ==
  ASSUME ScanInv, NEW p \in Procs, pc[p] = "wait", NEW state, NEW why,
         Conclude(p, state, why)
  PROVE  PlaceGrows
<1> DEFINE r == [scan |-> Scan(p), state |-> state, why |-> why]
           l == IF Len(results[p]) + 1 < ScanCount(p) THEN "open" ELSE "print"
<1>1. /\ results' = [results EXCEPT ![p] = Append(@, r)]
      /\ retry_count' = [retry_count EXCEPT ![p] = 0]
      /\ pc' = [pc EXCEPT ![p] = l]
  BY DEF Conclude
<1>2. results \in [Procs -> Seq(Rows)] /\ pc[p] \in AtScan
  BY DEF ScanInv, RowsKept, AtScan
<1>3. Len(results'[p]) = Len(results[p]) + 1
  <2> HIDE DEF r
  <2>1. results[p] \in Seq(Rows \cup {r})
    BY <1>2
  <2>2. results'[p] = Append(results[p], r)
    BY <1>1, <1>2
  <2> QED
    BY <2>1, <2>2, AppendProperties
<1>4. pc'[p] = l /\ l \in {"open", "print"}
  BY <1>1 DEF ScanInv, CrewInv, Labels
<1> HIDE DEF l
<1>5. Place(p)' > Place(p)
  <2>1. Place(p) = 6 * Len(results[p]) + 2 + retry_count[p]
    BY DEF Place
  <2>2. Place(p)' \in {6 * (Len(results[p]) + 1), 6 * ScanCount(p)}
    BY <1>3, <1>4, CountIs DEF Place
  <2> QED
    BY <1>2, <2>1, <2>2, LengthsAre, CountIs
<1>6. \A q \in Procs \ {p} : Place(q)' = Place(q)
  BY <1>1, <1>2, PlaceStays DEF ScanInv, CrewInv, Labels, Tries
<1> QED
  BY <1>5, <1>6 DEF PlaceGrows

\* Reading leaves fewer packets unread.
LEMMA DropIs ==
  ASSUME NEW S, NEW q \in Seq(S), NEW n \in {1, 2}
  PROVE  Len(Drop(q, n)) = IF n <= Len(q) THEN Len(q) - n ELSE 0
<1>1. Len(q) \in Nat /\ n + 1 \in Nat /\ \A i \in n + 1 .. Len(q) : q[i] \in S
  BY LenProperties, ElementOfSeq
<1> QED
  BY <1>1, SubSeqProperties DEF Drop

LEMMA IgnoreReads ==
  ASSUME ScanInv, NEW p \in Procs, Ignore(p)
  PROVE  Reads
<1> DEFINE n == IF Stray(p) THEN 2 ELSE 1
           recv == IF Readable(p, "recv") THEN Tail(inbox[p].recv) ELSE inbox[p].recv
           icmp == Drop(inbox[p].icmp, n)
<1>1. n \in {1, 2}
  OBVIOUS
<1>2. /\ inbox' = [inbox EXCEPT ![p] = [recv |-> recv, icmp |-> icmp]]
      /\ Round(p) # << >>
  BY DEF Ignore, Read
<1>3. PICK S : inbox[p].recv \in Seq(S)
  BY DEF ScanInv, Traffic
<1>4. PICK T : inbox[p].icmp \in Seq(T)
  BY DEF ScanInv, Traffic
<1>5. Readable(p, "recv") \/ Readable(p, "icmp")
  <2>1. CASE ~Readable(p, "recv") /\ ~Readable(p, "icmp")
    BY <1>2, <2>1 DEF Round, Ready
  <2> QED
    BY <2>1
<1>6. Readable(p, "recv") =>
        inbox[p].recv # << >> /\ Len(recv) = Len(inbox[p].recv) - 1
  BY <1>3, HeadTailProperties DEF Readable
<1>7. ~Readable(p, "recv") => Len(recv) = Len(inbox[p].recv)
  OBVIOUS
<1>8. Readable(p, "icmp") => Len(inbox[p].icmp) # 0
  BY <1>4, EmptySeq DEF Readable
<1>9. Len(icmp) = IF n <= Len(inbox[p].icmp) THEN Len(inbox[p].icmp) - n ELSE 0
  BY <1>1, <1>4, DropIs
<1>10. inbox'[p].recv = recv /\ inbox'[p].icmp = icmp
  BY <1>2 DEF ScanInv, Traffic
<1> HIDE DEF recv, icmp, n
<1>11. Unread(p)' < Unread(p)
  <2>1. Len(inbox[p].recv) \in Nat /\ Len(inbox[p].icmp) \in Nat
    BY LengthsAre
  <2>2. Unread(p)' = Len(recv) + Len(icmp)
    BY <1>10 DEF Unread
  <2> DEFINE a == Len(inbox[p].recv)
             b == Len(inbox[p].icmp)
             c == Len(recv)
             d == Len(icmp)
  <2>a. a \in Nat /\ b \in Nat /\ d = IF n <= b THEN b - n ELSE 0
    BY <1>9, <2>1
  <2>b. (c = a - 1) \/ (c = a /\ b # 0)
    BY <1>5, <1>6, <1>7, <1>8
  <2> HIDE DEF a, b, c, d
  <2>c. c + d < a + b
    BY <1>1, <2>a, <2>b
  <2>3. Len(recv) + Len(icmp) < Len(inbox[p].recv) + Len(inbox[p].icmp)
    BY <2>c DEF a, b, c, d
  <2> QED
    BY <2>2, <2>3 DEF Unread
<1>12. \A q \in Procs \ {p} : Unread(q)' = Unread(q)
  BY <1>2 DEF ScanInv, Traffic, Unread
<1> QED
  BY <1>11, <1>12 DEF Reads

\* A step of a scan brings it on, or it only reads.
LEMMA ScanStepGrows ==
  ASSUME ScanInv, NEW p \in Procs, ScanStep(p) \/ SelectError(p)
  PROVE  PlaceGrows \/ (PlacesStay /\ net' = net /\ Reads)
<1> USE DEF queues, wire
<1>1. CASE OpenFirst(p)
  <2>1. /\ pc[p] = "open" /\ pc' = [pc EXCEPT ![p] = "probe"]
        /\ UNCHANGED <<retry_count, results>>
    BY <1>1 DEF OpenFirst
  <2>2. pc'[p] = "probe" /\ \A q \in Procs \ {p} : pc'[q] = pc[q]
    BY <2>1 DEF ScanInv, CrewInv, Labels
  <2>3. Place(p) = 6 * Len(results[p]) /\ Place(p)' = 6 * Len(results[p]) + 1
    BY <2>1, <2>2 DEF Place
  <2> QED
    BY <2>1, <2>2, <2>3, LengthsAre, PlaceStays DEF PlaceGrows
<1>2. CASE OpenRest(p)
  <2>1. /\ pc[p] = "probe" /\ pc' = [pc EXCEPT ![p] = "wait"]
        /\ UNCHANGED <<retry_count, results>>
    BY <1>2 DEF OpenRest
  <2>2. pc'[p] = "wait" /\ \A q \in Procs \ {p} : pc'[q] = pc[q]
    BY <2>1 DEF ScanInv, CrewInv, Labels
  <2>3. /\ Place(p) = 6 * Len(results[p]) + 1
        /\ Place(p)' = 6 * Len(results[p]) + 2 + retry_count[p]
    BY <2>1, <2>2 DEF Place
  <2> QED
    BY <2>1, <2>2, <2>3, LengthsAre, PlaceStays DEF PlaceGrows
<1>3. CASE Decide(p)
  <2>1. PICK x \in {"recv", "icmp"} :
          /\ pc[p] = "wait" /\ Readable(p, x) /\ Heard(p, x) # ""
          /\ Conclude(p, Heard(p, x), Head(inbox[p][x]).kind)
    BY <1>3, DecideIs
  <2> QED
    BY <2>1, ConcludeGrows
<1>4. CASE Ignore(p)
  <2>1. UNCHANGED <<pc, retry_count, results, net>>
    BY <1>4 DEF Ignore
  <2> QED
    BY <1>4, <2>1, IgnoreReads, PlaceStays DEF PlacesStay
<1>5. CASE Retry(p)
  <2>a. pc[p] = "wait"
    BY <1>5 DEF Retry, Undecided
  <2>1. /\ retry_count' = [retry_count EXCEPT ![p] = @ + 1]
        /\ UNCHANGED <<pc, results>>
    BY <1>5 DEF Retry
  <2>2. /\ retry_count'[p] = retry_count[p] + 1
        /\ \A q \in Procs \ {p} : retry_count'[q] = retry_count[q]
    BY <2>1 DEF ScanInv, Tries
  <2>3. /\ Place(p) = 6 * Len(results[p]) + 2 + retry_count[p]
        /\ Place(p)' = 6 * Len(results[p]) + 2 + (retry_count[p] + 1)
    BY <2>a, <2>1, <2>2 DEF Place
  <2> QED
    BY <2>1, <2>2, <2>3, LengthsAre, PlaceStays DEF PlaceGrows
<1>6. CASE GiveUp(p)
  <2>1. pc[p] = "wait"
    BY <1>6 DEF GiveUp, Undecided
  <2>2. Conclude(p, TimeoutVerdict(Scan(p)), "timeout")
    BY <1>6 DEF GiveUp
  <2> QED
    BY <2>1, <2>2, ConcludeGrows
<1>7. CASE SelectError(p)
  <2>1. pc[p] = "wait" /\ \E state : Conclude(p, state, "error")
    BY <1>7 DEF SelectError
  <2> QED
    BY <2>1, ConcludeGrows
<1> QED
  BY <1>1, <1>2, <1>3, <1>4, <1>5, <1>6, <1>7 DEF ScanStep

\* Taking a port takes it from those nobody has taken.
LEMMA TakeLessens ==
  ASSUME ScanInv, NEW t \in Threads, Take(t)
  PROVE  \/ Todo' \subseteq Todo /\ Todo' # Todo
         \/ Todo' = Todo /\ AtAddress' = AtAddress /\ PlaceGrows
<1> USE Constants
<1>0. CrewInv /\ pc[t] = "take" /\ t \in Procs /\ t # Main
  BY DEF Take, ScanInv
<1>1. CASE map_iterator' \in Entries
  <2>1. PICK j : job' = [job EXCEPT ![t] = j] /\ j # NoJob
    BY <1>0, <1>1, TakeFrom DEF NoJob
  <2>2. job[t] = NoJob /\ \A u \in Threads : job'[u] = IF u = t THEN j ELSE job[u]
    BY <1>0, <2>1 DEF CrewInv, Work, Busy
  <2>3. Hold[t] = {} /\ Hold'[t] = {j}
    BY <2>1, <2>2 DEF Hold
  <2>4. Hold' # Hold
    BY <2>3
  <2>5. ASSUME NEW w \in Threads, Hold[w] # {}, Hold' = [Hold EXCEPT ![w] = {}] PROVE FALSE
    <3>1. w # t /\ Hold \in [Threads -> {Hold[u] : u \in Threads}]
      BY <2>3, <2>5 DEF Hold
    <3>2. Hold'[t] = Hold[t]
      BY <2>5, <3>1
    <3> QED
      BY <2>3, <3>2
  <2>6. Pool!Next \/ UNCHANGED Pool!vars
    BY <1>0, TakeIsPool
  <2>7. PICK w \in Threads : Pool!Take(w)
    BY <2>4, <2>5, <2>6 DEF Pool!Next, Pool!vars, Pool!Finish, Hold, Todo, Done
  <2>8. \E x \in Todo : Todo' = Todo \ {x}
    BY <2>7 DEF Pool!Take, Todo
  <2> QED
    BY <2>8
<1>2. CASE map_iterator' \notin Entries
  <2>1. /\ UNCHANGED <<job, ip_map, retry_count, results>>
        /\ pc' = [pc EXCEPT ![t] = "exit"]
    BY <1>2 DEF Take
  <2>2. pc'[t] = "exit" /\ \A q \in Procs \ {t} : pc'[q] = pc[q]
    BY <1>0, <2>1 DEF CrewInv, Labels
  <2>3. Todo' = Todo
    BY <2>1 DEF Todo
  <2>4. AtAddress' = AtAddress
    BY <1>0, <2>1, <2>2 DEF AtAddress
  <2>5. Place(t) = 6 * ScanCount(t) + 1 /\ Place(t)' = 6 * ScanCount(t) + 2
    BY <1>0, <2>2, CountIs DEF Place
  <2>6. \A q \in Procs \ {t} : Place(q)' = Place(q)
    BY <2>1, <2>2, PlaceStays
  <2> QED
    BY <1>0, <2>3, <2>4, <2>5, <2>6, CountIs DEF PlaceGrows
<1> QED
  BY <1>1, <1>2

LEMMA PrintRowsGrows ==
  ASSUME ScanInv, NEW t \in Threads, PrintRows(t)
  PROVE  Todo' = Todo /\ AtAddress' = AtAddress /\ PlaceGrows
<1> USE Constants
<1>0. CrewInv /\ t \in Procs /\ t # Main
  BY DEF ScanInv
<1>1. /\ pc[t] = "print" /\ pc' = [pc EXCEPT ![t] = "take"]
      /\ results' = [results EXCEPT ![t] = << >>] /\ job' = [job EXCEPT ![t] = NoJob]
      /\ UNCHANGED <<ip_map, retry_count>>
  BY DEF PrintRows, queues
<1>2. pc'[t] = "take" /\ \A q \in Procs \ {t} : pc'[q] = pc[q] /\ job'[q] = job[q]
  BY <1>0, <1>1 DEF CrewInv, Labels, Work
<1>3. \A q \in Procs \ {t} : results'[q] = results[q]
  BY <1>1 DEF ScanInv, RowsKept
<1>4. Todo' = Todo
  BY <1>1 DEF Todo
<1>5. AtAddress' = AtAddress
  BY <1>0, <1>2 DEF AtAddress
<1>6. Place(t) = 6 * ScanCount(t) /\ Place(t)' = 6 * ScanCount(t) + 1
  BY <1>0, <1>1, <1>2, CountIs DEF Place
<1>7. \A q \in Procs \ {t} : Place(q)' = Place(q)
  BY <1>1, <1>2, <1>3, PlaceStays
<1> QED
  BY <1>0, <1>4, <1>5, <1>6, <1>7, CountIs DEF PlaceGrows

LEMMA MainGetsOn ==
  ASSUME ScanInv, Join \/ PrintProtocols
  PROVE  Todo' = Todo /\ AtAddress' > AtAddress
<1> USE Constants
<1>0. CrewInv
  BY DEF ScanInv
<1>1. Todo' = Todo
  BY DEF Join, PrintProtocols, queues, Todo
<1>2. ASSUME NEW e \in Nat, e + 1 \in 1 .. Len(args.addresses) + 1, Address(e + 1)
      PROVE  AtAddress' > e
  <2>1. \/ /\ job' = [job EXCEPT ![Main] = <<e + 1, 0>>]
           /\ pc' = [pc EXCEPT ![Main] = "open"]
        \/ /\ job' = [job EXCEPT ![Main] = <<e + 1, 0>>]
           /\ pc' = [pc EXCEPT ![Main] = "print"]
        \/ pc' = [pc EXCEPT ![Main] = "end"]
    BY <1>0, <1>2, AddressMoves
  <2>2. \/ job'[Main] = <<e + 1, 0>> /\ pc'[Main] \in {"open", "print"}
        \/ pc'[Main] = "end"
    BY <1>0, <2>1 DEF CrewInv, Labels, Work
  <2>3. AtAddress' \in {e + 1, Len(args.addresses) + 1}
    BY <2>2 DEF AtAddress
  <2> QED
    BY <1>2, <2>3
<1>3. CASE Join
  <2>1. AtAddress = 0 /\ Address(0 + 1)
    BY <1>3 DEF Join, AtAddress
  <2> QED
    BY <1>1, <1>2, <2>1
<1>4. CASE PrintProtocols
  <2>1. /\ pc[Main] = "print" /\ job[Main] \in {<<e, 0>> : e \in Entries}
        /\ Address(job[Main][1] + 1)
    BY <1>0, <1>4 DEF PrintProtocols, CrewInv, Work, Busy
  <2>2. job[Main][1] \in 1 .. Len(args.addresses) /\ AtAddress = job[Main][1]
    BY <2>1 DEF AtAddress
  <2> QED
    BY <1>1, <1>2, <2>1, <2>2
<1> QED
  BY <1>3, <1>4

LEMMA NextLessens ==
  ASSUME ScanInv, Next
  PROVE  Lessens
<1>1. ASSUME NEW p \in Procs, ScanStep(p) \/ SelectError(p) PROVE Lessens
  <2>1. ScanMoves(p)
    BY <1>1, ScanStepMoves DEF ScanInv, CrewInv
  <2>2. PICK l \in Busy : pc' = [pc EXCEPT ![p] = l]
    BY <2>1 DEF ScanMoves
  <2>3. Todo' = Todo
    BY <2>1 DEF ScanMoves, Todo
  <2>4. \A q \in Procs : pc'[q] = IF q = p THEN l ELSE pc[q]
    BY <2>2 DEF ScanInv, CrewInv, Labels
  <2>5. /\ pc'[Main] = "join" <=> pc[Main] = "join"
        /\ pc'[Main] = "end" <=> pc[Main] = "end"
    BY <2>1, <2>4, Constants DEF ScanMoves, Busy
  <2>6. AtAddress' = AtAddress
    BY <2>1, <2>5 DEF ScanMoves, AtAddress
  <2> QED
    BY <1>1, <2>3, <2>6, ScanStepGrows DEF Lessens
<1>2. ASSUME NEW t \in Threads, Take(t) \/ PrintRows(t) PROVE Lessens
  BY <1>2, TakeLessens, PrintRowsGrows DEF Lessens
<1>3. CASE Join \/ PrintProtocols
  BY <1>3, MainGetsOn DEF Lessens
<1>4. ASSUME NEW k \in net, Deliver(k) PROVE Lessens
  <2>1. net' = net \ {k} /\ UNCHANGED <<ip_map, pc, job, retry_count, results>>
    BY <1>4 DEF Deliver, queues
  <2>2. Todo' = Todo /\ AtAddress' = AtAddress
    BY <2>1 DEF Todo, AtAddress
  <2>3. PlacesStay
    BY <2>1, PlaceStays DEF PlacesStay
  <2> QED
    BY <2>1, <2>2, <2>3 DEF Lessens
<1>5. ASSUME NEW p \in Procs, ~exited, CallFails(p) PROVE Lessens
  BY <1>5 DEF CallFails, Lessens
<1> QED
  BY <1>1, <1>2, <1>3, <1>4, <1>5, Constants DEF Next, Step, MainStep

\* A host answers a probe with one packet at most.
LEMMA AnswersAreFinite ==
  ASSUME NEW s \in Scans, NEW n
  PROVE  IsFiniteSet(Answers([scan |-> s, try |-> n]))
<1> DEFINE q == [scan |-> s, try |-> n]
<1>1. q.scan = s /\ s.type \in TcpTypes \cup {"UDP", "PROTOCOL"}
  BY PortScansAre, ProtocolScansAre DEF Scans
<1> HIDE DEF q
<1>2. \E x : TcpAnswers(q) \in {{}, {x}}
  BY DEF TcpAnswers
<1>3. \E x : Answers(q) \in {{}, {x}}
  BY <1>1, <1>2 DEF Answers, TcpTypes
<1>4. IsFiniteSet(Answers(q))
  <2>1. PICK x : Answers(q) = {} \/ Answers(q) = {x}
    BY <1>3
  <2>2. IsFiniteSet({}) /\ IsFiniteSet({x})
    BY FS_EmptySet, FS_Singleton
  <2> QED
    BY <2>1, <2>2
<1> QED
  BY <1>4 DEF q

NetIsFinite == IsFiniteSet(net)

LEMMA NetStaysFinite ==
  ASSUME ScanInv, [Next]_vars, NetIsFinite
  PROVE  NetIsFinite'
<1> USE DEF NetIsFinite
<1>1. ASSUME NEW p \in Procs, NEW n, pc[p] \in AtScan, Send(p, n) PROVE IsFiniteSet(net')
  <2>1. PICK a \in {{}, Answers([scan |-> Scan(p), try |-> n])} : net' = net \cup a
    BY <1>1 DEF Send
  <2>2. IsFiniteSet(a)
    BY <1>1, <2>1, ScanIs, AnswersAreFinite, FS_EmptySet
  <2> QED
    BY <2>1, <2>2, FS_Union
<1>2. ASSUME NEW p \in Procs, ScanStep(p) \/ SelectError(p) PROVE IsFiniteSet(net')
  <2>1. CASE OpenRest(p)
    BY <1>1, <2>1 DEF OpenRest, AtScan
  <2>2. CASE Retry(p)
    <3>1. pc[p] = "wait"
      BY <2>2 DEF Retry, Undecided
    <3>2. Send(p, retry_count[p] + 2)
      BY <2>2 DEF Retry
    <3> QED
      BY <1>1, <3>1, <3>2 DEF AtScan
  <2>3. CASE OpenFirst(p) \/ Ignore(p) \/ GiveUp(p)
    BY <2>3 DEF OpenFirst, Ignore, GiveUp, wire
  <2>4. CASE SelectError(p)
    BY <2>4 DEF SelectError
  <2>5. CASE Decide(p)
    <3>1. \E x : UNCHANGED <<queues, job, net, printed>>
      BY <2>5, DecideIs
    <3> QED
      BY <3>1
  <2> QED
    BY <1>2, <2>1, <2>2, <2>3, <2>4, <2>5 DEF ScanStep
<1>3. ASSUME NEW t \in Threads, Take(t) \/ PrintRows(t) PROVE IsFiniteSet(net')
  BY <1>3 DEF Take, PrintRows, wire
<1>4. CASE Join \/ PrintProtocols
  BY <1>4 DEF Join, PrintProtocols, wire
<1>5. ASSUME NEW k \in net, Deliver(k) PROVE IsFiniteSet(net')
  BY <1>5, FS_RemoveElement DEF Deliver
<1>6. CASE UNCHANGED scanner
  BY <1>6 DEF scanner, wire
<1> QED
  BY <1>2, <1>3, <1>4, <1>5, <1>6, Steps

LEMMA BoundedIs ==
  ASSUME ScanInv, IsFiniteSet(net)
  PROVE  Bounded
<1> USE Constants
<1>1. IsFiniteSet(Todo)
  BY JobsAreFinite, TodoIs, FS_Subset DEF TodoIsQueued, ScanInv
<1>2. AtAddress \in 0 .. Len(args.addresses) + 1
  <2>1. CASE pc[Main] \in Busy
    <3>1. job[Main] \in {<<e, 0>> : e \in Entries}
      BY <2>1 DEF ScanInv, CrewInv, Work
    <3> QED
      BY <2>1, <3>1 DEF AtAddress, Busy
  <2>2. CASE pc[Main] \in {"join", "end"}
    BY <2>2 DEF AtAddress
  <2> QED
    BY <2>1, <2>2 DEF ScanInv, CrewInv, Labels
<1>3. ASSUME NEW p \in Procs PROVE Place(p) \in 0 .. LastPlace(p) /\ Unread(p) \in Nat
  <2> DEFINE n == Len(results[p])
             m == ScanCount(p)
             a == Len(inbox[p].recv)
             b == Len(inbox[p].icmp)
  <2>1. /\ n \in Nat /\ retry_count[p] \in 0 .. 2 /\ m \in Nat /\ a \in Nat /\ b \in Nat
        /\ pc[p] \in AtScan => n < m
    BY CountIs, LengthsAre
  <2>2. Unread(p) = a + b /\ LastPlace(p) = 6 * m + 2
    BY DEF Unread, LastPlace
  <2>3. pc[p] \in AtScan => Place(p) \in {6 * n, 6 * n + 1, 6 * n + 2 + retry_count[p]}
    BY DEF Place, AtScan
  <2>4. pc[p] \notin AtScan => Place(p) \in {6 * m, 6 * m + 1, 6 * m + 2}
    BY DEF Place, AtScan
  <2> HIDE DEF n, m, a, b
  <2>5. Unread(p) \in Nat
    BY <2>1, <2>2
  <2>6. CASE pc[p] \in AtScan
    BY <2>1, <2>2, <2>3, <2>5, <2>6
  <2>7. CASE pc[p] \notin AtScan
    BY <2>1, <2>2, <2>4, <2>5, <2>7
  <2> QED
    BY <2>6, <2>7
<1> QED
  BY <1>1, <1>2, <1>3 DEF Bounded

\* The program cannot go on for ever, whatever is lost, late or meant for another
\* scan, however long the command line is and whoever's select() fails: every step
\* exits, which nothing follows, or lessens a measure that has an end.  Packets that
\* come early or that decide nothing keep a scan busy only as long as there are any,
\* and a try brings one at most.
THEOREM NoScanForEver == Spec => [][Lessens]_vars /\ []Bounded
<1>1. ScanInv /\ [Next]_vars => [Lessens]_vars
  BY NextLessens
<1>2. Init => NetIsFinite
  BY FS_EmptySet DEF Init, NetIsFinite
<1>3. Spec => []NetIsFinite
  BY <1>2, NetStaysFinite, ScanInvariant, PTL DEF Spec
<1>4. ScanInv /\ NetIsFinite => Bounded
  BY BoundedIs DEF NetIsFinite
<1> QED
  BY <1>1, <1>3, <1>4, ScanInvariant, PTL DEF Spec
=============================================================================
