---------------------------- MODULE ScanOptions ----------------------------
(***************************************************************************)
(* The command line of the port scanner: fillOptions() takes the options   *)
(* in the order they come, then fills in what no option gave.  An option   *)
(* is a record of its kind and its parsed argument; text that strtol() or  *)
(* inet_aton() refuses, and what ends in print_usage(), is left out.       *)
(***************************************************************************)
EXTENDS Integers, Sequences, SequencesExt

IntMax == 2147483647

ScanTypes == <<"SYN", "NULL", "FIN", "XMAS", "ACK", "PROTOCOL">>

\* The parsed options.  An int counts the addresses of a block and the threads.
OptionRecords ==
  LET lists == [opt : {"ports", "protocol-range"}, range : BOOLEAN, values : Seq(Int)]
  IN  {o \in lists : o.range => Len(o.values) = 2}
        \cup [opt : {"ip"}, address : Nat]
        \cup [opt : {"prefix"}, address : Nat, prefix : 2 .. 32]
        \cup [opt : {"file"}, lines : Seq([length : Nat, address : Nat])]
        \cup [opt : {"speedup"}, value : {n \in Int : n <= IntMax}]
        \cup [opt : {"scans"}, empty : BOOLEAN, names : SUBSET ToSet(ScanTypes)]

Run(first, last) == [i \in 1 .. (last - first + 1) |-> first + i - 1]

\* "a-b" is a run, anything else a list.
Numbers(o) == IF o.range THEN Run(o.values[1], o.values[2]) ELSE o.values

\* Protocols are of type short.
Short(n) == ((n + 32768) % 65536) - 32768
Protocols(o) ==
  IF o.range THEN Run(Short(o.values[1]), Short(o.values[2]))
  ELSE [i \in DOMAIN o.values |-> Short(o.values[i])]

\* An empty text selects all, as no option does; a text that names nothing,
\* of delimiters alone, selects none.
ScansNamed(o) == IF o.empty THEN ToSet(ScanTypes) ELSE o.names

\* Without the last address of the block.
BlockShort(address, prefix) ==
  LET size == 2 ^ (32 - prefix)
      base == address - (address % size)
  IN Run(base, base + size - 2)

\* The block of a prefix: all its addresses, whatever host part was given.
Block(address, prefix) ==
  LET size == 2 ^ (32 - prefix)
      base == address - (address % size)
  IN Run(base, base + size - 1)

\* A line of a file counts when it has more than six characters.
Counts(line) == line.length > 6
Kept(lines) ==
  LET kept[i \in 0 .. Len(lines)] ==
        IF i = 0 THEN << >>
        ELSE IF Counts(lines[i]) THEN Append(kept[i - 1], lines[i].address)
                                 ELSE kept[i - 1]
  IN  kept
FileAddresses(lines) == Kept(lines)[Len(lines)]

\* The globals before fillOptions(), after global_init().
NoArgs == [ports |-> << >>, addresses |-> << >>, scans |-> {},
           protocols |-> << >>, speedup |-> 1]

Apply(args, o) ==
  CASE o.opt = "ports" -> [args EXCEPT !.ports = @ \o Numbers(o)]
    [] o.opt = "ip" -> [args EXCEPT !.addresses = Append(@, o.address)]
    [] o.opt = "prefix" ->
         [args EXCEPT !.addresses = @ \o Block(o.address, o.prefix)]
    [] o.opt = "file" ->
         [args EXCEPT !.addresses = @ \o FileAddresses(o.lines)]
    [] o.opt = "speedup" ->
         IF o.value > 0 THEN [args EXCEPT !.speedup = o.value] ELSE args
    [] o.opt = "scans" ->
         [args EXCEPT !.scans = ScansNamed(o)]
    [] o.opt = "protocol-range" ->
         [args EXCEPT !.protocols = @ \o Protocols(o)]

Given(options, kind) == \E i \in DOMAIN options : options[i].opt = kind

\* The arguments after each turn of the loop over the options.
Turns(options) ==
  LET turns[i \in 0 .. Len(options)] ==
        IF i = 0 THEN NoArgs ELSE Apply(turns[i - 1], options[i])
  IN  turns

FillOptions(options) ==
  LET args == Turns(options)[Len(options)]
  IN [args EXCEPT
        !.ports     = IF Given(options, "ports") THEN @ ELSE Run(1, 1024),
        !.scans     = IF Given(options, "scans") THEN @ ELSE ToSet(ScanTypes),
        !.protocols = IF Given(options, "protocol-range") THEN @
                      ELSE Run(1, 255)]

\* The short that runs through a range of protocols never gets past 32767.
Ends(o) == o.opt = "protocol-range" /\ o.range => Short(o.values[2]) # 32767

\* A port has no sign, as a "-" makes a range, and becomes an int on its way
\* to the scans.
Fits(o) ==
  o.opt = "ports" => \A i \in DOMAIN o.values : o.values[i] \in 0 .. IntMax

\* A command line that main() goes on with.
GoodOptions(options) ==
  /\ \E k \in {"ip", "prefix", "file"} : Given(options, k)
  /\ \A i \in DOMAIN options : Ends(options[i]) /\ Fits(options[i])
  /\ FillOptions(options).ports # << >>
=============================================================================
