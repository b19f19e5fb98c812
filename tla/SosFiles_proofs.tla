--------------------------- MODULE SosFiles_proofs ---------------------------
(***************************************************************************)
(* For every number of processes, pipes and entries: the counts of a pipe  *)
(* are never below the descriptors that point to it, so an end that was    *)
(* counted closed is closed, and stays so.                                 *)
(***************************************************************************)
EXTENDS SosFiles, FiniteSetTheorems, TLAPS

Ends == {"r", "w"}
Count(b, e) == IF e = "r" THEN nreaders[b] ELSE nwriters[b]

\* A process that is not alive has an empty table, and nothing points to a
\* pipe that was not made yet.
Closed == \A p \in Procs \ live, fd \in Fds : filetable[p][fd] = Null
Fresh == \A b \in Pipes \ made, e \in Ends, p \in Procs, fd \in Fds :
           filetable[p][fd] # <<b, e>>
Covered == \A b \in Pipes, e \in Ends :
             Cardinality(Refs(<<b, e>>)) <= Count(b, e)

IInv == TypeOK /\ Closed /\ Fresh /\ Covered
-----------------------------------------------------------------------------
\* The vnodes of the pipes are vnodes, and their modes are their ends.
LEMMA PipeVnodes ==
  ASSUME NEW b \in Pipes, NEW e \in Ends
  PROVE  /\ <<b, e>> \in Vnodes /\ <<b, e>> # Null /\ b \in Bufs
         /\ Mode(<<b, e>>) = e
         /\ ClosesTo(b, e) = {<<b, e>>}
<1>1. <<b, e>> \in Vnodes /\ b \in Bufs BY DEF Vnodes, Bufs, Ends
<1>2. b # "cr" /\ b # "wr" BY SosFilesAssumption
<1>3. <<b, e>> # Null BY SosFilesAssumption DEF Bufs, Ends
<1>4. \A v \in Vnodes : v[1] = b => Mode(v) = v[2] /\ v = <<b, v[2]>> /\ v[2] \in Ends
  BY <1>2 DEF Mode, Vnodes, Ends
<1>5. ClosesTo(b, e) = {<<b, e>>}
  BY <1>1, <1>4 DEF ClosesTo
<1> QED BY <1>1, <1>2, <1>3, <1>5 DEF Mode

\* Tables and processes are finite sets.
LEMMA FiniteTables ==
  ASSUME TypeOK, NEW v
  PROVE  /\ IsFiniteSet(Refs(v)) /\ Cardinality(Refs(v)) \in Nat
         /\ \A p : IsFiniteSet(Entries(p, v)) /\ Cardinality(Entries(p, v)) \in Nat
<1>1. IsFiniteSet(Fds) BY FS_Interval, SosFilesAssumption DEF Fds
<1>2. IsFiniteSet(live) BY FS_Subset, SosFilesAssumption DEF TypeOK
<1>3. IsFiniteSet(live \X Fds) BY <1>1, <1>2, FS_Product
<1>4. Refs(v) \subseteq live \X Fds BY DEF Refs
<1>5. IsFiniteSet(Refs(v)) BY <1>3, <1>4, FS_Subset
<1>6. ASSUME NEW p PROVE IsFiniteSet(Entries(p, v))
  <2>1. Entries(p, v) \subseteq Fds BY DEF Entries
  <2> QED BY <1>1, <2>1, FS_Subset
<1> QED BY <1>5, <1>6, FS_CardinalityType

\* A set all of whose elements are equal has at most one.
LEMMA AtMostOne ==
  ASSUME NEW S, \A x, y \in S : x = y
  PROVE  Cardinality(S) <= 1
<1>1. CASE S = {} BY <1>1, FS_EmptySet
<1>2. CASE S # {}
  <2>1. PICK x \in S : TRUE BY <1>2
  <2>2. S = {x} BY <2>1
  <2> QED BY <2>2, FS_Singleton
<1> QED BY <1>1, <1>2

\* The descriptors of one process are its share of Refs.
LEMMA Share ==
  ASSUME TypeOK, NEW p \in Procs, NEW v
  PROVE  /\ IsFiniteSet({p} \X Entries(p, v))
         /\ Cardinality({p} \X Entries(p, v)) = Cardinality(Entries(p, v))
<1>1. IsFiniteSet({p}) /\ Cardinality({p}) = 1 BY FS_Singleton
<1>2. IsFiniteSet(Entries(p, v)) /\ Cardinality(Entries(p, v)) \in Nat
  BY FiniteTables
<1> DEFINE E == Entries(p, v)
<1> HIDE DEF E
<1>3. /\ IsFiniteSet({p} \X E)
      /\ Cardinality({p} \X E) = Cardinality({p}) * Cardinality(E)
  BY <1>1, <1>2, FS_Product DEF E
<1>4. Cardinality({p}) * Cardinality(E) = Cardinality(E)
  BY <1>1, <1>2 DEF E
<1> QED BY <1>3, <1>4 DEF E

\* k calls of close_fd on a vnode take at most k from its count, and never
\* make it negative.
LEMMA DropsBounds ==
  ASSUME TypeOK, NEW v \in Vnodes, NEW k \in Nat, NEW n \in Nat
  PROVE  /\ Drops(v, k) \in Nat /\ Drops(v, k) <= k
         /\ Less(n, k) \in Nat
         /\ Less(n, Drops(v, k)) \in Nat
         /\ Less(n, Drops(v, k)) >= n - k
         /\ n = 0 => Less(n, Drops(v, k)) = 0
<1>1. num_open[v] \in Nat BY DEF TypeOK
<1>2. Drops(v, k) \in Nat /\ Drops(v, k) <= k BY <1>1 DEF Drops
<1> QED BY <1>2 DEF Less

\* What CloseFds does to the counts of a pipe.
LEMMA CloseFdsFacts ==
  ASSUME TypeOK, NEW calls \in [Vnodes -> Nat], CloseFds(calls)
  PROVE  /\ num_open' \in [Vnodes -> Nat]
         /\ nreaders' \in [Bufs -> Nat] /\ nwriters' \in [Bufs -> Nat]
         /\ \A b \in Pipes, e \in Ends :
              /\ Count(b, e)' >= Count(b, e) - calls[<<b, e>>]
              /\ Count(b, e) = 0 => Count(b, e)' = 0
<1>1. num_open' \in [Vnodes -> Nat]
  <2>1. ASSUME NEW v \in Vnodes PROVE Less(num_open[v], calls[v]) \in Nat
    BY DEF Less, TypeOK
  <2> QED BY <2>1 DEF CloseFds
<1>2. nreaders' \in [Bufs -> Nat]
  <2>1. ASSUME NEW b \in Bufs, ClosesTo(b, "r") # {}
        PROVE  Less(nreaders[b], Drops(CHOOSE v \in ClosesTo(b, "r") : TRUE,
                      calls[CHOOSE v \in ClosesTo(b, "r") : TRUE])) \in Nat
    <3> DEFINE v == CHOOSE v \in ClosesTo(b, "r") : TRUE
    <3>1. v \in Vnodes BY <2>1 DEF ClosesTo
    <3> HIDE DEF v
    <3>2. nreaders[b] \in Nat BY DEF TypeOK
    <3>3. Less(nreaders[b], Drops(v, calls[v])) \in Nat
      BY <3>1, <3>2, DropsBounds
    <3> QED BY <3>3 DEF v
  <2> QED BY <2>1 DEF CloseFds, TypeOK
<1>3. nwriters' \in [Bufs -> Nat]
  <2>1. ASSUME NEW b \in Bufs, ClosesTo(b, "w") # {}
        PROVE  Less(nwriters[b], Drops(CHOOSE v \in ClosesTo(b, "w") : TRUE,
                      calls[CHOOSE v \in ClosesTo(b, "w") : TRUE])) \in Nat
    <3> DEFINE v == CHOOSE v \in ClosesTo(b, "w") : TRUE
    <3>1. v \in Vnodes BY <2>1 DEF ClosesTo
    <3> HIDE DEF v
    <3>2. nwriters[b] \in Nat BY DEF TypeOK
    <3>3. Less(nwriters[b], Drops(v, calls[v])) \in Nat
      BY <3>1, <3>2, DropsBounds
    <3> QED BY <3>3 DEF v
  <2> QED BY <2>1 DEF CloseFds, TypeOK
<1>4. ASSUME NEW b \in Pipes, NEW e \in Ends
      PROVE  /\ Count(b, e)' >= Count(b, e) - calls[<<b, e>>]
             /\ Count(b, e) = 0 => Count(b, e)' = 0
  <2>1. <<b, e>> \in Vnodes /\ b \in Bufs /\ ClosesTo(b, e) = {<<b, e>>}
    BY PipeVnodes
  <2>2. Count(b, e) \in Nat BY <2>1 DEF Count, TypeOK
  <2>3. Count(b, e)' = Less(Count(b, e), Drops(<<b, e>>, calls[<<b, e>>]))
    <3>1. (CHOOSE v \in {<<b, e>>} : TRUE) = <<b, e>> OBVIOUS
    <3>2. CASE e = "r" BY <2>1, <3>1, <3>2 DEF CloseFds, Count
    <3>3. CASE e = "w" BY <2>1, <3>1, <3>3 DEF CloseFds, Count
    <3> QED BY <3>2, <3>3 DEF Ends
  <2>4. calls[<<b, e>>] \in Nat BY <2>1
  <2> QED BY <2>1, <2>2, <2>3, <2>4, DropsBounds
<1> QED BY <1>1, <1>2, <1>3, <1>4

\* When p loses from its table exactly the entries of calls, and the counts
\* fall as close_fd makes them fall, the invariant stays: both sides of
\* Covered lose at most, and exactly, calls[v].
LEMMA ClosingKeeps ==
  ASSUME IInv, NEW p \in live, NEW gone \in SUBSET Fds, NEW calls \in [Vnodes -> Nat],
         CloseFds(calls), live' \in {live, live \ {p}}, made' = made,
         live' = live \ {p} => gone = Fds,
         filetable' = [filetable EXCEPT ![p] =
                        [fd \in Fds |-> IF fd \in gone THEN Null ELSE filetable[p][fd]]],
         \A v \in Vnodes : calls[v] = Cardinality(Entries(p, v) \cap gone)
  PROVE  IInv'
<1>1. TypeOK /\ p \in Procs BY DEF IInv, TypeOK
<1>2. TypeOK'
  <2>1. filetable' \in [Procs -> [Fds -> Vnodes \cup {Null}]]
    BY <1>1 DEF TypeOK
  <2>2. live' \subseteq Procs BY <1>1 DEF TypeOK
  <2> QED BY <1>1, <2>1, <2>2, CloseFdsFacts DEF TypeOK
<1>3. \A q \in Procs, fd \in Fds :
         filetable'[q][fd] = IF q = p /\ fd \in gone THEN Null ELSE filetable[q][fd]
  BY <1>1 DEF TypeOK
<1>4. Closed' BY <1>1, <1>3 DEF IInv, Closed
<1>5. Fresh'
  <2>1. \A b \in Pipes, e \in Ends : <<b, e>> # Null BY PipeVnodes
  <2> SUFFICES ASSUME NEW b \in Pipes \ made', NEW e \in Ends,
                      NEW q \in Procs, NEW fd \in Fds
               PROVE  filetable'[q][fd] # <<b, e>>
    BY DEF Fresh
  <2>2. filetable[q][fd] # <<b, e>> BY DEF IInv, Fresh
  <2>3. <<b, e>> # Null BY <2>1
  <2>4. CASE q = p /\ fd \in gone BY <1>3, <2>3, <2>4
  <2>5. CASE ~(q = p /\ fd \in gone)
    <3>1. filetable'[q][fd] = filetable[q][fd] BY <1>3, <2>5
    <3> QED BY <3>1, <2>2
  <2> QED BY <2>4, <2>5
<1>6. ASSUME NEW b \in Pipes, NEW e \in Ends
      PROVE  Cardinality(Refs(<<b, e>>)') <= Count(b, e)'
  <2> DEFINE v == <<b, e>>
             E == Entries(p, v) \cap gone
  <2>1. v \in Vnodes /\ v # Null /\ b \in Bufs BY PipeVnodes
  <2>2. /\ IsFiniteSet(Entries(p, v)) /\ IsFiniteSet(Refs(v))
        /\ Cardinality(Refs(v)) \in Nat
    BY <1>1, FiniteTables
  <2>3. IsFiniteSet(E) /\ Cardinality(E) \in Nat
    BY <2>2, FS_Subset, FS_CardinalityType
  <2>4. /\ IsFiniteSet({p} \X E)
        /\ Cardinality({p} \X E) = Cardinality(E)
    <3>1. IsFiniteSet({p}) /\ Cardinality({p}) = 1 BY FS_Singleton
    <3> HIDE DEF E
    <3>2. /\ IsFiniteSet({p} \X E)
          /\ Cardinality({p} \X E) = Cardinality({p}) * Cardinality(E)
      BY <3>1, <2>3, FS_Product
    <3>3. Cardinality({p}) * Cardinality(E) = Cardinality(E) BY <3>1, <2>3
    <3> QED BY <3>2, <3>3
  <2>5. {p} \X E \subseteq Refs(v)
    BY <1>1 DEF Refs, Entries
  <2>6. Refs(v)' \subseteq Refs(v) \ ({p} \X E)
    <3> SUFFICES ASSUME NEW r \in Refs(v)' PROVE r \in Refs(v) \ ({p} \X E)
      OBVIOUS
    <3>1. /\ r = <<r[1], r[2]>> /\ r[1] \in live' /\ r[2] \in Fds
          /\ filetable'[r[1]][r[2]] = v
      BY DEF Refs
    <3>2. r[1] \in Procs /\ r[1] \in live BY <3>1, <1>1 DEF TypeOK
    <3>3. ~(r[1] = p /\ r[2] \in gone) BY <3>1, <3>2, <1>3, <2>1
    <3>4. filetable[r[1]][r[2]] = v BY <3>1, <3>2, <3>3, <1>3
    <3> QED BY <3>1, <3>2, <3>3, <3>4 DEF Refs
  <2> HIDE DEF E
  <2>7. Cardinality(Refs(v)') <= Cardinality(Refs(v)) - Cardinality(E)
    <3>1. /\ IsFiniteSet(Refs(v) \ ({p} \X E))
          /\ Cardinality(Refs(v) \ ({p} \X E)) =
               Cardinality(Refs(v)) - Cardinality(Refs(v) \cap ({p} \X E))
      BY <2>2, FS_Difference
    <3>2. Refs(v) \cap ({p} \X E) = {p} \X E BY <2>5
    <3>3. Cardinality(Refs(v)') <= Cardinality(Refs(v) \ ({p} \X E))
      BY <2>6, <3>1, FS_Subset
    <3>4. Cardinality(Refs(v) \ ({p} \X E)) = Cardinality(Refs(v)) - Cardinality(E)
      BY <3>1, <3>2, <2>4
    <3> QED BY <3>3, <3>4
  <2>8. Cardinality(Refs(v)) <= Count(b, e) BY DEF IInv, Covered
  <2>9. Count(b, e)' >= Count(b, e) - Cardinality(E)
    BY <1>1, <2>1, CloseFdsFacts DEF E
  <2>10. Count(b, e) \in Nat BY <1>1, <2>1 DEF TypeOK, Count
  <2>11. Count(b, e)' \in Nat BY <1>2, <2>1 DEF TypeOK, Count
  <2>12. Cardinality(Refs(v)') \in Nat
    <3>1. IsFiniteSet(Refs(v)') BY <2>2, <2>6, FS_Subset
    <3> QED BY <3>1, FS_CardinalityType
  <2> QED BY <2>2, <2>3, <2>7, <2>8, <2>9, <2>10, <2>11, <2>12
<1> QED BY <1>2, <1>4, <1>5, <1>6 DEF IInv, Covered

\* When no descriptor of an end is new the end stays covered.
LEMMA NoNewRefs ==
  ASSUME IInv, NEW b \in Pipes, NEW e \in Ends,
         Refs(<<b, e>>)' \subseteq Refs(<<b, e>>), Count(b, e)' \in Nat,
         Count(b, e)' >= Count(b, e)
  PROVE  Cardinality(Refs(<<b, e>>)') <= Count(b, e)'
<1>1. IsFiniteSet(Refs(<<b, e>>)) /\ Cardinality(Refs(<<b, e>>)) \in Nat
  BY FiniteTables DEF IInv
<1>2. /\ IsFiniteSet(Refs(<<b, e>>)')
      /\ Cardinality(Refs(<<b, e>>)') <= Cardinality(Refs(<<b, e>>))
  BY <1>1, FS_Subset
<1>3. Cardinality(Refs(<<b, e>>)') \in Nat BY <1>2, FS_CardinalityType
<1>4. Count(b, e) \in Nat BY PipeVnodes DEF IInv, TypeOK, Count
<1>5. Cardinality(Refs(<<b, e>>)) <= Count(b, e) BY DEF IInv, Covered
<1> QED BY <1>1, <1>2, <1>3, <1>4, <1>5

\* do_close loses the one entry it closes.
LEMMA CloseKeeps ==
  ASSUME IInv, NEW p \in Procs, NEW fd \in Fds, Close(p, fd)
  PROVE  IInv'
<1> DEFINE calls == [v \in Vnodes |-> IF v = filetable[p][fd] THEN 1 ELSE 0]
<1>1. /\ CloseFds(calls) /\ live' = live /\ made' = made /\ p \in live
      /\ filetable' = [filetable EXCEPT ![p][fd] = Null]
  BY DEF Close, Open
<1>2. calls \in [Vnodes -> Nat] OBVIOUS
<1>3. filetable' = [filetable EXCEPT ![p] =
         [g \in Fds |-> IF g \in {fd} THEN Null ELSE filetable[p][g]]]
  BY <1>1 DEF IInv, TypeOK
<1>4. ASSUME NEW v \in Vnodes PROVE calls[v] = Cardinality(Entries(p, v) \cap {fd})
  <2>1. CASE v = filetable[p][fd]
    <3>1. Entries(p, v) \cap {fd} = {fd} BY <2>1 DEF Entries
    <3> QED BY <2>1, <3>1, FS_Singleton
  <2>2. CASE v # filetable[p][fd]
    <3>1. Entries(p, v) \cap {fd} = {} BY <2>2 DEF Entries
    <3> QED BY <2>2, <3>1, FS_EmptySet
  <2> QED BY <2>1, <2>2
<1>5. live' = live \ {p} => {fd} = Fds BY <1>1
<1> HIDE DEF calls
<1>6. {fd} \in SUBSET Fds OBVIOUS
<1> QED BY <1>1, <1>2, <1>3, <1>4, <1>5, <1>6, ClosingKeeps

\* do_exit loses every entry of the process.
LEMMA ExitKeeps ==
  ASSUME IInv, NEW p \in Procs, Exit(p)
  PROVE  IInv'
<1> DEFINE calls == [v \in Vnodes |-> Cardinality(Entries(p, v))]
<1>1. /\ CloseFds(calls) /\ live' = live \ {p} /\ made' = made
      /\ p \in live
      /\ filetable' = [filetable EXCEPT ![p] = [fd \in Fds |-> Null]]
  BY DEF Exit
<1>2. calls \in [Vnodes -> Nat] BY FiniteTables DEF IInv
<1>3. filetable' = [filetable EXCEPT ![p] =
         [g \in Fds |-> IF g \in Fds THEN Null ELSE filetable[p][g]]]
  BY <1>1
<1>4. ASSUME NEW v \in Vnodes PROVE calls[v] = Cardinality(Entries(p, v) \cap Fds)
  <2>1. Entries(p, v) \cap Fds = Entries(p, v) BY DEF Entries
  <2> QED BY <2>1
<1> HIDE DEF calls
<1>5. Fds \in SUBSET Fds OBVIOUS
<1> QED BY <1>1, <1>2, <1>3, <1>4, <1>5, ClosingKeeps

\* do_pipe gives a fresh pipe at most one descriptor at each end, and counts
\* one at each.
LEMMA PipeKeeps ==
  ASSUME IInv, NEW p \in Procs, NEW b \in Pipes, Pipe(p, b)
  PROVE  IInv'
<1> DEFINE free == {fd \in Fds : filetable[p][fd] = Null}
           Below(fd) == {g \in free : g < fd}
           New(fd) == CASE fd \in free /\ Below(fd) = {} -> <<b, "r">>
                        [] fd \in free /\ Cardinality(Below(fd)) = 1 -> <<b, "w">>
                        [] OTHER -> filetable[p][fd]
<1>1. /\ p \in live /\ b \in Pipes \ made
      /\ made' = made \cup {b} /\ live' = live /\ num_open' = num_open
      /\ filetable' = [filetable EXCEPT ![p] = [fd \in Fds |-> New(fd)]]
      /\ nreaders' = [nreaders EXCEPT ![b] = 1]
      /\ nwriters' = [nwriters EXCEPT ![b] = 1]
  BY DEF Pipe
<1>2. TypeOK BY DEF IInv
<1>3. \A e \in Ends, c \in Pipes : <<c, e>> \in Vnodes /\ <<c, e>> # Null /\ c \in Bufs
  BY PipeVnodes
<1>4. \A fd \in Fds : /\ Below(fd) = {} \/ Cardinality(Below(fd)) # 0
                      /\ Below(fd) = {} => Cardinality(Below(fd)) # 1
  <2>1. ASSUME NEW fd \in Fds PROVE IsFiniteSet(Below(fd))
    <3>1. IsFiniteSet(Fds) BY FS_Interval, SosFilesAssumption DEF Fds
    <3> QED BY <3>1, FS_Subset
  <2>2. Cardinality({}) = 0 BY FS_EmptySet
  <2> QED BY <2>1, <2>2, FS_EmptySet
<1>5. ASSUME NEW fd \in Fds
      PROVE  /\ New(fd) \in Vnodes \cup {Null}
             /\ New(fd) = filetable[p][fd] \/ fd \in free
             /\ fd \in free => New(fd) \in {<<b, "r">>, <<b, "w">>, Null}
             /\ New(fd) = <<b, "r">> => fd \in free /\ Below(fd) = {}
             /\ New(fd) = <<b, "w">> => fd \in free /\ Cardinality(Below(fd)) = 1
  <2> HIDE DEF Below
  <2>1. filetable[p][fd] \in Vnodes \cup {Null} BY <1>2 DEF TypeOK
  <2>2. filetable[p][fd] # <<b, "r">> /\ filetable[p][fd] # <<b, "w">>
    BY <1>1 DEF IInv, Fresh, Ends
  <2>3. "r" \in Ends /\ "w" \in Ends BY DEF Ends
  <2>4. <<b, "r">> # <<b, "w">> OBVIOUS
  <2> QED BY <2>1, <2>2, <2>3, <2>4, <1>1, <1>3, <1>4
<1> HIDE DEF New
<1>6. \A q \in Procs, fd \in Fds :
         filetable'[q][fd] = IF q = p THEN New(fd) ELSE filetable[q][fd]
  BY <1>1, <1>2 DEF TypeOK
<1>7. TypeOK'
  <2>1. filetable' \in [Procs -> [Fds -> Vnodes \cup {Null}]]
    BY <1>1, <1>2, <1>5 DEF TypeOK
  <2>2. nreaders' \in [Bufs -> Nat] /\ nwriters' \in [Bufs -> Nat]
    BY <1>1, <1>2 DEF TypeOK
  <2> QED BY <1>1, <1>2, <2>1, <2>2 DEF TypeOK
<1>8. Closed' BY <1>1, <1>6 DEF IInv, Closed
<1>9. Fresh'
  <2> SUFFICES ASSUME NEW c \in Pipes \ made', NEW e \in Ends,
                      NEW q \in Procs, NEW fd \in Fds
               PROVE  filetable'[q][fd] # <<c, e>>
    BY DEF Fresh
  <2>1. filetable[q][fd] # <<c, e>> /\ c # b BY <1>1 DEF IInv, Fresh
  <2>2. New(fd) = filetable[p][fd] \/ New(fd) \in {<<b, "r">>, <<b, "w">>, Null}
    BY <1>5
  <2>3. CASE q = p
    <3>1. filetable'[q][fd] = New(fd) BY <2>3, <1>6
    <3>2. <<c, e>> # Null /\ <<c, e>> # <<b, "r">> /\ <<c, e>> # <<b, "w">>
      BY <2>1, <1>3
    <3>3. filetable[p][fd] # <<c, e>> BY <2>1, <2>3
    <3> QED BY <3>1, <3>2, <3>3, <2>2
  <2>4. CASE q # p BY <2>1, <2>4, <1>6
  <2> QED BY <2>3, <2>4
<1>10. ASSUME NEW c \in Pipes, NEW e \in Ends
       PROVE  Cardinality(Refs(<<c, e>>)') <= Count(c, e)'
  <2>1. CASE c # b
    <3>1. Count(c, e)' = Count(c, e) /\ Count(c, e) \in Nat
      BY <1>1, <1>2, <1>3, <2>1 DEF Count, TypeOK
    <3>2. Refs(<<c, e>>)' \subseteq Refs(<<c, e>>)
      <4> SUFFICES ASSUME NEW r \in Refs(<<c, e>>)' PROVE r \in Refs(<<c, e>>)
        OBVIOUS
      <4>1. /\ r \in live \X Fds /\ r[1] \in Procs /\ r[2] \in Fds
            /\ filetable'[r[1]][r[2]] = <<c, e>>
        BY <1>1, <1>2 DEF Refs, TypeOK
      <4>2. New(r[2]) = filetable[p][r[2]] \/ New(r[2]) \in {<<b, "r">>, <<b, "w">>, Null}
        BY <4>1, <1>5
      <4>3. filetable[r[1]][r[2]] = <<c, e>>
        BY <4>1, <4>2, <1>3, <1>6, <2>1
      <4> QED BY <4>1, <4>3 DEF Refs
    <3> QED BY <3>1, <3>2, NoNewRefs
  <2>2. CASE c = b
    <3>1. Count(c, e)' = 1 BY <1>1, <1>2, <1>3, <2>2 DEF Count, TypeOK
    <3>2. ASSUME NEW r \in Refs(<<b, e>>)'
          PROVE  r = <<p, r[2]>> /\ r[2] \in Fds /\ New(r[2]) = <<b, e>>
      <4>1. /\ r = <<r[1], r[2]>> /\ r[1] \in Procs /\ r[2] \in Fds
            /\ filetable'[r[1]][r[2]] = <<b, e>>
        BY <1>1, <1>2 DEF Refs, TypeOK
      <4>2. filetable[r[1]][r[2]] # <<b, e>> BY <4>1, <1>1 DEF IInv, Fresh
      <4> QED BY <4>1, <4>2, <1>6
    <3>3. ASSUME NEW f \in Fds, NEW g \in Fds, New(f) = <<b, e>>, New(g) = <<b, e>>, f < g
          PROVE  FALSE
      <4>1. f \in free /\ g \in free BY <3>3, <1>5 DEF Ends
      <4>2. f \in Int /\ g \in Int BY SosFilesAssumption DEF Fds
      <4>3. f \in Below(g) BY <3>3, <4>1
      <4>4. CASE e = "r"
        <5>1. Below(g) = {} BY <3>3, <4>4, <1>5
        <5> QED BY <4>3, <5>1
      <4>5. CASE e = "w"
        <5>1. Cardinality(Below(f)) = 1 /\ Cardinality(Below(g)) = 1
          BY <3>3, <4>5, <1>5
        <5>2. IsFiniteSet(Below(f)) /\ IsFiniteSet(Below(g))
          <6>1. IsFiniteSet(Fds) BY FS_Interval, SosFilesAssumption DEF Fds
          <6> QED BY <6>1, FS_Subset
        <5>3. f \notin Below(f) BY <4>2
        <5>4. /\ IsFiniteSet(Below(f) \cup {f})
              /\ Cardinality(Below(f) \cup {f}) = 2
          <6> HIDE DEF Below
          <6> QED BY <5>1, <5>2, <5>3, FS_AddElement
        <5>5. Below(f) \cup {f} \subseteq Below(g)
          <6>1. \A h \in Below(f) : h \in free /\ h < f /\ h \in Int
            BY SosFilesAssumption DEF Fds
          <6> QED BY <4>1, <4>2, <4>3, <6>1, <3>3
        <5> HIDE DEF Below
        <5>6. Cardinality(Below(f) \cup {f}) <= Cardinality(Below(g))
          BY <5>2, <5>5, FS_Subset
        <5> QED BY <5>1, <5>4, <5>6
      <4> QED BY <4>4, <4>5 DEF Ends
    <3>4. ASSUME NEW r \in Refs(<<b, e>>)', NEW s \in Refs(<<b, e>>)' PROVE r = s
      <4>1. /\ r = <<p, r[2]>> /\ r[2] \in Fds /\ New(r[2]) = <<b, e>>
            /\ s = <<p, s[2]>> /\ s[2] \in Fds /\ New(s[2]) = <<b, e>>
        BY <3>2
      <4>2. r[2] \in Int /\ s[2] \in Int BY <4>1 DEF Fds
      <4>3. ~(r[2] < s[2]) /\ ~(s[2] < r[2]) BY <4>1, <3>3
      <4> QED BY <4>1, <4>2, <4>3
    <3>5. Cardinality(Refs(<<b, e>>)') <= 1 BY <3>4, AtMostOne
    <3> QED BY <3>1, <3>5, <2>2
  <2> QED BY <2>1, <2>2
<1> QED BY <1>7, <1>8, <1>9, <1>10 DEF IInv, Covered

\* do_fork gives the child as many descriptors of each pipe as it adds to the
\* counts.
LEMMA ForkKeeps ==
  ASSUME IInv, NEW p \in Procs, NEW c \in Procs, Fork(p, c)
  PROVE  IInv'
<1>1. /\ p \in live /\ c \in Procs \ live /\ c # p
      /\ live' = live \cup {c} /\ made' = made
      /\ filetable' = [filetable EXCEPT ![c] = filetable[p]]
      /\ num_open' = [v \in Vnodes |-> num_open[v] + Cardinality(Entries(p, v))]
      /\ nreaders' = [b \in Bufs |-> nreaders[b] + Added(p, b, "r")]
      /\ nwriters' = [b \in Bufs |-> nwriters[b] + Added(p, b, "w")]
  BY DEF Fork
<1>2. TypeOK BY DEF IInv
<1>3. \A q \in Procs : filetable'[q] = IF q = c THEN filetable[p] ELSE filetable[q]
  BY <1>1, <1>2 DEF TypeOK
<1>4. \A b \in Bufs, e \in Ends : Added(p, b, e) \in Nat
  BY <1>2, FiniteTables DEF Added
<1>5. TypeOK'
  <2>1. filetable' \in [Procs -> [Fds -> Vnodes \cup {Null}]]
    BY <1>1, <1>2 DEF TypeOK
  <2>2. num_open' \in [Vnodes -> Nat]
    <3>1. \A v \in Vnodes : Cardinality(Entries(p, v)) \in Nat BY <1>2, FiniteTables
    <3> QED BY <1>1, <1>2, <3>1 DEF TypeOK
  <2>3. nreaders' \in [Bufs -> Nat] /\ nwriters' \in [Bufs -> Nat]
    BY <1>1, <1>2, <1>4 DEF TypeOK, Ends
  <2>4. live' \subseteq Procs BY <1>1, <1>2 DEF TypeOK
  <2> QED BY <1>1, <1>2, <2>1, <2>2, <2>3, <2>4 DEF TypeOK
<1>6. Closed' BY <1>1, <1>3 DEF IInv, Closed
<1>7. Fresh' BY <1>1, <1>3 DEF IInv, Fresh
<1>8. ASSUME NEW b \in Pipes, NEW e \in Ends
      PROVE  Cardinality(Refs(<<b, e>>)') <= Count(b, e)'
  <2> DEFINE v == <<b, e>>
  <2>1. v \in Vnodes /\ v # Null /\ b \in Bufs BY PipeVnodes
  <2>2. /\ IsFiniteSet(Refs(v)) /\ Cardinality(Refs(v)) \in Nat
        /\ IsFiniteSet(Entries(p, v)) /\ Cardinality(Entries(p, v)) \in Nat
    BY <1>2, FiniteTables
  <2>3. Count(b, e)' = Count(b, e) + Cardinality(Entries(p, v))
    <3>1. Added(p, b, e) = Cardinality(Entries(p, v)) BY DEF Added
    <3>2. CASE e = "r" BY <3>1, <3>2, <2>1, <1>1 DEF Count
    <3>3. CASE e = "w" BY <3>1, <3>3, <2>1, <1>1 DEF Count
    <3> QED BY <3>2, <3>3 DEF Ends
  <2>4. /\ IsFiniteSet({c} \X Entries(p, v))
        /\ Cardinality({c} \X Entries(p, v)) = Cardinality(Entries(p, v))
    <3> DEFINE E == Entries(p, v)
    <3> HIDE DEF E
    <3>1. IsFiniteSet({c}) /\ Cardinality({c}) = 1 BY FS_Singleton
    <3>2. IsFiniteSet(E) /\ Cardinality(E) \in Nat BY <2>2 DEF E
    <3>3. /\ IsFiniteSet({c} \X E)
          /\ Cardinality({c} \X E) = Cardinality({c}) * Cardinality(E)
      BY <3>1, <3>2, FS_Product
    <3>4. Cardinality({c}) * Cardinality(E) = Cardinality(E) BY <3>1, <3>2
    <3> QED BY <3>3, <3>4 DEF E
  <2>5. Refs(v)' \subseteq Refs(v) \cup ({c} \X Entries(p, v))
    <3> SUFFICES ASSUME NEW r \in Refs(v)'
                 PROVE  r \in Refs(v) \cup ({c} \X Entries(p, v))
      OBVIOUS
    <3>1. /\ r = <<r[1], r[2]>> /\ r[1] \in live' /\ r[1] \in Procs /\ r[2] \in Fds
          /\ filetable'[r[1]][r[2]] = v
      BY <1>1, <1>2 DEF Refs, TypeOK
    <3>2. CASE r[1] = c
      <4>1. r[2] \in Entries(p, v) BY <3>1, <3>2, <1>3 DEF Entries
      <4> QED BY <4>1, <3>1, <3>2
    <3>3. CASE r[1] # c BY <3>1, <3>3, <1>1, <1>3 DEF Refs
    <3> QED BY <3>2, <3>3
  <2>6. Cardinality(Refs(v)) <= Count(b, e) BY DEF IInv, Covered
  <2>7. Count(b, e) \in Nat BY <1>2, <2>1 DEF TypeOK, Count
  <2> DEFINE R == Refs(v)
             N == {c} \X Entries(p, v)
  <2> HIDE DEF N, R
  <2>8. /\ IsFiniteSet(R \cup N)
        /\ Cardinality(R \cup N) = Cardinality(R) + Cardinality(N) - Cardinality(R \cap N)
    BY <2>2, <2>4, FS_Union DEF N, R
  <2>9. Cardinality(R \cap N) \in Nat
    <3>1. IsFiniteSet(R \cap N) BY <2>2, FS_Subset DEF R
    <3> QED BY <3>1, FS_CardinalityType
  <2>10. IsFiniteSet(R') /\ Cardinality(R') <= Cardinality(R \cup N)
    BY <2>5, <2>8, FS_Subset DEF N, R
  <2>11. Cardinality(R') \in Nat BY <2>10, FS_CardinalityType
  <2>12. Cardinality(R) \in Nat /\ Cardinality(N) \in Nat
         /\ Cardinality(R) <= Count(b, e)
         /\ Count(b, e)' = Count(b, e) + Cardinality(N)
    BY <2>2, <2>3, <2>4, <2>6 DEF N, R
  <2>13. Cardinality(R') <= Count(b, e)'
    BY <2>7, <2>8, <2>9, <2>10, <2>11, <2>12
  <2> QED BY <2>13 DEF R
<1> QED BY <1>5, <1>6, <1>7, <1>8 DEF IInv, Covered

\* do_dup2 makes at most one descriptor of the end it counts, and no other.
LEMMA Dup2Keeps ==
  ASSUME IInv, NEW p \in Procs, NEW fd1 \in Fds, NEW fd2 \in Fds, Dup2(p, fd1, fd2)
  PROVE  IInv'
<1> DEFINE u == filetable[p][fd1]
<1>1. /\ p \in live /\ u # Null /\ live' = live /\ made' = made /\ num_open' = num_open
      /\ filetable' = [filetable EXCEPT ![p][fd2] = u]
      /\ Mode(u) = "r" => /\ nreaders' = [nreaders EXCEPT ![u[1]] = @ + 1]
                          /\ nwriters' = nwriters
      /\ Mode(u) # "r" => /\ nwriters' = [nwriters EXCEPT ![u[1]] = @ + 1]
                          /\ nreaders' = nreaders
  BY DEF Dup2, Open
<1>2. TypeOK BY DEF IInv
<1>3. u \in Vnodes /\ u[1] \in Bufs
  BY <1>1, <1>2 DEF TypeOK, Vnodes, Bufs
<1> HIDE DEF u
<1>4. \A q \in Procs, fd \in Fds :
         filetable'[q][fd] = IF q = p /\ fd = fd2 THEN u ELSE filetable[q][fd]
  BY <1>1, <1>2 DEF TypeOK
<1>5. TypeOK'
  <2>1. filetable' \in [Procs -> [Fds -> Vnodes \cup {Null}]]
    BY <1>1, <1>2, <1>3 DEF TypeOK
  <2>2. nreaders' \in [Bufs -> Nat] /\ nwriters' \in [Bufs -> Nat]
    <3>1. nreaders \in [Bufs -> Nat] /\ nwriters \in [Bufs -> Nat] BY <1>2 DEF TypeOK
    <3>2. \A f \in [Bufs -> Nat], x \in Bufs : [f EXCEPT ![x] = @ + 1] \in [Bufs -> Nat]
      OBVIOUS
    <3>3. CASE Mode(u) = "r" BY <1>1, <1>3, <3>1, <3>2, <3>3
    <3>4. CASE Mode(u) # "r" BY <1>1, <1>3, <3>1, <3>2, <3>4
    <3> QED BY <3>3, <3>4
  <2> QED BY <1>1, <1>2, <2>1, <2>2 DEF TypeOK
<1>6. Closed' BY <1>1, <1>4 DEF IInv, Closed
<1>7. Fresh'
  <2> SUFFICES ASSUME NEW b \in Pipes \ made', NEW e \in Ends,
                      NEW q \in Procs, NEW fd \in Fds
               PROVE  filetable'[q][fd] # <<b, e>>
    BY DEF Fresh
  <2>1. filetable[q][fd] # <<b, e>> /\ filetable[p][fd1] # <<b, e>>
    BY <1>1 DEF IInv, Fresh
  <2> QED BY <1>4, <2>1 DEF u
<1>8. ASSUME NEW b \in Pipes, NEW e \in Ends
      PROVE  Cardinality(Refs(<<b, e>>)') <= Count(b, e)'
  <2> DEFINE v == <<b, e>>
             R == Refs(v)
  <2>1. v \in Vnodes /\ v # Null /\ b \in Bufs /\ Mode(v) = e BY PipeVnodes
  <2>2. IsFiniteSet(R) /\ Cardinality(R) \in Nat BY <1>2, FiniteTables
  <2>3. Count(b, e) \in Nat /\ Count(b, e)' \in Nat
    BY <1>2, <1>5, <2>1 DEF TypeOK, Count
  <2>4. Cardinality(R) <= Count(b, e) BY DEF IInv, Covered
  <2>5. CASE u = v
    <3>1. Count(b, e)' = Count(b, e) + 1
      <4>1. u[1] = b /\ Mode(u) = e BY <2>1, <2>5
      <4>2. CASE e = "r" BY <4>1, <4>2, <1>1, <1>2, <2>1 DEF Count, TypeOK
      <4>3. CASE e = "w" BY <4>1, <4>3, <1>1, <1>2, <2>1 DEF Count, TypeOK
      <4> QED BY <4>2, <4>3 DEF Ends
    <3>2. R' \subseteq R \cup {<<p, fd2>>}
      <4> SUFFICES ASSUME NEW r \in R' PROVE r \in R \cup {<<p, fd2>>}
        OBVIOUS
      <4>1. /\ r = <<r[1], r[2]>> /\ r[1] \in live /\ r[1] \in Procs /\ r[2] \in Fds
            /\ filetable'[r[1]][r[2]] = v
        BY <1>1, <1>2 DEF Refs, TypeOK
      <4>2. CASE r[1] = p /\ r[2] = fd2 BY <4>1, <4>2
      <4>3. CASE ~(r[1] = p /\ r[2] = fd2)
        <5>1. filetable[r[1]][r[2]] = v BY <4>1, <4>3, <1>4
        <5> QED BY <5>1, <4>1 DEF Refs
      <4> QED BY <4>2, <4>3
    <3> HIDE DEF R
    <3>3. /\ IsFiniteSet(R \cup {<<p, fd2>>})
          /\ Cardinality(R \cup {<<p, fd2>>}) <= Cardinality(R) + 1
      <4> DEFINE x == <<p, fd2>>
      <4> HIDE DEF x
      <4>1. /\ IsFiniteSet(R \cup {x})
            /\ Cardinality(R \cup {x}) = IF x \in R THEN Cardinality(R) ELSE Cardinality(R) + 1
        BY <2>2, FS_AddElement
      <4>2. Cardinality(R \cup {x}) <= Cardinality(R) + 1 BY <2>2, <4>1
      <4> QED BY <4>1, <4>2 DEF x
    <3>4. IsFiniteSet(R') /\ Cardinality(R') <= Cardinality(R \cup {<<p, fd2>>})
      BY <3>2, <3>3, FS_Subset
    <3>5. Cardinality(R') \in Nat /\ Cardinality(R \cup {<<p, fd2>>}) \in Nat
      BY <3>3, <3>4, FS_CardinalityType
    <3>6. Cardinality(R') <= Count(b, e)'
      BY <2>2, <2>3, <2>4, <3>1, <3>3, <3>4, <3>5
    <3> QED BY <3>6 DEF R
  <2>6. CASE u # v
    <3>1. R' \subseteq R
      <4> SUFFICES ASSUME NEW r \in R' PROVE r \in R
        OBVIOUS
      <4>1. /\ r = <<r[1], r[2]>> /\ r[1] \in live /\ r[1] \in Procs /\ r[2] \in Fds
            /\ filetable'[r[1]][r[2]] = v
        BY <1>1, <1>2 DEF Refs, TypeOK
      <4>2. filetable[r[1]][r[2]] = v BY <4>1, <2>6, <1>4
      <4> QED BY <4>2, <4>1 DEF Refs
    <3>2. Count(b, e)' >= Count(b, e)
      <4>1. CASE Mode(u) = "r"
        BY <4>1, <1>1, <1>2, <1>3, <2>1 DEF Count, TypeOK
      <4>2. CASE Mode(u) # "r"
        BY <4>2, <1>1, <1>2, <1>3, <2>1 DEF Count, TypeOK
      <4> QED BY <4>1, <4>2
    <3> QED BY <3>1, <3>2, <2>3, NoNewRefs
  <2> QED BY <2>5, <2>6
<1> QED BY <1>5, <1>6, <1>7, <1>8 DEF IInv, Covered

\* The invariant is inductive.
LEMMA Invariant == Spec => []IInv
<1>1. Init => IInv
  <2> SUFFICES ASSUME Init PROVE IInv
    OBVIOUS
  <2>1. TypeOK
    <3>1. First \in Procs BY SosFilesAssumption
    <3>2. <<"cr", "r">> \in Vnodes /\ <<"wr", "w">> \in Vnodes BY DEF Vnodes
    <3>3. filetable \in [Procs -> [Fds -> Vnodes \cup {Null}]] BY <3>2 DEF Init
    <3>4. num_open \in [Vnodes -> Nat] BY DEF Init
    <3>5. nreaders \in [Bufs -> Nat] /\ nwriters \in [Bufs -> Nat] BY DEF Init
    <3> QED BY <3>1, <3>3, <3>4, <3>5 DEF Init, TypeOK
  <2>2. Closed BY DEF Init, Closed
  <2>3. ASSUME NEW b \in Pipes, NEW e \in Ends, NEW p \in Procs, NEW fd \in Fds
        PROVE  filetable[p][fd] # <<b, e>>
    <3>1. filetable[p][fd] \in {Null, <<"cr", "r">>, <<"wr", "w">>} BY DEF Init
    <3>2. Null # <<b, e>> /\ b # "cr" /\ b # "wr" BY PipeVnodes, SosFilesAssumption
    <3>3. <<b, e>> # <<"cr", "r">> /\ <<b, e>> # <<"wr", "w">> BY <3>2
    <3> QED BY <3>1, <3>2, <3>3
  <2>4. Covered
    <3> SUFFICES ASSUME NEW b \in Pipes, NEW e \in Ends
                 PROVE  Cardinality(Refs(<<b, e>>)) <= Count(b, e)
      BY DEF Covered
    <3>1. live \subseteq Procs BY <2>1 DEF TypeOK
    <3>2. Refs(<<b, e>>) = {} BY <2>3, <3>1 DEF Refs
    <3>3. Count(b, e) \in Nat BY <2>1, PipeVnodes DEF TypeOK, Count
    <3> QED BY <3>2, <3>3, FS_EmptySet
  <2> QED BY <2>1, <2>2, <2>3, <2>4 DEF IInv, Fresh
<1>2. IInv /\ [Next]_vars => IInv'
  <2> SUFFICES ASSUME IInv, [Next]_vars PROVE IInv'
    OBVIOUS
  <2>1. ASSUME NEW p \in Procs, NEW b \in Pipes, Pipe(p, b) PROVE IInv'
    BY <2>1, PipeKeeps
  <2>2. ASSUME NEW p \in Procs, NEW c \in Procs, Fork(p, c) PROVE IInv'
    BY <2>2, ForkKeeps
  <2>3. ASSUME NEW p \in Procs, NEW fd1 \in Fds, NEW fd2 \in Fds, Dup2(p, fd1, fd2)
        PROVE  IInv'
    BY <2>3, Dup2Keeps
  <2>4. ASSUME NEW p \in Procs, NEW fd \in Fds, Close(p, fd) PROVE IInv'
    BY <2>4, CloseKeeps
  <2>5. ASSUME NEW p \in Procs, Exit(p) PROVE IInv'
    BY <2>5, ExitKeeps
  <2>6. CASE UNCHANGED vars
    <3>1. UNCHANGED <<filetable, live, made, num_open, nreaders, nwriters>>
      BY <2>6 DEF vars
    <3>2. TypeOK' /\ Closed' /\ Fresh' BY <3>1 DEF IInv, TypeOK, Closed, Fresh
    <3>3. Covered' BY <3>1 DEF IInv, Covered, Refs, Count
    <3> QED BY <3>2, <3>3 DEF IInv
  <2> QED BY <2>1, <2>2, <2>3, <2>4, <2>5, <2>6 DEF Next
<1> QED BY <1>1, <1>2, PTL DEF Spec

\* The file tables, the counts and the set of pipes keep their types: no call
\* of close_fd makes a count negative.
THEOREM TypeCorrect == Spec => []TypeOK
<1>1. IInv => TypeOK BY DEF IInv
<1> QED BY <1>1, Invariant, PTL

\* For every number of processes, pipes and entries, no descriptor of a pipe
\* outlives the count of its end (nreaders and nwriters in close_fd).
THEOREM CountsAreEnough == Spec => []CountsCoverDescriptors
<1>1. IInv => CountsCoverDescriptors
  <2> SUFFICES ASSUME IInv, NEW b \in Pipes
               PROVE  /\ Cardinality(Refs(<<b, "r">>)) <= nreaders[b]
                      /\ Cardinality(Refs(<<b, "w">>)) <= nwriters[b]
    BY DEF CountsCoverDescriptors
  <2>1. "r" \in Ends /\ "w" \in Ends BY DEF Ends
  <2> QED BY <2>1 DEF IInv, Covered, Count
<1> QED BY <1>1, Invariant, PTL

\* Under the invariant an end that is counted closed has no descriptors.
LEMMA NoneLeft ==
  ASSUME IInv, NEW b \in Pipes, NEW e \in Ends, Count(b, e) = 0
  PROVE  \A p \in live : Entries(p, <<b, e>>) = {}
<1>1. Cardinality(Refs(<<b, e>>)) <= 0 BY DEF IInv, Covered
<1>2. IsFiniteSet(Refs(<<b, e>>)) /\ Cardinality(Refs(<<b, e>>)) \in Nat
  BY FiniteTables DEF IInv
<1>3. Refs(<<b, e>>) = {} BY <1>1, <1>2, FS_EmptySet
<1> SUFFICES ASSUME NEW p \in live, NEW fd \in Entries(p, <<b, e>>) PROVE FALSE
  OBVIOUS
<1>4. fd \in Fds /\ filetable[p][fd] = <<b, e>> BY DEF Entries
<1>5. <<p, fd>> \in Refs(<<b, e>>) BY <1>4 DEF Refs
<1> QED BY <1>3, <1>5

\* Every step leaves an end that is counted closed closed.
LEMMA StaysClosed ==
  ASSUME IInv, Next, NEW b \in made, NEW e \in Ends, Count(b, e) = 0
  PROVE  Count(b, e)' = 0
<1>1. b \in Pipes /\ b \in Bufs BY PipeVnodes DEF IInv, TypeOK, Bufs
<1>2. <<b, e>> \in Vnodes /\ <<b, e>> # Null /\ Mode(<<b, e>>) = e
  BY <1>1, PipeVnodes
<1>3. \A p \in live : Entries(p, <<b, e>>) = {} BY <1>1, NoneLeft
<1>4. TypeOK /\ live \subseteq Procs BY DEF IInv, TypeOK
<1>5. ASSUME NEW p \in Procs, NEW c \in Pipes, Pipe(p, c) PROVE Count(b, e)' = 0
  <2>1. c # b BY <1>5 DEF Pipe
  <2>2. nreaders' = [nreaders EXCEPT ![c] = 1] /\ nwriters' = [nwriters EXCEPT ![c] = 1]
    BY <1>5 DEF Pipe
  <2> QED BY <1>1, <1>4, <2>1, <2>2 DEF Count, TypeOK
<1>6. ASSUME NEW p \in Procs, NEW c \in Procs, Fork(p, c) PROVE Count(b, e)' = 0
  <2>1. /\ p \in live
        /\ nreaders' = [d \in Bufs |-> nreaders[d] + Added(p, d, "r")]
        /\ nwriters' = [d \in Bufs |-> nwriters[d] + Added(p, d, "w")]
    BY <1>6 DEF Fork
  <2>2. Added(p, b, e) = 0 BY <2>1, <1>1, <1>3, FS_EmptySet DEF Added
  <2>3. CASE e = "r" BY <2>1, <2>2, <2>3, <1>1 DEF Count
  <2>4. CASE e = "w" BY <2>1, <2>2, <2>4, <1>1 DEF Count
  <2> QED BY <2>3, <2>4 DEF Ends
<1>7. ASSUME NEW p \in Procs, NEW fd1 \in Fds, NEW fd2 \in Fds, Dup2(p, fd1, fd2)
      PROVE  Count(b, e)' = 0
  <2> DEFINE u == filetable[p][fd1]
  <2>1. /\ p \in live /\ u # Null
        /\ Mode(u) = "r" => /\ nreaders' = [nreaders EXCEPT ![u[1]] = @ + 1]
                            /\ nwriters' = nwriters
        /\ Mode(u) # "r" => /\ nwriters' = [nwriters EXCEPT ![u[1]] = @ + 1]
                            /\ nreaders' = nreaders
    BY <1>7 DEF Dup2, Open
  <2>2. u \in Vnodes /\ u # <<b, e>>
    <3>1. u \in Vnodes BY <2>1, <1>4 DEF TypeOK
    <3>2. u # <<b, e>> BY <2>1, <1>3 DEF Entries
    <3> QED BY <3>1, <3>2
  <2> HIDE DEF u
  <2>3. u[1] = b => Mode(u) # e /\ Mode(u) \in Ends
    <3>1. b # "cr" /\ b # "wr" BY <1>1, SosFilesAssumption
    <3>2. u[1] = b => u = <<b, u[2]>> /\ u[2] \in Ends /\ Mode(u) = u[2]
      BY <2>2, <3>1 DEF Vnodes, Mode, Ends
    <3> QED BY <2>2, <3>2
  <2>4. CASE Mode(u) = "r"
    <3>1. nreaders'[b] = nreaders[b] \/ e = "w"
      BY <2>1, <2>3, <2>4, <1>1, <1>4 DEF TypeOK, Ends
    <3> QED BY <2>1, <2>4, <3>1 DEF Count, Ends
  <2>5. CASE Mode(u) # "r"
    <3>1. nwriters'[b] = nwriters[b] \/ e = "r"
      BY <2>1, <2>3, <2>5, <1>1, <1>4 DEF TypeOK, Ends
    <3> QED BY <2>1, <2>5, <3>1 DEF Count, Ends
  <2> QED BY <2>4, <2>5
<1>8. ASSUME NEW p \in Procs, NEW fd \in Fds, Close(p, fd) PROVE Count(b, e)' = 0
  <2> DEFINE calls == [v \in Vnodes |-> IF v = filetable[p][fd] THEN 1 ELSE 0]
  <2>1. CloseFds(calls) BY <1>8 DEF Close
  <2>2. calls \in [Vnodes -> Nat] OBVIOUS
  <2> HIDE DEF calls
  <2> QED BY <2>1, <2>2, <1>1, <1>4, CloseFdsFacts
<1>9. ASSUME NEW p \in Procs, Exit(p) PROVE Count(b, e)' = 0
  <2> DEFINE calls == [v \in Vnodes |-> Cardinality(Entries(p, v))]
  <2>1. CloseFds(calls) BY <1>9 DEF Exit
  <2>2. calls \in [Vnodes -> Nat] BY <1>4, FiniteTables
  <2> HIDE DEF calls
  <2> QED BY <2>1, <2>2, <1>1, <1>4, CloseFdsFacts
<1> QED BY <1>5, <1>6, <1>7, <1>8, <1>9 DEF Next

\* For every number of processes, pipes and entries, a pipe that was counted
\* without writers, or without readers, stays so: the end of file that
\* io_buffer_read_exact reports is final.
THEOREM EofIsFinal == Spec => EndsAreFinal
<1>1. IInv /\ [Next]_vars => [EndsStay]_vars
  <2> SUFFICES ASSUME IInv, Next, NEW b \in made
               PROVE  /\ nwriters[b] = 0 => nwriters'[b] = 0
                      /\ nreaders[b] = 0 => nreaders'[b] = 0
    BY DEF EndsStay
  <2>1. "r" \in Ends /\ "w" \in Ends BY DEF Ends
  <2>2. \A e \in Ends : Count(b, e) = 0 => Count(b, e)' = 0 BY StaysClosed
  <2> QED BY <2>1, <2>2 DEF Count
<1> QED BY <1>1, Invariant, PTL DEF Spec, EndsAreFinal
=============================================================================
