------------------------------ MODULE SosFiles ------------------------------
(***************************************************************************)
(* The descriptors of SOS Lab 3: the file table of each process, the       *)
(* vnodes its entries point to, and the reference counts of vnodes and     *)
(* IO_Buffers that pipe(), fork(), dup2(), close() and _exit() maintain    *)
(* (sched.c).  The counts decide when the readers of a pipe see the end of *)
(* file and when its writer is stopped, which SosPipe models.              *)
(*                                                                         *)
(* A system call runs to its end before the next process runs (nothing     *)
(* here blocks), so it is one action.  A call that fails changes nothing   *)
(* and is left out, as are read() and write(), which change no descriptor. *)
(* The test `fd > FTSIZE' lets fd = FTSIZE through to a read past the      *)
(* table, which is undefined; calls use fds of the table.                  *)
(***************************************************************************)
EXTENDS Integers, FiniteSets

CONSTANTS Procs, First,   \* PCBs, and the one initialize_user_process makes
          FTSIZE,         \* entries of a file table
          Pipes,          \* IO_Buffers that pipe() may make
          Null,           \* an entry that is not open
          Dups,           \* the buffers that dup2() is called to share
          MaxCount        \* bound on num_open, nreaders and nwriters

ASSUME SosFilesAssumption ==
  /\ IsFiniteSet(Procs) /\ First \in Procs
  /\ FTSIZE \in Nat /\ FTSIZE >= 3
  /\ "cr" \notin Pipes /\ "wr" \notin Pipes
  /\ \A b \in Pipes \cup {"cr", "wr"}, e \in {"r", "w"} : Null # <<b, e>>
  /\ MaxCount \in Nat

\* A vnode is its IO_Buffer and the end it was made for.  cr and wr are the
\* buffers of the console.
Bufs   == Pipes \cup {"cr", "wr"}
Vnodes == (Pipes \X {"r", "w"}) \cup {<<"cr", "r">>, <<"wr", "w">>}
Fds    == 0 .. FTSIZE - 1

\* v->mode: O_RDONLY from new_vnode unless do_pipe set it; sos.c does not set
\* it for the vnode that writes to the console.
Mode(v) == IF v[1] = "wr" THEN "r" ELSE v[2]

VARIABLES filetable, live, made, num_open, nreaders, nwriters
vars == <<filetable, live, made, num_open, nreaders, nwriters>>

\* How many entries of process p point to v, and of all live processes.
Entries(p, v) == {fd \in Fds : filetable[p][fd] = v}
Refs(v) == {r \in live \X Fds : filetable[r[1]][r[2]] = v}

\* SOS() and initialize_user_process
Init ==
  /\ filetable = [p \in Procs |-> [fd \in Fds |->
        IF p # First \/ fd > 2 THEN Null
        ELSE IF fd = 0 THEN <<"cr", "r">> ELSE <<"wr", "w">>]]
  /\ live = {First} /\ made = {}
  /\ num_open = [v \in Vnodes |-> CASE v[1] = "cr" -> 1 [] v[1] = "wr" -> 2 [] OTHER -> 0]
  /\ nreaders = [b \in Bufs |-> IF b \in {"cr", "wr"} THEN 1 ELSE 0]
  /\ nwriters = [b \in Bufs |-> CASE b = "cr" -> 1 [] b = "wr" -> 2 [] OTHER -> 0]
-----------------------------------------------------------------------------
Open(p, fd) == p \in live /\ filetable[p][fd] # Null

\* do_pipe: the first free entry gets the read end, the next the write end; a
\* table without room still gets the pipe.  num_open of both ends stays 0.
Pipe(p, b) ==
  /\ p \in live /\ b \in Pipes \ made
  /\ made' = made \cup {b}
  /\ LET free == {fd \in Fds : filetable[p][fd] = Null}
         Below(fd) == {g \in free : g < fd}
     IN  filetable' = [filetable EXCEPT ![p] = [fd \in Fds |->
           CASE fd \in free /\ Below(fd) = {} -> <<b, "r">>
             [] fd \in free /\ Cardinality(Below(fd)) = 1 -> <<b, "w">>
             [] OTHER -> filetable[p][fd]]]
  /\ nreaders' = [nreaders EXCEPT ![b] = 1]
  /\ nwriters' = [nwriters EXCEPT ![b] = 1]
  /\ UNCHANGED <<live, num_open>>

\* What do_fork adds to nreaders or nwriters of b: one for every entry of p
\* that points to that end of a pipe.
AddedNothing(p, b, e) == 0
Added(p, b, e) == IF b \in Pipes THEN Cardinality(Entries(p, <<b, e>>)) ELSE 0

\* do_fork: the child shares every vnode of its parent.
Fork(p, c) ==
  /\ p \in live /\ c \in Procs \ live
  /\ live' = live \cup {c}
  /\ filetable' = [filetable EXCEPT ![c] = filetable[p]]
  /\ num_open' = [v \in Vnodes |-> num_open[v] + Cardinality(Entries(p, v))]
  /\ nreaders' = [b \in Bufs |-> nreaders[b] + Added(p, b, "r")]
  /\ nwriters' = [b \in Bufs |-> nwriters[b] + Added(p, b, "w")]
  /\ \A b \in Bufs : nreaders'[b] <= MaxCount /\ nwriters'[b] <= MaxCount
  /\ \A v \in Vnodes : num_open'[v] <= MaxCount
  /\ UNCHANGED made

\* do_dup2: the old vnode of fd2 is dropped without a close.
Dup2(p, fd1, fd2) ==
  /\ Open(p, fd1) /\ Open(p, fd2) /\ filetable[p][fd1][1] \in Dups
  /\ LET v == filetable[p][fd1] IN
       /\ filetable' = [filetable EXCEPT ![p][fd2] = v]
       /\ IF Mode(v) = "r"
            THEN /\ nreaders[v[1]] < MaxCount
                 /\ nreaders' = [nreaders EXCEPT ![v[1]] = @ + 1]
                 /\ nwriters' = nwriters
            ELSE /\ nwriters[v[1]] < MaxCount
                 /\ nwriters' = [nwriters EXCEPT ![v[1]] = @ + 1]
                 /\ nreaders' = nreaders
  /\ UNCHANGED <<live, made, num_open>>

\* close_fd(v) called k times: num_open falls to 0 and stays there, and every
\* call that leaves it at 0 takes one from the count of v's mode.
Drops(v, k) == IF k = 0 THEN 0 ELSE
               IF num_open[v] = 0 THEN k ELSE
               IF k < num_open[v] THEN 0 ELSE k - num_open[v] + 1
LessUnchecked(n, k) == n - k
Less(n, k) == IF k < n THEN n - k ELSE 0

\* The vnodes of buffer b whose close lowers its count of mode m.
ClosesTo(b, m) == {v \in Vnodes : v[1] = b /\ Mode(v) = m}

CloseFds(calls) ==
  /\ num_open' = [v \in Vnodes |-> Less(num_open[v], calls[v])]
  /\ nreaders' = [b \in Bufs |-> IF ClosesTo(b, "r") = {} THEN nreaders[b] ELSE
       LET v == CHOOSE v \in ClosesTo(b, "r") : TRUE
       IN  Less(nreaders[b], Drops(v, calls[v]))]
  /\ nwriters' = [b \in Bufs |-> IF ClosesTo(b, "w") = {} THEN nwriters[b] ELSE
       LET v == CHOOSE v \in ClosesTo(b, "w") : TRUE
       IN  Less(nwriters[b], Drops(v, calls[v]))]

\* do_close
Close(p, fd) ==
  /\ Open(p, fd)
  /\ CloseFds([v \in Vnodes |-> IF v = filetable[p][fd] THEN 1 ELSE 0])
  /\ filetable' = [filetable EXCEPT ![p][fd] = Null]
  /\ UNCHANGED <<live, made>>

\* do_exit closes every entry; nothing looks at the table afterwards.
Exit(p) ==
  /\ p \in live
  /\ CloseFds([v \in Vnodes |-> Cardinality(Entries(p, v))])
  /\ live' = live \ {p}
  /\ filetable' = [filetable EXCEPT ![p] = [fd \in Fds |-> Null]]
  /\ UNCHANGED made

Next == \E p \in Procs :
          \/ \E b \in Pipes : Pipe(p, b)
          \/ \E c \in Procs : Fork(p, c)
          \/ \E fd1, fd2 \in Fds : Dup2(p, fd1, fd2)
          \/ \E fd \in Fds : Close(p, fd)
          \/ Exit(p)

Spec == Init /\ [][Next]_vars
-----------------------------------------------------------------------------
(* Properties                                                              *)

TypeOK == /\ filetable \in [Procs -> [Fds -> Vnodes \cup {Null}]]
          /\ live \subseteq Procs /\ made \subseteq Pipes
          /\ num_open \in [Vnodes -> Nat]
          /\ nreaders \in [Bufs -> Nat] /\ nwriters \in [Bufs -> Nat]

\* No descriptor of a pipe outlives its count: while a process can write to a
\* pipe its readers are not told it ended, and while one can read it its
\* writer is not stopped (the tests of nwriters and nreaders in io.c).
CountsCoverDescriptors ==
  \A b \in Pipes : /\ Cardinality(Refs(<<b, "r">>)) <= nreaders[b]
                   /\ Cardinality(Refs(<<b, "w">>)) <= nwriters[b]

\* Once a pipe has lost its writers, or its readers, it never has one again.
EndsStay == \A b \in made : /\ nwriters[b] = 0 => nwriters'[b] = 0
                            /\ nreaders[b] = 0 => nreaders'[b] = 0
EndsAreFinal == [][EndsStay]_vars
=============================================================================
