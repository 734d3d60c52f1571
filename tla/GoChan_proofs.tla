---------------------------- MODULE GoChan_proofs ---------------------------
(***************************************************************************)
(* Proofs about GoChan, for any number of goroutines, of channels and of   *)
(* cases, any capacities and any operations.  The argument rests on who    *)
(* holds which channel's lock at which place of an operation: a queue, a   *)
(* buffer and the closed flag change only under it, and what a goroutine   *)
(* found while it polled stays so until it has queued all its sudogs.      *)
(***************************************************************************)
EXTENDS GoChan, SequenceTheorems, TLAPS

Dirs == {"send", "recv"}

\* The sudogs that wait on channel c to send, or to receive, and those of them that a
\* waker can claim.
Line(d, c)   == IF d = "send" THEN sendq[c] ELSE recvq[c]
Who(d, c)    == {Line(d, c)[k] : k \in DOMAIN Line(d, c)}
LiveIn(d, c) == {s \in Who(d, c) : Live(s)}

\* Where a goroutine is tells what its locals are.
Frame(g) ==
    /\ pc[g] # "idle" => op[g] \in Menu[g]
    /\ DOMAIN sd[g] = DOMAIN op[g].cases
    /\ pc[g] \in {"register", "parked", "woken", "pass3"} => op[g].kind # "close"
    /\ pc[g] = "pass3" => op[g].kind = "select"
    /\ pc[g] = "closing" => op[g].kind = "close" /\ case(g, 1).c # Nil
    /\ pc[g] \notin {"register", "pass3"} => next[g] = 1
    /\ next[g] >= 1
    /\ pc[g] # "pass3" => winners[g] = {}
    /\ winners[g] \subseteq DOMAIN op[g].cases
    /\ done[g] <=> pc[g] \in {"woken", "pass3"} /\ op[g].kind = "select"
    /\ pc[g] = "lock" => todo[g] \subseteq locks(op[g])
Frames == \A g \in G : Frame(g)

\* The locks that the M which parked g has yet to release are all in g's frame, and g
\* cannot leave that frame before: a plain operation was woken under its one lock, and
\* pass 3 of a select takes each lock again.
Leaving(g) ==
    /\ commit[g] \subseteq locks(op[g])
    /\ commit[g] # {} => pc[g] \in {"parked", "woken", "pass3"}
    /\ pc[g] = "woken" /\ op[g].kind = "plain" => commit[g] = {}
    /\ pc[g] = "pass3" => \A i \in DOMAIN op[g].cases : i < next[g] => case(g, i).c \notin commit[g]
Commits == \A g \in G : Leaving(g)

\* A lock is held by the goroutine whose operation is at a place where it holds it.
Holds(g, c) ==
    \/ pc[g] = "lock" /\ c \in locks(op[g]) /\ c \notin todo[g]
    \/ pc[g] \in {"register", "closing"} /\ c \in locks(op[g])
    \/ pc[g] = "unlock" /\ c \in todo[g]
    \/ c \in commit[g]
Locked == \A g \in G, c \in Chans : lock[c] = g <=> Holds(g, c)

\* A sudog is queued once, on the queue of its case.
Once(q) == \A j, k \in DOMAIN q : q[j] = q[k] => j = k
Queues == \A c \in Chans : Once(sendq[c]) /\ Once(recvq[c])
Framed == \A c \in Chans, d \in Dirs : \A s \in Who(d, c) : InFrame(s[1], s[2], d, c)

\* g's case i is to send, or to receive, on channel c.
CaseIs(g, i, d, c) == i \in DOMAIN op[g].cases /\ case(g, i).dir = d /\ case(g, i).c = c
Asks(g, d, c) == \E i \in DOMAIN op[g].cases : CaseIs(g, i, d, c)

\* A goroutine that runs again after it parked was claimed through one of its cases.
Won(g, i, d, c) ==
    /\ CaseIs(g, i, d, c)
    /\ i \in winners[g] \/ (i >= next[g] /\ <<g, i>> \notin Who(d, c))
ClaimedBy(g) == pc[g] \in {"woken", "pass3"} =>
    \E i \in DOMAIN op[g].cases, d \in Dirs, c \in Chans : Won(g, i, d, c)
Claimed == \A g \in G : ClaimedBy(g)

\* A value that is on offer is a value, and so is one that was received.
ValuesOf(g) == \A i \in DOMAIN op[g].cases :
    /\ case(g, i).dir = "recv" /\ sd[g][i].ok => sd[g][i].v # None
    /\ case(g, i).dir = "send" /\ pc[g] \in {"lock", "register"} => sd[g][i].v # None
    /\ \A c \in Chans : CaseIs(g, i, "send", c) /\ <<g, i>> \in Who("send", c) => sd[g][i].v # None
Values == \A g \in G : ValuesOf(g)

\* What pass 1 found stays true while the sudogs are queued.
Blocked(g) == \A c \in Chans :
    /\ c \in locks(op[g]) => ~closed[c]
    /\ Asks(g, "recv", c) => buf[c] = << >> /\ \A s \in LiveIn("send", c) : s[1] = g
    /\ Asks(g, "send", c) => Len(buf[c]) = Cap[c] /\ \A s \in LiveIn("recv", c) : s[1] = g
Registering == \A g \in G : pc[g] = "register" => Blocked(g)

\* No rendezvous is missed, and only its Close can still owe the waiters of a closed
\* channel a wakeup.
Meet(c) ==
    /\ \A r \in LiveIn("recv", c) : /\ buf[c] = << >>
                                    /\ \A s \in LiveIn("send", c) : s[1] = r[1]
    /\ \A s \in LiveIn("send", c) : Len(buf[c]) = Cap[c]
    /\ closed[c] => \A d \in Dirs : LiveIn(d, c) # {} =>
          \E h \in G : pc[h] = "closing" /\ case(h, 1).c = c
Meeting == \A c \in Chans : Meet(c)

Inv == /\ TypeOK /\ Frames /\ Commits /\ Locked /\ Queues /\ Framed
       /\ Claimed /\ Values /\ Registering /\ Meeting /\ NoInternalPanic

-----------------------------------------------------------------------------
(* Operations and queues.                                                  *)

\* An operation's locks are those of its cases' channels.
LEMMA OpFacts ==
  ASSUME NEW o \in Op
  PROVE  /\ o.cases \in Seq(Case) /\ o.kind \in {"plain", "select", "close"} /\ o.dflt \in BOOLEAN
         /\ DOMAIN o.cases = 1..Len(o.cases) /\ Len(o.cases) \in Nat
         /\ \A i \in DOMAIN o.cases : /\ o.cases[i] \in Case /\ o.cases[i].c \in Chans \cup {Nil}
                                      /\ o.cases[i].dir \in {"send", "recv", "close"}
                                      /\ o.cases[i].c # Nil => o.cases[i].c \in locks(o)
         /\ locks(o) \subseteq Chans /\ Nil \notin Chans
         /\ \A c \in locks(o) : \E i \in DOMAIN o.cases : o.cases[i].c = c
<1>1. o.cases \in Seq(Case) /\ o.kind \in {"plain", "select", "close"} /\ o.dflt \in BOOLEAN
  BY DEF Op
<1>2. DOMAIN o.cases = 1..Len(o.cases) /\ Len(o.cases) \in Nat  BY <1>1
<1>3. \A i \in DOMAIN o.cases : o.cases[i] \in Case  BY <1>1
<1>4. Nil \notin Chans  BY ConstAssumption DEF Nil, Chans
<1>5. \A i \in DOMAIN o.cases : /\ o.cases[i].c \in Chans \cup {Nil}
                                /\ o.cases[i].dir \in {"send", "recv", "close"}
                                /\ o.cases[i].c # Nil => o.cases[i].c \in locks(o)
  BY <1>3 DEF Case, locks
<1>6. locks(o) \subseteq Chans /\ \A c \in locks(o) : \E i \in DOMAIN o.cases : o.cases[i].c = c
  BY <1>5 DEF locks
<1> QED  BY <1>1, <1>2, <1>3, <1>4, <1>5, <1>6

\* What is in a sequence is in the set it is over.
LEMMA InSeq == ASSUME NEW S, NEW q \in Seq(S), NEW i \in DOMAIN q PROVE q[i] \in S
  OBVIOUS

\* A waker writes the value and the success of one sudog.
LEMMA SudogWritten ==
  ASSUME NEW R, NEW f \in [G -> Seq(R)], NEW h \in G, NEW i \in DOMAIN f[h], NEW r \in R
  PROVE  LET F == [f EXCEPT ![h][i] = r]
         IN  /\ F \in [G -> Seq(R)] /\ DOMAIN F[h] = DOMAIN f[h] /\ F[h][i] = r
             /\ \A j \in DOMAIN f[h] : j # i => F[h][j] = f[h][j]
             /\ \A x \in G : x # h => F[x] = f[x]
<1> DEFINE q == [f[h] EXCEPT ![i] = r]
           F == [f EXCEPT ![h] = q]
<1>1. q \in Seq(R) /\ DOMAIN q = DOMAIN f[h] /\ q[i] = r /\ \A j \in DOMAIN f[h] : j # i => q[j] = f[h][j]
  OBVIOUS
<1> HIDE DEF q
<1>2. F \in [G -> Seq(R)] /\ F[h] = q /\ \A x \in G : x # h => F[x] = f[x]  BY <1>1
<1>3. F = [f EXCEPT ![h][i] = r]  BY DEF q
<1> HIDE DEF F
<1> QED  BY <1>1, <1>2, <1>3

\* What the operations of a menu are like.
LEMMA MenuFacts ==
  ASSUME NEW g \in G, NEW o \in Menu[g]
  PROVE  /\ o \in Op
         /\ o.kind = "close" => /\ DOMAIN o.cases = {1} /\ o.cases[1].dir = "close"
                                /\ o.cases[1].c # Nil => locks(o) = {o.cases[1].c}
                                /\ o.cases[1].c = Nil => locks(o) = {}
         /\ o.kind # "close" => \A i \in DOMAIN o.cases : o.cases[i].dir \in Dirs
         /\ o.kind = "plain" => DOMAIN o.cases = {1}
<1>1. o \in Op  BY ConstAssumption
<1>2. /\ o.kind = "close" => Len(o.cases) = 1 /\ o.cases[1].dir = "close"
      /\ o.kind # "close" => \A i \in DOMAIN o.cases : o.cases[i].dir # "close"
      /\ o.kind = "plain" => Len(o.cases) = 1
  BY ConstAssumption
<1>3. Len(o.cases) = 1 => DOMAIN o.cases = {1}  BY <1>1, OpFacts
<1>4. o.kind # "close" => \A i \in DOMAIN o.cases : o.cases[i].dir \in Dirs
  BY <1>1, <1>2, OpFacts DEF Dirs
<1>5. DOMAIN o.cases = {1} => locks(o) = {o.cases[1].c} \ {Nil}  BY DEF locks
<1> QED  BY <1>1, <1>2, <1>3, <1>4, <1>5

\* One sudog leaves a queue.
LEMMA QueueRemove ==
  ASSUME NEW S, NEW q \in Seq(S), NEW k \in DOMAIN q, Once(q)
  PROVE  LET r == RemoveAt(q, k)
         IN  /\ r \in Seq(S) /\ Once(r)
             /\ Range(r) = Range(q) \ {q[k]}
<1> DEFINE r == RemoveAt(q, k)
           n == Len(q)
           up(j) == IF j < k THEN j ELSE j + 1
<1>0. n \in Nat /\ DOMAIN q = 1..n /\ k \in 1..n  OBVIOUS
<1>1. r \in Seq(S) /\ Len(r) = n - 1 /\ \A j \in 1..(n - 1) : r[j] = q[up(j)]
  <2> DEFINE A == SubSeq(q, 1, k - 1)
             B == SubSeq(q, k + 1, n)
  <2>1. A \in Seq(S) /\ Len(A) = k - 1  BY <1>0
  <2>2. B \in Seq(S) /\ Len(B) = n - k  BY <1>0
  <2>3. \A j \in 1..(k - 1) : A[j] = q[j]  BY <1>0
  <2>4. \A j \in 1..(n - k) : B[j] = q[k + j]  BY <1>0
  <2>5. r = A \o B  BY DEF RemoveAt
  <2> HIDE DEF A, B, r, n
  <2>6. /\ A \o B \in Seq(S) /\ Len(A \o B) = Len(A) + Len(B)
        /\ \A j \in 1..(Len(A) + Len(B)) :
              (A \o B)[j] = IF j <= Len(A) THEN A[j] ELSE B[j - Len(A)]
    BY <2>1, <2>2, ConcatProperties
  <2>7. ASSUME NEW j \in 1..(n - 1) PROVE r[j] = q[up(j)]
    <3>1. CASE j < k
      <4>1. j \in 1..(k - 1) /\ j <= Len(A) /\ j \in 1..(Len(A) + Len(B))  BY <1>0, <2>1, <2>2, <3>1
      <4> QED  BY <2>3, <2>5, <2>6, <3>1, <4>1
    <3>2. CASE j >= k
      <4>1. /\ j - Len(A) \in 1..(n - k) /\ ~(j <= Len(A)) /\ j \in 1..(Len(A) + Len(B))
            /\ k + (j - Len(A)) = j + 1 /\ ~(j < k)
        BY <1>0, <2>1, <2>2, <3>2
      <4> QED  BY <2>4, <2>5, <2>6, <4>1
    <3> QED  BY <1>0, <3>1, <3>2
  <2> QED  BY <1>0, <2>1, <2>2, <2>5, <2>6, <2>7
<1>2. DOMAIN r = 1..(n - 1)  BY <1>0, <1>1
<1>3. \A j \in 1..(n - 1) : up(j) \in 1..n /\ up(j) # k  BY <1>0
<1>4. \A i, j \in 1..(n - 1) : up(i) = up(j) => i = j  BY <1>0
<1>5. \A m \in 1..n : m # k => \E j \in 1..(n - 1) : up(j) = m
  <2>1. ASSUME NEW m \in 1..n, m < k PROVE m \in 1..(n - 1) /\ up(m) = m  BY <1>0, <2>1
  <2>2. ASSUME NEW m \in 1..n, m > k PROVE m - 1 \in 1..(n - 1) /\ up(m - 1) = m  BY <1>0, <2>2
  <2> QED  BY <1>0, <2>1, <2>2
<1> HIDE DEF up, r, n
<1>6. Once(r)  BY <1>0, <1>1, <1>2, <1>3, <1>4 DEF Once
<1>7. \A j \in DOMAIN r : r[j] \in {q[m] : m \in DOMAIN q} \ {q[k]}
  BY <1>0, <1>1, <1>2, <1>3 DEF Once
<1>8. \A m \in DOMAIN q : q[m] # q[k] => \E j \in DOMAIN r : r[j] = q[m]
  BY <1>0, <1>1, <1>2, <1>5
<1>9. Range(r) = Range(q) \ {q[k]}  BY <1>7, <1>8 DEF Range
<1> QED  BY <1>1, <1>6, <1>9 DEF r

\* One sudog joins a queue.
LEMMA QueueAppend ==
  ASSUME NEW S, NEW q \in Seq(S), NEW s \in S, Once(q), \A k \in DOMAIN q : q[k] # s
  PROVE  LET r == Append(q, s)
         IN  /\ r \in Seq(S) /\ Once(r)
             /\ Range(r) = Range(q) \cup {s}
<1> DEFINE r == Append(q, s)
           n == Len(q)
<1>1. /\ n \in Nat /\ DOMAIN q = 1..n /\ r \in Seq(S) /\ DOMAIN r = 1..(n + 1)
      /\ r[n + 1] = s /\ \A j \in 1..n : r[j] = q[j]
  OBVIOUS
<1> HIDE DEF r, n
<1>2. \A j \in 1..(n + 1) : j \in 1..n \/ j = n + 1  BY <1>1
<1>3. Once(r)
  <2> SUFFICES ASSUME NEW i \in DOMAIN r, NEW j \in DOMAIN r, r[i] = r[j] PROVE i = j
    BY DEF Once
  <2>1. i \in 1..n \/ i = n + 1  BY <1>1, <1>2
  <2>2. j \in 1..n \/ j = n + 1  BY <1>1, <1>2
  <2> QED  BY <1>1, <2>1, <2>2 DEF Once
<1>4. Range(r) = Range(q) \cup {s}
  <2>1. \A j \in 1..(n + 1) : r[j] \in {q[m] : m \in DOMAIN q} \cup {s}  BY <1>1, <1>2
  <2>2. \A m \in 1..n : m \in 1..(n + 1) /\ r[m] = q[m]  BY <1>1
  <2>3. n + 1 \in 1..(n + 1) /\ r[n + 1] = s  BY <1>1
  <2> QED  BY <1>1, <2>1, <2>2, <2>3 DEF Range
<1> QED  BY <1>1, <1>3, <1>4 DEF r

-----------------------------------------------------------------------------
(* What a step leaves alone.                                               *)

\* Who waits is a sudog; the two queues are what the code reads.
LEMMA WhoFacts ==
  ASSUME TypeOK
  PROVE  /\ \A d \in Dirs, c \in Chans : /\ Line(d, c) \in Seq(Sudog) /\ Who(d, c) \subseteq Sudog
                                         /\ \A k \in DOMAIN Line(d, c) : Line(d, c)[k] \in Who(d, c)
         /\ \A s \in Sudog : s[1] \in G /\ s[2] \in Nat /\ s = <<s[1], s[2]>>
<1>1. \A d \in Dirs, c \in Chans : Line(d, c) \in Seq(Sudog)  BY DEF TypeOK, Line
<1>2. \A d \in Dirs, c \in Chans : /\ Who(d, c) \subseteq Sudog
                                   /\ \A k \in DOMAIN Line(d, c) : Line(d, c)[k] \in Who(d, c)
  BY <1>1 DEF Who
<1>3. \A s \in Sudog : s[1] \in G /\ s[2] \in Nat /\ s = <<s[1], s[2]>>  BY DEF Sudog
<1> QED  BY <1>1, <1>2, <1>3

\* Nothing about goroutine x changes.
Same(x) ==
    /\ pc'[x] = pc[x] /\ op'[x] = op[x] /\ sd'[x] = sd[x] /\ next'[x] = next[x]
    /\ winners'[x] = winners[x] /\ done'[x] = done[x] /\ todo'[x] = todo[x]
    /\ commit'[x] = commit[x]

\* A step of g, that may have claimed h, concerns only the two of them, and queues nobody;
\* what they still have queued stays in their frames.
Quiet(g, h) ==
    /\ \A x \in G : x # g /\ x # h => Same(x)
    /\ \A d \in Dirs, c \in Chans : Who(d, c)' \subseteq Who(d, c)
    /\ \A d \in Dirs, c \in Chans : \A s \in Who(d, c)' : s[1] \in {g, h} =>
          /\ InFrame(s[1], s[2], d, c)'
          /\ op'[s[1]] = op[s[1]] /\ (done[s[1]] => done'[s[1]])

\* A goroutine that is not concerned is as well off as before.
LEMMA Others ==
  ASSUME NEW x \in G, Same(x), Frame(x), Leaving(x)
  PROVE  /\ Frame(x)' /\ Leaving(x)' /\ \A c \in Chans : Holds(x, c)' <=> Holds(x, c)
<1>1. Frame(x)'  BY DEF Same, Frame, case
<1>2. Leaving(x)'  BY DEF Same, Leaving, case
<1>3. \A c \in Chans : Holds(x, c)' <=> Holds(x, c)  BY DEF Same, Holds
<1> QED  BY <1>1, <1>2, <1>3

\* The same for what was claimed and what is on offer, if nobody queues.
Waits(x) ==
    /\ op'[x] = op[x] /\ sd'[x] = sd[x] /\ next'[x] = next[x] /\ winners'[x] = winners[x]
    /\ pc'[x] \in {"woken", "pass3"} => pc[x] \in {"woken", "pass3"}
    /\ pc'[x] \in {"lock", "register"} => pc[x] \in {"lock", "register"}

\* Its claims, its values and what it has queued are as before.
LEMMA OthersWait ==
  ASSUME NEW x \in G, Waits(x), ClaimedBy(x), ValuesOf(x),
         \A d \in Dirs, c \in Chans : Who(d, c)' \subseteq Who(d, c)
  PROVE  ClaimedBy(x)' /\ ValuesOf(x)'
<1>1. ClaimedBy(x)'
  <2> SUFFICES ASSUME pc'[x] \in {"woken", "pass3"}
               PROVE  \E i \in DOMAIN op'[x].cases, d \in Dirs, c \in Chans : Won(x, i, d, c)'
    BY DEF ClaimedBy
  <2>1. pc[x] \in {"woken", "pass3"}  BY DEF Waits
  <2>2. PICK i \in DOMAIN op[x].cases, d \in Dirs, c \in Chans : Won(x, i, d, c)
    BY <2>1 DEF ClaimedBy
  <2>3. Won(x, i, d, c)'  BY <2>2 DEF Won, Waits, CaseIs, case
  <2> QED  BY <2>3 DEF Waits
<1>2. ValuesOf(x)'
  <2> SUFFICES ASSUME NEW i \in DOMAIN op[x].cases
               PROVE  /\ case(x, i).dir = "recv" /\ sd[x][i].ok => sd[x][i].v # None
                      /\ case(x, i).dir = "send" /\ pc[x] \in {"lock", "register"} => sd[x][i].v # None
                      /\ \A c \in Chans : CaseIs(x, i, "send", c) /\ <<x, i>> \in Who("send", c)'
                            => sd[x][i].v # None
    BY DEF ValuesOf, Waits, case, CaseIs
  <2>1. \A c \in Chans : Who("send", c)' \subseteq Who("send", c)  BY DEF Dirs
  <2> QED  BY <2>1 DEF ValuesOf
<1> QED  BY <1>1, <1>2

\* Who can still be claimed could be claimed before, and every sudog stays in its frame.
LEMMA QuietLive ==
  ASSUME TypeOK, TypeOK', Framed, NEW g \in G, NEW h \in G, Quiet(g, h)
  PROVE  Framed' /\ \A d \in Dirs, c \in Chans : LiveIn(d, c)' \subseteq LiveIn(d, c)
<1>1. ASSUME NEW d \in Dirs, NEW c \in Chans, NEW s \in Who(d, c)'
      PROVE  /\ s \in Who(d, c) /\ s[1] \in G /\ InFrame(s[1], s[2], d, c)'
             /\ op'[s[1]] = op[s[1]] /\ (done[s[1]] => done'[s[1]])
  <2>1. s \in Who(d, c) /\ s[1] \in G  BY <1>1, WhoFacts DEF Quiet
  <2>2. CASE s[1] \in {g, h}  BY <1>1, <2>1, <2>2 DEF Quiet
  <2>3. CASE s[1] \notin {g, h}
    <3>1. Same(s[1])  BY <2>1, <2>3 DEF Quiet
    <3>2. InFrame(s[1], s[2], d, c)  BY <2>1 DEF Framed
    <3>3. InFrame(s[1], s[2], d, c)'  BY <3>1, <3>2 DEF InFrame, Same, case
    <3> QED  BY <2>1, <3>1, <3>3 DEF Same
  <2> QED  BY <2>2, <2>3
<1>2. Framed'  BY <1>1 DEF Framed
<1>3. \A d \in Dirs, c \in Chans : LiveIn(d, c)' \subseteq LiveIn(d, c)
  BY <1>1 DEF LiveIn, Live
<1> QED  BY <1>2, <1>3

\* The rendezvous that were not missed still are not.
LEMMA MeetKept ==
  ASSUME Meeting, \A d \in Dirs, c \in Chans : LiveIn(d, c)' \subseteq LiveIn(d, c),
         \A c \in Chans : closed'[c] = closed[c],
         \A c \in Chans : Len(buf'[c]) = Len(buf[c]) /\ (buf[c] = << >> => buf'[c] = << >>),
         \A x \in G : pc[x] = "closing" => pc'[x] = "closing" /\ op'[x] = op[x]
  PROVE  Meeting'
<1> SUFFICES ASSUME NEW c \in Chans PROVE Meet(c)'  BY DEF Meeting
<1>0. Meet(c)  BY DEF Meeting
<1>1. LiveIn("send", c)' \subseteq LiveIn("send", c) /\ LiveIn("recv", c)' \subseteq LiveIn("recv", c)
  BY DEF Dirs
<1>2. \A r \in LiveIn("recv", c)' : buf'[c] = << >> /\ \A s \in LiveIn("send", c)' : s[1] = r[1]
  BY <1>0, <1>1 DEF Meet
<1>3. \A s \in LiveIn("send", c)' : Len(buf'[c]) = Cap[c]  BY <1>0, <1>1 DEF Meet
<1>4. closed'[c] => \A d \in Dirs : LiveIn(d, c)' # {} =>
          \E x \in G : pc'[x] = "closing" /\ op'[x].cases[1].c = c
  <2> SUFFICES ASSUME closed'[c], NEW d \in Dirs, LiveIn(d, c)' # {}
               PROVE  \E x \in G : pc'[x] = "closing" /\ op'[x].cases[1].c = c
    OBVIOUS
  <2>1. closed[c] /\ LiveIn(d, c) # {}  OBVIOUS
  <2>2. PICK x \in G : pc[x] = "closing" /\ case(x, 1).c = c  BY <1>0, <2>1 DEF Meet
  <2> QED  BY <2>2 DEF case
<1> QED  BY <1>2, <1>3, <1>4 DEF Meet, case

\* What a registering goroutine found is still true.
LEMMA BlockedKept ==
  ASSUME TypeOK, Registering, \A d \in Dirs, c \in Chans : LiveIn(d, c)' \subseteq LiveIn(d, c),
         NEW g \in G, pc[g] = "register", op'[g] = op[g],
         \A c \in locks(op[g]) : closed'[c] = closed[c] /\ buf'[c] = buf[c]
  PROVE  Blocked(g)'
<1>0. Blocked(g) /\ locks(op[g]) \subseteq Chans /\ op[g] \in Op  BY OpFacts DEF Registering, TypeOK
<1> SUFFICES ASSUME NEW c \in Chans
             PROVE  /\ c \in locks(op[g]) => ~closed'[c]
                    /\ Asks(g, "recv", c) => buf'[c] = << >> /\ \A s \in LiveIn("send", c)' : s[1] = g
                    /\ Asks(g, "send", c) => Len(buf'[c]) = Cap[c] /\ \A s \in LiveIn("recv", c)' : s[1] = g
  BY DEF Blocked, Asks, CaseIs, case
<1>1. Asks(g, "recv", c) \/ Asks(g, "send", c) => c \in locks(op[g])
  BY <1>0, OpFacts DEF Asks, CaseIs, case
<1>2. LiveIn("send", c)' \subseteq LiveIn("send", c) /\ LiveIn("recv", c)' \subseteq LiveIn("recv", c)
  BY DEF Dirs
<1> QED  BY <1>0, <1>1, <1>2 DEF Blocked

\* All that the invariant says about the locals of one goroutine.
Good(g) == Frame(g) /\ Leaving(g) /\ ClaimedBy(g) /\ ValuesOf(g)

\* A goroutine that is between operations, polls, closes or leaves has nothing queued.
LEMMA NotQueued ==
  ASSUME Inv, NEW g \in G, pc[g] \in {"idle", "lock", "unlock", "closing"}
  PROVE  \A d \in Dirs, c \in Chans : \A s \in Who(d, c) : s[1] # g
  BY DEF Inv, Framed, InFrame

\* Neither has one whose plain operation was woken, or whose pass 3 is over.
LEMMA AllGone ==
  ASSUME Inv, NEW g \in G,
         \/ pc[g] = "woken" /\ op[g].kind = "plain"
         \/ pc[g] = "pass3" /\ Pass3Over(g)
  PROVE  (\A d \in Dirs, c \in Chans : \A s \in Who(d, c) : s[1] # g) /\ commit[g] = {}
<1>0. /\ TypeOK /\ Frame(g) /\ Leaving(g) /\ ClaimedBy(g) /\ Framed /\ op[g] \in Op /\ next[g] \in Nat
  BY DEF Inv, Frames, Commits, Claimed, TypeOK
<1>1. op[g] \in Menu[g]  BY <1>0 DEF Frame
<1>2. CASE pc[g] = "woken" /\ op[g].kind = "plain"
  <2>1. commit[g] = {} /\ winners[g] = {}  BY <1>0, <1>2 DEF Leaving, Frame
  <2>2. DOMAIN op[g].cases = {1}  BY <1>1, <1>2, MenuFacts
  <2>3. PICK i \in DOMAIN op[g].cases, d \in Dirs, c \in Chans : Won(g, i, d, c)
    BY <1>0, <1>2 DEF ClaimedBy
  <2>4. i = 1 /\ <<g, 1>> \notin Who(d, c) /\ case(g, 1).dir = d /\ case(g, 1).c = c
    BY <2>1, <2>2, <2>3 DEF Won, CaseIs
  <2>5. ASSUME NEW e \in Dirs, NEW b \in Chans, NEW s \in Who(e, b), s[1] = g PROVE FALSE
    <3>1. InFrame(g, s[2], e, b) /\ s = <<g, s[2]>>
      BY <1>0, <2>5, WhoFacts DEF Framed
    <3>2. s[2] = 1 /\ e = d /\ b = c  BY <2>2, <2>4, <3>1 DEF InFrame
    <3> QED  BY <2>4, <2>5, <3>1, <3>2
  <2> QED  BY <2>1, <2>5
<1>3. CASE pc[g] = "pass3" /\ Pass3Over(g)
  <2>1. \A i \in DOMAIN op[g].cases : i < next[g] /\ ~(i >= next[g])
    BY <1>0, <1>3, OpFacts DEF Pass3Over
  <2>2. \A d \in Dirs, c \in Chans : \A s \in Who(d, c) : s[1] # g
    BY <1>0, <1>3, <2>1 DEF Framed, InFrame
  <2>3. \A c \in commit[g] : FALSE
    <3>1. commit[g] \subseteq locks(op[g])  BY <1>0 DEF Leaving
    <3>2. \A c \in locks(op[g]) : \E i \in DOMAIN op[g].cases : case(g, i).c = c
      BY <1>0, OpFacts DEF case
    <3> QED  BY <1>0, <1>3, <2>1, <3>1, <3>2 DEF Leaving
  <2> QED  BY <2>2, <2>3
<1> QED  BY <1>2, <1>3

\* What has to be shown of a step of g that may have claimed h.
LEMMA Combine ==
  ASSUME Inv, TypeOK', NEW g \in G, NEW h \in G, Quiet(g, h), Good(g)', Good(h)', Queues',
         \A c \in Chans : /\ lock'[c] = g <=> Holds(g, c)'
                          /\ lock'[c] = h <=> Holds(h, c)'
                          /\ \A x \in G : x # g /\ x # h => (lock'[c] = x <=> lock[c] = x),
         Registering', Meeting', NoInternalPanic'
  PROVE  Inv'
<1>0. /\ TypeOK /\ Framed /\ Locked /\ \A x \in G : Good(x)
  BY DEF Inv, Frames, Commits, Claimed, Values, Good
<1>1. Framed'  BY <1>0, QuietLive
<1>2. ASSUME NEW x \in G, x # g, x # h
      PROVE  Good(x)' /\ \A c \in Chans : Holds(x, c)' <=> Holds(x, c)
  <2>1. Same(x)  BY <1>2 DEF Quiet
  <2>2. Frame(x) /\ Leaving(x) /\ ClaimedBy(x) /\ ValuesOf(x)  BY <1>0 DEF Good
  <2>3. /\ Frame(x)' /\ Leaving(x)' /\ \A c \in Chans : Holds(x, c)' <=> Holds(x, c)
    BY <2>1, <2>2, Others
  <2>w. Waits(x)  BY <2>1 DEF Same, Waits
  <2>4. ClaimedBy(x)' /\ ValuesOf(x)'  BY <2>w, <2>2, OthersWait DEF Quiet
  <2> QED  BY <2>3, <2>4 DEF Good
<1>3. \A x \in G : Good(x)'  BY <1>2
<1>4. Frames' /\ Commits' /\ Claimed' /\ Values'
  BY <1>3 DEF Good, Frames, Commits, Claimed, Values
<1>5. Locked'
  <2> SUFFICES ASSUME NEW x \in G, NEW c \in Chans PROVE lock'[c] = x <=> Holds(x, c)'
    BY DEF Locked
  <2>1. CASE x = g \/ x = h  BY <2>1
  <2>2. CASE x # g /\ x # h  BY <1>0, <1>2, <2>2 DEF Locked
  <2> QED  BY <2>1, <2>2
<1> QED  BY <1>1, <1>4, <1>5 DEF Inv

\* A step of g that touches no channel.
LEMMA Own ==
  ASSUME Inv, TypeOK', NEW g \in G, UNCHANGED chanVars, pc[g] # "closing",
         \A x \in G : x # g => Same(x), Good(g)',
         \A d \in Dirs, c \in Chans : \A s \in Who(d, c) : s[1] = g =>
            InFrame(g, s[2], d, c)' /\ op'[g] = op[g] /\ (done[g] => done'[g]),
         \A c \in Chans : /\ lock'[c] = g <=> Holds(g, c)'
                          /\ \A x \in G : x # g => (lock'[c] = x <=> lock[c] = x),
         pc'[g] = "register" => Blocked(g)',
         NoInternalPanic'
  PROVE  Inv'
<1>0. TypeOK /\ Framed /\ Registering /\ Meeting /\ Queues  BY DEF Inv
<1>u. UNCHANGED <<closed, buf, sendq, recvq>>  BY DEF chanVars
<1>1. \A d, c : Who(d, c)' = Who(d, c)  BY <1>u DEF Who, Line
<1>2. Quiet(g, g)
  <2>1. \A x \in G : x # g /\ x # g => Same(x)  OBVIOUS
  <2>2. \A d \in Dirs, c \in Chans : Who(d, c)' \subseteq Who(d, c)  BY <1>1
  <2>3. ASSUME NEW d \in Dirs, NEW c \in Chans, NEW s \in Who(d, c)', s[1] \in {g, g}
        PROVE  /\ InFrame(s[1], s[2], d, c)'
               /\ op'[s[1]] = op[s[1]] /\ (done[s[1]] => done'[s[1]])
    <3>1. s \in Who(d, c) /\ s[1] = g  BY <1>1, <2>3
    <3>2. InFrame(g, s[2], d, c)' /\ op'[g] = op[g] /\ (done[g] => done'[g])  BY <3>1
    <3>3. InFrame(s[1], s[2], d, c)'  BY <3>1, <3>2
    <3> QED  BY <3>1, <3>2, <3>3
  <2> QED  BY <2>1, <2>2, <2>3 DEF Quiet
<1>3. \A d \in Dirs, c \in Chans : LiveIn(d, c)' \subseteq LiveIn(d, c)  BY <1>0, <1>2, QuietLive
<1>4. Meeting'
  <2>1. \A x \in G : pc[x] = "closing" => pc'[x] = "closing" /\ op'[x] = op[x]  BY DEF Same
  <2> QED  BY <1>0, <1>u, <1>3, <2>1, MeetKept
<1>5. Registering'
  <2> SUFFICES ASSUME NEW x \in G, pc'[x] = "register" PROVE Blocked(x)'  BY DEF Registering
  <2>1. CASE x = g  BY <2>1
  <2>2. CASE x # g
    <3>1. pc[x] = "register" /\ op'[x] = op[x]  BY <2>2 DEF Same
    <3> QED  BY <1>0, <1>u, <1>3, <3>1, BlockedKept
  <2> QED  BY <2>1, <2>2
<1>6. Queues'  BY <1>0, <1>u DEF Queues
<1> QED  BY <1>2, <1>4, <1>5, <1>6, Combine

-----------------------------------------------------------------------------
(* Steps that touch no channel.                                            *)

\* What is known of g before its step.
LEMMA Basics ==
  ASSUME Inv, NEW g \in G
  PROVE  /\ TypeOK /\ Frame(g) /\ Leaving(g) /\ ClaimedBy(g) /\ ValuesOf(g) /\ NoInternalPanic
         /\ op[g] \in Op /\ next[g] \in Nat /\ done[g] \in BOOLEAN /\ ops[g] \in Nat
         /\ todo[g] \subseteq Chans /\ commit[g] \subseteq Chans /\ locks(op[g]) \subseteq Chans
         /\ \A c \in Chans : lock[c] = g <=> Holds(g, c)
<1>1. TypeOK /\ Frame(g) /\ Leaving(g) /\ ClaimedBy(g) /\ ValuesOf(g) /\ NoInternalPanic /\ Locked
  BY DEF Inv, Frames, Commits, Claimed, Values
<1>2. /\ op[g] \in Op /\ next[g] \in Nat /\ done[g] \in BOOLEAN /\ ops[g] \in Nat
      /\ todo[g] \subseteq Chans /\ commit[g] \subseteq Chans
  BY <1>1 DEF TypeOK
<1> QED  BY <1>1, <1>2, OpFacts DEF Locked

\* An operation begins.
LEMMA StartKeeps == ASSUME Inv, NEW g \in G, Start(g) PROVE Inv'
<1>0. /\ TypeOK /\ Frame(g) /\ Leaving(g) /\ NoInternalPanic /\ next[g] \in Nat /\ done[g] \in BOOLEAN
      /\ ops[g] \in Nat /\ \A c \in Chans : lock[c] = g <=> Holds(g, c)
  BY Basics
<1>1. PICK o \in Menu[g] :
         /\ op' = [op EXCEPT ![g] = o] /\ todo' = [todo EXCEPT ![g] = locks(o)]
         /\ sd' = [sd EXCEPT ![g] = [i \in DOMAIN o.cases |->
                      [v |-> IF o.cases[i].dir = "send" THEN <<g, ops[g] + 1>> ELSE None,
                       ok |-> FALSE]]]
  BY DEF Start
<1>2. /\ pc[g] = "idle" /\ ops' = [ops EXCEPT ![g] = @ + 1] /\ pc' = [pc EXCEPT ![g] = "lock"]
      /\ UNCHANGED <<chanVars, lock, next, done, winners, commit, res, fatal>>
  BY DEF Start
<1>3. o \in Op /\ locks(o) \subseteq Chans /\ o.cases \in Seq(Case) /\ DOMAIN o.cases = 1..Len(o.cases)
  BY MenuFacts, OpFacts
<1> DEFINE new == [i \in DOMAIN o.cases |->
                      [v |-> IF o.cases[i].dir = "send" THEN <<g, ops[g] + 1>> ELSE None,
                       ok |-> FALSE]]
<1>4. <<g, ops[g] + 1>> \in Val /\ None \in Val /\ <<g, ops[g] + 1>> # None
  BY <1>0, ConstAssumption DEF Val
<1>5. new \in Seq([v : Val, ok : BOOLEAN])
  <2>1. \A i \in 1..Len(o.cases) : new[i] \in [v : Val, ok : BOOLEAN]  BY <1>3, <1>4
  <2>2. Len(o.cases) \in Nat  BY <1>3
  <2> HIDE DEF new
  <2>3. new = [i \in 1..Len(o.cases) |-> new[i]]  BY <1>3 DEF new
  <2> QED  BY <2>1, <2>2, <2>3
<1>6. DOMAIN new = DOMAIN o.cases /\ \A i \in DOMAIN o.cases : ~new[i].ok
  OBVIOUS
<1>7. \A i \in DOMAIN o.cases : o.cases[i].dir = "send" => new[i].v # None
  BY <1>4
<1>8. sd' = [sd EXCEPT ![g] = new]  BY <1>1
<1> HIDE DEF new
<1>t. TypeOK'
  <2>1. sd' \in [G -> Seq([v : Val, ok : BOOLEAN])]  BY <1>0, <1>5, <1>8 DEF TypeOK
  <2>2. op' \in [G -> Op] /\ todo' \in [G -> SUBSET Chans]  BY <1>0, <1>1, <1>3 DEF TypeOK
  <2>3. ops' \in [G -> Nat]  BY <1>0, <1>2 DEF TypeOK
  <2>4. pc' \in [G -> {"idle", "lock", "register", "parked", "woken", "pass3", "closing", "unlock"}]
    BY <1>0, <1>2 DEF TypeOK
  <2> QED  BY <1>0, <1>2, <2>1, <2>2, <2>3, <2>4 DEF TypeOK, chanVars
<1>a. /\ pc'[g] = "lock" /\ op'[g] = o /\ sd'[g] = new /\ todo'[g] = locks(o) /\ next'[g] = next[g]
      /\ winners'[g] = winners[g] /\ done'[g] = done[g] /\ commit'[g] = commit[g]
      /\ \A x \in G : x # g => Same(x)
  BY <1>0, <1>1, <1>2, <1>8 DEF TypeOK, Same
<1>f. Frame(g)'  BY <1>0, <1>2, <1>6, <1>a DEF Frame, case
<1>c. commit[g] = {}  BY <1>0, <1>2 DEF Leaving
<1>g. Leaving(g)'  BY <1>a, <1>c DEF Leaving
<1>v. ClaimedBy(g)' /\ ValuesOf(g)'  BY <1>6, <1>7, <1>a DEF ClaimedBy, ValuesOf, case, CaseIs
<1>l. \A c \in Chans : /\ lock'[c] = g <=> Holds(g, c)'
                       /\ \A x \in G : x # g => (lock'[c] = x <=> lock[c] = x)
  BY <1>0, <1>2, <1>a, <1>c DEF Holds
<1>m. \A d \in Dirs, c \in Chans : \A s \in Who(d, c) : s[1] # g  BY <1>2, NotQueued
<1>p. NoInternalPanic'  BY <1>0, <1>2 DEF NoInternalPanic
<1> QED  BY <1>2, <1>t, <1>a, <1>f, <1>g, <1>v, <1>l, <1>m, <1>p, Own DEF Good

\* A lock is taken.
LEMMA AcquireKeeps == ASSUME Inv, NEW g \in G, Acquire(g) PROVE Inv'
<1>0. /\ TypeOK /\ Frame(g) /\ Leaving(g) /\ ClaimedBy(g) /\ ValuesOf(g) /\ NoInternalPanic
      /\ todo[g] \subseteq Chans /\ locks(op[g]) \subseteq Chans
      /\ \A c \in Chans : lock[c] = g <=> Holds(g, c)
  BY Basics
<1>1. PICK b \in todo[g] : /\ lock[b] = None /\ lock' = [lock EXCEPT ![b] = g]
                           /\ todo' = [todo EXCEPT ![g] = @ \ {b}]
  BY DEF Acquire
<1>2. /\ pc[g] = "lock"
      /\ UNCHANGED <<chanVars, pc, op, ops, next, sd, done, winners, commit, res, fatal>>
  BY DEF Acquire
<1>t. TypeOK'  BY <1>0, <1>1, <1>2 DEF TypeOK, chanVars
<1>a. todo'[g] = todo[g] \ {b} /\ \A x \in G : x # g => Same(x)
  BY <1>0, <1>1, <1>2 DEF TypeOK, Same
<1>f. Frame(g)'  BY <1>0, <1>2, <1>a DEF Frame, case
<1>c. commit[g] = {} /\ b \in locks(op[g]) /\ b \in Chans  BY <1>0, <1>1, <1>2 DEF Leaving, Frame
<1>g. Leaving(g)'  BY <1>0, <1>2 DEF Leaving, case
<1>v. ClaimedBy(g)' /\ ValuesOf(g)'
  BY <1>0, <1>2 DEF ClaimedBy, ValuesOf, Won, CaseIs, case, Who, Line, chanVars
<1>l. \A c \in Chans : /\ lock'[c] = g <=> Holds(g, c)'
                       /\ \A x \in G : x # g => (lock'[c] = x <=> lock[c] = x)
  <2> SUFFICES ASSUME NEW c \in Chans
               PROVE  /\ lock'[c] = g <=> Holds(g, c)'
                      /\ \A x \in G : x # g => (lock'[c] = x <=> lock[c] = x)
    OBVIOUS
  <2>1. lock' = [lock EXCEPT ![b] = g] /\ lock \in [Chans -> G \cup {None}]  BY <1>0, <1>1 DEF TypeOK
  <2>2. CASE c = b
    BY <1>1, <1>2, <1>a, <1>c, <2>1, <2>2, ConstAssumption DEF Holds
  <2>3. CASE c # b
    BY <1>0, <1>2, <1>a, <1>c, <2>1, <2>3 DEF Holds
  <2> QED  BY <2>2, <2>3
<1>m. \A d \in Dirs, c \in Chans : \A s \in Who(d, c) : s[1] # g  BY <1>2, NotQueued
<1>p. NoInternalPanic'  BY <1>0, <1>2 DEF NoInternalPanic
<1> QED  BY <1>2, <1>t, <1>a, <1>f, <1>g, <1>v, <1>l, <1>m, <1>p, Own DEF Good

\* The locks are released and the operation returns.
LEMMA ReleaseKeeps == ASSUME Inv, NEW g \in G, Release(g) PROVE Inv'
<1>0. /\ TypeOK /\ Frame(g) /\ Leaving(g) /\ ClaimedBy(g) /\ ValuesOf(g) /\ NoInternalPanic
      /\ todo[g] \subseteq Chans /\ done[g] \in BOOLEAN
      /\ \A c \in Chans : lock[c] = g <=> Holds(g, c)
  BY Basics
<1>1. pc[g] = "unlock" /\ UNCHANGED <<chanVars, ops, next, done, winners, commit, res, fatal>>
  BY DEF Release
<1>c. commit[g] = {}  BY <1>0, <1>1 DEF Leaving
<1>m. \A d \in Dirs, c \in Chans : \A s \in Who(d, c) : s[1] # g  BY <1>1, NotQueued
<1>p. NoInternalPanic'  BY <1>0, <1>1 DEF NoInternalPanic
<1>2. ASSUME NEW b \in todo[g], lock' = [lock EXCEPT ![b] = None],
             todo' = [todo EXCEPT ![g] = @ \ {b}], UNCHANGED <<pc, op, sd>>
      PROVE  Inv'
  <2>t. TypeOK'  BY <1>0, <1>1, <1>2 DEF TypeOK, chanVars
  <2>a. todo'[g] = todo[g] \ {b} /\ \A x \in G : x # g => Same(x)
    BY <1>0, <1>1, <1>2 DEF TypeOK, Same
  <2>f. Frame(g)'  BY <1>0, <1>1, <1>2 DEF Frame, case
  <2>g. Leaving(g)'  BY <1>0, <1>1, <1>2 DEF Leaving, case
  <2>v. ClaimedBy(g)' /\ ValuesOf(g)'
    BY <1>0, <1>1, <1>2 DEF ClaimedBy, ValuesOf, Won, CaseIs, case, Who, Line, chanVars
  <2>l. \A c \in Chans : /\ lock'[c] = g <=> Holds(g, c)'
                         /\ \A x \in G : x # g => (lock'[c] = x <=> lock[c] = x)
    <3> SUFFICES ASSUME NEW c \in Chans
                 PROVE  /\ lock'[c] = g <=> Holds(g, c)'
                        /\ \A x \in G : x # g => (lock'[c] = x <=> lock[c] = x)
      OBVIOUS
    <3>1. lock' = [lock EXCEPT ![b] = None] /\ lock \in [Chans -> G \cup {None}]
      BY <1>0, <1>2 DEF TypeOK
    <3>2. CASE c = b
      <4>1. lock[c] = g /\ lock'[c] = None  BY <1>0, <1>1, <1>2, <3>1, <3>2 DEF Holds
      <4> QED  BY <1>1, <1>2, <1>c, <2>a, <3>2, <4>1, ConstAssumption DEF Holds
    <3>3. CASE c # b
      BY <1>0, <1>1, <1>2, <1>c, <2>a, <3>1, <3>3 DEF Holds
    <3> QED  BY <3>2, <3>3
  <2> QED  BY <1>1, <1>m, <1>p, <2>t, <2>a, <2>f, <2>g, <2>v, <2>l, Own, <1>2 DEF Good
<1>3. ASSUME todo[g] = {}, pc' = [pc EXCEPT ![g] = "idle"], op' = [op EXCEPT ![g] = NoOp],
             sd' = [sd EXCEPT ![g] = << >>], UNCHANGED <<lock, todo>>
      PROVE  Inv'
  <2>n. NoOp \in Op /\ NoOp.cases = << >> /\ NoOp.kind = "plain"  BY DEF NoOp, Op
  <2>t. TypeOK'
    <3>1. << >> \in Seq([v : Val, ok : BOOLEAN])  OBVIOUS
    <3>2. sd' \in [G -> Seq([v : Val, ok : BOOLEAN])]  BY <1>0, <1>3, <3>1 DEF TypeOK
    <3>3. op' \in [G -> Op]  BY <1>0, <1>3, <2>n DEF TypeOK
    <3>4. pc' \in [G -> {"idle", "lock", "register", "parked", "woken", "pass3", "closing", "unlock"}]
      BY <1>0, <1>3 DEF TypeOK
    <3> QED  BY <1>0, <1>1, <1>3, <3>2, <3>3, <3>4 DEF TypeOK, chanVars
  <2>a. /\ pc'[g] = "idle" /\ op'[g] = NoOp /\ sd'[g] = << >> /\ next'[g] = next[g]
        /\ winners'[g] = winners[g] /\ done'[g] = done[g] /\ commit'[g] = commit[g]
        /\ \A x \in G : x # g => Same(x)
    BY <1>0, <1>1, <1>3 DEF TypeOK, Same
  <2>f. Frame(g)'  BY <1>0, <1>1, <2>n, <2>a DEF Frame, case
  <2>g. Leaving(g)'  BY <1>c, <2>a DEF Leaving
  <2>v. ClaimedBy(g)' /\ ValuesOf(g)'  BY <2>n, <2>a DEF ClaimedBy, ValuesOf
  <2>l. \A c \in Chans : /\ lock'[c] = g <=> Holds(g, c)'
                         /\ \A x \in G : x # g => (lock'[c] = x <=> lock[c] = x)
    BY <1>0, <1>1, <1>3, <1>c, <2>a DEF Holds
  <2> QED  BY <1>1, <1>m, <1>p, <2>t, <2>a, <2>f, <2>g, <2>v, <2>l, Own DEF Good
<1> QED  BY <1>2, <1>3 DEF Release

PCs == {"idle", "lock", "register", "parked", "woken", "pass3", "closing", "unlock"}

\* A case fires: g keeps its locks until it has released them one by one.
LEMMA Fires ==
  ASSUME Inv, NEW g \in G, Holding(g), UNCHANGED <<lock, op, next, winners, commit>>,
         todo' = [todo EXCEPT ![g] = locks(op[g])], pc'[g] = "unlock", sd'[g] = sd[g],
         done'[g] = done[g], \A d \in Dirs, c \in Chans : Who(d, c)' \subseteq Who(d, c)
  PROVE  Good(g)' /\ \A c \in Chans : lock'[c] = g <=> Holds(g, c)'
<1>0. /\ TypeOK /\ Frame(g) /\ Leaving(g) /\ ClaimedBy(g) /\ ValuesOf(g) /\ NoInternalPanic
      /\ \A c \in Chans : lock[c] = g <=> Holds(g, c)
  BY Basics
<1>1. pc[g] = "lock" /\ todo[g] = {} /\ todo'[g] = locks(op[g])  BY <1>0 DEF Holding, TypeOK
<1>c. commit[g] = {}  BY <1>0, <1>1 DEF Leaving
<1>2. Frame(g)'  BY <1>0, <1>1 DEF Frame, case
<1>3. Leaving(g)'  BY <1>c DEF Leaving
<1>4. ClaimedBy(g)'  BY DEF ClaimedBy
<1>5. ValuesOf(g)'
  <2> SUFFICES ASSUME NEW i \in DOMAIN op[g].cases
               PROVE  /\ case(g, i).dir = "recv" /\ sd[g][i].ok => sd[g][i].v # None
                      /\ \A c \in Chans : <<g, i>> \notin Who("send", c)'
    BY DEF ValuesOf, case, CaseIs
  <2>1. \A c \in Chans : <<g, i>> \notin Who("send", c)
    <3>1. \A d \in Dirs, c \in Chans : \A s \in Who(d, c) : s[1] # g  BY <1>1, NotQueued
    <3> QED  BY <3>1 DEF Dirs
  <2> QED  BY <1>0, <2>1 DEF ValuesOf, Dirs
<1>6. \A c \in Chans : lock'[c] = g <=> Holds(g, c)'  BY <1>0, <1>1, <1>c DEF Holds
<1> QED  BY <1>2, <1>3, <1>4, <1>5, <1>6 DEF Good

\* No case is ready and there is a default, or a receive finds the channel closed and drained.
LEMMA NothingMoves ==
  ASSUME Inv, NEW g \in G, Holding(g), NEW i \in Nat, Fired(g, i, None, FALSE),
         pc' = [pc EXCEPT ![g] = "unlock"], UNCHANGED <<buf, sendq, recvq, sd, done, fatal>>
  PROVE  Inv'
<1>0. TypeOK /\ NoInternalPanic /\ locks(op[g]) \subseteq Chans  BY Basics
<1>1. /\ res' = [res EXCEPT ![g] = [i |-> i, v |-> None, ok |-> FALSE]]
      /\ todo' = [todo EXCEPT ![g] = locks(op[g])]
      /\ UNCHANGED <<closed, lock, op, ops, next, winners, commit>>
  BY DEF Fired
<1>2. pc[g] = "lock"  BY DEF Holding
<1>t. TypeOK'
  <2>1. [i |-> i, v |-> None, ok |-> FALSE] \in Result  BY DEF Result, Val
  <2>2. res' \in [G -> Result] /\ todo' \in [G -> SUBSET Chans] /\ pc' \in [G -> PCs]
    BY <1>0, <1>1, <2>1 DEF TypeOK, PCs
  <2> QED  BY <1>0, <1>1, <2>2 DEF TypeOK, PCs
<1>a. pc'[g] = "unlock" /\ \A x \in G : x # g => Same(x)
  BY <1>0, <1>1 DEF TypeOK, Same
<1>w. \A d \in Dirs, c \in Chans : Who(d, c)' \subseteq Who(d, c)  BY DEF Who, Line
<1>f. Good(g)' /\ \A c \in Chans : lock'[c] = g <=> Holds(g, c)'  BY <1>1, <1>a, <1>w, Fires
<1>l. \A c \in Chans : /\ lock'[c] = g <=> Holds(g, c)'
                       /\ \A x \in G : x # g => (lock'[c] = x <=> lock[c] = x)
  BY <1>1, <1>f
<1>m. \A d \in Dirs, c \in Chans : \A s \in Who(d, c) : s[1] # g  BY <1>2, NotQueued
<1>p. NoInternalPanic'  BY <1>0 DEF NoInternalPanic
<1>u. UNCHANGED chanVars  BY <1>1 DEF chanVars
<1> QED  BY <1>2, <1>t, <1>a, <1>f, <1>l, <1>m, <1>p, <1>u, Own

\* A sudog can be claimed exactly if the waker's scan finds one.
LEMMA ClaimLive ==
  \A c \in Chans : /\ Claimable(sendq[c]) <=> LiveIn("send", c) # {}
                   /\ Claimable(recvq[c]) <=> LiveIn("recv", c) # {}
  BY DEF Claimable, LiveIn, Who, Line

\* Pass 2 begins: no case was ready, and that is what Blocked says.
LEMMA BlockKeeps == ASSUME Inv, NEW g \in G, Block(g) PROVE Inv'
<1>0. /\ TypeOK /\ Frame(g) /\ Leaving(g) /\ ClaimedBy(g) /\ ValuesOf(g) /\ NoInternalPanic
      /\ op[g] \in Op /\ \A c \in Chans : lock[c] = g <=> Holds(g, c)
  BY Basics
<1>1. /\ pc[g] = "lock" /\ todo[g] = {} /\ op[g].kind # "close" /\ NoneReady(g)
      /\ pc' = [pc EXCEPT ![g] = "register"]
      /\ UNCHANGED <<chanVars, lock, op, ops, todo, next, sd, done, winners, commit, res, fatal>>
  BY DEF Block, Holding
<1>u. UNCHANGED <<closed, buf, sendq, recvq>>  BY <1>1 DEF chanVars
<1>w. op[g] \in Menu[g] /\ \A i \in DOMAIN op[g].cases : case(g, i).dir \in Dirs
  BY <1>0, <1>1, MenuFacts DEF Frame, case
<1>2. Blocked(g)
  <2> SUFFICES ASSUME NEW c \in Chans
               PROVE  /\ c \in locks(op[g]) => ~closed[c]
                      /\ Asks(g, "recv", c) => buf[c] = << >> /\ \A s \in LiveIn("send", c) : s[1] = g
                      /\ Asks(g, "send", c) =>
                            Len(buf[c]) = Cap[c] /\ \A s \in LiveIn("recv", c) : s[1] = g
    BY DEF Blocked
  <2>0. c # Nil /\ Len(buf[c]) \in Nat /\ Len(buf[c]) <= Cap[c] /\ Cap[c] \in Nat
    BY <1>0, OpFacts, ConstAssumption DEF TypeOK
  <2>1. ASSUME NEW i \in DOMAIN op[g].cases, CaseIs(g, i, "recv", c) PROVE ~RecvReady(c)
    BY <1>1, <2>0, <2>1 DEF NoneReady, Ready, CaseIs
  <2>2. ASSUME NEW i \in DOMAIN op[g].cases, CaseIs(g, i, "send", c) PROVE ~SendReady(c)
    BY <1>1, <2>0, <2>2 DEF NoneReady, Ready, CaseIs
  <2>3. Asks(g, "recv", c) => buf[c] = << >> /\ LiveIn("send", c) = {} /\ ~closed[c]
    BY <2>1, ClaimLive DEF Asks, RecvReady
  <2>4. Asks(g, "send", c) => Len(buf[c]) = Cap[c] /\ LiveIn("recv", c) = {} /\ ~closed[c]
    BY <2>0, <2>2, ClaimLive DEF Asks, SendReady, HasRoom
  <2>5. c \in locks(op[g]) => Asks(g, "recv", c) \/ Asks(g, "send", c)
    <3>1. c \in locks(op[g]) => \E i \in DOMAIN op[g].cases : case(g, i).c = c
      BY <1>0, OpFacts DEF case
    <3> QED  BY <1>w, <3>1 DEF Asks, CaseIs, Dirs
  <2> QED  BY <2>3, <2>4, <2>5
<1>3. Blocked(g)'
  <2>1. \A c \in Chans : LiveIn("send", c)' = LiveIn("send", c) /\ LiveIn("recv", c)' = LiveIn("recv", c)
    BY <1>1, <1>u DEF LiveIn, Who, Line, Live
  <2> QED  BY <1>1, <1>2, <1>u, <2>1 DEF Blocked, Asks, CaseIs, case
<1>t. TypeOK'  BY <1>0, <1>1 DEF TypeOK, chanVars
<1>a. pc'[g] = "register" /\ \A x \in G : x # g => Same(x)  BY <1>0, <1>1 DEF TypeOK, Same
<1>f. Frame(g)'  BY <1>0, <1>1, <1>a DEF Frame, case
<1>c. commit[g] = {}  BY <1>0, <1>1 DEF Leaving
<1>g. Leaving(g)'  BY <1>1, <1>c DEF Leaving
<1>v. ClaimedBy(g)' /\ ValuesOf(g)'
  BY <1>0, <1>1, <1>u, <1>a DEF ClaimedBy, ValuesOf, CaseIs, case, Who, Line
<1>l. \A c \in Chans : /\ lock'[c] = g <=> Holds(g, c)'
                       /\ \A x \in G : x # g => (lock'[c] = x <=> lock[c] = x)
  BY <1>0, <1>1, <1>a, <1>c DEF Holds
<1>m. \A d \in Dirs, c \in Chans : \A s \in Who(d, c) : s[1] # g  BY <1>1, NotQueued
<1>p. NoInternalPanic'  BY <1>0, <1>1 DEF NoInternalPanic
<1> QED  BY <1>1, <1>3, <1>t, <1>a, <1>f, <1>g, <1>v, <1>l, <1>m, <1>p, Own DEF Good

\* All sudogs are queued: the goroutine parks and its locks are left to the commit function.
LEMMA ParkKeeps ==
  ASSUME Inv, NEW g \in G, Register(g), next[g] > Len(op[g].cases) PROVE Inv'
<1>0. /\ TypeOK /\ Frame(g) /\ Leaving(g) /\ ClaimedBy(g) /\ ValuesOf(g) /\ NoInternalPanic
      /\ op[g] \in Op /\ locks(op[g]) \subseteq Chans /\ done[g] \in BOOLEAN
      /\ \A c \in Chans : lock[c] = g <=> Holds(g, c)
  BY Basics
<1>1. /\ pc[g] = "register" /\ pc' = [pc EXCEPT ![g] = "parked"]
      /\ next' = [next EXCEPT ![g] = 1] /\ commit' = [commit EXCEPT ![g] = locks(op[g])]
      /\ UNCHANGED <<sendq, recvq, fatal, closed, buf, lock, op, ops, todo, sd, done, winners, res>>
  BY DEF Register
<1>t. TypeOK'  BY <1>0, <1>1 DEF TypeOK
<1>a. /\ pc'[g] = "parked" /\ next'[g] = 1 /\ commit'[g] = locks(op[g])
      /\ \A x \in G : x # g => Same(x)
  BY <1>0, <1>1 DEF TypeOK, Same
<1>f. Frame(g)'  BY <1>0, <1>1, <1>a DEF Frame, case
<1>g. Leaving(g)'  BY <1>1, <1>a DEF Leaving
<1>v. ClaimedBy(g)' /\ ValuesOf(g)'
  BY <1>0, <1>1, <1>a DEF ClaimedBy, ValuesOf, CaseIs, case, Who, Line
<1>c. commit[g] = {}  BY <1>0, <1>1 DEF Leaving
<1>l. \A c \in Chans : /\ lock'[c] = g <=> Holds(g, c)'
                       /\ \A x \in G : x # g => (lock'[c] = x <=> lock[c] = x)
  BY <1>0, <1>1, <1>a, <1>c DEF Holds
<1>m. \A d \in Dirs, c \in Chans : \A s \in Who(d, c) : s[1] = g =>
         InFrame(g, s[2], d, c)' /\ op'[g] = op[g] /\ (done[g] => done'[g])
  <2> SUFFICES ASSUME NEW d \in Dirs, NEW c \in Chans, NEW s \in Who(d, c), s[1] = g
               PROVE  InFrame(g, s[2], d, c)'
    BY <1>1
  <2>1. InFrame(g, s[2], d, c)  BY DEF Inv, Framed
  <2> QED  BY <1>1, <1>a, <2>1 DEF InFrame, case
<1>p. NoInternalPanic'  BY <1>0, <1>1 DEF NoInternalPanic
<1>u. UNCHANGED chanVars  BY <1>1 DEF chanVars
<1> QED  BY <1>1, <1>t, <1>a, <1>f, <1>g, <1>v, <1>l, <1>m, <1>p, <1>u, Own DEF Good

\* The M that parked g releases a lock of g's frame.
LEMMA CommitKeeps == ASSUME Inv, NEW g \in G, Commit(g) PROVE Inv'
<1>0. /\ TypeOK /\ Frame(g) /\ Leaving(g) /\ ClaimedBy(g) /\ ValuesOf(g) /\ NoInternalPanic
      /\ op[g] \in Op /\ commit[g] \subseteq Chans
      /\ \A c \in Chans : lock[c] = g <=> Holds(g, c)
  BY Basics
<1>1. PICK b \in commit[g] : /\ lock' = [lock EXCEPT ![b] = None]
                             /\ commit' = [commit EXCEPT ![g] = commit[g] \ {b}]
  BY DEF Commit, CommitRest
<1>2. UNCHANGED <<chanVars, pc, op, ops, todo, next, sd, done, winners, res, fatal>>
  BY DEF Commit
<1>3. pc[g] \in {"parked", "woken", "pass3"} /\ b \in Chans  BY <1>0 DEF Leaving
<1>t. TypeOK'  BY <1>0, <1>1, <1>2 DEF TypeOK, chanVars
<1>a. commit'[g] = commit[g] \ {b} /\ \A x \in G : x # g => Same(x)
  BY <1>0, <1>1, <1>2 DEF TypeOK, Same
<1>f. Frame(g)'  BY <1>0, <1>2 DEF Frame, case
<1>g. Leaving(g)'  BY <1>0, <1>2, <1>a DEF Leaving, case
<1>v. ClaimedBy(g)' /\ ValuesOf(g)'
  <2>1. \A d \in Dirs, c \in Chans : Who(d, c)' \subseteq Who(d, c)
    BY <1>2 DEF Who, Line, chanVars
  <2>2. Waits(g)  BY <1>2 DEF Waits
  <2> QED  BY <1>0, <2>1, <2>2, OthersWait
<1>l. \A c \in Chans : /\ lock'[c] = g <=> Holds(g, c)'
                       /\ \A x \in G : x # g => (lock'[c] = x <=> lock[c] = x)
  <2> SUFFICES ASSUME NEW c \in Chans
               PROVE  /\ lock'[c] = g <=> Holds(g, c)'
                      /\ \A x \in G : x # g => (lock'[c] = x <=> lock[c] = x)
    OBVIOUS
  <2>1. lock' = [lock EXCEPT ![b] = None] /\ lock \in [Chans -> G \cup {None}]
    BY <1>0, <1>1 DEF TypeOK
  <2>2. CASE c = b
    <3>1. lock[c] = g /\ lock'[c] = None  BY <1>0, <1>3, <2>1, <2>2 DEF Holds
    <3> QED  BY <1>2, <1>3, <1>a, <2>2, <3>1, ConstAssumption DEF Holds
  <2>3. CASE c # b  BY <1>0, <1>2, <1>3, <1>a, <2>1, <2>3 DEF Holds
  <2> QED  BY <2>2, <2>3
<1>m. \A d \in Dirs, c \in Chans : \A s \in Who(d, c) : s[1] = g =>
         InFrame(g, s[2], d, c)' /\ op'[g] = op[g] /\ (done[g] => done'[g])
  <2> SUFFICES ASSUME NEW d \in Dirs, NEW c \in Chans, NEW s \in Who(d, c), s[1] = g
               PROVE  InFrame(g, s[2], d, c)'
    BY <1>2
  <2>1. InFrame(g, s[2], d, c)  BY DEF Inv, Framed
  <2> QED  BY <1>2, <2>1 DEF InFrame, case
<1>r. pc'[g] # "register" /\ pc[g] # "closing"  BY <1>2, <1>3
<1>p. NoInternalPanic'  BY <1>0, <1>2 DEF NoInternalPanic
<1> QED  BY <1>2, <1>r, <1>t, <1>a, <1>f, <1>g, <1>v, <1>l, <1>m, <1>p, Own DEF Good

\* A select that was readied begins pass 3.
LEMMA ResumeSelectKeeps == ASSUME Inv, NEW g \in G, ResumeSelect(g) PROVE Inv'
<1>0. /\ TypeOK /\ Frame(g) /\ Leaving(g) /\ ClaimedBy(g) /\ ValuesOf(g) /\ NoInternalPanic
      /\ op[g] \in Op /\ \A c \in Chans : lock[c] = g <=> Holds(g, c)
  BY Basics
<1>1. /\ pc[g] = "woken" /\ op[g].kind = "select" /\ pc' = [pc EXCEPT ![g] = "pass3"]
      /\ UNCHANGED <<chanVars, lock, op, ops, todo, next, sd, done, winners, commit, res, fatal>>
  BY DEF ResumeSelect
<1>n. next[g] = 1 /\ \A i \in DOMAIN op[g].cases : i >= 1 /\ ~(i < 1)
  BY <1>0, <1>1, OpFacts DEF Frame
<1>t. TypeOK'  BY <1>0, <1>1 DEF TypeOK, chanVars
<1>a. pc'[g] = "pass3" /\ \A x \in G : x # g => Same(x)  BY <1>0, <1>1 DEF TypeOK, Same
<1>f. Frame(g)'  BY <1>0, <1>1, <1>a DEF Frame, case
<1>g. Leaving(g)'  BY <1>0, <1>1, <1>n, <1>a DEF Leaving, case
<1>v. ClaimedBy(g)' /\ ValuesOf(g)'
  <2>1. \A d \in Dirs, c \in Chans : Who(d, c)' \subseteq Who(d, c)
    BY <1>1 DEF Who, Line, chanVars
  <2>2. Waits(g)  BY <1>1, <1>a DEF Waits
  <2> QED  BY <1>0, <2>1, <2>2, OthersWait
<1>l. \A c \in Chans : /\ lock'[c] = g <=> Holds(g, c)'
                       /\ \A x \in G : x # g => (lock'[c] = x <=> lock[c] = x)
  BY <1>0, <1>1, <1>a DEF Holds
<1>m. \A d \in Dirs, c \in Chans : \A s \in Who(d, c) : s[1] = g =>
         InFrame(g, s[2], d, c)' /\ op'[g] = op[g] /\ (done[g] => done'[g])
  <2> SUFFICES ASSUME NEW d \in Dirs, NEW c \in Chans, NEW s \in Who(d, c), s[1] = g
               PROVE  InFrame(g, s[2], d, c)'
    BY <1>1
  <2>1. InFrame(g, s[2], d, c)  BY DEF Inv, Framed
  <2> QED  BY <1>1, <1>n, <1>a, <2>1 DEF InFrame, case
<1>p. NoInternalPanic'  BY <1>0, <1>1 DEF NoInternalPanic
<1> QED  BY <1>1, <1>t, <1>a, <1>f, <1>g, <1>v, <1>l, <1>m, <1>p, Own DEF Good

\* A readied operation returns to its caller; none of its sudogs is queued any more, and
\* none of its locks is left to release.
LEMMA FinishKeeps ==
  ASSUME Inv, NEW g \in G, NEW i \in DOMAIN op[g].cases, Finish(g, i),
         \/ pc[g] = "woken" /\ op[g].kind = "plain"
         \/ pc[g] = "pass3" /\ Pass3Over(g),
         next' = [next EXCEPT ![g] = 1], winners' = [winners EXCEPT ![g] = {}],
         UNCHANGED <<chanVars, lock, ops, todo, commit>>, fatal' = FailedSend(g, i)
  PROVE  Inv'
<1>0. /\ TypeOK /\ Frame(g) /\ Leaving(g) /\ NoInternalPanic /\ op[g] \in Op
      /\ \A c \in Chans : lock[c] = g <=> Holds(g, c)
  BY Basics
<1>1. /\ res' = [res EXCEPT ![g] = Outcome(g, i)] /\ pc' = [pc EXCEPT ![g] = "idle"]
      /\ op' = [op EXCEPT ![g] = NoOp] /\ sd' = [sd EXCEPT ![g] = << >>]
      /\ done' = [done EXCEPT ![g] = FALSE]
  BY DEF Finish
<1>2. (\A d \in Dirs, c \in Chans : \A s \in Who(d, c) : s[1] # g) /\ commit[g] = {}
  BY AllGone
<1>n. NoOp \in Op /\ NoOp.cases = << >> /\ NoOp.kind = "plain"  BY DEF NoOp, Op
<1>3. fatal' \in {"none", "send on closed channel"}  BY DEF FailedSend
<1>t. TypeOK'
  <2>1. Outcome(g, i) \in Result
    <3>1. sd[g] \in Seq([v : Val, ok : BOOLEAN]) /\ i \in DOMAIN sd[g]  BY <1>0 DEF TypeOK, Frame
    <3>2. sd[g][i] \in [v : Val, ok : BOOLEAN]  BY <3>1, InSeq
    <3>3. i \in Nat  BY <1>0, OpFacts
    <3> QED  BY <3>2, <3>3 DEF Outcome, Result, Val
  <2>2. res' \in [G -> Result] /\ pc' \in [G -> PCs] /\ done' \in [G -> BOOLEAN]
    BY <1>0, <1>1, <2>1 DEF TypeOK, PCs
  <2>3. << >> \in Seq([v : Val, ok : BOOLEAN])  OBVIOUS
  <2>4. op' \in [G -> Op] /\ sd' \in [G -> Seq([v : Val, ok : BOOLEAN])]
    BY <1>0, <1>1, <1>n, <2>3 DEF TypeOK
  <2>5. next' \in [G -> Nat] /\ winners' \in [G -> SUBSET Nat]  BY <1>0 DEF TypeOK
  <2>6. fatal' \in Fatal  BY <1>3 DEF Fatal
  <2> QED  BY <1>0, <2>2, <2>4, <2>5, <2>6 DEF TypeOK, PCs, chanVars
<1>a. /\ pc'[g] = "idle" /\ op'[g] = NoOp /\ sd'[g] = << >> /\ next'[g] = 1 /\ ~done'[g]
      /\ winners'[g] = {} /\ commit'[g] = {} /\ \A x \in G : x # g => Same(x)
  BY <1>0, <1>1, <1>2 DEF TypeOK, Same
<1>f. Frame(g)'  BY <1>0, <1>n, <1>a DEF Frame, case
<1>g. Leaving(g)'  BY <1>a DEF Leaving
<1>v. ClaimedBy(g)' /\ ValuesOf(g)'  BY <1>n, <1>a DEF ClaimedBy, ValuesOf
<1>l. \A c \in Chans : /\ lock'[c] = g <=> Holds(g, c)'
                       /\ \A x \in G : x # g => (lock'[c] = x <=> lock[c] = x)
  BY <1>0, <1>2, <1>a DEF Holds
<1>p. NoInternalPanic'  BY <1>3 DEF NoInternalPanic
<1> QED  BY <1>2, <1>t, <1>a, <1>f, <1>g, <1>v, <1>l, <1>p, Own DEF Good

\* A plain Send or Recv runs again.
LEMMA ResumePlainKeeps == ASSUME Inv, NEW g \in G, ResumePlain(g) PROVE Inv'
<1>0. TypeOK /\ Frame(g) /\ ValuesOf(g)  BY Basics
<1>1. /\ pc[g] = "woken" /\ op[g].kind = "plain" /\ Finish(g, 1)
      /\ UNCHANGED <<chanVars, lock, ops, todo, next, winners, commit>>
  BY DEF ResumePlain
<1>2. 1 \in DOMAIN op[g].cases  BY <1>0, <1>1, MenuFacts DEF Frame
<1>3. next[g] = 1 /\ winners[g] = {}  BY <1>0, <1>1 DEF Frame
<1>4. next' = [next EXCEPT ![g] = 1] /\ winners' = [winners EXCEPT ![g] = {}]
  BY <1>0, <1>1, <1>3 DEF TypeOK
<1>5. ~(case(g, 1).dir = "recv" /\ sd[g][1].ok /\ sd[g][1].v = None)
  BY <1>0, <1>2 DEF ValuesOf
<1>6. fatal' = FailedSend(g, 1)  BY <1>5 DEF ResumePlain
<1> QED  BY <1>1, <1>2, <1>4, <1>6, FinishKeeps

\* Pass 3 is over: it has found the case that was claimed.
LEMMA DispatchKeeps == ASSUME Inv, NEW g \in G, Dispatch(g) PROVE Inv'
<1>0. TypeOK /\ Frame(g) /\ ClaimedBy(g) /\ op[g] \in Op /\ next[g] \in Nat  BY Basics
<1>1. /\ pc[g] = "pass3" /\ Pass3Over(g) /\ next' = [next EXCEPT ![g] = 1]
      /\ winners' = [winners EXCEPT ![g] = {}] /\ UNCHANGED <<chanVars, lock, ops, todo, commit>>
  BY DEF Dispatch
<1>2. winners[g] # {}
  <2>1. PICK i \in DOMAIN op[g].cases, d \in Dirs, c \in Chans : Won(g, i, d, c)
    BY <1>0, <1>1 DEF ClaimedBy
  <2>2. ~(i >= next[g])  BY <1>0, <1>1, OpFacts DEF Pass3Over
  <2> QED  BY <2>1, <2>2 DEF Won
<1>3. PICK i \in winners[g] : Finish(g, i) /\ fatal' = FailedSend(g, i)  BY <1>2 DEF Dispatch
<1>4. i \in DOMAIN op[g].cases  BY <1>0, <1>3 DEF Frame
<1> QED  BY <1>1, <1>3, <1>4, FinishKeeps

\* The process ends with a panic of the program.
LEMMA Dies ==
  ASSUME Inv, NEW g \in G, pc[g] = "lock",
         fatal' \in {"send on closed channel", "close of nil or closed channel"},
         UNCHANGED <<closed, buf, sendq, recvq, lock, pc, op, ops, todo, next, sd, done, winners,
                     commit, res>>
  PROVE  Inv'
<1>0. /\ TypeOK /\ Frame(g) /\ Leaving(g) /\ ClaimedBy(g) /\ ValuesOf(g)
      /\ \A c \in Chans : lock[c] = g <=> Holds(g, c)
  BY Basics
<1>t. TypeOK'
  <2>1. fatal' \in Fatal  BY DEF Fatal
  <2> QED  BY <1>0, <2>1 DEF TypeOK
<1>p. NoInternalPanic'  BY DEF NoInternalPanic
<1>s. \A x \in G : Same(x)  BY DEF Same
<1>w. \A d \in Dirs, c \in Chans : Who(d, c)' \subseteq Who(d, c)  BY DEF Who, Line
<1>1. /\ Frame(g)' /\ Leaving(g)' /\ \A c \in Chans : Holds(g, c)' <=> Holds(g, c)
  BY <1>0, <1>s, Others
<1>2. ClaimedBy(g)' /\ ValuesOf(g)'
  <2>1. Waits(g)  BY DEF Waits
  <2> QED  BY <1>0, <1>w, <2>1, OthersWait
<1>m. \A d \in Dirs, c \in Chans : \A s \in Who(d, c) : s[1] # g  BY NotQueued
<1>u. UNCHANGED chanVars  BY DEF chanVars
<1> QED  BY <1>0, <1>t, <1>p, <1>s, <1>1, <1>2, <1>m, <1>u, Own DEF Good

-----------------------------------------------------------------------------
(* Steps that claim a sudog.                                               *)

\* Whoever can be claimed under the channel's lock is parked, and the M that parked it
\* has released that lock.
LEMMA ClaimFacts ==
  ASSUME Inv, NEW g \in G, NEW c \in Chans, lock[c] = g, pc[g] \in {"lock", "closing"},
         NEW d \in Dirs, NEW s \in LiveIn(d, c)
  PROVE  /\ s \in Who(d, c) /\ s[1] \in G /\ s = <<s[1], s[2]>> /\ s[1] # g
         /\ pc[s[1]] = "parked" /\ CaseIs(s[1], s[2], d, c) /\ s[2] \in DOMAIN sd[s[1]]
         /\ op[s[1]].kind # "close" /\ c \notin commit[s[1]]
<1>0. s \in Who(d, c) /\ Live(s) /\ TypeOK /\ Framed  BY DEF LiveIn, Inv
<1>1. s[1] \in G /\ s = <<s[1], s[2]>>  BY <1>0, WhoFacts
<1>2. InFrame(s[1], s[2], d, c)  BY <1>0 DEF Framed
<1>3. s[1] # g /\ pc[s[1]] \in {"register", "parked", "woken", "pass3"}  BY <1>2 DEF InFrame
<1>4. CaseIs(s[1], s[2], d, c)  BY <1>2 DEF InFrame, CaseIs
<1>5. /\ Frame(s[1]) /\ op[s[1]] \in Op /\ (lock[c] = s[1] <=> Holds(s[1], c))  BY <1>1, Basics
<1>6. c \in locks(op[s[1]])
  <2>1. c # Nil  BY <1>5, OpFacts
  <2> QED  BY <1>4, <1>5, <2>1, OpFacts DEF CaseIs, case
<1>7. pc[s[1]] # "register" /\ c \notin commit[s[1]]  BY <1>3, <1>5, <1>6 DEF Holds
<1>8. op[s[1]].kind # "close" /\ s[2] \in DOMAIN sd[s[1]]  BY <1>3, <1>4, <1>5 DEF Frame, CaseIs
<1>9. pc[s[1]] # "pass3"  BY <1>0, <1>5 DEF Frame, Live
<1>10. pc[s[1]] # "woken"
  <2> SUFFICES ASSUME pc[s[1]] = "woken" PROVE FALSE  OBVIOUS
  <2>1. op[s[1]].kind # "select"  BY <1>0, <1>5 DEF Frame, Live
  <2>2. op[s[1]].kind = "plain"  BY <1>5, <1>8, <2>1, OpFacts
  <2> QED  BY <1>0, <1>1, <2>2, AllGone
<1> QED  BY <1>0, <1>1, <1>3, <1>4, <1>7, <1>8, <1>9, <1>10

\* Under the lock of c, g takes the sudog s off a queue, writes v and ok to it and readies
\* its goroutine; nothing else that concerns other goroutines changes.
Claims(g, c, d, s, v, ok) ==
    /\ lock[c] = g /\ pc[g] \in {"lock", "closing"} /\ s \in LiveIn(d, c)
    /\ v \in Val /\ ok \in BOOLEAN /\ (d = "recv" /\ ok => v # None)
    /\ Wake(s, v, ok) /\ UNCHANGED <<lock, op, next, winners, commit>>
    /\ pc'[s[1]] = "woken" /\ \A x \in G : x # g /\ x # s[1] => pc'[x] = pc[x]
    /\ \A x \in G : x # g => todo'[x] = todo[x]
    /\ s \notin Who(d, c)' /\ \A e \in Dirs, b \in Chans : Who(e, b)' \subseteq Who(e, b)

\* The goroutine of s is readied: what it finds when it runs is in order, and the step
\* concerns only it and its waker.
Awoken(g, s) ==
    /\ s[1] \in G /\ s[1] # g /\ Quiet(g, s[1]) /\ Good(s[1])'
    /\ sd' \in [G -> Seq([v : Val, ok : BOOLEAN])] /\ done' \in [G -> BOOLEAN]
    /\ sd'[g] = sd[g] /\ done'[g] = done[g]
    /\ \A b \in Chans : lock'[b] = s[1] <=> Holds(s[1], b)'

\* Claiming a sudog readies its goroutine properly.
LEMMA ClaimKeeps ==
  ASSUME Inv, NEW g \in G, NEW c \in Chans, NEW d \in Dirs, NEW s, NEW v, NEW ok,
         Claims(g, c, d, s, v, ok)
  PROVE  Awoken(g, s)
<1> SUFFICES ASSUME lock[c] = g, pc[g] \in {"lock", "closing"}, s \in LiveIn(d, c),
                    v \in Val, ok \in BOOLEAN, d = "recv" /\ ok => v # None,
                    Wake(s, v, ok), UNCHANGED <<lock, op, next, winners, commit>>,
                    pc'[s[1]] = "woken", \A x \in G : x # g => todo'[x] = todo[x],
                    \A x \in G : x # g /\ x # s[1] => pc'[x] = pc[x],
                    s \notin Who(d, c)', \A e \in Dirs, b \in Chans : Who(e, b)' \subseteq Who(e, b)
             PROVE  Awoken(g, s)
  BY DEF Claims
<1>0. /\ s \in Who(d, c) /\ s[1] \in G /\ s = <<s[1], s[2]>> /\ s[1] # g
      /\ pc[s[1]] = "parked" /\ CaseIs(s[1], s[2], d, c) /\ s[2] \in DOMAIN sd[s[1]]
      /\ op[s[1]].kind # "close" /\ c \notin commit[s[1]]
  BY ClaimFacts
<1> PICK h \in G : h = s[1]  BY <1>0
<1> PICK i \in DOMAIN sd[h] : i = s[2]  BY <1>0
<1>h. s = <<h, i>> /\ s[1] = h /\ s[2] = i  BY <1>0
<1>1. /\ TypeOK /\ Frame(h) /\ Leaving(h) /\ ValuesOf(h) /\ op[h] \in Op /\ done[h] \in BOOLEAN
      /\ \A b \in Chans : lock[b] = h <=> Holds(h, b)
  BY Basics
<1>2. DOMAIN sd[h] = DOMAIN op[h].cases /\ op[h] \in Menu[h]  BY <1>0, <1>1, <1>h DEF Frame
<1> DEFINE R == [v : Val, ok : BOOLEAN]
           r == [v |-> v, ok |-> ok]
<1>3. r \in R /\ r.v = v /\ r.ok = ok  OBVIOUS
<1>4. sd \in [G -> Seq(R)] /\ sd' = [sd EXCEPT ![h][i] = r]  BY <1>1, <1>h DEF Wake, TypeOK
<1> HIDE DEF R, r
<1>5. /\ sd' \in [G -> Seq(R)] /\ DOMAIN sd'[h] = DOMAIN sd[h] /\ sd'[h][i] = r
      /\ \A j \in DOMAIN sd[h] : j # i => sd'[h][j] = sd[h][j]
      /\ \A x \in G : x # h => sd'[x] = sd[x]
  <2> DEFINE F == [sd EXCEPT ![h][i] = r]
  <2>1. /\ F \in [G -> Seq(R)] /\ DOMAIN F[h] = DOMAIN sd[h] /\ F[h][i] = r
        /\ \A j \in DOMAIN sd[h] : j # i => F[h][j] = sd[h][j]
        /\ \A x \in G : x # h => F[x] = sd[x]
    BY <1>3, <1>4, SudogWritten
  <2>2. sd' = F  BY <1>4
  <2> HIDE DEF F
  <2> QED  BY <2>1, <2>2
<1>6. /\ done' \in [G -> BOOLEAN] /\ done'[h] = (op[h].kind = "select")
      /\ \A x \in G : x # h => done'[x] = done[x]
  BY <1>1, <1>h DEF Wake, TypeOK
<1>7. pc[h] = "parked" /\ pc'[h] = "woken" /\ todo'[h] = todo[h] /\ ~done[h]
  BY <1>0, <1>1, <1>h DEF Frame
<1>f. Frame(h)'  BY <1>0, <1>1, <1>5, <1>6, <1>7 DEF Frame, case
<1>g. Leaving(h)'
  <2>1. op[h].kind = "plain" => commit[h] = {}
    <3> SUFFICES ASSUME op[h].kind = "plain", NEW b \in commit[h] PROVE FALSE  OBVIOUS
    <3>1. DOMAIN op[h].cases = {1}  BY <1>2, MenuFacts
    <3>2. b \in locks(op[h])  BY <1>1 DEF Leaving
    <3>3. case(h, 1).c = b  BY <1>1, <3>1, <3>2, OpFacts DEF case
    <3>4. case(h, 1).c = c  BY <1>0, <1>h, <3>1 DEF CaseIs
    <3> QED  BY <1>0, <1>h, <3>3, <3>4
  <2> QED  BY <1>1, <1>7, <2>1 DEF Leaving, case
<1>c. ClaimedBy(h)'
  <2>1. CaseIs(h, i, d, c)' /\ i \in DOMAIN op'[h].cases  BY <1>0, <1>h DEF CaseIs, case
  <2>2. next'[h] = 1 /\ i >= 1  BY <1>1, <1>2, <1>7, OpFacts DEF Frame
  <2>3. Won(h, i, d, c)'  BY <1>h, <2>1, <2>2 DEF Won
  <2> QED  BY <2>1, <2>3 DEF ClaimedBy
<1>v. ValuesOf(h)'
  <2> SUFFICES ASSUME NEW j \in DOMAIN op[h].cases
               PROVE  /\ case(h, j).dir = "recv" /\ sd'[h][j].ok => sd'[h][j].v # None
                      /\ \A b \in Chans : CaseIs(h, j, "send", b) /\ <<h, j>> \in Who("send", b)'
                            => sd'[h][j].v # None
    BY <1>7 DEF ValuesOf, case, CaseIs
  <2>1. CASE j = i
    <3>1. case(h, j).dir = d /\ case(h, j).c = c  BY <1>0, <1>h, <2>1 DEF CaseIs
    <3>2. sd'[h][j].v = v /\ sd'[h][j].ok = ok  BY <1>3, <1>5, <2>1
    <3>3. \A b \in Chans : CaseIs(h, j, "send", b) => d = "send" /\ b = c /\ <<h, j>> = s
      BY <1>h, <2>1, <3>1 DEF CaseIs
    <3> QED  BY <3>1, <3>2, <3>3
  <2>2. CASE j # i
    <3>1. sd'[h][j] = sd[h][j]  BY <1>2, <1>5, <2>2
    <3>2. \A b \in Chans : Who("send", b)' \subseteq Who("send", b)  BY DEF Dirs
    <3> QED  BY <1>1, <3>1, <3>2 DEF ValuesOf
  <2> QED  BY <2>1, <2>2
<1>l. \A b \in Chans : lock'[b] = h <=> Holds(h, b)'  BY <1>1, <1>7 DEF Holds
<1>q. Quiet(g, h)
  <2>1. \A x \in G : x # g /\ x # h => Same(x)  BY <1>5, <1>6, <1>h DEF Same
  <2>2. ASSUME NEW e \in Dirs, NEW b \in Chans, NEW t \in Who(e, b)', t[1] \in {g, h}
        PROVE  /\ InFrame(t[1], t[2], e, b)'
               /\ op'[t[1]] = op[t[1]] /\ (done[t[1]] => done'[t[1]])
    <3>1. t \in Who(e, b)  BY <2>2
    <3>2. t[1] # g  BY <3>1, NotQueued
    <3>3. t[1] = h  BY <2>2, <3>2
    <3>4. InFrame(h, t[2], e, b)  BY <3>1, <3>3 DEF Inv, Framed
    <3>5. InFrame(h, t[2], e, b)'  BY <1>7, <3>4 DEF InFrame, case
    <3>6. InFrame(t[1], t[2], e, b)'  BY <3>3, <3>5
    <3> QED  BY <1>7, <3>3, <3>6
  <2> QED  BY <2>1, <2>2 DEF Quiet
<1>8. Good(s[1])'
  <2>1. Good(h)'  BY <1>f, <1>g, <1>c, <1>v DEF Good
  <2> QED  BY <1>h, <2>1
<1>9. sd' \in [G -> Seq([v : Val, ok : BOOLEAN])]  BY <1>5 DEF R
<1>10. \A b \in Chans : lock'[b] = s[1] <=> Holds(s[1], b)'  BY <1>h, <1>l
<1> QED  BY <1>0, <1>h, <1>5, <1>6, <1>8, <1>9, <1>10, <1>q DEF Awoken

\* A sudog is taken off one of the queues.
LEMMA Unlinked ==
  ASSUME TypeOK, Queues, NEW c \in Chans, NEW d \in Dirs, NEW k \in DOMAIN Line(d, c),
         \/ d = "send" /\ sendq' = [sendq EXCEPT ![c] = RemoveAt(@, k)] /\ recvq' = recvq
         \/ d = "recv" /\ recvq' = [recvq EXCEPT ![c] = RemoveAt(@, k)] /\ sendq' = sendq
  PROVE  /\ sendq' \in [Chans -> Seq(Sudog)] /\ recvq' \in [Chans -> Seq(Sudog)] /\ Queues'
         /\ \A e \in Dirs, b \in Chans : Who(e, b)' \subseteq Who(e, b)
         /\ \A s : s = Line(d, c)[k] => s \notin Who(d, c)'
         /\ \A e \in Dirs, b \in Chans : \A t \in Who(e, b) : t \in Who(e, b)' \/ t = Line(d, c)[k]
<1> PICK q : q = Line(d, c)  OBVIOUS
<1> DEFINE r == RemoveAt(q, k)
<1>1. q \in Seq(Sudog) /\ Once(q) /\ k \in DOMAIN q  BY WhoFacts DEF Queues, Line
<1>2. r \in Seq(Sudog) /\ Once(r) /\ Range(r) = Range(q) \ {q[k]}
  BY <1>1, QueueRemove
<1> HIDE DEF r
<1>3. CASE d = "send" /\ sendq' = [sendq EXCEPT ![c] = RemoveAt(@, k)] /\ recvq' = recvq
  <2>1. q = sendq[c] /\ sendq \in [Chans -> Seq(Sudog)] /\ recvq \in [Chans -> Seq(Sudog)]
    BY <1>3 DEF Line, TypeOK
  <2>2. /\ sendq' \in [Chans -> Seq(Sudog)] /\ sendq'[c] = r
        /\ \A b \in Chans : b # c => sendq'[b] = sendq[b]
    BY <1>2, <1>3, <2>1 DEF r
  <2>3. Queues'  BY <1>2, <1>3, <2>2 DEF Queues
  <2>4. \A b \in Chans : Who("recv", b)' = Who("recv", b)  BY <1>3 DEF Who, Line
  <2>5. \A b \in Chans : b # c => Who("send", b)' = Who("send", b)  BY <2>2 DEF Who, Line
  <2>6. Who("send", c)' = Who("send", c) \ {q[k]}
    <3>1. Who("send", c) = Range(q)  BY <2>1 DEF Who, Line, Range
    <3>2. Who("send", c)' = Range(r)  BY <2>2 DEF Who, Line, Range
    <3> QED  BY <1>2, <3>1, <3>2
  <2> QED  BY <1>3, <2>1, <2>2, <2>3, <2>4, <2>5, <2>6 DEF Dirs
<1>4. CASE d = "recv" /\ recvq' = [recvq EXCEPT ![c] = RemoveAt(@, k)] /\ sendq' = sendq
  <2>1. q = recvq[c] /\ sendq \in [Chans -> Seq(Sudog)] /\ recvq \in [Chans -> Seq(Sudog)]
    BY <1>4 DEF Line, TypeOK
  <2>2. /\ recvq' \in [Chans -> Seq(Sudog)] /\ recvq'[c] = r
        /\ \A b \in Chans : b # c => recvq'[b] = recvq[b]
    BY <1>2, <1>4, <2>1 DEF r
  <2>3. Queues'  BY <1>2, <1>4, <2>2 DEF Queues
  <2>4. \A b \in Chans : Who("send", b)' = Who("send", b)  BY <1>4 DEF Who, Line
  <2>5. \A b \in Chans : b # c => Who("recv", b)' = Who("recv", b)  BY <2>2 DEF Who, Line
  <2>6. Who("recv", c)' = Who("recv", c) \ {q[k]}
    <3>1. Who("recv", c) = Range(q)  BY <2>1 DEF Who, Line, Range
    <3>2. Who("recv", c)' = Range(r)  BY <2>2 DEF Who, Line, Range
    <3> QED  BY <1>2, <3>1, <3>2
  <2> QED  BY <1>4, <2>1, <2>2, <2>3, <2>4, <2>5, <2>6 DEF Dirs
<1> QED  BY <1>3, <1>4

\* What a step of g does to channel c, whose lock it has, besides claiming s: the buffer
\* of c may have turned over.
Turns(g, s, c) ==
    /\ Good(g)' /\ (\A b \in Chans : lock'[b] = g <=> Holds(g, b)')
    /\ UNCHANGED <<lock, closed, op>> /\ lock[c] = g /\ (\A b \in Chans : b # c => buf'[b] = buf[b])
    /\ Len(buf'[c]) = Len(buf[c]) /\ (buf[c] = << >> => buf'[c] = << >>)
    /\ pc'[g] # "register" /\ pc'[s[1]] # "register"
    /\ \A x \in G : pc[x] = "closing" => pc'[x] = "closing"

\* Such a step keeps the invariant.
LEMMA ClaimStep ==
  ASSUME Inv, TypeOK', Queues', NoInternalPanic', NEW g \in G, NEW c \in Chans, NEW s, Awoken(g, s),
         Turns(g, s, c)
  PROVE  Inv'
<1> SUFFICES ASSUME Good(g)', \A b \in Chans : lock'[b] = g <=> Holds(g, b)',
                    UNCHANGED <<lock, closed, op>>, lock[c] = g,
                    \A b \in Chans : b # c => buf'[b] = buf[b],
                    Len(buf'[c]) = Len(buf[c]), buf[c] = << >> => buf'[c] = << >>,
                    pc'[g] # "register", pc'[s[1]] # "register",
                    \A x \in G : pc[x] = "closing" => pc'[x] = "closing"
             PROVE  Inv'
  BY DEF Turns
<1> PICK h \in G : h = s[1]  BY DEF Awoken
<1>h. Quiet(g, h) /\ Good(h)' /\ pc'[h] # "register" /\ \A b \in Chans : lock'[b] = h <=> Holds(h, b)'
  <2>1. Good(s[1])' /\ \A b \in Chans : lock'[b] = s[1] <=> Holds(s[1], b)'  BY DEF Awoken
  <2>2. Good(h)' /\ \A b \in Chans : lock'[b] = h <=> Holds(h, b)'  BY <2>1
  <2> QED  BY <2>2 DEF Awoken
<1>0. TypeOK /\ Framed /\ Registering /\ Meeting /\ Locked  BY DEF Inv
<1>1. \A d \in Dirs, b \in Chans : LiveIn(d, b)' \subseteq LiveIn(d, b)  BY <1>0, <1>h, QuietLive
<1>2. Meeting'
  <2>1. \A b \in Chans : closed'[b] = closed[b]  OBVIOUS
  <2>2. \A b \in Chans : Len(buf'[b]) = Len(buf[b]) /\ (buf[b] = << >> => buf'[b] = << >>)  OBVIOUS
  <2>3. \A x \in G : pc[x] = "closing" => pc'[x] = "closing" /\ op'[x] = op[x]  OBVIOUS
  <2> QED  BY <1>0, <1>1, <2>1, <2>2, <2>3, MeetKept
<1>3. Registering'
  <2> SUFFICES ASSUME NEW x \in G, pc'[x] = "register" PROVE Blocked(x)'  BY DEF Registering
  <2>1. x # g /\ x # h /\ op'[x] = op[x]  BY <1>h
  <2>2. pc[x] = "register"  BY <1>h, <2>1 DEF Quiet, Same
  <2>3. locks(op[x]) \subseteq Chans  BY Basics
  <2>4. \A b \in locks(op[x]) : lock[b] = x  BY <1>0, <2>2, <2>3 DEF Locked, Holds
  <2>5. \A b \in locks(op[x]) : closed'[b] = closed[b] /\ buf'[b] = buf[b]  BY <2>1, <2>3, <2>4
  <2> QED  BY <1>0, <1>1, <2>1, <2>2, <2>5, BlockedKept
<1> QED  BY <1>h, <1>2, <1>3, Combine

\* A goroutine that polls holds the lock of every channel of its operation.
LEMMA PollFacts ==
  ASSUME Inv, NEW g \in G, Holding(g), NEW i \in DOMAIN op[g].cases, case(g, i).c # Nil
  PROVE  /\ case(g, i).c \in Chans /\ lock[case(g, i).c] = g /\ pc[g] = "lock" /\ fatal = "none"
         /\ i \in Nat /\ sd[g][i] \in [v : Val, ok : BOOLEAN]
         /\ case(g, i).dir = "send" => sd[g][i].v # None
<1>0. /\ TypeOK /\ Frame(g) /\ op[g] \in Op /\ ValuesOf(g) /\ \A c \in Chans : lock[c] = g <=> Holds(g, c)
  BY Basics
<1>1. pc[g] = "lock" /\ todo[g] = {} /\ fatal = "none"  BY DEF Holding
<1>2. case(g, i).c \in Chans /\ case(g, i).c \in locks(op[g]) /\ i \in Nat  BY <1>0, OpFacts DEF case
<1>3. lock[case(g, i).c] = g  BY <1>0, <1>1, <1>2 DEF Holds
<1>4. sd[g] \in Seq([v : Val, ok : BOOLEAN]) /\ i \in DOMAIN sd[g]  BY <1>0 DEF TypeOK, Frame
<1>5. sd[g][i] \in [v : Val, ok : BOOLEAN]  BY <1>4, InSeq
<1> QED  BY <1>0, <1>1, <1>2, <1>3, <1>5 DEF ValuesOf

\* A receiver meets a parked sender.
LEMMA RecvFromSenderKeeps ==
  ASSUME Inv, NEW g \in G, Holding(g), NEW i \in DOMAIN op[g].cases,
         case(g, i).c # Nil, case(g, i).dir = "recv", RecvFromSender(g, i)
  PROVE  Inv'
<1> PICK c : c = case(g, i).c  OBVIOUS
<1>0. /\ TypeOK /\ Queues /\ Meeting /\ NoInternalPanic /\ locks(op[g]) \subseteq Chans /\ c \in Chans
      /\ lock[c] = g /\ pc[g] = "lock" /\ i \in Nat /\ "send" \in Dirs
  BY Basics, PollFacts DEF Inv, Dirs
<1>1. PICK k \in DOMAIN sendq[c] :
         LET s == sendq[c][k]
             v == sd[s[1]][s[2]].v
         IN  /\ FirstLive(sendq[c], k)
             /\ sendq' = [sendq EXCEPT ![c] = RemoveAt(@, k)]
             /\ Wake(s, None, TRUE)
             /\ pc' = [pc EXCEPT ![g] = "unlock", ![s[1]] = "woken"]
             /\ Fired(g, i, Received(c, v), TRUE)
             /\ buf' = [buf EXCEPT ![c] = Rotated(c, v)]
             /\ fatal' = IF v = None THEN "recv: sender sudog empty"
                         ELSE IF Cap[c] > 0 /\ buf[c] = << >>
                         THEN "recv: buf empty with parked sender"
                         ELSE Readied(s)
  BY DEF RecvFromSender
<1> PICK s : s = sendq[c][k]  OBVIOUS
<1> PICK v : v = sd[s[1]][s[2]].v  OBVIOUS
<1>2. /\ sendq' = [sendq EXCEPT ![c] = RemoveAt(@, k)] /\ recvq' = recvq
      /\ Wake(s, None, TRUE) /\ pc' = [pc EXCEPT ![g] = "unlock", ![s[1]] = "woken"]
      /\ buf' = [buf EXCEPT ![c] = Rotated(c, v)]
      /\ fatal' = IF v = None THEN "recv: sender sudog empty"
                  ELSE IF Cap[c] > 0 /\ buf[c] = << >>
                  THEN "recv: buf empty with parked sender"
                  ELSE Readied(s)
  BY <1>1 DEF RecvFromSender
<1>3. /\ res' = [res EXCEPT ![g] = [i |-> i, v |-> Received(c, v), ok |-> TRUE]]
      /\ todo' = [todo EXCEPT ![g] = locks(op[g])]
      /\ UNCHANGED <<closed, lock, op, ops, next, winners, commit>>
  BY <1>1 DEF Fired
<1>4. s \in LiveIn("send", c)  BY <1>0, <1>1 DEF FirstLive, LiveIn, Who, Line
<1>5. /\ s \in Who("send", c) /\ s[1] \in G /\ s = <<s[1], s[2]>> /\ s[1] # g
      /\ pc[s[1]] = "parked" /\ CaseIs(s[1], s[2], "send", c) /\ s[2] \in DOMAIN sd[s[1]]
  BY <1>0, <1>4, ClaimFacts
<1>6. v \in Val /\ v # None
  <2>1. ValuesOf(s[1])  BY <1>5, Basics
  <2>2. s[2] \in DOMAIN op[s[1]].cases /\ <<s[1], s[2]>> \in Who("send", c)  BY <1>5 DEF CaseIs
  <2>3. sd[s[1]][s[2]].v # None  BY <1>0, <1>5, <2>1, <2>2 DEF ValuesOf
  <2>4. sd[s[1]] \in Seq([v : Val, ok : BOOLEAN])  BY <1>0, <1>5 DEF TypeOK
  <2>5. sd[s[1]][s[2]] \in [v : Val, ok : BOOLEAN]  BY <1>5, <2>4, InSeq
  <2> QED  BY <2>3, <2>5
<1>7. Len(buf[c]) = Cap[c] /\ buf[c] \in Seq(Val) /\ Cap[c] \in Nat
  BY <1>0, <1>4, ConstAssumption DEF Meeting, Meet, TypeOK
<1>8. ~(Cap[c] > 0 /\ buf[c] = << >>)  BY <1>7
<1>9. fatal' = "none"  BY <1>2, <1>5, <1>6, <1>8 DEF Readied
<1>10. /\ Rotated(c, v) \in Seq(Val) /\ Len(Rotated(c, v)) = Len(buf[c])
       /\ (buf[c] = << >> => Rotated(c, v) = << >>)
  BY <1>6, <1>7 DEF Rotated
<1>11. Received(c, v) \in Val
  <2>1. buf[c] # << >> => Head(buf[c]) \in Val  BY <1>7
  <2>2. None \in Val  BY DEF Val
  <2> QED  BY <1>6, <2>1, <2>2 DEF Received
<1>12. /\ buf' \in [Chans -> Seq(Val)] /\ buf'[c] = Rotated(c, v)
       /\ \A b \in Chans : b # c => buf'[b] = buf[b]
  BY <1>0, <1>2, <1>10 DEF TypeOK
<1>13. /\ pc' \in [G -> PCs] /\ pc'[g] = "unlock" /\ pc'[s[1]] = "woken"
       /\ \A x \in G : x # g /\ x # s[1] => pc'[x] = pc[x]
  BY <1>0, <1>2, <1>5 DEF TypeOK, PCs
<1>14. /\ todo' \in [G -> SUBSET Chans] /\ \A x \in G : x # g => todo'[x] = todo[x]
  BY <1>0, <1>3 DEF TypeOK
<1>q. /\ sendq' \in [Chans -> Seq(Sudog)] /\ recvq' \in [Chans -> Seq(Sudog)] /\ Queues'
      /\ \A e \in Dirs, b \in Chans : Who(e, b)' \subseteq Who(e, b)
      /\ s \notin Who("send", c)'
  BY <1>0, <1>2, Unlinked DEF Line
<1>c. Awoken(g, s)
  <2>1. Claims(g, c, "send", s, None, TRUE)
    BY <1>0, <1>2, <1>3, <1>4, <1>13, <1>14, <1>q DEF Claims, Val
  <2> QED  BY <1>0, <2>1, ClaimKeeps
<1>15. /\ sd' \in [G -> Seq([v : Val, ok : BOOLEAN])] /\ done' \in [G -> BOOLEAN]
       /\ sd'[g] = sd[g] /\ done'[g] = done[g]
  BY <1>c DEF Awoken
<1>t. TypeOK'
  <2>1. [i |-> i, v |-> Received(c, v), ok |-> TRUE] \in Result  BY <1>0, <1>11 DEF Result
  <2>2. res' \in [G -> Result]  BY <1>0, <1>3, <2>1 DEF TypeOK
  <2>3. fatal' \in Fatal  BY <1>9 DEF Fatal
  <2>4. \A b \in Chans : Len(buf'[b]) <= Cap[b]  BY <1>0, <1>10, <1>12 DEF TypeOK
  <2> QED  BY <1>0, <1>3, <1>12, <1>13, <1>14, <1>15, <1>q, <2>2, <2>3, <2>4 DEF TypeOK, PCs
<1>f. Good(g)' /\ \A b \in Chans : lock'[b] = g <=> Holds(g, b)'
  BY <1>3, <1>13, <1>15, <1>q, Fires
<1>p. NoInternalPanic'  BY <1>9 DEF NoInternalPanic
<1>x. \A x \in G : pc[x] = "closing" => pc'[x] = "closing"  BY <1>0, <1>5, <1>13
<1>16. Turns(g, s, c)  BY <1>0, <1>3, <1>10, <1>12, <1>13, <1>f, <1>x DEF Turns
<1> QED  BY <1>0, <1>16, <1>c, <1>p, <1>q, <1>t, ClaimStep

\* A sender meets a parked receiver.
LEMMA SendToReceiverKeeps ==
  ASSUME Inv, NEW g \in G, Holding(g), NEW i \in DOMAIN op[g].cases,
         case(g, i).c # Nil, case(g, i).dir = "send", SendToReceiver(g, i)
  PROVE  Inv'
<1> PICK c : c = case(g, i).c  OBVIOUS
<1> PICK v : v = sd[g][i].v  OBVIOUS
<1>0. /\ TypeOK /\ Queues /\ NoInternalPanic /\ locks(op[g]) \subseteq Chans /\ c \in Chans
      /\ lock[c] = g /\ pc[g] = "lock" /\ i \in Nat /\ "recv" \in Dirs
  BY Basics, PollFacts DEF Inv, Dirs
<1>1. v \in Val /\ v # None  BY PollFacts
<1>2. PICK k \in DOMAIN recvq[c] :
         LET s == recvq[c][k]
         IN  /\ FirstLive(recvq[c], k)
             /\ recvq' = [recvq EXCEPT ![c] = RemoveAt(@, k)]
             /\ Wake(s, sd[g][i].v, TRUE)
             /\ pc' = [pc EXCEPT ![g] = "unlock", ![s[1]] = "woken"]
             /\ fatal' = Readied(s)
  BY DEF SendToReceiver
<1> PICK s : s = recvq[c][k]  OBVIOUS
<1>3. /\ recvq' = [recvq EXCEPT ![c] = RemoveAt(@, k)] /\ sendq' = sendq /\ buf' = buf
      /\ Wake(s, v, TRUE) /\ pc' = [pc EXCEPT ![g] = "unlock", ![s[1]] = "woken"]
      /\ fatal' = Readied(s)
  BY <1>2 DEF SendToReceiver
<1>4. /\ res' = [res EXCEPT ![g] = [i |-> i, v |-> None, ok |-> TRUE]]
      /\ todo' = [todo EXCEPT ![g] = locks(op[g])]
      /\ UNCHANGED <<closed, lock, op, ops, next, winners, commit>>
  BY DEF Fired, SendToReceiver
<1>5. s \in LiveIn("recv", c)  BY <1>0, <1>2 DEF FirstLive, LiveIn, Who, Line
<1>6. s[1] \in G /\ s[1] # g /\ pc[s[1]] = "parked"  BY <1>0, <1>5, ClaimFacts
<1>7. fatal' = "none"  BY <1>3, <1>6 DEF Readied
<1>8. /\ pc' \in [G -> PCs] /\ pc'[g] = "unlock" /\ pc'[s[1]] = "woken"
      /\ \A x \in G : x # g /\ x # s[1] => pc'[x] = pc[x]
  BY <1>0, <1>3, <1>6 DEF TypeOK, PCs
<1>9. /\ todo' \in [G -> SUBSET Chans] /\ \A x \in G : x # g => todo'[x] = todo[x]
  BY <1>0, <1>4 DEF TypeOK
<1>q. /\ sendq' \in [Chans -> Seq(Sudog)] /\ recvq' \in [Chans -> Seq(Sudog)] /\ Queues'
      /\ \A e \in Dirs, b \in Chans : Who(e, b)' \subseteq Who(e, b)
      /\ s \notin Who("recv", c)'
  BY <1>0, <1>3, Unlinked DEF Line
<1>c. Awoken(g, s)
  <2>1. Claims(g, c, "recv", s, v, TRUE)
    BY <1>0, <1>1, <1>3, <1>4, <1>5, <1>8, <1>9, <1>q DEF Claims
  <2> QED  BY <1>0, <2>1, ClaimKeeps
<1>10. /\ sd' \in [G -> Seq([v : Val, ok : BOOLEAN])] /\ done' \in [G -> BOOLEAN]
       /\ sd'[g] = sd[g] /\ done'[g] = done[g]
  BY <1>c DEF Awoken
<1>t. TypeOK'
  <2>1. [i |-> i, v |-> None, ok |-> TRUE] \in Result  BY <1>0 DEF Result, Val
  <2>2. res' \in [G -> Result]  BY <1>0, <1>4, <2>1 DEF TypeOK
  <2>3. fatal' \in Fatal  BY <1>7 DEF Fatal
  <2> QED  BY <1>0, <1>3, <1>4, <1>8, <1>9, <1>10, <1>q, <2>2, <2>3 DEF TypeOK, PCs
<1>f. Good(g)' /\ \A b \in Chans : lock'[b] = g <=> Holds(g, b)'
  BY <1>4, <1>8, <1>10, <1>q, Fires
<1>p. NoInternalPanic'  BY <1>7 DEF NoInternalPanic
<1>x. \A x \in G : pc[x] = "closing" => pc'[x] = "closing"  BY <1>0, <1>6, <1>8
<1>11. Turns(g, s, c)  BY <1>0, <1>3, <1>4, <1>8, <1>f, <1>x DEF Turns
<1> QED  BY <1>0, <1>11, <1>c, <1>p, <1>q, <1>t, ClaimStep

\* Close wakes one waiter and goes on.
LEMMA CloseWakesOne ==
  ASSUME Inv, NEW g \in G, pc[g] = "closing", NEW c \in Chans, c = case(g, 1).c, NEW d \in Dirs,
         NEW k \in DOMAIN Line(d, c), NEW s, s = Line(d, c)[k], Live(s),
         NEW v \in Val, Wake(s, v, FALSE),
         \/ d = "send" /\ sendq' = [sendq EXCEPT ![c] = RemoveAt(@, k)] /\ recvq' = recvq
         \/ d = "recv" /\ recvq' = [recvq EXCEPT ![c] = RemoveAt(@, k)] /\ sendq' = sendq,
         pc' = [pc EXCEPT ![s[1]] = "woken"], fatal' = Readied(s),
         UNCHANGED <<closed, buf, lock, op, ops, todo, next, winners, commit, res>>
  PROVE  Inv'
<1>0. /\ TypeOK /\ Frame(g) /\ Leaving(g) /\ ClaimedBy(g) /\ ValuesOf(g) /\ Queues /\ NoInternalPanic
      /\ op[g] \in Op /\ \A b \in Chans : lock[b] = g <=> Holds(g, b)
  BY Basics DEF Inv
<1>1. op[g] \in Menu[g] /\ op[g].kind = "close" /\ c # Nil  BY <1>0 DEF Frame
<1>2. DOMAIN op[g].cases = {1} /\ locks(op[g]) = {c}  BY <1>1, MenuFacts DEF case
<1>3. lock[c] = g  BY <1>0, <1>2 DEF Holds
<1>4. s \in LiveIn(d, c)  BY DEF LiveIn, Who
<1>5. s[1] \in G /\ s[1] # g /\ pc[s[1]] = "parked"  BY <1>3, <1>4, ClaimFacts
<1>6. fatal' = "none"  BY <1>5 DEF Readied
<1>7. /\ pc' \in [G -> PCs] /\ pc'[g] = "closing" /\ pc'[s[1]] = "woken"
      /\ \A x \in G : x # g /\ x # s[1] => pc'[x] = pc[x]
  BY <1>0, <1>5 DEF TypeOK, PCs
<1>q. /\ sendq' \in [Chans -> Seq(Sudog)] /\ recvq' \in [Chans -> Seq(Sudog)] /\ Queues'
      /\ \A e \in Dirs, b \in Chans : Who(e, b)' \subseteq Who(e, b)
      /\ s \notin Who(d, c)'
  BY <1>0, Unlinked
<1>c. Awoken(g, s)
  <2>1. Claims(g, c, d, s, v, FALSE)  BY <1>3, <1>4, <1>7, <1>q DEF Claims
  <2> QED  BY <2>1, ClaimKeeps
<1>8. /\ sd' \in [G -> Seq([v : Val, ok : BOOLEAN])] /\ done' \in [G -> BOOLEAN]
      /\ sd'[g] = sd[g] /\ done'[g] = done[g]
  BY <1>c DEF Awoken
<1>t. TypeOK'
  <2>1. fatal' \in Fatal  BY <1>6 DEF Fatal
  <2> QED  BY <1>0, <1>7, <1>8, <1>q, <2>1 DEF TypeOK, PCs
<1>s. Same(g)  BY <1>7, <1>8 DEF Same
<1>f. Good(g)' /\ \A b \in Chans : lock'[b] = g <=> Holds(g, b)'
  <2>1. /\ Frame(g)' /\ Leaving(g)' /\ \A b \in Chans : Holds(g, b)' <=> Holds(g, b)
    BY <1>0, <1>s, Others
  <2>2. Waits(g)  BY <1>s DEF Same, Waits
  <2>3. ClaimedBy(g)' /\ ValuesOf(g)'  BY <1>0, <1>q, <2>2, OthersWait
  <2> QED  BY <1>0, <2>1, <2>3 DEF Good
<1>p. NoInternalPanic'  BY <1>6 DEF NoInternalPanic
<1>x. \A x \in G : pc[x] = "closing" => pc'[x] = "closing"  BY <1>5, <1>7
<1>9. Turns(g, s, c)  BY <1>3, <1>7, <1>f, <1>x DEF Turns
<1> QED  BY <1>9, <1>c, <1>p, <1>q, <1>t, ClaimStep

\* Nobody is left to wake: Close goes on to release the lock.
LEMMA CloseEnds ==
  ASSUME Inv, NEW g \in G, pc[g] = "closing", NEW c \in Chans, c = case(g, 1).c,
         ~Claimable(recvq[c]), ~Claimable(sendq[c]),
         todo' = [todo EXCEPT ![g] = {c}], pc' = [pc EXCEPT ![g] = "unlock"],
         res' = [res EXCEPT ![g] = [i |-> 1, v |-> None, ok |-> TRUE]],
         UNCHANGED <<closed, buf, sendq, recvq, lock, op, ops, next, sd, done, winners, commit, fatal>>
  PROVE  Inv'
<1>0. /\ TypeOK /\ Frame(g) /\ Leaving(g) /\ ClaimedBy(g) /\ ValuesOf(g) /\ Queues /\ NoInternalPanic
      /\ op[g] \in Op /\ Framed /\ Registering /\ Meeting
      /\ \A b \in Chans : lock[b] = g <=> Holds(g, b)
  BY Basics DEF Inv
<1>1. op[g] \in Menu[g] /\ op[g].kind = "close" /\ c # Nil  BY <1>0 DEF Frame
<1>2. DOMAIN op[g].cases = {1} /\ locks(op[g]) = {c}  BY <1>1, MenuFacts DEF case
<1>t. TypeOK'
  <2>1. [i |-> 1, v |-> None, ok |-> TRUE] \in Result  BY DEF Result, Val
  <2>2. res' \in [G -> Result] /\ todo' \in [G -> SUBSET Chans] /\ pc' \in [G -> PCs]
    BY <1>0, <2>1 DEF TypeOK, PCs
  <2> QED  BY <1>0, <2>2 DEF TypeOK, PCs
<1>a. pc'[g] = "unlock" /\ todo'[g] = {c} /\ \A x \in G : x # g => Same(x)  BY <1>0 DEF TypeOK, Same
<1>w. \A d, b : Who(d, b)' = Who(d, b) /\ LiveIn(d, b)' = LiveIn(d, b)  BY DEF Who, Line, LiveIn, Live
<1>m. \A d \in Dirs, b \in Chans : \A s \in Who(d, b) : s[1] # g  BY NotQueued
<1>f. Frame(g)'  BY <1>0, <1>1, <1>a DEF Frame, case
<1>c. commit[g] = {}  BY <1>0 DEF Leaving
<1>g. Leaving(g)'  BY <1>c DEF Leaving
<1>v. ClaimedBy(g)' /\ ValuesOf(g)'
  <2>1. Waits(g)  BY <1>a DEF Waits
  <2> QED  BY <1>0, <1>w, <2>1, OthersWait
<1>l. \A b \in Chans : /\ lock'[b] = g <=> Holds(g, b)'
                       /\ \A x \in G : x # g => (lock'[b] = x <=> lock[b] = x)
  BY <1>0, <1>2, <1>a, <1>c DEF Holds
<1>q. Quiet(g, g)
  <2>1. \A d \in Dirs, b \in Chans : Who(d, b)' \subseteq Who(d, b) /\ \A s \in Who(d, b)' : s[1] \notin {g, g}
    BY <1>w, <1>m
  <2> QED  BY <1>a, <2>1 DEF Quiet
<1>r. Registering'
  <2> SUFFICES ASSUME NEW x \in G, pc'[x] = "register" PROVE Blocked(x)'  BY DEF Registering
  <2>1. pc[x] = "register" /\ op'[x] = op[x]  BY <1>a DEF Same
  <2> QED  BY <1>0, <1>w, <2>1, BlockedKept
<1>d. Meeting'
  <2> SUFFICES ASSUME NEW b \in Chans PROVE Meet(b)'  BY DEF Meeting
  <2>0. Meet(b)  BY <1>0 DEF Meeting
  <2>1. closed[b] => \A d \in Dirs : LiveIn(d, b) # {} => \E h \in G : pc'[h] = "closing" /\ case(h, 1).c = b
    <3> SUFFICES ASSUME closed[b], NEW d \in Dirs, LiveIn(d, b) # {}
                 PROVE  \E h \in G : pc'[h] = "closing" /\ case(h, 1).c = b
      OBVIOUS
    <3>1. PICK h \in G : pc[h] = "closing" /\ case(h, 1).c = b  BY <2>0 DEF Meet
    <3>2. b # c  BY ClaimLive DEF Dirs
    <3>3. h # g  BY <3>1, <3>2
    <3> QED  BY <1>a, <3>1, <3>3 DEF Same
  <2> QED  BY <1>w, <2>0, <2>1 DEF Meet, case
<1>p. NoInternalPanic'  BY <1>0 DEF NoInternalPanic
<1>y. Queues'  BY <1>0 DEF Queues
<1> QED  BY <1>t, <1>f, <1>g, <1>v, <1>l, <1>q, <1>r, <1>d, <1>p, <1>y, Combine DEF Good

\* Close wakes its receivers, then its senders, then ends.
LEMMA CloseWakeKeeps == ASSUME Inv, NEW g \in G, CloseWake(g) PROVE Inv'
<1>0. TypeOK /\ Frame(g) /\ op[g] \in Op /\ pc[g] = "closing"  BY Basics DEF CloseWake
<1> PICK c : c = case(g, 1).c  OBVIOUS
<1>1. c \in Chans
  <2>1. op[g] \in Menu[g] /\ op[g].kind = "close" /\ c # Nil  BY <1>0 DEF Frame
  <2>2. 1 \in DOMAIN op[g].cases  BY <2>1, MenuFacts
  <2> QED  BY <1>0, <2>1, <2>2, OpFacts DEF case
<1>2. UNCHANGED <<closed, buf, lock, op, ops, next, winners, commit>>  BY DEF CloseWake
<1>3. ASSUME NEW k \in DOMAIN recvq[c], FirstLive(recvq[c], k),
             recvq' = [recvq EXCEPT ![c] = RemoveAt(@, k)], Wake(recvq[c][k], None, FALSE),
             pc' = [pc EXCEPT ![recvq[c][k][1]] = "woken"], fatal' = Readied(recvq[c][k]),
             UNCHANGED <<sendq, todo, res>>
      PROVE  Inv'
  <2> PICK s : s = recvq[c][k]  OBVIOUS
  <2>1. /\ s = Line("recv", c)[k] /\ k \in DOMAIN Line("recv", c) /\ Live(s) /\ Wake(s, None, FALSE)
        /\ pc' = [pc EXCEPT ![s[1]] = "woken"] /\ fatal' = Readied(s) /\ "recv" \in Dirs /\ None \in Val
    BY <1>3 DEF Line, FirstLive, Dirs, Val
  <2> QED  BY <1>0, <1>1, <1>2, <1>3, <2>1, CloseWakesOne
<1>4. ASSUME NEW k \in DOMAIN sendq[c], FirstLive(sendq[c], k),
             sendq' = [sendq EXCEPT ![c] = RemoveAt(@, k)],
             Wake(sendq[c][k], sd[sendq[c][k][1]][sendq[c][k][2]].v, FALSE),
             pc' = [pc EXCEPT ![sendq[c][k][1]] = "woken"], fatal' = Readied(sendq[c][k]),
             UNCHANGED <<recvq, todo, res>>
      PROVE  Inv'
  <2> PICK s : s = sendq[c][k]  OBVIOUS
  <2> PICK v : v = sd[s[1]][s[2]].v  OBVIOUS
  <2>1. /\ s = Line("send", c)[k] /\ k \in DOMAIN Line("send", c) /\ Live(s) /\ Wake(s, v, FALSE)
        /\ pc' = [pc EXCEPT ![s[1]] = "woken"] /\ fatal' = Readied(s) /\ "send" \in Dirs
    BY <1>4 DEF Line, FirstLive, Dirs
  <2>2. s \in Who("send", c)  BY <2>1 DEF Who
  <2>3. InFrame(s[1], s[2], "send", c) /\ s[1] \in G
    BY <1>0, <1>1, <2>1, <2>2, WhoFacts DEF Inv, Framed
  <2>4. sd[s[1]] \in Seq([v : Val, ok : BOOLEAN]) /\ s[2] \in DOMAIN sd[s[1]]
    <3>1. Frame(s[1])  BY <2>3, Basics
    <3> QED  BY <1>0, <2>3, <3>1 DEF TypeOK, Frame, InFrame
  <2>5. sd[s[1]][s[2]] \in [v : Val, ok : BOOLEAN]  BY <2>4, InSeq
  <2>6. v \in Val  BY <2>5
  <2> QED  BY <1>0, <1>1, <1>2, <1>4, <2>1, <2>6, CloseWakesOne
<1>5. ASSUME ~Claimable(recvq[c]), ~Claimable(sendq[c]),
             todo' = [todo EXCEPT ![g] = {c}], pc' = [pc EXCEPT ![g] = "unlock"],
             res' = [res EXCEPT ![g] = [i |-> 1, v |-> None, ok |-> TRUE]],
             UNCHANGED <<sendq, recvq, sd, done, fatal>>
      PROVE  Inv'
  BY <1>0, <1>1, <1>2, <1>5, CloseEnds
<1> QED  BY <1>3, <1>4, <1>5 DEF CloseWake

-----------------------------------------------------------------------------
(* Steps that move a value through the buffer, and Close.                  *)

\* A buffer changes only while nobody can be claimed on its channel.
LEMMA BufferMoves ==
  ASSUME Inv, NEW g \in G, Holding(g), NEW i \in Nat, NEW r \in Val, Fired(g, i, r, TRUE),
         NEW c \in Chans, lock[c] = g, LiveIn("send", c) = {}, LiveIn("recv", c) = {},
         NEW q \in Seq(Val), Len(q) <= Cap[c], buf' = [buf EXCEPT ![c] = q],
         pc' = [pc EXCEPT ![g] = "unlock"], UNCHANGED <<sendq, recvq, sd, done, fatal>>
  PROVE  Inv'
<1>0. /\ TypeOK /\ NoInternalPanic /\ locks(op[g]) \subseteq Chans /\ Queues /\ Framed /\ Locked
      /\ Registering /\ Meeting
  BY Basics DEF Inv
<1>1. /\ res' = [res EXCEPT ![g] = [i |-> i, v |-> r, ok |-> TRUE]]
      /\ todo' = [todo EXCEPT ![g] = locks(op[g])]
      /\ UNCHANGED <<closed, lock, op, ops, next, winners, commit>>
  BY DEF Fired
<1>2. pc[g] = "lock"  BY DEF Holding
<1>b. buf' \in [Chans -> Seq(Val)] /\ buf'[c] = q /\ \A b \in Chans : b # c => buf'[b] = buf[b]
  BY <1>0 DEF TypeOK
<1>t. TypeOK'
  <2>1. [i |-> i, v |-> r, ok |-> TRUE] \in Result  BY DEF Result
  <2>2. res' \in [G -> Result] /\ todo' \in [G -> SUBSET Chans] /\ pc' \in [G -> PCs]
    BY <1>0, <1>1, <2>1 DEF TypeOK, PCs
  <2>3. \A b \in Chans : Len(buf'[b]) <= Cap[b]  BY <1>0, <1>b DEF TypeOK
  <2> QED  BY <1>0, <1>1, <1>b, <2>2, <2>3 DEF TypeOK, PCs
<1>a. pc'[g] = "unlock" /\ \A x \in G : x # g => Same(x)
  BY <1>0, <1>1 DEF TypeOK, Same
<1>w. \A d, b : Who(d, b)' = Who(d, b) /\ LiveIn(d, b)' = LiveIn(d, b)
  BY <1>1 DEF Who, Line, LiveIn, Live
<1>f. Good(g)' /\ \A b \in Chans : lock'[b] = g <=> Holds(g, b)'  BY <1>1, <1>a, <1>w, Fires
<1>l. \A b \in Chans : /\ lock'[b] = g <=> Holds(g, b)'
                       /\ \A x \in G : x # g => (lock'[b] = x <=> lock[b] = x)
  BY <1>1, <1>f
<1>q. Quiet(g, g)
  <2>1. \A d \in Dirs, b \in Chans : \A s \in Who(d, b) : s[1] # g  BY <1>2, NotQueued
  <2>2. \A d \in Dirs, b \in Chans : Who(d, b)' \subseteq Who(d, b) /\ \A s \in Who(d, b)' : s[1] \notin {g, g}
    BY <1>w, <2>1
  <2> QED  BY <1>a, <2>2 DEF Quiet
<1>r. Registering'
  <2> SUFFICES ASSUME NEW x \in G, pc'[x] = "register" PROVE Blocked(x)'  BY DEF Registering
  <2>1. x # g /\ pc[x] = "register" /\ op'[x] = op[x]  BY <1>a DEF Same
  <2>2. locks(op[x]) \subseteq Chans  BY Basics
  <2>3. \A b \in locks(op[x]) : lock[b] = x  BY <1>0, <2>1, <2>2 DEF Locked, Holds
  <2>4. \A b \in locks(op[x]) : closed'[b] = closed[b] /\ buf'[b] = buf[b]
    BY <1>1, <1>b, <2>1, <2>2, <2>3
  <2> QED  BY <1>0, <1>w, <2>1, <2>4, BlockedKept
<1>d. Meeting'
  <2> SUFFICES ASSUME NEW b \in Chans PROVE Meet(b)'  BY DEF Meeting
  <2>0. Meet(b)  BY <1>0 DEF Meeting
  <2>1. \A x \in G : pc[x] = "closing" => pc'[x] = "closing"  BY <1>2, <1>a DEF Same
  <2>2. CASE b = c
    <3>1. LiveIn("send", b)' = {} /\ LiveIn("recv", b)' = {}  BY <1>w, <2>2
    <3> QED  BY <3>1 DEF Meet, Dirs
  <2>3. CASE b # c
    <3>1. buf'[b] = buf[b] /\ closed'[b] = closed[b]  BY <1>1, <1>b, <2>3
    <3> QED  BY <1>1, <1>w, <2>0, <2>1, <3>1 DEF Meet, case
  <2> QED  BY <2>2, <2>3
<1>p. NoInternalPanic'  BY <1>0 DEF NoInternalPanic
<1>y. Queues'  BY <1>0 DEF Queues
<1> QED  BY <1>t, <1>f, <1>l, <1>q, <1>r, <1>d, <1>p, <1>y, Combine

\* A receiver takes the head of the buffer.
LEMMA RecvFromBufKeeps ==
  ASSUME Inv, NEW g \in G, Holding(g), NEW i \in DOMAIN op[g].cases,
         case(g, i).c # Nil, RecvFromBuf(g, i)
  PROVE  Inv'
<1> PICK c : c = case(g, i).c  OBVIOUS
<1>0. TypeOK /\ Meeting /\ c \in Chans /\ lock[c] = g /\ i \in Nat  BY PollFacts DEF Inv
<1>1. /\ ~Claimable(sendq[c]) /\ buf[c] # << >> /\ Fired(g, i, Head(buf[c]), TRUE)
      /\ buf' = [buf EXCEPT ![c] = Tail(@)] /\ pc' = [pc EXCEPT ![g] = "unlock"]
      /\ UNCHANGED <<sendq, recvq, sd, done, fatal>>
  BY DEF RecvFromBuf
<1> PICK r : r = Head(buf[c])  OBVIOUS
<1> PICK q : q = Tail(buf[c])  OBVIOUS
<1>2. buf[c] \in Seq(Val) /\ Len(buf[c]) <= Cap[c] /\ Cap[c] \in Nat  BY <1>0, ConstAssumption DEF TypeOK
<1>3. r \in Val /\ q \in Seq(Val) /\ Len(q) <= Cap[c]  BY <1>1, <1>2
<1>4. LiveIn("send", c) = {}  BY <1>0, <1>1, ClaimLive
<1>5. LiveIn("recv", c) = {}  BY <1>0, <1>1 DEF Meeting, Meet
<1>6. Fired(g, i, r, TRUE) /\ buf' = [buf EXCEPT ![c] = q]  BY <1>1
<1> QED  BY <1>0, <1>1, <1>3, <1>4, <1>5, <1>6, BufferMoves

\* A sender finds room in the buffer.
LEMMA SendToBufKeeps ==
  ASSUME Inv, NEW g \in G, Holding(g), NEW i \in DOMAIN op[g].cases,
         case(g, i).c # Nil, SendToBuf(g, i)
  PROVE  Inv'
<1> PICK c : c = case(g, i).c  OBVIOUS
<1>0. /\ TypeOK /\ Meeting /\ c \in Chans /\ lock[c] = g /\ i \in Nat
      /\ sd[g][i] \in [v : Val, ok : BOOLEAN]
  BY PollFacts DEF Inv
<1>1. /\ ~Claimable(recvq[c]) /\ Len(buf[c]) < Cap[c] /\ Fired(g, i, None, TRUE)
      /\ buf' = [buf EXCEPT ![c] = Append(@, sd[g][i].v)] /\ pc' = [pc EXCEPT ![g] = "unlock"]
      /\ UNCHANGED <<sendq, recvq, sd, done, fatal>>
  BY DEF SendToBuf, HasRoom
<1> PICK q : q = Append(buf[c], sd[g][i].v)  OBVIOUS
<1>2. buf[c] \in Seq(Val) /\ Cap[c] \in Nat /\ sd[g][i].v \in Val  BY <1>0, ConstAssumption DEF TypeOK
<1>3. q \in Seq(Val) /\ Len(q) <= Cap[c] /\ None \in Val  BY <1>1, <1>2 DEF Val
<1>4. LiveIn("recv", c) = {}  BY <1>0, <1>1, ClaimLive
<1>5. LiveIn("send", c) = {}
  <2>1. Len(buf[c]) # Cap[c]  BY <1>1, <1>2
  <2> QED  BY <1>0, <2>1 DEF Meeting, Meet
<1>6. buf' = [buf EXCEPT ![c] = q]  BY <1>1
<1> QED  BY <1>0, <1>1, <1>3, <1>4, <1>5, <1>6, BufferMoves

\* A case that is ready fires.
LEMMA PollKeeps == ASSUME Inv, NEW g \in G, Poll(g) PROVE Inv'
<1>0. PICK i \in DOMAIN op[g].cases :
         /\ case(g, i).c # Nil
         /\ \/ case(g, i).dir = "recv" /\ (\/ RecvClosed(g, i)
                                           \/ RecvFromSender(g, i)
                                           \/ RecvFromBuf(g, i))
            \/ case(g, i).dir = "send" /\ (\/ SendClosed(g, i)
                                           \/ SendToReceiver(g, i)
                                           \/ SendToBuf(g, i))
  BY DEF Poll
<1>1. Holding(g) /\ pc[g] = "lock" /\ i \in Nat  BY <1>0, PollFacts DEF Poll
<1>2. CASE RecvClosed(g, i)  BY <1>1, <1>2, NothingMoves DEF RecvClosed
<1>3. CASE SendClosed(g, i)
  <2>1. UNCHANGED <<closed, buf, sendq, recvq>>  BY <1>3 DEF SendClosed, chanVars
  <2>2. UNCHANGED <<op, ops, todo, next, winners, commit, res>>  BY <1>3 DEF SendClosed, gVars
  <2>3. UNCHANGED <<lock, pc, sd, done>> /\ fatal' = "send on closed channel"  BY <1>3 DEF SendClosed
  <2> QED  BY <1>1, <2>1, <2>2, <2>3, Dies
<1> QED  BY <1>0, <1>1, <1>2, <1>3, RecvFromSenderKeeps, RecvFromBufKeeps, SendToReceiverKeeps,
            SendToBufKeeps

\* Nothing is ready and there is a default.
LEMMA DefaultKeeps == ASSUME Inv, NEW g \in G, Default(g) PROVE Inv'
<1>1. 0 \in Nat /\ Holding(g) /\ Fired(g, 0, None, FALSE)  BY DEF Default
<1>2. pc' = [pc EXCEPT ![g] = "unlock"] /\ UNCHANGED <<buf, sendq, recvq, sd, done, fatal>>
  BY DEF Default
<1> QED  BY <1>1, <1>2, NothingMoves

\* Close marks its channel: from now on it owes every waiter a wakeup.
LEMMA CloseMarkKeeps == ASSUME Inv, NEW g \in G, CloseMark(g) PROVE Inv'
<1>0. /\ TypeOK /\ Frame(g) /\ Leaving(g) /\ ClaimedBy(g) /\ ValuesOf(g) /\ Queues /\ NoInternalPanic
      /\ op[g] \in Op /\ Framed /\ Registering /\ Meeting /\ Locked
      /\ \A b \in Chans : lock[b] = g <=> Holds(g, b)
  BY Basics DEF Inv
<1> PICK c : c = case(g, 1).c  OBVIOUS
<1>1. /\ Holding(g) /\ pc[g] = "lock" /\ todo[g] = {} /\ op[g].kind = "close"
      /\ UNCHANGED <<buf, sendq, recvq, lock, op, ops, todo, next, sd, done, winners, commit, res>>
  BY DEF CloseMark, Holding
<1>2. ASSUME fatal' = "close of nil or closed channel", UNCHANGED <<closed, pc>> PROVE Inv'
  BY <1>1, <1>2, Dies
<1>3. ASSUME c # Nil, closed' = [closed EXCEPT ![c] = TRUE], pc' = [pc EXCEPT ![g] = "closing"],
             UNCHANGED fatal
      PROVE  Inv'
  <2>1. DOMAIN op[g].cases = {1} /\ locks(op[g]) = {c} /\ c \in Chans
    BY <1>0, <1>1, <1>3, MenuFacts, OpFacts DEF case, Frame
  <2>2. lock[c] = g  BY <1>0, <1>1, <2>1 DEF Holds
  <2>k. closed'[c] /\ \A b \in Chans : b # c => closed'[b] = closed[b]
    BY <1>0, <1>3, <2>1 DEF TypeOK
  <2>t. TypeOK'  BY <1>0, <1>1, <1>3 DEF TypeOK
  <2>a. pc'[g] = "closing" /\ \A x \in G : x # g => Same(x)  BY <1>0, <1>1, <1>3 DEF TypeOK, Same
  <2>w. \A d, b : Who(d, b)' = Who(d, b) /\ LiveIn(d, b)' = LiveIn(d, b)
    BY <1>1 DEF Who, Line, LiveIn, Live
  <2>f. Frame(g)'  BY <1>0, <1>1, <1>3, <2>a DEF Frame, case
  <2>c. commit[g] = {}  BY <1>0, <1>1 DEF Leaving
  <2>g. Leaving(g)'  BY <1>1, <2>c DEF Leaving
  <2>v. ClaimedBy(g)' /\ ValuesOf(g)'
    <3>1. Waits(g)  BY <1>1, <2>a DEF Waits
    <3> QED  BY <1>0, <2>w, <3>1, OthersWait
  <2>l. \A b \in Chans : /\ lock'[b] = g <=> Holds(g, b)'
                         /\ \A x \in G : x # g => (lock'[b] = x <=> lock[b] = x)
    BY <1>0, <1>1, <2>a, <2>c DEF Holds
  <2>q. Quiet(g, g)
    <3>1. \A d \in Dirs, b \in Chans : \A s \in Who(d, b) : s[1] # g  BY <1>1, NotQueued
    <3>2. \A d \in Dirs, b \in Chans : Who(d, b)' \subseteq Who(d, b) /\ \A s \in Who(d, b)' : s[1] \notin {g, g}
      BY <2>w, <3>1
    <3> QED  BY <2>a, <3>2 DEF Quiet
  <2>r. Registering'
    <3> SUFFICES ASSUME NEW x \in G, pc'[x] = "register" PROVE Blocked(x)'  BY DEF Registering
    <3>1. x # g /\ pc[x] = "register" /\ op'[x] = op[x]  BY <2>a DEF Same
    <3>2. locks(op[x]) \subseteq Chans  BY Basics
    <3>3. \A b \in locks(op[x]) : lock[b] = x  BY <1>0, <3>1, <3>2 DEF Locked, Holds
    <3>4. \A b \in locks(op[x]) : closed'[b] = closed[b] /\ buf'[b] = buf[b]
      BY <1>1, <2>2, <2>k, <3>1, <3>2, <3>3
    <3> QED  BY <1>0, <2>w, <3>1, <3>4, BlockedKept
  <2>d. Meeting'
    <3> SUFFICES ASSUME NEW b \in Chans PROVE Meet(b)'  BY DEF Meeting
    <3>0. Meet(b)  BY <1>0 DEF Meeting
    <3>1. \A x \in G : pc[x] = "closing" => pc'[x] = "closing"  BY <1>1, <2>a DEF Same
    <3>2. CASE b = c
      <4>1. pc'[g] = "closing" /\ case(g, 1)'.c = b  BY <1>1, <2>a, <3>2 DEF case
      <4> QED  BY <1>1, <2>w, <3>0, <4>1 DEF Meet
    <3>3. CASE b # c
      <4>1. closed'[b] = closed[b]  BY <2>k, <3>3
      <4> QED  BY <1>1, <2>w, <3>0, <3>1, <4>1 DEF Meet, case
    <3> QED  BY <3>2, <3>3
  <2>p. NoInternalPanic'  BY <1>0, <1>3 DEF NoInternalPanic
  <2>y. Queues'  BY <1>0, <1>1 DEF Queues
  <2> QED  BY <2>t, <2>f, <2>g, <2>v, <2>l, <2>q, <2>r, <2>d, <2>p, <2>y, Combine DEF Good
<1> QED  BY <1>2, <1>3 DEF CloseMark

-----------------------------------------------------------------------------
(* Registering and cancelling.                                             *)

\* A nil case has no sudog: pass 2 passes it over.
LEMMA RegisterNil ==
  ASSUME Inv, NEW g \in G, pc[g] = "register", next' = [next EXCEPT ![g] = @ + 1],
         UNCHANGED <<closed, buf, sendq, recvq, lock, pc, op, ops, todo, sd, done, winners,
                     commit, res, fatal>>
  PROVE  Inv'
<1>0. /\ TypeOK /\ Frame(g) /\ Leaving(g) /\ ClaimedBy(g) /\ ValuesOf(g) /\ NoInternalPanic
      /\ next[g] \in Nat /\ Registering /\ op[g] \in Op /\ \A c \in Chans : lock[c] = g <=> Holds(g, c)
  BY Basics DEF Inv
<1>t. TypeOK'
  <2>1. next' \in [G -> Nat]  BY <1>0 DEF TypeOK
  <2> QED  BY <1>0, <2>1 DEF TypeOK
<1>a. next'[g] = next[g] + 1 /\ \A x \in G : x # g => Same(x)  BY <1>0 DEF TypeOK, Same
<1>f. Frame(g)'  BY <1>0, <1>a DEF Frame, case
<1>g. Leaving(g)'  BY <1>0 DEF Leaving
<1>v. ClaimedBy(g)' /\ ValuesOf(g)'
  BY <1>0 DEF ClaimedBy, ValuesOf, CaseIs, case, Who, Line
<1>l. \A c \in Chans : /\ lock'[c] = g <=> Holds(g, c)'
                       /\ \A x \in G : x # g => (lock'[c] = x <=> lock[c] = x)
  BY <1>0 DEF Holds
<1>m. \A d \in Dirs, c \in Chans : \A s \in Who(d, c) : s[1] = g =>
         InFrame(g, s[2], d, c)' /\ op'[g] = op[g] /\ (done[g] => done'[g])
  <2> SUFFICES ASSUME NEW d \in Dirs, NEW c \in Chans, NEW s \in Who(d, c), s[1] = g
               PROVE  InFrame(g, s[2], d, c)'
    OBVIOUS
  <2>1. InFrame(g, s[2], d, c)  BY DEF Inv, Framed
  <2>2. s[2] \in Nat  BY <1>0, <2>1, OpFacts DEF InFrame
  <2>3. s[2] < next[g] => s[2] < next'[g]  BY <1>0, <1>a, <2>2
  <2> QED  BY <2>1, <2>3 DEF InFrame, case
<1>b. Blocked(g)'
  <2>1. \A d \in Dirs, c \in Chans : LiveIn(d, c)' \subseteq LiveIn(d, c)
    BY DEF LiveIn, Who, Line, Live
  <2> QED  BY <1>0, <2>1, BlockedKept
<1>p. NoInternalPanic'  BY <1>0 DEF NoInternalPanic
<1>u. UNCHANGED chanVars  BY DEF chanVars
<1> QED  BY <1>t, <1>a, <1>f, <1>g, <1>v, <1>l, <1>m, <1>b, <1>p, <1>u, Own DEF Good

\* The sudog of case n of g's operation joins its queue.
Joins(g, n, d, c) ==
    /\ pc[g] = "register" /\ n = next[g] /\ CaseIs(g, n, d, c)
    /\ \/ d = "send" /\ sendq' = [sendq EXCEPT ![c] = Append(@, <<g, n>>)] /\ recvq' = recvq
       \/ d = "recv" /\ recvq' = [recvq EXCEPT ![c] = Append(@, <<g, n>>)] /\ sendq' = sendq
    /\ next' = [next EXCEPT ![g] = @ + 1]
    /\ UNCHANGED <<closed, buf, lock, pc, op, ops, todo, sd, done, winners, commit, res, fatal>>

\* It was not queued before, and it is the only one that is queued now.
LEMMA JoinsQueue ==
  ASSUME Inv, NEW g \in G, NEW n, NEW d \in Dirs, NEW c \in Chans, Joins(g, n, d, c)
  PROVE  /\ sendq' \in [Chans -> Seq(Sudog)] /\ recvq' \in [Chans -> Seq(Sudog)] /\ Queues'
         /\ \A e \in Dirs, b \in Chans : \A s \in Who(e, b)' :
               s \in Who(e, b) \/ (e = d /\ b = c /\ s = <<g, n>>)
         /\ \A e \in Dirs, b \in Chans : Who(e, b) \subseteq Who(e, b)'
         /\ <<g, n>> \in Who(d, c)'
<1>0. TypeOK /\ Queues /\ Framed /\ next[g] \in Nat /\ op[g] \in Op  BY Basics DEF Inv
<1>1. n \in Nat /\ <<g, n>> \in Sudog  BY <1>0 DEF Joins, Sudog
<1>2. <<g, n>> \notin Who(d, c)
  <2> SUFFICES ASSUME <<g, n>> \in Who(d, c) PROVE FALSE  OBVIOUS
  <2>1. InFrame(g, n, d, c)
    <3>1. \A s \in Who(d, c) : InFrame(s[1], s[2], d, c)  BY <1>0 DEF Framed
    <3>2. InFrame(<<g, n>>[1], <<g, n>>[2], d, c)  BY <3>1
    <3> QED  BY <3>2
  <2> QED  BY <1>0, <1>1, <2>1 DEF InFrame, Joins
<1> PICK q : q = Line(d, c)  OBVIOUS
<1> DEFINE r == Append(q, <<g, n>>)
<1>3. q \in Seq(Sudog) /\ Once(q) /\ \A k \in DOMAIN q : q[k] # <<g, n>>
  BY <1>0, <1>2, WhoFacts DEF Queues, Line, Who
<1>4. r \in Seq(Sudog) /\ Once(r) /\ Range(r) = Range(q) \cup {<<g, n>>}
  <2> PICK me : me = <<g, n>>  OBVIOUS
  <2>1. me \in Sudog /\ \A k \in DOMAIN q : q[k] # me  BY <1>1, <1>3
  <2>2. /\ Append(q, me) \in Seq(Sudog) /\ Once(Append(q, me))
        /\ Range(Append(q, me)) = Range(q) \cup {me}
    BY <1>3, <2>1, QueueAppend
  <2> QED  BY <2>2
<1> HIDE DEF r
<1>5. CASE d = "send" /\ sendq' = [sendq EXCEPT ![c] = Append(@, <<g, n>>)] /\ recvq' = recvq
  <2>1. q = sendq[c] /\ sendq \in [Chans -> Seq(Sudog)] /\ recvq \in [Chans -> Seq(Sudog)]
    BY <1>0, <1>5 DEF Line, TypeOK
  <2>2. /\ sendq' \in [Chans -> Seq(Sudog)] /\ sendq'[c] = r
        /\ \A b \in Chans : b # c => sendq'[b] = sendq[b]
    BY <1>4, <1>5, <2>1 DEF r
  <2>3. Queues'  BY <1>0, <1>4, <1>5, <2>2 DEF Queues
  <2>4. \A b \in Chans : Who("recv", b)' = Who("recv", b)  BY <1>5 DEF Who, Line
  <2>5. \A b \in Chans : b # c => Who("send", b)' = Who("send", b)  BY <2>2 DEF Who, Line
  <2>6. Who("send", c)' = Who("send", c) \cup {<<g, n>>}
    <3>1. Who("send", c) = Range(q)  BY <2>1 DEF Who, Line, Range
    <3>2. Who("send", c)' = Range(r)  BY <2>2 DEF Who, Line, Range
    <3> QED  BY <1>4, <3>1, <3>2
  <2>7. \A b \in Chans : /\ Who("recv", b) = Who("recv", b)'
                        /\ Who("send", b) \subseteq Who("send", b)'
                        /\ \A s \in Who("send", b)' : s \in Who("send", b) \/ (b = c /\ s = <<g, n>>)
    BY <2>4, <2>5, <2>6
  <2>8. <<g, n>> \in Who(d, c)'  BY <1>5, <2>6
  <2> QED  BY <1>5, <2>1, <2>2, <2>3, <2>7, <2>8 DEF Dirs
<1>6. CASE d = "recv" /\ recvq' = [recvq EXCEPT ![c] = Append(@, <<g, n>>)] /\ sendq' = sendq
  <2>1. q = recvq[c] /\ sendq \in [Chans -> Seq(Sudog)] /\ recvq \in [Chans -> Seq(Sudog)]
    BY <1>0, <1>6 DEF Line, TypeOK
  <2>2. /\ recvq' \in [Chans -> Seq(Sudog)] /\ recvq'[c] = r
        /\ \A b \in Chans : b # c => recvq'[b] = recvq[b]
    BY <1>4, <1>6, <2>1 DEF r
  <2>3. Queues'  BY <1>0, <1>4, <1>6, <2>2 DEF Queues
  <2>4. \A b \in Chans : Who("send", b)' = Who("send", b)  BY <1>6 DEF Who, Line
  <2>5. \A b \in Chans : b # c => Who("recv", b)' = Who("recv", b)  BY <2>2 DEF Who, Line
  <2>6. Who("recv", c)' = Who("recv", c) \cup {<<g, n>>}
    <3>1. Who("recv", c) = Range(q)  BY <2>1 DEF Who, Line, Range
    <3>2. Who("recv", c)' = Range(r)  BY <2>2 DEF Who, Line, Range
    <3> QED  BY <1>4, <3>1, <3>2
  <2>7. \A b \in Chans : /\ Who("send", b) = Who("send", b)'
                        /\ Who("recv", b) \subseteq Who("recv", b)'
                        /\ \A s \in Who("recv", b)' : s \in Who("recv", b) \/ (b = c /\ s = <<g, n>>)
    BY <2>4, <2>5, <2>6
  <2>8. <<g, n>> \in Who(d, c)'  BY <1>6, <2>6
  <2> QED  BY <1>6, <2>1, <2>2, <2>3, <2>7, <2>8 DEF Dirs
<1> QED  BY <1>5, <1>6 DEF Joins

\* Nothing that pass 1 found is made untrue by the goroutine's own sudogs, and nobody else
\* is registering on a channel whose lock it holds.
LEMMA JoinsKeeps ==
  ASSUME Inv, NEW g \in G, NEW n, NEW d \in Dirs, NEW c \in Chans, Joins(g, n, d, c)
  PROVE  Inv'
<1>0. /\ TypeOK /\ Framed /\ Locked /\ Registering /\ Meeting /\ NoInternalPanic
      /\ (\A x \in G : Good(x)) /\ next[g] \in Nat /\ op[g] \in Op /\ op[g].kind # "close"
  BY Basics DEF Inv, Frames, Commits, Claimed, Values, Good, Joins, Frame
<1>1. /\ pc[g] = "register" /\ n = next[g] /\ CaseIs(g, n, d, c) /\ next' = [next EXCEPT ![g] = @ + 1]
      /\ UNCHANGED <<closed, buf, lock, pc, op, ops, todo, sd, done, winners, commit, res, fatal>>
  BY DEF Joins
<1>2. /\ sendq' \in [Chans -> Seq(Sudog)] /\ recvq' \in [Chans -> Seq(Sudog)] /\ Queues'
      /\ \A e \in Dirs, b \in Chans : \A s \in Who(e, b)' :
            s \in Who(e, b) \/ (e = d /\ b = c /\ s = <<g, n>>)
  BY JoinsQueue
<1>3. c \in locks(op[g]) /\ lock[c] = g /\ Asks(g, d, c) /\ Blocked(g) /\ n \in Nat
  <2>1. c # Nil  BY <1>0, OpFacts
  <2>2. c \in locks(op[g])  BY <1>0, <1>1, <2>1, OpFacts DEF CaseIs, case
  <2> QED  BY <1>0, <1>1, <2>2 DEF Locked, Holds, Asks, CaseIs, Registering
<1>t. TypeOK'
  <2>1. next' \in [G -> Nat]  BY <1>0, <1>1 DEF TypeOK
  <2> QED  BY <1>0, <1>1, <1>2, <2>1 DEF TypeOK
<1>a. next'[g] = next[g] + 1 /\ \A x \in G : x # g => Same(x)  BY <1>0, <1>1 DEF TypeOK, Same
<1>w. \A e \in Dirs, b \in Chans : \A s \in LiveIn(e, b)' :
         s \in LiveIn(e, b) \/ (e = d /\ b = c /\ s = <<g, n>>)
  BY <1>1, <1>2 DEF LiveIn, Live
<1>o. ASSUME NEW x \in G, x # g PROVE Good(x)'
  <2>0. Frame(x) /\ Leaving(x) /\ ClaimedBy(x) /\ ValuesOf(x) /\ Same(x)  BY <1>0, <1>a, <1>o DEF Good
  <2>1. Frame(x)' /\ Leaving(x)'  BY <2>0, Others
  <2>2. \A i : \A e \in Dirs, b \in Chans : <<x, i>> \in Who(e, b)' => <<x, i>> \in Who(e, b)
    BY <1>2, <1>o
  <2>3. ClaimedBy(x)'
    <3> SUFFICES ASSUME pc[x] \in {"woken", "pass3"}
                 PROVE  \E i \in DOMAIN op'[x].cases, e \in Dirs, b \in Chans : Won(x, i, e, b)'
      BY <1>1 DEF ClaimedBy
    <3>1. PICK i \in DOMAIN op[x].cases, e \in Dirs, b \in Chans : Won(x, i, e, b)
      BY <2>0 DEF ClaimedBy
    <3>2. Won(x, i, e, b)'  BY <2>0, <2>2, <3>1 DEF Won, Same, CaseIs, case
    <3> QED  BY <1>1, <3>2
  <2>4. ValuesOf(x)'
    <3>1. \A i : \A b \in Chans : <<x, i>> \in Who("send", b)' => <<x, i>> \in Who("send", b)
      BY <2>2 DEF Dirs
    <3> QED  BY <1>1, <2>0, <3>1 DEF ValuesOf, case, CaseIs
  <2> QED  BY <2>1, <2>3, <2>4 DEF Good
<1>g. Good(g)'
  <2>0. Frame(g) /\ Leaving(g) /\ ValuesOf(g)  BY <1>0 DEF Good
  <2>1. Frame(g)'  BY <1>0, <1>1, <1>a, <2>0 DEF Frame, case
  <2>2. Leaving(g)'  BY <1>1, <2>0 DEF Leaving, case
  <2>3. ClaimedBy(g)'  BY <1>1 DEF ClaimedBy
  <2>4. ValuesOf(g)'  BY <1>1, <2>0 DEF ValuesOf, case, CaseIs
  <2> QED  BY <2>1, <2>2, <2>3, <2>4 DEF Good
<1>4. Frames' /\ Commits' /\ Claimed' /\ Values'
  BY <1>o, <1>g DEF Good, Frames, Commits, Claimed, Values
<1>5. Locked'  BY <1>0, <1>1 DEF Locked, Holds
<1>6. Framed'
  <2> SUFFICES ASSUME NEW e \in Dirs, NEW b \in Chans, NEW s \in Who(e, b)'
               PROVE  InFrame(s[1], s[2], e, b)'
    BY DEF Framed
  <2>1. CASE s \in Who(e, b)
    <3>1. InFrame(s[1], s[2], e, b) /\ s[1] \in G /\ s[2] \in Nat  BY <1>0, <2>1, WhoFacts DEF Framed
    <3>2. next'[s[1]] = next[s[1]] \/ (s[1] = g /\ next'[s[1]] = next[s[1]] + 1)
      BY <1>a, <3>1 DEF Same
    <3>3. s[2] < next[s[1]] /\ s[1] = g => s[2] < next[g] + 1  BY <1>0, <3>1
    <3>4. pc[g] = "register"  BY <1>1
    <3> QED  BY <1>1, <3>1, <3>2, <3>3, <3>4 DEF InFrame, case
  <2>2. CASE e = d /\ b = c /\ s = <<g, n>>
    <3>1. case(g, n) = [dir |-> d, c |-> c] /\ n \in DOMAIN op[g].cases
      <4>1. case(g, n) \in Case /\ case(g, n).dir = d /\ case(g, n).c = c /\ n \in DOMAIN op[g].cases
        BY <1>0, <1>1, OpFacts DEF CaseIs, case
      <4> QED  BY <4>1 DEF Case
    <3>2. n < next'[g]  BY <1>0, <1>1, <1>a
    <3>3. InFrame(g, n, d, c)'  BY <1>1, <3>1, <3>2 DEF InFrame, case
    <3> QED  BY <2>2, <3>3
  <2> QED  BY <1>2, <2>1, <2>2
<1>7. Registering'
  <2> SUFFICES ASSUME NEW x \in G, pc[x] = "register" PROVE Blocked(x)'  BY <1>1 DEF Registering
  <2>1. Blocked(x) /\ op[x] \in Op  BY <1>0 DEF Registering, TypeOK
  <2>2. ASSUME NEW e \in Dirs, Asks(x, e, c) PROVE x = g
    <3>1. c \in locks(op[x])
      <4>1. c # Nil  BY <1>0, OpFacts
      <4> QED  BY <2>1, <2>2, <4>1, OpFacts DEF Asks, CaseIs, case
    <3> QED  BY <1>0, <1>3, <3>1 DEF Locked, Holds
  <2>3. \A b \in Chans : /\ Asks(x, "recv", b) => \A s \in LiveIn("send", b)' : s[1] = x
                         /\ Asks(x, "send", b) => \A s \in LiveIn("recv", b)' : s[1] = x
    <3>1. ASSUME NEW b \in Chans, Asks(x, "recv", b), NEW s \in LiveIn("send", b)' PROVE s[1] = x
      BY <1>w, <2>1, <2>2, <3>1 DEF Blocked, Dirs
    <3>2. ASSUME NEW b \in Chans, Asks(x, "send", b), NEW s \in LiveIn("recv", b)' PROVE s[1] = x
      BY <1>w, <2>1, <2>2, <3>2 DEF Blocked, Dirs
    <3> QED  BY <3>1, <3>2
  <2> QED  BY <1>1, <2>1, <2>3 DEF Blocked, Asks, CaseIs, case
<1>8. Meeting'
  <2> SUFFICES ASSUME NEW b \in Chans PROVE Meet(b)'  BY DEF Meeting
  <2>0. Meet(b)  BY <1>0 DEF Meeting
  <2>1. CASE b # c
    <3>1. /\ LiveIn("send", b)' \subseteq LiveIn("send", b) /\ LiveIn("recv", b)' \subseteq LiveIn("recv", b)
      BY <1>w, <2>1 DEF Dirs
    <3> QED  BY <1>1, <2>0, <3>1 DEF Meet, case, Dirs
  <2>2. CASE b = c
    <3>1. ~closed'[b]  BY <1>1, <1>3, <2>2 DEF Blocked
    <3>2. CASE d = "send"
      <4>1. Len(buf[c]) = Cap[c] /\ \A r \in LiveIn("recv", c) : r[1] = g
        BY <1>3, <3>2 DEF Blocked
      <4>2. LiveIn("recv", c)' \subseteq LiveIn("recv", c)  BY <1>w, <3>2 DEF Dirs
      <4>3. \A s \in LiveIn("send", c)' : s \in LiveIn("send", c) \/ s[1] = g  BY <1>w DEF Dirs
      <4> QED  BY <1>1, <2>0, <2>2, <3>1, <4>1, <4>2, <4>3 DEF Meet
    <3>3. CASE d = "recv"
      <4>1. buf[c] = << >> /\ \A s \in LiveIn("send", c) : s[1] = g  BY <1>3, <3>3 DEF Blocked
      <4>2. LiveIn("send", c)' \subseteq LiveIn("send", c)  BY <1>w, <3>3 DEF Dirs
      <4>3. \A r \in LiveIn("recv", c)' : r \in LiveIn("recv", c) \/ r[1] = g  BY <1>w DEF Dirs
      <4> QED  BY <1>1, <2>0, <2>2, <3>1, <4>1, <4>2, <4>3 DEF Meet
    <3> QED  BY <3>2, <3>3 DEF Dirs
  <2> QED  BY <2>1, <2>2
<1>9. NoInternalPanic'  BY <1>0, <1>1 DEF NoInternalPanic
<1> QED  BY <1>t, <1>2, <1>4, <1>5, <1>6, <1>7, <1>8, <1>9 DEF Inv

\* Pass 2 passes a nil case over, or queues the sudog of a case.
LEMMA RegisterOne ==
  ASSUME Inv, NEW g \in G, Register(g), ~(next[g] > Len(op[g].cases))
  PROVE  /\ fatal = "none" /\ pc[g] = "register" /\ next[g] \in DOMAIN op[g].cases
         /\ \/ /\ case(g, next[g]).c = Nil /\ next' = [next EXCEPT ![g] = @ + 1]
               /\ UNCHANGED <<closed, buf, sendq, recvq, lock, pc, op, ops, todo, sd, done, winners,
                              commit, res, fatal>>
            \/ \E d \in Dirs, c \in Chans : Joins(g, next[g], d, c)
<1>0. /\ TypeOK /\ Frame(g) /\ op[g] \in Op /\ next[g] \in Nat /\ Registering /\ pc[g] = "register"
      /\ fatal = "none"
  BY Basics DEF Inv, Register
<1> PICK n : n = next[g]  OBVIOUS
<1> PICK c : c = case(g, n).c  OBVIOUS
<1> PICK d : d = case(g, n).dir  OBVIOUS
<1>1. /\ next' = [next EXCEPT ![g] = @ + 1]
      /\ sendq' = IF c # Nil /\ d = "send" THEN [sendq EXCEPT ![c] = Append(@, <<g, n>>)] ELSE sendq
      /\ recvq' = IF c # Nil /\ d = "recv" THEN [recvq EXCEPT ![c] = Append(@, <<g, n>>)] ELSE recvq
      /\ fatal' = IF c # Nil /\ closed[c] /\ (d = "send" \/ buf[c] = << >>)
                  THEN "select pass-2 saw a closed channel" ELSE "none"
      /\ UNCHANGED <<closed, buf, lock, pc, op, ops, todo, sd, done, winners, commit, res>>
  BY DEF Register
<1>2. n \in DOMAIN op[g].cases  BY <1>0, OpFacts DEF Frame
<1>3. d \in Dirs /\ c \in Chans \cup {Nil}
  BY <1>0, <1>2, MenuFacts, OpFacts DEF Frame, case
<1>4. c # Nil => ~closed[c]
  <2>1. Blocked(g)  BY <1>0 DEF Registering
  <2>2. c # Nil => c \in Chans /\ c \in locks(op[g])  BY <1>0, <1>2, <1>3, OpFacts DEF case
  <2> QED  BY <2>1, <2>2 DEF Blocked
<1>5. fatal' = fatal  BY <1>0, <1>1, <1>4
<1>6. CASE c = Nil  BY <1>0, <1>1, <1>2, <1>5, <1>6
<1>7. CASE c # Nil
  <2>1. Joins(g, n, d, c)  BY <1>0, <1>1, <1>2, <1>3, <1>5, <1>7 DEF Joins, CaseIs, Dirs
  <2> QED  BY <1>0, <1>2, <1>3, <1>7, <2>1
<1> QED  BY <1>6, <1>7

\* Pass 2 queues a sudog per case, then parks.
LEMMA RegisterKeeps == ASSUME Inv, NEW g \in G, Register(g) PROVE Inv'
<1>1. CASE next[g] > Len(op[g].cases)  BY <1>1, ParkKeeps
<1>2. CASE ~(next[g] > Len(op[g].cases))
  <2> PICK n : n = next[g]  OBVIOUS
  <2>1. ASSUME NEW d \in Dirs, NEW c \in Chans, Joins(g, n, d, c) PROVE Inv'  BY <2>1, JoinsKeeps
  <2> QED  BY <1>2, <2>1, RegisterOne, RegisterNil
<1> QED  BY <1>1, <1>2

\* Pass 3 leaves case n of g's operation behind: its sudog is not queued, and it was claimed
\* unless pass 3 has unlinked it.
Leaves(g, n, W) ==
    /\ pc[g] = "pass3" /\ n = next[g] /\ n \in DOMAIN op[g].cases /\ case(g, n).c \notin commit[g]
    /\ next' = [next EXCEPT ![g] = @ + 1] /\ winners' = [winners EXCEPT ![g] = W]
    /\ winners[g] \subseteq W /\ W \subseteq winners[g] \cup {n}
    /\ (\A e \in Dirs, b \in Chans : Who(e, b)' \subseteq Who(e, b))
    /\ (\A e \in Dirs, b \in Chans : CaseIs(g, n, e, b) =>
           /\ <<g, n>> \notin Who(e, b)'
           /\ <<g, n>> \in Who(e, b) \/ n \in W
           /\ <<g, n>> \in Who(e, b) => W = winners[g])
    /\ (\A e \in Dirs, b \in Chans : \A t \in Who(e, b) : t \in Who(e, b)' \/ t = <<g, n>>)
    /\ (case(g, n).c = Nil => W = winners[g])
    /\ UNCHANGED <<closed, buf, lock, pc, op, ops, todo, sd, done, commit, res, fatal>>

\* Pass 3 goes on in good order.
LEMMA LeavesKeeps ==
  ASSUME Inv, NEW g \in G, NEW n, NEW W, Leaves(g, n, W), Queues',
         sendq' \in [Chans -> Seq(Sudog)], recvq' \in [Chans -> Seq(Sudog)]
  PROVE  Inv'
<1>0. /\ TypeOK /\ Frame(g) /\ Leaving(g) /\ ClaimedBy(g) /\ ValuesOf(g) /\ NoInternalPanic
      /\ next[g] \in Nat /\ op[g] \in Op /\ Framed /\ Registering /\ Meeting
      /\ \A c \in Chans : lock[c] = g <=> Holds(g, c)
  BY Basics DEF Inv
<1>1. /\ pc[g] = "pass3" /\ n = next[g] /\ n \in DOMAIN op[g].cases /\ case(g, n).c \notin commit[g]
      /\ next' = [next EXCEPT ![g] = @ + 1] /\ winners' = [winners EXCEPT ![g] = W]
      /\ winners[g] \subseteq W /\ W \subseteq winners[g] \cup {n}
      /\ UNCHANGED <<closed, buf, lock, pc, op, ops, todo, sd, done, commit, res, fatal>>
  BY DEF Leaves
<1>2. /\ \A e \in Dirs, b \in Chans : Who(e, b)' \subseteq Who(e, b)
      /\ \A e \in Dirs, b \in Chans : CaseIs(g, n, e, b) =>
           /\ <<g, n>> \notin Who(e, b)'
           /\ <<g, n>> \in Who(e, b) \/ n \in W
  BY DEF Leaves
<1>i. DOMAIN op[g].cases \subseteq Nat  BY <1>0, OpFacts
<1>3. W \subseteq DOMAIN op[g].cases /\ W \subseteq Nat  BY <1>0, <1>1, <1>i DEF Frame
<1>t. TypeOK'
  <2>1. next' \in [G -> Nat]  BY <1>0, <1>1 DEF TypeOK
  <2>2. winners' \in [G -> SUBSET Nat]  BY <1>0, <1>1, <1>3 DEF TypeOK
  <2> QED  BY <1>0, <1>1, <2>1, <2>2 DEF TypeOK
<1>a. next'[g] = n + 1 /\ winners'[g] = W /\ \A x \in G : x # g => Same(x)
  BY <1>0, <1>1 DEF TypeOK, Same
<1>f. Frame(g)'  BY <1>0, <1>1, <1>3, <1>a DEF Frame, case
<1>g. Leaving(g)'
  <2>1. ASSUME NEW i \in DOMAIN op[g].cases PROVE i < n + 1 => i < n \/ i = n
    <3>1. i \in Nat /\ n \in Nat  BY <1>0, <1>1, <1>i, <2>1
    <3> QED  BY <3>1
  <2> QED  BY <1>0, <1>1, <1>a, <2>1 DEF Leaving, case
<1>c. ClaimedBy(g)'
  <2>1. PICK i \in DOMAIN op[g].cases, e \in Dirs, b \in Chans : Won(g, i, e, b)
    BY <1>0, <1>1 DEF ClaimedBy
  <2>2. CaseIs(g, i, e, b)' /\ i \in DOMAIN op'[g].cases  BY <1>1, <2>1 DEF Won, CaseIs, case
  <2>3. i \in W \/ (i >= n + 1 /\ <<g, i>> \notin Who(e, b)')
    <3>1. CASE i \in winners[g]  BY <1>1, <3>1
    <3>2. CASE i >= n /\ <<g, i>> \notin Who(e, b)
      <4>1. i = n => n \in W  BY <1>2, <2>1, <3>2 DEF Won
      <4>2. i # n => i >= n + 1  BY <1>0, <1>1, <1>i, <3>2
      <4> QED  BY <1>2, <3>2, <4>1, <4>2
    <3> QED  BY <1>1, <2>1, <3>1, <3>2 DEF Won
  <2>4. Won(g, i, e, b)'  BY <1>a, <2>2, <2>3 DEF Won
  <2> QED  BY <2>2, <2>4 DEF ClaimedBy
<1>v. ValuesOf(g)'
  <2>1. \A b \in Chans : Who("send", b)' \subseteq Who("send", b)  BY <1>2 DEF Dirs
  <2> QED  BY <1>0, <1>1, <2>1 DEF ValuesOf, case, CaseIs
<1>l. \A c \in Chans : /\ lock'[c] = g <=> Holds(g, c)'
                       /\ \A x \in G : x # g => (lock'[c] = x <=> lock[c] = x)
  BY <1>0, <1>1 DEF Holds
<1>q. Quiet(g, g)
  <2>1. ASSUME NEW e \in Dirs, NEW b \in Chans, NEW s \in Who(e, b)', s[1] \in {g, g}
        PROVE  InFrame(s[1], s[2], e, b)'
    <3>1. s \in Who(e, b) /\ s[1] = g /\ s = <<g, s[2]>>  BY <1>0, <1>2, <2>1, WhoFacts
    <3>2. InFrame(g, s[2], e, b)  BY <1>0, <3>1 DEF Framed
    <3>3. s[2] # n
      <4>1. s[2] = n => CaseIs(g, n, e, b)  BY <3>2 DEF InFrame, CaseIs
      <4> QED  BY <1>2, <2>1, <3>1, <4>1
    <3>4. s[2] >= n + 1  BY <1>0, <1>1, <1>i, <3>2, <3>3 DEF InFrame
    <3>5. InFrame(g, s[2], e, b)'  BY <1>1, <1>a, <3>2, <3>4 DEF InFrame, case
    <3> QED  BY <3>1, <3>5
  <2> QED  BY <1>1, <1>2, <1>a, <2>1 DEF Quiet
<1>4. \A e \in Dirs, b \in Chans : LiveIn(e, b)' \subseteq LiveIn(e, b)  BY <1>0, <1>t, <1>q, QuietLive
<1>r. Registering'
  <2> SUFFICES ASSUME NEW x \in G, pc'[x] = "register" PROVE Blocked(x)'  BY DEF Registering
  <2> QED  BY <1>0, <1>1, <1>4, BlockedKept
<1>d. Meeting'  BY <1>0, <1>1, <1>4, MeetKept
<1>p. NoInternalPanic'  BY <1>0, <1>1 DEF NoInternalPanic
<1> QED  BY <1>t, <1>f, <1>g, <1>c, <1>v, <1>l, <1>q, <1>r, <1>d, <1>p, Combine DEF Good

\* Pass 3 visits a case: a sudog that is still queued is unlinked, one that is gone has won.
LEMMA CancelLeaves ==
  ASSUME Inv, NEW g \in G, Cancel(g)
  PROVE  /\ fatal = "none" /\ Queues'
         /\ sendq' \in [Chans -> Seq(Sudog)] /\ recvq' \in [Chans -> Seq(Sudog)]
         /\ \E n, W : Leaves(g, n, W)
<1>0. /\ TypeOK /\ Frame(g) /\ Leaving(g) /\ op[g] \in Op /\ next[g] \in Nat /\ Queues
      /\ commit[g] \subseteq Chans /\ \A b \in Chans : lock[b] = g <=> Holds(g, b)
  BY Basics DEF Inv
<1> PICK n : n = next[g]  OBVIOUS
<1> PICK c : c = case(g, n).c  OBVIOUS
<1> PICK d : d = case(g, n).dir  OBVIOUS
<1>1. /\ fatal = "none" /\ pc[g] = "pass3" /\ ~(next[g] > Len(op[g].cases)) /\ (c # Nil => lock[c] = None)
      /\ next' = [next EXCEPT ![g] = @ + 1]
      /\ UNCHANGED <<closed, buf, lock, pc, op, ops, todo, sd, done, commit, res, fatal>>
  BY DEF Cancel, Pass3Over, CanCancel
<1>2. n \in DOMAIN op[g].cases /\ op[g].kind = "select"  BY <1>0, <1>1, OpFacts DEF Frame
<1>3. d \in Dirs /\ c \in Chans \cup {Nil} /\ Nil \notin Chans
  BY <1>0, <1>1, <1>2, MenuFacts, OpFacts DEF Frame, case
<1>4. c \notin commit[g]
  <2>1. CASE c = Nil  BY <1>0, <1>3, <2>1
  <2>2. CASE c # Nil  BY <1>0, <1>1, <1>3, <2>2, ConstAssumption DEF Holds
  <2> QED  BY <2>1, <2>2
<1>5. \A e \in Dirs, b \in Chans : CaseIs(g, n, e, b) => e = d /\ b = c  BY DEF CaseIs
<1>w. winners' = winners => winners' = [winners EXCEPT ![g] = winners[g]]  BY <1>0 DEF TypeOK
<1>6. CASE c = Nil
  <2>1. winners' = winners /\ sendq' = sendq /\ recvq' = recvq  BY <1>6 DEF Cancel
  <2>2. \A e, b : Who(e, b)' = Who(e, b)  BY <2>1 DEF Who, Line
  <2> PICK W : W = winners[g]  OBVIOUS
  <2>4. Leaves(g, n, W)  BY <1>1, <1>2, <1>3, <1>4, <1>5, <1>6, <1>w, <2>1, <2>2 DEF Leaves
  <2>5. Queues' /\ sendq' \in [Chans -> Seq(Sudog)] /\ recvq' \in [Chans -> Seq(Sudog)]
    BY <1>0, <2>1 DEF Queues, TypeOK
  <2> QED  BY <1>1, <2>4, <2>5
<1>7. CASE c # Nil /\ \E k \in DOMAIN Line(d, c) : Line(d, c)[k] = <<g, n>>
  <2>1. PICK k \in DOMAIN Line(d, c) :
           /\ Line(d, c)[k] = <<g, n>>
           /\ sendq' = IF d = "send" THEN [sendq EXCEPT ![c] = RemoveAt(@, k)] ELSE sendq
           /\ recvq' = IF d = "recv" THEN [recvq EXCEPT ![c] = RemoveAt(@, k)] ELSE recvq
           /\ winners' = winners
    BY <1>7 DEF Cancel, Line
  <2>2. \/ d = "send" /\ sendq' = [sendq EXCEPT ![c] = RemoveAt(@, k)] /\ recvq' = recvq
        \/ d = "recv" /\ recvq' = [recvq EXCEPT ![c] = RemoveAt(@, k)] /\ sendq' = sendq
    BY <1>3, <2>1 DEF Dirs
  <2>3. c \in Chans  BY <1>3, <1>7
  <2>4. /\ sendq' \in [Chans -> Seq(Sudog)] /\ recvq' \in [Chans -> Seq(Sudog)] /\ Queues'
        /\ \A e \in Dirs, b \in Chans : Who(e, b)' \subseteq Who(e, b)
        /\ (\A s : s = Line(d, c)[k] => s \notin Who(d, c)')
        /\ \A e \in Dirs, b \in Chans : \A t \in Who(e, b) : t \in Who(e, b)' \/ t = Line(d, c)[k]
    BY <1>0, <1>3, <2>2, <2>3, Unlinked
  <2>x. \A e \in Dirs, b \in Chans : \A t \in Who(e, b) : t \in Who(e, b)' \/ t = <<g, n>>
    BY <2>1, <2>4
  <2>5. <<g, n>> \in Who(d, c) /\ <<g, n>> \notin Who(d, c)'
    <3>1. <<g, n>> \in Who(d, c)  BY <2>1 DEF Who
    <3> QED  BY <2>1, <2>4, <3>1
  <2> PICK W : W = winners[g]  OBVIOUS
  <2>6. Leaves(g, n, W)  BY <1>1, <1>2, <1>4, <1>5, <1>7, <1>w, <2>1, <2>4, <2>5, <2>x DEF Leaves
  <2> QED  BY <1>1, <2>4, <2>6
<1>8. CASE c # Nil /\ ~\E k \in DOMAIN Line(d, c) : Line(d, c)[k] = <<g, n>>
  <2>1. winners' = [winners EXCEPT ![g] = @ \cup {n}] /\ sendq' = sendq /\ recvq' = recvq
    BY <1>8 DEF Cancel, Line
  <2>2. \A e, b : Who(e, b)' = Who(e, b)  BY <2>1 DEF Who, Line
  <2>3. <<g, n>> \notin Who(d, c)  BY <1>8 DEF Who
  <2> PICK W : W = winners[g] \cup {n}  OBVIOUS
  <2>4. Leaves(g, n, W)  BY <1>1, <1>2, <1>4, <1>5, <1>8, <2>1, <2>2, <2>3 DEF Leaves
  <2>5. Queues' /\ sendq' \in [Chans -> Seq(Sudog)] /\ recvq' \in [Chans -> Seq(Sudog)]
    BY <1>0, <2>1 DEF Queues, TypeOK
  <2> QED  BY <1>1, <2>4, <2>5
<1> QED  BY <1>6, <1>7, <1>8

\* The visit keeps the invariant.
LEMMA CancelKeeps == ASSUME Inv, NEW g \in G, Cancel(g) PROVE Inv'
<1>1. PICK n, W : Leaves(g, n, W)  BY CancelLeaves
<1> QED  BY <1>1, CancelLeaves, LeavesKeeps

-----------------------------------------------------------------------------
(* The theorems.                                                           *)

\* The invariant holds before the first step.
LEMMA InitInv == Init => Inv
<1> SUFFICES ASSUME Init PROVE Inv  OBVIOUS
<1>n. NoOp \in Op /\ NoOp.cases = << >> /\ NoOp.kind = "plain"  BY DEF NoOp, Op
<1>1. \A c \in Chans : /\ closed[c] = FALSE /\ buf[c] = << >> /\ sendq[c] = << >> /\ recvq[c] = << >>
                       /\ lock[c] = None
  BY DEF Init
<1>2. \A g \in G : /\ pc[g] = "idle" /\ op[g] = NoOp /\ next[g] = 1 /\ sd[g] = << >> /\ done[g] = FALSE
                   /\ winners[g] = {} /\ commit[g] = {}
  BY DEF Init
<1>3. TypeOK
  <2>1. \A c \in Chans : Len(buf[c]) <= Cap[c]  BY <1>1, ConstAssumption
  <2>2. [i |-> 0, v |-> None, ok |-> FALSE] \in Result  BY DEF Result, Val
  <2>3. res \in [G -> Result]  BY <2>2 DEF Init
  <2>4. fatal \in Fatal  BY DEF Init, Fatal
  <2>5. op \in [G -> Op]  BY <1>n DEF Init
  <2>6. /\ buf \in [Chans -> Seq(Val)] /\ sendq \in [Chans -> Seq(Sudog)]
        /\ recvq \in [Chans -> Seq(Sudog)] /\ sd \in [G -> Seq([v : Val, ok : BOOLEAN])]
    BY DEF Init
  <2> QED  BY <2>1, <2>3, <2>4, <2>5, <2>6 DEF Init, TypeOK
<1>4. Frames  BY <1>2, <1>n DEF Frames, Frame
<1>5. Commits /\ Claimed /\ Registering
  BY <1>2 DEF Commits, Leaving, Claimed, ClaimedBy, Registering
<1>6. Locked
  <2>1. \A g \in G : g # None  BY ConstAssumption
  <2> QED  BY <1>1, <1>2, <2>1 DEF Locked, Holds
<1>7. \A d \in Dirs, c \in Chans : Who(d, c) = {}  BY <1>1 DEF Who, Line
<1>8. Queues /\ Framed  BY <1>1, <1>7 DEF Queues, Once, Framed
<1>9. Values  BY <1>2, <1>n DEF Values, ValuesOf
<1>10. Meeting
  <2>1. \A d \in Dirs, c \in Chans : LiveIn(d, c) = {}  BY <1>7 DEF LiveIn
  <2> QED  BY <2>1 DEF Meeting, Meet, Dirs
<1>11. NoInternalPanic  BY DEF Init, NoInternalPanic
<1> QED  BY <1>3, <1>4, <1>5, <1>6, <1>8, <1>9, <1>10, <1>11 DEF Inv

\* Every step, of any goroutine or of the M that parked it, keeps the invariant.
LEMMA NextKeeps == ASSUME Inv, Next PROVE Inv'
<1>1. PICK g \in G : Start(g) \/ Step(g) \/ Commit(g)  BY DEF Next
<1>2. CASE Step(g)
  BY <1>2, AcquireKeeps, ReleaseKeeps, PollKeeps, DefaultKeeps, BlockKeeps, RegisterKeeps,
     ResumePlainKeeps, ResumeSelectKeeps, CancelKeeps, DispatchKeeps, CloseMarkKeeps,
     CloseWakeKeeps DEF Step
<1> QED  BY <1>1, <1>2, StartKeeps, CommitKeeps

\* A step that changes nothing keeps the invariant.
LEMMA StutterKeeps == ASSUME Inv, UNCHANGED vars PROVE Inv'
<1>u. UNCHANGED <<closed, buf, sendq, recvq, lock, pc, op, ops, todo, next, sd, done, winners,
                  commit, res, fatal>>
  BY DEF vars
<1>w. \A d, c : Who(d, c)' = Who(d, c) /\ LiveIn(d, c)' = LiveIn(d, c)
  BY <1>u DEF Who, Line, LiveIn, Live
<1>1. TypeOK' /\ NoInternalPanic' /\ Queues'  BY <1>u DEF Inv, TypeOK, NoInternalPanic, Queues
<1>2. Frames' /\ Commits' /\ Locked'
  BY <1>u DEF Inv, Frames, Frame, Commits, Leaving, Locked, Holds, case
<1>3. Framed'
  <2> SUFFICES ASSUME NEW d \in Dirs, NEW c \in Chans, NEW s \in Who(d, c) PROVE InFrame(s[1], s[2], d, c)'
    BY <1>w DEF Framed
  <2>1. InFrame(s[1], s[2], d, c)  BY DEF Inv, Framed
  <2> QED  BY <1>u, <2>1 DEF InFrame, case
<1>4. Claimed' /\ Values'
  BY <1>u, <1>w DEF Inv, Claimed, ClaimedBy, Won, Values, ValuesOf, CaseIs, case
<1>5. Registering'  BY <1>u, <1>w DEF Inv, Registering, Blocked, Asks, CaseIs, case
<1>6. Meeting'  BY <1>u, <1>w DEF Inv, Meeting, Meet, case
<1> QED  BY <1>1, <1>2, <1>3, <1>4, <1>5, <1>6 DEF Inv

\* Together: the invariant always holds.
LEMMA InvInductive == Spec => []Inv
<1>1. Inv /\ [Next]_vars => Inv'  BY NextKeeps, StutterKeeps
<1> QED  BY InitInv, <1>1, PTL DEF Spec

\* Every variable keeps its type and no buffer outgrows its capacity.
THEOREM TypeCorrect == Spec => []TypeOK
<1>1. Inv => TypeOK  BY DEF Inv
<1> QED  BY InvInductive, <1>1, PTL

\* Channels: no rendezvous is missed.  A claimable receiver never waits beside a value or
\* another goroutine's claimable sender, a claimable sender only beside a full buffer, and
\* nobody claimable waits on a closed channel once Close has released it.
THEOREM RendezvousMade == Spec => []NoMissedRendezvous
<1>1. Inv => NoMissedRendezvous
  <2> SUFFICES ASSUME Inv, NEW c \in Chans
               PROVE  /\ \A g \in G : OnRecv(c, g) => /\ buf[c] = << >>
                                                      /\ \A h \in G \ {g} : ~OnSend(c, h)
                      /\ \A g \in G : OnSend(c, g) => Len(buf[c]) = Cap[c]
                      /\ closed[c] /\ lock[c] = None => ~Claimable(recvq[c]) /\ ~Claimable(sendq[c])
    BY DEF NoMissedRendezvous
  <2>0. Meet(c)  BY DEF Inv, Meeting
  <2>1. \A g \in G : OnRecv(c, g) => \E r \in LiveIn("recv", c) : r[1] = g
    BY DEF OnRecv, LiveIn, Who, Line
  <2>2. \A g \in G : OnSend(c, g) => \E s \in LiveIn("send", c) : s[1] = g
    BY DEF OnSend, LiveIn, Who, Line
  <2>3. ASSUME closed[c], lock[c] = None PROVE ~Claimable(recvq[c]) /\ ~Claimable(sendq[c])
    <3> SUFFICES ASSUME NEW d \in Dirs, LiveIn(d, c) # {} PROVE FALSE  BY ClaimLive DEF Dirs
    <3>1. PICK h \in G : pc[h] = "closing" /\ case(h, 1).c = c  BY <2>0, <2>3 DEF Meet
    <3>2. Frame(h) /\ op[h] \in Op /\ (lock[c] = h <=> Holds(h, c))  BY Basics
    <3>3. op[h] \in Menu[h] /\ op[h].kind = "close" /\ c # Nil  BY <3>1, <3>2 DEF Frame
    <3>4. c \in locks(op[h])  BY <3>1, <3>3, MenuFacts DEF case
    <3>5. lock[c] = h  BY <3>1, <3>2, <3>4 DEF Holds
    <3> QED  BY <2>3, <3>5, ConstAssumption
  <2> QED  BY <2>0, <2>1, <2>2, <2>3 DEF Meet
<1> QED  BY InvInductive, <1>1, PTL

\* Channels: every sudog in a wait queue points into the frame of an operation that is
\* still registering, parked, or about to cancel it.
THEOREM SudogsAlive == Spec => []NoDanglingSudog
<1>1. Inv => NoDanglingSudog
  <2> SUFFICES ASSUME Inv, NEW c \in Chans
               PROVE  /\ \A k \in DOMAIN sendq[c] : InFrame(sendq[c][k][1], sendq[c][k][2], "send", c)
                      /\ \A k \in DOMAIN recvq[c] : InFrame(recvq[c][k][1], recvq[c][k][2], "recv", c)
    BY DEF NoDanglingSudog
  <2>1. \A s \in Who("send", c) : InFrame(s[1], s[2], "send", c)  BY DEF Inv, Framed, Dirs
  <2>2. \A s \in Who("recv", c) : InFrame(s[1], s[2], "recv", c)  BY DEF Inv, Framed, Dirs
  <2>3. \A k \in DOMAIN sendq[c] : sendq[c][k] \in Who("send", c)  BY DEF Who, Line
  <2>4. \A k \in DOMAIN recvq[c] : recvq[c][k] \in Who("recv", c)  BY DEF Who, Line
  <2> QED  BY <2>1, <2>2, <2>3, <2>4
<1> QED  BY InvInductive, <1>1, PTL

\* Channels: while the M that parked a goroutine releases its locks, the frame that holds
\* them is alive, although the goroutine may already run again.
THEOREM FrameOutlivesCommit == Spec => []CommitFrameAlive
<1>1. Inv => CommitFrameAlive
  <2> SUFFICES ASSUME Inv, NEW g \in G, commit[g] # {}
               PROVE  /\ pc[g] \in {"parked", "woken", "pass3"}
                      /\ commit[g] \subseteq locks(op[g])
                      /\ \A c \in commit[g] : lock[c] = g
    BY DEF CommitFrameAlive
  <2>1. Leaving(g) /\ commit[g] \subseteq Chans /\ \A c \in Chans : lock[c] = g <=> Holds(g, c)
    BY Basics
  <2> QED  BY <2>1 DEF Leaving, Holds
<1> QED  BY InvInductive, <1>1, PTL

\* Channels: the process never dies of a panic that only a broken channel can raise.
THEOREM PanicsAreThePrograms == Spec => []NoInternalPanic
<1>1. Inv => NoInternalPanic  BY DEF Inv
<1> QED  BY InvInductive, <1>1, PTL

-----------------------------------------------------------------------------
(* The refinement.  What the abstract outcome of an operation is depends on *)
(* more than the properties above: on a single case having been claimed.    *)

\* A goroutine that parks has queued a sudog for each of its cases.
AllQueued(g) == \A i \in DOMAIN op[g].cases, d \in Dirs, c \in Chans :
    CaseIs(g, i, d, c) /\ ((pc[g] = "register" /\ i < next[g]) \/ pc[g] = "parked")
        => <<g, i>> \in Who(d, c)

\* It is claimed through one of them only.
OneWinner(g) == pc[g] \in {"woken", "pass3"} =>
    /\ \A w \in winners[g] : case(g, w).c # Nil
    /\ \A i, j \in DOMAIN op[g].cases, d, e \in Dirs, c, b \in Chans :
          Won(g, i, d, c) /\ Won(g, j, e, b) => i = j

\* Until then it offers the value of its current operation.
Offered(g) == pc[g] \in {"lock", "register", "parked"} =>
    \A i \in DOMAIN op[g].cases : case(g, i).dir = "send" => sd[g][i].v = <<g, ops[g]>>

\* An operation that leaves by itself did not fail as a sender; Close has closed.
Settled(g) ==
    /\ pc[g] = "unlock" /\ op[g].kind # "close" /\ res[g].i # 0 =>
          /\ res[g].i \in DOMAIN op[g].cases
          /\ case(g, res[g].i).dir = "send" => res[g].ok
    /\ pc[g] = "closing" => case(g, 1).c \in Chans /\ closed[case(g, 1).c]

More(g) == AllQueued(g) /\ OneWinner(g) /\ Offered(g) /\ Settled(g)
IInv == Inv /\ \A g \in G : More(g)

\* The abstract outcome of a goroutine that was claimed is what the claimed sudog says.
OutsMeant == \A g \in G : pc[g] \in {"woken", "pass3"} =>
    \A i \in DOMAIN op[g].cases, d \in Dirs, c \in Chans :
        Won(g, i, d, c) => absOut[g] = Outcome(g, i)

\* One case was claimed, so the mapping finds it.
LEMMA Meant == IInv => OutsMeant
<1> SUFFICES ASSUME IInv, NEW g \in G, pc[g] \in {"woken", "pass3"}, NEW i \in DOMAIN op[g].cases,
                    NEW d \in Dirs, NEW c \in Chans, Won(g, i, d, c)
             PROVE  absOut[g] = Outcome(g, i)
  BY DEF OutsMeant
<1>0. Inv /\ More(g) /\ Frame(g) /\ op[g] \in Op /\ TypeOK  BY Basics DEF IInv
<1>1. op[g] \in Menu[g] /\ op[g].kind # "close"  BY <1>0 DEF Frame
<1>2. \A j \in DOMAIN op[g].cases : case(g, j).dir \in Dirs /\ case(g, j).c \in Chans \cup {Nil}
  BY <1>0, <1>1, MenuFacts, OpFacts DEF case
<1>3. ASSUME NEW j \in DOMAIN op[g].cases, TookEffect(g, j) PROVE j = i
  <2> PICK e \in Dirs : e = case(g, j).dir  BY <1>2
  <2> PICK b \in Chans : b = case(g, j).c  BY <1>2, <1>3 DEF TookEffect
  <2>1. CaseIs(g, j, e, b)  BY DEF CaseIs
  <2>2. j \in winners[g] \/ (j >= next[g] /\ ~Queued(Line(e, b), <<g, j>>))
    BY <1>3 DEF TookEffect, Line
  <2>3. Won(g, j, e, b)  BY <2>1, <2>2 DEF Won, Queued, Who
  <2> QED  BY <1>0, <2>3 DEF More, OneWinner
<1>4. TookEffect(g, i)
  <2>1. case(g, i).dir = d /\ case(g, i).c = c /\ c # Nil  BY <1>0, OpFacts DEF Won, CaseIs
  <2>2. i \in winners[g] \/ (i >= next[g] /\ ~Queued(Line(d, c), <<g, i>>))
    BY DEF Won, Queued, Who
  <2> QED  BY <2>1, <2>2 DEF TookEffect, Line
<1> DEFINE w == CHOOSE j \in DOMAIN op[g].cases : TookEffect(g, j)
<1>5. w \in DOMAIN op[g].cases /\ TookEffect(g, w)  BY <1>4
<1>6. w = i  BY <1>3, <1>5
<1>7. absOut[g] = Outcome(g, w)  BY DEF absOut
<1> QED  BY <1>6, <1>7

\* The same in the next state.
LEMMA MeantNext == IInv' => OutsMeant'
<1>1. (IInv => OutsMeant)'  BY Meant, PTL
<1> QED  BY <1>1

\* What the mapping makes of the other places of an operation.
LEMMA AbsAt ==
  ASSUME NEW g \in G
  PROVE  /\ pc[g] = "idle" => absPhase[g] = "idle"
         /\ pc[g] \in {"lock", "register", "parked"} => absPhase[g] = "pending"
         /\ pc[g] \in {"woken", "pass3", "closing", "unlock"} => absPhase[g] = "fired"
         /\ pc[g] \in {"idle", "lock", "register", "parked", "unlock"} => absOut[g] = res[g]
         /\ pc[g] = "closing" => absOut[g] = [i |-> 1, v |-> None, ok |-> TRUE]
         /\ pc'[g] = "idle" => absPhase'[g] = "idle"
         /\ pc'[g] \in {"lock", "register", "parked"} => absPhase'[g] = "pending"
         /\ pc'[g] \in {"woken", "pass3", "closing", "unlock"} => absPhase'[g] = "fired"
         /\ pc'[g] \in {"idle", "lock", "register", "parked", "unlock"} => absOut'[g] = res'[g]
         /\ pc'[g] = "closing" => absOut'[g] = [i |-> 1, v |-> None, ok |-> TRUE]
  BY DEF absPhase, absOut

\* A goroutine that a step leaves alone, its sudogs in the queues included.
Kept(x) ==
    /\ pc'[x] = pc[x] /\ op'[x] = op[x] /\ sd'[x] = sd[x] /\ next'[x] = next[x]
    /\ winners'[x] = winners[x] /\ ops'[x] = ops[x] /\ res'[x] = res[x]
    /\ \A d \in Dirs, c \in Chans, i \in DOMAIN op[x].cases :
          <<x, i>> \in Who(d, c)' <=> <<x, i>> \in Who(d, c)
Unmoved(x) == absPhase'[x] = absPhase[x] /\ absOut'[x] = absOut[x]

\* What more is known of such a goroutine stays true.
LEMMA KeptMore ==
  ASSUME NEW x \in G, Kept(x), More(x), \A c \in Chans : closed[c] => closed'[c]
  PROVE  More(x)'
<1>1. AllQueued(x)'  BY DEF Kept, More, AllQueued, CaseIs, case
<1>2. OneWinner(x)'
  <2>1. \A i \in DOMAIN op[x].cases, d \in Dirs, c \in Chans : Won(x, i, d, c)' <=> Won(x, i, d, c)
    BY DEF Kept, Won, CaseIs, case
  <2> QED  BY <2>1 DEF Kept, More, OneWinner, case
<1>3. Offered(x)'  BY DEF Kept, More, Offered, case
<1>4. Settled(x)'  BY DEF Kept, More, Settled, case
<1> QED  BY <1>1, <1>2, <1>3, <1>4 DEF More

\* Its abstract state is the same, too.
LEMMA KeptOut ==
  ASSUME TypeOK, Claimed, OutsMeant, OutsMeant', NEW x \in G, Kept(x)
  PROVE  Unmoved(x)
<1>0. pc[x] \in PCs  BY DEF TypeOK, PCs
<1>1. pc[x] \in PCs \ {"woken", "pass3"} => Unmoved(x)  BY AbsAt DEF Unmoved, Kept, PCs
<1>2. ASSUME pc[x] \in {"woken", "pass3"} PROVE Unmoved(x)
  <2>1. PICK i \in DOMAIN op[x].cases, d \in Dirs, c \in Chans : Won(x, i, d, c)
    BY <1>2 DEF Claimed, ClaimedBy
  <2>2. Won(x, i, d, c)' /\ i \in DOMAIN op'[x].cases /\ pc'[x] \in {"woken", "pass3"}
    BY <1>2, <2>1 DEF Won, Kept, CaseIs, case
  <2>3. absOut[x] = Outcome(x, i)  BY <1>2, <2>1 DEF OutsMeant
  <2>4. absOut'[x] = Outcome(x, i)'  BY <2>2 DEF OutsMeant
  <2>5. Outcome(x, i)' = Outcome(x, i)  BY DEF Outcome, Kept, case
  <2>6. absPhase'[x] = absPhase[x]  BY <1>2, <2>2, AbsAt
  <2> QED  BY <2>3, <2>4, <2>5, <2>6 DEF Unmoved
<1> QED  BY <1>0, <1>1, <1>2

\* A step that moves nobody in the abstract is a stutter there.
LEMMA Stutters ==
  ASSUME UNCHANGED <<closed, buf, op, ops>>, fatal = "none", fatal' = "none",
         \A x \in G : Unmoved(x)
  PROVE  UNCHANGED Abs!vars
<1>1. absPhase' = absPhase  BY DEF Unmoved, absPhase
<1>2. absOut' = absOut
  <2>1. absOut = [x \in G |-> absOut[x]] /\ absOut' = [x \in G |-> absOut'[x]]  BY DEF absOut
  <2> QED  BY <2>1 DEF Unmoved
<1> QED  BY <1>1, <1>2 DEF Abs!vars

\* An operation takes effect, alone or with the one it meets.
LEMMA FireOne ==
  ASSUME NEW g \in G, NEW r, UNCHANGED <<op, ops>>, fatal = "none", fatal' = "none",
         absPhase'[g] = "fired", absOut'[g] = r, \A x \in G : x # g => Unmoved(x)
  PROVE  Abs!Fire(g, r)
<1>1. absPhase = [x \in G |-> absPhase[x]] /\ absPhase' = [x \in G |-> absPhase'[x]]  BY DEF absPhase
<1>2. absOut = [x \in G |-> absOut[x]] /\ absOut' = [x \in G |-> absOut'[x]]  BY DEF absOut
<1>3. absPhase' = [absPhase EXCEPT ![g] = "fired"]  BY <1>1 DEF Unmoved
<1>4. absOut' = [absOut EXCEPT ![g] = r]  BY <1>2 DEF Unmoved
<1> QED  BY <1>3, <1>4 DEF Abs!Fire

\* The same for a rendezvous.
LEMMA FireBoth ==
  ASSUME NEW g \in G, NEW h \in G, g # h, NEW r, NEW t, UNCHANGED <<op, ops>>, fatal = "none",
         fatal' = "none", absPhase'[g] = "fired", absOut'[g] = r, absPhase'[h] = "fired",
         absOut'[h] = t, \A x \in G : x # g /\ x # h => Unmoved(x)
  PROVE  Abs!Fire2(g, r, h, t)
<1>1. absPhase = [x \in G |-> absPhase[x]] /\ absPhase' = [x \in G |-> absPhase'[x]]  BY DEF absPhase
<1>2. absOut = [x \in G |-> absOut[x]] /\ absOut' = [x \in G |-> absOut'[x]]  BY DEF absOut
<1>3. absPhase' = [absPhase EXCEPT ![g] = "fired", ![h] = "fired"]  BY <1>1 DEF Unmoved
<1>4. absOut' = [absOut EXCEPT ![g] = r, ![h] = t]  BY <1>2 DEF Unmoved
<1> QED  BY <1>3, <1>4 DEF Abs!Fire2

\* What a step of GoChan has to be in ChanSpec.
AbsStep == Abs!Next \/ UNCHANGED Abs!vars

\* A step that concerns g alone: what is left to show is what becomes of g.
LEMMA Alone ==
  ASSUME IInv, Inv', NEW g \in G, \A c \in Chans : closed[c] => closed'[c],
         \A x \in G : x # g => Kept(x), More(g)'
  PROVE  IInv' /\ OutsMeant /\ OutsMeant' /\ \A x \in G : x # g => Unmoved(x)
<1>0. TypeOK /\ Claimed /\ OutsMeant /\ \A x \in G : More(x)  BY Meant DEF IInv, Inv
<1>1. \A x \in G : More(x)'  BY <1>0, KeptMore
<1>2. IInv'  BY <1>1 DEF IInv
<1>3. OutsMeant'  BY <1>2, MeantNext
<1> QED  BY <1>0, <1>2, <1>3, KeptOut

\* A step that leaves everybody's operation as it is: locks are taken or released.
LEMMA Nobody ==
  ASSUME IInv, Inv', UNCHANGED <<closed, buf, op, ops>>, fatal = "none", fatal' = "none",
         \A x \in G : Kept(x)
  PROVE  IInv' /\ AbsStep
<1>0. TypeOK /\ Claimed /\ OutsMeant /\ \A x \in G : More(x)  BY Meant DEF IInv, Inv
<1>1. \A x \in G : More(x)'  BY <1>0, KeptMore
<1>2. IInv'  BY <1>1 DEF IInv
<1>3. OutsMeant'  BY <1>2, MeantNext
<1>4. \A x \in G : Unmoved(x)  BY <1>0, <1>3, KeptOut
<1>5. UNCHANGED Abs!vars  BY <1>4, Stutters
<1> QED  BY <1>2, <1>5 DEF AbsStep

\* Taking a lock.
LEMMA AcquireMaps == ASSUME IInv, NEW g \in G, Acquire(g) PROVE IInv' /\ AbsStep
<1>0. Inv /\ Inv'  BY AcquireKeeps DEF IInv
<1>1. fatal = "none" /\ UNCHANGED <<chanVars, pc, op, ops, next, sd, done, winners, commit, res, fatal>>
  BY DEF Acquire
<1>2. UNCHANGED <<closed, buf, sendq, recvq>>  BY <1>1 DEF chanVars
<1>3. \A x \in G : Kept(x)  BY <1>1, <1>2 DEF Kept, Who, Line
<1> QED  BY <1>0, <1>1, <1>2, <1>3, Nobody

\* The commit function of a park.
LEMMA CommitMaps == ASSUME IInv, NEW g \in G, Commit(g) PROVE IInv' /\ AbsStep
<1>0. Inv /\ Inv'  BY CommitKeeps DEF IInv
<1>1. fatal = "none" /\ UNCHANGED <<chanVars, pc, op, ops, todo, next, sd, done, winners, res, fatal>>
  BY DEF Commit
<1>2. UNCHANGED <<closed, buf, sendq, recvq>>  BY <1>1 DEF chanVars
<1>3. \A x \in G : Kept(x)  BY <1>1, <1>2 DEF Kept, Who, Line
<1> QED  BY <1>0, <1>1, <1>2, <1>3, Nobody

\* An operation begins.
LEMMA StartMaps == ASSUME IInv, NEW g \in G, Start(g) PROVE IInv' /\ AbsStep
<1>0. Inv /\ Inv' /\ TypeOK /\ ops[g] \in Nat /\ next[g] \in Nat  BY StartKeeps, Basics DEF IInv
<1>1. PICK o \in Menu[g] :
         /\ op' = [op EXCEPT ![g] = o]
         /\ sd' = [sd EXCEPT ![g] = [i \in DOMAIN o.cases |->
                      [v |-> IF o.cases[i].dir = "send" THEN <<g, ops[g] + 1>> ELSE None,
                       ok |-> FALSE]]]
  BY DEF Start
<1>2. /\ fatal = "none" /\ pc[g] = "idle" /\ ops' = [ops EXCEPT ![g] = @ + 1]
      /\ pc' = [pc EXCEPT ![g] = "lock"]
      /\ UNCHANGED <<chanVars, lock, next, done, winners, commit, res, fatal>>
  BY DEF Start
<1>u. UNCHANGED <<closed, buf, sendq, recvq>>  BY <1>2 DEF chanVars
<1>a. /\ pc'[g] = "lock" /\ op'[g] = o /\ ops'[g] = ops[g] + 1
      /\ \A i \in DOMAIN o.cases : o.cases[i].dir = "send" => sd'[g][i].v = <<g, ops[g] + 1>>
  BY <1>0, <1>1, <1>2 DEF TypeOK
<1>k. \A x \in G : x # g => Kept(x)
  BY <1>0, <1>1, <1>2, <1>u DEF TypeOK, Kept, Who, Line
<1>m. More(g)'
  <2>1. AllQueued(g)' /\ OneWinner(g)' /\ Settled(g)'  BY <1>a DEF AllQueued, OneWinner, Settled
  <2>2. Offered(g)'  BY <1>a DEF Offered, case
  <2> QED  BY <2>1, <2>2 DEF More
<1>3. IInv' /\ \A x \in G : x # g => Unmoved(x)  BY <1>0, <1>u, <1>k, <1>m, Alone DEF IInv
<1>4. absPhase[g] = "idle" /\ absPhase'[g] = "pending" /\ absOut'[g] = absOut[g]
  BY <1>2, <1>a, AbsAt
<1>5. Abs!Begin(g)
  <2>1. absPhase = [x \in G |-> absPhase[x]] /\ absPhase' = [x \in G |-> absPhase'[x]]  BY DEF absPhase
  <2>2. absOut = [x \in G |-> absOut[x]] /\ absOut' = [x \in G |-> absOut'[x]]  BY DEF absOut
  <2>3. absPhase' = [absPhase EXCEPT ![g] = "pending"]  BY <1>3, <1>4, <2>1 DEF Unmoved
  <2>4. absOut' = absOut  BY <1>3, <1>4, <2>2 DEF Unmoved
  <2>5. [x \in G |-> <<x, ops[x]>>]' = [[x \in G |-> <<x, ops[x]>>] EXCEPT ![g] = <<g, @[2] + 1>>]
    BY <1>0, <1>2 DEF TypeOK
  <2> QED  BY <1>1, <1>2, <1>4, <1>u, <2>3, <2>4, <2>5 DEF Abs!Begin
<1> QED  BY <1>2, <1>3, <1>5 DEF AbsStep, Abs!Next

\* An operation returns its outcome.
LEMMA Returns ==
  ASSUME IInv', NEW g \in G, absPhase[g] = "fired", pc'[g] = "idle", res'[g] = absOut[g],
         op' = [op EXCEPT ![g] = NoOp], UNCHANGED <<closed, buf, ops>>,
         fatal = "none", \A x \in G : x # g => Unmoved(x),
         fatal' # "none" <=> (/\ op[g].kind # "close" /\ absOut[g].i # 0
                              /\ op[g].cases[absOut[g].i].dir = "send" /\ ~absOut[g].ok)
  PROVE  AbsStep
<1>1. absPhase'[g] = "idle" /\ absOut'[g] = absOut[g]  BY AbsAt
<1>2. absPhase = [x \in G |-> absPhase[x]] /\ absPhase' = [x \in G |-> absPhase'[x]]  BY DEF absPhase
<1>3. absOut = [x \in G |-> absOut[x]] /\ absOut' = [x \in G |-> absOut'[x]]  BY DEF absOut
<1>4. absPhase' = [absPhase EXCEPT ![g] = "idle"]  BY <1>1, <1>2 DEF Unmoved
<1>5. absOut' = absOut  BY <1>1, <1>3 DEF Unmoved
<1>6. Abs!Return(g)  BY <1>4, <1>5 DEF Abs!Return
<1> QED  BY <1>6 DEF AbsStep, Abs!Next

\* The locks are released and the operation returns.
LEMMA ReleaseMaps == ASSUME IInv, NEW g \in G, Release(g) PROVE IInv' /\ AbsStep
<1>0. Inv /\ Inv' /\ TypeOK /\ More(g)  BY ReleaseKeeps, Basics DEF IInv
<1>1. /\ fatal = "none" /\ pc[g] = "unlock"
      /\ UNCHANGED <<chanVars, ops, next, done, winners, commit, res, fatal>>
  BY DEF Release
<1>u. UNCHANGED <<closed, buf, sendq, recvq>>  BY <1>1 DEF chanVars
<1>2. ASSUME UNCHANGED <<pc, op, sd>> PROVE IInv' /\ AbsStep
  <2>1. \A x \in G : Kept(x)  BY <1>1, <1>2, <1>u DEF Kept, Who, Line
  <2> QED  BY <1>0, <1>1, <1>2, <1>u, <2>1, Nobody
<1>3. ASSUME pc' = [pc EXCEPT ![g] = "idle"], op' = [op EXCEPT ![g] = NoOp],
             sd' = [sd EXCEPT ![g] = << >>]
      PROVE  IInv' /\ AbsStep
  <2>k. \A x \in G : x # g => Kept(x)  BY <1>0, <1>1, <1>3, <1>u DEF TypeOK, Kept, Who, Line
  <2>a. pc'[g] = "idle"  BY <1>0, <1>3 DEF TypeOK
  <2>m. More(g)'  BY <2>a DEF More, AllQueued, OneWinner, Offered, Settled
  <2>1. IInv' /\ \A x \in G : x # g => Unmoved(x)  BY <1>0, <1>u, <2>k, <2>m, Alone DEF IInv
  <2>2. absPhase[g] = "fired" /\ absOut[g] = res[g]  BY <1>1, AbsAt
  <2>3. ~(op[g].kind # "close" /\ res[g].i # 0 /\ op[g].cases[res[g].i].dir = "send" /\ ~res[g].ok)
    BY <1>0, <1>1 DEF More, Settled, case
  <2> QED  BY <1>1, <1>3, <1>u, <2>1, <2>2, <2>3, <2>a, Returns
<1> QED  BY <1>2, <1>3 DEF Release

\* A step within an operation that has not taken effect.
LEMMA PendingStays ==
  ASSUME IInv, Inv', NEW g \in G, UNCHANGED <<closed, buf, op, ops>>, fatal = "none", fatal' = "none",
         \A x \in G : x # g => Kept(x), More(g)', res'[g] = res[g],
         pc[g] \in {"lock", "register", "parked"}, pc'[g] \in {"lock", "register", "parked"}
  PROVE  IInv' /\ AbsStep
<1>1. IInv' /\ \A x \in G : x # g => Unmoved(x)  BY Alone
<1>2. Unmoved(g)  BY AbsAt DEF Unmoved
<1>3. \A x \in G : Unmoved(x)  BY <1>1, <1>2
<1>4. UNCHANGED Abs!vars  BY <1>3, Stutters
<1> QED  BY <1>1, <1>4 DEF AbsStep

\* A step within an operation that was claimed: the case that was claimed is still the only one.
LEMMA ClaimedStays ==
  ASSUME IInv, Inv', NEW g \in G, UNCHANGED <<closed, buf, op, ops, sd>>, fatal = "none", fatal' = "none",
         \A x \in G : x # g => Kept(x),
         pc[g] \in {"woken", "pass3"}, pc'[g] \in {"woken", "pass3"},
         \A w \in winners'[g] : case(g, w).c # Nil,
         \A i \in DOMAIN op[g].cases, d \in Dirs, c \in Chans : Won(g, i, d, c)' => Won(g, i, d, c)
  PROVE  IInv' /\ AbsStep
<1>0. More(g)  BY DEF IInv
<1>1. OneWinner(g)'
  <2>1. \A w \in winners'[g] : (case(g, w)').c # Nil  BY DEF case
  <2>2. \A i, j \in DOMAIN op'[g].cases, d, e \in Dirs, c, b \in Chans :
           Won(g, i, d, c)' /\ Won(g, j, e, b)' => i = j
    BY <1>0 DEF More, OneWinner
  <2> QED  BY <2>1, <2>2 DEF OneWinner
<1>2. More(g)'  BY <1>1 DEF More, AllQueued, Offered, Settled
<1>3. IInv' /\ OutsMeant /\ OutsMeant' /\ \A x \in G : x # g => Unmoved(x)  BY <1>2, Alone
<1>4. Unmoved(g)
  <2>1. ClaimedBy(g)'  BY DEF Inv, Claimed
  <2>2. PICK i \in DOMAIN op[g].cases, d \in Dirs, c \in Chans : Won(g, i, d, c)'
    BY <2>1 DEF ClaimedBy
  <2>3. absOut[g] = Outcome(g, i)  BY <1>3, <2>2 DEF OutsMeant
  <2>4. absOut'[g] = Outcome(g, i)'  BY <1>3, <2>2 DEF OutsMeant
  <2>5. Outcome(g, i)' = Outcome(g, i)  BY DEF Outcome, case
  <2> QED  BY <2>3, <2>4, <2>5, AbsAt DEF Unmoved
<1>5. \A x \in G : Unmoved(x)  BY <1>3, <1>4
<1>6. UNCHANGED Abs!vars  BY <1>5, Stutters
<1> QED  BY <1>3, <1>6 DEF AbsStep

\* Pass 2 begins.
LEMMA BlockMaps == ASSUME IInv, NEW g \in G, Block(g) PROVE IInv' /\ AbsStep
<1>0. Inv /\ Inv' /\ TypeOK /\ More(g) /\ Frame(g) /\ op[g] \in Op  BY BlockKeeps, Basics DEF IInv
<1>1. /\ fatal = "none" /\ pc[g] = "lock" /\ pc' = [pc EXCEPT ![g] = "register"]
      /\ UNCHANGED <<chanVars, lock, op, ops, todo, next, sd, done, winners, commit, res, fatal>>
  BY DEF Block, Holding
<1>u. UNCHANGED <<closed, buf, sendq, recvq>>  BY <1>1 DEF chanVars
<1>a. pc'[g] = "register" /\ next[g] = 1  BY <1>0, <1>1 DEF TypeOK, Frame
<1>k. \A x \in G : x # g => Kept(x)  BY <1>0, <1>1, <1>u DEF TypeOK, Kept, Who, Line
<1>2. AllQueued(g)'
  <2>1. \A i \in DOMAIN op[g].cases : ~(i < 1)  BY <1>0, OpFacts
  <2> QED  BY <1>1, <1>a, <2>1 DEF AllQueued
<1>3. Offered(g)'  BY <1>0, <1>1 DEF More, Offered, case
<1>4. More(g)'  BY <1>a, <1>2, <1>3 DEF More, OneWinner, Settled
<1> QED  BY <1>0, <1>1, <1>u, <1>a, <1>k, <1>4, PendingStays

\* Pass 2 goes on.
LEMMA RegisterMaps == ASSUME IInv, NEW g \in G, Register(g) PROVE IInv' /\ AbsStep
<1>0. /\ Inv /\ Inv' /\ TypeOK /\ More(g) /\ op[g] \in Op /\ next[g] \in Nat /\ pc[g] = "register"
      /\ fatal = "none" /\ UNCHANGED <<closed, buf, op, ops, sd, winners, res>>
  BY RegisterKeeps, Basics DEF IInv, Register
<1>i. DOMAIN op[g].cases \subseteq Nat /\ DOMAIN op[g].cases = 1..Len(op[g].cases) /\ Len(op[g].cases) \in Nat
  BY <1>0, OpFacts
<1>1. CASE next[g] > Len(op[g].cases)
  <2>1. /\ pc' = [pc EXCEPT ![g] = "parked"] /\ next' = [next EXCEPT ![g] = 1]
        /\ UNCHANGED <<sendq, recvq, fatal>>
    BY <1>1 DEF Register
  <2>a. pc'[g] = "parked"  BY <1>0, <2>1 DEF TypeOK
  <2>k. \A x \in G : x # g => Kept(x)  BY <1>0, <2>1 DEF TypeOK, Kept, Who, Line
  <2>2. AllQueued(g)'
    <3>1. \A i \in DOMAIN op[g].cases : i < next[g]  BY <1>0, <1>1, <1>i
    <3>2. \A i \in DOMAIN op[g].cases, d \in Dirs, c \in Chans :
             CaseIs(g, i, d, c) => <<g, i>> \in Who(d, c)
      BY <1>0, <3>1 DEF More, AllQueued
    <3>3. \A d, c : Who(d, c)' = Who(d, c)  BY <2>1 DEF Who, Line
    <3> QED  BY <1>0, <3>2, <3>3 DEF AllQueued, CaseIs, case
  <2>3. Offered(g)'  BY <1>0 DEF More, Offered, case
  <2>4. More(g)'  BY <2>a, <2>2, <2>3 DEF More, OneWinner, Settled
  <2> QED  BY <1>0, <2>1, <2>a, <2>k, <2>4, PendingStays
<1>2. CASE ~(next[g] > Len(op[g].cases))
  <2> PICK n : n = next[g]  OBVIOUS
  <2>f. Offered(g)'  BY <1>0, RegisterOne, <1>2 DEF More, Offered, case
  <2>i. \A i \in DOMAIN op[g].cases : i < n + 1 => i < n \/ i = n  BY <1>0, <1>i
  <2>1. CASE /\ case(g, n).c = Nil /\ next' = [next EXCEPT ![g] = @ + 1]
             /\ UNCHANGED <<closed, buf, sendq, recvq, lock, pc, op, ops, todo, sd, done, winners,
                            commit, res, fatal>>
    <3>a. next'[g] = n + 1 /\ pc'[g] = "register"  BY <1>0, <2>1 DEF TypeOK
    <3>k. \A x \in G : x # g => Kept(x)  BY <1>0, <2>1 DEF TypeOK, Kept, Who, Line
    <3>1. \A d \in Dirs, c \in Chans : ~CaseIs(g, n, d, c)  BY <1>0, <2>1, OpFacts DEF CaseIs
    <3>2. \A i \in DOMAIN op[g].cases, d \in Dirs, c \in Chans :
             CaseIs(g, i, d, c) /\ i < n + 1 => <<g, i>> \in Who(d, c)
      BY <1>0, <2>i, <3>1 DEF More, AllQueued
    <3>w. \A d, c : Who(d, c)' = Who(d, c)  BY <2>1 DEF Who, Line
    <3>3. AllQueued(g)'  BY <2>1, <3>a, <3>2, <3>w DEF AllQueued, CaseIs, case
    <3>4. More(g)'  BY <2>f, <3>a, <3>3 DEF More, OneWinner, Settled
    <3> QED  BY <1>0, <2>1, <3>a, <3>k, <3>4, PendingStays
  <2>2. ASSUME NEW d \in Dirs, NEW c \in Chans, Joins(g, n, d, c) PROVE IInv' /\ AbsStep
    <3>1. /\ CaseIs(g, n, d, c) /\ next' = [next EXCEPT ![g] = @ + 1]
          /\ UNCHANGED <<closed, buf, lock, pc, op, ops, todo, sd, done, winners, commit, res, fatal>>
      BY <2>2 DEF Joins
    <3>2. /\ \A e \in Dirs, b \in Chans : \A s \in Who(e, b)' :
                s \in Who(e, b) \/ (e = d /\ b = c /\ s = <<g, n>>)
          /\ \A e \in Dirs, b \in Chans : Who(e, b) \subseteq Who(e, b)'
          /\ <<g, n>> \in Who(d, c)'
      BY <1>0, <2>2, JoinsQueue
    <3>a. next'[g] = n + 1 /\ pc'[g] = "register"  BY <1>0, <3>1 DEF TypeOK
    <3>k. ASSUME NEW x \in G, x # g PROVE Kept(x)
      <4>1. \A e \in Dirs, b \in Chans, i \in DOMAIN op[x].cases :
               <<x, i>> \in Who(e, b)' <=> <<x, i>> \in Who(e, b)
        BY <3>2, <3>k
      <4>2. next'[x] = next[x]  BY <1>0, <3>1, <3>k DEF TypeOK
      <4> QED  BY <3>1, <4>1, <4>2 DEF Kept
    <3>3. \A i \in DOMAIN op[g].cases, e \in Dirs, b \in Chans :
             CaseIs(g, i, e, b) /\ i < n + 1 => <<g, i>> \in Who(e, b)'
      <4> SUFFICES ASSUME NEW i \in DOMAIN op[g].cases, NEW e \in Dirs, NEW b \in Chans,
                          CaseIs(g, i, e, b), i < n + 1
                   PROVE  <<g, i>> \in Who(e, b)'
        OBVIOUS
      <4>1. CASE i < n  BY <1>0, <3>2, <4>1 DEF More, AllQueued
      <4>2. CASE i = n
        <5>1. e = d /\ b = c  BY <3>1, <4>2 DEF CaseIs
        <5> QED  BY <3>2, <4>2, <5>1
      <4> QED  BY <2>i, <4>1, <4>2
    <3>4. AllQueued(g)'
      <4>1. \A i \in DOMAIN op[g].cases, e \in Dirs, b \in Chans :
               CaseIs(g, i, e, b)' <=> CaseIs(g, i, e, b)
        BY <3>1 DEF CaseIs, case
      <4> QED  BY <3>1, <3>3, <3>a, <4>1 DEF AllQueued
    <3>5. More(g)'  BY <2>f, <3>a, <3>4 DEF More, OneWinner, Settled
    <3> QED  BY <1>0, <3>1, <3>a, <3>k, <3>5, PendingStays
  <2> QED  BY <1>0, <1>2, <2>1, <2>2, RegisterOne
<1> QED  BY <1>1, <1>2

\* Pass 3 begins.
LEMMA ResumeSelectMaps == ASSUME IInv, NEW g \in G, ResumeSelect(g) PROVE IInv' /\ AbsStep
<1>0. Inv /\ Inv' /\ TypeOK /\ More(g)  BY ResumeSelectKeeps, Basics DEF IInv
<1>1. /\ fatal = "none" /\ pc[g] = "woken" /\ pc' = [pc EXCEPT ![g] = "pass3"]
      /\ UNCHANGED <<chanVars, lock, op, ops, todo, next, sd, done, winners, commit, res, fatal>>
  BY DEF ResumeSelect
<1>u. UNCHANGED <<closed, buf, sendq, recvq>>  BY <1>1 DEF chanVars
<1>a. pc'[g] = "pass3"  BY <1>0, <1>1 DEF TypeOK
<1>k. \A x \in G : x # g => Kept(x)  BY <1>0, <1>1, <1>u DEF TypeOK, Kept, Who, Line
<1>2. \A i \in DOMAIN op[g].cases, d \in Dirs, c \in Chans : Won(g, i, d, c)' => Won(g, i, d, c)
  BY <1>1, <1>u DEF Won, CaseIs, case, Who, Line
<1>3. \A w \in winners'[g] : case(g, w).c # Nil  BY <1>0, <1>1 DEF More, OneWinner
<1> QED  BY <1>0, <1>1, <1>u, <1>a, <1>k, <1>2, <1>3, ClaimedStays

\* Pass 3 goes on.
LEMMA CancelMaps == ASSUME IInv, NEW g \in G, Cancel(g) PROVE IInv' /\ AbsStep
<1>0. Inv /\ Inv' /\ TypeOK /\ More(g) /\ op[g] \in Op /\ next[g] \in Nat /\ fatal = "none"
  BY CancelKeeps, CancelLeaves, Basics DEF IInv
<1>1. PICK n, W : Leaves(g, n, W)  BY <1>0, CancelLeaves
<1>2. /\ pc[g] = "pass3" /\ n = next[g] /\ n \in DOMAIN op[g].cases
      /\ next' = [next EXCEPT ![g] = @ + 1] /\ winners' = [winners EXCEPT ![g] = W]
      /\ W \subseteq winners[g] \cup {n} /\ (case(g, n).c = Nil => W = winners[g])
      /\ UNCHANGED <<closed, buf, lock, pc, op, ops, todo, sd, done, commit, res, fatal>>
  BY <1>1 DEF Leaves
<1>3. /\ \A e \in Dirs, b \in Chans : Who(e, b)' \subseteq Who(e, b)
      /\ \A e \in Dirs, b \in Chans : \A t \in Who(e, b) : t \in Who(e, b)' \/ t = <<g, n>>
      /\ \A e \in Dirs, b \in Chans : CaseIs(g, n, e, b) /\ <<g, n>> \in Who(e, b) => W = winners[g]
  BY <1>1 DEF Leaves
<1>i. \A i \in DOMAIN op[g].cases : i \in Nat  BY <1>0, OpFacts
<1>a. next'[g] = n + 1 /\ winners'[g] = W  BY <1>0, <1>2 DEF TypeOK
<1>k. ASSUME NEW x \in G, x # g PROVE Kept(x)
  <2>1. \A e \in Dirs, b \in Chans, i \in DOMAIN op[x].cases :
           <<x, i>> \in Who(e, b)' <=> <<x, i>> \in Who(e, b)
    BY <1>3, <1>k
  <2>2. next'[x] = next[x] /\ winners'[x] = winners[x]  BY <1>0, <1>2, <1>k DEF TypeOK
  <2> QED  BY <1>2, <2>1, <2>2 DEF Kept
<1>4. \A w \in winners'[g] : case(g, w).c # Nil  BY <1>0, <1>2, <1>a DEF More, OneWinner
<1>5. ASSUME NEW i \in DOMAIN op[g].cases, NEW d \in Dirs, NEW c \in Chans, Won(g, i, d, c)'
      PROVE  Won(g, i, d, c)
  <2>1. CaseIs(g, i, d, c)  BY <1>2, <1>5 DEF Won, CaseIs, case
  <2>2. i \in W \/ (i >= n + 1 /\ <<g, i>> \notin Who(d, c)')  BY <1>5, <1>a DEF Won
  <2>3. CASE i \in winners[g]  BY <2>1, <2>3 DEF Won
  <2>4. CASE i \in W /\ i \notin winners[g]
    <3>1. i = n /\ W # winners[g]  BY <1>2, <2>4
    <3>2. <<g, i>> \notin Who(d, c)  BY <1>3, <2>1, <3>1
    <3> QED  BY <1>0, <1>2, <2>1, <3>1, <3>2 DEF Won
  <2>5. CASE i >= n + 1 /\ <<g, i>> \notin Who(d, c)'
    <3>1. i >= n /\ i # n  BY <1>0, <1>2, <1>i, <2>5
    <3>2. <<g, i>> \notin Who(d, c)  BY <1>3, <2>5, <3>1
    <3> QED  BY <1>2, <2>1, <3>1, <3>2 DEF Won
  <2> QED  BY <2>2, <2>3, <2>4, <2>5
<1> QED  BY <1>0, <1>2, <1>k, <1>4, <1>5, ClaimedStays

\* A readied operation returns what its claimed sudog says.
LEMMA FinishMaps ==
  ASSUME IInv, Inv', NEW g \in G, NEW i \in DOMAIN op[g].cases, NEW d \in Dirs, NEW c \in Chans,
         Won(g, i, d, c), pc[g] \in {"woken", "pass3"}, Finish(g, i), fatal = "none",
         fatal' = FailedSend(g, i), UNCHANGED <<closed, buf, sendq, recvq, ops>>,
         \A x \in G : x # g => next'[x] = next[x] /\ winners'[x] = winners[x]
  PROVE  IInv' /\ AbsStep
<1>0. TypeOK /\ Frame(g) /\ op[g] \in Op  BY Basics DEF IInv
<1>1. /\ res' = [res EXCEPT ![g] = Outcome(g, i)] /\ pc' = [pc EXCEPT ![g] = "idle"]
      /\ op' = [op EXCEPT ![g] = NoOp] /\ sd' = [sd EXCEPT ![g] = << >>]
  BY DEF Finish
<1>a. pc'[g] = "idle" /\ res'[g] = Outcome(g, i)  BY <1>0, <1>1 DEF TypeOK
<1>w. \A e, b : Who(e, b)' = Who(e, b)  BY DEF Who, Line
<1>k. \A x \in G : x # g => Kept(x)  BY <1>0, <1>1, <1>w DEF TypeOK, Kept
<1>2. More(g)'  BY <1>a DEF More, AllQueued, OneWinner, Offered, Settled
<1>3. IInv' /\ OutsMeant /\ \A x \in G : x # g => Unmoved(x)  BY <1>2, <1>k, Alone
<1>4. absOut[g] = Outcome(g, i) /\ absPhase[g] = "fired"  BY <1>3, AbsAt DEF OutsMeant
<1>5. i # 0 /\ op[g].kind # "close"  BY <1>0, OpFacts DEF Frame
<1>6. absOut[g].i = i /\ absOut[g].ok = sd[g][i].ok  BY <1>4 DEF Outcome
<1>7. fatal' # "none" <=> (/\ op[g].kind # "close" /\ absOut[g].i # 0
                           /\ op[g].cases[absOut[g].i].dir = "send" /\ ~absOut[g].ok)
  BY <1>5, <1>6 DEF FailedSend, case
<1> QED  BY <1>1, <1>3, <1>4, <1>7, <1>a, Returns

\* A plain Send or Recv returns.
LEMMA ResumePlainMaps == ASSUME IInv, NEW g \in G, ResumePlain(g) PROVE IInv' /\ AbsStep
<1>0. Inv /\ Inv' /\ TypeOK /\ Frame(g) /\ ClaimedBy(g) /\ ValuesOf(g)
  BY ResumePlainKeeps, Basics DEF IInv
<1>1. /\ fatal = "none" /\ pc[g] = "woken" /\ op[g].kind = "plain" /\ Finish(g, 1)
      /\ UNCHANGED <<chanVars, lock, ops, todo, next, winners, commit>>
  BY DEF ResumePlain
<1>u. UNCHANGED <<closed, buf, sendq, recvq>>  BY <1>1 DEF chanVars
<1>2. DOMAIN op[g].cases = {1}  BY <1>0, <1>1, MenuFacts DEF Frame
<1>3. PICK i \in DOMAIN op[g].cases, d \in Dirs, c \in Chans : Won(g, i, d, c)
  BY <1>0, <1>1 DEF ClaimedBy
<1>4. 1 \in DOMAIN op[g].cases /\ Won(g, 1, d, c)  BY <1>2, <1>3
<1>5. ~(case(g, 1).dir = "recv" /\ sd[g][1].ok /\ sd[g][1].v = None)  BY <1>0, <1>4 DEF ValuesOf
<1>6. fatal' = FailedSend(g, 1)  BY <1>5 DEF ResumePlain
<1> QED  BY <1>0, <1>1, <1>u, <1>4, <1>6, FinishMaps

\* A select returns.
LEMMA DispatchMaps == ASSUME IInv, NEW g \in G, Dispatch(g) PROVE IInv' /\ AbsStep
<1>0. /\ Inv /\ Inv' /\ TypeOK /\ Frame(g) /\ ClaimedBy(g) /\ op[g] \in Op /\ next[g] \in Nat /\ More(g)
  BY DispatchKeeps, Basics DEF IInv
<1>1. /\ fatal = "none" /\ pc[g] = "pass3" /\ Pass3Over(g) /\ next' = [next EXCEPT ![g] = 1]
      /\ winners' = [winners EXCEPT ![g] = {}] /\ UNCHANGED <<chanVars, lock, ops, todo, commit>>
  BY DEF Dispatch
<1>u. UNCHANGED <<closed, buf, sendq, recvq>>  BY <1>1 DEF chanVars
<1>2. winners[g] # {}
  <2>1. PICK i \in DOMAIN op[g].cases, d \in Dirs, c \in Chans : Won(g, i, d, c)
    BY <1>0, <1>1 DEF ClaimedBy
  <2>2. ~(i >= next[g])  BY <1>0, <1>1, OpFacts DEF Pass3Over
  <2> QED  BY <2>1, <2>2 DEF Won
<1>3. PICK i \in winners[g] : Finish(g, i) /\ fatal' = FailedSend(g, i)  BY <1>2 DEF Dispatch
<1>4. i \in DOMAIN op[g].cases /\ op[g] \in Menu[g] /\ op[g].kind # "close"  BY <1>0, <1>1, <1>3 DEF Frame
<1>5. case(g, i).c # Nil  BY <1>0, <1>1, <1>3 DEF More, OneWinner
<1> PICK d \in Dirs : d = case(g, i).dir  BY <1>4, MenuFacts DEF case
<1> PICK c \in Chans : c = case(g, i).c  BY <1>0, <1>4, <1>5, OpFacts DEF case
<1>6. Won(g, i, d, c)  BY <1>3, <1>4 DEF Won, CaseIs
<1>7. \A x \in G : x # g => next'[x] = next[x] /\ winners'[x] = winners[x]  BY <1>0, <1>1 DEF TypeOK
<1> QED  BY <1>0, <1>1, <1>u, <1>3, <1>4, <1>6, <1>7, FinishMaps

-----------------------------------------------------------------------------
(* Operations that take effect.                                            *)

\* A pending operation offers its cases.
LEMMA OffersIt ==
  ASSUME TypeOK, NEW g \in G, NEW i \in DOMAIN op[g].cases, NEW d, NEW c \in Chans, CaseIs(g, i, d, c),
         pc[g] \in {"lock", "register", "parked"}
  PROVE  Abs!Offers(g, i, d, c)
<1>1. op[g] \in Op  BY DEF TypeOK
<1>2. op[g].cases[i] \in Case /\ c # Nil  BY <1>1, OpFacts
<1>3. op[g].cases[i] = [dir |-> d, c |-> c]  BY <1>2 DEF Case, CaseIs, case
<1> QED  BY <1>2, <1>3, AbsAt DEF Abs!Offers

\* What it offers a receiver is the value of the operation.
LEMMA OffersValue ==
  ASSUME IInv, NEW g \in G, NEW i \in DOMAIN op[g].cases, case(g, i).dir = "send",
         pc[g] \in {"lock", "register", "parked"}
  PROVE  sd[g][i].v = [x \in G |-> <<x, ops[x]>>][g]
  BY DEF IInv, More, Offered

\* One that polls and leaves by itself, with outcome r.
LEMMA FiresAlone ==
  ASSUME IInv, Inv', NEW g \in G, pc[g] = "lock", fatal = "none", NEW r,
         res' = [res EXCEPT ![g] = r], pc' = [pc EXCEPT ![g] = "unlock"],
         UNCHANGED <<closed, sendq, recvq, op, ops, next, winners, sd, fatal>>,
         r.i # 0 => r.i \in DOMAIN op[g].cases /\ (case(g, r.i).dir = "send" => r.ok)
  PROVE  IInv' /\ Abs!Fire(g, r) /\ ~(fatal # "none")
<1>0. TypeOK  BY Basics DEF IInv
<1>a. pc'[g] = "unlock" /\ res'[g] = r  BY <1>0 DEF TypeOK
<1>w. \A e, b : Who(e, b)' = Who(e, b)  BY DEF Who, Line
<1>k. \A x \in G : x # g => Kept(x)  BY <1>0, <1>w DEF TypeOK, Kept
<1>1. Settled(g)'  BY <1>a DEF Settled, case
<1>2. More(g)'  BY <1>a, <1>1 DEF More, AllQueued, OneWinner, Offered
<1>3. IInv' /\ \A x \in G : x # g => Unmoved(x)  BY <1>2, <1>k, Alone
<1>4. absPhase'[g] = "fired" /\ absOut'[g] = r  BY <1>a, AbsAt
<1> QED  BY <1>3, <1>4, FireOne

\* A receive from a closed and drained channel.
LEMMA RecvClosedMaps ==
  ASSUME IInv, NEW g \in G, Holding(g), NEW i \in DOMAIN op[g].cases, case(g, i).c # Nil,
         case(g, i).dir = "recv", RecvClosed(g, i), Inv'
  PROVE  IInv' /\ AbsStep
<1> PICK c : c = case(g, i).c  OBVIOUS
<1>0. Inv /\ TypeOK /\ c \in Chans /\ pc[g] = "lock" /\ fatal = "none"  BY PollFacts, Basics DEF IInv
<1> PICK r : r = [i |-> i, v |-> None, ok |-> FALSE]  OBVIOUS
<1>1. /\ closed[c] /\ buf[c] = << >> /\ pc' = [pc EXCEPT ![g] = "unlock"]
      /\ res' = [res EXCEPT ![g] = r]
      /\ UNCHANGED <<closed, buf, sendq, recvq, op, ops, next, winners, sd, fatal>>
  BY DEF RecvClosed, Fired
<1>2. r.i \in DOMAIN op[g].cases /\ case(g, r.i).dir # "send"  OBVIOUS
<1>3. IInv' /\ Abs!Fire(g, r) /\ ~(fatal # "none")  BY <1>0, <1>1, <1>2, FiresAlone
<1>4. Abs!Offers(g, i, "recv", c)  BY <1>0, OffersIt DEF CaseIs
<1>5. Abs!RecvZero(g, i, c)  BY <1>1, <1>3, <1>4 DEF Abs!RecvZero, Abs!result
<1> QED  BY <1>0, <1>3, <1>5 DEF AbsStep, Abs!Next

\* A receive from the buffer.
LEMMA RecvFromBufMaps ==
  ASSUME IInv, NEW g \in G, Holding(g), NEW i \in DOMAIN op[g].cases, case(g, i).c # Nil,
         case(g, i).dir = "recv", RecvFromBuf(g, i), Inv'
  PROVE  IInv' /\ AbsStep
<1> PICK c : c = case(g, i).c  OBVIOUS
<1>0. Inv /\ TypeOK /\ c \in Chans /\ pc[g] = "lock" /\ fatal = "none"  BY PollFacts, Basics DEF IInv
<1> PICK r : r = [i |-> i, v |-> Head(buf[c]), ok |-> TRUE]  OBVIOUS
<1>1. /\ buf[c] # << >> /\ pc' = [pc EXCEPT ![g] = "unlock"] /\ buf' = [buf EXCEPT ![c] = Tail(@)]
      /\ res' = [res EXCEPT ![g] = r]
      /\ UNCHANGED <<closed, sendq, recvq, op, ops, next, winners, sd, fatal>>
  BY DEF RecvFromBuf, Fired
<1>2. r.i \in DOMAIN op[g].cases /\ case(g, r.i).dir # "send"  OBVIOUS
<1>3. IInv' /\ Abs!Fire(g, r) /\ ~(fatal # "none")  BY <1>0, <1>1, <1>2, FiresAlone
<1>4. Abs!Offers(g, i, "recv", c)  BY <1>0, OffersIt DEF CaseIs
<1>5. Abs!RecvBuf(g, i, c)  BY <1>1, <1>3, <1>4 DEF Abs!RecvBuf, Abs!result
<1> QED  BY <1>0, <1>3, <1>5 DEF AbsStep, Abs!Next

\* A send to the buffer.
LEMMA SendToBufMaps ==
  ASSUME IInv, NEW g \in G, Holding(g), NEW i \in DOMAIN op[g].cases, case(g, i).c # Nil,
         case(g, i).dir = "send", SendToBuf(g, i), Inv'
  PROVE  IInv' /\ AbsStep
<1> PICK c : c = case(g, i).c  OBVIOUS
<1>0. Inv /\ TypeOK /\ c \in Chans /\ pc[g] = "lock" /\ fatal = "none"  BY PollFacts, Basics DEF IInv
<1> PICK r : r = [i |-> i, v |-> None, ok |-> TRUE]  OBVIOUS
<1>1. /\ ~closed[c] /\ Len(buf[c]) < Cap[c] /\ pc' = [pc EXCEPT ![g] = "unlock"]
      /\ buf' = [buf EXCEPT ![c] = Append(@, sd[g][i].v)] /\ res' = [res EXCEPT ![g] = r]
      /\ UNCHANGED <<closed, sendq, recvq, op, ops, next, winners, sd, fatal>>
  BY DEF SendToBuf, Fired, HasRoom
<1>2. r.i \in DOMAIN op[g].cases /\ r.ok  OBVIOUS
<1>3. IInv' /\ Abs!Fire(g, r) /\ ~(fatal # "none")  BY <1>0, <1>1, <1>2, FiresAlone
<1>4. Abs!Offers(g, i, "send", c)  BY <1>0, OffersIt DEF CaseIs
<1>5. buf' = [buf EXCEPT ![c] = Append(@, [x \in G |-> <<x, ops[x]>>][g])]  BY <1>0, <1>1, OffersValue
<1>6. Abs!SendBuf(g, i, c)  BY <1>1, <1>3, <1>4, <1>5 DEF Abs!SendBuf, Abs!result
<1> QED  BY <1>0, <1>3, <1>6 DEF AbsStep, Abs!Next

\* The default case.
LEMMA DefaultMaps == ASSUME IInv, NEW g \in G, Default(g) PROVE IInv' /\ AbsStep
<1>0. Inv /\ Inv' /\ TypeOK /\ op[g] \in Op  BY DefaultKeeps, Basics DEF IInv
<1> PICK r : r = [i |-> 0, v |-> None, ok |-> FALSE]  OBVIOUS
<1>1. /\ fatal = "none" /\ pc[g] = "lock" /\ NoneReady(g) /\ op[g].dflt
      /\ pc' = [pc EXCEPT ![g] = "unlock"] /\ res' = [res EXCEPT ![g] = r]
      /\ UNCHANGED <<closed, buf, sendq, recvq, op, ops, next, winners, sd, fatal>>
  BY DEF Default, Holding, Fired
<1>2. r.i = 0  OBVIOUS
<1>3. IInv' /\ Abs!Fire(g, r) /\ ~(fatal # "none")  BY <1>0, <1>1, <1>2, FiresAlone
<1>4. ASSUME NEW i \in DOMAIN op[g].cases, NEW c \in Chans
      PROVE  /\ ~(Abs!Offers(g, i, "recv", c) /\ (closed[c] \/ buf[c] # << >>))
             /\ ~(Abs!Offers(g, i, "send", c) /\ (closed[c] \/ Len(buf[c]) < Cap[c]))
  <2>1. ~Ready(g, i)  BY <1>1 DEF NoneReady
  <2>2. Abs!Offers(g, i, "recv", c) => ~RecvReady(c)  BY <2>1 DEF Abs!Offers, Ready, case
  <2>3. Abs!Offers(g, i, "send", c) => ~SendReady(c)  BY <2>1 DEF Abs!Offers, Ready, case
  <2> QED  BY <2>2, <2>3 DEF RecvReady, SendReady, HasRoom
<1>5. absPhase[g] = "pending"  BY <1>1, AbsAt
<1>6. Abs!Default(g)  BY <1>1, <1>3, <1>4, <1>5 DEF Abs!Default, Abs!result
<1> QED  BY <1>3, <1>6 DEF AbsStep, Abs!Next

\* The process dies of a panic of the program.
LEMMA CrashMaps ==
  ASSUME IInv, Inv', NEW g \in G, pc[g] = "lock", fatal = "none", fatal' # "none",
         UNCHANGED <<closed, buf, sendq, recvq, pc, op, ops, next, sd, winners, res>>,
         \/ \E i \in DOMAIN op[g].cases, c \in Chans :
               (Abs!Offers(g, i, "send", c) \/ Abs!Offers(g, i, "close", c)) /\ closed[c]
         \/ op[g].kind = "close" /\ op[g].cases[1].c = Nil
  PROVE  IInv' /\ AbsStep
<1>0. \A x \in G : More(x)  BY DEF IInv
<1>w. \A e, b : Who(e, b)' = Who(e, b)  BY DEF Who, Line
<1>k. \A x \in G : Kept(x)  BY <1>w DEF Kept
<1>1. \A x \in G : More(x)'  BY <1>0, <1>k, KeptMore
<1>2. IInv'  BY <1>1 DEF IInv
<1>3. absPhase' = absPhase  BY DEF absPhase
<1>4. absOut' = absOut  BY DEF absOut, TookEffect, Outcome, case, Queued
<1>5. absPhase[g] = "pending"  BY AbsAt
<1>6. Abs!Crash(g)  BY <1>3, <1>4, <1>5 DEF Abs!Crash
<1> QED  BY <1>2, <1>6 DEF AbsStep, Abs!Next

\* A send on a closed channel.
LEMMA SendClosedMaps ==
  ASSUME IInv, NEW g \in G, Holding(g), NEW i \in DOMAIN op[g].cases, case(g, i).c # Nil,
         case(g, i).dir = "send", SendClosed(g, i), Inv'
  PROVE  IInv' /\ AbsStep
<1> PICK c : c = case(g, i).c  OBVIOUS
<1>0. Inv /\ TypeOK /\ c \in Chans /\ pc[g] = "lock" /\ fatal = "none"  BY PollFacts, Basics DEF IInv
<1>1. closed[c] /\ fatal' = "send on closed channel" /\ UNCHANGED <<chanVars, pc, sd, gVars>>
  BY DEF SendClosed
<1>2. UNCHANGED <<closed, buf, sendq, recvq>>  BY <1>1 DEF chanVars
<1>3. UNCHANGED <<op, ops, next, winners, res>>  BY <1>1 DEF gVars
<1>4. Abs!Offers(g, i, "send", c)  BY <1>0, OffersIt DEF CaseIs
<1> QED  BY <1>0, <1>1, <1>2, <1>3, <1>4, CrashMaps

\* Close takes effect when it marks the channel, or panics.
LEMMA CloseMarkMaps == ASSUME IInv, NEW g \in G, CloseMark(g) PROVE IInv' /\ AbsStep
<1>0. Inv /\ Inv' /\ TypeOK /\ Frame(g) /\ op[g] \in Op  BY CloseMarkKeeps, Basics DEF IInv
<1> PICK c : c = case(g, 1).c  OBVIOUS
<1>1. /\ fatal = "none" /\ pc[g] = "lock" /\ op[g].kind = "close"
      /\ UNCHANGED <<buf, sendq, recvq, lock, op, ops, todo, next, sd, done, winners, commit, res>>
  BY DEF CloseMark, Holding
<1>2. /\ DOMAIN op[g].cases = {1} /\ case(g, 1).dir = "close" /\ c \in Chans \cup {Nil}
  BY <1>0, <1>1, MenuFacts, OpFacts DEF Frame, case
<1>3. c \in Chans => c # Nil /\ Abs!Offers(g, 1, "close", c)
  BY <1>0, <1>1, <1>2, OffersIt, OpFacts DEF CaseIs
<1>4. ASSUME c = Nil \/ (c # Nil /\ closed[c]), fatal' = "close of nil or closed channel",
             UNCHANGED <<closed, pc>>
      PROVE  IInv' /\ AbsStep
  BY <1>0, <1>1, <1>2, <1>3, <1>4, CrashMaps DEF case
<1>5. ASSUME ~(c = Nil \/ (c # Nil /\ closed[c])), closed' = [closed EXCEPT ![c] = TRUE],
             pc' = [pc EXCEPT ![g] = "closing"], UNCHANGED fatal
      PROVE  IInv' /\ AbsStep
  <2>1. c \in Chans /\ ~closed[c]  BY <1>2, <1>5
  <2>a. pc'[g] = "closing" /\ closed'[c] /\ \A b \in Chans : closed[b] => closed'[b]
    BY <1>0, <1>5, <2>1 DEF TypeOK
  <2>w. \A e, b : Who(e, b)' = Who(e, b)  BY <1>1 DEF Who, Line
  <2>k. \A x \in G : x # g => Kept(x)  BY <1>0, <1>1, <1>5, <2>w DEF TypeOK, Kept
  <2>2. Settled(g)'  BY <1>1, <2>1, <2>a DEF Settled, case
  <2>3. More(g)'  BY <2>a, <2>2 DEF More, AllQueued, OneWinner, Offered
  <2>4. IInv' /\ \A x \in G : x # g => Unmoved(x)  BY <1>0, <2>a, <2>k, <2>3, Alone
  <2> PICK r : r = [i |-> 1, v |-> None, ok |-> TRUE]  OBVIOUS
  <2>5. absPhase'[g] = "fired" /\ absOut'[g] = r  BY <2>a, AbsAt
  <2>6. Abs!Fire(g, r)  BY <1>1, <1>5, <2>4, <2>5, FireOne
  <2>7. Abs!Close(g, c)  BY <1>1, <1>3, <1>5, <2>1, <2>6 DEF Abs!Close, Abs!result
  <2> QED  BY <1>1, <2>1, <2>4, <2>7 DEF AbsStep, Abs!Next
<1> QED  BY <1>4, <1>5 DEF CloseMark

\* Close has nobody left to wake.
LEMMA CloseEndMaps ==
  ASSUME IInv, Inv', NEW g \in G, pc[g] = "closing", fatal = "none", pc' = [pc EXCEPT ![g] = "unlock"],
         res' = [res EXCEPT ![g] = [i |-> 1, v |-> None, ok |-> TRUE]],
         UNCHANGED <<closed, buf, sendq, recvq, op, ops, next, sd, winners, fatal>>
  PROVE  IInv' /\ AbsStep
<1>0. TypeOK /\ Frame(g)  BY Basics DEF IInv
<1>a. pc'[g] = "unlock" /\ res'[g] = [i |-> 1, v |-> None, ok |-> TRUE]  BY <1>0 DEF TypeOK
<1>w. \A e, b : Who(e, b)' = Who(e, b)  BY DEF Who, Line
<1>k. \A x \in G : x # g => Kept(x)  BY <1>0, <1>w DEF TypeOK, Kept
<1>1. op'[g].kind = "close"  BY <1>0 DEF Frame
<1>2. More(g)'  BY <1>a, <1>1 DEF More, AllQueued, OneWinner, Offered, Settled
<1>3. IInv' /\ \A x \in G : x # g => Unmoved(x)  BY <1>2, <1>k, Alone
<1>4. Unmoved(g)  BY <1>a, AbsAt DEF Unmoved
<1>5. \A x \in G : Unmoved(x)  BY <1>3, <1>4
<1>6. UNCHANGED Abs!vars  BY <1>5, Stutters
<1> QED  BY <1>3, <1>6 DEF AbsStep

\* Under the lock of c, g takes the k-th sudog s off a queue, writes v and ok to it and readies
\* its goroutine.
Hands(g, c, d, k, s, v, ok) ==
    /\ lock[c] = g /\ pc[g] \in {"lock", "closing"} /\ k \in DOMAIN Line(d, c) /\ s = Line(d, c)[k]
    /\ Live(s) /\ v \in Val /\ ok \in BOOLEAN /\ Wake(s, v, ok)
    /\ \/ d = "send" /\ sendq' = [sendq EXCEPT ![c] = RemoveAt(@, k)] /\ recvq' = recvq
       \/ d = "recv" /\ recvq' = [recvq EXCEPT ![c] = RemoveAt(@, k)] /\ sendq' = sendq
    /\ UNCHANGED <<closed, op, ops, next, winners>>
    /\ pc'[s[1]] = "woken" /\ (\A x \in G : x # g /\ x # s[1] => pc'[x] = pc[x])
    /\ \A x \in G : x # g => res'[x] = res[x]

\* In the abstract that goroutine's operation takes effect through the case of s.
Handed(g, c, d, s, v, ok) ==
    /\ s[1] \in G /\ s[1] # g /\ s[2] \in DOMAIN op[s[1]].cases /\ CaseIs(s[1], s[2], d, c)
    /\ pc[s[1]] = "parked" /\ absPhase'[s[1]] = "fired"
    /\ absOut'[s[1]] = [i |-> s[2], v |-> IF d = "recv" THEN v ELSE None, ok |-> ok]
    /\ \A x \in G : x # g /\ x # s[1] => Unmoved(x)

\* All its sudogs were queued, so the one that is gone is the one that was claimed.
LEMMA HandsMaps ==
  ASSUME IInv, Inv', NEW g \in G, NEW c \in Chans, NEW d \in Dirs, NEW k, NEW s, NEW v, NEW ok,
         Hands(g, c, d, k, s, v, ok), More(g)'
  PROVE  IInv' /\ Handed(g, c, d, s, v, ok) /\ sd'[g] = sd[g]
<1> SUFFICES ASSUME lock[c] = g, pc[g] \in {"lock", "closing"}, k \in DOMAIN Line(d, c),
                    s = Line(d, c)[k], Live(s), v \in Val, ok \in BOOLEAN, Wake(s, v, ok),
                    \/ d = "send" /\ sendq' = [sendq EXCEPT ![c] = RemoveAt(@, k)] /\ recvq' = recvq
                    \/ d = "recv" /\ recvq' = [recvq EXCEPT ![c] = RemoveAt(@, k)] /\ sendq' = sendq,
                    UNCHANGED <<closed, op, ops, next, winners>>, pc'[s[1]] = "woken",
                    \A x \in G : x # g /\ x # s[1] => pc'[x] = pc[x],
                    \A x \in G : x # g => res'[x] = res[x]
             PROVE  IInv' /\ Handed(g, c, d, s, v, ok) /\ sd'[g] = sd[g]
  BY DEF Hands
<1>0. Inv /\ TypeOK /\ Queues /\ s \in LiveIn(d, c)  BY DEF IInv, Inv, LiveIn, Who
<1>1. /\ s[1] \in G /\ s = <<s[1], s[2]>> /\ s[1] # g /\ pc[s[1]] = "parked"
      /\ CaseIs(s[1], s[2], d, c) /\ s[2] \in DOMAIN sd[s[1]]
  BY <1>0, ClaimFacts
<1> PICK h \in G : h = s[1]  BY <1>1
<1> PICK n \in DOMAIN sd[h] : n = s[2]  BY <1>1
<1>h. s = <<h, n>> /\ h # g /\ pc[h] = "parked" /\ CaseIs(h, n, d, c) /\ pc'[h] = "woken"  BY <1>1
<1>2. /\ \A e \in Dirs, b \in Chans : Who(e, b)' \subseteq Who(e, b)
      /\ <<h, n>> \notin Who(d, c)'
      /\ \A e \in Dirs, b \in Chans : \A t \in Who(e, b) : t \in Who(e, b)' \/ t = <<h, n>>
  <2>1. /\ \A e \in Dirs, b \in Chans : Who(e, b)' \subseteq Who(e, b)
        /\ s \notin Who(d, c)'
        /\ \A e \in Dirs, b \in Chans : \A t \in Who(e, b) : t \in Who(e, b)' \/ t = Line(d, c)[k]
    BY <1>0, Unlinked
  <2>2. \A e \in Dirs, b \in Chans : \A t \in Who(e, b) : t \in Who(e, b)' \/ t = s  BY <2>1
  <2> QED  BY <1>h, <2>1, <2>2
<1>3. Frame(h) /\ op[h] \in Op /\ More(h)  BY <1>0, Basics DEF IInv
<1>4. next[h] = 1 /\ winners[h] = {} /\ DOMAIN sd[h] = DOMAIN op[h].cases  BY <1>3, <1>h DEF Frame
<1> DEFINE R == [v : Val, ok : BOOLEAN]
<1> PICK r : r = [v |-> v, ok |-> ok]  OBVIOUS
<1>5. r \in R /\ r.v = v /\ r.ok = ok  OBVIOUS
<1>6. sd \in [G -> Seq(R)] /\ sd' = [sd EXCEPT ![h][n] = r]  BY <1>0, <1>h DEF Wake, TypeOK
<1> HIDE DEF R
<1>7. sd'[h][n] = r /\ \A x \in G : x # h => sd'[x] = sd[x]
  <2> DEFINE F == [sd EXCEPT ![h][n] = r]
  <2>1. F[h][n] = r /\ \A x \in G : x # h => F[x] = sd[x]  BY <1>5, <1>6, SudogWritten
  <2>2. sd' = F  BY <1>6
  <2> HIDE DEF F
  <2> QED  BY <2>1, <2>2
<1>8. \A i \in DOMAIN op[h].cases, e \in Dirs, b \in Chans :
         Won(h, i, e, b)' <=> (i = n /\ e = d /\ b = c)
  <2> SUFFICES ASSUME NEW i \in DOMAIN op[h].cases, NEW e \in Dirs, NEW b \in Chans
               PROVE  Won(h, i, e, b)' <=> (i = n /\ e = d /\ b = c)
    OBVIOUS
  <2>1. Won(h, i, e, b)' <=> (CaseIs(h, i, e, b) /\ i >= 1 /\ <<h, i>> \notin Who(e, b)')
    BY <1>4 DEF Won, CaseIs, case
  <2>2. i >= 1  BY <1>3, OpFacts
  <2>3. CaseIs(h, i, e, b) => <<h, i>> \in Who(e, b)  BY <1>3, <1>h DEF More, AllQueued
  <2>4. CaseIs(h, n, e, b) <=> (e = d /\ b = c)  BY <1>h DEF CaseIs
  <2>5. i # n => (CaseIs(h, i, e, b) => <<h, i>> \in Who(e, b)')  BY <1>2, <2>3
  <2>6. CASE i = n  BY <1>2, <2>1, <2>2, <2>4, <2>6
  <2>7. CASE i # n  BY <2>1, <2>5, <2>7
  <2> QED  BY <2>6, <2>7
<1>9. More(h)'  BY <1>4, <1>8, <1>h DEF More, AllQueued, OneWinner, Offered, Settled
<1>k. ASSUME NEW x \in G, x # g, x # h PROVE Kept(x)
  <2>1. \A e \in Dirs, b \in Chans, i \in DOMAIN op[x].cases :
           <<x, i>> \in Who(e, b)' <=> <<x, i>> \in Who(e, b)
    BY <1>2, <1>k
  <2> QED  BY <1>7, <1>k, <2>1 DEF Kept
<1>10. IInv'
  <2>1. \A x \in G : x # g /\ x # h => More(x)'  BY <1>k, KeptMore DEF IInv
  <2> QED  BY <1>9, <2>1 DEF IInv
<1>11. OutsMeant /\ OutsMeant'  BY <1>10, Meant, MeantNext
<1>12. \A x \in G : x # g /\ x # h => Unmoved(x)  BY <1>0, <1>11, <1>k, KeptOut DEF Inv
<1>13. absOut'[h] = [i |-> n, v |-> IF d = "recv" THEN v ELSE None, ok |-> ok]
  <2>1. n \in DOMAIN op'[h].cases /\ Won(h, n, d, c)'  BY <1>4, <1>8
  <2>2. absOut'[h] = Outcome(h, n)'  BY <1>11, <1>h, <2>1 DEF OutsMeant
  <2>3. (case(h, n)').dir = d  BY <1>h DEF CaseIs, case
  <2> QED  BY <1>5, <1>7, <2>2, <2>3 DEF Outcome
<1>14. absPhase'[h] = "fired"  BY <1>h, AbsAt
<1> QED  BY <1>4, <1>7, <1>10, <1>12, <1>13, <1>14, <1>h DEF Handed

\* Nobody can be claimed on a closed channel but by its Close, which holds the lock.
LEMMA NotClosed ==
  ASSUME Inv, NEW g \in G, pc[g] = "lock", NEW c \in Chans, lock[c] = g, NEW d \in Dirs, LiveIn(d, c) # {}
  PROVE  ~closed[c]
<1> SUFFICES ASSUME closed[c] PROVE FALSE  OBVIOUS
<1>1. PICK h \in G : pc[h] = "closing" /\ case(h, 1).c = c  BY DEF Inv, Meeting, Meet
<1>2. Frame(h) /\ op[h] \in Op /\ (lock[c] = h <=> Holds(h, c))  BY Basics
<1>3. op[h] \in Menu[h] /\ op[h].kind = "close" /\ c # Nil  BY <1>1, <1>2 DEF Frame
<1>4. c \in locks(op[h])  BY <1>1, <1>3, MenuFacts DEF case
<1> QED  BY <1>1, <1>2, <1>4 DEF Holds

\* What is known of g when it leaves with outcome r.
LEMMA LeavesWith ==
  ASSUME NEW g \in G, pc'[g] = "unlock", NEW r, res'[g] = r, op'[g] = op[g],
         r.i \in DOMAIN op[g].cases, case(g, r.i).dir = "send" => r.ok
  PROVE  More(g)' /\ absPhase'[g] = "fired" /\ absOut'[g] = r
<1>1. Settled(g)'  BY DEF Settled, case
<1>2. More(g)'  BY <1>1 DEF More, AllQueued, OneWinner, Offered
<1> QED  BY <1>2, AbsAt

\* A receiver meets a parked sender: past an empty buffer or through a full one.
LEMMA RecvFromSenderMaps ==
  ASSUME IInv, NEW g \in G, Holding(g), NEW i \in DOMAIN op[g].cases, case(g, i).c # Nil,
         case(g, i).dir = "recv", RecvFromSender(g, i), Inv'
  PROVE  IInv' /\ AbsStep
<1> PICK c : c = case(g, i).c  OBVIOUS
<1>0. /\ Inv /\ TypeOK /\ Meeting /\ c \in Chans /\ lock[c] = g /\ pc[g] = "lock" /\ fatal = "none"
      /\ "send" \in Dirs /\ NoInternalPanic'
  BY PollFacts, Basics DEF IInv, Inv, Dirs
<1>1. PICK k \in DOMAIN sendq[c] :
         /\ FirstLive(sendq[c], k)
         /\ sendq' = [sendq EXCEPT ![c] = RemoveAt(@, k)]
         /\ Wake(sendq[c][k], None, TRUE)
         /\ pc' = [pc EXCEPT ![g] = "unlock", ![sendq[c][k][1]] = "woken"]
         /\ Fired(g, i, Received(c, sd[sendq[c][k][1]][sendq[c][k][2]].v), TRUE)
         /\ buf' = [buf EXCEPT ![c] = Rotated(c, sd[sendq[c][k][1]][sendq[c][k][2]].v)]
  BY Zenon DEF RecvFromSender
<1> PICK s : s = sendq[c][k]  OBVIOUS
<1> PICK v : v = sd[s[1]][s[2]].v  OBVIOUS
<1> PICK r : r = [i |-> i, v |-> Received(c, v), ok |-> TRUE]  OBVIOUS
<1>2. /\ sendq' = [sendq EXCEPT ![c] = RemoveAt(@, k)] /\ recvq' = recvq
      /\ Wake(s, None, TRUE) /\ pc' = [pc EXCEPT ![g] = "unlock", ![s[1]] = "woken"]
      /\ buf' = [buf EXCEPT ![c] = Rotated(c, v)]
  <2>1. recvq' = recvq  BY Zenon DEF RecvFromSender
  <2> QED  BY <1>1, <2>1
<1>3. res' = [res EXCEPT ![g] = r] /\ UNCHANGED <<closed, lock, op, ops, next, winners, commit>>
  BY <1>1 DEF Fired
<1>4. s \in LiveIn("send", c) /\ Live(s) /\ k \in DOMAIN Line("send", c) /\ s = Line("send", c)[k]
  BY <1>0, <1>1 DEF FirstLive, LiveIn, Who, Line
<1>5. s[1] \in G /\ s[1] # g /\ pc[s[1]] = "parked"  BY <1>0, <1>4, ClaimFacts
<1>6. fatal' = "none"  BY <1>0, Zenon DEF RecvFromSender, NoInternalPanic, Readied
<1>7. /\ pc'[g] = "unlock" /\ pc'[s[1]] = "woken" /\ res'[g] = r
      /\ (\A x \in G : x # g /\ x # s[1] => pc'[x] = pc[x]) /\ \A x \in G : x # g => res'[x] = res[x]
  BY <1>0, <1>2, <1>3, <1>5 DEF TypeOK
<1>8. More(g)' /\ absPhase'[g] = "fired" /\ absOut'[g] = r
  <2>1. r.i = i /\ r.ok  OBVIOUS
  <2>2. op'[g] = op[g]  BY <1>3
  <2> QED  BY <1>7, <2>1, <2>2, LeavesWith
<1>9. Hands(g, c, "send", k, s, None, TRUE)
  BY <1>0, <1>2, <1>3, <1>4, <1>7 DEF Hands, Val
<1>10. IInv' /\ Handed(g, c, "send", s, None, TRUE)  BY <1>0, <1>8, <1>9, HandsMaps
<1> PICK h \in G : h = s[1]  BY <1>5
<1> PICK j : j = s[2]  OBVIOUS
<1> PICK t : t = [i |-> j, v |-> None, ok |-> TRUE]  OBVIOUS
<1>11. /\ h # g /\ j \in DOMAIN op[h].cases /\ CaseIs(h, j, "send", c) /\ pc[h] = "parked"
       /\ absPhase'[h] = "fired" /\ absOut'[h] = t /\ \A x \in G : x # g /\ x # h => Unmoved(x)
  BY <1>10 DEF Handed
<1>12. Abs!Fire2(g, r, h, t)  BY <1>0, <1>3, <1>6, <1>8, <1>11, FireBoth
<1>13. Abs!Offers(g, i, "recv", c) /\ Abs!Offers(h, j, "send", c)
  <2>1. CaseIs(g, i, "recv", c)  BY DEF CaseIs
  <2> QED  BY <1>0, <1>11, <2>1, OffersIt
<1>14. v = [x \in G |-> <<x, ops[x]>>][h]  BY <1>11, OffersValue DEF CaseIs
<1>15. ~closed[c]  BY <1>0, <1>4, NotClosed
<1>16. Len(buf[c]) = Cap[c] /\ buf[c] \in Seq(Val) /\ Cap[c] \in Nat
  BY <1>0, <1>4, ConstAssumption DEF Meeting, Meet, TypeOK
<1>17. CASE buf[c] = << >>
  <2>1. Received(c, v) = v /\ Rotated(c, v) = buf[c]  BY <1>16, <1>17 DEF Received, Rotated
  <2>2. buf' = buf  BY <1>0, <1>2, <2>1 DEF TypeOK
  <2>3. Abs!Rendezvous(g, i, h, j, c)
    BY <1>3, <1>12, <1>13, <1>14, <1>15, <1>17, <2>1, <2>2 DEF Abs!Rendezvous, Abs!result
  <2> QED  BY <1>0, <1>10, <1>11, <2>3 DEF AbsStep, Abs!Next
<1>18. CASE buf[c] # << >>
  <2>1. Cap[c] # 0  BY <1>16, <1>18
  <2>2. Received(c, v) = Head(buf[c]) /\ Rotated(c, v) = Append(Tail(buf[c]), v)
    BY <1>18, <2>1 DEF Received, Rotated
  <2>3. Abs!Rotate(g, i, h, j, c)
    BY <1>2, <1>3, <1>12, <1>13, <1>14, <1>15, <1>16, <1>18, <2>2 DEF Abs!Rotate, Abs!result
  <2> QED  BY <1>0, <1>10, <1>11, <2>3 DEF AbsStep, Abs!Next
<1> QED  BY <1>17, <1>18

\* A sender meets a parked receiver.
LEMMA SendToReceiverMaps ==
  ASSUME IInv, NEW g \in G, Holding(g), NEW i \in DOMAIN op[g].cases, case(g, i).c # Nil,
         case(g, i).dir = "send", SendToReceiver(g, i), Inv'
  PROVE  IInv' /\ AbsStep
<1> PICK c : c = case(g, i).c  OBVIOUS
<1> PICK v : v = sd[g][i].v  OBVIOUS
<1> PICK r : r = [i |-> i, v |-> None, ok |-> TRUE]  OBVIOUS
<1>0. /\ Inv /\ TypeOK /\ Meeting /\ c \in Chans /\ lock[c] = g /\ pc[g] = "lock" /\ fatal = "none"
      /\ "recv" \in Dirs /\ NoInternalPanic' /\ v \in Val
  BY PollFacts, Basics DEF IInv, Inv, Dirs
<1>1. PICK k \in DOMAIN recvq[c] :
         LET s == recvq[c][k]
         IN  /\ FirstLive(recvq[c], k)
             /\ recvq' = [recvq EXCEPT ![c] = RemoveAt(@, k)]
             /\ Wake(s, sd[g][i].v, TRUE)
             /\ pc' = [pc EXCEPT ![g] = "unlock", ![s[1]] = "woken"]
             /\ fatal' = Readied(s)
  BY DEF SendToReceiver
<1> PICK s : s = recvq[c][k]  OBVIOUS
<1>2. /\ recvq' = [recvq EXCEPT ![c] = RemoveAt(@, k)] /\ sendq' = sendq /\ buf' = buf /\ ~closed[c]
      /\ Wake(s, v, TRUE) /\ pc' = [pc EXCEPT ![g] = "unlock", ![s[1]] = "woken"] /\ fatal' = Readied(s)
  BY <1>1 DEF SendToReceiver
<1>3. res' = [res EXCEPT ![g] = r] /\ UNCHANGED <<closed, lock, op, ops, next, winners, commit>>
  BY DEF Fired, SendToReceiver
<1>4. s \in LiveIn("recv", c) /\ Live(s) /\ k \in DOMAIN Line("recv", c) /\ s = Line("recv", c)[k]
  BY <1>0, <1>1 DEF FirstLive, LiveIn, Who, Line
<1>5. s[1] \in G /\ s[1] # g /\ pc[s[1]] = "parked"  BY <1>0, <1>4, ClaimFacts
<1>6. fatal' = "none"  BY <1>2, <1>5 DEF Readied
<1>7. /\ pc'[g] = "unlock" /\ pc'[s[1]] = "woken" /\ res'[g] = r
      /\ (\A x \in G : x # g /\ x # s[1] => pc'[x] = pc[x]) /\ \A x \in G : x # g => res'[x] = res[x]
  BY <1>0, <1>2, <1>3, <1>5 DEF TypeOK
<1>8. More(g)' /\ absPhase'[g] = "fired" /\ absOut'[g] = r
  <2>1. r.i = i /\ r.ok  OBVIOUS
  <2>2. op'[g] = op[g]  BY <1>3
  <2> QED  BY <1>7, <2>1, <2>2, LeavesWith
<1>9. Hands(g, c, "recv", k, s, v, TRUE)  BY <1>0, <1>2, <1>3, <1>4, <1>7 DEF Hands
<1>10. IInv' /\ Handed(g, c, "recv", s, v, TRUE)  BY <1>0, <1>8, <1>9, HandsMaps
<1> PICK h \in G : h = s[1]  BY <1>5
<1> PICK j : j = s[2]  OBVIOUS
<1> PICK t : t = [i |-> j, v |-> v, ok |-> TRUE]  OBVIOUS
<1>11. /\ h # g /\ j \in DOMAIN op[h].cases /\ CaseIs(h, j, "recv", c) /\ pc[h] = "parked"
       /\ absPhase'[h] = "fired" /\ absOut'[h] = t /\ \A x \in G : x # h /\ x # g => Unmoved(x)
  BY <1>10 DEF Handed
<1>12. Abs!Fire2(h, t, g, r)  BY <1>0, <1>3, <1>6, <1>8, <1>11, FireBoth
<1>13. Abs!Offers(h, j, "recv", c) /\ Abs!Offers(g, i, "send", c)
  <2>1. CaseIs(g, i, "send", c)  BY DEF CaseIs
  <2> QED  BY <1>0, <1>11, <2>1, OffersIt
<1>14. v = [x \in G |-> <<x, ops[x]>>][g]  BY <1>0, OffersValue
<1>15. buf[c] = << >>  BY <1>0, <1>4 DEF Meeting, Meet
<1>16. Abs!Rendezvous(h, j, g, i, c)
  BY <1>2, <1>3, <1>12, <1>13, <1>14, <1>15 DEF Abs!Rendezvous, Abs!result
<1> QED  BY <1>0, <1>10, <1>11, <1>16 DEF AbsStep, Abs!Next

\* Close wakes a receiver, which gets zero, or a sender, which fails.
LEMMA CloseWakesMaps ==
  ASSUME IInv, Inv', NEW g \in G, pc[g] = "closing", fatal = "none", NEW c \in Chans, c = case(g, 1).c,
         NEW d \in Dirs, NEW k \in DOMAIN Line(d, c), NEW s, s = Line(d, c)[k], Live(s),
         NEW v \in Val, d = "recv" => v = None, Wake(s, v, FALSE),
         \/ d = "send" /\ sendq' = [sendq EXCEPT ![c] = RemoveAt(@, k)] /\ recvq' = recvq
         \/ d = "recv" /\ recvq' = [recvq EXCEPT ![c] = RemoveAt(@, k)] /\ sendq' = sendq,
         pc' = [pc EXCEPT ![s[1]] = "woken"], fatal' = Readied(s),
         UNCHANGED <<closed, buf, lock, op, ops, todo, next, winners, commit, res>>
  PROVE  IInv' /\ AbsStep
<1>0. /\ Inv /\ TypeOK /\ Meeting /\ Frame(g) /\ op[g] \in Op /\ More(g)
      /\ \A b \in Chans : lock[b] = g <=> Holds(g, b)
  BY Basics DEF IInv, Inv
<1>1. op[g] \in Menu[g] /\ op[g].kind = "close" /\ c # Nil  BY <1>0 DEF Frame
<1>2. DOMAIN op[g].cases = {1} /\ locks(op[g]) = {c}  BY <1>1, MenuFacts DEF case
<1>3. lock[c] = g /\ closed[c]  BY <1>0, <1>2 DEF Holds, More, Settled
<1>4. s \in LiveIn(d, c)  BY DEF LiveIn, Who
<1>5. s[1] \in G /\ s[1] # g /\ pc[s[1]] = "parked"  BY <1>0, <1>3, <1>4, ClaimFacts
<1>6. fatal' = "none"  BY <1>5 DEF Readied
<1>7. /\ pc'[g] = "closing" /\ pc'[s[1]] = "woken" /\ \A x \in G : x # g /\ x # s[1] => pc'[x] = pc[x]
  BY <1>0, <1>5 DEF TypeOK
<1>8. More(g)'
  <2>1. Settled(g)'  BY <1>0, <1>7 DEF More, Settled, case
  <2> QED  BY <1>7, <2>1 DEF More, AllQueued, OneWinner, Offered
<1>9. Hands(g, c, d, k, s, v, FALSE)  BY <1>3, <1>7 DEF Hands
<1>10. IInv' /\ Handed(g, c, d, s, v, FALSE)  BY <1>8, <1>9, HandsMaps
<1> PICK h \in G : h = s[1]  BY <1>5
<1> PICK j : j = s[2]  OBVIOUS
<1> PICK t : t = [i |-> j, v |-> None, ok |-> FALSE]  OBVIOUS
<1>11. /\ h # g /\ j \in DOMAIN op[h].cases /\ CaseIs(h, j, d, c) /\ pc[h] = "parked"
       /\ absPhase'[h] = "fired" /\ absOut'[h] = t /\ \A x \in G : x # g /\ x # h => Unmoved(x)
  BY <1>10 DEF Handed
<1>12. Unmoved(g)  BY <1>7, AbsAt DEF Unmoved
<1>13. \A x \in G : x # h => Unmoved(x)  BY <1>11, <1>12
<1>14. Abs!Fire(h, t)  BY <1>6, <1>11, <1>13, FireOne
<1>15. Abs!Offers(h, j, d, c)  BY <1>0, <1>11, OffersIt
<1>16. CASE d = "recv"
  <2>1. buf[c] = << >>  BY <1>0, <1>4, <1>16 DEF Meeting, Meet
  <2>2. Abs!RecvZero(h, j, c)  BY <1>3, <1>14, <1>15, <1>16, <2>1 DEF Abs!RecvZero, Abs!result
  <2> QED  BY <1>10, <1>11, <2>2 DEF AbsStep, Abs!Next
<1>17. CASE d = "send"
  <2>1. Abs!SendFails(h, j, c)  BY <1>3, <1>14, <1>15, <1>17 DEF Abs!SendFails, Abs!result
  <2> QED  BY <1>10, <1>11, <2>1 DEF AbsStep, Abs!Next
<1> QED  BY <1>16, <1>17 DEF Dirs

\* Close wakes its receivers, then its senders, then ends.
LEMMA CloseWakeMaps == ASSUME IInv, NEW g \in G, CloseWake(g) PROVE IInv' /\ AbsStep
<1>0. Inv /\ Inv' /\ TypeOK /\ More(g) /\ pc[g] = "closing" /\ fatal = "none"
  BY CloseWakeKeeps, Basics DEF IInv, CloseWake
<1> PICK c : c = case(g, 1).c  OBVIOUS
<1>1. c \in Chans  BY <1>0 DEF More, Settled
<1>2. UNCHANGED <<closed, buf, lock, op, ops, next, winners, commit>>  BY DEF CloseWake
<1>3. ASSUME NEW k \in DOMAIN recvq[c], FirstLive(recvq[c], k),
             recvq' = [recvq EXCEPT ![c] = RemoveAt(@, k)], Wake(recvq[c][k], None, FALSE),
             pc' = [pc EXCEPT ![recvq[c][k][1]] = "woken"], fatal' = Readied(recvq[c][k]),
             UNCHANGED <<sendq, todo, res>>
      PROVE  IInv' /\ AbsStep
  <2> PICK s : s = recvq[c][k]  OBVIOUS
  <2>1. /\ s = Line("recv", c)[k] /\ k \in DOMAIN Line("recv", c) /\ Live(s) /\ Wake(s, None, FALSE)
        /\ pc' = [pc EXCEPT ![s[1]] = "woken"] /\ fatal' = Readied(s) /\ "recv" \in Dirs /\ None \in Val
    BY <1>3 DEF Line, FirstLive, Dirs, Val
  <2> QED  BY <1>0, <1>1, <1>2, <1>3, <2>1, CloseWakesMaps
<1>4. ASSUME NEW k \in DOMAIN sendq[c], FirstLive(sendq[c], k),
             sendq' = [sendq EXCEPT ![c] = RemoveAt(@, k)],
             Wake(sendq[c][k], sd[sendq[c][k][1]][sendq[c][k][2]].v, FALSE),
             pc' = [pc EXCEPT ![sendq[c][k][1]] = "woken"], fatal' = Readied(sendq[c][k]),
             UNCHANGED <<recvq, todo, res>>
      PROVE  IInv' /\ AbsStep
  <2> PICK s : s = sendq[c][k]  OBVIOUS
  <2> PICK v : v = sd[s[1]][s[2]].v  OBVIOUS
  <2>1. /\ s = Line("send", c)[k] /\ k \in DOMAIN Line("send", c) /\ Live(s) /\ Wake(s, v, FALSE)
        /\ pc' = [pc EXCEPT ![s[1]] = "woken"] /\ fatal' = Readied(s) /\ "send" \in Dirs
    BY <1>4 DEF Line, FirstLive, Dirs
  <2>2. s \in Who("send", c)  BY <2>1 DEF Who
  <2>3. InFrame(s[1], s[2], "send", c) /\ s[1] \in G
    BY <1>0, <1>1, <2>1, <2>2, WhoFacts DEF Inv, Framed
  <2>4. sd[s[1]] \in Seq([v : Val, ok : BOOLEAN]) /\ s[2] \in DOMAIN sd[s[1]]
    <3>1. Frame(s[1])  BY <1>0, <2>3, Basics
    <3> QED  BY <1>0, <2>3, <3>1 DEF TypeOK, Frame, InFrame
  <2>5. sd[s[1]][s[2]] \in [v : Val, ok : BOOLEAN]  BY <2>4, InSeq
  <2>6. v \in Val /\ "send" # "recv"  BY <2>5
  <2> QED  BY <1>0, <1>1, <1>2, <1>4, <2>1, <2>6, CloseWakesMaps
<1>5. ASSUME pc' = [pc EXCEPT ![g] = "unlock"],
             res' = [res EXCEPT ![g] = [i |-> 1, v |-> None, ok |-> TRUE]],
             UNCHANGED <<sendq, recvq, sd, done, fatal>>
      PROVE  IInv' /\ AbsStep
  BY <1>0, <1>2, <1>5, CloseEndMaps
<1> QED  BY <1>3, <1>4, <1>5 DEF CloseWake

\* A case that is ready fires.
LEMMA PollMaps == ASSUME IInv, NEW g \in G, Poll(g) PROVE IInv' /\ AbsStep
<1>0. PICK i \in DOMAIN op[g].cases :
         /\ case(g, i).c # Nil
         /\ \/ case(g, i).dir = "recv" /\ (\/ RecvClosed(g, i)
                                           \/ RecvFromSender(g, i)
                                           \/ RecvFromBuf(g, i))
            \/ case(g, i).dir = "send" /\ (\/ SendClosed(g, i)
                                           \/ SendToReceiver(g, i)
                                           \/ SendToBuf(g, i))
  BY DEF Poll
<1>1. Holding(g) /\ Inv'  BY PollKeeps DEF Poll, IInv
<1> QED  BY <1>0, <1>1, RecvClosedMaps, RecvFromSenderMaps, RecvFromBufMaps, SendClosedMaps,
            SendToReceiverMaps, SendToBufMaps

\* Every step of GoChan is a step of ChanSpec or changes nothing there.
LEMMA NextMaps == ASSUME IInv, Next PROVE IInv' /\ AbsStep
<1>1. PICK g \in G : Start(g) \/ Step(g) \/ Commit(g)  BY DEF Next
<1>2. CASE Step(g)
  BY <1>2, AcquireMaps, ReleaseMaps, PollMaps, DefaultMaps, BlockMaps, RegisterMaps, ResumePlainMaps,
     ResumeSelectMaps, CancelMaps, DispatchMaps, CloseMarkMaps, CloseWakeMaps DEF Step
<1> QED  BY <1>1, <1>2, StartMaps, CommitMaps

\* A step that changes nothing changes nothing in ChanSpec.
LEMMA StutterMaps == ASSUME IInv, UNCHANGED vars PROVE IInv' /\ UNCHANGED Abs!vars
<1>0. Inv' /\ \A x \in G : More(x)  BY StutterKeeps DEF IInv
<1>u. UNCHANGED <<closed, buf, sendq, recvq, lock, pc, op, ops, todo, next, sd, done, winners,
                  commit, res, fatal>>
  BY DEF vars
<1>w. \A e, b : Who(e, b)' = Who(e, b)  BY <1>u DEF Who, Line
<1>k. \A x \in G : Kept(x)  BY <1>u, <1>w DEF Kept
<1>1. IInv'  BY <1>0, <1>k, <1>u, KeptMore DEF IInv
<1>2. absPhase' = absPhase  BY <1>u DEF absPhase
<1>3. absOut' = absOut  BY <1>u DEF absOut, TookEffect, Outcome, case, Queued
<1> QED  BY <1>1, <1>2, <1>3, <1>u DEF Abs!vars

\* The first state of GoChan is the first state of ChanSpec.
LEMMA InitMaps == Init => IInv /\ Abs!Init
<1> SUFFICES ASSUME Init PROVE IInv /\ Abs!Init  OBVIOUS
<1>1. \A g \in G : pc[g] = "idle"  BY DEF Init
<1>2. \A g \in G : More(g)  BY <1>1 DEF More, AllQueued, OneWinner, Offered, Settled
<1>3. IInv  BY <1>2, InitInv DEF IInv
<1>4. absPhase = [g \in G |-> "idle"]  BY <1>1 DEF absPhase
<1>5. absOut = [g \in G |-> [i |-> 0, v |-> None, ok |-> FALSE]]  BY DEF absOut, Init
<1>6. [g \in G |-> <<g, ops[g]>>] = [g \in G |-> <<g, 0>>]  BY DEF Init
<1>7. (fatal # "none") = FALSE  BY DEF Init
<1>8. closed = [c \in Chans |-> FALSE] /\ buf = [c \in Chans |-> << >>] /\ op = [g \in G |-> NoOp]
  BY DEF Init
<1> QED  BY <1>3, <1>4, <1>5, <1>6, <1>7, <1>8 DEF Abs!Init

\* Channels and select implement ChanSpec: whatever the interleaving of pollers, wakers,
\* cancellers, Close and the Ms that release the locks of parked goroutines, an operation
\* takes effect in one step through one of its cases, values pass a channel first in first
\* out and once, and its caller gets the outcome the operation took effect with.
THEOREM Refinement == Spec => ImplementsChanSpec
<1>1. IInv /\ [Next]_vars => IInv' /\ [Abs!Next]_Abs!vars  BY NextMaps, StutterMaps DEF AbsStep
<1> QED  BY InitMaps, <1>1, PTL DEF Spec, ImplementsChanSpec, Abs!Spec
=============================================================================
