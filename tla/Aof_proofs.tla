----------------------------- MODULE Aof_proofs -----------------------------
(***************************************************************************)
(* Proofs about the append only file, for any databases, any number of     *)
(* commands, any length of the file, and every order of commands, failing  *)
(* writes, rewrites, switches, kills and restarts: file and buffer give    *)
(* back the dataset, acknowledged commands survive, and Aof implements     *)
(* DurableLog.                                                             *)
(*                                                                         *)
(* The loader is a function of the records that is defined by recursion;   *)
(* what it does with one record more (AfterOne) is proved from the runs it *)
(* goes through, of which each step follows from the one before: the first *)
(* place where two runs differ would have a predecessor where they differ. *)
(***************************************************************************)
EXTENDS Aof, TLAPS, WellFoundedInduction, SequenceTheorems

----------------------------------------------------------------------------
(* Running the loader over records *)

\* The client the loader begins with.
Start == [db |-> 0, multi |-> FALSE, data |-> <<>>]

\* r holds the fake client after each of the first n records.
Runs(r, recs, n) ==
    r = [i \in 0 .. n |-> IF i = 0 THEN Start ELSE Replay1(r[i - 1], recs[i])]

\* A set of numbers has a smallest one.
LEMMA Smallest ==
    ASSUME NEW T, T \subseteq Nat, T # {}
    PROVE  \E x \in T : \A y \in T : x <= y
  <1>0. T \subseteq Nat /\ T # {}
    OBVIOUS
  <1>1. PICK x \in T : \A y \in T : ~(<<y, x>> \in OpToRel(<, Nat))
    BY <1>0, NatLessThanWellFounded, WFMin
  <1>2. \A y \in T : ~(y < x)
    BY <1>1 DEF OpToRel
  <1> QED
    BY <1>0, <1>2

\* Every sequence of records can be run ...
LEMMA RunsExist ==
    ASSUME NEW recs, NEW n \in Nat
    PROVE  \E r : Runs(r, recs, n)
  <1> DEFINE T == {m \in 0 .. n : ~\E r : Runs(r, recs, m)}
  <1>1. SUFFICES ASSUME T # {} PROVE FALSE
    <2>1. n \notin T
      BY <1>1
    <2> QED
      BY <2>1
  <1>2. PICK x \in T : \A y \in T : x <= y
    <2>1. T \subseteq Nat
      OBVIOUS
    <2> HIDE DEF T
    <2> QED
      BY <1>1, <2>1, Smallest
  <1>3. x # 0
    <2>1. Runs([i \in 0 .. 0 |-> Start], recs, 0)
      BY DEF Runs
    <2> QED
      BY <2>1
  <1>4. x \in 1 .. n /\ x - 1 \in 0 .. n /\ x - 1 \notin T
    BY <1>2, <1>3
  <1>5. PICK r : Runs(r, recs, x - 1)
    BY <1>4
  <1> DEFINE q == [i \in 0 .. x |-> IF i = x THEN Replay1(r[x - 1], recs[x]) ELSE r[i]]
             p == [i \in 0 .. x |-> IF i = 0 THEN Start ELSE Replay1(q[i - 1], recs[i])]
  <1>6. ASSUME NEW i \in 0 .. x PROVE q[i] = p[i]
    <2>1. CASE i = x
      BY <1>4, <2>1
    <2>2. CASE i = 0
      <3>1. r[0] = Start
        BY <1>4, <1>5 DEF Runs
      <3> QED
        BY <1>4, <2>2, <3>1
    <2>3. CASE i \in 1 .. x - 1
      <3>1. r[i] = Replay1(r[i - 1], recs[i])
        BY <1>4, <1>5, <2>3 DEF Runs
      <3>2. i - 1 \in 0 .. x /\ i - 1 # x /\ i # x /\ i # 0
        BY <1>4, <2>3
      <3>3. q[i - 1] = r[i - 1] /\ q[i] = r[i]
        BY <3>2
      <3>4. p[i] = Replay1(q[i - 1], recs[i])
        BY <3>2
      <3> QED
        BY <3>1, <3>3, <3>4
    <2> QED
      BY <1>4, <2>1, <2>2, <2>3
  <1>7. q = p
    BY <1>6
  <1>8. Runs(q, recs, x)
    BY <1>7 DEF Runs
  <1> QED
    BY <1>2, <1>8

\* ... in one way: what is the same at first runs the same at first.
LEMMA RunsAgree ==
    ASSUME NEW recs, NEW others, NEW n \in Nat, NEW m \in Nat, n <= m,
           \A i \in 1 .. n : recs[i] = others[i],
           NEW r, Runs(r, recs, n), NEW q, Runs(q, others, m)
    PROVE  r[n] = q[n]
  <1> DEFINE T == {i \in 0 .. n : r[i] # q[i]}
  <1>1. SUFFICES ASSUME T # {} PROVE FALSE
    <2>1. n \notin T
      BY <1>1
    <2> QED
      BY <2>1
  <1>2. PICK x \in T : \A y \in T : x <= y
    <2>1. T \subseteq Nat
      OBVIOUS
    <2> HIDE DEF T
    <2> QED
      BY <1>1, <2>1, Smallest
  <1>3. r[0] = Start /\ q[0] = Start
    BY DEF Runs
  <1>4. x \in 1 .. n /\ x - 1 \in 0 .. n /\ x - 1 \notin T
    BY <1>2, <1>3
  <1>5. r[x] = Replay1(r[x - 1], recs[x]) /\ q[x] = Replay1(q[x - 1], others[x])
    BY <1>4 DEF Runs
  <1>6. r[x - 1] = q[x - 1] /\ recs[x] = others[x]
    BY <1>4
  <1> QED
    BY <1>2, <1>5, <1>6

\* Any run over the records ends where the loader does.
LEMMA AfterRuns ==
    ASSUME NEW recs, Len(recs) \in Nat, NEW r, Runs(r, recs, Len(recs))
    PROVE  After(recs) = r[Len(recs)]
  <1> DEFINE a == CHOOSE q : Runs(q, recs, Len(recs))
  <1>1. Runs(a, recs, Len(recs))
    OBVIOUS
  <1>2. After(recs) = a[Len(recs)]
    BY DEF After, Runs, Start
  <1> HIDE DEF a
  <1>3. r[Len(recs)] = a[Len(recs)]
    BY <1>1, RunsAgree
  <1> QED
    BY <1>2, <1>3

\* The loader of no records ...
LEMMA AfterNone == After(<<>>) = Start
  <1>1. PICK r : Runs(r, <<>>, 0)
    BY RunsExist
  <1>2. r[0] = Start
    BY <1>1 DEF Runs
  <1> QED
    BY <1>1, <1>2, AfterRuns

\* ... and of one record more.
LEMMA AfterOne ==
    ASSUME NEW S, NEW recs \in Seq(S), NEW x \in S
    PROVE  After(Append(recs, x)) = Replay1(After(recs), x)
  <1> DEFINE more == Append(recs, x)
             n == Len(recs)
  <1>1. /\ n \in Nat /\ Len(more) = n + 1 /\ n + 1 \in Nat
        /\ \A i \in 1 .. n : more[i] = recs[i]
        /\ more[n + 1] = x
    OBVIOUS
  <1> HIDE DEF more, n
  <1>2. PICK r : Runs(r, recs, n)
    BY <1>1, RunsExist
  <1>3. PICK q : Runs(q, more, n + 1)
    BY <1>1, RunsExist
  <1>4. After(recs) = r[n] /\ After(more) = q[n + 1]
    BY <1>1, <1>2, <1>3, AfterRuns DEF n
  <1>5. r[n] = q[n]
    <2> DEFINE m == n + 1
    <2>1. n <= m /\ m \in Nat /\ Runs(q, more, m) /\ \A i \in 1 .. n : recs[i] = more[i]
      BY <1>1, <1>3
    <2> HIDE DEF m
    <2> QED
      BY <1>1, <1>2, <2>1, RunsAgree
  <1>6. q[n + 1] = Replay1(q[n], x)
    <2>1. n + 1 \in 0 .. n + 1 /\ n + 1 # 0 /\ (n + 1) - 1 = n
      BY <1>1
    <2> QED
      BY <1>1, <1>3, <2>1 DEF Runs
  <1> QED
    BY <1>4, <1>5, <1>6 DEF more

----------------------------------------------------------------------------
(* What each kind of record does *)

\* The commands of a dataset, the records of a file, and the loader's client.
Cmds    == (Dbs \cup {0, None}) \X Nat
Recs    == {Select(db) : db \in Dbs} \cup {Cmd(n) : n \in Nat} \cup {Multi, Exec}
               \cup {Dump(d) : d \in Seq(Cmds)}
Clients == [db : Dbs \cup {0, None}, multi : BOOLEAN, data : Seq(Cmds)]

\* What each record does.
LEMMA Replaying ==
    ASSUME NEW c \in Clients
    PROVE  /\ \A db \in Dbs : Replay1(c, Select(db)) = [c EXCEPT !.db = db]
           /\ \A d : Replay1(c, Dump(d)) = [c EXCEPT !.data = d, !.db = None]
           /\ Replay1(c, Multi) = [c EXCEPT !.multi = TRUE]
           /\ Replay1(c, Exec) = [c EXCEPT !.multi = FALSE]
           /\ \A n : Replay1(c, Cmd(n)) = [c EXCEPT !.data = Append(@, <<c.db, n>>)]
  <1>1. \A db \in Dbs : Replay1(c, Select(db)) = [c EXCEPT !.db = db]
    BY DEF Replay1, Select
  <1>2. \A d : Replay1(c, Dump(d)) = [c EXCEPT !.data = d, !.db = None]
    BY DEF Replay1, Dump
  <1>3. Replay1(c, Multi) = [c EXCEPT !.multi = TRUE]
    BY DEF Replay1, Multi
  <1>4. Replay1(c, Exec) = [c EXCEPT !.multi = FALSE]
    BY DEF Replay1, Exec
  <1>5. \A n : Replay1(c, Cmd(n)) = [c EXCEPT !.data = Append(@, <<c.db, n>>)]
    BY DEF Replay1, Cmd
  <1> QED
    BY <1>1, <1>2, <1>3, <1>4, <1>5

\* s is what t begins with.
Begins(s, t) == Len(s) <= Len(t) /\ \A i \in 1 .. Len(s) : s[i] = t[i]

\* Replaying the records gives a dataset, which only grows.
Sound(recs) ==
    /\ recs \in Seq(Recs)
    /\ \A n \in 0 .. Len(recs) : After(SubSeq(recs, 1, n)) \in Clients
    /\ \A n \in 0 .. Len(recs) : \A m \in 0 .. n :
          Begins(After(SubSeq(recs, 1, m)).data, After(SubSeq(recs, 1, n)).data)

\* A dataset begins with itself and with the empty one.
LEMMA BeginsSelf ==
    ASSUME NEW s \in Seq(Cmds)
    PROVE  Begins(s, s) /\ Begins(<<>>, s)
  BY DEF Begins

\* Begins is transitive.
LEMMA BeginsOn ==
    ASSUME NEW s \in Seq(Cmds), NEW t \in Seq(Cmds), NEW u \in Seq(Cmds),
           Begins(s, t), Begins(t, u)
    PROVE  Begins(s, u)
  BY DEF Begins

\* The loader ends with a client that has a dataset.
LEMMA SoundAfter ==
    ASSUME NEW recs, Sound(recs)
    PROVE  After(recs) \in Clients /\ After(recs).data \in Seq(Cmds)
  <1> DEFINE n == Len(recs)
  <1>1. n \in 0 .. n /\ SubSeq(recs, 1, n) = recs
    BY DEF Sound
  <1>2. After(recs) \in Clients
    BY <1>1 DEF Sound
  <1> QED
    BY <1>2 DEF Clients

\* No records are sound.
LEMMA SoundNone == Sound(<<>>) /\ After(<<>>) = Start /\ Start \in Clients
  <1>1. After(<<>>) = Start /\ Start \in Clients
    BY AfterNone DEF Start, Clients
  <1>2. Len(<<>>) = 0 /\ <<>> \in Seq(Recs)
    OBVIOUS
  <1> DEFINE none == <<>>
             zero == 0
  <1>3. SubSeq(none, 1, zero) = none
    OBVIOUS
  <1>4. Begins(Start.data, Start.data)
    BY DEF Begins, Start
  <1>5. none \in Seq(Recs) /\ Len(none) = zero /\ After(none) = Start /\ \A n \in 0 .. zero : n = zero
    BY <1>1, <1>2
  <1> HIDE DEF none
  <1>6. Sound(none)
    BY <1>1, <1>3, <1>4, <1>5 DEF Sound
  <1> QED
    BY <1>1, <1>6 DEF none

\* What is sound begins soundly.
LEMMA SoundLess ==
    ASSUME NEW recs, Sound(recs), NEW n \in 0 .. Len(recs)
    PROVE  /\ Sound(SubSeq(recs, 1, n)) /\ Len(SubSeq(recs, 1, n)) = n
           /\ Begins(After(SubSeq(recs, 1, n)).data, After(recs).data)
  <1> DEFINE less == SubSeq(recs, 1, n)
             all == Len(recs)
  <1>1. /\ less \in Seq(Recs) /\ Len(less) = n /\ all \in Nat
        /\ \A m \in 0 .. n : SubSeq(less, 1, m) = SubSeq(recs, 1, m)
        /\ SubSeq(recs, 1, all) = recs /\ n \in 0 .. all /\ all \in 0 .. all
    <2>1. recs \in Seq(Recs)
      BY DEF Sound
    <2>2. /\ less \in Seq(Recs) /\ Len(less) = n /\ all \in Nat
          /\ \A i \in 1 .. n : less[i] = recs[i]
      BY <2>1
    <2>3. ASSUME NEW m \in 0 .. n PROVE SubSeq(less, 1, m) = SubSeq(recs, 1, m)
      <3> HIDE DEF less
      <3>1. /\ SubSeq(less, 1, m) \in Seq(Recs) /\ SubSeq(recs, 1, m) \in Seq(Recs)
            /\ Len(SubSeq(less, 1, m)) = m /\ Len(SubSeq(recs, 1, m)) = m
            /\ \A i \in 1 .. m : SubSeq(less, 1, m)[i] = SubSeq(recs, 1, m)[i]
        BY <2>1, <2>2
      <3> QED
        BY <3>1
    <2> QED
      BY <2>1, <2>2, <2>3
  <1> HIDE DEF less, all
  <1>2. \A m \in 0 .. n : After(SubSeq(less, 1, m)) \in Clients
    <2>1. \A m \in 0 .. n : m \in 0 .. all
      BY <1>1
    <2> QED
      BY <1>1, <2>1 DEF Sound, all
  <1>3. ASSUME NEW k \in 0 .. n, NEW m \in 0 .. k
        PROVE  Begins(After(SubSeq(less, 1, m)).data, After(SubSeq(less, 1, k)).data)
    <2>1. k \in 0 .. all /\ m \in 0 .. n
      BY <1>1
    <2> QED
      BY <1>1, <2>1 DEF Sound, all
  <1>4. Begins(After(less).data, After(recs).data)
    BY <1>1 DEF Sound, all, less
  <1> QED
    BY <1>1, <1>2, <1>3, <1>4 DEF Sound, less

\* One more record.
LEMMA SoundMore ==
    ASSUME NEW recs, Sound(recs), NEW x \in Recs,
           Replay1(After(recs), x) \in Clients,
           Begins(After(recs).data, Replay1(After(recs), x).data)
    PROVE  Sound(Append(recs, x)) /\ After(Append(recs, x)) = Replay1(After(recs), x)
  <1> DEFINE more == Append(recs, x)
             n == Len(recs)
             k == n + 1
  <1>0. recs \in Seq(Recs)
    BY DEF Sound
  <1>1. After(more) = Replay1(After(recs), x)
    BY <1>0, AfterOne
  <1>2. /\ n \in Nat /\ more \in Seq(Recs) /\ Len(more) = k /\ k \in Nat /\ n < k
        /\ SubSeq(more, 1, k) = more /\ SubSeq(recs, 1, n) = recs
        /\ \A m \in 0 .. k : m \in 0 .. n \/ m = k
        /\ \A i \in 1 .. n : more[i] = recs[i]
    BY <1>0
  <1> HIDE DEF more, n, k
  <1>3. ASSUME NEW m \in 0 .. n PROVE SubSeq(more, 1, m) = SubSeq(recs, 1, m)
    <2>1. /\ SubSeq(more, 1, m) \in Seq(Recs) /\ SubSeq(recs, 1, m) \in Seq(Recs)
          /\ Len(SubSeq(more, 1, m)) = m /\ Len(SubSeq(recs, 1, m)) = m
          /\ \A i \in 1 .. m : SubSeq(more, 1, m)[i] = SubSeq(recs, 1, m)[i]
      BY <1>0, <1>2 DEF n
    <2> QED
      BY <2>1
  <1>4. \A m \in 0 .. n : After(SubSeq(more, 1, m)) \in Clients
    BY <1>3 DEF Sound, n
  <1>5. \A m \in 0 .. k : After(SubSeq(more, 1, m)) \in Clients
    BY <1>1, <1>2, <1>4
  <1>6. After(recs) \in Clients
    BY SoundAfter
  <1>7. ASSUME NEW j \in 0 .. n, NEW m \in 0 .. j
        PROVE  Begins(After(SubSeq(more, 1, m)).data, After(SubSeq(more, 1, j)).data)
    <2>1. m \in 0 .. n
      BY <1>2
    <2> QED
      BY <1>3, <2>1 DEF Sound, n
  <1>8. ASSUME NEW m \in 0 .. k
        PROVE  Begins(After(SubSeq(more, 1, m)).data, After(more).data)
    <2>1. CASE m = k
      BY <1>1, <1>2, <2>1, BeginsSelf DEF Clients
    <2>2. CASE m \in 0 .. n
      <3>1. n \in 0 .. n
        BY <1>2
      <3>2. Begins(After(SubSeq(more, 1, m)).data, After(recs).data)
        BY <1>2, <1>3, <1>7, <2>2, <3>1
      <3>3. /\ After(SubSeq(more, 1, m)).data \in Seq(Cmds) /\ After(recs).data \in Seq(Cmds)
            /\ After(more).data \in Seq(Cmds)
        BY <1>1, <1>4, <1>6, <2>2 DEF Clients
      <3> QED
        BY <1>1, <3>2, <3>3, BeginsOn
    <2> QED
      BY <1>2, <2>1, <2>2
  <1>9. ASSUME NEW j \in 0 .. k, NEW m \in 0 .. j
        PROVE  Begins(After(SubSeq(more, 1, m)).data, After(SubSeq(more, 1, j)).data)
    BY <1>2, <1>7, <1>8
  <1>10. Sound(more)
    BY <1>2, <1>5, <1>9 DEF Sound
  <1> QED
    BY <1>1, <1>10 DEF more

----------------------------------------------------------------------------
(* Files: halves and records *)

\* Half of a record, as it is written.
Half == [part : {"head", "tail"}, rec : Recs]

\* Of even length: no record is torn.
Even(n) == n % 2 = 0

\* A file, of which the last record may be torn, and a whole file.
Written(f) == f \in Seq(Half) /\ WellFormed(f) /\ Sound(Records(f))
Whole(f)   == Written(f) /\ Even(Len(f))

\* Halves of numbers.
LEMMA Halving ==
    ASSUME NEW n \in Nat
    PROVE  /\ n \div 2 \in Nat /\ (n = 2 * (n \div 2) \/ n = 2 * (n \div 2) + 1)
           /\ Even(n) <=> n = 2 * (n \div 2)
           /\ n % 2 \in 0 .. 1
           /\ Even(n + n) /\ (2 * n) \div 2 = n /\ (2 * n + 1) \div 2 = n
  BY DEF Even

\* Half of a smaller number is not larger.
LEMMA HalvingOrder ==
    ASSUME NEW n \in Nat, NEW m \in Nat, m <= n
    PROVE  m \div 2 <= n \div 2
  OBVIOUS

\* Halves of a sum.
LEMMA HalvingSum ==
    ASSUME NEW n \in Nat, NEW m \in Nat, Even(n)
    PROVE  /\ (n + 2 * m) \div 2 = n \div 2 + m
           /\ Even(n + 2 * m) /\ (n + m) % 2 = m % 2
  BY DEF Even

\* The records of a file are those of its second halves.
LEMMA RecordsOf ==
    ASSUME NEW f \in Seq(Half)
    PROVE  /\ Len(f) \in Nat /\ Records(f) \in Seq(Recs)
           /\ Len(Records(f)) = Len(f) \div 2 /\ Len(f) \div 2 \in Nat
           /\ \A i \in 1 .. Len(f) \div 2 : 2 * i \in 1 .. Len(f) /\ Records(f)[i] = f[2 * i].rec
  <1> DEFINE n == Len(f)
             k == n \div 2
  <1>1. n \in Nat /\ \A i \in 1 .. n : f[i] \in Half
    OBVIOUS
  <1> HIDE DEF n
  <1>2. k \in Nat /\ \A i \in 1 .. k : 2 * i \in 1 .. n
    BY <1>1, Halving
  <1> HIDE DEF k
  <1>3. Records(f) = [i \in 1 .. k |-> f[2 * i].rec]
    BY DEF Records, k, n
  <1>4. \A i \in 1 .. k : f[2 * i].rec \in Recs
    BY <1>1, <1>2 DEF Half
  <1>5. Records(f) \in Seq(Recs) /\ Len(Records(f)) = k
    BY <1>2, <1>3, <1>4
  <1> QED
    BY <1>1, <1>2, <1>3, <1>5 DEF n, k

\* Two sequences, one behind the other.
LEMMA Joined ==
    ASSUME NEW S, NEW a \in Seq(S), NEW b \in Seq(S)
    PROVE  /\ a \o b \in Seq(S) /\ Len(a \o b) = Len(a) + Len(b)
           /\ \A i \in 1 .. Len(a) : (a \o b)[i] = a[i]
           /\ \A i \in 1 .. Len(b) : (a \o b)[Len(a) + i] = b[i]
  OBVIOUS

\* The halves of records behind a whole file.
LEMMA HalvesOf ==
    ASSUME NEW recs \in Seq(Recs)
    PROVE  /\ Halves(recs) \in Seq(Half) /\ Len(Halves(recs)) = 2 * Len(recs)
           /\ \A i \in 1 .. 2 * Len(recs) : Halves(recs)[i].part = Part(i)
           /\ \A i \in 1 .. Len(recs) : Halves(recs)[2 * i].rec = recs[i]
  <1> DEFINE n == Len(recs)
             m == 2 * n
             h == Halves(recs)
  <1>1. n \in Nat /\ m \in Nat /\ \A i \in 1 .. n : recs[i] \in Recs
    OBVIOUS
  <1>2. h = [i \in 1 .. m |-> [part |-> Part(i), rec |-> recs[(i + 1) \div 2]]]
    BY DEF Halves
  <1>3. \A i \in 1 .. m : (i + 1) \div 2 \in 1 .. n
    BY <1>1
  <1>4. \A i \in 1 .. n : 2 * i \in 1 .. m /\ (2 * i + 1) \div 2 = i
    BY <1>1
  <1> HIDE DEF n, m, h
  <1>5. \A i \in 1 .. m : Part(i) \in {"head", "tail"}
    BY DEF Part
  <1>6. \A i \in 1 .. m : [part |-> Part(i), rec |-> recs[(i + 1) \div 2]] \in Half
    BY <1>1, <1>3, <1>5 DEF Half
  <1>7. h \in Seq(Half) /\ Len(h) = m
    BY <1>1, <1>2, <1>6
  <1>8. \A i \in 1 .. n : h[2 * i].rec = recs[i]
    BY <1>2, <1>4
  <1>9. \A i \in 1 .. m : h[i].part = Part(i)
    BY <1>2
  <1> QED
    BY <1>7, <1>8, <1>9 DEF n, m, h

\* Records behind a whole file make a whole file, with these records more.
LEMMA JoinedWhole ==
    ASSUME NEW f \in Seq(Half), WellFormed(f), Even(Len(f)), NEW recs \in Seq(Recs)
    PROVE  /\ f \o Halves(recs) \in Seq(Half) /\ WellFormed(f \o Halves(recs))
           /\ Even(Len(f \o Halves(recs)))
           /\ Records(f \o Halves(recs)) = Records(f) \o recs
  <1> DEFINE h == Halves(recs)
             g == f \o h
             n == Len(f)
             k == Len(recs)
             l == n \div 2
  <1>1. n \in Nat /\ k \in Nat /\ l \in Nat /\ n = 2 * l /\ Even(n)
    <2>1. n \in Nat /\ k \in Nat /\ Even(n)
      OBVIOUS
    <2> HIDE DEF n, k
    <2> QED
      BY <2>1, Halving
  <1>2. /\ h \in Seq(Half) /\ Len(h) = 2 * k
        /\ \A i \in 1 .. 2 * k : h[i].part = Part(i)
        /\ \A i \in 1 .. k : h[2 * i].rec = recs[i]
    BY HalvesOf
  <1> HIDE DEF h
  <1>3. /\ g \in Seq(Half) /\ Len(g) = n + 2 * k
        /\ \A i \in 1 .. n : g[i] = f[i]
        /\ \A i \in 1 .. 2 * k : g[n + i] = h[i]
    <2>1. /\ f \o h \in Seq(Half) /\ Len(f \o h) = Len(f) + Len(h)
          /\ \A i \in 1 .. Len(f) : (f \o h)[i] = f[i]
          /\ \A i \in 1 .. Len(h) : (f \o h)[Len(f) + i] = h[i]
      <3>1. h \in Seq(Half)
        BY <1>2
      <3> QED
        BY <3>1, Joined
    <2> QED
      BY <1>2, <2>1
  <1> HIDE DEF g
  <1>4. Even(n + 2 * k) /\ (n + 2 * k) \div 2 = l + k
    BY <1>1, HalvingSum
  <1>5. WellFormed(g)
    <2>1. \A i \in 1 .. n : f[i].part = Part(i)
      BY DEF WellFormed
    <2> HIDE DEF n, l, k
    <2>2. ASSUME NEW i \in 1 .. n + 2 * k PROVE g[i].part = Part(i)
      <3>1. CASE i \in 1 .. n
        BY <1>3, <2>1, <3>1
      <3>2. CASE i \notin 1 .. n
        <4> DEFINE j == i - n
        <4>1. j \in 1 .. 2 * k /\ i = n + j
          BY <1>1, <3>2
        <4>2. g[i].part = Part(j)
          <5> HIDE DEF j
          <5> QED
            BY <1>2, <1>3, <4>1
        <4>3. i % 2 = j % 2
          <5> HIDE DEF j
          <5> QED
            BY <1>1, <4>1, HalvingSum
        <4> QED
          BY <4>2, <4>3 DEF Part
      <3> QED
        BY <3>1, <3>2
    <2> QED
      BY <1>1, <1>3, <2>2 DEF WellFormed
  <1>6. Records(g) = Records(f) \o recs
    <2>1. /\ Records(f) \in Seq(Recs) /\ Len(Records(f)) = l
          /\ \A i \in 1 .. l : 2 * i \in 1 .. n /\ Records(f)[i] = f[2 * i].rec
      BY RecordsOf
    <2>2. /\ Records(g) \in Seq(Recs) /\ Len(Records(g)) = l + k
          /\ \A i \in 1 .. l + k : Records(g)[i] = g[2 * i].rec
      BY <1>3, <1>4, RecordsOf
    <2>3. /\ Len(Records(f) \o recs) = l + k /\ Records(f) \o recs \in Seq(Recs)
          /\ \A i \in 1 .. l : (Records(f) \o recs)[i] = Records(f)[i]
          /\ \A i \in 1 .. k : (Records(f) \o recs)[l + i] = recs[i]
      <3> DEFINE R == Records(f)
      <3> HIDE DEF R
      <3>1. /\ R \o recs \in Seq(Recs) /\ Len(R \o recs) = Len(R) + Len(recs)
            /\ \A i \in 1 .. Len(R) : (R \o recs)[i] = R[i]
            /\ \A i \in 1 .. Len(recs) : (R \o recs)[Len(R) + i] = recs[i]
        <4>1. R \in Seq(Recs)
          BY <2>1 DEF R
        <4> QED
          BY <4>1, Joined
      <3> QED
        BY <2>1, <3>1 DEF R
    <2> HIDE DEF n, l, k
    <2>4. ASSUME NEW i \in 1 .. l + k PROVE Records(g)[i] = (Records(f) \o recs)[i]
      <3>1. CASE i \in 1 .. l
        <4>1. Records(f)[i] = f[2 * i].rec /\ g[2 * i] = f[2 * i]
          BY <1>3, <2>1, <3>1
        <4> QED
          BY <2>2, <2>3, <3>1, <4>1
      <3>2. CASE i \notin 1 .. l
        <4> DEFINE j == i - l
        <4>1. j \in 1 .. k /\ i = l + j /\ 2 * i = n + 2 * j /\ 2 * j \in 1 .. 2 * k
          BY <1>1, <3>2
        <4> HIDE DEF j
        <4>2. g[2 * i] = h[2 * j]
          BY <1>3, <4>1
        <4> QED
          BY <1>2, <2>2, <2>3, <4>1, <4>2
      <3> QED
        BY <3>1, <3>2
    <2> DEFINE R == Records(f) \o recs
               Q == Records(g)
               s == l + k
    <2>5. /\ Q \in Seq(Recs) /\ R \in Seq(Recs) /\ Len(Q) = s /\ Len(R) = s
          /\ \A i \in 1 .. s : Q[i] = R[i]
      BY <2>2, <2>3, <2>4
    <2> HIDE DEF R, Q, s
    <2>6. Q = R
      BY <2>5
    <2> QED
      BY <2>6 DEF Q, R
  <1> QED
    BY <1>3, <1>4, <1>5, <1>6 DEF g, h

\* What is written first of a file is a file.
LEMMA WrittenFirst ==
    ASSUME NEW a \in Seq(Half), NEW b \in Seq(Half), Written(a \o b)
    PROVE  Written(a) /\ Begins(Loaded(a), Loaded(a \o b))
  <1> DEFINE f == a \o b
             n == Len(a)
             k == n \div 2
             m == Len(f)
             l == m \div 2
  <1>1. n \in Nat /\ m \in Nat /\ n <= m /\ f \in Seq(Half) /\ \A i \in 1 .. n : f[i] = a[i]
    OBVIOUS
  <1>2. k \in Nat /\ l \in Nat /\ k <= l
    BY <1>1, Halving, HalvingOrder
  <1> HIDE DEF f
  <1>3. /\ Records(a) \in Seq(Recs) /\ Len(Records(a)) = k
        /\ \A i \in 1 .. k : 2 * i \in 1 .. n /\ Records(a)[i] = a[2 * i].rec
    BY RecordsOf
  <1>4. /\ Records(f) \in Seq(Recs) /\ Len(Records(f)) = l
        /\ \A i \in 1 .. l : 2 * i \in 1 .. m /\ Records(f)[i] = f[2 * i].rec
    BY <1>1, RecordsOf
  <1> HIDE DEF n, k, m, l
  <1>5. Records(a) = SubSeq(Records(f), 1, k)
    <2>1. /\ SubSeq(Records(f), 1, k) \in Seq(Recs) /\ Len(SubSeq(Records(f), 1, k)) = k
          /\ \A i \in 1 .. k : SubSeq(Records(f), 1, k)[i] = Records(f)[i]
      BY <1>2, <1>4
    <2>2. \A i \in 1 .. k : Records(a)[i] = Records(f)[i]
      <3>1. \A i \in 1 .. k : i \in 1 .. l /\ f[2 * i] = a[2 * i]
        BY <1>1, <1>2, <1>3 DEF n
      <3> QED
        BY <1>3, <1>4, <3>1
    <2> QED
      BY <1>3, <2>1, <2>2
  <1>6. Sound(Records(f)) /\ WellFormed(f) /\ k \in 0 .. Len(Records(f))
    BY <1>2, <1>4 DEF Written, f
  <1>7. Sound(Records(a)) /\ Begins(After(Records(a)).data, After(Records(f)).data)
    BY <1>5, <1>6, SoundLess
  <1>8. WellFormed(a)
    BY <1>1, <1>6 DEF WellFormed, n, m
  <1> QED
    BY <1>7, <1>8 DEF Written, Loaded, Replay, f

----------------------------------------------------------------------------
(* A command, or a dump, behind a file *)

\* The records there are.
RecordKinds ==
    /\ \A db \in Dbs : Select(db) \in Recs
    /\ \A n \in Nat : Cmd(n) \in Recs
    /\ Multi \in Recs /\ Exec \in Recs
    /\ \A d \in Seq(Cmds) : Dump(d) \in Recs

\* The records that feedAppendOnlyFile and the rewrite write are records.
LEMMA Kinds == RecordKinds
  BY DEF RecordKinds, Recs

\* What records of each kind add to sound ones.
LEMMA SoundSelect ==
    ASSUME NEW recs, Sound(recs), NEW db \in Dbs
    PROVE  /\ Sound(Append(recs, Select(db)))
           /\ After(Append(recs, Select(db))).data = After(recs).data
           /\ After(Append(recs, Select(db))).db = db
  <1> DEFINE c == After(recs)
             x == Select(db)
  <1>1. c \in Clients /\ c.data \in Seq(Cmds)
    BY SoundAfter
  <1>2. x \in Recs /\ Replay1(c, x) = [c EXCEPT !.db = db]
    BY <1>1, Kinds, Replaying DEF RecordKinds
  <1> HIDE DEF c, x
  <1>3. Replay1(c, x) \in Clients /\ Replay1(c, x).data = c.data /\ Replay1(c, x).db = db
    BY <1>1, <1>2 DEF Clients
  <1>4. Begins(c.data, Replay1(c, x).data)
    BY <1>1, <1>3, BeginsSelf
  <1>5. Sound(Append(recs, x)) /\ After(Append(recs, x)) = Replay1(c, x)
    BY <1>2, <1>3, <1>4, SoundMore DEF c
  <1> QED
    BY <1>3, <1>5 DEF c, x

LEMMA SoundMulti ==
    ASSUME NEW recs, Sound(recs), NEW x \in {Multi, Exec}
    PROVE  /\ Sound(Append(recs, x))
           /\ After(Append(recs, x)).data = After(recs).data
           /\ After(Append(recs, x)).db = After(recs).db
  <1> DEFINE c == After(recs)
  <1>1. c \in Clients /\ c.data \in Seq(Cmds)
    BY SoundAfter
  <1>2. x \in Recs /\ \E m \in BOOLEAN : Replay1(c, x) = [c EXCEPT !.multi = m]
    BY <1>1, Kinds, Replaying DEF RecordKinds
  <1> HIDE DEF c
  <1>3. Replay1(c, x) \in Clients /\ Replay1(c, x).data = c.data /\ Replay1(c, x).db = c.db
    BY <1>1, <1>2 DEF Clients
  <1>4. Begins(c.data, Replay1(c, x).data)
    BY <1>1, <1>3, BeginsSelf
  <1>5. Sound(Append(recs, x)) /\ After(Append(recs, x)) = Replay1(c, x)
    BY <1>2, <1>3, <1>4, SoundMore DEF c
  <1> QED
    BY <1>3, <1>5 DEF c

LEMMA SoundCmd ==
    ASSUME NEW recs, Sound(recs), NEW n \in Nat
    PROVE  /\ Sound(Append(recs, Cmd(n)))
           /\ After(Append(recs, Cmd(n))).data = Append(After(recs).data, <<After(recs).db, n>>)
           /\ After(Append(recs, Cmd(n))).db = After(recs).db
  <1> DEFINE c == After(recs)
             x == Cmd(n)
             y == <<c.db, n>>
  <1>1. c \in Clients /\ c.data \in Seq(Cmds)
    BY SoundAfter
  <1>2. x \in Recs /\ Replay1(c, x) = [c EXCEPT !.data = Append(@, y)]
    BY <1>1, Kinds, Replaying DEF RecordKinds
  <1>3. y \in Cmds
    <2> HIDE DEF c
    <2> QED
      BY <1>1 DEF Clients, Cmds
  <1> HIDE DEF c, x, y
  <1>4. Append(c.data, y) \in Seq(Cmds) /\ Begins(c.data, Append(c.data, y))
    BY <1>1, <1>3 DEF Begins
  <1>5. /\ Replay1(c, x) \in Clients /\ Replay1(c, x).data = Append(c.data, y)
        /\ Replay1(c, x).db = c.db
    BY <1>1, <1>2, <1>4 DEF Clients
  <1>6. Sound(Append(recs, x)) /\ After(Append(recs, x)) = Replay1(c, x)
    BY <1>2, <1>4, <1>5, SoundMore DEF c
  <1> QED
    BY <1>5, <1>6 DEF c, x, y

\* The records of a command, or of a transaction of two.
Executed(s, n) ==
    LET cmds == [i \in 1 .. n |-> Cmd(Len(s) + i)]
    IN IF n = 1 THEN cmds ELSE <<Multi>> \o cmds \o <<Exec>>

\* The dataset with n commands more.
Grown(s, db, n) == s \o [i \in 1 .. n |-> <<db, Len(s) + i>>]

\* The SELECT of feedAppendOnlyFile, if one is due.
Chosen(db, sel) == IF db = sel THEN <<>> ELSE <<Select(db)>>

\* Appending behind two sequences.
LEMMA Appending ==
    ASSUME NEW S, NEW R \in Seq(S), NEW h \in Seq(S), NEW a \in S
    PROVE  R \o (h \o <<a>>) = Append(R \o h, a)
  OBVIOUS

\* A transaction of two.
Four(a, b, e, f) == <<a>> \o <<b, e>> \o <<f>>

\* A transaction behind two sequences.
LEMMA AppendingFour ==
    ASSUME NEW p \in Seq(Recs), NEW q \in Seq(Recs),
           NEW a \in Recs, NEW b \in Recs, NEW e \in Recs, NEW f \in Recs
    PROVE  p \o (q \o Four(a, b, e, f))
             = Append(Append(Append(Append(p \o q, a), b), e), f)
  <1>1. \A w \in Seq(Recs), z \in Recs :
           /\ p \o (q \o Append(w, z)) = Append(p \o (q \o w), z)
           /\ Append(w, z) \in Seq(Recs)
    <2> SUFFICES ASSUME NEW w \in Seq(Recs), NEW z \in Recs
                 PROVE  /\ p \o (q \o Append(w, z)) = Append(p \o (q \o w), z)
                        /\ Append(w, z) \in Seq(Recs)
      OBVIOUS
    <2>1. q \o Append(w, z) = Append(q \o w, z) /\ q \o w \in Seq(Recs)
      OBVIOUS
    <2> DEFINE v == q \o w
    <2>2. v \in Seq(Recs)
      BY <2>1
    <2> HIDE DEF v
    <2>3. p \o Append(v, z) = Append(p \o v, z)
      BY <2>2
    <2> QED
      BY <2>1, <2>3 DEF v
  <1> DEFINE t1 == <<a>>
             t2 == Append(t1, b)
             t3 == Append(t2, e)
  <1>2. t1 \in Seq(Recs) /\ t2 \in Seq(Recs) /\ t3 \in Seq(Recs)
    OBVIOUS
  <1>3. Four(a, b, e, f) = Append(t3, f)
    BY DEF Four
  <1>4. p \o (q \o t1) = Append(p \o q, a)
    BY Appending
  <1> HIDE DEF t1
  <1>5. p \o (q \o t2) = Append(p \o (q \o t1), b)
    BY <1>1, <1>2
  <1> HIDE DEF t2
  <1>6. p \o (q \o t3) = Append(p \o (q \o t2), e)
    BY <1>1, <1>2
  <1> HIDE DEF t3
  <1>7. p \o (q \o Append(t3, f)) = Append(p \o (q \o t3), f)
    BY <1>1, <1>2
  <1>8. p \o (q \o Append(t3, f)) = Append(Append(Append(Append(p \o q, a), b), e), f)
    BY <1>4, <1>5, <1>6, <1>7
  <1> QED
    BY <1>3, <1>8

\* Records to which a command, or a transaction, was added.
LEMMA FedRecords ==
    ASSUME NEW R, Sound(R), NEW s \in Seq(Cmds), After(R).data = s,
           NEW db \in Dbs, NEW sel \in Dbs \cup {None}, sel # None => After(R).db = sel,
           NEW n \in 1 .. 2
    PROVE  LET all == R \o (Chosen(db, sel) \o Executed(s, n))
           IN  /\ Sound(all) /\ After(all).data = Grown(s, db, n) /\ After(all).db = db
               /\ Chosen(db, sel) \o Executed(s, n) \in Seq(Recs)
  <1> DEFINE h == Chosen(db, sel)
             g == R \o h
             l == Len(s)
             k == l + 1
             m == l + 2
  <1>1. R \in Seq(Recs) /\ l \in Nat /\ k \in Nat /\ m \in Nat
    BY DEF Sound
  <1>2. h \in Seq(Recs) /\ Sound(g) /\ After(g).data = s /\ After(g).db = db
    <2>1. CASE db = sel
      <3>1. h = <<>> /\ g = R
        BY <1>1, <2>1 DEF Chosen
      <3>2. db # None
        BY AofAssumption
      <3> QED
        BY <2>1, <3>1, <3>2
    <2>2. CASE db # sel
      <3>1. Select(db) \in Recs
        BY Kinds DEF RecordKinds
      <3> DEFINE x == Select(db)
      <3>2. /\ Sound(Append(R, x)) /\ After(Append(R, x)).data = s
            /\ After(Append(R, x)).db = db
        BY SoundSelect
      <3> HIDE DEF x
      <3>3. h = <<x>>
        BY <2>2 DEF Chosen, x
      <3>4. g = Append(R, x) /\ h \in Seq(Recs)
        BY <1>1, <3>1, <3>3 DEF x
      <3> QED
        BY <3>2, <3>4
    <2> QED
      BY <2>1, <2>2
  <1> HIDE DEF h, g, l, k, m
  <1> DEFINE x == Cmd(k)
             y == Cmd(m)
             u == <<db, k>>
             v == <<db, m>>
  <1>3. x \in Recs /\ y \in Recs /\ Multi \in Recs /\ Exec \in Recs
    BY <1>1, Kinds DEF RecordKinds
  <1>4. u \in Cmds /\ v \in Cmds
    BY <1>1 DEF Cmds
  <1>5. CASE n = 1
    <2>1. /\ Sound(Append(g, x)) /\ After(Append(g, x)).data = Append(s, u)
          /\ After(Append(g, x)).db = db
      BY <1>1, <1>2, SoundCmd
    <2>2. Executed(s, n) = <<x>>
      BY <1>1, <1>5 DEF Executed, l, k
    <2>3. Grown(s, db, n) = s \o <<u>>
      BY <1>1, <1>5 DEF Grown, l, k
    <2> HIDE DEF x, u
    <2>4. Grown(s, db, n) = Append(s, u)
      BY <1>4, <2>3
    <2>5. R \o (h \o <<x>>) = Append(g, x) /\ h \o <<x>> \in Seq(Recs)
      BY <1>1, <1>2, <1>3, Appending DEF g
    <2> QED
      BY <2>1, <2>2, <2>4, <2>5 DEF h
  <1>6. CASE n = 2
    <2> DEFINE g1 == Append(g, Multi)
               g2 == Append(g1, x)
               g3 == Append(g2, y)
               g4 == Append(g3, Exec)
    <2>1. Sound(g1) /\ After(g1).data = s /\ After(g1).db = db
      BY <1>2, SoundMulti
    <2> HIDE DEF g1
    <2>2. Sound(g2) /\ After(g2).data = Append(s, u) /\ After(g2).db = db
      BY <1>1, <2>1, SoundCmd
    <2> HIDE DEF g2
    <2>3. Sound(g3) /\ After(g3).data = Append(Append(s, u), v) /\ After(g3).db = db
      BY <1>1, <2>2, SoundCmd
    <2> HIDE DEF g3
    <2>4. Sound(g4) /\ After(g4).data = Append(Append(s, u), v) /\ After(g4).db = db
      BY <2>3, SoundMulti
    <2>5. Executed(s, n) = <<Multi>> \o <<x, y>> \o <<Exec>>
      <3>1. [i \in 1 .. n |-> Cmd(Len(s) + i)] = <<x, y>>
        BY <1>1, <1>6 DEF l, k, m
      <3> QED
        BY <1>6, <3>1 DEF Executed
    <2>6. Grown(s, db, n) = s \o <<u, v>>
      <3>1. [i \in 1 .. n |-> <<db, Len(s) + i>>] = <<u, v>>
        BY <1>1, <1>6 DEF l, k, m
      <3> QED
        BY <1>6, <3>1 DEF Grown
    <2> HIDE DEF x, y, u, v
    <2>7. Grown(s, db, n) = Append(Append(s, u), v)
      BY <1>4, <2>6
    <2>8. R \o (h \o (<<Multi>> \o <<x, y>> \o <<Exec>>)) = g4
      <3> HIDE DEF g1
      <3>1. R \o (h \o Four(Multi, x, y, Exec))
              = Append(Append(Append(Append(R \o h, Multi), x), y), Exec)
        <4>1. R \in Seq(Recs) /\ h \in Seq(Recs)
          BY <1>1, <1>2
        <4> DEFINE P(a, b, e, f) ==
                      R \o (h \o Four(a, b, e, f))
                        = Append(Append(Append(Append(R \o h, a), b), e), f)
        <4>2. \A a \in Recs, b \in Recs, e \in Recs, f \in Recs : P(a, b, e, f)
          BY <4>1, AppendingFour
        <4>3. x \in Recs /\ y \in Recs /\ Multi \in Recs /\ Exec \in Recs
          BY <1>3
        <4> HIDE DEF g4, P
        <4>4. P(Multi, x, y, Exec)
          BY <4>2, <4>3
        <4> QED
          BY <4>4 DEF P
      <3> QED
        BY <3>1 DEF g, g1, g2, g3, Four
    <2>9. h \o (<<Multi>> \o <<x, y>> \o <<Exec>>) \in Seq(Recs)
      BY <1>2, <1>3
    <2> QED
      BY <2>4, <2>5, <2>7, <2>8, <2>9 DEF h
  <1> QED
    BY <1>5, <1>6

\* A file to which a command, or a transaction, was added.
LEMMA FedFile ==
    ASSUME NEW f, Whole(f), NEW s \in Seq(Cmds), Loaded(f) = s,
           NEW db \in Dbs, NEW sel \in Dbs \cup {None}, sel # None => Replay(f).db = sel,
           NEW n \in 1 .. 2
    PROVE  LET h == Halves(Chosen(db, sel) \o Executed(s, n))
               g == f \o h
           IN  /\ h \in Seq(Half) /\ Whole(g) /\ Loaded(g) = Grown(s, db, n)
               /\ Replay(g).db = db
  <1> DEFINE r == Chosen(db, sel) \o Executed(s, n)
             R == Records(f)
  <1>1. Sound(R) /\ After(R).data = s /\ (sel # None => After(R).db = sel)
    BY DEF Whole, Written, Loaded, Replay
  <1> HIDE DEF R
  <1>2. Sound(R \o r) /\ After(R \o r).data = Grown(s, db, n) /\ After(R \o r).db = db /\ r \in Seq(Recs)
    BY <1>1, FedRecords
  <1> HIDE DEF r
  <1>3. /\ f \o Halves(r) \in Seq(Half) /\ WellFormed(f \o Halves(r))
        /\ Even(Len(f \o Halves(r))) /\ Records(f \o Halves(r)) = R \o r
        /\ Halves(r) \in Seq(Half)
    BY <1>2, JoinedWhole, HalvesOf DEF Whole, Written, R
  <1> QED
    BY <1>2, <1>3 DEF Whole, Written, Loaded, Replay, r

\* A new file with a dataset.
LEMMA Dumped ==
    ASSUME NEW s \in Seq(Cmds)
    PROVE  LET f == IF s = <<>> THEN <<>> ELSE Halves(<<Dump(s)>>)
           IN  Whole(f) /\ Loaded(f) = s
  <1>1. Whole(<<>>) /\ Loaded(<<>>) = <<>> /\ Records(<<>>) = <<>>
    <2>1. Records(<<>>) = <<>>
      BY DEF Records
    <2> QED
      BY <2>1, SoundNone DEF Whole, Written, WellFormed, Even, Loaded, Replay, Start
  <1> DEFINE x == Dump(s)
             r == <<x>>
             none == <<>>
  <1>2. x \in Recs
    BY Kinds DEF RecordKinds
  <1>3. Replay1(Start, x) = [Start EXCEPT !.data = s, !.db = None] /\ Start \in Clients
    BY SoundNone, Replaying
  <1>4. Replay1(Start, x) \in Clients /\ Replay1(Start, x).data = s
    BY <1>3 DEF Clients, Start
  <1>5. Begins(Start.data, s)
    BY BeginsSelf DEF Start
  <1> HIDE DEF x
  <1>6. Sound(Append(none, x)) /\ After(Append(none, x)) = Replay1(Start, x)
    BY <1>2, <1>4, <1>5, SoundNone, SoundMore
  <1>7. Append(none, x) = r /\ none \o r = r /\ r \in Seq(Recs)
    BY <1>2
  <1> HIDE DEF r, none
  <1>8. Sound(r) /\ After(r).data = s
    BY <1>4, <1>6, <1>7
  <1>9. none \in Seq(Half) /\ WellFormed(none) /\ Even(Len(none)) /\ Records(none) = none
    BY <1>1 DEF Whole, Written, none
  <1>10. /\ none \o Halves(r) \in Seq(Half) /\ WellFormed(none \o Halves(r))
         /\ Even(Len(none \o Halves(r))) /\ Records(none \o Halves(r)) = none \o r
    BY <1>7, <1>9, JoinedWhole
  <1>11. Halves(r) \in Seq(Half)
    BY <1>7, HalvesOf
  <1>12. none \o Halves(r) = Halves(r)
    <2> DEFINE h == Halves(r)
    <2> HIDE DEF h
    <2>1. h \in Seq(Half)
      BY <1>11 DEF h
    <2> QED
      BY <2>1 DEF none, h
  <1>13. Whole(Halves(r)) /\ Loaded(Halves(r)) = s
    BY <1>7, <1>8, <1>10, <1>12 DEF Whole, Written, Loaded, Replay
  <1> QED
    BY <1>1, <1>13 DEF r, x

----------------------------------------------------------------------------
(* The inductive invariant, and what a flush does *)

\* The types of the buffers.
Buffers ==
    [aof_state : {"on", "wait", "off"}, aof_selected_db : Dbs \cup {None},
     aof_buf : Seq(Half), rewrite_buf : Seq(Half), aof_fd : {"none", "closed", "open"},
     aof_current_size : Nat, aof_last_write_status : {"ok", "err"}, scheduled : BOOLEAN,
     postponed : {"no", "yes", "long"}, sync_in_progress : BOOLEAN]

\* The event loop runs: the file can be looked at.
Looping == at \in {"top", "poll", "events"}

\* The types of the state.
Types ==
    /\ aof \in Buffers /\ disk \in Seq(Half) /\ data \in Seq(Cmds) /\ Len(data) <= MaxCmds
    /\ at \in {"top", "poll", "events", "renamed", "down"}
    /\ replies \in {"none", "pending", "writable"} /\ acked \in 0 .. MaxCmds
    /\ aof_fsync \in Policies

\* The file d holds the whole of the dataset s, and the commands that are to
\* be added to it are for the database sel, or a SELECT comes first.
Holds(d, s, sel) ==
    Loaded(d) = s /\ (sel # None => Replay(d).db = sel)

\* The rewrite child ch of a server with dataset s and buffers a, and file d.
ChildOK(ch, a, s, d) ==
    LET new == ch.temp \o a.rewrite_buf
    IN /\ ch = None => a.rewrite_buf = <<>>
       /\ ch # None =>
             /\ ch.temp \in Seq(Half) /\ Whole(new)
             /\ Begins(Loaded(new), s) /\ Begins(Loaded(d), Loaded(new))
             /\ a.aof_state # "off" => Holds(new, s, a.aof_selected_db)

\* The file d and the buffer of a server with dataset s.
FileOK(a, s, d) ==
    /\ Whole(d \o a.aof_buf) /\ Begins(Loaded(d \o a.aof_buf), s)
    /\ a.aof_state = "on" =>
          /\ Holds(d \o a.aof_buf, s, a.aof_selected_db)
          /\ a.aof_current_size = Len(d)

\* The inductive invariant.
IInv ==
    /\ Types /\ Written(disk) /\ Len(Loaded(disk)) <= MaxCmds
    /\ aof.aof_state # "on" => aof.aof_buf = <<>>
    /\ aof.aof_state # "off" => aof.aof_fd = "open"
    /\ ChildOK(child, aof, data, disk)
    /\ at = "down" =>
          /\ aof = NoBuffers /\ child = None /\ data = <<>> /\ replies = "none"
    /\ at # "down" => Begins(Loaded(disk), data) /\ acked <= Len(data)
    /\ Looping => FileOK(aof, data, disk)
    /\ at = "renamed" => child # None /\ disk = child.temp \o aof.rewrite_buf

\* What AckedSurvive rests on.
AInv ==
    aof_fsync = "always" /\ aof.aof_state = "on" /\ at # "down" =>
        /\ acked <= Len(Loaded(disk))
        /\ at = "poll" \/ (at = "events" /\ replies = "writable") => aof.aof_buf = <<>>

\* What a flush does: p is written, q is not.
Outcome(r, p, q) ==
    /\ p \in Seq(Half) /\ q \in Seq(Half) /\ p \o q = aof.aof_buf
    /\ r.disk = disk \o p /\ r.aof \in Buffers /\ r.aof.aof_buf = q
    /\ r.aof.aof_state = aof.aof_state /\ r.aof.aof_selected_db = aof.aof_selected_db
    /\ r.aof.rewrite_buf = aof.rewrite_buf /\ r.aof.aof_fd = aof.aof_fd
    /\ aof.aof_current_size = Len(disk) => r.aof.aof_current_size = Len(r.disk)
    /\ aof_fsync = "always" /\ aof.aof_fd = "open" => q = <<>> \/ ExitsOn(r)

\* The empty sequence changes nothing.
LEMMA EmptyJoined ==
    ASSUME NEW S, NEW s \in Seq(S)
    PROVE  s \o <<>> = s /\ <<>> \o s = s /\ <<>> \in Seq(S)
  OBVIOUS

\* A sequence cut in two.
LEMMA Split ==
    ASSUME NEW S, NEW s \in Seq(S), NEW n \in 0 .. Len(s)
    PROVE  /\ SubSeq(s, 1, n) \in Seq(S) /\ SubSeq(s, n + 1, Len(s)) \in Seq(S)
           /\ Len(SubSeq(s, 1, n)) = n
           /\ SubSeq(s, 1, n) \o SubSeq(s, n + 1, Len(s)) = s
  <1> DEFINE l == Len(s)
             k == n + 1
             one == 1
  <1>1. l \in Nat /\ n \in Nat /\ n <= l /\ \A i \in 1 .. l : s[i] \in S
    OBVIOUS
  <1>2. SubSeq(s, 1, n) \in Seq(S) /\ Len(SubSeq(s, 1, n)) = n
    BY <1>1
  <1>3. k \in Int /\ l \in Int /\ \A i \in k .. l : s[i] \in S
    BY <1>1
  <1>4. one \in 1 .. l + 1 /\ n \in one - 1 .. l /\ l \in n .. l /\ SubSeq(s, one, l) = s
    BY <1>1
  <1> HIDE DEF k, l, one
  <1>5. SubSeq(s, k, l) \in Seq(S)
    BY <1>3, SubSeqProperties
  <1>6. SubSeq(s, one, n) \o SubSeq(s, n + 1, l) = SubSeq(s, one, l)
    BY <1>4, ConcatAdjacentSubSeq DEF l
  <1> QED
    BY <1>2, <1>4, <1>5, <1>6 DEF k, l, one

\* ftruncate takes back what was written behind a file.
LEMMA Truncated ==
    ASSUME NEW S, NEW s \in Seq(S), NEW t \in Seq(S)
    PROVE  SubSeq(s \o t, 1, Len(s)) = s
  <1> DEFINE n == Len(s)
             w == s \o t
  <1>1. n \in Nat /\ w \in Seq(S) /\ n <= Len(w) /\ \A i \in 1 .. n : w[i] = s[i]
    OBVIOUS
  <1> HIDE DEF w
  <1>2. /\ SubSeq(w, 1, n) \in Seq(S) /\ Len(SubSeq(w, 1, n)) = n
        /\ \A i \in 1 .. n : SubSeq(w, 1, n)[i] = s[i]
    BY <1>1
  <1> QED
    BY <1>2 DEF w

\* A write that fails leaves the first part of the buffer in the file, or nothing.
LEMMA NotFlushedOutcome ==
    ASSUME aof \in Buffers, disk \in Seq(Half),
           aof.aof_current_size = Len(disk) \/ aof.aof_buf = <<>>,
           NEW n \in 0 .. Len(aof.aof_buf), NEW t \in BOOLEAN
    PROVE  \E p, q : Outcome(NotFlushed([aof EXCEPT !.postponed = "no"], disk, n, t), p, q)
  <1> DEFINE a == [aof EXCEPT !.postponed = "no"]
             b == aof.aof_buf
             e == [a EXCEPT !.aof_last_write_status = "err"]
             r == NotFlushed(a, disk, n, t)
  <1>1. /\ b \in Seq(Half) /\ a.aof_buf = b /\ e \in Buffers /\ e.aof_buf = b
        /\ e.aof_state = aof.aof_state /\ e.aof_selected_db = aof.aof_selected_db
        /\ e.rewrite_buf = aof.rewrite_buf /\ e.aof_fd = aof.aof_fd
        /\ e.aof_current_size = aof.aof_current_size /\ aof.aof_current_size \in Nat
        /\ e.aof_last_write_status = "err" /\ a.aof_current_size = aof.aof_current_size
    BY DEF Buffers
  <1> DEFINE p == SubSeq(b, 1, n)
             q == SubSeq(b, n + 1, Len(b))
  <1>2. p \in Seq(Half) /\ q \in Seq(Half) /\ Len(p) = n /\ p \o q = b /\ n \in Nat
    <2>1. b \in Seq(Half) /\ n \in 0 .. Len(b) /\ n \in Nat
      BY <1>1
    <2> HIDE DEF b
    <2> QED
      BY <2>1, Split
  <1>3. CASE n > 0 /\ ~t
    <2> DEFINE f == [e EXCEPT !.aof_current_size = @ + n, !.aof_buf = SubSeq(@, n + 1, Len(@))]
    <2>1. r.aof = f /\ r.disk = disk \o p
      BY <1>1, <1>3 DEF NotFlushed
    <2>2. f = [e EXCEPT !.aof_current_size = aof.aof_current_size + n, !.aof_buf = q]
      BY <1>1
    <2> HIDE DEF e, r, a, p, q, b
    <2>3. /\ f \in Buffers /\ f.aof_buf = q /\ f.aof_current_size = aof.aof_current_size + n
          /\ f.aof_state = aof.aof_state /\ f.aof_selected_db = aof.aof_selected_db
          /\ f.rewrite_buf = aof.rewrite_buf /\ f.aof_fd = aof.aof_fd
          /\ f.aof_last_write_status = "err"
      <3> DEFINE m == aof.aof_current_size + n
      <3>1. m \in Nat /\ f = [e EXCEPT !.aof_current_size = m, !.aof_buf = q]
        BY <1>1, <1>2, <2>2
      <3> HIDE DEF m, f
      <3> QED
        BY <1>1, <1>2, <3>1 DEF Buffers, m
    <2> HIDE DEF f
    <2>4. Len(disk \o p) = Len(disk) + n
      <3>1. Len(disk \o p) = Len(disk) + Len(p)
        <4>1. p \in Seq(Half)
          BY <1>2
        <4> QED
          BY <4>1
      <3> QED
        BY <1>2, <3>1
    <2>5. Outcome(r, p, q)
      BY <1>2, <2>1, <2>3, <2>4 DEF Outcome, ExitsOn, b
    <2> QED
      BY <2>5 DEF r, a
  <1>4. CASE ~(n > 0 /\ ~t)
    <2>1. r.aof = e
      BY <1>4 DEF NotFlushed
    <2>2. r.disk = disk
      <3>1. CASE n > 0
        <4>1. aof.aof_current_size = Len(disk)
          <5>1. b # <<>>
            BY <1>1, <3>1
          <5> QED
            BY <5>1
        <4>2. r.disk = SubSeq(disk \o p, 1, Len(disk))
          BY <1>1, <1>4, <3>1, <4>1 DEF NotFlushed
        <4> HIDE DEF p
        <4> QED
          BY <1>2, <4>2, Truncated
      <3>2. CASE ~(n > 0)
        BY <3>2 DEF NotFlushed
      <3> QED
        BY <3>1, <3>2
    <2> HIDE DEF e, r, a
    <2>3. disk \o <<>> = disk /\ <<>> \o b = b /\ <<>> \in Seq(Half)
      BY <1>1, EmptyJoined
    <2>4. Outcome(r, <<>>, b)
      BY <1>1, <2>1, <2>2, <2>3 DEF Outcome, ExitsOn
    <2> QED
      BY <2>4 DEF r, a
  <1> QED
    BY <1>3, <1>4

\* In all its cases flushAppendOnlyFile writes a first part of the buffer and keeps the rest.
LEMMA FlushOutcome ==
    ASSUME aof \in Buffers, disk \in Seq(Half),
           aof.aof_current_size = Len(disk) \/ aof.aof_buf = <<>>,
           NEW force, NEW r \in flushAppendOnlyFile(force)
    PROVE  \E p, q : Outcome(r, p, q)
  <1> DEFINE a == [aof EXCEPT !.postponed = "no"]
             b == aof.aof_buf
  <1>1. b \in Seq(Half) /\ disk \o <<>> = disk /\ <<>> \o b = b /\ <<>> \in Seq(Half)
        /\ b \o <<>> = b
    <2>1. b \in Seq(Half)
      BY DEF Buffers
    <2> HIDE DEF b
    <2> QED
      BY <2>1, EmptyJoined
  <1>2. CASE r = [aof |-> aof, disk |-> disk] /\ b = <<>>
    <2>1. Outcome(r, <<>>, b)
      BY <1>1, <1>2 DEF Outcome
    <2> QED
      BY <2>1
  <1>3. CASE r = [aof |-> [aof EXCEPT !.postponed = "yes"], disk |-> disk] /\ aof_fsync = "everysec"
    <2>1. Outcome(r, <<>>, b)
      BY <1>1, <1>3 DEF Outcome, Buffers
    <2> QED
      BY <2>1
  <1>4. CASE r = NotFlushed(a, disk, 0, FALSE)
    <2>1. 0 \in 0 .. Len(b) /\ FALSE \in BOOLEAN
      BY <1>1
    <2> QED
      BY <1>4, <2>1, NotFlushedOutcome
  <1>5. CASE r \in Flushed(a, disk)
    <2>1. PICK s \in IF aof_fsync = "everysec" THEN {a.sync_in_progress, TRUE} ELSE {FALSE} :
             r = [disk |-> disk \o a.aof_buf,
                  aof  |-> [a EXCEPT !.aof_buf = <<>>, !.aof_last_write_status = "ok",
                            !.aof_current_size = @ + Len(a.aof_buf), !.sync_in_progress = s]]
      BY <1>5 DEF Flushed
    <2>2. s \in BOOLEAN /\ a.aof_buf = b /\ Len(b) \in Nat
          /\ a.aof_current_size = aof.aof_current_size /\ aof.aof_current_size \in Nat
      <3>1. /\ a.aof_buf = b /\ a.aof_current_size = aof.aof_current_size
            /\ aof.aof_current_size \in Nat /\ a.sync_in_progress \in BOOLEAN
        BY DEF Buffers
      <3>2. s \in BOOLEAN
        BY <2>1, <3>1
      <3> QED
        BY <1>1, <3>1, <3>2
    <2>3. Len(disk \o b) = Len(disk) + Len(b)
      BY <1>1
    <2> DEFINE m == aof.aof_current_size + Len(b)
               f == [a EXCEPT !.aof_buf = <<>>, !.aof_last_write_status = "ok",
                              !.aof_current_size = m, !.sync_in_progress = s]
    <2>4. m \in Nat
      BY <2>2
    <2>5. r.disk = disk \o b /\ r.aof = f
      BY <2>1, <2>2
    <2>6. aof.aof_current_size = Len(disk) => m = Len(disk \o b)
      BY <2>2, <2>3
    <2> HIDE DEF m, b
    <2>7. /\ f \in Buffers /\ f.aof_buf = <<>> /\ f.aof_current_size = m
          /\ f.aof_state = aof.aof_state /\ f.aof_selected_db = aof.aof_selected_db
          /\ f.rewrite_buf = aof.rewrite_buf /\ f.aof_fd = aof.aof_fd
      BY <1>1, <2>2, <2>4 DEF Buffers
    <2> HIDE DEF f
    <2>8. Outcome(r, b, <<>>)
      BY <1>1, <2>5, <2>6, <2>7 DEF Outcome, b
    <2> QED
      BY <2>8
  <1>6. CASE \E n \in 0 .. Len(a.aof_buf) - 1, t \in BOOLEAN : r = NotFlushed(a, disk, n, t)
    <2>1. PICK n \in 0 .. Len(a.aof_buf) - 1, t \in BOOLEAN : r = NotFlushed(a, disk, n, t)
      BY <1>6
    <2>2. n \in 0 .. Len(b)
      BY <1>1, <2>1
    <2> QED
      BY <2>1, <2>2, NotFlushedOutcome
  <1>7. \/ r = [aof |-> aof, disk |-> disk] /\ b = <<>>
        \/ r = [aof |-> [aof EXCEPT !.postponed = "yes"], disk |-> disk] /\ aof_fsync = "everysec"
        \/ r = NotFlushed(a, disk, 0, FALSE)
        \/ r \in Flushed(a, disk)
        \/ \E n \in 0 .. Len(a.aof_buf) - 1, t \in BOOLEAN : r = NotFlushed(a, disk, n, t)
    <2> DEFINE postponed == aof_fsync = "everysec" /\ ~force /\ aof.sync_in_progress
                              /\ aof.postponed # "long"
    <2> DEFINE late == [aof EXCEPT !.postponed = "yes"]
               fails == {NotFlushed(a, disk, n, t) : n \in 0 .. Len(a.aof_buf) - 1, t \in BOOLEAN}
               closed == NotFlushed(a, disk, 0, FALSE)
               done == Flushed(a, disk)
    <2>1. flushAppendOnlyFile(force)
            = IF b = <<>> THEN {[aof |-> aof, disk |-> disk]}
              ELSE IF postponed THEN {[aof |-> late, disk |-> disk]}
              ELSE IF aof.aof_fd # "open" THEN {closed}
              ELSE done \cup IF DiskFails THEN fails ELSE {}
      BY SMT DEF flushAppendOnlyFile
    <2> HIDE DEF late, closed, done, fails, b
    <2>2. \/ r = [aof |-> aof, disk |-> disk] /\ b = <<>>
          \/ r = [aof |-> late, disk |-> disk] /\ postponed
          \/ r = closed \/ r \in done \/ r \in fails
      BY <2>1
    <2>3. r \in fails => \E n \in 0 .. Len(a.aof_buf) - 1, t \in BOOLEAN : r = NotFlushed(a, disk, n, t)
      BY DEF fails
    <2> HIDE DEF a
    <2> QED
      BY <2>2, <2>3 DEF late, closed, done
  <1> HIDE DEF a, b
  <1> QED
    BY <1>2, <1>3, <1>4, <1>5, <1>6, <1>7

----------------------------------------------------------------------------
(* The event loop and its flushes keep it *)

\* What a file is loaded to is a dataset.
LEMMA LoadedType ==
    ASSUME NEW f, Written(f)
    PROVE  Loaded(f) \in Seq(Cmds) /\ Len(Loaded(f)) \in Nat
  <1>1. Loaded(f) \in Seq(Cmds)
    BY SoundAfter DEF Written, Loaded, Replay
  <1> HIDE DEF Loaded
  <1> QED
    BY <1>1

\* The empty file is whole.
LEMMA EmptyFile == Written(<<>>) /\ Whole(<<>>) /\ Loaded(<<>>) = <<>>
  <1> DEFINE s == <<>>
  <1>1. s \in Seq(Cmds)
    OBVIOUS
  <1>2. LET f == IF s = <<>> THEN <<>> ELSE Halves(<<Dump(s)>>)
        IN  Whole(f) /\ Loaded(f) = s
    BY <1>1, Dumped
  <1> QED
    BY <1>2 DEF Whole

\* The invariant holds at first.
LEMMA Initially == Init => IInv
  <1> SUFFICES ASSUME Init PROVE IInv
    OBVIOUS
  <1>1. /\ data = <<>> /\ aof = NoBuffers /\ disk = <<>> /\ child = None /\ at = "top"
        /\ replies = "none" /\ acked = 0 /\ aof_fsync \in Policies
    BY DEF Init
  <1>2. /\ aof \in Buffers /\ aof.aof_buf = <<>> /\ aof.rewrite_buf = <<>>
        /\ aof.aof_state = "on" /\ aof.aof_fd = "open" /\ aof.aof_current_size = 0
        /\ aof.aof_selected_db = None
    BY <1>1 DEF NoBuffers, Buffers
  <1>3. Types
    <2>1. <<>> \in Seq(Cmds) /\ <<>> \in Seq(Half) /\ Len(<<>>) = 0 /\ MaxCmds \in Nat
      BY AofAssumption
    <2> QED
      BY <1>1, <1>2, <2>1 DEF Types
  <1>4. Written(disk) /\ Whole(disk) /\ Loaded(disk) = data /\ Len(data) = 0
    BY <1>1, EmptyFile
  <1>5. Begins(data, data) /\ MaxCmds \in Nat
    BY <1>3, BeginsSelf, AofAssumption DEF Types
  <1>6. disk \o aof.aof_buf = disk
    BY <1>1, <1>2
  <1>7. FileOK(aof, data, disk)
    BY <1>1, <1>2, <1>4, <1>5, <1>6 DEF FileOK, Holds
  <1>8. ChildOK(child, aof, data, disk)
    BY <1>1, <1>2 DEF ChildOK
  <1> QED
    BY <1>1, <1>2, <1>3, <1>4, <1>5, <1>7, <1>8 DEF IInv, Looping

\* What a flush leaves.
LEMMA Flushes ==
    ASSUME IInv, Looping, NEW force, NEW r \in flushAppendOnlyFile(force)
    PROVE  /\ r.aof \in Buffers /\ r.disk \in Seq(Half)
           /\ Written(r.disk) /\ Len(Loaded(r.disk)) <= MaxCmds
           /\ Begins(Loaded(disk), Loaded(r.disk)) /\ Begins(Loaded(r.disk), data)
           /\ FileOK(r.aof, data, r.disk) /\ ChildOK(child, r.aof, data, r.disk)
           /\ r.aof.aof_state = aof.aof_state /\ r.aof.rewrite_buf = aof.rewrite_buf
           /\ r.aof.aof_fd = aof.aof_fd /\ r.aof.aof_selected_db = aof.aof_selected_db
           /\ aof.aof_buf = <<>> => r.disk = disk /\ r.aof.aof_buf = <<>>
           /\ aof_fsync = "always" /\ aof.aof_fd = "open" => r.aof.aof_buf = <<>> \/ ExitsOn(r)
  <1>1. /\ aof \in Buffers /\ disk \in Seq(Half) /\ data \in Seq(Cmds)
        /\ Len(data) \in Nat /\ MaxCmds \in Nat /\ Len(data) <= MaxCmds
    BY AofAssumption DEF IInv, Types
  <1>2. FileOK(aof, data, disk) /\ ChildOK(child, aof, data, disk) /\ Written(disk)
    BY DEF IInv
  <1>3. aof.aof_current_size = Len(disk) \/ aof.aof_buf = <<>>
    BY <1>2 DEF IInv, FileOK
  <1>4. PICK p, q : Outcome(r, p, q)
    BY <1>1, <1>3, FlushOutcome
  <1> DEFINE b == aof.aof_buf
             d == disk \o p
  <1>5. /\ p \in Seq(Half) /\ q \in Seq(Half) /\ b \in Seq(Half) /\ p \o q = b
        /\ r.disk = d /\ r.aof.aof_buf = q /\ r.aof \in Buffers
        /\ r.aof.aof_state = aof.aof_state /\ r.aof.rewrite_buf = aof.rewrite_buf
        /\ r.aof.aof_fd = aof.aof_fd /\ r.aof.aof_selected_db = aof.aof_selected_db
        /\ aof.aof_current_size = Len(disk) => r.aof.aof_current_size = Len(r.disk)
        /\ aof_fsync = "always" /\ aof.aof_fd = "open" => q = <<>> \/ ExitsOn(r)
    BY <1>1, <1>4 DEF Outcome, Buffers
  <1> HIDE DEF b
  <1>6. d \in Seq(Half) /\ d \o q = disk \o b
    <2>1. d \in Seq(Half)
      BY <1>1, <1>5
    <2>2. (disk \o p) \o q = disk \o (p \o q)
      <3>1. \A x, y, z \in Seq(Half) : (x \o y) \o z = x \o (y \o z)
        BY ConcatAssociative
      <3> QED
        BY <1>1, <1>5, <3>1
    <2> QED
      BY <1>5, <2>1, <2>2
  <1>7. Whole(disk \o b) /\ Begins(Loaded(disk \o b), data) /\ Written(disk \o b)
    BY <1>2 DEF FileOK, Whole, b
  <1>8. Written(d) /\ Begins(Loaded(d), Loaded(disk \o b))
    BY <1>5, <1>6, <1>7, WrittenFirst
  <1>9. Begins(Loaded(disk), Loaded(d))
    BY <1>1, <1>5, <1>8, WrittenFirst
  <1>10. /\ Loaded(disk) \in Seq(Cmds) /\ Loaded(d) \in Seq(Cmds) /\ Len(Loaded(d)) \in Nat
         /\ Loaded(disk \o b) \in Seq(Cmds)
    BY <1>2, <1>7, <1>8, LoadedType
  <1> HIDE DEF d
  <1>11. Begins(Loaded(d), data)
    BY <1>1, <1>7, <1>8, <1>10, BeginsOn
  <1>12. Len(Loaded(d)) <= MaxCmds
    BY <1>1, <1>10, <1>11 DEF Begins
  <1>13. FileOK(r.aof, data, d)
    BY <1>2, <1>5, <1>6 DEF FileOK, b
  <1>14. b = <<>> => d = disk /\ q = <<>>
    <2> SUFFICES ASSUME b = <<>> PROVE d = disk /\ q = <<>>
      OBVIOUS
    <2>1. p = <<>> /\ q = <<>>
      BY <1>5
    <2> QED
      BY <1>1, <2>1 DEF d
  <1>15. ChildOK(child, r.aof, data, d)
    <2> DEFINE new == child.temp \o aof.rewrite_buf
    <2>1. CASE child = None
      BY <1>2, <1>5, <2>1 DEF ChildOK
    <2>2. CASE child # None
      <3>1. /\ child.temp \in Seq(Half) /\ Whole(new) /\ Begins(Loaded(new), data)
            /\ Begins(Loaded(disk), Loaded(new))
            /\ aof.aof_state # "off" => Holds(new, data, aof.aof_selected_db)
        BY <1>2, <2>2 DEF ChildOK
      <3> HIDE DEF new
      <3>2. Begins(Loaded(d), Loaded(new))
        <4>1. CASE aof.aof_state = "on"
          BY <1>11, <3>1, <4>1 DEF Holds
        <4>2. CASE aof.aof_state # "on"
          <5>1. b = <<>>
            BY <4>2 DEF IInv, b
          <5> QED
            BY <1>14, <3>1, <5>1
        <4> QED
          BY <4>1, <4>2
      <3> QED
        BY <1>5, <2>2, <3>1, <3>2 DEF ChildOK, new
    <2> QED
      BY <2>1, <2>2
  <1> QED
    BY <1>5, <1>6, <1>8, <1>9, <1>11, <1>12, <1>13, <1>14, <1>15 DEF b

\* The server dies, and leaves a file.
LEMMA GoneKeeps ==
    ASSUME IInv, Gone, disk' \in Seq(Half), Written(disk'), Len(Loaded(disk')) <= MaxCmds,
           acked' = acked, aof_fsync' = aof_fsync
    PROVE  IInv'
  <1>1. /\ at' = "down" /\ data' = <<>> /\ aof' = NoBuffers /\ child' = None
        /\ replies' = "none"
    BY DEF Gone
  <1>2. /\ aof' \in Buffers /\ aof'.aof_buf = <<>> /\ aof'.rewrite_buf = <<>>
        /\ aof'.aof_state = "on" /\ aof'.aof_fd = "open"
    BY <1>1 DEF NoBuffers, Buffers
  <1>3. Types'
    <2>1. <<>> \in Seq(Cmds) /\ Len(<<>>) = 0 /\ MaxCmds \in Nat
      BY AofAssumption
    <2> QED
      BY <1>1, <1>2, <2>1 DEF Types, IInv
  <1>4. ChildOK(child', aof', data', disk')
    BY <1>1, <1>2 DEF ChildOK
  <1> QED
    BY <1>1, <1>2, <1>3, <1>4 DEF IInv, Looping

\* The server goes on with the buffers a and the file d.
LEMMA GoesOn ==
    ASSUME IInv, at # "down", NEW a \in Buffers, NEW d \in Seq(Half), aof' = a, disk' = d,
           Written(d), Len(Loaded(d)) <= MaxCmds, Begins(Loaded(d), data),
           FileOK(a, data, d), ChildOK(child', a, data, d),
           a.aof_state # "on" => a.aof_buf = <<>>,
           a.aof_state # "off" => a.aof_fd = "open",
           data' = data, at' \in {"top", "poll", "events"}, acked' = acked,
           replies' \in {"none", "pending", "writable"}, aof_fsync' = aof_fsync
    PROVE  IInv'
  BY DEF IInv, Types, Looping

\* A flush, whoever calls it.
LEMMA FlushKeeps ==
    ASSUME IInv, Looping, NEW force, NEW next \in {"poll", "events"}, Flush(force, next),
           acked' = acked, aof_fsync' = aof_fsync
    PROVE  IInv'
  <1>1. PICK r \in flushAppendOnlyFile(force) :
           /\ disk' = r.disk
           /\ IF ExitsOn(r) THEN Gone
              ELSE aof' = r.aof /\ at' = next /\ UNCHANGED <<data, child, replies>>
    BY DEF Flush
  <1>2. /\ r.aof \in Buffers /\ r.disk \in Seq(Half)
        /\ Written(r.disk) /\ Len(Loaded(r.disk)) <= MaxCmds
        /\ Begins(Loaded(r.disk), data)
        /\ FileOK(r.aof, data, r.disk) /\ ChildOK(child, r.aof, data, r.disk)
        /\ r.aof.aof_state = aof.aof_state
        /\ r.aof.aof_fd = aof.aof_fd
        /\ aof.aof_buf = <<>> => r.aof.aof_buf = <<>>
    BY Flushes
  <1>3. CASE ExitsOn(r)
    BY <1>1, <1>2, <1>3, GoneKeeps
  <1>4. CASE ~ExitsOn(r)
    <2>1. /\ aof' = r.aof /\ at' \in {"top", "poll", "events"} /\ data' = data
          /\ child' = child /\ replies' = replies
      BY <1>1, <1>4
    <2>2. /\ at # "down" /\ replies \in {"none", "pending", "writable"}
          /\ aof.aof_state # "on" => aof.aof_buf = <<>>
          /\ aof.aof_state # "off" => aof.aof_fd = "open"
      BY DEF IInv, Types, Looping
    <2> QED
      BY <1>1, <1>2, <2>1, <2>2, GoesOn
  <1> QED
    BY <1>3, <1>4

\* The flushes of beforeSleep and serverCron.
LEMMA FlushingKeeps ==
    ASSUME IInv, beforeSleep \/ CronFlush
    PROVE  IInv'
  <1>1. ASSUME beforeSleep PROVE IInv'
    <2>1. /\ Looping /\ Flush(FALSE, "poll") /\ acked' = acked /\ aof_fsync' = aof_fsync
      BY <1>1 DEF beforeSleep, Looping
    <2> QED
      BY <2>1, FlushKeeps
  <1>2. ASSUME CronFlush PROVE IInv'
    <2>1. /\ Looping /\ Flush(FALSE, "events") /\ acked' = acked /\ aof_fsync' = aof_fsync
      BY <1>2 DEF CronFlush, Looping
    <2> QED
      BY <2>1, FlushKeeps
  <1> QED
    BY <1>1, <1>2

\* Steps after which the files and the dataset are the same.
LEMMA QuietKeeps ==
    ASSUME IInv, Poll \/ EventsDone \/ Tick \/ bioFsync \/ sendReplyToClient
    PROVE  IInv'
  <1>1. ASSUME Poll \/ EventsDone PROVE IInv'
    <2>1. /\ Looping /\ at' \in {"top", "poll", "events"} /\ data' = data /\ aof' = aof
          /\ disk' = disk /\ child' = child /\ acked' = acked /\ aof_fsync' = aof_fsync
          /\ replies' \in {"none", "pending", "writable"}
      BY <1>1 DEF Poll, EventsDone, Looping
    <2> QED
      BY <2>1 DEF IInv, Types, Looping
  <1>2. ASSUME sendReplyToClient PROVE IInv'
    <2>1. /\ at = "events" /\ at' = at /\ data' = data /\ aof' = aof
          /\ disk' = disk /\ child' = child /\ acked' = Len(data) /\ aof_fsync' = aof_fsync
          /\ replies' = "none"
      BY <1>2 DEF sendReplyToClient
    <2>2. Len(data) \in 0 .. MaxCmds
      BY AofAssumption DEF IInv, Types
    <2> QED
      BY <2>1, <2>2 DEF IInv, Types, Looping
  <1>3. ASSUME Tick \/ bioFsync PROVE IInv'
    <2>1. \E x \in BOOLEAN, p \in {"no", "yes", "long"} :
             aof' = [aof EXCEPT !.sync_in_progress = x, !.postponed = p]
      <3>1. aof \in Buffers
        BY DEF IInv, Types
      <3>2. aof.sync_in_progress \in BOOLEAN /\ aof.postponed \in {"no", "yes", "long"}
        BY <3>1 DEF Buffers
      <3>3. CASE Tick
        <4>1. aof' = [aof EXCEPT !.sync_in_progress = aof.sync_in_progress, !.postponed = "long"]
          BY <3>1, <3>3 DEF Tick, Buffers
        <4> QED
          BY <3>2, <4>1
      <3>4. CASE bioFsync
        <4>1. aof' = [aof EXCEPT !.sync_in_progress = FALSE, !.postponed = aof.postponed]
          BY <3>1, <3>4 DEF bioFsync, Buffers
        <4> QED
          BY <3>2, <4>1
      <3> QED
        BY <1>3, <3>3, <3>4
    <2>2. /\ aof' \in Buffers /\ aof'.aof_buf = aof.aof_buf /\ aof'.rewrite_buf = aof.rewrite_buf
          /\ aof'.aof_state = aof.aof_state /\ aof'.aof_fd = aof.aof_fd
          /\ aof'.aof_selected_db = aof.aof_selected_db
          /\ aof'.aof_current_size = aof.aof_current_size
      <3>1. aof \in Buffers
        BY DEF IInv, Types
      <3> QED
        BY <2>1, <3>1 DEF Buffers
    <2>3. /\ data' = data /\ disk' = disk /\ child' = child /\ acked' = acked /\ at' = at
          /\ aof_fsync' = aof_fsync /\ replies' = replies
      BY <1>3 DEF Tick, bioFsync
    <2>4. at # "down"
      <3>1. aof = NoBuffers => ~aof.sync_in_progress /\ aof.postponed = "no"
        BY DEF NoBuffers
      <3> QED
        BY <1>3, <3>1 DEF Tick, bioFsync, IInv
    <2>5. FileOK(aof, data, disk) => FileOK(aof', data', disk')
      BY <2>2, <2>3 DEF FileOK
    <2>6. ChildOK(child', aof', data', disk')
      BY <2>2, <2>3 DEF IInv, ChildOK
    <2> QED
      BY <2>2, <2>3, <2>4, <2>5, <2>6 DEF IInv, Types, Looping
  <1> QED
    BY <1>1, <1>2, <1>3

----------------------------------------------------------------------------
(* A command keeps it *)

\* A dataset with a command or two more.
LEMMA GrownType ==
    ASSUME NEW s \in Seq(Cmds), NEW db \in Dbs, NEW n \in 1 .. 2
    PROVE  /\ Grown(s, db, n) \in Seq(Cmds) /\ Len(Grown(s, db, n)) = Len(s) + n
           /\ Begins(s, Grown(s, db, n))
  <1> DEFINE l == Len(s)
             more == [i \in 1 .. n |-> <<db, l + i>>]
  <1>1. l \in Nat /\ n \in Nat
    OBVIOUS
  <1>2. \A i \in 1 .. n : <<db, l + i>> \in Cmds
    BY <1>1 DEF Cmds
  <1>3. more \in Seq(Cmds) /\ Len(more) = n
    <2> HIDE DEF l
    <2> QED
      BY <1>1, <1>2
  <1> HIDE DEF more
  <1>4. /\ s \o more \in Seq(Cmds) /\ Len(s \o more) = Len(s) + Len(more)
        /\ \A i \in 1 .. Len(s) : (s \o more)[i] = s[i]
    BY <1>3, Joined
  <1>5. Begins(s, s \o more)
    BY <1>1, <1>3, <1>4 DEF Begins
  <1> QED
    BY <1>3, <1>4, <1>5 DEF Grown, more

\* What feedAppendOnlyFile is given are records.
LEMMA ExecutedType ==
    ASSUME NEW s \in Seq(Cmds), NEW db \in Dbs, NEW sel, NEW n \in 1 .. 2
    PROVE  Chosen(db, sel) \o Executed(s, n) \in Seq(Recs)
  <1> DEFINE l == Len(s)
             cmds == [i \in 1 .. n |-> Cmd(l + i)]
             e == <<Multi>> \o cmds \o <<Exec>>
  <1>1. l \in Nat /\ n \in Nat
    OBVIOUS
  <1>2. \A k \in Nat : Cmd(k) \in Recs
    BY Kinds DEF RecordKinds
  <1>3. Multi \in Recs /\ Exec \in Recs /\ Select(db) \in Recs
    BY Kinds DEF RecordKinds
  <1>4. cmds \in Seq(Recs)
    <2> HIDE DEF l
    <2>1. \A i \in 1 .. n : Cmd(l + i) \in Recs
      BY <1>1, <1>2
    <2> QED
      BY <1>1, <2>1
  <1> HIDE DEF cmds
  <1>5. e \in Seq(Recs)
    BY <1>3, <1>4
  <1> HIDE DEF e
  <1>6. Executed(s, n) \in Seq(Recs)
    BY <1>4, <1>5 DEF Executed, e, cmds
  <1>7. Chosen(db, sel) \in Seq(Recs)
    BY <1>3 DEF Chosen
  <1> QED
    BY <1>6, <1>7

\* A file, with more behind it, of a server that adds the records h.
LEMMA Fed ==
    ASSUME NEW d \in Seq(Half), NEW b \in Seq(Half), Whole(d \o b), data \in Seq(Cmds),
           NEW sel \in Dbs \cup {None}, Holds(d \o b, data, sel),
           NEW db \in Dbs, NEW n \in 1 .. 2
    PROVE  LET h == Halves(Chosen(db, sel) \o Executed(data, n))
           IN  /\ b \o h \in Seq(Half) /\ Whole(d \o (b \o h))
               /\ Holds(d \o (b \o h), Grown(data, db, n), db)
               /\ (d \o b) \o h = d \o (b \o h) /\ h \in Seq(Half)
  <1> DEFINE h == Halves(Chosen(db, sel) \o Executed(data, n))
             f == d \o b
  <1>1. Whole(f) /\ Loaded(f) = data /\ (sel # None => Replay(f).db = sel)
    BY DEF Holds
  <1> HIDE DEF f
  <1>2. /\ h \in Seq(Half) /\ Whole(f \o h) /\ Loaded(f \o h) = Grown(data, db, n)
        /\ Replay(f \o h).db = db
    BY <1>1, FedFile
  <1> HIDE DEF h
  <1>3. b \o h \in Seq(Half)
    BY <1>2
  <1>4. (d \o b) \o h = d \o (b \o h)
    <2>1. \A x, y, z \in Seq(Half) : (x \o y) \o z = x \o (y \o z)
      BY ConcatAssociative
    <2> QED
      BY <1>2, <2>1
  <1>5. f \o h = d \o (b \o h)
    BY <1>4 DEF f
  <1>6. h \in Seq(Half) /\ Whole(d \o (b \o h)) /\ Holds(d \o (b \o h), Grown(data, db, n), db)
    BY <1>2, <1>5 DEF Holds
  <1> QED
    BY <1>3, <1>4, <1>6 DEF h

\* feedAppendOnlyFile, with the records of the file and of the child's.
LEMMA Feeds ==
    ASSUME aof \in Buffers, NEW db \in Dbs, NEW n \in 1 .. 2,
           NEW h, h = Halves(Chosen(db, aof.aof_selected_db) \o Executed(data, n)),
           h \in Seq(Half), NEW a, a = feedAppendOnlyFile(aof, db, Executed(data, n))
    PROVE  IF aof.aof_state = "off" THEN a = aof
           ELSE /\ a \in Buffers /\ a.aof_selected_db = db
                /\ a.aof_buf = IF aof.aof_state = "on" THEN aof.aof_buf \o h ELSE aof.aof_buf
                /\ a.rewrite_buf = IF child # None THEN aof.rewrite_buf \o h ELSE aof.rewrite_buf
                /\ a.aof_state = aof.aof_state /\ a.aof_fd = aof.aof_fd
                /\ a.aof_current_size = aof.aof_current_size
  <1> DEFINE x == IF aof.aof_state = "on" THEN aof.aof_buf \o h ELSE aof.aof_buf
             y == IF child # None THEN aof.rewrite_buf \o h ELSE aof.rewrite_buf
  <1>1. CASE aof.aof_state = "off"
    BY <1>1 DEF feedAppendOnlyFile
  <1>2. CASE aof.aof_state # "off"
    <2>1. a = [aof EXCEPT !.aof_selected_db = db, !.aof_buf = x, !.rewrite_buf = y]
      BY <1>2 DEF feedAppendOnlyFile, Chosen, Buffers
    <2>2. x \in Seq(Half) /\ y \in Seq(Half)
      <3>1. aof.aof_buf \in Seq(Half) /\ aof.rewrite_buf \in Seq(Half)
        BY DEF Buffers
      <3> QED
        BY <3>1
    <2> HIDE DEF x, y
    <2>3. /\ a \in Buffers /\ a.aof_selected_db = db /\ a.aof_buf = x /\ a.rewrite_buf = y
          /\ a.aof_state = aof.aof_state /\ a.aof_fd = aof.aof_fd
          /\ a.aof_current_size = aof.aof_current_size
      BY <2>1, <2>2 DEF Buffers
    <2> QED
      BY <1>2, <2>3 DEF x, y
  <1> QED
    BY <1>1, <1>2

\* A command or a transaction.
LEMMA ExecuteKeeps ==
    ASSUME IInv, NEW db \in Dbs, NEW n \in 1 .. 2, Execute(db, n)
    PROVE  IInv' /\ data' = Grown(data, db, n) /\ disk' = disk
  <1> DEFINE more == Grown(data, db, n)
             a == feedAppendOnlyFile(aof, db, Executed(data, n))
             h == Halves(Chosen(db, aof.aof_selected_db) \o Executed(data, n))
             sel == aof.aof_selected_db
             b == aof.aof_buf
             new == child.temp \o aof.rewrite_buf
  <1>1. /\ at = "events" /\ at' = at /\ disk' = disk /\ child' = child /\ acked' = acked
        /\ aof_fsync' = aof_fsync /\ replies' \in {"none", "pending", "writable"}
        /\ Len(data) + n <= MaxCmds /\ data' = more /\ aof' = a
    BY DEF Execute, IInv, Types, Grown, Executed
  <1>2. /\ aof \in Buffers /\ disk \in Seq(Half) /\ data \in Seq(Cmds) /\ Len(data) \in Nat
        /\ sel \in Dbs \cup {None} /\ b \in Seq(Half) /\ aof.rewrite_buf \in Seq(Half)
    BY DEF IInv, Types, Buffers
  <1>3. FileOK(aof, data, disk) /\ ChildOK(child, aof, data, disk) /\ Written(disk)
        /\ Begins(Loaded(disk), data)
    BY <1>1 DEF IInv, Looping
  <1>4. more \in Seq(Cmds) /\ Len(more) = Len(data) + n /\ Begins(data, more)
    BY <1>2, GrownType
  <1>5. ASSUME NEW s \in Seq(Cmds), Begins(s, data) PROVE Begins(s, more)
    BY <1>2, <1>4, <1>5, BeginsOn
  <1>6. Loaded(disk) \in Seq(Cmds) /\ Begins(Loaded(disk), more)
    BY <1>3, <1>5, LoadedType
  <1>7. h \in Seq(Half)
    <2>1. Chosen(db, sel) \o Executed(data, n) \in Seq(Recs)
      BY <1>2, ExecutedType
    <2> QED
      BY <2>1, HalvesOf
  <1> HIDE DEF more, h
  <1>8. IF aof.aof_state = "off" THEN a = aof
        ELSE /\ a \in Buffers /\ a.aof_selected_db = db
             /\ a.aof_buf = IF aof.aof_state = "on" THEN b \o h ELSE b
             /\ a.rewrite_buf = IF child # None THEN aof.rewrite_buf \o h ELSE aof.rewrite_buf
             /\ a.aof_state = aof.aof_state /\ a.aof_fd = aof.aof_fd
             /\ a.aof_current_size = aof.aof_current_size
    BY <1>2, <1>7, Feeds DEF h
  <1> HIDE DEF a
  <1>9. aof.aof_state # "on" => b = <<>>
    BY DEF IInv
  <1>10. FileOK(a, more, disk)
    <2>1. Whole(disk \o b) /\ Begins(Loaded(disk \o b), data)
      BY <1>3 DEF FileOK
    <2>2. Loaded(disk \o b) \in Seq(Cmds)
      BY <2>1, LoadedType DEF Whole
    <2>3. Begins(Loaded(disk \o b), more)
      BY <1>5, <2>1, <2>2
    <2>4. CASE aof.aof_state # "on"
      BY <1>8, <2>1, <2>3, <2>4 DEF FileOK
    <2>5. CASE aof.aof_state = "on"
      <3>1. Holds(disk \o b, data, sel) /\ aof.aof_current_size = Len(disk)
        BY <1>3, <2>5 DEF FileOK
      <3>2. Whole(disk \o (b \o h)) /\ Holds(disk \o (b \o h), more, db)
        BY <1>2, <2>1, <3>1, Fed DEF h, more
      <3>3. Begins(more, more)
        BY <1>4, BeginsSelf
      <3> QED
        BY <1>8, <2>5, <3>1, <3>2, <3>3 DEF FileOK, Holds
    <2> QED
      BY <2>4, <2>5
  <1>11. ChildOK(child, a, more, disk)
    <2>1. CASE child = None
      BY <1>3, <1>8, <2>1 DEF ChildOK
    <2>2. CASE child # None
      <3>1. /\ child.temp \in Seq(Half) /\ Whole(new) /\ Begins(Loaded(new), data)
            /\ Begins(Loaded(disk), Loaded(new))
            /\ aof.aof_state # "off" => Holds(new, data, sel)
        BY <1>3, <2>2 DEF ChildOK
      <3>2. Loaded(new) \in Seq(Cmds)
        BY <3>1, LoadedType DEF Whole
      <3>3. Begins(Loaded(new), more)
        BY <1>5, <3>1, <3>2
      <3>4. CASE aof.aof_state = "off"
        BY <1>8, <2>2, <3>1, <3>3, <3>4 DEF ChildOK
      <3>5. CASE aof.aof_state # "off"
        <4> DEFINE rb == aof.rewrite_buf
                   t == child.temp
        <4>1. Whole(t \o rb) /\ Holds(t \o rb, data, sel) /\ t \in Seq(Half) /\ rb \in Seq(Half)
          BY <1>2, <3>1, <3>5
        <4> HIDE DEF t, rb
        <4>2. Whole(t \o (rb \o h)) /\ Holds(t \o (rb \o h), more, db)
          BY <1>2, <4>1, Fed DEF h, more
        <4>3. Begins(more, more)
          BY <1>4, BeginsSelf
        <4> QED
          BY <1>6, <1>8, <2>2, <3>5, <4>1, <4>2, <4>3 DEF ChildOK, Holds, t, rb
      <3> QED
        BY <3>4, <3>5
    <2> QED
      BY <2>1, <2>2
  <1>12. /\ a \in Buffers /\ a.aof_state = aof.aof_state /\ a.aof_fd = aof.aof_fd
         /\ a.aof_state # "on" => a.aof_buf = <<>>
    BY <1>2, <1>8, <1>9
  <1>13. acked <= Len(more) /\ Len(more) <= MaxCmds
    <2>1. acked \in Nat /\ acked <= Len(data) /\ MaxCmds \in Nat
      BY <1>1, AofAssumption DEF IInv, Types
    <2> QED
      BY <1>1, <1>2, <1>4, <2>1
  <1>14. Types'
    BY <1>1, <1>4, <1>12, <1>13 DEF IInv, Types
  <1> QED
    BY <1>1, <1>3, <1>4, <1>6, <1>10, <1>11, <1>12, <1>13, <1>14 DEF IInv, Looping, more

----------------------------------------------------------------------------
(* So do the rewrite, the switch, kills and restarts *)

\* A child is forked; a is what the caller made of the buffers.
LEMMA ForkKeeps ==
    ASSUME IInv, at = "events", NEW a \in Buffers, Fork(a),
           a = aof \/ (aof.aof_state = "off" /\ a.aof_state = "wait" /\ a.aof_fd = "open"),
           a.aof_buf = aof.aof_buf, a.rewrite_buf = aof.rewrite_buf,
           a.aof_current_size = aof.aof_current_size,
           UNCHANGED <<data, disk, at, replies, acked, aof_fsync>>
    PROVE  IInv'
  <1> DEFINE f == IF data = <<>> THEN <<>> ELSE Halves(<<Dump(data)>>)
  <1>1. /\ child = None /\ child' = [temp |-> f]
        /\ aof' = [a EXCEPT !.scheduled = FALSE, !.aof_selected_db = None]
    BY DEF Fork
  <1>2. /\ aof' \in Buffers /\ aof'.aof_selected_db = None /\ aof'.aof_state = a.aof_state
        /\ aof'.aof_fd = a.aof_fd /\ aof'.aof_buf = aof.aof_buf
        /\ aof'.rewrite_buf = aof.rewrite_buf /\ aof'.aof_current_size = aof.aof_current_size
    BY <1>1 DEF Buffers
  <1>3. FileOK(aof, data, disk) /\ ChildOK(child, aof, data, disk) /\ Begins(Loaded(disk), data)
    BY DEF IInv, Looping
  <1>4. data \in Seq(Cmds) /\ disk \in Seq(Half) /\ Begins(data, data)
    BY BeginsSelf DEF IInv, Types
  <1>5. Whole(f) /\ Loaded(f) = data
    BY <1>4, Dumped
  <1> HIDE DEF f
  <1>6. f \in Seq(Half) /\ f \o <<>> = f
    <2>1. f \in Seq(Half)
      BY <1>5 DEF Whole, Written
    <2> QED
      BY <2>1, EmptyJoined
  <1>7. ChildOK(child', aof', data, disk)
    <2>1. aof.rewrite_buf = <<>>
      BY <1>1, <1>3 DEF ChildOK
    <2>2. child'.temp = f
      BY <1>1
    <2>3. child'.temp \o aof'.rewrite_buf = f
      BY <1>2, <1>6, <2>1, <2>2
    <2> QED
      BY <1>2, <1>3, <1>4, <1>5, <1>6, <2>1, <2>2, <2>3 DEF ChildOK, Holds
  <1>8. FileOK(aof', data, disk)
    BY <1>2, <1>3 DEF FileOK, Holds
  <1>9. aof'.aof_state # "on" => aof'.aof_buf = <<>>
    BY <1>2 DEF IInv
  <1>10. aof'.aof_state # "off" => aof'.aof_fd = "open"
    BY <1>2 DEF IInv
  <1>11. Written(disk) /\ Len(Loaded(disk)) <= MaxCmds /\ replies \in {"none", "pending", "writable"}
    BY DEF IInv, Types
  <1> QED
    BY <1>2, <1>3, <1>4, <1>7, <1>8, <1>9, <1>10, <1>11, GoesOn

\* BGREWRITEAOF and switching on.
LEMMA RewritingKeeps ==
    ASSUME IInv, rewriteAppendOnlyFileBackground \/ startAppendOnly
    PROVE  IInv'
  <1>1. aof \in Buffers
    BY DEF IInv, Types
  <1>2. CASE rewriteAppendOnlyFileBackground
    <2>1. /\ at = "events" /\ Fork(aof) /\ UNCHANGED <<data, disk, at, replies, acked, aof_fsync>>
      BY <1>2 DEF rewriteAppendOnlyFileBackground
    <2> QED
      BY <1>1, <2>1, ForkKeeps
  <1>3. CASE startAppendOnly
    <2> DEFINE a == [aof EXCEPT !.aof_fd = "open", !.aof_state = "wait"]
    <2>1. /\ at = "events" /\ aof.aof_state = "off" /\ Fork(a)
          /\ UNCHANGED <<data, disk, at, replies, acked, aof_fsync>>
      BY <1>3 DEF startAppendOnly
    <2>2. /\ a \in Buffers /\ a.aof_state = "wait" /\ a.aof_fd = "open"
          /\ a.aof_buf = aof.aof_buf /\ a.rewrite_buf = aof.rewrite_buf
          /\ a.aof_current_size = aof.aof_current_size
      BY <1>1 DEF Buffers
    <2> HIDE DEF a
    <2> QED
      BY <2>1, <2>2, ForkKeeps
  <1> QED
    BY <1>2, <1>3

\* A rewrite that failed leaves the file it was to replace.
LEMMA RewriteFailedKeeps ==
    ASSUME IInv, RewriteFailed
    PROVE  IInv'
  <1>1. /\ at = "events" /\ child' = None /\ UNCHANGED <<data, disk, at, replies, acked, aof_fsync>>
        /\ aof' = [aof EXCEPT !.rewrite_buf = <<>>,
                              !.scheduled = IF aof.aof_state = "wait" THEN TRUE ELSE @]
    BY DEF RewriteFailed, Cleanup
  <1>2. /\ aof' \in Buffers /\ aof'.aof_selected_db = aof.aof_selected_db
        /\ aof'.aof_state = aof.aof_state /\ aof'.aof_fd = aof.aof_fd
        /\ aof'.aof_buf = aof.aof_buf /\ aof'.rewrite_buf = <<>>
        /\ aof'.aof_current_size = aof.aof_current_size
    <2> DEFINE s == IF aof.aof_state = "wait" THEN TRUE ELSE aof.scheduled
    <2>1. aof \in Buffers
      BY DEF IInv, Types
    <2>2. aof' = [aof EXCEPT !.rewrite_buf = <<>>, !.scheduled = s]
      BY <1>1
    <2>3. s \in BOOLEAN
      BY <2>1 DEF Buffers
    <2> HIDE DEF s
    <2>4. <<>> \in Seq(Half)
      OBVIOUS
    <2> QED
      BY <2>1, <2>2, <2>3, <2>4 DEF Buffers
  <1>3. FileOK(aof, data, disk) /\ Begins(Loaded(disk), data)
    BY <1>1 DEF IInv, Looping
  <1>4. ChildOK(child', aof', data, disk)
    BY <1>1, <1>2 DEF ChildOK
  <1>5. FileOK(aof', data, disk)
    BY <1>2, <1>3 DEF FileOK
  <1> QED
    BY <1>1, <1>2, <1>3, <1>4, <1>5, GoesOn DEF IInv, Types

\* The new file holds no less than the old one.
LEMMA RenameKeeps ==
    ASSUME IInv, Rename
    PROVE  IInv' /\ Begins(Loaded(disk), Loaded(disk')) /\ data' = data
  <1> DEFINE new == child.temp \o aof.rewrite_buf
  <1>1. /\ at = "events" /\ at' = "renamed" /\ child # None /\ disk' = new
        /\ UNCHANGED <<data, aof, child, replies, acked, aof_fsync>>
    BY DEF Rename
  <1>2. /\ Whole(new) /\ Begins(Loaded(new), data) /\ Begins(Loaded(disk), Loaded(new))
        /\ child.temp \in Seq(Half)
        /\ aof.aof_state # "off" => Holds(new, data, aof.aof_selected_db)
    BY <1>1 DEF IInv, ChildOK
  <1> HIDE DEF new
  <1>3. Written(new) /\ new \in Seq(Half)
    BY <1>2 DEF Whole, Written
  <1>4. Loaded(new) \in Seq(Cmds) /\ Len(Loaded(new)) \in Nat /\ Begins(Loaded(new), Loaded(new))
    BY <1>3, LoadedType, BeginsSelf
  <1>5. Len(Loaded(new)) <= MaxCmds
    <2>1. Len(data) \in Nat /\ Len(data) <= MaxCmds /\ MaxCmds \in Nat
      BY AofAssumption DEF IInv, Types
    <2> QED
      BY <1>2, <1>4, <2>1 DEF Begins
  <1>6. ChildOK(child', aof', data', disk')
    BY <1>1, <1>2, <1>4 DEF ChildOK, new
  <1>7. Types'
    BY <1>1, <1>3 DEF IInv, Types
  <1>8. at' # "down" /\ ~Looping'
    BY <1>1 DEF Looping
  <1> QED
    BY <1>1, <1>2, <1>3, <1>5, <1>6, <1>7, <1>8 DEF IInv, new

\* With the new file the buffer is dropped: its commands were in the rewrite buffer.
LEMMA RewriteDoneKeeps ==
    ASSUME IInv, RewriteDone
    PROVE  IInv' /\ aof'.aof_buf = <<>> /\ (aof'.aof_state # "off" => aof.aof_state # "off")
  <1> DEFINE switched == [aof EXCEPT !.aof_fd = "open", !.aof_selected_db = None,
                                   !.aof_current_size = Len(disk), !.aof_buf = <<>>,
                                   !.sync_in_progress = aof_fsync = "everysec"]
             a == IF aof.aof_fd = "none" THEN aof ELSE switched
             e == [a EXCEPT !.aof_state = IF @ = "wait" THEN "on" ELSE @]
             new == child.temp \o aof.rewrite_buf
  <1>1. /\ at = "renamed" /\ at' = "events" /\ child' = None
        /\ UNCHANGED <<data, disk, replies, acked, aof_fsync>>
        /\ aof' = [e EXCEPT !.rewrite_buf = <<>>,
                            !.scheduled = IF e.aof_state = "wait" THEN TRUE ELSE @]
    BY DEF RewriteDone, Cleanup
  <1>2. /\ disk = new /\ Whole(disk) /\ Begins(Loaded(disk), data)
        /\ aof.aof_state # "off" => Holds(disk, data, aof.aof_selected_db)
    BY <1>1 DEF IInv, ChildOK
  <1>3. /\ aof \in Buffers /\ disk \in Seq(Half) /\ Len(disk) \in Nat
        /\ aof.aof_state # "off" => aof.aof_fd = "open"
        /\ aof.aof_state # "on" => aof.aof_buf = <<>>
    BY DEF IInv, Types
  <1>4. /\ a \in Buffers /\ a.aof_state = aof.aof_state /\ a.aof_buf = <<>>
        /\ a.aof_state # "off" =>
              /\ a.aof_fd = "open" /\ a.aof_selected_db = None /\ a.aof_current_size = Len(disk)
    <2> DEFINE n == Len(disk)
    <2>1. n \in Nat /\ <<>> \in Seq(Half)
      BY <1>3
    <2>2. PICK y \in BOOLEAN :
          switched = [aof EXCEPT !.aof_fd = "open", !.aof_selected_db = None,
                                 !.aof_current_size = n, !.aof_buf = <<>>,
                                 !.sync_in_progress = y]
      OBVIOUS
    <2> HIDE DEF n
    <2>3. /\ switched \in Buffers /\ switched.aof_state = aof.aof_state
          /\ switched.aof_buf = <<>> /\ switched.aof_fd = "open"
          /\ switched.aof_selected_db = None /\ switched.aof_current_size = n
      BY <1>3, <2>1, <2>2 DEF Buffers
    <2> HIDE DEF switched
    <2>4. CASE aof.aof_fd = "none"
      BY <1>3, <2>4
    <2>5. CASE aof.aof_fd # "none"
      BY <2>3, <2>5 DEF n
    <2> QED
      BY <2>4, <2>5
  <1> HIDE DEF a
  <1>5. /\ aof' \in Buffers /\ aof'.aof_buf = <<>> /\ aof'.rewrite_buf = <<>>
        /\ aof'.aof_selected_db = a.aof_selected_db /\ aof'.aof_fd = a.aof_fd
        /\ aof'.aof_current_size = a.aof_current_size
        /\ aof'.aof_state = IF aof.aof_state = "wait" THEN "on" ELSE aof.aof_state
    <2> DEFINE s == IF a.aof_state = "wait" THEN "on" ELSE a.aof_state
               w == IF e.aof_state = "wait" THEN TRUE ELSE e.scheduled
    <2>1. s \in {"on", "wait", "off"} /\ e = [a EXCEPT !.aof_state = s]
      BY <1>4 DEF Buffers
    <2>2. aof' = [e EXCEPT !.rewrite_buf = <<>>, !.scheduled = w]
      BY <1>1
    <2> HIDE DEF s, e
    <2>3. e \in Buffers /\ e.aof_state = s /\ e.aof_selected_db = a.aof_selected_db
          /\ e.aof_fd = a.aof_fd /\ e.aof_current_size = a.aof_current_size
          /\ e.aof_buf = <<>>
      BY <1>4, <2>1 DEF Buffers
    <2>4. w \in BOOLEAN
      BY <2>3 DEF Buffers
    <2> HIDE DEF w
    <2>5. /\ aof' \in Buffers /\ aof'.aof_buf = <<>> /\ aof'.rewrite_buf = <<>>
          /\ aof'.aof_selected_db = a.aof_selected_db /\ aof'.aof_fd = a.aof_fd
          /\ aof'.aof_current_size = a.aof_current_size /\ aof'.aof_state = s
      BY <2>2, <2>3, <2>4 DEF Buffers
    <2> QED
      BY <1>4, <2>5 DEF s
  <1>6. disk \o aof'.aof_buf = disk
    BY <1>3, <1>5, EmptyJoined
  <1>7. FileOK(aof', data, disk)
    BY <1>2, <1>4, <1>5, <1>6 DEF FileOK, Holds
  <1>8. ChildOK(child', aof', data, disk)
    BY <1>1, <1>5 DEF ChildOK
  <1>9. aof'.aof_state # "off" => aof'.aof_fd = "open"
    BY <1>4, <1>5
  <1> QED
    BY <1>1, <1>2, <1>3, <1>5, <1>7, <1>8, <1>9, GoesOn DEF IInv, Types

\* Switching off.
LEMMA StoppedKeeps ==
    ASSUME IInv, ~DirtyStop, stopAppendOnly
    PROVE  IInv'
  <1>1. PICK r \in flushAppendOnlyFile(TRUE) :
          /\ disk' = r.disk
          /\ IF ExitsOn(r) THEN Gone
             ELSE /\ r.aof.aof_buf = <<>>
                  /\ aof' = [r.aof EXCEPT !.aof_fd = "none", !.aof_selected_db = None,
                                          !.aof_state = "off",
                                          !.rewrite_buf = IF child # None THEN <<>> ELSE @]
                  /\ child' = None
                  /\ UNCHANGED <<data, at, replies>>
    BY DEF stopAppendOnly
  <1>2. at = "events" /\ Looping /\ acked' = acked /\ aof_fsync' = aof_fsync
    BY DEF stopAppendOnly, Looping
  <1>3. /\ r.aof \in Buffers /\ r.disk \in Seq(Half)
        /\ Written(r.disk) /\ Len(Loaded(r.disk)) <= MaxCmds
        /\ Begins(Loaded(r.disk), data)
        /\ FileOK(r.aof, data, r.disk) /\ r.aof.rewrite_buf = aof.rewrite_buf
    BY <1>2, Flushes
  <1>4. CASE ExitsOn(r)
    BY <1>1, <1>2, <1>3, <1>4, GoneKeeps
  <1>5. CASE ~ExitsOn(r)
    <2> DEFINE x == IF child # None THEN <<>> ELSE r.aof.rewrite_buf
    <2>1. /\ aof' = [r.aof EXCEPT !.aof_fd = "none", !.aof_selected_db = None,
                                  !.aof_state = "off", !.rewrite_buf = x]
          /\ r.aof.aof_buf = <<>> /\ child' = None /\ UNCHANGED <<data, at, replies>>
      BY <1>1, <1>5
    <2>2. x = <<>>
      BY <1>3 DEF IInv, ChildOK
    <2> HIDE DEF x
    <2>3. /\ aof' \in Buffers /\ aof'.aof_state = "off" /\ aof'.aof_buf = <<>>
          /\ aof'.rewrite_buf = <<>>
      BY <1>3, <2>1, <2>2 DEF Buffers
    <2>4. FileOK(aof', data, r.disk)
      BY <1>3, <2>1, <2>3 DEF FileOK
    <2>5. ChildOK(child', aof', data, r.disk)
      BY <2>1, <2>3 DEF ChildOK
    <2> QED
      BY <1>1, <1>2, <1>3, <2>1, <2>3, <2>4, <2>5, GoesOn DEF IInv, Types
  <1> QED
    BY <1>4, <1>5

\* Switching on that fails.
LEMMA StartFailsKeeps ==
    ASSUME IInv, startFails
    PROVE  IInv'
  <1>1. PICK fd \in {"none", "closed"} : aof' = [aof EXCEPT !.aof_fd = fd]
    BY DEF startFails
  <1>2. /\ at = "events" /\ aof.aof_state = "off"
        /\ UNCHANGED <<data, disk, child, at, replies, acked, aof_fsync>>
    BY DEF startFails
  <1>3. /\ aof' \in Buffers /\ aof'.aof_buf = aof.aof_buf /\ aof'.rewrite_buf = aof.rewrite_buf
        /\ aof'.aof_state = "off"
    BY <1>1, <1>2 DEF IInv, Types, Buffers
  <1>4. FileOK(aof, data, disk) /\ ChildOK(child, aof, data, disk) /\ Begins(Loaded(disk), data)
    BY <1>2 DEF IInv, Looping
  <1>5. FileOK(aof', data, disk) /\ ChildOK(child', aof', data, disk)
    BY <1>2, <1>3, <1>4 DEF FileOK, ChildOK
  <1> QED
    BY <1>1, <1>2, <1>3, <1>4, <1>5, GoesOn DEF IInv, Types

\* SHUTDOWN and kills.
LEMMA DeathKeeps ==
    ASSUME IInv, Shutdown \/ Crash
    PROVE  IInv'
  <1>1. Gone /\ disk' = disk /\ acked' = acked /\ aof_fsync' = aof_fsync
    BY DEF Shutdown, Crash
  <1>2. disk \in Seq(Half) /\ Written(disk) /\ Len(Loaded(disk)) <= MaxCmds
    BY DEF IInv, Types
  <1> QED
    BY <1>1, <1>2, GoneKeeps

\* The loader cuts half a record off; the others are as they were.
LEMMA Cut ==
    ASSUME NEW f, Written(f)
    PROVE  LET g == SubSeq(f, 1, 2 * (Len(f) \div 2))
           IN  Whole(g) /\ Loaded(g) = Loaded(f) /\ Len(g) \in Nat /\ g \in Seq(Half)
  <1> DEFINE n == Len(f)
             k == n \div 2
             m == 2 * k
             g == SubSeq(f, 1, m)
  <1>1. f \in Seq(Half) /\ WellFormed(f) /\ Sound(Records(f))
    BY DEF Written
  <1>2. n \in Nat
    BY <1>1
  <1>3. k \in Nat /\ (n = 2 * k \/ n = 2 * k + 1)
    BY <1>2, Halving
  <1>4. m \in Nat /\ m <= n /\ m \div 2 = k /\ Even(m)
    <2>1. m = k + k /\ Even(k + k) /\ (2 * k) \div 2 = k
      BY <1>3, Halving
    <2> HIDE DEF k, n
    <2>2. m <= n /\ m \in Nat
      BY <1>2, <1>3
    <2> HIDE DEF m
    <2> QED
      BY <2>1, <2>2 DEF m
  <1>5. /\ Records(f) \in Seq(Recs) /\ Len(Records(f)) = k
        /\ \A i \in 1 .. k : 2 * i \in 1 .. n /\ Records(f)[i] = f[2 * i].rec
    BY <1>1, RecordsOf
  <1> HIDE DEF m, k, n
  <1>6. /\ g \in Seq(Half) /\ Len(g) = m /\ \A i \in 1 .. m : g[i] = f[i]
    <2>1. f \in Seq(Half) /\ Len(f) = n
      BY <1>1 DEF n
    <2> QED
      BY <1>2, <1>4, <2>1
  <1> HIDE DEF g
  <1>7. /\ Records(g) \in Seq(Recs) /\ Len(Records(g)) = k
        /\ \A i \in 1 .. k : 2 * i \in 1 .. m /\ Records(g)[i] = g[2 * i].rec
    <2>1. /\ Records(g) \in Seq(Recs) /\ Len(Records(g)) = Len(g) \div 2
          /\ \A i \in 1 .. Len(g) \div 2 : 2 * i \in 1 .. Len(g) /\ Records(g)[i] = g[2 * i].rec
      BY <1>6, RecordsOf
    <2> QED
      BY <1>4, <1>6, <2>1
  <1>8. Records(g) = Records(f)
    <2> DEFINE R == Records(f)
               Q == Records(g)
    <2>1. \A i \in 1 .. k : Q[i] = R[i]
      BY <1>5, <1>6, <1>7
    <2>2. R \in Seq(Recs) /\ Q \in Seq(Recs) /\ Len(R) = k /\ Len(Q) = k
      BY <1>5, <1>7
    <2> HIDE DEF R, Q
    <2>3. R = Q
      BY <2>1, <2>2, SeqEqual
    <2> QED
      BY <2>3 DEF R, Q
  <1>9. WellFormed(g)
    <2>1. DOMAIN f = 1 .. n /\ DOMAIN g = 1 .. m
      BY <1>1, <1>6 DEF n
    <2> QED
      BY <1>1, <1>2, <1>4, <1>6, <2>1 DEF WellFormed
  <1>10. Whole(g) /\ Loaded(g) = Loaded(f)
    BY <1>1, <1>4, <1>6, <1>8, <1>9 DEF Whole, Written, Loaded, Replay
  <1> QED
    BY <1>4, <1>6, <1>10 DEF g, m, k, n

\* A restart finds what the file kept.
LEMMA RestartKeeps ==
    ASSUME IInv, Restart
    PROVE  IInv' /\ Loaded(disk') = Loaded(disk) /\ data' = Loaded(disk)
  <1>1. /\ at = "down" /\ disk' = SubSeq(disk, 1, 2 * (Len(disk) \div 2))
        /\ aof' = [aof EXCEPT !.aof_current_size = Len(disk')]
        /\ data' = Loaded(disk) /\ acked' = IF acked > Len(data') THEN Len(data') ELSE acked
        /\ at' = "top" /\ UNCHANGED <<child, replies, aof_fsync>>
    BY DEF Restart
  <1>2. aof = NoBuffers /\ child = None /\ Written(disk) /\ Len(Loaded(disk)) <= MaxCmds
    BY <1>1 DEF IInv
  <1>3. Whole(disk') /\ Loaded(disk') = Loaded(disk) /\ Len(disk') \in Nat /\ disk' \in Seq(Half)
    BY <1>1, <1>2, Cut
  <1>4. /\ aof' \in Buffers /\ aof'.aof_state = "on" /\ aof'.aof_buf = <<>>
        /\ aof'.rewrite_buf = <<>> /\ aof'.aof_fd = "open" /\ aof'.aof_selected_db = None
        /\ aof'.aof_current_size = Len(disk')
    <2>1. /\ aof \in Buffers /\ aof.aof_state = "on" /\ aof.aof_buf = <<>>
          /\ aof.rewrite_buf = <<>> /\ aof.aof_fd = "open" /\ aof.aof_selected_db = None
      BY <1>2 DEF IInv, Types, NoBuffers
    <2> DEFINE l == Len(disk')
    <2>2. l \in Nat /\ aof' = [aof EXCEPT !.aof_current_size = l]
      BY <1>1, <1>3
    <2> HIDE DEF l
    <2>3. /\ aof' \in Buffers /\ aof'.aof_state = "on" /\ aof'.aof_buf = <<>>
          /\ aof'.rewrite_buf = <<>> /\ aof'.aof_fd = "open" /\ aof'.aof_selected_db = None
          /\ aof'.aof_current_size = l
      BY <2>1, <2>2 DEF Buffers
    <2> QED
      BY <2>3 DEF l
  <1>5. Loaded(disk) \in Seq(Cmds) /\ Len(Loaded(disk)) \in Nat
    BY <1>2, LoadedType
  <1>6. Begins(data', data')
    BY <1>1, <1>5, BeginsSelf
  <1>7. disk' \o aof'.aof_buf = disk'
    BY <1>3, <1>4, EmptyJoined
  <1>8. FileOK(aof', data', disk')
    BY <1>1, <1>3, <1>4, <1>6, <1>7 DEF FileOK, Holds
  <1>9. ChildOK(child', aof', data', disk')
    BY <1>1, <1>2, <1>4 DEF ChildOK
  <1>10. acked' \in 0 .. MaxCmds /\ acked' <= Len(data')
    <2> DEFINE l == Len(data')
    <2>1. acked \in Nat /\ acked <= MaxCmds /\ MaxCmds \in Nat /\ l \in Nat /\ l <= MaxCmds
          /\ acked' = IF acked > l THEN l ELSE acked
      BY <1>1, <1>2, <1>5, AofAssumption DEF IInv, Types
    <2> HIDE DEF l
    <2> QED
      BY <2>1 DEF l
  <1>11. Types'
    BY <1>1, <1>2, <1>3, <1>4, <1>5, <1>10 DEF IInv, Types
  <1>12. Written(disk')
    BY <1>3 DEF Whole
  <1> QED
    BY <1>1, <1>2, <1>3, <1>4, <1>6, <1>8, <1>9, <1>10, <1>11, <1>12 DEF IInv, Looping

\* The invariant is inductive, if the file is not switched off with a buffer
\* that was not written.
LEMMA StepKeeps ==
    ASSUME IInv, ~DirtyStop, [Next]_vars
    PROVE  IInv'
  <1>1. CASE Server
    BY <1>1, FlushingKeeps, QuietKeeps, RewriteDoneKeeps, RenameKeeps, RewriteFailedKeeps DEF Server
  <1>2. CASE Environment
    BY <1>2, ExecuteKeeps, QuietKeeps, RewritingKeeps, StoppedKeeps, StartFailsKeeps,
       DeathKeeps, RestartKeeps DEF Environment
  <1>3. CASE UNCHANGED vars
    BY <1>3 DEF vars, IInv, Types, Looping
  <1> QED
    BY <1>1, <1>2, <1>3 DEF Next

\* ~DirtyStop: as long as nobody switches the file off with a buffer that was
\* not written, every state of the server satisfies the invariant.
THEOREM AofInv == ~DirtyStop => (Spec => []IInv)
  <1> SUFFICES ASSUME ~DirtyStop PROVE Spec => []IInv
    OBVIOUS
  <1>1. IInv /\ [Next]_vars => IInv'
    BY StepKeeps
  <1> QED
    BY <1>1, Initially, PTL DEF Spec

----------------------------------------------------------------------------
(* What was acknowledged *)

\* The invariant says what Recoverable does.
LEMMA InvRecoverable == IInv => Recoverable
  <1> SUFFICES ASSUME IInv PROVE Recoverable
    OBVIOUS
  <1>1. TypeOK
    <2>1. aof \in Buffers /\ (child = None => aof.rewrite_buf = <<>>)
      BY DEF IInv, Types, ChildOK
    <2> QED
      BY <2>1 DEF IInv, Types, Buffers, TypeOK
  <1>2. ASSUME aof.aof_state = "on", Looping
        PROVE  /\ WellFormed(disk \o aof.aof_buf) /\ Loaded(disk \o aof.aof_buf) = data
               /\ aof.aof_current_size = Len(disk)
    BY <1>2 DEF IInv, FileOK, Whole, Written, Holds
  <1> QED
    BY <1>1, <1>2 DEF Recoverable, Looping

\* What a step writes is at the end: the file holds no less.
LEMMA StepGrows ==
    ASSUME IInv, ~DirtyStop, [Next]_vars
    PROVE  Begins(Loaded(disk), Loaded(disk')) /\ Len(Loaded(disk)) \in Nat /\ Len(Loaded(disk')) \in Nat
  <1>1. IInv'
    BY StepKeeps
  <1>2. Written(disk) /\ Written(disk')
    BY <1>1 DEF IInv
  <1>3. Loaded(disk) \in Seq(Cmds) /\ Len(Loaded(disk)) \in Nat /\ Len(Loaded(disk')) \in Nat
    BY <1>2, LoadedType
  <1>4. disk' = disk => Begins(Loaded(disk), Loaded(disk'))
    BY <1>3, BeginsSelf
  <1>5. ASSUME Looping, NEW force, NEW r \in flushAppendOnlyFile(force), disk' = r.disk
        PROVE  Begins(Loaded(disk), Loaded(disk'))
    BY <1>5, Flushes
  <1>6. ASSUME beforeSleep PROVE Begins(Loaded(disk), Loaded(disk'))
    BY <1>5, <1>6 DEF beforeSleep, Flush, Looping
  <1>7. ASSUME CronFlush PROVE Begins(Loaded(disk), Loaded(disk'))
    BY <1>5, <1>7 DEF CronFlush, Flush, Looping
  <1>8. ASSUME stopAppendOnly PROVE Begins(Loaded(disk), Loaded(disk'))
    BY <1>5, <1>8 DEF stopAppendOnly, Looping
  <1>9. ASSUME Rename PROVE Begins(Loaded(disk), Loaded(disk'))
    BY <1>9, RenameKeeps
  <1>10. ASSUME Restart PROVE Begins(Loaded(disk), Loaded(disk'))
    <2>1. Loaded(disk') = Loaded(disk)
      BY <1>10, RestartKeeps
    <2> QED
      BY <1>3, <2>1, BeginsSelf
  <1>11. ASSUME ~(beforeSleep \/ CronFlush \/ stopAppendOnly \/ Rename \/ Restart)
         PROVE  disk' = disk
    <2>1. CASE Server
      BY <1>11, <2>1 DEF Server, Poll, EventsDone, RewriteDone, RewriteFailed
    <2>2. CASE Environment
      <3>1. ASSUME NEW db \in Dbs, NEW n \in 1 .. 2, Execute(db, n) PROVE disk' = disk
        BY <3>1 DEF Execute
      <3> QED
        BY <1>11, <2>2, <3>1 DEF Environment, sendReplyToClient, rewriteAppendOnlyFileBackground,
           startAppendOnly, startFails, Tick, bioFsync, Shutdown, Crash
    <2>3. CASE UNCHANGED vars
      BY <2>3 DEF vars
    <2> QED
      BY <2>1, <2>2, <2>3 DEF Next
  <1>12. Begins(Loaded(disk), Loaded(disk'))
    BY <1>4, <1>6, <1>7, <1>8, <1>9, <1>10, <1>11
  <1> QED
    BY <1>3, <1>12

\* Nothing is acknowledged at first.
LEMMA AInitially == Init => AInv
  <1> SUFFICES ASSUME Init PROVE AInv
    OBVIOUS
  <1>1. at = "top" /\ acked = 0 /\ disk = <<>>
    BY DEF Init
  <1>2. Len(Loaded(disk)) = 0
    BY <1>1, EmptyFile
  <1> QED
    BY <1>1, <1>2 DEF AInv

\* With "always" a flush leaves no buffer, or no server.
LEMMA AlwaysFlushes ==
    ASSUME IInv, Looping, aof_fsync = "always", aof.aof_state = "on",
           NEW force, NEW next, Flush(force, next), at' # "down"
    PROVE  aof'.aof_buf = <<>>
  <1>1. PICK r \in flushAppendOnlyFile(force) :
           IF ExitsOn(r) THEN at' = "down" ELSE aof' = r.aof
    BY DEF Flush, Gone
  <1>2. aof_fsync = "always" /\ aof.aof_fd = "open"
    BY DEF IInv
  <1>3. aof_fsync = "always" /\ aof.aof_fd = "open" => r.aof.aof_buf = <<>> \/ ExitsOn(r)
    BY Flushes
  <1> QED
    BY <1>1, <1>2, <1>3

\* Acknowledged commands stay in the file, when clients do not pipeline.
LEMMA AStep ==
    ASSUME IInv, AInv, ~DirtyStop, ~Pipelined, [Next]_vars
    PROVE  AInv'
  <1> SUFFICES ASSUME aof_fsync' = "always", aof'.aof_state = "on", at' # "down"
               PROVE  /\ acked' <= Len(Loaded(disk'))
                      /\ at' = "poll" \/ (at' = "events" /\ replies' = "writable")
                            => aof'.aof_buf = <<>>
    BY DEF AInv
  <1> DEFINE l == Len(Loaded(disk))
             m == Len(Loaded(disk'))
             Idle == at' = "poll" \/ (at' = "events" /\ replies' = "writable")
  <1>1. IInv'
    BY StepKeeps
  <1>2. l \in Nat /\ m \in Nat /\ l <= m /\ acked \in Nat
    <2>1. Begins(Loaded(disk), Loaded(disk')) /\ l \in Nat /\ m \in Nat
      BY StepGrows
    <2> QED
      BY <2>1 DEF Begins, IInv, Types
  <1>3. aof_fsync = "always"
    BY <1>1 DEF Next, Server, Environment, beforeSleep, Poll, EventsDone, CronFlush, RewriteDone,
       Rename, RewriteFailed, Execute, sendReplyToClient, rewriteAppendOnlyFileBackground,
       stopAppendOnly, startAppendOnly, startFails, Tick, bioFsync, Shutdown, Crash, Restart, vars
  <1>4. aof \in Buffers
    BY DEF IInv, Types
  \* Most steps find the state the same, and acknowledge nothing.
  <1>5. ASSUME aof.aof_state = "on", at # "down", acked' = acked PROVE acked' <= m
    BY <1>2, <1>3, <1>5 DEF AInv
  <1>6. ASSUME aof.aof_state = "on", at # "down", acked' = acked, aof'.aof_buf = aof.aof_buf,
               Idle => at = "poll" \/ (at = "events" /\ replies = "writable")
        PROVE  acked' <= m /\ (Idle => aof'.aof_buf = <<>>)
    BY <1>3, <1>5, <1>6 DEF AInv
  <1> DEFINE Goal == acked' <= m /\ (Idle => aof'.aof_buf = <<>>)
  <1>7. ASSUME beforeSleep \/ CronFlush PROVE Goal
    <2>1. PICK force, next : Flush(force, next)
      BY <1>7 DEF beforeSleep, CronFlush
    <2>2. Looping /\ acked' = acked /\ at # "down"
      BY <1>7 DEF beforeSleep, CronFlush, Looping
    <2>3. aof.aof_state = "on"
      <3>1. PICK r \in flushAppendOnlyFile(force) :
               IF ExitsOn(r) THEN at' = "down" ELSE aof' = r.aof
        BY <2>1 DEF Flush, Gone
      <3>2. r.aof.aof_state = aof.aof_state
        BY <2>2, Flushes
      <3> QED
        BY <3>1, <3>2
    <2>4. aof'.aof_buf = <<>>
      BY <1>3, <2>1, <2>2, <2>3, AlwaysFlushes
    <2> QED
      BY <1>5, <2>2, <2>3, <2>4
  <1>8. ASSUME Poll \/ EventsDone PROVE Goal
    BY <1>6, <1>8 DEF Poll, EventsDone
  <1>9. ASSUME Tick \/ bioFsync PROVE Goal
    <2>1. aof'.aof_buf = aof.aof_buf /\ aof'.aof_state = aof.aof_state
      BY <1>4, <1>9 DEF Tick, bioFsync, Buffers
    <2> QED
      BY <1>6, <1>9, <2>1 DEF Tick, bioFsync
  <1>10. ASSUME sendReplyToClient PROVE Goal
    <2>1. /\ at = "events" /\ replies = "writable" /\ aof' = aof /\ disk' = disk
          /\ acked' = Len(data) /\ replies' = "none" /\ at' = "events"
      BY <1>10 DEF sendReplyToClient
    <2>2. aof.aof_buf = <<>>
      BY <1>3, <2>1 DEF AInv
    <2>3. disk \o aof.aof_buf = disk
      BY <2>2, EmptyJoined DEF IInv, Types
    <2>4. Loaded(disk \o aof.aof_buf) = data
      BY <2>1 DEF IInv, Looping, FileOK, Holds
    <2>5. Len(data) = m /\ m <= m
      BY <1>2, <2>1, <2>3, <2>4
    <2> QED
      BY <2>1, <2>2, <2>5
  <1>11. ASSUME NEW db \in Dbs, NEW n \in 1 .. 2, Execute(db, n) PROVE Goal
    <2>1. /\ at = "events" /\ at' = "events" /\ acked' = acked /\ replies = "none"
          /\ replies' = "pending"
      BY <1>11 DEF Execute
    <2>2. aof'.aof_state = aof.aof_state
      <3>1. aof' = feedAppendOnlyFile(aof, db, Executed(data, n))
        BY <1>11 DEF Execute, Executed
      <3>2. data \in Seq(Cmds)
        BY DEF IInv, Types
      <3> DEFINE h == Halves(Chosen(db, aof.aof_selected_db) \o Executed(data, n))
      <3>3. h \in Seq(Half)
        <4>1. Chosen(db, aof.aof_selected_db) \o Executed(data, n) \in Seq(Recs)
          BY <3>2, ExecutedType
        <4> QED
          BY <4>1, HalvesOf
      <3>4. IF aof.aof_state = "off" THEN aof' = aof ELSE aof'.aof_state = aof.aof_state
        BY <1>4, <3>1, <3>3, Feeds
      <3> QED
        BY <3>4
    <2> QED
      BY <1>5, <2>1, <2>2
  <1>12. ASSUME rewriteAppendOnlyFileBackground PROVE Goal
    <2>1. aof' = [aof EXCEPT !.scheduled = FALSE, !.aof_selected_db = None]
          /\ at = "events" /\ at' = at /\ replies' = replies /\ acked' = acked
      BY <1>12 DEF rewriteAppendOnlyFileBackground, Fork
    <2>2. aof'.aof_buf = aof.aof_buf /\ aof'.aof_state = aof.aof_state
      BY <1>4, <2>1 DEF Buffers
    <2> QED
      BY <1>6, <2>1, <2>2
  <1>13. ASSUME RewriteFailed PROVE Goal
    <2>1. at = "events" /\ at' = at /\ replies' = replies /\ acked' = acked
          /\ aof' = [aof EXCEPT !.rewrite_buf = <<>>,
                        !.scheduled = IF aof.aof_state = "wait" THEN TRUE ELSE @]
      BY <1>13 DEF RewriteFailed, Cleanup
    <2>2. aof'.aof_buf = aof.aof_buf /\ aof'.aof_state = aof.aof_state
      BY <1>4, <2>1 DEF Buffers
    <2> QED
      BY <1>6, <2>1, <2>2
  <1>14. ASSUME Rename PROVE Goal
    BY <1>5, <1>14 DEF Rename
  <1>15. ASSUME RewriteDone PROVE Goal
    <2>1. at = "renamed" /\ at' = "events" /\ disk' = disk /\ acked' = acked
          /\ aof'.aof_buf = <<>> /\ aof.aof_state # "off"
      BY <1>15, RewriteDoneKeeps DEF RewriteDone
    <2>2. CASE aof.aof_state = "on"
      BY <1>5, <2>1, <2>2
    <2>3. CASE aof.aof_state # "on"
      <3>1. Loaded(disk) = data
        BY <2>1, <2>3 DEF IInv, ChildOK, Holds
      <3>2. acked <= Len(data)
        BY <2>1 DEF IInv
      <3> QED
        BY <2>1, <3>1, <3>2
    <2> QED
      BY <2>2, <2>3
  <1>16. ASSUME startAppendOnly \/ startFails PROVE FALSE
    <2>1. CASE startAppendOnly
      <3>1. aof' = [[aof EXCEPT !.aof_fd = "open", !.aof_state = "wait"]
                        EXCEPT !.scheduled = FALSE, !.aof_selected_db = None]
        BY <2>1 DEF startAppendOnly, Fork
      <3> QED
        BY <1>4, <3>1 DEF Buffers
    <2>2. CASE startFails
      BY <1>4, <2>2 DEF startFails, Buffers
    <2> QED
      BY <1>16, <2>1, <2>2
  <1>17. ASSUME stopAppendOnly PROVE FALSE
    <2>1. PICK r \in flushAppendOnlyFile(TRUE) :
             IF ExitsOn(r) THEN at' = "down"
             ELSE aof' = [r.aof EXCEPT !.aof_fd = "none", !.aof_selected_db = None,
                                       !.aof_state = "off",
                                       !.rewrite_buf = IF child # None THEN <<>> ELSE @]
      BY <1>17 DEF stopAppendOnly, Gone
    <2>2. r.aof \in Buffers
      BY <1>17, Flushes DEF stopAppendOnly, Looping
    <2> QED
      BY <2>1, <2>2 DEF Buffers
  <1>18. ASSUME Shutdown \/ Crash PROVE FALSE
    BY <1>18 DEF Shutdown, Crash, Gone
  <1>19. ASSUME Restart PROVE Goal
    <2>1. at' = "top" /\ acked' = IF acked > Len(data') THEN Len(data') ELSE acked
      BY <1>19 DEF Restart
    <2>2. Len(data') = m
      BY <1>19, RestartKeeps
    <2> QED
      BY <1>2, <2>1, <2>2
  <1>20. ASSUME UNCHANGED vars PROVE Goal
    BY <1>6, <1>20 DEF vars
  <1>21. Goal
    <2>1. CASE Server
      BY <2>1, <1>7, <1>8, <1>13, <1>14, <1>15 DEF Server
    <2>2. CASE Environment
      BY <2>2, <1>9, <1>10, <1>11, <1>12, <1>16, <1>17, <1>18, <1>19 DEF Environment
    <2> QED
      BY <2>1, <2>2, <1>20 DEF Next
  <1> QED
    BY <1>21

----------------------------------------------------------------------------
(* The abstract log, and the theorems *)

\* The log and what is kept of it, of DurableLog.
Log  == IF at = "down" THEN Loaded(disk) ELSE data
Kept == Len(Loaded(disk))

\* Begins, as DurableLog says it.
LEMMA BeginsExtends ==
    ASSUME NEW s \in Seq(Cmds), NEW t \in Seq(Cmds), Begins(s, t)
    PROVE  Len(s) <= Len(t) /\ SubSeq(t, 1, Len(s)) = s
  <1> DEFINE n == Len(s)
             u == SubSeq(t, 1, n)
  <1>1. n \in Nat /\ n <= Len(t) /\ Len(t) \in Nat /\ \A i \in 1 .. n : s[i] = t[i]
    BY DEF Begins
  <1> HIDE DEF n
  <1>2. u \in Seq(Cmds) /\ Len(u) = n /\ \A i \in 1 .. n : u[i] = t[i]
    BY <1>1
  <1> HIDE DEF u
  <1>3. \A i \in 1 .. n : u[i] = s[i]
    BY <1>1, <1>2
  <1>4. u = s
    BY <1>2, <1>3, SeqEqual DEF n
  <1> QED
    BY <1>1, <1>4 DEF u, n

\* Of the steps of a server that runs, only a command changes its dataset,
\* and a crash leaves a file which the dataset begins with.
LEMMA StepKinds ==
    ASSUME IInv, ~DirtyStop, [Next]_vars
    PROVE  \/ at # "down" /\ at' # "down" /\ data' = data
           \/ at # "down" /\ at' = "down" /\ Begins(Loaded(disk'), data)
           \/ \E db \in Dbs, n \in 1 .. 2 : Execute(db, n)
           \/ Restart
           \/ UNCHANGED vars
  <1> DEFINE Same == at # "down" /\ at' # "down" /\ data' = data
             Dies == at # "down" /\ at' = "down" /\ Begins(Loaded(disk'), data)
  <1>1. ASSUME NEW force, NEW next \in {"poll", "events"}, Looping, Flush(force, next)
        PROVE  Same \/ Dies
    <2>1. PICK r \in flushAppendOnlyFile(force) :
             /\ disk' = r.disk
             /\ IF ExitsOn(r) THEN at' = "down" ELSE at' = next /\ data' = data
      BY <1>1 DEF Flush, Gone
    <2>2. Begins(Loaded(r.disk), data)
      BY <1>1, Flushes
    <2> QED
      BY <1>1, <2>1, <2>2 DEF Looping
  <1>2. ASSUME beforeSleep PROVE Same \/ Dies
    BY <1>1, <1>2 DEF beforeSleep, Looping
  <1>3. ASSUME CronFlush PROVE Same \/ Dies
    BY <1>1, <1>3 DEF CronFlush, Looping
  <1>4. ASSUME stopAppendOnly PROVE Same \/ Dies
    <2>1. PICK r \in flushAppendOnlyFile(TRUE) :
             /\ disk' = r.disk
             /\ IF ExitsOn(r) THEN at' = "down" ELSE at' = at /\ data' = data
      BY <1>4 DEF stopAppendOnly, Gone
    <2>2. at = "events" /\ Begins(Loaded(r.disk), data)
      BY <1>4, Flushes DEF stopAppendOnly, Looping
    <2> QED
      BY <2>1, <2>2
  <1>5. ASSUME Shutdown \/ Crash PROVE Dies
    BY <1>5 DEF Shutdown, Crash, Gone, IInv
  <1>6. ASSUME Tick \/ bioFsync PROVE Same
    <2>1. aof = NoBuffers => ~aof.sync_in_progress /\ aof.postponed = "no"
      BY DEF NoBuffers
    <2> QED
      BY <1>6, <2>1 DEF Tick, bioFsync, IInv
  <1>7. CASE Server
    BY <1>2, <1>3, <1>7 DEF Server, Poll, EventsDone, RewriteDone, Rename, RewriteFailed
  <1>8. CASE Environment
    BY <1>4, <1>5, <1>6, <1>8 DEF Environment, sendReplyToClient,
       rewriteAppendOnlyFileBackground, startAppendOnly, startFails
  <1> QED
    BY <1>7, <1>8 DEF Next

\* Each step is a step of DurableLog, or changes neither log nor kept.
LEMMA DurableStep ==
    ASSUME IInv, ~DirtyStop, [Next]_vars
    PROVE  [Durable!Next]_<<Log, Kept>>
  <1> DEFINE s == Loaded(disk)
             t == Loaded(disk')
  <1>1. IInv'
    BY StepKeeps
  <1>2. s \in Seq(Cmds) /\ t \in Seq(Cmds) /\ Len(s) \in Nat /\ Len(t) \in Nat /\ Begins(s, t)
    <2>1. Written(disk) /\ Written(disk')
      BY <1>1 DEF IInv
    <2>2. s \in Seq(Cmds) /\ Len(s) \in Nat /\ t \in Seq(Cmds) /\ Len(t) \in Nat
      BY <2>1, LoadedType
    <2> QED
      BY <2>2, StepGrows
  <1>3. data \in Seq(Cmds) /\ data' \in Seq(Cmds) /\ Len(data) \in Nat /\ Len(data') \in Nat
    BY <1>1 DEF IInv, Types
  <1>4. Len(s) <= Len(t)
    BY <1>2 DEF Begins
  <1>5. Kept = Len(s) /\ Kept' = Len(t)
    BY DEF Kept
  <1> HIDE DEF s, t
  <1>6. CASE at # "down" /\ at' # "down" /\ data' = data
    <2>1. Log = data /\ Log' = data
      BY <1>6 DEF Log
    <2>2. Len(t) <= Len(data)
      BY <1>1, <1>6 DEF IInv, Begins, t
    <2>3. Kept' \in Kept .. Len(Log)
      BY <1>2, <1>3, <1>4, <1>5, <2>1, <2>2
    <2>4. Log' = Log /\ Kept' \in Kept .. Len(Log)
      BY <2>1, <2>3
    <2>5. Durable!Keep
      BY <2>4 DEF Durable!Keep, Log, Kept
    <2> QED
      BY <2>5 DEF Durable!Next
  <1>7. CASE at # "down" /\ at' = "down" /\ Begins(t, data)
    <2>1. Log = data /\ Log' = t
      BY <1>7 DEF Log, t
    <2>2. Len(t) <= Len(data) /\ SubSeq(data, 1, Len(t)) = t
      BY <1>2, <1>3, <1>7, BeginsExtends
    <2>3. Len(t) >= Len(s)
      BY <1>2, <1>4
    <2>4. Durable!Crash
      BY <1>5, <2>1, <2>2, <2>3 DEF Durable!Crash, Durable!Extends, Log, Kept
    <2> QED
      BY <2>4 DEF Durable!Next
  <1>8. ASSUME NEW db \in Dbs, NEW n \in 1 .. 2, Execute(db, n) PROVE Durable!Next
    <2>1. /\ at = "events" /\ at' = "events" /\ disk' = disk
      BY <1>8 DEF Execute
    <2>2. Log = data /\ Log' = data' /\ Kept' = Kept
      BY <2>1 DEF Log, Kept
    <2>3. data' = Grown(data, db, n)
      BY <1>8, ExecuteKeeps
    <2>4. Begins(data, data') /\ Len(data') = Len(data) + n
      BY <1>3, <2>3, GrownType
    <2>5. Len(data) <= Len(data') /\ SubSeq(data', 1, Len(data)) = data
      BY <1>3, <2>4, BeginsExtends
    <2>6. data' # data
      BY <1>3, <2>4
    <2>7. Durable!Append1
      BY <2>2, <2>5, <2>6 DEF Durable!Append1, Durable!Extends, Log, Kept
    <2> QED
      BY <2>7 DEF Durable!Next
  <1>9. CASE Restart
    <2>1. at = "down" /\ at' = "top" /\ data' = s /\ t = s
      BY <1>9, RestartKeeps DEF s, t, Restart
    <2>2. Log' = Log /\ Kept' = Kept
      BY <1>5, <2>1 DEF Log, s
    <2> QED
      BY <2>2
  <1>10. CASE UNCHANGED vars
    BY <1>10 DEF vars, Log, Kept
  <1> QED
    BY <1>6, <1>7, <1>8, <1>9, <1>10, StepKinds DEF t

\* The initial states correspond.
LEMMA DurableInit == Init => Durable!Init
  <1> SUFFICES ASSUME Init PROVE Durable!Init
    OBVIOUS
  <1>1. at = "top" /\ data = <<>> /\ disk = <<>>
    BY DEF Init
  <1>2. Loaded(disk) = <<>>
    BY <1>1, EmptyFile
  <1> QED
    BY <1>1, <1>2 DEF Durable!Init

\* Recoverable, when the file is not switched off with a buffer that was not
\* written: whatever fails and whenever the server is killed, file and buffer
\* give back the dataset, in order, once, and in the right databases.
THEOREM AlwaysRecoverable == ~DirtyStop => (Spec => []Recoverable)
  <1> SUFFICES ASSUME ~DirtyStop PROVE Spec => []Recoverable
    OBVIOUS
  <1>1. Spec => []IInv
    BY AofInv
  <1> QED
    BY <1>1, InvRecoverable, PTL

\* AckedSurvive, when moreover clients wait for their replies: with appendfsync
\* always, no command whose reply was sent is missing after a restart.
THEOREM AlwaysAckedSurvive == ~DirtyStop /\ ~Pipelined => (Spec => []AckedSurvive)
  <1> SUFFICES ASSUME ~DirtyStop, ~Pipelined PROVE Spec => []AckedSurvive
    OBVIOUS
  <1>1. Spec => []IInv
    BY AofInv
  <1>2. IInv /\ AInv /\ [Next]_vars => AInv'
    BY AStep
  <1>3. AInv => AckedSurvive
    BY DEF AInv, AckedSurvive
  <1> QED
    BY <1>1, <1>2, <1>3, AInitially, PTL DEF Spec

\* DurableSpec, under the condition of AlwaysRecoverable: the append only file
\* implements the abstract log; only a crash takes commands, and none that the
\* file kept.
THEOREM AofDurable == ~DirtyStop => (Spec => DurableSpec)
  <1> SUFFICES ASSUME ~DirtyStop PROVE Spec => DurableSpec
    OBVIOUS
  <1>1. Spec => []IInv
    BY AofInv
  <1>2. IInv /\ [Next]_vars => [Durable!Next]_<<Log, Kept>>
    BY DurableStep
  <1> QED
    BY <1>1, <1>2, DurableInit, PTL DEF Spec, DurableSpec, Durable!Spec, Log, Kept
=============================================================================
