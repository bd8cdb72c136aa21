--------------------------- MODULE EventLoop_proofs ---------------------------
(***************************************************************************)
(* Proofs about libevent's event base and loop, for any events, any        *)
(* descriptors and priorities and every interleaving of the loop, the      *)
(* program, the clock, the kernel and the signals: the flags, the queues   *)
(* and the counters tell the same, the kernel reports to the events that   *)
(* are inserted, and a deleted event is not called.                        *)
(*                                                                         *)
(* event.c is proved function by function: each keeps a base Sound, and    *)
(* changes the flags of no event but its own (Touches).  A dispatch is a   *)
(* sequence of such calls (ForEach), and IInv adds where the loop is.      *)
(***************************************************************************)
EXTENDS EventLoop, TLAPS, WellFoundedInduction, SequenceTheorems, FiniteSetTheorems

----------------------------------------------------------------------------
(* Lists without repetition *)

\* The sequence has each event of S once, and no other.
Lists(seq, S) ==
    /\ seq \in Seq(Ev)
    /\ \A n \in 1 .. Len(seq) : seq[n] \in S
    /\ \A i \in S : \E n \in 1 .. Len(seq) : seq[n] = i
    /\ \A m, n \in 1 .. Len(seq) : seq[m] = seq[n] => m = n

\* Two sequences, one behind the other.
LEMMA Joined ==
    ASSUME NEW S, NEW a \in Seq(S), NEW b \in Seq(S)
    PROVE  /\ a \o b \in Seq(S) /\ Len(a \o b) = Len(a) + Len(b)
           /\ \A i \in 1 .. Len(a) : (a \o b)[i] = a[i]
           /\ \A i \in 1 .. Len(b) : (a \o b)[Len(a) + i] = b[i]
  OBVIOUS

\* A new last element.
LEMMA ListsAppend ==
    ASSUME NEW seq, NEW S, Lists(seq, S), NEW e \in Ev, e \notin S
    PROVE  Lists(Append(seq, e), S \cup {e})
  <1> DEFINE new == Append(seq, e)
             l == Len(seq)
  <1>1. seq \in Seq(Ev) /\ l \in Nat
    BY DEF Lists
  <1>2. /\ new \in Seq(Ev) /\ Len(new) = l + 1 /\ new[l + 1] = e
        /\ \A n \in 1 .. l : new[n] = seq[n]
    BY <1>1
  <1> HIDE DEF new
  <1>3. \A n \in 1 .. l + 1 : n = l + 1 \/ n \in 1 .. l
    BY <1>1
  <1>4. \A n \in 1 .. l + 1 : new[n] \in S \cup {e}
    BY <1>2, <1>3 DEF Lists
  <1>5. \A f \in S \cup {e} : \E n \in 1 .. l + 1 : new[n] = f
    <2> TAKE f \in S \cup {e}
    <2>1. CASE f = e
      BY <1>1, <1>2, <2>1
    <2>2. CASE f \in S
      <3>1. PICK n \in 1 .. l : seq[n] = f
        BY <2>2 DEF Lists
      <3> QED
        BY <1>1, <1>2, <3>1
    <2> QED
      BY <2>1, <2>2
  <1>6. \A m, n \in 1 .. l + 1 : new[m] = new[n] => m = n
    BY <1>2, <1>3 DEF Lists
  <1> QED
    BY <1>2, <1>4, <1>5, <1>6 DEF Lists, new

\* A place less.
LEMMA ListsRemove ==
    ASSUME NEW seq, NEW S, Lists(seq, S), NEW k \in 1 .. Len(seq)
    PROVE  Lists(SubSeq(seq, 1, k - 1) \o SubSeq(seq, k + 1, Len(seq)), S \ {seq[k]})
  <1> DEFINE l == Len(seq)
             a == SubSeq(seq, 1, k - 1)
             b == SubSeq(seq, k + 1, l)
             new == a \o b
             i == seq[k]
  <1>1. seq \in Seq(Ev) /\ l \in Nat /\ k \in 1 .. l
    BY DEF Lists
  <1>2. /\ a \in Seq(Ev) /\ Len(a) = k - 1 /\ \A n \in 1 .. k - 1 : a[n] = seq[n]
    <2>1. k - 1 \in Nat /\ k - 1 <= l
      BY <1>1
    <2> DEFINE h == k - 1
    <2>2. h \in Nat /\ h <= l
      BY <2>1
    <2> HIDE DEF h
    <2>3. SubSeq(seq, 1, h) \in Seq(Ev) /\ Len(SubSeq(seq, 1, h)) = h
          /\ \A n \in 1 .. h : SubSeq(seq, 1, h)[n] = seq[n]
      BY <1>1, <2>2
    <2> QED
      BY <2>3 DEF h
  <1>3. /\ b \in Seq(Ev) /\ Len(b) = l - k /\ \A n \in 1 .. l - k : b[n] = seq[k + n]
    <2> DEFINE h == k + 1
    <2>1. h \in 1 .. l + 1 /\ l \in h - 1 .. l
      BY <1>1
    <2>2. /\ SubSeq(seq, h, l) \in Seq(Ev) /\ Len(SubSeq(seq, h, l)) = l - h + 1
          /\ \A n \in 1 .. l - h + 1 : SubSeq(seq, h, l)[n] = seq[h + n - 1]
      <3> HIDE DEF h
      <3>1. \A x \in 1 .. Len(seq) : seq[x] \in Ev
        BY <1>1
      <3> QED
        BY <1>1, <2>1, <3>1, SubSeqProperties
    <2>3. l - h + 1 = l - k /\ \A n \in 1 .. l - k : h + n - 1 = k + n
      BY <1>1
    <2> QED
      BY <2>2, <2>3
  <1> HIDE DEF a, b
  <1>4. /\ new \in Seq(Ev) /\ Len(new) = l - 1
        /\ \A n \in 1 .. k - 1 : new[n] = seq[n]
        /\ \A n \in 1 .. l - k : new[k - 1 + n] = seq[k + n]
    <2> DEFINE p == k - 1
               q == l - k
    <2>1. /\ new \in Seq(Ev) /\ Len(new) = Len(a) + Len(b)
          /\ \A n \in 1 .. Len(a) : new[n] = a[n]
          /\ \A n \in 1 .. Len(b) : new[Len(a) + n] = b[n]
      <3>1. a \in Seq(Ev) /\ b \in Seq(Ev)
        BY <1>2, <1>3
      <3> QED
        BY <3>1, Joined
    <2>2. Len(a) = p /\ Len(b) = q /\ p + q = l - 1
      BY <1>1, <1>2, <1>3
    <2> HIDE DEF p, q, new
    <2>3. /\ new \in Seq(Ev) /\ Len(new) = l - 1
          /\ \A n \in 1 .. p : new[n] = a[n]
          /\ \A n \in 1 .. q : new[p + n] = b[n]
      BY <2>1, <2>2
    <2> QED
      BY <1>2, <1>3, <2>3 DEF p, q
  <1> HIDE DEF new
  <1>5. \A n \in 1 .. l - 1 : \/ n < k /\ new[n] = seq[n]
                              \/ n >= k /\ n + 1 \in 1 .. l /\ new[n] = seq[n + 1]
    <2> TAKE n \in 1 .. l - 1
    <2>1. CASE n < k
      BY <1>1, <1>4, <2>1
    <2>2. CASE n >= k
      <3> DEFINE m == n - k + 1
      <3>1. m \in 1 .. l - k /\ k - 1 + m = n /\ k + m = n + 1
        BY <1>1, <2>2
      <3> HIDE DEF m
      <3>2. new[k - 1 + m] = seq[k + m]
        BY <1>4, <3>1
      <3> QED
        BY <1>1, <2>2, <3>1, <3>2
    <2> QED
      BY <1>1, <2>1, <2>2
  <1>6. \A m, n \in 1 .. l : seq[m] = seq[n] => m = n
    BY DEF Lists
  <1>7. \A n \in 1 .. l - 1 : new[n] \in S \ {i}
    <2> TAKE n \in 1 .. l - 1
    <2>1. \A m \in 1 .. l : m # k => seq[m] \in S \ {i}
      BY <1>1, <1>6 DEF Lists
    <2> QED
      BY <1>1, <1>5, <2>1
  <1>8. \A j \in S \ {i} : \E n \in 1 .. l - 1 : new[n] = j
    <2> TAKE j \in S \ {i}
    <2>1. PICK m \in 1 .. l : seq[m] = j
      BY DEF Lists
    <2>2. CASE m < k
      <3>1. m \in 1 .. l - 1 /\ m \in 1 .. k - 1
        BY <1>1, <2>2
      <3>2. new[m] = seq[m]
        BY <1>4, <3>1
      <3> QED
        BY <2>1, <3>1, <3>2
    <2>3. CASE m > k
      <3>1. m - 1 \in 1 .. l - 1 /\ m - 1 >= k /\ (m - 1) + 1 = m
        BY <1>1, <2>3
      <3> DEFINE n == m - 1
      <3>2. n \in 1 .. l - 1 /\ n >= k /\ n + 1 = m /\ ~(n < k)
        BY <1>1, <3>1
      <3> HIDE DEF n
      <3>3. new[n] = seq[m]
        BY <1>5, <3>2
      <3> QED
        BY <2>1, <3>2, <3>3
    <2>4. m # k /\ m \in Nat /\ k \in Nat
      BY <1>1, <2>1
    <2> QED
      BY <2>2, <2>3, <2>4
  <1>9. ASSUME NEW m \in 1 .. l - 1, NEW n \in 1 .. l - 1, new[m] = new[n] PROVE m = n
    <2>1. m \in 1 .. l /\ n \in 1 .. l
      BY <1>1
    <2> QED
      BY <1>1, <1>5, <1>6, <1>9, <2>1
  <1> QED
    BY <1>4, <1>7, <1>8, <1>9 DEF Lists, new, a, b

\* TAILQ_REMOVE of an element.
LEMMA ListsUnlinked ==
    ASSUME NEW seq, NEW S, Lists(seq, S), NEW e \in S
    PROVE  Lists(Unlinked(seq, e), S \ {e})
  <1> DEFINE n == CHOOSE n \in DOMAIN seq : seq[n] = e
  <1>1. DOMAIN seq = 1 .. Len(seq)
    BY DEF Lists
  <1>2. n \in 1 .. Len(seq) /\ seq[n] = e
    BY <1>1 DEF Lists
  <1>3. Unlinked(seq, e) = SubSeq(seq, 1, n - 1) \o SubSeq(seq, n + 1, Len(seq))
    BY DEF Unlinked
  <1> HIDE DEF n
  <1> QED
    BY <1>2, <1>3, ListsRemove

\* A set of numbers has a smallest one.
LEMMA Smallest ==
    ASSUME NEW T, T \subseteq Nat, T # {}
    PROVE  \E x \in T : \A y \in T : x <= y
  <1>0. T \subseteq Nat /\ T # {}
    OBVIOUS
  <1>1. PICK x \in T : \A y \in T : ~(<<y, x>> \in OpToRel(<, Nat))
    BY <1>0, NatLessThanWellFounded, WFMin
  <1>2. \A y \in T : ~(y < x)
    BY <1>1 DEF OpToRel
  <1> QED
    BY <1>0, <1>2

----------------------------------------------------------------------------
(* Sound bases *)

OnSome(b, queue) == {e \in Ev : On(b, e, queue)}
Counted(b, queue) == Cardinality(OnSome(b, queue) \ {ev_signal})
Active(b, p) == {e \in OnSome(b, "active") : b.ev_pri[e] = p}

Fields == {"ev_flags", "ev_res", "ev_ncalls", "ev_pncalls", "ev_pri", "left",
           "event_count", "event_count_active", "activequeues", "signalqueue", "evep",
           "ctl", "unwatched", "evsigmask", "needrecalc", "ncalls"}

\* A record with the fields of a base.
Shape(b) == b = [f \in Fields |-> b[f]]

Sides == {"evread", "evwrite"}

Typed(b) ==
    /\ b.ev_flags \in [Ev -> SUBSET Queues]
    /\ b.ev_res \in [Ev -> SUBSET Results]
    /\ b.ev_ncalls \in [Ev -> Nat]
    /\ b.ev_pncalls \in [Ev -> {"null", "frame", "stale"}]
    /\ b.ev_pri \in [Ev -> Pri]
    /\ b.left \in [Ev -> 0 .. MaxTv]
    /\ b.activequeues \in [Pri -> Seq(Ev)]
    /\ b.signalqueue \in Seq(Ev)
    /\ b.evep \in [Fds \cup {PairFd} -> [Sides -> Ev \cup {Nil}]]
    /\ b.ncalls \in Nat

\* The flags, the queues and the counters tell the same.
Exact(b) ==
    /\ b.event_count = Counted(b, "timeout") + Counted(b, "inserted")
                          + Counted(b, "signal") + Counted(b, "active")
    /\ b.event_count_active = Counted(b, "active")
    /\ Lists(b.signalqueue, OnSome(b, "signal"))
    /\ \A p \in Pri : Lists(b.activequeues[p], Active(b, p))

\* Only what has a descriptor or a signal is on the queue of those.
Registered(b) ==
    \A e \in Ev : /\ On(b, e, "inserted") => IsIo(e)
                  /\ On(b, e, "signal") => IsSignal(e)

\* The slots are those of the events inserted, but where epoll_ctl failed.
Slotted(b) ==
    /\ \A fd \in Fds \cup {PairFd}, s \in Sides :
          b.evep[fd][s] # Nil => /\ On(b, b.evep[fd][s], "inserted")
                                 /\ FdOf(b.evep[fd][s]) = fd
                                 /\ s \in Slots(b.evep[fd][s])
    /\ \A e \in Ev, s \in Sides :
          On(b, e, "inserted") /\ s \in Slots(e)
              => b.evep[FdOf(e)][s] = e \/ e \in b.unwatched

Kept(b) == Shape(b) /\ Typed(b) /\ Exact(b)
Sound(b) == Kept(b) /\ Registered(b) /\ Slotted(b)

\* A call about e leaves the flags of the others alone.
Touches(b, c, e) == \A f \in Ev : f # e => c.ev_flags[f] = b.ev_flags[f]

\* And, but for event_active, how often who is to be called; it may put an
\* end to the calls that are being made.
Quiet(b, c) ==
    /\ c.ev_ncalls = b.ev_ncalls /\ c.ev_pncalls = b.ev_pncalls
    /\ c.ncalls = b.ncalls \/ c.ncalls = 0

LEMMA TouchesTwice ==
    ASSUME NEW b, NEW c, NEW d, NEW e, Touches(b, c, e), Touches(c, d, e)
    PROVE  Touches(b, d, e)
  BY DEF Touches

LEMMA QuietTwice ==
    ASSUME NEW b, NEW c, NEW d, Quiet(b, c), Quiet(c, d)
    PROVE  Quiet(b, d)
  BY DEF Quiet

LEMMA EvFinite == IsFiniteSet(Ev)
  BY EventAssumption, FS_AddElement DEF Ev

LEMMA CountedNat == ASSUME NEW b, NEW queue PROVE Counted(b, queue) \in Nat
  <1>1. OnSome(b, queue) \ {ev_signal} \in SUBSET Ev
    BY DEF OnSome
  <1> QED
    BY <1>1, EvFinite, FS_Subset, FS_CardinalityType DEF Counted

\* An event more in a set, or one less.
LEMMA CountMore ==
    ASSUME NEW S, S \subseteq Ev, NEW e \in Ev, e \notin S
    PROVE  Cardinality((S \cup {e}) \ {ev_signal}) = Cardinality(S \ {ev_signal}) + Weight(e)
  <1>1. S \ {ev_signal} \in SUBSET Ev
    OBVIOUS
  <1>2. IsFiniteSet(S \ {ev_signal})
    BY <1>1, EvFinite, FS_Subset
  <1>3. Cardinality(S \ {ev_signal}) \in Nat
    BY <1>2, FS_CardinalityType
  <1>4. CASE e = ev_signal
    <2>1. (S \cup {e}) \ {ev_signal} = S \ {ev_signal}
      BY <1>4
    <2>2. Weight(e) = 0
      BY <1>4 DEF Weight
    <2> QED
      BY <1>3, <2>1, <2>2
  <1>5. CASE e # ev_signal
    <2>1. (S \cup {e}) \ {ev_signal} = (S \ {ev_signal}) \cup {e}
      BY <1>5
    <2>2. e \notin S \ {ev_signal} /\ Weight(e) = 1
      BY <1>5 DEF Weight
    <2> QED
      BY <1>2, <2>1, <2>2, FS_AddElement
  <1> QED
    BY <1>4, <1>5

LEMMA CountLess ==
    ASSUME NEW S, S \subseteq Ev, NEW e \in S
    PROVE  /\ Cardinality((S \ {e}) \ {ev_signal}) = Cardinality(S \ {ev_signal}) - Weight(e)
           /\ Cardinality(S \ {ev_signal}) - Weight(e) \in Nat
  <1> DEFINE T == S \ {e}
  <1>1. T \subseteq Ev /\ e \in Ev /\ e \notin T /\ T \cup {e} = S
    OBVIOUS
  <1>2. T \ {ev_signal} \in SUBSET Ev
    OBVIOUS
  <1>3. Cardinality(T \ {ev_signal}) \in Nat
    BY <1>2, EvFinite, FS_Subset, FS_CardinalityType
  <1>4. Weight(e) \in Nat
    BY DEF Weight
  <1> HIDE DEF T
  <1>5. Cardinality(S \ {ev_signal}) = Cardinality(T \ {ev_signal}) + Weight(e)
    BY <1>1, CountMore
  <1>6. Cardinality(T \ {ev_signal}) = Cardinality(S \ {ev_signal}) - Weight(e)
    BY <1>3, <1>4, <1>5
  <1> QED
    BY <1>3, <1>6 DEF T

----------------------------------------------------------------------------
(* event_queue_remove and event_queue_insert *)

\* The fields no operation on a queue touches.
Apart == {"ev_ncalls", "ev_pncalls", "ev_pri", "evep", "ctl", "unwatched", "evsigmask",
          "needrecalc", "ncalls"}

\* What event_queue_remove makes of each field.
Removed(b, c, e, queue) ==
    /\ Shape(c)
    /\ c.ev_flags = [b.ev_flags EXCEPT ![e] = @ \ {queue}]
    /\ c.event_count = b.event_count - Weight(e)
    /\ c.event_count_active = IF queue = "active" THEN b.event_count_active - Weight(e)
                              ELSE b.event_count_active
    /\ c.activequeues = IF queue = "active"
                        THEN [b.activequeues EXCEPT ![b.ev_pri[e]] = Unlinked(@, e)]
                        ELSE b.activequeues
    /\ c.ev_res = IF queue = "active" THEN [b.ev_res EXCEPT ![e] = {}] ELSE b.ev_res
    /\ c.signalqueue = IF queue = "signal" THEN Unlinked(b.signalqueue, e) ELSE b.signalqueue
    /\ c.left = IF queue = "timeout" THEN [b.left EXCEPT ![e] = 0] ELSE b.left
    /\ \A f \in Apart : c[f] = b[f]

LEMMA RemoveFields ==
    ASSUME NEW b, Shape(b), NEW e, NEW queue \in Queues
    PROVE  Removed(b, event_queue_remove(b, e, queue), e, queue)
  <1> DEFINE c == event_queue_remove(b, e, queue)
  <1>1. CASE queue = "active"
    <2>1. c = [b EXCEPT !.ev_flags[e] = @ \ {queue}, !.event_count = @ - Weight(e),
                        !.event_count_active = @ - Weight(e),
                        !.activequeues[b.ev_pri[e]] = Unlinked(@, e), !.ev_res[e] = {}]
      BY <1>1 DEF event_queue_remove, Shape, Fields
    <2> QED
      BY <1>1, <2>1 DEF Removed, Shape, Fields, Apart
  <1>2. CASE queue = "signal"
    <2>1. c = [b EXCEPT !.ev_flags[e] = @ \ {queue}, !.event_count = @ - Weight(e),
                        !.signalqueue = Unlinked(@, e)]
      BY <1>2 DEF event_queue_remove, Shape, Fields
    <2> QED
      BY <1>2, <2>1 DEF Removed, Shape, Fields, Apart
  <1>3. CASE queue = "timeout"
    <2>1. c = [b EXCEPT !.ev_flags[e] = @ \ {queue}, !.event_count = @ - Weight(e),
                        !.left[e] = 0]
      BY <1>3 DEF event_queue_remove, Shape, Fields
    <2> QED
      BY <1>3, <2>1 DEF Removed, Shape, Fields, Apart
  <1>4. CASE queue = "inserted"
    <2>1. c = [b EXCEPT !.ev_flags[e] = @ \ {queue}, !.event_count = @ - Weight(e)]
      BY <1>4 DEF event_queue_remove, Shape, Fields
    <2> QED
      BY <1>4, <2>1 DEF Removed, Shape, Fields, Apart
  <1> QED
    BY <1>1, <1>2, <1>3, <1>4 DEF Queues

\* What event_queue_insert makes of each field.
Inserted(b, c, e, queue) ==
    /\ Shape(c)
    /\ c.ev_flags = [b.ev_flags EXCEPT ![e] = @ \cup {queue}]
    /\ c.event_count = b.event_count + Weight(e)
    /\ c.event_count_active = IF queue = "active" THEN b.event_count_active + Weight(e)
                              ELSE b.event_count_active
    /\ c.activequeues = IF queue = "active"
                        THEN [b.activequeues EXCEPT ![b.ev_pri[e]] = Append(@, e)]
                        ELSE b.activequeues
    /\ c.signalqueue = IF queue = "signal" THEN Append(b.signalqueue, e) ELSE b.signalqueue
    /\ c.ev_res = b.ev_res /\ c.left = b.left
    /\ \A f \in Apart : c[f] = b[f]

LEMMA InsertFields ==
    ASSUME NEW b, Shape(b), NEW e, NEW queue \in Queues,
           queue = "active" => ~On(b, e, "active")
    PROVE  Inserted(b, event_queue_insert(b, e, queue), e, queue)
  <1> DEFINE c == event_queue_insert(b, e, queue)
  <1>1. CASE queue = "active"
    <2>1. c = [b EXCEPT !.ev_flags[e] = @ \cup {queue}, !.event_count = @ + Weight(e),
                        !.event_count_active = @ + Weight(e),
                        !.activequeues[b.ev_pri[e]] = Append(@, e)]
      BY <1>1 DEF event_queue_insert, Shape, Fields
    <2> QED
      BY <1>1, <2>1 DEF Inserted, Shape, Fields, Apart
  <1>2. CASE queue = "signal"
    <2>1. c = [b EXCEPT !.ev_flags[e] = @ \cup {queue}, !.event_count = @ + Weight(e),
                        !.signalqueue = Append(@, e)]
      BY <1>2 DEF event_queue_insert, Shape, Fields
    <2> QED
      BY <1>2, <2>1 DEF Inserted, Shape, Fields, Apart
  <1>3. CASE queue \notin {"active", "signal"}
    <2>1. c = [b EXCEPT !.ev_flags[e] = @ \cup {queue}, !.event_count = @ + Weight(e)]
      BY <1>3 DEF event_queue_insert, Shape, Fields
    <2> QED
      BY <1>3, <2>1 DEF Inserted, Shape, Fields, Apart
  <1> QED
    BY <1>1, <1>2, <1>3 DEF Queues

\* Who is on a queue once e's flag for one of them is gone.
LEMMA OnLess ==
    ASSUME NEW b, b.ev_flags \in [Ev -> SUBSET Queues], NEW e \in Ev, NEW queue \in Queues,
           NEW c, c.ev_flags = [b.ev_flags EXCEPT ![e] = @ \ {queue}]
    PROVE  /\ OnSome(c, queue) = OnSome(b, queue) \ {e}
           /\ \A q \in Queues : q # queue => OnSome(c, q) = OnSome(b, q)
           /\ c.ev_flags \in [Ev -> SUBSET Queues]
           /\ \A f \in Ev : f # e => c.ev_flags[f] = b.ev_flags[f]
           /\ c.ev_flags[e] = b.ev_flags[e] \ {queue}
  <1>1. /\ c.ev_flags[e] = b.ev_flags[e] \ {queue}
        /\ \A f \in Ev : f # e => c.ev_flags[f] = b.ev_flags[f]
        /\ c.ev_flags \in [Ev -> SUBSET Queues]
    OBVIOUS
  <1>2. OnSome(c, queue) = OnSome(b, queue) \ {e}
    BY <1>1 DEF OnSome, On
  <1>3. \A q \in Queues : q # queue => OnSome(c, q) = OnSome(b, q)
    <2> TAKE q \in Queues
    <2> HAVE q # queue
    <2>1. \A f \in Ev : q \in c.ev_flags[f] <=> q \in b.ev_flags[f]
      BY <1>1
    <2> QED
      BY <2>1 DEF OnSome, On
  <1> QED
    BY <1>1, <1>2, <1>3

LEMMA OnMore ==
    ASSUME NEW b, b.ev_flags \in [Ev -> SUBSET Queues], NEW e \in Ev, NEW queue \in Queues,
           NEW c, c.ev_flags = [b.ev_flags EXCEPT ![e] = @ \cup {queue}]
    PROVE  /\ OnSome(c, queue) = OnSome(b, queue) \cup {e}
           /\ \A q \in Queues : q # queue => OnSome(c, q) = OnSome(b, q)
           /\ c.ev_flags \in [Ev -> SUBSET Queues]
           /\ \A f \in Ev : f # e => c.ev_flags[f] = b.ev_flags[f]
           /\ c.ev_flags[e] = b.ev_flags[e] \cup {queue}
  <1>1. /\ c.ev_flags[e] = b.ev_flags[e] \cup {queue}
        /\ \A f \in Ev : f # e => c.ev_flags[f] = b.ev_flags[f]
        /\ c.ev_flags \in [Ev -> SUBSET Queues]
    OBVIOUS
  <1>2. OnSome(c, queue) = OnSome(b, queue) \cup {e}
    BY <1>1 DEF OnSome, On
  <1>3. \A q \in Queues : q # queue => OnSome(c, q) = OnSome(b, q)
    <2> TAKE q \in Queues
    <2> HAVE q # queue
    <2>1. \A f \in Ev : q \in c.ev_flags[f] <=> q \in b.ev_flags[f]
      BY <1>1
    <2> QED
      BY <2>1 DEF OnSome, On
  <1> QED
    BY <1>1, <1>2, <1>3

\* The sum of the four counts moves with one of them.
LEMMA SumMoves ==
    ASSUME NEW b, NEW c, NEW queue \in Queues, NEW d \in Int,
           Counted(c, queue) = Counted(b, queue) + d,
           \A q \in Queues : q # queue => Counted(c, q) = Counted(b, q)
    PROVE  Counted(c, "timeout") + Counted(c, "inserted") + Counted(c, "signal")
             + Counted(c, "active")
           = Counted(b, "timeout") + Counted(b, "inserted") + Counted(b, "signal")
             + Counted(b, "active") + d
  <1>1. \A q \in Queues : Counted(b, q) \in Nat
    BY CountedNat
  <1>2. CASE queue = "timeout"
    BY <1>1, <1>2 DEF Queues
  <1>3. CASE queue = "inserted"
    BY <1>1, <1>3 DEF Queues
  <1>4. CASE queue = "signal"
    BY <1>1, <1>4 DEF Queues
  <1>5. CASE queue = "active"
    BY <1>1, <1>5 DEF Queues
  <1> QED
    BY <1>2, <1>3, <1>4, <1>5 DEF Queues

LEMMA RemoveKept ==
    ASSUME NEW b, Kept(b), NEW e \in Ev, NEW queue \in Queues, On(b, e, queue),
           NEW c, Removed(b, c, e, queue)
    PROVE  Kept(c) /\ Touches(b, c, e) /\ Quiet(b, c)
  <1>1. Shape(b) /\ Typed(b) /\ Exact(b)
    BY DEF Kept
  <1>2. /\ Shape(c)
        /\ c.ev_flags = [b.ev_flags EXCEPT ![e] = @ \ {queue}]
        /\ c.event_count = b.event_count - Weight(e)
        /\ c.event_count_active = IF queue = "active" THEN b.event_count_active - Weight(e)
                                  ELSE b.event_count_active
        /\ c.activequeues = IF queue = "active"
                            THEN [b.activequeues EXCEPT ![b.ev_pri[e]] = Unlinked(@, e)]
                            ELSE b.activequeues
        /\ c.ev_res = IF queue = "active" THEN [b.ev_res EXCEPT ![e] = {}] ELSE b.ev_res
        /\ c.signalqueue = IF queue = "signal" THEN Unlinked(b.signalqueue, e)
                           ELSE b.signalqueue
        /\ c.left = IF queue = "timeout" THEN [b.left EXCEPT ![e] = 0] ELSE b.left
        /\ \A f \in Apart : c[f] = b[f]
    BY Zenon DEF Removed
  <1>3. /\ c.ev_ncalls = b.ev_ncalls /\ c.ev_pncalls = b.ev_pncalls /\ c.ev_pri = b.ev_pri
        /\ c.evep = b.evep /\ c.ncalls = b.ncalls
    BY <1>2 DEF Apart
  <1>4. b.ev_flags \in [Ev -> SUBSET Queues]
    BY <1>1 DEF Typed
  <1>5. /\ OnSome(c, queue) = OnSome(b, queue) \ {e}
        /\ \A q \in Queues : q # queue => OnSome(c, q) = OnSome(b, q)
        /\ c.ev_flags \in [Ev -> SUBSET Queues]
        /\ \A f \in Ev : f # e => c.ev_flags[f] = b.ev_flags[f]
    BY <1>2, <1>4, OnLess
  <1>6. e \in OnSome(b, queue) /\ OnSome(b, queue) \subseteq Ev
    BY DEF OnSome
  <1>7. /\ Counted(c, queue) = Counted(b, queue) - Weight(e)
        /\ \A q \in Queues : q # queue => Counted(c, q) = Counted(b, q)
    BY <1>5, <1>6, CountLess DEF Counted
  <1>8. Weight(e) \in Nat /\ \A q : Counted(b, q) \in Nat
    BY CountedNat DEF Weight
  <1>9. c.event_count = Counted(c, "timeout") + Counted(c, "inserted")
                          + Counted(c, "signal") + Counted(c, "active")
    <2> DEFINE d == 0 - Weight(e)
    <2>1. d \in Int /\ Counted(c, queue) = Counted(b, queue) + d
      BY <1>7, <1>8
    <2>2. c.event_count = b.event_count + d
      <3>1. b.event_count \in Nat
        BY <1>1, <1>8 DEF Exact
      <3> QED
        BY <1>2, <1>8, <3>1
    <2> HIDE DEF d
    <2> QED
      BY <1>1, <1>7, <2>1, <2>2, SumMoves DEF Exact
  <1>10. c.event_count_active = Counted(c, "active")
    BY <1>1, <1>2, <1>7 DEF Exact, Queues
  <1>11. Lists(c.signalqueue, OnSome(c, "signal"))
    BY <1>1, <1>2, <1>5, <1>6, ListsUnlinked DEF Exact, Queues
  <1>12. b.ev_pri[e] \in Pri /\ b.activequeues \in [Pri -> Seq(Ev)]
    BY <1>1 DEF Typed
  <1>13. \A p \in Pri : Lists(c.activequeues[p], Active(c, p))
    <2> TAKE p \in Pri
    <2>1. Lists(b.activequeues[p], Active(b, p))
      BY <1>1 DEF Exact
    <2>2. CASE queue = "active"
      <3>1. Active(c, p) = Active(b, p) \ {e} /\ (e \in Active(b, p) <=> p = b.ev_pri[e])
        BY <1>3, <1>5, <1>6, <2>2 DEF Active
      <3>2. c.activequeues[p] = IF p = b.ev_pri[e] THEN Unlinked(b.activequeues[p], e)
                                ELSE b.activequeues[p]
        BY <1>2, <1>12, <2>2
      <3>3. CASE p = b.ev_pri[e]
        BY <2>1, <3>1, <3>2, <3>3, ListsUnlinked
      <3>4. CASE p # b.ev_pri[e]
        <4>1. Active(c, p) = Active(b, p)
          BY <3>1, <3>4
        <4> QED
          BY <2>1, <3>2, <3>4, <4>1
      <3> QED
        BY <3>3, <3>4
    <2>3. CASE queue # "active"
      <3>1. Active(c, p) = Active(b, p)
        BY <1>3, <1>5, <2>3 DEF Active, Queues
      <3> QED
        BY <1>2, <2>1, <2>3, <3>1
    <2> QED
      BY <2>2, <2>3
  <1>14. Typed(c)
    <2>1. c.ev_res \in [Ev -> SUBSET Results]
      BY <1>1, <1>2 DEF Typed
    <2>2. c.left \in [Ev -> 0 .. MaxTv]
      BY <1>1, <1>2, EventAssumption DEF Typed
    <2>3. c.signalqueue \in Seq(Ev)
      BY <1>11 DEF Lists
    <2>4. c.activequeues \in [Pri -> Seq(Ev)]
      <3>1. c.activequeues = [p \in Pri |-> c.activequeues[p]]
        BY <1>2, <1>12
      <3>2. \A p \in Pri : c.activequeues[p] \in Seq(Ev)
        BY <1>13 DEF Lists
      <3> QED
        BY <3>1, <3>2
    <2> QED
      BY <1>1, <1>3, <1>5, <2>1, <2>2, <2>3, <2>4 DEF Typed
  <1>15. Touches(b, c, e) /\ Quiet(b, c)
    BY <1>3, <1>5 DEF Touches, Quiet
  <1> QED
    BY <1>2, <1>9, <1>10, <1>11, <1>13, <1>14, <1>15 DEF Kept, Exact

LEMMA InsertKept ==
    ASSUME NEW b, Kept(b), NEW e \in Ev, NEW queue \in Queues, ~On(b, e, queue),
           NEW c, Inserted(b, c, e, queue)
    PROVE  Kept(c) /\ Touches(b, c, e) /\ Quiet(b, c)
  <1>1. Shape(b) /\ Typed(b) /\ Exact(b)
    BY DEF Kept
  <1>2. /\ Shape(c)
        /\ c.ev_flags = [b.ev_flags EXCEPT ![e] = @ \cup {queue}]
        /\ c.event_count = b.event_count + Weight(e)
        /\ c.event_count_active = IF queue = "active" THEN b.event_count_active + Weight(e)
                                  ELSE b.event_count_active
        /\ c.activequeues = IF queue = "active"
                            THEN [b.activequeues EXCEPT ![b.ev_pri[e]] = Append(@, e)]
                            ELSE b.activequeues
        /\ c.signalqueue = IF queue = "signal" THEN Append(b.signalqueue, e) ELSE b.signalqueue
        /\ c.ev_res = b.ev_res /\ c.left = b.left
        /\ \A f \in Apart : c[f] = b[f]
    BY Zenon DEF Inserted
  <1>3. /\ c.ev_ncalls = b.ev_ncalls /\ c.ev_pncalls = b.ev_pncalls /\ c.ev_pri = b.ev_pri
        /\ c.evep = b.evep /\ c.ncalls = b.ncalls
    BY <1>2 DEF Apart
  <1>4. b.ev_flags \in [Ev -> SUBSET Queues]
    BY <1>1 DEF Typed
  <1>5. /\ OnSome(c, queue) = OnSome(b, queue) \cup {e}
        /\ \A q \in Queues : q # queue => OnSome(c, q) = OnSome(b, q)
        /\ c.ev_flags \in [Ev -> SUBSET Queues]
        /\ \A f \in Ev : f # e => c.ev_flags[f] = b.ev_flags[f]
    BY <1>2, <1>4, OnMore
  <1>6. e \notin OnSome(b, queue) /\ OnSome(b, queue) \subseteq Ev
    BY DEF OnSome
  <1>7. /\ Counted(c, queue) = Counted(b, queue) + Weight(e)
        /\ \A q \in Queues : q # queue => Counted(c, q) = Counted(b, q)
    BY <1>5, <1>6, CountMore DEF Counted
  <1>8. Weight(e) \in Nat /\ \A q : Counted(b, q) \in Nat
    BY CountedNat DEF Weight
  <1>9. c.event_count = Counted(c, "timeout") + Counted(c, "inserted")
                          + Counted(c, "signal") + Counted(c, "active")
    BY <1>1, <1>2, <1>7, <1>8, SumMoves DEF Exact
  <1>10. c.event_count_active = Counted(c, "active")
    BY <1>1, <1>2, <1>7 DEF Exact, Queues
  <1>11. Lists(c.signalqueue, OnSome(c, "signal"))
    BY <1>1, <1>2, <1>5, <1>6, ListsAppend DEF Exact, Queues
  <1>12. b.ev_pri[e] \in Pri /\ b.activequeues \in [Pri -> Seq(Ev)]
    BY <1>1 DEF Typed
  <1>13. \A p \in Pri : Lists(c.activequeues[p], Active(c, p))
    <2> TAKE p \in Pri
    <2>1. Lists(b.activequeues[p], Active(b, p))
      BY <1>1 DEF Exact
    <2>2. CASE queue = "active"
      <3>1. Active(c, p) = IF p = b.ev_pri[e] THEN Active(b, p) \cup {e} ELSE Active(b, p)
        BY <1>3, <1>5, <1>6, <2>2 DEF Active
      <3>2. c.activequeues[p] = IF p = b.ev_pri[e] THEN Append(b.activequeues[p], e)
                                ELSE b.activequeues[p]
        BY <1>2, <1>12, <2>2
      <3>3. CASE p = b.ev_pri[e]
        <4>1. e \notin Active(b, p)
          BY <1>6, <2>2 DEF Active
        <4> QED
          BY <2>1, <3>1, <3>2, <3>3, <4>1, ListsAppend
      <3>4. CASE p # b.ev_pri[e]
        <4>1. Active(c, p) = Active(b, p)
          BY <3>1, <3>4
        <4> QED
          BY <2>1, <3>2, <3>4, <4>1
      <3> QED
        BY <3>3, <3>4
    <2>3. CASE queue # "active"
      <3>1. Active(c, p) = Active(b, p)
        BY <1>3, <1>5, <2>3 DEF Active, Queues
      <3> QED
        BY <1>2, <2>1, <2>3, <3>1
    <2> QED
      BY <2>2, <2>3
  <1>14. Typed(c)
    <2>1. c.ev_res \in [Ev -> SUBSET Results]
      BY <1>1, <1>2 DEF Typed
    <2>2. c.left \in [Ev -> 0 .. MaxTv]
      BY <1>1, <1>2, EventAssumption DEF Typed
    <2>3. c.signalqueue \in Seq(Ev)
      BY <1>11 DEF Lists
    <2>4. c.activequeues \in [Pri -> Seq(Ev)]
      <3>1. c.activequeues = [p \in Pri |-> c.activequeues[p]]
        BY <1>2, <1>12
      <3>2. \A p \in Pri : c.activequeues[p] \in Seq(Ev)
        BY <1>13 DEF Lists
      <3> QED
        BY <3>1, <3>2
    <2> QED
      BY <1>1, <1>3, <1>5, <2>1, <2>2, <2>3, <2>4 DEF Typed
  <1>15. Touches(b, c, e) /\ Quiet(b, c)
    BY <1>3, <1>5 DEF Touches, Quiet
  <1> QED
    BY <1>2, <1>9, <1>10, <1>11, <1>13, <1>14, <1>15 DEF Kept, Exact

----------------------------------------------------------------------------
(* Calls that leave the slots alone *)

\* The fields Exact, Registered and Slotted speak of.
Spoken == {"ev_flags", "ev_pri", "event_count", "event_count_active", "activequeues",
           "signalqueue", "evep", "unwatched"}
Same(b, c) == \A f \in Spoken : c[f] = b[f]

LEMMA SameSound ==
    ASSUME NEW b, Sound(b), NEW c, Same(b, c), Shape(c), Typed(c)
    PROVE  Sound(c)
  <1>1. /\ c.ev_flags = b.ev_flags /\ c.ev_pri = b.ev_pri /\ c.event_count = b.event_count
        /\ c.event_count_active = b.event_count_active /\ c.activequeues = b.activequeues
        /\ c.signalqueue = b.signalqueue /\ c.evep = b.evep /\ c.unwatched = b.unwatched
    BY DEF Same, Spoken
  <1>2. \A q : OnSome(c, q) = OnSome(b, q)
    BY <1>1 DEF OnSome, On
  <1>3. \A q : Counted(c, q) = Counted(b, q)
    BY <1>2 DEF Counted
  <1>4. \A p : Active(c, p) = Active(b, p)
    BY <1>1, <1>2 DEF Active
  <1>5. Exact(c)
    BY <1>1, <1>2, <1>3, <1>4 DEF Sound, Kept, Exact
  <1>6. \A e, q : On(c, e, q) <=> On(b, e, q)
    BY <1>1 DEF On
  <1>7. Registered(c) /\ Slotted(c)
    BY <1>1, <1>6 DEF Sound, Registered, Slotted
  <1> QED
    BY <1>5, <1>7 DEF Sound, Kept

\* A queue that is not the kernel's.
LEMMA RemoveSound ==
    ASSUME NEW b, Sound(b), NEW e \in Ev, NEW queue \in Queues, queue # "inserted",
           On(b, e, queue), NEW c, Removed(b, c, e, queue)
    PROVE  /\ Sound(c) /\ Touches(b, c, e) /\ Quiet(b, c)
           /\ c.ev_flags[e] = b.ev_flags[e] \ {queue}
           /\ c.ev_pri = b.ev_pri /\ c.ncalls = b.ncalls
  <1>1. Kept(c) /\ Touches(b, c, e) /\ Quiet(b, c)
    BY RemoveKept DEF Sound
  <1>2. c.evep = b.evep /\ c.unwatched = b.unwatched /\ c.ev_pri = b.ev_pri
        /\ c.ncalls = b.ncalls
    BY DEF Removed, Apart
  <1>3. b.ev_flags \in [Ev -> SUBSET Queues]
    BY DEF Sound, Kept, Typed
  <1>4. c.ev_flags[e] = b.ev_flags[e] \ {queue}
    BY <1>3 DEF Removed
  <1>5. \A f \in Ev : /\ On(c, f, "inserted") <=> On(b, f, "inserted")
                      /\ On(c, f, "signal") => On(b, f, "signal")
    BY <1>1, <1>4 DEF Touches, On
  <1>6. Registered(c)
    BY <1>5 DEF Sound, Registered
  <1>7. Slotted(c)
    <2>1. \A fd \in Fds \cup {PairFd}, s \in Sides : b.evep[fd][s] \in Ev \cup {Nil}
      BY DEF Sound, Kept, Typed
    <2> QED
      BY <1>2, <1>5, <2>1 DEF Sound, Slotted
  <1> QED
    BY <1>1, <1>2, <1>4, <1>6, <1>7 DEF Sound

LEMMA InsertSound ==
    ASSUME NEW b, Sound(b), NEW e \in Ev, NEW queue \in Queues, queue # "inserted",
           ~On(b, e, queue), queue = "signal" => IsSignal(e),
           NEW c, Inserted(b, c, e, queue)
    PROVE  /\ Sound(c) /\ Touches(b, c, e) /\ Quiet(b, c)
           /\ c.ev_flags[e] = b.ev_flags[e] \cup {queue}
           /\ c.ev_pri = b.ev_pri /\ c.ncalls = b.ncalls
  <1>1. Kept(c) /\ Touches(b, c, e) /\ Quiet(b, c)
    BY InsertKept DEF Sound
  <1>2. c.evep = b.evep /\ c.unwatched = b.unwatched /\ c.ev_pri = b.ev_pri
        /\ c.ncalls = b.ncalls
    BY DEF Inserted, Apart
  <1>3. b.ev_flags \in [Ev -> SUBSET Queues]
    BY DEF Sound, Kept, Typed
  <1>4. c.ev_flags[e] = b.ev_flags[e] \cup {queue}
    BY <1>3 DEF Inserted
  <1>5. \A f \in Ev : /\ On(c, f, "inserted") <=> On(b, f, "inserted")
                      /\ On(c, f, "signal") => On(b, f, "signal") \/ IsSignal(f)
    BY <1>1, <1>4 DEF Touches, On
  <1>6. Registered(c)
    BY <1>5 DEF Sound, Registered
  <1>7. Slotted(c)
    <2>1. \A fd \in Fds \cup {PairFd}, s \in Sides : b.evep[fd][s] \in Ev \cup {Nil}
      BY DEF Sound, Kept, Typed
    <2> QED
      BY <1>2, <1>5, <2>1 DEF Sound, Slotted
  <1> QED
    BY <1>1, <1>2, <1>4, <1>6, <1>7 DEF Sound

\* AbortLoop, and other changes of the number of calls left.
LEMMA AbortSound ==
    ASSUME NEW b, Sound(b), NEW e
    PROVE  /\ Sound(AbortLoop(b, e)) /\ Touches(b, AbortLoop(b, e), e)
           /\ Quiet(b, AbortLoop(b, e))
           /\ AbortLoop(b, e).ev_flags = b.ev_flags /\ AbortLoop(b, e).ev_pri = b.ev_pri
           /\ b.ev_ncalls[e] # 0 /\ b.ev_pncalls[e] = "frame" => AbortLoop(b, e).ncalls = 0
  <1> DEFINE c == [b EXCEPT !.ncalls = 0]
  <1>1. Shape(b) /\ Typed(b)
    BY DEF Sound, Kept
  <1>2. Shape(c) /\ c.ncalls = 0 /\ \A f \in Fields : f # "ncalls" => c[f] = b[f]
    BY <1>1 DEF Shape, Fields
  <1>3. /\ c.ev_flags = b.ev_flags /\ c.ev_res = b.ev_res /\ c.ev_ncalls = b.ev_ncalls
        /\ c.ev_pncalls = b.ev_pncalls /\ c.ev_pri = b.ev_pri /\ c.left = b.left
        /\ c.activequeues = b.activequeues /\ c.signalqueue = b.signalqueue
        /\ c.evep = b.evep
    BY <1>2 DEF Fields
  <1>4. Typed(c) /\ Same(b, c)
    BY <1>1, <1>2, <1>3 DEF Typed, Same, Spoken, Fields
  <1>5. AbortLoop(b, e) = IF b.ev_ncalls[e] # 0 /\ b.ev_pncalls[e] = "frame" THEN c ELSE b
    BY DEF AbortLoop
  <1> HIDE DEF c
  <1>6. Sound(c) /\ Touches(b, c, e) /\ Quiet(b, c)
    BY <1>2, <1>3, <1>4, SameSound DEF Touches, Quiet
  <1> QED
    BY <1>2, <1>3, <1>5, <1>6 DEF Touches, Quiet

----------------------------------------------------------------------------
(* The slots of epoll.c *)

LEMMA IoEvent ==
    ASSUME NEW e \in Ev, IsIo(e)
    PROVE  ~IsSignal(e) /\ FdOf(e) \in Fds \cup {PairFd}
  <1>1. CASE e = ev_signal
    <2>1. EventsOf(e) = {"read"} /\ FdOf(e) = PairFd
      BY <1>1 DEF EventsOf, FdOf
    <2> QED
      BY <2>1 DEF IsSignal
  <1>2. CASE e # ev_signal
    <2>1. e \in User /\ FdOf(e) = ev_fd[e]
      BY <1>2 DEF Ev, FdOf
    <2> QED
      BY <2>1, EventAssumption
  <1> QED
    BY <1>1, <1>2

\* Two events never want the same slot.
LEMMA SlotsApart ==
    ASSUME NEW e \in Ev, NEW f \in Ev, e # f, IsIo(e), IsIo(f), FdOf(e) = FdOf(f),
           NEW s \in Slots(e)
    PROVE  s \notin Slots(f)
  <1>1. e # ev_signal /\ f # ev_signal
    <2>1. \A g \in User : IsIo(g) => ev_fd[g] # PairFd
      BY EventAssumption
    <2>2. \A g \in Ev : g # ev_signal => g \in User /\ FdOf(g) = ev_fd[g]
      BY DEF Ev, FdOf
    <2>3. FdOf(ev_signal) = PairFd
      BY DEF FdOf
    <2> QED
      BY <2>1, <2>2, <2>3
  <1>2. e \in User /\ f \in User /\ ev_fd[e] = ev_fd[f]
    BY <1>1 DEF Ev, FdOf
  <1>3. EventsOf(e) \cap EventsOf(f) \subseteq {"persist"}
    BY <1>2, EventAssumption
  <1>4. ~("read" \in EventsOf(e) /\ "read" \in EventsOf(f))
        /\ ~("write" \in EventsOf(e) /\ "write" \in EventsOf(f))
    BY <1>3
  <1>5. /\ "evread" \in Slots(e) => "read" \in EventsOf(e)
        /\ "evread" \in Slots(f) => "read" \in EventsOf(f)
        /\ "evwrite" \in Slots(e) => "write" \in EventsOf(e)
        /\ "evwrite" \in Slots(f) => "write" \in EventsOf(f)
    BY DEF Slots
  <1>6. s \in Slots(e) /\ (s = "evread" \/ s = "evwrite")
    BY DEF Slots
  <1> QED
    BY <1>4, <1>5, <1>6, Zenon

LEMMA SlotsSides == ASSUME NEW e PROVE Slots(e) \subseteq Sides
  BY DEF Slots, Sides

\* A base whose evep and unwatched alone have changed keeps what else it kept.
LEMMA SlotsKept ==
    ASSUME NEW b, Kept(b), NEW c, Shape(c),
           \A f \in Fields \ {"evep", "unwatched"} : c[f] = b[f],
           c.evep \in [Fds \cup {PairFd} -> [Sides -> Ev \cup {Nil}]]
    PROVE  Kept(c) /\ (Registered(b) => Registered(c))
  <1>1. /\ c.ev_flags = b.ev_flags /\ c.ev_res = b.ev_res /\ c.ev_ncalls = b.ev_ncalls
        /\ c.ev_pncalls = b.ev_pncalls /\ c.ev_pri = b.ev_pri /\ c.left = b.left
        /\ c.activequeues = b.activequeues /\ c.signalqueue = b.signalqueue
        /\ c.ncalls = b.ncalls /\ c.event_count = b.event_count
        /\ c.event_count_active = b.event_count_active
    BY DEF Fields
  <1>2. \A q : OnSome(c, q) = OnSome(b, q)
    BY <1>1 DEF OnSome, On
  <1>3. \A q : Counted(c, q) = Counted(b, q)
    BY <1>2 DEF Counted
  <1>4. \A p : Active(c, p) = Active(b, p)
    BY <1>1, <1>2 DEF Active
  <1>5. Exact(c)
    BY <1>1, <1>2, <1>3, <1>4 DEF Kept, Exact
  <1>6. Typed(c)
    BY <1>1 DEF Kept, Typed
  <1>7. Registered(b) => Registered(c)
    BY <1>1 DEF Registered, On
  <1> QED
    BY <1>5, <1>6, <1>7 DEF Kept

\* event_add of an event with a descriptor: it gets its slots, or epoll_ctl fails.
LEMMA WatchSound ==
    ASSUME NEW b, Sound(b), NEW e \in Ev, IsIo(e), ~On(b, e, "inserted"),
           NEW c, Inserted(b, c, e, "inserted")
    PROVE  /\ Sound(epoll_add(c, e)) /\ Touches(b, epoll_add(c, e), e)
           /\ Quiet(b, epoll_add(c, e))
  <1> DEFINE d == epoll_add(c, e)
             slots == [s \in {"evread", "evwrite"} |->
                          IF s \in Slots(e) THEN e ELSE c.evep[FdOf(e)][s]]
  <1>0. "inserted" \in Queues
    BY DEF Queues
  <1>1. Kept(c) /\ Touches(b, c, e) /\ Quiet(b, c)
    BY <1>0, InsertKept DEF Sound
  <1>2. c.evep = b.evep /\ c.unwatched = b.unwatched
    BY DEF Inserted, Apart
  <1>3. b.ev_flags \in [Ev -> SUBSET Queues]
    BY DEF Sound, Kept, Typed
  <1>4. c.ev_flags[e] = b.ev_flags[e] \cup {"inserted"}
    BY <1>3 DEF Inserted
  <1>5. \A f \in Ev : /\ On(c, f, "inserted") <=> On(b, f, "inserted") \/ f = e
                      /\ On(c, f, "signal") <=> On(b, f, "signal")
    BY <1>1, <1>4 DEF Touches, On
  <1>6. Registered(c)
    BY <1>5 DEF Sound, Registered
  <1>7. ~IsSignal(e) /\ FdOf(e) \in Fds \cup {PairFd}
    BY IoEvent
  <1>8. Shape(c) /\ c.evep \in [Fds \cup {PairFd} -> [Sides -> Ev \cup {Nil}]]
    BY <1>1 DEF Kept, Typed
  <1>9. d = IF c.ctl THEN [c EXCEPT !.evep[FdOf(e)] = slots]
            ELSE [c EXCEPT !.unwatched = @ \cup {e}]
    BY <1>7 DEF epoll_add
  <1> HIDE DEF slots
  <1>10. Shape(d) /\ \A f \in Fields \ {"evep", "unwatched"} : d[f] = c[f]
    <2>1. CASE c.ctl
      BY <1>8, <1>9, <2>1 DEF Shape, Fields
    <2>2. CASE ~c.ctl
      BY <1>8, <1>9, <2>2 DEF Shape, Fields
    <2> QED
      BY <2>1, <2>2
  <1>11. \/ d.evep = [c.evep EXCEPT ![FdOf(e)] = slots]
         \/ d.evep = c.evep /\ d.unwatched = c.unwatched \cup {e}
    BY <1>8, <1>9 DEF Shape, Fields
  <1>12. c.unwatched \subseteq d.unwatched
    BY <1>8, <1>9 DEF Shape, Fields
  <1> HIDE DEF d
  <1>13. /\ slots \in [Sides -> Ev \cup {Nil}]
         /\ \A s \in Sides : slots[s] = IF s \in Slots(e) THEN e ELSE b.evep[FdOf(e)][s]
    BY <1>2, <1>7, <1>8 DEF slots, Sides
  <1>14. d.evep \in [Fds \cup {PairFd} -> [Sides -> Ev \cup {Nil}]]
    BY <1>8, <1>11, <1>13
  <1>15. Kept(d) /\ Registered(d)
    BY <1>1, <1>6, <1>10, <1>14, SlotsKept
  <1>16. d.ev_flags = c.ev_flags /\ d.ev_ncalls = c.ev_ncalls /\ d.ev_pncalls = c.ev_pncalls
         /\ d.ncalls = c.ncalls
    BY <1>10 DEF Fields
  <1>17. \A f \in Ev : On(d, f, "inserted") <=> On(b, f, "inserted") \/ f = e
    BY <1>5, <1>16 DEF On
  <1>18. \A fd \in Fds \cup {PairFd}, s \in Sides :
            d.evep[fd][s] = b.evep[fd][s] \/ (d.evep[fd][s] = e /\ FdOf(e) = fd /\ s \in Slots(e))
    BY <1>2, <1>7, <1>8, <1>11, <1>13
  <1>19. \A fd \in Fds \cup {PairFd}, s \in Sides : b.evep[fd][s] \in Ev \cup {Nil}
    BY DEF Sound, Kept, Typed
  <1>20. \A fd \in Fds \cup {PairFd}, s \in Sides :
            d.evep[fd][s] # Nil => /\ On(d, d.evep[fd][s], "inserted")
                                   /\ FdOf(d.evep[fd][s]) = fd
                                   /\ s \in Slots(d.evep[fd][s])
    <2> TAKE fd \in Fds \cup {PairFd}, s \in Sides
    <2>1. CASE d.evep[fd][s] = b.evep[fd][s]
      BY <1>17, <1>19, <2>1 DEF Sound, Slotted
    <2>2. CASE d.evep[fd][s] = e /\ FdOf(e) = fd /\ s \in Slots(e)
      BY <1>17, <2>2
    <2> QED
      BY <1>18, <2>1, <2>2
  <1>21. ASSUME NEW f \in Ev, NEW s \in Sides, On(d, f, "inserted"), s \in Slots(f)
         PROVE  d.evep[FdOf(f)][s] = f \/ f \in d.unwatched
    <2>1. CASE f = e
      BY <1>7, <1>8, <1>11, <1>13, <1>21, <2>1
    <2>2. CASE f # e
      <3>1. On(b, f, "inserted") /\ IsIo(f)
        BY <1>17, <1>21, <2>2 DEF Sound, Registered
      <3>2. b.evep[FdOf(f)][s] = f \/ f \in b.unwatched
        BY <1>21, <3>1 DEF Sound, Slotted
      <3>3. FdOf(f) \in Fds \cup {PairFd}
        BY <3>1, IoEvent
      <3>4. ~(FdOf(e) = FdOf(f) /\ s \in Slots(e))
        BY <1>21, <2>2, <3>1, SlotsApart
      <3> QED
        BY <1>2, <1>12, <1>18, <3>2, <3>3, <3>4
    <2> QED
      BY <2>1, <2>2
  <1>22. Slotted(d)
    BY <1>20, <1>21 DEF Slotted
  <1>23. Touches(b, d, e) /\ Quiet(b, d)
    BY <1>1, <1>16 DEF Touches, Quiet
  <1> QED
    BY <1>15, <1>22, <1>23 DEF Sound, d

\* event_del of such an event: its slots are given back, those of the other
\* direction are not.
LEMMA UnwatchSound ==
    ASSUME NEW b, Sound(b), NEW e \in Ev, On(b, e, "inserted"),
           NEW c, Removed(b, c, e, "inserted")
    PROVE  /\ Sound(epoll_del(c, e)) /\ Touches(b, epoll_del(c, e), e)
           /\ Quiet(b, epoll_del(c, e)) /\ epoll_del(c, e).ncalls = b.ncalls
           /\ epoll_del(c, e).ev_flags[e] = b.ev_flags[e] \ {"inserted"}
  <1> DEFINE d == epoll_del(c, e)
             slots == [s \in {"evread", "evwrite"} |->
                          IF s \in Slots(e) THEN Nil ELSE c.evep[FdOf(e)][s]]
  <1>0. "inserted" \in Queues /\ IsIo(e)
    BY DEF Queues, Sound, Registered
  <1>1. Kept(c) /\ Touches(b, c, e) /\ Quiet(b, c)
    BY <1>0, RemoveKept DEF Sound
  <1>2. c.evep = b.evep /\ c.unwatched = b.unwatched /\ c.ncalls = b.ncalls
    BY DEF Removed, Apart
  <1>3. b.ev_flags \in [Ev -> SUBSET Queues]
    BY DEF Sound, Kept, Typed
  <1>4. c.ev_flags[e] = b.ev_flags[e] \ {"inserted"}
    BY <1>3 DEF Removed
  <1>5. \A f \in Ev : /\ On(c, f, "inserted") <=> On(b, f, "inserted") /\ f # e
                      /\ On(c, f, "signal") <=> On(b, f, "signal")
    BY <1>1, <1>4 DEF Touches, On
  <1>6. Registered(c)
    BY <1>5 DEF Sound, Registered
  <1>7. ~IsSignal(e) /\ FdOf(e) \in Fds \cup {PairFd}
    BY <1>0, IoEvent
  <1>8. Shape(c) /\ c.evep \in [Fds \cup {PairFd} -> [Sides -> Ev \cup {Nil}]]
    BY <1>1 DEF Kept, Typed
  <1>9. d = [c EXCEPT !.unwatched = @ \ {e}, !.evep[FdOf(e)] = slots]
    BY <1>7 DEF epoll_del
  <1> HIDE DEF slots
  <1>10. Shape(d) /\ \A f \in Fields \ {"evep", "unwatched"} : d[f] = c[f]
    BY <1>8, <1>9 DEF Shape, Fields
  <1>11. d.evep = [c.evep EXCEPT ![FdOf(e)] = slots] /\ d.unwatched = c.unwatched \ {e}
    BY <1>8, <1>9 DEF Shape, Fields
  <1> HIDE DEF d
  <1>13. /\ slots \in [Sides -> Ev \cup {Nil}]
         /\ \A s \in Sides : slots[s] = IF s \in Slots(e) THEN Nil ELSE b.evep[FdOf(e)][s]
    BY <1>2, <1>7, <1>8 DEF slots, Sides
  <1>14. d.evep \in [Fds \cup {PairFd} -> [Sides -> Ev \cup {Nil}]]
    BY <1>8, <1>11, <1>13
  <1>15. Kept(d) /\ Registered(d)
    BY <1>1, <1>6, <1>10, <1>14, SlotsKept
  <1>16. d.ev_flags = c.ev_flags /\ d.ev_ncalls = c.ev_ncalls /\ d.ev_pncalls = c.ev_pncalls
         /\ d.ncalls = c.ncalls
    BY <1>10 DEF Fields
  <1>17. \A f \in Ev : On(d, f, "inserted") <=> On(b, f, "inserted") /\ f # e
    BY <1>5, <1>16 DEF On
  <1>18. \A fd \in Fds \cup {PairFd}, s \in Sides :
            d.evep[fd][s] = IF FdOf(e) = fd /\ s \in Slots(e) THEN Nil ELSE b.evep[fd][s]
    BY <1>2, <1>7, <1>8, <1>11, <1>13
  <1>19. \A fd \in Fds \cup {PairFd}, s \in Sides : b.evep[fd][s] \in Ev \cup {Nil}
    BY DEF Sound, Kept, Typed
  <1>20. ASSUME NEW fd \in Fds \cup {PairFd}, NEW s \in Sides, d.evep[fd][s] # Nil
         PROVE  /\ On(d, d.evep[fd][s], "inserted")
                /\ FdOf(d.evep[fd][s]) = fd
                /\ s \in Slots(d.evep[fd][s])
    <2>1. d.evep[fd][s] = b.evep[fd][s] /\ ~(FdOf(e) = fd /\ s \in Slots(e))
      BY <1>18, <1>20
    <2>2. b.evep[fd][s] \in Ev /\ b.evep[fd][s] # e
      BY <1>19, <1>20, <2>1 DEF Sound, Slotted
    <2> QED
      BY <1>17, <1>20, <2>1, <2>2 DEF Sound, Slotted
  <1>21. ASSUME NEW f \in Ev, NEW s \in Sides, On(d, f, "inserted"), s \in Slots(f)
         PROVE  d.evep[FdOf(f)][s] = f \/ f \in d.unwatched
    <2>1. On(b, f, "inserted") /\ f # e
      BY <1>17, <1>21
    <2>2. IsIo(f)
      BY <2>1 DEF Sound, Registered
    <2>3. FdOf(f) \in Fds \cup {PairFd}
      BY <2>2, IoEvent
    <2>4. ~(FdOf(e) = FdOf(f) /\ s \in Slots(e))
      BY <1>0, <1>21, <2>1, <2>2, SlotsApart
    <2>5. b.evep[FdOf(f)][s] = f \/ f \in b.unwatched
      BY <1>21, <2>1 DEF Sound, Slotted
    <2> QED
      BY <1>2, <1>11, <1>18, <2>1, <2>3, <2>4, <2>5
  <1>22. Slotted(d)
    BY <1>20, <1>21 DEF Slotted
  <1>23. Touches(b, d, e) /\ Quiet(b, d)
    BY <1>1, <1>16 DEF Touches, Quiet
  <1> QED
    BY <1>2, <1>4, <1>15, <1>16, <1>22, <1>23 DEF Sound, d

\* The signal mask has no part in it, nor has what epoll_ctl will do.
LEMMA MaskSound ==
    ASSUME NEW b, Sound(b), NEW c, Shape(c),
           \A f \in Fields \ {"evsigmask", "needrecalc", "ctl"} : c[f] = b[f]
    PROVE  /\ Sound(c) /\ Quiet(b, c)
           /\ c.ev_flags = b.ev_flags /\ c.ev_pri = b.ev_pri /\ c.ncalls = b.ncalls
  <1>1. Shape(b) /\ Typed(b)
    BY DEF Sound, Kept
  <1>2. /\ c.ev_flags = b.ev_flags /\ c.ev_res = b.ev_res /\ c.ev_ncalls = b.ev_ncalls
        /\ c.ev_pncalls = b.ev_pncalls /\ c.ev_pri = b.ev_pri /\ c.left = b.left
        /\ c.activequeues = b.activequeues /\ c.signalqueue = b.signalqueue
        /\ c.evep = b.evep /\ c.ncalls = b.ncalls
    BY DEF Fields
  <1>3. Typed(c) /\ Same(b, c)
    BY <1>1, <1>2 DEF Typed, Same, Spoken, Fields
  <1> QED
    BY <1>2, <1>3, SameSound DEF Quiet

----------------------------------------------------------------------------
(* The calls *)

LEMMA RemoveIfOnSound ==
    ASSUME NEW b, Sound(b), NEW e \in Ev, NEW queue \in Queues, queue # "inserted",
           NEW c, c = RemoveIfOn(b, e, queue)
    PROVE  /\ Sound(c) /\ Touches(b, c, e) /\ Quiet(b, c)
           /\ c.ev_flags[e] = b.ev_flags[e] \ {queue}
           /\ c.ev_pri = b.ev_pri /\ c.ncalls = b.ncalls
  <1>1. CASE On(b, e, queue)
    <2>1. c = event_queue_remove(b, e, queue)
      BY <1>1 DEF RemoveIfOn
    <2>2. Removed(b, c, e, queue)
      BY <2>1, RemoveFields DEF Sound, Kept
    <2> QED
      BY <1>1, <2>2, RemoveSound
  <1>2. CASE ~On(b, e, queue)
    <2>1. c = b
      BY <1>2 DEF RemoveIfOn
    <2>2. b.ev_flags[e] = b.ev_flags[e] \ {queue}
      BY <1>2 DEF On
    <2> QED
      BY <2>1, <2>2 DEF Touches, Quiet
  <1> QED
    BY <1>1, <1>2

\* The time of an event, and its results and calls, have no part in Sound but
\* their types.
LEMMA LeftSound ==
    ASSUME NEW b, Sound(b), NEW e \in Ev, NEW t \in 0 .. MaxTv
    PROVE  LET c == [b EXCEPT !.left[e] = t]
           IN /\ Sound(c) /\ Quiet(b, c)
              /\ c.ev_flags = b.ev_flags
  <1> DEFINE c == [b EXCEPT !.left[e] = t]
  <1>1. Shape(b) /\ Typed(b)
    BY DEF Sound, Kept
  <1>2. Shape(c) /\ (\A f \in Fields \ {"left"} : c[f] = b[f])
        /\ c.left = [b.left EXCEPT ![e] = t]
    BY <1>1 DEF Shape, Fields
  <1>3. /\ c.ev_flags = b.ev_flags /\ c.ev_res = b.ev_res /\ c.ev_ncalls = b.ev_ncalls
        /\ c.ev_pncalls = b.ev_pncalls /\ c.ev_pri = b.ev_pri
        /\ c.activequeues = b.activequeues /\ c.signalqueue = b.signalqueue
        /\ c.evep = b.evep /\ c.ncalls = b.ncalls
    BY <1>2 DEF Fields
  <1>4. c.left \in [Ev -> 0 .. MaxTv]
    BY <1>1, <1>2 DEF Typed
  <1>5. Typed(c) /\ Same(b, c)
    BY <1>1, <1>2, <1>3, <1>4 DEF Typed, Same, Spoken, Fields
  <1> HIDE DEF c
  <1>6. Sound(c) /\ Quiet(b, c)
    BY <1>2, <1>3, <1>5, SameSound DEF Quiet
  <1> QED
    BY <1>3, <1>6 DEF c

LEMMA UntimedSound ==
    ASSUME NEW b, Sound(b), NEW e \in Ev, NEW idle, idle = Untimed(b, e)
    PROVE  /\ Sound(idle) /\ Touches(b, idle, e) /\ Quiet(b, idle)
           /\ ~On(idle, e, "timeout")
  <1> DEFINE Ok(c) == Sound(c) /\ Touches(b, c, e) /\ Quiet(b, c)
             untimed == RemoveIfOn(b, e, "timeout")
  <1>0. {"timeout", "inserted", "signal", "active"} \subseteq Queues
    BY DEF Queues
  <1>1. Ok(untimed) /\ ~On(untimed, e, "timeout")
    BY <1>0, RemoveIfOnSound DEF On
  <1>2. idle = IF On(untimed, e, "active") /\ "timeout" \in untimed.ev_res[e]
               THEN event_queue_remove(AbortLoop(untimed, e), e, "active") ELSE untimed
    BY DEF Untimed
  <1> HIDE DEF untimed
  <1>3. Ok(idle) /\ ~On(idle, e, "timeout")
    <2>1. CASE On(untimed, e, "active") /\ "timeout" \in untimed.ev_res[e]
      <3> DEFINE a == AbortLoop(untimed, e)
      <3>1. Sound(a) /\ Touches(untimed, a, e) /\ Quiet(untimed, a)
            /\ a.ev_flags = untimed.ev_flags
        BY <1>1, AbortSound
      <3>2. idle = event_queue_remove(a, e, "active")
        BY <1>2, <2>1
      <3> HIDE DEF a
      <3>3. On(a, e, "active")
        BY <2>1, <3>1 DEF On
      <3>4. Removed(a, idle, e, "active")
        BY <1>0, <3>1, <3>2, RemoveFields DEF Sound, Kept
      <3>5. /\ Sound(idle) /\ Touches(a, idle, e) /\ Quiet(a, idle)
            /\ idle.ev_flags[e] = a.ev_flags[e] \ {"active"}
        BY <1>0, <3>1, <3>3, <3>4, RemoveSound
      <3>6. Touches(b, idle, e) /\ Quiet(b, idle)
        BY <1>1, <3>1, <3>5, TouchesTwice, QuietTwice
      <3> QED
        BY <1>1, <3>1, <3>5, <3>6 DEF On
    <2>2. CASE ~(On(untimed, e, "active") /\ "timeout" \in untimed.ev_res[e])
      BY <1>1, <1>2, <2>2
    <2> QED
      BY <2>1, <2>2
  <1> QED
    BY <1>3

LEMMA TimedSound ==
    ASSUME NEW b, Sound(b), NEW e \in Ev, NEW tv \in 0 .. NoTv,
           NEW timed, timed = Timed(b, e, tv)
    PROVE  Sound(timed) /\ Touches(b, timed, e) /\ Quiet(b, timed)
  <1> DEFINE idle == Untimed(b, e)
             waits == [idle EXCEPT !.left[e] = tv]
  <1>1. timed = IF tv = NoTv THEN b ELSE event_queue_insert(waits, e, "timeout")
    BY DEF Timed
  <1>2. /\ Sound(idle) /\ Touches(b, idle, e) /\ Quiet(b, idle)
        /\ ~On(idle, e, "timeout")
    BY UntimedSound
  <1> HIDE DEF idle
  <1>3. CASE tv = NoTv
    BY <1>1, <1>3 DEF Touches, Quiet
  <1>4. CASE tv # NoTv
    <2>0. "timeout" \in Queues
      BY DEF Queues
    <2>1. tv \in 0 .. MaxTv
      BY <1>4, EventAssumption DEF NoTv
    <2>2. Sound(waits) /\ Quiet(idle, waits) /\ waits.ev_flags = idle.ev_flags
      BY <1>2, <2>1, LeftSound
    <2>3. timed = event_queue_insert(waits, e, "timeout")
      BY <1>1, <1>4
    <2> HIDE DEF waits
    <2>4. ~On(waits, e, "timeout")
      BY <1>2, <2>2 DEF On
    <2>5. Inserted(waits, timed, e, "timeout")
      BY <2>0, <2>2, <2>3, InsertFields DEF Sound, Kept
    <2>6. Sound(timed) /\ Touches(waits, timed, e) /\ Quiet(waits, timed)
      BY <2>0, <2>2, <2>4, <2>5, InsertSound
    <2>7. Touches(b, waits, e) /\ Quiet(b, waits)
      BY <1>2, <2>2, QuietTwice DEF Touches
    <2> QED
      BY <2>6, <2>7, TouchesTwice, QuietTwice
  <1> QED
    BY <1>3, <1>4

LEMMA AddSound ==
    ASSUME NEW b, Sound(b), NEW e \in Ev, NEW tv \in 0 .. NoTv
    PROVE  /\ Sound(event_add(b, e, tv)) /\ Touches(b, event_add(b, e, tv), e)
           /\ Quiet(b, event_add(b, e, tv))
  <1> DEFINE timed == Timed(b, e, tv)
  <1>0. "inserted" \in Queues /\ "signal" \in Queues
    BY DEF Queues
  <1>3. Sound(timed) /\ Touches(b, timed, e) /\ Quiet(b, timed)
    BY TimedSound
  <1>4. event_add(b, e, tv) =
            IF IsIo(e) /\ ~On(timed, e, "inserted") /\ ~On(timed, e, "active")
            THEN epoll_add(event_queue_insert(timed, e, "inserted"), e)
            ELSE IF IsSignal(e) /\ ~On(timed, e, "signal")
            THEN epoll_add(event_queue_insert(timed, e, "signal"), e)
            ELSE timed
    BY SMTT(40) DEF event_add
  <1> HIDE DEF timed
  <1>5. CASE IsIo(e) /\ ~On(timed, e, "inserted") /\ ~On(timed, e, "active")
    <2> DEFINE c == event_queue_insert(timed, e, "inserted")
    <2>1. Inserted(timed, c, e, "inserted")
      BY <1>0, <1>3, InsertFields DEF Sound, Kept
    <2>2. event_add(b, e, tv) = epoll_add(c, e)
      BY <1>4, <1>5
    <2> HIDE DEF c
    <2>3. /\ Sound(epoll_add(c, e)) /\ Touches(timed, epoll_add(c, e), e)
          /\ Quiet(timed, epoll_add(c, e))
      BY <1>3, <1>5, <2>1, WatchSound
    <2> QED
      BY <1>3, <2>2, <2>3, TouchesTwice, QuietTwice
  <1>6. CASE /\ ~(IsIo(e) /\ ~On(timed, e, "inserted") /\ ~On(timed, e, "active"))
             /\ IsSignal(e) /\ ~On(timed, e, "signal")
    <2> DEFINE c == event_queue_insert(timed, e, "signal")
               d == [c EXCEPT !.evsigmask = @ \cup {FdOf(e)}]
    <2>1. Inserted(timed, c, e, "signal")
      BY <1>0, <1>3, InsertFields DEF Sound, Kept
    <2>2. event_add(b, e, tv) = d
      BY <1>4, <1>6 DEF epoll_add
    <2> HIDE DEF c
    <2>3. Sound(c) /\ Touches(timed, c, e) /\ Quiet(timed, c)
      BY <1>0, <1>3, <1>6, <2>1, InsertSound
    <2>4. Touches(b, c, e) /\ Quiet(b, c)
      BY <1>3, <2>3, TouchesTwice, QuietTwice
    <2>5. Shape(d) /\ \A f \in Fields \ {"evsigmask", "needrecalc", "ctl"} : d[f] = c[f]
      BY <2>3 DEF Sound, Kept, Shape, Fields
    <2> HIDE DEF d
    <2>6. Sound(d) /\ Quiet(c, d) /\ d.ev_flags = c.ev_flags
      BY <2>3, <2>5, MaskSound
    <2> QED
      BY <2>2, <2>4, <2>6, QuietTwice DEF Touches
  <1>7. CASE event_add(b, e, tv) = timed
    BY <1>3, <1>7
  <1> QED
    BY <1>4, <1>5, <1>6, <1>7

LEMMA DelSound ==
    ASSUME NEW b, Sound(b), NEW e \in Ev, NEW d, d = event_del(b, e)
    PROVE  /\ Sound(d) /\ Touches(b, d, e) /\ Quiet(b, d)
           /\ d.ev_flags[e] = {}
           /\ b.ev_ncalls[e] # 0 /\ b.ev_pncalls[e] = "frame" => d.ncalls = 0
  <1> DEFINE a == AbortLoop(b, e)
             untimed == RemoveIfOn(a, e, "timeout")
             idle == RemoveIfOn(untimed, e, "active")
             Ok(c) == Sound(c) /\ Touches(b, c, e) /\ Quiet(b, c) /\ c.ncalls = a.ncalls
  <1>0. {"timeout", "inserted", "signal", "active"} = Queues
    BY DEF Queues
  <1>1. Ok(a) /\ a.ev_flags = b.ev_flags
        /\ (b.ev_ncalls[e] # 0 /\ b.ev_pncalls[e] = "frame" => a.ncalls = 0)
    BY AbortSound
  <1> HIDE DEF a
  <1>2. Ok(untimed) /\ untimed.ev_flags[e] = b.ev_flags[e] \ {"timeout"}
    <2>1. /\ Sound(untimed) /\ Touches(a, untimed, e) /\ Quiet(a, untimed)
          /\ untimed.ev_flags[e] = a.ev_flags[e] \ {"timeout"} /\ untimed.ncalls = a.ncalls
      BY <1>0, <1>1, RemoveIfOnSound
    <2> HIDE DEF untimed
    <2> QED
      BY <1>1, <2>1, TouchesTwice, QuietTwice
  <1> HIDE DEF untimed
  <1>3. Ok(idle) /\ idle.ev_flags[e] = b.ev_flags[e] \ {"timeout", "active"}
    <2>1. /\ Sound(idle) /\ Touches(untimed, idle, e) /\ Quiet(untimed, idle)
          /\ idle.ev_flags[e] = untimed.ev_flags[e] \ {"active"} /\ idle.ncalls = untimed.ncalls
      BY <1>0, <1>2, RemoveIfOnSound
    <2> HIDE DEF idle
    <2> QED
      BY <1>2, <2>1, TouchesTwice, QuietTwice
  <1>4. d = CASE On(idle, e, "inserted") -> epoll_del(event_queue_remove(idle, e, "inserted"), e)
              [] On(idle, e, "signal")   -> epoll_del(event_queue_remove(idle, e, "signal"), e)
              [] OTHER -> idle
    BY DEF event_del, idle, untimed, a
  <1> HIDE DEF idle
  <1>5. idle.ev_flags[e] \subseteq {"inserted", "signal"}
    <2>1. b.ev_flags[e] \subseteq Queues
      BY DEF Sound, Kept, Typed
    <2> QED
      BY <1>0, <1>3, <2>1
  <1>6. On(idle, e, "inserted") => ~On(idle, e, "signal")
    BY <1>3, IoEvent DEF Sound, Registered
  <1>7. CASE On(idle, e, "inserted")
    <2> DEFINE c == event_queue_remove(idle, e, "inserted")
    <2>1. d = epoll_del(c, e)
      BY <1>4, <1>6, <1>7
    <2>2. Removed(idle, c, e, "inserted")
      BY <1>0, <1>3, RemoveFields DEF Sound, Kept
    <2> HIDE DEF c
    <2>3. /\ Sound(d) /\ Touches(idle, d, e) /\ Quiet(idle, d) /\ d.ncalls = idle.ncalls
          /\ d.ev_flags[e] = idle.ev_flags[e] \ {"inserted"}
      BY <1>3, <1>7, <2>1, <2>2, UnwatchSound
    <2>4. d.ev_flags[e] = {}
      BY <1>5, <1>6, <1>7, <2>3 DEF On
    <2>5. Touches(b, d, e) /\ Quiet(b, d)
      BY <1>3, <2>3, TouchesTwice, QuietTwice
    <2> QED
      BY <1>1, <1>3, <2>3, <2>4, <2>5
  <1>8. CASE On(idle, e, "signal")
    <2> DEFINE c == event_queue_remove(idle, e, "signal")
    <2>1. d = epoll_del(c, e)
      BY <1>4, <1>6, <1>8
    <2>2. Removed(idle, c, e, "signal")
      BY <1>0, <1>3, RemoveFields DEF Sound, Kept
    <2> HIDE DEF c
    <2>3. /\ Sound(c) /\ Touches(idle, c, e) /\ Quiet(idle, c) /\ c.ncalls = idle.ncalls
          /\ c.ev_flags[e] = idle.ev_flags[e] \ {"signal"}
      BY <1>0, <1>3, <1>8, <2>2, RemoveSound
    <2>4. IsSignal(e)
      BY <1>3, <1>8 DEF Sound, Registered
    <2>5. Shape(d) /\ \A f \in Fields \ {"evsigmask", "needrecalc", "ctl"} : d[f] = c[f]
      <3>1. d = [c EXCEPT !.evsigmask = @ \ {FdOf(e)}, !.needrecalc = TRUE]
        BY <2>1, <2>4 DEF epoll_del
      <3> QED
        BY <2>3, <3>1 DEF Sound, Kept, Shape, Fields
    <2>6. Sound(d) /\ Quiet(c, d) /\ d.ev_flags = c.ev_flags /\ d.ncalls = c.ncalls
      BY <2>3, <2>5, MaskSound
    <2>7. d.ev_flags[e] = {}
      BY <1>5, <1>6, <1>8, <2>3, <2>6 DEF On
    <2>8. Touches(idle, d, e) /\ Quiet(idle, d)
      BY <2>3, <2>6, QuietTwice DEF Touches
    <2>9. Touches(b, d, e) /\ Quiet(b, d)
      BY <1>3, <2>8, TouchesTwice, QuietTwice
    <2> QED
      BY <1>1, <1>3, <2>3, <2>6, <2>7, <2>9
  <1>9. CASE ~On(idle, e, "inserted") /\ ~On(idle, e, "signal")
    <2>1. d = idle
      BY <1>4, <1>9
    <2>2. idle.ev_flags[e] = {}
      BY <1>5, <1>9 DEF On
    <2> QED
      BY <1>1, <1>3, <2>1, <2>2
  <1> QED
    BY <1>7, <1>8, <1>9

\* What event_active leaves alone: how often the others are to be called.
Spares(b, c, e) ==
    /\ \A f \in Ev : f # e => /\ c.ev_ncalls[f] = b.ev_ncalls[f]
                               /\ c.ev_pncalls[f] = b.ev_pncalls[f]
    /\ c.ncalls = b.ncalls

LEMMA ActiveSound ==
    ASSUME NEW b, Sound(b), NEW e \in Ev, NEW res \in Results, NEW ncalls \in Nat,
           NEW d, d = event_active(b, e, res, ncalls)
    PROVE  /\ Sound(d) /\ Touches(b, d, e) /\ Spares(b, d, e)
           /\ d.ev_flags[e] = b.ev_flags[e] \cup {"active"}
  <1>0. "active" \in Queues
    BY DEF Queues
  <1>1. Shape(b) /\ Typed(b)
    BY DEF Sound, Kept
  <1>2. CASE On(b, e, "active")
    <2>1. d = [b EXCEPT !.ev_res[e] = @ \cup {res}]
      BY <1>2 DEF event_active
    <2>2. Shape(d) /\ (\A f \in Fields \ {"ev_res"} : d[f] = b[f])
          /\ d.ev_res = [b.ev_res EXCEPT ![e] = @ \cup {res}]
      BY <1>1, <2>1 DEF Shape, Fields
    <2>3. /\ d.ev_flags = b.ev_flags /\ d.left = b.left /\ d.ev_ncalls = b.ev_ncalls
          /\ d.ev_pncalls = b.ev_pncalls /\ d.ev_pri = b.ev_pri
          /\ d.activequeues = b.activequeues /\ d.signalqueue = b.signalqueue
          /\ d.evep = b.evep /\ d.ncalls = b.ncalls
      BY <2>2 DEF Fields
    <2>4. d.ev_res \in [Ev -> SUBSET Results]
      BY <1>1, <2>2 DEF Typed
    <2>5. Typed(d) /\ Same(b, d)
      BY <1>1, <2>2, <2>3, <2>4 DEF Typed, Same, Spoken, Fields
    <2>6. Sound(d)
      BY <2>2, <2>5, SameSound
    <2>7. b.ev_flags[e] = b.ev_flags[e] \cup {"active"}
      BY <1>2 DEF On
    <2> QED
      BY <2>3, <2>6, <2>7 DEF Touches, Spares
  <1>3. CASE ~On(b, e, "active")
    <2> DEFINE c == [b EXCEPT !.ev_res[e] = {res}, !.ev_ncalls[e] = ncalls,
                              !.ev_pncalls[e] = "null"]
    <2>1. d = event_queue_insert(c, e, "active")
      BY <1>3 DEF event_active
    <2>2. /\ Shape(c)
          /\ \A f \in Fields \ {"ev_res", "ev_ncalls", "ev_pncalls"} : c[f] = b[f]
          /\ c.ev_res = [b.ev_res EXCEPT ![e] = {res}]
          /\ c.ev_ncalls = [b.ev_ncalls EXCEPT ![e] = ncalls]
          /\ c.ev_pncalls = [b.ev_pncalls EXCEPT ![e] = "null"]
      BY <1>1 DEF Shape, Fields
    <2> HIDE DEF c
    <2>3. /\ c.ev_flags = b.ev_flags /\ c.left = b.left /\ c.ev_pri = b.ev_pri
          /\ c.activequeues = b.activequeues /\ c.signalqueue = b.signalqueue
          /\ c.evep = b.evep /\ c.ncalls = b.ncalls
      BY <2>2 DEF Fields
    <2>4. /\ c.ev_res \in [Ev -> SUBSET Results]
          /\ c.ev_ncalls \in [Ev -> Nat]
          /\ c.ev_pncalls \in [Ev -> {"null", "frame", "stale"}]
      BY <1>1, <2>2 DEF Typed
    <2>5. \A f \in Ev : f # e => /\ c.ev_ncalls[f] = b.ev_ncalls[f]
                                 /\ c.ev_pncalls[f] = b.ev_pncalls[f]
      BY <1>1, <2>2 DEF Typed
    <2>6. Typed(c) /\ Same(b, c)
      BY <1>1, <2>2, <2>3, <2>4 DEF Typed, Same, Spoken, Fields
    <2>7. Sound(c)
      BY <2>2, <2>6, SameSound
    <2>8. ~On(c, e, "active")
      BY <1>3, <2>3 DEF On
    <2>9. Inserted(c, d, e, "active")
      BY <1>0, <2>1, <2>2, <2>8, InsertFields
    <2>10. /\ Sound(d) /\ Touches(c, d, e) /\ Quiet(c, d)
           /\ d.ev_flags[e] = c.ev_flags[e] \cup {"active"} /\ d.ncalls = c.ncalls
      BY <1>0, <2>7, <2>8, <2>9, InsertSound
    <2> QED
      BY <2>3, <2>5, <2>10 DEF Touches, Spares, Quiet
  <1> QED
    BY <1>2, <1>3

----------------------------------------------------------------------------
(* A dispatch: a call for each of a sequence of events or descriptors *)

\* These events are on no queue.
Rests(b, D) == \A e \in Ev \cap D : b.ev_flags[e] = {}

LEMMA TouchRests ==
    ASSUME NEW b, NEW c, NEW D, Rests(b, D), NEW e, e \notin D, Touches(b, c, e)
    PROVE  Rests(c, D)
  BY DEF Rests, Touches

LEMMA OnNotRests ==
    ASSUME NEW b, NEW D, Rests(b, D), NEW e \in Ev, NEW queue, On(b, e, queue)
    PROVE  e \notin D
  BY DEF Rests, On

LEMMA DelUnlessSound ==
    ASSUME NEW b, Sound(b), NEW e \in Ev, NEW c, c = DelUnlessPersist(b, e)
    PROVE  Sound(c) /\ Touches(b, c, e)
  <1>1. CASE Persists(e)
    BY <1>1 DEF DelUnlessPersist, Touches
  <1>2. CASE ~Persists(e)
    BY <1>2, DelSound DEF DelUnlessPersist
  <1> QED
    BY <1>1, <1>2

\* epoll_dispatch, one descriptor.
LEMMA EpollSound ==
    ASSUME NEW b, Sound(b), NEW D, Rests(b, D), NEW fd \in Fds \cup {PairFd}, NEW what,
           NEW d, d = epoll_event(b, fd, what)
    PROVE  Sound(d) /\ Rests(d, D)
  <1> DEFINE Found(s, r) == IF r \in what THEN b.evep[fd][s] ELSE Nil
             evread == Found("evread", "read")
             evwrite == Found("evwrite", "write")
             Act(c, e, res) == IF e = Nil THEN c ELSE event_active(c, e, res, 1)
             Del(c, e) == IF e = Nil THEN c ELSE DelUnlessPersist(c, e)
             gone == IF evwrite = evread THEN Del(b, evread) ELSE Del(Del(b, evread), evwrite)
             Ok(c) == Sound(c) /\ Rests(c, D)
  <1>1. d = Act(Act(gone, evread, "read"), evwrite, "write")
    BY DEF epoll_event
  <1>2. \A s \in Sides : /\ b.evep[fd][s] \in Ev \cup {Nil}
                         /\ b.evep[fd][s] # Nil => b.evep[fd][s] \in Ev \ D
    <2> TAKE s \in Sides
    <2>1. b.evep[fd][s] \in Ev \cup {Nil}
      BY DEF Sound, Kept, Typed
    <2>2. b.evep[fd][s] # Nil => On(b, b.evep[fd][s], "inserted")
      BY DEF Sound, Slotted
    <2> QED
      BY <2>1, <2>2, OnNotRests
  <1>3. evread \in (Ev \ D) \cup {Nil} /\ evwrite \in (Ev \ D) \cup {Nil}
    BY <1>2 DEF Sides
  <1>4. ASSUME NEW c, Ok(c), NEW e \in (Ev \ D) \cup {Nil} PROVE Ok(Del(c, e))
    <2>1. CASE e = Nil
      BY <1>4, <2>1
    <2>2. CASE e # Nil
      <3>1. e \in Ev /\ e \notin D /\ Del(c, e) = DelUnlessPersist(c, e)
        BY <2>2
      <3>2. Sound(Del(c, e)) /\ Touches(c, Del(c, e), e)
        BY <1>4, <3>1, DelUnlessSound
      <3> QED
        BY <1>4, <3>1, <3>2, TouchRests
    <2> QED
      BY <2>1, <2>2
  <1>5. ASSUME NEW c, Ok(c), NEW e \in (Ev \ D) \cup {Nil}, NEW res \in Results
        PROVE  Ok(Act(c, e, res))
    <2>1. CASE e = Nil
      BY <1>5, <2>1
    <2>2. CASE e # Nil
      <3>1. e \in Ev /\ e \notin D /\ Act(c, e, res) = event_active(c, e, res, 1)
        BY <2>2
      <3>2. Sound(Act(c, e, res)) /\ Touches(c, Act(c, e, res), e)
        BY <1>5, <3>1, ActiveSound
      <3> QED
        BY <1>5, <3>1, <3>2, TouchRests
    <2> QED
      BY <2>1, <2>2
  <1>6. "read" \in Results /\ "write" \in Results
    BY DEF Results
  <1> HIDE DEF evread, evwrite, Act, Del, Ok
  <1>7. Ok(b)
    BY DEF Ok
  <1>8. Ok(gone)
    <2>1. Ok(Del(b, evread))
      BY <1>3, <1>4, <1>7
    <2>2. Ok(Del(Del(b, evread), evwrite))
      BY <1>3, <1>4, <2>1
    <2> QED
      BY <2>1, <2>2
  <1> HIDE DEF gone
  <1>9. Ok(Act(gone, evread, "read"))
    BY <1>3, <1>5, <1>6, <1>8
  <1>10. Ok(Act(Act(gone, evread, "read"), evwrite, "write"))
    BY <1>3, <1>5, <1>6, <1>9
  <1> QED
    BY <1>1, <1>10 DEF Ok

\* The steps of the sequences, one operator for all, and what their elements
\* must be.
Does(how, arg, c, x) ==
    CASE how = "add"     -> event_add(c, x, NoTv)
      [] how = "signal"  -> IF arg[FdOf(x)] = 0 THEN c
                            ELSE event_active(DelUnlessPersist(c, x), x, "signal", arg[FdOf(x)])
      [] how = "io"      -> epoll_event(c, x, arg[x])
      [] how = "timeout" -> event_active(event_del(event_queue_remove(c, x, "timeout"), x),
                                         x, "timeout", 1)

Fits(how, arg, x, D) ==
    \/ how \in {"add", "timeout"} /\ x \in Ev \ D
    \/ how = "signal" /\ x \in Ev \ D /\ arg[FdOf(x)] \in Nat
    \/ how = "io" /\ x \in Fds \cup {PairFd}

LEMMA DoesSound ==
    ASSUME NEW c, Sound(c), NEW D, Rests(c, D), NEW how, NEW arg, NEW x, Fits(how, arg, x, D),
           how = "timeout" => On(c, x, "timeout"),
           NEW d, d = Does(how, arg, c, x)
    PROVE  Sound(d) /\ Rests(d, D) /\ (how = "timeout" => Touches(c, d, x))
  <1>0. {"timeout", "signal"} \subseteq Results /\ "timeout" \in Queues
    BY DEF Results, Queues
  <1>1. CASE how = "add"
    <2>1. d = event_add(c, x, NoTv) /\ x \in Ev /\ x \notin D /\ NoTv \in 0 .. NoTv
      BY <1>1, EventAssumption DEF Does, Fits, NoTv
    <2> QED
      BY <1>1, <2>1, AddSound, TouchRests
  <1>2. CASE how = "signal"
    <2>0. x \in Ev /\ x \notin D /\ arg[FdOf(x)] \in Nat
      BY <1>2 DEF Fits
    <2> DEFINE e == DelUnlessPersist(c, x)
    <2>1. CASE arg[FdOf(x)] = 0
      BY <1>2, <2>1 DEF Does
    <2>2. CASE arg[FdOf(x)] # 0
      <3>1. d = event_active(e, x, "signal", arg[FdOf(x)])
        BY <1>2, <2>2 DEF Does
      <3>2. Sound(e) /\ Touches(c, e, x)
        BY <2>0, DelUnlessSound
      <3> HIDE DEF e
      <3>3. Sound(d) /\ Touches(e, d, x)
        BY <1>0, <2>0, <3>1, <3>2, ActiveSound
      <3> QED
        BY <1>2, <2>0, <3>2, <3>3, TouchRests
    <2> QED
      BY <2>1, <2>2
  <1>3. CASE how = "io"
    <2>1. d = epoll_event(c, x, arg[x]) /\ x \in Fds \cup {PairFd}
      BY <1>3 DEF Does, Fits
    <2> QED
      BY <1>3, <2>1, EpollSound
  <1>4. CASE how = "timeout"
    <2> DEFINE untimed == event_queue_remove(c, x, "timeout")
               gone == event_del(untimed, x)
    <2>1. d = event_active(gone, x, "timeout", 1) /\ x \in Ev /\ x \notin D
          /\ On(c, x, "timeout")
      BY <1>4 DEF Does, Fits
    <2>2. Removed(c, untimed, x, "timeout")
      BY <1>0, RemoveFields DEF Sound, Kept
    <2> HIDE DEF untimed
    <2>3. Sound(untimed) /\ Touches(c, untimed, x)
      BY <1>0, <2>1, <2>2, RemoveSound
    <2>4. Sound(gone) /\ Touches(untimed, gone, x)
      BY <2>1, <2>3, DelSound
    <2> HIDE DEF gone
    <2>5. Sound(d) /\ Touches(gone, d, x)
      BY <1>0, <2>1, <2>4, ActiveSound
    <2>6. Touches(c, d, x)
      BY <2>3, <2>4, <2>5, TouchesTwice
    <2> QED
      BY <2>1, <2>5, <2>6, TouchRests
  <1> QED
    BY <1>1, <1>2, <1>3, <1>4 DEF Fits

\* r is the base after each of the first n elements.
Doing(r, how, arg, b, seq, n) ==
    r = [i \in 0 .. n |-> IF i = 0 THEN b ELSE Does(how, arg, r[i - 1], seq[i])]

LEMMA DoingExists ==
    ASSUME NEW how, NEW arg, NEW b, NEW seq, NEW n \in Nat
    PROVE  \E r : Doing(r, how, arg, b, seq, n)
  <1> DEFINE T == {m \in 0 .. n : ~\E r : Doing(r, how, arg, b, seq, m)}
  <1>1. SUFFICES ASSUME T # {} PROVE FALSE
    <2>1. n \notin T
      BY <1>1
    <2> QED
      BY <2>1
  <1>2. PICK x \in T : \A y \in T : x <= y
    <2>1. T \subseteq Nat
      OBVIOUS
    <2> HIDE DEF T
    <2> QED
      BY <1>1, <2>1, Smallest
  <1>3. x # 0
    <2>1. Doing([i \in 0 .. 0 |-> b], how, arg, b, seq, 0)
      BY DEF Doing
    <2> QED
      BY <2>1
  <1>4. x \in 1 .. n /\ x - 1 \in 0 .. n /\ x - 1 \notin T
    BY <1>2, <1>3
  <1>5. PICK r : Doing(r, how, arg, b, seq, x - 1)
    BY <1>4
  <1> DEFINE q == [i \in 0 .. x |-> IF i = x THEN Does(how, arg, r[x - 1], seq[x]) ELSE r[i]]
             p == [i \in 0 .. x |-> IF i = 0 THEN b ELSE Does(how, arg, q[i - 1], seq[i])]
  <1>6. ASSUME NEW i \in 0 .. x PROVE q[i] = p[i]
    <2>1. CASE i = x
      BY <1>4, <2>1
    <2>2. CASE i = 0
      <3>1. r[0] = b
        BY <1>4, <1>5 DEF Doing
      <3> QED
        BY <1>4, <2>2, <3>1
    <2>3. CASE i \in 1 .. x - 1
      <3>1. r[i] = Does(how, arg, r[i - 1], seq[i])
        BY <1>4, <1>5, <2>3 DEF Doing
      <3>2. i - 1 \in 0 .. x /\ i - 1 # x /\ i # x /\ i # 0
        BY <1>4, <2>3
      <3>3. q[i - 1] = r[i - 1] /\ q[i] = r[i]
        BY <3>2
      <3>4. p[i] = Does(how, arg, q[i - 1], seq[i])
        BY <3>2
      <3> QED
        BY <3>1, <3>3, <3>4
    <2> QED
      BY <1>4, <2>1, <2>2, <2>3
  <1>7. q = p
    BY <1>6
  <1>8. Doing(q, how, arg, b, seq, x)
    BY <1>7 DEF Doing
  <1> QED
    BY <1>2, <1>8

LEMMA DoingSound ==
    ASSUME NEW b, Sound(b), NEW D, Rests(b, D), NEW how, NEW arg, NEW seq,
           Len(seq) \in Nat, \A n \in 1 .. Len(seq) : Fits(how, arg, seq[n], D),
           how = "timeout" => /\ \A n \in 1 .. Len(seq) : On(b, seq[n], "timeout")
                              /\ \A m, n \in 1 .. Len(seq) : seq[m] = seq[n] => m = n,
           NEW r, Doing(r, how, arg, b, seq, Len(seq))
    PROVE  Sound(r[Len(seq)]) /\ Rests(r[Len(seq)], D)
  <1> DEFINE l == Len(seq)
             P(n) == /\ Sound(r[n]) /\ Rests(r[n], D)
                     /\ how = "timeout" => \A m \in n + 1 .. l : On(r[n], seq[m], "timeout")
             T == {n \in 0 .. l : ~P(n)}
  <1>1. l \in Nat
    OBVIOUS
  <1>2. SUFFICES ASSUME T # {} PROVE FALSE
    <2>1. l \notin T
      BY <1>2
    <2> QED
      BY <1>1, <2>1
  <1>3. PICK x \in T : \A y \in T : x <= y
    <2>1. T \subseteq Nat
      OBVIOUS
    <2> HIDE DEF T
    <2> QED
      BY <1>2, <2>1, Smallest
  <1>4. r[0] = b
    BY <1>1 DEF Doing
  <1>5. P(0)
    BY <1>1, <1>4
  <1> HIDE DEF P
  <1>6. x \in 1 .. l /\ x - 1 \in 0 .. l /\ x - 1 \notin T
    BY <1>1, <1>3, <1>5
  <1> DEFINE c == r[x - 1]
             e == seq[x]
             d == r[x]
  <1>7. P(x - 1)
    BY <1>6
  <1>8. /\ Sound(c) /\ Rests(c, D)
        /\ how = "timeout" => \A m \in x .. l : On(c, seq[m], "timeout")
    BY <1>1, <1>6, <1>7 DEF P
  <1>9. d = Does(how, arg, c, e)
    BY <1>1, <1>6 DEF Doing
  <1>10. Fits(how, arg, e, D) /\ (how = "timeout" => On(c, e, "timeout"))
    BY <1>1, <1>6, <1>8
  <1> HIDE DEF c, d, e
  <1>11. Sound(d) /\ Rests(d, D) /\ (how = "timeout" => Touches(c, d, e))
    BY <1>8, <1>9, <1>10, DoesSound
  <1>12. how = "timeout" => \A m \in x + 1 .. l : On(d, seq[m], "timeout")
    <2> SUFFICES ASSUME how = "timeout", NEW m \in x + 1 .. l PROVE On(d, seq[m], "timeout")
      OBVIOUS
    <2>1. m \in 1 .. l /\ m # x /\ m \in x .. l
      BY <1>1, <1>6
    <2>2. seq[m] # e /\ seq[m] \in Ev
      BY <1>6, <2>1 DEF Fits, e
    <2>3. On(c, seq[m], "timeout")
      BY <1>8, <2>1
    <2> QED
      BY <1>11, <2>2, <2>3 DEF Touches, On
  <1>13. P(x)
    BY <1>11, <1>12 DEF P, d
  <1> QED
    BY <1>3, <1>13

LEMMA SignalsSound ==
    ASSUME NEW b, Sound(b), NEW D, Rests(b, D), NEW caught \in [Signals -> Nat]
    PROVE  Sound(evsignal_process(b, caught)) /\ Rests(evsignal_process(b, caught), D)
  <1> DEFINE seq == b.signalqueue
             f == CHOOSE f : f = [n \in 0 .. Len(seq) |->
                      IF n = 0 THEN b
                      ELSE IF caught[FdOf(seq[n])] = 0 THEN f[n - 1]
                      ELSE event_active(DelUnlessPersist(f[n - 1], seq[n]), seq[n], "signal",
                                        caught[FdOf(seq[n])])]
  <1>1. evsignal_process(b, caught) = f[Len(seq)]
    BY DEF evsignal_process, ForEach
  <1>2. Lists(seq, OnSome(b, "signal"))
    BY DEF Sound, Kept, Exact
  <1>3. Len(seq) \in Nat /\ \A n \in 1 .. Len(seq) : seq[n] \in OnSome(b, "signal")
    BY <1>2 DEF Lists
  <1> HIDE DEF seq
  <1>4. \E r : Doing(r, "signal", caught, b, seq, Len(seq))
    BY <1>3, DoingExists
  <1>5. Doing(f, "signal", caught, b, seq, Len(seq))
    BY <1>4 DEF Doing, Does
  <1> HIDE DEF f
  <1>6. ASSUME NEW n \in 1 .. Len(seq) PROVE Fits("signal", caught, seq[n], D)
    <2>1. seq[n] \in Ev /\ On(b, seq[n], "signal")
      BY <1>3 DEF OnSome
    <2>2. IsSignal(seq[n])
      BY <2>1 DEF Sound, Registered
    <2>3. seq[n] # ev_signal
      BY <2>2 DEF IsSignal, EventsOf
    <2>4. FdOf(seq[n]) \in Signals
      BY <2>1, <2>2, <2>3 DEF Signals, FdOf, Ev
    <2>5. seq[n] \notin D
      BY <2>1, OnNotRests
    <2> QED
      BY <2>1, <2>4, <2>5 DEF Fits
  <1> QED
    BY <1>1, <1>3, <1>5, <1>6, DoingSound

LEMMA DoesIo ==
    ASSUME NEW arg, NEW c, NEW x
    PROVE  Does("io", arg, c, x) = epoll_event(c, x, arg[x])
  <1>1. \A how : how = "io" => Does(how, arg, c, x) = epoll_event(c, x, arg[x])
    BY DEF Does
  <1> QED
    BY <1>1

LEMMA IoSound ==
    ASSUME NEW b, Sound(b), NEW D, Rests(b, D), NEW seq, Len(seq) \in Nat,
           \A n \in 1 .. Len(seq) : seq[n] \in Fds \cup {PairFd},
           NEW c, c = epoll_events(b, seq)
    PROVE  Sound(c) /\ Rests(c, D)
  <1> DEFINE arg == [fd \in Fds \cup {PairFd} |-> What(fd)]
             f == CHOOSE f : f = [n \in 0 .. Len(seq) |->
                      IF n = 0 THEN b ELSE epoll_event(f[n - 1], seq[n], What(seq[n]))]
  <1>1. c = f[Len(seq)]
    BY DEF epoll_events, ForEach
  <1>2. PICK r : Doing(r, "io", arg, b, seq, Len(seq))
    BY DoingExists
  <1>3. \A n \in 1 .. Len(seq) : arg[seq[n]] = What(seq[n])
    OBVIOUS
  <1> HIDE DEF arg
  <1>4. ASSUME NEW a, NEW n \in 1 .. Len(seq)
        PROVE  Does("io", arg, a, seq[n]) = epoll_event(a, seq[n], What(seq[n]))
    BY <1>3, DoesIo
  <1>5. \A n \in 0 .. Len(seq) : n = 0 \/ n \in 1 .. Len(seq)
    OBVIOUS
  <1>6. \A g : Doing(g, "io", arg, b, seq, Len(seq)) <=>
                g = [n \in 0 .. Len(seq) |->
                        IF n = 0 THEN b ELSE epoll_event(g[n - 1], seq[n], What(seq[n]))]
    BY <1>4, <1>5 DEF Doing
  <1>7. Doing(f, "io", arg, b, seq, Len(seq))
    BY <1>2, <1>6
  <1> HIDE DEF f
  <1>8. \A n \in 1 .. Len(seq) : Fits("io", arg, seq[n], D)
    BY DEF Fits
  <1> QED
    BY <1>1, <1>7, <1>8, DoingSound

LEMMA TimeoutsSound ==
    ASSUME NEW b, Sound(b), NEW D, Rests(b, D), NEW expired, Len(expired) \in Nat,
           \A n \in 1 .. Len(expired) : expired[n] \in Ev /\ On(b, expired[n], "timeout"),
           \A m, n \in 1 .. Len(expired) : expired[m] = expired[n] => m = n
    PROVE  Sound(timeout_process(b, expired)) /\ Rests(timeout_process(b, expired), D)
  <1> DEFINE f == CHOOSE f : f = [n \in 0 .. Len(expired) |->
                      IF n = 0 THEN b
                      ELSE event_active(event_del(event_queue_remove(f[n - 1], expired[n],
                                                                     "timeout"), expired[n]),
                                        expired[n], "timeout", 1)]
  <1>1. timeout_process(b, expired) = f[Len(expired)]
    BY DEF timeout_process, ForEach
  <1>2. \E r : Doing(r, "timeout", 0, b, expired, Len(expired))
    BY DoingExists
  <1>3. Doing(f, "timeout", 0, b, expired, Len(expired))
    BY <1>2 DEF Doing, Does
  <1> HIDE DEF f
  <1>4. \A n \in 1 .. Len(expired) : Fits("timeout", 0, expired[n], D)
    BY OnNotRests DEF Fits
  <1> QED
    BY <1>1, <1>3, <1>4, DoingSound

----------------------------------------------------------------------------
(* The first base *)

LEMMA EmptySound == Sound(Empty) /\ \A D : Rests(Empty, D)
  <1>1. Shape(Empty)
    BY DEF Shape, Fields, Empty
  <1>2. NPriorities \in Nat /\ 0 \in Pri /\ NPriorities \div 2 \in Pri
    BY EventAssumption DEF Pri
  <1>3. \A e : Empty.ev_flags[e] = {} \/ e \notin Ev
    BY DEF Empty
  <1>4. /\ Empty.ev_flags \in [Ev -> SUBSET Queues]
        /\ Empty.ev_res \in [Ev -> SUBSET Results]
        /\ Empty.ev_ncalls \in [Ev -> Nat]
        /\ Empty.ev_pncalls \in [Ev -> {"null", "frame", "stale"}]
        /\ Empty.ncalls \in Nat
    BY DEF Empty
  <1>5. /\ Empty.ev_pri \in [Ev -> Pri]
        /\ Empty.left \in [Ev -> 0 .. MaxTv]
    BY <1>2, EventAssumption DEF Empty
  <1>6. /\ Empty.activequeues = [p \in Pri |-> <<>>]
        /\ Empty.signalqueue = <<>>
    BY DEF Empty
  <1>7. Empty.activequeues \in [Pri -> Seq(Ev)] /\ Empty.signalqueue \in Seq(Ev)
    BY <1>6
  <1>8. Empty.evep = [fd \in Fds \cup {PairFd} |-> [evread |-> Nil, evwrite |-> Nil]]
    BY DEF Empty
  <1>9. [evread |-> Nil, evwrite |-> Nil] = [s \in Sides |-> Nil]
    BY DEF Sides
  <1>10. \A fd \in Fds \cup {PairFd}, s \in Sides : Empty.evep[fd][s] = Nil
    BY <1>8, <1>9
  <1>11. Empty.evep \in [Fds \cup {PairFd} -> [Sides -> Ev \cup {Nil}]]
    BY <1>8, <1>9
  <1>12. Empty.event_count = 0 /\ Empty.event_count_active = 0
    BY DEF Empty
  <1>13. \A q : OnSome(Empty, q) = {}
    BY <1>3 DEF OnSome, On
  <1>14. \A q : Counted(Empty, q) = 0
    <2> TAKE q
    <2>1. OnSome(Empty, q) \ {ev_signal} = {}
      BY <1>13
    <2> QED
      BY <2>1, FS_EmptySet DEF Counted
  <1>15. Lists(<<>>, {})
    BY DEF Lists
  <1>16. \A p : Active(Empty, p) = {}
    BY <1>13 DEF Active
  <1>17. Exact(Empty)
    <2>1. Empty.event_count = Counted(Empty, "timeout") + Counted(Empty, "inserted")
                                 + Counted(Empty, "signal") + Counted(Empty, "active")
      BY <1>12, <1>14
    <2>2. Empty.event_count_active = Counted(Empty, "active")
      BY <1>12, <1>14
    <2>3. Lists(Empty.signalqueue, OnSome(Empty, "signal"))
      BY <1>6, <1>13, <1>15
    <2>4. \A p \in Pri : Lists(Empty.activequeues[p], Active(Empty, p))
      BY <1>6, <1>15, <1>16
    <2> QED
      BY <2>1, <2>2, <2>3, <2>4 DEF Exact
  <1>18. Registered(Empty)
    BY <1>3 DEF Registered, On
  <1>19. Slotted(Empty)
    BY <1>3, <1>10 DEF Slotted, On
  <1>20. \A D : Rests(Empty, D)
    BY <1>3 DEF Rests
  <1> QED
    BY <1>1, <1>4, <1>5, <1>7, <1>11, <1>17, <1>18, <1>19, <1>20 DEF Sound, Kept, Typed

LEMMA PreparedSound == Sound(Prepared) /\ Rests(Prepared, {})
  <1> DEFINE f == CHOOSE f : f = [n \in 0 .. Len(Added) |->
                      IF n = 0 THEN Empty ELSE event_add(f[n - 1], Added[n], NoTv)]
  <1>1. Prepared = f[Len(Added)]
    BY DEF Prepared, ForEach
  <1>2. Len(Added) \in Nat /\ \A n \in 1 .. Len(Added) : Added[n] \in Ev
    BY LoopAssumption DEF Ev
  <1>3. \E r : Doing(r, "add", 0, Empty, Added, Len(Added))
    BY <1>2, DoingExists
  <1>4. Doing(f, "add", 0, Empty, Added, Len(Added))
    BY <1>3 DEF Doing, Does
  <1> HIDE DEF f
  <1>5. \A n \in 1 .. Len(Added) : Fits("add", 0, Added[n], {})
    BY <1>2 DEF Fits
  <1>6. Sound(Empty) /\ Rests(Empty, {})
    BY EmptySound
  <1> QED
    BY <1>1, <1>2, <1>4, <1>5, <1>6, DoingSound

----------------------------------------------------------------------------
(* The invariant *)

\* Where the loop is.
Control ==
    /\ at \in {"out", "top", "deliver", "enter", "wait", "drain", "callback"}
    /\ cur \in Ev \cup {Nil}
    /\ at = "callback" <=> cur # Nil
    /\ eintr => at = "wait"
    /\ sigpending \subseteq blocked
    /\ activeq \in Pri
    /\ evsigcaught \in [Signals -> Nat]
    /\ deleted \subseteq User

IInv == Sound(base) /\ Rests(base, deleted) /\ Control

\* While an event is called back, event_del finds where to put an end to it; one
\* that is deleted has no call left.
Calls ==
    /\ cur \in deleted => base.ncalls = 0
    /\ cur # Nil /\ base.ncalls # 0
           => base.ev_ncalls[cur] # 0 /\ base.ev_pncalls[cur] = "frame"

\* What every step keeps.
Keeps == IInv' /\ (~SelfActive /\ Calls => Calls')

LEMMA InitIInv == Init => IInv /\ Calls
  <1> SUFFICES ASSUME Init PROVE IInv /\ Calls
    OBVIOUS
  <1>1. Sound(base) /\ Rests(base, deleted)
    BY PreparedSound DEF Init
  <1>2. 0 \in Pri
    BY EventAssumption DEF Pri
  <1>3. Control
    BY <1>2 DEF Init, Control
  <1>4. Calls
    BY DEF Init, Calls
  <1> QED
    BY <1>1, <1>3, <1>4 DEF IInv

\* With no callback running, no call is left.
LEMMA NoCall == ASSUME cur = Nil, deleted \subseteq User PROVE Calls
  BY EventAssumption DEF Calls, Ev

LEMMA InvSound == ASSUME IInv PROVE Sound(base) /\ Shape(base) /\ Typed(base)
  BY DEF IInv, Sound, Kept

\* A step that leaves the base alone.
LEMMA SameBase ==
    ASSUME IInv, base' = base, deleted' = deleted, cur' = cur, Control'
    PROVE  Keeps
  <1>1. Calls => Calls'
    BY DEF Calls
  <1>2. Sound(base') /\ Rests(base', deleted')
    BY DEF IInv
  <1> QED
    BY <1>1, <1>2 DEF Keeps, IInv

----------------------------------------------------------------------------
(* The program *)

\* A call of the program: the base it leaves.
LEMMA CallKeeps ==
    ASSUME IInv, NEW b, Sound(b), ProgramCall(b), deleted' \subseteq User,
           Rests(b, deleted'),
           ~SelfActive /\ Calls =>
               /\ cur \in deleted' => b.ncalls = 0
               /\ cur # Nil /\ b.ncalls # 0
                      => b.ev_ncalls[cur] # 0 /\ b.ev_pncalls[cur] = "frame"
    PROVE  Keeps
  <1>1. base' = [b EXCEPT !.ctl = TRUE] /\ UNCHANGED <<signal, place, ready>>
    BY DEF ProgramCall
  <1>2. Shape(base') /\ \A f \in Fields \ {"evsigmask", "needrecalc", "ctl"} : base'[f] = b[f]
    BY <1>1 DEF Sound, Kept, Shape, Fields
  <1>3. Sound(base') /\ Quiet(b, base') /\ base'.ev_flags = b.ev_flags /\ base'.ncalls = b.ncalls
    BY <1>2, MaskSound
  <1>4. Rests(base', deleted')
    BY <1>3 DEF Rests
  <1>5. Control'
    BY <1>1 DEF IInv, Control, signal, place
  <1>6. cur' = cur
    BY <1>1 DEF place
  <1>7. ~SelfActive /\ Calls => Calls'
    BY <1>3, <1>6 DEF Calls, Quiet
  <1> QED
    BY <1>3, <1>4, <1>5, <1>7 DEF Keeps, IInv

LEMMA AddKeeps ==
    ASSUME IInv, NEW e \in User, NEW tv \in 0 .. NoTv, NEW ok \in BOOLEAN,
           program_add(e, tv, ok)
    PROVE  Keeps
  <1> DEFINE a == [base EXCEPT !.ctl = ok]
             b == event_add(a, e, tv)
  <1>1. ProgramCall(b) /\ deleted' = deleted \ {e} /\ e \in Ev
    BY DEF program_add, Ev
  <1>2. Shape(a) /\ \A f \in Fields \ {"evsigmask", "needrecalc", "ctl"} : a[f] = base[f]
    BY InvSound DEF Shape, Fields
  <1> HIDE DEF a
  <1>3. Sound(a) /\ Quiet(base, a) /\ a.ev_flags = base.ev_flags
    BY <1>2, InvSound, MaskSound
  <1>4. Sound(b) /\ Touches(a, b, e) /\ Quiet(a, b)
    BY <1>1, <1>3, AddSound
  <1> HIDE DEF b
  <1>5. Rests(b, deleted')
    BY <1>1, <1>3, <1>4 DEF Rests, Touches, IInv
  <1>6. Quiet(base, b)
    BY <1>3, <1>4, QuietTwice
  <1>7. deleted' \subseteq User
    BY <1>1 DEF IInv, Control
  <1> QED
    BY <1>1, <1>4, <1>5, <1>6, <1>7, CallKeeps DEF Calls, Quiet

LEMMA DelKeeps ==
    ASSUME IInv, NEW e \in User, program_del(e)
    PROVE  Keeps
  <1>1. PICK a \in Hits(e) : ProgramCall(event_del(a, e))
    BY DEF program_del
  <1> DEFINE b == event_del(a, e)
             c == [base EXCEPT !.ncalls = 0]
  <1>2. deleted' = deleted \cup {e} /\ e \in Ev
    BY DEF program_del, Ev
  <1>3. a = base \/ (a = c /\ base.ev_pncalls[e] = "stale")
    BY <1>1 DEF Hits
  <1>4. Sound(c) /\ Quiet(base, c) /\ c.ev_flags = base.ev_flags /\ c.ncalls = 0
    <2>1. Shape(c) /\ c.ncalls = 0 /\ \A f \in Fields \ {"ncalls"} : c[f] = base[f]
      BY InvSound DEF Shape, Fields
    <2>2. /\ c.ev_flags = base.ev_flags /\ c.ev_res = base.ev_res
          /\ c.ev_ncalls = base.ev_ncalls /\ c.ev_pncalls = base.ev_pncalls
          /\ c.ev_pri = base.ev_pri /\ c.left = base.left
          /\ c.activequeues = base.activequeues /\ c.signalqueue = base.signalqueue
          /\ c.evep = base.evep
      BY <2>1 DEF Fields
    <2>3. Typed(c) /\ Same(base, c)
      BY <2>1, <2>2, InvSound DEF Typed, Same, Spoken, Fields
    <2> QED
      BY <2>1, <2>2, <2>3, InvSound, SameSound DEF Quiet
  <1> HIDE DEF c
  <1>5. Sound(a) /\ Quiet(base, a) /\ a.ev_flags = base.ev_flags
    BY <1>3, <1>4, InvSound DEF Quiet
  <1>6. /\ Sound(b) /\ Touches(a, b, e) /\ Quiet(a, b) /\ b.ev_flags[e] = {}
        /\ a.ev_ncalls[e] # 0 /\ a.ev_pncalls[e] = "frame" => b.ncalls = 0
    BY <1>2, <1>5, DelSound
  <1>7. ProgramCall(b)
    BY <1>1
  <1> HIDE DEF b
  <1>8. Rests(b, deleted')
    BY <1>2, <1>5, <1>6 DEF Rests, Touches, IInv
  <1>9. Quiet(base, b)
    BY <1>5, <1>6, QuietTwice
  <1>10. deleted' \subseteq User
    BY <1>2 DEF IInv, Control
  <1>11. ASSUME Calls, cur \in deleted' PROVE b.ncalls = 0
    <2>1. CASE base.ncalls = 0
      BY <1>9, <2>1 DEF Quiet
    <2>2. CASE base.ncalls # 0
      <3>1. cur = e
        BY <1>2, <1>11, <2>2 DEF Calls
      <3>2. base.ev_ncalls[e] # 0 /\ base.ev_pncalls[e] = "frame"
        <4>1. Nil \notin User
          BY EventAssumption DEF Ev
        <4> QED
          BY <1>11, <2>2, <3>1, <4>1 DEF Calls
      <3>3. a = base
        BY <1>3, <3>2
      <3> QED
        BY <1>6, <3>2, <3>3
    <2> QED
      BY <2>1, <2>2
  <1>12. ASSUME Calls, cur # Nil, b.ncalls # 0
         PROVE  b.ev_ncalls[cur] # 0 /\ b.ev_pncalls[cur] = "frame"
    BY <1>9, <1>12 DEF Calls, Quiet
  <1> QED
    BY <1>6, <1>7, <1>8, <1>10, <1>11, <1>12, CallKeeps

LEMMA ActiveKeeps ==
    ASSUME IInv, NEW e \in User, NEW res \in {"read", "timeout"}, NEW n \in 1 .. 2,
           program_active(e, res, n)
    PROVE  Keeps
  <1> DEFINE b == event_active(base, e, res, n)
  <1>1. ProgramCall(b) /\ deleted' = deleted \ {e} /\ e \in Ev /\ (SelfActive \/ e # cur)
    BY DEF program_active, Ev
  <1>2. res \in Results /\ n \in Nat
    BY DEF Results
  <1>3. Sound(b) /\ Touches(base, b, e) /\ Spares(base, b, e)
    BY <1>1, <1>2, InvSound, ActiveSound
  <1> HIDE DEF b
  <1>4. Rests(b, deleted')
    BY <1>1, <1>3 DEF Rests, Touches, IInv
  <1>5. deleted' \subseteq User
    BY <1>1 DEF IInv, Control
  <1>6. ASSUME ~SelfActive, Calls, cur \in deleted' PROVE b.ncalls = 0
    BY <1>1, <1>3, <1>6 DEF Calls, Spares
  <1>7. ASSUME ~SelfActive, Calls, cur # Nil, b.ncalls # 0
        PROVE  b.ev_ncalls[cur] # 0 /\ b.ev_pncalls[cur] = "frame"
    <2>1. cur # e /\ cur \in Ev
      BY <1>1, <1>7 DEF IInv, Control
    <2> QED
      BY <1>3, <1>7, <2>1 DEF Calls, Spares
  <1> QED
    BY <1>1, <1>3, <1>4, <1>5, <1>6, <1>7, CallKeeps

\* event_priority_set, of an event that is not active.
LEMMA PriorityKeeps ==
    ASSUME IInv, NEW e \in User, NEW pri \in Pri, event_priority_set(e, pri)
    PROVE  Keeps
  <1> DEFINE b == [base EXCEPT !.ev_pri[e] = pri]
  <1>1. ProgramCall(b) /\ deleted' = deleted /\ e \in Ev /\ ~On(base, e, "active")
    BY DEF event_priority_set, Ev
  <1>2. /\ Shape(b) /\ \A f \in Fields \ {"ev_pri"} : b[f] = base[f]
        /\ b.ev_pri = [base.ev_pri EXCEPT ![e] = pri]
    BY InvSound DEF Shape, Fields
  <1> HIDE DEF b
  <1>3. /\ b.ev_flags = base.ev_flags /\ b.ev_res = base.ev_res
        /\ b.ev_ncalls = base.ev_ncalls /\ b.ev_pncalls = base.ev_pncalls
        /\ b.left = base.left /\ b.event_count = base.event_count
        /\ b.event_count_active = base.event_count_active
        /\ b.activequeues = base.activequeues /\ b.signalqueue = base.signalqueue
        /\ b.evep = base.evep /\ b.unwatched = base.unwatched /\ b.ncalls = base.ncalls
    BY <1>2 DEF Fields
  <1>4. b.ev_pri \in [Ev -> Pri] /\ \A f \in Ev : f # e => b.ev_pri[f] = base.ev_pri[f]
    BY <1>2, InvSound DEF Typed
  <1>5. \A q : OnSome(b, q) = OnSome(base, q)
    BY <1>3 DEF OnSome, On
  <1>6. \A q : Counted(b, q) = Counted(base, q)
    BY <1>5 DEF Counted
  <1>7. \A p : Active(b, p) = Active(base, p)
    BY <1>1, <1>4, <1>5 DEF Active, OnSome
  <1>8. Exact(b)
    BY <1>3, <1>5, <1>6, <1>7, InvSound DEF Sound, Kept, Exact
  <1>9. Typed(b)
    BY <1>3, <1>4, InvSound DEF Typed
  <1>10. \A f, q : On(b, f, q) <=> On(base, f, q)
    BY <1>3 DEF On
  <1>11. Registered(b) /\ Slotted(b)
    BY <1>3, <1>10, InvSound DEF Sound, Registered, Slotted
  <1>12. Sound(b)
    BY <1>2, <1>8, <1>9, <1>11 DEF Sound, Kept
  <1>13. Rests(b, deleted')
    BY <1>1, <1>3 DEF IInv, Rests
  <1>14. deleted' \subseteq User
    BY <1>1 DEF IInv, Control
  <1> QED
    BY <1>1, <1>3, <1>12, <1>13, <1>14, CallKeeps DEF Calls

LEMMA LoopexitKeeps == ASSUME IInv, event_loopexit_cb PROVE Keeps
  <1>1. /\ base' = base /\ deleted' = deleted /\ cur' = cur /\ at' = at /\ activeq' = activeq
        /\ UNCHANGED <<eintr, sigpending, blocked, evsigcaught>>
    BY DEF event_loopexit_cb, prog, signal
  <1> QED
    BY <1>1, SameBase DEF IInv, Control

LEMMA EnterKeeps == ASSUME IInv, NEW f, event_base_loop(f) PROVE Keeps
  <1>1. /\ base' = base /\ deleted' = deleted /\ cur' = cur /\ activeq' = activeq
        /\ UNCHANGED <<eintr, sigpending, blocked, evsigcaught>>
        /\ at = "out" /\ at' = "top"
    BY DEF event_base_loop, prog, signal
  <1> QED
    BY <1>1, SameBase DEF IInv, Control

----------------------------------------------------------------------------
(* The clock, the descriptors and the signals *)

LEMMA TickKeeps == ASSUME IInv, Tick PROVE Keeps
  <1> DEFINE left == [e \in Ev |-> IF base.left[e] > 0 THEN base.left[e] - 1 ELSE 0]
  <1>1. base' = [base EXCEPT !.left = left]
    BY DEF Tick
  <1>2. left \in [Ev -> 0 .. MaxTv]
    <2>1. \A e \in Ev : base.left[e] \in 0 .. MaxTv
      BY InvSound DEF Typed
    <2>2. MaxTv \in Nat
      BY EventAssumption
    <2> QED
      BY <2>1, <2>2
  <1> HIDE DEF left
  <1>3. Shape(base') /\ base'.left = left /\ \A f \in Fields \ {"left"} : base'[f] = base[f]
    BY <1>1, InvSound DEF Shape, Fields
  <1>4. /\ base'.ev_flags = base.ev_flags /\ base'.ev_res = base.ev_res
        /\ base'.ev_ncalls = base.ev_ncalls /\ base'.ev_pncalls = base.ev_pncalls
        /\ base'.ev_pri = base.ev_pri /\ base'.activequeues = base.activequeues
        /\ base'.signalqueue = base.signalqueue /\ base'.evep = base.evep
        /\ base'.ncalls = base.ncalls
    BY <1>3 DEF Fields
  <1>5. Typed(base')
    BY <1>2, <1>3, <1>4, InvSound DEF Typed
  <1>6. Same(base, base')
    BY <1>3 DEF Same, Spoken, Fields
  <1>7. Sound(base')
    BY <1>3, <1>5, <1>6, InvSound, SameSound
  <1>8. /\ deleted' = deleted /\ UNCHANGED <<signal, place>>
    BY DEF Tick
  <1>9. Control' /\ cur' = cur
    BY <1>8 DEF IInv, Control, signal, place
  <1>10. Rests(base', deleted')
    BY <1>4, <1>8 DEF IInv, Rests
  <1>11. Calls => Calls'
    BY <1>4, <1>8, <1>9 DEF Calls
  <1> QED
    BY <1>7, <1>9, <1>10, <1>11 DEF Keeps, IInv

LEMMA ReadyKeeps == ASSUME IInv, NEW fd, NEW d, ReadyChange(fd, d) PROVE Keeps
  <1>1. /\ base' = base /\ deleted' = deleted /\ cur' = cur /\ at' = at /\ activeq' = activeq
        /\ UNCHANGED <<eintr, sigpending, blocked, evsigcaught>>
    BY DEF ReadyChange, prog, signal, place
  <1> QED
    BY <1>1, SameBase DEF IInv, Control

LEMMA HandleTyped ==
    ASSUME IInv, NEW sigs, Handle(sigs)
    PROVE  evsigcaught' \in [Signals -> Nat]
  <1>1. \A s \in Signals : evsigcaught[s] \in Nat
    BY DEF IInv, Control
  <1>2. CASE sigs = {}
    BY <1>2 DEF Handle, IInv, Control
  <1>3. CASE sigs # {}
    BY <1>1, <1>3 DEF Handle
  <1> QED
    BY <1>2, <1>3

LEMMA SignalKeeps == ASSUME IInv, NEW s, Signal(s) PROVE Keeps
  <1>1. /\ base' = base /\ deleted' = deleted /\ cur' = cur /\ at' = at /\ activeq' = activeq
        /\ blocked' = blocked
    BY DEF Signal, prog, place
  <1>2. evsigcaught' \in [Signals -> Nat]
    BY HandleTyped DEF Signal
  <1>3. sigpending' \subseteq blocked'
    BY <1>1 DEF Signal, IInv, Control
  <1>4. eintr' => at' = "wait"
    BY <1>1 DEF Signal, IInv, Control
  <1> QED
    BY <1>1, <1>2, <1>3, <1>4, SameBase DEF IInv, Control

----------------------------------------------------------------------------
(* The loop *)

LEMMA DeliverKeeps == ASSUME IInv, evsignal_deliver PROVE Keeps
  <1>1. /\ base' = base /\ deleted' = deleted /\ cur' = cur /\ activeq' = activeq
        /\ at = "deliver" /\ at' = "enter" /\ eintr' = eintr
    BY DEF evsignal_deliver, prog, To
  <1>2. evsigcaught' \in [Signals -> Nat]
    BY HandleTyped DEF evsignal_deliver
  <1>3. sigpending' \subseteq blocked'
    BY DEF evsignal_deliver, IInv, Control
  <1> QED
    BY <1>1, <1>2, <1>3, SameBase DEF IInv, Control

LEMMA SleepKeeps == ASSUME IInv, Sleep PROVE Keeps
  <1>1. /\ base' = base /\ deleted' = deleted /\ cur' = cur /\ activeq' = activeq
        /\ UNCHANGED <<eintr, sigpending, blocked, evsigcaught>>
        /\ at = "enter" /\ at' = "wait"
    BY DEF Sleep, prog, signal, To
  <1> QED
    BY <1>1, SameBase DEF IInv, Control

\* evsignal_recalc: libevent's own event is added, the mask and the handlers follow.
LEMMA RecalcSound ==
    ASSUME IInv, NEW c, c = evsignal_recalc.base
    PROVE  Sound(c) /\ Rests(c, deleted) /\ blocked \subseteq evsignal_recalc.blocked
  <1> DEFINE b == IF ev_signal_added THEN base ELSE event_add(base, ev_signal, NoTv)
  <1>1. c = [b EXCEPT !.needrecalc = FALSE]
    BY DEF evsignal_recalc
  <1>2. blocked \subseteq evsignal_recalc.blocked
    BY DEF evsignal_recalc
  <1>3. Sound(b) /\ Rests(b, deleted)
    <2>1. CASE ev_signal_added
      BY <2>1, InvSound DEF IInv
    <2>2. CASE ~ev_signal_added
      <3>1. ev_signal \in Ev /\ ev_signal \notin deleted /\ NoTv \in 0 .. NoTv
        BY EventAssumption DEF IInv, Control, Ev, NoTv
      <3> DEFINE a == event_add(base, ev_signal, NoTv)
      <3>2. Sound(a) /\ Touches(base, a, ev_signal)
        BY <3>1, InvSound, AddSound
      <3> HIDE DEF a
      <3>3. Rests(a, deleted)
        BY <3>1, <3>2, TouchRests DEF IInv
      <3> QED
        BY <2>2, <3>2, <3>3 DEF a
    <2> QED
      BY <2>1, <2>2
  <1> HIDE DEF b
  <1>4. Shape(c) /\ \A f \in Fields \ {"evsigmask", "needrecalc", "ctl"} : c[f] = b[f]
    BY <1>1, <1>3 DEF Sound, Kept, Shape, Fields
  <1>5. Sound(c) /\ c.ev_flags = b.ev_flags
    BY <1>3, <1>4, MaskSound
  <1> QED
    BY <1>2, <1>3, <1>5 DEF Rests

LEMMA RecalcKeeps == ASSUME IInv, Recalc PROVE Keeps
  <1>1. Sound(base') /\ Rests(base', deleted) /\ blocked \subseteq blocked'
    BY RecalcSound DEF Recalc, Recalculated
  <1>2. /\ deleted' = deleted /\ cur' = cur /\ activeq' = activeq
        /\ UNCHANGED <<eintr, sigpending, evsigcaught>>
        /\ at = "top" /\ at' \in {"out", "deliver"}
    BY DEF Recalc
  <1>3. Control'
    BY <1>1, <1>2 DEF IInv, Control
  <1>4. cur' = Nil /\ deleted' \subseteq User
    BY <1>2 DEF IInv, Control
  <1>5. Calls'
    BY <1>4, EventAssumption DEF Calls, Ev
  <1> QED
    BY <1>1, <1>2, <1>3, <1>5 DEF Keeps, IInv

\* The orders of a finite set.
LEMMA Orders ==
    ASSUME NEW S, IsFiniteSet(S), NEW seq \in SetToSeqs(S)
    PROVE  /\ Len(seq) \in Nat /\ DOMAIN seq = 1 .. Len(seq)
           /\ \A n \in 1 .. Len(seq) : seq[n] \in S
           /\ \A m, n \in 1 .. Len(seq) : seq[m] = seq[n] => m = n
  <1> DEFINE l == Cardinality(S)
  <1>1. l \in Nat
    BY FS_CardinalityType
  <1>2. seq \in [1 .. l -> S] /\ \A i, j \in 1 .. l : i # j => seq[i] # seq[j]
    BY DEF SetToSeqs
  <1> HIDE DEF l
  <1>3. Len(seq) = l /\ DOMAIN seq = 1 .. l
    BY <1>1, <1>2
  <1> QED
    BY <1>1, <1>2, <1>3

\* Where event_process_active starts.
LEMMA ProcessControl ==
    ASSUME NEW b, Sound(b), activeq \in Pri, Process(b)
    PROVE  at' \in {"drain", "out", "top"} /\ activeq' \in Pri
  <1> DEFINE filled == {p \in Pri : b.activequeues[p] # <<>>}
             first == CHOOSE p \in filled : \A q \in filled : p <= q
  <1>1. CASE b.event_count_active = 0
    BY <1>1 DEF Process
  <1>2. CASE b.event_count_active # 0
    <2>1. OnSome(b, "active") # {}
      <3>1. CASE OnSome(b, "active") = {}
        <4>1. OnSome(b, "active") \ {ev_signal} = {}
          BY <3>1
        <4>2. Counted(b, "active") = 0
          BY <4>1, FS_EmptySet DEF Counted
        <4> QED
          BY <1>2, <4>2 DEF Sound, Kept, Exact
      <3> QED
        BY <3>1
    <2>2. PICK e \in Ev : e \in OnSome(b, "active")
      BY <2>1 DEF OnSome
    <2>3. b.ev_pri[e] \in Pri /\ e \in Active(b, b.ev_pri[e])
      BY <2>2 DEF Sound, Kept, Typed, Active
    <2> DEFINE q == b.activequeues[b.ev_pri[e]]
    <2>4. Lists(q, Active(b, b.ev_pri[e]))
      BY <2>3 DEF Sound, Kept, Exact
    <2>5. q # <<>>
      <3>1. \E n \in 1 .. Len(q) : q[n] = e
        BY <2>3, <2>4 DEF Lists
      <3> HIDE DEF q
      <3> QED
        BY <3>1
    <2>6. filled # {} /\ filled \subseteq Nat
      BY <2>3, <2>5 DEF Pri
    <2> HIDE DEF filled
    <2>7. \E p \in filled : \A r \in filled : p <= r
      BY <2>6, Smallest
    <2>8. first \in filled
      BY <2>7
    <2>9. first \in Pri
      BY <2>8 DEF filled
    <2>10. at' = "drain" /\ activeq' = first
      BY <1>2 DEF Process, filled
    <2> QED
      BY <2>9, <2>10
  <1> QED
    BY <1>1, <1>2

\* epoll_dispatch: signals, descriptors, times; what a call before deleted
\* from the queues stays off them, and no deleted event comes to them.
LEMMA DispatchKeeps == ASSUME IInv, Dispatch PROVE Keeps
  <1> DEFINE found == IF eintr THEN {} ELSE Reported
             recalced == evsignal_recalc.base
             caught == eintr \/ evsignal_caught
  <1>1. PICK fds \in SetToSeqs(found), expired \in SetToAllKPermutations(Timers(base)) :
           epoll_dispatch(fds, expired)
    BY DEF Dispatch
  <1> DEFINE signals == IF caught THEN evsignal_process(recalced, evsigcaught) ELSE recalced
             io == epoll_events(signals, fds)
             last == timeout_process(io, expired)
  <1>2. /\ base' = last /\ Process(last) /\ Returns
        /\ ToSet(expired) = {e \in Timers(io) : io.left[e] = 0}
        /\ evsigcaught' = IF caught THEN [s \in Signals |-> 0] ELSE evsigcaught
        /\ blocked' = evsignal_recalc.blocked
        /\ eintr' = FALSE
        /\ UNCHANGED <<deleted, cur, sigpending>>
    BY <1>1 DEF epoll_dispatch, Recalculated
  <1>3. Sound(recalced) /\ Rests(recalced, deleted) /\ blocked \subseteq blocked'
    BY <1>2, RecalcSound
  <1> HIDE DEF recalced, caught
  <1>4. evsigcaught \in [Signals -> Nat]
    BY DEF IInv, Control
  <1>5. Sound(signals) /\ Rests(signals, deleted)
    BY <1>3, <1>4, SignalsSound
  <1> HIDE DEF signals
  <1>6. Len(fds) \in Nat /\ \A n \in 1 .. Len(fds) : fds[n] \in Fds \cup {PairFd}
    <2>1. found \in SUBSET (Fds \cup {PairFd})
      BY DEF Reported
    <2>2. IsFiniteSet(Fds \cup {PairFd})
      BY EventAssumption, FS_AddElement
    <2>3. IsFiniteSet(found)
      BY <2>1, <2>2, FS_Subset
    <2> HIDE DEF found
    <2>4. Len(fds) \in Nat /\ \A n \in 1 .. Len(fds) : fds[n] \in found
      BY <1>1, <2>3, Orders
    <2> QED
      BY <2>1, <2>4
  <1>7. Sound(io) /\ Rests(io, deleted)
    BY <1>5, <1>6, IoSound
  <1> HIDE DEF io
  <1>8. /\ Len(expired) \in Nat /\ DOMAIN expired = 1 .. Len(expired)
        /\ \A m, n \in 1 .. Len(expired) : expired[m] = expired[n] => m = n
    <2>1. PICK S \in SUBSET Timers(base) : expired \in SetToSeqs(S)
      BY <1>1 DEF SetToAllKPermutations
    <2>2. S \in SUBSET Ev
      BY <2>1 DEF Timers
    <2>3. IsFiniteSet(S)
      BY <2>2, EvFinite, FS_Subset
    <2> QED
      BY <2>1, <2>3, Orders
  <1>9. \A n \in 1 .. Len(expired) : expired[n] \in Ev /\ On(io, expired[n], "timeout")
    <2> TAKE n \in 1 .. Len(expired)
    <2>1. expired[n] \in ToSet(expired)
      BY <1>8 DEF ToSet
    <2> QED
      BY <1>2, <2>1 DEF Timers
  <1>10. Sound(last) /\ Rests(last, deleted)
    BY <1>7, <1>8, <1>9, TimeoutsSound
  <1> HIDE DEF last
  <1>11. at' \in {"drain", "out", "top"} /\ activeq' \in Pri
    BY <1>2, <1>10, ProcessControl DEF IInv, Control
  <1>12. evsigcaught' \in [Signals -> Nat]
    BY <1>2, <1>4
  <1>13. cur' = Nil /\ cur = Nil
    BY <1>2 DEF Returns, IInv, Control
  <1>14. Control'
    BY <1>2, <1>3, <1>11, <1>12, <1>13 DEF IInv, Control
  <1>15. Calls'
    BY <1>2, <1>13, EventAssumption DEF IInv, Control, Calls, Ev
  <1> QED
    BY <1>2, <1>10, <1>14, <1>15 DEF Keeps, IInv

\* What a base has beside what Sound speaks of.
LEMMA CountsSound ==
    ASSUME NEW b, Sound(b), NEW c, Shape(c),
           \A f \in Fields \ {"ev_ncalls", "ev_pncalls", "ncalls"} : c[f] = b[f],
           c.ev_ncalls \in [Ev -> Nat], c.ncalls \in Nat,
           c.ev_pncalls \in [Ev -> {"null", "frame", "stale"}]
    PROVE  Sound(c) /\ c.ev_flags = b.ev_flags
  <1>1. /\ c.ev_flags = b.ev_flags /\ c.ev_res = b.ev_res /\ c.ev_pri = b.ev_pri
        /\ c.left = b.left /\ c.activequeues = b.activequeues
        /\ c.signalqueue = b.signalqueue /\ c.evep = b.evep
    BY DEF Fields
  <1>2. Typed(c)
    BY <1>1 DEF Sound, Kept, Typed
  <1>3. Same(b, c)
    BY DEF Same, Spoken, Fields
  <1> QED
    BY <1>1, <1>2, <1>3, SameSound

\* A call of an event, or the end of its calls.
LEMMA TurnKeeps ==
    ASSUME IInv, NEW b, Sound(b), Rests(b, deleted), NEW e \in Ev, NEW n \in Nat,
           Turn(b, e, n), at # "wait",
           ~SelfActive /\ Calls /\ n # 0 => e \notin deleted /\ b.ev_pncalls[e] = "frame",
           UNCHANGED <<deleted, activeq, eintr, sigpending, blocked, evsigcaught>>
    PROVE  Keeps
  <1>0. Nil \notin Ev /\ ev_signal \notin User /\ User \subseteq Ev
    BY EventAssumption DEF Ev
  <1>1. Shape(b) /\ Typed(b)
    BY DEF Sound, Kept
  <1>2. CASE n = 0
    <2>1. base' = [b EXCEPT !.ncalls = 0] /\ at' = "drain" /\ cur' = Nil
      BY <1>2 DEF Turn
    <2>2. /\ Shape(base') /\ base'.ncalls = 0
          /\ \A f \in Fields \ {"ncalls"} : base'[f] = b[f]
      BY <1>1, <2>1 DEF Shape, Fields
    <2>3. base'.ev_ncalls = b.ev_ncalls /\ base'.ev_pncalls = b.ev_pncalls
      BY <2>2 DEF Fields
    <2>4. Sound(base') /\ base'.ev_flags = b.ev_flags
      <3>1. \A f \in Fields \ {"ev_ncalls", "ev_pncalls", "ncalls"} : base'[f] = b[f]
        BY <2>2
      <3>2. /\ base'.ev_ncalls \in [Ev -> Nat] /\ base'.ncalls \in Nat
            /\ base'.ev_pncalls \in [Ev -> {"null", "frame", "stale"}]
        BY <1>1, <2>2, <2>3 DEF Typed
      <3> QED
        BY <2>2, <3>1, <3>2, CountsSound
    <2>5. Rests(base', deleted')
      BY <2>4 DEF Rests
    <2>6. Control'
      BY <2>1 DEF IInv, Control
    <2>7. Calls'
      BY <1>0, <2>1 DEF IInv, Control, Calls
    <2> QED
      BY <2>4, <2>5, <2>6, <2>7 DEF Keeps, IInv
  <1>3. CASE n # 0
    <2>1. /\ base' = [b EXCEPT !.ncalls = n - 1, !.ev_ncalls[e] = n - 1]
          /\ at' = "callback" /\ cur' = e
      BY <1>3 DEF Turn
    <2>2. /\ Shape(base') /\ base'.ncalls = n - 1
          /\ base'.ev_ncalls = [b.ev_ncalls EXCEPT ![e] = n - 1]
          /\ \A f \in Fields \ {"ncalls", "ev_ncalls"} : base'[f] = b[f]
      BY <1>1, <2>1 DEF Shape, Fields
    <2>3. n - 1 \in Nat
      BY <1>3
    <2>4. base'.ev_pncalls = b.ev_pncalls /\ base'.ev_ncalls \in [Ev -> Nat]
          /\ base'.ev_ncalls[e] = n - 1
      BY <1>1, <2>2, <2>3 DEF Fields, Typed
    <2>5. Sound(base') /\ base'.ev_flags = b.ev_flags
      BY <1>1, <2>2, <2>3, <2>4, CountsSound DEF Typed
    <2>6. Rests(base', deleted')
      BY <2>5 DEF Rests
    <2>7. Control'
      BY <1>0, <2>1 DEF IInv, Control
    <2>8. ~SelfActive /\ Calls => Calls'
      BY <1>3, <2>1, <2>2, <2>4 DEF Calls
    <2> QED
      BY <2>5, <2>6, <2>7, <2>8 DEF Keeps, IInv
  <1> QED
    BY <1>2, <1>3

LEMMA NextKeeps == ASSUME IInv, NextEvent PROVE Keeps
  <1> DEFINE e == Head(base.activequeues[activeq])
             c == event_queue_remove(base, e, "active")
             b == [c EXCEPT !.ev_pncalls[e] = "frame"]
  <1>1. /\ at = "drain" /\ base.activequeues[activeq] # <<>> /\ activeq \in Pri
        /\ Turn(b, e, base.ev_ncalls[e])
        /\ UNCHANGED <<deleted, activeq, eintr, sigpending, blocked, evsigcaught>>
    BY DEF NextEvent, signal, IInv, Control
  <1>2. e \in Active(base, activeq)
    <2> DEFINE q == base.activequeues[activeq]
    <2>1. Lists(q, Active(base, activeq))
      BY <1>1, InvSound DEF Sound, Kept, Exact
    <2>2. q # <<>>
      BY <1>1
    <2> HIDE DEF q
    <2>3. Head(q) = q[1] /\ 1 \in 1 .. Len(q)
      BY <2>1, <2>2 DEF Lists
    <2>4. Head(q) \in Active(base, activeq)
      BY <2>1, <2>3 DEF Lists
    <2> QED
      BY <2>4 DEF q
  <1>3. e \in Ev /\ On(base, e, "active")
    BY <1>2 DEF Active, OnSome
  <1>4. e \notin deleted
    BY <1>3, OnNotRests DEF IInv
  <1>5. base.ev_ncalls[e] \in Nat
    BY <1>3, InvSound DEF Typed
  <1> HIDE DEF e
  <1>6. "active" \in Queues
    BY DEF Queues
  <1>7. Sound(c) /\ Touches(base, c, e)
    BY <1>3, <1>6, InvSound, RemoveFields, RemoveSound
  <1> HIDE DEF c
  <1>8. Rests(c, deleted)
    BY <1>4, <1>7, TouchRests DEF IInv
  <1>9. /\ Shape(b) /\ b.ev_pncalls = [c.ev_pncalls EXCEPT ![e] = "frame"]
        /\ \A f \in Fields \ {"ev_pncalls"} : b[f] = c[f]
    BY <1>7 DEF Sound, Kept, Shape, Fields
  <1> HIDE DEF b
  <1>10. b.ev_ncalls = c.ev_ncalls /\ b.ncalls = c.ncalls
    BY <1>9 DEF Fields
  <1>11. b.ev_pncalls \in [Ev -> {"null", "frame", "stale"}] /\ b.ev_pncalls[e] = "frame"
    BY <1>3, <1>7, <1>9 DEF Sound, Kept, Typed
  <1>12. Sound(b) /\ b.ev_flags = c.ev_flags
    <2>1. \A f \in Fields \ {"ev_ncalls", "ev_pncalls", "ncalls"} : b[f] = c[f]
      BY <1>9
    <2>2. b.ev_ncalls \in [Ev -> Nat] /\ b.ncalls \in Nat
      BY <1>7, <1>10 DEF Sound, Kept, Typed
    <2> QED
      BY <1>7, <1>9, <1>11, <2>1, <2>2, CountsSound
  <1>13. Rests(b, deleted)
    BY <1>8, <1>12 DEF Rests
  <1> QED
    BY <1>1, <1>3, <1>4, <1>5, <1>11, <1>12, <1>13, TurnKeeps

LEMMA DrainedKeeps == ASSUME IInv, Drained PROVE Keeps
  <1> DEFINE pncalls == [e \in Ev |-> IF base.ev_pncalls[e] = "frame" THEN "stale"
                                      ELSE base.ev_pncalls[e]]
  <1>1. /\ base' = [base EXCEPT !.ev_pncalls = pncalls]
        /\ at = "drain" /\ at' \in {"out", "top"}
        /\ UNCHANGED <<deleted, cur, activeq, eintr, sigpending, blocked, evsigcaught>>
    BY DEF Drained, signal
  <1>2. pncalls \in [Ev -> {"null", "frame", "stale"}]
    BY InvSound DEF Typed
  <1> HIDE DEF pncalls
  <1>3. /\ Shape(base') /\ base'.ev_pncalls = pncalls
        /\ \A f \in Fields \ {"ev_pncalls"} : base'[f] = base[f]
    BY <1>1, InvSound DEF Shape, Fields
  <1>4. base'.ev_ncalls = base.ev_ncalls /\ base'.ncalls = base.ncalls
    BY <1>3 DEF Fields
  <1>5. Sound(base') /\ base'.ev_flags = base.ev_flags
    BY <1>2, <1>3, <1>4, InvSound, CountsSound DEF Typed
  <1>6. Rests(base', deleted')
    BY <1>1, <1>5 DEF Rests, IInv
  <1>7. Control' /\ cur' = Nil
    BY <1>1 DEF IInv, Control
  <1>8. Calls'
    BY <1>7, EventAssumption DEF Control, Calls, Ev
  <1> QED
    BY <1>5, <1>6, <1>7, <1>8 DEF Keeps, IInv

LEMMA ReturnKeeps == ASSUME IInv, Return PROVE Keeps
  <1>1. /\ at = "callback" /\ Turn(base, cur, base.ncalls)
        /\ UNCHANGED <<deleted, activeq, eintr, sigpending, blocked, evsigcaught>>
    BY DEF Return, Running, signal
  <1>2. cur \in Ev /\ cur # Nil
    BY <1>1 DEF IInv, Control
  <1>3. base.ncalls \in Nat /\ Sound(base) /\ Rests(base, deleted)
    BY InvSound DEF Typed, IInv
  <1>4. Calls /\ base.ncalls # 0 => cur \notin deleted /\ base.ev_pncalls[cur] = "frame"
    BY <1>2 DEF Calls
  <1> QED
    BY <1>1, <1>2, <1>3, <1>4, TurnKeeps

LEMMA EvsignalKeeps == ASSUME IInv, evsignal_cb PROVE Keeps
  <1> DEFINE b == event_add(base, ev_signal, NoTv)
  <1>1. /\ at = "callback" /\ cur = ev_signal /\ Turn(b, cur, base.ncalls)
        /\ UNCHANGED <<deleted, activeq, eintr, sigpending, blocked, evsigcaught>>
    BY DEF evsignal_cb
  <1>2. ev_signal \in Ev /\ ev_signal \notin deleted /\ NoTv \in 0 .. NoTv /\ cur # Nil
    BY <1>1, EventAssumption DEF IInv, Control, Ev, NoTv
  <1>3. Sound(b) /\ Touches(base, b, ev_signal) /\ Quiet(base, b)
    BY <1>2, InvSound, AddSound
  <1> HIDE DEF b
  <1>4. Rests(b, deleted)
    BY <1>2, <1>3, TouchRests DEF IInv
  <1>5. base.ncalls \in Nat
    BY InvSound DEF Typed
  <1>6. Calls /\ base.ncalls # 0 => cur \notin deleted /\ b.ev_pncalls[cur] = "frame"
    BY <1>1, <1>2, <1>3 DEF Calls, Quiet
  <1> QED
    BY <1>1, <1>2, <1>3, <1>4, <1>5, <1>6, TurnKeeps

----------------------------------------------------------------------------
(* Every step *)

LEMMA NextKeepsAll == ASSUME IInv, [Next]_vars PROVE Keeps
  <1>1. CASE Program
    BY <1>1, AddKeeps, DelKeeps, ActiveKeeps, PriorityKeeps, LoopexitKeeps, EnterKeeps
       DEF Program
  <1>2. CASE Outside
    BY <1>2, TickKeeps, ReadyKeeps, SignalKeeps DEF Outside
  <1>3. CASE Loop
    BY <1>3, RecalcKeeps, DeliverKeeps, SleepKeeps, DispatchKeeps, NextKeeps, DrainedKeeps,
       ReturnKeeps, EvsignalKeeps DEF Loop
  <1>4. CASE UNCHANGED vars
    <2>1. /\ base' = base /\ deleted' = deleted /\ cur' = cur /\ at' = at
          /\ UNCHANGED <<activeq, eintr, sigpending, blocked, evsigcaught>>
      BY <1>4 DEF vars, prog, signal, place
    <2> QED
      BY <2>1, SameBase DEF IInv, Control
  <1> QED
    BY <1>1, <1>2, <1>3, <1>4 DEF Next

LEMMA AlwaysIInv == Spec => []IInv
  <1>1. Init => IInv
    BY InitIInv
  <1>2. IInv /\ [Next]_vars => IInv'
    BY NextKeepsAll DEF Keeps
  <1> QED
    BY <1>1, <1>2, PTL DEF Spec

LEMMA AlwaysCalls == ASSUME ~SelfActive PROVE Spec => [](IInv /\ Calls)
  <1>1. Init => IInv /\ Calls
    BY InitIInv
  <1>2. IInv /\ Calls /\ [Next]_vars => (IInv /\ Calls)'
    BY NextKeepsAll DEF Keeps
  <1> QED
    BY <1>1, <1>2, PTL DEF Spec

\* A sequence that lists a set has all of it, each element once.
LEMMA ListsExact ==
    ASSUME NEW seq, NEW S, Lists(seq, S)
    PROVE  ToSet(seq) = S /\ IsInjective(seq)
  <1>1. DOMAIN seq = 1 .. Len(seq)
    BY DEF Lists
  <1>2. \A i \in ToSet(seq) : i \in S
    BY <1>1 DEF Lists, ToSet
  <1>3. \A i \in S : i \in ToSet(seq)
    BY <1>1 DEF Lists, ToSet
  <1>4. IsInjective(seq)
    BY <1>1 DEF Lists, IsInjective
  <1> QED
    BY <1>2, <1>3, <1>4

\* For any events, descriptors and priorities, in every interleaving of the
\* loop, the callbacks, the program, the clock, the kernel and the signals: the
\* flags of the events, the queues of event.c and its two counters tell the same.
THEOREM AlwaysQueuesExact == Spec => []QueuesExact
  <1>1. IInv => QueuesExact
    <2> SUFFICES ASSUME IInv PROVE QueuesExact
      OBVIOUS
    <2>1. TypeOK
      <3>1. \A e \in Ev : /\ base.ev_flags[e] \in SUBSET Queues
                          /\ base.ev_res[e] \in SUBSET Results
                          /\ base.left[e] \in 0 .. MaxTv
        BY InvSound DEF Typed
      <3> QED
        BY <3>1 DEF IInv, Control, TypeOK
    <2>2. Exact(base)
      BY InvSound DEF Sound, Kept
    <2>3. /\ base.event_count = Counted(base, "timeout") + Counted(base, "inserted")
                                   + Counted(base, "signal") + Counted(base, "active")
          /\ base.event_count_active = Counted(base, "active")
      BY <2>2 DEF Exact
    <2>4. ToSet(base.signalqueue) = OnSome(base, "signal") /\ IsInjective(base.signalqueue)
      BY <2>2, ListsExact DEF Exact
    <2>5. \A p \in Pri : /\ IsInjective(base.activequeues[p])
                         /\ ToSet(base.activequeues[p]) = Active(base, p)
      BY <2>2, ListsExact DEF Exact
    <2> QED
      BY <2>1, <2>3, <2>4, <2>5 DEF QueuesExact, Counted, OnSome, Active
  <1> QED
    BY <1>1, AlwaysIInv, PTL

\* The kernel reports to events that are inserted, of the descriptor and the
\* direction it reports, never to one that was deleted; and an event that is
\* inserted gets its reports unless its epoll_ctl failed.
THEOREM AlwaysKernelExact == Spec => []KernelExact
  <1>1. IInv => KernelExact
    BY InvSound DEF Sound, Slotted, KernelExact, Sides
  <1> QED
    BY <1>1, AlwaysIInv, PTL

\* "Allows deletes to work": if no callback activates its own event, an event
\* that was deleted is not called before it is added or activated again, though
\* its activation had calls left and though deletes come between any two.
THEOREM DeletesAlwaysWork ==
    ASSUME ~SelfActive
    PROVE  Spec => DeletesWork
  <1>1. IInv /\ Calls /\ [Next]_vars
          => [(NextEvent \/ Return) /\ at' = "callback" => cur' \notin deleted]_vars
    <2> SUFFICES ASSUME IInv, Calls, NextEvent \/ Return, at' = "callback"
                 PROVE  cur' \notin deleted
      OBVIOUS
    <2>1. CASE NextEvent
      <3> DEFINE q == base.activequeues[activeq]
                 e == Head(q)
                 b == [event_queue_remove(base, e, "active") EXCEPT !.ev_pncalls[e] = "frame"]
      <3>1. q # <<>> /\ activeq \in Pri /\ Turn(b, e, base.ev_ncalls[e])
        BY <2>1 DEF NextEvent, IInv, Control
      <3> HIDE DEF b
      <3>2. cur' = e
        BY <3>1 DEF Turn
      <3>3. Lists(q, Active(base, activeq))
        BY <3>1, InvSound DEF Sound, Kept, Exact
      <3> HIDE DEF q
      <3>4. Head(q) = q[1] /\ 1 \in 1 .. Len(q)
        BY <3>1, <3>3 DEF Lists
      <3>5. e \in Active(base, activeq)
        BY <3>3, <3>4 DEF Lists
      <3>6. e \in Ev /\ On(base, e, "active")
        BY <3>5 DEF Active, OnSome
      <3> QED
        BY <3>2, <3>6, OnNotRests DEF IInv
    <2>2. CASE Return
      <3>1. Turn(base, cur, base.ncalls) /\ base.ncalls # 0 /\ cur' = cur
        BY <2>2 DEF Return, Turn
      <3> QED
        BY <3>1 DEF Calls
    <2> QED
      BY <2>1, <2>2
  <1> QED
    BY <1>1, AlwaysCalls, PTL DEF Spec, DeletesWork

==============================================================================
