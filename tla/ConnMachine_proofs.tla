------------------------- MODULE ConnMachine_proofs -------------------------
(***************************************************************************)
(* Proofs about the state machine of a connection, for any set of          *)
(* requests, any sizes of buffers and blocks, and any number of requests:  *)
(* a connection that waits is woken by what it waits for, and every        *)
(* reference it took to an item is where it will be released; the server   *)
(* and the client agree on where a request begins, and on which requests   *)
(* are answered, however the parts arrive.                                 *)
(***************************************************************************)
EXTENDS ConnMachine, TLAPS, WellFoundedInduction, SequenceTheorems, FiniteSetTheorems

Fields == {"state", "ev", "rbuf", "rsize", "rlbytes", "sbytes", "item", "ileft",
           "out", "iovused", "msgused", "noreply", "write_and_go"}

\* The types of a connection that the proofs need.
ConnOK(d) ==
    /\ d = [f \in Fields |-> d[f]]
    /\ d.state \in States
    /\ d.rbuf \in Seq(Units) /\ d.rsize \in Nat \ {0} /\ Len(d.rbuf) <= d.rsize
    /\ d.rlbytes \in Nat /\ d.sbytes \in Nat
    /\ d.item \in BOOLEAN /\ d.ileft \in Nat
    /\ d.write_and_go \in {"read", "swallow", "closing"}

\* In which states a connection may hold items.
Holds(d) ==
    /\ d.state = "nread" => d.item
    /\ d.item => d.state \in {"nread", "closing"}
    /\ d.ileft # 0 => d.state \in {"mwrite", "closing"}

Held(d) == d.ileft + IF d.item THEN 1 ELSE 0

\* No get has a valid key before one that is too long.
NoLongGet == \A r \in Requests : r.long => r.keys <= 1

Reader ==
    /\ pc \in {"wait", "loop", "before_read", "after_read"}
    /\ pc \in {"before_read", "after_read"} => c.state = "read"
    /\ pc = "before_read" => ~HasLine(c.rbuf)

IInv ==
    /\ ConnOK(c) /\ Holds(c) /\ Reader /\ Awake
    /\ wire \in Seq(Units) /\ unsent \in Seq(Units) /\ refs \in Int
    /\ NoLongGet => refs = Held(c)

----------------------------------------------------------------------------
\* Lemmas about data.

LEMMA MinOfTwo ==
    ASSUME NEW a \in Int, NEW b \in Int
    PROVE  Min({a, b}) = IF a <= b THEN a ELSE b
  <1> DEFINE m == IF a <= b THEN a ELSE b
  <1>1. m \in {a, b} /\ \A y \in {a, b} : m <= y
    OBVIOUS
  <1>2. \A x \in {a, b} : (\A y \in {a, b} : x <= y) => x = m
    OBVIOUS
  <1> QED
    BY <1>1, <1>2 DEF Min

\* FirstLine chooses a place that exists.
LEMMA FirstLineIn ==
    ASSUME NEW q \in Seq(Units), HasLine(q)
    PROVE  FirstLine(q) \in DOMAIN q
  <1> DEFINE T == {i \in DOMAIN q : IsLine(q[i])}
  <1>1. T \subseteq Nat /\ T # {}
    BY DEF HasLine
  <1>2. PICK x \in T : \A y \in T : ~(<<y, x>> \in OpToRel(<, Nat))
    <2> HIDE DEF T
    <2> QED
      BY <1>1, NatLessThanWellFounded, WFMin
  <1>3. \A y \in T : ~(y < x)
    BY <1>1, <1>2 DEF OpToRel
  <1>4. \A j \in 1 .. (x - 1) : ~IsLine(q[j])
    <2> SUFFICES ASSUME NEW j \in 1 .. (x - 1), IsLine(q[j]) PROVE FALSE
      OBVIOUS
    <2>1. x \in 1 .. Len(q)
      OBVIOUS
    <2>2. j \in T
      BY <2>1
    <2> QED
      BY <1>3, <2>1, <2>2
  <1>5. x \in DOMAIN q /\ IsLine(q[x])
    OBVIOUS
  <1> HIDE DEF T
  <1> QED
    BY <1>4, <1>5 DEF FirstLine

LEMMA Rest ==
    ASSUME NEW q \in Seq(Units), NEW n \in Nat, n <= Len(q)
    PROVE  /\ SubSeq(q, n + 1, Len(q)) \in Seq(Units)
           /\ Len(SubSeq(q, n + 1, Len(q))) = Len(q) - n
  <1>1. \A i \in n + 1 .. Len(q) : q[i] \in Units
    OBVIOUS
  <1> QED
    BY <1>1, SubSeqProperties

LEMMA FirstPart ==
    ASSUME NEW q \in Seq(Units), NEW n \in Nat, n <= Len(q)
    PROVE  SubSeq(q, 1, n) \in Seq(Units) /\ Len(SubSeq(q, 1, n)) = n
  <1>1. \A i \in 1 .. n : q[i] \in Units
    OBVIOUS
  <1> QED
    BY <1>1, SubSeqProperties

----------------------------------------------------------------------------
\* What the helpers do to a connection.

LEMMA SetState ==
    ASSUME NEW d, ConnOK(d), NEW s \in States
    PROVE  LET e == conn_set_state(d, s)
           IN  /\ ConnOK(e) /\ e.state = s /\ e.rbuf = d.rbuf
               /\ e.item = d.item /\ e.ileft = d.ileft
               /\ e.write_and_go = d.write_and_go
  <1>1. \A x : ConnOK(x) =>
          LET e == [x EXCEPT !.state = s]
          IN  /\ ConnOK(e) /\ e.state = s /\ e.rbuf = x.rbuf
              /\ e.item = x.item /\ e.ileft = x.ileft
              /\ e.write_and_go = x.write_and_go
    BY DEF ConnOK, Fields
  <1>2. CASE d.rsize > HighWat /\ Len(d.rbuf) < BufSize
    <2> DEFINE x == [d EXCEPT !.rsize = BufSize]
    <2>1. BufSize \in Nat \ {0} /\ Len(d.rbuf) \in Nat
      BY ConnAssumption DEF ConnOK
    <2>2. /\ ConnOK(x) /\ x.rbuf = d.rbuf /\ x.item = d.item
          /\ x.ileft = d.ileft /\ x.write_and_go = d.write_and_go
      BY <1>2, <2>1 DEF ConnOK, Fields
    <2>3. conn_shrink(d) = x
      BY <1>2 DEF conn_shrink
    <2> HIDE DEF x
    <2> QED
      BY <1>1, <2>2, <2>3 DEF conn_set_state
  <1>3. CASE ~(d.rsize > HighWat /\ Len(d.rbuf) < BufSize)
    <2>1. conn_shrink(d) = d
      BY <1>3 DEF conn_shrink
    <2> QED
      BY <1>1, <2>1 DEF conn_set_state
  <1> QED
    BY <1>2, <1>3

LEMMA OutString ==
    ASSUME NEW d, ConnOK(d)
    PROVE  LET e == out_string(d)
           IN  /\ ConnOK(e) /\ e.state \in {"read", "write"} /\ e.rbuf = d.rbuf
               /\ e.item = d.item /\ e.ileft = d.ileft
  <1> DEFINE quiet == [d EXCEPT !.noreply = FALSE]
             w == conn_set_state(d, "write")
  <1>1. ConnOK(quiet) /\ quiet.rbuf = d.rbuf /\ quiet.item = d.item
        /\ quiet.ileft = d.ileft
    BY DEF ConnOK, Fields
  <1>2. "read" \in States /\ "write" \in States
    BY DEF States
  <1>3. LET e == conn_set_state(quiet, "read")
        IN  ConnOK(e) /\ e.state = "read" /\ e.rbuf = d.rbuf
            /\ e.item = d.item /\ e.ileft = d.ileft
    <2> HIDE DEF quiet
    <2> QED
      BY <1>1, <1>2, SetState
  <1>4. ConnOK(w) /\ w.state = "write" /\ w.rbuf = d.rbuf /\ w.item = d.item
        /\ w.ileft = d.ileft
    BY <1>2, SetState
  <1>5. LET e == [w EXCEPT !.write_and_go = "read"]
        IN  ConnOK(e) /\ e.state = "write" /\ e.rbuf = d.rbuf
            /\ e.item = d.item /\ e.ileft = d.ileft
    <2> HIDE DEF w
    <2> QED
      BY <1>4 DEF ConnOK, Fields
  <1> QED
    BY <1>3, <1>5 DEF out_string

LEMMA UnitFields ==
    ASSUME NEW r \in Units
    PROVE  /\ r.keys \in Nat /\ r.long \in BOOLEAN /\ r.fits \in BOOLEAN
           /\ r.op = "get" => r \in Requests
  <1>1. CASE r \in Requests
    <2>1. r \in [op : Ops, noreply : BOOLEAN, fits : BOOLEAN, long : BOOLEAN,
                 keys : Nat]
      BY <1>1, ConnAssumption
    <2> QED
      BY <1>1, <2>1
  <1>2. CASE r \in {Unit("data"), Unit("data_end")}
    <2>1. r.keys \in Nat /\ r.op # "get"
      BY <1>2 DEF Unit
    <2>2. r.long = FALSE /\ r.fits = TRUE
      BY <1>2 DEF Unit
    <2> QED
      BY <2>1, <2>2, Zenon
  <1> QED
    BY <1>1, <1>2 DEF Units

\* Whatever a command is, its result holds what it took.
Took(x, q) ==
    /\ ConnOK(x.conn) /\ Holds(x.conn) /\ x.conn.rbuf = q /\ x.took \in Nat
    /\ x.conn.state \notin {"swallow", "closed", "crashed"}
    /\ NoLongGet => x.took = Held(x.conn)

LEMMA GetTakes ==
    ASSUME NEW d, ConnOK(d), ~d.item, d.ileft = 0, NEW r \in Units,
           NEW x \in process_get_command(d, r), r.op = "get"
    PROVE  Took(x, d.rbuf)
  <1>1. r \in Requests /\ r.keys \in Nat /\ r.long \in BOOLEAN
    BY UnitFields
  <1>2. PICK hits \in 0 .. (r.keys - IF r.long THEN 1 ELSE 0) :
          LET found == [d EXCEPT !.out = [n \in 1 .. hits |-> "value"],
                                 !.iovused = hits]
          IN  x = [conn |-> IF r.long THEN out_string(found)
                            ELSE [conn_set_state(found, "mwrite")
                                  EXCEPT !.ileft = hits, !.iovused = hits + 1,
                                         !.out = Append(@, "end")],
                   took |-> hits]
    BY DEF process_get_command
  <1> DEFINE found == [d EXCEPT !.out = [n \in 1 .. hits |-> "value"],
                                !.iovused = hits]
  <1>3. ConnOK(found) /\ found.rbuf = d.rbuf /\ ~found.item /\ found.ileft = 0
    BY DEF ConnOK, Fields
  <1>4. hits \in Nat
    BY <1>1
  <1>5. CASE r.long
    <2> DEFINE e == out_string(found)
    <2>1. ConnOK(e) /\ e.state \in {"read", "write"} /\ e.rbuf = d.rbuf
          /\ ~e.item /\ e.ileft = 0
      <3> HIDE DEF found
      <3> QED
        BY <1>3, OutString
    <2>2. x.conn = e /\ x.took = hits
      BY <1>2, <1>5
    <2>3. NoLongGet => hits = 0
      BY <1>1, <1>5 DEF NoLongGet
    <2> HIDE DEF e
    <2> QED
      BY <1>4, <2>1, <2>2, <2>3 DEF Took, Holds, Held
  <1>6. CASE ~r.long
    <2> DEFINE w == conn_set_state(found, "mwrite")
               e == [w EXCEPT !.ileft = hits, !.iovused = hits + 1,
                              !.out = Append(@, "end")]
    <2>1. ConnOK(w) /\ w.state = "mwrite" /\ w.rbuf = d.rbuf /\ ~w.item
      <3> HIDE DEF found
      <3>1. "mwrite" \in States
        BY DEF States
      <3> QED
        BY <1>3, <3>1, SetState
    <2>2. x.conn = e /\ x.took = hits
      BY <1>2, <1>6
    <2> HIDE DEF w
    <2>3. ConnOK(e) /\ e.state = "mwrite" /\ e.rbuf = d.rbuf /\ ~e.item
          /\ e.ileft = hits
      BY <1>4, <2>1 DEF ConnOK, Fields
    <2> HIDE DEF e
    <2> QED
      BY <1>4, <2>2, <2>3 DEF Took, Holds, Held
  <1> QED
    BY <1>1, <1>5, <1>6

LEMMA Answers ==
    ASSUME NEW d, ConnOK(d), ~d.item, d.ileft = 0
    PROVE  Took([conn |-> out_string(d), took |-> 0], d.rbuf)
  <1> DEFINE e == out_string(d)
  <1>1. ConnOK(e) /\ e.state \in {"read", "write"} /\ e.rbuf = d.rbuf
        /\ ~e.item /\ e.ileft = 0
    BY OutString
  <1> HIDE DEF e
  <1>2. Took([conn |-> e, took |-> 0], d.rbuf)
    BY <1>1 DEF Took, Holds, Held
  <1> QED
    BY <1>2 DEF e

LEMMA UpdateTakes ==
    ASSUME NEW d, ConnOK(d), ~d.item, d.ileft = 0, NEW r \in Units
    PROVE  Took(process_update_command(d, r), d.rbuf)
  <1> DEFINE e == set_noreply_maybe(d, r)
             a == out_string(e)
             x == process_update_command(d, r)
  <1>1. ConnOK(e) /\ ~e.item /\ e.ileft = 0 /\ e.rbuf = d.rbuf
    BY DEF ConnOK, Fields, set_noreply_maybe
  <1>2. DataLen \in Nat
    BY ConnAssumption
  <1> HIDE DEF e
  <1>3. CASE r.long
    <2>1. x = [conn |-> a, took |-> 0]
      BY <1>3 DEF process_update_command, e
    <2> HIDE DEF x
    <2> QED
      BY <1>1, <2>1, Answers DEF x
  <1>4. CASE ~r.long /\ ~r.fits
    <2> DEFINE s == [a EXCEPT !.write_and_go = "swallow", !.sbytes = to_swallow]
    <2>1. ConnOK(a) /\ a.state \in {"read", "write"} /\ a.rbuf = d.rbuf
          /\ ~a.item /\ a.ileft = 0
      BY <1>1, OutString
    <2>2. x = [conn |-> s, took |-> 0]
      BY <1>4 DEF process_update_command, e
    <2> HIDE DEF a, x
    <2>3. ConnOK(s) /\ s.state \in {"read", "write"} /\ s.rbuf = d.rbuf
          /\ ~s.item /\ s.ileft = 0
      BY <1>2, <2>1 DEF ConnOK, Fields, to_swallow
    <2> HIDE DEF s
    <2>4. Took(x, d.rbuf)
      BY <2>2, <2>3 DEF Took, Holds, Held
    <2> QED
      BY <2>4 DEF x
  <1>5. CASE ~r.long /\ r.fits
    <2> DEFINE w == conn_set_state(e, "nread")
               s == [w EXCEPT !.item = TRUE, !.rlbytes = DataLen]
    <2>1. ConnOK(w) /\ w.state = "nread" /\ w.rbuf = d.rbuf /\ w.ileft = 0
      <3>1. "nread" \in States
        BY DEF States
      <3> QED
        BY <1>1, <3>1, SetState
    <2>2. x = [conn |-> s, took |-> 1]
      BY <1>5 DEF process_update_command, e
    <2> HIDE DEF w, x
    <2>3. ConnOK(s) /\ s.state = "nread" /\ s.rbuf = d.rbuf /\ s.item
          /\ s.ileft = 0
      BY <1>2, <2>1 DEF ConnOK, Fields
    <2> HIDE DEF s
    <2>4. Took(x, d.rbuf)
      BY <2>2, <2>3 DEF Took, Holds, Held
    <2> QED
      BY <2>4 DEF x
  <1>6. r.long \in BOOLEAN /\ r.fits \in BOOLEAN
    BY UnitFields
  <1> QED
    BY <1>3, <1>4, <1>5, <1>6

LEMMA CommandTakes ==
    ASSUME NEW d, ConnOK(d), ~d.item, d.ileft = 0, NEW r \in Units,
           NEW x \in process_command(d, r)
    PROVE  Took(x, d.rbuf)
  <1> DEFINE e == [d EXCEPT !.out = <<>>, !.iovused = 0, !.msgused = 1]
             n == set_noreply_maybe(e, r)
             q == conn_set_state(e, "closing")
  <1>1. ConnOK(e) /\ ~e.item /\ e.ileft = 0 /\ e.rbuf = d.rbuf
    BY DEF ConnOK, Fields
  <1> HIDE DEF e
  <1>2. CASE r.op = "get"
    <2>1. x \in process_get_command(e, r)
      BY <1>2 DEF process_command, e
    <2> QED
      BY <1>1, <1>2, <2>1, GetTakes
  <1>3. CASE r.op = "update"
    <2>1. x = process_update_command(e, r)
      BY <1>3 DEF process_command, e
    <2> QED
      BY <1>1, <2>1, UpdateTakes
  <1>4. CASE r.op = "quit"
    <2>1. x = [conn |-> q, took |-> 0]
      BY <1>4 DEF process_command, e
    <2>2. "closing" \in States
      BY DEF States
    <2>3. ConnOK(q) /\ q.state = "closing" /\ ~q.item /\ q.ileft = 0
          /\ q.rbuf = d.rbuf
      BY <1>1, <2>2, SetState
    <2> HIDE DEF q
    <2> QED
      BY <2>1, <2>3 DEF Took, Holds, Held
  <1>5. CASE r.op \notin {"get", "update", "quit"}
    <2>1. x = [conn |-> out_string(n), took |-> 0]
      BY <1>5 DEF process_command, e
    <2>2. ConnOK(n) /\ ~n.item /\ n.ileft = 0 /\ n.rbuf = d.rbuf
      BY <1>1 DEF ConnOK, Fields, set_noreply_maybe
    <2> HIDE DEF n
    <2> QED
      BY <2>1, <2>2, Answers
  <1> QED
    BY <1>2, <1>3, <1>4, <1>5

----------------------------------------------------------------------------
\* The steps.  What the loop goes on with, or stops at, keeps the invariant.

\* What a step that leaves the references and streams alone may do to c.
Fine(d) == ConnOK(d) /\ Holds(d)

LEMMA GoesOn ==
    ASSUME NEW d, Fine(d), Continue(d),
           wire' \in Seq(Units), unsent' \in Seq(Units), refs' \in Int,
           NoLongGet => refs' = Held(d)
    PROVE  IInv'
  BY DEF IInv, Fine, Continue, ConnOK, Holds, Held, Reader, Awake

LEMMA UpdateEvent ==
    ASSUME NEW d, Fine(d), NEW e \in {"read", "write"}
    PROVE  LET u == update_event(d, e)
           IN  /\ Fine(u) /\ Held(u) = Held(d)
               /\ u.ev = e /\ u.state = d.state /\ u.rbuf = d.rbuf
               /\ u.rlbytes = d.rlbytes /\ u.sbytes = d.sbytes /\ u.out = d.out
  BY DEF Fine, ConnOK, Fields, Holds, Held, update_event

LEMMA CloseFine ==
    ASSUME NEW d, Fine(d)
    PROVE  LET u == conn_set_state(d, "closing")
           IN  Fine(u) /\ Held(u) = Held(d)
  <1> DEFINE u == conn_set_state(d, "closing")
  <1>1. ConnOK(u) /\ u.state = "closing" /\ u.item = d.item /\ u.ileft = d.ileft
    <2>1. "closing" \in States
      BY DEF States
    <2> QED
      BY <2>1, SetState DEF Fine
  <1> HIDE DEF u
  <1>2. Fine(u) /\ Held(u) = Held(d)
    BY <1>1 DEF Fine, Holds, Held
  <1> QED
    BY <1>2 DEF u

\* Stopping is right in a state where there is nothing to do, with the event
\* that changes this.
LEMMA Stops ==
    ASSUME NEW d, Fine(d), NEW e \in {"read", "write"}, Await(d, e),
           d.state \in {"read", "nread", "swallow"} => e = "read",
           d.state \in {"write", "mwrite"} => e = "write" /\ d.out # <<>>,
           d.state = "read" => ~HasLine(d.rbuf),
           d.state = "nread" => d.rbuf = <<>> /\ d.rlbytes > 0,
           d.state = "swallow" => d.rbuf = <<>> /\ d.sbytes > 0,
           wire' \in Seq(Units), unsent' \in Seq(Units), refs' \in Int,
           NoLongGet => refs' = Held(d)
    PROVE  IInv'
  <1> DEFINE u == update_event(d, e)
             q == conn_set_state(d, "closing")
  <1>1. CASE pc' = "wait" /\ c' = u
    <2>1. /\ Fine(u) /\ Held(u) = Held(d)
          /\ u.ev = e /\ u.state = d.state /\ u.rbuf = d.rbuf
          /\ u.rlbytes = d.rlbytes /\ u.sbytes = d.sbytes /\ u.out = d.out
      BY UpdateEvent
    <2> HIDE DEF u
    <2>2. ConnOK(c') /\ Holds(c') /\ (NoLongGet => refs' = Held(c'))
      BY <1>1, <2>1 DEF Fine
    <2>3. Reader'
      BY <1>1 DEF Reader
    <2>4. c'.state = "read" => ~HasLine(c'.rbuf)
      BY <1>1, <2>1
    <2>5. Awake'
      <3>1. Reading' => c'.ev = "read"
        BY <1>1, <2>1 DEF Reading
      <3>2. c'.state = "nread" => c'.rbuf = <<>> /\ c'.rlbytes > 0
        BY <1>1, <2>1
      <3>3. c'.state = "swallow" => c'.rbuf = <<>> /\ c'.sbytes > 0
        BY <1>1, <2>1
      <3>4. Writing' => c'.ev = "write" /\ c'.out # <<>>
        BY <1>1, <2>1 DEF Writing
      <3>5. ~HasLine(<<>>)
        BY DEF HasLine
      <3>6. Reading' => ~HasLine(c'.rbuf)
        BY <2>4, <3>2, <3>3, <3>5, Zenon DEF Reading
      <3> QED
        BY <3>1, <3>2, <3>3, <3>4, <3>6 DEF Awake, Left
    <2> QED
      BY <2>2, <2>3, <2>5 DEF IInv, ConnOK, Holds, Held
  <1>2. CASE Continue(q)
    <2>1. Fine(q) /\ Held(q) = Held(d)
      BY CloseFine
    <2> HIDE DEF q
    <2> QED
      BY <1>2, <2>1, GoesOn
  <1> QED
    BY <1>1, <1>2 DEF Await

LEMMA Initially == Init => IInv
  <1> SUFFICES ASSUME Init PROVE IInv
    OBVIOUS
  <1>1. c = conn_new /\ pc = "wait" /\ refs = 0 /\ wire = <<>> /\ unsent = <<>>
    BY DEF Init
  <1>2. /\ c.state = "read" /\ c.ev = "read" /\ c.rbuf = <<>> /\ c.rsize = BufSize
        /\ c.rlbytes = 0 /\ c.sbytes = 0 /\ c.ileft = 0
        /\ c.write_and_go = "read"
    BY <1>1 DEF conn_new
  <1>8. c.item \in BOOLEAN /\ ~c.item
    BY <1>1 DEF conn_new
  <1>3. c = [f \in Fields |-> c[f]]
    BY <1>1 DEF conn_new, Fields
  <1>4. ConnOK(c)
    <2>1. c.rbuf \in Seq(Units) /\ c.rsize \in Nat \ {0} /\ Len(c.rbuf) <= c.rsize
      BY <1>2, ConnAssumption
    <2> QED
      BY <1>2, <1>3, <1>8, <2>1 DEF ConnOK, States
  <1>5. Holds(c) /\ refs = Held(c)
    BY <1>1, <1>2, <1>8 DEF Holds, Held
  <1>6. Reader
    BY <1>1 DEF Reader
  <1>7. Awake
    BY <1>2 DEF Awake, Reading, Writing, HasLine
  <1> QED
    BY <1>1, <1>4, <1>5, <1>6, <1>7 DEF IInv

\* What the client does leaves the connection alone.
LEMMA ClientStep ==
    ASSUME IInv, send \/ receive \/ leave
    PROVE  IInv'
  <1>1. c' = c /\ pc' = pc /\ refs' = refs
    BY DEF send, receive, leave, client
  <1>2. wire' \in Seq(Units) /\ unsent' \in Seq(Units)
    <2>1. CASE send
      <3>1. CASE unsent # <<>> /\ wire' = Append(wire, Head(unsent))
                 /\ unsent' = Tail(unsent)
        BY <3>1 DEF IInv
      <3>2. CASE \E r \in Requests :
                    /\ wire' = Append(wire, r)
                    /\ unsent' = IF r.op = "update" THEN DataBlock ELSE <<>>
        <4>1. DataBlock \in Seq(Units)
          BY ConnAssumption DEF DataBlock, Units
        <4> QED
          BY <3>2, <4>1 DEF IInv, Units
      <3> QED
        BY <2>1, <3>1, <3>2 DEF send
    <2>2. CASE receive
      BY <2>2 DEF receive, client, IInv
    <2>3. CASE leave
      <3>1. (wire' = wire \/ wire' = <<>>) /\ unsent' = unsent
        BY <2>3 DEF leave, client
      <3>2. wire \in Seq(Units) /\ unsent \in Seq(Units)
        BY DEF IInv
      <3>3. <<>> \in Seq(Units)
        OBVIOUS
      <3> QED
        BY <3>1, <3>2, <3>3
    <2> QED
      BY <2>1, <2>2, <2>3
  <1>3. peer = "reset" => peer' = "reset"
    BY DEF send, receive, leave
  <1>4. Awake'
    BY <1>1, <1>3 DEF IInv, Awake, Gone, Reading, Writing, Left
  <1> QED
    BY <1>1, <1>2, <1>4 DEF IInv, Reader, ConnOK, Holds, Held

LEMMA HandlerStep ==
    ASSUME IInv, event_handler
    PROVE  IInv'
  <1>1. Continue(c) /\ wire' = wire /\ unsent' = unsent /\ refs' = refs
    BY DEF event_handler, Continue, socket, client
  <1> QED
    BY <1>1, GoesOn DEF IInv, Fine

LEMMA CommandStep ==
    ASSUME IInv, try_read_command
    PROVE  IInv'
  <1> DEFINE n == FirstLine(c.rbuf)
             command == IF n = 1 THEN c.rbuf[1] ELSE Unit("data_end")
             q == SubSeq(c.rbuf, n + 1, Len(c.rbuf))
  <1>1. ConnOK(c) /\ c.rbuf \in Seq(Units) /\ HasLine(c.rbuf) /\ c.state = "read"
    BY DEF IInv, ConnOK, try_read_command, In
  <1>2. n \in 1 .. Len(c.rbuf)
    BY <1>1, FirstLineIn
  <1> HIDE DEF n
  <1>3. command \in Units
    BY <1>1, <1>2 DEF Units
  <1>4. q \in Seq(Units) /\ Len(q) <= Len(c.rbuf)
    BY <1>1, <1>2, Rest
  <1>5. ~c.item /\ c.ileft = 0
    BY <1>1 DEF IInv, Holds, ConnOK
  <1>6. PICK r \in process_command(c, command) :
          /\ Continue([r.conn EXCEPT !.rbuf = SubSeq(@, n + 1, Len(@))])
          /\ refs' = refs + r.took
    BY DEF try_read_command, n
  <1> HIDE DEF command, q
  <1>7. Took(r, c.rbuf)
    BY <1>1, <1>3, <1>5, CommandTakes
  <1> DEFINE d == [r.conn EXCEPT !.rbuf = SubSeq(@, n + 1, Len(@))]
  <1>8. ConnOK(r.conn) /\ r.conn.rbuf = c.rbuf
    BY <1>7 DEF Took
  <1>9. d = [r.conn EXCEPT !.rbuf = q]
    BY <1>8 DEF q
  <1>10. Fine(d) /\ Held(d) = Held(r.conn)
    <2>1. ConnOK(d)
      <3>1. Len(q) \in Nat /\ Len(c.rbuf) \in Nat /\ Len(q) <= r.conn.rsize
        BY <1>1, <1>4, <1>8 DEF ConnOK
      <3> QED
        BY <1>4, <1>8, <1>9, <3>1 DEF ConnOK, Fields
    <2>2. d.state = r.conn.state /\ d.item = r.conn.item /\ d.ileft = r.conn.ileft
      BY <1>8, <1>9 DEF ConnOK, Fields
    <2> QED
      BY <1>7, <2>1, <2>2 DEF Fine, Holds, Held, Took
  <1>11. refs' \in Int /\ (NoLongGet => refs' = Held(d))
    BY <1>5, <1>6, <1>7, <1>10 DEF IInv, Took, Held
  <1>12. wire' = wire /\ unsent' = unsent
    BY DEF try_read_command, socket, client
  <1> HIDE DEF d
  <1> QED
    BY <1>6, <1>10, <1>11, <1>12, GoesOn DEF IInv, d

\* The same connection, with a larger read buffer or not.
LEMMA ReadMoreStep ==
    ASSUME IInv, read_more
    PROVE  IInv'
  <1>1. /\ pc = "loop" /\ c.state = "read" /\ ~HasLine(c.rbuf)
        /\ refs' = refs /\ wire' = wire /\ unsent' = unsent
        /\ Fine(c)
    BY DEF read_more, In, socket, client, IInv, Fine
  <1>2. CASE pc' = "before_read" /\ c' = c
    BY <1>1, <1>2 DEF IInv, Reader, Awake, ConnOK, Holds, Held
  <1>3. CASE Await(c, "read")
    BY <1>1, <1>3, Stops DEF IInv
  <1> QED
    BY <1>2, <1>3 DEF read_more

LEMMA NetworkStep ==
    ASSUME IInv, try_read_network
    PROVE  IInv'
  <1> DEFINE must_grow == Len(c.rbuf) >= c.rsize
             d == IF must_grow THEN [c EXCEPT !.rsize = 2 * @] ELSE c
             avail == d.rsize - Len(d.rbuf)
             res == Min({avail, Len(wire)})
             given_up == [out_string([c EXCEPT !.rbuf = <<>>])
                          EXCEPT !.write_and_go = "closing"]
             more == [d EXCEPT !.rbuf = @ \o SubSeq(wire, 1, res)]
  <1>1. /\ pc \in {"before_read", "after_read"} /\ c.state = "read" /\ Fine(c)
        /\ refs' = refs /\ unsent' = unsent /\ refs \in Int
        /\ wire \in Seq(Units) /\ unsent \in Seq(Units)
        /\ NoLongGet => refs = Held(c)
        /\ pc = "before_read" => ~HasLine(c.rbuf)
    BY DEF try_read_network, client, IInv, Fine, Reader
  <1>2. ~c.item /\ c.ileft = 0
    BY <1>1 DEF Fine, Holds, ConnOK
  <1>3. /\ ConnOK(d) /\ d.state = "read" /\ d.rbuf = c.rbuf /\ d.item = c.item
        /\ d.ileft = c.ileft
    <2> DEFINE g == [c EXCEPT !.rsize = 2 * @]
    <2>1. Len(c.rbuf) \in Nat /\ c.rsize \in Nat \ {0} /\ Len(c.rbuf) <= c.rsize
      BY <1>1 DEF Fine, ConnOK
    <2>2. 2 * c.rsize \in Nat \ {0} /\ Len(c.rbuf) <= 2 * c.rsize
      BY <2>1
    <2>3. ConnOK(g) /\ g.state = "read" /\ g.rbuf = c.rbuf /\ g.item = c.item
          /\ g.ileft = c.ileft
      BY <1>1, <2>2 DEF Fine, ConnOK, Fields
    <2> HIDE DEF g
    <2> QED
      BY <1>1, <2>3 DEF Fine, g
  <1>4. Fine(d) /\ Held(d) = Held(c)
    BY <1>2, <1>3, <1>1 DEF Fine, Holds, Held
  <1>5. CASE must_grow /\ BufferFails /\ Continue(given_up) /\ wire' = wire
    <2> DEFINE e == [c EXCEPT !.rbuf = <<>>]
               o == out_string(e)
    <2>1. ConnOK(e) /\ e.item = c.item /\ e.ileft = c.ileft
      <3>1. e.rbuf \in Seq(Units) /\ Len(e.rbuf) = 0 /\ e.rsize = c.rsize
        BY <1>1 DEF Fine, ConnOK, Fields
      <3>2. Len(e.rbuf) <= e.rsize /\ e.rsize \in Nat \ {0}
        BY <1>1, <3>1 DEF Fine, ConnOK
      <3> QED
        BY <1>1, <3>1, <3>2 DEF Fine, ConnOK, Fields
    <2> HIDE DEF e
    <2>2. ConnOK(o) /\ o.state \in {"read", "write"} /\ o.item = c.item
          /\ o.ileft = c.ileft
      BY <2>1, OutString
    <2> HIDE DEF o
    <2> DEFINE g == [o EXCEPT !.write_and_go = "closing"]
    <2>3. ConnOK(g) /\ g.state \in {"read", "write"} /\ g.item = c.item
          /\ g.ileft = c.ileft
      BY <2>2 DEF ConnOK, Fields
    <2>4. given_up = g
      BY DEF o, e
    <2> HIDE DEF g, given_up
    <2>5. Fine(g) /\ Held(g) = Held(c)
      BY <1>2, <2>3 DEF Fine, Holds, Held
    <2> QED
      BY <1>1, <1>5, <2>4, <2>5, GoesOn
  <1>6. CASE Continue(conn_set_state(d, "closing")) /\ wire' = wire
    <2> HIDE DEF d
    <2>1. Fine(conn_set_state(d, "closing"))
          /\ Held(conn_set_state(d, "closing")) = Held(d)
      BY <1>4, CloseFine
    <2> QED
      BY <1>1, <1>4, <1>6, <2>1, GoesOn
  <1>7. CASE /\ c' = more /\ wire' = SubSeq(wire, res + 1, Len(wire))
             /\ pc' = IF res = avail THEN "after_read" ELSE "loop"
    <2>1. avail \in Nat /\ Len(wire) \in Nat
      BY <1>1, <1>3 DEF ConnOK
    <2>2. res \in Nat /\ res <= avail /\ res <= Len(wire)
      <3> HIDE DEF avail
      <3> QED
        BY <2>1, MinOfTwo
    <2> HIDE DEF res
    <2>3. wire' \in Seq(Units)
      BY <1>1, <1>7, <2>2, Rest
    <2> DEFINE q == c.rbuf \o SubSeq(wire, 1, res)
    <2>4. q \in Seq(Units) /\ Len(q) = Len(c.rbuf) + res
      <3>1. SubSeq(wire, 1, res) \in Seq(Units) /\ Len(SubSeq(wire, 1, res)) = res
        BY <1>1, <2>2, FirstPart
      <3>2. c.rbuf \in Seq(Units)
        BY <1>1 DEF Fine, ConnOK
      <3> QED
        BY <3>1, <3>2, ConcatProperties
    <2>5. avail = d.rsize - Len(c.rbuf) /\ Len(c.rbuf) \in Nat /\ d.rsize \in Nat
      BY <1>1, <1>3 DEF Fine, ConnOK
    <2>6. more = [d EXCEPT !.rbuf = q]
      BY <1>3
    <2> HIDE DEF q, d, avail, more
    <2>7. Len(q) <= d.rsize
      BY <2>2, <2>4, <2>5
    <2>8. ConnOK(more) /\ more.state = "read" /\ more.item = c.item
          /\ more.ileft = c.ileft
      BY <1>3, <2>4, <2>6, <2>7 DEF ConnOK, Fields
    <2>9. Holds(more) /\ Held(more) = Held(c)
      BY <1>2, <2>8 DEF Holds, Held
    <2>10. Reader' /\ Awake'
      BY <1>7, <2>8 DEF Reader, Awake
    <2>11. ConnOK(c)' /\ Holds(c)' /\ (NoLongGet => refs' = Held(c'))
      BY <1>1, <1>7, <2>8, <2>9 DEF ConnOK, Holds
    <2> QED
      BY <1>1, <2>3, <2>10, <2>11 DEF IInv, Held
  <1>8. CASE Continue(d) /\ wire' = wire
    BY <1>1, <1>4, <1>8, GoesOn
  <1>9. CASE pc = "before_read" /\ Await(d, "read") /\ wire' = wire
    <2> HIDE DEF d
    <2>1. ~HasLine(d.rbuf)
      BY <1>1, <1>3, <1>9
    <2> QED
      BY <1>1, <1>3, <1>4, <1>9, <2>1, Stops
  <1> QED
    BY <1>5, <1>6, <1>7, <1>8, <1>9 DEF try_read_network

\* What of a data block is read is taken from the count of what is left.
LEMMA CountedDown ==
    ASSUME NEW s \in {"nread", "swallow"}, ConnOK(c), NEW n \in Nat,
           n <= c[LeftIn[s]]
    PROVE  LET d == [c EXCEPT ![LeftIn[s]] = @ - n]
           IN  /\ ConnOK(d) /\ d.state = c.state /\ d.rbuf = c.rbuf
               /\ d.item = c.item /\ d.ileft = c.ileft
  <1>1. CASE s = "nread"
    <2>1. LeftIn[s] = "rlbytes"
      BY <1>1 DEF LeftIn
    <2>2. c.rlbytes - n \in Nat
      BY <2>1 DEF ConnOK
    <2> QED
      BY <2>1, <2>2 DEF ConnOK, Fields
  <1>2. CASE s = "swallow"
    <2>1. LeftIn[s] = "sbytes"
      BY <1>2 DEF LeftIn
    <2>2. c.sbytes - n \in Nat
      BY <2>1 DEF ConnOK
    <2> QED
      BY <2>1, <2>2 DEF ConnOK, Fields
  <1> QED
    BY <1>1, <1>2

LEMMA LeftType ==
    ASSUME NEW s \in {"nread", "swallow"}, ConnOK(c)
    PROVE  /\ c[LeftIn[s]] \in Nat
           /\ c[LeftIn[s]] = IF s = "nread" THEN c.rlbytes ELSE c.sbytes
  BY DEF LeftIn, ConnOK

LEMMA LeftoverStep ==
    ASSUME IInv, NEW s \in {"nread", "swallow"}, read_leftover(s)
    PROVE  IInv'
  <1> DEFINE n == tocopy(Len(c.rbuf), c[LeftIn[s]])
             d == [c EXCEPT ![LeftIn[s]] = @ - n]
             q == SubSeq(c.rbuf, n + 1, Len(c.rbuf))
             e == [c EXCEPT ![LeftIn[s]] = @ - n, !.rbuf = SubSeq(@, n + 1, Len(@))]
  <1>1. /\ Fine(c) /\ c.state = s /\ c.rbuf \in Seq(Units)
        /\ Continue(e) /\ refs' = refs /\ wire' = wire /\ unsent' = unsent
    BY DEF read_leftover, In, socket, client, IInv, Fine, ConnOK
  <1>9. ConnOK(c) /\ c.rbuf \in Seq(Units)
    BY DEF IInv, ConnOK
  <1>2. n \in Nat /\ n <= Len(c.rbuf) /\ n <= c[LeftIn[s]]
    <2>1. Len(c.rbuf) \in Nat
      BY <1>9
    <2>2. c[LeftIn[s]] \in Nat
      BY <1>9, LeftType
    <2> QED
      BY <2>1, <2>2, MinOfTwo DEF tocopy
  <1> HIDE DEF n
  <1>3. /\ ConnOK(d) /\ d.state = c.state /\ d.rbuf = c.rbuf
        /\ d.item = c.item /\ d.ileft = c.ileft
    BY <1>1, <1>2, CountedDown DEF Fine
  <1>4. q \in Seq(Units) /\ Len(q) <= Len(c.rbuf)
    <2>1. Len(c.rbuf) \in Nat
      BY <1>9
    <2>2. q \in Seq(Units) /\ Len(q) = Len(c.rbuf) - n
      BY <1>9, <1>2, Rest
    <2> QED
      BY <1>2, <2>1, <2>2
  <1>5. e = [d EXCEPT !.rbuf = q]
    BY <1>1, <1>3 DEF Fine, ConnOK, Fields, LeftIn
  <1> HIDE DEF d, e, q
  <1>6. Len(q) \in Nat /\ Len(q) <= d.rsize
    BY <1>1, <1>3, <1>4 DEF ConnOK
  <1>7. ConnOK(e) /\ e.state = c.state /\ e.item = c.item /\ e.ileft = c.ileft
    BY <1>3, <1>4, <1>5, <1>6 DEF ConnOK, Fields
  <1>8. Fine(e) /\ Held(e) = Held(c)
    BY <1>1, <1>7 DEF Fine, Holds, Held
  <1> QED
    BY <1>1, <1>8, GoesOn DEF IInv

LEMMA RestStep ==
    ASSUME IInv, NEW s \in {"nread", "swallow"}, read_rest(s)
    PROVE  IInv'
  <1> DEFINE most == IF s = "swallow" THEN Min({c.sbytes, c.rsize}) ELSE c.rlbytes
             res == Min({most, Len(wire)})
             d == [c EXCEPT ![LeftIn[s]] = @ - res]
  <1>1. /\ Fine(c) /\ c.state = s /\ c.rbuf = <<>> /\ c[LeftIn[s]] > 0
        /\ refs' = refs /\ refs \in Int /\ unsent' = unsent
        /\ wire \in Seq(Units) /\ unsent \in Seq(Units)
        /\ NoLongGet => refs = Held(c)
    BY DEF read_rest, In, client, IInv, Fine
  <1>2. c[LeftIn[s]] \in Nat
        /\ c[LeftIn[s]] = IF s = "nread" THEN c.rlbytes ELSE c.sbytes
    BY <1>1, LeftType DEF Fine
  <1>3. CASE Continue(d) /\ wire' = SubSeq(wire, res + 1, Len(wire))
    <2>1. most \in Nat /\ most <= c[LeftIn[s]]
      <3>1. c.sbytes \in Nat /\ c.rsize \in Nat
        BY <1>1 DEF Fine, ConnOK
      <3>2. Min({c.sbytes, c.rsize}) = IF c.sbytes <= c.rsize THEN c.sbytes ELSE c.rsize
        BY <3>1, MinOfTwo
      <3> QED
        BY <1>2, <3>1, <3>2
    <2>2. res \in Nat /\ res <= Len(wire) /\ res <= c[LeftIn[s]]
      <3> HIDE DEF most
      <3>1. Len(wire) \in Nat
        BY <1>1
      <3>2. res = IF most <= Len(wire) THEN most ELSE Len(wire)
        BY <2>1, <3>1, MinOfTwo
      <3> QED
        BY <1>2, <2>1, <3>1, <3>2
    <2> HIDE DEF res
    <2>3. wire' \in Seq(Units)
      BY <1>1, <1>3, <2>2, Rest
    <2>4. /\ ConnOK(d) /\ d.state = c.state /\ d.item = c.item /\ d.ileft = c.ileft
      BY <1>1, <2>2, CountedDown DEF Fine
    <2> HIDE DEF d
    <2>5. Fine(d) /\ Held(d) = Held(c)
      BY <1>1, <2>4 DEF Fine, Holds, Held
    <2> QED
      BY <1>1, <1>3, <2>3, <2>5, GoesOn
  <1>4. CASE Continue(Closing) /\ wire' = wire
    BY <1>1, <1>4, CloseFine, GoesOn DEF Closing
  <1>5. CASE Await(c, "read") /\ wire' = wire
    BY <1>1, <1>2, <1>5, Stops
  <1> QED
    BY <1>3, <1>4, <1>5 DEF read_rest

LEMMA CompleteStep ==
    ASSUME IInv, complete_nread
    PROVE  IInv'
  <1> DEFINE o == out_string(c)
             e == [o EXCEPT !.item = FALSE]
  <1>1. /\ Fine(c) /\ c.state = "nread" /\ Continue(e)
        /\ refs' = refs - 1 /\ wire' = wire /\ unsent' = unsent
    BY DEF complete_nread, In, socket, client, IInv, Fine
  <1>2. c.item /\ c.ileft = 0
    BY <1>1 DEF Fine, Holds, ConnOK
  <1>3. ConnOK(o) /\ o.state \in {"read", "write"} /\ o.ileft = 0
    BY <1>1, <1>2, OutString DEF Fine
  <1> HIDE DEF o
  <1>4. ConnOK(e) /\ e.state \in {"read", "write"} /\ e.ileft = 0 /\ ~e.item
    BY <1>3 DEF ConnOK, Fields
  <1> HIDE DEF e
  <1>5. Fine(e) /\ Held(e) = 0 /\ Held(c) = 1
    BY <1>2, <1>4 DEF Fine, Holds, Held
  <1> QED
    BY <1>1, <1>5, GoesOn DEF IInv

LEMMA SwallowedStep ==
    ASSUME IInv, swallowed
    PROVE  IInv'
  <1> DEFINE e == conn_set_state(c, "read")
  <1>1. /\ Fine(c) /\ c.state = "swallow" /\ Continue(e)
        /\ refs' = refs /\ wire' = wire /\ unsent' = unsent
    BY DEF swallowed, In, socket, client, IInv, Fine
  <1>2. ConnOK(e) /\ e.state = "read" /\ e.item = c.item /\ e.ileft = c.ileft
    <2>1. "read" \in States
      BY DEF States
    <2> QED
      BY <1>1, <2>1, SetState DEF Fine
  <1> HIDE DEF e
  <1>3. Fine(e) /\ Held(e) = Held(c)
    BY <1>1, <1>2 DEF Fine, Holds, Held, ConnOK
  <1> QED
    BY <1>1, <1>3, GoesOn DEF IInv

LEMMA AddIov ==
    ASSUME NEW d, Fine(d)
    PROVE  LET e == add_iov(d)
           IN  /\ Fine(e) /\ Held(e) = Held(d) /\ e.state = d.state
               /\ e.write_and_go = d.write_and_go
  BY DEF Fine, ConnOK, Fields, Holds, Held, add_iov

\* The process may end in add_iov, with what it holds.
LEMMA UndefinedStep ==
    ASSUME IInv, add_iov_undefined
    PROVE  IInv'
  <1> DEFINE e == [c EXCEPT !.state = "crashed"]
  <1>1. /\ ConnOK(c) /\ Holds(c) /\ c.state = "write" /\ c' = e /\ pc' = "wait"
        /\ refs' = refs /\ wire' = wire /\ unsent' = unsent
    BY DEF add_iov_undefined, In, socket, client, IInv
  <1>2. ConnOK(e) /\ e.state = "crashed" /\ e.item = c.item /\ e.ileft = c.ileft
    BY <1>1 DEF ConnOK, Fields, States
  <1> HIDE DEF e
  <1>3. Holds(e) /\ Held(e) = Held(c)
    BY <1>1, <1>2 DEF ConnOK, Holds, Held
  <1>4. Reader' /\ Awake'
    BY <1>1, <1>2 DEF Reader, Awake, Gone
  <1>5. ConnOK(c)' /\ Holds(c)' /\ Held(c)' = Held(c)
    BY <1>1, <1>2, <1>3 DEF ConnOK, Holds, Held
  <1> QED
    BY <1>1, <1>4, <1>5 DEF IInv

LEMMA TransmitStep ==
    ASSUME IInv, transmit
    PROVE  IInv'
  <1> DEFINE d == add_iov(c)
  <1>1. /\ Fine(c) /\ c.state \in {"write", "mwrite"}
        /\ refs' = refs /\ refs \in Int /\ wire' = wire /\ unsent' = unsent
        /\ wire \in Seq(Units) /\ unsent \in Seq(Units)
        /\ NoLongGet => refs = Held(c)
    BY DEF transmit, Writing, client, IInv, Fine
  <1>2. Fine(d) /\ Held(d) = Held(c) /\ d.state = c.state
    BY <1>1, AddIov
  <1>3. d.out # <<>>
    BY DEF transmit
  <1>4. CASE \E n \in 1 .. Len(d.out) :
               Continue([d EXCEPT !.out = SubSeq(@, n + 1, Len(@))])
    <2>1. PICK n : Continue([d EXCEPT !.out = SubSeq(@, n + 1, Len(@))])
      BY <1>4
    <2> HIDE DEF d
    <2> DEFINE e == [d EXCEPT !.out = SubSeq(@, n + 1, Len(@))]
    <2>2. Fine(e) /\ Held(e) = Held(d)
      BY <1>2 DEF Fine, ConnOK, Fields, Holds, Held
    <2> HIDE DEF e
    <2> QED
      BY <1>1, <1>2, <2>1, <2>2, GoesOn DEF e
  <1>5. CASE Await(d, "write")
    <2> HIDE DEF d
    <2> QED
      BY <1>1, <1>2, <1>3, <1>5, Stops
  <1>6. CASE Continue(conn_set_state(d, "closing"))
    <2> HIDE DEF d
    <2> QED
      BY <1>1, <1>2, <1>6, CloseFine, GoesOn
  <1> QED
    BY <1>4, <1>5, <1>6 DEF transmit

LEMMA TransmitCompleteStep ==
    ASSUME IInv, transmit_complete
    PROVE  IInv'
  <1> DEFINE d == add_iov(c)
             z == [d EXCEPT !.ileft = 0]
             e == conn_set_state(z, "read")
             g == conn_set_state(d, d.write_and_go)
  <1>1. /\ Fine(c) /\ c.state \in {"write", "mwrite"}
        /\ refs \in Int /\ wire' = wire /\ unsent' = unsent
        /\ wire \in Seq(Units) /\ unsent \in Seq(Units)
        /\ NoLongGet => refs = Held(c)
    BY DEF transmit_complete, Writing, socket, client, IInv, Fine
  <1>2. Fine(d) /\ Held(d) = Held(c) /\ d.state = c.state
    BY <1>1, AddIov
  <1>3. ~d.item
    BY <1>1, <1>2 DEF Fine, Holds
  <1>4. CASE d.state = "mwrite" /\ Continue(e) /\ refs' = refs - d.ileft
    <2> HIDE DEF d
    <2>1. ConnOK(z) /\ ~z.item /\ z.ileft = 0
      BY <1>2, <1>3 DEF Fine, ConnOK, Fields
    <2> HIDE DEF z
    <2>2. ConnOK(e) /\ e.state = "read" /\ ~e.item /\ e.ileft = 0
      <3>1. "read" \in States
        BY DEF States
      <3> QED
        BY <2>1, <3>1, SetState
    <2> HIDE DEF e
    <2>3. Fine(e) /\ Held(e) = 0
      BY <2>2 DEF Fine, Holds, Held
    <2>4. d.ileft \in Int /\ Held(d) = d.ileft
      BY <1>2, <1>3 DEF Fine, ConnOK, Held
    <2>5. refs' \in Int /\ (NoLongGet => refs' = Held(e))
      BY <1>1, <1>2, <1>4, <2>3, <2>4
    <2> QED
      BY <1>1, <1>4, <2>3, <2>5, GoesOn
  <1>5. CASE d.state # "mwrite" /\ Continue(g) /\ refs' = refs
    <2> HIDE DEF d
    <2>1. d.write_and_go \in {"read", "swallow", "closing"}
      BY <1>2 DEF Fine, ConnOK
    <2>2. ConnOK(g) /\ g.state \in {"read", "swallow", "closing"}
          /\ g.item = d.item /\ g.ileft = d.ileft
      <3>1. d.write_and_go \in States
        BY <2>1 DEF States
      <3> QED
        BY <1>2, <2>1, <3>1, SetState DEF Fine
    <2>3. d.ileft = 0
      BY <1>1, <1>2, <1>5 DEF Fine, Holds
    <2> HIDE DEF g
    <2>4. Fine(g) /\ Held(g) = Held(d)
      BY <1>3, <2>2, <2>3 DEF Fine, Holds, Held
    <2> QED
      BY <1>1, <1>2, <1>5, <2>4, GoesOn
  <1> QED
    BY <1>4, <1>5 DEF transmit_complete, items_released

LEMMA CloseStep ==
    ASSUME IInv, conn_close
    PROVE  IInv'
  <1> DEFINE e == [c EXCEPT !.state = "closed", !.item = FALSE, !.ileft = 0]
  <1>1. /\ ConnOK(c) /\ c' = e /\ pc' = "wait" /\ refs \in Int
        /\ refs' = refs - c.ileft - IF c.item THEN 1 ELSE 0
        /\ wire' = wire /\ unsent' = unsent
        /\ NoLongGet => refs = Held(c)
    BY DEF conn_close, items_released, In, socket, client, IInv
  <1>2. ConnOK(e) /\ e.state = "closed" /\ ~e.item /\ e.ileft = 0
    BY <1>1 DEF ConnOK, Fields, States
  <1> HIDE DEF e
  <1>3. Holds(e) /\ Held(e) = 0
    BY <1>2 DEF Holds, Held
  <1>4. refs' \in Int /\ (NoLongGet => refs' = 0)
    <2>1. c.ileft \in Int
      BY <1>1 DEF ConnOK
    <2> QED
      BY <1>1, <2>1 DEF Held
  <1>5. Reader' /\ Awake'
    BY <1>1, <1>2 DEF Reader, Awake, Gone
  <1>6. ConnOK(c)' /\ Holds(c)' /\ Held(c)' = 0
    BY <1>1, <1>2, <1>3 DEF ConnOK, Holds, Held
  <1> QED
    BY <1>1, <1>4, <1>5, <1>6 DEF IInv

LEMMA Inductive == IInv /\ [Next]_vars => IInv'
  <1>1. ASSUME IInv, UNCHANGED vars PROVE IInv'
    BY <1>1 DEF IInv, vars, socket, client, ConnOK, Holds, Held, Reader, Awake,
                Gone, Reading, Writing, Left
  <1>2. ASSUME IInv, drive_machine PROVE IInv'
    BY <1>2, CommandStep, ReadMoreStep, NetworkStep, LeftoverStep, RestStep,
       CompleteStep, SwallowedStep, UndefinedStep, TransmitStep,
       TransmitCompleteStep, CloseStep DEF drive_machine
  <1> QED
    BY <1>1, <1>2, ClientStep, HandlerStep DEF Next

----------------------------------------------------------------------------
\* A connection that waits for an event has nothing it could do at once, and
\* waits for the event that will let it go on: update_event is called before
\* drive_machine stops.
THEOREM AlwaysAwake == Spec => []Awake
  <1>1. IInv => Awake
    BY DEF IInv
  <1> QED
    BY <1>1, Initially, Inductive, PTL DEF Spec

\* Unless a get may have a key that is too long behind a valid one (the run
\* leaves it out as well), every reference to an item the connection took is
\* in c->item or in c->ilist, and a closed connection holds none.
THEOREM NothingLeaks == Spec => [](NoLongGet => RefsHeld)
  <1>1. IInv => (NoLongGet => RefsHeld)
    BY DEF IInv, RefsHeld, Held, Holds, ConnOK
  <1> QED
    BY <1>1, Initially, Inductive, PTL DEF Spec

----------------------------------------------------------------------------
(* Where requests begin *)

IsOp(u) == u.op \in Ops

\* The units of data that follow a request.
BlockOf(r) == IF r.op = "update" THEN DataLen ELSE 0

\* A stream that begins with k units of a data block, and in which every
\* request has its whole block behind it.
Framing(S, k) ==
    /\ k \in 0 .. Len(S)
    /\ \A i \in 1 .. k : ~IsOp(S[i])
    /\ k < Len(S) => IsOp(S[k + 1])
    /\ \A i \in 1 .. Len(S) : IsOp(S[i]) =>
          LET n == i + BlockOf(S[i])
          IN  /\ n <= Len(S)
              /\ \A j \in i + 1 .. n : ~IsOp(S[j])
              /\ n < Len(S) => IsOp(S[n + 1])

\* A storage command is refused only for want of room, and then with an answer.
Refusable == \A r \in Requests : r.op = "update" => ~r.long /\ (r.fits \/ ~r.noreply)

----------------------------------------------------------------------------
\* Lemmas about framed streams.

LEMMA BlockLength ==
    ASSUME NEW S, NEW k, Framing(S, k), Len(S) \in Nat
    PROVE  BlockAtHead(S) = k
  <1> DEFINE Is(n) == /\ \A i \in 1 .. n : S[i].op \notin Ops
                      /\ n < Len(S) => S[n + 1].op \in Ops
  <1>1. k \in 0 .. Len(S) /\ Is(k)
    BY DEF Framing, IsOp
  <1>2. ASSUME NEW n \in 0 .. Len(S), Is(n)
        PROVE  n = k
    <2>1. CASE n < k
      <3>1. S[n + 1].op \in Ops /\ n + 1 \in 1 .. k
        BY <1>1, <1>2, <2>1
      <3> QED
        BY <1>1, <3>1
    <2>2. CASE k < n
      <3>1. S[k + 1].op \in Ops /\ k + 1 \in 1 .. n
        BY <1>1, <1>2, <2>2
      <3> QED
        BY <1>2, <3>1
    <2> QED
      BY <1>1, <2>1, <2>2
  <1> HIDE DEF Is
  <1>3. (CHOOSE n \in 0 .. Len(S) : Is(n)) = k
    BY <1>1, <1>2
  <1> QED
    BY <1>3 DEF BlockAtHead, Is

\* What is left behind the first n units begins with m units of data.
LEMMA SuffixFraming ==
    ASSUME NEW S \in Seq(Units), NEW k, Framing(S, k),
           NEW n \in Nat, NEW m \in Nat, n + m <= Len(S),
           \A j \in n + 1 .. n + m : ~IsOp(S[j]),
           n + m < Len(S) => IsOp(S[n + m + 1])
    PROVE  Framing(SubSeq(S, n + 1, Len(S)), m)
  <1> DEFINE T == SubSeq(S, n + 1, Len(S))
  <1>1. Len(S) \in Nat /\ T \in Seq(Units) /\ Len(T) = Len(S) - n
    BY Rest
  <1>2. \A i \in 1 .. Len(T) : T[i] = S[i + n]
    BY <1>1
  <1> HIDE DEF T
  <1>3. \A i \in 1 .. m : ~IsOp(T[i])
    <2> TAKE i \in 1 .. m
    <2>1. i \in 1 .. Len(T) /\ i + n \in n + 1 .. n + m
      BY <1>1
    <2> QED
      BY <1>2, <2>1
  <1>4. m < Len(T) => IsOp(T[m + 1])
    <2> HAVE m < Len(T)
    <2>1. T[m + 1] = S[m + 1 + n] /\ m + 1 + n = n + m + 1 /\ n + m < Len(S)
      BY <1>1, <1>2
    <2> QED
      BY <2>1
  <1>5. ASSUME NEW i \in 1 .. Len(T), IsOp(T[i])
        PROVE  LET e == i + BlockOf(T[i])
               IN  /\ e <= Len(T)
                   /\ \A j \in i + 1 .. e : ~IsOp(T[j])
                   /\ e < Len(T) => IsOp(T[e + 1])
    <2> DEFINE b == BlockOf(T[i])
               p == i + n
    <2>1. T[i] = S[p] /\ p \in 1 .. Len(S) /\ b \in Nat
      BY <1>1, <1>2, ConnAssumption DEF BlockOf
    <2>2. /\ p + b <= Len(S)
          /\ \A j \in p + 1 .. p + b : ~IsOp(S[j])
          /\ p + b < Len(S) => IsOp(S[p + b + 1])
      BY <1>5, <2>1 DEF Framing
    <2> HIDE DEF b
    <2>3. i + b <= Len(T)
      BY <1>1, <2>1, <2>2
    <2>4. ASSUME NEW j \in i + 1 .. i + b PROVE ~IsOp(T[j])
      <3>1. j \in 1 .. Len(T) /\ j + n \in p + 1 .. p + b
        BY <2>1, <2>3, <1>1
      <3> QED
        BY <1>2, <2>2, <3>1
    <2>5. i + b < Len(T) => IsOp(T[i + b + 1])
      <3> HAVE i + b < Len(T)
      <3>1. i + b + 1 \in 1 .. Len(T) /\ i + b + 1 + n = p + b + 1 /\ p + b < Len(S)
        BY <1>1, <2>1
      <3> QED
        BY <1>2, <2>2, <3>1
    <2> QED
      BY <2>3, <2>4, <2>5 DEF b
  <1>6. Framing(T, m)
    BY <1>1, <1>3, <1>4, <1>5 DEF Framing
  <1> QED
    BY <1>6 DEF T

\* Data is read: fewer units of the block are left.
LEMMA DataRead ==
    ASSUME NEW S \in Seq(Units), NEW k, Framing(S, k), NEW n \in 0 .. k
    PROVE  Framing(SubSeq(S, n + 1, Len(S)), k - n)
  <1>1. k \in Nat /\ Len(S) \in Nat /\ k <= Len(S)
    BY DEF Framing
  <1> DEFINE m == k - n
  <1>2. n \in Nat /\ m \in Nat /\ n + m = k
    BY <1>1
  <1> HIDE DEF m
  <1>3. n + m <= Len(S) /\ (n + m < Len(S) => IsOp(S[n + m + 1]))
    BY <1>1, <1>2 DEF Framing
  <1>4. \A j \in n + 1 .. n + m : ~IsOp(S[j])
    BY <1>1, <1>2 DEF Framing
  <1>5. Framing(SubSeq(S, n + 1, Len(S)), m)
    BY <1>2, <1>3, <1>4, SuffixFraming
  <1> QED
    BY <1>5 DEF m

\* A request is read: its block is next.
LEMMA RequestRead ==
    ASSUME NEW S \in Seq(Units), Framing(S, 0), S # <<>>
    PROVE  /\ IsOp(S[1])
           /\ Framing(SubSeq(S, 2, Len(S)), BlockOf(S[1]))
  <1> DEFINE m == BlockOf(S[1])
  <1>1. Len(S) \in Nat \ {0} /\ m \in Nat
    BY ConnAssumption DEF BlockOf
  <1>2. IsOp(S[1])
    BY <1>1 DEF Framing
  <1>3. /\ 1 + m <= Len(S)
        /\ \A j \in 1 + 1 .. 1 + m : ~IsOp(S[j])
        /\ 1 + m < Len(S) => IsOp(S[1 + m + 1])
    BY <1>1, <1>2 DEF Framing
  <1> HIDE DEF m
  <1>4. Framing(SubSeq(S, 1 + 1, Len(S)), m)
    BY <1>1, <1>3, SuffixFraming
  <1> QED
    BY <1>2, <1>4 DEF m

\* The client's data blocks have the length their request says.
Block(r) == IF r.op = "update" THEN DataBlock ELSE <<>>

LEMMA BlockUnits ==
    ASSUME NEW r
    PROVE  /\ Block(r) \in Seq(Units) /\ Len(Block(r)) = BlockOf(r)
           /\ BlockOf(r) \in Nat
           /\ \A j \in 1 .. BlockOf(r) : ~IsOp(Block(r)[j])
  <1>1. DataLen \in Nat
    BY ConnAssumption
  <1>2. /\ DataBlock \in Seq(Units) /\ Len(DataBlock) = DataLen
        /\ \A j \in 1 .. DataLen : DataBlock[j] \in {Unit("data"), Unit("data_end")}
    BY <1>1 DEF DataBlock, Units
  <1>3. ~IsOp(Unit("data")) /\ ~IsOp(Unit("data_end"))
    BY DEF IsOp, Unit, Ops
  <1>4. \A j \in 1 .. DataLen : ~IsOp(DataBlock[j])
    BY <1>2, <1>3
  <1>5. CASE r.op = "update"
    BY <1>1, <1>2, <1>4, <1>5 DEF Block, BlockOf
  <1>6. CASE r.op # "update"
    BY <1>6 DEF Block, BlockOf
  <1> QED
    BY <1>5, <1>6

\* The client sends a request, now and its block later.
LEMMA RequestSent ==
    ASSUME NEW S \in Seq(Units), NEW k, Framing(S, k), NEW r \in Requests
    PROVE  Framing(Append(S, r) \o Block(r), k)
  <1> DEFINE L == Len(S)
             T == Append(S, r) \o Block(r)
             b == BlockOf(r)
  <1>1. L \in Nat /\ k \in 0 .. L /\ r \in Units
    BY DEF Framing, Units
  <1>2. /\ Block(r) \in Seq(Units) /\ Len(Block(r)) = b /\ b \in Nat
        /\ \A j \in 1 .. b : ~IsOp(Block(r)[j])
    BY BlockUnits
  <1>3. /\ Append(S, r) \in Seq(Units) /\ Len(Append(S, r)) = L + 1
        /\ \A i \in 1 .. L : Append(S, r)[i] = S[i]
        /\ Append(S, r)[L + 1] = r
    BY <1>1
  <1> HIDE DEF b
  <1>4. /\ T \in Seq(Units) /\ Len(T) = L + 1 + b
        /\ \A i \in 1 .. L + 1 + b :
              T[i] = IF i <= L + 1 THEN Append(S, r)[i] ELSE Block(r)[i - (L + 1)]
    <2> DEFINE A == Append(S, r)
               B == Block(r)
    <2>1. A \in Seq(Units) /\ B \in Seq(Units) /\ Len(A) = L + 1 /\ Len(B) = b
      BY <1>2, <1>3
    <2> HIDE DEF A, B, L
    <2>2. /\ A \o B \in Seq(Units)
          /\ Len(A \o B) = Len(A) + Len(B)
          /\ \A i \in 1 .. Len(A) + Len(B) :
                (A \o B)[i] = IF i <= Len(A) THEN A[i] ELSE B[i - Len(A)]
      BY <2>1, ConcatProperties
    <2>3. /\ A \o B \in Seq(Units)
          /\ Len(A \o B) = L + 1 + b
          /\ \A i \in 1 .. L + 1 + b :
                (A \o B)[i] = IF i <= L + 1 THEN A[i] ELSE B[i - (L + 1)]
      BY <2>1, <2>2
    <2> QED
      BY <2>3 DEF A, B
  <1>5. /\ \A i \in 1 .. L : T[i] = S[i]
        /\ T[L + 1] = r
        /\ \A i \in L + 2 .. L + 1 + b : ~IsOp(T[i])
    <2>1. \A i \in 1 .. L : T[i] = S[i]
      BY <1>1, <1>2, <1>3, <1>4
    <2>2. T[L + 1] = r
      BY <1>1, <1>2, <1>3, <1>4
    <2>3. ASSUME NEW i \in L + 2 .. L + 1 + b PROVE ~IsOp(T[i])
      <3>1. T[i] = Block(r)[i - (L + 1)] /\ i - (L + 1) \in 1 .. b
        BY <1>1, <1>2, <1>4, <2>3
      <3> QED
        BY <1>2, <3>1
    <2> QED
      BY <2>1, <2>2, <2>3
  <1>6. IsOp(r)
    BY ConnAssumption DEF IsOp
  <1> HIDE DEF L, T
  <1>7. /\ \A i \in 1 .. k : ~IsOp(S[i])
        /\ k < L => IsOp(S[k + 1])
        /\ \A i \in 1 .. L : IsOp(S[i]) =>
              LET n == i + BlockOf(S[i])
              IN  /\ n <= L
                  /\ \A j \in i + 1 .. n : ~IsOp(S[j])
                  /\ n < L => IsOp(S[n + 1])
    BY DEF Framing, L
  <1>8. k \in 0 .. Len(T) /\ \A i \in 1 .. k : ~IsOp(T[i])
    BY <1>1, <1>2, <1>4, <1>5, <1>7
  <1>9. k < Len(T) => IsOp(T[k + 1])
    <2>1. CASE k < L
      BY <1>1, <1>5, <1>7, <2>1
    <2>2. CASE k = L
      BY <1>5, <1>6, <2>2
    <2> QED
      BY <1>1, <2>1, <2>2
  <1>10. ASSUME NEW i \in 1 .. Len(T), IsOp(T[i])
         PROVE  LET n == i + BlockOf(T[i])
                IN  /\ n <= Len(T)
                    /\ \A j \in i + 1 .. n : ~IsOp(T[j])
                    /\ n < Len(T) => IsOp(T[n + 1])
    <2>1. CASE i <= L
      <3> DEFINE n == i + BlockOf(S[i])
      <3>1. T[i] = S[i] /\ i \in 1 .. L /\ BlockOf(S[i]) \in Nat
        BY <1>1, <1>4, <1>5, <2>1, BlockUnits
      <3>2. /\ n <= L
            /\ \A j \in i + 1 .. n : ~IsOp(S[j])
            /\ n < L => IsOp(S[n + 1])
        BY <1>7, <1>10, <3>1
      <3>3. n \in 1 .. L
        BY <1>1, <3>1, <3>2
      <3> HIDE DEF n
      <3>4. \A j \in i + 1 .. n : ~IsOp(T[j])
        BY <1>1, <1>5, <3>2, <3>3
      <3>5. IsOp(T[n + 1])
        <4>1. CASE n < L
          <5>1. n + 1 \in 1 .. L
            BY <1>1, <3>3, <4>1
          <5>2. T[n + 1] = S[n + 1]
            BY <1>5, <5>1
          <5> QED
            BY <3>2, <4>1, <5>2
        <4>2. CASE n = L
          BY <1>5, <1>6, <4>2
        <4> QED
          BY <1>1, <3>3, <4>1, <4>2
      <3>6. n <= Len(T)
        BY <1>1, <1>2, <1>4, <3>3
      <3> QED
        BY <3>1, <3>4, <3>5, <3>6 DEF n
    <2>2. CASE i = L + 1
      <3>1. T[i] = r /\ i + b = Len(T)
        BY <1>1, <1>2, <1>4, <1>5, <2>2
      <3>2. \A j \in i + 1 .. i + b : ~IsOp(T[j])
        BY <1>1, <1>2, <1>5, <2>2
      <3>3. i + b <= Len(T) /\ ~(i + b < Len(T))
        BY <1>1, <1>2, <1>4, <3>1
      <3> QED
        BY <3>1, <3>2, <3>3 DEF b
    <2>3. CASE i > L + 1
      BY <1>1, <1>2, <1>4, <1>5, <1>10, <2>3
    <2> QED
      BY <1>1, <1>4, <2>1, <2>2, <2>3
  <1>11. Framing(T, k)
    BY <1>8, <1>9, <1>10 DEF Framing
  <1> QED
    BY <1>11 DEF T

----------------------------------------------------------------------------
\* Lemmas about the stream, which is in three places.

LEMMA CutConcat ==
    ASSUME NEW a \in Seq(Units), NEW b \in Seq(Units), NEW n \in 0 .. Len(a)
    PROVE  SubSeq(a, n + 1, Len(a)) \o b = SubSeq(a \o b, n + 1, Len(a \o b))
  <1> DEFINE h == SubSeq(a, n + 1, Len(a))
             w == a \o b
             t == SubSeq(w, n + 1, Len(w))
  <1>1. /\ Len(a) \in Nat /\ Len(b) \in Nat /\ n \in Nat /\ n <= Len(a)
        /\ h \in Seq(Units) /\ Len(h) = Len(a) - n
        /\ \A i \in 1 .. Len(a) - n : h[i] = a[n + i]
    <2>1. Len(a) \in Nat /\ Len(b) \in Nat /\ n \in Nat /\ n <= Len(a)
      OBVIOUS
    <2>2. h \in Seq(Units) /\ Len(h) = Len(a) - n
      BY <2>1, Rest
    <2>3. \A i \in 1 .. Len(a) - n : h[i] = a[n + i]
      BY <2>1
    <2> QED
      BY <2>1, <2>2, <2>3
  <1>2. /\ w \in Seq(Units) /\ Len(w) = Len(a) + Len(b)
        /\ \A i \in 1 .. Len(a) + Len(b) :
              w[i] = IF i <= Len(a) THEN a[i] ELSE b[i - Len(a)]
    BY ConcatProperties
  <1> HIDE DEF w
  <1>3. /\ t \in Seq(Units) /\ Len(t) = Len(w) - n
        /\ \A i \in 1 .. Len(w) - n : t[i] = w[n + i]
    <2>1. Len(w) \in Nat /\ n <= Len(w)
      BY <1>1, <1>2
    <2>2. t \in Seq(Units) /\ Len(t) = Len(w) - n
      BY <1>1, <1>2, <2>1, Rest
    <2>3. \A i \in 1 .. Len(w) - n : t[i] = w[n + i]
      BY <1>1, <1>2, <2>1
    <2> QED
      BY <2>2, <2>3
  <1> HIDE DEF h, t
  <1>4. /\ h \o b \in Seq(Units) /\ Len(h \o b) = Len(h) + Len(b)
        /\ \A i \in 1 .. Len(h) + Len(b) :
              (h \o b)[i] = IF i <= Len(h) THEN h[i] ELSE b[i - Len(h)]
    BY <1>1, ConcatProperties
  <1>5. Len(h \o b) = Len(t)
    BY <1>1, <1>2, <1>3, <1>4
  <1>6. ASSUME NEW i \in 1 .. Len(h \o b) PROVE (h \o b)[i] = t[i]
    <2>1. t[i] = w[n + i] /\ n + i \in 1 .. Len(a) + Len(b)
      BY <1>1, <1>2, <1>3, <1>5
    <2>2. CASE i <= Len(a) - n
      <3>1. (h \o b)[i] = a[n + i]
        BY <1>1, <1>4, <2>2
      <3>2. w[n + i] = a[n + i]
        BY <1>1, <1>2, <2>1, <2>2
      <3> QED
        BY <2>1, <3>1, <3>2
    <2>3. CASE i > Len(a) - n
      <3>1. (h \o b)[i] = b[i - (Len(a) - n)]
        BY <1>1, <1>4, <2>3
      <3>2. w[n + i] = b[(n + i) - Len(a)]
        BY <1>1, <1>2, <2>1, <2>3
      <3>3. i - (Len(a) - n) = (n + i) - Len(a)
        BY <1>1
      <3> QED
        BY <2>1, <3>1, <3>2, <3>3
    <2> QED
      BY <1>1, <2>2, <2>3
  <1>7. h \o b = t
    BY <1>3, <1>4, <1>5, <1>6, SeqEqual
  <1> QED
    BY <1>7 DEF h, t, w

\* What is taken from the read buffer is taken from the stream.
LEMMA TakenFromBuffer ==
    ASSUME NEW a \in Seq(Units), NEW b \in Seq(Units), NEW u \in Seq(Units),
           NEW n \in 0 .. Len(a)
    PROVE  LET S == (a \o b) \o u
           IN  (SubSeq(a, n + 1, Len(a)) \o b) \o u = SubSeq(S, n + 1, Len(S))
  <1> DEFINE w == a \o b
             h == SubSeq(a, n + 1, Len(a))
  <1>1. w \in Seq(Units) /\ Len(w) = Len(a) + Len(b)
    BY ConcatProperties
  <1>2. h \o b = SubSeq(w, n + 1, Len(w))
    BY CutConcat
  <1> HIDE DEF w, h
  <1>3. n \in 0 .. Len(w)
    BY <1>1
  <1>4. SubSeq(w, n + 1, Len(w)) \o u = SubSeq(w \o u, n + 1, Len(w \o u))
    BY <1>1, <1>3, CutConcat
  <1> QED
    BY <1>2, <1>4 DEF w, h

\* What is read from the socket stays in the stream.
LEMMA MovedToBuffer ==
    ASSUME NEW a \in Seq(Units), NEW w \in Seq(Units), NEW n \in Nat, n <= Len(w)
    PROVE  (a \o SubSeq(w, 1, n)) \o SubSeq(w, n + 1, Len(w)) = a \o w
  <1> DEFINE f == SubSeq(w, 1, n)
             r == SubSeq(w, n + 1, Len(w))
  <1>1. /\ f \in Seq(Units) /\ Len(f) = n
        /\ \A i \in 1 .. n : f[i] = w[i]
    BY FirstPart
  <1>2. /\ r \in Seq(Units) /\ Len(r) = Len(w) - n
        /\ \A i \in 1 .. Len(w) - n : r[i] = w[n + i]
    BY Rest
  <1> HIDE DEF f, r
  <1>3. /\ f \o r \in Seq(Units) /\ Len(f \o r) = Len(f) + Len(r)
        /\ \A i \in 1 .. Len(f) + Len(r) :
              (f \o r)[i] = IF i <= Len(f) THEN f[i] ELSE r[i - Len(f)]
    BY <1>1, <1>2, ConcatProperties
  <1>4. Len(w) \in Nat /\ Len(f \o r) = Len(w)
    BY <1>1, <1>2, <1>3
  <1>5. ASSUME NEW i \in 1 .. Len(f \o r) PROVE (f \o r)[i] = w[i]
    <2>1. CASE i <= n
      BY <1>1, <1>3, <1>4, <1>5, <2>1
    <2>2. CASE i > n
      <3>1. i - n \in 1 .. Len(w) - n /\ (f \o r)[i] = r[i - n]
        BY <1>1, <1>2, <1>3, <1>4, <2>2
      <3>2. r[i - n] = w[n + (i - n)] /\ n + (i - n) = i
        BY <1>2, <3>1
      <3> QED
        BY <3>1, <3>2
    <2> QED
      BY <2>1, <2>2
  <1>6. f \o r = w
    BY <1>3, <1>4, <1>5, SeqEqual
  <1>7. (a \o f) \o r = a \o (f \o r)
    <2>1. \A x, y \in Seq(Units) : (a \o x) \o y = a \o (x \o y)
      BY ConcatAssociative
    <2> QED
      BY <1>1, <1>2, <2>1
  <1> QED
    BY <1>6, <1>7 DEF f, r

LEMMA AppendToLast ==
    ASSUME NEW a \in Seq(Units), NEW w \in Seq(Units), NEW x \in Units
    PROVE  a \o Append(w, x) = Append(a \o w, x)
  OBVIOUS

\* What the client sends stays in the stream.
LEMMA MovedToSocket ==
    ASSUME NEW a \in Seq(Units), NEW w \in Seq(Units), NEW u \in Seq(Units), u # <<>>
    PROVE  (a \o Append(w, Head(u))) \o Tail(u) = (a \o w) \o u
  <1>1. Head(u) \in Units /\ Tail(u) \in Seq(Units)
    BY HeadTailProperties
  <1>2. a \o w \in Seq(Units)
    BY ConcatProperties
  <1>3. a \o Append(w, Head(u)) = Append(a \o w, Head(u))
    BY <1>1, <1>2, ConcatProperties
  <1>4. Append(a \o w, Head(u)) \o Tail(u) = (a \o w) \o u
    <2> DEFINE q == a \o w
    <2> HIDE DEF q
    <2>1. q \in Seq(Units)
      BY <1>2 DEF q
    <2>2. Append(q, Head(u)) \o Tail(u) = q \o u
      BY <1>1, <2>1
    <2> QED
      BY <2>2 DEF q
  <1> QED
    BY <1>3, <1>4

----------------------------------------------------------------------------
\* What the connection d still expects of a data block, and what it is when
\* nothing is said of its stream.
LeftOf(d) ==
    CASE d.state = "nread" -> d.rlbytes
      [] d.state = "swallow" \/ (d.state = "write" /\ d.write_and_go = "swallow")
         -> d.sbytes
      [] OTHER -> 0

LostOf(d) == \/ d.state \in {"closing", "closed", "crashed"}
             \/ d.state = "write" /\ d.write_and_go = "closing"

\* noreply is forgotten when a command ends.
Quiet(d) == d.noreply => d.state \in {"nread", "closing", "closed", "crashed"}

FInv ==
    /\ Quiet(c)
    /\ Refusable => \/ LostOf(c) \/ peer = "reset"
                    \/ Framing((c.rbuf \o wire) \o unsent, LeftOf(c))

LEMMA StateKeeps ==
    ASSUME NEW d, ConnOK(d), NEW s \in States
    PROVE  LET e == conn_set_state(d, s)
           IN  /\ e.state = s /\ e.rbuf = d.rbuf /\ e.rlbytes = d.rlbytes
               /\ e.sbytes = d.sbytes /\ e.noreply = d.noreply
               /\ e.write_and_go = d.write_and_go
  BY DEF ConnOK, Fields, conn_set_state, conn_shrink

LEMMA OutStringLeft ==
    ASSUME NEW d, ConnOK(d)
    PROVE  LET e == out_string(d)
           IN  /\ e.state \in {"read", "write"} /\ e.rbuf = d.rbuf
               /\ e.state = "write" => e.write_and_go = "read"
               /\ ~d.noreply => e.state = "write"
               /\ LeftOf(e) = 0 /\ Quiet(e)
  <1> DEFINE quiet == [d EXCEPT !.noreply = FALSE]
             r == conn_set_state(quiet, "read")
             w == conn_set_state(d, "write")
             v == [w EXCEPT !.write_and_go = "read"]
             e == out_string(d)
  <1>1. "read" \in States /\ "write" \in States
    BY DEF States
  <1>2. CASE d.noreply
    <2>1. ConnOK(quiet) /\ ~quiet.noreply /\ quiet.rbuf = d.rbuf
      BY DEF ConnOK, Fields
    <2> HIDE DEF quiet
    <2>2. r.state = "read" /\ ~r.noreply /\ r.rbuf = d.rbuf
      BY <1>1, <2>1, StateKeeps
    <2>3. e = r
      BY <1>2 DEF out_string, quiet
    <2> HIDE DEF e, r
    <2>4. /\ e.state \in {"read", "write"} /\ e.rbuf = d.rbuf
          /\ e.state = "write" => e.write_and_go = "read"
          /\ ~d.noreply => e.state = "write"
          /\ LeftOf(e) = 0 /\ Quiet(e)
      BY <1>2, <2>2, <2>3 DEF LeftOf, Quiet
    <2> QED
      BY <2>4 DEF e
  <1>3. CASE ~d.noreply
    <2>1. ConnOK(w) /\ w.state = "write" /\ w.noreply = d.noreply /\ w.rbuf = d.rbuf
      BY <1>1, SetState, StateKeeps
    <2> HIDE DEF w
    <2>2. v.state = "write" /\ v.noreply = w.noreply /\ v.rbuf = d.rbuf
          /\ v.write_and_go = "read"
      BY <2>1 DEF ConnOK, Fields
    <2>3. e = v
      BY <1>3 DEF out_string, w
    <2> HIDE DEF e, v
    <2>4. /\ e.state \in {"read", "write"} /\ e.rbuf = d.rbuf
          /\ e.state = "write" => e.write_and_go = "read"
          /\ ~d.noreply => e.state = "write"
          /\ LeftOf(e) = 0 /\ Quiet(e)
      BY <1>3, <2>1, <2>2, <2>3 DEF LeftOf, Quiet
    <2> QED
      BY <2>4 DEF e
  <1> QED
    BY <1>2, <1>3

\* After a command the connection expects the block that follows it.
Expects(x, r) ==
    /\ Quiet(x)
    /\ Refusable /\ r \in Requests => x.state = "closing" \/ LeftOf(x) = BlockOf(r)

LEMMA GetExpects ==
    ASSUME NEW d, ConnOK(d), ~d.noreply, NEW r \in Units, r.op = "get",
           NEW x \in process_get_command(d, r)
    PROVE  Expects(x.conn, r)
  <1>1. PICK hits \in 0 .. (r.keys - IF r.long THEN 1 ELSE 0) :
          LET found == [d EXCEPT !.out = [n \in 1 .. hits |-> "value"],
                                 !.iovused = hits]
          IN  x = [conn |-> IF r.long THEN out_string(found)
                            ELSE [conn_set_state(found, "mwrite")
                                  EXCEPT !.ileft = hits, !.iovused = hits + 1,
                                         !.out = Append(@, "end")],
                   took |-> hits]
    BY DEF process_get_command
  <1> DEFINE found == [d EXCEPT !.out = [n \in 1 .. hits |-> "value"],
                                !.iovused = hits]
  <1>2. ConnOK(found) /\ ~found.noreply
    BY DEF ConnOK, Fields
  <1>3. BlockOf(r) = 0
    BY DEF BlockOf
  <1>4. CASE r.long
    <2> DEFINE e == out_string(found)
    <2>1. LeftOf(e) = 0 /\ Quiet(e)
      <3> HIDE DEF found
      <3> QED
        BY <1>2, OutStringLeft
    <2>2. x.conn = e
      BY <1>1, <1>4
    <2> HIDE DEF e
    <2> QED
      BY <1>3, <2>1, <2>2 DEF Expects
  <1>5. CASE ~r.long
    <2> DEFINE w == conn_set_state(found, "mwrite")
               e == [w EXCEPT !.ileft = hits, !.iovused = hits + 1,
                              !.out = Append(@, "end")]
    <2>1. ConnOK(w) /\ w.state = "mwrite" /\ w.noreply = found.noreply
      <3> HIDE DEF found
      <3>1. "mwrite" \in States
        BY DEF States
      <3> QED
        BY <1>2, <3>1, SetState, StateKeeps
    <2>2. x.conn = e
      BY <1>1, <1>5
    <2> HIDE DEF w
    <2>3. e.state = "mwrite" /\ e.noreply = w.noreply
      BY <2>1 DEF ConnOK, Fields
    <2> HIDE DEF e, found
    <2> QED
      BY <1>2, <1>3, <2>1, <2>2, <2>3 DEF Expects, LeftOf, Quiet
  <1> QED
    BY <1>4, <1>5

LEMMA UpdateExpects ==
    ASSUME NEW d, ConnOK(d), ~d.noreply, NEW r \in Units, r.op = "update"
    PROVE  Expects(process_update_command(d, r).conn, r)
  <1> DEFINE e == set_noreply_maybe(d, r)
             a == out_string(e)
             w == conn_set_state(e, "nread")
             x == process_update_command(d, r)
  <1>1. ConnOK(e) /\ (e.noreply <=> r.noreply)
    BY DEF ConnOK, Fields, set_noreply_maybe
  <1>2. BlockOf(r) = DataLen /\ DataLen \in Nat
    BY ConnAssumption DEF BlockOf
  <1>3. Refusable /\ r \in Requests => ~r.long /\ (r.fits \/ ~r.noreply)
    BY DEF Refusable
  <1> HIDE DEF e
  <1>4. /\ a.state \in {"read", "write"} /\ ConnOK(a)
        /\ ~e.noreply => a.state = "write"
        /\ Quiet(a)
    BY <1>1, OutString, OutStringLeft
  <1>5. CASE r.long
    <2>1. x.conn = a
      BY <1>5 DEF process_update_command, e
    <2> HIDE DEF x, a
    <2>2. Expects(x.conn, r)
      BY <1>3, <1>4, <1>5, <2>1 DEF Expects
    <2> QED
      BY <2>2 DEF x
  <1>6. CASE ~r.long /\ ~r.fits
    <2> DEFINE t == [a EXCEPT !.write_and_go = "swallow", !.sbytes = to_swallow]
    <2>1. x.conn = t
      BY <1>6 DEF process_update_command, e
    <2> HIDE DEF x, a
    <2>2. t.state = a.state /\ t.write_and_go = "swallow" /\ t.sbytes = DataLen
          /\ t.noreply = a.noreply
      BY <1>4 DEF ConnOK, Fields, to_swallow
    <2> HIDE DEF t
    <2>3. Quiet(t)
      BY <1>4, <2>2 DEF Quiet
    <2>4. Refusable /\ r \in Requests => LeftOf(t) = DataLen
      BY <1>1, <1>3, <1>4, <1>6, <2>2 DEF LeftOf
    <2>5. Expects(x.conn, r)
      BY <1>2, <2>1, <2>3, <2>4 DEF Expects
    <2> QED
      BY <2>5 DEF x
  <1>7. CASE ~r.long /\ r.fits
    <2> DEFINE t == [w EXCEPT !.item = TRUE, !.rlbytes = DataLen]
    <2>1. x.conn = t
      BY <1>7 DEF process_update_command, e
    <2>2. ConnOK(w) /\ w.state = "nread"
      <3>1. "nread" \in States
        BY DEF States
      <3> QED
        BY <1>1, <3>1, SetState
    <2> HIDE DEF x, w
    <2>3. t.state = "nread" /\ t.rlbytes = DataLen
      BY <2>2 DEF ConnOK, Fields
    <2> HIDE DEF t
    <2>4. Expects(x.conn, r)
      BY <1>2, <2>1, <2>3 DEF Expects, LeftOf, Quiet
    <2> QED
      BY <2>4 DEF x
  <1>8. r.long \in BOOLEAN /\ r.fits \in BOOLEAN
    BY UnitFields
  <1> QED
    BY <1>5, <1>6, <1>7, <1>8

LEMMA CommandExpects ==
    ASSUME NEW d, ConnOK(d), ~d.noreply, NEW r \in Units,
           NEW x \in process_command(d, r)
    PROVE  Expects(x.conn, r)
  <1> DEFINE e == [d EXCEPT !.out = <<>>, !.iovused = 0, !.msgused = 1]
             n == set_noreply_maybe(e, r)
             q == conn_set_state(e, "closing")
  <1>1. ConnOK(e) /\ ~e.noreply
    BY DEF ConnOK, Fields
  <1> HIDE DEF e
  <1>2. CASE r.op = "get"
    <2>1. x \in process_get_command(e, r)
      BY <1>2 DEF process_command, e
    <2> QED
      BY <1>1, <1>2, <2>1, GetExpects
  <1>3. CASE r.op = "update"
    <2>1. x = process_update_command(e, r)
      BY <1>3 DEF process_command, e
    <2> QED
      BY <1>1, <1>3, <2>1, UpdateExpects
  <1>4. CASE r.op = "quit"
    <2>1. x.conn = q
      BY <1>4 DEF process_command, e
    <2>2. "closing" \in States
      BY DEF States
    <2>3. q.state = "closing"
      BY <1>1, <2>2, SetState
    <2> HIDE DEF q
    <2> QED
      BY <2>1, <2>3 DEF Expects, Quiet
  <1>5. CASE r.op \notin {"get", "update", "quit"}
    <2>1. x.conn = out_string(n)
      BY <1>5 DEF process_command, e
    <2>2. ConnOK(n)
      BY <1>1 DEF ConnOK, Fields, set_noreply_maybe
    <2> HIDE DEF n
    <2>3. LeftOf(out_string(n)) = 0 /\ Quiet(out_string(n))
      BY <2>2, OutStringLeft
    <2>4. BlockOf(r) = 0
      BY <1>5 DEF BlockOf
    <2> QED
      BY <2>1, <2>3, <2>4 DEF Expects
  <1> QED
    BY <1>2, <1>3, <1>4, <1>5

----------------------------------------------------------------------------
\* The steps.  Every one of them is taken under IInv as well.

LEMMA FramedInitially == Init => FInv
  <1> SUFFICES ASSUME Init PROVE FInv
    OBVIOUS
  <1>1. c.state = "read" /\ ~c.noreply /\ c.rbuf = <<>> /\ wire = <<>> /\ unsent = <<>>
    BY DEF Init, conn_new
  <1>2. (c.rbuf \o wire) \o unsent = <<>>
    BY <1>1
  <1>3. Framing(<<>>, 0)
    BY DEF Framing
  <1> QED
    BY <1>1, <1>2, <1>3 DEF FInv, Quiet, LeftOf

\* The loop goes on with, or stops at, a connection whose stream is framed.
LEMMA GoesOnFramed ==
    ASSUME NEW d, c' = d, Quiet(d),
           Refusable => \/ LostOf(d) \/ peer' = "reset"
                        \/ Framing((d.rbuf \o wire') \o unsent', LeftOf(d))
    PROVE  FInv'
  BY DEF FInv, Quiet, LostOf, LeftOf

LEMMA StopsFramed ==
    ASSUME NEW d, ConnOK(d), Quiet(d), NEW e \in {"read", "write"}, Await(d, e),
           Refusable => \/ LostOf(d) \/ peer' = "reset"
                        \/ Framing((d.rbuf \o wire') \o unsent', LeftOf(d))
    PROVE  FInv'
  <1> DEFINE u == update_event(d, e)
             q == conn_set_state(d, "closing")
  <1>1. CASE c' = u
    <2>1. /\ u.state = d.state /\ u.rbuf = d.rbuf /\ u.noreply = d.noreply
          /\ u.rlbytes = d.rlbytes /\ u.sbytes = d.sbytes
          /\ u.write_and_go = d.write_and_go
      BY DEF ConnOK, Fields, update_event
    <2> HIDE DEF u
    <2>2. Quiet(u) /\ (LostOf(d) => LostOf(u)) /\ LeftOf(u) = LeftOf(d)
      BY <2>1 DEF Quiet, LostOf, LeftOf
    <2> QED
      BY <1>1, <2>1, <2>2, GoesOnFramed
  <1>2. CASE c' = q
    <2>1. q.state = "closing"
      BY SetState DEF States
    <2> HIDE DEF q
    <2>2. Quiet(q) /\ LostOf(q)
      BY <2>1 DEF Quiet, LostOf
    <2> QED
      BY <1>2, <2>2, GoesOnFramed
  <1> QED
    BY <1>1, <1>2 DEF Await, Continue

\* A connection that closes expects nothing.
LEMMA ClosesFramed ==
    ASSUME NEW d, c' = d, d.state \in {"closing", "closed", "crashed"}
    PROVE  FInv'
  BY GoesOnFramed DEF Quiet, LostOf

\* A connection left alone by a step that leaves its stream alone.
LEMMA SameFramed ==
    ASSUME FInv, c' = c, wire' = wire, unsent' = unsent, peer' = peer
    PROVE  FInv'
  BY GoesOnFramed DEF FInv

LEMMA ClientFramed ==
    ASSUME IInv, FInv, send \/ receive \/ leave
    PROVE  FInv'
  <1> DEFINE S == (c.rbuf \o wire) \o unsent
  <1>1. c' = c /\ c.rbuf \in Seq(Units) /\ wire \in Seq(Units) /\ unsent \in Seq(Units)
    BY DEF send, receive, leave, IInv, ConnOK
  <1>2. CASE send
    <2>1. peer' = peer
      BY <1>2 DEF send
    <2>2. CASE /\ unsent # <<>> /\ wire' = Append(wire, Head(unsent))
               /\ unsent' = Tail(unsent)
      <3>1. (c.rbuf \o wire') \o unsent' = S
        BY <1>1, <2>2, MovedToSocket
      <3> QED
        BY <1>1, <2>1, <3>1, GoesOnFramed DEF FInv
    <2>3. CASE /\ unsent = <<>>
               /\ \E r \in Requests : /\ wire' = Append(wire, r)
                                      /\ unsent' = Block(r)
      <3>1. PICK r \in Requests : wire' = Append(wire, r) /\ unsent' = Block(r)
        BY <2>3
      <3> DEFINE q == c.rbuf \o wire
      <3>2. q \in Seq(Units) /\ S = q
        <4>1. q \in Seq(Units)
          BY <1>1, ConcatProperties
        <4> HIDE DEF q
        <4>2. q \o <<>> = q
          BY <4>1
        <4> QED
          BY <2>3, <4>1, <4>2 DEF q
      <3>3. c.rbuf \o wire' = Append(q, r)
        <4>1. r \in Units
          BY DEF Units
        <4>2. c.rbuf \in Seq(Units) /\ wire \in Seq(Units)
          BY <1>1
        <4>3. c.rbuf \o Append(wire, r) = Append(c.rbuf \o wire, r)
          BY <4>1, <4>2, AppendToLast
        <4> QED
          BY <3>1, <4>3
      <3> HIDE DEF q
      <3>4. Framing(S, LeftOf(c)) => Framing((c.rbuf \o wire') \o unsent', LeftOf(c))
        BY <3>1, <3>2, <3>3, RequestSent
      <3> QED
        BY <1>1, <2>1, <3>4, GoesOnFramed DEF FInv
    <2> QED
      BY <1>2, <2>2, <2>3 DEF send, Block
  <1>3. CASE receive
    BY <1>1, <1>3, SameFramed DEF receive, client
  <1>4. CASE leave
    <2>1. CASE peer' = "reset"
      BY <1>1, <2>1, GoesOnFramed DEF FInv
    <2>2. CASE peer' = "shut" /\ peer = "open" /\ wire' = wire
      <3>1. unsent' = unsent
        BY <1>4 DEF leave, client
      <3> QED
        BY <1>1, <2>2, <3>1, GoesOnFramed DEF FInv
    <2> QED
      BY <1>4, <2>1, <2>2 DEF leave
  <1> QED
    BY <1>2, <1>3, <1>4

LEMMA HandlerFramed ==
    ASSUME IInv, FInv, event_handler
    PROVE  FInv'
  BY SameFramed DEF event_handler, socket, client

\* A command is taken at the place where a request begins, and what the
\* connection expects then is the block behind it.
LEMMA CommandFramed ==
    ASSUME IInv, FInv, try_read_command
    PROVE  FInv'
  <1> DEFINE n == FirstLine(c.rbuf)
             command == IF n = 1 THEN c.rbuf[1] ELSE Unit("data_end")
             q == SubSeq(c.rbuf, n + 1, Len(c.rbuf))
             S == (c.rbuf \o wire) \o unsent
  <1>1. /\ ConnOK(c) /\ c.rbuf \in Seq(Units) /\ HasLine(c.rbuf) /\ c.state = "read"
        /\ wire \in Seq(Units) /\ unsent \in Seq(Units)
        /\ wire' = wire /\ unsent' = unsent /\ peer' = peer
    BY DEF IInv, ConnOK, try_read_command, In, socket, client
  <1>2. n \in 1 .. Len(c.rbuf)
    BY <1>1, FirstLineIn
  <1>3. command \in Units
    <2> HIDE DEF n
    <2> QED
      BY <1>1, <1>2 DEF Units
  <1>4. ~c.noreply
    BY <1>1 DEF FInv, Quiet
  <1>5. PICK r \in process_command(c, command) :
          Continue([r.conn EXCEPT !.rbuf = SubSeq(@, n + 1, Len(@))])
    BY DEF try_read_command
  <1>6. ~c.item /\ c.ileft = 0
    BY <1>1 DEF IInv, Holds, ConnOK
  <1> DEFINE d == [r.conn EXCEPT !.rbuf = SubSeq(@, n + 1, Len(@))]
  <1>7. /\ ConnOK(r.conn) /\ r.conn.rbuf = c.rbuf
        /\ Expects(r.conn, command)
    <2> HIDE DEF command
    <2> QED
      BY <1>1, <1>3, <1>4, <1>6, CommandTakes, CommandExpects DEF Took
  <1>8. /\ d.state = r.conn.state /\ d.rbuf = q /\ d.noreply = r.conn.noreply
        /\ d.rlbytes = r.conn.rlbytes /\ d.sbytes = r.conn.sbytes
        /\ d.write_and_go = r.conn.write_and_go
    <2> HIDE DEF n
    <2> QED
      BY <1>7 DEF ConnOK, Fields
  <1>9. c' = d
    BY <1>5 DEF Continue
  <1> HIDE DEF d
  <1>10. Quiet(d) /\ LeftOf(d) = LeftOf(r.conn) /\ (LostOf(r.conn) => LostOf(d))
    BY <1>7, <1>8 DEF Quiet, LeftOf, LostOf, Expects
  <1>11. ASSUME Refusable, peer # "reset", ~LostOf(d)
         PROVE  Framing((d.rbuf \o wire) \o unsent, LeftOf(d))
    <2>1. Framing(S, 0)
      BY <1>1, <1>11 DEF FInv, LostOf, LeftOf
    <2>2. c.rbuf # <<>>
      BY <1>1, <1>2
    <2>3. S \in Seq(Units) /\ S # <<>> /\ S[1] = c.rbuf[1]
      <3>1. /\ c.rbuf \o wire \in Seq(Units)
            /\ Len(c.rbuf \o wire) = Len(c.rbuf) + Len(wire)
            /\ (c.rbuf \o wire)[1] = c.rbuf[1]
        BY <1>1, <1>2, ConcatProperties
      <3> DEFINE w == c.rbuf \o wire
      <3>2. Len(c.rbuf) \in Nat \ {0} /\ Len(wire) \in Nat
        BY <1>1, <1>2
      <3> HIDE DEF w
      <3>3. w \in Seq(Units) /\ Len(w) \in Nat \ {0} /\ w[1] = c.rbuf[1]
        BY <3>1, <3>2 DEF w
      <3>4. w \o unsent \in Seq(Units) /\ Len(w \o unsent) # 0
            /\ (w \o unsent)[1] = w[1]
        BY <1>1, <3>3, ConcatProperties
      <3> QED
        BY <3>3, <3>4 DEF w
    <2>4. IsOp(c.rbuf[1]) /\ Framing(SubSeq(S, 2, Len(S)), BlockOf(c.rbuf[1]))
      <3> HIDE DEF S
      <3> QED
        BY <2>1, <2>3, RequestRead
    <2>5. n = 1
      <3>1. IsLine(c.rbuf[1])
        BY <2>4 DEF IsLine, IsOp, Ops
      <3>2. \A i \in DOMAIN c.rbuf :
              (IsLine(c.rbuf[i]) /\ \A j \in 1 .. (i - 1) : ~IsLine(c.rbuf[j])) <=> i = 1
        BY <1>1, <1>2, <3>1
      <3> QED
        BY <1>1, <1>2, <3>2 DEF FirstLine
    <2>6. command = c.rbuf[1] /\ command \in Requests
      <3>1. command = c.rbuf[1]
        BY <2>5
      <3>2. c.rbuf[1] \in Units
        BY <1>3, <3>1
      <3>3. ~IsOp(Unit("data")) /\ ~IsOp(Unit("data_end"))
        BY DEF IsOp, Unit, Ops
      <3> QED
        BY <2>4, <3>1, <3>2, <3>3 DEF Units
    <2>7. LeftOf(d) = BlockOf(command)
      <3> HIDE DEF command
      <3> QED
        BY <1>7, <1>10, <1>11, <2>6 DEF Expects, LostOf
    <2>8. (q \o wire) \o unsent = SubSeq(S, 2, Len(S))
      <3>1. 1 \in 0 .. Len(c.rbuf) /\ 1 + 1 = 2
        BY <1>1, <1>2
      <3>2. LET Q == (c.rbuf \o wire) \o unsent
            IN  (SubSeq(c.rbuf, 1 + 1, Len(c.rbuf)) \o wire) \o unsent
                  = SubSeq(Q, 1 + 1, Len(Q))
        BY <1>1, <3>1, TakenFromBuffer
      <3> QED
        BY <2>5, <3>1, <3>2
    <2> QED
      BY <1>8, <2>4, <2>6, <2>7, <2>8
  <1> QED
    BY <1>1, <1>9, <1>10, <1>11, GoesOnFramed

LEMMA ReadMoreFramed ==
    ASSUME IInv, FInv, read_more
    PROVE  FInv'
  <1>1. ConnOK(c) /\ wire' = wire /\ unsent' = unsent /\ peer' = peer
    BY DEF read_more, socket, client, IInv
  <1>2. CASE c' = c
    BY <1>1, <1>2, SameFramed
  <1>3. CASE Await(c, "read")
    BY <1>1, <1>3, StopsFramed DEF FInv
  <1> QED
    BY <1>2, <1>3 DEF read_more

LEMMA NetworkFramed ==
    ASSUME IInv, FInv, try_read_network
    PROVE  FInv'
  <1> DEFINE must_grow == Len(c.rbuf) >= c.rsize
             d == IF must_grow THEN [c EXCEPT !.rsize = 2 * @] ELSE c
             avail == d.rsize - Len(d.rbuf)
             res == Min({avail, Len(wire)})
             given_up == [out_string([c EXCEPT !.rbuf = <<>>])
                          EXCEPT !.write_and_go = "closing"]
             more == [d EXCEPT !.rbuf = @ \o SubSeq(wire, 1, res)]
  <1>1. /\ c.state = "read" /\ ConnOK(c) /\ ~c.noreply /\ Quiet(c)
        /\ unsent' = unsent /\ peer' = peer
        /\ wire \in Seq(Units) /\ unsent \in Seq(Units)
    BY DEF try_read_network, client, IInv, Reader, FInv, Quiet
  <1>2. /\ ConnOK(d) /\ d.state = "read" /\ d.rbuf = c.rbuf
        /\ d.noreply = c.noreply
    <2> DEFINE g == [c EXCEPT !.rsize = 2 * @]
    <2>1. Len(c.rbuf) \in Nat /\ c.rsize \in Nat \ {0} /\ Len(c.rbuf) <= c.rsize
      BY <1>1 DEF ConnOK
    <2>2. 2 * c.rsize \in Nat \ {0} /\ Len(c.rbuf) <= 2 * c.rsize
      BY <2>1
    <2>3. ConnOK(g) /\ g.state = "read" /\ g.rbuf = c.rbuf /\ g.noreply = c.noreply
      BY <1>1, <2>2 DEF ConnOK, Fields
    <2> HIDE DEF g
    <2> QED
      BY <1>1, <2>3 DEF g
  <1>3. /\ Quiet(d)
        /\ Refusable => \/ peer = "reset"
                        \/ Framing((d.rbuf \o wire) \o unsent, LeftOf(d))
    <2> HIDE DEF d
    <2> QED
      BY <1>1, <1>2 DEF FInv, Quiet, LostOf, LeftOf
  <1>4. CASE Continue(given_up)
    <2> DEFINE e == [c EXCEPT !.rbuf = <<>>]
               o == out_string(e)
               g == [o EXCEPT !.write_and_go = "closing"]
    <2>1. ConnOK(e) /\ ~e.noreply
      <3>1. /\ e.rbuf \in Seq(Units) /\ Len(e.rbuf) = 0 /\ e.rsize = c.rsize
            /\ ~e.noreply
        BY <1>1 DEF ConnOK, Fields
      <3>2. Len(e.rbuf) <= e.rsize /\ e.rsize \in Nat \ {0}
        BY <1>1, <3>1 DEF ConnOK
      <3> QED
        BY <1>1, <3>1, <3>2 DEF ConnOK, Fields
    <2> HIDE DEF e
    <2>2. ConnOK(o) /\ o.state = "write" /\ Quiet(o)
      BY <2>1, OutString, OutStringLeft
    <2> HIDE DEF o
    <2>3. g.state = "write" /\ g.write_and_go = "closing" /\ g.noreply = o.noreply
      BY <2>2 DEF ConnOK, Fields
    <2>4. given_up = g
      BY DEF o, e
    <2> HIDE DEF g, given_up
    <2>5. Quiet(g) /\ LostOf(g)
      BY <2>2, <2>3 DEF Quiet, LostOf
    <2> QED
      BY <1>4, <2>4, <2>5, GoesOnFramed DEF Continue
  <1>5. CASE Continue(conn_set_state(d, "closing"))
    <2> HIDE DEF d
    <2>1. conn_set_state(d, "closing").state = "closing"
      BY <1>2, SetState DEF States
    <2> QED
      BY <1>5, <2>1, ClosesFramed DEF Continue
  <1>6. CASE c' = more /\ wire' = SubSeq(wire, res + 1, Len(wire))
    <2>1. res \in Nat /\ res <= Len(wire)
      <3>1. avail \in Nat /\ Len(wire) \in Nat
        <4> HIDE DEF d
        <4> QED
          BY <1>1, <1>2 DEF ConnOK
      <3> HIDE DEF avail
      <3> QED
        BY <3>1, MinOfTwo
    <2> HIDE DEF res
    <2> DEFINE q == c.rbuf \o SubSeq(wire, 1, res)
    <2>2. more.rbuf = q /\ more.state = "read" /\ more.noreply = c.noreply
      <3> HIDE DEF d
      <3> QED
        BY <1>2 DEF ConnOK, Fields
    <2>3. q \o wire' = c.rbuf \o wire
      <3>1. c.rbuf \in Seq(Units)
        BY <1>1 DEF ConnOK
      <3> QED
        BY <1>1, <1>6, <2>1, <3>1, MovedToBuffer
    <2> HIDE DEF more, q, d
    <2>4. Quiet(more) /\ LeftOf(more) = LeftOf(d)
      BY <1>1, <1>2, <2>2 DEF Quiet, LeftOf
    <2>5. (more.rbuf \o wire') \o unsent' = (d.rbuf \o wire) \o unsent
      BY <1>1, <1>2, <2>2, <2>3
    <2> QED
      BY <1>1, <1>3, <1>6, <2>4, <2>5, GoesOnFramed
  <1>7. CASE Continue(d) /\ wire' = wire
    <2> HIDE DEF d
    <2> QED
      BY <1>1, <1>3, <1>7, GoesOnFramed DEF Continue
  <1>8. CASE Await(d, "read") /\ wire' = wire
    <2> HIDE DEF d
    <2> QED
      BY <1>1, <1>2, <1>3, <1>8, StopsFramed
  <1> QED
    BY <1>4, <1>5, <1>6, <1>7, <1>8 DEF try_read_network

LEMMA LeftInNames == LeftIn["nread"] = "rlbytes" /\ LeftIn["swallow"] = "sbytes"
  BY DEF LeftIn

\* A part of a data block is read, and q is left in the read buffer.
CountDown(s, n, q) == [c EXCEPT ![LeftIn[s]] = @ - n, !.rbuf = q]

LEMMA CountedLeft ==
    ASSUME NEW s \in {"nread", "swallow"}, ConnOK(c), c.state = s, Quiet(c),
           NEW n \in Nat, NEW q
    PROVE  LET d == CountDown(s, n, q)
           IN  /\ Quiet(d) /\ d.rbuf = q /\ LeftOf(d) = LeftOf(c) - n
               /\ LeftOf(c) = c[LeftIn[s]] /\ ~LostOf(c)
  <1> DEFINE d == CountDown(s, n, q)
  <1>1. CASE s = "nread"
    <2>1. LeftIn[s] = "rlbytes"
      BY <1>1, LeftInNames
    <2>2. d.rbuf = q /\ d.state = "nread" /\ d.rlbytes = c.rlbytes - n
      BY <1>1, <2>1 DEF ConnOK, Fields, CountDown
    <2> HIDE DEF d
    <2>3. /\ Quiet(d) /\ d.rbuf = q /\ LeftOf(d) = LeftOf(c) - n
          /\ LeftOf(c) = c[LeftIn[s]] /\ ~LostOf(c)
      BY <1>1, <2>1, <2>2 DEF Quiet, LeftOf, LostOf
    <2> QED
      BY <2>3 DEF d
  <1>2. CASE s = "swallow"
    <2>1. LeftIn[s] = "sbytes"
      BY <1>2, LeftInNames
    <2>2. /\ d.rbuf = q /\ d.state = "swallow" /\ d.sbytes = c.sbytes - n
          /\ d.noreply = c.noreply
      BY <1>2, <2>1 DEF ConnOK, Fields, CountDown
    <2> HIDE DEF d
    <2>3. /\ Quiet(d) /\ d.rbuf = q /\ LeftOf(d) = LeftOf(c) - n
          /\ LeftOf(c) = c[LeftIn[s]] /\ ~LostOf(c)
      BY <1>2, <2>1, <2>2 DEF Quiet, LeftOf, LostOf
    <2> QED
      BY <2>3 DEF d
  <1> QED
    BY <1>1, <1>2

LEMMA LeftoverFramed ==
    ASSUME IInv, FInv, NEW s \in {"nread", "swallow"}, read_leftover(s)
    PROVE  FInv'
  <1> DEFINE n == tocopy(Len(c.rbuf), c[LeftIn[s]])
             q == SubSeq(c.rbuf, n + 1, Len(c.rbuf))
             e == CountDown(s, n, q)
             S == (c.rbuf \o wire) \o unsent
  <1>1. /\ ConnOK(c) /\ Quiet(c) /\ c.state = s /\ c.rbuf \in Seq(Units)
        /\ wire' = wire /\ unsent' = unsent /\ peer' = peer
        /\ wire \in Seq(Units) /\ unsent \in Seq(Units)
    BY DEF read_leftover, In, socket, client, IInv, ConnOK, FInv
  <1>2. c' = e
    <2>1. c' = [c EXCEPT ![LeftIn[s]] = @ - n, !.rbuf = SubSeq(@, n + 1, Len(@))]
      BY DEF read_leftover, Continue
    <2>2. LeftIn[s] # "rbuf"
      BY DEF LeftIn
    <2> HIDE DEF n
    <2> QED
      BY <1>1, <2>1, <2>2 DEF ConnOK, Fields, CountDown
  <1>3. n \in Nat /\ n <= Len(c.rbuf) /\ n <= c[LeftIn[s]]
    <2>1. Len(c.rbuf) \in Nat /\ c[LeftIn[s]] \in Nat
      BY <1>1, LeftType
    <2> QED
      BY <2>1, MinOfTwo DEF tocopy
  <1> HIDE DEF n, e
  <1>4. Quiet(e) /\ e.rbuf = q /\ LeftOf(e) = LeftOf(c) - n
        /\ LeftOf(c) = c[LeftIn[s]] /\ ~LostOf(c)
    <2>1. ConnOK(c) /\ c.state = s /\ Quiet(c) /\ n \in Nat
      BY <1>1, <1>3
    <2> HIDE DEF q
    <2> QED
      BY <2>1, CountedLeft DEF e
  <1>5. (q \o wire) \o unsent = SubSeq(S, n + 1, Len(S))
    <2>1. n \in 0 .. Len(c.rbuf)
      BY <1>1, <1>3
    <2> QED
      BY <1>1, <2>1, TakenFromBuffer
  <1>6. Framing(S, LeftOf(c)) => Framing(SubSeq(S, n + 1, Len(S)), LeftOf(c) - n)
    <2>1. S \in Seq(Units)
      <3>1. \A a, b, u \in Seq(Units) : (a \o b) \o u \in Seq(Units)
        BY ConcatProperties
      <3> QED
        BY <1>1, <3>1
    <2> HIDE DEF S
    <2>2. n \in 0 .. LeftOf(c)
      BY <1>1, <1>3, <1>4, LeftType
    <2> QED
      BY <2>1, <2>2, DataRead
  <1> QED
    BY <1>1, <1>2, <1>4, <1>5, <1>6, GoesOnFramed DEF FInv

LEMMA RestFramed ==
    ASSUME IInv, FInv, NEW s \in {"nread", "swallow"}, read_rest(s)
    PROVE  FInv'
  <1> DEFINE most == IF s = "swallow" THEN Min({c.sbytes, c.rsize}) ELSE c.rlbytes
             n == Min({most, Len(wire)})
             e == CountDown(s, n, <<>>)
             S == (c.rbuf \o wire) \o unsent
  <1>1. /\ ConnOK(c) /\ Quiet(c) /\ c.state = s /\ c.rbuf = <<>>
        /\ unsent' = unsent /\ peer' = peer
        /\ wire \in Seq(Units) /\ unsent \in Seq(Units)
    BY DEF read_rest, In, client, IInv, FInv
  <1>2. CASE /\ c' = [c EXCEPT ![LeftIn[s]] = @ - n]
             /\ wire' = SubSeq(wire, n + 1, Len(wire))
    <2>1. n \in Nat /\ n <= Len(wire) /\ n <= c[LeftIn[s]]
      <3>1. c.sbytes \in Nat /\ c.rsize \in Nat /\ c[LeftIn[s]] \in Nat
            /\ c[LeftIn[s]] = IF s = "nread" THEN c.rlbytes ELSE c.sbytes
        BY <1>1, LeftType DEF ConnOK
      <3>2. most \in Nat /\ most <= c[LeftIn[s]]
        BY <3>1, MinOfTwo
      <3> HIDE DEF most
      <3>3. Len(wire) \in Nat
        BY <1>1
      <3>4. n = IF most <= Len(wire) THEN most ELSE Len(wire)
        BY <3>2, <3>3, MinOfTwo
      <3> QED
        BY <3>1, <3>2, <3>3, <3>4
    <2> HIDE DEF n
    <2>2. c' = e
      <3>1. LeftIn[s] # "rbuf"
        BY DEF LeftIn
      <3> QED
        BY <1>1, <1>2, <3>1 DEF ConnOK, Fields, CountDown
    <2> HIDE DEF e
    <2>3. Quiet(e) /\ e.rbuf = <<>> /\ LeftOf(e) = LeftOf(c) - n
          /\ LeftOf(c) = c[LeftIn[s]] /\ ~LostOf(c)
      <3>1. ConnOK(c) /\ c.state = s /\ Quiet(c) /\ n \in Nat
        BY <1>1, <2>1
      <3> QED
        BY <3>1, CountedLeft DEF e
    <2>4. (e.rbuf \o wire') \o unsent' = SubSeq(S, n + 1, Len(S))
      <3> DEFINE w == SubSeq(wire, n + 1, Len(wire))
      <3>1. w \in Seq(Units) /\ n \in 0 .. Len(wire)
        BY <1>1, <2>1, Rest
      <3>2. w \o unsent = SubSeq(wire \o unsent, n + 1, Len(wire \o unsent))
        BY <1>1, <3>1, CutConcat
      <3> HIDE DEF w
      <3>3. <<>> \o wire = wire /\ <<>> \o w = w
        BY <1>1, <3>1
      <3>4. w = wire'
        BY <1>2 DEF w
      <3> QED
        BY <1>1, <2>3, <3>2, <3>3, <3>4
    <2>5. Framing(S, LeftOf(c)) => Framing(SubSeq(S, n + 1, Len(S)), LeftOf(c) - n)
      <3>1. S \in Seq(Units)
        <4>1. \A a, b, u \in Seq(Units) : (a \o b) \o u \in Seq(Units)
          BY ConcatProperties
        <4>2. c.rbuf \in Seq(Units)
          BY <1>1
        <4> QED
          BY <1>1, <4>1, <4>2
      <3> HIDE DEF S
      <3>2. n \in 0 .. LeftOf(c)
        BY <1>1, <2>1, <2>3, LeftType
      <3> QED
        BY <3>1, <3>2, DataRead
    <2> QED
      BY <1>1, <2>2, <2>3, <2>4, <2>5, GoesOnFramed DEF FInv
  <1>3. CASE Continue(Closing)
    <2>1. Closing.state = "closing"
      BY <1>1, SetState DEF Closing, States
    <2> QED
      BY <1>3, <2>1, ClosesFramed DEF Continue
  <1>4. CASE Await(c, "read") /\ wire' = wire
    BY <1>1, <1>4, StopsFramed DEF FInv
  <1> QED
    BY <1>2, <1>3, <1>4 DEF read_rest, Continue

LEMMA CompleteFramed ==
    ASSUME IInv, FInv, complete_nread
    PROVE  FInv'
  <1> DEFINE o == out_string(c)
             e == [o EXCEPT !.item = FALSE]
  <1>1. /\ ConnOK(c) /\ c.state = "nread" /\ c.rlbytes = 0 /\ c' = e
        /\ wire' = wire /\ unsent' = unsent /\ peer' = peer
    BY DEF complete_nread, Continue, In, socket, client, IInv
  <1>2. ConnOK(o) /\ o.rbuf = c.rbuf /\ LeftOf(o) = 0 /\ Quiet(o)
    BY <1>1, OutString, OutStringLeft
  <1> HIDE DEF o
  <1>3. /\ e.state = o.state /\ e.rbuf = o.rbuf /\ e.noreply = o.noreply
        /\ e.rlbytes = o.rlbytes /\ e.sbytes = o.sbytes
        /\ e.write_and_go = o.write_and_go
    BY <1>2 DEF ConnOK, Fields
  <1> HIDE DEF e
  <1>4. Quiet(e) /\ LeftOf(e) = 0
    BY <1>2, <1>3 DEF Quiet, LeftOf
  <1>5. LeftOf(c) = 0 /\ ~LostOf(c)
    BY <1>1 DEF LeftOf, LostOf
  <1> QED
    BY <1>1, <1>2, <1>3, <1>4, <1>5, GoesOnFramed DEF FInv

LEMMA SwallowedFramed ==
    ASSUME IInv, FInv, swallowed
    PROVE  FInv'
  <1> DEFINE e == conn_set_state(c, "read")
  <1>1. /\ ConnOK(c) /\ c.state = "swallow" /\ c.sbytes = 0 /\ c' = e
        /\ wire' = wire /\ unsent' = unsent /\ peer' = peer
    BY DEF swallowed, Continue, In, socket, client, IInv
  <1>2. e.state = "read" /\ e.rbuf = c.rbuf /\ e.noreply = c.noreply
    BY <1>1, StateKeeps DEF States
  <1> HIDE DEF e
  <1>3. LeftOf(e) = 0 /\ LeftOf(c) = 0 /\ ~LostOf(c)
    BY <1>1, <1>2 DEF LeftOf, LostOf
  <1>4. Quiet(e)
    BY <1>1, <1>2 DEF FInv, Quiet
  <1> QED
    BY <1>1, <1>2, <1>3, <1>4, GoesOnFramed DEF FInv

\* The connection x is at the same place of its stream as d.
Alike(x, d) ==
    /\ x.state = d.state /\ x.rbuf = d.rbuf /\ x.noreply = d.noreply
    /\ x.rlbytes = d.rlbytes /\ x.sbytes = d.sbytes
    /\ x.write_and_go = d.write_and_go

LEMMA AlikeFramed ==
    ASSUME FInv, NEW d, Alike(d, c)
    PROVE  /\ Quiet(d)
           /\ Refusable => \/ LostOf(d) \/ peer = "reset"
                           \/ Framing((d.rbuf \o wire) \o unsent, LeftOf(d))
  <1>1. (Quiet(c) => Quiet(d)) /\ (LostOf(c) => LostOf(d)) /\ LeftOf(d) = LeftOf(c)
    BY DEF Alike, Quiet, LostOf, LeftOf
  <1> QED
    BY <1>1 DEF FInv, Alike

LEMMA AddIovAlike ==
    ASSUME NEW d, ConnOK(d)
    PROVE  ConnOK(add_iov(d)) /\ Alike(add_iov(d), d)
  BY DEF ConnOK, Fields, add_iov, Alike

LEMMA TransmitFramed ==
    ASSUME IInv, FInv, transmit
    PROVE  FInv'
  <1> DEFINE d == add_iov(c)
  <1>1. ConnOK(c) /\ wire' = wire /\ unsent' = unsent /\ peer' = peer
    BY DEF transmit, client, IInv
  <1>2. ConnOK(d) /\ Alike(d, c)
    BY <1>1, AddIovAlike
  <1>3. CASE \E n \in 1 .. Len(d.out) :
               Continue([d EXCEPT !.out = SubSeq(@, n + 1, Len(@))])
    <2>1. PICK n : Continue([d EXCEPT !.out = SubSeq(@, n + 1, Len(@))])
      BY <1>3
    <2> HIDE DEF d
    <2> DEFINE e == [d EXCEPT !.out = SubSeq(@, n + 1, Len(@))]
    <2>2. Alike(e, c)
      BY <1>2 DEF ConnOK, Fields, Alike
    <2>3. c' = e
      BY <2>1 DEF Continue
    <2> HIDE DEF e
    <2> QED
      BY <1>1, <2>2, <2>3, AlikeFramed, GoesOnFramed
  <1>4. CASE Await(d, "write")
    <2> HIDE DEF d
    <2> QED
      BY <1>1, <1>2, <1>4, AlikeFramed, StopsFramed
  <1>5. CASE Continue(conn_set_state(d, "closing"))
    <2> HIDE DEF d
    <2>1. conn_set_state(d, "closing").state = "closing"
      BY <1>2, SetState DEF States
    <2> QED
      BY <1>5, <2>1, ClosesFramed DEF Continue
  <1> QED
    BY <1>3, <1>4, <1>5 DEF transmit

LEMMA TransmitCompleteFramed ==
    ASSUME IInv, FInv, transmit_complete
    PROVE  FInv'
  <1> DEFINE d == add_iov(c)
             z == [d EXCEPT !.ileft = 0]
             e == conn_set_state(z, "read")
             g == conn_set_state(d, d.write_and_go)
  <1>1. /\ ConnOK(c) /\ c.state \in {"write", "mwrite"} /\ Quiet(c)
        /\ wire' = wire /\ unsent' = unsent /\ peer' = peer
    BY DEF transmit_complete, Writing, socket, client, IInv, FInv
  <1>2. ConnOK(d) /\ Alike(d, c)
    BY <1>1, AddIovAlike
  <1>3. CASE d.state = "mwrite" /\ c' = e
    <2> HIDE DEF d
    <2>1. ConnOK(z) /\ Alike(z, d)
      BY <1>2 DEF ConnOK, Fields, Alike
    <2> HIDE DEF z
    <2>2. e.state = "read" /\ e.rbuf = z.rbuf /\ e.noreply = z.noreply
      BY <2>1, StateKeeps DEF States
    <2>3. c.state = "mwrite" /\ e.rbuf = c.rbuf /\ e.noreply = c.noreply
      BY <1>2, <1>3, <2>1, <2>2 DEF Alike
    <2> HIDE DEF e
    <2>4. LeftOf(e) = 0 /\ LeftOf(c) = 0 /\ ~LostOf(c)
      BY <2>2, <2>3 DEF LeftOf, LostOf
    <2>5. Quiet(e)
      BY <1>1, <2>2, <2>3 DEF Quiet
    <2> QED
      BY <1>1, <1>3, <2>3, <2>4, <2>5, GoesOnFramed DEF FInv
  <1>4. CASE d.state # "mwrite" /\ c' = g
    <2> HIDE DEF d
    <2>1. d.write_and_go \in {"read", "swallow", "closing"} /\ d.state = "write"
      BY <1>1, <1>2, <1>4 DEF ConnOK, Alike
    <2>2. /\ g.state = d.write_and_go /\ g.rbuf = d.rbuf /\ g.sbytes = d.sbytes
          /\ g.noreply = d.noreply
      <3>1. d.write_and_go \in States
        BY <2>1 DEF States
      <3> QED
        BY <1>2, <3>1, StateKeeps
    <2>3. Quiet(d) /\ ~d.noreply
      BY <1>1, <1>2, <2>1 DEF Quiet, Alike
    <2> HIDE DEF g
    <2>4. Quiet(g) /\ (LostOf(d) => LostOf(g))
          /\ (LostOf(g) \/ LeftOf(g) = LeftOf(d))
      BY <2>1, <2>2, <2>3 DEF Quiet, LostOf, LeftOf
    <2> QED
      BY <1>1, <1>2, <1>4, <2>2, <2>4, AlikeFramed, GoesOnFramed
  <1> QED
    BY <1>3, <1>4 DEF transmit_complete, Continue

LEMMA EndsFramed ==
    ASSUME IInv, FInv, add_iov_undefined \/ conn_close
    PROVE  FInv'
  <1>1. ConnOK(c) /\ c'.state \in {"crashed", "closed"}
    BY DEF add_iov_undefined, conn_close, IInv, ConnOK, Fields
  <1> QED
    BY <1>1, ClosesFramed

LEMMA InductiveFramed == IInv /\ FInv /\ [Next]_vars => FInv'
  <1>1. ASSUME IInv, FInv, UNCHANGED vars PROVE FInv'
    BY <1>1, SameFramed DEF vars, socket, client
  <1>2. ASSUME IInv, FInv, drive_machine PROVE FInv'
    BY <1>2, CommandFramed, ReadMoreFramed, NetworkFramed, LeftoverFramed,
       RestFramed, CompleteFramed, SwallowedFramed, TransmitFramed,
       TransmitCompleteFramed, EndsFramed DEF drive_machine
  <1> QED
    BY <1>1, <1>2, ClientFramed, HandlerFramed DEF Next

----------------------------------------------------------------------------
\* If a storage command is refused only for want of room, and then with an
\* answer (as in the run), what is still to come of a data block is what the
\* connection is about to read or to swallow: no line is taken for data and no
\* data for a command, however the requests are cut into reads.
THEOREM AlwaysFramed == Spec => [](Refusable => Framed)
  <1>1. IInv /\ FInv => (Refusable => Framed)
    <2> SUFFICES ASSUME IInv, FInv, Refusable PROVE Framed
      OBVIOUS
    <2> DEFINE S == (c.rbuf \o wire) \o unsent
    <2>1. CASE LostOf(c) \/ peer = "reset"
      BY <2>1 DEF LostOf, Framed, Gone, GivenUp
    <2>2. CASE Framing(S, LeftOf(c))
      <3>1. S \in Seq(Units)
        <4>1. \A a, b, u \in Seq(Units) : (a \o b) \o u \in Seq(Units)
          BY ConcatProperties
        <4>2. c.rbuf \in Seq(Units) /\ wire \in Seq(Units) /\ unsent \in Seq(Units)
          BY DEF IInv, ConnOK
        <4> QED
          BY <4>1, <4>2
      <3>2. BlockAtHead(S) = LeftOf(c)
        <4> HIDE DEF S
        <4> QED
          BY <2>2, <3>1, BlockLength
      <3>3. LeftOf(c) = Left
        BY DEF LeftOf, Left
      <3> QED
        BY <3>2, <3>3 DEF Framed
    <2> QED
      BY <2>1, <2>2 DEF FInv
  <1>2. Init => IInv /\ FInv
    BY Initially, FramedInitially
  <1>3. IInv /\ FInv /\ [Next]_vars => IInv' /\ FInv'
    BY Inductive, InductiveFramed
  <1> QED
    BY <1>1, <1>2, <1>3, PTL DEF Spec

----------------------------------------------------------------------------
\* Counting the requests of a stream that are to be answered.

\* The requests in a stream that are to be answered, and how many they are.
Asks(u)   == IsOp(u) /\ Answered(u)
Places(S) == {i \in 1 .. Len(S) : Asks(S[i])}
Asked(S)  == Cardinality(Places(S))

\* A stream has finitely many requests.
LEMMA AskedNat ==
    ASSUME NEW S \in Seq(Units)
    PROVE  IsFiniteSet(Places(S)) /\ Asked(S) \in Nat
  <1>1. Len(S) \in Nat
    OBVIOUS
  <1>2. IsFiniteSet(1 .. Len(S)) /\ Places(S) \in SUBSET (1 .. Len(S))
    BY <1>1, FS_Interval DEF Places
  <1>3. IsFiniteSet(Places(S))
    BY <1>2, FS_Subset
  <1> QED
    BY <1>3, FS_CardinalityType DEF Asked

\* The empty stream has none.
LEMMA NoneAsked == Asked(<<>>) = 0
  BY FS_EmptySet DEF Asked, Places

\* What is left of a stream has the requests behind the place it is cut at.
LEMMA AskedBehind ==
    ASSUME NEW S \in Seq(Units), NEW n \in Nat, n <= Len(S)
    PROVE  Asked(SubSeq(S, n + 1, Len(S))) = Cardinality({i \in Places(S) : i > n})
  <1> DEFINE T == SubSeq(S, n + 1, Len(S))
             P == Places(T)
             Q == {i \in Places(S) : i > n}
             f == [i \in P |-> i + n]
  <1>1. Len(S) \in Nat /\ T \in Seq(Units) /\ Len(T) = Len(S) - n
    BY Rest
  <1>2. \A i \in 1 .. Len(T) : T[i] = S[i + n]
    BY <1>1
  <1>3. IsFiniteSet(P)
    <2> HIDE DEF T
    <2> QED
      BY <1>1, AskedNat
  <1> HIDE DEF T
  <1>4. P \subseteq Nat /\ \A i \in P : f[i] = i + n
    BY <1>1 DEF Places
  <1>5. f \in [P -> Q]
    <2>1. ASSUME NEW i \in P PROVE i + n \in Q
      <3>1. i \in 1 .. Len(T) /\ Asks(T[i])
        BY DEF Places
      <3>2. i + n \in 1 .. Len(S) /\ i + n > n /\ Asks(S[i + n])
        BY <1>1, <1>2, <3>1
      <3> QED
        BY <3>2 DEF Places
    <2> QED
      BY <2>1
  <1>6. \A i, j \in P : f[i] = f[j] => i = j
    BY <1>4
  <1>7. \A q \in Q : \E i \in P : f[i] = q
    <2> TAKE q \in Q
    <2>1. q \in 1 .. Len(S) /\ q > n /\ Asks(S[q])
      BY DEF Places
    <2>2. q - n \in 1 .. Len(T) /\ (q - n) + n = q
      BY <1>1, <2>1
    <2>3. Asks(T[q - n])
      BY <1>2, <2>1, <2>2
    <2>4. q - n \in P
      BY <2>2, <2>3 DEF Places
    <2> QED
      BY <1>4, <2>2, <2>4
  <1> HIDE DEF f
  <1>8. f \in Bijection(P, Q)
    <2> HIDE DEF P, Q
    <2> QED
      BY <1>5, <1>6, <1>7 DEF Bijection, Injection, Surjection, IsInjective
  <1>9. Cardinality(Q) = Cardinality(P)
    <2> HIDE DEF P, Q
    <2> QED
      BY <1>3, <1>8, FS_Bijection DEF ExistsBijection
  <1> QED
    BY <1>9 DEF Asked, T

\* Data has no answer.
LEMMA DataUnasked ==
    ASSUME NEW S \in Seq(Units), NEW n \in Nat, n <= Len(S),
           \A i \in 1 .. n : ~IsOp(S[i])
    PROVE  Asked(SubSeq(S, n + 1, Len(S))) = Asked(S)
  <1>1. {i \in Places(S) : i > n} = Places(S)
    BY DEF Places, Asks
  <1> QED
    BY <1>1, AskedBehind DEF Asked

\* Taking a request that is to be answered leaves one less.
LEMMA RequestTaken ==
    ASSUME NEW S \in Seq(Units), S # <<>>
    PROVE  Asked(S) = Asked(SubSeq(S, 2, Len(S))) + IF Asks(S[1]) THEN 1 ELSE 0
  <1> DEFINE one == 1
             P == Places(S)
  <1>1. Len(S) \in Nat \ {0}
    OBVIOUS
  <1>2. {i \in P : i > 1} = P \ {1}
    BY DEF Places
  <1>3. Asked(SubSeq(S, 1 + 1, Len(S))) = Cardinality({i \in Places(S) : i > 1})
    <2> HIDE DEF one
    <2>1. one \in Nat /\ one <= Len(S)
      BY <1>1 DEF one
    <2>2. Asked(SubSeq(S, one + 1, Len(S))) = Cardinality({i \in Places(S) : i > one})
      BY <2>1, AskedBehind
    <2> QED
      BY <2>2 DEF one
  <1>4. 1 \in P <=> Asks(S[1])
    BY <1>1 DEF Places
  <1>5. IsFiniteSet(P) /\ Cardinality(P) \in Nat
    BY AskedNat DEF Asked
  <1> HIDE DEF P
  <1>6. Cardinality(P \ {1}) = IF 1 \in P THEN Cardinality(P) - 1 ELSE Cardinality(P)
    BY <1>5, FS_RemoveElement
  <1>7. 1 + 1 = 2
    OBVIOUS
  <1>8. Asked(SubSeq(S, 2, Len(S))) = Cardinality(P \ {1})
    BY <1>2, <1>3, <1>7 DEF P
  <1> QED
    BY <1>4, <1>5, <1>6, <1>8 DEF Asked, P

\* A request that is sent, with its data, is one more to be answered, or none.
LEMMA RequestAsked ==
    ASSUME NEW S \in Seq(Units), NEW r \in Requests
    PROVE  Asked(Append(S, r) \o Block(r)) = Asked(S) + IF Answered(r) THEN 1 ELSE 0
  <1> DEFINE L == Len(S)
             A == Append(S, r)
             B == Block(r)
             b == BlockOf(r)
             T == A \o B
             P == Places(S)
  <1>1. /\ B \in Seq(Units) /\ Len(B) = b /\ b \in Nat
        /\ \A j \in 1 .. b : ~IsOp(B[j])
    BY BlockUnits
  <1>2. /\ L \in Nat /\ A \in Seq(Units) /\ Len(A) = L + 1
        /\ \A i \in 1 .. L : A[i] = S[i]
        /\ A[L + 1] = r
    <2>1. r \in Units
      BY DEF Units
    <2> QED
      BY <2>1
  <1> HIDE DEF A, B, b, L
  <1>3. /\ Len(T) = Len(A) + Len(B)
        /\ \A i \in 1 .. Len(A) + Len(B) :
              T[i] = IF i <= Len(A) THEN A[i] ELSE B[i - Len(A)]
    BY <1>1, <1>2, ConcatProperties
  <1> HIDE DEF T
  <1>4. Asks(r) <=> Answered(r)
    BY ConnAssumption DEF Asks, IsOp
  <1>5. \A i \in 1 .. L : T[i] = S[i]
    BY <1>1, <1>2, <1>3
  <1>6. T[L + 1] = r /\ Len(T) = L + 1 + b
    BY <1>1, <1>2, <1>3
  <1>7. ASSUME NEW i \in L + 2 .. Len(T) PROVE ~Asks(T[i])
    <2>1. T[i] = B[i - (L + 1)] /\ i - (L + 1) \in 1 .. b
      BY <1>1, <1>2, <1>3, <1>6
    <2> QED
      BY <1>1, <2>1 DEF Asks
  <1>8. Places(T) = IF Answered(r) THEN P \cup {L + 1} ELSE P
    <2>1. ASSUME NEW i \in 1 .. Len(T)
          PROVE  Asks(T[i]) <=> (i \in P \/ (i = L + 1 /\ Answered(r)))
      <3>1. CASE i <= L
        BY <1>2, <1>5, <3>1 DEF Places, L
      <3>2. CASE i = L + 1
        BY <1>2, <1>4, <1>6, <3>2 DEF Places, L
      <3>3. CASE i > L + 1
        BY <1>2, <1>6, <1>7, <3>3 DEF Places, L
      <3> QED
        BY <1>2, <3>1, <3>2, <3>3
    <2>2. P \subseteq 1 .. Len(T) /\ L + 1 \in 1 .. Len(T)
      BY <1>1, <1>2, <1>6 DEF Places, L
    <2>3. Places(T) = {i \in 1 .. Len(T) : Asks(T[i])}
      BY DEF Places
    <2> HIDE DEF P
    <2> QED
      BY <2>1, <2>2, <2>3
  <1>9. IsFiniteSet(P) /\ Cardinality(P) \in Nat /\ L + 1 \notin P
    <2>1. L + 1 \notin P
      BY <1>2 DEF Places, L
    <2> QED
      BY <2>1, AskedNat DEF Asked
  <1> HIDE DEF P
  <1>10. Cardinality(P \cup {L + 1}) = Cardinality(P) + 1
    BY <1>9, FS_AddElement
  <1> QED
    BY <1>8, <1>9, <1>10 DEF Asked, P, T, A, B

----------------------------------------------------------------------------
\* What a command says.

\* The parts a reply is made of.
Parts == {"value", "end", "text"}

\* The types of what a connection has to say, and to whom.
Saying(d) ==
    /\ d.ev \in {"read", "write"} /\ d.out \in Seq(Parts) /\ d.iovused \in Nat
    /\ d.msgused \in 0 .. 1 /\ d.noreply \in BOOLEAN

\* Of the parts of a reply the last one, and no other, ends it.
OneReply(out) == \A i \in 1 .. Len(out) : out[i] # "value" <=> i = Len(out)

\* What is to be sent is one reply, or its text is still to be added.
OutFits(d) ==
    /\ OneReply(d.out)
    /\ d.state \in {"read", "nread", "swallow"} => d.out = <<>>
    /\ d.state = "nread" => d.iovused = 0 /\ d.msgused = 1
    /\ d.state = "write" => d.msgused = 1 /\ (d.out # <<>> => d.iovused # 0)
    /\ d.state = "mwrite" => d.iovused # 0

\* Is a command that was taken from the stream still to be answered?
ToAnswer(d) ==
    \/ d.state = "nread" /\ ~d.noreply
    \/ d.state \in {"write", "mwrite"} /\ (d.out # <<>> \/ d.iovused = 0)

\* How many replies the connection itself owes.
Due(d) == IF ToAnswer(d) THEN 1 ELSE 0

\* The connection x has the same to say as d.
SaysSame(x, d) ==
    /\ x.ev = d.ev /\ x.out = d.out /\ x.iovused = d.iovused
    /\ x.msgused = d.msgused /\ x.noreply = d.noreply

\* A change of state says nothing.
LEMMA StateSays ==
    ASSUME NEW d, ConnOK(d), NEW s \in States
    PROVE  SaysSame(conn_set_state(d, s), d)
  BY DEF ConnOK, Fields, conn_set_state, conn_shrink, SaysSame

\* What is due depends on what there is to say and on the state.
LEMMA SameSaying ==
    ASSUME NEW d, NEW x, SaysSame(x, d)
    PROVE  /\ Saying(d) => Saying(x)
           /\ x.state = d.state => /\ OutFits(d) => OutFits(x)
                                   /\ Due(x) = Due(d)
  BY DEF SaysSame, Saying, OutFits, ToAnswer, Due

\* A command that has nothing in out and no text yet is answered, unless its
\* client wants no answer.
LEMMA OutStringSays ==
    ASSUME NEW d, ConnOK(d), Saying(d)
    PROVE  LET e == out_string(d)
           IN  /\ Saying(e)
               /\ e.state = IF d.noreply THEN "read" ELSE "write"
               /\ e.out = d.out /\ e.iovused = d.iovused /\ e.msgused = d.msgused
               /\ d.out = <<>> /\ d.iovused = 0 /\ d.msgused = 1 =>
                     /\ OutFits(e)
                     /\ Due(e) = IF d.noreply THEN 0 ELSE 1
  <1> DEFINE quiet == [d EXCEPT !.noreply = FALSE]
             r == conn_set_state(quiet, "read")
             w == conn_set_state(d, "write")
             v == [w EXCEPT !.write_and_go = "read"]
             e == out_string(d)
  <1>1. "read" \in States /\ "write" \in States
    BY DEF States
  <1>2. /\ Saying(e)
        /\ e.state = IF d.noreply THEN "read" ELSE "write"
        /\ e.out = d.out /\ e.iovused = d.iovused /\ e.msgused = d.msgused
    <2>1. CASE d.noreply
      <3>1. ConnOK(quiet) /\ Saying(quiet) /\ quiet.out = d.out
            /\ quiet.iovused = d.iovused /\ quiet.msgused = d.msgused
        BY DEF ConnOK, Fields, Saying
      <3>2. e = r
        BY <2>1 DEF out_string
      <3> HIDE DEF quiet, e
      <3>3. SaysSame(r, quiet) /\ r.state = "read"
        BY <1>1, <3>1, StateSays, StateKeeps
      <3> HIDE DEF r
      <3> QED
        BY <2>1, <3>1, <3>2, <3>3 DEF SaysSame, Saying
    <2>2. CASE ~d.noreply
      <3>1. ConnOK(w) /\ SaysSame(w, d) /\ w.state = "write"
        BY <1>1, StateSays, SetState
      <3>2. e = v
        BY <2>2 DEF out_string
      <3> HIDE DEF w, e
      <3>3. SaysSame(v, w) /\ v.state = "write"
        BY <3>1 DEF ConnOK, Fields, SaysSame
      <3> HIDE DEF v
      <3> QED
        BY <2>2, <3>1, <3>2, <3>3 DEF SaysSame, Saying
    <2> QED
      BY <2>1, <2>2
  <1> HIDE DEF e
  <1>3. ASSUME d.out = <<>>, d.iovused = 0, d.msgused = 1
        PROVE  OutFits(e) /\ Due(e) = IF d.noreply THEN 0 ELSE 1
    <2>1. e.out = <<>> /\ e.iovused = 0 /\ e.msgused = 1
      BY <1>2, <1>3
    <2>2. CASE d.noreply
      BY <1>2, <2>1, <2>2 DEF OutFits, OneReply, Due, ToAnswer
    <2>3. CASE ~d.noreply
      BY <1>2, <2>1, <2>3 DEF OutFits, OneReply, Due, ToAnswer
    <2> QED
      BY <2>2, <2>3
  <1> QED
    BY <1>2, <1>3 DEF e

\* A command ends the connection, or says one answer when one is awaited.
Replied(x, r) ==
    /\ Saying(x)
    /\ NoLongGet => \/ x.state = "closing"
                    \/ /\ OutFits(x)
                       /\ r \in Requests /\ Refusable =>
                             Due(x) = IF Answered(r) THEN 1 ELSE 0

\* The connection when a command begins.
Began(d) ==
    ConnOK(d) /\ Saying(d) /\ ~d.noreply /\ d.out = <<>> /\ d.iovused = 0 /\ d.msgused = 1

\* A unit has noreply or not.
LEMMA NoreplyType ==
    ASSUME NEW r \in Units
    PROVE  r.noreply \in BOOLEAN
  <1>1. CASE r \in Requests
    <2>1. r \in [op : Ops, noreply : BOOLEAN, fits : BOOLEAN, long : BOOLEAN,
                 keys : Nat]
      BY <1>1, ConnAssumption
    <2> QED
      BY <2>1
  <1>2. CASE r \in {Unit("data"), Unit("data_end")}
    <2>1. r.noreply = FALSE
      BY <1>2 DEF Unit
    <2> QED
      BY <2>1
  <1> QED
    BY <1>1, <1>2 DEF Units

\* A get has one reply.
LEMMA GetReplies ==
    ASSUME NEW d, Began(d), NEW r \in Units, r.op = "get",
           NEW x \in process_get_command(d, r)
    PROVE  Replied(x.conn, r)
  <1>1. PICK hits \in 0 .. (r.keys - IF r.long THEN 1 ELSE 0) :
          LET found == [d EXCEPT !.out = [n \in 1 .. hits |-> "value"],
                                 !.iovused = hits]
          IN  x = [conn |-> IF r.long THEN out_string(found)
                            ELSE [conn_set_state(found, "mwrite")
                                  EXCEPT !.ileft = hits, !.iovused = hits + 1,
                                         !.out = Append(@, "end")],
                   took |-> hits]
    BY DEF process_get_command
  <1> DEFINE values == [n \in 1 .. hits |-> "value"]
             found == [d EXCEPT !.out = values, !.iovused = hits]
  <1>2. r \in Requests /\ r.keys \in Nat /\ r.long \in BOOLEAN /\ hits \in Nat
    BY UnitFields
  <1>3. Answered(r)
    BY <1>2, ConnAssumption DEF Answered
  <1>4. values \in Seq(Parts) /\ Len(values) = hits /\ \A i \in 1 .. hits : values[i] = "value"
    BY <1>2 DEF Parts
  <1> HIDE DEF values
  <1>5. /\ ConnOK(found) /\ Saying(found) /\ found.out = values /\ found.iovused = hits
        /\ ~found.noreply /\ found.msgused = 1
    BY <1>2, <1>4 DEF ConnOK, Fields, Saying, Began
  <1>6. CASE r.long
    <2>1. x.conn = out_string(found)
      BY <1>1, <1>6 DEF values
    <2> HIDE DEF found
    <2>2. ASSUME NoLongGet PROVE found.out = <<>> /\ found.iovused = 0
      <3>1. hits = 0
        BY <1>2, <1>6, <2>2 DEF NoLongGet
      <3> QED
        BY <1>4, <1>5, <3>1
    <2> QED
      BY <1>3, <1>5, <2>1, <2>2, OutStringSays DEF Replied
  <1>7. CASE ~r.long
    <2> DEFINE w == conn_set_state(found, "mwrite")
               full_out == Append(values, "end")
               e == [w EXCEPT !.ileft = hits, !.iovused = hits + 1, !.out = full_out]
    <2>1. ConnOK(w) /\ w.state = "mwrite" /\ SaysSame(w, found)
      <3> HIDE DEF found
      <3>1. "mwrite" \in States
        BY DEF States
      <3> QED
        BY <1>5, <3>1, SetState, StateSays
    <2>2. x.conn = e
      <3>1. w.out = values
        BY <1>5, <2>1 DEF SaysSame
      <3> QED
        BY <1>1, <1>7, <3>1 DEF values
    <2> HIDE DEF w, found
    <2>3. /\ full_out \in Seq(Parts) /\ full_out # <<>> /\ OneReply(full_out)
      <3>1. full_out \in Seq(Parts) /\ Len(full_out) = hits + 1
        BY <1>2, <1>4 DEF Parts
      <3>2. \A i \in 1 .. hits + 1 : full_out[i] = IF i = hits + 1 THEN "end" ELSE "value"
        BY <1>2, <1>4
      <3> HIDE DEF full_out
      <3> QED
        BY <1>2, <3>1, <3>2 DEF OneReply
    <2> HIDE DEF full_out
    <2>4. /\ e.state = "mwrite" /\ e.out = full_out /\ e.iovused = hits + 1
          /\ e.msgused = w.msgused /\ e.noreply = w.noreply /\ e.ev = w.ev
      BY <2>1 DEF ConnOK, Fields
    <2> HIDE DEF e
    <2>5. Saying(e)
      BY <1>2, <1>5, <2>1, <2>3, <2>4 DEF Saying, SaysSame
    <2>6. OutFits(e) /\ Due(e) = 1
      BY <1>2, <2>3, <2>4 DEF OutFits, Due, ToAnswer
    <2> QED
      BY <1>3, <2>2, <2>5, <2>6 DEF Replied
  <1> QED
    BY <1>2, <1>6, <1>7

\* A storage command has one answer, now or after its data, or none.
LEMMA UpdateReplies ==
    ASSUME NEW d, Began(d), NEW r \in Units, r.op = "update"
    PROVE  Replied(process_update_command(d, r).conn, r)
  <1> DEFINE e == set_noreply_maybe(d, r)
             a == out_string(e)
             w == conn_set_state(e, "nread")
             x == process_update_command(d, r)
  <1>9. r.noreply \in BOOLEAN /\ r.long \in BOOLEAN /\ r.fits \in BOOLEAN
    BY NoreplyType, UnitFields
  <1>1. /\ ConnOK(e) /\ Saying(e) /\ (e.noreply <=> r.noreply)
        /\ e.out = <<>> /\ e.iovused = 0 /\ e.msgused = 1
    BY <1>9 DEF ConnOK, Fields, set_noreply_maybe, Began, Saying
  <1>2. Answered(r) <=> ~r.noreply
    BY DEF Answered
  <1>3. Refusable /\ r \in Requests => ~r.long /\ (r.fits \/ ~r.noreply)
    BY DEF Refusable
  <1> HIDE DEF e
  <1>4. /\ ConnOK(a) /\ Saying(a) /\ OutFits(a)
        /\ Due(a) = IF e.noreply THEN 0 ELSE 1
    BY <1>1, OutString, OutStringSays
  <1>5. CASE r.long
    <2>1. x.conn = a
      BY <1>5 DEF process_update_command, e
    <2> HIDE DEF x, a
    <2>2. Replied(x.conn, r)
      BY <1>1, <1>2, <1>4, <2>1 DEF Replied
    <2> QED
      BY <2>2 DEF x
  <1>6. CASE ~r.long /\ ~r.fits
    <2> DEFINE t == [a EXCEPT !.write_and_go = "swallow", !.sbytes = to_swallow]
    <2>1. x.conn = t
      BY <1>6 DEF process_update_command, e
    <2> HIDE DEF x, a
    <2>2. t.state = a.state /\ SaysSame(t, a)
      BY <1>4 DEF ConnOK, Fields, SaysSame
    <2> HIDE DEF t
    <2>3. Saying(t) /\ OutFits(t) /\ Due(t) = Due(a)
      BY <1>4, <2>2, SameSaying
    <2>4. Replied(x.conn, r)
      BY <1>1, <1>2, <1>4, <2>1, <2>3 DEF Replied
    <2> QED
      BY <2>4 DEF x
  <1>7. CASE ~r.long /\ r.fits
    <2> DEFINE t == [w EXCEPT !.item = TRUE, !.rlbytes = DataLen]
    <2>1. x.conn = t
      BY <1>7 DEF process_update_command, e
    <2>2. ConnOK(w) /\ w.state = "nread" /\ SaysSame(w, e)
      <3>1. "nread" \in States
        BY DEF States
      <3> QED
        BY <1>1, <3>1, SetState, StateSays
    <2> HIDE DEF x, w
    <2>3. t.state = "nread" /\ SaysSame(t, w)
      BY <2>2 DEF ConnOK, Fields, SaysSame
    <2> HIDE DEF t
    <2>4. t.out = <<>> /\ t.iovused = 0 /\ t.msgused = 1 /\ (t.noreply <=> r.noreply)
      BY <1>1, <2>2, <2>3 DEF SaysSame
    <2>5. Saying(t)
      BY <1>1, <2>2, <2>3, SameSaying
    <2>6. OutFits(t)
      BY <2>3, <2>4 DEF OutFits, OneReply
    <2>7. Due(t) = IF r.noreply THEN 0 ELSE 1
      BY <2>3, <2>4 DEF Due, ToAnswer
    <2>8. Replied(x.conn, r)
      BY <1>2, <2>1, <2>5, <2>6, <2>7 DEF Replied
    <2> QED
      BY <2>8 DEF x
  <1> QED
    BY <1>5, <1>6, <1>7, <1>9

\* So has every command.
LEMMA CommandReplies ==
    ASSUME NEW d, ConnOK(d), Saying(d), ~d.noreply, NEW r \in Units,
           NEW x \in process_command(d, r)
    PROVE  Replied(x.conn, r)
  <1> DEFINE e == [d EXCEPT !.out = <<>>, !.iovused = 0, !.msgused = 1]
             n == set_noreply_maybe(e, r)
             q == conn_set_state(e, "closing")
  <1>1. Began(e)
    <2>1. ConnOK(e) /\ e.out = <<>> /\ e.iovused = 0 /\ e.msgused = 1
          /\ e.noreply = d.noreply /\ e.ev = d.ev
      BY DEF ConnOK, Fields
    <2> HIDE DEF e
    <2> QED
      BY <2>1 DEF Began, Saying
  <1> HIDE DEF e
  <1>2. CASE r.op = "get"
    <2>1. x \in process_get_command(e, r)
      BY <1>2 DEF process_command, e
    <2> QED
      BY <1>1, <1>2, <2>1, GetReplies
  <1>3. CASE r.op = "update"
    <2>1. x = process_update_command(e, r)
      BY <1>3 DEF process_command, e
    <2> QED
      BY <1>1, <1>3, <2>1, UpdateReplies
  <1>4. CASE r.op = "quit"
    <2>1. x.conn = q
      BY <1>4 DEF process_command, e
    <2>2. "closing" \in States
      BY DEF States
    <2>3. q.state = "closing" /\ SaysSame(q, e)
      BY <1>1, <2>2, SetState, StateSays DEF Began
    <2> HIDE DEF q
    <2> QED
      BY <1>1, <2>1, <2>3, SameSaying DEF Replied, Began
  <1>5. CASE r.op \notin {"get", "update", "quit"}
    <2>1. x.conn = out_string(n)
      BY <1>5 DEF process_command, e
    <2>2. r.noreply \in BOOLEAN
      BY NoreplyType
    <2>3. /\ ConnOK(n) /\ Saying(n) /\ (n.noreply <=> r.noreply)
          /\ n.out = <<>> /\ n.iovused = 0 /\ n.msgused = 1
      BY <1>1, <2>2 DEF ConnOK, Fields, set_noreply_maybe, Began, Saying
    <2>4. Answered(r) <=> ~r.noreply
      BY <1>5 DEF Answered
    <2> HIDE DEF n
    <2>5. Saying(out_string(n)) /\ OutFits(out_string(n))
          /\ Due(out_string(n)) = IF n.noreply THEN 0 ELSE 1
      BY <2>3, OutStringSays
    <2> QED
      BY <2>1, <2>3, <2>4, <2>5 DEF Replied
  <1> QED
    BY <1>2, <1>3, <1>4, <1>5

----------------------------------------------------------------------------
\* The count of the replies, and the steps that leave it alone.

\* All that the server is still to take.
Stream == (c.rbuf \o wire) \o unsent

\* The count of replies that the client awaits, when S is the stream.
Counted(d, S, n) == n = Asked(S) + Due(d)

\* The invariant: a connection says one reply at a time, which ends with its
\* last part, and the client awaits as many replies as its requests that are
\* not yet taken ask for, and the one that is being made or sent.
OInv ==
    /\ Saying(c) /\ full \in BOOLEAN /\ peer \in {"open", "shut", "reset"}
    /\ nreqs \in 0 .. ReqsPerEvent
    /\ pc = "wait" \/ c.state = "closing" \/ nreqs > 0
    /\ sent \in 0 .. MaxRequests /\ owed \in Int
    /\ NoLongGet => LostOf(c) \/ OutFits(c)
    /\ NoLongGet /\ Refusable =>
          LostOf(c) \/ peer = "reset" \/ Counted(c, Stream, owed)

\* At first nothing is awaited.
LEMMA CountedInitially == Init => OInv
  <1> SUFFICES ASSUME Init PROVE OInv
    OBVIOUS
  <1>1. /\ c.state = "read" /\ c.ev = "read" /\ c.rbuf = <<>> /\ c.out = <<>>
        /\ c.iovused = 0 /\ c.msgused = 0 /\ c.noreply = FALSE
        /\ wire = <<>> /\ unsent = <<>> /\ owed = 0 /\ nreqs = 0 /\ sent = 0
        /\ pc = "wait" /\ full = FALSE /\ peer = "open"
    BY DEF Init, conn_new
  <1>2. Saying(c)
    <2>1. <<>> \in Seq(Parts)
      OBVIOUS
    <2>2. c.noreply \in BOOLEAN
      BY DEF Init, conn_new
    <2>3. c.ev \in {"read", "write"} /\ c.iovused \in Nat /\ c.msgused \in 0 .. 1
      BY <1>1
    <2>4. c.out \in Seq(Parts)
      BY <1>1, <2>1
    <2> QED
      BY <2>2, <2>3, <2>4 DEF Saying
  <1>5. OutFits(c) /\ Due(c) = 0
    BY <1>1 DEF OutFits, OneReply, Due, ToAnswer
  <1>3. Stream = <<>>
    BY <1>1 DEF Stream
  <1>4. ReqsPerEvent \in Nat /\ MaxRequests \in Nat
    BY ConnAssumption
  <1>6. Counted(c, Stream, owed)
    BY <1>1, <1>3, <1>5, NoneAsked DEF Counted
  <1>7. nreqs \in 0 .. ReqsPerEvent /\ sent \in 0 .. MaxRequests /\ owed \in Int
    BY <1>1, <1>4
  <1>8. full \in BOOLEAN /\ peer \in {"open", "shut", "reset"} /\ pc = "wait"
    BY <1>1
  <1> QED
    BY <1>2, <1>5, <1>6, <1>7, <1>8 DEF OInv

\* What fits depends on the same.
LEMMA SameFits ==
    ASSUME OInv, NEW d, SaysSame(d, c), d.state = c.state,
           d.write_and_go = c.write_and_go
    PROVE  /\ Saying(d)
           /\ NoLongGet => LostOf(d) \/ OutFits(d)
           /\ Due(d) = Due(c) /\ LostOf(d) = LostOf(c)
  <1>1. LostOf(d) = LostOf(c)
    BY DEF LostOf
  <1> QED
    BY <1>1, SameSaying DEF OInv

\* The loop goes on with d, or stops at it.
LEMMA GoesOnCounted ==
    ASSUME IInv, OInv, NEW d, c' = d, Saying(d), pc # "wait", c.state # "closing",
           nreqs' = nreqs, full' \in BOOLEAN, peer' = peer, sent' = sent, owed' \in Int,
           NoLongGet => LostOf(d) \/ OutFits(d),
           NoLongGet /\ Refusable =>
              \/ LostOf(d) \/ peer = "reset"
              \/ Counted(d, (d.rbuf \o wire') \o unsent', owed')
    PROVE  OInv'
  BY DEF OInv, Saying, OutFits, LostOf, Counted, Stream, Due, ToAnswer

\* Asking for another event says nothing.
LEMMA UpdateEventSays ==
    ASSUME NEW d, ConnOK(d), Saying(d), NEW e \in {"read", "write"}
    PROVE  LET u == update_event(d, e)
           IN  /\ Saying(u) /\ u.state = d.state /\ u.rbuf = d.rbuf
               /\ u.write_and_go = d.write_and_go
               /\ OutFits(d) => OutFits(u)
               /\ Due(u) = Due(d) /\ LostOf(u) = LostOf(d)
  <1> DEFINE u == update_event(d, e)
  <1>1. /\ u.state = d.state /\ u.rbuf = d.rbuf /\ u.noreply = d.noreply
        /\ u.ev = e /\ u.out = d.out /\ u.iovused = d.iovused
        /\ u.msgused = d.msgused /\ u.write_and_go = d.write_and_go
    BY DEF ConnOK, Fields, update_event
  <1> HIDE DEF u
  <1>2. /\ Saying(u) /\ u.state = d.state /\ u.rbuf = d.rbuf
        /\ u.write_and_go = d.write_and_go
        /\ OutFits(d) => OutFits(u)
        /\ Due(u) = Due(d) /\ LostOf(u) = LostOf(d)
    BY <1>1 DEF Saying, OutFits, Due, ToAnswer, LostOf
  <1> QED
    BY <1>2 DEF u

\* The loop waits for the socket at d.
LEMMA StopsCounted ==
    ASSUME IInv, OInv, NEW d, ConnOK(d), Saying(d), NEW e \in {"read", "write"},
           Await(d, e), pc # "wait", c.state # "closing",
           nreqs' \in 0 .. ReqsPerEvent, full' \in BOOLEAN, peer' = peer,
           sent' = sent, owed' \in Int,
           NoLongGet => LostOf(d) \/ OutFits(d),
           NoLongGet /\ Refusable =>
              \/ LostOf(d) \/ peer = "reset"
              \/ Counted(d, (d.rbuf \o wire') \o unsent', owed')
    PROVE  OInv'
  <1> DEFINE u == update_event(d, e)
             q == conn_set_state(d, "closing")
  <1>1. CASE pc' = "wait" /\ c' = u
    <2>1. /\ Saying(u) /\ u.state = d.state /\ u.rbuf = d.rbuf
          /\ u.write_and_go = d.write_and_go
          /\ OutFits(d) => OutFits(u)
          /\ Due(u) = Due(d) /\ LostOf(u) = LostOf(d)
      BY UpdateEventSays
    <2> HIDE DEF u
    <2>2. NoLongGet => LostOf(u) \/ OutFits(u)
      BY <2>1
    <2>3. NoLongGet /\ Refusable =>
              \/ LostOf(u) \/ peer = "reset"
              \/ Counted(u, (u.rbuf \o wire') \o unsent', owed')
      BY <2>1 DEF Counted
    <2> QED
      BY <1>1, <2>1, <2>2, <2>3
         DEF OInv, Saying, OutFits, LostOf, Counted, Stream, Due, ToAnswer
  <1>2. CASE c' = q
    <2>1. q.state = "closing" /\ Saying(q)
      <3>1. "closing" \in States
        BY DEF States
      <3> QED
        BY <3>1, SetState, StateSays, SameSaying
    <2> HIDE DEF q
    <2> QED
      BY <1>2, <2>1 DEF OInv, LostOf, Saying
  <1> QED
    BY <1>1, <1>2 DEF Await, Continue

\* Of a connection that is lost only the types matter.
LEMMA ClosesCounted ==
    ASSUME IInv, OInv, NEW d, c' = d, Saying(d), d.state \in {"closing", "closed", "crashed"},
           pc' = "wait" \/ d.state = "closing",
           nreqs' = nreqs, full' \in BOOLEAN, peer' = peer, sent' = sent, owed' \in Int
    PROVE  OInv'
  BY DEF OInv, LostOf, Saying

\* What the client does leaves the connection alone.
LEMMA ClientCounts ==
    ASSUME OInv, c' = c, pc' = pc, nreqs' = nreqs, full' \in BOOLEAN,
           peer' \in {"open", "shut", "reset"},
           sent' \in 0 .. MaxRequests, owed' \in Int,
           NoLongGet /\ Refusable =>
              \/ LostOf(c) \/ peer' = "reset"
              \/ Counted(c, (c.rbuf \o wire') \o unsent', owed')
    PROVE  OInv'
  BY DEF OInv, Saying, OutFits, LostOf, Counted, Stream, Due, ToAnswer

\* The client sends, receives, or gives up.
LEMMA ClientCounted ==
    ASSUME IInv, OInv, send \/ receive \/ leave
    PROVE  OInv'
  <1>1. /\ c' = c /\ pc' = pc /\ nreqs' = nreqs
        /\ c.rbuf \in Seq(Units) /\ wire \in Seq(Units) /\ unsent \in Seq(Units)
    BY DEF send, receive, leave, IInv, ConnOK
  <1>2. owed \in Int /\ sent \in 0 .. MaxRequests /\ full \in BOOLEAN
        /\ peer \in {"open", "shut", "reset"} /\ MaxRequests \in Nat
    BY ConnAssumption DEF OInv
  <1>3. CASE send
    <2>1. peer' = peer /\ full' = full
      BY <1>3 DEF send
    <2>2. CASE /\ unsent # <<>> /\ wire' = Append(wire, Head(unsent))
               /\ unsent' = Tail(unsent) /\ sent' = sent /\ owed' = owed
      <3>1. (c.rbuf \o wire') \o unsent' = Stream
        BY <1>1, <2>2, MovedToSocket DEF Stream
      <3> QED
        BY <1>1, <1>2, <2>1, <2>2, <3>1, ClientCounts DEF OInv
    <2>3. CASE /\ unsent = <<>> /\ sent < MaxRequests /\ sent' = sent + 1
               /\ \E r \in Requests :
                    /\ wire' = Append(wire, r) /\ unsent' = Block(r)
                    /\ owed' = owed + IF Answered(r) THEN 1 ELSE 0
      <3>1. PICK r \in Requests :
              /\ wire' = Append(wire, r) /\ unsent' = Block(r)
              /\ owed' = owed + IF Answered(r) THEN 1 ELSE 0
        BY <2>3
      <3> DEFINE q == c.rbuf \o wire
      <3>2. q \in Seq(Units) /\ Stream = q
        <4>1. q \in Seq(Units)
          BY <1>1, ConcatProperties
        <4> HIDE DEF q
        <4>2. q \o <<>> = q
          BY <4>1
        <4> QED
          BY <2>3, <4>1, <4>2 DEF q, Stream
      <3>3. c.rbuf \o wire' = Append(q, r)
        <4>1. r \in Units
          BY DEF Units
        <4>2. c.rbuf \in Seq(Units) /\ wire \in Seq(Units)
          BY <1>1
        <4>3. c.rbuf \o Append(wire, r) = Append(c.rbuf \o wire, r)
          BY <4>1, <4>2, AppendToLast
        <4> QED
          BY <3>1, <4>3
      <3> HIDE DEF q
      <3>4. Asked((c.rbuf \o wire') \o unsent')
              = Asked(Stream) + IF Answered(r) THEN 1 ELSE 0
        BY <3>1, <3>2, <3>3, RequestAsked
      <3>5. Asked(Stream) \in Nat /\ Due(c) \in Nat
        BY <3>2, AskedNat DEF Due
      <3>6. Counted(c, Stream, owed)
              => Counted(c, (c.rbuf \o wire') \o unsent', owed')
        <4> DEFINE new == (c.rbuf \o wire') \o unsent'
                   one == IF Answered(r) THEN 1 ELSE 0
        <4>1. Asked(new) = Asked(Stream) + one /\ owed' = owed + one /\ one \in Nat
          BY <3>1, <3>4
        <4> HIDE DEF new, one
        <4> QED
          BY <1>2, <3>5, <4>1 DEF Counted, new
      <3>7. owed' \in Int /\ sent' \in 0 .. MaxRequests
        BY <1>2, <2>3, <3>1
      <3> QED
        BY <1>1, <1>2, <2>1, <3>6, <3>7, ClientCounts DEF OInv
    <2> QED
      BY <1>3, <2>2, <2>3 DEF send, Block
  <1>4. CASE receive
    <2>1. /\ full' \in BOOLEAN /\ peer' = peer /\ wire' = wire /\ unsent' = unsent
          /\ sent' = sent /\ owed' = owed
      BY <1>4 DEF receive, client
    <2> QED
      BY <1>1, <1>2, <2>1, ClientCounts DEF OInv, Stream
  <1>5. CASE leave
    <2>1. /\ full' = full /\ sent' = sent /\ owed' = owed /\ unsent' = unsent
          /\ peer' = "reset" \/ (peer = "open" /\ peer' = "shut" /\ wire' = wire)
      BY <1>5 DEF leave, client
    <2> QED
      BY <1>1, <1>2, <2>1, ClientCounts DEF OInv, Stream
  <1> QED
    BY <1>3, <1>4, <1>5

\* The handler is called for a ready socket.
LEMMA HandlerCounted ==
    ASSUME IInv, OInv, event_handler
    PROVE  OInv'
  <1>1. /\ c' = c /\ nreqs' = ReqsPerEvent /\ wire' = wire /\ unsent' = unsent
        /\ full' = full /\ peer' = peer /\ sent' = sent /\ owed' = owed
    BY DEF event_handler, socket, client
  <1>2. ReqsPerEvent \in Nat \ {0}
    BY ConnAssumption
  <1> QED
    BY <1>1, <1>2 DEF OInv, Saying, OutFits, LostOf, Counted, Stream, Due, ToAnswer

----------------------------------------------------------------------------
\* The steps that take requests from the stream.

\* The stream is one of units.
LEMMA StreamUnits ==
    ASSUME IInv
    PROVE  /\ c.rbuf \in Seq(Units) /\ wire \in Seq(Units) /\ unsent \in Seq(Units)
           /\ Stream \in Seq(Units) /\ Asked(Stream) \in Nat
  <1>1. c.rbuf \in Seq(Units) /\ wire \in Seq(Units) /\ unsent \in Seq(Units)
    BY DEF IInv, ConnOK
  <1>2. \A a, b, u \in Seq(Units) : (a \o b) \o u \in Seq(Units)
    BY ConcatProperties
  <1>3. Stream \in Seq(Units)
    BY <1>1, <1>2 DEF Stream
  <1> QED
    BY <1>1, <1>3, AskedNat

\* Who reads says nothing, and owes nothing.
LEMMA ReaderOwes ==
    ASSUME NEW d, d.state \in {"read", "swallow"}
    PROVE  Due(d) = 0
  BY DEF Due, ToAnswer

\* A command that is taken from the stream is answered by the connection now.
LEMMA CommandCounted ==
    ASSUME IInv, FInv, OInv, try_read_command
    PROVE  OInv'
  <1> DEFINE n == FirstLine(c.rbuf)
             command == IF n = 1 THEN c.rbuf[1] ELSE Unit("data_end")
             q == SubSeq(c.rbuf, n + 1, Len(c.rbuf))
             S == (c.rbuf \o wire) \o unsent
  <1>1. /\ ConnOK(c) /\ c.rbuf \in Seq(Units) /\ HasLine(c.rbuf) /\ c.state = "read"
        /\ wire \in Seq(Units) /\ unsent \in Seq(Units)
        /\ pc = "loop" /\ nreqs' = nreqs /\ full' = full /\ sent' = sent /\ owed' = owed
        /\ wire' = wire /\ unsent' = unsent /\ peer' = peer
        /\ full \in BOOLEAN /\ owed \in Int
    BY DEF IInv, ConnOK, try_read_command, In, socket, client, OInv
  <1>2. n \in 1 .. Len(c.rbuf)
    BY <1>1, FirstLineIn
  <1>3. command \in Units
    <2> HIDE DEF n
    <2> QED
      BY <1>1, <1>2 DEF Units
  <1>4. ~c.noreply /\ Saying(c)
    BY <1>1 DEF FInv, Quiet, OInv
  <1>5. PICK r \in process_command(c, command) :
          Continue([r.conn EXCEPT !.rbuf = SubSeq(@, n + 1, Len(@))])
    BY DEF try_read_command
  <1>6. ~c.item /\ c.ileft = 0
    BY <1>1 DEF IInv, Holds, ConnOK
  <1> DEFINE d == [r.conn EXCEPT !.rbuf = SubSeq(@, n + 1, Len(@))]
  <1>7. /\ ConnOK(r.conn) /\ r.conn.rbuf = c.rbuf
        /\ Replied(r.conn, command)
    <2> HIDE DEF command
    <2> QED
      BY <1>1, <1>3, <1>4, <1>6, CommandTakes, CommandReplies DEF Took
  <1>8. /\ d.state = r.conn.state /\ d.rbuf = q /\ SaysSame(d, r.conn)
    <2> HIDE DEF n
    <2> QED
      BY <1>7 DEF ConnOK, Fields, SaysSame
  <1>9. c' = d
    BY <1>5 DEF Continue
  <1> HIDE DEF d
  <1>10. /\ Saying(d)
         /\ NoLongGet => LostOf(d) \/ OutFits(d)
         /\ NoLongGet /\ Refusable /\ command \in Requests =>
               LostOf(d) \/ Due(d) = IF Answered(command) THEN 1 ELSE 0
    <2> HIDE DEF command
    <2>1. Saying(d)
      BY <1>7, <1>8, SameSaying DEF Replied
    <2>2. /\ OutFits(r.conn) => OutFits(d)
          /\ Due(d) = Due(r.conn)
          /\ r.conn.state = "closing" => LostOf(d)
      BY <1>8, SameSaying DEF LostOf
    <2> QED
      BY <1>7, <2>1, <2>2 DEF Replied
  <1>11. ASSUME NoLongGet, Refusable, peer # "reset", ~LostOf(d)
         PROVE  Counted(d, (d.rbuf \o wire) \o unsent, owed)
    <2>1. Framing(S, 0) /\ Counted(c, S, owed) /\ Due(c) = 0
      BY <1>1, <1>11, ReaderOwes DEF FInv, OInv, LostOf, LeftOf, Stream
    <2>2. c.rbuf # <<>>
      BY <1>1, <1>2
    <2>3. S \in Seq(Units) /\ S # <<>> /\ S[1] = c.rbuf[1]
      <3>1. /\ c.rbuf \o wire \in Seq(Units)
            /\ Len(c.rbuf \o wire) = Len(c.rbuf) + Len(wire)
            /\ (c.rbuf \o wire)[1] = c.rbuf[1]
        BY <1>1, <1>2, ConcatProperties
      <3> DEFINE w == c.rbuf \o wire
      <3>2. Len(c.rbuf) \in Nat \ {0} /\ Len(wire) \in Nat
        BY <1>1, <1>2
      <3> HIDE DEF w
      <3>3. w \in Seq(Units) /\ Len(w) \in Nat \ {0} /\ w[1] = c.rbuf[1]
        BY <3>1, <3>2 DEF w
      <3>4. w \o unsent \in Seq(Units) /\ Len(w \o unsent) # 0
            /\ (w \o unsent)[1] = w[1]
        BY <1>1, <3>3, ConcatProperties
      <3> QED
        BY <3>3, <3>4 DEF w
    <2>4. IsOp(c.rbuf[1])
      <3> HIDE DEF S
      <3> QED
        BY <2>1, <2>3, RequestRead
    <2>5. n = 1
      <3>1. IsLine(c.rbuf[1])
        BY <2>4 DEF IsLine, IsOp, Ops
      <3>2. \A i \in DOMAIN c.rbuf :
              (IsLine(c.rbuf[i]) /\ \A j \in 1 .. (i - 1) : ~IsLine(c.rbuf[j])) <=> i = 1
        BY <1>1, <1>2, <3>1
      <3> QED
        BY <1>1, <1>2, <3>2 DEF FirstLine
    <2>6. command = c.rbuf[1] /\ command \in Requests
      <3>1. command = c.rbuf[1]
        BY <2>5
      <3>2. c.rbuf[1] \in Units
        BY <1>3, <3>1
      <3>3. ~IsOp(Unit("data")) /\ ~IsOp(Unit("data_end"))
        BY DEF IsOp, Unit, Ops
      <3> QED
        BY <2>4, <3>1, <3>2, <3>3 DEF Units
    <2>7. Due(d) = IF Asks(S[1]) THEN 1 ELSE 0
      <3>1. Asks(S[1]) <=> Answered(command)
        <4> HIDE DEF command, S
        <4> QED
          BY <2>3, <2>4, <2>6 DEF Asks
      <3> HIDE DEF command, S
      <3> QED
        BY <1>10, <1>11, <2>6, <3>1
    <2>8. (q \o wire) \o unsent = SubSeq(S, 2, Len(S))
      <3>1. 1 \in 0 .. Len(c.rbuf) /\ 1 + 1 = 2
        BY <1>1, <1>2
      <3>2. LET Q == (c.rbuf \o wire) \o unsent
            IN  (SubSeq(c.rbuf, 1 + 1, Len(c.rbuf)) \o wire) \o unsent
                  = SubSeq(Q, 1 + 1, Len(Q))
        BY <1>1, <3>1, TakenFromBuffer
      <3> QED
        BY <2>5, <3>1, <3>2
    <2>9. (d.rbuf \o wire) \o unsent = SubSeq(S, 2, Len(S))
      BY <1>8, <2>8
    <2> HIDE DEF S
    <2>10. Asked(S) = Asked(SubSeq(S, 2, Len(S))) + IF Asks(S[1]) THEN 1 ELSE 0
      BY <2>3, RequestTaken
    <2>11. SubSeq(S, 2, Len(S)) \in Seq(Units)
      <3> DEFINE one == 1
      <3>1. one \in Nat /\ one <= Len(S)
        BY <2>3
      <3> HIDE DEF one
      <3>2. SubSeq(S, one + 1, Len(S)) \in Seq(Units)
        BY <2>3, <3>1, Rest
      <3> QED
        BY <3>2 DEF one
    <2>12. Asked(SubSeq(S, 2, Len(S))) \in Nat /\ Asked(S) \in Nat
      BY <2>3, <2>11, AskedNat
    <2> QED
      BY <1>1, <2>1, <2>7, <2>9, <2>10, <2>12 DEF Counted
  <1> QED
    BY <1>1, <1>9, <1>10, <1>11, GoesOnCounted

\* What is read moves within the stream.
LEMMA ReadMoreCounted ==
    ASSUME IInv, OInv, read_more
    PROVE  OInv'
  <1>1. /\ ConnOK(c) /\ wire' = wire /\ unsent' = unsent /\ peer' = peer /\ full' = full
        /\ sent' = sent /\ owed' = owed /\ pc = "loop" /\ c.state = "read"
        /\ nreqs' = nreqs - 1
    BY DEF read_more, socket, client, IInv, In
  <1>2. nreqs \in 0 .. ReqsPerEvent /\ nreqs > 0 /\ ReqsPerEvent \in Nat
    BY <1>1, ConnAssumption DEF OInv
  <1>3. CASE may_read /\ c' = c
    <2>1. nreqs' \in 0 .. ReqsPerEvent /\ nreqs' > 0
      BY <1>1, <1>2, <1>3 DEF may_read
    <2> QED
      BY <1>1, <1>3, <2>1
         DEF OInv, Saying, OutFits, LostOf, Counted, Stream, Due, ToAnswer
  <1>4. CASE Await(c, "read")
    <2>1. nreqs' \in 0 .. ReqsPerEvent
      BY <1>1, <1>2
    <2> QED
      BY <1>1, <1>4, <2>1, StopsCounted DEF OInv, Stream
  <1> QED
    BY <1>3, <1>4 DEF read_more

\* So does what try_read_network reads.
LEMMA NetworkCounted ==
    ASSUME IInv, FInv, OInv, try_read_network
    PROVE  OInv'
  <1> DEFINE must_grow == Len(c.rbuf) >= c.rsize
             d == IF must_grow THEN [c EXCEPT !.rsize = 2 * @] ELSE c
             avail == d.rsize - Len(d.rbuf)
             res == Min({avail, Len(wire)})
             given_up == [out_string([c EXCEPT !.rbuf = <<>>])
                          EXCEPT !.write_and_go = "closing"]
             more == [d EXCEPT !.rbuf = @ \o SubSeq(wire, 1, res)]
  <1>1. /\ c.state = "read" /\ ConnOK(c) /\ Saying(c) /\ pc # "wait"
        /\ ~c.noreply
        /\ unsent' = unsent /\ peer' = peer /\ full' = full /\ sent' = sent /\ owed' = owed
        /\ nreqs' = nreqs /\ nreqs \in 0 .. ReqsPerEvent
        /\ full \in BOOLEAN /\ owed \in Int
        /\ wire \in Seq(Units) /\ unsent \in Seq(Units)
    BY DEF try_read_network, client, IInv, Reader, OInv, FInv, Quiet
  <1>2. /\ ConnOK(d) /\ d.state = "read" /\ d.rbuf = c.rbuf
        /\ SaysSame(d, c) /\ d.write_and_go = c.write_and_go
    <2> DEFINE g == [c EXCEPT !.rsize = 2 * @]
    <2>1. Len(c.rbuf) \in Nat /\ c.rsize \in Nat \ {0} /\ Len(c.rbuf) <= c.rsize
      BY <1>1 DEF ConnOK
    <2>2. 2 * c.rsize \in Nat \ {0} /\ Len(c.rbuf) <= 2 * c.rsize
      BY <2>1
    <2>3. ConnOK(g) /\ g.state = "read" /\ g.rbuf = c.rbuf /\ SaysSame(g, c)
          /\ g.write_and_go = c.write_and_go
      BY <1>1, <2>2 DEF ConnOK, Fields, SaysSame
    <2>4. SaysSame(c, c)
      BY DEF SaysSame
    <2> HIDE DEF g
    <2> QED
      BY <1>1, <2>3, <2>4 DEF g
  <1>3. /\ Saying(d) /\ Due(d) = Due(c)
        /\ NoLongGet => LostOf(d) \/ OutFits(d)
        /\ NoLongGet /\ Refusable =>
              \/ LostOf(d) \/ peer = "reset"
              \/ Counted(d, (d.rbuf \o wire) \o unsent, owed)
    <2> HIDE DEF d
    <2> QED
      BY <1>1, <1>2, SameFits DEF OInv, Counted, Stream
  <1>4. CASE Continue(given_up)
    <2> DEFINE e == [c EXCEPT !.rbuf = <<>>]
               o == out_string(e)
               g == [o EXCEPT !.write_and_go = "closing"]
    <2>1. ConnOK(e) /\ Saying(e) /\ ~e.noreply
      <3>1. /\ e.rbuf \in Seq(Units) /\ Len(e.rbuf) = 0 /\ e.rsize = c.rsize
            /\ SaysSame(e, c)
        BY <1>1 DEF ConnOK, Fields, SaysSame
      <3>2. Len(e.rbuf) <= e.rsize /\ e.rsize \in Nat \ {0}
        BY <1>1, <3>1 DEF ConnOK
      <3>3. ConnOK(e)
        BY <1>1, <3>1, <3>2 DEF ConnOK, Fields
      <3> HIDE DEF e
      <3> QED
        BY <1>1, <3>1, <3>3, SameSaying DEF SaysSame
    <2> HIDE DEF e
    <2>2. ConnOK(o) /\ Saying(o) /\ o.state = "write"
      BY <2>1, OutString, OutStringSays
    <2> HIDE DEF o
    <2>3. g.state = "write" /\ g.write_and_go = "closing" /\ SaysSame(g, o)
      BY <2>2 DEF ConnOK, Fields, SaysSame
    <2>4. given_up = g
      BY DEF o, e
    <2> HIDE DEF g, given_up
    <2>5. Saying(g) /\ LostOf(g)
      BY <2>2, <2>3, SameSaying DEF LostOf
    <2>6. c' = g
      BY <1>4, <2>4 DEF Continue
    <2> QED
      BY <1>1, <2>5, <2>6, GoesOnCounted
  <1>5. CASE Continue(conn_set_state(d, "closing"))
    <2> HIDE DEF d
    <2>1. /\ conn_set_state(d, "closing").state = "closing"
          /\ Saying(conn_set_state(d, "closing"))
      <3>1. "closing" \in States
        BY DEF States
      <3> QED
        BY <1>2, <1>3, <3>1, SetState, StateSays, SameSaying
    <2> QED
      BY <1>1, <1>5, <2>1, ClosesCounted DEF Continue
  <1>6. CASE c' = more /\ wire' = SubSeq(wire, res + 1, Len(wire))
    <2>1. res \in Nat /\ res <= Len(wire)
      <3>1. avail \in Nat /\ Len(wire) \in Nat
        <4> HIDE DEF d
        <4> QED
          BY <1>1, <1>2 DEF ConnOK
      <3> HIDE DEF avail
      <3> QED
        BY <3>1, MinOfTwo
    <2> HIDE DEF res
    <2> DEFINE q == c.rbuf \o SubSeq(wire, 1, res)
    <2>2. more.rbuf = q /\ more.state = "read" /\ SaysSame(more, c)
          /\ more.write_and_go = c.write_and_go
      <3> HIDE DEF d
      <3> QED
        BY <1>2 DEF ConnOK, Fields, SaysSame
    <2>3. q \o wire' = c.rbuf \o wire
      <3>1. c.rbuf \in Seq(Units)
        BY <1>1 DEF ConnOK
      <3> QED
        BY <1>1, <1>6, <2>1, <3>1, MovedToBuffer
    <2> HIDE DEF more, q, d
    <2>4. (more.rbuf \o wire') \o unsent' = Stream
      BY <1>1, <2>2, <2>3 DEF Stream
    <2>5. /\ Saying(more) /\ Due(more) = Due(c) /\ LostOf(more) = LostOf(c)
          /\ NoLongGet => LostOf(more) \/ OutFits(more)
      BY <1>1, <2>2, SameFits
    <2>6. NoLongGet /\ Refusable =>
              \/ LostOf(more) \/ peer = "reset"
              \/ Counted(more, (more.rbuf \o wire') \o unsent', owed')
      BY <1>1, <2>4, <2>5 DEF OInv, Counted
    <2> QED
      BY <1>1, <1>6, <2>5, <2>6, GoesOnCounted
  <1>7. CASE Continue(d) /\ wire' = wire
    <2> HIDE DEF d
    <2> QED
      BY <1>1, <1>3, <1>7, GoesOnCounted DEF Continue
  <1>8. CASE Await(d, "read") /\ wire' = wire
    <2> HIDE DEF d
    <2> QED
      BY <1>1, <1>2, <1>3, <1>8, StopsCounted
  <1> QED
    BY <1>4, <1>5, <1>6, <1>7, <1>8 DEF try_read_network

----------------------------------------------------------------------------
\* The steps that read data, and those that send.

\* Reading data says nothing.
LEMMA CountDownSays ==
    ASSUME NEW s \in {"nread", "swallow"}, ConnOK(c), c.state = s, NEW n \in Nat, NEW q
    PROVE  LET d == CountDown(s, n, q)
           IN  SaysSame(d, c) /\ d.state = c.state /\ d.write_and_go = c.write_and_go
  <1>1. LeftIn[s] \in {"rlbytes", "sbytes"}
    BY LeftInNames
  <1> QED
    BY <1>1 DEF ConnOK, Fields, CountDown, SaysSame

\* Data that is read is no request.
LEMMA DataCounted ==
    ASSUME IInv, FInv, OInv, NEW s \in {"nread", "swallow"}, c.state = s, pc # "wait",
           NEW n \in Nat, n <= c[LeftIn[s]], NEW q, c' = CountDown(s, n, q),
           (q \o wire') \o unsent' = SubSeq(Stream, n + 1, Len(Stream)),
           nreqs' = nreqs, full' = full, peer' = peer, sent' = sent, owed' = owed
    PROVE  OInv'
  <1> DEFINE d == CountDown(s, n, q)
  <1>1. ConnOK(c) /\ Quiet(c) /\ full \in BOOLEAN /\ owed \in Int /\ c.state # "closing"
    BY DEF IInv, FInv, OInv
  <1>2. SaysSame(d, c) /\ d.state = c.state /\ d.write_and_go = c.write_and_go
    BY <1>1, CountDownSays
  <1>3. d.rbuf = q /\ LeftOf(c) = c[LeftIn[s]] /\ ~LostOf(c)
    BY <1>1, CountedLeft
  <1> HIDE DEF d
  <1>4. /\ Saying(d) /\ Due(d) = Due(c) /\ LostOf(d) = LostOf(c)
        /\ NoLongGet => LostOf(d) \/ OutFits(d)
    BY <1>2, SameFits
  <1>5. ASSUME NoLongGet, Refusable, peer # "reset"
        PROVE  Counted(d, (d.rbuf \o wire') \o unsent', owed')
    <2>1. Framing(Stream, LeftOf(c)) /\ Counted(c, Stream, owed)
      BY <1>3, <1>5 DEF FInv, OInv, Stream
    <2>2. Stream \in Seq(Units)
      BY StreamUnits
    <2>3. n <= Len(Stream) /\ \A i \in 1 .. n : ~IsOp(Stream[i])
      <3>1. LeftOf(c) \in 0 .. Len(Stream) /\ Len(Stream) \in Nat
        BY <2>1, <2>2 DEF Framing
      <3> QED
        BY <1>3, <2>1, <3>1 DEF Framing
    <2>4. Asked(SubSeq(Stream, n + 1, Len(Stream))) = Asked(Stream)
      BY <2>2, <2>3, DataUnasked
    <2> QED
      BY <1>3, <1>4, <2>1, <2>4 DEF Counted
  <1>6. c' = d
    BY DEF d
  <1> QED
    BY <1>1, <1>4, <1>5, <1>6, GoesOnCounted

\* Data that was read with the command.
LEMMA LeftoverCounted ==
    ASSUME IInv, FInv, OInv, NEW s \in {"nread", "swallow"}, read_leftover(s)
    PROVE  OInv'
  <1> DEFINE n == tocopy(Len(c.rbuf), c[LeftIn[s]])
             q == SubSeq(c.rbuf, n + 1, Len(c.rbuf))
  <1>1. /\ ConnOK(c) /\ c.state = s /\ pc = "loop" /\ c.rbuf \in Seq(Units)
        /\ wire' = wire /\ unsent' = unsent /\ peer' = peer /\ full' = full
        /\ nreqs' = nreqs /\ sent' = sent /\ owed' = owed
        /\ wire \in Seq(Units) /\ unsent \in Seq(Units)
    BY DEF read_leftover, In, socket, client, IInv, ConnOK
  <1>2. c' = CountDown(s, n, q)
    <2>1. c' = [c EXCEPT ![LeftIn[s]] = @ - n, !.rbuf = SubSeq(@, n + 1, Len(@))]
      BY DEF read_leftover, Continue
    <2>2. LeftIn[s] # "rbuf"
      BY DEF LeftIn
    <2> HIDE DEF n
    <2> QED
      BY <1>1, <2>1, <2>2 DEF ConnOK, Fields, CountDown
  <1>3. n \in Nat /\ n <= Len(c.rbuf) /\ n <= c[LeftIn[s]]
    <2>1. Len(c.rbuf) \in Nat /\ c[LeftIn[s]] \in Nat
      BY <1>1, LeftType
    <2> QED
      BY <2>1, MinOfTwo DEF tocopy
  <1> HIDE DEF n
  <1>4. (q \o wire') \o unsent' = SubSeq(Stream, n + 1, Len(Stream))
    <2>1. n \in 0 .. Len(c.rbuf)
      BY <1>1, <1>3
    <2> QED
      BY <1>1, <2>1, TakenFromBuffer DEF Stream
  <1> HIDE DEF q
  <1> QED
    BY <1>1, <1>2, <1>3, <1>4, DataCounted

\* Data that is read from the socket.
LEMMA RestCounted ==
    ASSUME IInv, FInv, OInv, NEW s \in {"nread", "swallow"}, read_rest(s)
    PROVE  OInv'
  <1> DEFINE most == IF s = "swallow" THEN Min({c.sbytes, c.rsize}) ELSE c.rlbytes
             n == Min({most, Len(wire)})
  <1>1. /\ ConnOK(c) /\ c.state = s /\ c.rbuf = <<>> /\ pc = "loop" /\ Saying(c)
        /\ unsent' = unsent /\ peer' = peer /\ full' = full
        /\ nreqs' = nreqs /\ sent' = sent /\ owed' = owed
        /\ full \in BOOLEAN /\ owed \in Int /\ nreqs \in 0 .. ReqsPerEvent
        /\ wire \in Seq(Units) /\ unsent \in Seq(Units)
    BY DEF read_rest, In, client, IInv, OInv
  <1>2. CASE /\ c' = [c EXCEPT ![LeftIn[s]] = @ - n]
             /\ wire' = SubSeq(wire, n + 1, Len(wire))
    <2>1. n \in Nat /\ n <= Len(wire) /\ n <= c[LeftIn[s]]
      <3>1. c.sbytes \in Nat /\ c.rsize \in Nat /\ c[LeftIn[s]] \in Nat
            /\ c[LeftIn[s]] = IF s = "nread" THEN c.rlbytes ELSE c.sbytes
        BY <1>1, LeftType DEF ConnOK
      <3>2. most \in Nat /\ most <= c[LeftIn[s]]
        BY <3>1, MinOfTwo
      <3> HIDE DEF most
      <3>3. Len(wire) \in Nat
        BY <1>1
      <3>4. n = IF most <= Len(wire) THEN most ELSE Len(wire)
        BY <3>2, <3>3, MinOfTwo
      <3> QED
        BY <3>1, <3>2, <3>3, <3>4
    <2> HIDE DEF n
    <2>2. c' = CountDown(s, n, <<>>)
      <3>1. LeftIn[s] # "rbuf"
        BY DEF LeftIn
      <3> QED
        BY <1>1, <1>2, <3>1 DEF ConnOK, Fields, CountDown
    <2>3. (<<>> \o wire') \o unsent' = SubSeq(Stream, n + 1, Len(Stream))
      <3> DEFINE w == SubSeq(wire, n + 1, Len(wire))
      <3>1. w \in Seq(Units) /\ n \in 0 .. Len(wire)
        BY <1>1, <2>1, Rest
      <3>2. w \o unsent = SubSeq(wire \o unsent, n + 1, Len(wire \o unsent))
        BY <1>1, <3>1, CutConcat
      <3> HIDE DEF w
      <3>3. <<>> \o wire = wire /\ <<>> \o w = w
        BY <1>1, <3>1
      <3>4. w = wire'
        BY <1>2 DEF w
      <3> QED
        BY <1>1, <3>2, <3>3, <3>4 DEF Stream
    <2> DEFINE q == <<>>
    <2>4. c' = CountDown(s, n, q) /\ (q \o wire') \o unsent' = SubSeq(Stream, n + 1, Len(Stream))
      BY <2>2, <2>3
    <2> HIDE DEF q
    <2> QED
      BY <1>1, <2>1, <2>4, DataCounted
  <1>3. CASE Continue(Closing)
    <2>1. Closing.state = "closing" /\ Saying(Closing)
      <3>1. "closing" \in States
        BY DEF States
      <3> QED
        BY <1>1, <3>1, SetState, StateSays, SameSaying DEF Closing
    <2> QED
      BY <1>1, <1>3, <2>1, ClosesCounted DEF Continue
  <1>4. CASE Await(c, "read") /\ wire' = wire
    BY <1>1, <1>4, StopsCounted DEF OInv, Stream
  <1> QED
    BY <1>2, <1>3, <1>4 DEF read_rest, Continue

\* The whole block is there: the storage command is answered.
LEMMA CompleteCounted ==
    ASSUME IInv, FInv, OInv, complete_nread
    PROVE  OInv'
  <1> DEFINE o == out_string(c)
             e == [o EXCEPT !.item = FALSE]
  <1>1. /\ ConnOK(c) /\ Saying(c) /\ c.state = "nread" /\ c' = e /\ pc = "loop"
        /\ wire' = wire /\ unsent' = unsent /\ peer' = peer /\ full' = full
        /\ nreqs' = nreqs /\ sent' = sent /\ owed' = owed
        /\ full \in BOOLEAN /\ owed \in Int
    BY DEF complete_nread, Continue, In, socket, client, IInv, OInv
  <1>2. /\ ConnOK(o) /\ Saying(o) /\ o.rbuf = c.rbuf
        /\ c.out = <<>> /\ c.iovused = 0 /\ c.msgused = 1 =>
              OutFits(o) /\ Due(o) = IF c.noreply THEN 0 ELSE 1
    BY <1>1, OutString, OutStringSays
  <1> HIDE DEF o
  <1>3. e.state = o.state /\ e.rbuf = o.rbuf /\ SaysSame(e, o)
    BY <1>2 DEF ConnOK, Fields, SaysSame
  <1> HIDE DEF e
  <1>4. /\ Saying(e) /\ Due(e) = Due(o)
        /\ OutFits(o) => OutFits(e)
    BY <1>2, <1>3, SameSaying
  <1>5. ~LostOf(c)
    BY <1>1 DEF LostOf
  <1>6. NoLongGet => OutFits(c) /\ c.out = <<>> /\ c.iovused = 0 /\ c.msgused = 1
    BY <1>1, <1>5 DEF OInv, OutFits
  <1>7. Due(c) = IF c.noreply THEN 0 ELSE 1
    BY <1>1 DEF Due, ToAnswer
  <1>8. NoLongGet => OutFits(e) /\ Due(e) = Due(c)
    BY <1>2, <1>4, <1>6, <1>7
  <1>9. NoLongGet /\ Refusable =>
              \/ LostOf(e) \/ peer = "reset"
              \/ Counted(e, (e.rbuf \o wire') \o unsent', owed')
    BY <1>1, <1>2, <1>3, <1>5, <1>8 DEF OInv, Counted, Stream
  <1> QED
    BY <1>1, <1>4, <1>8, <1>9, GoesOnCounted

\* The block of a refused command is gone.
LEMMA SwallowedCounted ==
    ASSUME IInv, FInv, OInv, swallowed
    PROVE  OInv'
  <1> DEFINE e == conn_set_state(c, "read")
  <1>1. /\ ConnOK(c) /\ Saying(c) /\ c.state = "swallow" /\ c' = e /\ pc = "loop"
        /\ wire' = wire /\ unsent' = unsent /\ peer' = peer /\ full' = full
        /\ nreqs' = nreqs /\ sent' = sent /\ owed' = owed
        /\ full \in BOOLEAN /\ owed \in Int
    BY DEF swallowed, Continue, In, socket, client, IInv, OInv
  <1>2. e.state = "read" /\ e.rbuf = c.rbuf /\ SaysSame(e, c)
    <2>1. "read" \in States
      BY DEF States
    <2> QED
      BY <1>1, <2>1, StateKeeps, StateSays
  <1> HIDE DEF e
  <1>3. Due(e) = 0 /\ Due(c) = 0 /\ ~LostOf(c) /\ Saying(e)
    BY <1>1, <1>2, ReaderOwes, SameSaying DEF LostOf
  <1>4. OutFits(c) => OutFits(e)
    BY <1>1, <1>2 DEF OutFits, SaysSame
  <1> QED
    BY <1>1, <1>2, <1>3, <1>4, GoesOnCounted DEF OInv, Counted, Stream

\* The text of an answer is added: what was due is now in out.
LEMMA AddIovSays ==
    ASSUME NEW d, ConnOK(d), Saying(d), d.state \in {"write", "mwrite"}
    PROVE  LET e == add_iov(d)
           IN  /\ ConnOK(e) /\ Saying(e) /\ e.state = d.state /\ e.rbuf = d.rbuf
               /\ e.write_and_go = d.write_and_go
               /\ OutFits(d) => /\ OutFits(e) /\ Due(e) = Due(d) /\ e.iovused # 0
  <1> DEFINE e == add_iov(d)
  <1>1. CASE d.state = "write" /\ d.iovused = 0
    <2> DEFINE o == IF d.msgused = 0 THEN d.out ELSE Append(d.out, "text")
               x == [d EXCEPT !.iovused = 1, !.out = o]
    <2>1. o \in Seq(Parts)
      BY DEF Saying, Parts
    <2>2. e = x
      BY <1>1 DEF add_iov, ConnOK, Fields
    <2> HIDE DEF o, e
    <2>3. /\ ConnOK(x) /\ x.state = d.state /\ x.rbuf = d.rbuf /\ x.out = o /\ x.iovused = 1
          /\ x.msgused = d.msgused /\ x.ev = d.ev /\ x.noreply = d.noreply
          /\ x.write_and_go = d.write_and_go
      BY DEF ConnOK, Fields
    <2> HIDE DEF x
    <2>4. Saying(x)
      BY <2>1, <2>3 DEF Saying
    <2>5. ASSUME OutFits(d) PROVE OutFits(x) /\ Due(x) = Due(d)
      <3>1. d.out = <<>> /\ d.msgused = 1
        BY <1>1, <2>5 DEF OutFits
      <3>2. o = <<"text">>
        BY <3>1 DEF o
      <3>3. OneReply(<<"text">>)
        BY DEF OneReply
      <3> QED
        BY <1>1, <2>3, <3>1, <3>2, <3>3 DEF OutFits, Due, ToAnswer
    <2>6. /\ ConnOK(e) /\ Saying(e) /\ e.state = d.state /\ e.rbuf = d.rbuf
          /\ e.write_and_go = d.write_and_go
          /\ OutFits(d) => /\ OutFits(e) /\ Due(e) = Due(d) /\ e.iovused # 0
      BY <2>2, <2>3, <2>4, <2>5
    <2> QED
      BY <2>6 DEF e
  <1>2. CASE ~(d.state = "write" /\ d.iovused = 0)
    <2>1. e = d
      BY <1>2 DEF add_iov
    <2>2. OutFits(d) => d.iovused # 0
      BY <1>2 DEF OutFits
    <2> HIDE DEF e
    <2>3. /\ ConnOK(e) /\ Saying(e) /\ e.state = d.state /\ e.rbuf = d.rbuf
          /\ e.write_and_go = d.write_and_go
          /\ OutFits(d) => /\ OutFits(e) /\ Due(e) = Due(d) /\ e.iovused # 0
      BY <2>1, <2>2
    <2> QED
      BY <2>3 DEF e
  <1> QED
    BY <1>1, <1>2

\* n parts are sent: the reply, if the last one is among them.
LEMMA SentParts ==
    ASSUME NEW out \in Seq(Parts), NEW n \in 1 .. Len(out)
    PROVE  LET rest == SubSeq(out, n + 1, Len(out))
           IN  /\ rest \in Seq(Parts)
               /\ Replies(SubSeq(out, 1, n)) \in Nat
               /\ OneReply(out) =>
                     /\ OneReply(rest)
                     /\ rest = <<>> <=> n = Len(out)
                     /\ Replies(SubSeq(out, 1, n)) = IF n = Len(out) THEN 1 ELSE 0
  <1> DEFINE rest == SubSeq(out, n + 1, Len(out))
             gone == SubSeq(out, 1, n)
             P == {i \in DOMAIN gone : gone[i] # "value"}
  <1>1. Len(out) \in Nat /\ n \in Nat
    OBVIOUS
  <1>2. /\ rest \in Seq(Parts) /\ Len(rest) = Len(out) - n
        /\ \A i \in 1 .. Len(out) - n : rest[i] = out[n + i]
    <2>1. \A i \in n + 1 .. Len(out) : out[i] \in Parts
      BY <1>1
    <2> QED
      BY <1>1, <2>1, SubSeqProperties
  <1>3. /\ DOMAIN gone = 1 .. n /\ \A i \in 1 .. n : gone[i] = out[i]
    BY <1>1
  <1> HIDE DEF rest, gone
  <1>4. P \in SUBSET (1 .. n) /\ IsFiniteSet(1 .. n)
    BY <1>1, <1>3, FS_Interval
  <1>5. IsFiniteSet(P) /\ Cardinality(P) \in Nat
    <2> HIDE DEF P
    <2> QED
      BY <1>4, FS_Subset, FS_CardinalityType
  <1>6. ASSUME OneReply(out)
        PROVE  /\ OneReply(rest)
               /\ rest = <<>> <=> n = Len(out)
               /\ Cardinality(P) = IF n = Len(out) THEN 1 ELSE 0
    <2>1. \A i \in 1 .. Len(out) : out[i] # "value" <=> i = Len(out)
      BY <1>6 DEF OneReply
    <2>2. OneReply(rest)
      BY <1>1, <1>2, <2>1 DEF OneReply
    <2>3. rest = <<>> <=> n = Len(out)
      BY <1>1, <1>2
    <2>4. P = IF n = Len(out) THEN {n} ELSE {}
      BY <1>1, <1>3, <2>1
    <2> HIDE DEF P
    <2>5. Cardinality({n}) = 1 /\ Cardinality({}) = 0
      BY FS_Singleton, FS_EmptySet
    <2> QED
      BY <2>2, <2>3, <2>4, <2>5
  <1>7. Replies(gone) = Cardinality(P)
    BY DEF Replies
  <1> HIDE DEF P
  <1> QED
    BY <1>2, <1>5, <1>6, <1>7 DEF rest, gone

\* Some of the reply is sent, or nothing, or the socket fails.
LEMMA TransmitCounted ==
    ASSUME IInv, FInv, OInv, transmit
    PROVE  OInv'
  <1> DEFINE d == add_iov(c)
  <1>1. /\ ConnOK(c) /\ Saying(c) /\ c.state \in {"write", "mwrite"} /\ pc = "loop"
        /\ wire' = wire /\ unsent' = unsent /\ peer' = peer /\ sent' = sent
        /\ nreqs' = nreqs /\ nreqs \in 0 .. ReqsPerEvent
        /\ full \in BOOLEAN /\ owed \in Int
    BY DEF transmit, client, IInv, OInv, Writing
  <1>2. /\ ConnOK(d) /\ Saying(d) /\ d.state = c.state /\ d.rbuf = c.rbuf
        /\ d.write_and_go = c.write_and_go
        /\ OutFits(c) => /\ OutFits(d) /\ Due(d) = Due(c) /\ d.iovused # 0
    BY <1>1, AddIovSays
  <1>3. d.out # <<>>
    BY DEF transmit
  <1> HIDE DEF d
  <1>4. LostOf(d) = LostOf(c)
    BY <1>2 DEF LostOf
  <1>5. /\ NoLongGet => LostOf(d) \/ OutFits(d)
        /\ NoLongGet /\ Refusable =>
              \/ LostOf(d) \/ peer = "reset"
              \/ Counted(d, (d.rbuf \o wire') \o unsent', owed)
    BY <1>1, <1>2, <1>4 DEF OInv, Counted, Stream
  <1>6. CASE \E n \in 1 .. Len(d.out) :
               /\ Continue([d EXCEPT !.out = SubSeq(@, n + 1, Len(@))])
               /\ owed' = owed - Replies(SubSeq(d.out, 1, n))
               /\ full' \in BOOLEAN
    <2>1. PICK n \in 1 .. Len(d.out) :
               /\ Continue([d EXCEPT !.out = SubSeq(@, n + 1, Len(@))])
               /\ owed' = owed - Replies(SubSeq(d.out, 1, n))
               /\ full' \in BOOLEAN
      BY <1>6
    <2> DEFINE rest == SubSeq(d.out, n + 1, Len(d.out))
               went == Replies(SubSeq(d.out, 1, n))
               e == [d EXCEPT !.out = rest]
    <2>2. c' = e
      BY <2>1 DEF Continue
    <2>3. d.out \in Seq(Parts)
      BY <1>2 DEF Saying
    <2>4. /\ rest \in Seq(Parts) /\ went \in Nat
          /\ OneReply(d.out) => /\ OneReply(rest)
                                /\ rest = <<>> <=> n = Len(d.out)
                                /\ went = IF n = Len(d.out) THEN 1 ELSE 0
      BY <2>3, SentParts
    <2>5. owed' = owed - went
      BY <2>1
    <2> HIDE DEF rest, went
    <2>6. /\ e.state = d.state /\ e.rbuf = d.rbuf /\ e.out = rest /\ e.noreply = d.noreply
          /\ e.iovused = d.iovused /\ e.msgused = d.msgused /\ e.ev = d.ev
          /\ e.write_and_go = d.write_and_go
      BY <1>2 DEF ConnOK, Fields
    <2> HIDE DEF e
    <2>7. Saying(e)
      BY <1>2, <2>4, <2>6 DEF Saying
    <2>8. LostOf(e) = LostOf(d)
      BY <2>6 DEF LostOf
    <2>9. ASSUME NoLongGet, ~LostOf(d)
          PROVE  OutFits(e) /\ Due(d) = 1 /\ Due(e) = 1 - went
      <3>1. OutFits(d) /\ d.iovused # 0
        BY <1>2, <1>4, <1>5, <2>9 DEF OInv
      <3>2. OneReply(d.out)
        BY <3>1 DEF OutFits
      <3>3. OutFits(e)
        BY <1>1, <1>2, <2>4, <2>6, <3>1, <3>2 DEF OutFits
      <3>4. Due(d) = 1
        BY <1>1, <1>2, <1>3 DEF Due, ToAnswer
      <3>5. Due(e) = IF rest = <<>> THEN 0 ELSE 1
        BY <1>1, <1>2, <2>6, <3>1 DEF Due, ToAnswer
      <3> QED
        BY <2>4, <3>2, <3>3, <3>4, <3>5
    <2>10. owed' \in Int
      BY <1>1, <2>4, <2>5
    <2>11. NoLongGet /\ Refusable =>
              \/ LostOf(e) \/ peer = "reset"
              \/ Counted(e, (e.rbuf \o wire') \o unsent', owed')
      <3> DEFINE S == (d.rbuf \o wire') \o unsent'
      <3>1. Asked(S) \in Nat
        BY <1>1, <1>2, StreamUnits DEF Stream
      <3>2. (e.rbuf \o wire') \o unsent' = S
        BY <2>6
      <3>3. NoLongGet /\ Refusable => LostOf(d) \/ peer = "reset" \/ Counted(d, S, owed)
        BY <1>5
      <3> HIDE DEF S
      <3> QED
        BY <1>1, <2>4, <2>5, <2>8, <2>9, <3>1, <3>2, <3>3 DEF Counted
    <2> QED
      BY <1>1, <2>1, <2>2, <2>7, <2>8, <2>9, <2>10, <2>11, GoesOnCounted
  <1>7. CASE Await(d, "write") /\ full' = full /\ owed' = owed
    BY <1>1, <1>2, <1>5, <1>7, StopsCounted
  <1>8. CASE Continue(conn_set_state(d, "closing")) /\ full' = full /\ owed' = owed
    <2>1. /\ conn_set_state(d, "closing").state = "closing"
          /\ Saying(conn_set_state(d, "closing"))
      <3>1. "closing" \in States
        BY DEF States
      <3> QED
        BY <1>2, <3>1, SetState, StateSays, SameSaying
    <2> QED
      BY <1>1, <1>8, <2>1, ClosesCounted DEF Continue
  <1> QED
    BY <1>6, <1>7, <1>8 DEF transmit, d

\* The reply is sent: the next command, or the data to swallow.
LEMMA TransmitCompleteCounted ==
    ASSUME IInv, FInv, OInv, transmit_complete
    PROVE  OInv'
  <1> DEFINE d == add_iov(c)
             z == [d EXCEPT !.ileft = 0]
             e == conn_set_state(z, "read")
             g == conn_set_state(d, d.write_and_go)
  <1>1. /\ ConnOK(c) /\ Saying(c) /\ c.state \in {"write", "mwrite"} /\ pc = "loop"
        /\ wire' = wire /\ unsent' = unsent /\ peer' = peer /\ sent' = sent
        /\ nreqs' = nreqs /\ full' = full /\ owed' = owed
        /\ full \in BOOLEAN /\ owed \in Int
    BY DEF transmit_complete, socket, client, IInv, OInv, Writing
  <1>2. /\ ConnOK(d) /\ Saying(d) /\ d.state = c.state /\ d.rbuf = c.rbuf
        /\ d.write_and_go = c.write_and_go
        /\ OutFits(c) => /\ OutFits(d) /\ Due(d) = Due(c) /\ d.iovused # 0
    BY <1>1, AddIovSays
  <1>3. d.out = <<>>
    BY DEF transmit_complete
  <1> HIDE DEF d
  <1>4. LostOf(d) = LostOf(c)
    BY <1>2 DEF LostOf
  <1>5. NoLongGet /\ ~LostOf(d) => OutFits(d) /\ d.iovused # 0 /\ Due(d) = 0 /\ Due(c) = 0
    BY <1>1, <1>2, <1>3, <1>4 DEF OInv, Due, ToAnswer
  <1>6. ASSUME NEW x, c' = x, SaysSame(x, d), x.rbuf = d.rbuf,
               x.state \in {"read", "swallow"} \/ x.state = "closing",
               LostOf(d) => LostOf(x)
        PROVE  OInv'
    <2>1. Saying(x)
      BY <1>2, <1>6, SameSaying
    <2>2. NoLongGet => LostOf(x) \/ OutFits(x)
      <3>1. CASE x.state = "closing"
        BY <3>1 DEF LostOf
      <3>2. CASE x.state \in {"read", "swallow"}
        BY <1>3, <1>5, <1>6, <3>2 DEF OutFits, SaysSame
      <3> QED
        BY <1>6, <3>1, <3>2
    <2>3. NoLongGet /\ Refusable =>
              \/ LostOf(x) \/ peer = "reset"
              \/ Counted(x, (x.rbuf \o wire') \o unsent', owed')
      <3>1. CASE x.state = "closing"
        BY <3>1 DEF LostOf
      <3>2. CASE x.state \in {"read", "swallow"}
        <4>1. Due(x) = 0
          BY <3>2, ReaderOwes
        <4> QED
          BY <1>1, <1>2, <1>4, <1>5, <1>6, <4>1 DEF OInv, Counted, Stream
      <3> QED
        BY <1>6, <3>1, <3>2
    <2> QED
      BY <1>1, <1>6, <2>1, <2>2, <2>3, GoesOnCounted
  <1>7. CASE d.state = "mwrite" /\ c' = e
    <2>1. ConnOK(z) /\ SaysSame(z, d) /\ z.rbuf = d.rbuf
      BY <1>2 DEF ConnOK, Fields, SaysSame
    <2> HIDE DEF z
    <2>2. e.state = "read" /\ e.rbuf = z.rbuf /\ SaysSame(e, z)
      <3>1. "read" \in States
        BY DEF States
      <3> QED
        BY <2>1, <3>1, StateKeeps, StateSays
    <2> HIDE DEF e
    <2>3. SaysSame(e, d) /\ e.rbuf = d.rbuf
      BY <2>1, <2>2 DEF SaysSame
    <2>4. ~LostOf(d)
      BY <1>7 DEF LostOf
    <2> QED
      BY <1>6, <1>7, <2>2, <2>3, <2>4
  <1>8. CASE d.state # "mwrite" /\ c' = g
    <2>1. d.write_and_go \in {"read", "swallow", "closing"} /\ d.state = "write"
      BY <1>1, <1>2, <1>8 DEF ConnOK
    <2>2. g.state = d.write_and_go /\ g.rbuf = d.rbuf /\ SaysSame(g, d)
      <3>1. d.write_and_go \in States
        BY <2>1 DEF States
      <3> QED
        BY <1>2, <3>1, StateKeeps, StateSays
    <2> HIDE DEF g
    <2>3. LostOf(d) => LostOf(g)
      BY <2>1, <2>2 DEF LostOf
    <2>4. g.state \in {"read", "swallow"} \/ g.state = "closing"
      BY <2>1, <2>2
    <2> QED
      BY <1>6, <1>8, <2>2, <2>3, <2>4
  <1> QED
    BY <1>7, <1>8 DEF transmit_complete, Continue, d

\* A connection that ends.
LEMMA EndsCounted ==
    ASSUME IInv, OInv, add_iov_undefined \/ conn_close
    PROVE  OInv'
  <1>1. /\ ConnOK(c) /\ Saying(c) /\ pc' = "wait"
        /\ peer' = peer /\ full' = full /\ nreqs' = nreqs /\ sent' = sent /\ owed' = owed
        /\ full \in BOOLEAN /\ owed \in Int
    BY DEF add_iov_undefined, conn_close, socket, client, IInv, OInv
  <1>2. c'.state \in {"crashed", "closed"} /\ SaysSame(c', c)
    BY <1>1 DEF add_iov_undefined, conn_close, ConnOK, Fields, SaysSame
  <1>3. Saying(c')
    BY <1>1, <1>2 DEF Saying, SaysSame
  <1> QED
    BY <1>1, <1>2, <1>3 DEF OInv, LostOf, Saying

\* Every step keeps the count.
LEMMA InductiveCounted == IInv /\ FInv /\ OInv /\ [Next]_vars => OInv'
  <1>1. ASSUME IInv, FInv, OInv, UNCHANGED vars PROVE OInv'
    BY <1>1 DEF vars, socket, client, OInv, Saying, OutFits, LostOf, Counted,
                Stream, Due, ToAnswer
  <1>2. ASSUME IInv, FInv, OInv, drive_machine PROVE OInv'
    BY <1>2, CommandCounted, ReadMoreCounted, NetworkCounted, LeftoverCounted,
       RestCounted, CompleteCounted, SwallowedCounted, TransmitCounted,
       TransmitCompleteCounted, EndsCounted DEF drive_machine
  <1> QED
    BY <1>1, <1>2, ClientCounted, HandlerCounted DEF Next

----------------------------------------------------------------------------
\* The connection has its types: the counters that drive_machine only ever
\* lowers (rlbytes, sbytes, ileft, the iovecs and messages to send) never go
\* below zero, and it is never found in a state no handler is for.
THEOREM ConnTyped == Spec => []TypeOK
  <1>1. IInv /\ OInv => TypeOK
    <2> SUFFICES ASSUME IInv, OInv PROVE TypeOK
      OBVIOUS
    <2>1. ConnOK(c) /\ Saying(c)
      BY DEF IInv, OInv
    <2>2. c \in [state : States, ev : {"read", "write"}, rbuf : Seq(Units),
              rsize : Nat \ {0}, rlbytes : Nat, sbytes : Nat, item : BOOLEAN,
              ileft : Nat, out : Seq({"value", "end", "text"}), iovused : Nat,
              msgused : 0 .. 1, noreply : BOOLEAN,
              write_and_go : {"read", "swallow", "closing"}]
      BY <2>1 DEF ConnOK, Saying, Fields, Parts
    <2> QED
      BY <2>2 DEF IInv, OInv, Reader, TypeOK
  <1>2. Init => IInv /\ FInv /\ OInv
    BY Initially, FramedInitially, CountedInitially
  <1>3. IInv /\ FInv /\ OInv /\ [Next]_vars => IInv' /\ FInv' /\ OInv'
    BY Inductive, InductiveFramed, InductiveCounted
  <1> QED
    BY <1>1, <1>2, <1>3, PTL DEF Spec

\* If no get has a key that is too long behind another one, and a storage
\* command is refused only for want of room and then with an answer (as in
\* the run), every request that asks for an answer gets one, and one only:
\* the client is never sent a reply it does not wait for, and when the server
\* has taken all that was sent and is back at reading, no reply is missing.
THEOREM AlwaysInStep == Spec => [](NoLongGet /\ Refusable => InStep)
  <1>1. IInv /\ OInv /\ TypeOK => (NoLongGet /\ Refusable => InStep)
    <2> SUFFICES ASSUME IInv, OInv, TypeOK, NoLongGet, Refusable PROVE InStep
      OBVIOUS
    <2>1. CASE LostOf(c) \/ peer = "reset"
      BY <2>1 DEF LostOf, InStep, Gone, GivenUp
    <2>2. CASE Counted(c, Stream, owed)
      <3>1. Asked(Stream) \in Nat /\ Due(c) \in Nat
        BY StreamUnits DEF Due
      <3>2. owed >= 0
        BY <2>2, <3>1 DEF Counted
      <3>3. ASSUME c.state = "read", (c.rbuf \o wire) \o unsent = <<>>
            PROVE  owed = 0
        BY <2>2, <3>3, NoneAsked, ReaderOwes DEF Counted, Stream
      <3> QED
        BY <3>2, <3>3 DEF InStep
    <2> QED
      BY <2>1, <2>2 DEF OInv
  <1>2. Spec => [](IInv /\ OInv)
    <2>1. Init => IInv /\ FInv /\ OInv
      BY Initially, FramedInitially, CountedInitially
    <2>2. IInv /\ FInv /\ OInv /\ [Next]_vars => IInv' /\ FInv' /\ OInv'
      BY Inductive, InductiveFramed, InductiveCounted
    <2> QED
      BY <2>1, <2>2, PTL DEF Spec
  <1> QED
    BY <1>1, <1>2, ConnTyped, PTL
=============================================================================
