-------------------------- MODULE CasRead_proofs --------------------------
(***************************************************************************)
(* Proofs about gets, cas and incr where they look at items, and write     *)
(* them, in several steps: what a gets prints belongs together, and a cas  *)
(* replaces what its client was sent.                                      *)
(*                                                                         *)
(* What the commands of Cache do to the cache is known from Cache_proofs.  *)
(* The inductive invariant CInv adds what each cas id was given to, and    *)
(* who may still look at it; a step with the lock gives data and an id to  *)
(* at most two chunks (Carries).                                           *)
(***************************************************************************)
EXTENDS CasRead, Cache_proofs

----------------------------------------------------------------------------
(* gets and cas: the inductive invariant *)

\* The data of an item.
Texts == Seq(0 .. Base)

\* The items that lookups, gets, incr and decr may look at.
Seen == cache.linked \cup {conn[s].it : s \in {t \in Conns : conn[t].at = "delta" \/ Reading(t)}}

\* What a client has been sent is of the data its cas id was given to.
Answer(r) ==
    /\ r = [key |-> r.key, cas_id |-> r.cas_id, text |-> r.text]
    /\ r.text \in Texts /\ r.cas_id \in 0 .. Len(stored)
    /\ r.cas_id # 0 /\ r.cas_id \notin overwritten => IsPrefix(r.text, stored[r.cas_id])

Answered ==
    /\ stored \in Seq(Texts) /\ overwritten \subseteq 1 .. Len(stored)
    /\ reply = [s \in Conns |-> reply[s]]
    /\ \A s \in Conns : Answer(reply[s])

\* An item that may be looked at has a cas id of its own, and the data that it was given to,
\* unless these are being written.
Named ==
    /\ Len(stored) = cache.last_cas
    /\ \A i \in Seen : /\ cache.cas_id[i] \in 1 .. cache.last_cas
                       /\ cache.cas_id[i] \notin overwritten
                       /\ i # writing.it => cache.data[i] = stored[cache.cas_id[i]]
    /\ \A i, j \in Seen : cache.cas_id[i] = cache.cas_id[j] => i = j

\* Nobody else has the item of a storage command, and that of a cas has the id of the
\* client's last gets of the key.
Alone(s) ==
    conn[s].at = "nread" =>
        /\ conn[s].it \notin cache.linked
        /\ \A t \in Conns \ {s} : conn[t].it # conn[s].it
        /\ conn[s].cmd = "cas" => /\ reply[s].cas_id # 0
                                  /\ cache.cas_id[conn[s].it] = reply[s].cas_id
                                  /\ cache.key[conn[s].it] = conn[s].key

\* The item of a gets keeps the id it printed, unless it is changed in place; and at the end
\* all of its data was sent.
Reads(s) ==
    LET i == conn[s].it
        c == reply[s].cas_id
    IN /\ conn[s].at = "update" => Reading(s) /\ reply[s].text = <<>>
       /\ Reading(s) =>
             /\ conn[s].at \in {"update", "remove"}
             /\ c # 0 /\ c \notin overwritten => c = cache.cas_id[i]
             /\ conn[s].at = "remove" => c # 0 /\ (i = writing.it => c \in overwritten)
       /\ ~Reading(s) /\ c # 0 /\ c \notin overwritten => reply[s].text = stored[c]

\* What is written already of the new text.
Inplace ==
    writing # NoWrite =>
        LET i == writing.it
            s == writing.by
        IN /\ writing = [by |-> s, it |-> i, text |-> writing.text, left |-> writing.left]
           /\ s \in Conns /\ conn[s].at = "delta" /\ conn[s].it = i
           /\ writing.text \in Texts /\ writing.left \subseteq 1 .. Len(writing.text)
           /\ stored[cache.cas_id[i]] = writing.text
           /\ Len(cache.data[i]) = Len(writing.text)
           /\ \A n \in 1 .. Len(writing.text) :
                 n \notin writing.left => cache.data[i][n] = writing.text[n]

Strong == IInv /\ Fit /\ Named /\ Inplace /\ \A s \in Conns : Alone(s) /\ Reads(s)

CInv == Shape(cache) /\ Answered /\ (cache.halted = "no" => Strong)

\* An item that a connection has is in use.
LEMMA InUse ==
    ASSUME NEW c, Typed(c), FreeBut(c, {}), NEW h, NEW q \in Seq(Items), NEW s \in Conns,
           h[s].it \in Items,
           \A i \in Items :
              c.refcount[i] = Cardinality({t \in Conns : h[t].it = i}) + Copies(q, i)
    PROVE  c.refcount[h[s].it] # 0 /\ h[s].it \notin c.free
  <1> DEFINE i == h[s].it
             H == {t \in Conns : h[t].it = i}
             k == Copies(q, i)
  <1>1. H \in SUBSET Conns /\ s \in H
    OBVIOUS
  <1>2. Cardinality(H) # 0 /\ Cardinality(H) \in Nat
    <2> HIDE DEF H
    <2>1. IsFiniteSet(H)
      BY <1>1, CacheAssumption, FS_Subset
    <2> QED
      BY <1>1, <2>1, Counts
  <1>3. k \in Nat
    BY CopiesNat
  <1>4. c.refcount[i] = Cardinality(H) + k
    OBVIOUS
  <1> DEFINE m == Cardinality(H)
  <1>5. m # 0 /\ m \in Nat /\ c.refcount[i] = m + k
    BY <1>2, <1>4
  <1> HIDE DEF m, k
  <1>6. c.refcount[i] # 0
    BY <1>3, <1>5
  <1> QED
    BY <1>6 DEF FreeBut

\* ... before a step
LEMMA HeldNow ==
    ASSUME IInv, cache.halted = "no", NEW s \in Conns, conn[s].it \in Items
    PROVE  cache.refcount[conn[s].it] # 0 /\ conn[s].it \notin cache.free
  <1>1. /\ Typed(cache) /\ FreeBut(cache, {}) /\ todelete \in Seq(Items)
        /\ \A i \in Items : cache.refcount[i] =
              Cardinality({t \in Conns : conn[t].it = i}) + Copies(todelete, i)
    BY DEF IInv, Counted, HeldBy, Holders
  <1> QED
    BY <1>1, InUse

\* ... and after it.
LEMMA HeldThen ==
    ASSUME IInv', cache'.halted = "no", NEW s \in Conns, conn'[s].it \in Items
    PROVE  conn'[s].it \notin cache'.free
  <1>1. /\ Typed(cache') /\ FreeBut(cache', {}) /\ todelete' \in Seq(Items)
        /\ \A i \in Items : cache'.refcount[i] =
              Cardinality({t \in Conns : conn'[t].it = i}) + Copies(todelete', i)
    BY DEF IInv, Counted, HeldBy, Holders, Typed, FreeBut, Copies
  <1> QED
    BY <1>1, InUse

\* All that may be looked at is an item, and in use.
LEMMA SeenItems ==
    ASSUME IInv, cache.halted = "no", \A s \in Conns : Reads(s)
    PROVE  Seen \subseteq Items \ cache.free
  <1>1. ASSUME NEW s \in Conns, conn[s].at = "delta" \/ Reading(s)
        PROVE  conn[s].it \in Items \ cache.free
    <2>1. conn[s].at \in {"delta", "update", "remove"}
      BY <1>1 DEF Reads
    <2>2. conn[s].it \in Items
      BY <2>1 DEF IInv, ConnOK
    <2> QED
      BY <2>2, HeldNow
  <1>2. cache.linked \subseteq Items \ cache.free
    BY DEF IInv, Typed, Linked
  <1> QED
    BY <1>1, <1>2 DEF Seen

\* The step of connection s, with the lock: only the chunk x is taken from the free ones, and
\* only j is linked, if these are items.
Carries(s, x, j) ==
    /\ cache.halted = "no"
    /\ \A t \in Conns \ {s} : conn'[t] = conn[t] /\ reply'[t] = reply[t]
    /\ reply' = [t \in Conns |-> reply'[t]]
    /\ Stamps(cache, cache', x, j) /\ Unheld(x)
    /\ j # Null => j \in Items /\ (j = x \/ (conn[s].at = "nread" /\ j = conn[s].it))
    /\ \A i \in Items : cache.refcount[i] # 0 => cache'.key[i] \in {cache.key[i], Null}
    /\ overwritten' = overwritten
    /\ stored' = IF j = Null THEN stored ELSE Append(stored, cache'.data[j])
    /\ writing = NoWrite /\ writing' = NoWrite

\* Who held an item that may be looked at.
Shows(s, x) ==
    conn'[s].at = "delta" \/ conn'[s].cmd = "get" => conn'[s].it \in Seen /\ conn'[s].it # x

\* What may be looked at after it could be before, but for j, and is as it was.
LEMMA SeenStays ==
    ASSUME Strong, IInv', cache'.halted = "no", NEW s \in Conns, NEW x, NEW j,
           Carries(s, x, j), Shows(s, x), NEW i \in Seen', i # j
    PROVE  /\ i \in Seen /\ i \in Items /\ i # x /\ Untouched(cache, cache', i)
           /\ i \notin cache'.free
  <1>1. Seen \subseteq Items \ cache.free /\ IInv
    BY SeenItems DEF Carries, Strong
  <1>2. i \in Seen /\ i # x /\ i \notin cache'.free
    <2>1. CASE i \in cache'.linked
      <3>1. i \in Items /\ i \notin cache'.free
        BY <2>1 DEF IInv, Typed, Linked
      <3>2. i \in cache.linked /\ i # x
        BY <2>1, <3>1 DEF Carries, Stamps
      <3> QED
        BY <3>1, <3>2 DEF Seen
    <2>2. CASE i \notin cache'.linked
      <3>1. PICK t \in Conns : /\ conn'[t].at = "delta" \/ conn'[t].cmd = "get"
                               /\ i = conn'[t].it
        BY <2>2 DEF Seen, Reading
      <3>2. CASE t = s
        <4>1. i \in Seen /\ i # x
          BY <3>1, <3>2 DEF Shows
        <4>2. i \in Items
          BY <1>1, <4>1
        <4> QED
          BY <3>1, <4>1, <4>2, HeldThen
      <3>3. CASE t # s
        <4>1. conn'[t] = conn[t]
          BY <3>3 DEF Carries
        <4>2. i \in Seen
          BY <3>1, <4>1 DEF Seen, Reading
        <4>3. i \in Items
          BY <1>1, <4>2
        <4>4. cache.refcount[i] # 0
          BY <1>1, <3>1, <4>1, <4>3, HeldNow DEF Carries
        <4>5. i # x
          BY <4>3, <4>4 DEF Carries, Unheld
        <4> QED
          BY <3>1, <4>2, <4>3, <4>5, HeldThen
      <3> QED
        BY <3>2, <3>3
    <2> QED
      BY <2>1, <2>2
  <1>3. i \in Items \ {x, j}
    BY <1>1, <1>2
  <1>4. Untouched(cache, cache', i)
    BY <1>2, <1>3 DEF Carries, Stamps
  <1> QED
    BY <1>2, <1>3, <1>4

\* What was stored stays so.
LEMMA Recalls ==
    ASSUME stored \in Seq(Texts), NEW z \in Texts, stored' = stored \/ stored' = Append(stored, z)
    PROVE  /\ stored' \in Seq(Texts) /\ Len(stored') >= Len(stored) /\ Len(stored) \in Nat
           /\ Len(stored') \in Nat
           /\ \A c \in 1 .. Len(stored) : stored'[c] = stored[c]
  <1> HIDE DEF Texts
  <1> QED
    OBVIOUS

\* The data that a new cas id is given to.
LEMMA NewData ==
    ASSUME Fit, NEW x, NEW j \in Items, Stamps(cache, cache', x, j)
    PROVE  cache'.data[j] \in Texts
  <1>1. cache'.data \in [Items -> Texts]
    BY DEF Fit, Stamps, Worded, Texts
  <1> HIDE DEF Texts
  <1> QED
    BY <1>1

\* The ghost after a step.
LEMMA StoredStays ==
    ASSUME Strong, Answered, NEW s \in Conns, NEW x, NEW j, Carries(s, x, j)
    PROVE  /\ stored' \in Seq(Texts) /\ Len(stored) \in Nat /\ Len(stored') >= Len(stored)
           /\ Len(stored') = cache'.last_cas /\ cache.last_cas \in Nat
           /\ \A c \in 1 .. Len(stored) : stored'[c] = stored[c]
           /\ j # Null => stored'[cache'.last_cas] = cache'.data[j]
  <1>1. stored \in Seq(Texts) /\ Len(stored) = cache.last_cas
    BY DEF Answered, Strong, Named
  <1>2. CASE j = Null
    <2>1. stored' = stored /\ cache'.last_cas = cache.last_cas
      BY <1>2 DEF Carries, Stamps
    <2> HIDE DEF Texts
    <2> QED
      BY <1>1, <1>2, <2>1
  <1>3. CASE j # Null
    <2> DEFINE z == cache'.data[j]
               d == cache'.last_cas
               new == stored'
    <2>1. z \in Texts
      BY <1>3, NewData DEF Carries, Strong
    <2>2. new = Append(stored, z) /\ d = cache.last_cas + 1
      BY <1>3 DEF Carries, Stamps
    <2> HIDE DEF Texts, z, d, new
    <2>3. /\ new \in Seq(Texts) /\ Len(stored) \in Nat /\ Len(new) >= Len(stored)
          /\ Len(new) = d /\ cache.last_cas \in Nat
          /\ \A c \in 1 .. Len(stored) : new[c] = stored[c]
          /\ new[d] = z
      BY <1>1, <2>1, <2>2
    <2> QED
      BY <2>3 DEF z, d, new
  <1> QED
    BY <1>2, <1>3

\* Nothing is not looked at.
LEMMA SeenSome ==
    ASSUME Strong, IInv', cache'.halted = "no", NEW s \in Conns, NEW x, NEW j,
           Carries(s, x, j), Shows(s, x)
    PROVE  Null \notin Seen'
  <1>1. Null \notin Seen
    BY SeenItems, ItemsAssumption DEF Strong, Carries
  <1>2. Null \notin cache'.linked
    BY ItemsAssumption DEF IInv, Typed
  <1>3. ASSUME NEW t \in Conns, conn'[t].at = "delta" \/ conn'[t].cmd = "get"
        PROVE  conn'[t].it \in Seen
    <2>1. CASE t = s
      BY <1>3, <2>1 DEF Shows
    <2>2. CASE t # s
      BY <1>3, <2>2 DEF Carries, Seen, Reading
    <2> QED
      BY <2>1, <2>2
  <1> QED
    BY <1>1, <1>2, <1>3 DEF Seen, Reading

\* Cas ids name one item each.
LEMMA NamedStays ==
    ASSUME Strong, Answered, IInv', cache'.halted = "no", NEW s \in Conns, NEW x, NEW j,
           Carries(s, x, j), Shows(s, x)
    PROVE  Named'
  <1>1. /\ stored' \in Seq(Texts) /\ Len(stored) \in Nat /\ Len(stored') >= Len(stored)
        /\ Len(stored') = cache'.last_cas /\ cache.last_cas \in Nat
        /\ \A c \in 1 .. Len(stored) : stored'[c] = stored[c]
        /\ j # Null => stored'[cache'.last_cas] = cache'.data[j]
    BY StoredStays
  <1>2. /\ Len(stored) = cache.last_cas /\ overwritten \subseteq 1 .. cache.last_cas
        /\ overwritten' = overwritten
    BY DEF Strong, Named, Answered, Carries
  <1> DEFINE l == cache.last_cas
             m == cache'.last_cas
  <1>3. j # Null => m = l + 1 /\ cache'.cas_id[j] = m
    BY DEF Carries, Stamps
  <1>4. ASSUME NEW i \in Seen', i # j
        PROVE  /\ i \in Seen /\ cache'.cas_id[i] = cache.cas_id[i] /\ cache.cas_id[i] \in 1 .. l
               /\ cache.cas_id[i] \notin overwritten
               /\ cache'.data[i] = stored[cache.cas_id[i]]
    <2>1. i \in Seen /\ i \in Items /\ Untouched(cache, cache', i)
      BY <1>4, SeenStays
    <2>2. i # writing.it
      BY <2>1, ItemsAssumption DEF Carries, NoWrite
    <2> QED
      BY <2>1, <2>2 DEF Untouched, Strong, Named
  <1>5. m >= l /\ m \in Nat /\ l \in Nat
    BY <1>1, <1>2
  <1>6. ASSUME NEW i \in Seen'
        PROVE  /\ cache'.cas_id[i] \in 1 .. m /\ cache'.cas_id[i] \notin overwritten'
               /\ cache'.data[i] = stored'[cache'.cas_id[i]]
    <2>1. i # Null
      BY <1>6, SeenSome
    <2>2. CASE i = j
      <3>1. m = l + 1 /\ cache'.cas_id[i] = m /\ stored'[m] = cache'.data[i]
        BY <1>1, <1>3, <2>1, <2>2
      <3>2. m \in 1 .. m /\ m \notin overwritten
        <4> HIDE DEF l, m
        <4>1. overwritten \subseteq 1 .. l
          BY <1>2 DEF l
        <4>2. m = l + 1
          BY <3>1
        <4> QED
          BY <1>5, <4>1, <4>2
      <3> QED
        BY <1>2, <3>1, <3>2
    <2>3. CASE i # j
      <3>1. /\ cache'.cas_id[i] = cache.cas_id[i] /\ cache.cas_id[i] \in 1 .. l
            /\ cache.cas_id[i] \notin overwritten
            /\ cache'.data[i] = stored[cache.cas_id[i]]
        BY <1>4, <2>3
      <3>2. cache.cas_id[i] \in 1 .. m
        <4> DEFINE c == cache.cas_id[i]
        <4>1. c \in 1 .. l
          BY <3>1
        <4> HIDE DEF l, m, c
        <4>2. c \in 1 .. m
          BY <1>5, <4>1
        <4> QED
          BY <4>2 DEF c
      <3> QED
        BY <1>1, <1>2, <3>1, <3>2
    <2> QED
      BY <2>2, <2>3
  <1>7. ASSUME NEW i \in Seen', NEW k \in Seen', cache'.cas_id[i] = cache'.cas_id[k]
        PROVE  i = k
    <2>1. CASE i # j /\ k # j
      BY <1>4, <1>7, <2>1 DEF Strong, Named
    <2>2. ASSUME NEW a \in Seen', NEW b \in Seen', a = j, b # j,
                 cache'.cas_id[a] = cache'.cas_id[b]
          PROVE  FALSE
      <3>1. cache'.cas_id[b] \in 1 .. l
        BY <1>4, <2>2
      <3>2. CASE j # Null
        <4>1. cache'.cas_id[a] = l + 1
          BY <1>3, <2>2, <3>2
        <4> DEFINE c == cache'.cas_id[a]
        <4>2. c = l + 1 /\ c \in 1 .. l
          BY <2>2, <3>1, <4>1
        <4> HIDE DEF c, l
        <4> QED
          BY <1>5, <4>2
      <3>3. CASE j = Null
        BY <2>2, <3>3, SeenSome
      <3> QED
        BY <3>2, <3>3
    <2> QED
      BY <1>7, <2>1, <2>2
  <1> QED
    BY <1>1, <1>6, <1>7 DEF Named

\* Another connection's item is not the one that is linked, nor the new one.
LEMMA OthersItem ==
    ASSUME Strong, NEW s \in Conns, NEW x, NEW j, Carries(s, x, j),
           NEW t \in Conns \ {s}, conn[t].it \in Items
    PROVE  conn[t].it # x /\ conn[t].it # j
  <1> DEFINE i == conn[t].it
  <1>1. cache.refcount[i] # 0
    BY HeldNow DEF Strong, Carries
  <1>2. i # x
    BY <1>1 DEF Carries, Unheld
  <1>3. conn[s].at = "nread" => i # conn[s].it
    BY DEF Strong, Alone
  <1>4. j = Null => i # j
    BY ItemsAssumption
  <1> QED
    BY <1>2, <1>3, <1>4 DEF Carries

\* The answers of the other connections go on.
LEMMA ReadsStay ==
    ASSUME Strong, Answered, IInv', cache'.halted = "no", NEW s \in Conns, NEW x, NEW j,
           Carries(s, x, j), Shows(s, x), NEW t \in Conns \ {s}
    PROVE  Reads(t)'
  <1> DEFINE i == conn[t].it
             c == reply[t].cas_id
  <1>1. /\ conn'[t] = conn[t] /\ reply'[t] = reply[t] /\ Reads(t)
        /\ writing' = writing /\ overwritten' = overwritten
    BY DEF Carries, Strong
  <1>2. ASSUME Reading(t) PROVE cache'.cas_id[i] = cache.cas_id[i]
    <2>1. conn[t].at \in {"update", "remove"}
      BY <1>1, <1>2 DEF Reads
    <2>2. i \in Items
      BY <2>1 DEF Strong, IInv, ConnOK
    <2>3. i # j
      BY <2>2, OthersItem
    <2>4. i \in Seen'
      BY <1>1, <1>2 DEF Seen, Reading
    <2>5. Untouched(cache, cache', i)
      BY <2>3, <2>4, SeenStays
    <2> QED
      BY <2>5 DEF Untouched
  <1>3. c # 0 => stored'[c] = stored[c]
    <2>1. c \in 0 .. Len(stored) /\ Len(stored) \in Nat
      BY StoredStays DEF Answered, Answer
    <2>2. c # 0 => c \in 1 .. Len(stored)
      BY <2>1
    <2> QED
      BY <2>2, StoredStays
  <1> QED
    BY <1>1, <1>2, <1>3 DEF Reads, Reading

\* So do their storage commands.
LEMMA AloneStays ==
    ASSUME Strong, IInv', cache'.halted = "no", NEW s \in Conns, NEW x, NEW j,
           Carries(s, x, j), conn'[s].it \in {Null, conn[s].it, x} \cup cache.linked,
           NEW t \in Conns \ {s}
    PROVE  Alone(t)'
  <1> DEFINE i == conn[t].it
  <1>1. conn'[t] = conn[t] /\ reply'[t] = reply[t] /\ Alone(t)
    BY DEF Carries, Strong
  <1> SUFFICES ASSUME conn[t].at = "nread" PROVE Alone(t)'
    BY <1>1 DEF Alone
  <1>2. i \in Items
    BY DEF Strong, IInv, ConnOK
  <1>3. i # x /\ i # j
    BY <1>2, OthersItem
  <1>4. i \notin cache.linked /\ \A u \in Conns \ {t} : conn[u].it # i
    BY <1>1 DEF Alone
  <1>5. i \notin cache'.linked
    BY <1>2, <1>3, <1>4 DEF Carries, Stamps
  <1>6. \A u \in Conns \ {t} : conn'[u].it # i
    <2>1. conn'[s].it # i
      BY <1>2, <1>3, <1>4, ItemsAssumption
    <2>2. \A u \in Conns \ {s} : conn'[u] = conn[u]
      BY DEF Carries
    <2> QED
      BY <1>4, <2>1, <2>2
  <1>7. i \notin cache'.free
    BY <1>1, <1>2, HeldThen
  <1>8. cache'.cas_id[i] = cache.cas_id[i]
    BY <1>2, <1>3, <1>7 DEF Carries, Stamps, Untouched
  <1>9. cache'.key[i] = cache.key[i]
    <2>1. cache.refcount[i] # 0
      BY <1>2, HeldNow DEF Strong, Carries
    <2>2. cache'.key[i] \in {cache.key[i], Null}
      BY <1>2, <2>1 DEF Carries
    <2>3. cache'.key[i] \in Keys
      BY <1>2, <1>7 DEF IInv, Linked
    <2> QED
      BY <2>2, <2>3, ItemsAssumption
  <1> QED
    BY <1>1, <1>5, <1>6, <1>8, <1>9 DEF Alone

\* The connection's own new item.
LEMMA AloneNew ==
    ASSUME Strong, NEW s \in Conns, NEW x, NEW j, Carries(s, x, j),
           conn'[s].at = "nread" =>
              /\ x \in Items /\ conn'[s].it = x /\ x \notin cache'.linked
              /\ conn'[s].cmd = "cas" => /\ reply'[s].cas_id # 0
                                         /\ cache'.cas_id[x] = reply'[s].cas_id
                                         /\ cache'.key[x] = conn'[s].key
    PROVE  Alone(s)'
  <1> SUFFICES ASSUME conn'[s].at = "nread" PROVE Alone(s)'
    BY DEF Alone
  <1>1. ASSUME NEW t \in Conns \ {s} PROVE conn'[t].it # x
    <2>1. conn'[t] = conn[t]
      BY DEF Carries
    <2>2. conn[t].it \in Items => conn[t].it # x
      BY OthersItem
    <2> QED
      BY <2>1, <2>2
  <1> QED
    BY <1>1 DEF Alone

\* What was sent stays sent.
LEMMA AnsweredStays ==
    ASSUME Answered, NEW z \in Texts, stored' = stored \/ stored' = Append(stored, z),
           overwritten \subseteq overwritten', overwritten' \subseteq 1 .. Len(stored'),
           reply' = [t \in Conns |-> reply'[t]],
           NEW s \in Conns, \A t \in Conns \ {s} : reply'[t] = reply[t],
           \/ reply'[s] = reply[s]
           \/ reply'[s] = [key |-> reply'[s].key, cas_id |-> 0, text |-> <<>>]
           \/ stored' = stored /\ overwritten' = overwritten /\ Answer(reply'[s])
    PROVE  Answered'
  <1>1. /\ stored' \in Seq(Texts) /\ Len(stored') >= Len(stored) /\ Len(stored) \in Nat
        /\ Len(stored') \in Nat /\ \A c \in 1 .. Len(stored) : stored'[c] = stored[c]
    BY Recalls DEF Answered
  <1>3. ASSUME NEW t \in Conns PROVE Answer(reply[t])'
    <2>1. CASE reply'[t] = reply[t]
      <3>1. Answer(reply[t])
        BY DEF Answered
      <3>2. /\ reply[t].cas_id \in 0 .. Len(stored)
            /\ reply[t] = [key |-> reply[t].key, cas_id |-> reply[t].cas_id, text |-> reply[t].text]
            /\ reply[t].text \in Texts
            /\ reply[t].cas_id # 0 /\ reply[t].cas_id \notin overwritten
               => IsPrefix(reply[t].text, stored[reply[t].cas_id])
        BY <3>1 DEF Answer
      <3> DEFINE c == reply[t].cas_id
      <3>3. c \in 0 .. Len(stored') /\ (c # 0 => c \in 1 .. Len(stored))
        BY <1>1, <3>2
      <3>4. c # 0 => stored'[c] = stored[c]
        BY <1>1, <3>3
      <3> QED
        BY <2>1, <3>2, <3>3, <3>4 DEF Answer
    <2>2. CASE t = s /\ reply'[s] = [key |-> reply'[s].key, cas_id |-> 0, text |-> <<>>]
      <3>1. reply'[s].cas_id = 0 /\ reply'[s].text = <<>>
        BY <2>2
      <3>2. <<>> \in Texts
        BY DEF Texts
      <3>3. 0 \in 0 .. Len(stored')
        BY <1>1
      <3>4. reply'[s] = [key |-> reply'[s].key, cas_id |-> reply'[s].cas_id, text |-> reply'[s].text]
        BY <2>2, <3>1
      <3> QED
        BY <2>2, <3>1, <3>2, <3>3, <3>4 DEF Answer
    <2>3. CASE t = s /\ stored' = stored /\ overwritten' = overwritten /\ Answer(reply'[s])
      BY <2>3 DEF Answer
    <2> QED
      BY <2>1, <2>2, <2>3
  <1> QED
    BY <1>1, <1>3 DEF Answered

\* A step with the lock that keeps what its connection was sent keeps all.
LEMMA CarriesOn ==
    ASSUME Strong, Answered, IInv', Fit', NEW s \in Conns, NEW x, NEW j,
           Carries(s, x, j), Shows(s, x),
           conn'[s].it \in {Null, conn[s].it, x} \cup cache.linked,
           conn'[s].at = "nread" =>
              /\ x \in Items /\ conn'[s].it = x /\ x \notin cache'.linked
              /\ conn'[s].cmd = "cas" => /\ reply'[s].cas_id # 0
                                         /\ cache'.cas_id[x] = reply'[s].cas_id
                                         /\ cache'.key[x] = conn'[s].key,
           \/ reply'[s] = reply[s]
           \/ reply'[s] = [key |-> reply'[s].key, cas_id |-> 0, text |-> <<>>],
           cache'.halted = "no" => Reads(s)'
    PROVE  CInv'
  <1>1. Shape(cache')
    BY DEF Fit, Tabled
  <1>2. Answered'
    <2>1. /\ overwritten' = overwritten /\ reply' = [t \in Conns |-> reply'[t]]
          /\ \A t \in Conns \ {s} : reply'[t] = reply[t]
          /\ stored' = IF j = Null THEN stored ELSE Append(stored, cache'.data[j])
      BY DEF Carries
    <2>2. \E z \in Texts : stored' = stored \/ stored' = Append(stored, z)
      <3>1. CASE j = Null
        <4>1. <<>> \in Texts
          BY DEF Texts
        <4> QED
          BY <2>1, <3>1, <4>1
      <3>2. CASE j # Null
        <4>1. cache'.data[j] \in Texts
          BY <3>2, NewData DEF Carries, Strong
        <4> QED
          BY <2>1, <3>2, <4>1
      <3> QED
        BY <3>1, <3>2
    <2>3. overwritten' \subseteq 1 .. Len(stored')
      <3>1. overwritten \subseteq 1 .. Len(stored) /\ Len(stored) \in Nat /\ Len(stored') >= Len(stored)
            /\ stored' \in Seq(Texts)
        BY StoredStays DEF Answered
      <3>2. Len(stored') \in Nat
        BY <3>1
      <3> QED
        BY <2>1, <3>1, <3>2
    <2> QED
      BY <2>1, <2>2, <2>3, AnsweredStays
  <1>3. ASSUME cache'.halted = "no" PROVE Strong'
    <2>1. Named'
      BY <1>3, NamedStays
    <2>2. Inplace'
      BY DEF Carries, Inplace
    <2>3. \A t \in Conns : Alone(t)' /\ Reads(t)'
      BY <1>3, AloneStays, AloneNew, ReadsStay
    <2> QED
      BY <2>1, <2>2, <2>3 DEF Strong
  <1>4. Shape(cache)'
    BY <1>1 DEF Shape
  <1> QED
    BY <1>2, <1>3, <1>4 DEF CInv

\* How a connection goes on, and the others do not.
LEMMA ConnGoes ==
    ASSUME IInv, NEW s \in Conns
    PROVE  /\ \A at : Step(s, at) =>
                 /\ conn'[s].at = at /\ conn'[s].cmd = conn[s].cmd
                 /\ conn'[s].it = conn[s].it /\ conn'[s].key = conn[s].key
                 /\ \A t \in Conns \ {s} : conn'[t] = conn[t]
           /\ Done(s) => conn'[s] = Idle /\ \A t \in Conns \ {s} : conn'[t] = conn[t]
           /\ \A at, cmd, k, i : Goto(s, at, cmd, k, i) =>
                 /\ conn'[s].at = at /\ conn'[s].cmd = cmd /\ conn'[s].it = i /\ conn'[s].key = k
                 /\ \A t \in Conns \ {s} : conn'[t] = conn[t]
  <1>1. conn = [t \in Conns |-> conn[t]] /\ ConnOK(conn[s])
    BY DEF IInv
  <1>2. ASSUME NEW at, Step(s, at)
        PROVE  /\ conn'[s].at = at /\ conn'[s].cmd = conn[s].cmd
               /\ conn'[s].it = conn[s].it /\ conn'[s].key = conn[s].key
               /\ \A t \in Conns \ {s} : conn'[t] = conn[t]
    <2> DEFINE p == [conn[s] EXCEPT !.at = at]
    <2>1. conn' = [conn EXCEPT ![s] = p]
      BY <1>1, <1>2 DEF Step
    <2>2. p.at = at /\ p.cmd = conn[s].cmd /\ p.it = conn[s].it /\ p.key = conn[s].key
      BY <1>1 DEF ConnOK
    <2> HIDE DEF p
    <2>3. conn'[s] = p /\ \A t \in Conns \ {s} : conn'[t] = conn[t]
      BY <1>1, <2>1
    <2> QED
      BY <2>2, <2>3
  <1>3. Done(s) => conn'[s] = Idle /\ \A t \in Conns \ {s} : conn'[t] = conn[t]
    BY <1>1 DEF Done
  <1>4. ASSUME NEW at, NEW cmd, NEW k, NEW i, Goto(s, at, cmd, k, i)
        PROVE  /\ conn'[s].at = at /\ conn'[s].cmd = cmd /\ conn'[s].it = i /\ conn'[s].key = k
               /\ \A t \in Conns \ {s} : conn'[t] = conn[t]
    <2> DEFINE p == [at |-> at, cmd |-> cmd, key |-> k, it |-> i, arg |-> 0]
    <2>1. conn' = [conn EXCEPT ![s] = p]
      BY <1>4 DEF Goto
    <2>2. p.at = at /\ p.cmd = cmd /\ p.it = i /\ p.key = k
      OBVIOUS
    <2> HIDE DEF p
    <2>3. conn'[s] = p /\ \A t \in Conns \ {s} : conn'[t] = conn[t]
      BY <1>1, <2>1
    <2> QED
      BY <2>2, <2>3
  <1> QED
    BY <1>2, <1>3, <1>4

\* The ghost gets the data of the item that is linked.
LEMMA RecordedAs ==
    ASSUME Fit, NEW x, NEW j, Stamps(cache, cache', x, j), j # Null => j \in Items, Recorded
    PROVE  /\ overwritten' = overwritten
           /\ stored' = IF j = Null THEN stored ELSE Append(stored, cache'.data[j])
  <1>1. cache.last_cas \in Nat
    BY DEF Fit, Tabled
  <1>2. CASE j = Null
    BY <1>2 DEF Recorded, Stamps
  <1>3. CASE j # Null
    <2>1. /\ cache'.last_cas = cache.last_cas + 1 /\ cache'.cas_id[j] = cache'.last_cas
          /\ x \in {Null, j} /\ j \in Items
      BY <1>3 DEF Stamps
    <2>2. ASSUME NEW i \in Items, cache'.cas_id[i] = cache'.last_cas PROVE i = j
      <3> SUFFICES ASSUME i # j PROVE FALSE
        OBVIOUS
      <3>1. i \in Items \ {x, j}
        BY <2>1, ItemsAssumption
      <3>2. cache'.cas_id[i] \in {cache.cas_id[i], 0}
        BY <3>1 DEF Stamps
      <3>3. cache.cas_id[i] \in Nat /\ cache.cas_id[i] <= cache.last_cas
        BY DEF Fit, Worded
      <3> DEFINE l == cache.last_cas
                 d == cache'.cas_id[i]
                 b == cache.cas_id[i]
      <3>4. d = l + 1 /\ d \in {b, 0} /\ b \in Nat /\ b <= l /\ l \in Nat
        BY <1>1, <2>1, <2>2, <3>2, <3>3
      <3> HIDE DEF l, d, b
      <3> QED
        BY <3>4
    <2>3. (CHOOSE i \in Items : cache'.cas_id[i] = cache'.last_cas) = j
      BY <2>1, <2>2
    <2>4. cache'.last_cas # cache.last_cas
      <3> DEFINE l == cache.last_cas
                 d == cache'.last_cas
      <3>1. d = l + 1 /\ l \in Nat
        BY <1>1, <2>1
      <3> HIDE DEF l, d
      <3>2. d # l
        BY <3>1
      <3> QED
        BY <3>2 DEF l, d
    <2> DEFINE ch == CHOOSE i \in Items : cache'.cas_id[i] = cache'.last_cas
    <2>5. overwritten' = overwritten /\ stored' = Append(stored, cache'.data[ch])
      BY <2>4 DEF Recorded
    <2>6. ch = j
      BY <2>3
    <2> HIDE DEF ch
    <2> QED
      BY <1>3, <2>5, <2>6
  <1> QED
    BY <1>2, <1>3

\* The cache keeps its types.
LEMMA FitThen ==
    ASSUME Fit, Tabled(cache'), NEW x, NEW j, Stamps(cache, cache', x, j),
           Listed(cache') \/ Tidy(cache'), UNCHANGED clock
    PROVE  Fit'
  <1>1. Worded(cache')
    BY DEF Fit, Stamps
  <1>2. Listed(cache')
    BY TidyListed
  <1>3. Tabled(cache)'
    BY DEF Tabled, Typed, Shape
  <1>4. Worded(cache)'
    BY <1>1 DEF Worded
  <1>5. Listed(cache)'
    BY <1>2 DEF Listed, Tidy, Trim, Ordered, Lists, clock
  <1> QED
    BY <1>3, <1>4, <1>5 DEF Fit

\* A step with the lock.
LEMMA LockedStep ==
    ASSUME Strong, Answered, cache.halted = "no", NEW s \in Conns, NEW x, NEW j,
           Stamps(cache, cache', x, j), Unheld(x),
           j # Null => j \in Items /\ (j = x \/ (conn[s].at = "nread" /\ j = conn[s].it)),
           \/ \E h, new : Acts(h, new)
           \/ UNCHANGED clock /\ Tabled(cache') /\ cache'.key = cache.key,
           Listed(cache') \/ Tidy(cache'),
           cache_lock_free, writing' = writing,
           Recorded \/ (j = Null /\ UNCHANGED given),
           reply' = reply \/ \E r : reply' = [reply EXCEPT ![s] = r],
           \A t \in Conns \ {s} : conn'[t] = conn[t]
    PROVE  Fit' /\ Carries(s, x, j)
  <1>1. UNCHANGED clock /\ Tabled(cache')
    BY DEF Acts, Does
  <1>2. Fit'
    BY <1>1, FitThen DEF Strong
  <1>3. /\ overwritten' = overwritten
        /\ stored' = IF j = Null THEN stored ELSE Append(stored, cache'.data[j])
    BY RecordedAs DEF Strong, given
  <1>4. /\ \A t \in Conns \ {s} : reply'[t] = reply[t]
        /\ reply' = [t \in Conns |-> reply'[t]]
    BY DEF Answered
  <1>5. \A i \in Items : cache.refcount[i] # 0 => cache'.key[i] \in {cache.key[i], Null}
    <2>1. CASE \E h, new : Acts(h, new)
      BY <2>1 DEF Acts, Does, Unheld
    <2>2. CASE cache'.key = cache.key
      BY <2>2
    <2> QED
      BY <2>1, <2>2
  <1> QED
    BY <1>2, <1>3, <1>4, <1>5 DEF Carries, cache_lock_free

\* An answer that has ended, while the item's name is as it was.
LEMMA ReadsEnded ==
    ASSUME Strong, Answered, NEW s \in Conns, NEW x, NEW j, Carries(s, x, j), ~Reading(s),
           conn'[s].at # "update", conn'[s].cmd # "get", reply'[s] = reply[s]
    PROVE  Reads(s)'
  <1> DEFINE c == reply[s].cas_id
  <1>1. c # 0 => stored'[c] = stored[c]
    <2>1. c \in 0 .. Len(stored) /\ Len(stored) \in Nat
      BY StoredStays DEF Answered, Answer
    <2>2. c # 0 => c \in 1 .. Len(stored)
      BY <2>1
    <2> QED
      BY <2>2, StoredStays
  <1> QED
    BY <1>1 DEF Reads, Reading, Strong, Carries

----------------------------------------------------------------------------
(* The steps of gets and cas with the lock *)

\* The client has nothing of an answer yet.
Anew(s) == \E k : reply' = [reply EXCEPT ![s] = [key |-> k, cas_id |-> 0, text |-> <<>>]]

\* A command without an answer on its way, or one whose answer begins.
Asked(s) == Anew(s) \/ (reply' = reply /\ ~Reading(s))

\* A lookup leads to an item that is linked.
LEMMA LookupLeads ==
    ASSUME IInv, Fit, cache.halted = "no", NEW s \in Conns, NEW cmd, NEW k \in Keys, NEW next,
           Lookup(s, cmd, k, next)
    PROVE  Done(s) \/ \E i \in cache.linked : Goto(s, next, cmd, k, i)
  <1> DEFINE g == do_item_get_notedeleted(cache, k)
  <1>1. Finds(cache, g, k)
    BY GetDoes DEF Fit
  <1>2. Done(s) \/ (g.it # Null /\ Goto(s, next, cmd, k, g.it))
    BY DEF Lookup
  <1> HIDE DEF g
  <1>3. g.it # Null => g.it \in cache.linked
    BY <1>1 DEF Finds, IInv, Linked
  <1> QED
    BY <1>2, <1>3

\* The answer of the connection after a step that leaves it nothing to send.
LEMMA AskedReads ==
    ASSUME Strong, Answered, NEW s \in Conns, NEW x, NEW j, Carries(s, x, j), Asked(s),
           conn'[s].cmd = "get" => conn'[s].at = "update" /\ Anew(s),
           conn'[s].at = "update" => conn'[s].cmd = "get"
    PROVE  Reads(s)'
  <1>1. CASE reply' = reply /\ ~Reading(s) /\ ~Anew(s)
    BY <1>1, ReadsEnded
  <1>2. ASSUME NEW k, reply' = [reply EXCEPT ![s] = [key |-> k, cas_id |-> 0, text |-> <<>>]]
        PROVE  Reads(s)'
    <2> DEFINE r == [key |-> k, cas_id |-> 0, text |-> <<>>]
    <2>1. reply' = [reply EXCEPT ![s] = r]
      BY <1>2
    <2>2. r.cas_id = 0 /\ r.text = <<>>
      OBVIOUS
    <2> HIDE DEF r
    <2>3. reply'[s] = r
      BY <2>1 DEF Answered
    <2> QED
      BY <2>2, <2>3 DEF Reads, Reading
  <1> QED
    BY <1>1, <1>2 DEF Asked, Anew

\* The answer's record.
LEMMA AskedReply ==
    ASSUME Answered, NEW s \in Conns, Asked(s)
    PROVE  /\ reply' = reply \/ \E r : reply' = [reply EXCEPT ![s] = r]
           /\ \/ reply'[s] = reply[s]
              \/ reply'[s] = [key |-> reply'[s].key, cas_id |-> 0, text |-> <<>>]
  <1>1. ASSUME NEW k, reply' = [reply EXCEPT ![s] = [key |-> k, cas_id |-> 0, text |-> <<>>]]
        PROVE  reply'[s] = [key |-> reply'[s].key, cas_id |-> 0, text |-> <<>>]
    <2> DEFINE r == [key |-> k, cas_id |-> 0, text |-> <<>>]
    <2>1. reply' = [reply EXCEPT ![s] = r]
      BY <1>1
    <2>2. r = [key |-> r.key, cas_id |-> 0, text |-> <<>>]
      OBVIOUS
    <2> HIDE DEF r
    <2>3. reply'[s] = r
      BY <2>1 DEF Answered
    <2> QED
      BY <2>2, <2>3
  <1> QED
    BY <1>1 DEF Asked, Anew

\* The steps that begin with a lookup, and go on with its item.
LEMMA Looks ==
    ASSUME Strong, Answered, cache.halted = "no", NEW s \in Conns, NEW cmd, NEW k \in Keys,
           NEW next, Lookup(s, cmd, k, next), IInv', Acts(Null, Null),
           Stamps(cache, cache', Null, Null), Tidy(cache'),
           cache_lock_free, writing' = writing, Recorded \/ UNCHANGED given, Asked(s),
           next \notin {"nread", "idle"}, next = "update" <=> cmd = "get",
           cmd = "get" => Anew(s)
    PROVE  CInv'
  <1>1. \/ conn'[s] = Idle
        \/ /\ conn'[s].at = next /\ conn'[s].cmd = cmd /\ conn'[s].it \in cache.linked
    BY LookupLeads, ConnGoes DEF Strong
  <1>2. \A t \in Conns \ {s} : conn'[t] = conn[t]
    BY LookupLeads, ConnGoes DEF Strong
  <1>3. Unheld(Null)
    BY ItemsAssumption DEF Unheld
  <1>4. Fit' /\ Carries(s, Null, Null)
    BY <1>2, <1>3, AskedReply, LockedStep
  <1>5. Idle.at = "idle" /\ Idle.cmd = "none" /\ Idle.it = Null
    BY DEF Idle
  <1>6. cache.linked \subseteq Items /\ Null \notin Items
    BY ItemsAssumption DEF Strong, Fit, Tabled, Typed
  <1>7. Shows(s, Null)
    BY <1>1, <1>5, <1>6 DEF Shows, Seen
  <1>8. conn'[s].it \in {Null} \cup cache.linked /\ conn'[s].at # "nread"
    BY <1>1, <1>5
  <1>9. Reads(s)'
    BY <1>1, <1>4, <1>5, AskedReads
  <1> QED
    BY <1>4, <1>7, <1>8, <1>9, AskedReply, CarriesOn

\* Who reads is between the lookup and the release.
LEMMA NotReading ==
    ASSUME Strong, NEW s \in Conns, conn[s].at \notin {"update", "remove"}
    PROVE  ~Reading(s)
  BY DEF Strong, Reads

\* gets looks the key up.
LEMMA GetsOn ==
    ASSUME Strong, Answered, NoneOld, NEW s \in Conns, NEW k \in Keys, gets(s, k)
    PROVE  CInv'
  <1>1. /\ process_get_command(s, k) /\ cache_lock_free /\ writing' = writing
        /\ UNCHANGED given
    BY DEF gets
  <1>2. cache.halted = "no" /\ Lookup(s, "get", k, "update")
    BY <1>1 DEF process_get_command, Asks, At
  <1>3. IInv' /\ Acts(Null, Null) /\ Stamps(cache, cache', Null, Null) /\ Tidy(cache')
    BY <1>1, AskStep, AskActs, AskStamps DEF Strong, Fit
  <1>4. Anew(s)
    <2> DEFINE r == [NoReply EXCEPT !.key = k]
               q == [key |-> k, cas_id |-> 0, text |-> <<>>]
    <2>1. reply' = [reply EXCEPT ![s] = r]
      BY DEF gets
    <2>2. r = q
      BY DEF NoReply
    <2> QED
      BY <2>1, <2>2 DEF Anew
  <1> QED
    BY <1>1, <1>2, <1>3, <1>4, Looks DEF Asked

\* delete, incr, decr, and a set without memory look theirs up.
LEMMA AsksOn ==
    ASSUME Strong, Answered, NoneOld, NEW s \in Conns,
           \/ alloc_failed(s)
           \/ \E k \in Keys : process_delete_command(s, k)
           \/ \E k \in Keys, cmd \in Arithmetic : process_arithmetic_command(s, cmd, k),
           cache_lock_free, Recorded, UNCHANGED <<reply, writing>>
    PROVE  CInv'
  <1>1. /\ cache.halted = "no" /\ conn[s].at \in {"idle", "alloc failed"}
        /\ \E k \in Keys : \E cmd, next :
              /\ Lookup(s, cmd, k, next) /\ next \in {"unlink", "defer", "delta"}
              /\ cmd \in {"delete", "delete later"} \cup Arithmetic \cup {conn[s].cmd}
    <2>1. CASE alloc_failed(s)
      <3>1. /\ cache.halted = "no" /\ conn[s].at = "alloc failed"
            /\ Lookup(s, conn[s].cmd, conn[s].key, "unlink")
        BY <2>1 DEF alloc_failed, At
      <3>2. conn[s].key \in Keys
        BY <3>1 DEF Strong, IInv, ConnOK
      <3> QED
        BY <3>1, <3>2
    <2>2. CASE \E k \in Keys : process_delete_command(s, k)
      BY <2>2 DEF process_delete_command, Asks, At
    <2>3. CASE \E k \in Keys, cmd \in Arithmetic : process_arithmetic_command(s, cmd, k)
      BY <2>3 DEF process_arithmetic_command, Asks, At
    <2> QED
      BY <2>1, <2>2, <2>3
  <1>2. IInv' /\ Acts(Null, Null) /\ Stamps(cache, cache', Null, Null) /\ Tidy(cache')
    BY AskStep, AllocFailedStep, AskActs, AskStamps DEF Strong, Fit
  <1>3. ~Reading(s)
    BY <1>1, NotReading
  <1>3a. PICK k \in Keys : \E cmd, next :
              /\ Lookup(s, cmd, k, next) /\ next \in {"unlink", "defer", "delta"}
              /\ cmd \in {"delete", "delete later"} \cup Arithmetic \cup {conn[s].cmd}
    BY <1>1
  <1>4. PICK cmd, next :
              /\ Lookup(s, cmd, k, next) /\ next \in {"unlink", "defer", "delta"}
              /\ cmd \in {"delete", "delete later"} \cup Arithmetic \cup {conn[s].cmd}
    BY <1>3a
  <1>5. cmd # "get"
    BY <1>3, <1>4 DEF Reading, Arithmetic
  <1>6. Asked(s) /\ writing' = writing
    BY <1>3 DEF Asked
  <1> QED
    BY <1>1, <1>2, <1>4, <1>5, <1>6, Looks

\* gets moves the item to the head.
LEMMA MovesOn ==
    ASSUME Strong, Answered, NoneOld, NEW s \in Conns, gets_update(s)
    PROVE  CInv'
  <1> DEFINE i == conn[s].it
             c == reply[s].cas_id
  <1>1. /\ item_update(s) /\ cache_lock_free /\ writing' = writing /\ reply' = reply
        /\ UNCHANGED given /\ c # 0
    BY DEF gets_update
  <1>2. cache.halted = "no" /\ conn[s].at = "update" /\ Step(s, "remove")
    BY <1>1 DEF item_update, At
  <1>3. /\ conn'[s].at = "remove" /\ conn'[s].cmd = conn[s].cmd /\ conn'[s].it = i
        /\ \A t \in Conns \ {s} : conn'[t] = conn[t]
    BY <1>2, ConnGoes DEF Strong
  <1>4. IInv' /\ Stamps(cache, cache', Null, Null) /\ Tidy(cache')
    BY <1>1, UpdateStep, MoveStamps DEF Strong, Spares
  <1>5. UNCHANGED clock /\ Tabled(cache') /\ cache'.key = cache.key
    BY <1>1, MoveActs DEF Strong, Fit
  <1>6. Unheld(Null)
    BY ItemsAssumption DEF Unheld
  <1>7. Fit' /\ Carries(s, Null, Null)
    BY <1>1, <1>2, <1>3, <1>4, <1>5, <1>6, LockedStep
  <1>8. Reads(s) /\ Reading(s)
    BY <1>2 DEF Strong, Reads
  <1>9. i \in Items /\ i \in Seen /\ i # Null
    BY <1>2, <1>8, ItemsAssumption DEF Strong, IInv, ConnOK, Seen
  <1>10. Shows(s, Null)
    BY <1>3, <1>9 DEF Shows
  <1>11. ASSUME cache'.halted = "no" PROVE Reads(s)'
    <2>1. i \in Seen'
      BY <1>3, <1>8 DEF Seen, Reading
    <2>2. cache'.cas_id[i] = cache.cas_id[i]
      BY <1>4, <1>7, <1>9, <1>10, <1>11, <2>1, SeenStays DEF Untouched
    <2>3. writing'.it = Null
      BY <1>1 DEF cache_lock_free, NoWrite
    <2>4. conn'[s].at = "remove" /\ Reading(s)' /\ reply'[s] = reply[s] /\ overwritten' = overwritten
      BY <1>1, <1>3, <1>8 DEF Reading, given
    <2> QED
      BY <1>1, <1>3, <1>8, <1>9, <2>2, <2>3, <2>4 DEF Reads
  <1>12. conn'[s].it \in {conn[s].it} /\ conn'[s].at # "nread" /\ reply'[s] = reply[s]
    BY <1>1, <1>3
  <1> QED
    BY <1>4, <1>7, <1>10, <1>11, <1>12, CarriesOn

\* A text that is the beginning of another and as long is that text.
LEMMA AllSent ==
    ASSUME NEW t \in Texts, NEW u \in Texts, IsPrefix(t, u), Len(t) >= Len(u)
    PROVE  t = u
  <1>1. Len(t) = Len(u) /\ Len(t) \in Nat
    BY DEF IsPrefix, Texts
  <1>2. \A n \in 1 .. Len(t) : t[n] = u[n]
    BY <1>1 DEF IsPrefix, Texts
  <1> QED
    BY <1>1, <1>2 DEF Texts

\* A reference is released: after all was sent, or without an answer.
LEMMA ReleaseReads ==
    ASSUME Strong, Answered, NEW s \in Conns, release(s), Carries(s, Null, Null),
           conn'[s] = Idle
    PROVE  Reads(s)'
  <1> DEFINE i == conn[s].it
             c == reply[s].cas_id
  <1>1. Idle.at = "idle" /\ Idle.cmd = "none"
    BY DEF Idle
  <1>2. CASE ~Reading(s)
    <2>1. reply' = reply
      BY <1>2 DEF release
    <2> QED
      BY <1>1, <1>2, <2>1, ReadsEnded
  <1>3. CASE Reading(s) /\ At(s, "remove") /\ Sent(s)
    <2>1. reply' = reply /\ conn[s].at = "remove" /\ Reads(s) /\ writing = NoWrite
      BY <1>3 DEF release, At, Strong, Carries
    <2>2. i \in Seen /\ i \in Items
      BY <1>3, <2>1 DEF Seen, Strong, IInv, ConnOK
    <2>3. c # 0 /\ (c \notin overwritten => c = cache.cas_id[i])
      BY <1>3, <2>1 DEF Reads
    <2>4. i # writing.it
      BY <2>1, <2>2, ItemsAssumption DEF NoWrite
    <2>5. cache.data[i] = stored[cache.cas_id[i]]
      BY <2>2, <2>4 DEF Strong, Named
    <2>6. stored' = stored /\ overwritten' = overwritten
      BY DEF release, given
    <2>7. c \notin overwritten => reply[s].text = stored[c]
      <3> SUFFICES ASSUME c \notin overwritten PROVE reply[s].text = stored[c]
        OBVIOUS
      <3>1. Answer(reply[s]) /\ stored \in Seq(Texts)
        BY DEF Answered
      <3>2. IsPrefix(reply[s].text, stored[c]) /\ reply[s].text \in Texts
        BY <2>3, <3>1 DEF Answer
      <3>3. c \in 0 .. Len(stored) /\ Len(stored) \in Nat
        BY <3>1 DEF Answer
      <3>4. c \in 1 .. Len(stored)
        BY <2>3, <3>3
      <3>5. stored[c] \in Texts
        BY <3>1, <3>4
      <3>6. Len(reply[s].text) >= Len(stored[c])
        BY <1>3, <2>3, <2>5 DEF Sent
      <3> QED
        BY <3>2, <3>5, <3>6, AllSent
    <2> QED
      BY <1>1, <2>1, <2>6, <2>7 DEF Reads, Reading
  <1>4. CASE Reading(s) /\ ~(At(s, "remove") /\ Sent(s))
    <2>1. reply'[s] = NoReply
      BY <1>4 DEF release, Answered
    <2>2. NoReply.cas_id = 0
      BY DEF NoReply
    <2> QED
      BY <1>1, <2>1, <2>2 DEF Reads, Reading
  <1> QED
    BY <1>2, <1>3, <1>4

\* ... and the command ends.
LEMMA ReleasesOn ==
    ASSUME Strong, Answered, NoneOld, NEW s \in Conns, release(s)
    PROVE  CInv'
  <1>1. /\ item_remove(s) /\ cache_lock_free /\ writing' = writing /\ UNCHANGED given
        /\ reply' = reply \/ reply' = [reply EXCEPT ![s] = NoReply]
    BY DEF release
  <1>2. cache.halted = "no" /\ Done(s)
    BY <1>1 DEF item_remove, At
  <1>3. conn'[s] = Idle /\ \A t \in Conns \ {s} : conn'[t] = conn[t]
    BY <1>2, ConnGoes DEF Strong
  <1>4. IInv' /\ Stamps(cache, cache', Null, Null) /\ Tidy(cache') /\ Acts(Null, Null)
    BY <1>1, RemoveStep, EndStamps, EndActs DEF Strong, Fit
  <1>5. Unheld(Null)
    BY ItemsAssumption DEF Unheld
  <1>6. Fit' /\ Carries(s, Null, Null)
    BY <1>1, <1>2, <1>3, <1>4, <1>5, LockedStep
  <1>7. Idle.at = "idle" /\ Idle.cmd = "none" /\ Idle.it = Null
    BY DEF Idle
  <1>8. Shows(s, Null)
    BY <1>3, <1>7 DEF Shows
  <1>9. Reads(s)'
    BY <1>3, <1>6, ReleaseReads
  <1>10. \/ reply'[s] = reply[s]
         \/ reply'[s] = [key |-> reply'[s].key, cas_id |-> 0, text |-> <<>>]
    <2>1. NoReply = [key |-> NoReply.key, cas_id |-> 0, text |-> <<>>]
      BY DEF NoReply
    <2> HIDE DEF NoReply
    <2> QED
      BY <1>1, <2>1 DEF Answered
  <1>11. conn'[s].it = Null /\ conn'[s].at # "nread"
    BY <1>3, <1>7
  <1> QED
    BY <1>4, <1>6, <1>8, <1>9, <1>10, <1>11, CarriesOn

\* A step to "remove" of a command that sends nothing of the item.
LEMMA EndsOn ==
    ASSUME Strong, Answered, NoneOld, cache.halted = "no", NEW s \in Conns, IInv',
           conn[s].at \in {"unlink", "nread", "delta"}, Step(s, "remove"),
           NEW x, NEW j, Stamps(cache, cache', x, j), Unheld(x),
           j # Null => j \in Items /\ (j = x \/ (conn[s].at = "nread" /\ j = conn[s].it)),
           \E h, new : Acts(h, new), Listed(cache') \/ Tidy(cache'),
           cache_lock_free, Recorded, UNCHANGED <<reply, writing>>
    PROVE  CInv'
  <1>1. /\ conn'[s].at = "remove" /\ conn'[s].cmd = conn[s].cmd /\ conn'[s].it = conn[s].it
        /\ \A t \in Conns \ {s} : conn'[t] = conn[t]
    BY ConnGoes DEF Strong
  <1>2. Fit' /\ Carries(s, x, j)
    BY <1>1, LockedStep
  <1>3. ~Reading(s)
    BY NotReading
  <1>4. Shows(s, x)
    BY <1>1, <1>3 DEF Shows, Reading
  <1>5. Reads(s)'
    BY <1>1, <1>2, <1>3, ReadsEnded DEF Reading
  <1> QED
    BY <1>1, <1>2, <1>4, <1>5, CarriesOn

\* The item is unlinked.
LEMMA UnlinksOn ==
    ASSUME Strong, Answered, NoneOld, NEW s \in Conns, item_unlink(s),
           cache_lock_free, Recorded, UNCHANGED <<reply, writing>>
    PROVE  CInv'
  <1>1. cache.halted = "no" /\ conn[s].at = "unlink" /\ Step(s, "remove")
    BY DEF item_unlink, At
  <1>2. IInv' /\ Stamps(cache, cache', Null, Null) /\ Tidy(cache') /\ Acts(Null, Null)
    BY UnlinkStep, EndStamps, EndActs DEF Strong, Fit
  <1>3. Unheld(Null)
    BY ItemsAssumption DEF Unheld
  <1> QED
    BY <1>1, <1>2, <1>3, EndsOn

\* The data of a storage command is there.
LEMMA CompletesOn ==
    ASSUME Strong, Answered, NoneOld, NEW s \in Conns, complete_nread(s),
           cache_lock_free, Recorded, UNCHANGED <<reply, writing>>
    PROVE  CInv'
  <1>1. cache.halted = "no" /\ conn[s].at = "nread" /\ Step(s, "remove")
    BY DEF complete_nread, At
  <1>2. /\ Listed(cache')
        /\ \E x : \E j \in Items \cup {Null} :
                 /\ Unheld(x) /\ x \in {Null, j} /\ j \in {Null, conn[s].it, x}
                 /\ Stamps(cache, cache', x, j)
    BY ReadStamps DEF Strong
  <1>3. IInv' /\ \E h, new : Acts(h, new)
    BY NreadStep, WriteActs DEF Strong, Fit
  <1>4. PICK x : \E j \in Items \cup {Null} :
                 /\ Unheld(x) /\ x \in {Null, j} /\ j \in {Null, conn[s].it, x}
                 /\ Stamps(cache, cache', x, j)
    BY <1>2
  <1>5. PICK j \in Items \cup {Null} :
                 /\ Unheld(x) /\ x \in {Null, j} /\ j \in {Null, conn[s].it, x}
                 /\ Stamps(cache, cache', x, j)
    BY <1>4
  <1> QED
    BY <1>1, <1>2, <1>3, <1>5, EndsOn

\* incr and decr, when they change nothing, or replace the item.
LEMMA AddsOn ==
    ASSUME Strong, Answered, NoneOld, NEW s \in Conns, add_delta_new(s)
    PROVE  CInv'
  <1> DEFINE i == conn[s].it
  <1>1. /\ cache.halted = "no" /\ conn[s].at = "delta" /\ Step(s, "remove")
        /\ cache_lock_free /\ Recorded /\ UNCHANGED <<reply, writing>>
        /\ cache' \in do_add_delta(cache, i, conn[s].cmd) /\ cache'.cas_id[i] = cache.cas_id[i]
    BY DEF add_delta_new, At, Cached
  <1>2. add_delta(s)
    BY DEF add_delta_new, add_delta, At
  <1>3. IInv' /\ \E h, new : Acts(h, new)
    BY <1>2, DeltaStep, WriteActs DEF Strong, Fit
  <1>4. /\ Listed(cache')
        /\ \/ \E x : \E j \in Items \cup {Null} :
                 Unheld(x) /\ j \in {Null, x} /\ Stamps(cache, cache', x, j)
           \/ /\ cache'.last_cas = cache.last_cas + 1 /\ cache'.cas_id[i] = cache'.last_cas
    BY <1>1, AddStamps DEF Strong
  <1>5. ~(cache'.last_cas = cache.last_cas + 1 /\ cache'.cas_id[i] = cache'.last_cas)
    <2> DEFINE l == cache.last_cas
               d == cache'.last_cas
               a == cache.cas_id[i]
    <2>1. i \in Items
      BY <1>1 DEF Strong, IInv, ConnOK
    <2>2. l \in Nat /\ a \in Nat /\ a <= l /\ cache'.cas_id[i] = a
      BY <1>1, <2>1 DEF Strong, Fit, Tabled, Worded
    <2> HIDE DEF l, d, a
    <2>3. ~(d = l + 1 /\ a = d)
      BY <2>2
    <2> QED
      BY <2>2, <2>3 DEF l, d
  <1>6. PICK x : \E j \in Items \cup {Null} :
                 Unheld(x) /\ j \in {Null, x} /\ Stamps(cache, cache', x, j)
    BY <1>4, <1>5
  <1>7. PICK j \in Items \cup {Null} :
                 Unheld(x) /\ j \in {Null, x} /\ Stamps(cache, cache', x, j)
    BY <1>6
  <1> QED
    BY <1>1, <1>3, <1>4, <1>7, EndsOn

\* The lock sections that Cache has whole.
LEMMA OthersOn ==
    ASSUME Strong, Answered, NoneOld, NEW s \in Conns, other(s)
    PROVE  CInv'
  <1>1. cache_lock_free /\ Recorded /\ UNCHANGED <<reply, writing>>
    BY DEF other
  <1>2. CASE item_unlink(s)
    BY <1>1, <1>2, UnlinksOn
  <1>3. CASE complete_nread(s)
    BY <1>1, <1>3, CompletesOn
  <1>4. CASE \/ alloc_failed(s)
             \/ \E k \in Keys : process_delete_command(s, k)
             \/ \E k \in Keys, cmd \in Arithmetic : process_arithmetic_command(s, cmd, k)
    BY <1>1, <1>4, AsksOn
  <1> QED
    BY <1>2, <1>3, <1>4 DEF other

\* The id a client sends was given to something, or is none.
LEMMA UniqueIs ==
    ASSUME Strong, Answered, NEW s \in Conns, NEW cmd
    PROVE  unique(s, cmd) \in 0 .. cache.last_cas
  <1>1. Answer(reply[s]) /\ Len(stored) = cache.last_cas /\ cache.last_cas \in Nat
    BY DEF Answered, Strong, Named, Fit, Tabled
  <1>2. reply[s].cas_id \in 0 .. cache.last_cas
    BY <1>1 DEF Answer
  <1>3. 0 \in 0 .. cache.last_cas
    BY <1>1
  <1> QED
    BY <1>2, <1>3 DEF unique

\* A storage command gets its item.
LEMMA AllocatesOn ==
    ASSUME Strong, Answered, NoneOld, NEW s \in Conns, NEW cmd \in Storage, NEW k \in Keys,
           NEW v \in Nat, update(s, cmd, k, v)
    PROVE  CInv'
  <1> DEFINE id == unique(s, cmd)
  <1>1. /\ process_update_command(s, cmd, k, v, 0, id) /\ cache_lock_free
        /\ cmd = "cas" => reply[s].cas_id # 0 /\ id = reply[s].cas_id
        /\ writing' = writing /\ reply' = reply /\ UNCHANGED given
    BY DEF update, unique
  <1>2. id \in 0 .. cache.last_cas
    BY UniqueIs
  <1> HIDE DEF id
  <1>3. cache.halted = "no" /\ conn[s].at = "idle"
    BY <1>1 DEF process_update_command, Asks, At
  <1>4. IInv'
    BY <1>1, StoreStep DEF Strong
  <1>5. \E h, new : Acts(h, new)
    <2>1. IInv /\ Tabled(cache) /\ 0 \in Int
      BY DEF Strong, Fit
    <2>2. \E new : Acts(Null, new)
      BY <1>1, <1>2, <2>1, UpdateActs
    <2> QED
      BY <2>2
  <1>6. /\ Tidy(cache')
        /\ \E x \in Spare(cache) :
              /\ Stamps(cache, cache', x, Null)
              /\ \/ /\ x \in Items /\ x \notin cache'.linked \cup cache'.free
                    /\ Goto(s, "nread", cmd, k, x)
                    /\ cache'.cas_id[x] = id /\ cache'.key[x] = k
                 \/ /\ x = Null
                    /\ Goto(s, "alloc failed", cmd, k, Null) \/ Done(s)
    <2>1. IInv /\ Fit /\ 0 \in Int
      BY DEF Strong
    <2> QED
      BY <1>1, <1>2, <2>1, SetStamps
  <1>7. PICK x \in Spare(cache) :
              /\ Stamps(cache, cache', x, Null)
              /\ \/ /\ x \in Items /\ x \notin cache'.linked \cup cache'.free
                    /\ Goto(s, "nread", cmd, k, x)
                    /\ cache'.cas_id[x] = id /\ cache'.key[x] = k
                 \/ /\ x = Null
                    /\ Goto(s, "alloc failed", cmd, k, Null) \/ Done(s)
    BY <1>6
  <1>8. Unheld(x)
    BY <1>3, SpareUnheld DEF Strong
  <1>9. Idle.at = "idle" /\ Idle.cmd = "none" /\ Idle.it = Null
    BY DEF Idle
  <1>10. /\ \A t \in Conns \ {s} : conn'[t] = conn[t]
         /\ conn'[s].cmd \in {cmd, "none"} /\ conn'[s].it \in {Null, x}
         /\ conn'[s].at \in {"nread", "alloc failed", "idle"}
         /\ conn'[s].at = "nread" =>
               /\ x \in Items /\ conn'[s].it = x /\ x \notin cache'.linked
               /\ cache'.cas_id[x] = id /\ cache'.key[x] = k
               /\ conn'[s].key = k /\ conn'[s].cmd = cmd
    <2>1. CASE x \in Items /\ Goto(s, "nread", cmd, k, x)
      <3>1. x # Null /\ IInv
        BY <2>1, ItemsAssumption DEF Strong
      <3>2. x \notin cache'.linked /\ cache'.cas_id[x] = id /\ cache'.key[x] = k
        BY <1>7, <3>1
      <3>3. /\ conn'[s].at = "nread" /\ conn'[s].cmd = cmd /\ conn'[s].it = x
            /\ conn'[s].key = k /\ \A t \in Conns \ {s} : conn'[t] = conn[t]
        BY <2>1, <3>1, ConnGoes
      <3> QED
        BY <2>1, <3>2, <3>3
    <2>2. CASE Goto(s, "alloc failed", cmd, k, Null)
      <3>0. IInv
        BY DEF Strong
      <3> DEFINE at == "alloc failed"
      <3>2. Goto(s, at, cmd, k, Null)
        BY <2>2
      <3> HIDE DEF at
      <3>3. /\ conn'[s].at = at /\ conn'[s].cmd = cmd /\ conn'[s].it = Null
            /\ \A t \in Conns \ {s} : conn'[t] = conn[t]
        BY <3>0, <3>2, ConnGoes
      <3>1. /\ conn'[s].at = "alloc failed" /\ conn'[s].cmd = cmd /\ conn'[s].it = Null
            /\ \A t \in Conns \ {s} : conn'[t] = conn[t]
        BY <3>3 DEF at
      <3> QED
        BY <3>1
    <2>3. CASE Done(s)
      BY <1>9, <2>3, ConnGoes DEF Strong
    <2> QED
      BY <1>7, <2>1, <2>2, <2>3
  <1>11. Fit' /\ Carries(s, x, Null)
    BY <1>1, <1>3, <1>5, <1>6, <1>7, <1>8, <1>10, LockedStep
  <1>12. conn'[s].cmd # "get"
    BY <1>10 DEF Storage
  <1>13. Shows(s, x)
    BY <1>10, <1>12 DEF Shows
  <1>14. ~Reading(s)
    BY <1>3, NotReading
  <1>15. Reads(s)'
    BY <1>1, <1>10, <1>11, <1>12, <1>14, ReadsEnded
  <1>16. conn'[s].at = "nread" =>
              /\ x \in Items /\ conn'[s].it = x /\ x \notin cache'.linked
              /\ conn'[s].cmd = "cas" => /\ reply'[s].cas_id # 0
                                         /\ cache'.cas_id[x] = reply'[s].cas_id
                                         /\ cache'.key[x] = conn'[s].key
    BY <1>1, <1>10
  <1>17. reply'[s] = reply[s] /\ conn'[s].it \in {Null, conn[s].it, x}
    BY <1>1, <1>10
  <1> QED
    BY <1>4, <1>11, <1>13, <1>15, <1>16, <1>17, CarriesOn

----------------------------------------------------------------------------
(* The steps of gets without the lock *)

\* The cache and the connections as they were.
LEMMA StillFit ==
    ASSUME IInv, Fit, UNCHANGED vars
    PROVE  IInv' /\ Fit'
  <1>1. /\ cache' = cache /\ conn' = conn /\ todelete' = todelete /\ UNCHANGED clock
        /\ current_time' = current_time
    BY DEF vars, defer, clock
  <1>2. current_time' \in Nat
    BY <1>1 DEF IInv
  <1>3. IInv'
    BY <1>1, <1>2, StillStep
  <1>4. Stamps(cache, cache', Null, Null) /\ Tabled(cache') /\ Listed(cache')
    BY <1>1, StampsNothing DEF Fit
  <1> QED
    BY <1>1, <1>3, <1>4, FitThen

\* Only the answer of one connection goes on.
LEMMA ReplyOn ==
    ASSUME CInv, Strong, NEW s \in Conns, UNCHANGED <<vars, writing, given>>,
           \A t \in Conns \ {s} : reply'[t] = reply[t],
           reply' = [t \in Conns |-> reply'[t]],
           Answer(reply'[s]), Reads(s)', conn[s].at # "nread"
    PROVE  CInv'
  <1>1. /\ cache' = cache /\ conn' = conn /\ writing' = writing /\ stored' = stored
        /\ overwritten' = overwritten /\ UNCHANGED vars
    BY DEF vars, given
  <1>2. IInv' /\ Fit'
    BY <1>1, StillFit DEF Strong
  <1>3. Answered'
    <2>1. <<>> \in Texts
      BY DEF Texts
    <2>2. overwritten' \subseteq 1 .. Len(stored') /\ Answered
      BY <1>1 DEF CInv, Answered
    <2> QED
      BY <1>1, <2>1, <2>2, AnsweredStays
  <1>4. Seen' = Seen
    BY <1>1 DEF Seen, Reading
  <1>5. Named' /\ Inplace'
    BY <1>1, <1>4 DEF Strong, Named, Inplace
  <1>6. ASSUME NEW t \in Conns PROVE Alone(t)' /\ Reads(t)'
    <2>1. CASE t = s
      BY <1>1, <2>1 DEF Alone
    <2>2. CASE t # s
      BY <1>1, <2>2 DEF Strong, Alone, Reads, Reading
    <2> QED
      BY <2>1, <2>2
  <1>7. Shape(cache)'
    BY <1>1 DEF CInv, Shape
  <1> QED
    BY <1>2, <1>3, <1>5, <1>6, <1>7 DEF CInv, Strong

\* The answer's record goes on.
LEMMA Answers ==
    ASSUME Answered, NEW s \in Conns, NEW r, reply' = [reply EXCEPT ![s] = r]
    PROVE  /\ reply'[s] = r /\ \A t \in Conns \ {s} : reply'[t] = reply[t]
           /\ reply' = [t \in Conns |-> reply'[t]]
  <1>1. reply = [t \in Conns |-> reply[t]]
    BY DEF Answered
  <1> QED
    BY <1>1

\* gets prints the id.
LEMMA PrintsOn ==
    ASSUME CInv, NEW s \in Conns, print_cas(s)
    PROVE  CInv'
  <1> DEFINE i == conn[s].it
             c == cache.cas_id[i]
             r == [reply[s] EXCEPT !.cas_id = c]
  <1>1. /\ cache.halted = "no" /\ conn[s].at = "update" /\ reply[s].cas_id = 0
        /\ UNCHANGED <<vars, writing, given>>
    BY DEF print_cas, At
  <1>2. Strong /\ Answered
    BY <1>1 DEF CInv
  <1>3. Reads(s) /\ Reading(s) /\ reply[s].text = <<>>
    BY <1>1, <1>2 DEF Strong, Reads
  <1>4. i \in Seen
    BY <1>3 DEF Seen
  <1>5. c \in 1 .. Len(stored) /\ c \notin overwritten /\ stored \in Seq(Texts) /\ Len(stored) \in Nat
    BY <1>2, <1>4 DEF Strong, Named, Answered
  <1>6. /\ reply' = [reply EXCEPT ![s] = r]
        /\ r = [key |-> r.key, cas_id |-> r.cas_id, text |-> r.text]
        /\ r.cas_id = c /\ r.text = reply[s].text
    <2>1. reply[s] = [key |-> reply[s].key, cas_id |-> reply[s].cas_id, text |-> reply[s].text]
      BY <1>2 DEF Answered, Answer
    <2>2. reply' = [reply EXCEPT ![s] = r]
      BY <1>2 DEF print_cas, Answered
    <2> QED
      BY <2>1, <2>2
  <1> HIDE DEF r, c
  <1>7. /\ reply'[s] = r /\ \A t \in Conns \ {s} : reply'[t] = reply[t]
        /\ reply' = [t \in Conns |-> reply'[t]]
    BY <1>2, <1>6, Answers
  <1>8. Answer(r)
    <2>1. stored[c] \in Texts /\ <<>> \in Texts
      BY <1>5 DEF Texts
    <2>2. IsPrefix(<<>>, stored[c])
      BY <2>1 DEF IsPrefix, Texts
    <2>3. c \in 0 .. Len(stored)
      BY <1>5
    <2> QED
      BY <1>3, <1>6, <2>1, <2>2, <2>3 DEF Answer
  <1>9. Reads(s)'
    <2>1. conn' = conn /\ cache' = cache /\ overwritten' = overwritten
      BY <1>1 DEF vars, given
    <2>2. Reading(s)' /\ conn'[s].at = "update"
      BY <1>1, <1>3, <2>1 DEF Reading
    <2>3. reply'[s].cas_id = cache'.cas_id[conn'[s].it] /\ reply'[s].text = <<>>
      BY <1>3, <1>6, <1>7, <2>1 DEF c
    <2> QED
      BY <2>2, <2>3 DEF Reads
  <1> QED
    BY <1>1, <1>2, <1>7, <1>8, <1>9, ReplyOn

\* A prefix and the next character.
LEMMA SendsNext ==
    ASSUME NEW t \in Texts, NEW u \in Texts, Len(t) < Len(u), NEW a, a = Append(t, u[Len(t) + 1])
    PROVE  a \in Texts /\ (IsPrefix(t, u) => IsPrefix(a, u))
  <1>1. Len(t) \in Nat /\ Len(u) \in Nat /\ Len(t) + 1 \in 1 .. Len(u)
    BY DEF Texts
  <1>2. u[Len(t) + 1] \in 0 .. Base
    <2> DEFINE n == Len(t) + 1
               S == 0 .. Base
    <2>1. n \in 1 .. Len(u) /\ u \in Seq(S)
      BY <1>1 DEF Texts
    <2> HIDE DEF n, S
    <2>2. u[n] \in S
      BY <2>1
    <2> QED
      BY <2>2 DEF n, S
  <1>3. a \in Texts /\ Len(a) = Len(t) + 1
    BY <1>2 DEF Texts
  <1>4. ASSUME IsPrefix(t, u) PROVE IsPrefix(a, u)
    <2>1. ASSUME NEW n \in 1 .. Len(a) PROVE a[n] = u[n]
      <3>1. CASE n = Len(t) + 1
        BY <1>1, <3>1 DEF Texts
      <3>2. CASE n # Len(t) + 1
        <4>1. n \in 1 .. Len(t)
          BY <1>1, <1>3, <2>1, <3>2
        <4>2. a[n] = t[n]
          BY <4>1 DEF Texts
        <4>3. t[n] = u[n]
          BY <1>4, <4>1 DEF IsPrefix, Texts
        <4> QED
          BY <4>2, <4>3
      <3> QED
        BY <3>1, <3>2
    <2>2. Len(a) <= Len(u) /\ Len(a) \in Nat
      BY <1>1, <1>3
    <2>3. SubSeq(a, 1, Len(a)) = SubSeq(u, 1, Len(a))
      BY <1>3, <2>1, <2>2 DEF Texts
    <2> QED
      BY <2>2, <2>3 DEF IsPrefix
  <1> QED
    BY <1>3, <1>4

\* sendmsg takes a character.
LEMMA SendsOn ==
    ASSUME CInv, cache.halted = "no", NEW s \in Conns, send(s)
    PROVE  CInv'
  <1> DEFINE i == conn[s].it
             c == reply[s].cas_id
             t == reply[s].text
             data == cache.data[i]
             a == Append(t, data[Len(t) + 1])
             r == [reply[s] EXCEPT !.text = a]
  <1>1. /\ conn[s].at = "remove" /\ Reading(s) /\ ~Sent(s) /\ UNCHANGED <<vars, writing, given>>
    BY DEF send, At
  <1>2. Strong /\ Answered
    BY DEF CInv
  <1>3. Reads(s) /\ i \in Items /\ i \in Seen
    BY <1>1, <1>2 DEF Strong, IInv, ConnOK, Seen
  <1>4. Answer(reply[s]) /\ t \in Texts
    BY <1>2 DEF Answered, Answer
  <1>5. data \in Texts /\ Len(t) < Len(data)
    <2>1. data \in Texts
      BY <1>2, <1>3 DEF Strong, Fit, Worded, Texts
    <2>2. ~(Len(t) >= Len(data))
      BY <1>1 DEF Sent
    <2>3. Len(t) \in Nat /\ Len(data) \in Nat
      BY <1>4, <2>1 DEF Texts
    <2> DEFINE m == Len(t)
               n == Len(data)
    <2>4. ~(m >= n) /\ m \in Nat /\ n \in Nat
      BY <2>2, <2>3
    <2> HIDE DEF m, n
    <2>5. m < n
      BY <2>4
    <2> QED
      BY <2>1, <2>5 DEF m, n
  <1>6. /\ reply' = [reply EXCEPT ![s] = r]
        /\ r = [key |-> r.key, cas_id |-> r.cas_id, text |-> r.text]
        /\ r.cas_id = c /\ r.text = a
    <2>1. reply[s] = [key |-> reply[s].key, cas_id |-> reply[s].cas_id, text |-> reply[s].text]
      BY <1>4 DEF Answer
    <2>2. reply' = [reply EXCEPT ![s] = r]
      BY <1>2 DEF send, Answered
    <2> HIDE DEF a
    <2>3. r = [key |-> r.key, cas_id |-> r.cas_id, text |-> r.text] /\ r.cas_id = c /\ r.text = a
      BY <2>1
    <2> HIDE DEF r
    <2> QED
      BY <2>2, <2>3
  <1>7. a \in Texts /\ (IsPrefix(t, data) => IsPrefix(a, data))
    BY <1>4, <1>5, SendsNext
  <1>8. c # 0 /\ (c \notin overwritten => c = cache.cas_id[i] /\ data = stored[c])
    <2>1. c # 0 /\ (c \notin overwritten => c = cache.cas_id[i]) /\ (i = writing.it => c \in overwritten)
      BY <1>1, <1>3 DEF Reads
    <2> QED
      BY <1>2, <1>3, <2>1 DEF Strong, Named
  <1> HIDE DEF r, a, data
  <1>9. /\ reply'[s] = r /\ \A u \in Conns \ {s} : reply'[u] = reply[u]
        /\ reply' = [u \in Conns |-> reply'[u]]
    BY <1>2, <1>6, Answers
  <1>10. Answer(r)
    BY <1>4, <1>6, <1>7, <1>8 DEF Answer
  <1>11. Reads(s)'
    <2>1. conn' = conn /\ cache' = cache /\ overwritten' = overwritten /\ writing' = writing
      BY <1>1 DEF vars, given
    <2>2. Reading(s)' /\ conn'[s].at = "remove"
      BY <1>1, <2>1 DEF Reading
    <2>3. reply'[s].cas_id = c
      BY <1>6, <1>9
    <2> QED
      BY <1>1, <1>3, <2>1, <2>2, <2>3 DEF Reads
  <1>12. conn[s].at # "nread"
    BY <1>1
  <1> QED
    BY <1>1, <1>2, <1>9, <1>10, <1>11, <1>12, ReplyOn

----------------------------------------------------------------------------
(* The steps of an incr in place *)

\* Other data and cas ids: who holds what is as it was.
LEMMA DataStep ==
    ASSUME IInv, NoneOld, cache.halted = "no", NEW s \in Conns, conn[s].at \in Holding,
           NEW at \in Holding, Step(s, at), Frame, Same(cache, cache')
    PROVE  IInv'
  <1>1. Goes(cache, cache, cache.refcount)
    BY Facts DEF Goes
  <1>2. Goes(cache, cache', cache.refcount)
    BY <1>1, SameGoes
  <1> QED
    BY <1>2, StepGoes

\* A connection that stays where it is.
LEMMA StaysThere ==
    ASSUME IInv, NEW s \in Conns, conn' = conn
    PROVE  Step(s, conn[s].at)
  <1> DEFINE p == [conn[s] EXCEPT !.at = conn[s].at]
  <1>1. p = conn[s]
    BY DEF IInv, ConnOK
  <1> HIDE DEF p
  <1>2. conn' = [conn EXCEPT ![s] = p]
    BY <1>1 DEF IInv
  <1> QED
    BY <1>2 DEF Step, p

\* A step that takes nothing, links nothing and ends no command: what may be looked at stays.
LEMMA SeenSame ==
    ASSUME cache'.linked = cache.linked, conn' = conn
    PROVE  Seen' = Seen
  BY DEF Seen, Reading

\* A character of the new text.
LEMMA WritesOn ==
    ASSUME CInv, NoneOld, NEW s \in Conns, delta_write(s)
    PROVE  CInv'
  <1> DEFINE i == writing.it
             text == writing.text
             data == cache.data[i]
  <1>1. PICK n \in writing.left :
              /\ cache' = [cache EXCEPT !.data[i][n] = text[n]]
              /\ writing' = [writing EXCEPT !.left = @ \ {n}]
    BY DEF delta_write
  <1> DEFINE new == [data EXCEPT ![n] = text[n]]
  <1>2. /\ conn' = conn /\ todelete' = todelete /\ UNCHANGED clock /\ reply' = reply
        /\ stored' = stored /\ overwritten' = overwritten
    BY DEF delta_write, defer, given
  <1>3. Shape(cache) /\ Answered
    BY DEF CInv
  <1>4. /\ Same(cache, cache') /\ cache'.data = [cache.data EXCEPT ![i] = new]
        /\ cache'.cas_id = cache.cas_id /\ cache'.last_cas = cache.last_cas
    <2>1. cache' = [cache EXCEPT !.data[i] = new]
      BY <1>1
    <2> HIDE DEF new
    <2>2. Same(cache, cache')
      BY <1>3, <2>1, SameData
    <2> QED
      BY <1>3, <2>1, <2>2 DEF Shape, Fields
  <1>5. /\ Shape(cache') /\ cache'.halted = cache.halted /\ cache'.linked = cache.linked
        /\ cache'.free = cache.free /\ cache'.key = cache.key /\ cache'.lru = cache.lru
        /\ cache'.deleted = cache.deleted /\ cache'.refcount = cache.refcount
        /\ cache'.time = cache.time /\ cache'.exptime = cache.exptime
        /\ cache'.table = cache.table
    BY <1>4 DEF Same, Fields
  <1>6. Answered' /\ Shape(cache)'
    BY <1>2, <1>3, <1>5 DEF Answered, Answer, Shape
  <1>7. CASE cache.halted # "no"
    BY <1>5, <1>6, <1>7 DEF CInv
  <1>8. CASE cache.halted = "no"
    <2>1. Strong
      BY <1>8 DEF CInv
    <2>2. writing # NoWrite
      BY <1>1 DEF NoWrite
    <2>3. /\ writing = [by |-> s, it |-> i, text |-> text, left |-> writing.left]
          /\ conn[s].at = "delta" /\ conn[s].it = i
          /\ text \in Texts /\ writing.left \subseteq 1 .. Len(text)
          /\ stored[cache.cas_id[i]] = text /\ Len(data) = Len(text)
          /\ \A m \in 1 .. Len(text) : m \notin writing.left => data[m] = text[m]
      BY <2>1, <2>2 DEF Strong, Inplace, delta_write
    <2>4. i \in Items /\ data \in Texts
      <3>1. i \in Items
        BY <2>1, <2>3 DEF Strong, IInv, ConnOK
      <3> QED
        BY <2>1, <3>1 DEF Strong, Fit, Worded, Texts
    <2>5. /\ new \in Texts /\ Len(new) = Len(text) /\ new[n] = text[n]
          /\ \A m \in 1 .. Len(text) : m # n => new[m] = data[m]
      <3>1. n \in 1 .. Len(text) /\ n \in 1 .. Len(data)
        BY <1>1, <2>3
      <3> DEFINE S == 0 .. Base
                 x == text[n]
      <3>2. text \in Seq(S) /\ data \in Seq(S) /\ Len(data) = Len(text)
        BY <2>3, <2>4 DEF Texts
      <3> HIDE DEF S, data, text
      <3>3. x \in S
        BY <3>1, <3>2
      <3> HIDE DEF x
      <3>4. /\ [data EXCEPT ![n] = x] \in Seq(S) /\ Len([data EXCEPT ![n] = x]) = Len(data)
            /\ \A m \in 1 .. Len(data) :
                  [data EXCEPT ![n] = x][m] = IF m = n THEN x ELSE data[m]
        BY <3>1, <3>2, <3>3
      <3> QED
        BY <3>1, <3>2, <3>4 DEF x, S, Texts
    <2> HIDE DEF new
    <2>6. /\ cache'.data[i] = new
          /\ \A k \in Items \ {i} : cache'.data[k] = cache.data[k]
          /\ cache'.data \in [Items -> Texts]
      BY <1>4, <2>1, <2>4, <2>5 DEF Strong, Fit, Worded, Texts
    <2>7. /\ writing'.by = s /\ writing'.it = i /\ writing'.text = text
          /\ writing'.left = writing.left \ {n}
          /\ writing' = [by |-> s, it |-> i, text |-> text, left |-> writing'.left]
      <3> DEFINE left == writing.left
      <3>1. /\ writing = [by |-> s, it |-> i, text |-> text, left |-> left]
            /\ writing' = [writing EXCEPT !.left = left \ {n}]
        BY <1>1, <2>3
      <3> HIDE DEF i, text, left
      <3>2. writing' = [by |-> s, it |-> i, text |-> text, left |-> left \ {n}]
        BY <3>1
      <3> QED
        BY <3>2 DEF left
    <2>8. IInv'
      <3>1. Step(s, "delta")
        BY <1>2, <2>1, <2>3, StaysThere DEF Strong
      <3>2. Frame
        BY <1>2 DEF Frame, clock
      <3> QED
        BY <1>4, <1>8, <2>1, <2>3, <3>1, <3>2, DataStep DEF Strong, Holding
    <2>9. Fit'
      <3>1. Tabled(cache)'
        <4>1. cache'.data = [k \in Items |-> cache'.data[k]]
          BY <2>6
        <4>2. Tabled(cache)
          BY <2>1 DEF Strong, Fit
        <4>3. Typed(cache')
          BY <1>5, <4>2 DEF Tabled, Typed
        <4>4. Tabled(cache')
          BY <1>4, <1>5, <4>1, <4>2, <4>3 DEF Tabled
        <4> QED
          BY <4>4 DEF Tabled, Typed, Shape
      <3>2. Worded(cache)'
        BY <1>4, <1>5, <2>1, <2>6 DEF Strong, Fit, Worded, Texts
      <3>3. Listed(cache)'
        BY <1>2, <1>5, <2>1 DEF Strong, Fit, Listed, Tidy, Trim, Ordered, Lists, clock
      <3> QED
        BY <3>1, <3>2, <3>3 DEF Fit
    <2>10. Seen' = Seen /\ Seen \subseteq Items
      BY <1>2, <1>5, <1>8, <2>1, SeenSame, SeenItems DEF Strong
    <2>11. Named'
      BY <1>2, <1>4, <2>1, <2>6, <2>7, <2>10 DEF Strong, Named
    <2>12. Inplace'
      <3>1. Len(cache'.data[i]) = Len(text)
        BY <2>5, <2>6
      <3>2. \A m \in 1 .. Len(text) : m \notin writing'.left => cache'.data[i][m] = text[m]
        BY <2>3, <2>5, <2>6, <2>7
      <3>3. stored'[cache'.cas_id[i]] = text /\ writing'.left \subseteq 1 .. Len(text)
        BY <1>2, <1>4, <2>3, <2>7
      <3> QED
        BY <1>2, <2>3, <2>7, <3>1, <3>2, <3>3 DEF Inplace
    <2>13. \A t \in Conns : Alone(t)' /\ Reads(t)'
      BY <1>2, <1>4, <1>5, <2>1, <2>7 DEF Strong, Alone, Reads, Reading
    <2> QED
      BY <1>6, <2>8, <2>9, <2>11, <2>12, <2>13 DEF CInv, Strong
  <1> QED
    BY <1>7, <1>8

\* A text is its characters.
LEMMA SameText ==
    ASSUME NEW t \in Texts, NEW u \in Texts, Len(t) = Len(u), \A n \in 1 .. Len(t) : t[n] = u[n]
    PROVE  t = u
  BY DEF Texts

\* The section of an incr in place ends.
LEMMA EndWriteOn ==
    ASSUME CInv, NoneOld, NEW s \in Conns, delta_end(s)
    PROVE  CInv'
  <1> DEFINE i == writing.it
             text == writing.text
             data == cache.data[i]
  <1>1. /\ writing.by = s /\ writing.left = {} /\ writing' = NoWrite /\ Step(s, "remove")
        /\ cache' = cache /\ todelete' = todelete /\ UNCHANGED clock /\ reply' = reply
        /\ stored' = stored /\ overwritten' = overwritten
    BY DEF delta_end, defer, given
  <1>2. Answered' /\ Shape(cache)'
    BY <1>1 DEF CInv, Answered, Answer, Shape
  <1>3. CASE cache.halted # "no"
    BY <1>1, <1>2, <1>3 DEF CInv
  <1>4. CASE cache.halted = "no"
    <2>1. Strong
      BY <1>4 DEF CInv
    <2>2. writing # NoWrite
      BY <1>1, CasAssumption DEF NoWrite
    <2>3. /\ conn[s].at = "delta" /\ conn[s].it = i
          /\ text \in Texts
          /\ stored[cache.cas_id[i]] = text /\ Len(data) = Len(text)
          /\ \A m \in 1 .. Len(text) : data[m] = text[m]
      BY <1>1, <2>1, <2>2 DEF Strong, Inplace
    <2>4. i \in Items /\ data \in Texts
      <3>1. i \in Items
        BY <2>1, <2>3 DEF Strong, IInv, ConnOK
      <3> QED
        BY <2>1, <3>1 DEF Strong, Fit, Worded, Texts
    <2>5. data = stored[cache.cas_id[i]]
      BY <2>3, <2>4, SameText
    <2>6. ~Reading(s)
      BY <2>1, <2>3, NotReading
    <2>7. /\ conn'[s].at = "remove" /\ conn'[s].cmd = conn[s].cmd
          /\ conn'[s].it = conn[s].it /\ conn'[s].key = conn[s].key
          /\ \A t \in Conns \ {s} : conn'[t] = conn[t]
      BY <1>1, <2>1, ConnGoes DEF Strong
    <2>8. IInv'
      <3>1. Frame /\ Same(cache, cache')
        BY <1>1, <2>1 DEF Frame, clock, Same, Strong, IInv
      <3> QED
        BY <1>1, <1>4, <2>1, <2>3, <3>1, DataStep DEF Strong, Holding
    <2>9. Fit'
      <3>1. Stamps(cache, cache', Null, Null) /\ Tabled(cache') /\ Listed(cache')
        BY <1>1, <2>1, StampsNothing DEF Strong, Fit
      <3> QED
        BY <1>1, <2>1, <3>1, FitThen DEF Strong
    <2>10. Seen' \subseteq Seen
      <3>1. ASSUME NEW k \in Seen' PROVE k \in Seen
        <4>1. k \in cache.linked \/ \E t \in Conns : /\ k = conn'[t].it
                                                     /\ conn'[t].at = "delta" \/ conn'[t].cmd = "get"
          BY <1>1 DEF Seen, Reading
        <4> QED
          BY <2>6, <2>7, <4>1 DEF Seen, Reading
      <3> QED
        BY <3>1
    <2>11. Named'
      <3>1. \A k \in Seen : cache.data[k] = stored[cache.cas_id[k]]
        BY <2>1, <2>5 DEF Strong, Named
      <3> QED
        BY <1>1, <2>1, <2>10, <3>1 DEF Strong, Named
    <2>12. Inplace'
      BY <1>1 DEF Inplace
    <2>13. writing'.it = Null /\ Null \notin Items
      BY <1>1, ItemsAssumption DEF NoWrite
    <2>14. ASSUME NEW t \in Conns PROVE Alone(t)'
      BY <1>1, <2>1, <2>7 DEF Strong, Alone
    <2>15. ASSUME NEW t \in Conns PROVE Reads(t)'
      <3>1. CASE t = s
        BY <1>1, <2>1, <2>6, <2>7, <3>1 DEF Strong, Reads, Reading
      <3>2. CASE t # s
        <4>1. Reading(t) => conn[t].it \in Items
          BY <2>1 DEF Strong, Reads, IInv, ConnOK
        <4> QED
          BY <1>1, <2>1, <2>7, <2>13, <3>2, <4>1 DEF Strong, Reads, Reading
      <3> QED
        BY <3>1, <3>2
    <2> QED
      BY <1>2, <2>8, <2>9, <2>11, <2>12, <2>14, <2>15 DEF CInv, Strong
  <1> QED
    BY <1>3, <1>4

\* An incr in place begins: the item gets its new id while its data is the old one.
LEMMA BeginOn ==
    ASSUME Strong, Answered, NoneOld, cache.halted = "no", NEW s \in Conns,
           NEW i \in Items, conn[s].at = "delta", conn[s].it = i, writing = NoWrite,
           NEW text \in Texts, Len(text) = Len(cache.data[i]), Same(cache, cache'),
           cache'.data = cache.data, cache'.cas_id = [cache.cas_id EXCEPT ![i] = cache'.last_cas],
           cache'.last_cas = cache.last_cas + 1,
           writing' = [by |-> s, it |-> i, text |-> text, left |-> DOMAIN text],
           stored' = Append(stored, text), overwritten' = overwritten \cup {cache.cas_id[i]},
           conn' = conn, reply' = reply, todelete' = todelete, UNCHANGED clock
    PROVE  CInv'
  <1> DEFINE a == cache.cas_id[i]
             l == cache.last_cas
  <1>1. /\ Shape(cache') /\ cache'.halted = cache.halted /\ cache'.linked = cache.linked
        /\ cache'.free = cache.free /\ cache'.key = cache.key /\ cache'.lru = cache.lru
        /\ cache'.deleted = cache.deleted /\ cache'.refcount = cache.refcount
        /\ cache'.time = cache.time /\ cache'.exptime = cache.exptime
        /\ cache'.table = cache.table
    BY DEF Same, Fields
  <1>2. Tabled(cache) /\ Worded(cache) /\ Tidy(cache)
    BY DEF Strong, Fit, Listed
  <1>3. i \in Seen /\ Seen \subseteq Items
    BY SeenItems DEF Strong, Seen
  <1>4. /\ l \in Nat /\ a \in 1 .. l /\ Len(stored) = l /\ a \notin overwritten
        /\ stored \in Seq(Texts) /\ overwritten \subseteq 1 .. l
    BY <1>2, <1>3 DEF Strong, Named, Answered, Tabled
  <1>5. /\ cache'.cas_id[i] = l + 1 /\ \A k \in Items \ {i} : cache'.cas_id[k] = cache.cas_id[k]
        /\ cache'.cas_id \in [Items -> Nat]
    BY <1>2, <1>4 DEF Worded
  <1>6. /\ stored' \in Seq(Texts) /\ Len(stored') = l + 1 /\ stored'[l + 1] = text
        /\ \A c \in 1 .. l : stored'[c] = stored[c]
    <2>1. stored' = Append(stored, text) /\ Len(stored) = l /\ stored \in Seq(Texts)
      BY <1>4
    <2> HIDE DEF l
    <2> QED
      BY <2>1
  <1>7. Answered'
    <2>1. overwritten' \subseteq 1 .. Len(stored')
      <3>1. Len(stored') = l + 1 /\ overwritten' = overwritten \cup {a}
        BY <1>6
      <3>2. l \in Nat /\ a \in 1 .. l /\ overwritten \subseteq 1 .. l
        BY <1>4
      <3> HIDE DEF l, a
      <3>3. ASSUME NEW c \in overwritten' PROVE c \in 1 .. l + 1
        <4>1. c \in 1 .. l
          BY <3>1, <3>2
        <4> QED
          BY <3>2, <4>1
      <3> QED
        BY <3>1, <3>3
    <2>2. reply' = [t \in Conns |-> reply'[t]] /\ overwritten \subseteq overwritten'
      BY DEF Answered
    <2> QED
      BY <2>1, <2>2, AnsweredStays
  <1>8. Tabled(cache)' /\ Tabled(cache')
    <2>1. cache'.data = [k \in Items |-> cache'.data[k]] /\ cache'.cas_id = [k \in Items |-> cache'.cas_id[k]]
      BY <1>2, <1>5 DEF Tabled
    <2>2. Typed(cache') /\ cache'.last_cas \in Nat
      BY <1>1, <1>2, <1>4 DEF Tabled, Typed
    <2>3. Tabled(cache')
      BY <1>1, <1>2, <2>1, <2>2 DEF Tabled
    <2> QED
      BY <2>3 DEF Tabled, Typed, Shape
  <1>9. Fit'
    <2>1. \A k \in Items : cache'.cas_id[k] <= cache'.last_cas
      <3> SUFFICES ASSUME NEW k \in Items PROVE cache'.cas_id[k] <= cache'.last_cas
        OBVIOUS
      <3> DEFINE b == cache'.cas_id[k]
                 m == cache'.last_cas
      <3>1. l \in Nat /\ m = l + 1 /\ b \in Nat /\ (b = l + 1 \/ b <= l)
        BY <1>2, <1>4, <1>5 DEF Worded
      <3> HIDE DEF b, m, l
      <3>2. b <= m
        BY <3>1
      <3> QED
        BY <3>2 DEF b, m
    <2>2. Worded(cache)'
      BY <1>1, <1>2, <1>5, <2>1 DEF Worded
    <2>3. Listed(cache)'
      BY <1>1, <1>2 DEF Listed, Tidy, Trim, Ordered, Lists, clock
    <2> QED
      BY <1>8, <2>2, <2>3 DEF Fit
  <1>10. IInv'
    <2>1. Step(s, "delta")
      BY StaysThere DEF Strong
    <2>2. Frame
      BY DEF Frame, clock
    <2> QED
      BY <2>1, <2>2, DataStep DEF Strong, Holding
  <1>11. Seen' = Seen
    BY <1>1, SeenSame
  <1>12. Named'
    <2>1. writing.it = Null /\ writing'.it = i /\ Null \notin Items
      BY ItemsAssumption DEF NoWrite
    <2>2. ASSUME NEW k \in Seen
          PROVE  /\ cache'.cas_id[k] \in 1 .. l + 1 /\ cache'.cas_id[k] \notin overwritten'
                 /\ k # i => /\ cache'.data[k] = stored'[cache'.cas_id[k]]
                             /\ cache'.cas_id[k] = cache.cas_id[k] /\ cache.cas_id[k] \in 1 .. l
      <3>1. CASE k = i
        <4>1. l + 1 \in 1 .. l + 1 /\ l + 1 \notin 1 .. l
          BY <1>4
        <4> QED
          BY <1>4, <1>5, <3>1, <4>1
      <3>2. CASE k # i
        <4> DEFINE b == cache.cas_id[k]
        <4>1. /\ b \in 1 .. l /\ b \notin overwritten /\ b # a /\ cache'.cas_id[k] = b
              /\ cache.data[k] = stored[b]
          BY <1>3, <1>5, <2>1, <3>2 DEF Strong, Named
        <4>2. b \in 1 .. l + 1
          BY <1>4, <4>1
        <4> QED
          BY <1>6, <4>1, <4>2
      <3> QED
        BY <3>1, <3>2
    <2>3. ASSUME NEW j \in Seen, NEW k \in Seen, cache'.cas_id[j] = cache'.cas_id[k] PROVE j = k
      <3>1. l + 1 \notin 1 .. l
        BY <1>4
      <3>2. CASE j = i \/ k = i
        BY <1>5, <2>2, <2>3, <3>1, <3>2
      <3>3. CASE j # i /\ k # i
        BY <2>2, <2>3, <3>3 DEF Strong, Named
      <3> QED
        BY <3>2, <3>3
    <2>4. Len(stored') = cache'.last_cas /\ 1 .. l + 1 = 1 .. cache'.last_cas
      BY <1>6
    <2> QED
      BY <1>11, <2>1, <2>2, <2>3, <2>4 DEF Named
  <1>13. Inplace'
    <2> DEFINE left == DOMAIN text
    <2>1. left = 1 .. Len(text)
      BY DEF Texts
    <2> HIDE DEF left
    <2>2. /\ writing'.by = s /\ writing'.it = i /\ writing'.text = text /\ writing'.left = left
          /\ writing' = [by |-> s, it |-> i, text |-> text, left |-> left]
      BY DEF left
    <2>3. stored'[cache'.cas_id[i]] = text /\ Len(cache'.data[i]) = Len(text)
      BY <1>5, <1>6
    <2> QED
      BY <2>1, <2>2, <2>3 DEF Inplace
  <1>14. ASSUME NEW t \in Conns PROVE Alone(t)'
    <2>1. CASE conn[t].at = "nread"
      <3>1. t # s
        BY <2>1
      <3>2. conn[t].it # i /\ conn[t].it \in Items
        BY <2>1, <3>1 DEF Strong, Alone, IInv, ConnOK
      <3> QED
        BY <1>1, <1>5, <2>1, <3>2 DEF Strong, Alone
    <2> QED
      BY <2>1 DEF Alone
  <1>15. ASSUME NEW t \in Conns PROVE Reads(t)'
    <2> DEFINE k == conn[t].it
               c == reply[t].cas_id
    <2>1. Reads(t) /\ writing'.it = i /\ overwritten \subseteq overwritten' /\ a \in overwritten'
      BY DEF Strong
    <2>2. CASE Reading(t)
      <3>1. k \in Items
        BY <2>1, <2>2 DEF Reads, Strong, IInv, ConnOK
      <3>2. c # 0 /\ c \notin overwritten' => c = cache.cas_id[k] /\ k # i
        BY <2>1, <2>2 DEF Reads
      <3>3. c # 0 /\ c \notin overwritten' => c = cache'.cas_id[k]
        BY <1>5, <3>1, <3>2
      <3> QED
        BY <2>1, <2>2, <3>2, <3>3 DEF Reads, Reading
    <2>3. CASE ~Reading(t)
      <3>1. c # 0 => stored'[c] = stored[c]
        <4>1. c \in 0 .. l
          BY <1>4 DEF Answered, Answer
        <4>2. c # 0 => c \in 1 .. l
          BY <1>4, <4>1
        <4> QED
          BY <1>6, <4>2
      <3> QED
        BY <2>1, <2>3, <3>1 DEF Reads, Reading
    <2> QED
      BY <2>2, <2>3
  <1>16. Shape(cache)'
    BY <1>1 DEF Shape
  <1> QED
    BY <1>7, <1>9, <1>10, <1>12, <1>13, <1>14, <1>15, <1>16 DEF CInv, Strong

\* An incr in place, or one that an assertion stops half way.
LEMMA BeginsOn ==
    ASSUME CInv, NoneOld, NEW s \in Conns, delta_begin(s)
    PROVE  CInv'
  <1> DEFINE i == conn[s].it
  <1>1. cache.halted = "no" /\ conn[s].at = "delta" /\ writing = NoWrite
    BY DEF delta_begin, At, cache_lock_free
  <1>2. Strong /\ Answered /\ Shape(cache)
    BY <1>1 DEF CInv
  <1>3. /\ i \in Items /\ cache.refcount[i] # 0 /\ Fine(cache) /\ current_time \in Nat
    BY <1>1, <1>2, Facts DEF Strong, Holding
  <1>4. PICK c \in do_add_delta(cache, i, conn[s].cmd) :
              /\ c.cas_id[i] # cache.cas_id[i]
              /\ cache' = [c EXCEPT !.data[i] = cache.data[i]]
              /\ writing' = [by |-> s, it |-> i, text |-> c.data[i],
                             left |-> DOMAIN c.data[i]]
              /\ stored' = Append(stored, c.data[i])
              /\ overwritten' = overwritten \cup {cache.cas_id[i]}
    BY DEF delta_begin, Cached
  <1>5. conn' = conn /\ todelete' = todelete /\ UNCHANGED clock /\ reply' = reply
    BY DEF delta_begin, defer
  <1>6. Goes(cache, c, cache.refcount)
    BY <1>1, <1>3, DeltaGoes
  <1>7. /\ Same(c, cache') /\ cache'.data = [c.data EXCEPT ![i] = cache.data[i]]
        /\ cache'.cas_id = c.cas_id /\ cache'.last_cas = c.last_cas
        /\ cache'.halted = c.halted
    <2> DEFINE text == cache.data[i]
    <2>1. Shape(c) /\ cache' = [c EXCEPT !.data[i] = text]
      BY <1>4, <1>6 DEF Goes
    <2> HIDE DEF text
    <2>2. Same(c, cache')
      BY <2>1, SameData
    <2>3. /\ cache'.data = [c.data EXCEPT ![i] = text] /\ cache'.cas_id = c.cas_id
          /\ cache'.last_cas = c.last_cas /\ cache'.halted = c.halted
      BY <2>1 DEF Shape, Fields
    <2> QED
      BY <2>2, <2>3 DEF text
  <1>8. \/ \E x : \E j \in Items \cup {Null} :
              Unheld(x) /\ j \in {Null, x} /\ Stamps(cache, c, x, j)
        \/ /\ Stamps(cache, c, Null, i) /\ Writes(cache, c, i)
           /\ c.last_cas = cache.last_cas + 1 /\ c.cas_id[i] = c.last_cas
           /\ c.data[i] \in Seq(0 .. Base) /\ Len(c.data[i]) = Len(cache.data[i])
    BY <1>1, <1>2, <1>4, AddStamps DEF Strong
  <1>9. CASE /\ Stamps(cache, c, Null, i) /\ Writes(cache, c, i)
             /\ c.last_cas = cache.last_cas + 1 /\ c.cas_id[i] = c.last_cas
             /\ c.data[i] \in Seq(0 .. Base) /\ Len(c.data[i]) = Len(cache.data[i])
    <2> DEFINE text == c.data[i]
    <2>1. text \in Texts /\ Len(text) = Len(cache.data[i])
      BY <1>9 DEF Texts
    <2>2. Same(cache, cache')
      BY <1>7, <1>9 DEF Same, Writes
    <2>3. cache.data \in [Items -> Texts]
      BY <1>2 DEF Strong, Fit, Worded, Texts
    <2>4. c.data = [cache.data EXCEPT ![i] = text] /\ c.cas_id = [cache.cas_id EXCEPT ![i] = c.cas_id[i]]
      BY <1>9 DEF Writes
    <2>5. writing' = [by |-> s, it |-> i, text |-> text, left |-> DOMAIN text]
      BY <1>4
    <2>6. stored' = Append(stored, text)
      BY <1>4
    <2> HIDE DEF text
    <2>7. cache'.data = cache.data
      BY <1>7, <2>3, <2>4
    <2>8. cache'.cas_id = [cache.cas_id EXCEPT ![i] = cache'.last_cas] /\ cache'.last_cas = cache.last_cas + 1
      BY <1>7, <1>9, <2>4
    <2> QED
      BY <1>1, <1>2, <1>3, <1>4, <1>5, <2>1, <2>2, <2>5, <2>6, <2>7, <2>8, BeginOn
  <1>10. CASE \E x : \E j \in Items \cup {Null} :
                 Unheld(x) /\ j \in {Null, x} /\ Stamps(cache, c, x, j)
    <2>1. PICK x : \E j \in Items \cup {Null} :
                 Unheld(x) /\ j \in {Null, x} /\ Stamps(cache, c, x, j)
      BY <1>10
    <2>2. PICK j \in Items \cup {Null} :
                 Unheld(x) /\ j \in {Null, x} /\ Stamps(cache, c, x, j)
      BY <2>1
    <2>3. i \in Items \ {x, j}
      BY <1>3, <2>2, ItemsAssumption DEF Unheld
    <2>4. i \in c.free
      BY <1>4, <2>2, <2>3 DEF Stamps, Untouched
    <2>5. cache'.halted # "no"
      BY <1>3, <1>6, <1>7, <2>3, <2>4 DEF Goes, Sound, FreeBut
    <2>6. Shape(cache)'
      BY <1>7 DEF Same, Shape
    <2>7. Worded(c)
      BY <1>2, <2>2 DEF Stamps, Strong, Fit
    <2>8. c.data[i] \in Texts
      BY <1>3, <2>7 DEF Worded, Texts
    <2>9. cache.cas_id[i] \in 1 .. Len(stored) /\ Len(stored) \in Nat
      <3>1. i \in Seen
        BY <1>1 DEF Seen
      <3> QED
        BY <1>2, <3>1 DEF Strong, Named, Answered
    <2>10. overwritten' \subseteq 1 .. Len(stored')
      <3> DEFINE n == Len(stored)
      <3>1. Len(stored') = n + 1 /\ overwritten \subseteq 1 .. n
        BY <1>2, <1>4, <2>8 DEF Answered
      <3> HIDE DEF n
      <3>2. ASSUME NEW a \in overwritten' PROVE a \in 1 .. n + 1
        <4>1. a \in 1 .. n /\ n \in Nat
          BY <1>4, <2>9, <3>1 DEF n
        <4> QED
          BY <4>1
      <3> QED
        BY <3>1, <3>2
    <2>11. Answered'
      <3>1. /\ reply' = [t \in Conns |-> reply'[t]] /\ overwritten \subseteq overwritten'
            /\ \A t \in Conns : reply'[t] = reply[t]
        BY <1>2, <1>4, <1>5 DEF Answered
      <3> QED
        BY <1>2, <1>4, <2>8, <2>10, <3>1, AnsweredStays
    <2> QED
      BY <2>5, <2>6, <2>11 DEF CInv
  <1> QED
    BY <1>8, <1>9, <1>10

\* Every step keeps it.
LEMMA CSteps ==
    ASSUME CInv, NoneOld, [CasNext]_casVars
    PROVE  CInv'
  <1>1. CASE casVars' = casVars
    <2>1. UNCHANGED <<vars, reply, writing, given>> /\ cache' = cache
      BY <1>1 DEF casVars, vars
    <2>2. conn' = conn /\ stored' = stored /\ overwritten' = overwritten
      BY <2>1 DEF vars, given
    <2>3. Shape(cache)' /\ Answered'
      BY <2>1, <2>2 DEF CInv, Shape, Answered, Answer
    <2>4. CASE cache.halted = "no"
      <3>1. Strong
        BY <2>4 DEF CInv
      <3>2. IInv' /\ Fit'
        BY <2>1, <3>1, StillFit DEF Strong
      <3>3. Seen' = Seen
        BY <2>1, <2>2 DEF Seen, Reading
      <3>4. Named' /\ Inplace' /\ \A s \in Conns : Alone(s)' /\ Reads(s)'
        BY <2>1, <2>2, <3>1, <3>3 DEF Strong, Named, Inplace, Alone, Reads, Reading
      <3> QED
        BY <2>3, <3>2, <3>4 DEF CInv, Strong
    <2> QED
      BY <2>1, <2>3, <2>4 DEF CInv
  <1>2. ASSUME NEW s \in Conns,
               \/ print_cas(s) \/ gets_update(s) \/ send(s) \/ release(s) \/ other(s)
               \/ add_delta_new(s) \/ delta_begin(s) \/ delta_write(s) \/ delta_end(s)
               \/ \E k \in Keys : gets(s, k)
               \/ \E k \in Keys, cmd \in Storage, v \in Values : update(s, cmd, k, v)
        PROVE  CInv'
    <2>1. CASE delta_begin(s)
      BY <2>1, BeginsOn
    <2>2. CASE delta_write(s)
      BY <2>2, WritesOn
    <2>3. CASE delta_end(s)
      BY <2>3, EndWriteOn
    <2>4. CASE print_cas(s)
      BY <2>4, PrintsOn
    <2>5. CASE \/ gets_update(s) \/ send(s) \/ release(s) \/ other(s) \/ add_delta_new(s)
               \/ \E k \in Keys : gets(s, k)
               \/ \E k \in Keys, cmd \in Storage, v \in Values : update(s, cmd, k, v)
      <3>1. cache.halted = "no"
        BY <2>5 DEF gets_update, item_update, send, release, item_remove, other, item_unlink,
                    alloc_failed, complete_nread, process_delete_command, update,
                    process_arithmetic_command, add_delta_new, gets, process_get_command,
                    process_update_command, Asks, At
      <3>2. Strong /\ Answered
        BY <3>1 DEF CInv
      <3>3. CASE gets_update(s)
        BY <3>2, <3>3, MovesOn
      <3>4. CASE send(s)
        BY <3>1, <3>4, SendsOn
      <3>5. CASE release(s)
        BY <3>2, <3>5, ReleasesOn
      <3>6. CASE other(s)
        BY <3>2, <3>6, OthersOn
      <3>7. CASE add_delta_new(s)
        BY <3>2, <3>7, AddsOn
      <3>8. CASE \E k \in Keys : gets(s, k)
        BY <3>2, <3>8, GetsOn
      <3>9. CASE \E k \in Keys, cmd \in Storage, v \in Values : update(s, cmd, k, v)
        <4>1. PICK k \in Keys, cmd \in Storage, v \in Values : update(s, cmd, k, v)
          BY <3>9
        <4>2. v \in Nat
          BY CacheAssumption
        <4> QED
          BY <3>2, <4>1, <4>2, AllocatesOn
      <3> QED
        BY <2>5, <3>3, <3>4, <3>5, <3>6, <3>7, <3>8, <3>9
    <2> QED
      BY <1>2, <2>1, <2>2, <2>3, <2>4, <2>5
  <1>3. \/ casVars' = casVars
        \/ \E s \in Conns :
               \/ print_cas(s) \/ gets_update(s) \/ send(s) \/ release(s) \/ other(s)
               \/ add_delta_new(s) \/ delta_begin(s) \/ delta_write(s) \/ delta_end(s)
               \/ \E k \in Keys : gets(s, k)
               \/ \E k \in Keys, cmd \in Storage, v \in Values : update(s, cmd, k, v)
    BY DEF CasNext, CasHalted
  <1> QED
    BY <1>1, <1>2, <1>3

----------------------------------------------------------------------------
(* What clients are sent *)

\* It holds at first.
LEMMA CStarts == CasInit => CInv
  <1> HAVE CasInit
  <1>1. /\ Init /\ cache = InitCache /\ conn = [s \in Conns |-> Idle] /\ stored = <<>>
        /\ overwritten = {} /\ writing = NoWrite /\ reply = [s \in Conns |-> NoReply]
    BY DEF CasInit, Init
  <1>2. IInv /\ Fit
    BY <1>1, Starts, FitStarts
  <1>3. cache.linked = {} /\ cache.last_cas = 0
    BY <1>1 DEF InitCache
  <1>4. Len(stored) = 0 /\ stored \in Seq(Texts)
    BY <1>1
  <1>5. /\ NoReply.cas_id = 0 /\ NoReply.text = <<>>
        /\ NoReply = [key |-> NoReply.key, cas_id |-> NoReply.cas_id, text |-> NoReply.text]
    BY DEF NoReply
  <1>6. Answer(NoReply)
    <2>1. NoReply.text \in Texts
      BY <1>5 DEF Texts
    <2>2. NoReply.cas_id \in 0 .. Len(stored)
      BY <1>4, <1>5
    <2> QED
      BY <1>5, <2>1, <2>2 DEF Answer
  <1>7. Answered
    <2> HIDE DEF NoReply
    <2> QED
      BY <1>1, <1>4, <1>6 DEF Answered
  <1>8. \A s \in Conns : conn[s] = Idle /\ reply[s] = NoReply
    BY <1>1
  <1>9. Idle.at = "idle" /\ Idle.cmd = "none"
    BY DEF Idle
  <1>10. Seen = {}
    BY <1>3, <1>8, <1>9 DEF Seen, Reading
  <1>11. Named /\ Inplace
    BY <1>1, <1>3, <1>4, <1>10 DEF Named, Inplace
  <1>12. \A s \in Conns : Alone(s) /\ Reads(s)
    BY <1>5, <1>8, <1>9 DEF Alone, Reads, Reading
  <1>13. Shape(cache)
    BY <1>2 DEF IInv
  <1> QED
    BY <1>2, <1>7, <1>11, <1>12, <1>13 DEF CInv, Strong

\* A step of another connection, or one to another place.
Elsewhere(s) == conn'[s] = conn[s] \/ conn'[s].at # "remove"

\* From conn_nread only complete_nread leads to the answer.
LEMMA OtherWays ==
    ASSUME CInv, NEW s \in Conns, conn[s].at = "nread", cache.halted = "no", CasNext,
           \A t \in Conns : ~(other(t) /\ complete_nread(t) /\ t = s)
    PROVE  Elsewhere(s)
  <1>1. Strong /\ IInv
    BY DEF CInv, Strong
  <1>2. ASSUME NEW t \in Conns, t # s,
               \/ Done(t) \/ (\E at : Step(t, at)) \/ (\E at, cmd, k, i : Goto(t, at, cmd, k, i))
               \/ conn' = conn
        PROVE  conn'[s] = conn[s]
    BY <1>1, <1>2, ConnGoes
  <1>3. ASSUME NEW t \in Conns,
               \/ print_cas(t) \/ gets_update(t) \/ send(t) \/ release(t) \/ other(t)
               \/ add_delta_new(t) \/ delta_begin(t) \/ delta_write(t) \/ delta_end(t)
               \/ \E k \in Keys : gets(t, k)
               \/ \E k \in Keys, cmd \in Storage, v \in Values : update(t, cmd, k, v)
        PROVE  Elsewhere(s)
    <2>1. \/ Done(t) \/ (\E at : Step(t, at)) \/ (\E at, cmd, k, i : Goto(t, at, cmd, k, i))
          \/ conn' = conn
      <3>1. CASE print_cas(t) \/ send(t) \/ delta_begin(t) \/ delta_write(t)
        BY <3>1 DEF print_cas, send, delta_begin, delta_write, vars
      <3>2. CASE gets_update(t) \/ release(t) \/ add_delta_new(t) \/ delta_end(t)
        BY <3>2 DEF gets_update, item_update, release, item_remove, add_delta_new, delta_end
      <3>3. CASE other(t)
        BY <3>3 DEF other, item_unlink, alloc_failed, complete_nread, process_delete_command,
                    process_arithmetic_command, Lookup
      <3>4. CASE \E k \in Keys : gets(t, k)
        BY <3>4 DEF gets, process_get_command, Lookup
      <3>5. CASE \E k \in Keys, cmd \in Storage, v \in Values : update(t, cmd, k, v)
        BY <3>5 DEF update, process_update_command
      <3> QED
        BY <1>3, <3>1, <3>2, <3>3, <3>4, <3>5
    <2>2. CASE t # s
      BY <1>2, <2>1, <2>2 DEF Elsewhere
    <2>3. CASE t = s
      <3>1. CASE print_cas(t) \/ send(t) \/ delta_begin(t) \/ delta_write(t)
        BY <3>1 DEF print_cas, send, delta_begin, delta_write, vars, Elsewhere
      <3>2. CASE gets_update(t) \/ release(t) \/ add_delta_new(t)
        BY <2>3, <3>2 DEF gets_update, item_update, release, item_remove, add_delta_new, At
      <3>3. CASE delta_end(t)
        <4>1. writing # NoWrite /\ writing.by = s
          BY <2>3, <3>3, CasAssumption DEF delta_end, NoWrite
        <4> QED
          BY <1>1, <4>1 DEF Strong, Inplace
      <3>4. CASE other(t)
        BY <2>3, <3>4 DEF other, item_unlink, alloc_failed, process_delete_command,
                          process_arithmetic_command, Asks, At
      <3>5. CASE \E k \in Keys : gets(t, k)
        BY <2>3, <3>5 DEF gets, process_get_command, Asks, At
      <3>6. CASE \E k \in Keys, cmd \in Storage, v \in Values : update(t, cmd, k, v)
        BY <2>3, <3>6 DEF update, process_update_command, Asks, At
      <3> QED
        BY <1>3, <3>1, <3>2, <3>3, <3>4, <3>5, <3>6
    <2> QED
      BY <2>2, <2>3
  <1> QED
    BY <1>3 DEF CasNext, CasHalted

\* A cas that is stored.
LEMMA CasReplaces ==
    ASSUME CInv, NoneOld, NEW s \in Conns, other(s), complete_nread(s), conn[s].cmd = "cas",
           cache'.last_cas # cache.last_cas
    PROVE  cache.data[cache.table[conn[s].key]] = reply[s].text
  <1> DEFINE i == conn[s].it
             j == cache.table[conn[s].key]
             c == reply[s].cas_id
  <1>1. /\ cache.halted = "no" /\ conn[s].at = "nread" /\ writing = NoWrite
        /\ cache' \in do_store_item(cache, i, conn[s].cmd)
    BY DEF complete_nread, At, Cached, other, cache_lock_free
  <1>2. Strong
    BY <1>1 DEF CInv
  <1>3. /\ Tabled(cache) /\ i \in Items /\ cache.key[i] \in Keys
    BY <1>1, <1>2, FitReady DEF Strong, Holding
  <1>4. c # 0 /\ cache.cas_id[i] = c /\ cache.key[i] = conn[s].key
    BY <1>1, <1>2 DEF Strong, Alone
  <1>5. j # Null /\ cache.cas_id[j] = c
    <2> DEFINE k == cache.key[i]
    <2>1. cache.table[k] # Null /\ cache.cas_id[i] = cache.cas_id[cache.table[k]]
      BY <1>1, <1>3, CasStore
    <2> QED
      BY <1>4, <2>1
  <1>6. j \in cache.linked /\ j \in Items
    BY <1>3, <1>4, <1>5 DEF Tabled, Typed
  <1>7. j \in Seen /\ j # writing.it
    BY <1>1, <1>6, ItemsAssumption DEF Seen, NoWrite
  <1>8. c \notin overwritten /\ cache.data[j] = stored[c]
    BY <1>2, <1>5, <1>7 DEF Strong, Named
  <1>9. ~Reading(s) /\ Reads(s)
    BY <1>1, <1>2, NotReading DEF Strong
  <1> QED
    BY <1>4, <1>8, <1>9 DEF Reads

\* The data that a gets is sent is the data which its cas id was given to, though the item
\* may be replaced, unlinked or evicted meanwhile (process_get_command, transmit), but for
\* an item that incr or decr changes in place.
THEOREM AlwaysTogether == CasSpec /\ []NoneOld => []FetchedTogether
  <1>1. CasInit => CInv
    BY CStarts
  <1>2. CInv /\ NoneOld /\ [CasNext]_casVars => CInv'
    BY CSteps
  <1>3. CInv => FetchedTogether
    BY DEF CInv, Answered, Answer, FetchedTogether
  <1> QED
    BY <1>1, <1>2, <1>3, PTL DEF CasSpec

\* A cas that is stored replaces the data its client was sent (do_store_item), though gets
\* reads, and incr and decr write, without the lock or in several steps.
THEOREM CasReplacesSeen == CasSpec /\ []NoneOld => CasSound
  <1>1. CasInit => CInv
    BY CStarts
  <1>2. CInv /\ NoneOld /\ [CasNext]_casVars => CInv'
    BY CSteps
  <1>3. CInv /\ NoneOld /\ [CasNext]_casVars
            => [\A s \in Conns :
                  /\ At(s, "nread") /\ conn[s].cmd = "cas" /\ conn'[s].at = "remove"
                  /\ cache'.last_cas # cache.last_cas
                  => cache.data[cache.table[conn[s].key]] = reply[s].text]_casVars
    <2> SUFFICES ASSUME CInv, NoneOld, CasNext, NEW s \in Conns,
                        At(s, "nread"), conn[s].cmd = "cas", conn'[s].at = "remove",
                        cache'.last_cas # cache.last_cas
                 PROVE  cache.data[cache.table[conn[s].key]] = reply[s].text
      OBVIOUS
    <2>1. cache.halted = "no" /\ conn[s].at = "nread"
      BY DEF At
    <2>2. ~Elsewhere(s)
      BY <2>1 DEF Elsewhere
    <2>3. other(s) /\ complete_nread(s)
      BY <2>1, <2>2, OtherWays
    <2> QED
      BY <2>3, CasReplaces
  <1> QED
    BY <1>1, <1>2, <1>3, PTL DEF CasSpec, CasSound
=============================================================================
