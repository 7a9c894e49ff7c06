--------------------------- MODULE SimpleDBProofs ---------------------------
(* Theorems about the storage engine SimpleDB.                              *)
EXTENDS SimpleDB, FiniteSetTheorems, NaturalsInduction, WellFoundedInduction,
        SequenceTheorems, TLAPS

-----------------------------------------------------------------------------
(* Numbers and recursion.                                                   *)

(* A set of numbers has a least element.                                    *)
LEMMA LeastNumber ==
  ASSUME NEW S \in SUBSET Nat, S # {}
  PROVE  /\ \E n \in S : \A k \in S : n <= k
         /\ Min(S) \in S /\ \A k \in S : Min(S) <= k
<1> DEFINE R == {ss \in Nat \X Nat : ss[1] < ss[2]}
<1>1. IsWellFoundedOn(R, Nat)
  BY NatLessThanWellFounded DEF OpToRel
<1> HIDE DEF R
<1>2. PICK n \in S : \A k \in S : <<k, n>> \notin R
  BY <1>1, WFMin
<1>3. ASSUME NEW k \in S
      PROVE  n <= k
  <2>1. k \in Nat /\ n \in Nat /\ <<k, n>> \notin R
    BY <1>2
  <2>2. k < n => <<k, n>> \in R
    BY <2>1 DEF R
  <2> QED
    BY <2>1, <2>2
<1> QED
  BY <1>3 DEF Min

(* A set that holds 0 and with n also n + 1, as far as N, holds all of them. *)
LEMMA UpTo ==
  ASSUME NEW N \in Nat, NEW S, 0 \in S, \A n \in 0..N : n < N /\ n \in S => n + 1 \in S
  PROVE  0..N \subseteq S
<1> DEFINE D == {n \in 0..N : n \notin S}
<1>1. SUFFICES ASSUME D # {} PROVE FALSE
  OBVIOUS
<1>2. D \in SUBSET Nat
  OBVIOUS
<1>3. PICK n \in D : \A k \in D : n <= k
  BY <1>1, <1>2, LeastNumber
<1>4. n \in 0..N /\ n # 0
  BY <1>3
<1>5. n - 1 \in 0..N /\ n - 1 < N /\ (n - 1) + 1 = n /\ n - 1 \notin D
  BY <1>3, <1>4
<1> QED
  BY <1>3, <1>5

(* One more pointer of a chain, and the whole of it as chain computes it.   *)
Further(f, met) ==
    LET next == db_readptr(f, Last(met))
    IN  IF next = 0 THEN met ELSE Append(met, RecOff(next))

Walk(f, at, N, c) == c = [n \in 0..N |-> IF n = 0 THEN <<at>> ELSE Further(f, c[n - 1])]

(* The recursion that defines chain has a solution.                         *)
LEMMA WalkExists ==
  ASSUME NEW f, NEW at, NEW N \in Nat
  PROVE  \E c : Walk(f, at, N, c)
<1> DEFINE S == {n \in Nat : \E c : Walk(f, at, n, c)}
<1>1. 0 \in S
  <2>1. Walk(f, at, 0, [n \in 0..0 |-> <<at>>])
    BY DEF Walk
  <2> QED
    BY <2>1
<1>2. ASSUME NEW n \in Nat, n \in S
      PROVE  n + 1 \in S
  <2>1. PICK c : Walk(f, at, n, c)
    BY <1>2
  <2> DEFINE g(h, k) == IF k = 0 THEN <<at>> ELSE Further(f, h[k - 1])
             d == [k \in 0..(n + 1) |-> g(c, k)]
  <2>2. \A k \in 0..n : c[k] = g(c, k)
    BY <2>1 DEF Walk
  <2>3. \A k \in 0..n : d[k] = c[k]
    BY <2>2
  <2>4. \A k \in 0..(n + 1) : g(d, k) = g(c, k)
    <3> TAKE k \in 0..(n + 1)
    <3>1. CASE k = 0
      BY <3>1
    <3>2. CASE k # 0
      <4>1. k - 1 \in 0..n
        BY <3>2
      <4>2. d[k - 1] = c[k - 1]
        BY <2>3, <4>1
      <4> QED
        BY <3>2, <4>2
    <3> QED
      BY <3>1, <3>2
  <2>5. d = [k \in 0..(n + 1) |-> g(d, k)]
    BY <2>4
  <2>6. Walk(f, at, n + 1, d)
    BY <2>5 DEF Walk
  <2> HIDE DEF d
  <2> QED
    BY <2>6
<1> HIDE DEF S
<1>3. 0..N \subseteq S
  BY <1>1, <1>2, UpTo
<1> QED
  BY <1>3 DEF S

(* Where a chain pointer can be.                                            *)
Locs(f) == {FREE_OFF} \cup {HashOff(b) : b \in Bucket} \cup {RecOff(n) : n \in 1..Len(f.idx)}

(* Every pointer is zero or the number of a record.                         *)
Ranged(f) ==
    /\ Len(f.idx) \in Nat
    /\ \A x \in Locs(f) : db_readptr(f, x) \in 0..Len(f.idx)

Path(f, at, p) ==
    /\ p \in Seq(Locs(f)) /\ Len(p) > 0 /\ p[1] = at
    /\ \A i \in 1..(Len(p) - 1) :
          db_readptr(f, p[i]) # 0 /\ p[i + 1] = RecOff(db_readptr(f, p[i]))

(* What chain computes: a path that ends, or has more pointers than there   *)
(* are records.                                                             *)
LEMMA ChainIsPath ==
  ASSUME NEW f, Ranged(f), NEW at \in Locs(f)
  PROVE  /\ Path(f, at, chain(f, at))
         /\ Len(chain(f, at)) \in 1..(Len(f.idx) + 1)
         /\ Last(chain(f, at)) = chain(f, at)[Len(chain(f, at))]
         /\ Ends(f, at) \/ Len(chain(f, at)) = Len(f.idx) + 1
<1> DEFINE N == Len(f.idx)
           c == CHOOSE c : Walk(f, at, N, c)
<1>1. chain(f, at) = c[N] /\ N \in Nat
  BY DEF chain, Walk, Further, Ranged
<1>2. Walk(f, at, N, c)
  BY <1>1, WalkExists
<1> HIDE DEF c, N
<1>3. c[0] = <<at>> /\ \A n \in 1..N : c[n] = Further(f, c[n - 1])
  BY <1>1, <1>2 DEF Walk
<1> DEFINE OK(p, n) == /\ Path(f, at, p) /\ Len(p) \in 1..(n + 1)
                       /\ db_readptr(f, p[Len(p)]) = 0 \/ Len(p) = n + 1
           S == {n \in 0..N : OK(c[n], n)}
<1>4. 0 \in S
  <2>1. <<at>> \in Seq(Locs(f)) /\ Len(<<at>>) = 1 /\ <<at>>[1] = at
    OBVIOUS
  <2>2. Path(f, at, <<at>>)
    BY <2>1 DEF Path
  <2>3. OK(<<at>>, 0)
    BY <2>1, <2>2
  <2>4. OK(c[0], 0) /\ 0 \in 0..N
    BY <1>1, <1>3, <2>3
  <2> HIDE DEF OK
  <2> QED
    BY <2>4
<1>5. ASSUME NEW n \in 0..N, n < N, n \in S
      PROVE  n + 1 \in S
  <2> DEFINE p == c[n]
             next == db_readptr(f, p[Len(p)])
  <2>1. OK(p, n) /\ c[n + 1] = Further(f, p) /\ n \in Nat
    BY <1>1, <1>3, <1>5
  <2> HIDE DEF p
  <2>2. Last(p) = p[Len(p)] /\ p[Len(p)] \in Locs(f)
    BY <2>1 DEF Last, Path
  <2>3. CASE next = 0
    BY <1>1, <1>5, <2>1, <2>2, <2>3 DEF Further
  <2>4. CASE next # 0
    <3> DEFINE q == Append(p, RecOff(next))
    <3>1. c[n + 1] = q
      BY <2>1, <2>2, <2>4 DEF Further
    <3>2. next \in 1..Len(f.idx) /\ RecOff(next) \in Locs(f)
      BY <2>2, <2>4 DEF Ranged, Locs
    <3>3. /\ q \in Seq(Locs(f)) /\ Len(q) = Len(p) + 1 /\ q[Len(p) + 1] = RecOff(next)
          /\ \A i \in 1..Len(p) : q[i] = p[i]
      BY <2>1, <3>2 DEF Path
    <3>4. Len(p) = n + 1
      BY <2>1, <2>4
    <3> HIDE DEF q
    <3>5. Path(f, at, q)
      <4>1. ASSUME NEW i \in 1..(Len(q) - 1)
            PROVE  db_readptr(f, q[i]) # 0 /\ q[i + 1] = RecOff(db_readptr(f, q[i]))
        <5>1. CASE i = Len(p)
          BY <2>1, <2>4, <3>3, <5>1 DEF Path
        <5>2. CASE i # Len(p)
          <6>1. i \in 1..(Len(p) - 1) /\ i + 1 \in 1..Len(p) /\ i \in 1..Len(p)
            BY <2>1, <3>3, <3>4, <5>2
          <6> QED
            BY <2>1, <3>3, <6>1 DEF Path
        <5> QED
          BY <5>1, <5>2
      <4>2. q[1] = at /\ Len(q) > 0
        BY <2>1, <3>3, <3>4 DEF Path
      <4> QED
        BY <3>3, <4>1, <4>2 DEF Path
    <3> QED
      BY <1>1, <1>5, <2>1, <3>1, <3>3, <3>4, <3>5
  <2> QED
    BY <2>3, <2>4
<1> HIDE DEF S
<1>6. 0..N \subseteq S
  BY <1>1, <1>4, <1>5, UpTo
<1>7. OK(c[N], N)
  BY <1>1, <1>6 DEF S
<1>8. Last(c[N]) = c[N][Len(c[N])]
  BY <1>7 DEF Last, Path
<1> QED
  BY <1>1, <1>7, <1>8 DEF Ends, N

(* The result of a search, and what led to it.                              *)
LEMMA SearchFinds ==
  ASSUME NEW f, Ranged(f), NEW at \in Locs(f), NEW wanted,
         NEW c, c = chain(f, at), NEW r, r = search(f, at, wanted)
  PROVE  \/ r = Nil /\ \A i \in 2..Len(c) : c[i][2] \notin wanted
         \/ /\ r # Nil /\ r.offset \in wanted /\ r.offset \in 1..Len(f.idx)
            /\ r.ptroff \in Locs(f) /\ db_readptr(f, r.ptroff) = r.offset
            /\ \E i \in 2..Len(c) : c[i] = RecOff(r.offset) /\ c[i - 1] = r.ptroff
<1> DEFINE hits == {i \in 2..Len(c) : c[i][2] \in wanted}
           i == Min(hits)
<1>1. r = IF hits = {} THEN Nil ELSE [offset |-> c[i][2], ptroff |-> c[i - 1]]
  BY DEF search
<1>2. /\ c \in Seq(Locs(f)) /\ Len(c) \in Nat
      /\ \A k \in 1..(Len(c) - 1) :
            db_readptr(f, c[k]) # 0 /\ c[k + 1] = RecOff(db_readptr(f, c[k]))
  <2>1. Path(f, at, c)
    BY ChainIsPath
  <2> QED
    BY <2>1 DEF Path
<1>3. CASE hits = {}
  BY <1>1, <1>3
<1>4. CASE hits # {}
  <2>1. hits \in SUBSET Nat
    OBVIOUS
  <2>2. i \in hits
    BY <1>4, <2>1, LeastNumber
  <2> HIDE DEF i
  <2>3. i \in 2..Len(c) /\ c[i][2] \in wanted
    BY <2>2
  <2> HIDE DEF hits
  <2> DEFINE x == c[i - 1]
             n == db_readptr(f, x)
  <2>4. i - 1 \in 1..(Len(c) - 1) /\ (i - 1) + 1 = i /\ i - 1 \in 1..Len(c)
    BY <1>2, <2>3
  <2>5. x \in Locs(f) /\ n # 0 /\ c[i] = RecOff(n)
    BY <1>2, <2>4
  <2>6. n \in 1..Len(f.idx)
    BY <2>5 DEF Ranged
  <2> HIDE DEF n, x
  <2>7. c[i][2] = n
    BY <2>5 DEF RecOff
  <2>8. r = [offset |-> n, ptroff |-> x]
    BY <1>1, <1>4, <2>7 DEF x
  <2>9. r.offset = n /\ r.ptroff = x
    BY <2>8
  <2>10. r # Nil
    <3>1. x \in Offset /\ n \in Nat
      BY <2>5, <2>6 DEF Locs, Offset, Ranged, RecOff
    <3>2. r \in [offset : Nat, ptroff : Offset]
      BY <2>8, <3>1
    <3> QED
      BY <3>2, NilAssumption
  <2>11. i \in 2..Len(c) /\ c[i] = RecOff(n) /\ c[i - 1] = x
    BY <2>3, <2>5 DEF x
  <2> QED
    BY <2>3, <2>5, <2>6, <2>7, <2>9, <2>10, <2>11 DEF n
<1> QED
  BY <1>3, <1>4

-----------------------------------------------------------------------------
(* Writes.                                                                  *)

(* Every pointer leads to a record, every record to data.                   *)
Sound(f) ==
    /\ f \in File
    /\ f.free \in 0..Len(f.idx)
    /\ \A b \in Bucket : f.head[b] \in 0..Len(f.idx)
    /\ \A n \in 1..Len(f.idx) : /\ f.idx[n].ptr \in 0..Len(f.idx)
                                /\ f.idx[n].datoff \in 1..Len(f.dat)

(* What is known of the fields of a file.                                   *)
LEMMA FileFields ==
  ASSUME NEW f \in File
  PROVE  /\ f.free \in Nat /\ f.head \in [Bucket -> Nat]
         /\ f.idx \in Seq(IndexRecord) /\ f.dat \in Seq(Data \cup {Blank})
         /\ Len(f.idx) \in Nat /\ Len(f.dat) \in Nat
         /\ \A n \in 1..Len(f.idx) :
               /\ f.idx[n] \in IndexRecord
               /\ f.idx[n].ptr \in Nat /\ f.idx[n].key \in Key \cup {Blank}
               /\ f.idx[n].datoff \in Nat /\ f.idx[n].datlen \in Nat
         /\ \A n \in 1..Len(f.dat) : f.dat[n] \in Data \cup {Blank}
<1>1. /\ f.free \in Nat /\ f.head \in [Bucket -> Nat]
      /\ f.idx \in Seq(IndexRecord) /\ f.dat \in Seq(Data \cup {Blank})
  BY DEF File
<1>2. \A n \in 1..Len(f.idx) : f.idx[n] \in IndexRecord
  BY <1>1
<1>3. \A n \in 1..Len(f.dat) : f.dat[n] \in Data \cup {Blank}
  BY <1>1
<1>4. Len(f.idx) \in Nat /\ Len(f.dat) \in Nat
  BY <1>1
<1>5. \A r \in IndexRecord : r.ptr \in Nat /\ r.key \in Key \cup {Blank}
                               /\ r.datoff \in Nat /\ r.datlen \in Nat
  BY DEF IndexRecord
<1> QED
  BY <1>1, <1>2, <1>3, <1>4, <1>5

(* What is at the three kinds of places.                                    *)
LEMMA ReadPtr ==
  ASSUME NEW f
  PROVE  /\ db_readptr(f, FREE_OFF) = f.free
         /\ \A b : db_readptr(f, HashOff(b)) = f.head[b]
         /\ \A n : db_readptr(f, RecOff(n)) = f.idx[n].ptr
BY DEF db_readptr, FREE_OFF, HashOff, RecOff

(* In a sound file every pointer is in range.                               *)
LEMMA SoundRanged ==
  ASSUME NEW f, Sound(f)
  PROVE  Ranged(f)
<1>1. Len(f.idx) \in Nat
  BY FileFields DEF Sound
<1>2. ASSUME NEW x \in Locs(f)
      PROVE  db_readptr(f, x) \in 0..Len(f.idx)
  <2>1. CASE x = FREE_OFF
    BY <2>1, ReadPtr DEF Sound
  <2>2. ASSUME NEW b \in Bucket, x = HashOff(b) PROVE db_readptr(f, x) \in 0..Len(f.idx)
    BY <2>2, ReadPtr DEF Sound
  <2>3. ASSUME NEW n \in 1..Len(f.idx), x = RecOff(n) PROVE db_readptr(f, x) \in 0..Len(f.idx)
    BY <2>3, ReadPtr DEF Sound
  <2> QED
    BY <2>1, <2>2, <2>3 DEF Locs
<1> QED
  BY <1>1, <1>2 DEF Ranged

CanPut(T, s, n, v) == s \in Seq(T) /\ n \in 1..(Len(s) + 1) /\ v \in T

(* A record is written over another or after the last.                      *)
LEMMA PutIs ==
  ASSUME NEW T, NEW s, NEW n, NEW v, CanPut(T, s, n, v)
  PROVE  /\ put(s, n, v) \in Seq(T)
         /\ Len(put(s, n, v)) = IF n = Len(s) + 1 THEN Len(s) + 1 ELSE Len(s)
         /\ put(s, n, v)[n] = v
         /\ \A m \in 1..Len(s) : m # n => put(s, n, v)[m] = s[m]
<1>1. Len(s) \in Nat /\ s \in Seq(T) /\ n \in 1..(Len(s) + 1) /\ v \in T
  BY DEF CanPut
<1>2. CASE n = Len(s) + 1
  <2>1. put(s, n, v) = Append(s, v)
    BY <1>1, <1>2 DEF put
  <2> QED
    BY <1>1, <1>2, <2>1
<1>3. CASE n # Len(s) + 1
  <2>1. put(s, n, v) = [s EXCEPT ![n] = v] /\ n \in 1..Len(s)
    BY <1>1, <1>3 DEF put
  <2>2. [s EXCEPT ![n] = v] \in Seq(T) /\ Len([s EXCEPT ![n] = v]) = Len(s)
    BY <1>1, <2>1, ExceptSeq
  <2> QED
    BY <1>3, <2>1, <2>2
<1> QED
  BY <1>2, <1>3

(* What the five writes make of a file, field by field.                     *)
Wrote(f, w, g) == f \in File /\ g = written(f, w)

(* _db_writedat changes the data file, at one place.                        *)
LEMMA WrittenDat ==
  ASSUME NEW f, NEW n, NEW d, NEW g, Wrote(f, db_writedat(n, d), g),
         n \in 1..(Len(f.dat) + 1), d \in Data \cup {Blank}
  PROVE  /\ g \in File /\ g.free = f.free /\ g.head = f.head /\ g.idx = f.idx
         /\ Len(g.dat) = IF n = Len(f.dat) + 1 THEN Len(f.dat) + 1 ELSE Len(f.dat)
         /\ g.dat[n] = d
         /\ \A m \in 1..Len(f.dat) : m # n => g.dat[m] = f.dat[m]
<1> DEFINE s == put(f.dat, n, d)
<1>0. f.dat \in Seq(Data \cup {Blank})
  BY FileFields DEF Wrote
<1>1. g = [f EXCEPT !.dat = s]
  BY DEF Wrote, written, db_writedat
<1>2. /\ s \in Seq(Data \cup {Blank})
      /\ Len(s) = IF n = Len(f.dat) + 1 THEN Len(f.dat) + 1 ELSE Len(f.dat)
      /\ s[n] = d /\ \A m \in 1..Len(f.dat) : m # n => s[m] = f.dat[m]
  <2>1. PICK T, q : T = Data \cup {Blank} /\ q = f.dat
    OBVIOUS
  <2>2. CanPut(T, q, n, d)
    BY <1>0, <2>1 DEF CanPut
  <2>3. /\ put(q, n, d) \in Seq(T)
        /\ Len(put(q, n, d)) = IF n = Len(q) + 1 THEN Len(q) + 1 ELSE Len(q)
        /\ put(q, n, d)[n] = d
        /\ \A m \in 1..Len(q) : m # n => put(q, n, d)[m] = q[m]
    BY <2>2, PutIs
  <2> QED
    BY <2>1, <2>3
<1> HIDE DEF s
<1>3. g \in File /\ g.free = f.free /\ g.head = f.head /\ g.idx = f.idx /\ g.dat = s
  BY <1>1, <1>2 DEF Wrote, File
<1> QED
  BY <1>2, <1>3

(* _db_writeidx changes one index record or adds one.                       *)
LEMMA WrittenIdx ==
  ASSUME NEW f, NEW n, NEW r, NEW g, Wrote(f, db_writeidx(n, r), g),
         n \in 1..(Len(f.idx) + 1), r \in IndexRecord
  PROVE  /\ g \in File /\ g.free = f.free /\ g.head = f.head /\ g.dat = f.dat
         /\ Len(g.idx) = IF n = Len(f.idx) + 1 THEN Len(f.idx) + 1 ELSE Len(f.idx)
         /\ g.idx[n] = r
         /\ \A m \in 1..Len(f.idx) : m # n => g.idx[m] = f.idx[m]
<1> DEFINE s == put(f.idx, n, r)
<1>0. f.idx \in Seq(IndexRecord)
  BY FileFields DEF Wrote
<1>1. g = [f EXCEPT !.idx = s]
  BY DEF Wrote, written, db_writeidx
<1>2. /\ s \in Seq(IndexRecord)
      /\ Len(s) = IF n = Len(f.idx) + 1 THEN Len(f.idx) + 1 ELSE Len(f.idx)
      /\ s[n] = r /\ \A m \in 1..Len(f.idx) : m # n => s[m] = f.idx[m]
  <2>1. PICK T, q : T = IndexRecord /\ q = f.idx
    OBVIOUS
  <2>2. CanPut(T, q, n, r)
    BY <1>0, <2>1 DEF CanPut
  <2>3. /\ put(q, n, r) \in Seq(T)
        /\ Len(put(q, n, r)) = IF n = Len(q) + 1 THEN Len(q) + 1 ELSE Len(q)
        /\ put(q, n, r)[n] = r
        /\ \A m \in 1..Len(q) : m # n => put(q, n, r)[m] = q[m]
    BY <2>2, PutIs
  <2> QED
    BY <2>1, <2>3
<1> HIDE DEF s
<1>3. g \in File /\ g.free = f.free /\ g.head = f.head /\ g.idx = s /\ g.dat = f.dat
  BY <1>1, <1>2 DEF Wrote, File
<1> QED
  BY <1>2, <1>3

(* The head of the free list is written.                                    *)
LEMMA WrittenFree ==
  ASSUME NEW f, NEW v, NEW g, Wrote(f, db_writeptr(FREE_OFF, v), g), v \in Nat
  PROVE  g \in File /\ g.free = v /\ g.head = f.head /\ g.idx = f.idx /\ g.dat = f.dat
<1>1. g = [f EXCEPT !.free = v]
  BY DEF Wrote, written, db_writeptr, FREE_OFF
<1> QED
  BY <1>1 DEF Wrote, File

(* The head of a chain is written.                                          *)
LEMMA WrittenHead ==
  ASSUME NEW f, NEW v, NEW b, NEW g, Wrote(f, db_writeptr(HashOff(b), v), g),
         v \in Nat, b \in Bucket
  PROVE  /\ g \in File /\ g.free = f.free /\ g.idx = f.idx /\ g.dat = f.dat
         /\ g.head[b] = v /\ \A a \in Bucket : a # b => g.head[a] = f.head[a]
<1> DEFINE h == [f.head EXCEPT ![b] = v]
<1>1. g = [f EXCEPT !.head = h]
  BY DEF Wrote, written, db_writeptr, HashOff, File
<1>2. h \in [Bucket -> Nat] /\ h[b] = v /\ \A a \in Bucket : a # b => h[a] = f.head[a]
  BY FileFields DEF Wrote
<1> HIDE DEF h
<1>3. g \in File /\ g.free = f.free /\ g.head = h /\ g.idx = f.idx /\ g.dat = f.dat
  BY <1>1, <1>2 DEF Wrote, File
<1> QED
  BY <1>2, <1>3

(* The pointer of an index record is written, and nothing else of it.       *)
LEMMA WrittenRec ==
  ASSUME NEW f, NEW v, NEW n, NEW g, Wrote(f, db_writeptr(RecOff(n), v), g),
         v \in Nat, n \in 1..Len(f.idx)
  PROVE  /\ g \in File /\ g.free = f.free /\ g.head = f.head /\ g.dat = f.dat
         /\ Len(g.idx) = Len(f.idx)
         /\ g.idx[n].ptr = v /\ g.idx[n].key = f.idx[n].key
         /\ g.idx[n].datoff = f.idx[n].datoff /\ g.idx[n].datlen = f.idx[n].datlen
         /\ g.idx[n].keylen = f.idx[n].keylen
         /\ \A m \in 1..Len(f.idx) : m # n => g.idx[m] = f.idx[m]
<1> DEFINE r == [f.idx[n] EXCEPT !.ptr = v]
           s == [f.idx EXCEPT ![n] = r]
<1>1. g = [f EXCEPT !.idx = s]
  BY DEF Wrote, written, db_writeptr, RecOff, File
<1>2. f.idx[n] \in IndexRecord /\ f.idx \in Seq(IndexRecord)
  BY FileFields DEF Wrote
<1>3. /\ r \in IndexRecord /\ r.ptr = v /\ r.key = f.idx[n].key
      /\ r.datoff = f.idx[n].datoff /\ r.datlen = f.idx[n].datlen
      /\ r.keylen = f.idx[n].keylen
  BY <1>2 DEF IndexRecord
<1> HIDE DEF r
<1>4. /\ s \in Seq(IndexRecord) /\ Len(s) = Len(f.idx) /\ s[n] = r
      /\ \A m \in 1..Len(f.idx) : m # n => s[m] = f.idx[m]
  BY <1>2, <1>3, ExceptSeq
<1> HIDE DEF s
<1>5. g \in File /\ g.free = f.free /\ g.head = f.head /\ g.idx = s /\ g.dat = f.dat
  BY <1>1, <1>4 DEF Wrote, File
<1> QED
  BY <1>3, <1>4, <1>5

-----------------------------------------------------------------------------
(* The files are sound at every moment, even if the process is killed.      *)

Writes ==
    {db_writedat(n, d) : n \in Nat, d \in Data \cup {Blank}}
    \cup {db_writeidx(n, r) : n \in Nat, r \in IndexRecord}
    \cup {db_writeptr(x, v) : x \in Offset, v \in Nat}

(* A write inside files of N index records and M data.                      *)
InPlace(N, M, w) ==
    \/ \E n \in 1..M, d \in Data \cup {Blank} : w = db_writedat(n, d)
    \/ \E n \in 1..N, r \in IndexRecord :
          w = db_writeidx(n, r) /\ r.ptr \in 0..N /\ r.datoff \in 1..M
    \/ \E v \in 0..N : w = db_writeptr(FREE_OFF, v)
    \/ \E v \in 0..N, b \in Bucket : w = db_writeptr(HashOff(b), v)
    \/ \E v \in 0..N, n \in 1..N : w = db_writeptr(RecOff(n), v)

(* The writes that append a record and link it, and those after the data.   *)
AppendsDat(N, M, t) ==
    \E d \in Data, r \in IndexRecord, b \in Bucket :
        /\ t = <<db_writedat(M + 1, d), db_writeidx(N + 1, r), db_writeptr(HashOff(b), N + 1)>>
        /\ r.ptr \in 0..N /\ r.datoff = M + 1

AppendsIdx(N, M, t) ==
    \E r \in IndexRecord, b \in Bucket :
        /\ t = <<db_writeidx(N + 1, r), db_writeptr(HashOff(b), N + 1)>>
        /\ r.ptr \in 0..N /\ r.datoff \in 1..M

SafeTodo(f, ws) ==
    \E u \in Seq(Writes), t \in Seq(Writes) :
        /\ ws = u \o t
        /\ \A i \in 1..Len(u) : InPlace(Len(f.idx), Len(f.dat), u[i])
        /\ \/ t = <<>>
           \/ AppendsDat(Len(f.idx), Len(f.dat), t)
           \/ AppendsIdx(Len(f.idx), Len(f.dat), t)

(* A write in place keeps a file sound, and its size.                       *)
LEMMA InPlaceSound ==
  ASSUME NEW f, Sound(f), NEW w, InPlace(Len(f.idx), Len(f.dat), w),
         NEW g, g = written(f, w)
  PROVE  Sound(g) /\ Len(g.idx) = Len(f.idx) /\ Len(g.dat) = Len(f.dat)
<1> DEFINE N == Len(f.idx)
           M == Len(f.dat)
<1>w. Wrote(f, w, g)
  BY DEF Wrote, Sound
<1>0. f \in File /\ N \in Nat /\ M \in Nat /\ \A n \in 1..N : f.idx[n] \in IndexRecord
  BY FileFields DEF Sound
<1>0a. \A v \in 0..N : v \in Nat
  BY <1>0
<1>1. ASSUME NEW n \in 1..M, NEW d \in Data \cup {Blank}, w = db_writedat(n, d)
      PROVE  Sound(g) /\ Len(g.idx) = N /\ Len(g.dat) = M
  <2>1. n \in 1..(Len(f.dat) + 1) /\ n # M + 1
    BY <1>0
  <2>2. g \in File /\ g.free = f.free /\ g.head = f.head /\ g.idx = f.idx /\ Len(g.dat) = M
    BY <1>w, <1>1, <2>1, WrittenDat
  <2> QED
    BY <2>2 DEF Sound
<1>2. ASSUME NEW n \in 1..N, NEW r \in IndexRecord, w = db_writeidx(n, r),
             r.ptr \in 0..N, r.datoff \in 1..M
      PROVE  Sound(g) /\ Len(g.idx) = N /\ Len(g.dat) = M
  <2>1. n \in 1..(Len(f.idx) + 1) /\ n # N + 1
    BY <1>0
  <2>2. /\ g \in File /\ g.free = f.free /\ g.head = f.head /\ g.dat = f.dat /\ Len(g.idx) = N
        /\ g.idx[n] = r /\ \A m \in 1..N : m # n => g.idx[m] = f.idx[m]
    BY <1>w, <1>2, <2>1, WrittenIdx
  <2> QED
    BY <1>2, <2>2 DEF Sound
<1>3. ASSUME NEW v \in 0..N, w = db_writeptr(FREE_OFF, v)
      PROVE  Sound(g) /\ Len(g.idx) = N /\ Len(g.dat) = M
  <2>1. g \in File /\ g.free = v /\ g.head = f.head /\ g.idx = f.idx /\ g.dat = f.dat
    BY <1>w, <1>0a, <1>3, WrittenFree
  <2> QED
    BY <2>1 DEF Sound
<1>4. ASSUME NEW v \in 0..N, NEW b \in Bucket, w = db_writeptr(HashOff(b), v)
      PROVE  Sound(g) /\ Len(g.idx) = N /\ Len(g.dat) = M
  <2>1. /\ g \in File /\ g.free = f.free /\ g.idx = f.idx /\ g.dat = f.dat
        /\ g.head[b] = v /\ \A a \in Bucket : a # b => g.head[a] = f.head[a]
    BY <1>w, <1>0a, <1>4, WrittenHead
  <2> QED
    BY <2>1 DEF Sound
<1>5. ASSUME NEW v \in 0..N, NEW n \in 1..N, w = db_writeptr(RecOff(n), v)
      PROVE  Sound(g) /\ Len(g.idx) = N /\ Len(g.dat) = M
  <2>1. /\ g \in File /\ g.free = f.free /\ g.head = f.head /\ g.dat = f.dat /\ Len(g.idx) = N
        /\ g.idx[n].ptr = v /\ g.idx[n].datoff = f.idx[n].datoff
        /\ \A m \in 1..N : m # n => g.idx[m] = f.idx[m]
    BY <1>w, <1>0a, <1>5, WrittenRec
  <2> QED
    BY <2>1 DEF Sound
<1> QED
  BY <1>1, <1>2, <1>3, <1>4, <1>5 DEF InPlace

(* So does a step of an operation, and leaves writes that are safe.         *)
LEMMA SafeStep ==
  ASSUME NEW f, Sound(f), NEW ws, SafeTodo(f, ws), ws # <<>>,
         NEW g, g = written(f, Head(ws))
  PROVE  Sound(g) /\ SafeTodo(g, Tail(ws))
<1> DEFINE N == Len(f.idx)
           M == Len(f.dat)
<1>w. Wrote(f, Head(ws), g)
  BY DEF Wrote, Sound
<1>0. f \in File /\ N \in Nat /\ M \in Nat /\ \A n \in 1..N : f.idx[n] \in IndexRecord
  BY FileFields DEF Sound
<1>1. PICK u \in Seq(Writes), t \in Seq(Writes) :
        /\ ws = u \o t /\ \A i \in 1..Len(u) : InPlace(N, M, u[i])
        /\ t = <<>> \/ AppendsDat(N, M, t) \/ AppendsIdx(N, M, t)
  BY DEF SafeTodo
<1>2. CASE u # <<>>
  <2>1. /\ Head(ws) = u[1] /\ Tail(ws) = Tail(u) \o t /\ Tail(u) \in Seq(Writes)
        /\ 1 \in 1..Len(u)
        /\ \A i \in 1..Len(Tail(u)) : i + 1 \in 1..Len(u) /\ Tail(u)[i] = u[i + 1]
    BY <1>1, <1>2
  <2>2. Sound(g) /\ Len(g.idx) = N /\ Len(g.dat) = M
    BY <1>1, <2>1, InPlaceSound
  <2>3. \A i \in 1..Len(Tail(u)) : InPlace(N, M, Tail(u)[i])
    BY <1>1, <2>1
  <2> QED
    BY <1>1, <2>1, <2>2, <2>3 DEF SafeTodo
<1>3. CASE u = <<>> /\ AppendsDat(N, M, t)
  <2>1. PICK d \in Data, r \in IndexRecord, b \in Bucket :
          /\ t = <<db_writedat(M + 1, d), db_writeidx(N + 1, r), db_writeptr(HashOff(b), N + 1)>>
          /\ r.ptr \in 0..N /\ r.datoff = M + 1
    BY <1>3 DEF AppendsDat
  <2>2. ws = t
    BY <1>1, <1>3
  <2>3. Head(ws) = db_writedat(M + 1, d)
    BY <2>1, <2>2
  <2>4. Tail(ws) = <<db_writeidx(N + 1, r), db_writeptr(HashOff(b), N + 1)>>
    BY <2>1, <2>2
  <2>5. /\ g \in File /\ g.free = f.free /\ g.head = f.head /\ g.idx = f.idx
        /\ Len(g.dat) = M + 1
    BY <1>w, <1>0, <2>3, WrittenDat
  <2>6. Sound(g)
    <3>1. \A n \in 1..N : f.idx[n].datoff \in 1..(M + 1)
      BY <1>0 DEF Sound
    <3> QED
      BY <2>5, <3>1 DEF Sound
  <2>7. AppendsIdx(Len(g.idx), Len(g.dat), Tail(ws))
    <3>1. Len(g.idx) = N /\ Len(g.dat) = M + 1 /\ r.datoff \in 1..(M + 1)
      BY <1>0, <2>1, <2>5
    <3> HIDE DEF N, M
    <3>2. AppendsIdx(N, M + 1, Tail(ws))
      BY <2>1, <2>4, <3>1 DEF AppendsIdx
    <3> QED
      BY <3>1, <3>2
  <2>8a. <<>> \in Seq(Writes) /\ Len(<<>>) = 0
    OBVIOUS
  <2>8. PICK e \in Seq(Writes) : e = <<>> /\ Len(e) = 0
    BY <2>8a
  <2>9. Tail(ws) \in Seq(Writes) /\ Tail(ws) = e \o Tail(ws)
    BY <2>1, <2>2, <2>8
  <2>10. \A i \in 1..Len(e) : InPlace(Len(g.idx), Len(g.dat), e[i])
    BY <2>8
  <2> QED
    BY <2>6, <2>7, <2>9, <2>10 DEF SafeTodo
<1>4. CASE u = <<>> /\ AppendsIdx(N, M, t)
  <2>1. PICK r \in IndexRecord, b \in Bucket :
          /\ t = <<db_writeidx(N + 1, r), db_writeptr(HashOff(b), N + 1)>>
          /\ r.ptr \in 0..N /\ r.datoff \in 1..M
    BY <1>4 DEF AppendsIdx
  <2>2. ws = t
    BY <1>1, <1>4
  <2>3. Head(ws) = db_writeidx(N + 1, r)
    BY <2>1, <2>2
  <2>4. Tail(ws) = <<db_writeptr(HashOff(b), N + 1)>>
    BY <2>1, <2>2
  <2>5. /\ g \in File /\ g.free = f.free /\ g.head = f.head /\ g.dat = f.dat
        /\ Len(g.idx) = N + 1 /\ g.idx[N + 1] = r
        /\ \A m \in 1..N : m # N + 1 => g.idx[m] = f.idx[m]
    BY <1>w, <1>0, <2>3, WrittenIdx
  <2>6. Sound(g)
    <3>1. ASSUME NEW n \in 1..(N + 1)
          PROVE  g.idx[n].ptr \in 0..(N + 1) /\ g.idx[n].datoff \in 1..M
      <4>1. CASE n = N + 1
        BY <1>0, <2>1, <2>5, <4>1
      <4>2. CASE n # N + 1
        <5>1. n \in 1..N
          BY <1>0, <4>2
        <5>2. g.idx[n] = f.idx[n]
          BY <2>5, <4>2, <5>1
        <5>3. f.idx[n].ptr \in 0..N /\ f.idx[n].datoff \in 1..M
          BY <5>1 DEF Sound
        <5> QED
          BY <1>0, <5>2, <5>3
      <4> QED
        BY <4>1, <4>2
    <3>2. f.free \in 0..(N + 1) /\ \A a \in Bucket : f.head[a] \in 0..(N + 1)
      BY <1>0 DEF Sound
    <3> QED
      BY <2>5, <3>1, <3>2 DEF Sound
  <2>7. InPlace(Len(g.idx), Len(g.dat), db_writeptr(HashOff(b), N + 1))
    <3>1. N + 1 \in 0..Len(g.idx)
      BY <1>0, <2>5
    <3> QED
      BY <3>1 DEF InPlace
  <2>8. Tail(ws) \in Seq(Writes) /\ Tail(ws) = Tail(ws) \o <<>> /\ <<>> \in Seq(Writes)
    BY <2>1, <2>2
  <2>9. \A i \in 1..Len(Tail(ws)) : InPlace(Len(g.idx), Len(g.dat), Tail(ws)[i])
    <3>1. PICK x, q : x = db_writeptr(HashOff(b), N + 1) /\ q = Tail(ws)
      OBVIOUS
    <3>2. q = <<x>>
      BY <2>4, <3>1
    <3>3. Len(q) = 1 /\ q[1] = x
      BY <3>2
    <3>4. \A i \in 1..Len(q) : i = 1
      BY <3>3
    <3> QED
      BY <2>7, <3>1, <3>3, <3>4
  <2> QED
    BY <2>6, <2>8, <2>9 DEF SafeTodo
<1> QED
  BY <1>1, <1>2, <1>3, <1>4

(* allWritten, write by write.                                              *)
Fold(f, ws, N, g) == g = [n \in 0..N |-> IF n = 0 THEN f ELSE written(g[n - 1], ws[n])]

(* The recursion that defines allWritten has a solution.                    *)
LEMMA FoldExists ==
  ASSUME NEW f, NEW ws, NEW N \in Nat
  PROVE  \E g : Fold(f, ws, N, g)
<1> DEFINE S == {n \in Nat : \E g : Fold(f, ws, n, g)}
<1>1. 0 \in S
  <2>1. Fold(f, ws, 0, [n \in 0..0 |-> f])
    BY DEF Fold
  <2> QED
    BY <2>1
<1>2. ASSUME NEW n \in Nat, n \in S
      PROVE  n + 1 \in S
  <2>1. PICK c : Fold(f, ws, n, c)
    BY <1>2
  <2> DEFINE g(h, k) == IF k = 0 THEN f ELSE written(h[k - 1], ws[k])
             d == [k \in 0..(n + 1) |-> g(c, k)]
  <2>2. \A k \in 0..n : c[k] = g(c, k)
    BY <2>1 DEF Fold
  <2>3. \A k \in 0..n : d[k] = c[k]
    BY <2>2
  <2>4. \A k \in 0..(n + 1) : g(d, k) = g(c, k)
    <3> TAKE k \in 0..(n + 1)
    <3>1. CASE k = 0
      BY <3>1
    <3>2. CASE k # 0
      <4>1. k - 1 \in 0..n
        BY <3>2
      <4>2. d[k - 1] = c[k - 1]
        BY <2>3, <4>1
      <4> QED
        BY <3>2, <4>2
    <3> QED
      BY <3>1, <3>2
  <2>5. d = [k \in 0..(n + 1) |-> g(d, k)]
    BY <2>4
  <2>6. Fold(f, ws, n + 1, d)
    BY <2>5 DEF Fold
  <2> HIDE DEF d
  <2> QED
    BY <2>6
<1> HIDE DEF S
<1>3. 0..N \subseteq S
  BY <1>1, <1>2, UpTo
<1> QED
  BY <1>3 DEF S

(* allWritten makes one write after the other.                              *)
LEMMA AllWrittenIs ==
  ASSUME NEW f, NEW ws, Len(ws) \in Nat
  PROVE  \E g : /\ allWritten(f, ws) = g[Len(ws)] /\ g[0] = f
                /\ \A n \in 1..Len(ws) : g[n] = written(g[n - 1], ws[n])
<1> DEFINE N == Len(ws)
           g == CHOOSE g : Fold(f, ws, N, g)
<1>1. allWritten(f, ws) = g[N]
  BY DEF allWritten, Fold
<1>2. Fold(f, ws, N, g)
  BY FoldExists
<1> HIDE DEF g, N
<1>3. N \in Nat
  BY DEF N
<1>4. g[0] = f /\ \A n \in 1..N : g[n] = written(g[n - 1], ws[n])
  BY <1>2, <1>3 DEF Fold
<1> QED
  BY <1>1, <1>4 DEF N

(* The four writes of _db_dodelete.                                         *)
LEMMA AllWritten4 ==
  ASSUME NEW f, NEW a, NEW b, NEW c, NEW d
  PROVE  allWritten(f, <<a, b, c, d>>) = written(written(written(written(f, a), b), c), d)
<1>1. PICK ws : ws = <<a, b, c, d>>
  OBVIOUS
<1>2. Len(ws) = 4 /\ ws[1] = a /\ ws[2] = b /\ ws[3] = c /\ ws[4] = d
  BY <1>1
<1>3. PICK g : /\ allWritten(f, ws) = g[4] /\ g[0] = f
               /\ \A n \in 1..4 : g[n] = written(g[n - 1], ws[n])
  BY <1>2, AllWrittenIs
<1>4. /\ g[1] = written(g[0], ws[1]) /\ g[2] = written(g[1], ws[2])
      /\ g[3] = written(g[2], ws[3]) /\ g[4] = written(g[3], ws[4])
  <2>1. g[1] = written(g[1 - 1], ws[1]) /\ g[2] = written(g[2 - 1], ws[2])
        /\ g[3] = written(g[3 - 1], ws[3]) /\ g[4] = written(g[4 - 1], ws[4])
    BY <1>3
  <2> QED
    BY <2>1
<1> QED
  BY <1>1, <1>2, <1>3, <1>4

(* The writes that are left after n.                                        *)
Rest(ws, n) == SubSeq(ws, n + 1, Len(ws))

(* What is left of the writes after n of them.                              *)
LEMMA RestIs ==
  ASSUME NEW T, NEW ws \in Seq(T)
  PROVE  /\ Len(ws) \in Nat /\ Rest(ws, 0) = ws /\ Rest(ws, Len(ws)) = <<>>
         /\ \A n \in 0..Len(ws) : n < Len(ws) =>
              /\ Rest(ws, n) # <<>> /\ Head(Rest(ws, n)) = ws[n + 1]
              /\ Tail(Rest(ws, n)) = Rest(ws, n + 1)
<1>1. Len(ws) \in Nat
  OBVIOUS
<1>2. Rest(ws, 0) = ws
  BY <1>1 DEF Rest
<1>3. Rest(ws, Len(ws)) = <<>>
  BY <1>1 DEF Rest
<1>4. ASSUME NEW n \in 0..Len(ws), n < Len(ws)
      PROVE  /\ Rest(ws, n) # <<>> /\ Head(Rest(ws, n)) = ws[n + 1]
             /\ Tail(Rest(ws, n)) = Rest(ws, n + 1)
  <2>1. Rest(ws, n) \in Seq(T) /\ Len(Rest(ws, n)) = Len(ws) - n
        /\ \A i \in 1..(Len(ws) - n) : Rest(ws, n)[i] = ws[n + i]
    BY <1>1, <1>4 DEF Rest
  <2>2. Rest(ws, n + 1) \in Seq(T) /\ Len(Rest(ws, n + 1)) = Len(ws) - n - 1
        /\ \A i \in 1..(Len(ws) - n - 1) : Rest(ws, n + 1)[i] = ws[n + 1 + i]
    BY <1>1, <1>4 DEF Rest
  <2>3. Rest(ws, n) # <<>> /\ Head(Rest(ws, n)) = ws[n + 1]
    BY <1>1, <1>4, <2>1
  <2>4. PICK z, p \in Seq(T) : z = Rest(ws, n) /\ p = Rest(ws, n + 1)
    BY <2>1, <2>2
  <2>5. /\ Tail(z) \in Seq(T) /\ Len(Tail(z)) = Len(ws) - n - 1
        /\ \A i \in 1..(Len(ws) - n - 1) : Tail(z)[i] = z[i + 1]
    BY <1>1, <1>4, <2>1, <2>3, <2>4
  <2>6. \A i \in 1..(Len(ws) - n - 1) :
          i + 1 \in 1..(Len(ws) - n) /\ n + (i + 1) = n + 1 + i
    BY <1>1, <1>4
  <2>7. Len(p) = Len(ws) - n - 1 /\ \A i \in 1..(Len(ws) - n - 1) : Tail(z)[i] = p[i]
    BY <2>1, <2>2, <2>4, <2>5, <2>6
  <2>8. Tail(z) = p
    BY <2>5, <2>7, SeqEqual
  <2> QED
    BY <2>3, <2>4, <2>8
<1> QED
  BY <1>1, <1>2, <1>3, <1>4

(* A whole operation leaves a sound file.                                   *)
LEMMA AllSafe ==
  ASSUME NEW f, Sound(f), NEW ws \in Seq(Writes), SafeTodo(f, ws)
  PROVE  Sound(allWritten(f, ws))
<1>1. PICK g : /\ allWritten(f, ws) = g[Len(ws)] /\ g[0] = f
               /\ \A n \in 1..Len(ws) : g[n] = written(g[n - 1], ws[n])
  <2>1. Len(ws) \in Nat
    OBVIOUS
  <2> QED
    BY <2>1, AllWrittenIs
<1> DEFINE N == Len(ws)
           S == {n \in 0..N : Sound(g[n]) /\ SafeTodo(g[n], Rest(ws, n))}
<1>2. N \in Nat /\ 0 \in S
  <2>1. N \in Nat /\ Rest(ws, 0) = ws
    BY RestIs
  <2>2. 0 \in 0..N
    BY <2>1
  <2> QED
    BY <1>1, <2>1, <2>2
<1>3. ASSUME NEW n \in 0..N, n < N, n \in S
      PROVE  n + 1 \in S
  <2>1. /\ Rest(ws, n) # <<>> /\ Head(Rest(ws, n)) = ws[n + 1]
        /\ Tail(Rest(ws, n)) = Rest(ws, n + 1)
    BY <1>3, RestIs
  <2>2. g[n + 1] = written(g[n], ws[n + 1]) /\ n + 1 \in 0..N
    <3>1. n + 1 \in 1..N /\ (n + 1) - 1 = n
      BY <1>2, <1>3
    <3> QED
      BY <1>1, <3>1
  <2>3. Sound(g[n]) /\ SafeTodo(g[n], Rest(ws, n))
    BY <1>3
  <2>4. Sound(g[n + 1]) /\ SafeTodo(g[n + 1], Rest(ws, n + 1))
    BY <2>1, <2>2, <2>3, SafeStep
  <2> QED
    BY <2>2, <2>4
<1> HIDE DEF S
<1>4. 0..N \subseteq S
  BY <1>2, <1>3, UpTo
<1> QED
  BY <1>1, <1>2, <1>4 DEF S

(* The writes that the engine makes are safe.                               *)
LEMMA PtrInPlace ==
  ASSUME NEW f, NEW x \in Locs(f), NEW v \in 0..Len(f.idx)
  PROVE  InPlace(Len(f.idx), Len(f.dat), db_writeptr(x, v))
BY DEF Locs, InPlace

(* A record whose key and pointer are changed.                              *)
Rekeyed(r, k, v) == [r EXCEPT !.key = k, !.ptr = v]

(* A record with another key and another pointer keeps its data.            *)
LEMMA RecordChanged ==
  ASSUME NEW r, NEW k, NEW v, r \in IndexRecord, k \in Key \cup {Blank}, v \in Nat,
         NEW s, s = Rekeyed(r, k, v)
  PROVE  /\ s \in IndexRecord /\ s.key = k /\ s.ptr = v
         /\ s.keylen = r.keylen /\ s.datoff = r.datoff /\ s.datlen = r.datlen
BY DEF IndexRecord, Rekeyed

InPlaceAll(f, u) ==
    /\ u \in Seq(Writes)
    /\ \A i \in 1..Len(u) : InPlace(Len(f.idx), Len(f.dat), u[i])

(* Four writes in place.                                                    *)
LEMMA FourInPlace ==
  ASSUME NEW f, NEW a \in Writes, NEW b \in Writes, NEW c \in Writes, NEW d \in Writes,
         InPlace(Len(f.idx), Len(f.dat), a), InPlace(Len(f.idx), Len(f.dat), b),
         InPlace(Len(f.idx), Len(f.dat), c), InPlace(Len(f.idx), Len(f.dat), d)
  PROVE  InPlaceAll(f, <<a, b, c, d>>)
<1>1. PICK u : u = <<a, b, c, d>>
  OBVIOUS
<1>2. u \in Seq(Writes) /\ Len(u) = 4 /\ u[1] = a /\ u[2] = b /\ u[3] = c /\ u[4] = d
  BY <1>1
<1>3. \A i \in 1..4 : i = 1 \/ i = 2 \/ i = 3 \/ i = 4
  OBVIOUS
<1> QED
  BY <1>1, <1>2, <1>3 DEF InPlaceAll

(* A write in place is typed.                                               *)
LEMMA InPlaceIsWrite ==
  ASSUME NEW N \in Nat, NEW M \in Nat, NEW w, InPlace(N, M, w)
  PROVE  w \in Writes
<1>0. \A v \in 0..N : v \in Nat
  OBVIOUS
<1>1. ASSUME NEW n \in 1..M, NEW d \in Data \cup {Blank}, w = db_writedat(n, d)
      PROVE  w \in Writes
  BY <1>1 DEF Writes
<1>2. ASSUME NEW n \in 1..N, NEW r \in IndexRecord, w = db_writeidx(n, r)
      PROVE  w \in Writes
  BY <1>2 DEF Writes
<1>3. ASSUME NEW x, NEW v \in 0..N, w = db_writeptr(x, v), x \in Offset
      PROVE  w \in Writes
  BY <1>0, <1>3 DEF Writes
<1>4. FREE_OFF \in Offset /\ (\A b \in Bucket : HashOff(b) \in Offset)
      /\ \A n \in 1..N : RecOff(n) \in Offset
  BY DEF Offset, RecOff
<1> QED
  BY <1>1, <1>2, <1>3, <1>4 DEF InPlace

(* What was found is a record, and what led to it a place.                  *)
Located(f, at) ==
    /\ at.offset \in 1..Len(f.idx) /\ at.ptroff \in Locs(f)
    /\ db_readptr(f, at.ptroff) = at.offset

(* The writes of _db_dodelete are in place.                                 *)
LEMMA DeleteSafe ==
  ASSUME NEW f, Sound(f), NEW at, Located(f, at)
  PROVE  InPlaceAll(f, db_dodelete(f, at))
<1> DEFINE N == Len(f.idx)
           M == Len(f.dat)
           n == at.offset
           r == f.idx[n]
           s == Rekeyed(r, Blank, f.free)
<1>1. /\ N \in Nat /\ M \in Nat /\ n \in 1..N /\ r \in IndexRecord /\ f.free \in Nat
      /\ f.free \in 0..N /\ r.ptr \in 0..N /\ r.datoff \in 1..M
  BY FileFields DEF Sound, Located
<1> HIDE DEF r
<1>2. s \in IndexRecord /\ s.ptr = f.free /\ s.datoff = r.datoff
  BY <1>1, RecordChanged
<1>3. db_dodelete(f, at) = <<db_writedat(r.datoff, Blank), db_writeidx(n, s),
                             db_writeptr(FREE_OFF, n), db_writeptr(at.ptroff, r.ptr)>>
  BY DEF db_dodelete, r, Rekeyed
<1> HIDE DEF s
<1>4. InPlace(N, M, db_writedat(r.datoff, Blank)) /\ InPlace(N, M, db_writeidx(n, s))
  BY <1>1, <1>2 DEF InPlace
<1>5. InPlace(N, M, db_writeptr(FREE_OFF, n)) /\ InPlace(N, M, db_writeptr(at.ptroff, r.ptr))
  <2>1. FREE_OFF \in Locs(f) /\ at.ptroff \in Locs(f) /\ n \in 0..N
    BY <1>1 DEF Locs, Located
  <2> QED
    BY <1>1, <2>1, PtrInPlace
<1> HIDE DEF N, M, n
<1>6. /\ db_writedat(r.datoff, Blank) \in Writes /\ db_writeidx(n, s) \in Writes
      /\ db_writeptr(FREE_OFF, n) \in Writes /\ db_writeptr(at.ptroff, r.ptr) \in Writes
  BY <1>1, <1>4, <1>5, InPlaceIsWrite
<1> QED
  BY <1>3, <1>4, <1>5, <1>6, FourInPlace DEF N, M

(* So are those that use a record of the free list again.                   *)
LEMMA ReuseSafe ==
  ASSUME NEW f, Sound(f), NEW at, Located(f, at), NEW key \in Key, NEW data \in Data
  PROVE  InPlaceAll(f, reused(f, at, key, data))
<1> DEFINE N == Len(f.idx)
           M == Len(f.dat)
           n == at.offset
           r == f.idx[n]
           h == f.head[hash[key]]
           s == Rekeyed(r, key, h)
<1>0. hash[key] \in Bucket
  BY SimpleDBAssumption
<1>1. /\ N \in Nat /\ M \in Nat /\ n \in 1..N /\ r \in IndexRecord
      /\ h \in 0..N /\ h \in Nat /\ r.ptr \in 0..N /\ r.datoff \in 1..M
  BY <1>0, FileFields DEF Sound, Located
<1> HIDE DEF r, h
<1>2. s \in IndexRecord /\ s.ptr = h /\ s.datoff = r.datoff
  BY <1>1, RecordChanged
<1>3. reused(f, at, key, data) =
        <<db_writeptr(at.ptroff, r.ptr), db_writedat(r.datoff, data), db_writeidx(n, s),
          db_writeptr(HashOff(hash[key]), n)>>
  BY DEF reused, r, h, Rekeyed
<1> HIDE DEF s
<1>4. InPlace(N, M, db_writedat(r.datoff, data)) /\ InPlace(N, M, db_writeidx(n, s))
  BY <1>1, <1>2 DEF InPlace
<1>5. /\ InPlace(N, M, db_writeptr(HashOff(hash[key]), n))
      /\ InPlace(N, M, db_writeptr(at.ptroff, r.ptr))
  <2>1. HashOff(hash[key]) \in Locs(f) /\ at.ptroff \in Locs(f) /\ n \in 0..N
    BY <1>0, <1>1 DEF Locs, Located
  <2> QED
    BY <1>1, <2>1, PtrInPlace
<1> HIDE DEF N, M, n
<1>6. /\ db_writedat(r.datoff, data) \in Writes /\ db_writeidx(n, s) \in Writes
      /\ db_writeptr(HashOff(hash[key]), n) \in Writes
      /\ db_writeptr(at.ptroff, r.ptr) \in Writes
  BY <1>1, <1>4, <1>5, InPlaceIsWrite
<1> QED
  BY <1>3, <1>4, <1>5, <1>6, FourInPlace DEF N, M

(* The writes that append a record fit the ends of the two files.           *)
LEMMA AppendSafe ==
  ASSUME NEW f, Sound(f), NEW key \in Key, NEW data \in Data
  PROVE  /\ appended(f, key, data) \in Seq(Writes)
         /\ AppendsDat(Len(f.idx), Len(f.dat), appended(f, key, data))
<1> DEFINE N == Len(f.idx)
           M == Len(f.dat)
           h == f.head[hash[key]]
           s == [ptr |-> h, key |-> key, keylen |-> keylen[key],
                 datoff |-> M + 1, datlen |-> datlen[data]]
<1>0. hash[key] \in Bucket /\ keylen[key] \in Nat /\ datlen[data] \in Nat
  BY SimpleDBAssumption
<1>1. N \in Nat /\ M \in Nat /\ h \in 0..N /\ h \in Nat
  BY <1>0, FileFields DEF Sound
<1> HIDE DEF h
<1>2. s \in IndexRecord /\ s.ptr = h /\ s.datoff = M + 1
  BY <1>0, <1>1 DEF IndexRecord
<1>3. appended(f, key, data) = <<db_writedat(M + 1, data), db_writeidx(N + 1, s),
                                 db_writeptr(HashOff(hash[key]), N + 1)>>
  BY DEF appended, h
<1> HIDE DEF s, N, M
<1>4. AppendsDat(N, M, appended(f, key, data))
  BY <1>0, <1>1, <1>2, <1>3 DEF AppendsDat
<1>5. /\ db_writedat(M + 1, data) \in Writes /\ db_writeidx(N + 1, s) \in Writes
      /\ db_writeptr(HashOff(hash[key]), N + 1) \in Writes
  <2>1. M + 1 \in Nat /\ N + 1 \in Nat /\ HashOff(hash[key]) \in Offset
    BY <1>0, <1>1 DEF Offset
  <2> QED
    BY <1>2, <2>1 DEF Writes
<1> QED
  BY <1>3, <1>4, <1>5 DEF N, M

(* A search for a key finds a record of the key, or nothing.                *)
LEMMA FindIs ==
  ASSUME NEW f, Sound(f), NEW key \in Key, db_find(f, key) # Nil
  PROVE  /\ Located(f, db_find(f, key))
         /\ f.idx[db_find(f, key).offset].key = key
<1> DEFINE W == {n \in 1..Len(f.idx) : f.idx[n].key = key}
           at == HashOff(hash[key])
           r == search(f, at, W)
<1>1. Ranged(f) /\ at \in Locs(f)
  BY SoundRanged, SimpleDBAssumption DEF Locs
<1>2. db_find(f, key) = r
  BY DEF db_find, withKey
<1>3. /\ r.offset \in W /\ r.offset \in 1..Len(f.idx)
      /\ r.ptroff \in Locs(f) /\ db_readptr(f, r.ptroff) = r.offset
  <2>1. PICK V, x, c, q : V = W /\ x = at /\ c = chain(f, x) /\ q = search(f, x, V)
    OBVIOUS
  <2>2. /\ q.offset \in V /\ q.offset \in 1..Len(f.idx)
        /\ q.ptroff \in Locs(f) /\ db_readptr(f, q.ptroff) = q.offset
    <3> HIDE DEF W
    <3> QED
      BY <1>1, <1>2, <2>1, SearchFinds
  <2> QED
    BY <2>1, <2>2
<1> QED
  BY <1>2, <1>3 DEF Located

(* A search of the free list finds a record of the right size, or nothing.  *)
LEMMA FindFreeIs ==
  ASSUME NEW f, Sound(f), NEW key \in Key, NEW data \in Data,
         db_findfree(f, key, data) # Nil
  PROVE  /\ Located(f, db_findfree(f, key, data))
         /\ f.idx[db_findfree(f, key, data).offset].datlen = datlen[data]
<1> DEFINE W == {n \in 1..Len(f.idx) : /\ f.idx[n].keylen = keylen[key]
                                       /\ f.idx[n].datlen = datlen[data]}
           r == search(f, FREE_OFF, W)
<1>1. Ranged(f) /\ FREE_OFF \in Locs(f)
  BY SoundRanged DEF Locs
<1>2. db_findfree(f, key, data) = r
  BY DEF db_findfree, fitting
<1>3. /\ r.offset \in W /\ r.offset \in 1..Len(f.idx)
      /\ r.ptroff \in Locs(f) /\ db_readptr(f, r.ptroff) = r.offset
  <2>1. PICK V, x, c, q : V = W /\ x = FREE_OFF /\ c = chain(f, x) /\ q = search(f, x, V)
    OBVIOUS
  <2>2. /\ q.offset \in V /\ q.offset \in 1..Len(f.idx)
        /\ q.ptroff \in Locs(f) /\ db_readptr(f, q.ptroff) = q.offset
    <3> HIDE DEF W
    <3> QED
      BY <1>1, <1>2, <2>1, SearchFinds
  <2> QED
    BY <2>1, <2>2
<1> QED
  BY <1>2, <1>3 DEF Located

(* What a key can hold.                                                     *)
Value == Data \cup {Blank, Nil}

(* What a key holds is data, blank or nothing.                              *)
LEMMA ReadDatIs ==
  ASSUME NEW f, Sound(f), NEW key \in Key
  PROVE  db_readdat(f, key) \in Value
<1> DEFINE at == db_find(f, key)
           n == at.offset
<1>1. CASE at = Nil
  BY <1>1 DEF db_readdat, Value
<1>2. CASE at # Nil
  <2>1. n \in 1..Len(f.idx)
    BY <1>2, FindIs DEF Located
  <2>2. f.idx[n].datoff \in 1..Len(f.dat)
    BY <2>1 DEF Sound
  <2>3. f.dat[f.idx[n].datoff] \in Data \cup {Blank}
    BY <2>2, FileFields DEF Sound
  <2> QED
    BY <1>2, <2>3 DEF db_readdat, Value
<1> QED
  BY <1>1, <1>2

(* The writes of an operation are safe: none, in place, appending, or both. *)
LEMMA SafeNone ==
  ASSUME NEW f
  PROVE  <<>> \in Seq(Writes) /\ SafeTodo(f, <<>>)
<1>1. <<>> \in Seq(Writes) /\ Len(<<>>) = 0
  OBVIOUS
<1>2. PICK e \in Seq(Writes) : e = <<>> /\ Len(e) = 0
  BY <1>1
<1>3. e = e \o e
  BY <1>2
<1>4. \A i \in 1..Len(e) : InPlace(Len(f.idx), Len(f.dat), e[i])
  BY <1>2
<1>5. SafeTodo(f, e)
  BY <1>2, <1>3, <1>4 DEF SafeTodo
<1> QED
  BY <1>1, <1>2, <1>5

(* Writes in place are safe.                                                *)
LEMMA SafeInPlace ==
  ASSUME NEW f, NEW u, InPlaceAll(f, u)
  PROVE  u \in Seq(Writes) /\ SafeTodo(f, u)
<1>1. u \in Seq(Writes) /\ \A i \in 1..Len(u) : InPlace(Len(f.idx), Len(f.dat), u[i])
  BY DEF InPlaceAll
<1>2. u = u \o <<>> /\ <<>> \in Seq(Writes)
  BY <1>1
<1> QED
  BY <1>1, <1>2 DEF SafeTodo

(* Writes that append a record are safe.                                    *)
LEMMA SafeAppends ==
  ASSUME NEW f, NEW t \in Seq(Writes), AppendsDat(Len(f.idx), Len(f.dat), t)
  PROVE  SafeTodo(f, t)
<1>1. <<>> \in Seq(Writes) /\ Len(<<>>) = 0
  OBVIOUS
<1>2. PICK e \in Seq(Writes) : e = <<>> /\ Len(e) = 0
  BY <1>1
<1>3. t = e \o t
  BY <1>2
<1>4. \A i \in 1..Len(e) : InPlace(Len(f.idx), Len(f.dat), e[i])
  BY <1>2
<1> QED
  BY <1>3, <1>4 DEF SafeTodo

(* So are the former followed by the latter.                                *)
LEMMA SafeBoth ==
  ASSUME NEW f, NEW u, InPlaceAll(f, u), NEW t \in Seq(Writes),
         AppendsDat(Len(f.idx), Len(f.dat), t)
  PROVE  u \o t \in Seq(Writes) /\ SafeTodo(f, u \o t)
<1>1. u \in Seq(Writes) /\ \A i \in 1..Len(u) : InPlace(Len(f.idx), Len(f.dat), u[i])
  BY DEF InPlaceAll
<1>2. u \o t \in Seq(Writes)
  BY <1>1
<1> QED
  BY <1>1, <1>2 DEF SafeTodo

(* _db_dodelete changes no size.                                            *)
LEMMA DeleteKeepsSize ==
  ASSUME NEW f, Sound(f), NEW at, Located(f, at),
         NEW g, g = allWritten(f, db_dodelete(f, at))
  PROVE  Sound(g) /\ Len(g.idx) = Len(f.idx) /\ Len(g.dat) = Len(f.dat)
<1> DEFINE r == f.idx[at.offset]
<1>1. PICK a, b, c, d : db_dodelete(f, at) = <<a, b, c, d>>
  BY DEF db_dodelete
<1>2. PICK u : u = <<a, b, c, d>>
  OBVIOUS
<1>3. u[1] = a /\ u[2] = b /\ u[3] = c /\ u[4] = d /\ Len(u) = 4
  BY <1>2
<1>4. \A i \in 1..4 : InPlace(Len(f.idx), Len(f.dat), u[i])
  BY <1>1, <1>2, <1>3, DeleteSafe DEF InPlaceAll
<1>5. /\ InPlace(Len(f.idx), Len(f.dat), a) /\ InPlace(Len(f.idx), Len(f.dat), b)
      /\ InPlace(Len(f.idx), Len(f.dat), c) /\ InPlace(Len(f.idx), Len(f.dat), d)
  BY <1>3, <1>4
<1>6. PICK f1, f2, f3 : f1 = written(f, a) /\ f2 = written(f1, b) /\ f3 = written(f2, c)
  OBVIOUS
<1>7. g = written(f3, d)
  BY <1>1, <1>6, AllWritten4
<1>8. Sound(f1) /\ Len(f1.idx) = Len(f.idx) /\ Len(f1.dat) = Len(f.dat)
  BY <1>5, <1>6, InPlaceSound
<1>9. Sound(f2) /\ Len(f2.idx) = Len(f.idx) /\ Len(f2.dat) = Len(f.dat)
  BY <1>5, <1>6, <1>8, InPlaceSound
<1>10. Sound(f3) /\ Len(f3.idx) = Len(f.idx) /\ Len(f3.dat) = Len(f.dat)
  BY <1>5, <1>6, <1>9, InPlaceSound
<1> QED
  BY <1>5, <1>7, <1>10, InPlaceSound

(* The fields of a request.                                                 *)
LEMMA RequestFields ==
  ASSUME NEW r \in Request
  PROVE  /\ r.cmd \in {"fetch", "delete", "store"} /\ r.key \in Key
         /\ r.cmd = "store" => r.data \in Data /\ r.flag \in Flag
BY DEF Request

Answers == Data \cup {Blank, Nil, -1, 0, 1}

SafeResponse(f, w) ==
    w.writes \in Seq(Writes) /\ SafeTodo(f, w.writes) /\ w.rc \in Answers

(* The writes of db_store are safe, and its answer is typed.                *)
LEMMA StoreSafe ==
  ASSUME NEW f, Sound(f), NEW key \in Key, NEW data \in Data, NEW flag
  PROVE  SafeResponse(f, db_store(f, key, data, flag))
<1> DEFINE at == db_find(f, key)
           empty == db_findfree(f, key, data)
           gone == db_dodelete(f, at)
           w == db_store(f, key, data, flag)
<1>1. CASE at = Nil /\ flag = "DB_REPLACE"
  <2>1. w.rc = -1 /\ w.writes = <<>>
    BY <1>1 DEF db_store
  <2> QED
    BY <2>1, SafeNone DEF SafeResponse, Answers
<1>2. CASE at = Nil /\ flag # "DB_REPLACE"
  <2>1. /\ w.rc = 0
        /\ w.writes = IF empty = Nil THEN appended(f, key, data) ELSE reused(f, empty, key, data)
    BY <1>2 DEF db_store
  <2>2. CASE empty = Nil
    BY <2>1, <2>2, AppendSafe, SafeAppends DEF SafeResponse, Answers
  <2>3. CASE empty # Nil
    <3>1. InPlaceAll(f, reused(f, empty, key, data))
      BY <2>3, FindFreeIs, ReuseSafe
    <3> QED
      BY <2>1, <2>3, <3>1, SafeInPlace DEF SafeResponse, Answers
  <2> QED
    BY <2>2, <2>3
<1>3. CASE at # Nil /\ flag = "DB_INSERT"
  <2>1. w.rc = 1 /\ w.writes = <<>>
    BY <1>3 DEF db_store
  <2> QED
    BY <2>1, SafeNone DEF SafeResponse, Answers
<1>4. CASE at # Nil /\ flag # "DB_INSERT"
  <2>1. Located(f, at)
    BY <1>4, FindIs
  <2>2. /\ w.rc = 0
        /\ w.writes = IF datlen[data] # f.idx[at.offset].datlen
                      THEN gone \o appended(allWritten(f, gone), key, data)
                      ELSE << db_writedat(f.idx[at.offset].datoff, data) >>
    BY <1>4 DEF db_store
  <2>3. CASE datlen[data] # f.idx[at.offset].datlen
    <3>1. PICK g, t : g = allWritten(f, gone) /\ t = appended(g, key, data)
      OBVIOUS
    <3>2. Sound(g) /\ Len(g.idx) = Len(f.idx) /\ Len(g.dat) = Len(f.dat)
      BY <2>1, <3>1, DeleteKeepsSize
    <3>3. t \in Seq(Writes) /\ AppendsDat(Len(f.idx), Len(f.dat), t)
      BY <3>1, <3>2, AppendSafe
    <3>4. InPlaceAll(f, gone)
      BY <2>1, DeleteSafe
    <3>5. w.writes = gone \o t
      BY <2>2, <2>3, <3>1
    <3> HIDE DEF gone, w
    <3> QED
      BY <2>2, <3>3, <3>4, <3>5, SafeBoth DEF SafeResponse, Answers, w
  <2>4. CASE datlen[data] = f.idx[at.offset].datlen
    <3>1. PICK x : x = db_writedat(f.idx[at.offset].datoff, data)
      OBVIOUS
    <3>2. f.idx[at.offset].datoff \in 1..Len(f.dat) /\ Len(f.idx) \in Nat /\ Len(f.dat) \in Nat
      BY <2>1, FileFields DEF Located, Sound
    <3>3. InPlace(Len(f.idx), Len(f.dat), x)
      BY <3>1, <3>2 DEF InPlace
    <3>4. x \in Writes
      BY <3>2, <3>3, InPlaceIsWrite
    <3>5. <<x>> \in Seq(Writes) /\ Len(<<x>>) = 1 /\ <<x>>[1] = x
      BY <3>4
    <3>6. InPlaceAll(f, <<x>>)
      BY <3>3, <3>5 DEF InPlaceAll
    <3>7. w.writes = <<x>>
      BY <2>2, <2>4, <3>1
    <3> QED
      BY <2>2, <3>6, <3>7, SafeInPlace DEF SafeResponse, Answers
  <2> QED
    BY <2>3, <2>4
<1> QED
  BY <1>1, <1>2, <1>3, <1>4

(* The same for every request.                                              *)
LEMMA ResponseSafe ==
  ASSUME NEW f, Sound(f), NEW r \in Request
  PROVE  SafeResponse(f, getResponse(f, r))
<1>0. /\ r.cmd \in {"fetch", "delete", "store"} /\ r.key \in Key
      /\ r.cmd = "store" => r.data \in Data /\ r.flag \in Flag
  BY RequestFields
<1>1. CASE r.cmd = "fetch"
  <2>1. getResponse(f, r) = [rc |-> db_readdat(f, r.key), writes |-> <<>>]
    BY <1>1 DEF getResponse, db_fetch
  <2>2. db_readdat(f, r.key) \in Answers
    BY <1>0, ReadDatIs DEF Value, Answers
  <2> QED
    BY <2>1, <2>2, SafeNone DEF SafeResponse
<1>2. CASE r.cmd = "delete"
  <2> DEFINE at == db_find(f, r.key)
  <2>1. getResponse(f, r) = IF at = Nil THEN [rc |-> -1, writes |-> <<>>]
                            ELSE [rc |-> 0, writes |-> db_dodelete(f, at)]
    BY <1>2 DEF getResponse, db_delete
  <2>2. CASE at = Nil
    BY <2>1, <2>2, SafeNone DEF SafeResponse, Answers
  <2>3. CASE at # Nil
    <3>1. InPlaceAll(f, db_dodelete(f, at))
      BY <1>0, <2>3, FindIs, DeleteSafe
    <3> QED
      BY <2>1, <2>3, <3>1, SafeInPlace DEF SafeResponse, Answers
  <2> QED
    BY <2>2, <2>3
<1>3. CASE r.cmd = "store"
  BY <1>0, <1>3, StoreSafe DEF getResponse
<1> QED
  BY <1>0, <1>1, <1>2, <1>3

-----------------------------------------------------------------------------
(* The type invariant needs that the writes still to be made are safe, and  *)
(* that there are none without an operation.                                *)
TypeInv ==
    /\ Sound(file) /\ todo \in Seq(Writes) /\ SafeTodo(file, todo)
    /\ op \in Operation \cup {Nil} /\ (op = Nil => todo = <<>>)
    /\ last \in Request \cup {Nil}
    /\ held \in [Key -> Value]

(* A key to hold, an answer: what an operation is begun with.               *)
LEMMA BeginsTyped ==
  ASSUME TypeInv, NEW r \in Request, NEW answer \in Answers,
         todo' = getResponse(file, r).writes,
         op' = operation(r.key, answer, todo'), file' = file
  PROVE  /\ todo' \in Seq(Writes) /\ SafeTodo(file', todo')
         /\ op' \in Operation
<1>1. SafeResponse(file, getResponse(file, r))
  BY ResponseSafe DEF TypeInv
<1>2. todo' \in Seq(Writes) /\ SafeTodo(file, todo')
  BY <1>1 DEF SafeResponse
<1>3. Sound(allWritten(file, todo'))
  BY <1>2, AllSafe DEF TypeInv
<1>4. r.key \in Key
  BY RequestFields
<1>5. db_readdat(allWritten(file, todo'), r.key) \in Value
  BY <1>3, <1>4, ReadDatIs
<1>6. op' \in Operation
  BY <1>4, <1>5 DEF operation, Operation, Value, Answers
<1> QED
  BY <1>2, <1>6

(* What the keys hold is typed.                                             *)
LEMMA ContentsIs ==
  ASSUME NEW f, Sound(f)
  PROVE  contents(f) \in [Key -> Value]
BY ReadDatIs DEF contents

(* Nothing is in a file that has just been created.                         *)
LEMMA OpenSound ==
  Sound(db_open)
<1>1. db_open.idx = <<>> /\ db_open.dat = <<>> /\ db_open.free = 0
      /\ db_open.head = [b \in Bucket |-> 0]
  BY DEF db_open
<1>2. <<>> \in Seq(IndexRecord) /\ <<>> \in Seq(Data \cup {Blank})
  OBVIOUS
<1>3. [b \in Bucket |-> 0] \in [Bucket -> Nat]
  OBVIOUS
<1>4. db_open \in File
  BY <1>2, <1>3 DEF db_open, File
<1>5. Len(db_open.idx) = 0
  BY <1>1
<1> QED
  BY <1>1, <1>4, <1>5 DEF Sound

(* The type invariant holds initially.                                      *)
LEMMA TypeInvInit ==
  ASSUME Init
  PROVE  TypeInv
<1>1. Sound(file)
  BY OpenSound DEF Init
<1>2. contents(file) \in [Key -> Value]
  BY <1>1, ContentsIs
<1>3. <<>> \in Seq(Writes) /\ SafeTodo(file, <<>>)
  BY SafeNone
<1> QED
  BY <1>1, <1>2, <1>3 DEF Init, TypeInv

(* Every step keeps it.                                                     *)
LEMMA TypeInvNext ==
  ASSUME TypeInv, [Next]_vars
  PROVE  TypeInv'
<1> USE DEF TypeInv
<1>1. ASSUME NEW r \in Request, Serve(r) PROVE TypeInv'
  <2>1. getResponse(file, r).rc \in Answers
    BY ResponseSafe DEF SafeResponse
  <2>2. PICK a \in Answers : a = getResponse(file, r).rc
    BY <2>1
  <2>3. /\ todo' \in Seq(Writes) /\ SafeTodo(file', todo') /\ op' \in Operation
    BY <1>1, <2>2, BeginsTyped DEF Serve
  <2> QED
    BY <1>1, <2>3, NilAssumption DEF Serve
<1>2. ASSUME Disconnect PROVE TypeInv'
  <2>1. last \in Request /\ Nil \in Answers
    BY <1>2 DEF Disconnect, Answers
  <2>2. /\ todo' \in Seq(Writes) /\ SafeTodo(file', todo') /\ op' \in Operation
    BY <1>2, <2>1, BeginsTyped DEF Disconnect
  <2> QED
    BY <1>2, <2>2, NilAssumption DEF Disconnect
<1>3. ASSUME Write PROVE TypeInv'
  <2>1. Sound(file') /\ SafeTodo(file', todo')
    BY <1>3, SafeStep DEF Write
  <2>2. todo' \in Seq(Writes)
    BY <1>3 DEF Write
  <2>3. op \in Operation /\ op' = op /\ last' = last
    BY <1>3 DEF Write
  <2>4. op.key \in Key
    BY <2>3 DEF Operation
  <2>5. db_readdat(file', op.key) \in Value
    BY <2>1, <2>4, ReadDatIs
  <2>6. held' \in [Key -> Value]
    BY <1>3, <2>5 DEF Write
  <2> QED
    BY <2>1, <2>2, <2>3, <2>6, NilAssumption
<1>4. ASSUME Return PROVE TypeInv'
  BY <1>4, ContentsIs DEF Return
<1>5. ASSUME Ended PROVE TypeInv'
  <2>1. contents(file) \in [Key -> Value] /\ <<>> \in Seq(Writes) /\ SafeTodo(file, <<>>)
    BY ContentsIs, SafeNone
  <2> QED
    BY <1>5, <2>1 DEF Ended
<1>6. CASE UNCHANGED vars
  BY <1>6 DEF vars
<1> QED
  BY <1>1, <1>2, <1>3, <1>4, <1>5, <1>6 DEF Next, err_quit, err_dump, Kill

(* A sound file is what TypeOK asks for.                                    *)
LEMMA TypeInvOK ==
  ASSUME TypeInv
  PROVE  TypeOK
<1>1. Ranged(file)
  BY SoundRanged DEF TypeInv
<1>2. \A x \in Locs(file) : db_readptr(file, x) \in 0..Len(file.idx)
  BY <1>1 DEF Ranged
<1> QED
  BY <1>2 DEF TypeInv, TypeOK, Sound, Locs

(* The files of the storage engine are well formed at every moment, whenever *)
(* the process is killed: no pointer leads past the last record and no       *)
(* record to data that was not written (the order of the writes of db_store  *)
(* and _db_dodelete).                                                        *)
THEOREM DBTypeCorrect ==
  Spec => []TypeOK
<1>1. Init => TypeInv
  BY TypeInvInit
<1>2. TypeInv /\ [Next]_vars => TypeInv'
  BY TypeInvNext
<1>3. TypeInv => TypeOK
  BY TypeInvOK
<1> QED
  BY <1>1, <1>2, <1>3, PTL DEF Spec

-----------------------------------------------------------------------------
(* Lists.  Every place of a pointer is on the list that begins at a head,   *)
(* or on none.                                                              *)

Heads == {FREE_OFF} \cup {HashOff(b) : b \in Bucket}

Nowhere == RecOff(0)

Spots == Heads \cup {RecOff(n) : n \in Nat}

(* The three kinds of places are different.                                 *)
LEMMA PlacesDiffer ==
  /\ \A b : HashOff(b) # FREE_OFF
  /\ \A n : RecOff(n) # FREE_OFF
  /\ \A b, n : HashOff(b) # RecOff(n)
  /\ \A m, n : RecOff(m) = RecOff(n) => m = n
  /\ \A a, b : HashOff(a) = HashOff(b) => a = b
BY DEF FREE_OFF, HashOff, RecOff

(* The places C are closed under the pointers in them, and a rank falls     *)
(* along the pointers; c is the chain from x.                               *)
Falls(f, x, C, q, c) ==
    /\ Sound(f) /\ C \subseteq Locs(f) /\ x \in C /\ (\A y \in C : q[y] \in Nat) /\ c = chain(f, x)
    /\ \A y \in C : /\ q[y] <= q[x]
                    /\ db_readptr(f, y) # 0 =>
                          /\ RecOff(db_readptr(f, y)) \in C
                          /\ q[RecOff(db_readptr(f, y))] < q[y]

(* The numbers from 1 to m are m.                                           *)
LEMMA IntervalSize ==
  ASSUME NEW m \in Nat
  PROVE  IsFiniteSet(1..m) /\ Cardinality(1..m) = m
<1>1. IsFiniteSet(1..m) /\ Cardinality(1..m) = IF 1 > m THEN 0 ELSE m - 1 + 1
  BY FS_Interval
<1> QED
  BY <1>1

(* Then the chain stays in C, its ranks fall, and it ends.                  *)
LEMMA FallsEnds ==
  ASSUME NEW f, NEW x, NEW C, NEW q, NEW c, Falls(f, x, C, q, c)
  PROVE  /\ Len(c) \in Nat /\ Len(c) > 0 /\ c[1] = x /\ Last(c) = c[Len(c)]
         /\ \A i \in 1..Len(c) : c[i] \in C
         /\ \A i \in 1..(Len(c) - 1) : /\ db_readptr(f, c[i]) # 0
                                       /\ c[i + 1] = RecOff(db_readptr(f, c[i]))
         /\ Ends(f, x) /\ db_readptr(f, c[Len(c)]) = 0
<1>1. /\ Sound(f) /\ C \subseteq Locs(f) /\ x \in C /\ (\A y \in C : q[y] \in Nat) /\ c = chain(f, x)
      /\ Ranged(f) /\ x \in Locs(f)
  BY SoundRanged DEF Falls
<1>2. /\ Path(f, x, c) /\ Len(c) \in 1..(Len(f.idx) + 1) /\ Last(c) = c[Len(c)]
      /\ Ends(f, x) \/ Len(c) = Len(f.idx) + 1
  BY <1>1, ChainIsPath
<1>3. /\ c[1] = x
      /\ \A i \in 1..(Len(c) - 1) :
            db_readptr(f, c[i]) # 0 /\ c[i + 1] = RecOff(db_readptr(f, c[i]))
  BY <1>2 DEF Path
<1>4. PICK N \in Nat : N = Len(f.idx)
  BY <1>1 DEF Ranged
<1>5. PICK K \in Nat : K = Len(c) - 1
  <2>1. Len(c) - 1 \in Nat
    BY <1>2, <1>4
  <2> QED
    BY <2>1
<1>6. Len(c) = K + 1 /\ \A i \in 1..K : db_readptr(f, c[i]) # 0 /\ c[i + 1] = RecOff(db_readptr(f, c[i]))
  BY <1>2, <1>3, <1>4, <1>5
<1> DEFINE S == {i \in 0..K : c[i + 1] \in C}
<1>7. 0 \in S
  BY <1>1, <1>3
<1>8. ASSUME NEW i \in 0..K, i < K, i \in S
      PROVE  i + 1 \in S
  <2>1. i + 1 \in 1..K /\ i + 1 \in 0..K /\ c[i + 1] \in C
    BY <1>8
  <2>2. db_readptr(f, c[i + 1]) # 0 /\ c[(i + 1) + 1] = RecOff(db_readptr(f, c[i + 1]))
    BY <1>6, <2>1
  <2>3. RecOff(db_readptr(f, c[i + 1])) \in C
    BY <2>1, <2>2 DEF Falls
  <2> QED
    BY <2>1, <2>2, <2>3
<1> HIDE DEF S
<1>9. 0..K \subseteq S
  BY <1>7, <1>8, UpTo
<1>10. \A i \in 1..(K + 1) : c[i] \in C
  <2> TAKE i \in 1..(K + 1)
  <2>1. i - 1 \in 0..K /\ (i - 1) + 1 = i
    OBVIOUS
  <2>2. c[(i - 1) + 1] \in C
    BY <1>9, <2>1 DEF S
  <2> QED
    BY <2>1, <2>2
<1>11. \A i \in 1..K : q[c[i + 1]] < q[c[i]]
  <2> TAKE i \in 1..K
  <2>1. c[i] \in C
    BY <1>10
  <2> QED
    BY <1>6, <2>1 DEF Falls
<1>12. PICK a \in [1..(K + 1) -> Nat] : \A i \in 1..(K + 1) : a[i] = q[c[i]]
  <2>1. \A i \in 1..(K + 1) : q[c[i]] \in Nat
    BY <1>1, <1>10
  <2>2. [i \in 1..(K + 1) |-> q[c[i]]] \in [1..(K + 1) -> Nat]
    BY <2>1
  <2> QED
    BY <2>2
<1>13. \A i \in 1..K : a[i + 1] < a[i]
  <2> TAKE i \in 1..K
  <2>1. i \in 1..(K + 1) /\ i + 1 \in 1..(K + 1)
    OBVIOUS
  <2> QED
    BY <1>11, <1>12, <2>1
<1>14. ASSUME NEW i \in 1..(K + 1), NEW j \in 1..(K + 1), i <= j
       PROVE  a[j] <= a[i]
  <2> DEFINE T == {m \in 0..(K + 1 - i) : a[i + m] <= a[i]}
  <2>0. PICK D \in Nat : D = K + 1 - i
    <3>1. K + 1 - i \in Nat
      OBVIOUS
    <3> QED
      BY <3>1
  <2>1. 0 \in T
    OBVIOUS
  <2>2. ASSUME NEW m \in 0..D, m < D, m \in T PROVE m + 1 \in T
    <3>1. /\ i + m \in 1..K /\ i + m \in 1..(K + 1) /\ (i + m) + 1 = i + (m + 1)
          /\ i + (m + 1) \in 1..(K + 1) /\ m + 1 \in 0..(K + 1 - i)
      BY <2>0, <2>2
    <3>2. a[i + (m + 1)] < a[i + m]
      BY <1>13, <3>1
    <3>3. a[i + (m + 1)] \in Nat /\ a[i + m] \in Nat /\ a[i] \in Nat
      BY <3>1
    <3> QED
      BY <2>2, <3>1, <3>2, <3>3
  <2> HIDE DEF T
  <2>3. 0..D \subseteq T
    BY <2>1, <2>2, UpTo
  <2>4. j - i \in 0..D /\ i + (j - i) = j
    BY <1>14, <2>0
  <2>5. a[i + (j - i)] <= a[i]
    BY <2>3, <2>4 DEF T
  <2> QED
    BY <2>4, <2>5
<1>15. Ends(f, x)
  <2>1. SUFFICES ASSUME ~Ends(f, x) PROVE FALSE
    OBVIOUS
  <2>2. K = N /\ db_readptr(f, c[K + 1]) # 0
    BY <1>1, <1>2, <1>4, <1>5, <1>6, <2>1 DEF Ends
  <2>3. \A i \in 1..(N + 1) : db_readptr(f, c[i]) # 0
    BY <1>6, <2>2
  <2>4. \A i \in 1..(N + 1) : db_readptr(f, c[i]) \in 1..N
    <3> TAKE i \in 1..(N + 1)
    <3>1. c[i] \in Locs(f)
      BY <1>1, <1>10, <2>2
    <3> QED
      BY <1>1, <1>4, <2>3, <3>1 DEF Ranged
  <2> DEFINE g == [i \in 1..(N + 1) |-> db_readptr(f, c[i])]
  <2>5. g \in [1..(N + 1) -> 1..N] /\ \A i \in 1..(N + 1) : g[i] = db_readptr(f, c[i])
    BY <2>4
  <2> HIDE DEF g
  <2>6. \A m \in Nat : IsFiniteSet(1..m) /\ Cardinality(1..m) = m
    BY IntervalSize
  <2>7. /\ IsFiniteSet(1..(N + 1)) /\ Cardinality(1..(N + 1)) = N + 1
        /\ IsFiniteSet(1..N) /\ Cardinality(1..N) = N
    <3>1. N + 1 \in Nat
      OBVIOUS
    <3> QED
      BY <2>6, <3>1
  <2>8. \E i, j \in 1..(N + 1) : i # j /\ g[i] = g[j]
    <3>1. PICK S1, T1 : S1 = 1..(N + 1) /\ T1 = 1..N
      OBVIOUS
    <3>2. /\ IsFiniteSet(S1) /\ IsFiniteSet(T1) /\ Cardinality(T1) < Cardinality(S1)
          /\ g \in [S1 -> T1]
      <4>1. IsFiniteSet(S1) /\ IsFiniteSet(T1) /\ Cardinality(T1) = N /\ Cardinality(S1) = N + 1
        BY <2>7, <3>1
      <4>2. g \in [S1 -> T1]
        BY <2>5, <3>1
      <4> QED
        BY <4>1, <4>2
    <3>3. \E i, j \in S1 : i # j /\ g[i] = g[j]
      BY <3>2, FS_PigeonHole
    <3> QED
      BY <3>1, <3>3
  <2>9. \E i, j \in 1..(N + 1) : i < j /\ g[i] = g[j]
    BY <2>8
  <2>10. PICK i \in 1..(N + 1), j \in 1..(N + 1) : i < j /\ g[i] = g[j]
    BY <2>9
  <2>11. i \in 1..K /\ i + 1 \in 1..(K + 1) /\ i + 1 <= j /\ j \in 1..(K + 1)
    BY <2>2, <2>10
  <2>12. a[j] <= a[i + 1] /\ a[i + 1] = q[c[i + 1]] /\ a[j] = q[c[j]]
         /\ a[j] \in Nat /\ a[i + 1] \in Nat
    BY <1>12, <1>14, <2>11
  <2>13. c[i + 1] = RecOff(db_readptr(f, c[i]))
    BY <1>6, <2>11
  <2>14. db_readptr(f, c[i]) = db_readptr(f, c[j]) /\ db_readptr(f, c[j]) # 0 /\ c[j] \in C
    BY <1>10, <2>3, <2>5, <2>10, <2>11
  <2>15. q[RecOff(db_readptr(f, c[j]))] < q[c[j]]
    BY <2>14 DEF Falls
  <2> QED
    BY <2>12, <2>13, <2>14, <2>15
<1>16. db_readptr(f, c[Len(c)]) = 0
  BY <1>1, <1>2, <1>15 DEF Ends
<1> QED
  BY <1>2, <1>3, <1>5, <1>6, <1>10, <1>15, <1>16

(* The chain meets every place that pointers lead to from x.                *)
LEMMA FallsReaches ==
  ASSUME NEW f, NEW x, NEW C, NEW q, NEW c, Falls(f, x, C, q, c), NEW U, U \subseteq C,
         \A y \in U : \/ y = x
                      \/ \E z \in U : db_readptr(f, z) # 0 /\ y = RecOff(db_readptr(f, z))
  PROVE  \A y \in U : \E i \in 1..Len(c) : c[i] = y
<1>1. /\ Len(c) \in Nat /\ Len(c) > 0 /\ c[1] = x
      /\ \A i \in 1..(Len(c) - 1) : /\ db_readptr(f, c[i]) # 0
                                    /\ c[i + 1] = RecOff(db_readptr(f, c[i]))
      /\ db_readptr(f, c[Len(c)]) = 0
  BY FallsEnds
<1>2. /\ x \in C /\ (\A y \in C : q[y] \in Nat) /\ q[x] \in Nat
      /\ \A y \in C : q[y] <= q[x] /\ q[y] \in Nat
  BY DEF Falls
<1> DEFINE Met(y) == \E i \in 1..Len(c) : c[i] = y
           D == {n \in Nat : \E y \in U : ~Met(y) /\ n = q[x] - q[y]}
<1>3. SUFFICES ASSUME NEW y0 \in U, ~Met(y0) PROVE FALSE
  OBVIOUS
<1>4. q[x] - q[y0] \in D
  <2>1. q[x] - q[y0] \in Nat
    BY <1>2
  <2> HIDE DEF Met
  <2> QED
    BY <1>3, <2>1
<1>5. D \in SUBSET Nat /\ D # {}
  BY <1>4
<1>6. PICK n \in D : \A k \in D : n <= k
  BY <1>5, LeastNumber
<1>7. PICK y \in U : ~Met(y) /\ n = q[x] - q[y]
  BY <1>6
<1>8. y # x
  BY <1>1, <1>7
<1>9. PICK z \in U : db_readptr(f, z) # 0 /\ y = RecOff(db_readptr(f, z))
  BY <1>8
<1>10. q[y] < q[z] /\ q[z] \in Nat /\ q[z] <= q[x] /\ q[y] \in Nat
  BY <1>2, <1>9 DEF Falls
<1>11. CASE Met(z)
  <2>1. PICK i \in 1..Len(c) : c[i] = z
    BY <1>11
  <2>2. i # Len(c)
    BY <1>1, <1>9, <2>1
  <2>3. i \in 1..(Len(c) - 1) /\ i + 1 \in 1..Len(c)
    BY <1>1, <2>2
  <2>4. c[i + 1] = y
    BY <1>1, <1>9, <2>1, <2>3
  <2> QED
    BY <1>7, <2>3, <2>4
<1>12. CASE ~Met(z)
  <2> HIDE DEF Met
  <2>1. q[x] - q[z] \in Nat /\ q[x] - q[z] < q[x] - q[y]
    BY <1>2, <1>10
  <2>2. q[x] - q[z] \in D
    BY <1>12, <2>1
  <2>3. n <= q[x] - q[z]
    BY <1>6, <2>2
  <2> QED
    BY <1>7, <2>1, <2>3
<1> QED
  BY <1>11, <1>12

-----------------------------------------------------------------------------
(* A clean file.  o says on which list a place is and q ranks the places; a *)
(* record is on one list, behind one pointer, and on the list its key says. *)

On(o) == {y \in Spots : o[y] # Nowhere}

Marked(f, o, q) ==
    /\ o \in [Spots -> Heads \cup {Nowhere}] /\ q \in [Spots -> Nat]
    /\ \A x \in Heads : o[x] = x
    /\ \A n \in Nat : o[RecOff(n)] # Nowhere => n \in 1..Len(f.idx)
    /\ \A y \in On(o) : q[y] <= q[o[y]]

Follows(f, o, q) ==
    \A y \in On(o) : db_readptr(f, y) # 0 => /\ o[RecOff(db_readptr(f, y))] = o[y]
                                             /\ q[RecOff(db_readptr(f, y))] < q[y]

Led(f, o) ==
    \A n \in Nat : o[RecOff(n)] # Nowhere => \E y \in On(o) : db_readptr(f, y) = n

Alone(f, o) ==
    \A y, z \in On(o) :
        db_readptr(f, y) = db_readptr(f, z) /\ db_readptr(f, y) # 0 => y = z

(* The data of a record.                                                    *)
DatOf(f, n) == f.dat[f.idx[n].datoff]

(* The record of a key.                                                     *)
RecordOf(f, o, k, n) ==
    n \in Nat /\ o[RecOff(n)] = HashOff(hash[k]) /\ f.idx[n].key = k

Keyed(f, o) ==
    /\ \A n \in Nat : o[RecOff(n)] = FREE_OFF => f.idx[n].key = Blank
    /\ \A n \in Nat, b \in Bucket : o[RecOff(n)] = HashOff(b) =>
          /\ f.idx[n].key \in Key /\ hash[f.idx[n].key] = b
          /\ DatOf(f, n) \in Data => datlen[DatOf(f, n)] = f.idx[n].datlen
    /\ \A k \in Key, m, n \in Nat : RecordOf(f, o, k, m) /\ RecordOf(f, o, k, n) => m = n

OwnData(f) ==
    \A m, n \in 1..Len(f.idx) : f.idx[m].datoff = f.idx[n].datoff => m = n

Clean(f, o, q) ==
    /\ Sound(f) /\ Marked(f, o, q) /\ Follows(f, o, q) /\ Led(f, o) /\ Alone(f, o)
    /\ Keyed(f, o) /\ OwnData(f)

(* Facts about places.                                                      *)
LEMMA SpotFacts ==
  /\ Heads \subseteq Spots /\ \A n \in Nat : RecOff(n) \in Spots
  /\ Nowhere \notin Heads /\ FREE_OFF \in Heads /\ \A b \in Bucket : HashOff(b) \in Heads
  /\ \A n : RecOff(n) \notin Heads
  /\ \A y \in Spots : y \in Heads \/ \E n \in Nat : y = RecOff(n)
  /\ \A k \in Key : hash[k] \in Bucket
BY PlacesDiffer, SimpleDBAssumption DEF Heads, Spots, Nowhere

(* The places on lists are places of pointers.                              *)
LEMMA OnLocs ==
  ASSUME NEW f, NEW o, NEW q, Marked(f, o, q)
  PROVE  On(o) \subseteq Locs(f)
<1> SUFFICES ASSUME NEW y \in On(o) PROVE y \in Locs(f)
  OBVIOUS
<1>1. y \in Spots /\ o[y] # Nowhere
  BY DEF On
<1>2. CASE y \in Heads
  BY <1>2 DEF Heads, Locs
<1>3. ASSUME NEW n \in Nat, y = RecOff(n) PROVE y \in Locs(f)
  BY <1>1, <1>3 DEF Marked, Locs
<1> QED
  BY <1>1, <1>2, <1>3, SpotFacts

(* The places on one list are what the chain from its head walks along.     *)
ListOf(o, x) == {y \in On(o) : o[y] = x}

(* Along the chain of a head the ranks of its list fall.                    *)
LEMMA CleanFalls ==
  ASSUME NEW f, NEW o, NEW q, Clean(f, o, q), NEW x \in Heads, NEW c, c = chain(f, x)
  PROVE  Falls(f, x, ListOf(o, x), q, c)
<1> DEFINE C == ListOf(o, x)
<1>1. Sound(f) /\ Marked(f, o, q) /\ Follows(f, o, q)
  BY DEF Clean
<1>2. C \subseteq Locs(f)
  BY <1>1, OnLocs DEF ListOf
<1>3. x \in C
  BY <1>1, SpotFacts DEF ListOf, On, Marked
<1>4. \A y \in C : q[y] \in Nat /\ q[y] <= q[x]
  BY <1>1 DEF ListOf, On, Marked
<1>5. ASSUME NEW y \in C, db_readptr(f, y) # 0
      PROVE  RecOff(db_readptr(f, y)) \in C /\ q[RecOff(db_readptr(f, y))] < q[y]
  <2>1. y \in On(o) /\ o[y] = x /\ y \in Locs(f)
    BY <1>2 DEF ListOf
  <2>2. db_readptr(f, y) \in Nat
    BY <1>1, <2>1, SoundRanged DEF Ranged
  <2>3. PICK m \in Nat : m = db_readptr(f, y)
    BY <2>2
  <2>4. o[RecOff(m)] = x /\ q[RecOff(m)] < q[y]
    BY <1>1, <1>5, <2>1, <2>3 DEF Follows
  <2>5. RecOff(m) \in Spots /\ x # Nowhere
    BY SpotFacts
  <2> QED
    BY <2>3, <2>4, <2>5 DEF ListOf, On
<1> HIDE DEF C
<1>6. Falls(f, x, C, q, c)
  BY <1>1, <1>2, <1>3, <1>4, <1>5 DEF Falls
<1> QED
  BY <1>6 DEF C

(* In a clean file every list ends.                                         *)
LEMMA CleanEnds ==
  ASSUME NEW f, NEW o, NEW q, Clean(f, o, q), NEW x \in Heads
  PROVE  Ends(f, x)
<1>1. PICK C, c : C = ListOf(o, x) /\ c = chain(f, x)
  OBVIOUS
<1>2. Falls(f, x, C, q, c)
  BY <1>1, CleanFalls
<1> QED
  BY <1>2, FallsEnds

(* A search of a list comes to a record on it, or there is none.            *)
FoundOn(f, o, x, wanted, r) ==
    \/ r = Nil /\ \A n \in Nat : o[RecOff(n)] = x => n \notin wanted
    \/ /\ r # Nil /\ r.offset \in wanted /\ r.offset \in Nat /\ o[RecOff(r.offset)] = x
       /\ r.ptroff \in On(o) /\ o[r.ptroff] = x /\ db_readptr(f, r.ptroff) = r.offset

(* What search comes to in a clean file.                                    *)
LEMMA CleanSearch ==
  ASSUME NEW f, NEW o, NEW q, Clean(f, o, q), NEW x \in Heads, NEW wanted,
         NEW r, r = search(f, x, wanted)
  PROVE  FoundOn(f, o, x, wanted, r)
<1>1. PICK C, c : C = ListOf(o, x) /\ c = chain(f, x)
  OBVIOUS
<1>2. Falls(f, x, C, q, c) /\ Sound(f) /\ Marked(f, o, q)
  BY <1>1, CleanFalls DEF Clean
<1>3. Ranged(f) /\ x \in Locs(f)
  BY <1>2, SoundRanged DEF Locs, Heads
<1>4. Len(c) \in Nat /\ c[1] = x /\ \A i \in 1..Len(c) : c[i] \in C
  BY <1>2, FallsEnds
<1>5. \/ r = Nil /\ \A i \in 2..Len(c) : c[i][2] \notin wanted
      \/ /\ r # Nil /\ r.offset \in wanted /\ r.offset \in 1..Len(f.idx)
         /\ db_readptr(f, r.ptroff) = r.offset
         /\ \E i \in 2..Len(c) : c[i] = RecOff(r.offset) /\ c[i - 1] = r.ptroff
  BY <1>1, <1>3, SearchFinds
<1>6. CASE r = Nil /\ \A i \in 2..Len(c) : c[i][2] \notin wanted
  <2>1. ASSUME NEW y \in C
        PROVE  \/ y = x
               \/ \E z \in C : db_readptr(f, z) # 0 /\ y = RecOff(db_readptr(f, z))
    <3>1. y \in On(o) /\ o[y] = x
      BY <1>1 DEF ListOf
    <3>2. CASE y \in Heads
      BY <1>2, <3>1, <3>2 DEF Marked
    <3>3. ASSUME NEW n \in Nat, y = RecOff(n)
          PROVE  \E z \in C : db_readptr(f, z) # 0 /\ y = RecOff(db_readptr(f, z))
      <4>1. o[RecOff(n)] # Nowhere /\ o[RecOff(n)] = x
        BY <3>1, <3>3 DEF On
      <4>2. PICK z \in On(o) : db_readptr(f, z) = n
        BY <4>1 DEF Clean, Led
      <4>3. n # 0
        BY <1>2, <4>1 DEF Marked
      <4>4. o[z] = x
        BY <4>1, <4>2, <4>3 DEF Clean, Follows
      <4> QED
        BY <1>1, <3>3, <4>2, <4>3, <4>4 DEF ListOf
    <3> QED
      BY <3>1, <3>2, <3>3, SpotFacts DEF On
  <2>2. \A y \in C : \E i \in 1..Len(c) : c[i] = y
    BY <1>2, <2>1, FallsReaches
  <2>3. ASSUME NEW n \in Nat, o[RecOff(n)] = x PROVE n \notin wanted
    <3>1. RecOff(n) \in C
      BY <1>1, <2>3, SpotFacts DEF ListOf, On
    <3>2. PICK i \in 1..Len(c) : c[i] = RecOff(n)
      BY <2>2, <3>1
    <3>3. i # 1
      BY <1>4, <3>2, SpotFacts
    <3>4. i \in 2..Len(c)
      BY <1>4, <3>3
    <3>5. c[i][2] = n
      BY <3>2 DEF RecOff
    <3> QED
      BY <1>6, <3>4, <3>5
  <2> QED
    BY <1>6, <2>3 DEF FoundOn
<1>7. CASE /\ r # Nil /\ r.offset \in wanted /\ r.offset \in 1..Len(f.idx)
           /\ db_readptr(f, r.ptroff) = r.offset
           /\ \E i \in 2..Len(c) : c[i] = RecOff(r.offset) /\ c[i - 1] = r.ptroff
  <2>1. PICK i \in 2..Len(c) : c[i] = RecOff(r.offset) /\ c[i - 1] = r.ptroff
    BY <1>7
  <2>2. i \in 1..Len(c) /\ i - 1 \in 1..Len(c)
    BY <1>4
  <2>3. RecOff(r.offset) \in C /\ r.ptroff \in C
    BY <1>4, <2>1, <2>2
  <2>4. r.offset \in Nat
    BY <1>3, <1>7 DEF Ranged
  <2> QED
    BY <1>1, <1>7, <2>3, <2>4 DEF FoundOn, ListOf
<1> QED
  BY <1>5, <1>6, <1>7

(* What a key holds in a clean file: the data of its record.                *)
LEMMA ReadRecord ==
  ASSUME NEW f, NEW o, NEW q, Clean(f, o, q), NEW k \in Key, NEW n, RecordOf(f, o, k, n)
  PROVE  /\ n \in 1..Len(f.idx)
         /\ db_readdat(f, k) = DatOf(f, n) /\ DatOf(f, n) \in Data \cup {Blank}
         /\ db_find(f, k) # Nil /\ db_find(f, k).offset = n
         /\ db_find(f, k).ptroff \in On(o) /\ o[db_find(f, k).ptroff] = HashOff(hash[k])
         /\ db_readptr(f, db_find(f, k).ptroff) = n
<1>1. PICK W, x, r : /\ W = {i \in 1..Len(f.idx) : f.idx[i].key = k}
                     /\ x = HashOff(hash[k]) /\ r = search(f, x, W)
  OBVIOUS
<1>2. r = db_find(f, k) /\ x \in Heads
  BY <1>1, SpotFacts DEF db_find, withKey
<1>3. FoundOn(f, o, x, W, r)
  BY <1>1, <1>2, CleanSearch
<1>4. n \in Nat /\ o[RecOff(n)] = x /\ f.idx[n].key = k
  BY <1>1 DEF RecordOf
<1>5. n \in 1..Len(f.idx)
  BY <1>2, <1>4, SpotFacts DEF Clean, Marked
<1>6. n \in W
  BY <1>1, <1>4, <1>5
<1>7. /\ r # Nil /\ r.offset \in W /\ r.offset \in Nat /\ o[RecOff(r.offset)] = x
      /\ r.ptroff \in On(o) /\ o[r.ptroff] = x /\ db_readptr(f, r.ptroff) = r.offset
  BY <1>3, <1>4, <1>6 DEF FoundOn
<1>8. RecordOf(f, o, k, r.offset)
  BY <1>1, <1>7 DEF RecordOf
<1>9. r.offset = n
  BY <1>4, <1>7, <1>8 DEF Clean, Keyed
<1>10. db_readdat(f, k) = DatOf(f, n)
  BY <1>2, <1>7, <1>9 DEF db_readdat, DatOf
<1>11. DatOf(f, n) \in Data \cup {Blank}
  <2>1. Sound(f) /\ f.idx[n].datoff \in 1..Len(f.dat)
    BY <1>5 DEF Clean, Sound
  <2> QED
    BY <2>1, FileFields DEF DatOf, Sound
<1> QED
  BY <1>1, <1>2, <1>5, <1>7, <1>9, <1>10, <1>11

(* A key without a record holds nothing.                                    *)
LEMMA ReadNothing ==
  ASSUME NEW f, NEW o, NEW q, Clean(f, o, q), NEW k \in Key,
         \A n : ~RecordOf(f, o, k, n)
  PROVE  db_find(f, k) = Nil /\ db_readdat(f, k) = Nil
<1>1. PICK W, x, r : /\ W = {i \in 1..Len(f.idx) : f.idx[i].key = k}
                     /\ x = HashOff(hash[k]) /\ r = search(f, x, W)
  OBVIOUS
<1>2. r = db_find(f, k) /\ x \in Heads
  BY <1>1, SpotFacts DEF db_find, withKey
<1>3. FoundOn(f, o, x, W, r)
  BY <1>1, <1>2, CleanSearch
<1>4. r = Nil
  BY <1>1, <1>3 DEF FoundOn, RecordOf
<1> QED
  BY <1>2, <1>4 DEF db_readdat

(* A key found in a clean file has a record.                                *)
LEMMA FoundRecord ==
  ASSUME NEW f, NEW o, NEW q, Clean(f, o, q), NEW k \in Key
  PROVE  /\ db_find(f, k) = Nil <=> \A n : ~RecordOf(f, o, k, n)
         /\ db_find(f, k) # Nil <=> \E n : RecordOf(f, o, k, n)
         /\ db_readdat(f, k) = Nil <=> \A n : ~RecordOf(f, o, k, n)
<1>1. CASE \A n : ~RecordOf(f, o, k, n)
  BY <1>1, ReadNothing
<1>2. ASSUME NEW n, RecordOf(f, o, k, n)
      PROVE  db_find(f, k) # Nil /\ db_readdat(f, k) # Nil
  <2>1. db_find(f, k) # Nil /\ db_readdat(f, k) \in Data \cup {Blank}
    BY <1>2, ReadRecord
  <2> QED
    BY <2>1, SimpleDBAssumption
<1> QED
  BY <1>1, <1>2

-----------------------------------------------------------------------------
(* What a write changes of a file, as far as lists and keys are concerned.  *)

SameFields(f, g, n) ==
    /\ g.idx[n].key = f.idx[n].key /\ g.idx[n].keylen = f.idx[n].keylen
    /\ g.idx[n].datoff = f.idx[n].datoff /\ g.idx[n].datlen = f.idx[n].datlen

PtrSet(f, y, p, g) ==
    /\ Sound(g) /\ Len(g.idx) = Len(f.idx) /\ g.dat = f.dat
    /\ db_readptr(g, y) = p
    /\ \A z \in Locs(f) : z # y => db_readptr(g, z) = db_readptr(f, z)
    /\ \A n \in 1..Len(f.idx) : SameFields(f, g, n)

IdxSet(f, n, r, g) ==
    /\ Sound(g) /\ g.dat = f.dat
    /\ Len(g.idx) = IF n = Len(f.idx) + 1 THEN Len(f.idx) + 1 ELSE Len(f.idx)
    /\ g.idx[n] = r /\ \A m \in 1..Len(f.idx) : m # n => g.idx[m] = f.idx[m]
    /\ \A z \in Locs(f) : z # RecOff(n) => db_readptr(g, z) = db_readptr(f, z)

DatSet(f, a, d, g) ==
    /\ Sound(g) /\ g.idx = f.idx /\ g.free = f.free /\ g.head = f.head
    /\ g.dat[a] = d /\ \A m \in 1..Len(f.dat) : m # a => g.dat[m] = f.dat[m]

(* A pointer is written.                                                    *)
LEMMA PtrWritten ==
  ASSUME NEW f, Sound(f), NEW y \in Locs(f), NEW p \in 0..Len(f.idx),
         NEW g, g = written(f, db_writeptr(y, p))
  PROVE  PtrSet(f, y, p, g)
<1>0. f \in File /\ Wrote(f, db_writeptr(y, p), g) /\ p \in Nat /\ Len(f.idx) \in Nat
  BY FileFields DEF Sound, Wrote
<1>1. Sound(g) /\ Len(g.idx) = Len(f.idx)
  <2>1. PICK w : w = db_writeptr(y, p)
    OBVIOUS
  <2>2. InPlace(Len(f.idx), Len(f.dat), w)
    BY <2>1, PtrInPlace
  <2> QED
    BY <2>1, <2>2, InPlaceSound
<1>2. CASE y = FREE_OFF
  <2>1. g.free = p /\ g.head = f.head /\ g.idx = f.idx /\ g.dat = f.dat
    BY <1>0, <1>2, WrittenFree
  <2> QED
    BY <1>1, <1>2, <2>1, ReadPtr DEF PtrSet, SameFields, Locs
<1>3. ASSUME NEW b \in Bucket, y = HashOff(b) PROVE PtrSet(f, y, p, g)
  <2>1. /\ g.free = f.free /\ g.idx = f.idx /\ g.dat = f.dat
        /\ g.head[b] = p /\ \A a \in Bucket : a # b => g.head[a] = f.head[a]
    BY <1>0, <1>3, WrittenHead
  <2>2. ASSUME NEW z \in Locs(f), z # y PROVE db_readptr(g, z) = db_readptr(f, z)
    <3>1. CASE z = FREE_OFF
      BY <2>1, <3>1, ReadPtr
    <3>2. ASSUME NEW a \in Bucket, z = HashOff(a) PROVE db_readptr(g, z) = db_readptr(f, z)
      BY <1>3, <2>1, <2>2, <3>2, ReadPtr
    <3>3. ASSUME NEW m \in 1..Len(f.idx), z = RecOff(m) PROVE db_readptr(g, z) = db_readptr(f, z)
      BY <2>1, <3>3, ReadPtr
    <3> QED
      BY <3>1, <3>2, <3>3 DEF Locs
  <2> QED
    BY <1>1, <1>3, <2>1, <2>2, ReadPtr DEF PtrSet, SameFields
<1>4. ASSUME NEW n \in 1..Len(f.idx), y = RecOff(n) PROVE PtrSet(f, y, p, g)
  <2>1. /\ g.free = f.free /\ g.head = f.head /\ g.dat = f.dat
        /\ g.idx[n].ptr = p /\ g.idx[n].key = f.idx[n].key
        /\ g.idx[n].datoff = f.idx[n].datoff /\ g.idx[n].datlen = f.idx[n].datlen
        /\ g.idx[n].keylen = f.idx[n].keylen
        /\ \A m \in 1..Len(f.idx) : m # n => g.idx[m] = f.idx[m]
    BY <1>0, <1>4, WrittenRec
  <2>2. ASSUME NEW z \in Locs(f), z # y PROVE db_readptr(g, z) = db_readptr(f, z)
    <3>1. CASE z = FREE_OFF
      BY <2>1, <3>1, ReadPtr
    <3>2. ASSUME NEW b \in Bucket, z = HashOff(b) PROVE db_readptr(g, z) = db_readptr(f, z)
      BY <2>1, <3>2, ReadPtr
    <3>3. ASSUME NEW m \in 1..Len(f.idx), z = RecOff(m) PROVE db_readptr(g, z) = db_readptr(f, z)
      <4>1. g.idx[m] = f.idx[m]
        BY <1>4, <2>1, <2>2, <3>3
      <4> QED
        BY <3>3, <4>1, ReadPtr
    <3> QED
      BY <3>1, <3>2, <3>3 DEF Locs
  <2>3. \A m \in 1..Len(f.idx) : SameFields(f, g, m)
    BY <2>1 DEF SameFields
  <2> QED
    BY <1>1, <1>4, <2>1, <2>2, <2>3, ReadPtr DEF PtrSet
<1> QED
  BY <1>2, <1>3, <1>4 DEF Locs

(* An index record is written.                                              *)
LEMMA IdxWritten ==
  ASSUME NEW f, Sound(f), NEW n \in 1..(Len(f.idx) + 1), NEW r \in IndexRecord,
         r.ptr \in 0..Len(f.idx), r.datoff \in 1..Len(f.dat),
         NEW g, g = written(f, db_writeidx(n, r))
  PROVE  IdxSet(f, n, r, g)
<1>0. f \in File /\ Wrote(f, db_writeidx(n, r), g) /\ Len(f.idx) \in Nat
  BY FileFields DEF Sound, Wrote
<1>1. /\ g \in File /\ g.free = f.free /\ g.head = f.head /\ g.dat = f.dat
      /\ Len(g.idx) = IF n = Len(f.idx) + 1 THEN Len(f.idx) + 1 ELSE Len(f.idx)
      /\ g.idx[n] = r
      /\ \A m \in 1..Len(f.idx) : m # n => g.idx[m] = f.idx[m]
  BY <1>0, WrittenIdx
<1>2. \A i \in 0..Len(f.idx) : i \in 0..Len(g.idx)
  BY <1>0, <1>1
<1>3. ASSUME NEW m \in 1..Len(g.idx)
      PROVE  g.idx[m].ptr \in 0..Len(g.idx) /\ g.idx[m].datoff \in 1..Len(g.dat)
  <2>1. CASE m = n
    BY <1>1, <1>2, <2>1
  <2>2. CASE m # n
    <3>1. m \in 1..Len(f.idx)
      BY <1>0, <1>1, <2>2
    <3>2. g.idx[m] = f.idx[m] /\ f.idx[m].ptr \in 0..Len(f.idx) /\ f.idx[m].datoff \in 1..Len(f.dat)
      BY <1>1, <2>2, <3>1 DEF Sound
    <3> QED
      BY <1>1, <1>2, <3>2
  <2> QED
    BY <2>1, <2>2
<1>4. Sound(g)
  BY <1>1, <1>2, <1>3 DEF Sound
<1>5. ASSUME NEW z \in Locs(f), z # RecOff(n) PROVE db_readptr(g, z) = db_readptr(f, z)
  <2>1. CASE z = FREE_OFF
    BY <1>1, <2>1, ReadPtr
  <2>2. ASSUME NEW b \in Bucket, z = HashOff(b) PROVE db_readptr(g, z) = db_readptr(f, z)
    BY <1>1, <2>2, ReadPtr
  <2>3. ASSUME NEW m \in 1..Len(f.idx), z = RecOff(m) PROVE db_readptr(g, z) = db_readptr(f, z)
    <3>1. g.idx[m] = f.idx[m]
      BY <1>1, <1>5, <2>3
    <3> QED
      BY <2>3, <3>1, ReadPtr
  <2> QED
    BY <2>1, <2>2, <2>3 DEF Locs
<1> QED
  BY <1>1, <1>4, <1>5 DEF IdxSet

(* Data are written.                                                        *)
LEMMA DatWritten ==
  ASSUME NEW f, Sound(f), NEW a \in 1..(Len(f.dat) + 1), NEW d \in Data \cup {Blank},
         NEW g, g = written(f, db_writedat(a, d))
  PROVE  /\ DatSet(f, a, d, g)
         /\ Len(g.dat) = IF a = Len(f.dat) + 1 THEN Len(f.dat) + 1 ELSE Len(f.dat)
<1>0. f \in File /\ Wrote(f, db_writedat(a, d), g) /\ Len(f.idx) \in Nat /\ Len(f.dat) \in Nat
  BY FileFields DEF Sound, Wrote
<1>1. /\ g \in File /\ g.free = f.free /\ g.head = f.head /\ g.idx = f.idx
      /\ Len(g.dat) = IF a = Len(f.dat) + 1 THEN Len(f.dat) + 1 ELSE Len(f.dat)
      /\ g.dat[a] = d
      /\ \A m \in 1..Len(f.dat) : m # a => g.dat[m] = f.dat[m]
  BY <1>0, WrittenDat
<1>2. \A i \in 1..Len(f.dat) : i \in 1..Len(g.dat)
  BY <1>0, <1>1
<1>3. Sound(g)
  BY <1>1, <1>2 DEF Sound
<1> QED
  BY <1>1, <1>3 DEF DatSet

(* Files that agree on all of this are the same.                            *)
LEMMA SameFile ==
  ASSUME NEW f, NEW g, Sound(f), Sound(g), Len(f.idx) = Len(g.idx), f.dat = g.dat,
         \A z \in Locs(f) : db_readptr(g, z) = db_readptr(f, z),
         \A n \in 1..Len(f.idx) : SameFields(f, g, n)
  PROVE  f = g
<1>1. /\ f \in File /\ f.head \in [Bucket -> Nat] /\ f.idx \in Seq(IndexRecord)
      /\ \A n \in 1..Len(f.idx) : f.idx[n] \in IndexRecord
  BY FileFields DEF Sound
<1>2. /\ g \in File /\ g.head \in [Bucket -> Nat] /\ g.idx \in Seq(IndexRecord)
      /\ \A n \in 1..Len(g.idx) : g.idx[n] \in IndexRecord
  BY FileFields DEF Sound
<1>3. f.free = g.free
  BY ReadPtr DEF Locs
<1>4. f.head = g.head
  <2>1. \A b \in Bucket : f.head[b] = g.head[b]
    BY ReadPtr DEF Locs
  <2> QED
    BY <1>1, <1>2, <2>1
<1>5. ASSUME NEW n \in 1..Len(f.idx) PROVE f.idx[n] = g.idx[n]
  <2>1. f.idx[n].ptr = g.idx[n].ptr
    BY ReadPtr DEF Locs
  <2>2. PICK r \in IndexRecord, s \in IndexRecord : r = f.idx[n] /\ s = g.idx[n]
    BY <1>1, <1>2
  <2>3. /\ r.ptr = s.ptr /\ r.key = s.key /\ r.keylen = s.keylen
        /\ r.datoff = s.datoff /\ r.datlen = s.datlen
    BY <2>1, <2>2 DEF SameFields
  <2>4. r = s
    BY <2>3 DEF IndexRecord
  <2> QED
    BY <2>2, <2>4
<1>6. f.idx = g.idx
  BY <1>1, <1>2, <1>5, SeqEqual
<1> QED
  BY <1>1, <1>2, <1>3, <1>4, <1>6 DEF File

-----------------------------------------------------------------------------
(* Writes that keep a file clean.                                           *)

(* A write of data that suits the record it belongs to.                     *)
LEMMA CleanDat ==
  ASSUME NEW f, NEW o, NEW q, Clean(f, o, q), NEW a, NEW d, NEW g, DatSet(f, a, d, g),
         \A n \in 1..Len(f.idx) : /\ o[RecOff(n)] \notin {FREE_OFF, Nowhere}
                                  /\ f.idx[n].datoff = a /\ d \in Data
                                  => datlen[d] = f.idx[n].datlen
  PROVE  Clean(g, o, q)
<1>1. /\ Sound(f) /\ Marked(f, o, q) /\ Follows(f, o, q) /\ Led(f, o) /\ Alone(f, o)
      /\ Keyed(f, o) /\ OwnData(f)
  BY DEF Clean
<1>2. /\ Sound(g) /\ g.idx = f.idx /\ g.free = f.free /\ g.head = f.head
      /\ g.dat[a] = d /\ \A m \in 1..Len(f.dat) : m # a => g.dat[m] = f.dat[m]
  BY DEF DatSet
<1>3. \A z : db_readptr(g, z) = db_readptr(f, z)
  BY <1>2 DEF db_readptr
<1>4. Marked(g, o, q) /\ OwnData(g)
  BY <1>1, <1>2 DEF Marked, OwnData
<1>5. Follows(g, o, q) /\ Led(g, o) /\ Alone(g, o)
  BY <1>1, <1>3 DEF Follows, Led, Alone
<1>6. Keyed(g, o)
  <2>1. ASSUME NEW n \in Nat, NEW b \in Bucket, o[RecOff(n)] = HashOff(b), DatOf(g, n) \in Data
        PROVE  datlen[DatOf(g, n)] = g.idx[n].datlen
    <3>1. o[RecOff(n)] \notin {FREE_OFF, Nowhere}
      BY <2>1, PlacesDiffer DEF Nowhere
    <3>2. n \in 1..Len(f.idx)
      BY <1>1, <3>1 DEF Marked
    <3>3. f.idx[n].datoff \in 1..Len(f.dat)
      BY <1>1, <3>2 DEF Sound
    <3>4. CASE f.idx[n].datoff = a
      BY <1>2, <2>1, <3>1, <3>2, <3>4 DEF DatOf
    <3>5. CASE f.idx[n].datoff # a
      <4>1. DatOf(g, n) = DatOf(f, n)
        BY <1>2, <3>3, <3>5 DEF DatOf
      <4> QED
        BY <1>1, <1>2, <2>1, <4>1 DEF Keyed
    <3> QED
      BY <3>4, <3>5
  <2>2. \A k, n : RecordOf(g, o, k, n) <=> RecordOf(f, o, k, n)
    BY <1>2 DEF RecordOf
  <2>3. \A n \in Nat : o[RecOff(n)] = FREE_OFF => g.idx[n].key = Blank
    BY <1>1, <1>2 DEF Keyed
  <2>4. \A n \in Nat, b \in Bucket : o[RecOff(n)] = HashOff(b) =>
            g.idx[n].key \in Key /\ hash[g.idx[n].key] = b
    BY <1>1, <1>2 DEF Keyed
  <2>5. \A k \in Key, m, n \in Nat : RecordOf(g, o, k, m) /\ RecordOf(g, o, k, n) => m = n
    BY <1>1, <2>2 DEF Keyed
  <2> QED
    BY <2>1, <2>3, <2>4, <2>5 DEF Keyed
<1> QED
  BY <1>2, <1>4, <1>5, <1>6 DEF Clean

(* A write of a record that is on no list.                                  *)
LEMMA CleanIdx ==
  ASSUME NEW f, NEW o, NEW q, Clean(f, o, q), NEW n, NEW r, NEW g, IdxSet(f, n, r, g),
         n \in 1..(Len(f.idx) + 1), o[RecOff(n)] = Nowhere,
         \A m \in 1..Len(f.idx) : m # n => f.idx[m].datoff # r.datoff
  PROVE  Clean(g, o, q)
<1>1. /\ Sound(f) /\ Marked(f, o, q) /\ Follows(f, o, q) /\ Led(f, o) /\ Alone(f, o)
      /\ Keyed(f, o) /\ OwnData(f) /\ Len(f.idx) \in Nat
  BY FileFields DEF Clean, Sound
<1>2. /\ Sound(g) /\ g.dat = f.dat
      /\ Len(g.idx) = IF n = Len(f.idx) + 1 THEN Len(f.idx) + 1 ELSE Len(f.idx)
      /\ g.idx[n] = r /\ \A m \in 1..Len(f.idx) : m # n => g.idx[m] = f.idx[m]
      /\ \A z \in Locs(f) : z # RecOff(n) => db_readptr(g, z) = db_readptr(f, z)
  BY DEF IdxSet
<1>3. \A y \in On(o) : db_readptr(g, y) = db_readptr(f, y)
  BY <1>1, <1>2, OnLocs DEF On
<1>4. \A m \in Nat : o[RecOff(m)] # Nowhere => m \in 1..Len(f.idx) /\ g.idx[m] = f.idx[m]
  BY <1>1, <1>2 DEF Marked
<1>5. Marked(g, o, q)
  <2>1. \A m \in 1..Len(f.idx) : m \in 1..Len(g.idx)
    BY <1>1, <1>2
  <2> QED
    BY <1>1, <1>4, <2>1 DEF Marked
<1>6. Follows(g, o, q) /\ Led(g, o) /\ Alone(g, o)
  BY <1>1, <1>3 DEF Follows, Led, Alone
<1>7. Keyed(g, o)
  <2>1. /\ \A b : HashOff(b) # Nowhere
        /\ FREE_OFF # Nowhere
    BY PlacesDiffer DEF Nowhere
  <2>2. \A m \in Nat : o[RecOff(m)] # Nowhere => g.idx[m] = f.idx[m] /\ DatOf(g, m) = DatOf(f, m)
    BY <1>2, <1>4 DEF DatOf
  <2>3. \A k, m : RecordOf(g, o, k, m) <=> RecordOf(f, o, k, m)
    BY <2>1, <2>2 DEF RecordOf
  <2>4. \A m \in Nat : o[RecOff(m)] = FREE_OFF => g.idx[m].key = Blank
    BY <1>1, <2>1, <2>2 DEF Keyed
  <2>5. \A m \in Nat, b \in Bucket : o[RecOff(m)] = HashOff(b) =>
            /\ g.idx[m].key \in Key /\ hash[g.idx[m].key] = b
            /\ DatOf(g, m) \in Data => datlen[DatOf(g, m)] = g.idx[m].datlen
    BY <1>1, <2>1, <2>2 DEF Keyed
  <2>6. \A k \in Key, m, i \in Nat : RecordOf(g, o, k, m) /\ RecordOf(g, o, k, i) => m = i
    BY <1>1, <2>3 DEF Keyed
  <2> QED
    BY <2>4, <2>5, <2>6 DEF Keyed
<1>8. OwnData(g)
  <2>1. ASSUME NEW i \in 1..Len(g.idx), NEW j \in 1..Len(g.idx), i # j
        PROVE  g.idx[i].datoff # g.idx[j].datoff
    <3>1. \A m \in 1..Len(g.idx) : m # n => m \in 1..Len(f.idx) /\ g.idx[m] = f.idx[m]
      BY <1>1, <1>2
    <3>2. CASE i = n
      BY <1>2, <2>1, <3>1, <3>2
    <3>3. CASE j = n
      BY <1>2, <2>1, <3>1, <3>3
    <3>4. CASE i # n /\ j # n
      BY <1>1, <2>1, <3>1, <3>4 DEF OwnData
    <3> QED
      BY <3>2, <3>3, <3>4
  <2> QED
    BY <2>1 DEF OwnData
<1> QED
  BY <1>2, <1>5, <1>6, <1>7, <1>8 DEF Clean

(* A record taken off its list.                                             *)
Dropped(o, n) == [o EXCEPT ![RecOff(n)] = Nowhere]

(* A file stays clean when a record is unlinked from its list.              *)
LEMMA CleanUnlink ==
  ASSUME NEW f, NEW o, NEW q, Clean(f, o, q), NEW y \in On(o), NEW n, NEW p, NEW g,
         n = db_readptr(f, y), n # 0, p = db_readptr(f, RecOff(n)), PtrSet(f, y, p, g)
  PROVE  Clean(g, Dropped(o, n), q)
<1> DEFINE u == Dropped(o, n)
<1>1. /\ Sound(f) /\ Marked(f, o, q) /\ Follows(f, o, q) /\ Led(f, o) /\ Alone(f, o)
      /\ Keyed(f, o) /\ OwnData(f) /\ Ranged(f)
  BY SoundRanged DEF Clean
<1>2. /\ Sound(g) /\ Len(g.idx) = Len(f.idx) /\ g.dat = f.dat
      /\ db_readptr(g, y) = p
      /\ \A z \in Locs(f) : z # y => db_readptr(g, z) = db_readptr(f, z)
      /\ \A m \in 1..Len(f.idx) : SameFields(f, g, m)
  BY DEF PtrSet
<1>3. y \in Locs(f) /\ On(o) \subseteq Locs(f) /\ n \in 1..Len(f.idx) /\ n \in Nat
  <2>1. y \in Locs(f) /\ On(o) \subseteq Locs(f)
    BY <1>1, OnLocs
  <2>2. n \in 0..Len(f.idx) /\ Len(f.idx) \in Nat
    BY <1>1, <2>1 DEF Ranged
  <2> QED
    BY <2>1, <2>2
<1>4. /\ RecOff(n) \in Spots /\ o[RecOff(n)] = o[y] /\ o[y] # Nowhere /\ RecOff(n) \in On(o)
      /\ q[RecOff(n)] < q[y]
  BY <1>1, <1>3, SpotFacts DEF Follows, On
<1>5. q[RecOff(n)] \in Nat /\ q[y] \in Nat /\ y # RecOff(n)
  BY <1>1, <1>4 DEF Marked, On
<1>6. /\ u \in [Spots -> Heads \cup {Nowhere}] /\ u[RecOff(n)] = Nowhere
      /\ \A z \in Spots : z # RecOff(n) => u[z] = o[z]
  BY <1>1, <1>4 DEF Dropped, Marked
<1> HIDE DEF u
<1>7. /\ On(u) \subseteq On(o) /\ RecOff(n) \notin On(u)
      /\ \A z \in On(u) : z # RecOff(n) /\ u[z] = o[z] /\ z \in Spots
      /\ \A z \in On(o) : z # RecOff(n) => z \in On(u)
  BY <1>4, <1>6 DEF On
<1>8. y \in On(u)
  BY <1>5, <1>7
<1>9. \A m \in Nat : RecOff(m) \in Spots /\ (m # n => RecOff(m) # RecOff(n))
  BY SpotFacts, PlacesDiffer
<1>10. p # 0 => /\ p \in Nat /\ o[RecOff(p)] = o[y] /\ q[RecOff(p)] < q[RecOff(n)]
                /\ q[RecOff(p)] \in Nat /\ p # n
  <2>1. SUFFICES ASSUME p # 0 PROVE /\ p \in Nat /\ o[RecOff(p)] = o[y]
                                    /\ q[RecOff(p)] < q[RecOff(n)]
                                    /\ q[RecOff(p)] \in Nat /\ p # n
    OBVIOUS
  <2>2. p \in Nat
    BY <1>1, <1>3, <1>4 DEF Ranged
  <2>3. o[RecOff(p)] = o[y] /\ q[RecOff(p)] < q[RecOff(n)]
    BY <1>1, <1>4, <2>1 DEF Follows
  <2>4. q[RecOff(p)] \in Nat
    BY <1>1, <1>9, <2>2 DEF Marked
  <2> QED
    BY <1>5, <2>2, <2>3, <2>4
<1>11. \A z \in On(u) : z # y => db_readptr(g, z) = db_readptr(f, z)
  BY <1>2, <1>3, <1>7
<1>12. Marked(g, u, q)
  <2>1. \A x \in Heads : u[x] = x
    BY <1>1, <1>6, SpotFacts DEF Marked
  <2>2. \A m \in Nat : u[RecOff(m)] # Nowhere => m \in 1..Len(g.idx)
    BY <1>1, <1>2, <1>6, <1>9 DEF Marked
  <2>3. \A z \in On(u) : q[z] <= q[u[z]]
    BY <1>1, <1>7 DEF Marked
  <2> QED
    BY <1>1, <1>6, <2>1, <2>2, <2>3 DEF Marked
<1>13. Follows(g, u, q)
  <2>1. ASSUME NEW z \in On(u), db_readptr(g, z) # 0
        PROVE  /\ u[RecOff(db_readptr(g, z))] = u[z]
               /\ q[RecOff(db_readptr(g, z))] < q[z]
    <3>1. CASE z = y
      <4>1. db_readptr(g, z) = p /\ p # 0
        BY <1>2, <2>1, <3>1
      <4>2. u[RecOff(p)] = o[RecOff(p)]
        BY <1>6, <1>9, <1>10, <4>1
      <4> QED
        BY <1>4, <1>5, <1>7, <1>8, <1>10, <3>1, <4>1, <4>2
    <3>2. CASE z # y
      <4>1. z \in On(o) /\ db_readptr(g, z) = db_readptr(f, z) /\ db_readptr(f, z) # 0
        BY <1>7, <1>11, <2>1, <3>2
      <4>2. /\ o[RecOff(db_readptr(f, z))] = o[z] /\ q[RecOff(db_readptr(f, z))] < q[z]
        BY <1>1, <4>1 DEF Follows
      <4>3. db_readptr(f, z) # n
        BY <1>1, <3>2, <4>1 DEF Alone
      <4>4. db_readptr(f, z) \in Nat
        BY <1>1, <1>3, <4>1 DEF Ranged
      <4>5. u[RecOff(db_readptr(f, z))] = o[RecOff(db_readptr(f, z))]
        BY <1>6, <1>9, <4>3, <4>4
      <4> QED
        BY <1>7, <4>1, <4>2, <4>5
    <3> QED
      BY <3>1, <3>2
  <2> QED
    BY <2>1 DEF Follows
<1>14. Led(g, u)
  <2>1. ASSUME NEW m \in Nat, u[RecOff(m)] # Nowhere
        PROVE  \E z \in On(u) : db_readptr(g, z) = m
    <3>1. m # n /\ o[RecOff(m)] # Nowhere
      BY <1>6, <1>9, <2>1
    <3>2. PICK z \in On(o) : db_readptr(f, z) = m
      BY <1>1, <3>1 DEF Led
    <3>3. z # y
      BY <3>1, <3>2
    <3>4. CASE z = RecOff(n)
      BY <1>2, <1>8, <3>2, <3>4
    <3>5. CASE z # RecOff(n)
      BY <1>7, <1>11, <3>2, <3>3, <3>5
    <3> QED
      BY <3>4, <3>5
  <2> QED
    BY <2>1 DEF Led
<1>15. Alone(g, u)
  <2>1. ASSUME NEW z \in On(u), db_readptr(g, z) = p, p # 0 PROVE z = y
    <3>1. SUFFICES ASSUME z # y PROVE FALSE
      OBVIOUS
    <3>2. db_readptr(f, z) = db_readptr(f, RecOff(n)) /\ db_readptr(f, z) # 0
      BY <1>11, <2>1, <3>1
    <3>3. z = RecOff(n)
      BY <1>1, <1>4, <1>7, <3>2 DEF Alone
    <3> QED
      BY <1>7, <3>3
  <2>2. ASSUME NEW z \in On(u), NEW w \in On(u), db_readptr(g, z) = db_readptr(g, w),
               db_readptr(g, z) # 0
        PROVE  z = w
    <3>1. CASE z = y
      BY <1>2, <2>1, <2>2, <3>1
    <3>2. CASE w = y
      BY <1>2, <2>1, <2>2, <3>2
    <3>3. CASE z # y /\ w # y
      BY <1>1, <1>7, <1>11, <2>2, <3>3 DEF Alone
    <3> QED
      BY <3>1, <3>2, <3>3
  <2> QED
    BY <2>2 DEF Alone
<1>16. Keyed(g, u)
  <2>1. \A m \in Nat : u[RecOff(m)] # Nowhere =>
            /\ u[RecOff(m)] = o[RecOff(m)] /\ SameFields(f, g, m) /\ DatOf(g, m) = DatOf(f, m)
    <3>1. ASSUME NEW m \in Nat, u[RecOff(m)] # Nowhere
          PROVE  u[RecOff(m)] = o[RecOff(m)] /\ SameFields(f, g, m)
      BY <1>1, <1>2, <1>6, <1>9, <3>1 DEF Marked
    <3> QED
      BY <1>2, <3>1 DEF SameFields, DatOf
  <2>2. (\A b : HashOff(b) # Nowhere) /\ FREE_OFF # Nowhere
    BY PlacesDiffer DEF Nowhere
  <2>3. \A k, m : RecordOf(g, u, k, m) => RecordOf(f, o, k, m)
    BY <2>1, <2>2 DEF RecordOf, SameFields
  <2>4. \A m \in Nat : u[RecOff(m)] = FREE_OFF => g.idx[m].key = Blank
    BY <1>1, <2>1, <2>2 DEF Keyed, SameFields
  <2>5. \A m \in Nat, b \in Bucket : u[RecOff(m)] = HashOff(b) =>
            /\ g.idx[m].key \in Key /\ hash[g.idx[m].key] = b
            /\ DatOf(g, m) \in Data => datlen[DatOf(g, m)] = g.idx[m].datlen
    BY <1>1, <2>1, <2>2 DEF Keyed, SameFields
  <2>6. \A k \in Key, m, i \in Nat : RecordOf(g, u, k, m) /\ RecordOf(g, u, k, i) => m = i
    BY <1>1, <2>3 DEF Keyed
  <2> QED
    BY <2>4, <2>5, <2>6 DEF Keyed
<1>17. OwnData(g)
  BY <1>1, <1>2 DEF OwnData, SameFields
<1>18. Clean(g, u, q)
  BY <1>2, <1>12, <1>13, <1>14, <1>15, <1>16, <1>17 DEF Clean
<1> QED
  BY <1>18 DEF u

(* A record put in front of a list it may be on.                            *)
Pushed(o, n, x) == [o EXCEPT ![RecOff(n)] = x]
Raised(q, n, x) == [q EXCEPT ![RecOff(n)] = q[x], ![x] = q[x] + 1]

Suits(f, o, n, x) ==
    /\ x = FREE_OFF => f.idx[n].key = Blank
    /\ \A b \in Bucket : x = HashOff(b) =>
          /\ f.idx[n].key \in Key /\ hash[f.idx[n].key] = b
          /\ DatOf(f, n) \in Data => datlen[DatOf(f, n)] = f.idx[n].datlen
          /\ \A m : ~RecordOf(f, o, f.idx[n].key, m)

(* A file stays clean when a record is put in front of a list.              *)
LEMMA CleanPush ==
  ASSUME NEW f, NEW o, NEW q, Clean(f, o, q), NEW x \in Heads, NEW n \in 1..Len(f.idx), NEW g,
         o[RecOff(n)] = Nowhere, db_readptr(f, RecOff(n)) = db_readptr(f, x),
         Suits(f, o, n, x), PtrSet(f, x, n, g)
  PROVE  Clean(g, Pushed(o, n, x), Raised(q, n, x))
<1> DEFINE u == Pushed(o, n, x)
           r == Raised(q, n, x)
<1>1. /\ Sound(f) /\ Marked(f, o, q) /\ Follows(f, o, q) /\ Led(f, o) /\ Alone(f, o)
      /\ Keyed(f, o) /\ OwnData(f) /\ Ranged(f)
  BY SoundRanged DEF Clean
<1>2. /\ Sound(g) /\ Len(g.idx) = Len(f.idx) /\ g.dat = f.dat
      /\ db_readptr(g, x) = n
      /\ \A z \in Locs(f) : z # x => db_readptr(g, z) = db_readptr(f, z)
      /\ \A m \in 1..Len(f.idx) : SameFields(f, g, m)
  BY DEF PtrSet
<1>3. n \in Nat /\ n # 0 /\ On(o) \subseteq Locs(f) /\ RecOff(n) \in Locs(f)
  BY <1>1, OnLocs DEF Ranged, Locs
<1>4. /\ RecOff(n) \in Spots /\ x \in Spots /\ RecOff(n) # x /\ x # Nowhere
      /\ o[x] = x /\ x \in On(o) /\ q[x] \in Nat
  <2>1. RecOff(n) \in Spots /\ x \in Spots /\ RecOff(n) # x /\ x # Nowhere
    BY <1>3, SpotFacts
  <2> QED
    BY <1>1, <2>1 DEF Marked, On
<1>5. /\ u \in [Spots -> Heads \cup {Nowhere}] /\ u[RecOff(n)] = x
      /\ \A z \in Spots : z # RecOff(n) => u[z] = o[z]
  BY <1>1, <1>4 DEF Pushed, Marked
<1>6. /\ r \in [Spots -> Nat] /\ r[RecOff(n)] = q[x] /\ r[x] = q[x] + 1
      /\ \A z \in Spots : z # RecOff(n) /\ z # x => r[z] = q[z]
  BY <1>1, <1>4 DEF Raised, Marked
<1> HIDE DEF u, r
<1>7. /\ RecOff(n) \notin On(o) /\ RecOff(n) \in On(u) /\ On(o) \subseteq On(u)
      /\ \A z \in On(u) : z \in Spots /\ (z = RecOff(n) \/ (z \in On(o) /\ u[z] = o[z]))
  BY <1>4, <1>5 DEF On
<1>8. \A m \in Nat : RecOff(m) \in Spots /\ (m # n => RecOff(m) # RecOff(n)) /\ RecOff(m) # x
  BY SpotFacts, PlacesDiffer
<1>9. \A z \in On(o) : z # x => db_readptr(g, z) = db_readptr(f, z)
  BY <1>2, <1>3
<1>10. db_readptr(g, RecOff(n)) = db_readptr(f, x)
  BY <1>2, <1>3, <1>4
<1>11. \A z \in On(o) : db_readptr(f, z) # n /\ db_readptr(f, z) \in Nat
  <2> TAKE z \in On(o)
  <2>1. db_readptr(f, z) \in Nat
    BY <1>1, <1>3 DEF Ranged
  <2>2. db_readptr(f, z) = n => o[RecOff(n)] = o[z] /\ o[z] # Nowhere
    BY <1>1, <1>3 DEF Follows, On
  <2> QED
    BY <2>1, <2>2
<1>12. Marked(g, u, r)
  <2>1. \A z \in Heads : u[z] = z
    BY <1>1, <1>5, SpotFacts DEF Marked
  <2>2. \A m \in Nat : u[RecOff(m)] # Nowhere => m \in 1..Len(g.idx)
    BY <1>1, <1>2, <1>5, <1>8 DEF Marked
  <2>3. ASSUME NEW z \in On(u) PROVE r[z] <= r[u[z]]
    <3>1. CASE z = RecOff(n)
      BY <1>4, <1>5, <1>6, <3>1
    <3>2. CASE z # RecOff(n)
      <4>1. z \in On(o) /\ u[z] = o[z] /\ z \in Spots
        BY <1>7, <3>2
      <4>2. q[z] <= q[o[z]] /\ o[z] \in Heads /\ q[z] \in Nat /\ q[o[z]] \in Nat
        <5>1. o[z] \in Heads /\ q[z] <= q[o[z]]
          BY <1>1, <4>1 DEF Marked, On
        <5> QED
          BY <1>1, <4>1, <5>1, SpotFacts DEF Marked
      <4>3. o[z] \in Spots /\ o[z] # RecOff(n)
        BY <4>2, SpotFacts
      <4>4. CASE z = x
        BY <1>4, <1>6, <4>1, <4>4
      <4>5. CASE z # x
        <5>1. r[z] = q[z]
          BY <1>6, <3>2, <4>1, <4>5
        <5>2. r[o[z]] = q[o[z]] \/ r[o[z]] = q[o[z]] + 1
          BY <1>6, <4>3
        <5> QED
          BY <4>1, <4>2, <5>1, <5>2
      <4> QED
        BY <4>4, <4>5
    <3> QED
      BY <3>1, <3>2
  <2> QED
    BY <1>5, <1>6, <2>1, <2>2, <2>3 DEF Marked
<1>13. Follows(g, u, r)
  <2>1. ASSUME NEW z \in On(u), db_readptr(g, z) # 0
        PROVE  /\ u[RecOff(db_readptr(g, z))] = u[z]
               /\ r[RecOff(db_readptr(g, z))] < r[z]
    <3>1. CASE z = x
      BY <1>2, <1>4, <1>5, <1>6, <3>1
    <3>2. CASE z = RecOff(n)
      <4> DEFINE m == db_readptr(f, x)
      <4>1. db_readptr(g, z) = m /\ m # 0 /\ m \in Nat /\ m # n
        BY <1>4, <1>10, <1>11, <2>1, <3>2
      <4>2. o[RecOff(m)] = x /\ q[RecOff(m)] < q[x]
        BY <1>1, <1>4, <4>1 DEF Follows
      <4>3. u[RecOff(m)] = o[RecOff(m)] /\ r[RecOff(m)] = q[RecOff(m)]
        BY <1>5, <1>6, <1>8, <4>1
      <4> QED
        BY <1>5, <1>6, <3>2, <4>1, <4>2, <4>3
    <3>3. CASE z # x /\ z # RecOff(n)
      <4> DEFINE m == db_readptr(f, z)
      <4>1. z \in On(o) /\ u[z] = o[z] /\ z \in Spots
        BY <1>7, <3>3
      <4>2. db_readptr(g, z) = m /\ m # 0 /\ m \in Nat /\ m # n
        BY <1>9, <1>11, <2>1, <3>3, <4>1
      <4>3. o[RecOff(m)] = o[z] /\ q[RecOff(m)] < q[z]
        BY <1>1, <4>1, <4>2 DEF Follows
      <4>4. u[RecOff(m)] = o[RecOff(m)] /\ r[RecOff(m)] = q[RecOff(m)] /\ r[z] = q[z]
        BY <1>5, <1>6, <1>8, <3>3, <4>1, <4>2
      <4> QED
        BY <4>1, <4>2, <4>3, <4>4
    <3> QED
      BY <3>1, <3>2, <3>3
  <2> QED
    BY <2>1 DEF Follows
<1>14. Led(g, u)
  <2>1. ASSUME NEW m \in Nat, u[RecOff(m)] # Nowhere
        PROVE  \E z \in On(u) : db_readptr(g, z) = m
    <3>1. CASE m = n
      BY <1>2, <1>4, <1>7, <3>1
    <3>2. CASE m # n
      <4>1. o[RecOff(m)] # Nowhere
        BY <1>5, <1>8, <2>1, <3>2
      <4>2. PICK z \in On(o) : db_readptr(f, z) = m
        BY <1>1, <4>1 DEF Led
      <4>3. CASE z = x
        BY <1>7, <1>10, <4>2, <4>3
      <4>4. CASE z # x
        BY <1>7, <1>9, <4>2, <4>4
      <4> QED
        BY <4>3, <4>4
    <3> QED
      BY <3>1, <3>2
  <2> QED
    BY <2>1 DEF Led
<1>15. Alone(g, u)
  (* The pointer at z is in the old file at Was(z).                         *)
  <2> DEFINE Was(z) == IF z = RecOff(n) THEN x ELSE z
  <2>1. ASSUME NEW z \in On(u), z # x
        PROVE  Was(z) \in On(o) /\ db_readptr(g, z) = db_readptr(f, Was(z))
    BY <1>4, <1>7, <1>9, <1>10, <2>1
  <2>2. ASSUME NEW z \in On(u), NEW w \in On(u), db_readptr(g, z) = db_readptr(g, w),
               db_readptr(g, z) # 0
        PROVE  z = w
    <3>1. CASE z # x /\ w # x
      <4>1. Was(z) = Was(w)
        <5> HIDE DEF Was
        <5> QED
          BY <1>1, <2>1, <2>2, <3>1 DEF Alone
      <4> QED
        BY <3>1, <4>1
    <3>2. \A i \in On(u) : i # x => db_readptr(g, i) # n
      <4> HIDE DEF Was
      <4> QED
        BY <1>11, <2>1
    <3>3. CASE z = x \/ w = x
      BY <1>2, <2>2, <3>2, <3>3
    <3> QED
      BY <3>1, <3>3
  <2> QED
    BY <2>2 DEF Alone
<1>16. Keyed(g, u)
  <2>1. \A m \in Nat : u[RecOff(m)] # Nowhere =>
            /\ m # n => u[RecOff(m)] = o[RecOff(m)]
            /\ SameFields(f, g, m) /\ DatOf(g, m) = DatOf(f, m)
    <3>1. ASSUME NEW m \in Nat, u[RecOff(m)] # Nowhere
          PROVE  (m # n => u[RecOff(m)] = o[RecOff(m)]) /\ SameFields(f, g, m)
      <4>1. m # n => u[RecOff(m)] = o[RecOff(m)]
        BY <1>5, <1>8
      <4>2. m \in 1..Len(f.idx)
        BY <1>1, <3>1, <4>1 DEF Marked
      <4> QED
        BY <1>2, <4>1, <4>2
    <3> QED
      BY <1>2, <3>1 DEF SameFields, DatOf
  <2>2. (\A b : HashOff(b) # Nowhere) /\ FREE_OFF # Nowhere
    BY PlacesDiffer DEF Nowhere
  <2>3. \A k, m : m # n /\ RecordOf(g, u, k, m) => RecordOf(f, o, k, m)
    BY <2>1, <2>2 DEF RecordOf, SameFields
  <2>4. \A m \in Nat : u[RecOff(m)] = FREE_OFF => g.idx[m].key = Blank
    <3>1. ASSUME NEW m \in Nat, u[RecOff(m)] = FREE_OFF PROVE g.idx[m].key = Blank
      <4>1. CASE m = n
        BY <1>5, <2>1, <2>2, <3>1, <4>1 DEF Suits, SameFields
      <4>2. CASE m # n
        BY <1>1, <2>1, <2>2, <3>1, <4>2 DEF Keyed, SameFields
      <4> QED
        BY <4>1, <4>2
    <3> QED
      BY <3>1
  <2>5. ASSUME NEW m \in Nat, NEW b \in Bucket, u[RecOff(m)] = HashOff(b)
        PROVE  /\ g.idx[m].key \in Key /\ hash[g.idx[m].key] = b
               /\ DatOf(g, m) \in Data => datlen[DatOf(g, m)] = g.idx[m].datlen
    <3>1. CASE m = n
      BY <1>5, <2>1, <2>2, <2>5, <3>1 DEF Suits, SameFields
    <3>2. CASE m # n
      BY <1>1, <2>1, <2>2, <2>5, <3>2 DEF Keyed, SameFields
    <3> QED
      BY <3>1, <3>2
  <2>6. ASSUME NEW k \in Key, NEW m \in Nat, RecordOf(g, u, k, n), RecordOf(g, u, k, m) PROVE m = n
    <3>1. SUFFICES ASSUME m # n PROVE FALSE
      OBVIOUS
    <3>2. RecordOf(f, o, k, m)
      BY <2>3, <2>6, <3>1
    <3>3. g.idx[n].key = k /\ x = HashOff(hash[k]) /\ f.idx[n].key = k
      BY <1>2, <1>5, <2>6 DEF RecordOf, SameFields
    <3>4. hash[k] \in Bucket
      BY SpotFacts
    <3> QED
      BY <3>2, <3>3, <3>4 DEF Suits
  <2>7. \A k \in Key, m, i \in Nat : RecordOf(g, u, k, m) /\ RecordOf(g, u, k, i) => m = i
    BY <1>1, <2>3, <2>6 DEF Keyed
  <2> QED
    BY <2>4, <2>5, <2>7 DEF Keyed
<1>17. OwnData(g)
  BY <1>1, <1>2 DEF OwnData, SameFields
<1>18. Clean(g, u, r)
  BY <1>2, <1>12, <1>13, <1>14, <1>15, <1>16, <1>17 DEF Clean
<1> QED
  BY <1>18 DEF u, r

-----------------------------------------------------------------------------
(* What an operation does to the keys.                                      *)

(* A key that has the same record with the same data holds the same.        *)
SameFor(f, o, g, u, j) ==
    /\ \A n : RecordOf(f, o, j, n) <=> RecordOf(g, u, j, n)
    /\ \A n : RecordOf(f, o, j, n) => DatOf(g, n) = DatOf(f, n)

(* What such a key holds in two clean files.                                *)
LEMMA SameKey ==
  ASSUME NEW f, NEW o, NEW q, Clean(f, o, q), NEW g, NEW u, NEW r, Clean(g, u, r),
         NEW j \in Key, SameFor(f, o, g, u, j)
  PROVE  db_readdat(g, j) = db_readdat(f, j)
<1>1. CASE \A n : ~RecordOf(f, o, j, n)
  <2>1. \A n : ~RecordOf(g, u, j, n)
    BY <1>1 DEF SameFor
  <2> QED
    BY <1>1, <2>1, ReadNothing
<1>2. ASSUME NEW n, RecordOf(f, o, j, n) PROVE db_readdat(g, j) = db_readdat(f, j)
  <2>1. RecordOf(g, u, j, n) /\ DatOf(g, n) = DatOf(f, n)
    BY <1>2 DEF SameFor
  <2>2. db_readdat(f, j) = DatOf(f, n)
    BY <1>2, ReadRecord
  <2>3. db_readdat(g, j) = DatOf(g, n)
    BY <2>1, ReadRecord
  <2> QED
    BY <2>1, <2>2, <2>3
<1> QED
  BY <1>1, <1>2

(* What the keys hold after a write, if it is about k alone.                *)
LEMMA OnlyKey ==
  ASSUME NEW f, NEW o, NEW q, Clean(f, o, q), NEW g, NEW u, NEW r, Clean(g, u, r),
         NEW k \in Key, \A j \in Key : j # k => SameFor(f, o, g, u, j),
         NEW h, h = contents(f)
  PROVE  [h EXCEPT ![k] = db_readdat(g, k)] = contents(g)
<1>1. \A j \in Key : j # k => db_readdat(g, j) = db_readdat(f, j)
  BY SameKey
<1> QED
  BY <1>1 DEF contents

Tidy(f) == \E o, q : Clean(f, o, q)

(* The phases of an operation that is to make k hold v; ws is what it still *)
(* has to write, h what the keys hold.  P are the pointers there is room    *)
(* for.                                                                     *)
Finished(f, ws, k, v, h) ==
    ws = <<>> /\ Tidy(f) /\ h = contents(f) /\ h[k] = v

Overwrites(f, ws, k, v, h) ==
    \E o, q, n :
        /\ Clean(f, o, q) /\ RecordOf(f, o, k, n) /\ v \in Data /\ datlen[v] = f.idx[n].datlen
        /\ ws = <<db_writedat(f.idx[n].datoff, v)>> /\ h = contents(f)

New(f, o, q, n, r, k, v) ==
    /\ Clean(f, o, q) /\ n \in 1..(Len(f.idx) + 1) /\ o[RecOff(n)] = Nowhere
    /\ v \in Data /\ \A m : ~RecordOf(f, o, k, m)
    /\ r \in IndexRecord /\ r.ptr = f.head[hash[k]] /\ r.key = k /\ r.datlen = datlen[v]
    /\ \A m \in 1..Len(f.idx) : m # n => f.idx[m].datoff # r.datoff

Stores(f, ws, k, v, h) ==
    \E o, q, n, r :
        /\ New(f, o, q, n, r, k, v) /\ r.datoff \in 1..(Len(f.dat) + 1) /\ h = contents(f)
        /\ ws = <<db_writedat(r.datoff, v), db_writeidx(n, r), db_writeptr(HashOff(hash[k]), n)>>

Indexes(f, ws, k, v, h) ==
    \E o, q, n, r :
        /\ New(f, o, q, n, r, k, v) /\ r.datoff \in 1..Len(f.dat) /\ f.dat[r.datoff] = v
        /\ ws = <<db_writeidx(n, r), db_writeptr(HashOff(hash[k]), n)>> /\ h = contents(f)

Links(f, ws, k, v, h) ==
    \E o, q, n, r :
        /\ New(f, o, q, n, r, k, v) /\ n \in 1..Len(f.idx) /\ f.idx[n] = r /\ f.dat[r.datoff] = v
        /\ ws = <<db_writeptr(HashOff(hash[k]), n)>> /\ h = contents(f)

Reuses(f, ws, k, v, h) ==
    \E o, q, n, y :
        /\ Clean(f, o, q) /\ y \in On(o) /\ o[y] = FREE_OFF
        /\ n = db_readptr(f, y) /\ n # 0 /\ f.idx[n].datlen = datlen[v]
        /\ v \in Data /\ (\A m : ~RecordOf(f, o, k, m)) /\ h = contents(f)
        /\ ws = <<db_writeptr(y, f.idx[n].ptr), db_writedat(f.idx[n].datoff, v),
                  db_writeidx(n, Rekeyed(f.idx[n], k, f.head[hash[k]])),
                  db_writeptr(HashOff(hash[k]), n)>>

(* The record n of k, which the pointer at y leads to, is to be deleted.    *)
Doomed(P, f, o, q, n, y, k) ==
    /\ Clean(f, o, q) /\ RecordOf(f, o, k, n) /\ y \in On(o) /\ db_readptr(f, y) = n
    /\ f.idx[n].ptr \in P

Freed(f, n) == Rekeyed(f.idx[n], Blank, f.free)

Second(f, n)    == written(f, db_writeidx(n, Freed(f, n)))
Third(f, n)     == written(Second(f, n), db_writeptr(FREE_OFF, n))
Fourth(f, n, y) == written(Third(f, n), db_writeptr(y, f.idx[n].ptr))

(* What follows a deletion that leaves the file g.                          *)
Follow(t, g, k, v) ==
    \/ t = <<>> /\ v = Nil
    \/ t = appended(g, k, v) /\ v \in Data

Blanks(P, f, ws, k, v, h) ==
    \E o, q, n, y, t, g :
        /\ Doomed(P, f, o, q, n, y, k) /\ g = written(f, db_writedat(f.idx[n].datoff, Blank))
        /\ Follow(t, Fourth(g, n, y), k, v) /\ (v \in Data => datlen[v] # f.idx[n].datlen)
        /\ ws = Cons(db_writedat(f.idx[n].datoff, Blank),
                     Cons(db_writeidx(n, Freed(f, n)),
                          Cons(db_writeptr(FREE_OFF, n),
                               Cons(db_writeptr(y, f.idx[n].ptr), t))))
        /\ h = contents(f)

Frees(P, f, ws, k, v, h) ==
    \E o, q, n, y, t :
        /\ Doomed(P, f, o, q, n, y, k) /\ DatOf(f, n) = Blank /\ Follow(t, Fourth(f, n, y), k, v)
        /\ ws = Cons(db_writeidx(n, Freed(f, n)),
                     Cons(db_writeptr(FREE_OFF, n), Cons(db_writeptr(y, f.idx[n].ptr), t)))
        /\ h = contents(f)

PutsFree(P, f, ws, k, v, h) ==
    \E g, o, q, n, y, t :
        /\ Doomed(P, g, o, q, n, y, k) /\ Follow(t, Fourth(g, n, y), k, v) /\ f = Second(g, n)
        /\ ws = Cons(db_writeptr(FREE_OFF, n), Cons(db_writeptr(y, g.idx[n].ptr), t))
        /\ h = [contents(g) EXCEPT ![k] = Nil]

Unlinks(P, f, ws, k, v, h) ==
    \E g, o, q, n, y, t :
        /\ Doomed(P, g, o, q, n, y, k) /\ Follow(t, Fourth(g, n, y), k, v) /\ f = Third(g, n)
        /\ ws = Cons(db_writeptr(y, g.idx[n].ptr), t)
        /\ h = [contents(g) EXCEPT ![k] = Nil]

Working(P, f, ws, k, v, h) ==
    \/ Finished(f, ws, k, v, h) \/ Overwrites(f, ws, k, v, h)
    \/ Stores(f, ws, k, v, h) \/ Indexes(f, ws, k, v, h) \/ Links(f, ws, k, v, h)
    \/ Reuses(f, ws, k, v, h) \/ Blanks(P, f, ws, k, v, h) \/ Frees(P, f, ws, k, v, h)
    \/ PutsFree(P, f, ws, k, v, h) \/ Unlinks(P, f, ws, k, v, h)

(* After its next write an operation is in a phase again, and what k holds  *)
(* changed only if k did not yet hold v.                                    *)
Advances(P, f, ws, k, v, h) ==
    LET g == written(f, Head(ws))
        i == [h EXCEPT ![k] = db_readdat(g, k)]
    IN  Working(P, g, Tail(ws), k, v, i) /\ (i = h \/ h[k] # v)

(* An operation that stores a key that was not there goes through some of   *)
(* the phases only.                                                         *)
Storing(f, ws, k, v, h) ==
    \/ Finished(f, ws, k, v, h) \/ Stores(f, ws, k, v, h) \/ Indexes(f, ws, k, v, h)
    \/ Links(f, ws, k, v, h) \/ Reuses(f, ws, k, v, h)

StoreAdvances(f, ws, k, v, h) ==
    LET g == written(f, Head(ws))
        i == [h EXCEPT ![k] = db_readdat(g, k)]
    IN  Storing(g, Tail(ws), k, v, i) /\ (i = h \/ h[k] # v)

(* The data are written over.                                               *)
LEMMA OverwritesAdvances ==
  ASSUME NEW P, NEW f, NEW ws, NEW k \in Key, NEW v, NEW h, Overwrites(f, ws, k, v, h)
  PROVE  Advances(P, f, ws, k, v, h)
<1>1. PICK o, q, n :
        /\ Clean(f, o, q) /\ RecordOf(f, o, k, n) /\ v \in Data /\ datlen[v] = f.idx[n].datlen
        /\ ws = <<db_writedat(f.idx[n].datoff, v)>> /\ h = contents(f)
  BY DEF Overwrites
<1>2. PICK a, g : a = f.idx[n].datoff /\ g = written(f, db_writedat(a, v))
  OBVIOUS
<1>3. n \in 1..Len(f.idx) /\ Sound(f) /\ OwnData(f)
  BY <1>1, ReadRecord DEF Clean
<1>4. a \in 1..Len(f.dat) /\ Len(f.dat) \in Nat
  BY <1>2, <1>3, FileFields DEF Sound
<1>5. DatSet(f, a, v, g)
  <2>1. a \in 1..(Len(f.dat) + 1)
    BY <1>4
  <2> QED
    BY <1>1, <1>2, <1>3, <2>1, DatWritten
<1>6. Clean(g, o, q)
  <2>1. \A m \in 1..Len(f.idx) : f.idx[m].datoff = a => m = n
    BY <1>2, <1>3 DEF OwnData
  <2> QED
    BY <1>1, <1>5, <2>1, CleanDat
<1>7. g.idx = f.idx /\ g.dat[a] = v /\ \A m \in 1..Len(f.dat) : m # a => g.dat[m] = f.dat[m]
  BY <1>5 DEF DatSet
<1>8. db_readdat(g, k) = v
  <2>1. RecordOf(g, o, k, n)
    BY <1>1, <1>7 DEF RecordOf
  <2>2. db_readdat(g, k) = DatOf(g, n)
    BY <1>6, <2>1, ReadRecord
  <2> QED
    BY <1>2, <1>7, <2>2 DEF DatOf
<1>9. ASSUME NEW j \in Key, j # k PROVE SameFor(f, o, g, o, j)
  <2>1. \A m : RecordOf(f, o, j, m) <=> RecordOf(g, o, j, m)
    BY <1>7 DEF RecordOf
  <2>2. ASSUME NEW m, RecordOf(f, o, j, m) PROVE DatOf(g, m) = DatOf(f, m)
    <3>1. m \in 1..Len(f.idx) /\ m # n
      BY <1>1, <1>9, <2>2, ReadRecord DEF RecordOf
    <3>2. f.idx[m].datoff # a /\ f.idx[m].datoff \in 1..Len(f.dat)
      BY <1>2, <1>3, <3>1 DEF OwnData, Sound
    <3> QED
      BY <1>7, <3>2 DEF DatOf
  <2> QED
    BY <2>1, <2>2 DEF SameFor
<1>10. PICK i : i = [h EXCEPT ![k] = db_readdat(g, k)]
  OBVIOUS
<1>11. i = contents(g)
  BY <1>1, <1>6, <1>9, <1>10, OnlyKey
<1>12. i[k] = v /\ (i = h \/ h[k] # v)
  BY <1>1, <1>8, <1>10 DEF contents
<1>13. Head(ws) = db_writedat(a, v) /\ Tail(ws) = <<>>
  BY <1>1, <1>2
<1>14. Finished(g, Tail(ws), k, v, i)
  BY <1>6, <1>11, <1>12, <1>13 DEF Finished, Tidy
<1> QED
  BY <1>2, <1>10, <1>12, <1>13, <1>14 DEF Advances, Working

(* An operation that finds no record of k changes what k holds.             *)
LEMMA NothingYet ==
  ASSUME NEW f, NEW o, NEW q, Clean(f, o, q), NEW k \in Key, NEW v \in Data,
         \A m : ~RecordOf(f, o, k, m), NEW h, h = contents(f)
  PROVE  h[k] # v
<1>1. db_readdat(f, k) = Nil
  BY ReadNothing
<1> QED
  BY <1>1, SimpleDBAssumption DEF contents

(* The data of the new record are written.                                  *)
LEMMA StoresAdvances ==
  ASSUME NEW f, NEW ws, NEW k \in Key, NEW v, NEW h, Stores(f, ws, k, v, h)
  PROVE  StoreAdvances(f, ws, k, v, h)
<1>1. PICK o, q, n, r :
        /\ New(f, o, q, n, r, k, v) /\ r.datoff \in 1..(Len(f.dat) + 1) /\ h = contents(f)
        /\ ws = <<db_writedat(r.datoff, v), db_writeidx(n, r), db_writeptr(HashOff(hash[k]), n)>>
  BY DEF Stores
<1>2. PICK a, g : a = r.datoff /\ g = written(f, db_writedat(a, v))
  OBVIOUS
<1>3. /\ Clean(f, o, q) /\ n \in 1..(Len(f.idx) + 1) /\ o[RecOff(n)] = Nowhere
      /\ v \in Data /\ \A m : ~RecordOf(f, o, k, m)
      /\ r \in IndexRecord /\ r.ptr = f.head[hash[k]] /\ r.key = k /\ r.datlen = datlen[v]
      /\ \A m \in 1..Len(f.idx) : m # n => f.idx[m].datoff # r.datoff
  BY <1>1 DEF New
<1>4. Sound(f) /\ Len(f.dat) \in Nat /\ a \in 1..(Len(f.dat) + 1)
  BY <1>1, <1>2, <1>3, FileFields DEF Clean, Sound
<1>5. /\ DatSet(f, a, v, g)
      /\ Len(g.dat) = IF a = Len(f.dat) + 1 THEN Len(f.dat) + 1 ELSE Len(f.dat)
  BY <1>2, <1>3, <1>4, DatWritten
<1>6. /\ g.idx = f.idx /\ g.head = f.head /\ g.dat[a] = v
      /\ \A m \in 1..Len(f.dat) : m # a => g.dat[m] = f.dat[m]
  BY <1>5 DEF DatSet
<1>7. Clean(g, o, q)
  BY <1>2, <1>3, <1>5, CleanDat
<1>8. \A j, m : RecordOf(g, o, j, m) <=> RecordOf(f, o, j, m)
  BY <1>6 DEF RecordOf
<1>9. ASSUME NEW j \in Key PROVE SameFor(f, o, g, o, j)
  <2>1. ASSUME NEW m, RecordOf(f, o, j, m) PROVE DatOf(g, m) = DatOf(f, m)
    <3>1. m \in 1..Len(f.idx)
      BY <1>3, <2>1, ReadRecord
    <3>2. m # n
      BY <1>3, <2>1, PlacesDiffer DEF RecordOf, Nowhere
    <3>3. f.idx[m].datoff # a /\ f.idx[m].datoff \in 1..Len(f.dat)
      BY <1>2, <1>3, <1>4, <3>1, <3>2 DEF Sound
    <3> QED
      BY <1>6, <3>3 DEF DatOf
  <2> QED
    BY <1>8, <2>1 DEF SameFor
<1>10. PICK i : i = [h EXCEPT ![k] = db_readdat(g, k)]
  OBVIOUS
<1>11. i = contents(g)
  BY <1>1, <1>3, <1>7, <1>9, <1>10, OnlyKey
<1>12. h[k] # v
  BY <1>1, <1>3, NothingYet
<1>13. Head(ws) = db_writedat(a, v)
       /\ Tail(ws) = <<db_writeidx(n, r), db_writeptr(HashOff(hash[k]), n)>>
  BY <1>1, <1>2
<1>14. New(g, o, q, n, r, k, v)
  BY <1>3, <1>6, <1>7, <1>8 DEF New
<1>15. r.datoff \in 1..Len(g.dat) /\ g.dat[r.datoff] = v
  BY <1>2, <1>4, <1>5, <1>6
<1>16. Indexes(g, Tail(ws), k, v, i)
  BY <1>11, <1>13, <1>14, <1>15 DEF Indexes
<1> QED
  BY <1>2, <1>10, <1>12, <1>13, <1>16 DEF StoreAdvances, Storing

(* Its index record is written.                                             *)
LEMMA IndexesAdvances ==
  ASSUME NEW f, NEW ws, NEW k \in Key, NEW v, NEW h, Indexes(f, ws, k, v, h)
  PROVE  StoreAdvances(f, ws, k, v, h)
<1>1. PICK o, q, n, r :
        /\ New(f, o, q, n, r, k, v) /\ r.datoff \in 1..Len(f.dat) /\ f.dat[r.datoff] = v
        /\ ws = <<db_writeidx(n, r), db_writeptr(HashOff(hash[k]), n)>> /\ h = contents(f)
  BY DEF Indexes
<1>2. PICK g : g = written(f, db_writeidx(n, r))
  OBVIOUS
<1>3. /\ Clean(f, o, q) /\ n \in 1..(Len(f.idx) + 1) /\ o[RecOff(n)] = Nowhere
      /\ v \in Data /\ \A m : ~RecordOf(f, o, k, m)
      /\ r \in IndexRecord /\ r.ptr = f.head[hash[k]] /\ r.key = k /\ r.datlen = datlen[v]
      /\ \A m \in 1..Len(f.idx) : m # n => f.idx[m].datoff # r.datoff
  BY <1>1 DEF New
<1>4. Sound(f) /\ Len(f.idx) \in Nat /\ r.ptr \in 0..Len(f.idx)
  BY <1>3, FileFields, SpotFacts DEF Clean, Sound
<1>5. IdxSet(f, n, r, g)
  BY <1>1, <1>2, <1>3, <1>4, IdxWritten
<1>6. /\ g.dat = f.dat
      /\ Len(g.idx) = IF n = Len(f.idx) + 1 THEN Len(f.idx) + 1 ELSE Len(f.idx)
      /\ g.idx[n] = r /\ \A m \in 1..Len(f.idx) : m # n => g.idx[m] = f.idx[m]
      /\ \A z \in Locs(f) : z # RecOff(n) => db_readptr(g, z) = db_readptr(f, z)
  BY <1>5 DEF IdxSet
<1>7. Clean(g, o, q)
  BY <1>3, <1>5, CleanIdx
<1>8. \A m \in Nat : o[RecOff(m)] # Nowhere => g.idx[m] = f.idx[m]
  BY <1>3, <1>6 DEF Clean, Marked
<1>9. \A j, m : /\ RecordOf(g, o, j, m) <=> RecordOf(f, o, j, m)
                /\ RecordOf(f, o, j, m) => DatOf(g, m) = DatOf(f, m)
  BY <1>6, <1>8, PlacesDiffer DEF RecordOf, Nowhere, DatOf
<1>10. \A j \in Key : SameFor(f, o, g, o, j)
  BY <1>9 DEF SameFor
<1>11. PICK i : i = [h EXCEPT ![k] = db_readdat(g, k)]
  OBVIOUS
<1>12. i = contents(g)
  BY <1>1, <1>3, <1>7, <1>10, <1>11, OnlyKey
<1>13. h[k] # v
  BY <1>1, <1>3, NothingYet
<1>14. Head(ws) = db_writeidx(n, r) /\ Tail(ws) = <<db_writeptr(HashOff(hash[k]), n)>>
  BY <1>1
<1>15. g.head[hash[k]] = f.head[hash[k]]
  <2>1. HashOff(hash[k]) \in Locs(f) /\ HashOff(hash[k]) # RecOff(n)
    BY SpotFacts, PlacesDiffer DEF Locs
  <2> QED
    BY <1>6, <2>1, ReadPtr
<1>16. n \in 1..Len(g.idx) /\ n \in 1..(Len(g.idx) + 1)
       /\ \A m \in 1..Len(g.idx) : m # n => g.idx[m].datoff # r.datoff
  BY <1>3, <1>4, <1>6
<1>17. New(g, o, q, n, r, k, v)
  BY <1>3, <1>7, <1>9, <1>15, <1>16 DEF New
<1>18. Links(g, Tail(ws), k, v, i)
  BY <1>1, <1>6, <1>12, <1>14, <1>16, <1>17 DEF Links
<1> QED
  BY <1>2, <1>11, <1>13, <1>14, <1>18 DEF StoreAdvances, Storing

(* What a pointer leaves of the records of the keys.                        *)
Repointed(f, o, q, y, p, g, u, n) ==
    /\ Marked(f, o, q) /\ PtrSet(f, y, p, g)
    /\ \A m \in Nat : m # n => u[RecOff(m)] = o[RecOff(m)]

(* A pointer that is written changes the record of no key, but for n.       *)
LEMMA RecordsKept ==
  ASSUME NEW f, NEW o, NEW q, NEW y, NEW p, NEW g, NEW u, NEW n,
         Repointed(f, o, q, y, p, g, u, n)
  PROVE  \A j, m : m # n => /\ RecordOf(f, o, j, m) <=> RecordOf(g, u, j, m)
                            /\ RecordOf(f, o, j, m) => DatOf(g, m) = DatOf(f, m)
<1>1. g.dat = f.dat /\ \A m \in 1..Len(f.idx) : SameFields(f, g, m)
  BY DEF PtrSet, Repointed
<1>2. \A m \in Nat : o[RecOff(m)] # Nowhere => SameFields(f, g, m)
  BY <1>1 DEF Marked, Repointed
<1>3. \A b : HashOff(b) # Nowhere
  BY PlacesDiffer DEF Nowhere
<1>4. \A m \in Nat : m # n => u[RecOff(m)] = o[RecOff(m)]
  BY DEF Repointed
<1> QED
  BY <1>1, <1>2, <1>3, <1>4 DEF RecordOf, SameFields, DatOf

(* The new record is put in front of its chain.                             *)
LEMMA LinksAdvances ==
  ASSUME NEW f, NEW ws, NEW k \in Key, NEW v, NEW h, Links(f, ws, k, v, h)
  PROVE  StoreAdvances(f, ws, k, v, h)
<1>1. PICK o, q, n, r :
        /\ New(f, o, q, n, r, k, v) /\ n \in 1..Len(f.idx) /\ f.idx[n] = r /\ f.dat[r.datoff] = v
        /\ ws = <<db_writeptr(HashOff(hash[k]), n)>> /\ h = contents(f)
  BY DEF Links
<1>2. PICK x, g : x = HashOff(hash[k]) /\ g = written(f, db_writeptr(x, n))
  OBVIOUS
<1>3. /\ Clean(f, o, q) /\ o[RecOff(n)] = Nowhere
      /\ v \in Data /\ \A m : ~RecordOf(f, o, k, m)
      /\ r.ptr = f.head[hash[k]] /\ r.key = k /\ r.datlen = datlen[v]
  BY <1>1 DEF New
<1>4. Sound(f) /\ Marked(f, o, q) /\ Len(f.idx) \in Nat /\ n \in 0..Len(f.idx) /\ n \in Nat
  BY <1>1, <1>3, FileFields DEF Clean, Sound
<1>5. x \in Heads /\ x \in Locs(f)
  BY <1>2, SpotFacts DEF Locs
<1>6. PtrSet(f, x, n, g)
  BY <1>2, <1>4, <1>5, PtrWritten
<1>7. db_readptr(f, RecOff(n)) = db_readptr(f, x)
  BY <1>1, <1>2, <1>3, ReadPtr
<1>8. Suits(f, o, n, x)
  BY <1>1, <1>2, <1>3, PlacesDiffer DEF Suits, DatOf
<1>9. PICK u, s : u = Pushed(o, n, x) /\ s = Raised(q, n, x)
  OBVIOUS
<1>10. Clean(g, u, s)
  BY <1>1, <1>3, <1>5, <1>6, <1>7, <1>8, <1>9, CleanPush
<1>11. u[RecOff(n)] = x /\ \A m \in Nat : m # n => u[RecOff(m)] = o[RecOff(m)]
  <2>1. o \in [Spots -> Heads \cup {Nowhere}] /\ RecOff(n) \in Spots
    BY <1>4, SpotFacts DEF Marked
  <2>2. \A m \in Nat : RecOff(m) \in Spots /\ (m # n => RecOff(m) # RecOff(n))
    BY SpotFacts, PlacesDiffer
  <2> QED
    BY <1>9, <2>1, <2>2 DEF Pushed
<1>12. \A j, m : m # n => /\ RecordOf(f, o, j, m) <=> RecordOf(g, u, j, m)
                          /\ RecordOf(f, o, j, m) => DatOf(g, m) = DatOf(f, m)
  <2>1. Repointed(f, o, q, x, n, g, u, n)
    BY <1>4, <1>6, <1>11 DEF Repointed
  <2> QED
    BY <2>1, RecordsKept
<1>13. SameFields(f, g, n) /\ g.dat = f.dat
  BY <1>1, <1>6 DEF PtrSet
<1>14. RecordOf(g, u, k, n) /\ DatOf(g, n) = v
  BY <1>1, <1>2, <1>3, <1>4, <1>11, <1>13 DEF RecordOf, SameFields, DatOf
<1>15. db_readdat(g, k) = v
  BY <1>10, <1>14, ReadRecord
<1>16. ASSUME NEW j \in Key, j # k PROVE SameFor(f, o, g, u, j)
  <2>1. ~RecordOf(f, o, j, n)
    BY <1>3, PlacesDiffer DEF RecordOf, Nowhere
  <2>2. ~RecordOf(g, u, j, n)
    BY <1>14, <1>16 DEF RecordOf
  <2> QED
    BY <1>12, <2>1, <2>2 DEF SameFor
<1>17. PICK i : i = [h EXCEPT ![k] = db_readdat(g, k)]
  OBVIOUS
<1>18. i = contents(g) /\ i[k] = v
  <2>1. i = contents(g)
    BY <1>1, <1>3, <1>10, <1>16, <1>17, OnlyKey
  <2> QED
    BY <1>15, <2>1 DEF contents
<1>19. h[k] # v
  BY <1>1, <1>3, NothingYet
<1>20. Head(ws) = db_writeptr(x, n) /\ Tail(ws) = <<>>
  BY <1>1, <1>2
<1>21. Finished(g, Tail(ws), k, v, i)
  BY <1>10, <1>18, <1>20 DEF Finished, Tidy
<1> QED
  BY <1>2, <1>17, <1>19, <1>20, <1>21 DEF StoreAdvances, Storing

(* A record leaves the free list.                                           *)
LEMMA ReusesAdvances ==
  ASSUME NEW f, NEW ws, NEW k \in Key, NEW v, NEW h, Reuses(f, ws, k, v, h)
  PROVE  StoreAdvances(f, ws, k, v, h)
<1>1. PICK o, q, n, y :
        /\ Clean(f, o, q) /\ y \in On(o) /\ o[y] = FREE_OFF
        /\ n = db_readptr(f, y) /\ n # 0 /\ f.idx[n].datlen = datlen[v]
        /\ v \in Data /\ (\A m : ~RecordOf(f, o, k, m)) /\ h = contents(f)
        /\ ws = <<db_writeptr(y, f.idx[n].ptr), db_writedat(f.idx[n].datoff, v),
                  db_writeidx(n, Rekeyed(f.idx[n], k, f.head[hash[k]])),
                  db_writeptr(HashOff(hash[k]), n)>>
  BY DEF Reuses
<1>2. PICK p, r, g, u : /\ p = f.idx[n].ptr /\ r = Rekeyed(f.idx[n], k, f.head[hash[k]])
                        /\ g = written(f, db_writeptr(y, p)) /\ u = Dropped(o, n)
  OBVIOUS
<1>3. /\ Sound(f) /\ Marked(f, o, q) /\ Len(f.idx) \in Nat /\ y \in Locs(f)
      /\ n \in 1..Len(f.idx) /\ OwnData(f)
  <2>1. Sound(f) /\ Marked(f, o, q) /\ y \in Locs(f) /\ OwnData(f)
    BY <1>1, OnLocs DEF Clean
  <2>2. n \in 0..Len(f.idx) /\ Len(f.idx) \in Nat
    BY <1>1, <2>1, SoundRanged DEF Ranged
  <2> QED
    BY <1>1, <2>1, <2>2
<1>4. p \in 0..Len(f.idx) /\ p = db_readptr(f, RecOff(n)) /\ n \in Nat
  BY <1>2, <1>3, ReadPtr DEF Sound
<1>5. PtrSet(f, y, p, g)
  BY <1>2, <1>3, <1>4, PtrWritten
<1>6. Clean(g, u, q)
  BY <1>1, <1>2, <1>4, <1>5, CleanUnlink
<1>7. u[RecOff(n)] = Nowhere /\ \A m \in Nat : m # n => u[RecOff(m)] = o[RecOff(m)]
  <2>1. o \in [Spots -> Heads \cup {Nowhere}] /\ RecOff(n) \in Spots
    BY <1>3, <1>4, SpotFacts DEF Marked
  <2>2. \A m \in Nat : RecOff(m) \in Spots /\ (m # n => RecOff(m) # RecOff(n))
    BY SpotFacts, PlacesDiffer
  <2> QED
    BY <1>2, <2>1, <2>2 DEF Dropped
<1>8. \A j, m : m # n => /\ RecordOf(f, o, j, m) <=> RecordOf(g, u, j, m)
                         /\ RecordOf(f, o, j, m) => DatOf(g, m) = DatOf(f, m)
  <2>1. Repointed(f, o, q, y, p, g, u, n)
    BY <1>3, <1>5, <1>7 DEF Repointed
  <2> QED
    BY <2>1, RecordsKept
<1>9. o[RecOff(n)] = FREE_OFF
  BY <1>1 DEF Clean, Follows
<1>10. \A j : ~RecordOf(f, o, j, n) /\ ~RecordOf(g, u, j, n)
  BY <1>7, <1>9, PlacesDiffer DEF RecordOf, Nowhere
<1>11. \A j \in Key : SameFor(f, o, g, u, j)
  BY <1>8, <1>10 DEF SameFor
<1>12. PICK i : i = [h EXCEPT ![k] = db_readdat(g, k)]
  OBVIOUS
<1>13. i = contents(g)
  BY <1>1, <1>6, <1>11, <1>12, OnlyKey
<1>14. h[k] # v
  BY <1>1, NothingYet
<1>15. /\ Len(g.idx) = Len(f.idx) /\ g.dat = f.dat
       /\ \A z \in Locs(f) : z # y => db_readptr(g, z) = db_readptr(f, z)
       /\ \A m \in 1..Len(f.idx) : SameFields(f, g, m)
  BY <1>5 DEF PtrSet
<1>16. g.head[hash[k]] = f.head[hash[k]] /\ f.head[hash[k]] \in Nat
  <2>1. HashOff(hash[k]) \in Locs(f) /\ HashOff(hash[k]) \in Heads /\ hash[k] \in Bucket
    BY SpotFacts DEF Locs
  <2>2. o[HashOff(hash[k])] = HashOff(hash[k])
    BY <1>3, <2>1 DEF Marked
  <2>3. HashOff(hash[k]) # y
    BY <1>1, <2>2, PlacesDiffer
  <2>4. f.head[hash[k]] \in Nat
    BY <1>3, <2>1, FileFields DEF Sound
  <2> QED
    BY <1>15, <2>1, <2>3, <2>4, ReadPtr
<1>17. /\ r \in IndexRecord /\ r.key = k /\ r.ptr = g.head[hash[k]] /\ r.datlen = datlen[v]
       /\ r.datoff = f.idx[n].datoff
  <2>1. f.idx[n] \in IndexRecord
    BY <1>3, FileFields DEF Sound
  <2>2. PICK s : s = f.idx[n]
    OBVIOUS
  <2>3. PICK t : t = f.head[hash[k]]
    OBVIOUS
  <2>4. r = Rekeyed(s, k, t) /\ s \in IndexRecord /\ t \in Nat
    BY <1>2, <1>16, <2>1, <2>2, <2>3
  <2>5. /\ r \in IndexRecord /\ r.key = k /\ r.ptr = t
        /\ r.datoff = s.datoff /\ r.datlen = s.datlen
    BY <2>4, RecordChanged
  <2> QED
    BY <1>1, <1>16, <2>2, <2>3, <2>5
<1>18. \A m \in 1..Len(g.idx) : m # n => g.idx[m].datoff # r.datoff
  BY <1>3, <1>15, <1>17 DEF OwnData, SameFields
<1>19. New(g, u, q, n, r, k, v)
  <2>1. n \in 1..(Len(g.idx) + 1)
    BY <1>3, <1>15
  <2>2. \A m : ~RecordOf(g, u, k, m)
    BY <1>1, <1>8, <1>10
  <2> QED
    BY <1>1, <1>6, <1>7, <1>17, <1>18, <2>1, <2>2 DEF New
<1>20. r.datoff \in 1..(Len(g.dat) + 1)
  <2>1. f.idx[n].datoff \in 1..Len(f.dat) /\ Len(f.dat) \in Nat
    BY <1>3, FileFields DEF Sound
  <2> QED
    BY <1>15, <1>17, <2>1
<1>21. /\ Head(ws) = db_writeptr(y, p)
       /\ Tail(ws) = <<db_writedat(r.datoff, v), db_writeidx(n, r), db_writeptr(HashOff(hash[k]), n)>>
  BY <1>1, <1>2, <1>17
<1>22. Stores(g, Tail(ws), k, v, i)
  BY <1>13, <1>19, <1>20, <1>21 DEF Stores
<1> QED
  BY <1>2, <1>12, <1>14, <1>21, <1>22 DEF StoreAdvances, Storing

-----------------------------------------------------------------------------
(* Deleting.                                                                *)

IsSeq(t) == \E T : t \in Seq(T)

(* The writes after the first.                                              *)
LEMMA ConsIs ==
  ASSUME NEW w, NEW t, IsSeq(t)
  PROVE  IsSeq(Cons(w, t)) /\ Head(Cons(w, t)) = w /\ Tail(Cons(w, t)) = t /\ Cons(w, t) # <<>>
<1>1. PICK T : t \in Seq(T)
  BY DEF IsSeq
<1>2. PICK S : S = T \cup {w}
  OBVIOUS
<1>3. t \in Seq(S) /\ w \in S
  <2>1. T \subseteq S
    BY <1>2
  <2> QED
    BY <1>1, <1>2, <2>1
<1>4. PICK c : c = Cons(w, t)
  OBVIOUS
<1>5. c \in Seq(S) /\ Len(c) = Len(t) + 1 /\ c[1] = w /\ \A i \in 1..Len(t) : c[i + 1] = t[i]
  BY <1>3, <1>4 DEF Cons
<1>6. c # <<>> /\ Head(c) = w
  BY <1>3, <1>5
<1>7. /\ Tail(c) \in Seq(S) /\ Len(Tail(c)) = Len(t)
      /\ \A i \in 1..Len(t) : Tail(c)[i] = t[i]
  BY <1>3, <1>5, <1>6
<1>8. Tail(c) = t
  BY <1>3, <1>7, SeqEqual
<1> QED
  BY <1>4, <1>5, <1>6, <1>8 DEF IsSeq

(* What follows a deletion is a sequence of writes.                         *)
LEMMA FollowIsSeq ==
  ASSUME NEW t, NEW g, NEW k, NEW v, Follow(t, g, k, v)
  PROVE  IsSeq(t)
<1>1. CASE t = <<>>
  <2>1. t \in Seq({})
    BY <1>1
  <2> QED
    BY <2>1 DEF IsSeq
<1>2. CASE t = appended(g, k, v)
  <2>1. PICK a, b, c : t = <<a, b, c>>
    BY <1>2 DEF appended
  <2>2. t \in Seq({a, b, c})
    BY <2>1
  <2> QED
    BY <2>2 DEF IsSeq
<1> QED
  BY <1>1, <1>2 DEF Follow

(* What is known of a record to be deleted.                                 *)
LEMMA DoomedIs ==
  ASSUME NEW P, NEW f, NEW o, NEW q, NEW n, NEW y, NEW k \in Key, Doomed(P, f, o, q, n, y, k)
  PROVE  /\ Clean(f, o, q) /\ RecordOf(f, o, k, n) /\ y \in On(o) /\ db_readptr(f, y) = n
         /\ f.idx[n].ptr \in P
         /\ Sound(f) /\ Marked(f, o, q) /\ OwnData(f) /\ y \in Locs(f)
         /\ n \in 1..Len(f.idx) /\ n \in Nat /\ n # 0 /\ Len(f.idx) \in Nat
         /\ o[RecOff(n)] = HashOff(hash[k]) /\ o[y] = HashOff(hash[k])
         /\ y # FREE_OFF /\ y # RecOff(n)
         /\ f.idx[n].ptr \in 0..Len(f.idx) /\ f.idx[n].ptr = db_readptr(f, RecOff(n))
<1>1. /\ Clean(f, o, q) /\ RecordOf(f, o, k, n) /\ y \in On(o) /\ db_readptr(f, y) = n
      /\ f.idx[n].ptr \in P
  BY DEF Doomed
<1>2. Sound(f) /\ Marked(f, o, q) /\ OwnData(f) /\ y \in Locs(f) /\ Follows(f, o, q)
  BY <1>1, OnLocs DEF Clean
<1>3. n \in 1..Len(f.idx) /\ Len(f.idx) \in Nat
  BY <1>1, <1>2, ReadRecord, FileFields DEF Sound
<1>4. n \in Nat /\ n # 0
  BY <1>3
<1>5. o[RecOff(n)] = HashOff(hash[k]) /\ o[y] = HashOff(hash[k]) /\ q[RecOff(n)] < q[y]
  BY <1>1, <1>2, <1>4 DEF RecordOf, Follows
<1>6. y # RecOff(n)
  <2>1. q[y] \in Nat
    BY <1>1, <1>2 DEF Marked, On
  <2> QED
    BY <1>5, <2>1
<1>7. y # FREE_OFF
  BY <1>2, <1>5, SpotFacts, PlacesDiffer DEF Marked
<1>8. f.idx[n].ptr \in 0..Len(f.idx) /\ f.idx[n].ptr = db_readptr(f, RecOff(n))
  BY <1>2, <1>3, ReadPtr DEF Sound
<1> QED
  BY <1>1, <1>2, <1>3, <1>4, <1>5, <1>6, <1>7, <1>8

(* The data are blanked.                                                    *)
LEMMA BlanksAdvances ==
  ASSUME NEW P, NEW f, NEW ws, NEW k \in Key, NEW v, NEW h, Blanks(P, f, ws, k, v, h)
  PROVE  Advances(P, f, ws, k, v, h)
<1>1. PICK o, q, n, y, t, g :
        /\ Doomed(P, f, o, q, n, y, k) /\ g = written(f, db_writedat(f.idx[n].datoff, Blank))
        /\ Follow(t, Fourth(g, n, y), k, v) /\ (v \in Data => datlen[v] # f.idx[n].datlen)
        /\ ws = Cons(db_writedat(f.idx[n].datoff, Blank),
                     Cons(db_writeidx(n, Freed(f, n)),
                          Cons(db_writeptr(FREE_OFF, n),
                               Cons(db_writeptr(y, f.idx[n].ptr), t))))
        /\ h = contents(f)
  BY DEF Blanks
<1>2. /\ Clean(f, o, q) /\ RecordOf(f, o, k, n) /\ y \in On(o) /\ db_readptr(f, y) = n
      /\ f.idx[n].ptr \in P /\ Sound(f) /\ OwnData(f) /\ n \in 1..Len(f.idx) /\ n \in Nat
      /\ o[RecOff(n)] = HashOff(hash[k])
  BY <1>1, DoomedIs
<1>3. PICK a : a = f.idx[n].datoff
  OBVIOUS
<1>4. a \in 1..Len(f.dat) /\ a \in 1..(Len(f.dat) + 1)
  <2>1. a \in 1..Len(f.dat) /\ Len(f.dat) \in Nat
    BY <1>2, <1>3, FileFields DEF Sound
  <2> QED
    BY <2>1
<1>5. DatSet(f, a, Blank, g)
  BY <1>1, <1>2, <1>3, <1>4, DatWritten
<1>6. /\ g.idx = f.idx /\ g.free = f.free /\ g.head = f.head /\ g.dat[a] = Blank
      /\ \A m \in 1..Len(f.dat) : m # a => g.dat[m] = f.dat[m]
  BY <1>5 DEF DatSet
<1>7. Clean(g, o, q)
  <2>1. Blank \notin Data
    BY SimpleDBAssumption
  <2> QED
    BY <1>2, <1>5, <2>1, CleanDat
<1>8. \A j, m : RecordOf(g, o, j, m) <=> RecordOf(f, o, j, m)
  BY <1>6 DEF RecordOf
<1>9. ASSUME NEW j \in Key, j # k PROVE SameFor(f, o, g, o, j)
  <2>1. ASSUME NEW m, RecordOf(f, o, j, m) PROVE DatOf(g, m) = DatOf(f, m)
    <3>1. m \in 1..Len(f.idx) /\ m # n
      BY <1>2, <1>9, <2>1, ReadRecord DEF RecordOf
    <3>2. f.idx[m].datoff # a /\ f.idx[m].datoff \in 1..Len(f.dat)
      BY <1>2, <1>3, <3>1 DEF OwnData, Sound
    <3> QED
      BY <1>6, <3>2 DEF DatOf
  <2> QED
    BY <1>8, <2>1 DEF SameFor
<1>10. PICK i : i = [h EXCEPT ![k] = db_readdat(g, k)]
  OBVIOUS
<1>11. i = contents(g)
  <2>1. h = contents(f) /\ Clean(f, o, q)
    BY <1>1, <1>2
  <2> QED
    BY <1>7, <1>9, <1>10, <2>1, OnlyKey
<1>12. h[k] # v
  <2>1. h[k] = DatOf(f, n) /\ DatOf(f, n) \in Data \cup {Blank}
    BY <1>1, <1>2, ReadRecord DEF contents
  <2>2. v = Nil \/ v \in Data
    BY <1>1 DEF Follow
  <2>3. DatOf(f, n) \in Data => datlen[DatOf(f, n)] = f.idx[n].datlen
    BY <1>2, SpotFacts DEF Clean, Keyed
  <2> QED
    BY <1>1, <2>1, <2>2, <2>3, SimpleDBAssumption
<1>13. PICK w, c : /\ w = db_writedat(f.idx[n].datoff, Blank)
                   /\ c = Cons(db_writeidx(n, Freed(f, n)),
                               Cons(db_writeptr(FREE_OFF, n),
                                    Cons(db_writeptr(y, f.idx[n].ptr), t)))
  OBVIOUS
<1>14. Head(ws) = w /\ Tail(ws) = c
  <2>1. IsSeq(t)
    BY <1>1, FollowIsSeq
  <2>2. IsSeq(c)
    BY <1>13, <2>1, ConsIs
  <2> QED
    BY <1>1, <1>13, <2>2, ConsIs
<1>15. Doomed(P, g, o, q, n, y, k)
  <2>1. db_readptr(g, y) = db_readptr(f, y)
    BY <1>6 DEF db_readptr
  <2> QED
    BY <1>2, <1>6, <1>7, <1>8, <2>1 DEF Doomed
<1>16. DatOf(g, n) = Blank /\ Freed(g, n) = Freed(f, n) /\ g.idx[n].ptr = f.idx[n].ptr
  BY <1>3, <1>6 DEF DatOf, Freed
<1>17. Frees(P, g, c, k, v, i)
  BY <1>1, <1>11, <1>13, <1>15, <1>16 DEF Frees
<1> QED
  BY <1>1, <1>10, <1>12, <1>13, <1>14, <1>17 DEF Advances, Working

(* A record that is on its chain still, but leads to the free list.         *)
Half(f, n, g) ==
    /\ Sound(g) /\ Len(g.idx) = Len(f.idx)
    /\ \A z \in Locs(f) : z # FREE_OFF /\ z # RecOff(n) => db_readptr(g, z) = db_readptr(f, z)
    /\ db_readptr(g, RecOff(n)) = f.free
    /\ g.idx[n].key = Blank /\ \A m \in 1..Len(f.idx) : m # n => g.idx[m].key = f.idx[m].key

(* There is a deleted record on some chain.                                 *)
Lingers(g) ==
    \E m \in 1..Len(g.idx) :
        /\ g.idx[m].key = Blank
        /\ \E b \in Bucket : RecOff(m) \in ToSet(chain(g, HashOff(b)))

(* Then the key is not found any more, but its record is.                   *)
LEMMA HalfReads ==
  ASSUME NEW P, NEW f, NEW o, NEW q, NEW n, NEW y, NEW k \in Key, Doomed(P, f, o, q, n, y, k),
         NEW g, Half(f, n, g)
  PROVE  db_readdat(g, k) = Nil /\ Lingers(g)
<1>1. /\ Clean(f, o, q) /\ RecordOf(f, o, k, n) /\ Sound(f) /\ Marked(f, o, q)
      /\ n \in 1..Len(f.idx) /\ n \in Nat /\ n # 0 /\ Len(f.idx) \in Nat
      /\ o[RecOff(n)] = HashOff(hash[k])
  BY DoomedIs
<1>2. /\ Sound(g) /\ Len(g.idx) = Len(f.idx)
      /\ \A z \in Locs(f) : z # FREE_OFF /\ z # RecOff(n) => db_readptr(g, z) = db_readptr(f, z)
      /\ db_readptr(g, RecOff(n)) = f.free
      /\ g.idx[n].key = Blank /\ \A m \in 1..Len(f.idx) : m # n => g.idx[m].key = f.idx[m].key
  BY DEF Half
<1>3. /\ Follows(f, o, q) /\ Led(f, o) /\ Keyed(f, o) /\ Ranged(f)
      /\ o \in [Spots -> Heads \cup {Nowhere}] /\ q \in [Spots -> Nat]
      /\ (\A z \in Heads : o[z] = z) /\ \A z \in On(o) : q[z] <= q[o[z]]
  BY <1>1, SoundRanged DEF Clean, Marked
<1>4. PICK x \in Heads : x = HashOff(hash[k])
  BY SpotFacts
<1>5. x # FREE_OFF /\ x # Nowhere /\ FREE_OFF # Nowhere /\ hash[k] \in Bucket
      /\ FREE_OFF \in Heads /\ x \in Spots /\ FREE_OFF \in Spots /\ RecOff(n) \in Spots
  BY <1>1, <1>4, PlacesDiffer, SpotFacts DEF Nowhere
<1>6. q[FREE_OFF] \in Nat /\ \A z \in On(o) : q[z] \in Nat /\ z \in Spots
  BY <1>3, <1>5 DEF On
<1> DEFINE C == {z \in On(o) : o[z] = x \/ (o[z] = FREE_OFF /\ z # FREE_OFF)}
           s == [z \in C |-> IF o[z] = x THEN q[z] + q[FREE_OFF] + 1 ELSE q[z]]
<1>7. C \subseteq Locs(f) /\ Locs(g) = Locs(f)
  BY <1>1, <1>2, OnLocs DEF Locs
<1>8. x \in C /\ s[x] = q[x] + q[FREE_OFF] + 1 /\ q[x] \in Nat
  BY <1>3, <1>4, <1>5 DEF On
<1>9. ASSUME NEW z \in C PROVE s[z] \in Nat /\ s[z] <= s[x]
  <2>1. CASE o[z] = x
    <3>1. s[z] = q[z] + q[FREE_OFF] + 1 /\ q[z] \in Nat /\ q[z] <= q[x]
      BY <1>3, <1>6, <2>1
    <3> HIDE DEF s
    <3> QED
      BY <1>6, <1>8, <3>1
  <2>2. CASE o[z] # x
    <3>1. s[z] = q[z] /\ q[z] \in Nat /\ q[z] <= q[FREE_OFF]
      BY <1>3, <1>6, <2>2
    <3> HIDE DEF s
    <3> QED
      BY <1>6, <1>8, <3>1
  <2> QED
    BY <2>1, <2>2
<1>10. ASSUME NEW m \in Nat, o[RecOff(m)] = x \/ o[RecOff(m)] = FREE_OFF
       PROVE  RecOff(m) \in C
  <2>1. RecOff(m) \in Spots /\ RecOff(m) # FREE_OFF
    BY SpotFacts, PlacesDiffer
  <2> QED
    BY <1>5, <1>10, <2>1 DEF On
<1>11. ASSUME NEW z \in C, db_readptr(g, z) # 0
       PROVE  RecOff(db_readptr(g, z)) \in C /\ s[RecOff(db_readptr(g, z))] < s[z]
  <2>0. z \in On(o) /\ z \in Locs(f) /\ z # FREE_OFF /\ q[z] \in Nat
    BY <1>3, <1>5, <1>6, <1>7
  <2>1. CASE z = RecOff(n)
    <3>1. PICK m : m = f.free
      OBVIOUS
    <3>2. db_readptr(g, z) = m /\ m = db_readptr(f, FREE_OFF) /\ m # 0
      BY <1>2, <1>11, <2>1, <3>1, ReadPtr
    <3>3. FREE_OFF \in On(o) /\ o[FREE_OFF] = FREE_OFF /\ FREE_OFF \in Locs(f)
      BY <1>3, <1>5 DEF On, Locs
    <3>4. m \in Nat /\ o[RecOff(m)] = FREE_OFF /\ q[RecOff(m)] < q[FREE_OFF]
      BY <1>3, <3>2, <3>3 DEF Follows, Ranged
    <3>5. RecOff(m) \in C /\ q[RecOff(m)] \in Nat
      BY <1>6, <1>10, <3>4
    <3>6. s[RecOff(m)] = q[RecOff(m)] /\ s[z] = q[z] + q[FREE_OFF] + 1
      BY <1>1, <1>4, <1>5, <2>1, <3>4, <3>5
    <3> HIDE DEF s, C
    <3> QED
      BY <1>6, <2>0, <3>2, <3>4, <3>5, <3>6
  <2>2. CASE z # RecOff(n)
    <3>1. PICK m : m = db_readptr(f, z)
      OBVIOUS
    <3>2. db_readptr(g, z) = m /\ m # 0
      BY <1>2, <1>11, <2>0, <2>2, <3>1
    <3>3. m \in Nat /\ o[RecOff(m)] = o[z] /\ q[RecOff(m)] < q[z]
      BY <1>3, <2>0, <3>1, <3>2 DEF Follows, Ranged
    <3>4. RecOff(m) \in C /\ q[RecOff(m)] \in Nat
      BY <1>6, <1>10, <3>3
    <3>5. \/ s[RecOff(m)] = q[RecOff(m)] /\ s[z] = q[z]
          \/ s[RecOff(m)] = q[RecOff(m)] + q[FREE_OFF] + 1 /\ s[z] = q[z] + q[FREE_OFF] + 1
      BY <3>3, <3>4
    <3> HIDE DEF s, C
    <3> QED
      BY <1>6, <2>0, <3>2, <3>3, <3>4, <3>5
  <2> QED
    BY <2>1, <2>2
<1>12. PICK D, r, c : D = C /\ r = s /\ c = chain(g, x)
  OBVIOUS
<1>13. Falls(g, x, D, r, c)
  <2> HIDE DEF C, s
  <2> QED
    BY <1>2, <1>7, <1>8, <1>9, <1>11, <1>12 DEF Falls
<1>14. db_readdat(g, k) = Nil
  <2>1. PICK W, a : W = {i \in 1..Len(g.idx) : g.idx[i].key = k} /\ a = search(g, x, W)
    OBVIOUS
  <2>2. a = db_find(g, k)
    BY <1>4, <2>1 DEF db_find, withKey
  <2>3. SUFFICES ASSUME a # Nil PROVE FALSE
    BY <2>2 DEF db_readdat
  <2>4. Ranged(g) /\ x \in Locs(g)
    BY <1>2, <1>7, <1>8, SoundRanged
  <2>5. a.offset \in W /\ \E i \in 2..Len(c) : c[i] = RecOff(a.offset)
    <3>1. c = chain(g, x) /\ a = search(g, x, W)
      BY <1>12, <2>1
    <3> HIDE DEF C, s
    <3> QED
      BY <2>3, <2>4, <3>1, SearchFinds
  <2>6. Len(c) \in Nat /\ \A i \in 1..Len(c) : c[i] \in D
    BY <1>13, FallsEnds
  <2>7. PICK m : m = a.offset
    OBVIOUS
  <2>8. RecOff(m) \in C /\ m \in 1..Len(f.idx) /\ g.idx[m].key = k /\ m \in Nat
    <3>1. PICK i \in 2..Len(c) : c[i] = RecOff(m)
      BY <2>5, <2>7
    <3>2. i \in 1..Len(c)
      BY <2>6
    <3>3. RecOff(m) \in C
      <4> HIDE DEF C, s
      <4> QED
        BY <1>12, <2>6, <3>1, <3>2
    <3>4. m \in 1..Len(g.idx) /\ g.idx[m].key = k
      <4> HIDE DEF C, s
      <4> QED
        BY <2>1, <2>5, <2>7
    <3> HIDE DEF C, s
    <3> QED
      BY <1>1, <1>2, <3>3, <3>4
  <2>9. m # n /\ k # Blank
    BY <1>2, <2>8, SimpleDBAssumption
  <2>10. f.idx[m].key = k
    BY <1>2, <2>8, <2>9
  <2>11. CASE o[RecOff(m)] = x
    <3>1. RecordOf(f, o, k, m)
      BY <1>4, <2>8, <2>10, <2>11 DEF RecordOf
    <3> QED
      BY <1>1, <1>3, <2>8, <2>9, <3>1 DEF Keyed
  <2>12. CASE o[RecOff(m)] = FREE_OFF
    BY <1>3, <2>8, <2>9, <2>10, <2>12 DEF Keyed
  <2> QED
    BY <2>8, <2>11, <2>12
<1>15. Lingers(g)
  <2> DEFINE U == {z \in On(o) : o[z] = x /\ q[RecOff(n)] <= q[z]}
  <2>1. U \subseteq C
    OBVIOUS
  <2>2. ASSUME NEW z \in U
        PROVE  \/ z = x
               \/ \E w \in U : db_readptr(g, w) # 0 /\ z = RecOff(db_readptr(g, w))
    <3>1. z \in On(o) /\ o[z] = x /\ q[RecOff(n)] <= q[z] /\ z \in Spots
      BY <1>6
    <3>2. CASE z \in Heads
      BY <1>3, <3>1, <3>2
    <3>3. ASSUME NEW m \in Nat, z = RecOff(m)
          PROVE  \E w \in U : db_readptr(g, w) # 0 /\ z = RecOff(db_readptr(g, w))
      <4>1. PICK w \in On(o) : db_readptr(f, w) = m
        BY <1>3, <1>5, <3>1, <3>3 DEF Led
      <4>2. m # 0
        BY <1>1, <1>5, <3>1, <3>3 DEF Marked
      <4>3. o[w] = x /\ q[z] < q[w]
        BY <1>3, <3>1, <3>3, <4>1, <4>2 DEF Follows
      <4>4. q[z] \in Nat /\ q[w] \in Nat /\ q[RecOff(n)] \in Nat
        BY <1>3, <1>5, <1>6, <3>1, <4>1
      <4>5. q[RecOff(n)] <= q[w] /\ w # RecOff(n)
        BY <3>1, <4>3, <4>4
      <4>6. w \in Locs(f) /\ w # FREE_OFF
        BY <1>1, <1>3, <1>5, <4>1, <4>3, OnLocs
      <4>7. db_readptr(g, w) = m
        BY <1>2, <4>1, <4>5, <4>6
      <4>8. w \in U
        BY <4>1, <4>3, <4>5
      <4> HIDE DEF U
      <4> QED
        BY <3>3, <4>2, <4>7, <4>8
    <3> HIDE DEF U
    <3> QED
      BY <3>1, <3>2, <3>3, SpotFacts
  <2>3. RecOff(n) \in U
    <3>1. RecOff(n) \in On(o) /\ o[RecOff(n)] = x /\ q[RecOff(n)] \in Nat
      BY <1>1, <1>3, <1>4, <1>5 DEF On
    <3> QED
      BY <3>1
  <2>4. PICK i \in 1..Len(c) : c[i] = RecOff(n)
    <3>1. PICK V : V = U
      OBVIOUS
    <3> HIDE DEF U, C
    <3>2. V \subseteq D /\ RecOff(n) \in V
      BY <1>12, <2>1, <2>3, <3>1
    <3>3. \A z \in V : z = x \/ \E w \in V : db_readptr(g, w) # 0 /\ z = RecOff(db_readptr(g, w))
      BY <2>2, <3>1
    <3>4. \A z \in V : \E i \in 1..Len(c) : c[i] = z
      BY <1>13, <3>2, <3>3, FallsReaches
    <3> QED
      BY <3>2, <3>4
  <2>5. RecOff(n) \in ToSet(c)
    BY <2>4 DEF ToSet
  <2> QED
    BY <1>1, <1>2, <1>4, <1>5, <1>12, <2>5 DEF Lingers
<1> QED
  BY <1>14, <1>15

(* The three writes of a deletion that are about pointers: in the middle    *)
(* the record lingers on its chain.                                         *)
LEMMA FreedIs ==
  ASSUME NEW f, Sound(f), NEW n \in 1..Len(f.idx), NEW r, r = Freed(f, n)
  PROVE  /\ r \in IndexRecord /\ r.key = Blank /\ r.ptr = f.free
         /\ r.keylen = f.idx[n].keylen /\ r.datoff = f.idx[n].datoff /\ r.datlen = f.idx[n].datlen
         /\ r.ptr \in 0..Len(f.idx) /\ r.datoff \in 1..Len(f.dat)
<1>1. f.idx[n] \in IndexRecord /\ f.free \in Nat
  BY FileFields DEF Sound
<1>2. PICK s, p : s = f.idx[n] /\ p = f.free
  OBVIOUS
<1>3. r = Rekeyed(s, Blank, p)
  BY <1>2 DEF Freed
<1>4. /\ r \in IndexRecord /\ r.key = Blank /\ r.ptr = p
      /\ r.keylen = s.keylen /\ r.datoff = s.datoff /\ r.datlen = s.datlen
  BY <1>1, <1>2, <1>3, RecordChanged
<1>5. f.free \in 0..Len(f.idx) /\ f.idx[n].datoff \in 1..Len(f.dat)
  BY DEF Sound
<1> QED
  BY <1>2, <1>4, <1>5

Middle(f, n, y, f2, f3, f4) ==
    /\ f2 = Second(f, n) /\ f3 = Third(f, n) /\ f4 = Fourth(f, n, y)
    /\ IdxSet(f, n, Freed(f, n), f2) /\ PtrSet(f2, FREE_OFF, n, f3)
    /\ PtrSet(f3, y, f.idx[n].ptr, f4)
    /\ Len(f2.idx) = Len(f.idx) /\ Locs(f2) = Locs(f) /\ Locs(f3) = Locs(f)

(* The three writes do what Middle says.                                    *)
LEMMA MiddleIs ==
  ASSUME NEW P, NEW f, NEW o, NEW q, NEW n, NEW y, NEW k \in Key, Doomed(P, f, o, q, n, y, k)
  PROVE  \E f2, f3, f4 : Middle(f, n, y, f2, f3, f4)
<1>1. /\ Sound(f) /\ y \in Locs(f) /\ n \in 1..Len(f.idx) /\ n \in Nat /\ Len(f.idx) \in Nat
      /\ f.idx[n].ptr \in 0..Len(f.idx)
  BY DoomedIs
<1>2. PICK r, f2, f3, f4 : /\ r = Freed(f, n) /\ f2 = Second(f, n) /\ f3 = Third(f, n)
                           /\ f4 = Fourth(f, n, y)
  OBVIOUS
<1>3. /\ r \in IndexRecord /\ r.ptr \in 0..Len(f.idx) /\ r.datoff \in 1..Len(f.dat)
  BY <1>1, <1>2, FreedIs
<1>4. IdxSet(f, n, r, f2)
  <2>1. n \in 1..(Len(f.idx) + 1) /\ f2 = written(f, db_writeidx(n, r))
    BY <1>1, <1>2 DEF Second
  <2> QED
    BY <1>1, <1>3, <2>1, IdxWritten
<1>5. Sound(f2) /\ Len(f2.idx) = Len(f.idx) /\ Locs(f2) = Locs(f)
  BY <1>1, <1>4 DEF IdxSet, Locs
<1>6. PtrSet(f2, FREE_OFF, n, f3)
  <2>1. n \in 0..Len(f2.idx) /\ FREE_OFF \in Locs(f2) /\ f3 = written(f2, db_writeptr(FREE_OFF, n))
    BY <1>1, <1>2, <1>5 DEF Third, Locs
  <2> QED
    BY <1>5, <2>1, PtrWritten
<1>7. Sound(f3) /\ Len(f3.idx) = Len(f.idx) /\ Locs(f3) = Locs(f)
  BY <1>5, <1>6 DEF PtrSet, Locs
<1>8. PICK p : p = f.idx[n].ptr
  OBVIOUS
<1>9. PtrSet(f3, y, p, f4)
  <2>1. p \in 0..Len(f3.idx) /\ y \in Locs(f3) /\ f4 = written(f3, db_writeptr(y, p))
    BY <1>1, <1>2, <1>7, <1>8 DEF Fourth
  <2> QED
    BY <1>7, <2>1, PtrWritten
<1>10. Middle(f, n, y, f2, f3, f4)
  BY <1>2, <1>4, <1>5, <1>6, <1>7, <1>8, <1>9 DEF Middle
<1> QED
  BY <1>10

(* After the first and after the second the record is half unlinked.        *)
LEMMA MiddleHalf ==
  ASSUME NEW P, NEW f, NEW o, NEW q, NEW n, NEW y, NEW k \in Key, Doomed(P, f, o, q, n, y, k),
         NEW f2, NEW f3, NEW f4, Middle(f, n, y, f2, f3, f4)
  PROVE  Half(f, n, f2) /\ Half(f, n, f3)
<1>1. Sound(f) /\ n \in 1..Len(f.idx) /\ RecOff(n) \in Locs(f) /\ RecOff(n) # FREE_OFF
  BY DoomedIs, PlacesDiffer DEF Locs
<1>2. PICK r : r = Freed(f, n)
  OBVIOUS
<1>3. r.key = Blank /\ r.ptr = f.free
  BY <1>1, <1>2, FreedIs
<1>4. /\ Sound(f2) /\ Len(f2.idx) = Len(f.idx)
      /\ f2.idx[n] = r /\ \A m \in 1..Len(f.idx) : m # n => f2.idx[m] = f.idx[m]
      /\ \A z \in Locs(f) : z # RecOff(n) => db_readptr(f2, z) = db_readptr(f, z)
  BY <1>2 DEF Middle, IdxSet
<1>5. /\ Sound(f3) /\ Len(f3.idx) = Len(f2.idx)
      /\ \A z \in Locs(f) : z # FREE_OFF => db_readptr(f3, z) = db_readptr(f2, z)
      /\ \A m \in 1..Len(f2.idx) : SameFields(f2, f3, m)
  BY DEF Middle, PtrSet
<1>6. db_readptr(f2, RecOff(n)) = f.free
  BY <1>3, <1>4, ReadPtr
<1>7. Half(f, n, f2)
  BY <1>3, <1>4, <1>6 DEF Half
<1>8. \A m \in 1..Len(f.idx) : f3.idx[m].key = f2.idx[m].key
  BY <1>4, <1>5 DEF SameFields
<1>9. Half(f, n, f3)
  BY <1>1, <1>3, <1>4, <1>5, <1>6, <1>8 DEF Half
<1> QED
  BY <1>7, <1>9

(* In the end the record is off its chain and on the free list.             *)
LEMMA FourthClean ==
  ASSUME NEW P, NEW f, NEW o, NEW q, NEW n, NEW y, NEW k \in Key, Doomed(P, f, o, q, n, y, k),
         NEW g, g = Fourth(f, n, y)
  PROVE  \E u, s : /\ Clean(g, u, s) /\ \A m : ~RecordOf(g, u, k, m)
                   /\ \A j \in Key : j # k => SameFor(f, o, g, u, j)
<1>1. /\ Clean(f, o, q) /\ RecordOf(f, o, k, n) /\ y \in On(o) /\ db_readptr(f, y) = n
      /\ Sound(f) /\ Marked(f, o, q) /\ OwnData(f) /\ y \in Locs(f)
      /\ n \in 1..Len(f.idx) /\ n \in Nat /\ n # 0 /\ Len(f.idx) \in Nat
      /\ y # FREE_OFF /\ y # RecOff(n) /\ Keyed(f, o)
      /\ f.idx[n].ptr \in 0..Len(f.idx) /\ f.idx[n].ptr = db_readptr(f, RecOff(n))
  BY DoomedIs DEF Clean
<1>2. PICK f2, f3, f4 : Middle(f, n, y, f2, f3, f4)
  BY MiddleIs
<1>3. PICK r, p : r = Freed(f, n) /\ p = f.idx[n].ptr
  OBVIOUS
<1>4. /\ r \in IndexRecord /\ r.key = Blank /\ r.ptr = f.free
      /\ r.keylen = f.idx[n].keylen /\ r.datoff = f.idx[n].datoff /\ r.datlen = f.idx[n].datlen
      /\ r.ptr \in 0..Len(f.idx) /\ r.datoff \in 1..Len(f.dat)
  BY <1>1, <1>3, FreedIs
(* The same by another way: off the chain, rewritten, on the free list.     *)
<1>5. PICK g1, g2, g3 : /\ g1 = written(f, db_writeptr(y, p)) /\ g2 = written(g1, db_writeidx(n, r))
                        /\ g3 = written(g2, db_writeptr(FREE_OFF, n))
  OBVIOUS
<1>6. PICK o1, u, s : o1 = Dropped(o, n) /\ u = Pushed(o1, n, FREE_OFF) /\ s = Raised(q, n, FREE_OFF)
  OBVIOUS
<1>7. PtrSet(f, y, p, g1)
  BY <1>1, <1>3, <1>5, PtrWritten
<1>8. Clean(g1, o1, q)
  BY <1>1, <1>3, <1>6, <1>7, CleanUnlink
<1>9. /\ Sound(g1) /\ Len(g1.idx) = Len(f.idx) /\ g1.dat = f.dat /\ db_readptr(g1, y) = p
      /\ (\A z \in Locs(f) : z # y => db_readptr(g1, z) = db_readptr(f, z))
      /\ (\A m \in 1..Len(f.idx) : SameFields(f, g1, m)) /\ Locs(g1) = Locs(f)
  BY <1>7 DEF PtrSet, Locs
<1>10. IdxSet(g1, n, r, g2)
  <2>1. n \in 1..(Len(g1.idx) + 1) /\ r.ptr \in 0..Len(g1.idx) /\ r.datoff \in 1..Len(g1.dat)
    BY <1>1, <1>4, <1>9
  <2> QED
    BY <1>4, <1>5, <1>9, <2>1, IdxWritten
<1>11. /\ o1[RecOff(n)] = Nowhere /\ u[RecOff(n)] = FREE_OFF
       /\ \A m \in Nat : m # n => o1[RecOff(m)] = o[RecOff(m)] /\ u[RecOff(m)] = o[RecOff(m)]
  <2>1. o \in [Spots -> Heads \cup {Nowhere}] /\ RecOff(n) \in Spots
    BY <1>1, SpotFacts DEF Marked
  <2>2. \A m \in Nat : RecOff(m) \in Spots /\ (m # n => RecOff(m) # RecOff(n))
    BY SpotFacts, PlacesDiffer
  <2>3. /\ o1 \in [Spots -> Heads \cup {Nowhere}] /\ o1[RecOff(n)] = Nowhere
        /\ \A m \in Nat : m # n => o1[RecOff(m)] = o[RecOff(m)]
    BY <1>6, <2>1, <2>2 DEF Dropped
  <2> QED
    BY <1>6, <2>1, <2>2, <2>3 DEF Pushed
<1>12. Clean(g2, o1, q)
  <2>1. \A m \in 1..Len(g1.idx) : m # n => g1.idx[m].datoff # r.datoff
    BY <1>1, <1>4, <1>9 DEF OwnData, SameFields
  <2>2. n \in 1..(Len(g1.idx) + 1)
    BY <1>1, <1>9
  <2> QED
    BY <1>8, <1>10, <1>11, <2>1, <2>2, CleanIdx
<1>13. /\ Sound(g2) /\ g2.dat = g1.dat /\ Len(g2.idx) = Len(f.idx)
       /\ g2.idx[n] = r /\ (\A m \in 1..Len(g1.idx) : m # n => g2.idx[m] = g1.idx[m])
       /\ (\A z \in Locs(f) : z # RecOff(n) => db_readptr(g2, z) = db_readptr(g1, z))
       /\ Locs(g2) = Locs(f)
  BY <1>1, <1>9, <1>10 DEF IdxSet, Locs
<1>14. FREE_OFF \in Heads /\ FREE_OFF \in Locs(f) /\ RecOff(n) \in Locs(f) /\ RecOff(n) # FREE_OFF
  BY <1>1, SpotFacts, PlacesDiffer DEF Locs
<1>15. db_readptr(g2, RecOff(n)) = f.free /\ db_readptr(g2, FREE_OFF) = f.free
  BY <1>1, <1>4, <1>9, <1>13, <1>14, ReadPtr
<1>16. PtrSet(g2, FREE_OFF, n, g3)
  <2>1. n \in 0..Len(g2.idx)
    BY <1>1, <1>13
  <2> QED
    BY <1>5, <1>13, <1>14, <2>1, PtrWritten
<1>17. Clean(g3, u, s)
  <2>1. Suits(g2, o1, n, FREE_OFF)
    BY <1>4, <1>13, PlacesDiffer DEF Suits
  <2>2. n \in 1..Len(g2.idx)
    BY <1>1, <1>13
  <2> QED
    BY <1>6, <1>11, <1>12, <1>14, <1>15, <1>16, <2>1, <2>2, CleanPush
<1>18. /\ Sound(g3) /\ g3.dat = g2.dat /\ Len(g3.idx) = Len(f.idx) /\ db_readptr(g3, FREE_OFF) = n
       /\ (\A z \in Locs(f) : z # FREE_OFF => db_readptr(g3, z) = db_readptr(g2, z))
       /\ (\A m \in 1..Len(f.idx) : SameFields(g2, g3, m)) /\ Locs(g3) = Locs(f)
  BY <1>13, <1>16 DEF PtrSet, Locs
<1>19. /\ f4 = g /\ Sound(f4) /\ f4.dat = f.dat /\ Len(f4.idx) = Len(f.idx) /\ Locs(f4) = Locs(f)
       /\ db_readptr(f4, y) = p
       /\ \A z \in Locs(f) : z # y => db_readptr(f4, z) = db_readptr(f3, z)
       /\ \A m \in 1..Len(f.idx) : SameFields(f3, f4, m)
  BY <1>2, <1>3 DEF Middle, PtrSet, IdxSet, Locs
<1>20. /\ db_readptr(f3, FREE_OFF) = n
       /\ \A z \in Locs(f) : z # FREE_OFF => db_readptr(f3, z) = db_readptr(f2, z)
       /\ \A m \in 1..Len(f.idx) : SameFields(f2, f3, m)
  BY <1>2 DEF Middle, PtrSet
<1>21. /\ f2.idx[n] = r /\ (\A m \in 1..Len(f.idx) : m # n => f2.idx[m] = f.idx[m])
       /\ \A z \in Locs(f) : z # RecOff(n) => db_readptr(f2, z) = db_readptr(f, z)
  BY <1>2, <1>3 DEF Middle, IdxSet
<1>22. ASSUME NEW z \in Locs(f) PROVE db_readptr(g3, z) = db_readptr(f4, z)
  <2>1. CASE z = y
    <3>1. db_readptr(f4, z) = p
      BY <1>19, <2>1
    <3>2. db_readptr(g3, z) = p
      BY <1>1, <1>9, <1>13, <1>18, <2>1
    <3> QED
      BY <3>1, <3>2
  <2>2. CASE z = FREE_OFF
    BY <1>1, <1>14, <1>18, <1>19, <1>20, <2>2
  <2>3. CASE z = RecOff(n)
    <3>1. db_readptr(f2, RecOff(n)) = f.free
      BY <1>4, <1>21, ReadPtr
    <3> QED
      BY <1>1, <1>14, <1>15, <1>18, <1>19, <1>20, <2>3, <3>1
  <2>4. CASE z # y /\ z # FREE_OFF /\ z # RecOff(n)
    <3>1. db_readptr(f4, z) = db_readptr(f, z)
      BY <1>19, <1>20, <1>21, <2>4
    <3>2. db_readptr(g3, z) = db_readptr(f, z)
      BY <1>9, <1>13, <1>18, <2>4
    <3> QED
      BY <3>1, <3>2
  <2> QED
    BY <2>1, <2>2, <2>3, <2>4
<1>23. ASSUME NEW m \in 1..Len(f.idx)
       PROVE  SameFields(g3, f4, m) /\ (m # n => SameFields(f, g3, m))
  <2>1. SameFields(f3, f4, m) /\ SameFields(f2, f3, m) /\ SameFields(g2, g3, m) /\ SameFields(f, g1, m)
    BY <1>9, <1>18, <1>19, <1>20
  <2>2. CASE m = n
    <3>1. f2.idx[m] = g2.idx[m]
      BY <1>13, <1>21, <2>2
    <3> QED
      BY <2>1, <2>2, <3>1 DEF SameFields
  <2>3. CASE m # n
    <3>1. f2.idx[m] = f.idx[m] /\ g2.idx[m] = g1.idx[m]
      BY <1>9, <1>13, <1>21, <2>3
    <3> QED
      BY <2>1, <3>1 DEF SameFields
  <2> QED
    BY <2>2, <2>3
<1>24. g3 = f4
  <2>1. Len(g3.idx) = Len(f4.idx) /\ g3.dat = f4.dat
    BY <1>9, <1>13, <1>18, <1>19
  <2>2. \A z \in Locs(g3) : db_readptr(f4, z) = db_readptr(g3, z)
    BY <1>18, <1>22
  <2>3. \A m \in 1..Len(g3.idx) : SameFields(g3, f4, m)
    BY <1>18, <1>23
  <2> QED
    BY <1>18, <1>19, <2>1, <2>2, <2>3, SameFile
<1>25. g3.dat = f.dat
  BY <1>9, <1>13, <1>18
<1>26. \A j, m : m # n => /\ RecordOf(f, o, j, m) <=> RecordOf(g3, u, j, m)
                          /\ RecordOf(f, o, j, m) => DatOf(g3, m) = DatOf(f, m)
  <2>1. \A m \in Nat : m # n /\ o[RecOff(m)] # Nowhere => SameFields(f, g3, m)
    BY <1>1, <1>23 DEF Marked
  <2>2. \A b : HashOff(b) # Nowhere
    BY PlacesDiffer DEF Nowhere
  <2> QED
    BY <1>11, <1>25, <2>1, <2>2 DEF RecordOf, SameFields, DatOf
<1>27. \A j : ~RecordOf(g3, u, j, n)
  BY <1>11, PlacesDiffer DEF RecordOf
<1>28. \A m : ~RecordOf(g3, u, k, m)
  <2> SUFFICES ASSUME NEW m, RecordOf(g3, u, k, m) PROVE FALSE
    OBVIOUS
  <2>1. m # n
    BY <1>27
  <2>2. RecordOf(f, o, k, m) /\ m \in Nat
    BY <1>26, <2>1 DEF RecordOf
  <2> QED
    BY <1>1, <2>1, <2>2 DEF Keyed
<1>29. ASSUME NEW j \in Key, j # k PROVE SameFor(f, o, g3, u, j)
  <2>1. ~RecordOf(f, o, j, n)
    BY <1>1, <1>29 DEF RecordOf
  <2> QED
    BY <1>26, <1>27, <2>1 DEF SameFor
<1> QED
  BY <1>17, <1>19, <1>24, <1>28, <1>29

(* The index record is blanked and leads to the free list.                  *)
LEMMA FreesAdvances ==
  ASSUME NEW P, NEW f, NEW ws, NEW k \in Key, NEW v, NEW h, Frees(P, f, ws, k, v, h)
  PROVE  Advances(P, f, ws, k, v, h)
<1>1. PICK o, q, n, y, t :
        /\ Doomed(P, f, o, q, n, y, k) /\ DatOf(f, n) = Blank /\ Follow(t, Fourth(f, n, y), k, v)
        /\ ws = Cons(db_writeidx(n, Freed(f, n)),
                     Cons(db_writeptr(FREE_OFF, n), Cons(db_writeptr(y, f.idx[n].ptr), t)))
        /\ h = contents(f)
  BY DEF Frees
<1>2. PICK f2, f3, f4 : Middle(f, n, y, f2, f3, f4)
  BY <1>1, MiddleIs
<1>3. f2 = Second(f, n) /\ db_readdat(f2, k) = Nil
  <2>1. Half(f, n, f2)
    BY <1>1, <1>2, MiddleHalf
  <2> QED
    BY <1>1, <1>2, <2>1, HalfReads DEF Middle
<1>4. PICK w, c, i : /\ w = db_writeidx(n, Freed(f, n))
                     /\ c = Cons(db_writeptr(FREE_OFF, n), Cons(db_writeptr(y, f.idx[n].ptr), t))
                     /\ i = [h EXCEPT ![k] = db_readdat(f2, k)]
  OBVIOUS
<1>5. Head(ws) = w /\ Tail(ws) = c
  <2>1. IsSeq(t)
    BY <1>1, FollowIsSeq
  <2>2. IsSeq(c)
    BY <1>4, <2>1, ConsIs
  <2> QED
    BY <1>1, <1>4, <2>2, ConsIs
<1>6. PutsFree(P, f2, c, k, v, i)
  BY <1>1, <1>3, <1>4 DEF PutsFree
<1>7. h[k] # v
  <2>1. h[k] = Blank
    BY <1>1, DoomedIs, ReadRecord DEF contents
  <2>2. v = Nil \/ v \in Data
    BY <1>1 DEF Follow
  <2> QED
    BY <2>1, <2>2, SimpleDBAssumption
<1>8. written(f, Head(ws)) = f2
  BY <1>3, <1>4, <1>5 DEF Second
<1> QED
  BY <1>4, <1>5, <1>6, <1>7, <1>8 DEF Advances, Working

(* The record is put on the free list.                                      *)
LEMMA PutsFreeAdvances ==
  ASSUME NEW P, NEW f, NEW ws, NEW k \in Key, NEW v, NEW h, PutsFree(P, f, ws, k, v, h)
  PROVE  Advances(P, f, ws, k, v, h)
<1>1. PICK g, o, q, n, y, t :
        /\ Doomed(P, g, o, q, n, y, k) /\ Follow(t, Fourth(g, n, y), k, v) /\ f = Second(g, n)
        /\ ws = Cons(db_writeptr(FREE_OFF, n), Cons(db_writeptr(y, g.idx[n].ptr), t))
        /\ h = [contents(g) EXCEPT ![k] = Nil]
  BY DEF PutsFree
<1>2. PICK f2, f3, f4 : Middle(g, n, y, f2, f3, f4)
  BY <1>1, MiddleIs
<1>3. f3 = Third(g, n) /\ db_readdat(f3, k) = Nil
  <2>1. Half(g, n, f3)
    BY <1>1, <1>2, MiddleHalf
  <2> QED
    BY <1>1, <1>2, <2>1, HalfReads DEF Middle
<1>4. PICK w, c, i : /\ w = db_writeptr(FREE_OFF, n) /\ c = Cons(db_writeptr(y, g.idx[n].ptr), t)
                     /\ i = [h EXCEPT ![k] = db_readdat(f3, k)]
  OBVIOUS
<1>5. Head(ws) = w /\ Tail(ws) = c
  <2>1. IsSeq(t)
    BY <1>1, FollowIsSeq
  <2>2. IsSeq(c)
    BY <1>4, <2>1, ConsIs
  <2> QED
    BY <1>1, <1>4, <2>2, ConsIs
<1>6. i = h
  BY <1>1, <1>3, <1>4 DEF contents
<1>7. Unlinks(P, f3, c, k, v, i)
  BY <1>1, <1>3, <1>4, <1>6 DEF Unlinks
<1>8. written(f, Head(ws)) = f3
  BY <1>1, <1>3, <1>4, <1>5 DEF Third
<1> QED
  BY <1>4, <1>5, <1>6, <1>7, <1>8 DEF Advances, Working

(* A record that is to be appended.                                         *)
LEMMA AppendStores ==
  ASSUME NEW f, NEW o, NEW q, Clean(f, o, q), NEW k \in Key, NEW v \in Data,
         \A m : ~RecordOf(f, o, k, m), NEW h, h = contents(f)
  PROVE  Stores(f, appended(f, k, v), k, v, h)
<1>1. Sound(f) /\ Marked(f, o, q) /\ Len(f.idx) \in Nat /\ Len(f.dat) \in Nat
  BY FileFields DEF Clean, Sound
<1>2. PICK n, a : n = Len(f.idx) + 1 /\ a = Len(f.dat) + 1
  OBVIOUS
<1>3. PICK p : p = f.head[hash[k]]
  OBVIOUS
<1>4. p \in Nat /\ keylen[k] \in Nat /\ datlen[v] \in Nat /\ n \in Nat /\ a \in Nat
  <2>1. hash[k] \in Bucket /\ keylen[k] \in Nat /\ datlen[v] \in Nat
    BY SimpleDBAssumption
  <2>2. f.head[hash[k]] \in Nat
    BY <1>1, <2>1, FileFields DEF Sound
  <2> QED
    BY <1>1, <1>2, <1>3, <2>1, <2>2
<1>5. PICK r : r = [ptr |-> p, key |-> k, keylen |-> keylen[k], datoff |-> a, datlen |-> datlen[v]]
  OBVIOUS
<1>6. r \in IndexRecord /\ r.ptr = p /\ r.key = k /\ r.datoff = a /\ r.datlen = datlen[v]
  BY <1>4, <1>5 DEF IndexRecord
<1>7. appended(f, k, v) = <<db_writedat(r.datoff, v), db_writeidx(n, r), db_writeptr(HashOff(hash[k]), n)>>
  BY <1>2, <1>3, <1>5, <1>6 DEF appended
<1>8. o[RecOff(n)] = Nowhere
  BY <1>1, <1>2, <1>4 DEF Marked
<1>9. \A m \in 1..Len(f.idx) : f.idx[m].datoff # r.datoff
  <2> TAKE m \in 1..Len(f.idx)
  <2>1. f.idx[m].datoff \in 1..Len(f.dat)
    BY <1>1 DEF Sound
  <2> QED
    BY <1>1, <1>2, <1>6, <2>1
<1>10. New(f, o, q, n, r, k, v)
  BY <1>1, <1>2, <1>3, <1>6, <1>8, <1>9 DEF New
<1>11. r.datoff \in 1..(Len(f.dat) + 1)
  BY <1>1, <1>2, <1>6
<1> QED
  BY <1>7, <1>10, <1>11 DEF Stores

(* The record is taken off its chain.                                       *)
LEMMA UnlinksAdvances ==
  ASSUME NEW P, NEW f, NEW ws, NEW k \in Key, NEW v, NEW h, Unlinks(P, f, ws, k, v, h)
  PROVE  Advances(P, f, ws, k, v, h)
<1>1. PICK g, o, q, n, y, t :
        /\ Doomed(P, g, o, q, n, y, k) /\ Follow(t, Fourth(g, n, y), k, v) /\ f = Third(g, n)
        /\ ws = Cons(db_writeptr(y, g.idx[n].ptr), t)
        /\ h = [contents(g) EXCEPT ![k] = Nil]
  BY DEF Unlinks
<1>2. PICK f4 : f4 = Fourth(g, n, y)
  OBVIOUS
<1>3. PICK u, s : /\ Clean(f4, u, s) /\ \A m : ~RecordOf(f4, u, k, m)
                  /\ \A j \in Key : j # k => SameFor(g, o, f4, u, j)
  BY <1>1, <1>2, FourthClean
<1>4. PICK w, i : w = db_writeptr(y, g.idx[n].ptr) /\ i = [h EXCEPT ![k] = db_readdat(f4, k)]
  OBVIOUS
<1>5. Head(ws) = w /\ Tail(ws) = t
  BY <1>1, <1>4, FollowIsSeq, ConsIs
<1>6. db_readdat(f4, k) = Nil
  BY <1>3, ReadNothing
<1>7. i = contents(f4) /\ i = h /\ i[k] = Nil
  <2>1. PICK h0, i0 : h0 = contents(g) /\ i0 = [h0 EXCEPT ![k] = db_readdat(f4, k)]
    OBVIOUS
  <2>2. i0 = contents(f4)
    BY <1>1, <1>3, <2>1, DoomedIs, OnlyKey
  <2>3. h = i0
    BY <1>1, <1>6, <2>1
  <2>4. i = h /\ h[k] = Nil
    BY <1>1, <1>4, <1>6 DEF contents
  <2> QED
    BY <2>2, <2>3, <2>4
<1>8. written(f, Head(ws)) = f4
  BY <1>1, <1>2, <1>4, <1>5 DEF Fourth
<1>9. CASE t = <<>> /\ v = Nil
  <2>1. Finished(f4, t, k, v, i)
    BY <1>3, <1>7, <1>9 DEF Finished, Tidy
  <2> QED
    BY <1>4, <1>5, <1>7, <1>8, <2>1 DEF Advances, Working
<1>10. CASE t = appended(f4, k, v) /\ v \in Data
  <2>1. Stores(f4, t, k, v, i)
    BY <1>3, <1>7, <1>10, AppendStores
  <2> QED
    BY <1>4, <1>5, <1>7, <1>8, <2>1 DEF Advances, Working
<1> QED
  BY <1>1, <1>2, <1>9, <1>10 DEF Follow

(* A key that is being stored goes on being stored.                         *)
LEMMA StoringAdvances ==
  ASSUME NEW f, NEW ws, NEW k \in Key, NEW v, NEW h, Storing(f, ws, k, v, h), ws # <<>>
  PROVE  StoreAdvances(f, ws, k, v, h)
BY StoresAdvances, IndexesAdvances, LinksAdvances, ReusesAdvances DEF Storing, Finished

(* Every write advances the operation.                                      *)
LEMMA WorkAdvances ==
  ASSUME NEW P, NEW f, NEW ws, NEW k \in Key, NEW v, NEW h, Working(P, f, ws, k, v, h), ws # <<>>
  PROVE  Advances(P, f, ws, k, v, h)
<1>1. CASE Storing(f, ws, k, v, h)
  <2>1. StoreAdvances(f, ws, k, v, h)
    BY <1>1, StoringAdvances
  <2> QED
    BY <2>1 DEF StoreAdvances, Storing, Advances, Working
<1>2. CASE ~Storing(f, ws, k, v, h)
  BY <1>2, OverwritesAdvances, BlanksAdvances, FreesAdvances, PutsFreeAdvances, UnlinksAdvances
     DEF Working, Storing
<1> QED
  BY <1>1, <1>2

(* An operation without writes left has done its work.                      *)
LEMMA WorkDone ==
  ASSUME NEW P, NEW f, NEW k \in Key, NEW v, NEW h, Working(P, f, <<>>, k, v, h)
  PROVE  Tidy(f) /\ h = contents(f) /\ h[k] = v
<1>1. \A a, b, c, d : <<>> # <<a>> /\ <<>> # <<a, b>> /\ <<>> # <<a, b, c>> /\ <<>> # <<a, b, c, d>>
  OBVIOUS
<1>2. ~Overwrites(f, <<>>, k, v, h) /\ ~Stores(f, <<>>, k, v, h) /\ ~Indexes(f, <<>>, k, v, h)
      /\ ~Links(f, <<>>, k, v, h) /\ ~Reuses(f, <<>>, k, v, h)
  BY <1>1 DEF Overwrites, Stores, Indexes, Links, Reuses
<1>3. ~Unlinks(P, f, <<>>, k, v, h)
  BY FollowIsSeq, ConsIs DEF Unlinks
<1>4. ~PutsFree(P, f, <<>>, k, v, h)
  BY FollowIsSeq, ConsIs DEF PutsFree
<1>5. ~Frees(P, f, <<>>, k, v, h)
  BY FollowIsSeq, ConsIs DEF Frees
<1>6. ~Blanks(P, f, <<>>, k, v, h)
  BY FollowIsSeq, ConsIs DEF Blanks
<1> QED
  BY <1>2, <1>3, <1>4, <1>5, <1>6 DEF Working, Finished

-----------------------------------------------------------------------------
(* Requests.                                                                *)

(* The writes of an operation make its key hold what it is to hold.         *)
LEMMA WorkComesTrue ==
  ASSUME NEW P, NEW f, NEW T, NEW ws \in Seq(T), NEW k \in Key, NEW v, NEW h,
         Working(P, f, ws, k, v, h)
  PROVE  db_readdat(allWritten(f, ws), k) = v
<1>1. PICK g : /\ allWritten(f, ws) = g[Len(ws)] /\ g[0] = f
               /\ \A n \in 1..Len(ws) : g[n] = written(g[n - 1], ws[n])
  <2>1. Len(ws) \in Nat
    OBVIOUS
  <2> QED
    BY <2>1, AllWrittenIs
<1> DEFINE N == Len(ws)
           S == {n \in 0..N : \E i : Working(P, g[n], Rest(ws, n), k, v, i)}
<1>2. N \in Nat /\ 0 \in S
  <2>1. N \in Nat /\ Rest(ws, 0) = ws
    BY RestIs
  <2>2. 0 \in 0..N
    BY <2>1
  <2> QED
    BY <1>1, <2>1, <2>2
<1>3. ASSUME NEW n \in 0..N, n < N, n \in S
      PROVE  n + 1 \in S
  <2>1. /\ Rest(ws, n) # <<>> /\ Head(Rest(ws, n)) = ws[n + 1]
        /\ Tail(Rest(ws, n)) = Rest(ws, n + 1)
    BY <1>3, RestIs
  <2>2. g[n + 1] = written(g[n], ws[n + 1]) /\ n + 1 \in 0..N
    <3>1. n + 1 \in 1..N /\ (n + 1) - 1 = n
      BY <1>2, <1>3
    <3> QED
      BY <1>1, <3>1
  <2>3. PICK i : Working(P, g[n], Rest(ws, n), k, v, i)
    BY <1>3
  <2>4. Advances(P, g[n], Rest(ws, n), k, v, i)
    BY <2>1, <2>3, WorkAdvances
  <2>5. \E j : Working(P, g[n + 1], Rest(ws, n + 1), k, v, j)
    BY <2>1, <2>2, <2>4 DEF Advances
  <2> QED
    BY <2>2, <2>5
<1> HIDE DEF S
<1>4. 0..N \subseteq S
  BY <1>2, <1>3, UpTo
<1>5. PICK i : Working(P, g[N], Rest(ws, N), k, v, i)
  BY <1>2, <1>4 DEF S
<1>6. Rest(ws, N) = <<>>
  BY RestIs
<1>7. i = contents(g[N]) /\ i[k] = v
  BY <1>5, <1>6, WorkDone
<1> QED
  BY <1>1, <1>7 DEF contents

(* Every pointer of a record is one of P.                                   *)
Within(P, f) == \A n \in 1..Len(f.idx) : f.idx[n].ptr \in P

(* Four writes and what follows.                                            *)
LEMMA ConsFour ==
  ASSUME NEW a, NEW b, NEW c, NEW d, NEW t, IsSeq(t)
  PROVE  <<a, b, c, d>> \o t = Cons(a, Cons(b, Cons(c, Cons(d, t))))
<1>1. PICK T : t \in Seq(T)
  BY DEF IsSeq
<1>2. PICK S : S = T \cup {a, b, c, d}
  OBVIOUS
<1>3. t \in Seq(S) /\ a \in S /\ b \in S /\ c \in S /\ d \in S
  <2>1. T \subseteq S
    BY <1>2
  <2> QED
    BY <1>1, <1>2, <2>1
<1>4. PICK t1 : t1 = <<d>> \o t
  OBVIOUS
<1>5. t1 \in Seq(S) /\ Len(t1) = Len(t) + 1 /\ t1[1] = d /\ \A i \in 1..Len(t) : t1[i + 1] = t[i]
  BY <1>3, <1>4
<1>6. PICK t2 : t2 = <<c>> \o t1
  OBVIOUS
<1>7. t2 \in Seq(S) /\ Len(t2) = Len(t1) + 1 /\ t2[1] = c /\ \A i \in 1..Len(t1) : t2[i + 1] = t1[i]
  BY <1>3, <1>5, <1>6
<1>8. PICK t3 : t3 = <<b>> \o t2
  OBVIOUS
<1>9. t3 \in Seq(S) /\ Len(t3) = Len(t2) + 1 /\ t3[1] = b /\ \A i \in 1..Len(t2) : t3[i + 1] = t2[i]
  BY <1>3, <1>7, <1>8
<1>10. PICK t4 : t4 = <<a>> \o t3
  OBVIOUS
<1>11. t4 \in Seq(S) /\ Len(t4) = Len(t3) + 1 /\ t4[1] = a /\ \A i \in 1..Len(t3) : t4[i + 1] = t3[i]
  BY <1>3, <1>9, <1>10
<1>12. PICK L \in Nat : L = Len(t)
  <2>1. Len(t) \in Nat
    BY <1>3
  <2> QED
    BY <2>1
<1>13. PICK z : z = <<a, b, c, d>> \o t
  OBVIOUS
<1>14. /\ z \in Seq(S) /\ Len(z) = L + 4 /\ z[1] = a /\ z[2] = b /\ z[3] = c /\ z[4] = d
       /\ \A i \in 1..L : z[i + 4] = t[i]
  <2>1. PICK e : e = <<a, b, c, d>>
    OBVIOUS
  <2>2. e \in Seq(S) /\ Len(e) = 4 /\ e[1] = a /\ e[2] = b /\ e[3] = c /\ e[4] = d
    BY <1>3, <2>1
  <2>3. z = e \o t
    BY <1>13, <2>1
  <2>4. /\ z \in Seq(S) /\ Len(z) = Len(e) + Len(t)
        /\ \A i \in 1..(Len(e) + Len(t)) : z[i] = IF i <= Len(e) THEN e[i] ELSE t[i - Len(e)]
    BY <1>3, <2>2, <2>3, ConcatProperties
  <2>5. z \in Seq(S) /\ Len(z) = L + 4
    BY <1>12, <2>2, <2>4
  <2>6. \A i \in 1..(L + 4) : z[i] = IF i <= 4 THEN e[i] ELSE t[i - 4]
    BY <1>12, <2>2, <2>4
  <2>7. z[1] = a /\ z[2] = b /\ z[3] = c /\ z[4] = d
    BY <2>2, <2>6
  <2>8. ASSUME NEW i \in 1..L PROVE z[i + 4] = t[i]
    <3>1. i + 4 \in 1..(L + 4) /\ ~(i + 4 <= 4) /\ (i + 4) - 4 = i
      OBVIOUS
    <3> QED
      BY <2>6, <3>1
  <2> QED
    BY <2>5, <2>7, <2>8
<1>15. Len(t4) = L + 4 /\ t4[1] = a /\ t4[2] = b /\ t4[3] = c /\ t4[4] = d
  <2>1. Len(t1) = L + 1 /\ Len(t2) = L + 2 /\ Len(t3) = L + 3 /\ Len(t4) = L + 4
    BY <1>5, <1>7, <1>9, <1>11, <1>12
  <2>2. t2[1 + 1] = d /\ t3[1 + 1] = c /\ t4[1 + 1] = b
    BY <1>5, <1>7, <1>9, <1>11, <2>1
  <2>3. t3[2 + 1] = t2[2] /\ t4[2 + 1] = t3[2]
    BY <1>9, <1>11, <2>1
  <2>4. t4[3 + 1] = t3[3]
    BY <1>11, <2>1
  <2> QED
    BY <1>11, <2>1, <2>2, <2>3, <2>4
<1>16. ASSUME NEW i \in 1..L PROVE t4[i + 4] = t[i]
  <2>0. Len(t1) = L + 1 /\ Len(t2) = L + 2 /\ Len(t3) = L + 3
    BY <1>5, <1>7, <1>9, <1>12
  <2>1. t1[i + 1] = t[i] /\ i + 1 \in 1..Len(t1)
    BY <1>5, <1>12, <2>0
  <2>2. t2[(i + 1) + 1] = t[i]
    BY <1>7, <2>1
  <2>2a. (i + 1) + 1 \in 1..Len(t2) /\ ((i + 1) + 1) + 1 \in 1..Len(t3)
    BY <2>0
  <2>3. t3[((i + 1) + 1) + 1] = t[i]
    BY <1>9, <2>2, <2>2a
  <2>4. t4[(((i + 1) + 1) + 1) + 1] = t[i]
    BY <1>11, <2>2a, <2>3
  <2>5. (((i + 1) + 1) + 1) + 1 = i + 4
    OBVIOUS
  <2> QED
    BY <2>4, <2>5
<1>17. ASSUME NEW i \in 1..(L + 4) PROVE z[i] = t4[i]
  <2>1. CASE i \in {1, 2, 3, 4}
    BY <1>14, <1>15, <2>1
  <2>2. CASE i \notin {1, 2, 3, 4}
    <3>1. i - 4 \in 1..L /\ (i - 4) + 4 = i
      BY <2>2
    <3>2. z[(i - 4) + 4] = t[i - 4] /\ t4[(i - 4) + 4] = t[i - 4]
      BY <1>14, <1>16, <3>1
    <3> QED
      BY <3>1, <3>2
  <2> QED
    BY <2>1, <2>2
<1>18. z = t4
  BY <1>11, <1>14, <1>15, <1>17, SeqEqual
<1> QED
  BY <1>4, <1>6, <1>8, <1>10, <1>13, <1>18 DEF Cons

(* _db_dodelete and what follows it.                                        *)
LEMMA DeleteBlanks ==
  ASSUME NEW P, NEW f, NEW o, NEW q, Clean(f, o, q), Within(P, f), NEW k \in Key,
         NEW at, at = db_find(f, k), at # Nil, NEW t, NEW v, NEW h, h = contents(f),
         Follow(t, allWritten(f, db_dodelete(f, at)), k, v),
         v \in Data => datlen[v] # f.idx[at.offset].datlen
  PROVE  Blanks(P, f, db_dodelete(f, at) \o t, k, v, h)
<1>1. PICK n : RecordOf(f, o, k, n)
  BY FoundRecord
<1>2. PICK y : y = at.ptroff
  OBVIOUS
<1>3. n \in 1..Len(f.idx) /\ at.offset = n /\ y \in On(o) /\ db_readptr(f, y) = n
  BY <1>1, <1>2, ReadRecord
<1>4. Doomed(P, f, o, q, n, y, k)
  BY <1>1, <1>3 DEF Doomed, Within
<1>5. PICK a, b, c, d : /\ a = db_writedat(f.idx[n].datoff, Blank)
                        /\ b = db_writeidx(n, Freed(f, n))
                        /\ c = db_writeptr(FREE_OFF, n) /\ d = db_writeptr(y, f.idx[n].ptr)
  OBVIOUS
<1>6. db_dodelete(f, at) = <<a, b, c, d>>
  BY <1>2, <1>3, <1>5 DEF db_dodelete, Freed, Rekeyed
<1>7. PICK g : g = written(f, a)
  OBVIOUS
<1>8. g.idx = f.idx /\ g.free = f.free
  <2>1. f \in File /\ f.idx[n].datoff \in 1..Len(f.dat) /\ Len(f.dat) \in Nat
    BY <1>3, FileFields DEF Clean, Sound
  <2>2. PICK e : e = f.idx[n].datoff
    OBVIOUS
  <2>3. Wrote(f, db_writedat(e, Blank), g) /\ e \in 1..(Len(f.dat) + 1)
    BY <1>5, <1>7, <2>1, <2>2 DEF Wrote
  <2> QED
    BY <2>3, WrittenDat
<1>9. allWritten(f, db_dodelete(f, at)) = Fourth(g, n, y)
  <2>1. allWritten(f, <<a, b, c, d>>) = written(written(written(g, b), c), d)
    BY <1>7, AllWritten4
  <2>2. Freed(g, n) = Freed(f, n) /\ g.idx[n].ptr = f.idx[n].ptr
    BY <1>8 DEF Freed
  <2> QED
    BY <1>5, <1>6, <2>1, <2>2 DEF Second, Third, Fourth
<1>10. Follow(t, Fourth(g, n, y), k, v)
  BY <1>9
<1>11. db_dodelete(f, at) \o t = Cons(a, Cons(b, Cons(c, Cons(d, t))))
  <2>1. IsSeq(t)
    BY <1>10, FollowIsSeq
  <2> QED
    BY <1>6, <2>1, ConsFour
<1> QED
  BY <1>3, <1>4, <1>5, <1>7, <1>10, <1>11 DEF Blanks

(* A record of the free list is used again.                                 *)
LEMMA ReuseReuses ==
  ASSUME NEW f, NEW o, NEW q, Clean(f, o, q), NEW k \in Key, NEW v \in Data,
         \A m : ~RecordOf(f, o, k, m), NEW h, h = contents(f),
         NEW at, at = db_findfree(f, k, v), at # Nil
  PROVE  Reuses(f, reused(f, at, k, v), k, v, h)
<1>1. PICK W, x : /\ W = {n \in 1..Len(f.idx) : /\ f.idx[n].keylen = keylen[k]
                                                /\ f.idx[n].datlen = datlen[v]}
                  /\ x = FREE_OFF
  OBVIOUS
<1>2. at = search(f, x, W) /\ x \in Heads
  BY <1>1, SpotFacts DEF db_findfree, fitting
<1>3. FoundOn(f, o, x, W, at)
  BY <1>2, CleanSearch
<1>4. PICK n, y : n = at.offset /\ y = at.ptroff
  OBVIOUS
<1>5. n \in W /\ y \in On(o) /\ o[y] = x /\ db_readptr(f, y) = n
  BY <1>3, <1>4 DEF FoundOn
<1>6. f.idx[n].datlen = datlen[v] /\ n # 0
  BY <1>1, <1>5
<1>7. reused(f, at, k, v) = <<db_writeptr(y, f.idx[n].ptr), db_writedat(f.idx[n].datoff, v),
                              db_writeidx(n, Rekeyed(f.idx[n], k, f.head[hash[k]])),
                              db_writeptr(HashOff(hash[k]), n)>>
  BY <1>4 DEF reused, Rekeyed
<1> QED
  BY <1>1, <1>5, <1>6, <1>7 DEF Reuses

(* What a request is to make its key hold, and its answer, when the keys    *)
(* hold h: Value and Answer of CrashMap.                                    *)
Refuses(h, r) ==
    /\ r.cmd = "store"
    /\ \/ r.flag = "DB_REPLACE" /\ h[r.key] = Nil
       \/ r.flag = "DB_INSERT" /\ h[r.key] # Nil

Wants(h, r) ==
    CASE r.cmd = "fetch" \/ Refuses(h, r) -> h[r.key]
      [] r.cmd = "delete"                 -> Nil
      [] OTHER                            -> r.data

Says(h, r) ==
    CASE r.cmd = "fetch"                        -> h[r.key]
      [] r.cmd = "delete" /\ h[r.key] = Nil     -> -1
      [] Refuses(h, r) /\ r.flag = "DB_REPLACE" -> -1
      [] Refuses(h, r) /\ r.flag = "DB_INSERT"  -> 1
      [] OTHER                                  -> 0

Begun(P, f, r, w, h) == Working(P, f, w.writes, r.key, Wants(h, r), h) /\ w.rc = Says(h, r)

(* A request that changes nothing.                                          *)
LEMMA NothingToDo ==
  ASSUME NEW P, NEW f, Tidy(f), NEW h, h = contents(f), NEW r, NEW w,
         w.writes = <<>>, Wants(h, r) = h[r.key], w.rc = Says(h, r)
  PROVE  Begun(P, f, r, w, h)
BY DEF Begun, Working, Finished

(* db_store begins what its flag says.                                      *)
LEMMA StoreBegins ==
  ASSUME NEW P, NEW f, Tidy(f), Within(P, f), NEW h, h = contents(f), NEW r \in Request,
         r.cmd = "store", NEW w, w = getResponse(f, r)
  PROVE  Begun(P, f, r, w, h)
<1>1. PICK o, q : Clean(f, o, q)
  BY DEF Tidy
<1>2. PICK k, v : k = r.key /\ v = r.data
  OBVIOUS
<1>3. k \in Key /\ v \in Data /\ r.flag \in Flag
  BY <1>2, RequestFields
<1>4. h[k] = Nil <=> db_find(f, k) = Nil
  BY <1>1, <1>3, FoundRecord DEF contents
<1>5. PICK at, e : at = db_find(f, k) /\ e = db_findfree(f, k, v)
  OBVIOUS
<1>6. w = db_store(f, k, v, r.flag)
  BY <1>2 DEF getResponse
<1>7. CASE at = Nil /\ r.flag = "DB_REPLACE"
  <2>1. w.rc = -1 /\ w.writes = <<>>
    BY <1>5, <1>6, <1>7 DEF db_store
  <2>2. Wants(h, r) = h[r.key] /\ Says(h, r) = -1
    BY <1>2, <1>4, <1>5, <1>7 DEF Wants, Says, Refuses
  <2> QED
    BY <2>1, <2>2, NothingToDo
<1>8. CASE at # Nil /\ r.flag = "DB_INSERT"
  <2>1. w.rc = 1 /\ w.writes = <<>>
    BY <1>5, <1>6, <1>8 DEF db_store
  <2>2. Wants(h, r) = h[r.key] /\ Says(h, r) = 1
    BY <1>2, <1>4, <1>5, <1>8 DEF Wants, Says, Refuses
  <2> QED
    BY <2>1, <2>2, NothingToDo
<1>9. CASE at = Nil /\ r.flag # "DB_REPLACE"
  <2>1. Wants(h, r) = v /\ Says(h, r) = 0
    BY <1>2, <1>4, <1>5, <1>9 DEF Wants, Says, Refuses
  <2>2. w.rc = 0 /\ w.writes = IF e = Nil THEN appended(f, k, v) ELSE reused(f, e, k, v)
    BY <1>5, <1>6, <1>9 DEF db_store
  <2>3. \A m : ~RecordOf(f, o, k, m)
    BY <1>1, <1>3, <1>5, <1>9, FoundRecord
  <2>4. e = Nil => Stores(f, appended(f, k, v), k, v, h)
    BY <1>1, <1>3, <2>3, AppendStores
  <2>5. e # Nil => Reuses(f, reused(f, e, k, v), k, v, h)
    BY <1>1, <1>3, <1>5, <2>3, ReuseReuses
  <2>6. Working(P, f, w.writes, k, v, h)
    BY <2>2, <2>4, <2>5 DEF Working
  <2> QED
    BY <1>2, <2>1, <2>2, <2>6 DEF Begun
<1>10. CASE at # Nil /\ r.flag # "DB_INSERT"
  <2>1. Wants(h, r) = v /\ Says(h, r) = 0
    BY <1>2, <1>4, <1>5, <1>10 DEF Wants, Says, Refuses
  <2>2. PICK d, t : d = db_dodelete(f, at) /\ t = appended(allWritten(f, d), k, v)
    OBVIOUS
  <2>3. w.rc = 0 /\ w.writes = IF datlen[v] # f.idx[at.offset].datlen THEN d \o t
                               ELSE << db_writedat(f.idx[at.offset].datoff, v) >>
    BY <1>5, <1>6, <1>10, <2>2 DEF db_store
  <2>4. CASE datlen[v] # f.idx[at.offset].datlen
    <3>1. Follow(t, allWritten(f, db_dodelete(f, at)), k, v)
      BY <1>3, <2>2 DEF Follow
    <3>2. Blanks(P, f, db_dodelete(f, at) \o t, k, v, h)
      BY <1>1, <1>3, <1>5, <1>10, <2>4, <3>1, DeleteBlanks
    <3>3. Working(P, f, w.writes, k, v, h)
      BY <2>2, <2>3, <2>4, <3>2 DEF Working
    <3> QED
      BY <1>2, <2>1, <2>3, <3>3 DEF Begun
  <2>5. CASE datlen[v] = f.idx[at.offset].datlen
    <3>1. PICK n : RecordOf(f, o, k, n)
      BY <1>1, <1>3, <1>5, <1>10, FoundRecord
    <3>2. at.offset = n
      BY <1>1, <1>3, <1>5, <3>1, ReadRecord
    <3>3. w.writes = << db_writedat(f.idx[n].datoff, v) >> /\ datlen[v] = f.idx[n].datlen
      BY <2>3, <2>5, <3>2
    <3>4. Overwrites(f, w.writes, k, v, h)
      BY <1>1, <1>3, <3>1, <3>3 DEF Overwrites
    <3> QED
      BY <1>2, <2>1, <2>3, <3>4 DEF Begun, Working
  <2> QED
    BY <2>4, <2>5
<1> QED
  BY <1>7, <1>8, <1>9, <1>10

(* Every request begins what the map says, and answers so.                  *)
LEMMA RequestBegins ==
  ASSUME NEW P, NEW f, Tidy(f), Within(P, f), NEW h, h = contents(f), NEW r \in Request,
         NEW w, w = getResponse(f, r)
  PROVE  Begun(P, f, r, w, h)
<1>0. r.cmd \in {"fetch", "delete", "store"}
  BY RequestFields
<1>1. PICK o, q : Clean(f, o, q)
  BY DEF Tidy
<1>2. PICK k : k = r.key
  OBVIOUS
<1>3. k \in Key
  BY <1>2, RequestFields
<1>4. h[k] = Nil <=> db_find(f, k) = Nil
  BY <1>1, <1>3, FoundRecord DEF contents
<1>5. CASE r.cmd = "fetch"
  <2>1. w.rc = h[r.key] /\ w.writes = <<>>
    BY <1>2, <1>3, <1>5 DEF getResponse, db_fetch, contents
  <2>2. Wants(h, r) = h[r.key] /\ Says(h, r) = h[r.key]
    BY <1>5 DEF Wants, Says, Refuses
  <2> QED
    BY <2>1, <2>2, NothingToDo
<1>6. CASE r.cmd = "delete"
  <2>1. PICK at : at = db_find(f, k)
    OBVIOUS
  <2>2. w = IF at = Nil THEN [rc |-> -1, writes |-> <<>>] ELSE [rc |-> 0, writes |-> db_dodelete(f, at)]
    BY <1>2, <1>6, <2>1 DEF getResponse, db_delete
  <2>3. Wants(h, r) = Nil /\ Says(h, r) = IF h[k] = Nil THEN -1 ELSE 0
    BY <1>2, <1>6 DEF Wants, Says, Refuses
  <2>4. CASE at = Nil
    <3>1. w.rc = Says(h, r) /\ w.writes = <<>> /\ Wants(h, r) = h[r.key]
      BY <1>2, <1>4, <2>1, <2>2, <2>3, <2>4
    <3> QED
      BY <3>1, NothingToDo
  <2>5. CASE at # Nil
    <3>1. PICK t, d : t = <<>> /\ d = db_dodelete(f, at)
      OBVIOUS
    <3>2. Follow(t, allWritten(f, db_dodelete(f, at)), k, Nil)
      BY <3>1 DEF Follow
    <3>3. Nil \notin Data
      BY SimpleDBAssumption
    <3>4. Blanks(P, f, db_dodelete(f, at) \o t, k, Nil, h)
      BY <1>1, <1>3, <2>1, <2>5, <3>2, <3>3, DeleteBlanks
    <3>5. d \o t = d
      <4>1. \A a, b, c, e : <<a, b, c, e>> \o <<>> = <<a, b, c, e>>
        OBVIOUS
      <4> QED
        BY <3>1, <4>1 DEF db_dodelete
    <3>6. w.rc = 0 /\ w.writes = d
      BY <2>2, <2>5, <3>1
    <3>7. Working(P, f, w.writes, k, Nil, h)
      BY <3>1, <3>4, <3>5, <3>6 DEF Working
    <3> QED
      BY <1>2, <1>4, <2>1, <2>3, <2>5, <3>6, <3>7 DEF Begun
  <2> QED
    BY <2>4, <2>5
<1>7. CASE r.cmd = "store"
  BY <1>7, StoreBegins
<1> QED
  BY <1>0, <1>5, <1>6, <1>7

-----------------------------------------------------------------------------
(* No pointer in the file is beyond PTR_MAX.                                *)

Room == 0..PTR_MAX

Small(f) ==
    /\ f.free \in Room /\ \A b \in Bucket : f.head[b] \in Room
    /\ \A n \in 1..Len(f.idx) : f.idx[n].ptr \in Room

(* What the next write of an operation can be.                              *)
Ready(f, w) ==
    \/ InPlace(Len(f.idx), Len(f.dat), w)
    \/ \E d \in Data : w = db_writedat(Len(f.dat) + 1, d)
    \/ \E r \in IndexRecord : w = db_writeidx(Len(f.idx) + 1, r)

(* It is one that the files are ready for.                                  *)
LEMMA HeadReady ==
  ASSUME NEW f, NEW ws, SafeTodo(f, ws), ws # <<>>
  PROVE  Ready(f, Head(ws))
<1> DEFINE N == Len(f.idx)
           M == Len(f.dat)
<1>1. PICK u \in Seq(Writes), t \in Seq(Writes) :
        /\ ws = u \o t /\ \A i \in 1..Len(u) : InPlace(N, M, u[i])
        /\ t = <<>> \/ AppendsDat(N, M, t) \/ AppendsIdx(N, M, t)
  BY DEF SafeTodo
<1>2. CASE u # <<>>
  <2>1. 1 \in 1..Len(u) /\ Head(ws) = u[1]
    BY <1>1, <1>2
  <2> QED
    BY <1>1, <2>1 DEF Ready
<1>3. CASE u = <<>>
  <2>1. ws = t /\ t # <<>>
    BY <1>1, <1>3
  <2>2. CASE AppendsDat(N, M, t)
    <3>1. PICK d \in Data, r \in IndexRecord, b \in Bucket :
            t = <<db_writedat(M + 1, d), db_writeidx(N + 1, r), db_writeptr(HashOff(b), N + 1)>>
      BY <2>2 DEF AppendsDat
    <3>2. Head(t) = db_writedat(M + 1, d)
      BY <3>1
    <3> QED
      BY <2>1, <3>2 DEF Ready
  <2>3. CASE AppendsIdx(N, M, t)
    <3>1. PICK r \in IndexRecord, b \in Bucket :
            t = <<db_writeidx(N + 1, r), db_writeptr(HashOff(b), N + 1)>>
      BY <2>3 DEF AppendsIdx
    <3>2. Head(t) = db_writeidx(N + 1, r)
      BY <3>1
    <3> QED
      BY <2>1, <3>2 DEF Ready
  <2> QED
    BY <1>1, <2>1, <2>2, <2>3
<1> QED
  BY <1>2, <1>3

(* HasRoom keeps the pointers small.                                        *)
LEMMA SmallStep ==
  ASSUME NEW f, Sound(f), Small(f), NEW w, Ready(f, w), HasRoom(w), NEW g, g = written(f, w)
  PROVE  Small(g)
<1> DEFINE N == Len(f.idx)
           M == Len(f.dat)
<1>w. Wrote(f, w, g) /\ N \in Nat /\ M \in Nat /\ PTR_MAX \in Nat
  BY FileFields, SimpleDBAssumption DEF Wrote, Sound
<1>0. \A v \in 0..N : v \in Nat
  BY <1>w
<1>1. ASSUME NEW n \in 1..(M + 1), NEW d \in Data \cup {Blank}, w = db_writedat(n, d)
      PROVE  Small(g)
  <2>1. g.free = f.free /\ g.head = f.head /\ g.idx = f.idx
    BY <1>w, <1>1, WrittenDat
  <2> QED
    BY <2>1 DEF Small
<1>2. ASSUME NEW n \in 1..(N + 1), NEW r \in IndexRecord, w = db_writeidx(n, r)
      PROVE  Small(g)
  <2>1. /\ g.free = f.free /\ g.head = f.head
        /\ Len(g.idx) = IF n = N + 1 THEN N + 1 ELSE N
        /\ g.idx[n] = r /\ \A m \in 1..N : m # n => g.idx[m] = f.idx[m]
    BY <1>w, <1>2, WrittenIdx
  <2>2. r.ptr \in Nat /\ r.ptr <= PTR_MAX
    BY <1>2 DEF HasRoom, db_writeidx, IndexRecord
  <2>3. ASSUME NEW m \in 1..Len(g.idx) PROVE g.idx[m].ptr \in Room
    <3>1. CASE m = n
      BY <1>w, <2>1, <2>2, <3>1 DEF Room
    <3>2. CASE m # n
      BY <1>w, <2>1, <3>2 DEF Small
    <3> QED
      BY <3>1, <3>2
  <2> QED
    BY <2>1, <2>3 DEF Small
<1>3. ASSUME NEW v \in 0..N, w = db_writeptr(FREE_OFF, v)
      PROVE  Small(g)
  <2>1. g.free = v /\ g.head = f.head /\ g.idx = f.idx
    BY <1>w, <1>0, <1>3, WrittenFree
  <2>2. v \in Room
    BY <1>w, <1>0, <1>3 DEF HasRoom, db_writeptr, Room
  <2> QED
    BY <2>1, <2>2 DEF Small
<1>4. ASSUME NEW v \in 0..N, NEW b \in Bucket, w = db_writeptr(HashOff(b), v)
      PROVE  Small(g)
  <2>1. /\ g.free = f.free /\ g.idx = f.idx
        /\ g.head[b] = v /\ \A a \in Bucket : a # b => g.head[a] = f.head[a]
    BY <1>w, <1>0, <1>4, WrittenHead
  <2>2. v \in Room
    BY <1>w, <1>0, <1>4 DEF HasRoom, db_writeptr, Room
  <2> QED
    BY <2>1, <2>2 DEF Small
<1>5. ASSUME NEW v \in 0..N, NEW n \in 1..N, w = db_writeptr(RecOff(n), v)
      PROVE  Small(g)
  <2>1. /\ g.free = f.free /\ g.head = f.head /\ Len(g.idx) = N
        /\ g.idx[n].ptr = v /\ \A m \in 1..N : m # n => g.idx[m] = f.idx[m]
    BY <1>w, <1>0, <1>5, WrittenRec
  <2>2. v \in Room
    BY <1>w, <1>0, <1>5 DEF HasRoom, db_writeptr, Room
  <2> QED
    BY <2>1, <2>2 DEF Small
<1>6. CASE InPlace(N, M, w)
  <2>1. 1..M \subseteq 1..(M + 1) /\ 1..N \subseteq 1..(N + 1)
    BY <1>w
  <2>2. (\E n \in 1..M, d \in Data \cup {Blank} : w = db_writedat(n, d)) => Small(g)
    BY <1>1, <2>1
  <2>3. (\E n \in 1..N, r \in IndexRecord : w = db_writeidx(n, r)) => Small(g)
    BY <1>2, <2>1
  <2> QED
    BY <1>3, <1>4, <1>5, <1>6, <2>2, <2>3 DEF InPlace
<1>7. CASE \E d \in Data : w = db_writedat(M + 1, d)
  <2>1. M + 1 \in 1..(M + 1)
    BY <1>w
  <2> QED
    BY <1>1, <1>7, <2>1
<1>8. CASE \E r \in IndexRecord : w = db_writeidx(N + 1, r)
  <2>1. N + 1 \in 1..(N + 1)
    BY <1>w
  <2> QED
    BY <1>2, <1>8, <2>1
<1> QED
  BY <1>6, <1>7, <1>8 DEF Ready

(* While a deletion has only half unlinked its record, the record lingers   *)
(* on its chain, and there is room for the pointer it writes next.          *)
LEMMA HalfDone ==
  ASSUME NEW f, NEW ws, NEW k \in Key, NEW v, NEW h, Small(f),
         PutsFree(Room, f, ws, k, v, h) \/ Unlinks(Room, f, ws, k, v, h)
  PROVE  Lingers(f) /\ HasRoom(Head(ws))
<1>1. CASE PutsFree(Room, f, ws, k, v, h)
  <2>1. PICK g, o, q, n, y, t :
          /\ Doomed(Room, g, o, q, n, y, k) /\ Follow(t, Fourth(g, n, y), k, v) /\ f = Second(g, n)
          /\ ws = Cons(db_writeptr(FREE_OFF, n), Cons(db_writeptr(y, g.idx[n].ptr), t))
    BY <1>1 DEF PutsFree
  <2>2. PICK f2, f3, f4 : Middle(g, n, y, f2, f3, f4)
    BY <2>1, MiddleIs
  <2>3. Half(g, n, f2) /\ f2 = f
    BY <2>1, <2>2, MiddleHalf DEF Middle
  <2>4. Lingers(f)
    BY <2>1, <2>3, HalfReads
  <2>5. Head(ws) = db_writeptr(FREE_OFF, n)
    BY <2>1, FollowIsSeq, ConsIs
  <2>6. n \in Room
    <3>1. y \in Locs(g) /\ y # FREE_OFF /\ y # RecOff(n) /\ db_readptr(g, y) = n
      BY <2>1, DoomedIs
    <3>2. db_readptr(f, y) = n /\ y \in Locs(f)
      BY <2>3, <3>1 DEF Half, Locs
    <3>3. \A z \in Locs(f) : db_readptr(f, z) \in Room
      BY ReadPtr DEF Small, Locs
    <3> QED
      BY <3>2, <3>3
  <2>7. HasRoom(db_writeptr(FREE_OFF, n))
    BY <2>6, SimpleDBAssumption DEF HasRoom, db_writeptr, Room
  <2> QED
    BY <2>4, <2>5, <2>7
<1>2. CASE Unlinks(Room, f, ws, k, v, h)
  <2>1. PICK g, o, q, n, y, t :
          /\ Doomed(Room, g, o, q, n, y, k) /\ Follow(t, Fourth(g, n, y), k, v) /\ f = Third(g, n)
          /\ ws = Cons(db_writeptr(y, g.idx[n].ptr), t)
    BY <1>2 DEF Unlinks
  <2>2. PICK f2, f3, f4 : Middle(g, n, y, f2, f3, f4)
    BY <2>1, MiddleIs
  <2>3. Half(g, n, f3) /\ f3 = f
    BY <2>1, <2>2, MiddleHalf DEF Middle
  <2>4. Lingers(f)
    BY <2>1, <2>3, HalfReads
  <2>5. PICK p : p = g.idx[n].ptr
    OBVIOUS
  <2>6. Head(ws) = db_writeptr(y, p)
    BY <2>1, <2>5, FollowIsSeq, ConsIs
  <2>7. p \in Room
    BY <2>1, <2>5, DoomedIs
  <2>8. HasRoom(db_writeptr(y, p))
    BY <2>7, SimpleDBAssumption DEF HasRoom, db_writeptr, Room
  <2> QED
    BY <2>4, <2>6, <2>8
<1> QED
  BY <1>1, <1>2

(* Otherwise the file is clean, and the keys hold what it says.             *)
LEMMA ElseTidy ==
  ASSUME NEW P, NEW f, NEW ws, NEW k, NEW v, NEW h, Working(P, f, ws, k, v, h),
         ~PutsFree(P, f, ws, k, v, h), ~Unlinks(P, f, ws, k, v, h)
  PROVE  Tidy(f) /\ h = contents(f)
BY DEF Working, Finished, Overwrites, Stores, Indexes, Links, Reuses, Blanks, Frees, New,
       Doomed, Tidy

(* A file that has just been created is clean, and no key holds anything.   *)
LEMMA OpenTidy ==
  Tidy(db_open) /\ Small(db_open) /\ contents(db_open) = [k \in Key |-> Nil]
<1>1. PICK f, o, q : /\ f = db_open
                     /\ o = [y \in Spots |-> IF y \in Heads THEN y ELSE Nowhere]
                     /\ q = [y \in Spots |-> 0]
  OBVIOUS
<1>2. /\ f.free = 0 /\ f.head = [b \in Bucket |-> 0] /\ f.idx = <<>> /\ Len(f.idx) = 0
      /\ 1..Len(f.idx) = {}
  BY <1>1 DEF db_open
<1>3. Sound(f)
  BY <1>1, OpenSound
<1>4. \A y \in Spots : y \in On(o) <=> y \in Heads
  BY <1>1, SpotFacts DEF On
<1>5. \A n \in Nat : o[RecOff(n)] = Nowhere
  BY <1>1, SpotFacts
<1>6. \A x \in Heads : o[x] = x /\ db_readptr(f, x) = 0
  BY <1>1, <1>2, SpotFacts, ReadPtr DEF Heads
<1>7. On(o) \subseteq Heads
  BY <1>4 DEF On
<1>8. Marked(f, o, q)
  <2>1. o \in [Spots -> Heads \cup {Nowhere}] /\ q \in [Spots -> Nat]
    BY <1>1
  <2>2. \A y \in On(o) : q[y] <= q[o[y]]
    BY <1>1, <1>6, <1>7, SpotFacts
  <2> QED
    BY <1>5, <1>6, <2>1, <2>2 DEF Marked
<1>9. Follows(f, o, q) /\ Led(f, o) /\ Alone(f, o)
  BY <1>5, <1>6, <1>7 DEF Follows, Led, Alone
<1>10. \A n \in Nat : o[RecOff(n)] # FREE_OFF /\ \A b \in Bucket : o[RecOff(n)] # HashOff(b)
  BY <1>5, SpotFacts
<1>11. \A k \in Key : \A n : ~RecordOf(f, o, k, n)
  BY <1>10, SpotFacts DEF RecordOf
<1>12. Keyed(f, o) /\ OwnData(f)
  BY <1>2, <1>10, <1>11 DEF Keyed, OwnData
<1>13. Clean(f, o, q)
  BY <1>3, <1>8, <1>9, <1>12 DEF Clean
<1>14. \A k \in Key : db_readdat(f, k) = Nil
  BY <1>11, <1>13, ReadNothing
<1>15. Small(f)
  BY <1>2, SimpleDBAssumption DEF Small, Room
<1> QED
  BY <1>1, <1>13, <1>14, <1>15 DEF Tidy, contents

-----------------------------------------------------------------------------
(* The invariant of the refinement.                                         *)

(* A key that holds v, or is about to, as the request r leaves it: r done   *)
(* once more would change nothing.                                          *)
Settled(r, v) ==
    /\ r.cmd = "delete" => v = Nil
    /\ r.cmd = "store" => /\ r.flag = "DB_INSERT" => v # Nil
                          /\ r.flag = "DB_REPLACE" => v = Nil \/ v = r.data
                          /\ r.flag = "DB_STORE" => v = r.data

(* Between operations the file is clean; during one it is in one of its     *)
(* phases; and the request in sdata is settled.                             *)
MapInv ==
    /\ TypeInv /\ Small(file)
    /\ op = Nil => Tidy(file) /\ held = contents(file)
    /\ op # Nil => Working(Room, file, todo, op.key, op.value, held) /\ last # Nil
                   /\ op.key = last.key
    /\ last # Nil => Settled(last, IF op = Nil THEN held[last.key] ELSE op.value)

(* What a request wants is settled.                                         *)
LEMMA WantsSettled ==
  ASSUME NEW r \in Request, NEW h
  PROVE  Settled(r, Wants(h, r))
<1>1. /\ r.cmd \in {"fetch", "delete", "store"}
      /\ r.cmd = "store" => r.data \in Data /\ r.flag \in Flag
  BY RequestFields
<1>2. CASE r.cmd = "fetch"
  BY <1>2 DEF Settled
<1>3. CASE r.cmd = "delete"
  BY <1>3 DEF Settled, Wants, Refuses
<1>4. CASE r.cmd = "store"
  <2>1. r.data # Nil
    BY <1>1, <1>4, SimpleDBAssumption
  <2>2. Wants(h, r) = IF Refuses(h, r) THEN h[r.key] ELSE r.data
    BY <1>4 DEF Wants
  <2>3. CASE r.flag = "DB_INSERT"
    BY <1>4, <2>1, <2>2, <2>3 DEF Settled, Refuses
  <2>4. CASE r.flag = "DB_REPLACE"
    BY <1>4, <2>1, <2>2, <2>4 DEF Settled, Refuses
  <2>5. CASE r.flag = "DB_STORE"
    BY <1>4, <2>1, <2>2, <2>5 DEF Settled, Refuses
  <2> QED
    BY <1>1, <1>4, <2>3, <2>4, <2>5 DEF Flag
<1> QED
  BY <1>1, <1>2, <1>3, <1>4

(* A settled request wants what is there.                                   *)
LEMMA SettledWants ==
  ASSUME NEW r \in Request, NEW h, Settled(r, h[r.key])
  PROVE  Wants(h, r) = h[r.key]
<1>1. /\ r.cmd \in {"fetch", "delete", "store"}
      /\ r.cmd = "store" => r.data \in Data /\ r.flag \in Flag
  BY RequestFields
<1>2. CASE r.cmd = "fetch"
  BY <1>2 DEF Wants
<1>3. CASE r.cmd = "delete"
  BY <1>3 DEF Settled, Wants, Refuses
<1>4. CASE r.cmd = "store"
  <2>1. Wants(h, r) = IF Refuses(h, r) THEN h[r.key] ELSE r.data
    BY <1>4 DEF Wants
  <2>2. r.flag \in {"DB_INSERT", "DB_REPLACE", "DB_STORE"}
    BY <1>1, <1>4 DEF Flag
  <2>3. CASE r.flag = "DB_INSERT"
    BY <1>4, <2>1, <2>3 DEF Settled, Refuses
  <2>4. CASE r.flag = "DB_REPLACE"
    BY <1>4, <2>1, <2>4 DEF Settled, Refuses
  <2>5. CASE r.flag = "DB_STORE"
    BY <1>4, <2>1, <2>5 DEF Settled, Refuses
  <2> QED
    BY <2>2, <2>3, <2>4, <2>5
<1> QED
  BY <1>1, <1>2, <1>3, <1>4

(* An operation is begun, with any answer.                                  *)
LEMMA OperationBegins ==
  ASSUME MapInv, op = Nil, NEW r \in Request, NEW answer, NEW ws, NEW new,
         ws = getResponse(file, r).writes, new = operation(r.key, answer, ws)
  PROVE  /\ Working(Room, file, ws, r.key, new.value, held)
         /\ new = [key |-> r.key, value |-> Wants(held, r), answer |-> answer]
         /\ new.key = r.key /\ new.value = Wants(held, r)
         /\ getResponse(file, r).rc = Says(held, r)
<1>1. PICK f, h, w : f = file /\ h = held /\ w = getResponse(f, r)
  OBVIOUS
<1>2. Tidy(f) /\ h = contents(f) /\ Sound(f)
  BY <1>1 DEF MapInv, TypeInv
<1>3. Within(Room, f)
  BY <1>1 DEF MapInv, Small, Within
<1>4. Begun(Room, f, r, w, h)
  BY <1>1, <1>2, <1>3, RequestBegins
<1>5. ws = w.writes
  BY <1>1
<1>6. Working(Room, f, ws, r.key, Wants(h, r), h) /\ w.rc = Says(h, r)
  BY <1>4, <1>5 DEF Begun
<1>7. ws \in Seq(Writes) /\ r.key \in Key
  BY <1>1, <1>2, <1>5, ResponseSafe, RequestFields DEF SafeResponse
<1>8. db_readdat(allWritten(f, ws), r.key) = Wants(h, r)
  BY <1>6, <1>7, WorkComesTrue
<1>9. new = [key |-> r.key, answer |-> answer, value |-> Wants(h, r)]
  BY <1>1, <1>8 DEF operation
<1> QED
  BY <1>1, <1>6, <1>9

(* What a write of an operation does to the keys: nothing, or it changes    *)
(* what its key holds, if that is not yet what it is to hold.               *)
LEMMA WriteWorks ==
  ASSUME MapInv, Write
  PROVE  /\ op # Nil /\ op \in Operation
         /\ Working(Room, file', todo', op.key, op.value, held')
         /\ held' = held \/ held[op.key] # op.value
<1>1. op # Nil /\ op \in Operation /\ op.key \in Key
  <2>1. op # Nil /\ op \in Operation \cup {Nil}
    BY DEF MapInv, TypeInv, Write
  <2> QED
    BY <2>1 DEF Operation
<1>2. PICK f, ws, k, v, h : f = file /\ ws = todo /\ k = op.key /\ v = op.value /\ h = held
  OBVIOUS
<1>3. Working(Room, f, ws, k, v, h) /\ ws # <<>> /\ k \in Key
  BY <1>1, <1>2 DEF MapInv, Write
<1>4. Advances(Room, f, ws, k, v, h)
  BY <1>3, WorkAdvances
<1>5. PICK g, i : g = written(f, Head(ws)) /\ i = [h EXCEPT ![k] = db_readdat(g, k)]
  OBVIOUS
<1>6. Working(Room, g, Tail(ws), k, v, i) /\ (i = h \/ h[k] # v)
  BY <1>4, <1>5 DEF Advances
<1>7. g = file' /\ Tail(ws) = todo' /\ i = held'
  BY <1>2, <1>5 DEF Write
<1> QED
  BY <1>1, <1>2, <1>6, <1>7

(* When the process ends the file is clean, if it is never killed while a   *)
(* record is half unlinked.                                                 *)
LEMMA EndsTidy ==
  ASSUME MapInv, UnlinkAtomic, err_quit \/ err_dump \/ Kill
  PROVE  Tidy(file) /\ held = contents(file)
<1>1. CASE op = Nil
  BY <1>1 DEF MapInv
<1>2. CASE op # Nil
  <2>1. PICK f, ws, k, v, h : f = file /\ ws = todo /\ k = op.key /\ v = op.value /\ h = held
    OBVIOUS
  <2>2. Working(Room, f, ws, k, v, h) /\ Small(f)
    BY <1>2, <2>1 DEF MapInv
  <2>3. k \in Key
    <3>1. op \in Operation
      BY <1>2 DEF MapInv, TypeInv
    <3> QED
      BY <2>1, <3>1 DEF Operation
  <2>4. ~(Lingers(f) /\ HasRoom(Head(ws)))
    BY <1>2, <2>1 DEF err_quit, err_dump, Kill, Unlinking, Lingers
  <2>5. ~PutsFree(Room, f, ws, k, v, h) /\ ~Unlinks(Room, f, ws, k, v, h)
    BY <2>2, <2>3, <2>4, HalfDone
  <2> QED
    BY <2>1, <2>2, <2>5, ElseTidy
<1> QED
  BY <1>1, <1>2

(* The invariant holds initially.                                           *)
LEMMA MapInvInit ==
  ASSUME Init
  PROVE  MapInv
BY TypeInvInit, OpenTidy DEF Init, MapInv

(* Every step keeps it.                                                     *)
LEMMA MapInvNext ==
  ASSUME MapInv, [Next]_vars, UnlinkAtomic
  PROVE  MapInv'
<1>0. TypeInv'
  BY TypeInvNext DEF MapInv
<1>1. ASSUME NEW r \in Request, Serve(r) PROVE MapInv'
  <2>1. PICK ws, new, a : /\ ws = getResponse(file, r).writes /\ a = getResponse(file, r).rc
                          /\ new = operation(r.key, a, ws)
    OBVIOUS
  <2>2. op = Nil /\ todo' = ws /\ op' = new /\ last' = r /\ file' = file /\ held' = held
    BY <1>1, <2>1 DEF Serve
  <2>3. /\ Working(Room, file, ws, r.key, new.value, held) /\ new.key = r.key
        /\ new.value = Wants(held, r)
        /\ new = [key |-> r.key, value |-> Wants(held, r), answer |-> a]
    BY <2>1, <2>2, OperationBegins
  <2>4. Settled(r, new.value)
    BY <2>3, WantsSettled
  <2>5. op' # Nil /\ last' # Nil
    <3>1. todo' = getResponse(file, r).writes /\ op' = operation(r.key, a, todo')
      BY <2>1, <2>2
    <3>2. a \in Answers
      BY <2>1, ResponseSafe DEF SafeResponse, MapInv, TypeInv
    <3>3. op' \in Operation
      BY <2>2, <3>1, <3>2, BeginsTyped DEF MapInv
    <3> QED
      BY <2>2, <3>3, NilAssumption
  <2> QED
    BY <1>0, <2>2, <2>3, <2>4, <2>5 DEF MapInv
<1>2. ASSUME Disconnect PROVE MapInv'
  <2>1. PICK r, ws, new : /\ r = last /\ ws = getResponse(file, r).writes
                          /\ new = operation(r.key, Nil, ws)
    OBVIOUS
  <2>2. /\ op = Nil /\ todo' = ws /\ op' = new /\ last' = r /\ file' = file /\ held' = held
        /\ r \in Request
    BY <1>2, <2>1 DEF Disconnect, MapInv, TypeInv
  <2>3. /\ Working(Room, file, ws, r.key, new.value, held) /\ new.key = r.key
        /\ new.value = Wants(held, r)
    BY <2>1, <2>2, OperationBegins
  <2>4. Settled(r, new.value)
    BY <2>2, <2>3, WantsSettled
  <2>5. op' # Nil /\ last' # Nil
    <3>1. todo' = getResponse(file, r).writes /\ op' = operation(r.key, Nil, todo')
      BY <2>1, <2>2
    <3>2. op' \in Operation
      BY <2>2, <3>1, BeginsTyped DEF MapInv, Answers
    <3> QED
      BY <2>2, <3>2, NilAssumption
  <2> QED
    BY <1>0, <2>2, <2>3, <2>4, <2>5 DEF MapInv
<1>3. ASSUME Write PROVE MapInv'
  <2>1. /\ op # Nil /\ Working(Room, file', todo', op.key, op.value, held')
    BY <1>3, WriteWorks
  <2>2. op' = op /\ last' = last
    BY <1>3 DEF Write
  <2>3. Small(file')
    <3>1. PICK f, w, g : f = file /\ w = Head(todo) /\ g = file'
      OBVIOUS
    <3>2. Sound(f) /\ Small(f) /\ Ready(f, w) /\ HasRoom(w) /\ g = written(f, w)
      BY <1>3, <3>1, HeadReady DEF MapInv, TypeInv, Write
    <3> QED
      BY <3>1, <3>2, SmallStep
  <2> QED
    BY <1>0, <2>1, <2>2, <2>3 DEF MapInv
<1>4. ASSUME Return PROVE MapInv'
  <2>1. op # Nil /\ todo = <<>> /\ op \in Operation
    BY <1>4 DEF Return, MapInv, TypeInv
  <2>2. op.key \in Key
    BY <2>1 DEF Operation
  <2>3. Tidy(file) /\ held = contents(file) /\ held[op.key] = op.value
    BY <2>1, <2>2, WorkDone DEF MapInv
  <2>4. op' = Nil /\ held' = contents(file) /\ file' = file /\ last' = last
    BY <1>4 DEF Return
  <2>5. last # Nil /\ op.key = last.key /\ Settled(last, op.value)
    BY <2>1 DEF MapInv
  <2>6. Settled(last', held'[last'.key])
    BY <2>3, <2>4, <2>5
  <2> QED
    BY <1>0, <2>3, <2>4, <2>6 DEF MapInv
<1>5. ASSUME err_quit \/ err_dump \/ Kill PROVE MapInv'
  <2>1. Tidy(file) /\ held = contents(file)
    BY <1>5, EndsTidy
  <2>2. op' = Nil /\ last' = Nil /\ held' = contents(file) /\ file' = file
    BY <1>5 DEF err_quit, err_dump, Kill, Ended
  <2> QED
    BY <1>0, <2>1, <2>2 DEF MapInv
<1>6. CASE UNCHANGED vars
  BY <1>0, <1>6 DEF vars, MapInv
<1> QED
  BY <1>1, <1>2, <1>3, <1>4, <1>5, <1>6 DEF Next

-----------------------------------------------------------------------------
(* Keys with a separator.  The record of such a key is at the front of its  *)
(* chain, so that every search of the chain comes to it first.              *)

Headed(f, j) == f.head[hash[j]] # 0 /\ f.idx[f.head[hash[j]]].key = j

(* A search of a chain with such a record in front ends the process.        *)
LEMMA HeadedDumps ==
  ASSUME NEW f, NEW o, NEW q, Clean(f, o, q), NEW k \in Key, NEW j \in Separated,
         hash[j] = hash[k], Headed(f, j)
  PROVE  FindDumps(f, k)
<1>1. PICK x, m, W, U, c, r :
        /\ x = HashOff(hash[k]) /\ m = f.head[hash[k]] /\ U = Unreadable(f)
        /\ W = withKey(f, k) \cup U /\ c = chain(f, x) /\ r = search(f, x, W)
  OBVIOUS
<1>2. x \in Heads /\ hash[k] \in Bucket /\ Sound(f)
  BY <1>1, SpotFacts DEF Clean
<1>3. m \in 1..Len(f.idx) /\ f.idx[m].key = j /\ db_readptr(f, x) = m
  <2>1. m \in 0..Len(f.idx) /\ Len(f.idx) \in Nat
    BY <1>1, <1>2, FileFields DEF Sound
  <2> QED
    BY <1>1, <2>1, ReadPtr DEF Headed
<1>4. m \in U /\ m \in W
  BY <1>1, <1>3 DEF Unreadable
<1>5. PICK C : Falls(f, x, C, q, c)
  BY <1>1, <1>2, CleanFalls
<1>6. /\ Len(c) \in Nat /\ Len(c) > 0 /\ c[1] = x /\ db_readptr(f, c[Len(c)]) = 0
      /\ \A i \in 1..(Len(c) - 1) : /\ db_readptr(f, c[i]) # 0
                                    /\ c[i + 1] = RecOff(db_readptr(f, c[i]))
  <2>1. /\ Len(c) \in Nat /\ Len(c) > 0 /\ c[1] = x /\ Last(c) = c[Len(c)]
        /\ \A i \in 1..Len(c) : c[i] \in C
        /\ \A i \in 1..(Len(c) - 1) : /\ db_readptr(f, c[i]) # 0
                                      /\ c[i + 1] = RecOff(db_readptr(f, c[i]))
        /\ Ends(f, x) /\ db_readptr(f, c[Len(c)]) = 0
    BY ONLY <1>5, FallsEnds
  <2> QED
    BY ONLY <2>1
<1>7. 2 \in 2..Len(c) /\ c[2] = RecOff(m) /\ c[2][2] = m
  <2>1. Len(c) # 1 /\ m # 0
    BY <1>3, <1>6
  <2>2. 1 \in 1..(Len(c) - 1) /\ 1 + 1 = 2 /\ 2 \in 2..Len(c)
    <3>1. PICK l : l = Len(c)
      OBVIOUS
    <3>2. l \in Nat /\ l > 0 /\ l # 1
      BY <1>6, <2>1, <3>1
    <3>3. 1 \in 1..(l - 1) /\ 1 + 1 = 2 /\ 2 \in 2..l
      BY <3>2
    <3> QED
      BY <3>1, <3>3
  <2>3. c[2] = RecOff(m)
    BY <1>3, <1>6, <2>2
  <2> QED
    BY <2>2, <2>3 DEF RecOff
<1>8. r # Nil
  <2>1. Ranged(f) /\ x \in Locs(f)
    BY <1>2, SoundRanged DEF Locs, Heads
  <2>2. r = Nil => \A i \in 2..Len(c) : c[i][2] \notin W
    BY <1>1, <2>1, SearchFinds
  <2> QED
    BY <1>4, <1>7, <2>2
<1>9. r.offset = m
  <2>1. PICK hits : hits = {i \in 2..Len(c) : c[i][2] \in W}
    OBVIOUS
  <2>2. hits # {} /\ hits \in SUBSET Nat /\ 2 \in hits /\ \A i \in hits : i >= 2
    BY <1>4, <1>6, <1>7, <2>1
  <2>3. Min(hits) \in hits /\ Min(hits) <= 2
    BY <2>2, LeastNumber
  <2>4. PICK a : a = Min(hits)
    OBVIOUS
  <2>5. a = 2
    <3>1. a \in Nat /\ a >= 2 /\ a <= 2
      BY <2>2, <2>3, <2>4
    <3> QED
      BY <3>1
  <2>6. r = [offset |-> c[a][2], ptroff |-> c[a - 1]]
    BY <1>1, <2>1, <2>2, <2>4 DEF search
  <2> QED
    BY <1>7, <2>5, <2>6
<1> QED
  BY <1>1, <1>4, <1>8, <1>9 DEF FindDumps, Dumps

(* In a clean file no other search of a chain does, and no search of the    *)
(* free list.                                                               *)
LEMMA DumpsFound ==
  ASSUME NEW f, NEW o, NEW q, Clean(f, o, q), NEW k \in Key
  PROVE  /\ FindDumps(f, k) => \E j \in Separated : hash[j] = hash[k] /\ db_readdat(f, j) # Nil
         /\ \A d \in Data : ~FindFreeDumps(f, k, d)
<1>1. PICK U : U = Unreadable(f)
  OBVIOUS
<1>2. Separated \subseteq Key /\ Blank \notin Key /\ Nil \notin Data \cup {Blank}
  BY SimpleDBAssumption
<1>3. ASSUME NEW x \in Heads, NEW W, Dumps(f, x, W)
      PROVE  \E n \in Nat : o[RecOff(n)] = x /\ f.idx[n].key \in Separated
  <2>1. PICK V, r : V = W \cup U /\ r = search(f, x, V)
    OBVIOUS
  <2>2. FoundOn(f, o, x, V, r)
    BY <2>1, CleanSearch
  <2>3. r # Nil /\ r.offset \in U
    BY <1>1, <1>3, <2>1 DEF Dumps
  <2>4. r.offset \in Nat /\ o[RecOff(r.offset)] = x
    BY <2>2, <2>3 DEF FoundOn
  <2> QED
    BY <1>1, <2>3, <2>4 DEF Unreadable
<1>4. ASSUME FindDumps(f, k)
      PROVE  \E j \in Separated : hash[j] = hash[k] /\ db_readdat(f, j) # Nil
  <2>1. PICK n \in Nat : o[RecOff(n)] = HashOff(hash[k]) /\ f.idx[n].key \in Separated
    BY <1>3, <1>4, SpotFacts DEF FindDumps
  <2>2. PICK j : j = f.idx[n].key
    OBVIOUS
  <2>3. hash[j] = hash[k] /\ j \in Key
    BY <1>2, <2>1, <2>2, SpotFacts DEF Clean, Keyed
  <2>4. RecordOf(f, o, j, n)
    BY <2>1, <2>2, <2>3 DEF RecordOf
  <2>5. db_readdat(f, j) \in Data \cup {Blank}
    BY <2>3, <2>4, ReadRecord
  <2> QED
    BY <1>2, <2>1, <2>2, <2>3, <2>5
<1>5. ASSUME NEW d \in Data, FindFreeDumps(f, k, d) PROVE FALSE
  <2>1. PICK n \in Nat : o[RecOff(n)] = FREE_OFF /\ f.idx[n].key \in Separated
    BY <1>3, <1>5, SpotFacts DEF FindFreeDumps
  <2> QED
    BY <1>2, <2>1 DEF Clean, Keyed
<1> QED
  BY <1>4, <1>5

(* The write w leaves the front of the chain b alone.                       *)
Apart(f, w, b) ==
    /\ \A n, r : w = db_writeidx(n, r) => n # f.head[b]
    /\ \A p : w # db_writeptr(HashOff(b), p)

HeadKept(f, g, b) ==
    /\ g.head[b] = f.head[b]
    /\ f.head[b] # 0 => g.idx[f.head[b]].key = f.idx[f.head[b]].key

(* Then what is in front of it stays there.                                 *)
LEMMA ApartKeeps ==
  ASSUME NEW f, Sound(f), NEW w, Ready(f, w), NEW b \in Bucket, Apart(f, w, b),
         NEW g, g = written(f, w)
  PROVE  HeadKept(f, g, b)
<1> DEFINE N == Len(f.idx)
           M == Len(f.dat)
<1>w. Wrote(f, w, g) /\ N \in Nat /\ M \in Nat /\ f.head[b] \in 0..N
  BY FileFields DEF Wrote, Sound
<1>0. \A v \in 0..N : v \in Nat
  BY <1>w
<1>1. ASSUME NEW n \in 1..(M + 1), NEW d \in Data \cup {Blank}, w = db_writedat(n, d)
      PROVE  HeadKept(f, g, b)
  BY <1>w, <1>1, WrittenDat DEF HeadKept
<1>2. ASSUME NEW n \in 1..(N + 1), NEW r \in IndexRecord, w = db_writeidx(n, r)
      PROVE  HeadKept(f, g, b)
  <2>1. g.head = f.head /\ \A m \in 1..N : m # n => g.idx[m] = f.idx[m]
    BY <1>w, <1>2, WrittenIdx
  <2>2. n # f.head[b]
    BY <1>2 DEF Apart
  <2> QED
    BY <1>w, <2>1, <2>2 DEF HeadKept
<1>3. ASSUME NEW v \in 0..N, w = db_writeptr(FREE_OFF, v)
      PROVE  HeadKept(f, g, b)
  BY <1>w, <1>0, <1>3, WrittenFree DEF HeadKept
<1>4. ASSUME NEW v \in 0..N, NEW a \in Bucket, w = db_writeptr(HashOff(a), v)
      PROVE  HeadKept(f, g, b)
  <2>1. g.idx = f.idx /\ \A e \in Bucket : e # a => g.head[e] = f.head[e]
    BY <1>w, <1>0, <1>4, WrittenHead
  <2>2. a # b
    BY <1>4 DEF Apart
  <2> QED
    BY <2>1, <2>2 DEF HeadKept
<1>5. ASSUME NEW v \in 0..N, NEW n \in 1..N, w = db_writeptr(RecOff(n), v)
      PROVE  HeadKept(f, g, b)
  <2>1. /\ g.head = f.head /\ g.idx[n].key = f.idx[n].key
        /\ \A m \in 1..N : m # n => g.idx[m] = f.idx[m]
    BY <1>w, <1>0, <1>5, WrittenRec
  <2> QED
    BY <1>w, <2>1 DEF HeadKept
<1>6. CASE InPlace(N, M, w)
  <2>1. 1..M \subseteq 1..(M + 1) /\ 1..N \subseteq 1..(N + 1)
    BY <1>w
  <2>2. (\E n \in 1..M, d \in Data \cup {Blank} : w = db_writedat(n, d)) => HeadKept(f, g, b)
    BY <1>1, <2>1
  <2>3. (\E n \in 1..N, r \in IndexRecord : w = db_writeidx(n, r)) => HeadKept(f, g, b)
    BY <1>2, <2>1
  <2> QED
    BY <1>3, <1>4, <1>5, <1>6, <2>2, <2>3 DEF InPlace
<1>7. CASE \E d \in Data : w = db_writedat(M + 1, d)
  <2>1. M + 1 \in 1..(M + 1)
    BY <1>w
  <2> QED
    BY <1>1, <1>7, <2>1
<1>8. CASE \E r \in IndexRecord : w = db_writeidx(N + 1, r)
  <2>1. N + 1 \in 1..(N + 1)
    BY <1>w
  <2> QED
    BY <1>2, <1>8, <2>1
<1> QED
  BY <1>6, <1>7, <1>8 DEF Ready

(* Writes that leave the front of every chain but x alone.                  *)
LEMMA ApartWrites ==
  ASSUME NEW f, NEW b
  PROVE  /\ \A a, d : Apart(f, db_writedat(a, d), b)
         /\ \A n, r : n # f.head[b] => Apart(f, db_writeidx(n, r), b)
         /\ \A y, p : y # HashOff(b) => Apart(f, db_writeptr(y, p), b)
<1>1. /\ \A a, d, n, r : db_writedat(a, d) # db_writeidx(n, r)
      /\ \A a, d, y, p : db_writedat(a, d) # db_writeptr(y, p)
      /\ \A n, r, y, p : db_writeidx(n, r) # db_writeptr(y, p)
      /\ \A n, r, m, s : db_writeidx(n, r) = db_writeidx(m, s) => n = m
      /\ \A y, p, z, t : db_writeptr(y, p) = db_writeptr(z, t) => y = z
  <2>1. \A a, d : db_writedat(a, d).kind = "dat"
    BY DEF db_writedat
  <2>2. \A n, r : db_writeidx(n, r).kind = "idx" /\ db_writeidx(n, r).at = n
    BY DEF db_writeidx
  <2>3. \A y, p : db_writeptr(y, p).kind = "ptr" /\ db_writeptr(y, p).at = y
    BY DEF db_writeptr
  <2>4. "dat" # "idx" /\ "dat" # "ptr" /\ "idx" # "ptr"
    OBVIOUS
  <2> QED
    BY <2>1, <2>2, <2>3, <2>4
<1> QED
  BY <1>1 DEF Apart

(* What is in front of a chain is on it.                                    *)
LEMMA FrontOn ==
  ASSUME NEW f, NEW o, NEW q, Clean(f, o, q), NEW b \in Bucket
  PROVE  /\ f.head[b] # 0 => o[RecOff(f.head[b])] = HashOff(b)
         /\ \A n \in Nat : n # 0 /\ o[RecOff(n)] # HashOff(b) => n # f.head[b]
         /\ \A y : o[y] # HashOff(b) => y # HashOff(b)
<1>1. HashOff(b) \in Heads /\ HashOff(b) \in Spots /\ Nowhere \notin Heads
  BY SpotFacts
<1>2. o[HashOff(b)] = HashOff(b) /\ HashOff(b) \in On(o)
  BY <1>1 DEF Clean, Marked, On
<1>3. db_readptr(f, HashOff(b)) = f.head[b]
  BY ReadPtr
<1>4. f.head[b] # 0 => o[RecOff(f.head[b])] = HashOff(b)
  BY <1>2, <1>3 DEF Clean, Follows
<1> QED
  BY <1>2, <1>4

(* An operation leaves the front of every chain alone but the one of its    *)
(* key.                                                                     *)
LEMMA WorkApart ==
  ASSUME NEW P, NEW f, NEW ws, NEW k \in Key, NEW v, NEW h, Working(P, f, ws, k, v, h), ws # <<>>,
         NEW b \in Bucket, b # hash[k]
  PROVE  Apart(f, Head(ws), b)
<1>0. HashOff(hash[k]) # HashOff(b) /\ FREE_OFF # HashOff(b) /\ Nowhere # HashOff(b)
      /\ \A n : RecOff(n) # HashOff(b)
  BY PlacesDiffer, SpotFacts DEF Nowhere
<1>1. CASE Overwrites(f, ws, k, v, h)
  <2>1. PICK a : ws = <<db_writedat(a, v)>>
    BY <1>1 DEF Overwrites
  <2> QED
    BY <2>1, ApartWrites
<1>2. CASE Stores(f, ws, k, v, h)
  <2>1. PICK a, s, t : ws = <<db_writedat(a, v), s, t>>
    BY <1>2 DEF Stores
  <2>2. Head(ws) = db_writedat(a, v)
    BY <2>1
  <2> QED
    BY <2>2, ApartWrites
<1>3. CASE Indexes(f, ws, k, v, h)
  <2>1. PICK o, q, n, r, t : New(f, o, q, n, r, k, v) /\ ws = <<db_writeidx(n, r), t>>
    BY <1>3 DEF Indexes
  <2>2. Clean(f, o, q) /\ n \in 1..(Len(f.idx) + 1) /\ o[RecOff(n)] = Nowhere
    BY <2>1 DEF New
  <2>3. n \in Nat /\ n # 0
    BY <2>2, FileFields DEF Clean, Sound
  <2>4. n # f.head[b]
    BY <1>0, <2>2, <2>3, FrontOn
  <2>5. Head(ws) = db_writeidx(n, r)
    BY <2>1
  <2> QED
    BY <2>4, <2>5, ApartWrites
<1>4. CASE Links(f, ws, k, v, h)
  <2>1. PICK n : ws = <<db_writeptr(HashOff(hash[k]), n)>>
    BY <1>4 DEF Links
  <2>2. Head(ws) = db_writeptr(HashOff(hash[k]), n)
    BY <2>1
  <2> QED
    BY <1>0, <2>2, ApartWrites
<1>5. CASE Reuses(f, ws, k, v, h)
  <2>1. PICK o, q, y, p, s, t, u :
          Clean(f, o, q) /\ o[y] = FREE_OFF /\ ws = <<db_writeptr(y, p), s, t, u>>
    BY <1>5 DEF Reuses
  <2>2. y # HashOff(b)
    BY <1>0, <2>1, FrontOn
  <2>3. Head(ws) = db_writeptr(y, p)
    BY <2>1
  <2> QED
    BY <2>2, <2>3, ApartWrites
<1>6. CASE Blanks(P, f, ws, k, v, h)
  <2>1. PICK n, y, t, g, a, s, e, z :
          /\ Follow(t, Fourth(g, n, y), k, v)
          /\ ws = Cons(db_writedat(a, Blank), Cons(s, Cons(e, Cons(z, t))))
    BY <1>6 DEF Blanks
  <2>2. Head(ws) = db_writedat(a, Blank)
    BY <2>1, FollowIsSeq, ConsIs
  <2> QED
    BY <2>2, ApartWrites
<1>7. CASE Frees(P, f, ws, k, v, h)
  <2>1. PICK o, q, n, y, t, s, e, z :
          /\ Doomed(P, f, o, q, n, y, k) /\ Follow(t, Fourth(f, n, y), k, v)
          /\ ws = Cons(db_writeidx(n, s), Cons(e, Cons(z, t)))
    BY <1>7 DEF Frees
  <2>2. Head(ws) = db_writeidx(n, s)
    BY <2>1, FollowIsSeq, ConsIs
  <2>3. Clean(f, o, q) /\ n \in Nat /\ n # 0 /\ o[RecOff(n)] = HashOff(hash[k])
    BY <2>1, DoomedIs
  <2>4. n # f.head[b]
    BY <1>0, <2>3, FrontOn
  <2> QED
    BY <2>2, <2>4, ApartWrites
<1>8. CASE PutsFree(P, f, ws, k, v, h)
  <2>1. PICK g, n, y, t, z :
          /\ Follow(t, Fourth(g, n, y), k, v) /\ ws = Cons(db_writeptr(FREE_OFF, n), Cons(z, t))
    BY <1>8 DEF PutsFree
  <2>2. Head(ws) = db_writeptr(FREE_OFF, n)
    BY <2>1, FollowIsSeq, ConsIs
  <2> QED
    BY <1>0, <2>2, ApartWrites
<1>9. CASE Unlinks(P, f, ws, k, v, h)
  <2>1. PICK g, o, q, n, y, t, p :
          /\ Doomed(P, g, o, q, n, y, k) /\ Follow(t, Fourth(g, n, y), k, v)
          /\ ws = Cons(db_writeptr(y, p), t)
    BY <1>9 DEF Unlinks
  <2>2. Head(ws) = db_writeptr(y, p)
    BY <2>1, FollowIsSeq, ConsIs
  <2>3. Clean(g, o, q) /\ o[y] = HashOff(hash[k])
    BY <2>1, DoomedIs
  <2>4. y # HashOff(b)
    BY <1>0, <2>3, FrontOn
  <2> QED
    BY <2>2, <2>4, ApartWrites
<1> QED
  BY <1>1, <1>2, <1>3, <1>4, <1>5, <1>6, <1>7, <1>8, <1>9 DEF Working, Finished

(* While a key is being stored it holds nothing.                            *)
LEMMA StoringHoldsNot ==
  ASSUME NEW f, NEW ws, NEW k \in Key, NEW v, NEW h, Storing(f, ws, k, v, h), ws # <<>>
  PROVE  h[k] = Nil
<1>1. PICK o, q : Clean(f, o, q) /\ (\A m : ~RecordOf(f, o, k, m)) /\ h = contents(f)
  BY DEF Storing, Finished, Stores, Indexes, Links, Reuses, New
<1>2. db_readdat(f, k) = Nil
  BY <1>1, ReadNothing
<1> QED
  BY <1>1, <1>2 DEF contents

(* When it is stored its record is in front of its chain.                   *)
LEMMA StoredInFront ==
  ASSUME NEW f, NEW ws, NEW k \in Key, NEW v, NEW h, Storing(f, ws, k, v, h), ws # <<>>,
         NEW g, g = written(f, Head(ws)), NEW i, Storing(g, Tail(ws), k, v, i), i[k] # Nil
  PROVE  Headed(g, k)
<1>1. Tail(ws) = <<>>
  BY StoringHoldsNot
<1>2. /\ \A a, b : Tail(<<a, b>>) # <<>>
      /\ \A a, b, c : Tail(<<a, b, c>>) # <<>>
      /\ \A a, b, c, d : Tail(<<a, b, c, d>>) # <<>>
  OBVIOUS
<1>3. ~Stores(f, ws, k, v, h) /\ ~Indexes(f, ws, k, v, h) /\ ~Reuses(f, ws, k, v, h)
  BY <1>1, <1>2 DEF Stores, Indexes, Reuses
<1>4. Links(f, ws, k, v, h)
  BY <1>3 DEF Storing, Finished
<1>5. PICK o, q, n, r :
        /\ New(f, o, q, n, r, k, v) /\ n \in 1..Len(f.idx) /\ f.idx[n] = r
        /\ ws = <<db_writeptr(HashOff(hash[k]), n)>>
  BY <1>4 DEF Links
<1>6. PICK x : x = HashOff(hash[k])
  OBVIOUS
<1>7. g = written(f, db_writeptr(x, n)) /\ r.key = k /\ Sound(f) /\ x \in Locs(f)
  BY <1>5, <1>6, SpotFacts DEF New, Clean, Locs
<1>8. n \in 0..Len(f.idx) /\ n # 0
  BY <1>5, <1>7, FileFields DEF Sound
<1>9. PtrSet(f, x, n, g)
  BY <1>7, <1>8, PtrWritten
<1>10. db_readptr(g, x) = n /\ SameFields(f, g, n)
  BY <1>5, <1>9 DEF PtrSet
<1>11. g.head[hash[k]] = n /\ g.idx[n].key = k
  BY <1>5, <1>6, <1>7, <1>10, ReadPtr DEF SameFields
<1> QED
  BY <1>8, <1>11 DEF Headed

(* In a clean file no deleted record is on a chain.                         *)
LEMMA TidyLeavesNothing ==
  ASSUME NEW f, Tidy(f)
  PROVE  ~Lingers(f)
<1>1. PICK o, q : Clean(f, o, q)
  BY DEF Tidy
<1> SUFFICES ASSUME NEW m \in 1..Len(f.idx), f.idx[m].key = Blank, NEW b \in Bucket,
                    RecOff(m) \in ToSet(chain(f, HashOff(b)))
             PROVE  FALSE
  BY DEF Lingers
<1>2. PICK x, C, c : x = HashOff(b) /\ C = ListOf(o, x) /\ c = chain(f, x)
  OBVIOUS
<1>3. Falls(f, x, C, q, c)
  BY <1>1, <1>2, SpotFacts, CleanFalls
<1>4. \A i \in 1..Len(c) : c[i] \in C
  BY <1>3, FallsEnds
<1>5. c \in Seq(C)
  <2>1. c \in Seq(Locs(f)) /\ Len(c) \in Nat
    <3>1. Sound(f) /\ x \in Locs(f)
      BY <1>1, <1>2 DEF Clean, Locs
    <3>2. Path(f, x, c)
      BY <1>2, <3>1, SoundRanged, ChainIsPath
    <3> QED
      BY <3>2 DEF Path
  <2> QED
    BY <1>4, <2>1
<1>6. RecOff(m) \in C
  BY <1>2, <1>5 DEF ToSet
<1>7. o[RecOff(m)] = HashOff(b) /\ m \in Nat
  BY <1>1, <1>2, <1>6, FileFields DEF ListOf, Clean, Sound
<1>8. f.idx[m].key \in Key
  BY <1>1, <1>7 DEF Clean, Keyed
<1> QED
  BY <1>8, SimpleDBAssumption

(* An operation on a key that holds nothing stores it, or has nothing to do. *)
LEMMA BeginsStoring ==
  ASSUME NEW f, Tidy(f), Small(f), NEW ws, NEW k \in Key, NEW v, NEW h, h = contents(f),
         h[k] = Nil, Working(Room, f, ws, k, v, h)
  PROVE  Storing(f, ws, k, v, h)
<1>1. ~PutsFree(Room, f, ws, k, v, h) /\ ~Unlinks(Room, f, ws, k, v, h)
  BY HalfDone, TidyLeavesNothing
<1>2. ASSUME NEW o, NEW q, NEW n, Clean(f, o, q), RecordOf(f, o, k, n) PROVE FALSE
  <2>1. h[k] \in Data \cup {Blank}
    BY <1>2, ReadRecord DEF contents
  <2> QED
    BY <2>1, SimpleDBAssumption
<1>3. ~Overwrites(f, ws, k, v, h) /\ ~Blanks(Room, f, ws, k, v, h) /\ ~Frees(Room, f, ws, k, v, h)
  BY <1>2 DEF Overwrites, Blanks, Frees, Doomed
<1> QED
  BY <1>1, <1>3 DEF Working, Storing

(* A key with a separator that holds something is in front of its chain; an *)
(* operation that still writes has no such key in its chain; and if its own *)
(* key has a separator it is being stored.                                  *)
FrontInv ==
    /\ \A j \in Separated : held[j] # Nil => Headed(file, j)
    /\ op # Nil /\ todo # <<>> => \A j \in Separated : hash[j] = hash[op.key] => held[j] = Nil
    /\ op # Nil /\ op.key \in Separated => Storing(file, todo, op.key, op.value, held)

(* Between two operations a search of a chain ends the process exactly if a *)
(* key with a separator is stored in it.                                    *)
LEMMA SpoiltDumps ==
  ASSUME MapInv, FrontInv, op = Nil, NEW k \in Key
  PROVE  /\ FindDumps(file, k) <=> Map!Spoilt(k)
         /\ \A d \in Data : ~FindFreeDumps(file, k, d)
<1>1. PICK f, o, q : f = file /\ Clean(f, o, q)
  BY DEF MapInv, Tidy
<1>2. Separated \subseteq Key /\ held = contents(f)
  BY <1>1, SimpleDBAssumption DEF MapInv
<1>3. \A j \in Separated : held[j] = db_readdat(f, j)
  BY <1>2 DEF contents
<1>4. ASSUME FindDumps(f, k) PROVE Map!Spoilt(k)
  BY <1>1, <1>3, <1>4, DumpsFound DEF Map!Spoilt
<1>5. ASSUME Map!Spoilt(k) PROVE FindDumps(f, k)
  <2>1. PICK j \in Separated : hash[j] = hash[k] /\ held[j] # Nil
    BY <1>5 DEF Map!Spoilt
  <2>2. Headed(f, j)
    BY <1>1, <2>1 DEF FrontInv
  <2> QED
    BY <1>1, <2>1, <2>2, HeadedDumps
<1>6. \A d \in Data : ~FindFreeDumps(f, k, d)
  BY <1>1, DumpsFound
<1> QED
  BY <1>1, <1>4, <1>5, <1>6

(* A request that is served has no such key in its chain.                   *)
LEMMA ServedReadable ==
  ASSUME MapInv, FrontInv, op = Nil, NEW r \in Request, ~Dumped(file, r)
  PROVE  ~Map!Spoilt(r.key)
<1>1. r.key \in Key
  BY RequestFields
<1> QED
  BY <1>1, SpoiltDumps DEF Dumped

(* What an operation begins with.                                           *)
LEMMA FrontBegins ==
  ASSUME MapInv, FrontInv, op = Nil, NEW r \in Request, ~Dumped(file, r),
         Working(Room, file, todo', r.key, op'.value, held), op'.key = r.key,
         file' = file, held' = held
  PROVE  FrontInv'
<1>1. r.key \in Key /\ Tidy(file) /\ held = contents(file) /\ Small(file)
  BY RequestFields DEF MapInv
<1>2. \A j \in Separated : hash[j] = hash[r.key] => held[j] = Nil
  BY ServedReadable DEF Map!Spoilt
<1>3. r.key \in Separated => Storing(file, todo', r.key, op'.value, held)
  <2>1. PICK f, ws, k, v, h : f = file /\ ws = todo' /\ k = r.key /\ v = op'.value /\ h = held
    OBVIOUS
  <2>2. k \in Separated => Storing(f, ws, k, v, h)
    BY <1>1, <1>2, <2>1, BeginsStoring
  <2> QED
    BY <2>1, <2>2
<1> QED
  BY <1>2, <1>3 DEF FrontInv

(* Every step keeps the records of such keys in front.                      *)
LEMMA FrontInvNext ==
  ASSUME MapInv, FrontInv, [Next]_vars, UnlinkAtomic
  PROVE  FrontInv'
<1>1. ASSUME NEW r \in Request, Serve(r) PROVE FrontInv'
  <2>1. PICK ws, new, a : /\ ws = getResponse(file, r).writes /\ a = getResponse(file, r).rc
                          /\ new = operation(r.key, a, ws)
    OBVIOUS
  <2>2. op = Nil /\ todo' = ws /\ op' = new /\ file' = file /\ held' = held /\ ~Dumped(file, r)
    BY <1>1, <2>1 DEF Serve
  <2>3. Working(Room, file, ws, r.key, new.value, held) /\ new.key = r.key
    BY <2>1, <2>2, OperationBegins
  <2> QED
    BY <2>2, <2>3, FrontBegins
<1>2. ASSUME Disconnect PROVE FrontInv'
  <2>1. PICK r, ws, new : /\ r = last /\ ws = getResponse(file, r).writes
                          /\ new = operation(r.key, Nil, ws)
    OBVIOUS
  <2>2. /\ op = Nil /\ todo' = ws /\ op' = new /\ file' = file /\ held' = held
        /\ r \in Request /\ ~Dumped(file, r)
    BY <1>2, <2>1 DEF Disconnect, MapInv, TypeInv
  <2>3. Working(Room, file, ws, r.key, new.value, held) /\ new.key = r.key
    BY <2>1, <2>2, OperationBegins
  <2> QED
    BY <2>2, <2>3, FrontBegins
<1>3. ASSUME Write PROVE FrontInv'
  <2>1. PICK f, ws, k, v, h, g, i :
          /\ f = file /\ ws = todo /\ k = op.key /\ v = op.value /\ h = held
          /\ g = written(f, Head(ws)) /\ i = [h EXCEPT ![k] = db_readdat(g, k)]
    OBVIOUS
  <2>2. op # Nil /\ op \in Operation /\ ws # <<>> /\ k \in Key /\ Separated \subseteq Key
    <3>1. op # Nil /\ op \in Operation
      BY <1>3, WriteWorks
    <3> QED
      BY <1>3, <2>1, <3>1, SimpleDBAssumption DEF Write, Operation
  <2>3. /\ Working(Room, f, ws, k, v, h) /\ Sound(f) /\ Ready(f, Head(ws))
        /\ h \in [Key -> Value]
    BY <2>1, <2>2, HeadReady DEF MapInv, TypeInv
  <2>4. file' = g /\ todo' = Tail(ws) /\ op' = op /\ held' = i
    BY <1>3, <2>1 DEF Write
  <2>5. /\ \A j \in Separated : h[j] # Nil => Headed(f, j)
        /\ \A j \in Separated : hash[j] = hash[k] => h[j] = Nil
        /\ k \in Separated => Storing(f, ws, k, v, h)
    BY <2>1, <2>2 DEF FrontInv
  <2>6. k \in Separated => Storing(g, Tail(ws), k, v, i)
    BY <2>1, <2>2, <2>5, StoringAdvances DEF StoreAdvances
  <2>7. \A j \in Key : j # k => i[j] = h[j]
    BY <2>1, <2>3
  <2>8. ASSUME NEW j \in Separated, i[j] # Nil PROVE Headed(g, j)
    <3>1. CASE j = k
      BY <2>1, <2>2, <2>5, <2>6, <2>8, <3>1, StoredInFront
    <3>2. CASE j # k
      <4>1. h[j] # Nil /\ Headed(f, j) /\ hash[j] # hash[k]
        BY <2>2, <2>5, <2>7, <2>8, <3>2
      <4>2. hash[j] \in Bucket
        BY <2>2, SpotFacts
      <4>3. Apart(f, Head(ws), hash[j])
        BY <2>2, <2>3, <4>1, <4>2, WorkApart
      <4>4. HeadKept(f, g, hash[j])
        BY <2>1, <2>3, <4>2, <4>3, ApartKeeps
      <4> QED
        BY <4>1, <4>4 DEF Headed, HeadKept
    <3> QED
      BY <3>1, <3>2
  <2>9. ASSUME NEW j \in Separated, hash[j] = hash[k], Tail(ws) # <<>> PROVE i[j] = Nil
    <3>1. CASE j = k
      BY <2>2, <2>6, <2>9, <3>1, StoringHoldsNot
    <3>2. CASE j # k
      BY <2>2, <2>5, <2>7, <2>9, <3>2
    <3> QED
      BY <3>1, <3>2
  <2> QED
    BY <2>1, <2>4, <2>6, <2>8, <2>9 DEF FrontInv
<1>4. ASSUME Return PROVE FrontInv'
  <2>1. op # Nil /\ todo = <<>> /\ op \in Operation
    BY <1>4 DEF Return, MapInv, TypeInv
  <2>2. op.key \in Key
    BY <2>1 DEF Operation
  <2>3. held = contents(file)
    BY <2>1, <2>2, WorkDone DEF MapInv
  <2> QED
    BY <1>4, <2>3 DEF Return, FrontInv
<1>5. ASSUME err_quit \/ err_dump \/ Kill PROVE FrontInv'
  <2>1. held = contents(file)
    BY <1>5, EndsTidy
  <2> QED
    BY <1>5, <2>1 DEF err_quit, err_dump, Kill, Ended, FrontInv
<1>6. CASE UNCHANGED vars
  BY <1>6 DEF vars, FrontInv
<1> QED
  BY <1>1, <1>2, <1>3, <1>4, <1>5, <1>6 DEF Next

EngineInv == MapInv /\ FrontInv

(* The whole invariant is one.                                              *)
LEMMA EngineInvHolds ==
  /\ Init => EngineInv
  /\ UnlinkAtomic /\ EngineInv /\ [Next]_vars => EngineInv'
<1>1. ASSUME Init PROVE EngineInv
  <2>1. MapInv
    BY <1>1, MapInvInit
  <2>2. op = Nil /\ held = [k \in Key |-> Nil] /\ Separated \subseteq Key
    BY <1>1, OpenTidy, SimpleDBAssumption DEF Init
  <2> QED
    BY <2>1, <2>2 DEF EngineInv, FrontInv
<1>2. ASSUME UnlinkAtomic, EngineInv, [Next]_vars PROVE EngineInv'
  BY <1>2, MapInvNext, FrontInvNext DEF EngineInv
<1> QED
  BY <1>1, <1>2

(* Between two operations every search ends, and as FindEnds says.          *)
LEMMA EngineInvEnds ==
  ASSUME EngineInv
  PROVE  FindEnds
<1>0. MapInv /\ FrontInv
  BY DEF EngineInv
<1>1. ASSUME op = Nil, NEW x \in Heads PROVE Ends(file, x)
  <2>1. PICK f, o, q : f = file /\ Clean(f, o, q)
    BY <1>0, <1>1 DEF MapInv, Tidy
  <2> QED
    BY <2>1, CleanEnds
<1>2. ASSUME op = Nil, NEW k \in Key
      PROVE  /\ FindDumps(file, k) <=> Map!Spoilt(k)
             /\ \A d \in Data : ~FindFreeDumps(file, k, d)
  BY <1>0, <1>2, SpoiltDumps
<1> QED
  BY <1>1, <1>2, SpotFacts DEF FindEnds, FindReturns

(* Between two operations every search of the engine comes to an end,       *)
(* however many keys it holds and however often the process was started     *)
(* again, if it is never killed between the index record and the chain of a *)
(* deletion: every chain leads to a zero.  The end is err_dump exactly if a *)
(* key with a separator is stored in the chain, for every key of the chain  *)
(* and for no other, and never on the free list (_db_find, _db_findfree,    *)
(* _db_readidx).                                                            *)
THEOREM SearchesEnd ==
  UnlinkAtomic => (Spec => []FindEnds)
<1> SUFFICES ASSUME UnlinkAtomic PROVE Spec => []FindEnds
  OBVIOUS
<1>1. Init => EngineInv
  BY EngineInvHolds
<1>2. EngineInv /\ [Next]_vars => EngineInv'
  BY EngineInvHolds
<1>3. EngineInv => FindEnds
  BY EngineInvEnds
<1> QED
  BY <1>1, <1>2, <1>3, PTL DEF Spec

-----------------------------------------------------------------------------
(* The refinement.                                                          *)

(* The requests of the map are those of the server, and it wants and        *)
(* answers what Wants and Says say.                                         *)
LEMMA MapWants ==
  /\ Map!Request = Request
  /\ \A r : Map!Value(r) = Wants(held, r) /\ Map!Answer(r) = Says(held, r)
<1>1. Map!Request = Request
  BY DEF Map!Request, Request, Map!Flag, Flag
<1>2. ASSUME NEW r PROVE Map!Value(r) = Wants(held, r) /\ Map!Answer(r) = Says(held, r)
  BY DEF Map!Value, Map!Answer, Map!Refused, Wants, Says, Refuses
<1> QED
  BY <1>1, <1>2

(* Every step of the engine is a step of the map, or changes nothing of it. *)
LEMMA StepMaps ==
  ASSUME EngineInv, [Next]_vars, UnlinkAtomic
  PROVE  [Map!Next]_(Map!vars)
<1>0. MapInv /\ FrontInv
  BY DEF EngineInv
<1>1. ASSUME NEW r \in Request, Serve(r) PROVE Map!Next
  <2>1. PICK ws, new, a : /\ ws = getResponse(file, r).writes /\ a = getResponse(file, r).rc
                          /\ new = operation(r.key, a, ws)
    OBVIOUS
  <2>2. op = Nil /\ op' = new /\ held' = held /\ ~Dumped(file, r)
    BY <1>1, <2>1 DEF Serve
  <2>3. /\ new = [key |-> r.key, value |-> Wants(held, r), answer |-> a] /\ a = Says(held, r)
    BY <1>0, <2>1, <2>2, OperationBegins
  <2>4. op' = [key |-> r.key, value |-> Map!Value(r), answer |-> Map!Answer(r)]
    BY <2>2, <2>3, MapWants
  <2>5. ~Map!Spoilt(r.key)
    BY <1>0, <2>2, ServedReadable
  <2>6. Map!Begin(r)
    BY <2>2, <2>4, <2>5 DEF Map!Begin
  <2> QED
    BY <2>6, MapWants DEF Map!Next
<1>2. ASSUME Disconnect PROVE Map!Next
  <2>1. PICK r, ws, new : /\ r = last /\ ws = getResponse(file, r).writes
                          /\ new = operation(r.key, Nil, ws)
    OBVIOUS
  <2>2. /\ op = Nil /\ op' = new /\ held' = held /\ r \in Request /\ Settled(r, held[r.key])
        /\ ~Dumped(file, r)
    BY <1>0, <1>2, <2>1 DEF Disconnect, MapInv, TypeInv
  <2>3. new = [key |-> r.key, value |-> Wants(held, r), answer |-> Nil]
    BY <1>0, <2>1, <2>2, OperationBegins
  <2>4. Wants(held, r) = held[r.key] /\ r.key \in Key
    BY <2>2, SettledWants, RequestFields
  <2>5. ~Map!Spoilt(r.key)
    BY <1>0, <2>2, ServedReadable
  <2>6. Map!Disconnect
    BY <2>2, <2>3, <2>4, <2>5 DEF Map!Disconnect
  <2> QED
    BY <2>6 DEF Map!Next
<1>3. ASSUME Write PROVE [Map!Next]_(Map!vars)
  <2>1. op # Nil /\ op \in Operation /\ (held' = held \/ held[op.key] # op.value)
    BY <1>0, <1>3, WriteWorks
  <2>2. op' = op /\ held' = [held EXCEPT ![op.key] = db_readdat(file', op.key)]
    BY <1>3 DEF Write
  <2>3. CASE held' = held
    BY <2>2, <2>3 DEF Map!vars
  <2>4. CASE held[op.key] # op.value
    <3>1. TypeInv'
      BY <1>0, TypeInvNext DEF MapInv
    <3>2. op.key \in Key
      BY <2>1 DEF Operation
    <3>3. db_readdat(file', op.key) \in Data \cup {Blank, Nil}
      BY <3>1, <3>2, ReadDatIs DEF TypeInv, Value
    <3>4. Map!Work
      BY <2>1, <2>2, <2>4, <3>3 DEF Map!Work
    <3> QED
      BY <3>4 DEF Map!Next
  <2> QED
    BY <2>1, <2>3, <2>4
<1>4. ASSUME Return PROVE Map!Next
  <2>1. op # Nil /\ todo = <<>> /\ op \in Operation
    BY <1>0, <1>4 DEF Return, MapInv, TypeInv
  <2>2. op.key \in Key
    BY <2>1 DEF Operation
  <2>3. held = contents(file) /\ held[op.key] = op.value
    BY <1>0, <2>1, <2>2, WorkDone DEF MapInv
  <2>4. Map!Return
    BY <1>4, <2>1, <2>3 DEF Return, Map!Return
  <2> QED
    BY <2>4 DEF Map!Next
<1>5. ASSUME err_quit \/ err_dump \/ Kill PROVE Map!Next
  <2>1. held = contents(file)
    BY <1>0, <1>5, EndsTidy
  <2>2. Map!Crash
    BY <1>5, <2>1 DEF err_quit, err_dump, Kill, Ended, Map!Crash
  <2> QED
    BY <2>2 DEF Map!Next
<1>6. CASE UNCHANGED vars
  BY <1>6 DEF vars, Map!vars
<1> QED
  BY <1>1, <1>2, <1>3, <1>4, <1>5, <1>6 DEF Next

(* The storage engine implements the map of CrashMap, for any keys, data,   *)
(* hash function and PTR_MAX: with kills at any moment but between the      *)
(* index record and the chain of a deletion, an operation does to its key   *)
(* what its flag says and answers so, no other key changes, a killed        *)
(* operation leaves only its own key in doubt, a client that hangs up       *)
(* changes nothing, and once a key with a separator is stored every request *)
(* for a key of its hash ends the process and none is served (db_store,     *)
(* db_delete, db_fetch, handleRequests).                                    *)
THEOREM EngineImplementsMap ==
  UnlinkAtomic => (Spec => ImplementsMap)
<1> SUFFICES ASSUME UnlinkAtomic PROVE Spec => ImplementsMap
  OBVIOUS
<1>1. Init => EngineInv /\ Map!Init
  BY EngineInvHolds, OpenTidy DEF Init, Map!Init
<1>2. EngineInv /\ [Next]_vars => EngineInv'
  BY EngineInvHolds
<1>3. EngineInv /\ [Next]_vars => [Map!Next]_(Map!vars)
  BY StepMaps
<1> QED
  BY <1>1, <1>2, <1>3, PTL DEF Spec, ImplementsMap, Map!Spec

=============================================================================
