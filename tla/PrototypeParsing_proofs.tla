------------------------ MODULE PrototypeParsing_proofs ------------------------
(***************************************************************************)
(* parse_step cuts the requests of a peer out of the bytes it is given and *)
(* answers each of them, whatever the segments the bytes arrive in.        *)
(*                                                                         *)
(* What a recursive function computes is found by induction over the sets  *)
(* of numbers for which it is defined, and right.                          *)
(***************************************************************************)
EXTENDS PrototypeParsing, WellFoundedInduction, NaturalsInduction,
        SequenceTheorems, TLAPS

-----------------------------------------------------------------------------
(* Numbers.                                                                *)

(* A set of natural numbers that is not empty has a least member.          *)
LEMMA LeastNat ==
  ASSUME NEW T \in SUBSET Nat, T # {}
  PROVE  \E n \in T : \A m \in T : n <= m
<1> DEFINE R == OpToRel(<, Nat)
<1>1. IsWellFoundedOn(R, Nat)
  BY NatLessThanWellFounded, Zenon
<1> HIDE DEF R
<1>2. PICK n \in T : \A m \in T : << m, n >> \notin R
  BY <1>1, WFMin, Zenon
<1>3. \A m \in T : ~ (m < n)
  BY <1>2 DEF R, OpToRel
<1> QED  BY <1>3

(* Induction, over a set.                                                  *)
LEMMA Induction ==
  ASSUME NEW S, 0 \in S, \A n \in Nat : n \in S => n + 1 \in S
  PROVE  \A n \in Nat : n \in S
<1> DEFINE T == { n \in Nat : n \notin S }
<1>1. SUFFICES ASSUME T # {}
               PROVE  FALSE
  OBVIOUS
<1>2. PICK n \in T : \A m \in T : n <= m
  BY <1>1, LeastNat
<1>3. n # 0 /\ n - 1 \in Nat /\ n - 1 \notin T
  BY <1>2
<1>4. n \in S
  BY <1>3
<1> QED  BY <1>4

(* A set of numbers up to n that is not empty has a greatest member.       *)
LEMMA GreatestNat ==
  ASSUME NEW n \in Nat, NEW T \in SUBSET (1 .. n), T # {}
  PROVE  \E i \in T : \A j \in T : j <= i
<1> DEFINE U == { n - i : i \in T }
<1>1. U \in SUBSET Nat /\ U # {}
  <2>1. \A i \in T : n - i \in Nat
    OBVIOUS
  <2>2. \A u \in U : u \in Nat
    BY <2>1
  <2>3. \E i : i \in T
    OBVIOUS
  <2> QED  BY <2>2, <2>3
<1>2. PICK u \in U : \A v \in U : u <= v
  BY <1>1, LeastNat
<1>3. PICK i \in T : u = n - i
  OBVIOUS
<1>4. ASSUME NEW j \in T
      PROVE  j <= i
  <2>1. u <= n - j
    BY <1>2
  <2> QED  BY <1>3, <2>1
<1> QED  BY <1>4

-----------------------------------------------------------------------------
(* Sequences.                                                              *)

(* A concatenation, member by member.                                      *)
LEMMA Concat ==
  ASSUME NEW S, NEW a \in Seq(S), NEW b \in Seq(S)
  PROVE  /\ a \o b \in Seq(S)
         /\ Len(a) \in Nat /\ Len(b) \in Nat /\ Len(a \o b) = Len(a) + Len(b)
         /\ \A i \in 1 .. Len(a) : (a \o b)[i] = a[i]
         /\ \A i \in 1 .. Len(b) : (a \o b)[Len(a) + i] = b[i]
OBVIOUS

(* What follows the first k members of a sequence.                         *)
LEMMA Suffix ==
  ASSUME NEW S, NEW a \in Seq(S), NEW k \in 0 .. Len(a)
  PROVE  /\ SubSeq(a, k + 1, Len(a)) \in Seq(S)
         /\ Len(SubSeq(a, k + 1, Len(a))) = Len(a) - k
         /\ \A i \in 1 .. Len(a) - k : SubSeq(a, k + 1, Len(a))[i] = a[k + i]
OBVIOUS

(* The first k members of a sequence.                                      *)
LEMMA Prefix ==
  ASSUME NEW S, NEW a \in Seq(S), NEW k \in 0 .. Len(a)
  PROVE  /\ SubSeq(a, 1, k) \in Seq(S)
         /\ Len(SubSeq(a, 1, k)) = k
         /\ \A i \in 1 .. k : SubSeq(a, 1, k)[i] = a[i]
OBVIOUS

(* Sequences with the same members are the same.                           *)
LEMMA SameSeq ==
  ASSUME NEW S, NEW a \in Seq(S), NEW b \in Seq(S), Len(a) = Len(b),
         \A i \in 1 .. Len(a) : a[i] = b[i]
  PROVE  a = b
OBVIOUS

-----------------------------------------------------------------------------
(* Header lines.                                                           *)

(* find_hdr_end finds the first end of headers.                            *)
LEMMA HdrEnd ==
  ASSUME NEW acc \in Seq(Byte)
  PROVE  /\ find_hdr_end(acc) \in 0 .. Len(acc)
         /\ find_hdr_end(acc) = 0 <=> \A i \in 1 .. Len(acc) : acc[i] # BLANK
         /\ find_hdr_end(acc) # 0 => /\ acc[find_hdr_end(acc)] = BLANK
                                     /\ \A i \in 1 .. find_hdr_end(acc) - 1 : acc[i] # BLANK
<1> DEFINE ends == { i \in 1 .. Len(acc) : acc[i] = BLANK }
           e == find_hdr_end(acc)
<1>1. e = IF ends = {} THEN 0 ELSE CHOOSE i \in ends : \A j \in ends : i <= j
  BY DEF find_hdr_end
<1>2. CASE ends = {}
  BY <1>1, <1>2
<1>3. CASE ends # {}
  <2>1. ends \in SUBSET Nat
    OBVIOUS
  <2>2. \E i \in ends : \A j \in ends : i <= j
    BY <1>3, <2>1, LeastNat
  <2>3. e \in ends /\ \A j \in ends : e <= j
    <3> HIDE DEF ends, e
    <3> QED  BY <1>1, <1>3, <2>2
  <2> HIDE DEF e
  <2>4. e \in 1 .. Len(acc) /\ acc[e] = BLANK
    BY <2>3
  <2>5. ASSUME NEW i \in 1 .. e - 1
        PROVE  acc[i] # BLANK
    <3>1. i \in 1 .. Len(acc) /\ ~ e <= i
      BY <2>4
    <3> QED  BY <2>3, <3>1
  <2> QED  BY <2>4, <2>5 DEF e
<1> QED  BY <1>2, <1>3

(* The value that counts is that of the last line of a name.               *)
LEMMA LastValueFacts ==
  ASSUME NEW lines \in Seq(Byte), NEW name, NEW none
  PROVE  \/ /\ LastValue(lines, name, none) = none
            /\ \A i \in 1 .. Len(lines) : lines[i][1] # name
         \/ \E i \in 1 .. Len(lines) :
              IsLast(lines, name, i) /\ LastValue(lines, name, none) = lines[i][2]
<1> DEFINE at == { i \in 1 .. Len(lines) : lines[i][1] = name }
           v == LastValue(lines, name, none)
           m == CHOOSE i \in at : \A j \in at : j <= i
<1>1. v = IF at = {} THEN none ELSE lines[m][2]
  BY DEF LastValue
<1>2. CASE at = {}
  BY <1>1, <1>2
<1>3. CASE at # {}
  <2>1. Len(lines) \in Nat /\ at \in SUBSET (1 .. Len(lines))
    OBVIOUS
  <2>2. \E i \in at : \A j \in at : j <= i
    BY <1>3, <2>1, GreatestNat
  <2>3. m \in at /\ \A j \in at : j <= m
    <3> HIDE DEF at
    <3> QED  BY <2>2
  <2> HIDE DEF m, v
  <2>4. m \in 1 .. Len(lines) /\ lines[m][1] = name /\ v = lines[m][2]
    BY <1>1, <1>3, <2>3
  <2>5. ASSUME NEW j \in m + 1 .. Len(lines)
        PROVE  lines[j][1] # name
    <3>1. j \in 1 .. Len(lines) /\ ~ j <= m
      BY <2>4
    <3> QED  BY <2>3, <3>1
  <2> QED  BY <2>4, <2>5 DEF IsLast, v
<1> QED  BY <1>2, <1>3

(* What the headers say.                                                   *)
LEMMA ScanTyped ==
  ASSUME NEW lines \in Seq(Byte)
  PROVE  scan_headers(lines).keep \in BOOLEAN /\ scan_headers(lines).clen \in Nat
<1>1. \A i \in 1 .. Len(lines) : lines[i][2] \in Nat
  BY DEF Byte
<1>2. LastValue(lines, "length", 0) \in Nat
  BY <1>1, LastValueFacts
<1> QED  BY <1>2 DEF scan_headers

-----------------------------------------------------------------------------
(* The inner loop of parse_step, written with names for its parts.         *)

Headers(p) == scan_headers(SubSeq(p.acc, 1, find_hdr_end(p.acc) - 1))

Size(p) == find_hdr_end(p.acc) + Headers(p).clen

(* No complete request is at the front of acc.                             *)
Incomplete == { p \in Parser : find_hdr_end(p.acc) = 0 \/ Len(p.acc) < Size(p) }

(* What is left then,                                                      *)
Left(p) ==
  IF find_hdr_end(p.acc) = 0 THEN p ELSE [ p EXCEPT !.keep_alive = Headers(p).keep ]

(* and what is left when the first request has been answered.              *)
Further(p, served) == Answer(p, served, Headers(p).keep, Size(p))

(* Header values are typed.                                                *)
LEMMA HeadersTyped ==
  ASSUME NEW p \in Parser, find_hdr_end(p.acc) # 0
  PROVE  /\ Headers(p).keep \in BOOLEAN /\ Headers(p).clen \in Nat
         /\ Size(p) \in Nat /\ Size(p) > 0
<1> DEFINE e == find_hdr_end(p.acc)
<1>1. p.acc \in Seq(Byte)
  BY DEF Parser
<1>2. e \in 1 .. Len(p.acc)
  BY <1>1, HdrEnd
<1>3. e - 1 \in 0 .. Len(p.acc)
  BY <1>2
<1> HIDE DEF e
<1>4. SubSeq(p.acc, 1, e - 1) \in Seq(Byte)
  BY <1>1, <1>3, Prefix
<1>5. Headers(p).keep \in BOOLEAN /\ Headers(p).clen \in Nat
  BY <1>4, ScanTyped DEF Headers, e
<1>6. Size(p) = e + Headers(p).clen
  BY DEF Size, e
<1> QED  BY <1>2, <1>5, <1>6

(* The literals of a response are buffers.                                 *)
LEMMA ResponseTyped ==
  ASSUME NEW keep
  PROVE  /\ Hdr(keep) \in OwnedBuf(Literals) /\ Hello \in OwnedBuf(Literals)
         /\ << Hdr(keep), Hello >> \in Seq(OwnedBuf(Literals))
         /\ Len(<< Hdr(keep), Hello >>) = 2
<1>1. Hdr(keep) \in OwnedBuf(Literals) /\ Hello \in OwnedBuf(Literals)
  BY DEF Hdr, Hello, OwnedBuf, Literals
<1> QED  BY <1>1

(* What an incomplete request leaves.                                      *)
LEMMA LeftTyped ==
  ASSUME NEW p \in Parser
  PROVE  /\ Left(p) \in Parser
         /\ Left(p).acc = p.acc /\ Left(p).txq = p.txq
<1>1. CASE find_hdr_end(p.acc) = 0
  BY <1>1 DEF Left
<1>2. CASE find_hdr_end(p.acc) # 0
  <2>1. Headers(p).keep \in BOOLEAN
    BY <1>2, HeadersTyped
  <2> QED  BY <1>2, <2>1 DEF Left, Parser
<1> QED  BY <1>1, <1>2

(* A complete request leaves less.                                         *)
LEMMA FurtherTyped ==
  ASSUME NEW p \in Parser, p \notin Incomplete, NEW served
  PROVE  /\ Further(p, served) \in Parser
         /\ Size(p) \in 1 .. Len(p.acc) /\ Headers(p).keep \in BOOLEAN
         /\ Further(p, served).acc = SubSeq(p.acc, Size(p) + 1, Len(p.acc))
         /\ Len(Further(p, served).acc) = Len(p.acc) - Size(p)
         /\ Further(p, served).keep_alive = Headers(p).keep
         /\ Further(p, served).txq
              = p.txq \o << Hdr(KeepConn(served, Headers(p).keep)), Hello >>
<1> DEFINE q == Further(p, served)
           two == << Hdr(KeepConn(served, Headers(p).keep)), Hello >>
           rest == SubSeq(p.acc, Size(p) + 1, Len(p.acc))
<1>1. find_hdr_end(p.acc) # 0 /\ ~ Len(p.acc) < Size(p)
  BY DEF Incomplete
<1>2. /\ Headers(p).keep \in BOOLEAN /\ Size(p) \in Nat /\ Size(p) > 0
      /\ p.acc \in Seq(Byte) /\ p.txq \in Seq(OwnedBuf(Literals))
  BY <1>1, HeadersTyped DEF Parser
<1>3. Size(p) \in 1 .. Len(p.acc) /\ Size(p) \in 0 .. Len(p.acc)
  BY <1>1, <1>2
<1>4. rest \in Seq(Byte) /\ Len(rest) = Len(p.acc) - Size(p)
  BY <1>2, <1>3, Suffix
<1>5. two \in Seq(OwnedBuf(Literals))
  BY ResponseTyped
<1>6. q = [ acc |-> rest, keep_alive |-> Headers(p).keep, txq |-> p.txq \o two ]
  BY DEF Further, Answer
<1> HIDE DEF rest, two
<1>7. p.txq \o two \in Seq(OwnedBuf(Literals))
  BY <1>2, <1>5, Concat
<1>8. q \in Parser
  BY <1>2, <1>4, <1>6, <1>7 DEF Parser
<1>9. q.acc = rest /\ q.keep_alive = Headers(p).keep /\ q.txq = p.txq \o two
  BY <1>6
<1> HIDE DEF q
<1> QED  BY <1>2, <1>3, <1>4, <1>8, <1>9 DEF q, rest, two

-----------------------------------------------------------------------------
(* The loop computes something: a function that does what its body says.   *)

Short(n) == { p \in Parser : Len(p.acc) <= n }

(* f is what the loop computes on the parsers of P.                        *)
Loops(f, P, served) ==
  \A p \in P : f[p] = IF p \in Incomplete THEN Left(p) ELSE f[Further(p, served)]

(* Parsers with little in acc go on with less.                             *)
LEMMA ShortFurther ==
  ASSUME NEW n \in Nat, NEW p \in Short(n + 1), p \notin Incomplete, NEW served
  PROVE  Further(p, served) \in Short(n)
<1>1. p \in Parser /\ Len(p.acc) <= n + 1
  BY DEF Short
<1>2. /\ Further(p, served) \in Parser /\ Size(p) \in 1 .. Len(p.acc)
      /\ Len(Further(p, served).acc) = Len(p.acc) - Size(p)
  BY <1>1, FurtherTyped
<1>3. Len(p.acc) \in Nat
  BY <1>1 DEF Parser
<1> QED  BY <1>1, <1>2, <1>3 DEF Short

(* A parser with nothing in acc is done.                                   *)
LEMMA ShortDone ==
  ASSUME NEW p \in Short(0)
  PROVE  p \in Incomplete
<1>1. p \in Parser /\ Len(p.acc) <= 0 /\ p.acc \in Seq(Byte)
  BY DEF Short, Parser
<1>2. find_hdr_end(p.acc) = 0
  BY <1>1, HdrEnd
<1> QED  BY <1>1, <1>2 DEF Incomplete

(* Such a function exists for parsers with little in acc,                  *)
LEMMA ShortLoopExists ==
  ASSUME NEW served
  PROVE  \A n \in Nat : \E f \in [ Short(n) -> Parser ] : Loops(f, Short(n), served)
<1> DEFINE S == { n \in Nat : \E f \in [ Short(n) -> Parser ] : Loops(f, Short(n), served) }
<1>1. 0 \in S
  <2> DEFINE f == [ p \in Short(0) |-> Left(p) ]
  <2>1. \A p \in Short(0) : p \in Parser
    BY DEF Short
  <2>2. f \in [ Short(0) -> Parser ]
    BY <2>1, LeftTyped
  <2>3. Loops(f, Short(0), served)
    BY ShortDone DEF Loops
  <2> HIDE DEF f
  <2> QED  BY <2>2, <2>3
<1>2. ASSUME NEW n \in Nat, n \in S
      PROVE  n + 1 \in S
  <2>1. PICK f \in [ Short(n) -> Parser ] : Loops(f, Short(n), served)
    BY <1>2
  <2> DEFINE g == [ p \in Short(n + 1) |->
                      IF p \in Incomplete THEN Left(p) ELSE f[Further(p, served)] ]
  <2>2. ASSUME NEW p \in Short(n + 1)
        PROVE  /\ g[p] \in Parser
               /\ p \in Short(n) => g[p] = f[p]
    <3>1. p \in Parser
      BY DEF Short
    <3>2. CASE p \in Incomplete
      BY <2>1, <3>1, <3>2, LeftTyped DEF Loops
    <3>3. CASE p \notin Incomplete
      <4>1. Further(p, served) \in Short(n)
        BY <3>3, ShortFurther
      <4> QED  BY <2>1, <3>3, <4>1 DEF Loops
    <3> QED  BY <3>2, <3>3
  <2>3. ASSUME NEW p \in Short(n + 1)
        PROVE  g[p] = IF p \in Incomplete THEN Left(p) ELSE g[Further(p, served)]
    <3>1. CASE p \in Incomplete
      BY <3>1
    <3>2. CASE p \notin Incomplete
      <4> DEFINE q == Further(p, served)
      <4>1. q \in Short(n)
        BY <3>2, ShortFurther
      <4>2. Short(n) \subseteq Short(n + 1)
        <5>1. \A r \in Parser : Len(r.acc) \in Nat
          BY DEF Parser
        <5> QED  BY <5>1 DEF Short
      <4>3. q \in Short(n + 1)
        BY <4>1, <4>2
      <4>4. g[q] = f[q]
        <5> HIDE DEF q, g
        <5> QED  BY <2>2, <4>1, <4>3
      <4> QED  BY <3>2, <4>4
    <3> QED  BY <3>1, <3>2
  <2>4. g \in [ Short(n + 1) -> Parser ]
    BY <2>2
  <2>5. Loops(g, Short(n + 1), served)
    <3> HIDE DEF g
    <3> QED  BY <2>3 DEF Loops
  <2> HIDE DEF g
  <2> QED  BY <2>4, <2>5
<1> HIDE DEF S
<1>3. \A n \in Nat : n \in S
  BY <1>1, <1>2, Induction
<1> QED  BY <1>3 DEF S

(* and only one,                                                           *)
LEMMA ShortLoopUnique ==
  ASSUME NEW served, NEW m \in Nat, NEW n \in Nat, NEW f, NEW g,
         Loops(f, Short(m), served), Loops(g, Short(n), served)
  PROVE  \A p \in Short(m) \cap Short(n) : f[p] = g[p]
<1> DEFINE S == { l \in Nat : \A p \in Short(l) : p \in Short(m) \cap Short(n) => f[p] = g[p] }
<1>0. \A p \in Parser : Len(p.acc) \in Nat
  BY DEF Parser
<1>1. 0 \in S
  <2>1. ASSUME NEW p \in Short(0), p \in Short(m), p \in Short(n)
        PROVE  f[p] = g[p]
    <3>1. p \in Incomplete
      BY ShortDone
    <3> QED  BY <2>1, <3>1 DEF Loops
  <2> QED  BY <2>1
<1>2. ASSUME NEW l \in Nat, l \in S
      PROVE  l + 1 \in S
  <2>1. ASSUME NEW p \in Short(l + 1), p \in Short(m), p \in Short(n)
        PROVE  f[p] = g[p]
    <3>1. CASE p \in Incomplete
      BY <2>1, <3>1 DEF Loops
    <3>2. CASE p \notin Incomplete
      <4> DEFINE q == Further(p, served)
      <4>1. q \in Short(l)
        BY <3>2, ShortFurther
      <4>2. q \in Short(m) /\ q \in Short(n)
        <5>1. p \in Parser /\ Len(p.acc) <= m /\ Len(p.acc) <= n
          BY <2>1 DEF Short
        <5>2. /\ q \in Parser /\ Size(p) \in 1 .. Len(p.acc)
              /\ Len(q.acc) = Len(p.acc) - Size(p)
          BY <3>2, <5>1, FurtherTyped
        <5> HIDE DEF q
        <5> QED  BY <1>0, <5>1, <5>2 DEF Short
      <4>3. f[p] = f[q] /\ g[p] = g[q]
        BY <2>1, <3>2 DEF Loops
      <4> HIDE DEF q
      <4>4. f[q] = g[q]
        BY <1>2, <4>1, <4>2
      <4> QED  BY <4>3, <4>4
    <3> QED  BY <3>1, <3>2
  <2> QED  BY <2>1
<1> HIDE DEF S
<1>3. \A l \in Nat : l \in S
  BY <1>1, <1>2, Induction
<1>4. ASSUME NEW p \in Short(m), p \in Short(n)
      PROVE  f[p] = g[p]
  <2>1. p \in Short(m) /\ m \in S
    BY <1>3
  <2> QED  BY <1>4, <2>1 DEF S
<1> QED  BY <1>4

(* for all parsers: each belongs to those with as much in acc as it has.   *)
LEMMA LoopExists ==
  ASSUME NEW served
  PROVE  \E f \in [ Parser -> Parser ] : Loops(f, Parser, served)
<1>0. \A p \in Parser : Len(p.acc) \in Nat /\ p \in Short(Len(p.acc))
  BY DEF Parser, Short
<1> DEFINE G(n) == CHOOSE g \in [ Short(n) -> Parser ] : Loops(g, Short(n), served)
           f == [ p \in Parser |-> G(Len(p.acc))[p] ]
<1>1. ASSUME NEW n \in Nat
      PROVE  G(n) \in [ Short(n) -> Parser ] /\ Loops(G(n), Short(n), served)
  <2>1. \E g \in [ Short(n) -> Parser ] : Loops(g, Short(n), served)
    BY ShortLoopExists
  <2> QED  BY <2>1
<1>2. \A p \in Parser : f[p] = G(Len(p.acc))[p]
  OBVIOUS
<1> HIDE DEF G
<1>3. ASSUME NEW p \in Parser
      PROVE  f[p] \in Parser
  BY <1>0, <1>1
<1>4. ASSUME NEW p \in Parser
      PROVE  f[p] = IF p \in Incomplete THEN Left(p) ELSE f[Further(p, served)]
  <2> DEFINE n == Len(p.acc)
             q == Further(p, served)
             m == Len(q.acc)
             g == G(n)
             h == G(m)
  <2>1. n \in Nat /\ p \in Short(n) /\ Loops(g, Short(n), served) /\ f[p] = g[p]
    BY <1>0, <1>1, <1>2
  <2>2. CASE p \in Incomplete
    BY <2>1, <2>2 DEF Loops
  <2>3. CASE p \notin Incomplete
    <3>1. /\ q \in Parser /\ Size(p) \in 1 .. Len(p.acc) /\ m = n - Size(p)
      BY <2>3, FurtherTyped
    <3>2. m \in Nat /\ q \in Short(m) /\ Loops(h, Short(m), served) /\ f[q] = h[q]
      <4> HIDE DEF q
      <4> QED  BY <1>0, <1>1, <1>2, <3>1
    <3>3. q \in Short(n)
      <4> HIDE DEF q, n, m
      <4>1. m <= n
        BY <2>1, <3>1, <3>2 DEF n
      <4> QED  BY <3>1, <4>1 DEF Short, m
    <3>4. g[p] = g[q]
      BY <2>1, <2>3 DEF Loops
    <3> HIDE DEF q, n, m, g, h, f
    <3>5. g[q] = h[q]
      BY <2>1, <3>2, <3>3, ShortLoopUnique
    <3>6. f[p] = f[q]
      BY <2>1, <3>2, <3>4, <3>5
    <3> QED  BY <2>3, <3>6 DEF q
  <2> QED  BY <2>2, <2>3
<1>5. f \in [ Parser -> Parser ]
  BY <1>3
<1>6. Loops(f, Parser, served)
  <2> HIDE DEF f
  <2> QED  BY <1>4 DEF Loops
<1> HIDE DEF f
<1> QED  BY <1>5, <1>6

(* parse_step is what the loop computes of the bytes at hand.              *)
LEMMA ParseStep ==
  ASSUME NEW c, NEW bytes
  PROVE  \E f : /\ Loops(f, Parser, c.served)
                /\ parse_step(c, bytes) = With(c, f[ParserOf(c, bytes)])
<1> DEFINE body(f, p) ==
             LET e == find_hdr_end(p.acc)
                 h == scan_headers(SubSeq(p.acc, 1, e - 1))
             IN  IF e = 0 THEN p
                 ELSE IF Len(p.acc) < e + h.clen THEN [ p EXCEPT !.keep_alive = h.keep ]
                 ELSE f[Answer(p, c.served, h.keep, e + h.clen)]
           F == CHOOSE f : f = [ p \in Parser |-> body(f, p) ]
<1>1. parse_step(c, bytes) = With(c, F[ParserOf(c, bytes)])
  BY DEF parse_step
<1>2. ASSUME NEW f, NEW p \in Parser
      PROVE  body(f, p) = IF p \in Incomplete THEN Left(p) ELSE f[Further(p, c.served)]
  BY DEF Incomplete, Left, Further, Size, Headers
<1> HIDE DEF body
<1>3. \E f : f = [ p \in Parser |-> body(f, p) ]
  <2>1. PICK f \in [ Parser -> Parser ] : Loops(f, Parser, c.served)
    BY LoopExists
  <2>2. \A p \in Parser : f[p] = body(f, p)
    BY <1>2, <2>1 DEF Loops
  <2>3. f = [ p \in Parser |-> body(f, p) ]
    BY <2>1, <2>2
  <2> QED  BY <2>3
<1>4. F = [ p \in Parser |-> body(F, p) ]
  BY <1>3
<1> HIDE DEF F
<1>5. \A p \in Parser : F[p] = body(F, p)
  BY <1>4
<1>6. Loops(F, Parser, c.served)
  BY <1>2, <1>5 DEF Loops
<1> QED  BY <1>1, <1>6

(* It keeps the types: whatever the bytes are.                             *)
LEMMA ParseTyped ==
  ASSUME NEW c, NEW bytes, ParserOf(c, bytes) \in Parser
  PROVE  \E q \in Parser : parse_step(c, bytes) = With(c, q)
<1>1. PICK f : /\ Loops(f, Parser, c.served)
               /\ parse_step(c, bytes) = With(c, f[ParserOf(c, bytes)])
  BY ParseStep
<1> DEFINE S == { n \in Nat : \A p \in Short(n) : f[p] \in Parser }
<1>2. 0 \in S
  <2>1. ASSUME NEW p \in Short(0)
        PROVE  f[p] \in Parser
    <3>1. p \in Parser /\ p \in Incomplete
      BY ShortDone DEF Short
    <3>2. f[p] = Left(p)
      BY <1>1, <3>1 DEF Loops
    <3> QED  BY <3>1, <3>2, LeftTyped
  <2> QED  BY <2>1
<1>3. ASSUME NEW n \in Nat, n \in S
      PROVE  n + 1 \in S
  <2>1. ASSUME NEW p \in Short(n + 1)
        PROVE  f[p] \in Parser
    <3>1. p \in Parser
      BY DEF Short
    <3>2. CASE p \in Incomplete
      <4>1. f[p] = Left(p)
        BY <1>1, <3>1, <3>2 DEF Loops
      <4> QED  BY <3>1, <4>1, LeftTyped
    <3>3. CASE p \notin Incomplete
      <4>1. f[p] = f[Further(p, c.served)]
        BY <1>1, <3>1, <3>3 DEF Loops
      <4>2. Further(p, c.served) \in Short(n)
        BY <3>3, ShortFurther
      <4> QED  BY <1>3, <4>1, <4>2
    <3> QED  BY <3>2, <3>3
  <2> QED  BY <2>1
<1> HIDE DEF S
<1>4. \A n \in Nat : n \in S
  BY <1>2, <1>3, Induction
<1> DEFINE p == ParserOf(c, bytes)
<1>5. p \in Parser
  OBVIOUS
<1> HIDE DEF p
<1>6. Len(p.acc) \in Nat /\ p \in Short(Len(p.acc))
  BY <1>5 DEF Parser, Short
<1>7. f[p] \in Parser
  BY <1>4, <1>6 DEF S
<1> QED  BY <1>1, <1>7 DEF p

-----------------------------------------------------------------------------
(* What a peer sends.                                                      *)

(* A request on the wire: its lines, the end of its headers, its body.     *)
LEMMA WireFacts ==
  ASSUME NEW r \in Requests
  PROVE  /\ r.lines \in Seq(Byte) /\ r.body \in Seq(Byte) /\ r.keep \in BOOLEAN
         /\ Wire(r) \in Seq(Byte)
         /\ Len(Wire(r)) = Len(r.lines) + 1 + Len(r.body)
         /\ \A i \in 1 .. Len(r.lines) : Wire(r)[i] = r.lines[i]
         /\ Wire(r)[Len(r.lines) + 1] = BLANK
<1>1. r.lines \in Seq(Byte) /\ r.body \in Seq(Byte) /\ r.keep \in BOOLEAN
  BY DEF Requests
<1>2. << BLANK >> \in Seq(Byte)
  BY DEF BLANK, Byte
<1> DEFINE b == << BLANK >>
<1>3. Len(b) = 1 /\ b[1] = BLANK
  OBVIOUS
<1>4. Wire(r) = r.lines \o b \o r.body
  BY DEF Wire
<1> DEFINE a == r.lines
           d == r.body
           t == a \o b
           w == t \o d
<1>5. a \in Seq(Byte) /\ b \in Seq(Byte) /\ d \in Seq(Byte)
  BY <1>1, <1>2
<1>6. /\ t \in Seq(Byte) /\ Len(a) \in Nat /\ Len(t) = Len(a) + Len(b)
      /\ \A i \in 1 .. Len(a) : t[i] = a[i]
      /\ \A i \in 1 .. Len(b) : t[Len(a) + i] = b[i]
  <2> HIDE DEF a, b
  <2> QED  BY <1>5, Concat
<1>8. /\ w \in Seq(Byte) /\ Len(d) \in Nat /\ Len(w) = Len(t) + Len(d)
      /\ \A i \in 1 .. Len(t) : w[i] = t[i]
  <2>1. t \in Seq(Byte) /\ d \in Seq(Byte)
    BY <1>5, <1>6
  <2> HIDE DEF t, d
  <2> QED  BY <2>1, Concat
<1>9. Wire(r) = w
  BY <1>4
<1> HIDE DEF w, t, b
<1>10. Len(t) = Len(a) + 1 /\ t[Len(a) + 1] = BLANK /\ \A i \in 1 .. Len(a) : t[i] = a[i]
  BY <1>3, <1>6
<1>11. /\ Len(w) = Len(a) + 1 + Len(d) /\ w[Len(a) + 1] = BLANK
       /\ \A i \in 1 .. Len(a) : w[i] = a[i]
  <2> HIDE DEF a, d
  <2> QED  BY <1>6, <1>8, <1>10
<1> QED  BY <1>1, <1>8, <1>9, <1>11

(* The function that Wires chooses exists, as far as it is defined.        *)
LEMMA WiresExist ==
  ASSUME NEW R \in Seq(Requests), NEW n \in Nat
  PROVE  n <= Len(R) =>
           \E f \in [ 0 .. n -> Seq(Byte) ] :
             \A i \in 0 .. n : f[i] = IF i = 0 THEN <<>> ELSE f[i - 1] \o Wire(R[i])
<1> DEFINE Eq(f, m) ==
             \A i \in 0 .. m : f[i] = IF i = 0 THEN <<>> ELSE f[i - 1] \o Wire(R[i])
           S == { m \in Nat : m <= Len(R) => \E f \in [ 0 .. m -> Seq(Byte) ] : Eq(f, m) }
<1>1. 0 \in S
  <2> DEFINE f == [ i \in 0 .. 0 |-> <<>> ]
  <2>1. <<>> \in Seq(Byte)
    OBVIOUS
  <2>2. f \in [ 0 .. 0 -> Seq(Byte) ]
    BY <2>1
  <2>3. 0 \in 0 .. 0 /\ \A i \in 0 .. 0 : i = 0
    OBVIOUS
  <2>5. f[0] = <<>>
    BY <2>3
  <2> HIDE DEF f
  <2>4. Eq(f, 0)
    BY <2>3, <2>5
  <2> HIDE DEF Eq
  <2> QED  BY <2>2, <2>4
<1>2. ASSUME NEW m \in Nat, m \in S
      PROVE  m + 1 \in S
  <2>1. SUFFICES ASSUME m + 1 <= Len(R)
                 PROVE  \E g \in [ 0 .. m + 1 -> Seq(Byte) ] : Eq(g, m + 1)
    <3> HIDE DEF Eq
    <3> QED  OBVIOUS
  <2>2. PICK f \in [ 0 .. m -> Seq(Byte) ] : Eq(f, m)
    <3>1. m <= Len(R)
      BY <2>1
    <3> HIDE DEF Eq
    <3> QED  BY <1>2, <3>1
  <2> DEFINE w == Wire(R[m + 1])
             g == [ i \in 0 .. m + 1 |-> IF i = m + 1 THEN f[m] \o w ELSE f[i] ]
  <2>3. w \in Seq(Byte)
    <3>1. R[m + 1] \in Requests
      BY <2>1
    <3> QED  BY <3>1, WireFacts
  <2>4. f[m] \o w \in Seq(Byte)
    <3>1. f[m] \in Seq(Byte)
      OBVIOUS
    <3> HIDE DEF w
    <3> QED  BY <2>3, <3>1
  <2>5. g \in [ 0 .. m + 1 -> Seq(Byte) ]
    <3>1. \A i \in 0 .. m + 1 : i # m + 1 => i \in 0 .. m
      OBVIOUS
    <3> HIDE DEF w
    <3> QED  BY <2>4, <3>1
  <2>6. ASSUME NEW i \in 0 .. m + 1
        PROVE  g[i] = IF i = 0 THEN <<>> ELSE g[i - 1] \o Wire(R[i])
    <3>1. CASE i = m + 1
      <4>1. i # 0 /\ i - 1 = m /\ m # m + 1 /\ m \in 0 .. m + 1
        BY <3>1
      <4>2. g[m] = f[m]
        BY <4>1
      <4>3. g[i] = f[m] \o Wire(R[i])
        BY <3>1
      <4> HIDE DEF g
      <4> QED  BY <4>1, <4>2, <4>3
    <3>2. CASE i # m + 1
      <4>1. i \in 0 .. m
        BY <3>2
      <4>2. f[i] = IF i = 0 THEN <<>> ELSE f[i - 1] \o Wire(R[i])
        BY <2>2, <4>1
      <4>3. g[i] = f[i] /\ (i # 0 => g[i - 1] = f[i - 1])
        BY <3>2, <4>1
      <4> HIDE DEF g
      <4> QED  BY <4>2, <4>3
    <3> QED  BY <3>1, <3>2
  <2> HIDE DEF g
  <2>7. Eq(g, m + 1)
    BY <2>6
  <2> HIDE DEF Eq
  <2> QED  BY <2>5, <2>7
<1> HIDE DEF S
<1>3. n \in S
  BY <1>1, <1>2, Induction
<1> QED  BY <1>3 DEF S

(* The bytes of the first requests of a stream.                            *)
LEMMA WiresFacts ==
  ASSUME NEW R \in Seq(Requests)
  PROVE  /\ Wires(R)[0] = <<>>
         /\ \A n \in 0 .. Len(R) : Wires(R)[n] \in Seq(Byte)
         /\ \A n \in 1 .. Len(R) : Wires(R)[n] = Wires(R)[n - 1] \o Wire(R[n])
<1> DEFINE body(f, i) == IF i = 0 THEN <<>> ELSE f[i - 1] \o Wire(R[i])
           N == 0 .. Len(R)
           F == CHOOSE f : f = [ i \in N |-> body(f, i) ]
<1>1. Len(R) \in Nat
  OBVIOUS
<1>2. Wires(R) = F
  BY DEF Wires
<1>3. PICK f \in [ N -> Seq(Byte) ] :
        \A i \in N : f[i] = IF i = 0 THEN <<>> ELSE f[i - 1] \o Wire(R[i])
  BY <1>1, WiresExist
<1>4. f = [ i \in N |-> body(f, i) ]
  BY <1>3
<1> HIDE DEF body
<1>5. F = [ i \in N |-> body(F, i) ]
  BY <1>4
<1> HIDE DEF F
<1>6. \A i \in N : F[i] = IF i = 0 THEN <<>> ELSE F[i - 1] \o Wire(R[i])
  <2>1. \A i \in N : F[i] = body(F, i)
    BY <1>5
  <2> QED  BY <2>1 DEF body
<1>7. 0 \in N /\ \A n \in 1 .. Len(R) : n \in N /\ n # 0
  BY <1>1
<1> DEFINE S == { n \in Nat : n \in N => F[n] \in Seq(Byte) }
<1>8. 0 \in S
  <2>1. F[0] = <<>>
    BY <1>6, <1>7
  <2>2. <<>> \in Seq(Byte)
    OBVIOUS
  <2> QED  BY <2>1, <2>2
<1>9. ASSUME NEW n \in Nat, n \in S
      PROVE  n + 1 \in S
  <2>1. SUFFICES ASSUME n + 1 \in N
                 PROVE  F[n + 1] \in Seq(Byte)
    OBVIOUS
  <2>2. n \in N /\ n + 1 # 0 /\ (n + 1) - 1 = n /\ R[n + 1] \in Requests
    BY <1>1, <2>1
  <2>3. F[n + 1] = F[n] \o Wire(R[n + 1])
    BY <1>6, <2>1, <2>2
  <2>4. F[n] \in Seq(Byte) /\ Wire(R[n + 1]) \in Seq(Byte)
    BY <1>9, <2>2, WireFacts
  <2>5. F[n] \o Wire(R[n + 1]) \in Seq(Byte)
    BY <2>4, Concat
  <2> QED  BY <2>3, <2>5
<1> HIDE DEF S
<1>10. \A n \in Nat : n \in S
  BY <1>8, <1>9, Induction
<1>11. \A n \in N : F[n] \in Seq(Byte)
  BY <1>10 DEF S
<1> QED  BY <1>2, <1>6, <1>7, <1>11

(* Where the requests of a stream end.                                     *)
LEMMA EndOfFacts ==
  ASSUME NEW R \in Seq(Requests)
  PROVE  /\ EndOf(R, 0) = 0
         /\ \A n \in 0 .. Len(R) : EndOf(R, n) \in Nat
         /\ \A n \in 1 .. Len(R) : /\ EndOf(R, n) = EndOf(R, n - 1) + Len(Wire(R[n]))
                                   /\ Len(Wire(R[n])) \in Nat \ {0}
<1>1. /\ Wires(R)[0] = <<>>
      /\ \A n \in 0 .. Len(R) : Wires(R)[n] \in Seq(Byte)
      /\ \A n \in 1 .. Len(R) : Wires(R)[n] = Wires(R)[n - 1] \o Wire(R[n])
  BY WiresFacts
<1>2. EndOf(R, 0) = 0 /\ \A n \in 0 .. Len(R) : EndOf(R, n) \in Nat
  BY <1>1 DEF EndOf
<1>3. ASSUME NEW n \in 1 .. Len(R)
      PROVE  /\ EndOf(R, n) = EndOf(R, n - 1) + Len(Wire(R[n]))
             /\ Len(Wire(R[n])) \in Nat \ {0}
  <2>1. R[n] \in Requests /\ n - 1 \in 0 .. Len(R)
    OBVIOUS
  <2>2. /\ Wire(R[n]) \in Seq(Byte) /\ R[n].lines \in Seq(Byte) /\ R[n].body \in Seq(Byte)
        /\ Len(Wire(R[n])) = Len(R[n].lines) + 1 + Len(R[n].body)
    BY <2>1, WireFacts
  <2> DEFINE w == Wire(R[n])
             v == Wires(R)[n - 1]
             k == Len(R[n].lines)
             l == Len(R[n].body)
  <2>3. Len(w) \in Nat \ {0}
    <3>1. k \in Nat /\ l \in Nat /\ Len(w) = k + 1 + l
      BY <2>2
    <3> HIDE DEF k, l, w
    <3> QED  BY <3>1
  <2>4. Wires(R)[n - 1] \in Seq(Byte) /\ Wires(R)[n] = Wires(R)[n - 1] \o Wire(R[n])
    BY <1>1, <2>1
  <2>5. w \in Seq(Byte) /\ v \in Seq(Byte)
    BY <2>2, <2>4
  <2>6. Len(v \o w) = Len(v) + Len(w)
    <3> HIDE DEF v, w
    <3> QED  BY <2>5, Concat
  <2>7. EndOf(R, n) = Len(v \o w) /\ EndOf(R, n - 1) = Len(v)
    BY <2>4 DEF EndOf
  <2> QED  BY <2>3, <2>6, <2>7
<1> QED  BY <1>2, <1>3

(* The requests of a stream end one after the other.                       *)
LEMMA EndsInOrder ==
  ASSUME NEW R \in Seq(Requests), NEW m \in 0 .. Len(R), NEW n \in 0 .. Len(R), m < n
  PROVE  EndOf(R, m) < EndOf(R, n)
<1> DEFINE S == { d \in Nat : m + d <= Len(R) => IF d = 0 THEN TRUE ELSE EndOf(R, m) < EndOf(R, m + d) }
<1>1. 0 \in S
  OBVIOUS
<1>2. ASSUME NEW d \in Nat, d \in S
      PROVE  d + 1 \in S
  <2>1. SUFFICES ASSUME m + (d + 1) <= Len(R)
                 PROVE  EndOf(R, m) < EndOf(R, m + (d + 1))
    OBVIOUS
  <2> DEFINE l == m + (d + 1)
  <2>2. l \in 1 .. Len(R) /\ l - 1 = m + d /\ m + d \in 0 .. Len(R)
    BY <2>1
  <2>3. /\ EndOf(R, l) = EndOf(R, l - 1) + Len(Wire(R[l])) /\ Len(Wire(R[l])) \in Nat \ {0}
        /\ EndOf(R, m + d) \in Nat /\ EndOf(R, m) \in Nat
    BY <2>2, EndOfFacts
  <2>4. EndOf(R, m) <= EndOf(R, m + d)
    <3>1. CASE d = 0
      BY <2>3, <3>1
    <3>2. CASE d # 0
      BY <1>2, <2>2, <2>3, <3>2
    <3> QED  BY <3>1, <3>2
  <2>5. EndOf(R, l) = EndOf(R, m + d) + Len(Wire(R[l]))
    BY <2>2, <2>3
  <2> HIDE DEF l
  <2> QED  BY <2>3, <2>4, <2>5 DEF l
<1> HIDE DEF S
<1>3. \A d \in Nat : d \in S
  BY <1>1, <1>2, Induction
<1>4. n - m \in Nat /\ n - m # 0 /\ m + (n - m) = n
  OBVIOUS
<1>5. n - m \in S
  BY <1>3, <1>4
<1> QED  BY <1>4, <1>5 DEF S

(* The bytes of a stream begin with those of its first requests.           *)
LEMMA WiresPrefix ==
  ASSUME NEW R \in Seq(Requests), NEW m \in 0 .. Len(R)
  PROVE  /\ Bytes(R) \in Seq(Byte) /\ Len(Bytes(R)) = EndOf(R, Len(R))
         /\ EndOf(R, m) <= Len(Bytes(R))
         /\ \A i \in 1 .. EndOf(R, m) : Bytes(R)[i] = Wires(R)[m][i]
<1> DEFINE W == Wires(R)
           Agree(d) == m + d <= Len(R) =>
                         /\ EndOf(R, m) <= EndOf(R, m + d)
                         /\ \A i \in 1 .. EndOf(R, m) : W[m + d][i] = W[m][i]
           S == { d \in Nat : Agree(d) }
<1>0. Len(R) \in Nat /\ m \in Nat /\ m <= Len(R)
  OBVIOUS
<1>1. 0 \in S
  <2>1. EndOf(R, m) \in Nat /\ m + 0 = m
    BY EndOfFacts
  <2>2. Agree(0)
    BY <2>1
  <2> HIDE DEF Agree
  <2> QED  BY <2>2
<1>2. ASSUME NEW d \in Nat, d \in S
      PROVE  d + 1 \in S
  <2>1. ASSUME m + (d + 1) <= Len(R)
        PROVE  /\ EndOf(R, m) <= EndOf(R, m + (d + 1))
               /\ \A i \in 1 .. EndOf(R, m) : W[m + (d + 1)][i] = W[m][i]
    <3> DEFINE l == m + (d + 1)
               k == m + d
    <3>1. l \in 1 .. Len(R) /\ l - 1 = k /\ k \in 0 .. Len(R) /\ k <= Len(R)
      BY <1>0, <2>1
    <3>2. /\ EndOf(R, m) <= EndOf(R, k)
          /\ \A i \in 1 .. EndOf(R, m) : W[k][i] = W[m][i]
      BY <1>2, <3>1
    <3> HIDE DEF l, k, W
    <3>3. R[l] \in Requests
      BY <3>1
    <3>4. W[k] \in Seq(Byte) /\ Wire(R[l]) \in Seq(Byte) /\ W[l] = W[k] \o Wire(R[l])
      BY <3>1, <3>3, WiresFacts, WireFacts DEF W
    <3> DEFINE w == Wire(R[l])
               v == W[k]
    <3>5. w \in Seq(Byte) /\ v \in Seq(Byte) /\ W[l] = v \o w
      BY <3>4
    <3> HIDE DEF w, v
    <3>6. /\ Len(v) \in Nat /\ Len(w) \in Nat /\ Len(W[l]) = Len(v) + Len(w)
          /\ \A i \in 1 .. Len(v) : W[l][i] = v[i]
      BY <3>5, Concat
    <3>7. EndOf(R, k) = Len(v) /\ EndOf(R, l) = Len(W[l])
      BY DEF EndOf, W, v
    <3>8. EndOf(R, m) \in Nat
      BY EndOfFacts
    <3>9. EndOf(R, m) <= EndOf(R, l)
      BY <3>2, <3>6, <3>7, <3>8
    <3>10. ASSUME NEW i \in 1 .. EndOf(R, m)
           PROVE  W[l][i] = W[m][i]
      <4>1. i \in 1 .. Len(v)
        BY <3>2, <3>6, <3>7, <3>8
      <4>2. W[k][i] = W[m][i]
        BY <3>2
      <4> QED  BY <3>6, <4>1, <4>2 DEF v
    <3> QED  BY <3>9, <3>10 DEF l
  <2>2. Agree(d + 1)
    BY <2>1
  <2> HIDE DEF Agree
  <2> QED  BY <2>2
<1> HIDE DEF S
<1>3. \A d \in Nat : d \in S
  BY <1>1, <1>2, Induction, Zenon
<1>4. PICK d \in Nat : m + d = Len(R)
  <2>1. Len(R) - m \in Nat /\ m + (Len(R) - m) = Len(R)
    BY <1>0
  <2> QED  BY <2>1
<1>5. /\ EndOf(R, m) <= EndOf(R, Len(R))
      /\ \A i \in 1 .. EndOf(R, m) : W[Len(R)][i] = W[m][i]
  <2>1. Agree(d)
    BY <1>3 DEF S
  <2> QED  BY <1>4, <2>1
<1>6. Bytes(R) = W[Len(R)] /\ EndOf(R, Len(R)) = Len(W[Len(R)])
  BY DEF Bytes, EndOf
<1>7. W[Len(R)] \in Seq(Byte)
  <2>1. Len(R) \in 0 .. Len(R)
    BY <1>0
  <2> QED  BY <2>1, WiresFacts
<1> HIDE DEF W
<1> QED  BY <1>5, <1>6, <1>7 DEF W

(* Each request is on the wire where the one before it ends.               *)
LEMMA RequestBytes ==
  ASSUME NEW R \in Seq(Requests), NEW m \in 1 .. Len(R)
  PROVE  /\ EndOf(R, m - 1) \in Nat
         /\ EndOf(R, m) = EndOf(R, m - 1) + Len(Wire(R[m]))
         /\ EndOf(R, m) <= Len(Bytes(R))
         /\ \A i \in 1 .. Len(Wire(R[m])) :
              Bytes(R)[EndOf(R, m - 1) + i] = Wire(R[m])[i]
<1>1. m \in 0 .. Len(R) /\ m - 1 \in 0 .. Len(R) /\ R[m] \in Requests
  OBVIOUS
<1> DEFINE v == Wires(R)[m - 1]
           w == Wire(R[m])
           e == EndOf(R, m - 1)
           g == EndOf(R, m)
<1>2. v \in Seq(Byte) /\ w \in Seq(Byte) /\ Wires(R)[m] = v \o w
  BY <1>1, WiresFacts, WireFacts
<1>3. e = Len(v) /\ e \in Nat /\ g = e + Len(w)
  BY <1>1, EndOfFacts DEF EndOf
<1>4. g <= Len(Bytes(R)) /\ \A i \in 1 .. g : Bytes(R)[i] = Wires(R)[m][i]
  BY <1>1, WiresPrefix
<1> HIDE DEF v, w, e, g
<1>5. /\ Len(w) \in Nat
      /\ \A i \in 1 .. Len(w) : (v \o w)[Len(v) + i] = w[i]
  BY <1>2, Concat
<1>6. ASSUME NEW i \in 1 .. Len(w)
      PROVE  Bytes(R)[e + i] = w[i]
  <2>1. e + i \in 1 .. g
    BY <1>3, <1>5
  <2>2. Bytes(R)[e + i] = Wires(R)[m][e + i]
    BY <1>4, <2>1
  <2>3. (v \o w)[e + i] = w[i]
    BY <1>3, <1>5
  <2> QED  BY <1>2, <2>2, <2>3
<1> QED  BY <1>3, <1>4, <1>6 DEF w, e, g

-----------------------------------------------------------------------------
(* What the loop makes of the requests of a peer.                          *)

(* The first line of a name that has none of that name after it is the     *)
(* only one.                                                               *)
LEMMA OneIsLast ==
  ASSUME NEW lines \in Seq(Byte), NEW name, NEW i \in 1 .. Len(lines),
         NEW j \in 1 .. Len(lines), IsLast(lines, name, i), IsLast(lines, name, j)
  PROVE  i = j
<1>1. ~ i < j
  <2>1. i < j => j \in i + 1 .. Len(lines)
    OBVIOUS
  <2> QED  BY <2>1 DEF IsLast
<1>2. ~ j < i
  <2>1. j < i => i \in j + 1 .. Len(lines)
    OBVIOUS
  <2> QED  BY <2>1 DEF IsLast
<1> QED  BY <1>1, <1>2

(* The headers of a request say what the peer means.                       *)
LEMMA ScanRequest ==
  ASSUME NEW r \in Requests
  PROVE  /\ scan_headers(r.lines).keep <=> r.keep
         /\ scan_headers(r.lines).clen = Len(r.body)
<1> DEFINE lines == r.lines
           at == 1 .. Len(lines)
           k == LastValue(lines, "connection", 1)
           l == LastValue(lines, "length", 0)
<1>1. /\ lines \in Seq(Byte)
      /\ \A i \in at : IsLast(lines, "length", i) => lines[i][2] = Len(r.body)
      /\ (\A i \in at : lines[i][1] # "length") => r.body = <<>>
      /\ r.keep <=> \A i \in at : IsLast(lines, "connection", i) => lines[i][2] # 0
  BY DEF Requests
<1>2. scan_headers(lines).keep <=> k # 0
  BY DEF scan_headers
<1>3. scan_headers(lines).clen = l
  BY DEF scan_headers
<1>4. l = Len(r.body)
  <2>1. \/ l = 0 /\ \A i \in at : lines[i][1] # "length"
        \/ \E i \in at : IsLast(lines, "length", i) /\ l = lines[i][2]
    <3> HIDE DEF lines
    <3> QED  BY <1>1, LastValueFacts
  <2>2. Len(<<>>) = 0
    OBVIOUS
  <2> HIDE DEF l, lines
  <2> QED  BY <1>1, <2>1, <2>2
<1>5. k # 0 <=> r.keep
  <2>1. \/ k = 1 /\ \A i \in at : lines[i][1] # "connection"
        \/ \E i \in at : IsLast(lines, "connection", i) /\ k = lines[i][2]
    <3> HIDE DEF lines
    <3> QED  BY <1>1, LastValueFacts
  <2> HIDE DEF k, lines
  <2>2. CASE k = 1 /\ \A i \in at : lines[i][1] # "connection"
    BY <1>1, <2>2 DEF IsLast
  <2>3. CASE \E i \in at : IsLast(lines, "connection", i) /\ k = lines[i][2]
    <3>1. PICK i \in at : IsLast(lines, "connection", i) /\ k = lines[i][2]
      BY <2>3
    <3>2. \A j \in at : IsLast(lines, "connection", j) => j = i
      BY <1>1, <3>1, OneIsLast
    <3> QED  BY <1>1, <3>1, <3>2
  <2> QED  BY <2>1, <2>2, <2>3
<1> HIDE DEF k, l
<1> QED  BY <1>2, <1>3, <1>4, <1>5

(* acc holds the bytes of the stream R that follow its first m requests,   *)
(* up to the n-th byte.                                                    *)
Holds(R, m, n, acc) ==
  /\ acc \in Seq(Byte)
  /\ Len(acc) = n - EndOf(R, m)
  /\ \A i \in 1 .. Len(acc) : acc[i] = Bytes(R)[EndOf(R, m) + i]

(* One pass of the loop sees whether the next request is complete, how long*)
(* it is, and what it asks for.                                            *)
LEMMA OnePass ==
  ASSUME NEW R \in Seq(Requests), NEW m \in 0 .. Len(R), m # Len(R), NEW n \in Nat,
         NEW p \in Parser, Holds(R, m, n, p.acc)
  PROVE  /\ EndOf(R, m + 1) <= n =>
              /\ p \notin Incomplete
              /\ Headers(p).keep <=> R[m + 1].keep
              /\ EndOf(R, m) + Size(p) = EndOf(R, m + 1)
         /\ ~ EndOf(R, m + 1) <= n => p \in Incomplete
<1> DEFINE r == R[m + 1]
           w == Wire(r)
           e == EndOf(R, m)
           g == EndOf(R, m + 1)
           acc == p.acc
           l == Len(r.lines)
           b == Len(r.body)
           f == find_hdr_end(acc)
<1>1. m + 1 \in 1 .. Len(R) /\ r \in Requests /\ (m + 1) - 1 = m
  OBVIOUS
<1>2. /\ r.lines \in Seq(Byte) /\ r.body \in Seq(Byte)
      /\ l \in Nat /\ b \in Nat /\ Len(w) = l + 1 + b
      /\ \A i \in 1 .. l : w[i] = r.lines[i] /\ r.lines[i] # BLANK
      /\ w[l + 1] = BLANK
  <2>1. \A i \in 1 .. l : r.lines[i] # BLANK
    BY <1>1 DEF Requests
  <2>2. /\ r.lines \in Seq(Byte) /\ r.body \in Seq(Byte)
        /\ Len(w) = l + 1 + b /\ w[l + 1] = BLANK
        /\ \A i \in 1 .. l : w[i] = r.lines[i]
    <3> HIDE DEF r
    <3> QED  BY <1>1, WireFacts
  <2>3. l \in Nat /\ b \in Nat
    <3> HIDE DEF r
    <3> QED  BY <2>2
  <2> HIDE DEF w, l, b
  <2> QED  BY <2>1, <2>2, <2>3
<1>3. /\ e \in Nat /\ g = e + Len(w)
      /\ \A i \in 1 .. Len(w) : Bytes(R)[e + i] = w[i]
  BY <1>1, RequestBytes
<1>4. /\ acc \in Seq(Byte) /\ Len(acc) \in Nat /\ Len(acc) = n - e
      /\ \A i \in 1 .. Len(acc) : acc[i] = Bytes(R)[e + i]
  BY DEF Holds, Parser
<1>5. /\ f \in 0 .. Len(acc)
      /\ f = 0 <=> \A i \in 1 .. Len(acc) : acc[i] # BLANK
      /\ f # 0 => acc[f] = BLANK /\ \A i \in 1 .. f - 1 : acc[i] # BLANK
  <2> HIDE DEF acc
  <2> QED  BY <1>4, HdrEnd
<1>6. (Headers(p).keep <=> scan_headers(SubSeq(acc, 1, f - 1)).keep)
      /\ Size(p) = f + scan_headers(SubSeq(acc, 1, f - 1)).clen
      /\ (p \in Incomplete <=> f = 0 \/ Len(acc) < Size(p))
  BY DEF Headers, Size, Incomplete
<1>7. scan_headers(r.lines).keep <=> r.keep
  BY <1>1, ScanRequest
<1>8. scan_headers(r.lines).clen = b
  BY <1>1, ScanRequest
<1> HIDE DEF r, w, e, g, acc, l, b, f
<1>9. CASE Len(acc) <= l
  <2>1. ASSUME NEW i \in 1 .. Len(acc)
        PROVE  acc[i] # BLANK
    <3>1. i \in 1 .. Len(w) /\ i \in 1 .. l
      BY <1>2, <1>4, <1>9
    <3> QED  BY <1>2, <1>3, <1>4, <3>1
  <2>2. f = 0 /\ ~ g <= n
    BY <1>2, <1>3, <1>4, <1>5, <1>9, <2>1
  <2> QED  BY <1>6, <2>2 DEF g
<1>10. CASE l + 1 <= Len(acc)
  <2>1. ASSUME NEW i \in 1 .. l + 1
        PROVE  acc[i] = w[i]
    <3>1. i \in 1 .. Len(w) /\ i \in 1 .. Len(acc)
      BY <1>2, <1>4, <1>10
    <3> QED  BY <1>3, <1>4, <3>1
  <2>2. l + 1 \in 1 .. l + 1 /\ l + 1 \in 1 .. Len(acc)
    BY <1>2, <1>4, <1>10
  <2>3. acc[l + 1] = BLANK
    BY <1>2, <2>1, <2>2
  <2>4. f # 0 /\ acc[f] = BLANK /\ \A i \in 1 .. f - 1 : acc[i] # BLANK
    BY <1>5, <2>2, <2>3
  <2>5. f = l + 1
    <3>1. ~ f <= l
      <4>1. f <= l => f \in 1 .. l /\ f \in 1 .. l + 1
        BY <1>2, <1>4, <1>5, <2>4
      <4> QED  BY <1>2, <2>1, <2>4, <4>1
    <3>2. ~ l + 1 < f
      <4>1. l + 1 < f => l + 1 \in 1 .. f - 1
        BY <1>2, <1>4, <1>5
      <4> QED  BY <2>3, <2>4, <4>1
    <3> QED  BY <1>2, <1>4, <1>5, <3>1, <3>2
  <2>6. SubSeq(acc, 1, l) = r.lines
    <3> DEFINE s == SubSeq(acc, 1, l)
               t == r.lines
    <3>1. l \in 0 .. Len(acc)
      BY <1>2, <1>4, <1>10
    <3>2. s \in Seq(Byte) /\ Len(s) = l /\ \A i \in 1 .. l : s[i] = acc[i]
      BY <1>4, <3>1, Prefix
    <3>3. t \in Seq(Byte) /\ Len(t) = l
      BY <1>2 DEF l
    <3>4. ASSUME NEW i \in 1 .. l
          PROVE  s[i] = t[i]
      <4>1. i \in 1 .. l + 1
        BY <1>2
      <4> HIDE DEF s
      <4> QED  BY <1>2, <2>1, <3>2, <4>1
    <3> HIDE DEF s, t
    <3>5. s = t
      BY <3>2, <3>3, <3>4, SameSeq
    <3> QED  BY <3>5 DEF s, t
  <2>7. f - 1 = l
    BY <1>2, <2>5
  <2>8. (Headers(p).keep <=> r.keep) /\ Size(p) = f + b
    BY <1>6, <1>7, <1>8, <2>6, <2>7
  <2>9. Size(p) = Len(w)
    BY <1>2, <2>5, <2>8
  <2>10. f # 0 /\ (p \in Incomplete <=> Len(acc) < Len(w))
    BY <1>6, <2>4, <2>9
  <2>11. Len(acc) < Len(w) <=> ~ g <= n
    <3> DEFINE x == Len(acc)
               y == Len(w)
    <3>1. x \in Nat /\ x = n - e /\ y \in Nat /\ g = e + y /\ e \in Nat
      BY <1>2, <1>3, <1>4
    <3> HIDE DEF x, y
    <3>2. x < y <=> ~ g <= n
      BY <3>1
    <3> QED  BY <3>2 DEF x, y
  <2> QED  BY <1>3, <2>8, <2>9, <2>10, <2>11 DEF e, g, r
<1> QED  BY <1>2, <1>4, <1>9, <1>10

(* With no request to come, none is complete, and keep_alive stays.        *)
LEMMA NoPass ==
  ASSUME NEW R \in Seq(Requests), NEW n \in Nat, n <= Len(Bytes(R)),
         NEW p \in Parser, Holds(R, Len(R), n, p.acc)
  PROVE  p \in Incomplete /\ Left(p) = p
<1> DEFINE e == EndOf(R, Len(R))
<1>1. Len(R) \in 0 .. Len(R)
  OBVIOUS
<1>2. Len(Bytes(R)) = e /\ e \in Nat
  BY <1>1, WiresPrefix, EndOfFacts
<1>3. p.acc \in Seq(Byte) /\ Len(p.acc) \in Nat /\ Len(p.acc) = n - e
  BY DEF Holds
<1> HIDE DEF e
<1>4. Len(p.acc) = 0
  BY <1>2, <1>3
<1>5. find_hdr_end(p.acc) = 0
  BY <1>3, <1>4, HdrEnd
<1> QED  BY <1>5 DEF Incomplete, Left

(* When a request has been cut off, acc holds what follows it.             *)
LEMMA HoldsFurther ==
  ASSUME NEW R \in Seq(Requests), NEW m \in 0 .. Len(R), m # Len(R), NEW n \in Nat,
         NEW p \in Parser, p \notin Incomplete, NEW served,
         EndOf(R, m) + Size(p) = EndOf(R, m + 1), Holds(R, m, n, p.acc)
  PROVE  Holds(R, m + 1, n, Further(p, served).acc)
<1> DEFINE acc == p.acc
           k == Size(p)
           e == EndOf(R, m)
           g == EndOf(R, m + 1)
           rest == SubSeq(acc, k + 1, Len(acc))
<1>1. acc \in Seq(Byte) /\ Len(acc) = n - e /\ \A i \in 1 .. Len(acc) : acc[i] = Bytes(R)[e + i]
  BY DEF Holds
<1>2. k \in 1 .. Len(acc) /\ k \in 0 .. Len(acc) /\ Further(p, served).acc = rest
  <2>1. Size(p) \in 1 .. Len(p.acc) /\ Further(p, served).acc = SubSeq(p.acc, Size(p) + 1, Len(p.acc))
    BY FurtherTyped
  <2> QED  BY <2>1
<1>3. e \in Nat /\ g = e + k
  BY EndOfFacts
<1> HIDE DEF acc, k, e, g
<1>4. /\ rest \in Seq(Byte) /\ Len(rest) = Len(acc) - k
      /\ \A i \in 1 .. Len(acc) - k : rest[i] = acc[k + i]
  BY <1>1, <1>2, Suffix
<1> HIDE DEF rest
<1> DEFINE x == Len(acc)
<1>5. x \in Nat /\ x = n - e
  BY <1>1
<1> HIDE DEF x
<1>6. Len(rest) = x - k /\ k \in 1 .. x
  BY <1>2, <1>4 DEF x
<1>7. Len(rest) = n - g
  BY <1>3, <1>5, <1>6
<1>8. ASSUME NEW i \in 1 .. Len(rest)
      PROVE  rest[i] = Bytes(R)[g + i]
  <2>1. i \in 1 .. x - k /\ k + i \in 1 .. x /\ g + i = e + (k + i)
    BY <1>3, <1>5, <1>6
  <2>2. acc[k + i] = Bytes(R)[e + (k + i)]
    BY <1>1, <2>1 DEF x
  <2>3. rest[i] = acc[k + i]
    BY <1>4, <2>1 DEF x
  <2> QED  BY <2>1, <2>2, <2>3
<1>9. Holds(R, m + 1, n, rest)
  BY <1>4, <1>7, <1>8 DEF Holds, g
<1> QED  BY <1>2, <1>9

(* A segment is appended to acc: what is there are still the bytes of the  *)
(* stream that follow its first m requests.                                *)
LEMMA SegmentAppended ==
  ASSUME NEW R \in Seq(Requests), NEW m \in 0 .. Len(R), NEW k \in Nat, NEW n \in Nat,
         k <= n, NEW c, Holds(R, m, k, c.acc),
         NEW bytes \in Seq(Byte), Len(bytes) = n - k,
         \A i \in 1 .. Len(bytes) : bytes[i] = Bytes(R)[k + i]
  PROVE  Holds(R, m, n, ParserOf(c, bytes).acc)
<1> DEFINE a == c.acc
           e == EndOf(R, m)
           t == a \o bytes
           x == Len(a)
           y == Len(bytes)
<1>1. a \in Seq(Byte) /\ x = k - e /\ \A i \in 1 .. x : a[i] = Bytes(R)[e + i]
  BY DEF Holds
<1>2. e \in Nat
  BY EndOfFacts
<1>3. ParserOf(c, bytes).acc = t
  BY DEF ParserOf
<1> HIDE DEF a
<1>4. /\ t \in Seq(Byte) /\ x \in Nat /\ y \in Nat /\ Len(t) = x + y
      /\ \A i \in 1 .. x : t[i] = a[i]
      /\ \A i \in 1 .. y : t[x + i] = bytes[i]
  <2> DEFINE b == bytes
  <2>1. a \in Seq(Byte) /\ b \in Seq(Byte)
    BY <1>1
  <2>2. /\ a \o b \in Seq(Byte) /\ Len(a) \in Nat /\ Len(b) \in Nat
        /\ Len(a \o b) = Len(a) + Len(b)
        /\ \A i \in 1 .. Len(a) : (a \o b)[i] = a[i]
        /\ \A i \in 1 .. Len(b) : (a \o b)[Len(a) + i] = b[i]
    <3> HIDE DEF b, e, t, x, y
    <3> QED  BY <2>1, Concat
  <2> QED  BY <2>2
<1>5. y = n - k /\ \A i \in 1 .. y : bytes[i] = Bytes(R)[k + i]
  OBVIOUS
<1> HIDE DEF e, t, x, y
<1>6. Len(t) = n - e
  BY <1>1, <1>2, <1>4, <1>5
<1>7. ASSUME NEW i \in 1 .. Len(t)
      PROVE  t[i] = Bytes(R)[e + i]
  <2>1. CASE i <= x
    <3>1. i \in 1 .. x
      BY <1>4, <2>1
    <3> QED  BY <1>1, <1>4, <3>1
  <2>2. CASE ~ i <= x
    <3> DEFINE j == i - x
    <3>1. j \in 1 .. y /\ x + j = i /\ k + j = e + i
      BY <1>1, <1>2, <1>4, <2>2
    <3> HIDE DEF j
    <3>2. t[x + j] = bytes[j] /\ bytes[j] = Bytes(R)[k + j]
      BY <1>4, <1>5, <3>1
    <3> QED  BY <3>1, <3>2
  <2> QED  BY <2>1, <2>2
<1>8. Holds(R, m, n, t)
  BY <1>4, <1>6, <1>7 DEF Holds, e
<1> QED  BY <1>3, <1>8

(* q is p with the requests m + 1 .. M of the stream R answered, in order. *)
(* With all of them answered the last one decides keep_alive.              *)
Settled(R, m, M, served, p, q) ==
  /\ Len(q.txq) = Len(p.txq) + 2 * (M - m)
  /\ \A i \in 1 .. Len(p.txq) : q.txq[i] = p.txq[i]
  /\ \A j \in 1 .. M - m :
       /\ q.txq[Len(p.txq) + 2 * j - 1] = Hdr(KeepConn(served, R[m + j].keep))
       /\ q.txq[Len(p.txq) + 2 * j] = Hello
  /\ M = Len(R) => q.keep_alive = IF m < M THEN R[M].keep ELSE p.keep_alive

(* Nothing to answer.                                                      *)
LEMMA SettledNone ==
  ASSUME NEW R, NEW M \in Nat, NEW served, NEW p \in Parser, NEW q \in Parser,
         q.txq = p.txq, M = Len(R) => q = p
  PROVE  Settled(R, M, M, served, p, q)
<1> DEFINE x == Len(p.txq)
<1>1. x \in Nat /\ Len(q.txq) = x
  BY DEF Parser
<1> HIDE DEF x
<1>2. x = x + 2 * (M - M) /\ 1 .. M - M = {} /\ ~ M < M
  BY <1>1
<1>3. Len(q.txq) = Len(p.txq) + 2 * (M - M)
  BY <1>1, <1>2 DEF x
<1> QED  BY <1>2, <1>3 DEF Settled

(* The first request to answer is answered before the others.              *)
LEMMA SettledFurther ==
  ASSUME NEW R \in Seq(Requests), NEW m \in 0 .. Len(R), NEW M \in 0 .. Len(R), m < M,
         NEW served, NEW p \in Parser, p \notin Incomplete,
         Headers(p).keep <=> R[m + 1].keep, NEW q,
         Settled(R, m + 1, M, served, Further(p, served), q)
  PROVE  Settled(R, m, M, served, p, q)
<1> DEFINE o == Further(p, served)
           s == p.txq
           t == q.txq
           H(k) == Hdr(KeepConn(served, R[k].keep))
           two == << H(m + 1), Hello >>
           x == Len(s)
           z == Len(o.txq)
           K(k) == R[k].keep
<1>1. /\ Len(t) = z + 2 * (M - (m + 1))
      /\ \A i \in 1 .. z : t[i] = o.txq[i]
      /\ \A j \in 1 .. M - (m + 1) : /\ t[z + 2 * j - 1] = H((m + 1) + j)
                                     /\ t[z + 2 * j] = Hello
      /\ M = Len(R) => q.keep_alive = IF m + 1 < M THEN K(M) ELSE o.keep_alive
  BY DEF Settled
<1>2. Headers(p).keep = R[m + 1].keep
  <2>1. Headers(p).keep \in BOOLEAN
    BY FurtherTyped
  <2>2. R[m + 1] \in Requests
    OBVIOUS
  <2>3. R[m + 1].keep \in BOOLEAN
    BY <2>2, WireFacts
  <2> QED  BY <2>1, <2>3
<1>3. o.keep_alive = K(m + 1)
  <2>1. Further(p, served).keep_alive = Headers(p).keep
    BY FurtherTyped
  <2> QED  BY <1>2, <2>1
<1>4. o.txq = s \o two
  <2>1. Further(p, served).txq = p.txq \o << Hdr(KeepConn(served, Headers(p).keep)), Hello >>
    BY FurtherTyped
  <2> QED  BY <1>2, <2>1
<1>5. s \in Seq(OwnedBuf(Literals))
  BY DEF Parser
<1>6. two \in Seq(OwnedBuf(Literals)) /\ Len(two) = 2 /\ two[1] = H(m + 1) /\ two[2] = Hello
  BY ResponseTyped
<1>7. M \in Nat /\ m \in Nat /\ (M = m + 1 \/ m + 1 < M)
  OBVIOUS
<1> HIDE DEF o, s, t, H, two, K
<1>8. /\ x \in Nat /\ Len(s \o two) = x + Len(two)
      /\ \A i \in 1 .. x : (s \o two)[i] = s[i]
      /\ \A i \in 1 .. Len(two) : (s \o two)[x + i] = two[i]
  <2> DEFINE B == OwnedBuf(Literals)
  <2>1. s \in Seq(B) /\ two \in Seq(B)
    BY <1>5, <1>6
  <2> HIDE DEF B, z
  <2> QED  BY <2>1, Concat
<1>9. z = x + 2
  BY <1>4, <1>6, <1>8
<1> HIDE DEF x, z
<1>10. /\ \A i \in 1 .. x : o.txq[i] = s[i]
       /\ o.txq[x + 1] = H(m + 1) /\ o.txq[x + 2] = Hello
  <2>1. 1 \in 1 .. Len(two) /\ 2 \in 1 .. Len(two)
    BY <1>6
  <2>2. (s \o two)[x + 1] = two[1] /\ (s \o two)[x + 2] = two[2]
    BY <1>8, <2>1
  <2>3. \A i \in 1 .. x : (s \o two)[i] = s[i]
    BY <1>8
  <2> DEFINE v == s \o two
  <2> HIDE DEF v
  <2>4. o.txq = v /\ v[x + 1] = H(m + 1) /\ v[x + 2] = Hello /\ \A i \in 1 .. x : v[i] = s[i]
    BY <1>4, <1>6, <2>2, <2>3 DEF v
  <2> QED  BY <2>4
<1>11. Len(t) = x + 2 * (M - m)
  <2> DEFINE l == Len(t)
  <2>1. l = z + 2 * (M - (m + 1))
    BY <1>1
  <2> DEFINE d == M - m
  <2>2. d \in Nat /\ M - (m + 1) = d - 1
    BY <1>7
  <2> HIDE DEF l, d
  <2>3. l = x + 2 * d
    BY <1>8, <1>9, <2>1, <2>2
  <2>4. l = x + 2 * (M - m)
    BY <2>3 DEF d
  <2> QED  BY <2>4 DEF l
<1>12. ASSUME NEW i \in 1 .. x
       PROVE  t[i] = s[i]
  <2>1. i \in 1 .. z
    BY <1>8, <1>9
  <2> QED  BY <1>1, <1>10, <2>1
<1>13. ASSUME NEW j \in 1 .. M - m
       PROVE  t[x + 2 * j - 1] = H(m + j) /\ t[x + 2 * j] = Hello
  <2>1. CASE j = 1
    <3>1. x + 2 * j - 1 = x + 1 /\ x + 2 * j = x + 2 /\ m + j = m + 1
      BY <1>7, <1>8, <2>1
    <3>2. x + 1 \in 1 .. z /\ x + 2 \in 1 .. z
      BY <1>8, <1>9
    <3>3. t[x + 1] = H(m + 1) /\ t[x + 2] = Hello
      BY <1>1, <1>10, <3>2
    <3> QED  BY <3>1, <3>3
  <2>2. CASE j # 1
    <3> DEFINE i == j - 1
    <3>1. /\ i \in 1 .. M - (m + 1) /\ (m + 1) + i = m + j
          /\ z + 2 * i - 1 = x + 2 * j - 1 /\ z + 2 * i = x + 2 * j
      BY <1>7, <1>8, <1>9, <2>2
    <3> HIDE DEF i
    <3>2. t[z + 2 * i - 1] = H((m + 1) + i) /\ t[z + 2 * i] = Hello
      BY <1>1, <3>1
    <3> QED  BY <3>1, <3>2
  <2> QED  BY <2>1, <2>2
<1>14. M = Len(R) => q.keep_alive = IF m < M THEN K(M) ELSE p.keep_alive
  BY <1>1, <1>3, <1>7
<1> QED  BY <1>11, <1>12, <1>13, <1>14 DEF Settled, s, t, x, H, K

(* However the bytes of a peer are cut into segments: when acc holds what  *)
(* follows its first m requests and the bytes at hand reach beyond request *)
(* M but not to the end of request M + 1, parse_step cuts off and answers  *)
(* exactly the requests m + 1 .. M, in their order and each as it asks,    *)
(* and acc then holds the beginning of request M + 1.                      *)
THEOREM RequestsCutAndAnswered ==
  ASSUME NEW R \in Seq(Requests), NEW m \in 0 .. Len(R), NEW M \in m .. Len(R),
         NEW n \in EndOf(R, M) .. Len(Bytes(R)), M < Len(R) => n < EndOf(R, M + 1),
         NEW c, NEW bytes, ParserOf(c, bytes) \in Parser,
         Holds(R, m, n, ParserOf(c, bytes).acc)
  PROVE  \E q \in Parser :
           /\ parse_step(c, bytes) = With(c, q)
           /\ Holds(R, M, n, q.acc)
           /\ Settled(R, m, M, c.served, ParserOf(c, bytes), q)
<1>1. PICK f : /\ Loops(f, Parser, c.served)
               /\ parse_step(c, bytes) = With(c, f[ParserOf(c, bytes)])
  BY ParseStep
<1>2. /\ M \in 0 .. Len(R) /\ M \in Nat /\ Len(R) \in Nat
      /\ EndOf(R, M) \in Nat /\ n \in Nat /\ EndOf(R, M) <= n
  <2>1. M \in 0 .. Len(R)
    OBVIOUS
  <2>2. EndOf(R, M) \in Nat
    BY <2>1, EndOfFacts
  <2>3. Bytes(R) \in Seq(Byte)
    BY <2>1, WiresPrefix
  <2> QED  BY <2>1, <2>2, <2>3
<1>3. n <= Len(Bytes(R))
  <2>1. Bytes(R) \in Seq(Byte)
    BY <1>2, WiresPrefix
  <2> QED  BY <1>2, <2>1
<1> DEFINE Good(k, p, q) == /\ q \in Parser /\ Holds(R, M, n, q.acc)
                            /\ Settled(R, k, M, c.served, p, q)
           S == { d \in Nat : \A k \in 0 .. Len(R), p \in Parser :
                    k + d = M /\ Holds(R, k, n, p.acc) => Good(k, p, f[p]) }
<1>4. 0 \in S
  <2>1. ASSUME NEW k \in 0 .. Len(R), NEW p \in Parser, k + 0 = M, Holds(R, k, n, p.acc)
        PROVE  Good(k, p, f[p])
    <3>1. k = M /\ Holds(R, M, n, p.acc)
      BY <1>2, <2>1
    <3>2. p \in Incomplete /\ (M = Len(R) => Left(p) = p)
      <4>1. CASE M = Len(R)
        BY <1>2, <1>3, <3>1, <4>1, NoPass
      <4>2. CASE M # Len(R)
        <5>1. EndOf(R, M + 1) \in Nat /\ M < Len(R)
          <6>1. M + 1 \in 0 .. Len(R) /\ M < Len(R)
            BY <1>2, <4>2
          <6> QED  BY <6>1, EndOfFacts
        <5>2. ~ EndOf(R, M + 1) <= n
          BY <1>2, <5>1
        <5>3. p \in Incomplete
          BY <1>2, <3>1, <4>2, <5>2, OnePass
        <5> QED  BY <4>2, <5>3
      <4> QED  BY <4>1, <4>2
    <3>3. Left(p) \in Parser /\ Left(p).acc = p.acc /\ Left(p).txq = p.txq
      BY LeftTyped
    <3>4. Settled(R, M, M, c.served, p, Left(p))
      BY <1>2, <3>2, <3>3, SettledNone
    <3>5. f[p] = Left(p)
      BY <1>1, <3>2 DEF Loops
    <3> QED  BY <3>1, <3>3, <3>4, <3>5
  <2> HIDE DEF Good
  <2> QED  BY <2>1
<1>5. ASSUME NEW d \in Nat, d \in S
      PROVE  d + 1 \in S
  <2>1. ASSUME NEW k \in 0 .. Len(R), NEW p \in Parser, k + (d + 1) = M,
               Holds(R, k, n, p.acc)
        PROVE  Good(k, p, f[p])
    <3> DEFINE o == Further(p, c.served)
    <3>1. /\ k + 1 \in 0 .. Len(R) /\ k < M /\ k # Len(R) /\ (k + 1) + d = M
          /\ (k + 1 = M \/ k + 1 < M)
      BY <1>2, <2>1
    <3>2. EndOf(R, k + 1) <= n
      <4>1. EndOf(R, k + 1) \in Nat
        BY <3>1, EndOfFacts
      <4>2. k + 1 < M => EndOf(R, k + 1) < EndOf(R, M)
        BY <1>2, <3>1, EndsInOrder
      <4> QED  BY <1>2, <3>1, <4>1, <4>2
    <3>3. /\ p \notin Incomplete /\ (Headers(p).keep <=> R[k + 1].keep)
          /\ EndOf(R, k) + Size(p) = EndOf(R, k + 1)
      BY <1>2, <2>1, <3>1, <3>2, OnePass
    <3>4. Holds(R, k + 1, n, o.acc)
      BY <1>2, <2>1, <3>1, <3>3, HoldsFurther
    <3>5. o \in Parser
      BY <3>3, FurtherTyped
    <3>6. f[p] = f[o]
      BY <1>1, <3>3 DEF Loops
    <3>7. Good(k + 1, o, f[o])
      <4> HIDE DEF o, Good
      <4> QED  BY <1>5, <3>1, <3>4, <3>5
    <3>8. Settled(R, k, M, c.served, p, f[o])
      BY <1>2, <3>1, <3>3, <3>7, SettledFurther
    <3> QED  BY <3>6, <3>7, <3>8
  <2> HIDE DEF Good
  <2> QED  BY <2>1
<1> HIDE DEF S
<1>6. \A d \in Nat : d \in S
  BY <1>4, <1>5, Induction, Zenon
<1>7. PICK d \in Nat : m + d = M
  <2>1. M - m \in Nat /\ m + (M - m) = M
    BY <1>2
  <2> QED  BY <2>1
<1> DEFINE p == ParserOf(c, bytes)
<1>8. p \in Parser /\ Holds(R, m, n, p.acc)
  OBVIOUS
<1> HIDE DEF p
<1>9. Good(m, p, f[p])
  <2> HIDE DEF Good
  <2> QED  BY <1>6, <1>7, <1>8 DEF S
<1>10. f[p] \in Parser /\ Holds(R, M, n, f[p].acc) /\ Settled(R, m, M, c.served, p, f[p])
  BY <1>9
<1> QED  BY <1>1, <1>10 DEF p
==============================================================================
