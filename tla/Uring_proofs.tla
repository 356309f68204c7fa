---------------------------- MODULE Uring_proofs ----------------------------
(***************************************************************************)
(* Counting what is under way in a ring.  The invariants of an event loop  *)
(* say how many requests of a kind are queued, with the kernel or answered;*)
(* the lemmas here say how each step of the ring and of the loop changes   *)
(* these numbers.                                                          *)
(*                                                                         *)
(* The members of a sequence and of a bag are counted by the set they      *)
(* belong to: Count(sq, S) requests of S are queued, Mult(ops, S) are with *)
(* the kernel.                                                             *)
(***************************************************************************)
EXTENDS Uring, FiniteSetTheorems, TLAPS

Once(x, S) == IF x \in S THEN 1 ELSE 0

(* A membership counts as a natural number.                                *)
LEMMA OnceType ==
  ASSUME NEW x, NEW S
  PROVE  Once(x, S) \in Nat
BY DEF Once

Hits(s, S) == { i \in 1 .. Len(s) : s[i] \in S }

Count(s, S) == Cardinality(Hits(s, S))

Held(bag, S) == { copy \in Copies(bag) : copy[1].sqe \in S }

Mult(bag, S) == Cardinality(Held(bag, S))

-----------------------------------------------------------------------------
(* Sequences.                                                              *)

(* A sequence has finitely many members of S.                              *)
LEMMA HitsFinite ==
  ASSUME NEW E, NEW s \in Seq(E), NEW S
  PROVE  IsFiniteSet(Hits(s, S)) /\ Count(s, S) \in Nat
<1>1. IsFiniteSet(1 .. Len(s))
  BY FS_Interval
<1>2. Hits(s, S) \subseteq 1 .. Len(s)
  BY DEF Hits
<1>3. IsFiniteSet(Hits(s, S))
  BY <1>1, <1>2, FS_Subset
<1> QED  BY <1>3, FS_CardinalityType DEF Count

(* The empty sequence has none.                                            *)
LEMMA CountEmpty ==
  ASSUME NEW S
  PROVE  Count(<<>>, S) = 0
<1>1. Hits(<<>>, S) = {}
  BY DEF Hits
<1> QED  BY <1>1, FS_EmptySet DEF Count

(* A sequence of one member has that one or none.                          *)
LEMMA CountOne ==
  ASSUME NEW x, NEW S
  PROVE  Count(<< x >>, S) = Once(x, S)
<1>1. CASE x \in S
  <2>1. Hits(<< x >>, S) = {1}
    BY <1>1 DEF Hits
  <2> QED  BY <1>1, <2>1, FS_Singleton DEF Count, Once
<1>2. CASE x \notin S
  <2>1. Hits(<< x >>, S) = {}
    BY <1>2 DEF Hits
  <2> QED  BY <1>2, <2>1, FS_EmptySet DEF Count, Once
<1> QED  BY <1>1, <1>2

(* A concatenation has what its parts have.                                *)
LEMMA CountConcat ==
  ASSUME NEW E, NEW s \in Seq(E), NEW t \in Seq(E), NEW S
  PROVE  Count(s \o t, S) = Count(s, S) + Count(t, S)
<1> DEFINE n == Len(s)
           H == Hits(s, S)
           K == Hits(t, S)
           shift == [ i \in K |-> i + n ]
           L == { i + n : i \in K }
<1>1. n \in Nat /\ H \subseteq 1 .. n /\ K \subseteq 1 .. Len(t)
  BY DEF Hits
<1>2. Hits(s \o t, S) = H \cup L
  <2>1. ASSUME NEW i \in Hits(s \o t, S)
        PROVE  i \in H \cup L
    <3>1. i \in 1 .. n + Len(t) /\ (s \o t)[i] \in S
      BY DEF Hits
    <3>2. CASE i <= n
      <4>1. i \in 1 .. n /\ (s \o t)[i] = s[i]
        BY <1>1, <3>1, <3>2
      <4> QED  BY <3>1, <4>1 DEF Hits
    <3>3. CASE i > n
      <4>1. i - n \in 1 .. Len(t) /\ (s \o t)[i] = t[i - n] /\ i = (i - n) + n
        BY <1>1, <3>1, <3>3
      <4> HIDE DEF n
      <4>2. i - n \in K
        BY <3>1, <4>1 DEF Hits
      <4> QED  BY <4>1, <4>2
    <3> QED  BY <1>1, <3>1, <3>2, <3>3
  <2>2. ASSUME NEW i \in H
        PROVE  i \in Hits(s \o t, S)
    <3>1. i \in 1 .. n /\ s[i] \in S
      BY DEF Hits
    <3>2. i \in 1 .. Len(s \o t) /\ (s \o t)[i] = s[i]
      BY <3>1
    <3> QED  BY <3>1, <3>2 DEF Hits
  <2>3. ASSUME NEW i \in K
        PROVE  i + n \in Hits(s \o t, S)
    <3>1. i \in 1 .. Len(t) /\ t[i] \in S
      BY DEF Hits
    <3>2. i + n \in 1 .. Len(s \o t) /\ (s \o t)[i + n] = t[i]
      BY <3>1
    <3> QED  BY <3>1, <3>2 DEF Hits
  <2> QED  BY <2>1, <2>2, <2>3
<1>3. IsFiniteSet(H) /\ IsFiniteSet(K)
  BY HitsFinite
<1>4. IsFiniteSet(L) /\ Cardinality(L) = Cardinality(K)
  <2>1. shift \in Bijection(K, L)
    <3> HIDE DEF H, n
    <3>1. \A i, j \in K : shift[i] = shift[j] => i = j
      BY <1>1
    <3>2. shift \in Surjection(K, L)
      BY DEF Surjection
    <3>3. shift \in Injection(K, L)
      <4>1. shift \in [ K -> L ]
        OBVIOUS
      <4>2. IsInjective(shift)
        BY <3>1 DEF IsInjective
      <4> QED  BY <4>1, <4>2 DEF Injection
    <3> QED  BY <3>2, <3>3 DEF Bijection
  <2> QED  BY <1>3, <2>1, FS_Bijection DEF ExistsBijection
<1>5. H \cap L = {}
  <2>1. Len(t) \in Nat
    OBVIOUS
  <2> HIDE DEF H, K, n
  <2>2. \A i \in K : i + n \notin H
    BY <1>1, <2>1
  <2> QED  BY <2>2
<1> HIDE DEF H, K, L, n
<1>6. /\ Cardinality(H \cup L) = Cardinality(H) + Cardinality(L) - Cardinality(H \cap L)
      /\ Cardinality(H \cap L) = 0
      /\ Cardinality(H) \in Nat /\ Cardinality(L) \in Nat
  BY <1>3, <1>4, <1>5, FS_Union, FS_EmptySet, FS_CardinalityType
<1>7. Cardinality(H \cup L) = Cardinality(H) + Cardinality(K)
  BY <1>4, <1>6
<1> QED  BY <1>2, <1>7 DEF Count, H, K

(* Append adds one member.                                                 *)
LEMMA CountAppend ==
  ASSUME NEW E, NEW s \in Seq(E), NEW x \in E, NEW S
  PROVE  Count(Append(s, x), S) = Count(s, S) + Once(x, S)
<1>1. Append(s, x) = s \o << x >> /\ << x >> \in Seq(E)
  OBVIOUS
<1>2. Count(s \o << x >>, S) = Count(s, S) + Count(<< x >>, S)
  BY <1>1, CountConcat
<1> QED  BY <1>1, <1>2, CountOne

(* Tail takes the first member away.                                       *)
LEMMA CountTail ==
  ASSUME NEW E, NEW s \in Seq(E), s # <<>>, NEW S
  PROVE  Count(s, S) = Count(Tail(s), S) + Once(Head(s), S)
<1>1. s = << Head(s) >> \o Tail(s) /\ << Head(s) >> \in Seq(E) /\ Tail(s) \in Seq(E)
  OBVIOUS
<1> DEFINE h == << Head(s) >>
           t == Tail(s)
<1>2. Count(h, S) = Once(Head(s), S)
  BY CountOne
<1>3. h \in Seq(E) /\ t \in Seq(E) /\ s = h \o t
  BY <1>1
<1> HIDE DEF h, t
<1>4. Count(h \o t, S) = Count(h, S) + Count(t, S)
  BY <1>3, CountConcat
<1>5. Count(t, S) \in Nat
  BY <1>3, HitsFinite
<1>6. Count(s, S) = Count(t, S) + Count(h, S)
  <2> DEFINE a == Count(s, S)
             b == Count(h, S)
             c == Count(t, S)
  <2>1. a = b + c /\ b \in Nat /\ c \in Nat
    BY <1>3, <1>4, <1>5, HitsFinite
  <2> HIDE DEF a, b, c
  <2>2. a = c + b
    BY <2>1
  <2> QED  BY <2>2 DEF a, b, c
<1> QED  BY <1>2, <1>6 DEF t

(* The count is positive just when a member is in S.                       *)
LEMMA CountPositive ==
  ASSUME NEW E, NEW s \in Seq(E), NEW S
  PROVE  Count(s, S) > 0 <=> \E i \in 1 .. Len(s) : s[i] \in S
<1>1. Count(s, S) = 0 <=> Hits(s, S) = {}
  BY HitsFinite, FS_EmptySet DEF Count
<1>2. Count(s, S) \in Nat
  BY HitsFinite
<1>3. Count(s, S) > 0 <=> Hits(s, S) # {}
  BY <1>1, <1>2
<1> QED  BY <1>3 DEF Hits

(* Only membership in S is counted.                                        *)
LEMMA CountSame ==
  ASSUME NEW E, NEW s \in Seq(E), NEW t \in Seq(E), NEW S, Len(s) = Len(t),
         \A i \in 1 .. Len(s) : s[i] \in S <=> t[i] \in S
  PROVE  Count(s, S) = Count(t, S)
<1>1. Hits(s, S) = Hits(t, S)
  BY DEF Hits
<1> QED  BY <1>1 DEF Count

(* Sequences of no and of one member are typed.                            *)
LEMMA OneInSeq ==
  ASSUME NEW E
  PROVE  <<>> \in Seq(E) /\ \A x \in E : << x >> \in Seq(E)
OBVIOUS

(* The length of a concatenation.                                          *)
LEMMA LenConcat ==
  ASSUME NEW E, NEW s \in Seq(E), NEW t \in Seq(E)
  PROVE  Len(s \o t) = Len(s) + Len(t)
OBVIOUS

(* The members of a sequence.                                              *)
Members(s) == { s[i] : i \in 1 .. Len(s) }

(* The members of a concatenation are those of its parts.                  *)
LEMMA MembersConcat ==
  ASSUME NEW E, NEW s \in Seq(E), NEW t \in Seq(E)
  PROVE  s \o t \in Seq(E) /\ Members(s \o t) = Members(s) \cup Members(t)
<1>1. ASSUME NEW i \in 1 .. Len(s \o t)
      PROVE  (s \o t)[i] \in Members(s) \cup Members(t)
  <2>1. CASE i <= Len(s)
    <3>1. i \in 1 .. Len(s) /\ (s \o t)[i] = s[i]
      BY <2>1
    <3> QED  BY <3>1 DEF Members
  <2>2. CASE i > Len(s)
    <3>1. i - Len(s) \in 1 .. Len(t) /\ (s \o t)[i] = t[i - Len(s)]
      BY <2>2
    <3> QED  BY <3>1 DEF Members
  <2> QED  BY <2>1, <2>2
<1>2. ASSUME NEW i \in 1 .. Len(s)
      PROVE  s[i] \in Members(s \o t)
  <2>1. i \in 1 .. Len(s \o t) /\ (s \o t)[i] = s[i]
    OBVIOUS
  <2> QED  BY <2>1 DEF Members
<1>3. ASSUME NEW i \in 1 .. Len(t)
      PROVE  t[i] \in Members(s \o t)
  <2>1. i + Len(s) \in 1 .. Len(s \o t) /\ (s \o t)[i + Len(s)] = t[i]
    OBVIOUS
  <2> QED  BY <2>1 DEF Members
<1>4. Members(s \o t) \subseteq Members(s) \cup Members(t)
  <2> SUFFICES ASSUME NEW x \in Members(s \o t)
               PROVE  x \in Members(s) \cup Members(t)
    OBVIOUS
  <2>1. PICK i \in 1 .. Len(s \o t) : x = (s \o t)[i]
    BY Zenon DEF Members
  <2> QED  BY <1>1, <2>1
<1>5. Members(s) \subseteq Members(s \o t) /\ Members(t) \subseteq Members(s \o t)
  <2>1. ASSUME NEW x \in Members(s)
        PROVE  x \in Members(s \o t)
    <3>1. PICK i \in 1 .. Len(s) : x = s[i]
      BY DEF Members
    <3> QED  BY <1>2, <3>1
  <2>2. ASSUME NEW x \in Members(t)
        PROVE  x \in Members(s \o t)
    <3>1. PICK i \in 1 .. Len(t) : x = t[i]
      BY DEF Members
    <3> QED  BY <1>3, <3>1
  <2> QED  BY <2>1, <2>2
<1>6. s \o t \in Seq(E)
  OBVIOUS
<1> QED  BY <1>4, <1>5, <1>6, Zenon

(* The members of sequences of no and of one member.                       *)
LEMMA MembersOne ==
  Members(<<>>) = {} /\ \A x : Members(<< x >>) = { x }
BY DEF Members

(* Append adds a member.                                                   *)
LEMMA MembersAppend ==
  ASSUME NEW E, NEW s \in Seq(E), NEW x \in E
  PROVE  Append(s, x) \in Seq(E) /\ Members(Append(s, x)) = Members(s) \cup { x }
<1> DEFINE one == << x >>
<1>1. Append(s, x) = s \o one /\ one \in Seq(E)
  OBVIOUS
<1>2. Members(one) = { x }
  BY MembersOne
<1> HIDE DEF one
<1>3. s \o one \in Seq(E) /\ Members(s \o one) = Members(s) \cup Members(one)
  BY <1>1, MembersConcat
<1> QED  BY <1>1, <1>2, <1>3

(* The members of a sequence are its head and those of its tail.           *)
LEMMA MembersTail ==
  ASSUME NEW E, NEW s \in Seq(E), s # <<>>
  PROVE  /\ Tail(s) \in Seq(E) /\ Head(s) \in E
         /\ Members(s) = { Head(s) } \cup Members(Tail(s))
<1>1. s = << Head(s) >> \o Tail(s) /\ << Head(s) >> \in Seq(E) /\ Tail(s) \in Seq(E)
  OBVIOUS
<1> DEFINE h == << Head(s) >>
           t == Tail(s)
<1>2. Members(h) = { Head(s) }
  BY MembersOne
<1>3. h \in Seq(E) /\ t \in Seq(E) /\ s = h \o t
  BY <1>1
<1>4. Head(s) \in E
  OBVIOUS
<1> HIDE DEF h, t
<1>5. Members(s) = Members(h) \cup Members(t)
  BY <1>3, MembersConcat
<1> QED  BY <1>2, <1>3, <1>4, <1>5 DEF t

(* Members of a typed sequence are typed.                                  *)
LEMMA MembersType ==
  ASSUME NEW E, NEW s \in Seq(E)
  PROVE  Members(s) \subseteq E
BY DEF Members

(* The count is positive just when the members meet S.                     *)
LEMMA MembersCount ==
  ASSUME NEW E, NEW s \in Seq(E), NEW S
  PROVE  Count(s, S) > 0 <=> Members(s) \cap S # {}
BY CountPositive DEF Members

(* Where no member is in S, the count is zero.                             *)
LEMMA CountNone ==
  ASSUME NEW E, NEW s \in Seq(E), NEW S, Members(s) \cap S = {}
  PROVE  Count(s, S) = 0
<1>1. Count(s, S) \in Nat /\ ~ (Count(s, S) > 0)
  BY HitsFinite, MembersCount
<1> QED  BY <1>1

(* Requests that are put together from four parts.                         *)
LEMMA FourParts ==
  ASSUME NEW E, NEW s \in Seq(E), NEW t \in Seq(E), NEW u \in Seq(E), NEW v \in Seq(E)
  PROVE  LET w == s \o t \o u \o v
         IN  /\ w \in Seq(E)
             /\ Members(w) = Members(s) \cup Members(t) \cup Members(u) \cup Members(v)
             /\ \A S : Count(w, S) = Count(s, S) + Count(t, S) + Count(u, S) + Count(v, S)
<1> DEFINE st == s \o t
           stu == st \o u
           w == stu \o v
<1>1. st \in Seq(E) /\ Members(st) = Members(s) \cup Members(t)
  BY MembersConcat
<1>2. \A S : Count(st, S) = Count(s, S) + Count(t, S)
  BY CountConcat
<1> HIDE DEF st
<1>3. stu \in Seq(E) /\ Members(stu) = Members(st) \cup Members(u)
  BY <1>1, MembersConcat
<1>4. \A S : Count(stu, S) = Count(st, S) + Count(u, S)
  BY <1>1, CountConcat
<1> HIDE DEF stu
<1>5. w \in Seq(E) /\ Members(w) = Members(stu) \cup Members(v)
  BY <1>3, MembersConcat
<1>6. \A S : Count(w, S) = Count(stu, S) + Count(v, S)
  BY <1>3, CountConcat
<1> HIDE DEF w
<1>7. \A S : Count(w, S) = Count(s, S) + Count(t, S) + Count(u, S) + Count(v, S)
  BY <1>2, <1>4, <1>6
<1>8. Members(w) = Members(s) \cup Members(t) \cup Members(u) \cup Members(v)
  BY <1>1, <1>3, <1>5
<1> QED  BY <1>5, <1>7, <1>8 DEF w, stu, st

-----------------------------------------------------------------------------
(* Bags.                                                                   *)

(* What it takes to be a copy of a member of a bag.                        *)
LEMMA InCopies ==
  ASSUME NEW bag
  PROVE  \A c : c \in Copies(bag) <=>
                   \E o \in DOMAIN bag : \E n \in 1 .. bag[o] : c = << o, n >>
BY DEF Copies, BagToSet

LastCopy(bag, o) == << o, bag[o] >>

(* What the beginning and the end of an operation do to the copies in ops. *)
LEMMA CopiesBegin ==
  ASSUME NEW op, IsABag(ops), Begin(op)
  PROVE  /\ IsABag(ops')
         /\ DOMAIN ops' = DOMAIN ops \cup { op }
         /\ LastCopy(ops', op) \notin Copies(ops)
         /\ Copies(ops')
              = Copies(ops) \cup { LastCopy(ops', op) }
<1> DEFINE n == IF op \in DOMAIN ops THEN ops[op] + 1 ELSE 1
<1>0. ops \in [ DOMAIN ops -> Nat \ {0} ]
  BY DEF IsABag
<1>1. /\ DOMAIN ops' = DOMAIN ops \cup { op }
      /\ \A p \in DOMAIN ops' : ops'[p] = IF p = op THEN n ELSE ops[p]
  BY <1>0 DEF Begin, (+), SetToBag
<1>2. n \in Nat \ {0}
  BY <1>0
<1>3. IsABag(ops')
  <2>1. ops' = [ p \in DOMAIN ops' |-> ops'[p] ]
    BY DEF Begin, (+)
  <2>2. \A p \in DOMAIN ops' : ops'[p] \in Nat \ {0}
    BY <1>0, <1>1, <1>2
  <2> QED  BY <2>1, <2>2 DEF IsABag
<1>4. << op, n >> \notin Copies(ops)
  BY <1>0, InCopies
<1>5. Copies(ops') = Copies(ops) \cup { << op, n >> }
  <2>1. ASSUME NEW c \in Copies(ops')
        PROVE  c \in Copies(ops) \cup { << op, n >> }
    <3>1. PICK p \in DOMAIN ops' : \E i \in 1 .. ops'[p] : c = << p, i >>
      BY <2>1, InCopies
    <3>2. PICK i \in 1 .. ops'[p] : c = << p, i >>
      BY <3>1
    <3>3. CASE p # op
      BY <1>1, <3>2, <3>3, InCopies
    <3>4. CASE p = op
      <4>1. i \in 1 .. n
        BY <1>1, <3>4
      <4>2. i # n => op \in DOMAIN ops /\ i \in 1 .. ops[op]
        BY <1>0, <4>1
      <4> QED  BY <3>2, <3>4, <4>2, InCopies
    <3> QED  BY <3>3, <3>4
  <2>2. ASSUME NEW c \in Copies(ops)
        PROVE  c \in Copies(ops')
    <3>1. PICK p \in DOMAIN ops : \E i \in 1 .. ops[p] : c = << p, i >>
      BY <2>2, InCopies
    <3>2. PICK i \in 1 .. ops[p] : c = << p, i >>
      BY <3>1
    <3>3. p \in DOMAIN ops' /\ i \in 1 .. ops'[p]
      BY <1>0, <1>1
    <3> QED  BY <3>2, <3>3, InCopies
  <2>3. << op, n >> \in Copies(ops')
    <3>1. op \in DOMAIN ops' /\ n \in 1 .. ops'[op]
      BY <1>1, <1>2
    <3> HIDE DEF n
    <3> QED  BY <3>1, InCopies
  <2> HIDE DEF n
  <2> QED  BY <2>1, <2>2, <2>3
<1>6. LastCopy(ops', op) = << op, n >>
  BY <1>1 DEF LastCopy
<1> QED  BY <1>1, <1>3, <1>4, <1>5, <1>6

(* The end of an operation takes its last copy away.                       *)
LEMMA CopiesEnd ==
  ASSUME NEW op \in DOMAIN ops, IsABag(ops), End(op)
  PROVE  /\ IsABag(ops')
         /\ DOMAIN ops' \subseteq DOMAIN ops
         /\ LastCopy(ops, op) \in Copies(ops)
         /\ Copies(ops') = Copies(ops) \ { LastCopy(ops, op) }
<1> DEFINE n == ops[op]
<1>0. ops \in [ DOMAIN ops -> Nat \ {0} ] /\ n \in Nat \ {0}
  BY DEF IsABag
<1>1. /\ DOMAIN ops' = { p \in DOMAIN ops : p # op \/ n > 1 }
      /\ \A p \in DOMAIN ops' : ops'[p] = IF p = op THEN n - 1 ELSE ops[p]
  BY <1>0 DEF End, (-), SetToBag
<1>2. IsABag(ops')
  <2>1. ops' = [ p \in DOMAIN ops' |-> ops'[p] ]
    BY DEF End, (-)
  <2>2. \A p \in DOMAIN ops' : ops'[p] \in Nat \ {0}
    BY <1>0, <1>1
  <2> QED  BY <2>1, <2>2 DEF IsABag
<1>3. << op, n >> \in Copies(ops)
  BY <1>0, InCopies
<1>4. Copies(ops') = Copies(ops) \ { << op, n >> }
  <2>1. ASSUME NEW c \in Copies(ops')
        PROVE  c \in Copies(ops) /\ c # << op, n >>
    <3>1. PICK p \in DOMAIN ops' : \E i \in 1 .. ops'[p] : c = << p, i >>
      BY <2>1, InCopies
    <3>2. PICK i \in 1 .. ops'[p] : c = << p, i >>
      BY <3>1
    <3>3. p \in DOMAIN ops /\ i \in 1 .. ops[p] /\ (p = op => i # n)
      BY <1>0, <1>1, <3>2
    <3>4. c # << op, n >>
      BY <3>2, <3>3
    <3> QED  BY <3>2, <3>3, <3>4, InCopies
  <2>2. ASSUME NEW c \in Copies(ops), c # << op, n >>
        PROVE  c \in Copies(ops')
    <3>1. PICK p \in DOMAIN ops : \E i \in 1 .. ops[p] : c = << p, i >>
      BY <2>2, InCopies
    <3>2. PICK i \in 1 .. ops[p] : c = << p, i >>
      BY <3>1
    <3>3. p = op => i # n
      BY <2>2, <3>2
    <3>4. p \in DOMAIN ops' /\ i \in 1 .. ops'[p]
      BY <1>0, <1>1, <3>3
    <3> QED  BY <3>2, <3>4, InCopies
  <2> HIDE DEF n
  <2> QED  BY <2>1, <2>2
<1> QED  BY <1>1, <1>2, <1>3, <1>4 DEF LastCopy

FiniteBag(bag) == IsABag(bag) /\ IsFiniteSet(Copies(bag))

(* A finite bag holds finitely many copies of requests in S.               *)
LEMMA MultType ==
  ASSUME NEW bag, FiniteBag(bag), NEW S
  PROVE  IsFiniteSet(Held(bag, S)) /\ Mult(bag, S) \in Nat
<1>1. Held(bag, S) \subseteq Copies(bag)
  BY DEF Held
<1>2. IsFiniteSet(Held(bag, S))
  BY <1>1, FS_Subset DEF FiniteBag
<1> QED  BY <1>2, FS_CardinalityType DEF Mult

(* The empty bag holds none.                                               *)
LEMMA MultEmpty ==
  ASSUME NEW S
  PROVE  FiniteBag(EmptyBag) /\ Mult(EmptyBag, S) = 0
<1>1. DOMAIN EmptyBag = {} /\ IsABag(EmptyBag)
  BY DEF EmptyBag, SetToBag, IsABag
<1>2. Copies(EmptyBag) = {}
  BY <1>1, InCopies
<1>3. Held(EmptyBag, S) = {}
  BY <1>2 DEF Held
<1> QED  BY <1>1, <1>2, <1>3, FS_EmptySet DEF FiniteBag, Mult

(* The beginning of an operation adds its request.                         *)
LEMMA MultBegin ==
  ASSUME NEW op, NEW S, FiniteBag(ops), Begin(op)
  PROVE  /\ FiniteBag(ops')
         /\ DOMAIN ops' = DOMAIN ops \cup { op }
         /\ Mult(ops', S) = Mult(ops, S) + Once(op.sqe, S)
<1>1. IsABag(ops) /\ IsFiniteSet(Copies(ops))
  BY DEF FiniteBag
<1>2. IsABag(ops') /\ DOMAIN ops' = DOMAIN ops \cup { op }
  BY <1>1, CopiesBegin
<1> DEFINE new == LastCopy(ops', op)
<1>3. new \notin Copies(ops) /\ Copies(ops') = Copies(ops) \cup { new }
  BY <1>1, CopiesBegin
<1>n. new[1] = op
  BY DEF LastCopy
<1> HIDE DEF new
<1>4. FiniteBag(ops')
  BY <1>1, <1>2, <1>3, FS_AddElement DEF FiniteBag
<1>5. IsFiniteSet(Held(ops, S)) /\ Mult(ops, S) \in Nat
  BY MultType
<1>6. CASE op.sqe \in S
  <2>1. Held(ops', S) = Held(ops, S) \cup { new }
    BY <1>3, <1>n, <1>6 DEF Held
  <2>2. new \notin Held(ops, S)
    BY <1>3 DEF Held
  <2>3. Mult(ops', S) = Mult(ops, S) + 1
    BY <1>5, <2>1, <2>2, FS_AddElement DEF Mult
  <2> QED  BY <1>2, <1>4, <1>6, <2>3 DEF Once
<1>7. CASE op.sqe \notin S
  <2>1. Held(ops', S) = Held(ops, S)
    BY <1>3, <1>n, <1>7 DEF Held
  <2>2. Mult(ops', S) = Mult(ops, S)
    BY <2>1 DEF Mult
  <2> QED  BY <1>2, <1>4, <1>5, <1>7, <2>2 DEF Once
<1> QED  BY <1>6, <1>7

(* The end of an operation takes its request away.                         *)
LEMMA MultEnd ==
  ASSUME NEW op \in DOMAIN ops, NEW S, FiniteBag(ops), End(op)
  PROVE  /\ FiniteBag(ops')
         /\ DOMAIN ops' \subseteq DOMAIN ops
         /\ Mult(ops, S) = Mult(ops', S) + Once(op.sqe, S)
<1>1. IsABag(ops) /\ IsFiniteSet(Copies(ops))
  BY DEF FiniteBag
<1>2. IsABag(ops') /\ DOMAIN ops' \subseteq DOMAIN ops
  BY <1>1, CopiesEnd
<1> DEFINE last == LastCopy(ops, op)
<1>3. last \in Copies(ops) /\ Copies(ops') = Copies(ops) \ { last }
  BY <1>1, CopiesEnd
<1>n. last[1] = op
  BY DEF LastCopy
<1> HIDE DEF last
<1>4. FiniteBag(ops')
  BY <1>1, <1>2, <1>3, FS_RemoveElement DEF FiniteBag
<1>5. IsFiniteSet(Held(ops, S)) /\ Mult(ops, S) \in Nat
  BY MultType
<1>6. CASE op.sqe \in S
  <2>1. Held(ops', S) = Held(ops, S) \ { last }
    BY <1>3 DEF Held
  <2>2. last \in Held(ops, S)
    BY <1>3, <1>n, <1>6 DEF Held
  <2>3. Mult(ops', S) = Mult(ops, S) - 1
    BY <1>5, <2>1, <2>2, FS_RemoveElement DEF Mult
  <2>4. Mult(ops, S) = Mult(ops', S) + 1
    BY <1>5, <2>3
  <2> QED  BY <1>2, <1>4, <1>6, <2>4 DEF Once
<1>7. CASE op.sqe \notin S
  <2>1. Held(ops', S) = Held(ops, S)
    BY <1>3, <1>n, <1>7 DEF Held
  <2>2. Mult(ops', S) = Mult(ops, S)
    BY <2>1 DEF Mult
  <2> QED  BY <1>2, <1>4, <1>5, <1>7, <2>2 DEF Once
<1> QED  BY <1>6, <1>7

(* The count is positive just when an operation has a request in S.        *)
LEMMA MultPositive ==
  ASSUME NEW bag, FiniteBag(bag), NEW S
  PROVE  Mult(bag, S) > 0 <=> \E o \in DOMAIN bag : o.sqe \in S
<1>1. Mult(bag, S) = 0 <=> Held(bag, S) = {}
  BY MultType, FS_EmptySet DEF Mult
<1>2. Mult(bag, S) \in Nat
  BY MultType
<1>3. Mult(bag, S) > 0 <=> Held(bag, S) # {}
  BY <1>1, <1>2
<1>4. ASSUME NEW o \in DOMAIN bag, o.sqe \in S
      PROVE  << o, 1 >> \in Held(bag, S)
  <2>1. 1 \in 1 .. bag[o]
    BY DEF FiniteBag, IsABag
  <2>2. << o, 1 >> \in Copies(bag)
    BY <2>1, InCopies
  <2> QED  BY <1>4, <2>2 DEF Held
<1>5. ASSUME NEW c \in Held(bag, S)
      PROVE  \E o \in DOMAIN bag : o.sqe \in S
  <2>1. c[1].sqe \in S /\ c \in Copies(bag)
    BY DEF Held
  <2>2. PICK o \in DOMAIN bag : \E n \in 1 .. bag[o] : c = << o, n >>
    BY <2>1, InCopies
  <2>3. c[1] = o
    BY <2>2
  <2> QED  BY <2>1, <2>3
<1> QED  BY <1>3, <1>4, <1>5

-----------------------------------------------------------------------------
(* The ring.                                                               *)

Sequences(Sqes, Cqes) ==
  /\ sq \in Seq(Sqes)
  /\ cq \in Seq(Cqes)
  /\ FiniteBag(ops)

(* The requests of S under way, answered by the completions of A.          *)
Pending(S, A) == Count(sq, S) + Mult(ops, S) + Count(cq, A)

(* What is under way counts as a natural number, part by part.             *)
LEMMA PendingType ==
  ASSUME NEW Sqes, NEW Cqes, Sequences(Sqes, Cqes), NEW S, NEW A
  PROVE  /\ Count(sq, S) \in Nat /\ Mult(ops, S) \in Nat /\ Count(cq, A) \in Nat
         /\ Pending(S, A) \in Nat
<1>1. Count(sq, S) \in Nat /\ Count(cq, A) \in Nat
  BY HitsFinite DEF Sequences
<1>2. Mult(ops, S) \in Nat
  BY MultType DEF Sequences
<1> QED  BY <1>1, <1>2 DEF Pending

(* Something is under way exactly if it can be pointed at.                 *)
LEMMA PendingPositive ==
  ASSUME NEW Sqes, NEW Cqes, Sequences(Sqes, Cqes), NEW S, NEW A
  PROVE  Pending(S, A) > 0 <=> \/ \E i \in 1 .. Len(sq) : sq[i] \in S
                               \/ \E o \in DOMAIN ops : o.sqe \in S
                               \/ \E i \in 1 .. Len(cq) : cq[i] \in A
<1>1. Count(sq, S) > 0 <=> \E i \in 1 .. Len(sq) : sq[i] \in S
  BY CountPositive DEF Sequences
<1>2. Count(cq, A) > 0 <=> \E i \in 1 .. Len(cq) : cq[i] \in A
  BY CountPositive DEF Sequences
<1>3. Mult(ops, S) > 0 <=> \E o \in DOMAIN ops : o.sqe \in S
  BY MultPositive DEF Sequences
<1>4. /\ Count(sq, S) \in Nat /\ Mult(ops, S) \in Nat /\ Count(cq, A) \in Nat
  BY PendingType
<1>5. Pending(S, A) > 0 <=> Count(sq, S) > 0 \/ Mult(ops, S) > 0 \/ Count(cq, A) > 0
  BY <1>4 DEF Pending
<1> QED  BY <1>1, <1>2, <1>3, <1>5

(* The kernel begins with the request at the head of sq.                   *)
LEMMA BeginPending ==
  ASSUME NEW Sqes, NEW Cqes, Sequences(Sqes, Cqes), NEW S, NEW A,
         sq # <<>>, sq' = Tail(sq), UNCHANGED cq,
         NEW op, op.sqe = Head(sq), Begin(op)
  PROVE  /\ Sequences(Sqes, Cqes)' /\ DOMAIN ops' = DOMAIN ops \cup { op }
         /\ Pending(S, A)' = Pending(S, A)
<1>1. FiniteBag(ops)
  BY DEF Sequences
<1>2. /\ FiniteBag(ops') /\ DOMAIN ops' = DOMAIN ops \cup { op }
      /\ Mult(ops', S) = Mult(ops, S) + Once(op.sqe, S)
  BY <1>1, MultBegin
<1>3. Tail(sq) \in Seq(Sqes)
  BY DEF Sequences
<1>4. Count(sq, S) = Count(Tail(sq), S) + Once(Head(sq), S)
  BY CountTail DEF Sequences
<1>5. Count(Tail(sq), S) \in Nat
  BY <1>3, HitsFinite
<1>6. /\ Count(sq, S) \in Nat /\ Mult(ops, S) \in Nat /\ Count(cq, A) \in Nat
  BY PendingType
<1>7. Pending(S, A)' = Count(Tail(sq), S) + (Mult(ops, S) + Once(op.sqe, S))
                         + Count(cq, A)
  BY <1>2 DEF Pending
<1>8. Pending(S, A)' = Pending(S, A)
  BY <1>4, <1>5, <1>6, <1>7, OnceType DEF Pending
<1>9. Sequences(Sqes, Cqes)'
  BY <1>2, <1>3 DEF Sequences
<1> QED  BY <1>2, <1>8, <1>9

(* The request at the head of sq is answered by the completions new.       *)
LEMMA AnswerPending ==
  ASSUME NEW Sqes, NEW Cqes, Sequences(Sqes, Cqes), NEW S, NEW A,
         sq # <<>>, sq' = Tail(sq), UNCHANGED ops,
         NEW new \in Seq(Cqes), cq' = cq \o new
  PROVE  /\ Sequences(Sqes, Cqes)' /\ Count(new, A) \in Nat
         /\ Pending(S, A)' + Once(Head(sq), S) = Pending(S, A) + Count(new, A)
<1>1. Tail(sq) \in Seq(Sqes) /\ cq \o new \in Seq(Cqes)
  BY DEF Sequences
<1>2. Count(sq, S) = Count(Tail(sq), S) + Once(Head(sq), S)
  BY CountTail DEF Sequences
<1>3. Count(cq \o new, A) = Count(cq, A) + Count(new, A)
  BY CountConcat DEF Sequences
<1>4. Count(Tail(sq), S) \in Nat /\ Count(new, A) \in Nat
  BY <1>1, HitsFinite
<1>5. /\ Count(sq, S) \in Nat /\ Mult(ops, S) \in Nat /\ Count(cq, A) \in Nat
  BY PendingType
<1>6. Pending(S, A)' = Count(Tail(sq), S) + Mult(ops, S) + (Count(cq, A) + Count(new, A))
  BY <1>3 DEF Pending
<1>7. Pending(S, A)' + Once(Head(sq), S) = Pending(S, A) + Count(new, A)
  <2> DEFINE q == Count(sq, S)
             r == Count(Tail(sq), S)
             m == Mult(ops, S)
             c == Count(cq, A)
             d == Count(new, A)
             h == Once(Head(sq), S)
  <2>1. q = r + h /\ q \in Nat /\ r \in Nat /\ m \in Nat /\ c \in Nat /\ d \in Nat
    BY <1>2, <1>4, <1>5
  <2>2. h \in Nat
    BY OnceType
  <2>3. Pending(S, A) = q + m + c /\ Pending(S, A)' = r + m + (c + d)
    BY <1>6 DEF Pending
  <2> HIDE DEF q, r, m, c, d, h
  <2>4. Pending(S, A)' + h = Pending(S, A) + d
    BY <2>1, <2>2, <2>3
  <2> QED  BY <2>4 DEF h, d
<1>8. Sequences(Sqes, Cqes)'
  BY <1>1 DEF Sequences
<1> QED  BY <1>4, <1>7, <1>8

(* An operation completes; a multishot one may go on.                      *)
LEMMA CompletePending ==
  ASSUME NEW Sqes, NEW Cqes, Sequences(Sqes, Cqes), NEW S, NEW A,
         NEW op \in DOMAIN ops, NEW cqe \in Cqes, Complete(op, cqe), UNCHANGED sq
  PROVE  /\ Sequences(Sqes, Cqes)' /\ DOMAIN ops' \subseteq DOMAIN ops
         /\ Pending(S, A)' + (IF cqe.more THEN 0 ELSE Once(op.sqe, S))
              = Pending(S, A) + Once(cqe, A)
<1>1. cq' = Append(cq, cqe) /\ (IF cqe.more THEN UNCHANGED ops ELSE End(op))
  BY DEF Complete
<1>2. Append(cq, cqe) \in Seq(Cqes)
  BY DEF Sequences
<1>3. Count(Append(cq, cqe), A) = Count(cq, A) + Once(cqe, A)
  BY CountAppend DEF Sequences
<1>4. /\ Count(sq, S) \in Nat /\ Mult(ops, S) \in Nat /\ Count(cq, A) \in Nat
  BY PendingType
<1>5. /\ FiniteBag(ops') /\ DOMAIN ops' \subseteq DOMAIN ops
      /\ Mult(ops', S) \in Nat
      /\ Mult(ops, S) = Mult(ops', S) + (IF cqe.more THEN 0 ELSE Once(op.sqe, S))
  <2>1. CASE cqe.more
    BY <1>1, <1>4, <2>1 DEF Sequences, Once
  <2>2. CASE ~ cqe.more
    <3>1. End(op) /\ FiniteBag(ops)
      BY <1>1, <2>2 DEF Sequences
    <3>2. /\ FiniteBag(ops') /\ DOMAIN ops' \subseteq DOMAIN ops
          /\ Mult(ops, S) = Mult(ops', S) + Once(op.sqe, S)
      BY <3>1, MultEnd
    <3>3. Mult(ops', S) \in Nat
      BY <3>2, MultType
    <3> QED  BY <2>2, <3>2, <3>3 DEF Once
  <2> QED  BY <2>1, <2>2
<1>6. Pending(S, A)' = Count(sq, S) + Mult(ops', S) + (Count(cq, A) + Once(cqe, A))
  BY <1>1, <1>3 DEF Pending
<1>7. Pending(S, A)' + (IF cqe.more THEN 0 ELSE Once(op.sqe, S))
        = Pending(S, A) + Once(cqe, A)
  BY <1>4, <1>5, <1>6, OnceType DEF Pending
<1>8. Sequences(Sqes, Cqes)'
  BY <1>1, <1>2, <1>5 DEF Sequences
<1> QED  BY <1>5, <1>7, <1>8

(* The loop takes the completion at the head of cq and queues requests.    *)
LEMMA HandlePending ==
  ASSUME NEW Sqes, NEW Cqes, Sequences(Sqes, Cqes), NEW S, NEW A,
         cq # <<>>, cq' = Tail(cq), UNCHANGED ops,
         NEW new \in Seq(Sqes), sq' = sq \o new
  PROVE  /\ Sequences(Sqes, Cqes)' /\ Count(new, S) \in Nat
         /\ Pending(S, A)' + Once(Head(cq), A) = Pending(S, A) + Count(new, S)
<1>1. Tail(cq) \in Seq(Cqes) /\ sq \o new \in Seq(Sqes)
  BY DEF Sequences
<1>2. Count(cq, A) = Count(Tail(cq), A) + Once(Head(cq), A)
  BY CountTail DEF Sequences
<1>3. Count(sq \o new, S) = Count(sq, S) + Count(new, S)
  BY CountConcat DEF Sequences
<1>4. Count(Tail(cq), A) \in Nat /\ Count(new, S) \in Nat
  BY <1>1, HitsFinite
<1>5. /\ Count(sq, S) \in Nat /\ Mult(ops, S) \in Nat /\ Count(cq, A) \in Nat
  BY PendingType
<1>6. Pending(S, A)' = (Count(sq, S) + Count(new, S)) + Mult(ops, S) + Count(Tail(cq), A)
  BY <1>3 DEF Pending
<1>7. Pending(S, A)' + Once(Head(cq), A) = Pending(S, A) + Count(new, S)
  <2> DEFINE q == Count(sq, S)
             m == Mult(ops, S)
             c == Count(cq, A)
             d == Count(Tail(cq), A)
             n == Count(new, S)
             h == Once(Head(cq), A)
  <2>1. c = d + h /\ q \in Nat /\ m \in Nat /\ c \in Nat /\ d \in Nat /\ n \in Nat
    BY <1>2, <1>4, <1>5
  <2>2. h \in Nat
    BY OnceType
  <2>3. Pending(S, A) = q + m + c /\ Pending(S, A)' = (q + n) + m + d
    BY <1>6 DEF Pending
  <2> HIDE DEF q, m, c, d, n, h
  <2>4. Pending(S, A)' + h = Pending(S, A) + n
    BY <2>1, <2>2, <2>3
  <2> QED  BY <2>4 DEF h, n
<1>8. Sequences(Sqes, Cqes)'
  BY <1>1 DEF Sequences
<1> QED  BY <1>4, <1>7, <1>8
=============================================================================
