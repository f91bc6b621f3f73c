------------------------------ MODULE DpCallProofs ------------------------------
(***************************************************************************)
(* Theorems about DpCall for any batch, lengths, device mesh, batch sizes, *)
(* and number of agent loop workers: results return to the rows they were  *)
(* computed for, the partitions are fair, and no rank waits for another    *)
(* in a call that the other does not make.                                 *)
(***************************************************************************)
EXTENDS DpCall, SeqlenBalancingProofs

(***************************************************************************)
(* A rank in a call.                                                       *)
(***************************************************************************)
\* The parts of two lists one behind the other.
Parted(a, A, b, B, S) == Once(a, A) /\ Once(b, B) /\ A \cap B = {} /\ A \cup B = S

\* A list that has each member of a set once, cut in two.
LEMMA SplitOnce ==
  ASSUME NEW R, NEW a \in Seq(R), NEW b \in Seq(R), NEW S, Once(a \o b, S)
  PROVE  Parted(a, MembersOf(a), b, MembersOf(b), S)
<1>1. PICK l : l = a \o b
  OBVIOUS
<1>2. /\ l \in Seq(S) /\ Len(l) = Len(a) + Len(b) /\ Len(a) \in Nat /\ Len(b) \in Nat
      /\ \A i \in 1 .. Len(a) : l[i] = a[i]
      /\ \A i \in 1 .. Len(b) : l[Len(a) + i] = b[i]
  BY <1>1, ConcatFacts DEF Once
<1>3. /\ \A x \in S : \E n \in 1 .. Len(l) : l[n] = x
      /\ \A m, n \in 1 .. Len(l) : l[m] = l[n] => m = n
      /\ \A n \in 1 .. Len(l) : l[n] \in S
  <2>1. \A n \in 1 .. Len(l) : l[n] \in S
    BY <1>2, ListFacts
  <2>. QED BY <1>1, <2>1 DEF Once
<1>4. /\ \A m, n \in 1 .. Len(a) : a[m] = a[n] => m = n
      /\ \A m, n \in 1 .. Len(b) : b[m] = b[n] => m = n
      /\ \A m \in 1 .. Len(a) : \A n \in 1 .. Len(b) : a[m] # b[n]
      /\ \A m \in 1 .. Len(a) : a[m] \in S
      /\ \A n \in 1 .. Len(b) : b[n] \in S
  <2>1. ASSUME NEW m \in 1 .. Len(a) PROVE m \in 1 .. Len(l) /\ l[m] = a[m]
    BY <1>2
  <2>2. ASSUME NEW n \in 1 .. Len(b) PROVE Len(a) + n \in 1 .. Len(l) /\ l[Len(a) + n] = b[n]
    BY <1>2
  <2>3. ASSUME NEW m \in 1 .. Len(a), NEW n \in 1 .. Len(a), a[m] = a[n] PROVE m = n
    BY <1>3, <2>1, <2>3
  <2>4. ASSUME NEW m \in 1 .. Len(b), NEW n \in 1 .. Len(b), b[m] = b[n] PROVE m = n
    <3>1. PICK x \in 1 .. Len(l), y \in 1 .. Len(l) :
            x = Len(a) + m /\ y = Len(a) + n /\ l[x] = b[m] /\ l[y] = b[n]
      BY <2>2
    <3>2. x = y
      BY <1>3, <2>4, <3>1
    <3>. QED BY <1>2, <3>1, <3>2
  <2>5. ASSUME NEW m \in 1 .. Len(a), NEW n \in 1 .. Len(b) PROVE a[m] # b[n]
    <3>1. PICK y \in 1 .. Len(l) : y = Len(a) + n /\ l[y] = b[n]
      BY <2>2
    <3>2. m # y /\ m \in 1 .. Len(l)
      BY <1>2, <3>1
    <3>. QED BY <1>3, <2>1, <3>1, <3>2
  <2>6. ASSUME NEW m \in 1 .. Len(a) PROVE a[m] \in S
    BY <1>3, <2>1
  <2>7. ASSUME NEW n \in 1 .. Len(b) PROVE b[n] \in S
    <3>1. PICK y \in 1 .. Len(l) : y = Len(a) + n /\ l[y] = b[n]
      BY <2>2
    <3>. QED BY <1>3, <3>1
  <2>. QED BY <2>3, <2>4, <2>5, <2>6, <2>7
<1>5. ASSUME NEW s \in Seq(R), \A m, n \in 1 .. Len(s) : s[m] = s[n] => m = n
      PROVE  Once(s, MembersOf(s))
  <2>1. s \in Seq(MembersOf(s))
    <3>1. Len(s) \in Nat /\ s \in [1 .. Len(s) -> MembersOf(s)]
      BY DEF MembersOf
    <3>. QED BY <3>1, ListOf
  <2>2. \A x \in MembersOf(s) : \E n \in 1 .. Len(s) : s[n] = x
    BY DEF MembersOf
  <2>. QED BY <1>5, <2>1, <2>2 DEF Once
<1>6. Once(a, MembersOf(a)) /\ Once(b, MembersOf(b))
  BY <1>4, <1>5
<1>7. MembersOf(a) \cap MembersOf(b) = {}
  <2>1. DOMAIN a = 1 .. Len(a) /\ DOMAIN b = 1 .. Len(b)
    BY ListFacts
  <2>. QED BY <1>4, <2>1 DEF MembersOf
<1>8. MembersOf(a) \cup MembersOf(b) = S
  <2>1. DOMAIN a = 1 .. Len(a) /\ DOMAIN b = 1 .. Len(b)
    BY ListFacts
  <2>2. ASSUME NEW x \in S PROVE x \in MembersOf(a) \/ x \in MembersOf(b)
    <3>1. PICK n \in 1 .. Len(l) : l[n] = x
      BY <1>3
    <3>2. CASE n <= Len(a)
      BY <1>2, <2>1, <3>1, <3>2 DEF MembersOf
    <3>3. CASE n > Len(a)
      <4>1. PICK i \in 1 .. Len(b) : n = Len(a) + i
        <5>1. n - Len(a) \in 1 .. Len(b) /\ n = Len(a) + (n - Len(a))
          BY <1>2, <3>3
        <5>. QED BY <5>1
      <4>2. b[i] = x
        BY <1>2, <3>1, <4>1
      <4>. QED BY <2>1, <4>2 DEF MembersOf
    <3>. QED BY <1>2, <3>2, <3>3
  <2>3. \A x \in MembersOf(a) : x \in S
    BY <1>4, <2>1 DEF MembersOf
  <2>4. \A x \in MembersOf(b) : x \in S
    BY <1>4, <2>1 DEF MembersOf
  <2>. QED BY <2>2, <2>3, <2>4
<1>. QED BY <1>6, <1>7, <1>8 DEF Parted

\* Two lists of disjoint sets joined have each member of both once.
LEMMA JoinOnce ==
  ASSUME NEW a, NEW A, NEW b, NEW B, NEW S, Parted(a, A, b, B, S)
  PROVE  Once(a \o b, S)
<1>1. Once(a, A) /\ Once(b, B) /\ A \cap B = {} /\ A \cup B = S
  BY DEF Parted
<1>2. a \in Seq(S) /\ b \in Seq(S)
  <2>1. a \in Seq(A) /\ b \in Seq(B)
    BY <1>1 DEF Once
  <2>2. Len(a) \in Nat /\ \A i \in 1 .. Len(a) : a[i] \in S
    BY <1>1, <2>1
  <2>3. Len(b) \in Nat /\ \A i \in 1 .. Len(b) : b[i] \in S
    BY <1>1, <2>1
  <2>4. a = [i \in 1 .. Len(a) |-> a[i]] /\ b = [i \in 1 .. Len(b) |-> b[i]]
    BY <2>1
  <2>5. a \in [1 .. Len(a) -> S] /\ b \in [1 .. Len(b) -> S]
    BY <2>2, <2>3, <2>4
  <2>. QED BY <2>2, <2>3, <2>5, ListOf
<1>3. PICK l \in Seq(S) : l = a \o b
  BY <1>2, ConcatFacts
<1>4. /\ Len(l) = Len(a) + Len(b) /\ Len(a) \in Nat /\ Len(b) \in Nat
      /\ \A i \in 1 .. Len(a) : l[i] = a[i]
      /\ \A i \in 1 .. Len(b) : l[Len(a) + i] = b[i]
  BY <1>2, <1>3, ConcatFacts
<1>5. ASSUME NEW x \in S PROVE \E n \in 1 .. Len(l) : l[n] = x
  <2>1. CASE x \in A
    <3>1. PICK n \in 1 .. Len(a) : a[n] = x
      BY <1>1, <2>1 DEF Once
    <3>. QED BY <1>4, <3>1
  <2>2. CASE x \in B
    <3>1. PICK n \in 1 .. Len(b) : b[n] = x
      BY <1>1, <2>2 DEF Once
    <3>2. PICK y \in 1 .. Len(l) : y = Len(a) + n
      BY <1>4
    <3>. QED BY <1>4, <3>1, <3>2
  <2>. QED BY <1>1, <2>1, <2>2
<1>6. ASSUME NEW n \in 1 .. Len(l)
      PROVE  \/ n \in 1 .. Len(a) /\ l[n] = a[n] /\ l[n] \in A
             \/ \E i \in 1 .. Len(b) : n = Len(a) + i /\ l[n] = b[i] /\ l[n] \in B
  <2>1. CASE n <= Len(a)
    <3>1. n \in 1 .. Len(a) /\ a \in Seq(A)
      BY <1>1, <1>4, <2>1 DEF Once
    <3>2. l[n] = a[n]
      BY <1>4, <3>1
    <3>3. a[n] \in A
      BY <3>1, ListFacts
    <3>. QED BY <3>1, <3>2, <3>3, Zenon
  <2>2. CASE n > Len(a)
    <3>1. PICK i \in 1 .. Len(b) : n = Len(a) + i
      <4>1. n - Len(a) \in 1 .. Len(b) /\ n = Len(a) + (n - Len(a))
        BY <1>4, <2>2
      <4>. QED BY <4>1
    <3>2. l[n] = b[i] /\ b \in Seq(B)
      BY <1>1, <1>4, <3>1 DEF Once
    <3>3. b[i] \in B
      BY <3>2, ListFacts
    <3>. QED BY <3>1, <3>2, <3>3, Zenon
  <2>. QED BY <1>4, <2>1, <2>2
<1>7. ASSUME NEW m \in 1 .. Len(l), NEW n \in 1 .. Len(l), l[m] = l[n] PROVE m = n
  <2>1. CASE m \in 1 .. Len(a) /\ l[m] = a[m] /\ l[m] \in A
    <3>1. n \in 1 .. Len(a) /\ l[n] = a[n]
      BY <1>1, <1>6, <1>7, <2>1
    <3>2. \A i, j \in 1 .. Len(a) : a[i] = a[j] => i = j
      BY <1>1 DEF Once
    <3>3. a[m] = a[n]
      BY <1>7, <2>1, <3>1
    <3>. QED BY <2>1, <3>1, <3>2, <3>3, Zenon
  <2>2. CASE \E i \in 1 .. Len(b) : m = Len(a) + i /\ l[m] = b[i] /\ l[m] \in B
    <3>1. PICK i \in 1 .. Len(b) : m = Len(a) + i /\ l[m] = b[i] /\ l[m] \in B
      BY <2>2
    <3>2. PICK j \in 1 .. Len(b) : n = Len(a) + j /\ l[n] = b[j]
      BY <1>1, <1>6, <1>7, <3>1
    <3>3. i = j
      BY <1>1, <1>7, <3>1, <3>2 DEF Once
    <3>. QED BY <3>1, <3>2, <3>3
  <2>. QED BY <1>6, <2>1, <2>2
<1>. QED BY <1>3, <1>5, <1>7 DEF Once

Associates(a, b, c) == (a \o b) \o c = a \o (b \o c)

\* Joining lists is associative.
LEMMA Associative ==
  ASSUME NEW R, NEW a \in Seq(R), NEW b \in Seq(R), NEW c \in Seq(R)
  PROVE  Associates(a, b, c)
BY SMT DEF Associates

\* Another order of the middle of three lists.
LEMMA OnceReordered ==
  ASSUME NEW R, NEW a \in Seq(R), NEW b \in Seq(R), NEW c \in Seq(R), NEW S, Once(a \o (b \o c), S),
         NEW order, Once(order, 1 .. Len(b)), NEW d, d = Reordered(b, order)
  PROVE  Once(a \o (d \o c), S)
<1>1. PICK t \in Seq(R) : t = b \o c
  BY ConcatFacts
<1>2. Parted(a, MembersOf(a), t, MembersOf(t), S)
  BY <1>1, SplitOnce
<1>3. Once(b \o c, MembersOf(t))
  BY <1>1, <1>2 DEF Parted
<1>4. Parted(b, MembersOf(b), c, MembersOf(c), MembersOf(t))
  BY <1>3, SplitOnce
<1>5. Once(d, MembersOf(b))
  BY <1>4, ReorderedOnce DEF Parted
<1>6. Parted(d, MembersOf(b), c, MembersOf(c), MembersOf(t))
  BY <1>4, <1>5 DEF Parted
<1>7. Once(d \o c, MembersOf(t))
  BY <1>6, JoinOnce
<1>8. Parted(a, MembersOf(a), d \o c, MembersOf(t), S)
  BY <1>2, <1>7 DEF Parted
<1>. QED BY <1>8, JoinOnce

States == {"idle", "split", "reduce", "forward", "sent"}

\* What a worker holds, over the rows R.
Parts(R) ==
  [at : States, todo : Seq(Seq(R)), idx : Seq(Seq(Nat)), micro : Seq(Seq(R)), out : Seq(R)]

\* t is what is left of s.
TailOf(t, s) == Len(t) <= Len(s) /\ \A i \in 1 .. Len(t) : t[i] = s[Len(s) - Len(t) + i]

\* How a mini-batch of n rows may be cut into micro-batches.
Plans(plan, n, m) ==
  /\ Shares(plan, 1 .. n)
  /\ m = "fixed" => \E s \in Nat \ {0} : plan = Slices(Counting(n), s)

Passes(w, c) == w.at = "forward" \/ (w.at = "sent" /\ c = "log_prob")
Waits(w) == w.at \in {"split", "reduce"}

\* A rank has made the first passes of its plan, and has the others before it.
Follows(w, plan) == w.idx = plan /\ TailOf(w.micro, Mapped(Head(w.todo), plan))

\* The results a rank has and those to come are those of its chunk: in the order of its
\* micro-batches while it computes log probabilities ...
Computes(w, chunk) ==
  /\ Len(w.todo) = 1 /\ Head(w.todo) = chunk
  /\ Waits(w) => w.out = <<>>
  /\ w.at = "forward" => w.out \o FlattenSeq(w.micro) = FlattenSeq(Mapped(chunk, w.idx))
  /\ w.at = "sent" => w.out = chunk

\* ... and each row once in an update.
Trains(w, members) ==
  /\ Waits(w) => Once(w.out \o FlattenSeq(w.todo), members)
  /\ w.at = "forward" => Once(w.out \o (FlattenSeq(w.micro) \o FlattenSeq(Tail(w.todo))), members)
  /\ w.at = "sent" => w.todo = <<>> /\ Once(w.out, members)

Works(w, chunk, plan, size, c) ==
  /\ \A i \in 1 .. Len(w.todo) : Len(w.todo[i]) = size
  /\ w.at # "sent" => w.todo # <<>>
  /\ w.at # "forward" => w.micro = <<>>
  /\ Passes(w, c) => Follows(w, plan)
  /\ c = "log_prob" => Computes(w, chunk)
  /\ c = "update" => Trains(w, MembersOf(chunk))

\* The fields of what a worker holds.
LEMMA PartsFields ==
  ASSUME NEW R, NEW w \in Parts(R)
  PROVE  /\ w.at \in States /\ w.todo \in Seq(Seq(R)) /\ w.idx \in Seq(Seq(Nat))
         /\ w.micro \in Seq(Seq(R)) /\ w.out \in Seq(R)
BY DEF Parts

\* What an idle worker holds.
LEMMA IdleFields ==
  ASSUME NEW R
  PROVE  /\ Idle \in Parts(R) /\ Idle.at = "idle" /\ Idle.todo = <<>> /\ Idle.idx = <<>>
         /\ Idle.micro = <<>> /\ Idle.out = <<>>
BY DEF Parts, Idle, States

\* All of a list is left of it before it is begun.
LEMMA TailOfItself ==
  ASSUME NEW S, NEW s \in Seq(S) PROVE TailOf(s, s)
<1>1. Len(s) \in Nat
  OBVIOUS
<1>2. \A i \in 1 .. Len(s) : Len(s) - Len(s) + i = i
  BY <1>1
<1>. QED BY <1>1, <1>2 DEF TailOf

\* The rest of what is left is left.
LEMMA TailOfNext ==
  ASSUME NEW S, NEW s, Len(s) \in Int, NEW t \in Seq(S), t # <<>>, TailOf(t, s)
  PROVE  TailOf(Tail(t), s)
<1>1. /\ Len(t) \in Nat \ {0} /\ Tail(t) \in Seq(S) /\ Len(Tail(t)) = Len(t) - 1
      /\ \A i \in 1 .. Len(t) - 1 : Tail(t)[i] = t[i + 1]
  BY TailFacts, ListFacts
<1>2. Len(t) <= Len(s) /\ \A i \in 1 .. Len(t) : t[i] = s[Len(s) - Len(t) + i]
  BY DEF TailOf
<1>3. ASSUME NEW i \in 1 .. Len(Tail(t))
      PROVE  Tail(t)[i] = s[Len(s) - Len(Tail(t)) + i]
  <2>1. PICK j \in 1 .. Len(t) : j = i + 1
    BY <1>1
  <2>2. Tail(t)[i] = t[j]
    BY <1>1, <2>1
  <2>3. Len(s) - Len(Tail(t)) + i = Len(s) - Len(t) + j
    BY <1>1, <2>1
  <2>. QED BY <1>2, <2>2, <2>3
<1>. QED BY <1>1, <1>2, <1>3 DEF TailOf

\* As many lists as there are of positions.
LEMMA MappedLength ==
  ASSUME NEW S, NEW idx \in Seq(S), NEW list PROVE Len(Mapped(list, idx)) = Len(idx)
<1>1. DOMAIN idx = 1 .. Len(idx) /\ Len(idx) \in Nat
  OBVIOUS
<1>. QED BY <1>1 DEF Mapped

\* Two tails of one list are the same if they are as long.
LEMMA SameTails ==
  ASSUME NEW S, NEW T, NEW s, NEW t \in Seq(S), NEW u \in Seq(T), TailOf(t, s), TailOf(u, s), Len(t) = Len(u)
  PROVE  t = u
BY SameLists DEF TailOf

\* Dispatch
Handed(v, todo) == v = [Idle EXCEPT !.at = "split", !.todo = todo]

\* What a worker holds when it is given its chunk.
LEMMA HandedFields ==
  ASSUME NEW R, NEW todo \in Seq(Seq(R)), NEW v, Handed(v, todo)
  PROVE  /\ v \in Parts(R) /\ v.at = "split" /\ v.todo = todo
         /\ v.idx = <<>> /\ v.micro = <<>> /\ v.out = <<>>
<1>1. /\ v.at = "split" /\ v.todo = todo /\ v.idx = <<>> /\ v.micro = <<>> /\ v.out = <<>>
      /\ v = [at |-> "split", todo |-> todo, idx |-> <<>>, micro |-> <<>>, out |-> <<>>]
  BY DEF Idle, Handed
<1>2. "split" \in States /\ <<>> \in Seq(Seq(Nat)) /\ <<>> \in Seq(Seq(R)) /\ <<>> \in Seq(R)
  BY DEF States
<1>3. v \in Parts(R)
  BY <1>1, <1>2, Zenon DEF Parts
<1>. QED BY <1>1, <1>3

\* A chunk can be cut into D mini-batches of a size.
Handable(chunk, size, D, c, R) ==
  /\ chunk \in Seq(R) /\ Once(chunk, MembersOf(chunk))
  /\ size \in Nat \ {0} /\ D \in Nat \ {0} /\ Len(chunk) = size * D
  /\ c \in {"log_prob", "update"} /\ (c = "log_prob" => size = Len(chunk))

\* A worker with a chunk has its work before it.
LEMMA WorkStarts ==
  ASSUME NEW R, NEW chunk, NEW size, NEW D, NEW c, Handable(chunk, size, D, c, R),
         NEW plan, NEW v, Handed(v, Slices(chunk, size))
  PROVE  /\ v \in Parts(R) /\ v.at = "split" /\ v.todo = Slices(chunk, size) /\ v.idx = <<>> /\ v.micro = <<>>
         /\ Len(Slices(chunk, size)) = D
         /\ Works(v, chunk, plan, size, c)
<1>1. /\ chunk \in Seq(R) /\ Once(chunk, MembersOf(chunk))
      /\ size \in Nat \ {0} /\ D \in Nat \ {0} /\ Len(chunk) = size * D
      /\ c \in {"log_prob", "update"} /\ (c = "log_prob" => size = Len(chunk))
  BY DEF Handable
<1>2. PICK pp : pp = Slices(chunk, size)
  OBVIOUS
<1>3. Exactly(pp, chunk, size, D, R)
  BY <1>1, <1>2, ExactSlices
<1>4. pp \in Seq(Seq(R)) /\ Len(pp) = D /\ \A i \in 1 .. D : Len(pp[i]) = size
  BY <1>3 DEF Exactly
<1>5. FlattenSeq(pp) = chunk
  BY <1>1, <1>2, SlicesAre
<1>6. /\ v.at = "split" /\ v.todo = pp /\ v.idx = <<>> /\ v.micro = <<>> /\ v.out = <<>>
      /\ v \in Parts(R)
  <2>1. Handed(v, pp)
    BY <1>2
  <2>. QED BY <1>4, <2>1, HandedFields
<1>7. pp # <<>>
  BY <1>1, <1>4
<1>8. ASSUME c = "log_prob" PROVE Computes(v, chunk)
  <2>1. D = 1
    <3>1. \A x, y \in Nat \ {0} : x = x * y => y = 1
      OBVIOUS
    <3>2. size = size * D
      BY <1>1, <1>8
    <3>. QED BY <1>1, <3>1, <3>2
  <2>2. /\ pp[1] \in Seq(R) /\ Len(pp[1]) = size
        /\ \A i \in 1 .. size : pp[1][i] = chunk[size * (1 - 1) + i]
    <3>1. PICK d \in 1 .. D : d = 1
      BY <2>1
    <3>2. /\ pp[d] \in Seq(R) /\ Len(pp[d]) = size
          /\ \A i \in 1 .. size : pp[d][i] = chunk[size * (d - 1) + i]
      BY <1>3 DEF Exactly
    <3>. QED BY <3>1, <3>2
  <2>3. \A i \in 1 .. size : size * (1 - 1) + i = i
    BY <1>1
  <2>4. pp[1] = chunk
    BY <1>1, <1>8, <2>2, <2>3, SameLists
  <2>5. Head(pp) = chunk
    BY <1>4, <1>7, <2>4, TailFacts
  <2>. QED BY <1>4, <1>6, <2>1, <2>5 DEF Computes, Waits
<1>9. ASSUME c = "update" PROVE Trains(v, MembersOf(chunk))
  <2>1. <<>> \o FlattenSeq(pp) = chunk
    BY <1>1, <1>5, EmptyConcat
  <2>. QED BY <1>1, <1>6, <2>1 DEF Trains, Waits
<1>10. Works(v, chunk, plan, size, c)
  BY <1>4, <1>6, <1>7, <1>8, <1>9 DEF Works, Passes
<1>. QED BY <1>2, <1>4, <1>6, <1>10

\* Begin, of an engine worker
LEMMA WorkReduces ==
  ASSUME NEW R, NEW w \in Parts(R), NEW chunk, NEW plan, NEW size, NEW c, Works(w, chunk, plan, size, c),
         w.at = "split", NEW v, v = [w EXCEPT !.at = "reduce"]
  PROVE  /\ v \in Parts(R) /\ v.at = "reduce" /\ v.todo = w.todo /\ v.idx = w.idx /\ v.micro = w.micro
         /\ Works(v, chunk, plan, size, c)
<1>1. /\ v.at = "reduce" /\ v.todo = w.todo /\ v.idx = w.idx /\ v.micro = w.micro /\ v.out = w.out
      /\ v \in Parts(R)
  BY DEF Parts, States
<1>2. Waits(w) /\ Waits(v) /\ ~Passes(v, c)
  BY <1>1 DEF Waits, Passes
<1>3. Computes(w, chunk) => Computes(v, chunk)
  BY <1>1, <1>2 DEF Computes
<1>4. Trains(w, MembersOf(chunk)) => Trains(v, MembersOf(chunk))
  BY <1>1, <1>2 DEF Trains
<1>5. Works(v, chunk, plan, size, c)
  BY <1>1, <1>2, <1>3, <1>4 DEF Works
<1>. QED BY <1>1, <1>5

\* Split
Cuts(v, w, plan) ==
  v = [w EXCEPT !.at = "forward", !.idx = plan, !.micro = Mapped(Head(w.todo), plan)]

\* A rank that cuts its mini-batch has its passes before it.
LEMMA WorkSplits ==
  ASSUME NEW R, NEW w \in Parts(R), NEW chunk, NEW plan, NEW size \in Nat, NEW c, NEW m,
         Works(w, chunk, plan, size, c), Waits(w), Plans(plan, size, m), plan \in Seq(Seq(Nat)),
         NEW v, Cuts(v, w, plan)
  PROVE  /\ v \in Parts(R) /\ v.at = "forward" /\ v.todo = w.todo /\ v.idx = plan
         /\ Len(v.micro) = Len(plan) /\ w.todo # <<>>
         /\ Works(v, chunk, plan, size, c)
<1>1. /\ w.todo \in Seq(Seq(R)) /\ w.out \in Seq(R) /\ w.at \in {"split", "reduce"}
      /\ \A i \in 1 .. Len(w.todo) : Len(w.todo[i]) = size
      /\ w.todo # <<>>
      /\ c = "log_prob" => Computes(w, chunk)
      /\ c = "update" => Trains(w, MembersOf(chunk))
  BY PartsFields DEF Works, Waits
<1>2. PICK todo \in Seq(Seq(R)) : todo = w.todo
  BY <1>1
<1>3. PICK mini \in Seq(R) : mini = Head(todo) /\ Len(mini) = size
  <2>1. Head(todo) \in Seq(R) /\ Head(todo) = todo[1] /\ Len(todo) \in Nat \ {0}
    BY <1>1, <1>2, TailFacts
  <2>2. Len(todo[1]) = size
    <3>1. PICK i \in 1 .. Len(todo) : i = 1
      BY <2>1
    <3>. QED BY <1>1, <1>2, <3>1
  <2>. QED BY <2>1, <2>2
<1>4. PICK tail \in Seq(Seq(R)) : tail = Tail(todo) /\ FlattenSeq(todo) = mini \o FlattenSeq(tail)
  <2>1. todo # <<>>
    BY <1>1, <1>2
  <2>2. Tail(todo) \in Seq(Seq(R))
    BY <2>1, TailFacts
  <2>3. FlattenSeq(todo) = Head(todo) \o FlattenSeq(Tail(todo))
    BY <2>1, FlattenTail
  <2>. QED BY <1>3, <2>2, <2>3, Zenon
<1>5. PICK rest \in Seq(R) : rest = FlattenSeq(tail)
  BY FlattenLocated
<1>6. Shares(plan, 1 .. size)
  BY DEF Plans
<1>7. PICK micro \in Seq(Seq(R)) : micro = Mapped(mini, plan) /\ Len(micro) = Len(plan)
  BY <1>3, <1>6, MappedIs
<1>8. PICK order : /\ order = FlattenSeq(plan) /\ Once(order, 1 .. size)
                   /\ FlattenSeq(micro) = Reordered(mini, order)
  BY <1>3, <1>6, <1>7, MappedIs
<1>9. PICK done \in Seq(R) : done = FlattenSeq(micro)
  BY FlattenLocated
<1>10. /\ v.at = "forward" /\ v.todo = todo /\ v.idx = plan /\ v.micro = micro /\ v.out = w.out
       /\ v \in Parts(R)
  BY <1>1, <1>2, <1>3, <1>7 DEF Parts, States, Cuts
<1>11. ASSUME c = "log_prob" PROVE Computes(v, chunk)
  <2>1. Len(todo) = 1 /\ mini = chunk /\ w.out = <<>>
    BY <1>1, <1>2, <1>3, <1>11 DEF Computes, Waits
  <2>2. <<>> \o done = done
    BY EmptyConcat
  <2>. QED BY <1>2, <1>3, <1>7, <1>9, <1>10, <2>1, <2>2 DEF Computes, Waits
<1>12. ASSUME c = "update" PROVE Trains(v, MembersOf(chunk))
  <2>1. PICK out \in Seq(R) : out = w.out
    BY <1>1
  <2>2. Once(out \o (mini \o rest), MembersOf(chunk))
    BY <1>1, <1>2, <1>4, <1>5, <1>12, <2>1 DEF Trains
  <2>3. Once(out \o (done \o rest), MembersOf(chunk))
    BY <1>3, <1>8, <1>9, <2>2, OnceReordered
  <2>. QED BY <1>4, <1>5, <1>9, <1>10, <2>1, <2>3 DEF Trains, Waits
<1>13. Follows(v, plan)
  BY <1>2, <1>3, <1>7, <1>10, TailOfItself DEF Follows
<1>14. Works(v, chunk, plan, size, c)
  BY <1>1, <1>2, <1>10, <1>11, <1>12, <1>13 DEF Works
<1>. QED BY <1>1, <1>2, <1>7, <1>10, <1>14

\* Forward
Passed(v, w) == v = [w EXCEPT !.micro = Tail(@), !.out = @ \o Head(w.micro)]

\* A rank that makes a pass keeps to its work.
LEMMA WorkPasses ==
  ASSUME NEW R, NEW w \in Parts(R), w.micro # <<>>,
         NEW v, Passed(v, w)
  PROVE  /\ v \in Parts(R) /\ v.at = w.at /\ v.todo = w.todo /\ v.idx = w.idx
         /\ Len(v.micro) = Len(w.micro) - 1 /\ Len(w.micro) \in Nat
         /\ \A chunk, plan, size, c : Works(w, chunk, plan, size, c) => Works(v, chunk, plan, size, c)
<1>1. PICK micro \in Seq(Seq(R)) : micro = w.micro /\ micro # <<>>
  BY PartsFields
<1>2. PICK first \in Seq(R), tail \in Seq(Seq(R)) :
        /\ first = Head(micro) /\ tail = Tail(micro) /\ Len(tail) = Len(micro) - 1 /\ Len(micro) \in Nat
        /\ FlattenSeq(micro) = first \o FlattenSeq(tail)
  <2>1. Head(micro) \in Seq(R) /\ Tail(micro) \in Seq(Seq(R)) /\ Len(Tail(micro)) = Len(micro) - 1 /\ Len(micro) \in Nat
    BY <1>1, TailFacts
  <2>2. FlattenSeq(micro) = Head(micro) \o FlattenSeq(Tail(micro))
    BY <1>1, FlattenTail
  <2>. QED BY <2>1, <2>2, Zenon
<1>3. PICK out \in Seq(R) : out = w.out
  BY PartsFields
<1>4. PICK rest \in Seq(R) : rest = FlattenSeq(tail)
  BY FlattenLocated
<1>5. /\ v.at = w.at /\ v.todo = w.todo /\ v.idx = w.idx /\ v.micro = tail /\ v.out = out \o first
      /\ v = [at |-> w.at, todo |-> w.todo, idx |-> w.idx, micro |-> tail, out |-> out \o first]
  BY <1>1, <1>2, <1>3 DEF Parts, Passed
<1>6. v \in Parts(R)
  <2>1. out \o first \in Seq(R)
    BY ConcatFacts
  <2>. QED BY <1>5, <2>1, PartsFields DEF Parts
<1>7. ASSUME NEW chunk, NEW plan, NEW size, NEW c, Works(w, chunk, plan, size, c)
      PROVE  Works(v, chunk, plan, size, c)
  <2>1. /\ w.at = "forward" /\ Follows(w, plan)
        /\ c = "log_prob" => Computes(w, chunk)
        /\ c = "update" => Trains(w, MembersOf(chunk))
    BY <1>1, <1>7 DEF Works, Passes
  <2>2. Follows(v, plan)
    <3>1. w.idx = plan /\ TailOf(micro, Mapped(Head(w.todo), plan))
      BY <1>1, <2>1 DEF Follows
    <3>2. PICK s : s = Mapped(Head(w.todo), plan)
      OBVIOUS
    <3>3. Len(s) \in Int
      <4>1. plan \in Seq(Seq(Nat))
        BY <3>1, PartsFields
      <4>2. Len(s) = Len(plan)
        BY <3>2, <4>1, MappedLength
      <4>. QED BY <4>1, <4>2
    <3>4. TailOf(tail, s)
      BY <1>1, <1>2, <3>1, <3>2, <3>3, TailOfNext
    <3>. QED BY <1>5, <3>1, <3>2, <3>4 DEF Follows
  <2>3. ASSUME c = "log_prob" PROVE Computes(v, chunk)
    <3>1. out \o (first \o rest) = FlattenSeq(Mapped(chunk, w.idx)) /\ Len(w.todo) = 1 /\ Head(w.todo) = chunk
      BY <1>1, <1>2, <1>3, <1>4, <2>1, <2>3 DEF Computes
    <3>2. Associates(out, first, rest)
      BY Associative
    <3>3. (out \o first) \o rest = out \o (first \o rest)
      BY <3>2 DEF Associates
    <3>. QED BY <1>4, <1>5, <2>1, <3>1, <3>3 DEF Computes, Waits
  <2>4. ASSUME c = "update" PROVE Trains(v, MembersOf(chunk))
    <3>1. w.todo # <<>> /\ w.todo \in Seq(Seq(R))
      BY <1>7, <2>1, PartsFields DEF Works
    <3>2. PICK more \in Seq(R) : more = FlattenSeq(Tail(w.todo))
      BY <3>1, TailFacts, FlattenLocated
    <3>3. Once(out \o ((first \o rest) \o more), MembersOf(chunk))
      BY <1>1, <1>2, <1>3, <1>4, <2>1, <2>4, <3>2 DEF Trains
    <3>4. out \o ((first \o rest) \o more) = (out \o first) \o (rest \o more)
      <4>1. PICK both \in Seq(R) : both = rest \o more
        BY ConcatFacts
      <4>2. Associates(first, rest, more) /\ Associates(out, first, both)
        BY Associative
      <4>. QED BY <4>1, <4>2, Zenon DEF Associates
    <3>. QED BY <1>4, <1>5, <2>1, <3>2, <3>3, <3>4 DEF Trains, Waits
  <2>. QED BY <1>5, <1>7, <2>1, <2>2, <2>3, <2>4 DEF Works
<1>. QED BY <1>1, <1>2, <1>5, <1>6, <1>7

\* OptimizerStep
Stepped(v, w) == v = [w EXCEPT !.at = IF Len(w.todo) = 1 THEN "sent" ELSE "split", !.todo = Tail(@)]

\* ... as does one that makes an optimizer step, whatever it plans next.
LEMMA WorkSteps ==
  ASSUME NEW R, NEW w \in Parts(R), NEW chunk, NEW plan, NEW size, Works(w, chunk, plan, size, "update"),
         w.at = "forward", w.micro = <<>>, NEW v, Stepped(v, w)
  PROVE  /\ v \in Parts(R) /\ v.at = IF Len(w.todo) = 1 THEN "sent" ELSE "split"
         /\ v.todo = Tail(w.todo) /\ Len(v.todo) = Len(w.todo) - 1 /\ v.idx = w.idx /\ v.micro = w.micro
         /\ \A other : Works(v, chunk, other, size, "update")
<1>1. /\ w.todo \in Seq(Seq(R)) /\ w.out \in Seq(R) /\ w.todo # <<>>
      /\ \A i \in 1 .. Len(w.todo) : Len(w.todo[i]) = size
      /\ Trains(w, MembersOf(chunk))
  BY PartsFields DEF Works
<1>2. PICK todo \in Seq(Seq(R)) : todo = w.todo /\ todo # <<>>
  BY <1>1
<1>3. PICK tail \in Seq(Seq(R)) :
        /\ tail = Tail(todo) /\ Len(tail) = Len(todo) - 1 /\ Len(todo) \in Nat \ {0}
        /\ \A i \in 1 .. Len(todo) - 1 : tail[i] = todo[i + 1]
  <2>1. /\ Tail(todo) \in Seq(Seq(R)) /\ Len(Tail(todo)) = Len(todo) - 1 /\ Len(todo) \in Nat \ {0}
        /\ \A i \in 1 .. Len(todo) - 1 : Tail(todo)[i] = todo[i + 1]
    BY <1>2, TailFacts
  <2>. QED BY <2>1, Zenon
<1>4. PICK out \in Seq(R), rest \in Seq(R) : out = w.out /\ rest = FlattenSeq(tail)
  BY <1>1, FlattenLocated
<1>5. PICK at \in States : at = IF Len(todo) = 1 THEN "sent" ELSE "split"
  BY DEF States
<1>6. /\ v.at = at /\ v.todo = tail /\ v.idx = w.idx /\ v.micro = w.micro /\ v.out = out
      /\ v \in Parts(R)
  <2>1. /\ v.at = at /\ v.todo = tail /\ v.idx = w.idx /\ v.micro = w.micro /\ v.out = out
        /\ v = [at |-> at, todo |-> tail, idx |-> w.idx, micro |-> w.micro, out |-> w.out]
    BY <1>2, <1>3, <1>4, <1>5 DEF Parts, Stepped
  <2>. QED BY <2>1, PartsFields DEF Parts
<1>7. Once(out \o rest, MembersOf(chunk))
  <2>1. Once(out \o (FlattenSeq(<<>>) \o rest), MembersOf(chunk))
    BY <1>1, <1>2, <1>3, <1>4 DEF Trains
  <2>2. FlattenSeq(<<>>) \o rest = rest
    BY FlattenEmpty, EmptyConcat
  <2>. QED BY <2>1, <2>2
<1>8. Trains(v, MembersOf(chunk))
  <2>1. CASE Len(todo) = 1
    <3>1. at = "sent" /\ tail = <<>>
      <4>1. Len(tail) = 0 /\ at = "sent"
        BY <1>3, <1>5, <2>1
      <4>. QED BY <4>1
    <3>2. rest = <<>>
      BY <1>4, <3>1, FlattenEmpty
    <3>3. Once(out, MembersOf(chunk))
      BY <1>7, <3>2, EmptyConcat
    <3>. QED BY <1>6, <3>1, <3>3 DEF Trains, Waits
  <2>2. CASE Len(todo) # 1
    <3>1. at = "split"
      BY <1>5, <2>2
    <3>. QED BY <1>4, <1>6, <1>7, <3>1 DEF Trains, Waits
  <2>. QED BY <2>1, <2>2
<1>9. ASSUME NEW other PROVE Works(v, chunk, other, size, "update")
  <2>1. ASSUME NEW i \in 1 .. Len(tail) PROVE Len(tail[i]) = size
    <3>1. PICK j \in 1 .. Len(todo) : j = i + 1 /\ i \in 1 .. Len(todo) - 1
      BY <1>3
    <3>2. tail[i] = todo[j]
      BY <1>3, <3>1
    <3>. QED BY <1>1, <1>2, <3>2
  <2>2. at # "sent" => tail # <<>>
    <3>1. at # "sent" => Len(tail) > 0
      BY <1>3, <1>5
    <3>. QED BY <3>1
  <2>3. at # "forward"
    BY <1>5
  <2>. QED BY <1>6, <1>8, <2>1, <2>2, <2>3 DEF Works, Passes
<1>. QED BY <1>2, <1>3, <1>5, <1>6, <1>9

\* Finish
Finished(v, w, m) ==
  v = [w EXCEPT !.at = "sent", !.out = IF m = "fixed" THEN @ ELSE Restore(@, w.idx)]

\* ... and one that finishes, which has its results in the order of its chunk.
LEMMA WorkFinishes ==
  ASSUME NEW R, NEW w \in Parts(R), NEW chunk \in Seq(R), NEW n \in Nat, Len(chunk) = n,
         NEW m, NEW plan, Plans(plan, n, m), NEW size,
         Works(w, chunk, plan, size, "log_prob"), w.at = "forward", w.micro = <<>>,
         NEW v, Finished(v, w, m)
  PROVE  /\ v \in Parts(R) /\ v.at = "sent" /\ v.todo = w.todo /\ v.idx = w.idx /\ v.micro = w.micro
         /\ Works(v, chunk, plan, size, "log_prob")
<1>1. Follows(w, plan) /\ Computes(w, chunk) /\ \A i \in 1 .. Len(w.todo) : Len(w.todo[i]) = size
  BY DEF Works, Passes
<1>2. PICK data : data = FlattenSeq(Mapped(chunk, plan))
  OBVIOUS
<1>3. w.out = data
  <2>1. w.out \o FlattenSeq(w.micro) = data /\ w.out \in Seq(R)
    BY <1>1, <1>2, PartsFields DEF Computes, Follows
  <2>. QED BY <2>1, FlattenEmpty, EmptyConcat
<1>4. Restore(data, plan) = chunk
  BY <1>2, RestoreIs DEF Plans
<1>5. m = "fixed" => data = chunk
  <2>1. ASSUME m = "fixed" PROVE data = chunk
    <3>1. PICK s \in Nat \ {0} : plan = Slices(Counting(n), s)
      BY <2>1 DEF Plans
    <3>. QED BY <1>2, <3>1, PlainSlices
  <2>. QED BY <2>1
<1>6. /\ v.at = "sent" /\ v.todo = w.todo /\ v.idx = w.idx /\ v.micro = w.micro
      /\ v.out = IF m = "fixed" THEN w.out ELSE Restore(w.out, w.idx)
      /\ v = [at |-> "sent", todo |-> w.todo, idx |-> w.idx, micro |-> w.micro, out |-> v.out]
  BY DEF Parts, Finished
<1>7. v.out = chunk
  BY <1>1, <1>3, <1>4, <1>5, <1>6 DEF Follows
<1>8. v \in Parts(R)
  <2>1. "sent" \in States
    BY DEF States
  <2>. QED BY <1>6, <1>7, <2>1, PartsFields DEF Parts
<1>9. Computes(v, chunk) /\ Follows(v, plan)
  BY <1>1, <1>6, <1>7 DEF Computes, Follows, Waits
<1>10. Works(v, chunk, plan, size, "log_prob")
  BY <1>1, <1>6, <1>9 DEF Works
<1>. QED BY <1>6, <1>8, <1>10

(***************************************************************************)
(* The inductive invariant.                                                *)
(***************************************************************************)
ChunkSize == NumRows \div DpSize

Types ==
  /\ mode \in Modes \cup {"validate"} /\ grouped \in BOOLEAN
  /\ worker \in [Workers -> Parts(DOMAIN lens)]
  /\ \A w \in Workers : At(w) = "reduce" => mode = "engine"
  /\ Train => lens \in [1 .. NumRows -> Lengths] /\ call \in {"balance", "log_prob", "update", "done", "failed"}
  /\ ~Train => lens \in Seq({Min(Lengths)}) /\ lens # <<>> /\ call \in {"pad", "generate", "done"}

Largest == Max(Range(Workloads(lens)))
Smallest == Min(Range(Workloads(lens)))
Share == IF grouped THEN GroupSize ELSE 1

BatchFair ==
  /\ Once(batch, 1 .. NumRows)
  /\ Fair(Slices(batch, ChunkSize), 1 .. NumRows, Workloads(lens), DpSize, Largest * Share - Smallest * Share, TRUE)
  /\ grouped => Apiece(Slices(batch, ChunkSize), GroupSize)

Batches == Train =>
  IF call = "balance" THEN batch = Counting(NumRows) /\ \A r \in Ranks : worker[r] = Idle ELSE BatchFair

Calling == Train /\ call \in {"log_prob", "update"}

Size == IF call = "update" THEN MiniSize ELSE ChunkSize

\* The number of micro-batches a rank will make, and the micro-batches.
Want(r) == IF mode = "engine" THEN Max({CountOf(q) : q \in DpGroup(r)}) ELSE CountOf(r)
Plan(r) == MicroIdx(Head(worker[r].todo), Want(r))

Working == Calling => \A r \in Ranks :
  IF At(r) = "idle" THEN \A q \in Ranks : worker[q] = Idle
                    ELSE Works(worker[r], Chunk(r), Plan(r), Size, call)

\* Two ranks, at the places d and e, are as far in a call c, and peers have the same rows.
Level(v, w, d, e, c) ==
  /\ Len(v.todo) = Len(w.todo)
  /\ d = e => v.todo = w.todo
  /\ Passes(v, c) /\ Passes(w, c) => Len(v.idx) - Len(v.micro) = Len(w.idx) - Len(w.micro)
  /\ v.at \in {"forward", "sent"} /\ Waits(w) => v.at = "forward" /\ Len(v.micro) = Len(v.idx)
  /\ c = "update" /\ v.at = "sent" => w.at = "sent"

Together == Calling => 
  \A r, q \in Ranks : Level(worker[r], worker[q], DpRank(r), DpRank(q), call)

MicrosFair(w) ==
  /\ w.todo # <<>>
  /\ Fair(w.idx, 1 .. Len(Head(w.todo)), Workloads(LensOf(Head(w.todo))), Len(w.idx), Largest, FALSE)
  /\ \A i \in 1 .. Len(w.idx) : w.idx[i] # <<>>

AllMicrosFair == Train /\ mode # "fixed" => \A r \in Ranks : At(r) = "forward" => MicrosFair(worker[r])

Results ==
  /\ Train /\ call \in {"update", "done"} => result = batch
  /\ Train /\ call = "done" => \A r \in Ranks : At(r) = "sent" /\ Once(worker[r].out, MembersOf(Chunk(r)))

PadsTo(padded, n) ==
  /\ padded \in Seq(1 .. n) /\ Len(padded) = NumWorkers * CeilDiv(n, NumWorkers)
  /\ \A i \in 1 .. n : padded[i] = i

Validating == ~Train =>
  /\ call = "pad" => batch = Counting(Len(lens)) /\ \A w \in Workers : At(w) = "idle"
  /\ call = "generate" => PadsTo(batch, Len(lens))
  /\ call = "generate" => \A w \in Workers :
       /\ At(w) \in {"idle", "split", "sent"}
       /\ At(w) = "split" => Head(worker[w].todo) = Chunk(w)
       /\ At(w) = "sent" => worker[w].out = Chunk(w)
  /\ call = "done" => result = Counting(Len(lens))

IInv == Types /\ Batches /\ Working /\ Together /\ AllMicrosFair /\ Results /\ Validating /\ CallsMeet

(***************************************************************************)
(* The sizes and the mesh.                                                 *)
(***************************************************************************)
LEMMA SizesAre ==
  /\ NumRows \in Nat \ {0} /\ GroupSize \in Nat \ {0} /\ DpSize \in Nat \ {0} /\ SpSize \in Nat \ {0}
  /\ MaxTokenLen \in Nat \ {0} /\ MiniSize \in Nat \ {0} /\ MicroSize \in Nat \ {0}
  /\ LogProbSize \in Nat \ {0} /\ NumWorkers \in Nat \ {0} /\ MaxValRows \in Nat \ {0}
BY SizesAssumption

\* The chunk of a data parallel rank has rows, and whole groups and mini-batches of them.
LEMMA ChunkSizeIs ==
  /\ ChunkSize \in Nat \ {0} /\ NumRows = ChunkSize * DpSize /\ Divisible(NumRows, DpSize, GroupSize)
  /\ NumRows % DpSize = 0
  /\ \E D \in Nat \ {0} : ChunkSize = MiniSize * D
<1>1. Divisible(NumRows, DpSize, GroupSize)
  BY SizesAssumption DEF Divisible
<1>2. PICK N \in Nat \ {0} : Divided(NumRows, DpSize, GroupSize, N)
  BY <1>1, SizesAre, GroupCount
<1>3. PICK q \in Nat : N = DpSize * q
  <2>1. N % DpSize = 0 /\ DpSize \in Nat \ {0}
    BY <1>2, SizesAre DEF Divided
  <2>. QED BY <2>1, ExactDiv
<1>4. PICK c \in Nat : c = GroupSize * q
  BY SizesAre
<1>5. NumRows = DpSize * c
  <2>1. NumRows = GroupSize * (DpSize * q)
    BY <1>2, <1>3 DEF Divided
  <2>2. \A x, y, z \in Nat : x * (y * z) = y * (x * z)
    OBVIOUS
  <2>. QED BY <1>4, <2>1, <2>2, SizesAre
<1>6. ChunkSize = c /\ NumRows % DpSize = 0
  BY <1>5, SizesAre, ModZero DEF ChunkSize
<1>7. c # 0
  <2>1. ASSUME c = 0 PROVE FALSE
    <3>1. NumRows = 0
      BY <1>5, <2>1, SizesAre
    <3>. QED BY <3>1, SizesAre
  <2>. QED BY <2>1
<1>8. \E D \in Nat \ {0} : c = MiniSize * D
  <2>1. c % MiniSize = 0
    BY <1>6, SizesAssumption DEF ChunkSize
  <2>2. PICK D \in Nat : c = MiniSize * D
    <3>1. MiniSize \in Nat \ {0}
      BY SizesAre
    <3>2. c \div MiniSize \in Nat /\ c = MiniSize * (c \div MiniSize)
      BY <2>1, <3>1, ExactDiv
    <3>. QED BY <3>2
  <2>3. D # 0
    BY <1>7, <2>2, SizesAre
  <2>. QED BY <2>2, <2>3
<1>9. DpSize * c = c * DpSize
  BY SizesAre
<1>. QED BY <1>1, <1>5, <1>6, <1>7, <1>8, <1>9

\* The place of a rank in the mesh.
LEMMA RanksAre ==
  ASSUME NEW r \in Ranks
  PROVE  /\ r \in Nat /\ r < DpSize * SpSize
         /\ \E q \in Nat, i \in Nat : r = SpSize * q + i /\ i < SpSize /\ q < DpSize /\ r \div SpSize = q /\ r % SpSize = i
<1>1. PICK N \in Nat : N = DpSize * SpSize /\ N = SpSize * DpSize
  BY SizesAre
<1>2. r \in Nat /\ r < N
  BY <1>1 DEF Ranks
<1>3. PICK q \in Nat, i \in Nat : r = SpSize * q + i /\ i < SpSize /\ r \div SpSize = q
  BY <1>2, SizesAre, DivIs
<1>4. r % SpSize = i
  BY <1>3, SizesAre, ModIs
<1>5. q < DpSize
  <2>1. PICK a \in Nat : a = SpSize * q
    BY SizesAre
  <2>2. a < N
    BY <1>2, <1>3, <2>1
  <2>3. \A x, y \in Nat : x >= y => SpSize * x >= SpSize * y
    BY SizesAre
  <2>. QED BY <1>1, <2>1, <2>2, <2>3, SizesAre
<1>. QED BY <1>1, <1>2, <1>3, <1>4, <1>5

\* The rank at a place of the mesh.
LEMMA RankAt ==
  ASSUME NEW q \in Nat, q < DpSize, NEW i \in Nat, i < SpSize
  PROVE  \E r \in Ranks : r = SpSize * q + i /\ r \div SpSize = q /\ r % SpSize = i
<1>1. PICK r \in Nat : r = SpSize * q + i
  BY SizesAre
<1>2. r \div SpSize = q /\ r % SpSize = i
  BY <1>1, SizesAre, DivUnique, ModIs
<1>3. r \in Ranks
  <2>1. PICK N \in Nat : N = DpSize * SpSize /\ N = SpSize * DpSize
    BY SizesAre
  <2>2. SpSize * (q + 1) <= N /\ SpSize * (q + 1) = SpSize * q + SpSize
    <3>1. \A x, y \in Nat : x <= y => SpSize * x <= SpSize * y
      BY SizesAre
    <3>2. q + 1 <= DpSize
      BY SizesAre
    <3>3. SpSize * (q + 1) = SpSize * q + SpSize
      BY SizesAre
    <3>. QED BY <2>1, <3>1, <3>2, <3>3, SizesAre
  <2>3. PICK a \in Nat : a = SpSize * q
    BY SizesAre
  <2>4. r < N
    BY <1>1, <2>2, <2>3, SizesAre
  <2>. QED BY <2>1, <2>4 DEF Ranks
<1>. QED BY <1>1, <1>2, <1>3

\* There is a rank.
LEMMA RankExists == \E r \in Ranks : TRUE
<1>1. PICK r \in Ranks : r = SpSize * 0 + 0
  BY SizesAre, RankAt
<1>. QED BY <1>1

\* For each data parallel rank there is one rank in each group that agrees on a number.
LEMMA InGroup ==
  ASSUME NEW r \in Ranks, NEW q \in Ranks
  PROVE  \E p \in DpGroup(r) : p \in Ranks /\ p \div SpSize = q \div SpSize
<1>1. PICK a \in Nat, i \in Nat : i < SpSize /\ a < DpSize /\ r \div SpSize = a /\ r % SpSize = i
  BY RanksAre
<1>2. PICK b \in Nat, j \in Nat : j < SpSize /\ b < DpSize /\ q \div SpSize = b /\ q % SpSize = j
  BY RanksAre
<1>3. PICK p \in Ranks : p \div SpSize = b /\ p % SpSize = i
  BY <1>1, <1>2, RankAt
<1>. QED BY <1>1, <1>2, <1>3 DEF DpGroup

\* There are as many workers as ranks in training.
LEMMA TrainWorkers ==
  ASSUME Train
  PROVE  /\ Workers = Ranks /\ \A r \in Ranks : DpRank(r) = r \div SpSize /\ DpRank(r) \in 0 .. DpSize - 1
         /\ \A d \in 0 .. DpSize - 1 : \E r \in Ranks : DpRank(r) = d
         /\ Cardinality({DpRank(v) : v \in Workers}) = DpSize
<1>1. Workers = Ranks
  BY DEF Workers
<1>2. ASSUME NEW r \in Ranks PROVE DpRank(r) = r \div SpSize /\ DpRank(r) \in 0 .. DpSize - 1
  <2>1. PICK q \in Nat : q < DpSize /\ r \div SpSize = q
    BY RanksAre
  <2>2. DpRank(r) = q
    BY <2>1 DEF DpRank
  <2>. QED BY <2>1, <2>2, SizesAre
<1>3. ASSUME NEW d \in 0 .. DpSize - 1 PROVE \E r \in Ranks : DpRank(r) = d
  <2>1. d \in Nat /\ d < DpSize /\ 0 \in Nat /\ 0 < SpSize
    BY SizesAre
  <2>2. PICK r \in Ranks : r \div SpSize = d
    BY <2>1, RankAt
  <2>. QED BY <1>2, <2>2
<1>4. {DpRank(v) : v \in Workers} = 0 .. DpSize - 1
  BY <1>1, <1>2, <1>3
<1>5. Cardinality(0 .. DpSize - 1) = DpSize
  BY SizesAre, FS_Interval
<1>. QED BY <1>1, <1>2, <1>3, <1>4, <1>5

(***************************************************************************)
(* What a rank gets, and how it cuts it.                                   *)
(***************************************************************************)
\* The lengths of some rows of a batch.
Lengthy(ls, n) == ls \in [1 .. n -> Nat] /\ \A i \in 1 .. n : 1 <= ls[i] /\ ls[i] <= MaxTokenLen * SpSize

\* The lengths of a batch in training.
LEMMA LensAre ==
  ASSUME Types, Train
  PROVE  Lengthy(lens, NumRows) /\ MaxTokenLen * SpSize \in Nat \ {0} /\ DOMAIN lens = 1 .. NumRows
<1>1. PICK b \in Nat \ {0} : b = MaxTokenLen * SpSize
  <2>1. \A x, y \in Nat \ {0} : x * y \in Nat \ {0}
    OBVIOUS
  <2>. QED BY <2>1, SizesAre
<1>2. \A l \in Lengths : l \in Nat /\ 1 <= l /\ l <= b
  BY <1>1, SizesAssumption
<1>3. lens \in [1 .. NumRows -> Lengths]
  BY DEF Types
<1>4. lens \in [1 .. NumRows -> Nat] /\ \A i \in 1 .. NumRows : 1 <= lens[i] /\ lens[i] <= b
  BY <1>2, <1>3
<1>. QED BY <1>1, <1>4 DEF Lengthy

\* The workloads lie between the smallest and the largest.
LEMMA WorkIs ==
  ASSUME Types, Train
  PROVE  /\ Smallest \in Nat /\ Largest \in Nat /\ Smallest <= Largest
         /\ Between(Workloads(lens), NumRows, Smallest, Largest)
<1>1. PICK b \in Nat : b = MaxTokenLen * SpSize
  BY LensAre
<1>2. Bounded(lens, NumRows, b)
  BY <1>1, LensAre DEF Lengthy, Bounded
<1>3. PICK low, high : low = Smallest /\ high = Largest
  OBVIOUS
<1>4. low \in Nat /\ high \in Nat /\ low <= high /\ Between(Workloads(lens), NumRows, low, high)
  BY <1>2, <1>3, WorkloadBounds, SizesAre DEF Smallest, Largest
<1>. QED BY <1>3, <1>4

\* The lengths of the rows of a list, and their work.
LEMMA RowsWork ==
  ASSUME Types, Train, NEW rows \in Seq(1 .. NumRows), NEW n \in Nat, n = Len(rows)
  PROVE  /\ Lengthy(LensOf(rows), n)
         /\ Between(Workloads(LensOf(rows)), n, Smallest, Largest)
         /\ \A i \in 1 .. n : Workloads(LensOf(rows))[i] = Workloads(lens)[rows[i]]
<1>1. DOMAIN rows = 1 .. n /\ \A i \in 1 .. n : rows[i] \in 1 .. NumRows
  BY ListFacts
<1>2. PICK ls : ls = LensOf(rows)
  OBVIOUS
<1>3. ls = [i \in 1 .. n |-> lens[rows[i]]]
  BY <1>1, <1>2 DEF LensOf
<1>4. lens \in [1 .. NumRows -> Nat] /\ \A i \in 1 .. NumRows : 1 <= lens[i] /\ lens[i] <= MaxTokenLen * SpSize
  BY LensAre DEF Lengthy
<1>5. ls \in [1 .. n -> Nat] /\ \A i \in 1 .. n : 1 <= ls[i] /\ ls[i] <= MaxTokenLen * SpSize
  BY <1>1, <1>3, <1>4
<1>6. Lengthy(ls, n)
  BY <1>5 DEF Lengthy
<1>7. PICK w : w = Workloads(ls)
  OBVIOUS
<1>8. w \in [1 .. n -> Nat] /\ \A i \in 1 .. n : w[i] = Workload(ls[i])
  BY <1>5, <1>7, WorkloadsAre
<1>9. PICK all : all = Workloads(lens)
  OBVIOUS
<1>10. all \in [1 .. NumRows -> Nat] /\ \A i \in 1 .. NumRows : all[i] = Workload(lens[i])
  <2>1. NumRows \in Nat
    BY SizesAre
  <2>2. lens \in [1 .. NumRows -> Nat]
    BY <1>4
  <2>3. Workloads(lens) \in [1 .. NumRows -> Nat] /\ \A i \in 1 .. NumRows : Workloads(lens)[i] = Workload(lens[i])
    BY <2>1, <2>2, WorkloadsAre
  <2>. QED BY <1>9, <2>3
<1>11. \A i \in 1 .. n : w[i] = all[rows[i]]
  BY <1>1, <1>3, <1>8, <1>10
<1>12. PICK low \in Nat, high \in Nat : low = Smallest /\ high = Largest /\ Between(all, NumRows, low, high)
  BY <1>9, WorkIs
<1>13. \A i \in 1 .. NumRows : low <= all[i] /\ all[i] <= high
  BY <1>12 DEF Between
<1>14. Between(w, n, low, high)
  BY <1>1, <1>8, <1>11, <1>13 DEF Between
<1>. QED BY <1>2, <1>6, <1>7, <1>9, <1>11, <1>12, <1>14

\* Lists that share out the rows up to n are lists of numbers.
LEMMA SharesOfNumbers ==
  ASSUME NEW ss, NEW n \in Nat, Shares(ss, 1 .. n) PROVE ss \in Seq(Seq(Nat))
<1>1. ss \in Seq(Seq(1 .. n))
  BY DEF Shares
<1>2. Len(ss) \in Nat /\ ss = [j \in 1 .. Len(ss) |-> ss[j]]
  BY <1>1
<1>3. ASSUME NEW j \in 1 .. Len(ss) PROVE ss[j] \in Seq(Nat)
  <2>1. PICK l \in Seq(1 .. n) : l = ss[j]
    BY <1>1
  <2>2. Len(l) \in Nat /\ l = [i \in 1 .. Len(l) |-> l[i]] /\ \A i \in 1 .. Len(l) : l[i] \in Nat
    <3>1. Len(l) \in Nat /\ l = [i \in 1 .. Len(l) |-> l[i]]
      OBVIOUS
    <3>2. \A i \in 1 .. Len(l) : l[i] \in 1 .. n
      OBVIOUS
    <3>. QED BY <3>1, <3>2
  <2>3. l \in [1 .. Len(l) -> Nat]
    BY <2>2
  <2>. QED BY <2>1, <2>2, <2>3, ListOf
<1>4. ss \in [1 .. Len(ss) -> Seq(Nat)]
  BY <1>2, <1>3
<1>. QED BY <1>2, <1>4, ListOf

\* A chunk is cut into mini-batches of a size that divides it.
LEMMA SizeIs == Size \in Nat \ {0} /\ \E D \in Nat \ {0} : ChunkSize = Size * D
<1>1. CASE call = "update"
  BY <1>1, SizesAre, ChunkSizeIs DEF Size
<1>2. CASE call # "update"
  <2>1. ChunkSize = ChunkSize * 1 /\ 1 \in Nat \ {0}
    BY ChunkSizeIs
  <2>. QED BY <1>2, <2>1, ChunkSizeIs DEF Size
<1>. QED BY <1>1, <1>2

\* The chunk of a rank, a piece of the batch.
LEMMA ChunkIs ==
  ASSUME Train, Once(batch, 1 .. NumRows)
  PROVE  /\ Len(batch) = NumRows /\ Exactly(Slices(batch, ChunkSize), batch, ChunkSize, DpSize, 1 .. NumRows)
         /\ \A r \in Ranks :
              /\ Chunk(r) = Slices(batch, ChunkSize)[DpRank(r) + 1] /\ DpRank(r) + 1 \in 1 .. DpSize
              /\ Chunk(r) \in Seq(1 .. NumRows) /\ Len(Chunk(r)) = ChunkSize
              /\ Once(Chunk(r), MembersOf(Chunk(r)))
<1>1. batch \in Seq(1 .. NumRows) /\ Len(batch) = NumRows
  <2>1. batch \in Seq(1 .. NumRows)
    BY DEF Once
  <2>2. Cardinality(1 .. NumRows) = Len(batch)
    BY OnceCount
  <2>3. Cardinality(1 .. NumRows) = NumRows
    BY SizesAre, CountUpTo
  <2>. QED BY <2>1, <2>2, <2>3
<1>2. PICK pp : pp = Slices(batch, ChunkSize)
  OBVIOUS
<1>3. Exactly(pp, batch, ChunkSize, DpSize, 1 .. NumRows)
  BY <1>1, <1>2, ChunkSizeIs, SizesAre, ExactSlices
<1>4. Shares(pp, 1 .. NumRows)
  BY <1>2, ChunkSizeIs, SlicesShare
<1>5. ASSUME NEW r \in Ranks
      PROVE  /\ Chunk(r) = pp[DpRank(r) + 1] /\ DpRank(r) + 1 \in 1 .. DpSize
             /\ Chunk(r) \in Seq(1 .. NumRows) /\ Len(Chunk(r)) = ChunkSize
             /\ Once(Chunk(r), MembersOf(Chunk(r)))
  <2>1. PICK d \in 1 .. DpSize : d = DpRank(r) + 1
    BY TrainWorkers, SizesAre
  <2>2. Chunk(r) = pp[d]
    <3>1. Cardinality({DpRank(v) : v \in Workers}) = DpSize
      BY TrainWorkers
    <3>2. Len(batch) \div Cardinality({DpRank(v) : v \in Workers}) = ChunkSize
      BY <1>1, <3>1 DEF ChunkSize
    <3>. QED BY <1>2, <2>1, <3>2 DEF Chunk
  <2>3. pp[d] \in Seq(1 .. NumRows) /\ Len(pp[d]) = ChunkSize /\ Len(pp) = DpSize
    BY <1>3 DEF Exactly
  <2>4. Once(pp[d], MembersOf(pp[d]))
    BY <1>4, <2>3, SharesMembers
  <2>. QED BY <2>1, <2>2, <2>3, <2>4
<1>. QED BY <1>1, <1>2, <1>3, <1>5

\* A rank that has mini-batches.
Loaded(r) ==
  /\ worker[r].todo # <<>>
  /\ \A i \in 1 .. Len(worker[r].todo) : Len(worker[r].todo[i]) = Size

\* The mini-batch a rank is at, and how many micro-batches it proposes for it.
LEMMA MiniIs ==
  ASSUME Types, Train, NEW r \in Ranks, Loaded(r)
  PROVE  /\ Head(worker[r].todo) \in Seq(1 .. NumRows) /\ Len(Head(worker[r].todo)) = Size
         /\ CountOf(r) \in 1 .. Size
<1>1. worker[r].todo \in Seq(Seq(1 .. NumRows))
  <2>1. worker[r] \in Parts(1 .. NumRows)
    BY LensAre, TrainWorkers DEF Types
  <2>. QED BY <2>1, PartsFields
<1>2. PICK todo \in Seq(Seq(1 .. NumRows)) :
        todo = worker[r].todo /\ todo # <<>> /\ \A i \in 1 .. Len(todo) : Len(todo[i]) = Size
  BY <1>1 DEF Loaded
<1>3. PICK mini \in Seq(1 .. NumRows) : mini = Head(todo) /\ Len(mini) = Size
  <2>1. Head(todo) \in Seq(1 .. NumRows) /\ Head(todo) = todo[1] /\ Len(todo) \in Nat \ {0}
    BY <1>2, TailFacts
  <2>2. PICK i \in 1 .. Len(todo) : i = 1
    BY <2>1
  <2>3. Len(todo[i]) = Size
    BY <1>2
  <2>. QED BY <2>1, <2>2, <2>3
<1>4. PICK n \in Nat \ {0} : n = Size
  BY SizeIs
<1>5. PICK ls : ls = LensOf(mini) /\ Lengthy(ls, n)
  BY <1>3, <1>4, RowsWork
<1>6. PICK b \in Nat \ {0} : b = MaxTokenLen * SpSize
  BY LensAre
<1>7. NumMicroBatches(ls, b) \in 1 .. n
  <2>1. ls \in [1 .. n -> Nat] /\ \A i \in 1 .. n : ls[i] >= 1
    BY <1>5 DEF Lengthy
  <2>. QED BY <2>1, NumMicroBatchesIs
<1>8. CountOf(r) \in 1 .. n
  BY <1>2, <1>3, <1>5, <1>6, <1>7 DEF CountOf
<1>. QED BY <1>2, <1>3, <1>4, <1>8

\* As many micro-batches are wanted as one at least, and no more than there are rows.
LEMMA WantIs ==
  ASSUME Types, Train, \A q \in Ranks : Loaded(q), NEW r \in Ranks
  PROVE  Want(r) \in 1 .. Size
<1>1. \A q \in Ranks : CountOf(q) \in 1 .. Size
  BY MiniIs
<1>2. CASE mode = "engine"
  <2>1. PICK T : T = {CountOf(q) : q \in DpGroup(r)}
    OBVIOUS
  <2>2. PICK n \in Nat \ {0} : n = Size
    BY SizeIs
  <2>3. \A y \in T : y \in 1 .. n
    BY <1>1, <2>1, <2>2 DEF DpGroup
  <2>4. T \subseteq Nat /\ T # {} /\ \A y \in T : y <= n
    <3>1. r \in DpGroup(r)
      BY DEF DpGroup
    <3>2. T # {}
      BY <2>1, <3>1
    <3>. QED BY <2>3, <3>2
  <2>5. Max(T) \in T
    BY <2>4, MaxIs
  <2>. QED BY <1>2, <2>1, <2>2, <2>3, <2>5 DEF Want
<1>3. CASE mode # "engine"
  BY <1>1, <1>3 DEF Want
<1>. QED BY <1>2, <1>3

\* How a rank cuts its mini-batch: fairly if it balances, and into as many as are wanted.
LEMMA PlanIs ==
  ASSUME Types, Train, \A q \in Ranks : Loaded(q), NEW r \in Ranks
  PROVE  /\ Plans(Plan(r), Size, mode) /\ Plan(r) \in Seq(Seq(Nat))
         /\ mode = "fixed" => Len(Plan(r)) = CeilDiv(Size, IF call = "update" THEN MicroSize ELSE LogProbSize)
         /\ mode # "fixed" =>
              /\ Len(Plan(r)) = Want(r)
              /\ Fair(Plan(r), 1 .. Len(Head(worker[r].todo)), Workloads(LensOf(Head(worker[r].todo))),
                      Len(Plan(r)), Largest, FALSE)
              /\ \A i \in 1 .. Len(Plan(r)) : Plan(r)[i] # <<>>
<1>1. PICK n \in Nat \ {0} : n = Size
  BY SizeIs
<1>2. PICK mini \in Seq(1 .. NumRows) : mini = Head(worker[r].todo) /\ Len(mini) = n
  BY <1>1, MiniIs
<1>3. PICK num \in 1 .. n : num = Want(r)
  BY <1>1, WantIs
<1>4. PICK plan : plan = MicroIdx(mini, num) /\ plan = Plan(r)
  BY <1>2, <1>3 DEF Plan
<1>5. CASE mode = "fixed"
  <2>1. PICK s \in Nat \ {0} : s = IF call = "update" THEN MicroSize ELSE LogProbSize
    BY SizesAre
  <2>2. plan = Slices(Counting(n), s)
    <3>1. Counting(n) = [i \in DOMAIN mini |-> i]
      BY <1>2 DEF Counting
    <3>. QED BY <1>4, <1>5, <2>1, <3>1 DEF MicroIdx
  <2>3. Shares(plan, 1 .. n) /\ Len(plan) = CeilDiv(n, s)
    <3>1. Shares(Slices(Counting(n), s), 1 .. n) /\ Len(Slices(Counting(n), s)) = CeilDiv(n, s)
      BY <1>2, PlainSlices
    <3>. QED BY <2>2, <3>1
  <2>4. Plans(plan, n, mode)
    BY <2>2, <2>3 DEF Plans
  <2>5. plan \in Seq(Seq(Nat))
    BY <2>3, SharesOfNumbers
  <2>. QED BY <1>1, <1>4, <1>5, <2>1, <2>3, <2>4, <2>5
<1>6. CASE mode # "fixed"
  <2>1. PICK ls : ls = LensOf(mini)
    OBVIOUS
  <2>2. PICK w : w = Workloads(ls)
    OBVIOUS
  <2>3. PICK high \in Nat : high = Largest
    BY WorkIs
  <2>4. Between(w, n, 0, high)
    <3>1. Between(w, n, Smallest, high)
      BY <1>2, <2>1, <2>2, <2>3, RowsWork
    <3>. QED BY <3>1 DEF Between
  <2>5. plan = MicroBatches(ls, num)
    BY <1>4, <1>6, <2>1 DEF MicroIdx
  <2>6. Fair(plan, 1 .. n, w, num, high, FALSE) /\ \A j \in 1 .. num : plan[j] # <<>>
    <3>1. /\ Fair(MicroBatches(ls, num), 1 .. n, w, num, high, FALSE)
          /\ \A j \in 1 .. num : MicroBatches(ls, num)[j] # <<>>
      BY <2>2, <2>4, MicroBatchesFair
    <3>. QED BY <2>5, <3>1
  <2>7. Shares(plan, 1 .. n) /\ Len(plan) = num
    BY <2>6 DEF Fair
  <2>8. Plans(plan, n, mode)
    BY <1>6, <2>7 DEF Plans
  <2>9. plan \in Seq(Seq(Nat))
    BY <2>7, SharesOfNumbers
  <2>. QED BY <1>1, <1>2, <1>3, <1>4, <1>6, <2>1, <2>2, <2>3, <2>6, <2>7, <2>8, <2>9
<1>. QED BY <1>5, <1>6

\* Ranks with the same rows make the same micro-batches; and all make as many, but for
\* legacy workers.
LEMMA PlansMeet ==
  ASSUME Types, Train, \A q \in Ranks : Loaded(q),
         \A p, q \in Ranks : DpRank(p) = DpRank(q) => worker[p].todo = worker[q].todo,
         NEW r \in Ranks, NEW q \in Ranks
  PROVE  /\ DpRank(r) = DpRank(q) => Plan(r) = Plan(q)
         /\ mode # "legacy" => Len(Plan(r)) = Len(Plan(q))
<1>1. \A p, s \in Ranks : DpRank(p) = DpRank(s) => CountOf(p) = CountOf(s)
  BY DEF CountOf
<1>2. ASSUME NEW p \in Ranks, NEW s \in Ranks, NEW y \in {CountOf(x) : x \in DpGroup(p)}
      PROVE  y \in {CountOf(x) : x \in DpGroup(s)}
  <2>1. PICK x \in DpGroup(p) : y = CountOf(x)
    OBVIOUS
  <2>2. x \in Ranks
    BY DEF DpGroup
  <2>3. PICK z \in DpGroup(s) : z \in Ranks /\ z \div SpSize = x \div SpSize
    BY <2>2, InGroup
  <2>4. DpRank(z) = DpRank(x)
    BY <2>2, <2>3, TrainWorkers
  <2>5. CountOf(z) = CountOf(x)
    BY <1>1, <2>2, <2>3, <2>4
  <2>. QED BY <2>1, <2>5
<1>3. {CountOf(x) : x \in DpGroup(r)} = {CountOf(x) : x \in DpGroup(q)}
  BY <1>2
<1>4. mode = "engine" => Want(r) = Want(q)
  BY <1>3 DEF Want
<1>5. DpRank(r) = DpRank(q) => Want(r) = Want(q)
  <2>1. mode # "engine" /\ DpRank(r) = DpRank(q) => Want(r) = Want(q)
    BY <1>1 DEF Want
  <2>. QED BY <1>4, <2>1
<1>6. DpRank(r) = DpRank(q) => Plan(r) = Plan(q)
  BY <1>5 DEF Plan
<1>7. mode # "legacy" => Len(Plan(r)) = Len(Plan(q))
  <2>1. mode = "engine" \/ mode = "fixed" \/ mode = "legacy"
    BY DEF Types, Modes, Train
  <2>2. CASE mode = "engine"
    BY <1>4, <2>2, PlanIs
  <2>3. CASE mode = "fixed"
    BY <2>3, PlanIs
  <2>. QED BY <2>1, <2>2, <2>3
<1>. QED BY <1>6, <1>7

\* _balance_batch joins fair partitions.
LEMMA BalancedIs ==
  ASSUME Types, Train, batch = Counting(NumRows)
  PROVE  \E parts : /\ Fair(parts, 1 .. NumRows, Workloads(lens), DpSize, Largest * Share - Smallest * Share, TRUE)
                    /\ grouped => Apiece(parts, GroupSize)
                    /\ Balanced = FlattenSeq(parts)
<1>1. PICK n \in Nat \ {0}, k \in Nat \ {0}, g \in Nat \ {0} : n = NumRows /\ k = DpSize /\ g = GroupSize
  BY SizesAre
<1>2. PICK rows \in Seq(1 .. n) : /\ rows = Counting(n) /\ Len(rows) = n /\ DOMAIN rows = 1 .. n
                                  /\ \A i \in 1 .. n : rows[i] = i
  BY CountingFacts
<1>3. batch = rows
  BY <1>1, <1>2
<1>4. LensOf(batch) = lens
  <2>1. LensOf(rows) = [i \in 1 .. n |-> lens[rows[i]]]
    BY <1>2 DEF LensOf
  <2>2. \A i \in 1 .. n : lens[rows[i]] = lens[i]
    BY <1>2
  <2>3. lens = [i \in 1 .. n |-> lens[i]]
    BY <1>1 DEF Types
  <2>. QED BY <1>3, <2>1, <2>2, <2>3
<1>5. [i \in DOMAIN batch |-> (i - 1) \div GroupSize] = Uids(n, g)
  BY <1>1, <1>2, <1>3 DEF Uids
<1>6. PICK w : w = Workloads(lens)
  OBVIOUS
<1>7. PICK low \in Nat, high \in Nat :
        w = Workloads(lens) /\ low = Smallest /\ high = Largest /\ low <= high /\ Between(w, n, low, high)
  <2>1. /\ Smallest \in Nat /\ Largest \in Nat /\ Smallest <= Largest
        /\ Between(Workloads(lens), n, Smallest, Largest)
    BY <1>1, WorkIs
  <2>. QED BY <1>6, <2>1
<1>8. PICK equal : equal = BalancedPartitions(w, k, TRUE)
  OBVIOUS
<1>9. PICK even : even = [d \in 1 .. k |->
           Evens(SortBy(equal[d], [i \in DOMAIN equal[d] |-> w[equal[d][i]]])) \o
           Reverse(Odds(SortBy(equal[d], [i \in DOMAIN equal[d] |-> w[equal[d][i]]])))]
  OBVIOUS
<1>10. PICK whole : whole = GroupPartitions(lens, Uids(n, g), k)
  OBVIOUS
<1>11. PICK parts : parts = IF grouped THEN whole ELSE even
  OBVIOUS
<1>12. Balanced = [i \in DOMAIN batch |-> batch[FlattenSeq(parts)[i]]]
  <2>1. CASE grouped
    <3>1. parts = whole
      BY <1>11, <2>1
    <3>. QED BY <1>1, <1>4, <1>5, <1>10, <2>1, <3>1 DEF Balanced
  <2>2. CASE ~grouped
    <3>1. parts = even
      BY <1>11, <2>2
    <3>. QED BY <1>1, <1>4, <1>7, <1>8, <1>9, <2>2, <3>1 DEF Balanced
  <2>. QED BY <2>1, <2>2
<1>13. Fair(parts, 1 .. n, w, k, high * Share - low * Share, TRUE) /\ (grouped => Apiece(parts, g))
  <2>1. CASE grouped
    <3>1. Divisible(n, k, g)
      BY <1>1, ChunkSizeIs
    <3>2. Fair(whole, 1 .. n, w, k, high * g - low * g, TRUE) /\ Apiece(whole, g)
      BY <1>7, <1>10, <3>1, GroupPartitionsFair
    <3>3. Share = g /\ parts = whole
      BY <1>1, <1>11, <2>1 DEF Share
    <3>. QED BY <3>2, <3>3
  <2>2. CASE ~grouped
    <3>1. n % k = 0
      BY <1>1, ChunkSizeIs
    <3>2. Evened(even, BalancedPartitions(w, k, TRUE), w, k)
      BY <1>8, <1>9 DEF Evened
    <3>3. Fair(even, 1 .. n, w, k, high - low, TRUE)
      BY <1>7, <3>1, <3>2, EvenParts
    <3>4. high * Share - low * Share = high - low /\ parts = even
      BY <1>11, <2>2 DEF Share
    <3>. QED BY <2>2, <3>4, <3>3
  <2>. QED BY <2>1, <2>2
<1>14. FlattenSeq(parts) = Balanced
  <2>1. Shares(parts, 1 .. n)
    BY <1>13 DEF Fair
  <2>2. PICK flat \in Seq(1 .. n) : flat = FlattenSeq(parts) /\ Len(flat) = n
    <3>1. FlattenSeq(parts) \in Seq(1 .. n)
      BY <2>1, FlattenShares DEF Once
    <3>2. Len(FlattenSeq(parts)) = n
      BY <2>1, SharesLength
    <3>. QED BY <3>1, <3>2
  <2>3. \A i \in 1 .. n : rows[flat[i]] = flat[i]
    BY <1>2, <2>2
  <2>4. flat = [i \in 1 .. n |-> flat[i]]
    BY <2>2
  <2>. QED BY <1>2, <1>3, <1>12, <2>2, <2>3, <2>4
<1>. QED BY <1>1, <1>7, <1>13, <1>14

\* ... which are the chunks it is cut into.
LEMMA BalancedChunks ==
  ASSUME Types, Train, batch = Counting(NumRows)
  PROVE  /\ Once(Balanced, 1 .. NumRows)
         /\ Fair(Slices(Balanced, ChunkSize), 1 .. NumRows, Workloads(lens), DpSize,
                 Largest * Share - Smallest * Share, TRUE)
         /\ grouped => Apiece(Slices(Balanced, ChunkSize), GroupSize)
<1>1. PICK parts : /\ Fair(parts, 1 .. NumRows, Workloads(lens), DpSize, Largest * Share - Smallest * Share, TRUE)
                   /\ grouped => Apiece(parts, GroupSize)
                   /\ Balanced = FlattenSeq(parts)
  BY BalancedIs
<1>2. Shares(parts, 1 .. NumRows) /\ Len(parts) = DpSize
  BY <1>1 DEF Fair
<1>3. Once(Balanced, 1 .. NumRows)
  BY <1>1, <1>2, FlattenShares
<1>4. PICK gap \in Nat : gap = Largest * Share - Smallest * Share
  <2>1. \A x, y \in Nat : x <= y => \A z \in Nat : y * z - x * z \in Nat
    <3>1. ASSUME NEW x \in Nat, NEW y \in Nat, x <= y, NEW z \in Nat PROVE y * z - x * z \in Nat
      <4>1. PICK d \in Nat : y = x + d
        <5>1. y - x \in Nat /\ y = x + (y - x)
          BY <3>1
        <5>. QED BY <5>1
      <4>2. PICK a \in Nat, b \in Nat : a = x * z /\ b = d * z
        OBVIOUS
      <4>3. (x + d) * z = x * z + d * z
        OBVIOUS
      <4>4. y * z = a + b
        BY <4>1, <4>2, <4>3
      <4>. QED BY <4>2, <4>4
    <3>. QED BY <3>1
  <2>2. Share \in Nat
    BY SizesAre DEF Share
  <2>. QED BY <2>1, <2>2, WorkIs
<1>5. \A j \in 1 .. Len(parts) : Len(parts[j]) = ChunkSize
  <2>1. PICK n \in Nat, k \in Nat \ {0} : n = NumRows /\ k = DpSize
    BY SizesAre
  <2>2. PICK w : w = Workloads(lens)
    OBVIOUS
  <2>3. EvenlyFair(parts, n, w, k, gap)
    BY <1>1, <1>4, <2>1, <2>2 DEF EvenlyFair
  <2>4. \A j \in 1 .. k : Len(parts[j]) = n \div k
    BY <2>3, FairSizes
  <2>. QED BY <1>2, <2>1, <2>4 DEF ChunkSize
<1>6. Slices(FlattenSeq(parts), ChunkSize) = parts
  <2>1. parts \in Seq(Seq(1 .. NumRows))
    BY <1>2 DEF Shares
  <2>. QED BY <1>5, <2>1, ChunkSizeIs, SlicesOfFlatten
<1>. QED BY <1>1, <1>3, <1>6

(***************************************************************************)
(* The invariant holds.                                                    *)
(***************************************************************************)
LEMMA InitInv == Init => IInv
<1>. SUFFICES ASSUME Init PROVE IInv
  OBVIOUS
<1>1. worker = [w \in Workers |-> Idle] /\ result = <<>>
  BY DEF Init
<1>2. /\ worker \in [Workers -> Parts(DOMAIN lens)]
      /\ \A w \in Workers : worker[w] = Idle /\ At(w) = "idle"
  <2>1. Idle \in Parts(DOMAIN lens) /\ Idle.at = "idle"
    BY IdleFields
  <2>. QED BY <1>1, <2>1 DEF At
<1>3. CASE /\ mode \in Modes /\ grouped \in BOOLEAN
           /\ lens \in [1 .. NumRows -> Lengths]
           /\ batch = [i \in 1 .. NumRows |-> i]
           /\ call = "balance"
  <2>1. Train
    BY <1>3 DEF Train, Modes
  <2>2. Types
    BY <1>2, <1>3, <2>1 DEF Types
  <2>3. batch = Counting(NumRows) /\ \A r \in Ranks : worker[r] = Idle /\ At(r) = "idle"
    BY <1>2, <1>3, <2>1, TrainWorkers DEF Counting
  <2>4. Batches
    BY <1>3, <2>3 DEF Batches
  <2>5. ~Calling /\ call # "failed" /\ call \notin {"update", "done"}
    BY <1>3 DEF Calling
  <2>. QED BY <2>1, <2>2, <2>3, <2>4, <2>5
           DEF IInv, Working, Together, AllMicrosFair, Results, Validating, CallsMeet
<1>4. CASE /\ mode = "validate" /\ grouped = FALSE
           /\ \E n \in 1 .. MaxValRows :
                /\ lens = [i \in 1 .. n |-> Min(Lengths)]
                /\ batch = [i \in 1 .. n |-> i]
           /\ call = "pad"
  <2>1. ~Train
    BY <1>4 DEF Train
  <2>2. PICK n \in 1 .. MaxValRows : lens = [i \in 1 .. n |-> Min(Lengths)] /\ batch = [i \in 1 .. n |-> i]
    BY <1>4
  <2>3. n \in Nat /\ n >= 1
    BY SizesAre
  <2>4. lens \in Seq({Min(Lengths)}) /\ Len(lens) = n
    <3>1. lens \in [1 .. n -> {Min(Lengths)}]
      BY <2>2
    <3>. QED BY <2>3, <3>1, ListOf
  <2>5. lens # <<>>
    BY <2>3, <2>4
  <2>6. batch = Counting(Len(lens))
    BY <2>2, <2>4 DEF Counting
  <2>7. Types
    BY <1>2, <1>4, <2>1, <2>4, <2>5 DEF Types
  <2>8. Validating
    BY <1>2, <1>4, <2>6 DEF Validating
  <2>. QED BY <1>4, <2>1, <2>7, <2>8
           DEF IInv, Batches, Working, Together, AllMicrosFair, Results, CallsMeet, Calling
<1>. QED BY <1>3, <1>4 DEF Init

\* What depends on the batch and the configuration only.
LEMMA Constant ==
  ASSUME UNCHANGED <<config, batch>>
  PROVE  /\ mode' = mode /\ grouped' = grouped /\ lens' = lens /\ batch' = batch
         /\ (Train' <=> Train) /\ Workers' = Workers
         /\ \A r : Chunk(r)' = Chunk(r) /\ DpRank(r)' = DpRank(r)
         /\ (BatchFair' <=> BatchFair)
         /\ Largest' = Largest /\ (DOMAIN lens)' = DOMAIN lens
<1>1. mode' = mode /\ grouped' = grouped /\ lens' = lens /\ batch' = batch
  BY DEF config
<1>2. (Train' <=> Train)
  BY <1>1 DEF Train
<1>3. Workers' = Workers
  BY <1>2 DEF Workers
<1>4. \A r : DpRank(r)' = DpRank(r)
  BY <1>2 DEF DpRank
<1>5. {DpRank(v) : v \in Workers}' = {DpRank(v) : v \in Workers}
  BY <1>3, <1>4
<1>6. \A r : Chunk(r)' = Chunk(r)
  BY <1>1, <1>4, <1>5 DEF Chunk
<1>7. Largest' = Largest /\ Smallest' = Smallest /\ Share' = Share
  BY <1>1 DEF Largest, Smallest, Share
<1>8. BatchFair' <=> BatchFair
  BY <1>1, <1>7 DEF BatchFair
<1>. QED BY <1>1, <1>2, <1>3, <1>4, <1>6, <1>7, <1>8

AllIdle == \A q \in Ranks : worker[q] = Idle

\* Nothing is to be shown of workers that idle.
LEMMA IdleWorks == AllIdle => Working /\ Together /\ AllMicrosFair
<1>. SUFFICES ASSUME AllIdle PROVE Working /\ Together /\ AllMicrosFair
  OBVIOUS
<1>1. \A q \in Ranks : worker[q] = Idle /\ At(q) = "idle"
  BY IdleFields DEF At, AllIdle
<1>2. Working /\ AllMicrosFair
  BY <1>1 DEF Working, AllMicrosFair
<1>3. Idle.at = "idle" /\ ~Passes(Idle, call) /\ ~Waits(Idle)
  BY IdleFields DEF Passes, Waits
<1>4. \A r, q \in Ranks : Level(worker[r], worker[q], DpRank(r), DpRank(q), call)
  BY <1>1, <1>3 DEF Level
<1>. QED BY <1>2, <1>4 DEF Together

\* ... nor after a step that leaves them so.
LEMMA IdleWorksNext == AllIdle' => (Working /\ Together /\ AllMicrosFair)'
BY IdleWorks, PTL

\* Balance
LEMMA BalanceInv ==
  ASSUME IInv, Balance PROVE IInv'
<1>1. /\ Types /\ Batches /\ Working /\ Together /\ AllMicrosFair /\ Results /\ Validating /\ CallsMeet
      /\ call = "balance" /\ batch' = Balanced /\ call' = "log_prob"
      /\ mode' = mode /\ grouped' = grouped /\ lens' = lens /\ result' = result /\ worker' = worker
  BY DEF IInv, Balance, config
<1>2. Train
  BY <1>1 DEF Types
<1>3. Train' /\ Workers' = Workers
  BY <1>1, <1>2 DEF Train, Workers
<1>4. batch = Counting(NumRows) /\ \A r \in Ranks : worker[r] = Idle
  BY <1>1, <1>2 DEF Batches
<1>5. Types'
  BY <1>1, <1>2, <1>3 DEF Types, At
<1>6. BatchFair'
  <2>1. Largest' = Largest /\ Smallest' = Smallest /\ Share' = Share
    BY <1>1 DEF Largest, Smallest, Share
  <2>2. /\ Once(batch', 1 .. NumRows)
        /\ Fair(Slices(batch', ChunkSize), 1 .. NumRows, Workloads(lens), DpSize,
                Largest * Share - Smallest * Share, TRUE)
        /\ grouped => Apiece(Slices(batch', ChunkSize), GroupSize)
    BY <1>1, <1>2, <1>4, BalancedChunks
  <2>. QED BY <1>1, <2>1, <2>2 DEF BatchFair
<1>7. Batches'
  BY <1>1, <1>6 DEF Batches
<1>8. (Working /\ Together /\ AllMicrosFair)'
  BY <1>1, <1>4, IdleWorksNext DEF AllIdle
<1>9. Results' /\ Validating' /\ CallsMeet'
  BY <1>1, <1>3 DEF Results, Validating, CallsMeet
<1>. QED BY <1>5, <1>7, <1>8, <1>9 DEF IInv

\* A number less than b is its own rest.
LEMMA ModSmall ==
  ASSUME NEW b \in Nat \ {0}, NEW r \in Nat, r < b
  PROVE  r % b = r
<1>1. (b * 0 + r) % b = r
  BY ModIs
<1>2. b * 0 + r = r
  OBVIOUS
<1>. QED BY <1>1, <1>2

\* pad_dataproto_to_divisor: as many rows of the batch behind it as are missing.
LEMMA PadsIs ==
  ASSUME NEW n \in Nat \ {0}, batch = Counting(n)
  PROVE  PadsTo(Padded, n)
<1>1. PICK rows \in Seq(1 .. n) : rows = Counting(n) /\ Len(rows) = n /\ \A i \in 1 .. n : rows[i] = i
  BY CountingFacts
<1>2. CeilDiv(n, NumWorkers) \in Nat /\ n <= NumWorkers * CeilDiv(n, NumWorkers)
  BY SizesAre, CeilDivIs
<1>3. PICK N \in Nat : N = NumWorkers * CeilDiv(n, NumWorkers) /\ n <= N
  BY <1>2, SizesAre
<1>4. PICK p : p = [i \in 1 .. N |-> rows[((i - 1) % n) + 1]]
  OBVIOUS
<1>5. Padded = p
  BY <1>1, <1>3, <1>4 DEF Padded
<1>6. ASSUME NEW i \in 1 .. N
      PROVE  p[i] \in 1 .. n /\ (i <= n => p[i] = i)
  <2>1. PICK j \in Nat : j = i - 1
    OBVIOUS
  <2>2. PICK q \in Nat, r \in Nat : j = n * q + r /\ r < n
    BY DivIs
  <2>3. j % n = r
    BY <2>2, ModIs
  <2>4. PICK m \in 1 .. n : m = r + 1
    BY <2>2
  <2>5. p[i] = m
    BY <1>1, <1>4, <2>1, <2>3, <2>4
  <2>6. i <= n => j % n = j
    BY <2>1, ModSmall
  <2>. QED BY <2>1, <2>3, <2>4, <2>5, <2>6
<1>7. p \in Seq(1 .. n) /\ Len(p) = N
  <2>1. p \in [1 .. N -> 1 .. n]
    BY <1>4, <1>6
  <2>. QED BY <2>1, ListOf
<1>8. \A i \in 1 .. n : p[i] = i
  BY <1>3, <1>6
<1>9. PadsTo(p, n)
  BY <1>3, <1>7, <1>8 DEF PadsTo
<1>. QED BY <1>5, <1>9

\* Pad
LEMMA PadInv ==
  ASSUME IInv, Pad PROVE IInv'
<1>1. /\ Types /\ Batches /\ Working /\ Together /\ AllMicrosFair /\ Results /\ Validating /\ CallsMeet
      /\ call = "pad" /\ batch' = Padded /\ call' = "generate"
      /\ mode' = mode /\ grouped' = grouped /\ lens' = lens /\ result' = result /\ worker' = worker
  BY DEF IInv, Pad, config
<1>2. ~Train
  BY <1>1 DEF Types
<1>3. ~Train' /\ Workers' = Workers
  BY <1>1, <1>2 DEF Train, Workers
<1>4. Types'
  BY <1>1, <1>2, <1>3 DEF Types, At
<1>5. PadsTo(batch', Len(lens'))
  <2>1. lens \in Seq({Min(Lengths)}) /\ lens # <<>>
    BY <1>1, <1>2 DEF Types
  <2>2. PICK n \in Nat \ {0} : n = Len(lens)
    BY <2>1, TailFacts
  <2>3. batch = Counting(n)
    BY <1>1, <1>2, <2>2 DEF Validating
  <2>4. PadsTo(Padded, n)
    BY <2>3, PadsIs
  <2>. QED BY <1>1, <2>2, <2>4
<1>6. \A w \in Workers' : At(w)' = "idle"
  BY <1>1, <1>2, <1>3 DEF Validating, At
<1>7. Validating'
  BY <1>1, <1>3, <1>5, <1>6 DEF Validating
<1>8. Batches' /\ Working' /\ Together' /\ AllMicrosFair' /\ Results' /\ CallsMeet'
  BY <1>1, <1>3 DEF Batches, Working, Together, AllMicrosFair, Results, CallsMeet, Calling
<1>. QED BY <1>4, <1>7, <1>8 DEF IInv

\* A list cut into one piece.
LEMMA WholeSlice ==
  ASSUME NEW S, NEW s \in Seq(S), NEW n \in Nat \ {0}, n = Len(s)
  PROVE  Slices(s, n) \in Seq(Seq(S)) /\ Head(Slices(s, n)) = s
<1>1. PICK pp : pp = Slices(s, n)
  OBVIOUS
<1>2. Exactly(pp, s, n, 1, S)
  <2>1. Len(s) = n * 1
    OBVIOUS
  <2>. QED BY <1>1, <2>1, ExactSlices
<1>3. pp \in Seq(Seq(S)) /\ Len(pp) = 1 /\ pp[1] \in Seq(S) /\ Len(pp[1]) = n
      /\ \A i \in 1 .. n : pp[1][i] = s[n * (1 - 1) + i]
  BY <1>2 DEF Exactly
<1>4. \A i \in 1 .. n : n * (1 - 1) + i = i
  OBVIOUS
<1>5. pp[1] = s
  BY <1>3, <1>4, SameLists
<1>6. Head(pp) = s
  BY <1>3, <1>5, TailFacts
<1>. QED BY <1>1, <1>3, <1>6

\* Agent loop workers get chunks of the same size.
LEMMA ValidationChunks ==
  ASSUME ~Train, NEW n \in Nat \ {0}, PadsTo(batch, n)
  PROVE  \E c \in Nat \ {0} :
           /\ c = CeilDiv(n, NumWorkers) /\ Len(batch) = c * NumWorkers
           /\ \A w \in Workers : /\ Chunk(w) = Slices(batch, c)[w + 1] /\ w + 1 \in 1 .. NumWorkers
                                 /\ Chunk(w) \in Seq(1 .. n) /\ Len(Chunk(w)) = c
<1>1. PICK c \in Nat : c = CeilDiv(n, NumWorkers) /\ c # 0
  BY SizesAre, CeilDivIs
<1>2. PICK rows \in Seq(1 .. n) : rows = batch /\ Len(rows) = NumWorkers * c
  BY <1>1 DEF PadsTo
<1>3. NumWorkers * c = c * NumWorkers
  BY SizesAre
<1>4. PICK pp : pp = Slices(batch, c)
  OBVIOUS
<1>5. Exactly(pp, rows, c, NumWorkers, 1 .. n)
  BY <1>1, <1>2, <1>3, <1>4, SizesAre, ExactSlices
<1>6. Workers = 0 .. NumWorkers - 1 /\ \A w \in Workers : DpRank(w) = w
  BY DEF Workers, DpRank
<1>7. Cardinality({DpRank(v) : v \in Workers}) = NumWorkers
  <2>1. {DpRank(v) : v \in Workers} = 0 .. NumWorkers - 1
    BY <1>6
  <2>2. Cardinality(0 .. NumWorkers - 1) = NumWorkers
    BY SizesAre, FS_Interval
  <2>. QED BY <2>1, <2>2
<1>8. Len(batch) \div Cardinality({DpRank(v) : v \in Workers}) = c
  <2>1. (NumWorkers * c) \div NumWorkers = c
    BY SizesAre, ModZero
  <2>. QED BY <1>2, <1>7, <2>1
<1>9. ASSUME NEW w \in Workers
      PROVE  /\ Chunk(w) = pp[w + 1] /\ w + 1 \in 1 .. NumWorkers
             /\ Chunk(w) \in Seq(1 .. n) /\ Len(Chunk(w)) = c
  <2>1. PICK d \in 1 .. NumWorkers : d = w + 1
    BY <1>6, SizesAre
  <2>2. Chunk(w) = pp[d]
    BY <1>4, <1>6, <1>8, <2>1 DEF Chunk
  <2>3. pp[d] \in Seq(1 .. n) /\ Len(pp[d]) = c
    BY <1>5 DEF Exactly
  <2>. QED BY <2>1, <2>2, <2>3
<1>. QED BY <1>1, <1>2, <1>3, <1>4, <1>9

\* Dispatch, to agent loop workers
LEMMA DispatchValidation ==
  ASSUME IInv, Dispatch, ~Train PROVE IInv'
<1>1. /\ Types /\ Validating
      /\ call \in {"log_prob", "update", "generate"} /\ call' = call
      /\ mode' = mode /\ grouped' = grouped /\ lens' = lens /\ batch' = batch /\ result' = result
      /\ UNCHANGED <<config, batch>>
  BY DEF IInv, Dispatch, config
<1>2. call = "generate" /\ lens \in Seq({Min(Lengths)}) /\ lens # <<>>
  BY <1>1 DEF Types
<1>3. PICK n \in Nat \ {0} : n = Len(lens) /\ DOMAIN lens = 1 .. n
  BY <1>2, TailFacts, ListFacts
<1>4. PadsTo(batch, n)
  BY <1>1, <1>2, <1>3 DEF Validating
<1>5. PICK c \in Nat \ {0} : \A w \in Workers : Chunk(w) \in Seq(1 .. n) /\ Len(Chunk(w)) = c
  BY <1>4, ValidationChunks
<1>6. ~Train' /\ Workers' = Workers /\ DOMAIN lens' = DOMAIN lens /\ \A w : Chunk(w)' = Chunk(w)
  BY <1>1, Constant
<1>7. worker' = [w \in Workers |-> [Idle EXCEPT !.at = "split", !.todo = Slices(Chunk(w), c)]]
  BY <1>2, <1>5 DEF Dispatch
<1>8. ASSUME NEW w \in Workers
      PROVE  /\ worker'[w] \in Parts(1 .. n) /\ worker'[w].at = "split" /\ Head(worker'[w].todo) = Chunk(w)
  <2>1. PICK pp \in Seq(Seq(1 .. n)) : pp = Slices(Chunk(w), c) /\ Head(pp) = Chunk(w)
    <3>1. PICK chunk \in Seq(1 .. n) : chunk = Chunk(w) /\ c = Len(chunk)
      BY <1>5
    <3>2. Slices(chunk, c) \in Seq(Seq(1 .. n)) /\ Head(Slices(chunk, c)) = chunk
      BY <3>1, WholeSlice
    <3>. QED BY <3>1, <3>2
  <2>2. PICK v : v = worker'[w]
    OBVIOUS
  <2>3. Handed(v, pp)
    BY <1>7, <2>1, <2>2 DEF Handed
  <2>4. v \in Parts(1 .. n) /\ v.at = "split" /\ v.todo = pp
    BY <2>3, HandedFields
  <2>. QED BY <2>1, <2>2, <2>4
<1>9. worker' \in [Workers -> Parts(1 .. n)]
  <2>1. worker' = [w \in Workers |-> worker'[w]]
    BY <1>7
  <2>. QED BY <1>8, <2>1
<1>10. Types'
  BY <1>1, <1>3, <1>6, <1>8, <1>9 DEF Types, At
<1>11. Validating'
  BY <1>1, <1>2, <1>6, <1>8 DEF Validating, At
<1>12. Batches' /\ Working' /\ Together' /\ AllMicrosFair' /\ Results' /\ CallsMeet'
  BY <1>1, <1>2, <1>6 DEF Batches, Working, Together, AllMicrosFair, Results, CallsMeet, Calling
<1>. QED BY <1>10, <1>11, <1>12 DEF IInv

\* Dispatch, to ranks
LEMMA DispatchTrain ==
  ASSUME IInv, Dispatch, Train PROVE IInv'
<1>1. /\ Types /\ Batches /\ Results
      /\ call \in {"log_prob", "update", "generate"} /\ call' = call
      /\ mode' = mode /\ grouped' = grouped /\ lens' = lens /\ batch' = batch /\ result' = result
      /\ UNCHANGED <<config, batch>>
  BY DEF IInv, Dispatch, config
<1>2. call \in {"log_prob", "update"}
  BY <1>1 DEF Types
<1>3. BatchFair /\ Once(batch, 1 .. NumRows) /\ DOMAIN lens = 1 .. NumRows
  BY <1>1, <1>2, LensAre DEF Batches, BatchFair
<1>4. /\ Train' /\ Workers' = Workers /\ DOMAIN lens' = DOMAIN lens /\ Workers = Ranks
      /\ \A r : Chunk(r)' = Chunk(r) /\ DpRank(r)' = DpRank(r)
      /\ BatchFair'
  BY <1>1, <1>3, Constant, TrainWorkers
<1>5. /\ \A r \in Ranks : /\ Chunk(r) = Slices(batch, ChunkSize)[DpRank(r) + 1]
                          /\ Chunk(r) \in Seq(1 .. NumRows) /\ Len(Chunk(r)) = ChunkSize
                          /\ Once(Chunk(r), MembersOf(Chunk(r)))
  BY <1>3, ChunkIs
<1>6. PICK D \in Nat \ {0} : ChunkSize = Size * D
  BY SizeIs
<1>7. ASSUME NEW r \in Ranks
      PROVE  /\ worker'[r] \in Parts(1 .. NumRows) /\ worker'[r].at = "split"
             /\ worker'[r].todo = Slices(Chunk(r), Size) /\ worker'[r].idx = <<>> /\ worker'[r].micro = <<>>
             /\ Works(worker'[r], Chunk(r), Plan(r)', Size, call)
  <2>1. PICK chunk \in Seq(1 .. NumRows) :
          chunk = Chunk(r) /\ Len(chunk) = ChunkSize /\ Once(chunk, MembersOf(chunk))
    BY <1>5
  <2>2. PICK v : v = worker'[r]
    OBVIOUS
  <2>3. Handed(v, Slices(chunk, Size))
    <3>1. v = [Idle EXCEPT !.at = "split",
                           !.todo = Slices(Chunk(r), IF call = "update" THEN MiniSize ELSE Len(Chunk(r)))]
      BY <1>4, <2>2 DEF Dispatch
    <3>2. (IF call = "update" THEN MiniSize ELSE Len(Chunk(r))) = Size
      BY <2>1 DEF Size
    <3>. QED BY <2>1, <3>1, <3>2 DEF Handed
  <2>4. PICK plan : plan = Plan(r)'
    OBVIOUS
  <2>5. PICK size, c : size = Size /\ c = call
    OBVIOUS
  <2>6. Handable(chunk, size, D, c, 1 .. NumRows)
    BY <1>2, <1>6, <2>1, <2>5, SizeIs DEF Handable, Size
  <2>7. Handed(v, Slices(chunk, size))
    BY <2>3, <2>5
  <2>8. /\ v \in Parts(1 .. NumRows) /\ v.at = "split" /\ v.todo = Slices(chunk, size)
        /\ v.idx = <<>> /\ v.micro = <<>> /\ Works(v, chunk, plan, size, c)
    BY <2>6, <2>7, WorkStarts
  <2>. QED BY <2>1, <2>2, <2>4, <2>5, <2>8
<1>8. worker' \in [Workers -> Parts(1 .. NumRows)]
  <2>1. worker' = [w \in Workers |-> worker'[w]]
    BY DEF Dispatch
  <2>. QED BY <1>4, <1>7, <2>1
<1>9. Types'
  BY <1>1, <1>3, <1>4, <1>7, <1>8 DEF Types, At
<1>10. Batches'
  BY <1>1, <1>2, <1>4 DEF Batches
<1>11. Size' = Size
  BY <1>1 DEF Size
<1>12. Working'
  BY <1>1, <1>4, <1>7, <1>11 DEF Working, At
<1>13. Together'
  <2>1. ASSUME NEW r \in Ranks, NEW q \in Ranks 
         PROVE  Level(worker'[r], worker'[q], DpRank(r)', DpRank(q)', call')
    <3>1. Len(Slices(Chunk(r), Size)) = Len(Slices(Chunk(q), Size))
      <4>1. ASSUME NEW p \in Ranks PROVE Len(Slices(Chunk(p), Size)) = D
        <5>1. Exactly(Slices(Chunk(p), Size), Chunk(p), Size, D, 1 .. NumRows)
          BY <1>5, <1>6, SizeIs, ExactSlices
        <5>. QED BY <5>1 DEF Exactly
      <4>. QED BY <4>1
    <3>2. DpRank(r) = DpRank(q) => Chunk(r) = Chunk(q)
      BY <1>5
    <3>3. worker'[r].at = "split" /\ worker'[q].at = "split"
      BY <1>7
    <3>4. ~Passes(worker'[r], call')
      BY <3>3 DEF Passes
    <3>5. /\ worker'[r].todo = Slices(Chunk(r), Size) /\ worker'[q].todo = Slices(Chunk(q), Size)
          /\ DpRank(r)' = DpRank(r) /\ DpRank(q)' = DpRank(q)
      BY <1>4, <1>7
    <3>. QED BY <3>1, <3>2, <3>3, <3>4, <3>5 DEF Level
  <2>. QED BY <2>1 DEF Together
<1>14. AllMicrosFair'
  BY <1>7 DEF AllMicrosFair, At
<1>15. Results' /\ Validating' /\ CallsMeet'
  BY <1>1, <1>2, <1>4 DEF Results, Validating, CallsMeet
<1>. QED BY <1>9, <1>10, <1>12, <1>13, <1>14, <1>15 DEF IInv

\* If each rank sends its chunk, what the driver joins is the batch.
LEMMA CollectedTrain ==
  ASSUME Train, Once(batch, 1 .. NumRows), \A r \in Ranks : worker[r].out = Chunk(r)
  PROVE  Collected = batch
<1>1. PICK c \in Nat \ {0}, D \in Nat \ {0}, sp \in Nat \ {0} : c = ChunkSize /\ D = DpSize /\ sp = SpSize
  BY SizesAre, ChunkSizeIs
<1>2. PICK N \in Nat : N = D * sp
  OBVIOUS
<1>3. Ranks = 0 .. N - 1 /\ Workers = Ranks
  BY <1>1, <1>2, TrainWorkers DEF Ranks
<1>4. Cardinality(Workers) = N
  BY <1>3, FS_Interval
<1>5. PICK list \in Seq(1 .. NumRows) : list = batch /\ Len(list) = c * D
  <2>1. Len(batch) = NumRows
    BY ChunkIs
  <2>. QED BY <1>1, <2>1, ChunkSizeIs DEF Once
<1>6. PICK ss : ss = [i \in 1 .. N |-> IF Collects(i - 1) THEN worker[i - 1].out ELSE <<>>]
  OBVIOUS
<1>7. Collected = FlattenSeq(ss)
  BY <1>4, <1>6 DEF Collected
<1>8. ASSUME NEW i \in 1 .. N
      PROVE  /\ ss[i] = IF (i - 1) % sp = 0 THEN Slices(list, c)[((i - 1) \div sp) + 1] ELSE <<>>
             /\ ss[i] \in Seq(1 .. NumRows)
  <2>1. PICK r \in Ranks : r = i - 1
    BY <1>3
  <2>2. Collects(r) <=> r % sp = 0
    BY <1>1 DEF Collects
  <2>3. ss[i] = IF r % sp = 0 THEN worker[r].out ELSE <<>>
    BY <1>6, <2>1, <2>2
  <2>4. worker[r].out = Chunk(r)
    OBVIOUS
  <2>5. Chunk(r) = Slices(batch, c)[DpRank(r) + 1] /\ Chunk(r) \in Seq(1 .. NumRows)
    BY <1>1, ChunkIs
  <2>6. DpRank(r) = r \div sp
    BY <1>1, TrainWorkers
  <2>7. <<>> \in Seq(1 .. NumRows)
    OBVIOUS
  <2>. QED BY <1>5, <2>1, <2>3, <2>4, <2>5, <2>6, <2>7
<1>9. ss \in Seq(Seq(1 .. NumRows)) /\ Len(ss) = N
  <2>1. ss = [i \in 1 .. N |-> ss[i]]
    BY <1>6
  <2>2. ss \in [1 .. N -> Seq(1 .. NumRows)]
    BY <1>8, <2>1
  <2>. QED BY <2>2, ListOf
<1>10. Gathered(ss, list, c, sp, 1 .. NumRows)
  BY <1>8, <1>9 DEF Gathered
<1>11. FlattenSeq(ss) = list
  BY <1>2, <1>5, <1>9, <1>10, GatheredIs
<1>. QED BY <1>5, <1>7, <1>11

\* If each agent loop worker sends its chunk, what is joined begins with the rows of the batch.
LEMMA CollectedValidation ==
  ASSUME ~Train, NEW n \in Nat \ {0}, PadsTo(batch, n), \A w \in Workers : worker[w].out = Chunk(w)
  PROVE  SubSeq(Collected, 1, n) = Counting(n)
<1>1. PICK c \in Nat \ {0} :
        /\ c = CeilDiv(n, NumWorkers) /\ Len(batch) = c * NumWorkers
        /\ \A w \in Workers : /\ Chunk(w) = Slices(batch, c)[w + 1] /\ w + 1 \in 1 .. NumWorkers
                              /\ Chunk(w) \in Seq(1 .. n) /\ Len(Chunk(w)) = c
  BY ValidationChunks
<1>2. PICK N \in Nat \ {0} : N = NumWorkers /\ N = N * 1
  BY SizesAre
<1>3. Workers = 0 .. N - 1
  BY <1>2 DEF Workers
<1>4. Cardinality(Workers) = N
  BY <1>3, FS_Interval
<1>5. PICK list \in Seq(1 .. n) : list = batch /\ Len(list) = c * N
  BY <1>1, <1>2 DEF PadsTo
<1>6. PICK ss : ss = [i \in 1 .. N |-> IF Collects(i - 1) THEN worker[i - 1].out ELSE <<>>]
  OBVIOUS
<1>7. Collected = FlattenSeq(ss)
  BY <1>4, <1>6 DEF Collected
<1>8. ASSUME NEW i \in 1 .. N
      PROVE  /\ ss[i] = IF (i - 1) % 1 = 0 THEN Slices(list, c)[((i - 1) \div 1) + 1] ELSE <<>>
             /\ ss[i] \in Seq(1 .. n)
  <2>1. PICK r \in Workers : r = i - 1 /\ r \in Nat
    BY <1>3
  <2>2. Collects(r)
    BY DEF Collects
  <2>3. ss[i] = worker[r].out
    BY <1>6, <2>1, <2>2
  <2>4. worker[r].out = Slices(list, c)[r + 1] /\ worker[r].out \in Seq(1 .. n)
    BY <1>1, <1>5
  <2>5. r % 1 = 0 /\ r \div 1 = r
    BY <2>1
  <2>. QED BY <2>1, <2>3, <2>4, <2>5
<1>9. ss \in Seq(Seq(1 .. n)) /\ Len(ss) = N
  <2>1. ss = [i \in 1 .. N |-> ss[i]]
    BY <1>6
  <2>2. ss \in [1 .. N -> Seq(1 .. n)]
    BY <1>8, <2>1
  <2>. QED BY <2>2, ListOf
<1>10. Gathered(ss, list, c, 1, 1 .. n)
  BY <1>8, <1>9 DEF Gathered
<1>11. FlattenSeq(ss) = list
  <2>1. PICK one \in Nat \ {0} : one = 1
    OBVIOUS
  <2>2. Gathered(ss, list, c, one, 1 .. n) /\ Len(ss) = N * one
    BY <1>9, <1>10, <2>1
  <2>. QED BY <1>5, <2>2, GatheredIs
<1>12. SubSeq(list, 1, n) = Counting(n)
  <2>1. n <= Len(list) /\ \A i \in 1 .. n : list[i] = i
    <3>1. Len(batch) = NumWorkers * CeilDiv(n, NumWorkers) /\ \A i \in 1 .. n : batch[i] = i
      BY DEF PadsTo
    <3>2. n <= NumWorkers * CeilDiv(n, NumWorkers)
      BY SizesAre, CeilDivIs
    <3>. QED BY <1>5, <3>1, <3>2
  <2>2. PICK s : s = SubSeq(list, 1, n)
    OBVIOUS
  <2>3. s \in Seq(1 .. n) /\ Len(s) = n - 1 + 1 /\ \A i \in 1 .. n - 1 + 1 : s[i] = list[1 + i - 1]
    BY <2>1, <2>2, SubSeqFacts
  <2>4. Len(s) = n /\ \A i \in 1 .. n : s[i] = Counting(n)[i]
    <3>1. n - 1 + 1 = n /\ \A i \in 1 .. n : 1 + i - 1 = i
      OBVIOUS
    <3>2. Len(s) = n /\ \A i \in 1 .. n : s[i] = i
      BY <2>1, <2>3, <3>1
    <3>3. \A i \in 1 .. n : Counting(n)[i] = i
      BY CountingFacts
    <3>. QED BY <3>2, <3>3
  <2>5. s = Counting(n)
    BY <2>3, <2>4, CountingFacts, SameLists
  <2>. QED BY <2>2, <2>5
<1>. QED BY <1>5, <1>7, <1>11, <1>12

\* Collect
LEMMA CollectInv ==
  ASSUME IInv, Collect PROVE IInv'
<1>1. /\ Types /\ Batches /\ Working /\ Together /\ AllMicrosFair /\ Results /\ Validating
      /\ mode' = mode /\ grouped' = grouped /\ lens' = lens /\ batch' = batch
      /\ UNCHANGED <<config, batch>>
      /\ \A w \in Workers : At(w) = "sent"
  BY DEF IInv, Collect, config
<1>2. /\ (Train' <=> Train) /\ Workers' = Workers /\ DOMAIN lens' = DOMAIN lens
      /\ \A r : Chunk(r)' = Chunk(r) /\ DpRank(r)' = DpRank(r)
      /\ (BatchFair' <=> BatchFair)
  BY <1>1, Constant
<1>3. CASE call = "log_prob"
  <2>1. /\ Train /\ result' = Collected /\ call' = "update" /\ worker' = [w \in Workers |-> Idle]
    BY <1>1, <1>3 DEF Collect, Types
  <2>2. Workers = Ranks /\ BatchFair /\ Once(batch, 1 .. NumRows)
    BY <1>1, <1>3, <2>1, TrainWorkers DEF Batches, BatchFair
  <2>3. ASSUME NEW r \in Ranks PROVE worker[r].out = Chunk(r)
    <3>1. At(r) = "sent" /\ Calling
      BY <1>1, <1>3, <2>1, <2>2 DEF Calling
    <3>2. Works(worker[r], Chunk(r), Plan(r), Size, call)
      BY <1>1, <3>1 DEF Working
    <3>. QED BY <1>3, <3>1, <3>2 DEF Works, Computes, At
  <2>4. result' = batch
    BY <2>1, <2>2, <2>3, CollectedTrain
  <2>5. \A w \in Workers : worker'[w] = Idle /\ Idle \in Parts(DOMAIN lens) /\ Idle.at = "idle"
    BY <2>1, IdleFields
  <2>6. Types'
    <3>1. worker' \in [Workers -> Parts(DOMAIN lens)]
      BY <2>1, <2>5
    <3>. QED BY <1>1, <1>2, <2>1, <2>5, <3>1 DEF Types, At
  <2>7. (Working /\ Together /\ AllMicrosFair)'
    BY <2>2, <2>5, IdleWorksNext DEF AllIdle
  <2>8. Batches' /\ Results' /\ Validating' /\ CallsMeet'
    BY <1>1, <1>2, <2>1, <2>2, <2>4 DEF Batches, Results, Validating, CallsMeet
  <2>. QED BY <2>6, <2>7, <2>8 DEF IInv
<1>4. CASE call = "update"
  <2>1. Train /\ call' = "done" /\ result' = result /\ worker' = worker
    BY <1>1, <1>4 DEF Collect, Types
  <2>2. Workers = Ranks /\ BatchFair
    BY <1>1, <1>4, <2>1, TrainWorkers DEF Batches
  <2>3. ASSUME NEW r \in Ranks PROVE At(r) = "sent" /\ Once(worker[r].out, MembersOf(Chunk(r)))
    <3>1. At(r) = "sent" /\ Calling
      BY <1>1, <1>4, <2>1, <2>2 DEF Calling
    <3>2. Works(worker[r], Chunk(r), Plan(r), Size, call)
      BY <1>1, <3>1 DEF Working
    <3>. QED BY <1>4, <3>1, <3>2 DEF Works, Trains, At
  <2>4. Types'
    BY <1>1, <1>2, <2>1 DEF Types, At
  <2>5. Results'
    BY <1>1, <1>2, <1>4, <2>1, <2>3 DEF Results, At
  <2>6. AllMicrosFair'
    BY <2>1, <2>3 DEF AllMicrosFair, At
  <2>7. Batches' /\ Working' /\ Together' /\ Validating' /\ CallsMeet'
    BY <1>2, <2>1, <2>2 DEF Batches, Working, Together, Calling, Validating, CallsMeet
  <2>. QED BY <2>4, <2>5, <2>6, <2>7 DEF IInv
<1>5. CASE call = "generate"
  <2>1. ~Train /\ call' = "done" /\ result' = SubSeq(Collected, 1, Len(lens)) /\ worker' = worker
    BY <1>1, <1>5 DEF Collect, Types
  <2>2. PICK n \in Nat \ {0} : n = Len(lens)
    <3>1. lens \in Seq({Min(Lengths)}) /\ lens # <<>>
      BY <1>1, <2>1 DEF Types
    <3>. QED BY <3>1, TailFacts
  <2>3. PadsTo(batch, n) /\ \A w \in Workers : worker[w].out = Chunk(w)
    BY <1>1, <1>5, <2>1, <2>2 DEF Validating
  <2>4. result' = Counting(n)
    BY <2>1, <2>2, <2>3, CollectedValidation
  <2>5. Types'
    BY <1>1, <1>2, <2>1 DEF Types, At
  <2>6. Validating'
    BY <1>1, <1>2, <2>1, <2>2, <2>4 DEF Validating
  <2>7. Batches' /\ Working' /\ Together' /\ AllMicrosFair' /\ Results' /\ CallsMeet'
    BY <1>2, <2>1 DEF Batches, Working, Together, Calling, AllMicrosFair, Results, CallsMeet
  <2>. QED BY <2>5, <2>6, <2>7 DEF IInv
<1>. QED BY <1>3, <1>4, <1>5 DEF Collect

\* Generate
LEMMA GenerateInv ==
  ASSUME IInv, NEW w \in Workers, Generate(w) PROVE IInv'
<1>1. /\ Types /\ Validating
      /\ mode' = mode /\ grouped' = grouped /\ lens' = lens /\ batch' = batch /\ result' = result
      /\ call = "generate" /\ call' = call /\ At(w) = "split"
      /\ UNCHANGED <<config, batch>>
      /\ worker' = [worker EXCEPT ![w] = [@ EXCEPT !.at = "sent", !.out = Head(worker[w].todo)]]
  BY DEF IInv, Generate, config
<1>2. /\ ~Train /\ ~Train' /\ Workers' = Workers /\ DOMAIN lens' = DOMAIN lens
      /\ \A r : Chunk(r)' = Chunk(r)
  BY <1>1, Constant DEF Types
<1>3. worker \in [Workers -> Parts(DOMAIN lens)]
  BY <1>1 DEF Types
<1>4. Head(worker[w].todo) = Chunk(w)
  BY <1>1, <1>2 DEF Validating
<1>5. Chunk(w) \in Seq(DOMAIN lens)
  <2>1. lens \in Seq({Min(Lengths)}) /\ lens # <<>>
    BY <1>1, <1>2 DEF Types
  <2>2. PICK n \in Nat \ {0} : n = Len(lens) /\ DOMAIN lens = 1 .. n
    BY <2>1, TailFacts, ListFacts
  <2>3. PadsTo(batch, n)
    BY <1>1, <1>2, <2>2 DEF Validating
  <2>4. Chunk(w) \in Seq(1 .. n)
    BY <1>2, <2>3, ValidationChunks
  <2>. QED BY <2>2, <2>4
<1>6. PICK v : v = worker'[w]
  OBVIOUS
<1>7. v \in Parts(DOMAIN lens) /\ v.at = "sent" /\ v.out = Chunk(w)
  <2>1. PICK u \in Parts(DOMAIN lens) : u = worker[w]
    BY <1>3
  <2>2. v = [u EXCEPT !.at = "sent", !.out = Chunk(w)]
    BY <1>1, <1>3, <1>4, <1>6, <2>1
  <2>3. /\ v.at = "sent" /\ v.out = Chunk(w)
        /\ v = [at |-> "sent", todo |-> u.todo, idx |-> u.idx, micro |-> u.micro, out |-> Chunk(w)]
    BY <2>2 DEF Parts
  <2>4. "sent" \in States
    BY DEF States
  <2>. QED BY <1>5, <2>3, <2>4, PartsFields DEF Parts
<1>8. \A u \in Workers : u # w => worker'[u] = worker[u]
  BY <1>1, <1>3
<1>9. worker' \in [Workers -> Parts(DOMAIN lens)]
  <2>1. \A u \in Workers : worker'[u] \in Parts(DOMAIN lens)
    BY <1>3, <1>6, <1>7, <1>8
  <2>2. worker' = [u \in Workers |-> worker'[u]]
    BY <1>1, <1>3
  <2>. QED BY <2>1, <2>2
<1>10. Types'
  BY <1>1, <1>2, <1>6, <1>7, <1>8, <1>9 DEF Types, At
<1>11. Validating'
  BY <1>1, <1>2, <1>6, <1>7, <1>8 DEF Validating, At
<1>12. Batches' /\ Working' /\ Together' /\ AllMicrosFair' /\ Results' /\ CallsMeet'
  BY <1>1, <1>2 DEF Batches, Working, Together, Calling, AllMicrosFair, Results, CallsMeet
<1>. QED BY <1>10, <1>11, <1>12 DEF IInv

\* A rank that begins or goes on with its micro-batches ahead, or waits as before.
Became(v, w) ==
  \/ v = w
  \/ Waits(w) /\ v.todo = w.todo /\ v.at = "forward" /\ Len(v.micro) = Len(v.idx)
  \/ Waits(w) /\ v.todo = w.todo /\ Waits(v)

\* Two ranks stay level when either cuts its mini-batch or waits for its group;
LEMMA LevelBegins ==
  ASSUME NEW R, NEW v \in Parts(R), NEW w \in Parts(R), NEW a \in Parts(R), NEW b \in Parts(R), NEW d, NEW e, NEW c,
         Level(v, w, d, e, c), Level(w, v, e, d, c), Became(a, v), Became(b, w)
  PROVE  Level(a, b, d, e, c)
<1>1. /\ Len(a.idx) \in Nat /\ Len(a.micro) \in Nat /\ Len(b.idx) \in Nat /\ Len(b.micro) \in Nat
      /\ Len(v.idx) \in Nat /\ Len(v.micro) \in Nat /\ Len(w.idx) \in Nat /\ Len(w.micro) \in Nat
  BY PartsFields, ListFacts
<1>2. a.todo = v.todo /\ b.todo = w.todo
  BY DEF Became
<1>3. Len(a.todo) = Len(b.todo) /\ (d = e => a.todo = b.todo)
  BY <1>2 DEF Level
<1>4. ASSUME NEW x \in {v, w}, NEW y \in {v, w}, Waits(y), Level(x, y, d, e, c) \/ Level(x, y, e, d, c),
             x.at \in {"forward", "sent"}
      PROVE  x.at = "forward" /\ Len(x.micro) = Len(x.idx)
  BY <1>4 DEF Level
<1>5. ASSUME Passes(a, c), Passes(b, c)
      PROVE  Len(a.idx) - Len(a.micro) = Len(b.idx) - Len(b.micro)
  <2>1. ~Waits(a) /\ ~Waits(b) /\ a.at \in {"forward", "sent"} /\ b.at \in {"forward", "sent"}
    BY <1>5 DEF Passes, Waits
  <2>2. CASE a = v /\ b = w
    BY <1>5, <2>2 DEF Level
  <2>3. CASE a = v /\ Waits(w) /\ Len(b.micro) = Len(b.idx)
    <3>1. Len(a.micro) = Len(a.idx)
      BY <2>1, <2>3 DEF Level
    <3>. QED BY <1>1, <2>3, <3>1
  <2>4. CASE b = w /\ Waits(v) /\ Len(a.micro) = Len(a.idx)
    <3>1. Len(b.micro) = Len(b.idx)
      BY <2>1, <2>4 DEF Level
    <3>. QED BY <1>1, <2>4, <3>1
  <2>5. CASE Len(a.micro) = Len(a.idx) /\ Len(b.micro) = Len(b.idx)
    BY <1>1, <2>5
  <2>. QED BY <2>1, <2>2, <2>3, <2>4, <2>5 DEF Became
<1>6. ASSUME a.at \in {"forward", "sent"}, Waits(b)
      PROVE  a.at = "forward" /\ Len(a.micro) = Len(a.idx)
  <2>1. Waits(w)
    BY <1>6 DEF Became
  <2>2. ~Waits(a)
    BY <1>6 DEF Waits
  <2>. QED BY <1>6, <2>1, <2>2 DEF Became, Level
<1>7. ASSUME c = "update", a.at = "sent" PROVE b.at = "sent"
  <2>1. a = v
    BY <1>7 DEF Became, Waits
  <2>2. w.at = "sent"
    BY <1>7, <2>1 DEF Level
  <2>. QED BY <2>2 DEF Became, Waits
<1>. QED BY <1>3, <1>5, <1>6, <1>7 DEF Level

\* ... when they make a pass together;
LEMMA LevelPasses ==
  ASSUME NEW v, NEW w, NEW a, NEW b, NEW d, NEW e, NEW c, Level(v, w, d, e, c),
         a.at = "forward" /\ a.todo = v.todo /\ a.idx = v.idx /\ Len(a.micro) = Len(v.micro) - 1,
         b.at = "forward" /\ b.todo = w.todo /\ b.idx = w.idx /\ Len(b.micro) = Len(w.micro) - 1,
         v.at = "forward", w.at = "forward",
         Len(v.idx) \in Nat /\ Len(v.micro) \in Nat /\ Len(w.idx) \in Nat /\ Len(w.micro) \in Nat
  PROVE  Level(a, b, d, e, c)
<1>1. Len(v.idx) - Len(v.micro) = Len(w.idx) - Len(w.micro)
  BY DEF Level, Passes
<1>2. Len(a.idx) - Len(a.micro) = Len(b.idx) - Len(b.micro)
  <2>1. PICK k \in Nat : k = Len(v.idx)
    OBVIOUS
  <2>2. PICK l \in Nat : l = Len(v.micro)
    OBVIOUS
  <2>3. PICK m \in Nat : m = Len(w.idx)
    OBVIOUS
  <2>4. PICK n \in Nat : n = Len(w.micro)
    OBVIOUS
  <2>5. Len(a.idx) = k /\ Len(a.micro) = l - 1
    BY <2>1, <2>2
  <2>6. Len(b.idx) = m /\ Len(b.micro) = n - 1
    BY <2>3, <2>4
  <2>7. k - l = m - n
    BY <1>1, <2>1, <2>2, <2>3, <2>4
  <2>8. k - (l - 1) = m - (n - 1)
    BY <2>7
  <2>. QED BY <2>5, <2>6, <2>8, Zenon
<1>3. Len(a.todo) = Len(b.todo) /\ (d = e => a.todo = b.todo)
  BY DEF Level
<1>. QED BY <1>2, <1>3 DEF Level, Waits

\* ... when they go on to the next mini-batch;
LEMMA LevelSteps ==
  ASSUME NEW v, NEW w, NEW a, NEW b, NEW d, NEW e, Level(v, w, d, e, "update"),
         a.at = IF Len(v.todo) = 1 THEN "sent" ELSE "split", a.todo = Tail(v.todo), Len(a.todo) = Len(v.todo) - 1,
         b.at = IF Len(w.todo) = 1 THEN "sent" ELSE "split", b.todo = Tail(w.todo), Len(b.todo) = Len(w.todo) - 1
  PROVE  Level(a, b, d, e, "update")
<1>1. Len(v.todo) = Len(w.todo) /\ (d = e => v.todo = w.todo)
  BY DEF Level
<1>2. Len(a.todo) = Len(b.todo) /\ (d = e => a.todo = b.todo) /\ a.at = b.at /\ a.at \in {"sent", "split"}
  BY <1>1
<1>3. ~Passes(a, "update")
  BY <1>2 DEF Passes
<1>4. a.at \in {"forward", "sent"} => ~Waits(b)
  BY <1>2 DEF Waits
<1>. QED BY <1>2, <1>3, <1>4 DEF Level

\* A rank that has finished, or is as it was.
Ends(v, w) ==
  \/ v = w
  \/ /\ w.at = "forward" /\ Len(w.micro) # Len(w.idx)
     /\ v.at = "sent" /\ v.todo = w.todo /\ v.idx = w.idx /\ v.micro = w.micro

\* ... and when they finish.
LEMMA LevelFinishes ==
  ASSUME NEW v, NEW w, NEW a, NEW b, NEW d, NEW e,
         Level(v, w, d, e, "log_prob"), Ends(a, v), Ends(b, w)
  PROVE  Level(a, b, d, e, "log_prob")
<1>1. a.todo = v.todo /\ a.idx = v.idx /\ a.micro = v.micro /\ b.todo = w.todo /\ b.idx = w.idx /\ b.micro = w.micro
  BY DEF Ends
<1>2. (Passes(a, "log_prob") => Passes(v, "log_prob")) /\ (Passes(b, "log_prob") => Passes(w, "log_prob"))
  BY DEF Ends, Passes
<1>3. a.at \in {"forward", "sent"} /\ Waits(b) => a.at = "forward" /\ Len(a.micro) = Len(a.idx)
  <2>1. Waits(b) => b = w
    BY DEF Ends, Waits
  <2>2. a = v \/ (v.at = "forward" /\ Len(v.micro) # Len(v.idx))
    BY DEF Ends
  <2>. QED BY <2>1, <2>2 DEF Level
<1>. QED BY <1>1, <1>2, <1>3 DEF Level

(***************************************************************************)
(* The steps of a call.                                                    *)
(***************************************************************************)
Kept == UNCHANGED <<config, batch, call, result>>

\* A step of the workers leaves the batch and its results alone.
LEMMA CallStep ==
  ASSUME IInv, Calling, Kept, worker' \in [Ranks -> Parts(1 .. NumRows)],
         \A r \in Ranks : worker'[r].at = "reduce" => mode = "engine",
         Working', Together', AllMicrosFair'
  PROVE  IInv'
<1>1. /\ Types /\ Batches /\ Results /\ Train /\ call \in {"log_prob", "update"}
      /\ call' = call /\ result' = result /\ UNCHANGED <<config, batch>>
  BY DEF IInv, Calling, Kept
<1>2. /\ mode' = mode /\ grouped' = grouped /\ lens' = lens /\ batch' = batch
      /\ Train' /\ Workers' = Ranks /\ DOMAIN lens' = 1 .. NumRows /\ (BatchFair' <=> BatchFair)
  BY <1>1, Constant, TrainWorkers, LensAre
<1>3. Types'
  BY <1>1, <1>2 DEF Types, At
<1>4. Batches' /\ Results' /\ Validating' /\ CallsMeet'
  BY <1>1, <1>2 DEF Batches, Results, Validating, CallsMeet
<1>. QED BY <1>3, <1>4 DEF IInv

\* A rank that is not through with its mini-batches meets all others at work.
LEMMA LoadedAll ==
  ASSUME Types, Calling, Working, Together, NEW r \in Ranks, At(r) \in {"split", "reduce", "forward"}
  PROVE  /\ \A q \in Ranks : At(q) # "idle" /\ Works(worker[q], Chunk(q), Plan(q), Size, call)
         /\ \A q \in Ranks : Loaded(q)
         /\ \A p, q \in Ranks : DpRank(p) = DpRank(q) => worker[p].todo = worker[q].todo
<1>1. ASSUME NEW q \in Ranks PROVE At(q) # "idle"
  <2>1. At(q) = "idle" => worker[r] = Idle
    BY DEF Working
  <2>. QED BY <2>1, IdleFields DEF At
<1>2. \A q \in Ranks : Works(worker[q], Chunk(q), Plan(q), Size, call)
  BY <1>1 DEF Working
<1>3. \A p, q \in Ranks : Level(worker[p], worker[q], DpRank(p), DpRank(q), call)
  BY DEF Together
<1>4. ASSUME NEW q \in Ranks PROVE Loaded(q)
  <2>1. PICK w : w = worker[q]
    OBVIOUS
  <2>2. Works(w, Chunk(q), Plan(q), Size, call)
    BY <1>2, <2>1
  <2>3. CASE call = "update"
    <3>1. w.at # "sent"
      BY <1>3, <2>1, <2>3 DEF Level, At
    <3>. QED BY <2>1, <2>2, <3>1 DEF Works, Loaded
  <2>4. CASE call = "log_prob"
    <3>1. Len(w.todo) = 1 /\ 1 # 0
      BY <2>2, <2>4 DEF Works, Computes
    <3>2. Len(<<>>) = 0
      OBVIOUS
    <3>3. w.todo # <<>>
      BY <3>1, <3>2, Zenon
    <3>. QED BY <2>1, <2>2, <3>3 DEF Works, Loaded
  <2>. QED BY <2>3, <2>4 DEF Calling
<1>5. \A p, q \in Ranks : DpRank(p) = DpRank(q) => worker[p].todo = worker[q].todo
  BY <1>3 DEF Level
<1>. QED BY <1>1, <1>2, <1>4, <1>5

\* As long as nobody goes on to the next mini-batch, the plans are the same.
LEMMA PlanKept ==
  ASSUME Kept, \A q \in Ranks : worker'[q].todo = worker[q].todo, NEW r \in Ranks
  PROVE  Plan(r)' = Plan(r) /\ Size' = Size
<1>1. mode' = mode /\ lens' = lens /\ call' = call
  BY DEF Kept, config
<1>2. \A q \in Ranks : CountOf(q)' = CountOf(q)
  BY <1>1 DEF CountOf, LensOf
<1>3. \A q \in DpGroup(r) : q \in Ranks
  BY DEF DpGroup
<1>4. {CountOf(q) : q \in DpGroup(r)}' = {CountOf(q) : q \in DpGroup(r)}
  BY <1>2, <1>3 DEF DpGroup
<1>5. Want(r)' = Want(r)
  BY <1>1, <1>2, <1>4 DEF Want
<1>6. Plan(r)' = Plan(r)
  BY <1>1, <1>5 DEF Plan, MicroIdx, LensOf
<1>. QED BY <1>1, <1>6 DEF Size

\* What cutting leaves a rank with.
LEMMA SplitCuts ==
  ASSUME NEW r \in Ranks, NEW count, count = Want(r)
  PROVE  Cuts(Split(r, count), worker[r], Plan(r))
<1>1. PICK mini : mini = Head(worker[r].todo)
  OBVIOUS
<1>2. PICK idx : idx = MicroIdx(mini, count) /\ idx = Plan(r)
  BY <1>1 DEF Plan
<1>3. Split(r, count) = [worker[r] EXCEPT !.at = "forward", !.idx = MicroIdx(mini, count),
                                           !.micro = Mapped(mini, MicroIdx(mini, count))]
  BY <1>1 DEF Split, Mapped
<1>. QED BY <1>1, <1>2, <1>3 DEF Cuts

\* A rank cuts its mini-batch, or waits for its group to agree, or does nothing.
Splits(v, q) ==
  \/ v = worker[q]
  \/ Waits(worker[q]) /\ Cuts(v, worker[q], Plan(q))
  \/ At(q) = "split" /\ mode = "engine" /\ v = [worker[q] EXCEPT !.at = "reduce"]

\* Every rank keeps to its work;
LEMMA SplitsRank ==
  ASSUME Types, Calling, \A q \in Ranks : Loaded(q), NEW q \in Ranks,
         Works(worker[q], Chunk(q), Plan(q), Size, call), NEW v, Splits(v, q)
  PROVE  /\ v \in Parts(1 .. NumRows) /\ v.todo = worker[q].todo
         /\ Works(v, Chunk(q), Plan(q), Size, call) /\ Became(v, worker[q])
         /\ (v.at = "reduce" => mode = "engine") /\ (v.at = "idle" => At(q) = "idle")
         /\ v = worker[q] \/ (mode # "fixed" /\ v.at = "forward" => MicrosFair(v))
<1>1. Train /\ worker[q] \in Parts(1 .. NumRows) /\ (At(q) = "reduce" => mode = "engine")
  BY LensAre, TrainWorkers DEF Types, Calling
<1>2. PICK w \in Parts(1 .. NumRows), size \in Nat : w = worker[q] /\ size = Size
  BY <1>1, SizeIs
<1>3. PICK chunk, plan, c : chunk = Chunk(q) /\ plan = Plan(q) /\ c = call
  OBVIOUS
<1>4. Works(w, chunk, plan, size, c)
  BY <1>2, <1>3
<1>5. CASE v = worker[q]
  BY <1>1, <1>5 DEF Became, At
<1>6. CASE Waits(worker[q]) /\ Cuts(v, worker[q], Plan(q))
  <2>1. Waits(w) /\ Cuts(v, w, plan)
    BY <1>2, <1>3, <1>6
  <2>2. /\ Plans(plan, size, mode) /\ plan \in Seq(Seq(Nat))
        /\ mode # "fixed" =>
             /\ Fair(plan, 1 .. Len(Head(worker[q].todo)), Workloads(LensOf(Head(worker[q].todo))),
                     Len(plan), Largest, FALSE)
             /\ \A i \in 1 .. Len(plan) : plan[i] # <<>>
    BY <1>1, <1>2, <1>3, PlanIs
  <2>3. /\ v \in Parts(1 .. NumRows) /\ v.at = "forward" /\ v.todo = w.todo /\ v.idx = plan
        /\ Len(v.micro) = Len(plan) /\ w.todo # <<>>
        /\ Works(v, chunk, plan, size, c)
    BY <1>4, <2>1, <2>2, WorkSplits
  <2>4. Became(v, w)
    BY <2>1, <2>3 DEF Became
  <2>5. mode # "fixed" => MicrosFair(v)
    BY <1>2, <1>3, <2>2, <2>3 DEF MicrosFair
  <2>. QED BY <1>2, <1>3, <2>3, <2>4, <2>5
<1>7. CASE At(q) = "split" /\ mode = "engine" /\ v = [worker[q] EXCEPT !.at = "reduce"]
  <2>1. w.at = "split" /\ v = [w EXCEPT !.at = "reduce"]
    BY <1>2, <1>3, <1>7 DEF At
  <2>2. /\ v \in Parts(1 .. NumRows) /\ v.at = "reduce" /\ v.todo = w.todo
        /\ Works(v, chunk, plan, size, c)
    BY <1>4, <2>1, WorkReduces
  <2>3. Became(v, w)
    BY <2>1, <2>2 DEF Became, Waits
  <2>. QED BY <1>2, <1>3, <1>7, <2>2, <2>3
<1>. QED BY <1>5, <1>6, <1>7 DEF Splits

\* ... and the invariant holds.
LEMMA SplitsInv ==
  ASSUME IInv, Calling, Kept, NEW r \in Ranks, Waits(worker[r]),
         worker' = [q \in Ranks |-> worker'[q]], \A q \in Ranks : Splits(worker'[q], q)
  PROVE  IInv'
<1>1. /\ Types /\ Working /\ Together /\ AllMicrosFair /\ call' = call /\ mode' = mode /\ lens' = lens
      /\ UNCHANGED <<config, batch>>
  BY DEF IInv, Kept, config
<1>2. At(r) \in {"split", "reduce", "forward"}
  BY DEF Waits, At
<1>3. /\ \A q \in Ranks : At(q) # "idle" /\ Works(worker[q], Chunk(q), Plan(q), Size, call)
      /\ \A q \in Ranks : Loaded(q)
  BY <1>1, <1>2, LoadedAll
<1>4. \A q \in Ranks :
         /\ worker'[q] \in Parts(1 .. NumRows) /\ worker'[q].todo = worker[q].todo
         /\ Works(worker'[q], Chunk(q), Plan(q), Size, call) /\ Became(worker'[q], worker[q])
         /\ (worker'[q].at = "reduce" => mode = "engine") /\ (worker'[q].at = "idle" => At(q) = "idle")
         /\ worker'[q] = worker[q] \/ (mode # "fixed" /\ worker'[q].at = "forward" => MicrosFair(worker'[q]))
  BY <1>1, <1>3, SplitsRank
<1>5. /\ \A q \in Ranks : Plan(q)' = Plan(q) /\ Chunk(q)' = Chunk(q) /\ DpRank(q)' = DpRank(q)
      /\ Size' = Size /\ Largest' = Largest /\ (Train' <=> Train)
  <2>1. \E q \in Ranks : TRUE
    BY RankExists
  <2>2. \A q \in Ranks : Plan(q)' = Plan(q) /\ Size' = Size
    BY <1>4, PlanKept
  <2>. QED BY <1>1, <2>1, <2>2, Constant
<1>6. Working'
  BY <1>1, <1>3, <1>4, <1>5 DEF Working, At
<1>7. Together'
  <2>1. ASSUME NEW p \in Ranks, NEW q \in Ranks
        PROVE  Level(worker'[p], worker'[q], DpRank(p), DpRank(q), call)
    <3>1. PICK v \in Parts(1 .. NumRows), w \in Parts(1 .. NumRows) : v = worker[p] /\ w = worker[q]
      BY <1>1, LensAre, TrainWorkers DEF Types, Calling
    <3>2. PICK a \in Parts(1 .. NumRows), b \in Parts(1 .. NumRows) : a = worker'[p] /\ b = worker'[q]
      BY <1>4
    <3>3. PICK d, e, c : d = DpRank(p) /\ e = DpRank(q) /\ c = call
      OBVIOUS
    <3>4. Level(v, w, d, e, c) /\ Level(w, v, e, d, c)
      BY <1>1, <3>1, <3>3 DEF Together
    <3>5. Became(a, v) /\ Became(b, w)
      BY <1>4, <3>1, <3>2
    <3>6. Level(a, b, d, e, c)
      BY <3>4, <3>5, LevelBegins
    <3>. QED BY <3>2, <3>3, <3>6
  <2>. QED BY <1>1, <1>5, <2>1 DEF Together
<1>8. AllMicrosFair'
  <2>1. ASSUME mode # "fixed", NEW q \in Ranks, worker'[q].at = "forward" PROVE MicrosFair(worker'[q])
    BY <1>1, <1>4, <2>1 DEF AllMicrosFair, At, Calling
  <2>. QED BY <1>1, <1>5, <2>1 DEF AllMicrosFair, At, MicrosFair, LensOf
<1>9. worker' \in [Ranks -> Parts(1 .. NumRows)]
  BY <1>4
<1>. QED BY <1>4, <1>6, <1>7, <1>8, <1>9, CallStep

\* Begin
LEMMA BeginInv ==
  ASSUME IInv, NEW w \in Workers, Begin(w) PROVE IInv'
<1>1. /\ Types /\ call \in {"log_prob", "update"} /\ At(w) = "split" /\ Kept
      /\ worker' = [worker EXCEPT ![w] = IF mode = "engine" THEN [@ EXCEPT !.at = "reduce"]
                                         ELSE Split(w, CountOf(w))]
  BY DEF IInv, Begin, Kept
<1>2. Train /\ Calling /\ Workers = Ranks /\ worker \in [Ranks -> Parts(DOMAIN lens)]
  BY <1>1, TrainWorkers DEF Types, Calling
<1>3. PICK v : v = IF mode = "engine" THEN [worker[w] EXCEPT !.at = "reduce"] ELSE Split(w, CountOf(w))
  OBVIOUS
<1>4. worker' = [worker EXCEPT ![w] = v]
  BY <1>1, <1>2, <1>3
<1>5. Splits(v, w)
  <2>1. CASE mode = "engine"
    BY <1>1, <1>3, <2>1 DEF Splits
  <2>2. CASE mode # "engine"
    <3>1. CountOf(w) = Want(w)
      BY <2>2 DEF Want
    <3>2. Cuts(v, worker[w], Plan(w))
      BY <1>2, <1>3, <2>2, <3>1, SplitCuts
    <3>. QED BY <1>1, <3>2 DEF Splits, Waits, At
  <2>. QED BY <2>1, <2>2
<1>6. worker' = [q \in Ranks |-> worker'[q]] /\ \A q \in Ranks : Splits(worker'[q], q)
  <2>1. \A q \in Ranks : worker'[q] = IF q = w THEN v ELSE worker[q]
    BY <1>2, <1>4
  <2>2. \A q \in Ranks : Splits(worker[q], q)
    BY DEF Splits
  <2>. QED BY <1>2, <1>4, <1>5, <2>1, <2>2
<1>7. Waits(worker[w])
  BY <1>1 DEF Waits, At
<1>. QED BY <1>1, <1>2, <1>6, <1>7, SplitsInv

\* Reduce
LEMMA ReduceInv ==
  ASSUME IInv, Train, NEW r \in Ranks, Reduce(r) PROVE IInv'
<1>1. /\ Types /\ Kept /\ \A q \in DpGroup(r) : At(q) = "reduce"
      /\ worker' = [q \in Workers |-> IF q \in DpGroup(r) THEN Split(q, Max({CountOf(s) : s \in DpGroup(r)}))
                                      ELSE worker[q]]
  BY DEF IInv, Reduce, Kept
<1>2. /\ Workers = Ranks /\ worker \in [Ranks -> Parts(DOMAIN lens)]
      /\ \A q \in Ranks : At(q) = "reduce" => mode = "engine"
  BY <1>1, TrainWorkers DEF Types
<1>3. r \in DpGroup(r) /\ \A q \in DpGroup(r) : q \in Ranks /\ q % SpSize = r % SpSize
  BY DEF DpGroup
<1>4. mode = "engine" /\ At(r) = "reduce"
  BY <1>1, <1>2, <1>3
<1>5. Calling
  <2>1. call \in {"balance", "log_prob", "update", "done", "failed"}
    BY <1>1 DEF Types
  <2>2. call # "balance"
    BY <1>4, IdleFields DEF IInv, Batches, At
  <2>3. call # "done"
    BY <1>4 DEF IInv, Results
  <2>4. call # "failed"
    BY <1>4 DEF IInv, CallsMeet
  <2>. QED BY <2>1, <2>2, <2>3, <2>4 DEF Calling
<1>6. ASSUME NEW q \in DpGroup(r) PROVE Splits(Split(q, Max({CountOf(s) : s \in DpGroup(r)})), q)
  <2>1. DpGroup(q) = DpGroup(r)
    BY <1>3 DEF DpGroup
  <2>2. Max({CountOf(s) : s \in DpGroup(r)}) = Want(q)
    BY <1>4, <2>1 DEF Want
  <2>3. PICK count : count = Max({CountOf(s) : s \in DpGroup(r)}) /\ count = Want(q)
    BY <2>2
  <2>4. Cuts(Split(q, count), worker[q], Plan(q))
    BY <1>3, <2>3, SplitCuts
  <2>5. Waits(worker[q])
    BY <1>1 DEF Waits, At
  <2>. QED BY <2>3, <2>4, <2>5 DEF Splits
<1>7. worker' = [q \in Ranks |-> worker'[q]] /\ \A q \in Ranks : Splits(worker'[q], q)
  <2>1. \A q \in Ranks : Splits(worker[q], q)
    BY DEF Splits
  <2>2. ASSUME NEW q \in Ranks PROVE Splits(worker'[q], q)
    <3>1. CASE q \in DpGroup(r)
      BY <1>1, <1>2, <1>6, <3>1
    <3>2. CASE q \notin DpGroup(r)
      BY <1>1, <1>2, <2>1, <3>2
    <3>. QED BY <3>1, <3>2
  <2>. QED BY <1>1, <1>2, <2>2
<1>8. Waits(worker[r])
  BY <1>4 DEF Waits, At
<1>. QED BY <1>1, <1>5, <1>7, <1>8, SplitsInv

\* What a pass leaves a rank with.
LEMMA PassesKept ==
  ASSUME Types, Train, NEW r \in Ranks, At(r) = "forward", worker[r].micro # <<>>,
         NEW v, Passed(v, worker[r])
  PROVE  /\ v \in Parts(1 .. NumRows) /\ v.at = "forward" /\ v.todo = worker[r].todo /\ v.idx = worker[r].idx
         /\ Len(v.micro) = Len(worker[r].micro) - 1
         /\ Len(worker[r].idx) \in Nat /\ Len(worker[r].micro) \in Nat
         /\ \A chunk, plan, size, c : Works(worker[r], chunk, plan, size, c) => Works(v, chunk, plan, size, c)
         /\ MicrosFair(worker[r]) => MicrosFair(v)
<1>1. PICK w \in Parts(1 .. NumRows) : w = worker[r]
  BY LensAre, TrainWorkers DEF Types
<1>2. /\ v \in Parts(1 .. NumRows) /\ v.at = w.at /\ v.todo = w.todo /\ v.idx = w.idx
      /\ Len(v.micro) = Len(w.micro) - 1 /\ Len(w.micro) \in Nat
      /\ \A chunk, plan, size, c : Works(w, chunk, plan, size, c) => Works(v, chunk, plan, size, c)
  BY <1>1, WorkPasses
<1>3. Len(w.idx) \in Nat
  BY PartsFields, ListFacts
<1>4. MicrosFair(w) => MicrosFair(v)
  BY <1>2 DEF MicrosFair
<1>. QED BY <1>1, <1>2, <1>3, <1>4 DEF At

\* Forward
LEMMA ForwardInv ==
  ASSUME IInv, Forward PROVE IInv'
<1>1. /\ Types /\ Train /\ Kept
      /\ \A r \in Ranks : At(r) = "forward" /\ worker[r].micro # <<>>
      /\ worker' = [r \in Ranks |-> [worker[r] EXCEPT !.micro = Tail(@), !.out = @ \o Head(worker[r].micro)]]
  BY DEF IInv, Forward, Kept
<1>2. PICK s \in Ranks : TRUE
  BY RankExists
<1>3. ASSUME NEW r \in Ranks PROVE Passed(worker'[r], worker[r])
  BY <1>1 DEF Passed
<1>4. \A r \in Ranks :
         /\ worker'[r] \in Parts(1 .. NumRows) /\ worker'[r].at = "forward"
         /\ worker'[r].todo = worker[r].todo /\ worker'[r].idx = worker[r].idx
         /\ Len(worker'[r].micro) = Len(worker[r].micro) - 1
         /\ Len(worker[r].idx) \in Nat /\ Len(worker[r].micro) \in Nat
         /\ \A chunk, plan, size, c :
              Works(worker[r], chunk, plan, size, c) => Works(worker'[r], chunk, plan, size, c)
         /\ MicrosFair(worker[r]) => MicrosFair(worker'[r])
  BY <1>1, <1>3, PassesKept, Zenon
<1>5. /\ mode' = mode /\ lens' = lens /\ call' = call /\ result' = result /\ UNCHANGED <<config, batch>>
  BY <1>1 DEF Kept, config
<1>6. /\ \A r \in Ranks : Plan(r)' = Plan(r) /\ Chunk(r)' = Chunk(r) /\ DpRank(r)' = DpRank(r)
      /\ Size' = Size /\ Largest' = Largest /\ Train' /\ Workers' = Ranks /\ DOMAIN lens' = 1 .. NumRows
      /\ (BatchFair' <=> BatchFair)
  <2>1. \A r \in Ranks : Plan(r)' = Plan(r) /\ Size' = Size
    BY <1>1, <1>4, PlanKept, Zenon
  <2>. QED BY <1>1, <1>2, <1>5, <2>1, Constant, TrainWorkers, LensAre
<1>7. worker' \in [Ranks -> Parts(1 .. NumRows)]
  BY <1>1, <1>4
<1>8. AllMicrosFair'
  <2>1. ASSUME mode # "fixed", NEW q \in Ranks PROVE MicrosFair(worker'[q])
    <3>1. AllMicrosFair /\ At(q) = "forward"
      BY <1>1 DEF IInv
    <3>2. MicrosFair(worker[q])
      BY <1>1, <2>1, <3>1 DEF AllMicrosFair
    <3>. QED BY <1>4, <3>2
  <2>. QED BY <1>5, <1>6, <2>1 DEF AllMicrosFair, At, MicrosFair, LensOf
<1>9. CASE Calling
  <2>1. Working /\ Together
    BY DEF IInv
  <2>2. \A q \in Ranks : Works(worker[q], Chunk(q), Plan(q), Size, call)
    BY <1>1, <1>9, <2>1 DEF Working
  <2>3. \A q \in Ranks : Works(worker'[q], Chunk(q), Plan(q), Size, call)
    BY <1>4, <2>2
  <2>4. Working'
    BY <1>4, <1>5, <1>6, <2>3 DEF Working, At
  <2>5. ASSUME NEW p \in Ranks, NEW q \in Ranks
        PROVE  Level(worker'[p], worker'[q], DpRank(p), DpRank(q), call)
    <3>1. PICK v, w, a, b : v = worker[p] /\ w = worker[q] /\ a = worker'[p] /\ b = worker'[q]
      OBVIOUS
    <3>2. PICK d, e, c : d = DpRank(p) /\ e = DpRank(q) /\ c = call
      OBVIOUS
    <3>3. Level(v, w, d, e, c)
      BY <1>9, <2>1, <3>1, <3>2 DEF Together
    <3>4. ASSUME NEW r \in Ranks
           PROVE  /\ worker'[r].at = "forward" /\ worker'[r].todo = worker[r].todo
                  /\ worker'[r].idx = worker[r].idx /\ Len(worker'[r].micro) = Len(worker[r].micro) - 1
                  /\ worker[r].at = "forward" /\ Len(worker[r].idx) \in Nat /\ Len(worker[r].micro) \in Nat
      BY <1>1, <1>4, Zenon DEF At
    <3>5. /\ a.at = "forward" /\ a.todo = v.todo /\ a.idx = v.idx /\ Len(a.micro) = Len(v.micro) - 1
          /\ b.at = "forward" /\ b.todo = w.todo /\ b.idx = w.idx /\ Len(b.micro) = Len(w.micro) - 1
          /\ v.at = "forward" /\ w.at = "forward"
          /\ Len(v.idx) \in Nat /\ Len(v.micro) \in Nat /\ Len(w.idx) \in Nat /\ Len(w.micro) \in Nat
      BY <3>1, <3>4, Zenon
    <3>6. Level(a, b, d, e, c)
      BY <3>3, <3>5, LevelPasses
    <3>. QED BY <3>1, <3>2, <3>6
  <2>6. Together'
    BY <1>5, <1>6, <2>5 DEF Together
  <2>. QED BY <1>1, <1>4, <1>7, <1>8, <1>9, <2>4, <2>6, CallStep
<1>10. CASE call = "failed"
  <2>1. Types'
    BY <1>1, <1>4, <1>5, <1>6, <1>7 DEF Types, At, config
  <2>2. Batches'
    BY <1>1, <1>5, <1>6, <1>10 DEF IInv, Batches
  <2>3. Working' /\ Together' /\ Results' /\ Validating'
    BY <1>5, <1>6, <1>10 DEF Working, Together, Results, Validating, Calling
  <2>4. CallsMeet'
    <3>1. PICK r \in Ranks, q \in Ranks : mode = "legacy" /\ Len(worker[r].idx) # Len(worker[q].idx)
      BY <1>10 DEF IInv, CallsMeet
    <3>2. worker'[r].idx = worker[r].idx /\ worker'[q].idx = worker[q].idx
      BY <1>4
    <3>. QED BY <1>5, <3>1, <3>2 DEF CallsMeet
  <2>. QED BY <1>8, <2>1, <2>2, <2>3, <2>4, Zenon DEF IInv
<1>11. call \in {"balance", "log_prob", "update", "done", "failed"}
  BY <1>1 DEF Types
<1>12. call # "balance"
  BY <1>1, <1>2, IdleFields DEF IInv, Batches, At
<1>13. call # "done"
  BY <1>1, <1>2 DEF IInv, Results
<1>. QED BY <1>1, <1>9, <1>10, <1>11, <1>12, <1>13 DEF Calling

\* A step that changes nothing.
LEMMA EndedInv ==
  ASSUME IInv, UNCHANGED vars PROVE IInv'
<1>1. UNCHANGED <<config, batch>> /\ call' = call /\ result' = result /\ worker' = worker
  BY DEF vars, config
<1>2. /\ mode' = mode /\ grouped' = grouped /\ lens' = lens /\ batch' = batch
      /\ (Train' <=> Train) /\ Workers' = Workers
      /\ \A r : Chunk(r)' = Chunk(r) /\ DpRank(r)' = DpRank(r)
      /\ (BatchFair' <=> BatchFair)
      /\ Largest' = Largest
  BY <1>1, Constant
<1>3. \A r \in Ranks : Plan(r)' = Plan(r) /\ Size' = Size
  BY <1>1, PlanKept DEF Kept
<1>4. Types' /\ Batches' /\ Results' /\ Validating' /\ CallsMeet'
  BY <1>1, <1>2 DEF IInv, Types, Batches, Results, Validating, CallsMeet, At
<1>5. Working' /\ Together'
  BY <1>1, <1>2, <1>3, RankExists DEF IInv, Working, Together, Calling, At
<1>6. AllMicrosFair'
  BY <1>1, <1>2 DEF IInv, AllMicrosFair, MicrosFair, LensOf, At
<1>. QED BY <1>4, <1>5, <1>6 DEF IInv

\* One of the lists that share out some rows is not empty.
LEMMA SharesSome ==
  ASSUME NEW n \in Nat \ {0}, NEW plan, Shares(plan, 1 .. n) PROVE plan # <<>>
<1>. SUFFICES ASSUME plan = <<>> PROVE FALSE
  OBVIOUS
<1>1. Once(FlattenSeq(plan), 1 .. n)
  BY FlattenShares
<1>2. FlattenSeq(plan) = <<>>
  BY FlattenEmpty
<1>3. Cardinality(1 .. n) = Len(<<>>)
  BY <1>1, <1>2, OnceCount
<1>4. Cardinality(1 .. n) = n
  BY CountUpTo
<1>. QED BY <1>3, <1>4

\* OptimizerStep
LEMMA StepInv ==
  ASSUME IInv, OptimizerStep PROVE IInv'
<1>1. /\ Types /\ Kept /\ call = "update"
      /\ \A r \in Ranks : At(r) = "forward" /\ worker[r].micro = <<>>
      /\ worker' = [r \in Ranks |-> [worker[r] EXCEPT !.at = IF Len(worker[r].todo) = 1 THEN "sent" ELSE "split",
                                                      !.todo = Tail(@)]]
  BY DEF IInv, OptimizerStep, Kept
<1>2. Train /\ Calling /\ Working /\ Together
  BY <1>1 DEF IInv, Types, Calling
<1>3. /\ mode' = mode /\ lens' = lens /\ call' = call /\ UNCHANGED <<config, batch>>
      /\ (Train' <=> Train) /\ Size' = Size
      /\ \A r \in Ranks : Chunk(r)' = Chunk(r) /\ DpRank(r)' = DpRank(r)
  BY <1>1, Constant DEF Kept, config, Size
<1>4. ASSUME NEW r \in Ranks
      PROVE  /\ worker'[r] \in Parts(1 .. NumRows)
             /\ worker'[r].at = IF Len(worker[r].todo) = 1 THEN "sent" ELSE "split"
             /\ worker'[r].todo = Tail(worker[r].todo) /\ Len(worker'[r].todo) = Len(worker[r].todo) - 1
             /\ Works(worker'[r], Chunk(r), Plan(r)', Size, call)
  <2>1. PICK w \in Parts(1 .. NumRows) : w = worker[r]
    BY <1>1, <1>2, LensAre, TrainWorkers DEF Types
  <2>2. PICK v : v = worker'[r]
    OBVIOUS
  <2>3. Stepped(v, w)
    BY <1>1, <2>1, <2>2 DEF Stepped
  <2>4. PICK chunk, plan, size, other : chunk = Chunk(r) /\ plan = Plan(r) /\ size = Size /\ other = Plan(r)'
    OBVIOUS
  <2>5. w.at = "forward" /\ w.micro = <<>> /\ Works(w, chunk, plan, size, "update")
    <3>1. At(r) = "forward" /\ worker[r].micro = <<>>
      BY <1>1
    <3>2. Works(worker[r], Chunk(r), Plan(r), Size, call)
      BY <1>2, <3>1 DEF Working
    <3>. QED BY <1>1, <2>1, <2>4, <3>1, <3>2 DEF At
  <2>6. /\ v \in Parts(1 .. NumRows) /\ v.at = IF Len(w.todo) = 1 THEN "sent" ELSE "split"
        /\ v.todo = Tail(w.todo) /\ Len(v.todo) = Len(w.todo) - 1
        /\ Works(v, chunk, other, size, "update")
    BY <2>3, <2>5, WorkSteps
  <2>. QED BY <1>1, <2>1, <2>2, <2>4, <2>6
<1>5. \A r \in Ranks : worker'[r].at \in {"sent", "split"}
  BY <1>4
<1>6. Working'
  BY <1>3, <1>4, <1>5 DEF Working, At
<1>7. Together'
  <2>1. ASSUME NEW p \in Ranks, NEW q \in Ranks
        PROVE  Level(worker'[p], worker'[q], DpRank(p), DpRank(q), "update")
    <3>1. PICK v, w, a, b : v = worker[p] /\ w = worker[q] /\ a = worker'[p] /\ b = worker'[q]
      OBVIOUS
    <3>2. PICK d, e : d = DpRank(p) /\ e = DpRank(q)
      OBVIOUS
    <3>3. Level(v, w, d, e, "update")
      BY <1>1, <1>2, <3>1, <3>2 DEF Together
    <3>4. /\ a.at = IF Len(v.todo) = 1 THEN "sent" ELSE "split"
          /\ a.todo = Tail(v.todo) /\ Len(a.todo) = Len(v.todo) - 1
          /\ b.at = IF Len(w.todo) = 1 THEN "sent" ELSE "split"
          /\ b.todo = Tail(w.todo) /\ Len(b.todo) = Len(w.todo) - 1
      BY <1>4, <3>1
    <3>5. Level(a, b, d, e, "update")
      BY <3>3, <3>4, LevelSteps
    <3>. QED BY <3>1, <3>2, <3>5
  <2>. QED BY <1>1, <1>3, <2>1 DEF Together
<1>8. AllMicrosFair'
  BY <1>5 DEF AllMicrosFair, At
<1>9. worker' \in [Ranks -> Parts(1 .. NumRows)]
  BY <1>1, <1>4
<1>. QED BY <1>1, <1>2, <1>5, <1>6, <1>7, <1>8, <1>9, CallStep

\* Finish
LEMMA FinishInv ==
  ASSUME IInv, Train, NEW r \in Ranks, Finish(r) PROVE IInv'
<1>1. /\ Types /\ Kept /\ call = "log_prob" /\ At(r) = "forward" /\ worker[r].micro = <<>>
      /\ worker' = [worker EXCEPT ![r] =
           [worker[r] EXCEPT !.at = "sent", !.out = IF mode = "fixed" THEN @ ELSE Restore(@, worker[r].idx)]]
  BY DEF IInv, Finish, Kept
<1>2. /\ Calling /\ Working /\ Together /\ AllMicrosFair /\ BatchFair
      /\ worker \in [Ranks -> Parts(1 .. NumRows)]
      /\ \A q \in Ranks : At(q) = "reduce" => mode = "engine"
  BY <1>1, LensAre, TrainWorkers DEF IInv, Batches, Calling, Types
<1>3. /\ \A q \in Ranks : At(q) # "idle" /\ Works(worker[q], Chunk(q), Plan(q), Size, call)
      /\ \A q \in Ranks : Loaded(q)
  BY <1>1, <1>2, LoadedAll
<1>4. PICK n \in Nat \ {0} : n = ChunkSize /\ Size = n
  BY <1>1, ChunkSizeIs DEF Size
<1>5. PICK w \in Parts(1 .. NumRows) : w = worker[r]
  BY <1>2
<1>6. PICK chunk \in Seq(1 .. NumRows) : chunk = Chunk(r) /\ Len(chunk) = n
  BY <1>2, <1>4, ChunkIs DEF BatchFair
<1>7. PICK plan : plan = Plan(r) /\ Plans(plan, n, mode)
  BY <1>1, <1>3, <1>4, PlanIs
<1>8. PICK v : v = [worker[r] EXCEPT !.at = "sent", !.out = IF mode = "fixed" THEN @ ELSE Restore(@, worker[r].idx)]
  OBVIOUS
<1>9. Finished(v, w, mode)
  BY <1>5, <1>8 DEF Finished
<1>10. w.at = "forward" /\ w.micro = <<>> /\ Works(w, chunk, plan, n, "log_prob")
  BY <1>1, <1>3, <1>4, <1>5, <1>6, <1>7 DEF At
<1>11. /\ v \in Parts(1 .. NumRows) /\ v.at = "sent" /\ v.todo = w.todo /\ v.idx = w.idx /\ v.micro = w.micro
       /\ Works(v, chunk, plan, n, "log_prob")
  BY <1>6, <1>7, <1>9, <1>10, WorkFinishes
<1>12. Ends(v, w)
  <2>1. w.idx = plan /\ plan # <<>>
    BY <1>7, <1>10, SharesSome DEF Works, Passes, Follows, Plans
  <2>2. Len(w.idx) # 0
    BY <2>1, PartsFields, TailFacts
  <2>. QED BY <1>10, <1>11, <2>2 DEF Ends
<1>13. worker' = [worker EXCEPT ![r] = v]
  BY <1>1, <1>8
<1>14. \A q \in Ranks : worker'[q] = IF q = r THEN v ELSE worker[q]
  BY <1>2, <1>13
<1>15. /\ mode' = mode /\ lens' = lens /\ call' = call /\ UNCHANGED <<config, batch>>
       /\ (Train' <=> Train) /\ Size' = Size /\ Largest' = Largest
       /\ \A q \in Ranks : Chunk(q)' = Chunk(q) /\ DpRank(q)' = DpRank(q) /\ Plan(q)' = Plan(q)
  <2>1. \A q \in Ranks : worker'[q].todo = worker[q].todo
    BY <1>5, <1>11, <1>14
  <2>2. \A q \in Ranks : Plan(q)' = Plan(q)
    BY <1>1, <2>1, PlanKept
  <2>. QED BY <1>1, <2>2, Constant DEF Kept, config, Size
<1>16. Working'
  <2>1. \A q \in Ranks : Works(worker'[q], Chunk(q), Plan(q), Size, call)
    BY <1>1, <1>3, <1>4, <1>6, <1>7, <1>11, <1>14
  <2>2. \A q \in Ranks : worker'[q].at # "idle"
    BY <1>3, <1>11, <1>14 DEF At
  <2>. QED BY <1>15, <2>1, <2>2 DEF Working, At
<1>17. Together'
  <2>1. ASSUME NEW p \in Ranks, NEW q \in Ranks
        PROVE  Level(worker'[p], worker'[q], DpRank(p), DpRank(q), "log_prob")
    <3>1. PICK x, y, a, b : x = worker[p] /\ y = worker[q] /\ a = worker'[p] /\ b = worker'[q]
      OBVIOUS
    <3>2. PICK d, e : d = DpRank(p) /\ e = DpRank(q)
      OBVIOUS
    <3>3. Level(x, y, d, e, "log_prob")
      BY <1>1, <1>2, <3>1, <3>2 DEF Together
    <3>4. Ends(a, x) /\ Ends(b, y)
      <4>1. \A s \in Ranks : s # r => Ends(worker'[s], worker[s])
        BY <1>14 DEF Ends
      <4>2. Ends(worker'[r], worker[r])
        BY <1>5, <1>12, <1>14
      <4>. QED BY <3>1, <4>1, <4>2
    <3>5. Level(a, b, d, e, "log_prob")
      BY <3>3, <3>4, LevelFinishes
    <3>. QED BY <3>1, <3>2, <3>5
  <2>. QED BY <1>1, <1>15, <2>1 DEF Together
<1>18. AllMicrosFair'
  <2>1. ASSUME mode # "fixed", NEW q \in Ranks, worker'[q].at = "forward" PROVE MicrosFair(worker'[q])
    BY <1>2, <1>11, <1>14, <2>1 DEF AllMicrosFair, At
  <2>. QED BY <1>15, <2>1 DEF AllMicrosFair, At, MicrosFair, LensOf
<1>19. worker' \in [Ranks -> Parts(1 .. NumRows)] /\ \A q \in Ranks : worker'[q].at = "reduce" => mode = "engine"
  BY <1>2, <1>11, <1>13, <1>14 DEF At
<1>. QED BY <1>1, <1>2, <1>16, <1>17, <1>18, <1>19, CallStep

\* Ranks that have come to different places of their plans have plans of different lengths.
LEMMA ApartMeets ==
  ASSUME Types, Calling, Working, Together, NEW r \in Ranks, NEW q \in Ranks,
         At(r) = "forward", worker[r].micro # <<>>, At(q) \in {"forward", "sent"}, worker[q].micro = <<>>
  PROVE  mode = "legacy" /\ Len(worker[r].idx) # Len(worker[q].idx)
<1>1. /\ \A s \in Ranks : At(s) # "idle" /\ Works(worker[s], Chunk(s), Plan(s), Size, call)
      /\ \A s \in Ranks : Loaded(s)
      /\ \A p, s \in Ranks : DpRank(p) = DpRank(s) => worker[p].todo = worker[s].todo
  BY LoadedAll
<1>2. PICK v \in Parts(1 .. NumRows), w \in Parts(1 .. NumRows) : v = worker[r] /\ w = worker[q]
  BY LensAre, TrainWorkers DEF Types, Calling
<1>3. PICK c, d, e : c = call /\ d = DpRank(r) /\ e = DpRank(q)
  OBVIOUS
<1>4. Level(v, w, d, e, c) /\ Level(w, v, e, d, c)
  BY <1>2, <1>3 DEF Together
<1>5. Passes(v, c) /\ Passes(w, c)
  BY <1>2, <1>3, <1>4 DEF Passes, Level, At, Calling
<1>6. v.idx = Plan(r) /\ w.idx = Plan(q)
  BY <1>1, <1>2, <1>3, <1>5 DEF Works, Follows
<1>7. Len(v.idx) # Len(w.idx)
  <2>1. Len(v.idx) \in Nat /\ Len(w.idx) \in Nat /\ Len(v.micro) \in Nat /\ Len(v.micro) # 0 /\ Len(w.micro) = 0
    BY <1>2, PartsFields, TailFacts, ListFacts
  <2>2. Len(v.idx) - Len(v.micro) = Len(w.idx) - Len(w.micro)
    BY <1>4, <1>5 DEF Level
  <2>3. PICK k \in Nat, l \in Nat, m \in Nat : k = Len(v.idx) /\ l = Len(w.idx) /\ m = Len(v.micro)
    BY <2>1
  <2>4. k - m = l - 0 /\ m # 0
    BY <2>1, <2>2, <2>3
  <2>5. k # l
    BY <2>4
  <2>. QED BY <2>3, <2>5
<1>8. mode = "legacy"
  BY <1>1, <1>6, <1>7, PlansMeet DEF Calling
<1>. QED BY <1>2, <1>7, <1>8

\* Peers that have passes to make have the same rows.
LEMMA PeersMeet ==
  ASSUME Types, Calling, Working, Together, \A r \in Ranks : At(r) = "forward" /\ worker[r].micro # <<>>
  PROVE  PeersAgree
<1>. SUFFICES ASSUME NEW r \in Ranks, NEW q \in Ranks, r \div SpSize = q \div SpSize
              PROVE  Head(worker[r].micro) = Head(worker[q].micro)
  BY DEF PeersAgree
<1>1. /\ \A s \in Ranks : At(s) # "idle" /\ Works(worker[s], Chunk(s), Plan(s), Size, call)
      /\ \A s \in Ranks : Loaded(s)
      /\ \A p, s \in Ranks : DpRank(p) = DpRank(s) => worker[p].todo = worker[s].todo
  BY LoadedAll
<1>2. PICK v \in Parts(1 .. NumRows), w \in Parts(1 .. NumRows) : v = worker[r] /\ w = worker[q]
  BY LensAre, TrainWorkers DEF Types, Calling
<1>3. DpRank(r) = DpRank(q)
  BY TrainWorkers DEF Calling
<1>4. PICK plan : plan = Plan(r) /\ plan = Plan(q)
  BY <1>1, <1>3, PlansMeet DEF Calling
<1>5. Follows(v, plan) /\ Follows(w, plan) /\ v.todo = w.todo
  BY <1>1, <1>2, <1>3, <1>4 DEF Works, Passes, At
<1>6. Len(v.micro) = Len(w.micro)
  <2>1. Len(v.idx) - Len(v.micro) = Len(w.idx) - Len(w.micro)
    BY <1>2 DEF Together, Level, Passes, At
  <2>2. v.idx = w.idx /\ Len(v.idx) \in Nat /\ Len(v.micro) \in Nat /\ Len(w.micro) \in Nat
    BY <1>5, PartsFields, ListFacts DEF Follows
  <2>3. PICK k \in Nat, l \in Nat, m \in Nat : k = Len(v.idx) /\ l = Len(v.micro) /\ m = Len(w.micro)
    BY <2>2
  <2>4. k - l = k - m
    BY <2>1, <2>2, <2>3
  <2>5. l = m
    BY <2>4
  <2>. QED BY <2>3, <2>5
<1>7. PICK all : all = Mapped(Head(v.todo), plan)
  OBVIOUS
<1>8. TailOf(v.micro, all) /\ TailOf(w.micro, all)
  BY <1>5, <1>7 DEF Follows
<1>9. v.micro = w.micro
  <2>1. v.micro \in Seq(Seq(1 .. NumRows)) /\ w.micro \in Seq(Seq(1 .. NumRows))
    BY PartsFields
  <2>. QED BY <1>6, <1>8, <2>1, SameTails
<1>. QED BY <1>2, <1>9

\* TimedOut: only legacy workers come apart, with plans of different lengths.
LEMMA TimedOutInv ==
  ASSUME IInv, TimedOut PROVE IInv'
<1>1. /\ Types /\ Batches /\ Working /\ Together /\ AllMicrosFair /\ Calling /\ Train
      /\ mode' = mode /\ grouped' = grouped /\ lens' = lens /\ batch' = batch
      /\ call' = "failed" /\ worker' = worker /\ UNCHANGED <<config, batch>>
  BY DEF IInv, TimedOut, Calling, Types, config
<1>2. Train' /\ Workers' = Workers /\ (BatchFair' <=> BatchFair) /\ Largest' = Largest
  BY <1>1, Constant
<1>3. mode = "legacy" /\ \E r, q \in Ranks : Len(worker[r].idx) # Len(worker[q].idx)
  <2>1. CASE /\ \E r \in Ranks : At(r) = "forward" /\ worker[r].micro # <<>>
             /\ \E q \in Ranks : At(q) \in {"forward", "sent"} /\ worker[q].micro = <<>>
    BY <1>1, <2>1, ApartMeets
  <2>2. CASE (\A r \in Ranks : At(r) = "forward" /\ worker[r].micro # <<>>) /\ ~PeersAgree
    BY <1>1, <2>2, PeersMeet
  <2>. QED BY <2>1, <2>2 DEF TimedOut
<1>4. CallsMeet'
  BY <1>1, <1>3 DEF CallsMeet
<1>5. Types' /\ Batches'
  BY <1>1, <1>2 DEF Types, Batches, Calling, At
<1>6. Working' /\ Together' /\ Results' /\ Validating'
  BY <1>1, <1>2 DEF Working, Together, Results, Validating, Calling
<1>7. AllMicrosFair'
  BY <1>1, <1>2 DEF AllMicrosFair, MicrosFair, LensOf, At
<1>. QED BY <1>4, <1>5, <1>6, <1>7 DEF IInv

(***************************************************************************)
(* The invariant says what the runs check.                                 *)
(***************************************************************************)
LEMMA ComputedOnce ==
  ASSUME NEW S, NEW out, Once(out, S), NEW row
  PROVE  Cardinality({i \in DOMAIN out : out[i] = row}) = IF row \in S THEN 1 ELSE 0
<1>1. out \in Seq(S) /\ DOMAIN out = 1 .. Len(out)
  BY DEF Once
<1>2. CASE row \in S
  <2>1. PICK n \in 1 .. Len(out) : out[n] = row
    BY <1>2 DEF Once
  <2>2. \A i \in 1 .. Len(out) : out[i] = row => i = n
    BY <2>1 DEF Once
  <2>3. {i \in DOMAIN out : out[i] = row} = {n}
    BY <1>1, <2>1, <2>2
  <2>. QED BY <1>2, <2>3, FS_Singleton
<1>3. CASE row \notin S
  <2>1. \A i \in 1 .. Len(out) : out[i] \in S
    BY <1>1
  <2>2. {i \in DOMAIN out : out[i] = row} = {}
    BY <1>1, <1>3, <2>1
  <2>. QED BY <1>3, <2>2, FS_EmptySet
<1>. QED BY <1>2, <1>3

\* Results are at their rows.
LEMMA RowsReturned == IInv => RowsReturn
<1>. SUFFICES ASSUME IInv PROVE RowsReturn
  OBVIOUS
<1>1. Types /\ Batches /\ Results /\ Validating
  BY DEF IInv
<1>2. Train /\ call \in {"update", "done"} => result = batch
  BY <1>1 DEF Results
<1>3. ASSUME ~Train, call = "done" PROVE result = [i \in DOMAIN lens |-> i]
  <2>1. lens \in Seq({Min(Lengths)})
    BY <1>1, <1>3 DEF Types
  <2>2. DOMAIN lens = 1 .. Len(lens)
    BY <2>1
  <2>. QED BY <1>1, <1>3, <2>2 DEF Validating, Counting
<1>4. ASSUME Train, call = "done", NEW row \in 1 .. NumRows
      PROVE  \E d \in 0 .. DpSize - 1 : \A r \in Ranks :
               Cardinality({i \in DOMAIN worker[r].out : worker[r].out[i] = row}) = IF DpRank(r) = d THEN 1 ELSE 0
  <2>1. BatchFair /\ Once(batch, 1 .. NumRows) /\ \A r \in Ranks : Once(worker[r].out, MembersOf(Chunk(r)))
    BY <1>1, <1>4 DEF Batches, BatchFair, Results
  <2>2. PICK pp : pp = Slices(batch, ChunkSize)
    OBVIOUS
  <2>3. Shares(pp, 1 .. NumRows) /\ Len(pp) = DpSize
    BY <2>1, <2>2 DEF BatchFair, Fair
  <2>4. PICK n \in Nat \ {0} : n = DpSize
    BY SizesAre
  <2>5. \A r \in Ranks : Chunk(r) = pp[DpRank(r) + 1] /\ DpRank(r) + 1 \in 1 .. n
                         /\ Chunk(r) \in Seq(1 .. NumRows) /\ DpRank(r) \in 0 .. n - 1
    BY <1>4, <2>1, <2>2, <2>4, ChunkIs, TrainWorkers
  <2>6. PICK k \in 1 .. n : \E i \in 1 .. Len(pp[k]) : pp[k][i] = row
    BY <2>3, <2>4 DEF Shares
  <2>7. \A j \in 1 .. n : row \in MembersOf(pp[j]) <=> j = k
    BY <2>3, <2>4, <2>6 DEF Shares, MembersOf
  <2>8. PICK d \in 0 .. n - 1 : d = k - 1
    OBVIOUS
  <2>9. ASSUME NEW r \in Ranks
        PROVE  Cardinality({i \in DOMAIN worker[r].out : worker[r].out[i] = row}) = IF DpRank(r) = d THEN 1 ELSE 0
    <3>1. PICK chunk \in Seq(1 .. NumRows) : chunk = Chunk(r)
      BY <2>5
    <3>2. PICK out : out = worker[r].out
      OBVIOUS
    <3>3. PICK S : S = MembersOf(chunk)
      OBVIOUS
    <3>4. Cardinality({i \in DOMAIN out : out[i] = row}) = IF row \in S THEN 1 ELSE 0
      <4>1. Once(out, S)
        BY <2>1, <3>1, <3>3, <3>2
      <4>. QED BY <3>3, <4>1, ComputedOnce
    <3>5. row \in MembersOf(chunk) <=> DpRank(r) = d
      <4>1. PICK j \in 1 .. n : j = DpRank(r) + 1
        BY <2>5
      <4>2. row \in MembersOf(chunk) <=> j = k
        BY <2>5, <2>7, <3>1, <4>1
      <4>3. j = k <=> DpRank(r) = d
        BY <2>5, <2>8, <4>1
      <4>. QED BY <4>2, <4>3
    <3>. QED BY <3>3, <3>4, <3>5, <3>2
  <2>. QED BY <2>4, <2>9
<1>. QED BY <1>2, <1>3, <1>4 DEF RowsReturn

\* What a rank makes of its mini-batch, in rows of the batch.
LEMMA MicrosApart ==
  ASSUME Types, Train, NEW r \in Ranks, MicrosFair(worker[r]),
         NEW micros, micros = {[j \in DOMAIN p |-> Head(worker[r].todo)[p[j]]] : p \in Range(worker[r].idx)}
  PROVE  (\A p \in micros : p # <<>>) /\ Apart(micros, Largest)
<1>1. PICK w \in Parts(1 .. NumRows) : w = worker[r]
  BY LensAre, TrainWorkers DEF Types
<1>2. w.todo \in Seq(Seq(1 .. NumRows)) /\ w.todo # <<>>
  BY <1>1, PartsFields DEF MicrosFair
<1>3. PICK mini \in Seq(1 .. NumRows) : mini = Head(w.todo)
  BY <1>2, TailFacts
<1>4. PICK n \in Nat : n = Len(mini) /\ DOMAIN mini = 1 .. n
  BY ListFacts
<1>5. PICK idx : idx = w.idx
  OBVIOUS
<1>6. PICK k \in Nat : k = Len(idx)
  BY <1>5, PartsFields, ListFacts
<1>7. PICK g : g = Workloads(LensOf(mini))
  OBVIOUS
<1>8. PICK high \in Nat : high = Largest
  BY WorkIs
<1>9. Fair(idx, 1 .. n, g, k, high, FALSE) /\ \A i \in 1 .. k : idx[i] # <<>>
  BY <1>1, <1>3, <1>4, <1>5, <1>6, <1>7, <1>8 DEF MicrosFair
<1>10. Shares(idx, 1 .. n) /\ \A i, j \in 1 .. k : SumOf(g, idx[i]) <= SumOf(g, idx[j]) + high
  BY <1>9 DEF Fair
<1>11. idx \in Seq(Seq(1 .. n)) /\ DOMAIN idx = 1 .. k
  BY <1>6, <1>10 DEF Shares
<1>12. PICK f : f = Workloads(lens)
  OBVIOUS
<1>13. f \in [1 .. NumRows -> Nat] /\ g \in [1 .. n -> Nat] /\ \A i \in 1 .. n : g[i] = f[mini[i]]
  BY <1>4, <1>7, <1>12, WorkIs, RowsWork DEF Between
<1>14. ASSUME NEW i \in 1 .. k
       PROVE  \E p \in Seq(1 .. NumRows) :
                /\ p = [j \in DOMAIN idx[i] |-> mini[idx[i][j]]] /\ p # <<>>
                /\ SumOf(f, p) = SumOf(g, idx[i]) /\ SumOf(f, p) \in Nat
  <2>1. PICK l \in Seq(1 .. n) : l = idx[i] /\ l # <<>>
    BY <1>9, <1>11
  <2>2. Len(l) \in Nat /\ Len(l) # 0 /\ DOMAIN l = 1 .. Len(l) /\ \A j \in 1 .. Len(l) : l[j] \in 1 .. n
    BY <2>1, ListFacts, TailFacts
  <2>3. PICK p : p = [j \in 1 .. Len(l) |-> mini[l[j]]]
    OBVIOUS
  <2>4. \A j \in 1 .. Len(l) : mini[l[j]] \in 1 .. NumRows
    BY <1>4, <2>2, ListFacts
  <2>5. p \in Seq(1 .. NumRows) /\ Len(p) = Len(l)
    <3>1. p \in [1 .. Len(l) -> 1 .. NumRows]
      BY <2>3, <2>4
    <3>. QED BY <2>2, <3>1, ListOf
  <2>6. p # <<>>
    BY <2>2, <2>5
  <2>7. \A j \in 1 .. Len(p) : f[p[j]] = g[l[j]]
    BY <1>13, <2>2, <2>3, <2>5
  <2>8. SumOf(f, p) = SumOf(g, l)
    <3>1. p \in Seq(1 .. NumRows) /\ f \in [1 .. NumRows -> Nat] /\ l \in Seq(1 .. n) /\ g \in [1 .. n -> Nat]
      BY <1>13, <2>5
    <3>2. PICK t : Totals(f, p, t) /\ SumOf(f, p) = t[Len(p)]
      BY <3>1, SumTotals
    <3>3. Totals(g, l, t)
      BY <2>5, <2>7, <3>2 DEF Totals
    <3>4. SumOf(g, l) = t[Len(l)]
      BY <3>1, <3>3, SumAt
    <3>. QED BY <2>5, <3>2, <3>4
  <2>9. SumOf(f, p) \in Nat
    BY <1>13, <2>5, SumIsNat
  <2>. QED BY <2>1, <2>2, <2>3, <2>5, <2>6, <2>8, <2>9
<1>15. ASSUME NEW p \in micros
       PROVE  \E i \in 1 .. k : p # <<>> /\ SumOf(f, p) = SumOf(g, idx[i]) /\ SumOf(f, p) \in Nat
  <2>1. PICK q \in Range(idx) : p = [j \in DOMAIN q |-> mini[q[j]]]
    BY <1>1, <1>3, <1>5
  <2>2. PICK i \in 1 .. k : q = idx[i]
    BY <1>11, <2>1 DEF Range
  <2>. QED BY <1>14, <2>1, <2>2
<1>16. ASSUME NEW p \in micros, NEW q \in micros
       PROVE  SumOf(f, p) - SumOf(f, q) <= high
  <2>1. PICK i \in 1 .. k : SumOf(f, p) = SumOf(g, idx[i]) /\ SumOf(f, p) \in Nat
    BY <1>15
  <2>2. PICK j \in 1 .. k : SumOf(f, q) = SumOf(g, idx[j]) /\ SumOf(f, q) \in Nat
    BY <1>15
  <2>3. SumOf(f, p) <= SumOf(f, q) + high
    BY <1>10, <2>1, <2>2
  <2>. QED BY <2>1, <2>2, <2>3
<1>17. Apart(micros, Largest)
  BY <1>8, <1>12, <1>16 DEF Apart
<1>. QED BY <1>15, <1>17

\* Fair slices of the batch make chunks as far apart as the run allows.
LEMMA ChunksApart ==
  ASSUME Types, Train, BatchFair, NEW chunks, chunks = {Chunk(r) : r \in Ranks}
  PROVE  /\ Apart(chunks, (Largest - Smallest) * Share)
         /\ grouped => \A c, d \in chunks : c # d =>
              {(c[i] - 1) \div GroupSize : i \in DOMAIN c} \cap {(d[i] - 1) \div GroupSize : i \in DOMAIN d} = {}
<1>1. PICK low \in Nat, high \in Nat, share \in Nat : low = Smallest /\ high = Largest /\ share = Share
  BY WorkIs, SizesAre DEF Share
<1>2. PICK pp : pp = Slices(batch, ChunkSize)
  OBVIOUS
<1>3. PICK f : f = Workloads(lens)
  OBVIOUS
<1>4. PICK k \in Nat \ {0} : k = DpSize
  BY SizesAre
<1>5. PICK a \in Nat, b \in Nat : a = high * share /\ b = low * share
  OBVIOUS
<1>6. Fair(pp, 1 .. NumRows, f, k, a - b, TRUE) /\ (grouped => Apiece(pp, GroupSize))
  BY <1>1, <1>2, <1>3, <1>4, <1>5 DEF BatchFair
<1>7. /\ Len(pp) = k /\ pp \in Seq(Seq(1 .. NumRows))
      /\ \A i, j \in 1 .. k : SumOf(f, pp[i]) <= SumOf(f, pp[j]) + (a - b)
  BY <1>6 DEF Fair, Shares
<1>8. \A j \in 1 .. k : SumOf(f, pp[j]) \in Nat
  <2>1. f \in [1 .. NumRows -> Nat]
    BY <1>3, WorkIs DEF Between
  <2>2. \A j \in 1 .. k : pp[j] \in Seq(1 .. NumRows)
    BY <1>7
  <2>. QED BY <2>1, <2>2, SumIsNat
<1>9. \A c \in chunks : \E j \in 1 .. k : c = pp[j] /\ DOMAIN c = 1 .. Len(pp[j])
  <2>1. ASSUME NEW r \in Ranks PROVE \E j \in 1 .. k : Chunk(r) = pp[j]
    BY <1>2, <1>4, ChunkIs DEF BatchFair
  <2>2. \A j \in 1 .. k : DOMAIN pp[j] = 1 .. Len(pp[j])
    BY <1>7
  <2>. QED BY <2>1, <2>2
<1>10. (high - low) * share = a - b
  BY <1>5
<1>11. ASSUME NEW c \in chunks, NEW d \in chunks PROVE SumOf(f, c) - SumOf(f, d) <= a - b
  <2>1. PICK i \in 1 .. k : c = pp[i]
    BY <1>9
  <2>2. PICK j \in 1 .. k : d = pp[j]
    BY <1>9
  <2>3. PICK x \in Nat, y \in Nat : x = SumOf(f, c) /\ y = SumOf(f, d)
    BY <1>8, <2>1, <2>2
  <2>4. x <= y + (a - b)
    BY <1>7, <2>1, <2>2, <2>3
  <2>5. x - y <= a - b
    BY <2>4
  <2>. QED BY <2>3, <2>5
<1>12. Apart(chunks, (Largest - Smallest) * Share)
  BY <1>1, <1>3, <1>10, <1>11 DEF Apart
<1>13. ASSUME grouped, NEW c \in chunks, NEW d \in chunks, c # d,
              NEW i \in DOMAIN c, NEW j \in DOMAIN d, (c[i] - 1) \div GroupSize = (d[j] - 1) \div GroupSize
       PROVE  FALSE
  <2>1. PICK x \in 1 .. k : c = pp[x] /\ DOMAIN c = 1 .. Len(pp[x])
    BY <1>9
  <2>2. PICK y \in 1 .. k : d = pp[y] /\ DOMAIN d = 1 .. Len(pp[y])
    BY <1>9
  <2>3. x = y
    BY <1>6, <1>7, <1>13, <2>1, <2>2 DEF Apiece
  <2>. QED BY <1>13, <2>1, <2>2, <2>3
<1>. QED BY <1>12, <1>13

\* What ranks hold is fair.
LEMMA PartitionsAreFair == IInv => PartitionsFair
<1>. SUFFICES ASSUME IInv, Train PROVE PartitionsFair
  BY DEF PartitionsFair
<1>1. Types /\ Batches /\ AllMicrosFair
  BY DEF IInv
<1>2. Max(Range(Workloads(lens))) = Largest /\ Min(Range(Workloads(lens))) = Smallest
      /\ (IF grouped THEN GroupSize ELSE 1) = Share
  BY DEF Largest, Smallest, Share
<1>3. ASSUME call # "balance"
      PROVE  /\ Apart({Chunk(r) : r \in Ranks}, (Largest - Smallest) * Share)
             /\ grouped => \A c, d \in {Chunk(r) : r \in Ranks} : c # d =>
                  {(c[i] - 1) \div GroupSize : i \in DOMAIN c} \cap {(d[i] - 1) \div GroupSize : i \in DOMAIN d} = {}
  BY <1>1, <1>3, ChunksApart DEF Batches
<1>4. ASSUME mode # "fixed", NEW r \in Ranks, At(r) = "forward",
             NEW micros, micros = {[j \in DOMAIN p |-> Head(worker[r].todo)[p[j]]] : p \in Range(worker[r].idx)}
      PROVE  (\A p \in micros : p # <<>>) /\ Apart(micros, Largest)
  BY <1>1, <1>4, MicrosApart DEF AllMicrosFair
<1>. QED BY <1>2, <1>3, <1>4 DEF PartitionsFair

\* Dispatch
LEMMA DispatchInv ==
  ASSUME IInv, Dispatch PROVE IInv'
BY DispatchValidation, DispatchTrain

\* Every step keeps the invariant.
LEMMA NextInv == IInv /\ [Next]_vars => IInv'
<1>. SUFFICES ASSUME IInv, [Next]_vars PROVE IInv'
  OBVIOUS
<1>1. CASE Balance
  BY <1>1, BalanceInv
<1>2. CASE Pad
  BY <1>2, PadInv
<1>3. CASE Dispatch
  BY <1>3, DispatchInv
<1>4. CASE Collect
  BY <1>4, CollectInv
<1>5. ASSUME NEW w \in Workers, Begin(w) PROVE IInv'
  BY <1>5, BeginInv
<1>6. ASSUME NEW w \in Workers, Generate(w) PROVE IInv'
  BY <1>6, GenerateInv
<1>7. ASSUME NEW r \in Ranks, Train, Reduce(r) PROVE IInv'
  BY <1>7, ReduceInv
<1>8. ASSUME NEW r \in Ranks, Train, Finish(r) PROVE IInv'
  BY <1>8, FinishInv
<1>9. CASE Forward
  BY <1>9, ForwardInv
<1>10. CASE OptimizerStep
  BY <1>10, StepInv
<1>11. CASE TimedOut
  BY <1>11, TimedOutInv
<1>12. CASE Ended
  BY <1>12, EndedInv DEF Ended
<1>13. CASE UNCHANGED vars
  BY <1>13, EndedInv
<1>. QED BY <1>1, <1>2, <1>3, <1>4, <1>5, <1>6, <1>7, <1>8, <1>9, <1>10, <1>11, <1>12, <1>13 DEF Next

\* The inductive invariant, for every batch, mesh and number of workers.
THEOREM InvHolds == Spec => []IInv
BY InitInv, NextInv, PTL DEF Spec

\* A call returns for every row what was computed for it, and an update trains every row once
\* on each rank of one group, however the batch was balanced, padded, cut into chunks, mini-
\* and micro-batches, and put together again: for any batch, lengths, mesh and batch sizes.
THEOREM RowsReturnHolds == Spec => []RowsReturn
BY InvHolds, RowsReturned, PTL

\* The chunks of the ranks differ in their work by no more than two rows do, or two groups
\* where a uid must stay together, and no uid is in two of them; no micro-batch is empty, and
\* those of a rank differ by no more than the largest row's work: for any batch, lengths, mesh
\* and batch sizes.
THEOREM PartitionsFairHolds == Spec => []PartitionsFair
BY InvHolds, PartitionsAreFair, PTL

\* No rank waits for another in a forward pass, but of legacy workers that found different
\* numbers of micro-batches: for any batch, lengths, mesh and batch sizes.
THEOREM CallsMeetHolds == Spec => []CallsMeet
<1>1. IInv => CallsMeet
  BY DEF IInv
<1>. QED BY <1>1, InvHolds, PTL
==================================================================================
