------------------------------ MODULE CodecProofs ------------------------------
(***************************************************************************)
(* Theorems about Codec, for bytes of any size above 6, packets with any   *)
(* bytes, words and texts in them, and all limits whose lengths have room: *)
(* a byte for nicknames, titles and lists, a word for messages.            *)
(*                                                                         *)
(* A codec (IsCodec) is a way of writing values and a reader such that     *)
(* what was written is read again whatever follows it, and a value is read *)
(* only where it was written.  Bytes, words, texts and the names of an     *)
(* enumeration have codecs (ScalarCodecs); the value "Unknown" that a byte *)
(* beyond the last name is read as is never written, hence the two sets of *)
(* values, those written and those that may be read.  Codecs one after the *)
(* other make a codec again (RowCodec), by induction over the row; so do a *)
(* length and as many entries (ListCodec).  PacketCodec says it of the     *)
(* layout of a type.  A type that is all text (AllText) is no codec, for   *)
(* its text ends only with the body.                                       *)
(*                                                                         *)
(* What is encoded has room in its bytes (EncodedFits), and what is        *)
(* decoded has no unknown name (ValidIsKnown), because the codecs test     *)
(* both.  The three theorems follow: a body cut short, or one with a byte  *)
(* more, would be read as two packets at once.                             *)
(***************************************************************************)
EXTENDS Codec, Recursion

-----------------------------------------------------------------------------
(* Bytes *)

LEMMA BodiesJoin ==
  ASSUME NEW u \in Bodies, NEW v \in Bodies
  PROVE  u \o v \in Bodies /\ <<>> \in Bodies /\ <<>> \o v = v /\ v \o <<>> = v
BY ConcatProperties, ConcatEmptySeq, EmptySeq DEF Bodies

LEMMA BodiesAssociate ==
  ASSUME NEW u \in Bodies, NEW v \in Bodies, NEW w \in Bodies
  PROVE  (u \o v) \o w = u \o (v \o w)
BY ConcatAssociative DEF Bodies

LEMMA BodiesConcatenable == Concatenable(Bodies)
<1>1. \A u, v \in Bodies : u \o v \in Bodies
  BY BodiesJoin
<1>2. <<>> \in Bodies /\ \A v \in Bodies : <<>> \o v = v
  BY BodiesJoin, EmptySeq DEF Bodies
<1> QED
  BY <1>1, <1>2 DEF Concatenable

LEMMA SameRest ==
  ASSUME NEW u \in Bodies, NEW v \in Bodies, NEW w \in Bodies, u \o v = u \o w
  PROVE  v = w
BY ConcatSimplifications DEF Bodies

LEMMA AsSeq ==
  ASSUME NEW n \in Nat, NEW S, NEW f \in [1..n -> S]
  PROVE  f \in Seq(S) /\ Len(f) = n /\ DOMAIN f = 1..n
<1>1. f \in Seq(S)
  BY SeqDef
<1> QED
  BY <1>1, LenProperties

-----------------------------------------------------------------------------
(* Readers in turn *)

\* What may be read of values in U.
Reads(U) == [value : U, rest : Bodies]
Readers(U) == [Bodies -> SUBSET Reads(U)]

\* One value more behind what was read.
Onward(reader, reads) ==
  UNION {{[value |-> Append(some.value, one.value), rest |-> one.rest] :
            one \in reader[some.rest]} : some \in reads}

LEMMA ReadersGrow ==
  ASSUME NEW U, NEW V, U \subseteq V, NEW r \in Readers(U)
  PROVE  r \in Readers(V)
BY DEF Readers, Reads

LEMMA OnwardType ==
  ASSUME NEW U, NEW reader \in Readers(U), NEW reads \in SUBSET Reads(Seq(U))
  PROVE  Onward(reader, reads) \in SUBSET Reads(Seq(U))
<1> SUFFICES ASSUME NEW some \in reads, NEW one \in reader[some.rest]
             PROVE  [value |-> Append(some.value, one.value), rest |-> one.rest] \in Reads(Seq(U))
  BY DEF Onward
<1>1. some.value \in Seq(U) /\ some.rest \in Bodies
  BY DEF Reads
<1>2. one.value \in U /\ one.rest \in Bodies
  BY <1>1 DEF Reads, Readers
<1>3. Append(some.value, one.value) \in Seq(U)
  BY <1>1, <1>2, AppendProperties
<1> QED
  BY <1>2, <1>3 DEF Reads

\* InTurn's function, which the readers and the bytes define.
Turning(readers, bytes) ==
  CHOOSE f : f = [k \in 0..Len(readers) |->
    IF k = 0 THEN Read(<<>>, bytes)
    ELSE UNION {{[value |-> Append(some.value, one.value), rest |-> one.rest] :
                   one \in readers[k][some.rest]} : some \in f[k - 1]}]

LEMMA InTurnIs ==
  ASSUME NEW readers, NEW bytes
  PROVE  InTurn(readers, bytes) = Turning(readers, bytes)[Len(readers)]
BY DEF InTurn, Turning

LEMMA TurningIs ==
  ASSUME NEW U, NEW readers \in Seq(Readers(U)), NEW bytes \in Bodies
  PROVE  /\ Turning(readers, bytes)[0] = Read(<<>>, bytes)
         /\ \A k \in 1..Len(readers) :
              Turning(readers, bytes)[k] = Onward(readers[k], Turning(readers, bytes)[k - 1])
         /\ \A k \in 0..Len(readers) : Turning(readers, bytes)[k] \in SUBSET Reads(Seq(U))
<1> DEFINE n == Len(readers)
           V == SUBSET Reads(Seq(U))
           base == Read(<<>>, bytes)
           step == [k \in 1..n |-> [reads \in V |-> Onward(readers[k], reads)]]
           Eq(f) == f = [k \in 0..n |-> IF k = 0 THEN base ELSE Onward(readers[k], f[k - 1])]
           t == Turning(readers, bytes)
<1>1. n \in Nat /\ \A k \in 1..n : readers[k] \in Readers(U)
  OBVIOUS
<1>2. base \in V
  BY EmptySeq DEF Read, Reads
<1>3. \A k \in 1..n, reads \in V : Onward(readers[k], reads) \in V
  BY <1>1, OnwardType
<1>4. step \in [1..n -> [V -> V]]
  BY <1>3
<1> HIDE DEF n, V, base
<1>5. PICK f : Iterates(f, V, base, n, step)
  <2> HIDE DEF step
  <2> QED
    BY <1>1, <1>2, <1>4, Recursive
<1>6. Eq(f)
  <2>1. \A k \in 1..n : k - 1 \in 0..n
    BY <1>1
  <2>2. \A k \in 1..n : f[k] = Onward(readers[k], f[k - 1])
    BY <1>5, <2>1 DEF Iterates
  <2>3. \A k \in 0..n : k # 0 => k \in 1..n
    BY <1>1
  <2> HIDE DEF step
  <2> QED
    BY <1>5, <2>2, <2>3 DEF Iterates
<1>7. Eq(t)
  BY <1>6 DEF Turning, Onward, n, base
<1> HIDE DEF t
<1>8. t[0] = base /\ \A k \in 1..n : t[k] = Onward(readers[k], t[k - 1])
  BY <1>1, <1>7
<1>9. \A k \in 0..n : t[k] \in V
  BY <1>1, <1>2, <1>3, <1>8, StaysIn
<1> QED
  BY <1>8, <1>9 DEF t, n, V, base

\* Nothing is read of nothing, and one reader more reads one value more.
LEMMA InTurnAppend ==
  ASSUME NEW U, NEW readers \in Seq(Readers(U)),
         NEW reader \in Readers(U), NEW bytes \in Bodies
  PROVE  /\ InTurn(readers, bytes) \in SUBSET Reads(Seq(U))
         /\ Len(readers) = 0 => InTurn(readers, bytes) = Read(<<>>, bytes)
         /\ InTurn(Append(readers, reader), bytes) = Onward(reader, InTurn(readers, bytes))
<1> DEFINE n == Len(readers)
           more == Append(readers, reader)
           f == Turning(readers, bytes)
           g == Turning(more, bytes)
           T == {k \in 0..n : g[k] = f[k]}
<1>1. /\ more \in Seq(Readers(U)) /\ Len(more) = n + 1 /\ n \in Nat
      /\ \A k \in 1..n : more[k] = readers[k]
      /\ more[n + 1] = reader
  BY AppendProperties
<1> HIDE DEF more
<1>2. /\ f[0] = Read(<<>>, bytes) /\ \A k \in 1..n : f[k] = Onward(readers[k], f[k - 1])
      /\ InTurn(readers, bytes) = f[n] /\ \A k \in 0..n : f[k] \in SUBSET Reads(Seq(U))
  BY TurningIs, InTurnIs
<1>3. /\ g[0] = Read(<<>>, bytes) /\ \A k \in 1..(n + 1) : g[k] = Onward(more[k], g[k - 1])
      /\ InTurn(more, bytes) = g[n + 1]
  <2>1. /\ g[0] = Read(<<>>, bytes)
        /\ \A k \in 1..Len(more) : g[k] = Onward(more[k], g[k - 1])
    BY <1>1, TurningIs
  <2> QED
    BY <1>1, <2>1, InTurnIs
<1> HIDE DEF n, f, g
<1>4. 0 \in T
  BY <1>1, <1>2, <1>3
<1>5. ASSUME NEW k \in 0..n, k < n, k \in T PROVE k + 1 \in T
  <2>1. k + 1 \in 1..n /\ k + 1 \in 1..(n + 1) /\ k + 1 \in 0..n /\ (k + 1) - 1 = k
    BY <1>1, <1>5
  <2>2. g[k + 1] = Onward(more[k + 1], g[k]) /\ f[k + 1] = Onward(readers[k + 1], f[k])
    BY <1>2, <1>3, <2>1
  <2> QED
    BY <1>1, <1>5, <2>1, <2>2
<1>6. 0..n \subseteq T
  <2> HIDE DEF T
  <2> QED
    BY <1>1, <1>4, <1>5, UpTo
<1>7. g[n] = f[n]
  BY <1>1, <1>6
<1>8. n + 1 \in 1..(n + 1) /\ (n + 1) - 1 = n /\ n \in 0..n
  BY <1>1
<1>9. InTurn(more, bytes) = Onward(reader, f[n])
  BY <1>1, <1>3, <1>7, <1>8
<1> QED
  BY <1>2, <1>8, <1>9 DEF n, more

LEMMA OnwardOne ==
  ASSUME NEW reader, NEW v, NEW b, NEW x, NEW c, reader[b] = Read(x, c)
  PROVE  Onward(reader, Read(v, b)) = Read(Append(v, x), c)
<1> DEFINE some == [value |-> v, rest |-> b]
           one == [value |-> x, rest |-> c]
           Next1(a) == {[value |-> Append(a.value, o.value), rest |-> o.rest] : o \in reader[a.rest]}
<1>1. Read(v, b) = {some} /\ reader[some.rest] = {one}
  BY DEF Read
<1>2. Onward(reader, Read(v, b)) = Next1(some)
  <2>1. Onward(reader, Read(v, b)) = UNION {Next1(a) : a \in {some}}
    BY <1>1 DEF Onward
  <2> HIDE DEF Next1
  <2> QED
    BY <2>1
<1>3. Next1(some) = {[value |-> Append(v, x), rest |-> c]}
  BY <1>1
<1> QED
  BY <1>2, <1>3 DEF Read

-----------------------------------------------------------------------------
(* Rows: one value of each set *)

Row(n, sets) == {v \in [1..n -> UNION {sets[i] : i \in 1..n}] : \A i \in 1..n : v[i] \in sets[i]}

LEMMA RowIs ==
  ASSUME NEW n \in Nat, NEW sets, NEW v \in Row(n, sets)
  PROVE  /\ v \in Seq(UNION {sets[i] : i \in 1..n}) /\ Len(v) = n /\ DOMAIN v = 1..n
         /\ \A i \in 1..n : v[i] \in sets[i]
<1>1. v \in [1..n -> UNION {sets[i] : i \in 1..n}] /\ \A i \in 1..n : v[i] \in sets[i]
  BY DEF Row
<1>2. v \in Seq(UNION {sets[i] : i \in 1..n})
  BY <1>1, SeqDef
<1> QED
  BY <1>1, <1>2, LenProperties

LEMMA InRow ==
  ASSUME NEW n \in Nat, NEW sets, NEW W, NEW v \in Seq(W), Len(v) = n,
         \A i \in 1..n : v[i] \in sets[i]
  PROVE  v \in Row(n, sets)
<1>1. v \in [1..n -> W]
  BY LenProperties
<1>2. v \in [1..n -> UNION {sets[i] : i \in 1..n}]
  BY <1>1
<1> QED
  BY <1>2 DEF Row

LEMMA RowAppend ==
  ASSUME NEW n \in Nat, NEW sets, NEW W, NEW v \in Seq(W), Len(v) = n, NEW x
  PROVE  Append(v, x) \in Row(n + 1, sets) <=> v \in Row(n, sets) /\ x \in sets[n + 1]
<1> DEFINE a == Append(v, x)
           X == W \cup {x}
<1>1. v \in Seq(X) /\ x \in X
  <2>1. v \in [1..n -> X]
    BY LenProperties
  <2> QED
    BY <2>1, SeqDef
<1>2. a \in Seq(X) /\ Len(a) = n + 1 /\ a[n + 1] = x /\ \A i \in 1..n : a[i] = v[i]
  BY <1>1, AppendProperties
<1> HIDE DEF a, X
<1>3. 1..(n + 1) = (1..n) \cup {n + 1}
  OBVIOUS
<1>4. ASSUME a \in Row(n + 1, sets) PROVE v \in Row(n, sets) /\ x \in sets[n + 1]
  <2>1. \A i \in 1..(n + 1) : a[i] \in sets[i]
    <3>1. n + 1 \in Nat
      OBVIOUS
    <3> QED
      BY <1>4, <3>1, RowIs
  <2>2. \A i \in 1..n : v[i] \in sets[i]
    BY <1>2, <1>3, <2>1
  <2>3. v \in Row(n, sets)
    BY <2>2, InRow
  <2> QED
    BY <1>2, <1>3, <2>1, <2>3
<1>5. ASSUME v \in Row(n, sets), x \in sets[n + 1] PROVE a \in Row(n + 1, sets)
  <2>1. \A i \in 1..n : v[i] \in sets[i]
    BY <1>5, RowIs
  <2>2. \A i \in 1..(n + 1) : a[i] \in sets[i]
    BY <1>2, <1>3, <1>5, <2>1
  <2> QED
    BY <1>2, <2>2, InRow
<1> QED
  BY <1>4, <1>5 DEF a

LEMMA RowFront ==
  ASSUME NEW n \in Nat, NEW sets, NEW v \in Row(n + 1, sets)
  PROVE  \E front \in Row(n, sets), last \in sets[n + 1] : v = Append(front, last)
<1> DEFINE W == UNION {sets[i] : i \in 1..(n + 1)}
           f == [i \in 1..n |-> v[i]]
<1>1. v \in Seq(W) /\ Len(v) = n + 1
  BY RowIs
<1>2. \A i \in 1..(n + 1) : v[i] \in W
  BY <1>1
<1> HIDE DEF W
<1>3. f \in Seq(W) /\ Len(f) = n
  <2>1. f \in [1..n -> W]
    BY <1>2
  <2> QED
    BY <2>1, SeqDef, LenProperties
<1>4. v = Append(f, v[n + 1])
  <2>1. /\ Append(f, v[n + 1]) \in Seq(W) /\ Len(Append(f, v[n + 1])) = n + 1
        /\ Append(f, v[n + 1])[n + 1] = v[n + 1]
        /\ \A i \in 1..n : Append(f, v[n + 1])[i] = f[i]
    BY <1>2, <1>3, AppendProperties
  <2>2. \A i \in 1..(n + 1) : Append(f, v[n + 1])[i] = v[i]
    BY <2>1
  <2> QED
    BY <1>1, <2>1, <2>2, SeqEqual
<1>5. f \in Row(n, sets) /\ v[n + 1] \in sets[n + 1]
  <2> HIDE DEF f
  <2>1. Append(f, v[n + 1]) \in Row(n + 1, sets)
    BY <1>4
  <2> QED
    BY <1>3, <2>1, RowAppend
<1> QED
  BY <1>4, <1>5

-----------------------------------------------------------------------------
(* Codecs *)

\* Values of V are written by w, and read by r, which may also find others of U.  What is written
\* is read again, whatever follows, and a value of V is read only where it was written.
IsCodec(V, U, w, r) ==
  /\ V \subseteq U
  /\ \A v \in V : w[v] \in Bodies
  /\ r \in Readers(U)
  /\ \A v \in V, b \in Bodies : r[w[v] \o b] = Read(v, b)
  /\ \A b \in Bodies : \A x \in r[b] : x.value \in V => b = w[x.value] \o x.rest

\* A row of values written one after the other.
Joined(n, w, v) == FlattenSeq([i \in 1..n |-> w[i][v[i]]])

IsRowCodec(n, V, U, w, readers) ==
  IsCodec(Row(n, V), Row(n, U), [v \in Row(n, V) |-> Joined(n, w, v)],
          [b \in Bodies |-> InTurn(readers, b)])

\* The same, said of the operators.
LEMMA RowCodecIs ==
  ASSUME NEW n, NEW V, NEW U, NEW w, NEW readers
  PROVE  IsRowCodec(n, V, U, w, readers) <=>
           /\ Row(n, V) \subseteq Row(n, U)
           /\ \A v \in Row(n, V) : Joined(n, w, v) \in Bodies
           /\ \A b \in Bodies : InTurn(readers, b) \in SUBSET Reads(Row(n, U))
           /\ \A v \in Row(n, V), b \in Bodies : InTurn(readers, Joined(n, w, v) \o b) = Read(v, b)
           /\ \A b \in Bodies : \A x \in InTurn(readers, b) :
                x.value \in Row(n, V) => b = Joined(n, w, x.value) \o x.rest
<1> DEFINE W == [v \in Row(n, V) |-> Joined(n, w, v)]
           R == [b \in Bodies |-> InTurn(readers, b)]
<1>1. \A v \in Row(n, V) : W[v] = Joined(n, w, v)
  OBVIOUS
<1>2. \A b \in Bodies : R[b] = InTurn(readers, b)
  OBVIOUS
<1>3. R \in Readers(Row(n, U)) <=> \A b \in Bodies : InTurn(readers, b) \in SUBSET Reads(Row(n, U))
  BY DEF Readers
<1>4. ASSUME \A v \in Row(n, V) : Joined(n, w, v) \in Bodies
      PROVE  \A v \in Row(n, V), b \in Bodies : W[v] \o b \in Bodies
  BY <1>1, <1>4, BodiesJoin
<1> HIDE DEF W, R
<1>5. IsRowCodec(n, V, U, w, readers) <=> IsCodec(Row(n, V), Row(n, U), W, R)
  BY DEF IsRowCodec, W, R
<1> QED
  BY <1>1, <1>2, <1>3, <1>4, <1>5 DEF IsCodec

LEMMA JoinedAppend ==
  ASSUME NEW n \in Nat, NEW V, NEW w, NEW v \in Row(n, V), NEW x \in V[n + 1],
         \A i \in 1..(n + 1) : \A y \in V[i] : w[i][y] \in Bodies
  PROVE  /\ Joined(n, w, v) \in Bodies
         /\ Joined(n + 1, w, Append(v, x)) = Joined(n, w, v) \o w[n + 1][x]
<1> DEFINE W == UNION {V[i] : i \in 1..(n + 1)}
           a == Append(v, x)
           s == [i \in 1..n |-> w[i][v[i]]]
           t == [i \in 1..(n + 1) |-> w[i][a[i]]]
<1>1. v \in Seq(W) /\ Len(v) = n /\ x \in W /\ \A i \in 1..n : v[i] \in V[i]
  <2>1. /\ v \in Seq(UNION {V[i] : i \in 1..n}) /\ Len(v) = n
        /\ \A i \in 1..n : v[i] \in V[i]
    BY RowIs
  <2>2. UNION {V[i] : i \in 1..n} \subseteq W
    OBVIOUS
  <2>3. v \in Seq(W)
    <3> HIDE DEF W
    <3> QED
      BY <2>1, <2>2, SeqMonotonic
  <2> QED
    BY <2>1, <2>3
<1> HIDE DEF W
<1>2. a[n + 1] = x /\ \A i \in 1..n : a[i] = v[i]
  BY <1>1, AppendProperties
<1> HIDE DEF a
<1>3. s \in Seq(Bodies) /\ Len(s) = n
  <2>1. s \in [1..n -> Bodies]
    BY <1>1
  <2> QED
    BY <2>1, SeqDef, LenProperties
<1>4. w[n + 1][x] \in Bodies
  OBVIOUS
<1>5. t = Append(s, w[n + 1][x])
  <2>1. /\ Append(s, w[n + 1][x]) \in Seq(Bodies) /\ Len(Append(s, w[n + 1][x])) = n + 1
        /\ Append(s, w[n + 1][x])[n + 1] = w[n + 1][x]
        /\ \A i \in 1..n : Append(s, w[n + 1][x])[i] = s[i]
    BY <1>3, <1>4, AppendProperties
  <2>2. \A i \in 1..(n + 1) : t[i] = Append(s, w[n + 1][x])[i]
    BY <1>2, <2>1
  <2>3. t \in Seq(Bodies) /\ Len(t) = n + 1
    <3>1. t \in [1..(n + 1) -> Bodies]
      BY <1>1, <1>2
    <3> QED
      BY <3>1, SeqDef, LenProperties
  <2> HIDE DEF s, t
  <2> QED
    BY <2>1, <2>2, <2>3, SeqEqual
<1> HIDE DEF s, t
<1>6. FlattenSeq(s) \in Bodies /\ FlattenSeq(t) = FlattenSeq(s) \o w[n + 1][x]
  BY <1>3, <1>4, <1>5, BodiesConcatenable, FlattenAppend
<1> QED
  BY <1>6 DEF Joined, s, t, a

\* A row of one codec more.
LEMMA OneMore ==
  ASSUME NEW n \in Nat, NEW V, NEW U, NEW w, NEW B, NEW readers \in Seq(Readers(B)), NEW reader,
         \A i \in 1..(n + 1) : U[i] \subseteq B /\ \A y \in V[i] : w[i][y] \in Bodies,
         IsRowCodec(n, V, U, w, readers),
         IsCodec(V[n + 1], U[n + 1], w[n + 1], reader)
  PROVE  IsRowCodec(n + 1, V, U, w, Append(readers, reader))
<1> DEFINE more == Append(readers, reader)
           last == w[n + 1]
<1>1. /\ Row(n, V) \subseteq Row(n, U)
      /\ \A v \in Row(n, V) : Joined(n, w, v) \in Bodies
      /\ \A b \in Bodies : InTurn(readers, b) \in SUBSET Reads(Row(n, U))
      /\ \A v \in Row(n, V), b \in Bodies : InTurn(readers, Joined(n, w, v) \o b) = Read(v, b)
      /\ \A b \in Bodies : \A x \in InTurn(readers, b) :
           x.value \in Row(n, V) => b = Joined(n, w, x.value) \o x.rest
  BY RowCodecIs
<1>2. /\ V[n + 1] \subseteq U[n + 1]
      /\ \A x \in V[n + 1] : last[x] \in Bodies
      /\ reader \in Readers(U[n + 1])
      /\ \A x \in V[n + 1], b \in Bodies : reader[last[x] \o b] = Read(x, b)
      /\ \A b \in Bodies : \A x \in reader[b] : x.value \in V[n + 1] => b = last[x.value] \o x.rest
  BY DEF IsCodec
<1>3. n + 1 \in 1..(n + 1) /\ U[n + 1] \subseteq B
  OBVIOUS
<1>4. reader \in Readers(B)
  BY <1>2, <1>3 DEF Readers, Reads
<1>5. \A b \in Bodies : InTurn(more, b) = Onward(reader, InTurn(readers, b))
  BY <1>4, InTurnAppend
<1>6. \A v \in Row(n, V), x \in V[n + 1] :
        /\ Joined(n + 1, w, Append(v, x)) = Joined(n, w, v) \o last[x]
        /\ Joined(n, w, v) \in Bodies /\ last[x] \in Bodies
  BY <1>1, <1>2, JoinedAppend
<1> HIDE DEF more, last
<1>7. \A v \in Row(n + 1, V) : \E front \in Row(n, V), x \in V[n + 1] : v = Append(front, x)
  BY RowFront
<1>8. \A front \in Row(n, U) : \A x :
        /\ Append(front, x) \in Row(n + 1, V) <=> front \in Row(n, V) /\ x \in V[n + 1]
        /\ x \in U[n + 1] => Append(front, x) \in Row(n + 1, U)
  <2> SUFFICES ASSUME NEW front \in Row(n, U), NEW x
               PROVE  /\ Append(front, x) \in Row(n + 1, V) <=> front \in Row(n, V) /\ x \in V[n + 1]
                      /\ x \in U[n + 1] => Append(front, x) \in Row(n + 1, U)
    OBVIOUS
  <2>1. front \in Seq(UNION {U[i] : i \in 1..n}) /\ Len(front) = n
    BY RowIs
  <2> QED
    BY <2>1, RowAppend
<1>9. Row(n + 1, V) \subseteq Row(n + 1, U)
  <2> SUFFICES ASSUME NEW v \in Row(n + 1, V) PROVE v \in Row(n + 1, U)
    OBVIOUS
  <2>1. PICK front \in Row(n, V), x \in V[n + 1] : v = Append(front, x)
    BY <1>7
  <2> QED
    BY <1>1, <1>2, <1>8, <2>1
<1>10. \A v \in Row(n + 1, V) : Joined(n + 1, w, v) \in Bodies
  <2> SUFFICES ASSUME NEW v \in Row(n + 1, V) PROVE Joined(n + 1, w, v) \in Bodies
    OBVIOUS
  <2>1. PICK front \in Row(n, V), x \in V[n + 1] : v = Append(front, x)
    BY <1>7
  <2>2. /\ Joined(n + 1, w, v) = Joined(n, w, front) \o last[x]
        /\ Joined(n, w, front) \in Bodies /\ last[x] \in Bodies
    BY <1>6, <2>1
  <2> QED
    BY <2>2, BodiesJoin
<1>11. ASSUME NEW b \in Bodies PROVE InTurn(more, b) \in SUBSET Reads(Row(n + 1, U))
  <2> SUFFICES ASSUME NEW some \in InTurn(readers, b), NEW one \in reader[some.rest]
               PROVE  [value |-> Append(some.value, one.value), rest |-> one.rest]
                        \in Reads(Row(n + 1, U))
    BY <1>5 DEF Onward
  <2>1. some.value \in Row(n, U) /\ some.rest \in Bodies
    BY <1>1 DEF Reads
  <2>2. one.value \in U[n + 1] /\ one.rest \in Bodies
    BY <1>2, <2>1 DEF Reads, Readers
  <2> QED
    BY <1>8, <2>1, <2>2 DEF Reads
<1>12. ASSUME NEW v \in Row(n + 1, V), NEW b \in Bodies
       PROVE  InTurn(more, Joined(n + 1, w, v) \o b) = Read(v, b)
  <2>1. PICK front \in Row(n, V), x \in V[n + 1] : v = Append(front, x)
    BY <1>7
  <2>2. /\ last[x] \o b \in Bodies
        /\ Joined(n + 1, w, v) \o b = Joined(n, w, front) \o (last[x] \o b)
        /\ Joined(n + 1, w, v) \o b \in Bodies
    <3>1. /\ Joined(n + 1, w, v) = Joined(n, w, front) \o last[x]
          /\ Joined(n, w, front) \in Bodies /\ last[x] \in Bodies
      BY <1>6, <2>1
    <3>2. (Joined(n, w, front) \o last[x]) \o b = Joined(n, w, front) \o (last[x] \o b)
      BY <3>1, BodiesAssociate
    <3>3. last[x] \o b \in Bodies /\ Joined(n, w, front) \o (last[x] \o b) \in Bodies
      BY <3>1, BodiesJoin
    <3> QED
      BY <3>1, <3>2, <3>3
  <2>3. InTurn(readers, Joined(n + 1, w, v) \o b) = Read(front, last[x] \o b)
    BY <1>1, <2>2
  <2>4. reader[last[x] \o b] = Read(x, b)
    BY <1>2
  <2>5. Onward(reader, Read(front, last[x] \o b)) = Read(Append(front, x), b)
    BY <2>4, OnwardOne
  <2> QED
    BY <1>5, <2>1, <2>2, <2>3, <2>5
<1>13. ASSUME NEW b \in Bodies, NEW read \in InTurn(more, b), read.value \in Row(n + 1, V)
       PROVE  b = Joined(n + 1, w, read.value) \o read.rest
  <2>1. PICK some \in InTurn(readers, b) : \E one \in reader[some.rest] :
          read = [value |-> Append(some.value, one.value), rest |-> one.rest]
    BY <1>5, <1>13 DEF Onward
  <2>2. PICK one \in reader[some.rest] :
          read = [value |-> Append(some.value, one.value), rest |-> one.rest]
    BY <2>1
  <2>3. some.value \in Row(n, U) /\ some.rest \in Bodies
    BY <1>1 DEF Reads
  <2>4. one.value \in U[n + 1] /\ one.rest \in Bodies
    BY <1>2, <2>3 DEF Reads, Readers
  <2>5. some.value \in Row(n, V) /\ one.value \in V[n + 1]
    BY <1>8, <1>13, <2>2, <2>3
  <2>6. b = Joined(n, w, some.value) \o some.rest /\ some.rest = last[one.value] \o one.rest
    BY <1>1, <1>2, <2>3, <2>5
  <2>7. Joined(n + 1, w, read.value) = Joined(n, w, some.value) \o last[one.value]
    BY <1>6, <2>2, <2>5
  <2>8. Joined(n, w, some.value) \in Bodies /\ last[one.value] \in Bodies
    BY <1>6, <2>5
  <2>9. (Joined(n, w, some.value) \o last[one.value]) \o one.rest
          = Joined(n, w, some.value) \o (last[one.value] \o one.rest)
    <3> DEFINE first == Joined(n, w, some.value)
               second == last[one.value]
               rest == one.rest
    <3>1. first \in Bodies /\ second \in Bodies /\ rest \in Bodies
      BY <2>4, <2>8
    <3> HIDE DEF first, second, rest
    <3>2. (first \o second) \o rest = first \o (second \o rest)
      BY <3>1, BodiesAssociate
    <3> QED
      BY <3>2 DEF first, second, rest
  <2>10. read.rest = one.rest
    BY <2>2
  <2> QED
    BY <2>6, <2>7, <2>9, <2>10
<1> QED
  BY <1>9, <1>10, <1>11, <1>12, <1>13, RowCodecIs DEF more

LEMMA NoMore ==
  ASSUME NEW V, NEW U, NEW w
  PROVE  IsRowCodec(0, V, U, w, <<>>)
<1>1. \A X : \A v : v \in Row(0, X) <=> v = <<>>
  <2> SUFFICES ASSUME NEW X, NEW v PROVE v \in Row(0, X) <=> v = <<>>
    OBVIOUS
  <2>1. ASSUME v \in Row(0, X) PROVE v = <<>>
    <3>1. v \in Seq(UNION {X[i] : i \in 1..0}) /\ Len(v) = 0
      BY <2>1, RowIs
    <3> QED
      BY <3>1, EmptySeq
  <2>2. <<>> \in Row(0, X)
    <3>1. <<>> \in Seq({}) /\ Len(<<>>) = 0 /\ \A i \in 1..0 : FALSE
      BY EmptySeq
    <3> QED
      BY <3>1, InRow
  <2> QED
    BY <2>1, <2>2
<1>2. Joined(0, w, <<>>) = <<>>
  <2>1. [i \in 1..0 |-> w[i][<<>>[i]]] = <<>>
    OBVIOUS
  <2> QED
    BY <2>1 DEF Joined, FlattenSeq
<1>3. ASSUME NEW b \in Bodies PROVE InTurn(<<>>, b) = Read(<<>>, b)
  <2>1. <<>> \in Seq(Readers({})) /\ Len(<<>>) = 0
    BY EmptySeq
  <2>2. [c \in Bodies |-> {}] \in Readers({})
    BY DEF Readers
  <2> QED
    BY <2>1, <2>2, InTurnAppend
<1>4. <<>> \in Bodies /\ \A b \in Bodies : <<>> \o b = b
  BY EmptySeq, ConcatEmptySeq DEF Bodies
<1>5. \A b \in Bodies : InTurn(<<>>, b) \in SUBSET Reads(Row(0, U))
  BY <1>1, <1>3 DEF Read, Reads
<1>6. ASSUME NEW b \in Bodies, NEW x \in InTurn(<<>>, b), x.value \in Row(0, V)
      PROVE  b = Joined(0, w, x.value) \o x.rest
  <2>1. x.value = <<>> /\ x.rest = b
    BY <1>3 DEF Read
  <2> QED
    BY <1>2, <1>4, <2>1
<1>7. \A v \in Row(0, V), b \in Bodies : InTurn(<<>>, Joined(0, w, v) \o b) = Read(v, b)
  BY <1>1, <1>2, <1>3, <1>4
<1> QED
  BY <1>1, <1>2, <1>4, <1>5, <1>6, <1>7, RowCodecIs

\* Codecs in a row make a codec.
LEMMA RowCodec ==
  ASSUME NEW n \in Nat, NEW V, NEW U, NEW w, NEW readers, readers = [i \in 1..n |-> readers[i]],
         \A i \in 1..n : IsCodec(V[i], U[i], w[i], readers[i])
  PROVE  IsRowCodec(n, V, U, w, readers)
<1> DEFINE B == UNION {U[i] : i \in 1..n}
           First(k) == [i \in 1..k |-> readers[i]]
           T == {k \in 0..n : IsRowCodec(k, V, U, w, First(k))}
<1>1. \A i \in 1..n : /\ U[i] \subseteq B /\ \A y \in V[i] : w[i][y] \in Bodies
                      /\ readers[i] \in Readers(B)
  <2> SUFFICES ASSUME NEW i \in 1..n
               PROVE  /\ U[i] \subseteq B /\ \A y \in V[i] : w[i][y] \in Bodies
                      /\ readers[i] \in Readers(B)
    OBVIOUS
  <2>1. U[i] \subseteq B
    OBVIOUS
  <2>2. /\ \A y \in V[i] : w[i][y] \in Bodies
        /\ readers[i] \in Readers(U[i])
    BY DEF IsCodec
  <2> HIDE DEF B
  <2> QED
    BY <2>1, <2>2, ReadersGrow
<1> HIDE DEF B
<1>2. 0 \in T
  <2>1. First(0) = <<>>
    OBVIOUS
  <2> QED
    BY <2>1, NoMore
<1>3. ASSUME NEW k \in 0..n, k < n, k \in T PROVE k + 1 \in T
  <2>1. k \in Nat /\ k + 1 \in 1..n /\ k + 1 \in 0..n
    BY <1>3
  <2>2. First(k) \in Seq(Readers(B)) /\ Len(First(k)) = k
    <3>1. First(k) \in [1..k -> Readers(B)]
      BY <1>1, <2>1
    <3> HIDE DEF First
    <3> QED
      BY <2>1, <3>1, AsSeq
  <2>3. First(k + 1) \in Seq(Readers(B)) /\ Len(First(k + 1)) = k + 1
    <3>1. First(k + 1) \in [1..(k + 1) -> Readers(B)]
      BY <1>1, <2>1
    <3> HIDE DEF First
    <3> QED
      BY <2>1, <3>1, AsSeq
  <2>4. Append(First(k), readers[k + 1]) = First(k + 1)
    <3> DEFINE a == Append(First(k), readers[k + 1])
    <3>1. /\ a \in Seq(Readers(B)) /\ Len(a) = k + 1 /\ a[k + 1] = readers[k + 1]
          /\ \A i \in 1..k : a[i] = First(k)[i]
      BY <1>1, <2>1, <2>2, AppendProperties
    <3> HIDE DEF a
    <3>2. \A i \in 1..(k + 1) : a[i] = First(k + 1)[i]
      <4> SUFFICES ASSUME NEW i \in 1..(k + 1) PROVE a[i] = First(k + 1)[i]
        OBVIOUS
      <4>1. First(k + 1)[i] = readers[i]
        OBVIOUS
      <4>2. CASE i = k + 1
        BY <3>1, <4>1, <4>2
      <4>3. CASE i # k + 1
        <5>1. i \in 1..k
          BY <2>1, <4>3
        <5>2. First(k)[i] = readers[i]
          BY <5>1
        <5> QED
          BY <3>1, <4>1, <5>1, <5>2
      <4> QED
        BY <4>2, <4>3
    <3>3. a = First(k + 1)
      <4> HIDE DEF First
      <4> QED
        BY <2>3, <3>1, <3>2, SeqEqual
    <3> QED
      BY <3>3 DEF a
  <2>5. IsRowCodec(k, V, U, w, First(k)) /\ \A i \in 1..(k + 1) : i \in 1..n
    BY <1>3, <2>1
  <2>6. IsRowCodec(k + 1, V, U, w, Append(First(k), readers[k + 1]))
    <3>1. /\ \A i \in 1..(k + 1) : U[i] \subseteq B /\ \A y \in V[i] : w[i][y] \in Bodies
          /\ IsCodec(V[k + 1], U[k + 1], w[k + 1], readers[k + 1])
      BY <1>1, <2>1, <2>5
    <3> HIDE DEF First
    <3> QED
      BY <2>1, <2>2, <2>5, <3>1, OneMore
  <2> QED
    BY <2>1, <2>4, <2>6
<1>4. 0..n \subseteq T
  <2> HIDE DEF T
  <2> QED
    BY <1>2, <1>3, UpTo
<1>5. n \in T /\ First(n) = readers
  BY <1>4
<1> QED
  BY <1>5

-----------------------------------------------------------------------------
(* Bytes, words and texts *)

Byte == 0..(Base - 1)

LEMMA BaseIs == Base \in Nat /\ Base > 6 /\ Bodies = Seq(Byte)
BY CodecConstants DEF Bodies, Byte

LEMMA OneByte ==
  ASSUME NEW x \in Byte, NEW b \in Bodies
  PROVE  /\ <<x>> \in Bodies /\ <<x>> \o b \in Bodies /\ <<x>> \o b # <<>>
         /\ (<<x>> \o b)[1] = x /\ Tail(<<x>> \o b) = b
<1>1. <<x>> \in Seq(Byte) /\ Len(<<x>>) = 1 /\ <<x>>[1] = x
  OBVIOUS
<1>2. b \in Seq(Byte)
  BY BaseIs
<1> DEFINE c == <<x>> \o b
<1>3. /\ c \in Seq(Byte) /\ Len(c) = 1 + Len(b)
      /\ \A i \in 1..(1 + Len(b)) : c[i] = IF i <= 1 THEN <<x>>[i] ELSE b[i - 1]
  BY <1>1, <1>2, ConcatProperties
<1>4. Len(b) \in Nat
  BY <1>2, LenProperties
<1> HIDE DEF c
<1>5. c[1] = x /\ c # <<>>
  BY <1>1, <1>3, <1>4, EmptySeq
<1>6. Tail(c) = b
  <2>1. Tail(c) \in Seq(Byte) /\ Len(Tail(c)) = Len(b) /\ \A i \in 1..Len(b) : Tail(c)[i] = c[i + 1]
    BY <1>3, <1>4, <1>5, HeadTailProperties
  <2>2. \A i \in 1..Len(b) : c[i + 1] = b[i]
    BY <1>3, <1>4
  <2> QED
    BY <1>2, <2>1, <2>2, SeqEqual
<1> QED
  BY <1>1, <1>3, <1>5, <1>6, BaseIs DEF c

LEMMA ByteWritten ==
  ASSUME NEW x \in Byte, NEW b \in Bodies
  PROVE  ReadByte(<<x>> \o b) = Read(x, b)
BY OneByte DEF ReadByte

LEMMA ByteRead ==
  ASSUME NEW b \in Bodies, NEW x \in ReadByte(b)
  PROVE  x.value \in Byte /\ x.rest \in Bodies /\ b = <<x.value>> \o x.rest
<1>1. b # <<>> /\ x = [value |-> b[1], rest |-> Tail(b)]
  BY DEF ReadByte, Read
<1>2. b \in Seq(Byte) /\ Len(b) \in Nat \ {0}
  BY <1>1, BaseIs, EmptySeq
<1>3. b[1] \in Byte
  BY <1>2, ElementOfSeq
<1>4. /\ Tail(b) \in Seq(Byte) /\ Len(Tail(b)) = Len(b) - 1
      /\ \A i \in 1..(Len(b) - 1) : Tail(b)[i] = b[i + 1]
  BY <1>1, <1>2, HeadTailProperties
<1> DEFINE c == <<b[1]>> \o Tail(b)
<1>5. /\ c \in Seq(Byte) /\ Len(c) = 1 + Len(Tail(b))
      /\ \A i \in 1..(1 + Len(Tail(b))) : c[i] = IF i <= 1 THEN <<b[1]>>[i] ELSE Tail(b)[i - 1]
  <2>1. <<b[1]>> \in Seq(Byte) /\ Len(<<b[1]>>) = 1
    BY <1>3
  <2> QED
    BY <1>4, <2>1, ConcatProperties
<1> HIDE DEF c
<1>6. ASSUME NEW i \in 1..Len(b) PROVE c[i] = b[i]
  <2>1. CASE i = 1
    BY <1>2, <1>4, <1>5, <2>1
  <2>2. CASE i # 1
    <3>1. i - 1 \in 1..(Len(b) - 1) /\ (i - 1) + 1 = i /\ i \in 1..(1 + Len(Tail(b))) /\ ~(i <= 1)
      BY <1>2, <1>4, <2>2
    <3> QED
      BY <1>4, <1>5, <3>1
  <2> QED
    BY <2>1, <2>2
<1>7. c = b
  <2>1. Len(c) = Len(b)
    BY <1>2, <1>4, <1>5
  <2> QED
    BY <1>2, <1>5, <1>6, <2>1, SeqEqual
<1> QED
  BY <1>1, <1>3, <1>4, <1>7, BaseIs DEF c

LEMMA Division ==
  ASSUME NEW n \in 0..(Base * Base - 1)
  PROVE  /\ n \div Base \in Byte /\ n % Base \in Byte
         /\ (n \div Base) * Base + (n % Base) = n
<1> DEFINE q == n \div Base
           r == n % Base
<1>1. Base \in Nat /\ Base > 6 /\ n \in Nat
  BY BaseIs
<1>2. q \in Int /\ r \in 0..(Base - 1) /\ n = Base * q + r
  BY <1>1
<1> HIDE DEF q, r
<1>3. q >= 0
  <2> SUFFICES ASSUME q <= -1 PROVE FALSE
    BY <1>2
  <2>1. Base * q <= Base * (-1)
    BY <1>1, <1>2
  <2> QED
    BY <1>1, <1>2, <2>1
<1>4. q < Base
  <2> SUFFICES ASSUME q >= Base PROVE FALSE
    BY <1>1, <1>2
  <2>1. Base * q >= Base * Base
    BY <1>1, <1>2
  <2> QED
    BY <1>1, <1>2, <2>1
<1>5. q * Base = Base * q
  BY <1>1, <1>2
<1> QED
  BY <1>1, <1>2, <1>3, <1>4, <1>5 DEF q, r, Byte

LEMMA Multiplied ==
  ASSUME NEW p \in Byte, NEW q \in Byte
  PROVE  /\ p * Base + q \in 0..(Base * Base - 1)
         /\ (p * Base + q) \div Base = p /\ (p * Base + q) % Base = q
<1> DEFINE n == p * Base + q
<1>1. Base \in Nat /\ Base > 6 /\ p \in 0..(Base - 1) /\ q \in 0..(Base - 1)
  BY BaseIs DEF Byte
<1>2. p * Base \in Nat /\ p * Base <= (Base - 1) * Base /\ (Base - 1) * Base = Base * Base - Base
  BY <1>1
<1>3. n \in 0..(Base * Base - 1)
  BY <1>1, <1>2
<1>4. n \div Base \in Byte /\ n % Base \in Byte /\ (n \div Base) * Base + (n % Base) = n
  BY <1>3, Division
<1> DEFINE d == n \div Base
           m == n % Base
<1>5. d \in Int /\ m \in 0..(Base - 1) /\ d * Base + m = p * Base + q
  BY <1>4 DEF Byte
<1> HIDE DEF d, m, n
<1>6. d = p
  <2>1. ASSUME d < p PROVE FALSE
    <3>1. (d + 1) * Base <= p * Base /\ (d + 1) * Base = d * Base + Base
      BY <1>1, <1>5, <2>1
    <3> QED
      BY <1>1, <1>2, <1>5, <3>1
  <2>2. ASSUME p < d PROVE FALSE
    <3>1. (p + 1) * Base <= d * Base /\ (p + 1) * Base = p * Base + Base
      BY <1>1, <1>5, <2>2
    <3> QED
      BY <1>1, <1>2, <1>5, <3>1
  <2> QED
    BY <1>1, <1>5, <2>1, <2>2
<1>7. m = q
  BY <1>1, <1>2, <1>5, <1>6
<1> QED
  BY <1>3, <1>6, <1>7 DEF d, m, n

LEMMA Joints ==
  ASSUME NEW t \in Bodies, NEW b \in Bodies
  PROVE  /\ t \o b \in Bodies /\ Len(t \o b) = Len(t) + Len(b)
         /\ Len(t) \in Nat /\ Len(b) \in Nat
         /\ \A i \in 1..Len(t) : (t \o b)[i] = t[i]
         /\ SubSeq(t \o b, 1, Len(t)) = t
         /\ SubSeq(t \o b, Len(t) + 1, Len(t \o b)) = b
<1> DEFINE c == t \o b
           m == Len(t)
           n == Len(b)
<1>1. t \in Seq(Byte) /\ b \in Seq(Byte) /\ m \in Nat /\ n \in Nat
  BY BaseIs, LenProperties
<1>2. /\ c \in Seq(Byte) /\ Len(c) = m + n
      /\ \A i \in 1..(m + n) : c[i] = IF i <= m THEN t[i] ELSE b[i - m]
  BY <1>1, ConcatProperties
<1>3. \A i \in 1..(m + n) : c[i] \in Byte
  BY <1>2
<1> HIDE DEF c
<1>4. \A i \in 1..m : c[i] = t[i]
  BY <1>1, <1>2
<1>5. SubSeq(c, 1, m) = t
  <2>1. /\ SubSeq(c, 1, m) \in Seq(Byte) /\ Len(SubSeq(c, 1, m)) = m
        /\ \A i \in 1..m : SubSeq(c, 1, m)[i] = c[i]
    <3>1. 1 \in Int /\ m \in Int /\ \A i \in 1..m : c[i] \in Byte
      BY <1>1, <1>3
    <3> HIDE DEF m
    <3>2. /\ SubSeq(c, 1, m) \in Seq(Byte) /\ Len(SubSeq(c, 1, m)) = IF 1 <= m THEN m - 1 + 1 ELSE 0
          /\ \A i \in 1..(m - 1 + 1) : SubSeq(c, 1, m)[i] = c[1 + i - 1]
      BY <3>1, SubSeqProperties
    <3>3. m \in Nat
      BY <1>1
    <3>4. Len(SubSeq(c, 1, m)) = m
      BY <3>2, <3>3
    <3>5. ASSUME NEW i \in 1..m PROVE SubSeq(c, 1, m)[i] = c[i]
      <4>1. i \in 1..(m - 1 + 1) /\ 1 + i - 1 = i
        BY <3>3
      <4> QED
        BY <3>2, <4>1
    <3> QED
      BY <3>2, <3>4, <3>5
  <2> QED
    BY <1>1, <1>4, <2>1, SeqEqual
<1>6. SubSeq(c, m + 1, m + n) = b
  <2> DEFINE d == SubSeq(c, m + 1, m + n)
  <2>1. /\ d \in Seq(Byte) /\ Len(d) = (IF m + 1 <= m + n THEN (m + n) - (m + 1) + 1 ELSE 0)
        /\ \A i \in 1..((m + n) - (m + 1) + 1) : d[i] = c[(m + 1) + i - 1]
    <3>1. m + 1 \in Int /\ m + n \in Int /\ \A i \in (m + 1)..(m + n) : c[i] \in Byte
      BY <1>1, <1>3
    <3> QED
      BY <3>1, SubSeqProperties
  <2> HIDE DEF d
  <2>2. Len(d) = n
    BY <1>1, <2>1
  <2>3. ASSUME NEW i \in 1..n PROVE d[i] = b[i]
    <3>1. /\ i \in 1..((m + n) - (m + 1) + 1) /\ (m + 1) + i - 1 = m + i /\ m + i \in 1..(m + n)
          /\ ~(m + i <= m) /\ (m + i) - m = i
      BY <1>1
    <3> QED
      BY <1>2, <2>1, <3>1
  <2>4. d = b
    BY <1>1, <2>1, <2>2, <2>3, SeqEqual
  <2> QED
    BY <2>4 DEF d
<1> QED
  BY <1>1, <1>2, <1>4, <1>5, <1>6, BaseIs DEF c

LEMMA Parts ==
  ASSUME NEW b \in Bodies, NEW n \in 0..Len(b)
  PROVE  /\ Len(b) \in Nat
         /\ SubSeq(b, 1, n) \in Bodies /\ Len(SubSeq(b, 1, n)) = n
         /\ SubSeq(b, n + 1, Len(b)) \in Bodies
         /\ SubSeq(b, 1, n) \o SubSeq(b, n + 1, Len(b)) = b
<1>1. b \in Seq(Byte) /\ Len(b) \in Nat /\ n \in Nat /\ n <= Len(b)
  BY BaseIs, LenProperties
<1>2. \A i \in 1..Len(b) : b[i] \in Byte
  BY <1>1
<1>3. SubSeq(b, 1, n) \in Seq(Byte) /\ Len(SubSeq(b, 1, n)) = n
  <2>1. 1 \in Int /\ n \in Int /\ \A i \in 1..n : b[i] \in Byte
    BY <1>1, <1>2
  <2>2. /\ SubSeq(b, 1, n) \in Seq(Byte)
        /\ Len(SubSeq(b, 1, n)) = IF 1 <= n THEN n - 1 + 1 ELSE 0
    BY <2>1, SubSeqProperties
  <2> QED
    BY <1>1, <2>2
<1>4. SubSeq(b, n + 1, Len(b)) \in Seq(Byte)
  <2>1. n + 1 \in Int /\ Len(b) \in Int /\ \A i \in (n + 1)..Len(b) : b[i] \in Byte
    BY <1>1, <1>2
  <2> QED
    BY <2>1, SubSeqProperties
<1>5. SubSeq(b, 1, n) \o SubSeq(b, n + 1, Len(b)) = SubSeq(b, 1, Len(b))
  <2>1. 1 \in 1..(Len(b) + 1) /\ n \in (1 - 1)..Len(b) /\ Len(b) \in n..Len(b)
    BY <1>1
  <2> QED
    BY <1>1, <2>1, ConcatAdjacentSubSeq
<1>6. SubSeq(b, 1, Len(b)) = b
  BY <1>1, SubSeqFull
<1> QED
  BY <1>1, <1>3, <1>4, <1>5, <1>6, BaseIs

Wide == 0..(Base * Base - 1)

LEMMA WordWritten ==
  ASSUME NEW n \in Wide, NEW b \in Bodies
  PROVE  Word(n) \in Bodies /\ ReadWord(Word(n) \o b) = Read(n, b)
<1>1. n \div Base \in Byte /\ n % Base \in Byte /\ (n \div Base) * Base + (n % Base) = n
  BY Division DEF Wide
<1>2. /\ Word(n) \in Seq(Byte) /\ Len(Word(n)) = 2
      /\ Word(n)[1] = n \div Base /\ Word(n)[2] = n % Base
  BY <1>1 DEF Word
<1>3. Word(n) \in Bodies
  BY <1>2, BaseIs
<1> DEFINE t == Word(n)
           c == t \o b
<1>4. /\ Len(c) = Len(t) + Len(b) /\ Len(b) \in Nat /\ c[1] = t[1] /\ c[2] = t[2]
      /\ SubSeq(c, Len(t) + 1, Len(c)) = b
  <2> HIDE DEF t
  <2>1. 1 \in 1..Len(t) /\ 2 \in 1..Len(t)
    BY <1>2 DEF t
  <2> QED
    BY <1>3, <2>1, Joints DEF t
<1> HIDE DEF t, c
<1>5. ~(Len(c) < 2) /\ c[1] * Base + c[2] = n /\ SubSeq(c, 3, Len(c)) = b
  BY <1>1, <1>2, <1>4 DEF t
<1>6. ReadWord(c) = Read(n, b)
  BY <1>5 DEF ReadWord
<1> QED
  BY <1>3, <1>6 DEF c, t

LEMMA WordRead ==
  ASSUME NEW b \in Bodies, NEW x \in ReadWord(b)
  PROVE  x.value \in Wide /\ x.rest \in Bodies /\ b = Word(x.value) \o x.rest
<1>1. ~(Len(b) < 2) /\ x = [value |-> b[1] * Base + b[2], rest |-> SubSeq(b, 3, Len(b))]
  BY DEF ReadWord, Read
<1>2. b \in Seq(Byte) /\ Len(b) \in Nat
  BY BaseIs, LenProperties
<1>3. b[1] \in Byte /\ b[2] \in Byte
  BY <1>1, <1>2
<1>4. /\ x.value \in Wide /\ Word(x.value) = <<b[1], b[2]>>
  BY <1>1, <1>3, Multiplied DEF Word, Wide
<1>5. 2 \in 0..Len(b) /\ 2 + 1 = 3
  BY <1>1, <1>2
<1>6. /\ SubSeq(b, 1, 2) \in Bodies /\ Len(SubSeq(b, 1, 2)) = 2
      /\ x.rest \in Bodies /\ SubSeq(b, 1, 2) \o x.rest = b
  BY <1>1, <1>5, Parts
<1>7. SubSeq(b, 1, 2) = <<b[1], b[2]>>
  <2> DEFINE t == SubSeq(b, 1, 2)
  <2>1. t[1] = b[1] /\ t[2] = b[2]
    <3>1. \A i \in 1..Len(t) : (t \o x.rest)[i] = t[i]
      BY <1>6, Joints
    <3> QED
      BY <1>6, <3>1
  <2>2. t \in Seq(Byte) /\ Len(t) = 2
    BY <1>6, BaseIs
  <2>3. <<b[1], b[2]>> \in Seq(Byte) /\ Len(<<b[1], b[2]>>) = 2
    BY <1>3
  <2> HIDE DEF t
  <2>4. t = <<b[1], b[2]>>
    BY <2>1, <2>2, <2>3, SeqEqual
  <2> QED
    BY <2>4 DEF t
<1> QED
  BY <1>4, <1>6, <1>7

LEMMA TextWritten ==
  ASSUME NEW t \in Bodies, NEW b \in Bodies
  PROVE  ReadText(Len(t), t \o b) = Read(t, b)
<1>1. /\ Len(t \o b) = Len(t) + Len(b) /\ Len(t) \in Nat /\ Len(b) \in Nat
      /\ SubSeq(t \o b, 1, Len(t)) = t /\ SubSeq(t \o b, Len(t) + 1, Len(t \o b)) = b
  BY Joints
<1>2. ~(Len(t) > Len(t \o b))
  BY <1>1
<1> QED
  BY <1>1, <1>2 DEF ReadText

LEMMA TextRead ==
  ASSUME NEW n \in Nat, NEW b \in Bodies, NEW x \in ReadText(n, b)
  PROVE  x.value \in Bodies /\ Len(x.value) = n /\ x.rest \in Bodies /\ b = x.value \o x.rest
<1>1. ~(n > Len(b)) /\ x = [value |-> SubSeq(b, 1, n), rest |-> SubSeq(b, n + 1, Len(b))]
  BY DEF ReadText, Read
<1>2. Len(b) \in Nat
  BY BaseIs, LenProperties
<1>3. n \in 0..Len(b)
  BY <1>1, <1>2
<1> QED
  BY <1>1, <1>3, Parts

-----------------------------------------------------------------------------
(* Scalars *)

\* The values of a kind that its bytes have room for.
Fit(kind) ==
  CASE kind = "Byte"     -> Byte
    [] kind = "Bool"     -> BOOLEAN
    [] kind = "Word"     -> Wide
    [] kind = "Text"     -> {t \in Bodies : Len(t) \in Byte}
    [] kind = "LongText" -> {t \in Bodies : Len(t) \in Wide}
    [] OTHER             -> Range(Named[kind]) \ {"Unknown"}

\* What may be read of a kind.
Readable(kind) == Fit(kind) \cup IF kind \in DOMAIN Named THEN {"Unknown"} ELSE {}

Scalars == {"Byte", "Bool", "Word", "Text", "LongText"} \cup DOMAIN Named

ScalarCodec(kind) ==
  IsCodec(Fit(kind), Readable(kind), [v \in Fit(kind) |-> WrittenScalar(kind, v)],
          [b \in Bodies |-> ReadScalar(kind, b)])

LEMMA ScalarCodecIf ==
  ASSUME NEW kind,
         \A v \in Fit(kind) : WrittenScalar(kind, v) \in Bodies,
         \A b \in Bodies : \A x \in ReadScalar(kind, b) :
            /\ x \in Reads(Readable(kind))
            /\ x.value \in Fit(kind) => b = WrittenScalar(kind, x.value) \o x.rest,
         \A v \in Fit(kind), b \in Bodies :
            ReadScalar(kind, WrittenScalar(kind, v) \o b) = Read(v, b)
  PROVE  ScalarCodec(kind)
<1> DEFINE w == [v \in Fit(kind) |-> WrittenScalar(kind, v)]
           r == [b \in Bodies |-> ReadScalar(kind, b)]
<1>1. \A v \in Fit(kind) : w[v] = WrittenScalar(kind, v)
  OBVIOUS
<1>2. \A b \in Bodies : r[b] = ReadScalar(kind, b)
  OBVIOUS
<1>3. r \in Readers(Readable(kind))
  BY DEF Readers
<1>4. \A v \in Fit(kind), b \in Bodies : w[v] \o b \in Bodies
  BY <1>1, BodiesJoin
<1>5. Fit(kind) \subseteq Readable(kind)
  BY DEF Readable
<1> HIDE DEF w, r
<1>6. IsCodec(Fit(kind), Readable(kind), w, r)
  BY <1>1, <1>2, <1>3, <1>4, <1>5 DEF IsCodec
<1> QED
  BY <1>6 DEF ScalarCodec, w, r

\* A read of what is told apart by its value and its rest.
LEMMA ReadIs ==
  ASSUME NEW U, NEW x, x.value \in U, x.rest \in Bodies, x = [value |-> x.value, rest |-> x.rest]
  PROVE  x \in Reads(U)
BY DEF Reads

LEMMA ByteCodec == ScalarCodec("Byte")
<1>1. Fit("Byte") = Byte /\ Readable("Byte") = Byte
  BY DEF Fit, Readable, Named
<1>2. /\ \A v : WrittenScalar("Byte", v) = <<v>>
      /\ \A b : ReadScalar("Byte", b) = ReadByte(b)
  BY DEF WrittenScalar, ReadScalar
<1>3. \A v \in Byte : <<v>> \in Bodies
  BY OneByte, EmptySeq DEF Bodies
<1>4. \A b \in Bodies : \A x \in ReadByte(b) : x \in Reads(Byte) /\ b = <<x.value>> \o x.rest
  <2> SUFFICES ASSUME NEW b \in Bodies, NEW x \in ReadByte(b)
               PROVE  x \in Reads(Byte) /\ b = <<x.value>> \o x.rest
    OBVIOUS
  <2>1. x = [value |-> x.value, rest |-> x.rest]
    BY DEF ReadByte, Read
  <2> QED
    BY <2>1, ByteRead, ReadIs
<1>5. \A v \in Byte, b \in Bodies : ReadByte(<<v>> \o b) = Read(v, b)
  BY ByteWritten
<1> QED
  <2>1. \A v \in Fit("Byte") : WrittenScalar("Byte", v) \in Bodies
    BY <1>1, <1>2, <1>3
  <2>2. \A b \in Bodies : \A x \in ReadScalar("Byte", b) :
          /\ x \in Reads(Readable("Byte"))
          /\ x.value \in Fit("Byte") => b = WrittenScalar("Byte", x.value) \o x.rest
    BY <1>1, <1>2, <1>4
  <2>3. \A v \in Fit("Byte"), b \in Bodies :
          ReadScalar("Byte", WrittenScalar("Byte", v) \o b) = Read(v, b)
    BY <1>1, <1>2, <1>5
  <2> QED
    BY <2>1, <2>2, <2>3, ScalarCodecIf

LEMMA BoolCodec == ScalarCodec("Bool")
<1> DEFINE Bit(v) == IF v THEN 1 ELSE 0
<1>1. Fit("Bool") = BOOLEAN /\ Readable("Bool") = BOOLEAN
  BY DEF Fit, Readable, Named
<1>2. /\ \A v : WrittenScalar("Bool", v) = <<Bit(v)>>
      /\ \A b : ReadScalar("Bool", b) = ReadBool(b)
  BY DEF WrittenScalar, ReadScalar
<1>3. \A v \in BOOLEAN : Bit(v) \in Byte /\ ~(Bit(v) > 1) /\ (Bit(v) # 0) = v
  BY BaseIs DEF Byte
<1>4. \A v \in BOOLEAN : <<Bit(v)>> \in Bodies
  BY <1>3, OneByte, EmptySeq DEF Bodies
<1>5. \A b \in Bodies : \A x \in ReadBool(b) :
        x \in Reads(BOOLEAN) /\ b = <<Bit(x.value)>> \o x.rest
  <2> SUFFICES ASSUME NEW b \in Bodies, NEW x \in ReadBool(b)
               PROVE  x \in Reads(BOOLEAN) /\ b = <<Bit(x.value)>> \o x.rest
    OBVIOUS
  <2>1. b # <<>> /\ ~(b[1] > 1) /\ x = [value |-> b[1] # 0, rest |-> Tail(b)]
    BY DEF ReadBool, Read
  <2>2. ReadByte(b) = Read(b[1], Tail(b))
    BY <2>1 DEF ReadByte
  <2>3. b[1] \in Byte /\ Tail(b) \in Bodies /\ b = <<b[1]>> \o Tail(b)
    <3>1. [value |-> b[1], rest |-> Tail(b)] \in ReadByte(b)
      BY <2>2 DEF Read
    <3> QED
      BY <3>1, ByteRead
  <2>4. x.value \in BOOLEAN /\ x.rest = Tail(b) /\ x = [value |-> x.value, rest |-> x.rest]
    BY <2>1
  <2>5. Bit(x.value) = b[1]
    <3>1. b[1] = 0 \/ b[1] = 1
      BY <2>1, <2>3, BaseIs DEF Byte
    <3>2. CASE b[1] = 0
      BY <2>1, <3>2
    <3>3. CASE b[1] = 1
      BY <2>1, <3>3
    <3> QED
      BY <3>1, <3>2, <3>3
  <2> HIDE DEF Bit
  <2>6. x \in Reads(BOOLEAN)
    BY <2>1, <2>3 DEF Reads
  <2>7. b = <<Bit(x.value)>> \o x.rest
    BY <2>3, <2>4, <2>5
  <2> QED
    BY <2>6, <2>7
<1>6. ASSUME NEW v \in BOOLEAN, NEW b \in Bodies PROVE ReadBool(<<Bit(v)>> \o b) = Read(v, b)
  <2> HIDE DEF Bit
  <2> DEFINE c == <<Bit(v)>> \o b
  <2>1. c # <<>> /\ c[1] = Bit(v) /\ Tail(c) = b
    BY <1>3, OneByte
  <2> HIDE DEF c
  <2>2. ReadBool(c) = Read(v, b)
    BY <1>3, <2>1 DEF ReadBool
  <2> QED
    BY <2>2 DEF c
<1> HIDE DEF Bit
<1> QED
  <2>1. \A v \in Fit("Bool") : WrittenScalar("Bool", v) \in Bodies
    BY <1>1, <1>2, <1>4
  <2>2. \A b \in Bodies : \A x \in ReadScalar("Bool", b) :
          /\ x \in Reads(Readable("Bool"))
          /\ x.value \in Fit("Bool") => b = WrittenScalar("Bool", x.value) \o x.rest
    <3> SUFFICES ASSUME NEW b \in Bodies, NEW x \in ReadScalar("Bool", b)
                 PROVE  /\ x \in Reads(BOOLEAN)
                        /\ b = WrittenScalar("Bool", x.value) \o x.rest
      BY <1>1
    <3>1. x \in ReadBool(b) /\ WrittenScalar("Bool", x.value) = <<Bit(x.value)>>
      BY <1>2
    <3> QED
      BY <1>5, <3>1
  <2>3. \A v \in Fit("Bool"), b \in Bodies :
          ReadScalar("Bool", WrittenScalar("Bool", v) \o b) = Read(v, b)
    BY <1>1, <1>2, <1>6
  <2> QED
    BY <2>1, <2>2, <2>3, ScalarCodecIf

LEMMA WordCodec == ScalarCodec("Word")
<1>1. Fit("Word") = Wide /\ Readable("Word") = Wide
  BY DEF Fit, Readable, Named
<1>2. /\ \A v : WrittenScalar("Word", v) = Word(v)
      /\ \A b : ReadScalar("Word", b) = ReadWord(b)
  BY DEF WrittenScalar, ReadScalar
<1>3. \A v \in Wide : Word(v) \in Bodies
  BY WordWritten, EmptySeq DEF Bodies
<1>4. \A b \in Bodies : \A x \in ReadWord(b) : x \in Reads(Wide) /\ b = Word(x.value) \o x.rest
  <2> SUFFICES ASSUME NEW b \in Bodies, NEW x \in ReadWord(b)
               PROVE  x \in Reads(Wide) /\ b = Word(x.value) \o x.rest
    OBVIOUS
  <2>1. x = [value |-> x.value, rest |-> x.rest]
    BY DEF ReadWord, Read
  <2> QED
    BY <2>1, WordRead, ReadIs
<1>5. \A v \in Wide, b \in Bodies : ReadWord(Word(v) \o b) = Read(v, b)
  BY WordWritten
<1> QED
  <2>1. \A v \in Fit("Word") : WrittenScalar("Word", v) \in Bodies
    BY <1>1, <1>2, <1>3
  <2>2. \A b \in Bodies : \A x \in ReadScalar("Word", b) :
          /\ x \in Reads(Readable("Word"))
          /\ x.value \in Fit("Word") => b = WrittenScalar("Word", x.value) \o x.rest
    BY <1>1, <1>2, <1>4
  <2>3. \A v \in Fit("Word"), b \in Bodies :
          ReadScalar("Word", WrittenScalar("Word", v) \o b) = Read(v, b)
    BY <1>1, <1>2, <1>5
  <2> QED
    BY <2>1, <2>2, <2>3, ScalarCodecIf

LEMMA TextCodec == ScalarCodec("Text")
<1> DEFINE V == {t \in Bodies : Len(t) \in Byte}
           W(t) == <<Len(t)>> \o t
           R(b) == UNION {ReadText(n.value, n.rest) : n \in ReadByte(b)}
<1>1. Fit("Text") = V /\ Readable("Text") = V
  BY DEF Fit, Readable, Named
<1>2. (\A v : WrittenScalar("Text", v) = W(v)) /\ \A b : ReadScalar("Text", b) = R(b)
  BY DEF WrittenScalar, ReadScalar
<1>3. \A t \in V : <<Len(t)>> \in Bodies /\ W(t) \in Bodies
  <2>1. \A t \in V : <<Len(t)>> \in Bodies
    BY OneByte, ByteWritten, EmptySeq DEF Bodies
  <2> QED
    BY <2>1, BodiesJoin
<1>4. ASSUME NEW b \in Bodies, NEW x \in R(b) PROVE x \in Reads(V) /\ b = W(x.value) \o x.rest
  <2>1. PICK n \in ReadByte(b) : x \in ReadText(n.value, n.rest)
    OBVIOUS
  <2>2. n.value \in Byte /\ n.rest \in Bodies /\ b = <<n.value>> \o n.rest /\ n.value \in Nat
    BY ByteRead, BaseIs DEF Byte
  <2>3. x = [value |-> x.value, rest |-> x.rest]
    BY <2>1 DEF ReadText, Read
  <2>4. x.value \in Bodies /\ Len(x.value) = n.value /\ x.rest \in Bodies /\ n.rest = x.value \o x.rest
    BY <2>1, <2>2, TextRead
  <2>5. x.value \in V
    BY <2>2, <2>4
  <2>6. <<n.value>> \in Bodies /\ <<n.value>> = <<Len(x.value)>>
    BY <1>3, <2>4, <2>5
  <2>7. W(x.value) \o x.rest = <<n.value>> \o (x.value \o x.rest)
    <3> DEFINE u == <<n.value>>
    <3>1. W(x.value) = u \o x.value /\ u \in Bodies
      BY <2>6
    <3> HIDE DEF u, W
    <3>2. (u \o x.value) \o x.rest = u \o (x.value \o x.rest)
      BY <2>4, <3>1, BodiesAssociate
    <3> QED
      BY <3>1, <3>2 DEF u
  <2>8. x \in Reads(V)
    <3> HIDE DEF V
    <3> QED
      BY <2>3, <2>4, <2>5, ReadIs
  <2> QED
    BY <2>2, <2>4, <2>7, <2>8
<1>5. ASSUME NEW t \in V, NEW b \in Bodies PROVE R(W(t) \o b) = Read(t, b)
  <2>1. W(t) \o b = <<Len(t)>> \o (t \o b) /\ t \o b \in Bodies
    <3> DEFINE u == <<Len(t)>>
    <3>1. W(t) = u \o t /\ u \in Bodies /\ t \in Bodies
      BY <1>3
    <3> HIDE DEF u, W
    <3>2. (u \o t) \o b = u \o (t \o b) /\ t \o b \in Bodies
      BY <3>1, BodiesJoin, BodiesAssociate
    <3> QED
      BY <3>1, <3>2 DEF u
  <2>2. ReadByte(W(t) \o b) = Read(Len(t), t \o b)
    BY <2>1, ByteWritten
  <2> DEFINE F(n) == ReadText(n.value, n.rest)
             one == [value |-> Len(t), rest |-> t \o b]
  <2>3. R(W(t) \o b) = UNION {F(n) : n \in {one}}
    BY <2>2 DEF Read
  <2>4. F(one) = Read(t, b)
    BY TextWritten
  <2> HIDE DEF F, one
  <2> QED
    BY <2>3, <2>4
<1> HIDE DEF V, W, R
<1> QED
  <2>1. \A v \in Fit("Text") : WrittenScalar("Text", v) \in Bodies
    BY <1>1, <1>2, <1>3
  <2>2. \A b \in Bodies : \A x \in ReadScalar("Text", b) :
          /\ x \in Reads(Readable("Text"))
          /\ x.value \in Fit("Text") => b = WrittenScalar("Text", x.value) \o x.rest
    BY <1>1, <1>2, <1>4
  <2>3. \A v \in Fit("Text"), b \in Bodies :
          ReadScalar("Text", WrittenScalar("Text", v) \o b) = Read(v, b)
    BY <1>1, <1>2, <1>5
  <2> QED
    BY <2>1, <2>2, <2>3, ScalarCodecIf

LEMMA LongTextCodec == ScalarCodec("LongText")
<1> DEFINE V == {t \in Bodies : Len(t) \in Wide}
           W(t) == Word(Len(t)) \o t
           R(b) == UNION {ReadText(n.value, n.rest) : n \in ReadWord(b)}
<1>1. Fit("LongText") = V /\ Readable("LongText") = V
  BY DEF Fit, Readable, Named
<1>2. (\A v : WrittenScalar("LongText", v) = W(v)) /\ \A b : ReadScalar("LongText", b) = R(b)
  BY DEF WrittenScalar, MessageSize, ReadScalar
<1>3. \A t \in V : Word(Len(t)) \in Bodies /\ W(t) \in Bodies
  <2>1. \A t \in V : Word(Len(t)) \in Bodies
    BY WordWritten, EmptySeq DEF Bodies
  <2> QED
    BY <2>1, BodiesJoin
<1>4. ASSUME NEW b \in Bodies, NEW x \in R(b) PROVE x \in Reads(V) /\ b = W(x.value) \o x.rest
  <2>1. PICK n \in ReadWord(b) : x \in ReadText(n.value, n.rest)
    OBVIOUS
  <2>2. n.value \in Wide /\ n.rest \in Bodies /\ b = Word(n.value) \o n.rest /\ n.value \in Nat
    <3>1. n.value \in Wide /\ n.rest \in Bodies /\ b = Word(n.value) \o n.rest
      BY WordRead
    <3> QED
      BY <3>1 DEF Wide
  <2>3. x = [value |-> x.value, rest |-> x.rest]
    BY <2>1 DEF ReadText, Read
  <2>4. x.value \in Bodies /\ Len(x.value) = n.value /\ x.rest \in Bodies /\ n.rest = x.value \o x.rest
    BY <2>1, <2>2, TextRead
  <2>5. x.value \in V
    BY <2>2, <2>4
  <2>6. Word(n.value) \in Bodies /\ Word(n.value) = Word(Len(x.value))
    BY <1>3, <2>4, <2>5
  <2>7. W(x.value) \o x.rest = Word(n.value) \o (x.value \o x.rest)
    <3> DEFINE u == Word(n.value)
    <3>1. W(x.value) = u \o x.value /\ u \in Bodies
      BY <2>6
    <3> HIDE DEF u, W
    <3>2. (u \o x.value) \o x.rest = u \o (x.value \o x.rest)
      BY <2>4, <3>1, BodiesAssociate
    <3> QED
      BY <3>1, <3>2 DEF u
  <2>8. x \in Reads(V)
    <3> HIDE DEF V
    <3> QED
      BY <2>3, <2>4, <2>5, ReadIs
  <2> QED
    BY <2>2, <2>4, <2>7, <2>8
<1>5. ASSUME NEW t \in V, NEW b \in Bodies PROVE R(W(t) \o b) = Read(t, b)
  <2>1. W(t) \o b = Word(Len(t)) \o (t \o b) /\ t \o b \in Bodies
    <3> DEFINE u == Word(Len(t))
    <3>1. W(t) = u \o t /\ u \in Bodies /\ t \in Bodies
      BY <1>3
    <3> HIDE DEF u, W
    <3>2. (u \o t) \o b = u \o (t \o b) /\ t \o b \in Bodies
      BY <3>1, BodiesJoin, BodiesAssociate
    <3> QED
      BY <3>1, <3>2 DEF u
  <2>2. ReadWord(W(t) \o b) = Read(Len(t), t \o b)
    BY <2>1, WordWritten
  <2> DEFINE F(n) == ReadText(n.value, n.rest)
             one == [value |-> Len(t), rest |-> t \o b]
  <2>3. R(W(t) \o b) = UNION {F(n) : n \in {one}}
    BY <2>2 DEF Read
  <2>4. F(one) = Read(t, b)
    BY TextWritten
  <2> HIDE DEF F, one
  <2> QED
    BY <2>3, <2>4
<1> HIDE DEF V, W, R
<1> QED
  <2>1. \A v \in Fit("LongText") : WrittenScalar("LongText", v) \in Bodies
    BY <1>1, <1>2, <1>3
  <2>2. \A b \in Bodies : \A x \in ReadScalar("LongText", b) :
          /\ x \in Reads(Readable("LongText"))
          /\ x.value \in Fit("LongText") => b = WrittenScalar("LongText", x.value) \o x.rest
    BY <1>1, <1>2, <1>4
  <2>3. \A v \in Fit("LongText"), b \in Bodies :
          ReadScalar("LongText", WrittenScalar("LongText", v) \o b) = Read(v, b)
    BY <1>1, <1>2, <1>5
  <2> QED
    BY <2>1, <2>2, <2>3, ScalarCodecIf


\* No name stands twice in an enumeration, and a byte has room for each.
LEMMA NamesDiffer ==
  ASSUME NEW kind \in DOMAIN Named
  PROVE  /\ Len(Named[kind]) \in 1..7 /\ DOMAIN Named[kind] = 1..Len(Named[kind])
         /\ \A i, j \in DOMAIN Named[kind] : Named[kind][i] = Named[kind][j] => i = j
         /\ kind \notin {"Byte", "Bool", "Word", "Text", "LongText", "Rest"}
<1>1. kind \in {"Stone", "State", "Phase", "Change", "Reason"}
  BY DEF Named
<1>2. CASE kind = "Stone"
  <2>1. Named[kind] = <<"Empty", "Black", "White">>
    BY <1>2 DEF Named
  <2> QED
    BY <1>2, <2>1
<1>3. CASE kind = "State"
  <2>1. Named[kind] = <<"NotStarted", "Playing", "BlackWon", "WhiteWon", "Draw">>
    BY <1>3 DEF Named
  <2> QED
    BY <1>3, <2>1
<1>4. CASE kind = "Phase"
  <2>1. Named[kind] = <<"Waiting", "Playing">>
    BY <1>4 DEF Named
  <2> QED
    BY <1>4, <2>1
<1>5. CASE kind = "Change"
  <2>1. Named[kind] = <<"Unknown", "Joined", "Left", "Disconnected">>
    BY <1>5 DEF Named
  <2> QED
    BY <1>5, <2>1
<1>6. CASE kind = "Reason"
  <2>1. Named[kind] = <<"Unknown", "FiveInRow", "BoardFull", "Resigned", "TurnTimeout", "LeftRoom",
                        "Disconnected">>
    BY <1>6 DEF Named
  <2> QED
    BY <1>6, <2>1
<1> QED
  BY <1>1, <1>2, <1>3, <1>4, <1>5, <1>6

LEMMA NameCodec ==
  ASSUME NEW kind \in DOMAIN Named
  PROVE  ScalarCodec(kind)
<1> DEFINE names == Named[kind]
           V == Range(names) \ {"Unknown"}
           At(v) == CHOOSE i \in DOMAIN names : names[i] = v
           Found(n) == IF n < Len(names) THEN names[n + 1] ELSE "Unknown"
           R(b) == UNION {ReadName(names, n.value, n.rest) : n \in ReadByte(b)}
<1>1. /\ Len(names) \in 1..7 /\ DOMAIN names = 1..Len(names)
      /\ \A i, j \in DOMAIN names : names[i] = names[j] => i = j
      /\ kind \notin {"Byte", "Bool", "Word", "Text", "LongText", "Rest"}
  BY NamesDiffer
<1>2. Fit(kind) = V /\ Readable(kind) = V \cup {"Unknown"}
  BY <1>1 DEF Fit, Readable
<1>3. /\ \A v : WrittenScalar(kind, v) = <<At(v) - 1>>
      /\ \A b : ReadScalar(kind, b) = R(b)
  BY <1>1 DEF WrittenScalar, ReadScalar
<1>4. ASSUME NEW v \in V
      PROVE  /\ At(v) \in 1..Len(names) /\ names[At(v)] = v /\ At(v) - 1 \in Byte
             /\ Found(At(v) - 1) = v
  <2>1. \E i \in DOMAIN names : names[i] = v
    BY DEF Range
  <2>2. At(v) \in DOMAIN names /\ names[At(v)] = v
    BY <2>1
  <2> HIDE DEF At, names
  <2>3. At(v) - 1 \in Byte /\ At(v) - 1 < Len(names) /\ (At(v) - 1) + 1 = At(v)
    BY <1>1, <2>2, BaseIs DEF Byte
  <2> QED
    BY <1>1, <2>2, <2>3
<1>5. ASSUME NEW n \in Byte
      PROVE  /\ Found(n) \in V \cup {"Unknown"}
             /\ Found(n) \in V => At(Found(n)) - 1 = n
  <2>1. n \in Nat
    BY BaseIs DEF Byte
  <2>2. CASE n < Len(names)
    <3>1. n + 1 \in DOMAIN names /\ Found(n) = names[n + 1]
      BY <1>1, <2>1, <2>2
    <3>2. Found(n) \in Range(names)
      BY <3>1 DEF Range
    <3>3. ASSUME Found(n) \in V PROVE At(Found(n)) = n + 1
      <4>1. At(Found(n)) \in DOMAIN names /\ names[At(Found(n))] = Found(n)
        BY <1>1, <1>4, <3>3
      <4> HIDE DEF At
      <4> QED
        BY <1>1, <3>1, <4>1
    <3> HIDE DEF Found, At
    <3> QED
      BY <2>1, <3>2, <3>3
  <2>3. CASE ~(n < Len(names))
    BY <2>3
  <2> QED
    BY <2>2, <2>3
<1> HIDE DEF At, Found
<1>6. \A v \in V : <<At(v) - 1>> \in Bodies
  BY <1>4, OneByte, EmptySeq DEF Bodies
<1>7. ASSUME NEW b \in Bodies, NEW x \in R(b)
      PROVE  x \in Reads(V \cup {"Unknown"}) /\ (x.value \in V => b = <<At(x.value) - 1>> \o x.rest)
  <2>1. PICK n \in ReadByte(b) : x \in ReadName(names, n.value, n.rest)
    OBVIOUS
  <2>2. n.value \in Byte /\ n.rest \in Bodies /\ b = <<n.value>> \o n.rest
    BY ByteRead
  <2>3. x = [value |-> Found(n.value), rest |-> n.rest]
    BY <2>1 DEF ReadName, Read, Found
  <2> HIDE DEF V, names
  <2>4. Found(n.value) \in V \cup {"Unknown"} /\ (Found(n.value) \in V => At(Found(n.value)) - 1 = n.value)
    BY <1>5, <2>2
  <2>5. x \in Reads(V \cup {"Unknown"})
    BY <2>2, <2>3, <2>4 DEF Reads
  <2> QED
    BY <2>2, <2>3, <2>4, <2>5
<1>8. ASSUME NEW v \in V, NEW b \in Bodies PROVE R(<<At(v) - 1>> \o b) = Read(v, b)
  <2>1. ReadByte(<<At(v) - 1>> \o b) = Read(At(v) - 1, b)
    BY <1>4, ByteWritten
  <2> DEFINE F(n) == ReadName(names, n.value, n.rest)
             one == [value |-> At(v) - 1, rest |-> b]
  <2>2. R(<<At(v) - 1>> \o b) = UNION {F(n) : n \in {one}}
    BY <2>1 DEF Read
  <2>3. F(one) = Read(v, b)
    BY <1>4 DEF ReadName, Found
  <2> HIDE DEF F, one, R
  <2> QED
    BY <2>2, <2>3
<1> HIDE DEF V, R
<1>9. \A v \in Fit(kind) : WrittenScalar(kind, v) \in Bodies
  BY <1>2, <1>3, <1>6
<1>10. \A b \in Bodies : \A x \in ReadScalar(kind, b) :
         /\ x \in Reads(Readable(kind))
         /\ x.value \in Fit(kind) => b = WrittenScalar(kind, x.value) \o x.rest
  BY <1>2, <1>3, <1>7
<1>11. \A v \in Fit(kind), b \in Bodies :
         ReadScalar(kind, WrittenScalar(kind, v) \o b) = Read(v, b)
  BY <1>2, <1>3, <1>8
<1> QED
  BY <1>9, <1>10, <1>11, ScalarCodecIf

LEMMA ScalarCodecs ==
  ASSUME NEW kind \in Scalars
  PROVE  ScalarCodec(kind)
BY ByteCodec, BoolCodec, WordCodec, TextCodec, LongTextCodec, NameCodec DEF Scalars

-----------------------------------------------------------------------------
(* Records, lists and packets *)

Fits(layout) == Row(Len(layout), [i \in DOMAIN layout |-> Fit(layout[i])])

Readables(layout) == Row(Len(layout), [i \in DOMAIN layout |-> Readable(layout[i])])

LEMMA RecordCodec ==
  ASSUME NEW layout \in Seq(Scalars)
  PROVE  IsCodec(Fits(layout), Readables(layout), [v \in Fits(layout) |-> WrittenRecord(layout, v)],
                 [b \in Bodies |-> ReadRecord(layout, b)])
<1> DEFINE n == Len(layout)
           V == [i \in DOMAIN layout |-> Fit(layout[i])]
           U == [i \in DOMAIN layout |-> Readable(layout[i])]
           w == [i \in DOMAIN layout |-> [v \in Fit(layout[i]) |-> WrittenScalar(layout[i], v)]]
           readers == [i \in DOMAIN layout |-> [b \in Bodies |-> ReadScalar(layout[i], b)]]
<1>1. n \in Nat /\ DOMAIN layout = 1..n /\ \A i \in 1..n : layout[i] \in Scalars
  BY LenProperties
<1>2. \A i \in 1..n : IsCodec(V[i], U[i], w[i], readers[i])
  BY <1>1, ScalarCodecs DEF ScalarCodec
<1>3. readers = [i \in 1..n |-> readers[i]]
  BY <1>1
<1>4. \A i \in 1..n : \A v \in V[i] : w[i][v] = WrittenScalar(layout[i], v)
  BY <1>1
<1>5. Fits(layout) = Row(n, V) /\ Readables(layout) = Row(n, U)
  BY DEF Fits, Readables
<1>6. \A b : ReadRecord(layout, b) = InTurn(readers, b)
  BY DEF ReadRecord
<1> HIDE DEF V, U, w, readers
<1>7. IsRowCodec(n, V, U, w, readers)
  <2> HIDE DEF n
  <2> QED
    BY <1>1, <1>2, <1>3, RowCodec
<1>8. ASSUME NEW v \in Row(n, V) PROVE Joined(n, w, v) = WrittenRecord(layout, v)
  <2>1. \A i \in 1..n : v[i] \in V[i]
    <3> HIDE DEF n
    <3> QED
      BY <1>1, RowIs
  <2>2. [i \in 1..n |-> w[i][v[i]]] = [i \in DOMAIN layout |-> WrittenScalar(layout[i], v[i])]
    BY <1>1, <1>4, <2>1
  <2> QED
    BY <2>2 DEF Joined, WrittenRecord
<1> HIDE DEF n
<1>9. [v \in Row(n, V) |-> Joined(n, w, v)] = [v \in Row(n, V) |-> WrittenRecord(layout, v)]
  BY <1>8
<1>10. [b \in Bodies |-> InTurn(readers, b)] = [b \in Bodies |-> ReadRecord(layout, b)]
  BY <1>6
<1> QED
  BY <1>5, <1>7, <1>9, <1>10 DEF IsRowCodec

\* As many of one codec as a byte says.
Listed(V) == {v \in Seq(V) : Len(v) \in Byte}

LEMMA ListedRow ==
  ASSUME NEW V, NEW n \in Nat, NEW v
  PROVE  v \in Row(n, [i \in 1..n |-> V]) <=> v \in Seq(V) /\ Len(v) = n
<1> DEFINE S == [i \in 1..n |-> V]
<1>1. \A i \in 1..n : S[i] = V
  OBVIOUS
<1> HIDE DEF S
<1>2. ASSUME v \in Row(n, S) PROVE v \in Seq(V) /\ Len(v) = n
  <2>1. v \in Seq(UNION {S[i] : i \in 1..n}) /\ Len(v) = n
    BY <1>2, RowIs
  <2>2. UNION {S[i] : i \in 1..n} \subseteq V
    BY <1>1
  <2> QED
    BY <2>1, <2>2, SeqMonotonic
<1>3. ASSUME v \in Seq(V), Len(v) = n PROVE v \in Row(n, S)
  <2>1. \A i \in 1..n : v[i] \in S[i]
    BY <1>1, <1>3
  <2> QED
    BY <1>3, <2>1, InRow
<1> QED
  BY <1>2, <1>3 DEF S

LEMMA ListCodec ==
  ASSUME NEW layout,
         IsCodec(Fits(layout), Fits(layout), [v \in Fits(layout) |-> WrittenRecord(layout, v)],
                 [b \in Bodies |-> ReadRecord(layout, b)])
  PROVE  IsCodec(Listed(Fits(layout)), Listed(Fits(layout)),
                 [v \in Listed(Fits(layout)) |->
                    <<Len(v)>> \o FlattenSeq([i \in DOMAIN v |-> WrittenRecord(layout, v[i])])],
                 [b \in Bodies |-> UNION {ReadList(layout, n.value, n.rest) : n \in ReadByte(b)}])
<1> DEFINE V == Fits(layout)
           w == [v \in V |-> WrittenRecord(layout, v)]
           r == [b \in Bodies |-> ReadRecord(layout, b)]
           L == Listed(V)
           Entries(v) == FlattenSeq([i \in DOMAIN v |-> WrittenRecord(layout, v[i])])
           W(v) == <<Len(v)>> \o Entries(v)
           R(b) == UNION {ReadList(layout, n.value, n.rest) : n \in ReadByte(b)}
<1>1. \A v \in V : w[v] = WrittenRecord(layout, v)
  OBVIOUS
<1> HIDE DEF V, w, r, W, R, Entries
<1>2. IsCodec(V, V, w, r)
  BY DEF V, w, r
<1>3. ASSUME NEW n \in Nat
      PROVE  /\ \A v \in Seq(V) : Len(v) = n => Entries(v) \in Bodies
             /\ \A b \in Bodies : \A x \in ReadList(layout, n, b) :
                  /\ x \in Reads(Seq(V)) /\ Len(x.value) = n
                  /\ b = Entries(x.value) \o x.rest
             /\ \A v \in Seq(V), b \in Bodies :
                  Len(v) = n => ReadList(layout, n, Entries(v) \o b) = Read(v, b)
  <2> DEFINE Vs == [i \in 1..n |-> V]
             ws == [i \in 1..n |-> w]
             rs == [i \in 1..n |-> r]
  <2>1. IsRowCodec(n, Vs, Vs, ws, rs)
    <3>1. \A i \in 1..n : Vs[i] = V /\ ws[i] = w /\ rs[i] = r
      OBVIOUS
    <3>2. rs = [i \in 1..n |-> rs[i]]
      OBVIOUS
    <3> HIDE DEF Vs, ws, rs
    <3>3. \A i \in 1..n : IsCodec(Vs[i], Vs[i], ws[i], rs[i])
      BY <1>2, <3>1
    <3> QED
      BY <3>2, <3>3, RowCodec
  <2>2. \A v : v \in Row(n, Vs) <=> v \in Seq(V) /\ Len(v) = n
    BY ListedRow
  <2>3. ASSUME NEW v \in Seq(V), Len(v) = n PROVE Joined(n, ws, v) = Entries(v)
    <3>1. DOMAIN v = 1..n /\ \A i \in 1..n : v[i] \in V
      BY <2>3, LenProperties
    <3>2. [i \in 1..n |-> ws[i][v[i]]] = [i \in DOMAIN v |-> WrittenRecord(layout, v[i])]
      BY <1>1, <3>1
    <3> QED
      BY <3>2 DEF Joined, Entries
  <2>4. \A b : ReadList(layout, n, b) = InTurn(rs, b)
    BY DEF ReadList, r
  <2> HIDE DEF Vs, ws, rs
  <2>5. /\ \A v \in Row(n, Vs) : Joined(n, ws, v) \in Bodies
        /\ \A b \in Bodies : InTurn(rs, b) \in SUBSET Reads(Row(n, Vs))
        /\ \A v \in Row(n, Vs), b \in Bodies : InTurn(rs, Joined(n, ws, v) \o b) = Read(v, b)
        /\ \A b \in Bodies : \A x \in InTurn(rs, b) :
             x.value \in Row(n, Vs) => b = Joined(n, ws, x.value) \o x.rest
    BY <2>1, RowCodecIs
  <2>6. \A v \in Seq(V) : Len(v) = n => Entries(v) \in Bodies
    BY <2>2, <2>3, <2>5
  <2>7. \A v \in Seq(V), b \in Bodies :
          Len(v) = n => ReadList(layout, n, Entries(v) \o b) = Read(v, b)
    BY <2>2, <2>3, <2>4, <2>5
  <2>8. ASSUME NEW b \in Bodies, NEW x \in ReadList(layout, n, b)
        PROVE  x \in Reads(Seq(V)) /\ Len(x.value) = n /\ b = Entries(x.value) \o x.rest
    <3>1. x \in Reads(Row(n, Vs)) /\ x \in InTurn(rs, b)
      BY <2>4, <2>5
    <3>2. x.value \in Row(n, Vs)
      BY <3>1 DEF Reads
    <3>3. x.value \in Seq(V) /\ Len(x.value) = n
      BY <2>2, <3>2
    <3>4. x \in Reads(Seq(V))
      BY <3>1, <3>3 DEF Reads
    <3> QED
      BY <2>3, <2>5, <3>1, <3>2, <3>3, <3>4
  <2> QED
    BY <2>6, <2>7, <2>8
<1>4. \A v \in L : v \in Seq(V) /\ Len(v) \in Byte /\ Len(v) \in Nat
  BY BaseIs DEF Listed, Byte
<1>5. \A v \in L : <<Len(v)>> \in Bodies /\ Entries(v) \in Bodies /\ W(v) \in Bodies
  <2>1. \A v \in L : <<Len(v)>> \in Bodies /\ Entries(v) \in Bodies
    BY <1>3, <1>4, OneByte, EmptySeq DEF Bodies
  <2> QED
    BY <2>1, BodiesJoin DEF W
<1>6. ASSUME NEW b \in Bodies, NEW x \in R(b)
      PROVE  x \in Reads(L) /\ b = W(x.value) \o x.rest
  <2>1. PICK n \in ReadByte(b) : x \in ReadList(layout, n.value, n.rest)
    BY DEF R
  <2>2. n.value \in Byte /\ n.rest \in Bodies /\ b = <<n.value>> \o n.rest
    BY ByteRead
  <2>3. n.value \in Nat
    BY <2>2, BaseIs DEF Byte
  <2>4. x \in Reads(Seq(V)) /\ Len(x.value) = n.value /\ n.rest = Entries(x.value) \o x.rest
    BY <1>3, <2>1, <2>2, <2>3
  <2>5. x.value \in L /\ x.rest \in Bodies /\ x \in Reads(L)
    BY <2>2, <2>4 DEF Reads, Listed
  <2> DEFINE u == <<Len(x.value)>>
             e == Entries(x.value)
  <2>6. u \in Bodies /\ e \in Bodies /\ W(x.value) = u \o e /\ u = <<n.value>>
    BY <1>5, <2>4, <2>5 DEF W
  <2>7. b = u \o (e \o x.rest)
    BY <2>2, <2>4
  <2> HIDE DEF u, e
  <2>8. (u \o e) \o x.rest = u \o (e \o x.rest)
    <3>1. u \in Bodies /\ e \in Bodies /\ x.rest \in Bodies
      BY <2>5, <2>6
    <3> QED
      BY <3>1, BodiesAssociate
  <2> QED
    BY <2>5, <2>6, <2>7, <2>8
<1>7. ASSUME NEW v \in L, NEW b \in Bodies PROVE R(W(v) \o b) = Read(v, b)
  <2> DEFINE u == <<Len(v)>>
             e == Entries(v)
  <2>1. u \in Bodies /\ e \in Bodies /\ W(v) = u \o e
    BY <1>5 DEF W
  <2> HIDE DEF u, e
  <2>2. W(v) \o b = u \o (e \o b) /\ e \o b \in Bodies
    BY <2>1, BodiesAssociate, BodiesJoin
  <2>3. ReadByte(W(v) \o b) = Read(Len(v), e \o b)
    BY <1>4, <2>2, ByteWritten DEF u
  <2> DEFINE F(n) == ReadList(layout, n.value, n.rest)
             one == [value |-> Len(v), rest |-> e \o b]
  <2>4. R(W(v) \o b) = UNION {F(n) : n \in {one}}
    BY <2>3 DEF R, Read
  <2>5. F(one) = Read(v, b)
    BY <1>3, <1>4 DEF e
  <2> HIDE DEF F, one
  <2> QED
    BY <2>4, <2>5
<1> DEFINE wl == [v \in L |-> W(v)]
           rl == [b \in Bodies |-> R(b)]
<1>8. rl \in Readers(L)
  BY <1>6 DEF Readers
<1>9. (\A v \in L : wl[v] = W(v)) /\ \A b \in Bodies : rl[b] = R(b)
  OBVIOUS
<1>10. \A v \in L, b \in Bodies : W(v) \o b \in Bodies
  BY <1>5, BodiesJoin
<1> HIDE DEF wl, rl, L
<1>11. IsCodec(L, L, wl, rl)
  <2>1. \A v \in L : wl[v] \in Bodies
    BY <1>5, <1>9
  <2>2. \A v \in L, b \in Bodies : rl[wl[v] \o b] = Read(v, b)
    BY <1>7, <1>9, <1>10
  <2>3. \A b \in Bodies : \A x \in rl[b] : x.value \in L => b = wl[x.value] \o x.rest
    BY <1>6, <1>9
  <2> QED
    BY <1>8, <2>1, <2>2, <2>3 DEF IsCodec
<1> QED
  BY <1>11 DEF wl, rl, L, W, R, Entries, V

FieldKinds == Scalars \cup DOMAIN Lists

FieldFit(kind) == IF kind \in DOMAIN Lists THEN Listed(Fits(Lists[kind])) ELSE Fit(kind)

FieldReadable(kind) == IF kind \in DOMAIN Lists THEN FieldFit(kind) ELSE Readable(kind)

LEMMA FieldCodec ==
  ASSUME NEW kind \in FieldKinds
  PROVE  IsCodec(FieldFit(kind), FieldReadable(kind), [v \in FieldFit(kind) |-> Written(kind, v)],
                 [b \in Bodies |-> ReadField(kind, b)])
<1>1. CASE kind \notin DOMAIN Lists
  <2>1. ScalarCodec(kind)
    BY <1>1, ScalarCodecs DEF FieldKinds
  <2>2. /\ FieldFit(kind) = Fit(kind) /\ FieldReadable(kind) = Readable(kind)
        /\ \A v : Written(kind, v) = WrittenScalar(kind, v)
        /\ \A b : ReadField(kind, b) = ReadScalar(kind, b)
    BY <1>1 DEF FieldFit, FieldReadable, Written, ReadField
  <2>3. /\ [v \in FieldFit(kind) |-> Written(kind, v)] = [v \in Fit(kind) |-> WrittenScalar(kind, v)]
        /\ [b \in Bodies |-> ReadField(kind, b)] = [b \in Bodies |-> ReadScalar(kind, b)]
    BY <2>2
  <2> QED
    BY <2>1, <2>2, <2>3 DEF ScalarCodec
<1>2. CASE kind \in DOMAIN Lists
  <2> DEFINE layout == Lists[kind]
  <2>1. layout \in Seq({"Word", "Byte", "Text", "Bool"})
    <3>1. kind \in {"Rooms", "Players"}
      BY <1>2 DEF Lists
    <3>2. CASE kind = "Rooms"
      <4>1. Lists[kind] = <<"Word", "Byte", "Byte", "Text">>
        BY <3>2 DEF Lists
      <4> QED
        BY <4>1
    <3>3. CASE kind = "Players"
      <4>1. Lists[kind] = <<"Text", "Bool">>
        BY <3>3 DEF Lists
      <4> QED
        BY <4>1
    <3> QED
      BY <3>1, <3>2, <3>3
  <2> HIDE DEF layout
  <2>2. \A i \in DOMAIN layout : Readable(layout[i]) = Fit(layout[i])
    <3> SUFFICES ASSUME NEW i \in DOMAIN layout PROVE Readable(layout[i]) = Fit(layout[i])
      OBVIOUS
    <3>1. layout[i] \in {"Word", "Byte", "Text", "Bool"}
      BY <2>1
    <3>2. layout[i] \notin DOMAIN Named
      BY <3>1 DEF Named
    <3> QED
      BY <3>2 DEF Readable
  <2>3. Readables(layout) = Fits(layout)
    <3>1. [i \in DOMAIN layout |-> Readable(layout[i])] = [i \in DOMAIN layout |-> Fit(layout[i])]
      BY <2>2
    <3> QED
      BY <3>1 DEF Readables, Fits
  <2>4. layout \in Seq(Scalars)
    <3>1. {"Word", "Byte", "Text", "Bool"} \subseteq Scalars
      BY DEF Scalars
    <3> QED
      BY <2>1, <3>1, SeqMonotonic
  <2>5. IsCodec(Listed(Fits(layout)), Listed(Fits(layout)),
                [v \in Listed(Fits(layout)) |->
                   <<Len(v)>> \o FlattenSeq([i \in DOMAIN v |-> WrittenRecord(layout, v[i])])],
                [b \in Bodies |-> UNION {ReadList(layout, n.value, n.rest) : n \in ReadByte(b)}])
    BY <2>3, <2>4, RecordCodec, ListCodec
  <2>6. /\ FieldFit(kind) = Listed(Fits(layout)) /\ FieldReadable(kind) = Listed(Fits(layout))
        /\ \A v : Written(kind, v)
                   = <<Len(v)>> \o FlattenSeq([i \in DOMAIN v |-> WrittenRecord(layout, v[i])])
        /\ \A b : ReadField(kind, b)
                   = UNION {ReadList(layout, n.value, n.rest) : n \in ReadByte(b)}
    BY <1>2 DEF FieldFit, FieldReadable, Written, ReadField, layout
  <2>7. /\ [v \in FieldFit(kind) |-> Written(kind, v)]
             = [v \in Listed(Fits(layout)) |->
                  <<Len(v)>> \o FlattenSeq([i \in DOMAIN v |-> WrittenRecord(layout, v[i])])]
        /\ [b \in Bodies |-> ReadField(kind, b)]
             = [b \in Bodies |-> UNION {ReadList(layout, n.value, n.rest) : n \in ReadByte(b)}]
    BY <2>6
  <2> QED
    BY <2>5, <2>6, <2>7
<1> QED
  BY <1>1, <1>2

\* The packets of a layout that their bytes have room for, and those that may be read.
PacketFits(layout) == Row(Len(layout), [i \in DOMAIN layout |-> FieldFit(layout[i])])

PacketReadables(layout) == Row(Len(layout), [i \in DOMAIN layout |-> FieldReadable(layout[i])])

LEMMA PacketCodec ==
  ASSUME NEW layout \in Seq(FieldKinds)
  PROVE  IsCodec(PacketFits(layout), PacketReadables(layout),
                 [v \in PacketFits(layout) |-> AllWritten(layout, v)],
                 [b \in Bodies |-> ReadAll(layout, b)])
<1> DEFINE n == Len(layout)
           V == [i \in DOMAIN layout |-> FieldFit(layout[i])]
           U == [i \in DOMAIN layout |-> FieldReadable(layout[i])]
           w == [i \in DOMAIN layout |-> [v \in FieldFit(layout[i]) |-> Written(layout[i], v)]]
           readers == [i \in DOMAIN layout |-> [b \in Bodies |-> ReadField(layout[i], b)]]
<1>1. n \in Nat /\ DOMAIN layout = 1..n /\ \A i \in 1..n : layout[i] \in FieldKinds
  BY LenProperties
<1>2. \A i \in 1..n : IsCodec(V[i], U[i], w[i], readers[i])
  BY <1>1, FieldCodec
<1>3. readers = [i \in 1..n |-> readers[i]]
  BY <1>1
<1>4. \A i \in 1..n : \A v \in V[i] : w[i][v] = Written(layout[i], v)
  BY <1>1
<1>5. PacketFits(layout) = Row(n, V) /\ PacketReadables(layout) = Row(n, U)
  BY DEF PacketFits, PacketReadables
<1>6. \A b : ReadAll(layout, b) = InTurn(readers, b)
  BY DEF ReadAll
<1> HIDE DEF V, U, w, readers
<1>7. IsRowCodec(n, V, U, w, readers)
  <2> HIDE DEF n
  <2> QED
    BY <1>1, <1>2, <1>3, RowCodec
<1>8. ASSUME NEW v \in Row(n, V) PROVE Joined(n, w, v) = AllWritten(layout, v)
  <2>1. \A i \in 1..n : v[i] \in V[i]
    <3> HIDE DEF n
    <3> QED
      BY <1>1, RowIs
  <2>2. [i \in 1..n |-> w[i][v[i]]] = [i \in DOMAIN layout |-> Written(layout[i], v[i])]
    BY <1>1, <1>4, <2>1
  <2> QED
    BY <2>2 DEF Joined, AllWritten
<1> HIDE DEF n
<1>9. [v \in Row(n, V) |-> Joined(n, w, v)] = [v \in Row(n, V) |-> AllWritten(layout, v)]
  BY <1>8
<1>10. [b \in Bodies |-> InTurn(readers, b)] = [b \in Bodies |-> ReadAll(layout, b)]
  BY <1>6
<1> QED
  BY <1>5, <1>7, <1>9, <1>10 DEF IsRowCodec

-----------------------------------------------------------------------------
(* The packets there are to send *)

OneLonger(rows, set) == {Append(w, v) : w \in rows, v \in set}

\* Rows's function, which the sets define.
Rowing(sets) ==
  CHOOSE f : f = [k \in 0..Len(sets) |->
    IF k = 0 THEN {<<>>} ELSE OneLonger(f[k - 1], sets[k])]

LEMMA RowsIs ==
  ASSUME NEW sets
  PROVE  Rows(sets) = Rowing(sets)[Len(sets)]
BY DEF Rows, Rowing, OneLonger

LEMMA RowsAreRows ==
  ASSUME NEW sets, Len(sets) \in Nat, NEW row \in Rows(sets)
  PROVE  row \in Row(Len(sets), sets)
<1> DEFINE n == Len(sets)
           W == UNION {sets[i] : i \in 1..n}
           V == SUBSET Seq(W)
           none == {<<>>}
           step == [k \in 1..n |-> [rows \in V |-> OneLonger(rows, sets[k])]]
           Eq(f) == f = [k \in 0..n |-> IF k = 0 THEN none ELSE OneLonger(f[k - 1], sets[k])]
           t == Rowing(sets)
           T == {k \in 0..n : t[k] \subseteq Row(k, sets) /\ t[k] \in V}
<1>1. none \in V
  BY EmptySeq
<1>2. \A k \in 1..n : sets[k] \subseteq W
  OBVIOUS
<1> HIDE DEF W
<1>3. \A k \in 1..n, rows \in V : OneLonger(rows, sets[k]) \in V
  BY <1>2, AppendProperties DEF OneLonger
<1>4. step \in [1..n -> [V -> V]]
  BY <1>3
<1> HIDE DEF V, none
<1>5. PICK f : Iterates(f, V, none, n, step)
  <2> HIDE DEF step
  <2> QED
    BY <1>1, <1>4, Recursive
<1>6. Eq(f)
  <2>1. \A k \in 1..n : k - 1 \in 0..n
    OBVIOUS
  <2>2. \A k \in 1..n : f[k] = OneLonger(f[k - 1], sets[k])
    BY <1>5, <2>1 DEF Iterates
  <2>3. \A k \in 0..n : k # 0 => k \in 1..n
    OBVIOUS
  <2> QED
    BY <1>5, <2>2, <2>3 DEF Iterates
<1>7. Eq(t)
  <2> HIDE DEF V
  <2> QED
    BY <1>6 DEF Rowing, none
<1> HIDE DEF t, n
<1>n. n \in Nat
  BY DEF n
<1>8. t[0] = none /\ \A k \in 1..n : t[k] = OneLonger(t[k - 1], sets[k])
  BY <1>7, <1>n
<1>9. 0 \in T
  <2>1. <<>> \in Seq(W) /\ Len(<<>>) = 0 /\ \A i \in 1..0 : FALSE
    BY EmptySeq
  <2>2. <<>> \in Row(0, sets)
    BY <2>1, InRow
  <2>3. t[0] \subseteq Row(0, sets) /\ t[0] \in V
    BY <1>1, <1>8, <2>2 DEF none
  <2> QED
    BY <1>n, <2>3
<1>10. ASSUME NEW k \in 0..n, k < n, k \in T PROVE k + 1 \in T
  <2>1. k \in Nat /\ k + 1 \in 1..n /\ k + 1 \in 0..n /\ (k + 1) - 1 = k
    BY <1>10, <1>n
  <2>2. t[k + 1] = OneLonger(t[k], sets[k + 1]) /\ t[k] \subseteq Row(k, sets) /\ t[k] \in V
    BY <1>8, <1>10, <2>1
  <2>3. ASSUME NEW w \in t[k], NEW v \in sets[k + 1] PROVE Append(w, v) \in Row(k + 1, sets)
    <3>1. w \in Row(k, sets)
      BY <2>2
    <3>2. w \in Seq(UNION {sets[i] : i \in 1..k}) /\ Len(w) = k
      BY <2>1, <3>1, RowIs
    <3> QED
      BY <2>1, <3>1, <3>2, RowAppend
  <2>4. t[k + 1] \in V
    BY <1>3, <2>1, <2>2
  <2>5. t[k + 1] \subseteq Row(k + 1, sets)
    <3> SUFFICES ASSUME NEW x \in t[k + 1] PROVE x \in Row(k + 1, sets)
      OBVIOUS
    <3>1. PICK w \in t[k], v \in sets[k + 1] : x = Append(w, v)
      BY <2>2 DEF OneLonger
    <3> QED
      BY <2>3, <3>1
  <2> QED
    BY <2>1, <2>4, <2>5
<1>11. 0..n \subseteq T
  <2> HIDE DEF T
  <2> QED
    BY <1>9, <1>10, <1>n, UpTo
<1>12. Rows(sets) = t[n]
  BY RowsIs DEF t, n
<1> QED
  BY <1>11, <1>12, <1>n DEF n

LEMMA ScalarValuesFit ==
  ASSUME NEW kind \in Scalars, NEW v \in ScalarValues(kind),
         kind = "Text" => Len(v) \in Byte, kind = "LongText" => Len(v) \in Wide
  PROVE  v \in Fit(kind)
<1>1. /\ Bytes \subseteq Byte /\ Words \subseteq Wide
      /\ Texts \subseteq Bodies /\ Messages \subseteq Bodies
  BY CodecConstants DEF Byte, Wide, Bodies
<1>2. CASE kind = "Byte"
  BY <1>1, <1>2 DEF Fit, ScalarValues
<1>3. CASE kind = "Bool"
  BY <1>3 DEF Fit, ScalarValues
<1>4. CASE kind = "Word"
  BY <1>1, <1>4 DEF Fit, ScalarValues
<1>5. CASE kind = "Text"
  BY <1>1, <1>5 DEF Fit, ScalarValues
<1>6. CASE kind = "LongText"
  BY <1>1, <1>6 DEF Fit, ScalarValues
<1>7. CASE kind \in DOMAIN Named
  <2>1. kind \notin {"Byte", "Bool", "Word", "Text", "LongText", "Rest"}
    BY <1>7, NamesDiffer
  <2> QED
    BY <2>1 DEF Fit, ScalarValues
<1> QED
  BY <1>2, <1>3, <1>4, <1>5, <1>6, <1>7 DEF Scalars

\* A list has two entries at most.
LEMMA ListValues ==
  ASSUME NEW kind \in DOMAIN Lists, NEW v \in Values(kind)
  PROVE  /\ DOMAIN v = 1..Len(v) /\ Len(v) \in Byte
         /\ \A i \in DOMAIN v, j \in DOMAIN Lists[kind] :
              v[i][j] \in ScalarValues(Lists[kind][j])
         /\ (\A i \in DOMAIN v, j \in DOMAIN Lists[kind] :
                Lists[kind][j] = "Text" => Len(v[i][j]) \in Byte)
            => v \in FieldFit(kind)
<1> DEFINE layout == Lists[kind]
           n == Len(layout)
           S == [i \in DOMAIN layout |-> ScalarValues(layout[i])]
           F == [i \in DOMAIN layout |-> Fit(layout[i])]
           R == Rows(S)
<1>1. /\ n \in Nat /\ DOMAIN layout = 1..n
      /\ \A j \in 1..n : layout[j] \in Scalars \ {"LongText"}
  <2>1. kind \in {"Rooms", "Players"}
    BY DEF Lists
  <2>2. CASE kind = "Rooms"
    <3>1. layout = <<"Word", "Byte", "Byte", "Text">>
      BY <2>2 DEF Lists
    <3> QED
      BY <3>1 DEF Scalars
  <2>3. CASE kind = "Players"
    <3>1. layout = <<"Text", "Bool">>
      BY <2>3 DEF Lists
    <3> QED
      BY <3>1 DEF Scalars
  <2> QED
    BY <2>1, <2>2, <2>3
<1>2. v \in BoundedSeq(R, 2)
  BY DEF Values
<1>3. PICK m \in 0..2 : v \in [1..m -> R]
  BY <1>2 DEF BoundedSeq, SeqOf
<1>4. v \in Seq(R) /\ Len(v) = m /\ DOMAIN v = 1..m /\ Len(v) \in Byte
  <2>1. m \in Nat
    OBVIOUS
  <2> HIDE DEF R
  <2>2. v \in Seq(R) /\ Len(v) = m /\ DOMAIN v = 1..m
    BY <1>3, <2>1, AsSeq
  <2> QED
    BY <2>2, BaseIs DEF Byte
<1>5. Len(S) = n /\ \A j \in 1..n : S[j] = ScalarValues(layout[j])
  <2> HIDE DEF layout
  <2> QED
    BY <1>1
<1>6. ASSUME NEW i \in DOMAIN v
      PROVE  /\ v[i] \in Row(n, S) /\ \A j \in 1..n : v[i][j] \in ScalarValues(layout[j])
  <2>1. v[i] \in R
    BY <1>3
  <2> HIDE DEF S, n, layout
  <2>2. v[i] \in Row(n, S)
    BY <1>1, <1>5, <2>1, RowsAreRows
  <2>3. \A j \in 1..n : v[i][j] \in S[j]
    BY <1>1, <2>2, RowIs
  <2> QED
    BY <1>5, <2>2, <2>3
<1>7. ASSUME \A i \in DOMAIN v, j \in DOMAIN layout : layout[j] = "Text" => Len(v[i][j]) \in Byte
      PROVE  v \in FieldFit(kind)
  <2>1. ASSUME NEW i \in DOMAIN v PROVE v[i] \in Fits(layout)
    <3>1. \A j \in 1..n : F[j] = Fit(layout[j])
      BY <1>1
    <3>2. ASSUME NEW j \in 1..n PROVE v[i][j] \in F[j]
      <4>1. /\ layout[j] \in Scalars /\ layout[j] # "LongText" /\ v[i][j] \in ScalarValues(layout[j])
            /\ layout[j] = "Text" => Len(v[i][j]) \in Byte
        BY <1>1, <1>6, <1>7
      <4> HIDE DEF F, layout
      <4> QED
        BY <3>1, <4>1, ScalarValuesFit
    <3>3. v[i] \in Seq(UNION {S[j] : j \in 1..n}) /\ Len(v[i]) = n
      <4> HIDE DEF S, n
      <4> QED
        BY <1>1, <1>6, RowIs
    <3>4. v[i] \in Row(n, F)
      <4> HIDE DEF S, n, F
      <4> QED
        BY <1>1, <3>2, <3>3, InRow
    <3> QED
      BY <3>4 DEF Fits
  <2>2. v \in Seq(Fits(layout))
    <3>1. v \in [1..m -> Fits(layout)] /\ m \in Nat
      BY <1>3, <1>4, <2>1
    <3> HIDE DEF layout
    <3> QED
      BY <3>1, AsSeq
  <2> QED
    BY <1>4, <2>2 DEF FieldFit, Listed
<1> QED
  BY <1>1, <1>4, <1>6, <1>7

LEMMA FieldValues ==
  ASSUME NEW layout, NEW n \in Nat, DOMAIN layout = 1..n, NEW p \in Fields(layout)
  PROVE  p \in Seq(UNION {Values(layout[i]) : i \in 1..n}) /\ Len(p) = n
         /\ DOMAIN p = 1..n /\ \A i \in 1..n : p[i] \in Values(layout[i])
<1> DEFINE S == [i \in DOMAIN layout |-> Values(layout[i])]
<1>1. S \in [1..n -> {Values(layout[i]) : i \in 1..n}] /\ \A i \in 1..n : S[i] = Values(layout[i])
  OBVIOUS
<1>2. p \in Rows(S)
  BY DEF Fields
<1> HIDE DEF S
<1>3. Len(S) = n
  BY <1>1, AsSeq
<1>4. p \in Row(n, S)
  BY <1>2, <1>3, RowsAreRows
<1>5. {S[i] : i \in 1..n} = {Values(layout[i]) : i \in 1..n}
  BY <1>1
<1>6. /\ p \in Seq(UNION {S[i] : i \in 1..n}) /\ Len(p) = n /\ DOMAIN p = 1..n
      /\ \A i \in 1..n : p[i] \in S[i]
  BY <1>4, RowIs
<1> QED
  BY <1>1, <1>5, <1>6

-----------------------------------------------------------------------------
(* The packets that are encoded *)

LEMMA Layouts ==
  /\ Layout["LOGIN_REQ"] = <<"Rest">>
  /\ Layout["LOGIN_RES"] = <<"Byte">>
  /\ Layout["CHAT_REQ"] = <<"Rest">>
  /\ Layout["CHAT_RES"] = <<"Byte">>
  /\ Layout["CHAT_NTF"] = <<"Text", "LongText">>
  /\ Layout["ROOM_CREATE_REQ"] = <<"Text">>
  /\ Layout["ROOM_ACTION_RES"] = <<"Byte", "Word">>
  /\ Layout["ROOM_LIST_REQ"] = <<"Word">>
  /\ Layout["ROOM_LIST_RES"] = <<"Byte", "Bool", "Rooms">>
  /\ Layout["ROOM_ENTER_REQ"] = <<"Word">>
  /\ Layout["ROOM_LEAVE_REQ"] = <<>>
  /\ Layout["ROOM_MEMBER_NTF"] = <<"Word", "Change", "Text">>
  /\ Layout["ROOM_READY_REQ"] = <<"Bool">>
  /\ Layout["ROOM_START_REQ"] = <<>>
  /\ Layout["ROOM_STATE_NTF"] = <<"Word", "Word", "Phase", "Byte", "Text", "Players">>
  /\ Layout["GAME_MOVE_REQ"] = <<"Word", "Word", "Byte", "Byte">>
  /\ Layout["GAME_MOVE_RES"] = <<"Byte", "Word">>
  /\ Layout["GAME_MOVE_NTF"] = <<"Word", "Word", "Byte", "Byte", "Stone", "Stone", "State", "Word">>
  /\ Layout["GAME_RESIGN_REQ"] = <<"Word", "Word">>
  /\ Layout["GAME_END_NTF"] = <<"Word", "Word", "State", "Reason", "Word">>
BY DEF Layout

LEMMA TypesAre ==
  Types = {"LOGIN_REQ", "LOGIN_RES", "CHAT_REQ", "CHAT_RES", "CHAT_NTF", "ROOM_CREATE_REQ",
           "ROOM_ACTION_RES", "ROOM_LIST_REQ", "ROOM_LIST_RES", "ROOM_ENTER_REQ",
           "ROOM_LEAVE_REQ", "ROOM_MEMBER_NTF", "ROOM_READY_REQ", "ROOM_START_REQ",
           "ROOM_STATE_NTF", "GAME_MOVE_REQ", "GAME_MOVE_RES", "GAME_MOVE_NTF",
           "GAME_RESIGN_REQ", "GAME_END_NTF"}
BY DEF Types, Layout

LEMMA LayoutKinds ==
  ASSUME NEW type \in Types, Layout[type] # <<"Rest">>
  PROVE  Layout[type] \in Seq(FieldKinds)
<1>1. CASE type = "LOGIN_REQ"
  BY <1>1, Layouts
<1>2. CASE type = "LOGIN_RES"
  <2>1. Layout[type] = <<"Byte">>
    BY <1>2, Layouts
  <2> QED
    BY <2>1 DEF FieldKinds, Scalars, Lists, Named
<1>3. CASE type = "CHAT_REQ"
  BY <1>3, Layouts
<1>4. CASE type = "CHAT_RES"
  <2>1. Layout[type] = <<"Byte">>
    BY <1>4, Layouts
  <2> QED
    BY <2>1 DEF FieldKinds, Scalars, Lists, Named
<1>5. CASE type = "CHAT_NTF"
  <2>1. Layout[type] = <<"Text", "LongText">>
    BY <1>5, Layouts
  <2> QED
    BY <2>1 DEF FieldKinds, Scalars, Lists, Named
<1>6. CASE type = "ROOM_CREATE_REQ"
  <2>1. Layout[type] = <<"Text">>
    BY <1>6, Layouts
  <2> QED
    BY <2>1 DEF FieldKinds, Scalars, Lists, Named
<1>7. CASE type = "ROOM_ACTION_RES"
  <2>1. Layout[type] = <<"Byte", "Word">>
    BY <1>7, Layouts
  <2> QED
    BY <2>1 DEF FieldKinds, Scalars, Lists, Named
<1>8. CASE type = "ROOM_LIST_REQ"
  <2>1. Layout[type] = <<"Word">>
    BY <1>8, Layouts
  <2> QED
    BY <2>1 DEF FieldKinds, Scalars, Lists, Named
<1>9. CASE type = "ROOM_LIST_RES"
  <2>1. Layout[type] = <<"Byte", "Bool", "Rooms">>
    BY <1>9, Layouts
  <2> QED
    BY <2>1 DEF FieldKinds, Scalars, Lists, Named
<1>10. CASE type = "ROOM_ENTER_REQ"
  <2>1. Layout[type] = <<"Word">>
    BY <1>10, Layouts
  <2> QED
    BY <2>1 DEF FieldKinds, Scalars, Lists, Named
<1>11. CASE type = "ROOM_LEAVE_REQ"
  <2>1. Layout[type] = <<>>
    BY <1>11, Layouts
  <2> QED
    BY <2>1 DEF FieldKinds, Scalars, Lists, Named
<1>12. CASE type = "ROOM_MEMBER_NTF"
  <2>1. Layout[type] = <<"Word", "Change", "Text">>
    BY <1>12, Layouts
  <2> QED
    BY <2>1 DEF FieldKinds, Scalars, Lists, Named
<1>13. CASE type = "ROOM_READY_REQ"
  <2>1. Layout[type] = <<"Bool">>
    BY <1>13, Layouts
  <2> QED
    BY <2>1 DEF FieldKinds, Scalars, Lists, Named
<1>14. CASE type = "ROOM_START_REQ"
  <2>1. Layout[type] = <<>>
    BY <1>14, Layouts
  <2> QED
    BY <2>1 DEF FieldKinds, Scalars, Lists, Named
<1>15. CASE type = "ROOM_STATE_NTF"
  <2>1. Layout[type] = <<"Word", "Word", "Phase", "Byte", "Text", "Players">>
    BY <1>15, Layouts
  <2> QED
    BY <2>1 DEF FieldKinds, Scalars, Lists, Named
<1>16. CASE type = "GAME_MOVE_REQ"
  <2>1. Layout[type] = <<"Word", "Word", "Byte", "Byte">>
    BY <1>16, Layouts
  <2> QED
    BY <2>1 DEF FieldKinds, Scalars, Lists, Named
<1>17. CASE type = "GAME_MOVE_RES"
  <2>1. Layout[type] = <<"Byte", "Word">>
    BY <1>17, Layouts
  <2> QED
    BY <2>1 DEF FieldKinds, Scalars, Lists, Named
<1>18. CASE type = "GAME_MOVE_NTF"
  <2>1. Layout[type] = <<"Word", "Word", "Byte", "Byte", "Stone", "Stone", "State", "Word">>
    BY <1>18, Layouts
  <2> QED
    BY <2>1 DEF FieldKinds, Scalars, Lists, Named
<1>19. CASE type = "GAME_RESIGN_REQ"
  <2>1. Layout[type] = <<"Word", "Word">>
    BY <1>19, Layouts
  <2> QED
    BY <2>1 DEF FieldKinds, Scalars, Lists, Named
<1>20. CASE type = "GAME_END_NTF"
  <2>1. Layout[type] = <<"Word", "Word", "State", "Reason", "Word">>
    BY <1>20, Layouts
  <2> QED
    BY <2>1 DEF FieldKinds, Scalars, Lists, Named
<1> QED
  BY <1>1, <1>2, <1>3, <1>4, <1>5, <1>6, <1>7, <1>8, <1>9, <1>10, <1>11, <1>12, <1>13, <1>14, <1>15, <1>16, <1>17, <1>18, <1>19, <1>20, TypesAre

\* The texts of a field that have their length before them are no longer than it can say.
LengthsFit(kind, v) ==
  /\ kind = "Text" => Len(v) \in Byte
  /\ kind = "LongText" => Len(v) \in Wide
  /\ kind \in DOMAIN Lists =>
       \A i \in DOMAIN v, j \in DOMAIN Lists[kind] : Lists[kind][j] = "Text" => Len(v[i][j]) \in Byte

LEMMA FitsIf ==
  ASSUME NEW layout \in Seq(FieldKinds), NEW p \in Fields(layout),
         \A i \in DOMAIN layout : LengthsFit(layout[i], p[i])
  PROVE  p \in PacketFits(layout)
<1> DEFINE n == Len(layout)
           F == [i \in DOMAIN layout |-> FieldFit(layout[i])]
<1>1. n \in Nat /\ DOMAIN layout = 1..n /\ \A i \in 1..n : layout[i] \in FieldKinds
  BY LenProperties
<1>2. \A i \in 1..n : F[i] = FieldFit(layout[i])
  BY <1>1
<1>3. PacketFits(layout) = Row(n, F)
  BY DEF PacketFits
<1> HIDE DEF n, F
<1>4. /\ p \in Seq(UNION {Values(layout[i]) : i \in 1..n}) /\ Len(p) = n
      /\ \A i \in 1..n : p[i] \in Values(layout[i])
  BY <1>1, FieldValues
<1>5. ASSUME NEW i \in 1..n PROVE p[i] \in F[i]
  <2> DEFINE kind == layout[i]
             v == p[i]
  <2>1. kind \in FieldKinds /\ v \in Values(kind) /\ LengthsFit(kind, v)
    BY <1>1, <1>4
  <2> HIDE DEF kind, v
  <2>2. v \in FieldFit(kind)
    <3>1. CASE kind \in DOMAIN Lists
      BY <2>1, <3>1, ListValues DEF LengthsFit
    <3>2. CASE kind \notin DOMAIN Lists
      <4>1. kind \in Scalars /\ v \in ScalarValues(kind)
        BY <2>1, <3>2 DEF FieldKinds, Values
      <4>2. v \in Fit(kind)
        BY <2>1, <4>1, ScalarValuesFit DEF LengthsFit
      <4> QED
        BY <3>2, <4>2 DEF FieldFit
    <3> QED
      BY <3>1, <3>2
  <2> QED
    BY <1>2, <2>2 DEF kind, v
<1> QED
  BY <1>1, <1>3, <1>4, <1>5, InRow

\* Nicknames and titles have a byte for their length, messages a word.
LEMMA LimitsFit ==
  ASSUME NEW n \in Nat
  PROVE  /\ n \in 1..MaxNickname \/ n \in 1..MaxTitle => n \in Byte
         /\ n \in 1..MaxMessage => n \in Wide
<1>1. /\ Base \in Nat /\ MaxNickname \in 1..(Base - 1) /\ MaxTitle \in 1..(Base - 1)
      /\ MaxMessage \in 1..(Base * Base - 1)
  BY CodecConstants
<1>2. n \in 1..MaxNickname \/ n \in 1..MaxTitle => n \in Byte
  BY <1>1 DEF Byte
<1>3. n \in 1..MaxMessage => n \in Wide
  <2>1. Base * Base \in Nat
    BY <1>1
  <2> DEFINE top == Base * Base
  <2>2. top \in Nat /\ MaxMessage \in 1..(top - 1)
    BY <1>1, <2>1
  <2> HIDE DEF top
  <2>3. n \in 1..MaxMessage => n \in 0..(top - 1)
    BY <2>2
  <2> QED
    BY <2>3 DEF Wide, top
<1> QED
  BY <1>2, <1>3

\* What is encoded has room.
LEMMA EncodedFits ==
  ASSUME NEW type \in Types, Layout[type] # <<"Rest">>, NEW p \in Fields(Layout[type]),
         Encode(type, p) # {}
  PROVE  p \in PacketFits(Layout[type])
<1> DEFINE layout == Layout[type]
<1>1. layout \in Seq(FieldKinds)
  BY LayoutKinds
<1>2. (type \in CheckedByEncode => IsValid(type, p)) /\ (type = "ROOM_CREATE_REQ" => ~(Len(p[1]) >= Base))
  BY DEF Encode
<1> SUFFICES \A i \in DOMAIN layout : LengthsFit(layout[i], p[i])
  BY <1>1, FitsIf
<1>3. CASE \A i \in DOMAIN layout : layout[i] \notin {"Text", "LongText"} \cup DOMAIN Lists
  BY <1>3 DEF LengthsFit
<1>4. CASE type = "CHAT_NTF"
  <2>1. layout = <<"Text", "LongText">>
    BY <1>4, Layouts
  <2>2. Len(p[1]) \in 1..MaxNickname /\ Len(p[2]) \in 1..MaxMessage
    BY <1>2, <1>4 DEF CheckedByEncode, IsValid, IsNickname
  <2>3. Len(p[1]) \in Byte /\ Len(p[2]) \in Wide
    BY <2>2, LimitsFit
  <2>4. LengthsFit("Text", p[1]) /\ LengthsFit("LongText", p[2])
    BY <2>3 DEF LengthsFit, Lists
  <2> QED
    BY <2>1, <2>4
<1>5. CASE type = "ROOM_CREATE_REQ"
  <2>1. layout = <<"Text">>
    BY <1>5, Layouts
  <2>2. p[1] \in Values("Text")
    <3>1. 1 \in Nat /\ DOMAIN layout = 1..1 /\ layout[1] = "Text"
      BY <2>1
    <3> HIDE DEF layout
    <3>2. p \in Fields(layout)
      BY DEF layout
    <3>3. \A i \in 1..1 : p[i] \in Values(layout[i])
      BY <3>1, <3>2, FieldValues
    <3>4. 1 \in 1..1
      OBVIOUS
    <3> QED
      BY <3>1, <3>3, <3>4
  <2>3. p[1] \in Seq(Byte)
    BY <2>2, CodecConstants DEF Values, ScalarValues, Lists, Byte
  <2>4. Len(p[1]) \in Byte
    BY <1>2, <1>5, <2>3, BaseIs, LenProperties DEF Byte
  <2>5. LengthsFit("Text", p[1])
    BY <2>4 DEF LengthsFit, Lists
  <2> QED
    BY <2>1, <2>5
<1>6. CASE type = "ROOM_LIST_RES"
  <2>1. layout = <<"Byte", "Bool", "Rooms">>
    BY <1>6, Layouts
  <2>2. \A i \in DOMAIN p[3] : Len(p[3][i][4]) \in 1..MaxTitle
    BY <1>2, <1>6 DEF CheckedByEncode, IsValid
  <2>3. \A i \in DOMAIN p[3] : Len(p[3][i][4]) \in Byte
    BY <2>2, LimitsFit
  <2>4. Lists["Rooms"] = <<"Word", "Byte", "Byte", "Text">>
    BY DEF Lists
  <2>5. LengthsFit("Byte", p[1]) /\ LengthsFit("Bool", p[2]) /\ LengthsFit("Rooms", p[3])
    BY <2>3, <2>4 DEF LengthsFit, Lists
  <2> QED
    BY <2>1, <2>5
<1>7. CASE type = "ROOM_MEMBER_NTF"
  <2>1. layout = <<"Word", "Change", "Text">>
    BY <1>7, Layouts
  <2>2. Len(p[3]) \in 1..MaxNickname
    BY <1>2, <1>7 DEF CheckedByEncode, IsValid, IsNickname
  <2>3. Len(p[3]) \in Byte
    BY <2>2, LimitsFit
  <2>4. LengthsFit("Word", p[1]) /\ LengthsFit("Change", p[2]) /\ LengthsFit("Text", p[3])
    BY <2>3 DEF LengthsFit, Lists
  <2> QED
    BY <2>1, <2>4
<1>8. CASE type = "ROOM_STATE_NTF"
  <2>1. layout = <<"Word", "Word", "Phase", "Byte", "Text", "Players">>
    BY <1>8, Layouts
  <2>2. /\ IsValidRoomState(RoomStateOf(p)) /\ \A i \in DOMAIN p[6] : IsNickname(p[6][i][1])
    BY <1>2, <1>8 DEF CheckedByEncode, IsValid
  <2>3. \E i \in DOMAIN p[6] : p[5] = p[6][i][1]
    BY <2>2 DEF IsValidRoomState, RoomStateOf
  <2>4. Len(p[5]) \in Byte /\ \A i \in DOMAIN p[6] : Len(p[6][i][1]) \in Byte
    BY <2>2, <2>3, LimitsFit DEF IsNickname
  <2>5. Lists["Players"] = <<"Text", "Bool">>
    BY DEF Lists
  <2>6. /\ LengthsFit("Word", p[1]) /\ LengthsFit("Word", p[2]) /\ LengthsFit("Phase", p[3])
        /\ LengthsFit("Byte", p[4]) /\ LengthsFit("Text", p[5]) /\ LengthsFit("Players", p[6])
    BY <2>4, <2>5 DEF LengthsFit, Lists
  <2> QED
    BY <2>1, <2>6
<1>9. CASE type \notin {"CHAT_NTF", "ROOM_CREATE_REQ", "ROOM_LIST_RES", "ROOM_MEMBER_NTF", "ROOM_STATE_NTF"}
  <2> SUFFICES \A i \in DOMAIN layout : layout[i] \notin {"Text", "LongText", "Rooms", "Players"}
    BY <1>3 DEF Lists
  <2>1. CASE type = "LOGIN_RES"
    <3>1. layout = <<"Byte">>
      BY <2>1, Layouts
    <3> QED
      BY <3>1
  <2>2. CASE type = "CHAT_RES"
    <3>1. layout = <<"Byte">>
      BY <2>2, Layouts
    <3> QED
      BY <3>1
  <2>3. CASE type = "ROOM_ACTION_RES"
    <3>1. layout = <<"Byte", "Word">>
      BY <2>3, Layouts
    <3> QED
      BY <3>1
  <2>4. CASE type = "ROOM_LIST_REQ"
    <3>1. layout = <<"Word">>
      BY <2>4, Layouts
    <3> QED
      BY <3>1
  <2>5. CASE type = "ROOM_ENTER_REQ"
    <3>1. layout = <<"Word">>
      BY <2>5, Layouts
    <3> QED
      BY <3>1
  <2>6. CASE type = "ROOM_LEAVE_REQ"
    <3>1. layout = <<>>
      BY <2>6, Layouts
    <3> QED
      BY <3>1
  <2>7. CASE type = "ROOM_READY_REQ"
    <3>1. layout = <<"Bool">>
      BY <2>7, Layouts
    <3> QED
      BY <3>1
  <2>8. CASE type = "ROOM_START_REQ"
    <3>1. layout = <<>>
      BY <2>8, Layouts
    <3> QED
      BY <3>1
  <2>9. CASE type = "GAME_MOVE_REQ"
    <3>1. layout = <<"Word", "Word", "Byte", "Byte">>
      BY <2>9, Layouts
    <3> QED
      BY <3>1
  <2>10. CASE type = "GAME_MOVE_RES"
    <3>1. layout = <<"Byte", "Word">>
      BY <2>10, Layouts
    <3> QED
      BY <3>1
  <2>11. CASE type = "GAME_MOVE_NTF"
    <3>1. layout = <<"Word", "Word", "Byte", "Byte", "Stone", "Stone", "State", "Word">>
      BY <2>11, Layouts
    <3> QED
      BY <3>1
  <2>12. CASE type = "GAME_RESIGN_REQ"
    <3>1. layout = <<"Word", "Word">>
      BY <2>12, Layouts
    <3> QED
      BY <3>1
  <2>13. CASE type = "GAME_END_NTF"
    <3>1. layout = <<"Word", "Word", "State", "Reason", "Word">>
      BY <2>13, Layouts
    <3> QED
      BY <3>1
  <2>14. type \notin {"LOGIN_REQ", "CHAT_REQ"}
    BY Layouts
  <2> QED
    BY <1>9, <2>1, <2>2, <2>3, <2>4, <2>5, <2>6, <2>7, <2>8, <2>9, <2>10, <2>11, <2>12, <2>13, <2>14, TypesAre
<1> QED
  BY <1>4, <1>5, <1>6, <1>7, <1>8, <1>9

-----------------------------------------------------------------------------
(* The packets that are decoded *)

LEMMA KnownFits ==
  ASSUME NEW layout \in Seq(FieldKinds), NEW p \in PacketReadables(layout),
         \A i \in DOMAIN layout : layout[i] \in DOMAIN Named => p[i] # "Unknown"
  PROVE  p \in PacketFits(layout)
<1> DEFINE n == Len(layout)
           F == [i \in DOMAIN layout |-> FieldFit(layout[i])]
           R == [i \in DOMAIN layout |-> FieldReadable(layout[i])]
<1>1. n \in Nat /\ DOMAIN layout = 1..n
  BY LenProperties
<1>2. \A i \in 1..n : F[i] = FieldFit(layout[i]) /\ R[i] = FieldReadable(layout[i])
  BY <1>1
<1>3. PacketFits(layout) = Row(n, F) /\ PacketReadables(layout) = Row(n, R)
  BY DEF PacketFits, PacketReadables
<1> HIDE DEF n, F, R
<1>4. p \in Seq(UNION {R[i] : i \in 1..n}) /\ Len(p) = n /\ \A i \in 1..n : p[i] \in R[i]
  BY <1>1, <1>3, RowIs
<1>5. ASSUME NEW i \in 1..n PROVE p[i] \in F[i]
  <2> DEFINE kind == layout[i]
             v == p[i]
  <2>1. v \in FieldReadable(kind) /\ (kind \in DOMAIN Named => v # "Unknown")
    BY <1>1, <1>2, <1>4
  <2> HIDE DEF kind, v
  <2>2. v \in FieldFit(kind)
    BY <2>1 DEF FieldReadable, FieldFit, Readable
  <2> QED
    BY <1>2, <2>2 DEF kind, v
<1> QED
  BY <1>1, <1>3, <1>4, <1>5, InRow

\* A valid packet has no name that stands for an unknown value.
LEMMA ValidIsKnown ==
  ASSUME NEW type \in Types, Layout[type] # <<"Rest">>, NEW p \in PacketReadables(Layout[type]),
         IsValid(type, p)
  PROVE  p \in PacketFits(Layout[type])
<1> DEFINE layout == Layout[type]
<1>1. layout \in Seq(FieldKinds)
  BY LayoutKinds
<1> SUFFICES \A i \in DOMAIN layout : layout[i] \in DOMAIN Named => p[i] # "Unknown"
  BY <1>1, KnownFits
<1>2. DOMAIN Named = {"Stone", "State", "Phase", "Change", "Reason"}
  BY DEF Named
<1>3. CASE type = "ROOM_MEMBER_NTF"
  <2>1. layout = <<"Word", "Change", "Text">>
    BY <1>3, Layouts
  <2>2. p[2] # "Unknown"
    BY <1>3 DEF IsValid
  <2> QED
    BY <1>2, <2>1, <2>2
<1>4. CASE type = "ROOM_STATE_NTF"
  <2>1. layout = <<"Word", "Word", "Phase", "Byte", "Text", "Players">>
    BY <1>4, Layouts
  <2>2. p[3] # "Unknown"
    BY <1>4 DEF IsValid
  <2> QED
    BY <1>2, <2>1, <2>2
<1>5. CASE type = "GAME_MOVE_NTF"
  <2>1. layout = <<"Word", "Word", "Byte", "Byte", "Stone", "Stone", "State", "Word">>
    BY <1>5, Layouts
  <2>2. IsValidGameMove(GameMoveOf(p))
    BY <1>5 DEF IsValid
  <2>3. p[5] # "Unknown" /\ p[6] # "Unknown" /\ p[7] # "Unknown"
    BY <2>2 DEF IsValidGameMove, GameMoveOf, Players, Opponent, WonBy
  <2> QED
    BY <1>2, <2>1, <2>3
<1>6. CASE type = "GAME_END_NTF"
  <2>1. layout = <<"Word", "Word", "State", "Reason", "Word">>
    BY <1>6, Layouts
  <2>2. p[4] # "Unknown" /\ IsValidGameEnd(GameEndOf(p))
    BY <1>6 DEF IsValid
  <2>3. p[3] # "Unknown"
    BY <2>2 DEF IsValidGameEnd, GameEndOf
  <2> QED
    BY <1>2, <2>1, <2>2, <2>3
<1>7. CASE type \notin {"ROOM_MEMBER_NTF", "ROOM_STATE_NTF", "GAME_MOVE_NTF", "GAME_END_NTF"}
  <2>1. CASE type = "LOGIN_RES"
    <3>1. layout = <<"Byte">>
      BY <2>1, Layouts
    <3> QED
      BY <1>2, <3>1
  <2>2. CASE type = "CHAT_RES"
    <3>1. layout = <<"Byte">>
      BY <2>2, Layouts
    <3> QED
      BY <1>2, <3>1
  <2>3. CASE type = "CHAT_NTF"
    <3>1. layout = <<"Text", "LongText">>
      BY <2>3, Layouts
    <3> QED
      BY <1>2, <3>1
  <2>4. CASE type = "ROOM_CREATE_REQ"
    <3>1. layout = <<"Text">>
      BY <2>4, Layouts
    <3> QED
      BY <1>2, <3>1
  <2>5. CASE type = "ROOM_ACTION_RES"
    <3>1. layout = <<"Byte", "Word">>
      BY <2>5, Layouts
    <3> QED
      BY <1>2, <3>1
  <2>6. CASE type = "ROOM_LIST_REQ"
    <3>1. layout = <<"Word">>
      BY <2>6, Layouts
    <3> QED
      BY <1>2, <3>1
  <2>7. CASE type = "ROOM_LIST_RES"
    <3>1. layout = <<"Byte", "Bool", "Rooms">>
      BY <2>7, Layouts
    <3> QED
      BY <1>2, <3>1
  <2>8. CASE type = "ROOM_ENTER_REQ"
    <3>1. layout = <<"Word">>
      BY <2>8, Layouts
    <3> QED
      BY <1>2, <3>1
  <2>9. CASE type = "ROOM_LEAVE_REQ"
    <3>1. layout = <<>>
      BY <2>9, Layouts
    <3> QED
      BY <1>2, <3>1
  <2>10. CASE type = "ROOM_READY_REQ"
    <3>1. layout = <<"Bool">>
      BY <2>10, Layouts
    <3> QED
      BY <1>2, <3>1
  <2>11. CASE type = "ROOM_START_REQ"
    <3>1. layout = <<>>
      BY <2>11, Layouts
    <3> QED
      BY <1>2, <3>1
  <2>12. CASE type = "GAME_MOVE_REQ"
    <3>1. layout = <<"Word", "Word", "Byte", "Byte">>
      BY <2>12, Layouts
    <3> QED
      BY <1>2, <3>1
  <2>13. CASE type = "GAME_MOVE_RES"
    <3>1. layout = <<"Byte", "Word">>
      BY <2>13, Layouts
    <3> QED
      BY <1>2, <3>1
  <2>14. CASE type = "GAME_RESIGN_REQ"
    <3>1. layout = <<"Word", "Word">>
      BY <2>14, Layouts
    <3> QED
      BY <1>2, <3>1
  <2>15. type \notin {"LOGIN_REQ", "CHAT_REQ"}
    BY Layouts
  <2> QED
    BY <1>7, <2>1, <2>2, <2>3, <2>4, <2>5, <2>6, <2>7, <2>8, <2>9, <2>10, <2>11, <2>12, <2>13, <2>14, <2>15, TypesAre
<1> QED
  BY <1>3, <1>4, <1>5, <1>6, <1>7

LEMMA WrittenIsRead ==
  ASSUME NEW type \in Types, Layout[type] # <<"Rest">>, NEW p \in PacketFits(Layout[type])
  PROVE  /\ AllWritten(Layout[type], p) \in Bodies
         /\ \A b \in Bodies : ReadAll(Layout[type], AllWritten(Layout[type], p) \o b) = Read(p, b)
<1> DEFINE layout == Layout[type]
           V == PacketFits(layout)
           w == [v \in V |-> AllWritten(layout, v)]
           r == [b \in Bodies |-> ReadAll(layout, b)]
<1>1. IsCodec(V, PacketReadables(layout), w, r)
  BY LayoutKinds, PacketCodec
<1>2. (\A v \in V : w[v] = AllWritten(layout, v)) /\ \A b \in Bodies : r[b] = ReadAll(layout, b)
  OBVIOUS
<1> HIDE DEF w, r, V, layout
<1>3. p \in V
  BY DEF V, layout
<1>4. w[p] \in Bodies /\ \A b \in Bodies : r[w[p] \o b] = Read(p, b)
  BY <1>1, <1>3 DEF IsCodec
<1>5. \A b \in Bodies : w[p] \o b \in Bodies
  BY <1>4, BodiesJoin
<1> QED
  BY <1>2, <1>3, <1>4, <1>5 DEF layout

\* What a body is taken for is what was written in it.
LEMMA DecodedWasWritten ==
  ASSUME NEW type \in Types, Layout[type] # <<"Rest">>, NEW b \in Bodies, NEW p \in Decode(type, b)
  PROVE  p \in PacketFits(Layout[type]) /\ IsValid(type, p) /\ AllWritten(Layout[type], p) = b
<1> DEFINE layout == Layout[type]
           V == PacketFits(layout)
           w == [v \in V |-> AllWritten(layout, v)]
           r == [c \in Bodies |-> ReadAll(layout, c)]
<1>1. IsCodec(V, PacketReadables(layout), w, r)
  BY LayoutKinds, PacketCodec
<1>2. (\A v \in V : w[v] = AllWritten(layout, v)) /\ \A c \in Bodies : r[c] = ReadAll(layout, c)
  OBVIOUS
<1> HIDE DEF w, r
<1>3. PICK x \in ReadAll(layout, b) : x.rest = <<>> /\ x.value = p /\ IsValid(type, p)
  BY DEF Decode
<1>4. x \in Reads(PacketReadables(layout))
  BY <1>1, <1>2, <1>3 DEF IsCodec, Readers
<1>5. p \in PacketReadables(layout)
  BY <1>3, <1>4 DEF Reads
<1>6. p \in V
  BY <1>3, <1>5, ValidIsKnown
<1>7. b = w[p] \o <<>> /\ w[p] \in Bodies
  BY <1>1, <1>2, <1>3, <1>6 DEF IsCodec
<1>8. b = AllWritten(layout, p)
  <2> HIDE DEF V, layout
  <2>1. w[p] = AllWritten(layout, p)
    BY <1>2, <1>6
  <2> QED
    BY <1>7, <2>1, BodiesJoin
<1> QED
  BY <1>3, <1>6, <1>8

\* A body that is all text is taken for its text.
LEMMA AllText ==
  ASSUME NEW b \in Bodies
  PROVE  ReadAll(<<"Rest">>, b) = Read(<<b>>, <<>>) /\ AllWritten(<<"Rest">>, <<b>>) = b
<1>1. /\ ReadField("Rest", b) = Read(b, <<>>) /\ Written("Rest", b) = b
      /\ \A c : ReadField("Rest", c) = Read(c, <<>>)
  BY DEF ReadField, ReadScalar, Written, WrittenScalar, Lists
<1> DEFINE reader == [c \in Bodies |-> ReadField("Rest", c)]
<1>2. reader \in Readers(Bodies) /\ reader[b] = Read(b, <<>>)
  <2>1. <<>> \in Bodies
    BY EmptySeq DEF Bodies
  <2>2. \A c \in Bodies : ReadField("Rest", c) \in SUBSET Reads(Bodies)
    BY <1>1, <2>1 DEF Read, Reads
  <2> QED
    BY <1>1, <2>2 DEF Readers
<1>3. ReadAll(<<"Rest">>, b) = InTurn(<<reader>>, b)
  <2>1. [i \in DOMAIN <<"Rest">> |-> [c \in Bodies |-> ReadField(<<"Rest">>[i], c)]] = <<reader>>
    OBVIOUS
  <2> QED
    BY <2>1 DEF ReadAll
<1> HIDE DEF reader
<1>4. InTurn(<<reader>>, b) = Read(<<b>>, <<>>)
  <2>1. <<>> \in Seq(Readers(Bodies)) /\ Len(<<>>) = 0 /\ Append(<<>>, reader) = <<reader>>
    BY EmptySeq
  <2>2. /\ InTurn(<<>>, b) = Read(<<>>, b)
        /\ InTurn(Append(<<>>, reader), b) = Onward(reader, InTurn(<<>>, b))
    BY <1>2, <2>1, InTurnAppend
  <2>3. Onward(reader, Read(<<>>, b)) = Read(Append(<<>>, b), <<>>)
    <3>1. \A v, c : reader[b] = Read(b, c) => Onward(reader, Read(v, b)) = Read(Append(v, b), c)
      BY OnwardOne
    <3> QED
      BY <1>2, <3>1
  <2>4. Append(<<>>, b) = <<b>>
    OBVIOUS
  <2> QED
    BY <2>1, <2>2, <2>3, <2>4
<1>5. AllWritten(<<"Rest">>, <<b>>) = b
  <2>1. [i \in DOMAIN <<"Rest">> |-> Written(<<"Rest">>[i], <<b>>[i])] = <<b>>
    BY <1>1
  <2>2. <<>> \in Seq(Bodies) /\ Append(<<>>, b) = <<b>> /\ FlattenSeq(<<>>) = <<>>
    BY EmptySeq DEF FlattenSeq
  <2>3. FlattenSeq(Append(<<>>, b)) = FlattenSeq(<<>>) \o b
    BY <2>2, FlattenAppend, BodiesConcatenable
  <2>4. <<>> \o b = b
    BY BodiesJoin
  <2> QED
    BY <2>1, <2>2, <2>3, <2>4 DEF AllWritten
<1> QED
  BY <1>3, <1>4, <1>5

LEMMA TextTypes ==
  ASSUME NEW type \in Types, Layout[type] = <<"Rest">>
  PROVE  /\ \A p : IsValid(type, p) /\ Encode(type, p) = {AllWritten(Layout[type], p)}
         /\ \A b \in Bodies : Decode(type, b) = {<<b>>}
<1>1. type \in {"LOGIN_REQ", "CHAT_REQ"}
  <2>1. type # "LOGIN_RES"
    BY Layouts
  <2>2. type # "CHAT_RES"
    BY Layouts
  <2>3. type # "CHAT_NTF"
    BY Layouts
  <2>4. type # "ROOM_CREATE_REQ"
    BY Layouts
  <2>5. type # "ROOM_ACTION_RES"
    BY Layouts
  <2>6. type # "ROOM_LIST_REQ"
    BY Layouts
  <2>7. type # "ROOM_LIST_RES"
    BY Layouts
  <2>8. type # "ROOM_ENTER_REQ"
    BY Layouts
  <2>9. type # "ROOM_LEAVE_REQ"
    BY Layouts
  <2>10. type # "ROOM_MEMBER_NTF"
    BY Layouts
  <2>11. type # "ROOM_READY_REQ"
    BY Layouts
  <2>12. type # "ROOM_START_REQ"
    BY Layouts
  <2>13. type # "ROOM_STATE_NTF"
    BY Layouts
  <2>14. type # "GAME_MOVE_REQ"
    BY Layouts
  <2>15. type # "GAME_MOVE_RES"
    BY Layouts
  <2>16. type # "GAME_MOVE_NTF"
    BY Layouts
  <2>17. type # "GAME_RESIGN_REQ"
    BY Layouts
  <2>18. type # "GAME_END_NTF"
    BY Layouts
  <2> QED
    BY <2>1, <2>2, <2>3, <2>4, <2>5, <2>6, <2>7, <2>8, <2>9, <2>10, <2>11, <2>12, <2>13, <2>14, <2>15, <2>16, <2>17, <2>18, TypesAre
<1>2. \A p : IsValid(type, p)
  BY <1>1 DEF IsValid
<1>3. \A p : Encode(type, p) = {AllWritten(Layout[type], p)}
  BY <1>1 DEF Encode, CheckedByEncode
<1>4. ASSUME NEW b \in Bodies PROVE Decode(type, b) = {<<b>>}
  <2> DEFINE one == [value |-> <<b>>, rest |-> <<>>]
  <2>1. ReadAll(Layout[type], b) = {one}
    BY AllText DEF Read
  <2>2. one.rest = <<>> /\ one.value = <<b>>
    OBVIOUS
  <2> HIDE DEF one
  <2>3. {r \in ReadAll(Layout[type], b) : r.rest = <<>> /\ IsValid(type, r.value)} = {one}
    BY <1>2, <2>1, <2>2
  <2> QED
    BY <2>2, <2>3 DEF Decode
<1> QED
  BY <1>2, <1>3, <1>4

-----------------------------------------------------------------------------
(* Bodies sent and received *)

\* Whatever is encoded has a body, with room for its fields unless it is all text.
LEMMA EncodedIs ==
  ASSUME NEW type \in Types, NEW p \in Fields(Layout[type]), NEW whole \in Encode(type, p)
  PROVE  /\ whole = AllWritten(Layout[type], p) /\ whole \in Bodies
         /\ Layout[type] # <<"Rest">> => p \in PacketFits(Layout[type])
         /\ Layout[type] = <<"Rest">> => p = <<whole>>
<1>1. whole = AllWritten(Layout[type], p)
  BY DEF Encode
<1>2. CASE Layout[type] # <<"Rest">>
  BY <1>1, <1>2, EncodedFits, WrittenIsRead
<1>3. CASE Layout[type] = <<"Rest">>
  <2> DEFINE layout == <<"Rest">>
  <2>1. p \in Fields(layout) /\ 1 \in Nat /\ DOMAIN layout = 1..1 /\ layout[1] = "Rest" /\ 1 \in 1..1
    BY <1>3
  <2> HIDE DEF layout
  <2>2. /\ p \in Seq(UNION {Values(layout[i]) : i \in 1..1}) /\ Len(p) = 1
        /\ \A i \in 1..1 : p[i] \in Values(layout[i])
    BY <2>1, FieldValues
  <2>3. p = <<p[1]>>
    BY <2>2
  <2>4. p[1] \in Bodies
    BY <2>1, <2>2, CodecConstants DEF Values, ScalarValues, Lists, Bodies
  <2>5. whole = p[1]
    BY <1>1, <1>3, <2>3, <2>4, AllText
  <2> QED
    BY <1>1, <1>3, <2>3, <2>4, <2>5
<1> QED
  BY <1>2, <1>3

LEMMA SentIsDecoded ==
  ASSUME NEW type \in Types, Layout[type] # <<"Rest">>, NEW p \in PacketFits(Layout[type]),
         IsValid(type, p)
  PROVE  Decode(type, AllWritten(Layout[type], p)) = {p}
<1> DEFINE whole == AllWritten(Layout[type], p)
           one == [value |-> p, rest |-> <<>>]
<1>1. whole \in Bodies /\ \A b \in Bodies : ReadAll(Layout[type], whole \o b) = Read(p, b)
  BY WrittenIsRead
<1>2. <<>> \in Bodies /\ whole \o <<>> = whole
  BY <1>1, BodiesJoin
<1>3. ReadAll(Layout[type], whole) = {one}
  <2> HIDE DEF whole
  <2> QED
    BY <1>1, <1>2 DEF Read
<1>4. one.rest = <<>> /\ one.value = p
  OBVIOUS
<1> HIDE DEF one, whole
<1>5. {r \in ReadAll(Layout[type], whole) : r.rest = <<>> /\ IsValid(type, r.value)} = {one}
  BY <1>3, <1>4
<1> QED
  BY <1>4, <1>5 DEF Decode, whole

LEMMA ExtendedIsRefused ==
  ASSUME NEW type \in Types, Layout[type] # <<"Rest">>, NEW p \in PacketFits(Layout[type]),
         NEW rest \in Bodies, rest # <<>>
  PROVE  Decode(type, AllWritten(Layout[type], p) \o rest) = {}
<1>1. ReadAll(Layout[type], AllWritten(Layout[type], p) \o rest) = Read(p, rest)
  BY WrittenIsRead
<1> QED
  BY <1>1 DEF Decode, Read

LEMMA CutIsRefused ==
  ASSUME NEW type \in Types, Layout[type] # <<"Rest">>, NEW p \in PacketFits(Layout[type]),
         NEW b \in Bodies, NEW rest \in Bodies, rest # <<>>, AllWritten(Layout[type], p) = b \o rest
  PROVE  Decode(type, b) = {}
<1> SUFFICES ASSUME NEW q \in Decode(type, b) PROVE FALSE
  OBVIOUS
<1>1. q \in PacketFits(Layout[type]) /\ AllWritten(Layout[type], q) = b
  BY DecodedWasWritten
<1>2. ReadAll(Layout[type], b \o rest) = Read(q, rest)
  BY <1>1, WrittenIsRead
<1>3. AllWritten(Layout[type], p) \o <<>> = b \o rest /\ <<>> \in Bodies
  BY WrittenIsRead, BodiesJoin
<1>4. ReadAll(Layout[type], b \o rest) = Read(p, <<>>)
  BY <1>3, WrittenIsRead
<1> DEFINE one == [value |-> q, rest |-> rest]
           two == [value |-> p, rest |-> <<>>]
<1>5. one \in {two}
  BY <1>2, <1>4 DEF Read
<1>6. one = two
  BY <1>5
<1>7. one.rest = rest /\ two.rest = <<>>
  OBVIOUS
<1> HIDE DEF one, two
<1> QED
  BY <1>6, <1>7

\* A packet is one there is to send, and what is received is its body, or what was left or made of it.
CodecInv ==
  /\ packet.type \in Types /\ packet.fields \in Fields(Layout[packet.type])
  /\ body \in Bodies
  /\ how = "sent" => body \in Encode(packet.type, packet.fields)
  /\ how = "cut" =>
       \E whole \in Encode(packet.type, packet.fields) :
         Len(body) < Len(whole) /\ body = SubSeq(whole, 1, Len(body))
  /\ how = "extended" =>
       \E whole \in Encode(packet.type, packet.fields) : \E b \in 0..(Base - 1) : body = Append(whole, b)

LEMMA CodecInvInit == Init => CodecInv
<1> SUFFICES ASSUME Init PROVE CodecInv
  OBVIOUS
<1>1. packet.type \in Types /\ packet.fields \in Fields(Layout[packet.type])
  BY DEF Init
<1>2. body \in Bodies /\ how = "unsent"
  BY EmptySeq DEF Init, Bodies
<1> QED
  BY <1>1, <1>2 DEF CodecInv

LEMMA CodecInvNext == CodecInv /\ [Next]_vars => CodecInv'
<1> SUFFICES ASSUME CodecInv, [Next]_vars PROVE CodecInv'
  OBVIOUS
<1>1. packet.type \in Types /\ packet.fields \in Fields(Layout[packet.type]) /\ body \in Bodies
  BY DEF CodecInv
<1>2. body \in Seq(Byte) /\ Len(body) \in Nat
  BY <1>1, BaseIs, LenProperties
<1>3. CASE Send
  <2>1. how' = "sent" /\ packet' = packet /\ body' \in Encode(packet.type, packet.fields)
    BY <1>3 DEF Send
  <2>2. body' \in Bodies
    BY <1>1, <2>1, EncodedIs
  <2> QED
    BY <1>1, <2>1, <2>2 DEF CodecInv
<1>4. CASE CutShort
  <2>1. PICK n \in 0..(Len(body) - 1) : body' = SubSeq(body, 1, n)
    BY <1>4 DEF CutShort
  <2>2. how' = "cut" /\ packet' = packet /\ body \in Encode(packet.type, packet.fields)
    BY <1>4 DEF CutShort, CodecInv
  <2>3. n \in 0..Len(body) /\ n < Len(body)
    BY <1>2
  <2>4. body' \in Bodies /\ Len(body') = n
    BY <1>1, <2>1, <2>3, Parts
  <2>5. Len(body') < Len(body) /\ body' = SubSeq(body, 1, Len(body'))
    BY <2>1, <2>3, <2>4
  <2> QED
    BY <1>1, <2>2, <2>4, <2>5 DEF CodecInv
<1>5. CASE Extend
  <2>1. PICK b \in 0..(Base - 1) : body' = Append(body, b)
    BY <1>5 DEF Extend
  <2>2. how' = "extended" /\ packet' = packet /\ body \in Encode(packet.type, packet.fields)
    BY <1>5 DEF Extend, CodecInv
  <2>3. body' \in Bodies
    BY <1>2, <2>1, AppendProperties, BaseIs DEF Byte
  <2> QED
    BY <1>1, <2>1, <2>2, <2>3 DEF CodecInv
<1>6. CASE ChangeByte
  <2>1. PICK i \in DOMAIN body, b \in 0..(Base - 1) : body' = [body EXCEPT ![i] = b]
    BY <1>6 DEF ChangeByte
  <2>2. how' = "changed" /\ packet' = packet
    BY <1>6 DEF ChangeByte
  <2>3. body' \in Bodies
    BY <1>2, <2>1, ExceptSeq, BaseIs, LenProperties DEF Byte
  <2> QED
    BY <1>1, <2>2, <2>3 DEF CodecInv
<1>7. CASE UNCHANGED vars
  BY <1>7 DEF vars, CodecInv
<1> QED
  BY <1>3, <1>4, <1>5, <1>6, <1>7 DEF Next

LEMMA CodecInvHolds == Spec => []CodecInv
BY CodecInvInit, CodecInvNext, PTL DEF Spec

\* What is sent is read back field by field, of whatever type and with whatever values it has
\* (Encode and Decode of Common/PacketCode.h, RoomPacketCodec.h and GamePacketCodec.h).
THEOREM SentIsRead == Spec => []RoundTrip
<1>1. CodecInv => RoundTrip
  <2> SUFFICES ASSUME CodecInv, how = "sent", IsValid(packet.type, packet.fields)
               PROVE  Decode(packet.type, body) = {packet.fields}
    BY DEF RoundTrip
  <2> DEFINE type == packet.type
             p == packet.fields
  <2>1. type \in Types /\ p \in Fields(Layout[type]) /\ body \in Encode(type, p) /\ IsValid(type, p)
    BY DEF CodecInv
  <2> HIDE DEF type, p
  <2>2. Decode(type, body) = {p}
    <3>1. CASE Layout[type] # <<"Rest">>
      BY <2>1, <3>1, EncodedIs, SentIsDecoded
    <3>2. CASE Layout[type] = <<"Rest">>
      BY <2>1, <3>2, EncodedIs, TextTypes
    <3> QED
      BY <3>1, <3>2
  <2> QED
    BY <2>2 DEF type, p
<1> QED
  BY <1>1, CodecInvHolds, PTL

\* A body that is taken for a packet is the one body of that packet: no byte of it is ignored.
THEOREM OneBodyEach == Spec => []Canonical
<1>1. CodecInv => Canonical
  <2> SUFFICES ASSUME CodecInv PROVE Canonical
    OBVIOUS
  <2> DEFINE type == packet.type
  <2>1. type \in Types /\ body \in Bodies
    BY DEF CodecInv
  <2> HIDE DEF type
  <2>2. ASSUME NEW p \in Decode(type, body) PROVE Encode(type, p) = {body}
    <3>1. CASE Layout[type] # <<"Rest">>
      <4>1. p \in PacketFits(Layout[type]) /\ IsValid(type, p) /\ AllWritten(Layout[type], p) = body
        BY <2>1, <3>1, DecodedWasWritten
      <4>2. type = "ROOM_CREATE_REQ" => ~(Len(p[1]) >= Base)
        <5> SUFFICES ASSUME type = "ROOM_CREATE_REQ" PROVE ~(Len(p[1]) >= Base)
          OBVIOUS
        <5>1. Layout[type] = <<"Text">>
          BY Layouts
        <5>2. p \in Row(1, [i \in DOMAIN <<"Text">> |-> FieldFit(<<"Text">>[i])])
          BY <4>1, <5>1 DEF PacketFits
        <5> DEFINE F == [i \in DOMAIN <<"Text">> |-> FieldFit(<<"Text">>[i])]
        <5>3. F[1] = FieldFit("Text") /\ 1 \in 1..1 /\ 1 \in Nat
          OBVIOUS
        <5> HIDE DEF F
        <5>4. p[1] \in F[1]
          BY <5>2, <5>3, RowIs DEF F
        <5>5. Len(p[1]) \in Byte
          BY <5>3, <5>4 DEF FieldFit, Fit, Lists
        <5> QED
          BY <5>5, BaseIs DEF Byte
      <4> QED
        BY <4>1, <4>2 DEF Encode
    <3>2. CASE Layout[type] = <<"Rest">>
      BY <2>1, <3>2, TextTypes, AllText
    <3> QED
      BY <3>1, <3>2
  <2> QED
    BY <2>2 DEF Canonical, type
<1> QED
  BY <1>1, CodecInvHolds, PTL

\* A body cut short or followed by a byte is no packet, unless the type is all text.
THEOREM LengthIsChecked == Spec => []WrongLengthRefused
<1>1. CodecInv => WrongLengthRefused
  <2> SUFFICES ASSUME CodecInv, how \in {"cut", "extended"}, Layout[packet.type] # <<"Rest">>
               PROVE  Decode(packet.type, body) = {}
    BY DEF WrongLengthRefused
  <2> DEFINE type == packet.type
             p == packet.fields
  <2>1. /\ type \in Types /\ p \in Fields(Layout[type]) /\ body \in Bodies
        /\ Layout[type] # <<"Rest">>
    BY DEF CodecInv
  <2>2. CASE how = "cut"
    <3>1. PICK whole \in Encode(type, p) : Len(body) < Len(whole) /\ body = SubSeq(whole, 1, Len(body))
      BY <2>2 DEF CodecInv
    <3> HIDE DEF type, p
    <3>2. /\ whole = AllWritten(Layout[type], p) /\ whole \in Bodies
          /\ p \in PacketFits(Layout[type])
      BY <2>1, EncodedIs
    <3>3. Len(body) \in 0..Len(whole) /\ Len(body) \in Nat /\ Len(whole) \in Nat
      BY <2>1, <3>1, <3>2, BaseIs, LenProperties
    <3> DEFINE rest == SubSeq(whole, Len(body) + 1, Len(whole))
    <3>4. rest \in Bodies /\ whole = body \o rest
      BY <3>1, <3>2, <3>3, Parts
    <3>5. rest # <<>>
      <4> HIDE DEF rest
      <4> SUFFICES ASSUME rest = <<>> PROVE FALSE
        OBVIOUS
      <4>1. whole = body
        BY <2>1, <3>4, BodiesJoin
      <4> QED
        BY <3>1, <3>3, <4>1
    <3> HIDE DEF rest
    <3>6. Decode(type, body) = {}
      BY <2>1, <3>2, <3>4, <3>5, CutIsRefused
    <3> QED
      BY <3>6 DEF type
  <2>3. CASE how = "extended"
    <3>1. PICK whole \in Encode(type, p) : \E b \in 0..(Base - 1) : body = Append(whole, b)
      BY <2>3 DEF CodecInv
    <3>2. PICK b \in 0..(Base - 1) : body = Append(whole, b)
      BY <3>1
    <3> HIDE DEF type, p
    <3>3. /\ whole = AllWritten(Layout[type], p) /\ whole \in Bodies
          /\ p \in PacketFits(Layout[type])
      BY <2>1, EncodedIs
    <3>4. b \in Byte /\ <<b>> \in Bodies /\ <<b>> # <<>>
      BY OneByte, EmptySeq DEF Byte, Bodies
    <3>5. body = whole \o <<b>>
      <4>1. whole \in Seq(Byte)
        BY <3>3, BaseIs
      <4> QED
        BY <3>2, <3>4, <4>1, AppendIsConcat
    <3>6. Decode(type, body) = {}
      BY <2>1, <3>3, <3>4, <3>5, ExtendedIsRefused
    <3> QED
      BY <3>6 DEF type
  <2> QED
    BY <2>2, <2>3
<1> QED
  BY <1>1, CodecInvHolds, PTL

================================================================================
