--------------------------- MODULE CiTransportProofs ---------------------------
(***************************************************************************)
(* The wire discipline of CiTransport for every number of slots, every     *)
(* SPDU length and every way the link refuses or breaks a write: one       *)
(* command at a time, pieces in their chain, answers to what was asked,    *)
(* bytes of the module accounted for until a loss is reported, and objects *)
(* completed in the order they were sent.                                  *)
(***************************************************************************)
EXTENDS CiTransport, SequenceTheorems, TLAPS

-----------------------------------------------------------------------------
(* The queue of one slot and what its module has collected.                *)

\* The pieces of one SPDU are frames, each followed by the next.
LEMMA FragmentsLinked ==
  ASSUME NEW m \in Nat, NEW k \in Nat \ {0}, NEW holes
  PROVE  /\ Fragments(m, k) \in Seq(Pieces)
         /\ Len(Fragments(m, k)) = k
         /\ \A i \in 1 .. k : Fragments(m, k)[i] = Data(m, i, k)
         /\ Linked(Fragments(m, k), holes)
<1>1. \A i \in 1 .. k : Data(m, i, k) \in Pieces
  BY DEF Data, Pieces
<1>2. Fragments(m, k) \in Seq(Pieces) /\ Len(Fragments(m, k)) = k
  BY <1>1 DEF Fragments
<1>3. \A i \in 1 .. k : Fragments(m, k)[i] = Data(m, i, k)
  BY DEF Fragments
<1> QED
  BY <1>2, <1>3 DEF Linked, Data, IsData

\* More holes excuse more.
LEMMA MoreHoles ==
  ASSUME NEW x, NEW holes, NEW more, holes \subseteq more
  PROVE  /\ Linked(x, holes) => Linked(x, more)
         /\ Begun(x, holes) => Begun(x, more)
BY DEF Linked, Begun

\* The first i pieces of an SPDU, which is a hole if more were to follow.
LEMMA PrefixLinked ==
  ASSUME NEW m \in Nat, NEW k \in Nat \ {0}, NEW i \in 1 .. k, NEW holes,
         i = k \/ m \in holes
  PROVE  /\ SubSeq(Fragments(m, k), 1, i) \in Seq(Pieces)
         /\ Len(SubSeq(Fragments(m, k), 1, i)) = i
         /\ Linked(SubSeq(Fragments(m, k), 1, i), holes)
<1> DEFINE f == Fragments(m, k)
           g == SubSeq(f, 1, i)
<1>1. /\ f \in Seq(Pieces) /\ Len(f) = k
      /\ \A j \in 1 .. k : f[j] = Data(m, j, k)
      /\ Linked(f, holes)
  BY FragmentsLinked
<1> HIDE DEF f
<1>2. \A j \in 1 .. i : f[j] \in Pieces /\ j \in 1 .. k
  BY <1>1, ElementOfSeq
<1>3. g \in Seq(Pieces) /\ Len(g) = i /\ \A j \in 1 .. i : g[j] = f[j]
  BY <1>2, SubSeqProperties
<1> HIDE DEF g
<1>4. ASSUME i = k PROVE Linked(g, holes)
  <2>1. g = f
    BY <1>4, <1>1, <1>3, SeqEqual
  <2> QED
    BY <2>1, <1>1
<1>5. ASSUME m \in holes PROVE Linked(g, holes)
  <2>1. \A j \in 1 .. i : g[j] = Data(m, j, k) /\ j \in 1 .. k
    BY <1>1, <1>2, <1>3
  <2>2. \A j \in 1 .. k : /\ Data(m, j, k).msg = m
                          /\ IsData(Data(m, j, k))
    BY DEF Data, IsData
  <2>3. \A j \in 1 .. i : g[j].msg = m /\ IsData(g[j])
    BY <2>1, <2>2
  <2>4. ASSUME NEW j \in 1 .. Len(g)
        PROVE  IsData(g[j]) /\ g[j].msg \in holes
    BY <2>3, <1>3, <1>5
  <2> QED
    BY <2>4 DEF Linked
<1> QED
  BY <1>3, <1>4, <1>5 DEF g, f

\* Frames that are linked, queued behind others that are.
LEMMA ConcatLinked ==
  ASSUME NEW x \in Seq(Pieces), NEW f \in Seq(Pieces), NEW holes,
         Linked(x, holes), Linked(f, holes)
  PROVE  Linked(x \o f, holes)
<1> DEFINE r == x \o f
           n == Len(x)
<1>1. /\ n \in Nat /\ Len(f) \in Nat /\ Len(r) = n + Len(f)
      /\ \A i \in 1 .. n : r[i] = x[i]
  BY ConcatProperties, LenProperties
<1>2. \A j \in 1 .. Len(f) : r[n + j] = f[j]
  BY ConcatProperties, LenProperties
<1> HIDE DEF r
<1>3. ASSUME NEW i \in 1 .. n
      PROVE  /\ r[i] = Control \/ IsData(r[i])
             /\ r[i].tag = "DataMore" =>
                  \/ i < Len(r) /\ r[i + 1] = Data(r[i].msg, r[i].part + 1, r[i].of)
                  \/ r[i].msg \in holes
             /\ r[i].part > 1 =>
                  \/ i > 1 /\ r[i - 1] = Data(r[i].msg, r[i].part - 1, r[i].of)
                  \/ r[i].msg \in holes
  <2>1. r[i] = x[i] /\ (i < n => i + 1 \in 1 .. n) /\ (i > 1 => i - 1 \in 1 .. n)
    BY <1>1
  <2>2. /\ i < n => r[i + 1] = x[i + 1] /\ i < Len(r)
        /\ i > 1 => r[i - 1] = x[i - 1]
    BY <1>1, <2>1
  <2> QED
    BY <2>1, <2>2 DEF Linked, n
<1>4. ASSUME NEW j \in 1 .. Len(f), NEW i, i = n + j
      PROVE  /\ r[i] = Control \/ IsData(r[i])
             /\ r[i].tag = "DataMore" =>
                  \/ i < Len(r) /\ r[i + 1] = Data(r[i].msg, r[i].part + 1, r[i].of)
                  \/ r[i].msg \in holes
             /\ r[i].part > 1 =>
                  \/ i > 1 /\ r[i - 1] = Data(r[i].msg, r[i].part - 1, r[i].of)
                  \/ r[i].msg \in holes
  <2>1. /\ r[i] = f[j] /\ (j < Len(f) => j + 1 \in 1 .. Len(f))
        /\ j > 1 => j - 1 \in 1 .. Len(f)
        /\ i + 1 = n + (j + 1) /\ i - 1 = n + (j - 1)
    BY <1>1, <1>2, <1>4
  <2>2. /\ j < Len(f) => r[i + 1] = f[j + 1] /\ i < Len(r)
        /\ j > 1 => r[i - 1] = f[j - 1] /\ i > 1
    BY <1>1, <1>2, <1>4, <2>1
  <2> QED
    BY <2>1, <2>2 DEF Linked
<1>5. \A i \in 1 .. Len(r) : i \in 1 .. n \/ \E j \in 1 .. Len(f) : i = n + j
  <2> TAKE i \in 1 .. Len(r)
  <2>1. CASE i > n
    <3>1. i - n \in 1 .. Len(f) /\ i = n + (i - n)
      BY <2>1, <1>1
    <3> QED
      BY <3>1
  <2> QED
    BY <2>1, <1>1
<1> QED
  BY <1>3, <1>4, <1>5 DEF Linked, r

\* What a slot has collected and queued, with the head of the queue apart.
LEMMA HeadApart ==
  ASSUME NEW rx \in Seq(Pieces), NEW q \in Seq(Pieces), q # <<>>
  PROVE  /\ Len(rx) \in Nat /\ Head(q) \in Pieces /\ Tail(q) \in Seq(Pieces)
         /\ Append(rx, Head(q)) \in Seq(Pieces)
         /\ Append(rx, Head(q)) \o Tail(q) = rx \o q
         /\ Len(rx \o q) \in Nat /\ Len(rx \o q) > Len(rx)
         /\ \A i \in 1 .. Len(rx) : (rx \o q)[i] = rx[i]
         /\ (rx \o q)[Len(rx) + 1] = Head(q)
         /\ Len(Tail(q)) = Len(rx \o q) - (Len(rx) + 1)
         /\ \A i \in 1 .. Len(Tail(q)) : (rx \o q)[Len(rx) + 1 + i] = Tail(q)[i]
         /\ Len(rx \o Tail(q)) = Len(rx \o q) - 1
         /\ \A i \in 1 .. Len(rx \o q) - 1 : (rx \o Tail(q))[i] =
                (rx \o q)[IF i <= Len(rx) THEN i ELSE i + 1]
<1> DEFINE h == Head(q)
           r == Tail(q)
           n == Len(rx)
<1>1. /\ n \in Nat /\ Len(q) \in Nat \ {0} /\ h \in Pieces /\ h = q[1]
      /\ r \in Seq(Pieces) /\ Len(r) = Len(q) - 1
      /\ \A i \in 1 .. Len(r) : r[i] = q[i + 1]
  BY HeadTailProperties, LenProperties, EmptySeq
<1> HIDE DEF h, r
<1>2. /\ Append(rx, h) \in Seq(Pieces) /\ Len(Append(rx, h)) = n + 1
      /\ \A i \in 1 .. n : Append(rx, h)[i] = rx[i]
      /\ Append(rx, h)[n + 1] = h
  BY <1>1, AppendProperties
<1>3. /\ rx \o q \in Seq(Pieces) /\ Len(rx \o q) = n + Len(q)
      /\ \A i \in 1 .. n : (rx \o q)[i] = rx[i]
  BY <1>1, ConcatProperties
<1>4. \A i \in 1 .. Len(q) : (rx \o q)[n + i] = q[i]
  BY <1>1, ConcatProperties
<1>5. /\ rx \o r \in Seq(Pieces) /\ Len(rx \o r) = n + Len(r)
      /\ \A i \in 1 .. n : (rx \o r)[i] = rx[i]
  <2>1. n + Len(r) \in Nat /\ \A i \in 1 .. n : i \in 1 .. n + Len(r) /\ i <= n
    BY <1>1, LenProperties
  <2> QED
    BY <2>1, <1>1, ConcatProperties
<1>6. \A i \in 1 .. Len(r) : (rx \o r)[n + i] = r[i]
  BY <1>1, ConcatProperties
<1>7. \A i \in 1 .. Len(r) : (rx \o q)[n + 1 + i] = r[i]
  <2> TAKE i \in 1 .. Len(r)
  <2>1. i + 1 \in 1 .. Len(q) /\ n + (i + 1) = n + 1 + i
    BY <1>1
  <2> QED
    BY <2>1, <1>1, <1>4
<1>8. (rx \o q)[n + 1] = h
  BY <1>1, <1>4
<1>9. /\ Append(rx, h) \o r \in Seq(Pieces)
      /\ Len(Append(rx, h) \o r) = n + Len(q)
      /\ \A i \in 1 .. n + 1 : (Append(rx, h) \o r)[i] = Append(rx, h)[i]
  <2>1. /\ n + 1 + Len(r) = n + Len(q)
        /\ \A i \in 1 .. n + 1 : i \in 1 .. n + 1 + Len(r) /\ i <= n + 1
    BY <1>1
  <2> DEFINE a == Append(rx, h)
  <2> HIDE DEF a
  <2>2. a \in Seq(Pieces) /\ Len(a) = n + 1
    BY <1>2 DEF a
  <2>3. /\ a \o r \in Seq(Pieces) /\ Len(a \o r) = n + 1 + Len(r)
        /\ \A i \in 1 .. n + 1 : (a \o r)[i] = a[i]
    <3>1. /\ a \o r \in Seq(Pieces) /\ Len(a \o r) = Len(a) + Len(r)
          /\ \A i \in 1 .. Len(a) + Len(r) : (a \o r)[i] =
                 IF i <= Len(a) THEN a[i] ELSE r[i - Len(a)]
      BY <2>2, <1>1, ConcatProperties
    <3> QED
      BY <3>1, <2>1, <2>2
  <2> QED
    BY <2>1, <2>3 DEF a
<1>10. \A i \in 1 .. Len(r) : (Append(rx, h) \o r)[n + 1 + i] = r[i]
  BY <1>1, <1>2, ConcatProperties
<1>11. Append(rx, h) \o r = rx \o q
  <2>1. ASSUME NEW i \in 1 .. n + Len(q)
        PROVE  (Append(rx, h) \o r)[i] = (rx \o q)[i]
    <3>1. CASE i \in 1 .. n
      BY <3>1, <1>1, <1>2, <1>3, <1>9
    <3>2. CASE i = n + 1
      BY <3>2, <1>1, <1>2, <1>8, <1>9
    <3>3. CASE i > n + 1
      <4>1. i - (n + 1) \in 1 .. Len(r) /\ i = n + 1 + (i - (n + 1))
        BY <3>3, <1>1
      <4> QED
        BY <4>1, <1>7, <1>10
    <3> QED
      BY <3>1, <3>2, <3>3, <1>1
  <2> QED
    BY <2>1, <1>3, <1>9, SeqEqual
<1>12. ASSUME NEW i \in 1 .. Len(rx \o q) - 1
       PROVE  (rx \o r)[i] = (rx \o q)[IF i <= n THEN i ELSE i + 1]
  <2>1. CASE i <= n
    BY <2>1, <1>1, <1>3, <1>5
  <2>2. CASE i > n
    <3>1. i - n \in 1 .. Len(r) /\ i = n + (i - n) /\ i + 1 = n + 1 + (i - n)
      BY <2>2, <1>1, <1>3
    <3> QED
      BY <3>1, <2>2, <1>1, <1>6, <1>7
  <2> QED
    BY <2>1, <2>2, <1>1, <1>3
<1>13. Len(rx \o r) = Len(rx \o q) - 1
  BY <1>1, <1>3, <1>5
<1>14. /\ Len(rx \o q) \in Nat /\ Len(rx \o q) > n
       /\ Len(r) = Len(rx \o q) - (n + 1)
  BY <1>1, <1>3
<1> QED
  BY <1>1, <1>2, <1>3, <1>7, <1>8, <1>11, <1>12, <1>13, <1>14 DEF h, r

\* The head of the queue leaves (a control frame that is written, or a frame
\* whose write failed): the rest stays linked, but for the SPDU of that frame.
LEMMA RemoveLinked ==
  ASSUME NEW rx \in Seq(Pieces), NEW q \in Seq(Pieces), q # <<>>,
         NEW holes, NEW more, holes \subseteq more,
         Linked(rx \o q, holes), Begun(rx, holes),
         Head(q).tag = "Control" \/ Head(q).msg \in more
  PROVE  Linked(rx \o Tail(q), more) /\ Begun(rx, more)
<1> DEFINE x == rx \o q
           y == rx \o Tail(q)
           n == Len(rx)
           h == Head(q)
           l == Len(x)
<1>1. /\ n \in Nat /\ l \in Nat /\ l > n
      /\ x[n + 1] = h /\ Len(y) = l - 1
      /\ \A i \in 1 .. n : x[i] = rx[i]
      /\ \A i \in 1 .. l - 1 : y[i] = x[IF i <= n THEN i ELSE i + 1]
  BY HeadApart
<1>2. /\ Linked(x, more) /\ Begun(rx, more) /\ Linked(x, holes)
      /\ h.tag = "Control" \/ h.msg \in more
  BY MoreHoles
<1> HIDE DEF x, y, h
<1>3. \A i \in 1 .. n : x[i].tag = "DataMore"
  BY <1>1, <1>2 DEF Begun
<1>4. \A i \in 1 .. l :
        /\ x[i] = Control \/ IsData(x[i])
        /\ x[i].tag = "DataMore" =>
             \/ i < l /\ x[i + 1] = Data(x[i].msg, x[i].part + 1, x[i].of)
             \/ x[i].msg \in more
        /\ x[i].part > 1 =>
             \/ i > 1 /\ x[i - 1] = Data(x[i].msg, x[i].part - 1, x[i].of)
             \/ x[i].msg \in more
  BY <1>2 DEF Linked, l
<1> HIDE DEF l
<1>5. \A m, p, o : Data(m, p, o).msg = m /\ Data(m, p, o).tag # "Control"
  BY DEF Data
<1>6. ASSUME NEW i \in 1 .. l - 1
      PROVE  /\ y[i] = Control \/ IsData(y[i])
             /\ y[i].tag = "DataMore" =>
                  \/ i < l - 1 /\ y[i + 1] = Data(y[i].msg, y[i].part + 1, y[i].of)
                  \/ y[i].msg \in more
             /\ y[i].part > 1 =>
                  \/ i > 1 /\ y[i - 1] = Data(y[i].msg, y[i].part - 1, y[i].of)
                  \/ y[i].msg \in more
  <2>1. CASE i < n
    <3>1. /\ y[i] = x[i] /\ y[i + 1] = x[i + 1] /\ i \in 1 .. l
          /\ i > 1 => y[i - 1] = x[i - 1]
          /\ i < l - 1
      BY <2>1, <1>1
    <3> QED
      BY <3>1, <1>4
  <2>2. CASE i = n
    <3>1. /\ y[i] = x[i] /\ x[i + 1] = h /\ i \in 1 .. l
          /\ i > 1 => y[i - 1] = x[i - 1]
      BY <2>2, <1>1
    <3>2. y[i].msg \in more
      <4>1. \/ h = Data(x[i].msg, x[i].part + 1, x[i].of)
            \/ x[i].msg \in more
        BY <3>1, <2>2, <1>3, <1>4
      <4> QED
        BY <4>1, <3>1, <1>2, <1>5
    <3> QED
      BY <3>1, <3>2, <1>4
  <2>3. CASE i > n
    <3>1. /\ y[i] = x[i + 1] /\ i + 1 \in 1 .. l
          /\ i < l - 1 => y[i + 1] = x[i + 1 + 1]
          /\ i + 1 < l => i < l - 1
      BY <2>3, <1>1
    <3>2. y[i].part > 1 =>
            \/ i > 1 /\ y[i - 1] = Data(y[i].msg, y[i].part - 1, y[i].of)
            \/ y[i].msg \in more
      <4> SUFFICES ASSUME y[i].part > 1, y[i].msg \notin more
                   PROVE  i > 1 /\ y[i - 1] = Data(y[i].msg, y[i].part - 1, y[i].of)
        OBVIOUS
      <4>1. x[i + 1 - 1] = Data(y[i].msg, y[i].part - 1, y[i].of)
        BY <3>1, <1>4
      <4>2. i + 1 - 1 = i
        OBVIOUS
      <4>3. i # n + 1
        BY <4>1, <4>2, <1>1, <1>2, <1>5
      <4>4. i > 1 /\ y[i - 1] = x[i]
        BY <4>3, <2>3, <1>1
      <4> QED
        BY <4>1, <4>2, <4>4
    <3> QED
      BY <3>1, <3>2, <1>4
  <2> QED
    BY <2>1, <2>2, <2>3, <1>1
<1>7. Linked(y, more)
  BY <1>6, <1>1 DEF Linked
<1> QED
  BY <1>2, <1>7 DEF y

\* What the module has collected with the piece at the head of the queue: the
\* pieces of one SPDU so far, or there is a hole in it.
LEMMA CollectedPieces ==
  ASSUME NEW rx \in Seq(Pieces), NEW q \in Seq(Pieces), q # <<>>, NEW holes,
         Linked(rx \o q, holes), Begun(rx, holes), Head(q).tag # "Control"
  PROVE  LET got == Append(rx, Head(q))
         IN \/ \A i \in 1 .. Len(rx) + 1 : got[i] = Data(Head(q).msg, i, Head(q).of)
            \/ \E i \in 1 .. Len(rx) + 1 : got[i].msg \in holes
<1> DEFINE x == rx \o q
           n == Len(rx)
           h == Head(q)
           got == Append(rx, h)
<1>1. /\ n \in Nat /\ h \in Pieces /\ Len(x) \in Nat /\ Len(x) > n
      /\ x[n + 1] = h
      /\ \A i \in 1 .. n : x[i] = rx[i]
  BY HeadApart
<1>2. /\ Len(got) = n + 1 /\ got[n + 1] = h
      /\ \A i \in 1 .. n : got[i] = rx[i]
  BY <1>1, AppendProperties
<1> HIDE DEF x, h, got
<1>3. /\ x = rx \o q /\ h = Head(q) /\ Linked(x, holes) /\ h.tag # "Control"
  BY DEF x, h
<1>4. ASSUME \A i \in 1 .. n + 1 : got[i].msg \notin holes
      PROVE  \A i \in 1 .. n + 1 : got[i] = Data(h.msg, i, h.of)
  <2>1. \A i \in 1 .. n : rx[i].msg \notin holes /\ i \in 1 .. n + 1
    BY <1>1, <1>2, <1>4
  <2>2. h.msg \notin holes
    BY <1>1, <1>2, <1>4
  <2>3. \A i \in 1 .. n : rx[i] = Data(rx[1].msg, i, rx[1].of)
    BY <2>1 DEF Begun
  <2>4. n + 1 \in 1 .. Len(x)
    BY <1>1
  <2>5. /\ IsData(h)
        /\ h.part > 1 => n + 1 > 1
    <3>1. h = Control \/ IsData(h)
      BY <2>4, <1>1, <1>3 DEF Linked
    <3>2. h.part > 1 => n + 1 > 1
      BY <2>4, <2>2, <1>1, <1>3 DEF Linked
    <3> QED
      BY <3>1, <3>2, <1>3 DEF Control
  <2>6. h.part \in Nat /\ h.of \in Nat /\ h = Data(h.msg, h.part, h.of)
        /\ h.part \in 1 .. h.of
    BY <1>1, <2>5 DEF Pieces, IsData
  <2>7. CASE n = 0
    <3>1. h.part = 1
      BY <2>5, <2>6, <2>7
    <3>2. h = Data(h.msg, 1, h.of)
      BY <3>1, <2>6
    <3>3. \A i \in 1 .. n + 1 : i = 1 /\ i = n + 1
      BY <2>7
    <3> QED
      BY <3>2, <3>3, <1>2
  <2>8. CASE n # 0
    <3>1. n \in 1 .. n /\ n \in 1 .. Len(x) /\ x[n] = rx[n]
      BY <2>8, <1>1
    <3>2. rx[n].tag = "DataMore" /\ rx[n].msg \notin holes
      BY <3>1, <2>1 DEF Begun
    <3>3. h = Data(rx[n].msg, rx[n].part + 1, rx[n].of)
      BY <3>1, <3>2, <1>1, <1>3 DEF Linked
    <3>4. rx[n] = Data(rx[1].msg, n, rx[1].of)
      BY <3>1, <2>3
    <3>5. rx[n].msg = rx[1].msg /\ rx[n].of = rx[1].of /\ rx[n].part = n
      BY <3>4 DEF Data
    <3>6. h = Data(rx[1].msg, n + 1, rx[1].of)
      BY <3>3, <3>5
    <3>7. h.msg = rx[1].msg /\ h.of = rx[1].of
      BY <3>6 DEF Data
    <3>8. ASSUME NEW i \in 1 .. n + 1
          PROVE  got[i] = Data(h.msg, i, h.of)
      <4>1. CASE i \in 1 .. n
        BY <4>1, <3>7, <2>3, <1>2
      <4>2. CASE i = n + 1
        BY <4>2, <3>6, <3>7, <1>2
      <4> QED
        BY <4>1, <4>2, <1>1
    <3> QED
      BY <3>8
  <2> QED
    BY <2>7, <2>8
<1> QED
  BY <1>4 DEF got, h

\* The module collects a piece with more to follow.
LEMMA TakeMore ==
  ASSUME NEW rx \in Seq(Pieces), NEW q \in Seq(Pieces), q # <<>>, NEW holes,
         Linked(rx \o q, holes), Begun(rx, holes), Head(q).tag = "DataMore"
  PROVE  /\ Linked(Append(rx, Head(q)) \o Tail(q), holes)
         /\ Begun(Append(rx, Head(q)), holes)
<1> DEFINE h == Head(q)
           n == Len(rx)
           got == Append(rx, h)
<1>1. got \o Tail(q) = rx \o q /\ h \in Pieces /\ n \in Nat
  BY HeadApart
<1>2. /\ Len(got) = n + 1 /\ got[n + 1] = h
      /\ \A i \in 1 .. n : got[i] = rx[i]
  BY <1>1, AppendProperties
<1>3. \/ \A i \in 1 .. n + 1 : got[i] = Data(h.msg, i, h.of)
      \/ \E i \in 1 .. n + 1 : got[i].msg \in holes
  BY CollectedPieces
<1> HIDE DEF got, h
<1>4. h.tag = "DataMore"
  BY DEF h
<1>5. \A i \in 1 .. n + 1 : got[i].tag = "DataMore"
  <2> TAKE i \in 1 .. n + 1
  <2>1. CASE i \in 1 .. n
    BY <2>1, <1>2 DEF Begun
  <2> QED
    BY <2>1, <1>1, <1>2, <1>4
<1>6. (\A i \in 1 .. n + 1 : got[i] = Data(h.msg, i, h.of))
      => \A i \in 1 .. n + 1 : got[i] = Data(got[1].msg, i, got[1].of)
  <2> SUFFICES ASSUME \A i \in 1 .. n + 1 : got[i] = Data(h.msg, i, h.of)
               PROVE  \A i \in 1 .. n + 1 : got[i] = Data(got[1].msg, i, got[1].of)
    OBVIOUS
  <2>1. got[1] = Data(h.msg, 1, h.of)
    BY <1>1
  <2>2. got[1].msg = h.msg /\ got[1].of = h.of
    BY <2>1 DEF Data
  <2> QED
    BY <2>2
<1>7. Begun(got, holes)
  BY <1>2, <1>3, <1>5, <1>6 DEF Begun
<1>8. Linked(got \o Tail(q), holes)
  BY <1>1
<1> QED
  BY <1>7, <1>8 DEF got, h

\* The module completes an SPDU of the host, or one with a hole in it.
Complete(got, holes) ==
    got # <<>> => \/ got = Fragments(got[1].msg, Len(got))
                  \/ \E i \in DOMAIN got : got[i].msg \in holes

\* The module is given what it takes for the last piece.
LEMMA TakeLast ==
  ASSUME NEW rx \in Seq(Pieces), NEW q \in Seq(Pieces), q # <<>>, NEW holes,
         Linked(rx \o q, holes), Begun(rx, holes), Head(q).tag = "DataLast"
  PROVE  /\ Linked(<<>> \o Tail(q), holes) /\ Begun(<<>>, holes)
         /\ Complete(Append(rx, Head(q)), holes)
<1> DEFINE x == rx \o q
           h == Head(q)
           n == Len(rx)
           r == Tail(q)
           got == Append(rx, h)
<1>1. /\ n \in Nat /\ h \in Pieces /\ r \in Seq(Pieces)
      /\ Len(x) \in Nat /\ Len(x) > n /\ x[n + 1] = h
      /\ Len(r) = Len(x) - (n + 1)
      /\ \A i \in 1 .. Len(r) : x[n + 1 + i] = r[i]
  BY HeadApart
<1>2. /\ Len(got) = n + 1 /\ got[n + 1] = h /\ got \in Seq(Pieces)
  BY <1>1, AppendProperties
<1>3. \/ \A i \in 1 .. n + 1 : got[i] = Data(h.msg, i, h.of)
      \/ \E i \in 1 .. n + 1 : got[i].msg \in holes
  BY CollectedPieces
<1> HIDE DEF x, h, r, got
<1>4. h.tag = "DataLast" /\ Linked(x, holes)
  BY DEF h, x
<1>5. \A i \in 1 .. Len(x) :
        /\ x[i] = Control \/ IsData(x[i])
        /\ x[i].tag = "DataMore" =>
             \/ i < Len(x) /\ x[i + 1] = Data(x[i].msg, x[i].part + 1, x[i].of)
             \/ x[i].msg \in holes
        /\ x[i].part > 1 =>
             \/ i > 1 /\ x[i - 1] = Data(x[i].msg, x[i].part - 1, x[i].of)
             \/ x[i].msg \in holes
  BY <1>4 DEF Linked
<1>6. ASSUME NEW i \in 1 .. Len(r)
      PROVE  /\ r[i] = Control \/ IsData(r[i])
             /\ r[i].tag = "DataMore" =>
                  \/ i < Len(r) /\ r[i + 1] = Data(r[i].msg, r[i].part + 1, r[i].of)
                  \/ r[i].msg \in holes
             /\ r[i].part > 1 =>
                  \/ i > 1 /\ r[i - 1] = Data(r[i].msg, r[i].part - 1, r[i].of)
                  \/ r[i].msg \in holes
  <2> DEFINE j == n + 1 + i
  <2>1. /\ j \in 1 .. Len(x) /\ r[i] = x[j]
        /\ j < Len(x) => i < Len(r) /\ i + 1 \in 1 .. Len(r)
        /\ j + 1 = n + 1 + (i + 1)
        /\ i > 1 => i - 1 \in 1 .. Len(r) /\ j - 1 = n + 1 + (i - 1)
        /\ ~(i > 1) => j - 1 = n + 1
    BY <1>1
  <2> HIDE DEF j
  <2>2. /\ j < Len(x) => r[i + 1] = x[j + 1]
        /\ i > 1 => r[i - 1] = x[j - 1]
    <3>1. ASSUME j < Len(x) PROVE r[i + 1] = x[j + 1]
      <4>1. i + 1 \in 1 .. Len(r) /\ j + 1 = n + 1 + (i + 1)
        BY <3>1, <2>1
      <4> QED
        BY <4>1, <1>1
    <3>2. ASSUME i > 1 PROVE r[i - 1] = x[j - 1]
      <4>1. i - 1 \in 1 .. Len(r) /\ j - 1 = n + 1 + (i - 1)
        BY <3>2, <2>1
      <4> QED
        BY <4>1, <1>1
    <3> QED
      BY <3>1, <3>2
  <2>3. r[i] = Control \/ IsData(r[i])
    BY <2>1, <1>5
  <2>4. r[i].tag = "DataMore" =>
          \/ i < Len(r) /\ r[i + 1] = Data(r[i].msg, r[i].part + 1, r[i].of)
          \/ r[i].msg \in holes
    BY <2>1, <2>2, <1>5
  <2>5. r[i].part > 1 =>
          \/ i > 1 /\ r[i - 1] = Data(r[i].msg, r[i].part - 1, r[i].of)
          \/ r[i].msg \in holes
    <3> SUFFICES ASSUME r[i].part > 1, r[i].msg \notin holes
                 PROVE  i > 1 /\ r[i - 1] = Data(r[i].msg, r[i].part - 1, r[i].of)
      OBVIOUS
    <3>1. x[j - 1] = Data(r[i].msg, r[i].part - 1, r[i].of)
      BY <2>1, <1>5
    <3>2. ASSUME ~(i > 1) PROVE FALSE
      <4>1. h = Data(r[i].msg, r[i].part - 1, r[i].of)
        BY <3>1, <3>2, <2>1, <1>1
      <4>2. ~(r[i].part - 1 < r[i].of)
        BY <4>1, <1>4 DEF Data
      <4>3. IsData(r[i])
        BY <2>3 DEF Control
      <4>4. r[i].part \in 1 .. r[i].of
        BY <4>3 DEF IsData
      <4>5. r[i].of \in Nat /\ r[i].part \in Nat
        <5>1. r[i] \in Pieces
          BY <1>1, ElementOfSeq
        <5> QED
          BY <5>1 DEF Pieces
      <4> QED
        BY <4>2, <4>4, <4>5
    <3> QED
      BY <3>1, <3>2, <2>2
  <2> QED
    BY <2>3, <2>4, <2>5
<1>7. Linked(r, holes)
  BY <1>6 DEF Linked
<1>8. <<>> \o r = r
  BY <1>1, ConcatEmptySeq
<1>9. Begun(<<>>, holes)
  BY EmptySeq DEF Begun
<1>10. Complete(got, holes)
  <2>1. CASE \E i \in 1 .. n + 1 : got[i].msg \in holes
    <3>1. DOMAIN got = 1 .. n + 1
      BY <1>2, LenProperties
    <3> QED
      BY <2>1, <3>1 DEF Complete
  <2>2. CASE \A i \in 1 .. n + 1 : got[i] = Data(h.msg, i, h.of)
    <3>1. h = Data(h.msg, n + 1, h.of) /\ got[1] = Data(h.msg, 1, h.of)
      BY <2>2, <1>1, <1>2
    <3>2. got[1].msg = h.msg /\ ~(n + 1 < h.of) /\ h.part = n + 1
      BY <3>1, <1>4 DEF Data
    <3>3. h.of = n + 1 /\ h.msg \in Nat
      <4>1. n + 1 \in 1 .. Len(x)
        BY <1>1
      <4>2. x[n + 1] = Control \/ IsData(x[n + 1])
        BY <4>1, <1>5
      <4>3. IsData(h)
        BY <4>2, <1>1, <1>4 DEF Control
      <4>4. h.part \in 1 .. h.of /\ h.of \in Nat /\ h.msg \in Nat
        BY <4>3, <1>1 DEF IsData, Pieces
      <4> QED
        BY <4>4, <3>2, <1>1
    <3>4. /\ Fragments(h.msg, n + 1) \in Seq(Pieces)
          /\ Len(Fragments(h.msg, n + 1)) = n + 1
          /\ \A i \in 1 .. n + 1 : Fragments(h.msg, n + 1)[i] = Data(h.msg, i, n + 1)
      <4>1. n + 1 \in Nat \ {0}
        BY <1>1
      <4> QED
        BY <4>1, <3>3, FragmentsLinked
    <3>5. got = Fragments(h.msg, n + 1)
      BY <3>3, <3>4, <2>2, <1>2, SeqEqual
    <3> QED
      BY <3>2, <3>5, <1>2 DEF Complete
  <2> QED
    BY <2>1, <2>2, <1>3
<1> QED
  BY <1>7, <1>8, <1>9, <1>10 DEF got, h, r

\* Frames queued behind what is collected and queued.
LEMMA Behind ==
  ASSUME NEW rx \in Seq(Pieces), NEW q \in Seq(Pieces), NEW f \in Seq(Pieces)
  PROVE  (rx \o q) \o f = rx \o (q \o f)
<1>1. \A S : \A a, b, c \in Seq(S) : (a \o b) \o c = a \o (b \o c)
  BY ConcatAssociative, Zenon
<1> QED
  BY <1>1

\* A control frame alone is linked.
LEMMA ControlLinked ==
  /\ <<Control>> \in Seq(Pieces)
  /\ \A holes : Linked(<<Control>>, holes)
BY DEF Linked, Control, Pieces

-----------------------------------------------------------------------------
(* Types.                                                                  *)

\* What flush_slot() leaves in one slot is a slot.
LEMMA SlotOperations ==
  ASSUME NEW t \in SlotType
  PROVE  /\ EmptySlot \in SlotType
         /\ t.queue # <<>> => Written(t) \in SlotType /\ WriteFailed(t) \in SlotType
         /\ Heard(t) \in SlotType
         /\ \A di \in BOOLEAN : HeardWell(t, di) \in SlotType
<1>1. EmptySlot \in SlotType
  BY EmptySeq DEF EmptySlot, SlotType
<1>2. t.queue # <<>> => Tail(t.queue) \in Seq(Pieces)
  BY HeadTailProperties DEF SlotType
<1> QED
  BY <1>1, <1>2 DEF Written, WriteFailed, Heard, HeardWell, SlotType

\* A flush keeps the types of everything it touches.
LEMMA FlushTypes ==
  ASSUME TypeOK, NEW s \in Slots, NEW t \in SlotType
  PROVE  /\ FlushOk(s, t) => /\ slot' \in [Slots -> SlotType]
                             /\ camRx' \in [Slots -> Seq(Pieces)]
                             /\ camGot' \in [Slots -> Seq(Pieces)]
                             /\ camOwes' \in [Slots -> BOOLEAN]
                             /\ UNCHANGED <<camTx, answered, reply>>
         /\ FlushFails(s, t) => /\ slot' \in [Slots -> SlotType]
                                /\ resetOwed' \in [Slots -> BOOLEAN]
                                /\ UNCHANGED <<holed, camVars>>
<1>1. ASSUME FlushOk(s, t), CanWrite(t),
             slot' = [slot EXCEPT ![s] = Written(t)], CamTakes(s, Head(t.queue))
      PROVE  /\ slot' \in [Slots -> SlotType]
             /\ camRx' \in [Slots -> Seq(Pieces)]
             /\ camGot' \in [Slots -> Seq(Pieces)]
             /\ camOwes' \in [Slots -> BOOLEAN]
             /\ UNCHANGED <<camTx, answered, reply>>
  <2>1. Head(t.queue) \in Pieces /\ t.queue # <<>>
    BY <1>1, HeadTailProperties DEF SlotType, CanWrite
  <2>2. Append(camRx[s], Head(t.queue)) \in Seq(Pieces)
    BY <2>1, AppendProperties DEF TypeOK
  <2>3. /\ camRx' \in [Slots -> Seq(Pieces)]
        /\ camGot' \in [Slots -> Seq(Pieces)]
    <3>1. Head(t.queue).tag \in {"Control", "DataMore", "DataLast"}
      BY <2>1 DEF Pieces
    <3>2. CASE Head(t.queue).tag = "Control"
      BY <3>2, <1>1 DEF CamTakes, TypeOK
    <3>3. CASE Head(t.queue).tag = "DataMore"
      BY <3>3, <2>2, <1>1 DEF CamTakes, TypeOK
    <3>4. CASE Head(t.queue).tag = "DataLast"
      <4>1. /\ camGot' = [camGot EXCEPT ![s] = Append(camRx[s], Head(t.queue))]
            /\ camRx' = [camRx EXCEPT ![s] = <<>>]
        BY <3>4, <1>1 DEF CamTakes
      <4>2. <<>> \in Seq(Pieces)
        BY EmptySeq
      <4> QED
        BY <4>1, <4>2, <2>2 DEF TypeOK
    <3> QED
      BY <3>1, <3>2, <3>3, <3>4
  <2>4. slot' \in [Slots -> SlotType]
    BY <2>1, <1>1, SlotOperations DEF TypeOK
  <2> QED
    BY <2>3, <2>4, <1>1 DEF CamTakes, TypeOK
<1>2. ASSUME FlushFails(s, t)
      PROVE  /\ slot' \in [Slots -> SlotType]
             /\ resetOwed' \in [Slots -> BOOLEAN]
             /\ UNCHANGED <<holed, camVars>>
  BY <1>2, SlotOperations DEF FlushFails, CanWrite, TypeOK
<1> QED
  BY <1>1, <1>2 DEF FlushOk, TypeOK, camVars

\* A slot with some of the frames queued is a slot.
LEMMA QueuedSlot ==
  ASSUME TypeOK, NEW s \in Slots, NEW f \in Seq(Pieces), NEW i \in 1 .. Len(f)
  PROVE  Queued(s, f, i) \in SlotType
<1>1. SubSeq(f, 1, i) \in Seq(Pieces)
  <2>1. \A j \in 1 .. i : f[j] \in Pieces
    BY ElementOfSeq, LenProperties
  <2> QED
    BY <2>1, SubSeqProperties
<1>2. slot[s] \in SlotType
  BY DEF TypeOK
<1>3. slot[s].queue \o SubSeq(f, 1, i) \in Seq(Pieces)
  BY <1>1, <1>2, ConcatProperties DEF SlotType
<1> QED
  BY <1>2, <1>3 DEF Queued, SlotType

\* Sending a chain of frames keeps the types.
LEMMA SendTypes ==
  ASSUME TypeOK, NEW s \in Slots, NEW f \in Seq(Pieces), f # <<>>,
         SendFrames(s, f)
  PROVE  /\ slot' \in [Slots -> SlotType]
         /\ resetOwed' \in [Slots -> BOOLEAN]
         /\ camRx' \in [Slots -> Seq(Pieces)]
         /\ camGot' \in [Slots -> Seq(Pieces)]
         /\ camOwes' \in [Slots -> BOOLEAN]
         /\ UNCHANGED <<holed, camTx, answered, reply>>
<1>1. \A i \in 1 .. Len(f) : Queued(s, f, i) \in SlotType
  BY QueuedSlot
<1>2. Len(f) \in 1 .. Len(f)
  BY EmptySeq, LenProperties
<1> QED
  BY <1>1, <1>2, FlushTypes DEF SendFrames, TypeOK, camVars

\* What a swallowed short write leaves: the slot with the head dropped.
LEMMA SwallowedTypes ==
  ASSUME TypeOK, NEW s \in Slots, NEW m \in Nat, NEW k \in Nat \ {0},
         SendSwallowed(s, m, k)
  PROVE  /\ \E i \in 1 .. k :
              LET t == Queued(s, Fragments(m, k), i)
              IN /\ t \in SlotType /\ CanWrite(t)
                 /\ Head(t.queue) \in Pieces
                 /\ slot' = [slot EXCEPT ![s] = WriteFailed(t)]
         /\ slot' \in [Slots -> SlotType]
         /\ holed' \in [Slots -> SUBSET Nat]
         /\ UNCHANGED <<resetOwed, camVars>>
<1>1. Fragments(m, k) \in Seq(Pieces) /\ Len(Fragments(m, k)) = k
  BY FragmentsLinked
<1>2. PICK i \in 1 .. k :
         LET t == Queued(s, Fragments(m, k), i)
             dropped == {Head(t.queue)} \ {Control}
         IN /\ CanWrite(t)
            /\ slot' = [slot EXCEPT ![s] = WriteFailed(t)]
            /\ holed' = [holed EXCEPT ![s] = @ \cup {x.msg : x \in dropped}
                                              \cup {m : j \in i + 1 .. k}]
            /\ UNCHANGED <<resetOwed, camVars>>
  BY DEF SendSwallowed
<1> DEFINE t == Queued(s, Fragments(m, k), i)
<1>3. t \in SlotType
  BY <1>1, QueuedSlot
<1> HIDE DEF t
<1>4. Head(t.queue) \in Pieces /\ CanWrite(t)
  BY <1>2, <1>3, HeadTailProperties DEF SlotType, CanWrite, t
<1>5. WriteFailed(t) \in SlotType
  BY <1>3, <1>4, SlotOperations DEF CanWrite
<1>6. slot' = [slot EXCEPT ![s] = WriteFailed(t)]
  BY <1>2 DEF t
<1>7. slot' \in [Slots -> SlotType]
  BY <1>5, <1>6 DEF TypeOK
<1>8. Head(t.queue).msg \in Nat
  BY <1>4 DEF Pieces
<1>9. holed' \in [Slots -> SUBSET Nat]
  <2>1. /\ {x.msg : x \in {Head(t.queue)} \ {Control}} \in SUBSET Nat
        /\ {m : j \in i + 1 .. k} \in SUBSET Nat
    BY <1>8
  <2> QED
    BY <2>1, <1>2 DEF TypeOK, t
<1> QED
  BY <1>2, <1>3, <1>4, <1>6, <1>7, <1>9 DEF t

\* The pieces the module sends, and its answers, have their types.
LEMMA AnswerTypes ==
  ASSUME TypeOK, NEW s \in Slots, AnswerStatus(s) \/ AnswerData(s)
  PROVE  TypeOK'
<1>1. ASSUME NEW f \in Replies, Answer(s, f),
             camTx' \in [Slots -> TxPieces \cup {None}],
             answered' \in [Slots -> Nat]
      PROVE  TypeOK'
  <2>1. \A tag \in {f.tag, "Damaged"} : [f EXCEPT !.tag = tag] \in Replies
    BY DEF Replies
  <2> QED
    BY <1>1, <2>1 DEF Answer, TypeOK, hostVars
<1>2. CASE AnswerStatus(s)
  <2>1. \A tag \in {"Sb", "CtcReply", "Unexpected"}, di \in BOOLEAN :
           Frame(tag, <<>>, di) \in Replies
    BY EmptySeq DEF Frame, Replies
  <2> QED
    BY <1>1, <1>2, <2>1 DEF AnswerStatus, TypeOK
<1>3. CASE AnswerData(s)
  <2>1. PICK tx \in (IF camTx[s] = None /\ answered[s] < MaxAnswered
                     THEN [msg : {answered[s] + 1}, part : {1}, of : 1 .. MaxPieces]
                     ELSE {camTx[s]} \ {None}) :
           LET ended == tx.part > tx.of
               body == IF ended THEN <<>> ELSE <<tx>>
               next == [tx EXCEPT !.part = @ + 1]
           IN /\ answered' = [answered EXCEPT ![s] = tx.msg]
              /\ \/ /\ tx.part >= tx.of
                    /\ Answer(s, Frame("DataLast", body, FALSE))
                    /\ camTx' = [camTx EXCEPT ![s] = None]
                 \/ /\ ~ended
                    /\ Answer(s, Frame("DataMore", body, TRUE))
                    /\ camTx' = [camTx EXCEPT ![s] = next]
    BY <1>3 DEF AnswerData
  <2>2. tx \in TxPieces
    BY BoundAssumption DEF TxPieces, TypeOK
  <2>3. [tx EXCEPT !.part = @ + 1] \in TxPieces
    BY <2>2 DEF TxPieces
  <2> DEFINE body == IF tx.part > tx.of THEN <<>> ELSE <<tx>>
  <2>4. body \in Seq(TxPieces)
    BY <2>2, EmptySeq
  <2> HIDE DEF body
  <2>5. \A tag \in {"DataLast", "DataMore"}, di \in BOOLEAN :
            Frame(tag, body, di) \in Replies
    BY <2>4 DEF Frame, Replies
  <2>6. answered' \in [Slots -> Nat]
    BY <2>1, <2>2 DEF TxPieces, TypeOK
  <2>7. camTx' \in [Slots -> TxPieces \cup {None}]
    BY <2>1, <2>3 DEF TypeOK
  <2>8. \/ Answer(s, Frame("DataLast", body, FALSE))
        \/ Answer(s, Frame("DataMore", body, TRUE))
    BY <2>1 DEF body
  <2> QED
    BY <1>1, <2>5, <2>6, <2>7, <2>8
<1> QED
  BY <1>2, <1>3

\* What recv_apdu() leaves and returns has its type.
LEMMA RecvTypes ==
  ASSUME TypeOK, NEW s \in Slots, Recv(s)
  PROVE  TypeOK'
<1> DEFINE t == slot[s]
           f == reply[s]
<1>1. t \in SlotType /\ f \in Replies
  BY DEF Recv, TypeOK
<1>2. /\ t.rx \in Seq(TxPieces) /\ f.body \in Seq(TxPieces) /\ f.di \in BOOLEAN
      /\ f.tag \in {"Sb", "CtcReply", "Unexpected", "DataMore", "DataLast", "Damaged"}
  BY <1>1 DEF SlotType, Replies
<1>3. /\ Heard(t) \in SlotType
      /\ HeardWell(t, f.di) \in SlotType
      /\ [HeardWell(t, f.di) EXCEPT !.rx = <<>>] \in SlotType
      /\ [HeardWell(t, f.di) EXCEPT !.rx = Reassembled(t, f.body)] \in SlotType
  <2>1. Reassembled(t, f.body) \in Seq(TxPieces) /\ <<>> \in Seq(TxPieces)
    BY <1>2, ConcatProperties, EmptySeq DEF Reassembled
  <2>2. Heard(t) \in SlotType /\ HeardWell(t, f.di) \in SlotType
    BY <1>1, <1>2, SlotOperations
  <2> QED
    BY <2>1, <2>2 DEF SlotType
<1>4. /\ Status(s) \in Results /\ TcReply(s) \in Results /\ MalformedFrame(s) \in Results
      /\ Spdu(s, Reassembled(t, f.body)) \in Results
  <2>1. Reassembled(t, f.body) \in Seq(TxPieces)
    BY <1>2, ConcatProperties DEF Reassembled
  <2>2. reported[s] \in BOOLEAN
    BY DEF TypeOK
  <2> QED
    BY <2>1, <2>2 DEF Results, Status, TcReply, MalformedFrame, Spdu
<1>5. \E u \in SlotType, result \in Results : Return(s, u, result)
  <2> HIDE DEF t, f
  <2>1. CASE RecvDamaged(s, t, f)
    BY <2>1, <1>3, <1>4 DEF RecvDamaged
  <2>2. CASE RecvControl(s, t, f)
    BY <2>2, <1>3, <1>4 DEF RecvControl
  <2>3. CASE RecvData(s, t, f)
    BY <2>3, <1>3, <1>4 DEF RecvData
  <2> QED
    BY <2>1, <2>2, <2>3 DEF Recv, t, f
<1>6. /\ slot' \in [Slots -> SlotType] /\ received' \in Results
      /\ reported' \in [Slots -> BOOLEAN]
  <2>1. PICK u \in SlotType, result \in Results : Return(s, u, result)
    BY <1>5
  <2>2. slot' = [slot EXCEPT ![s] = u] /\ received' = result
    BY <2>1 DEF Return
  <2>3. \E b \in BOOLEAN : reported' = [reported EXCEPT ![s] = b]
    BY <2>1 DEF Return, TypeOK
  <2> QED
    BY <2>2, <2>3 DEF TypeOK
<1>7. reply' \in [Slots -> Replies \cup {None}]
  BY DEF Recv, TypeOK
<1> QED
  BY <1>6, <1>7 DEF Recv, TypeOK

\* Every variable keeps its type.
THEOREM TransportTypes == Spec => []TypeOK
<1>1. Init => TypeOK
  <2>1. EmptySlot \in SlotType
    BY EmptySeq DEF EmptySlot, SlotType
  <2> QED
    BY <2>1, EmptySeq DEF Init, TypeOK
<1>2. TypeOK /\ [Next]_vars => TypeOK'
  <2> SUFFICES ASSUME TypeOK, [Next]_vars
               PROVE  TypeOK'
    OBVIOUS
  <2>1. ASSUME NEW s \in Slots, NEW k \in 1 .. MaxParts, SendSpdu(s, k)
        PROVE  TypeOK'
    <3>1. sent[s] + 1 \in Nat /\ k \in Nat \ {0}
      BY BoundAssumption DEF TypeOK
    <3>2. Fragments(sent[s] + 1, k) \in Seq(Pieces) /\ Fragments(sent[s] + 1, k) # <<>>
      BY <3>1, FragmentsLinked, EmptySeq
    <3>3. sent' \in [Slots -> Nat]
      BY <2>1, <3>1 DEF SendSpdu, TypeOK
    <3>4. CASE SendFrames(s, Fragments(sent[s] + 1, k))
      BY <2>1, <3>2, <3>3, <3>4, SendTypes DEF SendSpdu, TypeOK
    <3>5. CASE SendSwallowed(s, sent[s] + 1, k)
      BY <2>1, <3>1, <3>3, <3>5, SwallowedTypes DEF SendSpdu, TypeOK, camVars
    <3> QED
      BY <2>1, <3>4, <3>5 DEF SendSpdu
  <2>2. ASSUME NEW s \in Slots, SendControl(s)
        PROVE  TypeOK'
    BY <2>2, ControlLinked, EmptySeq, SendTypes DEF SendControl, TypeOK
  <2>3. ASSUME NEW s \in Slots, Flush(s)
        PROVE  TypeOK'
    <3>1. slot[s] \in SlotType
      BY DEF TypeOK
    <3> QED
      BY <2>3, <3>1, FlushTypes DEF Flush, TypeOK, camVars
  <2>4. ASSUME NEW s \in Slots, ClearSlot(s)
        PROVE  TypeOK'
    <3>1. EmptySlot \in SlotType /\ <<>> \in Seq(Pieces)
      BY EmptySeq DEF EmptySlot, SlotType
    <3> QED
      BY <2>4, <3>1 DEF ClearSlot, TypeOK
  <2>5. ASSUME NEW s \in Slots, TakeDataPending(s)
        PROVE  TypeOK'
    <3>1. [slot[s] EXCEPT !.dataPending = FALSE] \in SlotType
      BY DEF TypeOK, SlotType
    <3>2. slot' \in [Slots -> SlotType]
      BY <2>5, <3>1 DEF TakeDataPending, TypeOK
    <3> QED
      BY <2>5, <3>2 DEF TakeDataPending, TypeOK, camVars
  <2>6. ASSUME NEW s \in Slots, AnswerStatus(s) \/ AnswerData(s)
        PROVE  TypeOK'
    BY <2>6, AnswerTypes
  <2>7. ASSUME NEW s \in Slots, Recv(s)
        PROVE  TypeOK'
    BY <2>7, RecvTypes
  <2>8. CASE UNCHANGED vars
    BY <2>8 DEF vars, hostVars, camVars, TypeOK
  <2> QED
    BY <2>1, <2>2, <2>3, <2>4, <2>5, <2>6, <2>7, <2>8 DEF Next
<1> QED
  BY <1>1, <1>2, PTL DEF Spec

-----------------------------------------------------------------------------
(* The wire.                                                               *)

WireInv == ChainIntact /\ CamGotWhole

\* The slot s of the wire.
LinkedSlot(s) == /\ Linked(camRx[s] \o slot[s].queue, holed[s])
                 /\ Begun(camRx[s], holed[s])

\* The invariant of every other slot stays.
LEMMA OneSlotWire ==
  ASSUME TypeOK, WireInv, NEW s \in Slots,
         ~resetOwed'[s] => LinkedSlot(s)',
         Complete(camGot'[s], holed'[s]),
         \A u \in Slots \ {s} :
            /\ slot'[u].queue = slot[u].queue /\ camRx'[u] = camRx[u]
            /\ camGot'[u] = camGot[u] /\ holed'[u] = holed[u]
            /\ resetOwed'[u] = resetOwed[u]
  PROVE  WireInv'
BY DEF WireInv, ChainIntact, CamGotWhole, LinkedSlot, Complete

\* A flush of a slot whose queue is linked leaves one, and completes at most
\* a whole SPDU or one with a hole.
LEMMA FlushWire ==
  ASSUME TypeOK, WireInv, NEW s \in Slots, NEW t \in SlotType,
         Linked(camRx[s] \o t.queue, holed[s]), ~resetOwed[s],
         \/ FlushOk(s, t) /\ UNCHANGED <<resetOwed, holed>>
         \/ FlushFails(s, t)
  PROVE  WireInv'
<1> DEFINE h == Head(t.queue)
<1>1. /\ t.queue \in Seq(Pieces) /\ camRx[s] \in Seq(Pieces)
      /\ Begun(camRx[s], holed[s]) /\ Complete(camGot[s], holed[s])
  BY DEF TypeOK, SlotType, WireInv, ChainIntact, CamGotWhole, Complete
<1>2. ASSUME CanWrite(t), slot' = [slot EXCEPT ![s] = Written(t)],
             CamTakes(s, h), UNCHANGED <<resetOwed, holed>>
      PROVE  WireInv'
  <2>1. t.queue # <<>> /\ h \in Pieces
    BY <1>1, <1>2, HeadTailProperties DEF CanWrite
  <2>2. h.tag \in {"Control", "DataMore", "DataLast"}
    BY <2>1 DEF Pieces
  <2>3. slot'[s].queue = Tail(t.queue)
    BY <1>2 DEF Written, SlotType, TypeOK
  <2>4. \A u \in Slots \ {s} :
            /\ slot'[u].queue = slot[u].queue /\ camRx'[u] = camRx[u]
            /\ camGot'[u] = camGot[u]
    <3>1. \A u \in Slots \ {s} : slot'[u] = slot[u]
      BY <1>2 DEF TypeOK
    <3>2. \A u \in Slots \ {s} : camRx'[u] = camRx[u] /\ camGot'[u] = camGot[u]
      BY <1>2, <2>2 DEF CamTakes, TypeOK
    <3> QED
      BY <3>1, <3>2
  <2> HIDE DEF h
  <2>5. CASE h.tag = "Control"
    <3>1. camRx' = camRx /\ camGot' = camGot
      BY <2>5, <1>2 DEF CamTakes
    <3>2. /\ Linked(camRx[s] \o Tail(t.queue), holed[s])
          /\ Begun(camRx[s], holed[s])
      BY <2>1, <2>5, <1>1, RemoveLinked DEF h
    <3> QED
      BY <3>1, <3>2, <2>3, <2>4, <1>1, <1>2, OneSlotWire DEF LinkedSlot
  <2>6. CASE h.tag = "DataMore"
    <3>1. camRx'[s] = Append(camRx[s], h) /\ camGot' = camGot
      BY <2>6, <1>2 DEF CamTakes, TypeOK
    <3>2. /\ Linked(Append(camRx[s], h) \o Tail(t.queue), holed[s])
          /\ Begun(Append(camRx[s], h), holed[s])
      BY <2>1, <2>6, <1>1, TakeMore DEF h
    <3> QED
      BY <3>1, <3>2, <2>3, <2>4, <1>1, <1>2, OneSlotWire DEF LinkedSlot
  <2>7. CASE h.tag = "DataLast"
    <3>1. camRx'[s] = <<>> /\ camGot'[s] = Append(camRx[s], h)
      BY <2>7, <1>2 DEF CamTakes, TypeOK
    <3>2. /\ Linked(<<>> \o Tail(t.queue), holed[s]) /\ Begun(<<>>, holed[s])
          /\ Complete(Append(camRx[s], h), holed[s])
      BY <2>1, <2>7, <1>1, TakeLast DEF h
    <3> QED
      BY <3>1, <3>2, <2>3, <2>4, <1>2, OneSlotWire DEF LinkedSlot
  <2> QED
    BY <2>2, <2>5, <2>6, <2>7
<1>3. ASSUME slot' = [slot EXCEPT ![s] = t], UNCHANGED camVars,
             UNCHANGED <<resetOwed, holed>>
      PROVE  WireInv'
  <2>1. slot'[s] = t /\ \A u \in Slots \ {s} : slot'[u] = slot[u]
    BY <1>3 DEF TypeOK
  <2> QED
    BY <2>1, <1>1, <1>3, OneSlotWire DEF LinkedSlot, camVars
<1>4. CASE FlushFails(s, t)
  <2>1. resetOwed'[s] /\ \A u \in Slots \ {s} : /\ slot'[u] = slot[u]
                                               /\ resetOwed'[u] = resetOwed[u]
    BY <1>4 DEF FlushFails, TypeOK
  <2> QED
    BY <2>1, <1>1, <1>4, OneSlotWire DEF FlushFails, camVars
<1> QED
  BY <1>2, <1>3, <1>4 DEF FlushOk, h

\* An SPDU behind a linked queue: enough to know for the whole SPDU, since a
\* failed write that is not swallowed owes the slot a reset.
LEMMA SendWire ==
  ASSUME TypeOK, WireInv, NEW s \in Slots, ~resetOwed[s],
         NEW f \in Seq(Pieces), f # <<>>, Linked(f, holed[s]), SendFrames(s, f)
  PROVE  WireInv'
<1>1. CASE \E i \in 1 .. Len(f) : FlushFails(s, Queued(s, f, i))
  <2>1. /\ resetOwed'[s] /\ UNCHANGED <<holed, camVars>>
        /\ \A u \in Slots \ {s} : /\ slot'[u] = slot[u]
                                   /\ resetOwed'[u] = resetOwed[u]
    BY <1>1 DEF FlushFails, TypeOK
  <2>2. Complete(camGot[s], holed[s])
    BY DEF WireInv, CamGotWhole, Complete
  <2> QED
    BY <2>1, <2>2, OneSlotWire DEF camVars
<1>2. CASE /\ FlushOk(s, Queued(s, f, Len(f)))
           /\ UNCHANGED <<resetOwed, holed>>
  <2>1. slot[s] \in SlotType /\ camRx[s] \in Seq(Pieces)
    BY DEF TypeOK
  <2>2. slot[s].queue \in Seq(Pieces) /\ slot[s].queue \o f \in Seq(Pieces)
    BY <2>1, ConcatProperties DEF SlotType
  <2>3. Linked(camRx[s] \o (slot[s].queue \o f), holed[s])
    <3>1. Linked(camRx[s] \o slot[s].queue, holed[s])
      BY DEF WireInv, ChainIntact
    <3>2. camRx[s] \o slot[s].queue \in Seq(Pieces)
      BY <2>1, <2>2, ConcatProperties
    <3>3. Linked((camRx[s] \o slot[s].queue) \o f, holed[s])
      BY <3>1, <3>2, ConcatLinked
    <3>4. (camRx[s] \o slot[s].queue) \o f = camRx[s] \o (slot[s].queue \o f)
      BY <2>1, <2>2, Behind
    <3> QED
      BY <3>3, <3>4
  <2>4. Queued(s, f, Len(f)) = [slot[s] EXCEPT !.queue = slot[s].queue \o f]
    BY SubSeqFull DEF Queued
  <2>5. /\ Queued(s, f, Len(f)) \in SlotType
        /\ Queued(s, f, Len(f)).queue = slot[s].queue \o f
    BY <2>1, <2>2, <2>4 DEF SlotType
  <2> QED
    BY <1>2, <2>3, <2>5, FlushWire
<1> QED
  BY <1>1, <1>2 DEF SendFrames

\* An SPDU whose sending met a swallowed short write: what is queued of it is
\* linked but for itself, and the rest but for the SPDU of the dropped frame.
LEMMA SwallowedWire ==
  ASSUME TypeOK, WireInv, NEW s \in Slots, ~resetOwed[s],
         NEW m \in Nat, NEW k \in Nat \ {0}, SendSwallowed(s, m, k)
  PROVE  WireInv'
<1> DEFINE f == Fragments(m, k)
<1>1. PICK i \in 1 .. k :
         LET t == Queued(s, f, i)
             dropped == {Head(t.queue)} \ {Control}
         IN /\ CanWrite(t)
            /\ slot' = [slot EXCEPT ![s] = WriteFailed(t)]
            /\ holed' = [holed EXCEPT ![s] = @ \cup {x.msg : x \in dropped}
                                              \cup {m : j \in i + 1 .. k}]
            /\ UNCHANGED <<resetOwed, camVars>>
  BY DEF SendSwallowed
<1> DEFINE p == SubSeq(f, 1, i)
           t == Queued(s, f, i)
           h == Head(t.queue)
           G == holed[s] \cup {m : j \in i + 1 .. k}
           H == holed'[s]
<1>2. slot[s] \in SlotType /\ camRx[s] \in Seq(Pieces) /\ slot[s].queue \in Seq(Pieces)
  BY DEF TypeOK, SlotType
<1>3. p \in Seq(Pieces) /\ Linked(p, G)
  <2>1. i = k \/ m \in G
    <3>1. i # k => i + 1 \in i + 1 .. k
      OBVIOUS
    <3> QED
      BY <3>1
  <2> HIDE DEF G
  <2> QED
    BY <2>1, PrefixLinked
<1>4. t \in SlotType /\ t.queue = slot[s].queue \o p
  <2>1. f \in Seq(Pieces) /\ Len(f) = k
    BY FragmentsLinked
  <2>2. t \in SlotType
    BY <2>1, QueuedSlot
  <2> QED
    BY <2>2, <1>2 DEF Queued, SlotType
<1>5. H = G \cup {x.msg : x \in {h} \ {Control}}
  BY <1>1 DEF TypeOK
<1>6. CanWrite(t) /\ slot' = [slot EXCEPT ![s] = WriteFailed(t)]
  BY <1>1
<1> HIDE DEF p, t
<1>7. t.queue \in Seq(Pieces) /\ t.queue # <<>> /\ h \in Pieces
  BY <1>4, <1>6, HeadTailProperties DEF SlotType, CanWrite
<1>8. Linked(camRx[s] \o t.queue, G) /\ Begun(camRx[s], G)
  <2>1. Linked(camRx[s] \o slot[s].queue, holed[s]) /\ Begun(camRx[s], holed[s])
    BY DEF WireInv, ChainIntact
  <2>2. holed[s] \subseteq G
    OBVIOUS
  <2> HIDE DEF G
  <2>3. Linked(camRx[s] \o slot[s].queue, G) /\ Begun(camRx[s], G)
    BY <2>1, <2>2, MoreHoles
  <2>4. camRx[s] \o slot[s].queue \in Seq(Pieces)
    BY <1>2, ConcatProperties
  <2>5. Linked((camRx[s] \o slot[s].queue) \o p, G)
    BY <2>3, <2>4, <1>3, ConcatLinked
  <2>6. (camRx[s] \o slot[s].queue) \o p = camRx[s] \o (slot[s].queue \o p)
    BY <1>2, <1>3, Behind
  <2> QED
    BY <2>3, <2>5, <2>6, <1>4
<1>9. /\ G \subseteq H
      /\ h.tag = "Control" \/ h.msg \in H
  BY <1>5 DEF Control
<1> HIDE DEF G, h, H
<1>10. Linked(camRx[s] \o Tail(t.queue), H) /\ Begun(camRx[s], H)
  BY <1>2, <1>7, <1>8, <1>9, RemoveLinked DEF h
<1>11. /\ slot'[s].queue = Tail(t.queue)
       /\ \A u \in Slots \ {s} : slot'[u] = slot[u] /\ holed'[u] = holed[u]
  <2>1. slot'[s].queue = Tail(t.queue) /\ \A u \in Slots \ {s} : slot'[u] = slot[u]
    BY <1>4, <1>6 DEF TypeOK, WriteFailed, SlotType
  <2>2. \A u \in Slots \ {s} : holed'[u] = holed[u]
    BY <1>1 DEF TypeOK
  <2> QED
    BY <2>1, <2>2
<1>12. holed[s] \subseteq H /\ UNCHANGED <<resetOwed, camRx, camGot>>
  BY <1>1, <1>5 DEF G, camVars
<1>13. Complete(camGot[s], H)
  BY <1>12 DEF WireInv, CamGotWhole, Complete
<1> QED
  BY <1>10, <1>11, <1>12, <1>13, OneSlotWire DEF LinkedSlot, H

\* Receiving, answering and taking the data indicator leave the queues and
\* what the module collects alone.
LEMMA QueueStays ==
  ASSUME TypeOK, NEW s \in Slots,
         TakeDataPending(s) \/ AnswerStatus(s) \/ AnswerData(s) \/ Recv(s)
  PROVE  /\ \A u \in Slots : slot'[u].queue = slot[u].queue
         /\ UNCHANGED <<resetOwed, holed, camRx, camGot>>
<1>1. CASE TakeDataPending(s)
  BY <1>1 DEF TakeDataPending, camVars, TypeOK, SlotType
<1>2. CASE AnswerStatus(s) \/ AnswerData(s)
  BY <1>2 DEF AnswerStatus, AnswerData, Answer, hostVars
<1>3. CASE Recv(s)
  <2>1. slot[s] \in SlotType
    BY DEF TypeOK
  <2>2. PICK t, result : Return(s, t, result) /\ t.queue = slot[s].queue
    <3> DEFINE w == HeardWell(slot[s], reply[s].di)
    <3>1. /\ Heard(slot[s]).queue = slot[s].queue
          /\ w.queue = slot[s].queue
          /\ \A buffer : [w EXCEPT !.rx = buffer].queue = slot[s].queue
      BY <2>1 DEF Heard, HeardWell, SlotType
    <3> HIDE DEF w
    <3>2. CASE RecvDamaged(s, slot[s], reply[s])
      BY <3>1, <3>2 DEF RecvDamaged
    <3>3. CASE RecvControl(s, slot[s], reply[s])
      BY <3>1, <3>3 DEF RecvControl, w
    <3>4. CASE RecvData(s, slot[s], reply[s])
      BY <3>1, <3>4 DEF RecvData, w
    <3> QED
      BY <1>3, <3>2, <3>3, <3>4 DEF Recv
  <2>3. \A u \in Slots : slot'[u].queue = slot[u].queue
    BY <2>2 DEF Return, TypeOK
  <2> QED
    BY <1>3, <2>3 DEF Recv
<1> QED
  BY <1>1, <1>2, <1>3

\* Every SPDU the module puts together is one SPDU of the host, whole and in
\* order, whatever the link does: a refused write keeps its frame, after a
\* failed write nothing is written until the slot is reset, and a short write
\* that a resource's callback swallows damages the SPDU of the dropped frame,
\* the callback's own and the one whose last piece ends either of them.
THEOREM WireIntact == Spec => [](ChainIntact /\ CamGotWhole)
<1>1. Init => WireInv
  <2>1. /\ <<>> \o <<>> = <<>>
        /\ Linked(<<>>, {}) /\ Begun(<<>>, {})
    <3>1. Len(<<>>) = 0
      BY EmptySeq
    <3>2. <<>> \o <<>> = <<>>
      BY EmptySeq, ConcatEmptySeq
    <3> QED
      BY <3>1, <3>2 DEF Linked, Begun
  <2> QED
    BY <2>1 DEF Init, WireInv, ChainIntact, CamGotWhole, EmptySlot
<1>2. TypeOK /\ WireInv /\ [Next]_vars => WireInv'
  <2> SUFFICES ASSUME TypeOK, WireInv, [Next]_vars
               PROVE  WireInv'
    OBVIOUS
  <2>1. ASSUME NEW s \in Slots, NEW k \in 1 .. MaxParts, SendSpdu(s, k)
        PROVE  WireInv'
    <3>1. sent[s] + 1 \in Nat /\ k \in Nat \ {0} /\ ~resetOwed[s]
      BY <2>1, BoundAssumption DEF TypeOK, SendSpdu
    <3>2. CASE SendFrames(s, Fragments(sent[s] + 1, k))
      <4>1. /\ Fragments(sent[s] + 1, k) \in Seq(Pieces)
            /\ Fragments(sent[s] + 1, k) # <<>>
            /\ Linked(Fragments(sent[s] + 1, k), holed[s])
        BY <3>1, FragmentsLinked, EmptySeq
      <4> QED
        BY <3>1, <3>2, <4>1, SendWire
    <3>3. CASE SendSwallowed(s, sent[s] + 1, k)
      BY <3>1, <3>3, SwallowedWire
    <3> QED
      BY <2>1, <3>2, <3>3 DEF SendSpdu
  <2>2. ASSUME NEW s \in Slots, SendControl(s)
        PROVE  WireInv'
    BY <2>2, ControlLinked, EmptySeq, SendWire DEF SendControl
  <2>3. ASSUME NEW s \in Slots, Flush(s)
        PROVE  WireInv'
    <3>1. slot[s] \in SlotType /\ Linked(camRx[s] \o slot[s].queue, holed[s])
      BY <2>3 DEF TypeOK, Flush, WireInv, ChainIntact
    <3> QED
      BY <2>3, <3>1, FlushWire DEF Flush
  <2>4. ASSUME NEW s \in Slots, ClearSlot(s)
        PROVE  WireInv'
    <3>1. Linked(<<>> \o <<>>, holed[s]) /\ Begun(<<>>, holed[s])
      <4>1. <<>> \o <<>> = <<>> /\ Len(<<>>) = 0
        BY EmptySeq, ConcatEmptySeq
      <4> QED
        BY <4>1 DEF Linked, Begun
    <3>2. slot'[s].queue = <<>> /\ camRx'[s] = <<>> /\ UNCHANGED <<camGot, holed>>
      BY <2>4 DEF ClearSlot, EmptySlot, TypeOK
    <3>3. \A u \in Slots \ {s} : /\ slot'[u] = slot[u] /\ camRx'[u] = camRx[u]
                                 /\ resetOwed'[u] = resetOwed[u]
      BY <2>4 DEF ClearSlot, TypeOK
    <3>4. Complete(camGot[s], holed[s])
      BY DEF WireInv, CamGotWhole, Complete
    <3> QED
      BY <3>1, <3>2, <3>3, <3>4, OneSlotWire DEF LinkedSlot
  <2>5. ASSUME NEW s \in Slots,
               TakeDataPending(s) \/ AnswerStatus(s) \/ AnswerData(s) \/ Recv(s)
        PROVE  WireInv'
    <3>1. /\ \A u \in Slots : slot'[u].queue = slot[u].queue
          /\ UNCHANGED <<resetOwed, holed, camRx, camGot>>
      BY <2>5, QueueStays
    <3> QED
      BY <3>1 DEF WireInv, ChainIntact, CamGotWhole
  <2>6. CASE UNCHANGED vars
    BY <2>6 DEF vars, hostVars, camVars, WireInv, ChainIntact, CamGotWhole
  <2> QED
    BY <2>1, <2>2, <2>3, <2>4, <2>5, <2>6 DEF Next
<1> QED
  BY <1>1, <1>2, TransportTypes, PTL DEF Spec, WireInv

\* The module never has two commands to answer: a slot whose module owes an
\* answer, or whose answer is on the way, is busy.
THEOREM OneCommand == Spec => []CommandResponse
<1>1. Init => CommandResponse
  BY DEF Init, CommandResponse
<1>2. TypeOK /\ CommandResponse /\ [Next]_vars => CommandResponse'
  <2> SUFFICES ASSUME TypeOK, CommandResponse, [Next]_vars
               PROVE  CommandResponse'
    OBVIOUS
  <2>1. ASSUME NEW s \in Slots, NEW t \in SlotType, t.busy = slot[s].busy,
               FlushOk(s, t) \/ FlushFails(s, t)
        PROVE  CommandResponse'
    <3>1. CASE /\ CanWrite(t)
               /\ slot' = [slot EXCEPT ![s] = Written(t)]
               /\ CamTakes(s, Head(t.queue))
      <4>1. slot[s].busy = FALSE
        BY <2>1, <3>1 DEF CanWrite, SlotType
      <4> QED
        BY <2>1, <3>1, <4>1 DEF CamTakes, Written, CommandResponse, TypeOK, SlotType
    <3>2. CASE slot' = [slot EXCEPT ![s] = t] /\ UNCHANGED camVars
      BY <2>1, <3>2 DEF CommandResponse, camVars, TypeOK
    <3>3. CASE FlushFails(s, t)
      BY <2>1, <3>3 DEF FlushFails, WriteFailed, CommandResponse, camVars,
                        TypeOK, SlotType
    <3> QED
      BY <2>1, <3>1, <3>2, <3>3 DEF FlushOk
  <2>2. ASSUME NEW s \in Slots, NEW f \in Seq(Pieces), f # <<>>, SendFrames(s, f)
        PROVE  CommandResponse'
    <3>1. \A i \in 1 .. Len(f) : /\ Queued(s, f, i) \in SlotType
                                 /\ Queued(s, f, i).busy = slot[s].busy
      <4> TAKE i \in 1 .. Len(f)
      <4>1. SubSeq(f, 1, i) \in Seq(Pieces)
        <5>1. \A j \in 1 .. i : f[j] \in Pieces
          BY ElementOfSeq, LenProperties
        <5> QED
          BY <5>1, SubSeqProperties
      <4>2. slot[s] \in SlotType
        BY DEF TypeOK
      <4>3. slot[s].queue \o SubSeq(f, 1, i) \in Seq(Pieces)
        BY <4>1, <4>2, ConcatProperties DEF SlotType
      <4> QED
        BY <4>2, <4>3 DEF Queued, SlotType
    <3>2. Len(f) \in 1 .. Len(f)
      BY <2>2, EmptySeq, LenProperties
    <3> QED
      BY <2>1, <2>2, <3>1, <3>2 DEF SendFrames
  <2>3. ASSUME NEW s \in Slots, NEW k \in 1 .. MaxParts, SendSpdu(s, k)
        PROVE  CommandResponse'
    <3>1. sent[s] + 1 \in Nat /\ k \in Nat \ {0}
      BY BoundAssumption DEF TypeOK
    <3>2. Fragments(sent[s] + 1, k) \in Seq(Pieces) /\ Fragments(sent[s] + 1, k) # <<>>
      BY <3>1, FragmentsLinked, EmptySeq
    <3>3. CASE SendSwallowed(s, sent[s] + 1, k)
      <4>1. PICK i \in 1 .. k :
               LET t == Queued(s, Fragments(sent[s] + 1, k), i)
               IN t \in SlotType /\ slot' = [slot EXCEPT ![s] = WriteFailed(t)]
        BY <3>1, <3>3, SwallowedTypes
      <4>2. slot'[s].busy = slot[s].busy /\ \A u \in Slots \ {s} : slot'[u] = slot[u]
        BY <4>1 DEF WriteFailed, Queued, TypeOK, SlotType
      <4>3. UNCHANGED <<camOwes, reply>>
        BY <3>1, <3>3, SwallowedTypes DEF camVars
      <4> QED
        BY <4>2, <4>3 DEF CommandResponse
    <3> QED
      BY <2>2, <2>3, <3>2, <3>3 DEF SendSpdu
  <2>4. ASSUME NEW s \in Slots, SendControl(s) \/ Flush(s)
        PROVE  CommandResponse'
    <3>1. slot[s] \in SlotType
      BY DEF TypeOK
    <3> QED
      BY <2>1, <2>2, <2>4, <3>1, ControlLinked, EmptySeq DEF SendControl, Flush
  <2>5. ASSUME NEW s \in Slots, ClearSlot(s)
        PROVE  CommandResponse'
    BY <2>5 DEF ClearSlot, CommandResponse, TypeOK
  <2>6. ASSUME NEW s \in Slots, TakeDataPending(s)
        PROVE  CommandResponse'
    BY <2>6 DEF TakeDataPending, camVars, CommandResponse, TypeOK, SlotType
  <2>7. ASSUME NEW s \in Slots, AnswerStatus(s) \/ AnswerData(s)
        PROVE  CommandResponse'
    <3>1. PICK f : Answer(s, f)
      BY <2>7 DEF AnswerStatus, AnswerData
    <3> QED
      BY <3>1 DEF Answer, hostVars, CommandResponse, TypeOK
  <2>8. ASSUME NEW s \in Slots, Recv(s)
        PROVE  CommandResponse'
    <3>1. ~camOwes[s] /\ UNCHANGED camOwes /\ reply' = [reply EXCEPT ![s] = None]
      BY <2>8 DEF Recv, CommandResponse
    <3>2. PICK t, result : Return(s, t, result)
      BY <2>8 DEF Recv, RecvDamaged, RecvControl, RecvData
    <3>3. slot' = [slot EXCEPT ![s] = t]
      BY <3>2 DEF Return
    <3> QED
      BY <3>1, <3>3 DEF CommandResponse, TypeOK
  <2>9. CASE UNCHANGED vars
    BY <2>9 DEF vars, hostVars, camVars, CommandResponse
  <2> QED
    BY <2>3, <2>4, <2>5, <2>6, <2>7, <2>8, <2>9 DEF Next
<1> QED
  BY <1>1, <1>2, TransportTypes, PTL DEF Spec

-----------------------------------------------------------------------------
(* What the module sends.                                                  *)

\* The pieces of an SPDU before tx, followed by tx, are the pieces before the
\* next one; and if tx is the last, they are the SPDU.
LEMMA NextPiece ==
  ASSUME NEW tx \in TxPieces, tx.part \in 1 .. tx.of
  PROVE  /\ Before(tx) \o <<tx>> = Before([tx EXCEPT !.part = @ + 1])
         /\ tx.part = tx.of => WholeAnswer(Before(tx) \o <<tx>>)
<1> DEFINE p == tx.part
           e == [i \in Nat |-> [msg |-> tx.msg, part |-> i, of |-> tx.of]]
           next == [tx EXCEPT !.part = @ + 1]
           b == [i \in 1 .. p - 1 |-> e[i]]
           c == [i \in 1 .. p |-> e[i]]
<1>1. p \in Nat \ {0} /\ tx.of \in Nat /\ tx.msg \in Nat
  BY DEF TxPieces
<1>2. tx = e[p]
  BY DEF TxPieces
<1>3. next.part = p + 1 /\ next.msg = tx.msg /\ next.of = tx.of
  BY DEF TxPieces
<1>4. e \in [Nat -> TxPieces]
  BY <1>1 DEF TxPieces
<1>5. Before(tx) = b
  BY <1>1 DEF Before
<1>6. Before(next) = c
  BY <1>1, <1>3 DEF Before
<1> HIDE DEF e, p
<1>7. b \in Seq(TxPieces) /\ Len(b) = p - 1 /\ \A i \in 1 .. p - 1 : b[i] = e[i]
  BY <1>1, <1>4
<1>8. c \in Seq(TxPieces) /\ Len(c) = p /\ \A i \in 1 .. p : c[i] = e[i]
  BY <1>1, <1>4
<1>9. <<tx>> \in Seq(TxPieces) /\ Len(<<tx>>) = 1 /\ <<tx>>[1] = tx
  OBVIOUS
<1> HIDE DEF next, b, c
<1>10. b \o <<tx>> = c
  <2>1. /\ b \o <<tx>> \in Seq(TxPieces)
        /\ Len(b \o <<tx>>) = p
        /\ \A i \in 1 .. p : (b \o <<tx>>)[i] =
                 IF i <= p - 1 THEN b[i] ELSE <<tx>>[i - (p - 1)]
    BY <1>1, <1>7, <1>9, ConcatProperties
  <2>2. \A i \in 1 .. p - 1 : (b \o <<tx>>)[i] = c[i]
    BY <2>1, <1>1, <1>7, <1>8
  <2>3. (b \o <<tx>>)[p] = c[p]
    BY <2>1, <1>1, <1>2, <1>8, <1>9
  <2>4. \A i \in 1 .. p : i \in 1 .. p - 1 \/ i = p
    BY <1>1
  <2>5. \A i \in 1 .. p : (b \o <<tx>>)[i] = c[i]
    BY <2>2, <2>3, <2>4
  <2> QED
    BY <2>1, <2>5, <1>8, SeqEqual
<1>11. p = tx.of => WholeAnswer(c)
  <2> SUFFICES ASSUME p = tx.of PROVE WholeAnswer(c)
    OBVIOUS
  <2>1. c[1].msg = tx.msg
    <3>1. c[1] = e[1]
      BY <1>1, <1>8
    <3>2. e[1].msg = tx.msg
      BY DEF e
    <3> QED
      BY <3>1, <3>2
  <2>2. c = [i \in 1 .. Len(c) |-> [msg |-> c[1].msg, part |-> i, of |-> Len(c)]]
    <3>1. c = [i \in 1 .. p |-> [msg |-> tx.msg, part |-> i, of |-> p]]
      BY <1>1 DEF c, e
    <3> QED
      BY <2>1, <3>1, <1>8
  <2> QED
    BY <2>2 DEF WholeAnswer
<1> QED
  BY <1>5, <1>6, <1>10, <1>11 DEF next, p

\* The pieces before the end of an SPDU are the SPDU; nothing is whole, too.
LEMMA AllPieces ==
  /\ WholeAnswer(<<>>)
  /\ \A tx \in TxPieces : tx.part = tx.of + 1 /\ tx.of # 0 => WholeAnswer(Before(tx))
<1>1. WholeAnswer(<<>>)
  <2>1. <<>> = [i \in 1 .. 0 |-> [msg |-> <<>>[1].msg, part |-> i, of |-> 0]]
    OBVIOUS
  <2> QED
    BY <2>1, EmptySeq DEF WholeAnswer
<1>2. ASSUME NEW tx \in TxPieces, tx.part = tx.of + 1, tx.of # 0
      PROVE  WholeAnswer(Before(tx))
  <2>1. tx.of \in Nat \ {0} /\ tx.part - 1 = tx.of
    BY <1>2 DEF TxPieces
  <2>2. Before(tx) = [i \in 1 .. tx.of |-> [msg |-> tx.msg, part |-> i, of |-> tx.of]]
    BY <2>1 DEF Before
  <2>3. Len(Before(tx)) = tx.of /\ Before(tx)[1].msg = tx.msg
    BY <2>1, <2>2
  <2> QED
    BY <2>2, <2>3 DEF WholeAnswer
<1> QED
  BY <1>1, <1>2

\* The answer of the module continues what the host has, whether the answer
\* carries a piece, is a bare status, or is about to be damaged.
LEMMA AnswerStream ==
  ASSUME TypeOK, CommandResponse, StreamIntact,
         NEW s \in Slots, AnswerStatus(s) \/ AnswerData(s)
  PROVE  StreamIntact'
<1> DEFINE rx == slot[s].rx
<1>1. /\ UNCHANGED <<slot, reported>> /\ reply[s] = None /\ camOwes[s]
      /\ rx \in Seq(TxPieces)
  BY DEF AnswerStatus, AnswerData, Answer, hostVars, CommandResponse,
         TypeOK, SlotType
<1>2. ~reported[s] => Follows(rx, camTx[s])
  BY <1>1 DEF StreamIntact, Stream
<1>3. ASSUME NEW f \in Replies, Answer(s, f), NEW x \in TxPieces \cup {None},
             camTx' = [camTx EXCEPT ![s] = x],
             f.tag = "DataLast" => x = None,
             ~reported[s] => Stream(rx, f, x), f.tag # "Damaged"
      PROVE  StreamIntact'
  <2>1. PICK tag \in {f.tag, "Damaged"} :
           reply' = [reply EXCEPT ![s] = [f EXCEPT !.tag = tag]]
    BY <1>3 DEF Answer
  <2>2. /\ reply'[s] = [f EXCEPT !.tag = tag] /\ camTx'[s] = x
        /\ \A u \in Slots \ {s} : reply'[u] = reply[u] /\ camTx'[u] = camTx[u]
    BY <2>1, <1>3 DEF TypeOK
  <2>3. /\ [f EXCEPT !.tag = tag] \in Replies
        /\ [f EXCEPT !.tag = tag].tag = tag
        /\ [f EXCEPT !.tag = f.tag] = f
    BY <1>3 DEF Replies
  <2>4. /\ reply'[s].tag = "DataLast" => camTx'[s] = None
        /\ ~reported[s] => Stream(rx, reply'[s], camTx'[s])
    <3>1. CASE tag = "Damaged"
      BY <3>1, <2>2, <2>3, NoneAssumption DEF Stream
    <3>2. CASE tag = f.tag
      BY <3>2, <2>2, <2>3, <1>3
    <3> QED
      BY <3>1, <3>2
  <2> QED
    BY <2>2, <2>4, <1>1 DEF StreamIntact
<1>4. CASE AnswerStatus(s)
  <2>1. PICK tag \in {"Sb", "CtcReply", "Unexpected"}, di \in BOOLEAN :
           Answer(s, Frame(tag, <<>>, di))
    BY <1>4 DEF AnswerStatus
  <2>2. Frame(tag, <<>>, di) \in Replies /\ Frame(tag, <<>>, di).tag = tag
    BY EmptySeq DEF Frame, Replies
  <2>3. ~reported[s] => Stream(rx, Frame(tag, <<>>, di), camTx[s])
    BY <2>2, <1>2, NoneAssumption DEF Stream
  <2>4. camTx' = [camTx EXCEPT ![s] = camTx[s]] /\ camTx[s] \in TxPieces \cup {None}
    BY <1>4 DEF AnswerStatus, TypeOK
  <2> QED
    BY <2>1, <2>2, <2>3, <2>4, <1>3
<1>5. CASE AnswerData(s)
  <2>1. PICK tx \in (IF camTx[s] = None /\ answered[s] < MaxAnswered
                     THEN [msg : {answered[s] + 1}, part : {1}, of : 1 .. MaxPieces]
                     ELSE {camTx[s]} \ {None}) :
           LET ended == tx.part > tx.of
               body == IF ended THEN <<>> ELSE <<tx>>
               next == [tx EXCEPT !.part = @ + 1]
           IN /\ answered' = [answered EXCEPT ![s] = tx.msg]
              /\ \/ /\ tx.part >= tx.of
                    /\ Answer(s, Frame("DataLast", body, FALSE))
                    /\ camTx' = [camTx EXCEPT ![s] = None]
                 \/ /\ ~ended
                    /\ Answer(s, Frame("DataMore", body, TRUE))
                    /\ camTx' = [camTx EXCEPT ![s] = next]
    BY <1>5 DEF AnswerData
  <2> DEFINE next == [tx EXCEPT !.part = @ + 1]
             body == IF tx.part > tx.of THEN <<>> ELSE <<tx>>
  <2>2. tx \in TxPieces /\ next \in TxPieces
    <3>1. tx \in TxPieces
      BY <2>1, BoundAssumption DEF TxPieces, TypeOK
    <3> QED
      BY <3>1 DEF TxPieces
  <2>3. /\ tx.part \in Nat /\ tx.of \in Nat
        /\ next.part = tx.part + 1 /\ next.of = tx.of /\ next.msg = tx.msg
    BY <2>2 DEF TxPieces
  <2>4. ~reported[s] => tx.part \in 1 .. tx.of + 1 /\ tx.of # 0 /\ rx = Before(tx)
    <3>1. CASE camTx[s] = None
      <4>1. tx.part = 1 /\ tx.of \in 1 .. MaxPieces
        BY <3>1, <2>1
      <4>2. Before(tx) = <<>>
        <5>1. Before(tx) = [i \in 1 .. 0 |-> [msg |-> tx.msg, part |-> i, of |-> tx.of]]
          BY <4>1 DEF Before
        <5> QED
          BY <5>1
      <4> QED
        BY <3>1, <4>1, <4>2, <1>2, <2>3, BoundAssumption DEF Follows
    <3>2. CASE camTx[s] # None
      BY <3>2, <1>2, <2>1, <2>3 DEF Follows
    <3> QED
      BY <3>1, <3>2
  <2>5. body \in Seq(TxPieces)
    BY <2>2, EmptySeq
  <2>6. ~reported[s] => /\ tx.part <= tx.of => rx \o body = Before(next)
                        /\ tx.part >= tx.of => WholeAnswer(rx \o body)
    <3> SUFFICES ASSUME ~reported[s]
                 PROVE  /\ tx.part <= tx.of => rx \o body = Before(next)
                        /\ tx.part >= tx.of => WholeAnswer(rx \o body)
      OBVIOUS
    <3>1. CASE tx.part <= tx.of
      <4>1. tx.part \in 1 .. tx.of /\ body = <<tx>>
        BY <3>1, <2>3, <2>4
      <4>2. tx.part >= tx.of => tx.part = tx.of
        BY <4>1, <2>3
      <4> QED
        BY <4>1, <4>2, <2>2, <2>4, NextPiece
    <3>2. CASE tx.part > tx.of
      <4>1. tx.part = tx.of + 1 /\ body = <<>> /\ ~(tx.part <= tx.of)
        BY <3>2, <2>3, <2>4
      <4>2. rx \o <<>> = Before(tx)
        BY <1>1, <2>4, ConcatEmptySeq
      <4> QED
        BY <4>1, <4>2, <2>2, <2>4, AllPieces
    <3>3. tx.part <= tx.of \/ tx.part > tx.of
      BY <2>3
    <3> HIDE DEF next, body, rx
    <3> QED
      BY <3>1, <3>2, <3>3
  <2>7. \A tag \in {"DataLast", "DataMore"}, di \in BOOLEAN :
            /\ Frame(tag, body, di) \in Replies
            /\ Frame(tag, body, di).tag = tag /\ Frame(tag, body, di).body = body
    <3> HIDE DEF body
    <3> QED
      BY <2>5 DEF Frame, Replies
  <2>8. \/ /\ tx.part >= tx.of
           /\ Answer(s, Frame("DataLast", body, FALSE))
           /\ camTx' = [camTx EXCEPT ![s] = None]
        \/ /\ tx.part <= tx.of
           /\ Answer(s, Frame("DataMore", body, TRUE))
           /\ camTx' = [camTx EXCEPT ![s] = next]
    <3>1. ~(tx.part > tx.of) => tx.part <= tx.of
      BY <2>3
    <3> QED
      BY <2>1, <3>1
  <2> HIDE DEF next, body, rx
  <2>9. CASE /\ tx.part >= tx.of
             /\ Answer(s, Frame("DataLast", body, FALSE))
             /\ camTx' = [camTx EXCEPT ![s] = None]
    <3>1. ~reported[s] => Stream(rx, Frame("DataLast", body, FALSE), None)
      BY <2>6, <2>7, <2>9, NoneAssumption DEF Stream
    <3>2. None \in TxPieces \cup {None}
      OBVIOUS
    <3> QED
      BY <3>1, <3>2, <2>7, <2>9, <1>3
  <2>10. CASE /\ tx.part <= tx.of
              /\ Answer(s, Frame("DataMore", body, TRUE))
              /\ camTx' = [camTx EXCEPT ![s] = next]
    <3>1. ~reported[s] => Follows(rx \o body, next)
      <4>1. ~reported[s] => next.part \in 2 .. next.of + 1
        BY <2>3, <2>4, <2>10
      <4> QED
        BY <4>1, <2>2, <2>6, <2>10, NoneAssumption DEF Follows
    <3>2. ~reported[s] => Stream(rx, Frame("DataMore", body, TRUE), next)
      BY <3>1, <2>7, NoneAssumption DEF Stream
    <3>3. Frame("DataMore", body, TRUE).tag = "DataMore"
      BY <2>7
    <3> QED
      BY <3>2, <3>3, <2>2, <2>7, <2>10, <1>3
  <2> QED
    BY <2>8, <2>9, <2>10
<1> QED
  BY <1>4, <1>5

\* recv_apdu() moves the piece on its way to the buffer, or hands the buffer
\* over, or reports what it drops.
LEMMA RecvStream ==
  ASSUME TypeOK, CommandResponse, StreamIntact, NEW s \in Slots, Recv(s)
  PROVE  StreamIntact' /\ LossIsReported'
<1> DEFINE t == slot[s]
           f == reply[s]
           w == HeardWell(t, f.di)
<1>1. /\ t \in SlotType /\ f \in Replies /\ f # None
      /\ t.rx \in Seq(TxPieces) /\ f.body \in Seq(TxPieces)
      /\ f.tag = "DataLast" => camTx[s] = None
      /\ ~reported[s] => Stream(t.rx, f, camTx[s])
  BY DEF Recv, TypeOK, SlotType, Replies, StreamIntact
<1>2. /\ reply' = [reply EXCEPT ![s] = None] /\ UNCHANGED camTx
      /\ reply'[s] = None
      /\ \A u \in Slots \ {s} : reply'[u] = reply[u]
  BY DEF Recv, TypeOK
<1>3. /\ w \in SlotType /\ w.rx = t.rx /\ Heard(t).rx = t.rx
      /\ \A b \in Seq(TxPieces) : [w EXCEPT !.rx = b].rx = b
  <2>1. w \in SlotType
    BY <1>1, SlotOperations DEF Replies
  <2> QED
    BY <1>1, <2>1 DEF Heard, HeardWell, SlotType
<1>4. t.rx \o f.body \in Seq(TxPieces) /\ <<>> \in Seq(TxPieces)
  BY <1>1, ConcatProperties, EmptySeq
<1>5. ASSUME NEW u, NEW result, Return(s, u, result),
             result.kind # "Spdu", result.kind # "Malformed",
             ~reported[s] => Follows(u.rx, camTx[s])
      PROVE  StreamIntact' /\ LossIsReported'
  <2>1. /\ slot'[s] = u /\ \A v \in Slots \ {s} : slot'[v] = slot[v]
        /\ reported' = reported /\ received' = result
    BY <1>5 DEF Return, TypeOK
  <2> QED
    BY <2>1, <1>2, <1>5 DEF StreamIntact, Stream, LossIsReported
<1>6. ASSUME NEW u, NEW result, Return(s, u, result), result.kind = "Malformed"
      PROVE  StreamIntact' /\ LossIsReported'
  <2>1. /\ slot'[s] = u /\ \A v \in Slots \ {s} : slot'[v] = slot[v]
        /\ reported' = [reported EXCEPT ![s] = TRUE] /\ received' = result
    BY <1>6 DEF Return, TypeOK
  <2>2. reported'[s] /\ \A v \in Slots \ {s} : reported'[v] = reported[v]
    BY <2>1 DEF TypeOK
  <2> QED
    BY <2>1, <2>2, <1>2, <1>6 DEF StreamIntact, LossIsReported
<1>7. ASSUME NEW u, Return(s, u, Spdu(s, t.rx \o f.body)), u.rx = <<>>,
             f.tag = "DataLast"
      PROVE  StreamIntact' /\ LossIsReported'
  <2>1. /\ slot'[s] = u /\ \A v \in Slots \ {s} : slot'[v] = slot[v]
        /\ reported' = [reported EXCEPT ![s] = FALSE]
        /\ received'.body = t.rx \o f.body /\ received'.reported = reported[s]
    BY <1>7 DEF Return, Spdu, TypeOK
  <2>2. \A v \in Slots \ {s} : reported'[v] = reported[v]
    BY <2>1 DEF TypeOK
  <2>3. Stream(u.rx, None, camTx[s])
    BY <1>1, <1>7 DEF Stream, Follows
  <2>4. WholeAnswer(t.rx \o f.body) \/ reported[s]
    BY <1>1, <1>7 DEF Stream
  <2> QED
    BY <2>1, <2>2, <2>3, <2>4, <1>2 DEF StreamIntact, LossIsReported
<1>8. ~reported[s] => /\ f.tag \in {"Sb", "CtcReply", "Unexpected"} =>
                             Follows(t.rx, camTx[s])
                      /\ f.tag = "DataMore" => Follows(t.rx \o f.body, camTx[s])
  BY <1>1 DEF Stream
<1> HIDE DEF t, f, w
<1>9. CASE RecvDamaged(s, t, f)
  BY <1>9, <1>6 DEF RecvDamaged, MalformedFrame
<1>10. CASE RecvControl(s, t, f)
  <2>1. CASE f.tag = "Sb" /\ Return(s, w, Status(s))
    <3>1. Status(s).kind = "Status"
      BY DEF Status
    <3> QED
      BY <2>1, <3>1, <1>3, <1>5, <1>8
  <2>2. CASE f.tag = "CtcReply" /\ Return(s, w, TcReply(s))
    <3>1. TcReply(s).kind = "TcReply"
      BY DEF TcReply
    <3> QED
      BY <2>2, <3>1, <1>3, <1>5, <1>8
  <2>3. CASE Return(s, w, MalformedFrame(s))
    BY <2>3, <1>6 DEF MalformedFrame
  <2> QED
    BY <1>10, <2>1, <2>2, <2>3 DEF RecvControl, w
<1>11. CASE RecvData(s, t, f)
  <2>1. CASE Return(s, [w EXCEPT !.rx = <<>>], MalformedFrame(s))
    BY <2>1, <1>6 DEF MalformedFrame
  <2>2. CASE /\ f.tag \in {"DataMore", "DataLast"}
             /\ ~HandsOver(t, f.tag = "DataLast", f.body)
             /\ Return(s, [w EXCEPT !.rx = t.rx \o f.body], Status(s))
    <3>1. Status(s).kind = "Status"
      BY DEF Status
    <3>2. ~reported[s] => Follows(t.rx \o f.body, camTx[s])
      <4>1. CASE f.tag = "DataMore"
        BY <4>1, <1>8
      <4>2. CASE f.tag = "DataLast"
        BY <4>2, <2>2, <1>1 DEF HandsOver, Reassembled, Follows
      <4> QED
        BY <2>2, <4>1, <4>2
    <3> QED
      BY <2>2, <3>1, <3>2, <1>3, <1>4, <1>5
  <2>3. CASE /\ HandsOver(t, f.tag = "DataLast", f.body)
             /\ Return(s, [w EXCEPT !.rx = <<>>], Spdu(s, t.rx \o f.body))
    BY <2>3, <1>3, <1>4, <1>7 DEF HandsOver
  <2> QED
    BY <1>11, <2>1, <2>2, <2>3 DEF RecvData, Reassembled, w
<1> QED
  BY <1>9, <1>10, <1>11 DEF Recv, t, f

\* Queueing, writing and failing to write touch nothing the host receives.
LEMMA HostKeepsStream ==
  ASSUME TypeOK, NEW s \in Slots,
         \/ \E k \in 1 .. MaxParts : SendSpdu(s, k)
         \/ SendControl(s) \/ Flush(s) \/ TakeDataPending(s)
  PROVE  /\ \A u \in Slots : slot'[u].rx = slot[u].rx
         /\ UNCHANGED <<camTx, reply, reported>> /\ received' = None
<1>1. ASSUME NEW t \in SlotType, t.rx = slot[s].rx,
             FlushOk(s, t) \/ FlushFails(s, t)
      PROVE  /\ \A u \in Slots : slot'[u].rx = slot[u].rx
             /\ UNCHANGED <<camTx, reply>>
  <2>1. PICK v \in {t, Written(t), WriteFailed(t)} : slot' = [slot EXCEPT ![s] = v]
    BY <1>1 DEF FlushOk, FlushFails
  <2>2. v.rx = slot[s].rx
    BY <1>1 DEF Written, WriteFailed, SlotType
  <2>3. UNCHANGED <<camTx, reply>>
    BY <1>1 DEF FlushOk, FlushFails, CamTakes, camVars
  <2> QED
    BY <2>1, <2>2, <2>3 DEF TypeOK
<1>2. ASSUME NEW f \in Seq(Pieces), f # <<>>, SendFrames(s, f)
      PROVE  /\ \A u \in Slots : slot'[u].rx = slot[u].rx
             /\ UNCHANGED <<camTx, reply>>
  <2>1. \A i \in 1 .. Len(f) : /\ Queued(s, f, i) \in SlotType
                               /\ Queued(s, f, i).rx = slot[s].rx
    <3> TAKE i \in 1 .. Len(f)
    <3>1. Queued(s, f, i) \in SlotType
      BY QueuedSlot
    <3>2. slot[s] \in SlotType
      BY DEF TypeOK
    <3> QED
      BY <3>1, <3>2 DEF Queued, SlotType
  <2>2. Len(f) \in 1 .. Len(f)
    BY <1>2, EmptySeq, LenProperties
  <2> QED
    BY <1>1, <1>2, <2>1, <2>2 DEF SendFrames
<1>3. CASE \E k \in 1 .. MaxParts : SendSpdu(s, k)
  <2>1. PICK k \in 1 .. MaxParts : SendSpdu(s, k)
    BY <1>3
  <2>2. sent[s] + 1 \in Nat /\ k \in Nat \ {0}
    BY BoundAssumption DEF TypeOK
  <2>3. Fragments(sent[s] + 1, k) \in Seq(Pieces) /\ Fragments(sent[s] + 1, k) # <<>>
    BY <2>2, FragmentsLinked, EmptySeq
  <2>4. CASE SendSwallowed(s, sent[s] + 1, k)
    <3>1. PICK i \in 1 .. k :
             LET t == Queued(s, Fragments(sent[s] + 1, k), i)
             IN t \in SlotType /\ slot' = [slot EXCEPT ![s] = WriteFailed(t)]
      BY <2>2, <2>4, SwallowedTypes
    <3>2. slot'[s].rx = slot[s].rx /\ \A u \in Slots \ {s} : slot'[u] = slot[u]
      BY <3>1 DEF WriteFailed, Queued, TypeOK, SlotType
    <3>3. UNCHANGED <<camTx, reply>>
      BY <2>2, <2>4, SwallowedTypes DEF camVars
    <3> QED
      BY <3>2, <3>3, <2>1 DEF SendSpdu
  <2> QED
    BY <1>2, <2>1, <2>3, <2>4 DEF SendSpdu
<1>4. CASE SendControl(s)
  BY <1>4, <1>2, ControlLinked, EmptySeq DEF SendControl
<1>5. CASE Flush(s)
  <2>1. slot[s] \in SlotType
    BY DEF TypeOK
  <2> QED
    BY <1>5, <1>1, <2>1 DEF Flush
<1>6. CASE TakeDataPending(s)
  BY <1>6 DEF TakeDataPending, camVars, TypeOK, SlotType
<1> QED
  BY <1>3, <1>4, <1>5, <1>6

\* An SPDU recv_apdu() hands over is whole, unless the loss was reported since
\* the previous one: whatever was damaged, unexpected or too long for the
\* buffer, the host is told before it sees a wrong SPDU.
THEOREM LossReported == Spec => []LossIsReported
<1>1. Init => StreamIntact /\ LossIsReported
  BY DEF Init, EmptySlot, StreamIntact, Stream, Follows, LossIsReported
<1>2. /\ TypeOK /\ CommandResponse /\ StreamIntact /\ LossIsReported
      /\ [Next]_vars
      => StreamIntact' /\ LossIsReported'
  <2> SUFFICES ASSUME TypeOK, CommandResponse, StreamIntact, LossIsReported,
                      [Next]_vars
               PROVE  StreamIntact' /\ LossIsReported'
    OBVIOUS
  <2>1. ASSUME NEW s \in Slots,
               \/ \E k \in 1 .. MaxParts : SendSpdu(s, k)
               \/ SendControl(s) \/ Flush(s) \/ TakeDataPending(s)
        PROVE  StreamIntact' /\ LossIsReported'
    BY <2>1, HostKeepsStream DEF StreamIntact, LossIsReported
  <2>2. ASSUME NEW s \in Slots, ClearSlot(s)
        PROVE  StreamIntact' /\ LossIsReported'
    <3>1. /\ slot'[s].rx = <<>> /\ camTx'[s] = None /\ reply'[s] = None
          /\ received' = None
          /\ \A u \in Slots \ {s} : /\ slot'[u] = slot[u] /\ camTx'[u] = camTx[u]
                                    /\ reply'[u] = reply[u]
                                    /\ reported'[u] = reported[u]
      BY <2>2 DEF ClearSlot, EmptySlot, TypeOK
    <3>2. Stream(slot'[s].rx, reply'[s], camTx'[s])
      BY <3>1 DEF Stream, Follows
    <3>3. \A u \in Slots \ {s} :
             /\ reply'[u] # None => (reply'[u].tag = "DataLast" => camTx'[u] = None)
             /\ ~reported'[u] => Stream(slot'[u].rx, reply'[u], camTx'[u])
      BY <3>1 DEF StreamIntact
    <3> QED
      BY <3>1, <3>2, <3>3 DEF StreamIntact, LossIsReported
  <2>3. ASSUME NEW s \in Slots, AnswerStatus(s) \/ AnswerData(s)
        PROVE  StreamIntact' /\ LossIsReported'
    <3>1. received' = None
      BY <2>3 DEF AnswerStatus, AnswerData, Answer
    <3> QED
      BY <2>3, <3>1, AnswerStream DEF LossIsReported
  <2>4. ASSUME NEW s \in Slots, Recv(s)
        PROVE  StreamIntact' /\ LossIsReported'
    BY <2>4, RecvStream
  <2>5. CASE UNCHANGED vars
    BY <2>5 DEF vars, hostVars, camVars, StreamIntact, LossIsReported
  <2> QED
    BY <2>1, <2>2, <2>3, <2>4, <2>5 DEF Next
<1> QED
  BY <1>1, <1>2, TransportTypes, OneCommand, PTL DEF Spec

-----------------------------------------------------------------------------
(* The order of the SPDUs the module completes.                            *)

\* A frame leaves what is collected and queued: the rest keeps its order.
LEMMA RemoveSequential ==
  ASSUME NEW rx \in Seq(Pieces), NEW q \in Seq(Pieces), q # <<>>, NEW got, NEW n,
         Sequential(rx \o q, got, n)
  PROVE  Sequential(rx \o Tail(q), got, n)
<1> DEFINE x == rx \o q
           y == rx \o Tail(q)
           k == Len(rx)
           l == Len(x)
           at(i) == IF i <= k THEN i ELSE i + 1
<1>1. /\ k \in Nat /\ l \in Nat /\ Len(y) = l - 1
      /\ \A i \in 1 .. l - 1 : y[i] = x[at(i)]
  BY HeadApart
<1>2. /\ \A i \in 1 .. l - 1 : at(i) \in 1 .. l
      /\ \A i, j \in 1 .. l - 1 : i < j => at(i) < at(j)
  BY <1>1
<1>3. Sequential(x, got, n)
  OBVIOUS
<1> HIDE DEF x, y, at
<1>4. \A i \in 1 .. Len(y) : y[i].tag # "Control" =>
          /\ y[i].msg <= n
          /\ got # <<>> => got[Len(got)].msg < y[i].msg
  BY <1>1, <1>2, <1>3 DEF Sequential
<1>5. \A i, j \in 1 .. Len(y) :
          i < j /\ y[i].tag # "Control" /\ y[j].tag # "Control" =>
              /\ y[i].msg <= y[j].msg
              /\ y[i].tag = "DataLast" => y[i].msg < y[j].msg
  BY <1>1, <1>2, <1>3 DEF Sequential
<1> QED
  BY <1>3, <1>4, <1>5 DEF Sequential, y

\* The last piece of an SPDU at the head of the queue: all that it completes
\* is later than the SPDU before it, and earlier than everything behind it.
LEMMA TakeSequential ==
  ASSUME NEW rx \in Seq(Pieces), NEW q \in Seq(Pieces), q # <<>>,
         NEW got, NEW n, Sequential(rx \o q, got, n),
         \A i \in 1 .. Len(rx) : rx[i].tag = "DataMore",
         Head(q).tag = "DataLast"
  PROVE  LET g == Append(rx, Head(q))
         IN /\ Sequential(<<>> \o Tail(q), g, n)
            /\ got # <<>> => got[Len(got)].msg < g[1].msg
<1> DEFINE x == rx \o q
           r == Tail(q)
           h == Head(q)
           k == Len(rx)
           l == Len(x)
           g == Append(rx, h)
<1>1. /\ k \in Nat /\ l \in Nat /\ l > k /\ x[k + 1] = h /\ h \in Pieces
      /\ r \in Seq(Pieces) /\ Len(r) = l - (k + 1)
      /\ \A i \in 1 .. k : x[i] = rx[i]
      /\ \A i \in 1 .. Len(r) : x[k + 1 + i] = r[i]
  BY HeadApart
<1>2. /\ Len(g) = k + 1 /\ g[k + 1] = h
      /\ \A i \in 1 .. k : g[i] = rx[i]
  BY <1>1, AppendProperties
<1>3. Sequential(x, got, n) /\ h.tag = "DataLast"
  OBVIOUS
<1>4. <<>> \o r = r
  BY <1>1, ConcatEmptySeq
<1> HIDE DEF x, r, h, g, l
<1>5. /\ \A i \in 1 .. Len(r) : k + 1 + i \in 1 .. l /\ k + 1 < k + 1 + i
      /\ \A i, j \in 1 .. Len(r) : i < j => k + 1 + i < k + 1 + j
      /\ k + 1 \in 1 .. l
  BY <1>1
<1>6. /\ \A i \in 1 .. l : x[i].tag # "Control" =>
           /\ x[i].msg <= n
           /\ got # <<>> => got[Len(got)].msg < x[i].msg
      /\ \A i, j \in 1 .. l :
           i < j /\ x[i].tag # "Control" /\ x[j].tag # "Control" =>
               /\ x[i].msg <= x[j].msg
               /\ x[i].tag = "DataLast" => x[i].msg < x[j].msg
  BY <1>3 DEF Sequential, l
<1>7. \A i \in 1 .. Len(r) : r[i].tag # "Control" =>
          /\ r[i].msg <= n
          /\ g[Len(g)].msg < r[i].msg
  BY <1>1, <1>2, <1>3, <1>5, <1>6
<1>8. \A i, j \in 1 .. Len(r) :
          i < j /\ r[i].tag # "Control" /\ r[j].tag # "Control" =>
              /\ r[i].msg <= r[j].msg
              /\ r[i].tag = "DataLast" => r[i].msg < r[j].msg
  BY <1>1, <1>5, <1>6
<1>9. g[Len(g)].msg <= n
  BY <1>1, <1>2, <1>3, <1>5, <1>6
<1>10. g[1] = x[1] /\ x[1].tag # "Control"
  <2>1. CASE k = 0
    BY <2>1, <1>1, <1>2, <1>3
  <2>2. CASE k # 0
    <3>1. 1 \in 1 .. k
      BY <2>2, <1>1
    <3> QED
      BY <3>1, <1>1, <1>2
  <2> QED
    BY <2>1, <2>2
<1>11. got # <<>> => got[Len(got)].msg < g[1].msg
  <2>1. 1 \in 1 .. l
    BY <1>1
  <2> QED
    BY <2>1, <1>6, <1>10
<1>12. Sequential(r, g, n)
  BY <1>7, <1>8, <1>9 DEF Sequential
<1> QED
  BY <1>4, <1>11, <1>12 DEF g, h, r

\* Frames of an SPDU that is newer than all others, or a control frame,
\* behind the queue keep its order; so does any beginning of them.
Fresh(f, n, m) ==
    /\ \A i \in 1 .. Len(f) : f[i].tag # "Control" => f[i].msg \in n + 1 .. m
    /\ \A i, j \in 1 .. Len(f) :
           i < j => f[i].tag = "DataMore" /\ f[i].msg = f[j].msg

LEMMA AppendSequential ==
  ASSUME NEW q \in Seq(Pieces), NEW f \in Seq(Pieces),
         NEW got \in Seq(Pieces), NEW n \in Nat, NEW m \in Nat, n <= m,
         Sequential(q, got, n), Fresh(f, n, m)
  PROVE  Sequential(q \o f, got, m)
<1> DEFINE r == q \o f
           k == Len(q)
<1>1. /\ k \in Nat /\ Len(f) \in Nat /\ Len(r) = k + Len(f)
      /\ \A i \in 1 .. k : r[i] = q[i]
      /\ \A j \in 1 .. Len(f) : r[k + j] = f[j]
  BY ConcatProperties, LenProperties
<1>2. /\ \A i \in 1 .. k : q[i].msg \in Nat
      /\ \A j \in 1 .. Len(f) : f[j].msg \in Nat
      /\ got # <<>> => got[Len(got)].msg \in Nat
  <2>1. /\ \A i \in 1 .. k : q[i] \in Pieces
        /\ \A j \in 1 .. Len(f) : f[j] \in Pieces
        /\ got # <<>> => got[Len(got)] \in Pieces
    BY ElementOfSeq, EmptySeq
  <2>2. \A p \in Pieces : p.msg \in Nat
    BY DEF Pieces
  <2> QED
    BY <2>1, <2>2
<1>3. /\ \A i \in 1 .. k : q[i].tag # "Control" =>
            q[i].msg <= n /\ (got # <<>> => got[Len(got)].msg < q[i].msg)
      /\ \A i, j \in 1 .. k :
            i < j /\ q[i].tag # "Control" /\ q[j].tag # "Control" =>
               /\ q[i].msg <= q[j].msg
               /\ q[i].tag = "DataLast" => q[i].msg < q[j].msg
      /\ got # <<>> => got[Len(got)].msg <= n
  BY DEF Sequential
<1>4. /\ \A j \in 1 .. Len(f) : f[j].tag # "Control" => f[j].msg > n /\ f[j].msg <= m
      /\ \A i, j \in 1 .. Len(f) :
            i < j => f[i].tag = "DataMore" /\ f[i].msg = f[j].msg
  BY DEF Fresh
<1> HIDE DEF r, k
<1>5. \A i \in 1 .. Len(r) : i \in 1 .. k \/ \E j \in 1 .. Len(f) : i = k + j
  <2> TAKE i \in 1 .. Len(r)
  <2>1. CASE i > k
    <3>1. i - k \in 1 .. Len(f) /\ i = k + (i - k)
      BY <2>1, <1>1
    <3> QED
      BY <3>1
  <2> QED
    BY <2>1, <1>1
<1>6. ASSUME NEW i \in 1 .. Len(r), r[i].tag # "Control"
      PROVE  r[i].msg <= m /\ (got # <<>> => got[Len(got)].msg < r[i].msg)
  <2>1. CASE i \in 1 .. k
    <3>1. q[i].msg <= n /\ (got # <<>> => got[Len(got)].msg < q[i].msg)
      BY <2>1, <1>1, <1>3, <1>6
    <3> QED
      BY <3>1, <2>1, <1>1, <1>2
  <2>2. ASSUME NEW j \in 1 .. Len(f), i = k + j
        PROVE  r[i].msg <= m /\ (got # <<>> => got[Len(got)].msg < r[i].msg)
    <3>1. r[i] = f[j]
      BY <2>2, <1>1
    <3> QED
      BY <3>1, <1>2, <1>3, <1>4, <1>6
  <2> QED
    BY <2>1, <2>2, <1>5
<1>7. ASSUME NEW i \in 1 .. Len(r), NEW j \in 1 .. Len(r), i < j,
             r[i].tag # "Control", r[j].tag # "Control"
      PROVE  /\ r[i].msg <= r[j].msg
             /\ r[i].tag = "DataLast" => r[i].msg < r[j].msg
  <2>1. CASE j \in 1 .. k
    <3>1. i \in 1 .. k
      BY <2>1, <1>1, <1>7
    <3> QED
      BY <3>1, <2>1, <1>1, <1>3, <1>7
  <2>2. ASSUME NEW b \in 1 .. Len(f), j = k + b
        PROVE  /\ r[i].msg <= r[j].msg
               /\ r[i].tag = "DataLast" => r[i].msg < r[j].msg
    <3>1. r[j] = f[b]
      BY <2>2, <1>1
    <3>2. CASE i \in 1 .. k
      <4>1. r[i] = q[i] /\ q[i].msg <= n
        BY <3>2, <1>1, <1>3, <1>7
      <4>2. f[b].msg > n
        BY <3>1, <1>4, <1>7
      <4>3. q[i].msg \in Nat /\ f[b].msg \in Nat
        BY <3>2, <1>2
      <4>4. q[i].msg < f[b].msg /\ q[i].msg <= f[b].msg
        BY <4>1, <4>2, <4>3
      <4> QED
        BY <3>1, <4>1, <4>4
    <3>3. ASSUME NEW a \in 1 .. Len(f), i = k + a
          PROVE  /\ r[i].msg <= r[j].msg
                 /\ r[i].tag = "DataLast" => r[i].msg < r[j].msg
      <4>1. a < b /\ r[i] = f[a]
        BY <3>3, <2>2, <1>1, <1>7
      <4> QED
        BY <3>1, <4>1, <1>2, <1>4
    <3> QED
      BY <3>2, <3>3, <1>5
  <2> QED
    BY <2>1, <2>2, <1>5
<1>8. got # <<>> => got[Len(got)].msg <= m
  BY <1>2, <1>3
<1> QED
  BY <1>6, <1>7, <1>8 DEF Sequential, r

\* A beginning of fresh frames is fresh; an SPDU is, and a control frame.
LEMMA FreshFrames ==
  ASSUME NEW n \in Nat
  PROVE  /\ \A f \in Seq(Pieces), m \in Nat : Fresh(f, n, m) =>
                \A i \in 1 .. Len(f) : Fresh(SubSeq(f, 1, i), n, m)
         /\ \A k \in Nat \ {0} : Fresh(Fragments(n + 1, k), n, n + 1)
         /\ Fresh(<<Control>>, n, n)
<1>1. ASSUME NEW f \in Seq(Pieces), NEW m \in Nat, Fresh(f, n, m),
             NEW i \in 1 .. Len(f)
      PROVE  Fresh(SubSeq(f, 1, i), n, m)
  <2>1. \A j \in 1 .. i : f[j] \in Pieces
    BY ElementOfSeq, LenProperties
  <2>2. /\ Len(SubSeq(f, 1, i)) = i
        /\ \A j \in 1 .. i : SubSeq(f, 1, i)[j] = f[j] /\ j \in 1 .. Len(f)
    BY <2>1, SubSeqProperties, LenProperties
  <2> QED
    BY <2>2, <1>1 DEF Fresh
<1>2. ASSUME NEW k \in Nat \ {0}
      PROVE  Fresh(Fragments(n + 1, k), n, n + 1)
  <2>1. /\ Len(Fragments(n + 1, k)) = k
        /\ \A i \in 1 .. k : Fragments(n + 1, k)[i] = Data(n + 1, i, k)
    BY FragmentsLinked
  <2>2. \A i \in 1 .. k : /\ Data(n + 1, i, k).msg = n + 1
                          /\ i < k => Data(n + 1, i, k).tag = "DataMore"
    BY DEF Data
  <2>3. n + 1 \in n + 1 .. n + 1
    OBVIOUS
  <2>4. \A i, j \in 1 .. k : i < j => i < k
    OBVIOUS
  <2> QED
    BY <2>1, <2>2, <2>3, <2>4 DEF Fresh
<1>3. Fresh(<<Control>>, n, n)
  BY DEF Fresh, Control
<1> QED
  BY <1>1, <1>2, <1>3

\* What one step may do to the SPDU the module completed last.
Later == \A s \in Slots : camGot'[s] # camGot[s] /\ camGot[s] # <<>> =>
             camGot'[s][1].msg > camGot[s][Len(camGot[s])].msg

\* A step of one slot that keeps its order, and completes only what is later.
LEMMA OneSlotOrder ==
  ASSUME TypeOK, OrderIntact, NEW s \in Slots,
         Sequential(camRx'[s] \o slot'[s].queue, camGot'[s], sent'[s]),
         camGot[s] # <<>> => \/ camGot'[s] = camGot[s]
                             \/ camGot[s][Len(camGot[s])].msg < camGot'[s][1].msg,
         \A u \in Slots \ {s} :
            /\ slot'[u].queue = slot[u].queue /\ camRx'[u] = camRx[u]
            /\ camGot'[u] = camGot[u] /\ sent'[u] = sent[u]
  PROVE  OrderIntact' /\ Later
<1>1. OrderIntact'
  BY DEF OrderIntact
<1>2. ASSUME camGot'[s] # camGot[s], camGot[s] # <<>>
      PROVE  camGot'[s][1].msg > camGot[s][Len(camGot[s])].msg
  BY <1>2
<1> QED
  BY <1>1, <1>2 DEF Later

\* The types of one slot, named where its order is at stake.
LEMMA OneSlotTypes ==
  ASSUME TypeOK, NEW s \in Slots
  PROVE  /\ slot[s] \in SlotType /\ slot[s].queue \in Seq(Pieces)
         /\ camRx[s] \in Seq(Pieces) /\ camGot[s] \in Seq(Pieces)
         /\ sent[s] \in Nat
BY DEF TypeOK, SlotType

\* A flush of a slot that is in order.
LEMMA FlushOrder ==
  ASSUME TypeOK, WireInv, OrderIntact, NEW s \in Slots, ~resetOwed[s],
         NEW t \in SlotType,
         Sequential(camRx[s] \o t.queue, camGot[s], sent'[s]),
         \A u \in Slots \ {s} : sent'[u] = sent[u],
         FlushOk(s, t) \/ FlushFails(s, t)
  PROVE  OrderIntact' /\ Later
<1> DEFINE q == t.queue
           h == Head(q)
<1>1. q \in Seq(Pieces) /\ camRx[s] \in Seq(Pieces) /\ camGot[s] \in Seq(Pieces)
  BY OneSlotTypes DEF SlotType
<1>2. \A i \in 1 .. Len(camRx[s]) : camRx[s][i].tag = "DataMore"
  BY DEF WireInv, ChainIntact, Begun
<1>3. CASE CanWrite(t) /\ slot' = [slot EXCEPT ![s] = Written(t)] /\ CamTakes(s, h)
  <2>1. q # <<>> /\ h \in Pieces
    BY <1>1, <1>3, HeadTailProperties DEF CanWrite
  <2>2. slot'[s].queue = Tail(q) /\ \A u \in Slots \ {s} : slot'[u] = slot[u]
    BY <1>3 DEF Written, SlotType, TypeOK
  <2>3. h.tag \in {"Control", "DataMore", "DataLast"}
    BY <2>1 DEF Pieces
  <2>4. \A u \in Slots \ {s} : camRx'[u] = camRx[u] /\ camGot'[u] = camGot[u]
    BY <2>3, <1>3 DEF CamTakes, TypeOK
  <2> HIDE DEF h
  <2>5. CASE h.tag = "Control"
    <3>1. camRx' = camRx /\ camGot' = camGot
      BY <2>5, <1>3 DEF CamTakes
    <3>2. Sequential(camRx[s] \o Tail(q), camGot[s], sent'[s])
      BY <2>1, <1>1, RemoveSequential
    <3> QED
      BY <3>1, <3>2, <2>2, <2>4, OneSlotOrder
  <2>6. CASE h.tag = "DataMore"
    <3>1. camRx'[s] = Append(camRx[s], h) /\ camGot' = camGot
      BY <2>6, <1>3 DEF CamTakes, TypeOK
    <3>2. Append(camRx[s], h) \o Tail(q) = camRx[s] \o q
      BY <2>1, <1>1, HeadApart DEF h
    <3> QED
      BY <3>1, <3>2, <2>2, <2>4, OneSlotOrder
  <2>7. CASE h.tag = "DataLast"
    <3>1. camRx'[s] = <<>> /\ camGot'[s] = Append(camRx[s], h)
      BY <2>7, <1>3 DEF CamTakes, TypeOK
    <3>2. /\ Sequential(<<>> \o Tail(q), Append(camRx[s], h), sent'[s])
          /\ camGot[s] # <<>> =>
                camGot[s][Len(camGot[s])].msg < Append(camRx[s], h)[1].msg
      BY <2>1, <2>7, <1>1, <1>2, TakeSequential DEF h
    <3> QED
      BY <3>1, <3>2, <2>2, <2>4, OneSlotOrder
  <2> QED
    BY <2>3, <2>5, <2>6, <2>7
<1>4. CASE slot' = [slot EXCEPT ![s] = t] /\ UNCHANGED camVars
  <2>1. slot'[s] = t /\ \A u \in Slots \ {s} : slot'[u] = slot[u]
    BY <1>4 DEF TypeOK
  <2> QED
    BY <2>1, <1>4, OneSlotOrder DEF camVars
<1>5. CASE FlushFails(s, t)
  <2>1. /\ q # <<>> /\ slot'[s].queue = Tail(q)
        /\ \A u \in Slots \ {s} : slot'[u] = slot[u]
    BY <1>5 DEF FlushFails, CanWrite, WriteFailed, SlotType, TypeOK
  <2>2. UNCHANGED <<camRx, camGot>>
    BY <1>5 DEF FlushFails, camVars
  <2>3. Sequential(camRx[s] \o Tail(q), camGot[s], sent'[s])
    BY <2>1, <1>1, RemoveSequential
  <2> QED
    BY <2>1, <2>2, <2>3, OneSlotOrder
<1> QED
  BY <1>3, <1>4, <1>5 DEF FlushOk, h

\* Fresh frames, all or some of them, behind a slot that is in order.
LEMMA QueuedOrder ==
  ASSUME TypeOK, OrderIntact, NEW s \in Slots,
         NEW f \in Seq(Pieces), NEW m \in Nat, sent[s] <= m,
         Fresh(f, sent[s], m), NEW i \in 1 .. Len(f)
  PROVE  /\ Queued(s, f, i) \in SlotType
         /\ Sequential(camRx[s] \o Queued(s, f, i).queue, camGot[s], m)
<1> DEFINE p == SubSeq(f, 1, i)
<1>1. /\ slot[s] \in SlotType /\ slot[s].queue \in Seq(Pieces)
      /\ camRx[s] \in Seq(Pieces) /\ camGot[s] \in Seq(Pieces)
      /\ sent[s] \in Nat
  BY OneSlotTypes
<1>2. p \in Seq(Pieces)
  <2>1. \A j \in 1 .. i : f[j] \in Pieces
    BY ElementOfSeq, LenProperties
  <2> QED
    BY <2>1, SubSeqProperties
<1>3. Fresh(p, sent[s], m)
  BY <1>1, FreshFrames
<1>4. Queued(s, f, i).queue = slot[s].queue \o p
  BY <1>1 DEF Queued, SlotType
<1> HIDE DEF p
<1>5. /\ Sequential(camRx[s] \o slot[s].queue, camGot[s], sent[s])
      /\ camRx[s] \o slot[s].queue \in Seq(Pieces)
  BY <1>1, ConcatProperties DEF OrderIntact
<1>6. Sequential((camRx[s] \o slot[s].queue) \o p, camGot[s], m)
  BY <1>1, <1>2, <1>3, <1>5, AppendSequential
<1> QED
  <2>1. (camRx[s] \o slot[s].queue) \o p = camRx[s] \o (slot[s].queue \o p)
    BY <1>1, <1>2, Behind
  <2>2. Queued(s, f, i) \in SlotType
    BY QueuedSlot
  <2> QED
    BY <2>1, <2>2, <1>4, <1>6

\* Sending fresh frames, all or up to the one whose write fails.
LEMMA SendOrder ==
  ASSUME TypeOK, WireInv, OrderIntact, NEW s \in Slots, ~resetOwed[s],
         NEW f \in Seq(Pieces), f # <<>>,
         Fresh(f, sent[s], sent'[s]), sent'[s] \in Nat, sent[s] <= sent'[s],
         \A u \in Slots \ {s} : sent'[u] = sent[u],
         SendFrames(s, f)
  PROVE  OrderIntact' /\ Later
<1>1. \A i \in 1 .. Len(f) :
         /\ Queued(s, f, i) \in SlotType
         /\ Sequential(camRx[s] \o Queued(s, f, i).queue, camGot[s], sent'[s])
  BY QueuedOrder
<1>2. Len(f) \in 1 .. Len(f)
  BY EmptySeq, LenProperties
<1> QED
  BY <1>1, <1>2, FlushOrder DEF SendFrames

\* The module completes the SPDUs of the host in the order they were sent and
\* gets no piece twice, whatever is lost with a reset or swallowed.
THEOREM CompletedInOrder == Spec => CamGotInOrder
<1>1. Init => OrderIntact
  <2>1. <<>> \o <<>> = <<>> /\ Len(<<>>) = 0
    BY EmptySeq, ConcatEmptySeq
  <2> QED
    BY <2>1 DEF Init, EmptySlot, OrderIntact, Sequential
<1>2. TypeOK /\ WireInv /\ OrderIntact /\ [Next]_vars => OrderIntact' /\ Later
  <2> SUFFICES ASSUME TypeOK, WireInv, OrderIntact, [Next]_vars
               PROVE  OrderIntact' /\ Later
    OBVIOUS
  <2>1. ASSUME NEW s \in Slots, NEW k \in 1 .. MaxParts, SendSpdu(s, k)
        PROVE  OrderIntact' /\ Later
    <3> DEFINE f == Fragments(sent[s] + 1, k)
    <3>1. /\ sent[s] \in Nat /\ sent[s] + 1 \in Nat /\ k \in Nat \ {0}
          /\ sent'[s] = sent[s] + 1 /\ ~resetOwed[s]
          /\ \A u \in Slots \ {s} : sent'[u] = sent[u]
      BY <2>1, BoundAssumption DEF TypeOK, SendSpdu
    <3>2. /\ f \in Seq(Pieces) /\ f # <<>> /\ Len(f) = k
          /\ Fresh(f, sent[s], sent'[s])
      BY <3>1, FragmentsLinked, EmptySeq, FreshFrames
    <3>3. sent'[s] \in Nat /\ sent[s] <= sent'[s]
      BY <3>1
    <3>4. SendFrames(s, f) \/ SendSwallowed(s, sent[s] + 1, k)
      BY <2>1 DEF SendSpdu
    <3>5. CASE SendSwallowed(s, sent[s] + 1, k)
      <4>1. PICK i \in 1 .. k :
               LET t == Queued(s, f, i)
               IN /\ CanWrite(t)
                  /\ slot' = [slot EXCEPT ![s] = WriteFailed(t)]
                  /\ UNCHANGED camVars
        BY <3>5 DEF SendSwallowed
      <4> DEFINE t == Queued(s, f, i)
      <4> HIDE DEF f
      <4>2. /\ t \in SlotType
            /\ Sequential(camRx[s] \o t.queue, camGot[s], sent'[s])
        BY <3>1, <3>2, <3>3, QueuedOrder
      <4>3. CanWrite(t) /\ slot' = [slot EXCEPT ![s] = WriteFailed(t)]
            /\ UNCHANGED camVars
        BY <4>1
      <4> HIDE DEF t
      <4>4. /\ t.queue # <<>> /\ t.queue \in Seq(Pieces)
            /\ slot'[s].queue = Tail(t.queue)
            /\ \A u \in Slots \ {s} : slot'[u] = slot[u]
        BY <4>2, <4>3 DEF CanWrite, WriteFailed, SlotType, TypeOK
      <4>5. Sequential(camRx[s] \o Tail(t.queue), camGot[s], sent'[s])
        BY <4>2, <4>4, OneSlotTypes, RemoveSequential
      <4>6. UNCHANGED <<camRx, camGot>>
        BY <4>3 DEF camVars
      <4> QED
        BY <3>1, <4>4, <4>5, <4>6, OneSlotOrder
    <3>6. CASE SendFrames(s, f)
      <4> HIDE DEF f
      <4> QED
        BY <3>1, <3>2, <3>3, <3>6, SendOrder
    <3> QED
      BY <3>4, <3>5, <3>6
  <2>2. ASSUME NEW s \in Slots, SendControl(s)
        PROVE  OrderIntact' /\ Later
    <3>1. /\ sent' = sent /\ sent[s] \in Nat /\ sent[s] <= sent[s]
          /\ ~resetOwed[s]
      BY <2>2 DEF SendControl, TypeOK
    <3>2. Fresh(<<Control>>, sent[s], sent'[s]) /\ <<Control>> # <<>>
      BY <3>1, FreshFrames, EmptySeq
    <3> QED
      BY <2>2, <3>1, <3>2, ControlLinked, SendOrder DEF SendControl
  <2>3. ASSUME NEW s \in Slots, Flush(s)
        PROVE  OrderIntact' /\ Later
    <3>1. /\ slot[s] \in SlotType /\ ~resetOwed[s] /\ sent' = sent
          /\ Sequential(camRx[s] \o slot[s].queue, camGot[s], sent[s])
      BY <2>3 DEF TypeOK, Flush, OrderIntact
    <3> QED
      BY <2>3, <3>1, FlushOrder DEF Flush
  <2>4. ASSUME NEW s \in Slots, ClearSlot(s)
        PROVE  OrderIntact' /\ Later
    <3>1. /\ slot'[s].queue = <<>> /\ camRx'[s] = <<>> /\ UNCHANGED <<sent, camGot>>
          /\ \A u \in Slots \ {s} : slot'[u] = slot[u] /\ camRx'[u] = camRx[u]
      BY <2>4 DEF ClearSlot, EmptySlot, TypeOK
    <3>2. Sequential(<<>> \o <<>>, camGot[s], sent[s])
      <4>1. <<>> \o <<>> = <<>> /\ Len(<<>>) = 0
        BY EmptySeq, ConcatEmptySeq
      <4>2. camGot[s] # <<>> => camGot[s][Len(camGot[s])].msg <= sent[s]
        BY DEF OrderIntact, Sequential
      <4>3. Sequential(<<>>, camGot[s], sent[s])
        BY <4>1, <4>2 DEF Sequential
      <4> QED
        BY <4>1, <4>3
    <3> QED
      BY <3>1, <3>2, OneSlotOrder
  <2>5. ASSUME NEW s \in Slots,
               TakeDataPending(s) \/ AnswerStatus(s) \/ AnswerData(s) \/ Recv(s)
        PROVE  OrderIntact' /\ Later
    <3>1. /\ \A u \in Slots : slot'[u].queue = slot[u].queue
          /\ UNCHANGED camRx
      BY <2>5, QueueStays
    <3>2. UNCHANGED <<sent, camGot>>
      BY <2>5 DEF TakeDataPending, AnswerStatus, AnswerData, Answer, Recv,
                  camVars, hostVars
    <3> QED
      BY <3>1, <3>2 DEF OrderIntact, Later
  <2>6. CASE UNCHANGED vars
    BY <2>6 DEF vars, hostVars, camVars, OrderIntact, Later
  <2> QED
    BY <2>1, <2>2, <2>3, <2>4, <2>5, <2>6 DEF Next
<1> QED
  BY <1>1, <1>2, TransportTypes, WireIntact, PTL DEF Spec, CamGotInOrder, WireInv, Later
=============================================================================
