--------------------------- MODULE ResourcesProofs ---------------------------
(***************************************************************************)
(* The resources and the bytes they speak in, for every base, every limit  *)
(* of a frame, every number of slots and sessions, and everything modules  *)
(* write that fits a frame.                                                *)
(*                                                                         *)
(* The codecs of Wire come first: what is built is read back, an object    *)
(* cut short anywhere is refused, a spoilt frame is refused as a whole,    *)
(* and the objects of one SPDU are read one by one up to the cut.  Then    *)
(* the invariants of Resources, each on the ones before it:                *)
(*   ArriveInv  who is on which session, and what was heard of it;         *)
(*   ToldInv    every clock against what was sent and when;                *)
(*   InfoInv    every info kept against what the modules supplied;         *)
(*   ShowInv    what is collected of every dialogue, and what is left of   *)
(*              it to say.                                                 *)
(* The objects of one SPDU are handled one after another: what holds after *)
(* any number of them is shown by one step of one callback (Handles) and   *)
(* carried along the function DispatchApdu is.                             *)
(***************************************************************************)
EXTENDS Resources, SequenceTheorems, FiniteSetTheorems, WellFoundedInduction, TLAPS

-----------------------------------------------------------------------------
(* The codecs of Wire: what one side builds the other reads back.           *)

(* A byte is a number; no theorem below needs it to be less than Base.      *)
Bytes == Seq(Nat)

(* What stands before: two byte strings joined are as long as both, and     *)
(* begin with the first.                                                    *)
LEMMA JoinFirst ==
    ASSUME NEW a \in Bytes, NEW b \in Bytes
    PROVE  /\ a \o b \in Bytes /\ Len(a) \in Nat /\ Len(b) \in Nat
           /\ Len(a \o b) = Len(a) + Len(b)
           /\ SubSeq(a \o b, 1, Len(a)) = a
           /\ \A i \in 1 .. Len(a) : (a \o b)[i] = a[i]
<1> DEFINE S == Nat
<1> HIDE DEF S
<1>1. a \in Seq(S) /\ b \in Seq(S)
  BY DEF Bytes, S
<1> DEFINE ab == a \o b
           n == Len(a)
           first == SubSeq(ab, 1, n)
<1>2. /\ ab \in Seq(S) /\ n \in Nat /\ Len(b) \in Nat
      /\ Len(ab) = n + Len(b)
      /\ \A i \in 1 .. n + Len(b) : ab[i] = IF i <= n THEN a[i] ELSE b[i - n]
  BY <1>1, ConcatProperties, LenProperties
<1>3. \A i \in 1 .. n : ab[i] = a[i] /\ ab[i] \in S
  BY <1>1, <1>2, ElementOfSeq
<1> HIDE DEF ab, n
<1>4. /\ first \in Seq(S) /\ Len(first) = IF 1 <= n THEN n - 1 + 1 ELSE 0
      /\ \A i \in 1 .. n - 1 + 1 : first[i] = ab[1 + i - 1]
  BY <1>2, <1>3, SubSeqProperties
<1>5. Len(first) = n /\ \A i \in 1 .. n : first[i] = a[i]
  BY <1>2, <1>3, <1>4
<1> HIDE DEF first
<1>6. first = a
  BY <1>1, <1>4, <1>5, SeqEqual DEF n
<1> QED
  BY <1>2, <1>3, <1>6 DEF first, ab, n, Bytes, S

(* And they end with the second.                                            *)
LEMMA JoinLast ==
    ASSUME NEW a \in Bytes, NEW b \in Bytes
    PROVE  /\ SubSeq(a \o b, Len(a) + 1, Len(a) + Len(b)) = b
           /\ \A i \in 1 .. Len(b) : (a \o b)[Len(a) + i] = b[i]
<1> DEFINE S == Nat
<1> HIDE DEF S
<1>1. a \in Seq(S) /\ b \in Seq(S)
  BY DEF Bytes, S
<1> DEFINE ab == a \o b
           n == Len(a)
           m == Len(b)
           last == SubSeq(ab, n + 1, n + m)
<1>2. /\ ab \in Seq(S) /\ n \in Nat /\ m \in Nat
      /\ \A i \in 1 .. n + m : ab[i] = IF i <= n THEN a[i] ELSE b[i - n]
  BY <1>1, ConcatProperties, LenProperties
<1>3. \A i \in 1 .. m : b[i] \in S
  BY <1>1, ElementOfSeq
<1> HIDE DEF ab, n, m
<1>4. \A i \in 1 .. m : ab[n + i] = b[i]
  <2> TAKE i \in 1 .. m
  <2>1. n + i \in 1 .. n + m /\ ~(n + i <= n) /\ (n + i) - n = i
    BY <1>2
  <2> QED
    BY <1>2, <2>1
<1>5. \A i \in n + 1 .. n + m : ab[i] \in S
  <2> TAKE i \in n + 1 .. n + m
  <2>1. i - n \in 1 .. m /\ n + (i - n) = i
    BY <1>2
  <2> QED
    BY <1>3, <1>4, <2>1
<1>6. /\ last \in Seq(S) /\ Len(last) = IF n + 1 <= n + m THEN n + m - (n + 1) + 1 ELSE 0
      /\ \A i \in 1 .. n + m - (n + 1) + 1 : last[i] = ab[n + 1 + i - 1]
  BY <1>2, <1>5, SubSeqProperties
<1>7. Len(last) = m /\ \A i \in 1 .. m : last[i] = ab[n + i]
  BY <1>2, <1>6
<1> HIDE DEF last
<1>8. last = b
  BY <1>1, <1>4, <1>6, <1>7, SeqEqual DEF m
<1> QED
  BY <1>4, <1>8 DEF last, ab, n, m

(* asn1.rs: what was encoded is read back, whatever follows it.            *)
LEMMA LengthRead ==
    ASSUME NEW n \in U16, NEW rest \in Bytes
    PROVE  /\ Encode(n) \in Bytes
           /\ Len(Encode(n)) \in 1 .. 3
           /\ Decode(Encode(n) \o rest) =
                 Length(n, Len(Encode(n)))
           /\ Length(n, Len(Encode(n))) # Malformed
<1> DEFINE code == Encode(n)
<1>p. PICK data : data = code \o rest
  OBVIOUS
<1>3. ASSUME code \in Bytes
      PROVE  /\ data \in Bytes /\ Len(data) = Len(code) + Len(rest)
             /\ \A i \in 1 .. Len(code) : data[i] = code[i]
  <2> HIDE DEF code
  <2> QED
    BY <1>3, <1>p, JoinFirst
<1>1. /\ Base \in Nat /\ Half \in Nat /\ 2 < Half /\ Half + 2 < Base
      /\ n \in Nat /\ n < Base * Base
      /\ Malformed \notin [value : Nat, size : 1 .. 3]
  BY WireAssumption DEF Sizes, U16
<1>2. rest \in Seq(Nat) /\ Len(rest) \in Nat
  BY DEF Bytes
<1>s. CASE n < Half
  <2>1. code = << n >>
    BY <1>s DEF Encode, Short
  <2>2. code \in Bytes /\ Len(code) = 1 /\ code[1] = n
    BY <1>1, <2>1 DEF Bytes
  <2> HIDE DEF code
  <2>3. Len(data) = 1 + Len(rest) /\ data[1] = n /\ data \in Bytes
    BY <1>3, <2>2
  <2>4. data # <<>>
    BY <1>2, <2>3
  <2>5. Decode(data) = Length(n, 1)
    BY <1>s, <2>3, <2>4 DEF Decode
  <2> QED
    BY <1>p, <1>1, <2>2, <2>5 DEF Length, code
<1>m. CASE ~(n < Half) /\ n < Base
  <2>1. code = << Half + 1, n >>
    BY <1>m DEF Encode, Medium
  <2>2. code \in Bytes /\ Len(code) = 2 /\ code[1] = Half + 1 /\ code[2] = n
    BY <1>1, <2>1 DEF Bytes
  <2> HIDE DEF code
  <2>3. Len(data) = 2 + Len(rest) /\ data[1] = Half + 1 /\ data[2] = n /\ data \in Bytes
    BY <1>3, <2>2
  <2>4. data # <<>> /\ Len(data) >= 2
    BY <1>2, <2>3
  <2>5. Decode(data) = Length(n, 2)
    BY <1>1, <2>3, <2>4 DEF Decode
  <2> QED
    BY <1>p, <1>1, <2>2, <2>5 DEF Length, code
<1>l. CASE ~(n < Half) /\ ~(n < Base)
  <2> DEFINE hi == n \div Base
             lo == n % Base
  <2>1. code = << Half + 2, hi, lo >>
    BY <1>l DEF Encode, Long
  <2>2. hi \in Nat /\ lo \in Nat /\ hi * Base + lo = n
    BY <1>1
  <2> HIDE DEF hi, lo
  <2>3. /\ code \in Bytes /\ Len(code) = 3
        /\ code[1] = Half + 2 /\ code[2] = hi /\ code[3] = lo
    BY <1>1, <2>1, <2>2 DEF Bytes
  <2> HIDE DEF code
  <2>4. /\ Len(data) = 3 + Len(rest) /\ data \in Bytes
        /\ data[1] = Half + 2 /\ data[2] = hi /\ data[3] = lo
    BY <1>3, <2>3
  <2>5. data # <<>> /\ Len(data) >= 3
    BY <1>2, <2>4
  <2>6. Decode(data) = Length(n, 3)
    BY <1>1, <2>2, <2>4, <2>5 DEF Decode
  <2> QED
    BY <1>p, <1>1, <2>3, <2>6 DEF Length, code
<1> QED
  BY <1>s, <1>m, <1>l

(* Joining three does not depend on which two are joined first.             *)
LEMMA Regroup ==
    ASSUME NEW a \in Bytes, NEW b \in Bytes, NEW c \in Bytes
    PROVE  (a \o b) \o c = a \o (b \o c)
<1> DEFINE S == Nat
<1> HIDE DEF S
<1>1. a \in Seq(S) /\ b \in Seq(S) /\ c \in Seq(S)
  BY DEF Bytes, S
<1> QED
  BY <1>1, ConcatAssociative

(* The second of three stands after the first.                              *)
LEMMA JoinMiddle ==
    ASSUME NEW a \in Bytes, NEW b \in Bytes, NEW c \in Bytes
    PROVE  /\ SubSeq((a \o b) \o c, Len(a) + 1, Len(a) + Len(b)) = b
           /\ \A i \in 1 .. Len(b) : ((a \o b) \o c)[Len(a) + i] = b[i]
<1> DEFINE from == Len(a) + 1
           to == Len(a) + Len(b)
<1>p. PICK ab : ab = a \o b
  OBVIOUS
<1>1. /\ ab \in Bytes /\ Len(a) \in Nat /\ Len(b) \in Nat
      /\ Len(ab) = Len(a) + Len(b)
  <2>1. a \o b \in Bytes /\ Len(a) \in Nat /\ Len(b) \in Nat
        /\ Len(a \o b) = Len(a) + Len(b)
    BY JoinFirst
  <2> QED
    BY <1>p, <2>1
<1>2. /\ SubSeq(ab, from, to) = b
      /\ \A i \in 1 .. Len(b) : ab[Len(a) + i] = b[i]
  <2>1. /\ SubSeq(a \o b, from, to) = b
        /\ \A i \in 1 .. Len(b) : (a \o b)[Len(a) + i] = b[i]
    BY JoinLast DEF from, to
  <2> QED
    BY <1>p, <2>1
<1>3. \A i \in 1 .. Len(ab) : (ab \o c)[i] = ab[i]
  BY <1>1, JoinFirst
<1>e. from = Len(a) + 1 /\ to = Len(a) + Len(b)
  OBVIOUS
<1> HIDE DEF from, to
<1>4. \A i \in 1 .. Len(b) : (ab \o c)[Len(a) + i] = b[i]
  <2> TAKE i \in 1 .. Len(b)
  <2>1. Len(a) + i \in 1 .. Len(ab)
    BY <1>1
  <2> QED
    BY <1>2, <1>3, <2>1
<1>5. SubSeq(ab \o c, from, to) = b
  <2>1. CASE Len(b) = 0
    <3>1. from \in Int /\ to \in Int /\ to < from
      BY <1>1, <1>e, <2>1
    <3>2. SubSeq(ab \o c, from, to) = <<>> /\ SubSeq(ab, from, to) = <<>>
      BY <3>1, SubSeqEmpty
    <3> QED
      BY <1>2, <3>2
  <2>2. CASE Len(b) # 0
    <3>1. from \in 1 .. Len(ab) /\ to \in 1 .. Len(ab)
      BY <1>1, <1>e, <2>2
    <3>2. ab \in Seq(Nat) /\ c \in Seq(Nat)
      BY <1>1 DEF Bytes
    <3>3. SubSeq(ab \o c, from, to) = SubSeq(ab, from, to)
      BY <3>1, <3>2, SubSeqOfConcat1
    <3> QED
      BY <1>2, <3>3
  <2> QED
    BY <2>1, <2>2
<1> QED
  BY <1>p, <1>4, <1>5 DEF from, to

(* A length that is cut short is refused, and read as it is otherwise.     *)
LEMMA LengthCut ==
    ASSUME NEW n \in U16, NEW data \in Bytes,
           \A i \in 1 .. Len(data) : i <= Len(Encode(n)) => data[i] = Encode(n)[i]
    PROVE  Decode(data) \in {Malformed, Length(n, Len(Encode(n)))}
<1> DEFINE code == Encode(n)
<1>1. /\ Base \in Nat /\ Half \in Nat /\ 2 < Half /\ Half + 2 < Base
      /\ n \in Nat /\ n < Base * Base
  BY WireAssumption DEF Sizes, U16
<1>2. data \in Seq(Nat) /\ Len(data) \in Nat
  BY DEF Bytes
<1>3. CASE data = <<>>
  BY <1>3 DEF Decode
<1>4. ASSUME data # <<>> PROVE 1 \in 1 .. Len(data)
  BY <1>2, <1>4
<1>s. CASE data # <<>> /\ n < Half
  <2>1. code = << n >>
    BY <1>s DEF Encode, Short
  <2>2. Len(code) = 1 /\ code[1] = n
    BY <2>1
  <2>3. data[1] = n
    BY <1>4, <1>s, <2>2
  <2> QED
    BY <1>s, <2>2, <2>3 DEF Decode
<1>m. CASE data # <<>> /\ ~(n < Half) /\ n < Base
  <2>1. code = << Half + 1, n >>
    BY <1>m DEF Encode, Medium
  <2>2. Len(code) = 2 /\ code[1] = Half + 1 /\ code[2] = n
    BY <2>1
  <2> HIDE DEF code
  <2>3. data[1] = Half + 1
    BY <1>4, <1>m, <2>2 DEF code
  <2>4. Len(data) >= 2 => data[2] = n
    BY <1>2, <2>2 DEF code
  <2> QED
    BY <1>1, <1>m, <2>2, <2>3, <2>4 DEF Decode, code
<1>l. CASE data # <<>> /\ ~(n < Half) /\ ~(n < Base)
  <2> DEFINE hi == n \div Base
             lo == n % Base
  <2>1. code = << Half + 2, hi, lo >>
    BY <1>l DEF Encode, Long
  <2>2. hi * Base + lo = n
    BY <1>1
  <2> HIDE DEF hi, lo
  <2>3. Len(code) = 3 /\ code[1] = Half + 2 /\ code[2] = hi /\ code[3] = lo
    BY <2>1
  <2> HIDE DEF code
  <2>4. data[1] = Half + 2
    BY <1>4, <1>l, <2>3 DEF code
  <2>5. Len(data) >= 3 => data[2] = hi /\ data[3] = lo
    BY <1>2, <2>3 DEF code
  <2> QED
    BY <1>1, <1>l, <2>2, <2>3, <2>4, <2>5 DEF Decode, code
<1> QED
  BY <1>3, <1>s, <1>m, <1>l

(* An object is built from three bytes of tag and a body whose length fits  *)
(* an asn.1 length field.                                                   *)
Object(tag, body) ==
    tag \in Bytes /\ Len(tag) = 3 /\ body \in Bytes /\ Len(body) \in U16

(* src/src/ca/apdu.rs:113-177, src/src/ca/asn1.rs:12-59: parse_at() reads an *)
(* object as build() wrote it, whatever follows it, and refuses one that is  *)
(* cut short, wherever it is cut.                                            *)
THEOREM ObjectsReadBack ==
    ASSUME NEW tag, NEW body, Object(tag, body), NEW rest \in Bytes
    PROVE  LET built == BuildApdu(Apdu(tag, body)) IN
           /\ ParseAt(built \o rest) =
                 [apdu |-> Apdu(tag, body), size |-> Len(built)]
           /\ \A k \in 0 .. Len(built) - 1 : ParseAt(SubSeq(built, 1, k)) = Malformed
<1> DEFINE built == BuildApdu(Apdu(tag, body))
           n == Len(body)
<1>0. tag \in Bytes /\ Len(tag) = 3 /\ body \in Bytes /\ n \in U16
  BY DEF Object
<1>c. PICK code : code = Encode(n)
  OBVIOUS
<1>1. /\ code \in Bytes /\ Len(code) \in 1 .. 3
      /\ Length(n, Len(code)) # Malformed
      /\ \A q \in Bytes : Decode(code \o q) = Length(n, Len(code))
  BY <1>0, <1>c, LengthRead
<1>2. built = (tag \o code) \o body
  BY <1>c DEF BuildApdu, Apdu
<1> HIDE DEF built
<1>h. PICK head : head = tag \o code
  OBVIOUS
<1>3. /\ n \in Nat /\ built \in Bytes /\ Len(built) = 3 + Len(code) + n
      /\ head \in Bytes /\ Len(head) = 3 + Len(code) /\ built = head \o body
  <2>1. head \in Bytes /\ Len(head) = 3 + Len(code)
    <3>1. tag \o code \in Bytes /\ Len(tag \o code) = Len(tag) + Len(code)
      BY <1>0, <1>1, JoinFirst
    <3> QED
      BY <1>0, <1>h, <3>1
  <2>2. built = head \o body
    BY <1>2, <1>h
  <2>3. head \o body \in Bytes /\ n \in Nat /\ Len(head \o body) = Len(head) + n
    BY <1>0, <2>1, JoinFirst
  <2> QED
    BY <2>1, <2>2, <2>3
<1>d. PICK data : data = built \o rest
  OBVIOUS
<1>4. data \in Bytes /\ Len(rest) \in Nat /\ Len(data) = 3 + Len(code) + n + Len(rest)
  <2>1. /\ built \o rest \in Bytes /\ Len(rest) \in Nat
        /\ Len(built \o rest) = Len(built) + Len(rest)
    BY <1>3, JoinFirst
  <2> QED
    BY <1>3, <1>d, <2>1
<1>5. data = tag \o (code \o (body \o rest)) /\ body \o rest \in Bytes
      /\ code \o (body \o rest) \in Bytes
      /\ Len(code \o (body \o rest)) = Len(code) + n + Len(rest)
  <2>1. data = (head \o body) \o rest
    BY <1>3, <1>d
  <2>2. data = (tag \o code) \o (body \o rest)
    <3>1. (head \o body) \o rest = head \o (body \o rest)
      BY <1>0, <1>3, Regroup
    <3> QED
      BY <1>h, <2>1, <3>1
  <2>3. body \o rest \in Bytes /\ Len(body \o rest) = n + Len(rest)
    BY <1>0, JoinFirst
  <2>4. data = tag \o (code \o (body \o rest))
    BY <1>0, <1>1, <2>2, <2>3, Regroup
  <2>5. /\ code \o (body \o rest) \in Bytes
        /\ Len(code \o (body \o rest)) = Len(code) + Len(body \o rest)
    BY <1>1, <2>3, JoinFirst
  <2> QED
    BY <1>3, <1>4, <1>1, <2>3, <2>4, <2>5
<1>t. PICK tail : tail = code \o (body \o rest)
  OBVIOUS
<1>6. /\ tail \in Bytes /\ Len(tail) = Len(code) + n + Len(rest) /\ data = tag \o tail
  BY <1>5, <1>t
<1>7. SubSeq(data, 1, 3) = tag
  <2>1. SubSeq(tag \o tail, 1, Len(tag)) = tag
    BY <1>0, <1>6, JoinFirst
  <2> QED
    BY <1>0, <1>6, <2>1
<1>8. From(data, 4) = tail
  <2>1. 4 = Len(tag) + 1 /\ Len(data) = Len(tag) + Len(tail)
    BY <1>0, <1>1, <1>3, <1>4, <1>6
  <2>2. SubSeq(tag \o tail, 4, Len(data)) = tail
    <3>1. SubSeq(tag \o tail, Len(tag) + 1, Len(tag) + Len(tail)) = tail
      BY <1>0, <1>6, JoinLast
    <3> QED
      BY <2>1, <3>1
  <2> QED
    BY <1>6, <2>2 DEF From
<1>8b. SubSeq(data, 4 + Len(code), 3 + Len(code) + n) = body
  <2>1. 4 + Len(code) = Len(head) + 1
        /\ 3 + Len(code) + n = Len(head) + Len(body)
    BY <1>1, <1>3
  <2>2. SubSeq((head \o body) \o rest, 4 + Len(code), 3 + Len(code) + n) = body
    <3>1. SubSeq((head \o body) \o rest, Len(head) + 1, Len(head) + Len(body)) = body
      BY <1>0, <1>3, JoinMiddle
    <3> QED
      BY <2>1, <3>1
  <2> QED
    BY <1>3, <1>d, <2>2
<1>9. ParseAt(data) = [apdu |-> Apdu(tag, body), size |-> Len(built)]
  <2>1. Decode(From(data, 4)) = Length(n, Len(code))
    BY <1>0, <1>1, <1>5, <1>6, <1>8, <1>t
  <2>2. ~(Len(data) < 3) /\ ~(Len(data) < 3 + Len(code) + n)
    BY <1>1, <1>3, <1>4
  <2> DEFINE length == Length(n, Len(code))
  <2>3. length.value = n /\ length.size = Len(code) /\ length # Malformed
    BY <1>1 DEF Length
  <2> HIDE DEF length
  <2>4. ParseAt(data) = ObjectAt(data, length)
    BY <2>1, <2>2 DEF ParseAt, length
  <2>5. ObjectAt(data, length) =
          [apdu |-> Apdu(tag, body), size |-> 3 + Len(code) + n]
    BY <1>7, <1>8b, <2>2, <2>3 DEF ObjectAt
  <2> QED
    BY <1>3, <2>4, <2>5
<1>10. ASSUME NEW k \in 0 .. Len(built) - 1
       PROVE  ParseAt(SubSeq(built, 1, k)) = Malformed
  <2>p. PICK part : part = SubSeq(built, 1, k)
    OBVIOUS
  <2>0. Len(built) \in Nat /\ k \in Nat /\ k < 3 + Len(code) + n
    BY <1>1, <1>3
  <2>s. built \in Seq(Nat)
    BY <1>3 DEF Bytes
  <2>1. /\ part \in Seq(Nat) /\ Len(part) = k
        /\ \A i \in 1 .. k : part[i] = built[i]
    <3>1. \A i \in 1 .. k : built[i] \in Nat
      BY <2>0, <2>s, ElementOfSeq
    <3>2. /\ SubSeq(built, 1, k) \in Seq(Nat)
          /\ Len(SubSeq(built, 1, k)) = IF 1 <= k THEN k - 1 + 1 ELSE 0
          /\ \A i \in 1 .. k - 1 + 1 : SubSeq(built, 1, k)[i] = built[1 + i - 1]
      BY <2>0, <3>1, SubSeqProperties
    <3> QED
      BY <2>0, <2>p, <3>2
  <2>2. CASE k < 3
    BY <2>1, <2>p, <2>2 DEF ParseAt
  <2>3. CASE ~(k < 3)
    <3>p. PICK data3 : data3 = SubSeq(part, 4, k)
      OBVIOUS
    <3>1. /\ data3 \in Seq(Nat) /\ Len(data3) = k - 3
          /\ \A i \in 1 .. k - 3 : data3[i] = part[3 + i]
      <4>1. \A i \in 4 .. k : part[i] \in Nat
        BY <2>0, <2>1, ElementOfSeq
      <4>2. /\ SubSeq(part, 4, k) \in Seq(Nat)
            /\ Len(SubSeq(part, 4, k)) = IF 4 <= k THEN k - 4 + 1 ELSE 0
            /\ \A i \in 1 .. k - 4 + 1 : SubSeq(part, 4, k)[i] = part[4 + i - 1]
        BY <2>0, <4>1, SubSeqProperties
      <4>3. \A i \in 1 .. k - 3 : 4 + i - 1 = 3 + i /\ i \in 1 .. k - 4 + 1
        BY <2>0
      <4>4. Len(data3) = k - 3
        BY <2>0, <2>3, <3>p, <4>2
      <4> QED
        BY <3>p, <4>2, <4>3, <4>4
    <3>2. \A i \in 1 .. Len(data3) : i <= Len(code) => data3[i] = code[i]
      <4> SUFFICES ASSUME NEW i \in 1 .. k - 3, i <= Len(code) PROVE data3[i] = code[i]
        BY <3>1
      <4>1. data3[i] = built[3 + i]
        <5>1. 3 + i \in 1 .. k
          BY <2>0
        <5> QED
          BY <2>1, <3>1, <5>1
      <4>2. built[Len(tag) + i] = code[i]
        <5>1. i \in 1 .. Len(code)
          BY <1>1, <2>0
        <5> QED
          BY <1>0, <1>1, <1>2, <5>1, JoinMiddle
      <4> QED
        BY <1>0, <4>1, <4>2
    <3>3. Decode(data3) \in {Malformed, Length(n, Len(code))}
      <4>1. data3 \in Bytes
        BY <3>1 DEF Bytes
      <4> QED
        BY <1>0, <1>c, <3>2, <4>1, LengthCut
    <3>4. ParseAt(part) = ObjectAt(part, Decode(data3))
      BY <2>1, <2>3, <3>p DEF ParseAt, From
    <3> DEFINE length == Length(n, Len(code))
    <3>5. length.value = n /\ length.size = Len(code)
      BY DEF Length
    <3> HIDE DEF length
    <3>6. ObjectAt(part, length) = Malformed
      <4>1. Len(part) < 3 + length.size + length.value
        BY <2>0, <2>1, <3>5
      <4> QED
        BY <4>1 DEF ObjectAt
    <3>7. ObjectAt(part, Malformed) = Malformed
      BY DEF ObjectAt
    <3> QED
      BY <2>p, <3>3, <3>4, <3>6, <3>7 DEF length
  <2> QED
    BY <2>2, <2>3
<1> QED
  BY <1>9, <1>10, <1>d DEF built

(* src/src/ca/tpdu.rs:83-192: parse() reads the body of a data frame as the *)
(* module built it, whatever the slot and the body.                         *)
THEOREM FramesReadBack ==
    ASSUME NEW slots \in Nat, NEW at \in 0 .. slots - 1,
           NEW data \in Bytes, Len(data) + 1 \in U16
    PROVE  ParseFrame(ModuleFrame(at, data), slots) = data
<1> DEFINE n == Len(data) + 1
<1>c. PICK code : code = Encode(n)
  OBVIOUS
<1>p. PICK start, id, seal, zero :
          /\ start = << at, at + 1, 160 >> /\ id = << at + 1 >>
          /\ seal = << 128, 2, at + 1 >> /\ zero = << 0 >>
  OBVIOUS
<1>1. /\ code \in Bytes /\ Len(code) \in 1 .. 3 /\ Len(data) \in Nat
      /\ Length(n, Len(code)) # Malformed
      /\ \A q \in Bytes : Decode(code \o q) = Length(n, Len(code))
  <2>1. Len(data) \in Nat
    BY DEF Bytes
  <2> QED
    BY <1>c, <2>1, LengthRead
<1>2. start \in Bytes /\ id \in Bytes /\ seal \in Bytes /\ zero \in Bytes
  BY <1>p DEF Bytes
<1>e. /\ Len(start) = 3 /\ start[1] = at /\ start[2] = at + 1 /\ start[3] = 160
      /\ Len(id) = 1 /\ id[1] = at + 1
      /\ Len(seal) = 3 /\ Len(zero) = 1
  BY <1>p
<1>s. PICK status : status = seal \o zero
  OBVIOUS
<1>3. status \in Bytes /\ Len(status) = 4 /\ status = Status(at, 0)
  <2>1. seal \o zero \in Bytes /\ Len(seal \o zero) = Len(seal) + Len(zero)
    BY <1>2, JoinFirst
  <2>2. status = << 128, 2, at + 1, 0 >>
    <3>1. /\ \A i \in 1 .. Len(seal) : (seal \o zero)[i] = seal[i]
          /\ \A i \in 1 .. Len(zero) : (seal \o zero)[Len(seal) + i] = zero[i]
      BY <1>2, JoinFirst, JoinLast
    <3>2. 1 \in 1 .. Len(seal) /\ 2 \in 1 .. Len(seal) /\ 3 \in 1 .. Len(seal)
          /\ 1 \in 1 .. Len(zero) /\ Len(seal) + 1 = 4
      BY <1>e
    <3>3. /\ status[1] = seal[1] /\ status[2] = seal[2] /\ status[3] = seal[3]
          /\ status[4] = zero[1]
      BY <1>s, <3>1, <3>2
    <3>p. PICK whole : whole = << 128, 2, at + 1, 0 >>
      OBVIOUS
    <3>4. /\ whole \in Bytes /\ Len(whole) = 4
          /\ whole[1] = 128 /\ whole[2] = 2 /\ whole[3] = at + 1 /\ whole[4] = 0
      BY <3>p DEF Bytes
    <3>5. /\ status[1] = 128 /\ status[2] = 2 /\ status[3] = at + 1 /\ status[4] = 0
      BY <1>p, <3>3
    <3>6. status \in Seq(Nat) /\ whole \in Seq(Nat) /\ Len(status) = 4
      BY <1>2, <1>e, <1>s, <2>1, <3>4 DEF Bytes
    <3>7. \A i \in 1 .. Len(status) : status[i] = whole[i]
      BY <3>4, <3>5, <3>6
    <3> QED
      BY <3>4, <3>6, <3>7, <3>p, SeqEqual
  <2> QED
    BY <1>2, <1>e, <1>s, <2>1, <2>2 DEF Status, StatusTag
<1>h. PICK head : head = start \o code
  OBVIOUS
<1>4. head \in Bytes /\ Len(head) = 3 + Len(code)
  <2>1. start \o code \in Bytes /\ Len(start \o code) = Len(start) + Len(code)
    <3>1. start \in Bytes /\ code \in Bytes
      BY <1>1, <1>2
    <3> QED
      BY <3>1, JoinFirst
  <2> QED
    BY <1>2, <1>e, <1>h, <2>1
<1>i. PICK front : front = head \o id
  OBVIOUS
<1>5. front \in Bytes /\ Len(front) = 4 + Len(code)
  <2>1. head \o id \in Bytes /\ Len(head \o id) = Len(head) + Len(id)
    <3>1. head \in Bytes /\ id \in Bytes
      BY <1>2, <1>4
    <3> QED
      BY <3>1, JoinFirst
  <2> QED
    BY <1>1, <1>2, <1>e, <1>4, <1>i, <2>1
<1>f. PICK body : body = front \o data
  OBVIOUS
<1>6. body \in Bytes /\ Len(body) = 4 + Len(code) + Len(data)
  <2>1. front \o data \in Bytes /\ Len(front \o data) = Len(front) + Len(data)
    BY <1>5, JoinFirst
  <2> QED
    BY <1>1, <1>5, <1>f, <2>1
<1>g. PICK frame : frame = body \o status
  OBVIOUS
<1>7. frame \in Bytes /\ Len(frame) = 8 + Len(code) + Len(data)
  <2>1. body \o status \in Bytes /\ Len(body \o status) = Len(body) + Len(status)
    BY <1>3, <1>6, JoinFirst
  <2> QED
    BY <1>1, <1>3, <1>6, <1>g, <2>1
<1>8. frame = ModuleFrame(at, data)
  BY <1>3, <1>c, <1>p, <1>h, <1>i, <1>f, <1>g
     DEF ModuleFrame, DataFrame, DataLast
<1>r. PICK rest : rest = data \o status
  OBVIOUS
<1>9. /\ rest \in Bytes /\ frame = front \o rest
  <2>1. data \o status \in Bytes
    BY <1>3, JoinFirst
  <2>2. (front \o data) \o status = front \o (data \o status)
    BY <1>3, <1>5, Regroup
  <2> QED
    BY <1>f, <1>g, <1>r, <2>1, <2>2
<1>t. PICK tail : tail = id \o rest
  OBVIOUS
<1>10. tail \in Bytes /\ frame = head \o tail
  <2>1. id \o rest \in Bytes
    BY <1>2, <1>9, JoinFirst
  <2>2. (head \o id) \o rest = head \o (id \o rest)
    <3>1. head \in Bytes /\ id \in Bytes /\ rest \in Bytes
      BY <1>2, <1>4, <1>9
    <3> QED
      BY <3>1, Regroup
  <2> QED
    BY <1>9, <1>i, <1>t, <2>1, <2>2
<1>u. PICK all : all = code \o tail
  OBVIOUS
<1>11. all \in Bytes /\ frame = start \o all /\ Len(frame) = Len(start) + Len(all)
  <2>1. code \o tail \in Bytes
    BY <1>1, <1>10, JoinFirst
  <2>2. (start \o code) \o tail = start \o (code \o tail)
    <3>1. start \in Bytes /\ code \in Bytes /\ tail \in Bytes
      BY <1>1, <1>2, <1>10
    <3> QED
      BY <3>1, Regroup
  <2>3. all \in Bytes /\ frame = start \o all
    BY <1>10, <1>h, <1>u, <2>1, <2>2
  <2>4. Len(start \o all) = Len(start) + Len(all)
    <3>1. start \in Bytes /\ all \in Bytes
      BY <1>2, <2>3
    <3> QED
      BY <3>1, JoinFirst
  <2> QED
    BY <2>3, <2>4
<1>12. frame[1] = at /\ frame[2] = at + 1 /\ frame[3] = 160
  <2>1. \A i \in 1 .. Len(start) : (start \o all)[i] = start[i]
    <3>1. start \in Bytes /\ all \in Bytes
      BY <1>2, <1>11
    <3> QED
      BY <3>1, JoinFirst
  <2>2. 1 \in 1 .. Len(start) /\ 2 \in 1 .. Len(start) /\ 3 \in 1 .. Len(start)
    BY <1>2, <1>e
  <2> QED
    BY <1>2, <1>e, <1>11, <2>1, <2>2
<1>13. Decode(From(frame, 4)) = Length(n, Len(code))
  <2>1. SubSeq(start \o all, Len(start) + 1, Len(start) + Len(all)) = all
    BY <1>2, <1>11, JoinLast
  <2>2. From(frame, 4) = all
    BY <1>2, <1>e, <1>11, <2>1 DEF From
  <2> QED
    BY <1>1, <1>10, <1>u, <2>2
<1>14. SubSeq(frame, Len(frame) - 3, Len(frame) - 1) = << 128, 2, frame[2] >>
  <2>1. SubSeq((body \o seal) \o zero, Len(body) + 1, Len(body) + Len(seal)) = seal
    BY <1>2, <1>6, JoinMiddle
  <2>2. (body \o seal) \o zero = body \o (seal \o zero)
    BY <1>2, <1>6, Regroup
  <2>3. Len(frame) - 3 = Len(body) + 1 /\ Len(frame) - 1 = Len(body) + Len(seal)
    BY <1>1, <1>2, <1>e, <1>6, <1>7
  <2> QED
    BY <1>12, <1>g, <1>p, <1>s, <2>1, <2>2, <2>3
<1>15. frame[4 + Len(code)] = frame[2]
  <2>1. \A i \in 1 .. Len(id) : ((head \o id) \o rest)[Len(head) + i] = id[i]
    <3>1. head \in Bytes /\ id \in Bytes /\ rest \in Bytes
      BY <1>2, <1>4, <1>9
    <3> QED
      BY <3>1, JoinMiddle
  <2>2. 1 \in 1 .. Len(id) /\ Len(head) + 1 = 4 + Len(code)
    BY <1>1, <1>2, <1>e, <1>4
  <2>3. ((head \o id) \o rest)[Len(head) + 1] = id[1]
    BY <2>1, <2>2
  <2> QED
    BY <1>2, <1>e, <1>9, <1>12, <1>i, <2>2, <2>3
<1>16. SubSeq(frame, 5 + Len(code), Len(frame) - 4) = data
  <2>1. SubSeq((front \o data) \o status, Len(front) + 1, Len(front) + Len(data)) = data
    BY <1>3, <1>5, JoinMiddle
  <2>2. 5 + Len(code) = Len(front) + 1 /\ Len(frame) - 4 = Len(front) + Len(data)
    BY <1>1, <1>5, <1>7
  <2> QED
    BY <1>f, <1>g, <2>1, <2>2
<1> DEFINE length == Length(n, Len(code))
<1>17. length.value = n /\ length.size = Len(code) /\ length # Malformed
  BY <1>1 DEF Length
<1>18. FrameBody(frame, length) = data
  <2> HIDE DEF length
  <2>1. /\ ~(length.value < 1)
        /\ 3 + length.size + length.value + 4 = Len(frame)
        /\ length # Malformed
    BY <1>1, <1>7, <1>17
  <2>2. /\ frame[4 + length.size] = frame[2]
        /\ SubSeq(frame, 5 + length.size, Len(frame) - 4) = data
    BY <1>15, <1>16, <1>17
  <2> HIDE DEF n
  <2> QED
    BY <2>1, <2>2 DEF FrameBody
<1>19. /\ ~(Len(frame) < 5)
       /\ frame[2] \in 1 .. slots /\ frame[1] = frame[2] - 1
       /\ frame[3] \in {160, 161}
  BY <1>1, <1>7, <1>12
<1>20. ParseFrame(frame, slots) = FrameBody(frame, length)
  BY <1>13, <1>14, <1>19
     DEF ParseFrame, StatusTag, DataLast, DataMore
<1> QED
  BY <1>8, <1>18, <1>20

(* A frame is as long as its three bytes, its length, its t_c_id and its    *)
(* body.                                                                    *)
LEMMA FrameSize ==
    ASSUME NEW at \in Nat, NEW tag \in Nat,
           NEW data \in Bytes, Len(data) + 1 \in U16
    PROVE  /\ Len(DataFrame(at, tag, data)) \in Nat
           /\ Len(DataFrame(at, tag, data)) <= 7 + Len(data)
<1>c. PICK code, start, id : /\ code = Encode(Len(data) + 1)
                             /\ start = << at, at + 1, tag >>
                             /\ id = << at + 1 >>
  OBVIOUS
<1>1. code \in Bytes /\ Len(code) \in 1 .. 3 /\ Len(data) \in Nat
  <2>1. <<>> \in Bytes /\ Len(data) \in Nat
    BY DEF Bytes
  <2>2. PICK n : n = Len(data) + 1
    OBVIOUS
  <2>3. n \in U16 /\ code = Encode(n)
    BY <1>c, <2>2
  <2>4. Encode(n) \in Bytes /\ Len(Encode(n)) \in 1 .. 3
    BY <2>1, <2>3, LengthRead
  <2> QED
    BY <2>1, <2>3, <2>4
<1>2. /\ start \in Bytes /\ Len(start) = 3 /\ id \in Bytes /\ Len(id) = 1
  BY <1>c DEF Bytes
<1>h. PICK head, front : head = start \o code /\ front = (start \o code) \o id
  OBVIOUS
<1>3. head \in Bytes /\ Len(head) = 3 + Len(code)
  <2>1. start \o code \in Bytes /\ Len(start \o code) = Len(start) + Len(code)
    BY <1>1, <1>2, JoinFirst
  <2> QED
    BY <1>2, <1>h, <2>1
<1>4. front \in Bytes /\ Len(front) = 4 + Len(code)
  <2>1. head \o id \in Bytes /\ Len(head \o id) = Len(head) + Len(id)
    BY <1>2, <1>3, JoinFirst
  <2> QED
    BY <1>1, <1>2, <1>3, <1>h, <2>1
<1>5. Len(front \o data) = 4 + Len(code) + Len(data)
  <2>1. Len(front \o data) = Len(front) + Len(data)
    BY <1>4, JoinFirst
  <2> QED
    BY <1>1, <1>4, <2>1
<1>6. DataFrame(at, tag, data) = front \o data
  BY <1>c, <1>h DEF DataFrame
<1>7. /\ 4 + Len(code) + Len(data) \in Nat
      /\ 4 + Len(code) + Len(data) <= 7 + Len(data)
  <2>1. \A c \in 1 .. 3, d \in Nat : 4 + c + d \in Nat /\ 4 + c + d <= 7 + d
    OBVIOUS
  <2> QED
    BY <1>1, <2>1
<1>8. Len(DataFrame(at, tag, data)) = 4 + Len(code) + Len(data)
  BY <1>5, <1>6
<1> QED
  BY <1>7, <1>8

(* The pieces of a whole: none is empty, none is longer than its room, and  *)
(* the last reaches the end.                                                *)
LEMMA CutInPieces ==
    ASSUME NEW room \in Nat \ {0}, NEW whole \in Nat,
           NEW count, count = (whole + room - 1) \div room,
           NEW i \in 1 .. count, NEW end,
           end = IF i = count THEN whole ELSE i * room
    PROVE  /\ count \in Nat /\ (i - 1) * room \in Nat /\ end \in Nat
           /\ (i - 1) * room + 1 <= end /\ end <= whole
           /\ end - (i - 1) * room <= room
<1>1. /\ count \in Int /\ room * count <= whole + room - 1
      /\ whole + room - 1 < room * count + room
  OBVIOUS
<1>2. i \in Nat /\ 1 <= i /\ i <= count /\ count \in Nat
  BY <1>1
<1>3. room * count = (count - 1) * room + room
  BY <1>2
<1>4. (count - 1) * room + 1 <= whole /\ whole <= (count - 1) * room + room
  BY <1>1, <1>2, <1>3
<1>5. /\ (i - 1) * room \in Nat /\ i * room = (i - 1) * room + room
  BY <1>2
<1>6. CASE i = count
  BY <1>2, <1>4, <1>5, <1>6
<1>7. CASE i # count
  <2>1. i <= count - 1
    BY <1>2, <1>7
  <2>2. i * room <= (count - 1) * room
    BY <1>2, <2>1
  <2>3. i * room \in Nat /\ (count - 1) * room \in Nat
    BY <1>2
  <2> QED
    BY <1>2, <1>4, <1>5, <1>7, <2>2, <2>3
<1> QED
  BY <1>6, <1>7

(* src/src/ca/transport.rs:173-211: send_apdu() and send_spdu() cut an      *)
(* object of the host into frames that fit the link, each carries the bytes *)
(* that follow those of the one before, and the last reaches the end.       *)
THEOREM FramesFit ==
    ASSUME NEW at \in Nat, NEW blob \in Bytes,
           NEW i \in 1 .. Pieces(blob)
    PROVE  \E data \in Bytes :
              LET first == (i - 1) * MaxTpduData
                  last == i = Pieces(blob)
                  frame == Frames(at, blob)[i]
                  tag == IF last THEN DataLast ELSE DataMore
              IN  /\ frame = DataFrame(at, tag, data)
                  /\ Len(frame) <= MaxTpduSize /\ Len(data) + 1 \in U16
                  /\ first + Len(data) = IF last THEN Len(blob) ELSE i * MaxTpduData
                  /\ \A k \in 1 .. Len(data) : data[k] = blob[first + k]
<1>p. PICK room, count, end, first :
          /\ room = MaxTpduData /\ count = Pieces(blob)
          /\ end = IF i = count THEN Len(blob) ELSE i * room
          /\ first = (i - 1) * room
  OBVIOUS
<1>1. /\ Base \in Nat /\ MaxTpduSize \in Nat /\ MaxTpduSize < Base * Base
      /\ room \in Nat \ {0} /\ room = MaxTpduSize - 7
  BY <1>p, WireAssumption DEF Sizes, MaxTpduData
<1>2. Len(blob) \in Nat /\ count = (Len(blob) + room - 1) \div room /\ i \in 1 .. count
  BY <1>p DEF Bytes, Pieces
<1>3. /\ first \in Nat /\ end \in Nat /\ first + 1 <= end /\ end <= Len(blob)
      /\ end - first <= room /\ count \in Nat
  <2>1. /\ count \in Nat /\ (i - 1) * room \in Nat /\ end \in Nat
        /\ (i - 1) * room + 1 <= end /\ end <= Len(blob)
        /\ end - (i - 1) * room <= room
    BY <1>p, <1>1, <1>2, CutInPieces
  <2> QED
    BY <1>p, <2>1
<1>d. PICK data : data = SubSeq(blob, first + 1, end)
  OBVIOUS
<1>4. /\ data \in Bytes /\ Len(data) = end - first
      /\ \A k \in 1 .. end - first : data[k] = blob[first + k]
  <2>1. blob \in Seq(Nat)
    BY DEF Bytes
  <2>2. \A k \in first + 1 .. end : blob[k] \in Nat
    <3> TAKE k \in first + 1 .. end
    <3>1. k \in 1 .. Len(blob)
      BY <1>2, <1>3
    <3> QED
      BY <2>1, <3>1, ElementOfSeq
  <2>3. /\ SubSeq(blob, first + 1, end) \in Seq(Nat)
        /\ Len(SubSeq(blob, first + 1, end)) =
              IF first + 1 <= end THEN end - (first + 1) + 1 ELSE 0
        /\ \A k \in 1 .. end - (first + 1) + 1 :
              SubSeq(blob, first + 1, end)[k] = blob[first + 1 + k - 1]
    <3>1. PICK from : from = first + 1
      OBVIOUS
    <3>2. from \in Int /\ end \in Int /\ \A k \in from .. end : blob[k] \in Nat
      BY <1>3, <2>2, <3>1
    <3>3. /\ SubSeq(blob, from, end) \in Seq(Nat)
          /\ Len(SubSeq(blob, from, end)) = IF from <= end THEN end - from + 1 ELSE 0
          /\ \A k \in 1 .. end - from + 1 : SubSeq(blob, from, end)[k] = blob[from + k - 1]
      BY <2>1, <3>2, SubSeqProperties
    <3> QED
      BY <3>1, <3>3
  <2>4. \A k \in 1 .. end - first :
            k \in 1 .. end - (first + 1) + 1 /\ first + 1 + k - 1 = first + k
    BY <1>3
  <2>5. Len(data) = end - first
    BY <1>3, <1>d, <2>3
  <2> QED
    BY <1>d, <2>3, <2>4, <2>5 DEF Bytes
<1>g. PICK tag : tag = IF i = count THEN DataLast ELSE DataMore
  OBVIOUS
<1>5. Frames(at, blob)[i] = DataFrame(at, tag, data)
  BY <1>p, <1>2, <1>d, <1>g DEF Frames
<1>6. Len(DataFrame(at, tag, data)) <= MaxTpduSize /\ Len(data) + 1 \in U16
  <2>1. tag \in Nat
    BY <1>g DEF DataLast, DataMore
  <2>2. Len(data) \in Nat /\ Len(data) <= room
    BY <1>3, <1>4
  <2>3. Len(data) + 1 \in U16
    <3>1. Len(data) + 1 \in Nat /\ Len(data) + 1 < MaxTpduSize
      BY <1>1, <2>2
    <3>2. PICK top : top = Base * Base
      OBVIOUS
    <3>3. top \in Nat /\ MaxTpduSize < top
      BY <1>1, <3>2
    <3>4. Len(data) + 1 \in 0 .. top - 1
      BY <1>1, <3>1, <3>3
    <3> QED
      BY <3>2, <3>4 DEF U16
  <2>4. /\ Len(DataFrame(at, tag, data)) \in Nat
        /\ Len(DataFrame(at, tag, data)) <= 7 + Len(data)
    BY <1>4, <2>1, <2>3, FrameSize
  <2> QED
    BY <1>1, <2>2, <2>3, <2>4
<1>7. first + Len(data) = end /\ \A k \in 1 .. Len(data) : data[k] = blob[first + k]
  BY <1>3, <1>4
<1> QED
  BY <1>p, <1>g, <1>4, <1>5, <1>6, <1>7

-----------------------------------------------------------------------------
(* Byte strings joined, and functions defined down from the end of the data.*)

(* Of a set of numbers there is a smallest.                                *)
LEMMA LeastOf ==
    ASSUME NEW T \in SUBSET Nat, T # {}
    PROVE  \E x \in T : \A y \in T : x <= y
<1> DEFINE R == {p \in Nat \X Nat : p[1] < p[2]}
<1>1. R = OpToRel(<, Nat)
  BY DEF OpToRel
<1>2. IsWellFoundedOn(R, Nat)
  BY <1>1, NatLessThanWellFounded
<1>3. PICK x \in T : \A y \in T : ~ (<<y, x>> \in R)
  <2> HIDE DEF R
  <2> QED BY <1>2, WFMin
<1>4. ASSUME NEW y \in T PROVE x <= y
  <2>1. x \in Nat /\ y \in Nat
    OBVIOUS
  <2>2. <<y, x>> \in Nat \X Nat /\ <<y, x>>[1] = y /\ <<y, x>>[2] = x
    BY <2>1
  <2>3. ~(y < x)
    BY <1>3, <2>2
  <2> QED BY <2>1, <2>3
<1> QED BY <1>4

(* A set that has the first of some numbers, and the next of each it has,
   has them all.                                                           *)
LEMMA Upwards ==
    ASSUME NEW n \in Nat, NEW T \in SUBSET (0 .. n), 0 \in T,
           \A i \in 1 .. n : i - 1 \in T => i \in T
    PROVE  T = 0 .. n
<1> DEFINE Gone == (0 .. n) \ T
<1> SUFFICES ASSUME Gone # {} PROVE FALSE
  OBVIOUS
<1>1. Gone \in SUBSET Nat
  OBVIOUS
<1>2. PICK x \in Gone : \A y \in Gone : x <= y
  <2> HIDE DEF Gone
  <2> QED BY <1>1, LeastOf
<1>3. x \in 1 .. n /\ x - 1 \in 0 .. n
  BY <1>2
<1>4. x - 1 \in T
  BY <1>2, <1>3
<1> QED BY <1>2, <1>3, <1>4

(* And one that has a number whenever it has all above it.                 *)
LEMMA Downwards ==
    ASSUME NEW n \in Nat, NEW T \in SUBSET (0 .. n),
           \A i \in 0 .. n : i + 1 .. n \subseteq T => i \in T
    PROVE  T = 0 .. n
<1> DEFINE Gone == {k \in 0 .. n : n - k \notin T}
<1> SUFFICES ASSUME Gone # {} PROVE FALSE
  <2> SUFFICES ASSUME NEW i \in 0 .. n, i \notin T PROVE Gone # {}
    OBVIOUS
  <2>1. n - i \in 0 .. n /\ n - (n - i) = i
    OBVIOUS
  <2> QED BY <2>1
<1>1. Gone \in SUBSET Nat
  OBVIOUS
<1>2. PICK x \in Gone : \A y \in Gone : x <= y
  <2> HIDE DEF Gone
  <2> QED BY <1>1, LeastOf
<1>3. n - x \in 0 .. n /\ n - x \notin T
  BY <1>2
<1>4. \A j \in n - x + 1 .. n : j \in T
  <2> TAKE j \in n - x + 1 .. n
  <2>1. n - j \in 0 .. n /\ n - (n - j) = j /\ ~(x <= n - j)
    BY <1>3, <1>2
  <2> QED BY <1>2, <2>1
<1> QED BY <1>3, <1>4

-----------------------------------------------------------------------------
(* FlattenSeq: nothing of nothing, and one string after the others.        *)
Joins(n, ss, flat) ==
    \A i \in 1 .. n : flat[i] = IF i = 1 THEN ss[i] ELSE flat[i - 1] \o ss[i]

(* Joining byte strings is done from the first to the last.                 *)
LEMMA JoinsExist ==
    ASSUME NEW ss \in Seq(Bytes), ss # <<>>
    PROVE  \E flat : Joins(Len(ss), ss, flat) /\ FlattenSeq(ss) = flat[Len(ss)]
<1> DEFINE n == Len(ss)
           Joined(f, i) == IF i = 1 THEN ss[i] ELSE f[i - 1] \o ss[i]
           Built(k) == \E f : f = [i \in 1 .. k |-> Joined(f, i)]
           T == {k \in 0 .. n : Built(k)}
<1>1. n \in Nat /\ n # 0
  OBVIOUS
<1>2. T = 0 .. n
  <2>1. 0 \in T
    <3> DEFINE f == [i \in 1 .. 0 |-> ss[i]]
    <3>1. f = [i \in 1 .. 0 |-> Joined(f, i)]
      OBVIOUS
    <3>2. Built(0)
      BY <3>1
    <3> HIDE DEF Built
    <3> QED BY <3>2, <1>1
  <2>2. ASSUME NEW k \in 1 .. n, k - 1 \in T PROVE k \in T
    <3>1. PICK f : f = [i \in 1 .. k - 1 |-> Joined(f, i)]
      BY <2>2
    <3> DEFINE g == [i \in 1 .. k |-> IF i = k THEN Joined(f, k) ELSE f[i]]
    <3>2. \A i \in 1 .. k : g[i] = Joined(g, i)
      <4> TAKE i \in 1 .. k
      <4>1. CASE i = 1
        <5>1. CASE i = k
          BY <4>1, <5>1
        <5>2. CASE i # k
          <6>1. i \in 1 .. k - 1 /\ g[i] = f[i]
            BY <5>2
          <6>2. f[i] = Joined(f, i)
            BY <3>1, <6>1
          <6> QED BY <4>1, <6>1, <6>2
        <5> QED BY <5>1, <5>2
      <4>2. CASE i # 1
        <5>1. i - 1 \in 1 .. k - 1 /\ i - 1 \in 1 .. k /\ i - 1 # k
          BY <4>2
        <5>2. g[i - 1] = f[i - 1]
          BY <5>1
        <5>3. g[i] = f[i - 1] \o ss[i]
          <6>1. CASE i = k
            BY <4>2, <6>1
          <6>2. CASE i # k
            <7>1. i \in 1 .. k - 1 /\ g[i] = f[i]
              BY <6>2
            <7>2. f[i] = Joined(f, i)
              BY <3>1, <7>1
            <7> QED BY <4>2, <7>1, <7>2
          <6> QED BY <6>1, <6>2
        <5> QED BY <4>2, <5>2, <5>3
      <4> QED BY <4>1, <4>2
    <3>3. g = [i \in 1 .. k |-> Joined(g, i)]
      <4> HIDE DEF Joined
      <4> QED BY <3>2
    <3>4. Built(k)
      <4> HIDE DEF g, Joined
      <4> QED BY <3>3
    <3> HIDE DEF Built
    <3> QED BY <3>4, <1>1
  <2> HIDE DEF n, T, Built
  <2>3. T \in SUBSET (0 .. n)
    BY DEF T
  <2> QED BY <2>1, <2>2, <2>3, <1>1, Upwards
<1>3. \E f : f = [i \in 1 .. n |-> Joined(f, i)]
  <2>1. n \in T
    <3> HIDE DEF T, n
    <3> QED BY <1>1, <1>2
  <2>2. Built(n)
    <3> HIDE DEF Built
    <3> QED BY <2>1
  <2> QED BY <2>2
<1> DEFINE flat == CHOOSE f : f = [i \in 1 .. n |-> Joined(f, i)]
<1>4. flat = [i \in 1 .. n |-> Joined(flat, i)]
  BY <1>3
<1>5. FlattenSeq(ss) = flat[n]
  BY <1>1 DEF FlattenSeq
<1>6. Joins(n, ss, flat)
  <2> HIDE DEF flat
  <2> QED BY <1>4 DEF Joins
<1> QED BY <1>5, <1>6

(* Two joinings of the same strings agree as far as both go.                *)
LEMMA JoinsAlike ==
    ASSUME NEW n \in Nat, NEW f, NEW g, NEW ss, NEW tt,
           \A i \in 1 .. n : ss[i] = tt[i], Joins(n, ss, f), Joins(n, tt, g)
    PROVE  \A i \in 1 .. n : f[i] = g[i]
<1> DEFINE T == {k \in 0 .. n : k = 0 \/ f[k] = g[k]}
<1>1. 0 \in T
  OBVIOUS
<1>2. ASSUME NEW k \in 1 .. n, k - 1 \in T PROVE k \in T
  <2>1. CASE k = 1
    <3>1. f[1] = ss[1] /\ g[1] = tt[1] /\ ss[1] = tt[1]
      BY <2>1 DEF Joins
    <3> QED BY <2>1, <3>1
  <2>2. CASE k # 1
    <3>1. f[k - 1] = g[k - 1] /\ k - 1 # 0
      BY <1>2, <2>2
    <3>2. f[k] = f[k - 1] \o ss[k] /\ g[k] = g[k - 1] \o tt[k] /\ ss[k] = tt[k]
      BY <2>2 DEF Joins
    <3>3. f[k] = g[k]
      BY <3>1, <3>2
    <3> QED BY <3>3
  <2> QED BY <2>1, <2>2
<1>3. T \in SUBSET (0 .. n)
  OBVIOUS
<1>4. T = 0 .. n
  <2> HIDE DEF T
  <2> QED BY <1>1, <1>2, <1>3, Upwards
<1> QED BY <1>4

(* What stands before: strings joined are a string, and one more is joined
   at the end.                                                             *)
LEMMA FlattenNone == FlattenSeq(<<>>) = <<>>
  BY DEF FlattenSeq

(* A last byte string more is appended.                                     *)
LEMMA FlattenOne ==
    ASSUME NEW ss \in Seq(Bytes), NEW x \in Bytes
    PROVE  FlattenSeq(Append(ss, x)) = FlattenSeq(ss) \o x
<1>p. PICK tt, n : tt = Append(ss, x) /\ n = Len(ss)
  OBVIOUS
<1>1. /\ n \in Nat /\ tt \in Seq(Bytes) /\ Len(tt) = n + 1 /\ tt # <<>>
      /\ \A i \in 1 .. n : ss[i] = tt[i]
      /\ tt[n + 1] = x
  BY <1>p
<1>2. PICK g : Joins(n + 1, tt, g) /\ FlattenSeq(tt) = g[n + 1]
  <2>1. PICK g : Joins(Len(tt), tt, g) /\ FlattenSeq(tt) = g[Len(tt)]
    BY <1>1, JoinsExist
  <2> QED BY <1>1, <2>1
<1>3. CASE ss = <<>>
  <2>1. n = 0 /\ n + 1 = 1
    BY <1>p, <1>3
  <2>2. FlattenSeq(tt) = x
    <3>1. g[1] = tt[1]
      BY <1>2, <2>1 DEF Joins
    <3> QED BY <1>1, <1>2, <2>1, <3>1
  <2>3. <<>> \o x = x
    <3>1. x \in Seq(Nat)
      BY DEF Bytes
    <3> QED BY <3>1, ConcatEmptySeq
  <2>4. FlattenSeq(ss) = <<>>
    BY <1>3, FlattenNone
  <2> QED BY <1>p, <2>2, <2>3, <2>4
<1>4. CASE ss # <<>>
  <2>1. n # 0
    BY <1>p, <1>4
  <2>2. PICK f : Joins(n, ss, f) /\ FlattenSeq(ss) = f[n]
    BY <1>p, <1>4, JoinsExist
  <2>3. g[n + 1] = g[n] \o x
    <3>p. PICK m : m = n + 1
      OBVIOUS
    <3>1. m \in 1 .. m /\ m # 1 /\ m - 1 = n
      BY <1>1, <2>1, <3>p
    <3>2. Joins(m, tt, g)
      BY <1>2, <3>p
    <3>3. g[m] = g[m - 1] \o tt[m]
      BY <3>1, <3>2 DEF Joins
    <3> QED BY <1>1, <3>1, <3>3, <3>p
  <2>4. f[n] = g[n]
    <3>1. Joins(n, tt, g)
      <4>1. \A i \in 1 .. n : i \in 1 .. n + 1
        BY <1>1
      <4> QED BY <1>2, <4>1 DEF Joins
    <3>2. \A i \in 1 .. n : f[i] = g[i]
      BY <1>1, <2>2, <3>1, JoinsAlike
    <3> QED BY <1>1, <2>1, <3>2
  <2> QED BY <1>2, <1>p, <2>2, <2>3, <2>4
<1> QED BY <1>3, <1>4

(* Byte strings joined are a byte string.                                   *)
LEMMA FlattenType ==
    ASSUME NEW ss \in Seq(Bytes)
    PROVE  FlattenSeq(ss) \in Bytes
<1>1. CASE ss = <<>>
  <2>1. FlattenSeq(ss) = <<>>
    BY <1>1, FlattenNone
  <2> QED BY <2>1 DEF Bytes
<1>2. CASE ss # <<>>
  <2>p. PICK n : n = Len(ss)
    OBVIOUS
  <2>1. PICK f : Joins(n, ss, f) /\ FlattenSeq(ss) = f[n]
    BY <1>2, <2>p, JoinsExist
  <2>2. n \in Nat /\ n # 0 /\ \A k \in 1 .. n : ss[k] \in Bytes
    BY <1>2, <2>p
  <2> DEFINE T == {k \in 0 .. n : k = 0 \/ f[k] \in Bytes}
  <2>3. 0 \in T /\ T \in SUBSET (0 .. n)
    BY <2>2
  <2>4. ASSUME NEW k \in 1 .. n, k - 1 \in T PROVE k \in T
    <3>1. ss[k] \in Bytes
      BY <2>2
    <3>2. CASE k = 1
      <4>1. f[1] = ss[1]
        BY <2>1, <3>2 DEF Joins
      <4> QED BY <3>1, <3>2, <4>1
    <3>3. CASE k # 1
      <4>1. f[k] = f[k - 1] \o ss[k]
        BY <2>1, <3>3 DEF Joins
      <4>2. f[k - 1] \in Bytes
        BY <2>2, <2>4, <3>3
      <4>3. f[k - 1] \o ss[k] \in Bytes
        BY <3>1, <4>2, JoinFirst
      <4>4. f[k] \in Bytes
        BY <4>1, <4>3
      <4> QED BY <4>4
    <3> QED BY <3>2, <3>3
  <2>5. T = 0 .. n
    <3> HIDE DEF T
    <3> QED BY <2>2, <2>3, <2>4, Upwards
  <2>6. n \in T
    <3> HIDE DEF T
    <3> QED BY <2>2, <2>5
  <2> QED BY <2>1, <2>2, <2>6
<1> QED BY <1>1, <1>2

(* What is left of a string behind a place.                                *)
LEMMA FromBytes ==
    ASSUME NEW data \in Bytes, NEW i \in 0 .. Len(data)
    PROVE  /\ From(data, i + 1) \in Bytes
           /\ Len(From(data, i + 1)) = Len(data) - i
           /\ \A k \in 1 .. Len(data) - i : From(data, i + 1)[k] = data[i + k]
<1>1. data \in Seq(Nat) /\ Len(data) \in Nat
  BY DEF Bytes
<1>p. PICK m, n : m = i + 1 /\ n = Len(data)
  OBVIOUS
<1>2. m \in Int /\ n \in Int /\ \A k \in m .. n : data[k] \in Nat
  <2>1. \A k \in m .. n : k \in 1 .. Len(data)
    BY <1>1, <1>p
  <2> QED BY <1>1, <1>p, <2>1, ElementOfSeq
<1>3. /\ SubSeq(data, m, n) \in Seq(Nat)
      /\ Len(SubSeq(data, m, n)) = IF m <= n THEN n - m + 1 ELSE 0
      /\ \A k \in 1 .. n - m + 1 : SubSeq(data, m, n)[k] = data[m + k - 1]
  BY <1>1, <1>2, SubSeqProperties
<1>4. \A k \in 1 .. Len(data) - i : k \in 1 .. n - m + 1 /\ m + k - 1 = i + k
  BY <1>1, <1>p
<1>5. (IF m <= n THEN n - m + 1 ELSE 0) = Len(data) - i
  BY <1>1, <1>p
<1> QED BY <1>3, <1>4, <1>5, <1>p DEF From, Bytes

(* A length field that is read has a value and takes one to three bytes.    *)
LEMMA LengthIsNat ==
    ASSUME NEW data \in Bytes
    PROVE  \/ Decode(data) = Malformed
           \/ Decode(data).value \in Nat /\ Decode(data).size \in 1 .. 3
<1>1. data \in Seq(Nat) /\ Len(data) \in Nat /\ Base \in Nat
  BY WireAssumption DEF Bytes, Sizes
<1>2. \A k \in 1 .. Len(data) : data[k] \in Nat
  BY <1>1
<1>3. CASE data # <<>> /\ data[1] < Half
  <2>1. data[1] \in Nat
    BY <1>1, <1>2, <1>3
  <2>2. Decode(data) = Length(data[1], 1)
    BY <1>3 DEF Decode
  <2> QED BY <2>1, <2>2 DEF Length
<1>4. CASE data # <<>> /\ ~(data[1] < Half) /\ data[1] = Half + 1 /\ Len(data) >= 2
  <2>1. data[2] \in Nat
    BY <1>1, <1>2, <1>4
  <2>2. Decode(data) = Length(data[2], 2)
    BY <1>4 DEF Decode
  <2> QED BY <2>1, <2>2 DEF Length
<1>5. CASE data # <<>> /\ ~(data[1] < Half) /\ ~(data[1] = Half + 1 /\ Len(data) >= 2)
           /\ data[1] = Half + 2 /\ Len(data) >= 3
  <2>1. data[2] \in Nat /\ data[3] \in Nat
    BY <1>1, <1>2, <1>5
  <2>2. Decode(data) = Length(data[2] * Base + data[3], 3)
    BY <1>5 DEF Decode
  <2>3. data[2] * Base + data[3] \in Nat
    BY <1>1, <2>1
  <2> QED BY <2>2, <2>3 DEF Length
<1> QED BY <1>3, <1>4, <1>5 DEF Decode

(* An object that is read takes its size of the string, and not nothing.   *)
LEMMA ParsedSize ==
    ASSUME NEW data \in Bytes, ParseAt(data) # Malformed
    PROVE  /\ ParseAt(data).size \in 1 .. Len(data)
           /\ ParseAt(data).apdu \in [tag : Bytes, body : Bytes]
<1>1. PICK length : length = Decode(From(data, 4))
  OBVIOUS
<1>2. Len(data) \in Nat /\ ~(Len(data) < 3)
  BY DEF ParseAt, Bytes
<1>3. ParseAt(data) = ObjectAt(data, length)
  BY <1>1, <1>2 DEF ParseAt
<1>4. From(data, 4) \in Bytes
  <2>1. 3 \in 0 .. Len(data) /\ 3 + 1 = 4
    BY <1>2
  <2> QED BY <2>1, FromBytes
<1>5. length # Malformed
  BY <1>3 DEF ObjectAt
<1>6. length.value \in Nat /\ length.size \in 1 .. 3
  BY <1>1, <1>4, <1>5, LengthIsNat
<1>7. PICK end : end = 3 + length.size + length.value
  OBVIOUS
<1>8. end \in Nat /\ 4 + length.size <= end + 1 /\ 4 + length.size \in Nat /\ end >= 4
  BY <1>6, <1>7
<1>9. end <= Len(data)
  BY <1>2, <1>3, <1>5, <1>7, <1>8 DEF ObjectAt
<1>10. ParseAt(data) = [apdu |-> Apdu(SubSeq(data, 1, 3), SubSeq(data, 4 + length.size, end)),
                        size |-> end]
  BY <1>2, <1>3, <1>5, <1>7, <1>8, <1>9 DEF ObjectAt
<1>11. \A a, b \in Nat : a >= 1 /\ b <= Len(data) => SubSeq(data, a, b) \in Bytes
  <2> TAKE a, b \in Nat
  <2> HAVE a >= 1 /\ b <= Len(data)
  <2>1. data \in Seq(Nat) /\ \A k \in a .. b : data[k] \in Nat
    <3>1. data \in Seq(Nat) /\ \A k \in a .. b : k \in 1 .. Len(data)
      BY <1>2 DEF Bytes
    <3> QED BY <3>1, ElementOfSeq
  <2>2. SubSeq(data, a, b) \in Seq(Nat)
    BY <2>1, SubSeqProperties
  <2> QED BY <2>2 DEF Bytes
<1>12. SubSeq(data, 1, 3) \in Bytes /\ SubSeq(data, 4 + length.size, end) \in Bytes
  BY <1>2, <1>6, <1>8, <1>9, <1>11
<1> QED BY <1>8, <1>9, <1>10, <1>12, <1>2 DEF Apdu

(* A function of the places of a string that at each place either stops or
   goes on at a later one: with one more of a sequence (apdu::iter,
   parse_menu), or with a piece of a text, of which nothing is left when what
   follows is damaged (parse_text).                                        *)
GoesOn(n, stops, size) == \A i \in 0 .. n : ~stops[i] => size[i] \in 1 .. n - i
Gains(chained, item, size, rest) ==
    IF ~chained THEN << item >> \o rest
    ELSE IF rest = Malformed THEN Malformed
    ELSE [value |-> item \o rest.value, size |-> size + rest.size]

Collected(chained, n, stops, stop, item, size, f) ==
    f = [i \in 0 .. n |-> IF stops[i] THEN stop[i]
                          ELSE Gains(chained, item[i], size[i], f[i + size[i]])]

(* A function that is defined from the end of the data down exists: every   *)
(* step leads to a later position.                                          *)
LEMMA FromAbove ==
    ASSUME NEW chained, NEW n \in Nat, NEW stops, NEW stop, NEW item, NEW size,
           GoesOn(n, stops, size)
    PROVE  \E f : Collected(chained, n, stops, stop, item, size, f)
<1> DEFINE At1(f, i) == IF stops[i] THEN stop[i]
                        ELSE Gains(chained, item[i], size[i], f[i + size[i]])
           Built(k) == \E f : f = [i \in k .. n |-> At1(f, i)]
           T == {k \in 0 .. n : Built(k)}
<1>1. ASSUME NEW k \in 0 .. n, k + 1 .. n \subseteq T PROVE k \in T
  <2>1. \E f : \A i \in k + 1 .. n : f[i] = At1(f, i)
    <3>1. CASE k = n
      BY <3>1
    <3>2. CASE k # n
      <4>1. k + 1 \in T
        <5> HIDE DEF T
        <5> QED BY <1>1, <3>2
      <4>2. Built(k + 1)
        <5> HIDE DEF Built
        <5> QED BY <4>1
      <4>3. PICK f : f = [i \in k + 1 .. n |-> At1(f, i)]
        BY <4>2
      <4>4. \A i \in k + 1 .. n : f[i] = At1(f, i)
        <5> HIDE DEF At1
        <5> QED BY <4>3
      <4> HIDE DEF At1
      <4> QED BY <4>4
    <3> QED BY <3>1, <3>2
  <2>2. PICK f : \A i \in k + 1 .. n : f[i] = At1(f, i)
    BY <2>1
  <2> DEFINE g == [i \in k .. n |-> IF i = k THEN At1(f, k) ELSE f[i]]
  <2>3. \A i \in k + 1 .. n : g[i] = f[i]
    <3> HIDE DEF At1
    <3> QED OBVIOUS
  <2>4. \A i \in k .. n : At1(g, i) = At1(f, i)
    <3> TAKE i \in k .. n
    <3>1. CASE stops[i]
      BY <3>1
    <3>2. CASE ~stops[i]
      <4>1. i + size[i] \in k + 1 .. n
        <5>1. i \in 0 .. n
          OBVIOUS
        <5>2. size[i] \in 1 .. n - i
          BY <3>2, <5>1 DEF GoesOn
        <5> QED BY <5>2
      <4>2. g[i + size[i]] = f[i + size[i]]
        <5> HIDE DEF g
        <5> QED BY <2>3, <4>1
      <4> HIDE DEF g
      <4> QED BY <3>2, <4>2
    <3> QED BY <3>1, <3>2
  <2>5. \A i \in k .. n : g[i] = At1(f, i)
    <3> TAKE i \in k .. n
    <3>1. CASE i = k
      <4> HIDE DEF At1
      <4> QED BY <3>1
    <3>2. CASE i # k
      <4>1. i \in k + 1 .. n
        BY <3>2
      <4>2. g[i] = f[i] /\ f[i] = At1(f, i)
        <5> HIDE DEF g, At1
        <5> QED BY <2>2, <2>3, <4>1
      <4> QED BY <4>2
    <3> QED BY <3>1, <3>2
  <2>6. g = [i \in k .. n |-> At1(g, i)]
    <3>1. \A i \in k .. n : g[i] = At1(g, i)
      <4> HIDE DEF g, At1
      <4> QED BY <2>4, <2>5
    <3>2. g = [i \in k .. n |-> g[i]]
      <4> HIDE DEF At1
      <4> QED OBVIOUS
    <3> HIDE DEF g, At1
    <3> QED BY <3>1, <3>2
  <2>7. Built(k)
    <3> HIDE DEF g, At1
    <3> QED BY <2>6
  <2> HIDE DEF Built
  <2> QED BY <2>7
<1>2. T \in SUBSET (0 .. n)
  <2> HIDE DEF Built
  <2> QED OBVIOUS
<1>3. T = 0 .. n
  <2> HIDE DEF T
  <2> QED BY <1>1, <1>2, Downwards
<1>4. 0 \in T
  <2> HIDE DEF T
  <2> QED BY <1>3
<1>5. Built(0)
  <2> HIDE DEF Built
  <2> QED BY <1>4
<1> QED BY <1>5 DEF Collected

-----------------------------------------------------------------------------
(* iter(): the objects that are read from the bytes of several, cut anywhere.*)

(* apdu::iter as it goes along: at the end it stops, at a damaged object it
   yields an error and stops, and any other it yields and goes on behind.  *)
Iterates(data, after) ==
    \A i \in 0 .. Len(data) :
        LET next == ParseAt(From(data, i + 1))
        IN  after[i] = IF i = Len(data) THEN <<>>
                       ELSE IF next = Malformed THEN << Malformed >>
                       ELSE << next.apdu >> \o after[i + next.size]

(* iter() reads an object, then what follows it, to the end of the data or  *)
(* the first error.                                                         *)
LEMMA ApdusIterate ==
    ASSUME NEW data \in Bytes
    PROVE  \E after : Iterates(data, after) /\ Apdus(data) = after[0]
<1> DEFINE n == Len(data)
           next(i) == ParseAt(From(data, i + 1))
           stops == [i \in 0 .. n |-> i = n \/ next(i) = Malformed]
           stop == [i \in 0 .. n |-> IF i = n THEN <<>> ELSE << Malformed >>]
           item == [i \in 0 .. n |-> next(i).apdu]
           size == [i \in 0 .. n |-> next(i).size]
           Goes(f, i) == IF i = n THEN <<>>
                         ELSE IF next(i) = Malformed THEN << Malformed >>
                         ELSE << next(i).apdu >> \o f[i + next(i).size]
<1>1. n \in Nat
  BY DEF Bytes
<1>2. \A i \in 0 .. n : ~stops[i] => size[i] \in 1 .. n - i
  <2> TAKE i \in 0 .. n
  <2> HAVE ~stops[i]
  <2>p. PICK rest : rest = From(data, i + 1)
    OBVIOUS
  <2>1. rest \in Bytes /\ Len(rest) = n - i
    BY <2>p, FromBytes
  <2>2. ParseAt(rest) # Malformed
    BY <2>p
  <2>3. ParseAt(rest).size \in 1 .. Len(rest)
    BY <2>1, <2>2, ParsedSize
  <2> QED BY <2>1, <2>3, <2>p
<1>3. PICK f : Collected(FALSE, n, stops, stop, item, size, f)
  <2>1. GoesOn(n, stops, size)
    <3> HIDE DEF n, stops, stop, item, size
    <3> QED BY <1>2 DEF GoesOn
  <2> HIDE DEF n, stops, stop, item, size
  <2> QED BY <1>1, <2>1, FromAbove
<1>4. \A i \in 0 .. n : f[i] = Goes(f, i)
  <2> TAKE i \in 0 .. n
  <2>1. f[i] = IF stops[i] THEN stop[i] ELSE Gains(FALSE, item[i], size[i], f[i + size[i]])
    <3> HIDE DEF n, stops, stop, item, size, next
    <3> QED BY <1>3 DEF Collected
  <2>2. /\ stops[i] = (i = n \/ next(i) = Malformed)
        /\ stop[i] = IF i = n THEN <<>> ELSE << Malformed >>
        /\ item[i] = next(i).apdu /\ size[i] = next(i).size
    <3> HIDE DEF next
    <3> QED OBVIOUS
  <2> HIDE DEF n, stops, stop, item, size, next
  <2> QED BY <2>1, <2>2 DEF Gains
<1>5. f = [i \in 0 .. n |-> Goes(f, i)]
  <2>1. f = [i \in 0 .. n |-> f[i]]
    <3> HIDE DEF n, stops, stop, item, size, next
    <3> QED BY <1>3 DEF Collected
  <2> HIDE DEF Goes
  <2> QED BY <1>4, <2>1
<1> DEFINE after == CHOOSE g : g = [i \in 0 .. n |-> Goes(g, i)]
<1>6. after = [i \in 0 .. n |-> Goes(after, i)]
  <2> HIDE DEF Goes
  <2> QED BY <1>5
<1>7. Apdus(data) = after[0]
  BY DEF Apdus
<1>8. Iterates(data, after)
  <2>1. \A i \in 0 .. n : after[i] = Goes(after, i)
    <3> HIDE DEF Goes, after
    <3> QED BY <1>6
  <2> HIDE DEF after
  <2> QED BY <2>1 DEF Iterates
<1> HIDE DEF after
<1> QED BY <1>7, <1>8

(* What is before a place of a string, and what is behind it.              *)
LEMMA CutFirst ==
    ASSUME NEW data \in Bytes, NEW m \in 0 .. Len(data)
    PROVE  /\ SubSeq(data, 1, m) \in Bytes /\ Len(SubSeq(data, 1, m)) = m
           /\ \A k \in 1 .. m : SubSeq(data, 1, m)[k] = data[k]
           /\ data = SubSeq(data, 1, m) \o From(data, m + 1)
<1>1. data \in Seq(Nat) /\ Len(data) \in Nat /\ m \in Nat
  BY DEF Bytes
<1>2. \A k \in 1 .. m : data[k] \in Nat
  <2>1. \A k \in 1 .. m : k \in 1 .. Len(data)
    BY <1>1
  <2> QED BY <1>1, <2>1, ElementOfSeq
<1>3. /\ SubSeq(data, 1, m) \in Seq(Nat)
      /\ Len(SubSeq(data, 1, m)) = IF 1 <= m THEN m - 1 + 1 ELSE 0
      /\ \A k \in 1 .. m - 1 + 1 : SubSeq(data, 1, m)[k] = data[1 + k - 1]
  BY <1>1, <1>2, SubSeqProperties
<1>4. SubSeq(data, 1, m) \o SubSeq(data, m + 1, Len(data)) = SubSeq(data, 1, Len(data))
  <2>1. 1 \in 1 .. Len(data) + 1 /\ m \in 1 - 1 .. Len(data) /\ Len(data) \in m .. Len(data)
    BY <1>1
  <2> QED BY <1>1, <2>1, ConcatAdjacentSubSeq
<1>5. SubSeq(data, 1, Len(data)) = data
  BY <1>1, SubSeqFull
<1>6. (IF 1 <= m THEN m - 1 + 1 ELSE 0) = m /\ m - 1 + 1 = m /\ \A k \in 1 .. m : 1 + k - 1 = k
  BY <1>1
<1> QED BY <1>3, <1>4, <1>5, <1>6 DEF From, Bytes

(* Strings that agree are equal.                                           *)
LEMMA SameBytes ==
    ASSUME NEW a \in Bytes, NEW b \in Bytes, Len(a) = Len(b),
           \A k \in 1 .. Len(a) : a[k] = b[k]
    PROVE  a = b
<1>1. a \in Seq(Nat) /\ b \in Seq(Nat)
  BY DEF Bytes
<1> QED BY <1>1, SeqEqual

(* b stands at place p of the data, as far as the data goes.               *)
StandsAt(data, p, b) ==
    \A k \in 1 .. Len(b) : p + k <= Len(data) => data[p + k] = b[k]

(* A string that stands whole at a position is what the rest begins with.   *)
LEMMA StandsWhole ==
    ASSUME NEW data \in Bytes, NEW b \in Bytes, NEW p \in 0 .. Len(data),
           StandsAt(data, p, b), p + Len(b) <= Len(data)
    PROVE  \E rest \in Bytes : From(data, p + 1) = b \o rest
<1>1. Len(data) \in Nat /\ Len(b) \in Nat
  BY DEF Bytes
<1>p. PICK d : d = From(data, p + 1)
  OBVIOUS
<1>2. d \in Bytes /\ Len(d) = Len(data) - p /\ \A k \in 1 .. Len(data) - p : d[k] = data[p + k]
  BY <1>p, FromBytes
<1>3. Len(b) \in 0 .. Len(d)
  BY <1>1, <1>2
<1>q. PICK a, rest : a = SubSeq(d, 1, Len(b)) /\ rest = From(d, Len(b) + 1)
  OBVIOUS
<1>4. /\ a \in Bytes /\ Len(a) = Len(b) /\ \A k \in 1 .. Len(b) : a[k] = d[k]
      /\ d = a \o rest
  BY <1>2, <1>3, <1>q, CutFirst
<1>5. rest \in Bytes
  BY <1>2, <1>3, <1>q, FromBytes
<1>6. \A k \in 1 .. Len(a) : a[k] = b[k]
  <2> TAKE k \in 1 .. Len(a)
  <2>1. k \in 1 .. Len(b) /\ k \in 1 .. Len(data) - p /\ p + k <= Len(data)
    BY <1>1, <1>4
  <2> QED BY <1>2, <1>4, <2>1 DEF StandsAt
<1>7. a = b
  BY <1>4, <1>6, SameBytes
<1> QED BY <1>4, <1>5, <1>7, <1>p

(* Of a string that goes on past the end the rest is a proper beginning.    *)
LEMMA StandsCut ==
    ASSUME NEW data \in Bytes, NEW b \in Bytes, NEW p \in 0 .. Len(data),
           StandsAt(data, p, b), Len(data) < p + Len(b)
    PROVE  /\ Len(data) - p \in 0 .. Len(b) - 1
           /\ From(data, p + 1) = SubSeq(b, 1, Len(data) - p)
<1>1. Len(data) \in Nat /\ Len(b) \in Nat
  BY DEF Bytes
<1>p. PICK d, m : d = From(data, p + 1) /\ m = Len(data) - p
  OBVIOUS
<1>2. d \in Bytes /\ Len(d) = m /\ \A k \in 1 .. m : d[k] = data[p + k]
  BY <1>p, FromBytes
<1>3. m \in 0 .. Len(b) - 1 /\ m \in 0 .. Len(b)
  BY <1>1, <1>p
<1>q. PICK a : a = SubSeq(b, 1, m)
  OBVIOUS
<1>4. a \in Bytes /\ Len(a) = m /\ \A k \in 1 .. m : a[k] = b[k]
  BY <1>3, <1>q, CutFirst
<1>5. \A k \in 1 .. Len(a) : a[k] = d[k]
  <2> TAKE k \in 1 .. Len(a)
  <2>1. k \in 1 .. Len(b) /\ k \in 1 .. m /\ p + k <= Len(data)
    BY <1>1, <1>3, <1>4, <1>p
  <2> QED BY <1>2, <1>4, <2>1 DEF StandsAt
<1>6. a = d
  BY <1>2, <1>4, <1>5, SameBytes
<1> QED BY <1>3, <1>6, <1>p, <1>q

-----------------------------------------------------------------------------
(* Objects and what they are on the wire.                                  *)
Objects == {apdu \in [tag : Bytes, body : Bytes] : IsObject(apdu)}

(* An object that was built is read back whatever follows, and is refused   *)
(* when any of it is missing at the end (build, parse_at).                  *)
LEMMA ObjectBuilt ==
    ASSUME NEW apdu \in Objects
    PROVE  /\ BuildApdu(apdu) \in Bytes /\ Len(BuildApdu(apdu)) \in Nat
           /\ Len(BuildApdu(apdu)) >= 4 + Len(apdu.body)
           /\ Len(BuildApdu(apdu)) <= 6 + Len(apdu.body)
           /\ \A rest \in Bytes : ParseAt(BuildApdu(apdu) \o rest) =
                 [apdu |-> apdu, size |-> Len(BuildApdu(apdu))]
           /\ \A k \in 0 .. Len(BuildApdu(apdu)) - 1 :
                 ParseAt(SubSeq(BuildApdu(apdu), 1, k)) = Malformed
           /\ [apdu |-> apdu, size |-> Len(BuildApdu(apdu))] # Malformed
<1>p. PICK tag, body : tag = apdu.tag /\ body = apdu.body
  OBVIOUS
<1>1. /\ Object(tag, body) /\ apdu = Apdu(tag, body)
      /\ tag \in Bytes /\ Len(tag) = 3 /\ body \in Bytes /\ Len(body) \in U16
  BY <1>p DEF Objects, IsObject, Object, Apdu, Bytes
<1>2. \A rest \in Bytes :
          /\ ParseAt(BuildApdu(apdu) \o rest) = [apdu |-> apdu, size |-> Len(BuildApdu(apdu))]
          /\ \A k \in 0 .. Len(BuildApdu(apdu)) - 1 :
                ParseAt(SubSeq(BuildApdu(apdu), 1, k)) = Malformed
  BY <1>1, ObjectsReadBack
<1>3. <<>> \in Bytes
  BY DEF Bytes
<1>4. Encode(Len(body)) \in Bytes /\ Len(Encode(Len(body))) \in 1 .. 3
  <2>1. PICK n : n = Len(body)
    OBVIOUS
  <2>2. Encode(n) \in Bytes /\ Len(Encode(n)) \in 1 .. 3
    BY <1>1, <1>3, <2>1, LengthRead
  <2> QED BY <2>1, <2>2
<1>c. PICK code, head : code = Encode(Len(body)) /\ head = tag \o code
  OBVIOUS
<1>5. head \in Bytes /\ Len(head) = 3 + Len(code)
  <2>1. tag \o code \in Bytes /\ Len(tag \o code) = Len(tag) + Len(code)
    BY <1>1, <1>4, <1>c, JoinFirst
  <2> QED BY <1>1, <1>c, <2>1
<1>6. /\ head \o body \in Bytes /\ Len(head \o body) = Len(head) + Len(body)
      /\ Len(body) \in Nat
  BY <1>1, <1>5, JoinFirst
<1>7. BuildApdu(apdu) = head \o body
  BY <1>c, <1>p DEF BuildApdu
<1>8. Len(BuildApdu(apdu)) = 3 + Len(code) + Len(body)
  BY <1>5, <1>6, <1>7
<1>9. [apdu |-> apdu, size |-> Len(BuildApdu(apdu))] # Malformed
  <2>1. Len(BuildApdu(apdu)) \in Nat
    BY <1>4, <1>6, <1>8, <1>c
  <2>2. apdu \in [tag : Seq(Nat), body : Seq(Nat)]
    BY DEF Objects, Bytes
  <2>3. [apdu |-> apdu, size |-> Len(BuildApdu(apdu))]
            \in [apdu : [tag : Seq(Nat), body : Seq(Nat)], size : Nat]
    BY <2>1, <2>2
  <2> QED BY <2>3, WireAssumption DEF Sizes
<1>10. /\ Len(BuildApdu(apdu)) \in Nat
       /\ Len(BuildApdu(apdu)) >= 4 + Len(body) /\ Len(BuildApdu(apdu)) <= 6 + Len(body)
  <2>1. \A c \in 1 .. 3, d \in Nat :
           3 + c + d \in Nat /\ 3 + c + d >= 4 + d /\ 3 + c + d <= 6 + d
    OBVIOUS
  <2>2. Len(code) \in 1 .. 3
    BY <1>4, <1>c
  <2> QED BY <1>6, <1>8, <2>1, <2>2
<1> QED BY <1>2, <1>3, <1>6, <1>7, <1>9, <1>10, <1>p

(* The objects of one SPDU are one behind the other.                        *)
LEMMA ConcatSteps ==
    ASSUME NEW apdus \in Seq(Objects)
    PROVE  /\ Concat(<<>>) = <<>> /\ Concat(apdus) \in Bytes
           /\ \A x \in Objects : Concat(Append(apdus, x)) = Concat(apdus) \o BuildApdu(x)
<1>p. PICK ss : ss = [i \in DOMAIN apdus |-> BuildApdu(apdus[i])]
  OBVIOUS
<1>1. \A x \in Objects : BuildApdu(x) \in Bytes
  BY ObjectBuilt
<1>2. ss \in Seq(Bytes) /\ Len(ss) = Len(apdus)
  BY <1>1, <1>p
<1>3. Concat(apdus) = FlattenSeq(ss)
  BY <1>p DEF Concat
<1>4. Concat(<<>>) = <<>>
  <2>1. [i \in DOMAIN <<>> |-> BuildApdu(<<>>[i])] = <<>>
    OBVIOUS
  <2> QED BY <2>1, FlattenNone DEF Concat
<1>5. ASSUME NEW x \in Objects
      PROVE  Concat(Append(apdus, x)) = Concat(apdus) \o BuildApdu(x)
  <2>p. PICK more, tt : /\ more = Append(apdus, x)
                        /\ tt = [i \in DOMAIN more |-> BuildApdu(more[i])]
    OBVIOUS
  <2>1. /\ more \in Seq(Objects) /\ Len(more) = Len(apdus) + 1
        /\ \A i \in 1 .. Len(apdus) : more[i] = apdus[i]
        /\ more[Len(apdus) + 1] = x
    BY <2>p, AppendProperties
  <2>2. tt \in Seq(Bytes) /\ Len(tt) = Len(apdus) + 1
    BY <1>1, <2>1, <2>p
  <2>q. PICK uu, b : b = BuildApdu(x) /\ uu = Append(ss, b)
    OBVIOUS
  <2>3. /\ uu \in Seq(Bytes) /\ Len(uu) = Len(apdus) + 1
        /\ \A i \in 1 .. Len(apdus) : uu[i] = ss[i]
        /\ uu[Len(apdus) + 1] = b
    <3>1. b \in Bytes
      BY <1>1, <2>q
    <3> QED BY <1>2, <2>q, <3>1, AppendProperties
  <2>4. \A i \in 1 .. Len(tt) : tt[i] = uu[i]
    <3> TAKE i \in 1 .. Len(tt)
    <3>1. tt[i] = BuildApdu(more[i])
      BY <2>2, <2>p
    <3>2. CASE i = Len(apdus) + 1
      BY <2>1, <2>3, <2>q, <3>1, <3>2
    <3>3. CASE i # Len(apdus) + 1
      <4>1. i \in 1 .. Len(apdus)
        BY <2>2, <3>3
      <4>2. ss[i] = BuildApdu(apdus[i])
        BY <1>p, <4>1
      <4> QED BY <2>1, <2>3, <3>1, <4>1, <4>2
    <3> QED BY <3>2, <3>3
  <2>5. tt = uu
    BY <2>2, <2>3, <2>4, SeqEqual
  <2>6. FlattenSeq(uu) = FlattenSeq(ss) \o b
    <3>1. b \in Bytes
      BY <1>1, <2>q
    <3> QED BY <1>2, <2>q, <3>1, FlattenOne
  <2>7. Concat(more) = FlattenSeq(tt)
    BY <2>p DEF Concat
  <2> QED BY <1>3, <2>5, <2>6, <2>7, <2>p, <2>q
<1>6. Concat(apdus) \in Bytes
  BY <1>2, <1>3, FlattenType
<1> QED BY <1>4, <1>5, <1>6

(* Where the first i of some objects end in what is written.               *)
End(apdus, i) == Len(Concat(SubSeq(apdus, 1, i)))

(* The first i of a sequence are the first i - 1 and one more.              *)
LEMMA PrefixGrows ==
    ASSUME NEW S, NEW apdus \in Seq(S), NEW i \in 1 .. Len(apdus)
    PROVE  /\ SubSeq(apdus, 1, i - 1) \in Seq(S) /\ apdus[i] \in S
           /\ SubSeq(apdus, 1, i) = Append(SubSeq(apdus, 1, i - 1), apdus[i])
<1>1. \A j \in 1 .. Len(apdus) : apdus[j] \in S
  OBVIOUS
<1>p. PICK a, b, c : /\ a = SubSeq(apdus, 1, i - 1) /\ b = SubSeq(apdus, 1, i)
                     /\ c = Append(a, apdus[i])
  OBVIOUS
<1>2. /\ a \in Seq(S) /\ Len(a) = i - 1 /\ \A j \in 1 .. i - 1 : a[j] = apdus[j]
      /\ b \in Seq(S) /\ Len(b) = i /\ \A j \in 1 .. i : b[j] = apdus[j]
  <2>1. ASSUME NEW m \in 0 .. Len(apdus)
        PROVE  /\ SubSeq(apdus, 1, m) \in Seq(S) /\ Len(SubSeq(apdus, 1, m)) = m
               /\ \A j \in 1 .. m : SubSeq(apdus, 1, m)[j] = apdus[j]
    <3>1. \A j \in 1 .. m : apdus[j] \in S
      BY <1>1
    <3>2. /\ SubSeq(apdus, 1, m) \in Seq(S)
          /\ Len(SubSeq(apdus, 1, m)) = IF 1 <= m THEN m - 1 + 1 ELSE 0
          /\ \A j \in 1 .. m - 1 + 1 : SubSeq(apdus, 1, m)[j] = apdus[1 + j - 1]
      BY <3>1, SubSeqProperties
    <3>3. (IF 1 <= m THEN m - 1 + 1 ELSE 0) = m /\ m - 1 + 1 = m
          /\ \A j \in 1 .. m : 1 + j - 1 = j
      OBVIOUS
    <3> QED BY <3>2, <3>3
  <2>2. i \in 0 .. Len(apdus) /\ i - 1 \in 0 .. Len(apdus)
    OBVIOUS
  <2> QED BY <1>p, <2>1, <2>2
<1>3. /\ c \in Seq(S) /\ Len(c) = i /\ \A j \in 1 .. i - 1 : c[j] = a[j]
      /\ c[i] = apdus[i]
  <2>1. /\ Append(a, apdus[i]) \in Seq(S) /\ Len(Append(a, apdus[i])) = Len(a) + 1
        /\ \A j \in 1 .. Len(a) : Append(a, apdus[i])[j] = a[j]
        /\ Append(a, apdus[i])[Len(a) + 1] = apdus[i]
    BY <1>1, <1>2, AppendProperties
  <2>2. i - 1 + 1 = i
    OBVIOUS
  <2> QED BY <1>2, <1>p, <2>1, <2>2
<1>4. \A j \in 1 .. Len(b) : b[j] = c[j]
  <2> TAKE j \in 1 .. Len(b)
  <2>1. CASE j = i
    BY <1>2, <1>3, <2>1
  <2>2. CASE j # i
    <3>1. j \in 1 .. i - 1 /\ j \in 1 .. i
      BY <1>2, <2>2
    <3> QED BY <1>2, <1>3, <3>1
  <2> QED BY <2>1, <2>2
<1>5. b = c
  BY <1>2, <1>3, <1>4, SeqEqual
<1> QED BY <1>1, <1>2, <1>5, <1>p

(* Each object ends as many bytes after the one before as it is long.       *)
LEMMA EndsGrow ==
    ASSUME NEW apdus \in Seq(Objects)
    PROVE  /\ End(apdus, 0) = 0 /\ End(apdus, Len(apdus)) = Len(Concat(apdus))
           /\ \A i \in 0 .. Len(apdus) : End(apdus, i) \in Nat
           /\ \A i \in 1 .. Len(apdus) :
                 End(apdus, i) = End(apdus, i - 1) + Len(BuildApdu(apdus[i]))
<1>1. SubSeq(apdus, 1, 0) = <<>> /\ SubSeq(apdus, 1, Len(apdus)) = apdus
  BY SubSeqEmpty, SubSeqFull
<1>2. End(apdus, 0) = 0 /\ End(apdus, Len(apdus)) = Len(Concat(apdus))
  <2>1. Concat(<<>>) = <<>> /\ Len(<<>>) = 0
    BY ConcatSteps
  <2>2. End(apdus, 0) = Len(Concat(<<>>))
    BY <1>1 DEF End
  <2>3. End(apdus, Len(apdus)) = Len(Concat(apdus))
    BY <1>1 DEF End
  <2> QED BY <2>1, <2>2, <2>3
<1>3. ASSUME NEW i \in 1 .. Len(apdus)
      PROVE  /\ End(apdus, i) \in Nat
             /\ End(apdus, i) = End(apdus, i - 1) + Len(BuildApdu(apdus[i]))
  <2>p. PICK a, x, b, c : /\ a = SubSeq(apdus, 1, i - 1) /\ x = apdus[i]
                          /\ b = Concat(a) /\ c = BuildApdu(x)
    OBVIOUS
  <2>1. a \in Seq(Objects) /\ x \in Objects /\ SubSeq(apdus, 1, i) = Append(a, x)
    BY <2>p, PrefixGrows
  <2>2. b \in Bytes /\ Concat(Append(a, x)) = b \o c
    BY <2>1, <2>p, ConcatSteps
  <2>3. c \in Bytes
    BY <2>1, <2>p, ObjectBuilt
  <2>4. Len(b \o c) = Len(b) + Len(c) /\ b \o c \in Bytes
    BY <2>2, <2>3, JoinFirst
  <2>5. Len(b) \in Nat /\ Len(c) \in Nat
    BY <2>2, <2>3 DEF Bytes
  <2>6. End(apdus, i) = Len(b \o c)
    BY <2>1, <2>2 DEF End
  <2>7. End(apdus, i - 1) = Len(b)
    BY <2>p DEF End
  <2> QED BY <2>4, <2>5, <2>6, <2>7, <2>p
<1>4. \A i \in 0 .. Len(apdus) : End(apdus, i) \in Nat
  <2> TAKE i \in 0 .. Len(apdus)
  <2>1. CASE i = 0
    BY <1>2, <2>1
  <2>2. CASE i # 0
    <3>1. i \in 1 .. Len(apdus)
      BY <2>2
    <3> QED BY <1>3, <3>1
  <2> QED BY <2>1, <2>2
<1> QED BY <1>2, <1>3, <1>4

(* Each object stands where the one before it ends.                        *)
LEMMA ObjectsStand ==
    ASSUME NEW apdus \in Seq(Objects)
    PROVE  \A i \in 1 .. Len(apdus) :
              StandsAt(Concat(apdus), End(apdus, i - 1), BuildApdu(apdus[i]))
<1> DEFINE n == Len(apdus)
           part(i) == Concat(SubSeq(apdus, 1, i))
           Begins(i) == \E rest \in Bytes : Concat(apdus) = part(i) \o rest
           T == {i \in 0 .. n : Begins(i)}
<1>1. n \in Nat /\ \A i \in 0 .. n : part(i) \in Bytes
  <2>1. \A i \in 0 .. n : SubSeq(apdus, 1, i) \in Seq(Objects)
    <3> TAKE i \in 0 .. n
    <3>1. CASE i = n
      BY <3>1, SubSeqFull
    <3>2. CASE i # n
      <4>1. i + 1 \in 1 .. Len(apdus) /\ i + 1 - 1 = i
        BY <3>2
      <4> QED BY <4>1, PrefixGrows
    <3> QED BY <3>1, <3>2
  <2>2. \A a \in Seq(Objects) : Concat(a) \in Bytes
    BY ConcatSteps
  <2>3. n \in Nat
    OBVIOUS
  <2>4. \A i \in 0 .. n : part(i) \in Bytes
    <3> HIDE DEF n
    <3> QED BY <2>1, <2>2
  <2> QED BY <2>3, <2>4
<1>2. ASSUME NEW i \in 1 .. n
      PROVE  part(i) = part(i - 1) \o BuildApdu(apdus[i]) /\ BuildApdu(apdus[i]) \in Bytes
  <2>p. PICK a, x : a = SubSeq(apdus, 1, i - 1) /\ x = apdus[i]
    OBVIOUS
  <2>1. a \in Seq(Objects) /\ x \in Objects /\ SubSeq(apdus, 1, i) = Append(a, x)
    BY <2>p, PrefixGrows
  <2>2. Concat(Append(a, x)) = Concat(a) \o BuildApdu(x)
    BY <2>1, ConcatSteps
  <2>3. BuildApdu(x) \in Bytes
    BY <2>1, ObjectBuilt
  <2> QED BY <2>1, <2>2, <2>3, <2>p
<1>3. ASSUME NEW i \in 0 .. n, i + 1 .. n \subseteq T PROVE i \in T
  <2>1. CASE i = n
    <3>1. part(n) = Concat(apdus)
      BY SubSeqFull
    <3>2. Concat(apdus) \o <<>> = Concat(apdus) /\ <<>> \in Bytes
      <4>1. Concat(apdus) \in Seq(Nat)
        BY ConcatSteps DEF Bytes
      <4> QED BY <4>1, ConcatEmptySeq DEF Bytes
    <3>3. Begins(n)
      BY <3>1, <3>2
    <3> HIDE DEF Begins
    <3> QED BY <2>1, <3>3
  <2>2. CASE i # n
    <3>1. i + 1 \in T /\ i + 1 \in 1 .. n /\ i + 1 - 1 = i
      <4> HIDE DEF T
      <4> QED BY <1>3, <1>1, <2>2
    <3>2. Begins(i + 1)
      <4> HIDE DEF Begins
      <4> QED BY <3>1
    <3>3. PICK rest \in Bytes : Concat(apdus) = part(i + 1) \o rest
      BY <3>2
    <3>p. PICK a, b : a = part(i) /\ b = BuildApdu(apdus[i + 1])
      OBVIOUS
    <3>4. a \in Bytes /\ b \in Bytes /\ part(i + 1) = a \o b
      <4>p. PICK j : j = i + 1
        OBVIOUS
      <4>1. part(j) = part(j - 1) \o BuildApdu(apdus[j]) /\ BuildApdu(apdus[j]) \in Bytes
        <5>1. j \in 1 .. n
          BY <3>1, <4>p
        <5> HIDE DEF part
        <5> QED BY <1>2, <5>1
      <4> HIDE DEF part
      <4> QED BY <1>1, <3>1, <3>p, <4>1, <4>p
    <3>5. (a \o b) \o rest = a \o (b \o rest) /\ b \o rest \in Bytes
      BY <3>4, Regroup, JoinFirst
    <3>6. Begins(i)
      <4> HIDE DEF part
      <4> QED BY <3>3, <3>4, <3>5, <3>p
    <3> HIDE DEF Begins
    <3> QED BY <3>6
  <2> QED BY <2>1, <2>2
<1>4. T = 0 .. n
  <2>1. T \in SUBSET (0 .. n)
    <3> HIDE DEF Begins
    <3> QED OBVIOUS
  <2> HIDE DEF T
  <2> QED BY <1>1, <1>3, <2>1, Downwards
<1>5. ASSUME NEW i \in 1 .. n
      PROVE  StandsAt(Concat(apdus), End(apdus, i - 1), BuildApdu(apdus[i]))
  <2>1. Begins(i)
    <3>1. i \in T
      <4> HIDE DEF T
      <4> QED BY <1>4
    <3> HIDE DEF Begins
    <3> QED BY <3>1
  <2>2. PICK rest \in Bytes : Concat(apdus) = part(i) \o rest
    BY <2>1
  <2>p. PICK a, b, c : a = part(i - 1) /\ b = BuildApdu(apdus[i]) /\ c = Concat(apdus)
    OBVIOUS
  <2>3. a \in Bytes /\ b \in Bytes /\ c = (a \o b) \o rest /\ Len(a) = End(apdus, i - 1)
    <3>1. i - 1 \in 0 .. n
      BY <1>1
    <3>2. Len(a) = End(apdus, i - 1)
      BY <2>p DEF End
    <3> HIDE DEF part
    <3> QED BY <1>1, <1>2, <2>2, <2>p, <3>1, <3>2
  <2>4. \A k \in 1 .. Len(b) : ((a \o b) \o rest)[Len(a) + k] = b[k]
    BY <2>3, JoinMiddle
  <2>5. \A k \in 1 .. Len(b) : c[Len(a) + k] = b[k]
    BY <2>3, <2>4
  <2> QED BY <2>3, <2>5, <2>p DEF StandsAt
<1> QED BY <1>5

Grows(n, e) ==
    /\ \A i \in 0 .. n : e[i] \in Nat
    /\ \A i \in 1 .. n : e[i - 1] <= e[i]
Parts(n, e, size, w) ==
    /\ \A i \in 0 .. w : e[i] <= size
    /\ \A i \in w + 1 .. n : size < e[i]

(* Places that grow: the last one that is not behind a bound, with all before
   it and none behind.                                                     *)
LEMMA LastWithin ==
    ASSUME NEW n \in Nat, NEW e, Grows(n, e), NEW size \in Nat, e[0] <= size
    PROVE  \E w \in 0 .. n : Parts(n, e, size, w)
<1>g. /\ \A i \in 0 .. n : e[i] \in Nat
      /\ \A i \in 1 .. n : e[i - 1] <= e[i]
  BY DEF Grows
<1> DEFINE K == {k \in 0 .. n : e[n - k] <= size}
<1>1. K \in SUBSET Nat /\ K # {}
  <2>1. n \in 0 .. n /\ n - n = 0
    OBVIOUS
  <2>2. n \in K
    BY <2>1
  <2> QED BY <2>2
<1>2. PICK k \in K : \A j \in K : k <= j
  <2> HIDE DEF K
  <2> QED BY <1>1, LeastOf
<1>p. PICK w : w = n - k
  OBVIOUS
<1>3. w \in 0 .. n /\ e[w] <= size /\ n - w = k
  BY <1>2, <1>p
<1>4. \A i \in w + 1 .. n : size < e[i]
  <2> TAKE i \in w + 1 .. n
  <2>1. n - i \in 0 .. n /\ n - (n - i) = i /\ ~(k <= n - i) /\ i \in 0 .. n
    BY <1>3
  <2>2. n - i \notin K
    <3> HIDE DEF K
    <3> QED BY <1>2, <2>1
  <2>3. ~(e[i] <= size)
    BY <2>1, <2>2
  <2>4. e[i] \in Nat
    BY <1>g, <2>1
  <2> QED BY <2>3, <2>4
<1> DEFINE T == {i \in 0 .. n : i <= w => e[i] <= size}
<1>5. ASSUME NEW i \in 0 .. n, i + 1 .. n \subseteq T PROVE i \in T
  <2>1. CASE i < w
    <3>1. i + 1 \in i + 1 .. n /\ i + 1 <= w /\ i + 1 \in 1 .. n /\ i + 1 - 1 = i
      BY <1>3, <2>1
    <3>2. i + 1 \in T
      <4> HIDE DEF T
      <4> QED BY <1>5, <3>1
    <3>3. e[i + 1] <= size /\ e[i] <= e[i + 1]
      BY <1>g, <3>1, <3>2
    <3>4. e[i] \in Nat /\ e[i + 1] \in Nat
      BY <1>g, <3>1
    <3>5. e[i] <= size
      BY <3>3, <3>4
    <3> QED BY <3>5
  <2>2. CASE i = w
    BY <1>3, <2>2
  <2>3. CASE i > w
    BY <1>3, <2>3
  <2> QED BY <1>3, <2>1, <2>2, <2>3
<1>6. T = 0 .. n
  <2>1. T \in SUBSET (0 .. n)
    OBVIOUS
  <2> HIDE DEF T
  <2> QED BY <1>5, <2>1, Downwards
<1>7. \A i \in 0 .. w : e[i] <= size
  <2> TAKE i \in 0 .. w
  <2>1. i \in 0 .. n /\ i <= w
    BY <1>3
  <2>2. i \in T
    <3> HIDE DEF T
    <3> QED BY <1>6, <2>1
  <2> QED BY <2>1, <2>2
<1> QED BY <1>3, <1>4, <1>7 DEF Parts

(* src/src/ca/apdu.rs:113-177: of objects cut short anywhere, iter() yields
   those that are whole, in their order, and then, unless the cut is between
   two, an error.                                                          *)
LEMMA WholeAreRead ==
    ASSUME NEW apdus \in Seq(Objects), NEW size \in 0 .. Len(Concat(apdus))
    PROVE  LET whole == SubSeq(apdus, 1, Cardinality(WholeObjects(apdus, size)))
           IN  Apdus(SubSeq(Concat(apdus), 1, size)) =
                  whole \o IF Len(Concat(whole)) = size THEN <<>> ELSE << Malformed >>
<1>p. PICK n, c, data, e : /\ n = Len(apdus) /\ c = Concat(apdus)
                           /\ data = SubSeq(c, 1, size)
                           /\ e = [i \in 0 .. n |-> End(apdus, i)]
  OBVIOUS
<1>1. n \in Nat /\ c \in Bytes /\ Len(c) \in Nat /\ size \in 0 .. Len(c) /\ size \in Nat
  <2>1. c \in Bytes
    BY <1>p, ConcatSteps
  <2> QED BY <1>p, <2>1 DEF Bytes
<1>2. data \in Bytes /\ Len(data) = size /\ \A k \in 1 .. size : data[k] = c[k]
  BY <1>1, <1>p, CutFirst
<1>b. PICK b : b = [i \in 1 .. n |-> BuildApdu(apdus[i])]
  OBVIOUS
<1>3. /\ e[0] = 0 /\ e[n] = Len(c) /\ \A i \in 0 .. n : e[i] \in Nat
      /\ \A i \in 1 .. n : e[i] = e[i - 1] + Len(b[i])
  <2>1. /\ End(apdus, 0) = 0 /\ End(apdus, n) = Len(c)
        /\ \A i \in 0 .. n : End(apdus, i) \in Nat
        /\ \A i \in 1 .. n : End(apdus, i) = End(apdus, i - 1) + Len(BuildApdu(apdus[i]))
    BY <1>p, EndsGrow
  <2>2. 0 \in 0 .. n /\ n \in 0 .. n /\ \A i \in 1 .. n : i \in 0 .. n /\ i - 1 \in 0 .. n
    BY <1>1
  <2>3. \A i \in 0 .. n : e[i] = End(apdus, i)
    BY <1>p
  <2> QED BY <1>b, <2>1, <2>2, <2>3
<1>4. \A i \in 1 .. n : /\ b[i] \in Bytes /\ Len(b[i]) \in Nat /\ Len(b[i]) >= 4
                        /\ apdus[i] \in Objects
  <2> TAKE i \in 1 .. n
  <2>1. apdus[i] \in Objects
    BY <1>p
  <2>2. Len(apdus[i].body) \in Nat
    BY <2>1 DEF Objects, Bytes
  <2>3. /\ BuildApdu(apdus[i]) \in Bytes /\ Len(BuildApdu(apdus[i])) \in Nat
        /\ Len(BuildApdu(apdus[i])) >= 4 + Len(apdus[i].body)
    BY <2>1, ObjectBuilt
  <2>4. b[i] = BuildApdu(apdus[i])
    BY <1>b
  <2> QED BY <2>1, <2>2, <2>3, <2>4
<1>5. \A i \in 1 .. n : e[i - 1] <= e[i]
  <2> TAKE i \in 1 .. n
  <2>1. i - 1 \in 0 .. n
    BY <1>1
  <2>2. e[i - 1] \in Nat /\ Len(b[i]) \in Nat /\ e[i] = e[i - 1] + Len(b[i])
    BY <1>3, <1>4, <2>1
  <2> QED BY <2>2
<1>6. PICK w \in 0 .. n : /\ \A i \in 0 .. w : e[i] <= size
                          /\ \A i \in w + 1 .. n : size < e[i]
  <2>1. Grows(n, e)
    BY <1>3, <1>5 DEF Grows
  <2>2. e[0] <= size
    BY <1>1, <1>3
  <2>3. PICK w \in 0 .. n : Parts(n, e, size, w)
    BY <1>1, <2>1, <2>2, LastWithin
  <2> QED BY <2>3 DEF Parts
<1>7. WholeObjects(apdus, size) = 1 .. w
  <2>1. \A i \in 1 .. n : e[i] = Len(Concat(SubSeq(apdus, 1, i)))
    BY <1>1, <1>p DEF End
  <2>2. \A i \in 1 .. n : e[i] <= size <=> i <= w
    <3> TAKE i \in 1 .. n
    <3>1. CASE i <= w
      BY <1>6, <3>1
    <3>2. CASE ~(i <= w)
      <4>1. i \in w + 1 .. n /\ i \in 0 .. n
        BY <1>1, <3>2
      <4>2. size < e[i] /\ e[i] \in Nat
        BY <1>3, <1>6, <4>1
      <4> QED BY <1>1, <3>2, <4>2
    <3> QED BY <3>1, <3>2
  <2>3. DOMAIN apdus = 1 .. n
    BY <1>p
  <2>4. WholeObjects(apdus, size) = {i \in 1 .. n : e[i] <= size}
    BY <2>1, <2>3 DEF WholeObjects
  <2>5. {i \in 1 .. n : i <= w} = 1 .. w
    BY <1>1
  <2> QED BY <2>2, <2>4, <2>5
<1>8. Cardinality(1 .. w) = w
  <2>1. Cardinality(1 .. w) = IF 1 > w THEN 0 ELSE w - 1 + 1
    BY <1>1, FS_Interval
  <2> QED BY <1>1, <2>1
<1>t. PICK tail : tail = IF e[w] = size THEN <<>> ELSE << Malformed >>
  OBVIOUS
<1>9. PICK after : Iterates(data, after) /\ Apdus(data) = after[0]
  BY <1>2, ApdusIterate
<1>10. ASSUME NEW i \in 1 .. n
       PROVE  StandsAt(data, e[i - 1], b[i])
  <2>1. i - 1 \in 0 .. n
    BY <1>1
  <2>2. StandsAt(c, e[i - 1], b[i])
    <3>1. e[i - 1] = End(apdus, i - 1) /\ b[i] = BuildApdu(apdus[i])
      BY <1>b, <1>p, <2>1
    <3> QED BY <1>p, <3>1, ObjectsStand
  <2>3. ASSUME NEW k \in 1 .. Len(b[i]), e[i - 1] + k <= Len(data)
        PROVE  data[e[i - 1] + k] = b[i][k]
    <3>1. Len(b[i]) \in Nat /\ e[i - 1] \in Nat /\ e[i - 1] + k \in 1 .. size
      BY <1>1, <1>2, <1>3, <1>4, <2>1, <2>3
    <3>2. e[i - 1] + k <= Len(c)
      BY <1>1, <3>1
    <3>3. c[e[i - 1] + k] = b[i][k]
      BY <2>2, <3>2 DEF StandsAt
    <3> QED BY <1>2, <3>1, <3>3
  <2> QED BY <2>3 DEF StandsAt
<1> DEFINE S == Objects \cup {Malformed}
           T == {i \in 0 .. n : i <= w => after[e[i]] = SubSeq(apdus, i + 1, w) \o tail}
<1>11. apdus \in Seq(S) /\ tail \in Seq(S)
  <2>1. \A j \in 1 .. Len(apdus) : apdus[j] \in S
    OBVIOUS
  <2>2. apdus \in Seq(S)
    <3> HIDE DEF S
    <3> QED BY <2>1
  <2>3. tail \in Seq(S)
    <3>1. <<>> \in Seq(S) /\ << Malformed >> \in Seq(S)
      OBVIOUS
    <3>2. CASE e[w] = size
      BY <1>t, <3>1, <3>2
    <3>3. CASE e[w] # size
      BY <1>t, <3>1, <3>3
    <3> QED BY <3>2, <3>3
  <2> QED BY <2>2, <2>3
<1>12. ASSUME NEW i \in 0 .. n, i + 1 .. n \subseteq T PROVE i \in T
  <2>1. CASE i > w
    BY <1>1, <2>1
  <2>2. CASE i = w
    <3>1. SubSeq(apdus, w + 1, w) \o tail = tail
      <4>1. SubSeq(apdus, w + 1, w) = <<>>
        BY <1>1, SubSeqEmpty
      <4> HIDE DEF S
      <4>2. <<>> \o tail = tail
        BY <1>11, ConcatEmptySeq
      <4> QED BY <4>1, <4>2
    <3>p. PICK place : place = e[w]
      OBVIOUS
    <3>2. place \in 0 .. size /\ place \in 0 .. Len(data)
      BY <1>1, <1>2, <1>3, <1>6, <3>p
    <3>3. CASE place = size
      <4>1. after[place] = <<>>
        BY <1>2, <1>9, <3>2, <3>3 DEF Iterates
      <4> QED BY <1>t, <2>2, <3>1, <3>3, <3>p, <4>1
    <3>4. CASE place # size
      <4>1. w + 1 \in 1 .. n /\ w + 1 - 1 = w /\ w + 1 \in w + 1 .. n
        <5>1. w # n
          BY <1>1, <1>3, <1>6, <3>4, <3>p
        <5> QED BY <1>1, <5>1
      <4>q. PICK x, d : x = b[w + 1] /\ d = From(data, place + 1)
        OBVIOUS
      <4>2. /\ x \in Bytes /\ StandsAt(data, place, x) /\ Len(data) < place + Len(x)
            /\ x = BuildApdu(apdus[w + 1]) /\ apdus[w + 1] \in Objects
        <5>1. e[w + 1] = e[w] + Len(x) /\ size < e[w + 1]
          BY <1>3, <1>6, <4>1, <4>q
        <5>2. StandsAt(data, e[w], x)
          BY <1>10, <4>1, <4>q
        <5> QED BY <1>2, <1>4, <1>b, <3>p, <4>1, <4>q, <5>1, <5>2
      <4>3. /\ Len(data) - place \in 0 .. Len(x) - 1
            /\ d = SubSeq(x, 1, Len(data) - place)
        BY <1>2, <3>2, <4>2, <4>q, StandsCut
      <4>4. ParseAt(d) = Malformed
        BY <4>2, <4>3, ObjectBuilt
      <4>5. after[place] = << Malformed >>
        <5>1. place # Len(data)
          BY <1>2, <3>4
        <5> QED BY <1>9, <3>2, <4>4, <4>q, <5>1 DEF Iterates
      <4> QED BY <1>t, <2>2, <3>1, <3>4, <3>p, <4>5
    <3> QED BY <3>3, <3>4
  <2>3. CASE i < w
    <3>p. PICK j, place, x, y, d : /\ j = i + 1 /\ place = e[i] /\ x = b[j] /\ y = apdus[j]
                                   /\ d = From(data, place + 1)
      OBVIOUS
    <3>1. j \in 1 .. n /\ j - 1 = i /\ j <= w /\ j \in 0 .. w /\ j \in i + 1 .. n /\ j \in 0 .. n
      BY <1>1, <2>3, <3>p
    <3>2. /\ e[j] = place + Len(x) /\ e[j] <= size /\ e[j] \in Nat /\ place \in Nat
          /\ x \in Bytes /\ Len(x) \in Nat /\ Len(x) >= 4
          /\ y \in Objects /\ x = BuildApdu(y)
      BY <1>3, <1>4, <1>6, <1>b, <3>1, <3>p
    <3>3. place \in 0 .. Len(data) /\ place # Len(data) /\ place + Len(x) <= Len(data)
      BY <1>1, <1>2, <3>2
    <3>4. StandsAt(data, place, x)
      BY <1>10, <3>1, <3>p
    <3>5. PICK rest \in Bytes : d = x \o rest
      BY <1>2, <3>2, <3>3, <3>4, <3>p, StandsWhole
    <3>6. ParseAt(d) = [apdu |-> y, size |-> Len(x)] /\ ParseAt(d) # Malformed
      BY <3>2, <3>5, ObjectBuilt
    <3>7. after[place] = << y >> \o after[e[j]]
      <4>1. after[place] = << ParseAt(d).apdu >> \o after[place + ParseAt(d).size]
        BY <1>9, <3>3, <3>6, <3>p DEF Iterates
      <4>2. ParseAt(d).apdu = y /\ ParseAt(d).size = Len(x)
        BY <3>6
      <4> QED BY <3>2, <4>1, <4>2
    <3>8. after[e[j]] = SubSeq(apdus, j + 1, w) \o tail
      <4>1. j \in T
        <5> HIDE DEF T
        <5> QED BY <1>12, <3>1
      <4> QED BY <3>1, <4>1
    <3>9. SubSeq(apdus, j, w) = << y >> \o SubSeq(apdus, j + 1, w)
      <4>1. j \in 1 .. Len(apdus) /\ w \in j .. Len(apdus)
        BY <1>1, <1>p, <3>1
      <4> QED BY <3>p, <4>1, SubSeqRecursiveFirst
    <3>10. << y >> \o (SubSeq(apdus, j + 1, w) \o tail) = SubSeq(apdus, j, w) \o tail
      <4>p. PICK s : s = SubSeq(apdus, j + 1, w)
        OBVIOUS
      <4>1. s \in Seq(S)
        <5>1. \A k \in j + 1 .. w : apdus[k] \in S
          <6>1. \A k \in j + 1 .. w : k \in 1 .. n
            BY <1>1, <3>1
          <6> QED BY <1>4, <6>1
        <5>2. j + 1 \in Int /\ w \in Int
          BY <1>1, <3>1
        <5> HIDE DEF S
        <5> QED BY <4>p, <5>1, <5>2, SubSeqProperties
      <4>2. << y >> \in Seq(S)
        BY <3>2
      <4> HIDE DEF S
      <4>3. (<< y >> \o s) \o tail = << y >> \o (s \o tail)
        BY <1>11, <4>1, <4>2, ConcatAssociative
      <4> QED BY <3>9, <4>3, <4>p
    <3>11. after[e[i]] = SubSeq(apdus, i + 1, w) \o tail
      BY <3>7, <3>8, <3>10, <3>p
    <3> QED BY <3>11
  <2> QED BY <1>1, <2>1, <2>2, <2>3
<1>13. T = 0 .. n
  <2>1. T \in SUBSET (0 .. n)
    OBVIOUS
  <2> HIDE DEF T
  <2> QED BY <1>1, <1>12, <2>1, Downwards
<1>14. after[0] = SubSeq(apdus, 1, w) \o tail
  <2>1. 0 \in T
    <3> HIDE DEF T
    <3> QED BY <1>1, <1>13
  <2>2. 0 <= w /\ 0 + 1 = 1
    BY <1>1
  <2> QED BY <1>3, <2>1, <2>2
<1>15. e[w] = Len(Concat(SubSeq(apdus, 1, w)))
  BY <1>p DEF End
<1> QED BY <1>7, <1>8, <1>9, <1>14, <1>15, <1>p, <1>t

-----------------------------------------------------------------------------
(* Frames and the session header, from the module.                          *)

Shape(tag, data, code, frame) ==
    /\ code \in Bytes /\ Len(code) \in 1 .. 3 /\ Len(data) \in Nat
    /\ frame \in Bytes /\ Len(frame) = 4 + Len(code) + Len(data)
    /\ frame[3] = tag
    /\ \A k \in 1 .. Len(code) : frame[3 + k] = code[k]
    /\ Decode(From(frame, 4)) = Length(Len(data) + 1, Len(code))
    /\ From(frame, 5 + Len(code)) = data

(* src/src/ca/tpdu.rs:62-81: what stands where in a data frame, and that its
   length field and its body are read back.                                 *)
LEMMA FrameShape ==
    ASSUME NEW at \in Nat, NEW tag \in Nat, NEW data \in Bytes, Len(data) + 1 \in U16
    PROVE  Shape(tag, data, Encode(Len(data) + 1), DataFrame(at, tag, data))
<1>n. PICK n, code, frame : /\ n = Len(data) + 1 /\ code = Encode(n)
                            /\ frame = DataFrame(at, tag, data)
  OBVIOUS
<1>u. n \in U16
  BY <1>n
<1>p. PICK start, id : start = << at, at + 1, tag >> /\ id = << at + 1 >>
  OBVIOUS
<1>1. /\ code \in Bytes /\ Len(code) \in 1 .. 3 /\ Len(data) \in Nat
      /\ \A q \in Bytes : Decode(code \o q) = Length(n, Len(code))
  <2>1. Len(data) \in Nat /\ <<>> \in Bytes
    BY DEF Bytes
  <2>2. /\ Encode(n) \in Bytes /\ Len(Encode(n)) \in 1 .. 3
        /\ \A q \in Bytes : Decode(Encode(n) \o q) = Length(n, Len(Encode(n)))
    BY <1>u, <2>1, LengthRead
  <2> QED BY <1>n, <2>1, <2>2
<1>2. /\ start \in Bytes /\ id \in Bytes /\ Len(start) = 3 /\ Len(id) = 1 /\ start[3] = tag
  BY <1>p DEF Bytes
<1>h. PICK head, front : head = start \o code /\ front = head \o id
  OBVIOUS
<1>3. head \in Bytes /\ Len(head) = 3 + Len(code)
  <2>1. start \o code \in Bytes /\ Len(start \o code) = Len(start) + Len(code)
    BY <1>1, <1>2, JoinFirst
  <2> QED BY <1>2, <1>h, <2>1
<1>4. front \in Bytes /\ Len(front) = 4 + Len(code)
  <2>1. head \o id \in Bytes /\ Len(head \o id) = Len(head) + Len(id)
    BY <1>2, <1>3, JoinFirst
  <2> QED BY <1>1, <1>2, <1>3, <1>h, <2>1
<1>5. frame = front \o data
  BY <1>h, <1>n, <1>p DEF DataFrame
<1>6. frame \in Bytes /\ Len(frame) = 4 + Len(code) + Len(data)
  <2>1. front \o data \in Bytes /\ Len(front \o data) = Len(front) + Len(data)
    BY <1>4, JoinFirst
  <2> QED BY <1>4, <1>5, <2>1
<1>7. From(frame, 5 + Len(code)) = data
  <2>1. SubSeq(front \o data, Len(front) + 1, Len(front) + Len(data)) = data
    BY <1>4, JoinLast
  <2>2. Len(front) + 1 = 5 + Len(code) /\ Len(front) + Len(data) = Len(frame)
    BY <1>1, <1>4, <1>6
  <2> QED BY <1>5, <2>1, <2>2 DEF From
<1>t. PICK tail, all : tail = id \o data /\ all = code \o tail
  OBVIOUS
<1>b. start \in Bytes /\ code \in Bytes /\ head \in Bytes /\ id \in Bytes
  BY <1>1, <1>2, <1>3
<1>8. tail \in Bytes /\ all \in Bytes /\ frame = start \o all
  <2>1. tail \in Bytes
    BY <1>2, <1>t, JoinFirst
  <2>2. all \in Bytes
    BY <1>1, <1>t, <2>1, JoinFirst
  <2>3. (head \o id) \o data = head \o (id \o data)
    BY <1>2, <1>3, Regroup
  <2>4. (start \o code) \o tail = start \o (code \o tail)
    <3>1. start \in Bytes /\ code \in Bytes /\ tail \in Bytes
      BY <1>b, <2>1
    <3> QED BY <3>1, Regroup
  <2> QED BY <1>5, <1>h, <1>t, <2>1, <2>2, <2>3, <2>4
<1>9. frame[3] = tag
  <2>1. \A i \in 1 .. Len(start) : (start \o all)[i] = start[i]
    BY <1>2, <1>8, JoinFirst
  <2>2. 3 \in 1 .. Len(start)
    BY <1>2
  <2>3. (start \o all)[3] = start[3]
    BY <2>1, <2>2
  <2> QED BY <1>2, <1>8, <2>3
<1>10. Decode(From(frame, 4)) = Length(n, Len(code))
  <2>1. SubSeq(start \o all, Len(start) + 1, Len(start) + Len(all)) = all
    BY <1>2, <1>8, JoinLast
  <2>2. Len(start \o all) = Len(start) + Len(all)
    BY <1>2, <1>8, JoinFirst
  <2>3. From(frame, 4) = all
    BY <1>2, <1>8, <2>1, <2>2 DEF From
  <2> QED BY <1>1, <1>8, <1>t, <2>3
<1>11. \A k \in 1 .. Len(code) : frame[3 + k] = code[k]
  <2>1. \A k \in 1 .. Len(code) : ((start \o code) \o tail)[Len(start) + k] = code[k]
    <3>1. tail \in Bytes
      BY <1>8
    <3> QED BY <1>b, <3>1, JoinMiddle
  <2>2. frame = (start \o code) \o tail
    <3>1. start \in Bytes /\ code \in Bytes /\ tail \in Bytes
      BY <1>8, <1>b
    <3>2. (start \o code) \o tail = start \o (code \o tail)
      BY <3>1, Regroup
    <3> QED BY <1>8, <1>t, <3>2
  <2> QED BY <1>2, <2>1, <2>2
<1> QED BY <1>1, <1>6, <1>7, <1>9, <1>10, <1>11, <1>n DEF Shape

(* src/src/ca/tpdu.rs:83-192: a frame that lost bytes at its end is refused,
   whatever its bytes look like.                                            *)
LEMMA SpoiltRefused ==
    ASSUME NEW slots, NEW at \in Nat, NEW data \in Bytes, Len(data) + 1 \in U16,
           NEW lost \in Nat \ {0}, NEW whole, whole = ModuleFrame(at, data), lost <= Len(whole)
    PROVE  ParseFrame(Shortened(whole, lost), slots) = Malformed
<1>p. PICK n, code, frame, status, x, length :
          /\ n = Len(data) + 1 /\ code = Encode(n)
          /\ frame = DataFrame(at, DataLast, data) /\ status = Status(at, 0)
          /\ x = Shortened(whole, lost) /\ length = Decode(From(x, 4))
  OBVIOUS
<1>1. /\ code \in Bytes /\ Len(code) \in 1 .. 3 /\ Len(data) \in Nat
      /\ frame \in Bytes /\ Len(frame) = 4 + Len(code) + Len(data)
      /\ \A k \in 1 .. Len(code) : frame[3 + k] = code[k]
  <2>1. DataLast \in Nat
    BY DEF DataLast
  <2>2. Shape(DataLast, data, Encode(Len(data) + 1), DataFrame(at, DataLast, data))
    BY <2>1, FrameShape
  <2>3. Shape(DataLast, data, code, frame)
    BY <1>p, <2>2
  <2> QED BY <2>3 DEF Shape
<1>2. status \in Bytes /\ Len(status) = 4
  BY <1>p DEF Bytes, Status, StatusTag
<1>3. /\ whole \in Bytes /\ Len(whole) = 8 + Len(code) + Len(data)
      /\ \A i \in 1 .. Len(frame) : whole[i] = frame[i]
  <2>1. whole = frame \o status
    BY <1>p DEF ModuleFrame
  <2>2. /\ frame \o status \in Bytes /\ Len(frame \o status) = Len(frame) + Len(status)
        /\ \A i \in 1 .. Len(frame) : (frame \o status)[i] = frame[i]
    BY <1>1, <1>2, JoinFirst
  <2> QED BY <1>1, <1>2, <2>1, <2>2
<1>m. PICK m : m = Len(whole) - lost
  OBVIOUS
<1>4. m \in 0 .. Len(whole) /\ m < Len(whole) /\ m \in Nat /\ Len(whole) \in Nat
  BY <1>1, <1>3, <1>m
<1>5. x \in Bytes /\ Len(x) = m /\ \A k \in 1 .. m : x[k] = whole[k]
  <2>1. x = SubSeq(whole, 1, m)
    BY <1>m, <1>p DEF Shortened
  <2> QED BY <1>3, <1>4, <2>1, CutFirst
<1>6. CASE m < 5
  <2>1. Len(x) < 5
    BY <1>5, <1>6
  <2> QED BY <1>p, <2>1 DEF ParseFrame
<1>7. CASE ~(m < 5)
  <2>d. PICK d : d = From(x, 4)
    OBVIOUS
  <2>1. d \in Bytes /\ Len(d) = m - 3 /\ \A k \in 1 .. m - 3 : d[k] = x[3 + k]
    <3>1. 3 \in 0 .. Len(x) /\ 3 + 1 = 4
      BY <1>4, <1>5, <1>7
    <3>2. /\ From(x, 3 + 1) \in Bytes
          /\ Len(From(x, 3 + 1)) = Len(x) - 3
          /\ \A k \in 1 .. Len(x) - 3 : From(x, 3 + 1)[k] = x[3 + k]
      BY <1>5, <3>1, FromBytes
    <3> QED BY <1>5, <2>d, <3>1, <3>2
  <2>2. ASSUME NEW i \in 1 .. Len(d), i <= Len(code) PROVE d[i] = code[i]
    <3>1. i \in 1 .. m - 3 /\ 3 + i \in 1 .. m /\ i \in 1 .. Len(code)
      BY <1>1, <1>4, <2>1, <2>2
    <3>2. d[i] = whole[3 + i]
      BY <1>5, <2>1, <3>1
    <3>3. 3 + i \in 1 .. Len(frame)
      BY <1>1, <3>1
    <3> QED BY <1>1, <1>3, <3>1, <3>2, <3>3
  <2>3. length \in {Malformed, Length(n, Len(code))}
    <3>1. n \in U16
      BY <1>p
    <3>2. \A i \in 1 .. Len(d) : i <= Len(Encode(n)) => d[i] = Encode(n)[i]
      BY <1>p, <2>2
    <3>3. Decode(d) \in {Malformed, Length(n, Len(Encode(n)))}
      BY <2>1, <3>1, <3>2, LengthCut
    <3> QED BY <1>p, <2>d, <3>3
  <2>4. FrameBody(x, length) = Malformed
    <3>1. CASE length = Malformed
      BY <3>1 DEF FrameBody
    <3>2. CASE length # Malformed
      <4>1. length.value = n /\ length.size = Len(code)
        BY <2>3, <3>2 DEF Length
      <4>2. 3 + length.size + length.value + 4 # Len(x)
        <5>1. 3 + Len(code) + n + 4 # m
          BY <1>1, <1>3, <1>4, <1>p
        <5> QED BY <1>5, <4>1, <5>1
      <4> QED BY <3>2, <4>2 DEF FrameBody
    <3> QED BY <3>1, <3>2
  <2>5. ParseFrame(x, slots) \in {Malformed, FrameBody(x, length)}
    BY <1>p DEF ParseFrame
  <2> QED BY <1>p, <2>4, <2>5
<1> QED BY <1>6, <1>7

(* src/src/ca/spdu.rs:60-108: the header of a session_number object is read
   back as it was written, with what follows it.                            *)
LEMMA SessionReadBack ==
    ASSUME NEW n \in U16, NEW data \in Bytes, NEW spdu, spdu = SessionNumber(n) \o data
    PROVE  /\ spdu \in Bytes /\ Len(spdu) = 4 + Len(data)
           /\ ParseSpdu(spdu) = [session |-> n, payload |-> data]
           /\ ParseSpdu(spdu) # Malformed
<1>1. Base \in Nat /\ Base > 0 /\ n \in Nat /\ n < Base * Base
  BY WireAssumption DEF Sizes, U16
<1>p. PICK high, low, head : high = n \div Base /\ low = n % Base /\ head = << 144, 2, high, low >>
  OBVIOUS
<1>2. high \in Nat /\ low \in Nat /\ high * Base + low = n
  <2>1. n = Base * high + low /\ low \in 0 .. Base - 1 /\ high \in Int
    BY <1>1, <1>p
  <2>2. 0 <= high
    <3>1. \A room \in Nat \ {0}, h \in Int, m \in Nat :
             \A l \in 0 .. room - 1 : m = room * h + l => 0 <= h
      <4> TAKE room \in Nat \ {0}, h \in Int, m \in Nat
      <4> TAKE l \in 0 .. room - 1
      <4> SUFFICES ASSUME h <= -1, m = room * h + l PROVE FALSE
        OBVIOUS
      <4>1. room * h <= room * (-1)
        OBVIOUS
      <4> QED BY <4>1
    <3>2. Base \in Nat \ {0} /\ high \in Int /\ n \in Nat /\ low \in 0 .. Base - 1
      BY <1>1, <2>1
    <3>3. n = Base * high + low
      BY <2>1
    <3> QED BY <3>1, <3>2, <3>3, Zenon
  <2>3. high * Base + low = n
    BY <1>1, <2>1
  <2> QED BY <1>1, <2>1, <2>2, <2>3
<1>3. SessionNumber(n) = head
  <2>p. PICK a, b : a = << 144, 2 >> /\ b = << high, low >>
    OBVIOUS
  <2>1. a \in Bytes /\ b \in Bytes /\ Len(a) = 2 /\ Len(b) = 2
    BY <1>2, <2>p DEF Bytes
  <2>2. /\ a \o b \in Bytes /\ Len(a \o b) = Len(a) + Len(b)
        /\ \A i \in 1 .. Len(a) : (a \o b)[i] = a[i]
    BY <2>1, JoinFirst
  <2>3. \A i \in 1 .. Len(b) : (a \o b)[Len(a) + i] = b[i]
    BY <2>1, JoinLast
  <2>4. 1 \in 1 .. 2 /\ 2 \in 1 .. 2
    OBVIOUS
  <2>5. /\ (a \o b)[1] = 144 /\ (a \o b)[2] = 2
    BY <2>1, <2>2, <2>4, <2>p
  <2>6. (a \o b)[2 + 1] = high /\ (a \o b)[2 + 2] = low
    BY <2>1, <2>3, <2>4, <2>p
  <2>7. \A i \in 1 .. 4 : (a \o b)[i] = head[i]
    <3>1. head[1] = 144 /\ head[2] = 2 /\ head[3] = high /\ head[4] = low
      BY <1>p
    <3>2. 2 + 1 = 3 /\ 2 + 2 = 4
      OBVIOUS
    <3>3. (a \o b)[3] = high /\ (a \o b)[4] = low
      BY <2>6, <3>2, Zenon
    <3>c. PICK ab : ab = a \o b
      OBVIOUS
    <3>4. ab[1] = head[1] /\ ab[2] = head[2] /\ ab[3] = head[3] /\ ab[4] = head[4]
      BY <2>5, <3>1, <3>3, <3>c, Zenon
    <3>5. \A i \in 1 .. 4 : ab[i] = head[i]
      BY <3>4
    <3> QED BY <3>5, <3>c
  <2>8. head \in Bytes /\ Len(head) = 4
    BY <1>2, <1>p DEF Bytes
  <2>9. Len(a \o b) = 4
    BY <2>1, <2>2
  <2>10. a \o b = head
    BY <2>2, <2>7, <2>8, <2>9, SameBytes
  <2>11. SessionNumber(n) = a \o b
    BY <1>p, <2>p, Zenon DEF SessionNumber, TwoBytes
  <2> QED BY <2>10, <2>11
<1>4. head \in Bytes /\ Len(head) = 4 /\ head[1] = 144 /\ head[2] = 2
      /\ head[3] = high /\ head[4] = low
  BY <1>2, <1>p DEF Bytes
<1>5. /\ spdu \in Bytes /\ Len(data) \in Nat /\ Len(spdu) = 4 + Len(data)
      /\ spdu[1] = 144 /\ spdu[2] = 2 /\ spdu[3] = high /\ spdu[4] = low
  <2>1. /\ head \o data \in Bytes /\ Len(data) \in Nat
        /\ Len(head \o data) = Len(head) + Len(data)
        /\ \A i \in 1 .. Len(head) : (head \o data)[i] = head[i]
    <3>1. head \in Bytes
      BY <1>4
    <3> QED BY <3>1, JoinFirst
  <2>2. 1 \in 1 .. 4 /\ 2 \in 1 .. 4 /\ 3 \in 1 .. 4 /\ 4 \in 1 .. 4
    OBVIOUS
  <2> QED BY <1>3, <1>4, <2>1, <2>2
<1>6. From(spdu, 5) = data
  <2>1. SubSeq(head \o data, Len(head) + 1, Len(head) + Len(data)) = data
    BY <1>4, JoinLast
  <2> QED BY <1>3, <1>4, <1>5, <2>1 DEF From
<1>7. ParseSpdu(spdu) = [session |-> n, payload |-> data]
  <2>1. ~(Len(spdu) < 4) /\ spdu[3] * Base + spdu[4] = n
    BY <1>2, <1>5
  <2> QED BY <1>5, <1>6, <2>1 DEF ParseSpdu
<1>8. ParseSpdu(spdu) # Malformed
  <2>1. [session |-> n, payload |-> data] \in [session : Nat, payload : Seq(Nat)]
    BY <1>1 DEF Bytes
  <2> QED BY <1>7, <2>1, WireAssumption DEF Sizes
<1> QED BY <1>5, <1>7, <1>8

-----------------------------------------------------------------------------
(* What a module can write, and what the host reads of it.                  *)

(* What is no more than a size that fits two bytes fits them too.           *)
LEMMA FitsBelow ==
    ASSUME NEW b \in U16, NEW a \in Nat, a <= b
    PROVE  a \in U16
<1>p. PICK top : top = Base * Base
  OBVIOUS
<1>1. Base \in Nat /\ top \in Nat
  BY <1>p, WireAssumption DEF Sizes
<1>2. b \in 0 .. top - 1
  BY <1>p DEF U16
<1>3. a \in 0 .. top - 1
  BY <1>1, <1>2
<1> QED BY <1>3, <1>p DEF U16

(* What is read of objects whose last `cut' bytes are missing, in a frame
   that lost `damage' bytes.                                                *)
Readable(apdus, cut, damage) ==
    LET size == Len(Concat(apdus)) - cut
        whole == SubSeq(apdus, 1, Cardinality(WholeObjects(apdus, size)))
    IN  IF damage > 0 THEN << Malformed >>
        ELSE whole \o IF Len(Concat(whole)) = size THEN <<>> ELSE << Malformed >>

Fits(apdus) == apdus \in Seq(Objects) /\ Len(Concat(apdus)) + 5 \in U16

(* src/src/ca/transport.rs:309-372: what comes out of a module's frame.     *)
LEMMA WhatIsRead ==
    ASSUME NEW slots \in Nat, NEW at \in 0 .. slots - 1, NEW n \in U16,
           NEW apdus, Fits(apdus), NEW cut \in 0 .. Len(Concat(apdus)), NEW damage \in 0 .. 4
    PROVE  Unwrapped(ParseFrame(Shortened(ModuleFrame(at, Spdu(n, apdus, cut)), damage), slots))
              = Readable(apdus, cut, damage)
<1>p. PICK c, data, spdu, frame, size : /\ c = Concat(apdus) /\ data = Shortened(c, cut)
                                  /\ spdu = Spdu(n, apdus, cut)
                                  /\ frame = ModuleFrame(at, spdu) /\ size = Len(c) - cut
  OBVIOUS
<1>1. apdus \in Seq(Objects) /\ c \in Bytes /\ Len(c) \in Nat /\ Len(c) + 5 \in U16
  <2>1. apdus \in Seq(Objects) /\ Len(c) + 5 \in U16
    BY <1>p DEF Fits
  <2>2. c \in Bytes
    BY <1>p, <2>1, ConcatSteps
  <2> QED BY <2>1, <2>2 DEF Bytes
<1>2. size \in 0 .. Len(c) /\ size \in Nat
  BY <1>1, <1>p
<1>3. data = SubSeq(c, 1, size) /\ data \in Bytes /\ Len(data) = size
  <2>1. data = SubSeq(c, 1, size)
    BY <1>p DEF Shortened
  <2> QED BY <1>1, <1>2, <2>1, CutFirst
<1>4. /\ spdu \in Bytes /\ Len(spdu) = 4 + size
      /\ ParseSpdu(spdu) = [session |-> n, payload |-> data] /\ ParseSpdu(spdu) # Malformed
  <2>1. spdu = SessionNumber(n) \o data
    BY <1>p DEF Spdu
  <2> QED BY <1>3, <2>1, SessionReadBack
<1>5. Len(spdu) + 1 \in U16
  <2>1. 5 + size \in Nat /\ 5 + size <= Len(c) + 5 /\ Len(spdu) + 1 = 5 + size
    BY <1>1, <1>2, <1>4
  <2> QED BY <1>1, <2>1, FitsBelow
<1>6. frame \in Bytes /\ Len(frame) \in Nat /\ Len(frame) >= 4
  <2>1. PICK one, status, code : /\ one = DataFrame(at, DataLast, spdu) /\ status = Status(at, 0)
                                 /\ code = Encode(Len(spdu) + 1)
    OBVIOUS
  <2>2. at \in Nat /\ DataLast \in Nat
    BY DEF DataLast
  <2>3. Shape(DataLast, spdu, Encode(Len(spdu) + 1), DataFrame(at, DataLast, spdu))
    BY <1>4, <1>5, <2>2, FrameShape
  <2>4. one \in Bytes
    BY <2>1, <2>3 DEF Shape
  <2>5. status \in Bytes /\ Len(status) = 4
    BY <2>1, <2>2 DEF Bytes, Status, StatusTag
  <2>6. frame = one \o status
    BY <1>p, <2>1 DEF ModuleFrame
  <2>7. /\ one \o status \in Bytes /\ Len(one) \in Nat
        /\ Len(one \o status) = Len(one) + Len(status)
    BY <2>4, <2>5, JoinFirst
  <2> QED BY <2>5, <2>6, <2>7
<1>7. CASE damage > 0
  <2>1. ParseFrame(Shortened(frame, damage), slots) = Malformed
    <3>1. damage \in Nat \ {0} /\ damage <= Len(frame) /\ at \in Nat
      BY <1>6, <1>7
    <3> QED BY <1>4, <1>5, <1>p, <3>1, SpoiltRefused
  <2> QED BY <1>7, <1>p, <2>1 DEF Unwrapped, Readable
<1>8. CASE ~(damage > 0)
  <2>1. Shortened(frame, damage) = frame
    <3>1. Len(frame) - damage = Len(frame) /\ frame \in Seq(Nat)
      BY <1>6, <1>8 DEF Bytes
    <3> QED BY <3>1, SubSeqFull DEF Shortened
  <2>2. ParseFrame(frame, slots) = spdu
    BY <1>4, <1>5, <1>p, FramesReadBack
  <2>3. spdu # Malformed
    BY <1>4, WireAssumption DEF Sizes, Bytes
  <2>4. Unwrapped(spdu) = Apdus(data)
    BY <1>4, <2>3 DEF Unwrapped, ObjectsOf
  <2>5. LET whole == SubSeq(apdus, 1, Cardinality(WholeObjects(apdus, size)))
        IN  Apdus(SubSeq(Concat(apdus), 1, size)) =
               whole \o IF Len(Concat(whole)) = size THEN <<>> ELSE << Malformed >>
    <3>1. size \in 0 .. Len(Concat(apdus))
      BY <1>2, <1>p
    <3> QED BY <1>1, <3>1, WholeAreRead
  <2>6. Apdus(data) = Readable(apdus, cut, damage)
    BY <1>3, <1>8, <1>p, <2>5 DEF Readable
  <2> QED BY <1>p, <2>1, <2>2, <2>4, <2>6
<1> QED BY <1>7, <1>8

(* The text objects of a dialogue are objects one after another.            *)
LEMMA TextIsBytes ==
    ASSUME NEW text \in Bytes, Len(text) \in U16
    PROVE  TextObject(text) \in Bytes
<1>1. Len(text) \in Nat /\ TextMore \in Bytes /\ TextLast \in Bytes /\ Len(TextMore) = 3
      /\ Len(TextLast) = 3
  BY DEF Bytes, TextMore, TextLast, Tag
<1>o. ASSUME NEW tag \in Bytes, Len(tag) = 3, NEW body \in Bytes, Len(body) \in U16
      PROVE  BuildApdu(Apdu(tag, body)) \in Bytes
  <2>1. Apdu(tag, body) \in Objects
    BY <1>o DEF Apdu, Objects, IsObject, Bytes
  <2> QED BY <2>1, ObjectBuilt
<1>2. CASE Len(text) > 1
  <2>p. PICK first, rest : first = << text[1] >> /\ rest = Tail(text)
    OBVIOUS
  <2>1. /\ first \in Bytes /\ Len(first) = 1 /\ rest \in Bytes /\ Len(rest) = Len(text) - 1
    BY <1>1, <1>2, <2>p DEF Bytes
  <2>2. Len(first) \in U16 /\ Len(rest) \in U16
    <3>1. 1 <= Len(text) /\ Len(text) - 1 \in Nat /\ Len(text) - 1 <= Len(text)
      BY <1>1, <1>2
    <3> QED BY <2>1, <3>1, FitsBelow
  <2>3. PICK x, y : x = BuildApdu(Apdu(TextMore, first)) /\ y = BuildApdu(Apdu(TextLast, rest))
    OBVIOUS
  <2>4. x \in Bytes /\ y \in Bytes
    BY <1>1, <1>o, <2>1, <2>2, <2>3
  <2>5. x \o y \in Bytes
    BY <2>4, JoinFirst
  <2> QED BY <1>2, <2>3, <2>5, <2>p DEF TextObject
<1>3. CASE ~(Len(text) > 1)
  BY <1>1, <1>3, <1>o DEF TextObject
<1> QED BY <1>2, <1>3

(* The texts of a dialogue are bytes on the wire.                           *)
LEMMA TextsAreBytes ==
    ASSUME NEW texts \in Seq(Bytes), \A i \in DOMAIN texts : Len(texts[i]) \in U16
    PROVE  TextObjects(texts) \in Bytes
<1>p. PICK ss : ss = [i \in DOMAIN texts |-> TextObject(texts[i])]
  OBVIOUS
<1>1. \A i \in DOMAIN texts : TextObject(texts[i]) \in Bytes
  <2> TAKE i \in DOMAIN texts
  <2>1. texts[i] \in Bytes
    OBVIOUS
  <2> QED BY <2>1, TextIsBytes
<1>2. ss \in Seq(Bytes)
  BY <1>1, <1>p
<1> QED BY <1>2, <1>p, FlattenType DEF TextObjects

(* What a module wants shown is bytes, and few enough.                      *)
LEMMA DialogueIsBytes ==
    ASSUME NEW d \in Dialogues
    PROVE  DialogueBytes(d) \in Bytes /\ Len(DialogueBytes(d)) + 11 \in U16
<1>1. /\ d \in [kind : {"Text", "Menu", "List"}, texts : Seq(Seq(Nat)), missing : Nat]
      /\ d.texts # <<>> /\ \A i \in DOMAIN d.texts : Len(d.texts[i]) \in U16
      /\ d.missing <= Len(TextObjects(d.texts))
      /\ Len(DialogueBytes(d)) + 11 \in U16
  BY DialoguesAssumption
<1>p. PICK texts, missing, all : /\ texts = d.texts /\ missing = d.missing
                                 /\ all = TextObjects(texts)
  OBVIOUS
<1>2. texts \in Seq(Bytes) /\ missing \in Nat /\ texts # <<>>
  BY <1>1, <1>p DEF Bytes
<1>3. all \in Bytes /\ Len(all) \in Nat
  <2>1. all \in Bytes
    BY <1>1, <1>2, <1>p, TextsAreBytes
  <2> QED BY <2>1 DEF Bytes
<1>4. CASE d.kind = "Text"
  <2>1. texts[1] \in Bytes
    BY <1>2
  <2> QED BY <1>1, <1>4, <1>p, <2>1 DEF DialogueBytes
<1>5. CASE d.kind # "Text"
  <2>p. PICK one, both : one = << Len(texts) >> /\ both = one \o all
    OBVIOUS
  <2>1. one \in Bytes /\ Len(one) = 1
    BY <1>2, <2>p DEF Bytes
  <2>2. both \in Bytes /\ Len(both) = 1 + Len(all)
    <3>1. one \o all \in Bytes /\ Len(one \o all) = Len(one) + Len(all)
      BY <1>3, <2>1, JoinFirst
    <3> QED BY <2>1, <2>p, <3>1
  <2>3. Len(both) - missing \in 0 .. Len(both)
    BY <1>1, <1>2, <1>3, <1>p, <2>2
  <2>4. SubSeq(both, 1, Len(both) - missing) \in Bytes
    BY <2>2, <2>3, CutFirst
  <2>5. DialogueBytes(d) = SubSeq(both, 1, Len(both) - missing)
    BY <1>5, <1>p, <2>p DEF DialogueBytes, Shortened
  <2> QED BY <1>1, <2>4, <2>5
<1> QED BY <1>4, <1>5

(***************************************************************************)
(* The objects of the modules arrive: what is in the sessions' table, and  *)
(* what a module is in the middle of saying, is what fits a frame.         *)
(***************************************************************************)
Entries == [slot : 0 .. Slots - 1, resource : Names, closing : BOOLEAN]
Begins == [dialogue : Dialogues, left : Seq(Nat), whole : BOOLEAN]

TableTyped == table \in [Sessions -> Entries \cup {None}]
SpeakingTyped ==
    /\ speaking \in [Sessions -> Begins \cup {None}]
    /\ \A n \in Sessions : speaking[n] # None => Len(speaking[n].left) + 11 \in U16
HeardRead ==
    heard # None =>
        heard.got = Readable(heard.apdus, heard.cut, heard.damage)

ArriveInv == interest \in Interests /\ TableTyped /\ SpeakingTyped /\ HeardRead

(* An entry of the table is not None.                                       *)
LEMMA EntryIsOpen ==
    \A e \in Entries : e # None
<1>1. SlotsAssumption /\ NoneAssumption
  BY SlotsAssumption, NoneAssumption
<1> SUFFICES ASSUME None \in Entries PROVE FALSE
  OBVIOUS
<1>2. None \in [slot : Nat, resource : Names, closing : BOOLEAN]
  BY SlotsAssumption DEF Entries
<1> QED BY <1>2, NoneAssumption

(* An open session has its number, its slot and its resource.               *)
LEMMA OpenEntry ==
    ASSUME TableTyped, NEW n \in Open
    PROVE  n \in Sessions /\ n \in U16 /\ table[n] \in Entries /\ table[n].slot \in 0 .. Slots - 1
           /\ table[n].resource \in Names
BY SlotsAssumption DEF TableTyped, Open, Entries

(* The inputs of the modules fit a frame.                                   *)
LEMMA InputFits ==
    ASSUME NEW resource \in Names, NEW apdus \in Inputs[resource]
    PROVE  Fits(apdus) /\ Len(Concat(apdus)) \in Nat /\ 4 <= Len(Concat(apdus))
<1>1. /\ apdus \in Seq([tag : Seq(Nat), body : Seq(Nat)]) /\ apdus # <<>>
      /\ \A i \in DOMAIN apdus : IsObject(apdus[i])
      /\ Len(Concat(apdus)) + 5 \in U16
  BY InputsAssumption
<1> DEFINE R == [tag : Bytes, body : Bytes]
<1>r. R = [tag : Seq(Nat), body : Seq(Nat)]
  BY DEF Bytes
<1>2. /\ \A i \in 1 .. Len(apdus) : apdus[i] \in Objects
      /\ apdus \in Seq(Objects) /\ Len(apdus) \in Nat \ {0}
  <2> HIDE DEF R
  <2>1. apdus \in Seq(R)
    BY <1>1, <1>r
  <2>2. \A i \in 1 .. Len(apdus) : apdus[i] \in R /\ i \in DOMAIN apdus
    BY <2>1
  <2>3. \A i \in 1 .. Len(apdus) : apdus[i] \in Objects
    BY <1>1, <2>2 DEF Objects, R
  <2>4. Len(apdus) \in Nat \ {0}
    BY <1>1, <2>1
  <2>5. apdus \in Seq(Objects)
    BY <2>1, <2>3
  <2> QED BY <2>3, <2>4, <2>5
<1>3. apdus \in Seq(Objects) /\ Len(apdus) \in Nat \ {0}
  BY <1>2
<1>4. Fits(apdus)
  BY <1>1, <1>3 DEF Fits
<1>5. Len(Concat(apdus)) \in Nat
  <2>1. Concat(apdus) \in Bytes
    BY <1>3, ConcatSteps
  <2> QED BY <2>1 DEF Bytes
<1>6. 4 <= Len(Concat(apdus))
  <2>p. PICK m : m = Len(apdus)
    OBVIOUS
  <2>1. m \in 1 .. Len(apdus) /\ m - 1 \in 0 .. Len(apdus) /\ m \in 0 .. Len(apdus)
    BY <1>3, <2>p
  <2>2. /\ End(apdus, Len(apdus)) = Len(Concat(apdus))
        /\ \A i \in 0 .. Len(apdus) : End(apdus, i) \in Nat
        /\ \A i \in 1 .. Len(apdus) :
              End(apdus, i) = End(apdus, i - 1) + Len(BuildApdu(apdus[i]))
    BY <1>3, EndsGrow
  <2>3. apdus[m] \in Objects
    BY <1>2, <2>1
  <2>4. /\ Len(BuildApdu(apdus[m])) \in Nat
        /\ Len(BuildApdu(apdus[m])) >= 4 + Len(apdus[m].body)
    BY <2>3, ObjectBuilt
  <2>5. Len(apdus[m].body) \in Nat
    BY <2>3 DEF Objects, Bytes
  <2>6. End(apdus, m) = End(apdus, m - 1) + Len(BuildApdu(apdus[m]))
        /\ End(apdus, m - 1) \in Nat /\ End(apdus, m) = Len(Concat(apdus))
    BY <2>1, <2>2, <2>p
  <2> QED BY <1>5, <2>4, <2>5, <2>6
<1> QED BY <1>4, <1>5, <1>6

(* One object whose body is few bytes fits a frame.                         *)
LEMMA OneFits ==
    ASSUME NEW apdu \in [tag : Bytes, body : Bytes], Len(apdu.tag) = 3,
           Len(apdu.body) + 11 \in U16
    PROVE  Fits(<< apdu >>) /\ Len(Concat(<< apdu >>)) \in Nat /\ apdu \in Objects
<1>p. PICK m : m = Len(apdu.body)
  OBVIOUS
<1>1. m \in Nat /\ m + 11 \in U16
  BY <1>p DEF Bytes
<1>2. apdu \in Objects
  <2>1. m \in U16
    <3>1. m <= m + 11
      BY <1>1
    <3> QED BY <1>1, <3>1, FitsBelow
  <2> QED BY <1>p, <2>1 DEF Objects, IsObject, Bytes
<1>3. Concat(<< apdu >>) = BuildApdu(apdu)
  <2>1. <<>> \in Seq(Objects) /\ Append(<<>>, apdu) = << apdu >>
    OBVIOUS
  <2>2. Concat(Append(<<>>, apdu)) = Concat(<<>>) \o BuildApdu(apdu) /\ Concat(<<>>) = <<>>
    BY <1>2, <2>1, ConcatSteps
  <2>3. BuildApdu(apdu) \in Seq(Nat)
    BY <1>2, ObjectBuilt DEF Bytes
  <2> QED BY <2>1, <2>2, <2>3, ConcatEmptySeq
<1>4. /\ Len(BuildApdu(apdu)) \in Nat /\ Len(BuildApdu(apdu)) <= 6 + m
  BY <1>2, <1>p, ObjectBuilt
<1>5. Len(BuildApdu(apdu)) + 5 \in U16
  <2>1. Len(BuildApdu(apdu)) + 5 \in Nat /\ Len(BuildApdu(apdu)) + 5 <= m + 11
    BY <1>1, <1>4
  <2> QED BY <1>1, <2>1, FitsBelow
<1>6. << apdu >> \in Seq(Objects)
  BY <1>2
<1> QED BY <1>2, <1>3, <1>4, <1>5, <1>6 DEF Fits

(* What comes out of a frame is the objects in it that are whole, or one    *)
(* error for a damaged frame (tpdu::parse, spdu::parse, apdu::iter).        *)
LEMMA ReceivedReadable ==
    ASSUME TableTyped, NEW n \in Open, NEW apdus, Fits(apdus),
           NEW cut \in 0 .. Len(Concat(apdus)), NEW damage \in 0 .. 4
    PROVE  Received(n, apdus, cut, damage) = Readable(apdus, cut, damage)
<1>1. n \in U16 /\ table[n].slot \in 0 .. Slots - 1 /\ Slots \in Nat
  BY OpenEntry, SlotsAssumption
<1>p. PICK at : at = table[n].slot
  OBVIOUS
<1>2. Unwrapped(ParseFrame(Shortened(ModuleFrame(at, Spdu(n, apdus, cut)), damage), Slots))
              = Readable(apdus, cut, damage)
  BY <1>1, <1>p, WhatIsRead
<1> QED BY <1>2, <1>p DEF Received, Frame

(* The tags of a dialogue's parts.                                          *)
LEMMA TagsOfParts ==
    ASSUME NEW kind \in {"Text", "Menu", "List"}
    PROVE  /\ LastTag[kind] \in Bytes /\ Len(LastTag[kind]) = 3
           /\ MoreTag[kind] \in Bytes /\ Len(MoreTag[kind]) = 3
<1>1. CASE kind = "Text"
  BY <1>1 DEF LastTag, MoreTag, Bytes, TextMore, TextLast, Tag
<1>2. CASE kind = "Menu"
  BY <1>2 DEF LastTag, MoreTag, Bytes, MenuMore, MenuLast, Tag
<1>3. CASE kind = "List"
  BY <1>3 DEF LastTag, MoreTag, Bytes, ListMore, ListLast, Tag
<1> QED BY <1>1, <1>2, <1>3

(* A part of what is left to say, and what is left then, are no more.       *)
LEMMA PartsAreLess ==
    ASSUME NEW all \in Bytes, Len(all) + 11 \in U16, NEW k \in Nat \ {0}
    PROVE  LET body == IF Len(all) <= k THEN all ELSE SubSeq(all, 1, k)
               left == IF Len(all) <= k THEN <<>> ELSE From(all, k + 1)
           IN  /\ body \in Bytes /\ Len(body) + 11 \in U16
               /\ left \in Bytes /\ Len(left) + 11 \in U16
<1>p. PICK n : n = Len(all)
  OBVIOUS
<1>1. n \in Nat /\ n + 11 \in U16
  BY <1>p DEF Bytes
<1>2. ASSUME NEW m \in Nat, m <= n PROVE m + 11 \in U16
  <2>1. m + 11 \in Nat /\ m + 11 <= n + 11
    BY <1>1, <1>2
  <2> QED BY <1>1, <2>1, FitsBelow
<1>3. CASE n <= k
  <2>1. <<>> \in Bytes /\ Len(<<>>) = 0 /\ 0 \in Nat /\ 0 <= n
    BY <1>1 DEF Bytes
  <2>2. 0 + 11 \in U16
    BY <1>2, <2>1
  <2> QED BY <1>3, <1>p, <2>1, <2>2
<1>4. CASE ~(n <= k)
  <2>1. k \in 0 .. Len(all) /\ k \in Nat /\ k <= n /\ n - k \in Nat /\ n - k <= n
    BY <1>1, <1>4, <1>p
  <2>2. SubSeq(all, 1, k) \in Bytes /\ Len(SubSeq(all, 1, k)) = k
    BY <2>1, CutFirst
  <2>3. From(all, k + 1) \in Bytes /\ Len(From(all, k + 1)) = n - k
    BY <1>p, <2>1, FromBytes
  <2>4. k + 11 \in U16 /\ n - k + 11 \in U16
    BY <1>2, <2>1
  <2> QED BY <1>4, <1>p, <2>2, <2>3, <2>4
<1> QED BY <1>3, <1>4

(***************************************************************************)
(* The steps of a module that says something: what the host is handed is   *)
(* what Readable says.                                                     *)
(***************************************************************************)
Writing(n, apdus, cut, damage, short, got, h) ==
    /\ h = DispatchApdu(Host, n, got, short)
    /\ h.revision <= MaxRevision
    /\ Commit(h)
    /\ heard' = [apdus |-> apdus, cut |-> cut, damage |-> damage, got |-> got, meant |-> None]
    /\ table' = IF h.close THEN [table EXCEPT ![n].closing = TRUE] ELSE table
    /\ UNCHANGED << now, speaking >>

(* A module's write, with what the host reads of it named.                  *)
LEMMA WritesUnfold ==
    ASSUME TableTyped, NEW n \in Sessions, Writes(n)
    PROVE  /\ n \in Open
           /\ \E apdus \in Inputs[table[n].resource], cut \in {0, 1}, damage \in {0, 4} :
              \E short, got, h :
                 /\ Fits(apdus) /\ got = Readable(apdus, cut, damage)
                 /\ Writing(n, apdus, cut, damage, short, got, h)
<1>1. n \in Open /\ UNCHANGED speaking
  BY DEF Writes
<1>2. table[n].resource \in Names
  BY <1>1, OpenEntry
<1>a. PICK apdus \in Inputs[table[n].resource] :
          \E fault \in Faults(table[n].resource, apdus) :
             Hears(n, apdus, fault[1], fault[2], fault[3])
  BY DEF Writes
<1>3. PICK fault \in Faults(table[n].resource, apdus) :
          Hears(n, apdus, fault[1], fault[2], fault[3])
  BY <1>a
<1>p. PICK cut, damage, short, got, h :
          /\ cut = fault[1] /\ damage = fault[2] /\ short = fault[3]
          /\ got = Received(n, apdus, cut, damage) /\ h = DispatchApdu(Host, n, got, short)
  OBVIOUS
<1>4. Fits(apdus) /\ Len(Concat(apdus)) \in Nat /\ 4 <= Len(Concat(apdus))
  BY <1>2, InputFits
<1>5. cut \in {0, 1} /\ damage \in {0, 4}
  BY <1>p DEF Faults
<1>6. got = Readable(apdus, cut, damage)
  <2>1. cut \in 0 .. Len(Concat(apdus)) /\ damage \in 0 .. 4
    BY <1>4, <1>5
  <2> QED BY <1>1, <1>4, <1>p, <2>1, ReceivedReadable
<1>7. /\ h.revision <= MaxRevision /\ Commit(h)
      /\ heard' = [apdus |-> apdus, cut |-> cut, damage |-> damage, got |-> got, meant |-> None]
      /\ table' = IF h.close THEN [table EXCEPT ![n].closing = TRUE] ELSE table
      /\ UNCHANGED now
  <2> HIDE DEF Received
  <2> QED BY <1>3, <1>p, Zenon DEF Hears
<1>8. Writing(n, apdus, cut, damage, short, got, h)
  BY <1>1, <1>7, <1>p DEF Writing
<1> QED BY <1>1, <1>4, <1>5, <1>6, <1>8

(* What the module is about to say, the part of it that goes out, and the
   rest of it.                                                              *)
BegunOn(n) ==
    IF speaking[n] = None \/ speaking[n].left = <<>>
    THEN {Begun(d, speaking[n] = None \/ speaking[n].whole) : d \in Dialogues}
    ELSE {speaking[n]}
IsLast(d, k) == Len(d.left) <= k
PartOf(d, k) ==
    Apdu((IF IsLast(d, k) THEN LastTag ELSE MoreTag)[d.dialogue.kind],
         IF IsLast(d, k) THEN d.left ELSE SubSeq(d.left, 1, k))
RestOf(d, k) == IF IsLast(d, k) THEN <<>> ELSE From(d.left, k + 1)
Reported(h) == \E i \in DOMAIN h.events : h.events[i].kind = "Malformed"

Spoken(n, d, k, damage, got, h) ==
    /\ h = DispatchApdu(Host, n, got, 0)
    /\ Commit(h)
    /\ heard' = [apdus |-> << PartOf(d, k) >>, cut |-> 0, damage |-> damage, got |-> got,
                 meant |-> IF IsLast(d, k) /\ d.whole THEN d.dialogue ELSE None]
    /\ speaking' = [speaking EXCEPT ![n] =
          IF IsLast(d, k) /\ ~Reported(h) THEN None
          ELSE [d EXCEPT !.left = RestOf(d, k), !.whole = @ /\ ~Reported(h)]]
    /\ UNCHANGED << table, now >>

(* A part of a dialogue fits a frame, and so does what is left.             *)
LEMMA PartFits ==
    ASSUME SpeakingTyped, NEW n \in Sessions, NEW d \in BegunOn(n), NEW k \in Chunks
    PROVE  /\ d \in Begins /\ Len(d.left) + 11 \in U16
           /\ PartOf(d, k) \in [tag : Bytes, body : Bytes] /\ Len(PartOf(d, k).tag) = 3
           /\ Len(PartOf(d, k).body) + 11 \in U16
           /\ RestOf(d, k) \in Bytes /\ Len(RestOf(d, k)) + 11 \in U16
<1>1. d \in Begins /\ Len(d.left) + 11 \in U16
  <2>1. CASE speaking[n] = None \/ speaking[n].left = <<>>
    <3>1. PICK x \in Dialogues : d = Begun(x, speaking[n] = None \/ speaking[n].whole)
      BY <2>1 DEF BegunOn
    <3>2. PICK w \in BOOLEAN : d = Begun(x, w)
      BY <3>1
    <3>3. DialogueBytes(x) \in Seq(Nat) /\ Len(DialogueBytes(x)) + 11 \in U16
      BY DialogueIsBytes DEF Bytes
    <3> QED BY <3>2, <3>3 DEF Begun, Begins
  <2>2. CASE ~(speaking[n] = None \/ speaking[n].left = <<>>)
    <3>1. d = speaking[n]
      BY <2>2 DEF BegunOn
    <3> QED BY <2>2, <3>1 DEF SpeakingTyped
  <2> QED BY <2>1, <2>2
<1>p. PICK all, tag, body, left :
          /\ all = d.left /\ left = RestOf(d, k)
          /\ body = IF Len(all) <= k THEN all ELSE SubSeq(all, 1, k)
          /\ tag = (IF IsLast(d, k) THEN LastTag ELSE MoreTag)[d.dialogue.kind]
  OBVIOUS
<1>2. all \in Bytes /\ Len(all) + 11 \in U16 /\ k \in Nat \ {0}
  BY <1>1, <1>p, DialoguesAssumption DEF Begins, Bytes
<1>3. tag \in Bytes /\ Len(tag) = 3
  <2>1. d.dialogue.kind \in {"Text", "Menu", "List"}
    BY <1>1, DialoguesAssumption DEF Begins
  <2> QED BY <1>p, <2>1, TagsOfParts
<1>4. /\ body \in Bytes /\ Len(body) + 11 \in U16
      /\ left \in Bytes /\ Len(left) + 11 \in U16
  BY <1>2, <1>p, PartsAreLess DEF RestOf, IsLast
<1>5. PartOf(d, k) = [tag |-> tag, body |-> body]
  BY <1>p DEF PartOf, IsLast, Apdu
<1>6. /\ PartOf(d, k) \in [tag : Bytes, body : Bytes] /\ Len(PartOf(d, k).tag) = 3
      /\ Len(PartOf(d, k).body) + 11 \in U16
  BY <1>3, <1>4, <1>5
<1> QED BY <1>1, <1>4, <1>6, <1>p

(* A part of a dialogue, with what the host reads of it named.              *)
LEMMA SpeaksUnfold ==
    ASSUME TableTyped, SpeakingTyped, NEW n \in Sessions, Speaks(n)
    PROVE  /\ n \in Open /\ table[n].resource = "Mmi"
           /\ \E d \in BegunOn(n), k \in Chunks, damage \in {0, 1} :
              \E got, h :
                 /\ Fits(<< PartOf(d, k) >>) /\ got = Readable(<< PartOf(d, k) >>, 0, damage)
                 /\ Spoken(n, d, k, damage, got, h)
<1>1. n \in Open /\ table[n].resource = "Mmi" /\ UNCHANGED << table, now >>
  BY DEF Speaks
<1> DEFINE Says(d, k, damage, got, h) ==
              /\ Commit(h)
              /\ heard' = [apdus |-> << PartOf(d, k) >>, cut |-> 0, damage |-> damage, got |-> got,
                           meant |-> IF IsLast(d, k) /\ d.whole THEN d.dialogue ELSE None]
              /\ speaking' = [speaking EXCEPT ![n] =
                    IF IsLast(d, k) /\ ~Reported(h) THEN None
                    ELSE [d EXCEPT !.left = RestOf(d, k), !.whole = @ /\ ~Reported(h)]]
<1>2. PICK d \in BegunOn(n), k \in Chunks, damage \in {0, 1} :
          \E got \in {Received(n, << PartOf(d, k) >>, 0, damage)} :
          \E h \in {DispatchApdu(Host, n, got, 0)} : Says(d, k, damage, got, h)
  BY Zenon DEF Speaks, BegunOn, PartOf, IsLast, RestOf, Reported
<1>p. PICK apdu, got, h : /\ apdu = PartOf(d, k) /\ got = Received(n, << apdu >>, 0, damage)
                          /\ h = DispatchApdu(Host, n, got, 0)
  OBVIOUS
<1>3. Says(d, k, damage, got, h)
  <2> HIDE DEF Says
  <2> QED BY <1>2, <1>p
<1>4. apdu \in [tag : Bytes, body : Bytes] /\ Len(apdu.tag) = 3 /\ Len(apdu.body) + 11 \in U16
  BY <1>p, PartFits
<1>5. Fits(<< apdu >>) /\ got = Readable(<< apdu >>, 0, damage)
  <2>1. Fits(<< apdu >>) /\ Len(Concat(<< apdu >>)) \in Nat
    BY <1>4, OneFits
  <2>2. 0 \in 0 .. Len(Concat(<< apdu >>)) /\ damage \in 0 .. 4
    BY <2>1
  <2> QED BY <1>1, <1>p, <2>1, <2>2, ReceivedReadable
<1>6. Spoken(n, d, k, damage, got, h)
  BY <1>1, <1>3, <1>p DEF Spoken
<1> QED BY <1>1, <1>5, <1>6, <1>p

-----------------------------------------------------------------------------
(* ApdusArrive.                                                             *)

(* At first nothing is open and nothing was heard.                          *)
LEMMA ArriveStarts == Init => ArriveInv
<1> SUFFICES ASSUME Init PROVE ArriveInv
  OBVIOUS
<1>1. interest \in Interests /\ table = Nothing /\ speaking = Nothing /\ heard = None
  BY DEF Init
<1>2. TableTyped
  BY <1>1 DEF TableTyped, Nothing
<1>3. SpeakingTyped
  BY <1>1 DEF SpeakingTyped, Nothing
<1> QED BY <1>1, <1>2, <1>3 DEF ArriveInv, HeardRead

(* src/src/ca/session.rs:493-571, src/src/ca/transport.rs:309-372: what a
   module writes is read as far as it is whole.                             *)
LEMMA WritesArrive ==
    ASSUME ArriveInv, NEW n \in Sessions, Writes(n), UNCHANGED interest
    PROVE  ArriveInv'
<1>1. interest \in Interests /\ TableTyped /\ SpeakingTyped
  BY DEF ArriveInv
<1>2. n \in Open /\ \E apdus, cut, damage, short, got, h :
         /\ got = Readable(apdus, cut, damage)
         /\ Writing(n, apdus, cut, damage, short, got, h)
  BY <1>1, WritesUnfold
<1>3. PICK apdus, cut, damage, short, got, h :
         /\ got = Readable(apdus, cut, damage)
         /\ Writing(n, apdus, cut, damage, short, got, h)
  BY <1>2
<1>4. HeardRead' /\ SpeakingTyped'
  BY <1>1, <1>3 DEF HeardRead, SpeakingTyped, Writing
<1>5. TableTyped'
  <2>1. [table[n] EXCEPT !.closing = TRUE] \in Entries
    BY <1>1, <1>2, OpenEntry DEF Entries
  <2>2. [table EXCEPT ![n].closing = TRUE] \in [Sessions -> Entries \cup {None}]
    BY <1>1, <2>1 DEF TableTyped
  <2> QED BY <1>1, <1>3, <2>2 DEF TableTyped, Writing
<1> QED BY <1>1, <1>4, <1>5 DEF ArriveInv

(* src/src/ca/resource/mmi.rs:300-339: and so is a part of a dialogue.      *)
LEMMA SpeaksArrive ==
    ASSUME ArriveInv, NEW n \in Sessions, Speaks(n), UNCHANGED interest
    PROVE  ArriveInv'
<1>1. interest \in Interests /\ TableTyped /\ SpeakingTyped
  BY DEF ArriveInv
<1>2. PICK d \in BegunOn(n), k \in Chunks, damage \in {0, 1} :
         \E got, h :
            /\ Fits(<< PartOf(d, k) >>) /\ got = Readable(<< PartOf(d, k) >>, 0, damage)
            /\ Spoken(n, d, k, damage, got, h)
  BY <1>1, SpeaksUnfold
<1>3. PICK got, h : /\ got = Readable(<< PartOf(d, k) >>, 0, damage)
                    /\ Spoken(n, d, k, damage, got, h)
  BY <1>2
<1>4. /\ d \in Begins /\ RestOf(d, k) \in Seq(Nat) /\ Len(RestOf(d, k)) + 11 \in U16
  BY <1>1, PartFits DEF Bytes
<1>5. HeardRead' /\ TableTyped'
  BY <1>1, <1>3 DEF HeardRead, TableTyped, Spoken
<1>q. PICK left, reported : left = RestOf(d, k) /\ reported = Reported(h)
  OBVIOUS
<1>p. PICK next : next = [d EXCEPT !.left = left, !.whole = @ /\ ~reported]
  OBVIOUS
<1>6. next \in Begins /\ next.left = left
  BY <1>4, <1>p, <1>q DEF Begins, Reported
<1>7. PICK new : /\ new \in {None, next}
                 /\ speaking' = [speaking EXCEPT ![n] = new]
  BY <1>3, <1>p, <1>q DEF Spoken
<1>8. SpeakingTyped'
  BY <1>1, <1>4, <1>6, <1>7, <1>q DEF SpeakingTyped
<1> QED BY <1>1, <1>5, <1>8 DEF ArriveInv

(* Sessions that end leave a table of sessions.                             *)
LEMMA EndsArrive ==
    ASSUME ArriveInv, NEW gone, Ends(gone), UNCHANGED interest
    PROVE  ArriveInv'
<1>1. interest \in Interests /\ TableTyped /\ SpeakingTyped
  BY DEF ArriveInv
<1>2. /\ table' = [n \in Sessions |-> IF n \in gone THEN None ELSE table[n]]
      /\ speaking' = [n \in Sessions |-> IF n \in gone THEN None ELSE speaking[n]]
      /\ heard' = None
  BY DEF Ends, Freed, Quiet
<1>3. TableTyped'
  BY <1>1, <1>2 DEF TableTyped
<1>4. SpeakingTyped'
  BY <1>1, <1>2 DEF SpeakingTyped
<1> QED BY <1>1, <1>2, <1>3, <1>4 DEF ArriveInv, HeardRead

(* A session that opens has a slot, a resource and a number to tell.        *)
LEMMA OpensArrive ==
    ASSUME ArriveInv, NEW s \in 0 .. Slots - 1, NEW resource \in Names,
           OpenSession(s, resource), UNCHANGED interest
    PROVE  ArriveInv'
<1>1. interest \in Interests /\ TableTyped /\ SpeakingTyped
  BY DEF ArriveInv
<1>2. PICK n : table' = [table EXCEPT ![n] = [slot |-> s, resource |-> resource, closing |-> FALSE]]
  BY DEF OpenSession
<1>3. heard' = None /\ speaking' = speaking
  BY DEF OpenSession
<1>4. TableTyped'
  <2>1. [slot |-> s, resource |-> resource, closing |-> FALSE] \in Entries
    BY DEF Entries
  <2> QED BY <1>1, <1>2, <2>1 DEF TableTyped
<1> QED BY <1>1, <1>3, <1>4 DEF ArriveInv, HeardRead, SpeakingTyped

(* Every other step leaves them alone.                                      *)
LEMMA ArriveSteps == ArriveInv /\ [Next]_vars => ArriveInv'
<1> SUFFICES ASSUME ArriveInv, [Next]_vars PROVE ArriveInv'
  OBVIOUS
<1>s. ASSUME UNCHANGED << interest, table, speaking >>, heard' = None \/ heard' = heard
      PROVE  ArriveInv'
  BY <1>s DEF ArriveInv, TableTyped, SpeakingTyped, HeardRead
<1>1. CASE UNCHANGED vars
  BY <1>1, <1>s DEF vars, hostVars
<1>2. CASE Next
  <2>u. UNCHANGED interest
    BY <1>2 DEF Next
  <2>1. ASSUME NEW i \in interest, OpenSession(i[1], i[2]) PROVE ArriveInv'
    <3>1. i \in (0 .. Slots - 1) \X Names
      BY SlotsAssumption DEF ArriveInv
    <3> QED BY <2>1, <2>u, <3>1, OpensArrive
  <2>2. ASSUME NEW n \in Sessions, CloseSession(n) PROVE ArriveInv'
    BY <2>2, <2>u, EndsArrive DEF CloseSession
  <2>3. ASSUME NEW s \in 0 .. Slots - 1, DropSlot(s) PROVE ArriveInv'
    BY <2>3, <2>u, EndsArrive DEF DropSlot
  <2>4. CASE LinkFails
    BY <2>4, <2>u, EndsArrive DEF LinkFails
  <2>5. ASSUME NEW n \in Sessions, Writes(n) PROVE ArriveInv'
    BY <2>5, <2>u, WritesArrive
  <2>6. ASSUME NEW n \in Sessions, Speaks(n) PROVE ArriveInv'
    BY <2>6, <2>u, SpeaksArrive
  <2>7. ASSUME NEW s \in 0 .. Slots - 1, EnterMenuOf(s) PROVE ArriveInv'
    BY <1>s, <2>7, <2>u DEF EnterMenuOf, Commands
  <2>8. ASSUME NEW s \in 0 .. Slots - 1, ReleaseHost(s) PROVE ArriveInv'
    BY <1>s, <2>8, <2>u DEF ReleaseHost, Commands
  <2>9. ASSUME NEW n \in Sessions, MmiCommand(n) PROVE ArriveInv'
    BY <1>s, <2>9, <2>u DEF MmiCommand, Commands
  <2>10. CASE Tick
    BY <1>s, <2>10, <2>u DEF Tick
  <2>11. CASE Wait
    BY <1>s, <2>11, <2>u DEF Wait, Quiet, hostVars
  <2> QED BY <1>2, <2>1, <2>2, <2>3, <2>4, <2>5, <2>6, <2>7, <2>8, <2>9, <2>10, <2>11 DEF Next, Step
<1> QED BY <1>1, <1>2

(* src/src/ca/apdu.rs:113-177, src/src/ca/tpdu.rs:83-192: the resources read
   the objects a module wrote, one by one and in its order, as long as they
   are whole; of one cut short nothing is taken, and of a damaged frame.    *)
THEOREM ApdusAlwaysArrive == Spec => []ApdusArrive
<1>1. Init => ArriveInv
  BY ArriveStarts
<1>2. ArriveInv /\ [Next]_vars => ArriveInv'
  BY ArriveSteps
<1>3. ArriveInv => ApdusArrive
  BY DEF ArriveInv, HeardRead, ApdusArrive, Readable
<1> QED BY <1>1, <1>2, <1>3, PTL DEF Spec

-----------------------------------------------------------------------------
(* RepliesReadable: what one answer is for the module.                      *)

(* What a module puts together of the pieces of an object, in their order,
   is the object.                                                           *)
LEMMA PiecesJoin ==
    ASSUME NEW blob \in Bytes, blob # <<>>, NEW bodies \in Seq(Bytes), NEW count,
           count = Pieces(blob), Len(bodies) = count,
           \A i \in 1 .. count :
              bodies[i] = SubSeq(blob, (i - 1) * MaxTpduData + 1,
                                 IF i = count THEN Len(blob) ELSE i * MaxTpduData)
    PROVE  FlattenSeq(bodies) = blob
<1>p. PICK room, size : room = MaxTpduData /\ size = Len(blob)
  OBVIOUS
<1>1. room \in Nat \ {0} /\ size \in Nat \ {0} /\ count \in Nat
  <2>1. room \in Nat \ {0}
    BY <1>p, WireAssumption DEF Sizes, MaxTpduData
  <2> QED BY <1>p, <2>1 DEF Bytes
<1>2. count = (size + room - 1) \div room
  BY <1>p DEF Pieces
<1>3. count # 0
  <2>1. /\ count \in Int /\ room * count <= size + room - 1
        /\ size + room - 1 < room * count + room
    BY <1>1, <1>2
  <2> QED BY <1>1, <2>1
<1>e. PICK end : end = [i \in 0 .. count |-> IF i = count THEN size ELSE i * room]
  OBVIOUS
<1>4. ASSUME NEW i \in 1 .. count
      PROVE  /\ end[i - 1] = (i - 1) * room /\ end[i - 1] \in Nat /\ end[i] \in Nat
             /\ end[i - 1] + 1 <= end[i] /\ end[i] <= size
  <2>p. PICK last : last = IF i = count THEN size ELSE i * room
    OBVIOUS
  <2>1. /\ (i - 1) * room \in Nat /\ last \in Nat
        /\ (i - 1) * room + 1 <= last /\ last <= size
    BY <1>1, <1>2, <2>p, CutInPieces
  <2>2. i - 1 \in 0 .. count /\ i - 1 # count /\ i \in 0 .. count
    BY <1>1
  <2>3. end[i - 1] = (i - 1) * room /\ end[i] = last
    BY <1>e, <2>2, <2>p
  <2> QED BY <2>1, <2>3
<1> DEFINE T == {i \in 0 .. count : FlattenSeq(SubSeq(bodies, 1, i)) = SubSeq(blob, 1, end[i])}
<1>5. 0 \in T
  <2>1. SubSeq(bodies, 1, 0) = <<>>
    BY SubSeqEmpty
  <2>2. end[0] = 0
    BY <1>1, <1>3, <1>e
  <2>3. SubSeq(blob, 1, end[0]) = <<>>
    BY <2>2, SubSeqEmpty
  <2>4. FlattenSeq(SubSeq(bodies, 1, 0)) = SubSeq(blob, 1, end[0])
    BY <2>1, <2>3, FlattenNone, Zenon
  <2> QED BY <1>1, <2>4
<1>6. ASSUME NEW i \in 1 .. count, i - 1 \in T PROVE i \in T
  <2>p. PICK a, b, before, here, now1 : /\ a = end[i - 1] /\ b = end[i]
           /\ before = SubSeq(bodies, 1, i - 1) /\ here = bodies[i] /\ now1 = SubSeq(bodies, 1, i)
    OBVIOUS
  <2>1. /\ a \in Nat /\ b \in Nat /\ a + 1 <= b /\ b <= size /\ a = (i - 1) * room
    BY <1>4, <2>p
  <2>2. here \in Bytes /\ here = SubSeq(blob, a + 1, b)
    <3>1. i \in 1 .. Len(bodies) /\ i \in 0 .. count
      BY <1>1
    <3>2. bodies[i] \in Bytes
      BY <3>1
    <3>3. b = IF i = count THEN Len(blob) ELSE i * MaxTpduData
      BY <1>e, <1>p, <2>p, <3>1
    <3> QED BY <1>p, <2>1, <2>p, <3>2, <3>3
  <2>3. before \in Seq(Bytes) /\ now1 = Append(before, here)
    <3> DEFINE S == Bytes
    <3> HIDE DEF S
    <3>1. bodies \in Seq(S) /\ i \in 1 .. Len(bodies)
      BY DEF S
    <3>2. /\ SubSeq(bodies, 1, i - 1) \in Seq(S)
          /\ SubSeq(bodies, 1, i) = Append(SubSeq(bodies, 1, i - 1), bodies[i])
      BY <3>1, PrefixGrows
    <3> QED BY <2>p, <3>2 DEF S
  <2>4. FlattenSeq(before) = SubSeq(blob, 1, a)
    BY <1>6, <2>p
  <2>5. FlattenSeq(now1) = SubSeq(blob, 1, a) \o SubSeq(blob, a + 1, b)
    BY <2>2, <2>3, <2>4, FlattenOne
  <2>6. SubSeq(blob, 1, a) \o SubSeq(blob, a + 1, b) = SubSeq(blob, 1, b)
    <3>1. /\ blob \in Seq(Nat) /\ 1 \in 1 .. Len(blob) + 1
          /\ a \in 1 - 1 .. Len(blob) /\ b \in a .. Len(blob)
      BY <1>1, <1>p, <2>1 DEF Bytes
    <3> QED BY <3>1, ConcatAdjacentSubSeq
  <2>7. i \in 0 .. count
    BY <1>1
  <2> QED BY <2>5, <2>6, <2>7, <2>p
<1>7. T = 0 .. count
  <2>1. T \in SUBSET (0 .. count)
    OBVIOUS
  <2> HIDE DEF T
  <2> QED BY <1>1, <1>5, <1>6, <2>1, Upwards
<1>8. FlattenSeq(SubSeq(bodies, 1, count)) = SubSeq(blob, 1, end[count])
  <2>1. count \in T
    <3> HIDE DEF T
    <3> QED BY <1>1, <1>7
  <2> QED BY <2>1
<1>9. SubSeq(bodies, 1, count) = bodies /\ SubSeq(blob, 1, end[count]) = blob
  <2>1. end[count] = Len(blob)
    BY <1>1, <1>e, <1>p
  <2>2. blob \in Seq(Nat)
    BY DEF Bytes
  <2> QED BY <2>1, <2>2, SubSeqFull
<1> QED BY <1>8, <1>9

(* src/src/ca/apdu.rs:113-177: an object alone is read back.                *)
LEMMA OneIsRead ==
    ASSUME NEW apdu \in Objects
    PROVE  Apdus(BuildApdu(apdu)) = << apdu >>
<1>p. PICK data : data = BuildApdu(apdu)
  OBVIOUS
<1>1. /\ data \in Bytes /\ Len(data) \in Nat /\ Len(data) >= 4
      /\ ParseAt(data \o <<>>) = [apdu |-> apdu, size |-> Len(data)]
  <2>1. <<>> \in Bytes /\ Len(apdu.body) \in Nat
    BY DEF Bytes, Objects
  <2>2. /\ BuildApdu(apdu) \in Bytes /\ Len(BuildApdu(apdu)) \in Nat
        /\ Len(BuildApdu(apdu)) >= 4 + Len(apdu.body)
        /\ \A rest \in Bytes : ParseAt(BuildApdu(apdu) \o rest) =
                 [apdu |-> apdu, size |-> Len(BuildApdu(apdu))]
    BY ObjectBuilt
  <2>3. ParseAt(BuildApdu(apdu) \o <<>>) = [apdu |-> apdu, size |-> Len(BuildApdu(apdu))]
    BY <2>1, <2>2
  <2>4. data \in Bytes /\ Len(data) \in Nat /\ Len(data) >= 4
    BY <1>p, <2>1, <2>2
  <2> QED BY <1>p, <2>3, <2>4
<1>2. PICK after : Iterates(data, after) /\ Apdus(data) = after[0]
  BY <1>1, ApdusIterate
<1>3. data \o <<>> = data /\ From(data, 0 + 1) = data
  <2>1. data \in Seq(Nat)
    BY <1>1 DEF Bytes
  <2> QED BY <2>1, ConcatEmptySeq, SubSeqFull DEF From
<1>4. ParseAt(From(data, 0 + 1)) # Malformed
  <2>1. [apdu |-> apdu, size |-> Len(data)] \in [apdu : [tag : Seq(Nat), body : Seq(Nat)], size : Nat]
    BY <1>1 DEF Objects, Bytes
  <2> QED BY <1>1, <1>3, <2>1, WireAssumption DEF Sizes
<1>5. after[Len(data)] = <<>>
  <2>1. Len(data) \in 0 .. Len(data)
    BY <1>1
  <2> QED BY <1>2, <2>1 DEF Iterates
<1>6. after[0] = << apdu >> \o after[0 + Len(data)]
  <2>1. 0 \in 0 .. Len(data) /\ 0 # Len(data)
    BY <1>1
  <2>2. ParseAt(From(data, 0 + 1)) = [apdu |-> apdu, size |-> Len(data)]
    BY <1>1, <1>3
  <2>3. after[0] = << ParseAt(From(data, 0 + 1)).apdu >>
                     \o after[0 + ParseAt(From(data, 0 + 1)).size]
    BY <1>2, <1>4, <2>1 DEF Iterates
  <2> QED BY <2>2, <2>3
<1>7. << apdu >> \o <<>> = << apdu >>
  <2>1. << apdu >> \in Seq(Objects)
    OBVIOUS
  <2> QED BY <2>1, ConcatEmptySeq
<1> QED BY <1>1, <1>2, <1>5, <1>6, <1>7, <1>p

(* The frames of an answer, and what a module makes of them.                *)
Readback(at, n, apdu) ==
    LET frames == Frames(at, Blob(n, apdu))
        blob == FlattenSeq([i \in DOMAIN frames |-> BodyOf(frames[i])])
    IN  /\ \A i \in DOMAIN frames :
              /\ Len(frames[i]) <= MaxTpduSize
              /\ Decode(From(frames[i], 4)).value = Len(BodyOf(frames[i])) + 1
              /\ frames[i][3] = IF i = Len(frames) THEN DataLast ELSE DataMore
        /\ ParseSpdu(blob).session = n
        /\ Apdus(ParseSpdu(blob).payload) = << apdu >>

(* src/src/ca/transport.rs:173-211, src/src/ca/tpdu.rs:62-81: whatever the
   object, the module can take its frames and finds the object in them.     *)
LEMMA AnswerReadable ==
    ASSUME NEW at \in Nat, NEW n \in U16, NEW apdu \in Objects
    PROVE  Readback(at, n, apdu)
<1>p. PICK data, blob, count, frames, bodies :
          /\ data = BuildApdu(apdu) /\ blob = Blob(n, apdu) /\ count = Pieces(blob)
          /\ frames = Frames(at, blob) /\ bodies = [i \in 1 .. count |-> BodyOf(frames[i])]
  OBVIOUS
<1>1. data \in Bytes /\ Len(data) \in Nat
  BY <1>p, ObjectBuilt
<1>2. /\ blob \in Bytes /\ Len(blob) = 4 + Len(data) /\ blob # <<>>
      /\ ParseSpdu(blob) = [session |-> n, payload |-> data]
  <2>1. blob = SessionNumber(n) \o data
    BY <1>p DEF Blob
  <2>2. /\ blob \in Bytes /\ Len(blob) = 4 + Len(data)
        /\ ParseSpdu(blob) = [session |-> n, payload |-> data]
    BY <1>1, <2>1, SessionReadBack
  <2>3. blob # <<>>
    BY <1>1, <2>2
  <2> QED BY <2>2, <2>3
<1>3. count \in Nat /\ DOMAIN frames = 1 .. count /\ Len(frames) = count
  <2>1. MaxTpduData \in Nat \ {0} /\ Len(blob) \in Nat
    BY <1>1, <1>2, WireAssumption DEF Sizes, MaxTpduData
  <2>p. PICK room, size : room = MaxTpduData /\ size = Len(blob)
    OBVIOUS
  <2>2. (size + room - 1) \div room \in Nat
    BY <2>1, <2>p
  <2>3. count \in Nat
    BY <1>p, <2>2, <2>p DEF Pieces
  <2>4. DOMAIN frames = 1 .. count
    BY <1>p DEF Frames
  <2>5. Len(frames) = count
    BY <1>p, <2>3 DEF Frames
  <2> QED BY <2>3, <2>4, <2>5
<1>4. ASSUME NEW i \in 1 .. count
      PROVE  /\ Len(frames[i]) <= MaxTpduSize
             /\ Decode(From(frames[i], 4)).value = Len(BodyOf(frames[i])) + 1
             /\ frames[i][3] = IF i = count THEN DataLast ELSE DataMore
             /\ BodyOf(frames[i]) \in Bytes
             /\ BodyOf(frames[i]) = SubSeq(blob, (i - 1) * MaxTpduData + 1,
                                      IF i = count THEN Len(blob) ELSE i * MaxTpduData)
  <2>p. PICK first, end, tag, frame :
            /\ first = (i - 1) * MaxTpduData
            /\ end = IF i = count THEN Len(blob) ELSE i * MaxTpduData
            /\ tag = IF i = count THEN DataLast ELSE DataMore
            /\ frame = frames[i]
    OBVIOUS
  <2>1. PICK part \in Bytes :
            /\ frame = DataFrame(at, tag, part)
            /\ Len(frame) <= MaxTpduSize /\ Len(part) + 1 \in U16
            /\ first + Len(part) = end
            /\ \A k \in 1 .. Len(part) : part[k] = blob[first + k]
    <3>1. i \in 1 .. Pieces(blob)
      BY <1>p
    <3>2. PICK part \in Bytes :
            LET first1 == (i - 1) * MaxTpduData
                last == i = Pieces(blob)
                frame1 == Frames(at, blob)[i]
                tag1 == IF last THEN DataLast ELSE DataMore
            IN  /\ frame1 = DataFrame(at, tag1, part)
                /\ Len(frame1) <= MaxTpduSize /\ Len(part) + 1 \in U16
                /\ first1 + Len(part) = IF last THEN Len(blob) ELSE i * MaxTpduData
                /\ \A k \in 1 .. Len(part) : part[k] = blob[first1 + k]
      BY <1>2, <3>1, FramesFit
    <3> QED BY <1>p, <2>p, <3>2
  <2>c. PICK code : code = Encode(Len(part) + 1)
    OBVIOUS
  <2>2. Shape(tag, part, code, frame)
    <3>1. tag \in Nat
      BY <2>p DEF DataLast, DataMore
    <3> QED BY <2>1, <2>c, <3>1, FrameShape
  <2>3. /\ Decode(From(frame, 4)) = Length(Len(part) + 1, Len(code))
        /\ From(frame, 5 + Len(code)) = part /\ frame[3] = tag
    BY <2>2 DEF Shape
  <2>4. Decode(From(frame, 4)).value = Len(part) + 1 /\ Decode(From(frame, 4)).size = Len(code)
    BY <2>3 DEF Length
  <2>5. BodyOf(frame) = part
    BY <2>3, <2>4 DEF BodyOf
  <2>6. part = SubSeq(blob, first + 1, end)
    <3>p. PICK room, size, m, there : /\ room = MaxTpduData /\ size = Len(blob) /\ m = Len(part)
                                      /\ there = SubSeq(blob, first + 1, end)
      OBVIOUS
    <3>1. /\ first \in Nat /\ end \in Nat /\ end <= size /\ first + m = end /\ m \in Nat
      <4>1. room \in Nat \ {0} /\ size \in Nat
        BY <1>1, <1>2, <3>p, WireAssumption DEF Sizes, MaxTpduData
      <4>2. count = (size + room - 1) \div room /\ end = IF i = count THEN size ELSE i * room
        BY <1>p, <2>p, <3>p DEF Pieces
      <4>3. (i - 1) * room \in Nat /\ end \in Nat /\ end <= size
        BY <4>1, <4>2, CutInPieces
      <4>4. m \in Nat
        BY <3>p DEF Bytes
      <4> QED BY <2>1, <2>p, <3>p, <4>3, <4>4
    <3>2. \A k \in first + 1 .. end : blob[k] \in Nat
      <4>1. \A k \in first + 1 .. end : k \in 1 .. Len(blob)
        BY <3>1, <3>p
      <4> QED BY <1>2, <4>1 DEF Bytes
    <3>f. PICK from : from = first + 1
      OBVIOUS
    <3>3. /\ there \in Seq(Nat) /\ Len(there) = IF from <= end THEN end - from + 1 ELSE 0
          /\ \A k \in 1 .. end - from + 1 : there[k] = blob[from + k - 1]
      <4>1. from \in Int /\ end \in Int
        BY <3>1, <3>f
      <4> QED BY <3>2, <3>f, <3>p, <4>1, SubSeqProperties
    <3>4. Len(there) = m
      BY <3>1, <3>3, <3>f
    <3>5. \A k \in 1 .. m : there[k] = part[k]
      <4> TAKE k \in 1 .. m
      <4>1. k \in 1 .. end - from + 1 /\ from + k - 1 = first + k /\ k \in 1 .. Len(part)
        BY <3>1, <3>f, <3>p
      <4> QED BY <2>1, <3>3, <4>1
    <3>6. part = there
      <4>1. there \in Bytes /\ part \in Bytes /\ Len(part) = Len(there)
        BY <3>3, <3>4, <3>p DEF Bytes
      <4> QED BY <3>4, <3>5, <4>1, SameBytes
    <3> QED BY <3>6, <3>p
  <2> QED BY <2>1, <2>3, <2>4, <2>5, <2>6, <2>p
<1>5. bodies \in Seq(Bytes) /\ Len(bodies) = count /\ \A i \in 1 .. count : bodies[i] = BodyOf(frames[i])
  <2>1. \A i \in 1 .. count : BodyOf(frames[i]) \in Bytes
    BY <1>4
  <2> QED BY <1>3, <1>p, <2>1
<1>6. FlattenSeq(bodies) = blob
  <2>1. \A i \in 1 .. count :
              bodies[i] = SubSeq(blob, (i - 1) * MaxTpduData + 1,
                                 IF i = count THEN Len(blob) ELSE i * MaxTpduData)
    BY <1>4, <1>5
  <2> QED BY <1>2, <1>5, <1>p, <2>1, PiecesJoin
<1>7. Apdus(data) = << apdu >>
  BY <1>p, OneIsRead
<1>8. bodies = [i \in DOMAIN frames |-> BodyOf(frames[i])]
  BY <1>3, <1>p
<1>9. \A i \in DOMAIN frames :
              /\ Len(frames[i]) <= MaxTpduSize
              /\ Decode(From(frames[i], 4)).value = Len(BodyOf(frames[i])) + 1
              /\ frames[i][3] = IF i = Len(frames) THEN DataLast ELSE DataMore
  BY <1>3, <1>4
<1>10. ParseSpdu(blob).session = n /\ Apdus(ParseSpdu(blob).payload) = << apdu >>
  BY <1>2, <1>7
<1> HIDE DEF Readback
<1> QED BY <1>6, <1>8, <1>9, <1>10, <1>p DEF Readback

-----------------------------------------------------------------------------
(* What one object handled can do: the steps of the callbacks.              *)

(***************************************************************************)
(* What the host keeps while it handles the objects of a frame, and what   *)
(* one object changes of it.                                               *)
(***************************************************************************)
IsHost(x) ==
    x = [applications |-> x.applications, revision |-> x.revision, clocks |-> x.clocks,
         fragments |-> x.fragments, events |-> x.events, out |-> x.out, wall |-> x.wall,
         close |-> x.close]

(* The objects sent on a session: a DateTime tells the time.  None of an
   answer is EnterMenu, which is the application's.                         *)
Sent(n, w) ==
    {o \in [session : {n}, apdu : Objects, wall : {w}] :
        o.apdu.tag = DateTime => o.apdu.body = DateTimeBody(w)}
Replies(n, w) == {o \in Sent(n, w) : o.apdu.tag # EnterMenu}

Restarted(x, y, n) ==
    \E k \in Nat : y.clocks = [x.clocks EXCEPT ![n] = [interval |-> k, sent |-> None]]

SameInfos(x, y) == y.applications = x.applications /\ y.revision = x.revision
Untold(x, y) == y.events = x.events \/ \E e : ~IsInfo(e) /\ y.events = Append(x.events, e)

Taken(x, y, n) ==
    \E info \in InfoRecords :
        /\ x.applications[n] # None
        /\ y.revision = x.revision + 1
        /\ y.applications = [x.applications EXCEPT ![n] =
                                [info |-> info, revision |-> x.revision + 1]]
        /\ y.events = Append(x.events, Event("ApplicationInfo", n, info))

(* What handling one object on session n, which is of this resource, does.  *)
Silent(x, y, n, resource) ==
    /\ y.out = x.out
    /\ y.clocks = x.clocks
    /\ \/ SameInfos(x, y) /\ Untold(x, y)
       \/ resource = "ApplicationInfo" /\ Taken(x, y, n)

Replied(x, y, n) ==
    /\ SameInfos(x, y) /\ y.events = x.events
    /\ \E o \in Replies(n, x.wall) :
          /\ y.out = Append(x.out, o)
          /\ o.apdu.tag # DateTime => y.clocks = x.clocks
          /\ o.apdu.tag = DateTime => Restarted(x, y, n)

Spared(x, y, n) ==
    /\ SameInfos(x, y) /\ Untold(x, y)
    /\ y.out = x.out
    /\ y.clocks = x.clocks \/ Restarted(x, y, n)

Steps(x, y, n, resource) ==
    /\ IsHost(y) /\ y.wall = x.wall
    /\ Silent(x, y, n, resource) \/ Replied(x, y, n)

Handles(x, y, n, resource) ==
    /\ IsHost(y) /\ y.wall = x.wall
    /\ Silent(x, y, n, resource) \/ Replied(x, y, n) \/ Spared(x, y, n)

(* A report of a bad object is a step that sends nothing.                   *)
LEMMA BadSteps ==
    ASSUME NEW x, IsHost(x), NEW n, NEW resource
    PROVE  Steps(x, Bad(x, n), n, resource)
<1>p. PICK y : y = Bad(x, n)
  OBVIOUS
<1>1. /\ IsHost(y) /\ y.wall = x.wall /\ y.out = x.out /\ y.clocks = x.clocks /\ SameInfos(x, y)
      /\ y.events = Append(x.events, MalformedEvent(n))
  BY <1>p DEF Bad, IsHost, SameInfos
<1>2. ~IsInfo(MalformedEvent(n))
  BY DEF IsInfo, MalformedEvent, Event
<1> QED BY <1>1, <1>2, <1>p DEF Steps, Silent, Untold

(* An event but the application's info is a step that sends nothing.        *)
LEMMA TellsSteps ==
    ASSUME NEW x, IsHost(x), NEW n, NEW resource, NEW kind, kind # "ApplicationInfo", NEW what
    PROVE  /\ Steps(x, Tells(x, kind, n, what), n, resource)
           /\ Steps(x, TellsParsed(x, kind, n, what), n, resource)
<1>p. PICK y : y = Tells(x, kind, n, what)
  OBVIOUS
<1>1. /\ IsHost(y) /\ y.wall = x.wall /\ y.out = x.out /\ y.clocks = x.clocks /\ SameInfos(x, y)
      /\ y.events = Append(x.events, Event(kind, n, what))
  BY <1>p DEF Tells, IsHost, SameInfos
<1>2. ~IsInfo(Event(kind, n, what))
  BY DEF IsInfo, Event
<1>3. Steps(x, y, n, resource)
  BY <1>1, <1>2 DEF Steps, Silent, Untold
<1> QED BY <1>3, <1>p, BadSteps DEF TellsParsed

(* The tables of two bytes hold the sizes of the host's own objects.        *)
LEMMA SmallSizes == 0 .. 24 \subseteq U16
<1>1. Base \in Nat /\ 6 <= Base
  BY WireAssumption DEF Sizes
<1>2. 36 <= Base * Base
  <2>1. 36 <= 6 * Base /\ 6 * Base <= Base * Base
    BY <1>1
  <2>2. Base * Base \in Nat
    BY <1>1
  <2> QED BY <1>1, <2>1, <2>2
<1>p. PICK top : top = Base * Base
  OBVIOUS
<1>3. 36 <= top /\ top \in Nat
  BY <1>1, <1>2, <1>p
<1> QED BY <1>3, <1>p DEF U16

(* An answer that is neither the time nor a menu entry is a reply.          *)
LEMMA SendsSteps ==
    ASSUME NEW x, IsHost(x), NEW n, NEW resource,
           NEW tag \in Bytes, Len(tag) = 3, tag # DateTime, tag # EnterMenu,
           NEW body \in Bytes, Len(body) \in U16
    PROVE  Steps(x, Sends(x, n, tag, body), n, resource)
<1>p. PICK y, o : y = Sends(x, n, tag, body)
                  /\ o = [session |-> n, apdu |-> Apdu(tag, body), wall |-> x.wall]
  OBVIOUS
<1>1. /\ IsHost(y) /\ y.wall = x.wall /\ y.out = Append(x.out, o) /\ y.clocks = x.clocks
      /\ SameInfos(x, y) /\ y.events = x.events
  BY <1>p DEF Sends, IsHost, SameInfos
<1>2. Apdu(tag, body) \in Objects
  BY DEF Apdu, Objects, IsObject, Bytes
<1>3. o \in Replies(n, x.wall) /\ o.apdu.tag # DateTime
  BY <1>2, <1>p DEF Replies, Sent, Apdu
<1> QED BY <1>1, <1>3, <1>p DEF Steps, Replied

(* The day fits its two bytes, and the time of the day is one.              *)
LEMMA TimeFields ==
    ASSUME NEW w \in Times
    PROVE  /\ w.days \in Nat /\ 40587 + w.days <= 65535
           /\ w.seconds \in Nat /\ w.seconds < 86400
<1>1. w.days \in 0 .. LastMjd - MjdUnixEpoch /\ w.seconds \in 0 .. DaySeconds - 1
  BY DEF Times
<1>p. PICK day, second, end, epoch, long : /\ day = w.days /\ second = w.seconds
          /\ end = LastMjd /\ epoch = MjdUnixEpoch /\ long = DaySeconds
  OBVIOUS
<1>2. end = 65535 /\ epoch = 40587 /\ long = 86400
  BY <1>p DEF LastMjd, MjdUnixEpoch, DaySeconds
<1>3. end \in Nat /\ epoch \in Nat /\ long \in Nat
  BY <1>2
<1>4. day \in Nat /\ day <= end - epoch /\ second \in Nat /\ second <= long - 1
  BY <1>1, <1>3, <1>p
<1>5. 40587 + day <= 65535 /\ second < 86400
  BY <1>2, <1>4
<1> QED BY <1>4, <1>5, <1>p

(* What the time is told in is five bytes.                                  *)
LEMMA TimeIsBytes ==
    ASSUME NEW w \in Times
    PROVE  DateTimeBody(w) \in Bytes /\ Len(DateTimeBody(w)) = 5
<1>p. PICK day, second : day = w.days /\ second = w.seconds
  OBVIOUS
<1>1. day \in Nat /\ second \in Nat /\ ~(40587 + day > 65535)
  BY <1>p, TimeFields
<1>2. ASSUME NEW v \in Nat PROVE Bcd(v) \in Nat
  BY DEF Bcd
<1>3. /\ second \div 3600 \in Nat /\ (second \div 60) % 60 \in Nat /\ second % 60 \in Nat
      /\ (40587 + day) \div 256 \in Nat /\ (40587 + day) % 256 \in Nat
  <2>2. /\ second \div 3600 \in Nat /\ second \div 60 \in Nat /\ second % 60 \in Nat
        /\ (40587 + day) \div 256 \in Nat /\ (40587 + day) % 256 \in Nat
    BY <1>1
  <2>3. (second \div 60) % 60 \in Nat
    BY <2>2
  <2> QED BY <2>2, <2>3
<1>q. PICK a, b, c, d, e : /\ a = (40587 + day) \div 256 /\ b = (40587 + day) % 256
                     /\ c = Bcd(second \div 3600) /\ d = Bcd((second \div 60) % 60)
                     /\ e = Bcd(second % 60)
  OBVIOUS
<1>5. a \in Nat /\ b \in Nat /\ c \in Nat /\ d \in Nat /\ e \in Nat
  BY <1>2, <1>3, <1>q
<1>6. DateTimeBody(w) = << a, b, c, d, e >>
  BY <1>1, <1>p, <1>q DEF DateTimeBody, MjdUnixEpoch, LastMjd
<1> QED BY <1>5, <1>6 DEF Bytes

(* The time is sent only where its interval starts anew.                    *)
LEMMA TimeSteps ==
    ASSUME NEW x, IsHost(x), x.wall \in Times, NEW n, NEW k \in Nat, NEW resource
    PROVE  LET started == [x EXCEPT !.clocks[n] = [interval |-> k, sent |-> None]]
           IN  Steps(x, SendsTime(started, n), n, resource)
<1>p. PICK started, body, y, o :
          /\ started = [x EXCEPT !.clocks[n] = [interval |-> k, sent |-> None]]
          /\ body = DateTimeBody(x.wall) /\ y = SendsTime(started, n)
          /\ o = [session |-> n, apdu |-> Apdu(DateTime, body), wall |-> x.wall]
  OBVIOUS
<1>1. /\ IsHost(started) /\ started.wall = x.wall /\ started.out = x.out
      /\ started.applications = x.applications /\ started.revision = x.revision
      /\ started.events = x.events
      /\ started.clocks = [x.clocks EXCEPT ![n] = [interval |-> k, sent |-> None]]
  BY <1>p DEF IsHost
<1>2. y = [started EXCEPT !.out = Append(@, o)]
  BY <1>1, <1>p DEF SendsTime, Sends
<1>3. /\ IsHost(y) /\ y.wall = x.wall /\ y.out = Append(x.out, o)
      /\ SameInfos(x, y) /\ y.events = x.events
      /\ y.clocks = [x.clocks EXCEPT ![n] = [interval |-> k, sent |-> None]]
  BY <1>1, <1>2 DEF IsHost, SameInfos
<1>4. body \in Bytes /\ Len(body) = 5 /\ 5 \in U16
  <2>1. body \in Bytes /\ Len(body) = 5
    BY <1>p, TimeIsBytes
  <2>2. 5 \in 0 .. 24
    OBVIOUS
  <2> QED BY <2>1, <2>2, SmallSizes
<1>5. DateTime \in Bytes /\ Len(DateTime) = 3 /\ DateTime # EnterMenu
  BY DEF DateTime, EnterMenu, Tag, Bytes
<1>6. Apdu(DateTime, body) \in Objects
  BY <1>4, <1>5 DEF Apdu, Objects, IsObject, Bytes
<1>7. o \in Replies(n, x.wall) /\ o.apdu.tag = DateTime
  BY <1>5, <1>6, <1>p DEF Replies, Sent, Apdu
<1>8. Restarted(x, y, n)
  BY <1>3 DEF Restarted
<1> QED BY <1>3, <1>7, <1>8, <1>p DEF Steps, Replied

(* The rest of what is kept does not tell the steps apart.                  *)
Alike(x, y) ==
    /\ IsHost(y) /\ y.wall = x.wall /\ SameInfos(x, y) /\ y.clocks = x.clocks
    /\ y.events = x.events /\ y.out = x.out

(* What the callbacks look at decides the step they take.                   *)
LEMMA AlikeSteps ==
    ASSUME NEW x, NEW z, Alike(x, z), NEW y, NEW n, NEW resource, Steps(z, y, n, resource)
    PROVE  Steps(x, y, n, resource)
BY DEF Steps, Silent, Replied, Taken, Untold, SameInfos, Alike, Restarted

(* A callback may leave everything as it is.                                *)
LEMMA NothingSteps ==
    ASSUME NEW x, NEW y, Alike(x, y), NEW n, NEW resource
    PROVE  Steps(x, y, n, resource)
BY DEF Steps, Silent, Untold, Alike

(* The tags of the host's answers.                                          *)
LEMMA AnswerTags ==
    \A tag \in {Profile, ProfileEnq, ProfileChange, ApplicationInfoEnq, DisplayReply} :
        tag \in Bytes /\ Len(tag) = 3 /\ tag # DateTime /\ tag # EnterMenu
<1>1. ASSUME NEW a \in {128, 136}, NEW b \in {2, 16, 17, 18, 32}, NEW tag, tag = << 159, a, b >>
      PROVE  tag \in Bytes /\ Len(tag) = 3 /\ tag # DateTime
  BY <1>1 DEF DateTime, Tag, Bytes
<1>2. ASSUME NEW a \in {128, 136}, NEW b \in {2, 16, 17, 18, 32}, NEW tag, tag = << 159, a, b >>
      PROVE  tag # EnterMenu
  BY <1>2 DEF EnterMenu, Tag
<1>3. /\ Profile = << 159, 128, 17 >> /\ ProfileEnq = << 159, 128, 16 >>
      /\ ProfileChange = << 159, 128, 18 >> /\ ApplicationInfoEnq = << 159, 128, 32 >>
      /\ DisplayReply = << 159, 136, 2 >>
  BY DEF Profile, ProfileEnq, ProfileChange, ApplicationInfoEnq, DisplayReply, Tag
<1> TAKE tag \in {Profile, ProfileEnq, ProfileChange, ApplicationInfoEnq, DisplayReply}
<1>4. \E a \in {128, 136}, b \in {2, 16, 17, 18, 32} : tag = << 159, a, b >>
  BY <1>3
<1>5. PICK a \in {128, 136}, b \in {2, 16, 17, 18, 32} : tag = << 159, a, b >>
  BY <1>4
<1> QED BY <1>1, <1>2, <1>5

(* The short answers of the resources are replies.                          *)
LEMMA AnswersStep ==
    ASSUME NEW x, IsHost(x), NEW n, NEW resource,
           NEW tag \in {Profile, ProfileEnq, ProfileChange, ApplicationInfoEnq, DisplayReply},
           NEW body \in Bytes, Len(body) \in 0 .. 24
    PROVE  Steps(x, Sends(x, n, tag, body), n, resource)
<1>1. tag \in Bytes /\ Len(tag) = 3 /\ tag # DateTime /\ tag # EnterMenu
  BY AnswerTags
<1>2. Len(body) \in U16
  BY SmallSizes
<1> QED BY <1>1, <1>2, SendsSteps

(* src/src/ca/resource/rm.rs                                                *)
LEMMA ResourceManagerSteps ==
    ASSUME NEW x, IsHost(x), NEW n, NEW apdu, NEW resource
    PROVE  Steps(x, ResourceManagerOnApdu(x, n, apdu), n, resource)
<1>1. <<>> \in Bytes /\ Len(<<>>) \in 0 .. 24
  BY DEF Bytes
<1>p. PICK profile : profile = HostProfile
  OBVIOUS
<1>2. profile \in Bytes /\ Len(profile) \in 0 .. 24
  BY <1>p DEF HostProfile, Bytes
<1>3. /\ Steps(x, Sends(x, n, ProfileChange, <<>>), n, resource)
      /\ Steps(x, Sends(x, n, ProfileEnq, <<>>), n, resource)
  BY <1>1, AnswersStep
<1>4. Steps(x, Sends(x, n, Profile, HostProfile), n, resource)
  BY <1>2, <1>p, AnswersStep
<1>5. Steps(x, Bad(x, n), n, resource)
  BY BadSteps
<1>6. ResourceManagerOnApdu(x, n, apdu) \in
        {Sends(x, n, ProfileChange, <<>>), Sends(x, n, ProfileEnq, <<>>),
         Sends(x, n, Profile, HostProfile), Bad(x, n)}
  BY DEF ResourceManagerOnApdu
<1> QED BY <1>3, <1>4, <1>5, <1>6

(* src/src/ca/resource/application_info.rs: an info that can be read is one. *)
LEMMA InfoIsRecord ==
    ASSUME NEW body \in Bytes, ParseApplicationInfo(body) # Malformed
    PROVE  ParseApplicationInfo(body) \in InfoRecords
<1>1. body \in Seq(Nat) /\ Len(body) \in Nat /\ Len(body) >= 6
  BY DEF Bytes, ParseApplicationInfo
<1>2. \A i \in 1 .. 6 : body[i] \in Nat
  BY <1>1
<1>p. PICK k, menu, a, b : /\ k = body[6] /\ menu = SubSeq(body, 7, 6 + k)
                     /\ a = U16At(body, 2) /\ b = U16At(body, 4)
  OBVIOUS
<1>3. k \in Nat /\ body[1] \in Nat /\ a \in Nat /\ b \in Nat
  <2>1. /\ body[1] \in Nat /\ body[2] \in Nat /\ body[3] \in Nat
        /\ body[4] \in Nat /\ body[5] \in Nat /\ body[6] \in Nat
    BY <1>2
  <2>2. a = 256 * body[2] + body[2 + 1] /\ b = 256 * body[4] + body[4 + 1]
    BY <1>p DEF U16At
  <2>3. a = 256 * body[2] + body[3] /\ b = 256 * body[4] + body[5]
    BY <2>2
  <2>4. \A u, v \in Nat : 256 * u + v \in Nat
    OBVIOUS
  <2>5. a \in Nat /\ b \in Nat
    BY <2>1, <2>3, <2>4, Zenon
  <2> QED BY <1>p, <2>1, <2>5
<1>4. ParseApplicationInfo(body) = [type |-> body[1], manufacturer |-> a, code |-> b, menu |-> menu]
      /\ ~(Len(body) < 6 + k)
  BY <1>p DEF ParseApplicationInfo
<1>5. menu \in Seq(Nat)
  <2>1. \A i \in 7 .. 6 + k : body[i] \in Nat
    <3>1. \A i \in 7 .. 6 + k : i \in 1 .. Len(body)
      BY <1>1, <1>3, <1>4
    <3> QED BY <1>1, <3>1
  <2>2. 7 \in Int /\ 6 + k \in Int
    BY <1>3
  <2> QED BY <1>p, <2>1, <2>2, SubSeqProperties
<1> QED BY <1>3, <1>4, <1>5 DEF InfoRecords

(* An application's info is taken whole with its revision and its event, or *)
(* the object is reported (ApplicationInfoResource::on_apdu).               *)
LEMMA ApplicationInfoSteps ==
    ASSUME NEW x, IsHost(x), NEW n, NEW apdu \in Objects
    PROVE  Steps(x, ApplicationInfoOnApdu(x, n, apdu), n, "ApplicationInfo")
<1>p. PICK info, y : info = ParseApplicationInfo(apdu.body) /\ y = ApplicationInfoOnApdu(x, n, apdu)
  OBVIOUS
<1>1. CASE apdu.tag # ApplicationInfo \/ info = Malformed \/ x.applications[n] = None
  BY <1>1, <1>p, BadSteps DEF ApplicationInfoOnApdu
<1>2. CASE ~(apdu.tag # ApplicationInfo \/ info = Malformed \/ x.applications[n] = None)
  <2>1. info \in InfoRecords
    <3>1. apdu.body \in Bytes
      BY DEF Objects
    <3> QED BY <1>2, <1>p, <3>1, InfoIsRecord
  <2>z. PICK z : z = [x EXCEPT !.revision = @ + 1,
                               !.applications[n] = [info |-> info, revision |-> x.revision + 1]]
    OBVIOUS
  <2>2. y = Tells(z, "ApplicationInfo", n, info)
    BY <1>2, <1>p, <2>z DEF ApplicationInfoOnApdu
  <2>3. /\ IsHost(z) /\ z.wall = x.wall /\ z.out = x.out /\ z.clocks = x.clocks
        /\ z.revision = x.revision + 1 /\ z.events = x.events
        /\ z.applications = [x.applications EXCEPT ![n] =
                                [info |-> info, revision |-> x.revision + 1]]
    BY <2>z DEF IsHost
  <2>4. /\ IsHost(y) /\ y.wall = x.wall /\ y.out = x.out /\ y.clocks = x.clocks
        /\ y.revision = x.revision + 1
        /\ y.events = Append(x.events, Event("ApplicationInfo", n, info))
        /\ y.applications = [x.applications EXCEPT ![n] =
                                [info |-> info, revision |-> x.revision + 1]]
    BY <2>2, <2>3 DEF IsHost, Tells
  <2>5. Taken(x, y, n)
    BY <1>2, <2>1, <2>4 DEF Taken
  <2> QED BY <1>p, <2>4, <2>5 DEF Steps, Silent
<1> QED BY <1>1, <1>2

(* src/src/ca/resource/host_control.rs                                      *)
LEMMA HostControlSteps ==
    ASSUME NEW x, IsHost(x), NEW n, NEW apdu, NEW resource
    PROVE  Steps(x, HostControlOnApdu(x, n, apdu), n, resource)
<1>1. \A kind, what : kind # "ApplicationInfo" =>
          Steps(x, TellsParsed(x, kind, n, what), n, resource)
  BY TellsSteps
<1>2. /\ Steps(x, TellsParsed(x, "Tune", n, ParseTune(apdu.body)), n, resource)
      /\ Steps(x, TellsParsed(x, "Replace", n, ParseReplace(apdu.body)), n, resource)
      /\ Steps(x, TellsParsed(x, "ClearReplace", n, ParseClearReplace(apdu.body)), n, resource)
  BY <1>1
<1>3. HostControlOnApdu(x, n, apdu) \in
        {TellsParsed(x, "Tune", n, ParseTune(apdu.body)),
         TellsParsed(x, "Replace", n, ParseReplace(apdu.body)),
         TellsParsed(x, "ClearReplace", n, ParseClearReplace(apdu.body)), Bad(x, n)}
  BY DEF HostControlOnApdu
<1> QED BY <1>2, <1>3, BadSteps

(* src/src/ca/resource/date_time.rs:101-117                                 *)
LEMMA DateTimeSteps ==
    ASSUME NEW x, IsHost(x), x.wall \in Times, NEW n, NEW apdu \in Objects, NEW resource
    PROVE  Steps(x, DateTimeOnApdu(x, n, apdu), n, resource)
<1>p. PICK k : k = IF apdu.body = <<>> THEN 0 ELSE apdu.body[1]
  OBVIOUS
<1>1. k \in Nat
  <2>1. apdu.body \in Seq(Nat)
    BY DEF Objects, Bytes
  <2> QED BY <1>p, <2>1
<1>2. Steps(x, SendsTime([x EXCEPT !.clocks[n] = [interval |-> k, sent |-> None]], n), n, resource)
  BY <1>1, TimeSteps
<1>3. DateTimeOnApdu(x, n, apdu) \in
        {SendsTime([x EXCEPT !.clocks[n] = [interval |-> k, sent |-> None]], n), Bad(x, n)}
  BY <1>p DEF DateTimeOnApdu
<1> QED BY <1>2, <1>3, BadSteps

(* The tags of MMI's objects are not each other's.                          *)
LEMMA MmiTagsDiffer ==
    ASSUME NEW tag
    PROVE  /\ tag \in More => tag \notin {TextLast, MenuLast, ListLast, CloseMmi, DisplayControl, MmiEnq}
           /\ tag \in Closing => tag \notin {CloseMmi, DisplayControl, MmiEnq}
           /\ tag = TextLast => tag \notin {MenuLast, ListLast}
<1>1. /\ More = {<< 159, 136, 4 >>, << 159, 136, 10 >>, << 159, 136, 13 >>}
      /\ TextLast = << 159, 136, 3 >> /\ MenuLast = << 159, 136, 9 >>
      /\ ListLast = << 159, 136, 12 >> /\ CloseMmi = << 159, 136, 0 >>
      /\ DisplayControl = << 159, 136, 1 >> /\ MmiEnq = << 159, 136, 7 >>
  BY DEF More, TextMore, MenuMore, ListMore, TextLast, MenuLast, ListLast, CloseMmi,
         DisplayControl, MmiEnq, Tag
<1>2. \A a, b \in Nat : a # b => << 159, 136, a >> # << 159, 136, b >>
  OBVIOUS
<1>3. ASSUME tag \in More
      PROVE  tag \notin {TextLast, MenuLast, ListLast, CloseMmi, DisplayControl, MmiEnq}
  BY <1>1, <1>3
<1>4. ASSUME tag \in Closing PROVE tag \notin {CloseMmi, DisplayControl, MmiEnq}
  BY <1>1, <1>4 DEF Closing
<1>5. ASSUME tag = TextLast PROVE tag \notin {MenuLast, ListLast}
  BY <1>1, <1>5
<1> QED BY <1>3, <1>4, <1>5

(* src/src/ca/resource/mmi.rs:300-398                                       *)
LEMMA MmiSteps ==
    ASSUME NEW x, IsHost(x), NEW n, NEW apdu, NEW resource
    PROVE  Steps(x, MmiOnApdu(x, n, apdu), n, resource)
<1>p. PICK body, object, taken, kept, closed :
        /\ body = apdu.body /\ object = MmiObject(x, n, body) /\ taken = TakeObject(x, n, body)
        /\ kept = [x EXCEPT !.fragments[n] = object] /\ closed = [x EXCEPT !.close = TRUE]
  OBVIOUS
<1>1. Alike(x, taken) /\ Alike(x, kept) /\ Alike(x, closed)
  BY <1>p DEF Alike, IsHost, TakeObject, SameInfos
<1>2. ASSUME NEW z, Alike(x, z), NEW kind, kind # "ApplicationInfo", NEW what
      PROVE  /\ Steps(x, Tells(z, kind, n, what), n, resource)
             /\ Steps(x, TellsParsed(z, kind, n, what), n, resource)
             /\ Steps(x, Bad(z, n), n, resource)
  <2>1. IsHost(z)
    BY <1>2 DEF Alike
  <2>2. /\ Steps(z, Tells(z, kind, n, what), n, resource)
        /\ Steps(z, TellsParsed(z, kind, n, what), n, resource)
        /\ Steps(z, Bad(z, n), n, resource)
    BY <1>2, <2>1, TellsSteps, BadSteps
  <2> QED BY <1>2, <2>2, AlikeSteps
<1>3. Alike(x, x)
  BY DEF Alike, SameInfos
<1>4. CASE apdu.tag \in More
  <2>1. MmiOnApdu(x, n, apdu) \in {Bad(taken, n), kept}
    <3>1. apdu.tag \notin {TextLast, MenuLast, ListLast, CloseMmi, DisplayControl, MmiEnq}
      BY <1>4, MmiTagsDiffer
    <3> QED BY <1>4, <1>p, <3>1 DEF MmiOnApdu, TakeObject
  <2>2. Steps(x, Bad(taken, n), n, resource)
    BY <1>1, <1>2
  <2>3. Steps(x, kept, n, resource)
    BY <1>1, NothingSteps
  <2> QED BY <2>1, <2>2, <2>3
<1>5. CASE apdu.tag \in Closing
  <2>1. \E kind \in {"Text", "Menu", "List"} : \E what : MmiOnApdu(x, n, apdu) = Tells(taken, kind, n, what)
    <3>1. apdu.tag \notin More /\ apdu.tag \notin {CloseMmi, DisplayControl, MmiEnq}
      BY <1>5, MmiTagsDiffer DEF Closing
    <3>5. apdu.tag = TextLast => apdu.tag \notin {MenuLast, ListLast}
      BY MmiTagsDiffer
    <3>2. CASE apdu.tag = TextLast
      <4>1. MmiOnApdu(x, n, apdu) = Tells(taken, "Text", n, object)
        BY <1>p, <3>1, <3>2, <3>5 DEF MmiOnApdu
      <4> QED BY <4>1
    <3>3. CASE apdu.tag # TextLast /\ apdu.tag \in {MenuLast, ListLast}
      <4>p. PICK kind : kind = IF apdu.tag = MenuLast THEN "Menu" ELSE "List"
        OBVIOUS
      <4>1. MmiOnApdu(x, n, apdu) = Tells(taken, kind, n, ParseMenu(object))
        BY <1>p, <3>1, <3>3, <4>p DEF MmiOnApdu
      <4>2. kind \in {"Text", "Menu", "List"}
        BY <4>p
      <4> QED BY <4>1, <4>2
    <3> QED BY <1>5, <3>2, <3>3 DEF Closing
  <2>2. PICK kind \in {"Text", "Menu", "List"} : \E what : MmiOnApdu(x, n, apdu) = Tells(taken, kind, n, what)
    BY <2>1
  <2>3. kind # "ApplicationInfo"
    OBVIOUS
  <2> QED BY <1>1, <1>2, <2>2, <2>3
<1>6. CASE apdu.tag \notin More \cup Closing
  <2>1. MmiOnApdu(x, n, apdu) \in
          {Tells(closed, "MmiClose", n, CloseDelay(body)),
           Sends(x, n, DisplayReply, DisplayAnswer(body)),
           TellsParsed(x, "Enq", n, ParseEnq(body)), Bad(x, n)}
    BY <1>6, <1>p DEF MmiOnApdu, Closing
  <2>2. Steps(x, Tells(closed, "MmiClose", n, CloseDelay(body)), n, resource)
    BY <1>1, <1>2
  <2>3. Steps(x, TellsParsed(x, "Enq", n, ParseEnq(body)), n, resource)
        /\ Steps(x, Bad(x, n), n, resource)
    BY <1>2, <1>3
  <2>4. Steps(x, Sends(x, n, DisplayReply, DisplayAnswer(body)), n, resource)
    <3>p. PICK answer : answer = DisplayAnswer(body)
      OBVIOUS
    <3>1. answer \in {<< 1, 1 >>, << 241 >>, << 240 >>}
      BY <3>p DEF DisplayAnswer
    <3>2. answer \in Bytes /\ Len(answer) \in 0 .. 24
      <4>1. << 1, 1 >> \in Bytes /\ << 241 >> \in Bytes /\ << 240 >> \in Bytes
        BY DEF Bytes
      <4>2. Len(<< 1, 1 >>) = 2 /\ Len(<< 241 >>) = 1 /\ Len(<< 240 >>) = 1
        OBVIOUS
      <4>3. CASE answer = << 1, 1 >>
        BY <4>1, <4>2, <4>3
      <4>4. CASE answer = << 241 >>
        BY <4>1, <4>2, <4>4
      <4>5. CASE answer = << 240 >>
        BY <4>1, <4>2, <4>5
      <4> QED BY <3>1, <4>3, <4>4, <4>5
    <3>3. DisplayReply \in {Profile, ProfileEnq, ProfileChange, ApplicationInfoEnq, DisplayReply}
      OBVIOUS
    <3> QED BY <3>2, <3>3, <3>p, AnswersStep
  <2> QED BY <2>1, <2>2, <2>3, <2>4
<1> QED BY <1>4, <1>5, <1>6

(* src/src/ca/session.rs:493-571: one object, and a write of its answer that
   may fall short.                                                          *)
LEMMA HandlesStep ==
    ASSUME NEW x, IsHost(x), x.wall \in Times, NEW n, NEW item \in Objects \cup {Malformed},
           table[n].resource \in Names, NEW short \in BOOLEAN
    PROVE  Handles(x, Handle(x, n, item, short), n, table[n].resource)
<1>p. PICK resource : resource = table[n].resource
  OBVIOUS
<1>1. ASSUME NEW y, Steps(x, y, n, resource) PROVE Handles(x, y, n, resource)
  BY <1>1 DEF Steps, Handles
<1>2. CASE item = Malformed
  BY <1>1, <1>2, <1>p, BadSteps DEF Handle
<1>3. CASE item # Malformed
  <2>1. item \in Objects
    BY <1>3
  <2>2. Steps(x, OnApdu(x, n, item), n, resource)
    <3>1. CASE resource = "ResourceManager"
      BY <1>p, <3>1, ResourceManagerSteps DEF OnApdu
    <3>2. CASE resource = "ApplicationInfo"
      BY <1>p, <2>1, <3>2, ApplicationInfoSteps DEF OnApdu
    <3>3. CASE resource = "HostControl"
      BY <1>p, <3>3, HostControlSteps DEF OnApdu
    <3>4. CASE resource = "DateTime"
      BY <1>p, <2>1, <3>4, DateTimeSteps DEF OnApdu
    <3>5. CASE resource = "Mmi"
      BY <1>p, <3>5, MmiSteps DEF OnApdu
    <3> QED BY <1>p, <3>1, <3>2, <3>3, <3>4, <3>5 DEF Names
  <2>p. PICK y, z : y = OnApdu(x, n, item) /\ z = [y EXCEPT !.out = x.out]
    OBVIOUS
  <2>3. Handle(x, n, item, short) = IF short /\ y.out # x.out THEN Bad(z, n) ELSE y
    BY <1>3, <2>p DEF Handle, Result
  <2>4. CASE ~(short /\ y.out # x.out)
    BY <1>1, <1>p, <2>2, <2>3, <2>4, <2>p
  <2>5. CASE short /\ y.out # x.out
    <3>1. IsHost(y) /\ y.wall = x.wall /\ Replied(x, y, n)
      BY <2>2, <2>5, <2>p DEF Steps, Silent
    <3>2. /\ IsHost(z) /\ z.wall = x.wall /\ SameInfos(x, z) /\ z.events = x.events
          /\ z.out = x.out /\ z.clocks = y.clocks
      BY <2>p, <3>1 DEF IsHost, Replied, SameInfos
    <3>3. z.clocks = x.clocks \/ Restarted(x, z, n)
      BY <3>1, <3>2 DEF Replied, Restarted
    <3>b. PICK b : b = Bad(z, n)
      OBVIOUS
    <3>4. /\ IsHost(b) /\ b.wall = x.wall /\ SameInfos(x, b)
          /\ b.events = Append(x.events, MalformedEvent(n))
          /\ b.out = x.out /\ b.clocks = z.clocks
      BY <3>2, <3>b DEF IsHost, Bad, SameInfos
    <3>5. ~IsInfo(MalformedEvent(n))
      BY DEF IsInfo, MalformedEvent, Event
    <3>6. Spared(x, b, n)
      BY <3>3, <3>4, <3>5 DEF Spared, Untold, Restarted
    <3> QED BY <1>p, <2>3, <2>5, <3>4, <3>6, <3>b DEF Handles
  <2> QED BY <2>4, <2>5
<1> QED BY <1>2, <1>3

(* What is read of a frame is what was written, or an error.                *)
LEMMA ReadableItems ==
    ASSUME NEW Kind, NEW apdus \in Seq(Kind), NEW cut, NEW damage
    PROVE  Readable(apdus, cut, damage) \in Seq(Kind \cup {Malformed})
<1>p. PICK size, wholes, w, read, tail, S :
         /\ size = Len(Concat(apdus)) - cut /\ wholes = WholeObjects(apdus, size)
         /\ w = Cardinality(wholes) /\ read = SubSeq(apdus, 1, w)
         /\ tail = IF Len(Concat(read)) = size THEN <<>> ELSE << Malformed >>
         /\ S = Kind \cup {Malformed}
  OBVIOUS
<1>1. w \in 0 .. Len(apdus)
  <2>1. wholes \subseteq 1 .. Len(apdus) /\ Len(apdus) \in Nat
    BY <1>p DEF WholeObjects
  <2>2. IsFiniteSet(1 .. Len(apdus)) /\ Cardinality(1 .. Len(apdus)) =
           IF 1 > Len(apdus) THEN 0 ELSE Len(apdus) - 1 + 1
    BY <2>1, FS_Interval
  <2>3. Cardinality(wholes) <= Cardinality(1 .. Len(apdus)) /\ IsFiniteSet(wholes)
    BY <2>1, <2>2, FS_Subset
  <2>4. Cardinality(wholes) \in Nat
    BY <2>3, FS_CardinalityType
  <2>5. Cardinality(1 .. Len(apdus)) = Len(apdus)
    BY <2>1, <2>2
  <2> QED BY <1>p, <2>1, <2>3, <2>4, <2>5
<1>2. read \in Seq(S)
  <2>1. \A i \in 1 .. w : apdus[i] \in S
    <3>1. \A i \in 1 .. w : i \in 1 .. Len(apdus)
      BY <1>1
    <3>2. \A i \in 1 .. Len(apdus) : apdus[i] \in Kind
      OBVIOUS
    <3> QED BY <1>p, <3>1, <3>2
  <2>2. 1 \in Int /\ w \in Int
    BY <1>1
  <2> QED BY <1>p, <2>1, <2>2, SubSeqProperties
<1>3. tail \in Seq(S) /\ << Malformed >> \in Seq(S)
  <2>1. Malformed \in S
    BY <1>p
  <2>2. <<>> \in Seq(S) /\ << Malformed >> \in Seq(S)
    BY <2>1
  <2>3. tail = <<>> \/ tail = << Malformed >>
    BY <1>p
  <2> QED BY <2>2, <2>3
<1>4. read \o tail \in Seq(S)
  BY <1>2, <1>3, ConcatProperties
<1>5. Readable(apdus, cut, damage) = IF damage > 0 THEN << Malformed >> ELSE read \o tail
  BY <1>p DEF Readable
<1> QED BY <1>3, <1>4, <1>5, <1>p

(***************************************************************************)
(* The objects of a frame one after another.                               *)
(***************************************************************************)
Unfolds(h, n, items, short, handled) ==
    /\ handled[0] = h
    /\ \A i \in 1 .. Len(items) : handled[i] = Handle(handled[i - 1], n, items[i], i = short)

(* The objects of one SPDU are handled one after another.                   *)
LEMMA DispatchUnfolds ==
    ASSUME NEW h, NEW n, NEW items, Len(items) \in Nat, NEW short
    PROVE  \E handled : /\ Unfolds(h, n, items, short, handled)
                        /\ DispatchApdu(h, n, items, short) = handled[Len(items)]
<1>p. PICK m : m = Len(items)
  OBVIOUS
<1> DEFINE Goes(f, i) == IF i = 0 THEN h ELSE Handle(f[i - 1], n, items[i], i = short)
           Built(k) == \E f : f = [i \in 0 .. k |-> Goes(f, i)]
           T == {k \in 0 .. m : Built(k)}
<1>1. m \in Nat
  BY <1>p
<1>2. 0 \in T
  <2>p. PICK f : f = [i \in 0 .. 0 |-> h]
    OBVIOUS
  <2>1. \A i \in 0 .. 0 : f[i] = Goes(f, i)
    BY <2>p
  <2>2. f = [i \in 0 .. 0 |-> Goes(f, i)]
    <3> HIDE DEF Goes
    <3> QED BY <2>1, <2>p
  <2>3. Built(0)
    BY <2>2
  <2> HIDE DEF Built
  <2> QED BY <1>1, <2>3
<1>3. ASSUME NEW k \in 1 .. m, k - 1 \in T PROVE k \in T
  <2>1. PICK f : f = [i \in 0 .. k - 1 |-> Goes(f, i)]
    BY <1>3
  <2>p. PICK g : g = [i \in 0 .. k |-> IF i = k THEN Goes(f, k) ELSE f[i]]
    OBVIOUS
  <2>2. \A i \in 0 .. k : g[i] = Goes(g, i)
    <3> TAKE i \in 0 .. k
    <3>1. CASE i = 0
      <4>1. i \in 0 .. k - 1 /\ i # k
        BY <3>1
      <4>2. g[i] = f[i]
        BY <2>p, <4>1
      <4>3. f[i] = Goes(f, i)
        <5> HIDE DEF Goes
        <5> QED BY <2>1, <4>1
      <4> QED BY <3>1, <4>2, <4>3
    <3>2. CASE i # 0
      <4>1. i - 1 \in 0 .. k - 1 /\ i - 1 \in 0 .. k /\ i - 1 # k
        BY <3>2
      <4>2. g[i - 1] = f[i - 1]
        BY <2>p, <4>1
      <4>3. g[i] = Goes(f, i)
        <5>1. CASE i = k
          <6> HIDE DEF Goes
          <6> QED BY <2>p, <5>1
        <5>2. CASE i # k
          <6>1. i \in 0 .. k - 1
            BY <5>2
          <6>2. g[i] = f[i]
            BY <2>p, <5>2
          <6> HIDE DEF Goes
          <6> QED BY <2>1, <6>1, <6>2
        <5> QED BY <5>1, <5>2
      <4> QED BY <3>2, <4>2, <4>3
    <3> QED BY <3>1, <3>2
  <2>3. g = [i \in 0 .. k |-> Goes(g, i)]
    <3> HIDE DEF Goes
    <3> QED BY <2>2, <2>p
  <2>4. Built(k)
    <3> HIDE DEF Goes
    <3> QED BY <2>3
  <2> HIDE DEF Built
  <2> QED BY <1>1, <2>4
<1>4. T = 0 .. m
  <2>1. T \in SUBSET (0 .. m)
    <3> HIDE DEF Built
    <3> QED OBVIOUS
  <2> HIDE DEF T, Built
  <2> QED BY <1>1, <1>2, <1>3, <2>1, Upwards
<1>5. \E f : f = [i \in 0 .. m |-> Goes(f, i)]
  <2>1. m \in T
    <3> HIDE DEF T
    <3> QED BY <1>1, <1>4
  <2>2. Built(m)
    <3> HIDE DEF Built
    <3> QED BY <2>1
  <2> QED BY <2>2
<1> DEFINE handled == CHOOSE f : f = [i \in 0 .. Len(items) |-> Goes(f, i)]
<1>6. handled = [i \in 0 .. Len(items) |-> Goes(handled, i)]
  <2> HIDE DEF Goes
  <2> QED BY <1>5, <1>p
<1>7. DispatchApdu(h, n, items, short) = handled[Len(items)]
  BY DEF DispatchApdu
<1>8. Unfolds(h, n, items, short, handled)
  <2>1. \A i \in 0 .. Len(items) : handled[i] = Goes(handled, i)
    <3> HIDE DEF Goes, handled
    <3> QED BY <1>6
  <2> HIDE DEF handled
  <2>2. 0 \in 0 .. Len(items) /\ \A i \in 1 .. Len(items) : i \in 0 .. Len(items) /\ i # 0
    BY <1>1, <1>p
  <2> QED BY <2>1, <2>2 DEF Unfolds
<1> HIDE DEF handled
<1> QED BY <1>7, <1>8

(***************************************************************************)
(* What the host keeps, and has sent, after some of them.                  *)
(***************************************************************************)
Anew(c, n) == \E k \in Nat : c = [clocks EXCEPT ![n] = [interval |-> k, sent |-> None]]

After(y, n) ==
    /\ IsHost(y) /\ y.wall = Walls[now]
    /\ y.out \in Seq(Sent(n, Walls[now]))
    /\ y.clocks = clocks \/ Anew(y.clocks, n)
    /\ (\E i \in 1 .. Len(y.out) : y.out[i].apdu.tag = DateTime) => Anew(y.clocks, n)

(* What the host keeps before the first object.                             *)
LEMMA HostIsBefore ==
    ASSUME NEW n
    PROVE  After(Host, n)
<1>1. Host.out = <<>> /\ Host.wall = Walls[now] /\ Host.clocks = clocks
  BY DEF Host
<1>2. IsHost(Host)
  BY DEF Host, IsHost
<1> QED BY <1>1, <1>2 DEF After

(* An object handled keeps to what is known of the time told.               *)
LEMMA HandlesAfter ==
    ASSUME NEW n, NEW resource, NEW x, After(x, n), NEW y, Handles(x, y, n, resource)
    PROVE  After(y, n)
<1>p. PICK S, w : S = Sent(n, w) /\ w = Walls[now]
  OBVIOUS
<1>1. /\ IsHost(y) /\ y.wall = w /\ x.wall = w /\ x.out \in Seq(S)
      /\ x.clocks = clocks \/ Anew(x.clocks, n)
      /\ (\E i \in 1 .. Len(x.out) : x.out[i].apdu.tag = DateTime) => Anew(x.clocks, n)
  BY <1>p DEF After, Handles
<1>2. ASSUME Restarted(x, y, n) PROVE Anew(y.clocks, n)
  <2>1. PICK k \in Nat : y.clocks = [x.clocks EXCEPT ![n] = [interval |-> k, sent |-> None]]
    BY <1>2 DEF Restarted
  <2>2. CASE x.clocks = clocks
    BY <2>1, <2>2 DEF Anew
  <2>3. CASE Anew(x.clocks, n)
    <3>1. PICK j \in Nat : x.clocks = [clocks EXCEPT ![n] = [interval |-> j, sent |-> None]]
      BY <2>3 DEF Anew
    <3>2. y.clocks = [clocks EXCEPT ![n] = [interval |-> k, sent |-> None]]
      BY <2>1, <3>1
    <3> QED BY <3>2 DEF Anew
  <2> QED BY <1>1, <2>2, <2>3
<1>3. CASE y.out = x.out /\ (y.clocks = x.clocks \/ Restarted(x, y, n))
  BY <1>1, <1>2, <1>3, <1>p DEF After
<1>4. CASE Replied(x, y, n)
  <2>1. PICK o \in Replies(n, x.wall) :
          /\ y.out = Append(x.out, o)
          /\ o.apdu.tag # DateTime => y.clocks = x.clocks
          /\ o.apdu.tag = DateTime => Restarted(x, y, n)
    BY <1>4 DEF Replied
  <2>2. o \in S
    BY <1>1, <1>p, <2>1 DEF Replies
  <2>3. /\ y.out \in Seq(S) /\ Len(x.out) \in Nat /\ Len(y.out) = Len(x.out) + 1
        /\ \A i \in 1 .. Len(x.out) : y.out[i] = x.out[i]
        /\ y.out[Len(x.out) + 1] = o
    BY <1>1, <2>1, <2>2, AppendProperties
  <2>4. y.clocks = clocks \/ Anew(y.clocks, n)
    BY <1>1, <1>2, <2>1
  <2>5. ASSUME NEW i \in 1 .. Len(y.out), y.out[i].apdu.tag = DateTime PROVE Anew(y.clocks, n)
    <3>1. CASE o.apdu.tag = DateTime
      BY <1>2, <2>1, <3>1
    <3>2. CASE o.apdu.tag # DateTime
      <4>1. i \in 1 .. Len(x.out)
        BY <2>3, <2>5, <3>2
      <4>2. x.out[i].apdu.tag = DateTime
        BY <2>3, <2>5, <4>1
      <4> QED BY <1>1, <2>1, <3>2, <4>1, <4>2
    <3> QED BY <3>1, <3>2
  <2> QED BY <1>1, <1>p, <2>3, <2>4, <2>5 DEF After
<1> QED BY <1>3, <1>4 DEF Handles, Silent, Spared

(* So do all the objects of one SPDU.                                       *)
LEMMA DispatchAfter ==
    ASSUME NEW n, table[n].resource \in Names, now \in 0 .. MaxNow,
           NEW items \in Seq(Objects \cup {Malformed}), NEW short
    PROVE  After(DispatchApdu(Host, n, items, short), n)
<1>1. Len(items) \in Nat
  OBVIOUS
<1>2. PICK handled : /\ Unfolds(Host, n, items, short, handled)
                     /\ DispatchApdu(Host, n, items, short) = handled[Len(items)]
  BY <1>1, DispatchUnfolds
<1> DEFINE T == {i \in 0 .. Len(items) : After(handled[i], n)}
<1>3. 0 \in T
  BY <1>1, <1>2, HostIsBefore DEF Unfolds
<1>4. ASSUME NEW i \in 1 .. Len(items), i - 1 \in T PROVE i \in T
  <2>p. PICK x, item : x = handled[i - 1] /\ item = items[i]
    OBVIOUS
  <2>1. After(x, n)
    BY <1>4, <2>p
  <2>2. IsHost(x) /\ x.wall \in Times
    BY <2>1, WallsAssumption DEF After
  <2>3. item \in Objects \cup {Malformed} /\ (i = short) \in BOOLEAN
    <3>p. PICK S : S = Objects \cup {Malformed}
      OBVIOUS
    <3>1. items \in Seq(S)
      BY <3>p
    <3>2. item \in S
      BY <2>p, <3>1
    <3> QED BY <3>2, <3>p
  <2>4. Handles(x, Handle(x, n, item, i = short), n, table[n].resource)
    BY <2>2, <2>3, HandlesStep
  <2>5. handled[i] = Handle(x, n, item, i = short)
    BY <1>2, <2>p DEF Unfolds
  <2>6. After(handled[i], n)
    BY <2>1, <2>4, <2>5, HandlesAfter
  <2> QED BY <1>1, <2>6
<1>5. T = 0 .. Len(items)
  <2>1. T \in SUBSET (0 .. Len(items))
    OBVIOUS
  <2> HIDE DEF T
  <2> QED BY <1>1, <1>3, <1>4, <2>1, Upwards
<1>6. Len(items) \in T
  <2> HIDE DEF T
  <2> QED BY <1>1, <1>5
<1> QED BY <1>2, <1>6

-----------------------------------------------------------------------------
(* TimeIsTold: the clocks, what was told and when.                          *)

(***************************************************************************)
(* What the host sends can be read, and tells the time: who it is for is in*)
(* the table, and what the Date-Time resource keeps agrees with what it    *)
(* told and when.                                                          *)
(***************************************************************************)
Clocks == [interval : Nat, sent : Nat \cup {None}]
Tellings == [at : Nat \cup {None}, ticked : Nat \cup {None}]

ClocksTyped ==
    /\ now \in 0 .. MaxNow
    /\ clocks \in [Sessions -> Clocks \cup {None}]
    /\ objects \in [Sessions -> Tellings]

(* An interval runs from the tick after the last object, which is no later. *)
ClockAgrees(n) ==
    /\ clocks[n] # None =>
          /\ table[n] # None
          /\ clocks[n].interval # 0 => objects[n].ticked = clocks[n].sent
          /\ clocks[n].sent # None /\ objects[n].at # None => objects[n].at <= clocks[n].sent
    /\ objects[n].at # None => objects[n].at <= now

OutTold ==
    \A o \in ToSet(out) :
        /\ o.session \in Sessions /\ table[o.session] \in Entries
        /\ \E w \in Times : o \in Sent(o.session, w)

GapsTold ==
    gaps # None =>
        /\ \A n \in DOMAIN gaps : gaps[n] >= clocks[n].interval
        /\ \A n \in Sessions :
              clocks[n] # None /\ clocks[n].interval # 0
                  => now - objects[n].ticked < clocks[n].interval

ToldInv ==
    /\ ClocksTyped
    /\ \A n \in Sessions : ClockAgrees(n)
    /\ OutTold
    /\ GapsTold

(* A clock that runs is not None, and neither is a second.                  *)
LEMMA ClockIsOne ==
    /\ \A c \in Clocks : c # None
    /\ \A k \in Nat : k # None
    /\ \A k \in Nat : [interval |-> k, sent |-> None] \in Clocks
BY NoneAssumption DEF Clocks

(* At first no clock runs and nothing was told.                             *)
LEMMA ToldStarts == Init => ToldInv
<1> SUFFICES ASSUME Init PROVE ToldInv
  OBVIOUS
<1>1. /\ now = 0 /\ out = <<>> /\ gaps = None /\ clocks = Nothing
      /\ objects = [n \in Sessions |-> Never]
  BY DEF Init
<1>2. 0 \in 0 .. MaxNow
  BY WallsAssumption
<1>3. Never \in Tellings /\ Never.at = None
  BY DEF Never, Tellings
<1>4. ClocksTyped
  BY <1>1, <1>2, <1>3 DEF ClocksTyped, Nothing
<1>5. \A n \in Sessions : ClockAgrees(n)
  BY <1>1, <1>3 DEF ClockAgrees, Nothing
<1>6. ToSet(out) = {}
  BY <1>1 DEF ToSet
<1> QED BY <1>1, <1>4, <1>5, <1>6 DEF ToldInv, OutTold, GapsTold

(* A step that ends with what a session of this number was sent.            *)
LEMMA CommitTells ==
    ASSUME ToldInv, NEW n \in Sessions, NEW y, After(y, n), Commit(y), now' = now,
           table'[n] \in Entries, \A m \in Sessions \ {n} : table'[m] = table[m]
    PROVE  ToldInv'
<1>1. /\ ClocksTyped /\ (\A m \in Sessions : ClockAgrees(m))
      /\ clocks' = y.clocks /\ out' = y.out /\ gaps' = None
      /\ objects' = [m \in Sessions |->
             IF m \in Timed(y) THEN [at |-> now, ticked |-> None]
             ELSE IF y.clocks[m] # clocks[m] THEN [objects[m] EXCEPT !.ticked = None]
             ELSE objects[m]]
  BY DEF ToldInv, Commit
<1>2. /\ y.out \in Seq(Sent(n, Walls[now])) /\ Walls[now] \in Times
      /\ y.clocks = clocks \/ Anew(y.clocks, n)
      /\ (\E i \in 1 .. Len(y.out) : y.out[i].apdu.tag = DateTime) => Anew(y.clocks, n)
  BY <1>1, WallsAssumption DEF After, ClocksTyped
<1>3. \A o \in ToSet(y.out) : \E i \in 1 .. Len(y.out) : o = y.out[i]
  BY <1>2 DEF ToSet
<1>4. \A o \in ToSet(y.out) : o \in Sent(n, Walls[now]) /\ o.session = n
  <2>1. \A i \in 1 .. Len(y.out) : y.out[i] \in Sent(n, Walls[now])
    BY <1>2
  <2>2. \A o \in Sent(n, Walls[now]) : o.session = n
    BY DEF Sent
  <2> QED BY <1>3, <2>1, <2>2
<1>5. OutTold'
  <2>1. ASSUME NEW o \in ToSet(out')
        PROVE  /\ o.session \in Sessions /\ table'[o.session] \in Entries
               /\ \E w \in Times : o \in Sent(o.session, w)
    BY <1>1, <1>2, <1>4, <2>1
  <2> QED BY <2>1 DEF OutTold
<1>6. Timed(y) \subseteq {n} /\ (n \in Timed(y) => Anew(y.clocks, n))
  <2>1. ASSUME NEW m \in Timed(y) PROVE m = n /\ Anew(y.clocks, n)
    <3>1. PICK o \in ToSet(y.out) : o.apdu.tag = DateTime /\ m = o.session
      BY DEF Timed
    <3> QED BY <1>2, <1>3, <1>4, <3>1
  <2> QED BY <2>1
<1>7. /\ y.clocks \in [Sessions -> Clocks \cup {None}]
      /\ \A m \in Sessions \ {n} : y.clocks[m] = clocks[m]
      /\ Anew(y.clocks, n) => /\ y.clocks[n] # None /\ y.clocks[n].sent = None
  <2>1. CASE y.clocks = clocks /\ ~Anew(y.clocks, n)
    BY <1>1, <2>1 DEF ClocksTyped
  <2>2. CASE Anew(y.clocks, n)
    <3>1. PICK k \in Nat : y.clocks = [clocks EXCEPT ![n] = [interval |-> k, sent |-> None]]
      BY <2>2 DEF Anew
    <3>p. PICK c : c = [interval |-> k, sent |-> None]
      OBVIOUS
    <3>2. c \in Clocks /\ c # None /\ c.sent = None
      BY <3>p, ClockIsOne
    <3>3. y.clocks = [clocks EXCEPT ![n] = c]
      BY <3>1, <3>p
    <3> QED BY <1>1, <3>2, <3>3 DEF ClocksTyped
  <2> QED BY <1>2, <2>1, <2>2
<1>8. /\ \A m \in Sessions : objects[m] \in Tellings
      /\ now \in Nat
  BY <1>1 DEF ClocksTyped
<1>9. ClocksTyped'
  <2>1. ASSUME NEW m \in Sessions PROVE objects'[m] \in Tellings
    <3>1. [at |-> now, ticked |-> None] \in Tellings /\ [objects[m] EXCEPT !.ticked = None] \in Tellings
      BY <1>8 DEF Tellings
    <3> QED BY <1>1, <1>8, <3>1
  <2>2. objects' \in [Sessions -> Tellings]
    BY <1>1, <2>1
  <2> QED BY <1>1, <1>7, <2>2 DEF ClocksTyped
<1>10. ASSUME NEW m \in Sessions PROVE ClockAgrees(m)'
  <2>1. ClockAgrees(m) /\ objects[m] \in Tellings
    BY <1>1, <1>8
  <2>2. CASE m \in Timed(y)
    <3>1. m = n /\ y.clocks[m] # None /\ y.clocks[m].sent = None
      BY <1>6, <1>7, <2>2
    <3>2. objects'[m].at = now /\ objects'[m].ticked = None
      BY <1>1, <2>2
    <3>3. table'[m] # None
      BY <3>1, EntryIsOpen
    <3>4. now <= now
      BY <1>8
    <3> QED BY <1>1, <3>1, <3>2, <3>3, <3>4 DEF ClockAgrees
  <2>3. CASE m \notin Timed(y) /\ y.clocks[m] # clocks[m]
    <3>1. m = n /\ y.clocks[m] # None /\ y.clocks[m].sent = None
      BY <1>2, <1>7, <2>3
    <3>2. objects'[m].at = objects[m].at /\ objects'[m].ticked = None
      BY <1>1, <2>1, <2>3 DEF Tellings
    <3>3. table'[m] # None
      BY <3>1, EntryIsOpen
    <3> QED BY <1>1, <2>1, <3>1, <3>2, <3>3 DEF ClockAgrees
  <2>4. CASE m \notin Timed(y) /\ y.clocks[m] = clocks[m]
    <3>1. objects'[m] = objects[m] /\ clocks'[m] = clocks[m]
      BY <1>1, <2>4
    <3>2. table[m] # None => table'[m] # None
      BY EntryIsOpen
    <3> QED BY <2>1, <3>1, <3>2 DEF ClockAgrees
  <2> QED BY <2>2, <2>3, <2>4
<1> QED BY <1>1, <1>5, <1>9, <1>10 DEF ToldInv, GapsTold

(* Sessions end.                                                            *)
LEMMA EndsTell ==
    ASSUME ToldInv, NEW gone, Ends(gone)
    PROVE  ToldInv'
<1>1. /\ table' = [n \in Sessions |-> IF n \in gone THEN None ELSE table[n]]
      /\ clocks' = [n \in Sessions |-> IF n \in gone THEN None ELSE clocks[n]]
      /\ objects' = [n \in Sessions |-> IF n \in gone THEN Never ELSE objects[n]]
      /\ out' = <<>> /\ gaps' = None /\ now' = now
  BY DEF Ends, Freed, Quiet
<1>2. ClocksTyped /\ \A n \in Sessions : ClockAgrees(n)
  BY DEF ToldInv
<1>3. Never \in Tellings /\ Never.at = None
  BY DEF Never, Tellings
<1>4. ClocksTyped'
  BY <1>1, <1>2, <1>3 DEF ClocksTyped
<1>5. ASSUME NEW n \in Sessions PROVE ClockAgrees(n)'
  <2>1. ClockAgrees(n)
    BY <1>2
  <2>2. CASE n \in gone
    BY <1>1, <1>3, <2>2 DEF ClockAgrees
  <2>3. CASE n \notin gone
    BY <1>1, <2>1, <2>3 DEF ClockAgrees
  <2> QED BY <2>2, <2>3
<1>6. ToSet(out') = {}
  BY <1>1 DEF ToSet
<1> QED BY <1>1, <1>4, <1>5, <1>6 DEF ToldInv, OutTold, GapsTold

(* A finite set as a sequence has only members of the set.                  *)
LEMMA SeqOfSet ==
    ASSUME NEW S, IsFiniteSet(S)
    PROVE  ToSet(SetToSeq(S)) \subseteq S
<1>1. PICK f \in [1 .. Cardinality(S) -> S] : IsInjective(f)
  BY FS_CardinalityType DEF ExistsBijection, Bijection, Injection, IsInjective
<1>2. SetToSeq(S) \in [1 .. Cardinality(S) -> S]
  BY <1>1 DEF SetToSeq
<1> QED BY <1>2 DEF ToSet

(* The sessions are finitely many.                                          *)
LEMMA SessionsFinite == IsFiniteSet(Sessions)
<1>p. PICK top : top = Base * Base
  OBVIOUS
<1>1. top - 1 \in Int
  BY <1>p, WireAssumption DEF Sizes
<1>2. IsFiniteSet(0 .. top - 1)
  BY <1>1, FS_Interval
<1> QED BY <1>2, <1>p, FS_Subset, SlotsAssumption DEF U16

(* src/src/ca/resource/date_time.rs: a tick tells those whose time is due,
   and starts the interval of those who were told since the last one.       *)
LEMMA TickTells ==
    ASSUME TableTyped, ToldInv, Tick
    PROVE  ToldInv'
<1> DEFINE due == {n \in Sessions : Due(n)}
           body == DateTimeBody(Walls[now])
           told == {[session |-> n, wall |-> Walls[now], apdu |-> Apdu(DateTime, body)] : n \in due}
<1>1. /\ out' = SetToSeq(told)
      /\ clocks' = [n \in Sessions |-> IF n \in due \/ Anchored(n)
                                       THEN [clocks[n] EXCEPT !.sent = now] ELSE clocks[n]]
      /\ gaps' = [n \in {m \in due : objects[m].at # None} |-> now - objects[n].at]
      /\ objects' = [n \in Sessions |->
            IF n \in due THEN [at |-> now, ticked |-> now]
            ELSE IF table[n] # None /\ objects[n].ticked = None
            THEN [objects[n] EXCEPT !.ticked = now] ELSE objects[n]]
      /\ table' = table /\ now' = now
  BY DEF Tick
<1>2. ClocksTyped /\ \A n \in Sessions : ClockAgrees(n)
  BY DEF ToldInv
<1>3. /\ \A n \in Sessions : /\ clocks[n] \in Clocks \cup {None}
                             /\ objects[n] \in Tellings
      /\ now \in Nat /\ now # None /\ Walls[now] \in Times
  BY <1>2, ClockIsOne, WallsAssumption DEF ClocksTyped
<1>4. ASSUME NEW n \in Sessions PROVE /\ Anchored(n) => clocks[n] \in Clocks /\ clocks[n] # None
                                      /\ n \in due => clocks[n] \in Clocks /\ clocks[n] # None
                                      /\ n \in due <=> Due(n)
  BY <1>3 DEF Anchored, Due
<1> HIDE DEF due
<1>5. ClocksTyped'
  <2>1. ASSUME NEW n \in Sessions PROVE clocks'[n] \in Clocks \cup {None} /\ objects'[n] \in Tellings
    <3>1. clocks[n] \in Clocks => [clocks[n] EXCEPT !.sent = now] \in Clocks
      BY <1>3 DEF Clocks
    <3>2. clocks'[n] \in Clocks \cup {None}
      BY <1>1, <1>3, <1>4, <3>1
    <3>3. [at |-> now, ticked |-> now] \in Tellings /\ [objects[n] EXCEPT !.ticked = now] \in Tellings
      BY <1>3 DEF Tellings
    <3>4. objects'[n] \in Tellings
      BY <1>1, <1>3, <3>3
    <3> QED BY <3>2, <3>4
  <2>2. clocks' \in [Sessions -> Clocks \cup {None}] /\ objects' \in [Sessions -> Tellings]
    BY <1>1, <2>1
  <2> QED BY <1>1, <1>2, <2>2 DEF ClocksTyped
<1>6. ASSUME NEW n \in Sessions
      PROVE  /\ ClockAgrees(n)'
             /\ clocks'[n] # None => clocks[n] # None /\ clocks'[n].interval = clocks[n].interval
             /\ clocks'[n] # None /\ clocks'[n].interval # 0
                    => now - objects'[n].ticked < clocks'[n].interval
  <2>1. ClockAgrees(n) /\ objects[n] \in Tellings /\ clocks[n] \in Clocks \cup {None}
    BY <1>2, <1>3
  <2>2. /\ \A k \in Nat : k # None /\ k - k < 1 /\ k <= k
        /\ clocks[n] # None => /\ clocks[n] \in Clocks /\ clocks[n].interval \in Nat
                               /\ clocks[n].sent \in Nat \cup {None}
        /\ objects[n].at \in Nat \cup {None}
    BY <2>1, ClockIsOne DEF Clocks, Tellings
  <2>3. CASE n \in due
    <3>1. /\ clocks[n] # None /\ clocks[n] \in Clocks /\ clocks[n].interval \in Nat \ {0}
      BY <1>4, <2>2, <2>3 DEF Due
    <3>2. clocks'[n] = [clocks[n] EXCEPT !.sent = now] /\ objects'[n] = [at |-> now, ticked |-> now]
      BY <1>1, <2>3
    <3>3. /\ clocks'[n].interval = clocks[n].interval /\ clocks'[n].sent = now
          /\ objects'[n].at = now /\ objects'[n].ticked = now
      BY <3>1, <3>2 DEF Clocks
    <3>4. now <= now /\ now - now < clocks[n].interval
      BY <1>3, <3>1
    <3>5. table'[n] # None
      BY <1>1, <2>1, <3>1 DEF ClockAgrees
    <3> QED BY <1>1, <3>1, <3>3, <3>4, <3>5 DEF ClockAgrees
  <2>4. CASE n \notin due /\ Anchored(n)
    <3>1. /\ clocks[n] # None /\ clocks[n] \in Clocks /\ clocks[n].interval \in Nat \ {0}
          /\ clocks[n].sent = None
      BY <2>2, <2>4 DEF Anchored
    <3>2. table[n] # None /\ objects[n].ticked = None
      BY <2>1, <3>1 DEF ClockAgrees
    <3>3. clocks'[n] = [clocks[n] EXCEPT !.sent = now] /\ objects'[n] = [objects[n] EXCEPT !.ticked = now]
      BY <1>1, <2>4, <3>2
    <3>4. /\ clocks'[n].interval = clocks[n].interval /\ clocks'[n].sent = now
          /\ objects'[n].at = objects[n].at /\ objects'[n].ticked = now
      BY <2>1, <3>1, <3>3 DEF Clocks, Tellings
    <3>5. now - now < clocks[n].interval
      BY <1>3, <3>1
    <3> QED BY <1>1, <2>1, <3>1, <3>2, <3>4, <3>5 DEF ClockAgrees
  <2>5. CASE n \notin due /\ ~Anchored(n)
    <3>1. clocks'[n] = clocks[n]
      BY <1>1, <2>5
    <3>2. objects'[n].at = objects[n].at
      BY <1>1, <2>1, <2>5 DEF Tellings
    <3>3. CASE clocks[n] = None \/ clocks[n].interval = 0
      BY <1>1, <2>1, <3>1, <3>2, <3>3 DEF ClockAgrees
    <3>4. CASE clocks[n] # None /\ clocks[n].interval # 0
      <4>1. clocks[n].sent # None /\ clocks[n].sent \in Nat /\ clocks[n].interval \in Nat
        BY <2>2, <2>5, <3>4 DEF Anchored
      <4>2. ~(now - clocks[n].sent >= clocks[n].interval)
        BY <1>4, <2>5, <3>4, <4>1 DEF Due
      <4>3. objects[n].ticked = clocks[n].sent
        BY <2>1, <3>4 DEF ClockAgrees
      <4>4. objects'[n] = objects[n]
        BY <1>1, <2>5, <4>1, <4>3
      <4>5. now - objects'[n].ticked < clocks[n].interval
        BY <1>3, <4>1, <4>2, <4>3, <4>4
      <4> QED BY <1>1, <2>1, <3>1, <3>4, <4>4, <4>5 DEF ClockAgrees
    <3> QED BY <3>3, <3>4
  <2> QED BY <2>3, <2>4, <2>5
<1>7. GapsTold'
  <2>1. ASSUME NEW n \in DOMAIN gaps' PROVE gaps'[n] >= clocks'[n].interval
    <3>1. n \in due /\ objects[n].at # None /\ gaps'[n] = now - objects[n].at /\ n \in Sessions
      BY <1>1, <2>1 DEF due
    <3>2. /\ ClockAgrees(n) /\ objects[n] \in Tellings /\ clocks[n] \in Clocks
          /\ clocks[n] # None /\ clocks[n].sent # None
          /\ now - clocks[n].sent >= clocks[n].interval
      BY <1>2, <1>3, <1>4, <3>1 DEF Due
    <3>3. objects[n].at <= clocks[n].sent
      BY <3>1, <3>2 DEF ClockAgrees
    <3>4. objects[n].at \in Nat /\ clocks[n].sent \in Nat /\ clocks[n].interval \in Nat
      BY <3>1, <3>2 DEF Clocks, Tellings
    <3>5. gaps'[n] >= clocks[n].interval
      BY <1>3, <3>1, <3>2, <3>3, <3>4
    <3>6. clocks'[n] = [clocks[n] EXCEPT !.sent = now]
      BY <1>1, <3>1
    <3>7. clocks'[n].interval = clocks[n].interval
      BY <3>2, <3>6 DEF Clocks
    <3> QED BY <3>5, <3>7
  <2>2. \A n \in Sessions :
           clocks'[n] # None /\ clocks'[n].interval # 0
                    => now' - objects'[n].ticked < clocks'[n].interval
    BY <1>1, <1>6
  <2> QED BY <2>1, <2>2 DEF GapsTold
<1>8. OutTold'
  <2>1. IsFiniteSet(told)
    <3>1. IsFiniteSet(due)
      BY SessionsFinite, FS_Subset DEF due
    <3> DEFINE Op(n) == [session |-> n, wall |-> Walls[now], apdu |-> Apdu(DateTime, body)]
               f == [n \in due |-> Op(n)]
    <3>2. told = {Op(n) : n \in due}
      OBVIOUS
    <3>3. f \in Surjection(due, {Op(n) : n \in due})
      <4> HIDE DEF Op
      <4> QED BY DEF Surjection
    <3> HIDE DEF Op, told, f
    <3> QED BY <3>1, <3>2, <3>3, FS_Surjection
  <2>2. ToSet(out') \subseteq told
    <3> HIDE DEF told
    <3> QED BY <1>1, <2>1, SeqOfSet
  <2>3. ASSUME NEW o \in ToSet(out')
        PROVE  /\ o.session \in Sessions /\ table'[o.session] \in Entries
               /\ \E w \in Times : o \in Sent(o.session, w)
    <3>1. PICK n \in due : o = [session |-> n, wall |-> Walls[now], apdu |-> Apdu(DateTime, body)]
      BY <2>2
    <3>2. n \in Sessions /\ table'[n] \in Entries
      <4>1. n \in Sessions /\ clocks[n] # None
        BY <1>4 DEF due
      <4>2. table[n] # None
        BY <1>2, <4>1 DEF ClockAgrees
      <4> QED BY <1>1, <4>1, <4>2 DEF TableTyped
    <3>3. body \in Bytes /\ Len(body) \in U16
      <4>1. body \in Bytes /\ Len(body) = 5
        BY <1>3, TimeIsBytes
      <4>2. 5 \in 0 .. 24
        OBVIOUS
      <4> QED BY <4>1, <4>2, SmallSizes
    <3>4. DateTime \in Bytes /\ Len(DateTime) = 3
      BY DEF DateTime, Tag, Bytes
    <3>b. PICK b : b = body
      OBVIOUS
    <3>5. Apdu(DateTime, b) \in Objects
      BY <3>3, <3>4, <3>b DEF Apdu, Objects, IsObject, Bytes
    <3>6. o \in Sent(n, Walls[now])
      BY <3>1, <3>5, <3>b DEF Sent, Apdu
    <3>7. o.session = n
      BY <3>1
    <3> QED BY <1>3, <3>2, <3>6, <3>7
  <2> QED BY <2>3 DEF OutTold
<1> QED BY <1>5, <1>6, <1>7, <1>8 DEF ToldInv

(* Time that passes tells nothing and leaves every anchor.                  *)
LEMMA WaitTells ==
    ASSUME ToldInv, Wait
    PROVE  ToldInv'
<1>1. /\ now < MaxNow /\ now' = now + 1 /\ out' = <<>> /\ gaps' = None
      /\ clocks' = clocks /\ objects' = objects /\ table' = table
  BY DEF Wait, Quiet, hostVars
<1>2. ClocksTyped /\ \A n \in Sessions : ClockAgrees(n)
  BY DEF ToldInv
<1>3. now \in Nat /\ now' \in 0 .. MaxNow
  BY <1>1, <1>2, WallsAssumption DEF ClocksTyped
<1>4. ASSUME NEW n \in Sessions PROVE ClockAgrees(n)'
  <2>1. ClockAgrees(n) /\ objects[n] \in Tellings
    BY <1>2 DEF ClocksTyped
  <2>2. objects[n].at # None => objects[n].at <= now'
    <3>1. objects[n].at # None => objects[n].at <= now /\ objects[n].at \in Nat
      BY <2>1 DEF ClockAgrees, Tellings
    <3> QED BY <1>1, <1>3, <3>1
  <2> QED BY <1>1, <2>1, <2>2 DEF ClockAgrees
<1>5. ToSet(out') = {}
  BY <1>1 DEF ToSet
<1> QED BY <1>1, <1>2, <1>3, <1>4, <1>5 DEF ToldInv, OutTold, GapsTold, ClocksTyped

(* Only the answer of what was handled is lost in a write that falls short. *)
LEMMA ResultAfter ==
    ASSUME NEW n, NEW y, After(y, n), NEW short
    PROVE  After(Result(y, Host, n, short), n)
<1>p. PICK z, b : z = [y EXCEPT !.out = <<>>] /\ b = Bad(z, n)
  OBVIOUS
<1>1. Host.out = <<>>
  BY DEF Host
<1>2. Result(y, Host, n, short) = IF short /\ y.out # <<>> THEN b ELSE y
  BY <1>1, <1>p DEF Result
<1>3. After(b, n)
  <2>1. IsHost(y) /\ y.wall = Walls[now] /\ (y.clocks = clocks \/ Anew(y.clocks, n))
    BY DEF After
  <2>2. IsHost(z) /\ z.wall = y.wall /\ z.clocks = y.clocks /\ z.out = <<>>
    BY <1>p, <2>1 DEF IsHost
  <2>3. IsHost(b) /\ b.wall = y.wall /\ b.clocks = y.clocks /\ b.out = <<>>
    BY <1>p, <2>2 DEF IsHost, Bad
  <2> QED BY <2>1, <2>3 DEF After
<1> QED BY <1>2, <1>3

(* src/src/ca/resource/: what a resource sends on a session that opens.     *)
LEMMA OpenAfter ==
    ASSUME now \in 0 .. MaxNow, NEW n, NEW resource, NEW short
    PROVE  After(Result(OnOpen(Host, n, resource), Host, n, short), n)
<1>p. PICK y : y = OnOpen(Host, n, resource)
  OBVIOUS
<1>1. After(Host, n) /\ IsHost(Host) /\ Host.wall \in Times /\ Host.wall = Walls[now]
  BY HostIsBefore, WallsAssumption DEF After
<1>2. ASSUME NEW x, NEW z, After(x, n), Steps(x, z, n, resource) PROVE After(z, n)
  <2>1. Handles(x, z, n, resource)
    BY <1>2 DEF Steps, Handles
  <2> QED BY <1>2, <2>1, HandlesAfter
<1>b. <<>> \in Bytes /\ Len(<<>>) \in 0 .. 24
  BY DEF Bytes
<1>3. CASE resource = "ResourceManager"
  <2>1. y = Sends(Host, n, ProfileEnq, <<>>)
    BY <1>3, <1>p DEF OnOpen
  <2>2. Steps(Host, y, n, resource)
    BY <1>1, <1>b, <2>1, AnswersStep
  <2> QED BY <1>1, <1>2, <1>p, <2>2, ResultAfter
<1>4. CASE resource = "ApplicationInfo"
  <2>p. PICK x : x = [Host EXCEPT !.applications[n] = [info |-> None, revision |-> 0]]
    OBVIOUS
  <2>1. y = Sends(x, n, ApplicationInfoEnq, <<>>)
    BY <1>4, <1>p, <2>p DEF OnOpen
  <2>2. IsHost(x) /\ x.wall = Host.wall /\ x.clocks = Host.clocks /\ x.out = Host.out
    BY <1>1, <2>p DEF IsHost
  <2>3. After(x, n)
    BY <1>1, <2>2 DEF After
  <2>4. Steps(x, y, n, resource)
    BY <1>b, <2>1, <2>2, AnswersStep
  <2> QED BY <1>2, <1>p, <2>3, <2>4, ResultAfter
<1>5. CASE resource = "DateTime"
  <2>p. PICK x : x = [Host EXCEPT !.clocks[n] = [interval |-> 0, sent |-> None]]
    OBVIOUS
  <2>1. y = SendsTime(x, n)
    BY <1>5, <1>p, <2>p DEF OnOpen
  <2>2. 0 \in Nat
    OBVIOUS
  <2>3. Steps(Host, SendsTime(x, n), n, resource)
    BY <1>1, <2>2, <2>p, TimeSteps
  <2> QED BY <1>1, <1>2, <1>p, <2>1, <2>3, ResultAfter
<1>6. CASE resource \notin {"ResourceManager", "ApplicationInfo", "DateTime"}
  <2>1. y = Host
    BY <1>6, <1>p DEF OnOpen
  <2> QED BY <1>1, <1>p, <2>1, ResultAfter
<1> QED BY <1>3, <1>4, <1>5, <1>6

(* What the application has sent.                                           *)
LEMMA CommandAfter ==
    ASSUME NEW n, NEW tag \in Bytes, Len(tag) = 3, tag # DateTime,
           NEW body \in Bytes, Len(body) \in U16
    PROVE  After(Sends(Host, n, tag, body), n)
<1>p. PICK y, o, S : /\ y = Sends(Host, n, tag, body) /\ S = Sent(n, Walls[now])
               /\ o = [session |-> n, apdu |-> Apdu(tag, body), wall |-> Walls[now]]
  OBVIOUS
<1>1. /\ IsHost(Host) /\ Host.wall = Walls[now] /\ Host.out = <<>> /\ Host.clocks = clocks
  BY DEF Host, IsHost
<1>2. IsHost(y) /\ y.wall = Walls[now] /\ y.clocks = clocks /\ y.out = << o >>
  BY <1>1, <1>p DEF Sends, IsHost
<1>3. Apdu(tag, body) \in Objects
  BY DEF Apdu, Objects, IsObject, Bytes
<1>4. o \in S /\ o.apdu.tag # DateTime
  BY <1>3, <1>p DEF Sent, Apdu
<1>5. << o >> \in Seq(S) /\ ~\E i \in 1 .. Len(<< o >>) : << o >>[i].apdu.tag = DateTime
  BY <1>4
<1> QED BY <1>2, <1>5, <1>p DEF After

(* A session is a number, so there is a least and a largest.                *)
LEMMA SessionsAreNumbers == Sessions \subseteq Nat
<1>p. PICK top : top = Base * Base
  OBVIOUS
<1>1. top \in Nat
  BY <1>p, WireAssumption DEF Sizes
<1>2. 0 .. top - 1 \subseteq Nat
  BY <1>1
<1> QED BY <1>2, <1>p, SlotsAssumption DEF U16

(* The session a command goes to is an open one.                            *)
LEMMA FoundIsOpen ==
    ASSUME NEW s, NEW resource, FindSession(s, resource) # None
    PROVE  FindSession(s, resource) \in Active(s, resource)
<1>1. Active(s, resource) # {}
  BY DEF FindSession
<1>2. Active(s, resource) \in SUBSET Nat
  BY SessionsAreNumbers DEF Active, Open
<1>3. \E n \in Active(s, resource) : \A m \in Active(s, resource) : n <= m
  BY <1>1, <1>2, LeastOf
<1> QED BY <1>1, <1>3 DEF FindSession

(* The menu is entered on an active session of the application information. *)
LEMMA MenuIsOpen ==
    ASSUME NEW s, MenuSession(s) # None
    PROVE  MenuSession(s) \in Active(s, "ApplicationInfo")
BY FoundIsOpen DEF MenuSession

(* A session that opens has a number of its own.                            *)
LEMMA NumberIsFree ==
    ASSUME Open # Sessions
    PROVE  \E n \in Sessions \ Open :
              n = CHOOSE m \in Sessions \ Open : \A k \in Sessions \ Open : m <= k
<1>1. Sessions \ Open # {} /\ Sessions \ Open \in SUBSET Nat
  BY SessionsAreNumbers DEF Open
<1>2. \E m \in Sessions \ Open : \A k \in Sessions \ Open : m <= k
  BY <1>1, LeastOf
<1> QED BY <1>2

(* A session that opens is told the time with its clock reset, or not at    *)
(* all.                                                                     *)
LEMMA OpenTells ==
    ASSUME TableTyped, ToldInv, NEW s \in 0 .. Slots - 1, NEW resource \in Names,
           OpenSession(s, resource)
    PROVE  ToldInv'
<1>p. PICK free : free = CHOOSE m \in Sessions \ Open : \A k \in Sessions \ Open : m <= k
  OBVIOUS
<1>1. /\ Open # Sessions
      /\ table' = [table EXCEPT ![free] = [slot |-> s, resource |-> resource, closing |-> FALSE]]
      /\ \E short \in BOOLEAN : Commit(Result(OnOpen(Host, free, resource), Host, free, short))
      /\ now' = now
  BY <1>p DEF OpenSession
<1>2. free \in Sessions
  BY <1>1, <1>p, NumberIsFree
<1>3. PICK short \in BOOLEAN : Commit(Result(OnOpen(Host, free, resource), Host, free, short))
  BY <1>1
<1>4. After(Result(OnOpen(Host, free, resource), Host, free, short), free)
  BY OpenAfter DEF ToldInv, ClocksTyped
<1>5. table'[free] \in Entries /\ \A m \in Sessions \ {free} : table'[m] = table[m]
  <2>1. [slot |-> s, resource |-> resource, closing |-> FALSE] \in Entries
    BY DEF Entries
  <2> QED BY <1>1, <1>2, <2>1 DEF TableTyped
<1> QED BY <1>1, <1>2, <1>3, <1>4, <1>5, CommitTells

(* A command of the user is sent on an open session and is not the time.    *)
LEMMA CommandTells ==
    ASSUME TableTyped, ToldInv, NEW n \in Open, NEW tag \in Bytes, Len(tag) = 3, tag # DateTime,
           NEW body \in Bytes, Len(body) \in U16, Commands(n, tag, body)
    PROVE  ToldInv'
<1>1. After(Sends(Host, n, tag, body), n)
  BY CommandAfter
<1>2. Commit(Sends(Host, n, tag, body)) /\ table' = table /\ now' = now
  BY DEF Commands
<1>3. n \in Sessions /\ table'[n] \in Entries
  BY <1>2, OpenEntry
<1> QED BY <1>1, <1>2, <1>3, CommitTells

(* A module's objects: whatever they are, what comes of them is told.       *)
LEMMA DispatchTells ==
    ASSUME TableTyped, ToldInv, NEW n \in Open, NEW items \in Seq(Objects \cup {Malformed}),
           NEW short, Commit(DispatchApdu(Host, n, items, short)), now' = now,
           TableTyped', table' = table \/ table' = [table EXCEPT ![n].closing = TRUE]
    PROVE  ToldInv'
<1>1. n \in Sessions /\ table[n] \in Entries /\ table[n].resource \in Names
  BY OpenEntry
<1>2. After(DispatchApdu(Host, n, items, short), n)
  BY <1>1, DispatchAfter DEF ToldInv, ClocksTyped
<1>3. table'[n] \in Entries /\ \A m \in Sessions \ {n} : table'[m] = table[m]
  <2>1. [table[n] EXCEPT !.closing = TRUE] \in Entries
    BY <1>1 DEF Entries
  <2>2. [table EXCEPT ![n].closing = TRUE][n] = [table[n] EXCEPT !.closing = TRUE]
    BY <1>1 DEF TableTyped
  <2>3. \A m \in Sessions \ {n} : [table EXCEPT ![n].closing = TRUE][m] = table[m]
    BY DEF TableTyped
  <2> QED BY <1>1, <2>1, <2>2, <2>3
<1> QED BY <1>1, <1>2, <1>3, CommitTells

-----------------------------------------------------------------------------
(* The steps of Next, and the two properties.                               *)

(* Objects of a module keep the clocks and what was told of them in step.   *)
LEMMA WritesTell ==
    ASSUME ArriveInv, ToldInv, NEW n \in Sessions, Writes(n), UNCHANGED interest
    PROVE  ToldInv'
<1>1. TableTyped /\ TableTyped'
  BY WritesArrive DEF ArriveInv
<1>2. n \in Open /\ \E apdus, cut, damage, short, got, h :
         /\ Fits(apdus) /\ got = Readable(apdus, cut, damage)
         /\ Writing(n, apdus, cut, damage, short, got, h)
  BY <1>1, WritesUnfold
<1>3. PICK apdus, cut, damage, short, got, h :
         /\ Fits(apdus) /\ got = Readable(apdus, cut, damage)
         /\ Writing(n, apdus, cut, damage, short, got, h)
  BY <1>2
<1>4. got \in Seq(Objects \cup {Malformed})
  BY <1>3, ReadableItems DEF Fits
<1>5. /\ Commit(DispatchApdu(Host, n, got, short)) /\ now' = now
      /\ table' = table \/ table' = [table EXCEPT ![n].closing = TRUE]
  BY <1>3, Zenon DEF Writing
<1> QED BY <1>1, <1>2, <1>4, <1>5, DispatchTells

(* So do the parts of a dialogue.                                           *)
LEMMA SpeaksTell ==
    ASSUME ArriveInv, ToldInv, NEW n \in Sessions, Speaks(n), UNCHANGED interest
    PROVE  ToldInv'
<1>1. TableTyped /\ SpeakingTyped /\ TableTyped'
  BY SpeaksArrive DEF ArriveInv
<1>2. n \in Open /\ \E d \in BegunOn(n), k \in Chunks, damage \in {0, 1} :
         \E got, h :
            /\ Fits(<< PartOf(d, k) >>) /\ got = Readable(<< PartOf(d, k) >>, 0, damage)
            /\ Spoken(n, d, k, damage, got, h)
  BY <1>1, SpeaksUnfold
<1>3. PICK d \in BegunOn(n), k \in Chunks, damage \in {0, 1} :
         \E got, h :
            /\ Fits(<< PartOf(d, k) >>) /\ got = Readable(<< PartOf(d, k) >>, 0, damage)
            /\ Spoken(n, d, k, damage, got, h)
  BY <1>2
<1>4. PICK got, h :
            /\ Fits(<< PartOf(d, k) >>) /\ got = Readable(<< PartOf(d, k) >>, 0, damage)
            /\ Spoken(n, d, k, damage, got, h)
  BY <1>3
<1>5. got \in Seq(Objects \cup {Malformed})
  BY <1>4, ReadableItems DEF Fits
<1>6. Commit(DispatchApdu(Host, n, got, 0)) /\ now' = now /\ table' = table
  BY <1>4, Zenon DEF Spoken
<1> QED BY <1>1, <1>2, <1>5, <1>6, DispatchTells

(* src/src/ca/controller.rs:561-584: the commands of the application.       *)
LEMMA CommandTags ==
    \A tag \in {EnterMenu, AskRelease, MenuAnsw, Answ, CloseMmi} :
        tag \in Bytes /\ Len(tag) = 3 /\ tag # DateTime
<1>1. ASSUME NEW a, NEW b, << a, b >> \in {<< 128, 34 >>, << 132, 3 >>, << 136, 11 >>,
                                           << 136, 8 >>, << 136, 0 >>}
      PROVE  Tag(a, b) \in Bytes /\ Len(Tag(a, b)) = 3 /\ Tag(a, b) # DateTime
  BY <1>1 DEF DateTime, Tag, Bytes
<1>2. /\ EnterMenu = Tag(128, 34) /\ AskRelease = Tag(132, 3) /\ MenuAnsw = Tag(136, 11)
      /\ Answ = Tag(136, 8) /\ CloseMmi = Tag(136, 0)
  BY DEF EnterMenu, AskRelease, MenuAnsw, Answ, CloseMmi
<1> QED BY <1>1, <1>2

(* An empty body has a length to tell.                                      *)
LEMMA EmptyIsBytes == <<>> \in Bytes /\ Len(<<>>) \in U16
<1>1. Len(<<>>) = 0 /\ 0 \in 0 .. 24 /\ <<>> \in Bytes
  BY DEF Bytes
<1> QED BY <1>1, SmallSizes

(* The answers of the user are objects with a length to tell.               *)
LEMMA AnswersAreObjects ==
    \A apdu \in MmiAnswers : /\ apdu.tag \in {MenuAnsw, Answ, CloseMmi}
                             /\ apdu.body \in Bytes /\ Len(apdu.body) \in U16
<1> SUFFICES ASSUME NEW apdu \in MmiAnswers
             PROVE  /\ apdu.tag \in {MenuAnsw, Answ, CloseMmi}
                    /\ apdu.body \in Bytes /\ Len(apdu.body) \in U16
  OBVIOUS
<1>1. \A k \in {0, 2} : << k >> \in Bytes /\ Len(<< k >>) \in U16
  <2>1. \A k \in {0, 2} : << k >> \in Bytes /\ Len(<< k >>) = 1
    BY DEF Bytes
  <2>2. 1 \in 0 .. 24
    OBVIOUS
  <2> QED BY <2>1, <2>2, SmallSizes
<1>2. CASE apdu \in {Apdu(MenuAnsw, << choice >>) : choice \in {0, 2}}
  <2>1. PICK choice \in {0, 2} : apdu = Apdu(MenuAnsw, << choice >>)
    BY <1>2
  <2> QED BY <1>1, <2>1 DEF Apdu
<1>3. CASE apdu \in {Apdu(Answ, BuildAnsw(text)) : text \in Answers}
  <2>1. PICK text \in Answers : apdu = Apdu(Answ, BuildAnsw(text))
    BY <1>3
  <2>2. text \in Seq(Nat) /\ Len(BuildAnsw(text)) \in U16
    BY AnswersAssumption
  <2>3. BuildAnsw(text) \in Bytes
    <3>1. << 1 >> \in Seq(Nat)
      OBVIOUS
    <3> QED BY <2>2, <3>1, ConcatProperties DEF BuildAnsw, Bytes
  <2> QED BY <2>1, <2>2, <2>3 DEF Apdu
<1>4. CASE apdu \in {Apdu(Answ, CancelAnsw), Apdu(CloseMmi, BuildClose)}
  <2>1. CancelAnsw = << 0 >> /\ BuildClose = << 0 >>
    BY DEF CancelAnsw, BuildClose
  <2>p. PICK zero : zero = << 0 >>
    OBVIOUS
  <2>2. zero \in Bytes /\ Len(zero) \in U16
    BY <1>1, <2>p
  <2>3. apdu = Apdu(Answ, zero) \/ apdu = Apdu(CloseMmi, zero)
    BY <1>4, <2>1, <2>p
  <2> QED BY <2>2, <2>3 DEF Apdu
<1> QED BY <1>2, <1>3, <1>4 DEF MmiAnswers

(* Every command of the user keeps the clocks and what was told in step.    *)
LEMMA CommandsTell ==
    ASSUME TableTyped, ToldInv
    PROVE  /\ \A s \in 0 .. Slots - 1 : EnterMenuOf(s) \/ ReleaseHost(s) => ToldInv'
           /\ \A n \in Sessions : MmiCommand(n) => ToldInv'
<1>1. ASSUME NEW s \in 0 .. Slots - 1, EnterMenuOf(s) PROVE ToldInv'
  <2>1. MenuSession(s) # None /\ Commands(MenuSession(s), EnterMenu, <<>>)
    BY <1>1 DEF EnterMenuOf
  <2>2. MenuSession(s) \in Open
    BY <2>1, MenuIsOpen DEF Active
  <2> QED BY <2>1, <2>2, CommandTags, EmptyIsBytes, CommandTells
<1>2. ASSUME NEW s \in 0 .. Slots - 1, ReleaseHost(s) PROVE ToldInv'
  <2>1. /\ FindSession(s, "HostControl") # None
        /\ Commands(FindSession(s, "HostControl"), AskRelease, <<>>)
    BY <1>2 DEF ReleaseHost
  <2>2. FindSession(s, "HostControl") \in Open
    BY <2>1, FoundIsOpen DEF Active
  <2> QED BY <2>1, <2>2, CommandTags, EmptyIsBytes, CommandTells
<1>3. ASSUME NEW n \in Sessions, MmiCommand(n) PROVE ToldInv'
  <2>1. n \in Open
    BY <1>3 DEF MmiCommand, Active
  <2>2. PICK apdu \in MmiAnswers : Commands(n, apdu.tag, apdu.body)
    BY <1>3 DEF MmiCommand
  <2>3. apdu.tag \in {MenuAnsw, Answ, CloseMmi} /\ apdu.body \in Bytes /\ Len(apdu.body) \in U16
    BY AnswersAreObjects
  <2>p. PICK tag, body : tag = apdu.tag /\ body = apdu.body
    OBVIOUS
  <2>4. tag \in Bytes /\ Len(tag) = 3 /\ tag # DateTime
    BY <2>3, <2>p, CommandTags
  <2> QED BY <2>1, <2>2, <2>3, <2>4, <2>p, CommandTells
<1> QED BY <1>1, <1>2, <1>3

(* Every step keeps the clocks and what was told in step.                   *)
LEMMA ToldSteps == ArriveInv /\ ToldInv /\ [Next]_vars => ToldInv'
<1> SUFFICES ASSUME ArriveInv, ToldInv, [Next]_vars PROVE ToldInv'
  OBVIOUS
<1>t. TableTyped /\ interest \in Interests
  BY DEF ArriveInv
<1>1. CASE UNCHANGED vars
  BY <1>1 DEF vars, hostVars, ToldInv, ClocksTyped, ClockAgrees, OutTold, GapsTold
<1>2. CASE Next
  <2>u. UNCHANGED interest
    BY <1>2 DEF Next
  <2>1. ASSUME NEW i \in interest, OpenSession(i[1], i[2]) PROVE ToldInv'
    <3>1. i \in (0 .. Slots - 1) \X Names
      BY <1>t, SlotsAssumption
    <3> QED BY <1>t, <2>1, <3>1, OpenTells
  <2>2. ASSUME NEW n \in Sessions, CloseSession(n) PROVE ToldInv'
    BY <2>2, EndsTell DEF CloseSession
  <2>3. ASSUME NEW s \in 0 .. Slots - 1, DropSlot(s) PROVE ToldInv'
    BY <2>3, EndsTell DEF DropSlot
  <2>4. CASE LinkFails
    BY <2>4, EndsTell DEF LinkFails
  <2>5. ASSUME NEW n \in Sessions, Writes(n) PROVE ToldInv'
    BY <2>5, <2>u, WritesTell
  <2>6. ASSUME NEW n \in Sessions, Speaks(n) PROVE ToldInv'
    BY <2>6, <2>u, SpeaksTell
  <2>7. ASSUME NEW s \in 0 .. Slots - 1, EnterMenuOf(s) \/ ReleaseHost(s) PROVE ToldInv'
    BY <1>t, <2>7, CommandsTell
  <2>8. ASSUME NEW n \in Sessions, MmiCommand(n) PROVE ToldInv'
    BY <1>t, <2>8, CommandsTell
  <2>9. CASE Tick
    BY <1>t, <2>9, TickTells
  <2>10. CASE Wait
    BY <2>10, WaitTells
  <2> QED BY <1>2, <2>1, <2>2, <2>3, <2>4, <2>5, <2>6, <2>7, <2>8, <2>9, <2>10 DEF Next, Step
<1> QED BY <1>1, <1>2

(* src/src/ca/transport.rs:173-211, src/src/ca/tpdu.rs:62-81: every object
   the host sends is in frames a module can take, and is found in them.     *)
LEMMA ToldReadable == ToldInv => RepliesReadable
<1> SUFFICES ASSUME ToldInv, NEW o \in ToSet(out)
             PROVE  Readback(table[o.session].slot, o.session, o.apdu)
  BY Zenon DEF RepliesReadable, Readback
<1>1. o.session \in Sessions /\ table[o.session] \in Entries /\ \E w : o \in Sent(o.session, w)
  BY DEF ToldInv, OutTold
<1>2. table[o.session].slot \in Nat /\ o.session \in U16 /\ o.apdu \in Objects
  BY <1>1, SlotsAssumption DEF Entries, Sent
<1> QED BY <1>2, AnswerReadable

(* Every object the host sends is cut into frames a module can take, that   *)
(* together are the object on its session: for every limit of a frame,      *)
(* every base and every length.                                             *)
THEOREM RepliesAlwaysReadable == Spec => []RepliesReadable
<1>1. Init => ArriveInv /\ ToldInv
  BY ArriveStarts, ToldStarts
<1>2. ArriveInv /\ ToldInv /\ [Next]_vars => ArriveInv' /\ ToldInv'
  BY ArriveSteps, ToldSteps
<1>3. ToldInv => RepliesReadable
  BY ToldReadable
<1> QED BY <1>1, <1>2, <1>3, PTL DEF Spec

(* src/src/ca/resource/date_time.rs:41-63: the day and the time of the day
   can be read from what a module is told.                                  *)
LEMMA TimeReadsBack ==
    ASSUME NEW w \in Times
    PROVE  Reads(DateTimeBody(w)) = w
<1>p. PICK day, second : day = w.days /\ second = w.seconds
  OBVIOUS
<1>1. day \in Nat /\ second \in Nat /\ ~(40587 + day > 65535) /\ second < 86400
  BY <1>p, TimeFields
<1>2. ASSUME NEW v \in Nat, v < 100 PROVE FromBcd(Bcd(v)) = v
  <2>1. /\ v \div 10 \in Nat /\ v % 10 \in 0 .. 9 /\ v = 10 * (v \div 10) + (v % 10)
    OBVIOUS
  <2>p. PICK a, b : a = v \div 10 /\ b = v % 10
    OBVIOUS
  <2>2. a \in Nat /\ b \in 0 .. 9 /\ v = 10 * a + b
    BY <2>1, <2>p
  <2>3. (16 * a + b) \div 16 = a /\ (16 * a + b) % 16 = b
    BY <2>2
  <2> QED BY <2>2, <2>3, <2>p DEF FromBcd, Bcd
<1>q. PICK a, b, c, d, e : /\ a = (40587 + day) \div 256 /\ b = (40587 + day) % 256
                           /\ c = second \div 3600 /\ d = (second \div 60) % 60
                           /\ e = second % 60
  OBVIOUS
<1>3. /\ a \in Nat /\ b \in Nat /\ c \in Nat /\ d \in Nat /\ e \in Nat
      /\ c < 100 /\ d < 100 /\ e < 100
      /\ 256 * a + b - 40587 = day
      /\ 3600 * c + 60 * d + e = second
  <2>1. /\ a \in Nat /\ b \in Nat /\ 256 * a + b = 40587 + day
    BY <1>1, <1>q
  <2>2. /\ c \in Nat /\ d \in 0 .. 59 /\ e \in 0 .. 59 /\ c < 24
        /\ 3600 * c + 60 * d + e = second
    BY <1>1, <1>q
  <2> QED BY <1>1, <2>1, <2>2
<1>4. DateTimeBody(w) = << a, b, Bcd(c), Bcd(d), Bcd(e) >>
  BY <1>1, <1>p, <1>q DEF DateTimeBody, MjdUnixEpoch, LastMjd
<1>5. FromBcd(Bcd(c)) = c /\ FromBcd(Bcd(d)) = d /\ FromBcd(Bcd(e)) = e
  BY <1>2, <1>3
<1>6. Reads(DateTimeBody(w)) = [days |-> 256 * a + b - 40587,
                                seconds |-> 3600 * c + 60 * d + e]
  BY <1>4, <1>5 DEF Reads, MjdUnixEpoch
<1>7. w = [days |-> day, seconds |-> second]
  BY <1>p DEF Times
<1> QED BY <1>3, <1>6, <1>7

(* src/src/ca/resource/date_time.rs: a module that asked for the time every
   so often is not told sooner than it asked, after a tick nothing is overdue,
   and what it is told is the time.                                         *)
THEOREM TimeIsAlwaysTold == Spec => []TimeIsTold
<1>1. Init => ArriveInv /\ ToldInv
  BY ArriveStarts, ToldStarts
<1>2. ArriveInv /\ ToldInv /\ [Next]_vars => ArriveInv' /\ ToldInv'
  BY ArriveSteps, ToldSteps
<1>3. ToldInv => TimeIsTold
  <2> SUFFICES ASSUME ToldInv PROVE TimeIsTold
    OBVIOUS
  <2>1. ASSUME NEW o \in ToSet(out), o.apdu.tag = DateTime PROVE Reads(o.apdu.body) = o.wall
    <3>1. PICK w \in Times : o \in Sent(o.session, w)
      BY DEF ToldInv, OutTold
    <3>2. o.apdu.body = DateTimeBody(w) /\ o.wall = w
      BY <2>1, <3>1 DEF Sent
    <3> QED BY <3>2, TimeReadsBack
  <2> QED BY <2>1 DEF ToldInv, GapsTold, TimeIsTold
<1> QED BY <1>1, <1>2, <1>3, PTL DEF Spec

-----------------------------------------------------------------------------
(* InfoFromLatest: what the modules supplied and what their sessions keep.  *)

(***************************************************************************)
(* The latest info is the one asked for.  `apps' is what the Application   *)
(* Information resource keeps, `sup' the infos in the order they came:     *)
(* they agree when the last info of a session is the one kept of it, and   *)
(* any that came later, of another session, has a larger revision.         *)
(***************************************************************************)
Kept == [info : InfoRecords \cup {None}, revision : Nat]
InfoPairs == Sessions \X InfoRecords

KeptTyped(apps, sup) ==
    /\ apps \in [Sessions -> Kept \cup {None}]
    /\ sup \in Seq(InfoPairs \cup {None})

HasInfo(apps, n) == apps[n] # None /\ apps[n].info # None
Live(sup, i, n) == i \in DOMAIN sup /\ sup[i] # None /\ sup[i][1] = n
LastOf(sup, i) == \A j \in DOMAIN sup : Live(sup, j, sup[i][1]) => j <= i

Outdated(apps, sup, i) ==
    \A j \in DOMAIN sup :
        sup[j] # None /\ i < j => apps[sup[i][1]].revision < apps[sup[j][1]].revision

PlaceAgrees(apps, sup, i) ==
    sup[i] # None =>
        /\ HasInfo(apps, sup[i][1])
        /\ LastOf(sup, i) => sup[i][2] = apps[sup[i][1]].info /\ Outdated(apps, sup, i)

Agree(apps, sup) ==
    /\ \A i \in DOMAIN sup : PlaceAgrees(apps, sup, i)
    /\ \A n \in Sessions : HasInfo(apps, n) => \E i \in DOMAIN sup : Live(sup, i, n)

(* A place that is not blank holds a session and its info.                  *)
LEMMA PlaceIsPair ==
    ASSUME NEW sup \in Seq(InfoPairs \cup {None}), NEW i \in DOMAIN sup, sup[i] # None
    PROVE  sup[i] \in InfoPairs /\ sup[i][1] \in Sessions /\ sup[i][2] \in InfoRecords
<1>p. PICK S : S = InfoPairs \cup {None}
  OBVIOUS
<1>1. sup \in Seq(S)
  BY <1>p
<1>2. sup[i] \in S
  BY <1>1
<1>3. sup[i] \in InfoPairs
  BY <1>2, <1>p
<1> QED BY <1>3 DEF InfoPairs

(* The info of an application is not the mark of none.                      *)
LEMMA KeptIsOne ==
    /\ None \notin Kept /\ None \notin InfoRecords /\ None \notin InfoPairs
    /\ \A k \in Kept : k.info \in InfoRecords \cup {None} /\ k.revision \in Nat
BY NoneAssumption DEF Kept, InfoPairs

(* Sessions that go take their places with them, and no other.              *)
LEMMA BlanksAgree ==
    ASSUME NEW apps, NEW sup, KeptTyped(apps, sup), Agree(apps, sup), NEW gone,
           NEW left, left = [n \in Sessions |-> IF n \in gone THEN None ELSE apps[n]],
           NEW rest, rest = [i \in DOMAIN sup |->
                                IF sup[i] # None /\ sup[i][1] \in gone THEN None ELSE sup[i]]
    PROVE  /\ KeptTyped(left, rest) /\ Agree(left, rest)
           /\ DOMAIN rest = DOMAIN sup
           /\ \A i \in DOMAIN rest, n \in gone : ~Live(rest, i, n)
<1>1. /\ DOMAIN rest = DOMAIN sup
      /\ \A i \in DOMAIN sup : rest[i] # None <=> sup[i] # None /\ sup[i][1] \notin gone
      /\ \A i \in DOMAIN sup : rest[i] # None => rest[i] = sup[i]
      /\ \A n \in Sessions \ gone : left[n] = apps[n]
      /\ \A n \in Sessions : n \in gone => left[n] = None
  OBVIOUS
<1>2. KeptTyped(left, rest)
  <2>p. PICK S : S = InfoPairs \cup {None}
    OBVIOUS
  <2>1. sup \in Seq(S) /\ None \in S
    BY <2>p DEF KeptTyped
  <2>2. DOMAIN sup = 1 .. Len(sup) /\ Len(sup) \in Nat
    BY <2>1
  <2>3. \A i \in DOMAIN sup : rest[i] \in S
    <3>1. \A i \in DOMAIN sup : sup[i] \in S
      BY <2>1
    <3> QED BY <2>1, <3>1
  <2>4. rest \in Seq(S)
    <3>1. rest = [i \in 1 .. Len(sup) |-> rest[i]]
      BY <2>2
    <3> QED BY <2>2, <2>3, <3>1
  <2>5. left \in [Sessions -> Kept \cup {None}]
    BY DEF KeptTyped
  <2> QED BY <2>4, <2>5, <2>p DEF KeptTyped
<1>3. \A i \in DOMAIN rest, n \in gone : ~Live(rest, i, n)
  BY <1>1 DEF Live
<1>4. ASSUME NEW i \in DOMAIN sup, NEW n \in Sessions \ gone
      PROVE  Live(rest, i, n) <=> Live(sup, i, n)
  BY <1>1 DEF Live
<1>5. ASSUME NEW i \in DOMAIN rest PROVE PlaceAgrees(left, rest, i)
  <2> SUFFICES ASSUME rest[i] # None PROVE PlaceAgrees(left, rest, i)
    BY DEF PlaceAgrees
  <2>n. PICK n : n = sup[i][1]
    OBVIOUS
  <2>1. i \in DOMAIN sup /\ rest[i] = sup[i] /\ sup[i] # None /\ n \notin gone
    BY <1>1, <2>n
  <2>2. n \in Sessions \ gone /\ left[n] = apps[n]
    BY <1>1, <2>1, <2>n, PlaceIsPair DEF KeptTyped
  <2>3. PlaceAgrees(apps, sup, i)
    BY <2>1 DEF Agree
  <2>4. HasInfo(left, n)
    BY <2>1, <2>2, <2>3, <2>n DEF PlaceAgrees, HasInfo
  <2>5. ASSUME LastOf(rest, i) PROVE rest[i][2] = left[n].info /\ Outdated(left, rest, i)
    <3>1. LastOf(sup, i)
      BY <1>1, <1>4, <2>1, <2>2, <2>5, <2>n DEF LastOf
    <3>2. sup[i][2] = apps[n].info /\ Outdated(apps, sup, i)
      BY <2>1, <2>3, <2>n, <3>1 DEF PlaceAgrees
    <3>3. ASSUME NEW j \in DOMAIN rest, rest[j] # None, i < j
          PROVE  left[rest[i][1]].revision < left[rest[j][1]].revision
      <4>1. j \in DOMAIN sup /\ rest[j] = sup[j] /\ sup[j] # None /\ sup[j][1] \notin gone
        BY <1>1, <3>3
      <4>2. left[sup[j][1]] = apps[sup[j][1]]
        BY <1>1, <4>1, PlaceIsPair DEF KeptTyped
      <4>3. apps[n].revision < apps[sup[j][1]].revision
        BY <2>n, <3>2, <3>3, <4>1 DEF Outdated
      <4> QED BY <2>1, <2>2, <2>n, <4>1, <4>2, <4>3
    <3> QED BY <2>1, <2>2, <3>2, <3>3 DEF Outdated
  <2> QED BY <2>1, <2>4, <2>5, <2>n DEF PlaceAgrees
<1>6. ASSUME NEW n \in Sessions, HasInfo(left, n) PROVE \E i \in DOMAIN rest : Live(rest, i, n)
  <2>1. n \notin gone /\ HasInfo(apps, n)
    BY <1>1, <1>6 DEF HasInfo
  <2>2. PICK i \in DOMAIN sup : Live(sup, i, n)
    BY <2>1 DEF Agree
  <2> QED BY <1>1, <1>4, <2>1, <2>2
<1> QED BY <1>1, <1>2, <1>3, <1>5, <1>6 DEF Agree

(* And a session that introduces itself is the latest, with the last of what
   it supplied.                                                             *)
LEMMA LaterAgree ==
    ASSUME NEW apps, NEW sup, KeptTyped(apps, sup), Agree(apps, sup),
           NEW n \in Sessions, \A i \in DOMAIN sup : ~Live(sup, i, n),
           NEW bound \in Nat,
           \A m \in Sessions : apps[m] # None => apps[m].revision <= bound,
           NEW entry \in Kept, bound < entry.revision,
           NEW new \in Seq(InfoPairs \cup {None}),
           \A i \in DOMAIN new : new[i] # None => new[i][1] = n,
           NEW last \in DOMAIN new, new[last] = << n, entry.info >>, entry.info \in InfoRecords,
           \A i \in DOMAIN new : new[i] # None => i <= last
    PROVE  /\ KeptTyped([apps EXCEPT ![n] = entry], sup \o new)
           /\ Agree([apps EXCEPT ![n] = entry], sup \o new)
<1>p. PICK more, all, len, S : /\ more = [apps EXCEPT ![n] = entry] /\ all = sup \o new
                         /\ len = Len(sup) /\ S = InfoPairs \cup {None}
  OBVIOUS
<1>1. apps \in [Sessions -> Kept \cup {None}] /\ sup \in Seq(S) /\ new \in Seq(S)
  BY <1>p DEF KeptTyped
<1>2. /\ all \in Seq(S) /\ len \in Nat /\ Len(new) \in Nat
      /\ DOMAIN sup = 1 .. len /\ DOMAIN new = 1 .. Len(new) /\ DOMAIN all = 1 .. len + Len(new)
      /\ \A i \in 1 .. len : all[i] = sup[i]
      /\ \A i \in len + 1 .. len + Len(new) : all[i] = new[i - len]
  BY <1>1, <1>p, ConcatProperties
<1>3. more \in [Sessions -> Kept \cup {None}] /\ more[n] = entry
      /\ \A m \in Sessions \ {n} : more[m] = apps[m]
  BY <1>1, <1>p
<1>4. KeptTyped(more, all)
  BY <1>2, <1>3, <1>p DEF KeptTyped
<1>5. ASSUME NEW i \in 1 .. len, all[i] # None
      PROVE  /\ i \in DOMAIN sup /\ sup[i] # None /\ all[i] = sup[i]
             /\ sup[i][1] \in Sessions \ {n} /\ more[sup[i][1]] = apps[sup[i][1]]
  <2>1. i \in DOMAIN sup /\ all[i] = sup[i] /\ sup[i] # None
    BY <1>2, <1>5
  <2>2. sup[i][1] # n
    BY <2>1 DEF Live
  <2>3. sup[i][1] \in Sessions
    BY <1>1, <1>p, <2>1, PlaceIsPair
  <2> QED BY <1>3, <2>1, <2>2, <2>3
<1>6. ASSUME NEW i \in len + 1 .. len + Len(new), all[i] # None
      PROVE  i <= len + last /\ all[i][1] = n
  <2>1. i - len \in DOMAIN new /\ all[i] = new[i - len]
    BY <1>2
  <2>2. i - len <= last /\ all[i][1] = n
    BY <1>6, <2>1
  <2> QED BY <1>2, <2>2
<1>7. /\ len + last \in len + 1 .. len + Len(new) /\ all[len + last] = << n, entry.info >>
      /\ all[len + last] # None
  <2>1. last \in 1 .. Len(new)
    BY <1>2
  <2>2. len + last \in len + 1 .. len + Len(new) /\ len + last - len = last
    BY <1>2, <2>1
  <2>3. << n, entry.info >> \in InfoPairs
    BY DEF InfoPairs
  <2>q. PICK pair : pair = << n, entry.info >>
    OBVIOUS
  <2>4. pair # None
    BY <2>3, <2>q, KeptIsOne
  <2>5. all[len + last] = pair
    BY <1>2, <2>2, <2>q
  <2> QED BY <2>2, <2>4, <2>5, <2>q
<1>8. entry # None /\ entry.info # None /\ entry.revision \in Nat
  BY KeptIsOne
<1>9. ASSUME NEW i \in DOMAIN all PROVE PlaceAgrees(more, all, i)
  <2> SUFFICES ASSUME all[i] # None PROVE PlaceAgrees(more, all, i)
    BY DEF PlaceAgrees
  <2>1. CASE i \in 1 .. len
    <3>m. PICK m : m = sup[i][1]
      OBVIOUS
    <3>1. /\ i \in DOMAIN sup /\ sup[i] # None /\ all[i] = sup[i]
          /\ m \in Sessions \ {n} /\ more[m] = apps[m]
      BY <1>5, <2>1, <3>m
    <3>2. PlaceAgrees(apps, sup, i)
      BY <3>1 DEF Agree
    <3>3. HasInfo(apps, m) /\ HasInfo(more, m)
      BY <3>1, <3>2, <3>m DEF PlaceAgrees, HasInfo
    <3>4. ASSUME LastOf(all, i) PROVE all[i][2] = more[m].info /\ Outdated(more, all, i)
      <4>1. LastOf(sup, i)
        <5> SUFFICES ASSUME NEW j \in DOMAIN sup, Live(sup, j, m) PROVE j <= i
          BY <3>m DEF LastOf
        <5>1. j \in DOMAIN all /\ all[j] = sup[j]
          BY <1>2
        <5>2. Live(all, j, m)
          BY <5>1 DEF Live
        <5> QED BY <3>1, <3>4, <3>m, <5>1, <5>2 DEF LastOf
      <4>2. sup[i][2] = apps[m].info /\ Outdated(apps, sup, i)
        BY <3>1, <3>2, <3>m, <4>1 DEF PlaceAgrees
      <4>3. ASSUME NEW j \in DOMAIN all, all[j] # None, i < j
            PROVE  more[m].revision < more[all[j][1]].revision
        <5>1. CASE j \in 1 .. len
          <6>1. /\ j \in DOMAIN sup /\ sup[j] # None /\ all[j] = sup[j]
                /\ more[sup[j][1]] = apps[sup[j][1]]
            BY <1>5, <4>3, <5>1
          <6> QED BY <3>1, <3>m, <4>2, <4>3, <6>1 DEF Outdated
        <5>2. CASE j \in len + 1 .. len + Len(new)
          <6>1. more[all[j][1]] = entry
            BY <1>3, <1>6, <4>3, <5>2
          <6>2. apps[m] \in Kept /\ apps[m].revision <= bound
            BY <1>1, <3>1, <3>3 DEF HasInfo
          <6>3. apps[m].revision \in Nat
            BY <6>2, KeptIsOne
          <6> QED BY <1>8, <3>1, <6>1, <6>2, <6>3
        <5> QED BY <1>2, <5>1, <5>2
      <4> QED BY <3>1, <3>m, <4>2, <4>3 DEF Outdated
    <3> QED BY <3>1, <3>3, <3>4, <3>m DEF PlaceAgrees
  <2>2. CASE i \in len + 1 .. len + Len(new)
    <3>1. i <= len + last /\ all[i][1] = n
      BY <1>6, <2>2
    <3>2. HasInfo(more, n)
      BY <1>3, <1>8 DEF HasInfo
    <3>3. ASSUME LastOf(all, i) PROVE all[i][2] = more[n].info /\ Outdated(more, all, i)
      <4>1. Live(all, len + last, n)
        <5>1. len + last \in DOMAIN all
          BY <1>2, <1>7
        <5>2. all[len + last][1] = n
          BY <1>7
        <5> QED BY <1>7, <5>1, <5>2 DEF Live
      <4>2. len + last <= i
        BY <3>1, <3>3, <4>1 DEF LastOf, Live
      <4>3. i = len + last
        BY <1>2, <1>7, <2>2, <3>1, <4>2
      <4>4. ASSUME NEW j \in DOMAIN all, all[j] # None, i < j PROVE FALSE
        <5>1. j \in len + 1 .. len + Len(new)
          BY <1>2, <2>2, <4>4
        <5>2. j <= len + last
          BY <1>6, <4>4, <5>1
        <5> QED BY <1>2, <1>7, <4>3, <4>4, <5>1, <5>2
      <4> QED BY <1>3, <1>7, <4>3, <4>4 DEF Outdated
    <3> QED BY <3>1, <3>2, <3>3 DEF PlaceAgrees
  <2> QED BY <1>2, <2>1, <2>2
<1>10. ASSUME NEW m \in Sessions, HasInfo(more, m) PROVE \E i \in DOMAIN all : Live(all, i, m)
  <2>1. CASE m = n
    <3>1. len + last \in DOMAIN all /\ all[len + last][1] = n
      BY <1>2, <1>7
    <3>2. Live(all, len + last, m)
      BY <1>7, <2>1, <3>1 DEF Live
    <3> QED BY <3>1, <3>2
  <2>2. CASE m # n
    <3>1. HasInfo(apps, m)
      BY <1>3, <1>10, <2>2 DEF HasInfo
    <3>2. PICK i \in DOMAIN sup : Live(sup, i, m)
      BY <3>1 DEF Agree
    <3>3. i \in DOMAIN all /\ all[i] = sup[i]
      BY <1>2
    <3>4. Live(all, i, m)
      BY <3>2, <3>3 DEF Live
    <3> QED BY <3>3, <3>4
  <2> QED BY <2>1, <2>2
<1>11. Agree(more, all)
  BY <1>9, <1>10 DEF Agree
<1> QED BY <1>4, <1>11, <1>p

(***************************************************************************)
(* What the host knows of the infos after some objects of a frame.         *)
(***************************************************************************)
Sequence(q) == \E S : q \in Seq(S)

Untaken(y) ==
    /\ y.applications = applications /\ y.revision = revision
    /\ \A i \in 1 .. Len(y.events) : ~IsInfo(y.events[i])

(* `last' is the place of the last info among the events.                   *)
TakenUpTo(y, n, last, info) ==
    /\ last \in 1 .. Len(y.events) /\ info \in InfoRecords
    /\ IsInfo(y.events[last]) /\ y.events[last].what = info
    /\ \A i \in 1 .. Len(y.events) :
          IsInfo(y.events[i]) =>
              /\ i <= last
              /\ y.events[i].session = n /\ y.events[i].what \in InfoRecords
    /\ y.revision \in Nat /\ revision < y.revision
    /\ applications[n] # None
    /\ y.applications = [applications EXCEPT ![n] = [info |-> info, revision |-> y.revision]]

TookInfos(y, n) == \E last, info : TakenUpTo(y, n, last, info)

InfoAfter(y, n, resource) ==
    /\ IsHost(y) /\ y.wall = Walls[now]
    /\ Sequence(y.events)
    /\ y.out \in Seq(Replies(n, Walls[now]))
    /\ Untaken(y) \/ (resource = "ApplicationInfo" /\ TookInfos(y, n))

(* An event more stands behind the others.                                  *)
LEMMA AppendedEvents ==
    ASSUME NEW q, Sequence(q), NEW e
    PROVE  LET r == Append(q, e)
           IN  /\ Sequence(r) /\ Len(q) \in Nat /\ Len(r) = Len(q) + 1 /\ r[Len(q) + 1] = e
               /\ \A i \in 1 .. Len(q) : r[i] = q[i]
<1>1. PICK S : q \in Seq(S)
  BY DEF Sequence
<1>p. PICK T : T = S \cup {e}
  OBVIOUS
<1>2. q \in Seq(T) /\ e \in T
  BY <1>1, <1>p
<1>r. PICK r : r = Append(q, e)
  OBVIOUS
<1>3. r \in Seq(T) /\ Len(r) = Len(q) + 1 /\ r[Len(q) + 1] = e /\ Len(q) \in Nat
      /\ \A i \in 1 .. Len(q) : r[i] = q[i]
  BY <1>2, <1>r, AppendProperties
<1> QED BY <1>3, <1>r DEF Sequence

(* One object handled: the infos that came with it are the ones the session *)
(* keeps, the last of them with the latest revision.                        *)
LEMMA HandlesInfos ==
    ASSUME revision \in Nat, applications \in [Sessions -> Kept \cup {None}], NEW n \in Sessions,
           NEW resource,
           NEW x, InfoAfter(x, n, resource), NEW y, Handles(x, y, n, resource)
    PROVE  InfoAfter(y, n, resource)
<1>p. PICK S : S = Replies(n, Walls[now])
  OBVIOUS
<1>1. /\ IsHost(y) /\ y.wall = Walls[now] /\ x.wall = Walls[now]
      /\ Sequence(x.events) /\ x.out \in Seq(S)
      /\ Untaken(x) \/ (resource = "ApplicationInfo" /\ TookInfos(x, n))
  BY <1>p DEF InfoAfter, Handles
<1>2. y.out \in Seq(S)
  <2>1. CASE Replied(x, y, n)
    <3>1. PICK o \in S : y.out = Append(x.out, o)
      BY <1>1, <1>p, <2>1 DEF Replied
    <3> QED BY <1>1, <3>1, AppendProperties
  <2>2. CASE y.out = x.out
    BY <1>1, <2>2
  <2> QED BY <2>1, <2>2 DEF Handles, Silent, Spared
<1>3. CASE SameInfos(x, y) /\ Untold(x, y)
  <2>1. CASE y.events = x.events
    <3>1. Untaken(x) => Untaken(y)
      BY <1>3, <2>1 DEF SameInfos, Untaken
    <3>2. TookInfos(x, n) => TookInfos(y, n)
      <4>1. ASSUME NEW last, NEW info, TakenUpTo(x, n, last, info)
            PROVE  TakenUpTo(y, n, last, info)
        BY <1>3, <2>1, <4>1, Zenon DEF SameInfos, TakenUpTo
      <4> QED BY <4>1 DEF TookInfos
    <3> QED BY <1>1, <1>2, <1>p, <2>1, <3>1, <3>2 DEF InfoAfter
  <2>2. CASE \E e : ~IsInfo(e) /\ y.events = Append(x.events, e)
    <3>1. PICK e : ~IsInfo(e) /\ y.events = Append(x.events, e)
      BY <2>2
    <3>p. PICK q, r, k : q = x.events /\ r = y.events /\ k = Len(q)
      OBVIOUS
    <3>2. /\ Sequence(r) /\ k \in Nat /\ Len(r) = k + 1 /\ r[k + 1] = e
          /\ \A i \in 1 .. k : r[i] = q[i]
      BY <1>1, <3>1, <3>p, AppendedEvents
    <3>3. \A i \in 1 .. Len(r) : i \in 1 .. k \/ i = k + 1
      BY <3>2
    <3>4. Untaken(x) => Untaken(y)
      BY <1>3, <3>1, <3>2, <3>3, <3>p DEF Untaken, SameInfos
    <3>5. TookInfos(x, n) => TookInfos(y, n)
      <4> SUFFICES ASSUME NEW last, NEW info, TakenUpTo(x, n, last, info)
                   PROVE  TakenUpTo(y, n, last, info)
        BY DEF TookInfos
      <4>1. last \in 1 .. k /\ last \in 1 .. Len(r)
        BY <3>2, <3>p DEF TakenUpTo
      <4>2. ASSUME NEW i \in 1 .. Len(r), IsInfo(r[i])
            PROVE  i <= last /\ r[i].session = n /\ r[i].what \in InfoRecords
        <5>1. i \in 1 .. k /\ r[i] = q[i]
          BY <3>1, <3>2, <3>3, <4>2
        <5> QED BY <3>p, <4>2, <5>1 DEF TakenUpTo
      <4>3. r[last] = q[last]
        BY <3>2, <4>1
      <4> QED BY <1>3, <3>p, <4>1, <4>2, <4>3 DEF TakenUpTo, SameInfos
    <3> QED BY <1>1, <1>2, <1>p, <3>2, <3>4, <3>5, <3>p DEF InfoAfter
  <2> QED BY <1>3, <2>1, <2>2 DEF Untold
<1>4. CASE resource = "ApplicationInfo" /\ Taken(x, y, n)
  <2>1. PICK info \in InfoRecords :
          /\ x.applications[n] # None
          /\ y.revision = x.revision + 1
          /\ y.applications = [x.applications EXCEPT ![n] =
                                  [info |-> info, revision |-> x.revision + 1]]
          /\ y.events = Append(x.events, Event("ApplicationInfo", n, info))
    BY <1>4 DEF Taken
  <2>p. PICK q, r, k, e : /\ q = x.events /\ r = y.events /\ k = Len(q)
                          /\ e = Event("ApplicationInfo", n, info)
    OBVIOUS
  <2>2. /\ Sequence(r) /\ k \in Nat /\ Len(r) = k + 1 /\ r[k + 1] = e
        /\ \A i \in 1 .. k : r[i] = q[i]
    BY <1>1, <2>1, <2>p, AppendedEvents
  <2>3. IsInfo(e) /\ e.session = n /\ e.what = info
    BY <2>p DEF IsInfo, Event
  <2>4. ASSUME NEW i \in 1 .. k, IsInfo(q[i])
        PROVE  q[i].session = n /\ q[i].what \in InfoRecords
    <3>1. CASE Untaken(x)
      BY <2>4, <2>p, <3>1 DEF Untaken
    <3>2. CASE TookInfos(x, n)
      BY <2>4, <2>p, <3>2 DEF TookInfos, TakenUpTo
    <3> QED BY <1>1, <3>1, <3>2
  <2>5. /\ x.revision \in Nat /\ revision <= x.revision /\ applications[n] # None
        /\ \A c : [x.applications EXCEPT ![n] = c] = [applications EXCEPT ![n] = c]
    <3>1. CASE Untaken(x)
      BY <2>1, <3>1 DEF Untaken
    <3>2. CASE TookInfos(x, n)
      BY <3>2 DEF TookInfos, TakenUpTo
    <3> QED BY <1>1, <3>1, <3>2
  <2>6. ASSUME NEW i \in 1 .. Len(r), IsInfo(r[i])
        PROVE  i <= k + 1 /\ r[i].session = n /\ r[i].what \in InfoRecords
    <3>1. CASE i \in 1 .. k
      <4>1. r[i] = q[i] /\ i <= k + 1
        BY <2>2, <3>1
      <4> QED BY <2>4, <2>6, <3>1, <4>1
    <3>2. CASE i = k + 1
      BY <2>2, <2>3, <3>2
    <3> QED BY <2>2, <3>1, <3>2
  <2>7. k + 1 \in 1 .. Len(r) /\ y.revision \in Nat /\ revision < y.revision
    BY <2>1, <2>2, <2>5
  <2>8. y.applications = [applications EXCEPT ![n] = [info |-> info, revision |-> y.revision]]
    BY <2>1, <2>5
  <2>9. TakenUpTo(y, n, k + 1, info)
    BY <2>2, <2>3, <2>5, <2>6, <2>7, <2>8, <2>p DEF TakenUpTo
  <2>10. TookInfos(y, n)
    BY <2>9 DEF TookInfos
  <2> QED BY <1>1, <1>2, <1>4, <1>p, <2>10, <2>2, <2>p DEF InfoAfter
<1> QED BY <1>3, <1>4 DEF Handles, Silent, Replied, Spared, Untold

(* Before the first object no info came with this step.                     *)
LEMMA HostHasInfos ==
    ASSUME NEW n, NEW resource
    PROVE  InfoAfter(Host, n, resource)
<1>1. /\ Host.out = <<>> /\ Host.events = <<>> /\ Host.wall = Walls[now]
      /\ Host.applications = applications /\ Host.revision = revision
  BY DEF Host
<1>2. IsHost(Host)
  BY DEF Host, IsHost
<1>3. <<>> \in Seq({}) /\ <<>> \in Seq(Replies(n, Walls[now])) /\ Len(<<>>) = 0
  OBVIOUS
<1>4. Sequence(Host.events)
  BY <1>1, <1>3 DEF Sequence
<1>5. Untaken(Host)
  BY <1>1, <1>3 DEF Untaken
<1> QED BY <1>1, <1>2, <1>3, <1>4, <1>5 DEF InfoAfter

(* The application in the module does not close its session.                *)
LEMMA InfoKeepsOpen ==
    ASSUME NEW x, IsHost(x), ~x.close, NEW n, table[n].resource = "ApplicationInfo",
           NEW item, NEW short
    PROVE  LET y == Handle(x, n, item, short) IN IsHost(y) /\ ~y.close
<1>1. ASSUME NEW z, IsHost(z), ~z.close PROVE IsHost(Bad(z, n)) /\ ~Bad(z, n).close
  BY <1>1 DEF Bad, IsHost
<1>p. PICK y, info : y = OnApdu(x, n, item) /\ info = ParseApplicationInfo(item.body)
  OBVIOUS
<1>2. IsHost(y) /\ ~y.close
  <2>1. y = ApplicationInfoOnApdu(x, n, item)
    BY <1>p DEF OnApdu
  <2>z. PICK z : z = [x EXCEPT !.revision = @ + 1,
                               !.applications[n] = [info |-> info, revision |-> x.revision + 1]]
    OBVIOUS
  <2>2. IsHost(z) /\ ~z.close
    BY <2>z DEF IsHost
  <2>3. y = Bad(x, n) \/ y = Tells(z, "ApplicationInfo", n, info)
    BY <1>p, <2>1, <2>z DEF ApplicationInfoOnApdu
  <2>t. PICK more : more = Append(z.events, Event("ApplicationInfo", n, info))
    OBVIOUS
  <2>4. Tells(z, "ApplicationInfo", n, info) = [z EXCEPT !.events = more]
    BY <2>t DEF Tells
  <2>5. IsHost([z EXCEPT !.events = more]) /\ ~[z EXCEPT !.events = more].close
    BY <2>2 DEF IsHost
  <2> QED BY <1>1, <2>3, <2>4, <2>5
<1>q. PICK w : w = [y EXCEPT !.out = x.out]
  OBVIOUS
<1>3. IsHost(w) /\ ~w.close
  BY <1>2, <1>q DEF IsHost
<1>4. Handle(x, n, item, short) \in {Bad(x, n), Bad(w, n), y}
  BY <1>p, <1>q DEF Handle, Result
<1> QED BY <1>1, <1>2, <1>3, <1>4

(* All the objects of one SPDU handled: the same.                           *)
LEMMA DispatchInfos ==
    ASSUME revision \in Nat, applications \in [Sessions -> Kept \cup {None}],
           NEW n \in Sessions, table[n].resource \in Names, now \in 0 .. MaxNow,
           NEW items \in Seq(Objects \cup {Malformed}), NEW short
    PROVE  LET y == DispatchApdu(Host, n, items, short)
           IN  /\ InfoAfter(y, n, table[n].resource)
               /\ table[n].resource = "ApplicationInfo" => ~y.close
<1>p. PICK resource : resource = table[n].resource
  OBVIOUS
<1>1. Len(items) \in Nat
  OBVIOUS
<1>2. PICK handled : /\ Unfolds(Host, n, items, short, handled)
                     /\ DispatchApdu(Host, n, items, short) = handled[Len(items)]
  BY <1>1, DispatchUnfolds
<1> DEFINE Good(y) == InfoAfter(y, n, resource) /\ (resource = "ApplicationInfo" => ~y.close)
           T == {i \in 0 .. Len(items) : Good(handled[i])}
<1>3. 0 \in T
  <2>1. ~Host.close
    BY DEF Host
  <2> QED BY <1>1, <1>2, <2>1, HostHasInfos DEF Unfolds
<1>4. ASSUME NEW i \in 1 .. Len(items), i - 1 \in T PROVE i \in T
  <2>p. PICK x, item, y : x = handled[i - 1] /\ item = items[i] /\ y = handled[i]
    OBVIOUS
  <2>1. Good(x)
    BY <1>4, <2>p
  <2>2. IsHost(x) /\ x.wall \in Times
    BY <2>1, WallsAssumption DEF InfoAfter
  <2>3. item \in Objects \cup {Malformed} /\ (i = short) \in BOOLEAN
    <3>p. PICK S : S = Objects \cup {Malformed}
      OBVIOUS
    <3>1. items \in Seq(S)
      BY <3>p
    <3>2. item \in S
      BY <2>p, <3>1
    <3> QED BY <3>2, <3>p
  <2>4. Handles(x, Handle(x, n, item, i = short), n, table[n].resource)
    BY <2>2, <2>3, HandlesStep
  <2>5. y = Handle(x, n, item, i = short)
    BY <1>2, <2>p DEF Unfolds
  <2>6. InfoAfter(y, n, resource)
    BY <1>p, <2>1, <2>4, <2>5, HandlesInfos
  <2>7. resource = "ApplicationInfo" => ~y.close
    BY <1>p, <2>1, <2>2, <2>5, InfoKeepsOpen
  <2> QED BY <1>1, <2>6, <2>7, <2>p
<1>5. T = 0 .. Len(items)
  <2>1. T \in SUBSET (0 .. Len(items))
    OBVIOUS
  <2> HIDE DEF T
  <2> QED BY <1>1, <1>3, <1>4, <2>1, Upwards
<1>6. Len(items) \in T
  <2> HIDE DEF T
  <2> QED BY <1>1, <1>5
<1> QED BY <1>2, <1>6, <1>p

-----------------------------------------------------------------------------
(* The steps of Next that touch the infos.                                  *)

InfosOpen ==
    \A n \in Sessions : applications[n] # None =>
        /\ table[n] # None /\ table[n].resource = "ApplicationInfo" /\ ~table[n].closing
        /\ applications[n].revision <= revision

MenuGoes ==
    \A o \in ToSet(out) : o.apdu.tag = EnterMenu =>
        o.session = MenuSession(table[o.session].slot)

InfoInv ==
    /\ KeptTyped(applications, supplied) /\ revision \in Nat
    /\ Agree(applications, supplied)
    /\ InfosOpen
    /\ MenuGoes

(* At first no application introduced itself.                               *)
LEMMA InfoStarts == Init => InfoInv
<1> SUFFICES ASSUME Init PROVE InfoInv
  OBVIOUS
<1>1. applications = Nothing /\ supplied = <<>> /\ revision = 0 /\ out = <<>>
  BY DEF Init
<1>p. PICK S : S = InfoPairs \cup {None}
  OBVIOUS
<1>2. <<>> \in Seq(S) /\ DOMAIN supplied = {} /\ ToSet(out) = {}
  BY <1>1 DEF ToSet
<1>3. KeptTyped(applications, supplied)
  BY <1>1, <1>2, <1>p DEF KeptTyped, Nothing
<1>4. Agree(applications, supplied)
  BY <1>1, <1>2 DEF Agree, HasInfo, Nothing
<1> QED BY <1>1, <1>2, <1>3, <1>4 DEF InfoInv, InfosOpen, MenuGoes, Nothing

(* The infos a frame brought, as the observer notes them.                   *)
LEMMA TakenInfos ==
    ASSUME NEW n \in Sessions, NEW y, Sequence(y.events), NEW last, NEW info,
           TakenUpTo(y, n, last, info)
    PROVE  /\ Introduced(y) = {n}
           /\ Infos(y) \in Seq(InfoPairs \cup {None})
           /\ last \in DOMAIN Infos(y) /\ Infos(y)[last] = << n, info >>
           /\ \A i \in DOMAIN Infos(y) : Infos(y)[i] # None => Infos(y)[i][1] = n /\ i <= last
<1>p. PICK q, k, S : q = y.events /\ k = Len(q) /\ S = InfoPairs \cup {None}
  OBVIOUS
<1>1. k \in Nat /\ DOMAIN q = 1 .. k
  BY <1>p DEF Sequence
<1>2. /\ last \in 1 .. k /\ info \in InfoRecords /\ IsInfo(q[last]) /\ q[last].what = info
      /\ \A i \in 1 .. k : IsInfo(q[i]) =>
            i <= last /\ q[i].session = n /\ q[i].what \in InfoRecords
  BY <1>p DEF TakenUpTo
<1>3. Introduced(y) = {n}
  <2>1. ToSet(q) = {q[i] : i \in 1 .. k}
    BY <1>1 DEF ToSet
  <2>2. ASSUME NEW m \in Introduced(y) PROVE m = n
    <3>1. PICK e \in ToSet(q) : IsInfo(e) /\ m = e.session
      BY <1>p DEF Introduced
    <3> QED BY <1>2, <2>1, <3>1
  <2>3. n \in Introduced(y)
    <3>1. q[last] \in ToSet(q) /\ q[last].session = n
      BY <1>2, <2>1
    <3> QED BY <1>2, <1>p, <3>1 DEF Introduced
  <2> QED BY <2>2, <2>3
<1>z. PICK r : r = Infos(y)
  OBVIOUS
<1>4. r = [i \in 1 .. k |-> IF IsInfo(q[i]) THEN << q[i].session, q[i].what >> ELSE None]
  BY <1>1, <1>p, <1>z DEF Infos
<1>5. \A i \in 1 .. k : r[i] \in S
  BY <1>2, <1>4, <1>p DEF InfoPairs
<1>6. r \in Seq(S) /\ DOMAIN r = 1 .. k
  BY <1>1, <1>4, <1>5
<1>7. r[last] = << n, info >>
  BY <1>2, <1>4
<1>8. \A i \in 1 .. k : r[i] # None => r[i][1] = n /\ i <= last
  BY <1>2, <1>4
<1> QED BY <1>2, <1>3, <1>6, <1>7, <1>8, <1>p, <1>z

(* A step that ends with what a module supplied.                            *)
LEMMA CommitInfos ==
    ASSUME InfoInv, NEW n \in Sessions, NEW resource, NEW y, InfoAfter(y, n, resource),
           Commit(y),
           \A m \in Sessions : applications[m] # None =>
              table'[m] # None /\ table'[m].resource = "ApplicationInfo" /\ ~table'[m].closing
    PROVE  InfoInv'
<1>1. /\ KeptTyped(applications, supplied) /\ revision \in Nat
      /\ Agree(applications, supplied) /\ InfosOpen
  BY DEF InfoInv
<1>2. /\ applications' = y.applications /\ revision' = y.revision /\ out' = y.out
      /\ supplied' = IF Introduced(y) = {} THEN supplied
                     ELSE Without(Introduced(y)) \o Infos(y)
  BY DEF Commit
<1>3. MenuGoes'
  <2>1. y.out \in Seq(Replies(n, Walls[now]))
    BY DEF InfoAfter
  <2>2. \A o \in ToSet(y.out) : o \in Replies(n, Walls[now])
    <3>1. \A i \in 1 .. Len(y.out) : y.out[i] \in Replies(n, Walls[now])
      BY <2>1
    <3> QED BY <2>1, <3>1 DEF ToSet
  <2>3. \A o \in ToSet(y.out) : o.apdu.tag # EnterMenu
    BY <2>2 DEF Replies
  <2> QED BY <1>2, <2>3 DEF MenuGoes
<1>4. CASE Untaken(y)
  <2>1. Introduced(y) = {}
    <3>1. Sequence(y.events)
      BY DEF InfoAfter
    <3>2. \A e \in ToSet(y.events) : ~IsInfo(e)
      BY <1>4, <3>1 DEF Untaken, ToSet, Sequence
    <3> QED BY <3>2 DEF Introduced
  <2>2. supplied' = supplied /\ applications' = applications /\ revision' = revision
    BY <1>2, <1>4, <2>1 DEF Untaken
  <2>3. InfosOpen'
    BY <1>1, <2>2 DEF InfosOpen
  <2> QED BY <1>1, <1>3, <2>2, <2>3 DEF InfoInv
<1>5. CASE resource = "ApplicationInfo" /\ TookInfos(y, n)
  <2>1. PICK last, info : TakenUpTo(y, n, last, info)
    BY <1>5 DEF TookInfos
  <2>p. PICK new, gone, left, rest, entry :
          /\ new = Infos(y) /\ gone = {n}
          /\ left = [m \in Sessions |-> IF m \in gone THEN None ELSE applications[m]]
          /\ rest = [i \in DOMAIN supplied |->
                        IF supplied[i] # None /\ supplied[i][1] \in gone THEN None ELSE supplied[i]]
          /\ entry = [info |-> info, revision |-> y.revision]
    OBVIOUS
  <2>2. /\ Introduced(y) = gone /\ new \in Seq(InfoPairs \cup {None})
        /\ last \in DOMAIN new /\ new[last] = << n, info >>
        /\ \A i \in DOMAIN new : new[i] # None => new[i][1] = n /\ i <= last
    BY <2>1, <2>p, TakenInfos DEF InfoAfter
  <2>3. /\ info \in InfoRecords /\ y.revision \in Nat /\ revision < y.revision
        /\ y.applications = [applications EXCEPT ![n] = entry] /\ applications[n] # None
    BY <2>1, <2>p DEF TakenUpTo
  <2>4. entry \in Kept /\ entry.info = info /\ entry.revision = y.revision
    BY <2>3, <2>p DEF Kept
  <2>5. /\ KeptTyped(left, rest) /\ Agree(left, rest)
        /\ \A i \in DOMAIN rest : ~Live(rest, i, n)
    BY <1>1, <2>p, BlanksAgree
  <2>6. \A m \in Sessions : left[m] # None => left[m].revision <= revision
    BY <1>1, <2>p DEF InfosOpen
  <2>7. /\ KeptTyped([left EXCEPT ![n] = entry], rest \o new)
        /\ Agree([left EXCEPT ![n] = entry], rest \o new)
    BY <1>1, <2>2, <2>3, <2>4, <2>5, <2>6, LaterAgree
  <2>8. [left EXCEPT ![n] = entry] = y.applications
    <3>1. applications \in [Sessions -> Kept \cup {None}]
      BY <1>1 DEF KeptTyped
    <3> QED BY <2>3, <2>p, <3>1
  <2>9. supplied' = rest \o new
    <3>1. Without(gone) = rest
      BY <2>p DEF Without
    <3> QED BY <1>2, <2>2, <2>p, <3>1
  <2>10. InfosOpen'
    <3> SUFFICES ASSUME NEW m \in Sessions, y.applications[m] # None
                 PROVE  /\ table'[m] # None /\ table'[m].resource = "ApplicationInfo"
                        /\ ~table'[m].closing
                        /\ y.applications[m].revision <= y.revision
      BY <1>2 DEF InfosOpen
    <3>1. applications \in [Sessions -> Kept \cup {None}]
      BY <1>1 DEF KeptTyped
    <3>2. CASE m = n
      <4>1. y.applications[m] = entry
        BY <2>3, <3>1, <3>2
      <4>2. y.revision <= y.revision
        BY <2>3
      <4> QED BY <2>3, <2>4, <3>2, <4>1, <4>2
    <3>3. CASE m # n
      <4>1. y.applications[m] = applications[m]
        BY <2>3, <3>1, <3>3
      <4>2. applications[m] \in Kept /\ applications[m].revision <= revision
        BY <1>1, <3>1, <4>1 DEF InfosOpen
      <4>3. applications[m].revision \in Nat
        BY <4>2, KeptIsOne
      <4>4. applications[m].revision <= y.revision
        BY <1>1, <2>3, <4>2, <4>3
      <4> QED BY <4>1, <4>4
    <3> QED BY <3>2, <3>3
  <2> QED BY <1>2, <1>3, <2>3, <2>7, <2>8, <2>9, <2>10 DEF InfoInv
<1> QED BY <1>4, <1>5 DEF InfoAfter

(* Sessions end, with what was kept of them.                                *)
LEMMA EndsInfos ==
    ASSUME InfoInv, NEW gone, Ends(gone)
    PROVE  InfoInv'
<1>1. /\ KeptTyped(applications, supplied) /\ revision \in Nat
      /\ Agree(applications, supplied) /\ InfosOpen
  BY DEF InfoInv
<1>2. /\ table' = [n \in Sessions |-> IF n \in gone THEN None ELSE table[n]]
      /\ applications' = [n \in Sessions |-> IF n \in gone THEN None ELSE applications[n]]
      /\ out' = <<>> /\ revision' = revision
      /\ supplied' = [i \in DOMAIN supplied |->
            IF supplied[i] # None /\ supplied[i][1] \in gone THEN None ELSE supplied[i]]
  BY DEF Ends, Freed, Quiet, Without
<1>3. KeptTyped(applications', supplied') /\ Agree(applications', supplied')
  <2>p. PICK left, rest : left = applications' /\ rest = supplied'
    OBVIOUS
  <2>1. /\ left = [n \in Sessions |-> IF n \in gone THEN None ELSE applications[n]]
        /\ rest = [i \in DOMAIN supplied |->
              IF supplied[i] # None /\ supplied[i][1] \in gone THEN None ELSE supplied[i]]
    BY <1>2, <2>p
  <2>2. KeptTyped(left, rest) /\ Agree(left, rest)
    BY <1>1, <2>1, BlanksAgree
  <2> QED BY <2>2, <2>p
<1>4. InfosOpen'
  BY <1>1, <1>2 DEF InfosOpen
<1>5. ToSet(out') = {}
  BY <1>2 DEF ToSet
<1> QED BY <1>1, <1>2, <1>3, <1>4, <1>5 DEF InfoInv, MenuGoes

(* What a session that opens brings: no info yet.                           *)
LEMMA OpenInfos ==
    ASSUME now \in 0 .. MaxNow, NEW n, NEW resource, NEW short,
           NEW y, y = Result(OnOpen(Host, n, resource), Host, n, short)
    PROVE  /\ y.revision = revision
           /\ y.applications = IF resource = "ApplicationInfo"
                               THEN [applications EXCEPT ![n] = [info |-> None, revision |-> 0]]
                               ELSE applications
           /\ Introduced(y) = {}
           /\ \A o \in ToSet(y.out) : o.apdu.tag # EnterMenu
<1>p. PICK x, z : /\ z = OnOpen(Host, n, resource)
                  /\ x = IF resource = "ApplicationInfo"
                         THEN [Host EXCEPT !.applications[n] = [info |-> None, revision |-> 0]]
                         ELSE Host
  OBVIOUS
<1>1. /\ IsHost(Host) /\ Host.wall = Walls[now] /\ Host.out = <<>> /\ Host.events = <<>>
      /\ Host.revision = revision /\ Host.applications = applications /\ Walls[now] \in Times
  BY WallsAssumption DEF Host, IsHost
<1>2. /\ IsHost(x) /\ x.wall = Walls[now] /\ x.out = <<>> /\ x.events = <<>>
      /\ x.revision = revision
      /\ x.applications = IF resource = "ApplicationInfo"
                          THEN [applications EXCEPT ![n] = [info |-> None, revision |-> 0]]
                          ELSE applications
  BY <1>1, <1>p DEF IsHost
<1>b. <<>> \in Bytes /\ Len(<<>>) \in 0 .. 24
  BY DEF Bytes
<1>3. z = x \/ Steps(x, z, n, "Mmi")
  <2>1. CASE resource = "ResourceManager"
    BY <1>2, <1>b, <1>p, <2>1, AnswersStep DEF OnOpen
  <2>2. CASE resource = "ApplicationInfo"
    BY <1>2, <1>b, <1>p, <2>2, AnswersStep DEF OnOpen
  <2>3. CASE resource = "DateTime"
    <3>1. x = Host
      BY <1>p, <2>3
    <3>p. PICK w : w = [x EXCEPT !.clocks[n] = [interval |-> 0, sent |-> None]]
      OBVIOUS
    <3>2. z = SendsTime(w, n) /\ 0 \in Nat
      BY <1>p, <2>3, <3>1, <3>p DEF OnOpen
    <3> QED BY <1>1, <1>2, <3>2, <3>p, TimeSteps
  <2>4. CASE resource \notin {"ResourceManager", "ApplicationInfo", "DateTime"}
    BY <1>p, <2>4 DEF OnOpen
  <2> QED BY <2>1, <2>2, <2>3, <2>4
<1>s. PICK S : S = Replies(n, Walls[now])
  OBVIOUS
<1>4. /\ IsHost(z) /\ SameInfos(x, z) /\ Untold(x, z)
      /\ z.out = <<>> \/ \E o \in S : z.out = Append(<<>>, o)
  <2>1. CASE z = x
    BY <1>2, <2>1 DEF SameInfos, Untold
  <2>2. CASE Steps(x, z, n, "Mmi")
    BY <1>2, <1>s, <2>2 DEF Steps, Silent, Replied, Untold
  <2> QED BY <1>3, <2>1, <2>2
<1>q. PICK v, b : v = [z EXCEPT !.out = <<>>] /\ b = Bad(v, n)
  OBVIOUS
<1>5. y = b \/ y = z
  BY <1>1, <1>p, <1>q DEF Result
<1>6. \A e \in ToSet(z.events) : ~IsInfo(e)
  <2>1. CASE z.events = <<>>
    BY <2>1 DEF ToSet
  <2>2. CASE \E e : ~IsInfo(e) /\ z.events = << e >>
    BY <2>2 DEF ToSet
  <2>3. \A e : Append(<<>>, e) = << e >>
    OBVIOUS
  <2> QED BY <1>2, <1>4, <2>1, <2>2, <2>3 DEF Untold
<1>7. /\ IsHost(b) /\ SameInfos(z, b) /\ b.out = <<>>
      /\ \A e \in ToSet(b.events) : ~IsInfo(e)
  <2>1. IsHost(v) /\ SameInfos(z, v) /\ v.out = <<>> /\ v.events = z.events
    BY <1>4, <1>q DEF IsHost, SameInfos
  <2>2. /\ IsHost(b) /\ SameInfos(z, b) /\ b.out = <<>>
        /\ b.events = Append(z.events, MalformedEvent(n))
    BY <1>q, <2>1 DEF IsHost, SameInfos, Bad
  <2>3. ~IsInfo(MalformedEvent(n)) /\ Sequence(z.events)
    <3>1. Sequence(<<>>)
      <4>1. <<>> \in Seq({})
        OBVIOUS
      <4> QED BY <4>1 DEF Sequence
    <3>2. Sequence(z.events)
      <4>p. PICK q : q = x.events
        OBVIOUS
      <4>1. Sequence(q) /\ (z.events = q \/ \E e : z.events = Append(q, e))
        BY <1>2, <1>4, <3>1, <4>p DEF Untold
      <4>2. ASSUME NEW e PROVE Sequence(Append(q, e))
        BY <4>1, AppendedEvents
      <4> QED BY <4>1, <4>2
    <3> QED BY <3>2 DEF IsInfo, MalformedEvent, Event
  <2>p. PICK q, r, k : q = z.events /\ r = b.events /\ k = Len(q)
    OBVIOUS
  <2>4. /\ Sequence(r) /\ k \in Nat /\ Len(r) = k + 1 /\ r[k + 1] = MalformedEvent(n)
        /\ \A i \in 1 .. k : r[i] = q[i]
    BY <2>2, <2>3, <2>p, AppendedEvents
  <2>5. \A e \in ToSet(r) : ~IsInfo(e)
    <3>1. DOMAIN r = 1 .. k + 1 /\ DOMAIN q = 1 .. k
      BY <2>3, <2>4, <2>p DEF Sequence
    <3>2. ASSUME NEW i \in 1 .. k + 1 PROVE ~IsInfo(r[i])
      <4>1. CASE i \in 1 .. k
        BY <1>6, <2>4, <2>p, <3>1, <4>1 DEF ToSet
      <4>2. CASE i = k + 1
        BY <2>3, <2>4, <4>2
      <4> QED BY <2>4, <4>1, <4>2
    <3> QED BY <3>1, <3>2 DEF ToSet
  <2> QED BY <2>2, <2>5, <2>p
<1>8. SameInfos(x, y) /\ \A e \in ToSet(y.events) : ~IsInfo(e)
  BY <1>4, <1>5, <1>6, <1>7 DEF SameInfos
<1>9. \A o \in ToSet(y.out) : o.apdu.tag # EnterMenu
  <2>1. ToSet(<<>>) = {} /\ \A o : Append(<<>>, o) = << o >>
    BY DEF ToSet
  <2>2. \A o : ToSet(<< o >>) = {o}
    BY DEF ToSet
  <2>3. y.out = <<>> \/ \E o \in S : y.out = << o >>
    BY <1>4, <1>5, <1>7, <2>1
  <2>4. ToSet(y.out) \subseteq S
    <3>1. CASE y.out = <<>>
      BY <2>1, <3>1
    <3>2. CASE \E o \in S : y.out = << o >>
      <4>1. PICK o \in S : y.out = << o >>
        BY <3>2
      <4>2. ToSet(y.out) = {o}
        <5>p. PICK single : single = << o >>
          OBVIOUS
        <5>1. ToSet(single) = {o} /\ y.out = single
          BY <2>2, <4>1, <5>p
        <5> QED BY <5>1
      <4> QED BY <4>1, <4>2
    <3> QED BY <2>3, <3>1, <3>2
  <2> QED BY <1>s, <2>4 DEF Replies
<1>10. Introduced(y) = {}
  BY <1>8 DEF Introduced
<1>11. y.revision = revision /\ y.applications = x.applications
  BY <1>2, <1>8 DEF SameInfos
<1> QED BY <1>2, <1>9, <1>10, <1>11

(* A new session of the Application Information has none.                   *)
LEMMA FreshAgree ==
    ASSUME NEW apps, NEW sup, KeptTyped(apps, sup), Agree(apps, sup),
           NEW n \in Sessions, apps[n] = None,
           NEW more, more = [apps EXCEPT ![n] = [info |-> None, revision |-> 0]]
    PROVE  KeptTyped(more, sup) /\ Agree(more, sup)
<1>p. PICK entry : entry = [info |-> None, revision |-> 0]
  OBVIOUS
<1>1. entry \in Kept /\ entry.info = None
  BY <1>p DEF Kept
<1>2. /\ apps \in [Sessions -> Kept \cup {None}]
      /\ more \in [Sessions -> Kept \cup {None}] /\ more[n] = entry
      /\ \A m \in Sessions \ {n} : more[m] = apps[m]
  BY <1>1, <1>p DEF KeptTyped
<1>3. \A m \in Sessions : HasInfo(more, m) <=> m # n /\ HasInfo(apps, m)
  BY <1>1, <1>2 DEF HasInfo
<1>4. \A m \in Sessions : HasInfo(apps, m) => m # n
  BY DEF HasInfo
<1>5. ASSUME NEW i \in DOMAIN sup PROVE PlaceAgrees(more, sup, i)
  <2> SUFFICES ASSUME sup[i] # None PROVE PlaceAgrees(more, sup, i)
    BY DEF PlaceAgrees
  <2>1. ASSUME NEW j \in DOMAIN sup, sup[j] # None
        PROVE  sup[j][1] \in Sessions \ {n} /\ more[sup[j][1]] = apps[sup[j][1]]
    <3>1. sup[j][1] \in Sessions
      BY <2>1, PlaceIsPair DEF KeptTyped
    <3>2. HasInfo(apps, sup[j][1])
      BY <2>1 DEF Agree, PlaceAgrees
    <3> QED BY <1>2, <1>4, <3>1, <3>2
  <2>2. PlaceAgrees(apps, sup, i)
    BY DEF Agree
  <2>3. HasInfo(more, sup[i][1])
    BY <1>3, <2>1, <2>2 DEF PlaceAgrees
  <2>4. Outdated(apps, sup, i) => Outdated(more, sup, i)
    BY <2>1 DEF Outdated
  <2> QED BY <2>1, <2>2, <2>3, <2>4 DEF PlaceAgrees
<1>6. \A m \in Sessions : HasInfo(more, m) => \E i \in DOMAIN sup : Live(sup, i, m)
  BY <1>3 DEF Agree
<1> QED BY <1>2, <1>5, <1>6 DEF Agree, KeptTyped

(* A session that opens has no info, on a number nobody supplied one for.   *)
LEMMA OpensInfos ==
    ASSUME TableTyped, ClocksTyped, InfoInv, NEW s \in 0 .. Slots - 1, NEW resource \in Names,
           OpenSession(s, resource)
    PROVE  InfoInv'
<1>p. PICK free : free = CHOOSE m \in Sessions \ Open : \A k \in Sessions \ Open : m <= k
  OBVIOUS
<1>1. /\ Open # Sessions
      /\ table' = [table EXCEPT ![free] = [slot |-> s, resource |-> resource, closing |-> FALSE]]
      /\ \E short \in BOOLEAN : Commit(Result(OnOpen(Host, free, resource), Host, free, short))
  BY <1>p DEF OpenSession
<1>2. free \in Sessions \ Open
  BY <1>1, <1>p, NumberIsFree
<1>3. PICK short \in BOOLEAN : Commit(Result(OnOpen(Host, free, resource), Host, free, short))
  BY <1>1
<1>y. PICK y : y = Result(OnOpen(Host, free, resource), Host, free, short)
  OBVIOUS
<1>4. /\ y.revision = revision
      /\ y.applications = IF resource = "ApplicationInfo"
                          THEN [applications EXCEPT ![free] = [info |-> None, revision |-> 0]]
                          ELSE applications
      /\ Introduced(y) = {}
      /\ \A o \in ToSet(y.out) : o.apdu.tag # EnterMenu
  <2>1. now \in 0 .. MaxNow
    BY DEF ClocksTyped
  <2> HIDE DEF OnOpen, Result
  <2> QED BY <1>y, <2>1, OpenInfos
<1>5. /\ applications' = y.applications /\ revision' = revision /\ supplied' = supplied
      /\ out' = y.out
  <2> HIDE DEF OnOpen, Result
  <2>1. Commit(y)
    BY <1>3, <1>y
  <2> QED BY <1>4, <2>1 DEF Commit
<1>6. /\ KeptTyped(applications, supplied) /\ revision \in Nat
      /\ Agree(applications, supplied) /\ InfosOpen
  BY DEF InfoInv
<1>7. applications[free] = None /\ table[free] = None
  BY <1>2, <1>6 DEF InfosOpen, Open
<1>8. KeptTyped(applications', supplied) /\ Agree(applications', supplied)
  <2>1. CASE resource = "ApplicationInfo"
    <3>p. PICK more : more = applications'
      OBVIOUS
    <3>1. more = [applications EXCEPT ![free] = [info |-> None, revision |-> 0]]
      BY <1>4, <1>5, <2>1, <3>p
    <3>2. KeptTyped(more, supplied) /\ Agree(more, supplied)
      BY <1>2, <1>6, <1>7, <3>1, FreshAgree
    <3> QED BY <3>2, <3>p
  <2>2. CASE resource # "ApplicationInfo"
    BY <1>4, <1>5, <1>6, <2>2
  <2> QED BY <2>1, <2>2
<1>9. InfosOpen'
  <2>p. PICK entry : entry = [slot |-> s, resource |-> resource, closing |-> FALSE]
    OBVIOUS
  <2>1. entry # None
    <3>1. entry \in Entries
      BY <2>p DEF Entries
    <3> QED BY <3>1, EntryIsOpen
  <2>2. table'[free] = entry /\ \A m \in Sessions \ {free} : table'[m] = table[m]
    BY <1>1, <1>2, <2>p DEF TableTyped
  <2> SUFFICES ASSUME NEW n \in Sessions, applications'[n] # None
               PROVE  /\ table'[n] # None /\ table'[n].resource = "ApplicationInfo"
                      /\ ~table'[n].closing
                      /\ applications'[n].revision <= revision
    BY <1>5 DEF InfosOpen
  <2>3. CASE n = free
    <3>1. applications \in [Sessions -> Kept \cup {None}]
      BY <1>6 DEF KeptTyped
    <3>2. resource = "ApplicationInfo"
      BY <1>4, <1>5, <1>7, <2>3
    <3>3. applications'[n].revision = 0
      BY <1>2, <1>4, <1>5, <2>3, <3>1, <3>2
    <3>4. 0 <= revision
      BY <1>6
    <3> QED BY <2>1, <2>2, <2>3, <2>p, <3>2, <3>3, <3>4
  <2>4. CASE n # free
    <3>1. applications'[n] = applications[n]
      BY <1>4, <1>5, <1>6, <2>4 DEF KeptTyped
    <3> QED BY <1>6, <2>2, <2>4, <3>1 DEF InfosOpen
  <2> QED BY <2>3, <2>4
<1> QED BY <1>4, <1>5, <1>6, <1>8, <1>9 DEF InfoInv, MenuGoes

(* A module's objects.                                                      *)
LEMMA DispatchInform ==
    ASSUME TableTyped, ClocksTyped, InfoInv, NEW n \in Open,
           NEW items \in Seq(Objects \cup {Malformed}), NEW short,
           NEW h, h = DispatchApdu(Host, n, items, short), Commit(h),
           table' = table \/ (h.close /\ table' = [table EXCEPT ![n].closing = TRUE])
    PROVE  InfoInv'
<1>1. n \in Sessions /\ table[n] \in Entries /\ table[n].resource \in Names
  BY OpenEntry
<1>2. /\ InfoAfter(h, n, table[n].resource)
      /\ table[n].resource = "ApplicationInfo" => ~h.close
  BY <1>1, DispatchInfos DEF InfoInv, KeptTyped, ClocksTyped
<1>3. ASSUME NEW m \in Sessions, applications[m] # None
      PROVE  table'[m] # None /\ table'[m].resource = "ApplicationInfo" /\ ~table'[m].closing
  <2>1. table[m] # None /\ table[m].resource = "ApplicationInfo" /\ ~table[m].closing
    BY <1>3 DEF InfoInv, InfosOpen
  <2>2. CASE table' = table
    BY <2>1, <2>2
  <2>3. CASE h.close /\ table' = [table EXCEPT ![n].closing = TRUE]
    <3>1. m # n
      BY <1>2, <2>1, <2>3
    <3>2. table'[m] = table[m]
      BY <2>3, <3>1 DEF TableTyped
    <3> QED BY <2>1, <3>2
  <2> QED BY <2>2, <2>3
<1> QED BY <1>1, <1>2, <1>3, CommitInfos

(* Objects of a module keep the infos as the modules supplied them.         *)
LEMMA WritesInform ==
    ASSUME ArriveInv, ClocksTyped, InfoInv, NEW n \in Sessions, Writes(n)
    PROVE  InfoInv'
<1>1. TableTyped
  BY DEF ArriveInv
<1>2. n \in Open /\ \E apdus, cut, damage, short, got, h :
         /\ Fits(apdus) /\ got = Readable(apdus, cut, damage)
         /\ Writing(n, apdus, cut, damage, short, got, h)
  BY <1>1, WritesUnfold
<1>3. PICK apdus, cut, damage, short, got, h :
         /\ Fits(apdus) /\ got = Readable(apdus, cut, damage)
         /\ Writing(n, apdus, cut, damage, short, got, h)
  BY <1>2
<1>4. got \in Seq(Objects \cup {Malformed})
  BY <1>3, ReadableItems DEF Fits
<1>5. /\ h = DispatchApdu(Host, n, got, short) /\ Commit(h)
      /\ table' = table \/ (h.close /\ table' = [table EXCEPT ![n].closing = TRUE])
  BY <1>3, Zenon DEF Writing
<1> QED BY <1>1, <1>2, <1>4, <1>5, DispatchInform

(* A dialogue says nothing of applications.                                 *)
LEMMA SpeaksInform ==
    ASSUME ArriveInv, ClocksTyped, InfoInv, NEW n \in Sessions, Speaks(n)
    PROVE  InfoInv'
<1>1. TableTyped /\ SpeakingTyped
  BY DEF ArriveInv
<1>2. n \in Open /\ \E d \in BegunOn(n), k \in Chunks, damage \in {0, 1} :
         \E got, h :
            /\ Fits(<< PartOf(d, k) >>) /\ got = Readable(<< PartOf(d, k) >>, 0, damage)
            /\ Spoken(n, d, k, damage, got, h)
  BY <1>1, SpeaksUnfold
<1>3. PICK d \in BegunOn(n), k \in Chunks, damage \in {0, 1} :
         \E got, h :
            /\ Fits(<< PartOf(d, k) >>) /\ got = Readable(<< PartOf(d, k) >>, 0, damage)
            /\ Spoken(n, d, k, damage, got, h)
  BY <1>2
<1>4. PICK got, h :
            /\ Fits(<< PartOf(d, k) >>) /\ got = Readable(<< PartOf(d, k) >>, 0, damage)
            /\ Spoken(n, d, k, damage, got, h)
  BY <1>3
<1>5. got \in Seq(Objects \cup {Malformed})
  BY <1>4, ReadableItems DEF Fits
<1>6. h = DispatchApdu(Host, n, got, 0) /\ Commit(h) /\ table' = table
  BY <1>4, Zenon DEF Spoken
<1> QED BY <1>1, <1>2, <1>5, <1>6, DispatchInform

(* Where nothing is supplied and no session ends, only what is sent counts. *)
LEMMA QuietInform ==
    ASSUME InfoInv, UNCHANGED << table, applications, revision, supplied >>, MenuGoes'
    PROVE  InfoInv'
BY DEF InfoInv, InfosOpen

(* Whatever is sent is in the sequence.                                     *)
LEMMA CommandInforms ==
    ASSUME InfoInv, NEW n, NEW tag, NEW body, Commands(n, tag, body),
           tag = EnterMenu => n = MenuSession(table[n].slot)
    PROVE  InfoInv'
<1>p. PICK y, o : /\ y = Sends(Host, n, tag, body)
                  /\ o = [session |-> n, apdu |-> Apdu(tag, body), wall |-> Host.wall]
  OBVIOUS
<1>1. /\ IsHost(Host) /\ Host.out = <<>> /\ Host.events = <<>>
      /\ Host.applications = applications /\ Host.revision = revision
  BY DEF Host, IsHost
<1>2. /\ y.out = << o >> /\ y.events = <<>> /\ y.applications = applications
      /\ y.revision = revision
  BY <1>1, <1>p DEF Sends, IsHost
<1>3. Commit(y) /\ table' = table
  BY <1>p DEF Commands
<1>4. Introduced(y) = {}
  <2>1. ToSet(<<>>) = {}
    BY DEF ToSet
  <2> QED BY <1>2, <2>1 DEF Introduced
<1>5. UNCHANGED << table, applications, revision, supplied >> /\ out' = << o >>
  BY <1>2, <1>3, <1>4 DEF Commit
<1>6. \A r : r = << o >> => ToSet(r) = {o}
  BY DEF ToSet
<1>7. o.apdu.tag = tag /\ o.session = n
  BY <1>p DEF Apdu
<1>8. MenuSession(table[n].slot)' = MenuSession(table[n].slot)
  BY <1>5 DEF MenuSession, InfoSession, FindSession, Active, Open
<1>9. ToSet(out') = {o}
  BY <1>5, <1>6
<1>10. MenuGoes'
  BY <1>5, <1>7, <1>8, <1>9 DEF MenuGoes
<1> QED BY <1>5, <1>10, QuietInform

(* A tick says nothing of applications, and opens no menu.                  *)
LEMMA TickInforms ==
    ASSUME InfoInv, Tick
    PROVE  InfoInv'
<1> DEFINE told == {[session |-> n, wall |-> Walls[now],
                     apdu |-> Apdu(DateTime, DateTimeBody(Walls[now]))] :
                        n \in {m \in Sessions : Due(m)}}
<1>1. out' = SetToSeq(told) /\ UNCHANGED << table, applications, revision, supplied >>
  BY DEF Tick
<1>2. IsFiniteSet(told)
  <2> DEFINE due == {n \in Sessions : Due(n)}
             Op(n) == [session |-> n, wall |-> Walls[now],
                       apdu |-> Apdu(DateTime, DateTimeBody(Walls[now]))]
             f == [n \in due |-> Op(n)]
  <2>1. IsFiniteSet(due)
    BY SessionsFinite, FS_Subset
  <2>2. told = {Op(n) : n \in due}
    OBVIOUS
  <2> HIDE DEF due
  <2>3. f \in Surjection(due, {Op(n) : n \in due})
    <3> HIDE DEF Op
    <3> QED BY DEF Surjection
  <2> HIDE DEF Op, told, f
  <2> QED BY <2>1, <2>2, <2>3, FS_Surjection
<1>3. ToSet(out') \subseteq told
  <2> HIDE DEF told
  <2> QED BY <1>1, <1>2, SeqOfSet
<1>4. DateTime # EnterMenu
  BY DEF DateTime, EnterMenu, Tag
<1>5. \A o \in told : o.apdu.tag # EnterMenu
  BY <1>4 DEF Apdu
<1>6. MenuGoes'
  <2> HIDE DEF told
  <2> QED BY <1>3, <1>5 DEF MenuGoes
<1> QED BY <1>1, <1>6, QuietInform

(* What the Date-Time resource keeps is typed whatever else holds, so the
   infos rest on the same steps.                                            *)
LEMMA InfoSteps == ArriveInv /\ ToldInv /\ InfoInv /\ [Next]_vars => InfoInv'
<1> SUFFICES ASSUME ArriveInv, ToldInv, InfoInv, [Next]_vars PROVE InfoInv'
  OBVIOUS
<1>t. TableTyped /\ interest \in Interests /\ ClocksTyped
  BY DEF ArriveInv, ToldInv
<1>0. ASSUME UNCHANGED << table, applications, revision, supplied >>, out' = <<>> PROVE InfoInv'
  <2>1. ToSet(out') = {}
    BY <1>0 DEF ToSet
  <2>2. MenuGoes'
    BY <2>1 DEF MenuGoes
  <2> QED BY <1>0, <2>2, QuietInform
<1>1. CASE UNCHANGED vars
  <2>1. UNCHANGED << table, applications, revision, supplied, out >>
    BY <1>1 DEF vars, hostVars
  <2>2. ASSUME NEW s PROVE MenuSession(s)' = MenuSession(s)
    BY <2>1 DEF MenuSession, InfoSession, FindSession, Active, Open
  <2>3. MenuGoes'
    BY <2>1, <2>2 DEF InfoInv, MenuGoes
  <2> QED BY <2>1, <2>3, QuietInform
<1>2. CASE Next
  <2>1. ASSUME NEW i \in interest, OpenSession(i[1], i[2]) PROVE InfoInv'
    <3>1. i \in (0 .. Slots - 1) \X Names
      BY <1>t, SlotsAssumption
    <3> QED BY <1>t, <2>1, <3>1, OpensInfos
  <2>2. ASSUME NEW n \in Sessions, CloseSession(n) PROVE InfoInv'
    BY <2>2, EndsInfos DEF CloseSession
  <2>3. ASSUME NEW s \in 0 .. Slots - 1, DropSlot(s) PROVE InfoInv'
    BY <2>3, EndsInfos DEF DropSlot
  <2>4. CASE LinkFails
    BY <2>4, EndsInfos DEF LinkFails
  <2>5. ASSUME NEW n \in Sessions, Writes(n) PROVE InfoInv'
    BY <1>t, <2>5, WritesInform
  <2>6. ASSUME NEW n \in Sessions, Speaks(n) PROVE InfoInv'
    BY <1>t, <2>6, SpeaksInform
  <2>7. ASSUME NEW s \in 0 .. Slots - 1, EnterMenuOf(s) PROVE InfoInv'
    <3>1. MenuSession(s) # None /\ Commands(MenuSession(s), EnterMenu, <<>>)
      BY <2>7 DEF EnterMenuOf
    <3>2. table[MenuSession(s)].slot = s
      BY <3>1, MenuIsOpen DEF Active
    <3>n. PICK n : n = MenuSession(s)
      OBVIOUS
    <3>3. n = MenuSession(table[n].slot) /\ Commands(n, EnterMenu, <<>>)
      BY <3>1, <3>2, <3>n
    <3> QED BY <3>3, CommandInforms
  <2>8. ASSUME NEW s \in 0 .. Slots - 1, ReleaseHost(s) PROVE InfoInv'
    <3>1. Commands(FindSession(s, "HostControl"), AskRelease, <<>>)
      BY <2>8 DEF ReleaseHost
    <3>2. AskRelease # EnterMenu
      BY DEF AskRelease, EnterMenu, Tag
    <3> QED BY <3>1, <3>2, CommandInforms
  <2>9. ASSUME NEW n \in Sessions, MmiCommand(n) PROVE InfoInv'
    <3>1. PICK apdu \in MmiAnswers : Commands(n, apdu.tag, apdu.body)
      BY <2>9 DEF MmiCommand
    <3>2. apdu.tag \in {MenuAnsw, Answ, CloseMmi}
      BY AnswersAreObjects
    <3>3. MenuAnsw # EnterMenu /\ Answ # EnterMenu /\ CloseMmi # EnterMenu
      BY DEF MenuAnsw, Answ, CloseMmi, EnterMenu, Tag
    <3>4. apdu.tag # EnterMenu
      BY <3>2, <3>3
    <3> QED BY <3>1, <3>4, CommandInforms
  <2>10. CASE Tick
    BY <2>10, TickInforms
  <2>11. CASE Wait
    BY <1>0, <2>11 DEF Wait, Quiet, hostVars
  <2> QED BY <1>2, <2>1, <2>2, <2>3, <2>4, <2>5, <2>6, <2>7, <2>8, <2>9, <2>10, <2>11 DEF Next, Step
<1> QED BY <1>1, <1>2

(* Of some of the first numbers there is a largest.                         *)
LEMMA GreatestOf ==
    ASSUME NEW len \in Nat, NEW T \in SUBSET (1 .. len), T # {}
    PROVE  \E x \in T : \A y \in T : y <= x
<1> DEFINE Under == {len - t : t \in T}
<1>1. Under \in SUBSET Nat /\ Under # {}
  <2>1. \A t \in T : t \in 1 .. len
    OBVIOUS
  <2>2. \A t \in 1 .. len : len - t \in Nat
    OBVIOUS
  <2>3. Under \in SUBSET Nat
    BY <2>1, <2>2
  <2> QED BY <2>3
<1>2. PICK u \in Under : \A v \in Under : u <= v
  <2> HIDE DEF Under
  <2> QED BY <1>1, LeastOf
<1>3. PICK x \in T : u = len - x
  BY <1>2
<1>4. \A y \in T : y <= x
  <2> TAKE y \in T
  <2>1. u <= len - y
    BY <1>2
  <2> QED BY <1>3, <2>1
<1> QED BY <1>4

(* src/src/ca/resource/application_info.rs: the session that has the largest
   revision among a slot's is the one that supplied the latest info.        *)
LEMMA LatestIsFound ==
    ASSUME InfoInv, NEW s, NEW i, IsLatest(i, s)
    PROVE  /\ InfoSession(s) = supplied[i][1] /\ InfoSession(s) \in Active(s, "ApplicationInfo")
           /\ supplied[i] = << InfoSession(s), applications[InfoSession(s)].info >>
<1>1. /\ KeptTyped(applications, supplied) /\ Agree(applications, supplied) /\ InfosOpen
  BY DEF InfoInv
<1>p. PICK n, S, k : n = supplied[i][1] /\ S = InfoPairs \cup {None} /\ k = Len(supplied)
  OBVIOUS
<1>2. /\ supplied \in Seq(S) /\ k \in Nat /\ DOMAIN supplied = 1 .. k
      /\ applications \in [Sessions -> Kept \cup {None}]
  BY <1>1, <1>p DEF KeptTyped
<1>3. /\ i \in DOMAIN supplied /\ supplied[i] # None /\ table[n].slot = s
      /\ \A j \in Supplied(s) : j <= i
  BY <1>p DEF IsLatest, Supplied
<1>4. n \in Sessions /\ supplied[i] \in InfoPairs
  BY <1>1, <1>3, <1>p, PlaceIsPair DEF KeptTyped
<1>5. LastOf(supplied, i)
  <2> SUFFICES ASSUME NEW j \in DOMAIN supplied, Live(supplied, j, n) PROVE j <= i
    BY <1>p DEF LastOf
  <2>1. j \in Supplied(s)
    BY <1>3 DEF Supplied, Live
  <2> QED BY <1>3, <2>1
<1>6. /\ HasInfo(applications, n) /\ supplied[i][2] = applications[n].info
      /\ Outdated(applications, supplied, i)
  BY <1>1, <1>3, <1>5, <1>p DEF Agree, PlaceAgrees
<1>7. n \in Active(s, "ApplicationInfo")
  BY <1>1, <1>3, <1>4, <1>6 DEF InfosOpen, HasInfo, Active, Open
<1> DEFINE those == {m \in Sessions : /\ applications[m] # None /\ applications[m].info # None
                                      /\ table[m].slot = s}
           later(m, l) == \/ applications[m].revision > applications[l].revision
                          \/ applications[m].revision = applications[l].revision /\ m > l
<1>8. n \in those
  BY <1>3, <1>4, <1>6 DEF HasInfo
<1>9. ASSUME NEW m \in those, m # n
      PROVE  /\ applications[m].revision < applications[n].revision
             /\ applications[m].revision \in Nat /\ applications[n].revision \in Nat
  <2>1. m \in Sessions /\ HasInfo(applications, m) /\ table[m].slot = s
    BY DEF HasInfo
  <2> DEFINE places == {j \in 1 .. k : Live(supplied, j, m)}
  <2>2. places # {}
    BY <1>1, <1>2, <2>1 DEF Agree
  <2>3. PICK j \in places : \A l \in places : l <= j
    <3>1. places \in SUBSET (1 .. k)
      OBVIOUS
    <3> HIDE DEF places
    <3> QED BY <1>2, <2>2, <3>1, GreatestOf
  <2>4. j \in DOMAIN supplied /\ supplied[j] # None /\ supplied[j][1] = m
    BY <1>2 DEF Live
  <2>5. LastOf(supplied, j)
    BY <1>2, <2>3, <2>4 DEF LastOf
  <2>6. Outdated(applications, supplied, j)
    BY <1>1, <2>4, <2>5 DEF Agree, PlaceAgrees
  <2>7. j <= i /\ j # i
    <3>1. j \in Supplied(s)
      BY <2>1, <2>4 DEF Supplied
    <3>2. j # i
      BY <1>9, <1>p, <2>4
    <3> QED BY <1>3, <3>1, <3>2
  <2>8. j < i
    BY <1>2, <1>3, <2>7
  <2>9. applications[m].revision < applications[n].revision
    BY <1>3, <1>p, <2>4, <2>6, <2>8 DEF Outdated
  <2>10. applications[m] \in Kept /\ applications[n] \in Kept
    BY <1>2, <1>4, <1>6, <2>1 DEF HasInfo
  <2> QED BY <2>9, <2>10, KeptIsOne
<1>10. ASSUME NEW m \in those PROVE ~later(m, n)
  <2>1. CASE m = n
    <3>1. applications[n] \in Kept /\ n \in Nat
      BY <1>2, <1>4, <1>6, SessionsAreNumbers DEF HasInfo
    <3>2. applications[n].revision \in Nat
      BY <3>1, KeptIsOne
    <3> QED BY <2>1, <3>1, <3>2
  <2>2. CASE m # n
    <3> HIDE DEF those
    <3> QED BY <1>9, <2>2
  <2> QED BY <2>1, <2>2
<1>11. ASSUME NEW m \in those, \A l \in those : ~later(l, m) PROVE m = n
  <2> SUFFICES ASSUME m # n PROVE FALSE
    OBVIOUS
  <2>1. ~later(n, m)
    <3> HIDE DEF those, later
    <3> QED BY <1>8, <1>11
  <2> HIDE DEF those
  <2> QED BY <1>9, <2>1
<1>12. InfoSession(s) = n
  <2>1. InfoSession(s) = IF those = {} THEN None ELSE CHOOSE m \in those : \A l \in those : ~later(l, m)
    BY DEF InfoSession
  <2> HIDE DEF those, later
  <2> QED BY <1>8, <1>10, <1>11, <2>1
<1>13. supplied[i] = << n, applications[n].info >>
  BY <1>4, <1>6, <1>p DEF InfoPairs
<1> QED BY <1>7, <1>12, <1>13, <1>p

(* src/src/ca/resource/application_info.rs, src/src/ca/controller.rs: what
   the application asks about a slot, and where its enter_menu goes, is the
   application in the module that introduced itself last among those that are
   still there.                                                             *)
THEOREM InfoIsAlwaysTheLatest == Spec => []InfoFromLatest
<1>1. Init => ArriveInv /\ ToldInv /\ InfoInv
  BY ArriveStarts, ToldStarts, InfoStarts
<1>2. ArriveInv /\ ToldInv /\ InfoInv /\ [Next]_vars => ArriveInv' /\ ToldInv' /\ InfoInv'
  BY ArriveSteps, ToldSteps, InfoSteps
<1>3. InfoInv => InfoFromLatest
  <2> SUFFICES ASSUME InfoInv PROVE InfoFromLatest
    OBVIOUS
  <2>1. ASSUME NEW s \in 0 .. Slots - 1, Supplied(s) = {} PROVE InfoSession(s) = None
    <3>1. Agree(applications, supplied)
      BY DEF InfoInv
    <3>2. ASSUME NEW n \in Sessions, applications[n] # None, applications[n].info # None,
                 table[n].slot = s
          PROVE  FALSE
      <4>1. PICK i \in DOMAIN supplied : Live(supplied, i, n)
        BY <3>1, <3>2 DEF Agree, HasInfo
      <4>2. i \in Supplied(s)
        BY <3>2, <4>1 DEF Supplied, Live
      <4> QED BY <2>1, <4>2
    <3> QED BY <3>2 DEF InfoSession
  <2>2. ASSUME NEW s \in 0 .. Slots - 1, NEW i \in DOMAIN supplied, IsLatest(i, s)
        PROVE  supplied[i] = << InfoSession(s), applications[InfoSession(s)].info >>
    BY <2>2, LatestIsFound
  <2>3. ASSUME NEW o \in ToSet(out), NEW i \in DOMAIN supplied,
               o.apdu.tag = EnterMenu, IsLatest(i, table[o.session].slot)
        PROVE  o.session = supplied[i][1]
    <3>s. PICK s : s = table[o.session].slot
      OBVIOUS
    <3>1. o.session = MenuSession(s)
      BY <2>3, <3>s DEF InfoInv, MenuGoes
    <3>2. InfoSession(s) = supplied[i][1] /\ InfoSession(s) \in Active(s, "ApplicationInfo")
      BY <2>3, <3>s, LatestIsFound
    <3> QED BY <3>1, <3>2 DEF MenuSession
  <2> QED BY <2>1, <2>2, <2>3 DEF InfoFromLatest
<1> QED BY <1>1, <1>2, <1>3, PTL DEF Spec

-----------------------------------------------------------------------------
(* ObjectsWhole: the texts of a dialogue, and parse_menu.                   *)

(* parse_text() as it goes along: what is there of a text from place i on,
   which is nothing unless its last object is there too.                    *)
TextOf(body, size) == [value |-> body, size |-> size]

Chains(data, text) ==
    \A i \in 0 .. Len(data) :
        LET next == ParseAt(From(data, i + 1))
        IN  text[i] = IF next = Malformed THEN Malformed
                      ELSE IF next.apdu.tag = TextLast THEN TextOf(next.apdu.body, next.size)
                      ELSE IF next.apdu.tag = TextMore /\ text[i + next.size] # Malformed
                      THEN TextOf(next.apdu.body \o text[i + next.size].value,
                                  next.size + text[i + next.size].size)
                      ELSE Malformed

(* parse_text() reads a part, then what follows it, to the last part or the *)
(* first error.                                                             *)
LEMMA TextChains ==
    ASSUME NEW data \in Bytes
    PROVE  \E text : Chains(data, text) /\ ParseText(data) = text[0]
<1> DEFINE n == Len(data)
           next(i) == ParseAt(From(data, i + 1))
           stops == [i \in 0 .. n |-> next(i) = Malformed \/ next(i).apdu.tag # TextMore]
           stop == [i \in 0 .. n |->
                       IF next(i) # Malformed /\ next(i).apdu.tag = TextLast
                       THEN TextOf(next(i).apdu.body, next(i).size) ELSE Malformed]
           item == [i \in 0 .. n |-> next(i).apdu.body]
           size == [i \in 0 .. n |-> next(i).size]
           Goes(f, i) == IF next(i) = Malformed THEN Malformed
                         ELSE IF next(i).apdu.tag = TextLast
                         THEN TextOf(next(i).apdu.body, next(i).size)
                         ELSE IF next(i).apdu.tag = TextMore /\ f[i + next(i).size] # Malformed
                         THEN TextOf(next(i).apdu.body \o f[i + next(i).size].value,
                                     next(i).size + f[i + next(i).size].size)
                         ELSE Malformed
<1>1. n \in Nat /\ TextMore # TextLast
  <2>1. n \in Nat
    BY DEF Bytes
  <2>2. TextMore[3] = 4 /\ TextLast[3] = 3
    BY DEF TextMore, TextLast, Tag
  <2> QED BY <2>1, <2>2
<1>2. \A i \in 0 .. n : ~stops[i] => size[i] \in 1 .. n - i
  <2> TAKE i \in 0 .. n
  <2> HAVE ~stops[i]
  <2>p. PICK rest : rest = From(data, i + 1)
    OBVIOUS
  <2>1. rest \in Bytes /\ Len(rest) = n - i
    BY <2>p, FromBytes
  <2>2. ParseAt(rest) # Malformed
    BY <2>p
  <2>3. ParseAt(rest).size \in 1 .. Len(rest)
    BY <2>1, <2>2, ParsedSize
  <2> QED BY <2>1, <2>3, <2>p
<1>3. PICK f : Collected(TRUE, n, stops, stop, item, size, f)
  <2>1. GoesOn(n, stops, size)
    <3> HIDE DEF n, stops, stop, item, size
    <3> QED BY <1>2 DEF GoesOn
  <2> HIDE DEF n, stops, stop, item, size
  <2> QED BY <1>1, <2>1, FromAbove
<1>4. \A i \in 0 .. n : f[i] = Goes(f, i)
  <2> TAKE i \in 0 .. n
  <2>1. f[i] = IF stops[i] THEN stop[i] ELSE Gains(TRUE, item[i], size[i], f[i + size[i]])
    <3> HIDE DEF n, stops, stop, item, size, next
    <3> QED BY <1>3 DEF Collected
  <2>2. /\ stops[i] = (next(i) = Malformed \/ next(i).apdu.tag # TextMore)
        /\ stop[i] = IF next(i) # Malformed /\ next(i).apdu.tag = TextLast
                     THEN TextOf(next(i).apdu.body, next(i).size) ELSE Malformed
        /\ item[i] = next(i).apdu.body /\ size[i] = next(i).size
    <3> HIDE DEF next
    <3> QED OBVIOUS
  <2> HIDE DEF n, stops, stop, item, size, next
  <2>3. CASE next(i) = Malformed \/ next(i).apdu.tag # TextMore
    BY <2>1, <2>2, <2>3
  <2>4. CASE ~(next(i) = Malformed \/ next(i).apdu.tag # TextMore)
    <3>1. f[i] = Gains(TRUE, item[i], size[i], f[i + size[i]])
      BY <2>1, <2>2, <2>4
    <3> QED BY <1>1, <2>2, <2>4, <3>1 DEF Gains, TextOf
  <2> QED BY <2>3, <2>4
<1>5. f = [i \in 0 .. n |-> Goes(f, i)]
  <2>1. f = [i \in 0 .. n |-> f[i]]
    <3> HIDE DEF n, stops, stop, item, size, next
    <3> QED BY <1>3 DEF Collected
  <2> HIDE DEF Goes
  <2> QED BY <1>4, <2>1
<1> DEFINE text == CHOOSE g : g = [i \in 0 .. n |-> Goes(g, i)]
<1>6. text = [i \in 0 .. n |-> Goes(text, i)]
  <2> HIDE DEF Goes
  <2> QED BY <1>5
<1>7. ParseText(data) = text[0]
  BY DEF ParseText, TextOf
<1>8. Chains(data, text)
  <2>1. \A i \in 0 .. n : text[i] = Goes(text, i)
    <3> HIDE DEF Goes, text
    <3> QED BY <1>6
  <2> HIDE DEF text
  <2> QED BY <2>1 DEF Chains
<1> HIDE DEF text
<1> QED BY <1>7, <1>8

(* A text that is read is bytes, and takes its size of the string.          *)
IsText(text, most) == text.value \in Bytes /\ text.size \in 1 .. most

(* What parse_text() reads is a text, no longer than the data.              *)
LEMMA TextSize ==
    ASSUME NEW data \in Bytes, ParseText(data) # Malformed
    PROVE  IsText(ParseText(data), Len(data))
<1> DEFINE n == Len(data)
<1>1. n \in Nat
  BY DEF Bytes
<1>2. PICK text : Chains(data, text) /\ ParseText(data) = text[0]
  BY TextChains
<1> DEFINE T == {i \in 0 .. n : text[i] # Malformed => IsText(text[i], n - i)}
<1>3. ASSUME NEW i \in 0 .. n, i + 1 .. n \subseteq T PROVE i \in T
  <2> SUFFICES ASSUME text[i] # Malformed PROVE IsText(text[i], n - i)
    OBVIOUS
  <2>p. PICK rest, next : rest = From(data, i + 1) /\ next = ParseAt(rest)
    OBVIOUS
  <2>1. rest \in Bytes /\ Len(rest) = n - i
    BY <2>p, FromBytes
  <2>2. next # Malformed
    BY <1>2, <2>p DEF Chains
  <2>3. next.size \in 1 .. Len(rest) /\ next.apdu \in [tag : Bytes, body : Bytes]
    BY <2>1, <2>2, <2>p, ParsedSize
  <2>4. next.size \in 1 .. n - i /\ next.apdu.body \in Bytes
    BY <2>1, <2>3
  <2>5. CASE next.apdu.tag = TextLast
    <3>1. text[i] = TextOf(next.apdu.body, next.size)
      BY <1>2, <2>2, <2>5, <2>p DEF Chains
    <3> QED BY <2>4, <3>1 DEF IsText, TextOf
  <2>6. CASE next.apdu.tag # TextLast
    <3>p. PICK j : j = i + next.size
      OBVIOUS
    <3>1. j \in i + 1 .. n
      BY <1>1, <2>4, <3>p
    <3>2. /\ text[j] # Malformed
          /\ text[i] = TextOf(next.apdu.body \o text[j].value, next.size + text[j].size)
      BY <1>2, <2>2, <2>6, <2>p, <3>p DEF Chains
    <3>3. IsText(text[j], n - j)
      <4>1. j \in T
        <5> HIDE DEF T
        <5> QED BY <1>3, <3>1
      <4> QED BY <3>2, <4>1
    <3>4. text[j].value \in Bytes /\ text[j].size \in 1 .. n - j
      BY <3>3 DEF IsText
    <3>5. next.size + text[j].size \in 1 .. n - i
      BY <1>1, <2>4, <3>1, <3>4, <3>p
    <3>6. next.apdu.body \o text[j].value \in Bytes
      BY <2>4, <3>4, JoinFirst
    <3> QED BY <3>2, <3>5, <3>6 DEF IsText, TextOf
  <2> QED BY <2>5, <2>6
<1>4. T = 0 .. n
  <2>1. T \in SUBSET (0 .. n)
    OBVIOUS
  <2> HIDE DEF T
  <2> QED BY <1>1, <1>3, <2>1, Downwards
<1>5. 0 \in T
  <2> HIDE DEF T
  <2> QED BY <1>1, <1>4
<1> QED BY <1>1, <1>2, <1>5

(* Two strings joined and cut: a beginning of the first, or the first and a
   beginning of the second.                                                 *)
LEMMA CutJoined ==
    ASSUME NEW x \in Bytes, NEW y \in Bytes
    PROVE  /\ \A k \in 0 .. Len(x) : SubSeq(x \o y, 1, k) = SubSeq(x, 1, k)
           /\ \A k \in 0 .. Len(y) : SubSeq(x \o y, 1, Len(x) + k) = x \o SubSeq(y, 1, k)
           /\ From(x \o y, Len(x) + 1) = y
<1>p. PICK a, b, xy : a = Len(x) /\ b = Len(y) /\ xy = x \o y
  OBVIOUS
<1>1. /\ xy \in Bytes /\ a \in Nat /\ b \in Nat /\ Len(xy) = a + b
      /\ \A i \in 1 .. a : xy[i] = x[i]
  BY <1>p, JoinFirst
<1>2. SubSeq(xy, a + 1, a + b) = y /\ \A i \in 1 .. b : xy[a + i] = y[i]
  BY <1>p, JoinLast
<1>3. ASSUME NEW k \in 0 .. a PROVE SubSeq(xy, 1, k) = SubSeq(x, 1, k)
  <2>p. PICK u, v : u = SubSeq(xy, 1, k) /\ v = SubSeq(x, 1, k)
    OBVIOUS
  <2>1. u \in Bytes /\ Len(u) = k /\ \A i \in 1 .. k : u[i] = xy[i]
    <3>1. k \in 0 .. Len(xy)
      BY <1>1
    <3> QED BY <1>1, <2>p, <3>1, CutFirst
  <2>2. v \in Bytes /\ Len(v) = k /\ \A i \in 1 .. k : v[i] = x[i]
    BY <1>p, <2>p, CutFirst
  <2>3. \A i \in 1 .. Len(u) : u[i] = v[i]
    <3> TAKE i \in 1 .. Len(u)
    <3>1. i \in 1 .. k /\ i \in 1 .. a
      BY <1>1, <2>1
    <3> QED BY <1>1, <2>1, <2>2, <3>1
  <2> QED BY <2>1, <2>2, <2>3, <2>p, SameBytes
<1>4. ASSUME NEW k \in 0 .. b PROVE SubSeq(xy, 1, a + k) = x \o SubSeq(y, 1, k)
  <2>p. PICK u, w, v : u = SubSeq(xy, 1, a + k) /\ w = SubSeq(y, 1, k) /\ v = x \o w
    OBVIOUS
  <2>1. u \in Bytes /\ Len(u) = a + k /\ \A i \in 1 .. a + k : u[i] = xy[i]
    <3>p. PICK m : m = a + k
      OBVIOUS
    <3>1. m \in 0 .. Len(xy)
      BY <1>1, <3>p
    <3> QED BY <1>1, <2>p, <3>1, <3>p, CutFirst
  <2>2. w \in Bytes /\ Len(w) = k /\ \A i \in 1 .. k : w[i] = y[i]
    BY <1>p, <2>p, CutFirst
  <2>3. v \in Bytes /\ Len(v) = a + k /\ \A i \in 1 .. a : v[i] = x[i]
    <3>1. /\ x \o w \in Bytes /\ Len(x \o w) = Len(x) + Len(w)
          /\ \A i \in 1 .. Len(x) : (x \o w)[i] = x[i]
      BY <2>2, JoinFirst
    <3> QED BY <1>p, <2>2, <2>p, <3>1
  <2>4. \A i \in 1 .. k : v[a + i] = w[i]
    <3>1. \A i \in 1 .. Len(w) : (x \o w)[Len(x) + i] = w[i]
      BY <2>2, JoinLast
    <3> QED BY <1>p, <2>2, <2>p, <3>1
  <2>5. \A i \in 1 .. Len(u) : u[i] = v[i]
    <3> TAKE i \in 1 .. Len(u)
    <3>1. i \in 1 .. a + k
      BY <2>1
    <3>2. CASE i <= a
      <4>1. i \in 1 .. a
        BY <1>1, <3>1, <3>2
      <4> QED BY <1>1, <2>1, <2>3, <3>1, <4>1
    <3>3. CASE ~(i <= a)
      <4>p. PICK j : j = i - a
        OBVIOUS
      <4>1. j \in 1 .. k /\ j \in 1 .. b /\ i = a + j
        BY <1>1, <3>1, <3>3, <4>p
      <4> QED BY <1>2, <2>1, <2>2, <2>4, <3>1, <4>1
    <3> QED BY <3>2, <3>3
  <2> QED BY <2>1, <2>3, <2>5, <2>p, SameBytes
<1>5. From(xy, a + 1) = y
  BY <1>1, <1>2 DEF From
<1> QED BY <1>3, <1>4, <1>5, <1>p

(* A part closes the text, or goes on with what follows it; and what cannot
   be read is no text (parse_text).                                         *)
LEMMA TextSteps ==
    ASSUME NEW data \in Bytes, NEW y, NEW s \in 0 .. Len(data),
           NEW next, next = ParseAt(data)
    PROVE  /\ next = Malformed => ParseText(data) = Malformed
           /\ next # Malformed /\ next.apdu = y /\ next.size = s /\ y.tag = TextLast
                 => ParseText(data) = TextOf(y.body, s)
           /\ next # Malformed /\ next.apdu = y /\ next.size = s /\ y.tag = TextMore
                 => LET after == ParseAt(From(data, s + 1))
                    IN  /\ after = Malformed => ParseText(data) = Malformed
                        /\ after # Malformed /\ after.apdu.tag = TextLast
                           /\ TextOf(after.apdu.body, after.size) # Malformed
                              => ParseText(data) =
                                    TextOf(y.body \o after.apdu.body, s + after.size)
<1>1. PICK text : Chains(data, text) /\ ParseText(data) = text[0]
  BY TextChains
<1>2. Len(data) \in Nat /\ From(data, 0 + 1) = data /\ TextMore # TextLast
  <2>1. Len(data) \in Nat /\ SubSeq(data, 1, Len(data)) = data
    BY SubSeqFull DEF Bytes
  <2>2. TextMore[3] = 4 /\ TextLast[3] = 3
    BY DEF TextMore, TextLast, Tag
  <2> QED BY <2>1, <2>2 DEF From
<1>3. 0 \in 0 .. Len(data)
  BY <1>2
<1>4. text[0] = IF next = Malformed THEN Malformed
                ELSE IF next.apdu.tag = TextLast THEN TextOf(next.apdu.body, next.size)
                ELSE IF next.apdu.tag = TextMore /\ text[0 + next.size] # Malformed
                THEN TextOf(next.apdu.body \o text[0 + next.size].value,
                            next.size + text[0 + next.size].size)
                ELSE Malformed
  <2>1. LET following == ParseAt(From(data, 0 + 1))
        IN  text[0] = IF following = Malformed THEN Malformed
                ELSE IF following.apdu.tag = TextLast
                THEN TextOf(following.apdu.body, following.size)
                ELSE IF following.apdu.tag = TextMore /\ text[0 + following.size] # Malformed
                THEN TextOf(following.apdu.body \o text[0 + following.size].value,
                            following.size + text[0 + following.size].size)
                ELSE Malformed
    BY <1>1, <1>3 DEF Chains
  <2>2. ParseAt(From(data, 0 + 1)) = next
    BY <1>2
  <2> QED BY <2>1, <2>2
<1>5. ASSUME next # Malformed, next.apdu = y, next.size = s, y.tag = TextMore
      PROVE  LET after == ParseAt(From(data, s + 1))
             IN  /\ after = Malformed => ParseText(data) = Malformed
                 /\ after # Malformed /\ after.apdu.tag = TextLast
                    /\ TextOf(after.apdu.body, after.size) # Malformed
                       => ParseText(data) = TextOf(y.body \o after.apdu.body, s + after.size)
  <2>p. PICK after : after = ParseAt(From(data, s + 1))
    OBVIOUS
  <2>q. PICK following : following = text[s]
    OBVIOUS
  <2>1. after = Malformed => following = Malformed
    BY <1>1, <2>p, <2>q DEF Chains
  <2>2. after # Malformed /\ after.apdu.tag = TextLast
           => following = TextOf(after.apdu.body, after.size)
    BY <1>1, <2>p, <2>q DEF Chains
  <2>3. text[0] = IF following # Malformed
                  THEN TextOf(y.body \o following.value, s + following.size) ELSE Malformed
    <3>1. 0 + s = s
      BY <1>2
    <3> QED BY <1>2, <1>4, <1>5, <2>q, <3>1
  <2>4. \A body, size : TextOf(body, size).value = body /\ TextOf(body, size).size = size
    BY DEF TextOf
  <2> QED BY <1>1, <2>1, <2>2, <2>3, <2>4, <2>p
<1> QED BY <1>1, <1>4, <1>5

(* A text that was read is not an error.                                    *)
LEMMA TextIsOne ==
    ASSUME NEW value \in Bytes, NEW size \in Nat
    PROVE  TextOf(value, size) # Malformed
<1>1. TextOf(value, size) \in [value : Seq(Nat), size : Nat]
  BY DEF TextOf, Bytes
<1> QED BY <1>1, WireAssumption DEF Sizes

(* A text is read as it was composed whatever follows it, and is refused    *)
(* when any of it is missing at the end (parse_text).                       *)
ReadsBack(text, block) ==
    /\ block \in Bytes /\ Len(block) \in Nat /\ Len(block) >= 1
    /\ \A rest \in Bytes : ParseText(block \o rest) = TextOf(text, Len(block))
    /\ \A k \in 0 .. Len(block) - 1 : ParseText(SubSeq(block, 1, k)) = Malformed
    /\ TextOf(text, Len(block)) # Malformed

(* A part of a text is an object.                                           *)
LEMMA PartIsObject ==
    ASSUME NEW tag \in {TextLast, TextMore}, NEW body \in Bytes, Len(body) \in U16
    PROVE  /\ Apdu(tag, body) \in Objects
           /\ Apdu(tag, body).tag = tag /\ Apdu(tag, body).body = body
<1>1. TextMore \in Bytes /\ TextLast \in Bytes /\ Len(TextMore) = 3 /\ Len(TextLast) = 3
  BY DEF Bytes, TextMore, TextLast, Tag
<1>2. tag \in Bytes /\ Len(tag) = 3
  BY <1>1
<1> QED BY <1>2 DEF Apdu, Objects, IsObject, Bytes

(* A text in one part is read back, and refused when it is cut short.       *)
LEMMA OnePart ==
    ASSUME NEW text \in Bytes, Len(text) \in U16
    PROVE  ReadsBack(text, BuildApdu(Apdu(TextLast, text)))
<1>p. PICK y, x : y = Apdu(TextLast, text) /\ x = BuildApdu(y)
  OBVIOUS
<1>1. y \in Objects /\ y.tag = TextLast /\ y.body = text
  BY <1>p, PartIsObject
<1>2. /\ x \in Bytes /\ Len(x) \in Nat /\ Len(x) >= 4 + Len(y.body)
      /\ \A rest \in Bytes : ParseAt(x \o rest) = [apdu |-> y, size |-> Len(x)]
      /\ \A k \in 0 .. Len(x) - 1 : ParseAt(SubSeq(x, 1, k)) = Malformed
      /\ [apdu |-> y, size |-> Len(x)] # Malformed
  BY <1>1, <1>p, ObjectBuilt
<1>3. Len(x) >= 1
  <2>1. Len(y.body) \in Nat
    BY <1>1 DEF Bytes
  <2> QED BY <1>2, <2>1
<1>4. ASSUME NEW rest \in Bytes PROVE ParseText(x \o rest) = TextOf(text, Len(x))
  <2>p. PICK data, next : data = x \o rest /\ next = ParseAt(data)
    OBVIOUS
  <2>1. data \in Bytes /\ Len(data) = Len(x) + Len(rest) /\ Len(rest) \in Nat
    BY <1>2, <2>p, JoinFirst
  <2>2. next # Malformed /\ next.apdu = y /\ next.size = Len(x)
    BY <1>2, <2>p
  <2>q. PICK s : s = Len(x)
    OBVIOUS
  <2>3. s \in 0 .. Len(data) /\ next.size = s
    BY <1>2, <2>1, <2>2, <2>q
  <2>4. ParseText(data) = TextOf(y.body, s)
    <3>1. /\ data \in Bytes /\ s \in 0 .. Len(data) /\ next = ParseAt(data)
          /\ next # Malformed /\ next.apdu = y /\ next.size = s /\ y.tag = TextLast
      BY <1>1, <2>1, <2>2, <2>3, <2>p
    <3> QED BY <3>1, TextSteps
  <2> QED BY <1>1, <2>4, <2>p, <2>q
<1>5. ASSUME NEW k \in 0 .. Len(x) - 1 PROVE ParseText(SubSeq(x, 1, k)) = Malformed
  <2>p. PICK data : data = SubSeq(x, 1, k)
    OBVIOUS
  <2>1. data \in Bytes /\ 0 \in 0 .. Len(data)
    <3>1. k \in 0 .. Len(x)
      BY <1>2
    <3>2. data \in Bytes /\ Len(data) = k
      BY <1>2, <2>p, <3>1, CutFirst
    <3> QED BY <3>2
  <2>2. ParseAt(data) = Malformed
    BY <1>2, <2>p
  <2> QED BY <2>1, <2>2, <2>p, TextSteps
<1>6. TextOf(text, Len(x)) # Malformed
  BY <1>2, TextIsOne
<1> QED BY <1>2, <1>3, <1>4, <1>5, <1>6, <1>p DEF ReadsBack

(* Two parts: the first byte, and the rest of the text.                     *)
LEMMA TwoParts ==
    ASSUME NEW first \in Bytes, Len(first) \in U16, NEW more \in Bytes, Len(more) \in U16
    PROVE  ReadsBack(first \o more, BuildApdu(Apdu(TextMore, first)) \o
                                       BuildApdu(Apdu(TextLast, more)))
<1>p. PICK a, b, x, y, block, text :
          /\ a = Apdu(TextMore, first) /\ b = Apdu(TextLast, more)
          /\ x = BuildApdu(a) /\ y = BuildApdu(b) /\ block = x \o y /\ text = first \o more
  OBVIOUS
<1>1. /\ a \in Objects /\ a.tag = TextMore /\ a.body = first
      /\ b \in Objects /\ b.tag = TextLast /\ b.body = more
  <2>1. a \in Objects /\ a.tag = TextMore /\ a.body = first
    BY <1>p, PartIsObject
  <2>2. b \in Objects /\ b.tag = TextLast /\ b.body = more
    BY <1>p, PartIsObject
  <2> QED BY <2>1, <2>2
<1>2. /\ x \in Bytes /\ Len(x) \in Nat
      /\ \A rest \in Bytes : ParseAt(x \o rest) = [apdu |-> a, size |-> Len(x)]
      /\ \A k \in 0 .. Len(x) - 1 : ParseAt(SubSeq(x, 1, k)) = Malformed
      /\ [apdu |-> a, size |-> Len(x)] # Malformed
  BY <1>1, <1>p, ObjectBuilt
<1>3. /\ y \in Bytes /\ Len(y) \in Nat /\ Len(y) >= 4 + Len(b.body)
      /\ \A rest \in Bytes : ParseAt(y \o rest) = [apdu |-> b, size |-> Len(y)]
      /\ \A k \in 0 .. Len(y) - 1 : ParseAt(SubSeq(y, 1, k)) = Malformed
      /\ [apdu |-> b, size |-> Len(y)] # Malformed
  BY <1>1, <1>p, ObjectBuilt
<1>4. block \in Bytes /\ Len(block) = Len(x) + Len(y) /\ text \in Bytes
  BY <1>2, <1>3, <1>p, JoinFirst
<1>5. Len(block) \in Nat /\ Len(block) >= 1
  <2>1. Len(b.body) \in Nat
    BY <1>1 DEF Bytes
  <2> QED BY <1>2, <1>3, <1>4, <2>1
<1>6. ASSUME NEW z \in Bytes, NEW data, data = x \o z, NEW after, after = ParseAt(z)
      PROVE  /\ after = Malformed => ParseText(data) = Malformed
             /\ after # Malformed /\ after.apdu = b /\ after.size = Len(y)
                   => ParseText(data) = TextOf(text, Len(block))
  <2>1. data \in Bytes /\ Len(data) = Len(x) + Len(z) /\ Len(z) \in Nat
    BY <1>2, <1>6, JoinFirst
  <2>2. Len(x) \in 0 .. Len(data)
    BY <1>2, <2>1
  <2>p. PICK next : next = ParseAt(data)
    OBVIOUS
  <2>3. next # Malformed /\ next.apdu = a /\ next.size = Len(x)
    BY <1>2, <1>6, <2>p
  <2>4. From(data, Len(x) + 1) = z
    BY <1>2, <1>6, CutJoined
  <2>q. PICK s : s = Len(x)
    OBVIOUS
  <2>5. /\ after = Malformed => ParseText(data) = Malformed
        /\ after # Malformed /\ after.apdu.tag = TextLast
           /\ TextOf(after.apdu.body, after.size) # Malformed
              => ParseText(data) = TextOf(a.body \o after.apdu.body, s + after.size)
    <3>1. ParseAt(From(data, s + 1)) = after /\ s \in 0 .. Len(data) /\ next.size = s
      BY <1>6, <2>2, <2>3, <2>4, <2>q
    <3> QED BY <1>1, <2>1, <2>3, <2>p, <3>1, TextSteps
  <2>6. TextOf(more, Len(y)) # Malformed
    BY <1>3, TextIsOne
  <2>7. CASE after # Malformed /\ after.apdu = b /\ after.size = Len(y)
    <3>1. after.apdu.tag = TextLast /\ after.apdu.body = more
      BY <1>1, <2>7
    <3>2. TextOf(after.apdu.body, after.size) # Malformed
      BY <2>6, <2>7, <3>1
    <3>3. ParseText(data) = TextOf(a.body \o after.apdu.body, s + after.size)
      BY <2>5, <2>7, <3>1, <3>2
    <3>4. a.body \o after.apdu.body = text /\ s + after.size = Len(block)
      BY <1>1, <1>4, <1>p, <2>7, <2>q, <3>1
    <3> QED BY <2>5, <3>3, <3>4, <2>7
  <2> QED BY <2>5, <2>7
<1>7. ASSUME NEW rest \in Bytes PROVE ParseText(block \o rest) = TextOf(text, Len(block))
  <2>p. PICK z, data, after : z = y \o rest /\ data = x \o z /\ after = ParseAt(z)
    OBVIOUS
  <2>1. block \o rest = data /\ z \in Bytes
    <3>1. (x \o y) \o rest = x \o (y \o rest)
      BY <1>2, <1>3, Regroup
    <3>2. y \o rest \in Bytes
      BY <1>3, JoinFirst
    <3> QED BY <1>p, <2>p, <3>1, <3>2
  <2>2. after # Malformed /\ after.apdu = b /\ after.size = Len(y)
    BY <1>3, <2>p
  <2> QED BY <1>6, <2>1, <2>2, <2>p
<1>8. ASSUME NEW k \in 0 .. Len(block) - 1 PROVE ParseText(SubSeq(block, 1, k)) = Malformed
  <2>1. CASE k < Len(x)
    <3>1. k \in 0 .. Len(x) /\ k \in 0 .. Len(x) - 1 /\ k \in 0 .. Len(block)
      BY <1>2, <1>5, <2>1
    <3>p. PICK data : data = SubSeq(block, 1, k)
      OBVIOUS
    <3>2. data = SubSeq(x, 1, k)
      BY <1>2, <1>3, <1>p, <3>1, <3>p, CutJoined
    <3>3. ParseAt(data) = Malformed
      BY <1>2, <3>1, <3>2
    <3>4. data \in Bytes /\ Len(data) = k
      BY <1>4, <3>1, <3>p, CutFirst
    <3>5. 0 \in 0 .. Len(data)
      BY <3>1, <3>4
    <3> QED BY <3>3, <3>4, <3>5, <3>p, TextSteps
  <2>2. CASE ~(k < Len(x))
    <3>p. PICK j, z, after : j = k - Len(x) /\ z = SubSeq(y, 1, j) /\ after = ParseAt(z)
      OBVIOUS
    <3>1. j \in 0 .. Len(y) /\ j \in 0 .. Len(y) - 1 /\ k = Len(x) + j
      <4>1. \A m, l \in Nat : \A i \in 0 .. m + l - 1 : ~(i < m) =>
               i - m \in 0 .. l /\ i - m \in 0 .. l - 1 /\ i = m + (i - m)
        OBVIOUS
      <4>2. k \in 0 .. Len(x) + Len(y) - 1
        BY <1>4
      <4> QED BY <1>2, <1>3, <2>2, <3>p, <4>1, <4>2
    <3>2. SubSeq(block, 1, k) = x \o z
      BY <1>2, <1>3, <1>p, <3>1, <3>p, CutJoined
    <3>3. after = Malformed
      BY <1>3, <3>1, <3>p
    <3>4. z \in Bytes
      BY <1>3, <3>1, <3>p, CutFirst
    <3> QED BY <1>6, <3>2, <3>3, <3>4, <3>p
  <2> QED BY <2>1, <2>2
<1>9. TextOf(text, Len(block)) # Malformed
  BY <1>4, <1>5, TextIsOne
<1> QED BY <1>4, <1>5, <1>7, <1>8, <1>9, <1>p DEF ReadsBack

(* src/src/ca/resource/mmi.rs:61-79: a text, in one object or two.          *)
LEMMA TextBuilt ==
    ASSUME NEW text \in Bytes, Len(text) \in U16
    PROVE  ReadsBack(text, TextObject(text))
<1>1. Len(text) \in Nat
  BY DEF Bytes
<1>2. CASE Len(text) > 1
  <2>p. PICK first, more : first = << text[1] >> /\ more = Tail(text)
    OBVIOUS
  <2>1. /\ first \in Bytes /\ Len(first) = 1 /\ more \in Bytes /\ Len(more) = Len(text) - 1
        /\ first \o more = text
    BY <1>1, <1>2, <2>p DEF Bytes
  <2>2. Len(first) \in U16 /\ Len(more) \in U16
    <3>1. 1 <= Len(text) /\ Len(text) - 1 \in Nat /\ Len(text) - 1 <= Len(text)
      BY <1>1, <1>2
    <3> QED BY <2>1, <3>1, FitsBelow
  <2>3. ReadsBack(text, BuildApdu(Apdu(TextMore, first)) \o BuildApdu(Apdu(TextLast, more)))
    BY <2>1, <2>2, TwoParts
  <2> QED BY <1>2, <2>3, <2>p DEF TextObject
<1>3. CASE ~(Len(text) > 1)
  BY <1>3, OnePart DEF TextObject
<1> QED BY <1>2, <1>3

(* parse_menu() as it goes along: a text, then what follows it, up to the
   first one that is damaged.                                               *)
TextChain(data, texts) ==
    \A i \in 0 .. Len(data) :
        LET next == ParseText(From(data, i + 1))
        IN  texts[i] = IF next = Malformed THEN <<>>
                       ELSE << next.value >> \o texts[i + next.size]

(* The texts are read one behind another.                                   *)
LEMMA TextsIterate ==
    ASSUME NEW data \in Bytes
    PROVE  \E texts : TextChain(data, texts) /\ ParseTexts(data) = texts[0]
<1> DEFINE n == Len(data)
           next(i) == ParseText(From(data, i + 1))
           stops == [i \in 0 .. n |-> next(i) = Malformed]
           stop == [i \in 0 .. n |-> <<>>]
           item == [i \in 0 .. n |-> next(i).value]
           size == [i \in 0 .. n |-> next(i).size]
           Goes(f, i) == IF next(i) = Malformed THEN <<>>
                         ELSE << next(i).value >> \o f[i + next(i).size]
<1>1. n \in Nat
  BY DEF Bytes
<1>2. \A i \in 0 .. n : ~stops[i] => size[i] \in 1 .. n - i
  <2> TAKE i \in 0 .. n
  <2> HAVE ~stops[i]
  <2>p. PICK rest, piece : rest = From(data, i + 1) /\ piece = ParseText(rest)
    OBVIOUS
  <2>1. rest \in Bytes /\ Len(rest) = n - i
    BY <2>p, FromBytes
  <2>2. piece # Malformed
    BY <2>p
  <2>3. piece.size \in 1 .. Len(rest)
    BY <2>1, <2>2, <2>p, TextSize DEF IsText
  <2> QED BY <2>1, <2>3, <2>p
<1>3. PICK f : Collected(FALSE, n, stops, stop, item, size, f)
  <2>1. GoesOn(n, stops, size)
    <3> HIDE DEF n, stops, stop, item, size
    <3> QED BY <1>2 DEF GoesOn
  <2> HIDE DEF n, stops, stop, item, size
  <2> QED BY <1>1, <2>1, FromAbove
<1>4. \A i \in 0 .. n : f[i] = Goes(f, i)
  <2> TAKE i \in 0 .. n
  <2>1. f[i] = IF stops[i] THEN stop[i] ELSE Gains(FALSE, item[i], size[i], f[i + size[i]])
    <3> HIDE DEF n, stops, stop, item, size, next
    <3> QED BY <1>3 DEF Collected
  <2>2. /\ stops[i] = (next(i) = Malformed) /\ stop[i] = <<>>
        /\ item[i] = next(i).value /\ size[i] = next(i).size
    <3> HIDE DEF next
    <3> QED OBVIOUS
  <2> HIDE DEF n, stops, stop, item, size, next
  <2> QED BY <2>1, <2>2 DEF Gains
<1>5. f = [i \in 0 .. n |-> Goes(f, i)]
  <2>1. f = [i \in 0 .. n |-> f[i]]
    <3> HIDE DEF n, stops, stop, item, size, next
    <3> QED BY <1>3 DEF Collected
  <2> HIDE DEF Goes
  <2> QED BY <1>4, <2>1
<1> DEFINE texts == CHOOSE g : g = [i \in 0 .. n |-> Goes(g, i)]
<1>6. texts = [i \in 0 .. n |-> Goes(texts, i)]
  <2> HIDE DEF Goes
  <2> QED BY <1>5
<1>7. ParseTexts(data) = texts[0]
  BY DEF ParseTexts
<1>8. TextChain(data, texts)
  <2>1. \A i \in 0 .. n : texts[i] = Goes(texts, i)
    <3> HIDE DEF Goes, texts
    <3> QED BY <1>6
  <2> HIDE DEF texts
  <2> QED BY <2>1 DEF TextChain
<1> HIDE DEF texts
<1> QED BY <1>7, <1>8

(* Where the first i of some byte strings end in all of them joined.        *)
BlocksEnd(ss, i) == Len(FlattenSeq(SubSeq(ss, 1, i)))

(* Each ends as many bytes after the one before as it is long.              *)
LEMMA BlocksGrow ==
    ASSUME NEW ss \in Seq(Bytes)
    PROVE  /\ BlocksEnd(ss, 0) = 0 /\ BlocksEnd(ss, Len(ss)) = Len(FlattenSeq(ss))
           /\ \A i \in 0 .. Len(ss) : BlocksEnd(ss, i) \in Nat
           /\ \A i \in 1 .. Len(ss) : BlocksEnd(ss, i) = BlocksEnd(ss, i - 1) + Len(ss[i])
<1>1. SubSeq(ss, 1, 0) = <<>> /\ SubSeq(ss, 1, Len(ss)) = ss
  BY SubSeqEmpty, SubSeqFull
<1>2. BlocksEnd(ss, 0) = 0 /\ BlocksEnd(ss, Len(ss)) = Len(FlattenSeq(ss))
  <2>1. Len(<<>>) = 0
    OBVIOUS
  <2>2. BlocksEnd(ss, 0) = Len(<<>>)
    BY <1>1, FlattenNone DEF BlocksEnd
  <2>3. BlocksEnd(ss, Len(ss)) = Len(FlattenSeq(ss))
    BY <1>1 DEF BlocksEnd
  <2> QED BY <2>1, <2>2, <2>3
<1>3. ASSUME NEW i \in 1 .. Len(ss)
      PROVE  /\ BlocksEnd(ss, i) \in Nat
             /\ BlocksEnd(ss, i) = BlocksEnd(ss, i - 1) + Len(ss[i])
  <2>p. PICK a, x, b : a = SubSeq(ss, 1, i - 1) /\ x = ss[i] /\ b = FlattenSeq(a)
    OBVIOUS
  <2>1. a \in Seq(Bytes) /\ x \in Bytes /\ SubSeq(ss, 1, i) = Append(a, x)
    BY <2>p, PrefixGrows
  <2>2. b \in Bytes /\ FlattenSeq(Append(a, x)) = b \o x
    BY <2>1, <2>p, FlattenOne, FlattenType
  <2>3. Len(b \o x) = Len(b) + Len(x)
    BY <2>1, <2>2, JoinFirst
  <2>4. Len(b) \in Nat /\ Len(x) \in Nat
    BY <2>1, <2>2 DEF Bytes
  <2>5. BlocksEnd(ss, i) = Len(b \o x)
    BY <2>1, <2>2 DEF BlocksEnd
  <2>6. BlocksEnd(ss, i - 1) = Len(b)
    BY <2>p DEF BlocksEnd
  <2>7. BlocksEnd(ss, i) = BlocksEnd(ss, i - 1) + Len(x) /\ BlocksEnd(ss, i) \in Nat
    <3>1. \A k, l \in Nat : k + l \in Nat
      OBVIOUS
    <3>2. Len(b) + Len(x) \in Nat
      BY <2>4, <3>1
    <3> QED BY <2>3, <2>5, <2>6, <3>2
  <2> QED BY <2>7, <2>p
<1>4. \A i \in 0 .. Len(ss) : BlocksEnd(ss, i) \in Nat
  <2> TAKE i \in 0 .. Len(ss)
  <2>1. CASE i = 0
    BY <1>2, <2>1
  <2>2. CASE i # 0
    <3>1. i \in 1 .. Len(ss)
      BY <2>2
    <3> QED BY <1>3, <3>1
  <2> QED BY <2>1, <2>2
<1> QED BY <1>2, <1>3, <1>4

(* Each stands where the one before it ends.                               *)
LEMMA BlocksStand ==
    ASSUME NEW ss \in Seq(Bytes)
    PROVE  /\ FlattenSeq(ss) \in Bytes
           /\ \A i \in 1 .. Len(ss) : StandsAt(FlattenSeq(ss), BlocksEnd(ss, i - 1), ss[i])
<1> DEFINE n == Len(ss)
           part(i) == FlattenSeq(SubSeq(ss, 1, i))
           Opens(i) == \E rest \in Bytes : FlattenSeq(ss) = part(i) \o rest
           T == {i \in 0 .. n : Opens(i)}
<1>0. FlattenSeq(ss) \in Bytes
  BY FlattenType
<1>1. n \in Nat /\ \A i \in 0 .. n : part(i) \in Bytes
  <2>1. \A i \in 0 .. n : SubSeq(ss, 1, i) \in Seq(Bytes)
    <3> TAKE i \in 0 .. n
    <3>1. CASE i = n
      BY <3>1, SubSeqFull
    <3>2. CASE i # n
      <4>1. i + 1 \in 1 .. Len(ss) /\ i + 1 - 1 = i
        BY <3>2
      <4> QED BY <4>1, PrefixGrows
    <3> QED BY <3>1, <3>2
  <2>3. n \in Nat
    OBVIOUS
  <2>4. \A i \in 0 .. n : part(i) \in Bytes
    <3> HIDE DEF n
    <3> QED BY <2>1, FlattenType
  <2> QED BY <2>3, <2>4
<1>2. ASSUME NEW i \in 1 .. n
      PROVE  part(i) = part(i - 1) \o ss[i] /\ ss[i] \in Bytes
  <2>p. PICK a, x : a = SubSeq(ss, 1, i - 1) /\ x = ss[i]
    OBVIOUS
  <2>1. a \in Seq(Bytes) /\ x \in Bytes /\ SubSeq(ss, 1, i) = Append(a, x)
    BY <2>p, PrefixGrows
  <2>2. FlattenSeq(Append(a, x)) = FlattenSeq(a) \o x
    BY <2>1, FlattenOne
  <2> QED BY <2>1, <2>2, <2>p
<1>3. ASSUME NEW i \in 0 .. n, i + 1 .. n \subseteq T PROVE i \in T
  <2>1. CASE i = n
    <3>1. part(n) = FlattenSeq(ss)
      BY SubSeqFull
    <3>2. FlattenSeq(ss) \o <<>> = FlattenSeq(ss) /\ <<>> \in Bytes
      <4>1. FlattenSeq(ss) \in Seq(Nat)
        BY <1>0 DEF Bytes
      <4> QED BY <4>1, ConcatEmptySeq DEF Bytes
    <3>3. Opens(n)
      BY <3>1, <3>2
    <3> HIDE DEF Opens
    <3> QED BY <2>1, <3>3
  <2>2. CASE i # n
    <3>1. i + 1 \in T /\ i + 1 \in 1 .. n /\ i + 1 - 1 = i
      <4> HIDE DEF T
      <4> QED BY <1>3, <1>1, <2>2
    <3>2. Opens(i + 1)
      <4> HIDE DEF Opens
      <4> QED BY <3>1
    <3>3. PICK rest \in Bytes : FlattenSeq(ss) = part(i + 1) \o rest
      BY <3>2
    <3>p. PICK a, b, j : a = part(i) /\ b = ss[i + 1] /\ j = i + 1
      OBVIOUS
    <3>4. a \in Bytes /\ b \in Bytes /\ part(i + 1) = a \o b
      <4>1. j \in 1 .. n
        BY <3>1, <3>p
      <4>2. part(j) = part(j - 1) \o ss[j] /\ ss[j] \in Bytes
        <5> HIDE DEF part
        <5> QED BY <1>2, <4>1
      <4> HIDE DEF part
      <4> QED BY <1>1, <3>1, <3>p, <4>2
    <3>5. (a \o b) \o rest = a \o (b \o rest) /\ b \o rest \in Bytes
      BY <3>4, Regroup, JoinFirst
    <3>6. Opens(i)
      <4> HIDE DEF part
      <4> QED BY <3>3, <3>4, <3>5, <3>p
    <3> HIDE DEF Opens
    <3> QED BY <3>6
  <2> QED BY <2>1, <2>2
<1>4. T = 0 .. n
  <2>1. T \in SUBSET (0 .. n)
    <3> HIDE DEF Opens
    <3> QED OBVIOUS
  <2> HIDE DEF T
  <2> QED BY <1>1, <1>3, <2>1, Downwards
<1>5. ASSUME NEW i \in 1 .. n
      PROVE  StandsAt(FlattenSeq(ss), BlocksEnd(ss, i - 1), ss[i])
  <2>1. Opens(i)
    <3>1. i \in T
      <4> HIDE DEF T
      <4> QED BY <1>4
    <3> HIDE DEF Opens
    <3> QED BY <3>1
  <2>2. PICK rest \in Bytes : FlattenSeq(ss) = part(i) \o rest
    BY <2>1
  <2>p. PICK a, b, c : a = part(i - 1) /\ b = ss[i] /\ c = FlattenSeq(ss)
    OBVIOUS
  <2>3. a \in Bytes /\ b \in Bytes /\ c = (a \o b) \o rest /\ Len(a) = BlocksEnd(ss, i - 1)
    <3>1. i - 1 \in 0 .. n
      BY <1>1
    <3>2. Len(a) = BlocksEnd(ss, i - 1)
      BY <2>p DEF BlocksEnd
    <3> HIDE DEF part
    <3> QED BY <1>1, <1>2, <2>2, <2>p, <3>1, <3>2
  <2>4. \A k \in 1 .. Len(b) : ((a \o b) \o rest)[Len(a) + k] = b[k]
    BY <2>3, JoinMiddle
  <2>5. \A k \in 1 .. Len(b) : c[Len(a) + k] = b[k]
    BY <2>3, <2>4
  <2> QED BY <2>3, <2>5, <2>p DEF StandsAt
<1> QED BY <1>0, <1>5

Texts == {text \in Bytes : Len(text) \in U16}

(* src/src/ca/resource/mmi.rs:61-79: of texts cut short anywhere, those that
   are whole are read, in their order, and nothing of the one that is not.  *)
LEMMA WholeTextsAreRead ==
    ASSUME NEW texts \in Seq(Texts),
           NEW ss, ss = [i \in DOMAIN texts |-> TextObject(texts[i])],
           NEW size \in 0 .. Len(FlattenSeq(ss)), NEW w \in 0 .. Len(texts),
           \A i \in 0 .. w : BlocksEnd(ss, i) <= size,
           \A i \in w + 1 .. Len(texts) : size < BlocksEnd(ss, i)
    PROVE  ParseTexts(SubSeq(FlattenSeq(ss), 1, size)) = SubSeq(texts, 1, w)
<1>p. PICK n, c, data, e : /\ n = Len(texts) /\ c = FlattenSeq(ss)
                           /\ data = SubSeq(c, 1, size)
                           /\ e = [i \in 0 .. n |-> BlocksEnd(ss, i)]
  OBVIOUS
<1>0. /\ n \in Nat /\ DOMAIN texts = 1 .. n
      /\ \A i \in 1 .. n : texts[i] \in Texts /\ ss[i] = TextObject(texts[i])
                           /\ ReadsBack(texts[i], ss[i]) /\ ss[i] \in Bytes
  <2>1. n \in Nat /\ DOMAIN texts = 1 .. n
    BY <1>p
  <2>2. ASSUME NEW i \in 1 .. n
        PROVE  texts[i] \in Texts /\ ss[i] = TextObject(texts[i])
               /\ ReadsBack(texts[i], ss[i]) /\ ss[i] \in Bytes
    <3>1. texts[i] \in Texts /\ ss[i] = TextObject(texts[i])
      BY <1>p
    <3>2. ReadsBack(texts[i], TextObject(texts[i]))
      BY <3>1, TextBuilt DEF Texts
    <3> QED BY <3>1, <3>2 DEF ReadsBack
  <2> QED BY <2>1, <2>2
<1>b. ss \in Seq(Bytes) /\ Len(ss) = n
  BY <1>0
<1>1. c \in Bytes /\ Len(c) \in Nat /\ size \in 0 .. Len(c) /\ size \in Nat
  <2>1. c \in Bytes
    BY <1>b, <1>p, BlocksStand
  <2> QED BY <1>p, <2>1 DEF Bytes
<1>2. data \in Bytes /\ Len(data) = size /\ \A k \in 1 .. size : data[k] = c[k]
  BY <1>1, <1>p, CutFirst
<1>3. /\ e[0] = 0 /\ e[n] = Len(c) /\ \A i \in 0 .. n : e[i] \in Nat
      /\ \A i \in 1 .. n : e[i] = e[i - 1] + Len(ss[i])
  <2>1. /\ BlocksEnd(ss, 0) = 0 /\ BlocksEnd(ss, n) = Len(c)
        /\ \A i \in 0 .. n : BlocksEnd(ss, i) \in Nat
        /\ \A i \in 1 .. n : BlocksEnd(ss, i) = BlocksEnd(ss, i - 1) + Len(ss[i])
    BY <1>b, <1>p, BlocksGrow
  <2>2. 0 \in 0 .. n /\ n \in 0 .. n /\ \A i \in 1 .. n : i \in 0 .. n /\ i - 1 \in 0 .. n
    BY <1>0
  <2>3. \A i \in 0 .. n : e[i] = BlocksEnd(ss, i)
    BY <1>p
  <2> QED BY <2>1, <2>2, <2>3
<1>4. w \in 0 .. n /\ w \in Nat /\ \A i \in 0 .. w : e[i] <= size
  <2>1. w \in 0 .. n /\ w \in Nat /\ \A i \in 0 .. w : i \in 0 .. n
    BY <1>0, <1>p
  <2> QED BY <1>p, <2>1
<1>5. \A i \in w + 1 .. n : size < e[i]
  <2>1. \A i \in w + 1 .. n : i \in 0 .. n
    BY <1>0, <1>4
  <2> QED BY <1>p, <2>1
<1>6. PICK got : TextChain(data, got) /\ ParseTexts(data) = got[0]
  BY <1>2, TextsIterate
<1>7. ASSUME NEW i \in 1 .. n
      PROVE  StandsAt(data, e[i - 1], ss[i])
  <2>1. i - 1 \in 0 .. n
    BY <1>0
  <2>2. StandsAt(c, e[i - 1], ss[i])
    <3>1. e[i - 1] = BlocksEnd(ss, i - 1)
      BY <1>p, <2>1
    <3> QED BY <1>b, <1>p, <3>1, BlocksStand
  <2>3. ASSUME NEW k \in 1 .. Len(ss[i]), e[i - 1] + k <= Len(data)
        PROVE  data[e[i - 1] + k] = ss[i][k]
    <3>1. Len(ss[i]) \in Nat /\ e[i - 1] \in Nat
      BY <1>0, <1>3, <2>1 DEF Bytes
    <3>2. e[i - 1] + k \in 1 .. size /\ e[i - 1] + k <= Len(c)
      BY <1>1, <1>2, <2>3, <3>1
    <3>3. c[e[i - 1] + k] = ss[i][k]
      BY <2>2, <3>2 DEF StandsAt
    <3> QED BY <1>2, <3>2, <3>3
  <2> QED BY <2>3 DEF StandsAt
<1> DEFINE T == {i \in 0 .. n : i <= w => got[e[i]] = SubSeq(texts, i + 1, w)}
<1>8. ASSUME NEW i \in 0 .. n, i + 1 .. n \subseteq T PROVE i \in T
  <2>1. CASE i > w
    BY <1>4, <2>1
  <2>2. CASE i = w
    <3>1. SubSeq(texts, w + 1, w) = <<>>
      BY <1>4, SubSeqEmpty
    <3>p. PICK place, d : place = e[w] /\ d = From(data, place + 1)
      OBVIOUS
    <3>2. place \in 0 .. size /\ place \in 0 .. Len(data)
      BY <1>1, <1>2, <1>3, <1>4, <3>p
    <3>3. ParseText(d) = Malformed
      <4>1. CASE place = size
        <5>1. d \in Bytes /\ Len(d) = 0
          BY <1>2, <3>2, <3>p, <4>1, FromBytes
        <5>2. ParseAt(d) = Malformed
          BY <5>1 DEF ParseAt
        <5> QED BY <5>1, <5>2, TextSteps
      <4>2. CASE place # size
        <5>p. PICK j : j = w + 1
          OBVIOUS
        <5>1. j \in 1 .. n /\ j - 1 = w /\ j \in w + 1 .. n
          <6>1. w # n
            BY <1>1, <1>3, <1>4, <3>p, <4>2
          <6> QED BY <1>0, <1>4, <5>p, <6>1
        <5>q. PICK x : x = ss[j]
          OBVIOUS
        <5>2. x \in Bytes /\ StandsAt(data, place, x) /\ Len(data) < place + Len(x)
          <6>1. e[j] = e[j - 1] + Len(x) /\ size < e[j]
            BY <1>3, <1>5, <5>1, <5>q
          <6>2. StandsAt(data, e[j - 1], x)
            BY <1>7, <5>1, <5>q
          <6> QED BY <1>0, <1>2, <3>p, <5>1, <5>q, <6>1, <6>2
        <5>3. /\ Len(data) - place \in 0 .. Len(x) - 1
              /\ d = SubSeq(x, 1, Len(data) - place)
          BY <1>2, <3>2, <3>p, <5>2, StandsCut
        <5> QED BY <1>0, <5>1, <5>3, <5>q DEF ReadsBack
      <4> QED BY <4>1, <4>2
    <3>4. got[place] = <<>>
      BY <1>6, <3>2, <3>3, <3>p DEF TextChain
    <3> QED BY <2>2, <3>1, <3>4, <3>p
  <2>3. CASE i < w
    <3>p. PICK j, place, x, y, d : /\ j = i + 1 /\ place = e[i] /\ x = ss[j] /\ y = texts[j]
                                   /\ d = From(data, place + 1)
      OBVIOUS
    <3>1. j \in 1 .. n /\ j - 1 = i /\ j <= w /\ j \in 0 .. w /\ j \in i + 1 .. n /\ j \in 0 .. n
      BY <1>0, <1>4, <2>3, <3>p
    <3>2. /\ e[j] = place + Len(x) /\ e[j] <= size /\ e[j] \in Nat /\ place \in Nat
          /\ x \in Bytes /\ ReadsBack(y, x)
      BY <1>0, <1>3, <1>4, <3>1, <3>p
    <3>3. place \in 0 .. Len(data) /\ place + Len(x) <= Len(data) /\ Len(x) \in Nat
      <4>1. Len(x) \in Nat
        BY <3>2 DEF Bytes
      <4> QED BY <1>1, <1>2, <3>2, <4>1
    <3>4. StandsAt(data, place, x)
      BY <1>7, <3>1, <3>p
    <3>5. PICK rest \in Bytes : d = x \o rest
      BY <1>2, <3>2, <3>3, <3>4, <3>p, StandsWhole
    <3>6. ParseText(d) = TextOf(y, Len(x)) /\ ParseText(d) # Malformed
      BY <3>2, <3>5 DEF ReadsBack
    <3>7. got[place] = << y >> \o got[e[j]]
      <4>1. got[place] = << ParseText(d).value >> \o got[place + ParseText(d).size]
        BY <1>6, <3>3, <3>6, <3>p DEF TextChain
      <4>2. ParseText(d).value = y /\ ParseText(d).size = Len(x)
        BY <3>6 DEF TextOf
      <4> QED BY <3>2, <4>1, <4>2
    <3>8. got[e[j]] = SubSeq(texts, j + 1, w)
      <4>1. j \in T
        <5> HIDE DEF T
        <5> QED BY <1>8, <3>1
      <4> QED BY <3>1, <4>1
    <3>9. SubSeq(texts, j, w) = << y >> \o SubSeq(texts, j + 1, w)
      <4>1. j \in 1 .. Len(texts) /\ w \in j .. Len(texts)
        BY <1>0, <1>4, <1>p, <3>1
      <4> QED BY <3>p, <4>1, SubSeqRecursiveFirst
    <3>10. got[e[i]] = SubSeq(texts, i + 1, w)
      BY <3>7, <3>8, <3>9, <3>p
    <3> QED BY <3>10
  <2> QED BY <1>4, <2>1, <2>2, <2>3
<1>9. T = 0 .. n
  <2>1. T \in SUBSET (0 .. n)
    OBVIOUS
  <2> HIDE DEF T
  <2> QED BY <1>0, <1>8, <2>1, Downwards
<1>10. got[0] = SubSeq(texts, 1, w)
  <2>1. 0 \in T
    <3> HIDE DEF T
    <3> QED BY <1>0, <1>9
  <2>2. 0 <= w /\ 0 + 1 = 1
    BY <1>4
  <2> QED BY <1>3, <2>1, <2>2
<1> QED BY <1>6, <1>10, <1>p

(* The first of some texts are the first of the objects they are in.        *)
LEMMA PrefixObjects ==
    ASSUME NEW texts \in Seq(Texts),
           NEW ss, ss = [i \in DOMAIN texts |-> TextObject(texts[i])],
           NEW m \in 0 .. Len(texts)
    PROVE  TextObjects(SubSeq(texts, 1, m)) = FlattenSeq(SubSeq(ss, 1, m))
<1>p. PICK some, tt, uu : /\ some = SubSeq(texts, 1, m) /\ uu = SubSeq(ss, 1, m)
                          /\ tt = [i \in DOMAIN some |-> TextObject(some[i])]
  OBVIOUS
<1>1. /\ \A i \in 1 .. Len(texts) : texts[i] \in Texts /\ ss[i] = TextObject(texts[i])
                                    /\ ss[i] \in Bytes
      /\ ss \in Seq(Bytes) /\ Len(ss) = Len(texts)
  <2>1. \A i \in 1 .. Len(texts) : texts[i] \in Texts /\ ss[i] = TextObject(texts[i])
    OBVIOUS
  <2>2. \A text \in Texts : TextObject(text) \in Bytes
    BY TextIsBytes DEF Texts
  <2> QED BY <2>1, <2>2
<1>2. /\ m \in Nat /\ \A i \in 1 .. m : i \in 1 .. Len(texts)
      /\ (IF 1 <= m THEN m - 1 + 1 ELSE 0) = m /\ m - 1 + 1 = m
      /\ \A i \in 1 .. m : 1 + i - 1 = i
  OBVIOUS
<1>3. some \in Seq(Texts) /\ Len(some) = m /\ \A i \in 1 .. m : some[i] = texts[i]
  <2>1. \A i \in 1 .. m : texts[i] \in Texts
    BY <1>1, <1>2
  <2>2. /\ some \in Seq(Texts) /\ Len(some) = IF 1 <= m THEN m - 1 + 1 ELSE 0
        /\ \A i \in 1 .. m - 1 + 1 : some[i] = texts[1 + i - 1]
    BY <1>2, <1>p, <2>1, SubSeqProperties
  <2> QED BY <1>2, <2>2
<1>4. uu \in Seq(Bytes) /\ Len(uu) = m /\ \A i \in 1 .. m : uu[i] = ss[i]
  <2>1. \A i \in 1 .. m : ss[i] \in Bytes
    BY <1>1, <1>2
  <2>2. /\ uu \in Seq(Bytes) /\ Len(uu) = IF 1 <= m THEN m - 1 + 1 ELSE 0
        /\ \A i \in 1 .. m - 1 + 1 : uu[i] = ss[1 + i - 1]
    BY <1>1, <1>2, <1>p, <2>1, SubSeqProperties
  <2> QED BY <1>2, <2>2
<1>5. tt \in Seq(Bytes) /\ Len(tt) = m /\ \A i \in 1 .. m : tt[i] = ss[i]
  <2>1. DOMAIN some = 1 .. m
    BY <1>3
  <2>2. \A i \in 1 .. m : tt[i] = TextObject(some[i])
    BY <1>p, <2>1
  <2>3. \A i \in 1 .. m : tt[i] = ss[i] /\ tt[i] \in Bytes
    BY <1>1, <1>2, <1>3, <2>2
  <2>4. tt = [i \in 1 .. m |-> TextObject(some[i])] /\ \A i \in 1 .. m : TextObject(some[i]) \in Bytes
    BY <1>p, <2>1, <2>2, <2>3
  <2>5. tt \in Seq(Bytes) /\ Len(tt) = m
    BY <1>2, <2>4
  <2> QED BY <2>3, <2>5
<1>6. tt = uu
  BY <1>4, <1>5, SeqEqual
<1> QED BY <1>6, <1>p DEF TextObjects

(* src/src/ca/resource/mmi.rs:80-112: a menu or list is read as the module
   composed it, as far as its texts are whole (parse_menu).                 *)
LEMMA DialogueReadBack ==
    ASSUME NEW d \in Dialogues
    PROVE  IF d.kind = "Text" THEN AsMeant(d) = DialogueBytes(d)
           ELSE ParseMenu(DialogueBytes(d)) = AsMeant(d)
<1>1. /\ d \in [kind : {"Text", "Menu", "List"}, texts : Seq(Seq(Nat)), missing : Nat]
      /\ \A i \in DOMAIN d.texts : Len(d.texts[i]) \in U16
      /\ d.missing <= Len(TextObjects(d.texts))
  BY DialoguesAssumption
<1>2. CASE d.kind = "Text"
  BY <1>2 DEF AsMeant, DialogueBytes
<1>3. CASE d.kind # "Text"
  <2>p. PICK texts, missing, n, ss, c, size :
            /\ texts = d.texts /\ missing = d.missing /\ n = Len(texts)
            /\ ss = [i \in DOMAIN texts |-> TextObject(texts[i])]
            /\ c = FlattenSeq(ss) /\ size = Len(c) - missing
    OBVIOUS
  <2>1. texts \in Seq(Texts) /\ n \in Nat /\ missing \in Nat
    <3>1. texts \in Seq(Bytes) /\ missing \in Nat
      BY <1>1, <2>p DEF Bytes
    <3>2. n \in Nat /\ \A i \in 1 .. n : texts[i] \in Texts
      BY <1>1, <2>p, <3>1 DEF Texts
    <3> QED BY <2>p, <3>1, <3>2
  <2>2. c = TextObjects(texts)
    BY <2>p DEF TextObjects
  <2>3. ss \in Seq(Bytes) /\ Len(ss) = n
    <3>1. \A text \in Texts : TextObject(text) \in Bytes
      BY TextIsBytes DEF Texts
    <3> QED BY <2>1, <2>p, <3>1
  <2>4. c \in Bytes /\ Len(c) \in Nat
    <3>1. c \in Bytes
      BY <2>3, <2>p, BlocksStand
    <3> QED BY <3>1 DEF Bytes
  <2>5. size \in 0 .. Len(c) /\ size \in Nat
    BY <1>1, <2>1, <2>2, <2>4, <2>p
  <2>b. PICK count, body : count = << n >> /\ body = DialogueBytes(d)
    OBVIOUS
  <2>6. count \in Bytes /\ Len(count) = 1
    BY <2>1, <2>b DEF Bytes
  <2>7. /\ body = count \o SubSeq(c, 1, size) /\ SubSeq(c, 1, size) \in Bytes
        /\ Len(SubSeq(c, 1, size)) = size
    <3>1. body = SubSeq(count \o c, 1, Len(count \o c) - missing)
      BY <1>3, <2>2, <2>b, <2>p DEF DialogueBytes, Shortened
    <3>2. Len(count \o c) - missing = Len(count) + size
      <4>1. Len(count \o c) = Len(count) + Len(c)
        BY <2>4, <2>6, JoinFirst
      <4> QED BY <2>1, <2>4, <2>6, <2>p, <4>1
    <3>3. SubSeq(count \o c, 1, Len(count) + size) = count \o SubSeq(c, 1, size)
      BY <2>4, <2>5, <2>6, CutJoined
    <3>4. SubSeq(c, 1, size) \in Bytes /\ Len(SubSeq(c, 1, size)) = size
      BY <2>4, <2>5, CutFirst
    <3> QED BY <3>1, <3>2, <3>3, <3>4
  <2>8. From(body, 2) = SubSeq(c, 1, size) /\ Len(body) = 1 + size
    <3>p. PICK rest : rest = SubSeq(c, 1, size)
      OBVIOUS
    <3>1. From(count \o rest, Len(count) + 1) = rest
      BY <2>6, <2>7, <3>p, CutJoined
    <3>2. Len(count \o rest) = Len(count) + Len(rest)
      BY <2>6, <2>7, <3>p, JoinFirst
    <3>3. Len(count) + 1 = 2
      BY <2>6
    <3> QED BY <2>6, <2>7, <3>1, <3>2, <3>3, <3>p
  <2>9. PICK w \in 0 .. n : /\ \A i \in 0 .. w : BlocksEnd(ss, i) <= size
                            /\ \A i \in w + 1 .. n : size < BlocksEnd(ss, i)
    <3>p. PICK e : e = [i \in 0 .. n |-> BlocksEnd(ss, i)]
      OBVIOUS
    <3>1. /\ BlocksEnd(ss, 0) = 0 /\ \A i \in 0 .. n : BlocksEnd(ss, i) \in Nat
          /\ \A i \in 1 .. n : BlocksEnd(ss, i) = BlocksEnd(ss, i - 1) + Len(ss[i])
      BY <2>3, BlocksGrow
    <3>2. \A i \in 1 .. n : Len(ss[i]) \in Nat /\ i \in 0 .. n /\ i - 1 \in 0 .. n
      <4>1. \A i \in 1 .. n : ss[i] \in Bytes
        BY <2>3
      <4>2. \A i \in 1 .. n : Len(ss[i]) \in Nat
        BY <4>1 DEF Bytes
      <4> QED BY <2>1, <4>2
    <3>3. \A i \in 1 .. n : BlocksEnd(ss, i - 1) <= BlocksEnd(ss, i)
      <4> TAKE i \in 1 .. n
      <4>1. /\ BlocksEnd(ss, i) \in Nat /\ BlocksEnd(ss, i - 1) \in Nat /\ Len(ss[i]) \in Nat
            /\ BlocksEnd(ss, i) = BlocksEnd(ss, i - 1) + Len(ss[i])
        BY <3>1, <3>2
      <4>2. \A a, b, l \in Nat : b = a + l => a <= b
        OBVIOUS
      <4> QED BY <4>1, <4>2
    <3>4. Grows(n, e)
      BY <3>1, <3>2, <3>3, <3>p DEF Grows
    <3>5. e[0] <= size
      BY <2>1, <2>5, <3>1, <3>p
    <3>6. PICK w \in 0 .. n : Parts(n, e, size, w)
      BY <2>1, <2>5, <3>4, <3>5, LastWithin
    <3>7. w \in 0 .. n /\ \A i \in 0 .. w : i \in 0 .. n
      BY <2>1
    <3>8. \A i \in w + 1 .. n : i \in 0 .. n
      BY <2>1
    <3> QED BY <3>6, <3>7, <3>8, <3>p DEF Parts
  <2>10. ParseTexts(From(body, 2)) = SubSeq(texts, 1, w)
    <3>1. /\ ss = [i \in DOMAIN texts |-> TextObject(texts[i])]
          /\ size \in 0 .. Len(FlattenSeq(ss)) /\ w \in 0 .. Len(texts)
          /\ \A i \in w + 1 .. Len(texts) : size < BlocksEnd(ss, i)
      BY <2>5, <2>9, <2>p
    <3>2. ParseTexts(SubSeq(FlattenSeq(ss), 1, size)) = SubSeq(texts, 1, w)
      BY <2>1, <2>9, <3>1, WholeTextsAreRead
    <3> QED BY <2>8, <2>p, <3>2
  <2>11. TextsWhole(d) = 1 .. w
    <3>1. \A i \in 1 .. n : Len(TextObjects(SubSeq(texts, 1, i))) = BlocksEnd(ss, i)
      <4> TAKE i \in 1 .. n
      <4>1. i \in 0 .. Len(texts)
        BY <2>p
      <4>2. TextObjects(SubSeq(texts, 1, i)) = FlattenSeq(SubSeq(ss, 1, i))
        BY <2>1, <2>p, <4>1, PrefixObjects
      <4> QED BY <4>2 DEF BlocksEnd
    <3>2. \A i \in 1 .. n : 1 + BlocksEnd(ss, i) <= 1 + size <=> i <= w
      <4> TAKE i \in 1 .. n
      <4>p. PICK end : end = BlocksEnd(ss, i)
        OBVIOUS
      <4>1. end \in Nat
        <5>1. i \in 0 .. Len(ss)
          BY <2>3
        <5> QED BY <2>3, <4>p, <5>1, BlocksGrow
      <4>2. CASE i <= w
        <5>1. i \in 0 .. w
          BY <4>2
        <5>2. end <= size
          BY <2>9, <4>p, <5>1
        <5>3. 1 + end <= 1 + size
          BY <2>5, <4>1, <5>2
        <5> QED BY <4>2, <4>p, <5>3
      <4>3. CASE ~(i <= w)
        <5>1. i \in w + 1 .. n
          BY <2>1, <4>3
        <5>2. size < end
          BY <2>9, <4>p, <5>1
        <5>3. ~(1 + end <= 1 + size)
          BY <2>5, <4>1, <5>2
        <5> QED BY <4>3, <4>p, <5>3
      <4> QED BY <4>2, <4>3
    <3>3. DOMAIN texts = 1 .. n
      BY <2>1, <2>p
    <3>4. TextsWhole(d) = {i \in 1 .. n : 1 + BlocksEnd(ss, i) <= 1 + size}
      BY <2>8, <2>b, <2>p, <3>1, <3>3 DEF TextsWhole
    <3>5. {i \in 1 .. n : i <= w} = 1 .. w
      BY <2>1
    <3> QED BY <3>2, <3>4, <3>5
  <2>12. Cardinality(1 .. w) = w
    <3>1. Cardinality(1 .. w) = IF 1 > w THEN 0 ELSE w - 1 + 1
      BY <2>1, FS_Interval
    <3> QED BY <2>1, <3>1
  <2>w. PICK whole : whole = SubSeq(texts, 1, w)
    OBVIOUS
  <2>13. whole \in Seq(Texts)
    <3>1. \A i \in 1 .. w : texts[i] \in Texts
      BY <2>1, <2>p
    <3> QED BY <2>1, <2>w, <3>1, SubSeqProperties
  <2>14. AsMeant(d) = [header |-> [i \in 1 .. 3 |-> IF i <= Len(whole) THEN whole[i] ELSE <<>>],
                       items |-> From(whole, 4)]
    BY <1>3, <2>11, <2>12, <2>p, <2>w DEF AsMeant
  <2>15. Menu(whole) = [header |-> [i \in 1 .. 3 |-> IF i <= Len(whole) THEN whole[i] ELSE <<>>],
                        items |-> From(whole, 4)]
    <3>1. \A i \in 1 .. 3 : i \in DOMAIN whole <=> i <= Len(whole)
      BY <2>13
    <3> QED BY <3>1 DEF Menu
  <2>16. ParseMenu(body) = Menu(whole)
    BY <2>10, <2>w DEF ParseMenu
  <2> QED BY <1>3, <2>14, <2>15, <2>16, <2>b
<1> QED BY <1>2, <1>3

-----------------------------------------------------------------------------
(* ObjectsWhole: what MMI has collected and what its modules have left to say.*)

(***************************************************************************)
(* What MMI has collected of each dialogue, and what its module has left   *)
(* to say.                                                                 *)
(***************************************************************************)
Gathered(n) == IF fragments[n] = None THEN <<>> ELSE fragments[n]

FragmentsTyped == fragments \in [Sessions -> Bytes \cup {None}]
Underway(n) ==
    /\ fragments[n] # None => speaking[n] # None
    /\ speaking[n] # None => table[n] # None /\ table[n].resource = "Mmi"
    /\ speaking[n] # None /\ speaking[n].whole =>
          /\ speaking[n].left # <<>>
          /\ DialogueBytes(speaking[n].dialogue) = Gathered(n) \o speaking[n].left

ShowInv == FragmentsTyped /\ (\A n \in Sessions : Underway(n)) /\ ObjectsWhole

(* Nothing is collected at first.                                           *)
LEMMA ShowStarts == Init => ShowInv
<1> SUFFICES ASSUME Init PROVE ShowInv
  OBVIOUS
<1>1. fragments = [n \in Sessions |-> None] /\ speaking = [n \in Sessions |-> None] /\ heard = None
  BY DEF Init, Nothing
<1> QED BY <1>1 DEF ShowInv, FragmentsTyped, Underway, ObjectsWhole

Keeps(x, y) == IsHost(y) /\ y.fragments = x.fragments

(* Answers, events and reports leave what is collected.                     *)
LEMMA AnswersKeep ==
    ASSUME NEW x, IsHost(x), NEW n
    PROVE  /\ Keeps(x, Bad(x, n))
           /\ \A tag, body : Keeps(x, Sends(x, n, tag, body))
           /\ Keeps(x, SendsTime(x, n))
           /\ \A kind, what : /\ Keeps(x, Tells(x, kind, n, what))
                              /\ Keeps(x, TellsParsed(x, kind, n, what))
<1>1. Keeps(x, Bad(x, n))
  BY DEF Keeps, IsHost, Bad
<1>2. ASSUME NEW tag, NEW body PROVE Keeps(x, Sends(x, n, tag, body))
  <2>p. PICK sent : sent = Append(x.out, [session |-> n, apdu |-> Apdu(tag, body), wall |-> x.wall])
    OBVIOUS
  <2>1. Sends(x, n, tag, body) = [x EXCEPT !.out = sent]
    BY <2>p DEF Sends
  <2> QED BY <2>1 DEF Keeps, IsHost
<1>3. ASSUME NEW kind, NEW what PROVE Keeps(x, Tells(x, kind, n, what))
  <2>p. PICK told : told = Append(x.events, Event(kind, n, what))
    OBVIOUS
  <2>1. Tells(x, kind, n, what) = [x EXCEPT !.events = told]
    BY <2>p DEF Tells
  <2> QED BY <2>1 DEF Keeps, IsHost
<1>4. Keeps(x, SendsTime(x, n))
  BY <1>2 DEF SendsTime
<1>5. ASSUME NEW kind, NEW what PROVE Keeps(x, TellsParsed(x, kind, n, what))
  BY <1>1, <1>3 DEF TellsParsed
<1> QED BY <1>1, <1>2, <1>3, <1>4, <1>5

(* Only the objects of a dialogue touch what is collected.                  *)
Aside(resource, apdu) == resource # "Mmi" \/ apdu.tag \notin More \cup Closing

(* So does every object that is not of a dialogue.                          *)
LEMMA AsideKeeps ==
    ASSUME NEW x, IsHost(x), NEW n, table[n].resource \in Names, NEW apdu,
           Aside(table[n].resource, apdu)
    PROVE  Keeps(x, OnApdu(x, n, apdu))
<1>p. PICK resource, y : resource = table[n].resource /\ y = OnApdu(x, n, apdu)
  OBVIOUS
<1>k. ASSUME NEW z, Keeps(x, z), NEW w, Keeps(z, w) PROVE Keeps(x, w)
  BY <1>k DEF Keeps
<1>1. CASE resource = "ResourceManager"
  <2>1. y = ResourceManagerOnApdu(x, n, apdu)
    BY <1>1, <1>p DEF OnApdu
  <2>2. y \in {Sends(x, n, ProfileChange, <<>>), Sends(x, n, Profile, HostProfile),
               Sends(x, n, ProfileEnq, <<>>), Bad(x, n)}
    BY <2>1 DEF ResourceManagerOnApdu
  <2>3. /\ Keeps(x, Sends(x, n, ProfileChange, <<>>)) /\ Keeps(x, Sends(x, n, Profile, HostProfile))
        /\ Keeps(x, Sends(x, n, ProfileEnq, <<>>)) /\ Keeps(x, Bad(x, n))
    BY AnswersKeep
  <2> QED BY <1>p, <2>2, <2>3
<1>2. CASE resource = "ApplicationInfo"
  <2>i. PICK info : info = ParseApplicationInfo(apdu.body)
    OBVIOUS
  <2>p. PICK kept : kept = [x.applications EXCEPT ![n] = [info |-> info, revision |-> x.revision + 1]]
    OBVIOUS
  <2>z. PICK z : z = [x EXCEPT !.revision = x.revision + 1, !.applications = kept]
    OBVIOUS
  <2>1. Keeps(x, z) /\ IsHost(z)
    BY <2>z DEF Keeps, IsHost
  <2>2. z = [x EXCEPT !.revision = @ + 1,
                      !.applications[n] = [info |-> info, revision |-> x.revision + 1]]
    BY <2>p, <2>z DEF IsHost
  <2>3. y \in {Bad(x, n), Tells(z, "ApplicationInfo", n, info)}
    BY <1>2, <1>p, <2>2, <2>i DEF OnApdu, ApplicationInfoOnApdu
  <2>4. Keeps(x, Bad(x, n)) /\ Keeps(z, Tells(z, "ApplicationInfo", n, info))
    BY <2>1, AnswersKeep
  <2> QED BY <1>k, <1>p, <2>1, <2>3, <2>4
<1>3. CASE resource = "HostControl"
  <2>1. y \in {TellsParsed(x, "Tune", n, ParseTune(apdu.body)),
               TellsParsed(x, "Replace", n, ParseReplace(apdu.body)),
               TellsParsed(x, "ClearReplace", n, ParseClearReplace(apdu.body)), Bad(x, n)}
    BY <1>3, <1>p DEF OnApdu, HostControlOnApdu
  <2>2. /\ Keeps(x, TellsParsed(x, "Tune", n, ParseTune(apdu.body)))
        /\ Keeps(x, TellsParsed(x, "Replace", n, ParseReplace(apdu.body)))
        /\ Keeps(x, TellsParsed(x, "ClearReplace", n, ParseClearReplace(apdu.body)))
        /\ Keeps(x, Bad(x, n))
    BY AnswersKeep
  <2> QED BY <1>p, <2>1, <2>2
<1>4. CASE resource = "DateTime"
  <2>p. PICK k, kept : /\ k = IF apdu.body = <<>> THEN 0 ELSE apdu.body[1]
                       /\ kept = [x.clocks EXCEPT ![n] = [interval |-> k, sent |-> None]]
    OBVIOUS
  <2>z. PICK z : z = [x EXCEPT !.clocks = kept]
    OBVIOUS
  <2>1. Keeps(x, z) /\ IsHost(z)
    BY <2>z DEF Keeps, IsHost
  <2>2. z = [x EXCEPT !.clocks[n] = [interval |-> k, sent |-> None]]
    BY <2>p, <2>z DEF IsHost
  <2>3. y \in {Bad(x, n), SendsTime(z, n)}
    BY <1>4, <1>p, <2>2, <2>p DEF OnApdu, DateTimeOnApdu
  <2>4. Keeps(x, Bad(x, n)) /\ Keeps(z, SendsTime(z, n))
    BY <2>1, AnswersKeep
  <2> QED BY <1>k, <1>p, <2>1, <2>3, <2>4
<1>5. CASE resource = "Mmi"
  <2>p. PICK closed, body : closed = [x EXCEPT !.close = TRUE] /\ body = apdu.body
    OBVIOUS
  <2>1. Keeps(x, closed) /\ IsHost(closed)
    BY <2>p DEF Keeps, IsHost
  <2>2. apdu.tag \notin More \cup Closing
    BY <1>5, <1>p DEF Aside
  <2>3. y = MmiOnApdu(x, n, apdu)
    BY <1>5, <1>p DEF OnApdu
  <2>4. y \in {Tells(closed, "MmiClose", n, CloseDelay(body)),
               Sends(x, n, DisplayReply, DisplayAnswer(body)),
               TellsParsed(x, "Enq", n, ParseEnq(body)), Bad(x, n)}
    BY <2>2, <2>3, <2>p DEF MmiOnApdu, Closing
  <2>5. /\ Keeps(closed, Tells(closed, "MmiClose", n, CloseDelay(body)))
        /\ Keeps(x, Sends(x, n, DisplayReply, DisplayAnswer(body)))
        /\ Keeps(x, TellsParsed(x, "Enq", n, ParseEnq(body))) /\ Keeps(x, Bad(x, n))
    BY <2>1, AnswersKeep
  <2> QED BY <1>k, <1>p, <2>1, <2>4, <2>5
<1> QED BY <1>1, <1>2, <1>3, <1>4, <1>5, <1>p DEF Names

(* Whether or not a write falls short.                                      *)
LEMMA ResultKeeps ==
    ASSUME NEW x, NEW y, Keeps(x, y), NEW before, NEW n, NEW short
    PROVE  Keeps(x, Result(y, before, n, short))
<1>p. PICK z : z = [y EXCEPT !.out = before.out]
  OBVIOUS
<1>1. Keeps(x, z) /\ IsHost(z)
  BY <1>p DEF Keeps, IsHost
<1>2. Keeps(z, Bad(z, n))
  BY <1>1, AnswersKeep
<1>3. Result(y, before, n, short) \in {y, Bad(z, n)}
  BY <1>p DEF Result
<1> QED BY <1>1, <1>2, <1>3 DEF Keeps

Asides(resource) == {apdu \in Objects : Aside(resource, apdu)}

(* All the objects of one SPDU that are not of a dialogue.                  *)
LEMMA DispatchKeeps ==
    ASSUME NEW n, table[n].resource \in Names,
           NEW items \in Seq(Asides(table[n].resource) \cup {Malformed}), NEW short
    PROVE  Keeps(Host, DispatchApdu(Host, n, items, short))
<1>1. Len(items) \in Nat
  OBVIOUS
<1>2. PICK handled : /\ Unfolds(Host, n, items, short, handled)
                     /\ DispatchApdu(Host, n, items, short) = handled[Len(items)]
  BY <1>1, DispatchUnfolds
<1> DEFINE T == {i \in 0 .. Len(items) : Keeps(Host, handled[i])}
<1>3. 0 \in T
  <2>1. IsHost(Host)
    BY DEF Host, IsHost
  <2>2. handled[0] = Host
    BY <1>2 DEF Unfolds
  <2> QED BY <1>1, <2>1, <2>2 DEF Keeps
<1>4. ASSUME NEW i \in 1 .. Len(items), i - 1 \in T PROVE i \in T
  <2>p. PICK x, item, last : x = handled[i - 1] /\ item = items[i] /\ last = (i = short)
    OBVIOUS
  <2>1. Keeps(Host, x) /\ IsHost(x)
    BY <1>4, <2>p DEF Keeps
  <2>2. item = Malformed \/ Aside(table[n].resource, item)
    <3>p. PICK S : S = Asides(table[n].resource) \cup {Malformed}
      OBVIOUS
    <3>1. items \in Seq(S)
      BY <3>p
    <3>2. item \in S
      BY <2>p, <3>1
    <3> QED BY <3>2, <3>p DEF Asides
  <2>3. Keeps(x, Handle(x, n, item, last))
    <3>1. CASE item = Malformed
      BY <2>1, <3>1, AnswersKeep DEF Handle
    <3>2. CASE item # Malformed
      <4>1. Keeps(x, OnApdu(x, n, item))
        BY <2>1, <2>2, <3>2, AsideKeeps
      <4> QED BY <3>2, <4>1, ResultKeeps DEF Handle
    <3> QED BY <3>1, <3>2
  <2>4. handled[i] = Handle(x, n, item, last)
    BY <1>2, <2>p DEF Unfolds
  <2>5. Keeps(Host, handled[i])
    BY <2>1, <2>3, <2>4 DEF Keeps
  <2> QED BY <2>5
<1>5. T = 0 .. Len(items)
  <2>1. T \in SUBSET (0 .. Len(items))
    OBVIOUS
  <2> HIDE DEF T
  <2> QED BY <1>1, <1>3, <1>4, <2>1, Upwards
<1>6. Keeps(Host, handled[Len(items)])
  <2>1. Len(items) \in T
    <3> HIDE DEF T
    <3> QED BY <1>1, <1>5
  <2> QED BY <2>1
<1> QED BY <1>2, <1>6

(* What is written besides the dialogues.                                   *)
LEMMA InputsAside ==
    ASSUME NEW resource \in Names, NEW apdus \in Inputs[resource]
    PROVE  apdus \in Seq(Asides(resource))
<1>1. apdus \in Seq(Objects)
  BY InputFits DEF Fits
<1>2. \A i \in 1 .. Len(apdus) : apdus[i].tag \notin More \cup Closing /\ apdus[i] \in Objects
  <2>1. \A i \in DOMAIN apdus : apdus[i].tag \notin More \cup Closing
    BY InputsAssumption
  <2> QED BY <1>1, <2>1
<1>3. \A i \in 1 .. Len(apdus) : apdus[i] \in Asides(resource)
  BY <1>2 DEF Asides, Aside
<1> QED BY <1>1, <1>3

(* A step that leaves the dialogues as they are.                            *)
LEMMA ShowStays ==
    ASSUME ShowInv, UNCHANGED << fragments, speaking >>, heard' = None \/ heard'.meant = None,
           \A n \in Sessions : speaking[n] # None =>
               table'[n] # None /\ table'[n].resource = table[n].resource
    PROVE  ShowInv'
<1>1. FragmentsTyped'
  BY DEF ShowInv, FragmentsTyped
<1>2. ASSUME NEW n \in Sessions PROVE Underway(n)'
  BY DEF ShowInv, Underway, Gathered
<1>3. ObjectsWhole'
  BY DEF ObjectsWhole
<1> QED BY <1>1, <1>2, <1>3 DEF ShowInv

(* Objects that are not of a dialogue.                                      *)
LEMMA WritesShow ==
    ASSUME TableTyped, ShowInv, NEW n \in Sessions, Writes(n)
    PROVE  ShowInv'
<1>1. /\ n \in Open
      /\ \E apdus \in Inputs[table[n].resource], cut \in {0, 1}, damage \in {0, 4} :
         \E short, got, h :
            /\ Fits(apdus) /\ got = Readable(apdus, cut, damage)
            /\ Writing(n, apdus, cut, damage, short, got, h)
  BY WritesUnfold
<1>2. PICK apdus \in Inputs[table[n].resource], cut \in {0, 1}, damage \in {0, 4} :
         \E short, got, h :
            /\ Fits(apdus) /\ got = Readable(apdus, cut, damage)
            /\ Writing(n, apdus, cut, damage, short, got, h)
  BY <1>1
<1>3. PICK short, got, h : /\ got = Readable(apdus, cut, damage)
                           /\ Writing(n, apdus, cut, damage, short, got, h)
  BY <1>2
<1>4. table[n] \in Entries /\ table[n].resource \in Names
  BY <1>1, OpenEntry
<1>5. got \in Seq(Asides(table[n].resource) \cup {Malformed})
  <2>1. apdus \in Seq(Asides(table[n].resource))
    BY <1>4, InputsAside
  <2> QED BY <1>3, <2>1, ReadableItems
<1>6. /\ h = DispatchApdu(Host, n, got, short) /\ Commit(h)
      /\ heard' = [apdus |-> apdus, cut |-> cut, damage |-> damage, got |-> got, meant |-> None]
      /\ table' = IF h.close THEN [table EXCEPT ![n].closing = TRUE] ELSE table
      /\ speaking' = speaking
  BY <1>3, Zenon DEF Writing
<1>7. fragments' = fragments
  <2>1. Keeps(Host, h)
    BY <1>4, <1>5, <1>6, DispatchKeeps
  <2>2. fragments' = h.fragments
    BY <1>6 DEF Commit
  <2>3. Host.fragments = fragments
    BY DEF Host
  <2> QED BY <2>1, <2>2, <2>3 DEF Keeps
<1>8. heard'.meant = None
  BY <1>6
<1>9. \A m \in Sessions : speaking[m] # None =>
               table'[m] # None /\ table'[m].resource = table[m].resource
  <2> TAKE m \in Sessions
  <2> HAVE speaking[m] # None
  <2>1. table[m] # None
    BY DEF ShowInv, Underway
  <2>2. CASE ~h.close \/ m # n
    <3>1. table'[m] = table[m]
      BY <1>6, <2>2 DEF TableTyped
    <3> QED BY <2>1, <3>1
  <2>3. CASE h.close /\ m = n
    <3>1. table'[n] = [table[n] EXCEPT !.closing = TRUE]
      BY <1>6, <2>3 DEF TableTyped
    <3>2. table'[n] \in Entries /\ table'[n].resource = table[n].resource
      BY <1>4, <3>1 DEF Entries
    <3> QED BY <2>3, <3>2, EntryIsOpen
  <2> QED BY <2>2, <2>3
<1> QED BY <1>6, <1>7, <1>8, <1>9, ShowStays

(* A session that ends takes what was collected for it along.               *)
LEMMA EndsShow ==
    ASSUME TableTyped, SpeakingTyped, ShowInv, NEW gone, Ends(gone)
    PROVE  ShowInv'
<1>1. /\ table' = [m \in Sessions |-> IF m \in gone THEN None ELSE table[m]]
      /\ fragments' = [m \in Sessions |-> IF m \in gone THEN None ELSE fragments[m]]
      /\ speaking' = [m \in Sessions |-> IF m \in gone THEN None ELSE speaking[m]]
      /\ heard' = None
  BY DEF Ends, Freed, Quiet
<1>2. FragmentsTyped'
  BY <1>1 DEF ShowInv, FragmentsTyped
<1>3. ASSUME NEW m \in Sessions PROVE Underway(m)'
  <2>1. CASE m \in gone
    BY <1>1, <2>1 DEF Underway
  <2>2. CASE m \notin gone
    <3>1. table'[m] = table[m] /\ fragments'[m] = fragments[m] /\ speaking'[m] = speaking[m]
      BY <1>1, <2>2
    <3>2. Underway(m)
      BY DEF ShowInv
    <3> QED BY <3>1, <3>2 DEF Underway, Gathered
  <2> QED BY <2>1, <2>2
<1>4. ObjectsWhole'
  BY <1>1 DEF ObjectsWhole
<1> QED BY <1>2, <1>3, <1>4 DEF ShowInv

(* A session that opens finds nothing collected for its number.             *)
LEMMA OpensShow ==
    ASSUME TableTyped, ShowInv, NEW s, NEW resource, OpenSession(s, resource)
    PROVE  ShowInv'
<1>p. PICK n : n = CHOOSE m \in Sessions \ Open : \A k \in Sessions \ Open : m <= k
  OBVIOUS
<1>1. /\ Open # Sessions
      /\ table' = [table EXCEPT ![n] = [slot |-> s, resource |-> resource, closing |-> FALSE]]
      /\ \E short \in BOOLEAN : Commit(Result(OnOpen(Host, n, resource), Host, n, short))
      /\ heard' = None /\ speaking' = speaking
  BY <1>p DEF OpenSession
<1>2. n \in Sessions \ Open
  BY <1>1, <1>p, NumberIsFree
<1>3. PICK short \in BOOLEAN : Commit(Result(OnOpen(Host, n, resource), Host, n, short))
  BY <1>1
<1>4. IsHost(Host) /\ Host.fragments = fragments
  BY DEF Host, IsHost
<1>5. Keeps(Host, OnOpen(Host, n, resource))
  <2>1. CASE resource = "ResourceManager"
    BY <1>4, <2>1, AnswersKeep DEF OnOpen
  <2>2. CASE resource = "ApplicationInfo"
    <3>z. PICK z : z = [Host EXCEPT !.applications[n] = [info |-> None, revision |-> 0]]
      OBVIOUS
    <3>1. Keeps(Host, z) /\ IsHost(z)
      BY <1>4, <3>z DEF Keeps, IsHost
    <3>2. OnOpen(Host, n, resource) = Sends(z, n, ApplicationInfoEnq, <<>>)
      BY <2>2, <3>z DEF OnOpen
    <3>3. Keeps(z, Sends(z, n, ApplicationInfoEnq, <<>>))
      BY <3>1, AnswersKeep
    <3> QED BY <3>1, <3>2, <3>3 DEF Keeps
  <2>3. CASE resource = "DateTime"
    <3>z. PICK z : z = [Host EXCEPT !.clocks[n] = [interval |-> 0, sent |-> None]]
      OBVIOUS
    <3>1. Keeps(Host, z) /\ IsHost(z)
      BY <1>4, <3>z DEF Keeps, IsHost
    <3>2. OnOpen(Host, n, resource) = SendsTime(z, n)
      BY <2>3, <3>z DEF OnOpen
    <3>3. Keeps(z, SendsTime(z, n))
      BY <3>1, AnswersKeep
    <3> QED BY <3>1, <3>2, <3>3 DEF Keeps
  <2>4. CASE resource \notin {"ResourceManager", "ApplicationInfo", "DateTime"}
    BY <1>4, <2>4 DEF OnOpen, Keeps
  <2> QED BY <2>1, <2>2, <2>3, <2>4
<1>6. fragments' = fragments
  <2>1. Keeps(Host, Result(OnOpen(Host, n, resource), Host, n, short))
    BY <1>5, ResultKeeps
  <2>2. fragments' = Result(OnOpen(Host, n, resource), Host, n, short).fragments
    BY <1>3 DEF Commit
  <2> QED BY <1>4, <2>1, <2>2 DEF Keeps
<1>7. \A m \in Sessions : speaking[m] # None =>
               table'[m] # None /\ table'[m].resource = table[m].resource
  <2> TAKE m \in Sessions
  <2> HAVE speaking[m] # None
  <2>1. table[m] # None /\ m # n
    BY <1>2 DEF ShowInv, Underway, Open
  <2>2. table'[m] = table[m]
    BY <1>1, <2>1 DEF TableTyped
  <2> QED BY <2>1, <2>2
<1> QED BY <1>1, <1>6, <1>7, ShowStays

(* Nor does the application.                                                *)
LEMMA CommandShows ==
    ASSUME ShowInv, NEW n, NEW tag, NEW body, Commands(n, tag, body)
    PROVE  ShowInv'
<1>1. Commit(Sends(Host, n, tag, body)) /\ heard' = None /\ UNCHANGED << table, speaking >>
  BY DEF Commands
<1>2. IsHost(Host) /\ Host.fragments = fragments
  BY DEF Host, IsHost
<1>3. fragments' = fragments
  <2>1. Keeps(Host, Sends(Host, n, tag, body))
    BY <1>2, AnswersKeep
  <2>2. fragments' = Sends(Host, n, tag, body).fragments
    BY <1>1 DEF Commit
  <2> QED BY <1>2, <2>1, <2>2 DEF Keeps
<1>4. \A m \in Sessions : speaking[m] # None =>
               table'[m] # None /\ table'[m].resource = table[m].resource
  BY <1>1 DEF ShowInv, Underway
<1> QED BY <1>1, <1>3, <1>4, ShowStays

(* One object in a frame is what is read of it.                             *)
LEMMA OneReadable ==
    ASSUME NEW apdu, Len(Concat(<< apdu >>)) \in Nat
    PROVE  /\ Readable(<< apdu >>, 0, 0) = << apdu >>
           /\ Readable(<< apdu >>, 0, 1) = << Malformed >>
<1>p. PICK one, size : one = << apdu >> /\ size = Len(Concat(one))
  OBVIOUS
<1>0. one \in Seq({apdu}) /\ Len(one) = 1 /\ one[1] = apdu
  BY <1>p
<1>1. SubSeq(one, 1, 1) = one /\ DOMAIN one = {1} /\ one \o <<>> = one
  <2>1. DOMAIN one = {1}
    BY <1>0
  <2>2. SubSeq(one, 1, 1) = one
    BY <1>0, SubSeqFull
  <2>3. one \o <<>> = one
    BY <1>0, ConcatEmptySeq
  <2> QED BY <2>1, <2>2, <2>3
<1>2. size - 0 = size /\ size <= size
  BY <1>p
<1>3. WholeObjects(one, size) = {1}
  BY <1>1, <1>2, <1>p DEF WholeObjects
<1>4. Cardinality({1}) = 1
  BY FS_Singleton
<1>5. Readable(one, 0, 1) = << Malformed >>
  <2>1. 1 > 0
    OBVIOUS
  <2> QED BY <2>1 DEF Readable
<1>6. Readable(one, 0, 0) = one
  <2>1. ~(0 > 0)
    OBVIOUS
  <2>2. SubSeq(one, 1, Cardinality(WholeObjects(one, size))) = one
    BY <1>1, <1>3, <1>4
  <2>3. Len(Concat(one)) = size /\ Len(Concat(one)) - 0 = size
    BY <1>2, <1>p
  <2> QED BY <1>1, <2>1, <2>2, <2>3, Zenon DEF Readable
<1> QED BY <1>5, <1>6, <1>p

(* And it is handled.                                                       *)
LEMMA OneDispatched ==
    ASSUME NEW h, NEW n, NEW item
    PROVE  DispatchApdu(h, n, << item >>, 0) = Handle(h, n, item, FALSE)
<1>p. PICK items : items = << item >>
  OBVIOUS
<1>1. Len(items) = 1 /\ items[1] = item /\ 1 \in 1 .. Len(items) /\ 1 - 1 = 0 /\ (1 = 0) = FALSE
  BY <1>p
<1>2. PICK handled : /\ Unfolds(h, n, items, 0, handled)
                     /\ DispatchApdu(h, n, items, 0) = handled[Len(items)]
  <2>1. Len(items) \in Nat
    BY <1>1
  <2> QED BY <2>1, DispatchUnfolds
<1>3. handled[0] = h /\ handled[1] = Handle(handled[1 - 1], n, items[1], 1 = 0)
  BY <1>1, <1>2 DEF Unfolds
<1>4. handled[1] = Handle(h, n, item, FALSE)
  BY <1>1, <1>3
<1> QED BY <1>1, <1>2, <1>4, <1>p

(* src/src/ca/resource/mmi.rs:300-398: the last part of a dialogue shows
   what was collected with it, and keeps nothing.                           *)
LEMMA LastShows ==
    ASSUME NEW x, NEW n, NEW kind \in {"Text", "Menu", "List"}, NEW body
    PROVE  LET object == MmiObject(x, n, body)
           IN  MmiOnApdu(x, n, Apdu(LastTag[kind], body)) =
                  Tells([x EXCEPT !.fragments[n] = None], kind, n,
                        IF kind = "Text" THEN object ELSE ParseMenu(object))
<1>p. PICK apdu, tag, object, taken :
          /\ tag = LastTag[kind] /\ apdu = Apdu(tag, body) /\ object = MmiObject(x, n, body)
          /\ taken = [x EXCEPT !.fragments[n] = None]
  OBVIOUS
<1>1. apdu.tag = tag /\ apdu.body = body /\ taken = TakeObject(x, n, body)
  BY <1>p DEF Apdu, TakeObject
<1>2. /\ tag \in Closing /\ tag \notin More /\ (tag = TextLast => tag \notin {MenuLast, ListLast})
      /\ tag \notin {CloseMmi, DisplayControl, MmiEnq}
  <2>1. tag \in Closing
    BY <1>p DEF LastTag, Closing
  <2> QED BY <2>1, MmiTagsDiffer DEF Closing
<1>3. CASE kind = "Text"
  <2>1. tag = TextLast
    BY <1>3, <1>p DEF LastTag
  <2>2. MmiOnApdu(x, n, apdu) = Tells(taken, "Text", n, object)
    BY <1>1, <1>2, <1>p, <2>1 DEF MmiOnApdu
  <2> QED BY <1>3, <1>p, <2>2
<1>4. CASE kind = "Menu"
  <2>1. tag = MenuLast /\ tag # TextLast
    <3>1. tag = MenuLast
      BY <1>4, <1>p DEF LastTag
    <3> QED BY <1>2, <3>1
  <2>2. MmiOnApdu(x, n, apdu) = Tells(taken, "Menu", n, ParseMenu(object))
    BY <1>1, <1>2, <1>p, <2>1 DEF MmiOnApdu
  <2> QED BY <1>4, <1>p, <2>2
<1>5. CASE kind = "List"
  <2>1. tag = ListLast /\ tag # TextLast /\ tag # MenuLast
    <3>1. tag = ListLast
      BY <1>5, <1>p DEF LastTag
    <3>2. MenuLast # ListLast
      BY DEF MenuLast, ListLast, Tag
    <3> QED BY <1>2, <3>1, <3>2
  <2>2. MmiOnApdu(x, n, apdu) = Tells(taken, "List", n, ParseMenu(object))
    BY <1>1, <1>2, <1>p, <2>1 DEF MmiOnApdu
  <2> QED BY <1>5, <1>p, <2>2
<1> QED BY <1>3, <1>4, <1>5

(* Any other part is added to what is collected, or is too much.            *)
LEMMA MoreCollects ==
    ASSUME NEW x, NEW n, NEW kind \in {"Text", "Menu", "List"}, NEW body
    PROVE  LET object == MmiObject(x, n, body)
           IN  MmiOnApdu(x, n, Apdu(MoreTag[kind], body)) \in
                  {Bad([x EXCEPT !.fragments[n] = None], n), [x EXCEPT !.fragments[n] = object]}
<1>p. PICK apdu, tag, object :
          /\ tag = MoreTag[kind] /\ apdu = Apdu(tag, body) /\ object = MmiObject(x, n, body)
  OBVIOUS
<1>1. apdu.tag = tag /\ apdu.body = body
  BY <1>p DEF Apdu
<1>2. tag \in More
  BY <1>p DEF MoreTag, More
<1>3. tag \notin {TextLast, MenuLast, ListLast, CloseMmi, DisplayControl, MmiEnq}
  BY <1>2, MmiTagsDiffer
<1>4. MmiOnApdu(x, n, apdu) \in
         {Bad([x EXCEPT !.fragments[n] = None], n), [x EXCEPT !.fragments[n] = object]}
  BY <1>1, <1>2, <1>3, <1>p DEF MmiOnApdu
<1> QED BY <1>4, <1>p

(* An object can be told from an error.                                     *)
LEMMA ObjectIsRead == \A apdu \in Objects : apdu # Malformed
BY WireAssumption DEF Sizes, Objects, Bytes

-----------------------------------------------------------------------------
(* The steps of Next that touch the dialogues.                              *)

(* What is collected and what is left to say are the dialogue.              *)
LEMMA BegunWhole ==
    ASSUME ShowInv, NEW n \in Sessions, NEW d \in BegunOn(n), d.whole
    PROVE  DialogueBytes(d.dialogue) = Gathered(n) \o d.left
<1>1. Underway(n)
  BY DEF ShowInv
<1>2. CASE speaking[n] = None
  <2>1. PICK x \in Dialogues : d = Begun(x, TRUE)
    BY <1>2 DEF BegunOn
  <2>2. d.dialogue = x /\ d.left = DialogueBytes(x)
    BY <2>1 DEF Begun
  <2>3. Gathered(n) = <<>>
    BY <1>1, <1>2 DEF Underway, Gathered
  <2>4. DialogueBytes(x) \in Seq(Nat)
    BY DialogueIsBytes DEF Bytes
  <2>5. <<>> \o DialogueBytes(x) = DialogueBytes(x)
    BY <2>4, ConcatEmptySeq
  <2> QED BY <2>2, <2>3, <2>5
<1>3. CASE speaking[n] # None /\ speaking[n].left = <<>>
  <2>p. PICK w : w = (speaking[n] = None \/ speaking[n].whole)
    OBVIOUS
  <2>1. PICK x \in Dialogues : d = Begun(x, w)
    BY <1>3, <2>p DEF BegunOn
  <2>2. d.whole = w
    BY <2>1 DEF Begun
  <2>3. speaking[n].whole
    BY <1>3, <2>2, <2>p
  <2> QED BY <1>1, <1>3, <2>3 DEF Underway
<1>4. CASE speaking[n] # None /\ speaking[n].left # <<>>
  <2>1. d = speaking[n]
    BY <1>4 DEF BegunOn
  <2> QED BY <1>1, <1>4, <2>1 DEF Underway
<1> QED BY <1>2, <1>3, <1>4

(* Of a part of a dialogue the host makes what MMI makes of it, or reports
   its frame.                                                               *)
LEMMA PartHandled ==
    ASSUME NEW n, table[n].resource = "Mmi", NEW apdu, Fits(<< apdu >>),
           NEW damage \in {0, 1}
    PROVE  DispatchApdu(Host, n, Readable(<< apdu >>, 0, damage), 0) =
              IF damage = 0 THEN MmiOnApdu(Host, n, apdu) ELSE Bad(Host, n)
<1>1. Len(Concat(<< apdu >>)) \in Nat /\ apdu # Malformed
  <2>p. PICK one : one = << apdu >>
    OBVIOUS
  <2>1. one \in Seq(Objects) /\ one[1] = apdu /\ Len(one) = 1 /\ 1 \in 1 .. Len(one)
    BY <2>p DEF Fits
  <2>2. apdu \in Objects
    BY <2>1, ElementOfSeq
  <2>3. Concat(one) \in Bytes
    BY <2>1, ConcatSteps
  <2> QED BY <2>2, <2>3, <2>p, ObjectIsRead DEF Bytes
<1>2. CASE damage = 0
  <2>1. Readable(<< apdu >>, 0, damage) = << apdu >>
    BY <1>1, <1>2, OneReadable
  <2>2. DispatchApdu(Host, n, << apdu >>, 0) = Handle(Host, n, apdu, FALSE)
    BY OneDispatched
  <2>3. OnApdu(Host, n, apdu) = MmiOnApdu(Host, n, apdu)
    BY DEF OnApdu
  <2>4. Handle(Host, n, apdu, FALSE) = MmiOnApdu(Host, n, apdu)
    BY <1>1, <2>3 DEF Handle, Result
  <2> QED BY <1>2, <2>1, <2>2, <2>4
<1>3. CASE damage = 1
  <2>1. Readable(<< apdu >>, 0, damage) = << Malformed >>
    BY <1>1, <1>3, OneReadable
  <2>2. DispatchApdu(Host, n, << Malformed >>, 0) = Handle(Host, n, Malformed, FALSE)
    BY OneDispatched
  <2>3. Handle(Host, n, Malformed, FALSE) = Bad(Host, n)
    BY DEF Handle
  <2>4. ~(damage = 0)
    BY <1>3
  <2> QED BY <2>1, <2>2, <2>3, <2>4, Zenon
<1> QED BY <1>2, <1>3

(* Before the first object nothing was told.                                *)
LEMMA HostFresh == Host.events = <<>> /\ Host.fragments = fragments /\ IsHost(Host)
BY DEF Host, IsHost

(* A dialogue that has come to its end, or that goes on.                    *)
LEMMA ShowMoves ==
    ASSUME ShowInv, NEW n \in Sessions, table[n] # None, table[n].resource = "Mmi",
           SpeakingTyped, table' = table,
           NEW bytes \in Bytes \cup {None}, fragments' = [fragments EXCEPT ![n] = bytes],
           NEW said, speaking' = [speaking EXCEPT ![n] = said],
           bytes # None => said # None,
           said # None /\ said.whole =>
              /\ said.left # <<>>
              /\ DialogueBytes(said.dialogue) = (IF bytes = None THEN <<>> ELSE bytes) \o said.left,
           ObjectsWhole'
    PROVE  ShowInv'
<1>1. fragments \in [Sessions -> Bytes \cup {None}]
  BY DEF ShowInv, FragmentsTyped
<1>2. DOMAIN speaking = Sessions
  BY DEF SpeakingTyped
<1>3. FragmentsTyped'
  BY <1>1 DEF FragmentsTyped
<1>4. ASSUME NEW m \in Sessions PROVE Underway(m)'
  <2>1. CASE m = n
    <3>1. fragments'[n] = bytes /\ speaking'[n] = said /\ table'[n] = table[n]
      BY <1>1, <1>2
    <3>2. Underway(n)'
      BY <3>1 DEF Underway, Gathered
    <3> QED BY <2>1, <3>2
  <2>2. CASE m # n
    <3>1. fragments'[m] = fragments[m] /\ speaking'[m] = speaking[m] /\ table'[m] = table[m]
      BY <1>1, <1>2, <2>2
    <3>2. Underway(m)
      BY DEF ShowInv
    <3> QED BY <3>1, <3>2 DEF Underway, Gathered
  <2> QED BY <2>1, <2>2
<1> QED BY <1>3, <1>4 DEF ShowInv

(* src/src/ca/resource/mmi.rs:300-398: a part of a dialogue.                *)
LEMMA SpokenShows ==
    ASSUME TableTyped, SpeakingTyped, ShowInv, NEW n \in Sessions,
           n \in Open, table[n].resource = "Mmi",
           NEW d \in BegunOn(n), NEW k \in Chunks, NEW damage \in {0, 1}, NEW got, NEW h,
           Fits(<< PartOf(d, k) >>), got = Readable(<< PartOf(d, k) >>, 0, damage),
           Spoken(n, d, k, damage, got, h)
    PROVE  ShowInv'
<1>p. PICK apdu, kind, all, left, last, before, reported, said, new :
          /\ apdu = PartOf(d, k) /\ kind = d.dialogue.kind /\ all = d.left /\ left = RestOf(d, k)
          /\ last = IsLast(d, k) /\ before = Gathered(n) /\ reported = Reported(h)
          /\ said = [d EXCEPT !.left = left, !.whole = @ /\ ~reported]
          /\ new = IF last /\ ~reported THEN None ELSE said
  OBVIOUS
<1>1. /\ d \in Begins /\ all \in Bytes /\ left \in Bytes /\ k \in Nat \ {0} /\ Len(all) \in Nat
      /\ kind \in {"Text", "Menu", "List"} /\ d.dialogue \in Dialogues
  <2>1. d \in Begins /\ left \in Bytes
    BY <1>p, PartFits
  <2>2. all \in Bytes /\ Len(all) \in Nat
    BY <1>p, <2>1 DEF Begins, Bytes
  <2>3. k \in Nat \ {0} /\ d.dialogue \in Dialogues /\ kind \in {"Text", "Menu", "List"}
    BY <1>p, <2>1, DialoguesAssumption DEF Begins
  <2> QED BY <2>1, <2>2, <2>3
<1>2. /\ said \in Begins /\ said # None /\ said.left = left /\ said.dialogue = d.dialogue
      /\ said.whole = (d.whole /\ ~reported)
  <2>1. d.whole \in BOOLEAN /\ reported \in BOOLEAN /\ left \in Seq(Nat)
    BY <1>1, <1>p DEF Begins, Bytes, Reported
  <2>2. /\ said \in Begins /\ said.left = left /\ said.dialogue = d.dialogue
        /\ said.whole = (d.whole /\ ~reported)
    BY <1>1, <1>p, <2>1 DEF Begins
  <2>3. None \notin Begins
    BY DialoguesAssumption DEF Begins
  <2> QED BY <2>2, <2>3
<1>3. /\ table' = table /\ speaking' = [speaking EXCEPT ![n] = new]
      /\ h = DispatchApdu(Host, n, got, 0) /\ fragments' = h.fragments /\ events' = h.events
      /\ heard' # None => heard'.damage = damage /\ heard'.meant = IF last /\ d.whole THEN d.dialogue ELSE None
  BY <1>p DEF Spoken, Commit
<1>4. h = IF damage = 0 THEN MmiOnApdu(Host, n, apdu) ELSE Bad(Host, n)
  BY <1>3, <1>p, PartHandled
<1>5. table[n] # None
  BY DEF Open
<1>6. fragments \in [Sessions -> Bytes \cup {None}]
  BY DEF ShowInv, FragmentsTyped
<1>7. before \in Bytes /\ (d.whole => DialogueBytes(d.dialogue) = before \o all)
  <2>1. before \in Bytes
    BY <1>6, <1>p DEF Gathered, Bytes
  <2> QED BY <1>p, <2>1, BegunWhole
<1>8. \A x : (\E y : h = Bad(y, n) /\ y.events = <<>> /\ IsHost(y) /\ y.fragments = x)
             => reported /\ h.fragments = x
  <2> TAKE x
  <2> HAVE \E y : h = Bad(y, n) /\ y.events = <<>> /\ IsHost(y) /\ y.fragments = x
  <2>1. PICK y : h = Bad(y, n) /\ y.events = <<>> /\ IsHost(y) /\ y.fragments = x
    OBVIOUS
  <2>2. h.events = << MalformedEvent(n) >> /\ h.fragments = x
    BY <2>1 DEF Bad, IsHost
  <2>3. 1 \in DOMAIN h.events /\ h.events[1].kind = "Malformed"
    BY <2>2 DEF MalformedEvent, Event
  <2> QED BY <1>p, <2>2, <2>3 DEF Reported
<1>9. CASE damage = 1
  <2>1. reported /\ h.fragments = fragments
    BY <1>4, <1>8, <1>9, HostFresh
  <2>2. fragments' = [fragments EXCEPT ![n] = fragments[n]] /\ fragments[n] \in Bytes \cup {None}
    BY <1>3, <1>6, <2>1
  <2>3. new # None /\ ~new.whole
    BY <1>2, <1>p, <2>1
  <2>4. ObjectsWhole'
    BY <1>3, <1>9 DEF ObjectsWhole
  <2> QED BY <1>3, <1>5, <2>2, <2>3, <2>4, ShowMoves
<1>10. CASE damage = 0 /\ last
  <2>p. PICK object, taken, what : /\ object = MmiObject(Host, n, all)
                                   /\ taken = [Host EXCEPT !.fragments[n] = None]
                                   /\ what = IF kind = "Text" THEN object ELSE ParseMenu(object)
    OBVIOUS
  <2>1. apdu = Apdu(LastTag[kind], all)
    BY <1>10, <1>p DEF PartOf
  <2>2. MmiOnApdu(Host, n, apdu) = Tells(taken, kind, n, what)
    BY <1>1, <2>1, <2>p, LastShows
  <2>3. /\ taken.events = <<>> /\ IsHost(taken)
        /\ taken.fragments = [fragments EXCEPT ![n] = None]
    BY <2>p, HostFresh DEF Host, IsHost
  <2>4. h.events = << Event(kind, n, what) >> /\ h.fragments = [fragments EXCEPT ![n] = None]
    BY <1>10, <1>4, <2>2, <2>3 DEF Tells, IsHost
  <2>5. Len(h.events) = 1 /\ h.events[1].kind = kind /\ h.events[1].what = what
    BY <2>4 DEF Event
  <2>6. ~reported
    <3>1. DOMAIN h.events = {1}
      BY <2>4
    <3>2. kind # "Malformed"
      BY <1>1
    <3> QED BY <1>p, <2>5, <3>1, <3>2 DEF Reported
  <2>7. new = None
    BY <1>10, <1>p, <2>6
  <2>8. object = before \o all
    BY <1>p, <2>p, HostFresh DEF MmiObject, Gathered
  <2>9. d.whole => what = AsMeant(d.dialogue)
    BY <1>1, <1>7, <1>p, <2>8, <2>p, DialogueReadBack
  <2>10. ObjectsWhole'
    <3>1. heard' # None /\ heard'.meant # None => d.whole /\ heard'.meant = d.dialogue
      BY <1>3
    <3> QED BY <1>3, <1>p, <2>5, <2>9, <3>1 DEF ObjectsWhole
  <2>11. fragments' = [fragments EXCEPT ![n] = None] /\ None \in Bytes \cup {None}
    BY <1>3, <2>4
  <2> QED BY <1>3, <1>5, <2>7, <2>10, <2>11, ShowMoves
<1>11. CASE damage = 0 /\ ~last
  <2>p. PICK part, object, dropped, kept :
            /\ part = SubSeq(all, 1, k) /\ object = MmiObject(Host, n, part)
            /\ dropped = [Host EXCEPT !.fragments[n] = None]
            /\ kept = [Host EXCEPT !.fragments[n] = object]
    OBVIOUS
  <2>1. apdu = Apdu(MoreTag[kind], part)
    BY <1>11, <1>p, <2>p DEF PartOf
  <2>2. h \in {Bad(dropped, n), kept}
    BY <1>1, <1>11, <1>4, <2>1, <2>p, MoreCollects
  <2>3. /\ dropped.events = <<>> /\ IsHost(dropped)
        /\ dropped.fragments = [fragments EXCEPT ![n] = None]
        /\ kept.events = <<>> /\ kept.fragments = [fragments EXCEPT ![n] = object]
    BY <2>p, HostFresh DEF Host, IsHost
  <2>4. new = said /\ new # None
    BY <1>11, <1>2, <1>p
  <2>5. ObjectsWhole'
    BY <1>3, <1>11 DEF ObjectsWhole
  <2>6. CASE h = Bad(dropped, n)
    <3>1. reported /\ h.fragments = [fragments EXCEPT ![n] = None]
      BY <1>8, <2>3, <2>6
    <3>2. ~new.whole
      BY <1>2, <2>4, <3>1
    <3>3. fragments' = [fragments EXCEPT ![n] = None] /\ None \in Bytes \cup {None}
      BY <1>3, <3>1
    <3> QED BY <1>3, <1>5, <2>4, <2>5, <3>2, <3>3, ShowMoves
  <2>7. CASE h = kept
    <3>1. /\ k \in 0 .. Len(all) /\ k < Len(all) /\ left = From(all, k + 1)
          /\ part \in Bytes /\ Len(part) = k /\ all = part \o left
      <4>1. k < Len(all) /\ left = From(all, k + 1)
        <5>1. ~IsLast(d, k) /\ ~(Len(all) <= k)
          BY <1>11, <1>p, Zenon DEF IsLast
        <5>2. left = From(all, k + 1)
          BY <1>p, <5>1, Zenon DEF RestOf
        <5>3. \A a, b \in Nat : ~(a <= b) => b < a
          OBVIOUS
        <5> QED BY <1>1, <5>1, <5>2, <5>3
      <4>2. k \in 0 .. Len(all)
        BY <1>1, <4>1
      <4> QED BY <1>1, <2>p, <4>1, <4>2, CutFirst
    <3>2. left # <<>>
      <4>1. Len(part \o left) = Len(part) + Len(left)
        BY <1>1, <3>1, JoinFirst
      <4>2. Len(all) = k + Len(left) /\ Len(<<>>) = 0
        BY <3>1, <4>1
      <4>3. ~(k < k + 0)
        BY <1>1
      <4> QED BY <3>1, <4>2, <4>3
    <3>3. object = before \o part
      BY <1>p, <2>p, HostFresh DEF MmiObject, Gathered
    <3>4. object \in Bytes /\ object # None
      <4>1. object \in Bytes
        BY <1>7, <3>1, <3>3, JoinFirst
      <4> QED BY <4>1, NoneAssumption DEF Bytes
    <3>5. d.whole => DialogueBytes(d.dialogue) = object \o left
      <4>1. (before \o part) \o left = before \o (part \o left)
        BY <1>1, <1>7, <3>1, Regroup
      <4> QED BY <1>7, <3>1, <3>3, <4>1
    <3>6. fragments' = [fragments EXCEPT ![n] = object] /\ object \in Bytes \cup {None}
      BY <1>3, <2>3, <2>7, <3>4
    <3>7. new # None /\ new.whole =>
              /\ new.left # <<>>
              /\ DialogueBytes(new.dialogue) = (IF object = None THEN <<>> ELSE object) \o new.left
      BY <1>2, <2>4, <3>2, <3>4, <3>5
    <3> QED BY <1>3, <1>5, <2>4, <2>5, <3>6, <3>7, ShowMoves
  <2> QED BY <2>2, <2>6, <2>7
<1> QED BY <1>9, <1>10, <1>11

(* src/src/ca/resource/mmi.rs: every part of a dialogue adds to what is shown. *)
LEMMA SpeaksShow ==
    ASSUME TableTyped, SpeakingTyped, ShowInv, NEW n \in Sessions, Speaks(n)
    PROVE  ShowInv'
<1>1. n \in Open /\ table[n].resource = "Mmi" /\ \E d \in BegunOn(n), k \in Chunks, damage \in {0, 1} :
         \E got, h :
            /\ Fits(<< PartOf(d, k) >>) /\ got = Readable(<< PartOf(d, k) >>, 0, damage)
            /\ Spoken(n, d, k, damage, got, h)
  BY SpeaksUnfold
<1>2. PICK d \in BegunOn(n), k \in Chunks, damage \in {0, 1} :
         \E got, h :
            /\ Fits(<< PartOf(d, k) >>) /\ got = Readable(<< PartOf(d, k) >>, 0, damage)
            /\ Spoken(n, d, k, damage, got, h)
  BY <1>1
<1>3. PICK got, h :
            /\ Fits(<< PartOf(d, k) >>) /\ got = Readable(<< PartOf(d, k) >>, 0, damage)
            /\ Spoken(n, d, k, damage, got, h)
  BY <1>2
<1> QED BY <1>1, <1>3, SpokenShows

(* What no step adds to or takes from is as it was.                         *)
LEMMA ShowSteps == ArriveInv /\ ShowInv /\ [Next]_vars => ShowInv'
<1> SUFFICES ASSUME ArriveInv, ShowInv, [Next]_vars PROVE ShowInv'
  OBVIOUS
<1>t. TableTyped /\ SpeakingTyped
  BY DEF ArriveInv
<1>0. ASSUME UNCHANGED << table, fragments, speaking >>, heard' = None PROVE ShowInv'
  <2>1. \A n \in Sessions : speaking[n] # None =>
            table'[n] # None /\ table'[n].resource = table[n].resource
    BY <1>0 DEF ShowInv, Underway
  <2> QED BY <1>0, <2>1, ShowStays
<1>1. CASE UNCHANGED vars
  BY <1>1 DEF vars, hostVars, ShowInv, FragmentsTyped, Underway, Gathered, ObjectsWhole
<1>2. CASE Next
  <2>1. ASSUME NEW i \in interest, OpenSession(i[1], i[2]) PROVE ShowInv'
    BY <1>t, <2>1, OpensShow
  <2>2. ASSUME NEW n \in Sessions, CloseSession(n) PROVE ShowInv'
    BY <1>t, <2>2, EndsShow DEF CloseSession
  <2>3. ASSUME NEW s \in 0 .. Slots - 1, DropSlot(s) PROVE ShowInv'
    BY <1>t, <2>3, EndsShow DEF DropSlot
  <2>4. CASE LinkFails
    BY <1>t, <2>4, EndsShow DEF LinkFails
  <2>5. ASSUME NEW n \in Sessions, Writes(n) PROVE ShowInv'
    BY <1>t, <2>5, WritesShow
  <2>6. ASSUME NEW n \in Sessions, Speaks(n) PROVE ShowInv'
    BY <1>t, <2>6, SpeaksShow
  <2>7. ASSUME NEW s \in 0 .. Slots - 1, EnterMenuOf(s) PROVE ShowInv'
    BY <2>7, CommandShows DEF EnterMenuOf
  <2>8. ASSUME NEW s \in 0 .. Slots - 1, ReleaseHost(s) PROVE ShowInv'
    BY <2>8, CommandShows DEF ReleaseHost
  <2>9. ASSUME NEW n \in Sessions, MmiCommand(n) PROVE ShowInv'
    BY <2>9, CommandShows DEF MmiCommand
  <2>10. CASE Tick
    BY <1>0, <2>10 DEF Tick
  <2>11. CASE Wait
    BY <1>0, <2>11 DEF Wait, Quiet, hostVars
  <2> QED BY <1>2, <2>1, <2>2, <2>3, <2>4, <2>5, <2>6, <2>7, <2>8, <2>9, <2>10, <2>11 DEF Next, Step
<1> QED BY <1>1, <1>2

(* src/src/ca/resource/mmi.rs:80-112, 276-398: unless a loss since the last
   dialogue was reported, a text, menu or list is shown as the module composed
   it, in one object or in a chain, with nothing of another dialogue.       *)
THEOREM DialoguesAreWhole == Spec => []ObjectsWhole
<1>1. Init => ArriveInv /\ ShowInv
  BY ArriveStarts, ShowStarts
<1>2. ArriveInv /\ ShowInv /\ [Next]_vars => ArriveInv' /\ ShowInv'
  BY ArriveSteps, ShowSteps
<1>3. ShowInv => ObjectsWhole
  BY DEF ShowInv
<1> QED BY <1>1, <1>2, <1>3, PTL DEF Spec

=============================================================================
