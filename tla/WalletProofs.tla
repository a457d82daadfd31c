---------------------------- MODULE WalletProofs ----------------------------
(***************************************************************************)
(* What a wallet can rely on, for every set of signers, every capacity and *)
(* TTL of the pending-nonce store: the nonce that the wallet of an account *)
(* in order is answered fits, and what it sends with it passes the checks. *)
(***************************************************************************)
EXTENDS Wallet, FiniteSetTheorems, SequenceTheorems, TLAPS

-----------------------------------------------------------------------------
(* The two readers *)

\* The number of items of a transaction; the last three are the signature.
Size9or12(type) == IF type = "legacy" THEN 9 ELSE 12

\* What the engine parses the proxy decodes, and to the same: true of every raw
\* transaction that has numbers where the format has them.
LEMMA ReadersAgree ==
  ASSUME NEW raw, Parse(raw) # Bad,
         \A i \in 1..Size9or12(raw.type) : raw.items[i].len \in Nat,
         \A i \in 1..(Size9or12(raw.type) - 2) : raw.items[i].val \in Int
  PROVE  Decode(raw) = Parse(raw)
<1> DEFINE it == raw.items
<1>0. Bad \notin Int
  BY CodecAssumption
<1>1. CASE raw.type = "legacy"
  <2>1. Parse(raw) = ParseLegacy(raw) /\ Decode(raw) = DecodeLegacy(raw)
    BY <1>1 DEF Parse, Decode
  <2>2. \A i \in {1, 3, 4, 6, 7} : it[i].val \in Int
    BY <1>1 DEF Size9or12
  <2>0. \A i \in {1, 2, 3, 5, 7, 8, 9} : it[i].len \in Nat
    BY <1>1 DEF Size9or12
  <2> DEFINE v == it[7].val
             from == RecoverKey(LegacyHash(it, VChain(v)), it[8].val, it[9].val, VParity(v))
  <2>3. /\ IsListOf(raw, 9)
        /\ \A i \in {1, 3, 7} : Parses(it[i], 8)
        /\ Parses(it[2], 16) /\ \A i \in {5, 8, 9} : Parses(it[i], 32)
        /\ ParsesTo(it[4]) /\ ParsesBytes(it[6])
        /\ ~(v \in {27, 28}) /\ ~(v < 35) /\ from # Bad
        /\ Parse(raw) = Decoded(from, VChain(v), it[1].val)
    BY <2>1 DEF ParseLegacy
  <2>4. DecodeScalar(it[7], 8) = v
    BY <2>0, <2>3 DEF Parses, DecodeScalar
  <2>5. HasItems(raw, 9)
    BY <2>3 DEF IsListOf, HasItems
  <2>6. \A i \in {1, 3, 7} : DecodeScalar(it[i], 8) # Bad
    BY <1>0, <2>0, <2>2, <2>3 DEF Parses, DecodeScalar
  <2>7. \A i \in {2, 5, 8, 9} : ~(it[i].list \/ it[i].len > 32)
    BY <2>0, <2>3 DEF Parses
  <2>8. DecodeAddress(it[4]) # Bad /\ DecodeBytes(it[6]) # Bad
    BY <1>0, <2>2, <2>3 DEF ParsesTo, ParsesBytes, DecodeAddress, DecodeBytes
  <2>9. DecodeLegacy(raw) = Decoded(from, VChain(v), it[1].val)
    BY <2>3, <2>4, <2>5, <2>6, <2>7, <2>8 DEF DecodeLegacy
  <2>10. QED
    BY <2>1, <2>3, <2>9
<1>2. CASE raw.type = "dynamic"
  <2>1. Parse(raw) = ParseDynamic(raw) /\ Decode(raw) = DecodeDynamic(raw)
    BY <1>2 DEF Parse, Decode
  <2>2. \A i \in {1, 2, 3, 5, 6, 8, 10} : it[i].val \in Int
    BY <1>2 DEF Size9or12
  <2>0. \A i \in {1, 2, 4, 5, 7, 10, 11, 12} : it[i].len \in Nat
    BY <1>2 DEF Size9or12
  <2> DEFINE from == RecoverKey(DynamicHash(it), it[11].val, it[12].val, it[10].val)
  <2>3. /\ IsListOf(raw, 12)
        /\ \A i \in {1, 2, 5, 10} : Parses(it[i], 8)
        /\ \A i \in {3, 4} : Parses(it[i], 16)
        /\ \A i \in {7, 11, 12} : Parses(it[i], 32)
        /\ ParsesTo(it[6]) /\ ParsesBytes(it[8])
        /\ ValidSignature(it[11].val, it[12].val, it[10].val)
        /\ from # Bad
        /\ Parse(raw) = Decoded(from, it[1].val, it[2].val)
    BY <2>1 DEF ParseDynamic
  <2>4. it[10].val % 256 = it[10].val
    <3>1. it[10].val \in {0, 1}
      BY <2>3 DEF ValidSignature
    <3>2. 0 % 256 = 0 /\ 1 % 256 = 1
      OBVIOUS
    <3>3. QED
      BY <3>1, <3>2
  <2>5. HasItems(raw, 12)
    BY <2>3 DEF IsListOf, HasItems
  <2>6. \A i \in {1, 2, 5, 10} : DecodeScalar(it[i], 8) # Bad
    BY <1>0, <2>0, <2>2, <2>3 DEF Parses, DecodeScalar
  <2>7. \A i \in {4, 7, 11, 12} : ~(it[i].list \/ it[i].len > 32)
    BY <2>0, <2>3 DEF Parses
  <2>8. DecodeAddress(it[6]) # Bad /\ \A i \in {3, 8} : DecodeBytes(it[i]) # Bad
    BY <1>0, <2>2, <2>3 DEF Parses, ParsesTo, ParsesBytes, DecodeAddress, DecodeBytes
  <2>9. DecodeDynamic(raw) = Decoded(from, it[1].val, it[2].val)
    BY <2>3, <2>4, <2>5, <2>6, <2>7, <2>8 DEF DecodeDynamic
  <2>10. QED
    BY <2>1, <2>3, <2>9
<1>3. QED
  BY <1>1, <1>2 DEF Parse
-----------------------------------------------------------------------------
(* What becomes of a signed transaction on the way *)

\* The items and raw transactions there are, for a point p of a signature.
Half == {"low", "high", "zero", "huge"}
PointsOf(p) == {p, NoPoint, HugePoint}
ItemOf(p) == [list : BOOLEAN, loose : BOOLEAN, zeros : BOOLEAN, len : Nat,
              val : Int \cup PointsOf(p) \cup Half]
RawOf(p) == [type : {"legacy", "dynamic", "typed"}, fit : {"exact", "trailing", "cut"},
             loose : BOOLEAN, items : Seq(ItemOf(p))]

\* The items of a transaction of n items that changes may leave: numbers in the
\* body; a parity or v as long as it was made, refused for its zeros or too
\* long; the signer's point or none, and a half, as long as they were made or
\* too long.
KinItem(i, n, p, len, e) ==
  /\ e \in ItemOf(p)
  /\ i <= n - 2 => e.val \in Int
  /\ i = n - 2 => e.zeros = TRUE \/ e.len > 8 \/ e.len = len
  /\ i = n - 1 => e.val \in PointsOf(p) /\ e.len >= 32
  /\ i = n => e.val \in Half /\ e.len >= 32

\* A raw transaction of the same type, whose items are such.
Kin(type, p, len, raw) ==
  /\ raw \in RawOf(p) /\ raw.type = type
  /\ \A i \in DOMAIN raw.items : KinItem(i, Size9or12(type), p, len, raw.items[i])

\* Another type, which both readers refuse, stays.
Refused(p, raw) == raw \in RawOf(p) /\ raw.type = "typed"

LEMMA RespelledItem ==
  ASSUME NEW p, NEW item \in ItemOf(p), NEW e \in Respelled(item)
  PROVE  /\ e \in ItemOf(p) /\ e.len \in Nat /\ item.len \in Nat /\ e.len >= item.len
         /\ item.val \in Int => e.val \in Int
         /\ item.len >= 20 => e.val = item.val
         /\ e.zeros = TRUE \/ e.len > 8 \/ (e.len = item.len /\ e.zeros = item.zeros)
         /\ item.zeros = TRUE => e.zeros = TRUE
<1>0. Widths \subseteq Nat /\ \A w \in Widths : w > 8
  BY CodecAssumption
<1>1. /\ item = [list |-> item.list, loose |-> item.loose, zeros |-> item.zeros,
                 len |-> item.len, val |-> item.val]
      /\ item.len \in Nat /\ item.val \in Int \cup PointsOf(p) \cup Half
  BY DEF ItemOf
<1>2. item.list \in BOOLEAN /\ item.loose \in BOOLEAN /\ item.zeros \in BOOLEAN
  BY DEF ItemOf
<1>3. CASE e = [item EXCEPT !.loose = TRUE]
  <2>1. e = [list |-> item.list, loose |-> TRUE, zeros |-> item.zeros, len |-> item.len, val |-> item.val]
    BY <1>1, <1>3
  <2>2. e \in ItemOf(p)
    BY <1>1, <1>2, <2>1 DEF ItemOf
  <2>3. QED
    BY <1>1, <2>1, <2>2
<1>4. CASE e = [item EXCEPT !.zeros = TRUE, !.len = @ + 1]
  <2>1. e = [list |-> item.list, loose |-> item.loose, zeros |-> TRUE, len |-> item.len + 1, val |-> item.val]
    BY <1>1, <1>4
  <2>2. e \in ItemOf(p)
    BY <1>1, <1>2, <2>1 DEF ItemOf
  <2>3. QED
    BY <1>1, <2>1, <2>2
<1>5. CASE e = [item EXCEPT !.list = ~@]
  <2> DEFINE l == ~item.list
  <2>0. e = [item EXCEPT !.list = l]
    BY <1>5
  <2>2. l \in BOOLEAN
    BY <1>2
  <2> HIDE DEF l
  <2>1. e = [list |-> l, loose |-> item.loose, zeros |-> item.zeros, len |-> item.len, val |-> item.val]
    BY <1>1, <2>0
  <2>3. e \in ItemOf(p)
    BY <1>1, <1>2, <2>1, <2>2 DEF ItemOf
  <2>4. e.len = item.len /\ e.val = item.val /\ e.zeros = item.zeros
    BY <2>1
  <2>5. QED
    BY <1>1, <2>3, <2>4
<1>6. ASSUME NEW w \in Widths, w > item.len,
             e = [item EXCEPT !.len = w, !.val = IF item.len < 20 THEN w ELSE @]
      PROVE  /\ e \in ItemOf(p) /\ e.len \in Nat /\ item.len \in Nat /\ e.len >= item.len
             /\ item.val \in Int => e.val \in Int
             /\ item.len >= 20 => e.val = item.val
             /\ e.zeros = TRUE \/ e.len > 8 \/ (e.len = item.len /\ e.zeros = item.zeros)
             /\ item.zeros = TRUE => e.zeros = TRUE
  <2>1. w \in Nat /\ w > 8 /\ w \in Int
    BY <1>0
  <2> DEFINE v == IF item.len < 20 THEN w ELSE item.val
  <2>2. e = [list |-> item.list, loose |-> item.loose, zeros |-> item.zeros, len |-> w, val |-> v]
    BY <1>1, <1>6
  <2>3. v \in Int \cup PointsOf(p) \cup Half /\ (item.val \in Int => v \in Int)
        /\ (item.len >= 20 => v = item.val)
    BY <1>1, <2>1
  <2> HIDE DEF v
  <2>4. e \in ItemOf(p)
    BY <1>2, <2>1, <2>2, <2>3 DEF ItemOf
  <2>5. e.len = w /\ e.val = v /\ e.zeros = item.zeros
    BY <2>2
  <2>6. QED
    BY <1>1, <1>6, <2>1, <2>3, <2>4, <2>5
<1>7. QED
  BY <1>3, <1>4, <1>5, <1>6 DEF Respelled

LEMMA RespelledKin ==
  ASSUME NEW i \in Int, NEW n \in Int, NEW p, NEW len, NEW item, KinItem(i, n, p, len, item),
         NEW e \in Respelled(item)
  PROVE  KinItem(i, n, p, len, e)
<1>1. item \in ItemOf(p)
  BY DEF KinItem
<1>2. /\ e \in ItemOf(p) /\ e.len \in Nat /\ item.len \in Nat /\ e.len >= item.len
      /\ item.val \in Int => e.val \in Int
      /\ item.len >= 20 => e.val = item.val
      /\ e.zeros = TRUE \/ e.len > 8 \/ (e.len = item.len /\ e.zeros = item.zeros)
      /\ item.zeros = TRUE => e.zeros = TRUE
  BY <1>1, RespelledItem
<1>3. i = n - 2 => e.zeros = TRUE \/ e.len > 8 \/ e.len = len
  BY <1>2 DEF KinItem
<1>4. i = n - 1 => e.val \in PointsOf(p) /\ e.len >= 32
  BY <1>2 DEF KinItem
<1>5. i = n => e.val \in Half /\ e.len >= 32
  BY <1>2 DEF KinItem
<1>6. QED
  BY <1>2, <1>3, <1>4, <1>5 DEF KinItem

\* One item of a sequence is spelled in another way.
LEMMA RespelledSeq ==
  ASSUME NEW S, NEW s \in Seq(S), NEW q \in RespelledItems(s),
         \A x \in S : Respelled(x) \subseteq S
  PROVE  /\ q \in Seq(S) /\ Len(q) = Len(s) /\ DOMAIN q = DOMAIN s
         /\ \A i \in DOMAIN s : q[i] = s[i] \/ q[i] \in Respelled(s[i])
<1>1. PICK i \in DOMAIN s : \E e \in Respelled(s[i]) : q = [s EXCEPT ![i] = e]
  BY DEF RespelledItems
<1>2. PICK e \in Respelled(s[i]) : q = [s EXCEPT ![i] = e]
  BY <1>1
<1>3. e \in S /\ i \in 1..Len(s)
  BY <1>2, LenProperties
<1>4. q \in Seq(S) /\ Len(q) = Len(s)
  BY <1>2, <1>3, ExceptSeq
<1>5. QED
  BY <1>2, <1>4, LenProperties
\* An item gets another value of its kind.
LEMMA RevaluedKin ==
  ASSUME NEW i \in Int, NEW n \in Int, NEW p, NEW len, NEW e, KinItem(i, n, p, len, e), NEW x,
         x \in Int \cup PointsOf(p) \cup Half,
         i <= n - 2 => x \in Int, i = n - 1 => x \in PointsOf(p), i = n => x \in Half
  PROVE  KinItem(i, n, p, len, [e EXCEPT !.val = x])
<1> DEFINE q == [e EXCEPT !.val = x]
<1>1. e \in ItemOf(p)
  BY DEF KinItem
<1>2. q = [list |-> e.list, loose |-> e.loose, zeros |-> e.zeros, len |-> e.len, val |-> x]
  BY <1>1 DEF ItemOf
<1>3. e.list \in BOOLEAN /\ e.loose \in BOOLEAN /\ e.zeros \in BOOLEAN /\ e.len \in Nat
  BY <1>1 DEF ItemOf
<1> HIDE DEF q
<1>4. q \in ItemOf(p)
  BY <1>2, <1>3 DEF ItemOf
<1>5. q.zeros = e.zeros /\ q.len = e.len /\ q.val = x
  BY <1>2
<1>6. KinItem(i, n, p, len, q)
  BY <1>4, <1>5 DEF KinItem
<1>7. QED
  BY <1>6 DEF q

\* Other items, of the kind, in the same transaction.
LEMMA KinItems ==
  ASSUME NEW type, NEW p, NEW len, NEW raw, Kin(type, p, len, raw), NEW s \in Seq(ItemOf(p)),
         \A i \in DOMAIN s : KinItem(i, Size9or12(type), p, len, s[i])
  PROVE  Kin(type, p, len, [raw EXCEPT !.items = s]) /\ [raw EXCEPT !.items = s].items = s
<1> DEFINE q == [raw EXCEPT !.items = s]
<1>1. raw \in RawOf(p) /\ raw.type = type
  BY DEF Kin
<1>2. q \in RawOf(p) /\ q.type = type /\ q.items = s
  BY <1>1 DEF RawOf
<1>3. QED
  BY <1>2 DEF Kin

LEMMA RespelledRaw ==
  ASSUME NEW type, NEW p, NEW len, NEW raw, Kin(type, p, len, raw),
         NEW s \in RespelledItems(raw.items)
  PROVE  LET q == [raw EXCEPT !.items = s]
         IN  Kin(type, p, len, q) /\ Len(q.items) = Len(raw.items)
<1> DEFINE n == Size9or12(type)
<1>1. raw.items \in Seq(ItemOf(p))
  BY DEF Kin, RawOf
<1>2. \A x \in ItemOf(p) : Respelled(x) \subseteq ItemOf(p)
  BY RespelledItem
<1>3. /\ s \in Seq(ItemOf(p)) /\ Len(s) = Len(raw.items) /\ DOMAIN s = DOMAIN raw.items
      /\ \A i \in DOMAIN s : s[i] = raw.items[i] \/ s[i] \in Respelled(raw.items[i])
  BY <1>1, <1>2, RespelledSeq
<1>4. n \in Int /\ DOMAIN s \subseteq Int
  BY <1>3 DEF Size9or12
<1>5. \A i \in DOMAIN s : KinItem(i, n, p, len, raw.items[i])
  BY <1>3 DEF Kin
<1> HIDE DEF n
<1>6. \A i \in DOMAIN s : KinItem(i, n, p, len, s[i])
  BY <1>3, <1>4, <1>5, RespelledKin
<1>7. Kin(type, p, len, [raw EXCEPT !.items = s]) /\ [raw EXCEPT !.items = s].items = s
  BY <1>3, <1>6, KinItems DEF n
<1>8. QED
  BY <1>3, <1>7

\* Another header, more bytes, more items or fewer; or another type.
LEMMA RewrappedRaw ==
  ASSUME NEW type, NEW p, NEW len, NEW raw, Kin(type, p, len, raw), NEW q \in Rewrapped(raw),
         Len(raw.items) >= Size9or12(type) - 1
  PROVE  Refused(p, q) \/ (Kin(type, p, len, q) /\ Len(q.items) >= Len(raw.items) - 1)
<1> DEFINE n == Size9or12(type)
           it == raw.items
<1>1. /\ raw \in RawOf(p) /\ raw.type = type /\ it \in Seq(ItemOf(p)) /\ Len(it) \in Nat
      /\ DOMAIN it = 1..Len(it) /\ n \in Nat /\ n - 1 \in Nat
      /\ \A i \in DOMAIN it : KinItem(i, n, p, len, it[i])
  BY LenProperties DEF Kin, RawOf, Size9or12
<1>2. CASE (\E f \in {"trailing", "cut"} : q = [raw EXCEPT !.fit = f]) \/ q = [raw EXCEPT !.loose = TRUE]
  <2>1. q \in RawOf(p) /\ q.type = type /\ q.items = it
    BY <1>1, <1>2 DEF RawOf
  <2>2. Kin(type, p, len, q)
    BY <1>1, <2>1 DEF Kin
  <2>3. QED
    BY <1>1, <2>1, <2>2
<1>3. CASE q = [raw EXCEPT !.type = "typed"]
  BY <1>1, <1>3 DEF RawOf, Refused
<1>4. CASE q = [raw EXCEPT !.items = Append(it, Item(32, "huge"))]
  <2> DEFINE e == Item(32, "huge")
             s == Append(it, e)
  <2>1. e \in ItemOf(p) /\ e.val = "huge" /\ e.len = 32
    BY DEF Item, ItemOf, Half
  <2> HIDE DEF e, n
  <2>2. /\ s \in Seq(ItemOf(p)) /\ Len(s) = Len(it) + 1 /\ DOMAIN s = 1..(Len(it) + 1)
        /\ \A i \in 1..Len(it) : s[i] = it[i]
        /\ s[Len(it) + 1] = e
    BY <1>1, <2>1, AppendProperties, LenProperties
  <2>3. KinItem(Len(it) + 1, n, p, len, e)
    <3>1. Len(it) + 1 >= n /\ "huge" \in Half
      BY <1>1 DEF n, Half
    <3>2. ~(Len(it) + 1 <= n - 2) /\ Len(it) + 1 # n - 2 /\ Len(it) + 1 # n - 1
      BY <1>1, <3>1
    <3>3. QED
      BY <2>1, <3>1, <3>2 DEF KinItem
  <2>4. \A i \in DOMAIN s : i \in DOMAIN it \/ i = Len(it) + 1
    BY <1>1, <2>2
  <2>5. \A i \in DOMAIN s : KinItem(i, n, p, len, s[i])
    BY <1>1, <2>2, <2>3, <2>4
  <2>6. q = [raw EXCEPT !.items = s]
    BY <1>4 DEF e
  <2> HIDE DEF s
  <2>7. Kin(type, p, len, q) /\ q.items = s
    BY <2>2, <2>5, <2>6, KinItems DEF n
  <2>8. QED
    BY <1>1, <2>2, <2>7
<1>5. CASE q = [raw EXCEPT !.items = Front(it)]
  <2> DEFINE s == Front(it)
             k == Len(it) - 1
  <2>0. k \in Nat /\ k <= Len(it) /\ 1 \in 1..(Len(it) + 1) /\ k \in 0..Len(it)
    <3>1. Len(it) >= 8
      BY <1>1 DEF Size9or12
    <3>2. QED
      BY <1>1, <3>1
  <2>1. s = SubSeq(it, 1, k)
    BY DEF Front
  <2> HIDE DEF k, s, n
  <2>2. /\ s \in Seq(ItemOf(p)) /\ Len(s) = IF 1 <= k THEN k - 1 + 1 ELSE 0
        /\ \A i \in 1..(k - 1 + 1) : s[i] = it[1 + i - 1]
    BY <1>1, <2>0, <2>1, SubSeqProperties
  <2>3. Len(s) = k /\ DOMAIN s = 1..k
    BY <2>0, <2>2, LenProperties
  <2>4. \A i \in DOMAIN s : i \in DOMAIN it /\ s[i] = it[i]
    BY <1>1, <2>0, <2>2, <2>3
  <2>5. Kin(type, p, len, q) /\ q.items = s
    <3>1. \A i \in DOMAIN s : KinItem(i, n, p, len, s[i])
      BY <1>1, <2>4
    <3>2. q = [raw EXCEPT !.items = s]
      BY <1>5 DEF s
    <3>3. QED
      BY <2>2, <3>1, <3>2, KinItems DEF n
  <2>6. QED
    BY <1>1, <2>3, <2>5 DEF k
<1>6. QED
  BY <1>2, <1>3, <1>4, <1>5 DEF Rewrapped
\* Another value for one item.
Revalued(raw, k, x) == [raw EXCEPT !.items[k].val = x]

LEMMA RevaluedRaw ==
  ASSUME NEW type, NEW p, NEW len, NEW raw, Kin(type, p, len, raw),
         NEW k \in DOMAIN raw.items, NEW x, x \in Int \cup PointsOf(p) \cup Half,
         k <= Size9or12(type) - 2 => x \in Int,
         k = Size9or12(type) - 1 => x \in PointsOf(p), k = Size9or12(type) => x \in Half
  PROVE  Kin(type, p, len, Revalued(raw, k, x)) /\ Len(Revalued(raw, k, x).items) = Len(raw.items)
<1> DEFINE n == Size9or12(type)
           it == raw.items
           e == [it[k] EXCEPT !.val = x]
           s == [it EXCEPT ![k] = e]
<1>1. /\ it \in Seq(ItemOf(p)) /\ k \in Int /\ n \in Int /\ DOMAIN it = 1..Len(it)
      /\ \A i \in DOMAIN it : KinItem(i, n, p, len, it[i])
  BY LenProperties DEF Kin, RawOf, Size9or12
<1>2. KinItem(k, n, p, len, e)
  BY <1>1, RevaluedKin
<1>3. e \in ItemOf(p)
  BY <1>2 DEF KinItem
<1>4. Revalued(raw, k, x) = [raw EXCEPT !.items = s]
  BY DEF Revalued
<1> HIDE DEF e, n
<1>5. s \in Seq(ItemOf(p)) /\ Len(s) = Len(it) /\ \A j \in 1..Len(it) : s[j] = IF j = k THEN e ELSE it[j]
  BY <1>1, <1>3, ExceptSeq
<1>6. DOMAIN s = DOMAIN it /\ \A i \in DOMAIN s : (s[i] = e /\ i = k) \/ s[i] = it[i]
  BY <1>1, <1>5, LenProperties
<1>7. \A i \in DOMAIN s : KinItem(i, n, p, len, s[i])
  BY <1>1, <1>2, <1>6
<1> HIDE DEF s
<1>9. Kin(type, p, len, [raw EXCEPT !.items = s]) /\ [raw EXCEPT !.items = s].items = s
  BY <1>5, <1>7, KinItems DEF n
<1>10. QED
  BY <1>4, <1>5, <1>9

\* Other signatures.
LEMMA ResignedRaw ==
  ASSUME NEW type \in {"legacy", "dynamic"}, NEW p, NEW len, NEW raw, Kin(type, p, len, raw),
         Len(raw.items) = Size9or12(type), NEW q \in Resigned(raw)
  PROVE  Kin(type, p, len, q) /\ Len(q.items) = Len(raw.items)
<1> DEFINE n == Len(raw.items)
<1>1. /\ n = Size9or12(type) /\ n \in {9, 12} /\ raw.items \in Seq(ItemOf(p)) /\ DOMAIN raw.items = 1..n
      /\ n - 2 \in DOMAIN raw.items /\ n - 1 \in DOMAIN raw.items /\ n \in DOMAIN raw.items
  <2>1. n = Size9or12(type) /\ n \in {9, 12}
    BY DEF Size9or12
  <2>2. raw.items \in Seq(ItemOf(p))
    BY DEF Kin, RawOf
  <2>3. DOMAIN raw.items = 1..n
    BY <2>2, LenProperties
  <2> HIDE DEF n
  <2>4. n - 2 \in 1..n /\ n - 1 \in 1..n /\ n \in 1..n
    BY <2>1
  <2>5. QED
    BY <2>1, <2>2, <2>3, <2>4
\* The value of one of the last three items.
<1>0. ASSUME NEW r, Kin(type, p, len, r), Len(r.items) = n, NEW k \in {n - 2, n - 1, n}, NEW x,
             k = n - 2 => x \in Int, k = n - 1 => x \in PointsOf(p), k = n => x \in Half
      PROVE  Kin(type, p, len, Revalued(r, k, x)) /\ Len(Revalued(r, k, x).items) = n
  <2>1. k \in DOMAIN r.items
    <3>1. r.items \in Seq(ItemOf(p))
      BY <1>0 DEF Kin, RawOf
    <3>2. DOMAIN r.items = 1..n
      BY <1>0, <3>1, LenProperties
    <3>3. QED
      BY <1>1, <3>2
  <2>2. n = Size9or12(type) /\ n \in Int
    BY <1>1
  <2> HIDE DEF n
  <2>3. /\ x \in Int \cup PointsOf(p) \cup Half
        /\ k <= n - 2 => x \in Int
    BY <1>0, <2>2
  <2>4. /\ k <= Size9or12(type) - 2 => x \in Int
        /\ k = Size9or12(type) - 1 => x \in PointsOf(p)
    BY <1>0, <2>2, <2>3
  <2>5. k = Size9or12(type) => x \in Half
    BY <1>0, <2>2
  <2>6. QED
    BY <1>0, <2>1, <2>3, <2>4, <2>5, RevaluedRaw
<1> DEFINE v == raw.items[n - 2].val
<1>2. v \in Int
  <2>1. KinItem(n - 2, n, p, len, raw.items[n - 2])
    BY <1>1 DEF Kin
  <2>2. n - 2 <= n - 2
    BY <1>1
  <2>3. QED
    BY <2>1, <2>2 DEF KinItem
<1> HIDE DEF n, v
<1>3. n - 2 # n - 1 /\ n - 1 # n /\ n - 2 # n /\ Len(raw.items) = n
  BY <1>1 DEF n
<1>4. ASSUME NEW x \in Int, q = Revalued(raw, n - 2, x)
      PROVE  Kin(type, p, len, q) /\ Len(q.items) = n
  BY <1>0, <1>3, <1>4
<1>5. ASSUME NEW x \in {NoPoint, HugePoint}, q = Revalued(raw, n - 1, x)
      PROVE  Kin(type, p, len, q) /\ Len(q.items) = n
  <2>1. x \in PointsOf(p)
    BY DEF PointsOf
  <2>2. QED
    BY <1>0, <1>3, <1>5, <2>1
<1>6. ASSUME NEW x \in {"zero", "high", "huge"}, q = Revalued(raw, n, x)
      PROVE  Kin(type, p, len, q) /\ Len(q.items) = n
  <2>1. x \in Half
    BY DEF Half
  <2>2. QED
    BY <1>0, <1>3, <1>6, <2>1
<1>7. CASE q = Twin(raw)
  <2> DEFINE x == IF raw.type = "dynamic" THEN 1 - v ELSE IF VParity(v) = 0 THEN v + 1 ELSE v - 1
             r == Revalued(raw, n - 2, x)
  <2>1. x \in Int
    BY <1>2
  <2>2. q = Revalued(r, n, "high")
    BY <1>7 DEF Twin, n, v, Revalued
  <2> HIDE DEF x
  <2>3. Kin(type, p, len, r) /\ Len(r.items) = n
    BY <1>0, <1>3, <2>1
  <2> HIDE DEF r
  <2>4. "high" \in Half
    BY DEF Half
  <2>5. QED
    BY <1>0, <1>3, <2>2, <2>3, <2>4
<1>8. QED
  <2>1. \A x \in {2, 26, 27, 256} : x \in Int
    OBVIOUS
  <2>2. \/ \E x \in {2, 26, 27, 256} : q = Revalued(raw, n - 2, x)
        \/ \E x \in {NoPoint, HugePoint} : q = Revalued(raw, n - 1, x)
        \/ \E x \in {"zero", "high", "huge"} : q = Revalued(raw, n, x)
        \/ q = Twin(raw)
    BY DEF Resigned, n, Revalued
  <2>3. QED
    BY <1>3, <1>4, <1>5, <1>6, <1>7, <2>1, <2>2

\* One change leaves kin, or another type.
LEMMA ChangedRaw ==
  ASSUME NEW type \in {"legacy", "dynamic"}, NEW p, NEW len, NEW raw, Kin(type, p, len, raw),
         Len(raw.items) >= Size9or12(type) - 1, NEW q \in Changed(raw)
  PROVE  Refused(p, q) \/ (Kin(type, p, len, q) /\ Len(q.items) >= Len(raw.items) - 1)
<1>1. Len(raw.items) \in Nat /\ raw.type = type
  BY LenProperties DEF Kin, RawOf
<1>2. CASE \E s \in RespelledItems(raw.items) : q = [raw EXCEPT !.items = s]
  BY <1>1, <1>2, RespelledRaw
<1>3. CASE q \in Rewrapped(raw)
  BY <1>3, RewrappedRaw
<1>4. CASE Len(raw.items) = Size9or12(type) /\ q \in Resigned(raw)
  BY <1>1, <1>4, ResignedRaw
<1>5. QED
  BY <1>1, <1>2, <1>3, <1>4 DEF Changed, Size9or12

LEMMA RefusedStays ==
  ASSUME NEW p, NEW raw, Refused(p, raw), NEW q \in Changed(raw)
  PROVE  q.type = "typed"
<1>1. raw \in RawOf(p) /\ raw.type = "typed"
  BY DEF Refused
<1>2. CASE \E s : q = [raw EXCEPT !.items = s]
  BY <1>1, <1>2 DEF RawOf
<1>3. CASE (\E f : q = [raw EXCEPT !.fit = f]) \/ q = [raw EXCEPT !.loose = TRUE] \/ q = [raw EXCEPT !.type = "typed"]
  BY <1>1, <1>3 DEF RawOf
<1>4. ASSUME q \in Resigned(raw) PROVE q.type = "typed"
  <2> DEFINE n == Len(raw.items)
  <2>1. ASSUME NEW k, NEW x, q = Revalued(raw, k, x) PROVE q.type = "typed"
    BY <1>1, <2>1 DEF RawOf, Revalued
  <2>2. ASSUME q = Twin(raw) PROVE q.type = "typed"
    <3>1. PICK x : q = [raw EXCEPT !.items[n - 2].val = x, !.items[n].val = "high"]
      BY <2>2 DEF Twin
    <3>2. QED
      BY <1>1, <3>1 DEF RawOf
  <2>4. \/ \E x : q = Revalued(raw, n - 2, x)
        \/ \E x : q = Revalued(raw, n - 1, x)
        \/ \E x : q = Revalued(raw, n, x)
        \/ q = Twin(raw)
    BY <1>4 DEF Resigned, Revalued
  <2>5. QED
    BY <2>1, <2>2, <2>4
<1>5. QED
  BY <1>2, <1>3, <1>4 DEF Changed, Rewrapped
-----------------------------------------------------------------------------
(* Signed transactions *)

NumberItem == [list : BOOLEAN, loose : BOOLEAN, zeros : BOOLEAN, len : Nat, val : Int]

LEMMA NumberItems ==
  /\ \A n \in Int : Number(n) \in NumberItem
  /\ \A k \in Nat, n \in Int : Item(k, n) \in NumberItem
  /\ EmptyList \in NumberItem
<1>1. \A k \in Nat, n \in Int : Item(k, n) \in NumberItem
  BY DEF Item, NumberItem
<1>2. \A n \in Int : Number(n) \in NumberItem
  <2> SUFFICES ASSUME NEW n \in Int PROVE Number(n) \in NumberItem
    OBVIOUS
  <2>1. (IF n = 0 THEN 0 ELSE 1) \in Nat
    OBVIOUS
  <2>2. QED
    BY <1>1, <2>1 DEF Number
<1>3. EmptyList \in NumberItem
  <2> DEFINE e == Item(0, 0)
  <2>1. e \in NumberItem /\ EmptyList = [e EXCEPT !.list = TRUE]
    BY <1>1 DEF EmptyList
  <2> HIDE DEF e
  <2>2. QED
    BY <2>1 DEF NumberItem
<1>4. QED
  BY <1>1, <1>2, <1>3

LEMMA RespelledNumber ==
  ASSUME NEW item \in NumberItem
  PROVE  Respelled(item) \subseteq NumberItem
<1> SUFFICES ASSUME NEW e \in Respelled(item) PROVE e \in NumberItem
  OBVIOUS
<1>1. item \in ItemOf(0) /\ item.val \in Int
  BY DEF NumberItem, ItemOf
<1>2. e \in ItemOf(0) /\ e.val \in Int
  BY <1>1, RespelledItem
<1>3. QED
  BY <1>2 DEF ItemOf, NumberItem

\* The items a signature covers are numbers.
LEMMA BodyShape ==
  ASSUME NEW type \in {"legacy", "dynamic"}, NEW c \in Nat, NEW n \in Nat, NEW body \in Bodies(type, c, n)
  PROVE  body \in Seq(NumberItem) /\ Len(body) = Size9or12(type) - 3
<1> DEFINE b == Body(type, c, n)
           mid == <<Number(1), Item(20, 0), Number(0), Item(0, 0)>>
           first == IF type = "legacy" THEN <<Number(n), Number(1)>>
                    ELSE <<Number(c), Number(n), Number(1), Number(1)>>
           last == IF type = "legacy" THEN <<>> ELSE <<EmptyList>>
<1>0. /\ Number(0) \in NumberItem /\ Number(1) \in NumberItem /\ Number(n) \in NumberItem
      /\ Number(c) \in NumberItem /\ Item(20, 0) \in NumberItem /\ Item(0, 0) \in NumberItem
      /\ EmptyList \in NumberItem
  <2>1. 0 \in Int /\ 1 \in Int /\ n \in Int /\ c \in Int /\ 20 \in Nat /\ 0 \in Nat
    OBVIOUS
  <2>2. Number(0) \in NumberItem /\ Number(1) \in NumberItem
    BY <2>1, NumberItems, Zenon
  <2>3. Number(n) \in NumberItem /\ Number(c) \in NumberItem
    BY <2>1, NumberItems, Zenon
  <2>4. Item(20, 0) \in NumberItem /\ Item(0, 0) \in NumberItem
    BY <2>1, NumberItems, Zenon
  <2>5. EmptyList \in NumberItem
    BY NumberItems, Zenon
  <2>6. QED
    BY <2>2, <2>3, <2>4, <2>5
<1>1. mid \in Seq(NumberItem) /\ Len(mid) = 4
  BY <1>0
<1>2. first \in Seq(NumberItem) /\ Len(first) = IF type = "legacy" THEN 2 ELSE 4
  <2>1. CASE type = "legacy"
    BY <1>0, <2>1
  <2>2. CASE type # "legacy"
    BY <1>0, <2>2
  <2>3. QED
    BY <2>1, <2>2
<1>3. last \in Seq(NumberItem) /\ Len(last) = IF type = "legacy" THEN 0 ELSE 1
  <2>1. CASE type = "legacy"
    BY <2>1, EmptySeq
  <2>2. CASE type # "legacy"
    BY <1>0, <2>2
  <2>3. QED
    BY <2>1, <2>2
<1>4. b = IF type = "legacy" THEN first \o mid ELSE (first \o mid) \o last
  BY DEF Body
<1> HIDE DEF mid, first, last, b
<1>5. first \o mid \in Seq(NumberItem) /\ Len(first \o mid) = Len(first) + Len(mid)
  BY <1>1, <1>2, ConcatProperties
<1>6. /\ (first \o mid) \o last \in Seq(NumberItem)
      /\ Len((first \o mid) \o last) = Len(first \o mid) + Len(last)
  BY <1>3, <1>5, ConcatProperties
<1>7. b \in Seq(NumberItem) /\ Len(b) = Size9or12(type) - 3
  BY <1>1, <1>2, <1>3, <1>4, <1>5, <1>6 DEF Size9or12
<1>8. CASE body = b
  BY <1>7, <1>8
<1>9. CASE body \in RespelledItems(b)
  BY <1>7, <1>9, RespelledNumber, RespelledSeq
<1>10. ASSUME NEW k \in 1..Len(b), NEW e \in NumberItem, body = [b EXCEPT ![k] = e]
       PROVE  body \in Seq(NumberItem) /\ Len(body) = Size9or12(type) - 3
  BY <1>7, <1>10, ExceptSeq
<1>11. CASE type # "legacy" /\ body = [b EXCEPT ![3] = Number(2)]
  <2>1. 3 \in 1..Len(b) /\ Number(2) \in NumberItem
    BY <1>7, <1>11, NumberItems DEF Size9or12
  <2>2. QED
    BY <1>10, <1>11, <2>1
<1>12. CASE type # "legacy" /\ body = [b EXCEPT ![9].len = 1]
  <2> DEFINE e == [b[9] EXCEPT !.len = 1]
  <2>1. 9 \in 1..Len(b)
    BY <1>7, <1>12 DEF Size9or12
  <2>2. b[9] \in NumberItem
    BY <1>7, <2>1
  <2>3. e \in NumberItem
    BY <2>2 DEF NumberItem
  <2>4. body = [b EXCEPT ![9] = e]
    BY <1>12
  <2> HIDE DEF e
  <2>5. QED
    BY <1>10, <2>1, <2>3, <2>4
<1>13. QED
  BY <1>8, <1>9, <1>11, <1>12 DEF Bodies, b

\* The point and the v, or parity, of a signature.
HashOf(type, body, c) == IF type = "legacy" THEN LegacyHash(body, c) ELSE DynamicHash(body)
PointOf(by, type, body, c, odd) == Point(by, HashOf(type, body, c), odd)
VOf(type, c, odd) ==
  IF type = "dynamic" THEN odd ELSE IF c = NoChain THEN 27 + odd ELSE 35 + 2 * c + odd

\* A transaction t that carries the body, v and point p as their signer wrote them.
SignedAs(t, type, body, v, p) ==
  LET n == Size9or12(type)
  IN  /\ t \in RawOf(p) /\ t.type = type /\ t.fit = "exact" /\ t.loose = FALSE
      /\ t.items \in Seq(ItemOf(p)) /\ Len(t.items) = n
      /\ \A i \in 1..(n - 3) : t.items[i] = body[i] /\ body[i] \in NumberItem
      /\ t.items[n - 2] = Number(v) /\ v \in Int
      /\ t.items[n - 1] = Item(32, p)
      /\ t.items[n] = Item(32, "low")

LEMMA SignedShape ==
  ASSUME NEW by, NEW type \in {"legacy", "dynamic"}, NEW body \in Seq(NumberItem),
         Len(body) = Size9or12(type) - 3, NEW c \in Nat, NEW odd \in {0, 1}
  PROVE  SignedAs(Signed(by, type, body, c, odd), type, body, VOf(type, c, odd), PointOf(by, type, body, c, odd))
<1> DEFINE t == Signed(by, type, body, c, odd)
           p == PointOf(by, type, body, c, odd)
           n == Size9or12(type)
           v == VOf(type, c, odd)
           sig == <<Number(v), Item(32, p), Item(32, "low")>>
<1>1. t = [type |-> type, fit |-> "exact", loose |-> FALSE, items |-> body \o sig]
  <2>1. Number(v) = IF type = "dynamic" THEN Number(odd)
                    ELSE Number(IF c = NoChain THEN 27 + odd ELSE 35 + 2 * c + odd)
    BY DEF VOf
  <2>2. p = Point(by, IF type = "legacy" THEN LegacyHash(body, c) ELSE DynamicHash(body), odd)
    BY DEF PointOf, HashOf
  <2>3. QED
    BY <2>1, <2>2 DEF Signed
<1>2. v \in Int /\ n \in Nat /\ n - 3 \in Nat
  BY DEF VOf, NoChain, Size9or12
<1> HIDE DEF t, p, v, n
<1>3. \A e \in NumberItem : e \in ItemOf(p)
  BY DEF NumberItem, ItemOf
<1>4. Number(v) \in ItemOf(p)
  BY <1>2, <1>3, NumberItems
<1>5. Item(32, p) \in ItemOf(p) /\ Item(32, "low") \in ItemOf(p)
  BY DEF Item, ItemOf, PointsOf, Half
<1>6. /\ sig \in Seq(ItemOf(p)) /\ Len(sig) = 3
      /\ sig[1] = Number(v) /\ sig[2] = Item(32, p) /\ sig[3] = Item(32, "low")
  BY <1>4, <1>5
<1> HIDE DEF sig
<1>7. body \in Seq(ItemOf(p)) /\ Len(body) = n - 3
  <2>1. NumberItem \subseteq ItemOf(p)
    BY <1>3
  <2>2. QED
    BY <2>1, SeqMonotonic DEF n
<1>8. /\ body \o sig \in Seq(ItemOf(p)) /\ Len(body \o sig) = Len(body) + Len(sig)
      /\ \A i \in 1..(Len(body) + Len(sig)) : (body \o sig)[i] =
           IF i <= Len(body) THEN body[i] ELSE sig[i - Len(body)]
  BY <1>6, <1>7, ConcatProperties
<1> DEFINE s == body \o sig
<1>9. s \in Seq(ItemOf(p)) /\ Len(s) = n
      /\ \A i \in 1..n : s[i] = IF i <= n - 3 THEN body[i] ELSE sig[i - (n - 3)]
  BY <1>2, <1>6, <1>7, <1>8
<1> HIDE DEF s
<1>10. \A i \in 1..(n - 3) : s[i] = body[i] /\ body[i] \in NumberItem
  BY <1>2, <1>7, <1>9
<1>11. s[n - 2] = sig[1] /\ s[n - 1] = sig[2] /\ s[n] = sig[3]
  <2>1. n - 2 \in 1..n /\ n - 1 \in 1..n /\ n \in 1..n
    BY <1>2
  <2>2. (n - 2) - (n - 3) = 1 /\ (n - 1) - (n - 3) = 2 /\ n - (n - 3) = 3
    BY <1>2
  <2>3. ~(n - 2 <= n - 3) /\ ~(n - 1 <= n - 3) /\ ~(n <= n - 3)
    BY <1>2
  <2>4. QED
    BY <1>9, <2>1, <2>2, <2>3
<1>12. t = [type |-> type, fit |-> "exact", loose |-> FALSE, items |-> s]
  BY <1>1 DEF s
<1>13. t \in RawOf(p) /\ t.type = type /\ t.fit = "exact" /\ t.loose = FALSE /\ t.items = s
  BY <1>9, <1>12 DEF RawOf
<1>14. QED
  <2>1. SignedAs(t, type, body, v, p)
    BY <1>2, <1>6, <1>9, <1>10, <1>11, <1>13 DEF SignedAs, n
  <2>2. QED
    BY <2>1 DEF t, p, v
\* What is known of a point of the signature, and of the others.
LEMMA PointFields ==
  ASSUME NEW by, NEW type, NEW body, NEW c, NEW odd, NEW x \in PointsOf(PointOf(by, type, body, c, odd)),
         x.size = "point"
  PROVE  /\ x = PointOf(by, type, body, c, odd)
         /\ x.by = by /\ x.over = HashOf(type, body, c) /\ x.odd = odd
<1> DEFINE p == PointOf(by, type, body, c, odd)
           h == HashOf(type, body, c)
<1>1. p = [by |-> by, over |-> h, odd |-> odd, size |-> "point"]
  BY DEF PointOf, Point
<1>2. NoPoint.size = "zero" /\ HugePoint.size = "huge"
  BY DEF NoPoint, HugePoint
<1> HIDE DEF p, h
<1>3. x = p
  BY <1>2 DEF PointsOf, p
<1>4. QED
  BY <1>1, <1>3 DEF p, h

\* A string that the engine reads is known by its length and its value.
LEMMA ReadItem ==
  ASSUME NEW p, NEW e \in ItemOf(p), ~e.list, ~e.loose, ~e.zeros, NEW k, e.len = k
  PROVE  e = Item(k, e.val)
<1>1. e = [list |-> e.list, loose |-> e.loose, zeros |-> e.zeros, len |-> e.len, val |-> e.val]
  BY DEF ItemOf
<1>2. e.list = FALSE /\ e.loose = FALSE /\ e.zeros = FALSE
  <2>1. e.list \in BOOLEAN /\ e.loose \in BOOLEAN /\ e.zeros \in BOOLEAN
    BY DEF ItemOf
  <2>2. QED
    BY <2>1
<1>3. QED
  BY <1>1, <1>2 DEF Item

\* Two sequences of items under one hash.
LEMMA SameCovered ==
  ASSUME NEW S, NEW s \in Seq(S), NEW u \in Seq(S), NEW k \in Nat, k >= 1, k <= Len(s), k <= Len(u),
         SubSeq(s, 1, k) = SubSeq(u, 1, k)
  PROVE  \A i \in 1..k : s[i] = u[i]
<1>1. 1 \in 1..(Len(s) + 1) /\ k \in 0..Len(s) /\ 1 \in 1..(Len(u) + 1) /\ k \in 0..Len(u)
  BY LenProperties
<1>2. \A i \in 1..(k - 1 + 1) : SubSeq(s, 1, k)[i] = s[1 + i - 1]
  BY <1>1, SubSeqProperties
<1>3. \A i \in 1..(k - 1 + 1) : SubSeq(u, 1, k)[i] = u[1 + i - 1]
  BY <1>1, SubSeqProperties
<1>4. QED
  BY <1>2, <1>3

\* Two raw transactions with the same items.
LEMMA SameRaw ==
  ASSUME NEW p, NEW q \in RawOf(p), NEW t \in RawOf(p), q.type = t.type, q.fit = t.fit, q.loose = t.loose,
         NEW k \in Nat, Len(q.items) = k, Len(t.items) = k, \A i \in 1..k : q.items[i] = t.items[i]
  PROVE  q = t
<1>1. q.items \in Seq(ItemOf(p)) /\ t.items \in Seq(ItemOf(p))
  BY DEF RawOf
<1>2. q.items = t.items
  BY <1>1, SeqEqual
<1>3. /\ q = [type |-> q.type, fit |-> q.fit, loose |-> q.loose, items |-> q.items]
      /\ t = [type |-> t.type, fit |-> t.fit, loose |-> t.loose, items |-> t.items]
  BY DEF RawOf
<1>4. QED
  BY <1>2, <1>3

\* A v from which the chain c and the parity odd are read.
LEMMA VOfChain ==
  ASSUME NEW v \in Int, v >= 35, NEW c \in Nat \ {0}, NEW odd \in {0, 1},
         (v - 35) \div 2 = c, (v - 35) % 2 = odd
  PROVE  v = 35 + 2 * c + odd
OBVIOUS

\* A key that is recovered is the maker's of the point, over the same hash.
LEMMA RecoveredKey ==
  ASSUME NEW h, NEW r, NEW odd, RecoverKey(h, r, "low", odd) \in Signer
  PROVE  r.size = "point" /\ r.over = h /\ odd = r.odd
BY CodecAssumption DEF RecoverKey
\* The engine reads the last three items, at a, b and n, and finds the point p
\* and a low half.
EndRead(n, a, b, type, p, len, raw) ==
  /\ n \in {9, 12} /\ a = n - 2 /\ b = n - 1 /\ n = Size9or12(type)
  /\ Kin(type, p, len, raw) /\ IsListOf(raw, n)
  /\ Parses(raw.items[a], 8) /\ Parses(raw.items[b], 32) /\ Parses(raw.items[n], 32)
  /\ raw.items[b].val = p /\ raw.items[n].val = "low" /\ len = Number(raw.items[a].val).len

LEMMA SameEnd ==
  ASSUME NEW n, NEW a, NEW b, NEW type, NEW p, NEW len, NEW raw, EndRead(n, a, b, type, p, len, raw)
  PROVE  /\ raw.items[a] = Number(raw.items[a].val)
         /\ raw.items[b] = Item(32, p)
         /\ raw.items[n] = Item(32, "low")
<1> DEFINE it == raw.items
<1>0. /\ n \in {9, 12} /\ a = n - 2 /\ b = n - 1 /\ n = Size9or12(type)
      /\ Kin(type, p, len, raw) /\ IsListOf(raw, n)
      /\ Parses(it[n - 2], 8) /\ Parses(it[n - 1], 32) /\ Parses(it[n], 32)
      /\ it[n - 1].val = p /\ it[n].val = "low" /\ len = Number(it[n - 2].val).len
  BY DEF EndRead
<1>1. it \in Seq(ItemOf(p)) /\ Len(it) = n
  BY <1>0 DEF Kin, RawOf, IsListOf
<1>2. DOMAIN it = 1..n /\ n - 2 \in 1..n /\ n - 1 \in 1..n /\ n \in 1..n
  BY <1>0, <1>1, LenProperties
<1>3. KinItem(n - 2, n, p, len, it[n - 2]) /\ KinItem(n - 1, n, p, len, it[n - 1]) /\ KinItem(n, n, p, len, it[n])
  BY <1>0, <1>1, <1>2 DEF Kin
<1>4. /\ it[n - 2] \in ItemOf(p) /\ it[n - 1] \in ItemOf(p) /\ it[n] \in ItemOf(p)
      /\ it[n - 2].len \in Nat /\ it[n - 1].len \in Nat /\ it[n].len \in Nat
  BY <1>3 DEF KinItem, ItemOf
<1>5. /\ ~it[n - 2].list /\ ~it[n - 2].loose /\ ~it[n - 2].zeros /\ it[n - 2].len <= 8
      /\ ~it[n - 1].list /\ ~it[n - 1].loose /\ ~it[n - 1].zeros /\ it[n - 1].len <= 32
      /\ ~it[n].list /\ ~it[n].loose /\ ~it[n].zeros /\ it[n].len <= 32
  BY <1>0 DEF Parses
<1>6. it[n - 1].len >= 32 /\ it[n].len >= 32
  BY <1>0, <1>3 DEF KinItem
<1>7. it[n - 1].len = 32 /\ it[n].len = 32
  BY <1>4, <1>5, <1>6
<1>8. it[n - 2].len = len
  BY <1>0, <1>3, <1>4, <1>5 DEF KinItem
<1>9. it[n - 2] = Item(len, it[n - 2].val)
  BY <1>4, <1>5, <1>8, ReadItem
<1>10. Number(it[n - 2].val) = Item(len, it[n - 2].val)
  BY <1>0 DEF Number, Item
<1>11. it[n - 1] = Item(32, p)
  BY <1>0, <1>4, <1>5, <1>7, ReadItem
<1>12. it[n] = Item(32, "low")
  BY <1>0, <1>4, <1>5, <1>7, ReadItem
<1>13. QED
  BY <1>0, <1>9, <1>10, <1>11, <1>12

\* Of what may become of a signed legacy transaction the engine runs for its
\* signer only what the signer made.
LEMMA LegacyForm ==
  ASSUME NEW by \in Signer, NEW body \in Seq(NumberItem), Len(body) = 6, NEW c \in Nat, NEW odd \in {0, 1},
         NEW raw, Kin("legacy", PointOf(by, "legacy", body, c, odd), Number(VOf("legacy", c, odd)).len, raw),
         ParseLegacy(raw) # Bad, ParseLegacy(raw).chain = ChainId, ParseLegacy(raw).from = by
  PROVE  raw = Signed(by, "legacy", body, c, odd)
<1> DEFINE p == PointOf(by, "legacy", body, c, odd)
           len == Number(VOf("legacy", c, odd)).len
           t == Signed(by, "legacy", body, c, odd)
           it == raw.items
           v == it[7].val
           from == RecoverKey(LegacyHash(it, VChain(v)), it[8].val, it[9].val, VParity(v))
<1>0. Size9or12("legacy") = 9
  BY DEF Size9or12
<1>1. /\ IsListOf(raw, 9) /\ Parses(it[7], 8) /\ Parses(it[8], 32) /\ Parses(it[9], 32)
      /\ v \notin {27, 28} /\ ~(v < 35)
      /\ ValidSignature(it[8].val, it[9].val, VParity(v))
      /\ ParseLegacy(raw) = Decoded(from, VChain(v), it[1].val)
  BY DEF ParseLegacy
<1>2. from = by /\ VChain(v) = ChainId
  BY <1>1 DEF Decoded
<1>3. it[8].val.size = "point" /\ it[9].val = "low"
  BY <1>1 DEF ValidSignature
<1>4. /\ raw \in RawOf(p) /\ raw.type = "legacy" /\ it \in Seq(ItemOf(p)) /\ Len(it) = 9 /\ DOMAIN it = 1..9
      /\ KinItem(7, 9, p, len, it[7]) /\ KinItem(8, 9, p, len, it[8])
  <2>1. raw \in RawOf(p) /\ raw.type = "legacy" /\ it \in Seq(ItemOf(p)) /\ Len(it) = 9
    BY <1>1 DEF Kin, RawOf, IsListOf
  <2>2. DOMAIN it = 1..9
    BY <2>1, LenProperties
  <2>3. \A i \in 1..9 : KinItem(i, 9, p, len, it[i])
    BY <1>0, <2>2 DEF Kin
  <2> HIDE DEF p, len
  <2>4. QED
    BY <2>1, <2>2, <2>3
<1>5. v \in Int /\ it[8].val \in PointsOf(p)
  <2> HIDE DEF p, len
  <2>1. QED
    BY <1>4 DEF KinItem
<1>6. it[8].val = p /\ it[8].val.over = HashOf("legacy", body, c) /\ it[8].val.odd = odd
  BY <1>3, <1>5, PointFields
<1>7. it[8].val.over = LegacyHash(it, VChain(v)) /\ VParity(v) = it[8].val.odd
  BY <1>2, <1>3, RecoveredKey
<1>8. SubSeq(it, 1, 6) = SubSeq(body, 1, 6) /\ VChain(v) = c
  BY <1>6, <1>7 DEF HashOf, LegacyHash
<1>9. c \in Nat \ {0}
  BY <1>2, <1>8, CodecAssumption
<1>10. v = VOf("legacy", c, odd)
  <2>1. (v - 35) \div 2 = c /\ (v - 35) % 2 = odd
    BY <1>1, <1>6, <1>7, <1>8 DEF VChain, VParity
  <2>2. v >= 35
    BY <1>1, <1>5
  <2>3. v = 35 + 2 * c + odd
    BY <1>5, <1>9, <2>1, <2>2, VOfChain
  <2>4. QED
    BY <1>9, <2>3 DEF VOf, NoChain
<1>11. it[7] = Number(v) /\ it[8] = Item(32, p) /\ it[9] = Item(32, "low")
  <2>1. 7 = 9 - 2 /\ 8 = 9 - 1 /\ 9 \in {9, 12}
    OBVIOUS
  <2>2. len = Number(v).len
    BY <1>10
  <2> HIDE DEF len, p
  <2>3. Kin("legacy", p, len, raw) /\ 9 = Size9or12("legacy") /\ IsListOf(raw, 9)
    BY <1>0, <1>1 DEF p, len
  <2>4. /\ Parses(it[7], 8) /\ Parses(it[8], 32) /\ Parses(it[9], 32)
        /\ it[8].val = p /\ it[9].val = "low" /\ len = Number(it[7].val).len
    BY <1>1, <1>3, <1>6, <2>2
  <2>5. EndRead(9, 7, 8, "legacy", p, len, raw)
    BY <2>1, <2>3, <2>4 DEF EndRead
  <2>6. QED
    BY <2>5, SameEnd
<1>12. /\ t \in RawOf(p) /\ t.type = "legacy" /\ t.fit = "exact" /\ t.loose = FALSE
       /\ t.items \in Seq(ItemOf(p)) /\ Len(t.items) = 9
       /\ \A i \in 1..6 : t.items[i] = body[i] /\ body[i] \in NumberItem
       /\ t.items[7] = Number(VOf("legacy", c, odd))
       /\ t.items[8] = Item(32, p)
       /\ t.items[9] = Item(32, "low")
  <2>1. Len(body) = Size9or12("legacy") - 3
    BY <1>0
  <2>2. 9 - 3 = 6 /\ 9 - 2 = 7 /\ 9 - 1 = 8
    OBVIOUS
  <2>3. SignedAs(t, "legacy", body, VOf("legacy", c, odd), p)
    BY <2>1, SignedShape
  <2> DEFINE x == VOf("legacy", c, odd)
  <2> HIDE DEF t, p, x
  <2>4. SignedAs(t, "legacy", body, x, p)
    BY <2>3 DEF x
  <2>5. QED
    BY <1>0, <2>2, <2>4 DEF SignedAs, x
<1> HIDE DEF p, t
<1>13. \A i \in 1..6 : it[i] = body[i]
  <2>1. body \in Seq(ItemOf(p))
    <3>1. NumberItem \subseteq ItemOf(p)
      BY DEF NumberItem, ItemOf
    <3>2. QED
      BY <3>1, SeqMonotonic
  <2> DEFINE k == 6
  <2>2. k \in Nat /\ k >= 1 /\ k <= Len(it) /\ k <= Len(body) /\ it \in Seq(ItemOf(p))
    BY <1>4
  <2>3. SubSeq(it, 1, k) = SubSeq(body, 1, k)
    BY <1>8
  <2> HIDE DEF it, k
  <2>4. \A i \in 1..k : it[i] = body[i]
    BY <2>1, <2>2, <2>3, SameCovered
  <2>5. QED
    BY <2>4 DEF k
<1>14. \A i \in 1..9 : i \in 1..6 \/ i = 7 \/ i = 8 \/ i = 9
  OBVIOUS
<1>15. \A i \in 1..9 : raw.items[i] = t.items[i]
  BY <1>10, <1>11, <1>12, <1>13, <1>14
<1>16. raw.fit = t.fit /\ raw.loose = t.loose
  <2>1. raw.loose \in BOOLEAN
    BY <1>4 DEF RawOf
  <2>2. raw.fit = "exact" /\ ~raw.loose
    BY <1>1 DEF IsListOf
  <2>3. QED
    BY <1>12, <2>1, <2>2
<1>17. /\ raw \in RawOf(p) /\ t \in RawOf(p) /\ raw.type = t.type
       /\ 9 \in Nat /\ Len(raw.items) = 9 /\ Len(t.items) = 9
  BY <1>4, <1>12
<1>18. raw = t
  BY <1>15, <1>16, <1>17, SameRaw
<1>19. QED
  BY <1>18 DEF t

\* The same of a fee-market transaction, for whatever chain it names.
LEMMA DynamicForm ==
  ASSUME NEW by \in Signer, NEW body \in Seq(NumberItem), Len(body) = 9, NEW c \in Nat, NEW odd \in {0, 1},
         NEW raw, Kin("dynamic", PointOf(by, "dynamic", body, c, odd), Number(VOf("dynamic", c, odd)).len, raw),
         ParseDynamic(raw) # Bad, ParseDynamic(raw).from = by
  PROVE  raw = Signed(by, "dynamic", body, c, odd)
<1> DEFINE p == PointOf(by, "dynamic", body, c, odd)
           len == Number(VOf("dynamic", c, odd)).len
           t == Signed(by, "dynamic", body, c, odd)
           it == raw.items
           v == it[10].val
           from == RecoverKey(DynamicHash(it), it[11].val, it[12].val, v)
<1>0. Size9or12("dynamic") = 12
  BY DEF Size9or12
<1>1. /\ IsListOf(raw, 12) /\ Parses(it[10], 8) /\ Parses(it[11], 32) /\ Parses(it[12], 32)
      /\ ValidSignature(it[11].val, it[12].val, v)
      /\ ParseDynamic(raw) = Decoded(from, it[1].val, it[2].val)
  BY DEF ParseDynamic
<1>2. from = by
  BY <1>1 DEF Decoded
<1>3. it[11].val.size = "point" /\ it[12].val = "low"
  BY <1>1 DEF ValidSignature
<1>4. /\ raw \in RawOf(p) /\ raw.type = "dynamic" /\ it \in Seq(ItemOf(p)) /\ Len(it) = 12 /\ DOMAIN it = 1..12
      /\ KinItem(10, 12, p, len, it[10]) /\ KinItem(11, 12, p, len, it[11])
  <2>1. raw \in RawOf(p) /\ raw.type = "dynamic" /\ it \in Seq(ItemOf(p)) /\ Len(it) = 12
    BY <1>1 DEF Kin, RawOf, IsListOf
  <2>2. DOMAIN it = 1..12
    BY <2>1, LenProperties
  <2>3. \A i \in 1..12 : KinItem(i, 12, p, len, it[i])
    BY <1>0, <2>2 DEF Kin
  <2> HIDE DEF p, len
  <2>4. QED
    BY <2>1, <2>2, <2>3
<1>5. v \in Int /\ it[11].val \in PointsOf(p)
  <2> HIDE DEF p, len
  <2>1. QED
    BY <1>4 DEF KinItem
<1>6. it[11].val = p /\ it[11].val.over = HashOf("dynamic", body, c) /\ it[11].val.odd = odd
  BY <1>3, <1>5, PointFields
<1>7. it[11].val.over = DynamicHash(it) /\ v = it[11].val.odd
  BY <1>2, <1>3, RecoveredKey
<1>8. SubSeq(it, 1, 9) = SubSeq(body, 1, 9)
  BY <1>6, <1>7 DEF HashOf, DynamicHash
<1>9. v = VOf("dynamic", c, odd)
  BY <1>6, <1>7 DEF VOf
<1>10. it[10] = Number(v) /\ it[11] = Item(32, p) /\ it[12] = Item(32, "low")
  <2>1. 10 = 12 - 2 /\ 11 = 12 - 1 /\ 12 \in {9, 12}
    OBVIOUS
  <2>2. len = Number(v).len
    BY <1>9
  <2> HIDE DEF len, p
  <2>3. Kin("dynamic", p, len, raw) /\ 12 = Size9or12("dynamic") /\ IsListOf(raw, 12)
    BY <1>0, <1>1 DEF p, len
  <2>4. /\ Parses(it[10], 8) /\ Parses(it[11], 32) /\ Parses(it[12], 32)
        /\ it[11].val = p /\ it[12].val = "low" /\ len = Number(it[10].val).len
    BY <1>1, <1>3, <1>6, <2>2
  <2>5. EndRead(12, 10, 11, "dynamic", p, len, raw)
    BY <2>1, <2>3, <2>4 DEF EndRead
  <2>6. QED
    BY <2>5, SameEnd
<1>11. /\ t \in RawOf(p) /\ t.type = "dynamic" /\ t.fit = "exact" /\ t.loose = FALSE
       /\ t.items \in Seq(ItemOf(p)) /\ Len(t.items) = 12
       /\ \A i \in 1..9 : t.items[i] = body[i] /\ body[i] \in NumberItem
       /\ t.items[10] = Number(VOf("dynamic", c, odd))
       /\ t.items[11] = Item(32, p)
       /\ t.items[12] = Item(32, "low")
  <2>1. Len(body) = Size9or12("dynamic") - 3
    BY <1>0
  <2>2. 12 - 3 = 9 /\ 12 - 2 = 10 /\ 12 - 1 = 11
    OBVIOUS
  <2>3. SignedAs(t, "dynamic", body, VOf("dynamic", c, odd), p)
    BY <2>1, SignedShape
  <2> DEFINE x == VOf("dynamic", c, odd)
  <2> HIDE DEF t, p, x
  <2>4. SignedAs(t, "dynamic", body, x, p)
    BY <2>3 DEF x
  <2>5. QED
    BY <1>0, <2>2, <2>4 DEF SignedAs, x
<1> HIDE DEF p, t
<1>12. \A i \in 1..9 : it[i] = body[i]
  <2>1. body \in Seq(ItemOf(p))
    <3>1. NumberItem \subseteq ItemOf(p)
      BY DEF NumberItem, ItemOf
    <3>2. QED
      BY <3>1, SeqMonotonic
  <2> DEFINE k == 9
  <2>2. k \in Nat /\ k >= 1 /\ k <= Len(it) /\ k <= Len(body) /\ it \in Seq(ItemOf(p))
    BY <1>4
  <2>3. SubSeq(it, 1, k) = SubSeq(body, 1, k)
    BY <1>8
  <2> HIDE DEF it, k
  <2>4. \A i \in 1..k : it[i] = body[i]
    BY <2>1, <2>2, <2>3, SameCovered
  <2>5. QED
    BY <2>4 DEF k
<1>13. \A i \in 1..12 : i \in 1..9 \/ i = 10 \/ i = 11 \/ i = 12
  OBVIOUS
<1>14. \A i \in 1..12 : raw.items[i] = t.items[i]
  BY <1>9, <1>10, <1>11, <1>12, <1>13
<1>15. raw.fit = t.fit /\ raw.loose = t.loose
  <2>1. raw.loose \in BOOLEAN
    BY <1>4 DEF RawOf
  <2>2. raw.fit = "exact" /\ ~raw.loose
    BY <1>1 DEF IsListOf
  <2>3. QED
    BY <1>11, <2>1, <2>2
<1>16. /\ raw \in RawOf(p) /\ t \in RawOf(p) /\ raw.type = t.type
       /\ 12 \in Nat /\ Len(raw.items) = 12 /\ Len(t.items) = 12
  BY <1>4, <1>11
<1>17. raw = t
  BY <1>14, <1>15, <1>16, SameRaw
<1>18. QED
  BY <1>17 DEF t
-----------------------------------------------------------------------------
(* What the two readers are given *)

\* A form raw of the transaction t of a signer: kin, or of another type.
FormOf(by, type, body, c, odd, t, raw) ==
  /\ by \in Signer /\ type \in {"legacy", "dynamic"} /\ body \in Seq(NumberItem)
  /\ Len(body) = Size9or12(type) - 3 /\ c \in Nat /\ odd \in {0, 1}
  /\ t = Signed(by, type, body, c, odd)
  /\ \/ raw.type = "typed"
     \/ Kin(type, PointOf(by, type, body, c, odd), Number(VOf(type, c, odd)).len, raw)

\* A transaction as its signer made it is a form of itself.
LEMMA OwnForm ==
  ASSUME NEW by \in Signer, NEW type \in {"legacy", "dynamic"}, NEW body \in Seq(NumberItem),
         Len(body) = Size9or12(type) - 3, NEW c \in Nat, NEW odd \in {0, 1}
  PROVE  LET t == Signed(by, type, body, c, odd)
             p == PointOf(by, type, body, c, odd)
         IN  /\ Kin(type, p, Number(VOf(type, c, odd)).len, t) /\ Len(t.items) = Size9or12(type)
             /\ t.items[Len(t.items) - 1].val.by = by
<1> DEFINE t == Signed(by, type, body, c, odd)
           p == PointOf(by, type, body, c, odd)
           v == VOf(type, c, odd)
           n == Size9or12(type)
           len == Number(v).len
           it == t.items
<1>0. p.by = by
  BY DEF PointOf, Point
<1>1. SignedAs(t, type, body, v, p)
  BY SignedShape
<1> HIDE DEF t, p, v
<1>2. n \in {9, 12}
  BY DEF Size9or12
<1>3. /\ t \in RawOf(p) /\ t.type = type /\ it \in Seq(ItemOf(p)) /\ Len(it) = n /\ v \in Int
      /\ \A i \in 1..(n - 3) : it[i] = body[i] /\ body[i] \in NumberItem
      /\ it[n - 2] = Number(v) /\ it[n - 1] = Item(32, p) /\ it[n] = Item(32, "low")
  BY <1>1 DEF SignedAs
<1> HIDE DEF n
<1>4. DOMAIN it = 1..n /\ \A i \in 1..n : it[i] \in ItemOf(p)
  BY <1>2, <1>3, LenProperties
<1>5. it[n - 2].val = v /\ it[n - 1].val = p /\ it[n - 1].len = 32 /\ it[n].val = "low" /\ it[n].len = 32
  BY <1>3 DEF Item, Number
<1>6. \A i \in 1..(n - 3) : it[i].val \in Int
  BY <1>3 DEF NumberItem
<1>7. \A i \in 1..n : KinItem(i, n, p, len, it[i])
  <2> SUFFICES ASSUME NEW i \in 1..n PROVE KinItem(i, n, p, len, it[i])
    OBVIOUS
  <2>1. i <= n - 2 => it[i].val \in Int
    <3>1. i <= n - 2 => i \in 1..(n - 3) \/ i = n - 2
      BY <1>2
    <3>2. QED
      BY <1>3, <1>5, <1>6, <3>1
  <2>2. i = n - 2 => it[i].len = len
    BY <1>3
  <2>3. i = n - 1 => it[i].val \in PointsOf(p) /\ it[i].len >= 32
    BY <1>5 DEF PointsOf
  <2>4. i = n => it[i].val \in Half /\ it[i].len >= 32
    BY <1>5 DEF Half
  <2> HIDE DEF len
  <2>5. QED
    BY <1>4, <2>1, <2>2, <2>3, <2>4 DEF KinItem
<1>8. Kin(type, p, len, t)
  <2> HIDE DEF len
  <2>1. QED
    BY <1>3, <1>4, <1>7 DEF Kin, n
<1>9. it[Len(it) - 1].val.by = by
  BY <1>0, <1>3, <1>5
<1>10. QED
  BY <1>3, <1>8, <1>9 DEF t, p, v, n

\* Of the forms of a transaction the engine runs as the signer's only its own.
LEMMA OneForm ==
  ASSUME NEW by, NEW type, NEW body, NEW c, NEW odd, NEW t, NEW raw,
         FormOf(by, type, body, c, odd, t, raw),
         Parse(raw) # Bad, Parse(raw).chain = ChainId, Parse(raw).from = by
  PROVE  raw = t
<1>1. raw.type # "typed"
  BY DEF Parse
<1>2. /\ by \in Signer /\ body \in Seq(NumberItem) /\ c \in Nat /\ odd \in {0, 1}
      /\ Kin(type, PointOf(by, type, body, c, odd), Number(VOf(type, c, odd)).len, raw)
      /\ t = Signed(by, type, body, c, odd) /\ type \in {"legacy", "dynamic"}
      /\ Len(body) = Size9or12(type) - 3
  BY <1>1 DEF FormOf
<1>3. raw.type = type
  BY <1>2 DEF Kin
<1>4. CASE type = "legacy"
  <2>1. Parse(raw) = ParseLegacy(raw) /\ Len(body) = 6
    BY <1>2, <1>3, <1>4 DEF Parse, Size9or12
  <2>2. QED
    BY <1>2, <1>4, <2>1, LegacyForm
<1>5. CASE type = "dynamic"
  <2>1. Parse(raw) = ParseDynamic(raw) /\ Len(body) = 9
    BY <1>2, <1>3, <1>5 DEF Parse, Size9or12
  <2>2. QED
    BY <1>2, <1>5, <2>1, DynamicForm
<1>6. QED
  BY <1>2, <1>4, <1>5
\* One change of a signed transaction, and a second one.
LEMMA ChangedForm ==
  ASSUME NEW by \in Signer, NEW type \in {"legacy", "dynamic"}, NEW body \in Seq(NumberItem),
         Len(body) = Size9or12(type) - 3, NEW c \in Nat, NEW odd \in {0, 1},
         NEW t, t = Signed(by, type, body, c, odd), NEW raw,
         \/ raw = t
         \/ raw \in Changed(t)
         \/ \E r \in Changed(t) : raw \in Changed(r)
  PROVE  FormOf(by, type, body, c, odd, t, raw) /\ t.items[Len(t.items) - 1].val.by = by
<1> DEFINE p == PointOf(by, type, body, c, odd)
           len == Number(VOf(type, c, odd)).len
           n == Size9or12(type)
<1>1. Kin(type, p, len, t) /\ Len(t.items) = n /\ t.items[Len(t.items) - 1].val.by = by
  BY OwnForm
<1>2. SUFFICES raw.type = "typed" \/ Kin(type, p, len, raw)
  BY <1>1, <1>2 DEF FormOf
<1> HIDE DEF p, len
<1>3. n \in {9, 12}
  BY DEF Size9or12
<1>4. ASSUME NEW r \in Changed(t)
      PROVE  Refused(p, r) \/ (Kin(type, p, len, r) /\ Len(r.items) >= n - 1)
  BY <1>1, <1>3, ChangedRaw
<1>5. CASE raw = t
  BY <1>1, <1>5
<1>6. CASE raw \in Changed(t)
  BY <1>4, <1>6 DEF Refused
<1>7. ASSUME NEW r \in Changed(t), raw \in Changed(r)
      PROVE  raw.type = "typed" \/ Kin(type, p, len, raw)
  <2>1. CASE Refused(p, r)
    BY <1>7, <2>1, RefusedStays
  <2>2. CASE Kin(type, p, len, r) /\ Len(r.items) >= n - 1
    <3>1. Refused(p, raw) \/ Kin(type, p, len, raw)
      BY <1>7, <2>2, ChangedRaw
    <3>2. QED
      BY <3>1 DEF Refused
  <2>3. QED
    BY <1>4, <2>1, <2>2
<1>8. QED
  BY <1>5, <1>6, <1>7

\* A reading the runs enumerate is one of a form of a signed transaction.
LEMMA ReadingForm ==
  ASSUME NEW r \in Readings
  PROVE  \E by, type, body, c, odd, t, raw :
           /\ FormOf(by, type, body, c, odd, t, raw)
           /\ r = Reading(t, raw) /\ t.items[Len(t.items) - 1].val.by = by
<1>0. ChainId \in Nat /\ Chains \cup {NoChain} \subseteq Nat /\ Nonces \subseteq Nat
  BY CodecAssumption DEF NoChain
<1>1. CASE \E t \in Transactions : \E raw \in {t} \cup Changed(t) : r = Reading(t, raw)
  <2>1. PICK t \in Transactions : \E raw \in {t} \cup Changed(t) : r = Reading(t, raw)
    BY <1>1
  <2>2. PICK raw \in {t} \cup Changed(t) : r = Reading(t, raw)
    BY <2>1
  <2>3. PICK type \in {"legacy", "dynamic"}, c \in Chains \cup {NoChain}, by \in Signer, n \in Nonces :
          \E body \in Bodies(type, c, n), odd \in {0, 1} : t = Signed(by, type, body, c, odd)
    <3>1. PICK type \in {"legacy", "dynamic"}, c \in Chains \cup {NoChain}, by \in Signer, n \in Nonces :
            t \in SignedBy(by, type, c, n)
      BY <2>1 DEF Transactions
    <3>2. QED
      BY <3>1 DEF SignedBy
  <2>4. PICK body \in Bodies(type, c, n), odd \in {0, 1} : t = Signed(by, type, body, c, odd)
    BY <2>3
  <2>5. c \in Nat /\ n \in Nat
    BY <1>0
  <2>6. body \in Seq(NumberItem) /\ Len(body) = Size9or12(type) - 3
    BY <2>5, BodyShape
  <2>7. FormOf(by, type, body, c, odd, t, raw) /\ t.items[Len(t.items) - 1].val.by = by
    BY <2>2, <2>4, <2>5, <2>6, ChangedForm
  <2>8. QED
    BY <2>2, <2>7
<1>2. CASE \E t \in StandardOnes : \E q \in Changed(t) : \E raw \in Changed(q) : r = Reading(t, raw)
  <2>1. PICK t \in StandardOnes : \E q \in Changed(t) : \E raw \in Changed(q) : r = Reading(t, raw)
    BY <1>2
  <2>2. PICK q \in Changed(t) : \E raw \in Changed(q) : r = Reading(t, raw)
    BY <2>1
  <2>3. PICK raw \in Changed(q) : r = Reading(t, raw)
    BY <2>2
  <2>4. PICK by \in Signer, type \in {"legacy", "dynamic"}, n \in {0} \cap Nonces, odd \in {0, 1} :
          t = Signed(by, type, Body(type, ChainId, n), ChainId, odd)
    BY <2>1 DEF StandardOnes
  <2> DEFINE body == Body(type, ChainId, n)
  <2>5. n \in Nat /\ body \in Bodies(type, ChainId, n)
    BY <1>0 DEF Bodies
  <2>6. body \in Seq(NumberItem) /\ Len(body) = Size9or12(type) - 3
    BY <1>0, <2>5, BodyShape
  <2>7. t = Signed(by, type, body, ChainId, odd)
    BY <2>4
  <2> HIDE DEF body
  <2>8. FormOf(by, type, body, ChainId, odd, t, raw) /\ t.items[Len(t.items) - 1].val.by = by
    BY <1>0, <2>2, <2>3, <2>6, <2>7, ChangedForm
  <2>9. QED
    BY <2>3, <2>8
<1>3. \/ r \in UNION {{Reading(t, raw) : raw \in {t} \cup Changed(t)} : t \in Transactions}
      \/ r \in UNION UNION {{{Reading(t, raw) : raw \in Changed(q)} : q \in Changed(t)} : t \in StandardOnes}
  BY DEF Readings
<1>4. ASSUME r \in UNION {{Reading(t, raw) : raw \in {t} \cup Changed(t)} : t \in Transactions}
      PROVE  \E t \in Transactions : \E raw \in {t} \cup Changed(t) : r = Reading(t, raw)
  BY <1>4
<1>5. ASSUME r \in UNION UNION {{{Reading(t, raw) : raw \in Changed(q)} : q \in Changed(t)} : t \in StandardOnes}
      PROVE  \E t \in StandardOnes : \E q \in Changed(t) : \E raw \in Changed(q) : r = Reading(t, raw)
  BY <1>5
<1>6. QED
  BY <1>1, <1>2, <1>3, <1>4, <1>5

\* The engine reads a form of a signed transaction as the proxy does.
LEMMA FormsAgree ==
  ASSUME NEW by, NEW type, NEW body, NEW c, NEW odd, NEW t, NEW raw,
         FormOf(by, type, body, c, odd, t, raw), Parse(raw) # Bad
  PROVE  Decode(raw) = Parse(raw)
<1> DEFINE p == PointOf(by, type, body, c, odd)
           len == Number(VOf(type, c, odd)).len
           n == Size9or12(type)
           it == raw.items
<1>1. raw.type # "typed"
  BY DEF Parse
<1>2. Kin(type, p, len, raw) /\ type \in {"legacy", "dynamic"}
  BY <1>1 DEF FormOf
<1> HIDE DEF p, len
<1>3. n \in {9, 12}
  BY DEF Size9or12
<1>4. raw.type = type /\ it \in Seq(ItemOf(p)) /\ \A i \in DOMAIN it : KinItem(i, n, p, len, it[i])
  BY <1>2 DEF Kin, RawOf
<1>5. Len(it) = n
  <2>1. CASE type = "legacy"
    BY <1>4, <2>1 DEF Parse, ParseLegacy, IsListOf, Size9or12
  <2>2. CASE type = "dynamic"
    BY <1>4, <2>2 DEF Parse, ParseDynamic, IsListOf, Size9or12
  <2>3. QED
    BY <1>2, <2>1, <2>2
<1>6. DOMAIN it = 1..n
  BY <1>4, <1>5, LenProperties
<1> HIDE DEF n
<1>7. \A i \in 1..n : it[i] \in ItemOf(p) /\ (i <= n - 2 => it[i].val \in Int)
  BY <1>4, <1>6 DEF KinItem
<1>8. \A i \in 1..n : it[i].len \in Nat
  BY <1>7 DEF ItemOf
<1>9. \A i \in 1..(n - 2) : it[i].val \in Int
  BY <1>3, <1>7
<1>10. QED
  BY <1>4, <1>8, <1>9, ReadersAgree DEF n

\* A nonce that the proxy has read is a number.
LEMMA MessageNonce ==
  ASSUME NEW m \in Msg
  PROVE  m.nonce \in Int
<1>1. PICK r \in {q \in Readings : q.proxy # Bad} : m = Message(r)
  BY DEF Msg
<1>2. PICK by, type, body, c, odd, t, raw :
        FormOf(by, type, body, c, odd, t, raw) /\ r = Reading(t, raw)
  BY <1>1, ReadingForm
<1>3. r.proxy = Decode(raw) /\ Decode(raw) # Bad /\ m.nonce = r.proxy.nonce
  BY <1>1, <1>2 DEF Reading, Message
<1> DEFINE p == PointOf(by, type, body, c, odd)
           len == Number(VOf(type, c, odd)).len
           n == Size9or12(type)
           it == raw.items
<1>4. raw.type # "typed"
  BY <1>3 DEF Decode
<1>5. Kin(type, p, len, raw) /\ type \in {"legacy", "dynamic"}
  BY <1>2, <1>4 DEF FormOf
<1> HIDE DEF p, len
<1>6. /\ raw.type = type /\ it \in Seq(ItemOf(p)) /\ DOMAIN it = 1..Len(it) /\ Len(it) \in Nat
      /\ \A i \in DOMAIN it : i <= n - 2 => it[i].val \in Int
  <2>1. raw.type = type /\ it \in Seq(ItemOf(p)) /\ \A i \in DOMAIN it : KinItem(i, n, p, len, it[i])
    BY <1>5 DEF Kin, RawOf
  <2> HIDE DEF n
  <2>2. QED
    BY <2>1, LenProperties DEF KinItem
<1>7. CASE type = "legacy"
  <2>1. Decode(raw) = DecodeLegacy(raw)
    BY <1>6, <1>7 DEF Decode
  <2>2. Len(it) >= 9 /\ Decode(raw).nonce = it[1].val
    BY <1>3, <2>1 DEF DecodeLegacy, HasItems, Decoded
  <2>3. 1 \in DOMAIN it /\ 1 <= n - 2
    BY <1>6, <1>7, <2>2 DEF Size9or12
  <2>4. QED
    BY <1>3, <1>6, <2>2, <2>3
<1>8. CASE type = "dynamic"
  <2>1. Decode(raw) = DecodeDynamic(raw)
    BY <1>6, <1>8 DEF Decode
  <2>2. Len(it) >= 12 /\ Decode(raw).nonce = it[2].val
    BY <1>3, <2>1 DEF DecodeDynamic, HasItems, Decoded
  <2>3. 2 \in DOMAIN it /\ 2 <= n - 2
    BY <1>6, <1>8, <2>2 DEF Size9or12
  <2>4. QED
    BY <1>3, <1>6, <2>2, <2>3
<1>9. QED
  BY <1>5, <1>7, <1>8
-----------------------------------------------------------------------------
(* What the answers rest on *)

\* The account's transactions in the pool carry the nonces from the account's
\* own up to n, in order and each once, and are what the engine accepts.
InFlight(a, n) ==
  /\ n \in Nat /\ nonce[a] <= n
  /\ \A i \in InPool(a) : pool[i].valid = TRUE /\ pool[i].nonce \in nonce[a]..(n - 1)
  /\ \A k \in nonce[a]..(n - 1) : \E i \in InPool(a) : pool[i].nonce = k
  /\ \A i, j \in InPool(a) : i < j => pool[i].nonce < pool[j].nonce

\* An entry of the store; whoever sends a transaction chooses its nonce.
Stamped == [next : Int, age : 0..Ttl]

\* The store never runs ahead of n.  Unless a submit has still to raise it, it
\* has n, or the chain has caught up and no call holds an older nonce.
Stored(a, n) ==
  /\ entry[a] \in Stamped \cup {Nothing}
  /\ entry[a] # Nothing => entry[a].next <= n
  /\ call[a].pc # "sent" =>
       \/ Unexpired(a) /\ entry[a].next = n
       \/ n = nonce[a] /\ (call[a].pc = "read" => call[a].val = nonce[a])

\* Where the wallet is: only the transaction it waits for is yet to be raised,
\* and the answer it holds is n.
Asked(a, n) ==
  /\ call[a] \in Call
  /\ \A m \in waiting : m.from = a => call[a].pc = "sent" /\ m = Own(a, call[a].val)
  /\ call[a].pc = "sent" => call[a].val + 1 = n /\ Own(a, call[a].val) \in waiting
  /\ call[a].pc = "have" => call[a].val = n
  /\ call[a].pc = "read" => call[a].val <= nonce[a]

Steady(a, n) == InFlight(a, n) /\ Stored(a, n) /\ Asked(a, n)

\* A transaction of an account nobody disturbed was sent by its wallet.
Sent == Msg \cup {Own(a, n) : a \in Signer, n \in Nat}
WalletShape ==
  /\ nonce \in [Account -> Nat] /\ pool \in Seq(Sent)
  /\ entry = [a \in Account |-> entry[a]] /\ call = [a \in Signer |-> call[a]]
  /\ \A a \in Account : entry[a] \in Stamped \cup {Nothing}
  /\ \A i \in DOMAIN pool : pool[i].from \in Signer \cup disturbed

WalletInv ==
  /\ WalletShape
  /\ \A a \in Signer \ disturbed : \E n \in Nat : Steady(a, n)
-----------------------------------------------------------------------------
(* The pool *)

\* Counting the transactions of an account whose nonces go up to n.
LEMMA InFlightCount ==
  ASSUME NEW a \in Account, NEW n \in Nat, WalletShape, InFlight(a, n)
  PROVE  n = nonce[a] + Cardinality(InPool(a))
<1> DEFINE S == InPool(a)
           lo == nonce[a]
           hi == n - 1
           f == [i \in S |-> pool[i].nonce]
<1>1. lo \in Nat /\ hi \in Int /\ lo <= n
  BY DEF WalletShape, InFlight
<1>2. S \subseteq Nat
  BY DEF InPool, WalletShape
<1>3. /\ \A i \in S : pool[i].nonce \in lo..hi
      /\ \A k \in lo..hi : \E i \in S : pool[i].nonce = k
      /\ \A i, j \in S : i < j => pool[i].nonce < pool[j].nonce
  BY DEF InFlight
<1> HIDE DEF S, lo, hi
<1>4. f \in [S -> lo..hi]
  BY <1>3
<1>5. \A i, j \in S : f[i] = f[j] => i = j
  <2> SUFFICES ASSUME NEW i \in S, NEW j \in S, pool[i].nonce = pool[j].nonce, i # j PROVE FALSE
    OBVIOUS
  <2>1. i < j \/ j < i
    BY <1>2
  <2>2. pool[i].nonce \in Int /\ pool[j].nonce \in Int
    BY <1>3
  <2>3. QED
    BY <1>3, <2>1, <2>2
<1>6. \A k \in lo..hi : \E i \in S : f[i] = k
  BY <1>3
<1> HIDE DEF f
<1>7. f \in Bijection(S, lo..hi)
  BY <1>4, <1>5, <1>6 DEF Bijection, Injection, Surjection, IsInjective
<1>8. IsFiniteSet(lo..hi) /\ Cardinality(lo..hi) = IF lo > hi THEN 0 ELSE hi - lo + 1
  BY <1>1, FS_Interval
<1>9. IsFiniteSet(S) /\ ExistsBijection(S, lo..hi)
  <2>1. f \in Injection(S, lo..hi)
    BY <1>7 DEF Bijection
  <2>2. QED
    BY <1>7, <1>8, <2>1, FS_Injection DEF ExistsBijection
<1>10. Cardinality(S) = Cardinality(lo..hi)
  BY <1>9, FS_Bijection
<1>11. QED
  BY <1>1, <1>8, <1>10 DEF S, lo, hi

\* Nothing of the account comes into the pool or leaves it.
LEMMA PoolSame ==
  ASSUME NEW a, NEW n, InFlight(a, n), nonce'[a] = nonce[a],
         InPool(a)' = InPool(a), \A i \in InPool(a) : pool'[i] = pool[i]
  PROVE  InFlight(a, n)'
BY DEF InFlight

\* The positions of a longer pool.
LEMMA PoolAppend ==
  ASSUME WalletShape, NEW m \in Sent, pool' = Append(pool, m), NEW a
  PROVE  /\ pool' \in Seq(Sent) /\ Len(pool) \in Nat
         /\ \A i \in InPool(a) : pool'[i] = pool[i] /\ i < Len(pool) + 1
         /\ pool'[Len(pool) + 1] = m
         /\ InPool(a)' = InPool(a) \cup (IF m.from = a THEN {Len(pool) + 1} ELSE {})
         /\ \A i \in DOMAIN pool' : (i \in DOMAIN pool /\ pool'[i] = pool[i]) \/ pool'[i] = m
<1>1. pool \in Seq(Sent)
  BY DEF WalletShape
<1>2. /\ pool' \in Seq(Sent) /\ Len(pool) \in Nat /\ DOMAIN pool = 1..Len(pool)
      /\ DOMAIN pool' = 1..(Len(pool) + 1)
      /\ \A i \in 1..Len(pool) : pool'[i] = pool[i]
      /\ pool'[Len(pool) + 1] = m
  BY <1>1, AppendProperties, LenProperties
<1>3. \A i \in DOMAIN pool' : i \in DOMAIN pool \/ i = Len(pool) + 1
  BY <1>2
<1>4. \A i \in DOMAIN pool : i < Len(pool) + 1 /\ i \in DOMAIN pool'
  BY <1>2
<1>5. Len(pool) + 1 \in DOMAIN pool'
  BY <1>2
<1>6. InPool(a)' = InPool(a) \cup (IF m.from = a THEN {Len(pool) + 1} ELSE {})
  BY <1>2, <1>3, <1>4, <1>5 DEF InPool
<1>7. QED
  BY <1>2, <1>3, <1>4, <1>6 DEF InPool

LEMMA OwnFields ==
  ASSUME NEW a \in Signer, NEW n \in Nat
  PROVE  Own(a, n) \in Sent /\ Own(a, n).from = a /\ Own(a, n).nonce = n /\ Own(a, n).valid = TRUE
<1>1. Own(a, n) \in {Own(b, k) : b \in Signer, k \in Nat}
  OBVIOUS
<1>2. QED
  BY <1>1 DEF Sent, Own

\* The wallet's own transaction, with the next nonce, comes last.
LEMMA PoolOwn ==
  ASSUME WalletShape, NEW a \in Signer, NEW n \in Nat, InFlight(a, n),
         pool' = Append(pool, Own(a, n)), nonce' = nonce
  PROVE  InFlight(a, n + 1)'
<1> DEFINE m == Own(a, n)
           new == Len(pool) + 1
<1>1. m \in Sent /\ m.from = a /\ m.nonce = n /\ m.valid = TRUE
  BY OwnFields
<1>2. /\ \A i \in InPool(a) : pool'[i] = pool[i] /\ i < new
      /\ pool'[new] = m /\ new \in Nat
      /\ InPool(a)' = InPool(a) \cup {new}
  <2>1. /\ Len(pool) \in Nat
        /\ \A i \in InPool(a) : pool'[i] = pool[i] /\ i < Len(pool) + 1
        /\ pool'[Len(pool) + 1] = m
        /\ InPool(a)' = InPool(a) \cup (IF m.from = a THEN {Len(pool) + 1} ELSE {})
    <3> HIDE DEF m
    <3>1. pool' = Append(pool, m) /\ m \in Sent
      BY <1>1 DEF m
    <3>2. QED
      BY <3>1, PoolAppend
  <2> HIDE DEF m
  <2>2. InPool(a)' = InPool(a) \cup {Len(pool) + 1}
    BY <1>1, <2>1, Zenon
  <2>3. new \in Nat
    BY <2>1
  <2>4. QED
    BY <2>1, <2>2, <2>3, Zenon
<1>3. nonce[a] \in Nat /\ nonce[a] <= n /\ InPool(a) \subseteq Nat
  BY DEF WalletShape, InFlight, Account, InPool
<1> HIDE DEF m, new
<1>4. \A i \in InPool(a)' : pool'[i].valid = TRUE /\ pool'[i].nonce \in nonce[a]..n
  <2>1. \A i \in InPool(a) : pool[i].valid = TRUE /\ pool[i].nonce \in nonce[a]..(n - 1)
    BY DEF InFlight
  <2>2. \A i \in InPool(a) : pool[i].nonce \in nonce[a]..n
    BY <1>3, <2>1
  <2>3. n \in nonce[a]..n
    BY <1>3
  <2>4. QED
    BY <1>1, <1>2, <2>1, <2>2, <2>3
<1>5. \A k \in nonce[a]..n : \E i \in InPool(a)' : pool'[i].nonce = k
  <2> SUFFICES ASSUME NEW k \in nonce[a]..n PROVE \E i \in InPool(a)' : pool'[i].nonce = k
    OBVIOUS
  <2>1. CASE k = n
    BY <1>1, <1>2, <2>1
  <2>2. CASE k # n
    <3>1. k \in nonce[a]..(n - 1)
      BY <1>3, <2>2
    <3>2. PICK i \in InPool(a) : pool[i].nonce = k
      BY <3>1 DEF InFlight
    <3>3. QED
      BY <1>2, <3>2
  <2>3. QED
    BY <2>1, <2>2
<1>6. ASSUME NEW i \in InPool(a)', NEW j \in InPool(a)', i < j PROVE pool'[i].nonce < pool'[j].nonce
  <2>1. i \in InPool(a)
    BY <1>2, <1>3, <1>6
  <2>2. pool[i].nonce \in nonce[a]..(n - 1) /\ pool'[i] = pool[i]
    BY <1>2, <2>1 DEF InFlight
  <2>3. CASE j = new
    <3>1. pool'[j].nonce = n
      BY <1>1, <1>2, <2>3
    <3>2. QED
      BY <1>3, <2>2, <3>1
  <2>4. CASE j \in InPool(a)
    BY <1>2, <1>6, <2>1, <2>2, <2>4 DEF InFlight
  <2>5. QED
    BY <1>2, <2>3, <2>4
<1>7. n + 1 \in Nat /\ nonce[a] <= n + 1 /\ (n + 1) - 1 = n
  BY <1>3
<1>8. QED
  BY <1>4, <1>5, <1>6, <1>7 DEF InFlight

\* A block takes the first transaction of the pool.
LEMMA PoolTail ==
  ASSUME WalletShape, pool # <<>>, pool' = Tail(pool)
  PROVE  /\ pool' \in Seq(Sent) /\ 1 \in DOMAIN pool /\ Head(pool) = pool[1]
         /\ \A i \in DOMAIN pool' : i + 1 \in DOMAIN pool /\ pool'[i] = pool[i + 1] /\ i \in Nat /\ i # 0
         /\ \A i \in DOMAIN pool : i \in Nat /\ (i # 1 => i - 1 \in DOMAIN pool' /\ pool'[i - 1] = pool[i])
<1>1. pool \in Seq(Sent)
  BY DEF WalletShape
<1>2. /\ pool' \in Seq(Sent) /\ Len(pool') = Len(pool) - 1 /\ Len(pool) \in Nat \ {0}
      /\ \A j \in 1..Len(pool') : pool'[j] = pool[j + 1]
      /\ Head(pool) = pool[1]
  BY <1>1, HeadTailProperties, LenProperties, EmptySeq
<1>3. DOMAIN pool = 1..Len(pool) /\ DOMAIN pool' = 1..Len(pool')
  BY <1>1, <1>2
<1>4. QED
  BY <1>2, <1>3

\* A transaction of the account that a block takes has the account's nonce.
LEMMA HeadRuns ==
  ASSUME WalletShape, NEW a \in Account, NEW n \in Nat, InFlight(a, n),
         1 \in DOMAIN pool, pool[1].from = a
  PROVE  nonce[a] < n /\ pool[1].nonce = nonce[a] /\ Runs(pool[1])
<1>1. \A i \in InPool(a) : i \in Nat /\ i # 0
  BY DEF InPool, WalletShape
<1>2. /\ nonce[a] \in Nat /\ nonce[a] <= n
      /\ \A i \in InPool(a) : pool[i].valid = TRUE /\ pool[i].nonce \in nonce[a]..(n - 1)
      /\ \A k \in nonce[a]..(n - 1) : \E i \in InPool(a) : pool[i].nonce = k
      /\ \A i, j \in InPool(a) : i < j => pool[i].nonce < pool[j].nonce
  BY DEF WalletShape, InFlight
<1>3. 1 \in InPool(a)
  BY DEF InPool
<1>4. nonce[a] \in nonce[a]..(n - 1) /\ nonce[a] < n
  <2>1. pool[1].nonce \in nonce[a]..(n - 1)
    BY <1>2, <1>3
  <2>2. QED
    BY <1>2, <2>1
<1>5. pool[1].nonce = nonce[a]
  <2>1. PICK i \in InPool(a) : pool[i].nonce = nonce[a]
    BY <1>2, <1>4
  <2>2. i = 1 \/ 1 < i
    BY <1>1
  <2>3. CASE 1 < i
    <3>1. pool[1].nonce < nonce[a] /\ pool[1].nonce \in nonce[a]..(n - 1)
      BY <1>2, <1>3, <2>1, <2>3
    <3>2. QED
      BY <1>2, <3>1
  <2>4. QED
    BY <2>1, <2>2, <2>3
<1>6. pool[1].valid = TRUE
  BY <1>2, <1>3
<1>7. QED
  BY <1>4, <1>5, <1>6 DEF Runs

\* A block takes a transaction of another account, or runs one of this account.
LEMMA PoolBlock ==
  ASSUME WalletShape, NEW a \in Account, NEW n \in Nat, InFlight(a, n), Block, a \notin disturbed'
  PROVE  /\ InFlight(a, n)' /\ nonce[a] <= nonce'[a]
         /\ nonce'[a] = nonce[a] \/ nonce[a] < n
<1>1. pool # <<>> /\ pool' = Tail(pool)
  BY DEF Block
<1>2. /\ 1 \in DOMAIN pool /\ Head(pool) = pool[1]
      /\ \A i \in DOMAIN pool' : i + 1 \in DOMAIN pool /\ pool'[i] = pool[i + 1] /\ i \in Nat /\ i # 0
      /\ \A i \in DOMAIN pool : i \in Nat /\ (i # 1 => i - 1 \in DOMAIN pool' /\ pool'[i - 1] = pool[i])
  BY <1>1, PoolTail
<1>3. /\ \A i \in InPool(a)' : i + 1 \in InPool(a) /\ pool'[i] = pool[i + 1] /\ i \in Nat /\ i # 0
      /\ \A i \in InPool(a) : i \in Nat /\ (i # 1 => i - 1 \in InPool(a)' /\ pool'[i - 1] = pool[i])
  BY <1>2 DEF InPool
<1>4. /\ nonce \in [Account -> Nat] /\ nonce[a] \in Nat /\ nonce[a] <= n
      /\ \A i \in InPool(a) : pool[i].valid = TRUE /\ pool[i].nonce \in nonce[a]..(n - 1)
      /\ \A k \in nonce[a]..(n - 1) : \E i \in InPool(a) : pool[i].nonce = k
      /\ \A i, j \in InPool(a) : i < j => pool[i].nonce < pool[j].nonce
  BY DEF WalletShape, InFlight
<1>5. \A i, j \in InPool(a)' : i < j => pool'[i].nonce < pool'[j].nonce
  <2> SUFFICES ASSUME NEW i \in InPool(a)', NEW j \in InPool(a)', i < j
               PROVE  pool'[i].nonce < pool'[j].nonce
    OBVIOUS
  <2>1. i + 1 < j + 1
    BY <1>3
  <2>2. QED
    BY <1>3, <1>4, <2>1
<1>6. CASE pool[1].from # a
  <2>1. nonce'[a] = nonce[a]
    BY <1>2, <1>4, <1>6 DEF Block, Run, Reject, Refuse
  <2>2. \A i \in InPool(a) : i # 1
    BY <1>6 DEF InPool
  <2>3. \A i \in InPool(a)' : pool'[i].valid = TRUE /\ pool'[i].nonce \in nonce[a]..(n - 1)
    BY <1>3, <1>4
  <2>4. \A k \in nonce[a]..(n - 1) : \E i \in InPool(a)' : pool'[i].nonce = k
    <3> SUFFICES ASSUME NEW k \in nonce[a]..(n - 1) PROVE \E i \in InPool(a)' : pool'[i].nonce = k
      OBVIOUS
    <3>1. PICK i \in InPool(a) : pool[i].nonce = k
      BY <1>4
    <3>2. QED
      BY <1>3, <2>2, <3>1
  <2>5. InFlight(a, n)'
    BY <1>4, <1>5, <2>1, <2>3, <2>4 DEF InFlight
  <2>6. QED
    BY <1>4, <1>6, <2>1, <2>5
<1>7. CASE pool[1].from = a
  <2>1. 1 \in InPool(a)
    BY <1>2, <1>7 DEF InPool
  <2>2. nonce[a] < n /\ pool[1].nonce = nonce[a] /\ Runs(pool[1])
    BY <1>2, <1>7, HeadRuns
  <2>3. pool[1].nonce = nonce[a]
    BY <2>2
  <2>4. Run(pool[1])
    <3>1. Run(pool[1]) \/ Reject(pool[1]) \/ Refuse(pool[1])
      BY <1>2 DEF Block
    <3>2. ~Reject(pool[1]) /\ ~Refuse(pool[1])
      BY <1>7, <2>2 DEF Reject, Refuse
    <3>3. QED
      BY <3>1, <3>2
  <2>5. nonce'[a] = nonce[a] + 1
    BY <1>4, <1>7, <2>4 DEF Run
  <2>6. \A i \in InPool(a)' : pool'[i].valid = TRUE /\ pool'[i].nonce \in (nonce[a] + 1)..(n - 1)
    <3> SUFFICES ASSUME NEW i \in InPool(a)'
                 PROVE  pool'[i].valid = TRUE /\ pool'[i].nonce \in (nonce[a] + 1)..(n - 1)
      OBVIOUS
    <3>1. i + 1 \in InPool(a) /\ pool'[i] = pool[i + 1] /\ 1 < i + 1
      BY <1>3
    <3>2. pool[1].nonce < pool[i + 1].nonce /\ pool[i + 1].nonce \in nonce[a]..(n - 1)
      BY <1>4, <2>1, <3>1
    <3>3. pool[i + 1].nonce \in (nonce[a] + 1)..(n - 1)
      BY <1>4, <2>3, <3>2
    <3>4. QED
      BY <1>4, <3>1, <3>3
  <2>7. \A k \in (nonce[a] + 1)..(n - 1) : \E i \in InPool(a)' : pool'[i].nonce = k
    <3> SUFFICES ASSUME NEW k \in (nonce[a] + 1)..(n - 1) PROVE \E i \in InPool(a)' : pool'[i].nonce = k
      OBVIOUS
    <3>1. k \in nonce[a]..(n - 1) /\ k # nonce[a]
      BY <1>4
    <3>2. PICK i \in InPool(a) : pool[i].nonce = k
      BY <1>4, <3>1
    <3>3. QED
      BY <1>3, <2>3, <3>1, <3>2
  <2>8. nonce'[a] <= n /\ nonce[a] <= nonce'[a]
    BY <1>4, <2>2, <2>5
  <2>9. InFlight(a, n)'
    BY <1>5, <2>5, <2>6, <2>7, <2>8 DEF InFlight
  <2>10. QED
    BY <2>2, <2>8, <2>9
<1>8. QED
  BY <1>6, <1>7

-----------------------------------------------------------------------------
(* The store and the calls *)

\* The account's entry, call and nonce stay.
LEMMA StoredSame ==
  ASSUME NEW a, NEW n, Stored(a, n), entry'[a] = entry[a], call'[a] = call[a], nonce'[a] = nonce[a]
  PROVE  Stored(a, n)'
BY DEF Stored, Unexpired

\* The account's entry goes or grows old, and the account does not need it.
LEMMA StoredLoss ==
  ASSUME NEW a \in Signer, NEW n \in Nat, Stored(a, n), Asked(a, n), nonce[a] \in Nat, nonce[a] <= n,
         \/ entry'[a] = Nothing
         \/ entry[a] # Nothing /\ entry'[a] \in Stamped /\ entry'[a].next = entry[a].next,
         a \notin Losers(entry'), call'[a] = call[a], nonce'[a] = nonce[a]
  PROVE  Stored(a, n)'
<1>1. a \in Account
  BY DEF Account
<1>2. entry'[a] \in Stamped \cup {Nothing} /\ (entry'[a] # Nothing => entry'[a].next <= n)
  BY DEF Stored
<1>3. ASSUME call[a].pc # "sent", entry'[a] = Nothing \/ entry'[a].age = Ttl
      PROVE  n = nonce[a] /\ (call[a].pc = "read" => call[a].val = nonce[a])
  <2>1. ~Needed(a)
    BY <1>1, <1>3 DEF Losers
  <2>2. CASE n = nonce[a] /\ (call[a].pc = "read" => call[a].val = nonce[a])
    BY <2>2
  <2>3. CASE Unexpired(a) /\ entry[a].next = n
    <3>1. entry[a] # Nothing /\ ~(nonce[a] < n)
      BY <2>1, <2>3 DEF Needed, Unexpired
    <3>2. n = nonce[a]
      BY <3>1
    <3>3. ASSUME call[a].pc = "read" PROVE call[a].val = nonce[a]
      <4>1. ~(call[a].val < n) /\ call[a].val <= nonce[a] /\ call[a].val \in Nat
        BY <2>1, <2>3, <3>1, <3>3 DEF Needed, Asked, Call
      <4>2. QED
        BY <3>2, <4>1
    <3>4. QED
      BY <3>2, <3>3
  <2>4. QED
    BY <1>3, <2>2, <2>3 DEF Stored
<1>4. ASSUME call[a].pc # "sent", entry'[a] # Nothing, entry'[a].age # Ttl
      PROVE  \/ Unexpired(a)' /\ entry'[a].next = n
             \/ n = nonce[a] /\ (call[a].pc = "read" => call[a].val = nonce[a])
  <2>1. entry'[a].age < Ttl
    BY <1>2, <1>4, WalletAssumption DEF Stamped
  <2>2. Unexpired(a)'
    BY <1>4, <2>1 DEF Unexpired
  <2>3. QED
    BY <1>4, <2>2 DEF Stored
<1>5. QED
  BY <1>2, <1>3, <1>4 DEF Stored

\* What is waiting of the account stays, and the chain does not go back.
LEMMA AskedSame ==
  ASSUME NEW a, NEW n, Asked(a, n), call'[a] = call[a], nonce[a] \in Nat, nonce'[a] \in Nat,
         nonce[a] <= nonce'[a],
         \A m : m.from = a => (m \in waiting' <=> m \in waiting)
  PROVE  Asked(a, n)'
<1>1. call[a].pc = "read" => call[a].val <= nonce'[a]
  BY DEF Asked, Call
<1>2. Own(a, call[a].val).from = a
  BY DEF Own
<1>3. QED
  BY <1>1, <1>2 DEF Asked

\* advance leaves the entries of other accounts or takes them away.
LEMMA EvictedTable ==
  ASSUME WalletShape, NEW e \in Evicted
  PROVE  e = [x \in Account |-> e[x]] /\ \A x \in Account : e[x] = entry[x] \/ e[x] = Nothing
<1>1. entry = [x \in Account |-> entry[x]]
  BY DEF WalletShape
<1>2. Purged = [x \in Account |-> Purged[x]] /\ \A x \in Account : Purged[x] = entry[x] \/ Purged[x] = Nothing
  BY DEF Purged
<1>3. e = entry \/ e = Purged \/ \E y \in Oldest(Purged) : e = [Purged EXCEPT ![y] = Nothing]
  BY DEF Evicted
<1>4. QED
  BY <1>1, <1>2, <1>3

LEMMA RaisedOthers ==
  ASSUME WalletShape, NEW b, NEW next, NEW table \in Raised(b, next)
  PROVE  /\ table = [x \in Account |-> table[x]]
         /\ \A x \in Account : x # b => table[x] = entry[x] \/ table[x] = Nothing
<1>1. entry = [x \in Account |-> entry[x]]
  BY DEF WalletShape
<1>2. CASE entry[b] # Nothing
  <2>1. table = [entry EXCEPT ![b] =
                   [next |-> IF next > entry[b].next THEN next ELSE entry[b].next, age |-> 0]]
    BY <1>2 DEF Raised
  <2>2. QED
    BY <1>1, <2>1
<1>3. CASE entry[b] = Nothing
  <2>1. PICK e \in Evicted : table = [e EXCEPT ![b] = [next |-> next, age |-> 0]]
    BY <1>3 DEF Raised
  <2>2. QED
    BY <2>1, EvictedTable
<1>4. QED
  BY <1>2, <1>3

LEMMA RaisedOwn ==
  ASSUME WalletShape, NEW b \in Account, NEW next, NEW table \in Raised(b, next)
  PROVE  table[b] = [next |-> IF entry[b] # Nothing /\ ~(next > entry[b].next) THEN entry[b].next ELSE next,
                     age |-> 0]
<1>1. entry = [x \in Account |-> entry[x]]
  BY DEF WalletShape
<1>2. CASE entry[b] # Nothing
  <2>1. table = [entry EXCEPT ![b] =
                   [next |-> IF next > entry[b].next THEN next ELSE entry[b].next, age |-> 0]]
    BY <1>2 DEF Raised
  <2>2. QED
    BY <1>1, <1>2, <2>1
<1>3. CASE entry[b] = Nothing
  <2>1. PICK e \in Evicted : table = [e EXCEPT ![b] = [next |-> next, age |-> 0]]
    BY <1>3 DEF Raised
  <2>2. e = [x \in Account |-> e[x]]
    BY EvictedTable
  <2>3. QED
    BY <1>3, <2>1, <2>2
<1>4. QED
  BY <1>2, <1>3

LEMMA RaisedTable ==
  ASSUME WalletShape, NEW b, NEW next \in Int, NEW table \in Raised(b, next)
  PROVE  /\ table = [x \in Account |-> table[x]]
         /\ \A x \in Account : table[x] \in Stamped \cup {Nothing}
<1>1. /\ table = [x \in Account |-> table[x]]
      /\ \A x \in Account : x # b => table[x] = entry[x] \/ table[x] = Nothing
  BY RaisedOthers
<1>2. \A x \in Account : entry[x] \in Stamped \cup {Nothing}
  BY DEF WalletShape
<1>3. ASSUME b \in Account PROVE table[b] \in Stamped
  <2>1. PICK k : /\ table[b] = [next |-> k, age |-> 0]
                 /\ k = IF entry[b] # Nothing /\ ~(next > entry[b].next) THEN entry[b].next ELSE next
    BY <1>3, RaisedOwn
  <2>2. k \in Int
    BY <1>2, <1>3, <2>1 DEF Stamped
  <2>3. QED
    BY <2>1, <2>2, WalletAssumption DEF Stamped
<1>4. QED
  BY <1>1, <1>2, <1>3

-----------------------------------------------------------------------------
(* The steps *)

\* The count call of the account itself.
LEMMA OwnRead ==
  ASSUME WalletShape, NEW a \in Signer, NEW n \in Nat, Steady(a, n), ReadNonce(a)
  PROVE  Steady(a, n)'
<1>1. /\ call[a] = Idle /\ call'[a] = [pc |-> "read", val |-> nonce[a]]
      /\ nonce' = nonce /\ pool' = pool /\ entry' = entry /\ waiting' = waiting
  BY DEF ReadNonce, WalletShape, chain
<1>2. call[a].pc = "idle" /\ call'[a].pc = "read" /\ call'[a].val = nonce[a]
  BY <1>1 DEF Idle
<1>3. nonce[a] \in Nat
  BY DEF WalletShape, Account
<1>4. InFlight(a, n)'
  <2>1. InPool(a)' = InPool(a)
    BY <1>1 DEF InPool
  <2>2. QED
    BY <1>1, <2>1, PoolSame DEF Steady
<1>5. Stored(a, n)'
  <2>1. Stored(a, n)
    BY DEF Steady
  <2>2. Unexpired(a)' <=> Unexpired(a)
    BY <1>1 DEF Unexpired
  <2>3. QED
    BY <1>1, <1>2, <2>1, <2>2 DEF Stored
<1>6. Asked(a, n)'
  <2>1. call'[a] \in Call
    BY <1>1, <1>3 DEF Call
  <2>2. \A m \in waiting : m.from # a
    BY <1>2 DEF Steady, Asked
  <2>3. QED
    BY <1>1, <1>2, <1>3, <2>1, <2>2 DEF Asked
<1>7. QED
  BY <1>4, <1>5, <1>6 DEF Steady

\* A wallet that asks at rest is steady, whatever became of it before.
LEMMA RestRead ==
  ASSUME WalletShape, NEW a \in Signer, ReadNonce(a), AtRest(a)
  PROVE  \E n \in Nat : Steady(a, n)'
<1>1. PICK n \in Nat : n = nonce[a]
  BY DEF WalletShape, Account
<1>2. /\ call'[a] = [pc |-> "read", val |-> n] /\ nonce'[a] = n
      /\ pool' = pool /\ entry' = entry /\ waiting' = waiting
  BY <1>1 DEF ReadNonce, WalletShape, chain
<1>3. call'[a].pc = "read" /\ call'[a].val = n /\ call'[a] \in Call
  BY <1>2 DEF Call
<1>4. InPool(a)' = {} /\ (\A m \in waiting : m.from # a) /\ (entry[a] # Nothing => entry[a].next <= n)
  BY <1>1, <1>2 DEF AtRest, InPool
<1>5. n..(n - 1) = {} /\ n <= n
  OBVIOUS
<1>6. InFlight(a, n)'
  BY <1>2, <1>4, <1>5 DEF InFlight
<1>7. Stored(a, n)'
  <2>1. entry[a] \in Stamped \cup {Nothing}
    BY DEF WalletShape, Account
  <2>2. QED
    BY <1>2, <1>3, <1>4, <2>1 DEF Stored
<1>8. Asked(a, n)'
  BY <1>2, <1>3, <1>4, <1>5 DEF Asked
<1>9. QED
  BY <1>6, <1>7, <1>8 DEF Steady

LEMMA OwnAnswer ==
  ASSUME WalletShape, NEW a \in Signer, NEW n \in Nat, Steady(a, n), CountAnswer(a)
  PROVE  Steady(a, n)'
<1> DEFINE v == call[a].val
<1>1. /\ call[a].pc = "read" /\ call'[a] = [pc |-> "have", val |-> Answer(a, v)]
      /\ nonce' = nonce /\ pool' = pool /\ entry' = Answered(a, v) /\ waiting' = waiting
  BY DEF CountAnswer, WalletShape, chain
<1>2. call'[a].pc = "have" /\ call'[a].val = Answer(a, v)
  BY <1>1
<1>3. nonce[a] \in Nat /\ nonce[a] <= n /\ v \in Nat /\ v <= nonce[a]
  BY <1>1 DEF WalletShape, Account, Steady, Asked, InFlight, Call
<1>4. Stored(a, n) /\ Asked(a, n)
  BY DEF Steady
<1>5. a \in Account /\ (entry[a] # Nothing => entry[a].next \in Int /\ entry[a].next <= n)
  BY <1>4 DEF Account, Stored, Stamped
<1> HIDE DEF v
<1>6. InFlight(a, n)'
  <2>1. InPool(a)' = InPool(a)
    BY <1>1 DEF InPool
  <2>2. QED
    BY <1>1, <2>1, PoolSame DEF Steady
\* The answer is n, and an entry that is taken away is not needed.
<1>7. CASE Unexpired(a) /\ entry[a].next = n /\ n > v
  <2>1. Answer(a, v) = n /\ entry' = entry
    BY <1>1, <1>3, <1>7 DEF Answer, Answered
  <2>2. Unexpired(a)'
    BY <1>7, <2>1 DEF Unexpired
  <2>3. Stored(a, n)'
    BY <1>4, <1>7, <2>1, <2>2 DEF Stored
  <2>4. call'[a] \in Call
    BY <1>1, <2>1 DEF Call
  <2>5. Asked(a, n)'
    BY <1>1, <1>2, <1>4, <2>1, <2>4 DEF Asked
  <2>6. QED
    BY <1>6, <2>3, <2>5 DEF Steady
<1>8. CASE ~(Unexpired(a) /\ entry[a].next = n /\ n > v)
  <2>1. n = nonce[a] /\ v = n
    <3>1. CASE Unexpired(a) /\ entry[a].next = n
      BY <1>3, <1>8, <3>1
    <3>2. CASE n = nonce[a] /\ v = nonce[a]
      BY <3>2
    <3>3. QED
      BY <1>1, <1>4, <3>1, <3>2 DEF Stored, v
  <2>2. Answer(a, v) = n
    BY <1>3, <1>5, <2>1 DEF Answer, Unexpired
  <2>3. entry'[a] = entry[a] \/ entry'[a] = Nothing
    BY <1>1, <1>5 DEF Answered, WalletShape
  <2>4. call'[a].pc # "read" /\ n = nonce'[a]
    BY <1>1, <1>2, <2>1
  <2>5. Stored(a, n)'
    BY <1>4, <2>3, <2>4 DEF Stored
  <2>6. call'[a] \in Call
    BY <1>1, <2>2 DEF Call
  <2>7. Asked(a, n)'
    BY <1>1, <1>2, <1>4, <2>2, <2>6 DEF Asked
  <2>8. QED
    BY <1>6, <2>5, <2>7 DEF Steady
<1>9. QED
  BY <1>7, <1>8

\* The wallet sends with the nonce it was answered.
LEMMA OwnSend ==
  ASSUME WalletShape, NEW a \in Signer, NEW n \in Nat, Steady(a, n), Send(a) \/ SendFails(a)
  PROVE  \E k \in Nat : Steady(a, k)'
<1>1. call[a].pc = "have" /\ call[a].val = n
  BY DEF Send, SendFails, Steady, Asked
<1>2. InFlight(a, n) /\ Stored(a, n) /\ Asked(a, n)
  BY DEF Steady
<1>3. call \in [Signer -> {call[x] : x \in Signer}] /\ nonce[a] \in Nat /\ a \in Account
  <2>1. call = [x \in Signer |-> call[x]] /\ nonce \in [Account -> Nat]
    BY DEF WalletShape
  <2>2. QED
    BY <2>1 DEF Account
<1>4. \A m \in waiting : m.from # a
  BY <1>1, <1>2 DEF Asked
<1>5. CASE call' = [call EXCEPT ![a] = Idle] /\ UNCHANGED <<chain, waiting, entry>>
  <2>1. call'[a] = Idle /\ nonce' = nonce /\ pool' = pool /\ entry' = entry /\ waiting' = waiting
    BY <1>3, <1>5 DEF chain
  <2>2. call'[a].pc = "idle" /\ call'[a] \in Call
    BY <2>1 DEF Idle, Call
  <2>3. InFlight(a, n)'
    <3>1. InPool(a)' = InPool(a)
      BY <2>1 DEF InPool
    <3>2. QED
      BY <1>2, <2>1, <3>1, PoolSame
  <2>4. Unexpired(a)' <=> Unexpired(a)
    BY <2>1 DEF Unexpired
  <2>5. Stored(a, n)'
    BY <1>1, <1>2, <2>1, <2>2, <2>4 DEF Stored
  <2>6. Asked(a, n)'
    BY <1>4, <2>1, <2>2 DEF Asked
  <2>7. QED
    BY <2>3, <2>5, <2>6 DEF Steady
<1>6. CASE Admit(Own(a, call[a].val)) /\ call' = [call EXCEPT ![a] = [pc |-> "sent", val |-> call[a].val]]
  <2>1. /\ call'[a] = [pc |-> "sent", val |-> n] /\ nonce' = nonce /\ entry' = entry
        /\ pool' = Append(pool, Own(a, n)) /\ waiting' = waiting \cup {Own(a, n)}
    BY <1>1, <1>3, <1>6 DEF Admit
  <2>2. call'[a].pc = "sent" /\ call'[a].val = n /\ call'[a] \in Call
    BY <2>1 DEF Call
  <2>3. InFlight(a, n + 1)'
    BY <1>2, <2>1, PoolOwn
  <2>4. Stored(a, n + 1)'
    <3>1. entry[a] # Nothing => entry[a].next \in Int /\ entry[a].next <= n
      BY <1>2 DEF Stored, Stamped
    <3>2. entry[a] # Nothing => entry[a].next <= n + 1
      BY <3>1
    <3>3. QED
      BY <1>2, <2>1, <2>2, <3>2 DEF Stored
  <2>5. Asked(a, n + 1)'
    BY <1>4, <2>1, <2>2 DEF Asked
  <2>6. n + 1 \in Nat
    OBVIOUS
  <2>7. QED
    BY <2>3, <2>4, <2>5, <2>6 DEF Steady
<1>7. QED
  BY <1>5, <1>6 DEF Send, SendFails

\* The submit ends: the store gets the next nonce.
LEMMA OwnAdvance ==
  ASSUME WalletShape, NEW a \in Signer, NEW n \in Nat, Steady(a, n), NEW m, Advance(m), m.from = a
  PROVE  Steady(a, n)'
<1>1. InFlight(a, n) /\ Stored(a, n) /\ Asked(a, n)
  BY DEF Steady
<1>2. /\ m \in waiting /\ waiting' = waiting \ {m} /\ entry' \in Raised(a, m.nonce + 1)
      /\ Return(m) /\ nonce' = nonce /\ pool' = pool
  BY DEF Advance, chain
<1>3. call[a].pc = "sent" /\ m = Own(a, call[a].val) /\ call[a].val + 1 = n /\ call[a].val \in Nat
  BY <1>1, <1>2 DEF Asked, Call
<1>4. m.nonce + 1 = n
  BY <1>3 DEF Own
<1>5. call'[a] = Idle
  BY <1>2, <1>3 DEF Return
<1>6. call'[a].pc = "idle" /\ call'[a] \in Call
  BY <1>5 DEF Idle, Call
<1>7. entry'[a] = [next |-> n, age |-> 0]
  <2>1. entry'[a] = [next |-> IF entry[a] # Nothing /\ ~(n > entry[a].next) THEN entry[a].next ELSE n,
                     age |-> 0]
    BY <1>2, <1>4, RaisedOwn DEF Account
  <2>2. entry[a] # Nothing => entry[a].next \in Int /\ entry[a].next <= n
    BY <1>1 DEF Stored, Stamped
  <2>3. QED
    BY <2>1, <2>2
<1>8. entry'[a] \in Stamped /\ entry'[a] \in Entry /\ entry'[a].next = n /\ entry'[a].age < Ttl
  BY <1>7, WalletAssumption DEF Stamped, Entry
<1>9. Unexpired(a)'
  BY <1>8, NothingAssumption DEF Unexpired
<1>10. Stored(a, n)'
  BY <1>8, <1>9 DEF Stored
<1>11. Asked(a, n)'
  <2>1. \A x \in waiting' : x.from # a
    BY <1>1, <1>2, <1>3 DEF Asked
  <2>2. QED
    BY <1>6, <2>1 DEF Asked
<1>12. InFlight(a, n)'
  <2>1. InPool(a)' = InPool(a)
    BY <1>2 DEF InPool
  <2>2. QED
    BY <1>1, <1>2, <2>1, PoolSame
<1>13. QED
  BY <1>10, <1>11, <1>12 DEF Steady
\* Nothing of the account changes.
LEMMA SteadySame ==
  ASSUME WalletShape, NEW a \in Signer, NEW n \in Nat, Steady(a, n),
         nonce'[a] = nonce[a], entry'[a] = entry[a], call'[a] = call[a],
         InPool(a)' = InPool(a), \A i \in InPool(a) : pool'[i] = pool[i],
         \A m : m.from = a => (m \in waiting' <=> m \in waiting)
  PROVE  Steady(a, n)'
<1>1. InFlight(a, n) /\ Stored(a, n) /\ Asked(a, n)
  BY DEF Steady
<1>2. nonce[a] \in Nat /\ nonce[a] <= nonce[a]
  BY DEF WalletShape, Account
<1>3. InFlight(a, n)'
  BY <1>1, PoolSame
<1>4. Stored(a, n)'
  BY <1>1, StoredSame
<1>5. Asked(a, n)'
  BY <1>1, <1>2, AskedSame
<1>6. QED
  BY <1>3, <1>4, <1>5 DEF Steady

\* Only the account's entry changes, and it is not lost while it is needed.
LEMMA SteadyLoss ==
  ASSUME WalletShape, NEW a \in Signer, NEW n \in Nat, Steady(a, n),
         nonce' = nonce, pool' = pool, call'[a] = call[a],
         \/ entry'[a] = Nothing
         \/ entry[a] # Nothing /\ entry'[a] \in Stamped /\ entry'[a].next = entry[a].next,
         a \notin Losers(entry'),
         \A m : m.from = a => (m \in waiting' <=> m \in waiting)
  PROVE  Steady(a, n)'
<1>1. InFlight(a, n) /\ Stored(a, n) /\ Asked(a, n)
  BY DEF Steady
<1>2. nonce[a] \in Nat /\ nonce[a] <= nonce[a] /\ nonce[a] <= n
  BY <1>1 DEF WalletShape, Account, InFlight
<1>3. InFlight(a, n)'
  <2>1. InPool(a)' = InPool(a)
    BY DEF InPool
  <2>2. QED
    BY <1>1, <2>1, PoolSame
<1>4. Stored(a, n)'
  BY <1>1, <1>2, StoredLoss
<1>5. Asked(a, n)'
  BY <1>1, <1>2, AskedSame
<1>6. QED
  BY <1>3, <1>4, <1>5 DEF Steady

\* A transaction of another account is admitted.
LEMMA SteadyAdmit ==
  ASSUME WalletShape, NEW a \in Signer, NEW n \in Nat, Steady(a, n), NEW m \in Sent, m.from # a,
         Admit(m), call'[a] = call[a]
  PROVE  Steady(a, n)'
<1>1. nonce' = nonce /\ entry' = entry /\ pool' = Append(pool, m) /\ waiting' = waiting \cup {m}
  BY DEF Admit
<1>2. /\ \A i \in InPool(a) : pool'[i] = pool[i]
      /\ InPool(a)' = InPool(a) \cup (IF m.from = a THEN {Len(pool) + 1} ELSE {})
  BY <1>1, PoolAppend
<1>3. InPool(a)' = InPool(a)
  BY <1>2
<1>4. \A x : x.from = a => (x \in waiting' <=> x \in waiting)
  BY <1>1
<1>5. QED
  BY <1>1, <1>2, <1>3, <1>4, SteadySame

\* A call of another account, of another client, or the books.
LEMMA SteadyCalls ==
  ASSUME WalletShape, NEW a \in Signer \ disturbed', NEW n \in Nat, Steady(a, n),
         NEW b \in Signer,
         \/ b # a /\ (ReadNonce(b) \/ CountAnswer(b) \/ Send(b) \/ SendFails(b))
         \/ OtherRead(b) \/ OtherAnswer(b)
  PROVE  Steady(a, n)'
<1>1. entry = [x \in Account |-> entry[x]] /\ call = [x \in Signer |-> call[x]] /\ a \in Account
  BY DEF WalletShape, Account
<1>2. pool' = pool => InPool(a)' = InPool(a)
  BY DEF InPool
<1>3. CASE (b # a /\ (ReadNonce(b) \/ SendFails(b))) \/ OtherRead(b)
  <2>1. nonce' = nonce /\ pool' = pool /\ entry' = entry /\ waiting' = waiting /\ call'[a] = call[a]
    BY <1>1, <1>3 DEF ReadNonce, SendFails, OtherRead, chain
  <2>2. QED
    BY <1>2, <2>1, SteadySame
<1>4. CASE b # a /\ CountAnswer(b)
  <2>1. nonce' = nonce /\ pool' = pool /\ waiting' = waiting /\ call'[a] = call[a]
    BY <1>1, <1>4 DEF CountAnswer, chain
  <2>2. entry'[a] = entry[a]
    BY <1>1, <1>4 DEF CountAnswer, Answered
  <2>3. QED
    BY <1>2, <2>1, <2>2, SteadySame
<1>5. CASE b # a /\ Send(b)
  <2>1. CASE Deduped(Own(b, call[b].val))
    <3>1. nonce' = nonce /\ pool' = pool /\ entry' = entry /\ waiting' = waiting /\ call'[a] = call[a]
      BY <1>1, <1>5, <2>1 DEF Send, chain
    <3>2. QED
      BY <1>2, <3>1, SteadySame
  <2>2. CASE ~Deduped(Own(b, call[b].val))
    <3>1. Admit(Own(b, call[b].val)) /\ call[b].val \in Nat /\ call'[a] = call[a]
      BY <1>1, <1>5, <2>2, CodecAssumption DEF Send
    <3>2. Own(b, call[b].val) \in Sent /\ Own(b, call[b].val).from # a
      <4>1. b # a /\ call[b].val \in Nat
        BY <1>5, <3>1
      <4>2. QED
        BY <4>1, OwnFields
    <3>3. QED
      BY <3>1, <3>2, SteadyAdmit
  <2>3. QED
    BY <2>1, <2>2
<1>6. CASE OtherAnswer(b)
  <2>1. /\ nonce' = nonce /\ pool' = pool /\ waiting' = waiting /\ call'[a] = call[a]
        /\ entry' = Answered(b, seen[b]) /\ disturbed' = disturbed \cup Losers(entry')
    BY <1>6 DEF OtherAnswer, chain
  <2>2. entry'[a] = entry[a] \/ entry'[a] = Nothing
    BY <1>1, <2>1 DEF Answered
  <2>3. a \notin Losers(entry')
    BY <2>1
  <2>4. entry[a] \in Stamped \cup {Nothing}
    BY DEF Steady, Stored
  <2>5. QED
    BY <2>1, <2>2, <2>3, <2>4, SteadyLoss
<1>7. QED
  BY <1>3, <1>4, <1>5, <1>6

\* Another account's call gets its answer.
LEMMA ReturnOther ==
  ASSUME NEW m, NEW a \in Signer, m.from # a, Return(m)
  PROVE  call'[a] = call[a]
<1>1. \A v : m # Own(a, v)
  BY DEF Own
<1>2. QED
  BY <1>1 DEF Return

\* What happens to a transaction of another account.
LEMMA SteadyMessages ==
  ASSUME WalletShape, NEW a \in Signer \ disturbed', NEW n \in Nat, Steady(a, n), NEW m \in Msg,
         \/ m.from # a /\ Advance(m)
         \/ Settle(m) \/ Post(m) \/ AnswerLost(m) \/ Forget(m)
  PROVE  Steady(a, n)'
<1>1. pool' = pool => InPool(a)' = InPool(a)
  BY DEF InPool
<1>2. CASE Settle(m) \/ Forget(m)
  <2>1. nonce' = nonce /\ pool' = pool /\ entry' = entry /\ waiting' = waiting /\ call' = call
    BY <1>2 DEF Settle, Forget, chain
  <2>2. QED
    BY <1>1, <2>1, SteadySame
<1>3. CASE m.from # a /\ Advance(m)
  <2>1. /\ nonce' = nonce /\ pool' = pool /\ waiting' = waiting \ {m}
        /\ entry' \in Raised(m.from, m.nonce + 1) /\ disturbed' = disturbed \cup Losers(entry')
        /\ Return(m)
    BY <1>3 DEF Advance, chain
  <2>2. call'[a] = call[a]
    BY <1>3, <2>1, ReturnOther
  <2>3. entry'[a] = entry[a] \/ entry'[a] = Nothing
    <3>1. a \in Account
      BY DEF Account
    <3>2. \A x \in Account : x # m.from => entry'[x] = entry[x] \/ entry'[x] = Nothing
      <4> DEFINE b == m.from
                 next == m.nonce + 1
      <4>1. entry' \in Raised(b, next)
        BY <2>1
      <4> HIDE DEF b, next
      <4>2. \A x \in Account : x # b => entry'[x] = entry[x] \/ entry'[x] = Nothing
        BY <4>1, RaisedOthers
      <4>3. QED
        BY <4>2 DEF b
    <3>3. QED
      BY <1>3, <3>1, <3>2
  <2>4. a \notin Losers(entry')
    BY <2>1
  <2>5. entry[a] \in Stamped \cup {Nothing}
    BY DEF Steady, Stored
  <2>6. \A x : x.from = a => (x \in waiting' <=> x \in waiting)
    BY <1>3, <2>1
  <2>7. QED
    BY <2>1, <2>2, <2>3, <2>4, <2>5, <2>6, SteadyLoss
<1>4. CASE Post(m)
  <2>1. disturbed' = disturbed \cup {m.from} /\ Admit(m) /\ call' = call
    BY <1>4 DEF Post, Disturb
  <2>2. m.from # a /\ m \in Sent
    BY <2>1 DEF Sent
  <2>3. QED
    BY <2>1, <2>2, SteadyAdmit
<1>5. CASE AnswerLost(m)
  <2>1. /\ disturbed' = disturbed \cup {m.from} /\ waiting' = waiting \ {m} /\ Return(m)
        /\ nonce' = nonce /\ pool' = pool /\ entry' = entry
    BY <1>5 DEF AnswerLost, Disturb, chain
  <2>2. m.from # a
    BY <2>1
  <2>3. call'[a] = call[a]
    BY <2>1, <2>2, ReturnOther
  <2>4. \A x : x.from = a => (x \in waiting' <=> x \in waiting)
    BY <2>1, <2>2
  <2>5. QED
    BY <1>1, <2>1, <2>3, <2>4, SteadySame
<1>6. QED
  BY <1>2, <1>3, <1>4, <1>5
\* The positions of a pool that was cut.
LEMMA PoolCut ==
  ASSUME WalletShape, NEW k \in 0..(Len(pool) - 1), pool' = SubSeq(pool, 1, k)
  PROVE  /\ pool' \in Seq(Sent) /\ DOMAIN pool' = 1..k /\ DOMAIN pool = 1..Len(pool) /\ Len(pool) \in Nat
         /\ \A i \in DOMAIN pool' : i \in DOMAIN pool /\ pool'[i] = pool[i]
<1>1. pool \in Seq(Sent) /\ Len(pool) \in Nat /\ DOMAIN pool = 1..Len(pool)
  BY LenProperties DEF WalletShape
<1>2. k \in Nat /\ k <= Len(pool) /\ 1 \in 1..(Len(pool) + 1) /\ k \in 0..Len(pool)
  BY <1>1
<1>3. /\ pool' \in Seq(Sent) /\ Len(pool') = IF 1 <= k THEN k - 1 + 1 ELSE 0
      /\ \A i \in 1..(k - 1 + 1) : pool'[i] = pool[1 + i - 1]
  BY <1>1, <1>2, SubSeqProperties
<1>4. Len(pool') = k /\ DOMAIN pool' = 1..Len(pool')
  BY <1>2, <1>3, LenProperties
<1>5. QED
  BY <1>1, <1>2, <1>3, <1>4

\* An entry grows older.
LEMMA TickEntry ==
  ASSUME Tick, NEW a \in Account, entry[a] \in Stamped \cup {Nothing}
  PROVE  \/ entry'[a] = Nothing
         \/ entry[a] # Nothing /\ entry'[a] \in Stamped /\ entry'[a].next = entry[a].next
<1>1. entry'[a] = IF entry[a] = Nothing \/ entry[a].age = Ttl THEN entry[a]
                  ELSE [entry[a] EXCEPT !.age = @ + 1]
  BY DEF Tick
<1>2. CASE entry[a] = Nothing \/ entry[a].age = Ttl
  BY <1>1, <1>2
<1>3. CASE ~(entry[a] = Nothing \/ entry[a].age = Ttl)
  <2>1. entry[a] \in Stamped /\ entry[a].age \in 0..Ttl /\ entry[a].age # Ttl /\ entry[a].next \in Int
    BY <1>3 DEF Stamped
  <2>2. entry[a].age + 1 \in 0..Ttl
    BY <2>1, WalletAssumption
  <2>3. entry'[a] = [next |-> entry[a].next, age |-> entry[a].age + 1]
    BY <1>1, <1>3, <2>1 DEF Stamped
  <2>4. QED
    BY <1>3, <2>1, <2>2, <2>3 DEF Stamped
<1>4. QED
  BY <1>2, <1>3

\* Blocks, time, a node that loses its pool and a proxy that starts anew.
LEMMA SteadyWorld ==
  ASSUME WalletShape, NEW a \in Signer \ disturbed', NEW n \in Nat, Steady(a, n),
         \/ Block \/ Tick \/ Restart \/ \E k \in 0..Len(pool) : DropMempool(k)
  PROVE  Steady(a, n)'
<1>0. /\ entry = [x \in Account |-> entry[x]] /\ call = [x \in Signer |-> call[x]] /\ a \in Account
      /\ nonce[a] \in Nat /\ nonce[a] <= n
  BY DEF WalletShape, Account, Steady, InFlight
<1>1. InFlight(a, n) /\ Stored(a, n) /\ Asked(a, n)
  BY DEF Steady
<1>2. CASE Block
  <2>1. InFlight(a, n)' /\ nonce[a] <= nonce'[a] /\ (nonce'[a] = nonce[a] \/ nonce[a] < n)
    BY <1>0, <1>1, <1>2, PoolBlock
  <2>2. call' = call /\ entry' = entry /\ waiting' = waiting
    BY <1>2 DEF Block
  <2>3. nonce'[a] \in Nat
    <3>1. nonce \in [Account -> Nat]
      BY DEF WalletShape
    <3>2. nonce' = [nonce EXCEPT ![Head(pool).from] = @ + 1] \/ nonce' = nonce
      BY <1>2 DEF Block, Run, Reject, Refuse
    <3>3. QED
      BY <1>0, <3>1, <3>2
  <2>4. Asked(a, n)'
    BY <1>0, <1>1, <2>1, <2>2, <2>3, AskedSame
  <2>5. Stored(a, n)'
    <3>1. CASE nonce'[a] = nonce[a]
      BY <1>1, <2>2, <3>1, StoredSame
    <3>2. CASE nonce[a] < n
      <4>1. n # nonce[a]
        BY <1>0, <3>2
      <4>2. Unexpired(a)' <=> Unexpired(a)
        BY <2>2 DEF Unexpired
      <4>3. QED
        BY <1>1, <2>2, <4>1, <4>2 DEF Stored
    <3>3. QED
      BY <2>1, <3>1, <3>2
  <2>6. QED
    BY <2>1, <2>4, <2>5 DEF Steady
<1>3. CASE Tick
  <2>1. nonce' = nonce /\ pool' = pool /\ call' = call /\ waiting' = waiting
    BY <1>3 DEF Tick, chain
  <2>2. disturbed' = disturbed \cup Losers(entry')
    BY <1>3 DEF Tick
  <2>3. entry[a] \in Stamped \cup {Nothing}
    BY <1>1 DEF Stored
  <2>4. entry'[a] = Nothing \/ (entry[a] # Nothing /\ entry'[a] \in Stamped /\ entry'[a].next = entry[a].next)
    BY <1>0, <1>3, <2>3, TickEntry
  <2>5. QED
    BY <2>1, <2>2, <2>4, SteadyLoss
<1>4. CASE Restart
  <2>1. /\ waiting' = {} /\ entry'[a] = Nothing /\ call'[a] = Idle /\ nonce' = nonce /\ pool' = pool
        /\ ~Needed(a) /\ \A m \in waiting : m.from # a
    BY <1>0, <1>4 DEF Restart, Disturb, chain
  <2>2. call'[a].pc = "idle" /\ call'[a] \in Call
    BY <2>1 DEF Idle, Call
  <2>3. call[a].pc # "sent"
    <3>1. Own(a, call[a].val).from = a
      BY DEF Own
    <3>2. QED
      BY <1>1, <2>1, <3>1 DEF Asked
  <2>4. n = nonce[a]
    <3>1. CASE Unexpired(a) /\ entry[a].next = n
      <4>1. ~(nonce[a] < n)
        BY <2>1, <3>1 DEF Needed, Unexpired
      <4>2. QED
        BY <1>0, <4>1
    <3>2. QED
      BY <1>1, <2>3, <3>1 DEF Stored
  <2>5. Stored(a, n)'
    BY <2>1, <2>2, <2>4 DEF Stored
  <2>6. Asked(a, n)'
    BY <2>1, <2>2 DEF Asked
  <2>7. InFlight(a, n)'
    <3>1. InPool(a)' = InPool(a)
      BY <2>1 DEF InPool
    <3>2. QED
      BY <1>1, <2>1, <3>1, PoolSame
  <2>8. QED
    BY <2>5, <2>6, <2>7 DEF Steady
<1>5. ASSUME NEW k \in 0..Len(pool), DropMempool(k) PROVE Steady(a, n)'
  <2>1. /\ k \in 0..(Len(pool) - 1) /\ pool' = SubSeq(pool, 1, k)
        /\ disturbed' = disturbed \cup {pool[i].from : i \in (k + 1)..Len(pool)}
        /\ nonce' = nonce /\ entry' = entry /\ call' = call /\ waiting' = waiting
    BY <1>5 DEF DropMempool, Disturb
  <2>2. /\ DOMAIN pool' = 1..k /\ DOMAIN pool = 1..Len(pool) /\ Len(pool) \in Nat
        /\ \A i \in DOMAIN pool' : i \in DOMAIN pool /\ pool'[i] = pool[i]
    BY <2>1, PoolCut
  <2>3. \A i \in (k + 1)..Len(pool) : pool[i].from # a
    BY <2>1
  <2>4. \A i \in InPool(a) : i \in DOMAIN pool'
    <3> SUFFICES ASSUME NEW i \in InPool(a), i \notin DOMAIN pool' PROVE FALSE
      OBVIOUS
    <3>1. i \in (k + 1)..Len(pool) /\ pool[i].from = a
      BY <2>2 DEF InPool
    <3>2. QED
      BY <2>3, <3>1
  <2>5. InPool(a)' = InPool(a) /\ \A i \in InPool(a) : pool'[i] = pool[i]
    BY <2>2, <2>4 DEF InPool
  <2>6. QED
    BY <2>1, <2>5, SteadySame
<1>6. QED
  BY <1>2, <1>3, <1>4, <1>5

\* An account comes back in order only where its wallet asks at rest.
LEMMA DisturbedStep ==
  ASSUME [Next]_vars, NEW a \in disturbed, a \notin disturbed'
  PROVE  a \in Signer /\ ReadNonce(a) /\ AtRest(a)
<1>1. ASSUME NEW b \in Signer, ReadNonce(b) PROVE b = a /\ AtRest(b)
  BY <1>1 DEF ReadNonce
<1>2. ASSUME \A b \in Signer : ~ReadNonce(b) PROVE disturbed \subseteq disturbed'
  BY <1>2 DEF Next, vars, CountAnswer, Send, SendFails, OtherRead, OtherAnswer, Advance, Settle,
     Post, AnswerLost, Forget, DropMempool, Block, Run, Reject, Refuse, Tick, Restart, Disturb
<1>3. QED
  BY <1>1, <1>2

\* An account in order is steady.
LEMMA SteadyStep ==
  ASSUME WalletInv, [Next]_vars, NEW a \in Signer, a \notin disturbed'
  PROVE  \E n \in Nat : Steady(a, n)'
<1>0. WalletShape
  BY DEF WalletInv
<1>1. CASE a \in disturbed
  BY <1>0, <1>1, DisturbedStep, RestRead
<1> SUFFICES ASSUME a \notin disturbed PROVE \E n \in Nat : Steady(a, n)'
  BY <1>1
<1>2. PICK n \in Nat : Steady(a, n)
  BY DEF WalletInv
<1>3. ASSUME NEW b \in Signer, \/ ReadNonce(b) \/ CountAnswer(b) \/ Send(b) \/ SendFails(b)
                               \/ OtherRead(b) \/ OtherAnswer(b)
      PROVE  \E k \in Nat : Steady(a, k)'
  <2>1. CASE b = a /\ (ReadNonce(b) \/ CountAnswer(b))
    BY <1>0, <1>2, <2>1, OwnRead, OwnAnswer
  <2>2. CASE b = a /\ (Send(b) \/ SendFails(b))
    BY <1>0, <1>2, <2>2, OwnSend
  <2>3. CASE \/ b # a /\ (ReadNonce(b) \/ CountAnswer(b) \/ Send(b) \/ SendFails(b))
             \/ OtherRead(b) \/ OtherAnswer(b)
    <3>1. a \in Signer \ disturbed'
      OBVIOUS
    <3>2. Steady(a, n)'
      BY <1>0, <1>2, <2>3, <3>1, SteadyCalls
    <3>3. QED
      BY <3>2
  <2>4. QED
    BY <1>3, <2>1, <2>2, <2>3
<1>4. ASSUME NEW m \in Msg, Advance(m) \/ Settle(m) \/ Post(m) \/ AnswerLost(m) \/ Forget(m)
      PROVE  \E k \in Nat : Steady(a, k)'
  <2>1. CASE m.from = a /\ Advance(m)
    BY <1>0, <1>2, <2>1, OwnAdvance
  <2>2. CASE \/ m.from # a /\ Advance(m)
             \/ Settle(m) \/ Post(m) \/ AnswerLost(m) \/ Forget(m)
    <3>1. a \in Signer \ disturbed'
      OBVIOUS
    <3>2. Steady(a, n)'
      BY <1>0, <1>2, <2>2, <3>1, SteadyMessages
    <3>3. QED
      BY <3>2
  <2>3. QED
    BY <1>4, <2>1, <2>2
<1>5. CASE Block \/ Tick \/ Restart \/ \E k \in 0..Len(pool) : DropMempool(k)
  <2>1. a \in Signer \ disturbed'
    OBVIOUS
  <2>2. Steady(a, n)'
    BY <1>0, <1>2, <1>5, <2>1, SteadyWorld
  <2>3. QED
    BY <2>2
<1>6. CASE UNCHANGED vars
  <2>1. nonce' = nonce /\ pool' = pool /\ call' = call /\ waiting' = waiting /\ entry' = entry
    BY <1>6 DEF vars
  <2>2. InPool(a)' = InPool(a)
    BY <2>1 DEF InPool
  <2>3. Steady(a, n)'
    BY <1>0, <1>2, <2>1, <2>2, SteadySame
  <2>4. QED
    BY <2>3
<1>7. QED
  BY <1>3, <1>4, <1>5, <1>6 DEF Next
LEMMA ShapeStep ==
  ASSUME WalletShape, [Next]_vars
  PROVE  WalletShape'
<1>0. /\ nonce \in [Account -> Nat] /\ pool \in Seq(Sent)
      /\ entry = [a \in Account |-> entry[a]] /\ call = [a \in Signer |-> call[a]]
      /\ \A a \in Account : entry[a] \in Stamped \cup {Nothing}
      /\ \A i \in DOMAIN pool : pool[i].from \in Signer \cup disturbed
  BY DEF WalletShape
<1>1. Signer \cup disturbed \subseteq Signer \cup disturbed'
  BY DisturbedStep
<1>2. ASSUME NEW m \in Sent, Admit(m), m.from \in Signer \cup disturbed', call' = [a \in Signer |-> call'[a]]
      PROVE  WalletShape'
  <2>1. pool' = Append(pool, m) /\ nonce' = nonce /\ entry' = entry
    BY <1>2 DEF Admit
  <2>2. /\ pool' \in Seq(Sent)
        /\ \A i \in DOMAIN pool' : (i \in DOMAIN pool /\ pool'[i] = pool[i]) \/ pool'[i] = m
    BY <2>1, PoolAppend
  <2>3. \A i \in DOMAIN pool' : pool'[i].from \in Signer \cup disturbed'
    BY <1>0, <1>1, <1>2, <2>2
  <2>4. QED
    BY <1>0, <1>2, <2>1, <2>2, <2>3 DEF WalletShape
<1>3. ASSUME nonce' = nonce, pool' = pool, entry' = [a \in Account |-> entry'[a]],
             \A a \in Account : entry'[a] \in Stamped \cup {Nothing},
             call' = [a \in Signer |-> call'[a]]
      PROVE  WalletShape'
  BY <1>0, <1>1, <1>3 DEF WalletShape
<1>4. ASSUME NEW b \in Signer, \/ ReadNonce(b) \/ CountAnswer(b) \/ Send(b) \/ SendFails(b)
                               \/ OtherRead(b) \/ OtherAnswer(b)
      PROVE  WalletShape'
  <2>1. call' = [a \in Signer |-> call'[a]]
    BY <1>0, <1>4 DEF ReadNonce, CountAnswer, Send, SendFails, OtherRead, OtherAnswer
  <2>2. CASE ReadNonce(b) \/ SendFails(b) \/ OtherRead(b)
    BY <1>0, <1>3, <2>1, <2>2 DEF ReadNonce, SendFails, OtherRead, chain
  <2>3. CASE CountAnswer(b) \/ OtherAnswer(b)
    <3>1. nonce' = nonce /\ pool' = pool /\ \E v : entry' = Answered(b, v)
      BY <2>3 DEF CountAnswer, OtherAnswer, chain
    <3>2. /\ entry' = [a \in Account |-> entry'[a]]
          /\ \A a \in Account : entry'[a] \in Stamped \cup {Nothing}
      BY <1>0, <3>1 DEF Answered
    <3>3. QED
      BY <1>3, <2>1, <3>1, <3>2
  <2>4. CASE Send(b)
    <3>1. CASE Deduped(Own(b, call[b].val))
      BY <1>0, <1>3, <2>1, <2>4, <3>1 DEF Send, chain
    <3>2. CASE ~Deduped(Own(b, call[b].val))
      <4>1. Admit(Own(b, call[b].val)) /\ call[b].val \in Nat
        BY <2>4, <3>2, CodecAssumption DEF Send
      <4>2. Own(b, call[b].val) \in Sent /\ Own(b, call[b].val).from = b
        BY <4>1, OwnFields
      <4>3. QED
        BY <1>2, <2>1, <4>1, <4>2
    <3>3. QED
      BY <3>1, <3>2
  <2>5. QED
    BY <1>4, <2>2, <2>3, <2>4
<1>5. ASSUME NEW m \in Msg, Advance(m) \/ Settle(m) \/ Post(m) \/ AnswerLost(m) \/ Forget(m)
      PROVE  WalletShape'
  <2>1. call' = [a \in Signer |-> call'[a]]
    BY <1>0, <1>5 DEF Advance, Settle, Post, AnswerLost, Forget, Return
  <2>2. CASE Settle(m) \/ AnswerLost(m) \/ Forget(m)
    BY <1>0, <1>3, <2>1, <2>2 DEF Settle, AnswerLost, Forget, chain
  <2>3. CASE Advance(m)
    <3>1. nonce' = nonce /\ pool' = pool /\ entry' \in Raised(m.from, m.nonce + 1)
      BY <2>3 DEF Advance, chain
    <3> DEFINE b == m.from
               next == m.nonce + 1
    <3>2. entry' \in Raised(b, next)
      BY <3>1
    <3> HIDE DEF b, next
    <3>3. /\ entry' = [a \in Account |-> entry'[a]]
          /\ \A a \in Account : entry'[a] \in Stamped \cup {Nothing}
      <4>1. next \in Int
        BY MessageNonce DEF next
      <4>2. QED
        BY <3>2, <4>1, RaisedTable
    <3>4. QED
      BY <1>3, <2>1, <3>1, <3>3
  <2>4. CASE Post(m)
    <3>1. Admit(m) /\ disturbed' = disturbed \cup {m.from}
      BY <2>4 DEF Post, Disturb
    <3>2. m \in Sent
      BY DEF Sent
    <3>3. QED
      BY <1>2, <2>1, <3>1, <3>2
  <2>5. QED
    BY <1>5, <2>2, <2>3, <2>4
<1>6. CASE Tick \/ Restart \/ UNCHANGED vars
  <2>1. call' = [a \in Signer |-> call'[a]] /\ entry' = [a \in Account |-> entry'[a]]
    BY <1>0, <1>6 DEF Tick, Restart, vars
  <2>3. ASSUME NEW a \in Account PROVE entry'[a] \in Stamped \cup {Nothing}
    <3>1. CASE Tick
      BY <1>0, <3>1, TickEntry
    <3>2. CASE Restart \/ UNCHANGED vars
      BY <1>0, <3>2 DEF Restart, vars
    <3>3. QED
      BY <1>6, <3>1, <3>2
  <2>2. nonce' = nonce /\ pool' = pool
    BY <1>6 DEF Tick, Restart, vars, chain
  <2>4. QED
    BY <1>3, <2>1, <2>2, <2>3
<1>7. CASE Block
  <2>1. pool # <<>> /\ pool' = Tail(pool) /\ entry' = entry /\ call' = call
    BY <1>7 DEF Block
  <2>2. /\ pool' \in Seq(Sent)
        /\ \A i \in DOMAIN pool' : i + 1 \in DOMAIN pool /\ pool'[i] = pool[i + 1]
    BY <2>1, PoolTail
  <2>3. nonce' = [nonce EXCEPT ![Head(pool).from] = @ + 1] \/ nonce' = nonce
    BY <1>7 DEF Block, Run, Reject, Refuse
  <2>4. nonce' \in [Account -> Nat]
    BY <1>0, <2>3
  <2>5. \A i \in DOMAIN pool' : pool'[i].from \in Signer \cup disturbed'
    BY <1>0, <1>1, <2>2
  <2>6. QED
    BY <1>0, <2>1, <2>2, <2>4, <2>5 DEF WalletShape
<1>8. ASSUME NEW k \in 0..Len(pool), DropMempool(k) PROVE WalletShape'
  <2>1. /\ k \in 0..(Len(pool) - 1) /\ pool' = SubSeq(pool, 1, k)
        /\ nonce' = nonce /\ entry' = entry /\ call' = call
    BY <1>8 DEF DropMempool
  <2>2. pool' \in Seq(Sent) /\ \A i \in DOMAIN pool' : i \in DOMAIN pool /\ pool'[i] = pool[i]
    BY <2>1, PoolCut
  <2>3. \A i \in DOMAIN pool' : pool'[i].from \in Signer \cup disturbed'
    BY <1>0, <1>1, <2>2
  <2>4. QED
    BY <1>0, <2>1, <2>2, <2>3 DEF WalletShape
<1>9. QED
  BY <1>4, <1>5, <1>6, <1>7, <1>8 DEF Next

LEMMA WalletInit == Init => WalletInv
<1> SUFFICES ASSUME Init PROVE WalletInv
  OBVIOUS
<1>1. pool = <<>> /\ DOMAIN pool = {} /\ pool \in Seq(Sent)
  BY DEF Init
<1>2. WalletShape
  BY <1>1 DEF Init, WalletShape
<1>3. ASSUME NEW a \in Signer PROVE Steady(a, 0)
  <2>1. nonce[a] = 0 /\ entry[a] = Nothing /\ call[a] = Idle /\ waiting = {}
    BY DEF Init, Account
  <2>2. call[a].pc = "idle" /\ call[a] \in Call
    BY <2>1 DEF Idle, Call
  <2>3. InFlight(a, 0)
    <3>1. InPool(a) = {}
      BY <1>1 DEF InPool
    <3>2. 0..(0 - 1) = {}
      OBVIOUS
    <3>3. QED
      BY <2>1, <3>1, <3>2 DEF InFlight
  <2>4. Stored(a, 0)
    BY <2>1, <2>2 DEF Stored
  <2>5. Asked(a, 0)
    BY <2>1, <2>2 DEF Asked
  <2>6. QED
    BY <2>3, <2>4, <2>5 DEF Steady
<1>4. QED
  BY <1>2, <1>3 DEF WalletInv

LEMMA WalletStep ==
  ASSUME WalletInv, [Next]_vars
  PROVE  WalletInv'
<1>1. WalletShape'
  BY ShapeStep DEF WalletInv
<1>2. \A a \in Signer \ disturbed' : \E n \in Nat : Steady(a, n)'
  BY SteadyStep
<1>3. QED
  BY <1>1, <1>2 DEF WalletInv

\* The answer a wallet holds is the nonce its next transaction needs, for every
\* capacity and TTL of the pending-nonce store and every number of wallets that
\* share it, as long as the account is in order: since its wallet asked at rest,
\* nothing of it was refused by revm, lost, or sent by somebody else.
THEOREM AnswersFit == Spec => []AnswerFits
<1>1. WalletInv => AnswerFits
  <2> SUFFICES ASSUME WalletInv, NEW a \in Signer \ disturbed, call[a].pc = "have"
               PROVE  call[a].val = nonce[a] + Cardinality(InPool(a))
    BY DEF AnswerFits
  <2>1. PICK n \in Nat : Steady(a, n)
    BY DEF WalletInv
  <2>2. call[a].val = n
    BY <2>1 DEF Steady, Asked
  <2>3. n = nonce[a] + Cardinality(InPool(a))
    BY <2>1, InFlightCount DEF WalletInv, Steady, Account
  <2>4. QED
    BY <2>2, <2>3
<1>2. QED
  BY <1>1, WalletInit, WalletStep, PTL DEF Spec

\* What a block takes next of an account in order passes the nonce check and the
\* other checks of handle_submit_raw_tx, however the wallet's calls, the raises
\* of the store, other callers, blocks and time were interleaved before.
THEOREM NothingRejectedQuietly == Spec => []NoQuietRejection
<1>1. WalletInv => NoQuietRejection
  <2> SUFFICES ASSUME WalletInv, pool # <<>>, Head(pool).from \notin disturbed
               PROVE  Runs(Head(pool))
    BY DEF NoQuietRejection
  <2>1. WalletShape
    BY DEF WalletInv
  <2>2. 1 \in DOMAIN pool /\ Head(pool) = pool[1]
    <3>1. pool \in Seq(Sent)
      BY <2>1 DEF WalletShape
    <3>2. Len(pool) \in Nat \ {0} /\ DOMAIN pool = 1..Len(pool) /\ Head(pool) = pool[1]
      BY <3>1, HeadTailProperties, LenProperties, EmptySeq
    <3>3. QED
      BY <3>2
  <2> DEFINE a == pool[1].from
  <2>3. a \in Signer \ disturbed /\ a \in Account
    BY <2>1, <2>2 DEF WalletShape, Account
  <2>4. PICK n \in Nat : Steady(a, n)
    BY <2>3 DEF WalletInv
  <2>5. InFlight(a, n) /\ pool[1].from = a
    BY <2>4 DEF Steady
  <2> HIDE DEF a
  <2>6. Runs(pool[1])
    BY <2>1, <2>2, <2>3, <2>5, HeadRuns
  <2>7. QED
    BY <2>2, <2>6
<1>2. QED
  BY <1>1, WalletInit, WalletStep, PTL DEF Spec
-----------------------------------------------------------------------------
(* What the two readers agree on *)

\* Every transaction that the engine accepts the proxy has read as the engine
\* does (decode_and_recover against parse_raw_tx), whatever became of its bytes
\* on the way: same sender, chain and nonce, for any signers, chains, nonces and
\* lengths of content.
THEOREM EngineReadsWithinProxy == Spec => []EngineWithinProxy
<1>1. EngineWithinProxy
  <2> SUFFICES ASSUME NEW r \in Acceptable PROVE r.proxy = r.engine
    BY DEF EngineWithinProxy
  <2>1. r \in Readings /\ r.engine # Bad
    BY DEF Acceptable, Valid
  <2>2. PICK by, type, body, c, odd, t, raw :
          FormOf(by, type, body, c, odd, t, raw) /\ r = Reading(t, raw)
    BY <2>1, ReadingForm
  <2>3. r.proxy = Decode(raw) /\ r.engine = Parse(raw)
    BY <2>2 DEF Reading
  <2>4. QED
    BY <2>1, <2>2, <2>3, FormsAgree
<1>2. QED
  BY <1>1, PTL

\* Of all the byte strings that carry a signed transaction the engine
\* (parse_raw_tx, validate_signature) runs as the signer's only the one the
\* signer made, for any signers, chains, nonces and lengths of content.
THEOREM OnlyOwnEncoding == Spec => []OneEncoding
<1>1. OneEncoding
  <2> SUFFICES ASSUME NEW r \in Acceptable, r.engine.from = r.by PROVE r.own
    BY DEF OneEncoding
  <2>1. r \in Readings /\ r.engine # Bad /\ r.engine.chain = ChainId
    BY DEF Acceptable, Valid
  <2>2. PICK by, type, body, c, odd, t, raw :
          /\ FormOf(by, type, body, c, odd, t, raw)
          /\ r = Reading(t, raw) /\ t.items[Len(t.items) - 1].val.by = by
    BY <2>1, ReadingForm
  <2>3. r.engine = Parse(raw) /\ r.by = by /\ r.own = (raw = t)
    BY <2>2 DEF Reading
  <2>4. raw = t
    BY <2>1, <2>2, <2>3, OneForm
  <2>5. QED
    BY <2>3, <2>4
<1>2. QED
  BY <1>1, PTL
==============================================================================
