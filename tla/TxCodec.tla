------------------------------- MODULE TxCodec -------------------------------
(***************************************************************************)
(* The two readers of a raw Ethereum transaction: decode_and_recover of    *)
(* the proxy (eth_tx.rs), which decides whom a transaction is from and     *)
(* what its nonce is, and parse_raw_tx of the engine (tx.rs), which        *)
(* decides whether it runs.                                                *)
(*                                                                         *)
(* A raw transaction is its type, its outer RLP list and the items of the  *)
(* list.  An item is what the readers tell apart of its bytes:             *)
(*   list  - it is a list, not a byte string;                              *)
(*   loose - its header is not the shortest one: the proxy reads it, the   *)
(*           engine's RLP library does not;                                *)
(*   zeros - its content begins with a zero byte;                          *)
(*   len   - the length of its content in bytes;                           *)
(*   val   - the number, address, point or data it stands for.             *)
(* The hash of a transaction is the raw transaction itself; the hash that  *)
(* is signed is the sequence of items it covers.                           *)
(***************************************************************************)
EXTENDS Integers, Sequences, SequencesExt, FiniteSets

CONSTANTS
  Signer,    \* holders of a key; their addresses
  Stranger,  \* the address a signature of something else recovers to
  Bad,       \* the error of either reader
  ChainId,   \* ENGINE_CHAIN_ID
  Chains,    \* chains transactions are signed for
  Nonces,    \* nonces transactions are signed with
  Widths     \* lengths of content beyond a limit of some reader

ASSUME CodecAssumption ==
  /\ Stranger \notin Signer /\ Bad \notin Int \cup Signer \cup {Stranger}
  /\ ChainId \in Chains /\ Chains \subseteq Nat \ {0} /\ Nonces \subseteq Nat
  /\ Widths \subseteq Nat /\ \A w \in Widths : w > 8

-----------------------------------------------------------------------------
(* Cryptography *)

\* A point r of a signature is known by its maker, the hash it was made over
\* and the parity of its y; a half s is low, high, zero or not below the group
\* order.  The pairs (low s, y) and (high s, 1 - y) recover the same key.
NoPoint == [by |-> Stranger, over |-> <<>>, odd |-> 0, size |-> "zero"]
HugePoint == [NoPoint EXCEPT !.size = "huge"]

\* secp256k1 of the proxy and recover_public_key of the chain.  Parities 2 and 3
\* stand for points with x >= n, which no signature hits in practice.
RecoverKey(hash, r, s, odd) ==
  IF r.size # "point" \/ s \in {"zero", "huge"} \/ odd \notin {0, 1} THEN Bad
  ELSE IF r.over = hash /\ (odd = r.odd <=> s = "low") THEN r.by
  ELSE Stranger

-----------------------------------------------------------------------------
(* The proxy: eth_tx.rs *)

\* rlp_decode_bytes, decode_u64, decode_u256_be, decode_address.
DecodeScalar(item, width) == IF item.list \/ item.len > width THEN Bad ELSE item.val
DecodeBytes(item) == IF item.list THEN Bad ELSE item.val
DecodeAddress(item) == IF item.list \/ item.len \notin {0, 20} THEN Bad ELSE item.val

\* Mutant: the last item is taken for missing.
HasItemsBut(raw, n) == raw.fit # "cut" /\ Len(raw.items) > n

\* RlpReader::from_list and item: the list must not be cut short, what follows
\* it is not looked at, and items beyond the ones asked for are ignored.
HasItems(raw, n) == raw.fit # "cut" /\ Len(raw.items) >= n

\* Of the fields the ones the proxy and the engine act on.
Decoded(a, c, n) == [from |-> a, chain |-> c, nonce |-> n]

\* The parity and the chain a legacy v stands for; NoChain before EIP-155.
NoChain == 0
VParity(v) == IF v \in {27, 28} THEN v - 27 ELSE (v - 35) % 2
VChain(v) == IF v \in {27, 28} THEN NoChain ELSE (v - 35) \div 2

\* What build_legacy_eip155_signing_hash, build_legacy_pre155_signing_hash and
\* decode_eip1559 hash: item bytes as they came, with a chain id re-encoded.
LegacyHash(items, chain) == <<"legacy", SubSeq(items, 1, 6), chain>>
DynamicHash(items) == <<"dynamic", SubSeq(items, 1, 9), NoChain>>

DecodeLegacy(raw) ==
  LET it == raw.items
      v == DecodeScalar(it[7], 8)
      from == RecoverKey(LegacyHash(it, VChain(v)), it[8].val, it[9].val, VParity(v))
  IN IF \/ ~HasItems(raw, 9)
        \/ \E i \in {1, 3, 7} : DecodeScalar(it[i], 8) = Bad
        \/ \E i \in {2, 5, 8, 9} : it[i].list \/ it[i].len > 32
        \/ DecodeAddress(it[4]) = Bad \/ DecodeBytes(it[6]) = Bad
        \/ v \notin {27, 28} /\ v < 35
        \/ from = Bad
     THEN Bad ELSE Decoded(from, VChain(v), it[1].val)

\* The parity is decoded as u64 and cut to its low byte; the priority fee may
\* have any width and the access list is not read.
DecodeDynamic(raw) ==
  LET it == raw.items
      from == RecoverKey(DynamicHash(it), it[11].val, it[12].val, it[10].val % 256)
  IN IF \/ ~HasItems(raw, 12)
        \/ \E i \in {1, 2, 5, 10} : DecodeScalar(it[i], 8) = Bad
        \/ \E i \in {4, 7, 11, 12} : it[i].list \/ it[i].len > 32
        \/ DecodeAddress(it[6]) = Bad
        \/ \E i \in {3, 8} : DecodeBytes(it[i]) = Bad
        \/ from = Bad
     THEN Bad ELSE Decoded(from, it[1].val, it[2].val)

\* decode_and_recover.
Decode(raw) ==
  CASE raw.type = "legacy"  -> DecodeLegacy(raw)
    [] raw.type = "dynamic" -> DecodeDynamic(raw)
    [] OTHER -> Bad

-----------------------------------------------------------------------------
(* The engine: tx.rs *)

\* decode_bytes, check_canonical, decode_u64, decode_u128, decode_u256.
Parses(item, width) == ~item.list /\ ~item.loose /\ ~item.zeros /\ item.len <= width

\* decode_bytes, decode_to.
ParsesBytes(item) == ~item.list /\ ~item.loose
ParsesTo(item) == ParsesBytes(item) /\ item.len \in {0, 20}

\* Header::decode_raw, TrailingBytes and WrongFieldCount: exactly n items.
IsListOf(raw, n) ==
  /\ raw.fit = "exact" /\ ~raw.loose /\ Len(raw.items) = n
  /\ \A i \in 1..n : ~raw.items[i].loose

\* Mutant: no low-s rule.
ValidSignatureAnyS(r, s, odd) == r.size = "point" /\ s \in {"low", "high"} /\ odd \in {0, 1}

\* validate_signature.
ValidSignature(r, s, odd) == r.size = "point" /\ s = "low" /\ odd \in {0, 1}

\* parse_legacy: transactions from before EIP-155 are refused.
ParseLegacy(raw) ==
  LET it == raw.items
      v == it[7].val
      from == RecoverKey(LegacyHash(it, VChain(v)), it[8].val, it[9].val, VParity(v))
  IN IF \/ ~IsListOf(raw, 9)
        \/ \E i \in {1, 3, 7} : ~Parses(it[i], 8)
        \/ ~Parses(it[2], 16) \/ \E i \in {5, 8, 9} : ~Parses(it[i], 32)
        \/ ~ParsesTo(it[4]) \/ ~ParsesBytes(it[6])
        \/ v \in {27, 28} \/ v < 35
        \/ ~ValidSignature(it[8].val, it[9].val, VParity(v))
        \/ from = Bad
     THEN Bad ELSE Decoded(from, VChain(v), it[1].val)

\* parse_eip1559: the fees are ordered and the access list is empty.
ParseDynamic(raw) ==
  LET it == raw.items
      from == RecoverKey(DynamicHash(it), it[11].val, it[12].val, it[10].val)
  IN IF \/ ~IsListOf(raw, 12)
        \/ \E i \in {1, 2, 5, 10} : ~Parses(it[i], 8)
        \/ \E i \in {3, 4} : ~Parses(it[i], 16)
        \/ it[3].val > it[4].val
        \/ \E i \in {7, 11, 12} : ~Parses(it[i], 32)
        \/ ~ParsesTo(it[6]) \/ ~ParsesBytes(it[8])
        \/ ~it[9].list \/ it[9].len # 0
        \/ it[10].val > 1
        \/ ~ValidSignature(it[11].val, it[12].val, it[10].val)
        \/ from = Bad
     THEN Bad ELSE Decoded(from, it[1].val, it[2].val)

\* parse_raw_tx.
Parse(raw) ==
  CASE raw.type = "legacy"  -> ParseLegacy(raw)
    [] raw.type = "dynamic" -> ParseDynamic(raw)
    [] OTHER -> Bad

-----------------------------------------------------------------------------
(* What reaches the readers: a client's transaction, standard or not, and   *)
(* whatever becomes of its bytes on the way.                                *)

Item(len, val) == [list |-> FALSE, loose |-> FALSE, zeros |-> FALSE, len |-> len, val |-> val]
Number(n) == Item(IF n = 0 THEN 0 ELSE 1, n)
EmptyList == [Item(0, 0) EXCEPT !.list = TRUE]

\* The items a signature covers: a transfer with nonce n and price 1.
Body(type, chain, n) ==
  LET rest == <<Number(1), Item(20, 0), Number(0), Item(0, 0)>>   \* gas limit, to, value, data
  IN IF type = "legacy" THEN <<Number(n), Number(1)>> \o rest
     ELSE <<Number(chain), Number(n), Number(1), Number(1)>> \o rest \o <<EmptyList>>

Point(by, hash, odd) == [by |-> by, over |-> hash, odd |-> odd, size |-> "point"]

\* by signs the items for chain; NoChain gives a transaction from before EIP-155.
Signed(by, type, items, chain, odd) ==
  LET hash == IF type = "legacy" THEN LegacyHash(items, chain) ELSE DynamicHash(items)
      y == IF type = "dynamic" THEN Number(odd)
           ELSE Number(IF chain = NoChain THEN 27 + odd ELSE 35 + 2 * chain + odd)
  IN [type |-> type, fit |-> "exact", loose |-> FALSE,
      items |-> items \o <<y, Item(32, Point(by, hash, odd)), Item(32, "low")>>]

\* Other bytes for one item: a longer header, a leading zero, a list for a
\* string, or longer content, which stands for another number.
Respelled(item) ==
  {[item EXCEPT !.loose = TRUE], [item EXCEPT !.zeros = TRUE, !.len = @ + 1],
   [item EXCEPT !.list = ~@]} \cup {[item EXCEPT !.len = w, !.val = IF item.len < 20 THEN w ELSE @] : w \in {v \in Widths : v > item.len}}

RespelledItems(items) ==
  UNION {{[items EXCEPT ![i] = e] : e \in Respelled(items[i])} : i \in DOMAIN items}

\* The other signature (r, n - s) of the same key, and signatures that are none.
Twin(raw) ==
  LET n == Len(raw.items)
      flip(v) == IF raw.type = "dynamic" THEN 1 - v
                 ELSE IF VParity(v) = 0 THEN v + 1 ELSE v - 1
  IN [raw EXCEPT !.items[n - 2].val = flip(@), !.items[n].val = "high"]

Resigned(raw) ==
  LET n == Len(raw.items)
  IN {[raw EXCEPT !.items[n - 2].val = v] : v \in {2, 26, 27, 256}}
     \cup {[raw EXCEPT !.items[n - 1].val = r] : r \in {NoPoint, HugePoint}}
     \cup {[raw EXCEPT !.items[n].val = s] : s \in {"zero", "high", "huge"}}
     \cup {Twin(raw)}

\* Other bytes around the items.
Rewrapped(raw) ==
  {[raw EXCEPT !.fit = f] : f \in {"trailing", "cut"}}
  \cup {[raw EXCEPT !.loose = TRUE], [raw EXCEPT !.type = "typed"],
        [raw EXCEPT !.items = Append(@, Item(32, "huge"))], [raw EXCEPT !.items = Front(@)]}

\* Bodies: standard, respelled in one item, with a priority fee above the fee,
\* or with an access list.
Bodies(type, chain, n) ==
  LET b == Body(type, chain, n)
  IN {b} \cup RespelledItems(b)
     \cup IF type = "legacy" THEN {}
          ELSE {[b EXCEPT ![3] = Number(2)], [b EXCEPT ![9].len = 1]}

\* What one change makes of a raw transaction.
Changed(raw) ==
  {[raw EXCEPT !.items = items] : items \in RespelledItems(raw.items)}
  \cup Rewrapped(raw)
  \cup IF Len(raw.items) = (IF raw.type = "legacy" THEN 9 ELSE 12) THEN Resigned(raw) ELSE {}

\* Every transaction a signer makes, and the ones with a standard body.
SignedBy(by, type, chain, n) ==
  {Signed(by, type, body, chain, odd) : body \in Bodies(type, chain, n), odd \in {0, 1}}

Transactions ==
  UNION {SignedBy(by, type, chain, n) : by \in Signer, type \in {"legacy", "dynamic"},
                                        chain \in Chains \cup {NoChain}, n \in Nonces}

StandardOnes ==
  {Signed(by, type, Body(type, ChainId, n), ChainId, odd) :
     by \in Signer, type \in {"legacy", "dynamic"}, n \in {0} \cap Nonces, odd \in {0, 1}}

\* A form of a transaction as the two readers see it, with its signer and
\* whether it is what the signer made.
Reading(t, raw) ==
  [by |-> t.items[Len(t.items) - 1].val.by, own |-> raw = t,
   proxy |-> Decode(raw), engine |-> Parse(raw)]

\* The forms of every transaction after one change, of standard ones after two.
Readings ==
  UNION ({{Reading(t, raw) : raw \in {t} \cup Changed(t)} : t \in Transactions}
         \cup UNION {{{Reading(t, raw) : raw \in Changed(r)} : r \in Changed(t)} : t \in StandardOnes})
==============================================================================
