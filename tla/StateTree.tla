----------------------------- MODULE StateTree -----------------------------
(***************************************************************************)
(* The state root of a batch (state/spt.go): the accounts as leaves of a   *)
(* tree that branches on every byte of the address.  The hash of a leaf is *)
(* the encoded account itself, of whatever length, and an inner node is    *)
(* hashed over the hashes of its children, 32 zero bytes for each child    *)
(* there is not.                                                           *)
(*                                                                         *)
(* Keccak is injective: a digest is the record of what was hashed.         *)
(***************************************************************************)
EXTENDS Naturals, Sequences, SequencesExt

CONSTANTS
  Radix,     \* children of a node; 256 in the code
  KeyLen,    \* bytes of an address; 20 in the code
  ZeroLen,   \* length of the placeholder of a missing child; 32 in the code
  KeyOf(_)   \* accountToKey: the bytes of an address

Byte(n)   == [byte |-> n]
Digest(s) == <<[digest |-> s]>>       \* one symbol for the 32 bytes of a hash
Zeros     == [i \in 1..ZeroLen |-> Byte(0)]

(***************************************************************************)
(* RLP: the big-endian bytes of a number, none for 0, are a string, and a  *)
(* string or list follows a header that tells its length.  A number below  *)
(* 128 other than 0 is its own byte.                                       *)
(***************************************************************************)
BigEndian[n \in Nat] ==
  IF n = 0 THEN <<>> ELSE Append(BigEndian[n \div 256], Byte(n % 256))

\* The offset is 128 for a string and 192 for a list.
Header(offset, n) ==
  IF n < 56 THEN <<Byte(offset + n)>>
            ELSE <<Byte(offset + 55 + Len(BigEndian[n]))>> \o BigEndian[n]

EncodeInt(n) ==
  IF n \in 1..127 THEN <<Byte(n)>>
                  ELSE Header(128, Len(BigEndian[n])) \o BigEndian[n]

EncodeList(s) == Header(192, Len(s)) \o s

(***************************************************************************)
(* accountToValue: balance, nonce, code and the list of storage entries.   *)
(* The entries come in the order of a Go map, which differs from one       *)
(* computation to the next.                                                *)
(***************************************************************************)
EncodeStorage(entries) ==
  EncodeList(FlattenSeq([i \in DOMAIN entries |->
               EncodeList(EncodeInt(entries[i]) \o EncodeInt(entries[i]))]))

EncodeCode(code) == EncodeInt(IF code THEN 1 ELSE 0)

\* Mutant: the nonce is left out of the encoded struct.
AccountToValueNoNonce(account, entries) ==
  EncodeList(EncodeInt(account.balance) \o EncodeCode(account.code)
               \o EncodeStorage(entries))

AccountToValue(account, entries) ==
  EncodeList(EncodeInt(account.balance) \o EncodeInt(account.nonce)
               \o EncodeCode(account.code) \o EncodeStorage(entries))

(***************************************************************************)
(* CalculateStateHashSPT, for the values of the accounts: a node of the    *)
(* tree is a prefix of the keys inserted.  Every insertion hashes the tree *)
(* anew from its leaves, so the root is a function of the values only.     *)
(***************************************************************************)
Nodes == UNION {[1..n -> 0..Radix - 1] : n \in 0..KeyLen}

\* The accounts below a node.
Below(values, p) ==
  {a \in DOMAIN values : \A i \in DOMAIN p : KeyOf(a)[i] = p[i]}

\* An inner node takes 32 zero bytes for a child it does not have.
HashOf(values, Hash, p) ==
  LET children == {KeyOf(a)[Len(p) + 1] : a \in Below(values, p)}
  IN IF Len(p) = KeyLen
     THEN values[CHOOSE a \in Below(values, p) : TRUE]
     ELSE Digest(FlattenSeq([i \in 1..Radix |->
            IF i - 1 \in children THEN Hash[Append(p, i - 1)] ELSE Zeros]))

StateRoot(values) ==
  LET Hash[p \in Nodes] == HashOf(values, Hash, p)
  IN IF DOMAIN values = {} THEN <<>> ELSE Hash[<<>>]

\* The roots that can come out for the same accounts.
StateRoots(accounts) ==
  LET orders(a) == SetToSeqs(accounts[a].storage)
      picks == {pick \in [DOMAIN accounts ->
                            UNION {orders(a) : a \in DOMAIN accounts}] :
                  \A a \in DOMAIN accounts : pick[a] \in orders(a)}
  IN {StateRoot([a \in DOMAIN accounts |->
                   AccountToValue(accounts[a], pick[a])]) : pick \in picks}

=============================================================================
