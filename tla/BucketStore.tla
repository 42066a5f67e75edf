---------------------------- MODULE BucketStore ----------------------------
(***************************************************************************)
(* A level as it is stored and sent: buckets become bytes, are padded and  *)
(* encrypted, stored by number, sent one behind the other, and cut apart   *)
(* again by their length.  Nothing in a reply says where a bucket begins   *)
(* or which one it is.                                                     *)
(*                                                                         *)
(* A byte of a bucket is <<node, i>>, the i-th byte of a node, or Zero.  A *)
(* byte of ciphertext is <<iv, place, byte>>: it is read back only at its  *)
(* own place under its own iv.  A level has one key, which is left out.    *)
(***************************************************************************)
EXTENDS Integers, FiniteSets, OramGeometry, SequencesExt

CONSTANTS Names,        \* the nodes, compared for equality only
          Z,            \* nodes in a bucket
          NodeSizes,    \* sizes of a node
          CipherBlock,  \* bytes of a cipher block, and of an iv; 16
          Batch,        \* 10000
          Depths,
          Ivs,          \* the random ivs
          MaxWrites     \* bound on the buckets rewritten

\* With Batch a multiple of 4, as 10000 is, 2 ^ (depth + 1) - 2, the number of the
\* last bucket, is no multiple of Batch.
ASSUME BucketStoreAssumption ==
  /\ Z \in Nat \ {0} /\ NodeSizes \subseteq Nat \ {0} /\ CipherBlock \in Nat \ {0}
  /\ Depths \subseteq Nat \ {0} /\ Batch \in Nat \ {0} /\ Batch % 4 = 0
  /\ Ivs # {} /\ MaxWrites \in Nat

VARIABLES size, depth,  \* of this level
          phase,        \* "prepare", "ready", "receive"; "thrown"
          batch,        \* numbers collected by the constructor of ORAM
          next,         \* its loop variable
          coll,         \* the collection: number -> ciphertext
          asked,        \* the buckets of the reply, in order
          reply,
          i,            \* the client's loop variable
          received,     \* nodes it has put in the cache
          contents,     \* number -> nodes, as written last, for the properties
          writes

level == <<size, depth>>
vars  == <<level, phase, batch, next, coll, asked, reply, i, received, contents, writes>>

Zero    == <<>>
Numbers == 0 .. BucketCount(depth) - 1
Leaves  == 0 .. Pow2[depth] - 1

-----------------------------------------------------------------------------
\* Mistake: no block is added to a text that fills its last one.
CiphertextLengthRounded(plen) == ((plen + CipherBlock - 1) \div CipherBlock) * CipherBlock

\* AES::GetCiphertextLength
CiphertextLength(plen) == (plen \div CipherBlock + 1) * CipherBlock

Clen == CiphertextLength(size * Z)

\* convertNodeToBlock and SerialiseBucket: empty slots are zeroes.
Serialised(nodes) ==
  [x \in 1 .. size * Z |->
     LET slot == (x - 1) \div size + 1
     IN  IF slot \in DOMAIN nodes THEN <<nodes[slot], ((x - 1) % size) + 1>> ELSE Zero]

\* The cipher pads a text with 1 to CipherBlock bytes that say how many.
Padded(text) ==
  LET gap == CipherBlock - (Len(text) % CipherBlock)
  IN  text \o [x \in 1 .. gap |-> <<"pad", gap>>]

\* AES::Encrypt: into a buffer of Clen bytes, the iv behind it.
Encrypt(text, iv) ==
  [x \in 1 .. Clen |-> <<iv, x, IF x \in DOMAIN Padded(text) THEN Padded(text)[x] ELSE Zero>>]
    \o [x \in 1 .. CipherBlock |-> <<iv, -x>>]

\* What was not encrypted at its place under this iv gives a failure, here an
\* empty text.
Deciphered(cipher, iv) ==
  LET text == [x \in 1 .. Clen |-> cipher[x][3]]
      Own  == \A x \in 1 .. Clen : Len(cipher[x]) = 3 /\ cipher[x][1] = iv /\ cipher[x][2] = x
  IN  IF Own /\ text[Clen] # Zero /\ text[Clen][1] = "pad"
      THEN SubSeq(text, 1, Clen - text[Clen][2]) ELSE <<>>

\* AES::Decrypt: Clen bytes under the iv in the last bytes.
Decrypt(cipher) ==
  LET IvByte(x) == cipher[Len(cipher) - CipherBlock + x]
      iv        == IvByte(1)[1]
  IN  IF \A x \in 1 .. CipherBlock : IvByte(x) = <<iv, -x>> THEN Deciphered(cipher, iv) ELSE <<>>

\* A bucket cut into nodes; a name of 0 is an empty slot.  What is read behind
\* the end of a text is undefined.
Deserialised(text) ==
  LET Slot(z)  == SubSeq(text, (z - 1) * size + 1, z * size)
      Whole(s) == \E m \in Names : s = [x \in 1 .. size |-> <<m, x>>]
      Node(s)  == IF s[1] = Zero THEN <<>>
                  ELSE IF Whole(s) THEN <<s[1][1]>> ELSE <<"garbage">>
  IN  IF Len(text) < size * Z THEN <<"garbage">>
      ELSE FlattenSeq([z \in 1 .. Z |-> Node(Slot(z))])

-----------------------------------------------------------------------------
Init ==
  /\ size \in NodeSizes /\ depth \in Depths
  /\ phase = "prepare" /\ batch = <<>> /\ next = 0
  /\ coll = [b \in {} |-> <<>>]
  /\ asked = <<>> /\ reply = <<>> /\ i = 0 /\ received = <<>>
  /\ contents = [b \in {} |-> <<>>] /\ writes = 0

\* Connector::Bulk_Insert
BulkInsert(data, numbers, iv) ==
  [b \in DOMAIN data \cup ToSet(numbers) |->
     IF b \in DOMAIN data THEN data[b] ELSE Encrypt(Serialised(<<>>), iv)]

\* One turn of the loop in ORAM::ORAM: a batch of one, then full ones.  One
\* bucket is encrypted and stored under all numbers.
PrepareBucket ==
  /\ phase = "prepare" /\ next < BucketCount(depth)
  /\ IF next % Batch = 0
     THEN coll' = BulkInsert(coll, Append(batch, next), CHOOSE iv \in Ivs : TRUE) /\ batch' = <<>>
     ELSE coll' = coll /\ batch' = Append(batch, next)
  /\ next' = next + 1
  /\ UNCHANGED <<level, phase, asked, reply, i, received, contents, writes>>

\* Mistake: what the loop has left over is not stored.
LastBatchForgotten(data) == data

LastBatch(data) == BulkInsert(data, batch, CHOOSE iv \in Ivs : TRUE)

\* The rest, behind the loop.  A bulk write of nothing throws.
PrepareRest ==
  /\ phase = "prepare" /\ next = BucketCount(depth)
  /\ coll' = LastBatch(coll)
  /\ phase' = IF batch = <<>> THEN "thrown" ELSE "ready"
  /\ batch' = <<>>
  /\ contents' = [b \in Numbers |-> <<>>]
  /\ UNCHANGED <<level, next, asked, reply, i, received, writes>>

\* ORAM::WriteBucket of a bucket that WriteleafPath has filled.
WriteBucket(b, nodes, iv) ==
  /\ phase = "ready" /\ writes < MaxWrites
  /\ coll' = [coll EXCEPT ![b] = Encrypt(Serialised(nodes), iv)]
  /\ contents' = [contents EXCEPT ![b] = nodes]
  /\ writes' = writes + 1
  /\ UNCHANGED <<level, phase, batch, next, asked, reply, i, received>>

\* The loop of ORAM::FetchPath, which passes over what was handed out before.
OnPathAndNew(leaf, handedOut) ==
  LET above[k \in 0 .. depth + 1] ==
        IF k = 0 THEN <<>>
        ELSE IF NodeOnPath(depth, leaf, k - 1) \in handedOut THEN above[k - 1]
        ELSE Append(above[k - 1], NodeOnPath(depth, leaf, k - 1))
  IN  above[depth + 1]

FetchPath(leaf, handedOut) ==
  /\ phase = "ready"
  /\ asked' = OnPathAndNew(leaf, handedOut)
  /\ reply' = FlattenSeq([x \in DOMAIN asked' |-> coll[asked'[x]]])
  /\ i' = 0 /\ received' = <<>>
  /\ phase' = "receive"
  /\ UNCHANGED <<level, batch, next, coll, contents, writes>>

\* One turn of the loop in client::FetchleafPath.
Chunk == Clen + CipherBlock

ReceiveBucket ==
  /\ phase = "receive" /\ i * Chunk < Len(reply)
  /\ received' = received \o Deserialised(Decrypt(SubSeq(reply, i * Chunk + 1, (i + 1) * Chunk)))
  /\ i' = i + 1
  /\ UNCHANGED <<level, phase, batch, next, coll, asked, reply, contents, writes>>

ReceivedAll ==
  /\ phase = "receive" /\ i * Chunk >= Len(reply)
  /\ phase' = "ready"
  /\ asked' = <<>> /\ reply' = <<>> /\ i' = 0 /\ received' = <<>>
  /\ UNCHANGED <<level, batch, next, coll, contents, writes>>

Buckets == UNION {{s \in [1 .. n -> Names] : IsInjective(s)} : n \in 0 .. Z}

Next ==
  \/ PrepareBucket \/ PrepareRest
  \/ \E b \in Numbers, nodes \in Buckets, iv \in Ivs : WriteBucket(b, nodes, iv)
  \/ \E leaf \in Leaves, before \in SUBSET Leaves :
       Cardinality(before) <= 1 /\ FetchPath(leaf, UNION {PathOf(depth, x) : x \in before})
  \/ ReceiveBucket \/ ReceivedAll

Spec == Init /\ [][Next]_vars

-----------------------------------------------------------------------------
\* The constructor leaves every bucket of the tree in the collection, in
\* batches of which the last is never empty: Query, which does not ask whether
\* it has found something, always does.
EveryBucketPrepared ==
  phase # "prepare" => phase # "thrown" /\ DOMAIN coll = Numbers

\* The client takes from a reply exactly the nodes last written to the buckets
\* of the path that it did not have yet, whatever the size of a node is and
\* however many of the buckets are new or were never written.
ReceivesWhatIsStored ==
  phase = "receive" /\ i * Chunk >= Len(reply) =>
    received = FlattenSeq([x \in DOMAIN asked |-> contents[asked[x]]])
=============================================================================
