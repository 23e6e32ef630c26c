--------------------------- MODULE FFWsConnProofs ---------------------------
(***************************************************************************)
(* For any payload, buffer, header sizes and number of frames, and however *)
(* the bytes arrive: what the client of FFWsConn hands up.                 *)
(***************************************************************************)
EXTENDS FFWsConn, TLAPS

USE WsConnAssumption

----------------------------------------------------------------------------
(* Frames and lines of them *)

Answers == {"101", "refused"}

LEMMA SizeIs ==
  ASSUME NEW f \in Frames
  PROVE  Size(f) \in Nat \ {0} /\ (f.op \notin Answers => Size(f) <= Buf)
  <1>1. f.len \in 0..MaxPayload BY DEF Frames
  <1>2. Header[f.len] \in Nat \ {0} /\ Header[f.len] <= Room BY <1>1
  <1> QED BY <1>1, <1>2 DEF Size, Buf, Answers

LEMMA BufIs == Buf \in Nat \ {0}
  <1>1. 0 \in 0..MaxPayload OBVIOUS
  <1>2. Header[0] \in Nat \ {0} /\ Header[0] <= Room BY <1>1
  <1> QED BY <1>2 DEF Buf

LEMMA AppendIs ==
  ASSUME NEW S, NEW q \in Seq(S), NEW m \in S
  PROVE  /\ Append(q, m) \in Seq(S) /\ Len(Append(q, m)) = Len(q) + 1 /\ Len(q) \in Nat
         /\ \A i \in 1..Len(q) : Append(q, m)[i] = q[i]
         /\ Append(q, m)[Len(q) + 1] = m
         /\ Append(q, m) # <<>>
         /\ q # <<>> => Head(Append(q, m)) = Head(q)
  OBVIOUS

LEMMA TailIs ==
  ASSUME NEW S, NEW q \in Seq(S), q # <<>>
  PROVE  /\ Tail(q) \in Seq(S) /\ Len(q) \in Nat \ {0} /\ Len(Tail(q)) = Len(q) - 1
         /\ \A i \in 1..Len(q) - 1 : Tail(q)[i] = q[i + 1]
         /\ Head(q) = q[1] /\ q[1] \in S
  OBVIOUS

\* A sequence is a longer one's beginning if it is so element by element.
LEMMA AppendBegins ==
  ASSUME NEW S, NEW q \in Seq(S), NEW m \in S
  PROVE  SubSeq(Append(q, m), 1, Len(q)) = q
  OBVIOUS

----------------------------------------------------------------------------
(* The two threads of the stream, when it grows and when it shrinks *)

\* Bytes sent are bytes in flight.
LEMMA BytesAppend ==
  ASSUME TypeOK, BytesInv,
         NEW f \in Frames, stream' = Append(stream, f),
         flying' = flying + Size(f), rxLen' = rxLen, conn' = conn
  PROVE  BytesInv'
  <1>1. PICK rest \in [0..Len(stream) -> Nat] : Follows(rest) /\ rest[0] = rxLen + flying
    BY DEF BytesInv
  <1>2. PICK n \in Nat : n = Len(stream) BY DEF TypeOK
  <1>3. PICK s \in Nat : s = Size(f) BY SizeIs
  <1>4. /\ Len(stream') = n + 1 /\ stream'[n + 1] = f
        /\ \A i \in 1..n : stream'[i] = stream[i]
    BY <1>2, AppendIs DEF TypeOK
  <1> DEFINE new == [i \in 0..n + 1 |-> IF i <= n THEN rest[i] + s ELSE 0]
  <1>5. \A i \in 0..n : rest[i] \in Nat BY <1>1, <1>2
  <1>6. new \in [0..n + 1 -> Nat] BY <1>3, <1>5
  <1>7. /\ rest[n] = 0 /\ rest[0] = rxLen + flying
        /\ \A i \in 1..n : rest[i - 1] = Size(stream[i]) + rest[i]
    BY <1>1, <1>2 DEF Follows
  <1>8. /\ new[n + 1] = 0 /\ new[n] = s /\ new[0] = rest[0] + s
        /\ \A i \in 0..n : new[i] = rest[i] + s
    BY <1>5, <1>7, <1>3
  <1> HIDE DEF new
  <1>9. ASSUME NEW i \in 1..n + 1 PROVE new[i - 1] = Size(stream'[i]) + new[i]
    <2>1. CASE i = n + 1 BY <2>1, <1>3, <1>4, <1>8
    <2>2. CASE i \in 1..n
      <3>1. Size(stream[i]) \in Nat BY <2>2, <1>2, SizeIs DEF TypeOK
      <3>2. new[i - 1] = rest[i - 1] + s /\ new[i] = rest[i] + s BY <2>2, <1>8
      <3>3. rest[i] \in Nat BY <2>2, <1>5
      <3> QED BY <2>2, <3>1, <3>2, <3>3, <1>4, <1>7, <1>3
    <2>3. i = n + 1 \/ i \in 1..n OBVIOUS
    <2> QED BY <2>1, <2>2, <2>3
  <1>10. Follows(new)' BY <1>4, <1>8, <1>9 DEF Follows
  <1>11. new[0] = rxLen' + flying' BY <1>3, <1>7, <1>8 DEF TypeOK
  <1> QED BY <1>4, <1>6, <1>10, <1>11 DEF BytesInv

\* A drop takes from the buffer what it takes from the stream.
LEMMA BytesDrop ==
  ASSUME TypeOK, BytesInv, Whole, Drop, conn' # "upgrading"
  PROVE  BytesInv'
  <1>1. PICK rest \in [0..Len(stream) -> Nat] : Follows(rest) /\ rest[0] = rxLen + flying
    BY DEF BytesInv
  <1>2. PICK n \in Nat \ {0} : n = Len(stream) BY TailIs DEF TypeOK, Whole
  <1>3. /\ Len(stream') = n - 1 /\ Front = stream[1] /\ Front \in Frames
        /\ \A i \in 1..n - 1 : stream'[i] = stream[i + 1]
    BY <1>2, TailIs DEF TypeOK, Whole, Drop, Front
  <1>4. Size(Front) \in Nat \ {0} BY <1>3, SizeIs
  <1> DEFINE new == [i \in 0..n - 1 |-> rest[i + 1]]
  <1>5. new \in [0..n - 1 -> Nat] BY <1>1, <1>2
  <1>6. /\ rest[n] = 0
        /\ \A i \in 1..n : rest[i - 1] = Size(stream[i]) + rest[i]
    BY <1>1, <1>2 DEF Follows
  <1>7. \A i \in 0..n - 1 : new[i] = rest[i + 1] OBVIOUS
  <1> HIDE DEF new
  <1>8. new[n - 1] = 0 BY <1>6, <1>7
  <1>9. ASSUME NEW i \in 1..n - 1 PROVE new[i - 1] = Size(stream'[i]) + new[i]
    <2>1. i + 1 \in 1..n /\ (i + 1) - 1 = i /\ i \in 0..n - 1 /\ i - 1 \in 0..n - 1
      OBVIOUS
    <2>2. rest[i] = Size(stream[i + 1]) + rest[i + 1] BY <2>1, <1>6
    <2>3. new[i] = rest[i + 1] BY <2>1, <1>7
    <2>4. new[i - 1] = rest[(i - 1) + 1] /\ (i - 1) + 1 = i BY <2>1, <1>7
    <2>5. stream'[i] = stream[i + 1] BY <1>3
    <2> QED BY <2>2, <2>3, <2>4, <2>5
  <1>10. Follows(new)' BY <1>3, <1>8, <1>9 DEF Follows
  <1>11. rest[1] \in Nat /\ rest[0] = Size(stream[1]) + rest[1]
    <2>1. 1 \in 1..n /\ 1 - 1 = 0 /\ 1 \in 0..n OBVIOUS
    <2>2. rest[1 - 1] = Size(stream[1]) + rest[1] BY <2>1, <1>6
    <2> QED BY <2>1, <2>2, <1>1, <1>2
  <1>12. new[0] = rest[1] BY <1>7
  <1>13. new[0] = rxLen' + flying'
    <2>1. rest[0] = Size(Front) + rest[1] BY <1>3, <1>11
    <2>2. rxLen \in Nat /\ flying \in Nat /\ rxLen' = rxLen - Size(Front) /\ flying' = flying
      BY DEF TypeOK, Drop
    <2>3. rest[0] = rxLen + flying BY <1>1
    <2>4. \A a, b, c, d, e \in Nat : a = b + c /\ a = d + e => c = (d - b) + e OBVIOUS
    <2>5. rest[0] \in Nat /\ rest[1] \in Nat BY <1>1, <1>11
    <2>6. rest[1] = (rxLen - Size(Front)) + flying BY <1>4, <2>1, <2>2, <2>3, <2>4, <2>5, SMTT(30)
    <2> QED BY <1>12, <2>2, <2>6
  <1>14. rxLen' <= Buf BY <1>4, BufIs DEF BytesInv, TypeOK, Drop
  <1> QED BY <1>3, <1>5, <1>10, <1>13, <1>14 DEF BytesInv

\* Reading moves bytes from the wire to the buffer.
LEMMA BytesRead ==
  ASSUME TypeOK, BytesInv, stream' = stream,
         NEW r \in Nat, r <= flying, rxLen' = rxLen + r, flying' = flying - r,
         rxLen' <= Buf, conn' = "upgrading" => rxLen' <= ResponseBuf
  PROVE  BytesInv'
  <1>1. PICK rest \in [0..Len(stream) -> Nat] : Follows(rest) /\ rest[0] = rxLen + flying
    BY DEF BytesInv
  <1>2. Follows(rest)' BY <1>1 DEF Follows
  <1>3. rest[0] = rxLen' + flying' BY <1>1 DEF TypeOK
  <1> QED BY <1>1, <1>2, <1>3 DEF BytesInv

\* A reader who may go on past a frame.
Goes(before, f) == ~(f.op = "close" \/ Broken(before, f))
Count(f) == IF Completes(f) THEN 1 ELSE 0
Before == IF inMsg THEN msg ELSE <<>>

\* What Reads says of the i-th frame.
ReadsAt(q, its, d, parts, count, i) ==
  IF ~Goes(parts[i - 1], q[i])
  THEN i = Len(q) /\ d /\ count[i] = count[i - 1]
  ELSE /\ parts[i] = After(parts[i - 1], q[i])
       /\ count[i] = count[i - 1] + Count(q[i])
       /\ Completes(q[i]) => its[count[i]] = Completed(parts[i - 1], q[i])

LEMMA ReadsIs ==
  ASSUME NEW parts, NEW count
  PROVE  Reads(parts, count) <=>
           /\ parts[0] = Before /\ count[0] = Len(handled)
           /\ \A i \in 1..Len(stream) : ReadsAt(stream, items, done, parts, count, i)
           /\ ~done => parts[Len(stream)] = unfinished
           /\ count[Len(stream)] = Len(items)
  BY DEF Reads, ReadsAt, Goes, Count, Before

LEMMA ReadsIsNext ==
  ASSUME NEW parts, NEW count
  PROVE  Reads(parts, count)' <=>
           /\ parts[0] = Before' /\ count[0] = Len(handled')
           /\ \A i \in 1..Len(stream') : ReadsAt(stream', items', done', parts, count, i)
           /\ ~done' => parts[Len(stream')] = unfinished'
           /\ count[Len(stream')] = Len(items')
  BY DEF Reads, ReadsAt, Goes, Count, Before

\* What a frame leaves of a message.
LEMMA AfterIs ==
  ASSUME NEW f \in Frames, NEW before \in Seq(Nat)
  PROVE  After(before, f) \in Seq(Nat) /\ Completed(before, f) \in Items
         /\ Count(f) \in {0, 1} /\ (Count(f) = 1 <=> Completes(f))
  <1>1. f.id \in Nat /\ f.op \in Data \union {"ping", "pong", "close", "unreadable", "101", "refused"}
    BY DEF Frames
  <1>2. Append(before, f.id) \in Seq(Nat) /\ <<f.id>> \in Seq(Nat) BY <1>1
  <1>3. After(before, f) \in Seq(Nat) BY <1>2 DEF After
  <1>4. Item("ping", <<f.id>>) \in Items /\ Item("message", Append(before, f.id)) \in Items
    BY <1>2 DEF Item, Items
  <1>5. Completed(before, f) \in Items BY <1>4 DEF Completed
  <1> QED BY <1>3, <1>5 DEF Count

\* The server's thread and the stream's grow together.
LEMMA ItemsAppend ==
  ASSUME TypeOK, TypesInv, ItemsInv, ~done,
         NEW f \in Frames, stream' = Append(stream, f),
         conn' = conn, UNCHANGED <<inMsg, msg, handled>>,
         IF Goes(unfinished, f)
         THEN /\ unfinished' = After(unfinished, f) /\ done' = done
              /\ items' = IF Completes(f) THEN Append(items, Completed(unfinished, f)) ELSE items
         ELSE done' = TRUE /\ UNCHANGED <<unfinished, items>>
  PROVE  ItemsInv'
  <1> SUFFICES ASSUME conn \in {"upgrading", "open"}
               PROVE  \E parts \in [0..Len(stream') -> Seq(Nat)],
                         count \in [0..Len(stream') -> 0..Len(items')] : Reads(parts, count)'
    BY DEF ItemsInv
  <1>1. PICK parts \in [0..Len(stream) -> Seq(Nat)],
             count \in [0..Len(stream) -> 0..Len(items)] : Reads(parts, count)
    BY DEF ItemsInv
  <1>2. PICK n \in Nat : n = Len(stream) BY DEF TypeOK
  <1>3. PICK k \in Nat : k = Len(items) BY DEF TypesInv
  <1>4. PICK u \in Seq(Nat) : u = unfinished BY DEF TypesInv
  <1>5. /\ Len(stream') = n + 1 /\ stream'[n + 1] = f
        /\ \A i \in 1..n : stream'[i] = stream[i] /\ stream[i] \in Frames
    BY <1>2, AppendIs DEF TypeOK
  <1>6. PICK j \in Nat : j = Len(items') /\ k <= j /\ j <= k + 1
                         /\ (Goes(u, f) => j = k + Count(f)) /\ (~Goes(u, f) => j = k)
                         /\ (Goes(u, f) /\ Completes(f) => items'[j] = Completed(u, f))
                         /\ \A i \in 1..k : items'[i] = items[i]
    <2>1. Completed(u, f) \in Items /\ Count(f) \in {0, 1} /\ (Count(f) = 1 <=> Completes(f))
      BY AfterIs
    <2>2. CASE Goes(u, f) /\ Completes(f)
      <3>1. items' = Append(items, Completed(u, f)) BY <2>2, <1>4
      <3>2. items \in Seq(Items) BY DEF TypesInv
      <3>3. Len(items') = k + 1 /\ items'[k + 1] = Completed(u, f)
            /\ \A i \in 1..k : items'[i] = items[i]
        BY <3>1, <3>2, <2>1, <1>3, AppendIs
      <3> QED BY <3>3, <2>1, <2>2
    <2>3. CASE ~(Goes(u, f) /\ Completes(f))
      <3>1. items' = items BY <2>3, <1>4
      <3>2. Goes(u, f) => Count(f) = 0 BY <2>1, <2>3
      <3> QED BY <3>1, <3>2, <2>3, <1>3
    <2> QED BY <2>2, <2>3
  <1>7. /\ parts[0] = Before /\ count[0] = Len(handled)
        /\ \A i \in 1..n : ReadsAt(stream, items, done, parts, count, i)
        /\ parts[n] = u /\ count[n] = k
    BY <1>1, <1>2, <1>3, <1>4, ReadsIs
  <1> DEFINE P == [i \in 0..n + 1 |-> IF i <= n THEN parts[i] ELSE After(u, f)]
             C == [i \in 0..n + 1 |-> IF i <= n THEN count[i] ELSE j]
  <1>8. \A i \in 0..n : parts[i] \in Seq(Nat) /\ count[i] \in 0..k BY <1>1, <1>2, <1>3
  <1>9. After(u, f) \in Seq(Nat) BY AfterIs
  <1>10. P \in [0..n + 1 -> Seq(Nat)] BY <1>8, <1>9
  <1>11. C \in [0..n + 1 -> 0..j]
    <2>1. j \in 0..j /\ \A c \in 0..k : c \in 0..j BY <1>6
    <2>2. ASSUME NEW i \in 0..n + 1 PROVE (IF i <= n THEN count[i] ELSE j) \in 0..j
      <3>1. i <= n => i \in 0..n OBVIOUS
      <3> QED BY <2>1, <3>1, <1>8
    <2> QED BY <2>2
  <1>12. /\ \A i \in 0..n : P[i] = parts[i] /\ C[i] = count[i]
         /\ P[n + 1] = After(u, f) /\ C[n + 1] = j
    OBVIOUS
  <1> HIDE DEF P, C
  <1>13. ASSUME NEW i \in 1..n PROVE ReadsAt(stream', items', done', P, C, i)
    <2>1. i \in 0..n /\ i - 1 \in 0..n OBVIOUS
    <2>2. P[i] = parts[i] /\ P[i - 1] = parts[i - 1] /\ C[i] = count[i] /\ C[i - 1] = count[i - 1]
      BY <2>1, <1>12
    <2>3. Goes(parts[i - 1], stream[i]) /\ parts[i] = After(parts[i - 1], stream[i])
          /\ count[i] = count[i - 1] + Count(stream[i])
          /\ (Completes(stream[i]) => items[count[i]] = Completed(parts[i - 1], stream[i]))
      BY <1>7 DEF ReadsAt
    <2>4. Completes(stream[i]) => count[i] \in 1..k
      <3>1. count[i] \in 0..k /\ count[i - 1] \in 0..k BY <2>1, <1>8
      <3>2. Completes(stream[i]) => Count(stream[i]) = 1 BY DEF Count
      <3>3. \A a, b \in 0..k : a = b + 1 => a \in 1..k OBVIOUS
      <3> QED BY <2>3, <3>1, <3>2, <3>3
    <2>5. Completes(stream[i]) => items'[count[i]] = items[count[i]] BY <2>4, <1>6
    <2>6. stream'[i] = stream[i] BY <1>5
    <2> QED BY <2>2, <2>3, <2>5, <2>6 DEF ReadsAt
  <1>14. ReadsAt(stream', items', done', P, C, n + 1)
    <2>1. P[n] = u /\ C[n] = k /\ (n + 1) - 1 = n BY <1>7, <1>12
    <2>2. stream'[n + 1] = f /\ Len(stream') = n + 1 BY <1>5
    <2>3. CASE Goes(u, f) BY <2>1, <2>2, <2>3, <1>6, <1>12 DEF ReadsAt
    <2>4. CASE ~Goes(u, f) BY <2>1, <2>2, <2>4, <1>4, <1>6, <1>12 DEF ReadsAt
    <2> QED BY <2>3, <2>4
  <1>15. \A i \in 1..Len(stream') : ReadsAt(stream', items', done', P, C, i)
    <2>1. \A i \in 1..n + 1 : i \in 1..n \/ i = n + 1 OBVIOUS
    <2> QED BY <2>1, <1>5, <1>13, <1>14
  <1>16. P[0] = Before' /\ C[0] = Len(handled')
    BY <1>7, <1>12 DEF Before
  <1>17. ~done' => P[Len(stream')] = unfinished' BY <1>4, <1>5, <1>12
  <1>18. C[Len(stream')] = Len(items') BY <1>5, <1>6, <1>12
  <1>19. Reads(P, C)' BY <1>15, <1>16, <1>17, <1>18, ReadsIsNext
  <1> QED BY <1>5, <1>6, <1>10, <1>11, <1>19

\* The item a whole frame at the front completes is the server's next.
LEMMA NextItem ==
  ASSUME TypeOK, TypesInv, ItemsInv, conn \in {"upgrading", "open"},
         stream # <<>>, Goes(Before, Front), Completes(Front)
  PROVE  Len(handled) < Len(items) /\ items[Len(handled) + 1] = Completed(Before, Front)
  <1>1. PICK parts \in [0..Len(stream) -> Seq(Nat)],
             count \in [0..Len(stream) -> 0..Len(items)] : Reads(parts, count)
    BY DEF ItemsInv
  <1>2. 1 \in 1..Len(stream) /\ 1 - 1 = 0 /\ Front = stream[1] BY TailIs DEF TypeOK, Front
  <1>3. parts[0] = Before /\ count[0] = Len(handled)
        /\ ReadsAt(stream, items, done, parts, count, 1)
    BY <1>1, <1>2, ReadsIs
  <1>4. count[1] = Len(handled) + 1 /\ items[count[1]] = Completed(Before, Front)
    BY <1>2, <1>3 DEF ReadsAt, Count
  <1>5. count[1] \in 0..Len(items) /\ Len(handled) \in Nat /\ Len(items) \in Nat
    <2>1. 1 \in 0..Len(stream) BY <1>2
    <2>2. count[1] \in 0..Len(items) BY <2>1
    <2> QED BY <2>2 DEF TypesInv
  <1> QED BY <1>4, <1>5

\* A reader that takes the front of the stream as the server meant it keeps its place.
LEMMA ItemsDrop ==
  ASSUME TypeOK, TypesInv, ItemsInv, conn \in {"upgrading", "open"},
         stream # <<>>, Goes(Before, Front), stream' = Tail(stream),
         Before' = After(Before, Front), Len(handled') = Len(handled) + Count(Front),
         UNCHANGED <<items, done, unfinished>>
  PROVE  ItemsInv'
  <1>1. PICK parts \in [0..Len(stream) -> Seq(Nat)],
             count \in [0..Len(stream) -> 0..Len(items)] : Reads(parts, count)
    BY DEF ItemsInv
  <1>2. PICK n \in Nat \ {0} : n = Len(stream) BY TailIs DEF TypeOK
  <1>3. /\ Len(stream') = n - 1 /\ Front = stream[1]
        /\ \A i \in 1..n - 1 : stream'[i] = stream[i + 1]
    BY <1>2, TailIs DEF TypeOK, Front
  <1>4. /\ parts[0] = Before /\ count[0] = Len(handled)
        /\ \A i \in 1..n : ReadsAt(stream, items, done, parts, count, i)
        /\ ~done => parts[n] = unfinished
        /\ count[n] = Len(items)
    BY <1>1, <1>2, ReadsIs
  <1>5. parts[1] = After(Before, Front) /\ count[1] = Len(handled) + Count(Front)
    <2>1. 1 \in 1..n /\ 1 - 1 = 0 OBVIOUS
    <2>2. ReadsAt(stream, items, done, parts, count, 1) BY <2>1, <1>4
    <2> QED BY <2>1, <2>2, <1>3, <1>4 DEF ReadsAt
  <1>6. PICK k \in Nat : k = Len(items) BY DEF TypesInv
  <1> DEFINE P == [i \in 0..n - 1 |-> parts[i + 1]]
             C == [i \in 0..n - 1 |-> count[i + 1]]
  <1>7. P \in [0..n - 1 -> Seq(Nat)] /\ C \in [0..n - 1 -> 0..k] BY <1>1, <1>2, <1>6
  <1>8. \A i \in 0..n - 1 : P[i] = parts[i + 1] /\ C[i] = count[i + 1] OBVIOUS
  <1> HIDE DEF P, C
  <1>9. ASSUME NEW i \in 1..n - 1 PROVE ReadsAt(stream', items', done', P, C, i)
    <2>1. i + 1 \in 1..n /\ (i + 1) - 1 = i /\ i \in 0..n - 1 /\ i - 1 \in 0..n - 1
          /\ (i - 1) + 1 = i
      OBVIOUS
    <2>2. P[i] = parts[i + 1] /\ P[i - 1] = parts[i] /\ C[i] = count[i + 1] /\ C[i - 1] = count[i]
      BY <2>1, <1>8
    <2>3. ReadsAt(stream, items, done, parts, count, i + 1) BY <2>1, <1>4
    <2>4. stream'[i] = stream[i + 1] BY <1>3
    <2>5. i + 1 = n => i = Len(stream') BY <1>3
    <2> QED BY <2>1, <2>2, <2>3, <2>4, <2>5, <1>2 DEF ReadsAt
  <1>10. P[0] = Before' /\ C[0] = Len(handled') BY <1>5, <1>8
  <1>11. (~done' => P[Len(stream')] = unfinished') /\ C[Len(stream')] = Len(items')
    <2>1. P[n - 1] = parts[n] /\ C[n - 1] = count[n] BY <1>8
    <2> QED BY <2>1, <1>3, <1>4
  <1>12. Reads(P, C)' BY <1>3, <1>9, <1>10, <1>11, ReadsIsNext
  <1> QED BY <1>3, <1>6, <1>7, <1>12 DEF ItemsInv

\* Nothing it reads has changed.
LEMMA ItemsSame ==
  ASSUME ItemsInv, UNCHANGED <<stream, inMsg, msg, handled, items, done, unfinished>>,
         conn' = conn \/ conn' \in {"ended", "freed"}
  PROVE  ItemsInv'
  <1> SUFFICES ASSUME conn' \in {"upgrading", "open"}
               PROVE  \E parts \in [0..Len(stream') -> Seq(Nat)],
                         count \in [0..Len(stream') -> 0..Len(items')] : Reads(parts, count)'
    BY DEF ItemsInv
  <1>1. PICK parts \in [0..Len(stream) -> Seq(Nat)],
             count \in [0..Len(stream) -> 0..Len(items)] : Reads(parts, count)
    BY DEF ItemsInv
  <1>2. Before' = Before BY DEF Before
  <1>3. Reads(parts, count)' BY <1>1, <1>2, ReadsIs, ReadsIsNext
  <1> QED BY <1>1, <1>3

----------------------------------------------------------------------------
(* The server *)

\* A frame behind the others leaves the front where it is.
LEMMA WholeStays ==
  ASSUME TypeOK, NEW f \in Frames, stream' = Append(stream, f), rxLen' = rxLen
  PROVE  /\ stream # <<>> => stream' # <<>> /\ Front' = Front
         /\ Whole => Whole'
         /\ stream' \in Seq(Frames)
  <1>1. stream' # <<>> /\ stream' \in Seq(Frames) /\ (stream # <<>> => Head(stream') = Head(stream))
    BY AppendIs DEF TypeOK
  <1>2. stream # <<>> => Front' = Front BY <1>1 DEF Front
  <1>3. Whole => Size(Front)' = Size(Front) BY <1>2 DEF Whole, Size
  <1> QED BY <1>1, <1>2, <1>3 DEF Whole

\* Whatever the server sends.
LEMMA SendsKeeps ==
  ASSUME IInv, ~done,
         NEW f \in Frames, f.op \notin Answers, stream' = Append(stream, f),
         flying' = flying + Size(f), frames' \in 0..MaxFrames,
         UNCHANGED <<up, conn, spins, pc, rxLen, closing, closes, handled>>,
         UNCHANGED sendVars, UNCHANGED msgVars,
         IF Goes(unfinished, f)
         THEN /\ unfinished' = After(unfinished, f) /\ done' = done
              /\ items' = IF Completes(f) THEN Append(items, Completed(unfinished, f)) ELSE items
         ELSE done' = TRUE /\ UNCHANGED <<unfinished, items>>
  PROVE  IInv'
  <1>1. TypeOK /\ TypesInv /\ PhaseInv /\ AnswerInv /\ BytesInv /\ ItemsInv BY DEF IInv
  <1>2. Size(f) \in Nat BY SizeIs
  <1>3. TypeOK'
    <2>1. stream' \in Seq(Frames) /\ flying' \in Nat BY <1>1, <1>2, WholeStays DEF TypeOK
    <2>2. done' \in BOOLEAN BY <1>1 DEF TypeOK
    <2>3. (pc = "send" /\ sending = "pong" => Whole /\ Front.op = "ping")' 
      <3>1. pc = "send" /\ sending = "pong" => Whole' /\ Front' = Front
        BY <1>1, WholeStays DEF TypeOK, Whole
      <3> QED BY <1>1, <3>1 DEF TypeOK, sendVars
    <2> QED BY <1>1, <2>1, <2>2, <2>3 DEF TypeOK, sendVars, msgVars
  <1>4. TypesInv'
    <2>1. unfinished \in Seq(Nat) /\ items \in Seq(Items) BY <1>1 DEF TypesInv
    <2>2. After(unfinished, f) \in Seq(Nat) /\ Completed(unfinished, f) \in Items BY <2>1, AfterIs
    <2>3. unfinished' \in Seq(Nat) BY <2>1, <2>2
    <2>4. Append(items, Completed(unfinished, f)) \in Seq(Items) BY <2>1, <2>2, AppendIs
    <2>5. items' \in Seq(Items) BY <2>1, <2>4
    <2> QED BY <1>1, <2>3, <2>5 DEF TypesInv, msgVars
  <1>5. PhaseInv'
    <2>1. Whole => Whole' BY <1>1, WholeStays
    <2>2. stream # <<>> => stream' # <<>> /\ Front' = Front BY <1>1, WholeStays
    <2>3. ~Upgraded => ~Upgraded' BY <2>2 DEF Upgraded
    <2> QED BY <1>1, <2>1, <2>2, <2>3 DEF PhaseInv, sendVars, msgVars
  <1>6. AnswerInv'
    <2>1. /\ Len(stream') = Len(stream) + 1 /\ Len(stream) \in Nat
          /\ \A i \in 1..Len(stream) : stream'[i] = stream[i]
          /\ stream'[Len(stream) + 1] = f
      BY <1>1, AppendIs DEF TypeOK
    <2>2. \A i \in 1..Len(stream') : i \in 1..Len(stream) \/ i = Len(stream) + 1 BY <2>1
    <2>3. \A i \in 1..Len(stream') : stream'[i].op \in Answers => i \in 1..Len(stream)
      BY <2>1, <2>2
    <2> QED BY <1>1, <2>1, <2>3 DEF AnswerInv, Answers
  <1>7. BytesInv' BY <1>1, BytesAppend
  <1>8. ItemsInv' BY <1>1, ItemsAppend DEF msgVars
  <1> QED BY <1>3, <1>4, <1>5, <1>6, <1>7, <1>8 DEF IInv

Sent(op, fin, len) == [op |-> op, fin |-> fin, len |-> len, id |-> frames + 1]

LEMMA SentIs ==
  ASSUME TypeOK, NEW op \in Data \union {"ping", "pong", "close", "unreadable"},
         NEW fin \in BOOLEAN, NEW len \in 0..MaxPayload, ServerSends(op, fin, len)
  PROVE  /\ Sent(op, fin, len) \in Frames /\ Sent(op, fin, len).op = op
         /\ Sent(op, fin, len).fin = fin /\ Sent(op, fin, len).id = frames + 1
         /\ op \notin Answers /\ ~done
         /\ stream' = Append(stream, Sent(op, fin, len))
         /\ flying' = flying + Size(Sent(op, fin, len))
         /\ frames' \in 0..MaxFrames
         /\ UNCHANGED <<up, conn, spins, pc, rxLen, closing, closes, handled>>
         /\ UNCHANGED sendVars /\ UNCHANGED msgVars
  <1>1. frames + 1 \in 0..MaxFrames BY DEF TypeOK, ServerSends
  <1>2. Sent(op, fin, len) \in Frames BY <1>1 DEF Sent, Frames
  <1>3. op \notin Answers BY DEF Answers, Data
  <1> QED BY <1>1, <1>2, <1>3 DEF ServerSends, Sent

LEMMA SendDataKeeps ==
  ASSUME IInv, NEW fin \in BOOLEAN, NEW len \in 0..MaxPayload, SendData(fin, len)
  PROVE  IInv'
  <1> DEFINE op == IF unfinished = <<>> THEN "text" ELSE "cont"
             f == Sent(op, fin, len)
  <1>1. TypeOK /\ op \in Data \union {"ping", "pong", "close", "unreadable"}
        /\ ServerSends(op, fin, len)
    BY DEF IInv, Data, SendData
  <1>2. op \in Data /\ op # "ping" BY DEF Data
  <1>3. op = "cont" => unfinished # <<>> OBVIOUS
  <1>4. op = "text" => unfinished = <<>> OBVIOUS
  <1> HIDE DEF op
  <1>5. f \in Frames /\ f.op = op /\ f.fin = fin /\ f.id = frames + 1 BY <1>1, SentIs
  <1>6. Goes(unfinished, f) BY <1>2, <1>3, <1>4, <1>5 DEF Goes, Broken, Data
  <1>7. Completes(f) <=> fin BY <1>2, <1>5 DEF Completes
  <1>8. Completed(unfinished, f) = Item("message", Append(unfinished, frames + 1))
    BY <1>2, <1>5 DEF Completed
  <1>9. After(unfinished, f) = IF fin THEN <<>> ELSE Append(unfinished, frames + 1)
    BY <1>2, <1>5 DEF After
  <1>10. /\ unfinished' = After(unfinished, f) /\ done' = done
         /\ items' = IF Completes(f) THEN Append(items, Completed(unfinished, f)) ELSE items
    BY <1>7, <1>8, <1>9 DEF SendData
  <1> HIDE DEF f
  <1> QED BY <1>1, <1>5, <1>6, <1>10, SentIs, SendsKeeps DEF f

LEMMA SendPingKeeps == IInv /\ SendPing => IInv'
  <1> SUFFICES ASSUME IInv, SendPing PROVE IInv' OBVIOUS
  <1> DEFINE f == Sent("ping", TRUE, 0)
  <1>1. TypeOK /\ ServerSends("ping", TRUE, 0) /\ 0 \in 0..MaxPayload
    <2>1. 0 \in 0..MaxPayload OBVIOUS
    <2>2. TypeOK BY DEF IInv
    <2>3. ServerSends("ping", TRUE, 0) BY Zenon DEF SendPing
    <2> QED BY <2>1, <2>2, <2>3
  <1>2. f \in Frames /\ f.op = "ping" /\ f.id = frames + 1 BY <1>1, SentIs
  <1> HIDE DEF f
  <1>3. Goes(unfinished, f) /\ Completes(f) BY <1>2 DEF Goes, Broken, Completes
  <1>4. Completed(unfinished, f) = Item("ping", <<frames + 1>>) /\ After(unfinished, f) = unfinished
    BY <1>2 DEF Completed, After, Data
  <1> QED BY <1>1, <1>2, <1>3, <1>4, SentIs, SendsKeeps DEF f, SendPing

LEMMA SendPongKeeps == IInv /\ SendPong => IInv'
  <1> SUFFICES ASSUME IInv, SendPong PROVE IInv' OBVIOUS
  <1> DEFINE f == Sent("pong", TRUE, 0)
  <1>1. TypeOK /\ ServerSends("pong", TRUE, 0) /\ 0 \in 0..MaxPayload
    <2>1. 0 \in 0..MaxPayload OBVIOUS
    <2>2. TypeOK BY DEF IInv
    <2>3. ServerSends("pong", TRUE, 0) BY Zenon DEF SendPong
    <2> QED BY <2>1, <2>2, <2>3
  <1>2. f \in Frames /\ f.op = "pong" BY <1>1, SentIs
  <1> HIDE DEF f
  <1>3. Goes(unfinished, f) /\ ~Completes(f) /\ After(unfinished, f) = unfinished
    BY <1>2 DEF Goes, Broken, Completes, After, Data
  <1> QED BY <1>1, <1>2, <1>3, SentIs, SendsKeeps DEF f, SendPong

LEMMA SendCloseKeeps == IInv /\ SendClose => IInv'
  <1> SUFFICES ASSUME IInv, SendClose PROVE IInv' OBVIOUS
  <1> DEFINE f == Sent("close", TRUE, 0)
  <1>1. TypeOK /\ ServerSends("close", TRUE, 0) /\ 0 \in 0..MaxPayload
    <2>1. 0 \in 0..MaxPayload OBVIOUS
    <2>2. TypeOK BY DEF IInv
    <2>3. ServerSends("close", TRUE, 0) BY Zenon DEF SendClose
    <2> QED BY <2>1, <2>2, <2>3
  <1>2. f \in Frames /\ f.op = "close" BY <1>1, SentIs
  <1> HIDE DEF f
  <1>3. ~Goes(unfinished, f) BY <1>2 DEF Goes
  <1> QED BY <1>1, <1>2, <1>3, SentIs, SendsKeeps DEF f, SendClose

LEMMA SendBrokenKeeps == IInv /\ SendBroken => IInv'
  <1> SUFFICES ASSUME IInv, SendBroken PROVE IInv' OBVIOUS
  <1>1. PICK fin \in BOOLEAN, op \in {"unreadable", "cont", "text"} :
          /\ ServerSends(op, fin, 0)
          /\ op = "cont" => unfinished = <<>>
          /\ op = "text" => unfinished # <<>>
    BY DEF SendBroken
  <1> DEFINE f == Sent(op, fin, 0)
  <1>2. TypeOK /\ 0 \in 0..MaxPayload /\ op \in Data \union {"ping", "pong", "close", "unreadable"}
    BY DEF IInv, Data
  <1>3. f \in Frames /\ f.op = op BY <1>1, <1>2, SentIs
  <1> HIDE DEF f
  <1>4. ~Goes(unfinished, f) BY <1>1, <1>3 DEF Goes, Broken
  <1> QED BY <1>1, <1>2, <1>3, <1>4, SentIs, SendsKeeps DEF f, SendBroken

LEMMA HangUpKeeps == IInv /\ HangUp => IInv'
  <1> SUFFICES ASSUME IInv, HangUp PROVE IInv' OBVIOUS
  <1> USE DEF bufVars, sendVars, msgVars
  <1>1. TypeOK' BY DEF IInv, TypeOK, HangUp, Whole, Front
  <1>2. TypesInv' BY DEF IInv, TypesInv, HangUp
  <1>3. PhaseInv'
    <2>1. Whole' = Whole /\ Front' = Front BY DEF HangUp, Whole, Front
    <2>2. PhaseInv /\ conn # "freed" BY DEF IInv, HangUp
    <2>3. /\ stream' = stream /\ sending' = sending /\ inMsg' = inMsg /\ main' = main
          /\ conn' = conn /\ pc' = pc /\ closing' = closing /\ closes' = closes
          /\ handled' = handled /\ Upgraded' = Upgraded
      BY DEF HangUp, Upgraded, Front
    <2> QED BY <2>1, <2>2, <2>3 DEF PhaseInv
  <1>4. AnswerInv' BY DEF IInv, AnswerInv, HangUp
  <1>5. BytesInv'
    <2>1. rxLen' <= Buf /\ (conn' = "upgrading" => rxLen' <= ResponseBuf)
      BY DEF IInv, BytesInv, HangUp
    <2>2. TypeOK /\ BytesInv BY DEF IInv
    <2>3. stream' = stream /\ rxLen \in Nat /\ flying \in Nat BY DEF IInv, TypeOK, HangUp
    <2>4. 0 \in Nat /\ 0 <= flying /\ rxLen' = rxLen + 0 /\ flying' = flying - 0
      BY <2>3 DEF HangUp
    <2> QED BY <2>1, <2>2, <2>3, <2>4, BytesRead
  <1>6. ItemsInv' BY ItemsSame DEF IInv, HangUp
  <1> QED BY <1>1, <1>2, <1>3, <1>4, <1>5, <1>6 DEF IInv

LEMMA ServerKeeps == IInv /\ Server => IInv'
  BY SendDataKeeps, SendPingKeeps, SendPongKeeps, SendCloseKeeps, SendBrokenKeeps, HangUpKeeps
  DEF Server

----------------------------------------------------------------------------
(* The client *)

\* A step that neither reads nor drops nor hands up.
LEMMA StillKeeps ==
  ASSUME IInv, UNCHANGED bufVars, UNCHANGED serverVars, UNCHANGED msgVars, handled' = handled,
         \/ conn' = conn \/ conn' = "freed"
         \/ conn \in {"open", "ended"} /\ conn' = "ended"
  PROVE  /\ TypesInv' /\ AnswerInv' /\ BytesInv' /\ ItemsInv'
         /\ Whole' = Whole /\ Front' = Front
         /\ stream \in Seq(Frames) /\ flying \in Nat /\ rxLen \in Nat
  <1> USE DEF bufVars, serverVars, msgVars
  <1>1. TypesInv' BY DEF IInv, TypesInv
  <1>2. AnswerInv' BY DEF IInv, AnswerInv
  <1>3. stream \in Seq(Frames) /\ flying \in Nat /\ rxLen \in Nat BY DEF IInv, TypeOK
  <1>4. BytesInv'
    <2>1. rxLen' <= Buf /\ (conn' = "upgrading" => rxLen' <= ResponseBuf) BY DEF IInv, BytesInv
    <2>2. TypeOK /\ BytesInv BY DEF IInv
    <2>3. 0 \in Nat /\ 0 <= flying /\ rxLen' = rxLen + 0 /\ flying' = flying - 0 BY <1>3
    <2> QED BY <2>1, <2>2, <2>3, BytesRead
  <1>5. ItemsInv' BY ItemsSame DEF IInv
  <1>6. Whole' = Whole /\ Front' = Front BY DEF Whole, Front
  <1> QED BY <1>1, <1>2, <1>3, <1>4, <1>5, <1>6

\* A step that takes the whole frame at the front out of the buffer.
LEMMA DropKeeps ==
  ASSUME IInv, Whole, Drop, conn' # "upgrading"
  PROVE  /\ AnswerInv' /\ BytesInv'
         /\ stream' \in Seq(Frames) /\ rxLen' \in Nat /\ flying' \in Nat
         /\ Front \in Frames /\ stream # <<>> /\ stream' = Tail(stream)
  <1>1. TypeOK /\ BytesInv /\ AnswerInv BY DEF IInv
  <1>2. stream # <<>> BY DEF Whole
  <1>3. /\ stream' \in Seq(Frames) /\ Front \in Frames /\ Len(stream) \in Nat \ {0}
        /\ Len(stream') = Len(stream) - 1
        /\ \A i \in 1..Len(stream) - 1 : stream'[i] = stream[i + 1]
    BY <1>1, <1>2, TailIs DEF TypeOK, Drop, Front
  <1>4. Size(Front) \in Nat BY <1>3, SizeIs
  <1>5. rxLen' \in Nat /\ flying' \in Nat BY <1>1, <1>4 DEF TypeOK, Whole, Drop
  <1>6. ASSUME NEW i \in 1..Len(stream') PROVE stream'[i].op \notin Answers
    <2>1. i + 1 \in 1..Len(stream) /\ i + 1 # 1 /\ i \in 1..Len(stream) - 1 BY <1>3
    <2>2. stream[i + 1].op \notin Answers BY <2>1, <1>1 DEF AnswerInv, Answers
    <2> QED BY <2>1, <2>2, <1>3
  <1>7. AnswerInv' BY <1>6 DEF AnswerInv, Answers
  <1>8. BytesInv' BY <1>1, BytesDrop
  <1> QED BY <1>2, <1>3, <1>5, <1>7, <1>8 DEF Drop

LEMMA UpgradeDoneKeeps == IInv /\ UpgradeDone => IInv'
  <1> SUFFICES ASSUME IInv, UpgradeDone PROVE IInv' OBVIOUS
  <1> USE DEF serverVars, sendVars, msgVars
  <1>1. TypeOK /\ TypesInv /\ PhaseInv /\ ItemsInv BY DEF IInv
  <1>2. Whole /\ Drop /\ conn = "upgrading" /\ conn' = "open" /\ Front.op = "101"
    BY DEF UpgradeDone, Upgrading
  <1>3. /\ AnswerInv' /\ BytesInv'
        /\ stream' \in Seq(Frames) /\ rxLen' \in Nat /\ flying' \in Nat
        /\ Front \in Frames /\ stream # <<>> /\ stream' = Tail(stream)
    BY <1>2, DropKeeps
  <1>4. pc = "idle" /\ pc' = "idle" /\ ~inMsg /\ ~closing BY <1>1, <1>2 DEF PhaseInv, UpgradeDone
  <1>5. TypeOK' BY <1>1, <1>3, <1>4 DEF TypeOK, UpgradeDone
  <1>6. TypesInv' BY <1>1 DEF TypesInv, UpgradeDone
  <1>7. PhaseInv' BY <1>1, <1>2, <1>4 DEF PhaseInv, UpgradeDone
  <1>8. /\ Goes(Before, Front) /\ After(Before, Front) = Before /\ Count(Front) = 0
    BY <1>2 DEF Goes, Broken, After, Count, Completes, Data
  <1>9. Before' = After(Before, Front) /\ Len(handled') = Len(handled) + Count(Front)
    BY <1>1, <1>8 DEF Before, UpgradeDone, TypesInv
  <1>10. ItemsInv' BY <1>1, <1>2, <1>3, <1>8, <1>9, ItemsDrop DEF UpgradeDone
  <1> QED BY <1>3, <1>5, <1>6, <1>7, <1>10 DEF IInv

LEMMA UpgradeFailsKeeps == IInv /\ UpgradeFails => IInv'
  <1> SUFFICES ASSUME IInv, UpgradeFails PROVE IInv' OBVIOUS
  <1>1. TypeOK /\ PhaseInv BY DEF IInv
  <1>2. conn' = "freed" /\ conn = "upgrading" BY DEF UpgradeFails
  <1>3. /\ TypesInv' /\ AnswerInv' /\ BytesInv' /\ ItemsInv'
    BY <1>2, StillKeeps DEF UpgradeFails
  <1>4. pc = "idle" /\ pc' = "idle" /\ ~closing /\ handled = <<>>
    BY <1>1, <1>2 DEF PhaseInv, UpgradeFails
  <1>5. TypeOK' BY <1>1, <1>4 DEF TypeOK, UpgradeFails, serverVars, bufVars, sendVars, msgVars
  <1>6. ~Upgraded'
    <2>1. stream # <<>> /\ Front.op \in {"101", "refused"} BY <1>1, <1>2 DEF PhaseInv
    <2>2. stream' = stream BY DEF UpgradeFails, bufVars
    <2> QED BY <2>1, <2>2 DEF Upgraded, Front
  <1>7. PhaseInv' BY <1>1, <1>2, <1>4, <1>6 DEF PhaseInv, UpgradeFails
  <1> QED BY <1>3, <1>5, <1>7 DEF IInv

LEMMA UpgradeReadsKeeps == IInv /\ UpgradeReads => IInv'
  <1> SUFFICES ASSUME IInv, UpgradeReads PROVE IInv' OBVIOUS
  <1> USE DEF serverVars, sendVars, msgVars
  <1>1. TypeOK /\ TypesInv /\ PhaseInv /\ AnswerInv /\ BytesInv /\ ItemsInv BY DEF IInv
  <1>2. PICK r \in 0..flying : /\ rxLen + r <= ResponseBuf /\ rxLen' = rxLen + r
                               /\ flying' = flying - r
    BY DEF UpgradeReads
  <1>3. conn = "upgrading" /\ conn' = conn /\ stream' = stream /\ pc = "idle"
    BY <1>1 DEF UpgradeReads, Upgrading, PhaseInv
  <1>4. r \in Nat /\ r <= flying /\ rxLen' \in Nat /\ flying' \in Nat
    BY <1>1, <1>2 DEF TypeOK
  <1>5. rxLen' <= Buf /\ rxLen' <= ResponseBuf BY <1>2, <1>4 DEF Buf
  <1>6. BytesInv' BY <1>1, <1>2, <1>3, <1>4, <1>5, BytesRead
  <1>7. spins' \in 0..MaxSpins BY <1>1 DEF TypeOK, UpgradeReads, Upgrading
  <1>8. TypeOK' BY <1>1, <1>3, <1>4, <1>7 DEF TypeOK, UpgradeReads
  <1>9. TypesInv' BY <1>1 DEF TypesInv, UpgradeReads
  <1>10. PhaseInv' BY <1>1, <1>3 DEF PhaseInv, UpgradeReads, Front
  <1>11. AnswerInv' BY <1>1, <1>3 DEF AnswerInv
  <1>12. ItemsInv' BY <1>1, <1>3, ItemsSame DEF UpgradeReads
  <1> QED BY <1>6, <1>8, <1>9, <1>10, <1>11, <1>12 DEF IInv

LEMMA PollReadsKeeps == IInv /\ PollReads => IInv'
  <1> SUFFICES ASSUME IInv, PollReads PROVE IInv' OBVIOUS
  <1> USE DEF serverVars, sendVars, msgVars
  <1>1. TypeOK /\ TypesInv /\ PhaseInv /\ AnswerInv /\ BytesInv /\ ItemsInv BY DEF IInv
  <1>2. PICK r \in IF flying = 0 \/ rxLen >= Buf THEN {0} ELSE 1..flying :
               /\ r = 0 \/ rxLen + r <= Buf
               /\ rxLen' = rxLen + r /\ flying' = flying - r
    BY DEF PollReads
  <1>3. conn = "open" /\ conn' = conn /\ stream' = stream /\ pc' = "parse"
    BY DEF PollReads, Open
  <1>4. flying \in Nat /\ rxLen \in Nat BY <1>1 DEF TypeOK
  <1>5. r \in Nat /\ r <= flying /\ rxLen' \in Nat /\ flying' \in Nat
    BY <1>2, <1>4
  <1>6. rxLen' <= Buf BY <1>1, <1>2, <1>4, <1>5, BufIs DEF BytesInv
  <1>7. BytesInv' BY <1>1, <1>2, <1>3, <1>5, <1>6, BytesRead
  <1>8. TypeOK' BY <1>1, <1>3, <1>5 DEF TypeOK, PollReads
  <1>9. TypesInv' BY <1>1 DEF TypesInv, PollReads
  <1>10. PhaseInv' BY <1>1, <1>3 DEF PhaseInv, PollReads
  <1>11. AnswerInv' BY <1>1, <1>3 DEF AnswerInv
  <1>12. ItemsInv' BY <1>1, <1>3, ItemsSame DEF PollReads
  <1> QED BY <1>7, <1>8, <1>9, <1>10, <1>11, <1>12 DEF IInv

\* The call returns, with the connection over or not.
LEMMA ReturnsKeeps == IInv /\ (PollDead \/ Incomplete \/ RefuseFrame) => IInv'
  <1> SUFFICES ASSUME IInv, PollDead \/ Incomplete \/ RefuseFrame PROVE IInv' OBVIOUS
  <1>1. TypeOK /\ PhaseInv BY DEF IInv
  <1>2. /\ conn = "open" /\ conn' \in {"open", "ended"} /\ pc' = "idle"
        /\ UNCHANGED <<spins, closing, closes, handled>>
        /\ UNCHANGED serverVars /\ UNCHANGED bufVars /\ UNCHANGED sendVars /\ UNCHANGED msgVars
    BY DEF PollDead, Incomplete, RefuseFrame, End, Open, Parsing
  <1>3. TypesInv' /\ AnswerInv' /\ BytesInv' /\ ItemsInv' BY <1>2, StillKeeps
  <1>4. TypeOK' BY <1>1, <1>2 DEF TypeOK, serverVars, bufVars, sendVars, msgVars
  <1>5. PhaseInv' BY <1>1, <1>2 DEF PhaseInv
  <1> QED BY <1>3, <1>4, <1>5 DEF IInv

LEMMA ParsePingKeeps == IInv /\ ParsePing => IInv'
  <1> SUFFICES ASSUME IInv, ParsePing PROVE IInv' OBVIOUS
  <1>1. TypeOK /\ PhaseInv BY DEF IInv
  <1>2. /\ conn = "open" /\ conn' = conn /\ pc' = "send" /\ sending' = "pong"
        /\ left' = SendSize /\ idle' = 0 /\ Whole /\ Front.op = "ping"
        /\ UNCHANGED <<spins, closing, closes, handled>>
        /\ UNCHANGED serverVars /\ UNCHANGED bufVars /\ UNCHANGED msgVars
    BY DEF ParsePing, Parsing, Open, StartSend
  <1>3. TypesInv' /\ AnswerInv' /\ BytesInv' /\ ItemsInv' /\ Whole' = Whole /\ Front' = Front
    BY <1>2, StillKeeps
  <1>4. Whole' /\ Front'.op = "ping" BY <1>2, <1>3
  <1>5. TypeOK' BY <1>1, <1>2, <1>4 DEF TypeOK, serverVars, bufVars, msgVars
  <1>6. PhaseInv' BY <1>1, <1>2, <1>4 DEF PhaseInv
  <1> QED BY <1>3, <1>5, <1>6 DEF IInv

LEMMA ParseCloseKeeps == IInv /\ ParseClose => IInv'
  <1> SUFFICES ASSUME IInv, ParseClose PROVE IInv' OBVIOUS
  <1>1. TypeOK /\ TypesInv /\ PhaseInv BY DEF IInv
  <1>2. /\ conn = "open" /\ Whole /\ Front.op = "close"
        /\ UNCHANGED <<spins, handled>> /\ UNCHANGED serverVars /\ UNCHANGED msgVars
    BY DEF ParseClose, Parsing, Open
  <1>3. CASE closing
    <2>1. /\ conn' = "ended" /\ pc' = "idle" /\ Drop
          /\ UNCHANGED <<sending, left, idle, closing, closes>>
      BY <1>3 DEF ParseClose, End
    <2>2. /\ AnswerInv' /\ BytesInv'
          /\ stream' \in Seq(Frames) /\ rxLen' \in Nat /\ flying' \in Nat
      BY <1>2, <2>1, DropKeeps
    <2>3. TypeOK' BY <1>1, <1>2, <2>1, <2>2 DEF TypeOK, serverVars, msgVars
    <2>4. TypesInv' BY <1>1, <1>2 DEF TypesInv, serverVars, msgVars
    <2>5. PhaseInv' BY <1>1, <1>2, <2>1 DEF PhaseInv
    <2>6. ItemsInv' BY <2>1 DEF ItemsInv
    <2> QED BY <2>2, <2>3, <2>4, <2>5, <2>6 DEF IInv
  <1>4. CASE ~closing
    <2>1. /\ conn' = conn /\ pc' = "send" /\ sending' = "echo" /\ left' = SendSize /\ idle' = 0
          /\ closing' = TRUE /\ closes' = closes + 1 /\ UNCHANGED bufVars
      BY <1>4 DEF ParseClose, StartSend, bufVars
    <2>2. TypesInv' /\ AnswerInv' /\ BytesInv' /\ ItemsInv' /\ Whole' = Whole
      BY <1>2, <2>1, StillKeeps
    <2>3. TypeOK' BY <1>1, <1>2, <2>1 DEF TypeOK, serverVars, bufVars, msgVars
    <2>4. PhaseInv' BY <1>1, <1>2, <1>4, <2>1, <2>2 DEF PhaseInv
    <2> QED BY <2>2, <2>3, <2>4 DEF IInv
  <1> QED BY <1>3, <1>4

\* What a data frame the client takes does: as the server meant it.
LEMMA ParseDataIs ==
  ASSUME IInv, ParseData
  PROVE  /\ conn = "open" /\ conn' = "open" /\ Whole /\ Drop
         /\ pc' \in {"idle", "parse"} /\ Front \in Frames /\ stream # <<>>
         /\ Goes(Before, Front) /\ Before' = After(Before, Front)
         /\ handled' = IF Completes(Front) THEN Append(handled, Completed(Before, Front))
                                           ELSE handled
         /\ inMsg' \in BOOLEAN /\ msg' \in Seq(Nat) /\ msg' # <<>> /\ msgLen' \in 0..MaxPayload
         /\ Completed(Before, Front) \in Items
  <1>1. TypeOK /\ TypesInv BY DEF IInv
  <1>2. /\ conn = "open" /\ conn' = "open" /\ Whole /\ Drop /\ pc' \in {"idle", "parse"}
        /\ Front.op \in Data /\ ~Refused
    BY DEF ParseData, Parsing, Open
  <1>3. stream # <<>> /\ Front \in Frames
    BY <1>1, <1>2, TailIs DEF TypeOK, Whole, Front
  <1>4. Front.id \in Nat /\ Front.fin \in BOOLEAN /\ Front.len \in 0..MaxPayload
    BY <1>3 DEF Frames
  <1>5. Front.op = "text" => ~inMsg BY <1>2 DEF Refused
  <1>6. Front.op = "cont" => inMsg /\ ~(msgLen + Front.len > MaxPayload) BY <1>2 DEF Refused
  <1>7. Front.op \in {"text", "cont"} BY <1>2 DEF Data
  <1>8. Before \in Seq(Nat) /\ (Before = <<>> <=> ~inMsg) /\ (inMsg => Before = msg)
    BY <1>1 DEF TypesInv, Before
  <1>9. Goes(Before, Front) BY <1>5, <1>6, <1>7, <1>8 DEF Goes, Broken
  <1> DEFINE parts == Append(Before, Front.id)
  <1>10. parts \in Seq(Nat) /\ parts # <<>> BY <1>4, <1>8
  <1>11. (IF Front.op = "text" THEN <<Front.id>> ELSE Append(msg, Front.id)) = parts
    <2>1. CASE Front.op = "text"
      <3>1. Before = <<>> BY <2>1, <1>5, <1>8
      <3>2. parts = <<Front.id>> BY <3>1, <1>4
      <3> QED BY <2>1, <3>2
    <2>2. CASE Front.op = "cont" BY <2>2, <1>6, <1>8
    <2> QED BY <2>1, <2>2, <1>7
  <1>12. /\ msg' = parts /\ inMsg' = ~Front.fin
         /\ handled' = IF Front.fin THEN Append(handled, Item("message", parts)) ELSE handled
    BY <1>11 DEF ParseData
  <1>13. After(Before, Front) = (IF Front.fin THEN <<>> ELSE parts)
         /\ Completed(Before, Front) = Item("message", parts)
         /\ (Completes(Front) <=> Front.fin)
    BY <1>2, <1>7 DEF After, Completed, Completes
  <1>14. Before' = After(Before, Front)
    <2>1. Before' = IF inMsg' THEN msg' ELSE <<>> BY DEF Before
    <2> QED BY <2>1, <1>4, <1>12, <1>13
  <1>15. Completed(Before, Front) \in Items BY <1>3, <1>8, AfterIs
  <1>16. msgLen' \in 0..MaxPayload
    <2>1. msgLen' = (IF Front.op = "text" THEN 0 ELSE msgLen) + Front.len BY DEF ParseData
    <2>2. msgLen \in 0..MaxPayload BY <1>1 DEF TypeOK
    <2>3. CASE Front.op = "text" BY <2>1, <2>3, <1>4
    <2>4. CASE Front.op = "cont"
      <3>1. msgLen' = msgLen + Front.len BY <2>1, <2>4
      <3>2. ~(msgLen + Front.len > MaxPayload) BY <2>4, <1>6
      <3> QED BY <3>1, <3>2, <2>2, <1>4
    <2> QED BY <2>3, <2>4, <1>7
  <1> HIDE DEF parts
  <1>17. handled' = IF Completes(Front) THEN Append(handled, Completed(Before, Front))
                                        ELSE handled
    BY <1>12, <1>13
  <1>18. msg' \in Seq(Nat) /\ msg' # <<>> /\ inMsg' \in BOOLEAN BY <1>4, <1>10, <1>12
  <1> QED BY <1>2, <1>3, <1>9, <1>14, <1>15, <1>16, <1>17, <1>18

LEMMA ParseDataKeeps == IInv /\ ParseData => IInv'
  <1> SUFFICES ASSUME IInv, ParseData PROVE IInv' OBVIOUS
  <1> USE DEF serverVars, sendVars
  <1>1. TypeOK /\ TypesInv /\ PhaseInv /\ ItemsInv BY DEF IInv
  <1>2. UNCHANGED <<spins, closing, closes, up, frames, unfinished, done, items,
                    sending, left, idle>>
    BY DEF ParseData
  <1>3. /\ conn = "open" /\ conn' = "open" /\ Whole /\ Drop
        /\ pc' \in {"idle", "parse"} /\ Front \in Frames /\ stream # <<>>
        /\ Goes(Before, Front) /\ Before' = After(Before, Front)
        /\ handled' = IF Completes(Front) THEN Append(handled, Completed(Before, Front))
                                          ELSE handled
        /\ inMsg' \in BOOLEAN /\ msg' \in Seq(Nat) /\ msg' # <<>> /\ msgLen' \in 0..MaxPayload
        /\ Completed(Before, Front) \in Items
    BY ParseDataIs
  <1>4. /\ AnswerInv' /\ BytesInv'
        /\ stream' \in Seq(Frames) /\ rxLen' \in Nat /\ flying' \in Nat
        /\ stream' = Tail(stream)
    BY <1>3, DropKeeps
  <1>10. main' \in BOOLEAN BY <1>1 DEF ParseData, TypeOK
  <1>5. TypeOK' BY <1>1, <1>2, <1>3, <1>4, <1>10 DEF TypeOK
  <1>6. handled' \in Seq(Items) /\ Len(handled') = Len(handled) + Count(Front)
    <2>1. handled \in Seq(Items) BY <1>1 DEF TypesInv
    <2>2. CASE Completes(Front)
      BY <2>1, <2>2, <1>3, AppendIs DEF Count
    <2>3. CASE ~Completes(Front)
      BY <2>1, <2>3, <1>3 DEF Count
    <2> QED BY <2>2, <2>3
  <1>7. TypesInv' BY <1>1, <1>2, <1>3, <1>6 DEF TypesInv
  <1>8. PhaseInv' BY <1>1, <1>2, <1>3 DEF PhaseInv
  <1>9. ItemsInv' BY <1>1, <1>2, <1>3, <1>4, <1>6, ItemsDrop
  <1> QED BY <1>4, <1>5, <1>7, <1>8, <1>9 DEF IInv

LEMMA ParsePongKeeps == IInv /\ ParsePong => IInv'
  <1> SUFFICES ASSUME IInv, ParsePong PROVE IInv' OBVIOUS
  <1> USE DEF serverVars, sendVars, msgVars
  <1>1. TypeOK /\ TypesInv /\ PhaseInv /\ ItemsInv BY DEF IInv
  <1>2. /\ conn = "open" /\ conn' = conn /\ pc = "parse" /\ pc' = pc
        /\ Whole /\ Drop /\ Front.op = "pong"
    BY DEF ParsePong, Parsing, Open
  <1>3. /\ AnswerInv' /\ BytesInv'
        /\ stream' \in Seq(Frames) /\ rxLen' \in Nat /\ flying' \in Nat
        /\ stream # <<>> /\ stream' = Tail(stream)
    BY <1>2, DropKeeps
  <1>4. TypeOK' BY <1>1, <1>2, <1>3 DEF TypeOK, ParsePong
  <1>5. TypesInv' BY <1>1 DEF TypesInv, ParsePong
  <1>6. PhaseInv' BY <1>1, <1>2 DEF PhaseInv, ParsePong
  <1>7. Goes(Before, Front) /\ After(Before, Front) = Before /\ Count(Front) = 0
    BY <1>2 DEF Goes, Broken, After, Count, Completes, Data
  <1>8. Before' = After(Before, Front) /\ Len(handled') = Len(handled) + Count(Front)
    BY <1>1, <1>7 DEF Before, ParsePong, TypesInv
  <1>9. ItemsInv' BY <1>1, <1>2, <1>3, <1>7, <1>8, ItemsDrop DEF ParsePong
  <1> QED BY <1>3, <1>4, <1>5, <1>6, <1>9 DEF IInv

LEMMA SendSomeKeeps == IInv /\ SendSome => IInv'
  <1> SUFFICES ASSUME IInv, SendSome PROVE IInv' OBVIOUS
  <1>1. TypeOK /\ PhaseInv BY DEF IInv
  <1>2. /\ idle' = 0 /\ UNCHANGED <<conn, spins, pc, sending, closing, closes, handled>>
        /\ UNCHANGED serverVars /\ UNCHANGED bufVars /\ UNCHANGED msgVars
    BY DEF SendSome
  <1>3. left' \in 0..SendSize BY <1>1 DEF TypeOK, SendSome
  <1>4. TypesInv' /\ AnswerInv' /\ BytesInv' /\ ItemsInv' /\ Whole' = Whole /\ Front' = Front
    BY <1>2, StillKeeps
  <1>5. TypeOK' BY <1>1, <1>2, <1>3, <1>4 DEF TypeOK, serverVars, bufVars, msgVars
  <1>6. PhaseInv'
    <2>1. pc = "send" BY DEF SendSome
    <2> QED BY <1>1, <1>2, <1>4, <2>1 DEF PhaseInv
  <1> QED BY <1>4, <1>5, <1>6 DEF IInv

LEMMA SendBlocksKeeps == IInv /\ SendBlocks => IInv'
  <1> SUFFICES ASSUME IInv, SendBlocks PROVE IInv' OBVIOUS
  <1>1. TypeOK /\ PhaseInv BY DEF IInv
  <1>2. /\ UNCHANGED <<conn, spins, pc, sending, left, closing, closes, handled>>
        /\ UNCHANGED serverVars /\ UNCHANGED bufVars /\ UNCHANGED msgVars
    BY DEF SendBlocks
  <1>3. idle' \in 0..MaxIdle BY <1>1 DEF TypeOK, SendBlocks
  <1>4. TypesInv' /\ AnswerInv' /\ BytesInv' /\ ItemsInv' /\ Whole' = Whole /\ Front' = Front
    BY <1>2, StillKeeps
  <1>5. TypeOK' BY <1>1, <1>2, <1>3, <1>4 DEF TypeOK, serverVars, bufVars, msgVars
  <1>6. PhaseInv'
    <2>1. pc = "send" BY DEF SendBlocks
    <2> QED BY <1>1, <1>2, <1>4, <2>1 DEF PhaseInv
  <1> QED BY <1>4, <1>5, <1>6 DEF IInv

\* What the end of each send does.
LEMMA SendEndsIs ==
  ASSUME IInv, NEW ok \in BOOLEAN, SendEnds(ok)
  PROVE  \/ /\ sending = "pong" /\ conn = "open" /\ conn' = "open" /\ pc' = "parse"
            /\ Whole /\ Front.op = "ping" /\ Drop
            /\ handled' = Append(handled, Item("ping", <<Front.id>>))
         \/ /\ sending = "pong" /\ conn = "open" /\ conn' = "ended" /\ pc' = "idle"
            /\ handled' = handled /\ UNCHANGED bufVars
         \/ /\ sending = "echo" /\ conn = "open" /\ conn' = "ended" /\ pc' = "idle"
            /\ closing /\ Whole /\ Drop /\ handled' = handled
         \/ /\ sending = "close" /\ conn = "ended" /\ conn' = "freed" /\ pc' = "idle"
            /\ closing /\ handled' = handled /\ UNCHANGED bufVars
  <1>1. pc = "send" /\ sending \in {"pong", "echo", "close"} BY DEF IInv, TypeOK, SendEnds
  <1>2. CASE sending = "pong" /\ ok
    <2>1. conn = "open" /\ Whole /\ Front.op = "ping" BY <1>1, <1>2 DEF IInv, PhaseInv, TypeOK
    <2>2. /\ Drop /\ handled' = Append(handled, Item("ping", <<Front.id>>))
          /\ pc' = "parse" /\ conn' = conn
      BY <1>2 DEF SendEnds
    <2> QED BY <1>2, <2>1, <2>2
  <1>3. CASE sending = "pong" /\ ~ok
    <2>1. conn = "open" BY <1>1, <1>3 DEF IInv, PhaseInv
    <2>2. conn' = "ended" /\ pc' = "idle" /\ handled' = handled /\ UNCHANGED bufVars
      BY <1>3 DEF SendEnds, End
    <2> QED BY <1>3, <2>1, <2>2
  <1>4. CASE sending = "echo"
    <2>1. conn = "open" /\ closing /\ Whole BY <1>1, <1>4 DEF IInv, PhaseInv
    <2>2. conn' = "ended" /\ pc' = "idle" /\ Drop /\ handled' = handled
      BY <1>4 DEF SendEnds, End
    <2> QED BY <1>4, <2>1, <2>2
  <1>5. CASE sending = "close"
    <2>1. conn = "ended" /\ closing BY <1>1, <1>5 DEF IInv, PhaseInv
    <2>2. conn' = "freed" /\ pc' = "idle" /\ handled' = handled /\ UNCHANGED bufVars
      BY <1>5 DEF SendEnds
    <2> QED BY <1>5, <2>1, <2>2
  <1> QED BY <1>1, <1>2, <1>3, <1>4, <1>5

LEMMA SendEndsKeeps ==
  ASSUME IInv, NEW ok \in BOOLEAN, SendEnds(ok)
  PROVE  IInv'
  <1> USE DEF serverVars, msgVars
  <1>1. TypeOK /\ TypesInv /\ PhaseInv /\ ItemsInv BY DEF IInv
  <1>2. /\ sending' = "close" /\ left' = 0 /\ idle' = 0 /\ UNCHANGED <<spins, closing, closes>>
        /\ UNCHANGED serverVars /\ UNCHANGED msgVars
    BY DEF SendEnds
  <1>3. ASSUME pc' \in {"idle", "parse"}, conn' \in {"open", "ended", "freed"},
               stream' \in Seq(Frames), rxLen' \in Nat, flying' \in Nat
        PROVE  TypeOK'
    BY <1>1, <1>2, <1>3 DEF TypeOK
  <1>4. ASSUME handled' \in Seq(Items) PROVE TypesInv' BY <1>1, <1>2, <1>4 DEF TypesInv
  <1>5. ASSUME pc' = "idle" \/ (pc' = "parse" /\ conn' = "open"),
               conn' \in {"open", "ended"} \/ (conn' = "freed" /\ closing)
        PROVE  PhaseInv'
    BY <1>1, <1>2, <1>5 DEF PhaseInv
  <1>6. CASE /\ sending = "pong" /\ conn = "open" /\ conn' = "open" /\ pc' = "parse"
             /\ Whole /\ Front.op = "ping" /\ Drop
             /\ handled' = Append(handled, Item("ping", <<Front.id>>))
    <2>1. /\ AnswerInv' /\ BytesInv'
          /\ stream' \in Seq(Frames) /\ rxLen' \in Nat /\ flying' \in Nat
          /\ Front \in Frames /\ stream # <<>> /\ stream' = Tail(stream)
      BY <1>6, DropKeeps
    <2>2. Before \in Seq(Nat) BY <1>1 DEF TypesInv, Before
    <2>3. /\ Goes(Before, Front) /\ After(Before, Front) = Before /\ Count(Front) = 1
          /\ Completed(Before, Front) = Item("ping", <<Front.id>>)
      BY <1>6 DEF Goes, Broken, After, Count, Completes, Completed, Data
    <2>4. Item("ping", <<Front.id>>) \in Items BY <2>1, <2>2, <2>3, AfterIs
    <2>5. handled' \in Seq(Items) /\ Len(handled') = Len(handled) + Count(Front)
      BY <1>1, <1>6, <2>3, <2>4, AppendIs DEF TypesInv
    <2>6. Before' = After(Before, Front) BY <1>2, <2>3 DEF Before
    <2>7. ItemsInv' BY <1>1, <1>2, <1>6, <2>1, <2>3, <2>5, <2>6, ItemsDrop
    <2>8. TypeOK' BY <1>3, <1>6, <2>1
    <2>9. TypesInv' BY <1>4, <2>5
    <2>10. PhaseInv' BY <1>5, <1>6
    <2> QED BY <2>1, <2>7, <2>8, <2>9, <2>10 DEF IInv
  <1>7. CASE /\ sending = "echo" /\ conn = "open" /\ conn' = "ended" /\ pc' = "idle"
             /\ closing /\ Whole /\ Drop /\ handled' = handled
    <2>1. /\ AnswerInv' /\ BytesInv'
          /\ stream' \in Seq(Frames) /\ rxLen' \in Nat /\ flying' \in Nat
      BY <1>7, DropKeeps
    <2>2. TypeOK' BY <1>3, <1>7, <2>1
    <2>3. TypesInv' BY <1>1, <1>4, <1>7 DEF TypesInv
    <2>4. PhaseInv' BY <1>5, <1>7
    <2>5. ItemsInv' BY <1>7 DEF ItemsInv
    <2> QED BY <2>1, <2>2, <2>3, <2>4, <2>5 DEF IInv
  <1>8. CASE \/ /\ sending = "pong" /\ conn = "open" /\ conn' = "ended" /\ pc' = "idle"
                /\ handled' = handled /\ UNCHANGED bufVars
             \/ /\ sending = "close" /\ conn = "ended" /\ conn' = "freed" /\ pc' = "idle"
                /\ closing /\ handled' = handled /\ UNCHANGED bufVars
    <2>1. /\ TypesInv' /\ AnswerInv' /\ BytesInv' /\ ItemsInv'
          /\ stream \in Seq(Frames) /\ flying \in Nat /\ rxLen \in Nat
      BY <1>2, <1>8, StillKeeps
    <2>2. TypeOK' BY <1>3, <1>8, <2>1 DEF bufVars
    <2>3. PhaseInv' BY <1>5, <1>8
    <2> QED BY <2>1, <2>2, <2>3 DEF IInv
  <1> QED BY <1>6, <1>7, <1>8, SendEndsIs

LEMMA LeaveKeeps == IInv /\ Leave => IInv'
  <1> SUFFICES ASSUME IInv, Leave PROVE IInv' OBVIOUS
  <1>1. TypeOK /\ PhaseInv BY DEF IInv
  <1>2. /\ conn \in {"open", "ended"} /\ pc = "idle"
        /\ UNCHANGED <<spins, handled>>
        /\ UNCHANGED serverVars /\ UNCHANGED bufVars /\ UNCHANGED msgVars
    BY DEF Leave
  <1>3. CASE closing
    <2>1. conn' = "freed" /\ UNCHANGED <<pc, sending, left, idle, closing, closes>>
      BY <1>3 DEF Leave
    <2>2. TypesInv' /\ AnswerInv' /\ BytesInv' /\ ItemsInv' BY <1>2, <2>1, StillKeeps
    <2>3. TypeOK' BY <1>1, <1>2, <2>1 DEF TypeOK, serverVars, bufVars, msgVars
    <2>4. PhaseInv' BY <1>1, <1>2, <1>3, <2>1 DEF PhaseInv
    <2> QED BY <2>2, <2>3, <2>4 DEF IInv
  <1>4. CASE ~closing
    <2>1. /\ closing' = TRUE /\ closes' = closes + 1 /\ conn' = "ended"
          /\ sending' = "close" /\ left' = SendSize /\ idle' = 0 /\ pc' = "send"
      BY <1>4 DEF Leave, StartSend
    <2>2. TypesInv' /\ AnswerInv' /\ BytesInv' /\ ItemsInv' BY <1>2, <2>1, StillKeeps
    <2>3. TypeOK' BY <1>1, <1>2, <2>1 DEF TypeOK, serverVars, bufVars, msgVars
    <2>4. PhaseInv' BY <1>1, <1>2, <1>4, <2>1 DEF PhaseInv
    <2> QED BY <2>2, <2>3, <2>4 DEF IInv
  <1> QED BY <1>3, <1>4

LEMMA AbandonKeeps == IInv /\ Abandon => IInv'
  <1> SUFFICES ASSUME IInv, Abandon PROVE IInv' OBVIOUS
  <1>1. TypeOK /\ PhaseInv BY DEF IInv
  <1>2. /\ conn \in {"open", "ended"} /\ conn' = "freed" /\ pc = "idle" /\ ~main
        /\ UNCHANGED <<spins, pc, closing, closes, handled>>
        /\ UNCHANGED serverVars /\ UNCHANGED bufVars /\ UNCHANGED sendVars /\ UNCHANGED msgVars
    BY DEF Abandon
  <1>3. TypesInv' /\ AnswerInv' /\ BytesInv' /\ ItemsInv' BY <1>2, StillKeeps
  <1>4. TypeOK' BY <1>1, <1>2 DEF TypeOK, serverVars, bufVars, sendVars, msgVars
  <1>5. PhaseInv' BY <1>1, <1>2 DEF PhaseInv, msgVars
  <1> QED BY <1>3, <1>4, <1>5 DEF IInv

----------------------------------------------------------------------------
(* The theorems *)

LEMMA InitHolds == Init => IInv
  <1> SUFFICES ASSUME Init PROVE IInv OBVIOUS
  <1>1. PICK ok \in BOOLEAN : stream = <<Response(ok)>> BY DEF Init
  <1>2. Response(ok) \in Frames /\ Response(ok).op \in Answers /\ Size(Response(ok)) = ResponseSize
    BY DEF Response, Frames, Answers, Size, Data
  <1>3. /\ stream \in Seq(Frames) /\ stream # <<>> /\ Front.op \in Answers
        /\ Len(stream) = 1 /\ stream[1] = Response(ok)
    BY <1>1, <1>2 DEF Front
  <1>4. TypeOK
    <2>1. /\ 0 \in 0..MaxFrames /\ 0 \in 0..MaxSpins /\ 0 \in 0..SendSize /\ 0 \in 0..MaxIdle
          /\ 0 \in 0..MaxPayload /\ ResponseSize \in Nat
      OBVIOUS
    <2>2. /\ pc = "idle" /\ up = TRUE /\ done = FALSE /\ inMsg = FALSE /\ closing = FALSE
          /\ main \in BOOLEAN
      BY DEF Init
    <2>3. /\ flying = ResponseSize /\ frames = 0 /\ conn = "upgrading" /\ spins = 0
          /\ sending = "close" /\ left = 0 /\ idle = 0 /\ rxLen = 0 /\ msgLen = 0 /\ closes = 0
      BY DEF Init
    <2> QED BY <1>3, <2>1, <2>2, <2>3 DEF TypeOK
  <1>5. TypesInv BY DEF Init, TypesInv
  <1>6. PhaseInv BY <1>3 DEF Init, PhaseInv, Answers
  <1>7. AnswerInv BY <1>3 DEF Init, AnswerInv
  <1>8. BytesInv
    <2> DEFINE rest == [i \in 0..1 |-> IF i = 0 THEN ResponseSize ELSE 0]
    <2>1. rest \in [0..Len(stream) -> Nat] BY <1>3
    <2>2. rest[0] = ResponseSize /\ rest[1] = 0 OBVIOUS
    <2> HIDE DEF rest
    <2>3. \A i \in 1..Len(stream) : i = 1 BY <1>3
    <2>4. Follows(rest) BY <1>2, <1>3, <2>2, <2>3 DEF Follows
    <2>5. rest[0] = rxLen + flying /\ rxLen <= Buf /\ rxLen <= ResponseBuf
      BY <2>2 DEF Init, Buf
    <2> QED BY <2>1, <2>4, <2>5 DEF BytesInv
  <1>9. ItemsInv
    <2> DEFINE parts == [i \in 0..1 |-> <<>>]
               count == [i \in 0..1 |-> 0]
    <2>1. Len(items) = 0 /\ Len(handled) = 0 /\ Before = <<>> /\ unfinished = <<>>
      BY DEF Init, Before
    <2>2. parts \in [0..Len(stream) -> Seq(Nat)] /\ count \in [0..Len(stream) -> 0..Len(items)]
      BY <1>3, <2>1
    <2>3. parts[0] = <<>> /\ parts[1] = <<>> /\ count[0] = 0 /\ count[1] = 0 OBVIOUS
    <2> HIDE DEF parts, count
    <2>4. ~Completes(stream[1]) /\ Goes(<<>>, stream[1]) /\ After(<<>>, stream[1]) = <<>>
          /\ Count(stream[1]) = 0
      BY <1>2, <1>3 DEF Completes, Goes, Broken, After, Count, Answers, Data
    <2>5. ReadsAt(stream, items, done, parts, count, 1) BY <2>3, <2>4 DEF ReadsAt
    <2>6. \A i \in 1..Len(stream) : i = 1 BY <1>3
    <2>7. Reads(parts, count) BY <1>3, <2>1, <2>3, <2>5, <2>6, ReadsIs
    <2> QED BY <2>2, <2>7 DEF ItemsInv
  <1> QED BY <1>4, <1>5, <1>6, <1>7, <1>8, <1>9 DEF IInv

LEMMA UnchangedKeeps == IInv /\ UNCHANGED vars => IInv'
  <1> SUFFICES ASSUME IInv, UNCHANGED vars PROVE IInv' OBVIOUS
  <1>1. TypeOK' BY DEF IInv, TypeOK, vars, Whole, Front
  <1>2. PhaseInv' BY DEF IInv, PhaseInv, vars, Whole, Front, Upgraded
  <1>3. TypesInv' /\ AnswerInv' /\ BytesInv' /\ ItemsInv'
    BY StillKeeps DEF vars, bufVars, serverVars, msgVars
  <1> QED BY <1>1, <1>2, <1>3 DEF IInv

LEMMA StepKeeps == IInv /\ [Next]_vars => IInv'
  <1> SUFFICES ASSUME IInv, [Next]_vars PROVE IInv' OBVIOUS
  <1>1. CASE Server BY <1>1, ServerKeeps
  <1>2. CASE Upgrade
    BY <1>2, UpgradeDoneKeeps, UpgradeFailsKeeps, UpgradeReadsKeeps DEF Upgrade
  <1>3. CASE Poll
    BY <1>3, PollReadsKeeps, ReturnsKeeps, ParsePingKeeps, ParseCloseKeeps, ParseDataKeeps,
       ParsePongKeeps, SendSomeKeeps, SendBlocksKeeps, SendEndsKeeps DEF Poll, Sending
  <1>4. CASE Leave BY <1>4, LeaveKeeps
  <1>5. CASE Abandon BY <1>5, AbandonKeeps
  <1>6. CASE UNCHANGED vars BY <1>6, UnchangedKeeps
  <1> QED BY <1>1, <1>2, <1>3, <1>4, <1>5, <1>6 DEF Next

\* The bytes and the frames, the frames and the items, the items and what was handed
\* up stay in step, for every way the bytes are cut (ff_net_ws_open, ff_ws_conn_poll).
THEOREM WsConnInvariant == Spec => []IInv
  <1>1. Init => IInv BY InitHolds
  <1>2. IInv /\ [Next]_vars => IInv' BY StepKeeps
  <1> QED BY <1>1, <1>2, PTL DEF Spec

\* Every variable keeps its type, and a pong is only ever being sent for the ping at
\* the front of the buffer.
THEOREM WsConnTypeOK == Spec => []TypeOK
  <1>1. IInv => TypeOK BY DEF IInv
  <1> QED BY <1>1, WsConnInvariant, PTL

\* c->rx is never written past its end, and a call that skips the read because it is
\* full has a whole frame to parse (ff_ws_conn_poll).
THEOREM WsConnNeverFullAndWaiting == Spec => []NeverFullAndWaiting
  <1>1. IInv => NeverFullAndWaiting
    <2> SUFFICES ASSUME IInv PROVE NeverFullAndWaiting OBVIOUS
    <2>1. TypeOK /\ AnswerInv /\ rxLen <= Buf BY DEF IInv, BytesInv
    <2>2. ASSUME conn \in {"open", "ended"}, rxLen = Buf PROVE Whole
      <3>1. stream # <<>>
        <4> SUFFICES ASSUME stream = <<>> PROVE FALSE OBVIOUS
        <4>1. PICK rest \in [0..Len(stream) -> Nat] : Follows(rest) /\ rest[0] = rxLen + flying
          BY DEF IInv, BytesInv
        <4>2. rxLen + flying = 0 BY <4>1 DEF Follows
        <4> QED BY <4>2, <2>1, <2>2, BufIs DEF TypeOK
      <3>2. Front = stream[1] /\ Front \in Frames /\ 1 \in 1..Len(stream)
        BY <3>1, <2>1, TailIs DEF TypeOK, Front
      <3>3. Front.op \notin Answers BY <3>2, <2>1, <2>2 DEF AnswerInv, Answers
      <3>4. Size(Front) <= Buf /\ Size(Front) \in Nat BY <3>2, <3>3, SizeIs
      <3> QED BY <3>1, <3>4, <2>2, BufIs DEF Whole
    <2> QED BY <2>1, <2>2 DEF NeverFullAndWaiting
  <1> QED BY <1>1, WsConnInvariant, PTL

\* One close frame at most, and one before the main socket is freed if it ever opened,
\* whether it was dialled as that or began as a replacement (run_once's swap and way
\* out, and the echo in ff_ws_conn_poll).
THEOREM WsConnOneGoodbye == Spec => []OneGoodbye
  <1>1. IInv => OneGoodbye BY DEF IInv, PhaseInv, OneGoodbye
  <1> QED BY <1>1, WsConnInvariant, PTL

----------------------------------------------------------------------------
(* The connection implements MessageLine *)

LEMMA LineInit == Init => Line!Init
  BY DEF Init, Line!Init

LEMMA LineSame ==
  ASSUME items' = items, handled' = handled,
         (conn \in {"ended", "freed"}) = (conn' \in {"ended", "freed"})
  PROVE  UNCHANGED Line!lineVars
  BY DEF Line!lineVars

\* The server completes an item, and nothing else changes for the layer above.
LEMMA LineComplete ==
  ASSUME NEW item \in Items, TypesInv, items' = Append(items, item),
         handled' = handled, conn' = conn
  PROVE  Line!Next
  <1>1. items \in Seq(Items) BY DEF TypesInv
  <1>2. Len(items') = Len(items) + 1 BY <1>1, AppendIs
  <1>3. SubSeq(items', 1, Len(items)) = items BY <1>1, AppendBegins
  <1>4. Line!Complete BY <1>2, <1>3 DEF Line!Complete
  <1> QED BY <1>4 DEF Line!Next

LEMMA LineFinish ==
  ASSUME conn \notin {"ended", "freed"}, conn' \in {"ended", "freed"},
         items' = items, handled' = handled
  PROVE  Line!Next
  <1>1. Line!Finish BY DEF Line!Finish
  <1> QED BY <1>1 DEF Line!Next

LEMMA LineHandle ==
  ASSUME IInv, conn = "open", conn' = "open", stream # <<>>,
         Goes(Before, Front), Completes(Front), items' = items,
         handled' = Append(handled, Completed(Before, Front))
  PROVE  Line!Next
  <1>1. Len(handled) < Len(items) /\ items[Len(handled) + 1] = Completed(Before, Front)
    BY NextItem DEF IInv
  <1>2. Line!Handle BY <1>1 DEF Line!Handle
  <1> QED BY <1>2 DEF Line!Next

LEMMA LineServer ==
  ASSUME IInv, Server PROVE Line!Next \/ UNCHANGED Line!lineVars
  <1>1. TypesInv /\ frames \in Nat BY DEF IInv, TypeOK
  <1>2. handled' = handled /\ conn' = conn
    BY DEF Server, SendData, SendPing, SendPong, SendClose, SendBroken, HangUp, ServerSends
  <1>3. CASE items' = items BY <1>2, <1>3, LineSame
  <1>4. ASSUME NEW fin \in BOOLEAN, NEW len \in 0..MaxPayload, SendData(fin, len)
        PROVE  Line!Next \/ items' = items
    <2> DEFINE item == Item("message", Append(unfinished, frames + 1))
    <2>1. item \in Items BY <1>1, AppendIs DEF TypesInv, Item, Items
    <2>2. items' = Append(items, item) \/ items' = items BY <1>4 DEF SendData
    <2> HIDE DEF item
    <2> QED BY <1>1, <1>2, <2>1, <2>2, LineComplete
  <1>5. CASE SendPing
    <2> DEFINE item == Item("ping", <<frames + 1>>)
    <2>1. item \in Items BY <1>1 DEF Item, Items
    <2>2. items' = Append(items, item) BY <1>5 DEF SendPing
    <2> HIDE DEF item
    <2> QED BY <1>1, <1>2, <2>1, <2>2, LineComplete
  <1>6. CASE SendPong \/ SendClose \/ SendBroken \/ HangUp
    BY <1>3, <1>6 DEF SendPong, SendClose, SendBroken, HangUp
  <1> QED BY <1>3, <1>4, <1>5, <1>6 DEF Server

LEMMA LineClient ==
  ASSUME IInv, Upgrade \/ Poll \/ Leave \/ Abandon PROVE Line!Next \/ UNCHANGED Line!lineVars
  <1>1. items' = items
    BY DEF Upgrade, UpgradeDone, UpgradeFails, UpgradeReads, Poll, PollReads, PollDead,
       Incomplete, RefuseFrame, ParsePing, ParseClose, ParseData, ParsePong, Sending,
       SendSome, SendBlocks, SendEnds, Leave, Abandon, serverVars
  <1>2. CASE ParseData
    <2>1. /\ conn = "open" /\ conn' = "open" /\ stream # <<>> /\ Goes(Before, Front)
          /\ handled' = IF Completes(Front) THEN Append(handled, Completed(Before, Front))
                                            ELSE handled
      BY <1>2, ParseDataIs
    <2>2. CASE Completes(Front) BY <1>1, <2>1, <2>2, LineHandle
    <2>3. CASE ~Completes(Front) BY <1>1, <2>1, <2>3, LineSame
    <2> QED BY <2>2, <2>3
  <1>3. ASSUME NEW ok \in BOOLEAN, SendEnds(ok) PROVE Line!Next \/ UNCHANGED Line!lineVars
    <2>1. CASE /\ conn = "open" /\ conn' = "open" /\ Whole /\ Front.op = "ping"
               /\ handled' = Append(handled, Item("ping", <<Front.id>>))
      <3>1. /\ stream # <<>> /\ Goes(Before, Front) /\ Completes(Front)
            /\ Completed(Before, Front) = Item("ping", <<Front.id>>)
        BY <2>1 DEF Whole, Goes, Broken, Completes, Completed
      <3> QED BY <1>1, <2>1, <3>1, LineHandle
    <2>2. CASE conn = "open" /\ conn' = "ended" /\ handled' = handled
      BY <1>1, <2>2, LineFinish
    <2>3. CASE conn = "ended" /\ conn' = "freed" /\ handled' = handled
      BY <1>1, <2>3, LineSame
    <2> QED BY <1>3, <2>1, <2>2, <2>3, SendEndsIs
  <1>4. CASE handled' = handled
    <2>1. CASE conn' = conn \/ (conn = "upgrading" /\ conn' = "open")
               \/ (conn \in {"ended", "freed"} /\ conn' \in {"ended", "freed"})
      BY <1>1, <1>4, <2>1, LineSame
    <2>2. CASE conn \in {"upgrading", "open"} /\ conn' \in {"ended", "freed"}
      BY <1>1, <1>4, <2>2, LineFinish
    <2>3. CASE Upgrade
      BY <2>1, <2>2, <2>3 DEF Upgrade, UpgradeDone, UpgradeFails, UpgradeReads, Upgrading
    <2>4. CASE Leave \/ Abandon BY <2>1, <2>2, <2>4 DEF Leave, Abandon
    <2>5. CASE PollReads \/ PollDead \/ Incomplete \/ RefuseFrame
      BY <2>1, <2>2, <2>5 DEF PollReads, PollDead, Incomplete, RefuseFrame, End, Open, Parsing
    <2>6. CASE ParsePing \/ ParseClose \/ ParsePong
      BY <2>1, <2>2, <2>6 DEF ParsePing, ParseClose, ParsePong, End, Open, Parsing
    <2>7. CASE SendSome \/ SendBlocks BY <2>1, <2>7 DEF SendSome, SendBlocks
    <2> QED BY <1>2, <1>3, <2>3, <2>4, <2>5, <2>6, <2>7 DEF Poll, Sending
  <1>5. CASE ~(ParseData \/ \E ok \in BOOLEAN : SendEnds(ok))
    <2>1. handled' = handled
      BY <1>5 DEF Upgrade, UpgradeDone, UpgradeFails, UpgradeReads, Poll, PollReads, PollDead,
         Incomplete, RefuseFrame, ParsePing, ParseClose, ParsePong, Sending,
         SendSome, SendBlocks, Leave, Abandon
    <2> QED BY <1>4, <2>1
  <1> QED BY <1>2, <1>3, <1>5

LEMMA LineStep == IInv /\ [Next]_vars => [Line!Next]_Line!lineVars
  <1> SUFFICES ASSUME IInv, [Next]_vars PROVE Line!Next \/ UNCHANGED Line!lineVars
    OBVIOUS
  <1>1. CASE UNCHANGED vars BY <1>1, LineSame DEF vars
  <1> QED BY <1>1, LineServer, LineClient DEF Next

\* Whatever the reads cut apart or put together, pings are answered and messages
\* handed up one by one, whole and in the server's order, until the end.
THEOREM WsConnInOrderAndWhole == Spec => InOrderAndWhole
  <1> QED BY LineInit, LineStep, WsConnInvariant, PTL DEF Spec, InOrderAndWhole, Line!Spec
=============================================================================
