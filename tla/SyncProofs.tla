----------------------------- MODULE SyncProofs -----------------------------
(***************************************************************************)
(* Proof that the synchronisation leaves no gap and ends no subscription   *)
(* silently, for any chains, number of blocks and channel size, and, at    *)
(* the end, that the parser of genesis files, the other source of blocks,  *)
(* finds all blocks of a file, for any sizes of blocks and buffer.         *)
(***************************************************************************)
EXTENDS Sync, GFileParser, TLAPS

(* What the inductive invariant adds to NoGaps and NoSilentEnd.  Only a    *)
(* subscription of a running sync task has something in its channel: *)
OnlySubscribed ==
    /\ ~up => ~Receiving
    /\ \A c \in Chain : ~Receiving \/ c \notin subscribed => chan[c] = <<>>
    /\ \A c \in Chain \ subscribed : sub[c] = "ended"

(* block_number counts what is stored and what is in the channel, and does *)
(* not run ahead of the receipts: *)
NumberCounts ==
    \A c \in subscribed :
        Receiving =>
            /\ number[c] <= receipts[c]
            /\ sub[c] = "send" => number[c] < receipts[c]
            /\ IF sub[c] = "ended"
               THEN number[c] = StartBlock(db[c]) + Len(chan[c]) - 1
               ELSE /\ number[c] = StartBlock(db[c]) + Len(chan[c])
                    /\ \A i \in 1 .. Len(chan[c]) : chan[c][i] # Err

(* A block has its header before its receipts: *)
HeadersFirst == \A c \in Chain : receipts[c] <= headers[c]

IInv ==
    TypeOK /\ NoGaps /\ NoSilentEnd /\ OnlySubscribed /\ NumberCounts /\ HeadersFirst

-----------------------------------------------------------------------------
(* The block after the first k blocks is block k. *)
LEMMA StartBlockOfPrefix ==
    ASSUME NEW k \in Nat
    PROVE  StartBlock(0 .. k - 1) = k
<1>1. CASE k = 0
  BY <1>1 DEF StartBlock
<1>2. CASE k > 0
  <2> DEFINE S == 0 .. k - 1
  <2>1. S # {} /\ k - 1 \in S /\ \A m \in S : m <= k - 1
    BY <1>2
  <2>2. \A n \in S : (\A m \in S : m <= n) => n = k - 1
    BY <2>1
  <2> HIDE DEF S
  <2>3. (CHOOSE n \in S : \A m \in S : m <= n) = k - 1
    BY <2>1, <2>2
  <2>4. StartBlock(S) = (k - 1) + 1
    BY <2>1, <2>3 DEF StartBlock
  <2>. QED
    BY <2>4 DEF S
<1>. QED
  BY <1>1, <1>2

(* The stored blocks are those before the block that sync starts from. *)
LEMMA StoredPrefix ==
    ASSUME TypeOK, NoGaps, NEW c \in Chain
    PROVE  /\ StartBlock(db[c]) \in 0 .. receipts[c]
           /\ db[c] = 0 .. StartBlock(db[c]) - 1
           /\ receipts[c] \in 0 .. MaxBlock + 1
           /\ MaxBlock \in Nat
<1>1. receipts[c] \in 0 .. MaxBlock + 1 /\ MaxBlock \in Nat
  BY SyncAssumption DEF TypeOK
<1>2. PICK k \in 0 .. receipts[c] : db[c] = 0 .. k - 1
  BY DEF NoGaps
<1>3. StartBlock(db[c]) = k
  BY <1>1, <1>2, StartBlockOfPrefix
<1>. QED
  BY <1>1, <1>2, <1>3

(* The chain of the server grows: nothing that was counted changes. *)
LEMMA RemoteKeepsIInv ==
    ASSUME IInv, NEW c \in Chain, NewHeader(c) \/ NewReceipts(c)
    PROVE  IInv'
<1> USE DEF IInv
<1>0. TypeOK /\ MaxBlock \in Nat
  BY SyncAssumption
<1>1. UNCHANGED <<up, subscribed, cancelled, tasks, subs, db, view>>
  BY DEF NewHeader, NewReceipts
<1>2. TypeOK' /\ HeadersFirst'
  <2>1. headers' \in [Chain -> 0 .. MaxBlock + 1] /\ receipts' \in [Chain -> 0 .. MaxBlock + 1]
    <3>1. CASE NewHeader(c)
      BY <1>0, <3>1 DEF NewHeader, TypeOK
    <3>2. CASE NewReceipts(c)
      BY <1>0, <3>2 DEF NewReceipts, TypeOK
    <3>. QED
      BY <3>1, <3>2
  <2>2. TypeOK'
    BY <1>0, <1>1, <2>1 DEF TypeOK, subs
  <2>3. ASSUME NEW d \in Chain
        PROVE  receipts'[d] <= headers'[d]
    <3>1. receipts[d] \in Int /\ headers[d] \in Int /\ receipts[d] <= headers[d]
      BY <1>0 DEF HeadersFirst, TypeOK
    <3>2. CASE NewHeader(c)
      BY <1>0, <3>1, <3>2 DEF NewHeader, TypeOK
    <3>3. CASE NewReceipts(c)
      BY <1>0, <3>1, <3>3 DEF NewReceipts, TypeOK
    <3>. QED
      BY <3>2, <3>3
  <2>. QED
    BY <2>2, <2>3 DEF HeadersFirst
<1>3. ASSUME NEW d \in Chain
      PROVE  receipts[d] \in Int /\ receipts'[d] \in Int /\ receipts[d] <= receipts'[d]
  <2>1. receipts[d] \in Int
    BY <1>0 DEF TypeOK
  <2>2. receipts'[d] \in {receipts[d], receipts[d] + 1}
    BY <1>0 DEF NewHeader, NewReceipts, TypeOK
  <2>. QED
    BY <2>1, <2>2
<1>4. NoGaps'
  BY <1>1, <1>3 DEF NoGaps, subs
<1>5. NoSilentEnd' /\ OnlySubscribed'
  BY <1>1 DEF NoSilentEnd, OnlySubscribed, Receiving, subs
<1>6. NumberCounts'
  BY <1>0, <1>1, <1>3 DEF NumberCounts, Receiving, subs, TypeOK
<1>. QED
  BY <1>2, <1>4, <1>5, <1>6

(* A request of a subscription is answered. *)
LEMMA RequestKeepsIInv ==
    ASSUME IInv, NEW c \in Chain, GetHeader(c) \/ GetReceipts(c) \/ SourceFails(c)
    PROVE  IInv'
<1> USE DEF IInv
<1>0. TypeOK /\ OnlySubscribed /\ NumberCounts
  OBVIOUS
<1>1. PICK to \in {"receipts", "send", "error"} :
        /\ sub' = [sub EXCEPT ![c] = to]
        /\ to = "send" => number[c] < receipts[c]
        /\ sub[c] # "ended"
        /\ Receiving
        /\ UNCHANGED <<remote, up, subscribed, cancelled, tasks, db, view, number, chan>>
  BY DEF GetHeader, GetReceipts, SourceFails, Subscription
<1>2. TypeOK' /\ HeadersFirst'
  BY <1>0, <1>1 DEF TypeOK, HeadersFirst, remote
<1>3. NoGaps'
  BY <1>1 DEF NoGaps, remote
<1>4. c \in subscribed
  BY <1>0, <1>1 DEF OnlySubscribed
<1>5. NoSilentEnd' /\ OnlySubscribed'
  BY <1>0, <1>1, <1>4 DEF NoSilentEnd, OnlySubscribed, Receiving, TypeOK
<1>6. NumberCounts'
  BY <1>0, <1>1 DEF NumberCounts, Receiving, TypeOK, remote
<1>. QED
  BY <1>2, <1>3, <1>5, <1>6

(* A block, or the error that ends the subscription, enters the channel. *)
LEMMA SendKeepsIInv ==
    ASSUME IInv, NEW c \in Chain, SendBlock(c) \/ SendError(c)
    PROVE  IInv'
<1> USE DEF IInv
<1>0. TypeOK /\ NoGaps /\ OnlySubscribed /\ NumberCounts
  OBVIOUS
<1>1. /\ Receiving /\ Len(chan[c]) < ChannelSize /\ sub[c] # "ended"
      /\ UNCHANGED <<remote, up, subscribed, cancelled, tasks, db, view>>
      /\ c \in subscribed
  BY <1>0 DEF SendBlock, SendError, Subscription, OnlySubscribed
<1> DEFINE start == StartBlock(db[c])
<1>2. /\ start \in 0 .. receipts[c] /\ receipts[c] \in 0 .. MaxBlock + 1 /\ MaxBlock \in Nat
      /\ chan[c] \in Seq(Number \cup {Err}) /\ Len(chan[c]) \in Nat /\ number[c] \in Int
  BY <1>0, StoredPrefix DEF TypeOK
<1>3. /\ number[c] = start + Len(chan[c])
      /\ number[c] <= receipts[c]
      /\ sub[c] = "send" => number[c] < receipts[c]
      /\ \A i \in 1 .. Len(chan[c]) : chan[c][i] # Err /\ chan[c][i] = start + i - 1
  BY <1>0, <1>1 DEF NumberCounts, NoGaps
<1> HIDE DEF start
<1>4. PICK x \in Number \cup {Err} :
        /\ chan' = [chan EXCEPT ![c] = Append(@, x)]
        /\ \/ x = number[c] /\ number' = [number EXCEPT ![c] = @ + 1] /\ number[c] < receipts[c]
              /\ sub' = [sub EXCEPT ![c] = "header"]
           \/ x = Err /\ UNCHANGED number /\ sub' = [sub EXCEPT ![c] = "ended"]
  <2>1. CASE SendBlock(c)
    <3>1. number[c] < receipts[c]
      BY <1>3, <2>1 DEF SendBlock, Subscription
    <3>2. number[c] \in Number
      BY <1>2, <1>3, <3>1 DEF Number
    <3>. QED
      BY <2>1, <3>1, <3>2 DEF SendBlock, Subscription
  <2>2. CASE SendError(c)
    BY <2>2 DEF SendError, Subscription
  <2>. QED
    BY <2>1, <2>2
<1>5. /\ chan'[c] \in Seq(Number \cup {Err}) /\ Len(chan'[c]) = Len(chan[c]) + 1
      /\ \A i \in 1 .. Len(chan[c]) : chan'[c][i] = chan[c][i]
      /\ chan'[c][Len(chan[c]) + 1] = x
      /\ \A d \in Chain \ {c} : chan'[d] = chan[d]
  BY <1>0, <1>2, <1>4 DEF TypeOK
<1>6. TypeOK'
  <2>1. number' \in [Chain -> 0 .. MaxBlock + 1]
    <3>1. CASE number' = [number EXCEPT ![c] = @ + 1] /\ number[c] < receipts[c]
      <4>1. number[c] + 1 \in 0 .. MaxBlock + 1
        BY <1>2, <1>3, <3>1
      <4>. QED
        BY <1>0, <3>1, <4>1 DEF TypeOK
    <3>2. CASE UNCHANGED number
      BY <1>0, <3>2 DEF TypeOK
    <3>. QED
      BY <1>4, <3>1, <3>2
  <2>2. chan' \in [Chain -> Seq(Number \cup {Err})]
    BY <1>0, <1>2, <1>4, <1>5 DEF TypeOK
  <2>3. \A d \in Chain : Len(chan'[d]) <= ChannelSize
    <3>1. Len(chan'[c]) <= ChannelSize
      BY <1>1, <1>2, <1>5, SyncAssumption
    <3>. QED
      BY <1>0, <1>5, <3>1 DEF TypeOK
  <2>4. sub' \in [Chain -> {"header", "receipts", "send", "error", "ended"}]
    BY <1>0, <1>4 DEF TypeOK
  <2>. QED
    BY <1>0, <1>1, <2>1, <2>2, <2>3, <2>4 DEF TypeOK, remote
<1>7. \A i \in 1 .. Len(chan'[c]) :
        chan'[c][i] = start + i - 1 \/ (chan'[c][i] = Err /\ i = Len(chan'[c]))
  <2> SUFFICES ASSUME NEW i \in 1 .. Len(chan'[c])
               PROVE  chan'[c][i] = start + i - 1 \/ (chan'[c][i] = Err /\ i = Len(chan'[c]))
    OBVIOUS
  <2>1. CASE i <= Len(chan[c])
    BY <1>2, <1>3, <1>5, <2>1
  <2>2. CASE i = Len(chan[c]) + 1
    BY <1>2, <1>3, <1>4, <1>5, <2>2
  <2>. QED
    BY <1>2, <1>5, <2>1, <2>2
<1>8. NoGaps'
  <2> SUFFICES ASSUME NEW d \in Chain
               PROVE  (/\ \E k \in 0 .. receipts[d] : db[d] = 0 .. k - 1
                       /\ \E k \in 0 .. receipts[d] : view[d] = 0 .. k - 1
                       /\ \A i \in 1 .. Len(chan[d]) :
                             \/ chan[d][i] = StartBlock(db[d]) + i - 1
                             \/ chan[d][i] = Err /\ i = Len(chan[d]))'
    BY DEF NoGaps
  <2>1. CASE d = c
    BY <1>0, <1>1, <1>7, <2>1 DEF NoGaps, remote, start
  <2>2. CASE d # c
    BY <1>0, <1>1, <1>5, <2>2 DEF NoGaps, remote
  <2>. QED
    BY <2>1, <2>2
<1>9. OnlySubscribed' /\ HeadersFirst'
  BY <1>0, <1>1, <1>4, <1>5 DEF OnlySubscribed, HeadersFirst, Receiving, remote, TypeOK
<1>10. NoSilentEnd'
  <2> SUFFICES ASSUME NEW d \in subscribed, (Receiving /\ sub[d] = "ended")'
               PROVE  (chan[d] # <<>> /\ chan[d][Len(chan[d])] = Err)'
    BY <1>1 DEF NoSilentEnd
  <2>1. CASE d = c
    <3>1. x = Err
      BY <1>0, <1>4, <2>1 DEF TypeOK
    <3>. QED
      BY <1>2, <1>5, <2>1, <3>1
  <2>2. CASE d # c
    BY <1>0, <1>1, <1>4, <1>5, <2>2 DEF NoSilentEnd, Receiving, TypeOK
  <2>. QED
    BY <2>1, <2>2
<1>11. NumberCounts'
  <2> SUFFICES ASSUME NEW d \in subscribed
               PROVE  (/\ number[d] <= receipts[d]
                       /\ sub[d] = "send" => number[d] < receipts[d]
                       /\ IF sub[d] = "ended"
                          THEN number[d] = StartBlock(db[d]) + Len(chan[d]) - 1
                          ELSE /\ number[d] = StartBlock(db[d]) + Len(chan[d])
                               /\ \A i \in 1 .. Len(chan[d]) : chan[d][i] # Err)'
    BY <1>1 DEF NumberCounts
  <2>1. CASE d = c
    <3>1. CASE x = number[c] /\ number' = [number EXCEPT ![c] = @ + 1] /\ number[c] < receipts[c]
               /\ sub' = [sub EXCEPT ![c] = "header"]
      <4>0. number[c] # Err
        <5>1. number[c] \in Nat
          BY <1>0 DEF TypeOK
        <5>. QED
          BY <5>1, SyncAssumption
      <4>1. \A i \in 1 .. Len(chan'[c]) : chan'[c][i] # Err
        <5> SUFFICES ASSUME NEW i \in 1 .. Len(chan'[c])
                     PROVE  chan'[c][i] # Err
          OBVIOUS
        <5>1. CASE i <= Len(chan[c])
          BY <1>2, <1>3, <1>5, <5>1
        <5>2. CASE i = Len(chan[c]) + 1
          BY <1>2, <1>5, <3>1, <4>0, <5>2
        <5>. QED
          BY <1>2, <1>5, <5>1, <5>2
      <4>2. sub'[c] = "header" /\ number'[c] = number[c] + 1
        BY <1>0, <3>1 DEF TypeOK
      <4>3. receipts' = receipts /\ StartBlock(db[c])' = start
        BY <1>1 DEF remote, start
      <4>a. /\ start \in Int /\ number[c] \in Int /\ receipts[c] \in Int /\ Len(chan[c]) \in Int
            /\ Len(chan'[c]) = Len(chan[c]) + 1 /\ number[c] = start + Len(chan[c])
        BY <1>2, <1>3, <1>5
      <4>4. number'[c] <= receipts[c] /\ number'[c] = start + Len(chan'[c])
        BY <3>1, <4>2, <4>a
      <4>. QED
        BY <2>1, <4>1, <4>2, <4>3, <4>4
    <3>2. CASE x = Err /\ UNCHANGED number /\ sub' = [sub EXCEPT ![c] = "ended"]
      <4>1. sub'[c] = "ended" /\ number'[c] = number[c]
        BY <1>0, <3>2 DEF TypeOK
      <4>2. receipts' = receipts /\ StartBlock(db[c])' = start
        BY <1>1 DEF remote, start
      <4>3. number'[c] <= receipts[c] /\ number'[c] = start + Len(chan'[c]) - 1
        BY <1>2, <1>3, <1>5, <4>1
      <4>. QED
        BY <2>1, <4>1, <4>2, <4>3
    <3>. QED
      BY <1>4, <3>1, <3>2
  <2>2. CASE d # c
    BY <1>0, <1>1, <1>4, <1>5, <2>2 DEF NumberCounts, remote, TypeOK
  <2>. QED
    BY <2>1, <2>2
<1>. QED
  BY <1>6, <1>8, <1>9, <1>10, <1>11

(* The block at the head of the channel is the next one to be stored. *)
LEMMA StoreBlockKeepsIInv ==
    ASSUME IInv, NEW c \in Chain, StoreBlock(c)
    PROVE  IInv'
<1> USE DEF IInv
<1>0. TypeOK /\ NoGaps /\ OnlySubscribed /\ NumberCounts
  OBVIOUS
<1> DEFINE start == StartBlock(db[c])
<1>1. /\ Receiving /\ chan[c] # <<>> /\ Head(chan[c]) # Err
      /\ db' = [db EXCEPT ![c] = @ \cup {Head(chan[c])}]
      /\ chan' = [chan EXCEPT ![c] = Tail(@)]
      /\ UNCHANGED <<remote, up, subscribed, cancelled, tasks, sub, number, view>>
  BY DEF StoreBlock
<1>2. /\ start \in 0 .. receipts[c] /\ receipts[c] \in 0 .. MaxBlock + 1 /\ MaxBlock \in Nat
      /\ db[c] = 0 .. start - 1
      /\ chan[c] \in Seq(Number \cup {Err}) /\ Len(chan[c]) \in Nat /\ number[c] \in Int
  BY <1>0, StoredPrefix DEF TypeOK
<1>3. c \in subscribed
  BY <1>0, <1>1 DEF OnlySubscribed
<1>4. \A i \in 1 .. Len(chan[c]) :
        chan[c][i] = start + i - 1 \/ (chan[c][i] = Err /\ i = Len(chan[c]))
  BY <1>0 DEF NoGaps
<1> HIDE DEF start
<1>5. /\ Len(chan[c]) >= 1 /\ Head(chan[c]) = start
      /\ chan'[c] \in Seq(Number \cup {Err}) /\ Len(chan'[c]) = Len(chan[c]) - 1
      /\ \A i \in 1 .. Len(chan'[c]) : chan'[c][i] = chan[c][i + 1]
      /\ \A d \in Chain \ {c} : chan'[d] = chan[d]
  <2>1. Len(chan[c]) >= 1 /\ Head(chan[c]) = chan[c][1]
    BY <1>1, <1>2
  <2>2. Head(chan[c]) = start
    BY <1>1, <1>2, <1>4, <2>1
  <2>. QED
    BY <1>0, <1>1, <1>2, <2>1, <2>2 DEF TypeOK
<1>a. /\ start \in Int /\ number[c] \in Int /\ receipts[c] \in Int /\ Len(chan[c]) \in Int
      /\ Len(chan'[c]) \in Int /\ Len(chan'[c]) = Len(chan[c]) - 1 /\ Len(chan[c]) >= 1
  BY <1>2, <1>5
<1>6. /\ number[c] <= receipts[c]
      /\ sub[c] = "send" => number[c] < receipts[c]
      /\ sub[c] = "ended" => number[c] = start + Len(chan[c]) - 1 /\ chan[c][Len(chan[c])] = Err
      /\ sub[c] # "ended" => /\ number[c] = start + Len(chan[c])
                             /\ \A i \in 1 .. Len(chan[c]) : chan[c][i] # Err
  BY <1>0, <1>1, <1>3 DEF NumberCounts, NoSilentEnd, start
<1>7. start < number[c] /\ start < receipts[c]
  <2>1. CASE sub[c] = "ended"
    <3>1. Len(chan[c]) # 1
      BY <1>1, <1>2, <1>6, <2>1
    <3>. QED
      <4>1. ASSUME NEW a \in Int, NEW l \in Int, l >= 1, l # 1
            PROVE  a < a + l - 1
        BY <4>1
      <4>2. start < start + Len(chan[c]) - 1
        BY <1>a, <3>1, <4>1
      <4>3. number[c] = start + Len(chan[c]) - 1 /\ number[c] <= receipts[c]
        BY <1>6, <2>1
      <4>. QED
        BY <1>a, <4>2, <4>3
  <2>2. CASE sub[c] # "ended"
    BY <1>a, <1>6, <2>2
  <2>. QED
    BY <2>1, <2>2
<1>8. start + 1 \in 0 .. receipts[c] /\ start + 1 \in Nat /\ start \in Number
  BY <1>2, <1>7 DEF Number
<1>9. db'[c] = 0 .. (start + 1) - 1 /\ StartBlock(db'[c]) = start + 1
  <2>1. db'[c] = (0 .. start - 1) \cup {start}
    BY <1>0, <1>1, <1>2, <1>5 DEF TypeOK
  <2>2. (0 .. start - 1) \cup {start} = 0 .. (start + 1) - 1
    BY <1>2
  <2>. QED
    BY <1>8, <2>1, <2>2, StartBlockOfPrefix
<1>10. \A d \in Chain \ {c} : db'[d] = db[d]
  BY <1>0, <1>1 DEF TypeOK
<1>11. TypeOK' /\ HeadersFirst'
  <2>1. db' \in [Chain -> SUBSET Number]
    BY <1>0, <1>1, <1>5, <1>8 DEF TypeOK
  <2>2. chan' \in [Chain -> Seq(Number \cup {Err})]
    BY <1>0, <1>1, <1>2, <1>5 DEF TypeOK
  <2>3. \A d \in Chain : Len(chan'[d]) <= ChannelSize
    <3>1. Len(chan[c]) <= ChannelSize
      BY <1>0 DEF TypeOK
    <3>2. Len(chan'[c]) <= ChannelSize
      BY <1>2, <1>5, <3>1, SyncAssumption
    <3>. QED
      BY <1>0, <1>5, <3>2 DEF TypeOK
  <2>. QED
    BY <1>0, <1>1, <2>1, <2>2, <2>3 DEF TypeOK, HeadersFirst, remote
<1>12. \A i \in 1 .. Len(chan'[c]) :
        chan'[c][i] = start + 1 + i - 1 \/ (chan'[c][i] = Err /\ i = Len(chan'[c]))
  <2> SUFFICES ASSUME NEW i \in 1 .. Len(chan'[c])
               PROVE  chan'[c][i] = start + 1 + i - 1 \/ (chan'[c][i] = Err /\ i = Len(chan'[c]))
    OBVIOUS
  <2>1. i + 1 \in 1 .. Len(chan[c]) /\ chan'[c][i] = chan[c][i + 1]
    BY <1>2, <1>5
  <2>2. chan[c][i + 1] = start + (i + 1) - 1 \/ (chan[c][i + 1] = Err /\ i + 1 = Len(chan[c]))
    BY <1>4, <2>1
  <2>. QED
    BY <1>2, <1>5, <2>1, <2>2
<1>13. NoGaps'
  <2> SUFFICES ASSUME NEW d \in Chain
               PROVE  (/\ \E k \in 0 .. receipts[d] : db[d] = 0 .. k - 1
                       /\ \E k \in 0 .. receipts[d] : view[d] = 0 .. k - 1
                       /\ \A i \in 1 .. Len(chan[d]) :
                             \/ chan[d][i] = StartBlock(db[d]) + i - 1
                             \/ chan[d][i] = Err /\ i = Len(chan[d]))'
    BY DEF NoGaps
  <2>1. \E k \in 0 .. receipts'[d] : view'[d] = 0 .. k - 1
    BY <1>0, <1>1 DEF NoGaps, remote
  <2>2. CASE d = c
    <3>1. \E k \in 0 .. receipts'[d] : db'[d] = 0 .. k - 1
      BY <1>1, <1>8, <1>9, <2>2 DEF remote
    <3>. QED
      BY <1>9, <1>12, <2>1, <2>2, <3>1
  <2>3. CASE d # c
    BY <1>0, <1>1, <1>5, <1>10, <2>1, <2>3 DEF NoGaps, remote
  <2>. QED
    BY <2>2, <2>3
<1>14. OnlySubscribed'
  BY <1>0, <1>1, <1>3, <1>5 DEF OnlySubscribed, Receiving
<1>15. NoSilentEnd'
  <2> SUFFICES ASSUME NEW d \in subscribed, sub[d] = "ended"
               PROVE  (chan[d] # <<>> /\ chan[d][Len(chan[d])] = Err)'
    BY <1>1 DEF NoSilentEnd
  <2>1. CASE d = c
    <3>1. Len(chan'[c]) \in 1 .. Len(chan'[c])
      BY <1>a, <1>6, <1>7, <2>1
    <3>2. chan'[c][Len(chan'[c])] = chan[c][Len(chan'[c]) + 1]
      BY <1>5, <3>1
    <3>3. Len(chan'[c]) + 1 = Len(chan[c])
      BY <1>a
    <3>4. chan'[c][Len(chan'[c])] = Err /\ chan'[c] # <<>>
      BY <1>6, <2>1, <3>1, <3>2, <3>3
    <3>. QED
      BY <2>1, <3>4
  <2>2. CASE d # c
    BY <1>0, <1>1, <1>5, <2>2 DEF NoSilentEnd, TypeOK
  <2>. QED
    BY <2>1, <2>2
<1>16. NumberCounts'
  <2> SUFFICES ASSUME NEW d \in subscribed
               PROVE  (/\ number[d] <= receipts[d]
                       /\ sub[d] = "send" => number[d] < receipts[d]
                       /\ IF sub[d] = "ended"
                          THEN number[d] = StartBlock(db[d]) + Len(chan[d]) - 1
                          ELSE /\ number[d] = StartBlock(db[d]) + Len(chan[d])
                               /\ \A i \in 1 .. Len(chan[d]) : chan[d][i] # Err)'
    BY <1>1 DEF NumberCounts
  <2>1. CASE d = c
    <3>0. ASSUME NEW a \in Int, NEW l \in Int, NEW m \in Int, m = l - 1
          PROVE  a + l = a + 1 + m /\ (a + 1) + m - 1 = a + l - 1
      BY <3>0
    <3>1. /\ start + Len(chan[c]) = start + 1 + Len(chan'[c])
          /\ (start + 1) + Len(chan'[c]) - 1 = start + Len(chan[c]) - 1
      BY <1>a, <3>0
    <3>3. ASSUME \A i \in 1 .. Len(chan[c]) : chan[c][i] # Err,
                 NEW i \in 1 .. Len(chan'[c])
          PROVE  chan'[c][i] # Err
      <4>1. i + 1 \in 1 .. Len(chan[c])
        BY <1>a
      <4>. QED
        BY <1>5, <3>3, <4>1
    <3>. QED
      BY <1>1, <1>6, <1>9, <2>1, <3>1, <3>3 DEF remote
  <2>2. CASE d # c
    BY <1>0, <1>1, <1>5, <1>10, <2>2 DEF NumberCounts, remote, TypeOK
  <2>. QED
    BY <2>1, <2>2
<1>. QED
  BY <1>11, <1>13, <1>14, <1>15, <1>16

(* When the receiving ends are closed, nothing is left in the channels. *)
LEMMA CloseKeepsIInv ==
    ASSUME IInv, NEW how \in {"ok", "failed"}, EndTask("sync", how), CloseChannels
    PROVE  IInv'
<1> USE DEF IInv
<1>0. TypeOK /\ NoGaps /\ OnlySubscribed
  OBVIOUS
<1>1. /\ tasks' = [tasks EXCEPT !["sync"] = how] /\ chan' = [c \in Chain |-> <<>>]
      /\ UNCHANGED <<remote, up, subscribed, cancelled, sub, number, db, view>>
  BY DEF EndTask, CloseChannels
<1>2. ~Receiving'
  BY <1>0, <1>1 DEF Receiving, TypeOK, Task
<1>3. \A c \in Chain : chan'[c] = <<>> /\ Len(chan'[c]) = 0
  BY <1>1
<1>4. TypeOK' /\ HeadersFirst'
  <2>1. chan' \in [Chain -> Seq(Number \cup {Err})] /\ \A c \in Chain : Len(chan'[c]) <= ChannelSize
    BY <1>1, <1>3, SyncAssumption
  <2>2. tasks' \in [Task -> {"running", "ok", "failed"}]
    BY <1>0, <1>1 DEF TypeOK
  <2>. QED
    BY <1>0, <1>1, <2>1, <2>2 DEF TypeOK, HeadersFirst, remote
<1>5. NoGaps'
  BY <1>0, <1>1, <1>3 DEF NoGaps, remote
<1>6. OnlySubscribed' /\ NoSilentEnd' /\ NumberCounts'
  BY <1>0, <1>1, <1>2, <1>3 DEF OnlySubscribed, NoSilentEnd, NumberCounts
<1>. QED
  BY <1>4, <1>5, <1>6

(* The command starts with empty channels, each subscription at the block  *)
(* after the last one stored.                                              *)
LEMMA StartKeepsIInv ==
    ASSUME IInv, NEW S \in SUBSET Chain, Start(S)
    PROVE  IInv'
<1> USE DEF IInv
<1>0. TypeOK /\ NoGaps /\ OnlySubscribed
  OBVIOUS
<1>1. /\ up' = TRUE /\ subscribed' = S /\ tasks' = [t \in Task |-> "running"]
      /\ sub' = [c \in Chain |-> IF c \in S THEN "header" ELSE "ended"]
      /\ number' = [c \in Chain |-> IF c \in S THEN StartBlock(db[c]) ELSE 0]
      /\ view' = db
      /\ UNCHANGED <<remote, cancelled, chan, db>>
  BY DEF Start
<1>2. \A c \in Chain : chan[c] = <<>> /\ Len(chan[c]) = 0
  BY <1>0 DEF OnlySubscribed, Start
<1>3. \A c \in Chain : StartBlock(db[c]) \in 0 .. receipts[c]
  BY <1>0, StoredPrefix
<1>4. TypeOK' /\ HeadersFirst'
  <2>1. \A c \in Chain : StartBlock(db[c]) \in 0 .. MaxBlock + 1 /\ 0 \in 0 .. MaxBlock + 1
    <3> SUFFICES ASSUME NEW c \in Chain
                 PROVE  StartBlock(db[c]) \in 0 .. MaxBlock + 1 /\ 0 \in 0 .. MaxBlock + 1
      OBVIOUS
    <3>1. receipts[c] \in 0 .. MaxBlock + 1 /\ MaxBlock \in Nat
      BY <1>0, SyncAssumption DEF TypeOK
    <3>. QED
      BY <1>3, <3>1
  <2>2. number' \in [Chain -> 0 .. MaxBlock + 1]
    BY <1>1, <2>1
  <2>3. /\ tasks' \in [Task -> {"running", "ok", "failed"}]
        /\ sub' \in [Chain -> {"header", "receipts", "send", "error", "ended"}]
    BY <1>1
  <2>. QED
    BY <1>0, <1>1, <2>2, <2>3 DEF TypeOK, HeadersFirst, remote
<1>5. NoGaps'
  BY <1>0, <1>1, <1>2 DEF NoGaps, remote
<1>6. OnlySubscribed' /\ NoSilentEnd'
  BY <1>0, <1>1, <1>2 DEF OnlySubscribed, NoSilentEnd
<1>7. NumberCounts'
  <2> SUFFICES ASSUME NEW c \in S
               PROVE  (/\ number[c] <= receipts[c]
                       /\ sub[c] = "send" => number[c] < receipts[c]
                       /\ IF sub[c] = "ended"
                          THEN number[c] = StartBlock(db[c]) + Len(chan[c]) - 1
                          ELSE /\ number[c] = StartBlock(db[c]) + Len(chan[c])
                               /\ \A i \in 1 .. Len(chan[c]) : chan[c][i] # Err)'
    BY <1>1 DEF NumberCounts
  <2>1. /\ sub'[c] = "header" /\ number'[c] = StartBlock(db[c]) /\ Len(chan'[c]) = 0
        /\ db' = db /\ receipts' = receipts
    BY <1>1, <1>2 DEF remote
  <2>2. receipts[c] \in Int /\ StartBlock(db[c]) \in Int /\ StartBlock(db[c]) <= receipts[c]
    BY <1>0, <1>3 DEF TypeOK
  <2>. QED
    BY <2>1, <2>2
<1>. QED
  BY <1>4, <1>5, <1>6, <1>7

(* The process ends: its channels, positions and tasks are gone. *)
LEMMA StopKeepsIInv ==
    ASSUME IInv, Stop
    PROVE  IInv'
<1> USE DEF IInv
<1>0. TypeOK /\ NoGaps
  OBVIOUS
<1>1. /\ up' = FALSE /\ subscribed' = {} /\ cancelled' = FALSE
      /\ tasks' = [t \in Task |-> "ok"]
      /\ sub' = [c \in Chain |-> "ended"] /\ number' = [c \in Chain |-> 0]
      /\ chan' = [c \in Chain |-> <<>>]
      /\ UNCHANGED <<remote, db, view>>
  BY DEF Stop, CloseChannels
<1>2. \A c \in Chain : chan'[c] = <<>> /\ Len(chan'[c]) = 0
  BY <1>1
<1>3. ~Receiving'
  BY <1>1 DEF Receiving, Task
<1>4. TypeOK' /\ HeadersFirst'
  <2>1. chan' \in [Chain -> Seq(Number \cup {Err})] /\ \A c \in Chain : Len(chan'[c]) <= ChannelSize
    BY <1>1, <1>2, SyncAssumption
  <2>2. /\ tasks' \in [Task -> {"running", "ok", "failed"}]
        /\ sub' \in [Chain -> {"header", "receipts", "send", "error", "ended"}]
        /\ number' \in [Chain -> 0 .. MaxBlock + 1]
    BY <1>1, SyncAssumption
  <2>. QED
    BY <1>0, <1>1, <2>1, <2>2 DEF TypeOK, HeadersFirst, remote
<1>5. NoGaps'
  <2> SUFFICES ASSUME NEW c \in Chain
               PROVE  (/\ \E k \in 0 .. receipts[c] : db[c] = 0 .. k - 1
                       /\ \E k \in 0 .. receipts[c] : view[c] = 0 .. k - 1
                       /\ \A i \in 1 .. Len(chan[c]) :
                             \/ chan[c][i] = StartBlock(db[c]) + i - 1
                             \/ chan[c][i] = Err /\ i = Len(chan[c]))'
    BY DEF NoGaps
  <2>1. UNCHANGED <<receipts, db, view>>
    BY <1>1 DEF remote
  <2>2. 1 .. Len(chan'[c]) = {}
    BY <1>2
  <2>. QED
    BY <1>0, <2>1, <2>2 DEF NoGaps
<1>6. OnlySubscribed' /\ NoSilentEnd' /\ NumberCounts'
  BY <1>1, <1>2, <1>3 DEF OnlySubscribed, NoSilentEnd, NumberCounts
<1>. QED
  BY <1>4, <1>5, <1>6

(* The steps that touch neither the channels nor what sync stores: a       *)
(* cancellation, the other tasks, and a subscription that sees its channel *)
(* closed.                                                                 *)
LEMMA OtherStepsKeepIInv ==
    ASSUME IInv, UNCHANGED <<remote, up, subscribed, number, chan, db>>,
           TypeOK', view' \in {view, db}, tasks'["sync"] = tasks["sync"],
           \A c \in Chain : sub'[c] = sub[c] \/ (~Receiving /\ sub'[c] = "ended")
    PROVE  IInv'
<1> USE DEF IInv
<1>1. NoGaps'
  BY DEF NoGaps, remote
<1>2. OnlySubscribed' /\ HeadersFirst'
  BY DEF OnlySubscribed, HeadersFirst, Receiving, remote
<1>3. NoSilentEnd' /\ NumberCounts'
  BY DEF NoSilentEnd, NumberCounts, Receiving, remote, TypeOK
<1>. QED
  BY <1>1, <1>2, <1>3

LEMMA StepKeepsIInv == IInv /\ [Next]_vars => IInv'
<1> SUFFICES ASSUME IInv, [Next]_vars PROVE IInv'
  OBVIOUS
<1>0. TypeOK
  BY DEF IInv
<1>1. ASSUME NEW c \in Chain, NewHeader(c) \/ NewReceipts(c)
      PROVE  IInv'
  BY <1>1, RemoteKeepsIInv
<1>2. ASSUME NEW c \in Chain, GetHeader(c) \/ GetReceipts(c) \/ SourceFails(c)
      PROVE  IInv'
  BY <1>2, RequestKeepsIInv
<1>3. ASSUME NEW c \in Chain, SendBlock(c) \/ SendError(c)
      PROVE  IInv'
  BY <1>3, SendKeepsIInv
<1>4. ASSUME NEW c \in Chain, SubscriptionEnds(c)
      PROVE  IInv'
  <2>1. TypeOK'
    BY <1>0, <1>4 DEF SubscriptionEnds, TypeOK, remote
  <2>2. \A d \in Chain : sub'[d] = sub[d] \/ (~Receiving /\ sub'[d] = "ended")
    BY <1>0, <1>4 DEF SubscriptionEnds, TypeOK
  <2>. QED
    BY <1>4, <2>1, <2>2, OtherStepsKeepIInv DEF SubscriptionEnds
<1>5. ASSUME NEW c \in Chain, StoreBlock(c)
      PROVE  IInv'
  BY <1>5, StoreBlockKeepsIInv
<1>6. ASSUME NEW c \in Chain, ReceiveError(c)
      PROVE  IInv'
  BY <1>6, CloseKeepsIInv DEF ReceiveError
<1>7. ASSUME NEW S \in SUBSET Chain, Start(S)
      PROVE  IInv'
  BY <1>7, StartKeepsIInv
<1>8. CASE SyncFails \/ NothingToSync
  BY <1>8, CloseKeepsIInv DEF SyncFails, NothingToSync
<1>9. CASE CatchUp
  <2>1. TypeOK'
    BY <1>0, <1>9 DEF CatchUp, TypeOK, remote, subs
  <2>. QED
    BY <1>9, <2>1, OtherStepsKeepIInv DEF CatchUp, subs
<1>10. ASSUME NEW t \in Task \ {"sync"}, NEW how \in {"ok", "failed"}, EndTask(t, how), UNCHANGED chan
       PROVE  IInv'
  <2>1. TypeOK' /\ tasks'["sync"] = tasks["sync"]
    BY <1>0, <1>10 DEF EndTask, TypeOK, remote, Task
  <2>. QED
    BY <1>10, <2>1, OtherStepsKeepIInv DEF EndTask
<1>11. CASE CatchUpFails \/ ServeFails
  BY <1>10, <1>11 DEF CatchUpFails, ServeFails, Task
<1>12. CASE Cancel
  <2>1. TypeOK'
    BY <1>0, <1>12 DEF Cancel, TypeOK, remote, subs
  <2>. QED
    BY <1>12, <2>1, OtherStepsKeepIInv DEF Cancel, subs
<1>13. ASSUME NEW t \in Task, TaskCancelled(t)
       PROVE  IInv'
  <2>1. CASE t = "sync"
    BY <1>13, <2>1, CloseKeepsIInv DEF TaskCancelled
  <2>2. CASE t # "sync"
    BY <1>10, <1>13, <2>2 DEF TaskCancelled
  <2>. QED
    BY <2>1, <2>2
<1>14. CASE Join \/ Killed
  BY <1>14, StopKeepsIInv DEF Join, Killed
<1>15. CASE UNCHANGED vars
  <2>1. TypeOK'
    BY <1>0, <1>15 DEF vars, TypeOK, remote, subs
  <2>. QED
    BY <1>15, <2>1, OtherStepsKeepIInv DEF vars, subs
<1>. QED
  BY <1>1, <1>2, <1>3, <1>4, <1>5, <1>6, <1>7, <1>8, <1>9, <1>11, <1>12, <1>13, <1>14, <1>15
  DEF Next

LEMMA IInvAlways == Spec => []IInv
<1>1. Init => IInv
  <2> SUFFICES ASSUME Init PROVE IInv
    OBVIOUS
  <2>1. \A c \in Chain : chan[c] = <<>> /\ Len(chan[c]) = 0 /\ db[c] = {} /\ view[c] = {} /\ receipts[c] = 0
    BY DEF Init
  <2>2. TypeOK
    <3>1. chan \in [Chain -> Seq(Number \cup {Err})] /\ \A c \in Chain : Len(chan[c]) <= ChannelSize
      BY <2>1, SyncAssumption DEF Init
    <3>2. \A x \in {headers, receipts, number} : x \in [Chain -> 0 .. MaxBlock + 1]
      BY SyncAssumption DEF Init
    <3>3. /\ tasks \in [Task -> {"running", "ok", "failed"}]
          /\ sub \in [Chain -> {"header", "receipts", "send", "error", "ended"}]
      BY DEF Init
    <3>. QED
      BY <3>1, <3>2, <3>3 DEF Init, TypeOK
  <2>3. NoGaps
    <3> SUFFICES ASSUME NEW c \in Chain
                 PROVE  /\ \E k \in 0 .. receipts[c] : db[c] = 0 .. k - 1
                        /\ \E k \in 0 .. receipts[c] : view[c] = 0 .. k - 1
      <4>1. ASSUME NEW d \in Chain
            PROVE  1 .. Len(chan[d]) = {}
        <5>1. Len(chan[d]) = 0
          BY <2>1
        <5>. QED
          BY <5>1
      <4>. QED
        BY <4>1, Zenon DEF NoGaps
    <3>1. 0 \in 0 .. receipts[c] /\ db[c] = 0 .. 0 - 1 /\ view[c] = 0 .. 0 - 1
      BY <2>1
    <3>. QED
      BY <3>1
  <2>4. NoSilentEnd /\ OnlySubscribed /\ NumberCounts /\ HeadersFirst
    <3>1. ~Receiving
      <4>1. tasks["sync"] = "ok"
        BY DEF Init, Task
      <4>. QED
        BY <4>1 DEF Receiving
    <3>2. HeadersFirst
      <4>1. ASSUME NEW c \in Chain
            PROVE  receipts[c] <= headers[c]
        <5>1. receipts[c] = 0 /\ headers[c] = 0
          BY DEF Init
        <5>. QED
          BY <5>1
      <4>. QED
        BY <4>1 DEF HeadersFirst
    <3>. QED
      BY <2>1, <3>1, <3>2, Zenon DEF Init, NoSilentEnd, OnlySubscribed, NumberCounts
  <2>. QED
    BY <2>2, <2>3, <2>4 DEF IInv
<1>. QED
  BY <1>1, StepKeepsIInv, PTL DEF Spec

(* However often the command is stopped, killed or restarted, the stored   *)
(* blocks of every chain are its first ones, the channel brings the next   *)
(* ones, and the reader sees some of the first (start.rs:138-155,          *)
(* block_subscription.rs:44-86).                                           *)
THEOREM SyncLeavesNoGaps == Spec => [](TypeOK /\ NoGaps)
<1>1. IInv => TypeOK /\ NoGaps
  BY DEF IInv
<1>. QED
  BY <1>1, IInvAlways, PTL

(* While blocks are stored, a subscription that has ended has left its     *)
(* error in the channel (block_subscription.rs:88-93).                     *)
THEOREM SubscriptionsDoNotEndSilently == Spec => []NoSilentEnd
<1>1. IInv => NoSilentEnd
  BY DEF IInv
<1>. QED
  BY <1>1, IInvAlways, PTL

-----------------------------------------------------------------------------
(* The parser of genesis files.  What the inductive invariant adds to      *)
(* BlocksInOrder and EndsWithAllBlocks: the buffer is a part of the        *)
(* stream, and the reader only counts as empty at its end.                 *)
Reading ==
    /\ file \in GFiles
    /\ buffer \in [from : Nat, to : Nat] /\ buffer_idx \in Nat
    /\ buffer.from + buffer_idx <= buffer.to
    /\ buffer.to - buffer.from <= BufferSize
    /\ buffer.to <= StreamEnd
    /\ error \in BOOLEAN /\ reader_empty \in BOOLEAN
    /\ reader_empty => buffer.to = StreamEnd /\ file.cut = 0
    /\ yielded \in Seq([block : Nat, ok : BOOLEAN])

(* Until there is an error, the parser is at the start of the next block,  *)
(* and has consumed something of a full buffer, so there is room to read.  *)
AtBlock ==
    ~error => /\ Len(yielded) <= Len(file.blocks)
              /\ buffer.from + buffer_idx = EndOf(file, Len(yielded))
              /\ buffer.to - (buffer.from + buffer_idx) < BufferSize

GFileInv == Reading /\ AtBlock /\ BlocksInOrder /\ EndsWithAllBlocks

(* Where the block behind the first k is. *)
LEMMA BlockBehind ==
    ASSUME NEW f \in GFiles, NEW k \in 0 .. Len(f.blocks)
    PROVE  /\ f.blocks \in Seq(GFileBlock)
           /\ EndOf(f, k) \in Nat /\ EndOf(f, k) <= EndOf(f, Len(f.blocks))
           /\ EndOf(f, Len(f.blocks)) \in Nat
           /\ f.cut \in Nat /\ f.cut <= EndOf(f, Len(f.blocks))
           /\ k < Len(f.blocks) =>
                 /\ k + 1 \in DOMAIN f.blocks
                 /\ f.blocks[k + 1] \in GFileBlock
                 /\ f.blocks[k + 1].from = EndOf(f, k)
                 /\ f.blocks[k + 1].to = EndOf(f, k + 1)
                 /\ f.blocks[k + 1].from < f.blocks[k + 1].to
                 /\ f.blocks[k + 1].to <= EndOf(f, Len(f.blocks))
                 /\ \A j \in DOMAIN f.blocks : f.blocks[j].from = EndOf(f, k) => j = k + 1
<1> DEFINE n == Len(f.blocks)
<1>1. /\ f.blocks \in Seq(GFileBlock)
      /\ f.cut \in 0 .. EndOf(f, n)
      /\ \A j \in DOMAIN f.blocks :
            /\ f.blocks[j].from = EndOf(f, j - 1)
            /\ f.blocks[j].from < f.blocks[j].to
            /\ \A l \in 1 .. j - 1 : f.blocks[l].to <= f.blocks[j].from
  BY GFileAssumption DEF LaidOut
<1>2. n \in Nat /\ DOMAIN f.blocks = 1 .. n
  BY <1>1
<1>3. \A j \in 1 .. n : f.blocks[j] \in GFileBlock
  BY <1>1, <1>2
<1>4. \A j \in 1 .. n : f.blocks[j].from \in Nat /\ f.blocks[j].to \in Nat
  BY <1>3 DEF GFileBlock
<1>5. \A j \in 1 .. n : EndOf(f, j) = f.blocks[j].to
  BY <1>2 DEF EndOf
<1>6. EndOf(f, 0) = 0
  BY DEF EndOf
<1> HIDE DEF n
<1>7. \A j \in 0 .. n : EndOf(f, j) \in Nat
  BY <1>2, <1>4, <1>5, <1>6
<1>8. \A j, l \in 1 .. n : j < l => /\ f.blocks[j].to <= f.blocks[l].from
                                     /\ f.blocks[j].from < f.blocks[l].from
  <2> SUFFICES ASSUME NEW j \in 1 .. n, NEW l \in 1 .. n, j < l
               PROVE  /\ f.blocks[j].to <= f.blocks[l].from
                      /\ f.blocks[j].from < f.blocks[l].from
    OBVIOUS
  <2>1. j \in 1 .. l - 1
    BY <1>2
  <2>2. f.blocks[j].to <= f.blocks[l].from /\ f.blocks[j].from < f.blocks[j].to
    BY <1>1, <1>2, <2>1
  <2>. QED
    BY <1>4, <2>2
<1>9. \A j \in 1 .. n : f.blocks[j].to <= EndOf(f, n)
  <2> SUFFICES ASSUME NEW j \in 1 .. n PROVE f.blocks[j].to <= EndOf(f, n)
    OBVIOUS
  <2>1. n \in 1 .. n
    BY <1>2
  <2>2. CASE j = n
    BY <1>4, <1>5, <2>1, <2>2
  <2>3. CASE j < n
    <3>1. f.blocks[j].to <= f.blocks[n].from /\ f.blocks[n].from < f.blocks[n].to
      BY <1>1, <1>2, <1>8, <2>1, <2>3
    <3>. QED
      BY <1>4, <1>5, <2>1, <3>1
  <2>. QED
    BY <1>2, <2>2, <2>3
<1>10. k \in 0 .. n /\ EndOf(f, k) \in Nat /\ EndOf(f, n) \in Nat
  BY <1>2, <1>7 DEF n
<1>11. EndOf(f, k) <= EndOf(f, n)
  BY <1>2, <1>5, <1>6, <1>9, <1>10
<1>12. ASSUME k < n
       PROVE  /\ k + 1 \in 1 .. n
              /\ f.blocks[k + 1].from = EndOf(f, k)
              /\ f.blocks[k + 1].to = EndOf(f, k + 1)
              /\ f.blocks[k + 1].from < f.blocks[k + 1].to
              /\ f.blocks[k + 1].to <= EndOf(f, n)
              /\ \A j \in 1 .. n : f.blocks[j].from = EndOf(f, k) => j = k + 1
  <2>1. k + 1 \in 1 .. n /\ (k + 1) - 1 = k
    BY <1>2, <1>10, <1>12
  <2>2. f.blocks[k + 1].from = EndOf(f, k) /\ f.blocks[k + 1].from < f.blocks[k + 1].to
    BY <1>1, <1>2, <2>1
  <2>3. \A j \in 1 .. n : 
           f.blocks[j].from = f.blocks[k + 1].from => ~(j < k + 1) /\ ~(k + 1 < j)
    BY <1>4, <1>8, <2>1
  <2>4. \A j \in 1 .. n : f.blocks[j].from = EndOf(f, k) => j = k + 1
    BY <1>2, <2>1, <2>2, <2>3
  <2>. QED
    BY <1>5, <1>9, <2>1, <2>2, <2>4
<1>13. f.cut \in Nat /\ f.cut <= EndOf(f, n)
  BY <1>1, <1>10 DEF n
<1>. QED
  BY <1>1, <1>2, <1>3, <1>10, <1>11, <1>12, <1>13 DEF n

LEMMA SmallerOf ==
    ASSUME NEW a \in Int, NEW b \in Int
    PROVE  Min({a, b}) = IF a <= b THEN a ELSE b
<1>1. CASE a <= b
  BY <1>1 DEF Min
<1>2. CASE ~(a <= b)
  BY <1>2 DEF Min
<1>. QED
  BY <1>1, <1>2

(* What process_with hands to the decoder. *)
LEMMA SliceFacts ==
    ASSUME Reading, AtBlock, ~error, ~ReadFails
    PROVE  /\ FillBuffer.buffer \in [from : Nat, to : Nat] /\ FillBuffer.idx \in Nat
           /\ FillBuffer.buffer.from + FillBuffer.idx = buffer.from + buffer_idx
           /\ FillBuffer.buffer.from + FillBuffer.idx <= FillBuffer.buffer.to
           /\ FillBuffer.buffer.to - FillBuffer.buffer.from <= BufferSize
           /\ FillBuffer.buffer.to <= StreamEnd /\ StreamEnd \in Nat
           /\ FillBuffer.empty \in BOOLEAN
           /\ FillBuffer.empty => FillBuffer.buffer.to = StreamEnd /\ file.cut = 0
           /\ \/ FillBuffer.buffer.to - (FillBuffer.buffer.from + FillBuffer.idx) >= MinSliceSize
              \/ FillBuffer.buffer.to = StreamEnd /\ file.cut = 0
<1> DEFINE pos == buffer.from + buffer_idx
           room == BufferSize - (buffer.to - pos)
           to == Min({buffer.to + BufferSize - (buffer.to - pos), StreamEnd})
<1>1. /\ buffer.from \in Nat /\ buffer.to \in Nat /\ buffer_idx \in Nat
      /\ BufferSize \in Nat /\ MinSliceSize \in Nat
      /\ 1 <= MinSliceSize /\ MinSliceSize <= BufferSize
  BY GFileAssumption DEF Reading
<1>2. StreamEnd \in Nat /\ file.cut \in Nat
  <2>1. Len(file.blocks) \in Nat
    BY GFileAssumption DEF Reading, LaidOut
  <2>2. Len(file.blocks) \in 0 .. Len(file.blocks)
    BY <2>1
  <2>. QED
    BY <2>2, BlockBehind DEF Reading, StreamEnd
<1>3. /\ pos <= buffer.to /\ buffer.to <= StreamEnd
      /\ buffer.to - buffer.from <= BufferSize
      /\ buffer.to - pos < BufferSize
      /\ reader_empty => buffer.to = StreamEnd /\ file.cut = 0
  BY DEF Reading, AtBlock
<1>4. CASE NeedsRefill /\ ~reader_empty
  <2>1. FillBuffer = [buffer |-> [from |-> pos, to |-> to], idx |-> 0,
                      empty |-> (to = buffer.to)]
    BY <1>4 DEF FillBuffer
  <2>2. to = IF pos + BufferSize <= StreamEnd THEN pos + BufferSize ELSE StreamEnd
    <3>1. /\ buffer.to + BufferSize - (buffer.to - pos) = pos + BufferSize
          /\ pos + BufferSize \in Int
      BY <1>1
    <3>. QED
      BY <1>2, <3>1, SmallerOf
  <2> HIDE DEF to
  <2>3. file.cut > 0 => pos + BufferSize <= StreamEnd
    BY <1>1, <1>2, <1>4 DEF ReadFails
  <2>4. /\ FillBuffer.buffer = [from |-> pos, to |-> to] /\ FillBuffer.idx = 0
        /\ FillBuffer.empty = (to = buffer.to)
    BY <2>1
  <2>5. FillBuffer.buffer.from = pos /\ FillBuffer.buffer.to = to
    BY <2>4
  <2>6. to \in Nat /\ pos \in Nat /\ pos <= to /\ to - pos <= BufferSize /\ to <= StreamEnd
    BY <1>1, <1>2, <1>3, <2>2
  <2>7. to = buffer.to => to = StreamEnd /\ file.cut = 0
    BY <1>1, <1>2, <1>3, <2>2, <2>3
  <2>8. to - pos >= MinSliceSize \/ (to = StreamEnd /\ file.cut = 0)
    BY <1>1, <1>2, <1>3, <2>2, <2>3
  <2> HIDE DEF pos
  <2>9. FillBuffer.buffer \in [from : Nat, to : Nat] /\ FillBuffer.empty \in BOOLEAN
    BY <2>4, <2>6
  <2>10. FillBuffer.buffer.from + FillBuffer.idx = pos
    BY <2>4, <2>5, <2>6
  <2>11. FillBuffer.empty => to = StreamEnd /\ file.cut = 0
    BY <2>4, <2>7
  <2>. QED
    BY <1>2, <2>4, <2>5, <2>6, <2>8, <2>9, <2>10, <2>11 DEF pos
<1>5. CASE ~(NeedsRefill /\ ~reader_empty)
  <2>1. FillBuffer = [buffer |-> buffer, idx |-> buffer_idx, empty |-> reader_empty]
    BY <1>5 DEF FillBuffer
  <2>2. /\ FillBuffer.buffer = buffer /\ FillBuffer.idx = buffer_idx
        /\ FillBuffer.empty = reader_empty
    BY <2>1
  <2>3. buffer.to - pos >= MinSliceSize \/ (buffer.to = StreamEnd /\ file.cut = 0)
    BY <1>1, <1>3, <1>5 DEF NeedsRefill
  <2>. QED
    BY <1>1, <1>2, <1>3, <2>2, <2>3 DEF Reading
<1>. QED
  BY <1>4, <1>5

(* A step that leaves the reader and the items alone. *)
LEMMA ParserKeeps ==
    ASSUME GFileInv, UNCHANGED <<file, buffer, buffer_idx, reader_empty, error, yielded>>,
           phase' = "done" => \/ failure' # "none" \/ error
                              \/ phase = "done" /\ failure = "none"
    PROVE  GFileInv'
<1>1. Reading'
  BY DEF GFileInv, Reading, StreamEnd, EndOf
<1>2. AtBlock'
  BY DEF GFileInv, AtBlock, EndOf
<1>3. BlocksInOrder'
  BY DEF GFileInv, BlocksInOrder, Size
<1>4. EndsWithAllBlocks'
  BY DEF GFileInv, EndsWithAllBlocks
<1>. QED
  BY <1>1, <1>2, <1>3, <1>4 DEF GFileInv

(* One more item. *)
LEMMA OneMore ==
    ASSUME Reading, BlocksInOrder, file' = file, NEW n \in Nat, NEW ok \in BOOLEAN,
           Yield(n, ok), n \in {0, Len(yielded) + 1},
           ~ok => \/ file.cut > 0
                  \/ file.blocks[Len(yielded) + 1].kind # "good"
                  \/ Size(Len(yielded) + 1) > MinSliceSize
    PROVE  /\ BlocksInOrder' /\ yielded' \in Seq([block : Nat, ok : BOOLEAN])
           /\ Len(yielded') = Len(yielded) + 1
<1> DEFINE item == [block |-> n, ok |-> ok]
<1>1. item \in [block : Nat, ok : BOOLEAN] /\ item.block = n /\ item.ok = ok
  OBVIOUS
<1>2. yielded' = Append(yielded, item)
  BY DEF Yield
<1> HIDE DEF item
<1>3. yielded \in Seq([block : Nat, ok : BOOLEAN]) /\ Len(yielded) \in Nat
  <2>1. yielded \in Seq([block : Nat, ok : BOOLEAN])
    BY DEF Reading
  <2>. QED
    BY <2>1
<1>4. /\ yielded' \in Seq([block : Nat, ok : BOOLEAN])
      /\ Len(yielded') = Len(yielded) + 1
      /\ \A j \in 1 .. Len(yielded) : yielded'[j] = yielded[j]
      /\ yielded'[Len(yielded) + 1] = item
  <2> DEFINE R == [block : Nat, ok : BOOLEAN]
  <2>1. yielded \in Seq(R) /\ item \in R
    BY <1>1, <1>3
  <2> HIDE DEF R
  <2>2. /\ yielded' \in Seq(R)
        /\ Len(yielded') = Len(yielded) + 1
        /\ \A j \in 1 .. Len(yielded) : yielded'[j] = yielded[j]
        /\ yielded'[Len(yielded) + 1] = item
    BY <1>2, <2>1
  <2>. QED
    BY <2>2 DEF R
<1>5. DOMAIN yielded = 1 .. Len(yielded) /\ DOMAIN yielded' = 1 .. Len(yielded) + 1
  BY <1>3, <1>4
<1>6. BlocksInOrder'
  <2> SUFFICES ASSUME NEW j \in 1 .. Len(yielded) + 1
               PROVE  /\ yielded'[j].block \in {0, j}
                      /\ ~yielded'[j].ok => \/ file.cut > 0
                                            \/ file.blocks[j].kind # "good"
                                            \/ Size(j) > MinSliceSize
    BY <1>5 DEF BlocksInOrder, Size
  <2>1. CASE j = Len(yielded) + 1
    BY <1>1, <1>4, <2>1
  <2>2. CASE j # Len(yielded) + 1
    <3>1. j \in 1 .. Len(yielded)
      BY <1>3, <2>2
    <3>. QED
      BY <1>4, <1>5, <3>1 DEF BlocksInOrder
  <2>. QED
    BY <2>1, <2>2
<1>. QED
  BY <1>4, <1>6

LEMMA ReadErrorStep ==
    ASSUME GFileInv, phase = "blocks", NextBlock, ReadFails
    PROVE  GFileInv'
<1>1. /\ error' = TRUE /\ Yield(0, FALSE)
      /\ UNCHANGED <<phase, buffer, buffer_idx, reader_empty, file, failure>>
  BY DEF NextBlock
<1>2. BlocksInOrder' /\ yielded' \in Seq([block : Nat, ok : BOOLEAN])
  <2>1. file.cut > 0
    BY DEF ReadFails
  <2>. QED
    BY <1>1, <2>1, OneMore DEF GFileInv
<1>3. Reading'
  BY <1>1, <1>2 DEF GFileInv, Reading, StreamEnd, EndOf
<1>. QED
  BY <1>1, <1>2, <1>3 DEF GFileInv, AtBlock, EndsWithAllBlocks

LEMMA NextBlockStep ==
    ASSUME GFileInv, NextBlock, ~ReadFails
    PROVE  GFileInv'
<1> DEFINE filled == FillBuffer
           pos == filled.buffer.from + filled.idx
           slice == filled.buffer.to - pos
           b == BlockAt(pos)
           k == Len(yielded)
<1>1. /\ phase = "blocks" /\ ~error
      /\ buffer' = filled.buffer /\ reader_empty' = filled.empty
      /\ UNCHANGED <<file, unit, first_header, names, failure>>
      /\ \/ /\ NothingLeft(slice)
            /\ phase' = "done" /\ buffer_idx' = filled.idx
            /\ UNCHANGED <<error, yielded>>
         \/ /\ ~NothingLeft(slice) /\ Decodable(b, slice)
            /\ buffer_idx' = filled.idx + Size(b)
            /\ Yield(b, file.blocks[b].kind = "good")
            /\ UNCHANGED <<phase, error>>
         \/ /\ ~NothingLeft(slice) /\ ~Decodable(b, slice)
            /\ error' = TRUE /\ buffer_idx' = filled.idx
            /\ Yield(b, FALSE)
            /\ UNCHANGED phase
  BY DEF NextBlock
<1>2. /\ filled.buffer \in [from : Nat, to : Nat] /\ filled.idx \in Nat
      /\ pos = buffer.from + buffer_idx /\ pos <= filled.buffer.to
      /\ filled.buffer.to - filled.buffer.from <= BufferSize
      /\ filled.buffer.to <= StreamEnd /\ StreamEnd \in Nat
      /\ filled.empty \in BOOLEAN
      /\ filled.empty => filled.buffer.to = StreamEnd /\ file.cut = 0
      /\ slice >= MinSliceSize \/ (filled.buffer.to = StreamEnd /\ file.cut = 0)
  BY <1>1, SliceFacts DEF GFileInv
<1> HIDE DEF filled
<1>3. filled.buffer.from \in Nat /\ filled.buffer.to \in Nat
  BY <1>2
<1>4. /\ BufferSize \in Nat /\ MinSliceSize \in Nat
      /\ 1 <= MinSliceSize /\ MinSliceSize <= BufferSize
  BY GFileAssumption
<1>5. /\ file \in GFiles /\ pos = EndOf(file, k) /\ k <= Len(file.blocks)
      /\ yielded \in Seq([block : Nat, ok : BOOLEAN])
  BY <1>1, <1>2 DEF GFileInv, AtBlock, Reading
<1>6. k \in Nat /\ Len(file.blocks) \in Nat
  <2>1. k \in Nat
    BY <1>5
  <2>2. Len(file.blocks) \in Nat
    BY <1>5, GFileAssumption DEF LaidOut
  <2>. QED
    BY <2>1, <2>2
<1>7. k \in 0 .. Len(file.blocks)
  BY <1>5, <1>6
<1> DEFINE last == EndOf(file, Len(file.blocks))
<1>8. /\ pos \in Nat /\ pos <= last /\ last \in Nat
      /\ file.cut \in Nat /\ StreamEnd = last - file.cut
  BY <1>5, <1>7, BlockBehind DEF StreamEnd
<1>9. ASSUME k < Len(file.blocks)
      PROVE  /\ b = k + 1 /\ k + 1 \in DOMAIN file.blocks
             /\ file.blocks[k + 1].from = pos /\ file.blocks[k + 1].to \in Nat
             /\ file.blocks[k + 1].to = EndOf(file, k + 1)
             /\ pos < file.blocks[k + 1].to /\ file.blocks[k + 1].to <= last
  <2>1. /\ k + 1 \in DOMAIN file.blocks
        /\ file.blocks[k + 1].from = EndOf(file, k)
        /\ file.blocks[k + 1].to = EndOf(file, k + 1)
        /\ file.blocks[k + 1].from < file.blocks[k + 1].to
        /\ file.blocks[k + 1].to <= last
        /\ \A j \in DOMAIN file.blocks : file.blocks[j].from = EndOf(file, k) => j = k + 1
    BY <1>5, <1>7, <1>9, BlockBehind
  <2>2. k + 1 \in 0 .. Len(file.blocks)
    BY <1>6, <1>9
  <2>3. EndOf(file, k + 1) \in Nat
    BY <1>5, <2>2, BlockBehind
  <2>4. b = k + 1
    BY <1>5, <2>1 DEF BlockAt
  <2>. QED
    BY <1>5, <2>1, <2>3, <2>4
<1>10. k = Len(file.blocks) => pos = last
  BY <1>5
<1> HIDE DEF pos, b, k, last
<1>11. StreamEnd' = StreamEnd
  BY <1>1 DEF StreamEnd, EndOf
<1>12. CASE NothingLeft(slice) /\ phase' = "done" /\ buffer_idx' = filled.idx
            /\ UNCHANGED <<error, yielded>>
  <2>1. filled.buffer.to = pos
    BY <1>3, <1>8, <1>12 DEF NothingLeft
  <2>2. pos = StreamEnd /\ file.cut = 0
    BY <1>2, <1>3, <1>4, <1>8, <2>1
  <2>3. k = Len(file.blocks)
    <3>1. pos = last
      BY <1>8, <2>2
    <3>. QED
      BY <1>6, <1>7, <1>8, <1>9, <3>1
  <2>4. Reading'
    BY <1>1, <1>2, <1>3, <1>5, <1>11, <1>12, <2>1 DEF Reading, GFileInv, pos
  <2>5. AtBlock'
    <3>1. buffer'.from + buffer_idx' = pos /\ buffer'.to = pos
      BY <1>1, <1>12, <2>1 DEF pos
    <3>2. Len(yielded') = k /\ EndOf(file, Len(yielded))' = EndOf(file, k)
      BY <1>1, <1>12 DEF EndOf, k
    <3>3. pos - pos < BufferSize
      BY <1>4, <1>8
    <3>. QED
      BY <1>1, <1>5, <3>1, <3>2, <3>3 DEF AtBlock
  <2>6. BlocksInOrder'
    BY <1>1, <1>12 DEF GFileInv, BlocksInOrder, Size
  <2>7. EndsWithAllBlocks'
    BY <1>1, <1>12, <2>3 DEF EndsWithAllBlocks, k
  <2>. QED
    BY <2>4, <2>5, <2>6, <2>7 DEF GFileInv
<1>13. ASSUME ~NothingLeft(slice)
       PROVE  k < Len(file.blocks)
  <2>1. pos < filled.buffer.to
    BY <1>2, <1>3, <1>8, <1>13 DEF NothingLeft
  <2>2. pos < last
    BY <1>2, <1>3, <1>8, <2>1
  <2>. QED
    BY <1>6, <1>7, <1>8, <1>10, <2>2
<1>14. CASE ~NothingLeft(slice) /\ Decodable(b, slice)
            /\ buffer_idx' = filled.idx + Size(b)
            /\ Yield(b, file.blocks[b].kind = "good")
            /\ UNCHANGED <<phase, error>>
  <2>1. /\ b = k + 1 /\ Size(b) = file.blocks[b].to - pos
        /\ pos < file.blocks[b].to /\ file.blocks[b].to \in Nat
        /\ file.blocks[b].to = EndOf(file, k + 1)
    BY <1>9, <1>13, <1>14 DEF Size
  <2>2. file.blocks[b].to <= filled.buffer.to
    <3>1. Size(b) <= slice
      BY <1>14 DEF Decodable
    <3>. QED
      BY <1>3, <1>8, <2>1, <3>1
  <2>3. /\ BlocksInOrder' /\ yielded' \in Seq([block : Nat, ok : BOOLEAN])
        /\ Len(yielded') = k + 1
    <3>1. b \in Nat /\ b \in {0, Len(yielded) + 1}
      BY <1>6, <2>1 DEF k
    <3>2. (file.blocks[b].kind = "good") \in BOOLEAN
      OBVIOUS
    <3>3. b = Len(yielded) + 1
      BY <2>1 DEF k
    <3>. QED
      BY <1>1, <1>14, <3>1, <3>2, <3>3, OneMore DEF GFileInv, k
  <2>4. buffer'.from + buffer_idx' = file.blocks[b].to /\ buffer_idx' \in Nat
    <3>1. Size(b) \in Nat
      BY <1>8, <2>1
    <3>. QED
      BY <1>1, <1>2, <1>3, <1>8, <1>14, <2>1, <3>1 DEF pos
  <2>5. Reading'
    BY <1>1, <1>2, <1>3, <1>5, <1>11, <1>14, <2>2, <2>3, <2>4 DEF Reading, GFileInv
  <2>6. AtBlock'
    <3>1. Len(yielded') <= Len(file'.blocks)
      BY <1>1, <1>6, <1>13, <1>14, <2>3
    <3>2. EndOf(file, Len(yielded))' = EndOf(file, k + 1)
      BY <1>1, <2>3 DEF EndOf
    <3>3. buffer'.to - file.blocks[b].to < BufferSize
      <4>1. filled.buffer.from <= pos
        BY <1>2, <1>3 DEF pos
      <4>. QED
        BY <1>1, <1>2, <1>3, <1>4, <1>8, <2>1, <4>1
    <3>. QED
      BY <2>1, <2>4, <3>1, <3>2, <3>3 DEF AtBlock
  <2>7. EndsWithAllBlocks'
    BY <1>1, <1>14 DEF EndsWithAllBlocks
  <2>. QED
    BY <2>3, <2>5, <2>6, <2>7 DEF GFileInv
<1>15. CASE ~NothingLeft(slice) /\ ~Decodable(b, slice)
            /\ error' = TRUE /\ buffer_idx' = filled.idx
            /\ Yield(b, FALSE)
            /\ UNCHANGED phase
  <2>1. /\ b = k + 1 /\ Size(b) = file.blocks[b].to - pos
        /\ pos < file.blocks[b].to /\ file.blocks[b].to \in Nat
        /\ file.blocks[b].to <= last
    BY <1>9, <1>13, <1>15 DEF Size
  <2>2. file.cut > 0 \/ file.blocks[b].kind # "good" \/ Size(b) > MinSliceSize
    <3> SUFFICES ASSUME ~(file.cut > 0), file.blocks[b].kind = "good"
                 PROVE  Size(b) > MinSliceSize
      OBVIOUS
    <3>1. Size(b) > slice
      <4>1. ~(Size(b) <= slice)
        BY <1>15 DEF Decodable
      <4>. QED
        BY <1>3, <1>8, <2>1, <4>1
    <3>2. StreamEnd = last
      BY <1>8
    <3>. QED
      BY <1>2, <1>3, <1>4, <1>8, <2>1, <3>1, <3>2
  <2>3. BlocksInOrder' /\ yielded' \in Seq([block : Nat, ok : BOOLEAN])
    <3>1. b \in Nat /\ b \in {0, Len(yielded) + 1} /\ b = Len(yielded) + 1
      BY <1>6, <2>1 DEF k
    <3>. QED
      BY <1>1, <1>15, <2>2, <3>1, OneMore DEF GFileInv
  <2>4. Reading'
    BY <1>1, <1>2, <1>3, <1>5, <1>11, <1>15, <2>3 DEF Reading, GFileInv, pos
  <2>. QED
    BY <1>1, <1>15, <2>3, <2>4 DEF GFileInv, AtBlock, EndsWithAllBlocks
<1>. QED
  BY <1>1, <1>12, <1>14, <1>15

LEMMA GFileStep ==
    ASSUME GFileInv, [GFileNext]_gfileVars
    PROVE  GFileInv'
<1>1. CASE ParseUnit
  <2>1. MetadataError(file.units[unit + 1]) # "none" => failure' # "none"
    BY <1>1 DEF ParseUnit, Fail
  <2>2. UNCHANGED <<file, buffer, buffer_idx, reader_empty, error, yielded>>
    BY <1>1 DEF ParseUnit, Fail
  <2>3. phase' = "done" => failure' # "none"
    BY <1>1, <2>1 DEF ParseUnit
  <2>. QED
    BY <2>2, <2>3, ParserKeeps
<1>2. CASE FinishMetadata
  BY <1>2, ParserKeeps DEF FinishMetadata, Fail
<1>3. CASE TryNew
  BY <1>3, ParserKeeps DEF TryNew, Fail
<1>4. CASE NextBlock
  BY <1>4, ReadErrorStep, NextBlockStep DEF NextBlock
<1>5. CASE NextAfterError
  BY <1>5, ParserKeeps DEF NextAfterError
<1>6. CASE UNCHANGED gfileVars
  BY <1>6, ParserKeeps DEF gfileVars
<1>. QED
  BY <1>1, <1>2, <1>3, <1>4, <1>5, <1>6 DEF GFileNext

LEMMA GFileBegins ==
    ASSUME GFileInit
    PROVE  GFileInv
<1>1. /\ buffer = [from |-> 0, to |-> 0] /\ buffer_idx = 0 /\ yielded = <<>>
      /\ error = FALSE /\ reader_empty = FALSE /\ phase = "units" /\ file \in GFiles
  BY DEF GFileInit
<1>2. buffer \in [from : Nat, to : Nat] /\ buffer.from = 0 /\ buffer.to = 0
  BY <1>1
<1>3. Len(file.blocks) \in Nat
  BY <1>1, GFileAssumption DEF LaidOut
<1>4. 0 <= StreamEnd
  <2>1. Len(file.blocks) \in 0 .. Len(file.blocks)
    BY <1>3
  <2>. QED
    BY <1>1, <2>1, BlockBehind DEF StreamEnd
<1>5. yielded \in Seq([block : Nat, ok : BOOLEAN]) /\ Len(yielded) = 0 /\ DOMAIN yielded = {}
  BY <1>1
<1>6. BufferSize \in Nat /\ 0 < BufferSize
  BY GFileAssumption
<1>7. Reading
  <2>1. error \in BOOLEAN /\ reader_empty \in BOOLEAN /\ ~reader_empty
    BY <1>1
  <2>2. /\ buffer_idx \in Nat /\ buffer.from + buffer_idx <= buffer.to
        /\ buffer.to - buffer.from <= BufferSize /\ buffer.to <= StreamEnd
    BY <1>1, <1>2, <1>4, <1>6
  <2>. QED
    BY <1>1, <1>2, <1>5, <2>1, <2>2 DEF Reading
<1>8. AtBlock
  BY <1>1, <1>2, <1>3, <1>5, <1>6 DEF AtBlock, EndOf
<1>. QED
  BY <1>1, <1>5, <1>7, <1>8 DEF GFileInv, BlocksInOrder, EndsWithAllBlocks

LEMMA GFileInvariant == GFileSpec => []GFileInv
<1>1. GFileInit => GFileInv
  BY GFileBegins
<1>2. GFileInv /\ [GFileNext]_gfileVars => GFileInv'
  BY GFileStep
<1>. QED
  BY <1>1, <1>2, PTL DEF GFileSpec

(* The items of BlockParser are the blocks of the file in their order, and *)
(* an error is only reported for a block that is bad, larger than the      *)
(* smallest slice, or not in the file (slice_reader.rs:55-95,              *)
(* block_parser.rs:105-130): for blocks of any size and any buffer, even   *)
(* one no larger than the smallest slice, which SliceReader::new allows.   *)
THEOREM GFileItemsInOrder == GFileSpec => []BlocksInOrder
<1>1. GFileInv => BlocksInOrder
  BY DEF GFileInv
<1>. QED
  BY <1>1, GFileInvariant, PTL

(* An iteration of BlockParser that ends without an error has yielded all  *)
(* blocks: neither a short read nor a refill is taken for the end of the   *)
(* stream, and a cut file always ends in an error (slice_reader.rs:66-95). *)
THEOREM GFileEndsWithAll == GFileSpec => []EndsWithAllBlocks
<1>1. GFileInv => EndsWithAllBlocks
  BY DEF GFileInv
<1>. QED
  BY <1>1, GFileInvariant, PTL
=============================================================================
