------------------------- MODULE PlayerHandleProofs -------------------------
(***************************************************************************)
(* Proofs about PlayerHandle for any number of submitters and any bounds.  *)
(* The invariant has three parts: Accounting relates the two counters, the *)
(* receipts and the queue; Requests says where the one snapshot request    *)
(* can be; Freshness says what a published snapshot and the pending events *)
(* are worth.                                                              *)
(***************************************************************************)
EXTENDS PlayerHandle, TLAPS

PlayerState == [ran : Nat, loaded : BOOLEAN, count : [Kinds -> Nat], raised : SUBSET Raised]

(* The transports queued are exactly lo+1, ..., hi, in this order. *)
Queues(q, lo, hi) ==
  /\ \A i \in 1..Len(q) : IsTransport(q[i]) => q[i].id \in (lo + 1)..hi
  /\ \A i, j \in 1..Len(q) :
       i < j /\ IsTransport(q[i]) /\ IsTransport(q[j]) => q[i].id < q[j].id
  /\ \A n \in (lo + 1)..hi : \E i \in 1..Len(q) : IsTransport(q[i]) /\ q[i].id = n

Accounting ==
  /\ requested = IF lock = NoSubmitter THEN lastTransport ELSE lastTransport + 1
  /\ player.ran = IF worker.pc = "ran" THEN completed + 1 ELSE completed
  /\ player.ran <= lastTransport
  /\ connected => Queues(channel, player.ran, lastTransport)
  /\ ~connected => channel = <<>>

InSnapshot == worker.pc \in {"polled", "merged", "published"}

Requests ==
  /\ OneRequestQueued
  /\ \A i \in 1..Len(channel) :
       channel[i].kind = "snapshot" => snapshotRequested /\ ui.pc # "send" /\ ~InSnapshot
  /\ InSnapshot => snapshotRequested /\ ui.pc # "send"
  /\ ui.pc = "send" => snapshotRequested

Freshness ==
  /\ latest # NoSnapshot => latest.epoch <= completed /\ latest.ran = latest.epoch
  /\ ui.pc \in {"check", "take"} =>
       /\ ui.snapshot \in Snapshot
       /\ ui.snapshot.epoch <= completed
       /\ ui.snapshot.ran = ui.snapshot.epoch
  /\ events.epoch <= completed
  /\ \A e \in events.pending : e.ran = events.epoch
  /\ worker.pc # "polled" => worker.polled = {}
  /\ \A e \in worker.polled : e.ran = player.ran

IInv == TypeOK /\ Accounting /\ Requests /\ Freshness

-----------------------------------------------------------------------------
(* What sending and receiving do to the queue. *)

LEMMA AppendFacts ==
  ASSUME NEW q \in Seq(Command), NEW c \in Command
  PROVE  /\ Append(q, c) \in Seq(Command)
         /\ Len(q) \in Nat /\ Len(Append(q, c)) = Len(q) + 1
         /\ DOMAIN q = 1..Len(q) /\ DOMAIN Append(q, c) = 1..Len(Append(q, c))
         /\ Append(q, c)[Len(q) + 1] = c
         /\ \A i \in 1..Len(q) : Append(q, c)[i] = q[i]
OBVIOUS

(* Sending a command that is no transport. *)
LEMMA SendOther ==
  ASSUME NEW q \in Seq(Command), NEW lo \in Nat, NEW hi \in Nat, NEW c \in Command,
         ~IsTransport(c), Queues(q, lo, hi)
  PROVE  Queues(Append(q, c), lo, hi)
<1> DEFINE r == Append(q, c)
<1>1. /\ Len(r) = Len(q) + 1
      /\ \A i \in 1..Len(q) : r[i] = q[i]
      /\ r[Len(q) + 1] = c
  OBVIOUS
<1>2. Len(q) \in Nat
  OBVIOUS
<1>3. \A i \in 1..Len(r) : IsTransport(r[i]) => i \in 1..Len(q) /\ r[i] = q[i]
  BY <1>1, <1>2
<1>4. \A i \in 1..Len(q) : i \in 1..Len(r)
  BY <1>1, <1>2
<1> HIDE DEF r
<1>5. QED
  BY <1>1, <1>2, <1>3, <1>4 DEF Queues, r

(* Sending the next transport. *)
LEMMA SendNextTransport ==
  ASSUME NEW q \in Seq(Command), NEW lo \in Nat, NEW hi \in Nat, NEW c \in Transport,
         c.id = hi + 1, lo <= hi, Queues(q, lo, hi)
  PROVE  Queues(Append(q, c), lo, hi + 1)
<1> DEFINE r == Append(q, c)
<1>1. /\ Len(r) = Len(q) + 1
      /\ \A i \in 1..Len(q) : r[i] = q[i]
      /\ r[Len(q) + 1] = c
  BY DEF Command
<1>2. Len(q) \in Nat
  OBVIOUS
<1>3. \A i \in 1..Len(r) : i \in 1..Len(q) \/ i = Len(q) + 1
  BY <1>1, <1>2
<1>4. IsTransport(c)
  BY DEF IsTransport, Transport
<1> HIDE DEF r
<1>5. \A i \in 1..Len(q) : IsTransport(q[i]) => q[i].id \in (lo + 1)..hi
  BY DEF Queues
<1>6. \A i \in 1..Len(r) : IsTransport(r[i]) => r[i].id \in (lo + 1)..(hi + 1)
  BY <1>1, <1>3, <1>5
<1>7. \A i, j \in 1..Len(r) :
        i < j /\ IsTransport(r[i]) /\ IsTransport(r[j]) => r[i].id < r[j].id
  <2> SUFFICES ASSUME NEW i \in 1..Len(r), NEW j \in 1..Len(r), i < j,
                      IsTransport(r[i]), IsTransport(r[j])
               PROVE  r[i].id < r[j].id
    OBVIOUS
  <2>1. i \in 1..Len(q)
    BY <1>1, <1>2
  <2>2. CASE j \in 1..Len(q)
    BY <2>1, <2>2, <1>1 DEF Queues
  <2>3. CASE j = Len(q) + 1
    BY <2>1, <2>3, <1>1, <1>5
  <2>4. QED
    BY <2>2, <2>3, <1>3
<1>8. \A n \in (lo + 1)..(hi + 1) : \E i \in 1..Len(r) : IsTransport(r[i]) /\ r[i].id = n
  <2> TAKE n \in (lo + 1)..(hi + 1)
  <2>1. CASE n = hi + 1
    BY <2>1, <1>1, <1>2, <1>4
  <2>2. CASE n \in (lo + 1)..hi
    <3>1. PICK i \in 1..Len(q) : IsTransport(q[i]) /\ q[i].id = n
      BY <2>2 DEF Queues
    <3>2. QED
      BY <3>1, <1>1, <1>2
  <2>3. QED
    BY <2>1, <2>2
<1>9. QED
  BY <1>6, <1>7, <1>8 DEF Queues, r

(* What is left when the head is received. *)
LEMMA TailFacts ==
  ASSUME NEW q \in Seq(Command), q # <<>>
  PROVE  /\ Len(q) \in Nat /\ Len(q) > 0
         /\ Head(q) = q[1] /\ Head(q) \in Command
         /\ Tail(q) \in Seq(Command)
         /\ Len(Tail(q)) = Len(q) - 1
         /\ \A i \in 1..Len(Tail(q)) : Tail(q)[i] = q[i + 1]
  OBVIOUS

(* Receiving a command that is no transport. *)
LEMMA ReceiveOther ==
  ASSUME NEW q \in Seq(Command), NEW lo \in Nat, NEW hi \in Nat,
         q # <<>>, ~IsTransport(Head(q)), Queues(q, lo, hi)
  PROVE  Queues(Tail(q), lo, hi)
<1> DEFINE r == Tail(q)
<1>1. /\ Len(q) \in Nat /\ Len(q) > 0 /\ Head(q) = q[1]
      /\ Len(r) = Len(q) - 1
      /\ \A i \in 1..Len(r) : r[i] = q[i + 1]
  BY TailFacts
<1> HIDE DEF r
<1>2. \A i \in 1..Len(r) : i + 1 \in 1..Len(q) /\ r[i] = q[i + 1]
  BY <1>1
<1>3. \A i \in 1..Len(r) : IsTransport(r[i]) => r[i].id \in (lo + 1)..hi
  BY <1>2 DEF Queues
<1>4. \A i, j \in 1..Len(r) :
        i < j /\ IsTransport(r[i]) /\ IsTransport(r[j]) => r[i].id < r[j].id
  <2> TAKE i, j \in 1..Len(r)
  <2>1. i < j => i + 1 < j + 1
    BY <1>1
  <2>2. QED
    BY <2>1, <1>2 DEF Queues
<1>5. \A n \in (lo + 1)..hi : \E i \in 1..Len(r) : IsTransport(r[i]) /\ r[i].id = n
  <2> TAKE n \in (lo + 1)..hi
  <2>1. PICK i \in 1..Len(q) : IsTransport(q[i]) /\ q[i].id = n
    BY DEF Queues
  <2>2. i # 1
    BY <2>1, <1>1
  <2>3. i - 1 \in 1..Len(r) /\ r[i - 1] = q[i]
    BY <2>2, <1>1, <1>2
  <2>4. QED
    BY <2>1, <2>3
<1>6. QED
  BY <1>3, <1>4, <1>5 DEF Queues, r

(* The transport received is the one after the last that was executed. *)
LEMMA ReceiveTransport ==
  ASSUME NEW q \in Seq(Command), NEW lo \in Nat, NEW hi \in Nat,
         q # <<>>, IsTransport(Head(q)), Queues(q, lo, hi)
  PROVE  /\ Head(q).id = lo + 1
         /\ lo + 1 <= hi
         /\ Queues(Tail(q), lo + 1, hi)
<1> DEFINE r == Tail(q)
<1>1. /\ Len(q) \in Nat /\ Len(q) > 0 /\ Head(q) = q[1]
      /\ Len(r) = Len(q) - 1
      /\ \A i \in 1..Len(r) : r[i] = q[i + 1]
  BY TailFacts
<1> HIDE DEF r
<1>2. \A i \in 1..Len(r) : i + 1 \in 1..Len(q) /\ r[i] = q[i + 1]
  BY <1>1
<1>3. 1 \in 1..Len(q) /\ q[1].id \in (lo + 1)..hi
  BY <1>1 DEF Queues
<1>4. lo + 1 <= hi /\ lo + 1 \in (lo + 1)..hi
  BY <1>3
<1>5. PICK k \in 1..Len(q) : IsTransport(q[k]) /\ q[k].id = lo + 1
  BY <1>4 DEF Queues
<1>6. k = 1
  <2> SUFFICES ASSUME k > 1 PROVE FALSE
    BY <1>1
  <2>1. q[1].id < q[k].id
    BY <1>1, <1>3, <1>5 DEF Queues
  <2>2. QED
    BY <2>1, <1>3, <1>5
<1>7. q[1].id = lo + 1
  BY <1>5, <1>6
<1>8. \A i \in 1..Len(r) : IsTransport(r[i]) => r[i].id \in (lo + 2)..hi
  <2> SUFFICES ASSUME NEW i \in 1..Len(r), IsTransport(r[i])
               PROVE  r[i].id \in (lo + 2)..hi
    OBVIOUS
  <2>1. q[1].id < q[i + 1].id /\ q[i + 1].id \in (lo + 1)..hi
    BY <1>1, <1>2, <1>3 DEF Queues
  <2>2. QED
    BY <2>1, <1>2, <1>7
<1>9. \A i, j \in 1..Len(r) :
        i < j /\ IsTransport(r[i]) /\ IsTransport(r[j]) => r[i].id < r[j].id
  <2> TAKE i, j \in 1..Len(r)
  <2>1. i < j => i + 1 < j + 1
    BY <1>1
  <2>2. QED
    BY <2>1, <1>2 DEF Queues
<1>10. \A n \in (lo + 2)..hi : \E i \in 1..Len(r) : IsTransport(r[i]) /\ r[i].id = n
  <2> TAKE n \in (lo + 2)..hi
  <2>1. n \in (lo + 1)..hi /\ n # lo + 1
    OBVIOUS
  <2>2. PICK i \in 1..Len(q) : IsTransport(q[i]) /\ q[i].id = n
    BY <2>1 DEF Queues
  <2>3. i # 1
    BY <2>1, <2>2, <1>7
  <2>4. i - 1 \in 1..Len(r) /\ r[i - 1] = q[i]
    BY <2>3, <1>1, <1>2
  <2>5. QED
    BY <2>2, <2>4
<1>11. (lo + 1) + 1 = lo + 2
  OBVIOUS
<1>12. QED
  BY <1>1, <1>4, <1>7, <1>8, <1>9, <1>10, <1>11 DEF Queues, r

-----------------------------------------------------------------------------
(* The invariant. *)

LEMMA InitInv == Init => IInv
<1> SUFFICES ASSUME Init PROVE IInv
  OBVIOUS
<1>1. TypeOK
  <2>1. channel \in Seq(Command)
    BY DEF Init
  <2>2. QED
    BY <2>1 DEF Init, TypeOK
<1>2. Accounting
  BY DEF Init, Accounting, Queues
<1>3. Requests
  BY DEF Init, Requests, OneRequestQueued, InSnapshot
<1>4. Freshness
  BY SnapshotAssumption DEF Init, Freshness
<1>5. QED
  BY <1>1, <1>2, <1>3, <1>4 DEF IInv

LEMMA CommandKinds ==
  /\ Plain \in Command /\ ~IsTransport(Plain) /\ Plain.kind # "snapshot"
  /\ SnapshotRequest \in Command /\ ~IsTransport(SnapshotRequest)
  /\ SnapshotRequest.kind = "snapshot"
  /\ \A c \in Command : IsTransport(c) => c \in Transport /\ c.kind # "snapshot"
BY DEF Plain, SnapshotRequest, Command, IsTransport, Transport

(* The steps of the submitters. *)
LEMMA CountStep ==
  ASSUME IInv, NEW s \in Submitters, CountTransport(s)
  PROVE  IInv'
<1> USE DEF CountTransport
<1>1. TypeOK'
  BY DEF IInv, TypeOK
<1>2. Accounting'
  BY SubmittersAssumption DEF IInv, TypeOK, Accounting, Queues, IsTransport
<1>3. Requests'
  BY DEF IInv, Requests, OneRequestQueued, InSnapshot
<1>4. Freshness'
  BY DEF IInv, Freshness
<1>5. QED
  BY <1>1, <1>2, <1>3, <1>4 DEF IInv

LEMMA SendTransportStep ==
  ASSUME IInv, NEW s \in Submitters, NEW kind \in {"load", "control"}, SendTransport(s, kind)
  PROVE  IInv'
<1> DEFINE c == [kind |-> kind, id |-> requested]
<1> USE DEF SendTransport
<1>1. /\ requested = lastTransport + 1 /\ requested \in Nat /\ lastTransport \in Nat
      /\ player.ran \in Nat /\ player.ran <= lastTransport /\ channel \in Seq(Command)
  BY SubmittersAssumption DEF IInv, TypeOK, Accounting
<1>2. c \in Transport /\ c \in Command /\ c.id = lastTransport + 1 /\ IsTransport(c)
      /\ c.kind # "snapshot"
  BY <1>1 DEF Transport, Command, IsTransport
<1> HIDE DEF c
<1>3. CASE connected
  <2>1. channel' = Append(channel, c) /\ lastTransport' = requested /\ requested' = requested
    BY <1>3 DEF c
  <2>2. TypeOK'
    BY <2>1, <1>1, <1>2, <1>3 DEF IInv, TypeOK
  <2>3. Queues(channel', player.ran, lastTransport')
    BY <2>1, <1>1, <1>2, <1>3, SendNextTransport DEF IInv, Accounting
  <2>4. Accounting'
    <3>1. (connected => Queues(channel, player.ran, lastTransport))'
      BY <2>3 DEF Queues, IsTransport
    <3>2. QED
      BY <3>1, <2>1, <1>1, <1>3 DEF IInv, Accounting
  <2>5. Len(channel') = Len(channel) + 1 /\ Len(channel) \in Nat
        /\ channel'[Len(channel) + 1] = c /\ \A i \in 1..Len(channel) : channel'[i] = channel[i]
        /\ DOMAIN channel = 1..Len(channel) /\ DOMAIN channel' = 1..Len(channel')
    BY <2>1, <1>1, <1>2
  <2>6. Requests'
    <3>1. \A i \in DOMAIN channel' : channel'[i].kind = "snapshot" =>
            i \in DOMAIN channel /\ channel'[i] = channel[i]
      BY <2>5, <1>2
    <3>2. QED
      BY <3>1, <2>5, <1>3 DEF IInv, Requests, OneRequestQueued, InSnapshot
  <2>7. Freshness'
    BY <1>3 DEF IInv, Freshness
  <2>8. QED
    BY <2>2, <2>4, <2>6, <2>7 DEF IInv
<1>4. CASE ~connected
  <2>1. TypeOK'
    BY <1>1, <1>4 DEF IInv, TypeOK
  <2>2. Accounting'
    BY <1>1, <1>4 DEF IInv, Accounting
  <2>3. Requests'
    BY <1>4 DEF IInv, Requests, OneRequestQueued, InSnapshot
  <2>4. Freshness'
    BY <1>4 DEF IInv, Freshness
  <2>5. QED
    BY <2>1, <2>2, <2>3, <2>4 DEF IInv
<1>5. QED
  BY <1>3, <1>4

LEMMA SendPlainStep ==
  ASSUME IInv, SendPlain
  PROVE  IInv'
<1> USE DEF SendPlain
<1>1. /\ channel \in Seq(Command) /\ channel' = Append(channel, Plain) /\ connected
      /\ player.ran \in Nat /\ lastTransport \in Nat
  BY DEF IInv, TypeOK, submission
<1>2. Len(channel') = Len(channel) + 1 /\ Len(channel) \in Nat
      /\ channel'[Len(channel) + 1] = Plain
      /\ \A i \in 1..Len(channel) : channel'[i] = channel[i]
      /\ DOMAIN channel = 1..Len(channel) /\ DOMAIN channel' = 1..Len(channel')
  BY <1>1, CommandKinds
<1>3. TypeOK'
  BY <1>1, CommandKinds DEF IInv, TypeOK, submission
<1>4. Accounting'
  <2>1. Queues(channel', player.ran, lastTransport)
    BY <1>1, CommandKinds, SendOther DEF IInv, Accounting
  <2>2. Queues(channel, player.ran, lastTransport)'
    BY <2>1 DEF Queues, IsTransport, submission
  <2>3. QED
    BY <2>2 DEF IInv, Accounting, submission
<1>5. Requests'
  <2>1. \A i \in DOMAIN channel' : channel'[i].kind = "snapshot" =>
          i \in DOMAIN channel /\ channel'[i] = channel[i]
    BY <1>2, CommandKinds
  <2>2. QED
    BY <2>1, <1>2 DEF IInv, Requests, OneRequestQueued, InSnapshot
<1>6. Freshness'
  BY DEF IInv, Freshness
<1>7. QED
  BY <1>3, <1>4, <1>5, <1>6 DEF IInv

(* Receiving leaves no more snapshot requests than there were, and none if *)
(* the one received was the one queued.                                    *)
LEMMA ReceiveRequests ==
  ASSUME TypeOK, Requests, channel # <<>>, NEW q, q = Tail(channel)
  PROVE  /\ \A i, j \in DOMAIN q : q[i].kind = "snapshot" /\ q[j].kind = "snapshot" => i = j
         /\ \A i \in DOMAIN q : q[i].kind = "snapshot" =>
              /\ snapshotRequested /\ ui.pc # "send" /\ ~InSnapshot
              /\ Head(channel).kind # "snapshot"
         /\ Head(channel).kind = "snapshot" => snapshotRequested /\ ui.pc # "send"
         /\ DOMAIN q = 1..Len(q)
<1>1. /\ Len(channel) \in Nat /\ Len(channel) > 0 /\ Head(channel) = channel[1]
      /\ q \in Seq(Command) /\ Len(q) = Len(channel) - 1
      /\ \A i \in 1..Len(q) : q[i] = channel[i + 1]
  BY TailFacts DEF TypeOK
<1>2. DOMAIN q = 1..Len(q) /\ DOMAIN channel = 1..Len(channel) /\ 1 \in DOMAIN channel
  BY <1>1 DEF TypeOK
<1>3. \A i \in DOMAIN q : i + 1 \in DOMAIN channel /\ q[i] = channel[i + 1] /\ i + 1 # 1
  BY <1>1, <1>2
<1>4. \A i, j \in DOMAIN q : i + 1 = j + 1 => i = j
  BY <1>1, <1>2
<1>5. QED
  BY <1>1, <1>2, <1>3, <1>4 DEF Requests, OneRequestQueued

LEMMA RunPlainStep ==
  ASSUME IInv, RunPlain
  PROVE  IInv'
<1> USE DEF RunPlain, Receives, submission
<1>1. /\ channel \in Seq(Command) /\ channel # <<>> /\ channel' = Tail(channel) /\ connected
      /\ player.ran \in Nat /\ lastTransport \in Nat /\ ~IsTransport(Head(channel))
  BY DEF IInv, TypeOK, IsTransport
<1>2. TypeOK'
  BY <1>1, TailFacts DEF IInv, TypeOK
<1>3. Accounting'
  <2>1. Queues(channel', player.ran, lastTransport)
    BY <1>1, ReceiveOther DEF IInv, Accounting
  <2>2. Queues(channel, player.ran, lastTransport)'
    BY <2>1 DEF Queues, IsTransport
  <2>3. QED
    BY <2>2 DEF IInv, Accounting
<1>4. Requests'
  BY <1>1, ReceiveRequests DEF IInv, Requests, OneRequestQueued, InSnapshot
<1>5. Freshness'
  BY DEF IInv, Freshness
<1>6. QED
  BY <1>2, <1>3, <1>4, <1>5 DEF IInv

LEMMA RunTransportStep ==
  ASSUME IInv, RunTransport
  PROVE  /\ IInv'
         /\ player'.ran = player.ran + 1 /\ player'.ran <= lastTransport
<1> USE DEF RunTransport, Receives, submission
<1>1. /\ channel \in Seq(Command) /\ channel # <<>> /\ channel' = Tail(channel) /\ connected
      /\ player.ran \in Nat /\ lastTransport \in Nat /\ IsTransport(Head(channel))
      /\ Queues(channel, player.ran, lastTransport)
      /\ worker.pc = "idle" /\ completed = player.ran
  BY DEF IInv, TypeOK, Accounting, IsTransport
<1>2. Head(channel).id = player.ran + 1 /\ player.ran + 1 <= lastTransport
      /\ Queues(Tail(channel), player.ran + 1, lastTransport)
  BY <1>1, ReceiveTransport
<1>3. /\ player'.ran = Head(channel).id
      /\ player' \in PlayerState
  <2>1. Head(channel).id \in Nat
    BY <1>1, <1>2
  <2>2. /\ player.raised \in SUBSET Raised /\ player.loaded \in BOOLEAN
        /\ player.count \in [Kinds -> Nat]
    BY DEF IInv, TypeOK
  <2>3. PICK kept \in SUBSET player.raised :
          player' = [ran    |-> Head(channel).id,
                     loaded |-> player.loaded \/ Head(channel).kind = "load",
                     count  |-> player.count,
                     raised |-> kept]
    OBVIOUS
  <2>4. kept \in SUBSET Raised
    BY <2>2
  <2>5. (player.loaded \/ Head(channel).kind = "load") \in BOOLEAN
    BY <2>2
  <2>6. QED
    BY <2>1, <2>2, <2>3, <2>4, <2>5 DEF PlayerState
<1>4. worker' \in [pc : {"ran"}, polled : SUBSET Event] /\ worker'.pc = "ran"
  BY DEF IInv, TypeOK
<1>5. TypeOK'
  BY <1>1, <1>3, <1>4, TailFacts DEF IInv, TypeOK, PlayerState
<1>6. Accounting'
  <2>1. Queues(channel', player'.ran, lastTransport')
    BY <1>1, <1>2, <1>3
  <2>2. Queues(channel, player.ran, lastTransport)'
    BY <2>1 DEF Queues, IsTransport
  <2>3. QED
    BY <1>1, <1>2, <1>3, <1>4, <2>2 DEF IInv, Accounting
<1>7. Requests'
  BY <1>1, <1>4, ReceiveRequests DEF IInv, Requests, OneRequestQueued, InSnapshot
<1>8. Freshness'
  <2>1. worker.polled = {} /\ worker'.polled = {}
    BY <1>1 DEF IInv, TypeOK, Freshness
  <2>2. QED
    BY <2>1 DEF IInv, Freshness
<1>9. QED
  BY <1>2, <1>3, <1>5, <1>6, <1>7, <1>8 DEF IInv

LEMMA CompleteStep ==
  ASSUME IInv, CompleteTransport
  PROVE  IInv'
<1> USE DEF CompleteTransport, submission
<1>1. /\ player.ran = completed + 1 /\ completed \in Nat /\ worker.pc = "ran"
      /\ completed' = completed + 1
  BY DEF IInv, TypeOK, Accounting
<1>2. worker' \in [pc : {"idle"}, polled : SUBSET Event] /\ worker'.pc = "idle"
  BY DEF IInv, TypeOK
<1>3. TypeOK'
  BY <1>1, <1>2 DEF IInv, TypeOK
<1>4. Accounting'
  <2>1. (connected => Queues(channel, player.ran, lastTransport))'
    BY DEF IInv, Accounting, Queues, IsTransport
  <2>2. QED
    BY <1>1, <1>2, <2>1 DEF IInv, Accounting
<1>5. Requests'
  BY <1>1, <1>2 DEF IInv, Requests, OneRequestQueued, InSnapshot
<1>6. Freshness'
  <2>1. latest # NoSnapshot => latest.epoch \in Nat
    BY DEF IInv, TypeOK, Snapshot
  <2>2. ui.snapshot \in Snapshot => ui.snapshot.epoch \in Nat
    BY DEF Snapshot
  <2>3. events' = events /\ events.epoch \in Nat
    BY DEF IInv, TypeOK
  <2>4. worker.polled = {} /\ worker'.polled = {}
    BY <1>1 DEF IInv, TypeOK, Freshness
  <2>5. QED
    BY <1>1, <2>1, <2>2, <2>3, <2>4 DEF IInv, Freshness
<1>7. QED
  BY <1>3, <1>4, <1>5, <1>6 DEF IInv

LEMMA PollStep ==
  ASSUME IInv, PollPlayer
  PROVE  IInv' /\ player'.ran = player.ran
<1> USE DEF PollPlayer, Receives, submission
<1>1. /\ channel \in Seq(Command) /\ channel # <<>> /\ channel' = Tail(channel) /\ connected
      /\ player.ran \in Nat /\ lastTransport \in Nat /\ ~IsTransport(Head(channel))
      /\ Head(channel).kind = "snapshot" /\ worker.pc = "idle"
  BY DEF IInv, TypeOK, IsTransport
<1>2. player' \in PlayerState /\ player'.ran = player.ran
  <2>1. player \in PlayerState
    BY DEF IInv, TypeOK, PlayerState
  <2>2. QED
    BY <2>1 DEF PlayerState
<1>3. worker' \in [pc : {"polled"}, polled : SUBSET Event] /\ worker'.pc = "polled"
  <2>1. player.raised \subseteq Raised /\ player.ran \in Nat
    BY DEF IInv, TypeOK
  <2>2. \A e \in player.raised : [kind |-> e.kind, n |-> e.n, ran |-> player.ran] \in Event
    BY <2>1 DEF Raised, Event
  <2>3. {[kind |-> e.kind, n |-> e.n, ran |-> player.ran] : e \in player.raised} \subseteq Event
    BY <2>2
  <2>4. QED
    BY <2>3
<1>4. TypeOK'
  BY <1>1, <1>2, <1>3, TailFacts DEF IInv, TypeOK, PlayerState
<1>5. Accounting'
  <2>1. Queues(channel', player.ran, lastTransport)
    BY <1>1, ReceiveOther DEF IInv, Accounting
  <2>2. Queues(channel', player'.ran, lastTransport')
    BY <2>1, <1>2
  <2>3. Queues(channel, player.ran, lastTransport)'
    BY <2>2 DEF Queues, IsTransport
  <2>4. QED
    BY <1>1, <1>2, <1>3, <2>3 DEF IInv, Accounting
<1>6. Requests'
  BY <1>1, <1>3, ReceiveRequests DEF IInv, Requests, OneRequestQueued, InSnapshot
<1>7. Freshness'
  <2>1. \A e \in worker'.polled : e.ran = player.ran
    OBVIOUS
  <2>2. QED
    BY <2>1, <1>2, <1>3 DEF IInv, Freshness
<1>8. QED
  BY <1>2, <1>4, <1>5, <1>6, <1>7 DEF IInv

LEMMA MergeStep ==
  ASSUME IInv, MergeEvents
  PROVE  IInv'
<1> USE DEF MergeEvents, submission
<1>1. /\ worker.pc = "polled" /\ completed \in Nat /\ player.ran = completed
      /\ player.loaded \in BOOLEAN
  BY DEF IInv, TypeOK, Accounting
<1>2. worker' \in [pc : {"merged"}, polled : SUBSET Event] /\ worker'.pc = "merged"
      /\ worker'.polled = {}
  OBVIOUS
<1>3. events' = [epoch |-> completed, pending |-> Merged(KeptEvents(completed), worker.polled)]
  OBVIOUS
<1>4. worker.polled \subseteq Event /\ \A e \in worker.polled : e.ran = completed
  BY <1>1 DEF IInv, TypeOK, Freshness
<1>5. KeptEvents(completed) \subseteq Event /\ \A e \in KeptEvents(completed) : e.ran = completed
  BY DEF IInv, TypeOK, Freshness, KeptEvents
<1>6. /\ events' \in [epoch : Nat, pending : SUBSET Event]
      /\ events'.epoch <= completed
      /\ \A e \in events'.pending : e.ran = events'.epoch
  <2>1. \A e \in Merged(KeptEvents(completed), worker.polled) :
          e \in KeptEvents(completed) \/ e \in worker.polled
    BY DEF Merged
  <2> DEFINE now == Merged(KeptEvents(completed), worker.polled)
  <2>2. now \subseteq Event /\ \A e \in now : e.ran = completed
    BY <2>1, <1>4, <1>5
  <2> HIDE DEF now
  <2>3. events' = [epoch |-> completed, pending |-> now]
    BY <1>3 DEF now
  <2>4. QED
    BY <2>2, <2>3, <1>1
<1>7. TypeOK'
  BY <1>2, <1>6 DEF IInv, TypeOK
<1>8. Accounting'
  <2>1. (connected => Queues(channel, player.ran, lastTransport))'
    BY DEF IInv, Accounting, Queues, IsTransport
  <2>2. QED
    BY <1>1, <1>2, <2>1 DEF IInv, Accounting
<1>9. Requests'
  BY <1>1, <1>2 DEF IInv, Requests, OneRequestQueued, InSnapshot
<1>10. Freshness'
  BY <1>2, <1>6 DEF IInv, Freshness
<1>11. QED
  BY <1>7, <1>8, <1>9, <1>10 DEF IInv

LEMMA PublishStep ==
  ASSUME IInv, PublishSnapshot
  PROVE  IInv'
<1> USE DEF PublishSnapshot, submission
<1>1. /\ worker.pc = "merged" /\ completed \in Nat /\ player.ran = completed
  BY DEF IInv, TypeOK, Accounting
<1>2. worker' \in [pc : {"published"}, polled : SUBSET Event] /\ worker'.pc = "published"
  BY DEF IInv, TypeOK
<1>3. latest' \in Snapshot /\ latest'.epoch = completed /\ latest'.ran = completed
  BY <1>1 DEF Snapshot
<1>4. TypeOK'
  BY <1>2, <1>3 DEF IInv, TypeOK
<1>5. Accounting'
  <2>1. (connected => Queues(channel, player.ran, lastTransport))'
    BY DEF IInv, Accounting, Queues, IsTransport
  <2>2. QED
    BY <1>1, <1>2, <2>1 DEF IInv, Accounting
<1>6. Requests'
  BY <1>1, <1>2 DEF IInv, Requests, OneRequestQueued, InSnapshot
<1>7. Freshness'
  BY <1>1, <1>3 DEF IInv, Freshness
<1>8. QED
  BY <1>4, <1>5, <1>6, <1>7 DEF IInv

LEMMA ReleaseStep ==
  ASSUME IInv, ReleaseRequest
  PROVE  IInv'
<1> USE DEF ReleaseRequest, submission
<1>1. worker.pc = "published" /\ InSnapshot
  BY DEF InSnapshot
<1>2. worker' \in [pc : {"idle"}, polled : SUBSET Event] /\ worker'.pc = "idle"
  BY DEF IInv, TypeOK
<1>3. TypeOK'
  BY <1>2 DEF IInv, TypeOK
<1>4. Accounting'
  <2>1. (connected => Queues(channel, player.ran, lastTransport))'
    BY DEF IInv, Accounting, Queues, IsTransport
  <2>2. QED
    BY <1>1, <1>2, <2>1 DEF IInv, Accounting
<1>5. Requests'
  <2>1. \A i \in 1..Len(channel) : channel[i].kind # "snapshot"
    BY <1>1 DEF IInv, Requests
  <2>2. ui.pc # "send"
    BY <1>1 DEF IInv, Requests
  <2>3. DOMAIN channel = 1..Len(channel)
    BY DEF IInv, TypeOK
  <2>4. QED
    BY <1>2, <2>1, <2>2, <2>3 DEF Requests, OneRequestQueued, InSnapshot
<1>6. Freshness'
  BY DEF IInv, Freshness
<1>7. QED
  BY <1>3, <1>4, <1>5, <1>6 DEF IInv

LEMMA PanicStep ==
  ASSUME IInv, WorkerPanics
  PROVE  IInv'
<1> USE DEF WorkerPanics, submission
<1>1. channel' = <<>> /\ connected' = FALSE /\ channel' \in Seq(Command)
  OBVIOUS
<1>2. TypeOK'
  BY <1>1 DEF IInv, TypeOK
<1>3. Accounting'
  BY <1>1 DEF IInv, Accounting
<1>4. Requests'
  BY <1>1 DEF IInv, Requests, OneRequestQueued, InSnapshot
<1>5. Freshness'
  BY DEF IInv, Freshness
<1>6. QED
  BY <1>2, <1>3, <1>4, <1>5 DEF IInv

LEMMA RaiseStep ==
  ASSUME IInv, NEW kind \in Kinds, EngineRaises(kind)
  PROVE  IInv' /\ player'.ran = player.ran
<1> USE DEF EngineRaises, submission
<1>1. player' \in PlayerState /\ player'.ran = player.ran
  <2>1. player \in PlayerState /\ player.count[kind] \in Nat
    BY DEF IInv, TypeOK, PlayerState
  <2>2. [kind |-> kind, n |-> player.count[kind] + 1] \in Raised
    BY <2>1 DEF Raised
  <2>3. {e \in player.raised : e.kind # kind} \cup {[kind |-> kind, n |-> player.count[kind] + 1]}
          \subseteq Raised
    BY <2>1, <2>2 DEF PlayerState
  <2>4. [player.count EXCEPT ![kind] = player.count[kind] + 1] \in [Kinds -> Nat]
    BY <2>1 DEF PlayerState
  <2>5. QED
    BY <2>1, <2>3, <2>4 DEF PlayerState
<1>2. TypeOK'
  BY <1>1 DEF IInv, TypeOK, PlayerState
<1>3. Accounting'
  <2>1. (connected => Queues(channel, player.ran, lastTransport))'
    BY <1>1 DEF IInv, Accounting, Queues, IsTransport
  <2>2. QED
    BY <1>1, <2>1 DEF IInv, Accounting
<1>4. Requests'
  BY DEF IInv, Requests, OneRequestQueued, InSnapshot
<1>5. Freshness'
  BY DEF IInv, Freshness
<1>6. QED
  BY <1>1, <1>2, <1>3, <1>4, <1>5 DEF IInv

(* The steps of the UI leave the counters, the receipts and the player     *)
(* alone; what they send is not a transport.                               *)
LEMMA SameAccounting ==
  ASSUME Accounting, UNCHANGED <<connected, channel, submission, completed, player, worker>>
  PROVE  Accounting'
<1>1. (connected => Queues(channel, player.ran, lastTransport))'
  BY DEF Accounting, Queues, IsTransport, submission
<1>2. QED
  BY <1>1 DEF Accounting, submission

LEMMA SwapStep ==
  ASSUME IInv, SwapRequested
  PROVE  IInv'
<1> USE DEF SwapRequested, submission
<1>1. /\ ui.pc = "idle" /\ ui'.pc \in {"send", "read"}
      /\ ui' \in [pc : {"idle", "send", "read", "check", "take"},
                   snapshot : Snapshot \cup {NoSnapshot}]
  BY DEF IInv, TypeOK
<1>2. TypeOK'
  BY <1>1 DEF IInv, TypeOK
<1>3. Accounting'
  BY SameAccounting DEF IInv
<1>4. Requests'
  <2>1. CASE snapshotRequested
    <3>1. ui'.pc = "read"
      BY <2>1 DEF IInv, TypeOK
    <3>2. QED
      BY <2>1, <3>1 DEF IInv, Requests, OneRequestQueued, InSnapshot
  <2>2. CASE ~snapshotRequested
    <3>1. \A i \in 1..Len(channel) : channel[i].kind # "snapshot"
      BY <2>2 DEF IInv, Requests
    <3>2. ~InSnapshot
      BY <2>2 DEF IInv, Requests
    <3>3. DOMAIN channel = 1..Len(channel)
      BY DEF IInv, TypeOK
    <3>4. QED
      BY <3>1, <3>2, <3>3 DEF Requests, OneRequestQueued, InSnapshot
  <2>3. QED
    BY <2>1, <2>2
<1>5. Freshness'
  BY <1>1 DEF IInv, Freshness
<1>6. QED
  BY <1>2, <1>3, <1>4, <1>5 DEF IInv

LEMMA SendRequestStep ==
  ASSUME IInv, SendRequest
  PROVE  IInv'
<1> USE DEF SendRequest, submission
<1>1. /\ ui.pc = "send" /\ ui'.pc = "read" /\ snapshotRequested
      /\ ui' \in [pc : {"idle", "send", "read", "check", "take"},
                   snapshot : Snapshot \cup {NoSnapshot}]
  BY DEF IInv, TypeOK, Requests
<1>2. ~InSnapshot /\ \A i \in 1..Len(channel) : channel[i].kind # "snapshot"
  BY <1>1 DEF IInv, Requests
<1>3. DOMAIN channel = 1..Len(channel) /\ Len(channel) \in Nat /\ channel \in Seq(Command)
      /\ player.ran \in Nat /\ lastTransport \in Nat
  BY DEF IInv, TypeOK
<1>4. Freshness'
  BY <1>1 DEF IInv, Freshness
<1>5. CASE connected
  <2>1. channel' = Append(channel, SnapshotRequest) /\ snapshotRequested' = snapshotRequested
    BY <1>5
  <2>2. /\ Len(channel') = Len(channel) + 1 /\ DOMAIN channel' = 1..Len(channel')
        /\ \A i \in 1..Len(channel) : channel'[i] = channel[i]
    <3>1. SnapshotRequest \in Command
      BY CommandKinds
    <3>2. QED
      BY <2>1, <1>3, <3>1, AppendFacts
  <2>3. TypeOK'
    <3>1. channel' \in Seq(Command)
      <4>1. SnapshotRequest \in Command
        BY CommandKinds
      <4>2. QED
        BY <2>1, <1>3, <4>1, AppendFacts
    <3>2. snapshotRequested' \in BOOLEAN
      BY <2>1 DEF IInv, TypeOK
    <3>3. QED
      BY <1>1, <3>1, <3>2 DEF IInv, TypeOK
  <2>4. Accounting'
    <3>1. Queues(channel', player.ran, lastTransport)
      BY <1>3, <1>5, <2>1, CommandKinds, SendOther DEF IInv, Accounting
    <3>2. Queues(channel, player.ran, lastTransport)'
      BY <3>1 DEF Queues, IsTransport
    <3>3. QED
      BY <3>2, <1>5 DEF IInv, Accounting
  <2>5. Requests'
    <3>1. \A i \in DOMAIN channel' : channel'[i].kind = "snapshot" => i = Len(channel) + 1
      BY <1>2, <1>3, <2>2
    <3>2. QED
      BY <1>1, <1>2, <2>1, <2>2, <3>1 DEF Requests, OneRequestQueued, InSnapshot
  <2>6. QED
    BY <1>4, <2>3, <2>4, <2>5 DEF IInv
<1>6. CASE ~connected
  <2>1. TypeOK'
    BY <1>1, <1>6 DEF IInv, TypeOK
  <2>2. Accounting'
    BY <1>6, SameAccounting DEF IInv
  <2>3. Requests'
    BY <1>1, <1>2, <1>3, <1>6 DEF Requests, OneRequestQueued, InSnapshot
  <2>4. QED
    BY <1>4, <2>1, <2>2, <2>3 DEF IInv
<1>7. QED
  BY <1>5, <1>6

LEMMA HandedType ==
  ASSUME TypeOK
  PROVE  HandedWith(events.pending) \in [Kinds -> Nat]
<1>1. ASSUME NEW k \in Kinds, \E e \in events.pending : e.kind = k
      PROVE  (CHOOSE e \in events.pending : e.kind = k).n \in Nat
  BY <1>1 DEF TypeOK, Event
<1>2. QED
  BY <1>1 DEF HandedWith, TypeOK

LEMMA ReadSteps ==
  ASSUME IInv, CloneSnapshot \/ CheckEpoch \/ TakeEvents
  PROVE  IInv'
<1> USE DEF submission
<1>1. UNCHANGED <<connected, channel, submission, completed, player, worker, latest,
                  snapshotRequested>>
  BY DEF CloneSnapshot, CheckEpoch, TakeEvents
<1>2. ui'.pc # "send"
  BY DEF CloneSnapshot, CheckEpoch, TakeEvents, IInv, TypeOK
<1>3. /\ ui' \in [pc : {"idle", "send", "read", "check", "take"},
                   snapshot : Snapshot \cup {NoSnapshot}]
      /\ ui'.pc \in {"check", "take"} =>
           /\ ui'.snapshot \in Snapshot
           /\ ui'.snapshot.epoch <= completed
           /\ ui'.snapshot.ran = ui'.snapshot.epoch
  <2>1. CASE CloneSnapshot
    BY <2>1 DEF CloneSnapshot, IInv, TypeOK, Freshness
  <2>2. CASE CheckEpoch
    BY <2>2 DEF CheckEpoch, IInv, TypeOK, Freshness
  <2>3. CASE TakeEvents
    BY <2>3 DEF TakeEvents
  <2>4. QED
    BY <2>1, <2>2, <2>3
<1>4. /\ events' \in [epoch : Nat, pending : SUBSET Event]
      /\ events'.epoch <= completed
      /\ \A e \in events'.pending : e.ran = events'.epoch
  <2>1. CASE CloneSnapshot \/ CheckEpoch
    BY <2>1 DEF CloneSnapshot, CheckEpoch, IInv, TypeOK, Freshness
  <2>2. CASE TakeEvents
    BY <2>2 DEF TakeEvents, IInv, TypeOK, Freshness
  <2>3. QED
    BY <2>1, <2>2
<1>5. TypeOK'
  <2>1. handed' \in [Kinds -> Nat]
    BY HandedType DEF IInv, TypeOK, CloneSnapshot, CheckEpoch, TakeEvents
  <2>2. QED
    BY <2>1, <1>1, <1>3, <1>4 DEF IInv, TypeOK
<1>6. Accounting'
  BY <1>1, SameAccounting DEF IInv
<1>7. Requests'
  BY <1>1, <1>2 DEF IInv, Requests, OneRequestQueued, InSnapshot
<1>8. Freshness'
  BY <1>1, <1>3, <1>4 DEF IInv, Freshness
<1>9. QED
  BY <1>5, <1>6, <1>7, <1>8 DEF IInv

LEMMA StutterStep ==
  ASSUME IInv, UNCHANGED vars
  PROVE  IInv'
<1> USE DEF vars, submission
<1>1. TypeOK'
  BY DEF IInv, TypeOK
<1>2. Accounting'
  BY SameAccounting DEF IInv
<1>3. Requests'
  BY DEF IInv, Requests, OneRequestQueued, InSnapshot
<1>4. Freshness'
  BY DEF IInv, Freshness
<1>5. QED
  BY <1>1, <1>2, <1>3, <1>4 DEF IInv

(* Only receiving a transport moves player.ran, and then by one. *)
LEMMA Step ==
  ASSUME IInv, [Next]_vars
  PROVE  /\ IInv'
         /\ player'.ran # player.ran =>
              player'.ran = player.ran + 1 /\ player'.ran <= lastTransport
<1>1. CASE \E s \in Submitters : CountTransport(s)
  BY <1>1, CountStep DEF CountTransport
<1>2. CASE \E s \in Submitters : SendTransport(s, "load") \/ SendTransport(s, "control")
  BY <1>2, SendTransportStep DEF SendTransport
<1>3. CASE SendPlain
  BY <1>3, SendPlainStep DEF SendPlain
<1>4. CASE RunPlain
  BY <1>4, RunPlainStep DEF RunPlain
<1>5. CASE RunTransport
  BY <1>5, RunTransportStep
<1>6. CASE CompleteTransport
  BY <1>6, CompleteStep DEF CompleteTransport
<1>7. CASE PollPlayer
  BY <1>7, PollStep
<1>8. CASE MergeEvents
  BY <1>8, MergeStep DEF MergeEvents
<1>9. CASE PublishSnapshot
  BY <1>9, PublishStep DEF PublishSnapshot
<1>10. CASE ReleaseRequest
  BY <1>10, ReleaseStep DEF ReleaseRequest
<1>11. CASE WorkerPanics
  BY <1>11, PanicStep DEF WorkerPanics
<1>12. CASE \E k \in Kinds : EngineRaises(k)
  BY <1>12, RaiseStep
<1>13. CASE SwapRequested
  BY <1>13, SwapStep DEF SwapRequested
<1>14. CASE SendRequest
  BY <1>14, SendRequestStep DEF SendRequest
<1>15. CASE CloneSnapshot \/ CheckEpoch \/ TakeEvents
  BY <1>15, ReadSteps DEF CloneSnapshot, CheckEpoch, TakeEvents
<1>16. CASE UNCHANGED vars
  BY <1>16, StutterStep DEF vars
<1>17. QED
  BY <1>1, <1>2, <1>3, <1>4, <1>5, <1>6, <1>7, <1>8, <1>9, <1>10, <1>11, <1>12, <1>13, <1>14,
     <1>15, <1>16 DEF Next, Worker, Tick

-----------------------------------------------------------------------------
(* The order of the one-shot events.  Along the way from the engine to the *)
(* UI, the events of a kind get younger: the one handed over, the one      *)
(* pending, the one a poll has fetched, the one still in the engine.       *)

SameKindOnce(S) == \A e, f \in S : e.kind = f.kind => e = f
Before(S, T) == \A e \in S, f \in T : e.kind = f.kind => e.n < f.n

EventOrder ==
  /\ SameKindOnce(player.raised) /\ SameKindOnce(worker.polled) /\ SameKindOnce(events.pending)
  /\ \A e \in player.raised : e.n = player.count[e.kind]
  /\ \A e \in worker.polled : e.n <= player.count[e.kind]
  /\ \A e \in events.pending : e.n <= player.count[e.kind]
  /\ \A k \in Kinds : handed[k] <= player.count[k]
  /\ Before(events.pending, worker.polled)
  /\ Before(events.pending, player.raised)
  /\ Before(worker.polled, player.raised)
  /\ \A e \in player.raised \cup worker.polled \cup events.pending : handed[e.kind] < e.n

(* What a slot holds is the latest a poll has brought, and so is what a    *)
(* poll is bringing.                                                       *)
Latest ==
  /\ \A e \in worker.polled :
       \/ e.n = player.count[e.kind]
       \/ \E f \in player.raised : f.kind = e.kind /\ f.n = player.count[e.kind]
  /\ \A e \in events.pending :
       e.kind \in SlotKinds /\ e.ran = player.ran => LatestBrought(e)

Ordered == EventOrder /\ Latest

LEMMA InitOrdered == Init => Ordered
BY DEF Init, Ordered, EventOrder, Latest, SameKindOnce, Before

LEMMA SameOrdered ==
  ASSUME Ordered, player' = player, worker'.polled = worker.polled, events' = events,
         handed' = handed
  PROVE  Ordered'
BY DEF Ordered, EventOrder, Latest, LatestBrought, SameKindOnce, Before

LEMMA RunTransportOrdered ==
  ASSUME IInv, Ordered, RunTransport
  PROVE  Ordered'
<1>1. /\ player'.count = player.count /\ player'.raised \subseteq player.raised
      /\ player'.ran = player.ran + 1
  <2>1. player'.count = player.count /\ player'.raised \subseteq player.raised
    BY DEF RunTransport
  <2>2. QED
    BY <2>1, RunTransportStep
<1>2. /\ worker.polled = {} /\ worker'.polled = {}
      /\ events' = events /\ handed' = handed
  BY DEF RunTransport, Receives, IInv, TypeOK, Freshness
<1>3. EventOrder'
  BY <1>1, <1>2 DEF Ordered, EventOrder, SameKindOnce, Before
<1>4. \A e \in events.pending : e.ran # player'.ran
  <2>1. /\ events.epoch \in Nat /\ player.ran \in Nat /\ completed \in Nat
        /\ events.epoch <= completed /\ completed <= player.ran
        /\ \A e \in events.pending : e.ran = events.epoch
    BY DEF IInv, TypeOK, Freshness, Accounting
  <2>2. QED
    BY <2>1, <1>1
<1>5. Latest'
  BY <1>2, <1>4 DEF Latest
<1>6. QED
  BY <1>3, <1>5 DEF Ordered

LEMMA PollOrdered ==
  ASSUME IInv, Ordered, PollPlayer
  PROVE  Ordered'
<1>1. /\ player'.count = player.count /\ player'.raised = {} /\ player'.ran = player.ran
      /\ player.ran \in Nat
  BY DEF PollPlayer, IInv, TypeOK
<1>2. /\ worker.polled = {} /\ events' = events /\ handed' = handed
      /\ worker'.polled = {[kind |-> e.kind, n |-> e.n, ran |-> player.ran] : e \in player.raised}
  BY DEF PollPlayer, Receives, IInv, TypeOK, Freshness
<1>3. \A f \in worker'.polled : \E e \in player.raised :
        f.kind = e.kind /\ f.n = e.n /\ f.ran = player.ran
        /\ f = [kind |-> e.kind, n |-> e.n, ran |-> player.ran]
  BY <1>2
<1>4. ASSUME NEW e \in player.raised
      PROVE  \E f \in worker'.polled : f.kind = e.kind /\ f.n = e.n
  <2>1. [kind |-> e.kind, n |-> e.n, ran |-> player.ran] \in worker'.polled
    BY <1>2
  <2>2. QED
    BY <2>1
<1>5. /\ player.raised \subseteq Raised /\ player.count \in [Kinds -> Nat]
  BY DEF IInv, TypeOK
<1>6. EventOrder'
  <2>1. SameKindOnce(worker'.polled)
    BY <1>3 DEF Ordered, EventOrder, SameKindOnce
  <2>2. \A f \in worker'.polled : f.n = player.count[f.kind] /\ f.n <= player.count[f.kind]
    BY <1>3, <1>5 DEF Ordered, EventOrder, Raised
  <2>3. Before(events.pending, worker'.polled)
    BY <1>3 DEF Ordered, EventOrder, Before
  <2>4. \A f \in worker'.polled : handed[f.kind] < f.n
    BY <1>3 DEF Ordered, EventOrder
  <2>5. QED
    BY <1>1, <1>2, <2>1, <2>2, <2>3, <2>4 DEF Ordered, EventOrder, SameKindOnce, Before
<1>7. Latest'
  <2>1. \A f \in worker'.polled : f.n = player.count[f.kind]
    BY <1>3 DEF Ordered, EventOrder
  <2>2. ASSUME NEW e \in events.pending, e.kind \in SlotKinds, e.ran = player.ran
        PROVE  \/ e.n = player.count[e.kind]
               \/ \E f \in worker'.polled : f.kind = e.kind /\ f.n = player.count[e.kind]
    <3>1. LatestBrought(e)
      BY <2>2 DEF Ordered, Latest
    <3>2. QED
      BY <3>1, <1>2, <1>4 DEF LatestBrought
  <2>3. QED
    BY <1>1, <1>2, <2>1, <2>2 DEF Latest, LatestBrought
<1>8. QED
  BY <1>6, <1>7 DEF Ordered

LEMMA MergedFacts ==
  ASSUME NEW old, NEW new, SameKindOnce(old), SameKindOnce(new), Before(old, new),
         \A e \in old \cup new : e.kind \in Kinds /\ e.n \in Nat
  PROVE  /\ SameKindOnce(Merged(old, new))
         /\ Merged(old, new) \subseteq old \cup new
         /\ \A e \in old : e.kind \in SlotKinds /\ e \in Merged(old, new) =>
              \A f \in new : f.kind # e.kind
         /\ \A e \in old : e \notin Merged(old, new) =>
              /\ e.kind \in SlotKinds
              /\ \E f \in Merged(old, new) : f.kind = e.kind /\ e.n < f.n
<1>1. Merged(old, new) \subseteq old \cup new
  BY DEF Merged
<1>2. \A e \in old : e \notin new
  BY DEF Before
<1>3. \A e \in old : \A f \in new : e.kind = f.kind => e.n < f.n
  BY DEF Before
<1>4. ASSUME NEW e \in old, e.kind \in SlotKinds, e \in Merged(old, new), NEW f \in new
      PROVE  f.kind # e.kind
  <2>1. e.kind \notin FlagKinds /\ e \notin new
    BY <1>2, <1>4, KindsAssumption
  <2>2. QED
    BY <2>1, <1>4 DEF Merged
<1>5. ASSUME NEW e \in Merged(old, new), NEW f \in Merged(old, new), e.kind = f.kind
      PROVE  e = f
  BY <1>5, KindsAssumption DEF Merged, SameKindOnce, Kinds
<1>6. ASSUME NEW e \in old, e \notin Merged(old, new)
      PROVE  /\ e.kind \in SlotKinds
             /\ \E f \in Merged(old, new) : f.kind = e.kind /\ e.n < f.n
  <2>1. e.kind \notin FlagKinds
    BY <1>6 DEF Merged
  <2>2. e.kind \in SlotKinds
    BY <2>1 DEF Kinds
  <2>3. PICK f \in new : f.kind = e.kind
    BY <1>6 DEF Merged
  <2>4. f \in Merged(old, new)
    BY <2>2, <2>3 DEF Merged
  <2>5. QED
    BY <2>2, <2>3, <2>4, <1>3
<1>7. QED
  BY <1>1, <1>4, <1>5, <1>6 DEF SameKindOnce

LEMMA MergeOrdered ==
  ASSUME IInv, Ordered, MergeEvents
  PROVE  Ordered'
<1> DEFINE old == KeptEvents(completed)
           new == worker.polled
           now == Merged(old, new)
<1>1. /\ old \subseteq events.pending
      /\ new \subseteq Event /\ events.pending \subseteq Event
  BY DEF KeptEvents, IInv, TypeOK
<1>2. /\ player' = player /\ handed' = handed /\ worker'.polled = {} /\ events'.pending = now
  BY DEF MergeEvents
<1>3. \A e \in old \cup new : e.kind \in Kinds /\ e.n \in Nat
  BY <1>1 DEF Event
<1>4. SameKindOnce(old) /\ SameKindOnce(new) /\ Before(old, new)
  BY <1>1 DEF Ordered, EventOrder, SameKindOnce, Before
<1> HIDE DEF old, new
<1>5. /\ SameKindOnce(now) /\ now \subseteq old \cup new
      /\ \A e \in old : e.kind \in SlotKinds /\ e \in now => \A f \in new : f.kind # e.kind
  BY <1>3, <1>4, MergedFacts
<1> HIDE DEF now
<1>6. now \subseteq events.pending \cup worker.polled
  BY <1>5, <1>1 DEF new
<1>7. EventOrder'
  <2>1. /\ SameKindOnce(player.raised)
        /\ \A e \in player.raised : e.n = player.count[e.kind]
        /\ \A k \in Kinds : handed[k] <= player.count[k]
    BY DEF Ordered, EventOrder
  <2>2. /\ \A e \in now : e.n <= player.count[e.kind]
        /\ \A e \in now : handed[e.kind] < e.n
        /\ \A e \in player.raised : handed[e.kind] < e.n
    BY <1>6 DEF Ordered, EventOrder
  <2>3. Before(now, player.raised)
    BY <1>6 DEF Ordered, EventOrder, Before
  <2>4. QED
    BY <1>2, <1>5, <2>1, <2>2, <2>3 DEF EventOrder, SameKindOnce, Before
<1>8. Latest'
  <2>1. ASSUME NEW e \in now, e.kind \in SlotKinds, e.ran = player.ran
        PROVE  \/ e.n = player.count[e.kind]
               \/ \E f \in player.raised : f.kind = e.kind /\ f.n = player.count[e.kind]
    <3>1. CASE e \in new
      BY <3>1 DEF new, Ordered, Latest
    <3>2. CASE e \in old
      <4>1. \A f \in worker.polled : f.kind # e.kind
        BY <3>2, <2>1, <1>5 DEF new
      <4>2. LatestBrought(e)
        BY <3>2, <2>1, <1>1 DEF Ordered, Latest
      <4>3. QED
        BY <4>1, <4>2 DEF LatestBrought
    <3>3. QED
      BY <3>1, <3>2, <1>5
  <2>2. QED
    BY <2>1, <1>2 DEF Latest, LatestBrought
<1>9. QED
  BY <1>7, <1>8 DEF Ordered

LEMMA RaiseOrdered ==
  ASSUME IInv, Ordered, NEW kind \in Kinds, EngineRaises(kind)
  PROVE  Ordered'
<1> DEFINE n == player.count[kind] + 1
<1>1. player.count \in [Kinds -> Nat] /\ player.raised \subseteq Raised
      /\ worker.polled \subseteq Event /\ events.pending \subseteq Event
      /\ handed \in [Kinds -> Nat]
  BY DEF IInv, TypeOK
<1>2. /\ player'.count = [player.count EXCEPT ![kind] = n]
      /\ player'.raised = {e \in player.raised : e.kind # kind} \cup {[kind |-> kind, n |-> n]}
      /\ player'.ran = player.ran
      /\ worker' = worker /\ events' = events /\ handed' = handed
  BY DEF EngineRaises, IInv, TypeOK
<1>3. /\ player'.count[kind] = n /\ n \in Nat /\ player.count[kind] < n
      /\ \A k \in Kinds : k # kind => player'.count[k] = player.count[k]
      /\ \A k \in Kinds : player.count[k] \in Nat /\ player'.count[k] \in Nat
      /\ \A k \in Kinds : player.count[k] <= player'.count[k]
  BY <1>1, <1>2
<1> DEFINE fresh == [kind |-> kind, n |-> n]
<1>4. fresh.kind = kind /\ fresh.n = n
  OBVIOUS
<1>5. \A e \in player'.raised : (e \in player.raised /\ e.kind # kind) \/ e = fresh
  BY <1>2
<1>6. fresh \in player'.raised /\ \A e \in player.raised : e.kind # kind => e \in player'.raised
  BY <1>2
<1> HIDE DEF fresh, n
<1>7. /\ \A e \in player.raised : e.kind \in Kinds /\ e.n \in Nat
      /\ \A e \in worker.polled : e.kind \in Kinds /\ e.n \in Nat
      /\ \A e \in events.pending : e.kind \in Kinds /\ e.n \in Nat
      /\ \A k \in Kinds : handed[k] \in Nat
  BY <1>1 DEF Raised, Event
<1>8. EventOrder'
  <2>1. SameKindOnce(player'.raised)
    BY <1>4, <1>5 DEF Ordered, EventOrder, SameKindOnce
  <2>2. \A e \in player'.raised : e.n = player'.count[e.kind]
    BY <1>3, <1>4, <1>5, <1>7 DEF Ordered, EventOrder
  <2>3. /\ \A e \in worker.polled : e.n <= player'.count[e.kind]
        /\ \A e \in events.pending : e.n <= player'.count[e.kind]
        /\ \A k \in Kinds : handed[k] <= player'.count[k]
    BY <1>3, <1>7 DEF Ordered, EventOrder
  <2>4. Before(events.pending, player'.raised)
    BY <1>3, <1>4, <1>5, <1>7 DEF Ordered, EventOrder, Before
  <2>5. Before(worker.polled, player'.raised)
    BY <1>3, <1>4, <1>5, <1>7 DEF Ordered, EventOrder, Before
  <2>6. \A e \in player'.raised : handed[e.kind] < e.n
    BY <1>3, <1>4, <1>5, <1>7 DEF Ordered, EventOrder
  <2>7. QED
    BY <1>2, <2>1, <2>2, <2>3, <2>4, <2>5, <2>6 DEF Ordered, EventOrder, SameKindOnce, Before
<1>9. Latest'
  <2>1. ASSUME NEW k \in Kinds
        PROVE  \/ k = kind /\ \E f \in player'.raised : f.kind = k /\ f.n = player'.count[k]
               \/ /\ player'.count[k] = player.count[k]
                  /\ \A f \in player.raised : f.kind = k => f \in player'.raised
    BY <1>3, <1>4, <1>6
  <2>2. \A e \in worker.polled :
          \/ e.n = player'.count[e.kind]
          \/ \E f \in player'.raised : f.kind = e.kind /\ f.n = player'.count[e.kind]
    <3>1. SUFFICES ASSUME NEW e \in worker.polled
                   PROVE  \/ e.n = player'.count[e.kind]
                          \/ \E f \in player'.raised :
                               f.kind = e.kind /\ f.n = player'.count[e.kind]
      OBVIOUS
    <3>2. e.kind \in Kinds
      BY <1>7
    <3>3. QED
      BY <2>1, <3>2 DEF Ordered, Latest
  <2>3. ASSUME NEW e \in events.pending, e.kind \in SlotKinds, e.ran = player.ran
        PROVE  \/ e.n = player'.count[e.kind]
               \/ \E f \in player'.raised \cup worker.polled :
                    f.kind = e.kind /\ f.n = player'.count[e.kind]
    <3>1. LatestBrought(e)
      BY <2>3 DEF Ordered, Latest
    <3>2. e.kind \in Kinds
      BY <1>7
    <3>3. QED
      BY <3>1, <3>2, <2>1 DEF LatestBrought
  <2>4. QED
    BY <1>2, <2>2, <2>3 DEF Latest, LatestBrought
<1>10. QED
  BY <1>8, <1>9 DEF Ordered

LEMMA TakeOrdered ==
  ASSUME IInv, Ordered, TakeEvents
  PROVE  Ordered'
<1>1. player' = player /\ worker' = worker
  BY DEF TakeEvents
<1>2. CASE events' = events /\ handed' = handed
  BY <1>1, <1>2, SameOrdered
<1>3. CASE events'.pending = {} /\ handed' = HandedWith(events.pending)
  <2>1. ASSUME NEW k \in Kinds
        PROVE  \/ handed'[k] = handed[k]
               \/ \E e \in events.pending : e.kind = k /\ handed'[k] = e.n
    BY <1>3 DEF HandedWith
  <2>2. \A e \in player.raised \cup worker.polled : e.kind \in Kinds
    BY DEF IInv, TypeOK, Raised, Event
  <2>3. \A e \in player.raised \cup worker.polled : handed'[e.kind] < e.n
    BY <2>1, <2>2 DEF Ordered, EventOrder, Before
  <2>4. \A k \in Kinds : handed'[k] <= player.count[k]
    BY <2>1 DEF Ordered, EventOrder
  <2>5. EventOrder'
    BY <1>1, <1>3, <2>3, <2>4 DEF Ordered, EventOrder, SameKindOnce, Before
  <2>6. Latest'
    BY <1>1, <1>3 DEF Ordered, Latest
  <2>7. QED
    BY <2>5, <2>6 DEF Ordered
<1>4. \/ events' = events /\ handed' = handed
      \/ events'.pending = {} /\ handed' = HandedWith(events.pending)
  <2>1. [events EXCEPT !.pending = {}].pending = {}
    BY DEF IInv, TypeOK
  <2>2. QED
    BY <2>1 DEF TakeEvents
<1>5. QED
  BY <1>2, <1>3, <1>4

LEMMA OrderedStep ==
  ASSUME IInv, Ordered, [Next]_vars
  PROVE  Ordered'
<1>1. CASE RunTransport
  BY <1>1, RunTransportOrdered
<1>2. CASE PollPlayer
  BY <1>2, PollOrdered
<1>3. CASE MergeEvents
  BY <1>3, MergeOrdered
<1>4. CASE TakeEvents
  BY <1>4, TakeOrdered
<1>5. CASE \E k \in Kinds : EngineRaises(k)
  BY <1>5, RaiseOrdered
<1>6. CASE /\ player' = player /\ worker'.polled = worker.polled /\ events' = events
           /\ handed' = handed
  BY <1>6, SameOrdered
<1>7. ASSUME CompleteTransport \/ PublishSnapshot \/ ReleaseRequest
      PROVE  worker'.polled = worker.polled
  BY <1>7 DEF CompleteTransport, PublishSnapshot, ReleaseRequest, IInv, TypeOK
<1>8. QED
  BY <1>1, <1>2, <1>3, <1>4, <1>5, <1>6, <1>7 DEF Next, Worker, Tick, vars, submission,
     CountTransport, SendTransport, SendPlain, RunPlain, CompleteTransport, PublishSnapshot,
     ReleaseRequest, WorkerPanics, SwapRequested, SendRequest, CloneSnapshot, CheckEpoch

-----------------------------------------------------------------------------
(* The theorems. *)

(* The invariant holds of every behaviour of the handle. *)
THEOREM Invariant == Spec => []IInv
<1>1. Init => IInv
  BY InitInv
<1>2. IInv /\ [Next]_vars => IInv'
  BY Step
<1>3. QED
  BY <1>1, <1>2, PTL DEF Spec

(* Every variable keeps its type; in particular `requested`, decremented   *)
(* when a send is rejected, never wraps below zero.                        *)
THEOREM TypeCorrect == Spec => []TypeOK
<1>1. IInv => TypeOK
  BY DEF IInv
<1>2. QED
  BY <1>1, Invariant, PTL

(* The UI timer never has two snapshot requests waiting (:225-229). *)
THEOREM Coalesced == Spec => []OneRequestQueued
<1>1. IInv => OneRequestQueued
  BY DEF IInv, Requests
<1>2. QED
  BY <1>1, Invariant, PTL

(* A read is accepted only when the snapshot shows the player after every  *)
(* accepted transport, and hands out no event of before (:172-174).        *)
THEOREM Fresh == Spec => ReadsAreFresh
<1>1. ASSUME IInv, AcceptsRead, [Next]_vars
      PROVE  /\ ui.snapshot.ran = lastTransport
             /\ \A i \in DOMAIN channel : ~IsTransport(channel[i])
  <2>1. CheckEpoch
    BY <1>1 DEF AcceptsRead, Next, Worker, Tick, vars, submission, CountTransport, SendTransport,
       SendPlain, RunPlain, RunTransport, CompleteTransport, PollPlayer, MergeEvents,
       PublishSnapshot, ReleaseRequest, WorkerPanics, EngineRaises, SwapRequested, SendRequest,
       CloneSnapshot, TakeEvents
  <2>2. ui.pc = "check" /\ ui.snapshot.epoch = requested
    BY <1>1, <2>1 DEF CheckEpoch, AcceptsRead, Accepts
  <2>3. /\ ui.snapshot.epoch <= completed /\ ui.snapshot.ran = ui.snapshot.epoch
        /\ completed <= player.ran /\ player.ran <= lastTransport /\ lastTransport <= requested
        /\ completed \in Nat /\ player.ran \in Nat /\ lastTransport \in Nat /\ requested \in Nat
    BY <1>1, <2>2 DEF IInv, TypeOK, Accounting, Freshness
  <2>4. ui.snapshot.ran = lastTransport /\ player.ran = lastTransport
    BY <2>2, <2>3
  <2>5. \A i \in 1..Len(channel) : ~IsTransport(channel[i])
    <3>1. CASE connected
      BY <1>1, <2>3, <2>4, <3>1 DEF IInv, Accounting, Queues
    <3>2. CASE ~connected
      BY <1>1, <3>2 DEF IInv, Accounting
    <3>3. QED
      BY <3>1, <3>2 DEF IInv, TypeOK
  <2>6. DOMAIN channel = 1..Len(channel)
    BY <1>1 DEF IInv, TypeOK
  <2>7. QED
    BY <2>4, <2>5, <2>6
<1>2. ASSUME IInv, HandsOut
      PROVE  \A e \in events.pending : e.ran = ui.snapshot.ran
  BY <1>2 DEF IInv, Freshness, HandsOut
<1>3. IInv /\ [Next]_vars =>
        [/\ AcceptsRead => /\ ui.snapshot.ran = lastTransport
                           /\ \A i \in DOMAIN channel : ~IsTransport(channel[i])
         /\ HandsOut => \A e \in events.pending : e.ran = ui.snapshot.ran]_vars
  BY <1>1, <1>2
<1>4. QED
  BY <1>3, Invariant, PTL DEF Spec, ReadsAreFresh

(* Transports run in the order of their receipts, none twice, none that    *)
(* was not accepted (:531-532).                                            *)
THEOREM InOrder == Spec => ReceiptsInOrder
<1>1. IInv /\ [Next]_vars =>
        [player'.ran # player.ran =>
           player'.ran = player.ran + 1 /\ player'.ran <= lastTransport]_vars
  BY Step
<1>2. QED
  BY <1>1, Invariant, PTL DEF Spec, ReceiptsInOrder

(* No poll loses an event: it stays pending until the UI takes it, a newer *)
(* one takes its slot or a transport has run since; the UI is given each   *)
(* once, in order, and the latest of a slot (:102).                        *)
THEOREM Kept == Spec => EventsKept
<1>1. Spec => [](IInv /\ Ordered)
  <2>1. Init => Ordered
    BY InitOrdered
  <2>2. IInv /\ Ordered /\ [Next]_vars => Ordered'
    BY OrderedStep
  <2>3. QED
    BY <2>1, <2>2, Invariant, PTL DEF Spec
<1>2. ASSUME IInv, [Next]_vars, events' # events
      PROVE  MergeEvents \/ TakeEvents
  BY <1>2 DEF Next, Worker, Tick, vars, submission, CountTransport, SendTransport,
     SendPlain, RunPlain, RunTransport, CompleteTransport, PollPlayer,
     PublishSnapshot, ReleaseRequest, WorkerPanics, EngineRaises, SwapRequested, SendRequest,
     CloneSnapshot, CheckEpoch
<1>3. ASSUME IInv, Ordered, [Next]_vars, NEW e \in events.pending \ events'.pending
      PROVE  HandsOut \/ completed > e.ran \/ Superseded(e)
  <2>1. CASE MergeEvents
    <3>1. events'.pending = Merged(KeptEvents(completed), worker.polled)
      BY <2>1 DEF MergeEvents
    <3>2. CASE events.epoch # completed
      <4>1. e.ran = events.epoch /\ events.epoch <= completed
            /\ events.epoch \in Nat /\ completed \in Nat
        BY <1>3 DEF IInv, TypeOK, Freshness
      <4>2. QED
        BY <3>2, <4>1
    <3>3. CASE events.epoch = completed
      <4>1. KeptEvents(completed) = events.pending
        BY <3>3 DEF KeptEvents
      <4>2. /\ SameKindOnce(events.pending) /\ SameKindOnce(worker.polled)
            /\ Before(events.pending, worker.polled)
        BY <1>3 DEF Ordered, EventOrder
      <4>3. \A f \in events.pending \cup worker.polled : f.kind \in Kinds /\ f.n \in Nat
        BY <1>3 DEF IInv, TypeOK, Event
      <4>4. /\ e.kind \in SlotKinds
            /\ \E f \in events'.pending : f.kind = e.kind /\ e.n < f.n
        BY <1>3, <3>1, <4>1, <4>2, <4>3, MergedFacts
      <4>5. \A f \in events'.pending : f.n \in Nat
        BY <3>1, <4>1, <4>3 DEF Merged
      <4>6. QED
        BY <1>3, <4>3, <4>4, <4>5 DEF Superseded
    <3>4. QED
      BY <3>2, <3>3
  <2>2. CASE TakeEvents
    BY <1>3, <2>2 DEF TakeEvents, HandsOut
  <2>3. QED
    BY <1>2, <1>3, <2>1, <2>2
<1>4. ASSUME IInv, Ordered, NEW e \in events.pending
      PROVE  /\ e.n > handed[e.kind]
             /\ e.kind \in SlotKinds /\ player.ran = e.ran => LatestBrought(e)
  <2>1. handed[e.kind] < e.n /\ e.n \in Nat /\ handed[e.kind] \in Nat
    BY <1>4 DEF Ordered, EventOrder, IInv, TypeOK, Event
  <2>2. QED
    BY <1>4, <2>1 DEF Ordered, Latest
<1>5. IInv /\ Ordered /\ [Next]_vars =>
        [/\ \A e \in events.pending \ events'.pending :
              HandsOut \/ completed > e.ran \/ Superseded(e)
         /\ HandsOut => \A e \in events.pending :
              /\ e.n > handed[e.kind]
              /\ e.kind \in SlotKinds /\ player.ran = e.ran => LatestBrought(e)]_vars
  BY <1>3, <1>4
<1>6. QED
  BY <1>1, <1>5, PTL DEF Spec, EventsKept
=============================================================================
