-------------------------- MODULE AxtpSessionProofs ---------------------------
(***************************************************************************)
(* Theorems about AxtpSession, for every capacity, every number of ids,    *)
(* sends and repeated frames: types, the accounting of the pending table,  *)
(* and that responses answer the request whose id they carry.              *)
(***************************************************************************)
EXTENDS AxtpSession, DataProofs

-----------------------------------------------------------------------------
(* Frames and their payloads.                                              *)

\* The payloads of frames are in the same places.
LEMMA PayloadSeq ==
  ASSUME NEW T, \A x \in T : x.rpc \in Rpc, NEW frames \in Seq(T)
  PROVE  /\ Payloads(frames) \in Seq(Rpc) /\ Len(Payloads(frames)) = Len(frames)
         /\ \A i \in 1..Len(frames) : Payloads(frames)[i] = frames[i].rpc
<1>1. Payloads(frames) \in Seq(Rpc) /\ Len(Payloads(frames)) = Len(frames)
  BY DEF Payloads
<1>2. \A i \in 1..Len(frames) : Payloads(frames)[i] = frames[i].rpc
  BY DEF Payloads
<1> QED
  BY <1>1, <1>2

LEMMA PayloadAppend ==
  ASSUME NEW T, \A x \in T : x.rpc \in Rpc, NEW frames \in Seq(T), NEW f \in T
  PROVE  Payloads(Append(frames, f)) = Append(Payloads(frames), f.rpc)
<1>1. Payloads(frames) \in Seq(Rpc) /\ Len(Payloads(frames)) = Len(frames)
  BY PayloadSeq
<1> QED
  BY <1>1 DEF Payloads

LEMMA PayloadSubSeq ==
  ASSUME NEW T, \A x \in T : x.rpc \in Rpc, NEW frames \in Seq(T),
         NEW m \in Nat \ {0}, NEW n \in 0..Len(frames)
  PROVE  /\ SubSeq(frames, m, n) \in Seq(T)
         /\ Payloads(SubSeq(frames, m, n)) = SubSeq(Payloads(frames), m, n)
<1>1. SubSeq(frames, m, n) \in Seq(T)
  OBVIOUS
<1>2. Payloads(frames) \in Seq(Rpc) /\ Len(Payloads(frames)) = Len(frames)
  BY PayloadSeq
<1>3. /\ Payloads(SubSeq(frames, m, n)) \in Seq(Rpc)
      /\ Len(Payloads(SubSeq(frames, m, n))) = Len(SubSeq(frames, m, n))
      /\ \A i \in 1..Len(SubSeq(frames, m, n)) :
           Payloads(SubSeq(frames, m, n))[i] = SubSeq(frames, m, n)[i].rpc
  BY <1>1, PayloadSeq
<1>4. /\ Len(SubSeq(frames, m, n)) = IF m <= n THEN n - m + 1 ELSE 0
      /\ \A i \in 1..Len(SubSeq(frames, m, n)) : SubSeq(frames, m, n)[i] = frames[m + i - 1]
  OBVIOUS
<1>5. /\ SubSeq(Payloads(frames), m, n) \in Seq(Rpc)
      /\ Len(SubSeq(Payloads(frames), m, n)) = IF m <= n THEN n - m + 1 ELSE 0
      /\ \A i \in 1..Len(SubSeq(Payloads(frames), m, n)) :
           SubSeq(Payloads(frames), m, n)[i] = Payloads(frames)[m + i - 1]
  BY <1>2
<1>6. \A i \in 1..Len(SubSeq(frames, m, n)) :
        Payloads(SubSeq(frames, m, n))[i] = SubSeq(Payloads(frames), m, n)[i]
  <2> SUFFICES ASSUME NEW i \in 1..Len(SubSeq(frames, m, n))
               PROVE  Payloads(SubSeq(frames, m, n))[i] = SubSeq(Payloads(frames), m, n)[i]
    OBVIOUS
  <2>1. m + i - 1 \in 1..Len(frames)
    BY <1>4
  <2>2. Payloads(frames)[m + i - 1] = frames[m + i - 1].rpc
    BY <2>1, PayloadSeq
  <2> QED
    BY <1>3, <1>4, <1>5, <2>2
<1>7. Payloads(SubSeq(frames, m, n)) = SubSeq(Payloads(frames), m, n)
  BY <1>3, <1>4, <1>5, <1>6, SeqEqual
<1> QED
  BY <1>1, <1>7

\* Frames have payloads.
LEMMA FramePayload ==
  \A x \in Frame : x.rpc \in Rpc
  BY DEF Frame

-----------------------------------------------------------------------------
(* Counting by id.                                                         *)

OnId(id) == {r \in Rpc : r.id = id}

One(id, rpc) == IF rpc.id = id THEN 1 ELSE 0

LEMMA OneIs ==
  ASSUME NEW id, NEW rpc \in Rpc
  PROVE  One(id, rpc) \in Nat /\ (IF rpc \in OnId(id) THEN 1 ELSE 0) = One(id, rpc)
  BY DEF One, OnId

LEMMA OccurrencesAre ==
  ASSUME NEW rpcs \in Seq(Rpc), NEW id
  PROVE  Occurrences(id, rpcs) = CountIn(rpcs, OnId(id)) /\ Occurrences(id, rpcs) \in Nat
<1>1. {i \in DOMAIN rpcs : rpcs[i].id = id} = {i \in DOMAIN rpcs : rpcs[i] \in OnId(id)}
  BY DEF OnId
<1> QED
  BY <1>1, CountNat DEF Occurrences, CountIn

LEMMA PendingIs ==
  ASSUME NEW p \in Seq(RequestIds), NEW id
  PROVE  Cardinality({i \in DOMAIN p : p[i] = id}) = CountIn(p, {id})
<1>1. {i \in DOMAIN p : p[i] = id} = {i \in DOMAIN p : p[i] \in {id}}
  OBVIOUS
<1> QED
  BY <1>1 DEF CountIn

\* What is lost is counted by its id.
LEMMA LostMore ==
  ASSUME NEW rpcs \in Seq(Rpc), lost \in [RequestIds -> Nat], LoseAll(rpcs)
  PROVE  /\ lost' \in [RequestIds -> Nat]
         /\ \A id \in RequestIds : lost'[id] = lost[id] + CountIn(rpcs, OnId(id))
  BY OccurrencesAre DEF LoseAll

LEMMA LostOne ==
  ASSUME NEW rpc \in Rpc, lost \in [RequestIds -> Nat], Lose(rpc)
  PROVE  /\ lost' \in [RequestIds -> Nat]
         /\ \A id \in RequestIds : lost'[id] = lost[id] + One(id, rpc)
<1>1. <<rpc>> \in Seq(Rpc) /\ LoseAll(<<rpc>>)
  BY DEF Lose
<1>2. \A id \in RequestIds : CountIn(<<rpc>>, OnId(id)) = One(id, rpc)
  BY CountOne, OneIs
<1> QED
  BY <1>1, <1>2, LostMore

-----------------------------------------------------------------------------
(* What the queues of a session hold, by id.                               *)

\* The requests and responses with an id that are under way or lost.
Due(id) ==
  CountIn(Payloads(outbound), OnId(id)) + CountIn(toServer, OnId(id))
    + CountIn(serving, OnId(id)) + CountIn(toClient, OnId(id)) + lost[id]

LEMMA DueParts ==
  ASSUME NEW id
  PROVE  /\ Due(id) = CountIn(Payloads(outbound), OnId(id)) + CountIn(toServer, OnId(id))
                        + CountIn(serving, OnId(id)) + CountIn(toClient, OnId(id)) + lost[id]
         /\ Due(id)' = CountIn(Payloads(outbound'), OnId(id)) + CountIn(toServer', OnId(id))
                        + CountIn(serving', OnId(id)) + CountIn(toClient', OnId(id)) + lost'[id]
  BY DEF Due

\* The queues are sequences of payloads, and what they hold is counted.
LEMMA SessionTypes ==
  ASSUME TypeOK
  PROVE  /\ outbound \in Seq(Frame) /\ Payloads(outbound) \in Seq(Rpc)
         /\ toServer \in Seq(Rpc) /\ serving \in Seq(Rpc) /\ toClient \in Seq(Rpc)
         /\ responses \in Seq(Rpc) /\ pending \in Seq(RequestIds)
         /\ lost \in [RequestIds -> Nat]
<1>1. outbound \in Seq(Frame)
  BY DEF TypeOK, CoreTypeOK, Queue
<1>2. Payloads(outbound) \in Seq(Rpc)
  BY <1>1, PayloadSeq, FramePayload
<1> QED
  BY <1>1, <1>2 DEF TypeOK, CoreTypeOK, Queue

LEMMA DueNat ==
  ASSUME TypeOK, NEW id \in RequestIds
  PROVE  /\ CountIn(Payloads(outbound), OnId(id)) \in Nat
         /\ CountIn(toServer, OnId(id)) \in Nat
         /\ CountIn(serving, OnId(id)) \in Nat
         /\ CountIn(toClient, OnId(id)) \in Nat
         /\ lost[id] \in Nat /\ Due(id) \in Nat /\ CountIn(pending, {id}) \in Nat
<1>1. /\ CountIn(Payloads(outbound), OnId(id)) \in Nat
      /\ CountIn(toServer, OnId(id)) \in Nat
      /\ CountIn(serving, OnId(id)) \in Nat
      /\ CountIn(toClient, OnId(id)) \in Nat
      /\ lost[id] \in Nat /\ CountIn(pending, {id}) \in Nat
  BY SessionTypes, CountNat
<1> QED
  BY <1>1 DEF Due

\* The same after a step.
LEMMA DueNatNext ==
  ASSUME TypeOK', NEW id \in RequestIds
  PROVE  /\ CountIn(Payloads(outbound'), OnId(id)) \in Nat
         /\ CountIn(toServer', OnId(id)) \in Nat
         /\ CountIn(serving', OnId(id)) \in Nat
         /\ CountIn(toClient', OnId(id)) \in Nat
         /\ lost'[id] \in Nat /\ Due(id)' \in Nat /\ CountIn(pending', {id}) \in Nat
<1>1. /\ outbound' \in Seq(Frame) /\ toServer' \in Seq(Rpc) /\ serving' \in Seq(Rpc)
      /\ toClient' \in Seq(Rpc) /\ pending' \in Seq(RequestIds)
      /\ lost' \in [RequestIds -> Nat]
  BY DEF TypeOK, CoreTypeOK, Queue
<1>2. Payloads(outbound') \in Seq(Rpc)
  BY <1>1, PayloadSeq, FramePayload
<1>3. /\ CountIn(Payloads(outbound'), OnId(id)) \in Nat
      /\ CountIn(toServer', OnId(id)) \in Nat
      /\ CountIn(serving', OnId(id)) \in Nat
      /\ CountIn(toClient', OnId(id)) \in Nat
      /\ lost'[id] \in Nat /\ CountIn(pending', {id}) \in Nat
  BY <1>1, <1>2, CountNat
<1> QED
  BY <1>3 DEF Due

\* What the property of the accounts says, in these terms.
LEMMA AccountsAre ==
  ASSUME TypeOK
  PROVE  \A id \in RequestIds :
           UnderWay(id) + lost[id] = Due(id) /\ Pending(id) = CountIn(pending, {id})
<1> SUFFICES ASSUME NEW id \in RequestIds
             PROVE  UnderWay(id) + lost[id] = Due(id) /\ Pending(id) = CountIn(pending, {id})
  OBVIOUS
<1>1. Pending(id) = CountIn(pending, {id})
  BY SessionTypes, PendingIs DEF Pending
<1>2. UnderWay(id) + lost[id] = Due(id)
  BY SessionTypes, OccurrencesAre DEF UnderWay, Due
<1> QED
  BY <1>1, <1>2

-----------------------------------------------------------------------------
(* A flush: what it is given stays, goes to the transport or is lost.      *)

\* The frames that a transport takes, the one it refuses and those behind it.
LEMMA FlushParts ==
  ASSUME NEW frames \in Seq(Frame), NEW taken \in 0..(Len(frames) - 1), NEW V
  PROVE  /\ frames[taken + 1] \in Frame /\ frames[taken + 1].rpc \in Rpc
         /\ SubSeq(frames, taken + 2, Len(frames)) \in Seq(Frame)
         /\ Len(SubSeq(frames, taken + 2, Len(frames))) <= Len(frames)
         /\ Payloads(SubSeq(frames, 1, taken)) = SubSeq(Payloads(frames), 1, taken)
         /\ Len(Payloads(SubSeq(frames, 1, taken))) = taken
         /\ Payloads(SubSeq(frames, 1, taken)) \in Seq(Rpc)
         /\ Payloads(SubSeq(frames, taken + 2, Len(frames)))
              = SubSeq(Payloads(frames), taken + 2, Len(frames))
         /\ Payloads(SubSeq(frames, taken + 2, Len(frames))) \in Seq(Rpc)
         /\ CountIn(Payloads(frames), V)
              = CountIn(Payloads(SubSeq(frames, 1, taken)), V)
                  + (IF frames[taken + 1].rpc \in V THEN 1 ELSE 0)
                  + CountIn(Payloads(SubSeq(frames, taken + 2, Len(frames))), V)
<1> DEFINE front == SubSeq(frames, 1, taken)
           back == SubSeq(frames, taken + 2, Len(frames))
<1>1. taken \in 0..Len(frames) /\ taken + 1 \in 1..Len(frames) /\ taken + 1 + 1 = taken + 2
  OBVIOUS
<1>2. /\ front \in Seq(Frame) /\ Len(front) = taken
      /\ back \in Seq(Frame) /\ Len(back) <= Len(frames)
      /\ frames[taken + 1] \in Frame
  BY <1>1
<1>3. /\ Payloads(frames) \in Seq(Rpc) /\ Len(Payloads(frames)) = Len(frames)
      /\ Payloads(frames)[taken + 1] = frames[taken + 1].rpc
  BY <1>1, PayloadSeq, FramePayload
<1>4. Payloads(front) \in Seq(Rpc) /\ Len(Payloads(front)) = taken /\ Payloads(back) \in Seq(Rpc)
  BY <1>2, PayloadSeq, FramePayload
<1>5. Payloads(front) = SubSeq(Payloads(frames), 1, taken)
  BY <1>1, PayloadSubSeq, FramePayload
<1>6. Payloads(back) = SubSeq(Payloads(frames), taken + 2, Len(frames))
  <2>1. Len(frames) \in 0..Len(frames) /\ taken + 2 \in Nat \ {0}
    BY <1>1
  <2> QED
    BY <2>1, PayloadSubSeq, FramePayload
<1>7. CountIn(Payloads(frames), V)
        = CountIn(Payloads(front), V) + CountIn(SubSeq(Payloads(frames), taken + 1, Len(frames)), V)
  <2>1. taken \in 0..Len(Payloads(frames))
    BY <1>1, <1>3
  <2>2. CountIn(Payloads(frames), V)
          = CountIn(SubSeq(Payloads(frames), 1, taken), V)
              + CountIn(SubSeq(Payloads(frames), taken + 1, Len(Payloads(frames))), V)
    BY <1>3, <2>1, CountSplit
  <2> QED
    BY <1>3, <1>5, <2>2
<1>8. CountIn(SubSeq(Payloads(frames), taken + 1, Len(frames)), V)
        = CountIn(Payloads(back), V) + (IF frames[taken + 1].rpc \in V THEN 1 ELSE 0)
  <2>1. taken + 1 \in 1..Len(Payloads(frames))
    BY <1>1, <1>3
  <2>2. CountIn(SubSeq(Payloads(frames), taken + 1, Len(Payloads(frames))), V)
          = CountIn(SubSeq(Payloads(frames), taken + 1 + 1, Len(Payloads(frames))), V)
              + (IF Payloads(frames)[taken + 1] \in V THEN 1 ELSE 0)
    BY <1>3, <2>1, CountFrom
  <2> QED
    BY <1>1, <1>3, <1>6, <2>2
<1>9. CountIn(Payloads(front), V) \in Nat /\ CountIn(Payloads(back), V) \in Nat
  BY <1>4, CountNat
<1>10. frames[taken + 1].rpc \in Rpc
  BY <1>2, FramePayload
<1> HIDE DEF front, back
<1>11. CountIn(Payloads(frames), V)
         = CountIn(Payloads(front), V) + (IF frames[taken + 1].rpc \in V THEN 1 ELSE 0)
             + CountIn(Payloads(back), V)
  BY <1>7, <1>8, <1>9
<1> QED
  BY <1>2, <1>4, <1>5, <1>6, <1>10, <1>11 DEF front, back

LEMMA FlushStep ==
  ASSUME TypeOK, NEW frames \in Queue(Frame), Flush(frames)
  PROVE  /\ outbound' \in Queue(Frame) /\ toServer' \in Queue(Rpc)
         /\ lost' \in [RequestIds -> Nat]
         /\ \A id \in RequestIds :
              CountIn(Payloads(outbound'), OnId(id)) + CountIn(toServer', OnId(id)) + lost'[id]
                = CountIn(Payloads(frames), OnId(id)) + CountIn(toServer, OnId(id)) + lost[id]
<1>1. /\ frames \in Seq(Frame) /\ Len(frames) <= QueueCapacity /\ Len(frames) \in Nat
      /\ toServer \in Seq(Rpc) /\ Len(toServer) <= QueueCapacity /\ Len(toServer) \in Nat
      /\ lost \in [RequestIds -> Nat] /\ QueueCapacity \in Nat
  BY QueueCapacityAssumption DEF TypeOK, Queue
<1>2. /\ Payloads(frames) \in Seq(Rpc) /\ Len(Payloads(frames)) = Len(frames)
      /\ \A id \in RequestIds : CountIn(Payloads(frames), OnId(id)) \in Nat
      /\ \A id \in RequestIds : CountIn(toServer, OnId(id)) \in Nat
  BY <1>1, PayloadSeq, FramePayload, CountNat
<1>3. CASE outbound' = frames /\ UNCHANGED <<toServer, lost>>
  BY <1>1, <1>2, <1>3 DEF TypeOK
<1>4. CASE /\ Len(toServer) + Len(frames) <= QueueCapacity
           /\ toServer' = toServer \o Payloads(frames)
           /\ outbound' = <<>>
           /\ UNCHANGED lost
  <2>1. toServer' \in Queue(Rpc) /\ outbound' \in Queue(Frame)
    BY <1>1, <1>2, <1>4 DEF Queue
  <2>2. Payloads(outbound') = <<>>
    BY <1>4 DEF Payloads
  <2>3. ASSUME NEW id \in RequestIds
        PROVE  CountIn(Payloads(outbound'), OnId(id)) + CountIn(toServer', OnId(id)) + lost'[id]
                 = CountIn(Payloads(frames), OnId(id)) + CountIn(toServer, OnId(id)) + lost[id]
    <3>1. CountIn(toServer', OnId(id))
            = CountIn(toServer, OnId(id)) + CountIn(Payloads(frames), OnId(id))
      BY <1>1, <1>2, <1>4, CountConcat
    <3>2. CountIn(Payloads(outbound'), OnId(id)) = 0
      BY <2>2, CountEmpty
    <3>3. lost'[id] = lost[id] /\ lost[id] \in Nat
      BY <1>1, <1>4
    <3> QED
      BY <1>2, <3>1, <3>2, <3>3
  <2> QED
    BY <1>1, <1>4, <2>1, <2>3
<1>5. CASE \E taken \in 0..(Len(frames) - 1) :
             /\ Len(toServer) + taken <= QueueCapacity
             /\ toServer' = toServer \o Payloads(SubSeq(frames, 1, taken))
             /\ outbound' = SubSeq(frames, taken + 2, Len(frames))
             /\ Lose(frames[taken + 1].rpc)
  <2>1. PICK taken \in 0..(Len(frames) - 1) :
          /\ Len(toServer) + taken <= QueueCapacity
          /\ toServer' = toServer \o Payloads(SubSeq(frames, 1, taken))
          /\ outbound' = SubSeq(frames, taken + 2, Len(frames))
          /\ Lose(frames[taken + 1].rpc)
    BY <1>5
  <2>2. /\ frames[taken + 1].rpc \in Rpc
        /\ SubSeq(frames, taken + 2, Len(frames)) \in Seq(Frame)
        /\ Len(SubSeq(frames, taken + 2, Len(frames))) <= Len(frames)
        /\ Len(Payloads(SubSeq(frames, 1, taken))) = taken
        /\ Payloads(SubSeq(frames, 1, taken)) \in Seq(Rpc)
        /\ Payloads(SubSeq(frames, taken + 2, Len(frames))) \in Seq(Rpc)
    BY <1>1, FlushParts
  <2>3. outbound' \in Queue(Frame) /\ toServer' \in Queue(Rpc)
    BY <1>1, <2>1, <2>2 DEF Queue
  <2>4. /\ lost' \in [RequestIds -> Nat]
        /\ \A id \in RequestIds : lost'[id] = lost[id] + One(id, frames[taken + 1].rpc)
    BY <1>1, <2>1, <2>2, LostOne
  <2>5. ASSUME NEW id \in RequestIds
        PROVE  CountIn(Payloads(outbound'), OnId(id)) + CountIn(toServer', OnId(id)) + lost'[id]
                 = CountIn(Payloads(frames), OnId(id)) + CountIn(toServer, OnId(id)) + lost[id]
    <3>1. /\ One(id, frames[taken + 1].rpc) \in Nat
          /\ (IF frames[taken + 1].rpc \in OnId(id) THEN 1 ELSE 0) = One(id, frames[taken + 1].rpc)
      BY <2>2, OneIs
    <3>2. CountIn(Payloads(frames), OnId(id))
            = CountIn(Payloads(SubSeq(frames, 1, taken)), OnId(id))
                + One(id, frames[taken + 1].rpc)
                + CountIn(Payloads(outbound'), OnId(id))
      <4>1. CountIn(Payloads(frames), OnId(id))
              = CountIn(Payloads(SubSeq(frames, 1, taken)), OnId(id))
                  + (IF frames[taken + 1].rpc \in OnId(id) THEN 1 ELSE 0)
                  + CountIn(Payloads(SubSeq(frames, taken + 2, Len(frames))), OnId(id))
        BY <1>1, FlushParts
      <4> QED
        BY <2>1, <3>1, <4>1
    <3>3. CountIn(toServer', OnId(id))
            = CountIn(toServer, OnId(id)) + CountIn(Payloads(SubSeq(frames, 1, taken)), OnId(id))
      BY <1>1, <2>1, <2>2, CountConcat
    <3>4. /\ CountIn(Payloads(SubSeq(frames, 1, taken)), OnId(id)) \in Nat
          /\ CountIn(Payloads(outbound'), OnId(id)) \in Nat
      BY <2>1, <2>2, CountNat
    <3>5. lost'[id] = lost[id] + One(id, frames[taken + 1].rpc) /\ lost[id] \in Nat
      BY <1>1, <2>4
    <3> QED
      BY <1>2, <3>1, <3>2, <3>3, <3>4, <3>5
  <2> QED
    BY <2>3, <2>4, <2>5
<1> QED
  BY <1>3, <1>4, <1>5 DEF Flush

-----------------------------------------------------------------------------
(* Every step keeps the types and the accounts of every id.                *)

Answer == {r \in Rpc : r.op = "REQUEST_RESPONSE"}

\* What comes back from the server are answers.
SessionInv == TypeOK /\ toClient \in Seq(Answer)

\* The accounts of an id are settled.
Settled(id) ==
  /\ CountIn(pending, {id}) <= Due(id)
  /\ copies = 0 => CountIn(pending, {id}) = Due(id)

\* A step that adds as much to what is expected as to what is due.
LEMMA BalancedStep ==
  ASSUME TypeOK, TypeOK', NEW id \in RequestIds, copies' = copies,
         Due(id)' + CountIn(pending, {id}) = Due(id) + CountIn(pending', {id}),
         Settled(id)
  PROVE  Settled(id)'
<1>1. /\ Due(id) \in Nat /\ CountIn(pending, {id}) \in Nat
      /\ Due(id)' \in Nat /\ CountIn(pending', {id}) \in Nat
  BY DueNat, DueNatNext
<1> HIDE DEF Due
<1> QED
  BY <1>1 DEF Settled

\* axtp_client_send_json: an id that comes to be expected is due.
LEMMA SendJsonStep ==
  ASSUME SessionInv, NEW m \in Methods, NEW b \in Bodies, SendJson(m, b)
  PROVE  SessionInv' /\ \A id \in RequestIds : Settled(id) => Settled(id)'
<1> DEFINE rpc == Request(nextRequestId, m, b, sent + 1)
           frame == [rpc |-> rpc, messageId |-> nextMessageId]
<1>1. /\ rpc \in Rpc /\ frame \in Frame /\ frame.rpc = rpc /\ rpc.id = nextRequestId
      /\ nextRequestId \in RequestIds
  <2>1. nextRequestId \in RequestIds /\ sent + 1 \in Nat /\ nextMessageId \in 1..MaxMessageId
    BY DEF SessionInv, TypeOK, CoreTypeOK
  <2>2. rpc \in Rpc
    BY <2>1, PayloadTypes
  <2>3. frame \in Frame /\ frame.rpc = rpc
    BY <2>1, <2>2 DEF Frame
  <2>4. rpc.id = nextRequestId
    BY DEF Request, ZeroRpc
  <2> QED
    BY <2>1, <2>2, <2>3, <2>4
<1>2. SendBegins(m, b) /\ SendRequest(rpc) /\ nextRequestId' = NextRequestId(nextRequestId)
  BY DEF SendJson
<1> HIDE DEF rpc, frame
<1>3. /\ nextRequestId' \in RequestIds /\ sent' \in Nat /\ lastTicket' \in [RequestIds -> Nat]
      /\ reused' \subseteq RequestIds
  <2>1. /\ nextRequestId \in RequestIds /\ sent \in Nat
        /\ lastTicket \in [RequestIds -> Nat] /\ reused \subseteq RequestIds
    BY DEF SessionInv, TypeOK
  <2>2. nextRequestId' \in RequestIds
    BY <1>2, <2>1, SessionAssumption DEF NextRequestId
  <2>3. sent' \in Nat /\ lastTicket' \in [RequestIds -> Nat]
    BY <1>2, <2>1 DEF SendBegins
  <2>4. reused' \subseteq RequestIds
    BY <1>2, <2>1 DEF SendBegins
  <2> QED
    BY <2>2, <2>3, <2>4
<1>4. /\ UNCHANGED <<events, responses, hasTransport, serving, toClient, copies>>
      /\ pending' = IF IsFull(pending) THEN pending ELSE Append(pending, rpc.id)
      /\ nextMessageId' \in 1..MaxMessageId
  BY <1>2, MaxMessageIdAssumption
     DEF SendRequest, ExpectRpcResponse, ExpectStatus, SessionInv, TypeOK, CoreTypeOK
<1>5. pending' \in Queue(RequestIds)
  BY <1>1, <1>4, AppendQueue DEF SessionInv, TypeOK, CoreTypeOK
<1>6. \A id \in RequestIds :
        CountIn(pending', {id})
          = CountIn(pending, {id}) + (IF IsFull(pending) THEN 0 ELSE One(id, rpc))
  <2> SUFFICES ASSUME NEW id \in RequestIds
               PROVE  CountIn(pending', {id})
                        = CountIn(pending, {id}) + (IF IsFull(pending) THEN 0 ELSE One(id, rpc))
    OBVIOUS
  <2>1. pending \in Seq(RequestIds) /\ CountIn(pending, {id}) \in Nat
    BY SessionTypes, DueNat DEF SessionInv
  <2>2. CountIn(Append(pending, rpc.id), {id})
          = CountIn(pending, {id}) + (IF rpc.id \in {id} THEN 1 ELSE 0)
    BY <1>1, <2>1, CountAppend
  <2> QED
    BY <1>4, <2>1, <2>2 DEF One
<1>7. /\ outbound' \in Queue(Frame) /\ toServer' \in Queue(Rpc) /\ lost' \in [RequestIds -> Nat]
      /\ \A id \in RequestIds :
           CountIn(Payloads(outbound'), OnId(id)) + CountIn(toServer', OnId(id)) + lost'[id]
             = CountIn(Payloads(outbound), OnId(id)) + CountIn(toServer, OnId(id)) + lost[id]
                 + (IF IsFull(pending) THEN 0 ELSE One(id, rpc))
  <2>1. \A id \in RequestIds :
          /\ CountIn(Payloads(outbound), OnId(id)) \in Nat /\ CountIn(toServer, OnId(id)) \in Nat
          /\ lost[id] \in Nat /\ One(id, rpc) \in Nat
    BY <1>1, DueNat, OneIs DEF SessionInv
  <2>2. /\ outbound \in Queue(Frame) /\ toServer \in Queue(Rpc) /\ lost \in [RequestIds -> Nat]
        /\ outbound \in Seq(Frame) /\ Payloads(outbound) \in Seq(Rpc)
    BY SessionTypes DEF SessionInv, TypeOK, CoreTypeOK
  <2>3. CASE ~IsFull(pending) /\ Lose(rpc) /\ UNCHANGED <<toServer, outbound>>
    <3>1. /\ lost' \in [RequestIds -> Nat]
          /\ \A id \in RequestIds : lost'[id] = lost[id] + One(id, rpc)
      BY <1>1, <2>2, <2>3, LostOne
    <3> QED
      BY <2>1, <2>2, <2>3, <3>1
  <2>4. CASE IsFull(pending) /\ UNCHANGED <<lost, toServer, outbound>>
    BY <2>1, <2>2, <2>4
  <2>5. CASE ~IsFull(pending) /\ ~IsFull(outbound) /\ Flush(Append(outbound, frame))
    <3>1. Append(outbound, frame) \in Queue(Frame)
      BY <1>1, <2>2, <2>5, AppendQueue
    <3>2. /\ outbound' \in Queue(Frame) /\ toServer' \in Queue(Rpc)
          /\ lost' \in [RequestIds -> Nat]
          /\ \A id \in RequestIds :
               CountIn(Payloads(outbound'), OnId(id)) + CountIn(toServer', OnId(id)) + lost'[id]
                 = CountIn(Payloads(Append(outbound, frame)), OnId(id))
                     + CountIn(toServer, OnId(id)) + lost[id]
      BY <2>5, <3>1, FlushStep DEF SessionInv
    <3>3. Payloads(Append(outbound, frame)) = Append(Payloads(outbound), rpc)
      BY <1>1, <2>2, PayloadAppend, FramePayload
    <3>4. \A id \in RequestIds : CountIn(Append(Payloads(outbound), rpc), OnId(id))
                                   = CountIn(Payloads(outbound), OnId(id)) + One(id, rpc)
      BY <1>1, <2>2, CountAppend, OneIs
    <3> QED
      BY <2>1, <2>5, <3>2, <3>3, <3>4
  <2>6. \/ ~IsFull(pending) /\ ~IsFull(outbound) /\ Flush(Append(outbound, frame))
        \/ ~IsFull(pending) /\ Lose(rpc) /\ UNCHANGED <<toServer, outbound>>
        \/ IsFull(pending) /\ UNCHANGED <<lost, toServer, outbound>>
    BY <1>2 DEF SendRequest, ExpectStatus, SendRpcStatus, frame
  <2> QED
    BY <2>3, <2>4, <2>5, <2>6
<1>8. TypeOK'
  BY <1>3, <1>4, <1>5, <1>7 DEF SessionInv, TypeOK, CoreTypeOK
<1>9. ASSUME NEW id \in RequestIds, Settled(id) PROVE Settled(id)'
  <2>1. /\ CountIn(Payloads(outbound), OnId(id)) \in Nat /\ CountIn(toServer, OnId(id)) \in Nat
        /\ CountIn(serving, OnId(id)) \in Nat /\ CountIn(toClient, OnId(id)) \in Nat
        /\ lost[id] \in Nat /\ CountIn(pending, {id}) \in Nat /\ One(id, rpc) \in Nat
    BY <1>1, DueNat, OneIs DEF SessionInv
  <2>2. /\ CountIn(Payloads(outbound'), OnId(id)) \in Nat /\ CountIn(toServer', OnId(id)) \in Nat
        /\ lost'[id] \in Nat
    BY <1>8, DueNatNext
  <2>3. Due(id)' = Due(id) + (IF IsFull(pending) THEN 0 ELSE One(id, rpc))
    <3>1. /\ CountIn(serving', OnId(id)) = CountIn(serving, OnId(id))
          /\ CountIn(toClient', OnId(id)) = CountIn(toClient, OnId(id))
      BY <1>4
    <3>2. CountIn(Payloads(outbound'), OnId(id)) + CountIn(toServer', OnId(id)) + lost'[id]
            = CountIn(Payloads(outbound), OnId(id)) + CountIn(toServer, OnId(id)) + lost[id]
                + (IF IsFull(pending) THEN 0 ELSE One(id, rpc))
      BY <1>7
    <3> QED
      BY <2>1, <2>2, <3>1, <3>2 DEF Due
  <2>4. Due(id) \in Nat
    BY DueNat DEF SessionInv
  <2> QED
    BY <1>4, <1>6, <1>8, <1>9, <2>1, <2>3, <2>4, BalancedStep DEF SessionInv
<1> QED
  BY <1>4, <1>8, <1>9 DEF SessionInv

\* A payload that leaves the head of a queue, and one that is appended.
LEMMA PopOne ==
  ASSUME NEW s \in Seq(Rpc), s # <<>>
  PROVE  /\ Tail(s) \in Seq(Rpc) /\ Head(s) \in Rpc
         /\ \A id : /\ CountIn(s, OnId(id)) = CountIn(Tail(s), OnId(id)) + One(id, Head(s))
                    /\ CountIn(s, OnId(id)) \in Nat /\ CountIn(Tail(s), OnId(id)) \in Nat
<1>1. Tail(s) \in Seq(Rpc) /\ Head(s) \in Rpc
  OBVIOUS
<1>2. ASSUME NEW id
      PROVE  CountIn(s, OnId(id)) = CountIn(Tail(s), OnId(id)) + One(id, Head(s))
  BY <1>1, CountTail, OneIs
<1> QED
  BY <1>1, <1>2, CountNat

LEMMA PushOne ==
  ASSUME NEW s \in Seq(Rpc), NEW r \in Rpc
  PROVE  /\ Append(s, r) \in Seq(Rpc)
         /\ \A id : CountIn(Append(s, r), OnId(id)) = CountIn(s, OnId(id)) + One(id, r)
<1>1. ASSUME NEW id
      PROVE  CountIn(Append(s, r), OnId(id)) = CountIn(s, OnId(id)) + One(id, r)
  BY CountAppend, OneIs
<1> QED
  BY <1>1

LEMMA RemoveOne ==
  ASSUME NEW s \in Seq(Rpc), NEW i \in DOMAIN s
  PROVE  /\ RemoveAt(s, i) \in Seq(Rpc) /\ s[i] \in Rpc
         /\ \A id : CountIn(s, OnId(id)) = CountIn(RemoveAt(s, i), OnId(id)) + One(id, s[i])
         /\ \A id : CountIn(RemoveAt(s, i), OnId(id)) \in Nat
<1>1. s[i] \in Rpc
  OBVIOUS
<1>2. RemoveAt(s, i) \in Seq(Rpc)
  BY DEF RemoveAt
<1>3. ASSUME NEW id
      PROVE  CountIn(s, OnId(id)) = CountIn(RemoveAt(s, i), OnId(id)) + One(id, s[i])
  BY <1>1, CountRemoveAt, OneIs
<1> QED
  BY <1>1, <1>2, <1>3, CountNat

\* axtp_client_poll.
LEMMA ClientPollStep ==
  ASSUME SessionInv, ClientPoll
  PROVE  SessionInv' /\ \A id \in RequestIds : Settled(id) => Settled(id)'
<1>1. outbound \in Queue(Frame) /\ Flush(outbound) /\ TypeOK
  BY DEF SessionInv, TypeOK, CoreTypeOK, ClientPoll
<1>2. /\ outbound' \in Queue(Frame) /\ toServer' \in Queue(Rpc) /\ lost' \in [RequestIds -> Nat]
      /\ \A id \in RequestIds :
           CountIn(Payloads(outbound'), OnId(id)) + CountIn(toServer', OnId(id)) + lost'[id]
             = CountIn(Payloads(outbound), OnId(id)) + CountIn(toServer, OnId(id)) + lost[id]
  BY <1>1, FlushStep
<1>3. UNCHANGED <<events, responses, pending, nextMessageId, nextRequestId, hasTransport,
                  serving, toClient, sent, copies, histories>>
  BY DEF ClientPoll
<1>4. SessionInv'
  BY <1>2, <1>3 DEF SessionInv, TypeOK, CoreTypeOK, histories
<1>5. ASSUME NEW id \in RequestIds, Settled(id) PROVE Settled(id)'
  <2>1. /\ CountIn(serving', OnId(id)) = CountIn(serving, OnId(id))
        /\ CountIn(toClient', OnId(id)) = CountIn(toClient, OnId(id))
    BY <1>3
  <2>3. /\ CountIn(Payloads(outbound), OnId(id)) \in Nat /\ CountIn(toServer, OnId(id)) \in Nat
        /\ CountIn(serving, OnId(id)) \in Nat /\ CountIn(toClient, OnId(id)) \in Nat
        /\ lost[id] \in Nat
    BY <1>1, DueNat
  <2>4. /\ CountIn(Payloads(outbound'), OnId(id)) \in Nat /\ CountIn(toServer', OnId(id)) \in Nat
        /\ lost'[id] \in Nat
    BY <1>4, DueNatNext DEF SessionInv
  <2>2. Due(id)' = Due(id)
    BY <1>2, <2>1, <2>3, <2>4, DueParts
  <2> QED
    BY <1>3, <2>2, <1>5 DEF Settled
<1> QED
  BY <1>4, <1>5

\* The bridge takes a request over, loses it or delivers it twice.
LEMMA CarryRequestStep ==
  ASSUME SessionInv, CarryRequest
  PROVE  SessionInv' /\ \A id \in RequestIds : Settled(id) => Settled(id)'
<1> DEFINE h == Head(toServer)
<1>1. /\ toServer \in Queue(Rpc) /\ toServer \in Seq(Rpc) /\ toServer # <<>>
      /\ serving \in Seq(Rpc) /\ lost \in [RequestIds -> Nat] /\ copies \in Nat
  BY SessionTypes DEF SessionInv, TypeOK, CarryRequest
<1>2. h \in Rpc /\ Tail(toServer) \in Queue(Rpc)
  BY <1>1, TailQueue
<1>3. UNCHANGED <<coreVars, nextRequestId, hasTransport, toClient, sent, histories>>
  BY DEF CarryRequest
<1>4. /\ serving' \in Seq(Rpc) /\ lost' \in [RequestIds -> Nat]
      /\ \A id \in RequestIds :
           CountIn(serving', OnId(id)) + lost'[id]
             = CountIn(serving, OnId(id)) + lost[id] + One(id, h)
  <2>1. \A id \in RequestIds : CountIn(serving, OnId(id)) \in Nat /\ lost[id] \in Nat
                               /\ One(id, h) \in Nat
    BY <1>1, <1>2, CountNat, OneIs
  <2>2. CASE serving' = Append(serving, h) /\ UNCHANGED lost
    BY <1>1, <1>2, <2>1, <2>2, PushOne
  <2>3. CASE UNCHANGED serving /\ Lose(h)
    BY <1>1, <1>2, <2>1, <2>3, LostOne
  <2> QED
    BY <2>2, <2>3 DEF CarryRequest
<1>5. /\ toServer' \in Queue(Rpc) /\ copies' \in Nat
      /\ \/ toServer' = Tail(toServer) /\ copies' = copies
         \/ toServer' = toServer /\ copies' > 0
  <2>1. Pop(toServer)
    BY DEF CarryRequest
  <2>2. \/ toServer' = Tail(toServer) /\ copies' = copies
        \/ toServer' = toServer /\ copies' = copies + 1
    BY <2>1 DEF Pop
  <2>3. /\ copies' = copies => copies' \in Nat
        /\ copies' = copies + 1 => copies' \in Nat /\ copies' > 0
    BY <1>1
  <2>4. toServer' = Tail(toServer) \/ toServer' = toServer => toServer' \in Queue(Rpc)
    BY <1>1, <1>2
  <2> QED
    BY <2>2, <2>3, <2>4, Zenon
<1>6. SessionInv'
  BY <1>3, <1>4, <1>5 DEF SessionInv, TypeOK, CoreTypeOK, coreVars, histories
<1>7. ASSUME NEW id \in RequestIds, Settled(id) PROVE Settled(id)'
  <2>1. /\ CountIn(Payloads(outbound'), OnId(id)) = CountIn(Payloads(outbound), OnId(id))
        /\ CountIn(toClient', OnId(id)) = CountIn(toClient, OnId(id))
        /\ CountIn(pending', {id}) = CountIn(pending, {id})
    BY <1>3 DEF coreVars
  <2>2. /\ CountIn(Payloads(outbound), OnId(id)) \in Nat /\ CountIn(toServer, OnId(id)) \in Nat
        /\ CountIn(serving, OnId(id)) \in Nat /\ CountIn(toClient, OnId(id)) \in Nat
        /\ lost[id] \in Nat /\ CountIn(pending, {id}) \in Nat /\ One(id, h) \in Nat
    BY <1>2, DueNat, OneIs DEF SessionInv
  <2>3. CountIn(serving', OnId(id)) \in Nat /\ lost'[id] \in Nat
    BY <1>6, DueNatNext DEF SessionInv
  <2>4. CountIn(serving', OnId(id)) + lost'[id]
          = CountIn(serving, OnId(id)) + lost[id] + One(id, h)
    BY <1>4
  <2>5. CASE toServer' = Tail(toServer) /\ copies' = copies
    <3>1. /\ CountIn(toServer, OnId(id)) = CountIn(toServer', OnId(id)) + One(id, h)
          /\ CountIn(toServer', OnId(id)) \in Nat
      BY <1>1, <2>5, PopOne
    <3>2. Due(id)' = Due(id) + 0 /\ Due(id) \in Nat
      BY <2>1, <2>2, <2>3, <2>4, <3>1, DueParts
    <3> QED
      BY <1>7, <2>1, <2>5, <3>2 DEF Settled
  <2>6. CASE toServer' = toServer /\ copies' > 0
    <3>1. CountIn(toServer', OnId(id)) = CountIn(toServer, OnId(id))
      BY <2>6
    <3>2. Due(id)' = Due(id) + One(id, h) /\ Due(id) \in Nat
      BY <2>1, <2>2, <2>3, <2>4, <3>1, DueParts
    <3> HIDE DEF Due
    <3> QED
      BY <1>7, <2>1, <2>2, <2>6, <3>2 DEF Settled
  <2> QED
    BY <1>5, <2>5, <2>6
<1> QED
  BY <1>6, <1>7

\* What an answer does to the core (core.c:120-129): its id, if expected, is
\* expected once less, unless the store is full.
LEMMA Arrival ==
  ASSUME SessionInv, toClient # <<>>, CoreOnBytes(Head(toClient))
  PROVE  /\ responses' \in Queue(Rpc) /\ pending' \in Queue(RequestIds)
         /\ UNCHANGED <<events, outbound, nextMessageId>>
         /\ IsFull(responses) => UNCHANGED <<responses, pending>>
         /\ ~IsFull(responses) =>
              /\ responses' = Append(responses, Head(toClient))
              /\ \A id : CountIn(pending, {id})
                           = CountIn(pending', {id})
                               + (IF Head(toClient).id = id /\ CountIn(pending, {id}) > 0
                                    THEN 1 ELSE 0)
<1> DEFINE h == Head(toClient)
<1>1. h \in Answer /\ h \in Rpc /\ h.op = "REQUEST_RESPONSE"
  BY DEF SessionInv, Answer
<1>2. /\ responses \in Queue(Rpc) /\ pending \in Queue(RequestIds)
      /\ pending \in Seq(RequestIds)
  BY DEF SessionInv, TypeOK, CoreTypeOK, Queue
<1> HIDE DEF h
<1>3. OnResponse(h) /\ UNCHANGED <<outbound, nextMessageId>>
  BY <1>1 DEF CoreOnBytes, OnRequest, h
<1>4. CASE IsFull(responses)
  BY <1>2, <1>3, <1>4 DEF OnResponse
<1>5. CASE ~IsFull(responses)
  <2>1. responses' = Append(responses, h) /\ pending' = RemoveFirst(pending, h.id) /\ UNCHANGED events
    BY <1>3, <1>5 DEF OnResponse
  <2>2. responses' \in Queue(Rpc)
    BY <1>1, <1>2, <1>5, <2>1, AppendQueue
  <2>3. pending' \in Queue(RequestIds)
    BY <1>2, <2>1, RemoveFirstQueue
  <2>4. ASSUME NEW id
        PROVE  CountIn(pending, {id})
                 = CountIn(pending', {id})
                     + (IF h.id = id /\ CountIn(pending, {id}) > 0 THEN 1 ELSE 0)
    <3> DEFINE V == {id}
    <3>1. \A e : CountIn(pending, V)
                   = CountIn(RemoveFirst(pending, e), V)
                       + (IF e \in V /\ CountIn(pending, {e}) > 0 THEN 1 ELSE 0)
      <4> HIDE DEF V
      <4> QED
        BY <1>2, CountRemoveFirst
    <3> QED
      BY <2>1, <3>1
  <2> QED
    BY <1>3, <1>5, <2>1, <2>2, <2>3, <2>4 DEF h
<1> QED
  BY <1>4, <1>5

\* An answer that arrives, and what it is due to.
LEMMA ArrivalSettles ==
  ASSUME SessionInv, TypeOK', toClient # <<>>, CoreOnBytes(Head(toClient)),
         NEW id \in RequestIds, Settled(id), copies' = copies,
         Due(id) = Due(id)' + (IF IsFull(responses) THEN 0 ELSE One(id, Head(toClient)))
  PROVE  Settled(id)'
<1>1. /\ Due(id) \in Nat /\ CountIn(pending, {id}) \in Nat
      /\ Due(id)' \in Nat /\ CountIn(pending', {id}) \in Nat
  BY DueNat, DueNatNext DEF SessionInv
<1> HIDE DEF Due
<1>2. CASE IsFull(responses)
  <2>1. CountIn(pending', {id}) = CountIn(pending, {id}) /\ Due(id)' = Due(id)
    BY <1>1, <1>2, Arrival
  <2> QED
    BY <2>1 DEF Settled
<1>3. CASE ~IsFull(responses) /\ Head(toClient).id = id
  <2>1. Due(id) = Due(id)' + 1
    BY <1>3 DEF One
  <2>2. CountIn(pending, {id})
          = CountIn(pending', {id}) + (IF CountIn(pending, {id}) > 0 THEN 1 ELSE 0)
    BY <1>3, Arrival
  <2> QED
    BY <1>1, <2>1, <2>2 DEF Settled
<1>4. CASE ~IsFull(responses) /\ Head(toClient).id # id
  <2>1. Due(id) = Due(id)' + 0
    BY <1>4 DEF One
  <2>2. CountIn(pending, {id}) = CountIn(pending', {id}) + 0
    BY <1>4, Arrival
  <2> QED
    BY <1>1, <2>1, <2>2 DEF Settled
<1> QED
  BY <1>2, <1>3, <1>4

\* The bridge takes an answer over, or delivers it twice.
LEMMA CarryResponseStep ==
  ASSUME SessionInv, CarryResponse
  PROVE  SessionInv' /\ \A id \in RequestIds : Settled(id) => Settled(id)'
<1> DEFINE h == Head(toClient)
<1>1. /\ toClient \in Queue(Rpc) /\ toClient \in Seq(Rpc) /\ toClient # <<>>
      /\ toClient \in Seq(Answer) /\ lost \in [RequestIds -> Nat] /\ copies \in Nat
      /\ CoreOnBytes(h)
  BY SessionTypes DEF SessionInv, TypeOK, CarryResponse
<1>2. h \in Rpc /\ Tail(toClient) \in Queue(Rpc) /\ Tail(toClient) \in Seq(Answer)
  BY <1>1, TailQueue
<1>3. UNCHANGED <<nextRequestId, hasTransport, toServer, serving, sent, histories>>
  BY DEF CarryResponse
<1>4. /\ lost' \in [RequestIds -> Nat]
      /\ \A id \in RequestIds :
           lost'[id] = lost[id] + (IF IsFull(responses) THEN One(id, h) ELSE 0)
  <2>1. CASE IsFull(responses) /\ Lose(h)
    BY <1>1, <1>2, <2>1, LostOne
  <2>2. CASE ~IsFull(responses) /\ UNCHANGED lost
    BY <1>1, <2>2
  <2> QED
    BY <2>1, <2>2 DEF CarryResponse
<1>5. /\ toClient' \in Queue(Rpc) /\ toClient' \in Seq(Answer) /\ copies' \in Nat
      /\ \/ toClient' = Tail(toClient) /\ copies' = copies
         \/ toClient' = toClient /\ copies' > 0
  <2>1. Pop(toClient)
    BY DEF CarryResponse
  <2>2. \/ toClient' = Tail(toClient) /\ copies' = copies
        \/ toClient' = toClient /\ copies' = copies + 1
    BY <2>1 DEF Pop
  <2>3. /\ copies' = copies => copies' \in Nat
        /\ copies' = copies + 1 => copies' \in Nat /\ copies' > 0
    BY <1>1
  <2>4. toClient' = Tail(toClient) \/ toClient' = toClient
          => toClient' \in Queue(Rpc) /\ toClient' \in Seq(Answer)
    BY <1>1, <1>2
  <2> QED
    BY <2>2, <2>3, <2>4, Zenon
<1>6. TypeOK'
  <2>1. /\ responses' \in Queue(Rpc) /\ pending' \in Queue(RequestIds)
        /\ UNCHANGED <<events, outbound, nextMessageId>>
    BY <1>1, Arrival
  <2> QED
    BY <1>3, <1>4, <1>5, <2>1 DEF SessionInv, TypeOK, CoreTypeOK, histories
<1>7. ASSUME NEW id \in RequestIds, Settled(id) PROVE Settled(id)'
  <2>1. /\ CountIn(Payloads(outbound'), OnId(id)) = CountIn(Payloads(outbound), OnId(id))
        /\ CountIn(toServer', OnId(id)) = CountIn(toServer, OnId(id))
        /\ CountIn(serving', OnId(id)) = CountIn(serving, OnId(id))
    BY <1>1, <1>3, Arrival
  <2>2. /\ CountIn(Payloads(outbound), OnId(id)) \in Nat /\ CountIn(toServer, OnId(id)) \in Nat
        /\ CountIn(serving, OnId(id)) \in Nat /\ CountIn(toClient, OnId(id)) \in Nat
        /\ lost[id] \in Nat /\ CountIn(pending, {id}) \in Nat /\ One(id, h) \in Nat
    BY <1>2, DueNat, OneIs DEF SessionInv
  <2>3. lost'[id] = lost[id] + (IF IsFull(responses) THEN One(id, h) ELSE 0)
    BY <1>4
  <2>4. CASE toClient' = Tail(toClient) /\ copies' = copies
    <3>1. /\ CountIn(toClient, OnId(id)) = CountIn(toClient', OnId(id)) + One(id, h)
          /\ CountIn(toClient', OnId(id)) \in Nat
      BY <1>1, <2>4, PopOne
    <3>2. Due(id) = Due(id)' + (IF IsFull(responses) THEN 0 ELSE One(id, h))
      BY <2>1, <2>2, <2>3, <3>1, DueParts
    <3> QED
      BY <1>1, <1>6, <1>7, <2>4, <3>2, ArrivalSettles
  <2>5. CASE toClient' = toClient /\ copies' > 0
    <3>1. CountIn(toClient', OnId(id)) = CountIn(toClient, OnId(id))
      BY <2>5
    <3>2. Due(id)' = Due(id) + (IF IsFull(responses) THEN One(id, h) ELSE 0) /\ Due(id) \in Nat
      BY <2>1, <2>2, <2>3, <3>1, DueParts
    <3>3. CountIn(pending', {id}) \in Nat /\ CountIn(pending', {id}) <= CountIn(pending, {id})
      <4>1. CountIn(pending', {id}) \in Nat
        BY <1>6, DueNatNext
      <4>2. CASE IsFull(responses)
        BY <1>1, <2>2, <4>2, Arrival
      <4>3. CASE ~IsFull(responses)
        <5>1. CountIn(pending, {id})
                = CountIn(pending', {id})
                    + (IF h.id = id /\ CountIn(pending, {id}) > 0 THEN 1 ELSE 0)
          BY <1>1, <4>3, Arrival
        <5> QED
          BY <2>2, <4>1, <5>1
      <4> QED
        BY <4>2, <4>3
    <3> HIDE DEF Due
    <3> QED
      BY <1>7, <2>2, <2>5, <3>2, <3>3 DEF Settled
  <2> QED
    BY <1>5, <2>4, <2>5
<1> QED
  BY <1>5, <1>6, <1>7 DEF SessionInv

\* Several frames in one call of the sink: the first is decoded, the others
\* are lost.
LEMMA RequestsTogetherStep ==
  ASSUME SessionInv, NEW n \in 2..QueueCapacity, CarryRequestsTogether(n)
  PROVE  SessionInv' /\ \A id \in RequestIds : Settled(id) => Settled(id)'
<1> DEFINE h == Head(toServer)
           block == SubSeq(toServer, 2, n)
<1>1. /\ toServer \in Seq(Rpc) /\ Len(toServer) <= QueueCapacity
      /\ n \in 1..Len(toServer) /\ toServer # <<>>
      /\ serving \in Seq(Rpc) /\ lost \in [RequestIds -> Nat]
  BY SessionTypes DEF SessionInv, TypeOK, CarryRequestsTogether, Queue
<1>2. h \in Rpc /\ block \in Seq(Rpc)
  BY <1>1
<1>3. /\ UNCHANGED <<coreVars, nextRequestId, hasTransport, toClient, sent, copies, histories>>
      /\ toServer' = SubSeq(toServer, n + 1, Len(toServer))
      /\ serving' = Append(serving, h) /\ LoseAll(block)
  BY DEF CarryRequestsTogether
<1>4. toServer' \in Queue(Rpc)
  <2>1. /\ SubSeq(toServer, n + 1, Len(toServer)) \in Seq(Rpc)
        /\ Len(SubSeq(toServer, n + 1, Len(toServer))) <= Len(toServer)
    BY <1>1
  <2> QED
    BY <1>1, <1>3, <2>1, QueueCapacityAssumption DEF Queue
<1> HIDE DEF h, block
<1>5. /\ serving' \in Seq(Rpc) /\ lost' \in [RequestIds -> Nat]
      /\ \A id \in RequestIds : lost'[id] = lost[id] + CountIn(block, OnId(id))
  BY <1>1, <1>2, <1>3, LostMore
<1>6. TypeOK'
  BY <1>3, <1>4, <1>5 DEF SessionInv, TypeOK, CoreTypeOK, coreVars, histories
<1>7. ASSUME NEW id \in RequestIds, Settled(id) PROVE Settled(id)'
  <2>1. /\ CountIn(Payloads(outbound'), OnId(id)) = CountIn(Payloads(outbound), OnId(id))
        /\ CountIn(toClient', OnId(id)) = CountIn(toClient, OnId(id))
        /\ CountIn(pending', {id}) = CountIn(pending, {id})
    BY <1>3 DEF coreVars
  <2>2. /\ CountIn(Payloads(outbound), OnId(id)) \in Nat /\ CountIn(toServer, OnId(id)) \in Nat
        /\ CountIn(serving, OnId(id)) \in Nat /\ CountIn(toClient, OnId(id)) \in Nat
        /\ lost[id] \in Nat /\ CountIn(pending, {id}) \in Nat /\ One(id, h) \in Nat
        /\ CountIn(block, OnId(id)) \in Nat /\ CountIn(toServer', OnId(id)) \in Nat
    BY <1>2, <1>6, DueNat, DueNatNext, OneIs, CountNat DEF SessionInv
  <2>3. CountIn(serving', OnId(id)) = CountIn(serving, OnId(id)) + One(id, h)
    BY <1>1, <1>2, <1>3, PushOne
  <2>4. CountIn(toServer, OnId(id))
          = One(id, h) + CountIn(block, OnId(id)) + CountIn(toServer', OnId(id))
    <3>1. CountIn(toServer, OnId(id))
            = (IF Head(toServer) \in OnId(id) THEN 1 ELSE 0)
                + CountIn(SubSeq(toServer, 2, n), OnId(id))
                + CountIn(SubSeq(toServer, n + 1, Len(toServer)), OnId(id))
      BY <1>1, CountBlock
    <3>2. (IF h \in OnId(id) THEN 1 ELSE 0) = One(id, h)
      BY <1>2, OneIs
    <3> QED
      BY <1>3, <3>1, <3>2 DEF h, block
  <2>5. lost'[id] = lost[id] + CountIn(block, OnId(id))
    BY <1>5
  <2>6. Due(id)' = Due(id) + 0 /\ Due(id) \in Nat
    BY <2>1, <2>2, <2>3, <2>4, <2>5, DueParts
  <2> HIDE DEF Due
  <2> QED
    BY <1>3, <1>7, <2>1, <2>6 DEF Settled
<1>8. toClient' \in Seq(Answer)
  BY <1>3 DEF SessionInv
<1> QED
  BY <1>6, <1>7, <1>8 DEF SessionInv

LEMMA ResponsesTogetherStep ==
  ASSUME SessionInv, NEW n \in 2..QueueCapacity, CarryResponsesTogether(n)
  PROVE  SessionInv' /\ \A id \in RequestIds : Settled(id) => Settled(id)'
<1> DEFINE h == Head(toClient)
           block == SubSeq(toClient, 2, n)
           back == SubSeq(toClient, n + 1, Len(toClient))
<1>1. /\ toClient \in Seq(Rpc) /\ toClient \in Seq(Answer) /\ Len(toClient) <= QueueCapacity
      /\ n \in 1..Len(toClient) /\ toClient # <<>> /\ lost \in [RequestIds -> Nat]
  BY SessionTypes DEF SessionInv, TypeOK, CarryResponsesTogether, Queue
<1>2. /\ h \in Rpc /\ block \in Seq(Rpc) /\ SubSeq(toClient, 1, n) \in Seq(Rpc)
      /\ back \in Seq(Rpc) /\ back \in Seq(Answer) /\ Len(back) <= Len(toClient)
  BY <1>1
<1>3. /\ UNCHANGED <<nextRequestId, hasTransport, toServer, serving, sent, copies, histories>>
      /\ toClient' = back /\ CoreOnBytes(Head(toClient))
  BY DEF CarryResponsesTogether
<1>4. toClient' \in Queue(Rpc) /\ toClient' \in Seq(Answer)
  BY <1>1, <1>2, <1>3, QueueCapacityAssumption DEF Queue
<1>5. LoseAll(IF IsFull(responses) THEN SubSeq(toClient, 1, n) ELSE block)
  BY DEF CarryResponsesTogether
<1>6. \A id : CountIn(SubSeq(toClient, 1, n), OnId(id)) = One(id, h) + CountIn(block, OnId(id))
  <2> SUFFICES ASSUME NEW id
               PROVE  CountIn(SubSeq(toClient, 1, n), OnId(id))
                        = One(id, h) + CountIn(block, OnId(id))
    OBVIOUS
  <2> DEFINE top == SubSeq(toClient, 1, n)
  <2>1. top \in Seq(Rpc) /\ top # <<>> /\ Len(top) = n /\ Head(top) = h
    BY <1>1
  <2>2. Tail(top) = block
    <3>1. /\ Tail(top) \in Seq(Rpc) /\ Len(Tail(top)) = n - 1
          /\ \A i \in 1..(n - 1) : Tail(top)[i] = top[i + 1]
      BY <2>1
    <3>2. /\ \A i \in 1..n : top[i] = toClient[i]
          /\ Len(block) = n - 1
          /\ \A i \in 1..(n - 1) : block[i] = toClient[i + 1]
      BY <1>1
    <3> HIDE DEF top, block
    <3>3. \A i \in 1..(n - 1) : Tail(top)[i] = block[i]
      BY <3>1, <3>2
    <3> QED
      BY <1>2, <3>1, <3>2, <3>3, SeqEqual
  <2> HIDE DEF top, block, h
  <2>3. CountIn(top, OnId(id)) = CountIn(block, OnId(id)) + One(id, h)
    BY <2>1, <2>2, PopOne
  <2>4. CountIn(block, OnId(id)) \in Nat /\ One(id, h) \in Nat
    BY <1>2, CountNat, OneIs
  <2> QED
    BY <2>3, <2>4 DEF top
<1> HIDE DEF h, block, back
<1>7. /\ lost' \in [RequestIds -> Nat]
      /\ \A id \in RequestIds :
           lost'[id] = lost[id] + (IF IsFull(responses) THEN One(id, h) + CountIn(block, OnId(id))
                                                        ELSE CountIn(block, OnId(id)))
  <2>1. CASE IsFull(responses)
    <3>1. LoseAll(SubSeq(toClient, 1, n))
      BY <1>5, <2>1
    <3> QED
      BY <1>1, <1>2, <1>6, <2>1, <3>1, LostMore
  <2>2. CASE ~IsFull(responses)
    <3>1. LoseAll(block)
      BY <1>5, <2>2
    <3> QED
      BY <1>1, <1>2, <2>2, <3>1, LostMore
  <2> QED
    BY <2>1, <2>2
<1>8. TypeOK'
  <2>1. /\ responses' \in Queue(Rpc) /\ pending' \in Queue(RequestIds)
        /\ UNCHANGED <<events, outbound, nextMessageId>>
    BY <1>1, <1>3, Arrival
  <2> QED
    BY <1>3, <1>4, <1>7, <2>1 DEF SessionInv, TypeOK, CoreTypeOK, histories
<1>9. ASSUME NEW id \in RequestIds, Settled(id) PROVE Settled(id)'
  <2>1. /\ CountIn(Payloads(outbound'), OnId(id)) = CountIn(Payloads(outbound), OnId(id))
        /\ CountIn(toServer', OnId(id)) = CountIn(toServer, OnId(id))
        /\ CountIn(serving', OnId(id)) = CountIn(serving, OnId(id))
    BY <1>1, <1>3, Arrival
  <2>2. /\ CountIn(Payloads(outbound), OnId(id)) \in Nat /\ CountIn(toServer, OnId(id)) \in Nat
        /\ CountIn(serving, OnId(id)) \in Nat /\ CountIn(toClient, OnId(id)) \in Nat
        /\ lost[id] \in Nat /\ One(id, h) \in Nat
        /\ CountIn(block, OnId(id)) \in Nat /\ CountIn(toClient', OnId(id)) \in Nat
    BY <1>2, <1>8, DueNat, DueNatNext, OneIs, CountNat DEF SessionInv
  <2>3. lost'[id] = lost[id] + (IF IsFull(responses) THEN One(id, h) + CountIn(block, OnId(id))
                                                     ELSE CountIn(block, OnId(id)))
    BY <1>7
  <2>4. CountIn(toClient, OnId(id))
          = One(id, h) + CountIn(block, OnId(id)) + CountIn(toClient', OnId(id))
    <3>1. CountIn(toClient, OnId(id))
            = (IF Head(toClient) \in OnId(id) THEN 1 ELSE 0)
                + CountIn(SubSeq(toClient, 2, n), OnId(id))
                + CountIn(SubSeq(toClient, n + 1, Len(toClient)), OnId(id))
      BY <1>1, CountBlock
    <3>2. (IF h \in OnId(id) THEN 1 ELSE 0) = One(id, h)
      BY <1>2, OneIs
    <3> QED
      BY <1>3, <3>1, <3>2 DEF h, block, back
  <2>5. Due(id) = Due(id)' + (IF IsFull(responses) THEN 0 ELSE One(id, h))
    BY <2>1, <2>2, <2>3, <2>4, DueParts
  <2> QED
    BY <1>1, <1>3, <1>8, <1>9, <2>5, ArrivalSettles DEF h
<1> QED
  BY <1>4, <1>8, <1>9 DEF SessionInv

\* The bridge loses an answer.
LEMMA LoseResponseStep ==
  ASSUME SessionInv, LoseResponse
  PROVE  SessionInv' /\ \A id \in RequestIds : Settled(id) => Settled(id)'
<1> DEFINE h == Head(toClient)
<1>1. /\ toClient \in Queue(Rpc) /\ toClient \in Seq(Rpc) /\ toClient # <<>>
      /\ toClient \in Seq(Answer) /\ lost \in [RequestIds -> Nat]
  BY SessionTypes DEF SessionInv, TypeOK, LoseResponse
<1>2. h \in Rpc /\ Tail(toClient) \in Queue(Rpc) /\ Tail(toClient) \in Seq(Answer)
  BY <1>1, TailQueue
<1>3. /\ UNCHANGED <<coreVars, nextRequestId, hasTransport, toServer, serving, sent, copies,
                     histories>>
      /\ toClient' = Tail(toClient) /\ Lose(h)
  BY DEF LoseResponse
<1>4. /\ lost' \in [RequestIds -> Nat]
      /\ \A id \in RequestIds : lost'[id] = lost[id] + One(id, h)
  BY <1>1, <1>2, <1>3, LostOne
<1>5. TypeOK' /\ toClient' \in Seq(Answer)
  BY <1>2, <1>3, <1>4 DEF SessionInv, TypeOK, CoreTypeOK, coreVars, histories
<1>6. ASSUME NEW id \in RequestIds, Settled(id) PROVE Settled(id)'
  <2>1. /\ CountIn(Payloads(outbound'), OnId(id)) = CountIn(Payloads(outbound), OnId(id))
        /\ CountIn(toServer', OnId(id)) = CountIn(toServer, OnId(id))
        /\ CountIn(serving', OnId(id)) = CountIn(serving, OnId(id))
        /\ CountIn(pending', {id}) = CountIn(pending, {id})
    BY <1>3 DEF coreVars
  <2>2. /\ CountIn(Payloads(outbound), OnId(id)) \in Nat /\ CountIn(toServer, OnId(id)) \in Nat
        /\ CountIn(serving, OnId(id)) \in Nat /\ lost[id] \in Nat /\ One(id, h) \in Nat
    BY <1>2, DueNat, OneIs DEF SessionInv
  <2>3. /\ CountIn(toClient, OnId(id)) = CountIn(toClient', OnId(id)) + One(id, h)
        /\ CountIn(toClient', OnId(id)) \in Nat
    BY <1>1, <1>3, PopOne
  <2>4. Due(id)' = Due(id) + 0 /\ Due(id) \in Nat
    BY <1>4, <2>1, <2>2, <2>3, DueParts
  <2> HIDE DEF Due
  <2> QED
    BY <1>3, <1>6, <2>1, <2>4 DEF Settled
<1> QED
  BY <1>5, <1>6 DEF SessionInv

\* The server answers the oldest request, or loses the answer to a full
\* transport.
LEMMA ServerAnswersStep ==
  ASSUME SessionInv, NEW c \in StatusCodes, ServerAnswers(c)
  PROVE  SessionInv' /\ \A id \in RequestIds : Settled(id) => Settled(id)'
<1> DEFINE h == Head(serving)
           answer == Response(h, c, "fits")
<1>1. /\ serving \in Seq(Rpc) /\ serving # <<>> /\ toClient \in Queue(Rpc)
      /\ toClient \in Seq(Rpc) /\ toClient \in Seq(Answer) /\ lost \in [RequestIds -> Nat]
  BY SessionTypes DEF SessionInv, TypeOK, ServerAnswers
<1>2. h \in Rpc /\ Tail(serving) \in Seq(Rpc)
  BY <1>1
<1>3. answer \in Rpc /\ answer \in Answer /\ answer.id = h.id
  <2>1. answer \in Rpc
    BY <1>2, PayloadTypes DEF Bodies
  <2> HIDE DEF h
  <2>2. answer.op = "REQUEST_RESPONSE" /\ answer.id = h.id
    BY <1>2 DEF Response, Rpc
  <2> QED
    BY <2>1, <2>2 DEF Answer
<1>4. /\ UNCHANGED <<coreVars, nextRequestId, hasTransport, toServer, sent, copies, histories>>
      /\ serving' = Tail(serving)
  BY DEF ServerAnswers
<1>5. \/ IsFull(toClient) /\ Lose(h) /\ UNCHANGED toClient
      \/ ~IsFull(toClient) /\ toClient' = Append(toClient, answer) /\ UNCHANGED lost
  BY DEF ServerAnswers
<1> HIDE DEF h, answer
<1>6. /\ toClient' \in Queue(Rpc) /\ toClient' \in Seq(Answer) /\ lost' \in [RequestIds -> Nat]
      /\ \A id \in RequestIds :
           CountIn(toClient', OnId(id)) + lost'[id]
             = CountIn(toClient, OnId(id)) + lost[id] + One(id, h)
  <2>1. \A id \in RequestIds : CountIn(toClient, OnId(id)) \in Nat /\ lost[id] \in Nat
                               /\ One(id, h) \in Nat
    BY <1>1, <1>2, CountNat, OneIs
  <2>2. CASE IsFull(toClient) /\ Lose(h) /\ UNCHANGED toClient
    BY <1>1, <1>2, <2>1, <2>2, LostOne
  <2>3. CASE ~IsFull(toClient) /\ toClient' = Append(toClient, answer) /\ UNCHANGED lost
    <3>1. Append(toClient, answer) \in Queue(Rpc) /\ Append(toClient, answer) \in Seq(Answer)
      BY <1>1, <1>3, <2>3, AppendQueue
    <3>2. \A id : CountIn(Append(toClient, answer), OnId(id))
                    = CountIn(toClient, OnId(id)) + One(id, answer)
      BY <1>1, <1>3, PushOne
    <3>3. \A id : One(id, answer) = One(id, h)
      BY <1>3 DEF One
    <3> QED
      BY <1>1, <2>1, <2>3, <3>1, <3>2, <3>3
  <2> QED
    BY <1>5, <2>2, <2>3
<1>7. TypeOK'
  BY <1>2, <1>4, <1>6 DEF SessionInv, TypeOK, CoreTypeOK, coreVars, histories
<1>8. ASSUME NEW id \in RequestIds, Settled(id) PROVE Settled(id)'
  <2>1. /\ CountIn(Payloads(outbound'), OnId(id)) = CountIn(Payloads(outbound), OnId(id))
        /\ CountIn(toServer', OnId(id)) = CountIn(toServer, OnId(id))
        /\ CountIn(pending', {id}) = CountIn(pending, {id})
    BY <1>4 DEF coreVars
  <2>2. /\ CountIn(Payloads(outbound), OnId(id)) \in Nat /\ CountIn(toServer, OnId(id)) \in Nat
        /\ CountIn(toClient, OnId(id)) \in Nat /\ lost[id] \in Nat /\ One(id, h) \in Nat
        /\ CountIn(toClient', OnId(id)) \in Nat /\ lost'[id] \in Nat
    BY <1>2, <1>7, DueNat, DueNatNext, OneIs DEF SessionInv
  <2>3. /\ CountIn(serving, OnId(id)) = CountIn(serving', OnId(id)) + One(id, h)
        /\ CountIn(serving', OnId(id)) \in Nat
    BY <1>1, <1>4, PopOne DEF h
  <2>4. CountIn(toClient', OnId(id)) + lost'[id]
          = CountIn(toClient, OnId(id)) + lost[id] + One(id, h)
    BY <1>6
  <2>5. Due(id)' = Due(id) + 0 /\ Due(id) \in Nat
    BY <2>1, <2>2, <2>3, <2>4, DueParts
  <2> HIDE DEF Due
  <2> QED
    BY <1>4, <1>8, <2>1, <2>5 DEF Settled
<1> QED
  BY <1>6, <1>7, <1>8 DEF SessionInv

\* The server drops a request.
LEMMA ServerDropsStep ==
  ASSUME SessionInv, ServerDrops
  PROVE  SessionInv' /\ \A id \in RequestIds : Settled(id) => Settled(id)'
<1>1. PICK i \in DOMAIN serving : serving' = RemoveAt(serving, i) /\ Lose(serving[i])
  BY DEF ServerDrops
<1>2. serving \in Seq(Rpc) /\ lost \in [RequestIds -> Nat]
  BY SessionTypes DEF SessionInv
<1>3. RemoveAt(serving, i) \in Seq(Rpc) /\ serving[i] \in Rpc
  BY <1>2, RemoveOne
<1>4. UNCHANGED <<coreVars, nextRequestId, hasTransport, toServer, toClient, sent, copies,
                  histories>>
  BY DEF ServerDrops
<1>5. /\ lost' \in [RequestIds -> Nat]
      /\ \A id \in RequestIds : lost'[id] = lost[id] + One(id, serving[i])
  BY <1>1, <1>2, <1>3, LostOne
<1>6. TypeOK' /\ toClient' \in Seq(Answer)
  BY <1>1, <1>3, <1>4, <1>5 DEF SessionInv, TypeOK, CoreTypeOK, coreVars, histories
<1>7. ASSUME NEW id \in RequestIds, Settled(id) PROVE Settled(id)'
  <2>1. /\ CountIn(Payloads(outbound'), OnId(id)) = CountIn(Payloads(outbound), OnId(id))
        /\ CountIn(toServer', OnId(id)) = CountIn(toServer, OnId(id))
        /\ CountIn(toClient', OnId(id)) = CountIn(toClient, OnId(id))
        /\ CountIn(pending', {id}) = CountIn(pending, {id})
    BY <1>4 DEF coreVars
  <2>2. /\ CountIn(Payloads(outbound), OnId(id)) \in Nat /\ CountIn(toServer, OnId(id)) \in Nat
        /\ CountIn(toClient, OnId(id)) \in Nat /\ lost[id] \in Nat
        /\ One(id, serving[i]) \in Nat
    BY <1>3, DueNat, OneIs DEF SessionInv
  <2>3. /\ CountIn(serving, OnId(id)) = CountIn(serving', OnId(id)) + One(id, serving[i])
        /\ CountIn(serving', OnId(id)) \in Nat
    BY <1>1, <1>2, RemoveOne
  <2>4. Due(id)' = Due(id) + 0 /\ Due(id) \in Nat
    BY <1>5, <2>1, <2>2, <2>3, DueParts
  <2> HIDE DEF Due
  <2> QED
    BY <1>4, <1>7, <2>1, <2>4 DEF Settled
<1> QED
  BY <1>6, <1>7 DEF SessionInv

-----------------------------------------------------------------------------

\* Every step keeps the types, and the accounts of every id.
LEMMA SessionStep ==
  ASSUME SessionInv, [Next]_vars
  PROVE  SessionInv' /\ \A id \in RequestIds : Settled(id) => Settled(id)'
<1> DEFINE Kept == SessionInv' /\ \A id \in RequestIds : Settled(id) => Settled(id)'
<1> SUFFICES Kept
  OBVIOUS
<1>1. ASSUME NEW m \in Methods, NEW b \in Bodies, SendJson(m, b) PROVE Kept
  BY <1>1, SendJsonStep
<1>2. CASE Attach
  BY <1>2 DEF Attach, SessionInv, TypeOK, CoreTypeOK, Settled, Due, coreVars, histories
<1>3. CASE ClientPoll
  BY <1>3, ClientPollStep
<1>4. ASSUME NEW id \in RequestIds, TakeJson(id) PROVE Kept
  <2>1. PICK i \in DOMAIN responses : responses' = RemoveAt(responses, i)
    BY <1>4 DEF TakeJson, TryTakeRpcResponse
  <2>2. responses' \in Queue(Rpc)
    BY <2>1, RemoveAtQueue DEF SessionInv, TypeOK, CoreTypeOK
  <2>3. UNCHANGED <<events, pending, outbound, nextMessageId, sessionVars>>
    BY <1>4 DEF TakeJson, TryTakeRpcResponse
  <2> QED
    BY <2>2, <2>3 DEF SessionInv, TypeOK, CoreTypeOK, Settled, Due, sessionVars, histories
<1>5. CASE CarryRequest
  BY <1>5, CarryRequestStep
<1>6. CASE CarryResponse
  BY <1>6, CarryResponseStep
<1>7. ASSUME NEW n \in 2..QueueCapacity, CarryRequestsTogether(n) PROVE Kept
  BY <1>7, RequestsTogetherStep
<1>8. ASSUME NEW n \in 2..QueueCapacity, CarryResponsesTogether(n) PROVE Kept
  BY <1>8, ResponsesTogetherStep
<1>9. CASE LoseResponse
  BY <1>9, LoseResponseStep
<1>10. ASSUME NEW c \in StatusCodes, ServerAnswers(c) PROVE Kept
  BY <1>10, ServerAnswersStep
<1>11. CASE ServerDrops
  BY <1>11, ServerDropsStep
<1>12. CASE UNCHANGED vars
  BY <1>12 DEF vars, coreVars, sessionVars, SessionInv, TypeOK, CoreTypeOK, Settled, Due, histories
<1> HIDE DEF Kept
<1> QED
  BY <1>1, <1>2, <1>3, <1>4, <1>5, <1>6, <1>7, <1>8, <1>9, <1>10, <1>11, <1>12 DEF Next

\* Nothing is under way, lost or expected at first.
LEMMA SessionStart ==
  ASSUME Init
  PROVE  SessionInv /\ \A id \in RequestIds : Settled(id)
<1>1. SessionInv
  <2>1. CoreTypeOK
    BY MaxMessageIdAssumption, QueueCapacityAssumption DEF Init, CoreInit, CoreTypeOK, Queue
  <2>2. toServer \in Queue(Rpc) /\ toClient \in Queue(Rpc) /\ serving \in Seq(Rpc)
    BY QueueCapacityAssumption DEF Init, Queue
  <2>3. nextRequestId \in RequestIds
    BY SessionAssumption DEF Init
  <2>6. hasTransport \in BOOLEAN /\ sent \in Nat /\ copies \in Nat
    BY DEF Init
  <2>4. /\ lost \in [RequestIds -> Nat] /\ lastTicket \in [RequestIds -> Nat]
        /\ reused \subseteq RequestIds
    BY DEF Init
  <2>5. toClient \in Seq(Answer)
    BY DEF Init
  <2> QED
    BY <2>1, <2>2, <2>3, <2>4, <2>5, <2>6 DEF SessionInv, TypeOK
<1>2. ASSUME NEW id \in RequestIds PROVE Settled(id)
  <2>1. Payloads(outbound) = <<>>
    BY DEF Init, CoreInit, Payloads
  <2>2. /\ CountIn(Payloads(outbound), OnId(id)) = 0 /\ CountIn(toServer, OnId(id)) = 0
        /\ CountIn(serving, OnId(id)) = 0 /\ CountIn(toClient, OnId(id)) = 0
        /\ CountIn(pending, {id}) = 0 /\ lost[id] = 0
    BY <2>1, CountEmpty DEF Init, CoreInit
  <2> QED
    BY <2>2, DueParts DEF Settled
<1> QED
  BY <1>1, <1>2

\* The queues, tables and counters of a client, its transports and its server
\* stay within their bounds, for any capacity and any number of ids and sends.
THEOREM SessionTypeCorrect == Spec => []TypeOK
<1>1. Init => SessionInv
  BY SessionStart
<1>2. SessionInv /\ [Next]_vars => SessionInv'
  BY SessionStep
<1>3. SessionInv => TypeOK
  BY DEF SessionInv
<1> QED
  BY <1>1, <1>2, <1>3, PTL DEF Spec

\* The pending table accounts for every send (core.c:120-129, endpoint.c:33,
\* 132), however requests and answers are refused, lost, repeated and delivered
\* together: what waits for ever waits for what was lost.
THEOREM PendingAccounted == Spec => []PendingAccountsForSends
<1> DEFINE Accounts == SessionInv /\ \A id \in RequestIds : Settled(id)
<1>1. Init => Accounts
  BY SessionStart
<1>2. Accounts /\ [Next]_vars => Accounts'
  BY SessionStep
<1>3. Accounts => PendingAccountsForSends
  <2> SUFFICES ASSUME SessionInv, NEW id \in RequestIds, Settled(id)
               PROVE  /\ Pending(id) <= UnderWay(id) + lost[id]
                      /\ copies = 0 => Pending(id) = UnderWay(id) + lost[id]
    BY DEF PendingAccountsForSends
  <2>1. UnderWay(id) + lost[id] = Due(id) /\ Pending(id) = CountIn(pending, {id})
    BY AccountsAre DEF SessionInv
  <2> QED
    BY <2>1 DEF Settled
<1> QED
  BY <1>1, <1>2, <1>3, PTL DEF Spec

-----------------------------------------------------------------------------
(* Ids come round one after the other, so the sends with one id are a whole *)
(* round apart, and whatever is under way with an id is of its last send    *)
(* unless the id was in use when it was last given.                         *)

\* What may be under way when the last sends are these, and these ids were in use.
OwnOf(last, again) ==
  {r \in Rpc :
     /\ r.id \in RequestIds /\ r.ticket \in 1..last[r.id]
     /\ r.ticket # last[r.id] => r.id \in again /\ r.ticket + MaxRequestId <= last[r.id]}

Own == OwnOf(lastTicket, reused)

\* The number of the next send with an id.
NextUse(id) ==
  sent + 1 + (id - nextRequestId) + (IF id < nextRequestId THEN MaxRequestId ELSE 0)

OwnInv ==
  /\ \A id \in RequestIds : lastTicket[id] # 0 => lastTicket[id] + MaxRequestId <= NextUse(id)
  /\ Payloads(outbound) \in Seq(Own) /\ toServer \in Seq(Own)
  /\ serving \in Seq(Own) /\ toClient \in Seq(Own) /\ responses \in Seq(Own)

\* A flush neither makes payloads nor changes them.
LEMMA FlushKeeps ==
  ASSUME NEW S \in SUBSET Rpc, NEW frames \in Seq(Frame), Payloads(frames) \in Seq(S),
         toServer \in Seq(S), Flush(frames)
  PROVE  Payloads(outbound') \in Seq(S) /\ toServer' \in Seq(S)
<1>1. CASE outbound' = frames /\ UNCHANGED toServer
  BY <1>1
<1>2. CASE toServer' = toServer \o Payloads(frames) /\ outbound' = <<>>
  <2>1. Payloads(outbound') = <<>>
    BY <1>2 DEF Payloads
  <2>2. toServer \o Payloads(frames) \in Seq(S) /\ <<>> \in Seq(S)
    OBVIOUS
  <2> QED
    BY <1>2, <2>1, <2>2, Zenon
<1>3. ASSUME NEW taken \in 0..(Len(frames) - 1),
             toServer' = toServer \o Payloads(SubSeq(frames, 1, taken)),
             outbound' = SubSeq(frames, taken + 2, Len(frames))
      PROVE  Payloads(outbound') \in Seq(S) /\ toServer' \in Seq(S)
  <2>1. /\ Payloads(SubSeq(frames, 1, taken)) = SubSeq(Payloads(frames), 1, taken)
        /\ Payloads(outbound') = SubSeq(Payloads(frames), taken + 2, Len(frames))
    BY <1>3, FlushParts
  <2>2. Len(Payloads(frames)) = Len(frames)
    BY PayloadSeq, FramePayload
  <2>3. /\ SubSeq(Payloads(frames), 1, taken) \in Seq(S)
        /\ SubSeq(Payloads(frames), taken + 2, Len(frames)) \in Seq(S)
    BY <2>2
  <2>4. toServer \o SubSeq(Payloads(frames), 1, taken) \in Seq(S)
    BY <2>3
  <2> QED
    BY <1>3, <2>1, <2>3, <2>4, Zenon
<1> QED
  BY <1>1, <1>2, <1>3 DEF Flush

\* An answer is owned as its request is.
LEMMA OwnAnswer ==
  ASSUME NEW r \in Own, NEW c \in StatusCodes
  PROVE  Response(r, c, "fits") \in Own
<1>1. r \in Rpc
  BY DEF Own, OwnOf
<1>2. Response(r, c, "fits") \in Rpc
  BY <1>1, PayloadTypes DEF Bodies
<1>3. Response(r, c, "fits").id = r.id /\ Response(r, c, "fits").ticket = r.ticket
  BY <1>1 DEF Response, Rpc
<1> QED
  BY <1>2, <1>3 DEF Own, OwnOf

\* What is under way stays owned when its id is given once more, a round later:
\* it is of another id, or its id is remembered.
LEMMA OwnHandsOn ==
  ASSUME NEW last \in [RequestIds -> Nat], NEW again \in SUBSET RequestIds,
         NEW id \in RequestIds, NEW n \in Nat, last[id] # 0 => last[id] + MaxRequestId <= n,
         NEW used \in BOOLEAN, NEW q \in Seq(OwnOf(last, again)),
         ~used => \A i \in DOMAIN q : q[i].id # id
  PROVE  q \in Seq(OwnOf([last EXCEPT ![id] = n],
                         IF used THEN again \cup {id} ELSE again \ {id}))
<1> DEFINE next == [last EXCEPT ![id] = n]
           after == IF used THEN again \cup {id} ELSE again \ {id}
<1>1. MaxRequestId \in Nat \ {0}
  BY SessionAssumption
<1>2. \A x \in RequestIds : next[x] = IF x = id THEN n ELSE last[x]
  OBVIOUS
<1>3. \A x \in again : x # id => x \in after
  OBVIOUS
<1>4. used => id \in after
  OBVIOUS
<1> HIDE DEF next, after
<1>5. ASSUME NEW i \in DOMAIN q
      PROVE  q[i] \in OwnOf(next, after)
  <2>1. q[i] \in OwnOf(last, again)
    OBVIOUS
  <2>2. /\ q[i] \in Rpc /\ q[i].id \in RequestIds /\ q[i].ticket \in 1..last[q[i].id]
        /\ q[i].ticket # last[q[i].id] =>
             q[i].id \in again /\ q[i].ticket + MaxRequestId <= last[q[i].id]
    BY <2>1 DEF OwnOf
  <2>3. CASE q[i].id # id
    BY <1>2, <1>3, <2>2, <2>3 DEF OwnOf
  <2>4. CASE q[i].id = id
    <3>1. used /\ id \in after /\ next[id] = n
      BY <1>2, <1>4, <2>4
    <3>2. last[id] \in Nat /\ q[i].ticket \in Nat /\ 1 <= q[i].ticket /\ q[i].ticket <= last[id]
      BY <2>2, <2>4
    <3>3. q[i].ticket + MaxRequestId <= n
      BY <1>1, <3>2
    <3>4. q[i].ticket \in 1..n
      BY <1>1, <3>2, <3>3
    <3> QED
      BY <2>2, <2>4, <3>1, <3>3, <3>4 DEF OwnOf
  <2> QED
    BY <2>3, <2>4
<1>6. q \in Seq(OwnOf(next, after))
  BY <1>5
<1> QED
  BY <1>6 DEF next, after

\* The id that is given next is given at once, and the others in their turn.
LEMMA RoundStep ==
  ASSUME NEW next \in 1..MaxRequestId, NEW n \in Nat, NEW id \in 1..MaxRequestId,
         MaxRequestId \in Nat \ {0},
         NEW after, after = NextRequestId(next),
         NEW use, use = n + 1 + (id - next) + (IF id < next THEN MaxRequestId ELSE 0),
         NEW later, later = n + 1 + 1 + (id - after) + (IF id < after THEN MaxRequestId ELSE 0)
  PROVE  /\ id = next => use = n + 1 /\ later = n + 1 + MaxRequestId
         /\ id # next => later = use
<1>1. CASE next = MaxRequestId
  <2>1. after = 1
    BY <1>1 DEF NextRequestId
  <2> QED
    BY <1>1, <2>1
<1>2. CASE next # MaxRequestId
  <2>1. after = next + 1
    BY <1>2 DEF NextRequestId
  <2> QED
    BY <1>2, <2>1
<1> QED
  BY <1>1, <1>2

\* A send of the client gives the id that has not been given for longest.
LEMMA SendJsonOwn ==
  ASSUME SessionInv, OwnInv, NEW m \in Methods, NEW b \in Bodies, SendJson(m, b)
  PROVE  OwnInv'
<1> DEFINE rpc == Request(nextRequestId, m, b, sent + 1)
           frame == [rpc |-> rpc, messageId |-> nextMessageId]
           n == sent + 1
           id0 == nextRequestId
           used == InUse(nextRequestId)
<1>1. /\ sent \in Nat /\ nextMessageId \in 1..MaxMessageId /\ nextRequestId \in RequestIds
      /\ outbound \in Seq(Frame) /\ lastTicket \in [RequestIds -> Nat]
      /\ reused \in SUBSET RequestIds
      /\ MaxRequestId \in Nat \ {0} /\ RequestIds = 1..MaxRequestId
  BY SessionAssumption, SessionTypes DEF SessionInv, TypeOK, CoreTypeOK
<1>2. /\ sent' = n /\ lastTicket' = [lastTicket EXCEPT ![id0] = n]
      /\ reused' = IF used THEN reused \cup {id0} ELSE reused \ {id0}
      /\ SendRequest(rpc) /\ nextRequestId' = NextRequestId(id0)
  BY DEF SendJson, SendBegins
<1>3. /\ used \in BOOLEAN
      /\ ~used => /\ \A i \in DOMAIN Payloads(outbound) : Payloads(outbound)[i].id # id0
                  /\ \A i \in DOMAIN toServer : toServer[i].id # id0
                  /\ \A i \in DOMAIN serving : serving[i].id # id0
                  /\ \A i \in DOMAIN toClient : toClient[i].id # id0
                  /\ \A i \in DOMAIN responses : responses[i].id # id0
  BY DEF InUse
<1>4. rpc \in Rpc /\ rpc.id = id0 /\ rpc.ticket = n
  <2>1. rpc \in Rpc
    BY <1>1, PayloadTypes
  <2> QED
    BY <2>1 DEF Request, ZeroRpc
<1>5. /\ NextUse(id0) = n
      /\ \A id \in RequestIds : NextUse(id)' = IF id = id0 THEN n + MaxRequestId ELSE NextUse(id)
  <2>1. ASSUME NEW id \in RequestIds
        PROVE  /\ id = id0 => NextUse(id) = sent + 1 /\ NextUse(id)' = sent + 1 + MaxRequestId
               /\ id # id0 => NextUse(id)' = NextUse(id)
    <3>1. NextUse(id)' = sent + 1 + 1 + (id - nextRequestId')
                           + (IF id < nextRequestId' THEN MaxRequestId ELSE 0)
      BY <1>2 DEF NextUse
    <3>2. nextRequestId' = NextRequestId(nextRequestId)
      BY <1>2
    <3> QED
      BY <1>1, <3>1, <3>2, RoundStep DEF NextUse
  <2> QED
    BY <1>1, <2>1
<1>6. lastTicket[id0] # 0 => lastTicket[id0] + MaxRequestId <= n
  BY <1>1, <1>5 DEF OwnInv
<1>7. \A id \in RequestIds : lastTicket'[id] # 0 => lastTicket'[id] + MaxRequestId <= NextUse(id)'
  <2> SUFFICES ASSUME NEW id \in RequestIds, lastTicket'[id] # 0
               PROVE  lastTicket'[id] + MaxRequestId <= NextUse(id)'
    OBVIOUS
  <2>1. CASE id = id0
    <3>1. lastTicket'[id] = n /\ NextUse(id)' = n + MaxRequestId
      BY <1>1, <1>2, <1>5, <2>1
    <3> QED
      BY <1>1, <3>1
  <2>2. CASE id # id0
    <3>1. lastTicket'[id] = lastTicket[id] /\ NextUse(id)' = NextUse(id)
      BY <1>1, <1>2, <1>5, <2>2
    <3> QED
      BY <3>1 DEF OwnInv
  <2> QED
    BY <2>1, <2>2
<1> DEFINE S == OwnOf([lastTicket EXCEPT ![id0] = n],
                      IF used THEN reused \cup {id0} ELSE reused \ {id0})
<1>8. Own' = S
  BY <1>2 DEF Own
<1>9. /\ Payloads(outbound) \in Seq(S) /\ toServer \in Seq(S)
      /\ serving \in Seq(S) /\ toClient \in Seq(S) /\ responses \in Seq(S)
  <2>1. n \in Nat /\ id0 \in RequestIds
    BY <1>1
  <2> HIDE DEF n, id0, used
  <2>2. ASSUME NEW q \in Seq(OwnOf(lastTicket, reused)), ~used => \A i \in DOMAIN q : q[i].id # id0
        PROVE  q \in Seq(S)
    BY <1>1, <1>3, <1>6, <2>1, <2>2, OwnHandsOn
  <2> QED
    BY <1>3, <2>2 DEF OwnInv, Own
<1>10. rpc \in S /\ S \in SUBSET Rpc
  <2>1. [lastTicket EXCEPT ![id0] = n][id0] = n
    BY <1>1
  <2> QED
    BY <1>1, <1>4, <2>1 DEF OwnOf
<1> HIDE DEF rpc, S
<1>11. frame \in Frame
  BY <1>1, <1>4 DEF Frame
<1>12. UNCHANGED <<responses, serving, toClient>>
  BY <1>2 DEF SendRequest
<1>13. Payloads(outbound') \in Seq(S) /\ toServer' \in Seq(S)
  <2>1. CASE UNCHANGED <<toServer, outbound>>
    BY <1>9, <2>1
  <2>2. CASE Flush(Append(outbound, frame))
    <3>1. Append(outbound, frame) \in Seq(Frame)
      BY <1>1, <1>11
    <3>2. Payloads(Append(outbound, frame)) = Append(Payloads(outbound), rpc)
      BY <1>1, <1>11, PayloadAppend, FramePayload
    <3>3. Payloads(Append(outbound, frame)) \in Seq(S)
      <4>1. Append(Payloads(outbound), rpc) \in Seq(S)
        BY <1>9, <1>10
      <4> QED
        BY <3>2, <4>1, Zenon
    <3> HIDE DEF frame
    <3> QED
      BY <1>9, <1>10, <2>2, <3>1, <3>3, FlushKeeps
  <2> QED
    BY <1>2, <2>1, <2>2 DEF SendRequest
<1> QED
  BY <1>7, <1>8, <1>9, <1>12, <1>13 DEF OwnInv

\* Every other step hands payloads on, or answers them.
LEMMA MoveOwn ==
  ASSUME OwnInv, UNCHANGED <<sent, nextRequestId, histories>>,
         \A S \in SUBSET Rpc :
           /\ Payloads(outbound) \in Seq(S) /\ toServer \in Seq(S) /\ serving \in Seq(S)
           /\ toClient \in Seq(S) /\ responses \in Seq(S)
           /\ \A r \in S, c \in StatusCodes : Response(r, c, "fits") \in S
           => /\ Payloads(outbound') \in Seq(S) /\ toServer' \in Seq(S) /\ serving' \in Seq(S)
              /\ toClient' \in Seq(S) /\ responses' \in Seq(S)
  PROVE  OwnInv'
<1>1. Own \in SUBSET Rpc
  BY DEF Own, OwnOf
<1>2. \A r \in Own, c \in StatusCodes : Response(r, c, "fits") \in Own
  BY OwnAnswer
<1>3. /\ Payloads(outbound) \in Seq(Own) /\ toServer \in Seq(Own) /\ serving \in Seq(Own)
      /\ toClient \in Seq(Own) /\ responses \in Seq(Own)
  BY DEF OwnInv
<1>4. Own' = Own /\ UNCHANGED <<sent, nextRequestId, lastTicket>>
  BY DEF Own, histories
<1>5. /\ Payloads(outbound') \in Seq(Own) /\ toServer' \in Seq(Own) /\ serving' \in Seq(Own)
      /\ toClient' \in Seq(Own) /\ responses' \in Seq(Own)
  BY <1>1, <1>2, <1>3
<1>6. \A id \in RequestIds : lastTicket'[id] # 0 => lastTicket'[id] + MaxRequestId <= NextUse(id)'
  BY <1>4 DEF OwnInv, NextUse
<1> QED
  BY <1>4, <1>5, <1>6 DEF OwnInv

LEMMA OwnStep ==
  ASSUME SessionInv, OwnInv, [Next]_vars
  PROVE  OwnInv'
<1>1. ASSUME NEW m \in Methods, NEW b \in Bodies, SendJson(m, b) PROVE OwnInv'
  BY <1>1, SendJsonOwn
<1> DEFINE Moves(S) ==
             /\ Payloads(outbound) \in Seq(S) /\ toServer \in Seq(S) /\ serving \in Seq(S)
             /\ toClient \in Seq(S) /\ responses \in Seq(S)
             /\ \A r \in S, c \in StatusCodes : Response(r, c, "fits") \in S
             => /\ Payloads(outbound') \in Seq(S) /\ toServer' \in Seq(S) /\ serving' \in Seq(S)
                /\ toClient' \in Seq(S) /\ responses' \in Seq(S)
<1>2. sent \in Nat /\ outbound \in Seq(Frame)
  BY SessionTypes DEF SessionInv, TypeOK
<1>3. CASE Attach \/ UNCHANGED vars
  <2>1. UNCHANGED <<coreVars, nextRequestId, toServer, serving, toClient, sent, histories>>
    BY <1>3 DEF Attach, vars, sessionVars
  <2>2. ASSUME NEW S \in SUBSET Rpc PROVE Moves(S)
    BY <2>1 DEF coreVars
  <2> QED
    BY <1>2, <2>1, <2>2, MoveOwn
<1>4. CASE ClientPoll
  <2>1. UNCHANGED <<responses, nextRequestId, serving, toClient, sent, histories>>
    BY <1>4 DEF ClientPoll
  <2>2. ASSUME NEW S \in SUBSET Rpc PROVE Moves(S)
    BY <1>2, <1>4, <2>1, FlushKeeps DEF ClientPoll
  <2> QED
    BY <1>2, <2>1, <2>2, MoveOwn
<1>5. ASSUME NEW id \in RequestIds, TakeJson(id) PROVE OwnInv'
  <2>1. PICK i \in DOMAIN responses : responses' = RemoveAt(responses, i)
    BY <1>5 DEF TakeJson, TryTakeRpcResponse
  <2>2. UNCHANGED <<outbound, sessionVars>>
    BY <1>5 DEF TakeJson, TryTakeRpcResponse
  <2>3. ASSUME NEW S \in SUBSET Rpc PROVE Moves(S)
    <3>1. responses \in Seq(S) => RemoveAt(responses, i) \in Seq(S)
      BY DEF RemoveAt
    <3> QED
      BY <2>1, <2>2, <3>1 DEF sessionVars
  <2> QED
    BY <1>2, <2>2, <2>3, MoveOwn DEF sessionVars
<1>6. CASE CarryRequest
  <2>1. UNCHANGED <<coreVars, nextRequestId, toClient, sent, histories>> /\ toServer # <<>>
    BY <1>6 DEF CarryRequest
  <2>2. toServer' = Tail(toServer) \/ toServer' = toServer
    BY <1>6 DEF CarryRequest, Pop
  <2>3. serving' = Append(serving, Head(toServer)) \/ serving' = serving
    BY <1>6 DEF CarryRequest
  <2>4. ASSUME NEW S \in SUBSET Rpc PROVE Moves(S)
    <3>1. toServer \in Seq(S) /\ serving \in Seq(S)
            => Tail(toServer) \in Seq(S) /\ Append(serving, Head(toServer)) \in Seq(S)
      BY <2>1
    <3> QED
      BY <2>1, <2>2, <2>3, <3>1, Zenon DEF coreVars
  <2> QED
    BY <1>2, <2>1, <2>4, MoveOwn
<1>7. ASSUME NEW n \in 2..QueueCapacity, CarryRequestsTogether(n) PROVE OwnInv'
  <2>1. /\ UNCHANGED <<coreVars, nextRequestId, toClient, sent, histories>>
        /\ n \in 2..Len(toServer) /\ toServer' = SubSeq(toServer, n + 1, Len(toServer))
        /\ serving' = Append(serving, Head(toServer))
    BY <1>7 DEF CarryRequestsTogether
  <2>2. ASSUME NEW S \in SUBSET Rpc PROVE Moves(S)
    <3>1. toServer \in Seq(S) /\ serving \in Seq(S)
            => /\ SubSeq(toServer, n + 1, Len(toServer)) \in Seq(S)
               /\ Append(serving, Head(toServer)) \in Seq(S)
      BY <2>1
    <3> QED
      BY <2>1, <3>1, Zenon DEF coreVars
  <2> QED
    BY <1>2, <2>1, <2>2, MoveOwn
<1>8. ASSUME /\ UNCHANGED <<nextRequestId, toServer, serving, sent, histories>>
             /\ toClient # <<>> /\ CoreOnBytes(Head(toClient))
             /\ \/ toClient' = toClient \/ toClient' = Tail(toClient)
                \/ \E n \in 2..Len(toClient) : toClient' = SubSeq(toClient, n + 1, Len(toClient))
      PROVE  OwnInv'
  <2>1. UNCHANGED outbound
    BY <1>8, Arrival
  <2>2. responses' = responses \/ responses' = Append(responses, Head(toClient))
    BY <1>8, Arrival
  <2>3. ASSUME NEW S \in SUBSET Rpc PROVE Moves(S)
    <3>1. toClient \in Seq(S) => toClient' \in Seq(S)
      <4> SUFFICES ASSUME toClient \in Seq(S) PROVE toClient' \in Seq(S)
        OBVIOUS
      <4>1. CASE toClient' = toClient \/ toClient' = Tail(toClient)
        BY <1>8, <4>1
      <4>2. ASSUME NEW n \in 2..Len(toClient), toClient' = SubSeq(toClient, n + 1, Len(toClient))
            PROVE  toClient' \in Seq(S)
        BY <4>2
      <4> QED
        BY <1>8, <4>1, <4>2
    <3>2. toClient \in Seq(S) /\ responses \in Seq(S)
            => Append(responses, Head(toClient)) \in Seq(S)
      BY <1>8
    <3> QED
      BY <1>8, <2>1, <2>2, <3>1, <3>2, Zenon
  <2> QED
    BY <1>2, <1>8, <2>3, MoveOwn
<1>9. CASE CarryResponse
  BY <1>8, <1>9 DEF CarryResponse, Pop
<1>10. ASSUME NEW n \in 2..QueueCapacity, CarryResponsesTogether(n) PROVE OwnInv'
  <2>1. toClient # <<>>
    BY <1>10 DEF CarryResponsesTogether
  <2> QED
    BY <1>8, <1>10, <2>1 DEF CarryResponsesTogether
<1>11. CASE LoseResponse
  <2>1. /\ UNCHANGED <<coreVars, nextRequestId, toServer, serving, sent, histories>>
        /\ toClient # <<>> /\ toClient' = Tail(toClient)
    BY <1>11 DEF LoseResponse
  <2>2. ASSUME NEW S \in SUBSET Rpc PROVE Moves(S)
    <3>1. toClient \in Seq(S) => Tail(toClient) \in Seq(S)
      BY <2>1
    <3> QED
      BY <2>1, <3>1, Zenon DEF coreVars
  <2> QED
    BY <1>2, <2>1, <2>2, MoveOwn
<1>12. ASSUME NEW c \in StatusCodes, ServerAnswers(c) PROVE OwnInv'
  <2>1. /\ UNCHANGED <<coreVars, nextRequestId, toServer, sent, histories>>
        /\ serving # <<>> /\ serving' = Tail(serving)
    BY <1>12 DEF ServerAnswers
  <2>2. \/ toClient' = toClient
        \/ toClient' = Append(toClient, Response(Head(serving), c, "fits"))
    BY <1>12 DEF ServerAnswers
  <2>3. ASSUME NEW S \in SUBSET Rpc PROVE Moves(S)
    <3>1. serving \in Seq(S) => Tail(serving) \in Seq(S) /\ Head(serving) \in S
      BY <2>1
    <3>2. \A x \in S : toClient \in Seq(S) => Append(toClient, x) \in Seq(S)
      OBVIOUS
    <3> QED
      BY <2>1, <2>2, <3>1, <3>2, Zenon DEF coreVars
  <2> QED
    BY <1>2, <2>1, <2>3, MoveOwn
<1>13. CASE ServerDrops
  <2>1. PICK i \in DOMAIN serving : serving' = RemoveAt(serving, i)
    BY <1>13 DEF ServerDrops
  <2>2. UNCHANGED <<coreVars, nextRequestId, toServer, toClient, sent, histories>>
    BY <1>13 DEF ServerDrops
  <2>3. ASSUME NEW S \in SUBSET Rpc PROVE Moves(S)
    <3>1. serving \in Seq(S) => RemoveAt(serving, i) \in Seq(S)
      BY DEF RemoveAt
    <3> QED
      BY <2>1, <2>2, <3>1, Zenon DEF coreVars
  <2> QED
    BY <1>2, <2>2, <2>3, MoveOwn
<1> QED
  BY <1>1, <1>3, <1>4, <1>5, <1>6, <1>7, <1>9, <1>10, <1>11, <1>12, <1>13 DEF Next

\* A response that waits to be taken answers the last send with its id
\* (sdk.c:69-72), whatever failed, was lost or was repeated in between, unless the
\* id came round while it was in use: then it may be a whole round older.
THEOREM OwnAnswers == Spec => []AnswersAreOwn
<1>1. Init => OwnInv
  <2>1. ASSUME Init PROVE OwnInv
    <3>1. Payloads(outbound) = <<>>
      BY <2>1 DEF Init, CoreInit, Payloads
    <3>2. /\ toServer = <<>> /\ serving = <<>> /\ toClient = <<>> /\ responses = <<>>
          /\ \A id \in RequestIds : lastTicket[id] = 0
      BY <2>1 DEF Init, CoreInit
    <3> QED
      BY <3>1, <3>2 DEF OwnInv
  <2> QED
    BY <2>1
<1>2. Init => SessionInv
  BY SessionStart
<1>3. SessionInv /\ [Next]_vars => SessionInv'
  BY SessionStep
<1>4. SessionInv /\ OwnInv /\ [Next]_vars => OwnInv'
  BY OwnStep
<1>5. OwnInv => AnswersAreOwn
  <2> SUFFICES ASSUME OwnInv, NEW i \in DOMAIN responses,
                      responses[i].ticket # lastTicket[responses[i].id]
               PROVE  /\ responses[i].id \in reused
                      /\ responses[i].ticket + MaxRequestId <= lastTicket[responses[i].id]
    BY DEF AnswersAreOwn
  <2>1. responses[i] \in Own
    BY DEF OwnInv
  <2> QED
    BY <2>1 DEF Own, OwnOf
<1> QED
  BY <1>1, <1>2, <1>3, <1>4, <1>5, PTL DEF Spec

=============================================================================
