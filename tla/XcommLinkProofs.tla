-------------------------- MODULE XcommLinkProofs --------------------------
(***************************************************************************)
(* Proofs about XcommLink: as long as neither program is started twice, and*)
(* none has its variables overwritten, the link implements MessageLink,    *)
(* whatever is lost, interrupted, stuck or closed, and however wide the    *)
(* counters are.  Without these two provisos, what is printed is still     *)
(* something the peer has fetched, or garbage.                             *)
(*                                                                         *)
(* The invariant follows a message number around the loop: out with the    *)
(* data, back with the acknowledgement.  Of the numbers on the way, those  *)
(* behind the receiver are what the receiver last saw, and those behind    *)
(* the sender's last acknowledgement are the sender's own.                 *)
(***************************************************************************)
EXTENDS XcommLink, SequenceTheorems, TLAPS

\* Packets in the mailboxes that somebody will still look at.
Sending(b, kind) == txBusy[b] = 1 /\ txBox[b].kind = kind
Unread(b, kind) == pc[b] # "off" /\ rxReady[b] = 0 /\ rxBox[b].kind = kind

\* A program that was never started is in its initial state.
Fresh(b) ==
  /\ starts[b] = 0
  /\ txCount[b] = 0 /\ rxCount[b] = 0 /\ rxIndex[b] = 0 /\ txIndex[b] = 0
  /\ txMsg[b] = NoText
  /\ txBusy[b] = 0 /\ rxReady[b] = 0
  /\ taken[b] = 0
OffInv == \A b \in Boards : IF pc[b] = "off" THEN Fresh(b) ELSE starts[b] > 0

\* The loop: what is ready to go, and what the radio holds.
LoopInv ==
  \A b \in Boards :
    /\ txIndex[b] # Astray
    /\ pc[b] = "recv" => txIndex[b] = 0
    /\ pc[b] = "send" /\ txIndex[b] = 1 =>
         txData[b].kind = "ack" /\ txData[b].seq = rxIndex[b]
    /\ txBusy[b] = 1 => pc[b] \in {"sent", "stopped"}
    /\ Sending(b, "ack") => txBox[b].seq = rxIndex[b]

\* The message on its way, and what has been printed.
Printed(b, s) ==
  /\ taken[b] <= Len(typed[b])
  /\ txMsg[b] = IF taken[b] = 0 THEN NoText ELSE typed[b][taken[b]]
  /\ \A i \in 1..Len(printed[s]) : printed[s][i] = typed[b][i]
  /\ Len(printed[s]) = IF rxIndex[s] = txCount[b] THEN taken[b] ELSE taken[b] - 1
PrintedInv == \A b \in Boards : Printed(b, Peer(b))

\* Numbers of data on the way out.
LastMessage(b, p) == taken[b] > 0 /\ p.seq = txCount[b] /\ p.text = txMsg[b]
DataInv ==
  \A b \in Boards :
    /\ Sending(b, "data") => LastMessage(b, txBox[b])
    /\ Unread(Peer(b), "data") =>
         \/ LastMessage(b, rxBox[Peer(b)])
         \/ rxBox[Peer(b)].seq = rxIndex[Peer(b)]

\* Numbers of acknowledgements on the way back.
AckInv ==
  \A b \in Boards :
    /\ AllAcked(b) => rxIndex[Peer(b)] = txCount[b]
    /\ taken[b] = 0 => AllAcked(b)
    /\ Unread(b, "ack") =>
         /\ rxBox[b].seq = txCount[b] => rxIndex[Peer(b)] = txCount[b]
         /\ AllAcked(b) => rxBox[b].seq = txCount[b]

IInv == TypeOK /\ OffInv /\ LoopInv /\ PrintedInv /\ DataInv /\ AckInv

----------------------------------------------------------------------------
(* The steps of one board, one by one.                                     *)

Step(b) ==
  \/ Start(b)
  \/ NothingReceived(b) \/ ReceiveAck(b) \/ ReceiveData(b)
  \/ SendAnswer(b) \/ SendNext(b) \/ SendAgain(b) \/ NothingToSend(b)
  \/ PacketTaken(b) \/ Arrive(b) \/ Lose(b) \/ CloseConsole(b)
  \/ SendNothing(b) \/ Overwrite(b) \/ PrintOverrun(b)
  \/ (\E m \in Texts : Enter(b, m))
  \/ (pc[b] \in Running /\ Halt(b))

LEMMA NextIsStep == Next => \E b \in Boards : Step(b)
BY DEF Next, Step, Turn, Failure, Console, Radio, Interrupted, Overrun, CopiesGarbage,
   Stuck, QueueGone, Running

\* The peer of a board is the other one.
LEMMA PeerIsOther ==
  \A b \in Boards : Peer(b) \in Boards /\ Peer(b) # b /\ Peer(Peer(b)) = b
BY DEF Boards, Peer

\* A counter moves on to a value it did not have.
LEMMA NextCount ==
  \A n \in Counts : (n + 1) % CountMod \in Counts /\ (n + 1) % CountMod # n
<1> SUFFICES ASSUME NEW n \in Counts
             PROVE  (n + 1) % CountMod \in Counts /\ (n + 1) % CountMod # n
  OBVIOUS
<1> USE LinkAssumption DEF LinkAssumption, Counts
<1>1. CASE n + 1 = CountMod
  <2>1. (n + 1) % CountMod = 0
    BY <1>1
  <2> QED BY <2>1, <1>1
<1>2. CASE n + 1 < CountMod
  <2>1. (n + 1) % CountMod = n + 1
    BY <1>2
  <2> QED BY <2>1, <1>2
<1> QED BY <1>1, <1>2

----------------------------------------------------------------------------
(* Every variable keeps its type, however often programs are restarted.    *)

LEMMA AppendTyped ==
  ASSUME NEW S, NEW f \in [Boards -> Seq(S)], NEW b \in Boards, NEW x \in S
  PROVE  [f EXCEPT ![b] = Append(@, x)] \in [Boards -> Seq(S)]
<1>1. Append(f[b], x) \in Seq(S)
  BY AppendProperties
<1> QED BY <1>1

LEMMA TypeInit == Init => TypeOK
BY LinkAssumption DEF LinkAssumption, Init, TypeOK, Running, Counts, Packets,
   AnyText, Astray, NoPacket, Boards

LEMMA TypeStep == TypeOK /\ [Next]_vars => TypeOK'
<1> SUFFICES ASSUME TypeOK, [Next]_vars PROVE TypeOK'
  OBVIOUS
<1> USE LinkAssumption, PeerIsOther DEF LinkAssumption, TypeOK, Running, AnyText, Astray
<1>1. ASSUME NEW b \in Boards, Step(b) PROVE TypeOK'
  <2>1. CASE Start(b)
    <3>1. 0 \in Counts /\ starts[b] + 1 \in Nat
      BY DEF Counts
    <3> QED BY <2>1, <3>1 DEF Start, console
  <2>2. CASE NothingReceived(b)
    BY <2>2 DEF NothingReceived, mailboxes, console
  <2>3. CASE ReceiveAck(b)
    BY <2>3 DEF ReceiveAck, ReceiveAckOf, TakePacket, console, Packets
  <2>4. CASE ReceiveData(b)
    <3>1. rxBox[b] \in Packets
      OBVIOUS
    <3>2. [kind |-> "ack", seq |-> rxBox[b].seq, text |-> rxBox[b].text] \in Packets
      BY <3>1 DEF Packets
    <3>3. printed' \in [Boards -> Seq(AnyText)]
      <4>1. rxBox[b].text \in Texts \cup {NoText}
        BY <3>1 DEF Packets
      <4>2. printed' \in {printed, [printed EXCEPT ![b] = Append(@, rxBox[b].text)]}
        BY <2>4 DEF ReceiveData, PrintIfNew, IsNew, AppendPrinted
      <4>3. printed \in [Boards -> Seq(Texts \cup {NoText})]
        OBVIOUS
      <4>4. [printed EXCEPT ![b] = Append(@, rxBox[b].text)]
              \in [Boards -> Seq(Texts \cup {NoText})]
        BY <4>1, <4>3, AppendTyped
      <4> QED BY <4>2, <4>3, <4>4
    <3> QED BY <2>4, <3>1, <3>2, <3>3 DEF ReceiveData, Answer, Prepare, AckPacket,
       TakePacket, console, Packets
  <2>5. CASE SendAnswer(b)
    BY <2>5 DEF SendAnswer, Load
  <2>6. CASE SendNext(b)
    <3> DEFINE text == typed[b][taken[b] + 1]
               seq == (txCount[b] + 1) % CountMod
    <3>1. text \in AnyText
      <4>1. typed[b] \in Seq(Texts)
        OBVIOUS
      <4>2. taken[b] + 1 \in 1..Len(typed[b])
        BY <2>6 DEF SendNext, SendNextAs, NextSeq, MessageWaiting
      <4> QED BY <4>1, <4>2, ElementOfSeq
    <3>2. seq \in Counts
      BY NextCount
    <3>3. [kind |-> "data", seq |-> seq, text |-> text] \in Packets
      BY <3>1, <3>2 DEF Packets
    <3> HIDE DEF text, seq
    <3>4. /\ txMsg' = [txMsg EXCEPT ![b] = text]
          /\ txCount' = [txCount EXCEPT ![b] = seq]
          /\ txData' = [txData EXCEPT ![b] = [kind |-> "data", seq |-> seq, text |-> text]]
          /\ Load(b, [kind |-> "data", seq |-> seq, text |-> text])
          /\ taken' = [taken EXCEPT ![b] = @ + 1]
          /\ txIndex' = [txIndex EXCEPT ![b] = 1]
      BY <2>6 DEF SendNext, SendNextAs, NextSeq, DataPacket, text, seq
    <3> QED BY <3>1, <3>2, <3>3, <3>4 DEF Load
  <2>7. CASE SendAgain(b)
    <3>1. [kind |-> "data", seq |-> txCount[b], text |-> txMsg[b]] \in Packets
      BY DEF Packets
    <3> QED BY <2>7, <3>1 DEF SendAgain, Load, DataPacket
  <2>8. CASE NothingToSend(b)
    <3>1. [kind |-> "data", seq |-> txCount[b], text |-> txMsg[b]] \in Packets
      BY DEF Packets
    <3> QED BY <2>8, <3>1 DEF NothingToSend, DataPacket, mailboxes, console
  <2>9. CASE PacketTaken(b)
    BY <2>9 DEF PacketTaken, mailboxes, console
  <2>10. CASE Arrive(b)
    BY <2>10 DEF Arrive, program, console
  <2>11. CASE Lose(b)
    BY <2>11 DEF Lose, program, console
  <2>12. CASE CloseConsole(b)
    BY <2>12 DEF CloseConsole, program, mailboxes
  <2>13. CASE \E m \in Texts : Enter(b, m)
    <3>1. typed' \in [Boards -> Seq(Texts)]
      BY <2>13, AppendTyped DEF Enter
    <3> QED BY <2>13, <3>1 DEF Enter, program, mailboxes
  <2>14. CASE pc[b] \in Running /\ Halt(b)
    BY <2>14 DEF Halt, mailboxes, console
  <2>15. CASE SendNothing(b)
    BY <2>15 DEF SendNothing, mailboxes, console
  <2>16. CASE Overwrite(b)
    <3>1. PICK sent \in Counts, acked \in Counts, received \in Counts, index \in {0, 1, Astray} :
            /\ txCount' = [txCount EXCEPT ![b] = sent]
            /\ rxCount' = [rxCount EXCEPT ![b] = acked]
            /\ rxIndex' = [rxIndex EXCEPT ![b] = received]
            /\ txIndex' = [txIndex EXCEPT ![b] = index]
            /\ DataPacket(b, sent, NoText)
            /\ pc' = [pc EXCEPT ![b] = IF index = 1 THEN "sent" ELSE "recv"]
            /\ IF index = 1
               THEN /\ txBox' = [txBox EXCEPT ![b] = txData'[b]]
                    /\ txBusy' = [txBusy EXCEPT ![b] = 1]
               ELSE UNCHANGED <<txBox, txBusy>>
      <4> HIDE DEF TypeOK, LinkAssumption, Astray, Running, AnyText
      <4> QED BY <2>16 DEF Overwrite
    <3>2. [kind |-> "data", seq |-> sent, text |-> NoText] \in Packets
      BY DEF Packets
    <3>3. UNCHANGED <<starts, txMsg, rxBox, rxReady, console, printed>>
      BY <2>16 DEF Overwrite
    <3>4. txData' \in [Boards -> Packets] /\ txBox' \in [Boards -> Packets]
      <4>1. txData' \in [Boards -> Packets]
        BY <3>1, <3>2 DEF DataPacket
      <4>2. txData'[b] \in Packets /\ txBox \in [Boards -> Packets]
        BY <4>1
      <4> HIDE DEF TypeOK, Astray, LinkAssumption, Running, AnyText
      <4> QED BY <3>1, <4>1, <4>2
    <3>5. /\ txCount' \in [Boards -> Counts]
          /\ rxCount' \in [Boards -> Counts]
          /\ rxIndex' \in [Boards -> Counts]
          /\ txIndex' \in [Boards -> {0, 1, Astray}]
      <4>1. /\ txCount \in [Boards -> Counts] /\ rxCount \in [Boards -> Counts]
            /\ rxIndex \in [Boards -> Counts] /\ txIndex \in [Boards -> {0, 1, Astray}]
        OBVIOUS
      <4> HIDE DEF TypeOK, Astray, LinkAssumption
      <4> QED BY <3>1, <4>1
    <3>6. /\ pc' \in [Boards -> Running \cup {"off", "stopped"}]
          /\ txBusy' \in [Boards -> {0, 1}]
      BY <3>1
    <3>7. /\ starts' \in [Boards -> Nat] /\ txMsg' \in [Boards -> AnyText]
          /\ rxBox' \in [Boards -> Packets] /\ rxReady' \in [Boards -> {0, 1}]
          /\ typed' \in [Boards -> Seq(Texts)] /\ taken' \in [Boards -> Nat]
          /\ gone' \in [Boards -> BOOLEAN] /\ printed' \in [Boards -> Seq(AnyText)]
      BY <3>3 DEF console
    <3> HIDE DEF Astray, LinkAssumption, Running, AnyText
    <3> QED BY <3>4, <3>5, <3>6, <3>7
  <2>17. CASE PrintOverrun(b)
    BY <2>17 DEF PrintOverrun, console
  <2> QED BY <1>1, <2>1, <2>2, <2>3, <2>4, <2>5, <2>6, <2>7, <2>8, <2>9, <2>10,
             <2>11, <2>12, <2>13, <2>14, <2>15, <2>16, <2>17 DEF Step
<1>2. CASE UNCHANGED vars
  BY <1>2 DEF vars, program, mailboxes, console
<1> QED BY <1>1, <1>2, NextIsStep

\* Every variable of both boards keeps its type.
THEOREM LinkTypeCorrect == Spec => []TypeOK
BY TypeInit, TypeStep, PTL DEF Spec

----------------------------------------------------------------------------
(* The invariant of a link whose programs are each started once.           *)

\* What is on its way and what is printed depends on little.
LEMMA PrintedKept ==
  ASSUME NEW b, NEW s, Printed(b, s),
         typed'[b] = typed[b], taken'[b] = taken[b], txMsg'[b] = txMsg[b],
         printed'[s] = printed[s],
         (rxIndex'[s] = txCount'[b]) <=> (rxIndex[s] = txCount[b])
  PROVE  Printed(b, s)'
BY DEF Printed

\* Printing the one message that is missing makes what is printed complete.
LEMMA PrintMissing ==
  ASSUME NEW S, NEW q \in Seq(S), NEW x \in S, NEW r, NEW n \in Nat,
         Len(q) = n - 1, x = r[n], \A i \in 1..Len(q) : q[i] = r[i]
  PROVE  Len(Append(q, x)) = n /\ \A i \in 1..n : Append(q, x)[i] = r[i]
<1>1. /\ Len(Append(q, x)) = Len(q) + 1
      /\ \A i \in 1..Len(q) : Append(q, x)[i] = q[i]
      /\ Append(q, x)[Len(q) + 1] = x
  BY AppendProperties
<1>2. Len(q) \in Nat /\ Len(q) + 1 = n
  BY LenProperties
<1>3. ASSUME NEW i \in 1..n PROVE Append(q, x)[i] = r[i]
  <2>1. CASE i = n
    BY <1>1, <1>2, <2>1
  <2>2. CASE i # n
    <3>1. i \in 1..Len(q)
      BY <1>2, <2>2
    <3> QED BY <1>1, <3>1
  <2> QED BY <2>1, <2>2
<1> QED BY <1>1, <1>2, <1>3

\* A message that is entered changes nothing of those before it.
LEMMA PrintedTyped ==
  ASSUME NEW b \in Boards, NEW s \in Boards, TypeOK, TypeOK', Printed(b, s),
         Len(typed[b]) <= Len(typed'[b]),
         \A i \in 1..Len(typed[b]) : typed'[b][i] = typed[b][i],
         UNCHANGED <<taken, txMsg, printed, rxIndex, txCount>>
  PROVE  Printed(b, s)'
<1>1. /\ taken[b] \in Nat
      /\ typed[b] \in Seq(Texts) /\ typed'[b] \in Seq(Texts)
      /\ printed[s] \in Seq(AnyText)
  BY DEF TypeOK
<1>2. Len(typed[b]) \in Nat /\ Len(typed'[b]) \in Nat /\ Len(printed[s]) \in Nat
  BY <1>1, LenProperties
<1>3. Len(printed[s]) <= Len(typed[b])
  BY <1>1, <1>2 DEF Printed
<1>4. taken[b] <= Len(typed'[b])
  BY <1>1, <1>2 DEF Printed
<1>5. IF taken[b] = 0 THEN txMsg[b] = NoText ELSE txMsg[b] = typed'[b][taken[b]]
  <2>1. taken[b] # 0 => taken[b] \in 1..Len(typed[b])
    BY <1>1, <1>2 DEF Printed
  <2> QED BY <2>1 DEF Printed
<1>6. \A i \in 1..Len(printed[s]) : printed[s][i] = typed'[b][i]
  <2> SUFFICES ASSUME NEW i \in 1..Len(printed[s]) PROVE printed[s][i] = typed'[b][i]
    OBVIOUS
  <2>1. i \in 1..Len(typed[b])
    BY <1>2, <1>3
  <2> QED BY <2>1 DEF Printed
<1> QED BY <1>4, <1>5, <1>6 DEF Printed

LEMMA IInvInit == Init => IInv
<1> SUFFICES ASSUME Init PROVE IInv
  OBVIOUS
<1>1. TypeOK
  BY TypeInit
<1>2. OffInv
  BY DEF Init, OffInv, Fresh
<1>3. LoopInv
  BY DEF Init, LoopInv, Sending, Astray
<1>4. PrintedInv
  <2> SUFFICES ASSUME NEW b \in Boards, NEW s \in Boards PROVE Printed(b, s)
    BY PeerIsOther DEF PrintedInv
  <2>1. /\ typed[b] = <<>> /\ printed[s] = <<>> /\ taken[b] = 0
        /\ rxIndex[s] = txCount[b] /\ txMsg[b] = NoText
    BY DEF Init
  <2> QED BY <2>1 DEF Printed
<1>5. DataInv
  BY PeerIsOther DEF Init, DataInv, Sending, Unread
<1>6. AckInv
  BY PeerIsOther DEF Init, AckInv, Unread, AllAcked
<1> QED BY <1>1, <1>2, <1>3, <1>4, <1>5, <1>6 DEF IInv

\* What arrives and has not been seen before is a message.
LEMMA NoGarbageArrives ==
  ASSUME IInv, NEW b \in Boards PROVE ~PrintOverrun(b)
<1> SUFFICES ASSUME PrintOverrun(b) PROVE FALSE
  OBVIOUS
<1> DEFINE s == Peer(b)
<1>1. s \in Boards /\ Peer(s) = b
  BY PeerIsOther
<1>2. Unread(b, "data") /\ rxBox[b].seq # rxIndex[b] /\ rxBox[b].text = NoText
  BY DEF PrintOverrun, IsNew, Unread
<1>3. LastMessage(s, rxBox[b])
  BY <1>1, <1>2 DEF IInv, DataInv
<1>4. taken[s] \in 1..Len(typed[s]) /\ typed[s] \in Seq(Texts) /\ NoText = typed[s][taken[s]]
  <2>1. Printed(s, b) /\ taken[s] \in Nat /\ typed[s] \in Seq(Texts)
    BY <1>1 DEF IInv, PrintedInv, TypeOK
  <2>2. Len(typed[s]) \in Nat
    BY <2>1, LenProperties
  <2> QED BY <1>2, <1>3, <2>1, <2>2 DEF LastMessage, Printed
<1>5. NoText \in Texts
  BY <1>4, ElementOfSeq
<1> QED BY <1>5, LinkAssumption DEF LinkAssumption

LEMMA IInvStep == MaxStarts = 1 /\ Corrupted = {} /\ IInv /\ [Next]_vars => IInv'
<1> SUFFICES ASSUME MaxStarts = 1, Corrupted = {}, IInv, [Next]_vars PROVE IInv'
  OBVIOUS
<1>0. TypeOK /\ TypeOK'
  BY TypeStep DEF IInv
<1>1. ASSUME NEW b \in Boards, Step(b)
      PROVE  OffInv' /\ LoopInv' /\ PrintedInv' /\ DataInv' /\ AckInv'
  <2> USE PeerIsOther, <1>0 DEF IInv, TypeOK, Running, Astray
  <2>1. CASE Start(b)
    <3>a. pc[b] = "off" /\ Fresh(b)
      BY <2>1 DEF OffInv, Start
    <3>0. /\ UNCHANGED <<txCount, rxCount, rxIndex, txIndex, txMsg, txData, txBusy, txBox,
                         rxBox, typed, taken, printed>>
          /\ pc' = [pc EXCEPT ![b] = "recv"]
          /\ starts' = [starts EXCEPT ![b] = 1]
          /\ rxReady' = [rxReady EXCEPT ![b] = 1]
      BY <2>1, <3>a DEF Fresh, Start, console
    <3>1. OffInv'
      BY <3>a, <3>0 DEF OffInv, Fresh
    <3>2. LoopInv'
      BY <3>a, <3>0 DEF LoopInv, Sending, Fresh
    <3>3. PrintedInv'
      BY <3>a, <3>0 DEF PrintedInv, Printed, Fresh
    <3>4. DataInv'
      BY <3>a, <3>0 DEF DataInv, LastMessage, Sending, Unread, Fresh
    <3>5. AckInv'
      BY <3>a, <3>0 DEF AckInv, AllAcked, Unread, Fresh
    <3> QED BY <3>1, <3>2, <3>3, <3>4, <3>5
  <2>2. CASE NothingReceived(b)
    <3>1. OffInv'
      BY <2>2 DEF OffInv, Fresh, NothingReceived, mailboxes, console
    <3>2. LoopInv'
      BY <2>2 DEF LoopInv, Sending, NothingReceived, mailboxes, console
    <3>3. PrintedInv'
      BY <2>2 DEF PrintedInv, Printed, NothingReceived, mailboxes, console
    <3>4. DataInv'
      BY <2>2 DEF DataInv, LastMessage, Sending, Unread, NothingReceived, mailboxes, console
    <3>5. AckInv'
      BY <2>2 DEF AckInv, AllAcked, Unread, NothingReceived, mailboxes, console
    <3> QED BY <3>1, <3>2, <3>3, <3>4, <3>5
  <2>3. CASE ReceiveAck(b)
    <3>1. OffInv'
      BY <2>3 DEF OffInv, Fresh, ReceiveAck, ReceiveAckOf, TakePacket, console
    <3>2. LoopInv'
      BY <2>3 DEF LoopInv, Sending, ReceiveAck, ReceiveAckOf, TakePacket, console
    <3>3. PrintedInv'
      BY <2>3 DEF PrintedInv, Printed, ReceiveAck, ReceiveAckOf, TakePacket, console
    <3>4. DataInv'
      BY <2>3 DEF DataInv, LastMessage, Sending, Unread, ReceiveAck, ReceiveAckOf,
         TakePacket, console
    <3>5. AckInv'
      BY <2>3 DEF AckInv, AllAcked, Unread, ReceiveAck, ReceiveAckOf, TakePacket, console
    <3> QED BY <3>1, <3>2, <3>3, <3>4, <3>5
  <2>4. CASE ReceiveData(b)
    <3>1. OffInv'
      BY <2>4 DEF OffInv, Fresh, ReceiveData, TakePacket, Answer, Prepare, AckPacket,
         PrintIfNew, IsNew, AppendPrinted, console
    <3>2. LoopInv'
      BY <2>4 DEF LoopInv, Sending, ReceiveData, TakePacket, Answer, Prepare, AckPacket,
         PrintIfNew, IsNew, AppendPrinted, console
    <3> DEFINE s == Peer(b)
    <3>0. /\ s \in Boards /\ s # b /\ Peer(s) = b /\ Boards = {b, s}
          /\ rxIndex' = [rxIndex EXCEPT ![b] = rxBox[b].seq]
          /\ UNCHANGED <<txCount, rxCount, txMsg, txBox, txBusy, rxBox, typed, taken>>
          /\ pc' = [pc EXCEPT ![b] = "send"] /\ rxReady' = [rxReady EXCEPT ![b] = 1]
          /\ rxBox[b].seq \in Counts
          /\ pc[b] = "recv" /\ rxReady[b] = 0 /\ rxBox[b].kind = "data"
      BY <2>4, PeerIsOther DEF ReceiveData, TakePacket, console, Packets, Boards
    <3>a. ASSUME rxIndex[b] = rxBox[b].seq PROVE PrintedInv'
      <4>1. printed' = printed /\ rxIndex' = rxIndex
        BY <2>4, <3>0, <3>a DEF ReceiveData, PrintIfNew, IsNew
      <4>2. \A x \in Boards : Printed(x, Peer(x))'
        <5> SUFFICES ASSUME NEW x \in Boards PROVE Printed(x, Peer(x))'
          OBVIOUS
        <5>1. Printed(x, Peer(x))
          BY DEF PrintedInv
        <5>2. UNCHANGED <<typed, taken, txMsg, txCount, printed, rxIndex>>
          BY <3>0, <4>1
        <5> HIDE DEF IInv, TypeOK
        <5> QED BY <5>1, <5>2, PrintedKept
      <4> QED BY <4>2 DEF PrintedInv
    <3>b. ASSUME rxIndex[b] # rxBox[b].seq PROVE PrintedInv'
      <4>1. LastMessage(s, rxBox[b])
        BY <3>0, <3>b DEF DataInv, Unread
      <4>2. /\ taken[s] > 0
            /\ rxBox[b].seq = txCount[s]
            /\ rxBox[b].text = typed[s][taken[s]]
            /\ Len(printed[b]) = taken[s] - 1
        BY <3>0, <3>b, <4>1 DEF PrintedInv, Printed, LastMessage
      <4>3. /\ printed'[s] = printed[s]
            /\ printed'[b] = Append(printed[b], rxBox[b].text)
        BY <2>4, <3>0, <3>b DEF ReceiveData, PrintIfNew, IsNew, AppendPrinted
      <4>4. /\ Len(printed'[b]) = taken[s]
            /\ \A i \in 1..Len(printed'[b]) : printed'[b][i] = typed[s][i]
        <5>1. printed[b] \in Seq(AnyText) /\ rxBox[b].text \in AnyText
          BY DEF Packets
        <5>2. Printed(s, b)
          BY <3>0 DEF PrintedInv
        <5>3. \A i \in 1..Len(printed[b]) : printed[b][i] = typed[s][i]
          BY <5>2 DEF Printed
        <5>4. taken[s] \in Nat
          BY <3>0
        <5> HIDE DEF s, IInv, TypeOK
        <5> DEFINE q == printed[b]
                   x == rxBox[b].text
                   r == typed[s]
                   n == taken[s]
        <5>5. /\ Len(Append(q, x)) = n
              /\ \A i \in 1..n : Append(q, x)[i] = r[i]
          <6>1. /\ q \in Seq(AnyText) /\ x \in AnyText /\ n \in Nat
                /\ Len(q) = n - 1 /\ x = r[n] /\ \A i \in 1..Len(q) : q[i] = r[i]
            BY <4>2, <5>1, <5>3, <5>4
          <6> HIDE DEF q, x, r, n
          <6> QED BY <6>1, PrintMissing
        <5>6. printed'[b] = Append(printed[b], rxBox[b].text)
          BY <4>3
        <5> QED BY <5>5, <5>6
      <4>5. rxIndex'[b] = txCount[s] /\ rxIndex'[s] = rxIndex[s]
        BY <3>0, <4>2
      <4>6. Printed(s, b)'
        <5>1. Printed(s, b)
          BY <3>0 DEF PrintedInv
        <5> QED BY <3>0, <4>4, <4>5, <5>1 DEF Printed
      <4>7. Printed(b, s)'
        <5>1. Printed(b, s)
          BY <3>0 DEF PrintedInv
        <5>2. UNCHANGED <<typed, taken, txMsg, txCount>>
          BY <3>0
        <5> HIDE DEF IInv, TypeOK, s
        <5> QED BY <4>3, <4>5, <5>1, <5>2, PrintedKept
      <4>8. \A x \in Boards : Printed(x, Peer(x))'
        BY <3>0, <4>6, <4>7
      <4> QED BY <4>8 DEF PrintedInv
    <3>3. PrintedInv'
      BY <3>a, <3>b
    <3>4. DataInv'
      BY <2>4 DEF DataInv, LastMessage, Sending, Unread, ReceiveData, TakePacket, Answer,
         Prepare, AckPacket, PrintIfNew, IsNew, AppendPrinted, console
    <3>5. AckInv'
      <4>1. AllAcked(s) /\ UNCHANGED <<txCount, rxCount>> => rxIndex'[b] = txCount[s]
        <5>1. AllAcked(s) => rxIndex[b] = txCount[s]
          BY <3>0 DEF AckInv
        <5>2. rxBox[b].seq \in {txCount[s], rxIndex[b]}
          BY <3>0 DEF DataInv, Unread, LastMessage
        <5> QED BY <3>0, <5>1, <5>2
      <4>2. rxIndex[b] = txCount[s] => rxIndex'[b] = txCount[s]
        BY <3>0 DEF DataInv, Unread, LastMessage
      <4>3. rxIndex'[s] = rxIndex[s] /\ ~Unread(b, "ack")'
        BY <3>0 DEF Unread
      <4>4. Unread(s, "ack")' <=> Unread(s, "ack")
        BY <3>0 DEF Unread
      <4>5. \A x \in Boards : AllAcked(x)' <=> AllAcked(x)
        BY <3>0 DEF AllAcked
      <4> QED BY <3>0, <4>1, <4>2, <4>3, <4>4, <4>5 DEF AckInv
    <3> QED BY <3>1, <3>2, <3>3, <3>4, <3>5
  <2>5. CASE SendAnswer(b)
    <3>1. OffInv'
      BY <2>5 DEF OffInv, Fresh, SendAnswer, Load
    <3>2. LoopInv'
      BY <2>5 DEF LoopInv, Sending, SendAnswer, Load
    <3>3. PrintedInv'
      BY <2>5 DEF PrintedInv, Printed, SendAnswer, Load
    <3>4. DataInv'
      <4>1. txData[b].kind = "ack"
        BY <2>5 DEF SendAnswer, Load, LoopInv
      <4> QED BY <2>5, <4>1 DEF DataInv, LastMessage, Sending, Unread, SendAnswer, Load
    <3>5. AckInv'
      BY <2>5 DEF AckInv, AllAcked, Unread, SendAnswer, Load
    <3> QED BY <3>1, <3>2, <3>3, <3>4, <3>5
  <2>6. CASE SendNext(b)
    <3>1. OffInv'
      BY <2>6 DEF OffInv, Fresh, SendNext, SendNextAs, NextSeq, Load, DataPacket,
         MessageWaiting
    <3>2. LoopInv'
      BY <2>6 DEF LoopInv, Sending, SendNext, SendNextAs, NextSeq, Load, DataPacket,
         MessageWaiting
    <3> DEFINE s == Peer(b)
               text == typed[b][taken[b] + 1]
               seq == (txCount[b] + 1) % CountMod
    <3>0. /\ s \in Boards /\ s # b /\ Peer(s) = b /\ Boards = {b, s}
          /\ seq \in Counts /\ seq # txCount[b]
          /\ pc[b] = "send" /\ pc' = [pc EXCEPT ![b] = "sent"]
          /\ txCount[b] = rxCount[b] /\ txCount' = [txCount EXCEPT ![b] = seq]
          /\ taken[b] < Len(typed[b]) /\ taken' = [taken EXCEPT ![b] = @ + 1]
          /\ txMsg' = [txMsg EXCEPT ![b] = text]
          /\ txBox' = [txBox EXCEPT ![b] = [kind |-> "data", seq |-> seq, text |-> text]]
          /\ txBusy' = [txBusy EXCEPT ![b] = 1]
          /\ UNCHANGED <<rxCount, rxIndex, rxBox, rxReady, typed, printed>>
      BY <2>6, PeerIsOther, NextCount
      DEF SendNext, SendNextAs, NextSeq, Load, DataPacket, MessageWaiting, AllAcked, Boards
    <3>s. rxIndex[s] = txCount[b] /\ Len(printed[s]) = taken[b]
      BY <3>0 DEF AckInv, PrintedInv, Printed, AllAcked
    <3> HIDE DEF text, seq
    <3>3. PrintedInv'
      <4>1. /\ txMsg'[b] = typed[b][taken'[b]]
            /\ taken'[b] = taken[b] + 1
            /\ txCount'[b] # rxIndex[s]
        BY <3>0, <3>s DEF text
      <4>2. txMsg'[s] = txMsg[s] /\ taken'[s] = taken[s] /\ txCount'[s] = txCount[s]
        BY <3>0
      <4>3. Len(typed[b]) \in Nat /\ Len(printed[s]) \in Nat
        BY <3>0
      <4>4. Printed(b, s)'
        <5>1. Printed(b, s)
          BY <3>0 DEF PrintedInv
        <5>2. /\ rxIndex'[s] = rxIndex[s] /\ printed'[s] = printed[s]
              /\ typed'[b] = typed[b] /\ taken[b] < Len(typed[b]) /\ taken[b] \in Nat
          BY <3>0
        <5> HIDE DEF IInv, TypeOK, s
        <5> QED BY <3>s, <4>1, <4>3, <5>1, <5>2 DEF Printed
      <4>5. Printed(s, b)'
        <5>1. Printed(s, b)
          BY <3>0 DEF PrintedInv
        <5> QED BY <3>0, <4>2, <5>1, PrintedKept
      <4> QED BY <3>0, <4>4, <4>5 DEF PrintedInv
    <3>4. DataInv'
      <4>1. LastMessage(b, txBox[b])'
        BY <3>0 DEF LastMessage
      <4>2. Unread(s, "data") => rxBox[s].seq = rxIndex[s]
        BY <3>0, <3>s DEF DataInv, LastMessage
      <4>3. /\ Sending(s, "data")' <=> Sending(s, "data")
            /\ \A x \in Boards : Unread(x, "data")' <=> Unread(x, "data")
        BY <3>0 DEF Sending, Unread
      <4>4. \A p : LastMessage(s, p)' <=> LastMessage(s, p)
        BY <3>0 DEF LastMessage
      <4> QED BY <3>0, <4>1, <4>2, <4>3, <4>4 DEF DataInv
    <3>5. AckInv'
      <4>1. /\ ~AllAcked(b)' /\ (AllAcked(s)' <=> AllAcked(s))
            /\ taken'[b] # 0 /\ taken'[s] = taken[s]
            /\ txCount'[b] = seq /\ txCount'[s] = txCount[s]
        BY <3>0 DEF AllAcked
      <4>2. \A x \in Boards : Unread(x, "ack")' <=> Unread(x, "ack")
        BY <3>0 DEF Unread
      <4>3. Unread(b, "ack") => rxBox[b].seq # seq
        BY <3>0 DEF AckInv, AllAcked
      <4>4. UNCHANGED <<rxIndex, rxBox>> /\ Boards = {b, s} /\ Peer(b) = s /\ Peer(s) = b
        BY <3>0
      <4>5. AckInv
        OBVIOUS
      <4> HIDE DEF IInv, TypeOK, s
      <4> QED BY <4>1, <4>2, <4>3, <4>4, <4>5 DEF AckInv
    <3> QED BY <3>1, <3>2, <3>3, <3>4, <3>5
  <2>7. CASE SendAgain(b)
    <3>1. OffInv'
      BY <2>7 DEF OffInv, Fresh, SendAgain, Load, DataPacket
    <3>2. LoopInv'
      BY <2>7 DEF LoopInv, Sending, SendAgain, Load, DataPacket
    <3>3. PrintedInv'
      BY <2>7 DEF PrintedInv, Printed, SendAgain, Load, DataPacket
    <3>4. DataInv'
      <4>1. taken[b] > 0
        BY <2>7 DEF SendAgain, AckInv
      <4> QED BY <2>7, <4>1 DEF DataInv, LastMessage, Sending, Unread, SendAgain, Load,
         DataPacket
    <3>5. AckInv'
      BY <2>7 DEF AckInv, AllAcked, Unread, SendAgain, Load, DataPacket
    <3> QED BY <3>1, <3>2, <3>3, <3>4, <3>5
  <2>8. CASE NothingToSend(b)
    <3>1. OffInv'
      BY <2>8 DEF OffInv, Fresh, NothingToSend, DataPacket, mailboxes, console
    <3>2. LoopInv'
      BY <2>8 DEF LoopInv, Sending, NothingToSend, DataPacket, mailboxes, console
    <3>3. PrintedInv'
      BY <2>8 DEF PrintedInv, Printed, NothingToSend, DataPacket, mailboxes, console
    <3>4. DataInv'
      BY <2>8 DEF DataInv, LastMessage, Sending, Unread, NothingToSend, DataPacket,
         mailboxes, console
    <3>5. AckInv'
      BY <2>8 DEF AckInv, AllAcked, Unread, NothingToSend, DataPacket, mailboxes, console
    <3> QED BY <3>1, <3>2, <3>3, <3>4, <3>5
  <2>9. CASE PacketTaken(b)
    <3>1. OffInv'
      BY <2>9 DEF OffInv, Fresh, PacketTaken, mailboxes, console
    <3>2. LoopInv'
      BY <2>9 DEF LoopInv, Sending, PacketTaken, mailboxes, console
    <3>3. PrintedInv'
      BY <2>9 DEF PrintedInv, Printed, PacketTaken, mailboxes, console
    <3>4. DataInv'
      BY <2>9 DEF DataInv, LastMessage, Sending, Unread, PacketTaken, mailboxes, console
    <3>5. AckInv'
      BY <2>9 DEF AckInv, AllAcked, Unread, PacketTaken, mailboxes, console
    <3> QED BY <3>1, <3>2, <3>3, <3>4, <3>5
  <2>10. CASE Arrive(b)
    <3>1. OffInv'
      BY <2>10 DEF OffInv, Fresh, Arrive, program, console
    <3>2. LoopInv'
      BY <2>10 DEF LoopInv, Sending, Arrive, program, console
    <3>3. PrintedInv'
      BY <2>10 DEF PrintedInv, Printed, Arrive, program, console
    <3>4. DataInv'
      <4> DEFINE s == Peer(b)
      <4>0. /\ s \in Boards /\ s # b /\ Peer(s) = b /\ Boards = {b, s}
            /\ txBusy[b] = 1
            /\ txBusy' = [txBusy EXCEPT ![b] = 0]
            /\ rxBox' = [rxBox EXCEPT ![s] = txBox[b]]
            /\ UNCHANGED <<pc, txBox, txCount, txMsg, taken, rxIndex>>
            /\ \A x \in Boards \ {s} : rxReady'[x] = rxReady[x]
        BY <2>10 DEF Arrive, program, console, Boards
      <4>1. \A x \in Boards : \A p : LastMessage(x, p)' <=> LastMessage(x, p)
        BY <4>0 DEF LastMessage
      <4>2. \A x \in Boards : Sending(x, "data")' => Sending(x, "data")
        BY <4>0 DEF Sending
      <4>3. Unread(s, "data")' => LastMessage(b, rxBox'[s])
        BY <4>0 DEF Unread, DataInv, Sending
      <4>4. rxBox'[b] = rxBox[b] /\ (Unread(b, "data")' => Unread(b, "data"))
        BY <4>0 DEF Unread
      <4>5. DataInv
        OBVIOUS
      <4>6. s = Peer(b)
        OBVIOUS
      <4>7. \A x \in Boards : \A p : LastMessage(x, p) => LastMessage(x, p)'
        BY <4>1
      <4>8. Sending(b, "data")' => LastMessage(b, txBox[b])
        BY <4>2, <4>5 DEF DataInv
      <4>9. Sending(s, "data")' => LastMessage(s, txBox[s])
        BY <4>0, <4>2, <4>5 DEF DataInv
      <4>10. LastMessage(b, txBox[b]) => LastMessage(b, txBox[b])'
        BY <4>0, <4>7
      <4>11. LastMessage(s, txBox[s]) => LastMessage(s, txBox[s])'
        BY <4>0, <4>7
      <4>12. LastMessage(b, rxBox'[s]) => LastMessage(b, rxBox[s])'
        BY <4>0 DEF LastMessage
      <4>13. Unread(b, "data")' => LastMessage(s, rxBox[b])' \/ rxBox'[b].seq = rxIndex'[b]
        BY <4>0, <4>4, <4>5 DEF DataInv, LastMessage
      <4> HIDE DEF IInv, TypeOK, s
      <4> QED BY <4>0, <4>3, <4>6, <4>8, <4>9, <4>10, <4>11, <4>12, <4>13 DEF DataInv
    <3>5. AckInv'
      <4> DEFINE s == Peer(b)
      <4>0. /\ s \in Boards /\ s # b /\ Peer(s) = b /\ Boards = {b, s}
            /\ txBusy[b] = 1
            /\ rxBox' = [rxBox EXCEPT ![s] = txBox[b]]
            /\ rxReady' = [rxReady EXCEPT ![s] = 0]
            /\ UNCHANGED <<pc, txCount, rxCount, rxIndex, taken>>
        BY <2>10 DEF Arrive, program, console, Boards
      <4>1. Unread(s, "ack")' => rxBox'[s].seq = rxIndex[b]
        BY <4>0 DEF Unread, LoopInv, Sending
      <4>2. rxBox'[b] = rxBox[b] /\ (Unread(b, "ack")' <=> Unread(b, "ack"))
        BY <4>0 DEF Unread
      <4>3. \A x \in Boards : AllAcked(x)' <=> AllAcked(x)
        BY <4>0 DEF AllAcked
      <4> QED BY <4>0, <4>1, <4>2, <4>3 DEF AckInv
    <3> QED BY <3>1, <3>2, <3>3, <3>4, <3>5
  <2>11. CASE Lose(b)
    <3>1. OffInv'
      BY <2>11 DEF OffInv, Fresh, Lose, program, console
    <3>2. LoopInv'
      BY <2>11 DEF LoopInv, Sending, Lose, program, console
    <3>3. PrintedInv'
      BY <2>11 DEF PrintedInv, Printed, Lose, program, console
    <3>4. DataInv'
      BY <2>11 DEF DataInv, LastMessage, Sending, Unread, Lose, program, console
    <3>5. AckInv'
      BY <2>11 DEF AckInv, AllAcked, Unread, Lose, program, console
    <3> QED BY <3>1, <3>2, <3>3, <3>4, <3>5
  <2>12. CASE CloseConsole(b)
    <3>1. OffInv'
      BY <2>12 DEF OffInv, Fresh, CloseConsole, program, mailboxes
    <3>2. LoopInv'
      BY <2>12 DEF LoopInv, Sending, CloseConsole, program, mailboxes
    <3>3. PrintedInv'
      BY <2>12 DEF PrintedInv, Printed, CloseConsole, program, mailboxes
    <3>4. DataInv'
      BY <2>12 DEF DataInv, LastMessage, Sending, Unread, CloseConsole, program, mailboxes
    <3>5. AckInv'
      BY <2>12 DEF AckInv, AllAcked, Unread, CloseConsole, program, mailboxes
    <3> QED BY <3>1, <3>2, <3>3, <3>4, <3>5
  <2>13. CASE \E m \in Texts : Enter(b, m)
    <3>1. OffInv'
      BY <2>13 DEF OffInv, Fresh, Enter, program, mailboxes
    <3>2. LoopInv'
      BY <2>13 DEF LoopInv, Sending, Enter, program, mailboxes
    <3>3. PrintedInv'
      <4>1. PICK m \in Texts : Enter(b, m)
        BY <2>13
      <4>2. /\ Len(typed[b]) <= Len(typed'[b])
            /\ \A i \in 1..Len(typed[b]) : typed'[b][i] = typed[b][i]
        BY <4>1, AppendProperties DEF Enter
      <4>3. \A x \in Boards \ {b} : typed'[x] = typed[x]
        BY <4>1 DEF Enter
      <4>4. UNCHANGED <<taken, txMsg, printed, rxIndex, txCount>>
        BY <4>1 DEF Enter, program
      <4>5. \A x \in Boards : Printed(x, Peer(x))'
        <5> SUFFICES ASSUME NEW x \in Boards PROVE Printed(x, Peer(x))'
          OBVIOUS
        <5>1. Printed(x, Peer(x)) /\ Peer(x) \in Boards
          BY DEF PrintedInv
        <5>2. /\ Len(typed[x]) <= Len(typed'[x])
              /\ \A i \in 1..Len(typed[x]) : typed'[x][i] = typed[x][i]
          <6>1. CASE x = b
            BY <4>2, <6>1
          <6>2. CASE x # b
            <7>1. typed[x] \in Seq(Texts) /\ Len(typed[x]) \in Nat
              BY LenProperties
            <7> QED BY <4>3, <6>2, <7>1
          <6> QED BY <6>1, <6>2
        <5> QED BY <1>0, <4>4, <5>1, <5>2, PrintedTyped
      <4> QED BY <4>5 DEF PrintedInv
    <3>4. DataInv'
      BY <2>13 DEF DataInv, LastMessage, Sending, Unread, Enter, program, mailboxes
    <3>5. AckInv'
      BY <2>13 DEF AckInv, AllAcked, Unread, Enter, program, mailboxes
    <3> QED BY <3>1, <3>2, <3>3, <3>4, <3>5
  <2>14. CASE pc[b] \in Running /\ Halt(b)
    <3>1. OffInv'
      BY <2>14 DEF OffInv, Fresh, Halt, mailboxes, console
    <3>2. LoopInv'
      BY <2>14 DEF LoopInv, Sending, Halt, mailboxes, console
    <3>3. PrintedInv'
      BY <2>14 DEF PrintedInv, Printed, Halt, mailboxes, console
    <3>4. DataInv'
      BY <2>14 DEF DataInv, LastMessage, Sending, Unread, Halt, mailboxes, console
    <3>5. AckInv'
      BY <2>14 DEF AckInv, AllAcked, Unread, Halt, mailboxes, console
    <3> QED BY <3>1, <3>2, <3>3, <3>4, <3>5
  <2>15. ~SendNothing(b) /\ ~Overwrite(b)
    BY DEF SendNothing, Overwrite, LoopInv
  <2>16. ~PrintOverrun(b)
    BY NoGarbageArrives
  <2> QED BY <1>1, <2>1, <2>2, <2>3, <2>4, <2>5, <2>6, <2>7, <2>8, <2>9, <2>10,
             <2>11, <2>12, <2>13, <2>14, <2>15, <2>16 DEF Step
<1>2. CASE UNCHANGED vars
  BY <1>0, <1>2 DEF IInv, OffInv, Fresh, LoopInv, PrintedInv, Printed, DataInv,
     LastMessage, AckInv,
     Sending, Unread, AllAcked, vars, program, mailboxes, console
<1> QED BY <1>0, <1>1, <1>2, NextIsStep DEF IInv

LEMMA LinkInvariant == ASSUME MaxStarts = 1, Corrupted = {} PROVE Spec => []IInv
<1>1. IInv /\ [Next]_vars => IInv'
  BY IInvStep
<1> QED BY IInvInit, <1>1, PTL DEF Spec

----------------------------------------------------------------------------
(* What follows from it.                                                   *)

\* A board only fetches a message when its peer has printed the one before,
\* so the one message the program remembers is all it can have to repeat.
THEOREM LinkAckedIsPrinted ==
  ASSUME MaxStarts = 1, Corrupted = {}
  PROVE  Spec => []AckedIsPrinted
<1>1. IInv => AckedIsPrinted
  <2> SUFFICES ASSUME IInv, NEW b \in Boards, AllAcked(b)
               PROVE  Len(printed[Peer(b)]) >= taken[b]
    BY DEF AckedIsPrinted
  <2>1. rxIndex[Peer(b)] = txCount[b] /\ Printed(b, Peer(b)) /\ taken[b] \in Nat
    BY DEF IInv, AckInv, PrintedInv, TypeOK
  <2> QED BY <2>1 DEF Printed
<1> QED BY <1>1, LinkInvariant, PTL

\* At most one message of a board is fetched and not yet printed.
THEOREM LinkOneOutstanding ==
  ASSUME MaxStarts = 1, Corrupted = {}
  PROVE  Spec => []OneOutstanding
<1>1. IInv => OneOutstanding
  <2> SUFFICES ASSUME IInv, NEW b \in Boards
               PROVE  taken[b] \in Len(printed[Peer(b)])..(Len(printed[Peer(b)]) + 1)
    BY DEF OneOutstanding
  <2>1. Printed(b, Peer(b)) /\ taken[b] \in Nat
    BY DEF IInv, PrintedInv, TypeOK
  <2>2. printed[Peer(b)] \in Seq(AnyText) /\ Len(printed[Peer(b)]) \in Nat
    BY PeerIsOther, LenProperties DEF IInv, TypeOK
  <2> QED BY <2>1, <2>2 DEF Printed
<1> QED BY <1>1, LinkInvariant, PTL

\* Programs that are started once print what has been acknowledged.
THEOREM LinkAckedMessagePrinted ==
  ASSUME MaxStarts = 1, Corrupted = {}
  PROVE  Spec => []AckedMessagePrinted
<1>1. IInv => AckedMessagePrinted
  <2> SUFFICES ASSUME IInv, NEW b \in Boards, AllAcked(b), txMsg[b] # NoText
               PROVE  \E i \in 1..Len(printed[Peer(b)]) : printed[Peer(b)][i] = txMsg[b]
    BY DEF AckedMessagePrinted
  <2>1. rxIndex[Peer(b)] = txCount[b] /\ Printed(b, Peer(b)) /\ taken[b] \in Nat
    BY DEF IInv, AckInv, PrintedInv, TypeOK
  <2>2. taken[b] > 0
    BY <2>1 DEF Printed
  <2> QED BY <2>1, <2>2 DEF Printed
<1> QED BY <1>1, LinkInvariant, PTL

\* The link keeps the promise of MessageLink: what is printed is what was
\* typed at the peer, in order, nothing twice and nothing left out.
THEOREM LinkImplements ==
  ASSUME MaxStarts = 1, Corrupted = {}
  PROVE  Spec => LinkSpec
<1>1. Init => Link!Init
  BY DEF Init, Link!Init, Boards, Link!Boards
<1>2. IInv /\ IInv' /\ [Next]_vars => [Link!Next]_Link!vars
  <2> SUFFICES ASSUME IInv, IInv', [Next]_vars PROVE [Link!Next]_Link!vars
    OBVIOUS
  <2>0. Link!Boards = Boards /\ \A x : Link!Peer(x) = Peer(x)
    BY DEF Link!Boards, Boards, Link!Peer, Peer
  <2>1. ASSUME NEW b \in Boards, Step(b) PROVE [Link!Next]_Link!vars
    <3>1. CASE ReceiveData(b)
      <4> DEFINE s == Peer(b)
      <4>a. CASE rxIndex[b] = rxBox[b].seq
        BY <3>1, <4>a DEF ReceiveData, TakePacket, PrintIfNew, IsNew, console, Link!vars
      <4>b. CASE rxIndex[b] # rxBox[b].seq
        <5>0. s \in Boards /\ Peer(s) = b
          BY PeerIsOther
        <5>1. LastMessage(s, rxBox[b])
          <6>1. Unread(b, "data")
            BY <3>1 DEF ReceiveData, TakePacket, Unread
          <6> QED BY <4>b, <5>0, <6>1 DEF IInv, DataInv
        <5>2. Printed(s, b) /\ taken[s] \in Nat
          BY <5>0 DEF IInv, PrintedInv, TypeOK
        <5>3. /\ taken[s] > 0 /\ taken[s] <= Len(typed[s])
              /\ rxBox[b].text = typed[s][taken[s]]
              /\ Len(printed[b]) = taken[s] - 1
          BY <4>b, <5>1, <5>2 DEF Printed, LastMessage
        <5>4. Len(typed[s]) \in Nat
          BY <5>0, LenProperties DEF IInv, TypeOK
        <5>5. /\ Len(printed[b]) < Len(typed[s])
              /\ rxBox[b].text = typed[s][Len(printed[b]) + 1]
          BY <5>2, <5>3, <5>4
        <5>6. /\ printed' = [printed EXCEPT ![b] = Append(@, rxBox[b].text)]
              /\ typed' = typed
          BY <3>1, <4>b DEF ReceiveData, TakePacket, PrintIfNew, IsNew, AppendPrinted,
             console
        <5>7. Link!PrintNext(b)
          BY <2>0, <5>5, <5>6 DEF Link!PrintNext
        <5> QED BY <2>0, <5>7 DEF Link!Next
      <4> QED BY <4>a, <4>b
    <3>2. CASE \E m \in Texts : Enter(b, m)
      BY <2>0, <3>2 DEF Enter, Link!Next, Link!Type
    <3>3. CASE ~ReceiveData(b) /\ ~(\E m \in Texts : Enter(b, m))
      <4>1. UNCHANGED <<typed, printed>>
        BY <2>1, <3>3 DEF Step, Start, NothingReceived, ReceiveAck, ReceiveAckOf,
           TakePacket,
           SendAnswer, SendNext, SendNextAs, NextSeq, SendAgain, NothingToSend,
           PacketTaken, Arrive, Lose, CloseConsole, SendNothing, Overwrite, PrintOverrun,
           Halt, Load, console
      <4> QED BY <4>1 DEF Link!vars
    <3> QED BY <3>1, <3>2, <3>3
  <2>2. CASE UNCHANGED vars
    BY <2>2 DEF vars, console, Link!vars
  <2> QED BY <2>1, <2>2, NextIsStep
<1> QED BY <1>1, <1>2, LinkInvariant, PTL DEF Spec, LinkSpec, Link!Spec

----------------------------------------------------------------------------
(* What holds with restarts and overwritten variables too: messages on     *)
(* their way to be printed were fetched by the board that sends them.      *)

Known(b) == Fetched(b) \cup {NoText}
KnownIn(b, p) == p.kind = "data" => p.text \in Known(b)
FetchedInv ==
  \A b \in Boards :
    /\ taken[b] <= Len(typed[b])
    /\ txMsg[b] \in Known(b)
    /\ KnownIn(b, txData[b]) /\ KnownIn(b, txBox[b]) /\ KnownIn(b, rxBox[Peer(b)])
    /\ \A i \in 1..Len(printed[Peer(b)]) : printed[Peer(b)][i] \in Known(b)

\* What has been fetched stays fetched.
LEMMA KnownStays ==
  ASSUME NEW b \in Boards, TypeOK,
         taken[b] <= Len(typed[b]), taken[b] <= taken'[b], taken'[b] \in Nat,
         \A i \in 1..Len(typed[b]) : typed'[b][i] = typed[b][i]
  PROVE  Known(b) \subseteq Known(b)'
<1> SUFFICES ASSUME NEW t \in Fetched(b) PROVE t \in Fetched(b)'
  BY DEF Known
<1>1. PICK i \in 1..taken[b] : t = typed[b][i]
  BY DEF Fetched
<1>2. taken[b] \in Nat /\ Len(typed[b]) \in Nat
  BY LenProperties DEF TypeOK
<1>3. i \in 1..Len(typed[b]) /\ i \in 1..taken'[b]
  BY <1>2
<1> QED BY <1>1, <1>3 DEF Fetched

\* A step that leaves the messages of x where they are, or puts known ones
\* in their place, keeps them known.
LEMMA FetchedKept ==
  ASSUME NEW x \in Boards, FetchedInv, Known(x) \subseteq Known(x)',
         taken'[x] <= Len(typed'[x]),
         txMsg'[x] = txMsg[x] \/ txMsg'[x] \in Known(x)',
         txData'[x] = txData[x] \/ KnownIn(x, txData[x])',
         txBox'[x] = txBox[x] \/ KnownIn(x, txBox[x])',
         rxBox'[Peer(x)] = rxBox[Peer(x)] \/ KnownIn(x, rxBox[Peer(x)])',
         \/ printed'[Peer(x)] = printed[Peer(x)]
         \/ \A i \in 1..Len(printed'[Peer(x)]) : printed'[Peer(x)][i] \in Known(x)'
  PROVE  /\ taken'[x] <= Len(typed'[x])
         /\ txMsg'[x] \in Known(x)'
         /\ KnownIn(x, txData[x])' /\ KnownIn(x, txBox[x])' /\ KnownIn(x, rxBox[Peer(x)])'
         /\ \A i \in 1..Len(printed'[Peer(x)]) : printed'[Peer(x)][i] \in Known(x)'
BY DEF FetchedInv, KnownIn

\* What is printed was known when it arrived.
LEMMA PrintedKnown ==
  ASSUME NEW S, NEW q \in Seq(S), NEW t \in S, NEW K, t \in K,
         \A i \in 1..Len(q) : q[i] \in K
  PROVE  \A i \in 1..Len(Append(q, t)) : Append(q, t)[i] \in K
<1>1. /\ Len(Append(q, t)) = Len(q) + 1
      /\ \A i \in 1..Len(q) : Append(q, t)[i] = q[i]
      /\ Append(q, t)[Len(q) + 1] = t
  BY AppendProperties
<1>2. Len(q) \in Nat
  BY LenProperties
<1> SUFFICES ASSUME NEW i \in 1..(Len(q) + 1) PROVE Append(q, t)[i] \in K
  BY <1>1
<1>3. CASE i = Len(q) + 1
  BY <1>1, <1>3
<1>4. CASE i # Len(q) + 1
  <2>1. i \in 1..Len(q)
    BY <1>2, <1>4
  <2> QED BY <1>1, <2>1
<1> QED BY <1>3, <1>4

LEMMA FetchedInit == Init => FetchedInv
<1> SUFFICES ASSUME Init, NEW b \in Boards
             PROVE  /\ taken[b] <= Len(typed[b])
                    /\ txMsg[b] \in Known(b)
                    /\ KnownIn(b, txData[b]) /\ KnownIn(b, txBox[b])
                    /\ KnownIn(b, rxBox[Peer(b)])
                    /\ \A i \in 1..Len(printed[Peer(b)]) : printed[Peer(b)][i] \in Known(b)
  BY DEF FetchedInv
<1>1. /\ typed[b] = <<>> /\ taken[b] = 0 /\ txMsg[b] = NoText
      /\ txData[b].text = NoText /\ txBox[b].text = NoText
      /\ rxBox[Peer(b)].text = NoText /\ printed[Peer(b)] = <<>>
  BY PeerIsOther DEF Init, NoPacket
<1> QED BY <1>1 DEF Known, KnownIn

LEMMA FetchedStep == TypeOK /\ FetchedInv /\ [Next]_vars => FetchedInv'
<1> SUFFICES ASSUME TypeOK, FetchedInv, [Next]_vars PROVE FetchedInv'
  OBVIOUS
<1> DEFINE Stays(x) == Known(x) \subseteq Known(x)' /\ taken'[x] <= Len(typed'[x])
<1>q. ASSUME UNCHANGED <<typed, taken>>, NEW x \in Boards PROVE Stays(x)
  <2>1. taken'[x] = taken[x] /\ typed'[x] = typed[x] /\ taken[x] <= Len(typed[x])
        /\ taken[x] \in Nat
    BY <1>q DEF FetchedInv, TypeOK
  <2> QED BY <2>1, KnownStays
<1>1. ASSUME NEW b \in Boards, Step(b) PROVE FetchedInv'
  <2> DEFINE s == Peer(b)
  <2>s. s \in Boards /\ s # b /\ Peer(s) = b /\ Boards = {b, s}
    BY PeerIsOther DEF Boards
  <2> HIDE DEF s
  <2>1. CASE UNCHANGED <<typed, taken, txMsg, txData, txBox, rxBox, printed>>
    BY <2>1, <1>q, FetchedKept DEF FetchedInv
  <2>2. CASE Start(b)
    <3>1. /\ UNCHANGED <<typed, taken, txData, txBox, rxBox, printed>>
          /\ \A x \in Boards : txMsg'[x] \in {txMsg[x], NoText}
      BY <2>2 DEF Start, console, TypeOK
    <3>2. ASSUME NEW x \in Boards PROVE txMsg'[x] = txMsg[x] \/ txMsg'[x] \in Known(x)'
      BY <3>1, <3>2 DEF Known
    <3> HIDE DEF Stays
    <3>3. \A x \in Boards : Stays(x)
      BY <3>1, <1>q
    <3> QED BY <3>1, <3>2, <3>3, FetchedKept DEF FetchedInv, Stays
  <2>3. CASE ReceiveData(b)
    <3>1. /\ UNCHANGED <<typed, taken, txMsg, txBox, rxBox>>
          /\ printed'[s] = printed[s] /\ txData'[s] = txData[s]
          /\ txData'[b].kind = "ack" /\ rxBox[b].kind = "data"
          /\ \/ printed'[b] = printed[b]
             \/ printed'[b] = Append(printed[b], rxBox[b].text)
      BY <2>3, <2>s DEF ReceiveData, TakePacket, console, PrintIfNew, IsNew, AppendPrinted,
         Answer, Prepare, AckPacket, TypeOK
    <3>2. rxBox[b].text \in Known(s) /\ rxBox[b].text \in AnyText
      BY <3>1, <2>s DEF FetchedInv, KnownIn, TypeOK, Packets
    <3> HIDE DEF Stays
    <3>3. \A x \in Boards : Stays(x)
      BY <3>1, <1>q
    <3>4. /\ rxBox[b].text \in Known(s)'
          /\ \A i \in 1..Len(printed[b]) : printed[b][i] \in Known(s)'
          /\ printed[b] \in Seq(AnyText)
      BY <3>2, <3>3, <2>s DEF FetchedInv, Stays, TypeOK
    <3>5. \A i \in 1..Len(printed'[b]) : printed'[b][i] \in Known(s)'
      BY <3>1, <3>2, <3>4, PrintedKnown
    <3>6. KnownIn(b, txData[b])'
      BY <3>1 DEF KnownIn
    <3>7. printed'[Peer(b)] = printed[Peer(b)]
      BY <3>1 DEF s
    <3>8. ASSUME NEW x \in Boards
          PROVE  /\ taken'[x] <= Len(typed'[x])
                 /\ txMsg'[x] \in Known(x)'
                 /\ KnownIn(x, txData[x])' /\ KnownIn(x, txBox[x])'
                 /\ KnownIn(x, rxBox[Peer(x)])'
                 /\ \A i \in 1..Len(printed'[Peer(x)]) : printed'[Peer(x)][i] \in Known(x)'
      <4>1. Known(x) \subseteq Known(x)' /\ taken'[x] <= Len(typed'[x])
        BY <3>3 DEF Stays
      <4>2. txData'[x] = txData[x] \/ KnownIn(x, txData[x])'
        BY <2>s, <3>1, <3>6
      <4>3. \/ printed'[Peer(x)] = printed[Peer(x)]
            \/ \A i \in 1..Len(printed'[Peer(x)]) : printed'[Peer(x)][i] \in Known(x)'
        BY <2>s, <3>5, <3>7
      <4> QED BY <3>1, <4>1, <4>2, <4>3, FetchedKept
    <3>9. UNCHANGED rxBox
      BY <3>1
    <3> QED BY <3>8, <3>9 DEF FetchedInv
  <2>4. CASE SendAnswer(b)
    <3>1. /\ UNCHANGED <<typed, taken, txMsg, txData, rxBox, printed>>
          /\ txBox'[s] = txBox[s] /\ txBox'[b] = txData[b]
      BY <2>4, <2>s DEF SendAnswer, Load, TypeOK
    <3> HIDE DEF Stays
    <3>2. \A x \in Boards : Stays(x)
      BY <3>1, <1>q
    <3>3. KnownIn(b, txBox[b])'
      BY <3>1, <3>2 DEF FetchedInv, KnownIn, Stays
    <3> QED BY <2>s, <3>1, <3>2, <3>3, FetchedKept DEF FetchedInv, Stays
  <2>5. CASE SendNext(b)
    <3> DEFINE text == typed[b][taken[b] + 1]
    <3>1. /\ UNCHANGED <<typed, rxBox, printed>>
          /\ taken'[b] = taken[b] + 1 /\ taken'[s] = taken[s]
          /\ taken[b] < Len(typed[b]) /\ taken[b] \in Nat /\ taken[s] \in Nat
          /\ txMsg'[b] = text /\ txData'[b].text = text /\ txBox'[b].text = text
          /\ txMsg'[s] = txMsg[s] /\ txData'[s] = txData[s] /\ txBox'[s] = txBox[s]
      BY <2>5, <2>s DEF SendNext, SendNextAs, MessageWaiting, Load, DataPacket, TypeOK
    <3>2. Len(typed[b]) \in Nat
      BY LenProperties DEF TypeOK
    <3> HIDE DEF Stays
    <3>3. Stays(b)
      BY <3>1, <3>2, KnownStays DEF FetchedInv, Stays
    <3>4. Stays(s)
      BY <2>s, <3>1, KnownStays DEF FetchedInv, Stays
    <3>5. text \in Known(b)'
      <4>1. taken[b] + 1 \in 1..taken'[b] /\ text = typed'[b][taken[b] + 1]
        BY <3>1
      <4> QED BY <4>1 DEF Known, Fetched
    <3>6. KnownIn(b, txData[b])' /\ KnownIn(b, txBox[b])'
      BY <3>1, <3>5 DEF KnownIn
    <3> HIDE DEF text
    <3> QED BY <2>s, <3>1, <3>3, <3>4, <3>5, <3>6, FetchedKept DEF FetchedInv, Stays
  <2>6. CASE SendAgain(b) \/ NothingToSend(b)
    <3>1. /\ UNCHANGED <<typed, taken, txMsg, rxBox, printed>>
          /\ txData'[s] = txData[s] /\ txData'[b].text = txMsg[b]
          /\ txBox'[s] = txBox[s]
          /\ txBox'[b] = txBox[b] \/ txBox'[b].text = txMsg[b]
      BY <2>6, <2>s DEF SendAgain, NothingToSend, Load, DataPacket, mailboxes, console, TypeOK
    <3> HIDE DEF Stays
    <3>2. \A x \in Boards : Stays(x)
      BY <3>1, <1>q
    <3>3. txMsg[b] \in Known(b)'
      BY <3>2 DEF FetchedInv, Stays
    <3>4. /\ KnownIn(b, txData[b])'
          /\ txBox'[b] = txBox[b] \/ KnownIn(b, txBox[b])'
      BY <3>1, <3>3 DEF KnownIn
    <3> QED BY <2>s, <3>1, <3>2, <3>4, FetchedKept DEF FetchedInv, Stays
  <2>7. CASE Overwrite(b)
    <3>1. /\ UNCHANGED <<typed, taken, txMsg, rxBox, printed>>
          /\ txData'[s] = txData[s] /\ txData'[b].text = NoText
          /\ txBox'[s] = txBox[s]
          /\ txBox'[b] = txBox[b] \/ txBox'[b].text = NoText
      BY <2>7, <2>s DEF Overwrite, DataPacket, console, TypeOK
    <3> HIDE DEF Stays
    <3>2. \A x \in Boards : Stays(x)
      BY <3>1, <1>q
    <3>3. /\ KnownIn(b, txData[b])'
          /\ txBox'[b] = txBox[b] \/ KnownIn(b, txBox[b])'
      BY <3>1 DEF KnownIn, Known
    <3> QED BY <2>s, <3>1, <3>2, <3>3, FetchedKept DEF FetchedInv, Stays
  <2>8. CASE Arrive(b)
    <3>1. /\ UNCHANGED <<typed, taken, txMsg, txData, txBox, printed>>
          /\ rxBox'[b] = rxBox[b] /\ rxBox'[s] = txBox[b]
      BY <2>8, <2>s DEF Arrive, program, console, TypeOK, s
    <3> HIDE DEF Stays
    <3>2. \A x \in Boards : Stays(x)
      BY <3>1, <1>q
    <3>3. KnownIn(b, rxBox[s])'
      BY <3>1, <3>2 DEF FetchedInv, KnownIn, Stays
    <3>4. s = Peer(b)
      BY DEF s
    <3> QED BY <2>s, <3>1, <3>2, <3>3, <3>4, FetchedKept DEF FetchedInv, Stays
  <2>9. CASE \E m \in Texts : Enter(b, m)
    <3>1. PICK m \in Texts : Enter(b, m)
      BY <2>9
    <3>2. /\ UNCHANGED <<taken, txMsg, txData, txBox, rxBox, printed>>
          /\ typed'[b] = Append(typed[b], m) /\ typed'[s] = typed[s]
      BY <2>s, <3>1 DEF Enter, program, mailboxes, TypeOK
    <3> HIDE DEF Stays
    <3>3. \A x \in Boards : taken[x] \in Nat /\ Len(typed[x]) \in Nat
      BY LenProperties DEF TypeOK
    <3>4. /\ \A i \in 1..Len(typed[b]) : typed'[b][i] = typed[b][i]
          /\ Len(typed'[b]) = Len(typed[b]) + 1
      BY <3>2, AppendProperties DEF TypeOK
    <3>5. Stays(b)
      BY <3>2, <3>3, <3>4, KnownStays DEF FetchedInv, Stays
    <3>6. Stays(s)
      BY <2>s, <3>2, <3>3, KnownStays DEF FetchedInv, Stays
    <3> QED BY <2>s, <3>2, <3>5, <3>6, FetchedKept DEF FetchedInv, Stays
  <2> QED BY <1>1, <2>1, <2>2, <2>3, <2>4, <2>5, <2>6, <2>7, <2>8, <2>9 DEF Step,
     NothingReceived, ReceiveAck, ReceiveAckOf, TakePacket, PacketTaken, Lose,
     CloseConsole, SendNothing, PrintOverrun, Halt, program, mailboxes, console
<1>2. CASE UNCHANGED vars
  BY <1>2 DEF vars, program, mailboxes, console, FetchedInv, KnownIn, Known, Fetched
<1> QED BY <1>1, <1>2, NextIsStep

\* Boards print what their peers fetched, or garbage: restarts and
\* overwritten variables can lose messages and repeat them, and cannot make
\* a board print what it typed itself, or what nobody typed.
THEOREM LinkPrintedWasFetched == Spec => []PrintedWasFetched
<1>1. FetchedInv => PrintedWasFetched
  <2> SUFFICES ASSUME FetchedInv, NEW b \in Boards, NEW i \in 1..Len(printed[b])
               PROVE  printed[b][i] \in Fetched(Peer(b)) \cup {NoText}
    BY DEF PrintedWasFetched
  <2>1. Peer(b) \in Boards /\ Peer(Peer(b)) = b
    BY PeerIsOther
  <2> QED BY <2>1 DEF FetchedInv, Known
<1> QED BY <1>1, FetchedInit, FetchedStep, TypeInit, TypeStep, PTL DEF Spec
============================================================================
