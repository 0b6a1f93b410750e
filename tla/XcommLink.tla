----------------------------- MODULE XcommLink -----------------------------
(***************************************************************************)
(* The link between two boards: adi-sw/xcomm2ip.c on each of them, fed by  *)
(* adi-sw/xcomm2ip_m.c through a message queue, over the mailbox registers *)
(* of the radio.  Data and acknowledgements share the one mailbox there is *)
(* in each direction; a packet can be lost in the air, or because the      *)
(* mailbox it arrives at has not been emptied.                             *)
(*                                                                         *)
(* pc names the part of main()'s loop a board is about to execute.  The    *)
(* mailboxes and the radio are hardware outside the repository, modelled   *)
(* by what xcomm2ip.c relies on.                                           *)
(***************************************************************************)
EXTENDS Naturals, Sequences

CONSTANTS
  Texts,      \* what operators type
  NoText,     \* the uninitialized tx_msg of a program that has just started
  CountMod,   \* 2^32: the width of the message counters
  Typists,    \* the boards at which something is typed
  MaxTyped,   \* bound: messages typed at each of them
  MaxStarts,  \* bound: times each board's program is started
  Corrupted,  \* the boards at which the copy overwrites variables
  MaxPrinted, \* bound: lines printed after which it does so no more
  Faults      \* which of AllFaults happen

AllFaults == {"loss", "interrupt", "stuck", "garbage", "close"}

ASSUME LinkAssumption ==
  /\ NoText \notin Texts
  /\ CountMod \in Nat /\ CountMod > 1
  /\ Typists \subseteq {1, 2}
  /\ MaxTyped \in Nat
  /\ MaxStarts \in Nat
  /\ Corrupted \subseteq {1, 2}
  /\ MaxPrinted \in Nat
  /\ Faults \subseteq AllFaults

VARIABLES
  pc,         \* per board: where its program is
  starts,     \* times the program was started
  txCount,    \* tx_msg_count: number of the message being sent
  rxCount,    \* rx_msg_count: number of the last acknowledgement
  rxIndex,    \* rx_msg_index: number of the last message received
  txIndex,    \* tx_msg_index: whether tx_msg_data is ready to go
  txMsg,      \* tx_msg: the message being sent
  txData,     \* tx_msg_data: the packet built last
  txBox,      \* transmit mailbox
  txBusy,     \* register 0x202: the radio has not yet taken the packet
  rxBox,      \* receive mailbox
  rxReady,    \* register 0x302: the mailbox may be filled
  typed,      \* messages msgsnd has put in the queue
  taken,      \* number of them msgrcv has taken out
  gone,       \* whether the queue was removed (IPC_RMID)
  printed     \* messages printed after "R>"

program == <<pc, starts, txCount, rxCount, rxIndex, txIndex, txMsg, txData>>
mailboxes == <<txBox, txBusy, rxBox, rxReady>>
console == <<typed, taken, gone>>
vars == <<program, mailboxes, console, printed>>

Boards == {1, 2}
Peer(b) == 3 - b
Counts == 0..(CountMod - 1)
AnyText == Texts \cup {NoText}
Packets == [kind : {"data", "ack"}, seq : Counts, text : AnyText]
Running == {"recv", "send", "sent"}
Astray == 2  \* stands for every value of tx_msg_index but 0 and 1

TypeOK ==
  /\ pc \in [Boards -> Running \cup {"off", "stopped"}]
  /\ starts \in [Boards -> Nat]
  /\ txCount \in [Boards -> Counts]
  /\ rxCount \in [Boards -> Counts]
  /\ rxIndex \in [Boards -> Counts]
  /\ txIndex \in [Boards -> {0, 1, Astray}]
  /\ txMsg \in [Boards -> AnyText]
  /\ txData \in [Boards -> Packets]
  /\ txBox \in [Boards -> Packets]
  /\ txBusy \in [Boards -> {0, 1}]
  /\ rxBox \in [Boards -> Packets]
  /\ rxReady \in [Boards -> {0, 1}]
  /\ typed \in [Boards -> Seq(Texts)]
  /\ taken \in [Boards -> Nat]
  /\ gone \in [Boards -> BOOLEAN]
  /\ printed \in [Boards -> Seq(AnyText)]

NoPacket == [kind |-> "data", seq |-> 0, text |-> NoText]

Init ==
  /\ pc = [b \in Boards |-> "off"]
  /\ starts = [b \in Boards |-> 0]
  /\ txCount = [b \in Boards |-> 0]
  /\ rxCount = [b \in Boards |-> 0]
  /\ rxIndex = [b \in Boards |-> 0]
  /\ txIndex = [b \in Boards |-> 0]
  /\ txMsg = [b \in Boards |-> NoText]
  /\ txData = [b \in Boards |-> NoPacket]
  /\ txBox = [b \in Boards |-> NoPacket]
  /\ txBusy = [b \in Boards |-> 0]
  /\ rxBox = [b \in Boards |-> NoPacket]
  /\ rxReady = [b \in Boards |-> 0]
  /\ typed = [b \in Boards |-> <<>>]
  /\ taken = [b \in Boards |-> 0]
  /\ gone = [b \in Boards |-> FALSE]
  /\ printed = [b \in Boards |-> <<>>]

----------------------------------------------------------------------------
(* xcomm2ip_m.c: the operator's console.                                   *)

\* A line is entered: msgsnd.
Enter(b, m) ==
  /\ b \in Typists
  /\ ~gone[b]
  /\ Len(typed[b]) < MaxTyped
  /\ typed' = [typed EXCEPT ![b] = Append(@, m)]
  /\ UNCHANGED <<program, mailboxes, taken, gone, printed>>

\* An empty line ends the console, which removes the queue.
CloseConsole(b) ==
  /\ "close" \in Faults
  /\ ~gone[b]
  /\ gone' = [gone EXCEPT ![b] = TRUE]
  /\ UNCHANGED <<program, mailboxes, typed, taken, printed>>

----------------------------------------------------------------------------
(* The radio.                                                              *)

\* A packet reaches the peer's mailbox, if that may be filled.
Arrive(b) ==
  /\ txBusy[b] = 1
  /\ rxReady[Peer(b)] = 1
  /\ txBusy' = [txBusy EXCEPT ![b] = 0]
  /\ rxBox' = [rxBox EXCEPT ![Peer(b)] = txBox[b]]
  /\ rxReady' = [rxReady EXCEPT ![Peer(b)] = 0]
  /\ UNCHANGED <<program, txBox, console, printed>>

Lose(b) ==
  /\ txBusy[b] = 1
  /\ "loss" \in Faults \/ rxReady[Peer(b)] = 0
  /\ txBusy' = [txBusy EXCEPT ![b] = 0]
  /\ UNCHANGED <<program, txBox, rxBox, rxReady, console, printed>>

----------------------------------------------------------------------------
(* xcomm2ip.c.                                                             *)

\* Up to the loop: the queue must exist, the counters start at 0 and the
\* radio is reset.
Start(b) ==
  /\ pc[b] \in {"off", "stopped"}
  /\ starts[b] < MaxStarts
  /\ ~gone[b]
  /\ pc' = [pc EXCEPT ![b] = "recv"]
  /\ starts' = [starts EXCEPT ![b] = @ + 1]
  /\ txCount' = [txCount EXCEPT ![b] = 0]
  /\ rxCount' = [rxCount EXCEPT ![b] = 0]
  /\ rxIndex' = [rxIndex EXCEPT ![b] = 0]
  /\ txIndex' = [txIndex EXCEPT ![b] = 0]
  /\ txMsg' = [txMsg EXCEPT ![b] = NoText]
  /\ txBusy' = [txBusy EXCEPT ![b] = 0]
  /\ rxReady' = [rxReady EXCEPT ![b] = 1]
  /\ UNCHANGED <<txData, txBox, rxBox, console, printed>>

\* The loop ends: by ^C, an error, or a crash.
Halt(b) ==
  /\ pc' = [pc EXCEPT ![b] = "stopped"]
  /\ UNCHANGED <<starts, txCount, rxCount, rxIndex, txIndex, txMsg, txData,
                 mailboxes, console, printed>>

Interrupted(b) == "interrupt" \in Faults /\ pc[b] = "recv" /\ Halt(b)

\* Nothing has arrived.
NothingReceived(b) ==
  /\ pc[b] = "recv"
  /\ rxReady[b] = 1
  /\ pc' = [pc EXCEPT ![b] = "send"]
  /\ UNCHANGED <<starts, txCount, rxCount, rxIndex, txIndex, txMsg, txData,
                 mailboxes, console, printed>>

\* A packet is read out of the mailbox, which may then be filled again.
TakePacket(b, kind) ==
  /\ pc[b] = "recv"
  /\ rxReady[b] = 0
  /\ rxBox[b].kind = kind
  /\ pc' = [pc EXCEPT ![b] = "send"]
  /\ rxReady' = [rxReady EXCEPT ![b] = 1]
  /\ UNCHANGED <<starts, txCount, txMsg, txBox, txBusy, rxBox, console>>

ReceiveAckOf(b, seq) ==
  /\ TakePacket(b, "ack")
  /\ rxCount' = [rxCount EXCEPT ![b] = seq]
  /\ txIndex' = [txIndex EXCEPT ![b] = 0]
  /\ UNCHANGED <<rxIndex, txData, printed>>

IsNew(b) == rxIndex[b] # rxBox[b].seq
AppendPrinted(b) == printed' = [printed EXCEPT ![b] = Append(@, rxBox[b].text)]
Prepare(b, p) ==
  /\ txData' = [txData EXCEPT ![b] = p]
  /\ txIndex' = [txIndex EXCEPT ![b] = 1]
AckPacket(b) == [kind |-> "ack", seq |-> rxBox[b].seq, text |-> rxBox[b].text]

\* A packet of data is built from the message being sent, and with a raised
\* flag handed to the radio.
DataPacket(b, seq, text) ==
  txData' = [txData EXCEPT ![b] = [kind |-> "data", seq |-> seq, text |-> text]]

Load(b, p) ==
  /\ pc[b] = "send"
  /\ pc' = [pc EXCEPT ![b] = "sent"]
  /\ txBox' = [txBox EXCEPT ![b] = p]
  /\ txBusy' = [txBusy EXCEPT ![b] = 1]
  /\ UNCHANGED <<starts, rxCount, rxIndex, rxBox, rxReady, typed, gone, printed>>

AllAcked(b) == txCount[b] = rxCount[b]
MessageWaiting(b) == taken[b] < Len(typed[b])

\* A message is fetched and goes out under the number seq.
SendNextAs(b, ready, seq) ==
  /\ txIndex[b] = 0
  /\ ready
  /\ ~gone[b]
  /\ MessageWaiting(b)
  /\ LET text == typed[b][taken[b] + 1]
     IN /\ txMsg' = [txMsg EXCEPT ![b] = text]
        /\ txCount' = [txCount EXCEPT ![b] = seq]
        /\ DataPacket(b, seq, text)
        /\ Load(b, [kind |-> "data", seq |-> seq, text |-> text])
  /\ taken' = [taken EXCEPT ![b] = @ + 1]
  /\ txIndex' = [txIndex EXCEPT ![b] = 1]
NextSeq(b) == (txCount[b] + 1) % CountMod

----------------------------------------------------------------------------
(* Slips one could make in the steps below; Spec uses none of them, and    *)
(* the mutation checks see to it that the properties notice each.          *)

ReceiveAnyAck(b) == ReceiveAckOf(b, txCount[b])
PrintAlways(b) == AppendPrinted(b)
AnswerNewOnly(b) ==
  IF IsNew(b) THEN Prepare(b, AckPacket(b)) ELSE UNCHANGED <<txData, txIndex>>
SendNextUnacked(b) == SendNextAs(b, TRUE, NextSeq(b))
SendNextTooWide(b) == SendNextAs(b, AllAcked(b), txCount[b] + 1)
AnswerAsData(b) == Prepare(b, [AckPacket(b) EXCEPT !.kind = "data"])

----------------------------------------------------------------------------
ReceiveAck(b) == ReceiveAckOf(b, rxBox[b].seq)

\* Every packet of data is answered; it is printed unless it has the number
\* of the last one.
PrintIfNew(b) == IF IsNew(b) THEN AppendPrinted(b) ELSE UNCHANGED printed
Answer(b) == Prepare(b, AckPacket(b))

ReceiveData(b) ==
  /\ TakePacket(b, "data")
  /\ PrintIfNew(b)
  /\ Answer(b)
  /\ rxIndex' = [rxIndex EXCEPT ![b] = rxBox[b].seq]
  /\ UNCHANGED rxCount

\* The answer prepared by ReceiveData goes out.
SendAnswer(b) ==
  /\ txIndex[b] = 1
  /\ Load(b, txData[b])
  /\ UNCHANGED <<txCount, txIndex, txMsg, txData, taken>>

SendNext(b) == SendNextAs(b, AllAcked(b), NextSeq(b))

\* The last message has not been acknowledged: it goes out again.
SendAgain(b) ==
  /\ txIndex[b] = 0
  /\ ~AllAcked(b)
  /\ DataPacket(b, txCount[b], txMsg[b])
  /\ Load(b, [kind |-> "data", seq |-> txCount[b], text |-> txMsg[b]])
  /\ txIndex' = [txIndex EXCEPT ![b] = 1]
  /\ UNCHANGED <<txCount, txMsg, taken>>

\* No message is waiting (ENOMSG).  The packet that is built goes nowhere.
NothingToSend(b) ==
  /\ pc[b] = "send"
  /\ txIndex[b] = 0
  /\ AllAcked(b)
  /\ ~gone[b]
  /\ ~MessageWaiting(b)
  /\ DataPacket(b, txCount[b], txMsg[b])
  /\ pc' = [pc EXCEPT ![b] = "recv"]
  /\ UNCHANGED <<starts, txCount, rxCount, rxIndex, txIndex, txMsg, mailboxes,
                 console, printed>>

\* Any other error of msgrcv ends the loop.
QueueGone(b) ==
  /\ pc[b] = "send"
  /\ txIndex[b] = 0
  /\ AllAcked(b)
  /\ gone[b]
  /\ Halt(b)

\* Before the first message, the packet is built from an uninitialized
\* tx_msg, whose length may be anything: the copy may run off the array ...
CopiesGarbage(b) ==
  /\ "garbage" \in Faults
  /\ pc[b] = "send"
  /\ txIndex[b] = 0
  /\ txMsg[b] = NoText
  /\ AllAcked(b) => ~MessageWaiting(b) /\ ~gone[b]

\* ... and end the program, at once or with the first use of a broken
\* address, or never end ...
Overrun(b) == CopiesGarbage(b) /\ Halt(b)

\* ... or overwrite the variables of main() and go on with what they hold.
Overwrite(b) ==
  /\ CopiesGarbage(b)
  /\ b \in Corrupted
  /\ Len(printed[1]) + Len(printed[2]) < MaxPrinted
  /\ \E sent, acked, received \in Counts, index \in {0, 1, Astray} :
       /\ txCount' = [txCount EXCEPT ![b] = sent]
       /\ rxCount' = [rxCount EXCEPT ![b] = acked]
       /\ rxIndex' = [rxIndex EXCEPT ![b] = received]
       /\ txIndex' = [txIndex EXCEPT ![b] = index]
       /\ DataPacket(b, sent, NoText)
       /\ pc' = [pc EXCEPT ![b] = IF index = 1 THEN "sent" ELSE "recv"]
       /\ IF index = 1
          THEN /\ txBox' = [txBox EXCEPT ![b] = txData'[b]]
               /\ txBusy' = [txBusy EXCEPT ![b] = 1]
          ELSE UNCHANGED <<txBox, txBusy>>
  /\ UNCHANGED <<starts, txMsg, rxBox, rxReady, console, printed>>

\* With an index that is neither 0 nor 1 nothing is built and nothing sent.
SendNothing(b) ==
  /\ pc[b] = "send"
  /\ txIndex[b] = Astray
  /\ pc' = [pc EXCEPT ![b] = "recv"]
  /\ UNCHANGED <<starts, txCount, rxCount, rxIndex, txIndex, txMsg, txData,
                 mailboxes, console, printed>>

\* A garbage message arrives, and its length leads the printing off the
\* array and out of the stack.
PrintOverrun(b) ==
  /\ "garbage" \in Faults
  /\ pc[b] = "recv"
  /\ rxReady[b] = 0
  /\ rxBox[b].kind = "data" /\ rxBox[b].text = NoText
  /\ IsNew(b)
  /\ pc' = [pc EXCEPT ![b] = "stopped"]
  /\ rxReady' = [rxReady EXCEPT ![b] = 1]
  /\ UNCHANGED <<starts, txCount, rxCount, rxIndex, txIndex, txMsg, txData,
                 txBox, txBusy, rxBox, console, printed>>

\* After a millisecond the radio should have taken the packet.
PacketTaken(b) ==
  /\ pc[b] = "sent"
  /\ txBusy[b] = 0
  /\ pc' = [pc EXCEPT ![b] = "recv"]
  /\ txIndex' = [txIndex EXCEPT ![b] = 0]
  /\ UNCHANGED <<starts, txCount, rxCount, rxIndex, txMsg, txData, mailboxes,
                 console, printed>>

Stuck(b) ==
  /\ "stuck" \in Faults
  /\ pc[b] = "sent"
  /\ txBusy[b] = 1
  /\ Halt(b)

----------------------------------------------------------------------------
Turn(b) ==
  \/ NothingReceived(b) \/ ReceiveAck(b) \/ ReceiveData(b)
  \/ SendAnswer(b) \/ SendNext(b) \/ SendAgain(b) \/ NothingToSend(b)
  \/ SendNothing(b) \/ QueueGone(b) \/ PacketTaken(b)
Failure(b) ==
  Interrupted(b) \/ Overrun(b) \/ Overwrite(b) \/ PrintOverrun(b) \/ Stuck(b)
Console(b) == (\E m \in Texts : Enter(b, m)) \/ CloseConsole(b)
Radio(b) == Arrive(b) \/ Lose(b)

Next == \E b \in Boards :
  Start(b) \/ Turn(b) \/ Failure(b) \/ Console(b) \/ Radio(b)

Spec == Init /\ [][Next]_vars

\* Programs that were started keep running, the radio disposes of every
\* packet, and it does not lose all packets of one kind for ever.
Fairness ==
  \A b \in Boards :
    /\ WF_vars(Start(b))
    /\ WF_vars(Turn(b))
    /\ WF_vars(Radio(b))
    /\ SF_vars(Arrive(b) /\ txBox[b].kind = "data")
    /\ SF_vars(Arrive(b) /\ txBox[b].kind = "ack")

FairSpec == Spec /\ Fairness

----------------------------------------------------------------------------
(* Properties.                                                             *)

Fetched(b) == {typed[b][i] : i \in 1..taken[b]}

\* A board whose messages are all acknowledged, and which may therefore
\* fetch the next one, has every message it fetched printed at the peer.
AckedIsPrinted ==
  \A b \in Boards : AllAcked(b) => Len(printed[Peer(b)]) >= taken[b]

\* The message being retransmitted is the last one fetched: at any time at
\* most one message is on its way.
OneOutstanding ==
  \A b \in Boards : taken[b] \in Len(printed[Peer(b)])..(Len(printed[Peer(b)]) + 1)

\* When a message has been acknowledged, the peer has printed it.
AckedMessagePrinted ==
  \A b \in Boards :
    AllAcked(b) /\ txMsg[b] # NoText =>
      \E i \in 1..Len(printed[Peer(b)]) : printed[Peer(b)][i] = txMsg[b]

\* What a board prints is a message its peer has fetched from its queue, or
\* garbage if a program has sent that, however often programs are restarted
\* and whatever their variables are overwritten with: no text comes back to
\* where it was typed, and no answer is taken for a message.
PrintedWasFetched ==
  \A b \in Boards :
    \A i \in 1..Len(printed[b]) : printed[b][i] \in Fetched(Peer(b)) \cup {NoText}

\* Boards print what their peers typed, in order, each message once.
Link == INSTANCE MessageLink
LinkSpec == Link!Spec

\* Whatever is typed is printed in the end.
LinkFairSpec == Link!FairSpec
============================================================================
