------------------------------ MODULE GsmProofs ------------------------------
(* Proofs about GsmLink for every length of the receive buffer and every     *)
(* number of commands that smsplay.c sends in a row.                         *)
EXTENDS GsmLink, SequenceTheorems, TLAPS

\* What the wait of a task rests on: nobody else touches the link.
Undisturbed(t) == cmdon = 1 /\ watch = "loop" /\ (t = "main" => incall = "none")
LoneUndisturbed == \A t \in lone: InCommand(t) => Undisturbed(t)

\* The in-call task is about to delete itself, or gone: a call that rings was
\* not served, and a stack that is held was leaked.
CallEnded ==
    /\ incall \in {"free", "kill", "none"} => mode # 3 \/ missed \/ leaked
    /\ incall \in {"kill", "none"} => ~stk \/ leaked

\* The same for a call that is under way; TPAD left one to main_task's ATH.
CallOwned ==
    /\ incall \in {"free", "kill"} => mode \notin {1, 2}
    /\ main = "leave ATH" => left

\* The type invariant, but for the Boolean variables and the buffer.
Ranges ==
    /\ cmdon \in {0, 1}
    /\ mode \in {0, 1, 2, 3}
    /\ status \subseteq {"found", "sim", "name"}
    /\ watch \in {"loop"} \cup Queries \cup Reminds
    /\ incall \in {"none", "start", "loop", "ATA", "hang", "ATH", "end", "free", "kill"}
    /\ main \in {"home", "phone", "hang", "ATH", "leave ATH", "sms"}
    /\ lone \subseteq {"main", "incall"}
Flags == ready \in BOOLEAN /\ tim7 \in BOOLEAN /\ stk \in BOOLEAN
Marks == missed \in BOOLEAN /\ leaked \in BOOLEAN /\ left \in BOOLEAN /\ beyond \in BOOLEAN

GsmInv ==
    /\ GsmTypeOK
    /\ NoStuckCmd
    /\ LoneUndisturbed
    /\ RingServed /\ CallEnded
    /\ ModeTrue /\ CallOwned

-----------------------------------------------------------------------------
\* The receive buffer holds at most MaxRecv messages.
LEMMA FitsIsSeq ==
    ASSUME NEW s \in Batches
    PROVE  s \in Seq(Kinds) /\ Len(s) \in Nat /\ Len(s) <= MaxRecv
<1>1. PICK k \in 0..MaxRecv: s \in [1..k -> Kinds]
  BY DEF Batches, BoundedSeq, SeqOf
<1> QED
  BY <1>1, SeqDef, MaxRecvAssumption

LEMMA SeqFits ==
    ASSUME NEW s \in Seq(Kinds), Len(s) <= MaxRecv
    PROVE  s \in Batches
<1>1. Len(s) \in 0..MaxRecv /\ s \in [1..Len(s) -> Kinds]
  BY LenProperties, MaxRecvAssumption
<1> QED
  BY <1>1 DEF Batches, BoundedSeq, SeqOf

LEMMA ClearedBuffer == << >> \in Batches
<1>1. << >> \in Seq(Kinds) /\ Len(<< >>) <= MaxRecv
  BY EmptySeq, MaxRecvAssumption
<1> QED
  BY <1>1, SeqFits

\* What the USART interrupt stores leaves what was there before.
LEMMA StoredKeeps ==
    ASSUME GsmTypeOK, NEW k \in Kinds
    PROVE  /\ Len(rxbuf) < MaxRecv => Append(rxbuf, k) \in Batches
           /\ IsPrefix(rxbuf, Append(rxbuf, k))
           /\ IsPrefix(rxbuf, rxbuf)
<1> DEFINE t == Append(rxbuf, k)
<1>1. rxbuf \in Seq(Kinds) /\ Len(rxbuf) \in Nat
  BY FitsIsSeq DEF GsmTypeOK
<1>2. /\ t \in Seq(Kinds)
      /\ Len(t) = Len(rxbuf) + 1
      /\ \A i \in 1..Len(rxbuf): t[i] = rxbuf[i]
  BY <1>1, AppendProperties
<1> HIDE DEF t
<1>3. SubSeq(rxbuf, 1, Len(rxbuf)) = rxbuf
  BY <1>1, SubSeqFull
<1>4. SubSeq(t, 1, Len(rxbuf)) = rxbuf
  <2>1. \A i \in 1..Len(rxbuf): t[i] \in Kinds
    BY <1>1, <1>2, ElementOfSeq
  <2>2. /\ SubSeq(t, 1, Len(rxbuf)) \in Seq(Kinds)
        /\ Len(SubSeq(t, 1, Len(rxbuf))) = Len(rxbuf)
        /\ \A i \in 1..Len(rxbuf): SubSeq(t, 1, Len(rxbuf))[i] = t[i]
    BY <1>1, <2>1, SubSeqProperties
  <2> QED
    BY <1>1, <1>2, <2>2, SeqEqual
<1>5. Len(rxbuf) < MaxRecv => t \in Batches
  BY <1>1, <1>2, SeqFits, MaxRecvAssumption
<1>6. IsPrefix(rxbuf, t) /\ IsPrefix(rxbuf, rxbuf)
  BY <1>1, <1>2, <1>3, <1>4 DEF IsPrefix
<1> QED
  BY <1>5, <1>6 DEF t

\* A buffer that is cut off after the caller's number still fits.
LEMMA PrefixFits ==
    ASSUME GsmTypeOK, NEW s \in Prefixes(rxbuf)
    PROVE  s \in Batches
<1>1. rxbuf \in Seq(Kinds) /\ Len(rxbuf) \in Nat /\ Len(rxbuf) <= MaxRecv
  BY FitsIsSeq DEF GsmTypeOK
<1>2. PICK n \in 0..Len(rxbuf): s = SubSeq(rxbuf, 1, n)
  BY DEF Prefixes
<1>3. \A i \in 1..n: rxbuf[i] \in Kinds
  BY <1>1, ElementOfSeq
<1>4. s \in Seq(Kinds) /\ Len(s) = n
  BY <1>1, <1>2, <1>3, SubSeqProperties
<1> QED
  BY <1>1, <1>4, SeqFits, MaxRecvAssumption

-----------------------------------------------------------------------------
LEMMA QuerySet ==
    Queries = {"CSQ", "ATE0", "CPIN", "COPS", "CLIP=1", "COLP=1", "CMGF=1", "CSCS", "CSMP"}
<1>1. ToSet(Setup) = {"CLIP=1", "COLP=1", "CMGF=1", "CSCS", "CSMP"}
  BY DEF ToSet, Setup
<1> QED
  BY <1>1 DEF Queries

\* After a query comes another one or the end of the round.
LEMMA QueryFollows ==
    ASSUME NEW q \in Queries, NEW st
    PROVE  QueryAfter(q, st) \in Queries \cup {"loop"}
<1>1. \A i \in 1..5: Setup[i] \in Queries
  BY QuerySet DEF Setup
<1>2. CASE \E i \in 1..4: q = Setup[i]
  <2> DEFINE n == CHOOSE i \in 1..4: q = Setup[i]
  <2>1. n \in 1..4
    BY <1>2
  <2> HIDE DEF n
  <2>2. Setup[1 + n] \in Queries
    BY <1>1, <2>1
  <2> QED
    BY <1>1, <1>2, <2>2, QuerySet DEF QueryAfter, n
<1>3. CASE ~ \E i \in 1..4: q = Setup[i]
  BY <1>1, <1>3, QuerySet DEF QueryAfter
<1> QED
  BY <1>2, <1>3

LEMMA StatusFollows ==
    ASSUME GsmTypeOK, NEW q, NEW ok
    PROVE  StatusAfter(q, ok) \subseteq {"found", "sim", "name"}
BY DEF GsmTypeOK, StatusAfter

\* The buffer never overflows.
LEMMA BufferStep ==
    ASSUME GsmTypeOK, [Next]_vars
    PROVE  rxbuf' \in Batches
<1> USE ClearedBuffer
<1> USE DEF GsmTypeOK, rxVars, devVars, ClearRx, SendCmd, CmdOver, TaskSend
<1>1. ASSUME NEW k \in Kinds, USART3IRQ(k) PROVE rxbuf' \in Batches
  BY <1>1, StoredKeeps DEF USART3IRQ
<1>2. CASE TIM7IRQ
  BY <1>2 DEF TIM7IRQ
<1>3. CASE CmsginCheck
  BY <1>3, PrefixFits DEF CmsginCheck, IncallCreat
<1>4. CASE Reminded \/ StatusCheck \/ StatusAnswer
  BY <1>4
  DEF Reminded, StatusCheck, StatusAnswer
<1>5. CASE IncallStart \/ IncallMessage \/ IncallAnswered \/ IncallBreak \/
        IncallATH \/ IncallOver \/ IncallEnd \/ IncallFree \/ IncallDel
  BY <1>5
  DEF IncallStart, IncallMessage, IncallAnswered, IncallBreak, IncallATH,
      IncallOver, IncallEnd, IncallFree, IncallDel
<1>6. CASE IncallAnswer \/ IncallHangUp \/ IncallRefuse
  BY <1>6
  DEF IncallAnswer, IncallHangUp, IncallRefuse
<1>7. CASE PhoneMessage \/ HangUpATH \/ PhoneOver \/ SmsAgain \/ SmsOver
  BY <1>7
  DEF PhoneMessage, HangUpATH, PhoneOver, SmsAgain, SmsOver
<1>8. CASE PhonePlay \/ Dial \/ HangUp \/ PhoneLeave \/ SmsSend
  BY <1>8
  DEF PhonePlay, Dial, HangUp, PhoneLeave, SmsSend
<1>9. CASE UNCHANGED vars
  BY <1>9 DEF vars
<1> QED
  BY <1>1, <1>2, <1>3, <1>4, <1>5, <1>6, <1>7, <1>8, <1>9
  DEF Next, WatchTask, IncallCode, IncallUser, MainCode, MainUser

\* The Boolean variables.
LEMMA FlagsStep ==
    ASSUME Flags, [Next]_vars
    PROVE  Flags'
<1> USE DEF Flags, rxVars, devVars, ClearRx, SendCmd, CmdOver, TaskSend
<1>1. ASSUME NEW k \in Kinds, USART3IRQ(k) PROVE Flags'
  BY <1>1 DEF USART3IRQ
<1>2. CASE TIM7IRQ
  BY <1>2 DEF TIM7IRQ
<1>3. CASE CmsginCheck \/ Reminded \/ StatusCheck \/ StatusAnswer
  BY <1>3
  DEF CmsginCheck, Reminded, StatusCheck, StatusAnswer, IncallCreat
<1>4. CASE IncallStart \/ IncallMessage \/ IncallAnswered \/ IncallBreak \/
        IncallATH \/ IncallOver \/ IncallEnd \/ IncallFree \/ IncallDel
  BY <1>4
  DEF IncallStart, IncallMessage, IncallAnswered, IncallBreak, IncallATH,
      IncallOver, IncallEnd, IncallFree, IncallDel
<1>5. CASE IncallAnswer \/ IncallHangUp \/ IncallRefuse
  BY <1>5
  DEF IncallAnswer, IncallHangUp, IncallRefuse
<1>6. CASE PhoneMessage \/ HangUpATH \/ PhoneOver \/ SmsAgain \/ SmsOver
  BY <1>6
  DEF PhoneMessage, HangUpATH, PhoneOver, SmsAgain, SmsOver
<1>7. CASE PhonePlay \/ Dial \/ HangUp \/ PhoneLeave \/ SmsSend
  BY <1>7
  DEF PhonePlay, Dial, HangUp, PhoneLeave, SmsSend
<1>8. CASE UNCHANGED vars
  BY <1>8 DEF vars
<1> QED
  BY <1>1, <1>2, <1>3, <1>4, <1>5, <1>6, <1>7, <1>8
  DEF Next, WatchTask, IncallCode, IncallUser, MainCode, MainUser

\* The notes of what went wrong.
LEMMA MarksStep ==
    ASSUME Marks, [Next]_vars
    PROVE  Marks'
<1> USE DEF Marks, histVars
<1>1. beyond' \in BOOLEAN
  <2>1. CASE Terminates
    BY <2>1 DEF Terminates
  <2>2. CASE UNCHANGED beyond
    BY <2>2
  <2> QED
    BY <2>1, <2>2
    DEF Next, vars, USART3IRQ, TIM7IRQ, WatchTask, CmsginCheck, Reminded, StatusCheck,
        StatusAnswer, IncallCode, IncallUser, IncallStart, IncallMessage, IncallAnswered,
        IncallBreak, IncallATH, IncallOver, IncallEnd, IncallFree, IncallDel,
        IncallAnswer, IncallHangUp, IncallRefuse, MainCode, MainUser, PhoneMessage,
        HangUpATH, PhoneOver, SmsAgain, SmsOver, PhonePlay, Dial, HangUp, PhoneLeave,
        SmsSend
<1>2. left' \in BOOLEAN
  <2>1. CASE left' = (mode # 0)
    BY <2>1
  <2>2. CASE left' = FALSE
    BY <2>2
  <2>3. CASE UNCHANGED left
    BY <2>3
  <2> QED
    BY <2>1, <2>2, <2>3
    DEF Next, vars, USART3IRQ, TIM7IRQ, WatchTask, CmsginCheck, Reminded, StatusCheck,
        StatusAnswer, IncallCode, IncallUser, IncallStart, IncallMessage, IncallAnswered,
        IncallBreak, IncallATH, IncallOver, IncallEnd, IncallFree, IncallDel,
        IncallAnswer, IncallHangUp, IncallRefuse, MainCode, MainUser, PhoneMessage,
        HangUpATH, PhoneOver, SmsAgain, SmsOver, PhonePlay, Dial, HangUp, PhoneLeave,
        SmsSend
<1>3. missed' \in BOOLEAN /\ leaked' \in BOOLEAN
  <2>1. CASE IncallCreat
    <3>1. missed' = (incall \in {"free", "kill"}) => missed' \in BOOLEAN
      OBVIOUS
    <3> QED
      BY <2>1, <3>1 DEF IncallCreat
  <2>2. CASE UNCHANGED <<missed, leaked>>
    BY <2>2
  <2> QED
    BY <2>1, <2>2
    DEF Next, vars, USART3IRQ, TIM7IRQ, WatchTask, CmsginCheck, Reminded, StatusCheck,
        StatusAnswer, IncallCode, IncallUser, IncallStart, IncallMessage, IncallAnswered,
        IncallBreak, IncallATH, IncallOver, IncallEnd, IncallFree, IncallDel,
        IncallAnswer, IncallHangUp, IncallRefuse, MainCode, MainUser, PhoneMessage,
        HangUpATH, PhoneOver, SmsAgain, SmsOver, PhonePlay, Dial, HangUp, PhoneLeave,
        SmsSend
<1> QED
  BY <1>1, <1>2, <1>3

\* The modes, and the values of cmdon, are different from each other.
LEMMA Distinct == 0 # 1 /\ 0 # 2 /\ 0 # 3 /\ 1 # 3 /\ 2 # 3
  OBVIOUS

\* The tries that smsplay.c has left.
LEMMA TriesStep ==
    ASSUME tries \in 0..Tries, [Next]_vars
    PROVE  tries' \in 0..Tries
<1> USE TriesAssumption
<1> USE DEF rxVars, devVars, ClearRx, SendCmd, CmdOver, TaskSend
<1>1. ASSUME NEW k \in Kinds, USART3IRQ(k) PROVE tries' \in 0..Tries
  BY <1>1 DEF USART3IRQ
<1>2. CASE TIM7IRQ
  BY <1>2 DEF TIM7IRQ
<1>3. CASE CmsginCheck \/ Reminded \/ StatusCheck \/ StatusAnswer
  BY <1>3
  DEF CmsginCheck, Reminded, StatusCheck, StatusAnswer, IncallCreat
<1>4. CASE IncallStart \/ IncallMessage \/ IncallAnswered \/ IncallBreak \/
        IncallATH \/ IncallOver \/ IncallEnd \/ IncallFree \/ IncallDel
  BY <1>4
  DEF IncallStart, IncallMessage, IncallAnswered, IncallBreak, IncallATH,
      IncallOver, IncallEnd, IncallFree, IncallDel
<1>5. CASE IncallAnswer \/ IncallHangUp \/ IncallRefuse
  BY <1>5
  DEF IncallAnswer, IncallHangUp, IncallRefuse
<1>6. CASE SmsAgain
  BY <1>6 DEF SmsAgain
<1>7. CASE SmsOver
  BY <1>7 DEF SmsOver
<1>8. CASE PhoneMessage \/ HangUpATH \/ PhoneOver
  BY <1>8
  DEF PhoneMessage, HangUpATH, PhoneOver
<1>9. CASE SmsSend
  BY <1>9 DEF SmsSend
<1>10. CASE PhonePlay \/ Dial \/ HangUp \/ PhoneLeave
  BY <1>10
  DEF PhonePlay, Dial, HangUp, PhoneLeave
<1>11. CASE UNCHANGED vars
  BY <1>11 DEF vars
<1> QED
  BY <1>1, <1>2, <1>3, <1>4, <1>5, <1>6, <1>7, <1>8, <1>9, <1>10, <1>11
  DEF Next, WatchTask, IncallCode, IncallUser, MainCode, MainUser

\* The other variables keep their ranges.
LEMMA RangesStep ==
    ASSUME GsmTypeOK, Ranges, [Next]_vars
    PROVE  Ranges'
<1> USE QuerySet
<1> USE DEF Ranges, Reminds, rxVars, devVars, ClearRx, SendCmd, CmdOver, TaskSend
<1>1. ASSUME NEW k \in Kinds, USART3IRQ(k) PROVE Ranges'
  BY <1>1 DEF USART3IRQ
<1>2. CASE TIM7IRQ
  BY <1>2 DEF TIM7IRQ
<1>3. CASE StatusAnswer
  BY <1>3, QueryFollows, StatusFollows DEF StatusAnswer
<1>4. CASE CmsginCheck \/ Reminded \/ StatusCheck
  BY <1>4
  DEF CmsginCheck, Reminded, StatusCheck, IncallCreat
<1>5. CASE IncallStart \/ IncallMessage \/ IncallAnswered \/ IncallBreak \/
        IncallATH \/ IncallOver \/ IncallEnd \/ IncallFree \/ IncallDel
  BY <1>5
  DEF IncallStart, IncallMessage, IncallAnswered, IncallBreak, IncallATH,
      IncallOver, IncallEnd, IncallFree, IncallDel
<1>6. CASE IncallAnswer \/ IncallHangUp \/ IncallRefuse
  BY <1>6
  DEF IncallAnswer, IncallHangUp, IncallRefuse
<1>7. CASE PhoneMessage \/ HangUpATH \/ PhoneOver \/ SmsAgain \/ SmsOver
  BY <1>7
  DEF PhoneMessage, HangUpATH, PhoneOver, SmsAgain, SmsOver
<1>8. CASE PhonePlay \/ Dial \/ HangUp \/ PhoneLeave \/ SmsSend
  BY <1>8
  DEF PhonePlay, Dial, HangUp, PhoneLeave, SmsSend
<1>9. CASE UNCHANGED vars
  BY <1>9 DEF vars
<1> QED
  BY <1>1, <1>2, <1>3, <1>4, <1>5, <1>6, <1>7, <1>8, <1>9
  DEF Next, WatchTask, IncallCode, IncallUser, MainCode, MainUser

\* No task leaves cmdon set behind it.
LEMMA StuckStep ==
    ASSUME NoStuckCmd, [Next]_vars
    PROVE  NoStuckCmd'
<1> USE DEF NoStuckCmd, rxVars, devVars, ClearRx, SendCmd, CmdOver, TaskSend
<1>1. ASSUME NEW k \in Kinds, USART3IRQ(k) PROVE NoStuckCmd'
  BY <1>1 DEF USART3IRQ, InCommand
<1>2. CASE TIM7IRQ
  BY <1>2 DEF TIM7IRQ, InCommand
<1>3. CASE CmsginCheck
  <2>1. cmdon' = 0
    BY <1>3 DEF CmsginCheck
  <2> QED
    BY <2>1, Distinct, Zenon
<1>4. CASE Reminded
  <2>1. watch \notin Queries /\ UNCHANGED <<cmdon, main, incall>>
    BY <1>4, QuerySet DEF Reminded, Reminds
  <2> QED
    BY <2>1 DEF InCommand
<1>5. CASE StatusCheck
  BY <1>5, QuerySet DEF StatusCheck, InCommand
<1>6. CASE StatusAnswer
  <2>1. watch' \in Queries \/ cmdon' = 0
    BY <1>6, QueryFollows DEF StatusAnswer
  <2> QED
    BY <2>1, Distinct
<1>7. CASE IncallAnswered
  <2>1. cmdon' = 0
    BY <1>7 DEF IncallAnswered
  <2> QED
    BY <2>1, Distinct, Zenon
<1>8. CASE IncallOver
  <2>1. cmdon' = 0
    BY <1>8 DEF IncallOver
  <2> QED
    BY <2>1, Distinct, Zenon
<1>9. CASE IncallStart \/ IncallMessage \/ IncallBreak \/ IncallATH \/ IncallEnd
        \/ IncallFree \/ IncallDel
  BY <1>9
  DEF IncallStart, IncallMessage, IncallBreak, IncallATH, IncallEnd, IncallFree,
      IncallDel, InCommand
<1>10. CASE IncallAnswer \/ IncallHangUp \/ IncallRefuse
  BY <1>10
  DEF IncallAnswer, IncallHangUp, IncallRefuse, InCommand
<1>11. CASE PhoneMessage
  <2>1. cmdon' = 0
    BY <1>11 DEF PhoneMessage
  <2> QED
    BY <2>1, Distinct, Zenon
<1>12. CASE PhoneOver
  <2>1. cmdon' = 0
    BY <1>12 DEF PhoneOver
  <2> QED
    BY <2>1, Distinct, Zenon
<1>13. CASE SmsOver
  <2>1. cmdon' = 0
    BY <1>13 DEF SmsOver
  <2> QED
    BY <2>1, Distinct, Zenon
<1>14. CASE HangUpATH \/ SmsAgain
  BY <1>14
  DEF HangUpATH, SmsAgain, InCommand
<1>15. CASE PhonePlay \/ Dial \/ HangUp \/ PhoneLeave \/ SmsSend
  BY <1>15
  DEF PhonePlay, Dial, HangUp, PhoneLeave, SmsSend, InCommand
<1>16. CASE UNCHANGED vars
  BY <1>16 DEF vars, InCommand
<1> QED
  BY <1>1, <1>2, <1>3, <1>4, <1>5, <1>6, <1>7, <1>8, <1>9, <1>10, <1>11,
     <1>12, <1>13, <1>14, <1>15, <1>16
  DEF Next, WatchTask, IncallCode, IncallUser, MainCode, MainUser

\* Nobody comes between a task and its answer.
LEMMA LoneStep ==
    ASSUME LoneUndisturbed, [Next]_vars
    PROVE  LoneUndisturbed'
<1> USE DEF LoneUndisturbed, Undisturbed, MainRuns, rxVars, devVars, ClearRx,
            SendCmd, CmdOver, TaskSend
<1>1. ASSUME NEW k \in Kinds, USART3IRQ(k) PROVE LoneUndisturbed'
  BY <1>1 DEF USART3IRQ, InCommand
<1>2. CASE TIM7IRQ
  BY <1>2 DEF TIM7IRQ, InCommand
<1>3. CASE CmsginCheck
  <2>1. cmdon = 0
    BY <1>3 DEF CmsginCheck
  <2>2. \A t \in lone: ~ InCommand(t)
    BY <2>1, Distinct, Zenon
  <2>3. UNCHANGED <<main, lone>> /\ incall' \in {incall, "start"}
    BY <1>3 DEF CmsginCheck, IncallCreat
  <2> QED
    BY <2>2, <2>3 DEF InCommand
<1>4. CASE StatusCheck
  <2>1. \A t \in lone: ~ InCommand(t)
    BY <1>4, Distinct, Zenon DEF StatusCheck
  <2> QED
    BY <1>4, <2>1 DEF StatusCheck, InCommand
<1>5. CASE StatusAnswer
  BY <1>5, QuerySet DEF StatusAnswer, InCommand
<1>6. CASE Reminded
  BY <1>6
  DEF Reminded, InCommand
<1>7. CASE IncallStart \/ IncallMessage \/ IncallAnswered \/ IncallBreak \/
        IncallATH \/ IncallOver \/ IncallEnd \/ IncallFree \/ IncallDel
  BY <1>7
  DEF IncallStart, IncallMessage, IncallAnswered, IncallBreak, IncallATH,
      IncallOver, IncallEnd, IncallFree, IncallDel, InCommand
<1>8. CASE IncallAnswer \/ IncallHangUp \/ IncallRefuse
  BY <1>8
  DEF IncallAnswer, IncallHangUp, IncallRefuse, InCommand
<1>9. CASE PhoneMessage \/ HangUpATH \/ PhoneOver \/ SmsAgain \/ SmsOver
  BY <1>9
  DEF PhoneMessage, HangUpATH, PhoneOver, SmsAgain, SmsOver, InCommand
<1>10. CASE PhonePlay \/ Dial \/ HangUp \/ PhoneLeave \/ SmsSend
  BY <1>10
  DEF PhonePlay, Dial, HangUp, PhoneLeave, SmsSend, InCommand
<1>11. CASE UNCHANGED vars
  BY <1>11 DEF vars, InCommand
<1> QED
  BY <1>1, <1>2, <1>3, <1>4, <1>5, <1>6, <1>7, <1>8, <1>9, <1>10, <1>11
  DEF Next, WatchTask, IncallCode, IncallUser, MainCode, MainUser

\* A ring that gets no task is noted.
LEMMA CreatServes ==
    ASSUME CallEnded, IncallCreat
    PROVE  RingServed' /\ CallEnded'
<1>1. CASE stk /\ missed' = (incall \in {"free", "kill"}) /\ UNCHANGED <<stk, incall, leaked>>
  <2>1. CASE incall = "none"
    <3>1. leaked'
      BY <1>1, <2>1 DEF CallEnded
    <3> QED
      BY <3>1 DEF RingServed, CallEnded
  <2>2. CASE incall \in {"free", "kill"}
    <3>1. missed' /\ (incall' = "kill" => leaked') /\ incall' # "none"
      BY <1>1, <2>2 DEF CallEnded
    <3> QED
      BY <3>1 DEF RingServed, CallEnded
  <2>3. CASE incall \notin {"none", "free", "kill"}
    BY <1>1, <2>3 DEF RingServed, CallEnded
  <2> QED
    BY <2>1, <2>2, <2>3
<1>2. CASE ~stk /\ missed' = TRUE /\ UNCHANGED <<stk, incall, leaked>>
  BY <1>2 DEF RingServed, CallEnded
<1>3. CASE incall' = "start"
  BY <1>3 DEF RingServed, CallEnded
<1>4. CASE leaked' = TRUE
  BY <1>4 DEF RingServed, CallEnded
<1> QED
  BY <1>1, <1>2, <1>3, <1>4 DEF IncallCreat

\* A ringing call has its task, which ends the call before it goes.
LEMMA RingStep ==
    ASSUME RingServed, CallEnded, [Next]_vars
    PROVE  RingServed' /\ CallEnded'
<1> USE DEF RingServed, CallEnded, MainRuns, rxVars, devVars, histVars, ClearRx,
            SendCmd, CmdOver, TaskSend
<1>1. ASSUME NEW k \in Kinds, USART3IRQ(k) PROVE RingServed' /\ CallEnded'
  BY <1>1 DEF USART3IRQ
<1>2. CASE TIM7IRQ
  BY <1>2 DEF TIM7IRQ
<1>3. CASE CmsginCheck
  <2>1. CASE IncallCreat
    BY <2>1, CreatServes
  <2>2. CASE UNCHANGED <<mode, stk, incall, missed, leaked>>
    BY <2>2
  <2> QED
    BY <1>3, <2>1, <2>2 DEF CmsginCheck
<1>4. CASE Reminded
  BY <1>4 DEF Reminded
<1>5. CASE StatusCheck
  BY <1>5 DEF StatusCheck
<1>6. CASE StatusAnswer
  BY <1>6 DEF StatusAnswer
<1>7. CASE IncallStart
  BY <1>7 DEF IncallStart
<1>8. CASE IncallMessage
  BY <1>8 DEF IncallMessage
<1>9. CASE IncallAnswered
  BY <1>9 DEF IncallAnswered
<1>10. CASE IncallBreak
  BY <1>10 DEF IncallBreak
<1>11. CASE IncallATH
  BY <1>11 DEF IncallATH
<1>12. CASE IncallOver
  BY <1>12 DEF IncallOver
<1>13. CASE IncallEnd
  BY <1>13 DEF IncallEnd
<1>14. CASE IncallFree
  BY <1>14 DEF IncallFree
<1>15. CASE IncallDel
  BY <1>15 DEF IncallDel
<1>16. CASE IncallAnswer
  BY <1>16 DEF IncallAnswer
<1>17. CASE IncallHangUp
  BY <1>17 DEF IncallHangUp
<1>18. CASE IncallRefuse
  BY <1>18 DEF IncallRefuse
<1>19. CASE PhoneMessage
  <2>1. mode' # 3 /\ UNCHANGED <<incall, stk, leaked>>
    <3>1. mode' \in {0, 1, 2} /\ UNCHANGED <<incall, stk, leaked>>
      BY <1>19 DEF PhoneMessage
    <3> QED
      BY <3>1
  <2> QED
    BY <2>1
<1>20. CASE HangUpATH
  BY <1>20 DEF HangUpATH
<1>21. CASE PhoneOver
  BY <1>21 DEF PhoneOver
<1>22. CASE SmsAgain
  BY <1>22 DEF SmsAgain
<1>23. CASE SmsOver
  BY <1>23 DEF SmsOver
<1>24. CASE PhonePlay
  BY <1>24 DEF PhonePlay
<1>25. CASE Dial
  BY <1>25 DEF Dial
<1>26. CASE HangUp
  BY <1>26 DEF HangUp
<1>27. CASE PhoneLeave
  BY <1>27 DEF PhoneLeave
<1>28. CASE SmsSend
  BY <1>28 DEF SmsSend
<1>29. CASE UNCHANGED vars
  BY <1>29 DEF vars
<1> QED
  BY <1>1, <1>2, <1>3, <1>4, <1>5, <1>6, <1>7, <1>8, <1>9, <1>10, <1>11,
     <1>12, <1>13, <1>14, <1>15, <1>16, <1>17, <1>18, <1>19, <1>20, <1>21,
     <1>22, <1>23, <1>24, <1>25, <1>26, <1>27, <1>28, <1>29
  DEF Next, WatchTask, IncallCode, IncallUser, MainCode, MainUser

\* A call does not outlive the phone application.
LEMMA CallStep ==
    ASSUME ModeTrue, CallOwned, [Next]_vars
    PROVE  ModeTrue' /\ CallOwned'
<1> USE DEF ModeTrue, CallOwned, MainRuns, rxVars, devVars, histVars, ClearRx, SendCmd,
            CmdOver, TaskSend
<1>1. ASSUME NEW k \in Kinds, USART3IRQ(k) PROVE ModeTrue' /\ CallOwned'
  BY <1>1 DEF USART3IRQ
<1>2. CASE TIM7IRQ
  BY <1>2 DEF TIM7IRQ
<1>3. CASE CmsginCheck
  <2>1. mode' \in {0, 3} /\ main' = main /\ left' = left
    BY <1>3 DEF CmsginCheck
  <2>2. mode' \notin {1, 2}
    BY <2>1, Distinct, Zenon
  <2> QED
    BY <2>1, <2>2
<1>4. CASE Reminded \/ StatusCheck \/ StatusAnswer
  BY <1>4
  DEF Reminded, StatusCheck, StatusAnswer
<1>5. CASE IncallEnd
  <2>1. mode' = 0 /\ main' = main /\ left' = left
    BY <1>5 DEF IncallEnd
  <2>2. mode' \notin {1, 2}
    BY <2>1, Distinct, Zenon
  <2> QED
    BY <2>1, <2>2
<1>6. CASE IncallStart \/ IncallMessage \/ IncallAnswered \/ IncallBreak \/
        IncallATH \/ IncallOver \/ IncallFree \/ IncallDel
  BY <1>6
  DEF IncallStart, IncallMessage, IncallAnswered, IncallBreak, IncallATH,
      IncallOver, IncallFree, IncallDel
<1>7. CASE IncallAnswer \/ IncallHangUp \/ IncallRefuse
  BY <1>7
  DEF IncallAnswer, IncallHangUp, IncallRefuse
<1>8. CASE PhoneMessage \/ HangUpATH \/ PhoneOver \/ SmsAgain \/ SmsOver
  BY <1>8
  DEF PhoneMessage, HangUpATH, PhoneOver, SmsAgain, SmsOver
<1>9. CASE PhonePlay
  BY <1>9 DEF PhonePlay
<1>10. CASE Dial
  BY <1>10 DEF Dial
<1>11. CASE HangUp
  BY <1>11 DEF HangUp
<1>12. CASE PhoneLeave
  <2>1. CASE mode = 0
    <3>1. mode' = 0 /\ main' = "home" /\ incall' = incall /\ incall = "none"
      BY <1>12, <2>1 DEF PhoneLeave
    <3>2. mode' \notin {1, 2}
      BY <3>1, Distinct, Zenon
    <3> QED
      BY <3>1, <3>2
  <2>2. CASE mode # 0
    <3>1. left'
      BY <1>12, <2>2 DEF PhoneLeave
    <3>2. incall' = "none"
      BY <1>12 DEF PhoneLeave
    <3> QED
      BY <3>1, <3>2
  <2> QED
    BY <2>1, <2>2
<1>13. CASE SmsSend
  BY <1>13
  DEF SmsSend
<1>14. CASE UNCHANGED vars
  BY <1>14 DEF vars
<1> QED
  BY <1>1, <1>2, <1>3, <1>4, <1>5, <1>6, <1>7, <1>8, <1>9, <1>10, <1>11,
     <1>12, <1>13, <1>14
  DEF Next, WatchTask, IncallCode, IncallUser, MainCode, MainUser

-----------------------------------------------------------------------------
LEMMA TypeParts ==
    /\ GsmTypeOK => rxbuf \in Batches /\ Flags /\ Marks /\ Ranges /\ tries \in 0..Tries
    /\ rxbuf \in Batches /\ Flags /\ Marks /\ Ranges /\ tries \in 0..Tries => GsmTypeOK
BY Zenon DEF GsmTypeOK, Flags, Marks, Ranges

LEMMA InitGsmInv == Init => GsmInv
<1> SUFFICES ASSUME Init PROVE GsmInv
  OBVIOUS
<1>1. rxbuf \in Batches
  BY ClearedBuffer DEF Init
<1>2. Flags /\ Marks
  BY DEF Init, Flags, Marks
<1>3. Ranges
  BY DEF Init, Ranges
<1>4. tries \in 0..Tries
  BY TriesAssumption DEF Init
<1>5. GsmTypeOK
  BY <1>1, <1>2, <1>3, <1>4, TypeParts
<1>6. NoStuckCmd
  BY Distinct DEF Init, NoStuckCmd
<1>7. LoneUndisturbed /\ RingServed /\ CallEnded /\ ModeTrue /\ CallOwned
  BY Distinct DEF Init, LoneUndisturbed, RingServed, CallEnded, ModeTrue, CallOwned
<1> QED
  BY <1>5, <1>6, <1>7 DEF GsmInv

LEMMA NextGsmInv == GsmInv /\ [Next]_vars => GsmInv'
<1> SUFFICES ASSUME GsmInv, [Next]_vars PROVE GsmInv'
  OBVIOUS
<1>1. GsmTypeOK /\ NoStuckCmd /\ LoneUndisturbed
  BY DEF GsmInv
<1>2. GsmTypeOK'
  <2>1. rxbuf' \in Batches /\ Flags' /\ Marks' /\ Ranges' /\ tries' \in 0..Tries
    BY <1>1, TypeParts, BufferStep, FlagsStep, MarksStep, RangesStep, TriesStep
  <2> QED
    BY <2>1, Zenon DEF GsmTypeOK, Flags, Marks, Ranges
<1>3. NoStuckCmd' /\ LoneUndisturbed'
  BY <1>1, StuckStep, LoneStep
<1>4. RingServed' /\ CallEnded'
  BY RingStep DEF GsmInv
<1>5. ModeTrue' /\ CallOwned'
  BY CallStep DEF GsmInv
<1> QED
  BY <1>2, <1>3, <1>4, <1>5 DEF GsmInv

LEMMA GsmInvAlways == Spec => []GsmInv
  BY InitGsmInv, NextGsmInv, PTL DEF Spec

(* The interrupt stores nothing behind the buffer, and every variable keeps  *)
(* its type (usart3.c:42-56). The terminator of gsm_check_cmd is another     *)
(* matter: it goes to the byte behind a full buffer, which beyond records    *)
(* (gsm.c:37).                                                               *)
THEOREM GsmTypeCorrect == Spec => []GsmTypeOK
<1>1. GsmInv => GsmTypeOK
  BY DEF GsmInv
<1> QED
  BY <1>1, GsmInvAlways, PTL

(* The flag that keeps watch_task away is never left set (gsm.c:53, 79).    *)
THEOREM NoCmdSticks == Spec => []NoStuckCmd
<1>1. GsmInv => NoStuckCmd
  BY DEF GsmInv
<1> QED
  BY <1>1, GsmInvAlways, PTL

\* Who has a command under way on a link of its own keeps what it received.
LEMMA KeptStep ==
    ASSUME GsmTypeOK, LoneUndisturbed, [Next]_vars,
           NEW t \in lone, InCommand(t),
           UNCHANGED <<main, incall, tries>>
    PROVE  IsPrefix(rxbuf, rxbuf') /\ (ready => ready')
<1> USE DEF rxVars, devVars
<1> DEFINE Goal == IsPrefix(rxbuf, rxbuf') /\ (ready => ready')
<1>1. cmdon = 1 /\ watch = "loop"
  BY DEF LoneUndisturbed, Undisturbed
<1>2. \/ main \in {"ATH", "leave ATH", "sms"} /\ incall = "none"
      \/ incall \in {"ATA", "ATH"}
  BY DEF LoneUndisturbed, Undisturbed, InCommand
<1>3. IsPrefix(rxbuf, rxbuf)
  <2>1. "OK" \in Kinds
    BY DEF Kinds
  <2> QED
    BY <2>1, StoredKeeps
<1>4. ASSUME NEW k \in Kinds, USART3IRQ(k) PROVE Goal
  BY <1>3, <1>4, StoredKeeps DEF USART3IRQ
<1>5. CASE TIM7IRQ
  BY <1>3, <1>5 DEF TIM7IRQ
<1>6. CASE WatchTask
  <2>1. cmdon # 0 /\ watch \notin Queries /\ watch \notin Reminds
    BY <1>1, QuerySet DEF Reminds
  <2> QED
    BY <1>6, <2>1 DEF WatchTask, CmsginCheck, Reminded, StatusCheck, StatusAnswer
<1>7. CASE IncallCode \/ IncallUser
  <2>1. incall # "none" => incall \in {"ATA", "ATH"}
    BY <1>2
  <2> QED
    BY <1>2, <1>7
    DEF IncallCode, IncallUser, IncallStart, IncallMessage, IncallAnswered,
        IncallBreak, IncallATH, IncallOver, IncallEnd, IncallFree, IncallDel,
        IncallAnswer, IncallHangUp, IncallRefuse
<1>8. CASE MainCode \/ MainUser
  <2>1. main \in {"ATH", "leave ATH", "sms"} \/ incall # "none"
    BY <1>2
  <2>2. ~ SmsAgain
    <3>1. tries \in Nat /\ tries' = tries
      BY TriesAssumption, TypeParts
    <3> QED
      BY <3>1 DEF SmsAgain
  <2> QED
    BY <1>8, <2>1, <2>2
    DEF MainCode, MainUser, MainRuns, PhoneMessage, HangUpATH, PhoneOver, SmsOver,
        PhonePlay, Dial, HangUp, PhoneLeave, SmsSend
<1>9. CASE UNCHANGED vars
  BY <1>3, <1>9 DEF vars
<1> QED
  BY <1>4, <1>5, <1>6, <1>7, <1>8, <1>9 DEF Next

(* An answer that nobody else can take stays until its task takes it        *)
(* (gsm.c:154, 195).                                                        *)
THEOREM AnswersAreKept == Spec => AnswerKept
<1>1. GsmInv /\ [Next]_vars => [\A t \in {"main", "incall"}: Kept(t)]_vars
  BY KeptStep DEF GsmInv, Kept
<1> QED
  BY <1>1, GsmInvAlways, PTL DEF Spec, AnswerKept

(* A call rings without its task only if its ring found no memory or came   *)
(* while the in-call task deleted itself, or a stack was leaked by that      *)
(* (gsm.c:165-166, phoneplay.c:483-508).                                     *)
THEOREM EveryRingServed == Spec => []RingServed
<1>1. GsmInv => RingServed
  BY DEF GsmInv
<1> QED
  BY <1>1, GsmInvAlways, PTL

(* Nobody is in a call without the phone application or the in-call task,   *)
(* unless phone_play was left in the middle of it (phoneplay.c:797-808).    *)
THEOREM ModeAlwaysTrue == Spec => []ModeTrue
<1>1. GsmInv => ModeTrue
  BY DEF GsmInv
<1> QED
  BY <1>1, GsmInvAlways, PTL

=============================================================================
