------------------------------- MODULE GsmLink -------------------------------
(***************************************************************************)
(* The GSM modem on USART3 (gsm.c, usart3.c) and the tasks that share it:   *)
(* watch_task (priority 3) polls the modem and looks for calls and          *)
(* messages, the in-call task (4) serves a call, main_task (6) dials and    *)
(* reads and sends messages.                                                *)
(*                                                                          *)
(* A message is one of Kinds. USART3_RX_STA is the pair of rxbuf, what was  *)
(* stored, and ready, its bit 15. An action of watch_task goes from one     *)
(* delay to the next: nothing but an interrupt cuts into it. main_task does *)
(* not run while the in-call task exists, which suspends it before its      *)
(* first delay and resumes it after its last one.                           *)
(*                                                                          *)
(* missed, leaked, left and beyond are no variables of the program: they    *)
(* record what went wrong, and no action reads them.                        *)
(***************************************************************************)
EXTENDS Naturals, Sequences, SequencesExt

CONSTANTS
    MaxRecv,        \* USART3_MAX_RECV_LEN, in messages
    Tries           \* how many commands smsplay.c sends in a row at most

ASSUME MaxRecvAssumption == MaxRecv \in Nat \ {0}
ASSUME TriesAssumption == Tries \in Nat \ {0}

VARIABLES
    rxbuf, ready,   \* USART3_RX_BUF and bit 15 of USART3_RX_STA
    tim7,           \* TIM7 counts
    cmdon, mode, status,        \* fields of gsmdev
    stk,            \* PHONE_INCALL_TASK_STK is not 0
    watch,          \* where watch_task is
    incall,         \* where the in-call task is
    main,           \* where main_task is
    tries,
    lone,           \* tasks whose command went out while watch_task was in its loop
    missed,         \* the last ring found no memory, or the in-call task on its way out
    leaked,         \* the stack of a task that OSTaskCreate refused is held for good
    left,           \* phone_play was left in another mode than 0
    beyond          \* a terminator was written behind USART3_RX_BUF

rxVars   == <<rxbuf, ready, tim7>>
devVars  == <<cmdon, mode, status>>
histVars == <<missed, leaked, left>>
vars     == <<rxVars, devVars, stk, watch, incall, main, tries, lone, histVars, beyond>>

Kinds   == {"OK", "CLIP", "CMTI", "CMGS", "NO CARRIER", "COLP"}
Batches == BoundedSeq(Kinds, MaxRecv)   \* what USART3_RX_BUF can hold
Setup   == <<"CLIP=1", "COLP=1", "CMGF=1", "CSCS", "CSMP">>
Queries == {"CSQ", "ATE0", "CPIN", "COPS"} \cup ToSet(Setup)
Reminds == {"remind sent", "remind new"}

GsmTypeOK ==
    /\ rxbuf \in Batches
    /\ ready \in BOOLEAN
    /\ tim7 \in BOOLEAN
    /\ cmdon \in {0, 1}
    /\ mode \in {0, 1, 2, 3}
    /\ status \subseteq {"found", "sim", "name"}
    /\ stk \in BOOLEAN
    /\ watch \in {"loop"} \cup Queries \cup Reminds
    /\ incall \in {"none", "start", "loop", "ATA", "hang", "ATH", "end", "free", "kill"}
    /\ main \in {"home", "phone", "hang", "ATH", "leave ATH", "sms"}
    /\ tries \in 0..Tries
    /\ lone \subseteq {"main", "incall"}
    /\ missed \in BOOLEAN
    /\ leaked \in BOOLEAN
    /\ left \in BOOLEAN
    /\ beyond \in BOOLEAN

Init ==
    /\ rxbuf = << >>
    /\ ready = FALSE
    /\ tim7 = FALSE
    /\ cmdon = 0
    /\ mode = 0
    /\ status = {}
    /\ stk = FALSE
    /\ watch = "loop"
    /\ incall = "none"
    /\ main = "home"
    /\ tries = 0
    /\ lone = {}
    /\ missed = FALSE
    /\ leaked = FALSE
    /\ left = FALSE
    /\ beyond = FALSE

-----------------------------------------------------------------------------
(* The interrupts.                                                          *)

\* Mutant: the length is not tested.
USART3IRQNoLimit(k) ==
    /\ ~ready
    /\ rxbuf' = Append(rxbuf, k)
    /\ tim7' = TRUE
    /\ UNCHANGED <<ready, devVars, stk, watch, incall, main, tries, lone, histVars, beyond>>

\* The bytes of message k. A message that finds the buffer full is cut off and
\* ends the batch; one that comes while a batch waits is dropped.
USART3IRQ(k) ==
    /\ ~ready
    /\ IF Len(rxbuf) < MaxRecv
       THEN rxbuf' = Append(rxbuf, k) /\ tim7' = TRUE /\ UNCHANGED ready
       ELSE ready' = TRUE /\ UNCHANGED <<rxbuf, tim7>>
    /\ UNCHANGED <<devVars, stk, watch, incall, main, tries, lone, histVars, beyond>>

\* 10 ms without a byte: the batch is complete, even if it was taken meanwhile
TIM7IRQ ==
    /\ tim7
    /\ tim7' = FALSE
    /\ ready' = TRUE
    /\ UNCHANGED <<rxbuf, devVars, stk, watch, incall, main, tries, lone, histVars, beyond>>

-----------------------------------------------------------------------------
(* gsm.c.                                                                   *)

ClearRx == rxbuf' = << >> /\ ready' = FALSE /\ UNCHANGED tim7

CheckCmd(k) == ready /\ k \in ToSet(rxbuf)

\* gsm_check_cmd ends what was received with a 0, one behind the buffer if it is full
Terminates == beyond' = (beyond \/ (ready /\ Len(rxbuf) = MaxRecv))

SendCmd == ClearRx /\ cmdon' = 1

CmdOver == ClearRx /\ cmdon' = 0

\* The wait in gsm_send_cmd ends with an answer or, at any time, without one;
\* it returns 0 when CheckCmd("OK"), where "OK" is the answer hoped for.

\* phone_incall_task_creat: nothing if a stack is held, no task without memory
\* for one; OSTaskCreate refuses a priority in use. Its result is not looked at.
IncallCreat ==
    \/ /\ stk
       /\ missed' = (incall \in {"free", "kill"})
       /\ UNCHANGED <<stk, incall, leaked>>
    \/ /\ ~stk
       /\ missed' = TRUE
       /\ UNCHANGED <<stk, incall, leaked>>
    \/ /\ ~stk
       /\ incall = "none"
       /\ stk' = TRUE
       /\ incall' = "start"
       /\ missed' = FALSE
       /\ UNCHANGED leaked
    \/ /\ ~stk
       /\ incall # "none"
       /\ stk' = TRUE
       /\ leaked' = TRUE
       /\ missed' = TRUE
       /\ UNCHANGED incall

\* what the tests for messages see of the buffer: the caller's number is cut
\* off with a 0, which hides all that follows
Shown(seen) == IF CheckCmd("CLIP")
               THEN "CLIP" \in ToSet(seen) /\ "CLIP" \notin ToSet(Front(seen))
               ELSE seen = rxbuf

CmsginCheck ==
    /\ watch = "loop"
    /\ cmdon = 0
    /\ mode = 0
    /\ ready
    /\ IF CheckCmd("CLIP") THEN mode' = 3 /\ IncallCreat
                           ELSE UNCHANGED <<mode, stk, incall, missed, leaked>>
    /\ \E seen \in Prefixes(rxbuf):
          /\ Shown(seen)
          /\ \/ /\ "CMGS" \in ToSet(seen)
                /\ watch' = "remind sent"
                /\ rxbuf' = seen
                /\ UNCHANGED <<ready, tim7>>
             \/ /\ "CMGS" \notin ToSet(seen)
                /\ "CMTI" \in ToSet(seen)
                /\ watch' = "remind new"
                /\ rxbuf' = seen
                /\ UNCHANGED <<ready, tim7>>
             \/ /\ {"CMGS", "CMTI"} \cap ToSet(seen) = {}
                /\ ClearRx
                /\ UNCHANGED watch
    /\ Terminates
    /\ UNCHANGED <<cmdon, status, main, tries, lone, left>>

\* sms_remind_msg has beeped for over a second; other tasks used the link
Reminded ==
    /\ watch \in Reminds
    /\ IF watch = "remind sent" /\ CheckCmd("CMTI")
       THEN watch' = "remind new" /\ UNCHANGED rxVars
       ELSE watch' = "loop" /\ ClearRx
    /\ IF watch = "remind sent" THEN Terminates ELSE UNCHANGED beyond
    /\ UNCHANGED <<devVars, stk, incall, main, tries, lone, histVars>>

\* Mutant: a query is sent although a command is under way.
StatusCheckAlways ==
    /\ watch = "loop"
    /\ mode = 0
    /\ rxbuf = << >> /\ ~ready
    /\ SendCmd
    /\ watch' = "CSQ"
    /\ UNCHANGED <<mode, status, stk, incall, main, tries, lone, histVars, beyond>>

StatusCheck ==
    /\ watch = "loop"
    /\ cmdon = 0
    /\ mode = 0
    /\ rxbuf = << >> /\ ~ready
    /\ SendCmd
    /\ watch' = "CSQ"
    /\ UNCHANGED <<mode, status, stk, incall, main, tries, lone, histVars, beyond>>

\* status after the answer to query q
StatusAfter(q, ok) ==
    CASE q = "CSQ"  -> IF ok THEN status \cup {"found"} ELSE {}
      [] q = "CPIN" -> IF ok THEN status \cup {"sim"} ELSE status \ {"sim"}
      [] q = "COPS" -> IF ok THEN status \cup {"name"} ELSE status \ {"name"}
      [] OTHER      -> status

\* the query that follows q, or "loop"
QueryAfter(q, st) ==
    CASE q = "CSQ" /\ st = {"found"}                        -> "ATE0"
      [] q = "ATE0"                                         -> "CPIN"
      [] q \in {"CSQ", "CPIN"} /\ st = {"found", "sim"}     -> "COPS"
      [] q = "COPS" /\ "name" \in st                        -> Setup[1]
      [] \E i \in 1..4: q = Setup[i] -> Setup[1 + CHOOSE i \in 1..4: q = Setup[i]]
      [] OTHER                                              -> "loop"

\* ok, but the name of the operator may be unknown
StatusAnswer ==
    /\ watch \in Queries
    /\ \E ok \in {FALSE, CheckCmd("OK")}:
          /\ ok \/ watch = "COPS" \/ ~CheckCmd("OK")
          /\ status' = StatusAfter(watch, ok)
    /\ watch' = QueryAfter(watch, status')
    /\ IF watch' = "loop" THEN CmdOver ELSE SendCmd
    /\ Terminates
    /\ UNCHANGED <<mode, stk, incall, main, tries, lone, histVars>>

WatchTask == CmsginCheck \/ Reminded \/ StatusCheck \/ StatusAnswer

-----------------------------------------------------------------------------
(* The in-call task.                                                        *)

\* t sends a command
TaskSend(t) ==
    /\ SendCmd
    /\ lone' = IF watch = "loop" THEN lone \cup {t} ELSE lone \ {t}
    /\ UNCHANGED <<mode, status, watch>>

IncallStart ==
    /\ incall = "start"
    /\ incall' \in {"loop", "end"}
    /\ UNCHANGED <<rxVars, devVars, stk, watch, main, tries, lone, histVars, beyond>>

\* a turn of its loop that finds a message
IncallMessage ==
    /\ incall = "loop"
    /\ mode # 0
    /\ ready
    /\ mode' = IF CheckCmd("NO CARRIER") THEN 0 ELSE mode
    /\ ClearRx
    /\ Terminates
    /\ UNCHANGED <<cmdon, status, stk, watch, incall, main, tries, lone, histVars>>

\* the button that takes the call, or ends it
IncallAnswer ==
    /\ incall = "loop"
    /\ mode = 3
    /\ mode' = 2
    /\ incall' = "ATA"
    /\ SendCmd
    /\ lone' = IF watch = "loop" THEN lone \cup {"incall"} ELSE lone \ {"incall"}
    /\ UNCHANGED <<status, stk, watch, main, tries, histVars, beyond>>

IncallHangUp ==
    /\ incall = "loop"
    /\ mode = 2
    /\ mode' = 0
    /\ ClearRx
    /\ UNCHANGED <<cmdon, status, stk, watch, incall, main, tries, lone, histVars, beyond>>

IncallAnswered ==
    /\ incall = "ATA"
    /\ CmdOver
    /\ incall' = "loop"
    /\ Terminates
    /\ UNCHANGED <<mode, status, stk, watch, main, tries, lone, histVars>>

\* the button that refuses the call; TPAD; or the call is over
IncallRefuse ==
    /\ incall = "loop"
    /\ mode = 3
    /\ mode' = 0
    /\ UNCHANGED <<rxVars, cmdon, status, stk, watch, incall, main, tries, lone, histVars, beyond>>

IncallBreak ==
    /\ incall = "loop"
    /\ incall' = "hang"
    /\ UNCHANGED <<rxVars, devVars, stk, watch, main, tries, lone, histVars, beyond>>

IncallATH ==
    /\ incall = "hang"
    /\ incall' = "ATH"
    /\ TaskSend("incall")
    /\ UNCHANGED <<stk, main, tries, histVars, beyond>>

IncallOver ==
    /\ incall = "ATH"
    /\ CmdOver
    /\ incall' = "end"
    /\ Terminates
    /\ UNCHANGED <<mode, status, stk, watch, main, tries, lone, histVars>>

\* Mutant: the task goes without leaving the call.
IncallEndKeepsMode ==
    /\ incall = "end"
    /\ incall' = "free"
    /\ UNCHANGED <<rxVars, devVars, stk, watch, main, tries, lone, histVars, beyond>>

IncallEnd ==
    /\ incall = "end"
    /\ mode' = 0
    /\ incall' = "free"
    /\ UNCHANGED <<rxVars, cmdon, status, stk, watch, main, tries, lone, histVars, beyond>>

\* Mutant: the pointer to the stack that was freed is kept.
IncallFreeKeepsStk ==
    /\ incall = "free"
    /\ incall' = "kill"
    /\ UNCHANGED <<rxVars, devVars, stk, watch, main, tries, lone, histVars, beyond>>

IncallFree ==
    /\ incall = "free"
    /\ stk' = FALSE
    /\ incall' = "kill"
    /\ UNCHANGED <<rxVars, devVars, watch, main, tries, lone, histVars, beyond>>

IncallDel ==
    /\ incall = "kill"
    /\ incall' = "none"
    /\ lone' = lone \ {"incall"}
    /\ UNCHANGED <<rxVars, devVars, stk, watch, main, tries, histVars, beyond>>

IncallCode == \/ IncallStart \/ IncallMessage \/ IncallAnswered
              \/ IncallBreak /\ mode = 0
              \/ IncallATH \/ IncallOver \/ IncallEnd \/ IncallFree \/ IncallDel

IncallUser == IncallAnswer \/ IncallHangUp \/ IncallRefuse \/ IncallBreak

-----------------------------------------------------------------------------
(* main_task.                                                               *)

MainRuns == incall = "none"

PhonePlay ==
    /\ MainRuns
    /\ main = "home"
    /\ main' = "phone"
    /\ mode' = 0
    /\ left' = FALSE
    /\ UNCHANGED <<rxVars, cmdon, status, stk, watch, incall, tries, lone, missed, leaked, beyond>>

Dial ==
    /\ MainRuns
    /\ main = "phone"
    /\ mode = 0
    /\ {"found", "sim"} \subseteq status
    /\ mode' = 1
    /\ UNCHANGED <<rxVars, cmdon, status, stk, watch, incall, main, tries, lone, histVars, beyond>>

\* Mutant: the batch is looked at and left there.
PhoneMessageLooks ==
    /\ MainRuns
    /\ main = "phone"
    /\ ready
    /\ mode \in {1, 2}
    /\ mode' = IF CheckCmd("NO CARRIER") THEN 0
               ELSE IF CheckCmd("COLP") THEN 2 ELSE mode
    /\ Terminates
    /\ UNCHANGED <<rxVars, cmdon, status, stk, watch, incall, main, tries, lone, histVars>>

PhoneMessage ==
    /\ MainRuns
    /\ main = "phone"
    /\ ready
    /\ mode \in {1, 2}
    /\ mode' = IF CheckCmd("NO CARRIER") THEN 0
               ELSE IF CheckCmd("COLP") THEN 2 ELSE mode
    /\ CmdOver
    /\ Terminates
    /\ UNCHANGED <<status, stk, watch, incall, main, tries, lone, histVars>>

HangUp ==
    /\ MainRuns
    /\ main = "phone"
    /\ mode # 0
    /\ mode' = 0
    /\ main' = "hang"
    /\ UNCHANGED <<rxVars, cmdon, status, stk, watch, incall, tries, lone, histVars, beyond>>

HangUpATH ==
    /\ MainRuns
    /\ main = "hang"
    /\ main' = "ATH"
    /\ TaskSend("main")
    /\ UNCHANGED <<stk, incall, tries, histVars, beyond>>

\* TPAD leaves phone_play; a call is hung up, and the mode stays
PhoneLeave ==
    /\ MainRuns
    /\ main = "phone"
    /\ \/ /\ mode = 0
          /\ main' = "home"
          /\ UNCHANGED <<rxVars, devVars, watch, lone>>
       \/ /\ mode # 0
          /\ main' = "leave ATH"
          /\ TaskSend("main")
    /\ left' = (mode # 0)
    /\ UNCHANGED <<stk, incall, tries, missed, leaked, beyond>>

PhoneOver ==
    /\ MainRuns
    /\ main \in {"ATH", "leave ATH"}
    /\ CmdOver
    /\ main' = IF main = "ATH" THEN "phone" ELSE "home"
    /\ lone' = lone \ {"main"}
    /\ Terminates
    /\ UNCHANGED <<mode, status, stk, watch, incall, tries, histVars>>

\* smsplay.c: commands, or tries of one, up to gsm_cmd_over
SmsSend ==
    /\ MainRuns
    /\ main = "home"
    /\ main' = "sms"
    /\ tries' \in 1..Tries
    /\ TaskSend("main")
    /\ UNCHANGED <<stk, incall, histVars, beyond>>

\* another try, or the next command before gsm_cmd_over
SmsAgain ==
    /\ MainRuns
    /\ main = "sms"
    /\ tries > 1
    /\ tries' = tries - 1
    /\ TaskSend("main")
    /\ Terminates
    /\ UNCHANGED <<stk, incall, main, histVars>>

\* Mutant: gsm_cmd_over is not called when every try failed.
SmsOverIfOK ==
    /\ MainRuns
    /\ main = "sms"
    /\ CheckCmd("OK") \/ tries = 1
    /\ IF CheckCmd("OK") THEN CmdOver ELSE UNCHANGED <<rxVars, cmdon>>
    /\ main' = "home"
    /\ tries' = 0
    /\ lone' = lone \ {"main"}
    /\ Terminates
    /\ UNCHANGED <<mode, status, stk, watch, incall, histVars>>

SmsOver ==
    /\ MainRuns
    /\ main = "sms"
    /\ CheckCmd("OK") \/ tries = 1
    /\ CmdOver
    /\ main' = "home"
    /\ tries' = 0
    /\ lone' = lone \ {"main"}
    /\ Terminates
    /\ UNCHANGED <<mode, status, stk, watch, incall, histVars>>

MainCode == PhoneMessage \/ HangUpATH \/ PhoneOver \/ SmsAgain \/ SmsOver
MainUser == PhonePlay \/ Dial \/ HangUp \/ PhoneLeave \/ SmsSend

-----------------------------------------------------------------------------
Next ==
    \/ \E k \in Kinds: USART3IRQ(k)
    \/ TIM7IRQ \/ WatchTask \/ IncallCode \/ IncallUser \/ MainCode \/ MainUser

\* The tasks run (none of them waits for more than a time) and TIM7 expires.
\* Calls, messages and buttons come or do not.
Fairness ==
    /\ WF_vars(TIM7IRQ)
    /\ WF_vars(WatchTask)
    /\ WF_vars(IncallCode)
    /\ WF_vars(MainCode)

Spec == Init /\ [][Next]_vars /\ Fairness

-----------------------------------------------------------------------------
InCommand(t) == \/ t = "main" /\ main \in {"ATH", "leave ATH", "sms"}
                \/ t = "incall" /\ incall \in {"ATA", "ATH"}

(* The flag that keeps watch_task away is not left set: some task is        *)
(* between gsm_send_cmd and gsm_cmd_over (gsm.c:53, 79), whoever overlaps.  *)
NoStuckCmd == cmdon = 1 => watch \in Queries \/ \E t \in {"main", "incall"}: InCommand(t)

(* What comes in while a task waits for its answer stays until that task    *)
(* takes it, if watch_task was in its loop when the command went out        *)
(* (gsm.c:154, 195).                                                        *)
Kept(t) == (InCommand(t) /\ t \in lone /\ <<main, incall, tries>>' = <<main, incall, tries>>)
               => IsPrefix(rxbuf, rxbuf') /\ (ready => ready')
AnswerKept == [][\A t \in {"main", "incall"}: Kept(t)]_vars

(* A call that rings has its in-call task, but for a ring that found no      *)
(* memory or that task on its way out, and the rings after a stack was       *)
(* leaked: nobody comes between a call and the end of the one before it      *)
(* otherwise (gsm.c:165-166, phoneplay.c:483-508).                           *)
RingServed == mode = 3 => incall # "none" \/ missed \/ leaked

(* Modes 1 and 2, dialling and in a call (gsm.h:28-31), are those of the    *)
(* phone application or of the in-call task, unless phone_play was left in  *)
(* the middle of a call: no call ends in one of them otherwise.             *)
ModeTrue == mode \in {1, 2} => main \in {"phone", "leave ATH"} \/ incall # "none" \/ left

(* Nobody looks at what comes in: a call rings without its task, or          *)
(* phone_play was left in the middle of one (gsm.c:154).                     *)
Unheard == incall = "none" /\ (mode = 3 \/ (mode # 0 /\ main = "home"))

(* A batch that waits is taken by some task: the link is deaf only while    *)
(* Unheard (gsm.c:150-190, phoneplay.c:360-366, 684-708).                   *)
LinkFree == ready ~> (~ready \/ Unheard)

=============================================================================
