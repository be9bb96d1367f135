---------------------------- MODULE SwapCallProofs ----------------------------
(***************************************************************************)
(* Proofs about SwapCall: its type, that a call is one swap to its caller  *)
(* (OneSwap), sends at most one unlimited approval, waits for its approval *)
(* as long as it says, and leaves a book that follows the chain as far as  *)
(* a hash tells; for all numbers of retries and all delays.                *)
(***************************************************************************)
EXTENDS SwapCall, TLAPS

-----------------------------------------------------------------------------
(* The inductive invariant.                                                *)

Loop    == {"run", "decide", "approve", "sleep"}
Reading == {"read", "join"}

GoodAllowance(a) ==
    /\ a \in [state : {"none", "sent", "granted"}, left : 0 .. MaxMining]
    /\ a.state = "sent" <=> a.left > 0

(* Before a run is answered nothing is broadcast, reported or read.        *)
Unanswered ==
    /\ pc \in {"check"} \cup Loop => sent = 0 /\ report = "none" /\ answer = "none"
    /\ pc \in Loop => mode = "live"

(* From the swap to the report, from the report to the balance.            *)
Answered ==
    /\ pc = "floor" => sent = 1 /\ report = "none" /\ answer \in Payloads \cup {"paper"}
    /\ pc \in Reading => /\ sent = 1 /\ report = "returned" /\ side = "sell"
                         /\ answer \in {"full", "hash", "paper"}
    /\ pc \in {"floor"} \cup Reading => (answer = "paper" <=> mode = "paper")

Reported ==
    /\ sent \in {0, 1} /\ (sent = 0 <=> fate = "none")
    /\ pc = "over" => report # "none"
    /\ pc = "idle" => report # "none" \/ sent = 0

(* The attempts to read the balance are counted in a sale's reading only.  *)
ReadsCounted == pc \notin {"idle", "over"} => reads <= ReadRetries

(* The side of the call is the one the book asked for.                     *)
SideFollowsBook == pc \notin {"idle", "over"} => held = (side = "sell")

(* The unlimited approval goes with the flag that forbids a second one,    *)
(* except that of an approval that failed, which ends the call.            *)
ApprovalsCounted ==
    /\ hist.unlimited \in {0, 1}
    /\ hist.unlimited > 0 => RetryMax > 0
    /\ pc \in {"check"} \cup Loop => (explicit <=> hist.unlimited = 1)
    /\ pc = "check" => tries = 0 /\ ~explicit /\ hist = NoHistory
    /\ pc = "approve" => ~explicit
    /\ pc \in {"approve", "sleep"} => tries > 0

(* The delays slept in the call.                                           *)
Slept == IF pc \in {"approve", "sleep"} THEN tries - 1 ELSE tries

(* The approval a first run led to is mined, or has been under way for as  *)
(* many delays as the call has slept.                                      *)
ApprovalAges ==
    /\ pc \in Loop /\ hist.takes > 0 =>
           \/ allowance.state = "granted"
           \/ allowance.state = "sent" /\ allowance.left = hist.takes - Slept
    /\ pc = "decide" /\ hist.takes > 0 => hist.takes > tries
    /\ pc = "decide" /\ tries = 0 /\ failure = "bare" => hist.takes = 0
    /\ pc = "run" /\ tries = 0 => hist.takes = 0
    /\ pc = "approve" /\ tries = 1 => hist.takes = 0

CallInv   == Unanswered /\ Answered /\ Reported /\ ReadsCounted /\ SideFollowsBook
TypeInv   == TypeOK /\ GoodAllowance(allowance)
(* Of a live call that is over, whatever the chain has yet to decide: the  *)
(* book has changed on a hash only, and not without a broadcast; if it has *)
(* not, the broadcast went unnoticed for one of the reasons named.         *)
BookInv ==
    pc = "over" /\ mode = "live" =>
        LET changed == held = (side = "buy")
        IN  /\ fate = "none" => ~changed
            /\ changed => answer \in {"full", "hash"}
            /\ ~changed /\ fate # "none" =>
                   \/ answer \in {"timeout", "failed", "floor", "text"}
                   \/ answer = "hash" /\ side = "buy"
                   \/ reads > ReadRetries

AskingInv == ApprovalsCounted /\ ApprovalAges /\ PatientWithApprovals

USE DEF env, loop, swap, Fails, Broadcast, MaybeBroadcast, NoHistory, Payloads

(* Every value the allowance is set to is a good one.                      *)
LEMMA GoodAllowances ==
    /\ GoodAllowance(NoApproval) /\ GoodAllowance(Granted)
    /\ \A n \in 0 .. MaxMining : GoodAllowance(Sent(n))
BY SwapCallAssumption DEF GoodAllowance, NoApproval, Granted, Sent

(* An approval is sent only where there is none; its delays are left.      *)
LEMMA ApproveSends ==
    ASSUME TypeInv, Approve
    PROVE  /\ GoodAllowance(allowance') /\ allowance'.left \in 0 .. MaxMining
           /\ allowance.state = "none" => allowance'.state = "sent" /\ allowance'.left > 0
           /\ allowance.state # "none" => allowance' = allowance
BY SwapCallAssumption DEF TypeInv, TypeOK, Approve, GoodAllowance, Sent, Granted

(* The history of a call, edited field by field, keeps its type.           *)
LEMMA HistoryEdited ==
    ASSUME NEW u \in 0 .. RetryMax, NEW t \in 0 .. MaxMining,
           hist \in [unlimited : 0 .. RetryMax, takes : 0 .. MaxMining]
    PROVE  [[hist EXCEPT !.unlimited = u] EXCEPT !.takes = t]
             \in [unlimited : 0 .. RetryMax, takes : 0 .. MaxMining]
<1>1. [hist EXCEPT !.unlimited = u] \in [unlimited : 0 .. RetryMax, takes : 0 .. MaxMining]
  OBVIOUS
<1> QED
  BY <1>1

-----------------------------------------------------------------------------
(* Types.  AskingInv bounds the approvals and the delays that are counted. *)
LEMMA TypeStep == TypeInv /\ CallInv /\ AskingInv /\ [Next]_vars => TypeInv'
<1> SUFFICES ASSUME TypeInv, CallInv, AskingInv, [Next]_vars PROVE TypeInv'
  OBVIOUS
<1> USE DEF TypeInv, TypeOK, GoodAllowance
<1>1. CASE Begin
  <2>1. calls' \in 0 .. MaxCalls
    BY <1>1, SwapCallAssumption DEF Begin
  <2>2. reads' \in 0 .. ReadRetries + 1 /\ tries' \in 0 .. RetryMax
    BY <1>1, SwapCallAssumption DEF Begin
  <2>3. hist' \in [unlimited : 0 .. RetryMax, takes : 0 .. MaxMining]
    BY <1>1, SwapCallAssumption DEF Begin
  <2> QED
    BY <1>1, <2>1, <2>2, <2>3 DEF Begin
<1>2. CASE Rejected
  BY <1>2, SwapCallAssumption DEF Rejected
<1>3. CASE PaperFill
  BY <1>3, SwapCallAssumption DEF PaperFill
<1>4. CASE Run
  BY <1>4, SwapCallAssumption DEF Run
<1>5. CASE RunSwaps
  <2>1. GoodAllowance(allowance')
    BY <1>5, GoodAllowances DEF RunSwaps
  <2>2. sent' \in Nat /\ fate' = "pending"
    BY <1>5 DEF RunSwaps
  <2> QED
    BY <1>5, <2>1, <2>2 DEF RunSwaps
<1>6. CASE RunLacksAllowance
  BY <1>6, SwapCallAssumption, ApproveSends DEF RunLacksAllowance, TookSince
<1>7. CASE RunFails
  BY <1>7, SwapCallAssumption DEF RunFails
<1>8. CASE RunTimesOut
  BY <1>8, SwapCallAssumption DEF RunTimesOut
<1>9. CASE GiveUp
  BY <1>9, SwapCallAssumption DEF GiveUp, RetriesSpent
<1>10. CASE Retry
  BY <1>10, SwapCallAssumption DEF Retry, RetriesSpent, Approves
<1>11. CASE ApproveSpender
  <2>1. GoodAllowance(allowance')
    BY <1>11, ApproveSends DEF ApproveSpender
  <2>2. hist.unlimited = 0 /\ RetryMax > 0
    BY <1>11, SwapCallAssumption DEF ApproveSpender, AskingInv, ApprovalsCounted, Loop
  <2>3. TookSince(tries = 1) \in 0 .. MaxMining
    BY <2>1 DEF TookSince
  <2>4. hist.unlimited + 1 \in 0 .. RetryMax
    BY <2>2, SwapCallAssumption
  <2>5. hist' \in [unlimited : 0 .. RetryMax, takes : 0 .. MaxMining]
    BY <1>11, <2>3, <2>4, HistoryEdited DEF ApproveSpender
  <2> QED
    BY <1>11, <2>1, <2>5 DEF ApproveSpender
<1>12. CASE ApprovalFails
  <2>1. GoodAllowance(allowance')
    BY <1>12, ApproveSends DEF ApprovalFails
  <2>2. hist.unlimited = 0 /\ RetryMax > 0
    BY <1>12, SwapCallAssumption DEF ApprovalFails, AskingInv, ApprovalsCounted, Loop
  <2>3. hist' \in [unlimited : 0 .. RetryMax, takes : 0 .. MaxMining]
    BY <1>12, <2>2, SwapCallAssumption DEF ApprovalFails
  <2> QED
    BY <1>12, <2>1, <2>3 DEF ApprovalFails
<1>13. CASE Sleep
  <2>1. allowance.state = "sent" => allowance.left - 1 \in 0 .. MaxMining
    BY SwapCallAssumption
  <2>2. GoodAllowance(allowance')
    BY <1>13, <2>1, GoodAllowances DEF Sleep
  <2> QED
    BY <1>13, <2>2 DEF Sleep
<1>14. CASE FloorRaises
  BY <1>14, SwapCallAssumption DEF FloorRaises, BelowFloor
<1>15. CASE FinishEntry
  BY <1>15, SwapCallAssumption DEF FinishEntry, SwapReturns, EntryConfirmed, NamesAmount,
     PaperProof, BelowFloor
<1>16. CASE AskBalance
  BY <1>16, SwapCallAssumption DEF AskBalance, SwapReturns, BelowFloor
<1>17. CASE ReadAnswers
  BY <1>17, SwapCallAssumption DEF ReadAnswers, ExitConfirmed
<1>18. CASE ReadRaises
  <2>1. reads' \in 0 .. ReadRetries + 1
    BY <1>18, SwapCallAssumption DEF ReadRaises, AttemptOver, CallInv, ReadsCounted
  <2> QED
    BY <1>18, <2>1 DEF ReadRaises, AttemptOver
<1>19. CASE ReadTimesOut
  BY <1>19, SwapCallAssumption DEF ReadTimesOut
<1>20. CASE NextCycle
  BY <1>20, SwapCallAssumption DEF NextCycle
<1>21. CASE WorkerEnds
  <2>1. reads' \in 0 .. ReadRetries + 1
    BY <1>21, SwapCallAssumption DEF WorkerEnds, AttemptOver, CallInv, ReadsCounted
  <2> QED
    BY <1>21, <2>1 DEF WorkerEnds, AttemptOver
<1>22. CASE ApprovalMined
  <2>1. GoodAllowance(allowance')
    BY <1>22, GoodAllowances DEF ApprovalMined
  <2> QED
    BY <1>22, <2>1 DEF ApprovalMined
<1>23. CASE ChainSettles
  BY <1>23, SwapCallAssumption DEF ChainSettles
<1>24. CASE UNCHANGED vars
  BY <1>24 DEF vars
<1> QED
  BY <1>1, <1>2, <1>3, <1>4, <1>5, <1>6, <1>7, <1>8, <1>9, <1>10, <1>11, <1>12, <1>13, <1>14,
     <1>15, <1>16, <1>17, <1>18, <1>19, <1>20, <1>21, <1>22, <1>23, <1>24 DEF Next, Agent

-----------------------------------------------------------------------------
(* The stages of a call.                                                   *)
LEMMA CallStep == TypeInv /\ CallInv /\ [Next]_vars => CallInv'
<1> SUFFICES ASSUME TypeInv, CallInv, [Next]_vars PROVE CallInv'
  OBVIOUS
<1> USE DEF CallInv, Unanswered, Answered, Reported, ReadsCounted, SideFollowsBook, Loop,
   Reading, TypeInv, TypeOK
<1>1. CASE Begin
  BY <1>1, SwapCallAssumption DEF Begin
<1>2. CASE Rejected
  BY <1>2, SwapCallAssumption DEF Rejected
<1>3. CASE PaperFill
  BY <1>3, SwapCallAssumption DEF PaperFill
<1>4. CASE Run
  BY <1>4, SwapCallAssumption DEF Run
<1>5. CASE RunSwaps
  BY <1>5, SwapCallAssumption DEF RunSwaps
<1>6. CASE RunLacksAllowance
  BY <1>6, SwapCallAssumption DEF RunLacksAllowance, TookSince
<1>7. CASE RunFails
  BY <1>7, SwapCallAssumption DEF RunFails
<1>8. CASE RunTimesOut
  BY <1>8, SwapCallAssumption DEF RunTimesOut
<1>9. CASE GiveUp
  BY <1>9, SwapCallAssumption DEF GiveUp, RetriesSpent
<1>10. CASE Retry
  BY <1>10, SwapCallAssumption DEF Retry, RetriesSpent, Approves
<1>11. CASE ApproveSpender
  BY <1>11, SwapCallAssumption DEF ApproveSpender, TookSince
<1>12. CASE ApprovalFails
  BY <1>12, SwapCallAssumption DEF ApprovalFails
<1>13. CASE Sleep
  BY <1>13, SwapCallAssumption DEF Sleep
<1>14. CASE FloorRaises
  BY <1>14, SwapCallAssumption DEF FloorRaises, BelowFloor
<1>15. CASE FinishEntry
  BY <1>15, SwapCallAssumption DEF FinishEntry, SwapReturns, EntryConfirmed, NamesAmount,
     PaperProof, BelowFloor
<1>16. CASE AskBalance
  BY <1>16, SwapCallAssumption DEF AskBalance, SwapReturns, BelowFloor
<1>17. CASE ReadAnswers
  BY <1>17, SwapCallAssumption DEF ReadAnswers, ExitConfirmed
<1>18. CASE ReadRaises
  BY <1>18, SwapCallAssumption DEF ReadRaises, AttemptOver
<1>19. CASE ReadTimesOut
  BY <1>19, SwapCallAssumption DEF ReadTimesOut
<1>20. CASE NextCycle
  BY <1>20, SwapCallAssumption DEF NextCycle
<1>21. CASE WorkerEnds
  BY <1>21, SwapCallAssumption DEF WorkerEnds, AttemptOver
<1>22. CASE ApprovalMined
  BY <1>22, SwapCallAssumption DEF ApprovalMined
<1>23. CASE ChainSettles
  BY <1>23, SwapCallAssumption DEF ChainSettles
<1>24. CASE UNCHANGED vars
  BY <1>24 DEF vars
<1> QED
  BY <1>1, <1>2, <1>3, <1>4, <1>5, <1>6, <1>7, <1>8, <1>9, <1>10, <1>11, <1>12, <1>13, <1>14,
     <1>15, <1>16, <1>17, <1>18, <1>19, <1>20, <1>21, <1>22, <1>23, <1>24 DEF Next, Agent

-----------------------------------------------------------------------------
(* The approvals of a call and the delays it has slept.                    *)
LEMMA AskingStep == TypeInv /\ CallInv /\ AskingInv /\ [Next]_vars => AskingInv'
<1> SUFFICES ASSUME TypeInv, CallInv, AskingInv, [Next]_vars PROVE AskingInv'
  OBVIOUS
<1>a. /\ tries \in 0 .. RetryMax /\ hist.takes \in Nat /\ RetryMax \in Nat
      /\ allowance.left \in Nat /\ (allowance.state = "sent" => allowance.left > 0)
      /\ explicit \in BOOLEAN
      /\ pc \in Loop => answer = "none"
  BY SwapCallAssumption DEF TypeInv, TypeOK, GoodAllowance, CallInv, Unanswered
<1> USE DEF AskingInv, ApprovalsCounted, ApprovalAges, PatientWithApprovals, Slept, Loop,
   TypeInv, TypeOK
<1>1. CASE Begin
  BY <1>1, SwapCallAssumption DEF Begin
<1>2. CASE Rejected
  BY <1>2, SwapCallAssumption DEF Rejected
<1>3. CASE PaperFill
  BY <1>3, SwapCallAssumption DEF PaperFill
<1>4. CASE Run
  BY <1>4, SwapCallAssumption DEF Run
<1>5. CASE RunSwaps
  <2>1. pc' = "floor" /\ hist' = hist /\ answer' # "allowance"
    BY <1>5 DEF RunSwaps
  <2> QED
    BY <2>1
<1>6. CASE RunLacksAllowance
  <2>1. pc = "run" /\ pc' = "decide" /\ allowance.state # "granted"
    BY <1>6 DEF RunLacksAllowance
  <2>2. CASE failure' = "race" /\ Approve /\ hist' = [hist EXCEPT !.takes = TookSince(tries = 0)]
    <3>1. hist'.unlimited = hist.unlimited /\ hist'.takes = TookSince(tries = 0)
      BY <2>2
    <3>2. CASE allowance.state = "none"
      <4>1. hist.takes = 0
        BY <2>1, <3>2
      <4>2. allowance'.state = "sent" /\ allowance'.left > 0 /\ allowance'.left \in Nat
        BY <2>2, <3>2, ApproveSends
      <4>3. hist'.takes = IF tries = 0 THEN allowance'.left ELSE 0
        BY <3>1, <3>2, <4>1 DEF TookSince
      <4>4. UNCHANGED <<tries, explicit, answer>>
        BY <1>6 DEF RunLacksAllowance
      <4> HIDE DEF TypeInv, TypeOK
      <4> QED
        BY <1>a, <2>1, <2>2, <3>1, <4>1, <4>2, <4>3, <4>4
    <3>3. CASE allowance.state # "none"
      <4>1. allowance' = allowance /\ hist'.takes = hist.takes
        BY <2>2, <3>1, <3>3, ApproveSends DEF TookSince
      <4>2. allowance.state = "sent" /\ UNCHANGED <<tries, explicit, answer>>
        BY <1>6, <2>1, <3>3 DEF RunLacksAllowance
      <4>3. hist.takes > 0 => hist.takes > tries
        BY <1>a, <2>1, <4>2
      <4> HIDE DEF TypeInv, TypeOK
      <4> QED
        BY <1>a, <2>1, <2>2, <3>1, <4>1, <4>2, <4>3
    <3> QED
      BY <3>2, <3>3
  <2>3. CASE failure' = "bare" /\ UNCHANGED <<allowance, hist>>
    <3>1. UNCHANGED <<tries, explicit, answer, allowance, hist>>
      BY <1>6, <2>3 DEF RunLacksAllowance
    <3>2. allowance.state \in {"none", "sent"}
      BY <2>1
    <3>3. hist.takes > 0 => hist.takes > tries
      BY <1>a, <2>1, <3>2
    <3> HIDE DEF TypeInv, TypeOK
    <3> QED
      BY <1>a, <2>1, <2>3, <3>1, <3>2, <3>3
  <2> QED
    BY <1>6, <2>2, <2>3 DEF RunLacksAllowance
<1>7. CASE RunFails
  BY <1>7, SwapCallAssumption DEF RunFails
<1>8. CASE RunTimesOut
  BY <1>8, SwapCallAssumption DEF RunTimesOut
<1>9. CASE GiveUp
  BY <1>9, SwapCallAssumption DEF GiveUp, RetriesSpent
<1>10. CASE Retry
  BY <1>10, SwapCallAssumption DEF Retry, RetriesSpent, Approves
<1>11. CASE ApproveSpender
  <2>1. hist.unlimited = 0 /\ RetryMax > 0 /\ ~explicit
    BY <1>11, SwapCallAssumption DEF ApproveSpender
  <2>2. hist'.unlimited = 1 /\ hist'.takes = (IF right THEN TookSince(tries = 1) ELSE hist.takes)
    BY <1>11, <2>1 DEF ApproveSpender
  <2>3. \/ allowance' = allowance /\ hist'.takes = hist.takes
        \/ /\ allowance.state = "none" /\ hist.takes = 0
           /\ allowance'.state = "sent" /\ allowance'.left \in Nat
           /\ hist'.takes = IF tries = 1 THEN allowance'.left ELSE 0
    <3>1. CASE right /\ allowance.state = "none"
      BY <1>11, <2>2, <3>1, ApproveSends DEF ApproveSpender, TookSince
    <3>2. CASE ~(right /\ allowance.state = "none")
      BY <1>11, <2>2, <3>2, ApproveSends DEF ApproveSpender, TookSince
    <3> QED
      BY <3>1, <3>2
  <2>4. pc = "approve" /\ pc' = "sleep" /\ explicit' = TRUE /\ UNCHANGED <<tries, answer>>
    BY <1>11 DEF ApproveSpender
  <2> HIDE DEF TypeInv, TypeOK
  <2> QED
    BY <1>a, <2>1, <2>2, <2>3, <2>4
<1>12. CASE ApprovalFails
  BY <1>12, SwapCallAssumption, ApproveSends DEF ApprovalFails
<1>13. CASE Sleep
  <2>1. CASE allowance.state = "sent" /\ allowance.left = 1
    <3>1. allowance'.state = "granted"
      BY <1>13, <2>1 DEF Sleep, Sent, Granted
    <3> QED
      BY <1>13, <3>1 DEF Sleep
  <2>2. CASE allowance.state = "sent" /\ allowance.left # 1
    <3>1. allowance'.state = "sent" /\ allowance'.left = allowance.left - 1
      BY <1>13, <2>2 DEF Sleep, Sent
    <3> QED
      BY <1>13, <2>2, <3>1 DEF Sleep
  <2>3. CASE allowance.state # "sent"
    BY <1>13, <2>3 DEF Sleep
  <2> QED
    BY <2>1, <2>2, <2>3
<1>14. CASE FloorRaises
  BY <1>14, SwapCallAssumption DEF FloorRaises, BelowFloor
<1>15. CASE FinishEntry
  BY <1>15, SwapCallAssumption DEF FinishEntry, SwapReturns, EntryConfirmed, NamesAmount,
     PaperProof, BelowFloor
<1>16. CASE AskBalance
  BY <1>16, SwapCallAssumption DEF AskBalance, SwapReturns, BelowFloor
<1>17. CASE ReadAnswers
  BY <1>17, SwapCallAssumption DEF ReadAnswers, ExitConfirmed
<1>18. CASE ReadRaises
  BY <1>18, SwapCallAssumption DEF ReadRaises, AttemptOver
<1>19. CASE ReadTimesOut
  BY <1>19, SwapCallAssumption DEF ReadTimesOut
<1>20. CASE NextCycle
  BY <1>20, SwapCallAssumption DEF NextCycle
<1>21. CASE WorkerEnds
  BY <1>21, SwapCallAssumption DEF WorkerEnds, AttemptOver
<1>22. CASE ApprovalMined
  <2>1. allowance'.state = "granted"
    BY <1>22 DEF ApprovalMined, Granted
  <2> QED
    BY <1>22, <2>1 DEF ApprovalMined
<1>23. CASE ChainSettles
  BY <1>23, SwapCallAssumption DEF ChainSettles
<1>24. CASE UNCHANGED vars
  BY <1>24 DEF vars
<1> QED
  BY <1>1, <1>2, <1>3, <1>4, <1>5, <1>6, <1>7, <1>8, <1>9, <1>10, <1>11, <1>12, <1>13, <1>14,
     <1>15, <1>16, <1>17, <1>18, <1>19, <1>20, <1>21, <1>22, <1>23, <1>24 DEF Next, Agent

-----------------------------------------------------------------------------
(* The book and what was broadcast.                                        *)
LEMMA BookStep == TypeInv /\ CallInv /\ BookInv /\ [Next]_vars => BookInv'
<1> SUFFICES ASSUME TypeInv, CallInv, BookInv, [Next]_vars PROVE BookInv'
  OBVIOUS
<1> USE DEF BookInv, CallInv, Unanswered, Answered, Reported, ReadsCounted,
   SideFollowsBook, Loop, Reading, TypeInv, TypeOK
<1>1. CASE Begin
  BY <1>1, SwapCallAssumption DEF Begin
<1>2. CASE Rejected
  BY <1>2, SwapCallAssumption DEF Rejected
<1>3. CASE PaperFill
  BY <1>3, SwapCallAssumption DEF PaperFill
<1>4. CASE Run
  BY <1>4, SwapCallAssumption DEF Run
<1>5. CASE RunSwaps
  BY <1>5, SwapCallAssumption DEF RunSwaps
<1>6. CASE RunLacksAllowance
  BY <1>6, SwapCallAssumption DEF RunLacksAllowance, TookSince
<1>7. CASE RunFails
  BY <1>7, SwapCallAssumption DEF RunFails
<1>8. CASE RunTimesOut
  BY <1>8, SwapCallAssumption DEF RunTimesOut
<1>9. CASE GiveUp
  BY <1>9, SwapCallAssumption DEF GiveUp, RetriesSpent
<1>10. CASE Retry
  BY <1>10, SwapCallAssumption DEF Retry, RetriesSpent, Approves
<1>11. CASE ApproveSpender
  BY <1>11, SwapCallAssumption DEF ApproveSpender, TookSince
<1>12. CASE ApprovalFails
  BY <1>12, SwapCallAssumption DEF ApprovalFails
<1>13. CASE Sleep
  BY <1>13, SwapCallAssumption DEF Sleep
<1>14. CASE FloorRaises
  BY <1>14, SwapCallAssumption DEF FloorRaises, BelowFloor
<1>15. CASE FinishEntry
  BY <1>15, SwapCallAssumption DEF FinishEntry, SwapReturns, EntryConfirmed, NamesAmount,
     PaperProof, BelowFloor
<1>16. CASE AskBalance
  BY <1>16, SwapCallAssumption DEF AskBalance, SwapReturns, BelowFloor
<1>17. CASE ReadAnswers
  BY <1>17, SwapCallAssumption DEF ReadAnswers, ExitConfirmed
<1>18. CASE ReadRaises
  BY <1>18, SwapCallAssumption DEF ReadRaises, AttemptOver
<1>19. CASE ReadTimesOut
  BY <1>19, SwapCallAssumption DEF ReadTimesOut
<1>20. CASE NextCycle
  BY <1>20, SwapCallAssumption DEF NextCycle
<1>21. CASE WorkerEnds
  BY <1>21, SwapCallAssumption DEF WorkerEnds, AttemptOver
<1>22. CASE ApprovalMined
  BY <1>22, SwapCallAssumption DEF ApprovalMined
<1>23. CASE ChainSettles
  BY <1>23, SwapCallAssumption DEF ChainSettles
<1>24. CASE UNCHANGED vars
  BY <1>24 DEF vars
<1> QED
  BY <1>1, <1>2, <1>3, <1>4, <1>5, <1>6, <1>7, <1>8, <1>9, <1>10, <1>11, <1>12, <1>13, <1>14,
     <1>15, <1>16, <1>17, <1>18, <1>19, <1>20, <1>21, <1>22, <1>23, <1>24 DEF Next, Agent

-----------------------------------------------------------------------------
(* The invariant holds.                                                    *)

SwapInv == TypeInv /\ CallInv /\ AskingInv /\ BookInv

LEMMA SwapInit == Init => SwapInv
<1> SUFFICES ASSUME Init PROVE SwapInv
  OBVIOUS
<1>1. TypeInv
  <2>1. GoodAllowance(allowance)
    BY GoodAllowances DEF Init
  <2>2. allowance \in [state : {"none", "sent", "granted"}, left : 0 .. MaxMining]
    BY <2>1 DEF GoodAllowance
  <2>3. reads \in 0 .. ReadRetries + 1 /\ tries \in 0 .. RetryMax /\ calls \in 0 .. MaxCalls
    BY SwapCallAssumption DEF Init
  <2>4. hist \in [unlimited : 0 .. RetryMax, takes : 0 .. MaxMining]
    BY SwapCallAssumption DEF Init
  <2> QED
    BY <2>1, <2>2, <2>3, <2>4 DEF Init, TypeInv, TypeOK
<1>2. CallInv
  BY SwapCallAssumption DEF Init, CallInv, Unanswered, Answered, Reported, ReadsCounted,
     SideFollowsBook, Loop, Reading
<1>3. AskingInv
  BY DEF Init, AskingInv, ApprovalsCounted, ApprovalAges, PatientWithApprovals, Loop
<1>4. BookInv
  BY DEF Init, BookInv
<1> QED
  BY <1>1, <1>2, <1>3, <1>4 DEF SwapInv

LEMMA SwapAlways == Spec => []SwapInv
<1>1. SwapInv /\ [Next]_vars => SwapInv'
  BY TypeStep, CallStep, AskingStep, BookStep DEF SwapInv
<1> QED
  BY SwapInit, <1>1, PTL DEF Spec

(* The call's place, counters, answer and allowance keep their types       *)
(* (PancakeSwapRouter and TWAKInterface), whatever the retries allowed.    *)
THEOREM TypeCorrect == Spec => []TypeOK
<1>1. SwapInv => TypeOK
  BY DEF SwapInv, TypeInv
<1> QED
  BY <1>1, SwapAlways, PTL

(* However the answers of TWAK and the delays of the chain fall, a call    *)
(* sends at most one unlimited approval, and none if retries are disabled  *)
(* (_approve_swap_spender behind explicit_approval_sent).                  *)
THEOREM OneApprovalPerCall == Spec => []OneUnlimitedApproval
<1>1. SwapInv => OneUnlimitedApproval
  BY SwapCallAssumption DEF SwapInv, AskingInv, ApprovalsCounted, OneUnlimitedApproval
<1> QED
  BY <1>1, SwapAlways, PTL

(* The retries of TWAKInterface.swap outlast every approval that is mined  *)
(* within their delays: giving up means the approval took longer.          *)
THEOREM ApprovalsAreAwaited == Spec => []PatientWithApprovals
<1>1. SwapInv => PatientWithApprovals
  BY DEF SwapInv, AskingInv
<1> QED
  BY <1>1, SwapAlways, PTL

(* After a live call the book has changed only for a swap that was sent,   *)
(* and for one that is not mined, or reverts, only on a hash of TWAK's     *)
(* that ExecutionReconciler trusts; a mined swap goes unnoticed only in    *)
(* the cases the property names (a call that raised, an answer without     *)
(* what the reconciliation needs, a balance never read).                   *)
THEOREM BookFollowsChain == Spec => []BookFollowsSwap
<1>1. SwapInv => BookFollowsSwap
  BY DEF SwapInv, BookInv, BookFollowsSwap
<1> QED
  BY <1>1, SwapAlways, PTL

-----------------------------------------------------------------------------
(* The call implements OneSwap.                                            *)

LEMMA SwappingInit == Init => Swapping!Init
BY DEF Init, Swapping!Init

LEMMA SwappingStep == SwapInv /\ [Next]_vars => [Swapping!Next]_<<sent, fate, report>>
<1> SUFFICES ASSUME SwapInv, [Next]_vars
             PROVE  Swapping!Next \/ UNCHANGED <<sent, fate, report>>
  OBVIOUS
<1>a. /\ sent \in {0, 1} /\ (sent = 0 <=> fate = "none")
      /\ pc \in {"check"} \cup Loop => sent = 0 /\ report = "none"
      /\ pc = "floor" => sent = 1 /\ report = "none"
      /\ pc = "idle" => report # "none" \/ sent = 0
  BY DEF SwapInv, CallInv, Unanswered, Answered, Reported
<1>b. pc = "idle" => report \in {"none", "returned", "raised"}
  BY DEF SwapInv, TypeInv, TypeOK
<1> USE DEF Loop
<1>1. CASE Begin
  <2>1. CASE report = "none"
    BY <1>1, <1>a, <2>1 DEF Begin
  <2>2. CASE report # "none"
    BY <1>1, <2>2 DEF Begin, Swapping!Next, Swapping!NewCall
  <2> QED
    BY <2>1, <2>2
<1>2. CASE RunSwaps
  <2>1. Swapping!Broadcast
    BY <1>2, <1>a DEF RunSwaps, Swapping!Broadcast, Swapping!Broadcasts
  <2> QED
    BY <2>1 DEF Swapping!Next
<1>3. CASE PaperFill
  <2>1. Swapping!PaperFill
    BY <1>3, <1>a DEF PaperFill, Swapping!PaperFill
  <2> QED
    BY <2>1 DEF Swapping!Next
<1>4. CASE RunFails \/ RunTimesOut
  <2>1. report = "none" /\ report' = "raised" /\ sent = 0
    BY <1>4, <1>a DEF RunFails, RunTimesOut
  <2>2. Swapping!Broadcasts \/ UNCHANGED <<sent, fate>>
    BY <1>4, <2>1 DEF RunFails, RunTimesOut, Swapping!Broadcasts
  <2> QED
    BY <2>1, <2>2 DEF Swapping!Next, Swapping!Raise
<1>5. CASE Rejected \/ GiveUp \/ ApprovalFails \/ FloorRaises
  <2>1. pc \in {"check", "floor"} \cup Loop /\ report' = "raised" /\ UNCHANGED <<sent, fate>>
    BY <1>5 DEF Rejected, GiveUp, ApprovalFails, FloorRaises
  <2> QED
    BY <1>a, <2>1 DEF Swapping!Next, Swapping!Raise
<1>6. CASE FinishEntry \/ AskBalance
  <2>1. Swapping!Return
    BY <1>6, <1>a DEF FinishEntry, AskBalance, SwapReturns, Swapping!Return
  <2> QED
    BY <2>1 DEF Swapping!Next
<1>7. CASE Run \/ RunLacksAllowance \/ Retry \/ ApproveSpender \/ Sleep \/ ApprovalMined
  BY <1>7 DEF Run, RunLacksAllowance, Retry, ApproveSpender, Sleep, ApprovalMined
<1>8. CASE ReadAnswers \/ ReadRaises \/ ReadTimesOut \/ WorkerEnds \/ NextCycle
  BY <1>8 DEF ReadAnswers, ReadRaises, ReadTimesOut, WorkerEnds, AttemptOver, NextCycle
<1>9. CASE ChainSettles
  <2>1. Swapping!Settle
    BY <1>9 DEF ChainSettles, Swapping!Settle
  <2> QED
    BY <2>1 DEF Swapping!Next
<1>10. CASE UNCHANGED vars
  BY <1>10 DEF vars
<1> QED
  BY <1>1, <1>2, <1>3, <1>4, <1>5, <1>6, <1>7, <1>8, <1>9, <1>10 DEF Next, Agent

(* To the callers of _execute_logged_swap a call, with its retries and its *)
(* approvals, is one swap: broadcast at most once, and broadcast (or       *)
(* filled on paper) if it returns; the chain settles it in its own time.   *)
THEOREM CallIsOneSwap == Spec => ImplementsOneSwap
BY SwappingInit, SwappingStep, SwapAlways, PTL DEF Spec, ImplementsOneSwap, Swapping!Spec
=============================================================================
