---------------------------- MODULE OutboxProofs ----------------------------
(***************************************************************************)
(* Theorems about Outbox, for any state changes, messages, cron runs and   *)
(* number of attempts, and any number of crashes and retries by hand.      *)
(***************************************************************************)
EXTENDS Outbox, TLAPS

HasRead(r, m, n) == run[r] # None /\ <<m, n>> \in run[r].todo

\* A run is between two messages, or has one at hand, and knows of messages
\* that were queued only; one it was told not to send again was refused.
AtHandInv ==
  \A r \in Runs : run[r] # None =>
    /\ \A m \in Messages, n \in Nat : HasRead(r, m, n) => row[m] # None
    /\ run[r].step # "NEXT" => run[r].on \in Messages /\ row[run[r].on] # None
    /\ run[r].step = "NEXT" => run[r].on = None
    /\ run[r].step = "REFUSED" => run[r].on \in refused

\* Attempts only grow until somebody retries by hand: what a run has read is
\* what the row says, or less.
ReadInv ==
  retries = 0 =>
    \A r \in Runs, m \in Messages :
      /\ \A n \in Nat : HasRead(r, m, n) => n <= row[m].attempts
      /\ Sending(r, m) => run[r].made < row[m].attempts

\* One run has the message at hand; the row is not due meanwhile, and whoever
\* read it read it before that run's claim.
AloneInv ==
  retries = 0 =>
    \A r \in Runs, m \in Messages \ mishap : Sending(r, m) =>
      /\ row[m].st \in {"PENDING", "CANCELLED"} /\ ~row[m].due
      /\ \A q \in Runs : Sending(q, m) => q = r
      /\ \A q \in Runs, n \in Nat : HasRead(q, m, n) => n < row[m].attempts

\* A text that was sent is on record, or its run is about to record it.
TextInv ==
  retries = 0 =>
    \A m \in Messages \ mishap : texts[m] # 0 =>
      /\ texts[m] = 1 /\ row[m] # None
      /\ \/ row[m].st = "SENT"
         \/ \E r \in Runs : Sending(r, m) /\ At(r, "ACCEPTED")

-----------------------------------------------------------------------------
(* Types.                                                                  *)

LEMMA RowIsSome == \A x \in Row : x # None
BY NoneIsNoRow

LEMMA RunIsSome == \A x \in Run : x # None
BY NoneIsNoRow

\* What a run becomes when it leaves a message behind.
LEMMA DoneTypes ==
  ASSUME TypeOK, NEW r \in Runs, run[r] # None, NEW left \in SUBSET run[r].todo,
         Done(r, left)
  PROVE  /\ run' \in [Runs -> Run \cup {None}]
         /\ \A q \in Runs \ {r} : run'[q] = run[q]
         /\ run'[r] # None =>
              /\ run'[r].todo = left /\ run'[r].on = None /\ run'[r].step = "NEXT"
<1> DEFINE next == [todo |-> left, on |-> None, made |-> 0, step |-> "NEXT"]
<1>1. run[r].todo \subseteq Messages \X Nat
  BY DEF TypeOK, Run
<1>2. next \in Run
  BY <1>1 DEF Run
<1>3. /\ next.todo = left /\ next.on = None /\ next.step = "NEXT"
  OBVIOUS
<1>4. run' = [run EXCEPT ![r] = IF left = {} THEN None ELSE next]
  BY DEF Done, Becomes
<1> HIDE DEF next
<1> QED
  BY <1>2, <1>3, <1>4 DEF TypeOK

\* What a run becomes when its step moves on.
LEMMA StepTypes ==
  ASSUME TypeOK, NEW r \in Runs, run[r] # None,
         NEW step \in {"SENDING", "ACCEPTED", "ERROR", "REFUSED"},
         Becomes(r, [run[r] EXCEPT !.step = step])
  PROVE  /\ run' \in [Runs -> Run \cup {None}]
         /\ \A q \in Runs \ {r} : run'[q] = run[q]
         /\ run'[r] # None /\ run'[r].step = step
         /\ run'[r].todo = run[r].todo /\ run'[r].on = run[r].on
         /\ run'[r].made = run[r].made
<1>1. run[r] \in Run
  BY DEF TypeOK
<1>2. [run[r] EXCEPT !.step = step] \in Run
  BY <1>1 DEF Run
<1>3. run' = [run EXCEPT ![r] = [run[r] EXCEPT !.step = step]]
  BY DEF Becomes
<1>4. run'[r] = [run[r] EXCEPT !.step = step]
  BY <1>3 DEF TypeOK
<1> QED
  BY <1>1, <1>2, <1>3, <1>4, NoneIsNoRow DEF TypeOK, Run

\* What a claim does to the row and to the run.
LEMMA ClaimTypes ==
  ASSUME TypeOK, NEW r \in Runs, NEW m, NEW n, Claim(r, m, n), Claimable(m, n)
  PROVE  /\ m \in Messages /\ n \in Nat /\ run[r] # None /\ run[r].step = "NEXT"
         /\ row[m] \in Row /\ row[m].st = "PENDING" /\ row[m].attempts = n
         /\ row' \in [Messages -> Row \cup {None}]
         /\ \A k \in Messages \ {m} : row'[k] = row[k]
         /\ row'[m] # None /\ row'[m].st = "PENDING" /\ row'[m].attempts = n + 1
         /\ ~row'[m].due
         /\ run' \in [Runs -> Run \cup {None}]
         /\ \A q \in Runs \ {r} : run'[q] = run[q]
         /\ run'[r] # None /\ run'[r].todo = run[r].todo \ {<<m, n>>}
         /\ run'[r].on = m /\ run'[r].made = n /\ run'[r].step = "SENDING"
<1> DEFINE next == [todo |-> run[r].todo \ {<<m, n>>}, on |-> m, made |-> n,
                    step |-> "SENDING"]
           claimed == [row[m] EXCEPT !.attempts = @ + 1, !.due = FALSE]
<1>1. /\ run[r] # None /\ run[r].step = "NEXT" /\ <<m, n>> \in run[r].todo
  BY DEF Claim, At
<1>2. run[r] \in Run
  BY <1>1 DEF TypeOK
<1>3. m \in Messages /\ n \in Nat
  BY <1>1, <1>2 DEF Run
<1>4. row[m] \in Row /\ row[m].st = "PENDING" /\ row[m].attempts = n
  BY <1>3 DEF Claimable, IsPending, TypeOK
<1>5. next \in Run
  BY <1>2, <1>3 DEF Run
<1>6. claimed \in Row
  <2>1. n + 1 \in Nat /\ row[m].attempts + 1 = n + 1
    BY <1>3, <1>4
  <2>2. claimed = [row[m] EXCEPT !.attempts = n + 1, !.due = FALSE]
    BY <1>4
  <2> QED
    BY <1>4, <2>1, <2>2, Zenon DEF Row
<1>7. claimed.st = "PENDING" /\ claimed.attempts = n + 1 /\ ~claimed.due
  BY <1>4 DEF Row
<1>8. row' = [row EXCEPT ![m] = claimed] /\ run' = [run EXCEPT ![r] = next]
  BY DEF Claim, Becomes
<1>9. /\ next.todo = run[r].todo \ {<<m, n>>} /\ next.on = m /\ next.made = n
      /\ next.step = "SENDING"
  OBVIOUS
<1> HIDE DEF next, claimed
<1>10. /\ row' \in [Messages -> Row \cup {None}] /\ row'[m] = claimed
       /\ \A k \in Messages \ {m} : row'[k] = row[k]
  BY <1>3, <1>6, <1>8 DEF TypeOK
<1>11. /\ run' \in [Runs -> Run \cup {None}] /\ run'[r] = next
       /\ \A q \in Runs \ {r} : run'[q] = run[q]
  BY <1>5, <1>8 DEF TypeOK
<1>12. claimed # None /\ next # None
  BY <1>5, <1>6, RowIsSome, RunIsSome
<1> QED
  BY <1>1, <1>3, <1>4, <1>7, <1>9, <1>10, <1>11, <1>12

\* What recording a result, a retry or the clock does to one row.
LEMMA RowTypes ==
  ASSUME TypeOK, NEW m \in Messages, row[m] # None,
         NEW st \in {"PENDING", "SENT", "FAILED", "CANCELLED"},
         row' = [row EXCEPT ![m].st = st]
  PROVE  /\ row' \in [Messages -> Row \cup {None}]
         /\ \A k \in Messages \ {m} : row'[k] = row[k]
         /\ row'[m] # None /\ row'[m].st = st /\ row'[m].attempts = row[m].attempts
         /\ row'[m].due = row[m].due
<1> DEFINE next == [row[m] EXCEPT !.st = st]
<1>1. row[m] \in Row
  BY DEF TypeOK
<1>2. next \in Row /\ next.st = st /\ next.attempts = row[m].attempts
      /\ next.due = row[m].due
  BY <1>1 DEF Row
<1>3. row' = [row EXCEPT ![m] = next]
  OBVIOUS
<1> HIDE DEF next
<1> QED
  BY <1>2, <1>3, RowIsSome DEF TypeOK

LEMMA DueTypes ==
  ASSUME TypeOK, NEW m \in Messages, BackoffEnds(m)
  PROVE  /\ row' \in [Messages -> Row \cup {None}]
         /\ \A k \in Messages \ {m} : row'[k] = row[k]
         /\ row'[m] # None /\ row'[m].st = row[m].st
         /\ row'[m].attempts = row[m].attempts
<1> DEFINE next == [row[m] EXCEPT !.due = TRUE]
<1>1. row[m] \in Row
  BY DEF TypeOK, BackoffEnds, IsPending
<1>2. next \in Row /\ next.st = row[m].st /\ next.attempts = row[m].attempts
  BY <1>1 DEF Row
<1>3. row' = [row EXCEPT ![m] = next]
  BY DEF BackoffEnds
<1> HIDE DEF next
<1> QED
  BY <1>2, <1>3, RowIsSome DEF TypeOK

\* A row that did not exist yet, or starts again.
LEMMA QueuedTypes ==
  ASSUME TypeOK, NEW m \in Messages \ Unreachable, NEW due \in BOOLEAN,
         row' = [row EXCEPT ![m] = [st |-> "PENDING", attempts |-> 0, due |-> due]]
  PROVE  /\ row' \in [Messages -> Row \cup {None}]
         /\ \A k \in Messages \ {m} : row'[k] = row[k]
         /\ row'[m] # None /\ row'[m].st = "PENDING"
<1> DEFINE next == [st |-> "PENDING", attempts |-> 0, due |-> due]
<1>1. next \in Row /\ next.st = "PENDING"
  BY DEF Row
<1>2. row' = [row EXCEPT ![m] = next]
  OBVIOUS
<1> HIDE DEF next
<1> QED
  BY <1>1, <1>2, RowIsSome DEF TypeOK

LEMMA StartTypes ==
  ASSUME TypeOK, NEW r \in Runs, Start(r)
  PROVE  /\ run' \in [Runs -> Run \cup {None}]
         /\ \A q \in Runs \ {r} : run'[q] = run[q]
         /\ run[r] = None /\ run'[r] # None
         /\ run'[r].on = None /\ run'[r].step = "NEXT"
         /\ run'[r].todo = {<<m, row[m].attempts>> : m \in Due}
<1> DEFINE next == [todo |-> {<<m, row[m].attempts>> : m \in Due}, on |-> None,
                    made |-> 0, step |-> "NEXT"]
<1>1. \A m \in Due : m \in Messages /\ row[m].attempts \in Nat
  BY DEF Due, IsPending, TypeOK, Row
<1>2. {<<m, row[m].attempts>> : m \in Due} \in SUBSET (Messages \X Nat)
  BY <1>1
<1>3. next \in Run
  BY <1>2 DEF Run
<1>4. /\ next.on = None /\ next.step = "NEXT"
      /\ next.todo = {<<m, row[m].attempts>> : m \in Due}
  OBVIOUS
<1>5. run' = [run EXCEPT ![r] = next] /\ run[r] = None
  BY DEF Start, Becomes
<1> HIDE DEF next
<1> QED
  BY <1>3, <1>4, <1>5, RunIsSome DEF TypeOK

\* The provider's answer, or a note that is lost.
AnswerStep(r) == Accepts(r) \/ Refuses(r) \/ Fails(r) \/ LosesAnswer(r) \/ LosesNote(r)

LEMMA AnswerTypes ==
  ASSUME TypeOK, AtHandInv, NEW r \in Runs, AnswerStep(r)
  PROVE  /\ run[r] # None /\ run[r].step \in {"SENDING", "ACCEPTED"}
         /\ run[r].on \in Messages
         /\ run' \in [Runs -> Run \cup {None}]
         /\ \A q \in Runs \ {r} : run'[q] = run[q]
         /\ run'[r] # None /\ run'[r].step \in {"ACCEPTED", "REFUSED", "ERROR"}
         /\ run'[r].todo = run[r].todo /\ run'[r].on = run[r].on
         /\ run'[r].made = run[r].made
<1>1. /\ run[r] # None /\ run[r].step \in {"SENDING", "ACCEPTED"}
      /\ \E step \in {"ACCEPTED", "REFUSED", "ERROR"} :
           Becomes(r, [run[r] EXCEPT !.step = step])
  BY DEF AnswerStep, Accepts, Refuses, Fails, LosesAnswer, LosesNote, Answers, At
<1>2. PICK step \in {"ACCEPTED", "REFUSED", "ERROR"} :
        Becomes(r, [run[r] EXCEPT !.step = step])
  BY <1>1
<1>3. run[r].on \in Messages
  BY <1>1 DEF AtHandInv
<1> QED
  BY <1>1, <1>2, <1>3, StepTypes

LEMMA TypeStep ==
  ASSUME TypeOK, AtHandInv, [Next]_vars
  PROVE  TypeOK'
<1>1. ASSUME NEW c \in Changes, Change(c) PROVE TypeOK'
  <2>1. Key[c] \in Messages
    BY OutboxAssumption
  <2>2. CASE UNCHANGED row
    BY <1>1, <2>2 DEF Change, TypeOK, outside, counters
  <2>3. CASE row' = [row EXCEPT ![Key[c]] = Queued] /\ Reachable(Key[c])
    <3>1. Key[c] \in Messages \ Unreachable
      BY <2>1, <2>3 DEF Reachable
    <3>2. /\ row' \in [Messages -> Row \cup {None}]
          /\ \A k \in Messages \ {Key[c]} : row'[k] = row[k]
      BY <2>3, <3>1, QueuedTypes DEF Queued
    <3> QED
      BY <1>1, <2>3, <3>1, <3>2 DEF Change, TypeOK, outside, counters
  <2> QED
    BY <1>1, <2>2, <2>3 DEF Change
<1>2. ASSUME NEW r \in Runs, Start(r) PROVE TypeOK'
  BY <1>2, StartTypes DEF Start, TypeOK, outside, counters
<1>3. ASSUME NEW r \in Runs, NEW m, NEW n, Claim(r, m, n) PROVE TypeOK'
  <2>1. CASE Claimable(m, n)
    <3>1. m \notin Unreachable
      BY <2>1 DEF Claimable, IsPending, TypeOK
    <3>2. /\ run' \in [Runs -> Run \cup {None}] /\ row' \in [Messages -> Row \cup {None}]
          /\ \A k \in Messages \ {m} : row'[k] = row[k]
      BY <1>3, <2>1, ClaimTypes
    <3> QED
      BY <1>3, <3>1, <3>2, OutboxAssumption DEF Claim, TypeOK, outside, counters
  <2>2. CASE ~Claimable(m, n)
    BY <1>3, <2>2, DoneTypes DEF Claim, At, TypeOK, outside, counters
  <2> QED
    BY <2>1, <2>2
<1>4. ASSUME NEW r \in Runs, SaveSent(r) \/ SaveFailure(r) PROVE TypeOK'
  <2>1. /\ run[r] # None /\ run[r].on \in Messages /\ Done(r, run[r].todo)
    BY <1>4 DEF SaveSent, SaveFailure, At, AtHandInv
  <2>2. run' \in [Runs -> Run \cup {None}]
    BY <2>1, DoneTypes
  <2>3. row[run[r].on] # None
    BY <1>4 DEF SaveSent, SaveFailure, At, AtHandInv
  <2>4. row' \in [Messages -> Row \cup {None}] /\ \A m \in Unreachable : row'[m] = None
    <3>1. CASE UNCHANGED row
      BY <3>1 DEF TypeOK
    <3>2. ASSUME NEW st \in {"SENT", "FAILED"}, row' = [row EXCEPT ![run[r].on].st = st]
          PROVE  row' \in [Messages -> Row \cup {None}]
                 /\ \A m \in Unreachable : row'[m] = None
      BY <2>1, <2>3, <3>2, RowTypes, OutboxAssumption, ZenonT(30) DEF TypeOK
    <3> QED
      BY <1>4, <3>1, <3>2 DEF SaveSent, SaveFailure
  <2> QED
    BY <1>4, <2>2, <2>4 DEF SaveSent, SaveFailure, TypeOK, outside, counters
<1>5. ASSUME NEW r \in Runs, Crash(r) PROVE TypeOK'
  <2>1. run[r] \in Run /\ run' \in [Runs -> Run \cup {None}]
    BY <1>5 DEF Crash, Becomes, TypeOK
  <2> QED
    BY <1>5, <2>1 DEF Crash, TypeOK, Run
<1>6. ASSUME NEW r \in Runs, AnswerStep(r) PROVE TypeOK'
  <2>1. run[r].on \in Messages /\ run' \in [Runs -> Run \cup {None}]
    BY <1>6, AnswerTypes
  <2> QED
    BY <1>6, <2>1 DEF AnswerStep, Accepts, Refuses, Fails, LosesAnswer, LosesNote,
                      Answers, TypeOK, outside, counters
<1>7. ASSUME NEW m \in Messages, BackoffEnds(m) PROVE TypeOK'
  <2>1. m \notin Unreachable
    BY <1>7 DEF BackoffEnds, IsPending, TypeOK
  <2>2. /\ row' \in [Messages -> Row \cup {None}]
        /\ \A k \in Messages \ {m} : row'[k] = row[k]
    BY <1>7, DueTypes
  <2>3. mishap' \subseteq Messages
    BY <1>7 DEF BackoffEnds, TypeOK
  <2> QED
    BY <1>7, <2>1, <2>2, <2>3, OutboxAssumption DEF BackoffEnds, TypeOK, counters
<1>8. ASSUME NEW m \in Messages, Retry(m) PROVE TypeOK'
  <2>1. m \in Messages \ Unreachable
    BY <1>8 DEF Retry, TypeOK
  <2>2. row' = [row EXCEPT ![m] = [st |-> "PENDING", attempts |-> 0, due |-> FALSE]]
    BY <1>8 DEF Retry
  <2>3. /\ row' \in [Messages -> Row \cup {None}]
        /\ \A k \in Messages \ {m} : row'[k] = row[k]
    BY <2>1, <2>2, QueuedTypes
  <2> QED
    BY <1>8, <2>1, <2>3, OutboxAssumption DEF Retry, TypeOK, outside
<1>9. ASSUME NEW m \in Messages, Cancel(m) PROVE TypeOK'
  <2>1. m \notin Unreachable /\ row[m] # None
    BY <1>9 DEF Cancel, TypeOK
  <2> QED
    BY <1>9, <2>1, RowTypes, OutboxAssumption DEF Cancel, TypeOK, outside, counters
<1>10. CASE UNCHANGED vars
  BY <1>10 DEF vars, outside, counters, TypeOK
<1> QED
  BY <1>1, <1>2, <1>3, <1>4, <1>5, <1>6, <1>7, <1>8, <1>9, <1>10
     DEF Next, RunNext, AnswerStep

-----------------------------------------------------------------------------
(* Every step keeps the other parts.                                       *)

IInv == TypeOK /\ AtHandInv /\ ReadInv /\ AloneInv /\ TextInv /\ GivenUpAfterAllAttempts

\* What steps do to a run: it leaves its message behind, or ends.
Leaves(r) ==
  /\ run[r] # None /\ \A q \in Runs \ {r} : run'[q] = run[q]
  /\ run'[r] # None =>
       run'[r].todo \subseteq run[r].todo /\ run'[r].on = None /\ run'[r].step = "NEXT"

LEMMA SendingIsQueued ==
  ASSUME AtHandInv, NEW r \in Runs, NEW m \in Messages, Sending(r, m)
  PROVE  row[m] # None /\ run[r] # None /\ run[r].step # "NEXT" /\ run[r].on = m
BY OutboxAssumption DEF AtHandInv, Sending

LEMMA LeaveStep ==
  ASSUME IInv, NEW r \in Runs, Leaves(r), retries' = retries,
         \/ /\ UNCHANGED <<row, texts, refused>>
            /\ mishap' = mishap \cup ({run[r].on} \ {None})
         \/ SaveSent(r) \/ SaveFailure(r)
  PROVE  AtHandInv' /\ ReadInv' /\ AloneInv' /\ TextInv' /\ GivenUpAfterAllAttempts'
<1> USE DEF IInv
<1>1. ASSUME NEW q \in Runs, NEW m \in Messages
      PROVE  /\ Sending(q, m)' => q # r /\ Sending(q, m)
             /\ \A n \in Nat : HasRead(q, m, n)' => HasRead(q, m, n)
             /\ At(q, "ACCEPTED")' <=> q # r /\ At(q, "ACCEPTED")
  BY OutboxAssumption DEF Leaves, Sending, HasRead, At
<1>2. /\ UNCHANGED <<texts, refused>> /\ mishap \subseteq mishap'
      /\ \A m \in Messages \ mishap' : Sending(r, m) => SaveSent(r) \/ SaveFailure(r)
  BY OutboxAssumption DEF SaveSent, SaveFailure, outside, Sending, TypeOK
<1>3. ASSUME NEW m \in Messages
      PROVE  /\ row'[m] = row[m] \/ Sending(r, m)
             /\ row[m] # None =>
                  /\ row'[m] # None /\ row'[m].attempts = row[m].attempts
                  /\ row'[m].due = row[m].due
  <2>1. CASE UNCHANGED row
    BY <2>1
  <2>2. ASSUME NEW st \in {"SENT", "FAILED"}, SaveSent(r) \/ SaveFailure(r),
               row' = [row EXCEPT ![run[r].on].st = st]
        PROVE  /\ row'[m] = row[m] \/ Sending(r, m)
               /\ row[m] # None =>
                    /\ row'[m] # None /\ row'[m].attempts = row[m].attempts
                    /\ row'[m].due = row[m].due
    <3>1. run[r] # None /\ run[r].on \in Messages /\ row[run[r].on] # None
      BY <2>2 DEF SaveSent, SaveFailure, At, AtHandInv
    <3> QED
      BY <2>2, <3>1, RowTypes DEF Sending
  <2> QED
    BY <2>1, <2>2 DEF SaveSent, SaveFailure
<1>4. AtHandInv'
  <2>1. ASSUME NEW q \in Runs, run'[q] # None
        PROVE  \A m \in Messages, n \in Nat : HasRead(q, m, n)' => row'[m] # None
    BY <1>1, <1>3 DEF AtHandInv, HasRead
  <2>2. run'[r] # None => run'[r].step = "NEXT" /\ run'[r].on = None
    BY DEF Leaves
  <2>3. ASSUME NEW q \in Runs \ {r}, run'[q] # None
        PROVE  /\ run'[q].step # "NEXT" => run'[q].on \in Messages /\ row'[run'[q].on] # None
               /\ run'[q].step = "NEXT" => run'[q].on = None
               /\ run'[q].step = "REFUSED" => run'[q].on \in refused'
    <3>1. run'[q] = run[q] /\ run[q] # None
      BY <2>3 DEF Leaves
    <3>2. /\ run[q].step # "NEXT" => run[q].on \in Messages /\ row[run[q].on] # None
          /\ run[q].step = "NEXT" => run[q].on = None
          /\ run[q].step = "REFUSED" => run[q].on \in refused
      BY <3>1 DEF AtHandInv
    <3>3. run[q].on \in Messages /\ row[run[q].on] # None => row'[run[q].on] # None
      BY <1>3
    <3> QED
      BY <1>2, <3>1, <3>2, <3>3
  <2>4. ASSUME NEW q \in Runs, run'[q] # None
        PROVE  /\ run'[q].step # "NEXT" => run'[q].on \in Messages /\ row'[run'[q].on] # None
               /\ run'[q].step = "NEXT" => run'[q].on = None
               /\ run'[q].step = "REFUSED" => run'[q].on \in refused'
    BY <2>2, <2>3, <2>4
  <2> QED
    BY <2>1, <2>4 DEF AtHandInv
<1>5. ReadInv'
  <2>1. ASSUME NEW q \in Runs, NEW m \in Messages, retries = 0
        PROVE  /\ \A n \in Nat : HasRead(q, m, n)' => n <= row'[m].attempts
               /\ Sending(q, m)' => run'[q].made < row'[m].attempts
    <3>1. \A n \in Nat : HasRead(q, m, n)' => n <= row'[m].attempts
      BY <1>1, <1>3, <2>1 DEF ReadInv, AtHandInv, HasRead
    <3>2. CASE Sending(q, m)'
      <4>1. run'[q] = run[q] /\ Sending(q, m)
        BY <1>1, <3>2 DEF Leaves
      <4> QED
        BY <1>3, <2>1, <3>1, <4>1, SendingIsQueued DEF ReadInv
    <3> QED
      BY <3>1, <3>2
  <2> QED
    BY <2>1 DEF ReadInv
<1>6. AloneInv'
  <2> SUFFICES ASSUME retries' = 0, NEW q \in Runs, NEW m \in Messages \ mishap', Sending(q, m)'
               PROVE  /\ row'[m].st \in {"PENDING", "CANCELLED"} /\ ~row'[m].due
                      /\ \A p \in Runs : Sending(p, m)' => p = q
                      /\ \A p \in Runs, n \in Nat :
                           HasRead(p, m, n)' => n < row'[m].attempts
    BY DEF AloneInv
  <2>1. Sending(q, m) /\ q # r /\ m \notin mishap /\ row[m] # None
    BY <1>1, <1>2, SendingIsQueued
  <2>2. row'[m] = row[m]
    BY <1>3, <2>1 DEF AloneInv
  <2> QED
    BY <1>1, <2>1, <2>2 DEF AloneInv
<1>7. TextInv'
  <2> SUFFICES ASSUME retries' = 0, NEW m \in Messages \ mishap', texts'[m] # 0
               PROVE  /\ texts'[m] = 1 /\ row'[m] # None
                      /\ \/ row'[m].st = "SENT"
                         \/ \E q \in Runs : Sending(q, m)' /\ At(q, "ACCEPTED")'
    BY DEF TextInv
  <2>1. texts'[m] = 1 /\ row[m] # None /\ row'[m] # None
    BY <1>2, <1>3 DEF TextInv
  <2>2. CASE row[m].st = "SENT"
    BY <1>2, <1>3, <2>1, <2>2 DEF AloneInv
  <2>3. ASSUME NEW q \in Runs \ {r}, Sending(q, m), At(q, "ACCEPTED")
        PROVE  Sending(q, m)' /\ At(q, "ACCEPTED")'
    BY <2>3 DEF Leaves, Sending, At
  <2>4. CASE Sending(r, m) /\ At(r, "ACCEPTED")
    <3>1. SaveSent(r)
      BY <1>2, <2>4 DEF SaveFailure, At
    <3> QED
      BY <2>1, <2>4, <3>1, RowTypes DEF SaveSent, Sending
  <2> QED
    BY <1>2, <2>1, <2>2, <2>3, <2>4 DEF TextInv
<1>8. GivenUpAfterAllAttempts'
  <2> SUFFICES ASSUME NEW m \in Messages, row'[m] # None, row'[m].st = "FAILED",
                      m \notin refused', retries' = 0
               PROVE  row'[m].attempts >= MaxAttempts
    BY DEF GivenUpAfterAllAttempts
  <2>1. CASE row'[m] = row[m]
    BY <1>2, <2>1 DEF GivenUpAfterAllAttempts
  <2>2. CASE row'[m] # row[m]
    <3>1. Sending(r, m) /\ row[m] # None
      BY <1>3, <2>2, SendingIsQueued
    <3>2. SaveFailure(r) /\ ~SaveSent(r)
      <4>1. ~SaveSent(r)
        BY <3>1, RowTypes DEF SaveSent, Sending
      <4> QED
        BY <2>2, <3>1, <4>1
    <3>3. Exhausted(run[r].made)
      BY <1>2, <2>2, <3>1, <3>2 DEF SaveFailure, At, AtHandInv, Sending
    <3>4. run[r].made \in Nat /\ row[m].attempts \in Nat /\ run[r].made < row[m].attempts
      BY <3>1 DEF ReadInv, TypeOK, Run, Row, Sending
    <3> QED
      BY <1>3, <3>1, <3>3, <3>4, OutboxAssumption DEF Exhausted
  <2> QED
    BY <2>1, <2>2
<1> QED
  BY <1>4, <1>5, <1>6, <1>7, <1>8

LEMMA ClaimStep ==
  ASSUME IInv, NEW r \in Runs, NEW m, NEW n, Claim(r, m, n), Claimable(m, n)
  PROVE  AtHandInv' /\ ReadInv' /\ AloneInv' /\ TextInv' /\ GivenUpAfterAllAttempts'
<1> USE DEF IInv
<1>1. /\ m \in Messages /\ n \in Nat /\ run[r] # None /\ run[r].step = "NEXT"
      /\ run[r].on = None /\ HasRead(r, m, n)
      /\ row[m] # None /\ row[m].st = "PENDING" /\ row[m].attempts = n
      /\ \A k \in Messages \ {m} : row'[k] = row[k]
      /\ row'[m] # None /\ row'[m].st = "PENDING" /\ row'[m].attempts = n + 1
      /\ ~row'[m].due
      /\ \A q \in Runs \ {r} : run'[q] = run[q]
      /\ run'[r] # None /\ run'[r].on = m /\ run'[r].made = n /\ run'[r].step = "SENDING"
      /\ UNCHANGED <<texts, mishap, refused, retries>>
  <2>1. HasRead(r, m, n)
    BY DEF Claim, At, HasRead
  <2>2. UNCHANGED <<texts, mishap, refused, retries>>
    BY DEF Claim, outside, counters
  <2>3. run[r] # None /\ run[r].step = "NEXT" => run[r].on = None
    BY DEF AtHandInv
  <2> QED
    BY <2>1, <2>2, <2>3, ClaimTypes, RowIsSome
<1>2. ASSUME NEW q \in Runs, NEW k \in Messages
      PROVE  /\ Sending(q, k)' <=> (q = r /\ k = m) \/ (q # r /\ Sending(q, k))
             /\ \A j \in Nat : HasRead(q, k, j)' => HasRead(q, k, j)
             /\ At(q, "ACCEPTED")' <=> q # r /\ At(q, "ACCEPTED")
  BY <1>1, ClaimTypes DEF Sending, HasRead, At
<1>3. ~Sending(r, m)
  BY <1>1, OutboxAssumption DEF Sending
\* Nobody else has it at hand: their claim would have left n behind.
<1>4. retries = 0 /\ m \notin mishap => \A q \in Runs : ~Sending(q, m)
  BY <1>1 DEF AloneInv
<1>5. AtHandInv'
  <2>1. ASSUME NEW q \in Runs, run'[q] # None
        PROVE  \A k \in Messages, j \in Nat : HasRead(q, k, j)' => row'[k] # None
    <3>1. run[q] # None
      BY <1>1, <2>1
    <3> QED
      BY <1>1, <1>2, <3>1 DEF AtHandInv
  <2>2. ASSUME NEW q \in Runs \ {r}, run'[q] # None
        PROVE  /\ run'[q].step # "NEXT" => run'[q].on \in Messages /\ row'[run'[q].on] # None
               /\ run'[q].step = "NEXT" => run'[q].on = None
               /\ run'[q].step = "REFUSED" => run'[q].on \in refused'
    <3>1. run'[q] = run[q] /\ run[q] # None
      BY <1>1, <2>2
    <3>2. /\ run[q].step # "NEXT" => run[q].on \in Messages /\ row[run[q].on] # None
          /\ run[q].step = "NEXT" => run[q].on = None
          /\ run[q].step = "REFUSED" => run[q].on \in refused
      BY <3>1 DEF AtHandInv
    <3>3. run[q].on \in Messages /\ row[run[q].on] # None => row'[run[q].on] # None
      BY <1>1
    <3> QED
      BY <1>1, <3>1, <3>2, <3>3
  <2>3. ASSUME NEW q \in Runs, run'[q] # None
        PROVE  /\ run'[q].step # "NEXT" => run'[q].on \in Messages /\ row'[run'[q].on] # None
               /\ run'[q].step = "NEXT" => run'[q].on = None
               /\ run'[q].step = "REFUSED" => run'[q].on \in refused'
    BY <1>1, <2>2, <2>3
  <2> QED
    BY <2>1, <2>3 DEF AtHandInv
<1>6. ReadInv'
  <2>1. ASSUME NEW q \in Runs, NEW k \in Messages, retries = 0
        PROVE  /\ \A j \in Nat : HasRead(q, k, j)' => j <= row'[k].attempts
               /\ Sending(q, k)' => run'[q].made < row'[k].attempts
    <3>1. /\ \A j \in Nat : HasRead(q, k, j) => j <= row[k].attempts
          /\ Sending(q, k) => run[q].made < row[k].attempts
      BY <2>1 DEF ReadInv
    <3>2. Sending(q, k) => run[q].made \in Nat
      BY DEF Sending, TypeOK, Run
    <3>3. CASE k = m
      BY <1>1, <1>2, <1>3, <3>1, <3>2, <3>3
    <3>4. CASE k # m
      BY <1>1, <1>2, <3>1, <3>2, <3>4
    <3> QED
      BY <3>3, <3>4
  <2> QED
    BY <1>1, <2>1 DEF ReadInv
<1>7. AloneInv' /\ TextInv'
  <2>1. ASSUME retries = 0, NEW k \in Messages \ mishap, NEW q \in Runs, Sending(q, k)'
        PROVE  /\ row'[k].st \in {"PENDING", "CANCELLED"} /\ ~row'[k].due
               /\ \A p \in Runs : Sending(p, k)' => p = q
               /\ \A p \in Runs, j \in Nat : HasRead(p, k, j)' => j < row'[k].attempts
    <3>1. CASE k = m
      <4>1. q = r /\ \A p \in Runs : Sending(p, k)' => p = q
        BY <1>2, <1>4, <2>1, <3>1
      <4>2. \A p \in Runs, j \in Nat : HasRead(p, k, j)' => j <= n
        BY <1>1, <1>2, <2>1, <3>1 DEF ReadInv
      <4> QED
        BY <1>1, <3>1, <4>1, <4>2
    <3>2. CASE k # m
      BY <1>1, <1>2, <2>1, <3>2 DEF AloneInv
    <3> QED
      BY <3>1, <3>2
  <2>2. ASSUME retries = 0, NEW k \in Messages \ mishap, texts[k] # 0
        PROVE  /\ texts'[k] = 1 /\ row'[k] # None
               /\ \/ row'[k].st = "SENT"
                  \/ \E q \in Runs : Sending(q, k)' /\ At(q, "ACCEPTED")'
    <3>1. /\ texts[k] = 1 /\ row[k] # None
          /\ \/ row[k].st = "SENT"
             \/ \E q \in Runs : Sending(q, k) /\ At(q, "ACCEPTED")
      BY <2>2 DEF TextInv
    <3>2. k # m
      BY <1>1, <1>4, <2>2, <3>1
    <3>3. ~At(r, "ACCEPTED")
      BY <1>1 DEF At
    <3> QED
      BY <1>1, <1>2, <3>1, <3>2, <3>3
  <2> QED
    BY <1>1, <2>1, <2>2 DEF AloneInv, TextInv
<1>8. GivenUpAfterAllAttempts'
  BY <1>1 DEF GivenUpAfterAllAttempts
<1> QED
  BY <1>5, <1>6, <1>7, <1>8

LEMMA AnswerKeeps ==
  ASSUME IInv, NEW r \in Runs, AnswerStep(r)
  PROVE  AtHandInv' /\ ReadInv' /\ AloneInv' /\ TextInv' /\ GivenUpAfterAllAttempts'
<1> USE DEF IInv
<1> DEFINE m == run[r].on
<1>1. /\ run[r] # None /\ m \in Messages /\ run'[r] # None
      /\ \A q \in Runs \ {r} : run'[q] = run[q]
      /\ run'[r].todo = run[r].todo /\ run'[r].on = m /\ run'[r].made = run[r].made
      /\ run[r].step # "NEXT" /\ run'[r].step # "NEXT"
  BY AnswerTypes
<1>2. /\ UNCHANGED <<row, retries>> /\ mishap \subseteq mishap' /\ refused \subseteq refused'
      /\ run'[r].step = "REFUSED" => m \in refused'
      /\ \A k \in Messages \ {m} : texts'[k] = texts[k]
  <2>1. /\ UNCHANGED <<row, retries>> /\ mishap \subseteq mishap' /\ refused \subseteq refused'
        /\ \A k \in Messages \ {m} : texts'[k] = texts[k]
    BY DEF AnswerStep, Accepts, Refuses, Fails, LosesAnswer, LosesNote, Answers,
           outside, counters, TypeOK
  <2>2. ASSUME run'[r].step = "REFUSED" PROVE m \in refused'
    <3>1. ~Becomes(r, [run[r] EXCEPT !.step = "ACCEPTED"])
          /\ ~Becomes(r, [run[r] EXCEPT !.step = "ERROR"])
      BY <1>1, <2>2, StepTypes
    <3> QED
      BY <3>1 DEF AnswerStep, Accepts, Refuses, Fails, LosesAnswer, LosesNote, Answers
  <2> QED
    BY <2>1, <2>2
<1>3. ASSUME m \notin mishap'
      PROVE  /\ At(r, "SENDING")
             /\ texts'[m] = texts[m] \/ (texts'[m] = texts[m] + 1 /\ At(r, "ACCEPTED")')
  <2>1. Accepts(r) \/ Refuses(r) \/ Fails(r)
    BY <1>3 DEF AnswerStep, LosesAnswer, LosesNote
  <2>2. At(r, "SENDING")
    BY <2>1 DEF Accepts, Refuses, Fails, Answers
  <2>3. CASE Accepts(r)
    <3>1. texts'[m] = texts[m] + 1
      BY <1>1, <2>3 DEF Accepts, TypeOK
    <3>2. run'[r].step = "ACCEPTED"
      BY <1>1, <2>3, StepTypes DEF Accepts, Answers
    <3> QED
      BY <1>1, <2>2, <3>1, <3>2 DEF At
  <2>4. CASE Refuses(r) \/ Fails(r)
    BY <2>2, <2>4 DEF Refuses, Fails, outside
  <2> QED
    BY <2>1, <2>3, <2>4
<1> HIDE DEF m
<1>4. ASSUME NEW q \in Runs, NEW k \in Messages
      PROVE  /\ Sending(q, k)' <=> Sending(q, k)
             /\ \A n \in Nat : HasRead(q, k, n)' <=> HasRead(q, k, n)
             /\ q # r => (At(q, "ACCEPTED")' <=> At(q, "ACCEPTED"))
             /\ run'[q].made = run[q].made
  BY <1>1 DEF Sending, HasRead, At, m
<1>5. AtHandInv'
  <2>1. ASSUME NEW q \in Runs, run'[q] # None
        PROVE  \A k \in Messages, n \in Nat : HasRead(q, k, n)' => row'[k] # None
    BY <1>1, <1>2, <1>4, <2>1 DEF AtHandInv
  <2>2. ASSUME NEW q \in Runs, run'[q] # None
        PROVE  /\ run'[q].step # "NEXT" => run'[q].on \in Messages /\ row'[run'[q].on] # None
               /\ run'[q].step = "NEXT" => run'[q].on = None
               /\ run'[q].step = "REFUSED" => run'[q].on \in refused'
    <3>1. run[q] # None /\ run'[q].on = run[q].on
      BY <1>1, <2>2 DEF m
    <3>2. /\ run[q].step # "NEXT" => run[q].on \in Messages /\ row[run[q].on] # None
          /\ run[q].step = "NEXT" => run[q].on = None
          /\ run[q].step = "REFUSED" => run[q].on \in refused
      BY <3>1 DEF AtHandInv
    <3> QED
      BY <1>1, <1>2, <3>1, <3>2 DEF m
  <2> QED
    BY <2>1, <2>2 DEF AtHandInv
<1>6. ReadInv'
  BY <1>2, <1>4 DEF ReadInv
<1>7. AloneInv'
  BY <1>2, <1>4 DEF AloneInv
<1>8. TextInv'
  <2> SUFFICES ASSUME retries = 0, NEW k \in Messages \ mishap', texts'[k] # 0
               PROVE  /\ texts'[k] = 1 /\ row'[k] # None
                      /\ \/ row'[k].st = "SENT"
                         \/ \E q \in Runs : Sending(q, k)' /\ At(q, "ACCEPTED")'
    BY <1>2 DEF TextInv
  <2>1. CASE k # m
    <3>1. texts[k] # 0 /\ texts'[k] = texts[k] /\ k \notin mishap
      BY <1>2, <2>1
    <3>2. ~Sending(r, k)
      BY <2>1 DEF Sending, m
    <3> QED
      BY <1>2, <1>4, <3>1, <3>2 DEF TextInv
  <2>2. CASE k = m
    <3>1. Sending(r, m) /\ m \notin mishap
      BY <1>1, <1>2, <2>2 DEF Sending, m
    <3>2. texts[m] = 0
      <4>1. \A q \in Runs : Sending(q, m) => ~At(q, "ACCEPTED")
        BY <1>1, <1>3, <2>2, <3>1 DEF AloneInv, At
      <4>2. row[m].st # "SENT"
        BY <1>1, <3>1 DEF AloneInv
      <4> QED
        BY <1>1, <3>1, <4>1, <4>2 DEF TextInv
    <3>3. texts'[m] = 1 /\ At(r, "ACCEPTED")'
      BY <1>3, <2>2, <3>2
    <3>4. row[m] # None
      BY <1>1, <3>1, SendingIsQueued
    <3> QED
      BY <1>1, <1>2, <1>4, <2>2, <3>1, <3>3, <3>4
  <2> QED
    BY <2>1, <2>2
<1>9. GivenUpAfterAllAttempts'
  BY <1>2 DEF GivenUpAfterAllAttempts
<1> QED
  BY <1>5, <1>6, <1>7, <1>8, <1>9

LEMMA StartStep ==
  ASSUME IInv, NEW r \in Runs, Start(r)
  PROVE  AtHandInv' /\ ReadInv' /\ AloneInv' /\ TextInv' /\ GivenUpAfterAllAttempts'
<1> USE DEF IInv
<1>1. /\ UNCHANGED <<row, texts, mishap, refused, retries>>
      /\ \A q \in Runs \ {r} : run'[q] = run[q]
      /\ run[r] = None /\ run'[r] # None /\ run'[r].on = None /\ run'[r].step = "NEXT"
  BY StartTypes DEF Start, outside, counters
<1>2. ASSUME NEW m \in Messages, NEW n \in Nat, HasRead(r, m, n)'
      PROVE  IsPending(m) /\ row[m].due /\ n = row[m].attempts
  BY <1>2, StartTypes DEF HasRead, Due
<1>3. ASSUME NEW q \in Runs, NEW m \in Messages
      PROVE  /\ Sending(q, m)' <=> Sending(q, m)
             /\ q # r => \A n \in Nat : HasRead(q, m, n)' <=> HasRead(q, m, n)
             /\ Sending(q, m) => run'[q] = run[q]
             /\ At(q, "ACCEPTED")' <=> At(q, "ACCEPTED")
  BY <1>1, OutboxAssumption DEF Sending, HasRead, At
<1>4. AtHandInv'
  <2>1. ASSUME NEW q \in Runs, run'[q] # None
        PROVE  \A m \in Messages, n \in Nat : HasRead(q, m, n)' => row'[m] # None
    BY <1>1, <1>2, <1>3, <2>1 DEF AtHandInv, IsPending
  <2>2. ASSUME NEW q \in Runs, run'[q] # None
        PROVE  /\ run'[q].step # "NEXT" => run'[q].on \in Messages /\ row'[run'[q].on] # None
               /\ run'[q].step = "NEXT" => run'[q].on = None
               /\ run'[q].step = "REFUSED" => run'[q].on \in refused'
    BY <1>1, <2>2 DEF AtHandInv
  <2> QED
    BY <2>1, <2>2 DEF AtHandInv
<1>5. ReadInv'
  <2>1. ASSUME NEW q \in Runs, NEW m \in Messages, retries = 0
        PROVE  /\ \A n \in Nat : HasRead(q, m, n)' => n <= row[m].attempts
               /\ Sending(q, m)' => run'[q].made < row[m].attempts
    BY <1>2, <1>3, <2>1 DEF ReadInv
  <2> QED
    BY <1>1, <2>1 DEF ReadInv
\* A row somebody has at hand is not due, and is not read.
<1>6. AloneInv'
  <2>1. ASSUME NEW q \in Runs, NEW m \in Messages \ mishap, Sending(q, m), retries = 0,
               NEW p \in Runs, NEW n \in Nat, HasRead(p, m, n)'
        PROVE  n < row[m].attempts
    BY <1>2, <1>3, <2>1 DEF AloneInv
  <2> QED
    BY <1>1, <1>3, <2>1 DEF AloneInv
<1>7. TextInv' /\ GivenUpAfterAllAttempts'
  BY <1>1, <1>3 DEF TextInv, GivenUpAfterAllAttempts
<1> QED
  BY <1>4, <1>5, <1>6, <1>7

\* What changes a row outside the runs.
LEMMA RowStep ==
  ASSUME IInv, NEW m \in Messages, UNCHANGED <<run, texts, refused, retries>>,
         \A k \in Messages \ {m} : row'[k] = row[k],
         row'[m] # None, mishap \subseteq mishap',
         row[m] # None => /\ row'[m].attempts = row[m].attempts
                          /\ row[m].st = "SENT" => row'[m].st = "SENT"
                          /\ row'[m].st \in {"PENDING", "CANCELLED"} \/ row'[m].st = row[m].st
                          /\ row'[m].due = row[m].due
                             \/ \A r \in Runs : Sending(r, m) => m \in mishap',
         row[m] = None => row'[m].st = "PENDING"
  PROVE  AtHandInv' /\ ReadInv' /\ AloneInv' /\ TextInv' /\ GivenUpAfterAllAttempts'
<1> USE DEF IInv
<1>1. ASSUME NEW k \in Messages, row[k] # None
      PROVE  row'[k] # None /\ row'[k].attempts = row[k].attempts
  BY <1>1
<1>2. \A q \in Runs, k \in Messages :
        /\ Sending(q, k)' <=> Sending(q, k)
        /\ \A n \in Nat : HasRead(q, k, n)' <=> HasRead(q, k, n)
        /\ At(q, "ACCEPTED")' <=> At(q, "ACCEPTED")
  BY DEF Sending, HasRead, At
<1>3. AtHandInv'
  BY <1>1, <1>2 DEF AtHandInv
<1>4. ReadInv'
  BY <1>1, <1>2, SendingIsQueued DEF ReadInv, AtHandInv, HasRead
<1>5. AloneInv'
  <2>1. ASSUME NEW q \in Runs, NEW k \in Messages \ mishap', Sending(q, k), retries = 0
        PROVE  /\ row'[k].st \in {"PENDING", "CANCELLED"} /\ ~row'[k].due
               /\ row'[k].attempts = row[k].attempts
    <3>1. row[k] # None /\ row[k].st \in {"PENDING", "CANCELLED"} /\ ~row[k].due
      BY <2>1, SendingIsQueued DEF AloneInv
    <3> QED
      BY <1>1, <2>1, <3>1
  <2> QED
    BY <1>2, <2>1 DEF AloneInv
<1>6. TextInv'
  BY <1>1, <1>2 DEF TextInv
<1>7. GivenUpAfterAllAttempts'
  BY DEF GivenUpAfterAllAttempts
<1> QED
  BY <1>3, <1>4, <1>5, <1>6, <1>7

LEMMA RetryStep ==
  ASSUME IInv, NEW m \in Messages, Retry(m)
  PROVE  AtHandInv' /\ ReadInv' /\ AloneInv' /\ TextInv' /\ GivenUpAfterAllAttempts'
<1> USE DEF IInv
<1>1. m \in Messages \ Unreachable /\ UNCHANGED <<run, refused>> /\ retries' # 0
  BY DEF Retry, TypeOK, outside
<1>2. \A k \in Messages : row[k] # None => row'[k] # None
  BY <1>1, QueuedTypes DEF Retry
<1>3. \A q \in Runs, k \in Messages, n \in Nat : HasRead(q, k, n)' <=> HasRead(q, k, n)
  BY <1>1 DEF HasRead
<1>4. AtHandInv'
  BY <1>1, <1>2, <1>3 DEF AtHandInv
<1> QED
  BY <1>1, <1>4 DEF ReadInv, AloneInv, TextInv, GivenUpAfterAllAttempts

Rest == AtHandInv /\ ReadInv /\ AloneInv /\ TextInv /\ GivenUpAfterAllAttempts

LEMMA InvStep ==
  ASSUME IInv, [Next]_vars
  PROVE  IInv'
<1> USE DEF Rest
<1>1. TypeOK'
  BY TypeStep DEF IInv
<1>2. ASSUME NEW c \in Changes, Change(c) PROVE Rest'
  <2>1. Key[c] \in Messages
    BY OutboxAssumption
  <2>2. CASE UNCHANGED row
    BY <1>2, <2>2 DEF Change, IInv, AtHandInv, ReadInv, AloneInv, TextInv,
                      GivenUpAfterAllAttempts, HasRead, Sending, At, outside, counters
  <2>3. CASE row' = [row EXCEPT ![Key[c]] = Queued] /\ Reachable(Key[c]) /\ row[Key[c]] = None
    <3>1. Key[c] \in Messages \ Unreachable
      BY <2>1, <2>3 DEF Reachable
    <3>2. /\ \A k \in Messages \ {Key[c]} : row'[k] = row[k]
          /\ row'[Key[c]] # None /\ row'[Key[c]].st = "PENDING"
      BY <2>3, <3>1, QueuedTypes DEF Queued, IInv
    <3> QED
      BY <1>2, <2>1, <2>3, <3>2, RowStep DEF Change, outside, counters
  <2> QED
    BY <1>2, <2>2, <2>3 DEF Change
<1>3. ASSUME NEW r \in Runs, Start(r) PROVE Rest'
  BY <1>3, StartStep
<1>4. ASSUME NEW r \in Runs, NEW m, NEW n, Claim(r, m, n) PROVE Rest'
  <2>1. CASE Claimable(m, n)
    BY <1>4, <2>1, ClaimStep
  <2>2. CASE ~Claimable(m, n)
    <3>1. /\ UNCHANGED <<row, texts, mishap, refused, retries>>
          /\ run[r] # None /\ run[r].on = None /\ Done(r, run[r].todo \ {<<m, n>>})
      BY <1>4, <2>2 DEF Claim, At, IInv, AtHandInv, outside, counters
    <3>2. Leaves(r)
      BY <3>1, DoneTypes DEF Leaves, IInv
    <3> QED
      BY <3>1, <3>2, LeaveStep
  <2> QED
    BY <2>1, <2>2
<1>5. ASSUME NEW r \in Runs, SaveSent(r) \/ SaveFailure(r) PROVE Rest'
  <2>1. run[r] # None /\ Done(r, run[r].todo) /\ retries' = retries
    BY <1>5 DEF SaveSent, SaveFailure, At, counters
  <2>2. Leaves(r)
    BY <2>1, DoneTypes DEF Leaves, IInv
  <2> QED
    BY <1>5, <2>1, <2>2, LeaveStep
<1>6. ASSUME NEW r \in Runs, Crash(r) PROVE Rest'
  <2>1. Leaves(r)
    BY <1>6 DEF Crash, Becomes, Leaves, IInv, TypeOK
  <2> QED
    BY <1>6, <2>1, LeaveStep DEF Crash
<1>7. ASSUME NEW r \in Runs, AnswerStep(r) PROVE Rest'
  BY <1>7, AnswerKeeps
<1>8. ASSUME NEW m \in Messages, BackoffEnds(m) PROVE Rest'
  <2>1. /\ \A k \in Messages \ {m} : row'[k] = row[k]
        /\ row'[m] # None /\ row'[m].st = row[m].st /\ row'[m].attempts = row[m].attempts
    BY <1>8, DueTypes DEF IInv
  <2>2. /\ UNCHANGED <<run, texts, refused, retries>> /\ mishap \subseteq mishap'
        /\ \A r \in Runs : Sending(r, m) => m \in mishap'
        /\ row[m] # None
    BY <1>8 DEF BackoffEnds, IsPending, counters
  <2> QED
    BY <2>1, <2>2, RowStep
<1>9. ASSUME NEW m \in Messages, Retry(m) PROVE Rest'
  BY <1>9, RetryStep
<1>10. ASSUME NEW m \in Messages, Cancel(m) PROVE Rest'
  <2>1. row[m] # None /\ row[m].st # "SENT" /\ UNCHANGED <<run, texts, mishap, refused, retries>>
    BY <1>10 DEF Cancel, outside, counters
  <2>2. /\ \A k \in Messages \ {m} : row'[k] = row[k]
        /\ row'[m] # None /\ row'[m].st = "CANCELLED"
        /\ row'[m].attempts = row[m].attempts /\ row'[m].due = row[m].due
    BY <1>10, <2>1, RowTypes DEF Cancel, IInv
  <2> QED
    BY <2>1, <2>2, RowStep
<1>11. ASSUME UNCHANGED vars PROVE Rest'
  <2>1. UNCHANGED <<row, run, texts, mishap, refused, retries>>
    BY <1>11 DEF vars, outside, counters
  <2>2. \A q \in Runs, k \in Messages :
          /\ Sending(q, k)' <=> Sending(q, k)
          /\ \A n \in Nat : HasRead(q, k, n)' <=> HasRead(q, k, n)
          /\ At(q, "ACCEPTED")' <=> At(q, "ACCEPTED")
    BY <2>1 DEF Sending, HasRead, At
  <2>3. AtHandInv' /\ ReadInv'
    BY <2>1, <2>2 DEF IInv, AtHandInv, ReadInv
  <2>4. AloneInv' /\ TextInv' /\ GivenUpAfterAllAttempts'
    BY <2>1, <2>2 DEF IInv, AloneInv, TextInv, GivenUpAfterAllAttempts
  <2> QED
    BY <2>3, <2>4 DEF Rest
<1> HIDE DEF Rest
<1>12. ASSUME NEW r \in Runs, RunNext(r) PROVE Rest'
  BY <1>3, <1>4, <1>5, <1>6, <1>7, <1>12 DEF RunNext, AnswerStep
<1>13. Rest'
  BY <1>2, <1>8, <1>9, <1>10, <1>11, <1>12 DEF Next
<1> QED
  BY <1>1, <1>13 DEF IInv, Rest

LEMMA InvInit == Init => IInv
<1> SUFFICES ASSUME Init PROVE IInv
  OBVIOUS
<1>1. TypeOK
  BY OutboxAssumption DEF Init, TypeOK
<1>2. \A r \in Runs : run[r] = None
  BY DEF Init
<1>3. AtHandInv /\ ReadInv /\ AloneInv
  BY <1>2 DEF AtHandInv, ReadInv, AloneInv, HasRead, Sending
<1>4. TextInv /\ GivenUpAfterAllAttempts
  BY DEF Init, TextInv, GivenUpAfterAllAttempts
<1> QED
  BY <1>1, <1>3, <1>4 DEF IInv

LEMMA InvHolds == Spec => []IInv
BY InvInit, InvStep, PTL DEF Spec

-----------------------------------------------------------------------------
(* The theorems.                                                           *)

\* THEOREM: the rows keep their types, and none is queued for a number that
\* cannot be texted.
THEOREM TypesAreKept == Spec => []TypeOK
<1>1. IInv => TypeOK
  BY DEF IInv
<1> QED
  BY <1>1, InvHolds, PTL

\* THEOREM: however many runs overlap, a message is texted once, unless a run
\* dies, an answer is lost, a send outlives its backoff or somebody retries.
THEOREM OverlapIsHarmless == Spec => []OverlapSendsOnce
<1>1. IInv => OverlapSendsOnce
  BY DEF IInv, TextInv, OverlapSendsOnce
<1> QED
  BY <1>1, InvHolds, PTL

\* THEOREM: a message the provider never refused has used all its attempts
\* when it is given up.
THEOREM NoneIsGivenUpEarly == Spec => []GivenUpAfterAllAttempts
<1>1. IInv => GivenUpAfterAllAttempts
  BY DEF IInv
<1> QED
  BY <1>1, InvHolds, PTL

\* THEOREM: the record that a text was sent stays as it is, whatever other
\* runs still hold of it.
THEOREM SentIsFinal == Spec => SentStaysSent
<1> DEFINE Stays(m) ==
      (row[m] # None /\ row[m].st = "SENT" /\ m \notin mishap /\ retries = 0)
        => row'[m] = row[m]
<1>1. ASSUME IInv, [Next]_vars, NEW m \in Messages PROVE Stays(m)
  <2> SUFFICES ASSUME row[m] # None, row[m].st = "SENT", m \notin mishap, retries = 0
               PROVE  row'[m] = row[m]
    OBVIOUS
  <2>1. \A r \in Runs : ~Sending(r, m)
    BY <1>1 DEF IInv, AloneInv
  <2>2. ASSUME NEW c \in Changes, Change(c) PROVE row'[m] = row[m]
    BY <1>1, <2>2 DEF Change, IInv, TypeOK
  <2>3. ASSUME NEW r \in Runs, NEW k, NEW n, Claim(r, k, n) PROVE row'[m] = row[m]
    <3>1. CASE Claimable(k, n)
      BY <1>1, <2>3, <3>1, ClaimTypes DEF IInv
    <3> QED
      BY <2>3, <3>1 DEF Claim
  <2>4. ASSUME NEW r \in Runs, SaveSent(r) \/ SaveFailure(r) PROVE row'[m] = row[m]
    <3>1. run[r].on # m
      BY <2>1, <2>4 DEF SaveSent, SaveFailure, At, Sending
    <3> QED
      BY <1>1, <2>4, <3>1 DEF SaveSent, SaveFailure, IInv, TypeOK
  <2>5. ASSUME NEW k \in Messages, BackoffEnds(k) \/ Retry(k) \/ Cancel(k)
        PROVE  row'[m] = row[m]
    <3>1. k # m
      BY <2>5 DEF BackoffEnds, IsPending, Retry, Cancel
    <3> QED
      BY <1>1, <2>5, <3>1 DEF BackoffEnds, Retry, Cancel, IInv, TypeOK
  <2>6. CASE UNCHANGED row
    BY <2>6
  <2> QED
    BY <1>1, <2>2, <2>3, <2>4, <2>5, <2>6
       DEF Next, RunNext, Start, Crash, Accepts, Refuses, Fails, LosesAnswer, LosesNote,
           Answers, vars
<1>2. IInv /\ [Next]_vars => \A m \in Messages : Stays(m)
  BY <1>1
<1>3. (\A m \in Messages : Stays(m)) =>
        [\A m \in Messages :
          row[m] # None /\ row[m].st = "SENT" /\ m \notin mishap /\ retries = 0
            => row'[m] = row[m]]_vars
  OBVIOUS
<1> QED
  BY <1>2, <1>3, InvHolds, PTL DEF Spec, SentStaysSent
=============================================================================
