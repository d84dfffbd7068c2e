------------------------------- MODULE Outbox -------------------------------
(***************************************************************************)
(* The notification outbox.  A state change that earns a text writes its   *)
(* row in the same transaction; cron runs, which may overlap, read the     *)
(* rows that are due, claim one at a time, hand it to the SMS provider and *)
(* write down what became of it.  Finance may cancel a message, or queue a *)
(* failed one again.                                                       *)
(*                                                                         *)
(* A run reads at most 50 rows, the ones that wait longest: more than any  *)
(* instance has, so the limit is left out.                                 *)
(***************************************************************************)
EXTENDS Integers, FiniteSets

CONSTANTS
  Changes,        \* state changes that earn a message
  Messages,       \* dedupe keys
  Key,            \* the message each change earns
  Unreachable,    \* messages to a number that is not a Kenyan mobile
  Runs,           \* cron runs
  MaxAttempts,    \* MAX_NOTIFICATION_ATTEMPTS
  Configured,     \* is there an SMS provider
  MaxCrashes,     \* bound: crashes
  MaxRetries,     \* bound: messages queued again by hand
  None            \* no row; a run that is not running, or not sending

ASSUME OutboxAssumption ==
  /\ Key \in [Changes -> Messages] /\ Unreachable \subseteq Messages
  /\ MaxAttempts \in Nat \ {0} /\ Configured \in BOOLEAN
  /\ MaxCrashes \in Nat /\ MaxRetries \in Nat
  /\ None \notin Messages

VARIABLES
  change,         \* what became of each state change
  row,            \* Notification
  run,            \* what each run knows, and what it is about to do
  texts,          \* the texts the provider sent, by message
  mishap,         \* messages whose sending was cut off or outlived its backoff
  refused,        \* messages the provider refused for good
  crashes, retries

vars == <<change, row, run, texts, mishap, refused, crashes, retries>>
outside == <<texts, mishap, refused>>
counters == <<crashes, retries>>

-----------------------------------------------------------------------------
(* The rows.                                                               *)

Row == [st : {"PENDING", "SENT", "FAILED", "CANCELLED"}, attempts : Nat,
        due : BOOLEAN]

\* todo: the rows as they were read; on, made: the message at hand and its
\* attempts when it was read.
Run == [todo : SUBSET (Messages \X Nat), on : Messages \cup {None}, made : Nat,
        step : {"NEXT", "SENDING", "ACCEPTED", "ERROR", "REFUSED"}]

ASSUME NoneIsNoRow == None \notin Row \cup Run

EveryNumber(m) == TRUE                       \* fault: takes any number
Reachable(m) == m \notin Unreachable

Queued == [st |-> "PENDING", attempts |-> 0, due |-> TRUE]

IsPending(m) == row[m] # None /\ row[m].st = "PENDING"

DueWithAttemptsLeft ==                       \* fault: leaves the last one out
  {m \in Messages : IsPending(m) /\ row[m].due /\ row[m].attempts < MaxAttempts}
Due == {m \in Messages : IsPending(m) /\ row[m].due}

At(r, step) == run[r] # None /\ run[r].step = step
Sending(r, m) == run[r] # None /\ run[r].on = m

ClaimableByAnyone(m, n) == IsPending(m)      \* fault: whoever has claimed it
Claimable(m, n) == IsPending(m) /\ row[m].attempts = n

Exhausted(n) == n + 1 >= MaxAttempts

-----------------------------------------------------------------------------
Init ==
  /\ change = [c \in Changes |-> "NO"]
  /\ row = [m \in Messages |-> None]
  /\ run = [r \in Runs |-> None]
  /\ texts = [m \in Messages |-> 0]
  /\ mishap = {} /\ refused = {}
  /\ crashes = 0 /\ retries = 0

-----------------------------------------------------------------------------
(* A state change and the message it earns are one transaction.  The       *)
(* insert of a key that exists fails, and PostgreSQL then rolls the whole  *)
(* transaction back, although enqueueNotification catches the error.       *)

Change(c) ==
  /\ change[c] = "NO"
  /\ \/ /\ ~Reachable(Key[c])
        /\ change' = [change EXCEPT ![c] = "DONE"]
        /\ UNCHANGED row
     \/ /\ Reachable(Key[c]) /\ row[Key[c]] = None
        /\ change' = [change EXCEPT ![c] = "DONE"]
        /\ row' = [row EXCEPT ![Key[c]] = Queued]
     \/ /\ Reachable(Key[c]) /\ row[Key[c]] # None
        /\ change' = [change EXCEPT ![c] = "ROLLED_BACK"]
        /\ UNCHANGED row
  /\ UNCHANGED <<run, outside, counters>>

-----------------------------------------------------------------------------
(* dispatchPendingNotifications.                                           *)

Becomes(r, rec) == run' = [run EXCEPT ![r] = rec]

Start(r) ==
  /\ run[r] = None /\ Due # {}
  /\ Becomes(r, [todo |-> {<<m, row[m].attempts>> : m \in Due}, on |-> None,
                 made |-> 0, step |-> "NEXT"])
  /\ UNCHANGED <<change, row, outside, counters>>

\* The run is over, or goes on with the rows it has not looked at.
Done(r, left) ==
  Becomes(r, IF left = {} THEN None
             ELSE [todo |-> left, on |-> None, made |-> 0, step |-> "NEXT"])

Claim(r, m, n) ==
  LET left == run[r].todo \ {<<m, n>>} IN
  /\ At(r, "NEXT") /\ <<m, n>> \in run[r].todo
  /\ IF Claimable(m, n)
     THEN /\ row' = [row EXCEPT ![m].attempts = @ + 1, ![m].due = FALSE]
          /\ Becomes(r, [todo |-> left, on |-> m, made |-> n, step |-> "SENDING"])
     ELSE Done(r, left) /\ UNCHANGED row
  /\ UNCHANGED <<change, outside, counters>>

SaveSent(r) ==
  /\ At(r, "ACCEPTED")
  /\ row' = [row EXCEPT ![run[r].on].st = "SENT"]
  /\ Done(r, run[r].todo)
  /\ UNCHANGED <<change, outside, counters>>

\* Only lastError is written, or the message is given up.
SaveFailure(r) ==
  /\ At(r, "ERROR") \/ At(r, "REFUSED")
  /\ IF At(r, "REFUSED") \/ Exhausted(run[r].made)
     THEN row' = [row EXCEPT ![run[r].on].st = "FAILED"]
     ELSE UNCHANGED row
  /\ Done(r, run[r].todo)
  /\ UNCHANGED <<change, outside, counters>>

Crash(r) ==
  /\ run[r] # None /\ crashes < MaxCrashes
  /\ crashes' = crashes + 1
  /\ mishap' = mishap \cup ({run[r].on} \ {None})
  /\ Becomes(r, None)
  /\ UNCHANGED <<change, row, texts, refused, retries>>

-----------------------------------------------------------------------------
(* The provider, which is not ours, and the clock.                         *)

Answers(r, step) ==
  /\ At(r, "SENDING")
  /\ Becomes(r, [run[r] EXCEPT !.step = step])
  /\ UNCHANGED <<change, row, counters>>

Accepts(r) ==
  /\ Configured
  /\ Answers(r, "ACCEPTED")
  /\ texts' = [texts EXCEPT ![run[r].on] = @ + 1]
  /\ UNCHANGED <<mishap, refused>>

Refuses(r) ==
  /\ Configured
  /\ Answers(r, "REFUSED")
  /\ refused' = refused \cup {run[r].on}
  /\ UNCHANGED <<texts, mishap>>

\* The text is not sent: a server error, or no provider is configured.
Fails(r) == Answers(r, "ERROR") /\ UNCHANGED outside

\* The text is sent, and the answer is lost.
LosesAnswer(r) ==
  /\ Configured
  /\ Answers(r, "ERROR")
  /\ texts' = [texts EXCEPT ![run[r].on] = @ + 1]
  /\ mishap' = mishap \cup {run[r].on}
  /\ UNCHANGED refused

\* The text is sent, and the database fails to note it: the same catch.
LosesNote(r) ==
  /\ At(r, "ACCEPTED")
  /\ Becomes(r, [run[r] EXCEPT !.step = "ERROR"])
  /\ mishap' = mishap \cup {run[r].on}
  /\ UNCHANGED <<change, row, texts, refused, counters>>

\* nextAttemptAt passes; it may do so while the text is still being sent.
BackoffEnds(m) ==
  /\ IsPending(m) /\ ~row[m].due
  /\ row' = [row EXCEPT ![m].due = TRUE]
  /\ mishap' = IF \E r \in Runs : Sending(r, m)
               THEN mishap \cup {m} ELSE mishap
  /\ UNCHANGED <<change, run, texts, refused, counters>>

-----------------------------------------------------------------------------
(* The back office.                                                        *)

Retry(m) ==
  /\ row[m] # None /\ row[m].st = "FAILED" /\ retries < MaxRetries
  /\ row' = [row EXCEPT ![m] = [st |-> "PENDING", attempts |-> 0, due |-> FALSE]]
  /\ retries' = retries + 1
  /\ UNCHANGED <<change, run, outside, crashes>>

Cancel(m) ==
  /\ row[m] # None /\ row[m].st \in {"PENDING", "FAILED"}
  /\ row' = [row EXCEPT ![m].st = "CANCELLED"]
  /\ UNCHANGED <<change, run, outside, counters>>

-----------------------------------------------------------------------------
RunNext(r) ==
  \/ Start(r) \/ SaveSent(r) \/ SaveFailure(r) \/ Crash(r)
  \/ /\ run[r] # None
     /\ \E todo \in run[r].todo : Claim(r, todo[1], todo[2])
  \/ Accepts(r) \/ Refuses(r) \/ Fails(r) \/ LosesAnswer(r) \/ LosesNote(r)

Next ==
  \/ \E c \in Changes : Change(c)
  \/ \E r \in Runs : RunNext(r)
  \/ \E m \in Messages : BackoffEnds(m) \/ Retry(m) \/ Cancel(m)

Spec == Init /\ [][Next]_vars

\* The scheduler calls the dispatcher every minute, a run goes on unless it
\* crashes, and the provider answers in some way.
Goes(r) == run[r] # None /\ \E todo \in run[r].todo : Claim(r, todo[1], todo[2])
Answered(r) == Accepts(r) \/ Refuses(r) \/ Fails(r) \/ LosesAnswer(r)
FairSpec ==
  /\ Spec
  /\ \A r \in Runs : WF_vars(Start(r)) /\ WF_vars(Goes(r)) /\ WF_vars(Answered(r))
                     /\ WF_vars(SaveSent(r) \/ LosesNote(r)) /\ WF_vars(SaveFailure(r))
  /\ \A m \in Messages : WF_vars(BackoffEnds(m))

-----------------------------------------------------------------------------
(* Properties.                                                             *)

\* The rows have their types, and one has a number the text can go to.
TypeOK ==
  /\ change \in [Changes -> {"NO", "DONE", "ROLLED_BACK"}]
  /\ row \in [Messages -> Row \cup {None}]
  /\ \A m \in Unreachable : row[m] = None
  /\ run \in [Runs -> Run \cup {None}]
  /\ texts \in [Messages -> Nat]
  /\ mishap \subseteq Messages /\ refused \subseteq Messages
  /\ crashes \in Nat /\ retries \in Nat

\* Overlapping runs send a message once, whatever each of them read before:
\* only a crash, a lost answer, a send that outlives its backoff or a retry by
\* hand may text somebody twice.
OverlapSendsOnce ==
  \A m \in Messages : m \notin mishap /\ retries = 0 => texts[m] <= 1

\* A message that is not refused for good is given up after all its attempts
\* only, also when the run that gives it up read it long ago.
GivenUpAfterAllAttempts ==
  \A m \in Messages :
    row[m] # None /\ row[m].st = "FAILED" /\ m \notin refused /\ retries = 0
      => row[m].attempts >= MaxAttempts

\* Nothing is written over the record of a text that was sent.
SentStaysSent ==
  [][\A m \in Messages :
       row[m] # None /\ row[m].st = "SENT" /\ m \notin mishap /\ retries = 0
         => row'[m] = row[m]]_vars

\* Every message is in the end sent, given up or cancelled.
EveryMessageSettles ==
  \A m \in Messages : IsPending(m) ~> ~IsPending(m)

-----------------------------------------------------------------------------
(* What the comments say and the code does not keep.                       *)

\* notification-dispatch.ts:34: "Two overlapping cron runs must not both send
\* it."
OneRunSends ==
  \A m \in Messages, q, r \in Runs : Sending(q, m) /\ Sending(r, m) => q = r

\* notification-outbox.ts:40-41: a message that was already queued is "normal",
\* not an error, so it keeps no state change from happening.
NoChangeIsLost == \A c \in Changes : change[c] # "ROLLED_BACK"

\* sms-provider.ts:33: "Queues stay put until a real provider is configured."
QueueStaysPut ==
  ~Configured => \A m \in Messages : row[m] # None => row[m].st # "FAILED"
=============================================================================
