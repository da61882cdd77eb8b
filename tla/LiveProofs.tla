----------------------------- MODULE LiveProofs ------------------------------
(*****************************************************************************)
(* What the live side of the program promises: the results of a batch of    *)
(* orders, the ledger of the daily pipeline, the predictions with their     *)
(* history and the positions file, with workers killed and threads that     *)
(* overlap at any moment.                                                   *)
(*****************************************************************************)
EXTENDS DailyPipeline, LivePredictions, Positions, SequenceTheorems, SetLemmas, TLAPS

-----------------------------------------------------------------------------
(* LiveExecution: the results of a batch of orders.                         *)

Answers == [of : Nat, taken : BOOLEAN]

ExecShape ==
    /\ results \in Seq(Results)
    /\ halted \in BOOLEAN
    /\ wire \in Seq(Nat) /\ answers \in Seq(Answers)

\* Before the batch there is nothing; while an answer is awaited the batch goes on.
Begins ==
    /\ step = "idle" => ~halted /\ results = <<>> /\ wire = <<>> /\ answers = <<>> /\ placed = {}
    /\ step = "wait" => ~halted

FailedAt(i) == i \in 1..Len(results) /\ results[i].check = "submit_failed"

\* The request that is, or was last, on its way to the broker.
Due(i) == IF halted THEN FailedAt(i) ELSE step = "wait" /\ i = Current

\* A failed submission halts the batch, and nothing after it is sent.
HaltsOnFailure ==
    \A i \in 1..Len(results) : FailedAt(i) =>
        /\ halted
        /\ \A j \in placed : j <= i
        /\ \A j \in i + 1 .. Len(results) : results[j].check = "skipped"

\* One command at a time is in the channel: an answer that comes late is the answer to
\* the failed request, and there is no next command to read it.
OneOnItsWay ==
    /\ wire = <<>> \/ answers = <<>>
    /\ Len(wire) <= 1 /\ Len(answers) <= 1
    /\ \A i \in DOMAIN wire : Due(wire[i]) /\ wire[i] \notin placed
    /\ \A i \in DOMAIN answers : /\ Due(answers[i].of)
                                 /\ answers[i].taken <=> answers[i].of \in placed

\* What the broker has taken is reported as accepted or as failed, or on its way.
Told ==
    \A i \in placed :
        \/ Due(i)
        \/ i \in 1..Len(results) /\ results[i].accepted

ExecInv ==
    /\ ExecShape /\ Begins /\ HaltsOnFailure /\ OneOnItsWay /\ Told
    /\ IdIsOwn /\ DryRunSendsNothing

-----------------------------------------------------------------------------

LEMMA OnlyRequest ==
    ASSUME NEW S, NEW s \in Seq(S), s # <<>>, Len(s) <= 1
    PROVE  1 \in DOMAIN s /\ s[1] \in S /\ Tail(s) = <<>>
<1>1. Len(s) \in Nat \ {0} /\ DOMAIN s = 1..Len(s)
  BY EmptySeq, LenProperties, Zenon
<1>2. Len(s) = 1
  BY <1>1
<1>3. Tail(s) \in Seq(S) /\ Len(Tail(s)) = 0
  BY <1>2, HeadTailProperties
<1>4. Tail(s) = <<>>
  <2>1. Tail(s) # <<>> => Len(Tail(s)) \in Nat \ {0}
    BY <1>3, EmptySeq, Zenon
  <2> QED BY <1>3, <2>1
<1> QED BY <1>1, <1>2, <1>4, ElementOfSeq

\* What an appended result leaves as it was.
LEMMA RequestReported ==
    ASSUME results \in Seq(Results), NEW a \in BOOLEAN, NEW c \in PostChecks, NEW n \in Nat,
           Report(a, c, n)
    PROVE  /\ results' \in Seq(Results)
           /\ Len(results') = Len(results) + 1 /\ Len(results) \in Nat
           /\ \A i \in 1..Len(results) : results'[i] = results[i]
           /\ results'[Current] = [accepted |-> a, check |-> c, id |-> n]
           /\ step' = "next"
<1>1. [accepted |-> a, check |-> c, id |-> n] \in Results
  BY DEF Results
<1> QED BY <1>1 DEF Report, Current

LEMMA ExecInvInit == ASSUME NEW held, ExecInit(held) PROVE ExecInv
<1>1. /\ results = <<>> /\ wire = <<>> /\ answers = <<>> /\ placed = {}
      /\ step = "idle" /\ halted = FALSE
  BY DEF ExecInit
<1>2. ExecShape
  BY <1>1, EmptySeq DEF ExecShape
<1>3. Begins /\ OneOnItsWay /\ Told
  BY <1>1 DEF Begins, OneOnItsWay, Told
<1>4. HaltsOnFailure /\ IdIsOwn /\ DryRunSendsNothing
  BY <1>1 DEF HaltsOnFailure, IdIsOwn, DryRunSendsNothing
<1> QED BY <1>2, <1>3, <1>4 DEF ExecInv

\* The request is reported without having been sent.
LEMMA NotSentStep ==
    ASSUME ExecInv, step = "next", NEW a \in BOOLEAN, NEW c \in PostChecks, NEW n \in Nat,
           Report(a, c, n),
           c # "submit_failed", halted => c = "skipped",
           c = "order_id_received" => n = Current /\ InProcess,
           UNCHANGED <<kind, dry, halted, wire, answers, placed>>
    PROVE  ExecInv'
<1>1. /\ results' \in Seq(Results)
      /\ Len(results') = Len(results) + 1 /\ Len(results) \in Nat
      /\ \A i \in 1..Len(results) : results'[i] = results[i]
      /\ results'[Current] = [accepted |-> a, check |-> c, id |-> n]
      /\ step' = "next"
  BY RequestReported DEF ExecInv, ExecShape
<1>2. \A i : FailedAt(i)' <=> FailedAt(i)
  BY <1>1 DEF FailedAt, Current
<1>3. \A i : Due(i) => Due(i)'
  BY <1>2 DEF Due
<1>4. ExecShape'
  BY <1>1 DEF ExecInv, ExecShape
<1>5. Begins'
  BY <1>1 DEF ExecInv, Begins
<1>6. HaltsOnFailure'
  <2> SUFFICES ASSUME NEW i \in 1..Len(results'), FailedAt(i)'
               PROVE  /\ halted'
                      /\ \A j \in placed' : j <= i
                      /\ \A j \in i + 1 .. Len(results') : results'[j].check = "skipped"
    BY DEF HaltsOnFailure
  <2>1. i \in 1..Len(results) /\ FailedAt(i)
    BY <1>2 DEF FailedAt
  <2>2. /\ halted
        /\ \A j \in placed : j <= i
        /\ \A j \in i + 1 .. Len(results) : results[j].check = "skipped"
    BY <2>1 DEF ExecInv, HaltsOnFailure
  <2>3. ASSUME NEW j \in i + 1 .. Len(results') PROVE results'[j].check = "skipped"
    BY <1>1, <2>1, <2>2 DEF Current
  <2> QED BY <2>2, <2>3
<1>7. OneOnItsWay'
  BY <1>3 DEF ExecInv, OneOnItsWay
<1>8. Told'
  BY <1>1, <1>3 DEF ExecInv, Told
<1>9. IdIsOwn'
  <2> SUFFICES ASSUME NEW i \in DOMAIN results', results'[i].check = "order_id_received"
               PROVE  OwnsId(i)'
    BY DEF IdIsOwn
  <2>1. InProcess' = InProcess
    BY DEF InProcess, ObeysDryRun
  <2>2. CASE i \in 1..Len(results)
    BY <1>1, <2>1, <2>2, SMTT(30) DEF ExecInv, IdIsOwn, ExecShape, OwnsId
  <2>3. CASE i = Current
    BY <1>1, <2>1, <2>3 DEF OwnsId
  <2> QED BY <1>1, <2>2, <2>3 DEF Current
<1>10. DryRunSendsNothing'
  BY DEF ExecInv, DryRunSendsNothing, ObeysDryRun
<1> QED BY <1>4, <1>5, <1>6, <1>7, <1>8, <1>9, <1>10 DEF ExecInv

\* The submission fails, with the request on its way or answered or before it leaves: the
\* batch halts.
LEMMA RequestFailStep ==
    ASSUME ExecInv, ~halted, Fail,
           UNCHANGED <<kind, dry, wire, placed>>,
           answers' = answers \/ answers' = <<>> \/ (answers # <<>> /\ answers' = Tail(answers))
    PROVE  ExecInv'
<1>1. /\ results' \in Seq(Results)
      /\ Len(results') = Len(results) + 1 /\ Len(results) \in Nat
      /\ \A i \in 1..Len(results) : results'[i] = results[i]
      /\ results'[Current] = [accepted |-> FALSE, check |-> "submit_failed", id |-> 0]
      /\ step' = "next" /\ halted'
  BY RequestReported DEF ExecInv, ExecShape, Fail, PostChecks
<1>2. ~halted /\ Current \in 1..Len(results')
  BY <1>1 DEF ExecInv, Begins, Current
<1>3. \A i : FailedAt(i)' <=> i = Current
  BY <1>1, <1>2 DEF FailedAt, Current, ExecInv, HaltsOnFailure
<1>4. \A i : Due(i) => Due(i)'
  BY <1>1, <1>2, <1>3 DEF Due
<1>5. answers' \in Seq(Answers) /\ (answers' = answers \/ answers' = <<>>)
  <2>1. answers \in Seq(Answers) /\ Len(answers) <= 1
    BY DEF ExecInv, ExecShape, OneOnItsWay
  <2>2. answers # <<>> => Tail(answers) = <<>>
    BY <2>1, OnlyRequest
  <2> QED BY <2>1, <2>2, EmptySeq
<1>6. ExecShape'
  BY <1>1, <1>5 DEF ExecInv, ExecShape, Fail
<1>7. Begins'
  BY <1>1 DEF Begins
<1>8. HaltsOnFailure'
  <2>1. \A j \in placed : j <= Current
    BY <1>1, <1>2 DEF ExecInv, Told, Due, Current
  <2> QED BY <1>1, <1>3, <2>1 DEF HaltsOnFailure, Current
<1>9. OneOnItsWay'
  BY <1>4, <1>5 DEF ExecInv, OneOnItsWay
<1>10. Told'
  BY <1>1, <1>4 DEF ExecInv, Told
<1>11. IdIsOwn'
  <2> SUFFICES ASSUME NEW i \in DOMAIN results', results'[i].check = "order_id_received"
               PROVE  OwnsId(i)'
    BY DEF IdIsOwn
  <2>1. InProcess' = InProcess
    BY DEF InProcess, ObeysDryRun
  <2>2. i # Current
    BY <1>1
  <2>3. i \in 1..Len(results)
    BY <1>1, <2>2 DEF Current
  <2> QED BY <1>1, <2>1, <2>3 DEF ExecInv, IdIsOwn, ExecShape, OwnsId
<1>12. DryRunSendsNothing'
  BY DEF ExecInv, DryRunSendsNothing, ObeysDryRun
<1> QED BY <1>6, <1>7, <1>8, <1>9, <1>10, <1>11, <1>12 DEF ExecInv

LEMMA NothingOnItsWay == ASSUME wire' = <<>>, answers' = <<>> PROVE OneOnItsWay'
BY DEF OneOnItsWay

\* The answer says that the order is taken, or the adapter takes any answer for that.
LEMMA AcceptedStep ==
    ASSUME ExecInv, step = "wait", answers # <<>>,
           NEW c \in PostChecks \ {"submit_failed"}, NEW n \in Nat,
           Report(TRUE, c, n),
           c = "order_id_received" =>
               \/ answers[1].taken /\ n = answers[1].of
               \/ ~answers[1].taken /\ n = 0 /\ kind = "tdx",
           answers' = Tail(answers),
           UNCHANGED <<kind, dry, halted, wire, placed>>
    PROVE  ExecInv'
<1>1. /\ results' \in Seq(Results)
      /\ Len(results') = Len(results) + 1 /\ Len(results) \in Nat
      /\ \A i \in 1..Len(results) : results'[i] = results[i]
      /\ results'[Current] = [accepted |-> TRUE, check |-> c, id |-> n]
      /\ step' = "next"
  BY RequestReported DEF ExecInv, ExecShape
<1>2. ~halted
  BY DEF ExecInv, Begins
<1>3. \A i : ~FailedAt(i)
  BY <1>2 DEF FailedAt, ExecInv, HaltsOnFailure
<1>4. \A i : ~FailedAt(i)'
  BY <1>1, <1>3 DEF FailedAt, Current
<1>5. answers' = <<>> /\ wire = <<>> /\ 1 \in DOMAIN answers
  BY OnlyRequest DEF ExecInv, ExecShape, OneOnItsWay
<1>6. answers[1].of = Current /\ (answers[1].taken <=> Current \in placed)
  BY <1>2, <1>5 DEF ExecInv, OneOnItsWay, Due
<1>7. ExecShape'
  BY <1>1, <1>5 DEF ExecInv, ExecShape
<1>8. Begins'
  BY <1>1 DEF Begins
<1>9. HaltsOnFailure'
  BY <1>4 DEF HaltsOnFailure
<1>10. OneOnItsWay'
  <2>1. wire' = <<>> /\ answers' = <<>>
    BY <1>5, Zenon
  <2> QED BY <2>1, NothingOnItsWay
<1>11. Told'
  BY <1>1, <1>2 DEF ExecInv, Told, Due, Current
<1>12. IdIsOwn'
  <2> SUFFICES ASSUME NEW i \in DOMAIN results', results'[i].check = "order_id_received"
               PROVE  OwnsId(i)'
    BY DEF IdIsOwn
  <2>1. InProcess' = InProcess
    BY DEF InProcess, ObeysDryRun
  <2>2. CASE i = Current
    BY <1>1, <1>6, <2>2 DEF OwnsId
  <2>3. CASE i \in 1..Len(results)
    BY <1>1, <2>1, <2>3 DEF ExecInv, IdIsOwn, ExecShape, OwnsId
  <2> QED BY <1>1, <2>2, <2>3 DEF Current
<1>13. DryRunSendsNothing'
  BY DEF ExecInv, DryRunSendsNothing, ObeysDryRun
<1> QED BY <1>7, <1>8, <1>9, <1>10, <1>11, <1>12, <1>13 DEF ExecInv

\* The broker looks at a command, now or after the batch has given it up.
LEMMA BrokerStep ==
    ASSUME ExecInv, wire # <<>>, wire' = Tail(wire), NEW taken \in BOOLEAN,
           placed' = IF taken THEN placed \union {wire[1]} ELSE placed,
           answers' = IF Heard(wire[1]) THEN Append(answers, [of |-> wire[1], taken |-> taken])
                                        ELSE answers,
           UNCHANGED <<kind, dry, step, results, halted>>
    PROVE  ExecInv'
<1>1. /\ wire \in Seq(Nat) /\ answers = <<>> /\ wire' = <<>> /\ 1 \in DOMAIN wire
      /\ wire[1] \in Nat
  BY OnlyRequest DEF ExecInv, ExecShape, OneOnItsWay
<1>2. Due(wire[1]) /\ wire[1] \notin placed
  BY <1>1 DEF ExecInv, OneOnItsWay
<1>3. \A i : (FailedAt(i)' <=> FailedAt(i)) /\ (Due(i)' <=> Due(i))
  BY DEF FailedAt, Due, Current
<1>4. answers' = <<>> \/ answers' = <<[of |-> wire[1], taken |-> taken]>>
  BY <1>1
<1>5. ExecShape'
  <2>1. [of |-> wire[1], taken |-> taken] \in Answers
    BY <1>1 DEF Answers
  <2>2. answers' \in Seq(Answers) /\ wire' \in Seq(Nat)
    BY <1>1, <1>4, <2>1, EmptySeq
  <2> QED BY <2>2 DEF ExecInv, ExecShape
<1>6. Begins'
  BY DEF ExecInv, Begins
<1>7. HaltsOnFailure'
  <2> SUFFICES ASSUME NEW i \in 1..Len(results), FailedAt(i)
               PROVE  /\ halted
                      /\ \A j \in placed' : j <= i
                      /\ \A j \in i + 1 .. Len(results) : results[j].check = "skipped"
    BY <1>3 DEF HaltsOnFailure
  <2>1. /\ halted
        /\ \A j \in placed : j <= i
        /\ \A j \in i + 1 .. Len(results) : results[j].check = "skipped"
    BY DEF ExecInv, HaltsOnFailure
  <2>2. wire[1] <= i
    BY <1>1, <1>2, <2>1 DEF Due, FailedAt
  <2> QED BY <2>1, <2>2
<1>8. OneOnItsWay'
  BY <1>1, <1>2, <1>3, <1>4 DEF OneOnItsWay
<1>9. Told'
  BY <1>2, <1>3 DEF ExecInv, Told
<1>10. IdIsOwn'
  <2> SUFFICES ASSUME NEW i \in DOMAIN results, results[i].check = "order_id_received"
               PROVE  OwnsId(i)'
    BY DEF IdIsOwn
  <2>1. OwnsId(i) /\ i \in 1..Len(results) /\ Len(results) \in Nat
    BY DEF ExecInv, IdIsOwn, ExecShape
  <2>2. wire[1] # i
    BY <1>2, <2>1 DEF Due, FailedAt, Current
  <2>3. i \in placed' <=> i \in placed
    BY <2>2
  <2> QED BY <2>1, <2>3 DEF OwnsId, InProcess, ObeysDryRun
<1>11. DryRunSendsNothing'
  BY DEF ExecInv, DryRunSendsNothing, ObeysDryRun
<1> QED BY <1>5, <1>6, <1>7, <1>8, <1>9, <1>10, <1>11 DEF ExecInv

-----------------------------------------------------------------------------

\* A batch begins: all of it is checked one by one, or the preview refuses it at once.
LEMMA BeginStep ==
    ASSUME ExecInv, step = "idle",
           \/ results' = results /\ step' = "next"
           \/ /\ step' = "done" /\ results' \in Seq(Results)
              /\ \A i \in DOMAIN results' : results'[i].check = "not_submitted",
           UNCHANGED <<kind, dry, halted, wire, answers, placed>>
    PROVE  ExecInv'
<1>1. ~halted /\ results = <<>> /\ wire = <<>> /\ answers = <<>> /\ placed = {}
  BY DEF ExecInv, Begins
<1>2. ExecShape'
  BY DEF ExecInv, ExecShape
<1>3. Begins'
  BY DEF Begins
<1>4. \A i \in DOMAIN results' : results'[i].check = "not_submitted"
  BY <1>1
<1>5. HaltsOnFailure' /\ IdIsOwn'
  BY <1>2, <1>4 DEF HaltsOnFailure, IdIsOwn, FailedAt, ExecShape
<1>6. OneOnItsWay' /\ Told'
  BY <1>1 DEF OneOnItsWay, Told
<1>7. DryRunSendsNothing'
  BY DEF ExecInv, DryRunSendsNothing, ObeysDryRun
<1> QED BY <1>2, <1>3, <1>5, <1>6, <1>7 DEF ExecInv

LEMMA SendStep ==
    ASSUME ExecInv, NEW answered \in BOOLEAN, Send(answered)
    PROVE  ExecInv'
<1>1. /\ step = "next" /\ ~halted /\ ~InProcess
      /\ wire' = Append(wire, Current) /\ step' = "wait"
      /\ UNCHANGED <<kind, dry, results, halted, answers, placed>>
  BY DEF Send, Ready, requestVars, accountVars
<1>2. wire = <<>> /\ answers = <<>> /\ Current \notin placed
  <2>1. \A i : ~Due(i)
    BY <1>1 DEF Due
  <2>2. wire = <<>>
    <3>1. wire # <<>> => 1 \in DOMAIN wire
      BY OnlyRequest DEF ExecInv, ExecShape, OneOnItsWay
    <3> QED BY <2>1, <3>1 DEF ExecInv, OneOnItsWay
  <2>3. answers = <<>>
    <3>1. answers # <<>> => 1 \in DOMAIN answers
      BY OnlyRequest DEF ExecInv, ExecShape, OneOnItsWay
    <3> QED BY <2>1, <3>1 DEF ExecInv, OneOnItsWay
  <2>4. Current \notin placed
    BY <2>1 DEF ExecInv, ExecShape, Told, Current
  <2> QED BY <2>2, <2>3, <2>4
<1>3. Current \in Nat /\ Current' = Current
  BY <1>1 DEF ExecInv, ExecShape, Current
<1>4. wire' = <<Current>>
  BY <1>1, <1>2
<1>5. Due(Current)' /\ \A i : ~Due(i)
  BY <1>1, <1>3 DEF Due
<1>6. ExecShape'
  BY <1>1, <1>3, <1>4 DEF ExecInv, ExecShape
<1>7. Begins'
  BY <1>1 DEF Begins
<1>8. HaltsOnFailure'
  BY <1>1 DEF ExecInv, HaltsOnFailure, FailedAt
<1>9. OneOnItsWay'
  BY <1>1, <1>2, <1>3, <1>4, <1>5 DEF OneOnItsWay
<1>10. Told'
  BY <1>1, <1>5 DEF ExecInv, Told
<1>11. IdIsOwn'
  BY <1>1 DEF ExecInv, IdIsOwn, OwnsId, InProcess, ObeysDryRun
<1>12. DryRunSendsNothing'
  BY <1>1 DEF DryRunSendsNothing, InProcess, ObeysDryRun
<1> QED BY <1>6, <1>7, <1>8, <1>9, <1>10, <1>11, <1>12 DEF ExecInv

\* What an order may be reported with that is accepted without an id.
Unnumbered == {"matched_in_query_orders", "query_orders_failed", "submitted_but_not_observed"}

LEMMA SubmitStep == ExecInv /\ Submit => ExecInv'
<1> SUFFICES ASSUME ExecInv, Submit PROVE ExecInv'
  OBVIOUS
<1> USE DEF requestVars, channelVars, accountVars
<1>0. Current \in Nat
  BY DEF ExecInv, ExecShape, Current
<1>1. CASE Skip
  <2>1. /\ step = "next" /\ halted /\ Report(FALSE, "skipped", 0)
        /\ UNCHANGED <<kind, dry, halted, wire, answers, placed>>
    BY <1>1 DEF Skip
  <2> QED BY <2>1, NotSentStep DEF PostChecks
<1>2. ASSUME NEW answered \in BOOLEAN, Reject(answered) PROVE ExecInv'
  <2>1. /\ step = "next" /\ ~halted /\ Report(FALSE, "not_checked", 0)
        /\ UNCHANGED <<kind, dry, halted, wire, answers, placed>>
    BY <1>2 DEF Reject
  <2> QED BY <2>1, NotSentStep DEF PostChecks
<1>3. ASSUME NEW answered \in BOOLEAN, Rehearse(answered) PROVE ExecInv'
  <2>1. /\ step = "next" /\ ~halted /\ InProcess
        /\ UNCHANGED <<kind, dry, wire, answers, placed>>
        /\ \/ Report(TRUE, "submitted_but_not_observed", 0) /\ UNCHANGED halted
           \/ Fail
           \/ Report(TRUE, "order_id_received", Current) /\ UNCHANGED halted
    BY <1>3 DEF Rehearse, Ready
  <2>2. CASE Report(TRUE, "submitted_but_not_observed", 0) /\ UNCHANGED halted
    BY <2>1, <2>2, NotSentStep DEF PostChecks
  <2>3. CASE Report(TRUE, "order_id_received", Current) /\ UNCHANGED halted
    BY <1>0, <2>1, <2>3, NotSentStep DEF PostChecks
  <2>4. CASE Fail
    BY <2>1, <2>4, RequestFailStep
  <2> QED BY <2>1, <2>2, <2>3, <2>4
<1>4. ASSUME NEW answered \in BOOLEAN, Send(answered) PROVE ExecInv'
  BY <1>4, SendStep
<1>5. CASE BrokerTakes
  <2>1. /\ wire # <<>> /\ wire' = Tail(wire) /\ Head(wire) = wire[1]
        /\ placed' = placed \union {wire[1]}
        /\ answers' = IF Heard(wire[1]) THEN Append(answers, [of |-> wire[1], taken |-> TRUE])
                                        ELSE answers
        /\ UNCHANGED <<kind, dry, step, results, halted>>
    BY <1>5 DEF BrokerTakes
  <2> QED BY <2>1, BrokerStep
<1>6. CASE BrokerRefuses
  <2>1. /\ wire # <<>> /\ wire' = Tail(wire)
        /\ answers' = IF Heard(wire[1]) THEN Append(answers, [of |-> wire[1], taken |-> FALSE])
                                        ELSE answers
        /\ UNCHANGED <<kind, dry, step, results, halted, placed>>
    BY <1>6 DEF BrokerRefuses
  <2> QED BY <2>1, BrokerStep
<1>7. CASE ReadAnswer
  <2>1. /\ step = "wait" /\ answers # <<>> /\ answers' = Tail(answers)
        /\ UNCHANGED <<kind, dry, wire, placed>>
    BY <1>7 DEF ReadAnswer
  <2>2. Head(answers) = answers[1] /\ answers[1] \in Answers
    BY <2>1, OnlyRequest DEF ExecInv, ExecShape, OneOnItsWay
  <2>3. CASE Fail
    <3>1. ~halted
      BY <2>1 DEF ExecInv, Begins
    <3> QED BY <2>1, <2>3, <3>1, RequestFailStep
  <2>4. CASE /\ answers[1].taken /\ Report(TRUE, "order_id_received", answers[1].of)
             /\ UNCHANGED halted
    BY <2>1, <2>2, <2>4, AcceptedStep DEF PostChecks, Answers
  <2>5. CASE /\ UNCHANGED halted /\ \E c \in Unnumbered : Report(TRUE, c, 0)
    BY <2>1, <2>5, AcceptedStep DEF PostChecks, Unnumbered
  <2>6. CASE /\ ~answers[1].taken /\ kind = "tdx" /\ Report(TRUE, "order_id_received", 0)
             /\ UNCHANGED halted
    BY <2>1, <2>2, <2>6, AcceptedStep DEF PostChecks
  <2>7. \/ Fail
        \/ /\ answers[1].taken /\ Report(TRUE, "order_id_received", answers[1].of)
           /\ UNCHANGED halted
        \/ /\ UNCHANGED halted /\ \E c \in Unnumbered : Report(TRUE, c, 0)
        \/ /\ ~answers[1].taken /\ kind = "tdx" /\ Report(TRUE, "order_id_received", 0)
           /\ UNCHANGED halted
    <3>1. PostCheck(answers[1].of) \subseteq Unnumbered
      BY DEF PostCheck, Unnumbered
    <3> QED BY <1>7, <2>2, <3>1 DEF ReadAnswer
  <2> QED BY <2>3, <2>4, <2>5, <2>6, <2>7
<1>8. CASE NoAnswer
  <2>1. /\ ~halted /\ Fail /\ (answers' = answers \/ answers' = <<>>)
        /\ UNCHANGED <<kind, dry, wire, placed>>
    BY <1>8 DEF NoAnswer, ExecInv, Begins
  <2> QED BY <2>1, RequestFailStep
<1>9. CASE AllReported
  <2>1. /\ step = "next" /\ step' = "done"
        /\ UNCHANGED <<kind, dry, results, halted, wire, answers, placed>>
    BY <1>9 DEF AllReported
  <2>2. \A i : (FailedAt(i)' <=> FailedAt(i)) /\ (Due(i) <=> Due(i)')
    BY <2>1 DEF FailedAt, Due, Current
  <2>3. ExecShape' /\ Begins' /\ DryRunSendsNothing'
    BY <2>1 DEF ExecInv, ExecShape, Begins, DryRunSendsNothing, ObeysDryRun
  <2>4. HaltsOnFailure' /\ OneOnItsWay' /\ Told'
    BY <2>1, <2>2 DEF ExecInv, HaltsOnFailure, OneOnItsWay, Told
  <2>5. IdIsOwn'
    BY <2>1 DEF ExecInv, IdIsOwn, OwnsId, InProcess, ObeysDryRun
  <2> QED BY <2>3, <2>4, <2>5 DEF ExecInv
<1> QED BY <1>1, <1>2, <1>3, <1>4, <1>5, <1>6, <1>7, <1>8, <1>9 DEF Submit

\* The account may move: that says nothing of the batch.
LEMMA QuietStep ==
    ASSUME ExecInv, UNCHANGED <<kind, dry, step, results, halted, wire, answers, placed>>
    PROVE  ExecInv'
<1>1. \A i : (FailedAt(i)' <=> FailedAt(i)) /\ (Due(i) <=> Due(i)')
  BY DEF FailedAt, Due, Current
<1>2. ExecShape' /\ Begins' /\ DryRunSendsNothing'
  BY DEF ExecInv, ExecShape, Begins, DryRunSendsNothing, ObeysDryRun
<1>3. HaltsOnFailure' /\ OneOnItsWay' /\ Told'
  BY <1>1 DEF ExecInv, HaltsOnFailure, OneOnItsWay, Told
<1>4. IdIsOwn'
  BY DEF ExecInv, IdIsOwn, OwnsId, InProcess, ObeysDryRun
<1> QED BY <1>2, <1>3, <1>4 DEF ExecInv

LEMMA FillsKeepResults ==
    ASSUME ExecInv, NEW s \in Stock, BrokerFills(s) \/ BrokerDrops(s)
    PROVE  ExecInv'
<1>1. UNCHANGED <<kind, dry, step, results, halted, wire, answers, placed>>
  BY DEF BrokerFills, BrokerDrops, requestVars, channelVars
<1> QED BY <1>1, QuietStep

LEMMA ExecInvStep ==
    ASSUME NEW batches \in SUBSET Seq(Orders), ExecInv, [ExecNext(batches)]_execVars
    PROVE  ExecInv'
<1>1. CASE UNCHANGED execVars
  <2>1. UNCHANGED <<kind, dry, step, results, halted, wire, answers, placed>>
    BY <1>1, Zenon DEF execVars, requestVars, channelVars, accountVars
  <2> QED BY <2>1, QuietStep
<1>2. ASSUME NEW b, SubmitMany(b) PROVE ExecInv'
  BY <1>2, BeginStep DEF SubmitMany, channelVars, accountVars
<1>3. ASSUME NEW b \in batches, SubmitOrders(b) PROVE ExecInv'
  <2>1. CASE SubmitMany(SellsFirst(b))
    BY <1>2, <2>1
  <2>2. CASE /\ step = "idle" /\ step' = "done"
             /\ results' = [i \in DOMAIN b |-> [accepted |-> FALSE, check |-> "not_submitted", id |-> 0]]
             /\ UNCHANGED <<kind, dry, halted, wire, answers, placed>>
    <3>1. [accepted |-> FALSE, check |-> "not_submitted", id |-> 0] \in Results
      BY DEF Results, PostChecks
    <3>2. b \in Seq(Orders)
      OBVIOUS
    <3>3. results' \in Seq(Results)
      <4>1. Len(b) \in Nat /\ DOMAIN b = 1..Len(b)
        BY <3>2, LenProperties, Zenon
      <4>2. results' \in [1..Len(b) -> Results]
        BY <2>2, <3>1, <4>1
      <4> QED BY <4>1, <4>2
    <3>4. \A i \in DOMAIN results' : results'[i].check = "not_submitted"
      BY <2>2
    <3> QED BY <2>2, <3>3, <3>4, BeginStep
  <2> QED BY <1>3, <2>1, <2>2 DEF SubmitOrders, channelVars, accountVars
<1> QED BY <1>1, <1>2, <1>3, SubmitStep, FillsKeepResults DEF ExecNext

LEMMA ExecInvImplies == ExecInv => OrdersAccounted
<1> SUFFICES ASSUME ExecInv PROVE DoubtConfined
  BY DEF ExecInv, OrdersAccounted
<1> SUFFICES ASSUME NEW i \in placed, i <= Len(results), ~results[i].accepted
             PROVE  /\ results[i].check = "submit_failed"
                    /\ \A j \in placed : j <= i
                    /\ \A j \in i + 1 .. Len(results) : results[j].check = "skipped"
  BY DEF DoubtConfined
<1>1. Due(i)
  BY DEF ExecInv, Told
<1>2. FailedAt(i)
  BY <1>1 DEF Due, Current, ExecInv, ExecShape
<1> QED BY <1>2 DEF FailedAt, ExecInv, HaltsOnFailure

\* Whatever is submitted through whichever adapter, and however late the broker acts:
\* what the results say of the orders at the broker is true, and one order at most is in
\* doubt.
THEOREM OrdersAreAccounted ==
    ASSUME NEW batches \in SUBSET Seq(Orders), NEW held
    PROVE  ExecSpec(batches, held) => []OrdersAccounted
<1>1. ExecInit(held) => ExecInv
  BY ExecInvInit
<1>2. ExecInv /\ [ExecNext(batches)]_execVars => ExecInv'
  BY ExecInvStep
<1> QED BY <1>1, <1>2, ExecInvImplies, PTL DEF ExecSpec

-----------------------------------------------------------------------------
(* DailyPipeline: the ledger agrees with the account.                       *)

\* The lots of the orders I of the batch b.
LotsIn(b, I) == SumOver(I, [i \in I |-> b[i].lots])

LotsAreNumbers(b, I) == IsFiniteSet(I) /\ \A i \in I : b[i].lots \in Int

LEMMA LotsIs ==
    ASSUME NEW I, LotsAreNumbers(batch, I)
    PROVE  Lots(I) = LotsIn(batch, I)
<1> DEFINE v == [i \in I |-> batch[i].lots]
           Solves(g) == g = [s \in SUBSET I |->
                               IF s = {} THEN 0 ELSE batch[First(s)].lots + g[s \ {First(s)}]]
<1>1. Lots(I) = (CHOOSE g : Solves(g))[I]
  BY DEF Lots, FoldSet, MapThenFoldSet, First
<1>2. \A s \in SUBSET I : s # {} => v[First(s)] = batch[First(s)].lots
  BY FirstIsIn
<1>3. PICK g : Adds(g, I, v)
  <2>1. v \in [I -> Int]
    BY DEF LotsAreNumbers
  <2> HIDE DEF v
  <2> QED BY <2>1, AddsExists DEF LotsAreNumbers
<1> HIDE DEF v
<1>4. Solves(g)
  BY <1>2, <1>3 DEF Adds
<1> DEFINE h == CHOOSE f : Solves(f)
<1>5. Solves(h)
  <2> HIDE DEF Solves
  <2> QED BY <1>4
<1> HIDE DEF h
<1>6. Adds(h, I, v)
  BY <1>2, <1>5 DEF Adds
<1> HIDE DEF Solves
<1> QED BY <1>1, <1>6, SumIs DEF h, LotsIn, v, LotsAreNumbers

LEMMA LotsType ==
    ASSUME NEW b, NEW I, LotsAreNumbers(b, I)
    PROVE  LotsIn(b, I) \in Int
<1> DEFINE v == [i \in I |-> b[i].lots]
<1>1. v \in [I -> Int]
  BY DEF LotsAreNumbers
<1> HIDE DEF v
<1>2. SumOver(I, v) \in Int
  BY <1>1, SumType DEF LotsAreNumbers
<1> QED BY <1>2 DEF LotsIn, v

LEMMA LotsOfNone ==
    ASSUME NEW b
    PROVE  LotsIn(b, {}) = 0 /\ LotsAreNumbers(b, {})
BY SumEmpty, FS_EmptySet DEF LotsIn, LotsAreNumbers

LEMMA LotsOfOneMore ==
    ASSUME NEW b, NEW I, LotsAreNumbers(b, I), NEW j, j \notin I, b[j].lots \in Int
    PROVE  /\ LotsAreNumbers(b, I \union {j})
           /\ LotsIn(b, I \union {j}) = b[j].lots + LotsIn(b, I)
<1> DEFINE J == I \union {j}
           v == [i \in J |-> b[i].lots]
           w == [i \in I |-> b[i].lots]
<1>1. LotsAreNumbers(b, J)
  BY FS_AddElement DEF LotsAreNumbers
<1>2. /\ v \in [J -> Int] /\ j \in J /\ J \ {j} = I
      /\ \A i \in J \ {j} : w[i] = v[i]
      /\ v[j] = b[j].lots
  BY DEF LotsAreNumbers
<1>3. IsFiniteSet(J)
  BY <1>1 DEF LotsAreNumbers
<1> HIDE DEF v, w, J
<1>4. SumOver(J, v) = v[j] + SumOver(J \ {j}, w)
  BY <1>2, <1>3, SumSplit
<1>5. SumOver(J, v) = b[j].lots + SumOver(I, w)
  BY <1>2, <1>4
<1> QED BY <1>1, <1>5 DEF LotsIn, J, v, w

LEMMA AllStocksIs ==
    ASSUME NEW f \in [Stock -> Int]
    PROVE  AllStocks(f) = SumOver(Stock, f)
<1> DEFINE Solves(g) == g = [t \in SUBSET Stock |->
                               IF t = {} THEN 0 ELSE f[First(t)] + g[t \ {First(t)}]]
<1>1. AllStocks(f) = (CHOOSE g : Solves(g))[Stock]
  BY DEF AllStocks, FoldSet, MapThenFoldSet, First
<1>2. IsFiniteSet(Stock)
  BY PipelineAssumption DEF PipelineAssumption
<1>3. PICK g : Adds(g, Stock, f)
  BY <1>2, AddsExists
<1>4. Solves(g)
  BY <1>3 DEF Adds
<1> DEFINE h == CHOOSE e : Solves(e)
<1>5. Solves(h)
  <2> HIDE DEF Solves
  <2> QED BY <1>4
<1> HIDE DEF h
<1>6. Adds(h, Stock, f)
  BY <1>5 DEF Adds
<1> HIDE DEF Solves
<1> QED BY <1>1, <1>2, <1>6, SumIs DEF h

\* One stock's share of a sum goes up or down.
LEMMA SumMoves ==
    ASSUME NEW f \in [Stock -> Int], NEW s \in Stock, NEW d \in Int,
           NEW g \in [Stock -> Int], g[s] = f[s] + d, \A y \in Stock \ {s} : f[y] = g[y]
    PROVE  SumOver(Stock, g) = SumOver(Stock, f) + d
<1>1. IsFiniteSet(Stock)
  BY PipelineAssumption DEF PipelineAssumption
<1> DEFINE left == SumOver(Stock \ {s}, f)
<1>3. SumOver(Stock, f) = f[s] + left
  BY <1>1, SumSplit
<1>4. SumOver(Stock, g) = g[s] + left
  BY <1>1, SumSplit
<1>5. left \in Int
  <2>1. SumOver(Stock, f) \in Int
    BY <1>1, SumType
  <2>2. IsFiniteSet(Stock \ {s})
    BY <1>1, FS_RemoveElement
  <2>3. [y \in Stock \ {s} |-> f[y]] \in [Stock \ {s} -> Int]
    OBVIOUS
  <2> DEFINE w == [y \in Stock \ {s} |-> f[y]]
  <2>4. w \in [Stock \ {s} -> Int] /\ \A y \in Stock \ {s} : f[y] = w[y]
    OBVIOUS
  <2> HIDE DEF w
  <2>5. SumOver(Stock \ {s}, w) \in Int /\ SumOver(Stock \ {s}, f) = SumOver(Stock \ {s}, w)
    BY <2>2, <2>4, SumType, SumSame
  <2> QED BY <2>5
<1> HIDE DEF left
<1> QED BY <1>3, <1>4, <1>5

LEMMA SumOfNone ==
    ASSUME NEW f, f = [s \in Stock |-> 0]
    PROVE  SumOver(Stock, f) = 0
<1> DEFINE g == [t \in SUBSET Stock |-> 0]
<1>1. IsFiniteSet(Stock)
  BY PipelineAssumption DEF PipelineAssumption
<1>2. Adds(g, Stock, f)
  <2>1. \A t \in SUBSET Stock : t # {} => First(t) \in Stock
    BY FirstIsIn
  <2> QED BY <2>1 DEF Adds
<1> HIDE DEF g
<1>3. SumOver(Stock, f) = g[Stock]
  BY <1>1, <1>2, SumIs
<1> QED BY <1>3 DEF g

-----------------------------------------------------------------------------
(* The orders of a run are orders.                                         *)

LEMMA SetToSeqType ==
    ASSUME NEW S, IsFiniteSet(S)
    PROVE  SetToSeq(S) \in Seq(S) /\ DOMAIN SetToSeq(S) = 1..Cardinality(S)
<1>1. Cardinality(S) \in Nat
  BY FS_CardinalityType
<1>2. \E f \in [1..Cardinality(S) -> S] : IsInjective(f)
  BY FS_CardinalityType DEF ExistsBijection, Bijection, Injection, IsInjective
<1>3. SetToSeq(S) \in [1..Cardinality(S) -> S]
  BY <1>2 DEF SetToSeq
<1> QED BY <1>1, <1>3

LEMMA OrdersForType ==
    ASSUME NEW side \in {"buy", "sell"}, NEW D \in SUBSET Stock, NEW lots \in [D -> Nat \ {0}]
    PROVE  OrdersFor(side, lots) \in Seq(Orders)
<1> DEFINE q == SetToSeq(D)
<1>1. IsFiniteSet(D)
  BY PipelineAssumption, FS_Subset DEF PipelineAssumption
<1>2. q \in [1..Cardinality(D) -> D] /\ Cardinality(D) \in Nat /\ DOMAIN q = 1..Cardinality(D)
  BY <1>1, SetToSeqType, FS_CardinalityType
<1>3. OrdersFor(side, lots) = [i \in DOMAIN q |-> [stock |-> q[i], side |-> side,
                                                  lots |-> lots[q[i]], whole |-> TRUE]]
  BY DEF OrdersFor
<1> HIDE DEF q
<1>4. OrdersFor(side, lots) \in [1..Cardinality(D) -> Orders]
  BY <1>2, <1>3 DEF Orders
<1> QED BY <1>2, <1>4

LEMMA SignalsAreOrders ==
    ASSUME book.shares \in [Stock -> Int], NEW T \in SUBSET Stock, T # {},
           NEW priced \in SUBSET T
    PROVE  SignalsToOrders(T, priced) \in Seq(Orders)
<1> DEFINE n == TargetLots(T)
           over == {s \in priced : book.shares[s] > n}
           under == {s \in priced : book.shares[s] < n}
<1>1. n \in Int
  <2>1. IsFiniteSet(Stock) /\ IsFiniteSet(T)
    BY PipelineAssumption, FS_Subset DEF PipelineAssumption
  <2>2. Cardinality(Stock) \in Nat /\ Cardinality(T) \in Nat /\ Cardinality(T) # 0
    BY <2>1, FS_CardinalityType, FS_EmptySet
  <2> QED BY <2>2, ExecutionAssumption DEF TargetLots, ExecutionAssumption
<1> HIDE DEF n
<1>2. [s \in over |-> book.shares[s] - n] \in [over -> Nat \ {0}] /\ over \in SUBSET Stock
  BY <1>1
<1>3. [s \in under |-> n - book.shares[s]] \in [under -> Nat \ {0}] /\ under \in SUBSET Stock
  BY <1>1
<1>4. SignalsToOrders(T, priced) = OrdersFor("sell", [s \in over |-> book.shares[s] - n])
                                   \o OrdersFor("buy", [s \in under |-> n - book.shares[s]])
  BY DEF SignalsToOrders, n
<1> HIDE DEF over, under
<1>5. /\ OrdersFor("sell", [s \in over |-> book.shares[s] - n]) \in Seq(Orders)
      /\ OrdersFor("buy", [s \in under |-> n - book.shares[s]]) \in Seq(Orders)
  BY <1>2, <1>3, OrdersForType
<1> QED BY <1>4, <1>5, ConcatProperties

-----------------------------------------------------------------------------
(* The ledger of a run.                                                    *)

PipelineShape ==
    /\ phase \in {"off", "execute", "saved", "died"}
    /\ astray \in BOOLEAN
    /\ batch \in Seq(Orders) /\ Len(results) <= Len(batch)
    /\ placed \subseteq 1..Len(batch)
    /\ \A i \in DOMAIN wire : wire[i] \in 1..Len(batch)
    /\ step = "wait" => Current <= Len(batch)
    /\ shares \in [Stock -> Int] /\ cash \in Int
    /\ buying \in [Stock -> Nat] /\ selling \in [Stock -> Nat]
    /\ book \in [shares : [Stock -> Int], cash : Int]

\* The account as it is when what the broker has taken is filled.
SettledShares == [s \in Stock |-> shares[s] + buying[s]]
Funds   == cash + Proceeds

\* The orders of one side and stock, or of one side, the broker has taken.
OrdersTaken(side, s) == {i \in placed : batch[i].side = side /\ batch[i].stock = s}
TakenOf(side)  == {i \in placed : batch[i].side = side}

\* The account is the book with what the broker has taken.
Underway ==
    /\ \A s \in Stock : SettledShares[s] = book.shares[s] + LotsIn(batch, OrdersTaken("buy", s))
                                                    - LotsIn(batch, OrdersTaken("sell", s))
    /\ Funds = book.cash + LotsIn(batch, TakenOf("sell")) - LotsIn(batch, TakenOf("buy"))

\* Between two runs the account is the book, and nothing is on its way.
AtRest == SettledShares = book.shares /\ Funds = book.cash /\ wire = <<>>

Ledger ==
    kind = "easytrader" /\ ~astray =>
        /\ phase = "execute" => Underway
        /\ phase # "execute" => AtRest
        /\ phase # "died"

PipelineInv == ExecInv /\ PipelineShape /\ Ledger

LEMMA BatchIs ==
    ASSUME PipelineShape, NEW i \in 1..Len(batch)
    PROVE  /\ batch[i] \in Orders /\ batch[i].stock \in Stock /\ batch[i].side \in {"buy", "sell"}
           /\ batch[i].lots \in Nat
<1>1. batch[i] \in Orders
  BY DEF PipelineShape
<1> QED BY <1>1 DEF Orders

LEMMA SomeLots ==
    ASSUME PipelineShape, NEW I \in SUBSET (1..Len(batch))
    PROVE  LotsAreNumbers(batch, I) /\ LotsIn(batch, I) \in Int
<1>1. Len(batch) \in Nat
  BY DEF PipelineShape
<1>2. IsFiniteSet(I)
  <2>1. IsFiniteSet(1..Len(batch))
    BY <1>1, FS_Interval
  <2> QED BY <2>1, FS_Subset
<1>3. \A i \in I : batch[i].lots \in Int
  BY BatchIs
<1> QED BY <1>2, <1>3, LotsType DEF LotsAreNumbers

LEMMA AccountType ==
    ASSUME PipelineShape
    PROVE  /\ SettledShares \in [Stock -> Int] /\ Funds \in Int
           /\ Proceeds = SumOver(Stock, selling) /\ Proceeds \in Int
<1>1. shares \in [Stock -> Int] /\ cash \in Int /\ buying \in [Stock -> Nat]
      /\ selling \in [Stock -> Int] /\ IsFiniteSet(Stock)
  BY PipelineAssumption DEF PipelineShape, PipelineAssumption
<1>2. Proceeds = SumOver(Stock, selling) /\ Proceeds \in Int
  BY <1>1, AllStocksIs, SumType DEF Proceeds
<1> QED BY <1>1, <1>2 DEF SettledShares, Funds

\* Filling an order moves what was set aside to where it belongs.
LEMMA AccountSame ==
    ASSUME UNCHANGED <<cash, shares, buying, selling>>
    PROVE  UNCHANGED <<SettledShares, Funds>>
BY DEF SettledShares, Funds, Proceeds

LEMMA PipelineInvInit == PipelineInit => PipelineInv
<1> SUFFICES ASSUME PipelineInit PROVE PipelineInv
  OBVIOUS
<1> DEFINE held == [k \in Adapter |-> [s \in Stock |-> IF k = "paper" THEN 0 ELSE 1]]
<1>1. ExecInit(held) /\ phase = "off" /\ astray = FALSE
      /\ book = [shares |-> [s \in Stock |-> 1], cash |-> Cash]
  BY DEF PipelineInit
<1> HIDE DEF held
<1>2. ExecInv
  BY <1>1, ExecInvInit
<1>3. /\ batch = <<>> /\ results = <<>> /\ step = "idle" /\ wire = <<>> /\ placed = {}
      /\ cash = Cash /\ kind \in Adapter /\ shares = held[kind]
      /\ buying = [s \in Stock |-> 0] /\ selling = [s \in Stock |-> 0]
  BY <1>1 DEF ExecInit
<1>4. shares \in [Stock -> Int] /\ (kind = "easytrader" => shares = [s \in Stock |-> 1])
      /\ buying \in [Stock -> Nat] /\ selling \in [Stock -> Nat]
  BY <1>3 DEF held
<1>5. PipelineShape
  <2>1. batch \in Seq(Orders) /\ Len(results) = 0 /\ Len(batch) = 0
    BY <1>3, EmptySeq
  <2>2. book \in [shares : [Stock -> Int], cash : Int] /\ cash \in Int
    BY <1>1, <1>3, ExecutionAssumption DEF ExecutionAssumption
  <2>3. \A i \in DOMAIN wire : wire[i] \in 1..Len(batch)
    BY <1>3
  <2>4. placed \subseteq 1..Len(batch) /\ step # "wait" /\ Len(results) <= Len(batch)
    BY <1>3, <2>1
  <2>5. phase \in {"off", "execute", "saved", "died"} /\ astray \in BOOLEAN
    BY <1>1
  <2> QED BY <1>4, <2>1, <2>2, <2>3, <2>4, <2>5 DEF PipelineShape
<1>6. Funds = cash
  <2>1. Proceeds = SumOver(Stock, selling) /\ SumOver(Stock, selling) = 0
    BY <1>3, <1>5, AccountType, SumOfNone
  <2> QED BY <2>1, <1>5 DEF Funds, PipelineShape
<1>7. Ledger
  <2>1. kind = "easytrader" => SettledShares = book.shares
    BY <1>1, <1>3, <1>4 DEF SettledShares
  <2> QED BY <1>1, <1>3, <1>6, <2>1 DEF Ledger, AtRest
<1> QED BY <1>2, <1>5, <1>7 DEF PipelineInv

-----------------------------------------------------------------------------
(* The steps of a run.                                                     *)

\* A step that changes what has been reported and not the account.
LEMMA ReaderQuietStep ==
    ASSUME PipelineInv, ExecInv', PipelineShape',
           UNCHANGED <<kind, batch, SettledShares, Funds, placed, book, astray, phase>>,
           phase = "execute"
    PROVE  PipelineInv'
<1>1. Underway' <=> Underway
  BY DEF Underway, OrdersTaken, TakenOf
<1>2. Ledger'
  BY <1>1 DEF PipelineInv, Ledger
<1> QED BY <1>2 DEF PipelineInv

LEMMA ReportStep ==
    ASSUME PipelineInv, NEW a \in BOOLEAN, NEW c \in PostChecks, NEW n \in Nat, Report(a, c, n),
           Current <= Len(batch), wire' = wire, ExecInv', phase = "execute",
           UNCHANGED <<kind, batch, cash, shares, buying, selling, placed, book, astray, phase>>
    PROVE  PipelineInv'
<1>1. /\ Len(results') = Len(results) + 1 /\ Len(results) \in Nat
      /\ \A i \in 1..Len(results) : results'[i] = results[i]
      /\ results'[Len(results) + 1] = [accepted |-> a, check |-> c, id |-> n]
      /\ step' = "next"
  BY RequestReported DEF PipelineInv, ExecInv, ExecShape, Current
<1>2. PipelineShape'
  BY <1>1 DEF PipelineInv, PipelineShape, Current
<1> QED BY <1>2, AccountSame, ReaderQuietStep

LEMMA SendKeeps ==
    ASSUME PipelineInv, ExecInv', phase = "execute", NEW answered \in BOOLEAN, Send(answered),
           UNCHANGED <<phase, book, astray>>
    PROVE  PipelineInv'
<1>1. /\ Current <= Len(batch) /\ wire' = Append(wire, Current) /\ step' = "wait"
      /\ UNCHANGED <<kind, batch, cash, shares, buying, selling, placed, book, astray, phase, results>>
  BY DEF Send, Ready, requestVars, accountVars
<1>2. Current \in 1..Len(batch) /\ wire \in Seq(Nat)
  BY <1>1 DEF PipelineInv, ExecInv, ExecShape, PipelineShape, Current
<1>3. \A i \in DOMAIN wire' : wire'[i] \in 1..Len(batch)
  <2>1. \A i \in DOMAIN wire' : wire'[i] = Current \/ (i \in DOMAIN wire /\ wire'[i] = wire[i])
    BY <1>1, <1>2
  <2> QED BY <1>2, <2>1 DEF PipelineInv, PipelineShape
<1>4. PipelineShape'
  BY <1>1, <1>3 DEF PipelineInv, PipelineShape, Current
<1> QED BY <1>1, <1>4, AccountSame, ReaderQuietStep

LEMMA TakenTypes ==
    ASSUME shares \in [Stock -> Int], cash \in Int,
           buying \in [Stock -> Nat], selling \in [Stock -> Nat],
           NEW t \in Stock, NEW n \in Nat, NEW buys \in BOOLEAN,
           IF buys
           THEN /\ cash' = cash - n /\ buying' = [buying EXCEPT ![t] = @ + n]
                /\ UNCHANGED <<shares, selling>>
           ELSE /\ shares' = [shares EXCEPT ![t] = @ - n]
                /\ selling' = [selling EXCEPT ![t] = @ + n]
                /\ UNCHANGED <<cash, buying>>
    PROVE  /\ shares' \in [Stock -> Int] /\ cash' \in Int
           /\ buying' \in [Stock -> Nat] /\ selling' \in [Stock -> Nat]
<1>1. shares' \in [Stock -> Int]
  OBVIOUS
<1>2. cash' \in Int
  OBVIOUS
<1>3. buying' \in [Stock -> Nat]
  OBVIOUS
<1>4. selling' \in [Stock -> Nat]
  OBVIOUS
<1> QED BY <1>1, <1>2, <1>3, <1>4

\* An order that is taken counts at once for the account that everything is filled in.
LEMMA TakenMovesAccount ==
    ASSUME PipelineShape, NEW t \in Stock, NEW n \in Nat, NEW buys \in BOOLEAN,
           IF buys
           THEN /\ cash' = cash - n /\ buying' = [buying EXCEPT ![t] = @ + n]
                /\ UNCHANGED <<shares, selling>>
           ELSE /\ shares' = [shares EXCEPT ![t] = @ - n]
                /\ selling' = [selling EXCEPT ![t] = @ + n]
                /\ UNCHANGED <<cash, buying>>
    PROVE  /\ SettledShares \in [Stock -> Int] /\ Funds \in Int
           /\ Funds' = IF buys THEN Funds - n ELSE Funds + n
           /\ SettledShares'[t] = IF buys THEN SettledShares[t] + n ELSE SettledShares[t] - n
           /\ \A x \in Stock \ {t} : SettledShares'[x] = SettledShares[x]
<1>1. /\ shares \in [Stock -> Int] /\ cash \in Int /\ buying \in [Stock -> Nat]
      /\ selling \in [Stock -> Nat] /\ SettledShares \in [Stock -> Int] /\ Funds \in Int
      /\ Proceeds = SumOver(Stock, selling) /\ Proceeds \in Int
  BY AccountType DEF PipelineShape
<1>2. CASE buys
  <2>1. Proceeds' = Proceeds
    BY <1>2 DEF Proceeds
  <2>2. Funds' = Funds - n
    BY <1>1, <1>2, <2>1 DEF Funds
  <2>3. SettledShares'[t] = SettledShares[t] + n /\ \A x \in Stock \ {t} : SettledShares'[x] = SettledShares[x]
    BY <1>1, <1>2 DEF SettledShares
  <2> QED BY <1>1, <1>2, <2>2, <2>3
<1>3. CASE ~buys
  <2>1. selling' \in [Stock -> Int]
    BY <1>1, <1>3
  <2>2. Proceeds' = SumOver(Stock, selling')
    BY <2>1, AllStocksIs DEF Proceeds
  <2>3. SumOver(Stock, selling') = SumOver(Stock, selling) + n
    <3>1. /\ selling \in [Stock -> Int] /\ selling'[t] = selling[t] + n
          /\ \A y \in Stock \ {t} : selling[y] = selling'[y]
      BY <1>1, <1>3
    <3> QED BY <2>1, <3>1, SumMoves
  <2>4. Funds' = Funds + n
    BY <1>1, <1>3, <2>2, <2>3 DEF Funds
  <2>5. SettledShares'[t] = SettledShares[t] - n /\ \A x \in Stock \ {t} : SettledShares'[x] = SettledShares[x]
    BY <1>1, <1>3 DEF SettledShares
  <2> QED BY <1>1, <1>3, <2>4, <2>5
<1> QED BY <1>2, <1>3

\* The broker takes an order that it has not taken before.
LEMMA BrokerTakesKeeps ==
    ASSUME PipelineInv, ExecInv', phase = "execute", BrokerTakes,
           UNCHANGED <<phase, book, astray>>
    PROVE  PipelineInv'
<1> DEFINE i == wire[1]
           o == batch[i]
<1>1. wire \in Seq(Nat) /\ Len(wire) <= 1 /\ wire # <<>>
  BY DEF BrokerTakes, PipelineInv, ExecInv, ExecShape, OneOnItsWay
<1>2. 1 \in DOMAIN wire /\ Tail(wire) = <<>> /\ i = Head(wire)
  BY <1>1, OnlyRequest
<1>3. i \in 1..Len(batch) /\ i \notin placed
  BY <1>2 DEF PipelineInv, PipelineShape, ExecInv, OneOnItsWay
<1>4. /\ wire' = <<>> /\ placed' = placed \union {i}
      /\ UNCHANGED <<kind, batch, step, results, book, astray, phase>>
  BY <1>2 DEF BrokerTakes, requestVars
<1>5. IF o.side = "buy"
      THEN /\ cash' = cash - o.lots /\ buying' = [buying EXCEPT ![o.stock] = @ + o.lots]
           /\ UNCHANGED <<shares, selling>>
      ELSE /\ shares' = [shares EXCEPT ![o.stock] = @ - o.lots]
           /\ selling' = [selling EXCEPT ![o.stock] = @ + o.lots]
           /\ UNCHANGED <<cash, buying>>
  BY <1>2 DEF BrokerTakes
<1>6. o.stock \in Stock /\ o.side \in {"buy", "sell"} /\ o.lots \in Nat
  BY <1>3, BatchIs DEF PipelineInv
<1> HIDE DEF i, o
<1>7. /\ shares \in [Stock -> Int] /\ cash \in Int /\ placed \subseteq 1..Len(batch)
      /\ buying \in [Stock -> Nat] /\ selling \in [Stock -> Nat]
      /\ book.shares \in [Stock -> Int] /\ book.cash \in Int
  BY DEF PipelineInv, PipelineShape
<1>8. /\ shares' \in [Stock -> Int] /\ cash' \in Int
      /\ buying' \in [Stock -> Nat] /\ selling' \in [Stock -> Nat]
  BY <1>5, <1>6, <1>7, TakenTypes
<1>9. PipelineShape'
  BY <1>3, <1>4, <1>7, <1>8 DEF PipelineInv, PipelineShape, Current
\* The account once everything is filled: what the order brings and costs.
<1>10. /\ SettledShares \in [Stock -> Int] /\ Funds \in Int
       /\ Funds' = IF o.side = "buy" THEN Funds - o.lots ELSE Funds + o.lots
       /\ SettledShares'[o.stock] = IF o.side = "buy" THEN SettledShares[o.stock] + o.lots
                                                ELSE SettledShares[o.stock] - o.lots
       /\ \A x \in Stock \ {o.stock} : SettledShares'[x] = SettledShares[x]
  BY <1>5, <1>6, <1>7, TakenMovesAccount DEF PipelineInv
\* The orders that are summed: with this one, or as before.
<1>11. \A side \in {"buy", "sell"}, s \in Stock :
          OrdersTaken(side, s)' = IF side = o.side /\ s = o.stock THEN OrdersTaken(side, s) \union {i}
                                                                  ELSE OrdersTaken(side, s)
  BY <1>3, <1>4, <1>6 DEF OrdersTaken, o
<1>12. \A side \in {"buy", "sell"} :
          TakenOf(side)' = IF side = o.side THEN TakenOf(side) \union {i} ELSE TakenOf(side)
  BY <1>3, <1>4, <1>6 DEF TakenOf, o
<1>13. \A I \in SUBSET placed :
          /\ LotsIn(batch, I) \in Int
          /\ LotsIn(batch, I \union {i}) = o.lots + LotsIn(batch, I)
  <2> TAKE I \in SUBSET placed
  <2>0. I \in SUBSET (1..Len(batch))
    BY <1>7
  <2>1. LotsAreNumbers(batch, I) /\ LotsIn(batch, I) \in Int /\ i \notin I /\ batch[i].lots \in Int
    BY <1>3, <1>6, <2>0, SomeLots DEF PipelineInv, o
  <2> QED BY <2>1, LotsOfOneMore DEF o
<1>14. \A side, s : OrdersTaken(side, s) \in SUBSET placed /\ TakenOf(side) \in SUBSET placed
  BY DEF OrdersTaken, TakenOf
<1>15. ASSUME Underway PROVE Underway'
  <2>1. \A s \in Stock : SettledShares[s] = book.shares[s] + LotsIn(batch, OrdersTaken("buy", s))
                                                    - LotsIn(batch, OrdersTaken("sell", s))
    BY <1>15 DEF Underway
  <2>2. Funds = book.cash + LotsIn(batch, TakenOf("sell")) - LotsIn(batch, TakenOf("buy"))
    BY <1>15 DEF Underway
  <2>3. ASSUME NEW s \in Stock
        PROVE  SettledShares'[s] = book.shares[s] + LotsIn(batch, OrdersTaken("buy", s)')
                                           - LotsIn(batch, OrdersTaken("sell", s)')
    <3> DEFINE B == LotsIn(batch, OrdersTaken("buy", s))
               S == LotsIn(batch, OrdersTaken("sell", s))
    <3>1. /\ B \in Int /\ S \in Int /\ SettledShares[s] \in Int /\ book.shares[s] \in Int
          /\ LotsIn(batch, OrdersTaken("buy", s) \union {i}) = o.lots + B
          /\ LotsIn(batch, OrdersTaken("sell", s) \union {i}) = o.lots + S
      BY <1>7, <1>10, <1>13, <1>14
    <3>2. SettledShares[s] = book.shares[s] + B - S
      BY <2>1
    <3> HIDE DEF B, S
    <3>3. CASE s # o.stock
      <4>1. SettledShares'[s] = SettledShares[s]
        BY <1>6, <1>10, <3>3
      <4>2. OrdersTaken("buy", s)' = OrdersTaken("buy", s) /\ OrdersTaken("sell", s)' = OrdersTaken("sell", s)
        BY <1>11, <3>3
      <4> QED BY <3>2, <4>1, <4>2 DEF B, S
    <3>4. CASE s = o.stock /\ o.side = "buy"
      <4>1. SettledShares'[s] = SettledShares[s] + o.lots
        BY <1>6, <1>10, <3>4
      <4>2. OrdersTaken("buy", s)' = OrdersTaken("buy", s) \union {i} /\ OrdersTaken("sell", s)' = OrdersTaken("sell", s)
        BY <1>11, <3>4
      <4>3. LotsIn(batch, OrdersTaken("buy", s)') = o.lots + B /\ LotsIn(batch, OrdersTaken("sell", s)') = S
        BY <3>1, <4>2 DEF S
      <4> QED BY <1>6, <3>1, <3>2, <4>1, <4>3
    <3>5. CASE s = o.stock /\ o.side = "sell"
      <4>1. SettledShares'[s] = SettledShares[s] - o.lots
        BY <1>6, <1>10, <3>5
      <4>2. OrdersTaken("sell", s)' = OrdersTaken("sell", s) \union {i} /\ OrdersTaken("buy", s)' = OrdersTaken("buy", s)
        BY <1>11, <3>5
      <4>3. LotsIn(batch, OrdersTaken("sell", s)') = o.lots + S /\ LotsIn(batch, OrdersTaken("buy", s)') = B
        BY <3>1, <4>2 DEF B
      <4> QED BY <1>6, <3>1, <3>2, <4>1, <4>3
    <3> QED BY <1>6, <3>3, <3>4, <3>5
  <2>4. Funds' = book.cash + LotsIn(batch, TakenOf("sell")') - LotsIn(batch, TakenOf("buy")')
    <3> DEFINE B == LotsIn(batch, TakenOf("buy"))
               S == LotsIn(batch, TakenOf("sell"))
    <3>1. /\ B \in Int /\ S \in Int
          /\ LotsIn(batch, TakenOf("buy") \union {i}) = o.lots + B
          /\ LotsIn(batch, TakenOf("sell") \union {i}) = o.lots + S
      BY <1>13, <1>14
    <3>2. Funds = book.cash + S - B
      BY <2>2
    <3> HIDE DEF B, S
    <3>3. CASE o.side = "buy"
      <4>1. Funds' = Funds - o.lots
        BY <1>10, <3>3
      <4>2. LotsIn(batch, TakenOf("buy")') = o.lots + B /\ LotsIn(batch, TakenOf("sell")') = S
        BY <1>12, <3>1, <3>3 DEF S
      <4> QED BY <1>6, <1>7, <1>10, <3>1, <3>2, <4>1, <4>2, SMTT(60)
    <3>4. CASE o.side = "sell"
      <4>1. Funds' = Funds + o.lots
        BY <1>10, <3>4
      <4>2. LotsIn(batch, TakenOf("sell")') = o.lots + S /\ LotsIn(batch, TakenOf("buy")') = B
        BY <1>12, <3>1, <3>4 DEF B
      <4> QED BY <1>6, <1>7, <1>10, <3>1, <3>2, <4>1, <4>2, SMTT(60)
    <3> QED BY <1>6, <3>3, <3>4
  <2> QED BY <1>4, <2>3, <2>4 DEF Underway
<1>16. Ledger'
  BY <1>4, <1>15 DEF PipelineInv, Ledger
<1> QED BY <1>9, <1>16 DEF PipelineInv

LEMMA ExecuteKeeps ==
    ASSUME PipelineInv, Execute
    PROVE  PipelineInv'
<1> USE DEF requestVars, channelVars, accountVars
<1>0. phase = "execute" /\ Submit /\ UNCHANGED <<phase, targets, book, runs, astray>>
  BY DEF Execute
<1>1. ExecInv'
  BY <1>0, SubmitStep DEF PipelineInv
<1>2. Current \in Nat /\ Len(results) \in Nat
  BY DEF PipelineInv, ExecInv, ExecShape, Current
<1>3. CASE Skip
  <2>1. Report(FALSE, "skipped", 0) /\ Current <= Len(batch) /\ "skipped" \in PostChecks
    BY <1>3 DEF Skip, PostChecks
  <2> QED BY <1>0, <1>1, <1>3, <2>1, ReportStep DEF Skip
<1>4. ASSUME NEW answered \in BOOLEAN, Reject(answered) PROVE PipelineInv'
  <2>1. Report(FALSE, "not_checked", 0) /\ Current <= Len(batch) /\ "not_checked" \in PostChecks
    BY <1>4 DEF Reject, PostChecks
  <2> QED BY <1>0, <1>1, <1>4, <2>1, ReportStep DEF Reject
<1>5. ASSUME NEW answered \in BOOLEAN, Rehearse(answered) PROVE PipelineInv'
  <2>1. Current <= Len(batch)
    BY <1>5 DEF Rehearse, Ready
  <2>2. \E a \in BOOLEAN, c \in PostChecks, n \in Nat : Report(a, c, n)
    BY <1>2, <1>5 DEF Rehearse, Fail, PostChecks
  <2>3. UNCHANGED <<requestVars, channelVars, accountVars>>
    BY <1>5 DEF Rehearse
  <2> QED BY <1>0, <1>1, <2>1, <2>2, <2>3, ReportStep
<1>6. ASSUME NEW answered \in BOOLEAN, Send(answered) PROVE PipelineInv'
  BY <1>0, <1>1, <1>6, SendKeeps
<1>7. CASE BrokerTakes
  BY <1>0, <1>1, <1>7, BrokerTakesKeeps
<1>8. CASE BrokerRefuses
  <2>1. wire \in Seq(Nat) /\ Len(wire) <= 1 /\ wire # <<>> /\ wire' = Tail(wire)
    BY <1>8 DEF BrokerRefuses, PipelineInv, ExecInv, ExecShape, OneOnItsWay
  <2>2. wire' = <<>>
    BY <2>1, OnlyRequest
  <2>3. PipelineShape'
    BY <1>0, <1>8, <2>2 DEF BrokerRefuses, PipelineInv, PipelineShape, Current
  <2>4. UNCHANGED <<kind, batch, cash, shares, buying, selling, placed>>
    BY <1>8 DEF BrokerRefuses
  <2> QED BY <1>0, <1>1, <2>3, <2>4, AccountSame, ReaderQuietStep
<1>9. CASE ReadAnswer
  <2> DEFINE a == Head(answers)
  <2>1. step = "wait" /\ answers # <<>> /\ answers \in Seq(Answers) /\ Current <= Len(batch)
    BY <1>9 DEF ReadAnswer, PipelineInv, ExecInv, ExecShape, PipelineShape
  <2>2. a \in Answers
    BY <2>1, HeadTailProperties
  <2>3. a.of \in Nat
    BY <2>2 DEF Answers
  <2>4. UNCHANGED <<kind, dry, validate, batch, wire, cash, shares, buying, selling, placed>>
    BY <1>9 DEF ReadAnswer
  <2> HIDE DEF a
  <2>5. PostCheck(a.of) \subseteq PostChecks
    BY DEF PostCheck, PostChecks
  <2>6. \E b \in BOOLEAN, c \in PostChecks, n \in Nat : Report(b, c, n)
    <3>1. \/ Report(TRUE, "order_id_received", a.of)
          \/ Report(TRUE, "order_id_received", 0)
          \/ Report(FALSE, "submit_failed", 0)
          \/ \E c \in PostCheck(a.of) : Report(TRUE, c, 0)
      BY <1>9 DEF ReadAnswer, Fail, a
    <3>2. "order_id_received" \in PostChecks /\ "submit_failed" \in PostChecks
      BY DEF PostChecks
    <3> QED BY <2>3, <2>5, <3>1, <3>2
  <2> QED BY <1>0, <1>1, <2>1, <2>4, <2>6, ReportStep
<1>10. CASE NoAnswer
  <2>1. /\ Report(FALSE, "submit_failed", 0) /\ "submit_failed" \in PostChecks
        /\ Current <= Len(batch)
    BY <1>10 DEF NoAnswer, Fail, PostChecks, PipelineInv, PipelineShape
  <2> QED BY <1>0, <1>1, <1>10, <2>1, ReportStep DEF NoAnswer
<1>11. CASE AllReported
  <2>1. step' = "done" /\ UNCHANGED <<kind, batch, results, wire, cash, shares, buying, selling, placed>>
    BY <1>11 DEF AllReported
  <2>2. PipelineShape'
    BY <1>0, <2>1 DEF PipelineInv, PipelineShape
  <2> QED BY <1>0, <1>1, <2>1, <2>2, AccountSame, ReaderQuietStep
<1> QED BY <1>0, <1>3, <1>4, <1>5, <1>6, <1>7, <1>8, <1>9, <1>10, <1>11 DEF Submit

LEMMA NewRunKeeps ==
    ASSUME PipelineInv, NEW T \in SUBSET Stock, NEW priced \in SUBSET T, RunDaily(T, priced)
    PROVE  PipelineInv'
<1>1. /\ phase # "execute" /\ wire' = <<>> /\ wire = <<>>
      /\ phase' \in {"saved", "execute"} /\ step' \in {"done", "next"}
      /\ results' = <<>> /\ halted' = FALSE /\ answers' = <<>> /\ placed' = {}
      /\ UNCHANGED <<kind, dry, cash, shares, buying, selling, book, astray>>
  BY DEF RunDaily
<1>2. batch' \in Seq(Orders)
  <2>1. CASE T = {}
    BY <2>1, EmptySeq DEF RunDaily
  <2>2. CASE T # {}
    <3>1. book.shares \in [Stock -> Int]
      BY DEF PipelineInv, PipelineShape
    <3>2. batch' = SignalsToOrders(T, priced)
      BY <2>2 DEF RunDaily
    <3> QED BY <2>2, <3>1, <3>2, SignalsAreOrders
  <2> QED BY <2>1, <2>2
<1>3. ExecInv'
  <2>1. ExecShape' /\ Begins'
    BY <1>1, EmptySeq DEF ExecShape, Begins
  <2>2. OneOnItsWay' /\ Told' /\ HaltsOnFailure'
    BY <1>1 DEF OneOnItsWay, Told, HaltsOnFailure
  <2>3. IdIsOwn' /\ DryRunSendsNothing'
    BY <1>1 DEF IdIsOwn, DryRunSendsNothing
  <2> QED BY <2>1, <2>2, <2>3 DEF ExecInv
<1>4. PipelineShape'
  <2>1. Len(results') = 0 /\ Len(batch') \in Nat
    BY <1>1, <1>2
  <2>2. \A i \in DOMAIN wire' : wire'[i] \in 1..Len(batch')
    BY <1>1
  <2>3. phase' \in {"off", "execute", "saved", "died"} /\ step' # "wait" /\ placed' = {}
    BY <1>1
  <2> QED BY <1>1, <1>2, <2>1, <2>2, <2>3 DEF PipelineInv, PipelineShape
<1>5. Ledger'
  <2>1. ASSUME kind = "easytrader", ~astray PROVE Underway' /\ AtRest'
    <3>1. SettledShares = book.shares /\ Funds = book.cash
      BY <1>1, <2>1 DEF PipelineInv, Ledger, AtRest
    <3>2. /\ \A s \in Stock : OrdersTaken("buy", s)' = {} /\ OrdersTaken("sell", s)' = {}
          /\ TakenOf("buy")' = {} /\ TakenOf("sell")' = {}
      BY <1>1 DEF OrdersTaken, TakenOf
    <3>3. LotsIn(batch', {}) = 0
      BY LotsOfNone
    <3>4. SettledShares \in [Stock -> Int] /\ Funds \in Int
      BY AccountType DEF PipelineInv
    <3>5. UNCHANGED <<SettledShares, Funds>>
      BY <1>1, AccountSame
    <3>6. Underway'
      <4>1. \A s \in Stock : SettledShares'[s] = book'.shares[s] + 0 - 0
        BY <1>1, <3>1, <3>4, <3>5
      <4>2. Funds' = book'.cash + 0 - 0
        BY <1>1, <3>1, <3>4, <3>5
      <4> QED BY <3>2, <3>3, <4>1, <4>2 DEF Underway
    <3> QED BY <1>1, <3>1, <3>5, <3>6 DEF AtRest
  <2> QED BY <1>1, <2>1 DEF Ledger
<1> QED BY <1>3, <1>4, <1>5 DEF PipelineInv

\* What the book adds up is what the broker has taken, unless an order is in doubt.
LEMMA SavePositionsKeeps ==
    ASSUME PipelineInv, SavePositions
    PROVE  PipelineInv'
<1>1. /\ phase = "execute" /\ step = "done" /\ book' = NewBook /\ phase' = "saved"
      /\ astray' = (astray \/ InDoubt)
      /\ UNCHANGED execVars
  BY DEF SavePositions
<1>2. UNCHANGED <<kind, dry, batch, step, results, halted, wire, answers, placed, cash, shares, buying, selling>>
  BY <1>1 DEF execVars, requestVars, channelVars, accountVars
<1>3. ExecInv'
  BY <1>1, ExecInvStep DEF PipelineInv
<1>4. UNCHANGED <<SettledShares, Funds>>
  BY <1>2, AccountSame
\* What is added up: the orders that were accepted.
<1>5. results \in Seq(Results) /\ DOMAIN results = 1..Len(results) /\ Len(results) <= Len(batch)
      /\ Len(results) \in Nat /\ Len(batch) \in Nat
  BY DEF PipelineInv, ExecInv, ExecShape, PipelineShape
<1>6. \A side, s : Accepted(side, s) \in SUBSET (1..Len(batch))
  BY <1>5 DEF Accepted
<1>7. \A side : UNION {Accepted(side, s) : s \in Stock} \in SUBSET (1..Len(batch))
  BY <1>6
<1>8. \A I \in SUBSET (1..Len(batch)) : Lots(I) = LotsIn(batch, I) /\ LotsIn(batch, I) \in Int
  BY SomeLots, LotsIs DEF PipelineInv
<1>9. book.shares \in [Stock -> Int] /\ book.cash \in Int /\ SettledShares \in [Stock -> Int] /\ Funds \in Int
  BY AccountType DEF PipelineInv, PipelineShape
<1>10. \A s \in Stock : NewBook.shares[s] =
          book.shares[s] + LotsIn(batch, Accepted("buy", s)) - LotsIn(batch, Accepted("sell", s))
  BY <1>6, <1>8 DEF NewBook
<1>11. NewBook.cash = book.cash + LotsIn(batch, UNION {Accepted("sell", s) : s \in Stock})
                                - LotsIn(batch, UNION {Accepted("buy", s) : s \in Stock})
  BY <1>7, <1>8 DEF NewBook
<1>12. NewBook \in [shares : [Stock -> Int], cash : Int]
  <2>1. \A s \in Stock : NewBook.shares[s] \in Int
    <3> TAKE s \in Stock
    <3>1. LotsIn(batch, Accepted("buy", s)) \in Int /\ LotsIn(batch, Accepted("sell", s)) \in Int
      BY <1>6, <1>8
    <3> QED BY <1>9, <1>10, <3>1
  <2>2. NewBook.cash \in Int
    BY <1>7, <1>8, <1>9, <1>11
  <2>3. DOMAIN NewBook = {"shares", "cash"} /\ DOMAIN NewBook.shares = Stock
    BY DEF NewBook
  <2>4. NewBook.shares = [s \in Stock |-> NewBook.shares[s]]
    BY DEF NewBook
  <2>5. NewBook = [shares |-> NewBook.shares, cash |-> NewBook.cash]
    BY DEF NewBook
  <2> HIDE DEF NewBook
  <2>6. NewBook.shares \in [Stock -> Int]
    BY <2>1, <2>4
  <2> QED BY <2>2, <2>5, <2>6
<1>13. PipelineShape'
  BY <1>1, <1>2, <1>12 DEF PipelineInv, PipelineShape, Current
<1>14. Ledger'
  <2> SUFFICES ASSUME kind = "easytrader", ~astray, ~InDoubt PROVE AtRest'
    BY <1>1, <1>2 DEF Ledger, PipelineInv, PipelineShape
  <2>1. \A j \in 1..Len(results) : ~FailedAt(j)
    BY <1>5 DEF InDoubt, FailedAt
  <2>2. \A j : ~Due(j)
    BY <1>1, <2>1 DEF Due, FailedAt
  <2>3. wire = <<>>
    <3> SUFFICES ASSUME wire # <<>> PROVE FALSE
      OBVIOUS
    <3>1. 1 \in DOMAIN wire
      BY OnlyRequest DEF PipelineInv, ExecInv, ExecShape, OneOnItsWay
    <3> QED BY <2>2, <3>1 DEF PipelineInv, ExecInv, OneOnItsWay
  <2>4. \A j \in placed : j \in DOMAIN results /\ results[j].accepted
    BY <1>5, <2>2 DEF PipelineInv, ExecInv, Told
  <2>5. \A j \in DOMAIN results : results[j].accepted => j \in placed
    BY <1>5 DEF PipelineInv, InDoubt, ExecInv, IdIsOwn, OwnsId, InProcess, ObeysDryRun
  <2>6. \A side, s : Accepted(side, s) = OrdersTaken(side, s)
    BY <2>4, <2>5 DEF Accepted, OrdersTaken
  <2>7. \A j \in placed : batch[j].stock \in Stock
    BY BatchIs DEF PipelineInv, PipelineShape
  <2>8. \A side : UNION {Accepted(side, s) : s \in Stock} = TakenOf(side)
    BY <2>6, <2>7 DEF OrdersTaken, TakenOf
  <2>9. Underway
    BY <1>1 DEF PipelineInv, Ledger
  <2>10. \A s \in Stock : NewBook.shares[s] = SettledShares[s]
    BY <1>10, <2>6, <2>9 DEF Underway
  <2>11. NewBook.cash = Funds
    BY <1>11, <2>8, <2>9 DEF Underway
  <2>12. NewBook.shares = SettledShares
    <3>1. NewBook.shares \in [Stock -> Int]
      BY <1>12
    <3> QED BY <1>9, <2>10, <3>1
  <2> QED BY <1>1, <1>2, <1>4, <2>3, <2>11, <2>12 DEF AtRest
<1> QED BY <1>3, <1>13, <1>14 DEF PipelineInv

LEMMA DieKeeps ==
    ASSUME PipelineInv, Die
    PROVE  PipelineInv'
<1>1. phase' = "died" /\ astray' = TRUE /\ book' = book /\ UNCHANGED execVars
  BY DEF Die
<1>2. UNCHANGED <<kind, dry, batch, step, results, halted, wire, answers, placed, cash, shares, buying, selling>>
  BY <1>1 DEF execVars, requestVars, channelVars, accountVars
<1>3. ExecInv'
  BY <1>1, ExecInvStep DEF PipelineInv
<1>4. PipelineShape'
  BY <1>1, <1>2 DEF PipelineInv, PipelineShape, Current
<1>5. Ledger'
  BY <1>1 DEF Ledger
<1> QED BY <1>3, <1>4, <1>5 DEF PipelineInv

\* A command that is taken late was sent by a run that has been killed, or that ended in
\* doubt.
LEMMA LateTakenKeeps ==
    ASSUME PipelineInv, LateTaken
    PROVE  PipelineInv'
<1>1. /\ phase \in {"died", "saved"} /\ wire # <<>>
      /\ BrokerTakes \/ BrokerRefuses
      /\ UNCHANGED <<phase, book, astray>>
  BY DEF LateTaken, BrokerTakes, BrokerRefuses
<1>2. ~(kind = "easytrader" /\ ~astray)
  BY <1>1 DEF PipelineInv, Ledger, AtRest
<1>3. ExecInv'
  BY <1>1, SubmitStep DEF PipelineInv, Submit
<1>4. wire \in Seq(Nat) /\ Len(wire) <= 1
  BY DEF PipelineInv, ExecInv, ExecShape, OneOnItsWay
<1>5. 1 \in DOMAIN wire /\ Tail(wire) = <<>> /\ Head(wire) = wire[1]
  BY <1>1, <1>4, OnlyRequest
<1>6. wire[1] \in 1..Len(batch)
  BY <1>5 DEF PipelineInv, PipelineShape
<1>7. wire' = <<>> /\ UNCHANGED <<kind, batch, step, results>>
  BY <1>1, <1>5 DEF BrokerTakes, BrokerRefuses, requestVars
<1>8. /\ placed' \subseteq 1..Len(batch)
      /\ shares' \in [Stock -> Int] /\ cash' \in Int
      /\ buying' \in [Stock -> Nat] /\ selling' \in [Stock -> Nat]
  <2>1. CASE BrokerRefuses
    BY <2>1 DEF BrokerRefuses, accountVars, PipelineInv, PipelineShape
  <2>2. CASE BrokerTakes
    <3> DEFINE o == batch[wire[1]]
    <3>1. o.stock \in Stock /\ o.lots \in Nat
      BY <1>6, BatchIs DEF PipelineInv
    <3>2. /\ placed' = placed \union {wire[1]}
          /\ IF o.side = "buy"
             THEN /\ cash' = cash - o.lots /\ buying' = [buying EXCEPT ![o.stock] = @ + o.lots]
                  /\ UNCHANGED <<shares, selling>>
             ELSE /\ shares' = [shares EXCEPT ![o.stock] = @ - o.lots]
                  /\ selling' = [selling EXCEPT ![o.stock] = @ + o.lots]
                  /\ UNCHANGED <<cash, buying>>
      BY <1>5, <2>2 DEF BrokerTakes
    <3> HIDE DEF o
    <3>3. /\ shares \in [Stock -> Int] /\ cash \in Int /\ placed \subseteq 1..Len(batch)
          /\ buying \in [Stock -> Nat] /\ selling \in [Stock -> Nat]
      BY DEF PipelineInv, PipelineShape
    <3>4. placed' \subseteq 1..Len(batch)
      BY <1>6, <3>2, <3>3
    <3>5. /\ shares' \in [Stock -> Int] /\ cash' \in Int
          /\ buying' \in [Stock -> Nat] /\ selling' \in [Stock -> Nat]
      BY <3>1, <3>2, <3>3, TakenTypes
    <3> QED BY <3>4, <3>5
  <2> QED BY <1>1, <2>1, <2>2
<1>9. PipelineShape'
  <2>1. \A i \in DOMAIN wire' : wire'[i] \in 1..Len(batch)
    BY <1>7
  <2> QED BY <1>1, <1>7, <1>8, <2>1 DEF PipelineInv, PipelineShape, Current
<1>10. Ledger'
  BY <1>1, <1>2, <1>7 DEF Ledger
<1> QED BY <1>3, <1>9, <1>10 DEF PipelineInv

\* Orders are filled: what was set aside arrives.
LEMMA FilledKeeps ==
    ASSUME PipelineInv, Filled
    PROVE  PipelineInv'
<1>1. PICK s \in Stock : BrokerFills(s)
  BY DEF Filled
<1>2. /\ UNCHANGED <<kind, dry, batch, step, results, halted, wire, answers, placed>>
      /\ UNCHANGED <<phase, book, astray>>
  BY <1>1 DEF Filled, BrokerFills, requestVars, channelVars
<1>3. ExecInv'
  BY <1>1, FillsKeepResults DEF PipelineInv
<1>4. /\ shares \in [Stock -> Int] /\ cash \in Int
      /\ buying \in [Stock -> Nat] /\ selling \in [Stock -> Nat] /\ selling \in [Stock -> Int]
      /\ Proceeds = SumOver(Stock, selling) /\ Proceeds \in Int
  BY AccountType DEF PipelineInv, PipelineShape
<1>5. /\ shares' \in [Stock -> Int] /\ cash' \in Int
      /\ buying' \in [Stock -> Nat] /\ selling' \in [Stock -> Nat]
      /\ UNCHANGED <<SettledShares, Funds>>
  <2>1. CASE \E n \in 1..buying[s] :
                /\ buying' = [buying EXCEPT ![s] = @ - n]
                /\ shares' = [shares EXCEPT ![s] = @ + n]
                /\ UNCHANGED <<cash, selling>>
    <3>0. PICK n \in 1..buying[s] :
                /\ buying' = [buying EXCEPT ![s] = @ - n]
                /\ shares' = [shares EXCEPT ![s] = @ + n]
                /\ UNCHANGED <<cash, selling>>
      BY <2>1
    <3>1. buying' \in [Stock -> Nat] /\ shares' \in [Stock -> Int]
      BY <1>4, <3>0
    <3>2. SettledShares' = SettledShares
      BY <1>4, <3>0 DEF SettledShares
    <3>3. Funds' = Funds
      BY <3>0 DEF Funds, Proceeds
    <3> QED BY <1>4, <3>0, <3>1, <3>2, <3>3
  <2>2. CASE \E n \in 1..selling[s] :
                /\ selling' = [selling EXCEPT ![s] = @ - n]
                /\ cash' = cash + n
                /\ UNCHANGED <<shares, buying>>
    <3>0. PICK n \in 1..selling[s] :
                /\ selling' = [selling EXCEPT ![s] = @ - n]
                /\ cash' = cash + n
                /\ UNCHANGED <<shares, buying>>
      BY <2>2
    <3>1. selling' \in [Stock -> Nat] /\ selling' \in [Stock -> Int] /\ n \in Int /\ -n \in Int
      BY <1>4, <3>0
    <3>2. SettledShares' = SettledShares
      BY <3>0 DEF SettledShares
    <3>3. selling'[s] = selling[s] + (-n) /\ \A y \in Stock \ {s} : selling[y] = selling'[y]
      BY <1>4, <3>0
    <3>4. SumOver(Stock, selling') = SumOver(Stock, selling) + (-n)
      BY <1>4, <3>1, <3>3, SumMoves
    <3>5. Proceeds' = SumOver(Stock, selling')
      BY <3>1, AllStocksIs DEF Proceeds
    <3>6. Funds' = Funds
      BY <1>4, <3>0, <3>1, <3>4, <3>5 DEF Funds
    <3> QED BY <1>4, <3>0, <3>1, <3>2, <3>6
  <2> QED BY <1>1, <2>1, <2>2 DEF BrokerFills
<1>6. PipelineShape'
  BY <1>2, <1>5 DEF PipelineInv, PipelineShape, Current
<1>7. Ledger'
  BY <1>2, <1>5 DEF PipelineInv, Ledger, Underway, AtRest, OrdersTaken, TakenOf
<1> QED BY <1>3, <1>6, <1>7 DEF PipelineInv

\* Orders are dropped: what was set aside comes back, and the book is astray.
LEMMA DroppedKeeps ==
    ASSUME PipelineInv, Dropped
    PROVE  PipelineInv'
<1>1. PICK s \in Stock : BrokerDrops(s)
  BY DEF Dropped
<1>2. /\ UNCHANGED <<kind, dry, batch, step, results, halted, wire, answers, placed>>
      /\ UNCHANGED <<phase, book>> /\ astray' = TRUE
  BY <1>1 DEF Dropped, BrokerDrops, requestVars, channelVars
<1>3. ExecInv'
  BY <1>1, FillsKeepResults DEF PipelineInv
<1>4. /\ shares \in [Stock -> Int] /\ cash \in Int
      /\ buying \in [Stock -> Nat] /\ selling \in [Stock -> Nat]
  BY DEF PipelineInv, PipelineShape
<1>5. /\ shares' \in [Stock -> Int] /\ cash' \in Int
      /\ buying' \in [Stock -> Nat] /\ selling' \in [Stock -> Nat]
  BY <1>1, <1>4 DEF BrokerDrops
<1>6. PipelineShape'
  BY <1>2, <1>5 DEF PipelineInv, PipelineShape, Current
<1>7. Ledger'
  BY <1>2 DEF Ledger
<1> QED BY <1>3, <1>6, <1>7 DEF PipelineInv

LEMMA PipelineInvNext == PipelineInv /\ [PipelineNext]_pipelineVars => PipelineInv'
<1> SUFFICES ASSUME PipelineInv, [PipelineNext]_pipelineVars PROVE PipelineInv'
  OBVIOUS
<1>1. ASSUME NEW T \in SUBSET Stock, NEW priced \in SUBSET T, RunDaily(T, priced)
      PROVE  PipelineInv'
  BY <1>1, NewRunKeeps
<1>2. CASE Execute
  BY <1>2, ExecuteKeeps
<1>3. CASE SavePositions
  BY <1>3, SavePositionsKeeps
<1>4. CASE Die
  BY <1>4, DieKeeps
<1>5. CASE LateTaken
  BY <1>5, LateTakenKeeps
<1>6. CASE UNCHANGED pipelineVars
  <2>1. UNCHANGED execVars /\ UNCHANGED <<phase, book, astray>>
    BY <1>6 DEF pipelineVars
  <2>2. UNCHANGED <<kind, dry, batch, step, results, halted, wire, answers, placed, cash, shares, buying, selling>>
    BY <2>1 DEF execVars, requestVars, channelVars, accountVars
  <2>3. ExecInv'
    BY <2>1, ExecInvStep DEF PipelineInv
  <2>4. PipelineShape' /\ UNCHANGED <<SettledShares, Funds>>
    BY <2>1, <2>2, AccountSame DEF PipelineInv, PipelineShape, Current
  <2>5. Ledger'
    BY <2>1, <2>2, <2>4 DEF PipelineInv, Ledger, Underway, AtRest, OrdersTaken, TakenOf
  <2> QED BY <2>3, <2>4, <2>5 DEF PipelineInv
<1> QED BY <1>1, <1>2, <1>3, <1>4, <1>5, <1>6, FilledKeeps, DroppedKeeps DEF PipelineNext

\* However many runs there are, of whichever targets, with prices missing, answers lost,
\* orders filled late or in parts and runs killed: as long as no run was killed while it
\* submitted, none ended with an order in doubt and the broker dropped no order, the
\* positions file is after every run the account with the open orders filled.
THEOREM BookIsTrue == PipelineSpec => []BookTrue
<1>1. PipelineInv => BookTrue
  BY DEF PipelineInv, Ledger, AtRest, BookTrue, SettledShares, Funds
<1> QED BY <1>1, PipelineInvInit, PipelineInvNext, PTL DEF PipelineSpec

\* What the results of a batch say of the orders at the broker is true in every run of
\* the pipeline, also after runs that were killed.
THEOREM PipelineOrdersAccounted == PipelineSpec => []OrdersAccounted
<1>1. PipelineInv => OrdersAccounted
  BY ExecInvImplies DEF PipelineInv
<1> QED BY <1>1, PipelineInvInit, PipelineInvNext, PTL DEF PipelineSpec

-----------------------------------------------------------------------------
(* LivePredictions: snapshots, predictions and their history.               *)

\* Predictions from what was known before their day.
Timely == {p \in [date : Nat, feature : Nat] : p.feature < p.date}

PredictShape ==
    /\ calendar \in Nat
    /\ close \in [Symbol -> Nat]
    /\ snap \in Nat
    /\ scan \in [Scanner -> Nat]
    /\ job \in [phase : {"idle", "reads", "fetches", "writes"}, known : Nat, target : Nat,
                doubtful : BOOLEAN]
    /\ request \in [Reader -> Stage]
    /\ date \in [Reader -> Nat] /\ feature \in [Reader -> Nat]
    /\ history \in [Reader -> SUBSET Timely]
    /\ memory \in [loaded : BOOLEAN, rows : SUBSET Timely]
    /\ file \in SUBSET Timely /\ made \in SUBSET Timely
    /\ emptied \in BOOLEAN /\ overlap \in BOOLEAN

\* No day is beyond the calendar, and no day that is not claimed is beyond the closes:
\* the market's last day only moves on, and what was scanned before is not later than it.
\* A sync knows nothing before it has read the snapshot.
ScansAreOld ==
    /\ \A s \in Symbol : close[s] <= calendar
    /\ snap <= calendar /\ job.known <= calendar /\ job.target <= calendar
    /\ \A t \in Scanner : scan[t] <= calendar
    /\ Cache \notin claims => snap <= Market
    /\ Syncer \notin claims => job.known <= Market
    /\ \A t \in Scanner : t \notin claims => scan[t] <= Market
    /\ job.phase \in {"idle", "reads"} => job.known = 0

\* A request past its resolution has a day, and features from before it; one without a
\* day loads the history for a page.
RequestsAreTimely ==
    /\ \A r \in Reader : request[r] \in {"resolved", "loading", "predicted", "merging", "writing"} =>
          date[r] # 0
    /\ \A r \in Reader : date[r] # 0 => feature[r] < date[r]

\* Until two threads meet, whoever has read the history holds what was answered, and so
\* does the copy, and the file unless its last write was cut off.
HistoryInHand ==
    /\ emptied \/ file = made
    /\ memory.loaded => memory.rows = made
    /\ \A r \in Reader : Holding(r) => history[r] = made
    /\ \A q, r \in Reader : Holding(q) /\ Holding(r) => q = r

PredictInv ==
    /\ PredictShape /\ ScansAreOld /\ RequestsAreTimely
    /\ ~overlap => HistoryInHand

-----------------------------------------------------------------------------
(* The market's last day.                                                  *)

LEMMA MarketLastDay ==
    ASSUME NEW n \in Nat, NEW c \in [Symbol -> Nat], \A s \in Symbol : c[s] <= n
    PROVE  LET last == Max({c[s] : s \in Symbol})
           IN  /\ last \in Nat /\ last <= n
               /\ \A s \in Symbol : c[s] <= last
               /\ \E s \in Symbol : last = c[s]
<1> DEFINE D == {c[s] : s \in Symbol}
<1>1. D \subseteq 0..n /\ D # {}
  BY SnapshotAssumption DEF SnapshotAssumption
<1>2. PICK m \in D : \A d \in D : d <= m
  <2> HIDE DEF D
  <2> QED
    BY <1>1, GreatestExists
<1>3. Max(D) \in D /\ \A d \in D : Max(D) >= d
  <2>1. \A d \in D : m >= d
    BY <1>1, <1>2
  <2> HIDE DEF D
  <2> QED
    BY <2>1 DEF Max
<1> DEFINE last == Max(D)
<1>4. last \in 0..n /\ \A d \in D : d <= last
  <2> HIDE DEF D
  <2>1. last \in D /\ \A d \in D : d \in 0..n
    BY <1>1, <1>3
  <2>2. \A d \in D : last >= d
    BY <1>3
  <2> HIDE DEF last
  <2> QED
    BY <2>1, <2>2
<1>5. last \in D
  BY <1>3
<1> HIDE DEF last
<1>6. /\ last \in Nat /\ last <= n
      /\ \A s \in Symbol : c[s] <= last
      /\ \E s \in Symbol : last = c[s]
  BY <1>4, <1>5
<1> QED
  BY <1>6 DEF last

LEMMA MarketIsLast ==
    ASSUME NEW n \in Nat, close \in [Symbol -> Nat], \A s \in Symbol : close[s] <= n
    PROVE  /\ Market \in Nat
           /\ \E s \in Symbol : Market = close[s]
BY MarketLastDay DEF Market

\* It does not go back: a close file gets a day of the calendar it did not have.
LEMMA MarketMovesOn ==
    ASSUME PredictShape, ScansAreOld, NEW s \in Symbol, NEW day \in (close[s] + 1)..calendar,
           close' = [close EXCEPT ![s] = day]
    PROVE  /\ close' \in [Symbol -> Nat]
           /\ \A q \in Symbol : close'[q] <= calendar
           /\ Market' \in Nat /\ Market \in Nat /\ Market <= Market'
<1>1. day \in Nat /\ close[s] < day /\ day <= calendar /\ calendar \in Nat
  BY DEF PredictShape
<1>2. close' \in [Symbol -> Nat]
  BY <1>1 DEF PredictShape
<1>3. \A q \in Symbol : close'[q] <= calendar /\ close[q] <= close'[q]
  BY <1>1 DEF PredictShape, ScansAreOld
<1>4. /\ Market' \in Nat
      /\ \A q \in Symbol : close'[q] <= Market'
  BY <1>1, <1>2, <1>3, MarketLastDay, ZenonT(60) DEF Market
<1>5. Market \in Nat /\ \E q \in Symbol : Market = close[q]
  BY <1>1, MarketIsLast DEF PredictShape, ScansAreOld
<1> QED
  BY <1>2, <1>3, <1>4, <1>5 DEF PredictShape

LEMMA MarketIsDay ==
    ASSUME PredictShape, ScansAreOld
    PROVE  Market \in Nat /\ Market <= calendar
<1>1. Market \in Nat /\ \E s \in Symbol : Market = close[s]
  BY MarketIsLast DEF PredictShape, ScansAreOld
<1> QED
  BY <1>1 DEF ScansAreOld

-----------------------------------------------------------------------------
(* The snapshot.                                                           *)

LEMMA CacheScansNot == Cache \notin Scanner /\ Syncer # Worker /\ Syncer \in Scanner
                       /\ Worker \in Scanner /\ Reader \subseteq Scanner /\ Syncer \notin Reader
BY SnapshotAssumption DEF SnapshotAssumption, Scanner, Worker, Syncer, Cache

requestRest == <<request, date, feature, history, memory, file, emptied, made, overlap>>

LEMMA ScanKeeps ==
    ASSUME PredictShape, ScansAreOld, NEW t \in Scanner, Scans(t), UNCHANGED job,
           t = Syncer => job.phase = "reads", UNCHANGED requestRest
    PROVE  PredictShape' /\ ScansAreOld'
<1>1. Market \in Nat /\ Market <= calendar
  BY MarketIsDay
<1>2. /\ UNCHANGED <<calendar, close, snap, job>> /\ Market' = Market
      /\ \/ scan' = [scan EXCEPT ![t] = Market] /\ claims' = claims \ {t}
         \/ scan' = [scan EXCEPT ![t] = calendar] /\ claims' = claims \union {t}
  BY DEF Scans, Market
<1>3. PredictShape'
  BY <1>1, <1>2 DEF PredictShape, requestRest
<1>4. \A u \in Scanner : u # t => scan'[u] = scan[u] /\ (u \in claims' <=> u \in claims)
  BY <1>2 DEF PredictShape
<1>5. scan'[t] <= calendar /\ (t \notin claims' => scan'[t] <= Market)
  BY <1>1, <1>2 DEF PredictShape
<1>6. Cache \in claims' <=> Cache \in claims
  BY <1>2, CacheScansNot
<1>8. Cache \notin claims' => snap <= Market
  BY <1>2, <1>6 DEF ScansAreOld
<1>9. Syncer \notin claims' => job.known <= Market
  <2>1. CASE t = Syncer
    BY <1>1, <2>1 DEF ScansAreOld
  <2>2. CASE t # Syncer
    BY <1>4, <2>2 DEF ScansAreOld, Scanner
  <2> QED BY <2>1, <2>2
<1>10. \A u \in Scanner : scan'[u] <= calendar /\ (u \notin claims' => scan'[u] <= Market)
  BY <1>4, <1>5 DEF ScansAreOld
<1> QED
  BY <1>2, <1>3, <1>8, <1>9, <1>10 DEF ScansAreOld


\* What is stored was scanned; a thread keeps nothing but the sync, which then knows it.
LEMMA StoreKeeps ==
    ASSUME PredictShape, ScansAreOld, NEW t \in Scanner \ {Syncer}, Stores(t), UNCHANGED job,
           UNCHANGED requestRest
    PROVE  PredictShape' /\ ScansAreOld'
<1>1. Market \in Nat /\ Market <= calendar
  BY MarketIsDay
<1>2. /\ UNCHANGED <<calendar, close, job>> /\ Market' = Market
      /\ snap' = scan[t] /\ scan' = [scan EXCEPT ![t] = 0]
      /\ claims' = (claims \ {t, Cache}) \union {c \in {Cache} : t \in claims}
  BY DEF Stores, StoreSnapshot, Market
<1>3. PredictShape'
  BY <1>2 DEF PredictShape, requestRest
<1>4. /\ Cache \in claims' <=> t \in claims
      /\ \A u \in Scanner \ {t} : u \in claims' <=> u \in claims
  BY <1>2, CacheScansNot
<1>5. \A u \in Scanner : scan'[u] = IF u = t THEN 0 ELSE scan[u]
  BY <1>2 DEF PredictShape
<1>6. snap' <= calendar /\ (Cache \notin claims' => snap' <= Market)
  BY <1>2, <1>4 DEF ScansAreOld
<1>7. Syncer \notin claims' => job.known <= Market
  BY <1>4, CacheScansNot DEF ScansAreOld
<1>8. \A u \in Scanner : scan'[u] <= calendar /\ (u \notin claims' => scan'[u] <= Market)
  BY <1>1, <1>4, <1>5 DEF ScansAreOld, PredictShape
<1> QED
  BY <1>2, <1>3, <1>6, <1>7, <1>8 DEF ScansAreOld

LEMMA SyncKeeps ==
    ASSUME PredictShape, ScansAreOld, SyncStep, UNCHANGED requestRest
    PROVE  PredictShape' /\ ScansAreOld'
<1> DEFINE M == Market
<1>1. Market \in Nat /\ Market <= calendar
  BY MarketIsDay
<1>2. CASE SyncStarts
  <2>1. /\ UNCHANGED <<calendar, close, snap, scan, claims>> /\ Market' = Market
        /\ job.phase = "idle" /\ job' = [job EXCEPT !.phase = "reads"]
    BY <1>2 DEF SyncStarts, healthVars, Market
  <2>2. PredictShape'
    BY <2>1 DEF PredictShape, requestRest
  <2>3. job'.known = job.known /\ job'.target = job.target
    BY <2>1 DEF PredictShape
  <2> QED BY <2>1, <2>2, <2>3 DEF ScansAreOld
<1>3. CASE SyncReads
  <2>1. /\ UNCHANGED <<calendar, close, snap, scan>> /\ Market' = Market /\ scan[Syncer] = 0
        /\ job' = [job EXCEPT !.phase = "fetches", !.known = snap]
        /\ claims' = (claims \ {Syncer}) \union {c \in {Syncer} : Cache \in claims}
    BY <1>3 DEF SyncReads, Knows, Market
  <2>2. PredictShape'
    BY <2>1 DEF PredictShape, requestRest
  <2>3. job'.known = snap /\ job'.target = job.target /\ job'.phase = "fetches"
    BY <2>1 DEF PredictShape
  <2>4. /\ Syncer \in claims' <=> Cache \in claims
        /\ Cache \in claims' <=> Cache \in claims
        /\ \A u \in Scanner \ {Syncer} : u \in claims' <=> u \in claims
    BY <2>1, CacheScansNot
  <2>5. \A u \in Scanner : u \notin claims' => scan[u] <= Market
    BY <1>1, <2>1, <2>4 DEF ScansAreOld
  <2> QED BY <2>1, <2>2, <2>3, <2>4, <2>5 DEF ScansAreOld
<1>4. CASE SyncScans
  BY <1>4, ScanKeeps, CacheScansNot DEF SyncScans
<1>5. CASE SyncStores
  <2>1. /\ UNCHANGED <<calendar, close>> /\ Market' = Market
        /\ snap' = scan[Syncer] /\ scan' = [scan EXCEPT ![Syncer] = 0]
        /\ job' = [job EXCEPT !.phase = "fetches", !.known = scan[Syncer]]
        /\ claims' = (claims \ {Cache}) \union {c \in {Cache} : Syncer \in claims}
    BY <1>5 DEF SyncStores, Knows, StoreSnapshot, Market
  <2>2. PredictShape'
    BY <2>1, CacheScansNot DEF PredictShape, requestRest
  <2>3. job'.known = scan[Syncer] /\ job'.target = job.target /\ job'.phase = "fetches"
    BY <2>1 DEF PredictShape
  <2>4. /\ Cache \in claims' <=> Syncer \in claims
        /\ \A u \in Scanner : u \in claims' <=> u \in claims
    BY <2>1, CacheScansNot
  <2>5. \A u \in Scanner : scan'[u] = IF u = Syncer THEN 0 ELSE scan[u]
    BY <2>1 DEF PredictShape
  <2>6. \A u \in Scanner : scan'[u] <= calendar /\ (u \notin claims' => scan'[u] <= Market)
    BY <1>1, <2>4, <2>5 DEF ScansAreOld, PredictShape
  <2>7. /\ scan[Syncer] <= calendar
        /\ Syncer \notin claims => scan[Syncer] <= Market
    BY CacheScansNot DEF ScansAreOld
  <2> QED BY <2>1, <2>2, <2>3, <2>4, <2>6, <2>7, CacheScansNot DEF ScansAreOld
<1>6. CASE SyncPublishesDays
  <2>1. /\ UNCHANGED <<close, snap, scan, claims>> /\ Market' = Market
        /\ calendar' \in calendar..Today
    BY <1>6 DEF SyncPublishesDays, healthVars, Market
  <2>2. PICK target \in {0, calendar'}, unsure \in BOOLEAN :
          job' = [job EXCEPT !.phase = "writes", !.doubtful = unsure, !.target = target]
    BY <1>6 DEF SyncPublishesDays
  <2>3. calendar' \in Nat /\ calendar \in Nat /\ calendar <= calendar'
    BY <2>1, SnapshotAssumption DEF PredictShape, SnapshotAssumption
  <2>9. target \in Nat
    BY <2>2, <2>3
  <2>10. job' \in [phase : {"idle", "reads", "fetches", "writes"}, known : Nat, target : Nat,
                   doubtful : BOOLEAN]
    BY <2>2, <2>9 DEF PredictShape
  <2>4. PredictShape'
    BY <2>1, <2>3, <2>10 DEF PredictShape, requestRest
  <2>5. job'.known = job.known /\ job'.target = target /\ job'.phase = "writes"
    BY <2>2 DEF PredictShape
  <2>6. \A s \in Symbol : close[s] <= calendar'
    BY <2>3 DEF ScansAreOld, PredictShape
  <2>7. \A u \in Scanner : scan[u] <= calendar'
    BY <2>3 DEF ScansAreOld, PredictShape
  <2>8. snap <= calendar' /\ job.known <= calendar' /\ target <= calendar'
    BY <2>3 DEF ScansAreOld, PredictShape
  <2> QED BY <2>1, <2>4, <2>5, <2>6, <2>7, <2>8 DEF ScansAreOld
<1>7. ASSUME NEW s \in Symbol, SyncWritesClose(s) PROVE PredictShape' /\ ScansAreOld'
  <2>1. UNCHANGED <<calendar, snap, scan, job, claims>>
    BY <1>7 DEF SyncWritesClose, healthVars
  <2>2. PICK d \in (close[s] + 1)..calendar : close' = [close EXCEPT ![s] = d]
    BY <1>7 DEF SyncWritesClose
  <2>3. /\ close' \in [Symbol -> Nat] /\ \A q \in Symbol : close'[q] <= calendar
        /\ Market' \in Nat /\ Market <= Market'
    BY <2>2, MarketMovesOn
  <2>4. /\ snap <= Market => snap <= Market'
        /\ job.known <= Market => job.known <= Market'
        /\ \A t \in Scanner : scan[t] <= Market => scan[t] <= Market'
    BY <1>1, <2>3 DEF PredictShape
  <2>5. PredictShape'
    BY <2>1, <2>3 DEF PredictShape, requestRest
  <2> QED
    BY <2>1, <2>3, <2>4, <2>5 DEF ScansAreOld
<1>8. CASE WriterRaises
  <2>1. /\ UNCHANGED <<calendar, close, snap, scan, claims>> /\ Market' = Market
        /\ job' = [job EXCEPT !.doubtful = TRUE]
    BY <1>8 DEF WriterRaises, healthVars, Market
  <2>2. PredictShape'
    BY <2>1 DEF PredictShape, requestRest
  <2>3. job'.known = job.known /\ job'.target = job.target /\ job'.phase = job.phase
    BY <2>1 DEF PredictShape
  <2> QED BY <2>1, <2>2, <2>3 DEF ScansAreOld
<1>9. CASE SyncEnds
  <2>1. /\ UNCHANGED <<calendar, close, scan>> /\ Market' = Market
        /\ job' = NoJob /\ scan[Syncer] = 0
    BY <1>9 DEF SyncEnds, Market
  <2>2. /\ job'.known = 0 /\ job'.target = 0
        /\ job' \in [phase : {"idle", "reads", "fetches", "writes"}, known : Nat, target : Nat,
                      doubtful : BOOLEAN]
    BY <2>1 DEF NoJob
  <2>3. \A u \in Scanner \ {Syncer} : u \in claims' <=> u \in claims
    BY <1>9, CacheScansNot DEF SyncEnds, SyncPublishes
  <2>4. \A u \in Scanner : u \notin claims' => scan[u] <= Market
    BY <1>1, <2>1, <2>3 DEF ScansAreOld
  <2>5. snap' \in Nat /\ snap' <= calendar /\ (Cache \notin claims' => snap' <= Market)
    <3>1. CASE SyncPublishes
      <4>1. /\ job.doubtful \/ job.target <= Market
            /\ snap' = IF job.target = 0 THEN job.known ELSE job.target
        BY <3>1 DEF SyncPublishes, StoreSnapshot
      <4>2. Cache \in claims' <=> IF job.target = 0 THEN Syncer \in claims ELSE job.doubtful
        BY <3>1, CacheScansNot DEF SyncPublishes
      <4> QED BY <4>1, <4>2 DEF ScansAreOld, PredictShape
    <3>2. CASE claims' = claims \ {Syncer} /\ snap' = snap
      <4>1. Cache \in claims' <=> Cache \in claims
        BY <3>2 DEF Cache, Syncer
      <4> QED BY <3>2, <4>1 DEF ScansAreOld, PredictShape
    <3> QED BY <1>9, <3>1, <3>2 DEF SyncEnds
  <2>6. PredictShape'
    BY <2>1, <2>2, <2>5 DEF PredictShape, requestRest
  <2>7. 0 <= calendar /\ 0 <= Market
    BY <1>1 DEF PredictShape
  <2> QED BY <2>1, <2>2, <2>4, <2>5, <2>6, <2>7 DEF ScansAreOld
<1> QED
  BY <1>2, <1>3, <1>4, <1>5, <1>6, <1>7, <1>8, <1>9 DEF SyncStep

LEMMA HealthKeeps ==
    ASSUME PredictShape, ScansAreOld, HealthNext, UNCHANGED requestRest
    PROVE  PredictShape' /\ ScansAreOld'
<1>1. CASE SyncStep
  BY <1>1, SyncKeeps
<1>2. CASE WorkerScans
  BY <1>2, ScanKeeps, CacheScansNot DEF WorkerScans
<1>3. CASE WorkerStores
  BY <1>3, StoreKeeps, CacheScansNot DEF WorkerStores
<1>4. ASSUME NEW r \in Reader, RequestScans(r) PROVE PredictShape' /\ ScansAreOld'
  BY <1>4, ScanKeeps, CacheScansNot DEF RequestScans
<1>5. ASSUME NEW r \in Reader, RequestStores(r) PROVE PredictShape' /\ ScansAreOld'
  BY <1>5, StoreKeeps, CacheScansNot DEF RequestStores
<1>6. CASE WorkerLeaves \/ Expire
  <2>1. UNCHANGED <<calendar, close, job, snap, scan, claims>> /\ Market' = Market
    BY <1>6 DEF WorkerLeaves, Expire, diskVars, Market
  <2>2. PredictShape'
    BY <2>1 DEF PredictShape, requestRest
  <2> QED BY <2>1, <2>2 DEF ScansAreOld
<1> QED
  BY <1>1, <1>2, <1>3, <1>4, <1>5, <1>6 DEF HealthNext

LEMMA ScansStayOld ==
    ASSUME ScansAreOld, UNCHANGED <<calendar, close, job, snap, scan, claims>>
    PROVE  ScansAreOld'
BY DEF ScansAreOld, Market

-----------------------------------------------------------------------------
(* The requests.                                                           *)

LEMMA ResolveKeeps ==
    ASSUME PredictInv, NEW r \in Reader, NEW wanted \in Nat \ {0, 1}, Resolve(r, wanted)
    PROVE  PredictInv'
<1> USE DEF PredictInv
<1> DEFINE day == FeatureOf(wanted, snap)
<1>1. /\ request[r] = "idle" /\ wanted >= snap
      /\ date' = [date EXCEPT ![r] = wanted] /\ feature' = [feature EXCEPT ![r] = day]
      /\ request' = [request EXCEPT ![r] = "resolved"]
      /\ UNCHANGED <<calendar, close, job, snap, scan, claims, history, memory, file, emptied, made, overlap>>
  BY DEF Resolve, Goto, diskVars, healthVars
<1>2. day \in Nat /\ day < wanted
  BY <1>1 DEF FeatureOf, PredictShape
<1> HIDE DEF day
<1>3. PredictShape'
  BY <1>1, <1>2 DEF PredictShape, Stage
<1>4. RequestsAreTimely'
  BY <1>1, <1>2 DEF RequestsAreTimely, PredictShape
<1>5. ~overlap' => HistoryInHand'
  BY <1>1 DEF HistoryInHand, Holding, PredictShape
<1> QED
  BY <1>1, <1>3, <1>4, <1>5, ScansStayOld

LEMMA LoadDatasetKeeps ==
    ASSUME PredictInv, NEW r \in Reader, LoadDataset(r)
    PROVE  PredictInv'
<1> USE DEF PredictInv
<1>1. /\ request[r] = "resolved" /\ request' = [request EXCEPT ![r] = "loading"]
      /\ UNCHANGED <<calendar, close, job, snap, scan, claims, date, feature, history, memory, file, emptied, made, overlap>>
  BY DEF LoadDataset, Goto, diskVars, healthVars
<1>2. PredictShape'
  BY <1>1 DEF PredictShape, Stage
<1>3. RequestsAreTimely'
  BY <1>1 DEF RequestsAreTimely, PredictShape
<1>4. ~overlap' => HistoryInHand'
  BY <1>1 DEF HistoryInHand, Holding, PredictShape
<1> QED
  BY <1>1, <1>2, <1>3, <1>4, ScansStayOld

\* A request that has its answer, or its error, holds nothing.
LEMMA LeavesKeeps ==
    ASSUME PredictInv, NEW r \in Reader, Leaves(r),
           UNCHANGED <<calendar, close, job, snap, scan, claims, memory, file, emptied, made, overlap>>
    PROVE  PredictInv'
<1> USE DEF PredictInv
<1>1. /\ date' = [date EXCEPT ![r] = 0] /\ feature' = [feature EXCEPT ![r] = 0]
      /\ history' = [history EXCEPT ![r] = {}]
      /\ request' = [request EXCEPT ![r] = "idle"]
  BY DEF Leaves, Goto
<1>2. PredictShape'
  BY <1>1 DEF PredictShape, Stage
<1>3. RequestsAreTimely'
  BY <1>1 DEF RequestsAreTimely, PredictShape
<1>4. ~overlap' => HistoryInHand'
  BY <1>1 DEF HistoryInHand, Holding, PredictShape
<1> QED
  BY <1>2, <1>3, <1>4, ScansStayOld

\* Going back one day leaves the features before the wanted day.
LEMMA PredictKeeps ==
    ASSUME PredictInv, NEW r \in Reader, Predict(r)
    PROVE  PredictInv'
<1> USE DEF PredictInv
<1>1. /\ request[r] = "loading"
      /\ UNCHANGED <<calendar, close, job, snap, scan, claims, memory, file, emptied, made, overlap>>
  BY DEF Predict, diskVars, healthVars
<1>2. \/ Leaves(r)
      \/ /\ request' = [request EXCEPT ![r] = "predicted"] /\ ~(Fallback(r) < 1)
         /\ UNCHANGED <<date, history>> /\ feature' = [feature EXCEPT ![r] = Fallback(r)]
  BY DEF Predict, Goto
<1>3. Fallback(r) \in {feature[r] - 1, feature[r]} /\ feature[r] \in Nat
  BY DEF Fallback, PredictShape
<1>4. ~(Fallback(r) < 1) => Fallback(r) \in Nat /\ Fallback(r) <= feature[r]
  BY <1>3
<1>5. CASE Leaves(r)
  BY <1>1, <1>5, LeavesKeeps
<1>6. CASE ~Leaves(r)
  <2>1. PredictShape'
    BY <1>1, <1>2, <1>4, <1>6 DEF PredictShape, Stage
  <2>2. date[r] # 0 /\ feature[r] < date[r] /\ date[r] \in Nat
    BY <1>1 DEF RequestsAreTimely, PredictShape
  <2>3. ~(Fallback(r) < 1) => Fallback(r) < date[r]
    BY <1>3, <1>4, <2>2
  <2>4. RequestsAreTimely'
    BY <1>2, <1>6, <2>2, <2>3 DEF RequestsAreTimely, PredictShape
  <2>5. ~overlap' => HistoryInHand'
    BY <1>1, <1>2, <1>6 DEF HistoryInHand, Holding, PredictShape
  <2> QED
    BY <1>1, <2>1, <2>4, <2>5, ScansStayOld
<1> QED
  BY <1>5, <1>6

\* A thread that takes the history while nobody else holds it has what was answered.
LEMMA TakesKeeps ==
    ASSUME PredictInv, NEW r \in Reader, NEW rows \in SUBSET Timely, NEW next \in {"reading", "merging"},
           next = "merging" => date[r] # 0,
           ~overlap => rows = made,
           Takes(r, rows, next),
           UNCHANGED <<calendar, close, job, snap, scan, claims, memory, file, emptied, made>>
    PROVE  PredictInv'
<1> USE DEF PredictInv
<1>1. /\ history' = [history EXCEPT ![r] = rows]
      /\ request' = [request EXCEPT ![r] = next]
      /\ overlap' = (overlap \/ Meets(r))
      /\ UNCHANGED <<date, feature>>
  BY DEF Takes, Goto
<1>2. PredictShape'
  <2>1. overlap' \in BOOLEAN
    BY <1>1
  <2> QED
    BY <1>1, <2>1 DEF PredictShape, Stage
<1>3. RequestsAreTimely'
  BY <1>1 DEF RequestsAreTimely, PredictShape
<1>4. ASSUME ~overlap' PROVE HistoryInHand'
  <2>1. HistoryInHand /\ \A q \in Reader \ {r} : ~Holding(q)
    BY <1>1, <1>4 DEF Meets
  <2>2. ~overlap
    BY <1>1, <1>4
  <2>3. history'[r] = made /\ \A q \in Reader \ {r} : history'[q] = history[q] /\ ~Holding(q)'
    BY <1>1, <2>1, <2>2 DEF HistoryInHand, Holding, PredictShape
  <2> QED
    BY <1>1, <2>1, <2>3 DEF HistoryInHand
<1> QED
  BY <1>2, <1>3, <1>4, ScansStayOld

\* One that finds no copy holds nothing yet.
LEMMA LookedKeeps ==
    ASSUME PredictInv, NEW r \in Reader, ~Holding(r), Looked(r),
           UNCHANGED <<calendar, close, job, snap, scan, claims, memory, file, emptied, made>>
    PROVE  PredictInv'
<1> USE DEF PredictInv
<1>1. /\ request' = [request EXCEPT ![r] = "looked"]
      /\ UNCHANGED <<date, feature, history, overlap>>
  BY DEF Looked, Goto
<1>2. PredictShape'
  BY <1>1 DEF PredictShape, Stage
<1>3. RequestsAreTimely'
  BY <1>1 DEF RequestsAreTimely, PredictShape
<1>4. ~overlap' => HistoryInHand'
  BY <1>1 DEF HistoryInHand, Holding, PredictShape
<1> QED
  BY <1>2, <1>3, <1>4, ScansStayOld

LEMMA ReadHistoryKeeps ==
    ASSUME PredictInv, NEW r \in Reader, ReadHistory(r) \/ ShowPredictions(r) \/ ReadFile(r)
    PROVE  PredictInv'
<1> USE DEF PredictInv
<1>1. UNCHANGED <<calendar, close, job, snap, scan, claims, memory, file, emptied, made>>
  BY DEF ReadHistory, ShowPredictions, ReadFile, diskVars, healthVars
<1>2. memory.rows \in SUBSET Timely /\ file \in SUBSET Timely
  BY DEF PredictShape
<1>3. CASE Looked(r) /\ ~ReadFile(r)
  <2>1. ~Holding(r)
    BY <1>3 DEF ReadHistory, ShowPredictions, Holding
  <2> QED BY <1>1, <1>3, <2>1, LookedKeeps
<1>4. CASE ReadHistory(r) /\ memory.loaded
  <2>1. Takes(r, memory.rows, "merging") /\ date[r] # 0
    BY <1>4 DEF ReadHistory, RequestsAreTimely
  <2>2. ~overlap => memory.rows = made
    BY <1>4 DEF HistoryInHand
  <2> QED BY <1>1, <1>2, <2>1, <2>2, TakesKeeps
<1>5. CASE ReadFile(r) /\ emptied
  <2>1. Leaves(r) /\ UNCHANGED overlap
    BY <1>5 DEF ReadFile
  <2> QED BY <1>1, <2>1, LeavesKeeps
<1>6. CASE ReadFile(r) /\ ~emptied
  <2>1. Takes(r, file, "reading")
    BY <1>6 DEF ReadFile
  <2>2. ~overlap => file = made
    BY <1>6 DEF HistoryInHand
  <2> QED BY <1>1, <1>2, <2>1, <2>2, TakesKeeps
<1> QED
  BY <1>3, <1>4, <1>5, <1>6 DEF ReadHistory, ShowPredictions

LEMMA KeepHistoryKeeps ==
    ASSUME PredictInv, NEW r \in Reader, KeepHistory(r)
    PROVE  PredictInv'
<1> USE DEF PredictInv
<1>1. /\ request[r] = "reading" /\ memory' = [loaded |-> TRUE, rows |-> history[r]]
      /\ \/ date[r] = 0 /\ request' = [request EXCEPT ![r] = "idle"]
            /\ history' = [history EXCEPT ![r] = {}]
         \/ date[r] # 0 /\ request' = [request EXCEPT ![r] = "merging"] /\ history' = history
      /\ UNCHANGED <<calendar, close, job, snap, scan, claims, date, feature, file, emptied, made, overlap>>
  BY DEF KeepHistory, Goto, diskVars, healthVars
<1>2. PredictShape'
  BY <1>1 DEF PredictShape, Stage
<1>3. RequestsAreTimely'
  BY <1>1 DEF RequestsAreTimely, PredictShape
<1>4. ~overlap' => HistoryInHand'
  BY <1>1 DEF HistoryInHand, Holding, PredictShape
<1> QED
  BY <1>1, <1>2, <1>3, <1>4, ScansStayOld

LEMMA OpenHistoryKeeps ==
    ASSUME PredictInv, NEW r \in Reader, OpenHistory(r)
    PROVE  PredictInv'
<1> USE DEF PredictInv
<1>1. /\ request[r] = "merging" /\ request' = [request EXCEPT ![r] = "writing"]
      /\ file' = {} /\ emptied' = TRUE
      /\ UNCHANGED <<calendar, close, job, snap, scan, claims, date, feature, history, memory, made, overlap>>
  BY DEF OpenHistory, Goto, diskVars, healthVars
<1>2. PredictShape'
  BY <1>1 DEF PredictShape, Stage
<1>3. RequestsAreTimely'
  BY <1>1 DEF RequestsAreTimely, PredictShape
<1>4. ~overlap' => HistoryInHand'
  BY <1>1 DEF HistoryInHand, Holding, PredictShape
<1> QED
  BY <1>1, <1>2, <1>3, <1>4, ScansStayOld

LEMMA PersistKeeps ==
    ASSUME PredictInv, NEW r \in Reader, Persist(r)
    PROVE  PredictInv'
<1> USE DEF PredictInv
<1>1. /\ request[r] = "writing" /\ file' = Merged(r) /\ emptied' = FALSE
      /\ memory' = [loaded |-> TRUE, rows |-> Merged(r)]
      /\ made' = {p \in made : p.date # date[r]} \union {Prediction(r)}
      /\ date' = [date EXCEPT ![r] = 0] /\ feature' = [feature EXCEPT ![r] = 0]
      /\ history' = [history EXCEPT ![r] = {}]
      /\ request' = [request EXCEPT ![r] = "idle"]
      /\ UNCHANGED <<calendar, close, job, snap, scan, claims, overlap>>
  BY DEF Persist, Leaves, Goto, diskVars, healthVars
<1>2. Prediction(r) \in Timely
  BY <1>1 DEF Prediction, Timely, RequestsAreTimely, PredictShape
<1>3. Merged(r) \in SUBSET Timely /\ made' \in SUBSET Timely
  BY <1>1, <1>2 DEF Merged, PredictShape
<1>4. PredictShape'
  BY <1>1, <1>3 DEF PredictShape, Stage
<1>5. RequestsAreTimely'
  BY <1>1 DEF RequestsAreTimely, PredictShape
<1>6. ASSUME ~overlap' PROVE HistoryInHand'
  <2>1. HistoryInHand /\ history[r] = made
    BY <1>1, <1>6 DEF HistoryInHand, Holding
  <2>2. file' = made' /\ memory'.rows = made'
    BY <1>1, <2>1 DEF Merged
  <2>3. \A q \in Reader : ~Holding(q)'
    BY <1>1, <2>1 DEF HistoryInHand, Holding, PredictShape
  <2> QED
    BY <2>2, <2>3 DEF HistoryInHand
<1> QED
  BY <1>1, <1>4, <1>5, <1>6, ScansStayOld

LEMMA PersistRaisesKeeps ==
    ASSUME PredictInv, NEW r \in Reader, PersistRaises(r)
    PROVE  PredictInv'
<1>1. /\ Leaves(r)
      /\ UNCHANGED <<calendar, close, job, snap, scan, claims, memory, file, emptied, made, overlap>>
  BY DEF PersistRaises, diskVars, healthVars, storeVars
<1> QED
  BY <1>1, LeavesKeeps

LEMMA ReloadKeeps == ASSUME PredictInv, ReloadRegistry PROVE PredictInv'
<1>1. /\ memory' = NotLoaded
      /\ UNCHANGED <<calendar, close, job, snap, scan, claims, request, date, feature, history, file, emptied, made, overlap>>
  BY DEF ReloadRegistry, diskVars, healthVars, predictRequestVars
<1>2. NotLoaded \in [loaded : BOOLEAN, rows : SUBSET Timely] /\ ~NotLoaded.loaded
  BY DEF NotLoaded
<1>3. PredictShape'
  BY <1>1, <1>2 DEF PredictInv, PredictShape
<1>4. RequestsAreTimely' /\ (~overlap' => HistoryInHand')
  BY <1>1, <1>2 DEF PredictInv, RequestsAreTimely, HistoryInHand, Holding
<1> QED
  BY <1>1, <1>3, <1>4, ScansStayOld DEF PredictInv

LEMMA RestartKeeps == ASSUME PredictInv, ServerRestarts PROVE PredictInv'
<1> USE DEF PredictInv
<1>1. /\ snap' = 0 /\ scan' = [t \in Scanner |-> 0] /\ job' = NoJob /\ claims' = {}
      /\ request' = [r \in Reader |-> "idle"]
      /\ date' = [r \in Reader |-> 0] /\ feature' = [r \in Reader |-> 0]
      /\ history' = [r \in Reader |-> {}] /\ memory' = NotLoaded
      /\ UNCHANGED <<calendar, close, file, emptied, made, overlap>>
  BY DEF ServerRestarts
<1>2. NotLoaded \in [loaded : BOOLEAN, rows : SUBSET Timely] /\ ~NotLoaded.loaded
  BY DEF NotLoaded
<1>3. PredictShape'
  BY <1>1, <1>2 DEF PredictShape, Stage, NoJob
<1>4. ScansAreOld'
  <2>1. Market \in Nat /\ Market' = Market /\ calendar \in Nat
    BY <1>1, MarketIsDay DEF Market, PredictShape
  <2>2. \A t \in Scanner : scan'[t] = 0
    BY <1>1
  <2>3. job'.known = 0 /\ job'.target = 0
    BY <1>1 DEF NoJob
  <2> QED
    BY <1>1, <2>1, <2>2, <2>3 DEF ScansAreOld
<1>5. RequestsAreTimely' /\ (~overlap' => HistoryInHand')
  BY <1>1, <1>2 DEF RequestsAreTimely, HistoryInHand, Holding
<1> QED
  BY <1>3, <1>4, <1>5

-----------------------------------------------------------------------------

LEMMA PredictInductive == PredictSpec => []PredictInv
<1>1. PredictInit => PredictInv
  <2> SUFFICES ASSUME PredictInit PROVE PredictInv
    OBVIOUS
  <2>1. /\ calendar = 1 /\ close = [s \in Symbol |-> 1] /\ snap = 0 /\ scan = [t \in Scanner |-> 0]
        /\ job = [phase |-> "idle", known |-> 0, target |-> 0, doubtful |-> FALSE]
    BY DEF PredictInit, HealthInit, NoJob
  <2>2. Market \in Nat
    BY <2>1, MarketIsLast
  <2>3. NotLoaded \in [loaded : BOOLEAN, rows : SUBSET Timely] /\ ~NotLoaded.loaded
    BY DEF NotLoaded
  <2>4. PredictShape
    BY <2>1, <2>3 DEF PredictInit, PredictShape, Stage
  <2>5. ScansAreOld
    BY <2>1, <2>2 DEF ScansAreOld
  <2>6. RequestsAreTimely /\ HistoryInHand
    BY <2>3 DEF PredictInit, RequestsAreTimely, HistoryInHand, Holding
  <2> QED
    BY <2>4, <2>5, <2>6 DEF PredictInv
<1>2. PredictInv /\ [PredictNext]_predictVars => PredictInv'
  <2> SUFFICES ASSUME PredictInv, [PredictNext]_predictVars PROVE PredictInv'
    OBVIOUS
  <2>1. CASE HealthNext /\ UNCHANGED <<predictRequestVars, storeVars>>
    <3>1. UNCHANGED requestRest
      BY <2>1 DEF predictRequestVars, storeVars, requestRest
    <3>2. PredictShape' /\ ScansAreOld'
      BY <2>1, <3>1, HealthKeeps DEF PredictInv
    <3> QED
      BY <3>1, <3>2 DEF PredictInv, RequestsAreTimely, HistoryInHand, Holding, requestRest
  <2>2. ASSUME NEW r \in Reader, NEW wanted \in 2..(Today + 1), Resolve(r, wanted) PROVE PredictInv'
    <3>1. wanted \in Nat \ {0, 1}
      BY SnapshotAssumption DEF SnapshotAssumption
    <3> QED
      BY <2>2, <3>1, ResolveKeeps
  <2>5. CASE UNCHANGED predictVars
    BY <2>5 DEF predictVars, diskVars, healthVars, predictRequestVars, storeVars, PredictInv,
                PredictShape, ScansAreOld, Market, RequestsAreTimely, HistoryInHand, Holding
  <2> QED
    BY <2>1, <2>2, <2>5, LoadDatasetKeeps, PredictKeeps, ReadHistoryKeeps, KeepHistoryKeeps,
       OpenHistoryKeeps, PersistKeeps, PersistRaisesKeeps, ReloadKeeps, RestartKeeps DEF PredictNext
<1> QED
  BY <1>1, <1>2, PTL DEF PredictSpec

\* In whatever order the snapshots are stored, the cached one names a day of the calendar,
\* and one some equity has a close of unless a scan that raised or a sync with a doubtful
\* target has stored it.
THEOREM SnapshotIsTrue == PredictSpec => []SnapshotTrue
<1>1. PredictInv => SnapshotTrue
  BY DEF PredictInv, PredictShape, ScansAreOld, SnapshotTrue
<1> QED
  BY <1>1, PredictInductive, PTL

\* No prediction uses its own day or a later one, whatever is in the shared dataset and
\* however far a sync has come.
THEOREM PredictionsLookBack == PredictSpec => []NoLookAhead
<1>1. PredictInv => NoLookAhead
  BY DEF PredictInv, PredictShape, Timely, NoLookAhead
<1> QED
  BY <1>1, PredictInductive, PTL

\* As long as no two threads have met between reading the history and storing it, no
\* prediction is lost, neither by reloads nor by a restart, unless the restart or a full
\* disk has cut off a write of the file.
THEOREM HistoryIsKept == PredictSpec => []HistoryKept
<1>1. PredictInv => HistoryKept
  BY DEF PredictInv, HistoryInHand, HistoryKept
<1> QED
  BY <1>1, PredictInductive, PTL

-----------------------------------------------------------------------------
(* Positions: every answered edit is in the file once.                      *)

IsHolding(ps) == IsFiniteSet(DOMAIN ps) /\ ps \in [DOMAIN ps -> Position]

Total(ps) == FoldFunction(LAMBDA p, sum : Value(p) + sum, 0, ps)

Worth(ps) == [s \in DOMAIN ps |-> Value(ps[s])]

\* A book whose cash and positions are worth what is due.
Balanced(b) ==
    /\ b = [cash |-> b.cash, due |-> b.due, positions |-> b.positions]
    /\ b.cash \in Int /\ b.due \in Int /\ IsHolding(b.positions)
    /\ b.cash + Total(b.positions) = b.due

-----------------------------------------------------------------------------
(* What the positions of a book have cost.                                 *)

LEMMA ValueType ==
    ASSUME NEW p \in Position
    PROVE  p.shares \in Int /\ p.price \in Int /\ Value(p) \in Int
BY DEF Position, Value

LEMMA WorthType ==
    ASSUME NEW ps, IsHolding(ps)
    PROVE  Worth(ps) \in [DOMAIN ps -> Int]
BY ValueType DEF IsHolding, Worth

LEMMA TotalIsSum ==
    ASSUME NEW ps, IsHolding(ps)
    PROVE  Total(ps) = SumOver(DOMAIN ps, Worth(ps))
<1> DEFINE Solves(g) == g = [s \in SUBSET DOMAIN ps |->
                               IF s = {} THEN 0 ELSE Value(ps[First(s)]) + g[s \ {First(s)}]]
<1>1. Total(ps) = (CHOOSE g : Solves(g))[DOMAIN ps]
  BY DEF Total, FoldFunction, FoldFunctionOnSet, MapThenFoldSet, First
<1>2. \A s \in SUBSET DOMAIN ps : s # {} => Worth(ps)[First(s)] = Value(ps[First(s)])
  BY FirstIsIn DEF Worth
<1>3. PICK g : Adds(g, DOMAIN ps, Worth(ps))
  BY WorthType, AddsExists DEF IsHolding
<1>4. Solves(g)
  BY <1>2, <1>3 DEF Adds
<1> DEFINE h == CHOOSE f : Solves(f)
<1>5. Solves(h)
  <2> HIDE DEF Solves
  <2> QED BY <1>4
<1> HIDE DEF h
<1>6. Adds(h, DOMAIN ps, Worth(ps))
  BY <1>2, <1>5 DEF Adds
<1> HIDE DEF Solves
<1> QED BY <1>1, <1>6, SumIs DEF h, IsHolding

LEMMA TotalType ==
    ASSUME NEW ps, IsHolding(ps)
    PROVE  Total(ps) \in Int
BY TotalIsSum, WorthType, SumType DEF IsHolding

LEMMA EmptyBookBalanced == Balanced(EmptyBook)
<1> DEFINE ps == EmptyBook.positions
<1>1. DOMAIN ps = {} /\ ps \in [{} -> Position]
  BY DEF EmptyBook
<1>2. IsHolding(ps)
  BY <1>1, FS_EmptySet DEF IsHolding
<1>3. Total(ps) = 0
  BY <1>1, <1>2, TotalIsSum, SumEmpty
<1> QED BY <1>2, <1>3 DEF Balanced, EmptyBook

LEMMA OfIsPosition ==
    ASSUME NEW b, IsHolding(b.positions), NEW s
    PROVE  Of(b, s) \in Position
BY DEF Of, IsHolding, Position

\* A book without s has the rest of its positions.
LEMMA TotalWithout ==
    ASSUME NEW b, IsHolding(b.positions), NEW s
    PROVE  /\ IsHolding(Without(b, s))
           /\ Total(b.positions) = Value(Of(b, s)) + Total(Without(b, s))
<1> DEFINE ps == b.positions
           rest == Without(b, s)
<1>1. DOMAIN rest = DOMAIN ps \ {s} /\ \A x \in DOMAIN ps \ {s} : rest[x] = ps[x]
  BY DEF Without, Restrict
<1>2. rest \in [DOMAIN rest -> Position]
  BY DEF Without, Restrict, IsHolding
<1>3. IsHolding(rest)
  BY <1>1, <1>2, FS_RemoveElement DEF IsHolding
<1>4. CASE s \in DOMAIN ps
  <2>1. \A x \in DOMAIN ps \ {s} : Worth(rest)[x] = Worth(ps)[x]
    BY <1>1 DEF Worth
  <2>2. SumOver(DOMAIN ps, Worth(ps)) = Worth(ps)[s] + SumOver(DOMAIN ps \ {s}, Worth(rest))
    BY <1>4, <2>1, WorthType, SumSplit DEF IsHolding
  <2>3. Worth(ps)[s] = Value(Of(b, s))
    BY <1>4 DEF Worth, Of
  <2> QED BY <1>1, <1>3, <2>2, <2>3, TotalIsSum
<1>5. CASE s \notin DOMAIN ps
  <2>1. rest = ps
    BY <1>5 DEF Without, Restrict, IsHolding
  <2>2. Value(Of(b, s)) = 0
    BY <1>5 DEF Of, Value
  <2>3. Total(ps) \in Int
    BY TotalType
  <2> QED BY <1>3, <2>1, <2>2, <2>3
<1> QED BY <1>4, <1>5

\* A book with p for s has p instead of what it had for s.
LEMMA TotalWith ==
    ASSUME NEW b, IsHolding(b.positions), NEW s, NEW p \in Position
    PROVE  /\ IsHolding(With(b, s, p))
           /\ Total(With(b, s, p)) = Total(b.positions) - Value(Of(b, s)) + Value(p)
<1> DEFINE ps == b.positions
           now == With(b, s, p)
           c == [positions |-> now]
<1>1. now \in [DOMAIN now -> Position] /\ DOMAIN now = DOMAIN ps \union {s}
  BY DEF With, IsHolding
<1>2. IsHolding(now)
  BY <1>1, FS_AddElement DEF IsHolding
<1>3. Without(c, s) = Without(b, s)
  BY DEF Without, Restrict, With
<1>4. Of(c, s) = p
  BY DEF Of, With
<1>5. Total(now) = Value(p) + Total(Without(b, s))
  <2>1. c.positions = now
    OBVIOUS
  <2>2. Total(c.positions) = Value(Of(c, s)) + Total(Without(c, s))
    BY <1>2, <2>1, TotalWithout
  <2> QED BY <1>3, <1>4, <2>1, <2>2
<1>6. Total(ps) = Value(Of(b, s)) + Total(Without(b, s)) /\ IsHolding(Without(b, s))
  BY TotalWithout
<1>7. Value(Of(b, s)) \in Int /\ Value(p) \in Int
  BY OfIsPosition, ValueType
<1>8. Total(Without(b, s)) \in Int
  BY <1>6, TotalType
<1> HIDE DEF now, ps, c
<1>9. Total(now) = Total(ps) - Value(Of(b, s)) + Value(p)
  BY <1>5, <1>6, <1>7, <1>8
<1> QED BY <1>2, <1>9 DEF now, ps

-----------------------------------------------------------------------------
(* What an edit makes of a balanced book is balanced, and is one book.     *)

LEMMA TradedBalanced ==
    ASSUME NEW b, Balanced(b), NEW ps, IsHolding(ps), NEW n \in Int, NEW gain \in Int,
           Total(ps) = Total(b.positions) + n + gain
    PROVE  Balanced(Traded(b, ps, n, gain))
<1>1. Total(b.positions) \in Int /\ Total(ps) \in Int
  BY TotalType DEF Balanced
<1>2. b.cash \in Int /\ b.due \in Int /\ b.cash + Total(b.positions) = b.due
  BY DEF Balanced
<1>3. (b.cash - n) + Total(ps) = b.due + gain
  BY <1>1, <1>2
<1> QED BY <1>2, <1>3 DEF Balanced, Traded

LEMMA FeeType ==
    ASSUME NEW n \in Int
    PROVE  FeeOf(n) \in Int /\ Fee \in Int
BY PositionsAssumption DEF FeeOf, PositionsAssumption

LEMMA AverageType ==
    ASSUME NEW x \in Int, NEW n \in Int, n # 0
    PROVE  Average(x, n) \in Int
<1>1. \A i \in Int : \A k \in Nat \ {0} : i \div k \in Int
  OBVIOUS
<1>2. CASE n < 0
  BY <1>1, <1>2 DEF Average
<1>3. CASE n > 0
  BY <1>1, <1>3 DEF Average
<1> QED BY <1>2, <1>3

LEMMA AddBalanced ==
    ASSUME NEW b, Balanced(b), NEW s, NEW n \in Int, NEW p \in Int
    PROVE  /\ \A e \in Add(b, s, n, p) : Balanced(e)
           /\ \A e, f \in Add(b, s, n, p) : e = f
<1> DEFINE old == Of(b, s)
           paid == n * p + FeeOf(n)
           sum == old.shares + n
           price == Average(Value(old) + paid, sum)
<1>1. IsHolding(b.positions)
  BY DEF Balanced
<1>2. /\ old \in Position /\ old.shares \in Int /\ old.price \in Int
      /\ Value(old) \in Int /\ Value(old) = old.shares * old.price
  BY <1>1, OfIsPosition, ValueType DEF Value
<1>3. FeeOf(n) \in Int /\ n * p \in Int /\ paid \in Int /\ sum \in Int
  BY <1>2, FeeType
<1>4. Total(b.positions) \in Int
  BY <1>1, TotalType
<1>5. CASE s \in DOMAIN b.positions /\ sum <= 0
  <2> DEFINE q == [shares |-> sum, price |-> p]
             gain == old.shares * (p - old.price) - FeeOf(n)
  <2>1. q \in Position /\ Value(q) = sum * p
    BY <1>3 DEF Position, Value
  <2>2. /\ IsHolding(With(b, s, q))
        /\ Total(With(b, s, q)) = Total(b.positions) - Value(old) + sum * p
    BY <1>1, <2>1, TotalWith
  <2>3. gain \in Int
    BY <1>2, <1>3
  <2>4. sum * p - old.shares * old.price = n * p + old.shares * (p - old.price)
    BY <1>2
  <2>5. Total(b.positions) - Value(old) + sum * p = Total(b.positions) + paid + gain
    BY <1>2, <1>3, <1>4, <2>4
  <2>6. Balanced(Traded(b, With(b, s, q), paid, gain))
    <3> HIDE DEF gain, paid, q, sum, old
    <3> QED BY <1>3, <2>2, <2>3, <2>5, TradedBalanced
  <2>7. Add(b, s, n, p) = {Traded(b, With(b, s, q), paid, gain)}
    BY <1>5 DEF Add
  <2> HIDE DEF q, gain, paid
  <2> QED BY <2>6, <2>7
<1>6. CASE ~(s \in DOMAIN b.positions /\ sum <= 0) /\ ~(s \notin DOMAIN b.positions /\ n = 0)
  <2> DEFINE q == [shares |-> sum, price |-> price]
             gain == sum * price - Value(old) - paid
  <2>1. sum # 0
    <3>1. CASE s \in DOMAIN b.positions
      BY <1>3, <1>6, <3>1
    <3>2. CASE s \notin DOMAIN b.positions
      <4>1. old.shares = 0
        BY <3>2 DEF Of
      <4> QED BY <1>6, <3>2, <4>1
    <3> QED BY <3>1, <3>2
  <2>2. price \in Int
    <3>1. Value(old) + paid \in Int
      BY <1>2, <1>3
    <3> HIDE DEF sum, paid
    <3> QED BY <1>3, <2>1, <3>1, AverageType
  <2> HIDE DEF price
  <2>3. q \in Position /\ Value(q) = sum * price /\ sum * price \in Int
    BY <1>3, <2>2 DEF Position, Value
  <2>4. /\ IsHolding(With(b, s, q))
        /\ Total(With(b, s, q)) = Total(b.positions) - Value(old) + sum * price
    BY <1>1, <2>3, TotalWith
  <2>5. gain \in Int /\ Total(b.positions) - Value(old) + sum * price = Total(b.positions) + paid + gain
    <3> DEFINE worth == sum * price
    <3> HIDE DEF paid
    <3>1. worth \in Int
      BY <2>3
    <3> HIDE DEF worth
    <3> QED BY <1>2, <1>3, <1>4, <3>1 DEF worth
  <2>6. Balanced(Traded(b, With(b, s, q), paid, gain))
    <3> HIDE DEF gain, paid, q, sum, old
    <3> QED BY <1>3, <2>4, <2>5, TradedBalanced
  <2>7. Add(b, s, n, p) = {Traded(b, With(b, s, q), paid, gain)}
    BY <1>6 DEF Add, price
  <2> HIDE DEF q, gain, paid
  <2> QED BY <2>6, <2>7
<1>7. CASE s \notin DOMAIN b.positions /\ n = 0
  BY <1>7 DEF Add
<1> QED BY <1>5, <1>6, <1>7

LEMMA AnswerBalanced ==
    ASSUME NEW accepted \in BOOLEAN, NEW b, accepted => Balanced(b)
    PROVE  /\ \A e \in Answer(accepted, b) : Balanced(e)
           /\ \A e, f \in Answer(accepted, b) : e = f
BY DEF Answer

LEMMA SellBalanced ==
    ASSUME NEW b, Balanced(b), NEW s, NEW n \in Int, NEW p \in Int
    PROVE  /\ \A e \in Sell(b, s, n, p) : Balanced(e)
           /\ \A e, f \in Sell(b, s, n, p) : e = f
<1> DEFINE old == Of(b, s)
           price == IF p = 0 THEN old.price ELSE p
           rest == [old EXCEPT !.shares = @ - n]
           ps == IF rest.shares = 0 THEN Without(b, s) ELSE With(b, s, rest)
           paid == Fee - n * price
           gain == n * (price - old.price) - Fee
           accepted == n \in 1..old.shares /\ price > 0
<1>1. IsHolding(b.positions)
  BY DEF Balanced
<1>2. /\ old \in Position /\ old.shares \in Int /\ old.price \in Int
      /\ Value(old) \in Int /\ Value(old) = old.shares * old.price
  BY <1>1, OfIsPosition, ValueType DEF Value
<1>3. price \in Int /\ Fee \in Int
  BY <1>2, FeeType
<1>4. /\ rest \in Position /\ rest.shares = old.shares - n /\ rest.price = old.price
      /\ Value(rest) = (old.shares - n) * old.price
  BY <1>2 DEF Position, Value
<1>5. Total(b.positions) \in Int
  BY <1>1, TotalType
<1> HIDE DEF price, rest
<1>6. IsHolding(ps) /\ Total(ps) = Total(b.positions) - n * old.price
  <2>1. CASE rest.shares = 0
    <3>1. n = old.shares
      <4> HIDE DEF old
      <4> QED BY <1>2, <1>4, <2>1
    <3>2. IsHolding(Without(b, s)) /\ Total(b.positions) = Value(old) + Total(Without(b, s))
      BY <1>1, TotalWithout
    <3>3. Total(Without(b, s)) \in Int
      BY <3>2, TotalType
    <3> HIDE DEF old
    <3> QED BY <1>2, <1>5, <2>1, <3>1, <3>2, <3>3
  <2>2. CASE rest.shares # 0
    <3>1. /\ IsHolding(With(b, s, rest))
          /\ Total(With(b, s, rest)) = Total(b.positions) - Value(old) + Value(rest)
      BY <1>1, <1>4, TotalWith
    <3>2. (old.shares - n) * old.price = old.shares * old.price - n * old.price
      BY <1>2
    <3> HIDE DEF old
    <3> QED BY <1>2, <1>4, <1>5, <2>2, <3>1, <3>2
  <2> QED BY <2>1, <2>2
<1>7. paid \in Int /\ gain \in Int /\ Total(ps) = Total(b.positions) + paid + gain
  <2> HIDE DEF old, ps
  <2>1. n * (price - old.price) = n * price - n * old.price
    BY <1>2, <1>3
  <2> QED BY <1>2, <1>3, <1>5, <1>6, <2>1
<1> HIDE DEF ps, paid, gain, accepted
<1>8. Balanced(Traded(b, ps, paid, gain))
  BY <1>6, <1>7, TradedBalanced
<1>9. Sell(b, s, n, p) = Answer(accepted, Traded(b, ps, paid, gain))
  BY DEF Sell, price, rest, ps, paid, gain, accepted
<1>10. accepted \in BOOLEAN
  BY DEF accepted
<1> QED BY <1>8, <1>9, <1>10, AnswerBalanced

LEMMA SetCashBalanced ==
    ASSUME NEW b, Balanced(b), NEW c \in Int
    PROVE  /\ \A e \in SetCash(b, c) : Balanced(e)
           /\ \A e, f \in SetCash(b, c) : e = f
<1> DEFINE accepted == c >= 0
           paid == b.cash - c
           gain == c - b.cash
<1>1. IsHolding(b.positions) /\ b.cash \in Int
  BY DEF Balanced
<1>2. Total(b.positions) \in Int
  BY <1>1, TotalType
<1>3. paid \in Int /\ gain \in Int /\ Total(b.positions) = Total(b.positions) + paid + gain
  BY <1>1, <1>2
<1>4. SetCash(b, c) = Answer(accepted, Traded(b, b.positions, paid, gain)) /\ accepted \in BOOLEAN
  BY DEF SetCash
<1> HIDE DEF accepted, paid, gain
<1>5. Balanced(Traded(b, b.positions, paid, gain))
  BY <1>1, <1>3, TradedBalanced
<1> QED BY <1>4, <1>5, AnswerBalanced

LEMMA UpdateBalanced ==
    ASSUME NEW b, Balanced(b), NEW s, NEW n \in Int, NEW p \in Int
    PROVE  /\ \A e \in Update(b, s, n, p) : Balanced(e)
           /\ \A e, f \in Update(b, s, n, p) : e = f
<1> DEFINE old == Of(b, s)
           new == [shares |-> IF n = 0 THEN old.shares ELSE n,
                   price |-> IF p = 0 THEN old.price ELSE p]
           fees == (IF Value(new) > 0 THEN Fee ELSE 0) - (IF Value(old) > 0 THEN Fee ELSE 0)
           paid == Value(new) - Value(old) + fees
           accepted == s \in DOMAIN b.positions /\ n >= 0
<1>1. IsHolding(b.positions)
  BY DEF Balanced
<1>2. old \in Position /\ old.shares \in Int /\ old.price \in Int /\ Value(old) \in Int
  BY <1>1, OfIsPosition, ValueType
<1>3. new \in Position
  BY <1>2 DEF Position
<1> HIDE DEF new
<1>4. Value(new) \in Int
  BY <1>3, ValueType
<1>5. fees \in Int
  BY FeeType
<1>6. /\ IsHolding(With(b, s, new))
      /\ Total(With(b, s, new)) = Total(b.positions) - Value(old) + Value(new)
  BY <1>1, <1>3, TotalWith
<1>7. Total(b.positions) \in Int
  BY <1>1, TotalType
<1> HIDE DEF fees, old
<1>8. paid \in Int /\ -fees \in Int /\ Total(With(b, s, new)) = Total(b.positions) + paid + (-fees)
  BY <1>2, <1>4, <1>5, <1>6, <1>7
<1> HIDE DEF paid, accepted
<1>9. Balanced(Traded(b, With(b, s, new), paid, -fees))
  BY <1>6, <1>8, TradedBalanced
<1>10. Update(b, s, n, p) = Answer(accepted, Traded(b, With(b, s, new), paid, -fees))
  BY DEF Update, old, new, fees, paid, accepted
<1>11. accepted \in BOOLEAN
  BY DEF accepted
<1> QED BY <1>9, <1>10, <1>11, AnswerBalanced

LEMMA DeleteBalanced ==
    ASSUME NEW b, Balanced(b), NEW s
    PROVE  /\ \A e \in Delete(b, s) : Balanced(e)
           /\ \A e, f \in Delete(b, s) : e = f
<1> DEFINE old == Of(b, s)
           fee == FeeOf(Value(old))
           accepted == s \in DOMAIN b.positions
<1>1. IsHolding(b.positions)
  BY DEF Balanced
<1>2. Value(old) \in Int
  BY <1>1, OfIsPosition, ValueType
<1>3. fee \in Int
  BY <1>2, FeeType
<1>4. IsHolding(Without(b, s)) /\ Total(b.positions) = Value(old) + Total(Without(b, s))
  BY <1>1, TotalWithout
<1>5. Total(Without(b, s)) \in Int
  BY <1>4, TotalType
<1> HIDE DEF fee, old
<1>6. /\ fee - Value(old) \in Int /\ -fee \in Int
      /\ Total(Without(b, s)) = Total(b.positions) + (fee - Value(old)) + (-fee)
  BY <1>2, <1>3, <1>4, <1>5
<1>7. Balanced(Traded(b, Without(b, s), fee - Value(old), -fee))
  BY <1>4, <1>6, TradedBalanced
<1>8. Delete(b, s) = Answer(accepted, Traded(b, Without(b, s), fee - Value(old), -fee))
  BY DEF Delete, old, fee
<1>9. accepted \in BOOLEAN
  OBVIOUS
<1> HIDE DEF accepted
<1> QED BY <1>7, <1>8, <1>9, AnswerBalanced

LEMMA EditedBalanced ==
    ASSUME NEW b, Balanced(b), NEW x \in Edits
    PROVE  /\ \A e \in Edited(b, x) : Balanced(e)
           /\ \A e, f \in Edited(b, x) : e = f
<1>1. x.n \in Int /\ x.p \in Int
  <2>1. Quotes \union {0} \subseteq Int /\ -1..MaxLots \subseteq Int
    BY PositionsAssumption DEF PositionsAssumption
  <2>2. x.n \in -1..MaxLots /\ x.p \in Quotes \union {0}
    BY DEF Edits
  <2> QED BY <2>1, <2>2
<1>2. x.what \in {"add", "sell", "cash", "account", "update", "remove"}
  BY DEF Edits
<1>3. CASE x.what = "add"
  <2>1. Edited(b, x) = IF x.p = 0 THEN {} ELSE Add(b, x.of, x.n, x.p)
    BY <1>3 DEF Edited
  <2> QED BY <1>1, <2>1, AddBalanced
<1>4. CASE x.what = "sell"
  <2>1. Edited(b, x) = Sell(b, x.of, x.n, x.p)
    BY <1>4 DEF Edited
  <2> QED BY <1>1, <2>1, SellBalanced
<1>5. CASE x.what = "cash"
  <2>1. Edited(b, x) = SetCash(b, x.n)
    BY <1>5 DEF Edited
  <2> QED BY <1>1, <2>1, SetCashBalanced
<1>6. CASE x.what = "account"
  <2>1. Edited(b, x) = {b}
    BY <1>6 DEF Edited
  <2> QED BY <2>1
<1>7. CASE x.what = "update"
  <2>1. Edited(b, x) = Update(b, x.of, x.n, x.p)
    BY <1>7 DEF Edited
  <2> QED BY <1>1, <2>1, UpdateBalanced
<1>8. CASE x.what = "remove"
  <2>1. Edited(b, x) = Delete(b, x.of)
    BY <1>8 DEF Edited
  <2> QED BY <2>1, DeleteBalanced
<1> QED BY <1>2, <1>3, <1>4, <1>5, <1>6, <1>7, <1>8

-----------------------------------------------------------------------------
(* The invariant of the positions file.                                    *)

PositionsShape ==
    /\ where \in [Request -> {"idle", "loaded", "opened"}]
    /\ DOMAIN draft = Request /\ draft = [q \in Request |-> draft[q]]
    /\ DOMAIN edit = Request /\ edit = [q \in Request |-> edit[q]]
    /\ mishap \in BOOLEAN
    /\ \A q \in Busy : edit[q] \in Edits

\* Whatever is or will be in the file is balanced.
AllBalanced ==
    /\ disk = Torn \/ Balanced(disk)
    /\ Balanced(books)
    /\ \A q \in Request : Balanced(draft[q])

\* Without a mishap one request at most is under way, and has what its edit makes of
\* the books; the file holds the books until it opens it.
OneStory ==
    /\ \A q, r \in Busy : q = r
    /\ \A q \in Busy : draft[q] \in Edited(books, edit[q])
    /\ \A q \in Request : where[q] = "opened" => disk = Torn
    /\ (\A q \in Request : where[q] # "opened") => disk = books

PositionsInv ==
    /\ PositionsShape /\ AllBalanced
    /\ ~mishap => OneStory

LEMMA PositionsInvInit == PositionsInit => PositionsInv
<1> SUFFICES ASSUME PositionsInit PROVE PositionsInv
  OBVIOUS
<1>1. Busy = {}
  BY DEF PositionsInit, Busy
<1>2. PositionsShape
  <2> DEFINE any == CHOOSE x \in Edits : TRUE
  <2>1. edit = [q \in Request |-> any]
    BY DEF PositionsInit
  <2> HIDE DEF any
  <2>2. DOMAIN edit = Request /\ edit = [q \in Request |-> edit[q]]
    BY <2>1
  <2> QED BY <1>1, <2>2 DEF PositionsInit, PositionsShape
<1>3. AllBalanced
  BY EmptyBookBalanced DEF PositionsInit, AllBalanced
<1>4. OneStory
  BY <1>1 DEF PositionsInit, OneStory
<1> QED BY <1>2, <1>3, <1>4 DEF PositionsInv

LEMMA LoadKeeps ==
    ASSUME PositionsInv, NEW q \in Request, NEW x \in Edits, Load(q, x)
    PROVE  PositionsInv'
<1>1. PICK b \in Edited(disk, x) : draft' = [draft EXCEPT ![q] = b]
  BY DEF Load
<1>2. /\ where[q] = "idle" /\ disk # Torn
      /\ edit' = [edit EXCEPT ![q] = x] /\ where' = [where EXCEPT ![q] = "loaded"]
      /\ mishap' = (mishap \/ Busy # {}) /\ disk' = disk /\ books' = books
  BY DEF Load
<1>3. /\ where'[q] = "loaded" /\ draft'[q] = b /\ edit'[q] = x
      /\ \A r \in Request \ {q} : where'[r] = where[r] /\ draft'[r] = draft[r] /\ edit'[r] = edit[r]
  BY <1>1, <1>2 DEF PositionsInv, PositionsShape
<1>4. Busy' = Busy \union {q}
  BY <1>3 DEF Busy
<1>5. Balanced(disk)
  BY <1>2 DEF PositionsInv, AllBalanced
<1>6. PositionsShape'
  <2>1. \A r \in Busy' : edit'[r] \in Edits
    BY <1>3, <1>4 DEF PositionsInv, PositionsShape, Busy
  <2>2. /\ DOMAIN draft' = Request /\ draft' = [r \in Request |-> draft'[r]]
        /\ DOMAIN edit' = Request /\ edit' = [r \in Request |-> edit'[r]]
    BY <1>1, <1>2 DEF PositionsInv, PositionsShape
  <2>3. where' \in [Request -> {"idle", "loaded", "opened"}] /\ mishap' \in BOOLEAN
    BY <1>2 DEF PositionsInv, PositionsShape
  <2> QED BY <2>1, <2>2, <2>3 DEF PositionsShape
<1>7. AllBalanced'
  <2>1. Balanced(b)
    BY <1>1, <1>5, EditedBalanced
  <2> QED BY <1>2, <1>3, <2>1 DEF PositionsInv, AllBalanced
<1>8. ASSUME ~mishap' PROVE OneStory'
  <2>1. Busy = {} /\ OneStory
    BY <1>2, <1>8 DEF PositionsInv, PositionsShape
  <2>2. disk = books
    BY <2>1 DEF OneStory, Busy
  <2>3. \A r \in Request : where'[r] # "opened"
    BY <1>3, <2>1 DEF Busy
  <2>4. Busy' = {q}
    BY <1>4, <2>1
  <2>5. draft'[q] \in Edited(books', edit'[q])
    BY <1>1, <1>2, <1>3, <2>2
  <2> QED BY <1>2, <2>2, <2>3, <2>4, <2>5 DEF OneStory
<1> QED BY <1>6, <1>7, <1>8 DEF PositionsInv

LEMMA OpenFileKeeps ==
    ASSUME PositionsInv, NEW q \in Request, OpenFile(q)
    PROVE  PositionsInv'
<1>1. /\ where[q] = "loaded" /\ where' = [where EXCEPT ![q] = "opened"] /\ disk' = Torn
      /\ draft' = draft /\ books' = books /\ edit' = edit /\ mishap' = mishap
  BY DEF OpenFile
<1>2. where'[q] = "opened" /\ \A r \in Request \ {q} : where'[r] = where[r]
  BY <1>1 DEF PositionsInv, PositionsShape
<1>3. Busy' = Busy
  BY <1>1, <1>2 DEF Busy
<1>4. PositionsShape'
  BY <1>1, <1>3 DEF PositionsInv, PositionsShape
<1>5. AllBalanced'
  BY <1>1 DEF PositionsInv, AllBalanced
<1>6. ASSUME ~mishap PROVE OneStory'
  BY <1>1, <1>2, <1>3, <1>6 DEF PositionsInv, OneStory
<1> QED BY <1>1, <1>4, <1>5, <1>6 DEF PositionsInv

LEMMA WriteFileKeeps ==
    ASSUME PositionsInv, NEW q \in Request, WriteFile(q)
    PROVE  PositionsInv'
<1>1. /\ where[q] = "opened" /\ where' = [where EXCEPT ![q] = "idle"]
      /\ disk' \in {draft[q]} \union (IF disk = Torn THEN {} ELSE {Torn})
      /\ books' \in IF Edited(books, edit[q]) = {} THEN {books} ELSE Edited(books, edit[q])
      /\ draft' = [draft EXCEPT ![q] = EmptyBook]
      /\ edit' = edit /\ mishap' = mishap
  BY DEF WriteFile
<1>2. /\ where'[q] = "idle" /\ draft'[q] = EmptyBook
      /\ \A r \in Request \ {q} : where'[r] = where[r] /\ draft'[r] = draft[r]
  BY <1>1 DEF PositionsInv, PositionsShape
<1>3. q \in Busy /\ Busy' = Busy \ {q}
  BY <1>1, <1>2 DEF Busy
<1>4. edit[q] \in Edits /\ Balanced(books)
  BY <1>3 DEF PositionsInv, PositionsShape, AllBalanced
<1>5. PositionsShape'
  BY <1>1, <1>2, <1>3 DEF PositionsInv, PositionsShape
<1>6. AllBalanced'
  <2>1. disk' = Torn \/ Balanced(disk')
    BY <1>1 DEF PositionsInv, AllBalanced
  <2>2. Balanced(books')
    BY <1>1, <1>4, EditedBalanced
  <2>3. \A r \in Request : Balanced(draft'[r])
    BY <1>2, EmptyBookBalanced DEF PositionsInv, AllBalanced
  <2> QED BY <2>1, <2>2, <2>3 DEF AllBalanced
<1>7. ASSUME ~mishap PROVE OneStory'
  <2>1. OneStory /\ Busy = {q} /\ disk = Torn
    BY <1>1, <1>3, <1>7 DEF PositionsInv, OneStory
  <2>2. draft[q] \in Edited(books, edit[q]) /\ books' \in Edited(books, edit[q])
    BY <1>1, <2>1 DEF OneStory
  <2>3. books' = draft[q] /\ disk' = draft[q]
    BY <1>1, <1>4, <2>1, <2>2, EditedBalanced
  <2>4. Busy' = {} /\ \A r \in Request : where'[r] # "opened"
    BY <1>2, <1>3, <2>1 DEF Busy
  <2> QED BY <2>3, <2>4 DEF OneStory
<1> QED BY <1>1, <1>5, <1>6, <1>7 DEF PositionsInv

LEMMA KillKeeps ==
    ASSUME PositionsInv, Kill
    PROVE  PositionsInv'
<1>1. Busy' = {} /\ mishap'
  BY DEF Kill, Busy
<1>2. PositionsShape'
  BY <1>1 DEF PositionsInv, PositionsShape, Kill
<1>3. AllBalanced'
  BY EmptyBookBalanced DEF PositionsInv, AllBalanced, Kill
<1> QED BY <1>1, <1>2, <1>3 DEF PositionsInv

LEMMA PositionsInvNext == PositionsInv /\ [PositionsNext]_positionsVars => PositionsInv'
<1> SUFFICES ASSUME PositionsInv, [PositionsNext]_positionsVars PROVE PositionsInv'
  OBVIOUS
<1>1. ASSUME NEW q \in Request, NEW x \in Edits, Load(q, x) PROVE PositionsInv'
  BY <1>1, LoadKeeps
<1>2. ASSUME NEW q \in Request, OpenFile(q) PROVE PositionsInv'
  BY <1>2, OpenFileKeeps
<1>3. ASSUME NEW q \in Request, WriteFile(q) PROVE PositionsInv'
  BY <1>3, WriteFileKeeps
<1>4. CASE Kill
  BY <1>4, KillKeeps
<1>5. CASE UNCHANGED positionsVars
  BY <1>5 DEF positionsVars, PositionsInv, PositionsShape, AllBalanced, OneStory, Busy
<1> QED BY <1>1, <1>2, <1>3, <1>4, <1>5 DEF PositionsNext

LEMMA PositionsAlways == PositionsSpec => []PositionsInv
BY PositionsInvInit, PositionsInvNext, PTL DEF PositionsSpec

\* However many requests edit the positions, and wherever the server is killed: as long
\* as no two edits overlap and none is cut off, the file holds every answered edit once;
\* and a file that can be read always balances.
THEOREM EditsAreKept == PositionsSpec => []FileHonest
<1>1. PositionsInv => FileHonest
  <2> SUFFICES ASSUME PositionsInv PROVE FileHonest
    OBVIOUS
  <2>1. EditsKept
    BY DEF PositionsInv, OneStory, EditsKept
  <2>2. BooksBalance
    BY DEF PositionsInv, AllBalanced, Balanced, Total, BooksBalance
  <2> QED BY <2>1, <2>2 DEF FileHonest
<1> QED BY <1>1, PositionsAlways, PTL

-----------------------------------------------------------------------------
(* LiveExecution: the types of a batch.                                     *)

ExecTypeInv == ExecTypeOK /\ (step = "wait" => Current <= Len(batch))

\* The orders of one side, in their order.
LEMMA OfSideType ==
    ASSUME NEW b \in Seq(Orders), NEW side
    PROVE  OfSide(b, side) \in Seq(Orders)
<1> DEFINE I == {i \in DOMAIN b : b[i].side = side}
           places == Sorted(I)
<1>1. Len(b) \in Nat /\ DOMAIN b = 1..Len(b) /\ \A i \in DOMAIN b : b[i] \in Orders
  BY LenProperties, ElementOfSeq, Zenon
<1>2. I \in SUBSET Int /\ IsFiniteSet(I)
  <2>1. IsFiniteSet(1..Len(b))
    BY <1>1, FS_Interval
  <2> QED BY <1>1, <2>1, FS_Subset
<1>3. OfSide(b, side) = [k \in DOMAIN places |-> b[places[k]]]
  BY DEF OfSide
<1>4. Cardinality(I) \in Nat
  BY <1>2, FS_CardinalityType
<1>5. \A i \in I : b[i] \in Orders
  BY <1>1
<1> HIDE DEF I
<1>6. places \in [1..Cardinality(I) -> I]
  BY <1>2, SortedIs
<1> HIDE DEF places
<1>7. OfSide(b, side) \in [1..Cardinality(I) -> Orders]
  BY <1>3, <1>5, <1>6
<1> QED BY <1>4, <1>7

LEMMA SellsFirstType ==
    ASSUME NEW b \in Seq(Orders)
    PROVE  SellsFirst(b) \in Seq(Orders)
BY OfSideType, ConcatProperties DEF SellsFirst

LEMMA ExecTypeInit ==
    ASSUME NEW held \in [Adapter -> [Stock -> Nat]], ExecInit(held)
    PROVE  ExecTypeInv
<1>1. /\ kind \in Adapter /\ dry \in BOOLEAN /\ validate \in BOOLEAN
      /\ batch = <<>> /\ results = <<>> /\ step = "idle" /\ halted = FALSE
      /\ wire = <<>> /\ answers = <<>> /\ placed = {} /\ cash = Cash /\ shares = held[kind]
      /\ buying = [s \in Stock |-> 0] /\ selling = [s \in Stock |-> 0]
  BY DEF ExecInit
<1>2. /\ cash \in Nat /\ shares \in [Stock -> Nat]
      /\ buying \in [Stock -> Nat] /\ selling \in [Stock -> Nat]
  BY <1>1, ExecutionAssumption DEF ExecutionAssumption
<1>3. Len(results) <= Len(batch)
  BY <1>1, EmptySeq
<1>4. /\ batch \in Seq(Orders) /\ results \in Seq(Results) /\ wire \in Seq(1..Len(batch))
      /\ answers \in Seq([of : 1..Len(batch), taken : BOOLEAN])
  BY <1>1, EmptySeq
<1>5. step \in {"idle", "next", "wait", "done"} /\ halted \in BOOLEAN
  BY <1>1
<1>6. ExecTypeOK
  BY <1>1, <1>2, <1>3, <1>4, <1>5 DEF ExecTypeOK
<1> QED BY <1>1, <1>6 DEF ExecTypeInv

\* A result is reported for a request of the batch.
LEMMA ReportTypes ==
    ASSUME ExecTypeInv, NEW a \in BOOLEAN, NEW c \in PostChecks, NEW n \in Nat, Report(a, c, n),
           Current <= Len(batch), halted' \in BOOLEAN,
           UNCHANGED requestVars, UNCHANGED wire, UNCHANGED accountVars,
           answers' \in Seq([of : 1..Len(batch), taken : BOOLEAN])
    PROVE  ExecTypeInv'
<1>1. /\ results' \in Seq(Results)
      /\ Len(results') = Len(results) + 1 /\ step' = "next"
  BY RequestReported DEF ExecTypeInv, ExecTypeOK
<1>2. /\ kind' = kind /\ dry' = dry /\ validate' = validate /\ batch' = batch
      /\ placed' = placed /\ cash' = cash /\ shares' = shares
      /\ buying' = buying /\ selling' = selling
  BY DEF requestVars, accountVars
<1>3. Len(results') <= Len(batch)
  BY <1>1 DEF Current
<1>4. ExecTypeOK'
  BY <1>1, <1>2, <1>3 DEF ExecTypeInv, ExecTypeOK
<1> QED BY <1>1, <1>4 DEF ExecTypeInv

LEMMA SubmitTypes ==
    ASSUME ExecTypeInv, Submit
    PROVE  ExecTypeInv'
<1>0. /\ ExecTypeOK /\ Current \in 1..(Len(batch) + 1) /\ Len(batch) \in Nat
      /\ answers \in Seq([of : 1..Len(batch), taken : BOOLEAN])
  BY DEF ExecTypeInv, ExecTypeOK, Current
<1>1. CASE Skip
  <2>1. UNCHANGED <<requestVars, halted, wire, answers, accountVars>>
    BY <1>1 DEF Skip, channelVars
  <2>2. Current <= Len(batch) /\ Report(FALSE, "skipped", 0)
    BY <1>1 DEF Skip
  <2>3. "skipped" \in PostChecks
    BY DEF PostChecks
  <2>4. halted' \in BOOLEAN
    BY <1>0, <2>1 DEF ExecTypeOK
  <2> QED BY <1>0, <2>1, <2>2, <2>3, <2>4, ReportTypes
<1>2. ASSUME NEW answered \in BOOLEAN, Reject(answered) PROVE ExecTypeInv'
  <2>1. UNCHANGED <<requestVars, halted, wire, answers, accountVars>>
    BY <1>2 DEF Reject, channelVars
  <2>2. Current <= Len(batch) /\ Report(FALSE, "not_checked", 0)
    BY <1>2 DEF Reject
  <2>3. "not_checked" \in PostChecks
    BY DEF PostChecks
  <2>4. halted' \in BOOLEAN
    BY <1>0, <2>1 DEF ExecTypeOK
  <2> QED BY <1>0, <2>1, <2>2, <2>3, <2>4, ReportTypes
<1>3. ASSUME NEW answered \in BOOLEAN, Rehearse(answered) PROVE ExecTypeInv'
  <2>1. UNCHANGED <<requestVars, wire, answers, accountVars>>
    BY <1>3 DEF Rehearse, channelVars
  <2>2. Current <= Len(batch) /\ Current \in Nat
    BY <1>0, <1>3 DEF Rehearse, Ready
  <2>3. \E a \in BOOLEAN, c \in PostChecks, n \in Nat : Report(a, c, n)
    BY <1>3, <2>2 DEF Rehearse, Fail, PostChecks
  <2>4. halted' \in BOOLEAN
    BY <1>0, <1>3 DEF Rehearse, Fail, ExecTypeOK
  <2> QED BY <1>0, <2>1, <2>2, <2>3, <2>4, ReportTypes
<1>4. ASSUME NEW answered \in BOOLEAN, Send(answered) PROVE ExecTypeInv'
  <2>1. /\ Current <= Len(batch) /\ wire' = Append(wire, Current) /\ step' = "wait"
        /\ UNCHANGED <<kind, dry, validate, batch, results, halted, answers, cash, shares, buying, selling, placed>>
    BY <1>4 DEF Send, Ready, requestVars, accountVars
  <2>2. wire' \in Seq(1..Len(batch))
    BY <1>0, <2>1, AppendProperties DEF ExecTypeOK
  <2>3. ExecTypeOK'
    BY <1>0, <2>1, <2>2 DEF ExecTypeOK
  <2> QED BY <2>1, <2>3 DEF ExecTypeInv, Current
<1>5. ASSUME BrokerTakes \/ BrokerRefuses PROVE ExecTypeInv'
  <2>1. /\ wire # <<>> /\ wire' = Tail(wire)
        /\ UNCHANGED <<kind, dry, validate, batch, step, results, halted>>
    BY <1>5 DEF BrokerTakes, BrokerRefuses, requestVars
  <2>2. Head(wire) \in 1..Len(batch) /\ wire' \in Seq(1..Len(batch))
    BY <1>0, <2>1, HeadTailProperties DEF ExecTypeOK
  <2>3. answers' \in Seq([of : 1..Len(batch), taken : BOOLEAN])
    <3>1. ASSUME NEW t \in BOOLEAN, answers' = Append(answers, [of |-> Head(wire), taken |-> t])
          PROVE  answers' \in Seq([of : 1..Len(batch), taken : BOOLEAN])
      <4>1. [of |-> Head(wire), taken |-> t] \in [of : 1..Len(batch), taken : BOOLEAN]
        BY <2>2
      <4> QED BY <1>0, <3>1, <4>1, AppendProperties
    <3>2. \/ answers' = answers
          \/ \E t \in BOOLEAN : answers' = Append(answers, [of |-> Head(wire), taken |-> t])
      BY <1>5 DEF BrokerTakes, BrokerRefuses
    <3> QED BY <1>0, <3>1, <3>2
  <2>4. /\ placed' \subseteq 1..Len(batch) /\ cash' \in Nat /\ shares' \in [Stock -> Nat]
        /\ buying' \in [Stock -> Nat] /\ selling' \in [Stock -> Nat]
    <3>1. /\ placed \subseteq 1..Len(batch) /\ cash \in Nat /\ shares \in [Stock -> Nat]
          /\ buying \in [Stock -> Nat] /\ selling \in [Stock -> Nat]
      BY <1>0 DEF ExecTypeOK
    <3>2. CASE BrokerRefuses
      BY <3>1, <3>2 DEF BrokerRefuses, accountVars
    <3>3. CASE BrokerTakes
      <4> DEFINE o == batch[Head(wire)]
      <4>1. o \in Orders
        BY <1>0, <2>2, ElementOfSeq DEF ExecTypeOK
      <4>2. /\ IF o.side = "buy" THEN o.lots <= cash ELSE o.lots <= shares[o.stock]
            /\ placed' = placed \union {Head(wire)}
            /\ IF o.side = "buy"
               THEN /\ cash' = cash - o.lots /\ buying' = [buying EXCEPT ![o.stock] = @ + o.lots]
                    /\ UNCHANGED <<shares, selling>>
               ELSE /\ shares' = [shares EXCEPT ![o.stock] = @ - o.lots]
                    /\ selling' = [selling EXCEPT ![o.stock] = @ + o.lots]
                    /\ UNCHANGED <<cash, buying>>
        BY <3>3 DEF BrokerTakes, Covers
      <4> HIDE DEF o
      <4>3. o.lots \in Nat /\ o.stock \in Stock
        BY <4>1 DEF Orders
      <4>4. placed' \subseteq 1..Len(batch)
        BY <2>2, <3>1, <4>2
      <4>5. CASE o.side = "buy"
        <5>1. cash' \in Nat /\ shares' = shares /\ selling' = selling
          BY <3>1, <4>2, <4>3, <4>5
        <5>2. buying' \in [Stock -> Nat]
          BY <3>1, <4>2, <4>3, <4>5
        <5> QED BY <3>1, <4>4, <5>1, <5>2
      <4>6. CASE o.side # "buy"
        <5>1. cash' = cash /\ buying' = buying
          BY <4>2, <4>6
        <5>0. /\ o.lots <= shares[o.stock]
              /\ shares' = [shares EXCEPT ![o.stock] = @ - o.lots]
              /\ selling' = [selling EXCEPT ![o.stock] = @ + o.lots]
          BY <4>2, <4>6, Zenon
        <5>2. shares' \in [Stock -> Nat]
          BY <3>1, <4>3, <5>0
        <5>3. selling' \in [Stock -> Nat]
          BY <3>1, <4>3, <5>0
        <5> QED BY <3>1, <4>4, <5>1, <5>2, <5>3
      <4> QED BY <4>5, <4>6
    <3> QED BY <1>5, <3>2, <3>3
  <2>5. ExecTypeOK'
    BY <1>0, <2>1, <2>2, <2>3, <2>4 DEF ExecTypeOK
  <2>6. step = "wait" => Current <= Len(batch)
    BY DEF ExecTypeInv
  <2> QED BY <2>1, <2>5, <2>6 DEF ExecTypeInv, Current
<1>6. CASE ReadAnswer
  <2>1. /\ step = "wait" /\ answers # <<>> /\ answers' = Tail(answers)
        /\ UNCHANGED requestVars /\ UNCHANGED wire /\ UNCHANGED accountVars
    BY <1>6 DEF ReadAnswer
  <2>2. /\ Head(answers) \in [of : 1..Len(batch), taken : BOOLEAN]
        /\ answers' \in Seq([of : 1..Len(batch), taken : BOOLEAN])
    BY <1>0, <2>1, HeadTailProperties
  <2>3. Current <= Len(batch)
    BY <2>1 DEF ExecTypeInv
  <2>4. halted' \in BOOLEAN
    BY <1>0, <1>6 DEF ReadAnswer, Fail, ExecTypeOK
  <2>5. \E b \in BOOLEAN, c \in PostChecks, n \in Nat : Report(b, c, n)
    <3>1. \/ Report(TRUE, "order_id_received", Head(answers).of)
          \/ Report(TRUE, "order_id_received", 0)
          \/ Report(FALSE, "submit_failed", 0)
          \/ \E c \in PostCheck(Head(answers).of) : Report(TRUE, c, 0)
      BY <1>6 DEF ReadAnswer, Fail
    <3>2. /\ "order_id_received" \in PostChecks /\ "submit_failed" \in PostChecks
          /\ PostCheck(Head(answers).of) \subseteq PostChecks /\ Head(answers).of \in Nat
      BY <2>2 DEF PostCheck, PostChecks
    <3> QED BY <3>1, <3>2
  <2> QED BY <2>1, <2>2, <2>3, <2>4, <2>5, ReportTypes
<1>7. CASE NoAnswer
  <2>1. /\ step = "wait" /\ halted' = TRUE /\ Report(FALSE, "submit_failed", 0)
        /\ UNCHANGED requestVars /\ UNCHANGED wire /\ UNCHANGED accountVars
    BY <1>7 DEF NoAnswer, Fail
  <2>2. answers' \in Seq([of : 1..Len(batch), taken : BOOLEAN])
    BY <1>0, <1>7, EmptySeq DEF NoAnswer
  <2>3. Current <= Len(batch) /\ "submit_failed" \in PostChecks
    BY <2>1 DEF ExecTypeInv, PostChecks
  <2> QED BY <2>1, <2>2, <2>3, ReportTypes
<1>8. CASE AllReported
  <2>1. /\ step' = "done"
        /\ UNCHANGED <<kind, dry, validate, batch, results, halted, wire, answers, cash, shares, buying, selling, placed>>
    BY <1>8 DEF AllReported, requestVars, channelVars, accountVars
  <2> QED BY <1>0, <2>1 DEF ExecTypeInv, ExecTypeOK
<1> QED BY <1>1, <1>2, <1>3, <1>4, <1>5, <1>6, <1>7, <1>8 DEF Submit

\* Filled or dropped, an order leaves nothing below zero.
LEMMA FillsTypes ==
    ASSUME ExecTypeInv, NEW s \in Stock, BrokerFills(s) \/ BrokerDrops(s)
    PROVE  ExecTypeInv'
<1>1. UNCHANGED <<kind, dry, validate, batch, step, results, halted, wire, answers, placed>>
  BY DEF BrokerFills, BrokerDrops, requestVars, channelVars
<1>2. /\ cash \in Nat /\ shares \in [Stock -> Nat]
      /\ buying \in [Stock -> Nat] /\ selling \in [Stock -> Nat]
  BY DEF ExecTypeInv, ExecTypeOK
<1>3. /\ cash' \in Nat /\ shares' \in [Stock -> Nat]
      /\ buying' \in [Stock -> Nat] /\ selling' \in [Stock -> Nat]
  <2>1. CASE BrokerFills(s)
    BY <1>2, <2>1 DEF BrokerFills
  <2>2. CASE BrokerDrops(s)
    BY <1>2, <2>2 DEF BrokerDrops
  <2> QED BY <2>1, <2>2
<1>4. ExecTypeOK'
  BY <1>1, <1>3 DEF ExecTypeInv, ExecTypeOK
<1> QED BY <1>1, <1>4 DEF ExecTypeInv, Current

\* A batch is given to an executor that has none yet.
LEMMA BeginTypes ==
    ASSUME ExecInv, ExecTypeInv, step = "idle", batch' \in Seq(Orders), step' \in {"next", "done"},
           results' \in Seq(Results), Len(results') <= Len(batch'),
           UNCHANGED <<kind, dry, validate, halted, channelVars, accountVars>>
    PROVE  ExecTypeInv'
<1>1. /\ wire' = <<>> /\ answers' = <<>> /\ placed' = {}
      /\ UNCHANGED <<kind, dry, validate, halted, cash, shares, buying, selling>>
  BY DEF ExecInv, Begins, channelVars, accountVars
<1>2. /\ wire' \in Seq(1..Len(batch')) /\ placed' \subseteq 1..Len(batch')
      /\ answers' \in Seq([of : 1..Len(batch'), taken : BOOLEAN])
  BY <1>1, EmptySeq
<1> QED BY <1>1, <1>2 DEF ExecTypeInv, ExecTypeOK

LEMMA ExecTypeNext ==
    ASSUME NEW batches \in SUBSET Seq(Orders), ExecInv, ExecTypeInv, [ExecNext(batches)]_execVars
    PROVE  ExecTypeInv'
<1>1. ASSUME NEW b \in Seq(Orders), SubmitMany(b) PROVE ExecTypeInv'
  <2>1. /\ step = "idle" /\ batch' = b /\ step' = "next"
        /\ UNCHANGED <<kind, dry, validate, results, halted, channelVars, accountVars>>
    BY <1>1 DEF SubmitMany
  <2>2. results = <<>>
    BY <2>1 DEF ExecInv, Begins
  <2>3. Len(results') = 0 /\ Len(b) \in Nat /\ results' \in Seq(Results)
    BY <2>1, <2>2, EmptySeq, LenProperties
  <2> QED BY <2>1, <2>3, BeginTypes
<1>2. ASSUME NEW b \in batches, SubmitOrders(b) PROVE ExecTypeInv'
  <2>1. CASE SubmitMany(SellsFirst(b))
    BY <1>1, <2>1, SellsFirstType
  <2>2. CASE /\ step = "idle" /\ step' = "done" /\ batch' = b
             /\ results' = [i \in DOMAIN b |-> [accepted |-> FALSE, check |-> "not_submitted", id |-> 0]]
             /\ UNCHANGED <<kind, dry, validate, halted, channelVars, accountVars>>
    <3>1. [accepted |-> FALSE, check |-> "not_submitted", id |-> 0] \in Results
      BY DEF Results, PostChecks
    <3>2. Len(b) \in Nat /\ DOMAIN b = 1..Len(b)
      BY LenProperties, Zenon
    <3>3. results' \in [1..Len(b) -> Results]
      BY <2>2, <3>1, <3>2
    <3>4. results' \in Seq(Results) /\ Len(results') = Len(b)
      BY <3>2, <3>3
    <3> QED BY <2>2, <3>2, <3>4, BeginTypes
  <2> QED BY <1>2, <2>1, <2>2 DEF SubmitOrders
<1>3. CASE UNCHANGED execVars
  <2>1. UNCHANGED <<kind, dry, validate, batch, step, results, halted, wire, answers, placed, cash, shares, buying, selling>>
    BY <1>3 DEF execVars, requestVars, channelVars, accountVars
  <2> QED BY <2>1 DEF ExecTypeInv, ExecTypeOK, Current
<1> QED BY <1>1, <1>2, <1>3, SubmitTypes, FillsTypes DEF ExecNext

\* A batch, its results and its channel stay what they are declared to be: an answer and a
\* placed order belong to a request of the batch, there are no more results than requests,
\* and the broker's account is never overdrawn.
THEOREM ExecTypeCorrect ==
    ASSUME NEW batches \in SUBSET Seq(Orders), NEW held \in [Adapter -> [Stock -> Nat]]
    PROVE  ExecSpec(batches, held) => []ExecTypeOK
<1>1. ExecInit(held) => ExecInv /\ ExecTypeInv
  BY ExecInvInit, ExecTypeInit
<1>2. ExecInv /\ ExecTypeInv /\ [ExecNext(batches)]_execVars => ExecInv' /\ ExecTypeInv'
  BY ExecInvStep, ExecTypeNext
<1>3. ExecTypeInv => ExecTypeOK
  BY DEF ExecTypeInv
<1> QED BY <1>1, <1>2, <1>3, PTL DEF ExecSpec

-----------------------------------------------------------------------------
(* DailyPipeline: the types of a run, the book among them.                  *)

\* The orders of a run: one for each stock, and a sell of what the book holds.
OrdersOfBook(b, held) ==
    /\ \A i, j \in 1..Len(b) : b[i].stock = b[j].stock => i = j
    /\ \A i \in 1..Len(b) : b[i].side = "sell" => b[i].lots <= held[b[i].stock]

PipelineTypeInv ==
    /\ PipelineTypeOK
    /\ step = "wait" => Current <= Len(batch)
    /\ phase = "execute" => OrdersOfBook(batch, book.shares)

LEMMA OrdersForAre ==
    ASSUME NEW side \in {"buy", "sell"}, NEW D \in SUBSET Stock, NEW lots \in [D -> Nat \ {0}]
    PROVE  LET s == OrdersFor(side, lots)
           IN  /\ s \in Seq(Orders)
               /\ \A i \in 1..Len(s) : s[i].stock \in D /\ s[i].side = side /\ s[i].lots = lots[s[i].stock]
               /\ \A i, j \in 1..Len(s) : s[i].stock = s[j].stock => i = j
<1> DEFINE q == SetToSeq(D)
           s == OrdersFor(side, lots)
<1>1. IsFiniteSet(D)
  BY PipelineAssumption, FS_Subset DEF PipelineAssumption
<1>2. Cardinality(D) \in Nat
  BY <1>1, FS_CardinalityType
<1>3. q \in [1..Cardinality(D) -> D] /\ IsInjective(q)
  <2>1. \E f \in [1..Cardinality(D) -> D] : IsInjective(f)
    BY <1>1, FS_CardinalityType DEF ExistsBijection, Bijection, Injection, IsInjective
  <2> QED BY <2>1 DEF SetToSeq
<1>4. \A i, j \in 1..Cardinality(D) : q[i] = q[j] => i = j
  BY <1>3 DEF IsInjective
<1>5. s = [i \in DOMAIN q |-> [stock |-> q[i], side |-> side, lots |-> lots[q[i]], whole |-> TRUE]]
  BY DEF OrdersFor
<1>6. s \in Seq(Orders)
  BY OrdersForType
<1> HIDE DEF q, s
<1>7. DOMAIN s = 1..Cardinality(D) /\ DOMAIN s = 1..Len(s)
  BY <1>3, <1>5, <1>6, LenProperties
<1>8. \A i \in 1..Len(s) : s[i].stock = q[i] /\ s[i].side = side /\ s[i].lots = lots[q[i]]
                           /\ q[i] \in D
  BY <1>3, <1>5, <1>7
<1>9. 1..Len(s) = 1..Cardinality(D)
  BY <1>7
<1>10. ASSUME NEW i \in 1..Len(s), NEW j \in 1..Len(s), s[i].stock = s[j].stock
       PROVE  i = j
  <2>1. q[i] = q[j]
    BY <1>8, <1>10
  <2> QED BY <1>4, <1>9, <2>1
<1>11. \A i \in 1..Len(s) : s[i].stock \in D /\ s[i].side = side /\ s[i].lots = lots[s[i].stock]
  BY <1>8
<1> QED BY <1>6, <1>10, <1>11 DEF s

LEMMA SignalsFollowBook ==
    ASSUME book.shares \in [Stock -> Nat], NEW T \in SUBSET Stock, T # {},
           NEW priced \in SUBSET T
    PROVE  OrdersOfBook(SignalsToOrders(T, priced), book.shares)
<1> DEFINE n == TargetLots(T)
           over == {s \in priced : book.shares[s] > n}
           under == {s \in priced : book.shares[s] < n}
           sells == OrdersFor("sell", [s \in over |-> book.shares[s] - n])
           buys == OrdersFor("buy", [s \in under |-> n - book.shares[s]])
<1>1. n \in Nat
  <2>1. IsFiniteSet(Stock) /\ IsFiniteSet(T)
    BY PipelineAssumption, FS_Subset DEF PipelineAssumption
  <2>2. Cardinality(Stock) \in Nat /\ Cardinality(T) \in Nat /\ Cardinality(T) # 0
    BY <2>1, FS_CardinalityType, FS_EmptySet
  <2> QED BY <2>2, ExecutionAssumption DEF TargetLots, ExecutionAssumption
<1>2. SignalsToOrders(T, priced) = sells \o buys
  BY DEF SignalsToOrders
<1> HIDE DEF n
<1>3. [s \in over |-> book.shares[s] - n] \in [over -> Nat \ {0}] /\ over \in SUBSET Stock
  BY <1>1
<1>4. [s \in under |-> n - book.shares[s]] \in [under -> Nat \ {0}] /\ under \in SUBSET Stock
  BY <1>1
<1>5. /\ sells \in Seq(Orders)
      /\ \A i \in 1..Len(sells) : sells[i].stock \in over /\ sells[i].side = "sell"
                                  /\ sells[i].lots = [s \in over |-> book.shares[s] - n][sells[i].stock]
      /\ \A i, j \in 1..Len(sells) : sells[i].stock = sells[j].stock => i = j
  BY <1>3, OrdersForAre
<1>6. /\ buys \in Seq(Orders)
      /\ \A i \in 1..Len(buys) : buys[i].stock \in under /\ buys[i].side = "buy"
      /\ \A i, j \in 1..Len(buys) : buys[i].stock = buys[j].stock => i = j
  BY <1>4, OrdersForAre
<1>7. ASSUME NEW i \in 1..Len(sells) PROVE sells[i].lots <= book.shares[sells[i].stock]
  <2>1. sells[i].stock \in over
    BY <1>5
  <2>2. sells[i].lots = book.shares[sells[i].stock] - n
    BY <1>5, <2>1
  <2>3. book.shares[sells[i].stock] \in Nat
    BY <2>1
  <2> QED BY <1>1, <2>2, <2>3
<1>8. \A s : ~(s \in over /\ s \in under)
  BY <1>1
<1> HIDE DEF over, under, sells, buys
<1> DEFINE b == sells \o buys
           m == Len(sells)
<1>9. m \in Nat /\ Len(buys) \in Nat /\ Len(b) = m + Len(buys)
  BY <1>5, <1>6, LenProperties, ConcatProperties
<1>10. \A i \in 1..Len(b) : b[i] = IF i <= m THEN sells[i] ELSE buys[i - m]
  BY <1>5, <1>6, ConcatProperties
<1> HIDE DEF b, m
<1>11. \A i \in 1..Len(b) :
          \/ i \in 1..m /\ b[i] = sells[i] /\ b[i].stock \in over
          \/ i - m \in 1..Len(buys) /\ b[i] = buys[i - m] /\ b[i].stock \in under /\ b[i].side = "buy"
  <2> TAKE i \in 1..Len(b)
  <2>1. CASE i <= m
    <3>1. i \in 1..m /\ b[i] = sells[i]
      BY <1>9, <1>10, <2>1
    <3> QED BY <1>5, <3>1 DEF m
  <2>2. CASE ~(i <= m)
    <3>1. i - m \in 1..Len(buys) /\ b[i] = buys[i - m]
      BY <1>9, <1>10, <2>2
    <3> QED BY <1>6, <3>1
  <2> QED BY <2>1, <2>2
<1>12. \A i, j \in 1..Len(b) : b[i].stock = b[j].stock => i = j
  <2> SUFFICES ASSUME NEW i \in 1..Len(b), NEW j \in 1..Len(b), b[i].stock = b[j].stock PROVE i = j
    OBVIOUS
  <2>1. CASE i \in 1..m /\ b[i] = sells[i] /\ b[i].stock \in over
    <3>1. j \in 1..m /\ b[j] = sells[j]
      BY <1>8, <1>11, <2>1
    <3> QED BY <1>5, <2>1, <3>1 DEF m
  <2>2. CASE i - m \in 1..Len(buys) /\ b[i] = buys[i - m] /\ b[i].stock \in under
    <3>1. j - m \in 1..Len(buys) /\ b[j] = buys[j - m]
      BY <1>8, <1>11, <2>2
    <3>2. i - m = j - m
      BY <1>6, <2>2, <3>1
    <3> QED BY <1>9, <3>2
  <2> QED BY <1>11, <2>1, <2>2
<1>13. \A i \in 1..Len(b) : b[i].side = "sell" => b[i].lots <= book.shares[b[i].stock]
  BY <1>7, <1>11 DEF m
<1>14. OrdersOfBook(b, book.shares)
  BY <1>12, <1>13 DEF OrdersOfBook
<1> QED BY <1>2, <1>14 DEF b

LEMMA PipelineTypeInit == PipelineInit => PipelineTypeInv
<1> SUFFICES ASSUME PipelineInit PROVE PipelineTypeInv
  OBVIOUS
<1> DEFINE held == [k \in Adapter |-> [s \in Stock |-> IF k = "paper" THEN 0 ELSE 1]]
<1>1. /\ ExecInit(held) /\ phase = "off" /\ astray = FALSE /\ targets = {} /\ runs = 0
      /\ book = [shares |-> [s \in Stock |-> 1], cash |-> Cash]
  BY DEF PipelineInit
<1>2. held \in [Adapter -> [Stock -> Nat]]
  OBVIOUS
<1> HIDE DEF held
<1>3. ExecTypeInv
  BY <1>1, <1>2, ExecTypeInit
<1>4. book \in Books /\ runs \in 0..MaxRuns
  BY <1>1, ExecutionAssumption, PipelineAssumption DEF ExecutionAssumption, PipelineAssumption, Books
<1>5. PipelineTypeOK
  BY <1>1, <1>3, <1>4 DEF PipelineTypeOK, ExecTypeInv
<1> QED BY <1>1, <1>3, <1>5 DEF PipelineTypeInv, ExecTypeInv

LEMMA RunDailyTypes ==
    ASSUME PipelineTypeInv, NEW T \in SUBSET Stock, NEW priced \in SUBSET T, RunDaily(T, priced)
    PROVE  PipelineTypeInv'
<1>1. /\ wire = <<>> /\ wire' = <<>> /\ runs < MaxRuns /\ runs' = runs + 1 /\ targets' = T
      /\ phase' \in {"saved", "execute"} /\ step' \in {"done", "next"} /\ validate' = TRUE
      /\ results' = <<>> /\ halted' = FALSE /\ answers' = <<>> /\ placed' = {}
      /\ UNCHANGED <<kind, dry, cash, shares, buying, selling, book, astray>>
      /\ batch' = (IF T = {} THEN <<>> ELSE SignalsToOrders(T, priced))
  BY DEF RunDaily
<1>2. PipelineTypeOK /\ ExecTypeOK /\ book \in Books /\ runs \in 0..MaxRuns
  BY DEF PipelineTypeInv, PipelineTypeOK
<1>3. book.shares \in [Stock -> Nat]
  BY <1>2 DEF Books
<1>4. batch' \in Seq(Orders) /\ OrdersOfBook(batch', book.shares)
  <2>1. CASE T = {}
    <3>1. batch' = <<>> /\ Len(batch') = 0 /\ batch' \in Seq(Orders)
      BY <1>1, <2>1, EmptySeq
    <3> QED BY <3>1 DEF OrdersOfBook
  <2>2. CASE T # {}
    <3>1. batch' = SignalsToOrders(T, priced)
      BY <1>1, <2>2
    <3>2. book.shares \in [Stock -> Int]
      BY <1>3
    <3> QED BY <1>3, <2>2, <3>1, <3>2, SignalsAreOrders, SignalsFollowBook
  <2> QED BY <2>1, <2>2
<1>5. /\ wire' \in Seq(1..Len(batch')) /\ placed' \subseteq 1..Len(batch')
      /\ answers' \in Seq([of : 1..Len(batch'), taken : BOOLEAN])
      /\ results' \in Seq(Results) /\ Len(results') <= Len(batch')
  <2>1. Len(results') = 0 /\ Len(batch') \in Nat
    BY <1>1, <1>4, EmptySeq, LenProperties
  <2> QED BY <1>1, <2>1, EmptySeq
<1>6. ExecTypeOK'
  BY <1>1, <1>2, <1>4, <1>5 DEF ExecTypeOK
<1>7. runs' \in 0..MaxRuns
  BY <1>1, <1>2, PipelineAssumption DEF PipelineAssumption
<1>8. PipelineTypeOK'
  BY <1>1, <1>2, <1>6, <1>7 DEF PipelineTypeOK
<1>9. OrdersOfBook(batch', book'.shares)
  BY <1>1, <1>4
<1> QED BY <1>1, <1>8, <1>9 DEF PipelineTypeInv

\* No more is sold of a stock than the book holds of it.
LEMMA SavePositionsTypes ==
    ASSUME PipelineInv, PipelineTypeInv, SavePositions
    PROVE  PipelineTypeInv'
<1>1. /\ phase = "execute" /\ book' = NewBook /\ phase' = "saved"
      /\ astray' = (astray \/ InDoubt)
      /\ UNCHANGED execVars /\ targets' = targets /\ runs' = runs
  BY DEF SavePositions
<1>2. UNCHANGED <<kind, dry, validate, batch, step, results, halted, wire, answers, placed, cash, shares, buying, selling>>
  BY <1>1 DEF execVars, requestVars, channelVars, accountVars
<1>3. /\ PipelineTypeOK /\ ExecTypeOK /\ book \in Books
      /\ OrdersOfBook(batch, book.shares)
  BY <1>1 DEF PipelineTypeInv, PipelineTypeOK
<1>4. book.shares \in [Stock -> Nat] /\ book.cash \in Int
  BY <1>3 DEF Books
<1>5. DOMAIN results = 1..Len(results) /\ Len(results) <= Len(batch)
      /\ Len(results) \in Nat /\ Len(batch) \in Nat
  BY <1>3, LenProperties DEF ExecTypeOK
<1>6. \A side, s : Accepted(side, s) \in SUBSET (1..Len(batch))
  BY <1>5 DEF Accepted
<1>7. \A side : UNION {Accepted(side, s) : s \in Stock} \in SUBSET (1..Len(batch))
  BY <1>6
<1>8. \A I \in SUBSET (1..Len(batch)) : Lots(I) = LotsIn(batch, I) /\ LotsIn(batch, I) \in Int
  BY SomeLots, LotsIs DEF PipelineInv
<1>9. ASSUME NEW I \in SUBSET (1..Len(batch)), NEW s \in Stock, \A i \in I : batch[i].stock = s
      PROVE  \/ LotsIn(batch, I) = 0
             \/ \E i \in I : LotsIn(batch, I) = batch[i].lots
  <2>1. CASE I = {}
    BY <2>1, LotsOfNone
  <2>2. CASE I # {}
    <3>1. PICK i \in I : TRUE
      BY <2>2
    <3>2. I = {i}
      BY <1>3, <1>9, <3>1 DEF OrdersOfBook
    <3>3. LotsAreNumbers(batch, {}) /\ LotsIn(batch, {}) = 0
      BY LotsOfNone
    <3>4. batch[i].lots \in Int /\ batch[i].lots \in Nat
      BY <3>1, BatchIs DEF PipelineInv
    <3>5. LotsIn(batch, {} \union {i}) = batch[i].lots + LotsIn(batch, {})
      BY <3>3, <3>4, LotsOfOneMore
    <3>6. LotsIn(batch, I) = batch[i].lots
      <4>1. {} \union {i} = I
        BY <3>2
      <4>2. LotsIn(batch, I) = batch[i].lots + 0
        BY <3>3, <3>5, <4>1, Zenon
      <4> QED BY <3>4, <4>2
    <3> QED BY <3>6
  <2> QED BY <2>1, <2>2
<1>10. ASSUME NEW s \in Stock
       PROVE  book.shares[s] + Lots(Accepted("buy", s)) - Lots(Accepted("sell", s)) \in Nat
  <2> DEFINE B == LotsIn(batch, Accepted("buy", s))
             S == LotsIn(batch, Accepted("sell", s))
  <2>1. \A side : \A i \in Accepted(side, s) : batch[i].stock = s /\ batch[i].side = side
    BY DEF Accepted
  <2>2. \A i \in 1..Len(batch) : batch[i].lots \in Nat
    BY BatchIs DEF PipelineInv
  <2>3. B \in Nat
    <3>1. B = 0 \/ \E i \in Accepted("buy", s) : B = batch[i].lots
      BY <1>6, <1>9, <2>1
    <3> QED BY <1>6, <2>2, <3>1
  <2>4. S \in Nat /\ S <= book.shares[s]
    <3>1. S = 0 \/ \E i \in Accepted("sell", s) : S = batch[i].lots
      BY <1>6, <1>9, <2>1
    <3>2. \A i \in Accepted("sell", s) : batch[i].lots \in Nat /\ batch[i].lots <= book.shares[s]
      BY <1>3, <1>6, <2>1, <2>2 DEF OrdersOfBook
    <3> HIDE DEF S
    <3> QED BY <1>4, <3>1, <3>2
  <2>5. Lots(Accepted("buy", s)) = B /\ Lots(Accepted("sell", s)) = S
    BY <1>6, <1>8
  <2> HIDE DEF B, S
  <2>6. book.shares[s] \in Nat
    BY <1>4
  <2> QED BY <2>3, <2>4, <2>5, <2>6
<1>11. NewBook \in Books
  <2> DEFINE new == [s \in Stock |-> book.shares[s] + Lots(Accepted("buy", s))
                                                     - Lots(Accepted("sell", s))]
             left == book.cash + Lots(UNION {Accepted("sell", s) : s \in Stock})
                               - Lots(UNION {Accepted("buy", s) : s \in Stock})
  <2>1. new \in [Stock -> Nat]
    BY <1>10
  <2>2. left \in Int
    BY <1>4, <1>7, <1>8
  <2>3. NewBook = [shares |-> new, cash |-> left]
    BY DEF NewBook
  <2> HIDE DEF new, left
  <2> QED BY <2>1, <2>2, <2>3 DEF Books
<1>12. astray' \in BOOLEAN
  BY <1>1, <1>3 DEF PipelineTypeOK, InDoubt
<1>13. ExecTypeOK'
  BY <1>2, <1>3 DEF ExecTypeOK
<1>14. PipelineTypeOK'
  BY <1>1, <1>3, <1>11, <1>12, <1>13 DEF PipelineTypeOK
<1> QED BY <1>1, <1>2, <1>14 DEF PipelineTypeInv, Current

LEMMA PipelineTypeNext ==
    PipelineInv /\ PipelineTypeInv /\ [PipelineNext]_pipelineVars => PipelineTypeInv'
<1> SUFFICES ASSUME PipelineInv, PipelineTypeInv, [PipelineNext]_pipelineVars PROVE PipelineTypeInv'
  OBVIOUS
<1>0. ExecTypeInv
  BY DEF PipelineTypeInv, PipelineTypeOK, ExecTypeInv
<1>1. ASSUME NEW T \in SUBSET Stock, NEW priced \in SUBSET T, RunDaily(T, priced)
      PROVE  PipelineTypeInv'
  BY <1>1, RunDailyTypes
<1>2. ASSUME Submit, batch' = batch, UNCHANGED <<phase, targets, book, runs, astray>>
      PROVE  PipelineTypeInv'
  <2>1. ExecTypeInv'
    BY <1>0, <1>2, SubmitTypes
  <2> QED BY <1>2, <2>1 DEF ExecTypeInv, PipelineTypeInv, PipelineTypeOK
<1>3. Submit => batch' = batch
  BY DEF Submit, Skip, Reject, Rehearse, Send, BrokerTakes, BrokerRefuses, ReadAnswer, NoAnswer,
         AllReported, requestVars
<1>4. CASE Execute
  BY <1>2, <1>3, <1>4 DEF Execute
<1>5. CASE SavePositions
  BY <1>5, SavePositionsTypes
<1>6. CASE Die
  <2>1. phase' = "died" /\ astray' = TRUE /\ book' = book /\ UNCHANGED execVars
        /\ targets' = targets /\ runs' = runs
    BY <1>6 DEF Die
  <2>2. UNCHANGED <<kind, dry, validate, batch, step, results, halted, wire, answers, placed, cash, shares, buying, selling>>
    BY <2>1 DEF execVars, requestVars, channelVars, accountVars
  <2>3. ExecTypeOK'
    BY <2>2 DEF PipelineTypeInv, PipelineTypeOK, ExecTypeOK
  <2> QED BY <2>1, <2>2, <2>3 DEF PipelineTypeInv, PipelineTypeOK, Current
<1>7. CASE LateTaken
  BY <1>2, <1>3, <1>7 DEF LateTaken, Submit
<1>8. CASE UNCHANGED pipelineVars
  <2>1. UNCHANGED execVars /\ UNCHANGED <<phase, targets, book, runs, astray>>
    BY <1>8 DEF pipelineVars
  <2>2. UNCHANGED <<kind, dry, validate, batch, step, results, halted, wire, answers, placed, cash, shares, buying, selling>>
    BY <2>1 DEF execVars, requestVars, channelVars, accountVars
  <2>3. ExecTypeOK'
    BY <2>2 DEF PipelineTypeInv, PipelineTypeOK, ExecTypeOK
  <2> QED BY <2>1, <2>2, <2>3 DEF PipelineTypeInv, PipelineTypeOK, Current
<1>9. ASSUME Filled \/ Dropped PROVE PipelineTypeInv'
  <2>1. PICK s \in Stock : BrokerFills(s) \/ BrokerDrops(s)
    BY <1>9 DEF Filled, Dropped
  <2>2. ExecTypeInv' /\ UNCHANGED <<phase, targets, book, runs, batch>>
    BY <1>0, <1>9, <2>1, FillsTypes DEF Filled, Dropped, BrokerFills, BrokerDrops, requestVars
  <2>3. astray' \in BOOLEAN
    BY <1>9 DEF Filled, Dropped, PipelineTypeInv, PipelineTypeOK
  <2> QED BY <2>2, <2>3 DEF ExecTypeInv, PipelineTypeInv, PipelineTypeOK
<1> QED BY <1>1, <1>4, <1>5, <1>6, <1>7, <1>8, <1>9 DEF PipelineNext

\* Runs of the pipeline keep their types: the positions file never claims less than no
\* shares of a stock, because a run sells a stock in one order and no more than the book
\* holds of it.
THEOREM PipelineTypeCorrect == PipelineSpec => []PipelineTypeOK
<1>1. PipelineTypeInv => PipelineTypeOK
  BY DEF PipelineTypeInv
<1> QED BY <1>1, PipelineInvInit, PipelineInvNext, PipelineTypeInit, PipelineTypeNext, PTL
        DEF PipelineSpec

-----------------------------------------------------------------------------
(* LivePredictions: the types of snapshots and predictions.                 *)

\* A request that has a day has features as well.
PredictTypeInv ==
    /\ PredictTypeOK
    /\ \A r \in Reader : date[r] # 0 => date[r] >= 2 /\ feature[r] >= 1

LEMMA MarketInRange ==
    ASSUME PredictInv, HealthTypeOK
    PROVE  Market \in 1..Today
<1>1. \E s \in Symbol : Market = close[s]
  BY MarketIsLast DEF PredictInv, PredictShape, ScansAreOld
<1> QED BY <1>1 DEF HealthTypeOK

\* A scan is of the market or of the calendar.
LEMMA ScanTypes ==
    ASSUME PredictInv, HealthTypeOK, NEW t \in Scanner, Scans(t), UNCHANGED job
    PROVE  HealthTypeOK'
<1>1. Market \in 0..Today /\ calendar \in 0..Today /\ Today \in Nat
  BY MarketInRange, SnapshotAssumption DEF SnapshotAssumption, HealthTypeOK
<1>2. PICK n \in {Market, calendar} : scan' = [scan EXCEPT ![t] = n]
  BY DEF Scans
<1>3. claims' \subseteq Scanner \union {Cache}
  BY DEF Scans, HealthTypeOK
<1>4. UNCHANGED <<calendar, close, job, snap, fresh, refreshing, worker>>
  BY DEF Scans
<1> QED BY <1>1, <1>2, <1>3, <1>4 DEF HealthTypeOK

LEMMA StoreTypesOfScan ==
    ASSUME HealthTypeOK, NEW t \in Scanner, snap' = scan[t], fresh' = TRUE,
           scan' = [scan EXCEPT ![t] = 0], claims' \subseteq Scanner \union {Cache}, job' \in Job,
           worker' \in {worker, "stored"}, UNCHANGED <<calendar, close, refreshing>>
    PROVE  HealthTypeOK'
<1>1. Today \in Nat
  BY SnapshotAssumption DEF SnapshotAssumption
<1>2. snap' \in 0..Today /\ scan' \in [Scanner -> 0..Today]
  BY <1>1 DEF HealthTypeOK
<1>3. fresh' \in BOOLEAN /\ worker' \in {"none", "scans", "stored"}
  BY DEF HealthTypeOK
<1> QED BY <1>2, <1>3 DEF HealthTypeOK, Job

LEMMA SyncTypes ==
    ASSUME PredictInv, HealthTypeOK, SyncStep
    PROVE  HealthTypeOK'
<1> USE DEF diskVars, healthVars
<1>0. Today \in Nat
  BY SnapshotAssumption DEF SnapshotAssumption
<1>1. ASSUME job' \in Job, UNCHANGED <<calendar, close, healthVars>> PROVE HealthTypeOK'
  BY <1>1 DEF HealthTypeOK, Job
<1>2. CASE SyncStarts \/ WriterRaises
  <2>1. job' \in Job
    BY <1>2 DEF SyncStarts, WriterRaises, HealthTypeOK, Job
  <2> QED BY <1>1, <1>2, <2>1 DEF SyncStarts, WriterRaises
<1>3. CASE SyncReads
  <2>1. job' \in Job
    BY <1>3 DEF SyncReads, Knows, HealthTypeOK, Job
  <2>2. claims' \subseteq Scanner \union {Cache}
    BY <1>3, CacheScansNot DEF SyncReads, HealthTypeOK
  <2> QED BY <1>3, <2>1, <2>2 DEF SyncReads, HealthTypeOK, Job
<1>4. CASE SyncScans
  BY <1>4, ScanTypes, CacheScansNot DEF SyncScans
<1>5. CASE SyncStores
  <2>1. job' \in Job
    BY <1>5, CacheScansNot DEF SyncStores, Knows, HealthTypeOK, Job
  <2>2. claims' \subseteq Scanner \union {Cache}
    BY <1>5 DEF SyncStores, HealthTypeOK
  <2> QED BY <1>5, <2>1, <2>2, StoreTypesOfScan, CacheScansNot DEF SyncStores, StoreSnapshot
<1>6. CASE SyncPublishesDays
  <2>1. calendar' \in calendar..Today /\ calendar \in 1..Today
    BY <1>6 DEF SyncPublishesDays, HealthTypeOK
  <2>2. calendar' \in 1..Today
    BY <1>0, <2>1
  <2>3. PICK target \in {0, calendar'}, unsure \in BOOLEAN :
          job' = [job EXCEPT !.phase = "writes", !.doubtful = unsure, !.target = target]
    BY <1>6 DEF SyncPublishesDays
  <2>4. target \in 0..Today
    BY <1>0, <2>2, <2>3
  <2>5. job' \in Job
    BY <2>3, <2>4 DEF HealthTypeOK, Job
  <2> QED BY <1>6, <2>2, <2>5 DEF SyncPublishesDays, HealthTypeOK, Job
<1>7. ASSUME NEW s \in Symbol, SyncWritesClose(s) PROVE HealthTypeOK'
  <2>1. PICK d \in (close[s] + 1)..calendar : close' = [close EXCEPT ![s] = d]
    BY <1>7 DEF SyncWritesClose
  <2>2. d \in 1..Today
    BY <1>0, <2>1 DEF HealthTypeOK
  <2>3. close' \in [Symbol -> 1..Today]
    BY <2>1, <2>2 DEF HealthTypeOK
  <2> QED BY <1>7, <2>3 DEF SyncWritesClose, HealthTypeOK, Job
<1>8. CASE SyncEnds
  <2>1. job' \in Job
    BY <1>0, <1>8 DEF SyncEnds, NoJob, Job
  <2>2. UNCHANGED <<calendar, close, scan>>
    BY <1>8 DEF SyncEnds
  <2>3. CASE SyncPublishes
    <3>1. snap' \in 0..Today /\ fresh' \in BOOLEAN
      BY <2>3 DEF SyncPublishes, StoreSnapshot, HealthTypeOK, Job
    <3>2. refreshing' \in BOOLEAN /\ worker' \in {"none", "scans", "stored"}
      BY <2>3 DEF SyncPublishes, StartHealthRefresh, HealthTypeOK
    <3>3. claims' \subseteq Scanner \union {Cache}
      BY <2>3 DEF SyncPublishes, HealthTypeOK
    <3> QED BY <2>1, <2>2, <3>1, <3>2, <3>3 DEF HealthTypeOK, Job
  <2>4. CASE claims' = claims \ {Syncer} /\ UNCHANGED <<snap, fresh, refreshing, worker>>
    BY <2>1, <2>2, <2>4 DEF HealthTypeOK, Job
  <2> QED BY <1>8, <2>3, <2>4 DEF SyncEnds
<1> QED BY <1>2, <1>3, <1>4, <1>5, <1>6, <1>7, <1>8 DEF SyncStep

LEMMA HealthTypes ==
    ASSUME PredictInv, HealthTypeOK, HealthNext
    PROVE  HealthTypeOK'
<1>1. CASE SyncStep
  BY <1>1, SyncTypes
<1>2. CASE WorkerScans
  BY <1>2, ScanTypes, CacheScansNot DEF WorkerScans
<1>3. ASSUME NEW t \in Scanner, Stores(t), UNCHANGED job, worker' \in {worker, "stored"}
      PROVE  HealthTypeOK'
  <2>1. claims' \subseteq Scanner \union {Cache} /\ job' \in Job
    BY <1>3 DEF Stores, HealthTypeOK
  <2> QED BY <1>3, <2>1, StoreTypesOfScan DEF Stores, StoreSnapshot
<1>4. CASE WorkerStores
  BY <1>3, <1>4, CacheScansNot DEF WorkerStores
<1>5. ASSUME NEW r \in Reader, RequestScans(r) PROVE HealthTypeOK'
  BY <1>5, ScanTypes, CacheScansNot DEF RequestScans
<1>6. ASSUME NEW r \in Reader, RequestStores(r) PROVE HealthTypeOK'
  BY <1>3, <1>6, CacheScansNot DEF RequestStores
<1>7. CASE WorkerLeaves \/ Expire
  BY <1>7 DEF WorkerLeaves, Expire, diskVars, HealthTypeOK, Job
<1> QED BY <1>1, <1>2, <1>4, <1>5, <1>6, <1>7 DEF HealthNext

\* The steps of a request leave the snapshot alone.
LEMMA HealthStays ==
    ASSUME HealthTypeOK, UNCHANGED diskVars, UNCHANGED healthVars
    PROVE  HealthTypeOK'
BY DEF HealthTypeOK, Job, diskVars, healthVars

\* A request that has its answer, or its error, has no day.
LEMMA LeavesTypes ==
    ASSUME PredictTypeInv, NEW r \in Reader, Leaves(r), UNCHANGED diskVars, UNCHANGED healthVars,
           asked' = asked, provider' = provider, cached' \in 0..Today, memory' \in Memory,
           file' \in SUBSET Predictions, made' \in SUBSET Predictions,
           emptied' \in BOOLEAN, overlap' = overlap
    PROVE  PredictTypeInv'
<1>1. Today \in Nat
  BY SnapshotAssumption DEF SnapshotAssumption
<1>2. /\ date' = [date EXCEPT ![r] = 0] /\ feature' = [feature EXCEPT ![r] = 0]
      /\ dataset' = [dataset EXCEPT ![r] = 0]
      /\ history' = [history EXCEPT ![r] = {}]
      /\ request' = [request EXCEPT ![r] = "idle"]
  BY DEF Leaves, Goto
<1>3. PredictTypeOK /\ HealthTypeOK
  BY DEF PredictTypeInv, PredictTypeOK
<1>4. /\ date' \in [Reader -> 0..(Today + 1)] /\ feature' \in [Reader -> 0..Today]
      /\ dataset' \in [Reader -> 0..Today] /\ history' \in [Reader -> SUBSET Predictions]
  BY <1>1, <1>2, <1>3 DEF PredictTypeOK
<1>5. request' \in [Reader -> Stage]
  BY <1>2, <1>3 DEF PredictTypeOK, Stage
<1>6. PredictTypeOK'
  BY <1>2, <1>3, <1>4, <1>5, HealthStays DEF PredictTypeOK, Predictions, Memory
<1>7. \A q \in Reader : date'[q] # 0 => date'[q] >= 2 /\ feature'[q] >= 1
  BY <1>2, <1>3 DEF PredictTypeInv, PredictTypeOK
<1> QED BY <1>6, <1>7 DEF PredictTypeInv

LEMMA ResolveTypes ==
    ASSUME PredictTypeInv, NEW r \in Reader, NEW wanted \in 2..(Today + 1), Resolve(r, wanted)
    PROVE  PredictTypeInv'
<1> DEFINE day == FeatureOf(wanted, snap)
<1>1. Today \in Nat
  BY SnapshotAssumption DEF SnapshotAssumption
<1>2. /\ asked < MaxAsked /\ asked' = asked + 1 /\ snap # 0
      /\ date' = [date EXCEPT ![r] = wanted] /\ feature' = [feature EXCEPT ![r] = day]
      /\ cached' = (IF cached < day THEN 0 ELSE cached)
      /\ request' = [request EXCEPT ![r] = "resolved"]
      /\ UNCHANGED <<dataset, history, provider, memory, file, emptied, made, overlap>>
      /\ UNCHANGED diskVars /\ UNCHANGED healthVars
  BY DEF Resolve, Goto, Served
<1>3. PredictTypeOK /\ HealthTypeOK
  BY DEF PredictTypeInv, PredictTypeOK
<1>4. day \in 1..Today
  BY <1>1, <1>2, <1>3 DEF FeatureOf, HealthTypeOK
<1> HIDE DEF day
<1>5. asked' \in 0..MaxAsked
  BY <1>2, <1>3, PredictAssumption DEF PredictTypeOK, PredictAssumption
<1>6. date' \in [Reader -> 0..(Today + 1)] /\ feature' \in [Reader -> 0..Today]
  BY <1>1, <1>2, <1>3, <1>4 DEF PredictTypeOK
<1>7. request' \in [Reader -> Stage]
  BY <1>2, <1>3 DEF PredictTypeOK, Stage
<1>8. PredictTypeOK'
  BY <1>1, <1>2, <1>3, <1>5, <1>6, <1>7, HealthStays DEF PredictTypeOK, Predictions, Memory
<1>9. \A q \in Reader : date'[q] # 0 => date'[q] >= 2 /\ feature'[q] >= 1
  BY <1>1, <1>2, <1>3, <1>4 DEF PredictTypeInv, PredictTypeOK
<1> QED BY <1>8, <1>9 DEF PredictTypeInv

LEMMA LoadDatasetTypes ==
    ASSUME PredictTypeInv, NEW r \in Reader, LoadDataset(r)
    PROVE  PredictTypeInv'
<1>1. Today \in Nat
  BY SnapshotAssumption DEF SnapshotAssumption
<1>2. /\ request' = [request EXCEPT ![r] = "loading"]
      /\ UNCHANGED <<asked, date, feature, history, cached, memory, file, emptied, made, overlap>>
      /\ UNCHANGED diskVars /\ UNCHANGED healthVars
  BY DEF LoadDataset, Goto
<1>3. PredictTypeOK /\ HealthTypeOK
  BY DEF PredictTypeInv, PredictTypeOK
<1>4. Calendar \in 0..Today /\ feature[r] \in 0..Today /\ cached \in 0..Today /\ provider \in 0..Today
  BY <1>1, <1>3 DEF Calendar, HealthTypeOK, PredictTypeOK
<1>5. Min({feature[r], Calendar}) \in {feature[r], Calendar}
  <2> DEFINE D == {feature[r], Calendar}
  <2>1. D \in SUBSET Nat /\ D # {}
    BY <1>1, <1>4
  <2> HIDE DEF D
  <2>2. Min(D) \in D
    BY <2>1, MinIsLeast
  <2> QED BY <2>2 DEF D
<1>6. /\ provider' \in 0..Today
      /\ \E day \in 0..Today : dataset' = [dataset EXCEPT ![r] = day]
  <2>1. CASE cached # 0
    <3>1. dataset' = [dataset EXCEPT ![r] = cached] /\ provider' = provider
      BY <2>1 DEF LoadDataset
    <3> QED BY <1>4, <3>1
  <2>2. CASE cached = 0
    <3>1. /\ provider' = Calendar
          /\ \E day \in {Min({feature[r], Calendar}), Calendar} :
                dataset' = [dataset EXCEPT ![r] = day]
      BY <2>2 DEF LoadDataset
    <3> QED BY <1>4, <1>5, <3>1
  <2> QED BY <2>1, <2>2
<1>7. dataset' \in [Reader -> 0..Today]
  BY <1>3, <1>6 DEF PredictTypeOK
<1>8. request' \in [Reader -> Stage]
  BY <1>2, <1>3 DEF PredictTypeOK, Stage
<1>9. PredictTypeOK'
  BY <1>2, <1>3, <1>6, <1>7, <1>8, HealthStays DEF PredictTypeOK, Predictions, Memory
<1> QED BY <1>2, <1>9 DEF PredictTypeInv

LEMMA PredictTypes ==
    ASSUME PredictTypeInv, NEW r \in Reader, Predict(r)
    PROVE  PredictTypeInv'
<1>1. Today \in Nat
  BY SnapshotAssumption DEF SnapshotAssumption
<1>2. /\ cached' = dataset[r]
      /\ UNCHANGED <<asked, provider, memory, file, emptied, made, overlap>>
      /\ UNCHANGED diskVars /\ UNCHANGED healthVars
  BY DEF Predict
<1>3. \/ Leaves(r)
      \/ /\ request' = [request EXCEPT ![r] = "predicted"] /\ ~(Fallback(r) < 1)
         /\ UNCHANGED <<date, dataset, history>>
         /\ feature' = [feature EXCEPT ![r] = Fallback(r)]
  BY DEF Predict, Goto
<1>4. PredictTypeOK /\ HealthTypeOK
  BY DEF PredictTypeInv, PredictTypeOK
<1>5. ~(Fallback(r) < 1) => Fallback(r) \in 1..Today
  BY <1>1, <1>4 DEF Fallback, PredictTypeOK
<1>6. cached' \in 0..Today
  BY <1>2, <1>4 DEF PredictTypeOK
<1>7. CASE Leaves(r)
  <2>1. /\ memory' \in Memory /\ file' \in SUBSET Predictions /\ made' \in SUBSET Predictions
    BY <1>2, <1>4 DEF PredictTypeOK, Memory, Predictions
  <2>2. emptied' \in BOOLEAN
    BY <1>2, <1>4 DEF PredictTypeOK
  <2> QED BY <1>2, <1>6, <1>7, <2>1, <2>2, LeavesTypes
<1>8. CASE ~Leaves(r)
  <2>1. feature' \in [Reader -> 0..Today] /\ request' \in [Reader -> Stage]
    BY <1>1, <1>3, <1>4, <1>5, <1>8 DEF PredictTypeOK, Stage
  <2>2. PredictTypeOK'
    BY <1>2, <1>3, <1>4, <1>6, <1>8, <2>1, HealthStays DEF PredictTypeOK, Predictions, Memory
  <2>3. \A q \in Reader : date'[q] # 0 => date'[q] >= 2 /\ feature'[q] >= 1
    BY <1>1, <1>3, <1>4, <1>5, <1>8 DEF PredictTypeInv, PredictTypeOK
  <2> QED BY <2>2, <2>3 DEF PredictTypeInv
<1> QED BY <1>7, <1>8

\* The steps on the history.
LEMMA ReadTypes ==
    ASSUME PredictTypeInv, NEW r \in Reader, ReadHistory(r) \/ ShowPredictions(r) \/ ReadFile(r)
    PROVE  PredictTypeInv'
<1>1. PredictTypeOK /\ HealthTypeOK
  BY DEF PredictTypeInv, PredictTypeOK
<1>2. /\ UNCHANGED <<asked, cached, provider, memory, file, emptied, made>>
      /\ UNCHANGED diskVars /\ UNCHANGED healthVars
  BY DEF ReadHistory, ShowPredictions, ReadFile
<1>3. /\ memory.rows \in SUBSET Predictions /\ file \in SUBSET Predictions
      /\ memory' \in Memory /\ file' \in SUBSET Predictions /\ made' \in SUBSET Predictions
      /\ cached' \in 0..Today
  BY <1>1, <1>2 DEF PredictTypeOK, Memory, Predictions
<1>4. emptied' \in BOOLEAN
  BY <1>1, <1>2 DEF PredictTypeOK
<1>5. CASE Leaves(r) /\ UNCHANGED overlap
  BY <1>2, <1>3, <1>4, <1>5, LeavesTypes
<1>6. ASSUME NEW rows \in SUBSET Predictions, NEW next \in Stage, history' = [history EXCEPT ![r] = rows],
             request' = [request EXCEPT ![r] = next], overlap' \in BOOLEAN,
             UNCHANGED <<date, feature, dataset>>
      PROVE  PredictTypeInv'
  <2>1. history' \in [Reader -> SUBSET Predictions] /\ request' \in [Reader -> Stage]
    BY <1>1, <1>6 DEF PredictTypeOK
  <2>2. PredictTypeOK'
    BY <1>1, <1>2, <1>6, <2>1, HealthStays DEF PredictTypeOK, Predictions, Memory
  <2> QED BY <1>6, <2>2 DEF PredictTypeInv
<1>7. ASSUME NEW rows \in SUBSET Predictions, NEW next \in {"reading", "merging"}, Takes(r, rows, next)
      PROVE  PredictTypeInv'
  <2>1. overlap' \in BOOLEAN
    BY <1>7 DEF Takes
  <2>2. next \in Stage
    BY DEF Stage
  <2> QED BY <1>6, <1>7, <2>1, <2>2 DEF Takes, Goto
<1>8. CASE Looked(r)
  <2>1. history' = [history EXCEPT ![r] = history[r]] /\ history[r] \in SUBSET Predictions
    BY <1>1, <1>8 DEF Looked, PredictTypeOK
  <2>2. overlap' \in BOOLEAN
    BY <1>1, <1>8 DEF Looked, PredictTypeOK
  <2>3. "looked" \in Stage
    BY DEF Stage
  <2> QED BY <1>6, <1>8, <2>1, <2>2, <2>3 DEF Looked, Goto
<1> QED BY <1>3, <1>5, <1>7, <1>8 DEF ReadHistory, ShowPredictions, ReadFile

LEMMA KeepTypes ==
    ASSUME PredictTypeInv, NEW r \in Reader, KeepHistory(r) \/ OpenHistory(r)
    PROVE  PredictTypeInv'
<1>1. PredictTypeOK /\ HealthTypeOK
  BY DEF PredictTypeInv, PredictTypeOK
<1>2. /\ \E p \in Stage : request' = [request EXCEPT ![r] = p]
      /\ UNCHANGED <<asked, date, feature, dataset, cached, provider, made, overlap>>
      /\ UNCHANGED diskVars /\ UNCHANGED healthVars
  BY DEF KeepHistory, OpenHistory, Goto, Stage
<1>3. /\ memory' = memory \/ memory' = [loaded |-> TRUE, rows |-> history[r]]
      /\ history' = history \/ history' = [history EXCEPT ![r] = {}]
      /\ file' = file \/ file' = {}
      /\ emptied' = emptied \/ emptied' = TRUE
  BY DEF KeepHistory, OpenHistory
<1>4. memory' \in Memory
  <2>1. history[r] \in SUBSET Predictions /\ memory \in Memory
    BY <1>1 DEF PredictTypeOK
  <2>2. [loaded |-> TRUE, rows |-> history[r]] \in Memory
    BY <2>1 DEF Memory
  <2>3. CASE memory' = memory
    BY <2>1, <2>3 DEF Memory, Predictions
  <2>4. CASE memory' = [loaded |-> TRUE, rows |-> history[r]]
    BY <2>2, <2>4 DEF Memory, Predictions
  <2> QED BY <1>3, <2>3, <2>4
<1>5. history' \in [Reader -> SUBSET Predictions] /\ request' \in [Reader -> Stage]
  BY <1>1, <1>2, <1>3 DEF PredictTypeOK
<1>6. file' \subseteq Predictions
  BY <1>1, <1>3 DEF PredictTypeOK
<1>7. emptied' \in BOOLEAN
  BY <1>1, <1>3 DEF PredictTypeOK
<1>8. PredictTypeOK'
  BY <1>1, <1>2, <1>4, <1>5, <1>6, <1>7, HealthStays DEF PredictTypeOK, Predictions, Memory
<1> QED BY <1>2, <1>8 DEF PredictTypeInv

\* What is stored is a prediction: its thread has a day and features.
LEMMA PersistTypes ==
    ASSUME PredictInv, PredictTypeInv, NEW r \in Reader, Persist(r) \/ PersistRaises(r)
    PROVE  PredictTypeInv'
<1>1. Today \in Nat
  BY SnapshotAssumption DEF SnapshotAssumption
<1>2. /\ request[r] = "writing" /\ Leaves(r)
      /\ asked' = asked /\ cached' = cached /\ provider' = provider /\ overlap' = overlap
      /\ UNCHANGED diskVars /\ UNCHANGED healthVars
  BY DEF Persist, PersistRaises, storeVars
<1>3. PredictTypeOK /\ HealthTypeOK
  BY DEF PredictTypeInv, PredictTypeOK
<1>4. date[r] # 0
  BY <1>2 DEF PredictInv, RequestsAreTimely
<1>5. date[r] \in 2..(Today + 1) /\ feature[r] \in 1..Today
  BY <1>1, <1>3, <1>4 DEF PredictTypeInv, PredictTypeOK
<1>6. Prediction(r) \in Predictions
  BY <1>5 DEF Prediction, Predictions
<1>7. Merged(r) \in SUBSET Predictions
  BY <1>3, <1>6 DEF Merged, PredictTypeOK
<1>8. /\ memory' \in Memory /\ file' \in SUBSET Predictions /\ made' \in SUBSET Predictions
      /\ emptied' \in BOOLEAN
  <2>1. CASE Persist(r)
    <3>1. /\ file' = Merged(r) /\ emptied' = FALSE
          /\ memory' = [loaded |-> TRUE, rows |-> Merged(r)]
          /\ made' = {p \in made : p.date # date[r]} \union {Prediction(r)}
      BY <2>1 DEF Persist
    <3>2. made' \in SUBSET Predictions
      BY <1>3, <1>6, <3>1 DEF PredictTypeOK
    <3> QED BY <1>7, <3>1, <3>2 DEF Memory
  <2>2. CASE PersistRaises(r)
    BY <1>3, <2>2 DEF PersistRaises, storeVars, PredictTypeOK, Memory, Predictions
  <2> QED BY <2>1, <2>2
<1>9. cached' \in 0..Today
  BY <1>2, <1>3 DEF PredictTypeOK
<1> QED BY <1>2, <1>8, <1>9, LeavesTypes

LEMMA StoreTypes ==
    ASSUME PredictTypeInv, ReloadRegistry \/ ServerRestarts
    PROVE  PredictTypeInv'
<1>1. Today \in Nat
  BY SnapshotAssumption DEF SnapshotAssumption
<1>2. PredictTypeOK /\ HealthTypeOK
  BY DEF PredictTypeInv, PredictTypeOK
<1>3. NotLoaded \in Memory
  BY DEF NotLoaded, Memory
<1>4. CASE ReloadRegistry
  <2>1. /\ memory' = NotLoaded /\ cached' = 0
        /\ UNCHANGED <<asked, request, date, feature, dataset, history, provider, file, emptied, made, overlap>>
        /\ UNCHANGED diskVars /\ UNCHANGED healthVars
    BY <1>4 DEF ReloadRegistry, predictRequestVars
  <2>2. memory' \in Memory /\ cached' \in 0..Today
    BY <1>1, <1>3, <2>1
  <2>3. PredictTypeOK'
    BY <1>2, <2>1, <2>2, HealthStays DEF PredictTypeOK, Predictions, Memory
  <2> QED BY <2>1, <2>3 DEF PredictTypeInv
<1>5. CASE ServerRestarts
  <2>1. /\ job' = NoJob /\ snap' = 0 /\ fresh' = FALSE /\ refreshing' = FALSE /\ worker' = "none"
        /\ scan' = [t \in Scanner |-> 0] /\ claims' = {}
        /\ request' = [r \in Reader |-> "idle"]
        /\ date' = [r \in Reader |-> 0] /\ feature' = [r \in Reader |-> 0]
        /\ dataset' = [r \in Reader |-> 0] /\ history' = [r \in Reader |-> {}]
        /\ cached' = 0 /\ provider' = 0 /\ memory' = NotLoaded
        /\ UNCHANGED <<calendar, close, asked, file, emptied, made, overlap>>
    BY <1>5 DEF ServerRestarts
  <2>2. scan' \in [Scanner -> 0..Today] /\ job' \in Job
    BY <1>1, <2>1 DEF NoJob, Job
  <2>3. HealthTypeOK'
    <3>1. fresh' \in BOOLEAN /\ refreshing' \in BOOLEAN
      BY <2>1
    <3>2. claims' \subseteq Scanner \union {Cache}
      BY <2>1
    <3>3. snap' \in 0..Today
      BY <1>1, <2>1
    <3> QED BY <1>2, <2>1, <2>2, <3>1, <3>2, <3>3 DEF HealthTypeOK, Job
  <2>4. /\ date' \in [Reader -> 0..(Today + 1)] /\ feature' \in [Reader -> 0..Today]
        /\ dataset' \in [Reader -> 0..Today] /\ history' \in [Reader -> SUBSET Predictions]
        /\ cached' \in 0..Today /\ provider' \in 0..Today /\ memory' \in Memory
    BY <1>1, <1>3, <2>1
  <2>5. request' \in [Reader -> Stage]
    BY <2>1 DEF Stage
  <2>6. PredictTypeOK'
    BY <1>2, <2>1, <2>3, <2>4, <2>5 DEF PredictTypeOK, Predictions, Memory
  <2> QED BY <2>1, <2>6 DEF PredictTypeInv
<1> QED BY <1>4, <1>5

LEMMA PredictTypeInit == PredictInit => PredictTypeInv
<1> SUFFICES ASSUME PredictInit PROVE PredictTypeInv
  OBVIOUS
<1>1. Today \in Nat \ {0} /\ MaxAsked \in Nat
  BY SnapshotAssumption, PredictAssumption DEF SnapshotAssumption, PredictAssumption
<1>2. HealthTypeOK
  <2>1. /\ calendar = 1 /\ close = [s \in Symbol |-> 1] /\ snap = 0
        /\ scan = [t \in Scanner |-> 0] /\ claims = {}
        /\ job = [phase |-> "idle", known |-> 0, target |-> 0, doubtful |-> FALSE]
        /\ fresh = FALSE /\ refreshing = FALSE /\ worker = "none"
    BY DEF PredictInit, HealthInit, NoJob
  <2>2. calendar \in 1..Today /\ snap \in 0..Today
    BY <1>1, <2>1
  <2>3. close \in [Symbol -> 1..Today] /\ scan \in [Scanner -> 0..Today] /\ job \in Job
    BY <1>1, <2>1 DEF Job
  <2> QED BY <2>1, <2>2, <2>3 DEF HealthTypeOK
<1>3. NotLoaded \in Memory
  BY DEF NotLoaded, Memory
<1>4. /\ asked \in 0..MaxAsked /\ cached \in 0..Today /\ provider \in 0..Today
      /\ file \subseteq Predictions /\ made \subseteq Predictions
  BY <1>1 DEF PredictInit
<1>9. memory \in Memory /\ emptied \in BOOLEAN /\ overlap \in BOOLEAN
  <2>1. overlap = FALSE /\ emptied = FALSE /\ memory = NotLoaded
    BY DEF PredictInit
  <2>2. memory \in Memory
    BY <1>3, <2>1
  <2>3. emptied \in BOOLEAN /\ overlap \in BOOLEAN
    BY <2>1
  <2> QED BY <2>2, <2>3
<1>5. request \in [Reader -> Stage]
  BY DEF PredictInit, Stage
<1>6. /\ date \in [Reader -> 0..(Today + 1)] /\ feature \in [Reader -> 0..Today]
      /\ dataset \in [Reader -> 0..Today]
  BY <1>1 DEF PredictInit
<1>7. history \in [Reader -> SUBSET Predictions]
  BY DEF PredictInit
<1>8. PredictTypeOK
  BY <1>2, <1>4, <1>5, <1>6, <1>7, <1>9 DEF PredictTypeOK
<1> QED BY <1>8 DEF PredictInit, PredictTypeInv

LEMMA PredictTypeNext ==
    PredictInv /\ PredictTypeInv /\ [PredictNext]_predictVars => PredictTypeInv'
<1> SUFFICES ASSUME PredictInv, PredictTypeInv, [PredictNext]_predictVars PROVE PredictTypeInv'
  OBVIOUS
<1>1. PredictTypeOK /\ HealthTypeOK
  BY DEF PredictTypeInv, PredictTypeOK
<1>2. ASSUME HealthTypeOK', UNCHANGED <<predictRequestVars, storeVars>> PROVE PredictTypeInv'
  <2>1. UNCHANGED <<asked, request, date, feature, dataset, history, cached, provider, memory, file,
                    emptied, made, overlap>>
    BY <1>2 DEF predictRequestVars, storeVars
  <2>2. PredictTypeOK'
    BY <1>1, <1>2, <2>1 DEF PredictTypeOK, Predictions, Memory
  <2> QED BY <2>1, <2>2 DEF PredictTypeInv
<1>3. CASE HealthNext /\ UNCHANGED <<predictRequestVars, storeVars>>
  BY <1>1, <1>2, <1>3, HealthTypes
<1>4. CASE UNCHANGED predictVars
  <2>1. UNCHANGED diskVars /\ UNCHANGED healthVars /\ UNCHANGED <<predictRequestVars, storeVars>>
    BY <1>4 DEF predictVars
  <2> QED BY <1>1, <1>2, <2>1, HealthStays
<1> QED
  BY <1>3, <1>4, ResolveTypes, LoadDatasetTypes, PredictTypes, ReadTypes, KeepTypes, PersistTypes,
     StoreTypes DEF PredictNext

\* Snapshots, requests and the history keep their types: what is stored as a prediction
\* always has a day of its own and features of a trading day.
THEOREM PredictTypeCorrect == PredictSpec => []PredictTypeOK
<1>1. PredictTypeInv => PredictTypeOK
  BY DEF PredictTypeInv
<1> QED BY <1>1, PredictInductive, PredictTypeInit, PredictTypeNext, PTL DEF PredictSpec

-----------------------------------------------------------------------------
(* Positions: the types of books and edits.                                 *)

OfShares(b) == DOMAIN b.positions \subseteq Share

PositionsTypeInv ==
    /\ disk = Torn \/ OfShares(disk)
    /\ OfShares(books)
    /\ \A q \in Request : OfShares(draft[q]) /\ edit[q] \in Edits
    /\ edits \in Nat /\ IsFiniteSet(Busy) /\ edits + Cardinality(Busy) <= MaxEdits

LEMMA BalancedIsBook ==
    ASSUME NEW b, Balanced(b), OfShares(b)
    PROVE  IsBook(b)
BY DEF Balanced, IsHolding, OfShares, IsBook

LEMMA EditedOfShares ==
    ASSUME NEW b, OfShares(b), NEW x \in Edits, NEW c \in Edited(b, x)
    PROVE  OfShares(c)
<1> DEFINE D == DOMAIN b.positions
<1>1. x.of \in Share /\ D \subseteq Share
  BY DEF Edits, OfShares
<1>2. \A p, n, gain : OfShares(Traded(b, With(b, x.of, p), n, gain))
  BY <1>1 DEF OfShares, Traded, With
<1>3. \A n, gain : OfShares(Traded(b, Without(b, x.of), n, gain))
  BY <1>1 DEF OfShares, Traded, Without, Restrict
<1>4. \A n, gain : OfShares(Traded(b, b.positions, n, gain))
  BY <1>1 DEF OfShares, Traded
<1>5. CASE x.what = "add"
  <2>1. x.p # 0 /\ c \in Add(b, x.of, x.n, x.p)
    BY <1>5 DEF Edited
  <2> QED BY <1>2, <2>1 DEF Add
<1>6. CASE x.what = "sell"
  <2>1. c \in Sell(b, x.of, x.n, x.p)
    BY <1>6 DEF Edited
  <2> QED BY <1>2, <1>3, <2>1 DEF Sell, Answer
<1>7. CASE x.what = "cash"
  <2>1. c \in SetCash(b, x.n)
    BY <1>7 DEF Edited
  <2> QED BY <1>4, <2>1 DEF SetCash, Answer
<1>8. CASE x.what = "account"
  <2>1. c = b
    BY <1>8 DEF Edited
  <2> QED BY <2>1
<1>9. CASE x.what = "update"
  <2>1. c \in Update(b, x.of, x.n, x.p)
    BY <1>9 DEF Edited
  <2> QED BY <1>2, <2>1 DEF Update, Answer
<1>10. CASE x.what = "remove"
  <2>1. c \in Delete(b, x.of)
    BY <1>10 DEF Edited
  <2> QED BY <1>3, <2>1 DEF Delete, Answer
<1> QED BY <1>5, <1>6, <1>7, <1>8, <1>9, <1>10 DEF Edits

LEMMA PositionsTypeInit == PositionsInit => PositionsTypeInv
<1> SUFFICES ASSUME PositionsInit PROVE PositionsTypeInv
  OBVIOUS
<1>1. OfShares(EmptyBook)
  BY DEF OfShares, EmptyBook
<1>2. Edits # {}
  <2>1. PICK s \in Share : TRUE
    BY PositionsAssumption DEF PositionsAssumption
  <2>2. [what |-> "add", of |-> s, n |-> 0, p |-> 0] \in Edits
    BY PositionsAssumption DEF PositionsAssumption, Edits
  <2> QED BY <2>2
<1>3. \A q \in Request : edit[q] \in Edits
  <2> DEFINE any == CHOOSE x \in Edits : TRUE
  <2>1. any \in Edits
    BY <1>2
  <2>2. edit = [q \in Request |-> any]
    BY DEF PositionsInit
  <2> HIDE DEF any
  <2> QED BY <2>1, <2>2
<1>4. Busy = {}
  BY DEF PositionsInit, Busy
<1>5. edits \in Nat /\ IsFiniteSet(Busy) /\ edits + Cardinality(Busy) <= MaxEdits
  BY <1>4, FS_EmptySet, PositionsAssumption DEF PositionsInit, PositionsAssumption
<1> QED BY <1>1, <1>3, <1>5 DEF PositionsInit, PositionsTypeInv

LEMMA PositionsTypeNext ==
    PositionsInv /\ PositionsTypeInv /\ [PositionsNext]_positionsVars => PositionsTypeInv'
<1> SUFFICES ASSUME PositionsInv, PositionsTypeInv, [PositionsNext]_positionsVars
             PROVE  PositionsTypeInv'
  OBVIOUS
<1>1. OfShares(EmptyBook)
  BY DEF OfShares, EmptyBook
<1>2. PositionsShape
  BY DEF PositionsInv
<1>3. ASSUME NEW q \in Request, NEW x \in Edits, Load(q, x) PROVE PositionsTypeInv'
  <2>1. PICK b \in Edited(disk, x) : draft' = [draft EXCEPT ![q] = b]
    BY <1>3 DEF Load
  <2>2. /\ where[q] = "idle" /\ disk # Torn /\ edits + Cardinality(Busy) < MaxEdits
        /\ edit' = [edit EXCEPT ![q] = x] /\ where' = [where EXCEPT ![q] = "loaded"]
        /\ disk' = disk /\ books' = books /\ edits' = edits
    BY <1>3 DEF Load
  <2>3. OfShares(b)
    BY <2>1, <2>2, EditedOfShares DEF PositionsTypeInv
  <2>4. \A r \in Request : OfShares(draft'[r]) /\ edit'[r] \in Edits
    BY <1>2, <2>1, <2>2, <2>3 DEF PositionsTypeInv, PositionsShape
  <2>5. Busy' = Busy \union {q} /\ q \notin Busy
    BY <1>2, <2>2 DEF Busy, PositionsShape
  <2>6. IsFiniteSet(Busy) /\ IsFiniteSet(Busy') /\ Cardinality(Busy') = Cardinality(Busy) + 1
    BY <2>5, FS_AddElement DEF PositionsTypeInv
  <2>7. Cardinality(Busy) \in Nat
    BY <2>6, FS_CardinalityType
  <2>8. edits' \in Nat /\ IsFiniteSet(Busy') /\ edits' + Cardinality(Busy') <= MaxEdits
    BY <2>2, <2>6, <2>7, PositionsAssumption DEF PositionsTypeInv, PositionsAssumption
  <2> QED BY <2>2, <2>4, <2>8 DEF PositionsTypeInv
<1>4. ASSUME NEW q \in Request, OpenFile(q) PROVE PositionsTypeInv'
  <2>1. /\ where[q] = "loaded" /\ disk' = Torn /\ where' = [where EXCEPT ![q] = "opened"]
        /\ UNCHANGED <<draft, books, edits, edit>>
    BY <1>4 DEF OpenFile
  <2>2. Busy' = Busy
    BY <1>2, <2>1 DEF Busy, PositionsShape
  <2> QED BY <2>1, <2>2 DEF PositionsTypeInv
<1>5. ASSUME NEW q \in Request, WriteFile(q) PROVE PositionsTypeInv'
  <2>1. /\ where[q] = "opened" /\ where' = [where EXCEPT ![q] = "idle"]
        /\ disk' \in {draft[q]} \union (IF disk = Torn THEN {} ELSE {Torn})
        /\ books' \in IF Edited(books, edit[q]) = {} THEN {books} ELSE Edited(books, edit[q])
        /\ draft' = [draft EXCEPT ![q] = EmptyBook]
        /\ edits' = edits + 1 /\ edit' = edit
    BY <1>5 DEF WriteFile
  <2>2. disk' = Torn \/ OfShares(disk')
    BY <2>1 DEF PositionsTypeInv
  <2>3. OfShares(books')
    <3>1. books' = books \/ books' \in Edited(books, edit[q])
      BY <2>1
    <3> QED BY <3>1, EditedOfShares DEF PositionsTypeInv
  <2>4. \A r \in Request : OfShares(draft'[r]) /\ edit'[r] \in Edits
    BY <1>1, <1>2, <2>1 DEF PositionsTypeInv, PositionsShape
  <2>5. Busy' = Busy \ {q} /\ q \in Busy
    BY <1>2, <2>1 DEF Busy, PositionsShape
  <2>6. IsFiniteSet(Busy) /\ IsFiniteSet(Busy') /\ Cardinality(Busy') = Cardinality(Busy) - 1
    BY <2>5, FS_RemoveElement DEF PositionsTypeInv
  <2>7. Cardinality(Busy) \in Nat
    BY <2>6, FS_CardinalityType
  <2>8. edits' \in Nat /\ IsFiniteSet(Busy') /\ edits' + Cardinality(Busy') <= MaxEdits
    BY <2>1, <2>6, <2>7, PositionsAssumption DEF PositionsTypeInv, PositionsAssumption
  <2> QED BY <2>2, <2>3, <2>4, <2>8 DEF PositionsTypeInv
<1>6. CASE Kill
  <2>1. /\ Busy' = {} /\ draft' = [q \in Request |-> EmptyBook]
        /\ UNCHANGED <<disk, books, edits, edit>>
    BY <1>6 DEF Kill, Busy
  <2>2. IsFiniteSet(Busy') /\ Cardinality(Busy') = 0 /\ Cardinality(Busy) \in Nat
    BY <2>1, FS_EmptySet, FS_CardinalityType DEF PositionsTypeInv
  <2>3. edits' \in Nat /\ IsFiniteSet(Busy') /\ edits' + Cardinality(Busy') <= MaxEdits
    BY <2>1, <2>2, PositionsAssumption DEF PositionsTypeInv, PositionsAssumption
  <2>4. \A r \in Request : OfShares(draft'[r]) /\ edit'[r] \in Edits
    BY <1>1, <2>1 DEF PositionsTypeInv
  <2> QED BY <2>1, <2>3, <2>4 DEF PositionsTypeInv
<1>7. CASE UNCHANGED positionsVars
  BY <1>7 DEF positionsVars, PositionsTypeInv, Busy
<1> QED BY <1>3, <1>4, <1>5, <1>6, <1>7 DEF PositionsNext

LEMMA PositionsTyped == PositionsInv /\ PositionsTypeInv => PositionsTypeOK
<1> SUFFICES ASSUME PositionsInv, PositionsTypeInv PROVE PositionsTypeOK
  OBVIOUS
<1>1. (disk = Torn \/ IsBook(disk)) /\ IsBook(books)
  BY BalancedIsBook DEF PositionsInv, PositionsTypeInv, AllBalanced
<1>2. \A q \in Request : IsBook(draft[q]) /\ edit[q] \in Edits
  BY BalancedIsBook DEF PositionsInv, PositionsTypeInv, AllBalanced
<1>3. edits \in 0..MaxEdits
  <2>1. Cardinality(Busy) \in Nat
    BY FS_CardinalityType DEF PositionsTypeInv
  <2> QED BY <2>1, PositionsAssumption DEF PositionsTypeInv, PositionsAssumption
<1> QED BY <1>1, <1>2, <1>3 DEF PositionsInv, PositionsShape, PositionsTypeOK

\* The positions file is a book of the shares or torn, every request knows its edit, and
\* no more edits are answered or under way than the bound allows.
THEOREM PositionsTypeCorrect == PositionsSpec => []PositionsTypeOK
BY PositionsAlways, PositionsTypeInit, PositionsTypeNext, PositionsTyped, PTL DEF PositionsSpec
=============================================================================
