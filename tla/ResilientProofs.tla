---------------------------- MODULE ResilientProofs ----------------------------
(***************************************************************************)
(* Theorems about ResilientCall and ResilienceConfig, for any wrappers,    *)
(* retries, chains of any length and answers.                              *)
(***************************************************************************)
EXTENDS ResilientCall, Integers, TLAPS

Callables == {"primary", "secondary", "repair"}
Errors == {"error", "timeout", "invalid"}

Outcomes ==
  [kind : {"pending", "value", "awaitable", "degraded"},
   from : {"none", "primary", "secondary_provider", "cache", "replay"},
   conforms : BOOLEAN,
   reason : {"none", "validation_repair_failed", "forced_degraded",
             "primary_timeout", "primary_failed"}]

TypeOK ==
  /\ cfg \in Configs
  /\ pc \in {"start", "primary", "backoff", "judge", "repair", "chain", "secondary", "returned"}
  /\ attempt \in 0..cfg.retries
  /\ step \in 1..(Len(cfg.order) + 1)
  /\ err \in Errors \union {"none", "skipped"}
  /\ raw \in [from : {"none", "primary", "secondary_provider"}, conforms : BOOLEAN]
  /\ out \in Outcomes
  /\ asked \in [Callables -> Nat]
  /\ tried \subseteq 1..Len(cfg.order)
  /\ faults \subseteq {"primary", "secondary"} \X Errors

Judging(source) == pc \in {"judge", "repair"} /\ raw.from = source

\* The caller has nothing before the call returns.  The answer under
\* validation has a provider; only the async variant validates what the
\* secondary provider says.
AnswersKnown ==
  /\ pc # "returned" => out.kind = "pending"
  /\ pc \in {"judge", "repair"} => raw.from \in {"primary", "secondary_provider"}
  /\ Judging("secondary_provider") => Async
  /\ pc = "repair" => cfg.hook # "none"

\* The stages of the chain that can be consulted.
UsableStages == {i \in 1..Len(cfg.order) : Usable(cfg.order[i])}

\* The primary stage asks once per attempt, and never with the kill switch.
PrimaryCourse ==
  /\ cfg.forced \/ pc = "start" => \A x \in Callables : asked[x] = 0
  /\ cfg.forced => pc \in {"start", "chain", "returned"}
  /\ asked["primary"] <= cfg.retries + 1
  /\ pc \in {"start", "primary"} => asked["primary"] = attempt
  /\ pc = "backoff" \/ Judging("primary") => asked["primary"] = attempt + 1
  /\ pc = "backoff" => attempt < cfg.retries
  /\ pc \in {"start", "primary", "backoff"} \/ Judging("primary") =>
       ~PrimaryRejected /\ step = 1 /\ tried = {}
  /\ pc \in {"chain", "secondary"} \/ Judging("secondary_provider") =>
       cfg.forced \/ asked["primary"] = cfg.retries + 1 \/ PrimaryRejected

\* The chain is walked from its start, past no "none", and what was usable on
\* the way was consulted.
ChainCourse ==
  /\ pc # "returned" => \A j \in 1..(step - 1) : cfg.order[j] # "none"
  /\ pc = "chain" => tried = UsableStages \cap (1..(step - 1))
  /\ pc = "secondary" \/ Judging("secondary_provider") =>
       /\ step \in UsableStages
       /\ cfg.order[step] = "secondary_provider"
       /\ tried = UsableStages \cap (1..step)
  /\ pc = "returned" /\ out.from # "primary" =>
       tried \ {Answering} =
         {i \in UsableStages : i < Answering /\ \A j \in 1..i : cfg.order[j] # "none"}

\* last_error is the error of some answer, or stands for the kill switch.
ErrorCourse ==
  /\ pc = "start" => err = "none"
  /\ err \in Errors => \E x \in {"primary", "secondary"} : <<x, err>> \in faults
  /\ pc \in {"chain", "secondary"} \/ Judging("secondary_provider") =>
       IF cfg.forced THEN err = "skipped" ELSE err \in Errors
  /\ ~Async /\ PrimaryRejected => err = "invalid"

CallInv == TypeOK /\ AnswersKnown /\ PrimaryCourse /\ ChainCourse /\ ErrorCourse /\ OutcomeHonest

LEMMA InitCall == Init => CallInv
<1> SUFFICES ASSUME Init PROVE CallInv
  OBVIOUS
<1> USE DEF Init, NoAnswer, Pending
<1>1. LegalConfig(cfg)
  BY ConfigAssumption
<1>2. TypeOK
  BY <1>1 DEF TypeOK, Outcomes, LegalConfig, Callables, Errors
<1>3. AnswersKnown /\ ErrorCourse /\ OutcomeHonest
  BY DEF AnswersKnown, Judging, ErrorCourse, OutcomeHonest, PrimaryRejected, Errors
<1>4. PrimaryCourse
  BY <1>1 DEF PrimaryCourse, LegalConfig, Callables, Judging, PrimaryRejected
<1>5. ChainCourse
  BY DEF ChainCourse, Judging
<1> QED
  BY <1>2, <1>3, <1>4, <1>5 DEF CallInv

\* A wrapper keeps its configuration, and with it the stages it can consult.
LEMMA ConfigKept ==
  ASSUME CallInv, [Next]_vars
  PROVE  /\ LegalConfig(cfg)
         /\ cfg' = cfg
         /\ UsableStages' = UsableStages
         /\ Async' = Async
<1>1. cfg' = cfg
  BY DEF Next, Internal, Primary, Secondary, Repair, vars, Begin, Backoff, PrimaryReturns, PrimaryRaises,
     PrimaryAwaitable, Accept, Reject, AskRepair, RepairReturns, RepairFails, Skip, LookUp,
     CallSecondary, SecondaryReturns, SecondaryRaises, SecondaryAwaitable, Degrade
<1>2. LegalConfig(cfg)
  BY ConfigAssumption DEF CallInv, TypeOK
<1> QED
  BY <1>1, <1>2 DEF UsableStages, Usable, Async

\* What a wrapper hands out as a value has the type of an outcome.
LEMMA GiveTypes ==
  ASSUME NEW from \in {"primary", "secondary_provider", "cache", "replay"},
         NEW conforms \in BOOLEAN,
         Give(from, conforms)
  PROVE  out' \in Outcomes
<1>1. out' = [kind |-> "value", from |-> from, conforms |-> conforms, reason |-> "none"]
  BY DEF Give
<1> QED
  BY <1>1 DEF Outcomes

LEMMA NextTypes == ASSUME CallInv, [Next]_vars PROVE TypeOK'
<1> USE ConfigKept DEF CallInv, TypeOK, LegalConfig, AnswersKnown, PrimaryCourse, Judging, Callables, Errors, UsableStages, Usable, AtEnd, Steps, ChainCourse
<1>1. ASSUME Begin PROVE TypeOK'
  BY <1>1 DEF Begin
<1>2. ASSUME Backoff PROVE TypeOK'
  BY <1>2 DEF Backoff
<1>3. ASSUME NEW ok \in BOOLEAN, PrimaryReturns(ok) PROVE TypeOK'
  BY <1>3 DEF PrimaryReturns, Ask
<1>4. ASSUME NEW e \in {"error", "timeout"}, PrimaryRaises(e) PROVE TypeOK'
  BY <1>4 DEF PrimaryRaises, PrimaryFailed, Ask, Fault
<1>5. ASSUME PrimaryAwaitable PROVE TypeOK'
  <2>1. out' = [kind |-> "awaitable", from |-> "primary", conforms |-> FALSE, reason |-> "none"]
    BY <1>5 DEF PrimaryAwaitable, Pending
  <2>2. out' \in Outcomes
    BY <2>1 DEF Outcomes
  <2> QED
    BY <1>5, <2>2 DEF PrimaryAwaitable, Ask
<1>6. ASSUME Accept PROVE TypeOK'
  <2>1. out' \in Outcomes
    BY <1>6, GiveTypes DEF Accept
  <2> QED
    BY <1>6, <2>1 DEF Accept, Give
<1>7. ASSUME Reject PROVE TypeOK'
  BY <1>7 DEF Reject, Rejected, PrimaryFailed, SecondaryFailed, NextStage, Ask, Fault
<1>8. ASSUME AskRepair PROVE TypeOK'
  BY <1>8 DEF AskRepair, Repairable, Ask
<1>9. ASSUME RepairReturns PROVE TypeOK'
  <2>1. out' \in Outcomes
    BY <1>9, GiveTypes DEF RepairReturns
  <2> QED
    BY <1>9, <2>1 DEF RepairReturns, Give
<1>10. ASSUME RepairFails PROVE TypeOK'
  BY <1>10 DEF RepairFails, Rejected, PrimaryFailed, SecondaryFailed, NextStage, Fault
<1>11. ASSUME Skip PROVE TypeOK'
  BY <1>11 DEF Skip, AtEnd, NextStage
<1>12. ASSUME NEW hit \in BOOLEAN, LookUp(hit) PROVE TypeOK'
  <2>1. step \in 1..Len(cfg.order)
    BY <1>12 DEF LookUp, AtEnd
  <2>2. \/ /\ cfg.order[step] \in {"cache", "replay"}
           /\ out' = [kind |-> "value", from |-> cfg.order[step], conforms |-> FALSE, reason |-> "none"]
           /\ pc' = "returned"
           /\ step' = step
        \/ out' = out /\ pc' = "chain" /\ step' = step + 1
    BY <1>12 DEF LookUp, Give, NextStage
  <2>3. tried' = tried \union {step} /\ UNCHANGED <<attempt, err, raw, asked, faults>>
    BY <1>12 DEF LookUp, Give, NextStage
  <2>4. out' \in Outcomes
    BY <1>12, GiveTypes DEF LookUp, NextStage
  <2> QED
    BY <2>1, <2>2, <2>3, <2>4
<1>13. ASSUME CallSecondary PROVE TypeOK'
  BY <1>13 DEF CallSecondary, AtEnd, Ask
<1>14. ASSUME NEW ok \in BOOLEAN, SecondaryReturns(ok) PROVE TypeOK'
  <2>1. out' \in Outcomes
    BY <1>14, GiveTypes DEF SecondaryReturns
  <2> QED
    BY <1>14, <2>1 DEF SecondaryReturns, Give
<1>15. ASSUME NEW e \in {"error", "timeout"}, SecondaryRaises(e) PROVE TypeOK'
  BY <1>15 DEF SecondaryRaises, SecondaryFailed, NextStage, Fault
<1>16. ASSUME SecondaryAwaitable PROVE TypeOK'
  BY <1>16 DEF SecondaryAwaitable, NextStage
<1>17. ASSUME Degrade PROVE TypeOK'
  <2>1. out' = [kind |-> "degraded", from |-> "none", conforms |-> FALSE, reason |-> Reason]
    BY <1>17 DEF Degrade, Pending
  <2>2. Reason \in {"validation_repair_failed", "forced_degraded", "primary_timeout", "primary_failed"}
    BY DEF Reason
  <2>3. out' \in Outcomes
    BY <2>1, <2>2 DEF Outcomes
  <2> QED
    BY <1>17, <2>3 DEF Degrade
<1>18. CASE UNCHANGED vars
  BY <1>18 DEF vars
<1> QED
  BY <1>1, <1>2, <1>3, <1>4, <1>5, <1>6, <1>7, <1>8, <1>9, <1>10, <1>11, <1>12, <1>13, <1>14, <1>15, <1>16, <1>17, <1>18 DEF Next, Internal, Primary, Secondary, Repair

LEMMA NextAnswers == ASSUME CallInv, [Next]_vars PROVE AnswersKnown'
<1> USE ConfigKept DEF CallInv, TypeOK, AnswersKnown, PrimaryCourse, Judging, LegalConfig, Repairable
<1>1. ASSUME Begin PROVE AnswersKnown'
  BY <1>1 DEF Begin
<1>2. ASSUME Backoff PROVE AnswersKnown'
  BY <1>2 DEF Backoff
<1>3. ASSUME NEW ok \in BOOLEAN, PrimaryReturns(ok) PROVE AnswersKnown'
  BY <1>3 DEF PrimaryReturns, Ask
<1>4. ASSUME NEW e \in {"error", "timeout"}, PrimaryRaises(e) PROVE AnswersKnown'
  BY <1>4 DEF PrimaryRaises, PrimaryFailed, Ask, Fault
<1>5. ASSUME PrimaryAwaitable PROVE AnswersKnown'
  BY <1>5 DEF PrimaryAwaitable, Ask, Pending
<1>6. ASSUME Accept PROVE AnswersKnown'
  BY <1>6 DEF Accept, Give
<1>7. ASSUME Reject PROVE AnswersKnown'
  BY <1>7 DEF Reject, Rejected, PrimaryFailed, SecondaryFailed, NextStage, Ask, Fault
<1>8. ASSUME AskRepair PROVE AnswersKnown'
  BY <1>8 DEF AskRepair, Repairable, Ask
<1>9. ASSUME RepairReturns PROVE AnswersKnown'
  BY <1>9 DEF RepairReturns, Give
<1>10. ASSUME RepairFails PROVE AnswersKnown'
  BY <1>10 DEF RepairFails, Rejected, PrimaryFailed, SecondaryFailed, NextStage, Fault
<1>11. ASSUME Skip PROVE AnswersKnown'
  BY <1>11 DEF Skip, AtEnd, NextStage
<1>12. ASSUME NEW hit \in BOOLEAN, LookUp(hit) PROVE AnswersKnown'
  BY <1>12 DEF LookUp, AtEnd, Give, NextStage
<1>13. ASSUME CallSecondary PROVE AnswersKnown'
  BY <1>13 DEF CallSecondary, AtEnd, Ask
<1>14. ASSUME NEW ok \in BOOLEAN, SecondaryReturns(ok) PROVE AnswersKnown'
  BY <1>14 DEF SecondaryReturns, Give
<1>15. ASSUME NEW e \in {"error", "timeout"}, SecondaryRaises(e) PROVE AnswersKnown'
  BY <1>15 DEF SecondaryRaises, SecondaryFailed, NextStage, Fault
<1>16. ASSUME SecondaryAwaitable PROVE AnswersKnown'
  BY <1>16 DEF SecondaryAwaitable, NextStage
<1>17. ASSUME Degrade PROVE AnswersKnown'
  BY <1>17 DEF Degrade, AtEnd, Pending, Reason
<1>18. CASE UNCHANGED vars
  BY <1>18 DEF vars
<1> QED
  BY <1>1, <1>2, <1>3, <1>4, <1>5, <1>6, <1>7, <1>8, <1>9, <1>10, <1>11, <1>12, <1>13, <1>14, <1>15, <1>16, <1>17, <1>18 DEF Next, Internal, Primary, Secondary, Repair

LEMMA NextPrimary == ASSUME CallInv, [Next]_vars PROVE PrimaryCourse'
<1> USE ConfigKept DEF CallInv, TypeOK, LegalConfig, AnswersKnown, PrimaryCourse, Judging, Callables, Errors, PrimaryRejected
<1>1. ASSUME Begin PROVE PrimaryCourse'
  BY <1>1 DEF Begin
<1>2. ASSUME Backoff PROVE PrimaryCourse'
  BY <1>2 DEF Backoff
<1>3. ASSUME NEW ok \in BOOLEAN, PrimaryReturns(ok) PROVE PrimaryCourse'
  BY <1>3 DEF PrimaryReturns, Ask
<1>4. ASSUME NEW e \in {"error", "timeout"}, PrimaryRaises(e) PROVE PrimaryCourse'
  BY <1>4 DEF PrimaryRaises, PrimaryFailed, Ask, Fault
<1>5. ASSUME PrimaryAwaitable PROVE PrimaryCourse'
  BY <1>5 DEF PrimaryAwaitable, Ask, Pending
<1>6. ASSUME Accept PROVE PrimaryCourse'
  BY <1>6 DEF Accept, Give
<1>7. ASSUME Reject PROVE PrimaryCourse'
  BY <1>7 DEF Reject, Rejected, PrimaryFailed, SecondaryFailed, NextStage, Ask, Fault
<1>8. ASSUME AskRepair PROVE PrimaryCourse'
  BY <1>8 DEF AskRepair, Repairable, Ask
<1>9. ASSUME RepairReturns PROVE PrimaryCourse'
  BY <1>9 DEF RepairReturns, Give
<1>10. ASSUME RepairFails PROVE PrimaryCourse'
  BY <1>10 DEF RepairFails, Rejected, PrimaryFailed, SecondaryFailed, NextStage, Fault
<1>11. ASSUME Skip PROVE PrimaryCourse'
  BY <1>11 DEF Skip, AtEnd, NextStage
<1>12. ASSUME NEW hit \in BOOLEAN, LookUp(hit) PROVE PrimaryCourse'
  BY <1>12 DEF LookUp, AtEnd, Give, NextStage
<1>13. ASSUME CallSecondary PROVE PrimaryCourse'
  <2>1. ~cfg.forced
    BY <1>13 DEF CallSecondary, Usable
  <2> QED
    BY <1>13, <2>1 DEF CallSecondary, Ask
<1>14. ASSUME NEW ok \in BOOLEAN, SecondaryReturns(ok) PROVE PrimaryCourse'
  BY <1>14 DEF SecondaryReturns, Give
<1>15. ASSUME NEW e \in {"error", "timeout"}, SecondaryRaises(e) PROVE PrimaryCourse'
  BY <1>15 DEF SecondaryRaises, SecondaryFailed, NextStage, Fault
<1>16. ASSUME SecondaryAwaitable PROVE PrimaryCourse'
  BY <1>16 DEF SecondaryAwaitable, NextStage
<1>17. ASSUME Degrade PROVE PrimaryCourse'
  BY <1>17 DEF Degrade, AtEnd, Pending, Reason
<1>18. CASE UNCHANGED vars
  BY <1>18 DEF vars
<1> QED
  BY <1>1, <1>2, <1>3, <1>4, <1>5, <1>6, <1>7, <1>8, <1>9, <1>10, <1>11, <1>12, <1>13, <1>14, <1>15, <1>16, <1>17, <1>18 DEF Next, Internal, Primary, Secondary, Repair

\* The next stage of the chain: what was usable up to here has been consulted.
LEMMA ChainMovesOn ==
  ASSUME CallInv, [Next]_vars,
         step \in 1..Len(cfg.order), cfg.order[step] # "none",
         pc # "returned",
         step' = step + 1, pc' = "chain",
         tried' = UsableStages \cap (1..step)
  PROVE  ChainCourse'
<1>1. \A j \in 1..(step' - 1) : cfg.order[j] # "none"
  BY DEF CallInv, ChainCourse
<1>2. tried' = UsableStages \cap (1..(step' - 1))
  OBVIOUS
<1> QED
  BY <1>1, <1>2, ConfigKept DEF ChainCourse, Judging

\* A stage of the chain has a value for the caller.
LEMMA ChainAnswers ==
  ASSUME CallInv, [Next]_vars,
         step \in UsableStages, cfg.order[step] # "none",
         pc # "returned",
         step' = step, pc' = "returned", out'.kind = "value",
         tried' = UsableStages \cap (1..step)
  PROVE  ChainCourse'
<1>1. Answering' = step
  BY DEF Answering
<1>2. \A j \in 1..step : cfg.order[j] # "none"
  BY DEF CallInv, ChainCourse, TypeOK
<1>3. tried' \ {step} = {i \in UsableStages : i < step /\ \A j \in 1..i : cfg.order[j] # "none"}
  BY <1>2 DEF UsableStages
<1> QED
  BY <1>1, <1>3, ConfigKept DEF ChainCourse, Judging

\* A step of the primary stage: the chain has not begun.
LEMMA ChainNotBegun ==
  ASSUME CallInv, [Next]_vars,
         step = 1, tried = {}, UNCHANGED <<step, tried>>,
         pc' \notin {"secondary", "returned"}, ~Judging("secondary_provider")'
  PROVE  ChainCourse'
<1>1. 1..(step' - 1) = {}
  OBVIOUS
<1> QED
  BY <1>1, ConfigKept DEF ChainCourse

\* The answer under validation is given to the caller, or is rejected.
LEMMA ChainJudges ==
  ASSUME CallInv, [Next]_vars,
         pc \in {"judge", "repair"}, UNCHANGED <<raw, tried>>,
         (\E ok \in BOOLEAN : Give(raw.from, ok)) \/ Rejected
  PROVE  ChainCourse'
<1> USE DEF CallInv, TypeOK, AnswersKnown
<1>1. CASE raw.from = "primary" /\ \E ok \in BOOLEAN : Give(raw.from, ok)
  <2>1. pc' = "returned" /\ out'.from = "primary"
    BY <1>1 DEF Give
  <2> QED
    BY <2>1 DEF ChainCourse, Judging
<1>2. CASE raw.from = "primary" /\ Rejected
  <2>1. step = 1 /\ tried = {}
    BY <1>2 DEF PrimaryCourse, Judging
  <2>2. UNCHANGED step /\ pc' = "chain"
    BY <1>2 DEF Rejected, PrimaryFailed
  <2> QED
    BY <2>1, <2>2, ChainNotBegun DEF Judging
<1>3. CASE raw.from = "secondary_provider"
  <2>1. /\ step \in UsableStages
        /\ cfg.order[step] # "none"
        /\ tried' = UsableStages \cap (1..step)
    BY <1>3 DEF ChainCourse, Judging
  <2>2. step \in 1..Len(cfg.order)
    BY <2>1 DEF UsableStages
  <2>3. CASE \E ok \in BOOLEAN : Give(raw.from, ok)
    <3>1. pc' = "returned" /\ step' = step /\ out'.kind = "value"
      BY <2>3 DEF Give
    <3> QED
      BY <2>1, <3>1, ChainAnswers
  <2>4. CASE Rejected
    <3>1. step' = step + 1 /\ pc' = "chain"
      BY <1>3, <2>4 DEF Rejected, SecondaryFailed, NextStage
    <3> QED
      BY <2>1, <2>2, <3>1, ChainMovesOn
  <2> QED
    BY <2>3, <2>4
<1> QED
  BY <1>1, <1>2, <1>3

LEMMA NextChain == ASSUME CallInv, [Next]_vars PROVE ChainCourse'
<1> USE ConfigKept DEF CallInv, TypeOK
<1>1. ASSUME \/ Begin \/ Backoff
             \/ \E ok \in BOOLEAN : PrimaryReturns(ok)
             \/ \E e \in {"error", "timeout"} : PrimaryRaises(e)
      PROVE ChainCourse'
  <2>1. step = 1 /\ tried = {}
    BY <1>1 DEF Begin, Backoff, PrimaryReturns, PrimaryRaises, PrimaryCourse
  <2>2. UNCHANGED <<step, tried>> /\ pc' \notin {"secondary", "returned"}
    BY <1>1 DEF Begin, Backoff, PrimaryReturns, PrimaryRaises, PrimaryFailed
  <2>3. pc' \in {"judge", "repair"} => raw'.from = "primary"
    BY <1>1 DEF Begin, Backoff, PrimaryReturns, PrimaryRaises, PrimaryFailed
  <2> QED
    BY <2>1, <2>2, <2>3, ChainNotBegun DEF Judging
<1>2. ASSUME PrimaryAwaitable PROVE ChainCourse'
  <2>1. pc' = "returned" /\ out'.from = "primary"
    BY <1>2 DEF PrimaryAwaitable, Pending
  <2> QED
    BY <2>1 DEF ChainCourse, Judging
<1>3. ASSUME Accept \/ Reject \/ RepairReturns \/ RepairFails PROVE ChainCourse'
  BY <1>3, ChainJudges DEF Accept, Reject, RepairReturns, RepairFails
<1>4. ASSUME AskRepair PROVE ChainCourse'
  BY <1>4 DEF AskRepair, ChainCourse, Judging
<1>5. ASSUME Skip PROVE ChainCourse'
  <2>1. step \in 1..Len(cfg.order) /\ cfg.order[step] # "none" /\ step \notin UsableStages
    BY <1>5 DEF Skip, AtEnd, UsableStages
  <2>2. UsableStages \cap (1..(step - 1)) = UsableStages \cap (1..step)
    BY <2>1
  <2>3. pc = "chain" /\ tried' = tried /\ step' = step + 1 /\ pc' = "chain"
    BY <1>5 DEF Skip, NextStage
  <2> QED
    BY <2>1, <2>2, <2>3, ChainMovesOn DEF ChainCourse
<1>6. ASSUME NEW hit \in BOOLEAN, LookUp(hit) PROVE ChainCourse'
  <2>1. pc = "chain" /\ step \in UsableStages /\ cfg.order[step] # "none"
    BY <1>6 DEF LookUp, AtEnd, UsableStages
  <2>2. tried' = (UsableStages \cap (1..(step - 1))) \union {step}
    BY <1>6, <2>1 DEF LookUp, ChainCourse
  <2>3. tried' = UsableStages \cap (1..step)
    BY <2>1, <2>2 DEF UsableStages
  <2>4. \/ step' = step + 1 /\ pc' = "chain"
        \/ step' = step /\ pc' = "returned" /\ out'.kind = "value"
    BY <1>6 DEF LookUp, Give, NextStage
  <2>5. step \in 1..Len(cfg.order)
    BY <2>1 DEF UsableStages
  <2> QED
    BY <2>1, <2>3, <2>4, <2>5, ChainMovesOn, ChainAnswers
<1>7. ASSUME CallSecondary PROVE ChainCourse'
  <2>1. pc = "chain" /\ step \in UsableStages /\ cfg.order[step] = "secondary_provider"
    BY <1>7 DEF CallSecondary, AtEnd, UsableStages
  <2>2. tried' = (UsableStages \cap (1..(step - 1))) \union {step}
    BY <1>7, <2>1 DEF CallSecondary, ChainCourse
  <2>3. tried' = UsableStages \cap (1..step)
    BY <2>1, <2>2 DEF UsableStages
  <2>4. pc' = "secondary" /\ step' = step /\ out' = out
    BY <1>7 DEF CallSecondary
  <2> QED
    BY <2>1, <2>3, <2>4 DEF ChainCourse, Judging
<1>8. ASSUME \/ \E ok \in BOOLEAN : SecondaryReturns(ok)
             \/ \E e \in {"error", "timeout"} : SecondaryRaises(e)
             \/ SecondaryAwaitable
      PROVE ChainCourse'
  <2>1. /\ pc = "secondary" /\ tried' = tried
        /\ \/ step' = step + 1 /\ pc' = "chain"
           \/ step' = step /\ pc' = "returned" /\ out'.kind = "value"
           \/ step' = step /\ pc' = "judge" /\ raw'.from = "secondary_provider"
    BY <1>8 DEF SecondaryReturns, SecondaryRaises, SecondaryFailed, SecondaryAwaitable, Give, NextStage
  <2>2. /\ step \in UsableStages
        /\ cfg.order[step] = "secondary_provider"
        /\ tried' = UsableStages \cap (1..step)
    BY <2>1 DEF ChainCourse
  <2>3. step \in 1..Len(cfg.order)
    BY <2>2 DEF UsableStages
  <2>4. CASE step' = step /\ pc' = "judge" /\ raw'.from = "secondary_provider"
    BY <2>1, <2>2, <2>4 DEF ChainCourse, Judging
  <2> QED
    BY <2>1, <2>2, <2>3, <2>4, ChainMovesOn, ChainAnswers
<1>9. ASSUME Degrade PROVE ChainCourse'
  <2>1. /\ pc = "chain" /\ pc' = "returned" /\ out'.kind = "degraded"
        /\ tried' = UsableStages \cap (1..(step - 1))
    BY <1>9 DEF Degrade, Pending, ChainCourse
  <2>2. Answering' = Len(cfg.order) + 1
    BY <2>1 DEF Answering
  <2>3. /\ \A j \in 1..(step - 1) : cfg.order[j] # "none"
        /\ step > Len(cfg.order) \/ cfg.order[step] = "none"
    BY <1>9 DEF Degrade, AtEnd, ChainCourse
  <2>4. Len(cfg.order) \in Nat
    BY DEF LegalConfig
  <2>5. \A i \in UsableStages : i \in 1..(step - 1) <=> \A j \in 1..i : cfg.order[j] # "none"
    BY <2>3, <2>4 DEF UsableStages
  <2>6. tried' \ {Len(cfg.order) + 1} =
          {i \in UsableStages : i < Len(cfg.order) + 1 /\ \A j \in 1..i : cfg.order[j] # "none"}
    BY <2>1, <2>4, <2>5 DEF UsableStages
  <2> QED
    BY <2>1, <2>2, <2>6 DEF ChainCourse, Judging
<1>10. CASE UNCHANGED vars
  BY <1>10 DEF vars, ChainCourse, Judging, Answering
<1> QED
  BY <1>1, <1>2, <1>3, <1>4, <1>5, <1>6, <1>7, <1>8, <1>9, <1>10
  DEF Next, Internal, Primary, Secondary, Repair
LEMMA NextError == ASSUME CallInv, [Next]_vars PROVE ErrorCourse'
<1> USE ConfigKept DEF CallInv, TypeOK, AnswersKnown, PrimaryCourse, ErrorCourse, Judging, Errors, PrimaryRejected
<1>1. ASSUME Begin PROVE ErrorCourse'
  BY <1>1 DEF Begin
<1>2. ASSUME Backoff PROVE ErrorCourse'
  BY <1>2 DEF Backoff
<1>3. ASSUME NEW ok \in BOOLEAN, PrimaryReturns(ok) PROVE ErrorCourse'
  BY <1>3 DEF PrimaryReturns, Ask
<1>4. ASSUME NEW e \in {"error", "timeout"}, PrimaryRaises(e) PROVE ErrorCourse'
  BY <1>4 DEF PrimaryRaises, PrimaryFailed, Ask, Fault
<1>5. ASSUME PrimaryAwaitable PROVE ErrorCourse'
  BY <1>5 DEF PrimaryAwaitable, Ask, Pending
<1>6. ASSUME Accept PROVE ErrorCourse'
  BY <1>6 DEF Accept, Give
<1>7. ASSUME Reject PROVE ErrorCourse'
  BY <1>7 DEF Reject, Rejected, PrimaryFailed, SecondaryFailed, NextStage, Ask, Fault
<1>8. ASSUME AskRepair PROVE ErrorCourse'
  BY <1>8 DEF AskRepair, Repairable, Ask
<1>9. ASSUME RepairReturns PROVE ErrorCourse'
  BY <1>9 DEF RepairReturns, Give
<1>10. ASSUME RepairFails PROVE ErrorCourse'
  BY <1>10 DEF RepairFails, Rejected, PrimaryFailed, SecondaryFailed, NextStage, Fault
<1>11. ASSUME Skip PROVE ErrorCourse'
  BY <1>11 DEF Skip, AtEnd, NextStage
<1>12. ASSUME NEW hit \in BOOLEAN, LookUp(hit) PROVE ErrorCourse'
  BY <1>12 DEF LookUp, AtEnd, Give, NextStage
<1>13. ASSUME CallSecondary PROVE ErrorCourse'
  BY <1>13 DEF CallSecondary, AtEnd, Ask
<1>14. ASSUME NEW ok \in BOOLEAN, SecondaryReturns(ok) PROVE ErrorCourse'
  BY <1>14 DEF SecondaryReturns, Give
<1>15. ASSUME NEW e \in {"error", "timeout"}, SecondaryRaises(e) PROVE ErrorCourse'
  BY <1>15 DEF SecondaryRaises, SecondaryFailed, NextStage, Fault
<1>16. ASSUME SecondaryAwaitable PROVE ErrorCourse'
  BY <1>16 DEF SecondaryAwaitable, NextStage
<1>17. ASSUME Degrade PROVE ErrorCourse'
  BY <1>17 DEF Degrade, AtEnd, Pending, Reason
<1>18. CASE UNCHANGED vars
  BY <1>18 DEF vars
<1> QED
  BY <1>1, <1>2, <1>3, <1>4, <1>5, <1>6, <1>7, <1>8, <1>9, <1>10, <1>11, <1>12, <1>13, <1>14, <1>15, <1>16, <1>17, <1>18 DEF Next, Internal, Primary, Secondary, Repair

LEMMA NextOutcome == ASSUME CallInv, [Next]_vars PROVE OutcomeHonest'
<1> USE ConfigKept DEF CallInv, TypeOK, AnswersKnown, PrimaryCourse, ErrorCourse, OutcomeHonest, Judging, Errors, PrimaryRejected
<1>1. ASSUME Begin PROVE OutcomeHonest'
  BY <1>1 DEF Begin
<1>2. ASSUME Backoff PROVE OutcomeHonest'
  BY <1>2 DEF Backoff
<1>3. ASSUME NEW ok \in BOOLEAN, PrimaryReturns(ok) PROVE OutcomeHonest'
  BY <1>3 DEF PrimaryReturns, Ask
<1>4. ASSUME NEW e \in {"error", "timeout"}, PrimaryRaises(e) PROVE OutcomeHonest'
  BY <1>4 DEF PrimaryRaises, PrimaryFailed, Ask, Fault
<1>5. ASSUME PrimaryAwaitable PROVE OutcomeHonest'
  BY <1>5 DEF PrimaryAwaitable, Ask, Pending
<1>6. ASSUME Accept PROVE OutcomeHonest'
  BY <1>6 DEF Accept, Give
<1>7. ASSUME Reject PROVE OutcomeHonest'
  BY <1>7 DEF Reject, Rejected, PrimaryFailed, SecondaryFailed, NextStage, Ask, Fault
<1>8. ASSUME AskRepair PROVE OutcomeHonest'
  BY <1>8 DEF AskRepair, Repairable, Ask
<1>9. ASSUME RepairReturns PROVE OutcomeHonest'
  BY <1>9 DEF RepairReturns, Give
<1>10. ASSUME RepairFails PROVE OutcomeHonest'
  BY <1>10 DEF RepairFails, Rejected, PrimaryFailed, SecondaryFailed, NextStage, Fault
<1>11. ASSUME Skip PROVE OutcomeHonest'
  BY <1>11 DEF Skip, AtEnd, NextStage
<1>12. ASSUME NEW hit \in BOOLEAN, LookUp(hit) PROVE OutcomeHonest'
  BY <1>12 DEF LookUp, AtEnd, Give, NextStage
<1>13. ASSUME CallSecondary PROVE OutcomeHonest'
  BY <1>13 DEF CallSecondary, AtEnd, Ask
<1>14. ASSUME NEW ok \in BOOLEAN, SecondaryReturns(ok) PROVE OutcomeHonest'
  BY <1>14 DEF SecondaryReturns, Give
<1>15. ASSUME NEW e \in {"error", "timeout"}, SecondaryRaises(e) PROVE OutcomeHonest'
  BY <1>15 DEF SecondaryRaises, SecondaryFailed, NextStage, Fault
<1>16. ASSUME SecondaryAwaitable PROVE OutcomeHonest'
  BY <1>16 DEF SecondaryAwaitable, NextStage
<1>17. ASSUME Degrade PROVE OutcomeHonest'
  BY <1>17 DEF Degrade, AtEnd, Pending, Reason
<1>18. CASE UNCHANGED vars
  BY <1>18 DEF vars
<1> QED
  BY <1>1, <1>2, <1>3, <1>4, <1>5, <1>6, <1>7, <1>8, <1>9, <1>10, <1>11, <1>12, <1>13, <1>14, <1>15, <1>16, <1>17, <1>18 DEF Next, Internal, Primary, Secondary, Repair

LEMMA CallInductive == Spec => []CallInv
<1>1. CallInv /\ [Next]_vars => CallInv'
  BY NextTypes, NextAnswers, NextPrimary, NextChain, NextError, NextOutcome DEF CallInv
<1> QED
  BY <1>1, InitCall, PTL DEF Spec

\* RES-02, RES-03: the primary callable is asked as often as its retries allow
\* and given up only then or after a failed repair; whatever answers in the
\* end, every usable stage of the chain before it was consulted, in order, and
\* none behind a "none".
THEOREM StagesAreInOrder == Spec => []StagesInOrder
<1>1. CallInv => StagesInOrder
  <2> SUFFICES ASSUME CallInv PROVE StagesInOrder
    OBVIOUS
  <2>1. {i \in UsableStages : i < Answering /\ \A j \in 1..i : cfg.order[j] # "none"} =
          {i \in 1..Len(cfg.order) :
             /\ i < Answering
             /\ \A j \in 1..i : cfg.order[j] # "none"
             /\ Usable(cfg.order[i])}
    BY DEF UsableStages
  <2> QED
    BY <2>1 DEF CallInv, PrimaryCourse, ChainCourse, StagesInOrder
<1> QED
  BY <1>1, CallInductive, PTL

\* What the caller gets is true of the call: the reason of a degraded result is
\* an error that happened, the kill switch exactly when it is on; and a value of
\* a provider that went through an async validation conforms.
THEOREM OutcomeIsHonest == Spec => []OutcomeHonest
<1>1. CallInv => OutcomeHonest
  BY DEF CallInv
<1> QED
  BY <1>1, CallInductive, PTL

\* Once an answer of the primary callable was rejected after its repair, no
\* step asks the primary callable again.
THEOREM RejectionEndsPrimary == Spec => NoRetryAfterRejection
<1>1. CallInv /\ [Next]_vars => [PrimaryRejected => asked'["primary"] = asked["primary"]]_vars
  <2> SUFFICES ASSUME CallInv, [Next]_vars, PrimaryRejected
               PROVE  asked'["primary"] = asked["primary"]
    OBVIOUS
  <2>1. pc # "primary"
    BY DEF CallInv, PrimaryCourse
  <2>2. \/ UNCHANGED asked
        \/ \E x \in {"secondary", "repair"} : Ask(x)
    BY <2>1 DEF Next, Internal, Primary, Secondary, Repair, vars, Begin, Backoff, PrimaryReturns,
       PrimaryRaises, PrimaryAwaitable, Accept, Reject, AskRepair, RepairReturns, RepairFails, Skip,
       LookUp, CallSecondary, SecondaryReturns, SecondaryRaises, SecondaryAwaitable, Degrade
  <2> QED
    BY <2>2 DEF Ask, CallInv, TypeOK, Callables
<1> QED
  BY <1>1, CallInductive, PTL DEF Spec, NoRetryAfterRejection

-----------------------------------------------------------------------------
(* The configuration *)

\* What a source can say of a field: nothing, something malformed, or a value
\* of the field's type, which need not be in its range.
Cells(S) == {Unset, Bad} \union {Good(x) : x \in S}

\* A chain may leave out any of its fields, and its order may name any string.
ChainFields == {"order", "secondary", "cache", "replay"}
ChainCells(Strings, f) == Cells(IF f = "order" THEN Seq(Strings) ELSE BOOLEAN)
ChainSources(Strings) ==
  {c \in UNION {[D -> UNION {ChainCells(Strings, f) : f \in ChainFields}] : D \in SUBSET ChainFields} :
     \A f \in DOMAIN c : c[f] \in ChainCells(Strings, f)}

Sources(Strings) ==
  [retries : Cells(Int), chain : Cells(ChainSources(Strings)),
   strategy : Cells({"auto", "explicit"}), key : Cells(Strings), forced : Cells(BOOLEAN)]

\* The environment; RES_FORCED_DEGRADED is good when it says "1".
Environments == [retries : Cells(Int), forced : Cells({TRUE})]

\* A cell yields a value of its type or the default.
LEMMA PickType ==
  ASSUME NEW S, NEW cell \in Cells(S), NEW default \in S
  PROVE  Pick(cell, default) \in S
  BY DEF Cells, Pick, Unset, Bad, Good

LEMMA CheckedRetriesType ==
  ASSUME NEW cell \in Cells(Int)
  PROVE  CheckedRetries(cell) \in Cells(0..RetriesMax)
  BY DEF Cells, CheckedRetries, Unset, Bad, Good

LEMMA CheckedOrderType ==
  ASSUME NEW Strings, NEW cell \in Cells(Seq(Strings))
  PROVE  CheckedOrder(cell) \in Cells(Seq(Steps))
<1>1. CASE cell \in {Unset, Bad}
  BY <1>1 DEF Cells, CheckedOrder, Unset, Bad, Good
<1>2. ASSUME NEW o \in Seq(Strings), cell = Good(o)
      PROVE  CheckedOrder(cell) \in Cells(Seq(Steps))
  <2>1. cell.is = "good" /\ cell.v = o
    BY <1>2 DEF Good
  <2>2. CASE \A i \in DOMAIN o : o[i] \in Steps
    <3>1. o \in Seq(Steps)
      BY <2>2
    <3> QED
      BY <1>2, <2>1, <2>2, <3>1 DEF CheckedOrder, Cells
  <2>3. CASE ~(\A i \in DOMAIN o : o[i] \in Steps)
    BY <2>1, <2>3 DEF CheckedOrder, Cells
  <2> QED
    BY <2>2, <2>3
<1> QED
  BY <1>1, <1>2 DEF Cells

\* What a source says of the chain, and what becomes of one of its fields.
ChainOf(s) == IF s.chain.is = "good" THEN s.chain.v ELSE [f \in {} |-> Unset]
ChainValue(c, f) ==
  IF f \notin DOMAIN c THEN HardChain[f]
  ELSE Pick(IF f = "order" THEN CheckedOrder(c[f]) ELSE c[f], HardChain[f])

LEMMA HardChainType ==
  /\ DOMAIN HardChain = ChainFields
  /\ HardChain["order"] \in Seq(Steps)
  /\ \A f \in ChainFields \ {"order"} : HardChain[f] \in BOOLEAN
<1>1. <<"cache", "replay", "none">> \in Seq(Steps)
  BY DEF Steps
<1>2. HardChain["order"] = <<"cache", "replay", "none">>
  BY DEF HardChain
<1>3. DOMAIN HardChain = ChainFields
  BY DEF HardChain, ChainFields
<1>4. HardChain["secondary"] = FALSE /\ HardChain["cache"] = TRUE /\ HardChain["replay"] = TRUE
  BY DEF HardChain
<1>5. \A f \in ChainFields \ {"order"} : HardChain[f] \in BOOLEAN
  BY <1>4 DEF ChainFields
<1> QED
  BY <1>1, <1>2, <1>3, <1>5

\* The chain of a source, given or not, has legal cells only.
LEMMA ChainOfType ==
  ASSUME NEW Strings, NEW s \in Sources(Strings), NEW f \in DOMAIN ChainOf(s)
  PROVE  ChainOf(s)[f] \in ChainCells(Strings, f)
<1>1. s.chain \in Cells(ChainSources(Strings))
  BY DEF Sources
<1>2. CASE s.chain \in {Unset, Bad}
  BY <1>2 DEF ChainOf, Unset, Bad
<1>3. ASSUME NEW x \in ChainSources(Strings), s.chain = Good(x)
      PROVE  ChainOf(s)[f] \in ChainCells(Strings, f)
  <2>1. ChainOf(s) = x
    BY <1>3 DEF ChainOf, Good
  <2> QED
    BY <2>1 DEF ChainSources
<1> QED
  BY <1>1, <1>2, <1>3 DEF Cells

LEMMA ChainValueType ==
  ASSUME NEW Strings, NEW s \in Sources(Strings), NEW f \in ChainFields
  PROVE  /\ f = "order" => ChainValue(ChainOf(s), f) \in Seq(Steps)
         /\ f # "order" => ChainValue(ChainOf(s), f) \in BOOLEAN
<1> DEFINE c == ChainOf(s)
<1>1. \A g \in DOMAIN c : c[g] \in ChainCells(Strings, g)
  BY ChainOfType
<1> HIDE DEF c
<1>2. ASSUME f = "order" PROVE ChainValue(c, f) \in Seq(Steps)
  <2>1. CASE f \notin DOMAIN c
    BY <1>2, <2>1, HardChainType DEF ChainValue
  <2>2. CASE f \in DOMAIN c
    <3>1. CheckedOrder(c[f]) \in Cells(Seq(Steps))
      BY <1>1, <1>2, <2>2, CheckedOrderType DEF ChainCells
    <3>2. Pick(CheckedOrder(c[f]), HardChain[f]) \in Seq(Steps)
      BY <1>2, <3>1, HardChainType, PickType
    <3> QED
      BY <1>2, <2>2, <3>2 DEF ChainValue
  <2> QED
    BY <2>1, <2>2
<1>3. ASSUME f # "order" PROVE ChainValue(c, f) \in BOOLEAN
  <2>1. HardChain[f] \in BOOLEAN
    BY <1>3, HardChainType
  <2>2. CASE f \notin DOMAIN c
    BY <2>1, <2>2 DEF ChainValue
  <2>3. CASE f \in DOMAIN c
    <3>1. c[f] \in Cells(BOOLEAN)
      BY <1>1, <1>3, <2>3 DEF ChainCells
    <3>2. Pick(c[f], HardChain[f]) \in BOOLEAN
      BY <2>1, <3>1, PickType
    <3> QED
      BY <1>3, <2>3, <3>2 DEF ChainValue
  <2> QED
    BY <2>2, <2>3
<1> QED
  BY <1>2, <1>3 DEF c

ChainsResolved == [order : Seq(Steps), secondary : BOOLEAN, cache : BOOLEAN, replay : BOOLEAN]

LEMMA HardRetriesInRange == HardRetries \in 0..RetriesMax /\ 0..RetriesMax \subseteq Nat
  BY DEF HardRetries, RetriesMax

LEMMA EffectiveRecord ==
  ASSUME NEW Strings, NEW retries \in 0..RetriesMax, NEW chain \in ChainsResolved,
         NEW strategy \in {"auto", "explicit"}, NEW key \in Strings, NEW forced \in BOOLEAN
  PROVE  [retries |-> retries, chain |-> chain, strategy |-> strategy, key |-> key, forced |-> forced]
           \in EffectiveConfigs(Strings)
  BY DEF EffectiveConfigs, ChainsResolved

\* A function on the fields of a chain is a record.
LEMMA ChainRecord ==
  ASSUME NEW c, DOMAIN c = ChainFields, c = [f \in DOMAIN c |-> c[f]]
  PROVE  c = [order |-> c["order"], secondary |-> c["secondary"],
              cache |-> c["cache"], replay |-> c["replay"]]
  BY DEF ChainFields

LEMMA NormalizeType ==
  ASSUME NEW Strings, "" \in Strings, NEW s \in Sources(Strings)
  PROVE  Normalize(s) \in EffectiveConfigs(Strings)
<1> DEFINE chain == [f \in DOMAIN HardChain |-> ChainValue(ChainOf(s), f)]
           key == Pick(s.key, "")
           strategy == Pick(s.strategy, "auto")
           used == IF strategy = "explicit" /\ key = "" THEN "auto" ELSE strategy
           retries == Pick(CheckedRetries(s.retries), HardRetries)
           forced == Pick(s.forced, FALSE)
<1>1. Normalize(s) = [retries |-> retries, chain |-> chain, strategy |-> used, key |-> key, forced |-> forced]
  BY DEF Normalize, ChainValue, ChainOf
<1>2. retries \in 0..RetriesMax
  <2>1. CheckedRetries(s.retries) \in Cells(0..RetriesMax)
    BY CheckedRetriesType DEF Sources
  <2> QED
    BY <2>1, HardRetriesInRange, PickType
<1>3. key \in Strings
  BY PickType DEF Sources
<1>4. used \in {"auto", "explicit"}
  BY PickType DEF Sources
<1>5. forced \in BOOLEAN
  <2>1. s.forced \in Cells(BOOLEAN)
    BY DEF Sources
  <2> QED
    BY <2>1, PickType
<1>6. chain \in ChainsResolved
  <2>1. chain = [f \in ChainFields |-> ChainValue(ChainOf(s), f)]
    BY HardChainType
  <2>2. chain["order"] \in Seq(Steps) /\ \A f \in ChainFields \ {"order"} : chain[f] \in BOOLEAN
    BY <2>1, ChainValueType DEF ChainFields
  <2>3. chain = [order |-> chain["order"], secondary |-> chain["secondary"],
                 cache |-> chain["cache"], replay |-> chain["replay"]]
    BY <2>1, ChainRecord
  <2> HIDE DEF chain
  <2> QED
    BY <2>2, <2>3 DEF ChainsResolved, ChainFields
<1> HIDE DEF chain, key, used, retries, forced
<1> QED
  BY <1>1, <1>2, <1>3, <1>4, <1>5, <1>6, EffectiveRecord

LEMMA AsSourceType ==
  ASSUME NEW Strings, Steps \subseteq Strings, NEW eff \in EffectiveConfigs(Strings)
  PROVE  AsSource(eff) \in Sources(Strings)
<1> DEFINE chain == [g \in DOMAIN eff.chain |-> Good(eff.chain[g])]
<1>1. AsSource(eff) = [retries |-> Good(eff.retries), chain |-> Good(chain), strategy |-> Good(eff.strategy),
                       key |-> Good(eff.key), forced |-> Good(eff.forced)]
  BY DEF AsSource, EffectiveConfigs
<1>2. chain \in ChainSources(Strings)
  <2>1. /\ DOMAIN eff.chain = ChainFields
        /\ eff.chain["order"] \in Seq(Steps)
        /\ \A g \in ChainFields \ {"order"} : eff.chain[g] \in BOOLEAN
    BY DEF EffectiveConfigs, ChainFields
  <2>2. eff.chain["order"] \in Seq(Strings)
    BY <2>1
  <2>3. \A g \in ChainFields : Good(eff.chain[g]) \in ChainCells(Strings, g)
    BY <2>1, <2>2 DEF ChainCells, Cells
  <2>4. \A g \in ChainFields : chain[g] \in ChainCells(Strings, g)
    BY <2>1, <2>3
  <2>5. chain \in [ChainFields -> UNION {ChainCells(Strings, f) : f \in ChainFields}]
    BY <2>1, <2>4
  <2> QED
    BY <2>4, <2>5 DEF ChainSources
<1>3. /\ eff.retries \in Int /\ eff.strategy \in {"auto", "explicit"}
      /\ eff.key \in Strings /\ eff.forced \in BOOLEAN
  BY DEF EffectiveConfigs, RetriesMax
<1> HIDE DEF chain
<1>4. /\ Good(eff.retries) \in Cells(Int) /\ Good(chain) \in Cells(ChainSources(Strings))
      /\ Good(eff.strategy) \in Cells({"auto", "explicit"}) /\ Good(eff.key) \in Cells(Strings)
  BY <1>2, <1>3 DEF Cells
<1>5. Good(eff.forced) \in Cells(BOOLEAN)
  BY <1>3 DEF Cells
<1> QED
  BY <1>1, <1>4, <1>5 DEF Sources

LEMMA MergeType ==
  ASSUME NEW Strings, NEW globals \in Sources(Strings), NEW call \in Sources(Strings)
  PROVE  Merge(globals, call) \in Sources(Strings)
  BY DEF Merge, Sources

LEMMA OverrideType ==
  ASSUME NEW Strings, NEW eff \in EffectiveConfigs(Strings), NEW env \in Environments
  PROVE  /\ Override(eff, env) \in EffectiveConfigs(Strings)
         /\ env.forced.is = "good" => Override(eff, env).forced = TRUE
<1> DEFINE retries == Pick(CheckedRetries(env.retries), eff.retries)
           forced == eff.forced \/ env.forced.is = "good"
<1>1. retries \in 0..RetriesMax
  BY CheckedRetriesType, PickType DEF Environments, EffectiveConfigs
<1>2. forced \in BOOLEAN /\ (env.forced.is = "good" => forced = TRUE)
  OBVIOUS
<1>3. /\ eff = [retries |-> eff.retries, chain |-> eff.chain, strategy |-> eff.strategy,
                key |-> eff.key, forced |-> eff.forced]
      /\ eff.chain \in ChainsResolved /\ eff.strategy \in {"auto", "explicit"} /\ eff.key \in Strings
  BY DEF EffectiveConfigs, ChainsResolved
<1>4. Override(eff, env) = [[eff EXCEPT !.forced = forced] EXCEPT !.retries = retries]
  BY <1>3 DEF Override
<1> HIDE DEF retries, forced
<1>5. Override(eff, env) = [retries |-> retries, chain |-> eff.chain, strategy |-> eff.strategy,
                            key |-> eff.key, forced |-> forced]
  BY <1>3, <1>4
<1> QED
  BY <1>1, <1>2, <1>3, <1>5 DEF EffectiveConfigs, ChainsResolved

\* Resolution is total: whatever a file, a call and the environment say of any
\* field, well or malformed or nothing, an effective configuration comes out
\* with every field of its type and in its range; no malformed value passes.
THEOREM ResolutionIsTotal ==
  ASSUME NEW Strings, Steps \union {""} \subseteq Strings,
         NEW file \in Sources(Strings), NEW call \in Sources(Strings), NEW env \in Environments
  PROVE  Resolve(file, call, env) \in EffectiveConfigs(Strings)
<1>1. Merge(AsSource(Normalize(file)), call) \in Sources(Strings)
  BY NormalizeType, AsSourceType, MergeType
<1> QED
  BY <1>1, NormalizeType, OverrideType DEF Resolve

-----------------------------------------------------------------------------
(* The kill switch *)

Dependencies == [secondary : BOOLEAN, cacheKey : {"none", "hash", "name"}, keyInput : BOOLEAN]
Variants == {"async", "sync", "sync_ts"}
Hooks == {"none", "strict", "repair", "repair_async"}

\* A wrapper as withResilience makes it: from a file, a call and an environment.
Made(Strings, c) ==
  \E file, call \in Sources(Strings), env \in Environments, deps \in Dependencies,
     variant \in Variants, hook \in Hooks :
    c = Wrapper(Resolve(file, call, env), env, deps, variant, hook)

\* What a wrapper is made into is legal, and the kill switch reaches it.
LEMMA MadeIsLegal ==
  ASSUME NEW Strings, Steps \union {""} \subseteq Strings, NEW c, Made(Strings, c)
  PROVE  LegalConfig(c) /\ (c.killed => c.forced)
<1>1. PICK file \in Sources(Strings), call \in Sources(Strings), env \in Environments,
           deps \in Dependencies, variant \in Variants, hook \in Hooks :
        c = Wrapper(Resolve(file, call, env), env, deps, variant, hook)
  BY DEF Made
<1>2. PICK eff \in EffectiveConfigs(Strings) :
        /\ eff = Resolve(file, call, env)
        /\ env.forced.is = "good" => eff.forced
  <2>1. PICK merged \in Sources(Strings) : merged = Merge(AsSource(Normalize(file)), call)
    BY NormalizeType, AsSourceType, MergeType
  <2>2. Normalize(merged) \in EffectiveConfigs(Strings)
    BY NormalizeType
  <2>3. Resolve(file, call, env) = Override(Normalize(merged), env)
    BY <2>1 DEF Resolve
  <2> QED
    BY <2>2, <2>3, OverrideType
<1>3. BaseKey(eff, deps) \in {"none", "hash", "name"}
  BY DEF BaseKey, Dependencies
<1>4. /\ c.variant = variant /\ c.hook = hook /\ c.retries = eff.retries /\ c.forced = eff.forced
      /\ c.order = eff.chain.order /\ c.secondary = deps.secondary /\ c.key = BaseKey(eff, deps)
      /\ c.killed = (env.forced.is = "good") /\ c.enabled \subseteq Steps
  BY <1>1, <1>2 DEF Wrapper
<1>5. eff.retries \in Nat /\ eff.forced \in BOOLEAN /\ eff.chain.order \in Seq(Steps)
  <2>1. eff.retries \in 0..RetriesMax /\ eff.forced \in BOOLEAN /\ eff.chain.order \in Seq(Steps)
    BY DEF EffectiveConfigs
  <2>2. 0..RetriesMax \subseteq Nat
    BY HardRetriesInRange
  <2> QED
    BY <2>1, <2>2
<1>6. variant \in Variants /\ hook \in Hooks /\ deps.secondary \in BOOLEAN
  BY DEF Dependencies
<1>7. c.killed \in BOOLEAN /\ (c.killed => c.forced)
  BY <1>2, <1>4
<1> QED
  BY <1>3, <1>4, <1>5, <1>6, <1>7 DEF LegalConfig, Variants, Hooks

\* RES-07: whatever defaults.json and the call's configuration say, well or
\* malformed, RES_FORCED_DEGRADED=1 keeps every provider out of every stage and
\* is the reason a degraded result gives.
THEOREM KillSwitchReachesEveryStage ==
  ASSUME NEW Strings, Steps \union {""} \subseteq Strings, \A c \in Configs : Made(Strings, c)
  PROVE  Spec => []KillSwitchHolds
<1>1. CallInv => KillSwitchHolds
  <2> SUFFICES ASSUME CallInv, cfg.killed
               PROVE  /\ \A x \in DOMAIN asked : asked[x] = 0
                      /\ out.kind = "degraded" => out.reason = "forced_degraded"
    BY DEF KillSwitchHolds
  <2>1. cfg.forced
    BY MadeIsLegal DEF CallInv, TypeOK
  <2>2. DOMAIN asked = Callables
    BY DEF CallInv, TypeOK
  <2>3. \A x \in Callables : asked[x] = 0
    BY <2>1 DEF CallInv, PrimaryCourse
  <2>4. out.kind = "degraded" => out.reason = "forced_degraded"
    BY <2>1 DEF CallInv, OutcomeHonest
  <2> QED
    BY <2>2, <2>3, <2>4
<1> QED
  BY <1>1, CallInductive, PTL
=============================================================================
