----------------------- MODULE AuditedDecisionProofs -----------------------
(* Theorems about AuditedDecision, for every value of its constants.       *)
EXTENDS AuditedDecision, SequenceTheorems, TLAPS

-----------------------------------------------------------------------------
(* Type correctness.                                                       *)

LEMMA RowOfType ==
    ASSUME TypeOK, NEW j \in Jobs
    PROVE  RowOf(j) \in Row
BY DEF TypeOK, RowOf, Row, Job

LEMMA ReturnType ==
    ASSUME TypeOK, NEW j \in Jobs, NEW d \in Decisions, NEW b \in BOOLEAN, Return(j, d, b)
    PROVE  mutex' \in Jobs \cup {NoOne} /\ job' \in [Jobs -> Job]
<1> DEFINE r == [job[j] EXCEPT !.step = "returned", !.decision = d, !.credential = b]
<1>1. job \in [Jobs -> Job] /\ job[j] \in Job
  BY DEF TypeOK
<1>2. r \in Job
  BY <1>1 DEF Job, Steps
<1>3. job' = [job EXCEPT ![j] = r] /\ mutex' = NoOne
  BY DEF Return
<1> HIDE DEF r
<1>4. QED
  BY <1>1, <1>2, <1>3

\* Every reachable state is well typed.
THEOREM TypeCorrect == Spec => []TypeOK
<1> USE AuditAssumption
<1>1. Init => TypeOK
  BY DEF Init, TypeOK, Fresh, Told, Job, Answer, Steps, Decisions, Row
<1>2. ASSUME TypeOK, [Next]_vars PROVE TypeOK'
  <2> USE <1>2
  <2>0. Checks \subseteq Jobs /\ Mutations \subseteq Jobs
    BY DEF Jobs
  <2>a. ASSUME NEW j \in Jobs PROVE job[j] \in Job
    BY DEF TypeOK
  <2>b. ASSUME NEW j \in Jobs, NEW r \in Job, job' = [job EXCEPT ![j] = r]
        PROVE  job' \in [Jobs -> Job]
    BY <2>b DEF TypeOK
  <2>1. CASE UNCHANGED vars
    BY <2>1 DEF vars, TypeOK
  <2>2. ASSUME NEW c \in Checks, Arrive(c) PROVE TypeOK'
    <3> DEFINE r == IF c \in Unadaptable
                    THEN [job[c] EXCEPT !.step = "issue", !.decision = "deny"]
                    ELSE [job[c] EXCEPT !.step = "evaluate"]
    <3>1. r \in Job
      BY <2>0, <2>a DEF Job, Steps, Decisions
    <3>2. job' = [job EXCEPT ![c] = r]
      BY <2>2 DEF Arrive
    <3>3. job' \in [Jobs -> Job]
      BY <2>0, <2>b, <3>1, <3>2
    <3>4. answer' \in [Checks -> Answer]
      BY <2>2 DEF Arrive, TypeOK, Told, Answer
    <3>5. QED
      BY <2>2, <3>3, <3>4 DEF Arrive, TypeOK
  <2>3. ASSUME NEW c \in Checks, Evaluate(c) PROVE TypeOK'
    <3> DEFINE denied == [job[c] EXCEPT !.step = "issue", !.decision = "deny"]
               decided(d) == [job[c] EXCEPT !.step = "provenance", !.decision = d,
                                            !.evaluated = engine, !.version = engine]
    <3>1. denied \in Job
      BY <2>0, <2>a DEF Job, Steps, Decisions
    <3>2. ASSUME NEW d \in {"allow", "deny"} PROVE decided(d) \in Job
      <4>1. engine \in Versions \cup {NoVersion} /\ job[c] \in Job
        BY <2>0, <2>a DEF TypeOK
      <4>2. QED
        BY <4>1 DEF Job, Steps, Decisions
    <3>3. \/ job' = [job EXCEPT ![c] = denied]
          \/ \E d \in {"allow", "deny"} : job' = [job EXCEPT ![c] = decided(d)]
      BY <2>3 DEF Evaluate
    <3> HIDE DEF denied, decided
    <3>4. job' \in [Jobs -> Job]
      BY <2>0, <2>b, <3>1, <3>2, <3>3
    <3>5. QED
      BY <2>3, <3>4 DEF Evaluate, TypeOK
  <2>4. ASSUME NEW c \in Checks, Provenance(c) PROVE TypeOK'
    <3> DEFINE r(v) == [job[c] EXCEPT !.version = v, !.step = "issue"]
    <3>1. ASSUME NEW v \in Versions \cup {NoVersion}
          PROVE  r(v) \in Job
      BY <2>0, <2>a DEF Job, Steps
    <3>2. engine \in Versions \cup {NoVersion} /\ job[c].version \in Versions \cup {NoVersion}
      BY <2>0, <2>a DEF TypeOK, Job
    <3>3. job' = [job EXCEPT ![c] =
                    r(IF engine # NoVersion THEN engine ELSE job[c].version)]
      BY <2>4 DEF Provenance
    <3> HIDE DEF r
    <3>4. job' \in [Jobs -> Job]
      BY <2>0, <2>b, <3>1, <3>2, <3>3
    <3>5. QED
      BY <2>4, <3>4 DEF Provenance, TypeOK
  <2>5. ASSUME NEW c \in Checks, Issue(c) PROVE TypeOK'
    <3> DEFINE minted == [job[c] EXCEPT !.step = "lock",
                                        !.credential = job[c].decision = "allow"]
               failed == [job[c] EXCEPT !.step = "lock", !.decision = "deny"]
    <3>1. minted \in Job /\ failed \in Job
      BY <2>0, <2>a DEF Job, Steps, Decisions
    <3>2. job' = [job EXCEPT ![c] = minted] \/ job' = [job EXCEPT ![c] = failed]
      BY <2>5 DEF Issue
    <3>3. job' \in [Jobs -> Job]
      BY <2>0, <2>b, <3>1, <3>2
    <3>4. QED
      BY <2>5, <3>3 DEF Issue, TypeOK
  <2>6. ASSUME NEW c \in Checks, Respond(c) PROVE TypeOK'
    <3>1. job[c] \in Job
      BY <2>0, <2>a
    <3>2. answer' \in [Checks -> Answer]
      BY <2>6, <3>1 DEF Respond, TypeOK, Told, Job, Answer
    <3>3. QED
      BY <2>6, <3>2 DEF Respond, TypeOK
  <2>7. ASSUME NEW c \in Checks, Timeout(c) PROVE TypeOK'
    BY <2>7 DEF Timeout, TypeOK, Told, Answer
  <2>8. ASSUME NEW m \in Mutations, SwapEngine(m) PROVE TypeOK'
    <3>1. PICK v \in Versions :
             /\ engine' = v
             /\ job' = [job EXCEPT ![m] =
                          [@ EXCEPT !.step = "lock", !.decision = "mutation", !.version = v]]
      BY <2>8 DEF SwapEngine
    <3> DEFINE r == [job[m] EXCEPT !.step = "lock", !.decision = "mutation", !.version = v]
    <3>2. r \in Job
      BY <2>0, <2>a DEF Job, Steps, Decisions
    <3>3. job' \in [Jobs -> Job]
      BY <2>0, <2>b, <3>1, <3>2
    <3>4. QED
      BY <2>8, <3>1, <3>3 DEF SwapEngine, TypeOK
  <2>9. ASSUME NEW j \in Jobs, Lock(j) PROVE TypeOK'
    <3>1. [job[j] EXCEPT !.step = "latest"] \in Job
      BY <2>a DEF Job, Steps
    <3>2. job' = [job EXCEPT ![j] = [job[j] EXCEPT !.step = "latest"]]
      BY <2>9 DEF Lock
    <3>3. job' \in [Jobs -> Job]
      BY <2>b, <3>1, <3>2
    <3>4. QED
      BY <2>9, <3>3 DEF Lock, TypeOK
  <2>10. ASSUME NEW j \in Jobs, GetLatest(j) PROVE TypeOK'
    <3> DEFINE r(n) == [job[j] EXCEPT !.step = "append", !.prev = n]
    <3>1. Len(chain) \in Nat
      BY LenProperties DEF TypeOK
    <3>2. r(Len(chain)) \in Job /\ r(0) \in Job
      BY <2>a, <3>1 DEF Job, Steps
    <3>3. job' = [job EXCEPT ![j] = r(Len(chain))] \/ job' = [job EXCEPT ![j] = r(0)]
      BY <2>10 DEF GetLatest
    <3>4. job' \in [Jobs -> Job]
      BY <2>b, <3>2, <3>3
    <3>5. QED
      BY <2>10, <3>4 DEF GetLatest, TypeOK
  <2>11. ASSUME NEW j \in Jobs, AppendDecision(j) PROVE TypeOK'
    <3>1. RowOf(j) \in Row
      BY RowOfType
    <3>2. <<RowOf(j)>> \in Seq(Row) /\ Append(chain, RowOf(j)) \in Seq(Row)
      BY <3>1, AppendProperties DEF TypeOK
    <3>3. chain' \in Seq(Row) /\ orphan' \in Seq(Row)
      BY <2>11, <3>2 DEF AppendDecision, TypeOK
    <3>4. job[j].decision \in Decisions /\ job[j].credential \in BOOLEAN
      BY <2>a DEF Job
    <3>5. \E d \in Decisions, b \in BOOLEAN : Return(j, d, b)
      BY <2>11, <3>4 DEF AppendDecision, FailClosed, Decisions
    <3>6. mutex' \in Jobs \cup {NoOne} /\ job' \in [Jobs -> Job]
      BY <3>5, ReturnType
    <3>7. QED
      BY <2>11, <3>3, <3>6 DEF AppendDecision, TypeOK
  <2>12. CASE FinishOrphan
    <3>1. chain \o orphan \in Seq(Row)
      BY ConcatProperties DEF TypeOK
    <3>2. QED
      BY <2>12, <3>1, EmptySeq DEF FinishOrphan, TypeOK
  <2>13. CASE Crash
    <3>1. \A j \in Jobs : [job[j] EXCEPT !.step = "dead"] \in Job
      BY <2>a DEF Job, Steps
    <3>2. job' \in [Jobs -> Job]
      BY <2>13, <2>a, <3>1 DEF Crash
    <3>3. Told("lost") \in Answer
      BY DEF Told, Answer
    <3>4. answer' \in [Checks -> Answer]
      BY <2>13, <3>3 DEF Crash, TypeOK
    <3>5. QED
      BY <2>13, <3>2, <3>4 DEF Crash, TypeOK
  <2>14. CASE Finished
    BY <2>14 DEF Finished, vars, TypeOK
  <2>15. QED
    BY <2>1, <2>2, <2>3, <2>4, <2>5, <2>6, <2>7, <2>8, <2>9, <2>10, <2>11, <2>12, <2>13, <2>14
       DEF Next, CheckStep, Append1
<1>3. QED
  BY <1>1, <1>2, PTL DEF Spec

-----------------------------------------------------------------------------
(* O-002: an ALLOW is told only on a committed row.                        *)

\* A committed row lets check c through under version v, with a credential.
Durable(c, v) ==
    \E i \in DOMAIN chain :
        /\ chain[i].who = c
        /\ chain[i].decision = "allow"
        /\ chain[i].version = v
        /\ chain[i].credential

\* AllowIsDurable is not inductive: Respond copies what the goroutine returned, so it has
\* to be durable there already, and the row is durable with a credential only because
\* no ALLOW reaches the append without one.
AllowInv ==
    /\ \A c \in Checks : job[c].decision = "allow" =>
         /\ job[c].step \in {"lock", "latest", "append"} => job[c].credential
         /\ job[c].step = "returned" => job[c].credential /\ Durable(c, job[c].version)
    /\ \A c \in Checks : answer[c].told = "allow" =>
         answer[c].credential /\ Durable(c, answer[c].version)

\* No step changes or removes a committed row.
RowsStay ==
    /\ Len(chain) <= Len(chain')
    /\ \A i \in 1..Len(chain) : chain'[i] = chain[i]

LEMMA RowsStayStep ==
    ASSUME TypeOK, TypeOK', [Next]_vars
    PROVE  RowsStay
<1>0. chain \in Seq(Row) /\ orphan \in Seq(Row) /\ Len(chain) \in Nat /\ Len(orphan) \in Nat
  BY LenProperties DEF TypeOK
<1>1. CASE chain' = chain
  BY <1>0, <1>1 DEF RowsStay
<1>2. ASSUME NEW j \in Jobs, chain' = Append(chain, RowOf(j)) PROVE RowsStay
  <2>1. RowOf(j) \in Row
    BY RowOfType
  <2>2. /\ Len(Append(chain, RowOf(j))) = Len(chain) + 1
        /\ \A i \in 1..Len(chain) : Append(chain, RowOf(j))[i] = chain[i]
    BY <1>0, <2>1, AppendProperties
  <2>3. QED
    BY <1>0, <1>2, <2>2 DEF RowsStay
<1>3. CASE chain' = chain \o orphan
  <2>1. /\ Len(chain \o orphan) = Len(chain) + Len(orphan)
        /\ \A i \in 1..Len(chain) + Len(orphan) :
             (chain \o orphan)[i] = IF i <= Len(chain) THEN chain[i] ELSE orphan[i - Len(chain)]
    BY <1>0, ConcatProperties
  <2>2. QED
    BY <1>0, <1>3, <2>1 DEF RowsStay
<1>4. \/ chain' = chain
      \/ \E j \in Jobs : chain' = Append(chain, RowOf(j))
      \/ chain' = chain \o orphan
  BY DEF Next, vars, Arrive, CheckStep, Evaluate, Provenance, Issue, Respond, Timeout,
         SwapEngine, Append1, Lock, GetLatest, AppendDecision, FinishOrphan, Crash, Finished
<1>5. QED
  BY <1>1, <1>2, <1>3, <1>4

LEMMA DurableStays ==
    ASSUME TypeOK, TypeOK', RowsStay, NEW c, NEW v, Durable(c, v)
    PROVE  Durable(c, v)'
<1>1. DOMAIN chain = 1..Len(chain) /\ DOMAIN chain' = 1..Len(chain')
  BY LenProperties DEF TypeOK
<1>2. Len(chain) \in Nat /\ Len(chain') \in Nat
  BY LenProperties DEF TypeOK
<1>3. QED
  BY <1>1, <1>2 DEF Durable, RowsStay

\* The read of the issuer, and what it is asked for.
LEMMA IssueIs ==
    ASSUME TypeOK, NEW c \in Checks, Issue(c)
    PROVE  /\ \A k \in Jobs \ {c} : job'[k] = job[k]
           /\ job'[c].step = "lock"
           /\ job'[c].decision \in {job[c].decision, "deny"}
           /\ job'[c].decision = "allow" => job'[c].credential
<1> DEFINE minted == [job[c] EXCEPT !.step = "lock", !.credential = job[c].decision = "allow"]
           failed == [job[c] EXCEPT !.step = "lock", !.decision = "deny"]
<1>1. c \in Jobs /\ job \in [Jobs -> Job] /\ job[c] \in Job
  BY DEF TypeOK, Jobs
<1>2. job' = [job EXCEPT ![c] = minted] \/ job' = [job EXCEPT ![c] = failed]
  BY DEF Issue
<1>3. /\ minted.step = "lock" /\ minted.decision = job[c].decision
      /\ minted.decision = "allow" => minted.credential
  BY <1>1 DEF Job
<1>4. failed.step = "lock" /\ failed.decision = "deny"
  BY <1>1 DEF Job
<1> HIDE DEF minted, failed
<1>5. QED
  BY <1>1, <1>2, <1>3, <1>4

LEMMA AllowInvInit == Init => AllowInv
BY DEF Init, AllowInv, Fresh, Told, Jobs

LEMMA AllowInvStep ==
    ASSUME TypeOK, TypeOK', AllowInv, [Next]_vars
    PROVE  AllowInv'
<1> USE AuditAssumption
<1>0. RowsStay
  BY RowsStayStep
<1>a. ASSUME NEW c, NEW v, Durable(c, v) PROVE Durable(c, v)'
  BY <1>0, <1>a, DurableStays
<1>b. Checks \subseteq Jobs /\ Mutations \subseteq Jobs /\ Checks \cap Mutations = {}
  BY DEF Jobs
<1>c. job \in [Jobs -> Job] /\ answer \in [Checks -> Answer]
  BY DEF TypeOK
\* What a goroutine knows at c is untouched, or changed in a harmless way.
<1> DEFINE JobSafe(c) ==
      job[c].decision = "allow" =>
         /\ job[c].step \in {"lock", "latest", "append"} => job[c].credential
         /\ job[c].step = "returned" => job[c].credential /\ Durable(c, job[c].version)
<1> DEFINE AnswerSafe(c) ==
      answer[c].told = "allow" => answer[c].credential /\ Durable(c, answer[c].version)
<1>d. \A c \in Checks : JobSafe(c) /\ AnswerSafe(c)
  BY DEF AllowInv
<1>e. ASSUME NEW c \in Checks, UNCHANGED job[c] PROVE JobSafe(c)'
  BY <1>a, <1>d, <1>e
<1>f. ASSUME NEW c \in Checks, UNCHANGED answer[c] PROVE AnswerSafe(c)'
  BY <1>a, <1>d, <1>f
<1> HIDE DEF JobSafe, AnswerSafe
\* A step of job j alone, which does not answer anybody.
<1>g. ASSUME NEW j \in Jobs, NEW r, job' = [job EXCEPT ![j] = r], UNCHANGED answer,
             j \in Checks => JobSafe(j)'
      PROVE  \A c \in Checks : JobSafe(c)' /\ AnswerSafe(c)'
  <2>1. ASSUME NEW c \in Checks PROVE JobSafe(c)' /\ AnswerSafe(c)'
    <3>1. UNCHANGED answer[c]
      BY <1>g
    <3>2. CASE c = j
      BY <1>f, <1>g, <3>1, <3>2
    <3>3. CASE c # j
      <4>1. UNCHANGED job[c]
        BY <1>b, <1>c, <1>g, <3>3
      <4>2. QED
        BY <1>e, <1>f, <3>1, <4>1
    <3>4. QED
      BY <3>2, <3>3
  <2>2. QED
    BY <2>1
<1>h. SUFFICES \A c \in Checks : JobSafe(c)' /\ AnswerSafe(c)'
  BY DEF AllowInv, JobSafe, AnswerSafe
<1>1. CASE UNCHANGED <<job, answer>>
  BY <1>1, <1>e, <1>f
<1>2. ASSUME NEW c \in Checks, Arrive(c) PROVE \A d \in Checks : JobSafe(d)' /\ AnswerSafe(d)'
  <2>1. ASSUME NEW d \in Checks, d # c PROVE UNCHANGED job[d] /\ UNCHANGED answer[d]
    BY <1>2, <1>b, <1>c, <2>1 DEF Arrive
  <2>2. AnswerSafe(c)'
    BY <1>2, <1>c DEF Arrive, AnswerSafe, Told
  <2>3. job'[c].step = "evaluate" \/ job'[c].decision = "deny"
    BY <1>2, <1>b, <1>c DEF Arrive, Job
  <2>4. JobSafe(c)'
    BY <2>3 DEF JobSafe
  <2>5. QED
    BY <1>e, <1>f, <2>1, <2>2, <2>4
<1>3. ASSUME NEW c \in Checks, Evaluate(c) PROVE \A d \in Checks : JobSafe(d)' /\ AnswerSafe(d)'
  <2>1. PICK r : job' = [job EXCEPT ![c] = r]
    BY <1>3 DEF Evaluate
  <2>2. job'[c].step = "provenance" \/ job'[c].decision = "deny"
    BY <1>3, <1>b, <1>c DEF Evaluate, Job
  <2>3. QED
    BY <1>3, <1>b, <1>g, <2>1, <2>2 DEF Evaluate, JobSafe
<1>4. ASSUME NEW c \in Checks, Provenance(c) PROVE \A d \in Checks : JobSafe(d)' /\ AnswerSafe(d)'
  <2>1. PICK r : job' = [job EXCEPT ![c] = r]
    BY <1>4 DEF Provenance
  <2>2. job'[c].decision = "allow" => job'[c].step = "issue"
    BY <1>4, <1>b, <1>c DEF Provenance, Job
  <2>3. QED
    BY <1>4, <1>b, <1>g, <2>1, <2>2 DEF Provenance, JobSafe
<1>5. ASSUME NEW c \in Checks, Issue(c) PROVE \A d \in Checks : JobSafe(d)' /\ AnswerSafe(d)'
  <2>1. PICK r : job' = [job EXCEPT ![c] = r]
    BY <1>5 DEF Issue
  <2>2. job'[c].step = "lock" /\ (job'[c].decision = "allow" => job'[c].credential)
    BY <1>5, <1>b, IssueIs
  <2>3. QED
    BY <1>5, <1>b, <1>g, <2>1, <2>2 DEF Issue, JobSafe
<1>6. ASSUME NEW c \in Checks, Respond(c) PROVE \A d \in Checks : JobSafe(d)' /\ AnswerSafe(d)'
  <2>1. ASSUME NEW d \in Checks PROVE JobSafe(d)'
    BY <1>6, <1>e DEF Respond
  <2>2. ASSUME NEW d \in Checks, d # c PROVE AnswerSafe(d)'
    BY <1>6, <1>c, <1>f, <2>2 DEF Respond
  <2>3. AnswerSafe(c)'
    <3>1. CASE job[c].decision = "allow"
      <4>1. job[c].credential /\ Durable(c, job[c].version)
        BY <1>6, <1>d, <3>1 DEF Respond, JobSafe
      <4>2. Durable(c, job[c].version)'
        BY <1>6, <1>a, <4>1 DEF Respond
      <4>3. answer'[c] = [told |-> "allow", version |-> job[c].version,
                          credential |-> job[c].credential]
        BY <1>6, <1>c, <3>1 DEF Respond
      <4>4. job'[c] = job[c]
        BY <1>6 DEF Respond
      <4>5. QED
        BY <4>1, <4>2, <4>3, <4>4 DEF AnswerSafe
    <3>2. CASE job[c].decision # "allow"
      <4>1. answer'[c].told = "deny"
        BY <1>6, <1>c, <3>2 DEF Respond, Told
      <4>2. QED
        BY <4>1 DEF AnswerSafe
    <3>3. QED
      BY <3>1, <3>2
  <2>4. QED
    BY <2>1, <2>2, <2>3
<1>7. ASSUME NEW c \in Checks, Timeout(c) PROVE \A d \in Checks : JobSafe(d)' /\ AnswerSafe(d)'
  <2>1. ASSUME NEW d \in Checks PROVE JobSafe(d)'
    BY <1>7, <1>e DEF Timeout
  <2>2. ASSUME NEW d \in Checks, d # c PROVE AnswerSafe(d)'
    BY <1>7, <1>c, <1>f, <2>2 DEF Timeout
  <2>3. AnswerSafe(c)'
    BY <1>7, <1>c DEF Timeout, Told, AnswerSafe
  <2>4. QED
    BY <2>1, <2>2, <2>3
<1>8. ASSUME NEW m \in Mutations, SwapEngine(m) PROVE \A d \in Checks : JobSafe(d)' /\ AnswerSafe(d)'
  <2>1. PICK r : job' = [job EXCEPT ![m] = r]
    BY <1>8 DEF SwapEngine
  <2>2. QED
    BY <1>8, <1>b, <1>g, <2>1 DEF SwapEngine
<1>9. ASSUME NEW j \in Jobs, Lock(j) PROVE \A d \in Checks : JobSafe(d)' /\ AnswerSafe(d)'
  <2>1. job' = [job EXCEPT ![j] = [job[j] EXCEPT !.step = "latest"]]
    BY <1>9, <1>c DEF Lock, Job
  <2>2. /\ job'[j].step = "latest" /\ job'[j].decision = job[j].decision
        /\ job'[j].credential = job[j].credential /\ job[j].step = "lock"
    BY <1>9, <1>c, <2>1 DEF Lock, Job
  <2>3. j \in Checks => JobSafe(j)'
    BY <1>d, <2>2 DEF JobSafe
  <2>4. QED
    BY <1>9, <1>g, <2>1, <2>3 DEF Lock
<1>10. ASSUME NEW j \in Jobs, GetLatest(j) PROVE \A d \in Checks : JobSafe(d)' /\ AnswerSafe(d)'
  <2>1. PICK n : job' = [job EXCEPT ![j] = [job[j] EXCEPT !.step = "append", !.prev = n]]
    BY <1>10 DEF GetLatest
  <2>2. /\ job'[j].step = "append" /\ job'[j].decision = job[j].decision
        /\ job'[j].credential = job[j].credential /\ job[j].step = "latest"
    BY <1>10, <1>c, <2>1 DEF GetLatest, Job
  <2>3. j \in Checks => JobSafe(j)'
    BY <1>d, <2>2 DEF JobSafe
  <2>4. QED
    BY <1>10, <1>g, <2>1, <2>3 DEF GetLatest
<1>11. ASSUME NEW j \in Jobs, AppendDecision(j) PROVE \A d \in Checks : JobSafe(d)' /\ AnswerSafe(d)'
  <2>1. UNCHANGED answer /\ \E r : job' = [job EXCEPT ![j] = r]
    BY <1>11 DEF AppendDecision, FailClosed, Return
  <2>2. ASSUME j \in Checks PROVE JobSafe(j)'
    <3>1. CASE chain' = Append(chain, RowOf(j)) /\ Return(j, job[j].decision, job[j].credential)
      <4>1. /\ job'[j].decision = job[j].decision /\ job'[j].version = job[j].version
            /\ job'[j].credential = job[j].credential
            /\ job'[j].step = "returned" /\ job[j].step = "append"
        BY <1>11, <1>c, <3>1 DEF AppendDecision, Return, Job
      <4>2. ASSUME job[j].decision = "allow" PROVE job[j].credential /\ Durable(j, job[j].version)'
        <5>1. job[j].credential
          BY <1>d, <2>2, <4>1, <4>2 DEF JobSafe
        <5>2. RowOf(j) \in Row /\ chain \in Seq(Row) /\ Len(chain) \in Nat
          BY RowOfType, LenProperties DEF TypeOK
        <5>3. Len(chain') = Len(chain) + 1 /\ chain'[Len(chain) + 1] = RowOf(j)
          BY <3>1, <5>2, AppendProperties
        <5>4. Len(chain) + 1 \in DOMAIN chain'
          BY <5>2, <5>3, LenProperties DEF TypeOK
        <5>5. /\ RowOf(j).who = j /\ RowOf(j).decision = "allow"
              /\ RowOf(j).version = job[j].version /\ RowOf(j).credential
          BY <4>2, <5>1 DEF RowOf
        <5>6. Durable(j, job[j].version)'
          BY <4>1, <5>3, <5>4, <5>5 DEF Durable
        <5>7. QED
          BY <5>1, <5>6
      <4>3. QED
        BY <4>1, <4>2 DEF JobSafe
    <3>2. CASE FailClosed(j)
      <4>1. job'[j].decision # "allow"
        BY <1>c, <3>2 DEF FailClosed, Return, Job
      <4>2. QED
        BY <4>1 DEF JobSafe
    <3>3. QED
      BY <1>11, <3>1, <3>2 DEF AppendDecision
  <2>3. QED
    BY <1>g, <2>1, <2>2
<1>12. CASE FinishOrphan
  BY <1>1, <1>12 DEF FinishOrphan
<1>13. CASE Crash
  <2>1. ASSUME NEW c \in Checks PROVE JobSafe(c)'
    <3>1. UNCHANGED job[c] \/ job'[c].step = "dead"
      BY <1>13, <1>b, <1>c DEF Crash, Job
    <3>2. QED
      BY <1>e, <3>1 DEF JobSafe
  <2>2. ASSUME NEW c \in Checks PROVE AnswerSafe(c)'
    <3>1. UNCHANGED answer[c] \/ answer'[c].told = "lost"
      BY <1>13, <1>c DEF Crash, Told
    <3>2. QED
      BY <1>f, <3>1 DEF AnswerSafe
  <2>3. QED
    BY <2>1, <2>2
<1>14. CASE Finished
  BY <1>1, <1>14 DEF Finished, vars
<1>15. QED
  BY <1>1, <1>2, <1>3, <1>4, <1>5, <1>6, <1>7, <1>8, <1>9, <1>10, <1>11, <1>12, <1>13, <1>14
     DEF Next, CheckStep, Append1, vars

\* O-002 for any number of checks, mutations and versions, whatever fails: an ALLOW that was
\* told is backed by a committed row for that check, version and credential.
THEOREM AllowsAreDurable == Spec => []AllowIsDurable
<1>1. AllowInv => AllowIsDurable
  BY DEF AllowInv, AllowIsDurable, Durable
<1>2. TypeOK /\ TypeOK' /\ AllowInv /\ [Next]_vars => AllowInv'
  BY AllowInvStep
<1>3. QED
  BY <1>1, <1>2, AllowInvInit, TypeCorrect, PTL DEF Spec

-----------------------------------------------------------------------------
(* What the steps do to jobs and rows.                                     *)

\* The steps of a check up to the mutex.
LEMMA CheckStepIs ==
    ASSUME TypeOK, NEW c \in Checks, Arrive(c) \/ Evaluate(c) \/ Provenance(c) \/ Issue(c)
    PROVE  /\ \A k \in Jobs \ {c} : job'[k] = job[k]
           /\ UNCHANGED <<chain, orphan, mutex>>
           /\ job[c].step \in {"new", "evaluate", "provenance", "issue"}
           /\ job'[c].step \in {"evaluate", "provenance", "issue", "lock"}
           /\ \/ job'[c].step = "evaluate"
              \/ job'[c].decision \in {"allow", "deny"}
              \/ job[c].step = "provenance" /\ job'[c].decision = job[c].decision
              \/ job[c].step = "issue" /\ job'[c].decision = job[c].decision
<1>1. c \in Jobs /\ job \in [Jobs -> Job] /\ job[c] \in Job
  BY DEF TypeOK, Jobs
<1>2. CASE Arrive(c)
  BY <1>1, <1>2 DEF Arrive, Job
<1>3. CASE Evaluate(c)
  BY <1>1, <1>3 DEF Evaluate, Job
<1>4. CASE Provenance(c)
  BY <1>1, <1>4 DEF Provenance, Job
<1>5. CASE Issue(c)
  <2>1. job[c].step = "issue" /\ UNCHANGED <<chain, orphan, mutex>>
    BY <1>5 DEF Issue
  <2>2. QED
    BY <1>5, <2>1, IssueIs
<1>6. QED
  BY <1>2, <1>3, <1>4, <1>5

LEMMA SwapEngineIs ==
    ASSUME TypeOK, NEW m \in Mutations, SwapEngine(m)
    PROVE  /\ \A k \in Jobs \ {m} : job'[k] = job[k]
           /\ UNCHANGED <<chain, orphan, mutex, answer>>
           /\ job[m].step = "new" /\ job'[m].step = "lock" /\ job'[m].decision = "mutation"
<1>1. m \in Jobs /\ job \in [Jobs -> Job] /\ job[m] \in Job
  BY DEF TypeOK, Jobs
<1>2. QED
  BY <1>1 DEF SwapEngine, Job

\* The steps of an append before the insert.
LEMMA LockIs ==
    ASSUME TypeOK, NEW j \in Jobs, Lock(j) \/ GetLatest(j)
    PROVE  /\ \A k \in Jobs \ {j} : job'[k] = job[k]
           /\ UNCHANGED <<chain, orphan, answer>>
           /\ job'[j].decision = job[j].decision /\ job'[j].version = job[j].version
           /\ \/ /\ job[j].step = "lock" /\ job'[j].step = "latest"
                 /\ mutex = NoOne /\ mutex' = j
              \/ /\ job[j].step = "latest" /\ job'[j].step = "append" /\ UNCHANGED mutex
                 /\ job'[j].prev = Len(chain) \/ "read" \in Faults
<1>1. job \in [Jobs -> Job] /\ job[j] \in Job
  BY DEF TypeOK
<1>2. CASE Lock(j)
  BY <1>1, <1>2 DEF Lock, Job
<1>3. CASE GetLatest(j)
  <2>1. PICK n : /\ job' = [job EXCEPT ![j] = [job[j] EXCEPT !.step = "append", !.prev = n]]
                 /\ n = Len(chain) \/ "read" \in Faults
    BY <1>3 DEF GetLatest
  <2>2. /\ job'[j].step = "append" /\ job'[j].prev = n
        /\ job'[j].decision = job[j].decision /\ job'[j].version = job[j].version
    BY <1>1, <2>1 DEF Job
  <2>3. QED
    BY <1>1, <1>3, <2>1, <2>2 DEF GetLatest
<1>4. QED
  BY <1>2, <1>3

\* An append either is committed as the job stands, or leaves an ALLOW a DENY; then its row
\* may still be on its way.
LEMMA AppendIs ==
    ASSUME TypeOK, NEW j \in Jobs, AppendDecision(j)
    PROVE  /\ \A k \in Jobs \ {j} : job'[k] = job[k]
           /\ UNCHANGED answer /\ mutex' = NoOne
           /\ job[j].step = "append" /\ job'[j].step = "returned"
           /\ job'[j].version = job[j].version
           /\ job'[j].decision = job[j].decision
                \/ (job[j].decision = "allow" /\ job'[j].decision = "deny")
           /\ \/ /\ orphan = <<>> /\ orphan' = <<>> /\ chain' = Append(chain, RowOf(j))
                 /\ job'[j].decision = job[j].decision
              \/ chain' = chain /\ orphan' = orphan
              \/ /\ "orphan" \in Faults
                 /\ orphan = <<>> /\ orphan' = <<RowOf(j)>> /\ chain' = chain
<1>1. job \in [Jobs -> Job] /\ job[j] \in Job
  BY DEF TypeOK
<1>2. ASSUME NEW d, NEW b, Return(j, d, b)
      PROVE  /\ \A k \in Jobs \ {j} : job'[k] = job[k]
             /\ mutex' = NoOne /\ job'[j].step = "returned"
             /\ job'[j].version = job[j].version /\ job'[j].decision = d
  BY <1>1, <1>2 DEF Return, Job
<1>3. job[j].step = "append" /\ UNCHANGED answer
  BY DEF AppendDecision
<1>4. CASE orphan = <<>> /\ chain' = Append(chain, RowOf(j)) /\ UNCHANGED orphan
           /\ Return(j, job[j].decision, job[j].credential)
  BY <1>2, <1>3, <1>4
<1>5. CASE FailClosed(j) /\ UNCHANGED <<chain, orphan>>
  BY <1>2, <1>3, <1>5 DEF FailClosed
<1>6. CASE FailClosed(j) /\ "orphan" \in Faults /\ orphan = <<>> /\ orphan' = <<RowOf(j)>> /\ UNCHANGED chain
  BY <1>2, <1>3, <1>6 DEF FailClosed
<1>7. QED
  BY <1>4, <1>5, <1>6 DEF AppendDecision

LEMMA CrashIs ==
    ASSUME TypeOK, Crash
    PROVE  /\ UNCHANGED <<chain, orphan>> /\ mutex' = NoOne
           /\ \A j \in Jobs : \/ job[j].step = "new" /\ job'[j] = job[j]
                              \/ /\ job[j].step # "new" /\ job'[j].step = "dead"
                                 /\ job'[j].decision = job[j].decision
                                 /\ job'[j].version = job[j].version
           /\ \A c \in Checks : \/ answer[c].told = "waiting" /\ answer'[c].told = "lost"
                                \/ answer[c].told # "waiting" /\ answer'[c] = answer[c]
<1>1. job \in [Jobs -> Job] /\ \A j \in Jobs : job[j] \in Job
  BY DEF TypeOK
<1>2. QED
  BY <1>1 DEF Crash, Job, Told

\* The rows of a chain that grew by one.
LEMMA AppendedIs ==
    ASSUME TypeOK, NEW row \in Row, chain' = Append(chain, row)
    PROVE  /\ Len(chain) \in Nat /\ Len(chain') = Len(chain) + 1
           /\ \A i \in 1..Len(chain) : chain'[i] = chain[i]
           /\ chain'[Len(chain) + 1] = row
BY AppendProperties, LenProperties DEF TypeOK

\* The abandoned transaction, when the server has finished it.
LEMMA FinishIs ==
    ASSUME TypeOK, Len(orphan) <= 1, FinishOrphan
    PROVE  /\ UNCHANGED <<mutex, job, answer>> /\ orphan' = <<>>
           /\ orphan[1] \in Row /\ Len(orphan) = 1
           /\ chain' = chain \/ chain' = Append(chain, orphan[1])
<1>1. orphan \in Seq(Row) /\ orphan # <<>> /\ chain \in Seq(Row)
  BY DEF TypeOK, FinishOrphan
<1>2. Len(orphan) = 1 /\ orphan[1] \in Row /\ orphan = <<orphan[1]>>
  BY <1>1, LenProperties, EmptySeq
<1>3. chain \o orphan = Append(chain, orphan[1])
  BY <1>1, <1>2, AppendIsConcat
<1>4. QED
  BY <1>2, <1>3 DEF FinishOrphan

-----------------------------------------------------------------------------
(* A job leaves at most one row.                                           *)

Done(j) == job[j].step \in {"returned", "dead"}

\* What a row of a job can say.
Fits(row) ==
    /\ row.who \in Checks => row.decision \in {"allow", "deny"}
    /\ row.who \in Mutations => row.decision = "mutation"

JobFits(j) ==
    /\ j \in Checks =>
         job[j].step \in {"new", "evaluate", "dead"} \/ job[j].decision \in {"allow", "deny"}
    /\ j \in Mutations =>
         job[j].step \in {"new", "dead"} \/ (/\ job[j].step \in {"lock", "latest", "append", "returned"}
                                            /\ job[j].decision = "mutation")

\* OneRowEach is not inductive: a job that is about to append has to have left no row before,
\* committed or on its way, because every job that has left one is done with.
RowInv ==
    /\ Len(orphan) <= 1
    /\ \A i \in 1..Len(chain) : Done(chain[i].who) /\ Fits(chain[i])
    /\ \A i \in 1..Len(orphan) : Done(orphan[i].who) /\ Fits(orphan[i])
    /\ \A i, k \in 1..Len(chain) : chain[i].who = chain[k].who => i = k
    /\ \A i \in 1..Len(chain), k \in 1..Len(orphan) : chain[i].who # orphan[k].who
    /\ \A j \in Jobs : JobFits(j)

LEMMA RowInit == Init => RowInv
<1>1. Init => Len(chain) = 0 /\ Len(orphan) = 0
  BY DEF Init
<1>2. Init => \A j \in Jobs : JobFits(j)
  BY DEF Init, Fresh, JobFits
<1>3. QED
  BY <1>1, <1>2 DEF RowInv

LEMMA RowStep ==
    ASSUME TypeOK, RowInv, [Next]_vars
    PROVE  RowInv'
<1>a. /\ chain \in Seq(Row) /\ orphan \in Seq(Row) /\ Len(chain) \in Nat /\ Len(orphan) \in Nat
      /\ \A i \in 1..Len(chain) : chain[i] \in Row /\ chain[i].who \in Jobs
      /\ \A i \in 1..Len(orphan) : orphan[i] \in Row /\ orphan[i].who \in Jobs
  <2>1. chain \in Seq(Row) /\ orphan \in Seq(Row)
    BY DEF TypeOK
  <2>2. Len(chain) \in Nat /\ Len(orphan) \in Nat
    BY <2>1, LenProperties
  <2>3. (\A i \in 1..Len(chain) : chain[i] \in Row) /\ (\A i \in 1..Len(orphan) : orphan[i] \in Row)
    BY <2>1, ElementOfSeq
  <2>4. QED
    BY <2>1, <2>2, <2>3 DEF Row
<1>b. Checks \subseteq Jobs /\ Mutations \subseteq Jobs /\ Checks \cap Mutations = {}
  BY AuditAssumption DEF Jobs
\* A step that leaves the rows alone, and whoever is done with.
<1>c. ASSUME UNCHANGED <<chain, orphan>>, \A j \in Jobs : Done(j) => Done(j)',
             \A j \in Jobs : JobFits(j)'
      PROVE  RowInv'
  BY <1>a, <1>c DEF RowInv
\* A step of one job that is not done with.
<1>d. ASSUME NEW k \in Jobs, ~Done(k), \A j \in Jobs \ {k} : job'[j] = job[j], JobFits(k)'
      PROVE  /\ \A j \in Jobs : Done(j) => Done(j)'
             /\ \A j \in Jobs : JobFits(j)'
  <2>1. ASSUME NEW j \in Jobs, j # k PROVE (Done(j) => Done(j)') /\ JobFits(j)'
    <3>1. JobFits(j) /\ job'[j] = job[j]
      BY <1>d, <2>1 DEF RowInv
    <3>2. QED
      BY <3>1 DEF Done, JobFits
  <2>2. QED
    BY <1>d, <2>1
<1>1. CASE UNCHANGED <<job, chain, orphan>>
  BY <1>1, <1>c DEF Done, JobFits, RowInv
<1>2. ASSUME NEW c \in Checks, Arrive(c) \/ Evaluate(c) \/ Provenance(c) \/ Issue(c) PROVE RowInv'
  <2>1. ~Done(c) /\ JobFits(c) /\ c \in Jobs
    BY <1>2, <1>b, CheckStepIs DEF Done, RowInv
  <2>2. JobFits(c)'
    BY <1>2, <1>b, <2>1, CheckStepIs DEF JobFits
  <2>3. QED
    BY <1>2, <1>c, <1>d, <2>1, <2>2, CheckStepIs
<1>3. ASSUME NEW m \in Mutations, SwapEngine(m) PROVE RowInv'
  <2>1. ~Done(m) /\ m \in Jobs /\ JobFits(m)'
    BY <1>3, <1>b, SwapEngineIs DEF Done, JobFits
  <2>2. QED
    BY <1>3, <1>c, <1>d, <2>1, SwapEngineIs
<1>4. ASSUME NEW j \in Jobs, Lock(j) \/ GetLatest(j) PROVE RowInv'
  <2>1. ~Done(j) /\ JobFits(j)
    BY <1>4, LockIs DEF Done, RowInv
  <2>2. JobFits(j)'
    BY <1>4, <2>1, LockIs DEF JobFits
  <2>3. QED
    BY <1>4, <1>c, <1>d, <2>1, <2>2, LockIs
<1>5. ASSUME NEW j \in Jobs, AppendDecision(j) PROVE RowInv'
  <2>1. ~Done(j) /\ JobFits(j) /\ job[j].step = "append"
    BY <1>5, AppendIs DEF Done, RowInv
  <2>2. Done(j)' /\ JobFits(j)'
    BY <1>5, <1>b, <2>1, AppendIs DEF JobFits, Done
  <2>3. /\ \A k \in Jobs : Done(k) => Done(k)'
        /\ \A k \in Jobs : JobFits(k)'
    BY <1>5, <1>d, <2>1, <2>2, AppendIs
  <2>4. RowOf(j) \in Row /\ RowOf(j).who = j /\ Fits(RowOf(j))
    BY <2>1, RowOfType DEF RowOf, Fits, JobFits
  <2>5. \A i \in 1..Len(chain) : chain[i].who # j
    BY <2>1 DEF RowInv
  <2>6. CASE chain' = chain /\ orphan' = orphan
    BY <1>c, <2>3, <2>6
  <2>7. CASE orphan = <<>> /\ orphan' = <<>> /\ chain' = Append(chain, RowOf(j))
    <3>1. /\ Len(chain') = Len(chain) + 1 /\ chain'[Len(chain) + 1] = RowOf(j)
          /\ \A i \in 1..Len(chain) : chain'[i] = chain[i]
      BY <2>4, <2>7, AppendedIs
    <3>2. Len(orphan') = 0
      BY <2>7
    <3>3. \A i \in 1..Len(chain') : i \in 1..Len(chain) \/ i = Len(chain) + 1
      BY <1>a, <3>1
    <3>4. \A i \in 1..Len(chain') : Done(chain[i].who)' /\ Fits(chain[i])'
      BY <1>a, <2>2, <2>3, <2>4, <3>1, <3>3 DEF RowInv
    <3>5. \A i, k \in 1..Len(chain') : chain'[i].who = chain'[k].who => i = k
      BY <2>4, <2>5, <3>1, <3>3 DEF RowInv
    <3>6. QED
      BY <2>3, <3>2, <3>4, <3>5 DEF RowInv
  <2>8. CASE orphan' = <<RowOf(j)>> /\ chain' = chain
    <3>1. Len(orphan') = 1 /\ orphan'[1] = RowOf(j)
      BY <2>8
    <3>2. \A i \in 1..Len(orphan') : orphan'[i] = RowOf(j)
      BY <3>1
    <3>3. QED
      BY <1>a, <2>2, <2>3, <2>4, <2>5, <2>8, <3>1, <3>2 DEF RowInv
  <2>9. QED
    BY <1>5, <2>6, <2>7, <2>8, AppendIs
<1>6. CASE FinishOrphan
  <2>1. /\ UNCHANGED job /\ Len(orphan) = 1 /\ Len(orphan') = 0 /\ orphan[1] \in Row
        /\ chain' = chain \/ chain' = Append(chain, orphan[1])
    BY <1>6, FinishIs DEF RowInv
  <2>2. \A j \in Jobs : (Done(j) => Done(j)') /\ JobFits(j)'
    BY <2>1 DEF Done, JobFits, RowInv
  <2>3. CASE chain' = chain
    BY <1>a, <2>1, <2>2, <2>3 DEF RowInv
  <2>4. CASE chain' = Append(chain, orphan[1])
    <3>1. /\ Len(chain') = Len(chain) + 1 /\ chain'[Len(chain) + 1] = orphan[1]
          /\ \A i \in 1..Len(chain) : chain'[i] = chain[i]
      BY <2>1, <2>4, AppendedIs
    <3>2. /\ job'[orphan[1].who].step \in {"returned", "dead"} /\ Fits(orphan[1])
          /\ \A i \in 1..Len(chain) : chain[i].who # orphan[1].who
      <4>1. 1 \in 1..Len(orphan) /\ orphan[1].who \in Jobs /\ UNCHANGED job
        BY <1>a, <2>1
      <4>2. Done(orphan[1].who) /\ Fits(orphan[1])
        BY <4>1 DEF RowInv
      <4>3. QED
        BY <4>1, <4>2 DEF RowInv, Done
    <3>3. \A i \in 1..Len(chain') : i \in 1..Len(chain) \/ i = Len(chain) + 1
      BY <1>a, <3>1
    <3>4. \A i \in 1..Len(chain') : Done(chain[i].who)' /\ Fits(chain[i])'
      BY <1>a, <2>2, <3>1, <3>2, <3>3 DEF RowInv, Done
    <3>5. \A i, k \in 1..Len(chain') : chain'[i].who = chain'[k].who => i = k
      BY <3>1, <3>2, <3>3 DEF RowInv
    <3>6. QED
      BY <2>1, <2>2, <3>4, <3>5 DEF RowInv
  <2>5. QED
    BY <2>1, <2>3, <2>4
<1>7. CASE Crash
  <2>1. ASSUME NEW j \in Jobs PROVE (Done(j) => Done(j)') /\ JobFits(j)'
    <3>1. JobFits(j)
      BY DEF RowInv
    <3>2. QED
      BY <1>7, <3>1, CrashIs DEF Done, JobFits
  <2>2. QED
    BY <1>7, <1>c, <2>1, CrashIs
<1>8. QED
  BY <1>1, <1>2, <1>3, <1>4, <1>5, <1>6, <1>7
     DEF Next, CheckStep, Append1, vars, Respond, Timeout, Finished

LEMMA RowsHold == Spec => [](TypeOK /\ RowInv)
<1>1. TypeOK /\ RowInv /\ [Next]_vars => RowInv'
  BY RowStep
<1>2. QED
  BY <1>1, RowInit, TypeCorrect, PTL DEF Spec

\* A check or a mutation leaves at most one row, committed or on its way, whatever errors its
\* append returned and whatever the database makes of the transaction afterwards: nothing is
\* retried (EvaluateWithCredential, OnMutation).
THEOREM RowsAreApart == Spec => []OneRowEach
<1>1. TypeOK /\ RowInv => OneRowEach
  <2> SUFFICES ASSUME TypeOK, RowInv PROVE OneRowEach
    OBVIOUS
  <2> DEFINE all == chain \o orphan
  <2>1. /\ chain \in Seq(Row) /\ orphan \in Seq(Row)
        /\ Len(chain) \in Nat /\ Len(orphan) \in Nat /\ Len(orphan) <= 1
    BY LenProperties DEF TypeOK, RowInv
  <2>2. /\ all \in Seq(Row) /\ Len(all) = Len(chain) + Len(orphan)
        /\ \A i \in 1..Len(chain) + Len(orphan) :
             all[i] = IF i <= Len(chain) THEN chain[i] ELSE orphan[i - Len(chain)]
    BY <2>1, ConcatProperties
  <2>3. DOMAIN all = 1..Len(chain) + Len(orphan)
    BY <2>2, LenProperties
  <2> HIDE DEF all
  <2>4. \A i \in DOMAIN all :
          \/ i \in 1..Len(chain) /\ all[i] = chain[i]
          \/ i = Len(chain) + 1 /\ 1 \in 1..Len(orphan) /\ all[i] = orphan[1]
    <3>1. ASSUME NEW i \in DOMAIN all, ~(i <= Len(chain))
          PROVE  i = Len(chain) + 1 /\ 1 \in 1..Len(orphan) /\ all[i] = orphan[1]
      <4>1. i \in Nat /\ i = Len(chain) + 1 /\ Len(orphan) = 1
        <5>1. i \in 1..Len(chain) + Len(orphan)
          BY <2>3, <3>1
        <5>2. ASSUME NEW a \in Nat, NEW b \in Nat, b <= 1, i \in 1..a + b, ~(i <= a)
              PROVE  i \in Nat /\ i = a + 1 /\ b = 1
          BY <5>2
        <5>3. QED
          BY <2>1, <3>1, <5>1, <5>2
      <4>2. i - Len(chain) = 1
        BY <2>1, <4>1
      <4>3. QED
        BY <2>2, <2>3, <3>1, <4>1, <4>2
    <3>2. QED
      BY <2>1, <2>2, <2>3, <3>1
  <2>5. \A i, k \in DOMAIN all : all[i].who = all[k].who => i = k
    BY <2>4 DEF RowInv
  <2>6. QED
    BY <2>5 DEF OneRowEach, all
<1>2. QED
  BY <1>1, RowsHold, PTL

-----------------------------------------------------------------------------
(* What rows, jobs and answers say of the same check.                      *)

\* A job that is done with is not changed any more, but for a crash that loses its answer.
LEMMA DoneStays ==
    ASSUME TypeOK, [Next]_vars, NEW j \in Jobs, Done(j)
    PROVE  Done(j)' /\ job'[j].decision = job[j].decision /\ job'[j].version = job[j].version
<1>a. Checks \subseteq Jobs /\ Mutations \subseteq Jobs
  BY DEF Jobs
<1>1. CASE UNCHANGED job
  BY <1>1 DEF Done
<1>2. ASSUME NEW c \in Checks, Arrive(c) \/ Evaluate(c) \/ Provenance(c) \/ Issue(c) PROVE job'[j] = job[j]
  BY <1>2, <1>a, CheckStepIs DEF Done
<1>3. ASSUME NEW m \in Mutations, SwapEngine(m) PROVE job'[j] = job[j]
  BY <1>3, <1>a, SwapEngineIs DEF Done
<1>4. ASSUME NEW k \in Jobs, Lock(k) \/ GetLatest(k) PROVE job'[j] = job[j]
  BY <1>4, LockIs DEF Done
<1>5. ASSUME NEW k \in Jobs, AppendDecision(k) PROVE job'[j] = job[j]
  BY <1>5, AppendIs DEF Done
<1>6. CASE Crash
  BY <1>6, CrashIs DEF Done
<1>7. QED
  BY <1>1, <1>2, <1>3, <1>4, <1>5, <1>6
     DEF Done, Next, CheckStep, Append1, vars, Respond, Timeout, FinishOrphan, Finished

\* Where no transaction is abandoned, a row and an answer say what the job returned.
RecordedInv ==
    /\ orphan = <<>>
    /\ \A i \in 1..Len(chain) : /\ chain[i].decision = job[chain[i].who].decision
                                /\ chain[i].version = job[chain[i].who].version
    /\ \A c \in Checks : answer[c].told \in {"allow", "deny"} =>
         /\ Done(c) /\ job[c].decision = answer[c].told
         /\ answer[c].told = "allow" => answer[c].version = job[c].version

LEMMA RecordedStep ==
    ASSUME "orphan" \notin Faults, TypeOK, RowInv, RecordedInv, [Next]_vars
    PROVE  RecordedInv'
<1>a. /\ chain \in Seq(Row) /\ Len(chain) \in Nat
      /\ \A i \in 1..Len(chain) : chain[i].who \in Jobs /\ Done(chain[i].who)
  <2>1. chain \in Seq(Row) /\ Len(chain) \in Nat
    BY LenProperties DEF TypeOK
  <2>2. \A i \in 1..Len(chain) : chain[i] \in Row
    BY <2>1, ElementOfSeq
  <2>3. QED
    BY <2>1, <2>2 DEF Row, RowInv
<1>b. Checks \subseteq Jobs /\ answer \in [Checks -> Answer] /\ job \in [Jobs -> Job]
  BY DEF TypeOK, Jobs
<1>1. orphan' = <<>>
  <2>1. CASE orphan' = orphan
    BY <2>1 DEF RecordedInv
  <2>2. ASSUME NEW j \in Jobs, AppendDecision(j) PROVE orphan' = <<>>
    BY <2>2, AppendIs DEF RecordedInv
  <2>3. QED
    BY <2>1, <2>2, LockIs
       DEF Next, vars, Arrive, CheckStep, Evaluate, Provenance, Issue, Respond, Timeout, SwapEngine,
           Append1, Lock, GetLatest, FinishOrphan, Crash, Finished
<1>2. \A i \in 1..Len(chain) : /\ chain[i].decision = job'[chain[i].who].decision
                               /\ chain[i].version = job'[chain[i].who].version
  BY <1>a, DoneStays DEF RecordedInv
<1>3. \A i \in 1..Len(chain') : /\ chain'[i].decision = job'[chain'[i].who].decision
                                /\ chain'[i].version = job'[chain'[i].who].version
  <2>1. CASE chain' = chain
    BY <1>2, <2>1
  <2>2. ASSUME NEW j \in Jobs, AppendDecision(j), chain' # chain
        PROVE  \A i \in 1..Len(chain') : /\ chain'[i].decision = job'[chain'[i].who].decision
                                         /\ chain'[i].version = job'[chain'[i].who].version
    <3>1. chain' = Append(chain, RowOf(j)) /\ RowOf(j) \in Row
      BY <2>2, AppendIs, RowOfType
    <3>2. /\ Len(chain') = Len(chain) + 1 /\ chain'[Len(chain) + 1] = RowOf(j)
          /\ \A i \in 1..Len(chain) : chain'[i] = chain[i]
      BY <3>1, AppendedIs
    <3>3. /\ RowOf(j).who = j /\ RowOf(j).decision = job[j].decision
          /\ RowOf(j).version = job[j].version
      BY DEF RowOf
    <3>4. job'[j].decision = job[j].decision /\ job'[j].version = job[j].version
      BY <1>a, <2>2, AppendIs
    <3>5. \A i \in 1..Len(chain') : i \in 1..Len(chain) \/ i = Len(chain) + 1
      BY <1>a, <3>2
    <3>6. QED
      BY <1>2, <3>2, <3>3, <3>4, <3>5
  <2>3. CASE FinishOrphan
    BY <2>3 DEF FinishOrphan, RecordedInv
  <2>4. QED
    BY <2>1, <2>2, <2>3
       DEF Next, vars, Arrive, CheckStep, Evaluate, Provenance, Issue, Respond, Timeout, SwapEngine,
           Append1, Lock, GetLatest, Crash, Finished
<1>4. ASSUME NEW c \in Checks, answer'[c].told \in {"allow", "deny"}
      PROVE  /\ Done(c)' /\ job'[c].decision = answer'[c].told
             /\ answer'[c].told = "allow" => answer'[c].version = job'[c].version
  <2>1. CASE answer'[c] = answer[c]
    BY <1>b, <1>4, <2>1, DoneStays DEF RecordedInv
  <2>2. CASE Respond(c)
    <3>1. job[c].step = "returned" /\ UNCHANGED job /\ JobFits(c)
      BY <1>b, <2>2 DEF Respond, RowInv
    <3>2. CASE job[c].decision = "allow"
      BY <1>b, <2>2, <3>1, <3>2 DEF Respond, Done
    <3>3. CASE job[c].decision # "allow"
      <4>1. answer'[c].told = "deny"
        BY <1>b, <2>2, <3>3 DEF Respond, Told
      <4>2. job[c].decision = "deny"
        BY <3>1, <3>3 DEF JobFits
      <4>3. QED
        BY <3>1, <4>1, <4>2 DEF Done
    <3>4. QED
      BY <3>2, <3>3
  <2>3. CASE Arrive(c) \/ Timeout(c)
    BY <1>b, <1>4, <2>3 DEF Arrive, Timeout, Told
  <2>4. ASSUME NEW d \in Checks, d # c, Arrive(d) \/ Timeout(d) \/ Respond(d) PROVE answer'[c] = answer[c]
    BY <1>b, <2>4 DEF Arrive, Timeout, Respond
  <2>5. CASE Crash
    BY <1>4, <2>1, <2>5, CrashIs
  <2>6. CASE UNCHANGED answer
    BY <2>1, <2>6
  <2>7. QED
    BY <2>1, <2>2, <2>3, <2>4, <2>5, <2>6, LockIs, AppendIs
       DEF Next, vars, CheckStep, Evaluate, Provenance, Issue, SwapEngine,
           Append1, FinishOrphan, Finished
<1>5. QED
  BY <1>1, <1>3, <1>4 DEF RecordedInv

\* Where no transaction is abandoned, an answer and a row of the same check agree on the
\* decision and, for an ALLOW, on the version, also when the append failed and the ALLOW became
\* a DENY, and across a crash (EvaluateWithCredential, Check).
THEOREM AnswersAgree == ASSUME "orphan" \notin Faults PROVE Spec => []AnsweredAsRecorded
<1>1. Init => RecordedInv
  BY DEF Init, RecordedInv, Told
<1>2. TypeOK /\ RowInv /\ RecordedInv /\ [Next]_vars => RecordedInv'
  BY RecordedStep
<1>3. TypeOK /\ RecordedInv => AnsweredAsRecorded
  <2>1. TypeOK => DOMAIN chain = 1..Len(chain)
    BY LenProperties DEF TypeOK
  <2>2. QED
    BY <2>1 DEF RecordedInv, AnsweredAsRecorded
<1>4. QED
  BY <1>1, <1>2, <1>3, RowsHold, PTL DEF Spec

-----------------------------------------------------------------------------
(* The chain.                                                              *)

\* The mutex covers the read of the latest row and the insert, so what was read is still the
\* latest row at the insert.
ChainInv ==
    /\ orphan = <<>>
    /\ \A j \in Jobs : job[j].step \in {"latest", "append"} => mutex = j
    /\ \A j \in Jobs : job[j].step = "append" => job[j].prev = Len(chain)
    /\ \A i \in 1..Len(chain) : chain[i].prev = i - 1

LEMMA ChainStep ==
    ASSUME "orphan" \notin Faults, "read" \notin Faults, TypeOK, ChainInv, [Next]_vars
    PROVE  ChainInv'
<1>a. Len(chain) \in Nat
  BY LenProperties DEF TypeOK
<1>b. Checks \subseteq Jobs /\ Mutations \subseteq Jobs /\ NoOne \notin Jobs
  BY AuditAssumption DEF Jobs
<1>1. CASE UNCHANGED <<job, mutex, chain, orphan>>
  BY <1>1 DEF ChainInv
\* A step of one job before the mutex.
<1>2. ASSUME NEW k \in Jobs, \A j \in Jobs \ {k} : job'[j] = job[j],
             job'[k].step \notin {"latest", "append"}, UNCHANGED <<mutex, chain, orphan>>
      PROVE  ChainInv'
  <2>1. \A j \in Jobs : job'[j].step \in {"latest", "append"} => j # k /\ job'[j] = job[j]
    BY <1>2
  <2>2. QED
    BY <1>2, <2>1 DEF ChainInv
<1>3. ASSUME NEW c \in Checks, Arrive(c) \/ Evaluate(c) \/ Provenance(c) \/ Issue(c) PROVE ChainInv'
  <2>1. job'[c].step \notin {"latest", "append"}
    BY <1>3, CheckStepIs
  <2>2. QED
    BY <1>2, <1>3, <1>b, <2>1, CheckStepIs
<1>4. ASSUME NEW m \in Mutations, SwapEngine(m) PROVE ChainInv'
  <2>1. job'[m].step \notin {"latest", "append"}
    BY <1>4, SwapEngineIs
  <2>2. QED
    BY <1>2, <1>4, <1>b, <2>1, SwapEngineIs
<1>5. ASSUME NEW j \in Jobs, Lock(j) \/ GetLatest(j) PROVE ChainInv'
  <2>1. /\ \A k \in Jobs \ {j} : job'[k] = job[k]
        /\ UNCHANGED <<chain, orphan>>
    BY <1>5, LockIs
  <2>2. CASE job'[j].step = "latest" /\ mutex = NoOne /\ mutex' = j
    BY <1>b, <2>1, <2>2 DEF ChainInv
  <2>3. CASE job[j].step = "latest" /\ job'[j].step = "append" /\ UNCHANGED mutex /\ job'[j].prev = Len(chain)
    BY <2>1, <2>3 DEF ChainInv
  <2>4. QED
    BY <1>5, <2>2, <2>3, LockIs
<1>6. ASSUME NEW j \in Jobs, AppendDecision(j) PROVE ChainInv'
  <2>1. /\ job[j].step = "append" /\ job'[j].step = "returned"
        /\ \A k \in Jobs \ {j} : job'[k] = job[k]
    BY <1>6, AppendIs
  <2>2. \A k \in Jobs : job'[k].step \notin {"latest", "append"}
    BY <2>1 DEF ChainInv
  <2>3. orphan' = <<>>
    BY <1>6, AppendIs DEF ChainInv
  <2>4. CASE chain' = chain
    BY <2>2, <2>3, <2>4 DEF ChainInv
  <2>5. CASE chain' = Append(chain, RowOf(j))
    <3>1. /\ Len(chain') = Len(chain) + 1 /\ chain'[Len(chain) + 1] = RowOf(j)
          /\ \A i \in 1..Len(chain) : chain'[i] = chain[i]
      BY <2>5, RowOfType, AppendedIs
    <3>2. RowOf(j).prev = Len(chain)
      BY <2>1 DEF RowOf, ChainInv
    <3>3. \A i \in 1..Len(chain') : chain'[i].prev = i - 1
      BY <1>a, <3>1, <3>2 DEF ChainInv
    <3>4. QED
      BY <2>2, <2>3, <3>3 DEF ChainInv
  <2>6. QED
    BY <1>6, <2>4, <2>5, AppendIs
<1>7. CASE FinishOrphan
  BY <1>7 DEF FinishOrphan, ChainInv
<1>8. CASE Crash
  <2>1. \A j \in Jobs : job'[j].step \notin {"latest", "append"}
    BY <1>8, CrashIs
  <2>2. QED
    BY <1>8, <2>1, CrashIs DEF ChainInv
<1>9. QED
  BY <1>1, <1>3, <1>4, <1>5, <1>6, <1>7, <1>8
     DEF Next, CheckStep, Append1, vars, Respond, Timeout, Finished

\* Where the latest row can be read and no transaction is abandoned, every row hashes the row
\* before it, however many checks and activations append at once, whatever inserts are
\* rejected, and across crashes (EvaluateWithCredential, OnMutation, VerifyWorkspace).
THEOREM ChainStaysIntact ==
    ASSUME "orphan" \notin Faults, "read" \notin Faults PROVE Spec => []ChainIntact
<1>1. Init => ChainInv
  BY DEF Init, ChainInv, Fresh
<1>2. TypeOK /\ ChainInv /\ [Next]_vars => ChainInv'
  BY ChainStep
<1>3. TypeOK /\ ChainInv => ChainIntact
  <2>1. TypeOK => DOMAIN chain = 1..Len(chain)
    BY LenProperties DEF TypeOK
  <2>2. QED
    BY <2>1 DEF ChainInv, ChainIntact
<1>4. QED
  BY <1>1, <1>2, <1>3, TypeCorrect, PTL DEF Spec

-----------------------------------------------------------------------------
(* The decision path implements the ledger.                                *)

\* The mapping of ImplementsLedger.
Entries == [i \in DOMAIN chain |-> [who |-> chain[i].who, decision |-> chain[i].decision]]
ToldTo == [c \in Checks |->
             CASE answer[c].told = "allow" -> "allow"
               [] answer[c].told \in {"deny", "timeout"} -> "deny"
               [] OTHER -> "none"]

Entry(row) == [who |-> row.who, decision |-> row.decision]

LEMMA IsSeqOf ==
    ASSUME NEW S, NEW n \in Nat, NEW f \in [1..n -> S]
    PROVE  f \in Seq(S)
<1>1. f \in UNION {[1..m -> S] : m \in Nat}
  OBVIOUS
<1>2. Seq(S) = UNION {[1..m -> S] : m \in Nat}
  BY SeqDef
<1>3. QED
  BY <1>1, <1>2, Zenon

LEMMA EntriesAre ==
    ASSUME TypeOK
    PROVE  /\ Entries \in Seq([who: Jobs, decision: Decisions]) /\ Len(Entries) = Len(chain)
           /\ \A i \in 1..Len(chain) : Entries[i] = Entry(chain[i])
           /\ DOMAIN Entries = 1..Len(chain)
<1>1. chain \in Seq(Row) /\ Len(chain) \in Nat /\ DOMAIN chain = 1..Len(chain)
  BY LenProperties DEF TypeOK
<1>2. \A i \in 1..Len(chain) : chain[i] \in Row
  BY <1>1, ElementOfSeq
<1>3. Entries \in [1..Len(chain) -> [who: Jobs, decision: Decisions]]
  BY <1>1, <1>2 DEF Entries, Row
<1>4. Entries \in Seq([who: Jobs, decision: Decisions])
  BY <1>1, <1>3, IsSeqOf
<1>5. DOMAIN Entries = 1..Len(chain) /\ DOMAIN Entries = 1..Len(Entries) /\ Len(Entries) \in Nat
  BY <1>3, <1>4, LenProperties
<1>6. Len(Entries) = Len(chain)
  BY <1>1, <1>5
<1>7. QED
  BY <1>1, <1>4, <1>5, <1>6 DEF Entries, Entry

LEMMA EntriesGrow ==
    ASSUME TypeOK, TypeOK', NEW row \in Row, chain' = Append(chain, row)
    PROVE  Entries' = Append(Entries, Entry(row))
<1> DEFINE S == [who: Jobs, decision: Decisions]
<1>1. /\ Entries \in Seq(S) /\ Len(Entries) = Len(chain)
      /\ \A i \in 1..Len(chain) : Entries[i] = Entry(chain[i])
  BY EntriesAre
<1>2. Len(chain) \in Nat /\ Len(chain') = Len(chain) + 1 /\ chain'[Len(chain) + 1] = row
      /\ \A i \in 1..Len(chain) : chain'[i] = chain[i]
  BY AppendedIs
<1>3. Entry(row) \in S
  BY DEF Entry, Row
<1>4. DOMAIN chain' = 1..Len(chain')
  BY LenProperties DEF TypeOK
<1>5. \A i \in 1..Len(chain') : Entries'[i] = Entry(chain'[i])
  BY <1>4 DEF Entries, Entry
<1>6. Entries' \in [1..Len(chain') -> S]
  <2>1. chain' \in Seq(Row)
    BY DEF TypeOK
  <2>2. \A i \in 1..Len(chain') : chain'[i] \in Row
    BY <2>1, ElementOfSeq
  <2>3. QED
    BY <1>4, <2>2 DEF Entries, Row
<1>7. Entries' \in Seq(S) /\ Len(Entries') = Len(chain')
  <2>1. Entries' \in Seq(S)
    <3>1. Len(chain') \in Nat
      BY <1>2
    <3>2. QED
      BY <1>6, <3>1, IsSeqOf
  <2>2. DOMAIN Entries' = 1..Len(chain') /\ DOMAIN Entries' = 1..Len(Entries') /\ Len(Entries') \in Nat
    BY <1>6, <2>1, LenProperties
  <2>3. QED
    BY <1>2, <2>1, <2>2
<1>8. /\ Append(Entries, Entry(row)) \in Seq(S)
      /\ Len(Append(Entries, Entry(row))) = Len(chain) + 1
      /\ \A i \in 1..Len(chain) : Append(Entries, Entry(row))[i] = Entries[i]
      /\ Append(Entries, Entry(row))[Len(chain) + 1] = Entry(row)
  BY <1>1, <1>3, AppendProperties
<1>9. \A i \in 1..Len(chain') : i \in 1..Len(chain) \/ i = Len(chain) + 1
  BY <1>2
<1>10. \A i \in 1..Len(chain') : Entries'[i] = Append(Entries, Entry(row))[i]
  BY <1>1, <1>2, <1>5, <1>8, <1>9
<1> HIDE DEF S
<1>11. QED
  BY <1>2, <1>7, <1>8, <1>10, SeqEqual

\* A check that has not arrived has been told nothing.
NotYetTold == \A c \in Checks : job[c].step = "new" => answer[c].told = "none"

LEMMA NotYetToldStep ==
    ASSUME TypeOK, NotYetTold, [Next]_vars
    PROVE  NotYetTold'
<1>a. Checks \subseteq Jobs /\ Mutations \subseteq Jobs /\ Checks \cap Mutations = {} /\ answer \in [Checks -> Answer]
  BY AuditAssumption DEF Jobs, TypeOK
<1> SUFFICES ASSUME NEW c \in Checks, job'[c].step = "new" PROVE answer'[c].told = "none"
  BY DEF NotYetTold
<1>1. CASE UNCHANGED <<job, answer>>
  BY <1>1 DEF NotYetTold
<1>2. ASSUME NEW d \in Checks, Arrive(d) PROVE answer'[c].told = "none"
  <2>1. d # c /\ job'[c] = job[c]
    BY <1>2, <1>a, CheckStepIs
  <2>2. QED
    BY <1>2, <1>a, <2>1 DEF Arrive, NotYetTold
<1>3. ASSUME NEW d \in Checks, Evaluate(d) \/ Provenance(d) \/ Issue(d) PROVE answer'[c].told = "none"
  <2>1. d # c /\ job'[c] = job[c] /\ UNCHANGED answer
    BY <1>3, <1>a, CheckStepIs DEF Evaluate, Provenance, Issue
  <2>2. QED
    BY <2>1 DEF NotYetTold
<1>4. ASSUME NEW d \in Checks, Respond(d) \/ Timeout(d) PROVE answer'[c].told = "none"
  BY <1>4, <1>a DEF Respond, Timeout, NotYetTold
<1>5. ASSUME NEW m \in Mutations, SwapEngine(m) PROVE answer'[c].told = "none"
  <2>1. job'[c] = job[c] /\ UNCHANGED answer
    BY <1>5, <1>a, SwapEngineIs
  <2>2. QED
    BY <2>1 DEF NotYetTold
<1>6. ASSUME NEW j \in Jobs, Lock(j) \/ GetLatest(j) \/ AppendDecision(j) PROVE answer'[c].told = "none"
  <2>1. job'[c] = job[c] /\ UNCHANGED answer
    BY <1>6, <1>a, LockIs, AppendIs
  <2>2. QED
    BY <2>1 DEF NotYetTold
<1>7. CASE Crash
  BY <1>7, <1>a, CrashIs DEF NotYetTold
<1>8. QED
  BY <1>1, <1>2, <1>3, <1>4, <1>5, <1>6, <1>7
     DEF Next, CheckStep, Append1, vars, FinishOrphan, Finished

\* One answer more.
LEMMA ToldOne ==
    ASSUME TypeOK, NEW c \in Checks, NEW a, answer' = [answer EXCEPT ![c] = a]
    PROVE  ToldTo' = [ToldTo EXCEPT ![c] = CASE a.told = "allow" -> "allow"
                                              [] a.told \in {"deny", "timeout"} -> "deny"
                                              [] OTHER -> "none"]
<1>1. answer \in [Checks -> Answer] /\ answer'[c] = a /\ \A d \in Checks \ {c} : answer'[d] = answer[d]
  BY DEF TypeOK
<1>2. QED
  BY <1>1 DEF ToldTo

LEMMA LedgerStep ==
    ASSUME TypeOK, TypeOK', RowInv, AllowInv, NotYetTold, [Next]_vars
    PROVE  [Ledger!Next]_(Ledger!vars)
<1>a. /\ Checks \subseteq Jobs /\ Mutations \subseteq Jobs /\ Jobs = Checks \cup Mutations
      /\ answer \in [Checks -> Answer]
  BY DEF TypeOK, Jobs
<1>b. SUFFICES \/ Entries' = Entries /\ ToldTo' = ToldTo
               \/ \E c \in Checks : Ledger!Allow(c) \/ Ledger!Deny(c)
               \/ \E c \in Checks, d \in {"allow", "deny"} : Ledger!Record(c, d)
               \/ \E m \in Mutations : Ledger!Record(m, "mutation")
  BY DEF Ledger!Next, Ledger!vars, Entries, ToldTo
<1>1. CASE UNCHANGED <<chain, answer>>
  BY <1>1 DEF Entries, ToldTo
\* A row is committed.
<1>2. ASSUME NEW row \in Row, chain' = Append(chain, row), UNCHANGED answer, Fits(row),
             \A i \in 1..Len(chain) : chain[i].who # row.who
      PROVE  \/ \E c \in Checks, d \in {"allow", "deny"} : Ledger!Record(c, d)
             \/ \E m \in Mutations : Ledger!Record(m, "mutation")
  <2>1. Entries' = Append(Entries, [who |-> row.who, decision |-> row.decision])
    BY <1>2, EntriesGrow DEF Entry
  <2>2. ~\E i \in DOMAIN Entries : Entries[i].who = row.who
    BY <1>2, EntriesAre DEF Entry
  <2>3. ToldTo' = ToldTo
    BY <1>2 DEF ToldTo
  <2>4. Ledger!Record(row.who, row.decision)
    BY <2>1, <2>2, <2>3 DEF Ledger!Record, Ledger!Recorded, Entries, ToldTo
  <2>5. row.who \in Jobs
    BY DEF Row
  <2>6. QED
    BY <1>2, <1>a, <2>4, <2>5 DEF Fits
<1>3. ASSUME NEW c \in Checks, Arrive(c) PROVE UNCHANGED <<Entries, ToldTo>>
  <2>1. answer[c].told = "none" /\ answer' = [answer EXCEPT ![c] = Told("waiting")] /\ UNCHANGED chain
    BY <1>3 DEF Arrive, NotYetTold
  <2>2. Told("waiting").told = "waiting"
    BY DEF Told
  <2>3. ToldTo' = [ToldTo EXCEPT ![c] = "none"]
    BY <2>1, <2>2, ToldOne
  <2>4. ToldTo[c] = "none"
    BY <2>1 DEF ToldTo
  <2>5. QED
    BY <2>1, <2>3, <2>4 DEF Entries, ToldTo
<1>4. ASSUME NEW c \in Checks, Respond(c) PROVE Ledger!Allow(c) \/ Ledger!Deny(c)
  <2>1. ToldTo[c] = "none" /\ Entries' = Entries /\ job[c].step = "returned"
    BY <1>4 DEF Respond, ToldTo, Entries
  <2>2. CASE job[c].decision = "allow"
    <3>1. PICK i \in DOMAIN chain : chain[i].who = c /\ chain[i].decision = "allow"
      BY <2>1, <2>2 DEF AllowInv, Durable
    <3>2. i \in DOMAIN Entries /\ Entries[i] = [who |-> c, decision |-> "allow"]
      BY <3>1 DEF Entries
    <3> DEFINE a == [told |-> "allow", version |-> job[c].version, credential |-> job[c].credential]
    <3>3. answer' = [answer EXCEPT ![c] = a] /\ a.told = "allow"
      BY <1>4, <2>2 DEF Respond
    <3> HIDE DEF a
    <3>4. ToldTo' = [ToldTo EXCEPT ![c] = "allow"]
      BY <3>3, ToldOne
    <3>5. QED
      BY <2>1, <3>2, <3>4 DEF Ledger!Allow, Entries, ToldTo
  <2>3. CASE job[c].decision # "allow"
    <3>1. answer' = [answer EXCEPT ![c] = Told("deny")] /\ Told("deny").told = "deny"
      BY <1>4, <2>3 DEF Respond, Told
    <3>2. ToldTo' = [ToldTo EXCEPT ![c] = "deny"]
      BY <3>1, ToldOne
    <3>3. QED
      BY <2>1, <3>2 DEF Ledger!Deny, Entries, ToldTo
  <2>4. QED
    BY <2>2, <2>3
<1>5. ASSUME NEW c \in Checks, Timeout(c) PROVE Ledger!Deny(c)
  <2>1. ToldTo[c] = "none" /\ Entries' = Entries
    BY <1>5 DEF Timeout, ToldTo, Entries
  <2>2. answer' = [answer EXCEPT ![c] = Told("timeout")] /\ Told("timeout").told = "timeout"
    BY <1>5 DEF Timeout, Told
  <2>3. ToldTo' = [ToldTo EXCEPT ![c] = "deny"]
    BY <2>2, ToldOne
  <2>4. QED
    BY <2>1, <2>3 DEF Ledger!Deny, Entries, ToldTo
<1>6. ASSUME NEW j \in Jobs, AppendDecision(j), chain' # chain
      PROVE  \/ \E c \in Checks, d \in {"allow", "deny"} : Ledger!Record(c, d)
             \/ \E m \in Mutations : Ledger!Record(m, "mutation")
  <2>1. /\ chain' = Append(chain, RowOf(j)) /\ UNCHANGED answer /\ job[j].step = "append"
        /\ RowOf(j) \in Row
    BY <1>6, AppendIs, RowOfType
  <2>2. RowOf(j).who = j /\ Fits(RowOf(j))
    BY <2>1 DEF RowOf, Fits, RowInv, JobFits
  <2>3. \A i \in 1..Len(chain) : chain[i].who # j
    BY <2>1 DEF RowInv, Done
  <2>4. QED
    BY <1>2, <2>1, <2>2, <2>3
<1>7. ASSUME FinishOrphan, chain' # chain
      PROVE  \/ \E c \in Checks, d \in {"allow", "deny"} : Ledger!Record(c, d)
             \/ \E m \in Mutations : Ledger!Record(m, "mutation")
  <2>1. /\ orphan[1] \in Row /\ 1 \in 1..Len(orphan) /\ chain' = Append(chain, orphan[1])
        /\ UNCHANGED answer
    BY <1>7, FinishIs DEF RowInv
  <2>2. Fits(orphan[1]) /\ \A i \in 1..Len(chain) : chain[i].who # orphan[1].who
    BY <2>1 DEF RowInv
  <2>3. QED
    BY <1>2, <2>1, <2>2
<1>8. CASE Crash
  <2>1. \A c \in Checks : \/ answer'[c] = answer[c]
                          \/ answer[c].told = "waiting" /\ answer'[c].told = "lost"
    BY <1>8, CrashIs
  <2>2. ToldTo' = ToldTo
    BY <2>1 DEF ToldTo
  <2>3. QED
    BY <1>8, <2>2 DEF Crash, Entries
<1>9. QED
  BY <1>1, <1>3, <1>4, <1>5, <1>6, <1>7, <1>8
     DEF Next, CheckStep, Evaluate, Provenance, Issue, SwapEngine, Append1, Lock, GetLatest,
         AppendDecision, FinishOrphan, Finished, vars

\* The decision path implements DecisionLedger whatever fails: at most one entry for each check
\* and each mutation in a ledger that only grows, one answer for each check, and an "allow" only
\* on an entry that says so.
THEOREM DecisionsImplementLedger == Spec => ImplementsLedger
<1>1. Init => NotYetTold /\ Ledger!Init
  <2> SUFFICES ASSUME Init PROVE NotYetTold /\ Ledger!Init
    OBVIOUS
  <2>1. TypeOK /\ Len(chain) = 0
    <3>1. Init => TypeOK
      BY AuditAssumption DEF Init, TypeOK, Fresh, Told, Job, Answer, Steps, Decisions, Row
    <3>2. QED
      BY <3>1 DEF Init
  <2>2. Entries = <<>>
    <3>1. Entries \in Seq([who: Jobs, decision: Decisions]) /\ Len(Entries) = 0
      BY <2>1, EntriesAre
    <3>2. QED
      BY <3>1, EmptySeq
  <2>3. ToldTo = [c \in Checks |-> "none"]
    BY DEF Init, ToldTo, Told
  <2>4. QED
    BY <2>2, <2>3 DEF Init, NotYetTold, Told, Ledger!Init, Entries, ToldTo
<1>2. TypeOK /\ NotYetTold /\ [Next]_vars => NotYetTold'
  BY NotYetToldStep
<1>3. TypeOK /\ TypeOK' /\ AllowInv /\ [Next]_vars => AllowInv'
  BY AllowInvStep
<1>4. TypeOK /\ TypeOK' /\ RowInv /\ AllowInv /\ NotYetTold /\ [Next]_vars
        => [Ledger!Next]_(Ledger!vars)
  BY LedgerStep
<1>5. QED
  BY <1>1, <1>2, <1>3, <1>4, AllowInvInit, RowsHold, PTL DEF Spec, ImplementsLedger, Ledger!Spec

=============================================================================
