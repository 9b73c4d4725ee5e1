--------------------------- MODULE LifecycleProofs ---------------------------
(***************************************************************************)
(* Proofs about CapabilityLifecycle, for any decisions, sessions and       *)
(* bounds, and about AgentLifecycle: what holds for any number of          *)
(* concurrent administrators, and what holds until two of them overlap.    *)
(***************************************************************************)
EXTENDS CapabilityLifecycle, AgentLifecycle, TLAPS

(***************************************************************************)
(* Review, issuance and consumption of capabilities.                       *)
(***************************************************************************)

\* A request under way concerns a decision and is somewhere in its checks.
Subject ==
    \A s \in Sessions :
        /\ session[s].pc # "idle" => session[s].on \in Decisions
        /\ session[s].pc \in {"issue", "consume"} =>
               session[s].checked <= NumChecks(session[s].on)
        /\ session[s].pc = "update" => session[s].checked = NumChecks(session[s].on)

\* What a request read about its decision before it began to write still holds.
Justification ==
    \A s \in Sessions :
        /\ session[s].pc \in {"review", "append"} => outcome[session[s].on] = "HUMAN_REVIEW"
        /\ session[s].pc \in {"issue", "signed"} => Authorized(session[s].on)
        /\ session[s].pc \in {"consume", "update"} => capability[session[s].on].issued

\* A party that had ended when the request began is still ended, so none of
\* the checks passed so far can have been a check of it.
Freshness ==
    \A s \in Sessions :
        /\ \A p \in session[s].ended : standing[p] = "ended"
        /\ session[s].pc \in {"consume", "update"} =>
               \A i \in 1..session[s].checked : Checks[i] \notin session[s].ended

ConsumedIssued == \A d \in Decisions : capability[d].consumed => capability[d].issued

IInv ==
    /\ TypeOK
    /\ Subject
    /\ Justification
    /\ Freshness
    /\ ConsumedIssued
    /\ CapabilityJustified
    /\ SingleUse
    /\ ReviewEvidenceExact

-----------------------------------------------------------------------------
\* Every position of Checks names a party, and the positions a decision uses
\* cover exactly the parties it depends on.
LEMMA ChecksCover ==
    /\ \A i \in 1..4 : Checks[i] \in Parties
    /\ \A d : \A p \in DependsOn(d) : \E i \in 1..NumChecks(d) : Checks[i] = p
    /\ \A d : NumChecks(d) \in {2, 4}
<1>1. /\ Checks[1] = "organization"
      /\ Checks[2] = "agent"
      /\ Checks[3] = "identity"
      /\ Checks[4] = "binding"
  BY DEF Checks
<1>2. \A d : NumChecks(d) \in {2, 4}  BY DEF NumChecks
<1>3. \A d : \A p \in DependsOn(d) : \E i \in 1..NumChecks(d) : Checks[i] = p
  <2> SUFFICES ASSUME NEW d, NEW p \in DependsOn(d)
               PROVE  \E i \in 1..NumChecks(d) : Checks[i] = p
    OBVIOUS
  <2>1. CASE d \in Mediated
    BY <1>1, <2>1 DEF NumChecks, DependsOn, Parties
  <2>2. CASE d \notin Mediated
    BY <1>1, <2>2 DEF NumChecks, DependsOn
  <2> QED  BY <2>1, <2>2
<1>4. \A i \in 1..4 : i \in {1, 2, 3, 4}  OBVIOUS
<1>5. \A i \in 1..4 : Checks[i] \in Parties  BY <1>1, <1>4 DEF Parties
<1> QED  BY <1>2, <1>3, <1>5

\* The type of every variable is preserved by every step.
LEMMA TypeStep ==
    TypeOK /\ [Next]_vars => TypeOK'
<1> SUFFICES ASSUME TypeOK, [Next]_vars PROVE TypeOK'
  OBVIOUS
<1> USE NoDecisionAssumption, TTLAssumption
<1> USE DEF TypeOK
<1>0. Idle \in Session  BY DEF Idle, Session, Verdicts
<1>1. ASSUME NEW s \in Sessions, NEW d \in Decisions, NEW v \in Verdicts, ReviewCheck(s, d, v)
      PROVE  TypeOK'
  BY <1>1, <1>0 DEF ReviewCheck, Session, Idle, Verdicts, dataVars
<1>2. ASSUME NEW s \in Sessions, ReviewAppend(s) PROVE TypeOK'
  BY <1>2 DEF ReviewAppend, Session, dataVars
<1>3. ASSUME NEW s \in Sessions, ReviewCommit(s) PROVE TypeOK'
  <2>1. session' \in [Sessions -> Session]  BY <1>0, <1>3 DEF ReviewCommit, Finish
  <2>2. session[s] \in Session  OBVIOUS
  <2>3. resolution' \in [Decisions -> Verdicts \cup {"none"}]
    BY <1>3, <2>2 DEF ReviewCommit, Session
  <2>4. reviewed' \in [Decisions -> Nat]
    BY <1>3 DEF ReviewCommit
  <2> QED  BY <1>3, <2>1, <2>3, <2>4 DEF ReviewCommit
<1>4. ASSUME NEW s \in Sessions, NEW d \in Decisions, IssueCheck(s, d) PROVE TypeOK'
  BY <1>4, <1>0 DEF IssueCheck, Session, Idle, Verdicts, dataVars
<1>5. ASSUME NEW s \in Sessions, CheckParty(s) PROVE TypeOK'
  <2>1. session[s] \in Session /\ session[s].checked + 1 \in 0..4
    BY <1>5, ChecksCover DEF CheckParty, Checking, Session
  <2>2. [session[s] EXCEPT !.checked = @ + 1] \in Session
    BY <2>1 DEF Session
  <2>3. session' \in [Sessions -> Session]
    BY <1>5, <1>0, <2>2 DEF CheckParty, Finish
  <2> QED  BY <1>5, <2>3 DEF CheckParty, dataVars
<1>6. ASSUME NEW s \in Sessions, SignToken(s) PROVE TypeOK'
  <2>1. session[s] \in Session /\ clock + TTL \in Nat  OBVIOUS
  <2>2. [session[s] EXCEPT !.pc = "signed", !.expires = clock + TTL] \in Session
    BY <2>1 DEF Session
  <2> QED  BY <1>6, <2>2 DEF SignToken, dataVars
<1>7. ASSUME NEW s \in Sessions, IssueCommit(s) PROVE TypeOK'
  <2>1. session' \in [Sessions -> Session]  BY <1>0, <1>7 DEF IssueCommit, Finish
  <2>2. session[s].expires \in Nat  BY DEF Session
  <2> DEFINE row == [issued |-> TRUE, expires |-> session[s].expires, consumed |-> FALSE]
  <2>4. row \in Capability  BY <2>2 DEF Capability
  <2>5. \/ capability' = [capability EXCEPT ![session[s].on] = row]
        \/ capability' = capability
    BY <1>7 DEF IssueCommit
  <2> HIDE DEF row
  <2>3. capability' \in [Decisions -> Capability]
    BY <2>4, <2>5
  <2> QED  BY <1>7, <2>1, <2>3 DEF IssueCommit
<1>8. ASSUME NEW s \in Sessions, NEW d \in Decisions, ConsumeVerify(s, d) PROVE TypeOK'
  <2> DEFINE gone == {p \in Parties : standing[p] = "ended"}
  <2>1. gone \subseteq Parties  OBVIOUS
  <2> HIDE DEF gone
  <2>2. [Idle EXCEPT !.pc = "consume", !.on = d, !.ended = gone] \in Session
    BY <2>1, <1>0 DEF Session, Idle
  <2> QED  BY <1>8, <2>2 DEF ConsumeVerify, dataVars, gone
<1>9. ASSUME NEW s \in Sessions, FreshnessDone(s) PROVE TypeOK'
  BY <1>9 DEF FreshnessDone, Session, dataVars
<1>10. ASSUME NEW s \in Sessions, ConsumeCommit(s) PROVE TypeOK'
  <2>1. session' \in [Sessions -> Session]  BY <1>0, <1>10 DEF ConsumeCommit, Finish
  <2> DEFINE row == [capability[session[s].on] EXCEPT !.consumed = TRUE]
  <2>4. ASSUME session[s].on \in Decisions PROVE row \in Capability
    <3>1. capability[session[s].on] \in Capability  BY <2>4
    <3> HIDE DEF TypeOK
    <3> QED  BY <3>1 DEF Capability
  <2>5. \/ capability' = [capability EXCEPT ![session[s].on] = row]
        \/ capability' = capability
    BY <1>10 DEF ConsumeCommit
  <2> HIDE DEF row
  <2>2. capability' \in [Decisions -> Capability]
    BY <2>4, <2>5
  <2>3. granted' \in [Decisions -> Nat]  BY <1>10 DEF ConsumeCommit
  <2> QED  BY <1>10, <2>1, <2>2, <2>3 DEF ConsumeCommit
<1>11. ASSUME NEW s \in Sessions, Abandon(s) PROVE TypeOK'
  <2>1. session' \in [Sessions -> Session]  BY <1>0, <1>11 DEF Abandon, Finish
  <2>2. chainLock' \in {{}} \cup {{u} : u \in Sessions}
    BY <1>11 DEF Abandon
  <2> QED  BY <1>11, <2>1, <2>2 DEF Abandon, dataVars
<1>12. ASSUME NEW p \in Parties, Pause(p) \/ Resume(p) \/ EndParty(p) PROVE TypeOK'
  BY <1>12 DEF Pause, Resume, EndParty, dataVars
<1>13. CASE Tick  BY <1>13 DEF Tick, dataVars
<1>14. CASE UNCHANGED vars  BY <1>14 DEF vars
<1> QED
  BY <1>1, <1>2, <1>3, <1>4, <1>5, <1>6, <1>7, <1>8, <1>9, <1>10, <1>11, <1>12, <1>13, <1>14
     DEF Next, Step

-----------------------------------------------------------------------------
\* Nothing a request has read about its decision or an ended party is ever
\* undone: decisions, resolutions and capabilities are write-once, and the
\* end of a party is final.
LEMMA WriteOnce ==
    ASSUME IInv, [Next]_vars
    PROVE  /\ outcome' = outcome
           /\ \A d \in Decisions : resolution[d] # "none" => resolution'[d] = resolution[d]
           /\ \A d \in Decisions : capability[d].issued => capability'[d].issued
           /\ \A p \in Parties : standing[p] = "ended" => standing'[p] = "ended"
<1> USE DEF IInv, TypeOK, dataVars
<1>1. ASSUME NEW s \in Sessions, ReviewCommit(s)
      PROVE  /\ UNCHANGED <<outcome, capability, standing>>
             /\ \A d \in Decisions : resolution[d] # "none" => resolution'[d] = resolution[d]
  BY <1>1 DEF ReviewCommit
<1>2. ASSUME NEW s \in Sessions, IssueCommit(s)
      PROVE  /\ UNCHANGED <<outcome, resolution, standing>>
             /\ \A d \in Decisions : capability[d].issued => capability'[d].issued
  BY <1>2 DEF IssueCommit
<1>3. ASSUME NEW s \in Sessions, ConsumeCommit(s)
      PROVE  /\ UNCHANGED <<outcome, resolution, standing>>
             /\ \A d \in Decisions : capability[d].issued => capability'[d].issued
  BY <1>3 DEF ConsumeCommit, Capability
<1>4. ASSUME NEW p \in Parties, Pause(p) \/ Resume(p) \/ EndParty(p)
      PROVE  /\ UNCHANGED <<outcome, resolution, capability>>
             /\ \A q \in Parties : standing[q] = "ended" => standing'[q] = "ended"
  BY <1>4 DEF Pause, Resume, EndParty
<1>5. ASSUME NEW s \in Sessions,
             \/ \E d \in Decisions, v \in Verdicts : ReviewCheck(s, d, v)
             \/ \E d \in Decisions : IssueCheck(s, d) \/ ConsumeVerify(s, d)
             \/ ReviewAppend(s) \/ CheckParty(s) \/ SignToken(s) \/ FreshnessDone(s)
             \/ Abandon(s)
      PROVE  UNCHANGED <<outcome, resolution, capability, standing>>
  BY <1>5 DEF ReviewCheck, IssueCheck, ConsumeVerify, ReviewAppend, CheckParty, SignToken,
              FreshnessDone, Abandon
<1>6. Tick \/ UNCHANGED vars => UNCHANGED <<outcome, resolution, capability, standing>>
  BY DEF Tick, vars
<1> QED  BY <1>1, <1>2, <1>3, <1>4, <1>5, <1>6 DEF Next, Step

\* How one step can change one session: not at all, by ending its request, by
\* starting one, or by moving the request it is running along.
Begins(q) ==
    /\ q.on \in Decisions
    /\ q.checked = 0
    /\ \/ q.pc = "review" /\ q.ended = {} /\ outcome[q.on] = "HUMAN_REVIEW"
       \/ q.pc = "issue" /\ q.ended = {} /\ Authorized(q.on)
       \/ /\ q.pc = "consume" /\ capability[q.on].issued
          /\ q.ended = {p \in Parties : standing[p] = "ended"}

Advances(r, q) ==
    /\ q.on = r.on /\ q.ended = r.ended
    /\ \/ r.pc = "review" /\ q.pc = "append"
       \/ r.pc = "issue" /\ q.pc = "signed"
       \/ r.pc = "consume" /\ q.pc = "update" /\ q.checked = r.checked
                           /\ r.checked = NumChecks(r.on)
       \/ /\ r.pc \in {"issue", "consume"} /\ q.pc = r.pc
          /\ r.checked < NumChecks(r.on) /\ q.checked = r.checked + 1
          /\ standing[Checks[r.checked + 1]] = "active"

\* Each step leaves a session alone, ends, begins or advances its request.
LEMMA SessionMoves ==
    ASSUME TypeOK, [Next]_vars, NEW u \in Sessions
    PROVE  \/ session'[u] = session[u]
           \/ session'[u] = Idle
           \/ Begins(session'[u])
           \/ Advances(session[u], session'[u])
<1> DEFINE Goal == \/ session'[u] = session[u]
                   \/ session'[u] = Idle
                   \/ Begins(session'[u])
                   \/ Advances(session[u], session'[u])
<1>0. session \in [Sessions -> Session] /\ session[u] \in Session  BY DEF TypeOK
<1>1. ASSUME NEW s \in Sessions, NEW d \in Decisions, NEW v \in Verdicts, ReviewCheck(s, d, v)
      PROVE  Goal
  <2>1. CASE u = s
    <3>1. session'[u] = [Idle EXCEPT !.pc = "review", !.on = d, !.verdict = v]
      BY <1>0, <1>1, <2>1 DEF ReviewCheck
    <3> QED  BY <1>1, <3>1 DEF Begins, Idle, ReviewCheck
  <2> QED  BY <1>0, <1>1, <2>1 DEF ReviewCheck
<1>2. ASSUME NEW s \in Sessions, NEW d \in Decisions, IssueCheck(s, d)
      PROVE  Goal
  <2>1. CASE u = s
    <3>1. session'[u] = [Idle EXCEPT !.pc = "issue", !.on = d]
      BY <1>0, <1>2, <2>1 DEF IssueCheck
    <3> QED  BY <1>2, <3>1 DEF Begins, Idle, IssueCheck
  <2> QED  BY <1>0, <1>2, <2>1 DEF IssueCheck
<1>3. ASSUME NEW s \in Sessions, NEW d \in Decisions, ConsumeVerify(s, d)
      PROVE  Goal
  <2> DEFINE gone == {p \in Parties : standing[p] = "ended"}
  <2>1. CASE u = s
    <3>1. session'[u] = [Idle EXCEPT !.pc = "consume", !.on = d, !.ended = gone]
      BY <1>0, <1>3, <2>1 DEF ConsumeVerify
    <3>2. capability[d].issued  BY <1>3 DEF ConsumeVerify
    <3> HIDE DEF gone
    <3>3. /\ session'[u].pc = "consume" /\ session'[u].on = d
          /\ session'[u].ended = gone /\ session'[u].checked = 0
      BY <3>1 DEF Idle
    <3> QED  BY <3>2, <3>3 DEF Begins, gone
  <2> QED  BY <1>0, <1>3, <2>1 DEF ConsumeVerify
<1>4. ASSUME NEW s \in Sessions, ReviewAppend(s)  PROVE Goal
  <2>1. CASE u = s
    <3>1. session'[u] = [session[u] EXCEPT !.pc = "append"] /\ session[u].pc = "review"
      BY <1>0, <1>4, <2>1 DEF ReviewAppend
    <3> QED  BY <1>0, <3>1 DEF Advances, Session
  <2> QED  BY <1>0, <1>4, <2>1 DEF ReviewAppend
<1>5. ASSUME NEW s \in Sessions, SignToken(s)  PROVE Goal
  <2>1. CASE u = s
    <3>1. /\ session'[u] = [session[u] EXCEPT !.pc = "signed", !.expires = clock + TTL]
          /\ session[u].pc = "issue"
      BY <1>0, <1>5, <2>1 DEF SignToken
    <3> QED  BY <1>0, <3>1 DEF Advances, Session
  <2> QED  BY <1>0, <1>5, <2>1 DEF SignToken
<1>6. ASSUME NEW s \in Sessions, FreshnessDone(s)  PROVE Goal
  <2>1. CASE u = s
    <3>1. /\ session'[u] = [session[u] EXCEPT !.pc = "update"]
          /\ session[u].pc = "consume"
          /\ session[u].checked = NumChecks(session[u].on)
      BY <1>0, <1>6, <2>1 DEF FreshnessDone
    <3> QED  BY <1>0, <3>1 DEF Advances, Session
  <2> QED  BY <1>0, <1>6, <2>1 DEF FreshnessDone
<1>7. ASSUME NEW s \in Sessions, Finish(s)  PROVE Goal
  BY <1>0, <1>7 DEF Finish
<1>8. ASSUME NEW s \in Sessions, CheckParty(s)  PROVE Goal
  <2>1. CASE u = s /\ ~Finish(s)
    <3>1. /\ session'[u] = [session[u] EXCEPT !.checked = @ + 1]
          /\ session[u].pc \in {"issue", "consume"}
          /\ session[u].checked < NumChecks(session[u].on)
          /\ standing[Checks[session[u].checked + 1]] = "active"
      BY <1>0, <1>8, <2>1 DEF CheckParty, Checking, PartyChecked
    <3> QED  BY <1>0, <3>1 DEF Advances, Session
  <2>2. CASE u # s /\ ~Finish(s)  BY <1>0, <1>8, <2>2 DEF CheckParty
  <2> QED  BY <1>7, <2>1, <2>2
<1>9. UNCHANGED session => Goal  OBVIOUS
<1> HIDE DEF Goal
<1>10. Goal
  BY <1>1, <1>2, <1>3, <1>4, <1>5, <1>6, <1>7, <1>8, <1>9
     DEF Next, Step, ReviewCommit, IssueCommit, ConsumeCommit, Abandon, Pause, Resume,
         EndParty, Tick, vars
<1> QED  BY <1>10 DEF Goal

\* The three facts about requests under way are preserved by every step.
LEMMA RequestsStep ==
    ASSUME IInv, [Next]_vars
    PROVE  Subject' /\ Justification' /\ Freshness'
<1>0. TypeOK'  BY TypeStep DEF IInv
<1> SUFFICES ASSUME NEW u \in Sessions
             PROVE  /\ /\ session'[u].pc # "idle" => session'[u].on \in Decisions
                       /\ session'[u].pc \in {"issue", "consume"} =>
                              session'[u].checked <= NumChecks(session'[u].on)
                       /\ session'[u].pc = "update" =>
                              session'[u].checked = NumChecks(session'[u].on)
                    /\ /\ session'[u].pc \in {"review", "append"} =>
                              outcome'[session'[u].on] = "HUMAN_REVIEW"
                       /\ session'[u].pc \in {"issue", "signed"} => Authorized(session[u].on)'
                       /\ session'[u].pc \in {"consume", "update"} =>
                              capability'[session'[u].on].issued
                    /\ /\ \A p \in session'[u].ended : standing'[p] = "ended"
                       /\ session'[u].pc \in {"consume", "update"} =>
                              \A i \in 1..session'[u].checked :
                                  Checks[i] \notin session'[u].ended
  BY DEF Subject, Justification, Freshness, Authorized
<1> DEFINE r == session[u]
           q == session'[u]
<1>1. r \in Session /\ q \in Session  BY <1>0 DEF IInv, TypeOK
<1>2. \A d \in Decisions : Authorized(d) => Authorized(d)'
  BY WriteOnce DEF Authorized
<1>3. r.ended \subseteq Parties /\ r.checked \in 0..4 /\ q.checked \in 0..4
  BY <1>1 DEF Session
<1>4. CASE q = r
  <2>1. r.on \in Decisions /\ Authorized(r.on) => Authorized(session[u].on)'
    BY <1>2, <1>4 DEF Authorized
  <2> QED  BY <1>3, <1>4, <2>1, WriteOnce DEF IInv, Subject, Justification, Freshness
<1>5. CASE q = Idle
  BY <1>5 DEF Idle
<1>6. CASE Begins(q)
  <2>1. Authorized(q.on) => Authorized(session[u].on)'
    BY <1>2, <1>6 DEF Begins, Authorized
  <2>2. q.on \in Decisions /\ q.checked = 0 /\ q.pc \in {"review", "issue", "consume"}
    BY <1>6 DEF Begins
  <2>3. \A p \in q.ended : standing'[p] = "ended"
    BY <1>6, WriteOnce DEF Begins
  <2> QED  BY <1>6, <2>1, <2>2, <2>3, ChecksCover, WriteOnce DEF Begins
<1>7. CASE Advances(r, q)
  <2>1. q.on = r.on /\ q.ended = r.ended /\ r.on \in Decisions
    BY <1>7 DEF Advances, IInv, Subject
  <2>2. Authorized(r.on) => Authorized(session[u].on)'
    BY <1>2, <2>1 DEF Authorized
  <2>3. \A p \in q.ended : standing'[p] = "ended"
    BY <1>3, <2>1, WriteOnce DEF IInv, Freshness
  <2>4. \A p \in r.ended : standing[p] = "ended"  BY DEF IInv, Freshness
  <2>5. /\ q.pc \in {"review", "append"} => outcome'[q.on] = "HUMAN_REVIEW"
        /\ q.pc \in {"issue", "signed"} => Authorized(session[u].on)'
        /\ q.pc \in {"consume", "update"} => capability'[q.on].issued
    BY <1>7, <2>1, <2>2, WriteOnce DEF Advances, IInv, Justification
  <2>6. q.pc \in {"consume", "update"} => \A i \in 1..q.checked : Checks[i] \notin q.ended
    <3>1. q.pc \in {"consume", "update"} => r.pc = "consume"  BY <1>7 DEF Advances
    <3>2. r.pc = "consume" => \A i \in 1..r.checked : Checks[i] \notin r.ended
      BY DEF IInv, Freshness
    <3>3. CASE q.checked = r.checked  BY <2>1, <3>1, <3>2, <3>3
    <3>4. CASE q.checked = r.checked + 1 /\ standing[Checks[r.checked + 1]] = "active"
      BY <1>3, <2>1, <2>4, <3>1, <3>2, <3>4
    <3>5. q.pc \in {"consume", "update"} =>
             \/ q.checked = r.checked
             \/ q.checked = r.checked + 1 /\ standing[Checks[r.checked + 1]] = "active"
      BY <1>7 DEF Advances
    <3> QED  BY <3>3, <3>4, <3>5
  <2>7. /\ q.pc \in {"issue", "consume"} => q.checked <= NumChecks(q.on)
        /\ q.pc = "update" => q.checked = NumChecks(q.on)
    BY <1>3, <1>7, <2>1, ChecksCover DEF Advances
  <2> QED  BY <2>1, <2>3, <2>5, <2>6, <2>7
<1> QED  BY <1>4, <1>5, <1>6, <1>7, SessionMoves DEF IInv

\* The tables stay consistent with one another under every step.
LEMMA TablesStep ==
    ASSUME IInv, [Next]_vars
    PROVE  ConsumedIssued' /\ CapabilityJustified' /\ SingleUse' /\ ReviewEvidenceExact'
<1> DEFINE TableFacts == ConsumedIssued /\ CapabilityJustified /\ SingleUse /\ ReviewEvidenceExact
<1>0. /\ resolution \in [Decisions -> Verdicts \cup {"none"}]
      /\ reviewed \in [Decisions -> Nat]
      /\ capability \in [Decisions -> Capability]
      /\ granted \in [Decisions -> Nat]
      /\ session \in [Sessions -> Session]
  BY DEF IInv, TypeOK
<1>1. TableFacts  BY DEF IInv
<1>2. ASSUME NEW s \in Sessions, ReviewCommit(s)  PROVE TableFacts'
  <2>1. UNCHANGED <<outcome, capability, granted>>  BY <1>2 DEF ReviewCommit
  <2>2. ConsumedIssued' /\ SingleUse'
    BY <1>1, <2>1 DEF ConsumedIssued, SingleUse
  <2>3. CapabilityJustified'
    BY <1>1, <2>1, WriteOnce DEF CapabilityJustified
  <2>4. ReviewEvidenceExact'
    <3>1. session[s].on \in Decisions  BY <1>2 DEF IInv, Subject, ReviewCommit
    <3>2. session[s].verdict # "none"  BY <1>0 DEF Session, Verdicts
    <3> QED  BY <1>0, <1>1, <1>2, <3>1, <3>2 DEF ReviewCommit, ReviewEvidenceExact
  <2> QED  BY <2>2, <2>3, <2>4
<1>3. ASSUME NEW s \in Sessions, IssueCommit(s)  PROVE TableFacts'
  <2> DEFINE d == session[s].on
             row == [issued |-> TRUE, expires |-> session[s].expires, consumed |-> FALSE]
  <2>1. UNCHANGED <<outcome, resolution, reviewed, granted>>  BY <1>3 DEF IssueCommit
  <2>2. d \in Decisions /\ Authorized(d)
    BY <1>3 DEF IInv, Subject, Justification, IssueCommit
  <2>3. CASE capability' = capability
    BY <1>1, <2>1, <2>3 DEF ConsumedIssued, CapabilityJustified, SingleUse, ReviewEvidenceExact
  <2>4. CASE capability' = [capability EXCEPT ![d] = row] /\ ~capability[d].issued
    <3>1. ~capability[d].consumed  BY <1>1, <2>2, <2>4 DEF ConsumedIssued
    <3>2. /\ capability'[d].issued /\ ~capability'[d].consumed
          /\ \A e \in Decisions \ {d} : capability'[e] = capability[e]
      BY <1>0, <2>2, <2>4
    <3> QED  BY <1>1, <2>1, <2>2, <3>1, <3>2
             DEF ConsumedIssued, CapabilityJustified, SingleUse, ReviewEvidenceExact, Authorized
  <2> QED  BY <1>3, <2>3, <2>4 DEF IssueCommit
<1>4. ASSUME NEW s \in Sessions, ConsumeCommit(s)  PROVE TableFacts'
  <2> DEFINE d == session[s].on
  <2>1. UNCHANGED <<outcome, resolution, reviewed>>  BY <1>4 DEF ConsumeCommit
  <2>2. d \in Decisions /\ capability[d].issued
    BY <1>4 DEF IInv, Subject, Justification, ConsumeCommit
  <2>3. CASE UNCHANGED <<capability, granted>>
    BY <1>1, <2>1, <2>3 DEF ConsumedIssued, CapabilityJustified, SingleUse, ReviewEvidenceExact
  <2>4. CASE /\ capability' = [capability EXCEPT ![d].consumed = TRUE]
             /\ granted' = [granted EXCEPT ![d] = @ + 1]
             /\ ~capability[d].consumed
    <3>1. capability[d] \in Capability  BY <1>0, <2>2
    <3>2. /\ capability'[d].issued /\ capability'[d].consumed
          /\ \A e \in Decisions \ {d} : capability'[e] = capability[e]
      BY <1>0, <2>2, <2>4, <3>1 DEF Capability
    <3>3. granted[d] = 0  BY <1>1, <2>2, <2>4 DEF SingleUse
    <3>4. granted'[d] = 1 /\ \A e \in Decisions \ {d} : granted'[e] = granted[e]
      BY <1>0, <2>2, <2>4, <3>3
    <3> QED  BY <1>1, <2>1, <2>2, <3>2, <3>4
             DEF ConsumedIssued, CapabilityJustified, SingleUse, ReviewEvidenceExact
  <2> QED  BY <1>4, <2>3, <2>4 DEF ConsumeCommit
<1>5. UNCHANGED dataVars => TableFacts'
  BY <1>1 DEF dataVars, ConsumedIssued, CapabilityJustified, SingleUse, ReviewEvidenceExact
<1> HIDE DEF TableFacts
<1>6. TableFacts'
  BY <1>2, <1>3, <1>4, <1>5
     DEF Next, Step, ReviewCheck, ReviewAppend, IssueCheck, CheckParty, SignToken,
         ConsumeVerify, FreshnessDone, Abandon, Pause, Resume, EndParty, Tick, vars, dataVars
<1> QED  BY <1>6 DEF TableFacts

\* The initial state satisfies the inductive invariant.
LEMMA InitInv == Init => IInv
<1> SUFFICES ASSUME Init PROVE IInv
  OBVIOUS
<1> USE DEF Init
<1>1. Idle \in Session /\ Idle.pc = "idle" /\ Idle.ended = {}
  BY DEF Idle, Session, Verdicts
<1>2. NoCapability \in Capability /\ ~NoCapability.issued /\ ~NoCapability.consumed
  BY DEF NoCapability, Capability
<1>3. TypeOK  BY <1>1, <1>2 DEF TypeOK
<1>4. Subject /\ Justification /\ Freshness
  BY <1>1 DEF Subject, Justification, Freshness
<1>5. ConsumedIssued /\ CapabilityJustified /\ SingleUse /\ ReviewEvidenceExact
  BY <1>2 DEF ConsumedIssued, CapabilityJustified, SingleUse, ReviewEvidenceExact
<1> QED  BY <1>3, <1>4, <1>5 DEF IInv

\* IInv is an invariant of the specification.
LEMMA Inductive == Spec => []IInv
<1>1. IInv /\ [Next]_vars => IInv'
  BY TypeStep, RequestsStep, TablesStep DEF IInv
<1> QED  BY InitInv, <1>1, PTL DEF Spec

-----------------------------------------------------------------------------
(* Type correctness of the review, issuance and consumption requests.      *)
THEOREM CapabilityTypeCorrect == Spec => []TypeOK
BY Inductive, PTL DEF IInv

(* A capability is only ever issued for an allowed or approved decision    *)
(* (issue_capability_for_decision, issue_capability_for_reviewed_decision).*)
THEOREM IssuanceJustified == Spec => []CapabilityJustified
BY Inductive, PTL DEF IInv

(* At most one presentation of a decision's capability succeeds, for any   *)
(* number of concurrent verify_and_consume_capability calls.               *)
THEOREM ConsumptionSingleUse == Spec => []SingleUse
BY Inductive, PTL DEF IInv

(* A resolution and its review Evidence are committed together or not at   *)
(* all, for any number of concurrent resolve_decision calls.               *)
THEOREM ReviewAtomic == Spec => []ReviewEvidenceExact
BY Inductive, PTL DEF IInv

(* No presentation begun after the end of a party the decision depends on  *)
(* reaches the consuming UPDATE (_check_consumption_freshness).            *)
THEOREM EndedPartyRefused == Spec => []EndedPartyNeverUsed
<1>1. IInv => EndedPartyNeverUsed
  <2> SUFFICES ASSUME IInv, NEW s \in Sessions, session[s].pc = "update",
                      NEW p \in session[s].ended, p \in DependsOn(session[s].on)
               PROVE  FALSE
    BY DEF EndedPartyNeverUsed
  <2>1. session[s].checked = NumChecks(session[s].on)  BY DEF IInv, Subject
  <2>2. PICK i \in 1..session[s].checked : Checks[i] = p  BY <2>1, ChecksCover
  <2> QED  BY <2>2 DEF IInv, Freshness
<1> QED  BY <1>1, Inductive, PTL

(* The first committed resolution of a decision is never replaced.         *)
THEOREM ResolutionImmutable == Spec => FirstResolutionStands
<1>1. IInv /\ [Next]_vars =>
        [\A d \in Decisions : resolution[d] # "none" => resolution'[d] = resolution[d]]_vars
  BY WriteOnce
<1> QED  BY <1>1, Inductive, PTL DEF Spec, FirstResolutionStands

-----------------------------------------------------------------------------
Issued == {d \in Decisions : capability[d].issued}

BasisMap == [d \in Decisions |-> Basis(d)]

\* The reading of a decision's rows as the basis of a permission
LEMMA BasisValues ==
    ASSUME NEW d \in Decisions, TypeOK
    PROVE  /\ Basis(d) \in {"open", "authorized", "refused"}
           /\ Basis(d) = "open" <=> outcome[d] = "HUMAN_REVIEW" /\ resolution[d] = "none"
           /\ Basis(d) = "authorized" <=> Authorized(d)
<1>1. /\ outcome[d] \in {"ALLOW", "DENY", "HUMAN_REVIEW"}
      /\ resolution[d] \in {"approved", "denied", "none"}
  BY DEF TypeOK, Verdicts
<1> QED  BY <1>1 DEF Basis, Authorized

\* A step that leaves the four tables alone is a stutter of the permission.
LEMMA TablesUnchanged ==
    ASSUME UNCHANGED <<outcome, resolution, capability, granted>>
    PROVE  UNCHANGED <<BasisMap, Issued, granted>>
BY DEF BasisMap, Issued, Basis

\* Every step of the requests is a step of the permission or a stutter.
LEMMA PermissionStep ==
    ASSUME IInv, [Next]_vars
    PROVE  [Permission!Next]_<<BasisMap, Issued, granted>>
<1> USE DEF BasisMap, Issued
<1>0. /\ TypeOK /\ TypeOK'
      /\ outcome \in [Decisions -> {"ALLOW", "DENY", "HUMAN_REVIEW"}]
      /\ resolution \in [Decisions -> Verdicts \cup {"none"}]
      /\ capability \in [Decisions -> Capability]
      /\ granted \in [Decisions -> Nat]
      /\ session \in [Sessions -> Session]
  BY TypeStep DEF IInv, TypeOK
<1>1. ASSUME NEW s \in Sessions, ReviewCommit(s)
      PROVE  [Permission!Next]_<<BasisMap, Issued, granted>>
  <2> DEFINE d == session[s].on
             v == session[s].verdict
  <2>1. d \in Decisions /\ outcome[d] = "HUMAN_REVIEW" /\ v \in Verdicts
    BY <1>0, <1>1 DEF IInv, Subject, Justification, ReviewCommit, Session
  <2>2. UNCHANGED <<outcome, capability, granted>>  BY <1>1 DEF ReviewCommit
  <2>3. CASE UNCHANGED resolution
    BY <2>2, <2>3, TablesUnchanged
  <2>4. CASE resolution[d] = "none" /\ resolution' = [resolution EXCEPT ![d] = v]
    <3> DEFINE b == IF v = "approved" THEN "authorized" ELSE "refused"
    <3>1. Basis(d) = "open"  BY <1>0, <2>1, <2>4, BasisValues
    <3>2. \A e \in Decisions : Basis(e)' = IF e = d THEN b ELSE Basis(e)
      BY <1>0, <2>1, <2>2, <2>4 DEF Basis, Verdicts
    <3>3. BasisMap' = [BasisMap EXCEPT ![d] = b]
      BY <3>2, <2>1
    <3>4. b \in {"authorized", "refused"}  OBVIOUS
    <3>5. Issued' = Issued  BY <2>2
    <3>6. BasisMap[d] = "open"  BY <2>1, <3>1
    <3> HIDE DEF BasisMap, Issued, b, d
    <3>7. Permission!Settle(d)
      BY <2>2, <3>3, <3>4, <3>5, <3>6 DEF Permission!Settle, BasisMap, Issued
    <3> QED  BY <2>1, <3>7 DEF Permission!Next
  <2> QED  BY <1>1, <2>3, <2>4 DEF ReviewCommit
<1>2. ASSUME NEW s \in Sessions, IssueCommit(s)
      PROVE  [Permission!Next]_<<BasisMap, Issued, granted>>
  <2> DEFINE row == [issued |-> TRUE, expires |-> session[s].expires, consumed |-> FALSE]
  <2>1. PICK d \in Decisions : d = session[s].on /\ Authorized(session[s].on)
    BY <1>2 DEF IInv, Subject, Justification, IssueCommit
  <2>2. UNCHANGED <<outcome, resolution, granted>>  BY <1>2 DEF IssueCommit
  <2>3. CASE UNCHANGED capability
    BY <2>2, <2>3, TablesUnchanged
  <2>4. CASE ~capability[d].issued /\ capability' = [capability EXCEPT ![d] = row]
    <3>1. BasisMap' = BasisMap  BY <2>2 DEF Basis
    <3>2. BasisMap[d] = "authorized"  BY <1>0, <2>1, BasisValues DEF Authorized
    <3>3. capability'[d].issued /\ \A e \in Decisions \ {d} : capability'[e] = capability[e]
      BY <1>0, <2>1, <2>4
    <3>4. Issued' = Issued \cup {d} /\ d \notin Issued
      BY <2>1, <2>4, <3>3
    <3> HIDE DEF BasisMap, Issued
    <3>5. Permission!Permit(d)
      BY <2>2, <3>1, <3>2, <3>4 DEF Permission!Permit, BasisMap, Issued
    <3> QED  BY <3>5 DEF Permission!Next
  <2> QED  BY <1>2, <2>1, <2>3, <2>4 DEF IssueCommit
<1>3. ASSUME NEW s \in Sessions, ConsumeCommit(s)
      PROVE  [Permission!Next]_<<BasisMap, Issued, granted>>
  <2> DEFINE d == session[s].on
  <2>1. d \in Decisions /\ capability[d].issued
    BY <1>3 DEF IInv, Subject, Justification, ConsumeCommit
  <2>2. UNCHANGED <<outcome, resolution>>  BY <1>3 DEF ConsumeCommit
  <2>3. CASE UNCHANGED <<capability, granted>>
    BY <2>2, <2>3, TablesUnchanged
  <2>4. CASE /\ ~capability[d].consumed
             /\ capability' = [capability EXCEPT ![d].consumed = TRUE]
             /\ granted' = [granted EXCEPT ![d] = @ + 1]
    <3>1. BasisMap' = BasisMap  BY <2>2 DEF Basis
    <3>2. capability[d] \in Capability  BY <1>0, <2>1
    <3>3. \A e \in Decisions : capability'[e].issued = capability[e].issued
      BY <1>0, <2>1, <2>4, <3>2 DEF Capability
    <3>4. Issued' = Issued /\ d \in Issued  BY <2>1, <3>3
    <3>5. granted[d] = 0  BY <2>1, <2>4 DEF IInv, SingleUse
    <3>6. granted' = [granted EXCEPT ![d] = 1]  BY <1>0, <2>1, <2>4, <3>5
    <3> HIDE DEF BasisMap, Issued, d
    <3>7. Permission!Use(d)
      BY <3>1, <3>4, <3>5, <3>6 DEF Permission!Use, BasisMap, Issued
    <3> QED  BY <2>1, <3>7 DEF Permission!Next
  <2> QED  BY <1>3, <2>3, <2>4 DEF ConsumeCommit
<1>4. UNCHANGED dataVars => UNCHANGED <<BasisMap, Issued, granted>>
  BY TablesUnchanged DEF dataVars
<1> HIDE DEF BasisMap, Issued
<1> QED
  BY <1>1, <1>2, <1>3, <1>4
     DEF Next, Step, ReviewCheck, ReviewAppend, IssueCheck, CheckParty, SignToken,
         ConsumeVerify, FreshnessDone, Abandon, Pause, Resume, EndParty, Tick, vars, dataVars

(* Concurrent reviews, issuance and consumption implement the single-use   *)
(* permission of SingleUsePermission.                                      *)
THEOREM PermissionRefined == Spec => ImplementsPermission
<1>1. Init => Permission!Init
  <2> SUFFICES ASSUME Init PROVE Permission!Init
    OBVIOUS
  <2>1. TypeOK  BY InitInv DEF IInv
  <2>2. \A d \in Decisions : ~capability[d].issued  BY DEF Init, NoCapability
  <2>3. BasisMap \in [Decisions -> {"open", "authorized", "refused"}]
    BY <2>1, BasisValues DEF BasisMap
  <2>4. Issued = {} /\ granted = [d \in Decisions |-> 0]
    BY <2>2 DEF Init, Issued
  <2> QED  BY <2>3, <2>4 DEF Permission!Init, BasisMap, Issued
<1>2. IInv /\ [Next]_vars => [Permission!Next]_(Permission!vars)
  BY PermissionStep DEF Permission!vars, BasisMap, Issued
<1> QED  BY <1>1, <1>2, Inductive, PTL DEF Spec, ImplementsPermission, Permission!Spec

-----------------------------------------------------------------------------
(***************************************************************************)
(* The agent's status and its certificates.                                *)
(***************************************************************************)

\* A value an operation writes is a status of its column.
LEMMA WrittenStatuses ==
    ASSUME NEW op \in Operations
    PROVE  /\ CertAfter(op) \in CertStatuses
           /\ status \in Statuses => StatusAfter(op) \in Statuses
BY DEF Operations, CertAfter, StatusAfter, CertStatuses, Statuses

\* The tables a request may write are certificate tables.
LEMMA TablesType ==
    ASSUME AgentTypeOK, NEW a \in Admins, NEW table \in Tables(a)
    PROVE  table \in [Certs -> CertStatuses]
<1>1. admin[a].op \in Operations  BY DEF AgentTypeOK, Admin
<1>2. Written(a) \in [Certs -> CertStatuses]
  BY <1>1, WrittenStatuses DEF AgentTypeOK, Written
<1> QED  BY <1>2 DEF Tables, CertStatuses

(* Type correctness, for any number of concurrent requests.                *)
LEMMA AgentTypeStep ==
    ASSUME AgentTypeOK, [AgentNext]_agentVars
    PROVE  AgentTypeOK'
<1> USE DEF AgentTypeOK
<1>0. IdleAdmin \in Admin
  BY DEF IdleAdmin, Admin, Operations
<1>1. ASSUME NEW c \in Certs, CreateAgent(c)  PROVE AgentTypeOK'
  BY <1>1 DEF CreateAgent, Statuses, CertStatuses
<1>2. ASSUME NEW a \in Admins, NEW op \in Operations, CheckTransition(a, op)  PROVE AgentTypeOK'
  <2>1. endRaced' \in BOOLEAN
    BY <1>2 DEF CheckTransition
  <2> QED  BY <1>2, <2>1 DEF CheckTransition, Admin
<1>3. ASSUME NEW a \in Admins, FindCertificate(a)  PROVE AgentTypeOK'
  <2>1. admin[a] \in Admin  OBVIOUS
  <2>2. [admin[a] EXCEPT !.pc = "found"] \in Admin  BY <2>1 DEF Admin
  <2>3. \A c \in Certs : [admin[a] EXCEPT !.pc = "found", !.cert = c] \in Admin
    BY <2>1 DEF Admin
  <2>4. Candidates(admin[a].op) \subseteq Certs  BY DEF Candidates
  <2>5. admin' \in [Admins -> Admin]
    BY <1>0, <1>3, <2>2, <2>3, <2>4 DEF FindCertificate
  <2> QED  BY <1>3, <2>5 DEF FindCertificate
<1>4. ASSUME NEW a \in Admins, Commit(a)  PROVE AgentTypeOK'
  <2>1. admin[a].op \in Operations  BY DEF Admin
  <2>2. cert' \in [Certs -> CertStatuses]
    BY <1>4, TablesType DEF Commit
  <2>3. status' \in Statuses
    BY <1>4, <2>1, WrittenStatuses DEF Commit
  <2> QED  BY <1>0, <1>4, <2>2, <2>3 DEF Commit
<1>5. ASSUME NEW a \in Admins, Abort(a)  PROVE AgentTypeOK'
  BY <1>0, <1>5 DEF Abort
<1>6. CASE UNCHANGED agentVars  BY <1>6 DEF agentVars
<1> QED  BY <1>1, <1>2, <1>3, <1>4, <1>5, <1>6 DEF AgentNext

\* The initial state is of the right type.
LEMMA InitType == AgentInit => AgentTypeOK
<1> SUFFICES ASSUME AgentInit PROVE AgentTypeOK
  OBVIOUS
<1>1. endRaced \in BOOLEAN  BY DEF AgentInit
<1>2. IdleAdmin \in Admin  BY DEF IdleAdmin, Admin, Operations
<1>3. status \in Statuses /\ cert \in [Certs -> CertStatuses]
  BY DEF AgentInit, Statuses, CertStatuses
<1>4. admin \in [Admins -> Admin]  BY <1>2 DEF AgentInit
<1> QED  BY <1>1, <1>3, <1>4 DEF AgentTypeOK

(* Every variable keeps its type however lifecycle requests interleave.    *)
THEOREM AgentTypeCorrect == AgentSpec => []AgentTypeOK
<1>1. AgentInit => AgentTypeOK
  BY InitType
<1>2. AgentTypeOK /\ [AgentNext]_agentVars => AgentTypeOK'  BY AgentTypeStep
<1> QED  BY <1>1, <1>2, PTL DEF AgentSpec

-----------------------------------------------------------------------------
(* Unless a retirement or a revocation overlaps with another request.      *)

\* A request that ends the agent is the only one under way.
EndingAlone ==
    \A a, b \in Admins :
        a # b /\ admin[a].pc # "idle" /\ admin[a].op \in Ending => admin[b].pc = "idle"

\* What is left of what a request has read.  Another request may have
\* changed it, but an agent does not get back to being registered, and a
\* certificate is only moved on from issued to active and to rotated.
ReadsHeld ==
    \A a \in Admins :
        /\ admin[a].pc # "idle" => status \notin Terminal \cup {"unregistered"}
        /\ admin[a].pc # "idle" /\ admin[a].op \in {"suspend", "rotate"} =>
             status \in {"active", "suspended"}
        /\ admin[a].pc = "checked" \/ admin[a].op = "suspend" => admin[a].cert = NoCert
        /\ admin[a].pc = "found" /\ admin[a].op = "rotate" =>
             admin[a].cert \in Certs /\ cert[admin[a].cert] \in {"active", "rotated"}
        /\ admin[a].pc = "found" /\ admin[a].op = "activate" =>
             \/ admin[a].cert = NoCert /\ status # "registered"
             \/ admin[a].cert \in Certs /\ cert[admin[a].cert] \in {"issued", "active", "rotated"}
        /\ admin[a].pc = "found" /\ admin[a].op \in Ending => Live = {admin[a].cert}

\* Before registration there is no certificate, before activation none that
\* was ever active.
NothingBefore ==
    /\ status = "unregistered" => \A c \in Certs : cert[c] = "none"
    /\ status = "registered" => \A c \in Certs : cert[c] \in {"none", "issued"}

Current ==
    /\ EndingAlone
    /\ ReadsHeld
    /\ NothingBefore
    /\ Agreement

SInv ==
    /\ AgentTypeOK
    /\ ~endRaced => Current

\* A request only ever moves the agent on from a state that is not ended.
LEMMA AllowedNotEnded ==
    \A op \in Operations : AllowedFrom(op) \cap (Terminal \cup {"unregistered"}) = {}
BY DEF Operations, AllowedFrom, Terminal

\* What a commit writes, and when the partial unique index refuses it.
LEMMA CommitWrites ==
    ASSUME AgentTypeOK, Current, NEW a \in Admins, Commit(a)
    PROVE  \/ UNCHANGED <<cert, status>>
           \/ /\ admin[a].op # "rotate"
              /\ status' = StatusAfter(admin[a].op)
              /\ cert' = Written(a)
              /\ SingleActive(cert')
           \/ /\ admin[a].op = "rotate"
              /\ status' = status
              /\ SingleActive(cert')
              /\ \E n \in Certs : /\ cert[n] = "none"
                                  /\ cert' = [Written(a) EXCEPT ![n] = "active"]
<1>1. CASE admin[a].op = "rotate"
  BY <1>1 DEF Commit, Tables, StatusAfter
<1>2. CASE admin[a].op # "rotate"
  <2>1. Tables(a) = {Written(a)}  BY <1>2 DEF Tables
  <2> QED  BY <1>2, <2>1 DEF Commit
<1> QED  BY <1>1, <1>2

\* The commit of a rotation rotates the one active certificate, or fails.
LEMMA RotateCommits ==
    ASSUME AgentTypeOK, Current, NEW a \in Admins, Commit(a), admin[a].op = "rotate",
           ~ UNCHANGED <<cert, status>>
    PROVE  /\ status' = status /\ status \in {"active", "suspended"}
           /\ \E c, n \in Certs :
                /\ cert[c] = "active" /\ cert[n] = "none"
                /\ cert' = [cert EXCEPT ![c] = "rotated", ![n] = "active"]
                /\ Live' = {n}
<1> DEFINE c == admin[a].cert
<1>0. cert \in [Certs -> CertStatuses]  BY DEF AgentTypeOK
<1>1. /\ status' = status /\ SingleActive(cert')
      /\ \E n \in Certs : cert[n] = "none" /\ cert' = [Written(a) EXCEPT ![n] = "active"]
  BY CommitWrites
<1>2. PICK n \in Certs : cert[n] = "none" /\ cert' = [Written(a) EXCEPT ![n] = "active"]
  BY <1>1
<1>3. /\ status \in {"active", "suspended"}
      /\ c \in Certs /\ cert[c] \in {"active", "rotated"}
  BY DEF Current, ReadsHeld, Commit
<1>4. PICK d \in Certs : cert[d] = "active" /\ Live = {d}
  BY <1>3 DEF Current, Agreement
<1>5. /\ cert'[n] = "active" /\ cert'[c] = "rotated"
      /\ \A e \in Certs \ {c, n} : cert'[e] = cert[e]
      /\ cert' \in [Certs -> {"active", "rotated"} \cup CertStatuses]
  BY <1>2, <1>3, <1>0 DEF Written, CertAfter
<1>6. d = c
  <2> SUFFICES ASSUME d # c PROVE FALSE
    OBVIOUS
  <2>1. d # n /\ cert'[d] = "active"  BY <1>2, <1>4, <1>5
  <2> QED  BY <1>1, <1>5, <2>1 DEF SingleActive
<1>7. cert' = [cert EXCEPT ![c] = "rotated", ![n] = "active"]
  BY <1>0, <1>2, <1>3, <1>5 DEF Written, CertAfter
<1>8. Live' = {n}  BY <1>4, <1>5, <1>6 DEF Live
<1> QED  BY <1>1, <1>2, <1>3, <1>4, <1>6, <1>7, <1>8

\* The commit of an activation moves the waiting certificate on, or leaves
\* the table as it is.
LEMMA ActivateCommits ==
    ASSUME AgentTypeOK, Current, NEW a \in Admins, Commit(a), admin[a].op = "activate",
           ~ UNCHANGED <<cert, status>>
    PROVE  /\ status' = "active" /\ status \notin Terminal \cup {"unregistered"}
           /\ \E d \in Certs :
                /\ Live = {d} /\ Live' = {d} /\ cert'[d] = "active"
                /\ \A e \in Certs \ {d} : cert'[e] = cert[e]
<1> DEFINE c == admin[a].cert
<1>0. cert \in [Certs -> CertStatuses]  BY DEF AgentTypeOK
<1>1. status' = "active" /\ cert' = Written(a) /\ SingleActive(cert')
  BY CommitWrites DEF StatusAfter
<1>2. status \notin Terminal \cup {"unregistered"}
  BY DEF Current, ReadsHeld, Commit
<1>3. /\ \A e \in Certs : e # c => cert'[e] = cert[e]
      /\ c \in Certs => cert'[c] = "active"
  BY <1>1 DEF Written, CertAfter
<1>4. PICK d \in Certs : /\ Live = {d}
                         /\ cert[d] = IF status = "registered" THEN "issued" ELSE "active"
  BY <1>2 DEF Current, Agreement, AgentTypeOK, Statuses, Terminal
<1>5. \/ c = NoCert /\ status # "registered"
      \/ c \in Certs /\ cert[c] \in {"issued", "active", "rotated"}
  BY DEF Current, ReadsHeld, Commit
<1>6. CASE c = NoCert /\ status # "registered"
  <2>1. \A e \in Certs : cert'[e] = cert[e]  BY <1>3, <1>6, NoCertAssumption
  <2> QED  BY <1>1, <1>2, <1>4, <1>6, <2>1 DEF Live
<1>7. CASE c \in Certs /\ cert[c] \in {"issued", "active"}
  <2>1. c = d  BY <1>4, <1>7 DEF Live
  <2>2. Live' = {d}  BY <1>3, <1>4, <1>7, <2>1 DEF Live
  <2> QED  BY <1>1, <1>2, <1>3, <1>4, <1>7, <2>1, <2>2
<1>8. CASE c \in Certs /\ cert[c] = "rotated"
  <2>1. status # "registered"  BY <1>8 DEF Current, NothingBefore
  <2>2. d # c /\ cert'[d] = "active" /\ cert'[c] = "active"  BY <1>3, <1>4, <1>8, <2>1
  <2> QED  BY <1>1, <1>8, <2>2 DEF SingleActive
<1> QED  BY <1>5, <1>6, <1>7, <1>8

\* The commit of a suspension leaves the certificates alone.
LEMMA SuspendCommits ==
    ASSUME AgentTypeOK, Current, NEW a \in Admins, Commit(a), admin[a].op = "suspend",
           ~ UNCHANGED <<cert, status>>
    PROVE  /\ status' = "suspended" /\ status \in {"active", "suspended"}
           /\ Live' = Live /\ \A e \in Certs : cert'[e] = cert[e]
<1>1. status' = "suspended" /\ cert' = Written(a)  BY CommitWrites DEF StatusAfter
<1>2. admin[a].cert = NoCert /\ status \in {"active", "suspended"}
  BY DEF Current, ReadsHeld, Commit
<1>3. \A e \in Certs : cert'[e] = cert[e]
  BY <1>1, <1>2, NoCertAssumption DEF Written
<1> QED  BY <1>1, <1>2, <1>3 DEF Live

\* The commit of a retirement or a revocation ends the live certificate.
LEMMA EndingCommits ==
    ASSUME AgentTypeOK, Current, NEW a \in Admins, Commit(a), admin[a].op \in Ending,
           ~ UNCHANGED <<cert, status>>
    PROVE  status' \in Terminal /\ Live' = {}
<1>0. admin[a].op \in {"retire", "revoke"}  BY DEF Ending
<1>1. status' = StatusAfter(admin[a].op) /\ cert' = Written(a)  BY <1>0, CommitWrites
<1>2. Live = {admin[a].cert}  BY DEF Current, ReadsHeld, Commit
<1>3. CertAfter(admin[a].op) \notin {"issued", "active"} /\ status' \in Terminal
  BY <1>0, <1>1 DEF CertAfter, StatusAfter, Terminal
<1>4. \A e \in Certs : cert'[e] = IF e = admin[a].cert THEN CertAfter(admin[a].op) ELSE cert[e]
  BY <1>1 DEF Written
<1> QED  BY <1>2, <1>3, <1>4 DEF Live

\* The commit of a request leaves status and certificates in agreement and
\* what the others have read valid.
LEMMA CommitAgrees ==
    ASSUME AgentTypeOK, Current, NEW a \in Admins, Commit(a)
    PROVE  Current' /\ status \notin Terminal
<1> DEFINE op == admin[a].op
<1>0. /\ op \in Operations /\ cert \in [Certs -> CertStatuses] /\ status \in Statuses
      /\ admin \in [Admins -> Admin]
      /\ EndingAlone /\ ReadsHeld /\ NothingBefore /\ Agreement
  BY DEF AgentTypeOK, Admin, Current
<1>1. status \notin Terminal \cup {"unregistered"}  BY DEF Current, ReadsHeld, Commit
<1>2. /\ \A b \in Admins \ {a} : admin'[b] = admin[b]
      /\ admin'[a] = IdleAdmin
      /\ IdleAdmin.pc = "idle" /\ IdleAdmin.cert = NoCert
  BY <1>0 DEF Commit, IdleAdmin
<1>3. EndingAlone'  BY <1>0, <1>2 DEF EndingAlone
<1>4. CASE UNCHANGED <<cert, status>>
  <2>1. NothingBefore' /\ Agreement'  BY <1>0, <1>4 DEF NothingBefore, Agreement, Live
  <2>2. ReadsHeld'  BY <1>0, <1>2, <1>4 DEF ReadsHeld, Live
  <2> QED  BY <1>1, <1>3, <2>1, <2>2 DEF Current
<1>5. CASE op \in Ending /\ ~ UNCHANGED <<cert, status>>
  <2>1. status' \in Terminal /\ Live' = {}  BY <1>5, EndingCommits
  <2>2. \A b \in Admins : admin'[b].pc = "idle"
    BY <1>0, <1>2, <1>5 DEF EndingAlone, Commit
  <2>3. \A b \in Admins : admin'[b].op = "suspend" => admin'[b].cert = NoCert
    BY <1>0, <1>2 DEF ReadsHeld
  <2>4. ReadsHeld'  BY <2>2, <2>3 DEF ReadsHeld
  <2>5. NothingBefore' /\ Agreement'
    BY <2>1 DEF NothingBefore, Agreement, Terminal
  <2> QED  BY <1>1, <1>3, <2>4, <2>5 DEF Current
<1>6. CASE op \notin Ending /\ ~ UNCHANGED <<cert, status>>
  <2>1. \A b \in Admins : admin'[b].pc # "idle" => admin'[b].op \notin Ending
    BY <1>0, <1>2, <1>6 DEF EndingAlone, Commit
  <2>2. /\ status' \in {"active", "suspended"}
        /\ \E d \in Certs : Live' = {d} /\ cert'[d] = "active"
        /\ \A e \in Certs :
             /\ cert[e] \in {"active", "rotated"} => cert'[e] \in {"active", "rotated"}
             /\ cert[e] = "issued" => cert'[e] \in {"issued", "active"}
    <3>1. CASE op = "rotate"
      BY <1>0, <1>6, <3>1, RotateCommits
    <3>2. CASE op = "activate"
      BY <1>0, <1>6, <3>2, ActivateCommits
    <3>3. CASE op = "suspend"
      BY <1>0, <1>6, <3>3, SuspendCommits DEF Agreement
    <3> QED  BY <1>0, <1>6, <3>1, <3>2, <3>3 DEF Operations, Ending
  <2>3. NothingBefore' /\ Agreement'
    BY <2>2 DEF NothingBefore, Agreement, Terminal
  <2>4. ReadsHeld'
    <3> SUFFICES ASSUME NEW b \in Admins
                 PROVE  /\ admin'[b].pc # "idle" => status' \notin Terminal \cup {"unregistered"}
                        /\ admin'[b].pc # "idle" /\ admin'[b].op \in {"suspend", "rotate"} =>
                             status' \in {"active", "suspended"}
                        /\ admin'[b].pc = "checked" \/ admin'[b].op = "suspend" =>
                             admin'[b].cert = NoCert
                        /\ admin'[b].pc = "found" /\ admin'[b].op = "rotate" =>
                             /\ admin'[b].cert \in Certs
                             /\ cert'[admin'[b].cert] \in {"active", "rotated"}
                        /\ admin'[b].pc = "found" /\ admin'[b].op = "activate" =>
                             \/ admin'[b].cert = NoCert /\ status' # "registered"
                             \/ /\ admin'[b].cert \in Certs
                                /\ cert'[admin'[b].cert] \in {"issued", "active", "rotated"}
                        /\ admin'[b].pc = "found" /\ admin'[b].op \in Ending =>
                             Live' = {admin'[b].cert}
      BY DEF ReadsHeld
    <3>1. CASE b = a  BY <1>2, <2>2, <3>1 DEF IdleAdmin
    <3>2. CASE b # a
      <4>1. admin'[b] = admin[b]  BY <1>2, <3>2
      <4> QED  BY <1>0, <2>1, <2>2, <4>1 DEF ReadsHeld, Terminal
    <3> QED  BY <3>1, <3>2
  <2> QED  BY <1>1, <1>3, <2>3, <2>4 DEF Current
<1> QED  BY <1>4, <1>5, <1>6

\* At first no request is under way.
LEMMA SoleInit == AgentInit => SInv
<1> SUFFICES ASSUME AgentInit PROVE SInv
  OBVIOUS
<1>1. AgentTypeOK
  BY InitType
<1>2. ReadsHeld  BY DEF AgentInit, ReadsHeld, IdleAdmin
<1>3. NothingBefore /\ Agreement
  BY DEF AgentInit, NothingBefore, Agreement, Terminal
<1>4. EndingAlone  BY DEF AgentInit, EndingAlone, IdleAdmin
<1> QED  BY <1>1, <1>2, <1>3, <1>4 DEF SInv, Current

\* Unless an ending request overlaps with another, what the requests under
\* way have read stays as useful as ReadsHeld says.
LEMMA CurrentStep ==
    ASSUME AgentTypeOK, Current, [AgentNext]_agentVars, ~endRaced'
    PROVE  Current' /\ (status \in Terminal => status' = status)
<1> DEFINE Goal == Current' /\ (status \in Terminal => status' = status)
<1>0. /\ status \in Statuses /\ cert \in [Certs -> CertStatuses]
      /\ admin \in [Admins -> Admin]
      /\ EndingAlone /\ ReadsHeld /\ NothingBefore /\ Agreement
  BY DEF Current, AgentTypeOK
<1>c. UNCHANGED <<status, cert>> => NothingBefore' /\ Agreement' /\ Live' = Live
  BY <1>0 DEF NothingBefore, Agreement, Live
<1>1. ASSUME NEW c \in Certs, CreateAgent(c)  PROVE Goal
  <2>1. \A a \in Admins : admin[a].pc = "idle"
    BY <1>0, <1>1 DEF CreateAgent, ReadsHeld
  <2>2. ReadsHeld' /\ EndingAlone'
    BY <1>0, <1>1, <2>1 DEF CreateAgent, ReadsHeld, EndingAlone
  <2>3. \A d \in Certs : cert'[d] = IF d = c THEN "issued" ELSE "none"
    BY <1>0, <1>1 DEF CreateAgent, NothingBefore
  <2>4. Live' = {c}  BY <2>3 DEF Live
  <2>5. NothingBefore' /\ Agreement'
    BY <1>1, <2>3, <2>4 DEF CreateAgent, NothingBefore, Agreement, Terminal
  <2> QED  BY <1>1, <2>2, <2>5 DEF CreateAgent, Terminal, Current
<1>2. ASSUME NEW a \in Admins, NEW op \in Operations, CheckTransition(a, op)  PROVE Goal
  <2>1. \A b \in Admins \ {a} :
          /\ admin'[b] = admin[b]
          /\ admin[b].pc # "idle" => op \notin Ending /\ admin[b].op \notin Ending
    BY <1>0, <1>2 DEF CheckTransition
  <2>2. admin'[a] = [pc |-> "checked", op |-> op, cert |-> NoCert]
    BY <1>0, <1>2 DEF CheckTransition
  <2>3. /\ status \notin Terminal \cup {"unregistered"}
        /\ op \in {"suspend", "rotate"} => status \in {"active", "suspended"}
    BY <1>2, AllowedNotEnded DEF CheckTransition, AllowedFrom
  <2>4. UNCHANGED <<status, cert>>  BY <1>2 DEF CheckTransition
  <2>5. EndingAlone'  BY <1>0, <2>1, <2>2 DEF EndingAlone
  <2>6. ReadsHeld'  BY <1>0, <1>c, <2>1, <2>2, <2>3, <2>4 DEF ReadsHeld
  <2> QED  BY <1>c, <2>4, <2>5, <2>6 DEF Current
<1>3. ASSUME NEW a \in Admins, FindCertificate(a)  PROVE Goal
  <2>1. admin[a] \in Admin  BY <1>0
  <2>2. /\ admin[a].pc = "checked" /\ admin[a].cert = NoCert
        /\ status \notin Terminal \cup {"unregistered"}
    BY <1>0, <1>3 DEF FindCertificate, ReadsHeld
  <2>3. \A b \in Admins \ {a} : admin'[b] = admin[b]
    BY <1>0, <1>3 DEF FindCertificate
  <2>4. UNCHANGED <<status, cert>>  BY <1>3 DEF FindCertificate
  <2>5. \/ admin'[a] = IdleAdmin
        \/ /\ admin'[a].pc = "found" /\ admin'[a].op = admin[a].op
           /\ \/ admin'[a].cert \in Candidates(admin[a].op)
              \/ /\ admin'[a].cert = NoCert /\ Candidates(admin[a].op) = {}
                 /\ admin[a].op # "rotate"
    <3>1. CASE \E c \in Candidates(admin[a].op) :
                 admin' = [admin EXCEPT ![a] = [@ EXCEPT !.pc = "found", !.cert = c]]
      BY <1>0, <2>1, <3>1 DEF Admin
    <3>2. CASE /\ Candidates(admin[a].op) = {}
               /\ admin' = [admin EXCEPT ![a] = IF admin[a].op = "rotate" THEN IdleAdmin
                                                ELSE [@ EXCEPT !.pc = "found"]]
      BY <1>0, <2>1, <2>2, <3>2 DEF Admin
    <3> QED  BY <1>3, <3>1, <3>2 DEF FindCertificate
  <2>6. EndingAlone'
    BY <1>0, <2>2, <2>3, <2>5 DEF EndingAlone, IdleAdmin
  <2>7. PICK d \in Certs : /\ Live = {d}
                           /\ cert[d] = IF status = "registered" THEN "issued" ELSE "active"
    BY <1>0, <2>2 DEF Agreement, Statuses, Terminal
  <2>8. admin'[a].pc = "found" =>
          /\ admin'[a].op = "suspend" => admin'[a].cert = NoCert
          /\ admin'[a].op = "rotate" => admin'[a].cert \in Certs /\ cert[admin'[a].cert] = "active"
          /\ admin'[a].op = "activate" =>
               \/ admin'[a].cert = NoCert /\ status # "registered"
               \/ admin'[a].cert \in Certs /\ cert[admin'[a].cert] = "issued"
          /\ admin'[a].op \in Ending => admin'[a].cert = d
    <3> SUFFICES ASSUME admin'[a].pc = "found"
                 PROVE  /\ admin[a].op = "suspend" => admin'[a].cert = NoCert
                        /\ admin[a].op = "rotate" =>
                             admin'[a].cert \in Certs /\ cert[admin'[a].cert] = "active"
                        /\ admin[a].op = "activate" =>
                             \/ admin'[a].cert = NoCert /\ status # "registered"
                             \/ admin'[a].cert \in Certs /\ cert[admin'[a].cert] = "issued"
                        /\ admin[a].op \in Ending => admin'[a].cert = d
      BY <2>5 DEF IdleAdmin
    <3>1. \/ admin'[a].cert \in Candidates(admin[a].op)
          \/ /\ admin'[a].cert = NoCert /\ Candidates(admin[a].op) = {}
             /\ admin[a].op # "rotate"
      BY <2>5 DEF IdleAdmin
    <3>2. CASE admin[a].op = "suspend"
      <4>1. Candidates(admin[a].op) = {}  BY <3>2 DEF Candidates
      <4> QED  BY <3>1, <3>2, <4>1 DEF Ending
    <3>3. CASE admin[a].op = "rotate"
      BY <3>1, <3>3 DEF Candidates, Ending
    <3>4. CASE admin[a].op = "activate"
      <4>1. Candidates(admin[a].op) = {e \in Certs : cert[e] = "issued"}
        BY <3>4 DEF Candidates
      <4> QED  BY <2>7, <3>1, <3>4, <4>1 DEF Ending
    <3>5. CASE admin[a].op \in Ending
      <4>1. Candidates(admin[a].op) = Live  BY <3>5 DEF Candidates, Live, Ending
      <4> QED  BY <2>7, <3>1, <3>5, <4>1 DEF Ending
    <3> QED  BY <2>1, <3>2, <3>3, <3>4, <3>5 DEF Admin, Operations, Ending
  <2>9. ReadsHeld'
    <3>1. admin'[a].op \in {"suspend", "rotate"} /\ admin'[a].pc # "idle" =>
            status \in {"active", "suspended"}
      BY <1>0, <2>2, <2>5 DEF ReadsHeld, IdleAdmin
    <3>2. admin'[a].op = "suspend" => admin'[a].cert = NoCert
      BY <2>5, <2>8 DEF IdleAdmin
    <3>3. admin'[a].pc # "checked"  BY <2>5 DEF IdleAdmin
    <3> QED
      BY <1>0, <1>c, <2>2, <2>3, <2>4, <2>7, <2>8, <3>1, <3>2, <3>3 DEF ReadsHeld
  <2> QED  BY <1>c, <2>4, <2>6, <2>9 DEF Current
<1>4. ASSUME NEW a \in Admins, Commit(a)  PROVE Goal
  BY <1>4, CommitAgrees
<1>5. ASSUME NEW a \in Admins, Abort(a)  PROVE Goal
  <2>1. /\ admin'[a] = IdleAdmin /\ \A b \in Admins \ {a} : admin'[b] = admin[b]
        /\ UNCHANGED <<status, cert>>
    BY <1>0, <1>5 DEF Abort
  <2>2. ReadsHeld' /\ EndingAlone'
    BY <1>0, <1>c, <2>1 DEF ReadsHeld, EndingAlone, IdleAdmin
  <2> QED  BY <1>c, <2>1, <2>2 DEF Current
<1>6. ASSUME UNCHANGED agentVars  PROVE Goal
  BY <1>0, <1>6, <1>c DEF agentVars, ReadsHeld, EndingAlone, Current
<1> HIDE DEF Goal
<1>7. Goal  BY <1>1, <1>2, <1>3, <1>4, <1>5, <1>6 DEF AgentNext
<1> QED  BY <1>7 DEF Goal

\* Once an ending request has overlapped with another it has for good.
LEMMA OverlapStays == ASSUME [AgentNext]_agentVars PROVE endRaced => endRaced'
BY DEF AgentNext, CreateAgent, CheckTransition, FindCertificate, Commit, Abort, agentVars

\* SInv is inductive.
LEMMA SInvStep ==
    ASSUME AgentTypeOK, SInv, [AgentNext]_agentVars
    PROVE  SInv' /\ (status \in Terminal /\ ~endRaced' => status' = status /\ Live' = {})
<1>1. AgentTypeOK'  BY AgentTypeStep
<1>2. ~endRaced' => Current  BY OverlapStays DEF SInv
<1>3. ~endRaced' => Current' /\ (status \in Terminal => status' = status)
  BY <1>2, CurrentStep
<1>4. Current' /\ status' \in Terminal => Live' = {}  BY DEF Current, Agreement
<1> QED  BY <1>1, <1>3, <1>4 DEF SInv

\* SInv is an invariant.
LEMMA SInvInductive == AgentSpec => []SInv
<1>1. AgentTypeOK /\ SInv /\ [AgentNext]_agentVars => SInv'  BY SInvStep
<1> QED  BY SoleInit, <1>1, AgentTypeCorrect, PTL DEF AgentSpec

(* However many activations, suspensions and rotations of an agent overlap,*)
(* it has one key that is accepted, of the certificate its status calls    *)
(* for, and none once it has ended, unless the request that ended it       *)
(* overlapped with another.                                                *)
THEOREM CertificatesAgree == AgentSpec => []CertificateFollowsStatus
<1>1. SInv => CertificateFollowsStatus
  BY DEF SInv, Current, CertificateFollowsStatus
<1> QED  BY <1>1, SInvInductive, PTL

(* Revoked and retired are final, and so is the end of the certificates,   *)
(* unless the request that ended the agent overlapped with another.        *)
THEOREM TerminalFinal == AgentSpec => EndedAloneIsFinal
<1>1. AgentTypeOK /\ SInv /\ [AgentNext]_agentVars
        => [(status \in Terminal /\ ~endRaced') => (status' = status /\ Live' = {})]_agentVars
  BY SInvStep
<1> QED  BY <1>1, SInvInductive, AgentTypeCorrect, PTL DEF AgentSpec, EndedAloneIsFinal

=============================================================================
