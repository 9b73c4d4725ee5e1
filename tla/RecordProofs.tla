----------------------------- MODULE RecordProofs -----------------------------
(***************************************************************************)
(* Proofs about what a request leaves on record: its Intent                *)
(* (OperationIntake), for any number of agents, identities, nonces,        *)
(* operations and concurrent requests, and its row in the Evidence chain   *)
(* (EvidenceChain), for any sessions, organisations and ids.               *)
(*                                                                         *)
(* The invariant of the intake has two parts.  Clear: an uncommitted       *)
(* intent collides neither with a committed one nor with another           *)
(* uncommitted one; this is what the unique indexes and the wait in Flush  *)
(* give, and what uniqueness of committed rows needs at a commit.  Sound:  *)
(* what each request has learnt so far stays true, because intents only    *)
(* grow and an ended party stays ended.                                    *)
(***************************************************************************)
EXTENDS OperationIntake, EvidenceChain, TLAPS

\* What a request knows, given the committed intents and the parties' standing
Sound(q, rows, st) ==
    /\ q.intent.signer = Direct <=> q.intent.operation = NoOperation
    /\ \A p \in q.ended : st[p] = "ended"
    /\ q.checked <= Len(Checks(q.intent))
    /\ \A i \in 1..q.checked : Checks(q.intent)[i] \notin q.ended
    /\ q.pc # "checking" => q.checked = Len(Checks(q.intent))
    /\ q.pc = "relook" => \E r \in rows : Collide(r, q.intent)
    /\ q.pc = "decided" =>
          /\ q.answer \in rows
          /\ q.answer.agent = q.intent.agent
          /\ q.answer.operation = q.intent.operation
          /\ q.answer.meaning = q.intent.meaning
    /\ q.pc = "conflict" =>
          \E r \in rows : r.operation = q.intent.operation
                          /\ <<r.agent, r.meaning>> # <<q.intent.agent, q.intent.meaning>>
    /\ q.pc = "replay" => \E r \in rows : SameNonce(r, q.intent)

AllSound == \A s \in Sessions : request[s] # Idle => Sound(request[s], intents, standing)

Clear ==
    \A s \in Sessions : request[s].pc \in Pending =>
        /\ \A q \in intents : ~Collide(q, request[s].intent)
        /\ \A t \in Sessions \ {s} :
              request[t].pc \in Pending => ~Collide(request[t].intent, request[s].intent)

IInv == TypeOK /\ AllSound /\ Clear /\ NonceOnce /\ OperationDecidedOnce

-----------------------------------------------------------------------------
\* The parties read by each path.
LEMMA ChecksFacts ==
    ASSUME NEW r \in Intent
    PROVE  /\ r.signer = Direct =>
                /\ Len(Checks(r)) = 2
                /\ Checks(r)[1] = r.agent /\ Checks(r)[2] = "organization"
           /\ r.signer # Direct =>
                /\ Len(Checks(r)) = 4
                /\ Checks(r)[1] = r.signer /\ Checks(r)[2] = "organization"
                /\ Checks(r)[3] = "binding" /\ Checks(r)[4] = r.agent
BY DEF Checks

\* What a request knows survives later commits and status changes.
LEMMA SoundStays ==
    ASSUME NEW q, NEW rows, NEW more, rows \subseteq more, NEW st, NEW tt,
           \A p \in q.ended : st[p] = "ended" => tt[p] = "ended",
           Sound(q, rows, st)
    PROVE  Sound(q, more, tt)
BY DEF Sound

\* An idle session is no request.
LEMMA IdleFacts == Idle \notin Request /\ Idle.pc = "idle" /\ "idle" \notin Pending
BY DEF Idle, Request, Pending

\* A busy session runs a request.
LEMMA Busy ==
    ASSUME TypeOK, NEW s \in Sessions, request[s].pc # "idle"
    PROVE  /\ request[s] \in Request /\ request[s] # Idle
           /\ request[s].intent \in Intent /\ request[s].answer \in Intent
           /\ request[s].checked \in 0..4 /\ request[s].suspended \in BOOLEAN
           /\ request[s].ended \subseteq Parties
BY IdleFacts DEF TypeOK, Request

\* One session moves on, nothing is committed.
LEMMA SessionMoves ==
    ASSUME IInv, NEW s \in Sessions, NEW x, x \in Request \cup {Idle},
           request' = [request EXCEPT ![s] = x],
           x # Idle => Sound(x, intents, standing),
           x.pc \in Pending =>
              /\ \A q \in intents : ~Collide(q, x.intent)
              /\ \A t \in Sessions \ {s} :
                    request[t].pc \in Pending => ~Collide(request[t].intent, x.intent),
           UNCHANGED <<intents, standing>>,
           chainLock' \in {{}} \cup {{t} : t \in Sessions}
    PROVE  IInv'
<1>1. \A t \in Sessions : request'[t] = IF t = s THEN x ELSE request[t]
  BY DEF IInv, TypeOK
<1>2. TypeOK'  BY DEF IInv, TypeOK
<1>3. AllSound'  BY <1>1 DEF IInv, AllSound
<1>4. \A q, r : Collide(q, r) <=> Collide(r, q)
  BY DEF Collide, SameNonce, SameOperation
<1>5. Clear'  BY <1>1, <1>4 DEF IInv, Clear
<1>6. NonceOnce' /\ OperationDecidedOnce'  BY DEF IInv, NonceOnce, OperationDecidedOnce
<1> QED  BY <1>2, <1>3, <1>5, <1>6 DEF IInv

\* The common case: the session is not, or not yet, in possession of a row.
LEMMA SessionMovesIdle ==
    ASSUME IInv, NEW s \in Sessions, request' = [request EXCEPT ![s] = Idle],
           UNCHANGED <<intents, standing>>,
           chainLock' \in {{}} \cup {{t} : t \in Sessions}
    PROVE  IInv'
BY SessionMoves, IdleFacts

\* A request changes its place in the code and nothing else.
LEMMA GotoFacts ==
    ASSUME TypeOK, NEW s \in Sessions, request[s].pc # "idle", NEW c,
           c \in {"lookup", "flush", "relook", "decided", "conflict", "replay"} \cup Pending
    PROVE  LET x == [request[s] EXCEPT !.pc = c] IN
           /\ x \in Request /\ x.pc = c /\ x.intent = request[s].intent
           /\ x.checked = request[s].checked /\ x.ended = request[s].ended
           /\ x.answer = request[s].answer
BY Busy DEF Request

-----------------------------------------------------------------------------
\* A request arrives.
LEMMA SubmitStep ==
    ASSUME IInv, NEW s \in Sessions, NEW r \in NewIntent, Submit(s, r)
    PROVE  IInv'
<1> DEFINE x == [pc |-> "checking", intent |-> r, checked |-> 0, suspended |-> FALSE,
                 ended |-> {p \in Parties : standing[p] = "ended"}, answer |-> r]
<1>1. r \in Intent /\ (r.signer = Direct <=> r.operation = NoOperation)  BY DEF NewIntent
<1>2. x \in Request  BY <1>1 DEF Request
<1>3. Len(Checks(r)) >= 0  BY <1>1, ChecksFacts
<1>4. Sound(x, intents, standing)  BY <1>1, <1>3 DEF Sound
<1>5. request' = [request EXCEPT ![s] = x] /\ UNCHANGED <<intents, standing, chainLock>>
  BY DEF Submit
<1>6. chainLock' \in {{}} \cup {{t} : t \in Sessions}  BY <1>5 DEF IInv, TypeOK
<1>7. x.pc \notin Pending  BY DEF Pending
<1> HIDE DEF x
<1> QED  BY <1>2, <1>4, <1>5, <1>6, <1>7, SessionMoves

\* A party is checked: one that passes was not ended when the request arrived.
LEMMA CheckStep == ASSUME IInv, NEW s \in Sessions, CheckParty(s) PROVE IInv'
<1> DEFINE r == request[s].intent
           p == Checks(r)[request[s].checked + 1]
           x == [request[s] EXCEPT !.checked = @ + 1, !.suspended = @ \/ standing[p] = "paused"]
<1>0. TypeOK /\ request[s].pc = "checking"  BY DEF IInv, CheckParty
<1>1. /\ request[s] \in Request /\ request[s] # Idle /\ r \in Intent
      /\ request[s].checked \in 0..4 /\ request[s].suspended \in BOOLEAN
      /\ request[s].ended \subseteq Parties
  BY <1>0, Busy
<1>2. Sound(request[s], intents, standing)  BY <1>1 DEF IInv, AllSound
<1>3. chainLock' \in {{}} \cup {{t} : t \in Sessions}  BY <1>0 DEF CheckParty, TypeOK
<1>4. CASE Passes(r, p) /\ request' = [request EXCEPT ![s] = x]
  <2>1. Len(Checks(r)) \in 0..4 /\ request[s].checked < Len(Checks(r))
    BY <1>1, ChecksFacts DEF CheckParty
  <2>2. /\ x.pc = "checking" /\ x.intent = r /\ x.checked = request[s].checked + 1
        /\ x.ended = request[s].ended
    BY <1>0, <1>1 DEF Request
  <2>3. x \in Request
    <3>1. \A n \in 0..4, m \in 0..4 : n < m => n + 1 \in 0..4  OBVIOUS
    <3>2. request[s].checked + 1 \in 0..4  BY <1>1, <2>1, <3>1
    <3> QED  BY <1>1, <3>2 DEF Request
  <2>4. p \notin request[s].ended  BY <1>2, <1>4 DEF Passes, Sound
  <2>5. \A i \in 1..x.checked : Checks(r)[i] \notin x.ended
    BY <1>1, <1>2, <2>2, <2>4 DEF Sound
  <2>6. x.checked <= Len(Checks(r))  BY <1>1, <2>1, <2>2
  <2> HIDE DEF x
  <2>7. Sound(x, intents, standing)  BY <1>2, <2>2, <2>5, <2>6 DEF Sound
  <2>8. x.pc \notin Pending  BY <2>2 DEF Pending
  <2> QED  BY <1>3, <1>4, <2>3, <2>7, <2>8, SessionMoves DEF CheckParty
<1>5. CASE request' = [request EXCEPT ![s] = Idle]
  BY <1>3, <1>5, SessionMovesIdle DEF CheckParty
<1> QED  BY <1>4, <1>5 DEF CheckParty

\* Every party passed.
LEMMA AdmittedStep == ASSUME IInv, NEW s \in Sessions, Admitted(s) PROVE IInv'
<1> DEFINE c == IF request[s].intent.signer = Direct THEN "flush" ELSE "lookup"
           x == [request[s] EXCEPT !.pc = c]
<1>0. TypeOK /\ request[s].pc = "checking"  BY DEF IInv, Admitted
<1>1. Sound(request[s], intents, standing)  BY <1>0, Busy DEF IInv, AllSound
<1>2. /\ x \in Request /\ x.pc = c /\ x.intent = request[s].intent
      /\ x.checked = request[s].checked /\ x.ended = request[s].ended
  BY <1>0, GotoFacts
<1>3. /\ request' = [request EXCEPT ![s] = x] /\ UNCHANGED <<intents, standing, chainLock>>
      /\ request[s].checked = Len(Checks(request[s].intent))
  BY DEF Admitted, Goto
<1>4. chainLock' \in {{}} \cup {{t} : t \in Sessions}  BY <1>0, <1>3 DEF TypeOK
<1>5. x.pc \in {"flush", "lookup"}  BY <1>2
<1> HIDE DEF x
<1>6. Sound(x, intents, standing)  BY <1>1, <1>2, <1>3, <1>5 DEF Sound
<1>7. x.pc \notin Pending  BY <1>5 DEF Pending
<1> QED  BY <1>2, <1>3, <1>4, <1>6, <1>7, SessionMoves

\* The operation was decided before: its decision, or a conflict.
LEMMA ResolveStep ==
    ASSUME IInv, NEW s \in Sessions, request[s].pc \in {"lookup", "relook"}, Resolve(s),
           UNCHANGED <<intents, standing, chainLock>>
    PROVE  IInv'
<1>0. TypeOK  BY DEF IInv
<1>1. /\ request[s] \in Request /\ request[s] # Idle  BY <1>0, Busy
<1>2. Sound(request[s], intents, standing)  BY <1>1 DEF IInv, AllSound
<1>3. PICK q \in Existing(request[s].intent) :
        request' = [request EXCEPT ![s] =
            [@ EXCEPT !.pc = IF SameFingerprint(q, request[s].intent) THEN "decided" ELSE "conflict",
                      !.answer = q]]
  BY DEF Resolve
<1> DEFINE c == IF SameFingerprint(q, request[s].intent) THEN "decided" ELSE "conflict"
           x == [request[s] EXCEPT !.pc = c, !.answer = q]
<1>4. q \in intents /\ q \in Intent /\ q.operation = request[s].intent.operation
  BY <1>0, <1>3 DEF Existing, SameOperation, TypeOK
<1>5. c \in {"decided", "conflict"}  OBVIOUS
<1>6. /\ x \in Request /\ x.pc = c /\ x.answer = q /\ x.intent = request[s].intent
      /\ x.checked = request[s].checked /\ x.ended = request[s].ended
  BY <1>1, <1>4, <1>5 DEF Request
<1>7. request' = [request EXCEPT ![s] = x]  BY <1>3
<1>8. c = "decided" => SameFingerprint(q, request[s].intent)  OBVIOUS
<1>9. c = "conflict" => ~SameFingerprint(q, request[s].intent)  OBVIOUS
<1> HIDE DEF x, c
<1>10. Sound(x, intents, standing)
  BY <1>2, <1>4, <1>5, <1>6, <1>8, <1>9 DEF Sound, SameFingerprint
<1>11. x.pc \notin Pending  BY <1>5, <1>6 DEF Pending
<1>12. chainLock' \in {{}} \cup {{t} : t \in Sessions}  BY <1>0 DEF TypeOK
<1> QED  BY <1>6, <1>7, <1>10, <1>11, <1>12, SessionMoves

\* A request moves on without a row of its own.
LEMMA GotoStep ==
    ASSUME IInv, NEW s \in Sessions, request[s].pc \notin {"idle", "checking"},
           NEW c, c \in {"flush", "relook", "replay"}, Goto(s, c),
           c = "relook" => \E q \in intents : Collide(q, request[s].intent),
           c = "replay" => \E q \in intents : SameNonce(q, request[s].intent),
           UNCHANGED <<intents, standing, chainLock>>
    PROVE  IInv'
<1> DEFINE x == [request[s] EXCEPT !.pc = c]
<1>0. TypeOK  BY DEF IInv
<1>1. Sound(request[s], intents, standing)  BY <1>0, Busy DEF IInv, AllSound
<1>2. /\ x \in Request /\ x.pc = c /\ x.intent = request[s].intent
      /\ x.checked = request[s].checked /\ x.ended = request[s].ended
  BY <1>0, GotoFacts
<1>3. request' = [request EXCEPT ![s] = x]  BY DEF Goto
<1> HIDE DEF x
<1>4. Sound(x, intents, standing)  BY <1>1, <1>2 DEF Sound
<1>5. x.pc \notin Pending  BY <1>2 DEF Pending
<1>6. chainLock' \in {{}} \cup {{t} : t \in Sessions}  BY <1>0 DEF TypeOK
<1> QED  BY <1>2, <1>3, <1>4, <1>5, <1>6, SessionMoves

\* The lookup before the insert.
LEMMA LookUpStep == ASSUME IInv, NEW s \in Sessions, LookUp(s) PROVE IInv'
<1>1. request[s].pc = "lookup" /\ UNCHANGED <<intents, standing, chainLock>>  BY DEF LookUp
<1>2. CASE Resolve(s)  BY <1>1, <1>2, ResolveStep
<1>3. CASE Goto(s, "flush")  BY <1>1, <1>3, GotoStep
<1> QED  BY <1>2, <1>3 DEF LookUp

\* The lookup after a failed insert: what collided, if not the operation, is the nonce.
LEMMA RelookStep == ASSUME IInv, NEW s \in Sessions, Relook(s) PROVE IInv'
<1>1. request[s].pc = "relook" /\ UNCHANGED <<intents, standing, chainLock>>  BY DEF Relook
<1>2. CASE Resolve(s)  BY <1>1, <1>2, ResolveStep
<1>3. CASE Existing(request[s].intent) = {} /\ Goto(s, "replay")
  <2>1. TypeOK  BY DEF IInv
  <2>2. Sound(request[s], intents, standing)  BY <1>1, <2>1, Busy DEF IInv, AllSound
  <2>3. PICK q \in intents : Collide(q, request[s].intent)  BY <1>1, <2>2 DEF Sound
  <2>4. ~SameOperation(q, request[s].intent)  BY <1>3 DEF Existing
  <2>5. SameNonce(q, request[s].intent)  BY <2>3, <2>4 DEF Collide
  <2> QED  BY <1>1, <1>3, <2>5, GotoStep
<1> QED  BY <1>2, <1>3 DEF Relook

\* A session that has, or has just claimed, a row moves on with it.
LEMMA PendingStep ==
    ASSUME IInv, NEW s \in Sessions, request[s].pc \notin {"idle", "checking"},
           NEW x \in Request, x.pc \in Pending, request' = [request EXCEPT ![s] = x],
           x.checked = request[s].checked, x.ended = request[s].ended,
           x.intent.agent = request[s].intent.agent, x.intent.nonce = request[s].intent.nonce,
           x.intent.signer = request[s].intent.signer,
           x.intent.operation = request[s].intent.operation,
           \A q \in intents : ~Collide(q, request[s].intent),
           \A t \in Sessions \ {s} :
              request[t].pc \in Pending => ~Collide(request[t].intent, request[s].intent),
           UNCHANGED <<intents, standing>>,
           chainLock' \in {{}} \cup {{t} : t \in Sessions}
    PROVE  IInv'
<1>0. TypeOK  BY DEF IInv
<1>1. Sound(request[s], intents, standing)  BY <1>0, Busy DEF IInv, AllSound
<1>2. Checks(x.intent) = Checks(request[s].intent)  BY DEF Checks
<1>3. x.pc \notin {"checking", "relook", "decided", "conflict", "replay"}  BY DEF Pending
<1>4. Sound(x, intents, standing)  BY <1>1, <1>2, <1>3 DEF Sound
<1>5. \A q : Collide(q, x.intent) <=> Collide(q, request[s].intent)
  BY DEF Collide, SameNonce, SameOperation
<1> QED  BY <1>4, <1>5, SessionMoves

\* The insert claims a row that nobody else has, or fails on a committed one.
LEMMA FlushStep == ASSUME IInv, NEW s \in Sessions, Flush(s) PROVE IInv'
<1> DEFINE r == request[s].intent
           x == [request[s] EXCEPT !.pc = "flushed"]
<1>0. TypeOK /\ request[s].pc = "flush" /\ UNCHANGED <<intents, standing, chainLock>>
  BY DEF IInv, Flush
<1>1. Sound(request[s], intents, standing)  BY <1>0, Busy DEF IInv, AllSound
<1>2. CASE (\E q \in intents : Collide(q, r)) /\ r.signer # Direct /\ Goto(s, "relook")
  BY <1>0, <1>2, GotoStep
<1>3. CASE (\E q \in intents : Collide(q, r)) /\ r.signer = Direct /\ Goto(s, "replay")
  <2>1. PICK q \in intents : Collide(q, r)  BY <1>3
  <2>2. r.operation = NoOperation  BY <1>1, <1>3 DEF Sound
  <2>3. SameNonce(q, r)  BY <2>1, <2>2 DEF Collide, SameOperation
  <2> QED  BY <1>0, <1>3, <2>3, GotoStep
<1>4. CASE /\ \A q \in intents : ~Collide(q, r)
           /\ \A t \in Sessions : request[t].pc \in Pending => ~Collide(request[t].intent, r)
           /\ Goto(s, "flushed")
  <2>1. /\ x \in Request /\ x.pc = "flushed" /\ x.intent = r
        /\ x.checked = request[s].checked /\ x.ended = request[s].ended
    BY <1>0, GotoFacts DEF Pending
  <2>2. request' = [request EXCEPT ![s] = x]  BY <1>4 DEF Goto
  <2>3. chainLock' \in {{}} \cup {{t} : t \in Sessions}  BY <1>0 DEF TypeOK
  <2>4. x.pc \in Pending  BY <2>1 DEF Pending
  <2> HIDE DEF x
  <2> QED  BY <1>0, <1>4, <2>1, <2>2, <2>3, <2>4, PendingStep
<1> QED  BY <1>2, <1>3, <1>4 DEF Flush

\* The evaluation settles the outcome, which no index covers.
LEMMA EvaluateStep == ASSUME IInv, NEW s \in Sessions, Evaluate(s) PROVE IInv'
<1>0. TypeOK /\ request[s].pc = "flushed" /\ UNCHANGED <<intents, standing, chainLock>>
  BY DEF IInv, Evaluate
<1>1. request[s] \in Request /\ request[s].intent \in Intent  BY <1>0, Busy
<1>2. PICK o \in Outcomes :
        request' = [request EXCEPT ![s] = [request[s] EXCEPT !.pc = "evaluated", !.intent.outcome = o]]
  BY OutcomesAssumption DEF Evaluate
<1> DEFINE y == [request[s].intent EXCEPT !.outcome = o]
           x == [request[s] EXCEPT !.pc = "evaluated", !.intent = y]
<1>3. /\ y \in Intent /\ y.agent = request[s].intent.agent /\ y.nonce = request[s].intent.nonce
      /\ y.signer = request[s].intent.signer /\ y.operation = request[s].intent.operation
  BY <1>1 DEF Intent
<1>4. request' = [request EXCEPT ![s] = x]  BY <1>1, <1>2 DEF Request
<1> HIDE DEF y
<1>5. /\ x \in Request /\ x.pc = "evaluated" /\ x.intent = y
      /\ x.checked = request[s].checked /\ x.ended = request[s].ended
  BY <1>1, <1>3 DEF Request, Pending
<1>6. chainLock' \in {{}} \cup {{t} : t \in Sessions}  BY <1>0 DEF TypeOK
<1>7. request[s].pc \in Pending /\ x.pc \in Pending  BY <1>0, <1>5 DEF Pending
<1>8. /\ \A q \in intents : ~Collide(q, request[s].intent)
      /\ \A t \in Sessions \ {s} :
            request[t].pc \in Pending => ~Collide(request[t].intent, request[s].intent)
  BY <1>7 DEF IInv, Clear
<1> HIDE DEF x
<1> QED  BY <1>0, <1>3, <1>4, <1>5, <1>6, <1>7, <1>8, PendingStep

\* The Evidence is appended under the chain lock.
LEMMA AppendEvidenceStep == ASSUME IInv, NEW s \in Sessions, AppendEvidence(s) PROVE IInv'
<1> DEFINE x == [request[s] EXCEPT !.pc = "appended"]
<1>0. TypeOK /\ request[s].pc = "evaluated" /\ UNCHANGED <<intents, standing>> /\ chainLock' = {s}
  BY DEF IInv, AppendEvidence
<1>1. /\ x \in Request /\ x.pc = "appended" /\ x.intent = request[s].intent
      /\ x.checked = request[s].checked /\ x.ended = request[s].ended
  BY <1>0, GotoFacts DEF Pending
<1>2. request' = [request EXCEPT ![s] = x]  BY DEF AppendEvidence, Goto
<1>3. request[s].pc \in Pending /\ x.pc \in Pending  BY <1>0, <1>1 DEF Pending
<1>4. /\ \A q \in intents : ~Collide(q, request[s].intent)
      /\ \A t \in Sessions \ {s} :
            request[t].pc \in Pending => ~Collide(request[t].intent, request[s].intent)
  BY <1>3 DEF IInv, Clear
<1> HIDE DEF x
<1> QED  BY <1>0, <1>1, <1>2, <1>3, <1>4, PendingStep

\* A commit adds a row that collides with no other, committed or pending.
LEMMA CommitStep == ASSUME IInv, NEW s \in Sessions, Commit(s) PROVE IInv'
<1> DEFINE r == request[s].intent
           x == [request[s] EXCEPT !.pc = "decided", !.answer = r]
<1>0. /\ TypeOK /\ request[s].pc = "appended" /\ UNCHANGED standing
      /\ intents' = intents \cup {r} /\ chainLock' = {}
      /\ request' = [request EXCEPT ![s] = x]
  BY DEF IInv, Commit
<1>1. request[s] \in Request /\ request[s] # Idle /\ r \in Intent  BY <1>0, Busy
<1>2. /\ x \in Request /\ x.pc = "decided" /\ x.intent = r /\ x.answer = r
      /\ x.checked = request[s].checked /\ x.ended = request[s].ended
  BY <1>1 DEF Request
<1>3. /\ \A q \in intents : ~Collide(q, r)
      /\ \A t \in Sessions \ {s} : request[t].pc \in Pending => ~Collide(request[t].intent, r)
  BY <1>0 DEF IInv, Clear, Pending
<1>4. \A q : Collide(q, r) <=> Collide(r, q)  BY DEF Collide, SameNonce, SameOperation
<1> HIDE DEF x
<1>5. \A t \in Sessions : request'[t] = IF t = s THEN x ELSE request[t]
  BY <1>0 DEF TypeOK
<1>6. TypeOK'  BY <1>0, <1>1, <1>2 DEF TypeOK
<1>7. AllSound'
  <2>1. Sound(request[s], intents, standing)  BY <1>1 DEF IInv, AllSound
  <2>2. Sound(x, intents', standing)  BY <1>0, <1>2, <2>1 DEF Sound
  <2>3. \A t \in Sessions : request[t] # Idle => Sound(request[t], intents', standing)
    <3> SUFFICES ASSUME NEW t \in Sessions, request[t] # Idle
                 PROVE  Sound(request[t], intents', standing)
      OBVIOUS
    <3>1. Sound(request[t], intents, standing)  BY DEF IInv, AllSound
    <3> QED  BY <1>0, <3>1, SoundStays
  <2> QED  BY <1>0, <1>5, <2>2, <2>3 DEF AllSound
<1>8. Clear'
  <2>1. x.pc \notin Pending  BY <1>2 DEF Pending
  <2> SUFFICES ASSUME NEW t \in Sessions, t # s, request[t].pc \in Pending
               PROVE  /\ \A q \in intents' : ~Collide(q, request[t].intent)
                      /\ \A u \in Sessions \ {t} :
                            request'[u].pc \in Pending => ~Collide(request'[u].intent, request[t].intent)
    BY <1>5, <2>1 DEF Clear
  <2>2. ~Collide(r, request[t].intent)  BY <1>3, <1>4
  <2> QED  BY <1>0, <1>5, <2>1, <2>2 DEF IInv, Clear
<1>9. NonceOnce'
  <2> SUFFICES ASSUME NEW q \in intents', NEW w \in intents', SameNonce(q, w)
               PROVE  q = w
    BY DEF NonceOnce, SameNonce
  <2> QED  BY <1>0, <1>3, <1>4 DEF IInv, NonceOnce, Collide
<1>10. OperationDecidedOnce'
  <2> SUFFICES ASSUME NEW q \in intents', NEW w \in intents', q.operation = w.operation,
                      q.operation # NoOperation
               PROVE  q = w
    BY DEF OperationDecidedOnce
  <2> QED  BY <1>0, <1>3, <1>4 DEF IInv, OperationDecidedOnce, Collide, SameOperation
<1> QED  BY <1>6, <1>7, <1>8, <1>9, <1>10 DEF IInv

\* The answer leaves.
LEMMA RespondStep == ASSUME IInv, NEW s \in Sessions, Respond(s) PROVE IInv'
<1>1. chainLock' \in {{}} \cup {{t} : t \in Sessions}  BY DEF IInv, TypeOK, Respond
<1> QED  BY <1>1, SessionMovesIdle DEF Respond

\* A request dies.
LEMMA AbandonStep == ASSUME IInv, NEW s \in Sessions, Abandon(s) PROVE IInv'
<1>1. chainLock \in {{}} \cup {{t} : t \in Sessions}  BY DEF IInv, TypeOK
<1>2. chainLock \ {s} \in {{}} \cup {{t} : t \in Sessions}  BY <1>1
<1> QED  BY <1>2, SessionMovesIdle DEF Abandon

\* A party's status changes; one that was ended stays so.
LEMMA StandingStep ==
    ASSUME IInv, NEW p \in Parties, Pause(p) \/ Resume(p) \/ EndParty(p)
    PROVE  IInv'
<1>1. /\ UNCHANGED <<intents, request, chainLock>> /\ standing[p] # "ended"
      /\ \E v \in {"active", "paused", "ended"} : standing' = [standing EXCEPT ![p] = v]
  BY DEF Pause, Resume, EndParty
<1>2. TypeOK'  BY <1>1 DEF IInv, TypeOK
<1>3. \A w \in Parties : standing[w] = "ended" => standing'[w] = "ended"
  BY <1>1 DEF IInv, TypeOK
<1>4. AllSound'
  <2> SUFFICES ASSUME NEW s \in Sessions, request[s] # Idle
               PROVE  Sound(request[s], intents, standing')
    BY <1>1 DEF AllSound
  <2>1. request[s].ended \subseteq Parties  BY DEF IInv, TypeOK, Request
  <2>2. Sound(request[s], intents, standing)  BY DEF IInv, AllSound
  <2> QED  BY <1>3, <2>1, <2>2, SoundStays
<1>5. Clear' /\ NonceOnce' /\ OperationDecidedOnce'
  BY <1>1 DEF IInv, Clear, NonceOnce, OperationDecidedOnce
<1> QED  BY <1>2, <1>4, <1>5 DEF IInv

\* The invariant holds of the empty system.
LEMMA Start == Init => IInv
<1> SUFFICES ASSUME Init PROVE IInv  OBVIOUS
<1>1. \A s \in Sessions : request[s] = Idle /\ request[s].pc \notin Pending
  BY IdleFacts DEF Init
<1>2. TypeOK  BY DEF Init, TypeOK
<1>3. AllSound /\ Clear  BY <1>1 DEF AllSound, Clear
<1>4. NonceOnce /\ OperationDecidedOnce  BY DEF Init, NonceOnce, OperationDecidedOnce
<1> QED  BY <1>2, <1>3, <1>4 DEF IInv

\* Every step preserves the invariant.
LEMMA Preserved == IInv /\ [Next]_vars => IInv'
<1> SUFFICES ASSUME IInv, [Next]_vars PROVE IInv'  OBVIOUS
<1>1. CASE \E s \in Sessions, r \in NewIntent : Submit(s, r)  BY <1>1, SubmitStep
<1>2. CASE \E s \in Sessions : Step(s)
  BY <1>2, CheckStep, AdmittedStep, LookUpStep, RelookStep, EvaluateStep, CommitStep, RespondStep
  DEF Step
<1>3. CASE \E s \in Sessions : Flush(s) \/ AppendEvidence(s) \/ Abandon(s)
  BY <1>3, FlushStep, AppendEvidenceStep, AbandonStep
<1>4. CASE \E p \in Unstable : Pause(p) \/ Resume(p) \/ EndParty(p)
  BY <1>4, UnstableAssumption, StandingStep
<1>5. CASE UNCHANGED vars
  <2>1. UNCHANGED <<intents, standing, request, chainLock>>  BY <1>5 DEF vars
  <2>2. TypeOK' /\ NonceOnce' /\ OperationDecidedOnce'
    BY <2>1 DEF IInv, TypeOK, NonceOnce, OperationDecidedOnce
  <2>3. AllSound' /\ Clear'  BY <2>1 DEF IInv, AllSound, Clear
  <2> QED  BY <2>2, <2>3 DEF IInv
<1> QED  BY <1>1, <1>2, <1>3, <1>4, <1>5 DEF Next

\* The invariant holds in every reachable state.
LEMMA Invariance == Spec => []IInv
BY Start, Preserved, PTL DEF Spec

-----------------------------------------------------------------------------
(* Types, and at most one holder of the chain lock.                        *)
THEOREM IntakeTypeCorrect == Spec => []TypeOK
<1>1. IInv => TypeOK  BY DEF IInv
<1> QED  BY <1>1, Invariance, PTL

(* Replay protection for any number of copies of a request in flight: the  *)
(* check is the unique index of the insert, not a lookup before it.        *)
THEOREM NonceUsedOnce == Spec => []NonceOnce
<1>1. IInv => NonceOnce  BY DEF IInv
<1> QED  BY <1>1, Invariance, PTL

(* An external operation has one decision, however many identities and     *)
(* agents claim it at once.                                                *)
THEOREM OneDecisionPerOperation == Spec => []OperationDecidedOnce
<1>1. IInv => OperationDecidedOnce  BY DEF IInv
<1> QED  BY <1>1, Invariance, PTL

(* The decision a caller is told is committed, and is for its own request. *)
THEOREM AnswersRecorded == Spec => []AnswerIsRecorded
<1>1. IInv => AnswerIsRecorded
  <2> SUFFICES ASSUME IInv, NEW s \in Sessions, request[s].pc = "decided"
               PROVE  /\ request[s].answer \in intents
                      /\ request[s].answer.agent = request[s].intent.agent
                      /\ request[s].answer.operation = request[s].intent.operation
                      /\ request[s].answer.meaning = request[s].intent.meaning
    BY DEF AnswerIsRecorded
  <2>1. Sound(request[s], intents, standing)  BY IdleFacts DEF IInv, AllSound
  <2> QED  BY <2>1 DEF Sound
<1> QED  BY <1>1, Invariance, PTL

(* A conflict or a replay is answered only where there is one.             *)
THEOREM RefusalsJustified == Spec => []RefusalJustified
<1>1. IInv => RefusalJustified
  <2> SUFFICES ASSUME IInv, NEW s \in Sessions, request[s].pc \in {"conflict", "replay"}
               PROVE  /\ request[s].pc = "conflict" =>
                            \E q \in intents : /\ q.operation = request[s].intent.operation
                                               /\ <<q.agent, q.meaning>> #
                                                  <<request[s].intent.agent, request[s].intent.meaning>>
                      /\ request[s].pc = "replay" =>
                            \E q \in intents : SameNonce(q, request[s].intent)
    BY DEF RefusalJustified
  <2>1. Sound(request[s], intents, standing)  BY IdleFacts DEF IInv, AllSound
  <2> QED  BY <2>1 DEF Sound
<1> QED  BY <1>1, Invariance, PTL

(* What arrives after a party was ended for good is never inserted: every  *)
(* party is read after the request arrived, and the end is final.          *)
THEOREM EndedRefused == Spec => []EndedNeverAdmitted
<1>1. IInv => EndedNeverAdmitted
  <2> SUFFICES ASSUME IInv, NEW s \in Sessions, request[s].pc \in Pending
               PROVE  LET r == request[s].intent IN
                      /\ r.agent \notin request[s].ended
                      /\ "organization" \notin request[s].ended
                      /\ r.signer # Direct => /\ r.signer \notin request[s].ended
                                              /\ "binding" \notin request[s].ended
    BY DEF EndedNeverAdmitted
  <2> DEFINE r == request[s].intent
  <2>1. request[s] # Idle /\ r \in Intent /\ request[s].pc # "checking"
    BY IdleFacts, Busy DEF IInv, Pending
  <2>2. Sound(request[s], intents, standing)  BY <2>1 DEF IInv, AllSound
  <2>3. \A i \in 1..Len(Checks(r)) : Checks(r)[i] \notin request[s].ended
    BY <2>1, <2>2 DEF Sound
  <2>4. CASE r.signer = Direct
    <3>1. Len(Checks(r)) = 2 /\ Checks(r)[1] = r.agent /\ Checks(r)[2] = "organization"
      BY <2>1, <2>4, ChecksFacts
    <3> QED  BY <2>3, <2>4, <3>1
  <2>5. CASE r.signer # Direct
    <3>1. /\ Len(Checks(r)) = 4
          /\ Checks(r)[1] = r.signer /\ Checks(r)[2] = "organization"
          /\ Checks(r)[3] = "binding" /\ Checks(r)[4] = r.agent
      BY <2>1, <2>5, ChecksFacts
    <3> QED  BY <2>3, <2>5, <3>1
  <2> QED  BY <2>4, <2>5
<1> QED  BY <1>1, Invariance, PTL

-----------------------------------------------------------------------------
(* The Evidence chain.                                                     *)

Holding == {"locked", "linked", "flushed"}

\* A transaction past _lock_chain_scope owns its organisation's row.
LockHeld ==
    \A t \in Txns :
        tx[t].pc \in Holding /\ tx[t].scope \in Orgs => rowLock[tx[t].scope] = t

\* What the transaction read about the chain is still so when it uses it.
ReadsCurrent ==
    \A t \in Txns : tx[t].scope \in Orgs =>
        /\ tx[t].pc \in {"linked", "flushed"} =>
             \/ Rows(tx[t].scope) = {} /\ tx[t].previous_hash = NoId
             \/ \E r \in Latest(tx[t].scope) : tx[t].previous_hash = r.id
        /\ tx[t].pc = "flushed" => tx[t].sequence = NextSequence(tx[t].scope)

\* The sequences of an organisation's rows are exactly 1..n.
Dense(o, n) ==
    /\ \A r \in Rows(o) : r.sequence \in 1..n
    /\ \A k \in 1..n : \E r \in Rows(o) : r.sequence = k

ChainDense == \A o \in Orgs : \E n \in Nat : Dense(o, n)

\* A full verification under way has read a prefix of the chain.
VerifierPrefix ==
    ver.pc = "selected" /\ ver.since = 0 =>
        /\ ver.org \in Orgs
        /\ ver.records \subseteq Rows(ver.org)
        /\ \A r \in ver.records : \A q \in Rows(ver.org) :
               q.sequence < r.sequence => q \in ver.records

\* Every scope that has rows has one with the highest sequence (the table is
\* finite), so max(sequence) is defined.
MaxExists ==
    \A s \in Scopes : Rows(s) # {} => Highest(Rows(s)) # {}

\* A transaction under way has an id for the row it will insert.
BusyId == \A t \in Txns : tx[t].pc # "idle" => tx[t].id \in Ids

ChainInv ==
    /\ ChainTypeOK
    /\ MaxExists
    /\ BusyId
    /\ LockHeld
    /\ ReadsCurrent
    /\ ChainDense
    /\ ChainLinear
    /\ VerifierPrefix
    /\ FullVerificationIntact

-----------------------------------------------------------------------------
\* The next sequence after 1..n is n + 1.
LEMMA NextSequenceDense ==
    ASSUME NEW o, NEW n \in Nat, Dense(o, n)
    PROVE  NextSequence(o) = n + 1
<1> DEFINE S == {r.sequence : r \in Rows(o)} \cup {0}
<1> DEFINE P(m) == \A r \in Rows(o) : r.sequence <= m
<1>1. n \in S /\ P(n)
  <2>1. CASE n = 0
    BY <2>1 DEF Dense
  <2>2. CASE n # 0
    <3>1. n \in 1..n  BY <2>2
    <3>2. PICK r \in Rows(o) : r.sequence = n  BY <3>1 DEF Dense
    <3>3. n \in S  BY <3>2
    <3>4. P(n)  BY DEF Dense
    <3> QED  BY <3>3, <3>4
  <2> QED  BY <2>1, <2>2
<1>2. ASSUME NEW m \in S, P(m)
      PROVE  m = n
  <2>1. m \in 0..n  BY DEF Dense
  <2>2. n <= m
    <3>1. CASE n = 0  BY <2>1, <3>1
    <3>2. CASE n # 0
      <4>1. PICK r \in Rows(o) : r.sequence = n  BY <3>2 DEF Dense
      <4> QED  BY <4>1, <1>2
    <3> QED  BY <3>1, <3>2
  <2> QED  BY <2>1, <2>2
<1> DEFINE M == CHOOSE m \in S : P(m)
<1> HIDE DEF S, P
<1>3. M \in S /\ P(M)  BY <1>1
<1>4. M = n  BY <1>2, <1>3
<1>5. NextSequence(o) = 1 + M  BY DEF NextSequence, S, P
<1> HIDE DEF M
<1> QED  BY <1>4, <1>5

\* max(sequence) + 1 is a natural number.
LEMMA NextSequenceType ==
    ASSUME ChainTypeOK, MaxExists, NEW s \in Scopes
    PROVE  /\ NextSequence(s) \in Nat
           /\ \A r \in Rows(s) : r.sequence < NextSequence(s)
<1> DEFINE S == {r.sequence : r \in Rows(s)} \cup {0}
<1> DEFINE P(m) == \A r \in Rows(s) : r.sequence <= m
<1>1. \A r \in Rows(s) : r.sequence \in Nat  BY DEF ChainTypeOK, Rows, Row
<1>2. \E m \in S : P(m)
  <2>1. CASE Rows(s) = {}  BY <2>1
  <2>2. CASE Rows(s) # {}
    <3>1. PICK h \in Highest(Rows(s)) : TRUE  BY <2>2 DEF MaxExists
    <3>2. h.sequence \in S /\ P(h.sequence)  BY <3>1 DEF Highest
    <3> QED  BY <3>2
  <2> QED  BY <2>1, <2>2
<1> HIDE DEF P
<1>3. (CHOOSE m \in S : P(m)) \in S /\ P(CHOOSE m \in S : P(m))  BY <1>2
<1>4. S \subseteq Nat  BY <1>1
<1> DEFINE M == CHOOSE m \in S : P(m)
<1>5. NextSequence(s) = 1 + M  BY DEF NextSequence, P
<1>6. M \in Nat /\ P(M)  BY <1>3, <1>4
<1> HIDE DEF M
<1>7. \A r \in Rows(s) : r.sequence <= M  BY <1>6 DEF P
<1> QED  BY <1>1, <1>5, <1>6, <1>7

\* The latest row of a chain numbered 1..n without repetition is row n.
LEMMA LatestDense ==
    ASSUME ChainTypeOK, NEW o, NEW n \in Nat, Dense(o, n), NEW r \in Latest(o)
    PROVE  r \in Rows(o) /\ r.sequence = n
<1>1. r \in Rows(o) /\ r.sequence \in 1..n  BY DEF Latest, Dense
<1>2. PICK q \in Rows(o) : q.sequence = n  BY <1>1 DEF Dense
<1>3. r.sequence >= q.sequence  BY <1>1, <1>2 DEF Latest
<1> QED  BY <1>1, <1>2, <1>3

-----------------------------------------------------------------------------
\* The initial state satisfies the inductive invariant.
LEMMA InitChainInv == ChainInit => ChainInv
<1> SUFFICES ASSUME ChainInit PROVE ChainInv
  OBVIOUS
<1> USE ScopesAssumption, IdsAssumption, TxnsAssumption, TimeAssumption
<1>1. ChainTypeOK
  BY DEF ChainInit, ChainTypeOK, IdleTx, IdleVer, Scopes, Times, Transaction, Verification
<1>2. LockHeld /\ ReadsCurrent  BY DEF ChainInit, LockHeld, ReadsCurrent, IdleTx, Holding
<1>3. \A o \in Orgs : Rows(o) = {}  BY DEF ChainInit, Rows
<1>4. ChainLinear  BY <1>3 DEF ChainLinear
<1>5. \A o \in Orgs : Dense(o, 0)  BY <1>3 DEF Dense
<1>6. ChainDense  BY <1>5 DEF ChainDense
<1>7. VerifierPrefix /\ FullVerificationIntact
  BY DEF ChainInit, IdleVer, VerifierPrefix, FullVerificationIntact
<1>8. MaxExists /\ BusyId  BY DEF ChainInit, IdleTx, MaxExists, BusyId, Rows
<1> QED  BY <1>1, <1>2, <1>4, <1>6, <1>7, <1>8 DEF ChainInv

\* Every step keeps every variable in its type.
LEMMA TypeStep == ChainTypeOK /\ MaxExists /\ BusyId /\ [ChainNext]_chainVars => ChainTypeOK'
<1> SUFFICES ASSUME ChainTypeOK, MaxExists, BusyId, [ChainNext]_chainVars PROVE ChainTypeOK'
  OBVIOUS
<1> USE ScopesAssumption, IdsAssumption, TxnsAssumption, TimeAssumption DEF Scopes, Times
<1>1. ASSUME NEW t \in Txns, NEW s \in Scopes, NEW i \in Ids, Begin(t, s, i)
      PROVE  ChainTypeOK'
  <2>1. [IdleTx EXCEPT !.pc = "begun", !.id = i, !.scope = s, !.started = clock] \in Transaction
    BY DEF ChainTypeOK, Transaction, IdleTx
  <2> QED  BY <1>1, <2>1 DEF ChainTypeOK, Begin
<1>2. ASSUME NEW t \in Txns, LockChainScope(t)  PROVE  ChainTypeOK'
  <2>1. [tx[t] EXCEPT !.pc = "locked"] \in Transaction
    BY DEF ChainTypeOK, Transaction
  <2> QED  BY <1>2, <2>1 DEF ChainTypeOK, LockChainScope
<1>3. ASSUME NEW t \in Txns, PreviousChainHash(t)  PROVE  ChainTypeOK'
  <2>1. \A p \in Ids \cup {NoId} :
          [tx[t] EXCEPT !.pc = "linked", !.previous_hash = p] \in Transaction
    BY DEF ChainTypeOK, Transaction
  <2>2. \A r \in Latest(tx[t].scope) : r.id \in Ids
    BY DEF ChainTypeOK, Latest, Rows, Row
  <2>3. PICK p \in Ids \cup {NoId} :
          tx' = [tx EXCEPT ![t] = [tx[t] EXCEPT !.pc = "linked", !.previous_hash = p]]
    BY <1>3, <2>2 DEF PreviousChainHash
  <2>4. tx' \in [Txns -> Transaction]  BY <2>1, <2>3 DEF ChainTypeOK
  <2> QED  BY <1>3, <2>4 DEF ChainTypeOK, PreviousChainHash
<1>4. ASSUME NEW t \in Txns, NextChainSequence(t)  PROVE  ChainTypeOK'
  <2>1. tx[t].scope \in Scopes  BY DEF ChainTypeOK, Transaction
  <2>2. NextSequence(tx[t].scope) \in Nat  BY <2>1, NextSequenceType
  <2>3. [tx[t] EXCEPT !.pc = "flushed", !.sequence = NextSequence(tx[t].scope)] \in Transaction
    BY <2>2 DEF ChainTypeOK, Transaction
  <2> QED  BY <1>4, <2>3 DEF ChainTypeOK, NextChainSequence
<1>5. ASSUME NEW t \in Txns, CommitAppend(t)  PROVE  ChainTypeOK'
  <2>1. IdleTx \in Transaction  BY DEF IdleTx, Transaction
  <2>2. [id |-> tx[t].id, scope |-> tx[t].scope, sequence |-> tx[t].sequence,
         previous_hash |-> tx[t].previous_hash, created_at |-> tx[t].started] \in Row
    BY <1>5 DEF ChainTypeOK, Transaction, Row, CommitAppend, BusyId
  <2> QED  BY <1>5, <2>1, <2>2 DEF ChainTypeOK, CommitAppend, Release
<1>6. ASSUME NEW t \in Txns, Rollback(t)  PROVE  ChainTypeOK'
  <2>1. IdleTx \in Transaction  BY DEF IdleTx, Transaction
  <2> QED  BY <1>6, <2>1 DEF ChainTypeOK, Rollback, Release
<1>7. CASE Tick  BY <1>7 DEF ChainTypeOK, Tick
<1>8. ASSUME NEW o \in Orgs, NEW since \in Times, SelectRecords(o, since)
      PROVE  ChainTypeOK'
  <2>1. {r \in Rows(o) : r.created_at >= since} \in SUBSET Row
    BY DEF ChainTypeOK, Rows
  <2>2. ver' \in Verification
    BY <1>8, <2>1 DEF SelectRecords, IdleVer, Verification
  <2> QED  BY <1>8, <2>2 DEF ChainTypeOK, SelectRecords
<1>9. CASE CheckLinks
  <2>1. BrokenLinks(ver.records, Rows(ver.org)) \in SUBSET Row
    BY DEF ChainTypeOK, Verification, BrokenLinks
  <2>2. ver' \in Verification
    BY <1>9, <2>1 DEF ChainTypeOK, CheckLinks, Verification
  <2> QED  BY <1>9, <2>2 DEF ChainTypeOK, CheckLinks
<1>10. CASE RespondVerified
  <2>1. IdleVer \in Verification  BY DEF IdleVer, Verification
  <2> QED  BY <1>10, <2>1 DEF ChainTypeOK, RespondVerified
<1>11. CASE UNCHANGED chainVars  BY <1>11 DEF ChainTypeOK, chainVars
<1> QED
  BY <1>1, <1>2, <1>3, <1>4, <1>5, <1>6, <1>7, <1>8, <1>9, <1>10, <1>11 DEF ChainNext, AppendStep

-----------------------------------------------------------------------------
\* Steps that leave the table alone keep the facts about the table.
LEMMA TableFrame ==
    ASSUME UNCHANGED evidence
    PROVE  /\ \A s : Rows(s)' = Rows(s)
           /\ \A s : Latest(s)' = Latest(s)
           /\ \A s : NextSequence(s)' = NextSequence(s)
           /\ MaxExists => MaxExists'
           /\ ChainDense => ChainDense'
           /\ ChainLinear => ChainLinear'
<1>1. \A s : Rows(s)' = Rows(s)  BY DEF Rows
<1>2. \A s : Latest(s)' = Latest(s)  BY <1>1 DEF Latest
<1>3. \A s : NextSequence(s)' = NextSequence(s)  BY <1>1 DEF NextSequence
<1>4. MaxExists => MaxExists'  BY <1>1 DEF MaxExists, Highest
<1>5. ChainDense => ChainDense'  BY <1>1 DEF ChainDense, Dense
<1>6. ChainLinear => ChainLinear'  BY <1>1 DEF ChainLinear
<1> QED  BY <1>1, <1>2, <1>3, <1>4, <1>5, <1>6

\* The lock and what was read under it, for every step that appends no row.
LEMMA QuietStep ==
    ASSUME ChainInv, [ChainNext]_chainVars, ChainTypeOK', UNCHANGED evidence
    PROVE  BusyId' /\ LockHeld' /\ ReadsCurrent'
<1> USE ScopesAssumption, IdsAssumption, TxnsAssumption, TimeAssumption DEF Scopes, Times
<1> USE TableFrame DEF ChainInv
<1> DEFINE Kept == BusyId' /\ LockHeld' /\ ReadsCurrent'
<1>1. ASSUME NEW t \in Txns, NEW s \in Scopes, NEW i \in Ids, Begin(t, s, i)
      PROVE  Kept
  <2>1. \A u \in Txns : u # t => tx'[u] = tx[u]  BY <1>1 DEF Begin, ChainTypeOK
  <2>2. tx'[t].pc = "begun" /\ tx'[t].id = i  BY <1>1 DEF Begin, ChainTypeOK, IdleTx
  <2>3. BusyId'  BY <2>1, <2>2 DEF BusyId
  <2>4. LockHeld'  BY <1>1, <2>1, <2>2 DEF LockHeld, Holding, Begin
  <2>5. ReadsCurrent'  BY <2>1, <2>2 DEF ReadsCurrent
  <2> QED  BY <2>3, <2>4, <2>5
<1>2. ASSUME NEW t \in Txns, LockChainScope(t)  PROVE  Kept
  <2>1. \A u \in Txns : u # t => tx'[u] = tx[u]  BY <1>2 DEF LockChainScope, ChainTypeOK
  <2>2. /\ tx[t].pc = "begun" /\ tx'[t].pc = "locked"
        /\ tx'[t].id = tx[t].id /\ tx'[t].scope = tx[t].scope
    BY <1>2 DEF LockChainScope, ChainTypeOK, Transaction
  <2>3. BusyId'  BY <2>1, <2>2 DEF BusyId
  <2>4. LockHeld'
    <3>1. CASE tx[t].scope = NoOrg
      BY <1>2, <2>1, <2>2, <3>1 DEF LockHeld, LockChainScope
    <3>2. CASE tx[t].scope \in Orgs
      <4>1. /\ rowLock[tx[t].scope] = NoTxn
            /\ rowLock' = [rowLock EXCEPT ![tx[t].scope] = t]
        BY <1>2, <3>2 DEF LockChainScope
      <4>2. \A u \in Txns : u # t /\ tx[u].pc \in Holding => tx[u].scope # tx[t].scope
        BY <3>2, <4>1 DEF LockHeld
      <4> QED  BY <2>1, <2>2, <3>2, <4>1, <4>2 DEF LockHeld, ChainTypeOK
    <3> QED  BY <1>2, <3>1, <3>2 DEF LockChainScope
  <2>5. ReadsCurrent'  BY <2>1, <2>2 DEF ReadsCurrent
  <2> QED  BY <2>3, <2>4, <2>5
<1>3. ASSUME NEW t \in Txns, PreviousChainHash(t)  PROVE  Kept
  <2>1. \A u \in Txns : u # t => tx'[u] = tx[u]  BY <1>3 DEF PreviousChainHash, ChainTypeOK
  <2>0. PICK p :
          /\ \/ Rows(tx[t].scope) = {} /\ p = NoId
             \/ \E r \in Latest(tx[t].scope) : p = r.id
          /\ tx' = [tx EXCEPT ![t] = [tx[t] EXCEPT !.pc = "linked", !.previous_hash = p]]
    BY <1>3 DEF PreviousChainHash
  <2>2. /\ tx[t].pc = "locked" /\ tx'[t].pc = "linked"
        /\ tx'[t].id = tx[t].id /\ tx'[t].scope = tx[t].scope
        /\ tx'[t].previous_hash = p
    BY <1>3, <2>0 DEF PreviousChainHash, ChainTypeOK, Transaction
  <2>3. \/ Rows(tx[t].scope) = {} /\ tx'[t].previous_hash = NoId
        \/ \E r \in Latest(tx[t].scope) : tx'[t].previous_hash = r.id
    BY <2>0, <2>2
  <2>4. BusyId'  BY <2>1, <2>2 DEF BusyId
  <2>5. LockHeld'  BY <1>3, <2>1, <2>2 DEF LockHeld, Holding, PreviousChainHash
  <2>6. ReadsCurrent'  BY <2>1, <2>2, <2>3 DEF ReadsCurrent
  <2> QED  BY <2>4, <2>5, <2>6
<1>4. ASSUME NEW t \in Txns, NextChainSequence(t)  PROVE  Kept
  <2>1. \A u \in Txns : u # t => tx'[u] = tx[u]  BY <1>4 DEF NextChainSequence, ChainTypeOK
  <2>2. /\ tx[t].pc = "linked" /\ tx'[t].pc = "flushed"
        /\ tx'[t].id = tx[t].id /\ tx'[t].scope = tx[t].scope
        /\ tx'[t].previous_hash = tx[t].previous_hash
        /\ tx'[t].sequence = NextSequence(tx[t].scope)
    BY <1>4 DEF NextChainSequence, ChainTypeOK, Transaction
  <2>3. BusyId'  BY <2>1, <2>2 DEF BusyId
  <2>4. LockHeld'  BY <1>4, <2>1, <2>2 DEF LockHeld, Holding, NextChainSequence
  <2>5. ReadsCurrent'  BY <2>1, <2>2 DEF ReadsCurrent
  <2> QED  BY <2>3, <2>4, <2>5
<1>5. ASSUME NEW t \in Txns, CommitAppend(t) \/ Rollback(t)  PROVE  Kept
  <2>1. \A u \in Txns : u # t => tx'[u] = tx[u]  BY <1>5 DEF CommitAppend, Rollback, ChainTypeOK
  <2>2. tx'[t].pc = "idle"  BY <1>5 DEF CommitAppend, Rollback, ChainTypeOK, IdleTx
  <2>3. BusyId'  BY <2>1, <2>2 DEF BusyId
  <2>4. LockHeld'
    BY <1>5, <2>1, <2>2 DEF LockHeld, Holding, CommitAppend, Rollback, Release, ChainTypeOK
  <2>5. ReadsCurrent'  BY <2>1, <2>2 DEF ReadsCurrent
  <2> QED  BY <2>3, <2>4, <2>5
<1>6. CASE UNCHANGED <<tx, rowLock>>
  BY <1>6 DEF BusyId, LockHeld, ReadsCurrent
<1>7. Tick \/ CheckLinks \/ RespondVerified \/ UNCHANGED chainVars => UNCHANGED <<tx, rowLock>>
  BY DEF Tick, CheckLinks, RespondVerified, chainVars
<1>8. \A o, since : SelectRecords(o, since) => UNCHANGED <<tx, rowLock>>
  BY DEF SelectRecords
<1> QED
  BY <1>1, <1>2, <1>3, <1>4, <1>5, <1>6, <1>7, <1>8 DEF ChainNext, AppendStep

-----------------------------------------------------------------------------
\* A commit extends an organisation's chain by one row, at its end.
LEMMA CommitAppendStep ==
    ASSUME ChainInv, ChainTypeOK', NEW t \in Txns, CommitAppend(t)
    PROVE  /\ MaxExists' /\ BusyId' /\ LockHeld' /\ ReadsCurrent'
           /\ ChainDense' /\ ChainLinear' /\ VerifierPrefix' /\ FullVerificationIntact'
<1> USE ScopesAssumption, IdsAssumption, TxnsAssumption, TimeAssumption DEF Scopes, Times
<1>0. PICK c \in Scopes, new \in Row :
        /\ c = tx[t].scope
        /\ new = [id |-> tx[t].id, scope |-> tx[t].scope, sequence |-> tx[t].sequence,
                  previous_hash |-> tx[t].previous_hash, created_at |-> tx[t].started]
  BY DEF ChainInv, ChainTypeOK, Transaction, Row, CommitAppend, BusyId
<1>1. evidence' = evidence \cup {new} /\ UNCHANGED ver /\ tx[t].pc = "flushed"
  BY <1>0 DEF CommitAppend
<1>2. /\ new.scope = c /\ new.sequence = tx[t].sequence
      /\ new.previous_hash = tx[t].previous_hash
  BY <1>0
<1>3. \A s : \A r \in Rows(s) : r.sequence \in Nat
  BY DEF ChainInv, ChainTypeOK, Row, Rows
<1>3a. new.sequence \in Nat  BY DEF Row
<1>4. Rows(c)' = Rows(c) \cup {new}  BY <1>1, <1>2 DEF Rows
<1>5. ASSUME NEW s, s # c
      PROVE  Rows(s)' = Rows(s) /\ Latest(s)' = Latest(s) /\ NextSequence(s)' = NextSequence(s)
  <2>1. Rows(s)' = Rows(s)  BY <1>1, <1>2, <1>5 DEF Rows
  <2> QED  BY <2>1 DEF Latest, NextSequence
<1>6. \A u \in Txns : u # t => tx'[u] = tx[u]  BY DEF ChainInv, CommitAppend, ChainTypeOK
<1>7. tx'[t].pc = "idle"  BY DEF ChainInv, CommitAppend, ChainTypeOK, IdleTx
<1>8. MaxExists'
  <2> SUFFICES ASSUME NEW s \in Scopes, Rows(s)' # {}
               PROVE  \E h \in Rows(s)' : \A q \in Rows(s)' : q.sequence <= h.sequence
    BY DEF MaxExists, Highest
  <2>1. CASE s # c
    <3>1. Rows(s)' = Rows(s)  BY <1>5, <2>1
    <3>2. \E h \in Rows(s) : \A q \in Rows(s) : q.sequence <= h.sequence
      BY <3>1 DEF ChainInv, MaxExists, Highest
    <3> QED  BY <3>1, <3>2
  <2>2. CASE s = c /\ Rows(c) = {}
    BY <1>3a, <1>4, <2>2
  <2>3. CASE s = c /\ Rows(c) # {}
    <3>1. PICK h \in Rows(c) : \A q \in Rows(c) : q.sequence <= h.sequence
      BY <2>3 DEF ChainInv, MaxExists, Highest
    <3>2. CASE h.sequence <= new.sequence
      <4>1. \A q \in Rows(c) : q.sequence <= new.sequence  BY <1>3, <1>3a, <3>1, <3>2
      <4> QED  BY <1>3a, <1>4, <2>3, <4>1
    <3>3. CASE ~(h.sequence <= new.sequence)
      BY <1>3, <1>3a, <1>4, <2>3, <3>1, <3>3
    <3> QED  BY <3>2, <3>3
  <2> QED  BY <2>1, <2>2, <2>3
<1>9. BusyId'  BY <1>6, <1>7 DEF ChainInv, BusyId
<1>10. LockHeld'
  BY <1>6, <1>7 DEF ChainInv, LockHeld, Holding, CommitAppend, Release, ChainTypeOK
<1>11. \A u \in Txns : u # t /\ tx[u].pc \in Holding /\ tx[u].scope \in Orgs => tx[u].scope # c
  BY <1>0, <1>1 DEF ChainInv, LockHeld, Holding
<1>12. ReadsCurrent'
  <2> SUFFICES ASSUME NEW u \in Txns, NEW o \in Orgs, o = tx'[u].scope
               PROVE  /\ tx'[u].pc \in {"linked", "flushed"} =>
                           \/ Rows(o)' = {} /\ tx'[u].previous_hash = NoId
                           \/ \E r \in Latest(o)' : tx'[u].previous_hash = r.id
                      /\ tx'[u].pc = "flushed" => tx'[u].sequence = NextSequence(o)'
    BY DEF ReadsCurrent
  <2>1. CASE u = t  BY <1>7, <2>1
  <2>2. CASE u # t
    <3>1. tx'[u] = tx[u]  BY <1>6, <2>2
    <3>2. tx[u].pc \in Holding => o # c  BY <1>11, <2>2, <3>1
    <3> QED  BY <1>5, <3>1, <3>2 DEF ChainInv, ReadsCurrent, Holding
  <2> QED  BY <2>1, <2>2
<1>13. ASSUME c \in Orgs
       PROVE  \E n \in Nat : /\ Dense(c, n)
                             /\ new.sequence = n + 1
                             /\ \/ n = 0 /\ new.previous_hash = NoId
                                \/ \E r \in Rows(c) : r.sequence = n /\ new.previous_hash = r.id
  <2>1. PICK n \in Nat : Dense(c, n)  BY <1>13 DEF ChainInv, ChainDense
  <2>2. new.sequence = NextSequence(c)
    BY <1>0, <1>1, <1>2, <1>13 DEF ChainInv, ReadsCurrent
  <2>3. \/ Rows(c) = {} /\ new.previous_hash = NoId
        \/ \E r \in Latest(c) : new.previous_hash = r.id
    BY <1>0, <1>1, <1>2, <1>13 DEF ChainInv, ReadsCurrent
  <2>4. NextSequence(c) = n + 1  BY <2>1, NextSequenceDense
  <2>5. Rows(c) = {} => n = 0
    <3> SUFFICES ASSUME Rows(c) = {}, n # 0 PROVE FALSE
      OBVIOUS
    <3> QED  BY <2>1 DEF Dense
  <2>6. \A r \in Latest(c) : r \in Rows(c) /\ r.sequence = n
    BY <2>1, LatestDense DEF ChainInv
  <2> QED  BY <2>1, <2>2, <2>3, <2>4, <2>5, <2>6
<1>14. ChainDense'
  <2> SUFFICES ASSUME NEW o \in Orgs PROVE \E n \in Nat : Dense(o, n)'
    BY DEF ChainDense
  <2>1. CASE o # c
    <3>1. PICK n \in Nat : Dense(o, n)  BY DEF ChainInv, ChainDense
    <3> QED  BY <1>5, <2>1, <3>1 DEF Dense
  <2>2. CASE o = c
    <3>1. PICK n \in Nat : Dense(c, n) /\ new.sequence = n + 1  BY <1>13, <2>2
    <3>2. Dense(c, n + 1)'
      <4>1. \A r \in Rows(c)' : r.sequence \in 1..(n + 1)
        BY <1>3, <1>4, <3>1 DEF Dense
      <4>2. \A k \in 1..(n + 1) : \E r \in Rows(c)' : r.sequence = k
        <5> SUFFICES ASSUME NEW k \in 1..(n + 1)
                     PROVE  \E r \in Rows(c) \cup {new} : r.sequence = k
          BY <1>4
        <5>1. CASE k = n + 1  BY <3>1, <5>1
        <5>2. CASE k \in 1..n  BY <3>1, <5>2 DEF Dense
        <5> QED  BY <5>1, <5>2
      <4> QED  BY <4>1, <4>2 DEF Dense
    <3> QED  BY <2>2, <3>2
  <2> QED  BY <2>1, <2>2
<1> DEFINE Linked(rows, r) ==
        /\ \A q \in rows : q.sequence = r.sequence => q = r
        /\ \/ r.sequence = 1 /\ r.previous_hash = NoId
           \/ \E q \in rows : q.sequence + 1 = r.sequence /\ q.id = r.previous_hash
<1>15. ChainLinear'
  <2> SUFFICES ASSUME NEW o \in Orgs, NEW r \in Rows(o)' PROVE Linked(Rows(o)', r)
    BY DEF ChainLinear
  <2>1. CASE o # c
    <3>1. Rows(o)' = Rows(o)  BY <1>5, <2>1
    <3>2. Linked(Rows(o), r)  BY <3>1 DEF ChainInv, ChainLinear
    <3> QED  BY <3>1, <3>2
  <2>2. CASE o = c
    <3>1. PICK n \in Nat : /\ Dense(c, n)
                           /\ new.sequence = n + 1
                           /\ \/ n = 0 /\ new.previous_hash = NoId
                              \/ \E q \in Rows(c) : q.sequence = n /\ new.previous_hash = q.id
      BY <1>13, <2>2
    <3>2. \A q \in Rows(c) : q.sequence \in 1..n  BY <3>1 DEF Dense
    <3>3. CASE r = new
      <4>1. \A q \in Rows(c) \cup {new} : q.sequence = r.sequence => q = r
        BY <3>1, <3>2, <3>3
      <4>2. \/ r.sequence = 1 /\ r.previous_hash = NoId
            \/ \E q \in Rows(c) : q.sequence + 1 = r.sequence /\ q.id = r.previous_hash
        BY <3>1, <3>3
      <4> QED  BY <1>4, <2>2, <4>1, <4>2
    <3>4. CASE r # new
      <4>1. r \in Rows(c)  BY <1>4, <2>2, <3>4
      <4>2. Linked(Rows(c), r)  BY <2>2, <4>1 DEF ChainInv, ChainLinear
      <4>3. new.sequence # r.sequence  BY <3>1, <3>2, <4>1
      <4> QED  BY <1>4, <2>2, <4>2, <4>3
    <3> QED  BY <3>3, <3>4
  <2> QED  BY <2>1, <2>2
<1>16. VerifierPrefix'
  <2> SUFFICES ASSUME ver.pc = "selected", ver.since = 0
               PROVE  /\ ver.org \in Orgs
                      /\ ver.records \subseteq Rows(ver.org)'
                      /\ \A r \in ver.records : \A q \in Rows(ver.org)' :
                            q.sequence < r.sequence => q \in ver.records
    BY <1>1 DEF VerifierPrefix
  <2>1. PICK o \in Orgs : o = ver.org  BY DEF ChainInv, VerifierPrefix
  <2>1a. ver'.org = o  BY <1>1, <2>1
  <2>2. /\ ver.records \subseteq Rows(o)
        /\ \A r \in ver.records : \A q \in Rows(o) : q.sequence < r.sequence => q \in ver.records
    BY <2>1 DEF ChainInv, VerifierPrefix
  <2>3. /\ ver.records \subseteq Rows(o)'
        /\ \A r \in ver.records : \A q \in Rows(o)' : q.sequence < r.sequence => q \in ver.records
    <3>1. CASE o # c  BY <1>5, <2>2, <3>1
    <3>2. CASE o = c
      <4>1. PICK n \in Nat : Dense(c, n) /\ new.sequence = n + 1  BY <1>13, <3>2
      <4>2. \A q \in Rows(c) : ~(new.sequence < q.sequence)  BY <4>1 DEF Dense
      <4> QED  BY <1>4, <2>2, <3>2, <4>2
    <3> QED  BY <3>1, <3>2
  <2> QED  BY <2>1, <2>1a, <2>3 DEF Rows
<1>17. FullVerificationIntact'  BY <1>1 DEF ChainInv, FullVerificationIntact
<1> QED  BY <1>8, <1>9, <1>10, <1>12, <1>14, <1>15, <1>16, <1>17

-----------------------------------------------------------------------------
\* In a linear chain each row of a prefix carries the hash verify_chain expects.
LEMMA PrefixIntact ==
    ASSUME ChainTypeOK, ChainDense, ChainLinear, NEW o \in Orgs, NEW records,
           records \subseteq Rows(o),
           \A r \in records : \A q \in Rows(o) : q.sequence < r.sequence => q \in records
    PROVE  BrokenLinks(records, Rows(o)) = {}
<1> SUFFICES ASSUME NEW r \in records
             PROVE  r.previous_hash = ExpectedPrevious(records, Rows(o), r)
  BY DEF BrokenLinks
<1>1. \A q \in Rows(o) : q.sequence \in Nat \ {0}
  BY DEF ChainDense, Dense
<1>2. Below(records, r) = Below(Rows(o), r)  BY DEF Below
<1>3. r \in Rows(o)  OBVIOUS
<1> DEFINE B == Below(Rows(o), r)
<1>4. ExpectedPrevious(records, Rows(o), r) = HashOfLast(B)
  BY <1>2 DEF ExpectedPrevious
<1>5. CASE r.sequence = 1 /\ r.previous_hash = NoId
  <2>1. B = {}  BY <1>1, <1>5 DEF Below
  <2> QED  BY <1>4, <1>5, <2>1 DEF HashOfLast
<1>6. CASE \E q \in Rows(o) : q.sequence + 1 = r.sequence /\ q.id = r.previous_hash
  <2>1. PICK q \in Rows(o) : q.sequence + 1 = r.sequence /\ q.id = r.previous_hash
    BY <1>6
  <2>2. q \in B  BY <1>1, <2>1 DEF Below
  <2>3. \A p \in B : p.sequence <= q.sequence  BY <1>1, <1>3, <2>1 DEF Below
  <2>4. q \in Highest(B)  BY <2>2, <2>3 DEF Highest
  <2>5. \A p \in Highest(B) : p = q
    <3> SUFFICES ASSUME NEW p \in Highest(B) PROVE p = q
      OBVIOUS
    <3>1. p \in B /\ q.sequence <= p.sequence  BY <2>2 DEF Highest
    <3>2. p \in Rows(o)  BY <3>1 DEF Below
    <3>3. p.sequence = q.sequence  BY <1>1, <2>1, <2>3, <3>1, <3>2
    <3> QED  BY <2>1, <3>2, <3>3 DEF ChainLinear
  <2>6. (CHOOSE p \in Highest(B) : TRUE) = q  BY <2>4, <2>5
  <2> QED  BY <1>4, <2>1, <2>2, <2>6 DEF HashOfLast
<1> QED  BY <1>3, <1>5, <1>6 DEF ChainLinear

\* The verifier's part of the invariant, for every step that appends no row.
LEMMA VerifierStep ==
    ASSUME ChainInv, [ChainNext]_chainVars, UNCHANGED evidence
    PROVE  VerifierPrefix' /\ FullVerificationIntact'
<1>1. \A s : Rows(s)' = Rows(s)  BY TableFrame
<1>2. CASE UNCHANGED ver
  <2>1. FullVerificationIntact'  BY <1>2 DEF ChainInv, FullVerificationIntact
  <2>2. Rows(ver.org)' = Rows(ver.org)  BY <1>2 DEF Rows
  <2>3. VerifierPrefix'  BY <1>2, <2>2 DEF ChainInv, VerifierPrefix
  <2> QED  BY <2>1, <2>3
<1>3. ASSUME NEW o \in Orgs, NEW since \in Times, SelectRecords(o, since)
      PROVE  VerifierPrefix' /\ FullVerificationIntact'
  <2>1. /\ ver'.pc = "selected" /\ ver'.org = o /\ ver'.since = since
        /\ ver'.records = {r \in Rows(o) : r.created_at >= since}
    BY <1>3 DEF SelectRecords, IdleVer
  <2>2. \A r \in Rows(o) : r.created_at >= 0
    BY TimeAssumption DEF ChainInv, ChainTypeOK, Row, Rows, Times
  <2>3. since = 0 => ver'.records = Rows(o)  BY <2>1, <2>2
  <2>4. Rows(ver.org)' = Rows(o)  BY <1>1, <2>1 DEF Rows
  <2> QED  BY <2>1, <2>3, <2>4 DEF VerifierPrefix, FullVerificationIntact
<1>4. CASE CheckLinks
  <2>1. /\ ver.pc = "selected" /\ ver'.pc = "done" /\ ver'.since = ver.since
        /\ ver'.broken_links = BrokenLinks(ver.records, Rows(ver.org))
    BY <1>4 DEF CheckLinks, ChainInv, ChainTypeOK, Verification
  <2>2. ver.since = 0 => ver'.broken_links = {}
    BY <2>1, PrefixIntact DEF ChainInv, VerifierPrefix
  <2> QED  BY <2>1, <2>2 DEF VerifierPrefix, FullVerificationIntact
<1>5. CASE RespondVerified
  BY <1>5 DEF RespondVerified, IdleVer, VerifierPrefix, FullVerificationIntact
<1>6. ASSUME NEW t \in Txns, AppendStep(t) \/ Rollback(t) \/ \E s \in Scopes, i \in Ids : Begin(t, s, i)
      PROVE  UNCHANGED ver
  BY <1>6 DEF AppendStep, LockChainScope, PreviousChainHash, NextChainSequence, CommitAppend,
              Rollback, Begin
<1>7. Tick \/ UNCHANGED chainVars => UNCHANGED ver  BY DEF Tick, chainVars
<1> QED  BY <1>2, <1>3, <1>4, <1>5, <1>6, <1>7 DEF ChainNext

\* Only a commit changes the table.
LEMMA OnlyCommitAppends ==
    ASSUME [ChainNext]_chainVars, ~(\E t \in Txns : CommitAppend(t))
    PROVE  UNCHANGED evidence
BY DEF ChainNext, AppendStep, LockChainScope, PreviousChainHash, NextChainSequence,
       Rollback, Begin, Tick, SelectRecords, CheckLinks, RespondVerified, chainVars

\* The inductive invariant is preserved by every step.
LEMMA NextChainInv == ChainInv /\ [ChainNext]_chainVars => ChainInv'
<1> SUFFICES ASSUME ChainInv, [ChainNext]_chainVars PROVE ChainInv'
  OBVIOUS
<1>1. ChainTypeOK'  BY TypeStep DEF ChainInv
<1>2. CASE \E t \in Txns : CommitAppend(t)
  BY <1>1, <1>2, CommitAppendStep DEF ChainInv
<1>3. CASE ~(\E t \in Txns : CommitAppend(t))
  <2>1. UNCHANGED evidence  BY <1>3, OnlyCommitAppends
  <2>2. BusyId' /\ LockHeld' /\ ReadsCurrent'  BY <1>1, <2>1, QuietStep
  <2>3. VerifierPrefix' /\ FullVerificationIntact'  BY <2>1, VerifierStep
  <2>4. MaxExists' /\ ChainDense' /\ ChainLinear'  BY <2>1, TableFrame DEF ChainInv
  <2> QED  BY <1>1, <2>2, <2>3, <2>4 DEF ChainInv
<1> QED  BY <1>2, <1>3

\* Every reachable state satisfies the inductive invariant.
LEMMA SpecChainInv == ChainSpec => []ChainInv
<1>1. ChainInit => ChainInv  BY InitChainInv
<1>2. ChainInv /\ [ChainNext]_chainVars => ChainInv'  BY NextChainInv
<1> QED  BY <1>1, <1>2, PTL DEF ChainSpec

(* Type correctness of the chain's state, for any number of sessions,      *)
(* organisations and rows.                                                 *)
THEOREM EvidenceTypeCorrect == ChainSpec => []ChainTypeOK
<1>1. ChainInv => ChainTypeOK  BY DEF ChainInv
<1> QED  BY <1>1, SpecChainInv, PTL

(* The Evidence chain of an organisation never forks: the row lock of      *)
(* _lock_chain_scope, held until commit, makes the two reads of an append  *)
(* current when the row becomes visible.                                   *)
THEOREM EvidenceChainLinear == ChainSpec => []ChainLinear
<1>1. ChainInv => ChainLinear  BY DEF ChainInv
<1> QED  BY <1>1, SpecChainInv, PTL

(* A full verify_chain running concurrently with appends never reports a   *)
(* broken link in a chain that only the application wrote.                 *)
THEOREM VerificationSound == ChainSpec => []FullVerificationIntact
<1>1. ChainInv => FullVerificationIntact  BY DEF ChainInv
<1> QED  BY <1>1, SpecChainInv, PTL

-----------------------------------------------------------------------------
(* Tampering.  A link tells the rows apart only because no two rows have   *)
(* the same id (for the code: the same hash).                              *)

UniqueIds ==
    /\ \A r, q \in evidence : r.id = q.id => r = q
    /\ \A t \in Txns : tx[t].pc # "idle" =>
          /\ \A r \in evidence : r.id # tx[t].id
          /\ \A u \in Txns : u # t /\ tx[u].pc # "idle" => tx[u].id # tx[t].id

LEMMA UniqueIdsStep == ChainTypeOK /\ UniqueIds /\ [ChainNext]_chainVars => UniqueIds'
<1> SUFFICES ASSUME ChainTypeOK, UniqueIds, [ChainNext]_chainVars PROVE UniqueIds'
  OBVIOUS
<1>0. DOMAIN tx = Txns /\ \A u \in Txns : tx[u] \in Transaction  BY DEF ChainTypeOK
<1>1. ASSUME UNCHANGED evidence, \A u \in Txns : tx'[u].pc # "idle" => tx[u].pc # "idle" /\ tx'[u].id = tx[u].id
      PROVE  UniqueIds'
  BY <1>1 DEF UniqueIds
<1>2. ASSUME NEW t \in Txns, NEW s \in Scopes, NEW i \in Ids, Begin(t, s, i) PROVE UniqueIds'
  <2>1. tx'[t].id = i /\ \A u \in Txns : u # t => tx'[u] = tx[u]
    BY <1>0, <1>2 DEF Begin, IdleTx
  <2>2. (\A r \in evidence : r.id # i) /\ (\A u \in Txns : tx[u].id # i)  BY <1>2 DEF Begin, InUse
  <2>3. UNCHANGED evidence  BY <1>2 DEF Begin
  <2> QED  BY <2>1, <2>2, <2>3 DEF UniqueIds
<1>3. ASSUME NEW t \in Txns, AppendStep(t), ~CommitAppend(t) PROVE UniqueIds'
  <2>1. /\ UNCHANGED evidence /\ tx[t].pc # "idle" /\ tx'[t].id = tx[t].id
        /\ \A u \in Txns : u # t => tx'[u] = tx[u]
    BY <1>0, <1>3 DEF AppendStep, LockChainScope, PreviousChainHash, NextChainSequence, Transaction
  <2> QED  BY <1>1, <2>1
<1>4. ASSUME NEW t \in Txns, Rollback(t) PROVE UniqueIds'
  <2>1. UNCHANGED evidence /\ tx'[t].pc = "idle" /\ \A u \in Txns : u # t => tx'[u] = tx[u]
    BY <1>0, <1>4 DEF Rollback, IdleTx
  <2> QED  BY <1>1, <2>1
<1>5. ASSUME NEW t \in Txns, CommitAppend(t) PROVE UniqueIds'
  <2>1. tx'[t].pc = "idle" /\ \A u \in Txns : u # t => tx'[u] = tx[u]
    BY <1>0, <1>5 DEF CommitAppend, IdleTx
  <2> DEFINE row == [id |-> tx[t].id, scope |-> tx[t].scope, sequence |-> tx[t].sequence,
                     previous_hash |-> tx[t].previous_hash, created_at |-> tx[t].started]
  <2>2. evidence' = evidence \cup {row} /\ row.id = tx[t].id  BY <1>5 DEF CommitAppend
  <2>3. tx[t].pc # "idle"  BY <1>5 DEF CommitAppend
  <2> HIDE DEF row
  <2> QED  BY <2>1, <2>2, <2>3 DEF UniqueIds
<1>6. ASSUME UNCHANGED <<evidence, tx>> PROVE UniqueIds'  BY <1>6 DEF UniqueIds
<1>7. Tick \/ CheckLinks \/ RespondVerified \/ UNCHANGED chainVars => UNCHANGED <<evidence, tx>>
  BY DEF Tick, CheckLinks, RespondVerified, chainVars
<1>8. \A o \in Orgs, since \in Times : SelectRecords(o, since) => UNCHANGED <<evidence, tx>>
  BY DEF SelectRecords
<1> QED  BY <1>2, <1>3, <1>4, <1>5, <1>6, <1>7, <1>8 DEF ChainNext

\* The last hash of a set is None or that of one of its rows.
LEMMA LastIsARow ==
    ASSUME NEW rows, rows # {} => Highest(rows) # {}
    PROVE  HashOfLast(rows) = NoId \/ \E x \in rows : HashOfLast(rows) = x.id
<1>1. CASE rows = {}  BY <1>1 DEF HashOfLast
<1>2. CASE rows # {}
  <2> DEFINE x == CHOOSE r \in Highest(rows) : TRUE
  <2>1. x \in Highest(rows)  BY <1>2
  <2>2. x \in rows  BY <2>1 DEF Highest
  <2> QED  BY <1>2, <2>2 DEF HashOfLast
<1> QED  BY <1>1, <1>2

LEMMA ExpectedIsLastBelow ==
    ASSUME NEW rows, NEW r
    PROVE  ExpectedPrevious(rows, rows, r) = HashOfLast(Below(rows, r))
  BY DEF ExpectedPrevious

\* In a chain, a set of rows that holds the row before position k, or no row
\* at all when k is 1, has a highest row below k.
LEMMA HighestBelow ==
    ASSUME NEW rows, NEW k \in Nat \ {0},
           \A x \in rows : x.sequence \in Nat \ {0} /\ x.sequence < k,
           k > 1 => \E x \in rows : x.sequence = k - 1
    PROVE  rows # {} => Highest(rows) # {}
<1> SUFFICES ASSUME rows # {} PROVE Highest(rows) # {}
  OBVIOUS
<1>1. k > 1  OBVIOUS
<1>2. PICK x \in rows : x.sequence = k - 1  BY <1>1
<1>3. \A q \in rows : q.sequence <= x.sequence  BY <1>2
<1> QED  BY <1>3 DEF Highest

\* What a chain of untouched rows says of a row's link.
LEMMA LinkOf ==
    ASSUME ChainLinear, ChainDense, NEW o \in Orgs, NEW r \in Rows(o), r.sequence > 1
    PROVE  \E p \in Rows(o) : p.sequence + 1 = r.sequence /\ r.previous_hash = p.id
<1>1. r.sequence \in Nat  BY DEF ChainDense, Dense
<1> QED  BY <1>1 DEF ChainLinear

LEMMA DeletionBreaks ==
    ASSUME ChainTypeOK, ChainLinear, ChainDense, UniqueIds, NEW o \in Orgs, NEW r \in Rows(o),
           r \notin Highest(Rows(o))
    PROVE  LET left == Rows(o) \ {r} IN BrokenLinks(left, left) # {}
<1> DEFINE R == Rows(o)
           left == R \ {r}
<1>1. PICK n \in Nat : Dense(o, n)  BY DEF ChainDense
<1>2. \A x \in R : x.sequence \in 1..n /\ x.sequence \in Nat \ {0} /\ x.id \in Ids
  BY <1>1 DEF Dense, ChainTypeOK, Rows, Row
<1>3. \A x, y \in R : (x.sequence = y.sequence \/ x.id = y.id) => x = y
  BY DEF ChainLinear, UniqueIds, Rows
<1>4. PICK q \in R : r.sequence < q.sequence  BY <1>2 DEF Highest
<1>5. r.sequence + 1 \in 1..n  BY <1>2, <1>4
<1>6. PICK s \in R : s.sequence = r.sequence + 1  BY <1>1, <1>5 DEF Dense
<1>7. s \in left /\ s.sequence > 1  BY <1>2, <1>6
<1>8. PICK p \in R : p.sequence + 1 = s.sequence /\ s.previous_hash = p.id  BY <1>7, LinkOf
<1>9. p = r  BY <1>2, <1>3, <1>6, <1>8
<1> DEFINE B == Below(left, s)
<1>0. r \in R /\ r.sequence \in Nat \ {0} /\ r.sequence <= n /\ n \in Nat  BY <1>1, <1>2
<1> HIDE DEF R
<1>10. \A x \in B : x \in left /\ x.sequence \in Nat \ {0} /\ x.sequence < r.sequence
  <2> SUFFICES ASSUME NEW x \in B PROVE x \in left /\ x.sequence \in Nat \ {0} /\ x.sequence < r.sequence
    OBVIOUS
  <2>1. x \in R /\ x # r /\ x.sequence < s.sequence  BY DEF Below
  <2>2. x.sequence \in Nat \ {0}  BY <1>2, <2>1
  <2>3. x.sequence # r.sequence  BY <1>0, <1>3, <2>1
  <2> QED  BY <1>0, <1>6, <2>1, <2>2, <2>3
<1>11. r.sequence > 1 => \E x \in B : x.sequence = r.sequence - 1
  <2> SUFFICES ASSUME r.sequence > 1 PROVE \E x \in B : x.sequence = r.sequence - 1
    OBVIOUS
  <2>1. r.sequence - 1 \in 1..n  BY <1>0
  <2>2. PICK x \in R : x.sequence = r.sequence - 1  BY <1>1, <2>1 DEF Dense, R
  <2>3. x # r /\ x.sequence < s.sequence  BY <1>0, <1>6, <2>2
  <2> QED  BY <2>2, <2>3 DEF Below
<1>12. B # {} => Highest(B) # {}
  <2>1. r.sequence \in Nat \ {0}  BY <1>2 DEF R
  <2> HIDE DEF B
  <2> QED  BY <1>10, <1>11, <2>1, HighestBelow
<1>13. HashOfLast(B) # r.id
  <2>1. HashOfLast(B) = NoId \/ \E x \in B : HashOfLast(B) = x.id  BY <1>12, LastIsARow
  <2>2. r.id # NoId  BY <1>2, IdsAssumption DEF R
  <2>3. \A x \in B : x.id # r.id  BY <1>3, <1>10 DEF R
  <2> QED  BY <2>1, <2>2, <2>3
<1>14. s.previous_hash # ExpectedPrevious(left, left, s)
  BY <1>8, <1>9, <1>13, ExpectedIsLastBelow
<1> QED  BY <1>7, <1>14 DEF BrokenLinks, R

\* The row moved to the lower position has the link of the higher one.
LEMMA ExchangeBreaks ==
    ASSUME ChainTypeOK, ChainLinear, ChainDense, UniqueIds, NEW o \in Orgs, NEW r \in Rows(o), NEW q \in Rows(o),
           r.sequence < q.sequence
    PROVE  LET swapped == (Rows(o) \ {r, q}) \cup
                             {[r EXCEPT !.sequence = q.sequence], [q EXCEPT !.sequence = r.sequence]}
           IN  BrokenLinks(swapped, swapped) # {}
<1> DEFINE R == Rows(o)
           higher == [r EXCEPT !.sequence = q.sequence]
           lower == [q EXCEPT !.sequence = r.sequence]
           swapped == (R \ {r, q}) \cup {higher, lower}
<1>1. PICK n \in Nat : Dense(o, n)  BY DEF ChainDense
<1>2. \A x \in R : x.sequence \in 1..n /\ x.sequence \in Nat \ {0} /\ x.id \in Ids
  BY <1>1 DEF Dense, ChainTypeOK, Rows, Row
<1>3. \A x, y \in R : (x.sequence = y.sequence \/ x.id = y.id) => x = y
  BY DEF ChainLinear, UniqueIds, Rows
<1>4. higher.sequence = q.sequence /\ lower.sequence = r.sequence /\ lower.previous_hash = q.previous_hash
  BY DEF ChainTypeOK, Rows, Row
<1>5. q.sequence > 1  BY <1>2
<1>6. PICK p \in R : p.sequence + 1 = q.sequence /\ q.previous_hash = p.id  BY <1>5, LinkOf
<1> DEFINE B == Below(swapped, lower)
<1>0. r \in R /\ q \in R  OBVIOUS
<1> HIDE DEF R, higher, lower
<1>7. \A x \in B : x \in R /\ x.sequence \in Nat \ {0} /\ x.sequence < r.sequence
  BY <1>0, <1>2, <1>4 DEF Below
<1>8. r.sequence > 1 => \E x \in B : x.sequence = r.sequence - 1
  <2> SUFFICES ASSUME r.sequence > 1 PROVE \E x \in B : x.sequence = r.sequence - 1
    OBVIOUS
  <2>1. r.sequence - 1 \in 1..n  BY <1>0, <1>2
  <2>2. PICK x \in R : x.sequence = r.sequence - 1  BY <1>1, <2>1 DEF Dense, R
  <2>3. x # r /\ x # q /\ x.sequence < lower.sequence  BY <1>0, <1>2, <1>4, <2>2
  <2> QED  BY <2>2, <2>3 DEF Below
<1>9. B # {} => Highest(B) # {}
  <2>1. r.sequence \in Nat \ {0}  BY <1>0, <1>2
  <2> HIDE DEF B
  <2> QED  BY <1>7, <1>8, <2>1, HighestBelow
<1>10. HashOfLast(B) # p.id
  <2>1. HashOfLast(B) = NoId \/ \E x \in B : HashOfLast(B) = x.id  BY <1>9, LastIsARow
  <2>2. p.id # NoId  BY <1>2, <1>6, IdsAssumption
  <2>3. ASSUME NEW x \in B PROVE x.id # p.id
    <3>0. /\ x.sequence \in Nat /\ p.sequence \in Nat /\ q.sequence \in Nat /\ r.sequence \in Nat
          /\ x.sequence < r.sequence
      BY <1>0, <1>2, <1>6, <1>7
    <3>1. x.sequence < p.sequence  BY <1>6, <3>0
    <3>2. x # p  BY <1>2, <1>6, <1>7, <3>1
    <3> QED  BY <1>3, <1>6, <1>7, <3>2
  <2> QED  BY <2>1, <2>2, <2>3
<1>11. lower.previous_hash # ExpectedPrevious(swapped, swapped, lower)
  BY <1>4, <1>6, <1>10, ExpectedIsLastBelow
<1>12. lower \in swapped  OBVIOUS
<1>13. BrokenLinks(swapped, swapped) # {}
  <2> HIDE DEF swapped
  <2> QED  BY <1>11, <1>12 DEF BrokenLinks
<1> QED  BY <1>13 DEF R, higher, lower

(* verify_chain's purpose: whatever the organisation's history, a deleted  *)
(* row (other than the last) or two rows exchanged leave a broken link.    *)
THEOREM TamperingShows == ChainSpec => []TamperEvident
<1>1. ChainTypeOK /\ ChainLinear /\ ChainDense /\ UniqueIds => TamperEvident
  <2> SUFFICES ASSUME ChainTypeOK, ChainLinear, ChainDense, UniqueIds, NEW o \in Orgs, NEW r \in Rows(o)
               PROVE  /\ r \notin Highest(Rows(o)) =>
                            LET left == Rows(o) \ {r} IN BrokenLinks(left, left) # {}
                      /\ \A q \in Rows(o) \ {r} :
                            LET swapped == (Rows(o) \ {r, q}) \cup
                                              {[r EXCEPT !.sequence = q.sequence],
                                               [q EXCEPT !.sequence = r.sequence]}
                            IN  BrokenLinks(swapped, swapped) # {}
    BY DEF TamperEvident
  <2>1. r \notin Highest(Rows(o)) =>
           LET left == Rows(o) \ {r} IN BrokenLinks(left, left) # {}
    BY DeletionBreaks
  <2>2. ASSUME NEW q \in Rows(o) \ {r}
        PROVE  LET swapped == (Rows(o) \ {r, q}) \cup
                                 {[r EXCEPT !.sequence = q.sequence], [q EXCEPT !.sequence = r.sequence]}
               IN  BrokenLinks(swapped, swapped) # {}
    <3>1. r.sequence \in Nat /\ q.sequence \in Nat /\ r.sequence # q.sequence
      BY DEF ChainDense, Dense, ChainLinear
    <3>2. CASE r.sequence < q.sequence  BY <3>2, ExchangeBreaks
    <3>3. CASE q.sequence < r.sequence
      <4> DEFINE higher == [q EXCEPT !.sequence = r.sequence]
                 lower == [r EXCEPT !.sequence = q.sequence]
                 swapped == (Rows(o) \ {q, r}) \cup {higher, lower}
      <4>1. BrokenLinks(swapped, swapped) # {}  BY <3>3, ExchangeBreaks
      <4> HIDE DEF higher, lower
      <4>2. swapped = (Rows(o) \ {r, q}) \cup {lower, higher}  OBVIOUS
      <4> QED  BY <4>1, <4>2 DEF higher, lower
    <3> QED  BY <3>1, <3>2, <3>3
  <2> QED  BY <2>1, <2>2
<1>2. ChainInit => UniqueIds  BY DEF ChainInit, UniqueIds, IdleTx
<1>3. ChainSpec => []UniqueIds
  <2>1. ChainInv => ChainTypeOK  BY DEF ChainInv
  <2> QED  BY <1>2, <2>1, UniqueIdsStep, SpecChainInv, PTL DEF ChainSpec
<1>4. ChainInv => ChainTypeOK /\ ChainLinear /\ ChainDense  BY DEF ChainInv
<1> QED  BY <1>1, <1>3, <1>4, SpecChainInv, PTL

=============================================================================
