-------------------------- MODULE CommandCoreProofs -------------------------
(***************************************************************************)
(* Proofs about CommandCore, for any number of calls, keys, aggregates and *)
(* payloads.  What a call may rely on is decided by the row and the key it *)
(* holds, so the inductive invariant IInv ties each call's place in its    *)
(* transaction to its locks, and the events to the receipts.               *)
(***************************************************************************)
EXTENDS CommandCore, TLAPS

\* What a call in the middle of its transaction can rely on.
Placed(c) ==
  LET r == call[c].req
  IN  /\ call[c].pc \in {"mismatch", "owning", "recorded"} => rowLock[r.target] = c
      /\ call[c].pc \in {"owning", "recorded"} =>
           \/ version[r.target] = r.expected
           \/ r.create /\ version[r.target] = None
      /\ call[c].pc = "recorded" => keyLock[r.key] = c /\ receipt[r.key] = None
      /\ call[c].pc \in {"insert", "createRace", "noReceipt"} => r.create
      /\ call[c].pc \in {"createRace", "noReceipt"} => version[r.target] # None
      /\ call[c].pc = "noReceipt" => receipt[r.key] = None \/ receipt[r.key].req # r

\* Events and receipts describe the same commits.
Ledger ==
  /\ \A e \in events : /\ receipt[e.key] # None
                       /\ receipt[e.key].req.target = e.target
                       /\ receipt[e.key].version = e.version
  /\ \A k \in Keys : receipt[k] # None =>
       receipt[k].req.key = k /\ \E e \in events : e.key = k
  /\ \A e, f \in events : (e.target = f.target /\ e.version = f.version) => e = f

\* An aggregate that only commands create never has version 0, so a call that
\* lost its creation cannot see its own command accepted afterwards.
NoVersionZero == \A a \in Aggregates : a \notin Seeded => version[a] # 0

IInv == /\ TypeOK
        /\ \A c \in Calls : Placed(c)
        /\ Ledger
        /\ VersionCoversEvents
        /\ AnswersAgree
        /\ NoVersionZero

-----------------------------------------------------------------------------
\* The shape of a step: c goes to pc p with the request it has, the other calls
\* stay where they are.
Moves(c, p) ==
  /\ call' \in [Calls -> Call]
  /\ call'[c].pc = p
  /\ call'[c].req = call[c].req
  /\ \A d \in Calls : d # c => call'[d] = call[d]

\* The others keep their locks.
Keeps(c) ==
  /\ rowLock' \in [Aggregates -> Calls \cup {None}]
  /\ keyLock' \in [Keys -> Calls \cup {None}]
  /\ \A d \in Calls : d # c =>
       /\ \A a \in Aggregates : rowLock[a] = d => rowLock'[a] = d
       /\ \A k \in Keys : keyLock[k] = d => keyLock'[k] = d

LEMMA GotoMoves ==
  ASSUME TypeOK, NEW c \in Calls, NEW p \in Pcs, Goto(c, p)
  PROVE  Moves(c, p)
BY DEF TypeOK, Goto, Moves, Call

LEMMA FinishMoves ==
  ASSUME TypeOK, NEW c \in Calls, NEW a \in Answers \cup {None}, Finish(c, a)
  PROVE  Moves(c, "idle") /\ call'[c].answer = a
BY DEF TypeOK, Finish, Moves, Call, Pcs

LEMMA FreeKeeps ==
  ASSUME TypeOK, NEW c \in Calls, FreeLocks(c)
  PROVE  Keeps(c)
BY CommandAssumption DEF TypeOK, FreeLocks, Keeps

LEMMA SameKeeps ==
  ASSUME TypeOK, NEW c \in Calls, UNCHANGED locks
  PROVE  Keeps(c)
BY DEF TypeOK, locks, Keeps

\* The fields of a request.
LEMMA RequestFields ==
  ASSUME NEW r \in Requests
  PROVE  /\ r.key \in Keys /\ r.target \in Aggregates /\ r.expected \in Nat
         /\ r.expected \in 0..MaxVersion
         /\ r.create \in BOOLEAN
         /\ r.create => r.expected = 0 /\ r.target \notin Seeded
BY CommandAssumption DEF Requests

\* A receipt is read where it is known to be there.
LEMMA ReceiptFields ==
  ASSUME TypeOK, NEW k \in Keys, receipt[k] # None
  PROVE  /\ receipt[k].req \in Requests
         /\ receipt[k].version \in Nat
BY DEF TypeOK, Receipt

-----------------------------------------------------------------------------
\* A call keeps a request as long as it runs.
Requested == \A c \in Calls : call[c].pc # "idle" => call[c].req \in Requests

LEMMA MovesType ==
  ASSUME TypeOK, NEW c \in Calls, NEW p \in Pcs, Moves(c, p),
         p = "idle" \/ call[c].pc # "idle"
  PROVE  call' \in [Calls -> Call] /\ Requested'
BY DEF TypeOK, Moves, Requested

\* What answering from a receipt does.
LEMMA ReplayMoves ==
  ASSUME TypeOK, NEW c \in Calls, call[c].pc # "idle", HasReceipt(c), Replay(c)
  PROVE  /\ Moves(c, "idle")
         /\ call'[c].answer # "VERSION_CONFLICT"
         /\ call'[c].answer = "COMMITTED" => granted
         /\ told' \subseteq Receipt
         /\ \/ UNCHANGED told
            \/ /\ granted
               /\ told' = told \cup {[req |-> call[c].req,
                                      version |-> receipt[call[c].req.key].version]}
               /\ receipt[call[c].req.key].req = call[c].req
<1>1. call[c].req \in Requests BY DEF TypeOK
<1>2. call[c].req.key \in Keys BY <1>1, RequestFields
<1>3. receipt[call[c].req.key].version \in Nat BY <1>2, ReceiptFields DEF HasReceipt
<1>4. told \subseteq Receipt BY DEF TypeOK
<1>5. CASE Finish(c, "IDEMPOTENCY_CONFLICT") /\ UNCHANGED told
  BY <1>4, <1>5, FinishMoves DEF Answers
<1>6. CASE Finish(c, "DENIED") /\ UNCHANGED told
  BY <1>4, <1>6, FinishMoves DEF Answers
<1>7. CASE Tell(c, receipt[call[c].req.key]) /\ granted
           /\ receipt[call[c].req.key].req = call[c].req
  BY <1>1, <1>3, <1>4, <1>7, FinishMoves DEF Tell, Receipt, Answers
<1>8. granted \in BOOLEAN BY DEF TypeOK
<1> QED BY <1>5, <1>6, <1>7, <1>8 DEF Replay

\* What persisting a request does to the tables.
LEMMA PersistRows ==
  ASSUME TypeOK, NEW r \in Requests, Persist(r)
  PROVE  /\ NextVersion(r) \in Nat
         /\ version' \in [Aggregates -> Nat \cup {None}]
         /\ version'[r.target] = NextVersion(r)
         /\ \A a \in Aggregates : a # r.target => version'[a] = version[a]
         /\ receipt' \in [Keys -> Receipt \cup {None}]
         /\ receipt'[r.key] = [req |-> r, version |-> NextVersion(r)]
         /\ receipt'[r.key] # None
         /\ \A k \in Keys : k # r.key => receipt'[k] = receipt[k]
         /\ events' = events \cup {[key |-> r.key, target |-> r.target,
                                    version |-> NextVersion(r)]}
         /\ events' \subseteq Event
<1>1. NextVersion(r) \in Nat BY RequestFields DEF NextVersion
<1>2. [req |-> r, version |-> NextVersion(r)] \in Receipt BY <1>1 DEF Receipt
<1>3. [req |-> r, version |-> NextVersion(r)] # None
  BY <1>2, NoneIsNoValue DEF Receipt
<1>4. [key |-> r.key, target |-> r.target, version |-> NextVersion(r)] \in Event
  BY <1>1, RequestFields DEF Event
<1> HIDE DEF NextVersion
<1> QED BY <1>1, <1>2, <1>3, <1>4, RequestFields DEF Persist, TypeOK

-----------------------------------------------------------------------------
\* A step that leaves the tables alone can only disturb what its own call
\* relies on.
LEMMA LocalStep ==
  ASSUME IInv, NEW c \in Calls, NEW p \in Pcs, Moves(c, p), Keeps(c),
         p = "idle" \/ call[c].pc # "idle",
         UNCHANGED tables, UNCHANGED granted,
         told' \subseteq Receipt, AnswersAgree', Placed(c)'
  PROVE  IInv'
<1> USE DEF IInv
<1>1. TypeOK'
  <2>1. call' \in [Calls -> Call] /\ Requested' BY MovesType
  <2> QED BY <2>1 DEF TypeOK, Keeps, tables, Requested
<1>2. ASSUME NEW d \in Calls PROVE Placed(d)'
  <2>1. CASE d = c BY <2>1
  <2>2. CASE d # c
    <3>1. call'[d] = call[d] BY <2>2 DEF Moves
    <3>2. call[d].pc # "idle" => call[d].req.key \in Keys /\ call[d].req.target \in Aggregates
      BY RequestFields DEF TypeOK
    <3>3. Placed(d) OBVIOUS
    <3> QED BY <2>2, <3>1, <3>2, <3>3 DEF Placed, Keeps, tables
  <2> QED BY <2>1, <2>2
<1>3. Ledger' BY DEF Ledger, tables
<1>4. VersionCoversEvents' BY DEF VersionCoversEvents, tables
<1>5. NoVersionZero' BY DEF NoVersionZero, tables
<1> QED BY <1>1, <1>2, <1>3, <1>4, <1>5

\* A told result that was read from the receipt agrees with it.
LEMMA ToldFromReceipt ==
  ASSUME TypeOK, AnswersAgree, NEW r \in Requests,
         receipt[r.key] # None, receipt[r.key].req = r, UNCHANGED receipt,
         told' = told \cup {[req |-> r, version |-> receipt[r.key].version]}
  PROVE  AnswersAgree'
<1>1. receipt[r.key] \in Receipt BY RequestFields DEF TypeOK
<1>2. receipt[r.key] = [req |-> r, version |-> receipt[r.key].version]
  BY <1>1 DEF Receipt
<1> QED BY <1>2 DEF AnswersAgree

\* A call that ends has nothing to rely on.
LEMMA EndedCall ==
  ASSUME NEW c \in Calls, call'[c].pc \in {"idle", "authorized", "missed"}
  PROVE  Placed(c)'
BY DEF Placed

\* Answering from a receipt keeps the invariant.
LEMMA ReplayStep ==
  ASSUME IInv, NEW c \in Calls, call[c].pc # "idle", HasReceipt(c), Replay(c),
         Keeps(c), UNCHANGED tables, UNCHANGED granted
  PROVE  IInv'
<1>1. TypeOK /\ AnswersAgree BY DEF IInv
<1>2. call[c].req \in Requests BY <1>1 DEF TypeOK
<1>3. Moves(c, "idle") /\ told' \subseteq Receipt BY <1>1, ReplayMoves
<1>4. AnswersAgree'
  <2>1. CASE UNCHANGED told BY <1>1, <2>1 DEF AnswersAgree, tables
  <2>2. CASE /\ told' = told \cup {[req |-> call[c].req,
                                    version |-> receipt[call[c].req.key].version]}
             /\ receipt[call[c].req.key].req = call[c].req
    BY <1>1, <1>2, <2>2, ToldFromReceipt DEF HasReceipt, tables
  <2> QED BY <1>1, <2>1, <2>2, ReplayMoves
<1>5. Placed(c)' BY <1>3, EndedCall DEF Moves
<1> QED BY <1>3, <1>4, <1>5, LocalStep DEF Pcs

\* Ending with nothing told keeps the invariant.
LEMMA FinishStep ==
  ASSUME IInv, NEW c \in Calls, NEW a \in Answers \cup {None}, Finish(c, a),
         Keeps(c), UNCHANGED tables, UNCHANGED granted, UNCHANGED told
  PROVE  IInv'
<1>1. Moves(c, "idle") BY FinishMoves DEF IInv
<1>2. Placed(c)' BY <1>1, EndedCall DEF Moves
<1>3. told' \subseteq Receipt /\ AnswersAgree' BY DEF IInv, TypeOK, AnswersAgree, tables
<1> QED BY <1>1, <1>2, <1>3, LocalStep DEF Pcs

\* So does moving on to where the call's new place is justified.
LEMMA GotoStep ==
  ASSUME IInv, NEW c \in Calls, NEW p \in Pcs, Goto(c, p), call[c].pc # "idle",
         Keeps(c), UNCHANGED tables, UNCHANGED granted, UNCHANGED told, Placed(c)'
  PROVE  IInv'
<1>1. Moves(c, p) BY GotoMoves DEF IInv
<1>2. told' \subseteq Receipt /\ AnswersAgree' BY DEF IInv, TypeOK, AnswersAgree, tables
<1> QED BY <1>1, <1>2, LocalStep

-----------------------------------------------------------------------------
\* The commit: the call holds the row, so the version is the one it compared,
\* and the key, so nobody else recorded its events.
LEMMA PersistStep ==
  ASSUME IInv, NEW c \in Calls, call[c].pc = "recorded", Persist(call[c].req),
         Moves(c, "idle"), Keeps(c), UNCHANGED granted,
         told' \in {told, told \cup {[req |-> call[c].req,
                                     version |-> NextVersion(call[c].req)]}}
  PROVE  IInv'
<1> DEFINE r == call[c].req
           n == NextVersion(r)
           new == [key |-> r.key, target |-> r.target, version |-> n]
<1>1. TypeOK /\ Placed(c) BY DEF IInv
<1>2. r \in Requests BY <1>1 DEF TypeOK
<1>3. r.key \in Keys /\ r.target \in Aggregates /\ r.expected \in Nat BY <1>2, RequestFields
<1>4. /\ rowLock[r.target] = c
      /\ keyLock[r.key] = c
      /\ receipt[r.key] = None
      /\ \/ version[r.target] = r.expected
         \/ r.create /\ version[r.target] = None
  BY <1>1 DEF Placed
<1>5. /\ version' \in [Aggregates -> Nat \cup {None}]
      /\ version'[r.target] = n
      /\ \A a \in Aggregates : a # r.target => version'[a] = version[a]
      /\ receipt' \in [Keys -> Receipt \cup {None}]
      /\ receipt'[r.key] = [req |-> r, version |-> n]
      /\ receipt'[r.key] # None
      /\ \A k \in Keys : k # r.key => receipt'[k] = receipt[k]
      /\ events' = events \cup {new}
      /\ events' \subseteq Event
      /\ n \in Nat
  BY <1>1, <1>2, PersistRows
<1>6. n = r.expected + 1 BY DEF NextVersion
<1> HIDE DEF n
<1>7. n # 0 /\ n # None BY <1>3, <1>5, <1>6, CommandAssumption
<1>8. TypeOK'
  <2>1. call' \in [Calls -> Call] /\ Requested' BY <1>1, MovesType DEF Pcs
  <2>2. told' \subseteq Receipt
    <3>1. [req |-> r, version |-> n] \in Receipt BY <1>2, <1>5 DEF Receipt
    <3> QED BY <1>1, <3>1 DEF TypeOK, n
  <2> QED BY <1>1, <1>5, <2>1, <2>2 DEF TypeOK, Keeps, Requested
<1>9. ASSUME NEW d \in Calls PROVE Placed(d)'
  <2>1. CASE d = c BY <2>1, EndedCall DEF Moves
  <2>2. CASE d # c
    <3> DEFINE q == call[d].req
    <3>1. call'[d] = call[d] /\ Placed(d) BY <2>2 DEF Moves, IInv
    <3>2. CASE call[d].pc \in {"idle", "authorized", "missed"} BY <3>1, <3>2, EndedCall
    <3>3. CASE call[d].pc \notin {"idle", "authorized", "missed"}
      <4>1. q \in Requests BY <1>1, <3>3 DEF TypeOK
      <4>2. /\ q.key \in Keys /\ q.target \in Aggregates
            /\ q.create => q.expected = 0 /\ q.target \notin Seeded
        BY <4>1, RequestFields
      <4>3. call[d].pc \in {"mismatch", "owning", "recorded"} =>
              rowLock'[q.target] = d /\ q.target # r.target
        BY <1>4, <2>2, <3>1, <4>2 DEF Placed, Keeps
      <4>4. call[d].pc \in {"owning", "recorded"} =>
              \/ version'[q.target] = q.expected
              \/ q.create /\ version'[q.target] = None
        BY <1>5, <3>1, <4>2, <4>3 DEF Placed
      <4>5. call[d].pc = "recorded" => keyLock'[q.key] = d /\ receipt'[q.key] = None
        BY <1>4, <1>5, <2>2, <3>1, <4>2 DEF Placed, Keeps
      <4>6. call[d].pc \in {"createRace", "noReceipt"} => version'[q.target] # None
        BY <1>5, <1>7, <3>1, <4>2 DEF Placed
      <4>7. call[d].pc = "noReceipt" => receipt'[q.key] = None \/ receipt'[q.key].req # q
        <5>1. CASE q = r /\ call[d].pc = "noReceipt"
          <6>1. q.create /\ version[q.target] # None BY <3>1, <5>1 DEF Placed
          <6>2. version[q.target] = 0 BY <1>4, <4>2, <5>1, <6>1
          <6> QED BY <4>2, <6>1, <6>2 DEF IInv, NoVersionZero
        <5>2. CASE q # r /\ call[d].pc = "noReceipt"
          BY <1>5, <3>1, <4>2, <5>2 DEF Placed
        <5> QED BY <5>1, <5>2
      <4> QED BY <3>1, <4>3, <4>4, <4>5, <4>6, <4>7 DEF Placed
    <3> QED BY <3>2, <3>3
  <2> QED BY <2>1, <2>2
<1>10. \A e \in events : e \in Event /\ e.key # r.key /\ e.key \in Keys
  BY <1>1, <1>4 DEF IInv, Ledger, TypeOK, Event
<1>11. \A e \in events : e.target = r.target => e.version # n
  <2> SUFFICES ASSUME NEW e \in events, e.target = r.target
               PROVE  e.version # n
    OBVIOUS
  <2>1. version[r.target] # None /\ e.version <= version[r.target]
    BY DEF IInv, VersionCoversEvents
  <2>2. e.version \in Nat BY <1>1 DEF TypeOK, Event
  <2> QED BY <1>3, <1>4, <1>6, <2>1, <2>2
<1>12. Ledger'
  <2>1. \A e \in events' : /\ receipt'[e.key] # None
                           /\ receipt'[e.key].req.target = e.target
                           /\ receipt'[e.key].version = e.version
    BY <1>5, <1>10 DEF IInv, Ledger
  <2>2. \A k \in Keys : receipt'[k] # None =>
          receipt'[k].req.key = k /\ \E e \in events' : e.key = k
    <3> SUFFICES ASSUME NEW k \in Keys, receipt'[k] # None
                 PROVE  receipt'[k].req.key = k /\ \E e \in events' : e.key = k
      OBVIOUS
    <3>1. CASE k = r.key
      <4>1. new \in events' /\ new.key = r.key BY <1>5
      <4>2. receipt'[r.key].req.key = r.key BY <1>5
      <4> QED BY <3>1, <4>1, <4>2
    <3>2. CASE k # r.key BY <1>5, <3>2 DEF IInv, Ledger
    <3> QED BY <3>1, <3>2
  <2>3. \A e, f \in events' : (e.target = f.target /\ e.version = f.version) => e = f
    BY <1>5, <1>11 DEF IInv, Ledger
  <2> QED BY <2>1, <2>2, <2>3 DEF Ledger
<1>13. VersionCoversEvents'
  <2> SUFFICES ASSUME NEW e \in events'
               PROVE  version'[e.target] # None /\ e.version <= version'[e.target]
    BY DEF VersionCoversEvents
  <2>1. CASE e = new BY <1>5, <1>7, <2>1
  <2>2. CASE e \in events
    <3>1. e.target \in Aggregates /\ e.version \in Nat BY <1>1, <2>2 DEF TypeOK, Event
    <3>2. version[e.target] # None /\ e.version <= version[e.target]
      BY <2>2 DEF IInv, VersionCoversEvents
    <3>3. CASE e.target = r.target BY <1>3, <1>4, <1>5, <1>6, <1>7, <3>1, <3>2, <3>3
    <3>4. CASE e.target # r.target BY <1>5, <3>1, <3>2, <3>4
    <3> QED BY <3>3, <3>4
  <2> QED BY <1>5, <2>1, <2>2
<1>14. AnswersAgree'
  <2> SUFFICES ASSUME NEW t \in told' PROVE receipt'[t.req.key] = t
    BY DEF AnswersAgree
  <2>1. CASE t = [req |-> r, version |-> n] BY <1>5, <2>1
  <2>2. CASE t \in told
    <3>1. t \in Receipt /\ receipt[t.req.key] = t
      BY <1>1, <2>2 DEF IInv, AnswersAgree, TypeOK
    <3>2. t # None /\ t.req.key \in Keys BY <3>1, NoneIsNoValue, RequestFields DEF Receipt
    <3> QED BY <1>4, <1>5, <3>1, <3>2
  <2> QED BY <2>1, <2>2 DEF n
<1>15. NoVersionZero' BY <1>5, <1>7 DEF IInv, NoVersionZero
<1> QED BY <1>8, <1>9, <1>12, <1>13, <1>14, <1>15 DEF IInv

\* Others write only rows that nobody holds, and only seeded ones.
LEMMA OtherWriteStep ==
  ASSUME IInv, NEW a \in Aggregates, OtherWrite(a)
  PROVE  IInv'
<1>1. TypeOK BY DEF IInv
<1>2. /\ version' \in [Aggregates -> Nat \cup {None}]
      /\ \A b \in Aggregates : b # a => version'[b] = version[b]
      /\ version'[a] # None
      /\ version[a] # None => version[a] \in Nat /\ version'[a] = version[a] + 1
  BY <1>1, CommandAssumption DEF TypeOK, OtherWrite
<1>3. a \in Seeded /\ rowLock[a] = None
      /\ UNCHANGED <<receipt, events, call, rowLock, keyLock, granted, told>>
  BY DEF OtherWrite, locks
<1>4. TypeOK' BY <1>1, <1>2, <1>3 DEF TypeOK
<1>5. ASSUME NEW d \in Calls PROVE Placed(d)'
  <2>1. Placed(d) BY DEF IInv
  <2>2. CASE call[d].pc = "idle" BY <1>3, <2>2, EndedCall
  <2>3. CASE call[d].pc # "idle"
    <3>1. call[d].req.target \in Aggregates BY <1>1, <2>3, RequestFields DEF TypeOK
    <3>2. d # None BY CommandAssumption
    <3> QED BY <1>2, <1>3, <2>1, <3>1, <3>2 DEF Placed
  <2> QED BY <2>2, <2>3
<1>6. Ledger' BY <1>3 DEF IInv, Ledger
<1>7. VersionCoversEvents'
  <2> SUFFICES ASSUME NEW e \in events
               PROVE  version'[e.target] # None /\ e.version <= version'[e.target]
    BY <1>3 DEF VersionCoversEvents
  <2>1. e.target \in Aggregates /\ e.version \in Nat BY <1>1 DEF TypeOK, Event
  <2>2. version[e.target] # None /\ e.version <= version[e.target]
    BY DEF IInv, VersionCoversEvents
  <2> QED BY <1>2, <2>1, <2>2
<1>8. AnswersAgree' BY <1>3 DEF IInv, AnswersAgree
<1>9. NoVersionZero' BY <1>2, <1>3 DEF IInv, NoVersionZero
<1> QED BY <1>4, <1>5, <1>6, <1>7, <1>8, <1>9 DEF IInv

-----------------------------------------------------------------------------
\* The invariant holds at the start, and every step keeps it.
LEMMA InvInit == Init => IInv
BY CommandAssumption DEF Init, IInv, TypeOK, Placed, Ledger, VersionCoversEvents,
                         AnswersAgree, NoVersionZero, Call, Pcs

LEMMA InvNext == IInv /\ [Next]_vars => IInv'
<1> SUFFICES ASSUME IInv, [Next]_vars PROVE IInv' OBVIOUS
<1>1. TypeOK BY DEF IInv
<1>2. ASSUME NEW c \in Calls, Proceed(c) PROVE IInv'
  <2>1. CASE ReadReceipt(c)
    <3>1. call[c].pc # "idle" /\ Keeps(c) /\ UNCHANGED tables /\ UNCHANGED granted
      BY <1>1, <2>1, SameKeeps DEF ReadReceipt, At
    <3>2. CASE HasReceipt(c) BY <2>1, <3>1, <3>2, ReplayStep DEF ReadReceipt
    <3>3. CASE Goto(c, "missed") /\ UNCHANGED told
      <4>1. Placed(c)' BY <1>1, <3>3, GotoMoves, EndedCall DEF Moves, Pcs
      <4> QED BY <3>1, <3>3, <4>1, GotoStep DEF Pcs
    <3> QED BY <2>1, <3>2, <3>3 DEF ReadReceipt
  <2>2. CASE LockAggregate(c)
    <3> DEFINE p == IF Matches(version[call[c].req.target], call[c].req)
                      THEN "owning" ELSE "mismatch"
    <3>1. /\ call[c].pc # "idle" /\ Goto(c, p) /\ p \in Pcs
          /\ UNCHANGED <<tables, keyLock, granted, told>>
      BY <2>2 DEF LockAggregate, At, Pcs
    <3>2. call[c].req.target \in Aggregates BY <1>1, <3>1, RequestFields DEF TypeOK
    <3>3. /\ rowLock[call[c].req.target] = None
          /\ rowLock' = [rowLock EXCEPT ![call[c].req.target] = c]
      BY <2>2 DEF LockAggregate
    <3>4. Keeps(c) BY <1>1, <3>1, <3>2, <3>3, CommandAssumption DEF TypeOK, Keeps
    <3>5. call'[c].pc = p /\ call'[c].req = call[c].req
      BY <1>1, <3>1, GotoMoves DEF Moves
    <3>6. rowLock'[call[c].req.target] = c BY <1>1, <3>2, <3>3 DEF TypeOK
    <3>7. p = "owning" => version[call[c].req.target] = call[c].req.expected
      BY DEF Matches
    <3>8. p \in {"owning", "mismatch"} OBVIOUS
    <3> HIDE DEF p
    <3>9. Placed(c)' BY <3>1, <3>5, <3>6, <3>7, <3>8 DEF Placed, tables
    <3> QED BY <3>1, <3>4, <3>9, GotoStep
  <2>3. CASE MissAggregate(c)
    <3>1. /\ call[c].pc # "idle" /\ Keeps(c) /\ UNCHANGED tables
          /\ UNCHANGED granted /\ UNCHANGED told
      BY <1>1, <2>3, SameKeeps DEF MissAggregate, At
    <3>2. CASE Finish(c, "NOT_FOUND") BY <3>1, <3>2, FinishStep DEF Answers
    <3>3. CASE call[c].req.create /\ Goto(c, "insert")
      <4>1. Placed(c)' BY <1>1, <3>3, GotoMoves DEF Moves, Pcs, Placed
      <4> QED BY <3>1, <3>3, <4>1, GotoStep DEF Pcs
    <3> QED BY <2>3, <3>2, <3>3 DEF MissAggregate
  <2>4. CASE Reread(c)
    <3>1. call[c].pc # "idle" /\ Keeps(c) /\ UNCHANGED tables /\ UNCHANGED granted
      BY <1>1, <2>4, FreeKeeps DEF Reread, At
    <3>2. CASE HasReceipt(c) BY <2>4, <3>1, <3>2, ReplayStep DEF Reread
    <3>3. CASE Finish(c, "VERSION_CONFLICT") /\ UNCHANGED told
      BY <3>1, <3>3, FinishStep DEF Answers
    <3> QED BY <2>4, <3>2, <3>3 DEF Reread
  <2>5. CASE InsertAggregate(c)
    <3> DEFINE a == call[c].req.target
    <3>1. /\ call[c].pc = "insert"
          /\ rowLock[a] = None
          /\ UNCHANGED <<tables, keyLock, granted, told>>
      BY <2>5 DEF InsertAggregate, At
    <3>2. a \in Aggregates BY <1>1, <3>1, RequestFields DEF TypeOK
    <3>3. call[c].req.create BY <3>1 DEF IInv, Placed
    <3>4. CASE version[a] = None
      <4>1. rowLock' = [rowLock EXCEPT ![a] = c] /\ Goto(c, "owning")
        BY <2>5, <3>4 DEF InsertAggregate
      <4>2. Keeps(c) BY <1>1, <3>1, <3>2, <4>1, CommandAssumption DEF TypeOK, Keeps
      <4>3. call'[c].pc = "owning" /\ call'[c].req = call[c].req
        BY <1>1, <4>1, GotoMoves DEF Moves, Pcs
      <4>4. rowLock'[a] = c BY <1>1, <3>2, <4>1 DEF TypeOK
      <4>5. Placed(c)' BY <3>1, <3>3, <3>4, <4>3, <4>4 DEF Placed, tables
      <4> QED BY <3>1, <4>1, <4>2, <4>5, GotoStep DEF Pcs
    <3>5. CASE version[a] # None
      <4>1. UNCHANGED rowLock /\ Goto(c, "createRace")
        BY <2>5, <3>5 DEF InsertAggregate
      <4>2. Keeps(c) BY <1>1, <3>1, <4>1, SameKeeps DEF locks
      <4>3. call'[c].pc = "createRace" /\ call'[c].req = call[c].req
        BY <1>1, <4>1, GotoMoves DEF Moves, Pcs
      <4>4. Placed(c)' BY <3>1, <3>3, <3>5, <4>3 DEF Placed, tables
      <4> QED BY <3>1, <4>1, <4>2, <4>4, GotoStep DEF Pcs
    <3> QED BY <3>4, <3>5
  <2>6. CASE Fail(c)
    <3>1. Keeps(c) BY <1>1, <2>6, FreeKeeps DEF Fail
    <3> QED BY <2>6, <3>1, FinishStep DEF Fail, Answers
  <2>7. CASE RecordEvents(c)
    <3> DEFINE k == call[c].req.key
    <3>1. /\ call[c].pc = "owning" /\ keyLock[k] = None
          /\ UNCHANGED <<tables, granted, told>>
      BY <2>7 DEF RecordEvents, At
    <3>2. k \in Keys BY <1>1, <3>1, RequestFields DEF TypeOK
    <3>3. CASE KeyTaken(k)
      <4>1. Goto(c, "keyRace") /\ FreeLocks(c) BY <2>7, <3>3 DEF RecordEvents
      <4>2. Placed(c)' BY <1>1, <4>1, GotoMoves DEF Moves, Pcs, Placed
      <4> QED BY <1>1, <3>1, <4>1, <4>2, GotoStep, FreeKeeps DEF Pcs
    <3>4. CASE ~KeyTaken(k)
      <4>1. /\ Goto(c, "recorded")
            /\ keyLock' = [keyLock EXCEPT ![k] = c]
            /\ UNCHANGED rowLock
        BY <2>7, <3>4 DEF RecordEvents
      <4>2. Keeps(c) BY <1>1, <3>1, <3>2, <4>1, CommandAssumption DEF TypeOK, Keeps
      <4>3. call'[c].pc = "recorded" /\ call'[c].req = call[c].req
        BY <1>1, <4>1, GotoMoves DEF Moves, Pcs
      <4>4. keyLock'[k] = c BY <1>1, <3>2, <4>1 DEF TypeOK
      <4>5. receipt[k] = None BY <3>2, <3>4 DEF IInv, Ledger, KeyTaken
      <4>6. Placed(c) BY DEF IInv
      <4>7. Placed(c)' BY <3>1, <4>1, <4>3, <4>4, <4>5, <4>6 DEF Placed, tables
      <4> QED BY <3>1, <4>1, <4>2, <4>7, GotoStep DEF Pcs
    <3> QED BY <3>3, <3>4
  <2>8. CASE Commit(c)
    BY <1>1, <2>8, PersistStep, FinishMoves, FreeKeeps DEF Commit, At, Answers
  <2>9. CASE CommitUnacknowledged(c)
    <3>1. /\ call[c].pc = "recorded" /\ Keeps(c) /\ Finish(c, "STORAGE_FAILURE")
          /\ UNCHANGED granted /\ UNCHANGED told
      BY <1>1, <2>9, FreeKeeps DEF CommitUnacknowledged, At
    <3>2. CASE Persist(call[c].req)
      BY <1>1, <3>1, <3>2, PersistStep, FinishMoves DEF Answers
    <3>3. CASE UNCHANGED tables BY <3>1, <3>3, FinishStep DEF Answers
    <3> QED BY <2>9, <3>2, <3>3 DEF CommitUnacknowledged
  <2>10. CASE ReconcileReceipt(c)
    <3>1. call[c].pc # "idle" /\ Keeps(c) /\ UNCHANGED tables /\ UNCHANGED granted
      BY <1>1, <2>10, SameKeeps DEF ReconcileReceipt, At
    <3>2. CASE HasReceipt(c) /\ Replay(c) BY <3>1, <3>2, ReplayStep
    <3>3. CASE Finish(c, "STORAGE_FAILURE") /\ UNCHANGED told
      BY <3>1, <3>3, FinishStep DEF Answers
    <3>4. CASE Finish(c, "DENIED") /\ UNCHANGED told
      BY <3>1, <3>4, FinishStep DEF Answers
    <3> QED BY <2>10, <3>2, <3>3, <3>4 DEF ReconcileReceipt
  <2>11. CASE ReconcileCreate(c)
    <3>1. /\ call[c].pc = "createRace" /\ Keeps(c) /\ UNCHANGED tables
          /\ UNCHANGED granted
      BY <1>1, <2>11, SameKeeps DEF ReconcileCreate, At
    <3>2. CASE HasReceipt(c) /\ Replay(c) BY <3>1, <3>2, ReplayStep
    <3>3. CASE ~HasReceipt(c) /\ Goto(c, "noReceipt") /\ UNCHANGED told
      <4>1. call'[c].pc = "noReceipt" /\ call'[c].req = call[c].req
        BY <1>1, <3>3, GotoMoves DEF Moves, Pcs
      <4>2. Placed(c) BY DEF IInv
      <4>3. Placed(c)' BY <3>1, <3>3, <4>1, <4>2 DEF Placed, HasReceipt, tables
      <4> QED BY <3>1, <3>3, <4>3, GotoStep DEF Pcs
    <3>4. CASE Finish(c, "DENIED") /\ UNCHANGED told
      BY <3>1, <3>4, FinishStep DEF Answers
    <3> QED BY <2>11, <3>2, <3>3, <3>4 DEF ReconcileCreate
  <2>12. CASE ReportCreate(c)
    <3>1. Keeps(c) BY <1>1, <2>12, SameKeeps DEF ReportCreate
    <3> QED BY <2>12, <3>1, FinishStep DEF ReportCreate, Answers
  <2> QED BY <1>2, <2>1, <2>2, <2>3, <2>4, <2>5, <2>6, <2>7, <2>8, <2>9, <2>10,
             <2>11, <2>12 DEF Proceed
<1>3. ASSUME NEW c \in Calls, Crash(c) PROVE IInv'
  <2>1. Keeps(c) BY <1>1, <1>3, FreeKeeps DEF Crash
  <2> QED BY <1>3, <2>1, FinishStep DEF Crash
<1>4. ASSUME NEW c \in Calls, NEW r \in Requests, Start(c, r) PROVE IInv'
  <2>1. /\ call' \in [Calls -> Call]
        /\ call'[c].pc \in {"authorized", "idle"}
        /\ call'[c].req = r
        /\ \A d \in Calls : d # c => call'[d] = call[d]
    BY <1>1, <1>4 DEF TypeOK, Start, Call, Pcs, Answers
  <2>2. UNCHANGED <<tables, locks, granted, told>> BY <1>4 DEF Start
  <2>3. TypeOK' BY <1>1, <2>1, <2>2 DEF TypeOK, tables, locks
  <2>4. ASSUME NEW d \in Calls PROVE Placed(d)'
    <3>1. CASE d = c BY <2>1, <3>1, EndedCall
    <3>2. CASE d # c
      <4>1. call'[d] = call[d] /\ Placed(d) BY <2>1, <3>2 DEF IInv
      <4> QED BY <2>2, <4>1 DEF Placed, tables, locks
    <3> QED BY <3>1, <3>2
  <2> QED BY <2>2, <2>3, <2>4 DEF IInv, Ledger, VersionCoversEvents, AnswersAgree,
                                  NoVersionZero, tables
<1>5. ASSUME NEW a \in Aggregates, OtherWrite(a) PROVE IInv'
  BY <1>5, OtherWriteStep
<1>6. CASE Authority
  BY <1>1, <1>6 DEF Authority, IInv, TypeOK, Placed, Ledger, VersionCoversEvents,
                    AnswersAgree, NoVersionZero, tables, locks
<1>7. CASE UNCHANGED vars
  BY <1>1, <1>7 DEF vars, IInv, TypeOK, Placed, Ledger, VersionCoversEvents,
                    AnswersAgree, NoVersionZero
<1> QED BY <1>2, <1>3, <1>4, <1>5, <1>6, <1>7 DEF Next

LEMMA Invariance == Spec => []IInv
BY InvInit, InvNext, PTL DEF Spec

-----------------------------------------------------------------------------
\* No call leaves its transaction with fields of the wrong kind: types hold.
THEOREM TypeCorrect == Spec => []TypeOK
BY Invariance, PTL DEF IInv

\* One event and one receipt for each accepted command, whatever the
\* interleaving of its deliveries, and no version given twice.
THEOREM OnceOnly == Spec => []EffectsOnce
<1>1. IInv => EffectsOnce
  <2> SUFFICES ASSUME IInv PROVE EffectsOnce OBVIOUS
  <2>1. ASSUME NEW e \in events, NEW f \in events, e.key = f.key
        PROVE  e = f
    BY <2>1 DEF IInv, Ledger
  <2>2. \A e \in events : e.key \in Keys BY DEF IInv, TypeOK, Event
  <2> QED BY <2>1, <2>2 DEF IInv, Ledger, EffectsOnce
<1> QED BY <1>1, Invariance, PTL

\* The event log of an aggregate never runs ahead of its version.
THEOREM VersionsCover == Spec => []VersionCoversEvents
BY Invariance, PTL DEF IInv

\* Every answer that was given is the committed one, for ever.
THEOREM AnswersStand == Spec => []AnswersAgree
BY Invariance, PTL DEF IInv

\* The version a call compared is still there when it writes.
THEOREM RowOwners == Spec => []OwnersHoldVersion
<1>1. IInv => OwnersHoldVersion BY DEF IInv, Placed, OwnersHoldVersion
<1> QED BY <1>1, Invariance, PTL

-----------------------------------------------------------------------------
\* A call that still runs was not answered.
Unanswered == \A c \in Calls : call[c].pc # "idle" => call[c].answer = None

\* How a call can go on, and how it can be answered.
LEMMA ProceedAnswers ==
  ASSUME NEW c \in Calls, Proceed(c)
  PROVE  /\ call[c].pc # "idle"
         /\ \/ \E p \in Pcs \ {"idle"} : Goto(c, p)
            \/ \E a \in Answers \ {"COMMITTED", "VERSION_CONFLICT"} : Finish(c, a)
            \/ /\ Finish(c, "VERSION_CONFLICT")
               /\ \/ call[c].pc = "mismatch" /\ ~HasReceipt(c)
                  \/ call[c].pc = "noReceipt"
            \/ HasReceipt(c) /\ Replay(c)
            \/ call[c].pc = "recorded" /\ Finish(c, "COMMITTED")
<1>1. CASE ReadReceipt(c) BY <1>1 DEF ReadReceipt, At, Pcs
<1>2. CASE LockAggregate(c) BY <1>2 DEF LockAggregate, At, Pcs
<1>3. CASE MissAggregate(c) BY <1>3 DEF MissAggregate, At, Pcs, Answers
<1>4. CASE Reread(c) BY <1>4 DEF Reread, At
<1>5. CASE InsertAggregate(c) BY <1>5 DEF InsertAggregate, At, Pcs
<1>6. CASE Fail(c) BY <1>6 DEF Fail, Answers
<1>7. CASE RecordEvents(c) BY <1>7 DEF RecordEvents, At, Pcs
<1>8. CASE Commit(c) BY <1>8 DEF Commit, At
<1>9. CASE CommitUnacknowledged(c) BY <1>9 DEF CommitUnacknowledged, At, Answers
<1>10. CASE ReconcileReceipt(c) BY <1>10 DEF ReconcileReceipt, At, Answers
<1>11. CASE ReconcileCreate(c) BY <1>11 DEF ReconcileCreate, At, Answers, Pcs
<1>12. CASE ReportCreate(c) BY <1>12 DEF ReportCreate, At, Answers
<1> QED BY <1>1, <1>2, <1>3, <1>4, <1>5, <1>6, <1>7, <1>8, <1>9, <1>10, <1>11,
           <1>12 DEF Proceed

LEMMA GotoKeepsAnswer ==
  ASSUME TypeOK, NEW c \in Calls, NEW p \in Pcs, Goto(c, p)
  PROVE  call'[c].answer = call[c].answer
BY DEF TypeOK, Goto, Call

\* How one call can change: it goes on, dies, starts, or stays.
LEMMA CallSteps ==
  ASSUME TypeOK, [Next]_vars, NEW c \in Calls
  PROVE  \/ call'[c] = call[c]
         \/ Proceed(c)
         \/ ~At(c, "idle") /\ Finish(c, None)
         \/ /\ At(c, "idle")
            /\ call'[c].pc = "idle" \/ call'[c].answer = None
<1>1. ASSUME NEW d \in Calls, Proceed(d), d # c PROVE call'[c] = call[c]
  <2>1. \/ \E p \in Pcs \ {"idle"} : Goto(d, p)
        \/ \E a \in Answers : Finish(d, a)
        \/ HasReceipt(d) /\ Replay(d)
    BY <1>1, ProceedAnswers DEF Answers
  <2>2. call[d].pc # "idle" BY <1>1, ProceedAnswers
  <2> QED BY <1>1, <2>1, <2>2, GotoMoves, FinishMoves, ReplayMoves DEF Moves
<1>2. ASSUME NEW d \in Calls, Crash(d), d # c PROVE call'[c] = call[c]
  BY <1>2, FinishMoves DEF Crash, Moves
<1>3. ASSUME NEW d \in Calls, NEW r \in Requests, Start(d, r), d # c
      PROVE call'[c] = call[c]
  BY <1>3 DEF Start, TypeOK
<1>4. ASSUME NEW r \in Requests, Start(c, r)
      PROVE At(c, "idle") /\ (call'[c].pc = "idle" \/ call'[c].answer = None)
  BY <1>4 DEF Start, TypeOK
<1>5. ASSUME NEW a \in Aggregates, OtherWrite(a) PROVE call'[c] = call[c]
  BY <1>5 DEF OtherWrite
<1> QED BY <1>1, <1>2, <1>3, <1>4, <1>5 DEF Next, Crash, Authority, vars

LEMMA UnansweredNext ==
  ASSUME TypeOK, Unanswered, [Next]_vars
  PROVE  Unanswered'
<1> SUFFICES ASSUME NEW c \in Calls, call'[c].pc # "idle"
             PROVE  call'[c].answer = None
  BY DEF Unanswered
<1>1. CASE call'[c] = call[c] BY <1>1 DEF Unanswered
<1>2. CASE Proceed(c)
  <2>1. call[c].pc # "idle" BY <1>2, ProceedAnswers
  <2>2. CASE \E p \in Pcs : Goto(c, p) BY <2>1, <2>2, GotoKeepsAnswer DEF Unanswered
  <2>3. CASE \E a \in Answers : Finish(c, a) BY <2>3, FinishMoves DEF Moves
  <2>4. CASE HasReceipt(c) /\ Replay(c) BY <2>1, <2>4, ReplayMoves DEF Moves
  <2> QED BY <1>2, <2>2, <2>3, <2>4, ProceedAnswers DEF Answers
<1>3. CASE ~At(c, "idle") /\ Finish(c, None) BY <1>3, FinishMoves DEF Moves
<1>4. CASE call'[c].pc = "idle" \/ call'[c].answer = None BY <1>4
<1> QED BY <1>1, <1>2, <1>3, <1>4, CallSteps

LEMMA NeverAnsweredEarly == Spec => []Unanswered
<1>1. Init => Unanswered BY DEF Init, Unanswered
<1>2. TypeOK /\ Unanswered /\ [Next]_vars => Unanswered' BY UnansweredNext
<1> QED BY <1>1, <1>2, TypeCorrect, PTL DEF Spec

\* A version conflict is never reported to a command that was accepted: on the
\* mismatch path the receipt is read again under the row lock, and a call that
\* lost the creation of its aggregate cannot have won it.
THEOREM NoSelfConflict == Spec => NoConflictWithSelf
<1> DEFINE Step == \A c \in Calls :
       (call[c].pc # "idle" /\ call'[c].answer = "VERSION_CONFLICT") =>
         (receipt[call[c].req.key] = None \/ receipt[call[c].req.key].req # call[c].req)
<1>1. IInv /\ Unanswered /\ [Next]_vars => Step
  <2> SUFFICES ASSUME IInv, Unanswered, [Next]_vars, NEW c \in Calls,
                      call[c].pc # "idle", call'[c].answer = "VERSION_CONFLICT"
               PROVE  \/ receipt[call[c].req.key] = None
                      \/ receipt[call[c].req.key].req # call[c].req
    OBVIOUS
  <2>1. TypeOK /\ call[c].answer = None /\ Placed(c) BY DEF IInv, Unanswered
  <2>2. CASE Proceed(c)
    <3>1. CASE \E p \in Pcs \ {"idle"} : Goto(c, p)
      BY <2>1, <3>1, GotoKeepsAnswer, NoneIsNoValue DEF Answers
    <3>2. CASE \E a \in Answers \ {"VERSION_CONFLICT"} : Finish(c, a)
      BY <2>1, <3>2, FinishMoves
    <3>3. CASE call[c].pc = "mismatch" /\ ~HasReceipt(c) BY <3>3 DEF HasReceipt
    <3>4. CASE call[c].pc = "noReceipt" BY <2>1, <3>4 DEF Placed
    <3>5. CASE HasReceipt(c) /\ Replay(c) BY <2>1, <3>5, ReplayMoves
    <3> QED BY <2>2, <3>1, <3>2, <3>3, <3>4, <3>5, ProceedAnswers DEF Answers
  <2>3. CASE call'[c] = call[c] BY <2>1, <2>3, NoneIsNoValue DEF Answers
  <2>4. CASE Finish(c, None) BY <2>1, <2>4, FinishMoves, NoneIsNoValue DEF Answers
  <2> QED BY <2>1, <2>2, <2>3, <2>4, CallSteps DEF At
<1> QED BY <1>1, Invariance, NeverAnsweredEarly, PTL DEF Spec, NoConflictWithSelf

\* Losing the capability while a call runs closes every path on which it would
\* read a stored result.
THEOREM Revocation == Spec => RevokedLearnsNothing
<1> DEFINE Step == \A c \in Calls :
       (~granted /\ call[c].pc \notin {"idle", "recorded"} /\ call'[c].pc = "idle") =>
         call'[c].answer # "COMMITTED"
<1>1. TypeOK /\ [Next]_vars => Step
  <2> SUFFICES ASSUME TypeOK, [Next]_vars, NEW c \in Calls, ~granted,
                      call[c].pc \notin {"idle", "recorded"}, call'[c].pc = "idle"
               PROVE  call'[c].answer # "COMMITTED"
    OBVIOUS
  <2>1. CASE Proceed(c)
    <3>1. CASE \E p \in Pcs \ {"idle"} : Goto(c, p) BY <3>1, GotoMoves DEF Moves
    <3>2. CASE \E a \in Answers \ {"COMMITTED"} : Finish(c, a) BY <3>2, FinishMoves
    <3>3. CASE HasReceipt(c) /\ Replay(c) BY <3>3, ReplayMoves
    <3> QED BY <2>1, <3>1, <3>2, <3>3, ProceedAnswers DEF Answers
  <2>2. CASE Finish(c, None) BY <2>2, FinishMoves, NoneIsNoValue DEF Answers
  <2> QED BY <2>1, <2>2, CallSteps DEF At
<1> QED BY <1>1, TypeCorrect, PTL DEF Spec, RevokedLearnsNothing

-----------------------------------------------------------------------------
\* What one step does to the tables and to what was told.
LEMMA ProceedTables ==
  ASSUME NEW c \in Calls, Proceed(c)
  PROVE  /\ call[c].pc # "idle"
         /\ \/ UNCHANGED <<tables, told>>
            \/ HasReceipt(c) /\ Replay(c) /\ UNCHANGED tables
            \/ /\ call[c].pc = "recorded"
               /\ Persist(call[c].req)
               /\ told' \in {told, told \cup {[req |-> call[c].req,
                                           version |-> NextVersion(call[c].req)]}}
<1>1. CASE ReadReceipt(c) BY <1>1 DEF ReadReceipt, At
<1>2. CASE LockAggregate(c) BY <1>2 DEF LockAggregate, At
<1>3. CASE MissAggregate(c) BY <1>3 DEF MissAggregate, At
<1>4. CASE Reread(c) BY <1>4 DEF Reread, At
<1>5. CASE InsertAggregate(c) BY <1>5 DEF InsertAggregate, At
<1>6. CASE Fail(c) BY <1>6 DEF Fail
<1>7. CASE RecordEvents(c) BY <1>7 DEF RecordEvents, At
<1>8. CASE Commit(c) BY <1>8 DEF Commit, At
<1>9. CASE CommitUnacknowledged(c) BY <1>9 DEF CommitUnacknowledged, At
<1>10. CASE ReconcileReceipt(c) BY <1>10 DEF ReconcileReceipt, At
<1>11. CASE ReconcileCreate(c) BY <1>11 DEF ReconcileCreate, At
<1>12. CASE ReportCreate(c) BY <1>12 DEF ReportCreate, At
<1> QED BY <1>1, <1>2, <1>3, <1>4, <1>5, <1>6, <1>7, <1>8, <1>9, <1>10, <1>11,
           <1>12 DEF Proceed

\* With all its statements, locks, races and lost answers, the command core
\* implements the commands that are accepted and answered in one step.
THEOREM Refinement == Spec => RefinesCommands
<1>1. Init => Atomic!Init BY DEF Init, Atomic!Init
<1>2. IInv /\ [Next]_vars => [Atomic!Next]_<<version, receipt, told>>
  <2> SUFFICES ASSUME IInv, [Next]_vars
               PROVE  Atomic!Next \/ UNCHANGED <<version, receipt, told>>
    OBVIOUS
  <2>1. TypeOK BY DEF IInv
  <2>2. ASSUME NEW c \in Calls, Proceed(c)
        PROVE  Atomic!Next \/ UNCHANGED <<version, receipt, told>>
    <3> DEFINE r == call[c].req
    <3>1. r \in Requests BY <2>1, <2>2, ProceedTables DEF TypeOK
    <3>2. CASE UNCHANGED <<tables, told>> BY <3>2 DEF tables
    <3>3. CASE HasReceipt(c) /\ Replay(c) /\ UNCHANGED tables
      <4>1. \/ UNCHANGED told
            \/ /\ told' = told \cup {[req |-> r, version |-> receipt[r.key].version]}
               /\ receipt[r.key].req = r
        BY <2>1, <2>2, <3>3, ProceedTables, ReplayMoves
      <4>2. CASE UNCHANGED told BY <3>3, <4>2 DEF tables
      <4>3. CASE /\ told' = told \cup {[req |-> r, version |-> receipt[r.key].version]}
                 /\ receipt[r.key].req = r
        <5>1. Atomic!Tell(r) BY <3>3, <4>3 DEF Atomic!Tell, HasReceipt, tables
        <5> QED BY <3>1, <5>1 DEF Atomic!Next
      <4> QED BY <4>1, <4>2, <4>3
    <3>4. CASE /\ call[c].pc = "recorded"
               /\ Persist(r)
               /\ told' \in {told, told \cup {[req |-> r, version |-> NextVersion(r)]}}
      <4>1. /\ receipt[r.key] = None
            /\ \/ version[r.target] = r.expected
               \/ r.create /\ version[r.target] = None
        BY <3>4 DEF IInv, Placed
      <4>2. Atomic!Accept(r) BY <3>4, <4>1 DEF Atomic!Accept, Persist, NextVersion
      <4> QED BY <3>1, <4>2 DEF Atomic!Next
    <3> QED BY <2>2, <3>2, <3>3, <3>4, ProceedTables
  <2>3. ASSUME NEW a \in Aggregates, OtherWrite(a) PROVE Atomic!Next
    <3>1. Atomic!Advance(a) BY <2>3 DEF OtherWrite, Atomic!Advance
    <3> QED BY <3>1 DEF Atomic!Next
  <2>4. ASSUME NEW c \in Calls, Crash(c) PROVE UNCHANGED <<version, receipt, told>>
    BY <2>4 DEF Crash, tables
  <2>5. ASSUME NEW c \in Calls, NEW r \in Requests, Start(c, r)
        PROVE  UNCHANGED <<version, receipt, told>>
    BY <2>5 DEF Start, tables
  <2>6. CASE Authority BY <2>6 DEF Authority, tables
  <2>7. CASE UNCHANGED vars BY <2>7 DEF vars
  <2> QED BY <2>2, <2>3, <2>4, <2>5, <2>6, <2>7 DEF Next
<1> QED BY <1>1, <1>2, Invariance, PTL DEF Spec, RefinesCommands, Atomic!Spec, Atomic!vars
=============================================================================
