----------------------------- MODULE RecordsProofs ----------------------------
(***************************************************************************)
(* Proofs about Records, for any processes, contents and bounds: for each  *)
(* component an inductive invariant, that its steps keep it, and what it   *)
(* implies.                                                                *)
(***************************************************************************)
EXTENDS Records, FiniteSetTheorems, SequenceTheorems, TLAPS

-----------------------------------------------------------------------------
(* Artifacts: files, their lock, the catalogue and what callers are told.  *)

\* The file of a digest is there to stay.
Durable(d) == file[d] # None /\ file[d].synced

\* What a call knows of its file.
Knows(c) ==
  /\ c \in Artifacts!Call
  /\ c.pc = "sync" => file[c.digest] # None
  /\ c.pc \in {"unlock", "verify", "select", "insert", "taken"} /\ ~c.reused => Durable(c.digest)

Answered(a) ==
  /\ a.key \in Scopes \X Digests /\ a.metadata \in Metadata /\ a.metadata = row[a.key]
  /\ ~a.reused => Durable(a.key[2])

ArtifactsInv ==
  /\ catalog \in Catalogs /\ lock \in Clients \cup {None}
  /\ file \in [Digests -> Artifacts!File \cup {None}]
  /\ row \in [Scopes \X Digests -> Metadata \cup {None}]
  /\ \A d \in Digests : file[d] # None => file[d].flushed /\ ~file[d].torn
  /\ DOMAIN client = Clients /\ client = [c \in Clients |-> client[c]]
  /\ \A c \in Clients : client[c] = Artifacts!Idle \/ Knows(client[c])
  /\ \A a \in answers : Answered(a)

LEMMA ArtifactsInit == ASSUME ArtifactsAssumption, Artifacts!Init PROVE ArtifactsInv
BY DEF ArtifactsAssumption, Artifacts!Init, ArtifactsInv

\* A step of one client: no file goes or loses what it has, no row changes, and
\* its own call, what it stores and what it is told are as they must be.
LEMMA ArtifactsOne ==
  ASSUME ArtifactsAssumption, ArtifactsInv, NEW c \in Clients, NEW after,
         client' = [client EXCEPT ![c] = after], after = Artifacts!Idle \/ Knows(after)',
         UNCHANGED catalog, lock' \in {lock, c, None},
         file' \in [Digests -> Artifacts!File \cup {None}],
         \A d \in Digests : file'[d] # None => file'[d].flushed /\ ~file'[d].torn,
         \A d \in Digests : file[d] # None => file'[d] # None,
         \A d \in Digests : Durable(d) => Durable(d)',
         row' \in [Scopes \X Digests -> Metadata \cup {None}],
         \A k \in Scopes \X Digests : row[k] # None => row'[k] = row[k],
         \A a \in answers' \ answers : Answered(a)'
  PROVE  ArtifactsInv'
<1>1. ASSUME NEW k, Knows(k)  PROVE Knows(k)'
  <2>1. k \in Artifacts!Call /\ k.digest \in Digests
    BY <1>1 DEF Knows, Artifacts!Call
  <2>2. k.pc = "sync" => file'[k.digest] # None
    BY <1>1, <2>1 DEF Knows
  <2>3. k.pc \in {"unlock", "verify", "select", "insert", "taken"} /\ ~k.reused
        => Durable(k.digest)'
    BY <1>1, <2>1 DEF Knows
  <2> QED  BY <2>1, <2>2, <2>3 DEF Knows
<1>2. \A a \in answers : Answered(a)'
  <2> TAKE a \in answers
  <2>1. a.key \in Scopes \X Digests /\ a.metadata \in Metadata /\ a.metadata = row[a.key]
        /\ (~a.reused => Durable(a.key[2]))
    BY DEF ArtifactsInv, Answered
  <2>2. row'[a.key] = row[a.key] /\ a.key[2] \in Digests
    BY <2>1 DEF ArtifactsAssumption
  <2> QED  BY <2>1, <2>2 DEF Answered
<1>3. ASSUME NEW b \in Clients  PROVE client'[b] = Artifacts!Idle \/ Knows(client[b])'
  <2>1. CASE b = c
    <3>1. client'[b] = after
      BY <2>1 DEF ArtifactsInv
    <3>2. CASE after = Artifacts!Idle
      BY <3>1, <3>2
    <3>3. CASE Knows(after)'
      BY <3>1, <3>3 DEF Knows, Durable
    <3> QED  BY <3>2, <3>3
  <2>2. CASE b # c
    <3>1. client'[b] = client[b]
      BY <2>2 DEF ArtifactsInv
    <3>2. PICK k : k = client[b]
      OBVIOUS
    <3>3. k = Artifacts!Idle \/ Knows(k)
      BY <3>2 DEF ArtifactsInv
    <3>4. CASE k = Artifacts!Idle
      BY <3>1, <3>2, <3>4
    <3>5. CASE Knows(k)
      <4>1. Knows(k)'
        BY <1>1, <3>5
      <4>2. client'[b] = k
        BY <3>1, <3>2
      <4> QED  BY <4>1, <4>2 DEF Knows, Durable
    <3> QED  BY <3>3, <3>4, <3>5
  <2> QED  BY <2>1, <2>2
<1>4. DOMAIN client' = Clients /\ client' = [b \in Clients |-> client'[b]]
  BY DEF ArtifactsInv
<1>5. lock' \in Clients \cup {None} /\ catalog' \in Catalogs
  BY DEF ArtifactsInv
<1>6. \A a \in answers' : Answered(a)'
  BY <1>2
<1>7. \A b \in Clients : client'[b] = Artifacts!Idle \/ Knows(client[b])'
  BY <1>3
<1> QED  BY <1>4, <1>5, <1>6, <1>7 DEF ArtifactsInv, Artifacts!Idle

\* A client's own record: another step, or nothing any more.
LEMMA ArtifactsGoto ==
  ASSUME ArtifactsInv, NEW c \in Clients, NEW pc,
         pc \in {"put", "look", "write", "sync", "unlock", "verify", "select", "insert", "taken"},
         client[c] # Artifacts!Idle, Artifacts!Goto(c, pc)
  PROVE  \E after : /\ client' = [client EXCEPT ![c] = after]
                    /\ after \in Artifacts!Call /\ after.pc = pc /\ after.digest = client[c].digest
                    /\ after.reused = client[c].reused
<1>1. client[c] \in Artifacts!Call
  BY DEF ArtifactsInv, Knows
<1>2. PICK after : after = [client[c] EXCEPT !.pc = pc]
  OBVIOUS
<1>3. /\ after \in Artifacts!Call /\ after.pc = pc /\ after.digest = client[c].digest
      /\ after.reused = client[c].reused
  BY <1>1, <1>2 DEF Artifacts!Call
<1>4. client' = [client EXCEPT ![c] = after]
  BY <1>2 DEF Artifacts!Goto
<1> QED  BY <1>3, <1>4

\* Steps that leave the files and the rows alone.
LEMMA ArtifactsQuiet ==
  ASSUME ArtifactsAssumption, ArtifactsInv, NEW c \in Clients, NEW after,
         client' = [client EXCEPT ![c] = after], after = Artifacts!Idle \/ Knows(after),
         UNCHANGED <<catalog, file, row>>, lock' \in {lock, c, None},
         \A a \in answers' \ answers : Answered(a)
  PROVE  ArtifactsInv'
<1>1. after = Artifacts!Idle \/ Knows(after)'
  BY DEF Knows, Durable
<1>2. \A a \in answers' \ answers : Answered(a)'
  BY DEF Answered, Durable
<1>3. \A d \in Digests : Durable(d) => Durable(d)'
  BY DEF Durable
<1>4. /\ file' \in [Digests -> Artifacts!File \cup {None}]
      /\ row' \in [Scopes \X Digests -> Metadata \cup {None}]
      /\ \A d \in Digests : file'[d] # None => file'[d].flushed /\ ~file'[d].torn
  BY DEF ArtifactsInv
<1> QED  BY <1>1, <1>2, <1>3, <1>4, ArtifactsOne

\* What a call that is under way knows.
LEMMA ArtifactsCall ==
  ASSUME ArtifactsInv, NEW c \in Clients, client[c] # Artifacts!Idle
  PROVE  Knows(client[c]) /\ client[c].digest \in Digests /\ client[c].scope \in Scopes
         /\ client[c].metadata \in Metadata /\ Artifacts!Key(c) \in Scopes \X Digests
BY DEF ArtifactsInv, Knows, Artifacts!Call, Artifacts!Key

LEMMA ArtifactsFinish ==
  ASSUME ArtifactsAssumption, ArtifactsInv, NEW c \in Clients,
         client' = [client EXCEPT ![c] = Artifacts!Idle],
         UNCHANGED <<catalog, file, row>>, lock' \in {lock, c, None},
         \A a \in answers' \ answers : Answered(a)
  PROVE  ArtifactsInv'
<1>1. PICK after : after = Artifacts!Idle
  OBVIOUS
<1> QED  BY <1>1, ArtifactsQuiet

\* A quiet step to another place.
LEMMA ArtifactsMove ==
  ASSUME ArtifactsAssumption, ArtifactsInv, NEW c \in Clients, NEW pc,
         pc \in {"put", "look", "write", "sync", "unlock", "verify", "select", "insert", "taken"},
         client[c] # Artifacts!Idle, Artifacts!Goto(c, pc),
         pc = "sync" => file[client[c].digest] # None,
         pc \in {"unlock", "verify", "select", "insert", "taken"} /\ ~client[c].reused
         => Durable(client[c].digest),
         UNCHANGED <<catalog, file, row, answers>>, lock' \in {lock, c, None}
  PROVE  ArtifactsInv'
<1>1. PICK after : /\ client' = [client EXCEPT ![c] = after]
                   /\ after \in Artifacts!Call /\ after.pc = pc /\ after.digest = client[c].digest
                   /\ after.reused = client[c].reused
  BY ArtifactsGoto
<1>2. Knows(after)
  BY <1>1 DEF Knows
<1> QED  BY <1>1, <1>2, ArtifactsQuiet

LEMMA ArtifactsReuse ==
  ASSUME ArtifactsAssumption, ArtifactsInv, NEW c \in Clients,
         client[c] # Artifacts!Idle, Artifacts!Reuse(c),
         UNCHANGED <<catalog, file, row, answers>>
  PROVE  ArtifactsInv'
<1>1. CASE Artifacts!Verified(client[c].digest)
  <2>1. PICK after : after = [client[c] EXCEPT !.pc = "verify", !.reused = TRUE]
    OBVIOUS
  <2>2. client[c] \in Artifacts!Call
    BY ArtifactsCall DEF Knows
  <2>3. after \in Artifacts!Call /\ after.pc = "verify" /\ after.reused
    BY <2>1, <2>2 DEF Artifacts!Call
  <2>4. Knows(after)
    BY <2>3 DEF Knows
  <2>5. client' = [client EXCEPT ![c] = after]
    BY <1>1, <2>1 DEF Artifacts!Reuse
  <2> QED  BY <2>4, <2>5, ArtifactsQuiet DEF Artifacts!Reuse
<1>2. CASE ~Artifacts!Verified(client[c].digest)
  BY <1>2, ArtifactsFinish DEF Artifacts!Reuse
<1> QED  BY <1>1, <1>2

LEMMA ArtifactsBegin ==
  ASSUME ArtifactsAssumption, ArtifactsInv, NEW c \in Clients, Artifacts!Begin(c)
  PROVE  ArtifactsInv'
<1>1. PICK d \in Digests, s \in Scopes, m \in Metadata, pc \in {"put", "verify"} :
        client' = [client EXCEPT ![c] =
          [digest |-> d, scope |-> s, metadata |-> m, pc |-> pc, reused |-> pc = "verify"]]
  BY DEF Artifacts!Begin
<1>2. PICK after : after = [digest |-> d, scope |-> s, metadata |-> m, pc |-> pc,
                            reused |-> pc = "verify"]
  OBVIOUS
<1>3. Knows(after)
  BY <1>2 DEF Knows, Artifacts!Call
<1>4. client' = [client EXCEPT ![c] = after]
  BY <1>1, <1>2
<1> QED  BY <1>3, <1>4, ArtifactsQuiet DEF Artifacts!Begin

LEMMA ArtifactsPut ==
  ASSUME ArtifactsAssumption, ArtifactsInv, NEW c \in Clients,
         Artifacts!TakeLock(c) \/ Artifacts!LookForFile(c)
  PROVE  ArtifactsInv'
<1>1. CASE Artifacts!TakeLock(c)
  <2>1. client[c] # Artifacts!Idle /\ Artifacts!Goto(c, "look") /\ lock' = c
        /\ UNCHANGED <<catalog, file, row, answers>>
    BY <1>1 DEF Artifacts!TakeLock, Artifacts!At
  <2> QED  BY <2>1, ArtifactsMove
<1>2. CASE Artifacts!LookForFile(c)
  <2>1. client[c] # Artifacts!Idle /\ UNCHANGED <<catalog, file, row, answers>>
    BY <1>2 DEF Artifacts!LookForFile, Artifacts!At
  <2>2. (Artifacts!Goto(c, "write") /\ UNCHANGED lock) \/ Artifacts!Reuse(c)
    BY <1>2, Zenon DEF Artifacts!LookForFile
  <2>3. CASE Artifacts!Goto(c, "write") /\ UNCHANGED lock
    BY <2>1, <2>3, ArtifactsMove
  <2>4. CASE Artifacts!Reuse(c)
    BY <2>1, <2>4, ArtifactsReuse
  <2> QED  BY <2>2, <2>3, <2>4
<1> QED  BY <1>1, <1>2

LEMMA ArtifactsRename ==
  ASSUME ArtifactsAssumption, ArtifactsInv, NEW c \in Clients, Artifacts!Rename(c)
  PROVE  ArtifactsInv'
<1>1. client[c] # Artifacts!Idle /\ UNCHANGED <<catalog, row, answers>>
  BY DEF Artifacts!Rename, Artifacts!At
<1>2. client[c].digest \in Digests /\ Knows(client[c])
  BY <1>1, ArtifactsCall
<1>3. CASE file[client[c].digest] = None
  <2>1. PICK d \in Digests : d = client[c].digest
    BY <1>2
  <2>2. /\ file' = [file EXCEPT ![d] = Artifacts!Written(d)]
        /\ Artifacts!Goto(c, "sync") /\ UNCHANGED lock
    BY <1>3, <2>1, Zenon DEF Artifacts!Rename
  <2>3. PICK after : /\ client' = [client EXCEPT ![c] = after]
                     /\ after \in Artifacts!Call /\ after.pc = "sync" /\ after.digest = d
                     /\ after.reused = client[c].reused
    BY <1>1, <2>1, <2>2, ArtifactsGoto
  <2>a. Artifacts!Written(d) \in Artifacts!File /\ Artifacts!Written(d).flushed
        /\ ~Artifacts!Written(d).torn
    BY DEF Artifacts!Written, Artifacts!File
  <2>4. Artifacts!Written(d) \in Artifacts!File /\ Artifacts!Written(d) # None
        /\ Artifacts!Written(d).flushed /\ ~Artifacts!Written(d).torn
    BY <2>a DEF ArtifactsAssumption
  <2>5. file' \in [Digests -> Artifacts!File \cup {None}]
    BY <2>2, <2>4 DEF ArtifactsInv
  <2>6. file'[d] = Artifacts!Written(d) /\ \A e \in Digests \ {d} : file'[e] = file[e]
    BY <2>2 DEF ArtifactsInv
  <2>7. \A e \in Digests : file'[e] # None => file'[e].flushed /\ ~file'[e].torn
    BY <2>4, <2>6 DEF ArtifactsInv
  <2>8. \A e \in Digests : file[e] # None => file'[e] # None
    BY <2>1, <2>6, <1>3
  <2>9. \A e \in Digests : Durable(e) => Durable(e)'
    BY <2>1, <2>6, <1>3 DEF Durable
  <2>10. Knows(after)'
    BY <2>3, <2>4, <2>6 DEF Knows
  <2>11. row' \in [Scopes \X Digests -> Metadata \cup {None}]
    BY <1>1 DEF ArtifactsInv
  <2> QED  BY <1>1, <2>2, <2>3, <2>5, <2>7, <2>8, <2>9, <2>10, <2>11, ArtifactsOne
<1>4. CASE file[client[c].digest] # None
  <2>1. Artifacts!Reuse(c) /\ UNCHANGED file
    BY <1>4, Zenon DEF Artifacts!Rename
  <2> QED  BY <1>1, <2>1, ArtifactsReuse
<1> QED  BY <1>3, <1>4

LEMMA ArtifactsSync ==
  ASSUME ArtifactsAssumption, ArtifactsInv, NEW c \in Clients, Artifacts!SyncDirectories(c)
  PROVE  ArtifactsInv'
<1>1. client[c] # Artifacts!Idle /\ client[c].pc = "sync" /\ UNCHANGED <<catalog, lock, row, answers>>
      /\ Artifacts!Goto(c, "unlock")
  BY DEF Artifacts!SyncDirectories, Artifacts!At
<1>2. client[c].digest \in Digests /\ Knows(client[c])
  BY <1>1, ArtifactsCall
<1>3. PICK d \in Digests : d = client[c].digest
  BY <1>2
<1>4. file[d] # None /\ file[d] \in Artifacts!File
  BY <1>1, <1>2, <1>3 DEF Knows, ArtifactsInv
<1>5. PICK f : f = [file[d] EXCEPT !.synced = TRUE]
  OBVIOUS
<1>6. f \in Artifacts!File /\ f.synced /\ f.flushed = file[d].flushed /\ f.torn = file[d].torn
  BY <1>4, <1>5 DEF Artifacts!File
<1>7. file' = [file EXCEPT ![d] = f]
  BY <1>3, <1>5 DEF Artifacts!SyncDirectories
<1>8. f # None
  BY <1>6 DEF ArtifactsAssumption
<1>9. PICK after : /\ client' = [client EXCEPT ![c] = after]
                   /\ after \in Artifacts!Call /\ after.pc = "unlock" /\ after.digest = d
                   /\ after.reused = client[c].reused
  BY <1>1, <1>3, ArtifactsGoto
<1>10. file' \in [Digests -> Artifacts!File \cup {None}]
  BY <1>6, <1>7 DEF ArtifactsInv
<1>11. file'[d] = f /\ \A e \in Digests \ {d} : file'[e] = file[e]
  BY <1>7 DEF ArtifactsInv
<1>12. \A e \in Digests : file'[e] # None => file'[e].flushed /\ ~file'[e].torn
  <2>1. file'[d].flushed /\ ~file'[d].torn
    BY <1>4, <1>6, <1>11 DEF ArtifactsInv
  <2> QED  BY <2>1, <1>11 DEF ArtifactsInv
<1>13. \A e \in Digests : file[e] # None => file'[e] # None
  BY <1>8, <1>11
<1>14. \A e \in Digests : Durable(e) => Durable(e)'
  BY <1>6, <1>8, <1>11 DEF Durable
<1>15. Knows(after)'
  BY <1>6, <1>8, <1>9, <1>11 DEF Knows, Durable
<1>16. row' \in [Scopes \X Digests -> Metadata \cup {None}]
  BY <1>1 DEF ArtifactsInv
<1> QED  BY <1>1, <1>9, <1>10, <1>12, <1>13, <1>14, <1>15, <1>16, ArtifactsOne

LEMMA ArtifactsUnlock ==
  ASSUME ArtifactsAssumption, ArtifactsInv, NEW c \in Clients,
         Artifacts!Unlock(c) \/ Artifacts!VerifyFile(c)
  PROVE  ArtifactsInv'
<1>1. client[c] # Artifacts!Idle /\ client[c].pc \in {"unlock", "verify"}
      /\ UNCHANGED <<catalog, file, row, answers>> /\ lock' \in {lock, None}
  BY DEF Artifacts!Unlock, Artifacts!VerifyFile, Artifacts!At
<1>2. ~client[c].reused => Durable(client[c].digest)
  BY <1>1, ArtifactsCall DEF Knows
<1>3. \/ Artifacts!Goto(c, "verify") \/ Artifacts!Goto(c, "select")
      \/ client' = [client EXCEPT ![c] = Artifacts!Idle]
  BY Zenon DEF Artifacts!Unlock, Artifacts!VerifyFile
<1>4. CASE Artifacts!Goto(c, "verify")
  BY <1>1, <1>2, <1>4, ArtifactsMove
<1>5. CASE Artifacts!Goto(c, "select")
  BY <1>1, <1>2, <1>5, ArtifactsMove
<1>6. CASE client' = [client EXCEPT ![c] = Artifacts!Idle]
  BY <1>1, <1>6, ArtifactsFinish
<1> QED  BY <1>3, <1>4, <1>5, <1>6

\* A caller is told of the row that is there.
LEMMA ArtifactsAnswer ==
  ASSUME ArtifactsInv, NEW c \in Clients, client[c] # Artifacts!Idle, NEW m \in Metadata,
         client[c].pc \in {"select", "insert", "taken"},
         m = row[Artifacts!Key(c)], Artifacts!Answer(c, m) \/ UNCHANGED answers
  PROVE  \A a \in answers' \ answers : Answered(a)
<1>1. CASE Artifacts!Answer(c, m)
  <2>1. Knows(client[c]) /\ Artifacts!Key(c) \in Scopes \X Digests
        /\ Artifacts!Key(c)[2] = client[c].digest
    BY ArtifactsCall DEF Artifacts!Key
  <2>2. ~client[c].reused => Durable(client[c].digest)
    BY <2>1 DEF Knows
  <2> SUFFICES ASSUME NEW a \in answers' \ answers  PROVE Answered(a)
    OBVIOUS
  <2>3. a = [key |-> Artifacts!Key(c), metadata |-> m, reused |-> client[c].reused]
    BY <1>1 DEF Artifacts!Answer
  <2>4. a.key = Artifacts!Key(c) /\ a.metadata = m /\ a.reused = client[c].reused
    BY <2>3
  <2> QED  BY <2>1, <2>2, <2>4 DEF Answered
<1>2. CASE UNCHANGED answers
  BY <1>2
<1> QED  BY <1>1, <1>2

LEMMA ArtifactsSelect ==
  ASSUME ArtifactsAssumption, ArtifactsInv, NEW c \in Clients,
         Artifacts!SelectRow(c) \/ Artifacts!ReadTakenRow(c)
  PROVE  ArtifactsInv'
<1>1. client[c] # Artifacts!Idle /\ client[c].pc \in {"select", "taken"}
      /\ UNCHANGED <<catalog, file, lock, row>>
  BY DEF Artifacts!SelectRow, Artifacts!ReadTakenRow, Artifacts!At
<1>2. ~client[c].reused => Durable(client[c].digest)
  BY <1>1, ArtifactsCall DEF Knows
<1>3. \/ Artifacts!Goto(c, "insert") /\ UNCHANGED answers
      \/ /\ Artifacts!Reconcile(c, row[Artifacts!Key(c)])
         /\ client' = [client EXCEPT ![c] = Artifacts!Idle]
  BY Zenon DEF Artifacts!SelectRow, Artifacts!ReadTakenRow, Artifacts!AfterRace, Artifacts!Finish
<1>4. CASE Artifacts!Goto(c, "insert") /\ UNCHANGED answers
  BY <1>1, <1>2, <1>4, ArtifactsMove
<1>5. CASE /\ Artifacts!Reconcile(c, row[Artifacts!Key(c)])
           /\ client' = [client EXCEPT ![c] = Artifacts!Idle]
  <2>1. PICK m : m = row[Artifacts!Key(c)]
    OBVIOUS
  <2>2. (m = client[c].metadata /\ Artifacts!Answer(c, m)) \/ UNCHANGED answers
    BY <1>5, <2>1, Zenon DEF Artifacts!Reconcile
  <2>3. \A a \in answers' \ answers : Answered(a)
    <3>1. CASE m = client[c].metadata /\ Artifacts!Answer(c, m)
      <4>1. m \in Metadata
        BY <1>1, <3>1, ArtifactsCall
      <4> QED  BY <1>1, <2>1, <3>1, <4>1, ArtifactsAnswer
    <3>2. CASE UNCHANGED answers
      BY <3>2
    <3> QED  BY <2>2, <3>1, <3>2
  <2> QED  BY <1>1, <1>5, <2>3, ArtifactsFinish
<1> QED  BY <1>3, <1>4, <1>5

\* The first row of a key.
LEMMA ArtifactsInsert ==
  ASSUME ArtifactsAssumption, ArtifactsInv, NEW c \in Clients, client[c] # Artifacts!Idle,
         client[c].pc \in {"select", "insert"}, UNCHANGED <<catalog, file, lock>>,
         row[Artifacts!Key(c)] = None,
         row' = [row EXCEPT ![Artifacts!Key(c)] = client[c].metadata],
         Artifacts!Answer(c, client[c].metadata),
         client' = [client EXCEPT ![c] = Artifacts!Idle]
  PROVE  ArtifactsInv'
<1>1. PICK k \in Scopes \X Digests : k = Artifacts!Key(c)
  BY ArtifactsCall
<1>2. PICK m \in Metadata : m = client[c].metadata
  BY ArtifactsCall
<1>3. row' = [row EXCEPT ![k] = m]
  BY <1>1, <1>2
<1>4. row' \in [Scopes \X Digests -> Metadata \cup {None}] /\ row'[k] = m
      /\ \A j \in Scopes \X Digests : j # k => row'[j] = row[j]
  <2>1. PICK K : K = Scopes \X Digests
    OBVIOUS
  <2>2. row \in [K -> Metadata \cup {None}] /\ k \in K
    BY <1>1, <2>1 DEF ArtifactsInv
  <2>3. row' \in [K -> Metadata \cup {None}] /\ row'[k] = m /\ \A j \in K : j # k => row'[j] = row[j]
    BY <1>2, <1>3, <2>2
  <2> QED  BY <2>1, <2>3
<1>5. PICK a : a = [key |-> k, metadata |-> m, reused |-> client[c].reused]
  OBVIOUS
<1>6. answers' = answers \cup {a}
  BY <1>1, <1>2, <1>5 DEF Artifacts!Answer
<1>7. ~client[c].reused => Durable(k[2])
  BY <1>1, ArtifactsCall DEF Knows, Artifacts!Key
<1>8. Answered(a)'
  BY <1>4, <1>5, <1>7 DEF Answered, Durable
<1>9. PICK after : after = Artifacts!Idle
  OBVIOUS
<1>10. client' = [client EXCEPT ![c] = after] /\ (after = Artifacts!Idle \/ Knows(after)')
  BY <1>9
<1>11. \A j \in Scopes \X Digests : row[j] # None => row'[j] = row[j]
  BY <1>1, <1>4
<1>12. /\ file' \in [Digests -> Artifacts!File \cup {None}]
       /\ \A d \in Digests : file'[d] # None => file'[d].flushed /\ ~file'[d].torn
  BY DEF ArtifactsInv
<1>13. \A d \in Digests : Durable(d) => Durable(d)'
  BY DEF Durable
<1>14. \A b \in answers' \ answers : Answered(b)'
  BY <1>6, <1>8
<1>15. lock' \in {lock, c, None} /\ UNCHANGED catalog /\ \A d \in Digests : file[d] # None => file'[d] # None
  OBVIOUS
<1> QED  BY <1>4, <1>10, <1>11, <1>12, <1>13, <1>14, <1>15, ArtifactsOne

LEMMA ArtifactsRegister ==
  ASSUME ArtifactsAssumption, ArtifactsInv, NEW c \in Clients,
         Artifacts!InsertRow(c) \/ Artifacts!RegisterAtOnce(c)
  PROVE  ArtifactsInv'
<1>1. client[c] # Artifacts!Idle /\ client[c].pc \in {"select", "insert"}
      /\ UNCHANGED <<catalog, file, lock>>
  BY DEF Artifacts!InsertRow, Artifacts!RegisterAtOnce, Artifacts!At
<1>2. ~client[c].reused => Durable(client[c].digest)
  BY <1>1, ArtifactsCall DEF Knows
<1>3. Artifacts!Key(c) \in Scopes \X Digests /\ client[c].metadata \in Metadata
      /\ client[c].metadata # None
  BY <1>1, ArtifactsCall DEF ArtifactsAssumption
<1>4. CASE Artifacts!InsertRow(c)
  <2>1. CASE row[Artifacts!Key(c)] = None
    <3>1. /\ row' = [row EXCEPT ![Artifacts!Key(c)] = client[c].metadata]
          /\ Artifacts!Answer(c, client[c].metadata)
          /\ client' = [client EXCEPT ![c] = Artifacts!Idle]
      BY <1>4, <2>1, Zenon DEF Artifacts!InsertRow, Artifacts!Finish
    <3> QED  BY <1>1, <2>1, <3>1, ArtifactsInsert
  <2>2. CASE row[Artifacts!Key(c)] # None
    <3>1. Artifacts!Goto(c, "taken") /\ UNCHANGED <<row, answers>>
      BY <1>4, <2>2, Zenon DEF Artifacts!InsertRow
    <3> QED  BY <1>1, <1>2, <3>1, ArtifactsMove
  <2> QED  BY <2>1, <2>2
<1>5. CASE Artifacts!RegisterAtOnce(c)
  <2>1. PICK m : /\ m = IF row[Artifacts!Key(c)] = None THEN client[c].metadata
                         ELSE row[Artifacts!Key(c)]
                 /\ row' = [row EXCEPT ![Artifacts!Key(c)] = m] /\ Artifacts!Reconcile(c, m)
                 /\ client' = [client EXCEPT ![c] = Artifacts!Idle]
    BY <1>5 DEF Artifacts!RegisterAtOnce, Artifacts!Finish
  <2>2. CASE row[Artifacts!Key(c)] = None
    <3>1. m = client[c].metadata
      BY <2>1, <2>2
    <3>2. Artifacts!Answer(c, client[c].metadata)
      BY <2>1, <3>1 DEF Artifacts!Reconcile
    <3> QED  BY <1>1, <2>1, <2>2, <3>1, <3>2, ArtifactsInsert
  <2>3. CASE row[Artifacts!Key(c)] # None
    <3>1. m = row[Artifacts!Key(c)] /\ m \in Metadata
      BY <1>3, <2>1, <2>3 DEF ArtifactsInv
    <3>2. row' = row
      BY <1>3, <2>1, <3>1 DEF ArtifactsInv
    <3>3. Artifacts!Answer(c, m) \/ UNCHANGED answers
      BY <2>1, Zenon DEF Artifacts!Reconcile
    <3>4. \A a \in answers' \ answers : Answered(a)
      BY <1>1, <3>1, <3>3, ArtifactsAnswer
    <3> QED  BY <1>1, <2>1, <3>2, <3>4, ArtifactsFinish
  <2> QED  BY <2>2, <2>3
<1> QED  BY <1>4, <1>5

LEMMA ArtifactsFail ==
  ASSUME ArtifactsAssumption, ArtifactsInv, NEW c \in Clients, Artifacts!Fail(c)
  PROVE  ArtifactsInv'
BY ArtifactsFinish DEF Artifacts!Fail, Artifacts!Finish, Artifacts!Release

\* Entries that were synced stay, and what stays was flushed.
LEMMA ArtifactsPowerLoss ==
  ASSUME ArtifactsAssumption, ArtifactsInv, Artifacts!PowerLoss
  PROVE  ArtifactsInv'
<1>1. PICK kept \in SUBSET {d \in Digests : file[d] # None} :
        /\ \A d \in Digests : file[d] # None /\ file[d].synced => d \in kept
        /\ file' = [d \in Digests |->
             IF d \in kept THEN [flushed |-> TRUE, synced |-> TRUE,
                                 torn |-> file[d].torn \/ ~file[d].flushed]
             ELSE None]
  BY DEF Artifacts!PowerLoss
<1>2. lock' = None /\ client' = [c \in Clients |-> Artifacts!Idle] /\ UNCHANGED <<catalog, row, answers>>
  BY DEF Artifacts!PowerLoss
<1>3. PICK whole : whole = [flushed |-> TRUE, synced |-> TRUE, torn |-> FALSE]
  OBVIOUS
<1>4. whole \in Artifacts!File /\ whole.flushed /\ whole.synced /\ ~whole.torn
  BY <1>3 DEF Artifacts!File
<1>5. \A d \in Digests : file'[d] = IF d \in kept THEN whole ELSE None
  <2> TAKE d \in Digests
  <2>1. CASE d \in kept
    <3>1. file[d].flushed /\ ~file[d].torn
      BY <2>1 DEF ArtifactsInv
    <3>2. (file[d].torn \/ ~file[d].flushed) = FALSE
      BY <3>1
    <3> QED  BY <1>1, <1>3, <2>1, <3>2
  <2>2. CASE d \notin kept
    BY <1>1, <2>2
  <2> QED  BY <2>1, <2>2
<1>6. file' = [d \in Digests |-> file'[d]]
  BY <1>1
<1>7. file' \in [Digests -> Artifacts!File \cup {None}]
  BY <1>4, <1>5, <1>6
<1>8. \A d \in Digests : file'[d] # None => file'[d].flushed /\ ~file'[d].torn
  BY <1>4, <1>5
<1>9. \A d \in Digests : Durable(d) => Durable(d)'
  BY <1>1, <1>4, <1>5 DEF Durable, ArtifactsAssumption
<1>10. ASSUME NEW a \in answers  PROVE Answered(a)'
  <2>1. Answered(a) /\ a.key[2] \in Digests
    BY DEF ArtifactsInv, Answered
  <2> QED  BY <1>2, <1>9, <2>1 DEF Answered
<1>11. \A a \in answers' : Answered(a)'
  BY <1>2, <1>10
<1>12. DOMAIN client' = Clients /\ client' = [c \in Clients |-> client'[c]]
       /\ \A c \in Clients : client'[c] = Artifacts!Idle
  BY <1>2
<1>13. /\ catalog' \in Catalogs /\ lock' \in Clients \cup {None}
       /\ row' \in [Scopes \X Digests -> Metadata \cup {None}]
  BY <1>2 DEF ArtifactsInv
<1> QED  BY <1>7, <1>8, <1>11, <1>12, <1>13 DEF ArtifactsInv, Artifacts!Idle

LEMMA ArtifactsKeep ==
  ASSUME ArtifactsAssumption, ArtifactsInv, [Artifacts!Next]_artifactVars
  PROVE  ArtifactsInv'
<1>1. CASE UNCHANGED artifactVars
  BY <1>1 DEF artifactVars, ArtifactsInv, Knows, Answered, Durable, Artifacts!Idle
<1>2. ASSUME NEW c \in Clients, Artifacts!Begin(c)  PROVE ArtifactsInv'
  BY <1>2, ArtifactsBegin
<1>3. ASSUME NEW c \in Clients, Artifacts!TakeLock(c) \/ Artifacts!LookForFile(c)
      PROVE  ArtifactsInv'
  BY <1>3, ArtifactsPut
<1>4. ASSUME NEW c \in Clients, Artifacts!Rename(c)  PROVE ArtifactsInv'
  BY <1>4, ArtifactsRename
<1>5. ASSUME NEW c \in Clients, Artifacts!SyncDirectories(c)  PROVE ArtifactsInv'
  BY <1>5, ArtifactsSync
<1>6. ASSUME NEW c \in Clients, Artifacts!Unlock(c) \/ Artifacts!VerifyFile(c)
      PROVE  ArtifactsInv'
  BY <1>6, ArtifactsUnlock
<1>7. ASSUME NEW c \in Clients, Artifacts!SelectRow(c) \/ Artifacts!ReadTakenRow(c)
      PROVE  ArtifactsInv'
  BY <1>7, ArtifactsSelect
<1>8. ASSUME NEW c \in Clients, Artifacts!InsertRow(c) \/ Artifacts!RegisterAtOnce(c)
      PROVE  ArtifactsInv'
  BY <1>8, ArtifactsRegister
<1>9. ASSUME NEW c \in Clients, Artifacts!Fail(c)  PROVE ArtifactsInv'
  BY <1>9, ArtifactsFail
<1>10. CASE Artifacts!PowerLoss
  BY <1>10, ArtifactsPowerLoss
<1> QED  BY <1>1, <1>2, <1>3, <1>4, <1>5, <1>6, <1>7, <1>8, <1>9, <1>10, Zenon
         DEF Artifacts!Next

LEMMA ArtifactsImply ==
  ASSUME ArtifactsAssumption, ArtifactsInv
  PROVE  ArtifactsStand
<1>1. Artifacts!TypeOK
  BY DEF ArtifactsInv, Artifacts!TypeOK, Knows
<1>2. Artifacts!RegistrationsAgree
  BY DEF ArtifactsInv, Artifacts!RegistrationsAgree, Answered
<1>3. Artifacts!WritesSurvive
  <2>1. \A d \in Digests : file[d] # None => Artifacts!Verified(d)
    BY DEF ArtifactsInv, Artifacts!Verified
  <2>2. ASSUME NEW a \in answers, ~a.reused  PROVE a.key \notin Artifacts!Unreadable
    <3>1. Durable(a.key[2]) /\ a.key[2] \in Digests
      BY <2>2 DEF ArtifactsInv, Answered
    <3> QED  BY <2>1, <3>1 DEF Artifacts!Unreadable, Durable
  <2> QED  BY <2>1, <2>2 DEF Artifacts!WritesSurvive
<1> QED  BY <1>1, <1>2, <1>3 DEF ArtifactsStand

-----------------------------------------------------------------------------
(* Release slots: the states of the file, those that power may bring back, *)
(* and those that were answered.                                           *)

\* A state of the file; its previous slot has the release of the current one.
Lawful(s) ==
  /\ s \in Selections!State /\ Selections!Valid(s)
  /\ s.previous # None
     => Selections!ReleaseOf(s, s.previous) = Selections!ReleaseOf(s, s.current)

\* s may come after a, or be a.
Follows(a, s) ==
  /\ a.generation <= s.generation
  /\ a.generation = s.generation => a = s
  /\ DOMAIN a.slots \subseteq DOMAIN s.slots
  /\ Selections!ReleaseOf(a, a.current) = Selections!ReleaseOf(s, s.current)

\* A transition holds the lock; what it will write follows all answers.
Writes(o, w) ==
  /\ holder = o /\ w.pc \in {"replace", "sync"} /\ w = [pc |-> w.pc, next |-> w.next]
  /\ Lawful(w.next)
  /\ w.pc = "replace" => \A a \in acks : Follows(a, w.next)
  /\ w.pc = "sync" => w.next = selection

SlotsInv ==
  /\ installed \in [Roots -> Selections!Identity \cup {None}]
  /\ holder \in Operators \cup {None}
  /\ DOMAIN operator = Operators /\ operator = [o \in Operators |-> operator[o]]
  /\ \A o \in Operators : operator[o] = Selections!Idle \/ Writes(o, operator[o])
  /\ selection \in disk
  /\ \A d \in disk : d = None \/ Lawful(d)
  /\ \A a \in acks : Lawful(a)
  /\ \A a \in acks, d \in disk : d # None /\ Follows(a, d)
  /\ \A a, b \in acks : a.generation = b.generation => a = b
  /\ \A a, b \in acks :
       Selections!ReleaseOf(a, a.current) = Selections!ReleaseOf(b, b.current)

LEMMA SlotsInit == ASSUME Selections!Init PROVE SlotsInv
BY DEF Selections!Init, SlotsInv

\* The fields of a state, and a state of its fields.
LEMMA StateFields ==
  ASSUME NEW s \in Selections!State
  PROVE  /\ s.generation \in 0 .. MaxGeneration /\ s.current \in Slots
         /\ s.previous \in Slots \cup {None}
         /\ s = [generation |-> s.generation, current |-> s.current, previous |-> s.previous,
                 slots |-> s.slots]
         /\ s.slots \in UNION {[t -> Selections!Record] : t \in SUBSET Slots}
         /\ s.slots \in [DOMAIN s.slots -> Selections!Record] /\ DOMAIN s.slots \subseteq Slots
<1>1. /\ s.generation \in 0 .. MaxGeneration /\ s.current \in Slots
      /\ s.previous \in Slots \cup {None}
      /\ s = [generation |-> s.generation, current |-> s.current, previous |-> s.previous,
              slots |-> s.slots]
      /\ s.slots \in UNION {[t -> Selections!Record] : t \in SUBSET Slots}
  BY DEF Selections!State
<1>2. PICK t \in SUBSET Slots : s.slots \in [t -> Selections!Record]
  BY <1>1
<1>3. DOMAIN s.slots = t
  BY <1>2
<1> QED  BY <1>1, <1>2, <1>3

LEMMA StateOfFields ==
  ASSUME NEW g \in 0 .. MaxGeneration, NEW c \in Slots, NEW p \in Slots \cup {None},
         NEW t \in SUBSET Slots, NEW f \in [t -> Selections!Record],
         NEW s, s = [generation |-> g, current |-> c, previous |-> p, slots |-> f]
  PROVE  s \in Selections!State
<1>1. f \in UNION {[u -> Selections!Record] : u \in SUBSET Slots}
  OBVIOUS
<1> QED  BY <1>1 DEF Selections!State

\* What is registered or verified is new, or what it was.
LEMMA SlotsRecorded ==
  ASSUME NEW s, Lawful(s), NEW slot \in Slots, NEW root \in Roots,
         installed[root] \in Selections!Identity,
         Selections!Registers(s, slot, root) \/ Selections!Known(s, slot, root),
         NEW f, f = Selections!Recorded(s, slot, root)
  PROVE  /\ f \in [DOMAIN s.slots \cup {slot} -> Selections!Record]
         /\ \A e \in DOMAIN s.slots : f[e] = s.slots[e]
         /\ \A a, b \in DOMAIN s.slots \cup {slot} : f[a].root = f[b].root => a = b
<1>1. s.slots \in [DOMAIN s.slots -> Selections!Record]
  BY StateFields DEF Lawful
<1>2. PICK r : r = [root |-> root, identity |-> installed[root]]
  OBVIOUS
<1>3. r \in Selections!Record /\ r.root = root /\ r.identity = installed[root]
  BY <1>2 DEF Selections!Record
<1>5. f = [e \in DOMAIN s.slots \cup {slot} |-> IF e = slot THEN r ELSE s.slots[e]]
  BY <1>2 DEF Selections!Recorded
<1>6. f \in [DOMAIN s.slots \cup {slot} -> Selections!Record]
  BY <1>1, <1>3, <1>5
<1>7. CASE Selections!Registers(s, slot, root)
  <2>1. slot \notin DOMAIN s.slots /\ \A e \in DOMAIN s.slots : s.slots[e].root # root
    BY <1>7 DEF Selections!Registers
  <2>2. f[slot] = r /\ \A e \in DOMAIN s.slots : f[e] = s.slots[e]
    BY <1>5, <2>1
  <2>3. \A a, b \in DOMAIN s.slots : s.slots[a].root = s.slots[b].root => a = b
    BY DEF Lawful, Selections!Valid
  <2>4. \A a, b \in DOMAIN s.slots \cup {slot} : f[a].root = f[b].root => a = b
    BY <1>3, <2>1, <2>2, <2>3
  <2> QED  BY <1>6, <2>2, <2>4
<1>8. CASE Selections!Known(s, slot, root)
  <2>1. slot \in DOMAIN s.slots /\ s.slots[slot].root = root
        /\ s.slots[slot].identity = installed[root]
    BY <1>8 DEF Selections!Known, Selections!SameIdentity
  <2>2. s.slots[slot] = r
    <3>1. s.slots[slot] \in Selections!Record
      BY <1>1, <2>1
    <3>2. PICK q : q = s.slots[slot]
      OBVIOUS
    <3>3. q = [root |-> q.root, identity |-> q.identity]
      BY <3>1, <3>2 DEF Selections!Record
    <3> QED  BY <1>2, <2>1, <3>2, <3>3
  <2>3. \A e \in DOMAIN s.slots : f[e] = s.slots[e]
    BY <1>5, <2>2
  <2>4. \A a, b \in DOMAIN s.slots : s.slots[a].root = s.slots[b].root => a = b
    BY DEF Lawful, Selections!Valid
  <2>5. \A a, b \in DOMAIN s.slots \cup {slot} : f[a].root = f[b].root => a = b
    BY <2>1, <2>3, <2>4
  <2> QED  BY <1>6, <2>3, <2>5
<1> QED  BY <1>7, <1>8

\* The state after a registration or verification.
LEMMA SlotsAfterRecord ==
  ASSUME MaxGeneration \in Nat, NEW s, Lawful(s), NEW slot \in Slots, NEW root \in Roots,
         installed[root] \in Selections!Identity, s.generation + 1 <= MaxGeneration,
         Selections!Registers(s, slot, root) \/ Selections!Known(s, slot, root),
         NEW f, f = Selections!Recorded(s, slot, root),
         NEW t, t = [generation |-> s.generation + 1, current |-> s.current,
                     previous |-> s.previous, slots |-> f]
  PROVE  /\ Lawful(t) /\ t.generation = s.generation + 1
         /\ DOMAIN s.slots \subseteq DOMAIN t.slots
         /\ Selections!ReleaseOf(t, t.current) = Selections!ReleaseOf(s, s.current)
<1>1. /\ s.generation \in 0 .. MaxGeneration /\ s.current \in Slots
      /\ s.previous \in Slots \cup {None} /\ DOMAIN s.slots \subseteq Slots
      /\ s = [generation |-> s.generation, current |-> s.current, previous |-> s.previous,
              slots |-> s.slots]
  BY StateFields DEF Lawful
<1>3. /\ f \in [DOMAIN s.slots \cup {slot} -> Selections!Record]
      /\ \A e \in DOMAIN s.slots : f[e] = s.slots[e]
      /\ \A a, b \in DOMAIN s.slots \cup {slot} : f[a].root = f[b].root => a = b
  BY SlotsRecorded
<1>5. t.generation = s.generation + 1 /\ t.current = s.current /\ t.previous = s.previous
      /\ t.slots = f
  OBVIOUS
<1>6. DOMAIN f = DOMAIN s.slots \cup {slot}
  BY <1>3
<1>7. t \in Selections!State
  <2>1. s.generation + 1 \in 0 .. MaxGeneration /\ DOMAIN s.slots \cup {slot} \in SUBSET Slots
    BY <1>1
  <2> QED  BY <1>1, <1>3, <2>1, StateOfFields
<1>8. s.current \in DOMAIN s.slots /\ (s.previous # None => s.previous \in DOMAIN s.slots \ {s.current})
  BY DEF Lawful, Selections!Valid
<1>9. Selections!Valid(t)
  <2>1. t.current \in DOMAIN t.slots
        /\ (t.previous # None => t.previous \in DOMAIN t.slots \ {t.current})
    BY <1>5, <1>6, <1>8
  <2>2. \A a, b \in DOMAIN t.slots : t.slots[a].root = t.slots[b].root => a = b
    BY <1>3, <1>5, <1>6
  <2> QED  BY <2>1, <2>2 DEF Selections!Valid
<1>10. f[s.current] = s.slots[s.current] /\ (s.previous # None => f[s.previous] = s.slots[s.previous])
  BY <1>3, <1>8
<1>11. Selections!ReleaseOf(t, t.current) = Selections!ReleaseOf(s, s.current)
  BY <1>5, <1>10 DEF Selections!ReleaseOf
<1>12. t.previous # None => Selections!ReleaseOf(t, t.previous) = Selections!ReleaseOf(t, t.current)
  BY <1>5, <1>10 DEF Selections!ReleaseOf, Lawful
<1> QED  BY <1>5, <1>6, <1>7, <1>9, <1>11, <1>12 DEF Lawful

LEMMA SlotsAfterSelect ==
  ASSUME MaxGeneration \in Nat, NEW s, Lawful(s), NEW slot \in Slots,
         slot \in DOMAIN s.slots, s.generation + 1 <= MaxGeneration,
         slot # s.current, Selections!Compatible(s, slot),
         NEW t, t = [generation |-> s.generation + 1, current |-> slot, previous |-> s.current,
                     slots |-> s.slots]
  PROVE  /\ Lawful(t) /\ t.generation = s.generation + 1
         /\ DOMAIN s.slots \subseteq DOMAIN t.slots
         /\ Selections!ReleaseOf(t, t.current) = Selections!ReleaseOf(s, s.current)
<1>1. /\ s.generation \in 0 .. MaxGeneration /\ s.current \in Slots
      /\ s.previous \in Slots \cup {None} /\ DOMAIN s.slots \subseteq Slots
      /\ s.slots \in [DOMAIN s.slots -> Selections!Record]
      /\ s = [generation |-> s.generation, current |-> s.current, previous |-> s.previous,
              slots |-> s.slots]
  BY StateFields DEF Lawful
<1>3. t.generation = s.generation + 1 /\ t.current = slot /\ t.previous = s.current
      /\ t.slots = s.slots
  OBVIOUS
<1>4. t \in Selections!State
  <2>1. s.generation + 1 \in 0 .. MaxGeneration /\ DOMAIN s.slots \in SUBSET Slots
    BY <1>1
  <2> QED  BY <1>1, <2>1, StateOfFields
<1>5. s.current \in DOMAIN s.slots
      /\ \A a, b \in DOMAIN s.slots : s.slots[a].root = s.slots[b].root => a = b
  BY DEF Lawful, Selections!Valid
<1>6. Selections!Valid(t)
  BY <1>3, <1>5 DEF Selections!Valid
<1>7. Selections!ReleaseOf(t, t.current) = Selections!ReleaseOf(s, s.current)
      /\ Selections!ReleaseOf(t, t.previous) = Selections!ReleaseOf(t, t.current)
  BY <1>3 DEF Selections!ReleaseOf, Selections!Compatible
<1> QED  BY <1>3, <1>4, <1>6, <1>7 DEF Lawful

\* A step of one operator that leaves the file where it is.
LEMMA SlotsOne ==
  ASSUME SlotsInv, NEW o \in Operators, NEW w,
         operator' = [operator EXCEPT ![o] = w], w = Selections!Idle \/ Writes(o, w)',
         \A p \in Operators \ {o} : operator[p] = Selections!Idle \/ (holder' = holder /\ holder = p),
         holder' \in {holder, o, None}, UNCHANGED <<installed, selection, disk, acks>>
  PROVE  SlotsInv'
<1>1. ASSUME NEW p \in Operators  PROVE operator'[p] = Selections!Idle \/ Writes(p, operator[p])'
  <2>1. CASE p = o
    <3>1. operator'[p] = w
      BY <2>1 DEF SlotsInv
    <3>2. CASE w = Selections!Idle
      BY <3>1, <3>2
    <3>3. CASE Writes(o, w)'
      BY <2>1, <3>1, <3>3 DEF Writes
    <3> QED  BY <3>2, <3>3
  <2>2. CASE p # o
    <3>1. operator'[p] = operator[p]
      BY <2>2 DEF SlotsInv
    <3>2. PICK v : v = operator[p]
      OBVIOUS
    <3>3. v = Selections!Idle \/ (Writes(p, v) /\ holder' = holder)
      BY <2>2, <3>2 DEF SlotsInv
    <3>4. CASE v = Selections!Idle
      BY <3>1, <3>2, <3>4
    <3>5. CASE Writes(p, v) /\ holder' = holder
      BY <3>1, <3>2, <3>5 DEF Writes
    <3> QED  BY <3>3, <3>4, <3>5
  <2> QED  BY <2>1, <2>2
<1>2. DOMAIN operator' = Operators /\ operator' = [p \in Operators |-> operator'[p]]
  BY DEF SlotsInv
<1>3. \A p \in Operators : operator'[p] = Selections!Idle \/ Writes(p, operator[p])'
  BY <1>1
<1>4. holder' \in Operators \cup {None}
  BY DEF SlotsInv
<1> QED  BY <1>2, <1>3, <1>4 DEF SlotsInv, Selections!Idle

\* What a transition will write.
LEMMA SlotsNext ==
  ASSUME SlotsAssumption, SlotsInv, NEW o \in Operators, NEW slot \in Slots, NEW root \in Roots,
         installed[root] # None,
         Selections!Initialize(o, slot, root) \/ Selections!Transition(o, slot, root)
  PROVE  \E t : /\ operator' = [operator EXCEPT ![o] = [pc |-> "replace", next |-> t]]
                /\ Lawful(t) /\ \A a \in acks : Follows(a, t)
<1>1. installed[root] \in Selections!Identity
  BY DEF SlotsInv
<1>2. CASE Selections!Initialize(o, slot, root)
  <2>1. PICK t : t = Selections!Initialized(slot, root)
    OBVIOUS
  <2>2. PICK r : r = [root |-> root, identity |-> installed[root]]
    OBVIOUS
  <2>3. r \in Selections!Record
    BY <1>1, <2>2 DEF Selections!Record
  <2>4. PICK f : f = [s \in {slot} |-> r]
    OBVIOUS
  <2>5. f \in [{slot} -> Selections!Record] /\ DOMAIN f = {slot}
    BY <2>3, <2>4
  <2>6. t = [generation |-> 0, current |-> slot, previous |-> None, slots |-> f]
    BY <2>1, <2>2, <2>4 DEF Selections!Initialized
  <2>7. 0 \in 0 .. MaxGeneration /\ {slot} \in SUBSET Slots /\ None \in Slots \cup {None}
    BY DEF SlotsAssumption
  <2>8. t \in Selections!State
    BY <2>5, <2>6, <2>7, StateOfFields
  <2>9. t.current = slot /\ t.previous = None /\ t.slots = f
    BY <2>6
  <2>10. Selections!Valid(t)
    BY <2>5, <2>9 DEF Selections!Valid
  <2>11. Lawful(t)
    BY <2>8, <2>9, <2>10 DEF Lawful
  <2>12. acks = {}
    BY <1>2 DEF Selections!Initialize, SlotsInv
  <2>13. operator' = [operator EXCEPT ![o] = [pc |-> "replace", next |-> t]]
    BY <1>2, <2>1 DEF Selections!Initialize
  <2> QED  BY <2>11, <2>12, <2>13
<1>3. CASE Selections!Transition(o, slot, root)
  <2>1. PICK s : s = selection
    OBVIOUS
  <2>2. s # None /\ Lawful(s) /\ \A a \in acks : Follows(a, s)
    BY <1>3, <2>1 DEF Selections!Transition, SlotsInv
  <2>3. /\ s.generation \in 0 .. MaxGeneration
        /\ s = [generation |-> s.generation, current |-> s.current, previous |-> s.previous,
                slots |-> s.slots]
    BY <2>2, StateFields DEF Lawful
  <2>4. PICK n \in 0 .. MaxGeneration - 1 :
          /\ s.generation = n
          /\ \/ /\ Selections!Registers(s, slot, root) \/ Selections!Known(s, slot, root)
                /\ Selections!Write(o, [s EXCEPT !.slots = Selections!Recorded(s, slot, root)], n)
             \/ /\ Selections!Known(s, slot, root)
                /\ slot # s.current
                /\ Selections!Compatible(s, slot)
                /\ Selections!Write(o, Selections!Selected(s, slot), n)
    BY <1>3, <2>1 DEF Selections!Transition, Selections!Expected
  <2>5. n + 1 <= MaxGeneration /\ n \in Nat /\ s.generation + 1 <= MaxGeneration
    BY <2>4 DEF SlotsAssumption
  <2>6. ASSUME NEW t, Lawful(t), t.generation = s.generation + 1,
               DOMAIN s.slots \subseteq DOMAIN t.slots,
               Selections!ReleaseOf(t, t.current) = Selections!ReleaseOf(s, s.current)
        PROVE  \A a \in acks : Follows(a, t)
    <3> TAKE a \in acks
    <3>1. Follows(a, s) /\ a.generation \in Nat /\ s.generation \in Nat
      <4>1. a \in Selections!State
        BY DEF SlotsInv, Lawful
      <4> QED  BY <2>2, <2>4, <2>5, <4>1, StateFields DEF SlotsAssumption
    <3>2. a.generation < t.generation
      BY <2>6, <3>1 DEF Follows
    <3> QED  BY <2>6, <3>1, <3>2 DEF Follows
  <2>7. CASE /\ Selections!Registers(s, slot, root) \/ Selections!Known(s, slot, root)
             /\ Selections!Write(o, [s EXCEPT !.slots = Selections!Recorded(s, slot, root)], n)
    <3>1. PICK f : f = Selections!Recorded(s, slot, root)
      OBVIOUS
    <3>2. PICK t : t = [generation |-> s.generation + 1, current |-> s.current,
                        previous |-> s.previous, slots |-> f]
      OBVIOUS
    <3>3. /\ Lawful(t) /\ t.generation = s.generation + 1
          /\ DOMAIN s.slots \subseteq DOMAIN t.slots
          /\ Selections!ReleaseOf(t, t.current) = Selections!ReleaseOf(s, s.current)
      BY <1>1, <2>2, <2>5, <2>7, <3>1, <3>2, SlotsAfterRecord DEF SlotsAssumption
    <3>6. PICK c, p, m : s = [generation |-> n, current |-> c, previous |-> p, slots |-> m]
      BY <2>3, <2>4
    <3>7. s.current = c /\ s.previous = p /\ s.slots = m /\ s.generation = n
      BY <3>6
    <3>8. t = [generation |-> n + 1, current |-> c, previous |-> p, slots |-> f]
      BY <3>2, <3>7
    <3>9. PICK u : u = [s EXCEPT !.slots = f]
      OBVIOUS
    <3>10. u = [generation |-> n, current |-> c, previous |-> p, slots |-> f]
      BY <3>6, <3>9
    <3>11. [u EXCEPT !.generation = n + 1] = t
      BY <3>8, <3>10
    <3>4. [[s EXCEPT !.slots = f] EXCEPT !.generation = n + 1] = t
      BY <3>9, <3>11
    <3>5. operator' = [operator EXCEPT ![o] = [pc |-> "replace", next |-> t]]
      BY <2>7, <3>1, <3>4 DEF Selections!Write
    <3> QED  BY <2>6, <3>3, <3>5
  <2>8. CASE /\ Selections!Known(s, slot, root)
             /\ slot # s.current
             /\ Selections!Compatible(s, slot)
             /\ Selections!Write(o, Selections!Selected(s, slot), n)
    <3>1. slot \in DOMAIN s.slots
      BY <2>8 DEF Selections!Known
    <3>2. PICK t : t = [generation |-> s.generation + 1, current |-> slot,
                        previous |-> s.current, slots |-> s.slots]
      OBVIOUS
    <3>3. /\ Lawful(t) /\ t.generation = s.generation + 1
          /\ DOMAIN s.slots \subseteq DOMAIN t.slots
          /\ Selections!ReleaseOf(t, t.current) = Selections!ReleaseOf(s, s.current)
      BY <2>2, <2>5, <2>8, <3>1, <3>2, SlotsAfterSelect DEF SlotsAssumption
    <3>6. PICK c, p, m : s = [generation |-> n, current |-> c, previous |-> p, slots |-> m]
      BY <2>3, <2>4
    <3>7. s.current = c /\ s.previous = p /\ s.slots = m /\ s.generation = n
      BY <3>6
    <3>8. t = [generation |-> n + 1, current |-> slot, previous |-> c, slots |-> m]
      BY <3>2, <3>7
    <3>9. PICK u : u = Selections!Selected(s, slot)
      OBVIOUS
    <3>10. u = [generation |-> n, current |-> slot, previous |-> c, slots |-> m]
      BY <3>6, <3>9 DEF Selections!Selected
    <3>11. [u EXCEPT !.generation = n + 1] = t
      BY <3>8, <3>10
    <3>4. [Selections!Selected(s, slot) EXCEPT !.generation = n + 1] = t
      BY <3>9, <3>11
    <3>5. operator' = [operator EXCEPT ![o] = [pc |-> "replace", next |-> t]]
      BY <2>8, <3>4 DEF Selections!Write
    <3> QED  BY <2>6, <3>3, <3>5
  <2> QED  BY <2>4, <2>7, <2>8
<1> QED  BY <1>2, <1>3

LEMMA SlotsCompute ==
  ASSUME SlotsAssumption, SlotsInv, NEW o \in Operators, Selections!Compute(o)
  PROVE  SlotsInv'
<1>1. holder = None /\ holder' = o /\ UNCHANGED <<installed, selection, disk, acks>>
  BY DEF Selections!Compute
<1>2. PICK slot \in Slots, root \in Roots :
        /\ installed[root] # None
        /\ Selections!Initialize(o, slot, root) \/ Selections!Transition(o, slot, root)
  BY DEF Selections!Compute
<1>3. PICK t : /\ operator' = [operator EXCEPT ![o] = [pc |-> "replace", next |-> t]]
               /\ Lawful(t) /\ \A a \in acks : Follows(a, t)
  BY <1>2, SlotsNext
<1>4. PICK w : w = [pc |-> "replace", next |-> t]
  OBVIOUS
<1>5. w.pc = "replace" /\ w.next = t /\ w = [pc |-> w.pc, next |-> w.next]
  BY <1>4
<1>6. Writes(o, w)'
  BY <1>1, <1>3, <1>5 DEF Writes
<1>7. \A p \in Operators : operator[p] = Selections!Idle
  BY <1>1 DEF SlotsInv, Writes, SlotsAssumption
<1>8. operator' = [operator EXCEPT ![o] = w]
  BY <1>3, <1>4
<1> QED  BY <1>1, <1>6, <1>7, <1>8, SlotsOne

LEMMA SlotsHolder ==
  ASSUME SlotsInv, NEW o \in Operators, operator[o] # Selections!Idle
  PROVE  Writes(o, operator[o]) /\ holder = o
         /\ \A p \in Operators \ {o} : operator[p] = Selections!Idle
BY DEF SlotsInv, Writes

LEMMA SlotsReplace ==
  ASSUME SlotsAssumption, SlotsInv, NEW o \in Operators, Selections!Replace(o)
  PROVE  SlotsInv'
<1>1. PICK v : v = operator[o]
  OBVIOUS
<1>2. v # Selections!Idle /\ v.pc = "replace" /\ selection' = v.next /\ disk' = disk \cup {v.next}
      /\ operator' = [operator EXCEPT ![o].pc = "sync"] /\ UNCHANGED <<installed, holder, acks>>
  BY <1>1 DEF Selections!Replace, Selections!At
<1>3. Writes(o, v) /\ holder = o /\ \A p \in Operators \ {o} : operator[p] = Selections!Idle
  BY <1>1, <1>2, SlotsHolder
<1>4. Lawful(v.next) /\ (\A a \in acks : Follows(a, v.next)) /\ v = [pc |-> v.pc, next |-> v.next]
  BY <1>2, <1>3 DEF Writes
<1>5. PICK t : t = v.next
  OBVIOUS
<1>6. PICK w : w = [pc |-> "sync", next |-> t]
  OBVIOUS
<1>7. operator' = [operator EXCEPT ![o] = w]
  <2>1. [v EXCEPT !.pc = "sync"] = w
    BY <1>4, <1>5, <1>6
  <2> QED  BY <1>1, <1>2, <2>1
<1>8. w.pc = "sync" /\ w.next = t /\ w = [pc |-> w.pc, next |-> w.next]
  BY <1>6
<1>9. Writes(o, w)'
  BY <1>2, <1>3, <1>4, <1>5, <1>8 DEF Writes
<1>10. ASSUME NEW p \in Operators  PROVE operator'[p] = Selections!Idle \/ Writes(p, operator[p])'
  <2>1. CASE p = o
    <3>1. operator'[p] = w
      BY <1>7, <2>1 DEF SlotsInv
    <3> QED  BY <1>9, <2>1, <3>1 DEF Writes
  <2>2. CASE p # o
    BY <1>3, <1>7, <2>2 DEF SlotsInv
  <2> QED  BY <2>1, <2>2
<1>11. DOMAIN operator' = Operators /\ operator' = [p \in Operators |-> operator'[p]]
  BY <1>7 DEF SlotsInv
<1>12. t # None /\ selection' = t /\ disk' = disk \cup {t}
  BY <1>2, <1>4, <1>5 DEF SlotsAssumption, Lawful
<1>13. /\ selection' \in disk'
       /\ \A d \in disk' : d = None \/ Lawful(d)
       /\ \A a \in acks, d \in disk' : d # None /\ Follows(a, d)
  BY <1>4, <1>5, <1>12 DEF SlotsInv
<1>14. \A p \in Operators : operator'[p] = Selections!Idle \/ Writes(p, operator[p])'
  BY <1>10
<1> QED  BY <1>2, <1>11, <1>13, <1>14 DEF SlotsInv, Selections!Idle

LEMMA SlotsSync ==
  ASSUME SlotsAssumption, SlotsInv, NEW o \in Operators, Selections!SyncDirectory(o)
  PROVE  SlotsInv'
<1>1. PICK v : v = operator[o]
  OBVIOUS
<1>2. v # Selections!Idle /\ v.pc = "sync" /\ disk' = {selection} /\ acks' = acks \cup {v.next}
      /\ holder' = None /\ operator' = [operator EXCEPT ![o] = Selections!Idle]
      /\ UNCHANGED <<installed, selection>>
  BY <1>1 DEF Selections!SyncDirectory, Selections!At, Selections!Synced, Selections!Finish
<1>3. Writes(o, v) /\ holder = o /\ \A p \in Operators \ {o} : operator[p] = Selections!Idle
  BY <1>1, <1>2, SlotsHolder
<1>4. PICK t : t = v.next
  OBVIOUS
<1>5. Lawful(t) /\ t = selection /\ acks' = acks \cup {t} /\ disk' = {t}
  BY <1>2, <1>3, <1>4 DEF Writes
<1>6. t # None /\ t.generation \in Nat
  BY <1>5, StateFields DEF Lawful, SlotsAssumption
<1>7. \A a \in acks : Follows(a, t)
  BY <1>5 DEF SlotsInv
<1>8. Follows(t, t)
  BY <1>6 DEF Follows
<1>9. \A a, b \in acks' : a.generation = b.generation => a = b
  BY <1>5, <1>7 DEF SlotsInv, Follows
<1>10. \A a, b \in acks' :
         Selections!ReleaseOf(a, a.current) = Selections!ReleaseOf(b, b.current)
  <2>1. \A a \in acks' : Selections!ReleaseOf(a, a.current) = Selections!ReleaseOf(t, t.current)
    BY <1>5, <1>7 DEF Follows
  <2> QED  BY <2>1
<1>11. \A a \in acks', d \in disk' : d # None /\ Follows(a, d)
  BY <1>5, <1>6, <1>7, <1>8
<1>12. \A a \in acks' : Lawful(a)
  BY <1>5 DEF SlotsInv
<1>13. \A d \in disk' : d = None \/ Lawful(d)
  BY <1>5
<1>14. DOMAIN operator' = Operators /\ operator' = [p \in Operators |-> operator'[p]]
       /\ \A p \in Operators : operator'[p] = Selections!Idle
  BY <1>2, <1>3 DEF SlotsInv
<1>15. installed' \in [Roots -> Selections!Identity \cup {None}] /\ selection' \in disk'
       /\ holder' \in Operators \cup {None}
  BY <1>2, <1>5 DEF SlotsInv
<1> QED  BY <1>9, <1>10, <1>11, <1>12, <1>13, <1>14, <1>15 DEF SlotsInv, Selections!Idle

LEMMA SlotsQuiet ==
  ASSUME SlotsInv, Selections!PowerLoss \/ (\E o \in Operators : Selections!Fail(o))
                   \/ \E r \in Roots : Selections!Reinstall(r)
  PROVE  SlotsInv'
<1>1. CASE Selections!PowerLoss
  <2>1. selection' \in disk /\ disk' = {selection'} /\ holder' = None
        /\ operator' = [o \in Operators |-> Selections!Idle] /\ UNCHANGED <<installed, acks>>
    BY <1>1 DEF Selections!PowerLoss
  <2>2. DOMAIN operator' = Operators /\ operator' = [p \in Operators |-> operator'[p]]
        /\ \A p \in Operators : operator'[p] = Selections!Idle
    BY <2>1
  <2>3. disk' \subseteq disk
    BY <2>1
  <2> QED  BY <2>1, <2>2, <2>3 DEF SlotsInv, Selections!Idle
<1>2. ASSUME NEW o \in Operators, Selections!Fail(o)  PROVE SlotsInv'
  <2>1. operator[o] # Selections!Idle /\ holder' = None
        /\ operator' = [operator EXCEPT ![o] = Selections!Idle]
        /\ UNCHANGED <<installed, selection, disk, acks>>
    BY <1>2 DEF Selections!Fail, Selections!Finish
  <2>2. \A p \in Operators \ {o} : operator[p] = Selections!Idle
    BY <2>1, SlotsHolder
  <2>3. PICK w : w = Selections!Idle
    OBVIOUS
  <2> QED  BY <2>1, <2>2, <2>3, SlotsOne
<1>3. ASSUME NEW r \in Roots, Selections!Reinstall(r)  PROVE SlotsInv'
  <2>1. installed' \in [Roots -> Selections!Identity \cup {None}]
        /\ UNCHANGED <<selection, disk, holder, operator, acks>>
    BY <1>3 DEF Selections!Reinstall, SlotsInv
  <2> QED  BY <2>1 DEF SlotsInv, Writes, Selections!Idle
<1> QED  BY <1>1, <1>2, <1>3

LEMMA SlotsKeep ==
  ASSUME SlotsAssumption, SlotsInv, [Selections!Next]_slotVars
  PROVE  SlotsInv'
<1>1. CASE UNCHANGED slotVars
  BY <1>1 DEF slotVars, SlotsInv, Writes, Selections!Idle
<1>2. ASSUME NEW o \in Operators, Selections!Compute(o)  PROVE SlotsInv'
  BY <1>2, SlotsCompute
<1>3. ASSUME NEW o \in Operators, Selections!Replace(o)  PROVE SlotsInv'
  BY <1>3, SlotsReplace
<1>4. ASSUME NEW o \in Operators, Selections!SyncDirectory(o)  PROVE SlotsInv'
  BY <1>4, SlotsSync
<1>5. ASSUME Selections!PowerLoss \/ (\E o \in Operators : Selections!Fail(o))
             \/ \E r \in Roots : Selections!Reinstall(r)
      PROVE  SlotsInv'
  BY <1>5, SlotsQuiet
<1> QED  BY <1>1, <1>2, <1>3, <1>4, <1>5, Zenon DEF Selections!Next

LEMMA SlotsImply ==
  ASSUME SlotsInv
  PROVE  SelectionStands
<1>1. Selections!TypeOK
  BY DEF SlotsInv, Selections!TypeOK, Lawful
<1>2. Selections!AcksStand
  BY DEF SlotsInv, Selections!AcksStand, Follows
<1>3. Selections!OneRelease
  <2> SUFFICES ASSUME NEW a \in acks \cup ({selection} \ {None}), NEW b \in acks
               PROVE  /\ Selections!ReleaseOf(a, a.current) = Selections!ReleaseOf(b, b.current)
                      /\ a.previous # None => Selections!ReleaseOf(a, a.previous)
                                                = Selections!ReleaseOf(b, b.current)
    BY DEF Selections!OneRelease
  <2>1. Lawful(a) /\ Selections!ReleaseOf(a, a.current) = Selections!ReleaseOf(b, b.current)
    BY DEF SlotsInv, Follows
  <2> QED  BY <2>1 DEF Lawful
<1> QED  BY <1>1, <1>2, <1>3 DEF SelectionStands

-----------------------------------------------------------------------------
(* The value ledger: entries of one category, as reviews of one entry, are *)
(* lines, of which each only grows at its end.                             *)

LEMMA ValuesCardinality ==
  ASSUME NEW S
  PROVE  Values!Cardinality(S) = Cardinality(S)
BY DEF Values!Cardinality, Cardinality

\* Ids count what there is.
Counted(X) ==
  /\ IsFiniteSet(X)
  /\ \A x \in X : x.id \in 1 .. Cardinality(X) /\ x.known \in Nat
  /\ \A x, y \in X : x.id = y.id => x = y

\* What supersedes another is known after it, and alone supersedes it.
Descends(X, key) ==
  /\ \A x \in X : x.supersedes # None =>
       \E old \in X : old.id = x.supersedes /\ old[key] = x[key] /\ old.known < x.known
  /\ \A x, y \in X : x.supersedes = y.supersedes /\ x.supersedes # None => x = y

\* A second line was begun by who could not know the beginning of the first.
BeginsBehind(X, key) ==
  \A x, y \in Values!Firsts(X) : x[key] = y[key] /\ x.id < y.id => y.known < x.known

Lines(X, key) == Counted(X) /\ Descends(X, key) /\ BeginsBehind(X, key)

\* What is to be added begins a line, or goes to the end of one.
Extends(X, key, p) ==
  /\ p.id = Cardinality(X) + 1 /\ p.known \in Nat
  /\ p.supersedes = None => \A x \in Values!Firsts(X) : x[key] = p[key] => p.known < x.known
  /\ p.supersedes # None =>
       /\ \E old \in X : old.id = p.supersedes /\ old[key] = p[key] /\ old.known < p.known
       /\ \A y \in X : y.supersedes # p.supersedes

LEMMA LineGrows ==
  ASSUME NEW X, NEW key, NEW p, Lines(X, key), Extends(X, key, p)
  PROVE  Lines(X \cup {p}, key) /\ Cardinality(X \cup {p}) = Cardinality(X) + 1
<1> USE DEF Lines
<1>1. Cardinality(X) \in Nat /\ IsFiniteSet(X)
  BY FS_CardinalityType DEF Counted
<1>2. \A x \in X : x.id \in Nat /\ x.id < p.id /\ x.known \in Nat
  BY <1>1 DEF Counted, Extends
<1>3. p \notin X /\ p.id \in Nat /\ p.known \in Nat
  BY <1>1, <1>2 DEF Extends
<1>4. IsFiniteSet(X \cup {p}) /\ Cardinality(X \cup {p}) = Cardinality(X) + 1
  BY <1>1, <1>3, FS_AddElement
<1>5. Counted(X \cup {p})
  <2>1. \A x \in X \cup {p} : x.id \in 1 .. Cardinality(X) + 1 /\ x.known \in Nat
    BY <1>1, <1>3 DEF Counted, Extends
  <2>2. \A x, y \in X \cup {p} : x.id = y.id => x = y
    BY <1>2, <1>3 DEF Counted
  <2> QED  BY <1>4, <2>1, <2>2 DEF Counted
<1>6. Descends(X \cup {p}, key)
  BY DEF Descends, Extends
<1>7. ASSUME NEW x \in Values!Firsts(X \cup {p}), NEW y \in Values!Firsts(X \cup {p}),
             x[key] = y[key], x.id < y.id
      PROVE  y.known < x.known
  <2>1. x \in X
    BY <1>2, <1>3, <1>7 DEF Values!Firsts
  <2>2. x \in Values!Firsts(X)
    BY <2>1 DEF Values!Firsts
  <2>3. CASE y \in X
    <3>1. y \in Values!Firsts(X)
      BY <2>3 DEF Values!Firsts
    <3> QED  BY <1>7, <2>2, <3>1 DEF BeginsBehind
  <2>4. CASE y = p
    BY <1>7, <2>2, <2>4 DEF Extends, Values!Firsts
  <2> QED  BY <2>3, <2>4 DEF Values!Firsts
<1>8. BeginsBehind(X \cup {p}, key)
  BY <1>7 DEF BeginsBehind
<1> QED  BY <1>4, <1>5, <1>6, <1>8

\* What of one key is active, and what began a line, by a cutoff.
Ends(X, key, k, cutoff) == {y \in Values!LeavesAsOf(X, cutoff) : y[key] = k}
Begun(X, key, k, cutoff) == {y \in Values!Firsts(X) : y[key] = k /\ y.known <= cutoff}

\* A line that is known by a cutoff has one beginning and one end there: each
\* that is superseded, and each that supersedes, has its counterpart.
LEMMA AsManyEndsAsFirsts ==
  ASSUME NEW X, NEW key, NEW k, NEW cutoff \in Nat, Lines(X, key), None \notin Nat
  PROVE  Cardinality(Ends(X, key, k, cutoff)) = Cardinality(Begun(X, key, k, cutoff))
<1> USE DEF Lines
<1>1. PICK K : K = {y \in X : y[key] = k /\ y.known <= cutoff}
  OBVIOUS
<1>2. PICK later : later = {y \in K : y.supersedes # None}
  OBVIOUS
<1>3. PICK old : old = {x \in K : \E y \in later : y.supersedes = x.id}
  OBVIOUS
<1>4. IsFiniteSet(K) /\ IsFiniteSet(later) /\ IsFiniteSet(old)
  BY <1>1, <1>2, <1>3, FS_Subset DEF Counted
<1>5. \A x \in X : x.id \in Nat /\ x.id # None /\ x.known \in Nat
  BY FS_CardinalityType DEF Counted
<1>6. Ends(X, key, k, cutoff) = K \ old
  <2>1. ASSUME NEW x \in K
        PROVE  x \in old <=> \E y \in X : y.known <= cutoff /\ y.supersedes = x.id
    <3>1. ASSUME NEW y \in X, y.known <= cutoff, y.supersedes = x.id  PROVE y \in later
      <4>1. y.supersedes # None /\ x \in X /\ x[key] = k
        BY <1>1, <1>5, <3>1
      <4>2. PICK o \in X : o.id = x.id /\ o[key] = y[key]
        BY <3>1, <4>1 DEF Descends
      <4>3. o = x
        BY <4>1, <4>2 DEF Counted
      <4> QED  BY <1>1, <1>2, <3>1, <4>1, <4>2, <4>3
    <3> QED  BY <1>1, <1>2, <1>3, <3>1
  <2> QED  BY <1>1, <1>3, <2>1 DEF Ends, Values!LeavesAsOf
<1>7. Begun(X, key, k, cutoff) = K \ later
  BY <1>1, <1>2 DEF Begun, Values!Firsts
<1>8. ExistsBijection(later, old)
  <2>1. PICK f : f = [y \in later |-> CHOOSE x \in K : x.id = y.supersedes]
    OBVIOUS
  <2>2. ASSUME NEW y \in later  PROVE f[y] \in K /\ f[y].id = y.supersedes
    <3>1. y \in X /\ y[key] = k /\ y.known <= cutoff /\ y.supersedes # None
      BY <1>1, <1>2
    <3>2. PICK x \in X : x.id = y.supersedes /\ x[key] = y[key] /\ x.known < y.known
      BY <3>1 DEF Descends
    <3>3. x \in K
      BY <1>1, <1>5, <3>1, <3>2
    <3>4. \E z \in K : z.id = y.supersedes
      BY <3>2, <3>3
    <3>5. f[y] = CHOOSE z \in K : z.id = y.supersedes
      BY <2>1
    <3> QED  BY <3>4, <3>5
  <2>3. f \in [later -> old]
    BY <1>3, <2>1, <2>2
  <2>4. \A y, z \in later : f[y] = f[z] => y = z
    BY <1>1, <1>2, <2>2 DEF Descends
  <2>5. \A x \in old : \E y \in later : f[y] = x
    BY <1>1, <1>3, <2>2 DEF Counted
  <2>6. f \in Bijection(later, old)
    BY <2>3, <2>4, <2>5 DEF Bijection, Injection, Surjection, IsInjective
  <2> QED  BY <2>6 DEF ExistsBijection
<1>9. Cardinality(old) = Cardinality(later)
  BY <1>4, <1>8, FS_Bijection
<1>10. ASSUME NEW T, T \subseteq K
       PROVE  Cardinality(K \ T) = Cardinality(K) - Cardinality(T)
  <2>1. K \cap T = T
    BY <1>10
  <2>2. Cardinality(K \ T) = Cardinality(K) - Cardinality(K \cap T)
    BY <1>4, FS_Difference, Zenon
  <2> QED  BY <2>1, <2>2
<1>11. old \subseteq K /\ later \subseteq K
  BY <1>2, <1>3
<1> QED  BY <1>6, <1>7, <1>9, <1>10, <1>11

ValuesInv ==
  /\ now \in 0 .. ValueClock
  /\ entries \subseteq Values!Entry /\ Lines(entries, "category")
  /\ reviews \subseteq Values!Review /\ Lines(reviews, "entry")
  /\ \/ pending = None
     \/ pending \in Values!Entry /\ Extends(entries, "category", pending)
     \/ pending \in Values!Review /\ Extends(reviews, "entry", pending)

LEMMA ValuesInit == ASSUME ValuesAssumption, Values!Init PROVE ValuesInv
<1>1. Counted({})
  BY FS_EmptySet DEF Counted
<1>2. \A key : Lines({}, key)
  BY <1>1 DEF Lines, Descends, BeginsBehind, Values!Firsts
<1> QED  BY <1>2 DEF Values!Init, ValuesInv, ValuesAssumption

\* An entry is no review.
LEMMA EntriesAreNoReviews ==
  ASSUME NEW x \in Values!Entry
  PROVE  x \notin Values!Review
<1>1. DOMAIN x = {"id", "category", "kind", "maturity", "known", "supersedes", "claimant"}
  BY DEF Values!Entry
<1>2. x \in Values!Review => "entry" \in DOMAIN x
  BY DEF Values!Review
<1> QED  BY <1>1, <1>2

LEMMA ValuesTypes ==
  ASSUME ValuesAssumption, ValuesInv
  PROVE  /\ Cardinality(entries) \in Nat /\ Cardinality(reviews) \in Nat /\ now \in Nat
         /\ \A e \in entries : e \in Values!Entry /\ e.id \in Nat /\ e.id # None /\ e.known \in Nat
         /\ \A r \in reviews : r \in Values!Review /\ r.id \in Nat /\ r.id # None /\ r.known \in Nat
<1>1. Cardinality(entries) \in Nat /\ Cardinality(reviews) \in Nat
  BY FS_CardinalityType DEF ValuesInv, Lines, Counted
<1>2. \A e \in entries : e.id \in Nat /\ e.known \in Nat
  BY <1>1 DEF ValuesInv, Lines, Counted
<1>3. \A r \in reviews : r.id \in Nat /\ r.known \in Nat
  BY <1>1 DEF ValuesInv, Lines, Counted
<1>4. now \in Nat
  BY DEF ValuesInv, ValuesAssumption
<1> QED  BY <1>1, <1>2, <1>3, <1>4 DEF ValuesInv, ValuesAssumption

\* A command under way.
LEMMA ValuesBegin ==
  ASSUME ValuesInv, NEW p, Values!Begin(p), p # None,
         \/ p \in Values!Entry /\ Extends(entries, "category", p)
         \/ p \in Values!Review /\ Extends(reviews, "entry", p)
  PROVE  ValuesInv'
BY DEF ValuesInv, Values!Begin

\* Where a host sees no active value, the first values lie in its future.
LEMMA NothingKnown ==
  ASSUME NEW category, NEW at \in Nat, Lines(entries, "category"), None \notin Nat,
         Values!Matching(category, at) = {}
  PROVE  \A x \in Values!Firsts(entries) : x["category"] = category => at < x.known
<1> SUFFICES ASSUME NEW x \in Values!Firsts(entries), x["category"] = category, ~(at < x.known)
             PROVE  FALSE
  OBVIOUS
<1>1. Ends(entries, "category", category, at) = {}
  BY DEF Ends, Values!Matching
<1>2. Cardinality(Begun(entries, "category", category, at)) = 0
  BY <1>1, AsManyEndsAsFirsts, FS_EmptySet
<1>3. Begun(entries, "category", category, at) \subseteq entries /\ IsFiniteSet(entries)
  BY DEF Begun, Values!Firsts, Lines, Counted
<1>4. Begun(entries, "category", category, at) = {}
  BY <1>2, <1>3, FS_Subset, FS_EmptySet
<1>5. x \in Begun(entries, "category", category, at)
  BY DEF Begun, Lines, Counted, Values!Firsts
<1> QED  BY <1>4, <1>5

LEMMA ValuesRecord ==
  ASSUME ValuesAssumption, ValuesInv, NEW s \in Subjects, NEW ahead \in Ahead,
         Cardinality(entries) < MaxEntries, Values!RecordValue(s, now + ahead)
  PROVE  ValuesInv'
<1>1. PICK at \in Nat : at = now + ahead
  <2>1. now \in Nat /\ ahead \in Nat
    BY ValuesTypes DEF ValuesAssumption
  <2> QED  BY <2>1
<1>2. PICK category \in Categories, maturity \in {"OBSERVED", "PENDING"}, old \in entries \cup {None} :
        /\ Values!SupersedesLeaf(category, at, old)
        /\ old # None => old.category = category /\ Values!Extends(old, at)
        /\ Values!Begin([id |-> Cardinality(entries) + 1, category |-> category, kind |-> "VALUE",
                         maturity |-> maturity, known |-> at, claimant |-> s,
                         supersedes |-> IF old = None THEN None ELSE old.id])
  BY <1>1, ValuesCardinality DEF Values!RecordValue
<1>3. PICK before \in Nat \cup {None} : before = IF old = None THEN None ELSE old.id
  BY ValuesTypes
<1>4. PICK p : p = [id |-> Cardinality(entries) + 1, category |-> category, kind |-> "VALUE",
                    maturity |-> maturity, known |-> at, claimant |-> s, supersedes |-> before]
  OBVIOUS
<1>5. p.id = Cardinality(entries) + 1 /\ p["category"] = category /\ p.known = at
      /\ p.supersedes = before
  BY <1>4
<1>6. Cardinality(entries) + 1 \in 1 .. MaxEntries
  BY ValuesTypes DEF ValuesAssumption
<1>7. p \in Values!Entry
  BY <1>4, <1>6 DEF Values!Entry
<1>8. Values!Begin(p)
  BY <1>2, <1>3, <1>4
<1>9. Lines(entries, "category") /\ None \notin Nat
  BY DEF ValuesInv, ValuesAssumption
<1>10. Extends(entries, "category", p)
  <2>1. CASE old = None
    <3>1. before = None /\ Values!Matching(category, at) = {}
      BY <1>2, <1>3, <2>1 DEF Values!SupersedesLeaf
    <3>2. \A x \in Values!Firsts(entries) : x["category"] = category => at < x.known
      BY <1>9, <3>1, NothingKnown
    <3> QED  BY <1>5, <3>1, <3>2 DEF Extends
  <2>2. CASE old # None
    <3>1. old \in entries /\ old["category"] = category /\ before = old.id /\ old.known < at
          /\ \A y \in entries : y.supersedes # old.id
      BY <1>2, <1>3, <2>2 DEF Values!Extends
    <3> QED  BY <1>5, <1>9, <3>1, ValuesTypes DEF Extends
  <2> QED  BY <2>1, <2>2
<1>11. p # None
  BY <1>7 DEF ValuesAssumption
<1> QED  BY <1>7, <1>8, <1>10, <1>11, ValuesBegin

LEMMA ValuesVoid ==
  ASSUME ValuesAssumption, ValuesInv, NEW s \in Subjects, NEW ahead \in Ahead,
         Cardinality(entries) < MaxEntries, Values!VoidValue(s, now + ahead)
  PROVE  ValuesInv'
<1>1. PICK at \in Nat : at = now + ahead
  <2>1. now \in Nat /\ ahead \in Nat
    BY ValuesTypes DEF ValuesAssumption
  <2> QED  BY <2>1
<1>2. PICK old \in entries :
        /\ Values!Extends(old, at)
        /\ Values!Begin([old EXCEPT !.id = Cardinality(entries) + 1, !.kind = "VOID", !.known = at,
                                    !.claimant = s, !.supersedes = old.id])
  BY <1>1, ValuesCardinality DEF Values!VoidValue
<1>3. PICK n \in 1 .. MaxEntries : n = Cardinality(entries) + 1
  BY ValuesTypes DEF ValuesAssumption
<1>4. PICK before \in Nat : before = old.id
  BY ValuesTypes
<1>5. PICK p : p = [old EXCEPT !.id = n, !.kind = "VOID", !.known = at, !.claimant = s,
                               !.supersedes = before]
  OBVIOUS
<1>6. old \in Values!Entry
  BY ValuesTypes
<1>7. p \in Values!Entry
  BY <1>5, <1>6 DEF Values!Entry
<1>8. p.id = n /\ p["category"] = old["category"] /\ p.known = at /\ p.supersedes = before
  BY <1>5, <1>6 DEF Values!Entry
<1>9. Values!Begin(p)
  BY <1>2, <1>3, <1>4, <1>5
<1>10. old.known < at /\ \A y \in entries : y.supersedes # old.id
  BY <1>2 DEF Values!Extends
<1>11. before # None /\ p # None
  BY <1>4, <1>7, ValuesTypes DEF ValuesAssumption
<1>12. Extends(entries, "category", p)
  BY <1>1, <1>3, <1>4, <1>8, <1>10, <1>11 DEF Extends
<1> QED  BY <1>7, <1>9, <1>11, <1>12, ValuesBegin

LEMMA ValuesReview ==
  ASSUME ValuesAssumption, ValuesInv, NEW s \in Subjects, NEW ahead \in Ahead,
         Cardinality(reviews) < MaxReviews, Values!ReviewValue(s, now + ahead)
  PROVE  ValuesInv'
<1>1. PICK at \in Nat : at = now + ahead
  <2>1. now \in Nat /\ ahead \in Nat
    BY ValuesTypes DEF ValuesAssumption
  <2> QED  BY <2>1
<1>2. PICK e \in entries, decision \in {"APPROVED", "REJECTED"}, cutoff \in 0 .. at,
           old \in reviews \cup {None} :
        /\ Values!SucceedsReview(e, at, old)
        /\ Values!Begin([id |-> Cardinality(reviews) + 1, entry |-> e.id, decision |-> decision,
                         cutoff |-> cutoff, reviewer |-> s, known |-> at,
                         supersedes |-> IF old = None THEN None ELSE old.id])
  BY <1>1, ValuesCardinality DEF Values!ReviewValue
<1>3. PICK before \in Nat \cup {None} : before = IF old = None THEN None ELSE old.id
  BY ValuesTypes
<1>4. PICK n \in 1 .. MaxReviews : n = Cardinality(reviews) + 1
  BY ValuesTypes DEF ValuesAssumption
<1>5. PICK i \in 1 .. MaxEntries : i = e.id
  BY ValuesTypes DEF Values!Entry
<1>6. PICK p : p = [id |-> n, entry |-> i, decision |-> decision, cutoff |-> cutoff,
                    reviewer |-> s, known |-> at, supersedes |-> before]
  OBVIOUS
<1>7. p.id = n /\ p["entry"] = i /\ p.known = at /\ p.supersedes = before
  BY <1>6
<1>8. p \in Values!Review
  BY <1>6 DEF Values!Review
<1>9. Values!Begin(p)
  BY <1>2, <1>3, <1>4, <1>5, <1>6
<1>10. \A x \in reviews : x.known \in Nat
  BY ValuesTypes
<1>11. Extends(reviews, "entry", p)
  <2>1. CASE old = None
    <3>1. before = None /\ \A r \in reviews : r.entry = i /\ r.known <= at => r.supersedes # None
      BY <1>2, <1>3, <1>5, <2>1 DEF Values!SucceedsReview
    <3>2. \A x \in Values!Firsts(reviews) : x["entry"] = i => at < x.known
      BY <1>10, <3>1 DEF Values!Firsts
    <3> QED  BY <1>4, <1>7, <3>1, <3>2 DEF Extends
  <2>2. CASE old # None
    <3>1. old \in reviews /\ old["entry"] = i /\ before = old.id /\ old.known < at
          /\ \A y \in reviews : y.supersedes # old.id
      BY <1>2, <1>3, <1>5, <2>2 DEF Values!SucceedsReview
    <3> QED  BY <1>4, <1>7, <3>1, ValuesTypes DEF Extends
  <2> QED  BY <2>1, <2>2
<1>12. p # None
  BY <1>8 DEF ValuesAssumption
<1> QED  BY <1>8, <1>9, <1>11, <1>12, ValuesBegin

LEMMA ValuesKeep ==
  ASSUME ValuesAssumption, ValuesInv, [Values!Next]_valueVars
  PROVE  ValuesInv'
<1>1. CASE UNCHANGED valueVars
  BY <1>1 DEF valueVars, ValuesInv
<1>2. ASSUME NEW s \in Subjects, NEW ahead \in Ahead, Values!Execute(s, ahead)  PROVE ValuesInv'
  <2>1. \/ Cardinality(entries) < MaxEntries /\ Values!RecordValue(s, now + ahead)
        \/ Cardinality(entries) < MaxEntries /\ Values!VoidValue(s, now + ahead)
        \/ Cardinality(reviews) < MaxReviews /\ Values!ReviewValue(s, now + ahead)
    BY <1>2, ValuesCardinality DEF Values!Execute
  <2> QED  BY <2>1, ValuesRecord, ValuesVoid, ValuesReview
<1>3. CASE Values!Commit
  <2>1. PICK p : p = pending
    OBVIOUS
  <2>2. p # None /\ pending' = None /\ now' = now
        /\ IF p \in Values!Entry THEN entries' = entries \cup {p} /\ UNCHANGED reviews
           ELSE reviews' = reviews \cup {p} /\ UNCHANGED entries
    BY <1>3, <2>1 DEF Values!Commit
  <2>3. \/ p \in Values!Entry /\ Extends(entries, "category", p)
        \/ p \in Values!Review /\ Extends(reviews, "entry", p)
    BY <2>1, <2>2 DEF ValuesInv
  <2>4. Lines(entries, "category") /\ Lines(reviews, "entry")
    BY DEF ValuesInv
  <2>5. CASE p \in Values!Entry
    <3>1. entries' = entries \cup {p} /\ UNCHANGED reviews /\ p \notin Values!Review
      BY <2>2, <2>5, EntriesAreNoReviews
    <3>2. Lines(entries \cup {p}, "category")
      BY <2>3, <2>4, <3>1, LineGrows
    <3> QED  BY <2>2, <2>3, <2>5, <3>1, <3>2 DEF ValuesInv
  <2>6. CASE p \notin Values!Entry
    <3>1. reviews' = reviews \cup {p} /\ UNCHANGED entries /\ p \in Values!Review
      BY <2>2, <2>3, <2>6
    <3>2. Lines(reviews \cup {p}, "entry")
      BY <2>3, <2>4, <2>6, LineGrows
    <3> QED  BY <2>2, <2>3, <3>1, <3>2 DEF ValuesInv
  <2> QED  BY <2>5, <2>6
<1>4. CASE Values!RollBack
  BY <1>4 DEF Values!RollBack, ValuesInv
<1>5. CASE Values!Tick
  <2>1. now' \in 0 .. ValueClock /\ now' = now + 1 /\ UNCHANGED <<entries, reviews, pending>>
    BY <1>5 DEF Values!Tick, ValuesInv, ValuesAssumption
  <2> QED  BY <2>1 DEF ValuesInv
<1> QED  BY <1>1, <1>2, <1>3, <1>4, <1>5, Zenon DEF Values!Next

LEMMA CutoffsAreNumbers ==
  ASSUME ValuesAssumption, ValuesInv
  PROVE  Values!Cutoffs \subseteq Nat
BY ValuesTypes DEF Values!Cutoffs, ValuesAssumption

LEMMA ValuesImply ==
  ASSUME ValuesAssumption, ValuesInv
  PROVE  ValueIsSound
<1>1. Values!TypeOK
  BY DEF ValuesInv, Values!TypeOK
<1>2. Values!NothingCountsTwice
  <2>1. Lines(entries, "category") /\ Lines(reviews, "entry") /\ None \notin Nat
    BY DEF ValuesInv, ValuesAssumption
  <2>2. ASSUME NEW X, NEW key, Lines(X, key)  PROVE Values!EachLineCountsOnce(X, key)
    <3>1. ASSUME NEW cutoff \in Values!Cutoffs, NEW x \in X
          PROVE  Values!Cardinality({y \in Values!LeavesAsOf(X, cutoff) : y[key] = x[key]})
                   = Values!Cardinality({y \in Values!Firsts(X) : y[key] = x[key] /\ y.known <= cutoff})
      <4>1. cutoff \in Nat
        BY CutoffsAreNumbers
      <4>2. Cardinality(Ends(X, key, x[key], cutoff)) = Cardinality(Begun(X, key, x[key], cutoff))
        BY <2>1, <2>2, <4>1, AsManyEndsAsFirsts
      <4> QED  BY <4>2, ValuesCardinality DEF Ends, Begun
    <3>2. BeginsBehind(X, key)
      BY <2>2 DEF Lines
    <3> QED  BY <3>1, <3>2 DEF Values!EachLineCountsOnce, BeginsBehind
  <2> QED  BY <2>1, <2>2 DEF Values!NothingCountsTwice
<1>3. Values!ValidatedIsIndependent
  <2> SUFFICES ASSUME NEW cutoff \in Values!Cutoffs, NEW e \in Values!LeavesAsOf(entries, cutoff),
                      Values!Label(e, Values!VerdictsOn(e, cutoff)) = "VALIDATED"
               PROVE  /\ e.maturity = "OBSERVED"
                      /\ \E r \in reviews : r.entry = e.id /\ r.decision = "APPROVED"
                           /\ r.known <= cutoff /\ r.reviewer # e.claimant
                           /\ \A q \in reviews : q.supersedes = r.id => q.known > cutoff
    BY DEF Values!ValidatedIsIndependent, Values!Report
  <2>1. e \in Values!Entry /\ e.kind \in {"VALUE", "VOID"} /\ e.maturity \in {"OBSERVED", "PENDING"}
    BY DEF Values!LeavesAsOf, ValuesInv, Values!Entry
  <2>2. e.kind = "VALUE" /\ e.maturity = "OBSERVED"
        /\ \E r \in Values!VerdictsOn(e, cutoff) : r.decision = "APPROVED"
    BY <2>1 DEF Values!Label
  <2>3. PICK r \in Values!VerdictsOn(e, cutoff) : r.decision = "APPROVED"
    BY <2>2
  <2>4. r \in Values!LeavesAsOf(reviews, cutoff) /\ r.entry = e.id /\ r.reviewer # e.claimant
    BY DEF Values!VerdictsOn
  <2>5. r \in reviews /\ r.known <= cutoff
        /\ \A q \in reviews : q.known <= cutoff => q.supersedes # r.id
    BY <2>4 DEF Values!LeavesAsOf
  <2>6. \A q \in reviews : q.known \in Nat /\ cutoff \in Nat
    BY ValuesTypes, CutoffsAreNumbers
  <2> QED  BY <2>2, <2>3, <2>4, <2>5, <2>6
<1> QED  BY <1>1, <1>2, <1>3 DEF ValueIsSound

\* What is committed was not known at the cutoffs that are answered for good.
LEMMA ValuesStand ==
  ASSUME ValuesAssumption, ValuesInv, [Values!Next]_valueVars
  PROVE  \A cutoff \in 0 .. Values!Horizon - 1 : Values!Report(cutoff)' = Values!Report(cutoff)
<1>1. ASSUME entries' = entries, reviews' = reviews, NEW cutoff
      PROVE  Values!Report(cutoff)' = Values!Report(cutoff)
  BY <1>1 DEF Values!Report, Values!VerdictsOn
<1>2. CASE Values!Commit
  <2>1. PICK p : p = pending
    OBVIOUS
  <2>2. p # None /\ p.known \in Nat /\ now \in Nat
    BY <1>2, <2>1, ValuesTypes DEF Values!Commit, ValuesInv, Extends
  <2>3. \/ entries' = entries \cup {p} /\ UNCHANGED reviews
        \/ reviews' = reviews \cup {p} /\ UNCHANGED entries
    BY <1>2, <2>1 DEF Values!Commit
  <2>4. ASSUME NEW cutoff \in 0 .. Values!Horizon - 1, NEW X
        PROVE  Values!LeavesAsOf(X \cup {p}, cutoff) = Values!LeavesAsOf(X, cutoff)
    <3>1. cutoff < p.known
      BY <2>1, <2>2 DEF Values!Horizon
    <3>2. {x \in X \cup {p} : x.known <= cutoff} = {x \in X : x.known <= cutoff}
      BY <2>2, <3>1
    <3> QED  BY <3>2 DEF Values!LeavesAsOf
  <2>5. ASSUME NEW cutoff \in 0 .. Values!Horizon - 1
        PROVE  Values!Report(cutoff)' = Values!Report(cutoff)
    <3>1. Values!LeavesAsOf(entries, cutoff)' = Values!LeavesAsOf(entries, cutoff)
      <4>1. Values!LeavesAsOf(entries', cutoff) = Values!LeavesAsOf(entries, cutoff)
        BY <2>3, <2>4
      <4> QED  BY <4>1 DEF Values!LeavesAsOf
    <3>2. Values!LeavesAsOf(reviews, cutoff)' = Values!LeavesAsOf(reviews, cutoff)
      <4>1. Values!LeavesAsOf(reviews', cutoff) = Values!LeavesAsOf(reviews, cutoff)
        BY <2>3, <2>4
      <4> QED  BY <4>1 DEF Values!LeavesAsOf
    <3>3. \A e : Values!VerdictsOn(e, cutoff)' = Values!VerdictsOn(e, cutoff)
      BY <3>2 DEF Values!VerdictsOn
    <3>4. \A e : Values!Label(e, Values!VerdictsOn(e, cutoff))'
                  = Values!Label(e, Values!VerdictsOn(e, cutoff))
      BY <3>3 DEF Values!Label
    <3> QED  BY <3>1, <3>3, <3>4 DEF Values!Report
  <2> QED  BY <2>5
<1>3. CASE ~Values!Commit
  <2>1. ASSUME NEW s, NEW ahead, Values!Execute(s, ahead)
        PROVE  entries' = entries /\ reviews' = reviews
    BY <2>1, Zenon DEF Values!Execute, Values!RecordValue, Values!VoidValue, Values!ReviewValue,
       Values!Begin
  <2>2. Values!RollBack \/ Values!Tick \/ UNCHANGED valueVars
        => entries' = entries /\ reviews' = reviews
    BY DEF Values!RollBack, Values!Tick, valueVars
  <2>3. entries' = entries /\ reviews' = reviews
    BY <1>3, <2>1, <2>2, Zenon DEF Values!Next
  <2> QED  BY <1>1, <2>3
<1> QED  BY <1>2, <1>3

-----------------------------------------------------------------------------
(* The family centre: what a gate is believed for was said by who may say  *)
(* it, and has an end.                                                     *)

Gates == Family!ToSet(Stages)

\* A stage that passed has an end, and what others judge was judged by others;
\* only what is exempt does not apply.
GateStands(gate, stage) ==
  /\ gate.stage = stage
  /\ gate.state \in {"PASS", "NOT_APPLICABLE"} => gate.expires # None
  /\ gate.state = "NOT_APPLICABLE" => stage \in NotApplicable
  /\ gate.state = "PASS" /\ stage \in Independent => gate.judge \notin {None, gate.author}

FamilyInv ==
  /\ Family!TypeOK
  /\ \A stage \in Gates : gates[stage] # None => GateStands(gates[stage], stage)

LEMMA StagesInOrder ==
  ASSUME FamilyAssumption
  PROVE  /\ \A stage \in Gates : Family!Before(stage) \subseteq Gates
         /\ "DATA_REALITY" \in Gates
<1>1. Stages \in Seq(Family!GateStages) /\ {"DISCOVER_MAP", "DATA_REALITY"} \subseteq Gates
  BY DEF FamilyAssumption, Family!StagesAreValid, Gates
<1>2. DOMAIN Stages = 1 .. Len(Stages) /\ Len(Stages) \in Nat
  BY <1>1
<1>3. ASSUME NEW stage \in Gates PROVE Family!Before(stage) \subseteq Gates
  <2>1. \E n \in DOMAIN Stages : Stages[n] = stage
    BY DEF Gates, Family!ToSet
  <2>2. Family!Position(stage) \in 1 .. Len(Stages)
    BY <2>1, <1>2 DEF Family!Position
  <2>3. \A n \in 1 .. Family!Position(stage) - 1 : n \in DOMAIN Stages
    BY <2>2, <1>2
  <2> QED BY <2>3 DEF Family!Before, Gates, Family!ToSet
<1> QED BY <1>1, <1>3

LEMMA RealityIsTyped ==
  ASSUME FamilyAssumption, Family!TypeOK, NEW at \in Nat
  PROVE  Family!CurrentReality(at) \in Family!Reality /\ Family!CurrentReality(at).snapshot = source.snapshot
<1>1. source.snapshot \in 0 .. MaxSnapshots
  BY DEF Family!TypeOK
<1>2. Family!CurrentReality(at).state \in {"READY", "STALE", "UNAVAILABLE", "BLOCKED"}
  BY DEF Family!CurrentReality
<1> QED BY <1>1, <1>2 DEF Family!CurrentReality, Family!Reality

LEMMA ReadyIsUp ==
  ASSUME FamilyAssumption, Family!TypeOK, NEW at \in Nat, Family!CurrentReality(at).state = "READY"
  PROVE  source.up /\ at - source.available <= Freshness /\ source.available <= at
<1>1. source.available \in Nat /\ Freshness \in Nat
  BY DEF Family!TypeOK, FamilyAssumption
<1> QED BY <1>1 DEF Family!CurrentReality

\* What a command shows to append a revision.
LEMMA FamilyOne ==
  ASSUME FamilyAssumption, FamilyInv, NEW revision \in Family!Revision,
         Family!AppendGate(revision), GateStands(revision, revision.stage)
  PROVE  FamilyInv'
<1>1. /\ version < FamilyVersion /\ version' = version + 1
      /\ gates' = [gates EXCEPT ![revision.stage] = revision]
      /\ time' = time /\ source' = source /\ promotions' = promotions
  BY DEF Family!AppendGate
<1>2. revision.stage \in Gates /\ gates \in [Gates -> Family!Revision \cup {None}]
  BY DEF Family!Revision, FamilyInv, Family!TypeOK, Gates
<1>3. gates' \in [Gates -> Family!Revision \cup {None}]
  BY <1>1, <1>2
<1>4. version' \in 1 .. FamilyVersion
  BY <1>1 DEF FamilyInv, Family!TypeOK, FamilyAssumption
<1>5. Family!TypeOK'
  BY <1>1, <1>3, <1>4 DEF FamilyInv, Family!TypeOK, Gates
<1>6. ASSUME NEW stage \in Gates, gates'[stage] # None PROVE GateStands(gates'[stage], stage)
  <2>1. CASE stage = revision.stage
    BY <2>1, <1>1, <1>2
  <2>2. CASE stage # revision.stage
    BY <2>2, <1>1, <1>2, <1>6 DEF FamilyInv
  <2> QED BY <2>1, <2>2
<1> QED BY <1>5, <1>6 DEF FamilyInv, GateStands

LEMMA FamilyInit ==
  ASSUME FamilyAssumption, Family!Init
  PROVE  FamilyInv
<1>1. time \in 0 .. FamilyClock /\ version \in 1 .. FamilyVersion /\ promotions \subseteq Family!Promotion
  BY DEF Family!Init, FamilyAssumption
<1>2. source \in [snapshot : 0 .. MaxSnapshots, available : 0 .. FamilyClock, up : BOOLEAN]
  BY DEF Family!Init, FamilyAssumption
<1>3. gates \in [Family!ToSet(Stages) -> Family!Revision \cup {None}]
      /\ \A stage \in Gates : gates[stage] = None
  BY DEF Family!Init, Gates
<1> QED BY <1>1, <1>2, <1>3 DEF FamilyInv, Family!TypeOK

\* Inputs are revisions of stages before, which are there when they are named.
LEMMA InputsAreTyped ==
  ASSUME FamilyAssumption, FamilyInv, NEW stage \in Gates, NEW at \in Nat, NEW claims \in BOOLEAN,
         claims => Family!PredecessorsReady(stage, at)
  PROVE  [p \in IF claims THEN Family!InputStages(stage) ELSE {} |-> gates[p].id]
           \in UNION {[S -> 2 .. FamilyVersion] : S \in SUBSET Gates}
<1> PICK named : named = IF claims THEN Family!InputStages(stage) ELSE {}
  OBVIOUS
<1>1. named \in SUBSET Gates
  BY StagesInOrder DEF Family!InputStages
<1>2. ASSUME NEW p \in named PROVE gates[p].id \in 2 .. FamilyVersion
  <2>1. p \in Family!Before(stage) /\ claims
    BY <1>2 DEF Family!InputStages
  <2>2. gates[p] # None
    BY <2>1 DEF Family!PredecessorsReady
  <2>3. gates[p] \in Family!Revision
    BY <2>2, <1>1 DEF FamilyInv, Family!TypeOK, Gates
  <2> QED BY <2>3 DEF Family!Revision
<1>3. [p \in named |-> gates[p].id] \in [named -> 2 .. FamilyVersion]
  BY <1>2
<1> QED BY <1>1, <1>3

LEMMA FamilyRecords ==
  ASSUME FamilyAssumption, FamilyInv, NEW s \in Subjects, NEW stage \in Gates,
         NEW state \in {"PENDING", "PASS", "FAIL", "NOT_APPLICABLE"}, NEW at \in Nat,
         Family!RecordEvidence(s, stage, state, at)
  PROVE  FamilyInv'
<1>1. PICK published_ \in 0 .. at, life \in Lifetimes :
        Family!AppendGate([id |-> version + 1, stage |-> stage, state |-> state, author |-> s, judge |-> None,
                reality |-> IF Family!AfterReality(stage) THEN Family!CurrentReality(at) ELSE None,
                published |-> published_, expires |-> published_ + life,
                inputs |-> [p \in IF state # "FAIL" THEN Family!InputStages(stage) ELSE {} |-> gates[p].id],
                snapshot |-> IF state # "FAIL" /\ Family!AfterReality(stage) THEN source.snapshot ELSE 0])
  BY DEF Family!RecordEvidence
<1> PICK inputs_ : inputs_ = [p \in IF state # "FAIL" THEN Family!InputStages(stage) ELSE {} |-> gates[p].id]
  OBVIOUS
<1> PICK reality_ : reality_ = IF Family!AfterReality(stage) THEN Family!CurrentReality(at) ELSE None
  OBVIOUS
<1> PICK snapshot_ : snapshot_ = IF state # "FAIL" /\ Family!AfterReality(stage) THEN source.snapshot ELSE 0
  OBVIOUS
<1> PICK revision : revision =
      [id |-> version + 1, stage |-> stage, state |-> state, author |-> s, judge |-> None,
       reality |-> reality_, published |-> published_, expires |-> published_ + life, inputs |-> inputs_, snapshot |-> snapshot_]
  OBVIOUS
<1>2. Family!AppendGate(revision)
  BY <1>1
<1>3. inputs_ \in UNION {[S -> 2 .. FamilyVersion] : S \in SUBSET Gates}
  <2>1. (state # "FAIL") \in BOOLEAN /\ (state # "FAIL" => Family!PredecessorsReady(stage, at))
    BY DEF Family!RecordEvidence
  <2> QED BY <2>1, InputsAreTyped
<1>4. reality_ \in Family!Reality \cup {None}
  BY RealityIsTyped DEF FamilyInv
<1>5. snapshot_ \in 0 .. MaxSnapshots
  BY DEF FamilyInv, Family!TypeOK, FamilyAssumption
<1>6. version + 1 \in 2 .. FamilyVersion
  BY <1>2 DEF Family!AppendGate, FamilyInv, Family!TypeOK, FamilyAssumption
<1>7. published_ \in Nat /\ published_ + life \in Nat
  BY DEF FamilyAssumption
<1>8. revision \in Family!Revision
  BY <1>3, <1>4, <1>5, <1>6, <1>7 DEF Family!Revision, Gates
<1>9. GateStands(revision, revision.stage)
  <2>1. /\ revision.stage = stage /\ revision.state = state /\ revision.expires = published_ + life
        /\ revision.expires # None
    BY <1>7 DEF FamilyAssumption
  <2>2. /\ state = "PASS" => stage \notin Independent
        /\ state = "NOT_APPLICABLE" => stage \in NotApplicable
    BY DEF Family!RecordEvidence, Family!Recordable
  <2> QED BY <2>1, <2>2 DEF GateStands
<1> QED BY <1>2, <1>8, <1>9, FamilyOne

LEMMA FamilyReality ==
  ASSUME FamilyAssumption, FamilyInv, NEW at \in Nat, Family!RecordReality(at)
  PROVE  FamilyInv'
<1> PICK reality_ : reality_ = Family!CurrentReality(at)
  OBVIOUS
<1> PICK ready : ready = (reality_.state = "READY")
  OBVIOUS
<1> PICK state : state = IF ready THEN "PASS" ELSE IF reality_.state = "STALE" THEN "STALE" ELSE "FAIL"
  OBVIOUS
<1> PICK expires : expires = IF ready THEN source.available + Freshness ELSE None
  OBVIOUS
<1> PICK revision : revision =
      [id |-> version + 1, stage |-> "DATA_REALITY", author |-> "O4", judge |-> None, reality |-> reality_,
       state |-> state, published |-> at, expires |-> expires, inputs |-> <<>>, snapshot |-> source.snapshot]
  OBVIOUS
<1>1. Family!AppendGate(revision)
  BY DEF Family!RecordReality
<1>2. source.snapshot \in 0 .. MaxSnapshots /\ source.available + Freshness \in Nat
  BY DEF FamilyInv, Family!TypeOK, FamilyAssumption
<1>3. reality_ \in Family!Reality
  BY RealityIsTyped DEF FamilyInv
<1>4. <<>> \in UNION {[S -> 2 .. FamilyVersion] : S \in SUBSET Gates}
  <2>1. <<>> \in [{} -> 2 .. FamilyVersion] /\ {} \in SUBSET Gates
    OBVIOUS
  <2> QED BY <2>1
<1>5. state \in {"PENDING", "PASS", "FAIL", "STALE", "NOT_APPLICABLE"}
      /\ state # "NOT_APPLICABLE" /\ (state = "PASS" => ready)
  OBVIOUS
<1>6. expires \in Nat \cup {None} /\ (ready => expires # None)
  BY <1>2 DEF FamilyAssumption
<1>7. version + 1 \in 2 .. FamilyVersion
  BY <1>1 DEF Family!AppendGate, FamilyInv, Family!TypeOK, FamilyAssumption
<1>8. revision \in Family!Revision
  BY <1>2, <1>3, <1>4, <1>5, <1>6, <1>7, StagesInOrder DEF Family!Revision, Gates
<1>9. GateStands(revision, revision.stage)
  <2>1. revision.stage = "DATA_REALITY" /\ revision.state = state /\ revision.expires = expires
    OBVIOUS
  <2>2. "DATA_REALITY" \notin Independent
    BY DEF FamilyAssumption, Family!StagesAreValid
  <2> QED BY <2>1, <2>2, <1>5, <1>6 DEF GateStands
<1> QED BY <1>1, <1>8, <1>9, FamilyOne

LEMMA FamilyAdjudicates ==
  ASSUME FamilyAssumption, FamilyInv, NEW s \in Subjects, NEW stage \in Gates,
         NEW decision \in {"PASS", "FAIL"}, NEW at \in Nat, Family!Adjudicate(s, stage, decision, at)
  PROVE  FamilyInv'
<1> PICK gate : gate = gates[stage]
  OBVIOUS
<1> PICK revision : revision =
      [gate EXCEPT !.id = version + 1, !.judge = s, !.state = decision, !.published = at]
  OBVIOUS
<1>1. Family!AppendGate(revision) /\ gate # None /\ Family!MayJudge(s, gate, at)
  BY DEF Family!Adjudicate
<1>2. gate \in Family!Revision /\ GateStands(gate, stage)
  BY <1>1 DEF FamilyInv, Family!TypeOK, Gates
<1>3. version + 1 \in 2 .. FamilyVersion
  BY <1>1 DEF Family!AppendGate, FamilyInv, Family!TypeOK, FamilyAssumption
<1>4. revision \in Family!Revision
  BY <1>2, <1>3 DEF Family!Revision
<1>5. /\ revision.stage = gate.stage /\ revision.state = decision /\ revision.judge = s
      /\ revision.author = gate.author /\ revision.expires = gate.expires
  BY <1>2 DEF Family!Revision
<1>6. gate.author # s /\ gate.expires # None /\ s # None /\ gate.stage = stage
  BY <1>1, <1>2 DEF Family!MayJudge, GateStands, FamilyAssumption
<1>7. GateStands(revision, revision.stage)
  BY <1>5, <1>6 DEF GateStands
<1> QED BY <1>1, <1>4, <1>7, FamilyOne

\* What is derived as good is good as it was recorded.
LEMMA DerivedStands ==
  ASSUME NEW stage, NEW at, Family!Derived(stage, at) \in {"PASS", "NOT_APPLICABLE"}
  PROVE  /\ gates[stage] # None /\ gates[stage].state = Family!Derived(stage, at)
         /\ ~(gates[stage].published > at) /\ ~Family!Expired(gates[stage], at)
         /\ stage = "DATA_REALITY" \/ Family!AfterReality(stage)
              => (gates[stage].published <= at => gates[stage].reality = Family!CurrentReality(at))
BY DEF Family!Derived

LEMMA FamilyPromotes ==
  ASSUME FamilyAssumption, FamilyInv, NEW at \in Nat, Family!Promote(at)
  PROVE  FamilyInv'
<1>1. /\ version < FamilyVersion /\ version' = version + 1
      /\ promotions' = promotions \cup {[revisions |-> Family!CurrentRevisions, reality |-> Family!CurrentReality(at),
                                         version |-> version']}
      /\ time' = time /\ source' = source /\ gates' = gates /\ Family!PromotionReady(at)
  BY DEF Family!Promote
<1>2. ASSUME NEW stage \in Gates PROVE gates[stage].id \in 2 .. FamilyVersion
  <2>1. Family!Derived(stage, at) \in {"PASS", "NOT_APPLICABLE"}
    BY <1>1 DEF Family!PromotionReady, Gates
  <2>2. gates[stage] \in Family!Revision
    BY <2>1, DerivedStands DEF FamilyInv, Family!TypeOK, Gates
  <2> QED BY <2>2 DEF Family!Revision
<1>3. Family!CurrentRevisions \in [Gates -> 2 .. FamilyVersion]
  BY <1>2 DEF Family!CurrentRevisions, Gates
<1>4. version' \in 2 .. FamilyVersion /\ version' \in 1 .. FamilyVersion
  BY <1>1 DEF FamilyInv, Family!TypeOK, FamilyAssumption
<1>5. promotions' \subseteq Family!Promotion
  BY <1>1, <1>3, <1>4, RealityIsTyped DEF FamilyInv, Family!TypeOK, Family!Promotion, Gates
<1>6. Family!TypeOK'
  BY <1>1, <1>4, <1>5 DEF FamilyInv, Family!TypeOK
<1> QED BY <1>1, <1>6 DEF FamilyInv, GateStands

LEMMA FamilyKeep ==
  ASSUME FamilyAssumption, FamilyInv, [Family!Next]_familyVars
  PROVE  FamilyInv'
<1>1. \A ahead \in FamilyAhead : time + ahead \in Nat
  BY DEF FamilyInv, Family!TypeOK, FamilyAssumption
<1>2. ASSUME Family!PublishSnapshot PROVE FamilyInv'
  <2>1. source' = [snapshot |-> source.snapshot + 1, available |-> time, up |-> TRUE]
        /\ source.snapshot < MaxSnapshots
        /\ time' = time /\ version' = version /\ gates' = gates /\ promotions' = promotions
    BY <1>2 DEF Family!PublishSnapshot
  <2>2. source.snapshot + 1 \in 0 .. MaxSnapshots /\ time \in 0 .. FamilyClock
    BY <2>1 DEF FamilyInv, Family!TypeOK, FamilyAssumption
  <2>3. source' \in [snapshot : 0 .. MaxSnapshots, available : 0 .. FamilyClock, up : BOOLEAN]
    BY <2>1, <2>2
  <2> QED BY <2>1, <2>3 DEF FamilyInv, Family!TypeOK, GateStands
<1>3. ASSUME Family!SwitchCapability PROVE FamilyInv'
  <2>1. source' = [source EXCEPT !.up = ~source.up]
        /\ time' = time /\ version' = version /\ gates' = gates /\ promotions' = promotions
    BY <1>3 DEF Family!SwitchCapability
  <2>2. source' \in [snapshot : 0 .. MaxSnapshots, available : 0 .. FamilyClock, up : BOOLEAN]
    BY <2>1 DEF FamilyInv, Family!TypeOK
  <2> QED BY <2>1, <2>2 DEF FamilyInv, Family!TypeOK, GateStands
<1>4. ASSUME Family!Tick PROVE FamilyInv'
  <2>1. time' \in 0 .. FamilyClock
        /\ source' = source /\ version' = version /\ gates' = gates /\ promotions' = promotions
    BY <1>4 DEF Family!Tick, FamilyInv, Family!TypeOK, FamilyAssumption
  <2> QED BY <2>1 DEF FamilyInv, Family!TypeOK, GateStands
<1>5. ASSUME UNCHANGED familyVars PROVE FamilyInv'
  <2>1. time' = time /\ source' = source /\ version' = version /\ gates' = gates /\ promotions' = promotions
    BY <1>5 DEF familyVars
  <2> QED BY <2>1 DEF FamilyInv, Family!TypeOK, GateStands
<1>6. ASSUME NEW ahead \in FamilyAhead, NEW s \in Subjects, NEW stage \in Gates,
             NEW state \in {"PENDING", "PASS", "FAIL", "NOT_APPLICABLE"},
             Family!RecordEvidence(s, stage, state, time + ahead)
      PROVE  FamilyInv'
  BY <1>1, <1>6, FamilyRecords
<1>7. ASSUME NEW ahead \in FamilyAhead, NEW s \in Subjects, NEW stage \in Gates,
             NEW decision \in {"PASS", "FAIL"}, Family!Adjudicate(s, stage, decision, time + ahead)
      PROVE  FamilyInv'
  BY <1>1, <1>7, FamilyAdjudicates
<1>8. ASSUME NEW ahead \in FamilyAhead, Family!RecordReality(time + ahead) PROVE FamilyInv'
  BY <1>1, <1>8, FamilyReality
<1>9. ASSUME NEW ahead \in FamilyAhead, Family!Promote(time + ahead) PROVE FamilyInv'
  BY <1>1, <1>9, FamilyPromotes
<1> QED BY <1>2, <1>3, <1>4, <1>5, <1>6, <1>7, <1>8, <1>9, Zenon DEF Family!Next, Gates

LEMMA FamilyImply ==
  ASSUME FamilyAssumption, FamilyInv
  PROVE  Family!TypeOK /\ Family!QualifiedIsEarned
<1> SUFFICES ASSUME NEW ahead \in FamilyAhead, NEW at, at = time + ahead, Family!Qualified(at)
             PROVE  /\ source.up /\ at - source.available <= Freshness
                    /\ \A stage \in Gates :
                         /\ gates[stage].state = "PASS" \/ Family!Exempt(gates[stage])
                         /\ gates[stage].published <= at /\ gates[stage].expires > at
                         /\ stage # "DISCOVER_MAP" => gates[stage].reality.snapshot = source.snapshot
                         /\ stage \in Independent => gates[stage].judge \notin {None, gates[stage].author}
                    /\ \E p \in promotions : p.version = version
  BY DEF FamilyInv, Family!QualifiedIsEarned, Gates
<1>1. at \in Nat /\ Family!PromotionReady(at)
  BY DEF FamilyInv, Family!TypeOK, FamilyAssumption, Family!Qualified
<1>2. source.up /\ at - source.available <= Freshness
  BY <1>1, ReadyIsUp DEF FamilyInv, Family!PromotionReady
<1>3. \E p \in promotions : p.version = version
  BY DEF Family!Qualified, Family!CurrentPromotion
<1>4. ASSUME NEW stage \in Gates
      PROVE  /\ gates[stage].state = "PASS" \/ Family!Exempt(gates[stage])
             /\ gates[stage].published <= at /\ gates[stage].expires > at
             /\ stage # "DISCOVER_MAP" => gates[stage].reality.snapshot = source.snapshot
             /\ stage \in Independent => gates[stage].judge \notin {None, gates[stage].author}
  <2> PICK gate : gate = gates[stage]
    OBVIOUS
  <2>1. /\ Family!Derived(stage, at) \in {"PASS", "NOT_APPLICABLE"}
        /\ Family!Derived(stage, at) = "NOT_APPLICABLE" => stage \in NotApplicable
    BY <1>1 DEF Family!PromotionReady, Gates
  <2>2. /\ gate # None /\ gate.state = Family!Derived(stage, at)
        /\ ~(gate.published > at) /\ ~Family!Expired(gate, at)
        /\ stage = "DATA_REALITY" \/ Family!AfterReality(stage)
             => (gate.published <= at => gate.reality = Family!CurrentReality(at))
    BY <2>1, DerivedStands
  <2>3. gate \in Family!Revision /\ GateStands(gate, stage)
    BY <2>2 DEF FamilyInv, Family!TypeOK, Gates
  <2>4. gate.published \in Nat /\ gate.expires \in Nat \cup {None}
    BY <2>3 DEF Family!Revision
  <2>5. gate.published <= at
    BY <2>2, <2>4, <1>1
  <2>6. gate.expires # None
    BY <2>1, <2>2, <2>3 DEF GateStands
  <2>7. gate.expires > at
    BY <2>2, <2>4, <2>6, <1>1 DEF Family!Expired
  <2>8. gate.state = "PASS" \/ Family!Exempt(gate)
    BY <2>1, <2>2, <2>3 DEF GateStands, Family!Exempt
  <2>9. stage # "DISCOVER_MAP" => gate.reality.snapshot = source.snapshot
    <3>1. stage # "DISCOVER_MAP" => stage = "DATA_REALITY" \/ Family!AfterReality(stage)
      BY DEF FamilyAssumption, Family!StagesAreValid, Gates
    <3> QED BY <3>1, <2>2, <2>5, <1>1, RealityIsTyped DEF FamilyInv
  <2>10. stage \in Independent => gate.judge \notin {None, gate.author}
    BY <2>1, <2>2, <2>3 DEF GateStands, FamilyAssumption, Family!StagesAreValid
  <2> QED BY <2>5, <2>7, <2>8, <2>9, <2>10
<1> QED BY <1>2, <1>3, <1>4

-----------------------------------------------------------------------------
(* Decision snapshots and the intents projected from them.                 *)

Moved == [command : Decisions!Commands \cup {"InitializeDecisionLoop"}, state : Decisions!State]

Triggers == DOMAIN Decisions!EventKind

\* A snapshot of the Episode at a version that it has, or had.
Taken(s) ==
  /\ s \in Decisions!Snapshot /\ s.version \in DOMAIN episode
  /\ s.seen = episode[s.version].state /\ s.cycle <= s.seen.cycles

\* The key of a committed event that made a snapshot's version.
KeyOf(key, s) ==
  /\ key \in Decisions!Key /\ key.cycle = s.cycle /\ key.event = s.version
  /\ episode[key.event].command \in Triggers
  /\ key.kind = Decisions!EventKind[episode[key.event].command]

\* What an engineer is doing.
Doing(w) ==
  \/ w = Decisions!Idle
  \/ w.pc = "insert" /\ w = [pc |-> "insert", snapshot |-> w.snapshot] /\ Taken(w.snapshot)
  \/ /\ w.pc = "intend" /\ w = [pc |-> "intend", snapshot |-> w.snapshot, key |-> w.key]
     /\ w.snapshot \in snapshots /\ KeyOf(w.key, w.snapshot)

DecisionsInv ==
  /\ episode \in Seq(Moved) /\ Len(episode) \in 1 .. EpisodeVersion
  /\ \A v \in DOMAIN episode : episode[v].state.cycles <= v
  /\ \A s \in snapshots : Taken(s)
  /\ \A i \in intents : i \in Decisions!Intent /\ i.snapshot \in snapshots /\ KeyOf(i.key, i.snapshot)
  /\ \A i, j \in intents : i.key = j.key => i = j
  /\ told \subseteq intents /\ directory \subseteq Selectors
  /\ work \in [Engineers -> {work[e] : e \in Engineers}] /\ \A e \in Engineers : Doing(work[e])

LEMMA DecisionsInit == ASSUME DecisionsAssumption, Decisions!Init PROVE DecisionsInv
<1> DEFINE first == [command |-> "InitializeDecisionLoop", state |-> [cycles |-> 1, open |-> TRUE]]
<1>1. first \in Moved
  BY DEF DecisionsAssumption, Moved, Decisions!State
<1>2. episode = <<first>> /\ first.state.cycles = 1
  BY DEF Decisions!Init
<1>3. episode \in Seq(Moved) /\ Len(episode) = 1 /\ DOMAIN episode = {1} /\ episode[1] = first
  BY <1>1, <1>2
<1>4. 1 \in 1 .. EpisodeVersion
  BY DEF DecisionsAssumption
<1> QED  BY <1>2, <1>3, <1>4 DEF Decisions!Init, DecisionsInv, Doing

\* The Episode goes on, and what was said of a version stays said of it.
LEMMA DecisionsMove ==
  ASSUME DecisionsAssumption, DecisionsInv, NEW c \in Decisions!Commands, Decisions!Move(c)
  PROVE  DecisionsInv'
<1> DEFINE n == Len(episode)
           now0 == episode[n].state
           next == [command |-> c, state |-> Decisions!After(c, now0)]
<1>1. /\ n \in Nat /\ n >= 1 /\ n < EpisodeVersion /\ EpisodeVersion \in Nat
      /\ DOMAIN episode = 1 .. n /\ episode \in Seq(Moved)
  BY DEF DecisionsInv, Decisions!Move, Decisions!Version, DecisionsAssumption
<1>2. episode[n] \in Moved /\ now0.cycles <= n
  BY <1>1 DEF DecisionsInv
<1>3. now0 \in Decisions!State /\ now0.cycles \in 1 .. EpisodeVersion /\ now0.open \in BOOLEAN
  BY <1>2 DEF Moved, Decisions!State
<1>4. Decisions!After(c, now0) \in Decisions!State /\ Decisions!After(c, now0).cycles <= n + 1
  <2>1. [now0 EXCEPT !.open = FALSE] \in Decisions!State /\ [now0 EXCEPT !.open = FALSE].cycles = now0.cycles
    BY <1>3 DEF Decisions!State
  <2>2. /\ [cycles |-> now0.cycles + 1, open |-> TRUE] \in Decisions!State
        /\ [cycles |-> now0.cycles + 1, open |-> TRUE].cycles = now0.cycles + 1
    BY <1>1, <1>2, <1>3 DEF Decisions!State
  <2> HIDE DEF now0, n
  <2>3. now0.cycles <= n + 1 /\ now0.cycles + 1 <= n + 1
    BY <1>1, <1>2, <1>3
  <2>4. CASE c = "CloseEpisode"
    BY <2>1, <2>3, <2>4 DEF Decisions!After
  <2>5. CASE c = "ReopenEpisode"
    BY <2>2, <2>3, <2>5 DEF Decisions!After
  <2>6. CASE c \notin {"CloseEpisode", "ReopenEpisode"}
    BY <1>3, <2>3, <2>6 DEF Decisions!After
  <2> QED  BY <2>4, <2>5, <2>6
<1>5. next \in Moved /\ next.state = Decisions!After(c, now0)
  BY <1>4 DEF Moved
<1>6. episode' = Append(episode, next) /\ UNCHANGED <<snapshots, intents, directory, work, told>>
  BY DEF Decisions!Move, Decisions!Version
<1> HIDE DEF next, now0
<1>7. /\ episode' \in Seq(Moved) /\ Len(episode') = n + 1 /\ DOMAIN episode' = 1 .. (n + 1)
      /\ \A v \in 1 .. n : episode'[v] = episode[v]
      /\ episode'[n + 1] = next
  BY <1>1, <1>5, <1>6, AppendProperties
<1>8. \A s : Taken(s) => Taken(s)'
  BY <1>1, <1>7 DEF Taken
<1>9. \A key, s : Taken(s) /\ KeyOf(key, s) => KeyOf(key, s)'
  BY <1>1, <1>7 DEF Taken, KeyOf
<1>10. \A v \in DOMAIN episode' : episode'[v].state.cycles <= v
  <2> TAKE v \in DOMAIN episode'
  <2>1. CASE v \in 1 .. n
    BY <1>1, <1>7, <2>1 DEF DecisionsInv
  <2>2. CASE v = n + 1
    BY <1>4, <1>5, <1>7, <2>2
  <2> QED  BY <1>1, <1>7, <2>1, <2>2
<1>11. \A e \in Engineers : Doing(work[e])'
  BY <1>6, <1>8, <1>9 DEF DecisionsInv, Doing
<1>12. Len(episode') \in 1 .. EpisodeVersion
  BY <1>1, <1>7
<1> QED  BY <1>6, <1>7, <1>8, <1>9, <1>10, <1>11, <1>12 DEF DecisionsInv

\* What is done for one engineer keeps what is known of the others.
LEMMA DecisionsOne ==
  ASSUME DecisionsInv, NEW e \in Engineers, NEW w, work' = [work EXCEPT ![e] = w],
         episode' = episode, snapshots \subseteq snapshots',
         \A s \in snapshots' : Taken(s), Doing(w)',
         \A i \in intents' : i \in Decisions!Intent /\ i.snapshot \in snapshots' /\ KeyOf(i.key, i.snapshot),
         \A i, j \in intents' : i.key = j.key => i = j,
         told' \subseteq intents', directory' \subseteq Selectors
  PROVE  DecisionsInv'
<1>1. \A s : Taken(s) => Taken(s)'
  BY DEF Taken
<1>2. \A key, s : KeyOf(key, s) => KeyOf(key, s)'
  BY DEF KeyOf
<1>3. \A f \in Engineers : Doing(work[f])'
  <2> TAKE f \in Engineers
  <2>1. CASE f = e
    <3>1. work'[f] = w
      BY <2>1 DEF DecisionsInv
    <3> QED  BY <3>1 DEF Doing
  <2>2. CASE f # e
    <3>1. work'[f] = work[f] /\ Doing(work[f])
      BY <2>2 DEF DecisionsInv
    <3> QED  BY <1>1, <1>2, <3>1 DEF Doing
  <2> QED  BY <2>1, <2>2
<1>4. work' \in [Engineers -> {work'[f] : f \in Engineers}]
  BY DEF DecisionsInv
<1> QED  BY <1>1, <1>2, <1>3, <1>4 DEF DecisionsInv

LEMMA DecisionsRead ==
  ASSUME DecisionsAssumption, DecisionsInv, NEW e \in Engineers,
         NEW v \in 1 .. EpisodeVersion, NEW c \in 1 .. EpisodeVersion, NEW t \in Texts,
         Decisions!ReadWorkflow(e, v, c, t)
  PROVE  DecisionsInv'
<1> PICK s : s = [version |-> v, cycle |-> c, seen |-> episode[v].state, text |-> t]
  OBVIOUS
<1> PICK w : w = [pc |-> "insert", snapshot |-> s]
  OBVIOUS
<1>1. v = Len(episode) /\ v \in DOMAIN episode /\ c <= episode[v].state.cycles
  BY DEF Decisions!ReadWorkflow, Decisions!Version, DecisionsInv
<1>2. episode[v].state \in Decisions!State
  <2>1. episode[v] \in Moved
    BY <1>1 DEF DecisionsInv
  <2> QED  BY <2>1 DEF Moved
<1>3. Taken(s)
  BY <1>1, <1>2 DEF Taken, Decisions!Snapshot
<1>4. work' = [work EXCEPT ![e] = w] /\ UNCHANGED <<episode, snapshots, intents, directory, told>>
  BY <1>1 DEF Decisions!ReadWorkflow, Decisions!Begin, Decisions!Version
<1>5. w.pc = "insert" /\ w.snapshot = s
  OBVIOUS
<1>6. Doing(w)'
  BY <1>3, <1>4, <1>5 DEF Doing, Taken
<1> QED  BY <1>4, <1>6, DecisionsOne DEF DecisionsInv

LEMMA DecisionsInsert ==
  ASSUME DecisionsAssumption, DecisionsInv, NEW e \in Engineers, Decisions!InsertSnapshot(e)
  PROVE  DecisionsInv'
<1>1. /\ work[e].pc = "insert" /\ snapshots' = snapshots \cup {work[e].snapshot}
      /\ work' = [work EXCEPT ![e] = Decisions!Idle] /\ UNCHANGED <<episode, intents, directory, told>>
  BY DEF Decisions!InsertSnapshot, Decisions!Begin
<1>2. Taken(work[e].snapshot)
  BY <1>1 DEF DecisionsInv, Doing, Decisions!Idle
<1>3. Doing(Decisions!Idle)'
  BY DEF Doing
<1> QED  BY <1>1, <1>2, <1>3, DecisionsOne DEF DecisionsInv

LEMMA DecisionsDerive ==
  ASSUME DecisionsAssumption, DecisionsInv, NEW e \in Engineers, NEW s \in snapshots,
         NEW v \in 1 .. EpisodeVersion, NEW n \in 1 .. EpisodeVersion, NEW r \in Selectors,
         Decisions!Derive(e, s, v, n, r)
  PROVE  DecisionsInv'
<1> PICK kind : kind = Decisions!EventKind[episode[n].command]
  OBVIOUS
<1> PICK key : key = [cycle |-> s.cycle, kind |-> kind, event |-> n, selector |-> r]
  OBVIOUS
<1> PICK w : w = [pc |-> "intend", snapshot |-> s, key |-> key]
  OBVIOUS
<1>1. n = s.version /\ episode[n].command \in Triggers
  BY DEF Decisions!Derive, Decisions!BindsSnapshot, Triggers
<1>2. Taken(s) /\ s.cycle \in 1 .. EpisodeVersion
  BY DEF DecisionsInv, Taken, Decisions!Snapshot
<1>3. kind \in {Decisions!EventKind[c] : c \in DOMAIN Decisions!EventKind}
  BY <1>1 DEF Triggers
<1>4. work' = [work EXCEPT ![e] = w] /\ UNCHANGED <<episode, snapshots, intents, directory, told>>
  BY DEF Decisions!Derive, Decisions!Begin
<1>6. key \in Decisions!Key
  BY <1>2, <1>3 DEF Decisions!Key
<1>7. KeyOf(key, s)
  BY <1>1, <1>6 DEF KeyOf
<1>8. w.pc = "intend" /\ w.snapshot = s /\ w.key = key
  OBVIOUS
<1>9. Doing(w)'
  BY <1>4, <1>7, <1>8 DEF Doing, KeyOf
<1> QED  BY <1>4, <1>9, DecisionsOne DEF DecisionsInv

LEMMA DecisionsStore ==
  ASSUME DecisionsAssumption, DecisionsInv, NEW e \in Engineers, Decisions!StoreIntent(e)
  PROVE  DecisionsInv'
<1> PICK w : w = work[e]
  OBVIOUS
<1> PICK i0 : i0 = [key |-> w.key, snapshot |-> w.snapshot]
  OBVIOUS
<1>1. /\ w.pc = "intend" /\ work' = [work EXCEPT ![e] = Decisions!Idle]
      /\ UNCHANGED <<episode, snapshots, directory>>
  BY DEF Decisions!StoreIntent, Decisions!Begin
<1>2. w.snapshot \in snapshots /\ KeyOf(w.key, w.snapshot)
  BY <1>1 DEF DecisionsInv, Doing, Decisions!Idle
<1>3. i0 \in Decisions!Intent /\ i0.snapshot = w.snapshot /\ i0.key = w.key
  BY <1>2 DEF Decisions!Intent, KeyOf, DecisionsInv, Taken
<1>4. PICK i \in intents' : told' = told \cup {i}
  BY DEF Decisions!StoreIntent
<1>5. \/ intents' = intents
      \/ intents' = intents \cup {i0} /\ \A j \in intents : j.key # w.key
  BY DEF Decisions!StoreIntent, Decisions!HasKey
<1>6. intents \subseteq intents' /\ told' \subseteq intents'
  BY <1>4, <1>5 DEF DecisionsInv
<1>7. \A j \in intents' : j \in Decisions!Intent /\ j.snapshot \in snapshots' /\ KeyOf(j.key, j.snapshot)
  BY <1>1, <1>2, <1>3, <1>5 DEF DecisionsInv
<1>8. \A j, k \in intents' : j.key = k.key => j = k
  BY <1>3, <1>5 DEF DecisionsInv
<1>9. Doing(Decisions!Idle)'
  BY DEF Doing
<1>10. \A s \in snapshots' : Taken(s)
  BY <1>1 DEF DecisionsInv
<1> QED  BY <1>1, <1>6, <1>7, <1>8, <1>9, <1>10, DecisionsOne DEF DecisionsInv

LEMMA DecisionsStep == ASSUME DecisionsAssumption, DecisionsInv, Decisions!Next PROVE DecisionsInv'
<1>1. ASSUME NEW e \in Engineers, Decisions!ConflictSnapshot(e) \/ Decisions!Abandon(e) PROVE DecisionsInv'
  <2>1. work' = [work EXCEPT ![e] = Decisions!Idle]
        /\ UNCHANGED <<episode, snapshots, intents, directory, told>>
    BY <1>1 DEF Decisions!ConflictSnapshot, Decisions!Abandon, Decisions!Begin
  <2>2. Doing(Decisions!Idle)'
    BY DEF Doing
  <2> QED  BY <2>1, <2>2, DecisionsOne DEF DecisionsInv
<1>2. ASSUME NEW r \in Selectors, Decisions!ChangeDirectory(r) PROVE DecisionsInv'
  <2>1. directory' \subseteq Selectors /\ UNCHANGED <<episode, snapshots, intents, work, told>>
    BY <1>2 DEF Decisions!ChangeDirectory, DecisionsInv
  <2> QED  BY <2>1 DEF DecisionsInv, Doing, Taken, KeyOf
<1> QED  BY <1>1, <1>2, DecisionsMove, DecisionsRead, DecisionsInsert, DecisionsDerive, DecisionsStore
         DEF Decisions!Next

LEMMA DecisionsKeep == ASSUME DecisionsAssumption, DecisionsInv, [Decisions!Next]_decisionVars PROVE DecisionsInv'
<1>1. CASE UNCHANGED decisionVars
  BY <1>1 DEF decisionVars, DecisionsInv, Doing, Taken, KeyOf
<1> QED  BY <1>1, DecisionsStep

LEMMA DecisionsImply == ASSUME DecisionsInv PROVE Decisions!DecisionsAreTrue
<1>1. Decisions!TypeOK
  BY DEF DecisionsInv, Taken, Decisions!TypeOK, Decisions!Version
<1>2. Decisions!SnapshotsAreTrue
  BY DEF DecisionsInv, Taken, Decisions!SnapshotsAreTrue
<1>3. Decisions!IntentsAreEarned
  BY DEF DecisionsInv, KeyOf, Decisions!IntentsAreEarned
<1> QED  BY <1>1, <1>2, <1>3 DEF Decisions!DecisionsAreTrue

\* What becomes a snapshot is of the version that the Episode has then.
LEMMA DecisionsFresh ==
  ASSUME DecisionsInv, [Decisions!Next]_decisionVars
  PROVE  /\ snapshots \subseteq snapshots' /\ intents \subseteq intents'
         /\ \A s \in snapshots' \ snapshots : s.version = Len(episode')
<1>1. ASSUME NEW e \in Engineers, Decisions!InsertSnapshot(e)
      PROVE  /\ snapshots' = snapshots \cup {work[e].snapshot} /\ intents' = intents
             /\ work[e].snapshot.version = Len(episode')
  BY <1>1 DEF Decisions!InsertSnapshot, Decisions!SameVersion, Decisions!Version
<1>2. ASSUME NEW e \in Engineers, Decisions!StoreIntent(e)
      PROVE  snapshots' = snapshots /\ intents \subseteq intents'
  BY <1>2 DEF Decisions!StoreIntent
<1>3. CASE Decisions!Next
  BY <1>1, <1>2, <1>3 DEF Decisions!Next, Decisions!Move, Decisions!ReadWorkflow,
     Decisions!ConflictSnapshot, Decisions!Derive, Decisions!Abandon, Decisions!ChangeDirectory
<1>4. CASE UNCHANGED decisionVars
  BY <1>4 DEF decisionVars
<1> QED  BY <1>3, <1>4

-----------------------------------------------------------------------------
(* Backups and rehearsals: everything that is read of the database is of   *)
(* one of its instants, and its rows never go back.                        *)

Past(rows) == \E i \in DOMAIN database : rows = database[i]
Listed(tables) == \E i \in DOMAIN database : tables = Recovery!Inventory(database[i])

DatabaseInv ==
  /\ database \in Seq(Recovery!Database) /\ Len(database) \in 1 .. MaxCommits + 1
  /\ \A i \in DOMAIN database, r \in Rows : database[i][r] < i
  /\ \A i, j \in DOMAIN database, r \in Rows : i <= j => database[i][r] <= database[j][r]
  /\ store \in [Blobs -> Recovery!Files]
  /\ release \in 0 .. 1

\* A bundle has its dump before its manifest.
Bundled(u) ==
  /\ u \in [dump : Recovery!Archive \cup {None}, files : [Blobs -> Recovery!Files],
            manifest : Recovery!Manifest \cup {None}]
  /\ u.dump # None => Past(u.dump.rows)
  /\ u.manifest # None => Listed(u.manifest.tables) /\ u.dump # None

\* What a backup has read.
Backs(k) ==
  /\ k.pc \in {"idle", "failed", "opened", "done", "read", "copied", "dumping", "dumped", "hashed"}
  /\ k.pc \in {"read", "copied", "dumping", "dumped", "hashed"}
     => Past(k.rows) /\ k.release \in 0 .. 1
  /\ k.pc \in {"read", "copied", "dumping", "dumped"}
     => k = [pc |-> k.pc, rows |-> k.rows, release |-> k.release]
  /\ k.pc = "hashed" => k.dump \in Recovery!Archive
  /\ k.pc \in {"dumping", "dumped", "hashed"} => bundle.dump # None

BundleInv ==
  /\ Bundled(bundle)
  /\ DOMAIN backup = Backups /\ backup = [b \in Backups |-> backup[b]]
  /\ \A b \in Backups : Backs(backup[b])

\* A process that has made the target is alone with it.
Owns(r) == rehearsal[r].pc \in {"created", "restored", "copied", "VERIFIED"}
Rehearses(k) ==
  /\ k \in [pc : {"begun", "claiming", "created", "restored", "copied", "VERIFIED", "failed"},
            manifest : Recovery!Manifest]
  /\ Listed(k.manifest.tables)

TargetInv ==
  /\ target \in [exists : BOOLEAN, rows : Recovery!Database \cup {None},
                 files : [Blobs -> Recovery!Files]]
  /\ DOMAIN rehearsal = Rehearsals /\ rehearsal = [r \in Rehearsals |-> rehearsal[r]]
  /\ \A r \in Rehearsals :
       rehearsal[r] = Recovery!Idle \/ (Rehearses(rehearsal[r]) /\ bundle.dump # None)
  /\ \A q, r \in Rehearsals : Owns(q) /\ Owns(r) => q = r
  /\ \A r \in Rehearsals :
       /\ Owns(r) => target.rows # None
       /\ rehearsal[r].pc \in {"restored", "copied", "VERIFIED"} => Past(target.rows)
       /\ rehearsal[r].pc = "VERIFIED" =>
            /\ Recovery!Inventory(target.rows) = rehearsal[r].manifest.tables
            /\ \A x \in Recovery!Catalogued(rehearsal[r].manifest.tables) : target.files[x] = "sound"

\* A row was not less when it was seen than when the review began.
ReviewInv ==
  \/ review = Recovery!Idle
  \/ /\ review.pc = "reading"
     /\ review = [pc |-> review.pc, kind |-> review.kind, start |-> review.start,
                  tables |-> review.tables, seen |-> review.seen]
     /\ review.start \in DOMAIN database /\ DOMAIN review.tables = Critical
     /\ review.tables = [r \in Critical |-> review.tables[r]]
     /\ \A r \in Critical :
          review.tables[r] \in Nat /\ review.tables[r] <= database[review.start][r]
     /\ DOMAIN review.seen \subseteq Critical
     /\ \A r \in DOMAIN review.seen :
          /\ review.seen[r] \in Nat /\ database[review.start][r] <= review.seen[r]
          /\ review.seen[r] <= Recovery!Now[r]

RecoveryInv == DatabaseInv /\ BundleInv /\ TargetInv /\ ReviewInv

LEMMA RecoveryNow ==
  ASSUME RecoveryAssumption, DatabaseInv
  PROVE  /\ Len(database) \in DOMAIN database /\ Recovery!Now \in Recovery!Database
         /\ Recovery!Now = database[Len(database)]
         /\ \A i \in DOMAIN database : database[i] \in Recovery!Database
         /\ \A i \in DOMAIN database, r \in Rows :
              database[i][r] \in Nat /\ database[i][r] <= Recovery!Now[r] /\ Recovery!Now[r] \in Nat
<1>1. DOMAIN database = 1 .. Len(database) /\ Len(database) \in Nat
  BY DEF DatabaseInv
<1>2. \A i \in DOMAIN database : database[i] \in Recovery!Database
  BY <1>1 DEF DatabaseInv
<1>3. Len(database) \in DOMAIN database
  BY <1>1 DEF DatabaseInv
<1>4. \A i \in DOMAIN database, r \in Rows : database[i][r] \in Nat
  BY <1>2 DEF Recovery!Database, RecoveryAssumption
<1>5. \A i \in DOMAIN database, r \in Rows : database[i][r] <= database[Len(database)][r]
  BY <1>1, <1>3 DEF DatabaseInv
<1> QED  BY <1>2, <1>3, <1>4, <1>5 DEF Recovery!Now

LEMMA RecoveryInit == ASSUME RecoveryAssumption, Recovery!Init PROVE RecoveryInv
<1>1. PICK zero : zero = [r \in Rows |-> 0]
  OBVIOUS
<1>2. zero \in Recovery!Database /\ database = <<zero>> /\ \A r \in Rows : zero[r] = 0
  BY <1>1 DEF Recovery!Init, Recovery!Database, RecoveryAssumption
<1>3. Recovery!NoFiles \in [Blobs -> Recovery!Files]
  BY DEF Recovery!NoFiles, Recovery!Files
<1>4. DatabaseInv
  BY <1>2, <1>3 DEF DatabaseInv, Recovery!Init, RecoveryAssumption
<1>5. BundleInv
  BY <1>3 DEF BundleInv, Bundled, Backs, Recovery!Init, Recovery!Idle
<1>6. TargetInv
  BY <1>3 DEF TargetInv, Owns, Recovery!Init, Recovery!Idle
<1>7. ReviewInv
  BY DEF ReviewInv, Recovery!Init
<1> QED  BY <1>4, <1>5, <1>6, <1>7 DEF RecoveryInv

\* The database only grows.
LEMMA DatabaseKeep ==
  ASSUME RecoveryAssumption, DatabaseInv, [Recovery!Next]_backupVars
  PROVE  /\ DatabaseInv'
         /\ \A i \in DOMAIN database : i \in DOMAIN database' /\ database'[i] = database[i]
         /\ \A r \in Rows : Recovery!Now[r] <= (Recovery!Now')[r]
<1>1. CASE UNCHANGED <<database, store, release>>
  BY <1>1, RecoveryNow DEF DatabaseInv, Recovery!Now
<1>2. CASE Recovery!Commit
  <2>1. PICK rows \in SUBSET Rows :
          /\ database' = Append(database, [r \in Rows |-> IF r \in rows THEN Recovery!Now[r] + 1
                                                          ELSE Recovery!Now[r]])
          /\ store' = [x \in Blobs |-> IF x \in rows THEN "sound" ELSE store[x]]
    BY <1>2 DEF Recovery!Commit
  <2>2. Len(database) <= MaxCommits /\ release' = release
    BY <1>2 DEF Recovery!Commit
  <2>3. PICK new : new = [r \in Rows |-> IF r \in rows THEN Recovery!Now[r] + 1 ELSE Recovery!Now[r]]
    OBVIOUS
  <2>4. PICK n \in Nat : n = Len(database) /\ DOMAIN database = 1 .. n /\ n >= 1
    BY DEF DatabaseInv
  <2>5. \A r \in Rows : Recovery!Now[r] \in Nat /\ Recovery!Now[r] < n
    BY <2>4, RecoveryNow DEF DatabaseInv
  <2>6. \A r \in Rows : new[r] \in Nat /\ Recovery!Now[r] <= new[r] /\ new[r] <= n
    BY <2>3, <2>5
  <2>7. new \in Recovery!Database
    BY <2>2, <2>3, <2>4, <2>6 DEF Recovery!Database, RecoveryAssumption
  <2>8. database' = Append(database, new) /\ database' \in Seq(Recovery!Database)
        /\ Len(database') = n + 1
    BY <2>1, <2>3, <2>4, <2>7 DEF DatabaseInv
  <2>9. DOMAIN database' = 1 .. n + 1 /\ database'[n + 1] = new
        /\ \A i \in 1 .. n : database'[i] = database[i]
    BY <2>4, <2>8 DEF DatabaseInv
  <2>10. \A i \in 1 .. n + 1 : i \in 1 .. n \/ i = n + 1
    BY <2>4
  <2>11. \A i \in DOMAIN database', r \in Rows : database'[i][r] < i
    BY <2>4, <2>6, <2>9, <2>10 DEF DatabaseInv
  <2>12. \A i, j \in DOMAIN database', r \in Rows : i <= j => database'[i][r] <= database'[j][r]
    <3> SUFFICES ASSUME NEW i \in DOMAIN database', NEW j \in DOMAIN database', NEW r \in Rows, i <= j
                 PROVE  database'[i][r] <= database'[j][r]
      OBVIOUS
    <3>1. CASE j \in 1 .. n
      BY <2>4, <2>9, <2>10, <3>1 DEF DatabaseInv
    <3>2. CASE j = n + 1 /\ i \in 1 .. n
      <4>1. database[i][r] \in Nat /\ database[i][r] <= Recovery!Now[r]
        BY <2>4, <3>2, RecoveryNow
      <4> QED  BY <2>5, <2>6, <2>9, <3>2, <4>1
    <3>3. CASE j = n + 1 /\ i = n + 1
      BY <2>6, <2>9, <3>3
    <3> QED  BY <2>9, <2>10, <3>1, <3>2, <3>3
  <2>13. store' \in [Blobs -> Recovery!Files]
    BY <2>1 DEF DatabaseInv, Recovery!Files
  <2>14. DatabaseInv'
    BY <2>2, <2>4, <2>8, <2>11, <2>12, <2>13 DEF DatabaseInv, RecoveryAssumption
  <2>15. Recovery!Now' = new
    BY <2>8, <2>9 DEF Recovery!Now
  <2> QED  BY <2>4, <2>6, <2>9, <2>14, <2>15
<1>3. CASE Recovery!Upgrade
  BY <1>3, RecoveryNow DEF Recovery!Upgrade, DatabaseInv, Recovery!Now
<1>4. CASE Recovery!Damage
  <2>1. UNCHANGED <<database, release>> /\ store' \in [Blobs -> Recovery!Files]
    BY <1>4 DEF Recovery!Damage, DatabaseInv, Recovery!Files
  <2> QED  BY <2>1, RecoveryNow DEF DatabaseInv, Recovery!Now
<1> QED  BY <1>1, <1>2, <1>3, <1>4 DEF Recovery!Next, Recovery!BackupStep,
         Recovery!RehearsalStep, Recovery!ReviewStep, backupVars

\* What was read of the database stays read.
LEMMA PastStays ==
  ASSUME \A i \in DOMAIN database : i \in DOMAIN database' /\ database'[i] = database[i]
  PROVE  /\ \A rows : Past(rows) => Past(rows)'
         /\ \A tables : Listed(tables) => Listed(tables)'
<1>1. ASSUME NEW rows, Past(rows)  PROVE Past(rows)'
  BY <1>1 DEF Past
<1>2. ASSUME NEW tables, Listed(tables)  PROVE Listed(tables)'
  <2>1. PICK i \in DOMAIN database : tables = Recovery!Inventory(database[i])
    BY <1>2 DEF Listed
  <2>2. tables = Recovery!Inventory(database'[i]) /\ i \in DOMAIN database'
    BY <2>1
  <2> QED  BY <2>2 DEF Listed
<1> QED  BY <1>1, <1>2

LEMMA BundledStays ==
  ASSUME NEW u, Bundled(u),
         \A rows : Past(rows) => Past(rows)', \A tables : Listed(tables) => Listed(tables)'
  PROVE  Bundled(u)'
BY DEF Bundled

\* The dump of a bundle may be another, but it does not vanish.
BundleStep == BundleInv' /\ (bundle.dump # None => bundle'.dump # None)

\* A step of the backup b.
LEMMA BundleOne ==
  ASSUME BundleInv, NEW b \in Backups, NEW after, NEW u,
         \A rows : Past(rows) => Past(rows)', \A tables : Listed(tables) => Listed(tables)',
         backup' = [backup EXCEPT ![b] = after], bundle' = u, Bundled(u), Backs(after)',
         bundle.dump # None => u.dump # None
  PROVE  BundleStep
<1>1. ASSUME NEW c \in Backups  PROVE Backs(backup[c])'
  <2>1. CASE c = b
    <3>1. backup'[c] = after
      BY <2>1 DEF BundleInv
    <3> QED  BY <3>1 DEF Backs
  <2>2. CASE c # b
    <3>1. PICK k : k = backup[c]
      OBVIOUS
    <3>2. Backs(k) /\ backup'[c] = k
      BY <2>2, <3>1 DEF BundleInv
    <3>3. Backs(k)'
      BY <3>2 DEF Backs
    <3> QED  BY <3>2, <3>3 DEF Backs
  <2> QED  BY <2>1, <2>2
<1>2. DOMAIN backup' = Backups /\ backup' = [c \in Backups |-> backup'[c]]
  BY DEF BundleInv
<1>3. Bundled(bundle)'
  <2>1. Bundled(u)'
    BY BundledStays
  <2> QED  BY <2>1 DEF Bundled
<1> QED  BY <1>1, <1>2, <1>3 DEF BundleInv, BundleStep

LEMMA BundleFiles ==
  ASSUME NEW u, Bundled(u), NEW files \in [Blobs -> Recovery!Files], NEW v,
         v = [u EXCEPT !.files = files]
  PROVE  Bundled(v) /\ v.dump = u.dump /\ v.files = files /\ v.manifest = u.manifest
<1>1. v.dump = u.dump /\ v.files = files /\ v.manifest = u.manifest
  BY DEF Bundled
<1>2. v \in [dump : Recovery!Archive \cup {None}, files : [Blobs -> Recovery!Files],
             manifest : Recovery!Manifest \cup {None}]
  BY DEF Bundled
<1> QED  BY <1>1, <1>2 DEF Bundled

LEMMA BundleDump ==
  ASSUME NEW u, Bundled(u), NEW dump \in Recovery!Archive, dump # None, Past(dump.rows), NEW v,
         v = [u EXCEPT !.dump = dump]
  PROVE  Bundled(v) /\ v.dump = dump
<1>1. v.dump = dump /\ v.files = u.files /\ v.manifest = u.manifest
  BY DEF Bundled
<1>2. v \in [dump : Recovery!Archive \cup {None}, files : [Blobs -> Recovery!Files],
             manifest : Recovery!Manifest \cup {None}]
  BY DEF Bundled
<1> QED  BY <1>1, <1>2 DEF Bundled

LEMMA BundleManifest ==
  ASSUME NEW u, Bundled(u), u.dump # None, NEW manifest \in Recovery!Manifest,
         Listed(manifest.tables), NEW v, v = [u EXCEPT !.manifest = manifest]
  PROVE  Bundled(v) /\ v.dump = u.dump
<1>1. v.dump = u.dump /\ v.files = u.files /\ v.manifest = manifest
  BY DEF Bundled
<1>2. v \in [dump : Recovery!Archive \cup {None}, files : [Blobs -> Recovery!Files],
             manifest : Recovery!Manifest \cup {None}]
  BY DEF Bundled
<1> QED  BY <1>1, <1>2 DEF Bundled

\* Copies are of the files that there are.
LEMMA FilesCopied ==
  ASSUME NEW copied \in [Blobs -> Recovery!Files], NEW files \in [Blobs -> Recovery!Files], NEW t
  PROVE  Recovery!Copied(copied, files, t) \in [Blobs -> Recovery!Files]
BY DEF Recovery!Copied

LEMMA BundleDamage ==
  ASSUME RecoveryAssumption, DatabaseInv, BundleInv, Recovery!Damage
  PROVE  Bundled(bundle') /\ (bundle.dump # None => bundle'.dump # None)
<1>1. PICK u : u = bundle
  OBVIOUS
<1>2. Bundled(u)
  BY <1>1 DEF BundleInv
<1>3. \/ bundle' = u
      \/ \E x \in Blobs : u.files[x] = "sound" /\ bundle' = [u EXCEPT !.files[x] = "damaged"]
      \/ u.dump # None /\ bundle' = [u EXCEPT !.dump.content = "damaged"]
      \/ u.manifest # None /\ bundle' = [u EXCEPT !.manifest.damaged = TRUE]
  BY <1>1 DEF Recovery!Damage
<1>4. ASSUME NEW x \in Blobs, bundle' = [u EXCEPT !.files[x] = "damaged"]
      PROVE  Bundled(bundle') /\ bundle'.dump = u.dump
  <2>1. PICK files : files = [u.files EXCEPT ![x] = "damaged"]
    OBVIOUS
  <2>2. files \in [Blobs -> Recovery!Files]
    BY <1>2, <2>1 DEF Bundled, Recovery!Files
  <2>3. bundle' = [u EXCEPT !.files = files]
    BY <1>4, <2>1
  <2> QED  BY <1>2, <2>2, <2>3, BundleFiles
<1>5. ASSUME u.dump # None, bundle' = [u EXCEPT !.dump.content = "damaged"]
      PROVE  Bundled(bundle') /\ bundle'.dump # None
  <2>1. u.dump \in Recovery!Archive /\ Past(u.dump.rows)
    BY <1>2, <1>5 DEF Bundled
  <2>2. PICK d : d = [u.dump EXCEPT !.content = "damaged"]
    OBVIOUS
  <2>3. d \in Recovery!Archive /\ d.rows = u.dump.rows
    BY <2>1, <2>2 DEF Recovery!Archive
  <2>4. bundle' = [u EXCEPT !.dump = d]
    BY <1>5, <2>2
  <2>5. d # None
    BY <2>3 DEF RecoveryAssumption
  <2> QED  BY <1>2, <2>1, <2>3, <2>4, <2>5, BundleDump
<1>6. ASSUME u.manifest # None, bundle' = [u EXCEPT !.manifest.damaged = TRUE]
      PROVE  Bundled(bundle') /\ bundle'.dump = u.dump
  <2>1. u.manifest \in Recovery!Manifest /\ Listed(u.manifest.tables) /\ u.dump # None
    BY <1>2, <1>6 DEF Bundled
  <2>2. PICK m : m = [u.manifest EXCEPT !.damaged = TRUE]
    OBVIOUS
  <2>3. m \in Recovery!Manifest /\ m.tables = u.manifest.tables
    BY <2>1, <2>2 DEF Recovery!Manifest
  <2>4. bundle' = [u EXCEPT !.manifest = m]
    BY <1>6, <2>2
  <2> QED  BY <1>2, <2>1, <2>3, <2>4, BundleManifest
<1> QED  BY <1>1, <1>2, <1>3, <1>4, <1>5, <1>6

LEMMA BackupFails ==
  ASSUME BundleInv, NEW b \in Backups, Recovery!Fail(b), UNCHANGED database
  PROVE  BundleStep
<1>1. PICK after : after = [pc |-> "failed"]
  OBVIOUS
<1>2. after.pc = "failed" /\ backup' = [backup EXCEPT ![b] = after] /\ bundle' = bundle
  BY <1>1 DEF Recovery!Fail
<1>3. Backs(after)'
  BY <1>2 DEF Backs
<1>4. Bundled(bundle)
  BY DEF BundleInv
<1>5. PICK u : u = bundle
  OBVIOUS
<1>6. /\ \A rows : Past(rows) => Past(rows)'
      /\ \A tables : Listed(tables) => Listed(tables)'
  BY DEF Past, Listed
<1> QED  BY <1>2, <1>3, <1>4, <1>5, <1>6, BundleOne

\* A backup goes on, with what it has read.
LEMMA BackupGoes ==
  ASSUME BundleInv, NEW b \in Backups, NEW u, NEW pc,
         pc \in {"copied", "dumping", "dumped"},
         backup[b].pc \in {"read", "copied", "dumping", "dumped"},
         backup' = [backup EXCEPT ![b].pc = pc], bundle' = u, Bundled(u), UNCHANGED database,
         bundle.dump # None => u.dump # None, pc \in {"dumping", "dumped"} => u.dump # None
  PROVE  BundleStep
<1>1. PICK k : k = backup[b]
  OBVIOUS
<1>2. Past(k.rows) /\ k.release \in 0 .. 1 /\ k.pc \in {"read", "copied", "dumping", "dumped"}
      /\ k = [pc |-> k.pc, rows |-> k.rows, release |-> k.release]
  BY <1>1 DEF BundleInv, Backs
<1>3. PICK after : after = [k EXCEPT !.pc = pc]
  OBVIOUS
<1>4. after.pc = pc /\ after.rows = k.rows /\ after.release = k.release
      /\ after = [pc |-> after.pc, rows |-> after.rows, release |-> after.release]
  BY <1>2, <1>3
<1>5. backup' = [backup EXCEPT ![b] = after]
  BY <1>1, <1>3
<1>6. Past(after.rows)'
  BY <1>2, <1>4 DEF Past
<1>7. Backs(after)'
  BY <1>2, <1>4, <1>6 DEF Backs
<1>8. /\ \A rows : Past(rows) => Past(rows)'
      /\ \A tables : Listed(tables) => Listed(tables)'
  BY DEF Past, Listed
<1> QED  BY <1>5, <1>7, <1>8, BundleOne

LEMMA BackupReads ==
  ASSUME RecoveryAssumption, DatabaseInv, BundleInv, NEW b \in Backups, UNCHANGED database,
         Recovery!Open(b) \/ Recovery!Snapshot(b) \/ Recovery!CrashBackup(b)
  PROVE  BundleStep
<1>1. PICK u : u = bundle
  OBVIOUS
<1>2. Bundled(u)
  BY <1>1 DEF BundleInv
<1>3. /\ \A rows : Past(rows) => Past(rows)'
      /\ \A tables : Listed(tables) => Listed(tables)'
  BY DEF Past, Listed
<1>4. CASE Recovery!Open(b)
  <2>1. PICK after : after = [pc |-> "opened"]
    OBVIOUS
  <2>2. after.pc = "opened" /\ backup' = [backup EXCEPT ![b] = after] /\ bundle' = u
    BY <1>1, <1>4, <2>1 DEF Recovery!Open
  <2>3. Backs(after)'
    BY <2>2 DEF Backs
  <2> QED  BY <1>1, <1>2, <1>3, <2>2, <2>3, BundleOne
<1>5. CASE Recovery!Snapshot(b) /\ ~Recovery!Fail(b)
  <2>1. PICK after : after = [pc |-> "read", rows |-> Recovery!Now, release |-> release]
    OBVIOUS
  <2>2. after.pc = "read" /\ after.rows = Recovery!Now /\ after.release = release
        /\ after = [pc |-> after.pc, rows |-> after.rows, release |-> after.release]
    BY <2>1
  <2>3. backup' = [backup EXCEPT ![b] = after] /\ bundle' = u
    BY <1>1, <1>5, <2>1, Zenon DEF Recovery!Snapshot
  <2>4. Past(after.rows)'
    BY <2>2, RecoveryNow DEF Past
  <2>5. Backs(after)'
    BY <2>2, <2>4 DEF Backs, DatabaseInv
  <2> QED  BY <1>1, <1>2, <1>3, <2>3, <2>5, BundleOne
<1>6. CASE Recovery!Fail(b)
  BY <1>6, BackupFails
<1> QED  BY <1>4, <1>5, <1>6, Zenon DEF Recovery!CrashBackup

LEMMA BackupWrites ==
  ASSUME RecoveryAssumption, DatabaseInv, BundleInv, NEW b \in Backups, UNCHANGED database,
         Recovery!Copy(b) \/ Recovery!StartDump(b) \/ Recovery!EndDump(b)
  PROVE  BundleStep
<1>1. PICK u : u = bundle
  OBVIOUS
<1>2. Bundled(u)
  BY <1>1 DEF BundleInv
<1>3. PICK v : v = bundle'
  OBVIOUS
<1>4. CASE Recovery!Copy(b) /\ ~Recovery!Fail(b)
  <2>1. backup[b].pc = "read" /\ v = [u EXCEPT !.files = Recovery!Copied(store, @, backup[b].rows)]
        /\ backup' = [backup EXCEPT ![b].pc = "copied"]
    BY <1>1, <1>3, <1>4, Zenon DEF Recovery!Copy, Recovery!Step
  <2>2. PICK files : files = Recovery!Copied(store, u.files, backup[b].rows)
    OBVIOUS
  <2>3. files \in [Blobs -> Recovery!Files]
    BY <1>2, <2>2, FilesCopied DEF Bundled, DatabaseInv
  <2>4. v = [u EXCEPT !.files = files]
    BY <2>1, <2>2
  <2>5. Bundled(v) /\ v.dump = u.dump
    BY <1>2, <2>3, <2>4, BundleFiles
  <2> QED  BY <1>1, <1>3, <2>1, <2>5, BackupGoes
<1>5. CASE Recovery!StartDump(b)
  <2>1. backup[b].pc = "copied" /\ backup' = [backup EXCEPT ![b].pc = "dumping"]
        /\ v = [u EXCEPT !.dump = [by |-> b, content |-> "partial", rows |-> backup[b].rows]]
    BY <1>1, <1>3, <1>5 DEF Recovery!StartDump, Recovery!Step
  <2>2. PICK d : d = [by |-> b, content |-> "partial", rows |-> backup[b].rows]
    OBVIOUS
  <2>3. Past(backup[b].rows) /\ backup[b].rows \in Recovery!Database
    BY <2>1, RecoveryNow DEF BundleInv, Backs, Past
  <2>4. d \in Recovery!Archive /\ d.rows = backup[b].rows
    BY <2>2, <2>3 DEF Recovery!Archive
  <2>5. d # None
    BY <2>4 DEF RecoveryAssumption
  <2>6. v = [u EXCEPT !.dump = d]
    BY <2>1, <2>2
  <2>7. Bundled(v) /\ v.dump # None
    BY <1>2, <2>3, <2>4, <2>5, <2>6, BundleDump
  <2> QED  BY <1>1, <1>3, <2>1, <2>7, BackupGoes
<1>6. CASE Recovery!EndDump(b)
  <2>1. backup[b].pc = "dumping" /\ backup' = [backup EXCEPT ![b].pc = "dumped"]
        /\ v = [u EXCEPT !.dump.content = IF u.dump.by = b /\ @ = "partial" THEN "whole" ELSE "damaged"]
    BY <1>1, <1>3, <1>6 DEF Recovery!EndDump, Recovery!Step
  <2>2. u.dump # None
    BY <1>1, <2>1 DEF BundleInv, Backs
  <2>3. u.dump \in Recovery!Archive /\ Past(u.dump.rows)
    BY <1>2, <2>2 DEF Bundled
  <2>4. PICK c \in {"whole", "damaged"} :
          c = IF u.dump.by = b /\ u.dump.content = "partial" THEN "whole" ELSE "damaged"
    OBVIOUS
  <2>5. PICK d : d = [u.dump EXCEPT !.content = c]
    OBVIOUS
  <2>6. d \in Recovery!Archive /\ d.rows = u.dump.rows
    BY <2>3, <2>5 DEF Recovery!Archive
  <2>7. v = [u EXCEPT !.dump = d]
    BY <2>1, <2>4, <2>5
  <2>8. d # None
    BY <2>6 DEF RecoveryAssumption
  <2>9. Bundled(v) /\ v.dump # None
    BY <1>2, <2>3, <2>6, <2>7, <2>8, BundleDump
  <2> QED  BY <1>1, <1>3, <2>1, <2>9, BackupGoes
<1>7. CASE Recovery!Fail(b)
  BY <1>7, BackupFails
<1> QED  BY <1>4, <1>5, <1>6, <1>7

LEMMA BackupEnds ==
  ASSUME RecoveryAssumption, DatabaseInv, BundleInv, NEW b \in Backups, UNCHANGED database,
         Recovery!HashDump(b) \/ Recovery!WriteManifest(b)
  PROVE  BundleStep
<1>1. PICK u : u = bundle
  OBVIOUS
<1>2. Bundled(u)
  BY <1>1 DEF BundleInv
<1>3. PICK v : v = bundle'
  OBVIOUS
<1>4. PICK k : k = backup[b]
  OBVIOUS
<1>5. k.pc \in {"dumped", "hashed"} /\ Backs(k)
  BY <1>4 DEF Recovery!HashDump, Recovery!WriteManifest, Recovery!Step, BundleInv
<1>6. Past(k.rows) /\ k.release \in 0 .. 1 /\ u.dump # None
  BY <1>1, <1>5 DEF Backs
<1>7. /\ \A rows : Past(rows) => Past(rows)'
      /\ \A tables : Listed(tables) => Listed(tables)'
  BY DEF Past, Listed
<1>8. CASE Recovery!HashDump(b)
  <2>1. PICK after : after = [pc |-> "hashed", rows |-> k.rows, release |-> k.release, dump |-> u.dump]
    OBVIOUS
  <2>2. after.pc = "hashed" /\ after.rows = k.rows /\ after.release = k.release /\ after.dump = u.dump
    BY <2>1
  <2>3. backup' = [backup EXCEPT ![b] = after] /\ bundle' = u
    BY <1>1, <1>4, <1>8, <2>1 DEF Recovery!HashDump
  <2>4. u.dump \in Recovery!Archive
    BY <1>2, <1>6 DEF Bundled
  <2>5. Backs(after)'
    BY <1>1, <1>6, <1>7, <2>2, <2>3, <2>4 DEF Backs
  <2> QED  BY <1>1, <1>2, <1>7, <2>3, <2>5, BundleOne
<1>9. CASE Recovery!WriteManifest(b)
  <2>1. k.pc = "hashed" /\ k.dump \in Recovery!Archive
    BY <1>4, <1>5, <1>9 DEF Recovery!WriteManifest, Recovery!Step, Backs
  <2>2. PICK t : t = Recovery!Inventory(k.rows)
    OBVIOUS
  <2>3. k.rows \in Recovery!Database
    BY <1>6, RecoveryNow DEF Past
  <2>4. t \in [Critical -> 0 .. MaxCommits]
    BY <2>2, <2>3 DEF Recovery!Inventory, Recovery!Restrict, Recovery!Database, RecoveryAssumption
  <2>5. Listed(t)
    BY <1>6, <2>2 DEF Listed, Past
  <2>6. PICK m : m = [by |-> b, release |-> k.release, tables |-> t, dump |-> k.dump, damaged |-> FALSE]
    OBVIOUS
  <2>7. m \in Recovery!Manifest /\ m.tables = t
    BY <1>6, <2>1, <2>4, <2>6 DEF Recovery!Manifest
  <2>8. v = [u EXCEPT !.manifest = m]
    BY <1>1, <1>3, <1>4, <1>9, <2>2, <2>6 DEF Recovery!WriteManifest
  <2>9. Bundled(v) /\ v.dump = u.dump
    BY <1>2, <1>6, <2>5, <2>7, <2>8, BundleManifest
  <2>10. PICK after : after = [pc |-> "done"]
    OBVIOUS
  <2>11. after.pc = "done" /\ backup' = [backup EXCEPT ![b] = after]
    BY <1>9, <2>10 DEF Recovery!WriteManifest
  <2>12. Backs(after)'
    BY <2>11 DEF Backs
  <2> QED  BY <1>1, <1>3, <1>7, <2>9, <2>11, <2>12, BundleOne
<1> QED  BY <1>8, <1>9

LEMMA BundleKeep ==
  ASSUME RecoveryAssumption, DatabaseInv, BundleInv, [Recovery!Next]_backupVars
  PROVE  BundleStep
<1>1. /\ \A rows : Past(rows) => Past(rows)'
      /\ \A tables : Listed(tables) => Listed(tables)'
  BY DatabaseKeep, PastStays
<1>2. CASE UNCHANGED <<bundle, backup>>
  <2>1. Bundled(bundle)'
    BY <1>1, <1>2 DEF BundleInv, Bundled
  <2>2. ASSUME NEW b \in Backups  PROVE Backs(backup[b])'
    <3>1. PICK k : k = backup[b]
      OBVIOUS
    <3>2. Backs(k)'
      BY <1>1, <1>2, <3>1 DEF BundleInv, Backs
    <3> QED  BY <1>2, <3>1, <3>2 DEF Backs
  <2> QED  BY <1>2, <2>1, <2>2 DEF BundleInv, BundleStep
<1>3. CASE Recovery!Damage
  <2>1. Bundled(bundle') /\ (bundle.dump # None => bundle'.dump # None)
        /\ UNCHANGED <<database, backup>>
    BY <1>3, BundleDamage DEF Recovery!Damage
  <2>2. Bundled(bundle)'
    BY <2>1 DEF Bundled, Past, Listed
  <2>3. ASSUME NEW b \in Backups  PROVE Backs(backup[b])'
    <3>1. PICK k : k = backup[b]
      OBVIOUS
    <3>2. Backs(k)'
      BY <1>1, <2>1, <3>1 DEF BundleInv, Backs
    <3> QED  BY <2>1, <3>1, <3>2 DEF Backs
  <2> QED  BY <2>1, <2>2, <2>3 DEF BundleInv, BundleStep
<1>4. CASE Recovery!BackupStep
  <2>1. PICK b \in Backups :
          \/ Recovery!Open(b) \/ Recovery!Snapshot(b) \/ Recovery!Copy(b) \/ Recovery!StartDump(b)
          \/ Recovery!EndDump(b) \/ Recovery!HashDump(b) \/ Recovery!WriteManifest(b)
          \/ Recovery!CrashBackup(b)
    BY <1>4 DEF Recovery!BackupStep
  <2>2. UNCHANGED database
    BY <1>4 DEF Recovery!BackupStep
  <2> QED  BY <2>1, <2>2, BackupReads, BackupWrites, BackupEnds
<1> QED  BY <1>2, <1>3, <1>4 DEF Recovery!Next, Recovery!Commit, Recovery!Upgrade,
         Recovery!RehearsalStep, Recovery!ReviewStep, backupVars

\* A step of the rehearsal r, which changes what is restored only when no
\* other has made the target.
LEMMA TargetOne ==
  ASSUME TargetInv, NEW r \in Rehearsals, NEW after, NEW u,
         UNCHANGED <<database, bundle>>, bundle.dump # None,
         rehearsal' = [rehearsal EXCEPT ![r] = after], Rehearses(after), target' = u,
         u \in [exists : BOOLEAN, rows : Recovery!Database \cup {None}, files : [Blobs -> Recovery!Files]],
         \/ \A q \in Rehearsals \ {r} : ~Owns(q)
         \/ /\ after.pc \in {"begun", "claiming", "failed"}
            /\ u.rows = target.rows /\ u.files = target.files,
         after.pc \in {"created", "restored", "copied", "VERIFIED"} => u.rows # None,
         after.pc \in {"restored", "copied", "VERIFIED"} => Past(u.rows),
         after.pc = "VERIFIED" =>
           /\ Recovery!Inventory(u.rows) = after.manifest.tables
           /\ \A x \in Recovery!Catalogued(after.manifest.tables) : u.files[x] = "sound"
  PROVE  TargetInv'
<1>1. rehearsal'[r] = after /\ \A q \in Rehearsals \ {r} : rehearsal'[q] = rehearsal[q]
  BY DEF TargetInv
<1>2. DOMAIN rehearsal' = Rehearsals /\ rehearsal' = [q \in Rehearsals |-> rehearsal'[q]]
  BY DEF TargetInv
<1>3. ASSUME NEW q \in Rehearsals
      PROVE  rehearsal'[q] = Recovery!Idle \/ (Rehearses(rehearsal[q])' /\ bundle'.dump # None)
  <2>1. CASE q = r
    BY <1>1, <2>1 DEF Rehearses, Listed
  <2>2. CASE q # r
    BY <1>1, <2>2 DEF TargetInv, Rehearses, Listed
  <2> QED  BY <2>1, <2>2
<1>4. ASSUME NEW p \in Rehearsals, NEW q \in Rehearsals, Owns(p)', Owns(q)'  PROVE p = q
  <2>1. \A s \in Rehearsals \ {r} : Owns(s)' => Owns(s)
    BY <1>1 DEF Owns
  <2>2. CASE \A s \in Rehearsals \ {r} : ~Owns(s)
    BY <1>4, <2>1, <2>2
  <2>3. CASE after.pc \in {"begun", "claiming", "failed"}
    <3>1. ~Owns(r)'
      BY <1>1, <2>3 DEF Owns
    <3>2. p # r /\ q # r
      BY <1>4, <3>1
    <3> QED  BY <1>4, <2>1, <3>2 DEF TargetInv
  <2> QED  BY <2>2, <2>3
<1>5. ASSUME NEW q \in Rehearsals
      PROVE  /\ Owns(q)' => target'.rows # None
             /\ rehearsal'[q].pc \in {"restored", "copied", "VERIFIED"} => Past(target.rows)'
             /\ rehearsal'[q].pc = "VERIFIED" =>
                  /\ Recovery!Inventory(target'.rows) = rehearsal'[q].manifest.tables
                  /\ \A x \in Recovery!Catalogued(rehearsal'[q].manifest.tables) :
                       target'.files[x] = "sound"
  <2>1. CASE q = r
    BY <1>1, <2>1 DEF Owns, Past
  <2>2. CASE q # r /\ ~Owns(q)
    BY <1>1, <2>2 DEF Owns
  <2>3. CASE q # r /\ Owns(q)
    <3>1. u.rows = target.rows /\ u.files = target.files
      BY <2>3
    <3>2. /\ target.rows # None
          /\ rehearsal[q].pc \in {"restored", "copied", "VERIFIED"} => Past(target.rows)
          /\ rehearsal[q].pc = "VERIFIED" =>
               /\ Recovery!Inventory(target.rows) = rehearsal[q].manifest.tables
               /\ \A x \in Recovery!Catalogued(rehearsal[q].manifest.tables) :
                    target.files[x] = "sound"
      BY <2>3 DEF TargetInv
    <3>3. Past(target.rows) => Past(target.rows)'
      BY <3>1 DEF Past
    <3>4. rehearsal'[q] = rehearsal[q] /\ target'.rows = target.rows /\ target'.files = target.files
      BY <1>1, <2>3, <3>1
    <3> QED  BY <3>2, <3>3, <3>4
  <2> QED  BY <2>1, <2>2, <2>3
<1> QED  BY <1>2, <1>3, <1>4, <1>5 DEF TargetInv

\* Another step of a rehearsal, with its manifest.
LEMMA RehearsalBecomes ==
  ASSUME TargetInv, NEW r \in Rehearsals, NEW pc, Recovery!Becomes(r, pc),
         pc \in {"begun", "claiming", "created", "restored", "copied", "VERIFIED", "failed"},
         rehearsal[r].pc # "idle"
  PROVE  \E after : /\ rehearsal' = [rehearsal EXCEPT ![r] = after] /\ Rehearses(after)
                    /\ after.pc = pc /\ after.manifest = rehearsal[r].manifest
                    /\ bundle.dump # None
<1>1. PICK k : k = rehearsal[r]
  OBVIOUS
<1>2. Rehearses(k) /\ bundle.dump # None
  BY <1>1 DEF TargetInv, Recovery!Idle
<1>3. PICK after : after = [k EXCEPT !.pc = pc]
  OBVIOUS
<1>4. after.pc = pc /\ after.manifest = k.manifest
      /\ after \in [pc : {"begun", "claiming", "created", "restored", "copied", "VERIFIED", "failed"},
                    manifest : Recovery!Manifest]
  BY <1>2, <1>3 DEF Rehearses
<1>5. rehearsal' = [rehearsal EXCEPT ![r] = after]
  BY <1>1, <1>3 DEF Recovery!Becomes
<1> QED  BY <1>1, <1>2, <1>4, <1>5 DEF Rehearses

\* A rehearsal that fails, or that has not made the target.
LEMMA RehearsalBeside ==
  ASSUME TargetInv, NEW r \in Rehearsals, UNCHANGED <<database, bundle>>,
         rehearsal[r].pc # "idle", NEW pc \in {"claiming", "failed"}, Recovery!Becomes(r, pc),
         target'.rows = target.rows, target'.files = target.files,
         target' \in [exists : BOOLEAN, rows : Recovery!Database \cup {None},
                      files : [Blobs -> Recovery!Files]]
  PROVE  TargetInv'
<1>1. PICK after : /\ rehearsal' = [rehearsal EXCEPT ![r] = after] /\ Rehearses(after)
                   /\ after.pc = pc /\ after.manifest = rehearsal[r].manifest
                   /\ bundle.dump # None
  BY RehearsalBecomes
<1> QED  BY <1>1, TargetOne

LEMMA RehearsalClaims ==
  ASSUME BundleInv, TargetInv, NEW r \in Rehearsals, UNCHANGED <<database, bundle>>,
         Recovery!Begin(r) \/ Recovery!Claim(r) \/ Recovery!CrashRehearsal(r)
  PROVE  TargetInv'
<1>1. target \in [exists : BOOLEAN, rows : Recovery!Database \cup {None},
                  files : [Blobs -> Recovery!Files]]
  BY DEF TargetInv
<1>2. CASE Recovery!Begin(r)
  <2>1. PICK m : m = bundle.manifest
    OBVIOUS
  <2>2. m \in Recovery!Manifest /\ Listed(m.tables) /\ bundle.dump # None
    BY <1>2, <2>1 DEF Recovery!Begin, Recovery!HasManifest, BundleInv, Bundled
  <2>3. PICK after : after = [pc |-> "begun", manifest |-> m]
    OBVIOUS
  <2>4. after.pc = "begun" /\ Rehearses(after)
    BY <2>2, <2>3 DEF Rehearses
  <2>5. rehearsal' = [rehearsal EXCEPT ![r] = after] /\ target' = target
    BY <1>2, <2>1, <2>3 DEF Recovery!Begin
  <2> QED  BY <1>1, <2>2, <2>4, <2>5, TargetOne
<1>3. CASE Recovery!Claim(r) \/ Recovery!CrashRehearsal(r)
  <2>1. rehearsal[r].pc # "idle" /\ target' = target
        /\ (Recovery!Becomes(r, "claiming") \/ Recovery!Becomes(r, "failed"))
    BY <1>3, Zenon DEF Recovery!Claim, Recovery!CrashRehearsal, Recovery!Abort, Recovery!At
  <2> QED  BY <1>1, <2>1, RehearsalBeside
<1> QED  BY <1>2, <1>3

LEMMA RehearsalMakes ==
  ASSUME RecoveryAssumption, BundleInv, TargetInv, NEW r \in Rehearsals, UNCHANGED <<database, bundle>>,
         Recovery!Create(r)
  PROVE  TargetInv'
<1>1. PICK t : t = target
  OBVIOUS
<1>2. t \in [exists : BOOLEAN, rows : Recovery!Database \cup {None}, files : [Blobs -> Recovery!Files]]
  BY <1>1 DEF TargetInv
<1>3. rehearsal[r].pc = "claiming"
  BY DEF Recovery!Create, Recovery!At
<1>4. PICK rows : rows = IF t.rows = None THEN [q \in Rows |-> 0] ELSE t.rows
  OBVIOUS
<1>5. rows \in Recovery!Database \cup {None} /\ (t.rows = None => rows \in Recovery!Database)
  BY <1>2, <1>4 DEF Recovery!Database, RecoveryAssumption
<1>6. target' = [t EXCEPT !.exists = TRUE, !.rows = rows]
  BY <1>1, <1>4 DEF Recovery!Create
<1>7. target'.rows = rows /\ target'.files = t.files
      /\ target' \in [exists : BOOLEAN, rows : Recovery!Database \cup {None},
                      files : [Blobs -> Recovery!Files]]
  BY <1>2, <1>5, <1>6
<1>8. CASE t.rows = None
  <2>1. \A q \in Rehearsals : ~Owns(q)
    BY <1>1, <1>8 DEF TargetInv
  <2>2. Recovery!Becomes(r, "created")
    BY <1>1, <1>8 DEF Recovery!Create
  <2>3. PICK after : /\ rehearsal' = [rehearsal EXCEPT ![r] = after] /\ Rehearses(after)
                     /\ after.pc = "created" /\ bundle.dump # None
    BY <1>3, <2>2, RehearsalBecomes
  <2>4. rows # None
    BY <1>5, <1>8 DEF RecoveryAssumption
  <2> QED  BY <1>7, <2>1, <2>3, <2>4, TargetOne
<1>9. CASE t.rows # None
  <2>1. Recovery!Becomes(r, "failed")
    BY <1>1, <1>9 DEF Recovery!Create
  <2> QED  BY <1>1, <1>3, <1>4, <1>7, <1>9, <2>1, RehearsalBeside
<1> QED  BY <1>8, <1>9

LEMMA RehearsalRestores ==
  ASSUME RecoveryAssumption, DatabaseInv, BundleInv, TargetInv, NEW r \in Rehearsals,
         UNCHANGED <<database, bundle>>, Recovery!Restore(r) \/ Recovery!CopyBack(r)
  PROVE  TargetInv'
<1>1. PICK t : t = target
  OBVIOUS
<1>2. t \in [exists : BOOLEAN, rows : Recovery!Database \cup {None}, files : [Blobs -> Recovery!Files]]
  BY <1>1 DEF TargetInv
<1>3. rehearsal[r].pc \in {"created", "restored"} /\ Owns(r)
  BY DEF Recovery!Restore, Recovery!CopyBack, Recovery!At, Owns
<1>4. \A q \in Rehearsals \ {r} : ~Owns(q)
  BY <1>3 DEF TargetInv
<1>5. CASE Recovery!Abort(r)
  BY <1>1, <1>2, <1>3, <1>5, RehearsalBeside DEF Recovery!Abort
<1>6. CASE Recovery!Restore(r) /\ ~Recovery!Abort(r)
  <2>1. Recovery!Becomes(r, "restored") /\ target' = [t EXCEPT !.rows = bundle.dump.rows]
    BY <1>1, <1>6, Zenon DEF Recovery!Restore
  <2>2. PICK after : /\ rehearsal' = [rehearsal EXCEPT ![r] = after] /\ Rehearses(after)
                     /\ after.pc = "restored" /\ bundle.dump # None
    BY <1>3, <2>1, RehearsalBecomes
  <2>3. PICK rows : rows = bundle.dump.rows
    OBVIOUS
  <2>4. Past(rows) /\ rows \in Recovery!Database
    BY <2>2, <2>3, RecoveryNow DEF BundleInv, Bundled, Past
  <2>5. target' = [t EXCEPT !.rows = rows]
    BY <2>1, <2>3
  <2>6. target'.rows = rows
        /\ target' \in [exists : BOOLEAN, rows : Recovery!Database \cup {None},
                        files : [Blobs -> Recovery!Files]]
    BY <1>2, <2>4, <2>5
  <2>7. rows # None
    BY <2>4 DEF RecoveryAssumption
  <2> QED  BY <1>4, <2>2, <2>4, <2>6, <2>7, TargetOne
<1>7. CASE Recovery!CopyBack(r) /\ ~Recovery!Abort(r)
  <2>1. /\ rehearsal[r].pc = "restored" /\ Recovery!Becomes(r, "copied")
        /\ target' = [t EXCEPT !.files = Recovery!Copied(bundle.files, @, rehearsal[r].manifest.tables)]
    BY <1>1, <1>7, Zenon DEF Recovery!CopyBack, Recovery!At
  <2>2. PICK after : /\ rehearsal' = [rehearsal EXCEPT ![r] = after] /\ Rehearses(after)
                     /\ after.pc = "copied" /\ bundle.dump # None
    BY <1>3, <2>1, RehearsalBecomes
  <2>3. PICK files : files = Recovery!Copied(bundle.files, t.files, rehearsal[r].manifest.tables)
    OBVIOUS
  <2>4. bundle.files \in [Blobs -> Recovery!Files] /\ t.files \in [Blobs -> Recovery!Files]
    BY <1>2 DEF BundleInv, Bundled
  <2>5. files \in [Blobs -> Recovery!Files]
    BY <2>3, <2>4, FilesCopied
  <2>6. target' = [t EXCEPT !.files = files]
    BY <2>1, <2>3
  <2>7. target'.rows = t.rows
        /\ target' \in [exists : BOOLEAN, rows : Recovery!Database \cup {None},
                        files : [Blobs -> Recovery!Files]]
    BY <1>2, <2>5, <2>6
  <2>8. Past(t.rows) /\ t.rows # None
    BY <1>1, <1>3, <2>1 DEF TargetInv
  <2> QED  BY <1>4, <2>2, <2>7, <2>8, TargetOne
<1> QED  BY <1>5, <1>6, <1>7

LEMMA RehearsalCompares ==
  ASSUME BundleInv, TargetInv, NEW r \in Rehearsals, UNCHANGED <<database, bundle>>,
         Recovery!Compare(r)
  PROVE  TargetInv'
<1>1. target \in [exists : BOOLEAN, rows : Recovery!Database \cup {None},
                  files : [Blobs -> Recovery!Files]]
  BY DEF TargetInv
<1>2. rehearsal[r].pc = "copied" /\ target' = target /\ Owns(r)
  BY DEF Recovery!Compare, Recovery!At, Owns
<1>3. \A q \in Rehearsals \ {r} : ~Owns(q)
  BY <1>2 DEF TargetInv
<1>4. PICK tables : tables = rehearsal[r].manifest.tables
  OBVIOUS
<1>5. \/ Recovery!Becomes(r, "failed")
      \/ /\ Recovery!Becomes(r, "VERIFIED")
         /\ Recovery!SameTables(target.rows, tables)
         /\ \A x \in Recovery!Catalogued(tables) : Recovery!Verified(target.files, x)
  BY <1>4, Zenon DEF Recovery!Compare
<1>6. CASE Recovery!Becomes(r, "failed")
  BY <1>1, <1>2, <1>6, RehearsalBeside
<1>7. CASE /\ Recovery!Becomes(r, "VERIFIED")
           /\ Recovery!SameTables(target.rows, tables)
           /\ \A x \in Recovery!Catalogued(tables) : Recovery!Verified(target.files, x)
  <2>1. PICK after : /\ rehearsal' = [rehearsal EXCEPT ![r] = after] /\ Rehearses(after)
                     /\ after.pc = "VERIFIED" /\ after.manifest = rehearsal[r].manifest
                     /\ bundle.dump # None
    BY <1>2, <1>7, RehearsalBecomes
  <2>2. /\ Recovery!Inventory(target.rows) = after.manifest.tables
        /\ \A x \in Recovery!Catalogued(after.manifest.tables) : target.files[x] = "sound"
    BY <1>4, <1>7, <2>1 DEF Recovery!SameTables, Recovery!Verified
  <2>3. Past(target.rows) /\ target.rows # None
    BY <1>2 DEF TargetInv
  <2>4. PICK u : u = target
    OBVIOUS
  <2> QED  BY <1>1, <1>2, <1>3, <2>1, <2>2, <2>3, <2>4, TargetOne
<1> QED  BY <1>5, <1>6, <1>7

LEMMA TargetKeep ==
  ASSUME RecoveryAssumption, DatabaseInv, BundleInv, TargetInv, [Recovery!Next]_backupVars
  PROVE  TargetInv'
<1>1. CASE UNCHANGED <<target, rehearsal>>
  <2>1. /\ \A rows : Past(rows) => Past(rows)'
        /\ \A tables : Listed(tables) => Listed(tables)'
    BY DatabaseKeep, PastStays
  <2>2. bundle.dump # None => bundle'.dump # None
    BY BundleKeep DEF BundleStep
  <2>3. ASSUME NEW r \in Rehearsals
        PROVE  /\ rehearsal'[r] = Recovery!Idle \/ (Rehearses(rehearsal[r])' /\ bundle'.dump # None)
               /\ rehearsal'[r].pc \in {"restored", "copied", "VERIFIED"} => Past(target.rows)'
    <3>1. PICK k, rows : k = rehearsal[r] /\ rows = target.rows
      OBVIOUS
    <3>2. k = Recovery!Idle \/ (Rehearses(k)' /\ bundle'.dump # None)
      BY <2>1, <2>2, <3>1 DEF TargetInv, Rehearses
    <3>3. k.pc \in {"restored", "copied", "VERIFIED"} => Past(rows)'
      BY <2>1, <3>1 DEF TargetInv
    <3>4. rehearsal'[r] = k /\ target'.rows = rows
      BY <1>1, <3>1
    <3> QED  BY <3>2, <3>3, <3>4 DEF Rehearses, Listed, Past
  <2> QED  BY <1>1, <2>3 DEF TargetInv, Owns
<1>2. CASE Recovery!RehearsalStep
  <2>1. PICK r \in Rehearsals :
          \/ Recovery!Begin(r) \/ Recovery!Claim(r) \/ Recovery!Create(r) \/ Recovery!Restore(r)
          \/ Recovery!CopyBack(r) \/ Recovery!Compare(r) \/ Recovery!CrashRehearsal(r)
    BY <1>2 DEF Recovery!RehearsalStep
  <2>2. UNCHANGED <<database, bundle>>
    BY <1>2 DEF Recovery!RehearsalStep
  <2> QED  BY <2>1, <2>2, RehearsalClaims, RehearsalMakes, RehearsalRestores, RehearsalCompares
<1> QED  BY <1>1, <1>2 DEF Recovery!Next, Recovery!Commit, Recovery!Upgrade, Recovery!Damage,
         Recovery!BackupStep, Recovery!ReviewStep, backupVars

LEMMA ReviewKeep ==
  ASSUME RecoveryAssumption, DatabaseInv, BundleInv, ReviewInv, [Recovery!Next]_backupVars
  PROVE  ReviewInv'
<1>1. /\ \A i \in DOMAIN database : i \in DOMAIN database' /\ database'[i] = database[i]
      /\ \A r \in Rows : Recovery!Now[r] <= (Recovery!Now')[r]
      /\ DatabaseInv'
  BY DatabaseKeep
<1>2. \A r \in Critical : r \in Rows /\ Recovery!Now[r] \in Nat
  BY RecoveryNow DEF RecoveryAssumption
<1>3. \A r \in Critical : (Recovery!Now')[r] \in Nat
  <2>1. /\ Len(database') \in DOMAIN database' /\ Recovery!Now' = database'[Len(database')]
        /\ \A i \in DOMAIN database' : database'[i] \in Recovery!Database
    BY <1>1 DEF DatabaseInv, Recovery!Now
  <2> QED  BY <1>2, <2>1 DEF Recovery!Database, RecoveryAssumption
<1>4. CASE UNCHANGED review
  <2>1. CASE review = Recovery!Idle
    BY <1>4, <2>1 DEF ReviewInv, Recovery!Idle
  <2>2. CASE review # Recovery!Idle
    <3>1. \A r \in DOMAIN review.seen : r \in Critical /\ review.seen[r] \in Nat
          /\ review.seen[r] <= Recovery!Now[r]
      BY <2>2 DEF ReviewInv
    <3>2. \A r \in DOMAIN review.seen : review.seen[r] <= (Recovery!Now')[r]
      BY <1>1, <1>2, <1>3, <3>1
    <3>3. review.start \in DOMAIN database
      BY <2>2 DEF ReviewInv
    <3>4. review.start \in DOMAIN database' /\ database'[review.start] = database[review.start]
      BY <1>1, <3>3
    <3> QED  BY <1>4, <2>2, <3>2, <3>4 DEF ReviewInv
  <2> QED  BY <2>1, <2>2
<1>5. ASSUME NEW kind, Recovery!BeginReview(kind), UNCHANGED database  PROVE ReviewInv'
  <2>1. PICK m : m = bundle.manifest
    OBVIOUS
  <2>2. m # None /\ Listed(m.tables)
    BY <1>5, <2>1 DEF Recovery!BeginReview, Recovery!BundleStands, Recovery!HasManifest,
       BundleInv, Bundled
  <2>3. PICK i \in DOMAIN database : m.tables = Recovery!Inventory(database[i])
    BY <2>2 DEF Listed
  <2>4. PICK t : t = m.tables
    OBVIOUS
  <2>5. t = [r \in Critical |-> database[i][r]]
    BY <2>3, <2>4 DEF Recovery!Inventory, Recovery!Restrict
  <2>6. PICK n \in DOMAIN database : n = Len(database) /\ Recovery!Now = database[n]
    BY RecoveryNow
  <2>7. \A r \in Critical : t[r] \in Nat /\ t[r] <= database[n][r]
    BY <1>2, <2>5, <2>6, RecoveryNow
  <2>8. PICK v : v = [pc |-> "reading", kind |-> kind, start |-> n, tables |-> t, seen |-> << >>]
    OBVIOUS
  <2>9. v.pc = "reading" /\ v.start = n /\ v.tables = t /\ v.seen = << >> /\ DOMAIN v.seen = {}
        /\ v = [pc |-> v.pc, kind |-> v.kind, start |-> v.start, tables |-> v.tables, seen |-> v.seen]
    BY <2>8
  <2>10. review' = v
    BY <1>5, <2>1, <2>4, <2>6, <2>8 DEF Recovery!BeginReview
  <2> QED  BY <1>5, <2>5, <2>7, <2>9, <2>10 DEF ReviewInv
<1>6. ASSUME NEW r \in Critical, Recovery!ReadTable(r), UNCHANGED database  PROVE ReviewInv'
  <2>1. PICK w : w = review
    OBVIOUS
  <2>2. /\ w.pc = "reading" /\ r \in Critical \ DOMAIN w.seen
        /\ review' = [w EXCEPT !.seen = [q \in DOMAIN @ \cup {r} |->
                        IF q = r THEN Recovery!Now[r] ELSE @[q]]]
    BY <1>6, <2>1 DEF Recovery!ReadTable
  <2>3. /\ w = [pc |-> w.pc, kind |-> w.kind, start |-> w.start, tables |-> w.tables, seen |-> w.seen]
        /\ w.start \in DOMAIN database /\ DOMAIN w.tables = Critical
        /\ w.tables = [q \in Critical |-> w.tables[q]]
        /\ \A q \in Critical : w.tables[q] \in Nat /\ w.tables[q] <= database[w.start][q]
        /\ DOMAIN w.seen \subseteq Critical
        /\ \A q \in DOMAIN w.seen :
             /\ w.seen[q] \in Nat /\ database[w.start][q] <= w.seen[q]
             /\ w.seen[q] <= Recovery!Now[q]
    BY <2>1, <2>2 DEF ReviewInv, Recovery!Idle
  <2>4. PICK seen : seen = [q \in DOMAIN w.seen \cup {r} |-> IF q = r THEN Recovery!Now[r] ELSE w.seen[q]]
    OBVIOUS
  <2>5. PICK v : v = [w EXCEPT !.seen = seen]
    OBVIOUS
  <2>6. v.pc = w.pc /\ v.kind = w.kind /\ v.start = w.start /\ v.tables = w.tables /\ v.seen = seen
        /\ v = [pc |-> v.pc, kind |-> v.kind, start |-> v.start, tables |-> v.tables, seen |-> v.seen]
    BY <2>3, <2>5
  <2>7. review' = v
    BY <2>2, <2>4, <2>5
  <2>8. DOMAIN seen = DOMAIN w.seen \cup {r} /\ DOMAIN seen \subseteq Critical
    BY <2>3, <2>4
  <2>9. \A q \in DOMAIN seen :
          /\ seen[q] \in Nat /\ database[w.start][q] <= seen[q] /\ seen[q] <= Recovery!Now[q]
    <3>1. database[w.start][r] <= Recovery!Now[r] /\ Recovery!Now[r] \in Nat
      BY <1>2, <2>3, RecoveryNow
    <3> QED  BY <2>3, <2>4, <2>8, <3>1
  <2>10. Recovery!Now' = Recovery!Now
    BY <1>6 DEF Recovery!Now
  <2> QED  BY <1>6, <2>2, <2>3, <2>6, <2>7, <2>8, <2>9, <2>10 DEF ReviewInv
<1>7. CASE Recovery!EndReview
  BY <1>7 DEF Recovery!EndReview, ReviewInv, Recovery!Idle
<1>8. CASE Recovery!ReviewStep
  BY <1>5, <1>6, <1>7, <1>8, Zenon DEF Recovery!ReviewStep
<1> QED  BY <1>4, <1>8 DEF Recovery!Next, Recovery!Commit, Recovery!Upgrade, Recovery!Damage,
         Recovery!BackupStep, Recovery!RehearsalStep, backupVars

LEMMA RecoveryKeep ==
  ASSUME RecoveryAssumption, RecoveryInv, [Recovery!Next]_backupVars
  PROVE  RecoveryInv'
BY DatabaseKeep, BundleKeep, TargetKeep, ReviewKeep DEF RecoveryInv, BundleStep

LEMMA RecoveryImply ==
  ASSUME RecoveryAssumption, RecoveryInv
  PROVE  BackupsAreTrue
<1> USE DEF RecoveryInv
<1>1. Recovery!TypeOK
  BY DEF DatabaseInv, BundleInv, Bundled, TargetInv, Recovery!TypeOK
<1>2. Recovery!RestoredIsCaptured
  <2> SUFFICES ASSUME NEW r \in Rehearsals, Recovery!At(r, "VERIFIED")
               PROVE  /\ \E i \in DOMAIN database : target.rows = database[i]
                      /\ \E i \in DOMAIN database :
                           Recovery!Inventory(database[i]) = rehearsal[r].manifest.tables
                      /\ \A q \in Critical : target.rows[q] = rehearsal[r].manifest.tables[q]
                      /\ \A x \in Recovery!Catalogued(target.rows) : target.files[x] = "sound"
    BY DEF Recovery!RestoredIsCaptured
  <2>1. PICK t, rows : t = rehearsal[r].manifest.tables /\ rows = target.rows
    OBVIOUS
  <2>2. /\ Past(rows) /\ Recovery!Inventory(rows) = t
        /\ \A x \in Recovery!Catalogued(t) : target.files[x] = "sound"
    BY <2>1 DEF TargetInv, Recovery!At
  <2>3. Listed(t)
    BY <2>1 DEF TargetInv, Rehearses, Recovery!At, Recovery!Idle
  <2>4. \A q \in Critical : rows[q] = t[q]
    BY <2>2 DEF Recovery!Inventory, Recovery!Restrict
  <2>5. Recovery!Catalogued(rows) = Recovery!Catalogued(t)
    BY <2>4 DEF Recovery!Catalogued, RecoveryAssumption
  <2> QED  BY <2>1, <2>2, <2>3, <2>4, <2>5 DEF Past, Listed
<1>3. ASSUME Recovery!Answered
      PROVE  /\ review.start \in DOMAIN database /\ DOMAIN review.seen = Critical
             /\ review.tables = [r \in Critical |-> review.tables[r]]
             /\ \A r \in Critical :
                  /\ r \in Rows /\ database[review.start][r] \in Nat /\ Recovery!Now[r] \in Nat
                  /\ review.tables[r] \in Nat /\ review.tables[r] <= database[review.start][r]
                  /\ review.seen[r] \in Nat /\ database[review.start][r] <= review.seen[r]
                  /\ review.seen[r] <= Recovery!Now[r]
  <2>1. review # Recovery!Idle /\ DOMAIN review.seen = Critical
    BY <1>3 DEF Recovery!Answered, Recovery!Idle
  <2>2. review.start \in DOMAIN database
    BY <2>1 DEF ReviewInv
  <2>3. \A r \in Critical : r \in Rows /\ database[review.start][r] \in Nat /\ Recovery!Now[r] \in Nat
    BY <2>2, RecoveryNow DEF RecoveryAssumption
  <2> QED  BY <2>1, <2>2, <2>3 DEF ReviewInv
<1>4. Recovery!DeltasAreComplete
  BY <1>3 DEF Recovery!DeltasAreComplete, Recovery!Deltas, Recovery!Differs
<1>5. Recovery!VerifiedIsOneInstant
  <2> SUFFICES ASSUME Recovery!Answered, review.seen = review.tables
               PROVE  Recovery!Inventory(database[review.start]) = review.tables
    BY DEF Recovery!VerifiedIsOneInstant
  <2>1. \A r \in Critical : database[review.start][r] = review.tables[r]
    BY <1>3
  <2> QED  BY <1>3, <2>1 DEF Recovery!Inventory, Recovery!Restrict
<1> QED  BY <1>1, <1>2, <1>4, <1>5 DEF BackupsAreTrue

-----------------------------------------------------------------------------
(* Identity (ReleaseIdentity): what a preparation has made of a checkout   *)
(* that stood still, and what a preflight has found so far.                *)

\* What is there at each step of a preparation, and what it is when the checkout
\* has not moved since it began.
PreparationStands(q) ==
  /\ q.pc \in {"copied", "built", "assembled"} => q.wheel \in Identity!Wheels
  /\ q.pc \in {"built", "assembled"} => q.kit \in Identity!Kits
  /\ q.pc = "assembled" => q.locks \in Contents
  /\ q.quiet =>
       /\ q.release = checkout.inventory /\ q.release = Identity!Inventory(checkout.parts)
       /\ q.pc # "loaded" => Identity!Inventory(q.commit.parts) = q.release
       /\ q.pc \in {"copied", "built", "assembled"} =>
            /\ q.wheel.inventory = q.release
            /\ q.wheel.code = q.release["code"] /\ q.wheel.locks = q.release["locks"]
       /\ q.pc \in {"built", "assembled"} => q.wheel.migrations = q.release["migrations"]
       /\ q.pc = "built" => q.kit.digest = checkout.parts["fixture"]
       /\ q.pc = "assembled" => q.kit.content = q.kit.digest

InputsAreWhole(i) ==
  i.quiet =>
    /\ i.digest.inventory = i.release
    /\ \A part \in Identity!Released : i.digest[part] = i.release[part]
    /\ Identity!Inventory(i.commit.parts) = i.release
    /\ i.kit.content = i.kit.digest

\* What a preflight knows at each step; of a host that stands still it is true.
ExaminationStands(f) ==
  /\ environment # None
  /\ f.pc # "inventory" => f.locks = f.inventory["locks"]
  /\ f.pc \in {"inputs", "kit", "passed"} =>
       f.read \in Identity!InstallInputs /\ f.read.release = f.inventory
  /\ f.pc \in {"kit", "passed"} /\ f.kit => f.read.kit.commit = f.read.commit
  /\ ~f.moved =>
       /\ environment.inventory = f.inventory
       /\ f.pc \in {"migrations", "inputs", "kit", "passed"} =>
            environment.parts["migrations"] = f.inventory["migrations"]
  /\ f.pc = "passed" =>
       /\ environment.parts["code"] = f.inventory["code"]
       /\ environment.parts["locks"] = f.inventory["locks"]
       /\ environment.origin = f.read.digest
       /\ \E optional \in {{}, Identity!Postgres} :
            environment.others = Identity!Locked(Identity!Runtime \cup optional, f.locks)
              \cup IF f.kit THEN {<<"provider", f.read.kit.content>>} ELSE {}

\* Inputs that were read are still somewhere.
HasInputs(f) == f.pc \in {"inputs", "kit", "passed"} => inputs[f.target] # None

IdentityInv ==
  /\ Identity!TypeOK
  /\ \A p \in Preparers : preparation[p] # None => PreparationStands(preparation[p])
  /\ \A t \in Targets : inputs[t] # None => InputsAreWhole(inputs[t])
  /\ preflight # None => ExaminationStands(preflight) /\ HasInputs(preflight)

LEMMA IdentityImply ==
  ASSUME IdentityAssumption, IdentityInv
  PROVE  Identity!ReleaseIsWhole
<1>1. Identity!QuietInputsAreWhole
  BY DEF IdentityInv, InputsAreWhole, Identity!QuietInputsAreWhole
<1>2. ASSUME preflight # None, preflight.pc = "passed"
      PROVE  LET i == preflight.read
                 provider == IF preflight.kit THEN {<<"provider", i.kit.content>>} ELSE {}
             IN  /\ \A part \in {"code", "locks"} : environment.parts[part] = i.release[part]
                 /\ environment.origin = i.digest
                 /\ \E optional \in {{}, Identity!Postgres} :
                      environment.others = Identity!Locked(Identity!Runtime \cup optional, i.release["locks"])
                        \cup provider
                 /\ preflight.kit => i.kit.commit = i.commit
                 /\ ~preflight.moved =>
                      /\ environment.parts = i.release
                      /\ Identity!InstalledReleaseIdentity = i.release
  <2> PICK f : f = preflight
    OBVIOUS
  <2>1. ExaminationStands(f) /\ f.pc = "passed" /\ f \in Identity!Examination
        /\ environment \in Identity!Installation
    BY <1>2 DEF IdentityInv, Identity!TypeOK, ExaminationStands
  <2>2. f.read.release = f.inventory /\ f.locks = f.inventory["locks"]
    BY <2>1 DEF ExaminationStands
  <2>3. \A part \in {"code", "locks"} : environment.parts[part] = f.read.release[part]
    BY <2>1, <2>2 DEF ExaminationStands
  <2>4. environment.origin = f.read.digest /\ (f.kit => f.read.kit.commit = f.read.commit)
    BY <2>1 DEF ExaminationStands
  <2>5. \E optional \in {{}, Identity!Postgres} :
          environment.others = Identity!Locked(Identity!Runtime \cup optional, f.read.release["locks"])
            \cup IF f.kit THEN {<<"provider", f.read.kit.content>>} ELSE {}
    BY <2>1, <2>2 DEF ExaminationStands
  <2>6. ASSUME ~f.moved
        PROVE  environment.parts = f.read.release /\ Identity!InstalledReleaseIdentity = f.read.release
    <3>1. environment.inventory = f.inventory
          /\ environment.parts["migrations"] = f.inventory["migrations"]
      BY <2>1, <2>6 DEF ExaminationStands
    <3>2. DOMAIN environment.parts = Identity!Released /\ DOMAIN f.inventory = Identity!Released
          /\ environment.parts = [part \in Identity!Released |-> environment.parts[part]]
          /\ f.inventory = [part \in Identity!Released |-> f.inventory[part]]
      BY <2>1 DEF Identity!Installation, Identity!Examination, Identity!Inventories
    <3>3. \A part \in Identity!Released : environment.parts[part] = f.inventory[part]
      BY <3>1, <2>2, <2>3 DEF Identity!Released
    <3>4. environment.parts = f.inventory
      BY <3>2, <3>3
    <3>5. Identity!PackageIs(environment.inventory)
      BY <3>1, <2>2, <2>3 DEF Identity!PackageIs
    <3> QED BY <3>1, <3>4, <3>5, <2>2 DEF Identity!InstalledReleaseIdentity
  <2> QED BY <2>3, <2>4, <2>5, <2>6
<1>3. Identity!PassedIsTheRelease
  BY <1>2 DEF Identity!PassedIsTheRelease
<1> QED BY <1>1, <1>3 DEF Identity!ReleaseIsWhole

LEMMA IdentityInit ==
  ASSUME IdentityAssumption, Identity!Init
  PROVE  IdentityInv
<1> PICK c \in Contents :
      /\ checkout = [parts |-> [part \in Identity!Parts |-> c],
                     inventory |-> Identity!Inventory([part \in Identity!Parts |-> c]),
                     head |-> [parts |-> [part \in Identity!Parts |-> c],
                               inventory |-> Identity!Inventory([part \in Identity!Parts |-> c])]]
      /\ preparation = [p \in Preparers |-> None] /\ inputs = [t \in Targets |-> None]
      /\ environment = None /\ preflight = None
  BY DEF Identity!Init
<1> PICK parts : parts = [part \in Identity!Parts |-> c]
  OBVIOUS
<1>1. parts \in [Identity!Parts -> Contents] /\ Identity!Inventory(parts) \in Identity!Inventories
  BY DEF Identity!Inventory, Identity!Inventories, Identity!Parts
<1>2. checkout \in [parts : [Identity!Parts -> Contents], inventory : Identity!Inventories, head : Identity!Trees]
  BY <1>1 DEF Identity!Trees
<1>3. Identity!TypeOK
  BY <1>2 DEF Identity!TypeOK
<1> QED BY <1>3 DEF IdentityInv

LEMMA CheckoutIsTyped ==
  ASSUME IdentityInv
  PROVE  /\ checkout.parts \in [Identity!Parts -> Contents] /\ checkout.inventory \in Identity!Inventories
         /\ checkout.head \in Identity!Trees
         /\ Identity!Inventory(checkout.parts) \in Identity!Inventories
         /\ \A part \in Identity!Parts : checkout.parts[part] \in Contents
         /\ \A part \in Identity!Released : Identity!Inventory(checkout.parts)[part] = checkout.parts[part]
<1>1. checkout.parts \in [Identity!Parts -> Contents] /\ checkout.inventory \in Identity!Inventories
      /\ checkout.head \in Identity!Trees
  BY DEF IdentityInv, Identity!TypeOK
<1>2. Identity!Released \subseteq Identity!Parts
  BY DEF Identity!Parts
<1>3. \A part \in Identity!Released : checkout.parts[part] \in Contents
  BY <1>1, <1>2
<1> QED BY <1>1, <1>3 DEF Identity!Inventory, Identity!Inventories

\* The checkout moves: no preparation is quiet any more.
LEMMA CheckoutMoves ==
  ASSUME IdentityAssumption, IdentityInv, Identity!Moving,
         UNCHANGED <<inputs, environment, preflight>>,
         checkout' \in [parts : [Identity!Parts -> Contents], inventory : Identity!Inventories, head : Identity!Trees]
  PROVE  IdentityInv'
<1>1. ASSUME NEW p \in Preparers
      PROVE  /\ preparation'[p] \in Identity!Preparation \cup {None}
             /\ (preparation[p] # None => PreparationStands(preparation[p]))'
  <2>1. CASE preparation[p] = None
    BY <2>1 DEF Identity!Moving
  <2>2. CASE preparation[p] # None
    <3> PICK q : q = preparation[p]
      OBVIOUS
    <3> PICK r : r = [q EXCEPT !.quiet = FALSE]
      OBVIOUS
    <3>1. preparation'[p] = r
      BY <2>2 DEF Identity!Moving
    <3>2. q \in Identity!Preparation /\ PreparationStands(q)
      BY <2>2 DEF IdentityInv, Identity!TypeOK
    <3>3. r \in Identity!Preparation /\ r.quiet = FALSE /\ r.pc = q.pc /\ r.wheel = q.wheel /\ r.kit = q.kit
          /\ r.locks = q.locks
      BY <3>2 DEF Identity!Preparation
    <3>4. PreparationStands(r)'
      BY <3>2, <3>3 DEF PreparationStands
    <3> QED BY <3>1, <3>3, <3>4 DEF PreparationStands
  <2> QED BY <2>1, <2>2
<1>2. preparation' \in [Preparers -> Identity!Preparation \cup {None}]
  <2>1. DOMAIN preparation' = Preparers /\ preparation' = [p \in Preparers |-> preparation'[p]]
    BY DEF Identity!Moving
  <2> QED BY <1>1, <2>1
<1>3. Identity!TypeOK'
  BY <1>2 DEF IdentityInv, Identity!TypeOK
<1>4. \A i : InputsAreWhole(i)' <=> InputsAreWhole(i)
  BY DEF InputsAreWhole
<1>5. \A f : (ExaminationStands(f)' <=> ExaminationStands(f)) /\ (HasInputs(f)' <=> HasInputs(f))
  BY DEF ExaminationStands, HasInputs
<1> QED BY <1>1, <1>3, <1>4, <1>5 DEF IdentityInv

LEMMA CheckoutKeeps ==
  ASSUME IdentityAssumption, IdentityInv, Identity!CheckoutStep
  PROVE  IdentityInv'
<1>1. ASSUME NEW part \in Identity!Parts, NEW c \in Contents, Identity!Edit(part, c)
      PROVE  IdentityInv'
  <2> PICK parts : parts = [checkout.parts EXCEPT ![part] = c]
    OBVIOUS
  <2>1. parts \in [Identity!Parts -> Contents]
    BY CheckoutIsTyped
  <2>2. checkout' = [checkout EXCEPT !.parts = parts]
    BY <1>1 DEF Identity!Edit, IdentityInv, Identity!TypeOK
  <2>3. checkout' \in [parts : [Identity!Parts -> Contents], inventory : Identity!Inventories, head : Identity!Trees]
    BY <2>1, <2>2 DEF IdentityInv, Identity!TypeOK
  <2>4. Identity!Moving /\ UNCHANGED <<inputs, environment, preflight>>
    BY <1>1 DEF Identity!Edit
  <2> QED BY <2>3, <2>4, CheckoutMoves
<1>2. ASSUME Identity!WriteInventory PROVE IdentityInv'
  <2>1. checkout' = [checkout EXCEPT !.inventory = Identity!Inventory(checkout.parts)]
    BY <1>2 DEF Identity!WriteInventory
  <2>2. checkout' \in [parts : [Identity!Parts -> Contents], inventory : Identity!Inventories, head : Identity!Trees]
    BY <2>1, CheckoutIsTyped DEF IdentityInv, Identity!TypeOK
  <2>3. Identity!Moving /\ UNCHANGED <<inputs, environment, preflight>>
    BY <1>2 DEF Identity!WriteInventory
  <2> QED BY <2>2, <2>3, CheckoutMoves
<1>3. ASSUME Identity!Commit PROVE IdentityInv'
  <2>1. checkout' = [checkout EXCEPT !.head = Identity!Work]
    BY <1>3 DEF Identity!Commit
  <2>2. Identity!Work \in Identity!Trees
    BY CheckoutIsTyped DEF Identity!Work, Identity!Trees
  <2>3. checkout' \in [parts : [Identity!Parts -> Contents], inventory : Identity!Inventories, head : Identity!Trees]
    BY <2>1, <2>2 DEF IdentityInv, Identity!TypeOK
  <2>4. Identity!Moving /\ UNCHANGED <<inputs, environment, preflight>>
    BY <1>3 DEF Identity!Commit
  <2> QED BY <2>3, <2>4, CheckoutMoves
<1> QED BY <1>1, <1>2, <1>3, Zenon DEF Identity!CheckoutStep

\* What a step of a preparation has to show.
LEMMA PreparationOne ==
  ASSUME IdentityAssumption, IdentityInv, NEW p \in Preparers, NEW check, NEW made,
         Identity!Proceed(p, check, made),
         check => made \in Identity!Preparation /\ PreparationStands(made)
  PROVE  IdentityInv'
<1>1. preparation' = [preparation EXCEPT ![p] = IF check THEN made ELSE None]
      /\ checkout' = checkout /\ inputs' = inputs /\ environment' = environment /\ preflight' = preflight
  BY DEF Identity!Proceed
<1>2. preparation' \in [Preparers -> Identity!Preparation \cup {None}]
  BY <1>1 DEF IdentityInv, Identity!TypeOK
<1>3. Identity!TypeOK'
  BY <1>1, <1>2 DEF IdentityInv, Identity!TypeOK
<1>4. \A q : PreparationStands(q)' <=> PreparationStands(q)
  BY <1>1 DEF PreparationStands
<1>5. ASSUME NEW o \in Preparers, preparation'[o] # None PROVE PreparationStands(preparation'[o])
  <2>1. CASE o = p
    BY <2>1, <1>1, <1>5 DEF IdentityInv, Identity!TypeOK
  <2>2. CASE o # p
    BY <2>2, <1>1, <1>5 DEF IdentityInv, Identity!TypeOK
  <2> QED BY <2>1, <2>2
<1>6. \A i : InputsAreWhole(i)' <=> InputsAreWhole(i)
  BY DEF InputsAreWhole
<1>7. \A f : (ExaminationStands(f)' <=> ExaminationStands(f)) /\ (HasInputs(f)' <=> HasInputs(f))
  BY <1>1 DEF ExaminationStands, HasInputs
<1> QED BY <1>1, <1>3, <1>4, <1>5, <1>6, <1>7 DEF IdentityInv

LEMMA PreparesReading ==
  ASSUME IdentityAssumption, IdentityInv, NEW p \in Preparers,
         \/ \E t \in Targets : Identity!LoadInventory(p, t)
         \/ Identity!GitIdentity(p) \/ Identity!Download(p)
  PROVE  IdentityInv'
<1> PICK q : q = preparation[p]
  OBVIOUS
<1>0. q # None => q \in Identity!Preparation /\ PreparationStands(q)
  BY DEF IdentityInv, Identity!TypeOK
<1>1. ASSUME NEW t \in Targets, Identity!LoadInventory(p, t) PROVE IdentityInv'
  <2> PICK made : made = [pc |-> "loaded", target |-> t, quiet |-> TRUE, release |-> checkout.inventory,
                          commit |-> None, wheel |-> None, kit |-> None, locks |-> None]
    OBVIOUS
  <2>1. Identity!Proceed(p, Identity!Current, made)
    BY <1>1 DEF Identity!LoadInventory
  <2>2. made \in Identity!Preparation
    BY CheckoutIsTyped DEF Identity!Preparation
  <2>3. Identity!Current => PreparationStands(made)
    BY DEF Identity!Current, PreparationStands
  <2> QED BY <2>1, <2>2, <2>3, PreparationOne
<1>2. ASSUME Identity!GitIdentity(p) PROVE IdentityInv'
  <2> PICK made : made = [q EXCEPT !.pc = "identified", !.commit = checkout.head]
    OBVIOUS
  <2> PICK check : check = (Identity!Clean /\ inputs[q.target] = None)
    OBVIOUS
  <2>1. Identity!Proceed(p, check, made) /\ q # None /\ q.pc = "loaded"
    BY <1>2 DEF Identity!GitIdentity, Identity!At
  <2>2. made \in Identity!Preparation
    BY <2>1, <1>0, CheckoutIsTyped DEF Identity!Preparation
  <2>3. made.pc = "identified" /\ made.quiet = q.quiet /\ made.release = q.release /\ made.commit = checkout.head
    BY <2>1, <1>0 DEF Identity!Preparation
  <2>4. check => Identity!Inventory(made.commit.parts) = Identity!Inventory(checkout.parts)
    <3>1. check => checkout.head = Identity!Work
      BY DEF Identity!Clean
    <3>2. Identity!Work.parts = checkout.parts
      BY DEF Identity!Work
    <3> QED BY <3>1, <3>2, <2>3
  <2>5. check => PreparationStands(made)
    BY <2>1, <2>3, <2>4, <1>0 DEF PreparationStands
  <2> QED BY <2>1, <2>2, <2>5, PreparationOne
<1>3. ASSUME Identity!Download(p) PROVE IdentityInv'
  <2> PICK made : made = [q EXCEPT !.pc = "downloaded"]
    OBVIOUS
  <2> PICK check : check = (checkout.parts["locks"] = q.release["locks"])
    OBVIOUS
  <2>1. Identity!Proceed(p, check, made) /\ q # None /\ q.pc = "identified"
    BY <1>3 DEF Identity!Download, Identity!At
  <2>2. made \in Identity!Preparation
    BY <2>1, <1>0 DEF Identity!Preparation
  <2>3. made.pc = "downloaded" /\ made.quiet = q.quiet /\ made.release = q.release /\ made.commit = q.commit
    BY <2>1, <1>0 DEF Identity!Preparation
  <2>4. PreparationStands(made)
    BY <2>1, <2>3, <1>0 DEF PreparationStands
  <2> QED BY <2>1, <2>2, <2>4, PreparationOne
<1> QED BY <1>1, <1>2, <1>3

LEMMA PreparesCopying ==
  ASSUME IdentityAssumption, IdentityInv, NEW p \in Preparers,
         Identity!CopyPackage(p) \/ Identity!BuildWheels(p) \/ Identity!Assemble(p) \/ Identity!Die(p)
  PROVE  IdentityInv'
<1> PICK q : q = preparation[p]
  OBVIOUS
<1>0. q # None => q \in Identity!Preparation /\ PreparationStands(q)
  BY DEF IdentityInv, Identity!TypeOK
<1>a. /\ checkout.parts["code"] \in Contents /\ checkout.parts["locks"] \in Contents
      /\ checkout.parts["migrations"] \in Contents /\ checkout.parts["fixture"] \in Contents
      /\ Identity!Inventory(checkout.parts)["code"] = checkout.parts["code"]
      /\ Identity!Inventory(checkout.parts)["locks"] = checkout.parts["locks"]
      /\ Identity!Inventory(checkout.parts)["migrations"] = checkout.parts["migrations"]
  BY CheckoutIsTyped DEF Identity!Parts, Identity!Released
<1>1. ASSUME Identity!CopyPackage(p) PROVE IdentityInv'
  <2> PICK wheel : wheel = [code |-> checkout.parts["code"], locks |-> checkout.parts["locks"],
                            migrations |-> None, inventory |-> checkout.inventory]
    OBVIOUS
  <2> PICK made : made = [q EXCEPT !.pc = "copied", !.wheel = wheel]
    OBVIOUS
  <2>1. Identity!Proceed(p, TRUE, made) /\ q # None /\ q.pc = "downloaded"
    BY <1>1 DEF Identity!CopyPackage, Identity!At
  <2>2. wheel \in Identity!Wheels
    BY <1>a, CheckoutIsTyped DEF Identity!Wheels
  <2>3. made \in Identity!Preparation /\ made.pc = "copied" /\ made.quiet = q.quiet
        /\ made.release = q.release /\ made.commit = q.commit /\ made.wheel = wheel
    BY <2>1, <2>2, <1>0 DEF Identity!Preparation
  <2>4. PreparationStands(made)
    <3>1. q.quiet => q.release = checkout.inventory /\ q.release = Identity!Inventory(checkout.parts)
                     /\ Identity!Inventory(q.commit.parts) = q.release
      BY <2>1, <1>0 DEF PreparationStands
    <3>2. q.quiet => wheel.inventory = q.release /\ wheel.code = q.release["code"] /\ wheel.locks = q.release["locks"]
      BY <3>1, <1>a
    <3> QED BY <3>1, <3>2, <2>2, <2>3 DEF PreparationStands
  <2> QED BY <2>1, <2>3, <2>4, PreparationOne
<1>2. ASSUME Identity!BuildWheels(p) PROVE IdentityInv'
  <2> PICK wheel : wheel = [q.wheel EXCEPT !.migrations = checkout.parts["migrations"]]
    OBVIOUS
  <2> PICK kit : kit = [release |-> q.release, commit |-> q.commit, wheel |-> checkout.parts["fixture"],
                        digest |-> checkout.parts["fixture"], content |-> None]
    OBVIOUS
  <2> PICK made : made = [q EXCEPT !.pc = "built", !.wheel = wheel, !.kit = kit]
    OBVIOUS
  <2>1. q # None /\ q.pc = "copied"
    BY <1>2 DEF Identity!BuildWheels, Identity!At
  <2>2. q \in Identity!Preparation /\ q.wheel \in Identity!Wheels
    BY <2>1, <1>0 DEF PreparationStands
  <2>3. Identity!Proceed(p, TRUE, made)
    BY <1>2, <2>2 DEF Identity!BuildWheels, Identity!Preparation
  <2>4. wheel \in Identity!Wheels /\ wheel.code = q.wheel.code /\ wheel.locks = q.wheel.locks
        /\ wheel.inventory = q.wheel.inventory /\ wheel.migrations = checkout.parts["migrations"]
    BY <2>2, <1>a DEF Identity!Wheels
  <2>5. kit \in Identity!Kits /\ kit.digest = checkout.parts["fixture"]
    BY <2>2, <1>a DEF Identity!Kits, Identity!Preparation
  <2>6. made \in Identity!Preparation /\ made.pc = "built" /\ made.quiet = q.quiet
        /\ made.release = q.release /\ made.commit = q.commit /\ made.wheel = wheel /\ made.kit = kit
    BY <2>2, <2>4, <2>5 DEF Identity!Preparation
  <2>7. PreparationStands(made)
    <3>1. q.quiet => q.release = checkout.inventory /\ q.release = Identity!Inventory(checkout.parts)
                     /\ Identity!Inventory(q.commit.parts) = q.release /\ q.wheel.inventory = q.release
                     /\ q.wheel.code = q.release["code"] /\ q.wheel.locks = q.release["locks"]
      BY <2>1, <1>0 DEF PreparationStands
    <3>2. q.quiet => wheel.inventory = q.release /\ wheel.code = q.release["code"]
                     /\ wheel.locks = q.release["locks"] /\ wheel.migrations = q.release["migrations"]
      BY <3>1, <2>4, <1>a
    <3> QED BY <3>1, <3>2, <2>4, <2>5, <2>6 DEF PreparationStands
  <2> QED BY <2>3, <2>6, <2>7, PreparationOne
<1>3. ASSUME Identity!Assemble(p) PROVE IdentityInv'
  <2> PICK kit : kit = [q.kit EXCEPT !.content = checkout.parts["fixture"]]
    OBVIOUS
  <2> PICK made : made = [q EXCEPT !.pc = "assembled", !.locks = checkout.parts["locks"], !.kit = kit]
    OBVIOUS
  <2>1. q # None /\ q.pc = "built"
    BY <1>3 DEF Identity!Assemble, Identity!At
  <2>2. q \in Identity!Preparation /\ q.wheel \in Identity!Wheels /\ q.kit \in Identity!Kits
    BY <2>1, <1>0 DEF PreparationStands
  <2>3. Identity!Proceed(p, TRUE, made)
    BY <1>3, <2>2 DEF Identity!Assemble, Identity!Preparation
  <2>4. kit \in Identity!Kits /\ kit.digest = q.kit.digest /\ kit.content = checkout.parts["fixture"]
    BY <2>2, <1>a DEF Identity!Kits
  <2>5. made \in Identity!Preparation /\ made.pc = "assembled" /\ made.quiet = q.quiet
        /\ made.release = q.release /\ made.commit = q.commit /\ made.wheel = q.wheel /\ made.kit = kit
        /\ made.locks = checkout.parts["locks"]
    BY <2>2, <2>4, <1>a DEF Identity!Preparation
  <2>6. PreparationStands(made)
    <3>1. q.quiet => q.release = checkout.inventory /\ q.release = Identity!Inventory(checkout.parts)
                     /\ Identity!Inventory(q.commit.parts) = q.release /\ q.wheel.inventory = q.release
                     /\ q.wheel.code = q.release["code"] /\ q.wheel.locks = q.release["locks"]
                     /\ q.wheel.migrations = q.release["migrations"]
                     /\ q.kit.digest = checkout.parts["fixture"]
      BY <2>1, <1>0 DEF PreparationStands
    <3> QED BY <3>1, <2>2, <2>4, <2>5, <1>a DEF PreparationStands
  <2> QED BY <2>3, <2>5, <2>6, PreparationOne
<1>4. ASSUME Identity!Die(p) PROVE IdentityInv'
  <2>1. Identity!Proceed(p, FALSE, None)
    BY <1>4 DEF Identity!Die, Identity!Proceed
  <2> QED BY <2>1, PreparationOne
<1> QED BY <1>1, <1>2, <1>3, <1>4

LEMMA LockedIsTyped ==
  ASSUME NEW c \in Contents,
         NEW names \in SUBSET (Identity!Runtime \cup Identity!Postgres \cup {"other", "provider"})
  PROVE  Identity!Locked(names, c) \in SUBSET Identity!Distributions
BY DEF Identity!Locked, Identity!Distributions

LEMMA PreparePublishes ==
  ASSUME IdentityAssumption, IdentityInv, NEW p \in Preparers, Identity!Publish(p)
  PROVE  IdentityInv'
<1> PICK q : q = preparation[p]
  OBVIOUS
<1> PICK others : others = Identity!Locked(Identity!Runtime \cup Identity!Postgres, q.release["locks"])
  OBVIOUS
<1> PICK i : i = [release |-> q.release, commit |-> q.commit, quiet |-> q.quiet,
                  locks |-> q.locks, wheel |-> q.wheel, digest |-> q.wheel, others |-> others, kit |-> q.kit]
  OBVIOUS
<1>1. /\ q # None /\ q.pc = "assembled"
      /\ preparation' = [preparation EXCEPT ![p] = None]
      /\ inputs' = inputs \/ inputs' = [inputs EXCEPT ![q.target] = i]
      /\ checkout' = checkout /\ environment' = environment /\ preflight' = preflight
  BY DEF Identity!Publish, Identity!At
<1>2. q \in Identity!Preparation /\ PreparationStands(q)
  BY <1>1 DEF IdentityInv, Identity!TypeOK
<1>3. q.wheel \in Identity!Wheels /\ q.kit \in Identity!Kits /\ q.locks \in Contents /\ q.target \in Targets
      /\ q.release \in Identity!Inventories
  BY <1>1, <1>2 DEF PreparationStands, Identity!Preparation
<1>4. others \in SUBSET Identity!Distributions
  <2>1. q.release["locks"] \in Contents
    BY <1>3 DEF Identity!Inventories, Identity!Released
  <2> QED BY <2>1, LockedIsTyped
<1>5. i \in Identity!InstallInputs
  BY <1>2, <1>3, <1>4 DEF Identity!InstallInputs, Identity!Preparation
<1>6. InputsAreWhole(i)
  <2>1. q.quiet => /\ Identity!Inventory(q.commit.parts) = q.release /\ q.wheel.inventory = q.release
                   /\ q.wheel.code = q.release["code"] /\ q.wheel.locks = q.release["locks"]
                   /\ q.wheel.migrations = q.release["migrations"] /\ q.kit.content = q.kit.digest
    BY <1>1, <1>2 DEF PreparationStands
  <2>2. q.quiet => \A part \in Identity!Released : q.wheel[part] = q.release[part]
    BY <2>1 DEF Identity!Released
  <2> QED BY <2>1, <2>2 DEF InputsAreWhole
<1>7. inputs' \in [Targets -> Identity!InstallInputs \cup {None}]
  BY <1>1, <1>3, <1>5 DEF IdentityInv, Identity!TypeOK
<1>8. preparation' \in [Preparers -> Identity!Preparation \cup {None}]
  BY <1>1 DEF IdentityInv, Identity!TypeOK
<1>9. Identity!TypeOK'
  BY <1>1, <1>7, <1>8 DEF IdentityInv, Identity!TypeOK
<1>10. ASSUME NEW t \in Targets, inputs'[t] # None PROVE InputsAreWhole(inputs'[t])
  <2>1. CASE inputs'[t] = i
    BY <2>1, <1>6
  <2>2. CASE inputs'[t] = inputs[t]
    BY <2>2, <1>10 DEF IdentityInv
  <2>3. inputs'[t] \in {i, inputs[t]}
    BY <1>1, <1>3 DEF IdentityInv, Identity!TypeOK
  <2> QED BY <2>1, <2>2, <2>3
<1>11. ASSUME NEW o \in Preparers, preparation'[o] # None PROVE PreparationStands(preparation'[o])
  BY <1>1, <1>11 DEF IdentityInv, Identity!TypeOK
<1>12. \A x : PreparationStands(x)' <=> PreparationStands(x)
  BY <1>1 DEF PreparationStands
<1>13. \A f : ExaminationStands(f)' <=> ExaminationStands(f)
  BY <1>1 DEF ExaminationStands
<1>14. \A x : InputsAreWhole(x)' <=> InputsAreWhole(x)
  BY DEF InputsAreWhole
<1>15. ASSUME preflight # None PROVE HasInputs(preflight)'
  <2> PICK f : f = preflight
    OBVIOUS
  <2>1. f.target \in Targets /\ HasInputs(f) /\ i # None
    BY <1>5, <1>15 DEF IdentityInv, Identity!TypeOK, Identity!Examination, IdentityAssumption
  <2>2. inputs[f.target] # None => inputs'[f.target] # None
    BY <2>1, <1>1, <1>3 DEF IdentityInv, Identity!TypeOK
  <2> QED BY <2>1, <2>2, <1>1 DEF HasInputs
<1> QED BY <1>1, <1>9, <1>10, <1>11, <1>12, <1>13, <1>14, <1>15 DEF IdentityInv

\* The host changes: what a preflight has read stands, that it is so does not.
LEMMA HostMoves ==
  ASSUME IdentityAssumption, IdentityInv, Identity!Disturb, UNCHANGED <<checkout, preparation>>,
         inputs' \in [Targets -> Identity!InstallInputs \cup {None}],
         environment' \in Identity!Installation \cup {None}, environment # None => environment' # None,
         \A t \in Targets : inputs[t] # None => inputs'[t] # None,
         \A t \in Targets : inputs'[t] # None => InputsAreWhole(inputs'[t])
  PROVE  IdentityInv'
<1>1. /\ preflight' \in Identity!Examination \cup {None}
      /\ (preflight # None => ExaminationStands(preflight))'
      /\ (preflight # None => HasInputs(preflight))'
  <2>1. CASE preflight = None \/ preflight.pc = "passed"
    BY <2>1 DEF Identity!Disturb
  <2>2. CASE preflight # None /\ preflight.pc # "passed"
    <3> PICK f : f = preflight
      OBVIOUS
    <3> PICK g : g = [f EXCEPT !.moved = TRUE]
      OBVIOUS
    <3>1. preflight' = g
      BY <2>2 DEF Identity!Disturb
    <3>2. f \in Identity!Examination /\ ExaminationStands(f) /\ HasInputs(f) /\ f.pc # "passed"
      BY <2>2 DEF IdentityInv, Identity!TypeOK
    <3>3. g \in Identity!Examination /\ g.moved = TRUE /\ g.pc = f.pc /\ g.locks = f.locks
          /\ g.inventory = f.inventory /\ g.read = f.read /\ g.kit = f.kit
          /\ g.target = f.target /\ f.target \in Targets
      BY <3>2 DEF Identity!Examination
    <3>4. environment' # None
      BY <3>2 DEF ExaminationStands
    <3>5. ExaminationStands(g)'
      BY <3>2, <3>3, <3>4 DEF ExaminationStands
    <3>6. HasInputs(g)'
      BY <3>2, <3>3 DEF HasInputs
    <3> QED BY <3>1, <3>3, <3>5, <3>6 DEF ExaminationStands, HasInputs
  <2> QED BY <2>1, <2>2
<1>2. Identity!TypeOK'
  BY <1>1 DEF IdentityInv, Identity!TypeOK
<1>3. \A q : PreparationStands(q)' <=> PreparationStands(q)
  BY DEF PreparationStands
<1>4. \A i : InputsAreWhole(i)' <=> InputsAreWhole(i)
  BY DEF InputsAreWhole
<1> QED BY <1>1, <1>2, <1>3, <1>4 DEF IdentityInv

LEMMA InputsChange ==
  ASSUME IdentityAssumption, IdentityInv, Identity!Disturb,
         UNCHANGED <<checkout, preparation, environment>>,
         NEW t \in Targets, NEW j \in Identity!InstallInputs, InputsAreWhole(j),
         inputs' = [inputs EXCEPT ![t] = j]
  PROVE  IdentityInv'
<1>1. inputs' \in [Targets -> Identity!InstallInputs \cup {None}]
  BY DEF IdentityInv, Identity!TypeOK
<1>2. ASSUME NEW u \in Targets, inputs'[u] # None PROVE InputsAreWhole(inputs'[u])
  BY <1>2 DEF IdentityInv, Identity!TypeOK
<1>3. environment' \in Identity!Installation \cup {None}
  BY DEF IdentityInv, Identity!TypeOK
<1>4. ASSUME NEW u \in Targets, inputs[u] # None PROVE inputs'[u] # None
  BY <1>4 DEF IdentityInv, Identity!TypeOK, IdentityAssumption
<1> QED BY <1>1, <1>2, <1>3, <1>4, HostMoves

LEMMA HostDamages ==
  ASSUME IdentityAssumption, IdentityInv, NEW t \in Targets, NEW c \in Contents, Identity!Damage(t, c)
  PROVE  IdentityInv'
<1> PICK i : i = inputs[t]
  OBVIOUS
<1>1. i # None /\ Identity!Disturb /\ UNCHANGED <<checkout, preparation, environment>>
  BY DEF Identity!Damage
<1>2. i \in Identity!InstallInputs /\ InputsAreWhole(i) /\ i.wheel \in Identity!Wheels /\ i.kit \in Identity!Kits
      /\ i.others \in SUBSET Identity!Distributions
  BY <1>1 DEF IdentityInv, Identity!TypeOK, Identity!InstallInputs
<1>3. inputs = [u \in Targets |-> inputs[u]]
  BY DEF IdentityInv, Identity!TypeOK
<1>4. CASE inputs' = [inputs EXCEPT ![t].wheel.code = c]
  <2> PICK wheel : wheel = [i.wheel EXCEPT !.code = c]
    OBVIOUS
  <2> PICK j : j = [i EXCEPT !.wheel = wheel]
    OBVIOUS
  <2>1. inputs' = [inputs EXCEPT ![t] = j]
    BY <1>3, <1>4, <1>2
  <2>2. wheel \in Identity!Wheels
    BY <1>2 DEF Identity!Wheels
  <2>3. j \in Identity!InstallInputs /\ j.quiet = i.quiet /\ j.release = i.release /\ j.digest = i.digest
        /\ j.commit = i.commit /\ j.kit = i.kit
    BY <1>2, <2>2 DEF Identity!InstallInputs
  <2>4. InputsAreWhole(j)
    BY <1>2, <2>3 DEF InputsAreWhole
  <2> QED BY <1>1, <2>1, <2>3, <2>4, InputsChange
<1>5. CASE inputs' = [inputs EXCEPT ![t].locks = c]
  <2> PICK j : j = [i EXCEPT !.locks = c]
    OBVIOUS
  <2>1. inputs' = [inputs EXCEPT ![t] = j]
    BY <1>3, <1>5, <1>2
  <2>2. j \in Identity!InstallInputs /\ j.quiet = i.quiet /\ j.release = i.release /\ j.digest = i.digest
        /\ j.commit = i.commit /\ j.kit = i.kit
    BY <1>2 DEF Identity!InstallInputs
  <2>3. InputsAreWhole(j)
    BY <1>2, <2>2 DEF InputsAreWhole
  <2> QED BY <1>1, <2>1, <2>2, <2>3, InputsChange
<1>6. CASE inputs' = [inputs EXCEPT ![t].kit.wheel = c]
  <2> PICK kit : kit = [i.kit EXCEPT !.wheel = c]
    OBVIOUS
  <2> PICK j : j = [i EXCEPT !.kit = kit]
    OBVIOUS
  <2>1. inputs' = [inputs EXCEPT ![t] = j]
    BY <1>3, <1>6, <1>2
  <2>2. kit \in Identity!Kits /\ kit.digest = i.kit.digest /\ kit.content = i.kit.content
    BY <1>2 DEF Identity!Kits
  <2>3. j \in Identity!InstallInputs /\ j.quiet = i.quiet /\ j.release = i.release /\ j.digest = i.digest
        /\ j.commit = i.commit /\ j.kit = kit
    BY <1>2, <2>2 DEF Identity!InstallInputs
  <2>4. InputsAreWhole(j)
    BY <1>2, <2>2, <2>3 DEF InputsAreWhole
  <2> QED BY <1>1, <2>1, <2>3, <2>4, InputsChange
<1>7. CASE inputs' = [inputs EXCEPT ![t].others = @ \cup Identity!Locked({"other"}, c)]
  <2> PICK others : others = i.others \cup Identity!Locked({"other"}, c)
    OBVIOUS
  <2> PICK j : j = [i EXCEPT !.others = others]
    OBVIOUS
  <2>1. inputs' = [inputs EXCEPT ![t] = j]
    BY <1>3, <1>7, <1>2
  <2>2. others \in SUBSET Identity!Distributions
    BY <1>2, LockedIsTyped
  <2>3. j \in Identity!InstallInputs /\ j.quiet = i.quiet /\ j.release = i.release /\ j.digest = i.digest
        /\ j.commit = i.commit /\ j.kit = i.kit
    BY <1>2, <2>2 DEF Identity!InstallInputs
  <2>4. InputsAreWhole(j)
    BY <1>2, <2>3 DEF InputsAreWhole
  <2> QED BY <1>1, <2>1, <2>3, <2>4, InputsChange
<1> QED BY <1>4, <1>5, <1>6, <1>7 DEF Identity!Damage

LEMMA InstallationChanges ==
  ASSUME IdentityAssumption, IdentityInv, Identity!Disturb, UNCHANGED <<checkout, preparation, inputs>>,
         environment' \in Identity!Installation
  PROVE  IdentityInv'
<1>1. inputs' \in [Targets -> Identity!InstallInputs \cup {None}]
      /\ \A t \in Targets : inputs'[t] # None => InputsAreWhole(inputs'[t])
  BY DEF IdentityInv, Identity!TypeOK
<1>2. environment' # None
  BY DEF IdentityAssumption
<1> QED BY <1>1, <1>2, HostMoves

LEMMA HostInstalls ==
  ASSUME IdentityAssumption, IdentityInv, NEW t \in Targets, NEW optional \in {{}, Identity!Postgres},
         NEW kit \in BOOLEAN, Identity!Install(t, optional, kit)
  PROVE  IdentityInv'
<1> PICK i : i = inputs[t]
  OBVIOUS
<1>1. i # None /\ Identity!Disturb /\ UNCHANGED <<checkout, preparation, inputs>>
  BY DEF Identity!Install
<1>2. i \in Identity!InstallInputs /\ i.wheel \in Identity!Wheels /\ i.kit.wheel \in Contents /\ i.locks \in Contents
  BY <1>1 DEF IdentityInv, Identity!TypeOK, Identity!InstallInputs, Identity!Kits
<1> PICK parts : parts = [part \in Identity!Released |-> i.wheel[part]]
  OBVIOUS
<1> PICK provider : provider = IF kit THEN {<<"provider", i.kit.wheel>>} ELSE {}
  OBVIOUS
<1> PICK locked : locked = Identity!Locked(Identity!Runtime \cup optional, i.locks)
  OBVIOUS
<1>3. environment' = [parts |-> parts, inventory |-> i.wheel.inventory, origin |-> i.wheel,
                      others |-> locked \cup provider]
  BY DEF Identity!Install
<1>4. parts \in [Identity!Released -> Contents \cup {None}]
  <2>1. \A part \in Identity!Released : i.wheel[part] \in Contents \cup {None}
    BY <1>2 DEF Identity!Released, Identity!Wheels
  <2> QED BY <2>1
<1>5. locked \in SUBSET Identity!Distributions
  BY <1>2, LockedIsTyped
<1>6. provider \in SUBSET Identity!Distributions
  BY <1>2 DEF Identity!Distributions
<1>7. i.wheel.inventory \in Identity!Inventories
  BY <1>2 DEF Identity!Wheels
<1>8. environment' \in Identity!Installation
  BY <1>2, <1>3, <1>4, <1>5, <1>6, <1>7 DEF Identity!Installation
<1> QED BY <1>1, <1>8, InstallationChanges

LEMMA HostDrifts ==
  ASSUME IdentityAssumption, IdentityInv, NEW part \in Identity!Released, NEW c \in Contents,
         Identity!Drift(part, c)
  PROVE  IdentityInv'
<1>1. environment # None /\ Identity!Disturb /\ UNCHANGED <<checkout, preparation, inputs>>
  BY DEF Identity!Drift
<1>2. environment \in Identity!Installation
  BY <1>1 DEF IdentityInv, Identity!TypeOK
<1>3. ASSUME environment' = [environment EXCEPT !.parts[part] = c] PROVE environment' \in Identity!Installation
  <2> PICK parts : parts = [environment.parts EXCEPT ![part] = c]
    OBVIOUS
  <2>1. parts \in [Identity!Released -> Contents \cup {None}]
    BY <1>2 DEF Identity!Installation
  <2>2. environment' = [environment EXCEPT !.parts = parts]
    BY <1>2, <1>3 DEF Identity!Installation
  <2> QED BY <1>2, <2>1, <2>2 DEF Identity!Installation
<1>4. ASSUME NEW name \in Identity!Postgres \cup {"other"},
             environment' = [environment EXCEPT !.others = @ \cup Identity!Locked({name}, c)]
      PROVE  environment' \in Identity!Installation
  <2> PICK others : others = environment.others \cup Identity!Locked({name}, c)
    OBVIOUS
  <2>1. Identity!Locked({name}, c) \in SUBSET Identity!Distributions
    BY LockedIsTyped
  <2>2. others \in SUBSET Identity!Distributions
    BY <1>2, <2>1 DEF Identity!Installation
  <2>3. environment' = [environment EXCEPT !.others = others]
    BY <1>2, <1>4 DEF Identity!Installation
  <2> QED BY <1>2, <2>2, <2>3 DEF Identity!Installation
<1>5. ASSUME NEW other, environment' = [environment EXCEPT !.others = @ \ {other}]
      PROVE  environment' \in Identity!Installation
  BY <1>2, <1>5 DEF Identity!Installation
<1> QED BY <1>1, <1>3, <1>4, <1>5, InstallationChanges DEF Identity!Drift

\* What a step of a preflight has to show.
LEMMA ExaminationOne ==
  ASSUME IdentityAssumption, IdentityInv, NEW check, NEW next, Identity!Advance(check, next),
         check => next \in Identity!Examination /\ ExaminationStands(next) /\ HasInputs(next)
  PROVE  IdentityInv'
<1>1. preflight' = (IF check THEN next ELSE None)
      /\ checkout' = checkout /\ preparation' = preparation /\ inputs' = inputs /\ environment' = environment
  BY DEF Identity!Advance
<1>2. /\ preflight' \in Identity!Examination \cup {None}
      /\ preflight' # None => ExaminationStands(preflight') /\ HasInputs(preflight')
  BY <1>1
<1>3. \A f : (ExaminationStands(f)' <=> ExaminationStands(f)) /\ (HasInputs(f)' <=> HasInputs(f))
  BY <1>1 DEF ExaminationStands, HasInputs
<1>4. \A q : PreparationStands(q)' <=> PreparationStands(q)
  BY <1>1 DEF PreparationStands
<1>5. \A i : InputsAreWhole(i)' <=> InputsAreWhole(i)
  BY DEF InputsAreWhole
<1>6. Identity!TypeOK'
  BY <1>1, <1>2 DEF IdentityInv, Identity!TypeOK
<1> QED BY <1>1, <1>2, <1>3, <1>4, <1>5, <1>6 DEF IdentityInv

LEMMA ExaminesInstallation ==
  ASSUME IdentityAssumption, IdentityInv,
         \/ \E t \in Targets, kit \in BOOLEAN : Identity!ReadInstalledInventory(t, kit)
         \/ Identity!VerifyInstalledLocks \/ Identity!VerifyMigrations
  PROVE  IdentityInv'
<1> PICK f : f = preflight
  OBVIOUS
<1>0. f # None => f \in Identity!Examination /\ ExaminationStands(f) /\ environment \in Identity!Installation
  BY DEF IdentityInv, Identity!TypeOK, ExaminationStands
<1>1. ASSUME NEW t \in Targets, NEW kit \in BOOLEAN, Identity!ReadInstalledInventory(t, kit)
      PROVE  IdentityInv'
  <2> PICK next : next = [pc |-> "inventory", target |-> t, kit |-> kit, moved |-> FALSE,
                          inventory |-> environment.inventory, locks |-> None, read |-> None]
    OBVIOUS
  <2>1. environment # None /\ Identity!Advance(TRUE, next)
    BY <1>1 DEF Identity!ReadInstalledInventory
  <2>2. environment.inventory \in Identity!Inventories
    BY <2>1 DEF IdentityInv, Identity!TypeOK, Identity!Installation
  <2>3. next \in Identity!Examination
    BY <2>2 DEF Identity!Examination
  <2>4. ExaminationStands(next) /\ HasInputs(next)
    BY <2>1 DEF ExaminationStands, HasInputs
  <2> QED BY <2>1, <2>3, <2>4, ExaminationOne
<1>2. ASSUME Identity!VerifyInstalledLocks PROVE IdentityInv'
  <2> PICK next : next = [f EXCEPT !.pc = "locks", !.locks = environment.parts["locks"]]
    OBVIOUS
  <2> PICK check : check = (environment.parts["locks"] = f.inventory["locks"])
    OBVIOUS
  <2>1. f # None /\ f.pc = "inventory" /\ Identity!Advance(check, next)
    BY <1>2 DEF Identity!VerifyInstalledLocks, Identity!Preflight
  <2>2. environment.parts["locks"] \in Contents \cup {None}
    BY <2>1, <1>0 DEF Identity!Installation, Identity!Released
  <2>3. next \in Identity!Examination /\ next.pc = "locks" /\ next.locks = environment.parts["locks"]
        /\ next.inventory = f.inventory /\ next.moved = f.moved
    BY <2>1, <2>2, <1>0 DEF Identity!Examination
  <2>4. check => ExaminationStands(next) /\ HasInputs(next)
    BY <2>1, <2>3, <1>0 DEF ExaminationStands, HasInputs
  <2> QED BY <2>1, <2>3, <2>4, ExaminationOne
<1>3. ASSUME Identity!VerifyMigrations PROVE IdentityInv'
  <2> PICK next : next = [f EXCEPT !.pc = "migrations"]
    OBVIOUS
  <2> PICK check : check = (/\ environment.parts["migrations"] = environment.inventory["migrations"]
                            /\ environment.parts["migrations"] = f.inventory["migrations"])
    OBVIOUS
  <2>1. f # None /\ f.pc = "locks" /\ Identity!Advance(check, next)
    BY <1>3 DEF Identity!VerifyMigrations, Identity!Preflight
  <2>2. next \in Identity!Examination /\ next.pc = "migrations" /\ next.locks = f.locks
        /\ next.inventory = f.inventory /\ next.moved = f.moved
    BY <2>1, <1>0 DEF Identity!Examination
  <2>3. check => environment.parts["migrations"] = f.inventory["migrations"]
    OBVIOUS
  <2>4. check => ExaminationStands(next) /\ HasInputs(next)
    BY <2>1, <2>2, <2>3, <1>0 DEF ExaminationStands, HasInputs
  <2> QED BY <2>1, <2>2, <2>4, ExaminationOne
<1> QED BY <1>1, <1>2, <1>3

LEMMA ExaminesInputs ==
  ASSUME IdentityAssumption, IdentityInv,
         Identity!VerifyInputs \/ Identity!VerifyKit \/ Identity!VerifySubject
  PROVE  IdentityInv'
<1> PICK f : f = preflight
  OBVIOUS
<1>0. f # None => f \in Identity!Examination /\ ExaminationStands(f) /\ environment \in Identity!Installation
                  /\ f.target \in Targets
  BY DEF IdentityInv, Identity!TypeOK, ExaminationStands, Identity!Examination
<1>1. ASSUME Identity!VerifyInputs PROVE IdentityInv'
  <2> PICK i : i = inputs[f.target]
    OBVIOUS
  <2> PICK next : next = [f EXCEPT !.pc = "inputs", !.read = i]
    OBVIOUS
  <2> PICK check : check = (/\ i # None /\ i.release = f.inventory
                            /\ i.locks = f.locks /\ i.locks = environment.parts["locks"]
                            /\ Identity!Untouched(i))
    OBVIOUS
  <2>1. f # None /\ f.pc = "migrations" /\ Identity!Advance(check, next)
    BY <1>1, Zenon DEF Identity!VerifyInputs, Identity!Preflight
  <2>2. i # None => i \in Identity!InstallInputs
    BY <2>1, <1>0 DEF IdentityInv, Identity!TypeOK
  <2>3. check => i # None /\ i.release = f.inventory
    OBVIOUS
  <2>4. check => /\ next \in Identity!Examination /\ next.pc = "inputs" /\ next.read = i
                 /\ next.locks = f.locks /\ next.inventory = f.inventory /\ next.moved = f.moved
                 /\ next.target = f.target
    BY <2>1, <2>2, <2>3, <1>0 DEF Identity!Examination
  <2>5. check => ExaminationStands(next) /\ HasInputs(next)
    BY <2>1, <2>2, <2>3, <2>4, <1>0 DEF ExaminationStands, HasInputs
  <2> QED BY <2>1, <2>4, <2>5, ExaminationOne
<1>2. ASSUME Identity!VerifyKit PROVE IdentityInv'
  <2> PICK kit : kit = inputs[f.target].kit
    OBVIOUS
  <2> PICK read : read = [f.read EXCEPT !.kit = IF f.kit THEN kit ELSE f.read.kit]
    OBVIOUS
  <2> PICK next : next = [f EXCEPT !.pc = "kit", !.read = read]
    OBVIOUS
  <2> PICK check : check = (f.kit => Identity!KitIsWhole(kit))
    OBVIOUS
  <2>1. f # None /\ f.pc = "inputs"
    BY <1>2 DEF Identity!VerifyKit, Identity!Preflight
  <2>2. f.read \in Identity!InstallInputs /\ f \in Identity!Examination /\ f.read.kit \in Identity!Kits
    BY <2>1, <1>0 DEF ExaminationStands, Identity!InstallInputs
  <2>3. Identity!Advance(check, next)
    BY <1>2, <2>2 DEF Identity!VerifyKit, Identity!InstallInputs, Identity!Examination
  <2>4. check /\ f.kit => kit.commit = f.read.commit
    BY DEF Identity!KitIsWhole
  <2>5. HasInputs(f) /\ inputs[f.target] # None
    BY <2>1 DEF IdentityInv, HasInputs
  <2>6. kit \in Identity!Kits
    BY <2>1, <2>5, <1>0 DEF IdentityInv, Identity!TypeOK, Identity!InstallInputs
  <2>7. read \in Identity!InstallInputs /\ read.release = f.read.release /\ read.commit = f.read.commit
        /\ (f.kit => read.kit = kit)
    BY <2>2, <2>6 DEF Identity!InstallInputs
  <2>8. next \in Identity!Examination /\ next.pc = "kit" /\ next.read = read /\ next.kit = f.kit
        /\ next.locks = f.locks /\ next.inventory = f.inventory /\ next.moved = f.moved
        /\ next.target = f.target
    BY <2>2, <2>7 DEF Identity!Examination
  <2>9. check => ExaminationStands(next)
    <3>1. /\ environment # None /\ f.locks = f.inventory["locks"] /\ f.read.release = f.inventory
          /\ ~f.moved => /\ environment.inventory = f.inventory
                         /\ environment.parts["migrations"] = f.inventory["migrations"]
      BY <2>1, <1>0 DEF ExaminationStands
    <3>2. check /\ next.kit => next.read.kit.commit = next.read.commit
      BY <2>4, <2>7, <2>8
    <3>3. /\ next.locks = next.inventory["locks"]
          /\ next.read \in Identity!InstallInputs /\ next.read.release = next.inventory
          /\ ~next.moved => /\ environment.inventory = next.inventory
                            /\ environment.parts["migrations"] = next.inventory["migrations"]
      BY <3>1, <2>7, <2>8
    <3> QED BY <3>1, <3>2, <3>3, <2>8 DEF ExaminationStands
  <2>10. HasInputs(next)
    BY <2>5, <2>8 DEF HasInputs
  <2> QED BY <2>3, <2>8, <2>9, <2>10, ExaminationOne
<1>3. ASSUME Identity!VerifySubject PROVE IdentityInv'
  <2> PICK next : next = [f EXCEPT !.pc = "passed"]
    OBVIOUS
  <2> PICK check : check = (/\ Identity!PackageIs(f.inventory) /\ environment.origin = f.read.digest
                            /\ Identity!AllOrNone /\ environment.others = Identity!Allowed)
    OBVIOUS
  <2> PICK optional :
        optional = {name \in Identity!Postgres : \E other \in environment.others : other[1] = name}
    OBVIOUS
  <2>1. f # None /\ f.pc = "kit" /\ Identity!Advance(check, next)
    BY <1>3, Zenon DEF Identity!VerifySubject, Identity!Preflight
  <2>2. next \in Identity!Examination /\ next.pc = "passed" /\ next.read = f.read /\ next.kit = f.kit
        /\ next.locks = f.locks /\ next.inventory = f.inventory /\ next.moved = f.moved
        /\ next.target = f.target
    BY <2>1, <1>0 DEF Identity!Examination
  <2>3. check => /\ Identity!PackageIs(f.inventory) /\ environment.origin = f.read.digest
                 /\ Identity!AllOrNone /\ environment.others = Identity!Allowed
    BY Zenon
  <2>4. check => environment.parts["code"] = f.inventory["code"] /\ environment.parts["locks"] = f.inventory["locks"]
    BY <2>3 DEF Identity!PackageIs
  <2>5. check => optional \in {{}, Identity!Postgres}
    BY <2>3 DEF Identity!AllOrNone
  <2>6. check => environment.others = Identity!Locked(Identity!Runtime \cup optional, f.locks)
                   \cup IF f.kit THEN {<<"provider", f.read.kit.content>>} ELSE {}
    BY <2>3 DEF Identity!Allowed
  <2>7. check => \E extra \in {{}, Identity!Postgres} :
                   environment.others = Identity!Locked(Identity!Runtime \cup extra, next.locks)
                     \cup IF next.kit THEN {<<"provider", next.read.kit.content>>} ELSE {}
    BY <2>2, <2>5, <2>6
  <2>8. /\ environment # None /\ next.locks = next.inventory["locks"]
        /\ next.read \in Identity!InstallInputs /\ next.read.release = next.inventory
        /\ next.kit => next.read.kit.commit = next.read.commit
        /\ ~next.moved => /\ environment.inventory = next.inventory
                          /\ environment.parts["migrations"] = next.inventory["migrations"]
    BY <2>1, <2>2, <1>0 DEF ExaminationStands
  <2>9. check => ExaminationStands(next)
    BY <2>2, <2>3, <2>4, <2>7, <2>8 DEF ExaminationStands
  <2>10. HasInputs(next)
    BY <2>1, <2>2 DEF IdentityInv, HasInputs
  <2> QED BY <2>1, <2>2, <2>9, <2>10, ExaminationOne
<1> QED BY <1>1, <1>2, <1>3

LEMMA IdentityKeep ==
  ASSUME IdentityAssumption, IdentityInv, [Identity!Next]_identityVars
  PROVE  IdentityInv'
<1>1. ASSUME NEW p \in Preparers,
             \/ \E t \in Targets : Identity!LoadInventory(p, t)
             \/ Identity!GitIdentity(p) \/ Identity!Download(p) \/ Identity!CopyPackage(p)
             \/ Identity!BuildWheels(p) \/ Identity!Assemble(p) \/ Identity!Publish(p) \/ Identity!Die(p)
      PROVE  IdentityInv'
  BY <1>1, PreparesReading, PreparesCopying, PreparePublishes
<1>2. ASSUME Identity!PrepareStep PROVE IdentityInv'
  BY <1>1, <1>2, Zenon DEF Identity!PrepareStep
<1>3. ASSUME Identity!HostStep PROVE IdentityInv'
  BY <1>3, HostDamages, HostInstalls, HostDrifts, Zenon DEF Identity!HostStep
<1>4. ASSUME Identity!PreflightStep PROVE IdentityInv'
  BY <1>4, ExaminesInstallation, ExaminesInputs, Zenon DEF Identity!PreflightStep
<1>5. ASSUME UNCHANGED identityVars PROVE IdentityInv'
  <2>1. checkout' = checkout /\ preparation' = preparation /\ inputs' = inputs
        /\ environment' = environment /\ preflight' = preflight
    BY <1>5 DEF identityVars
  <2>2. Identity!TypeOK'
    BY <2>1 DEF IdentityInv, Identity!TypeOK
  <2>3. \A q : (PreparationStands(q)' <=> PreparationStands(q)) /\ (InputsAreWhole(q)' <=> InputsAreWhole(q))
               /\ (ExaminationStands(q)' <=> ExaminationStands(q)) /\ (HasInputs(q)' <=> HasInputs(q))
    BY <2>1 DEF PreparationStands, InputsAreWhole, ExaminationStands, HasInputs
  <2> QED BY <2>1, <2>2, <2>3 DEF IdentityInv
<1> QED BY <1>2, <1>3, <1>4, <1>5, CheckoutKeeps, Zenon DEF Identity!Next

-----------------------------------------------------------------------------
(* Composition (DownstreamComposition): what each caller has touched, holds *)
(* and knows when it comes to a step.                                      *)

\* What a caller has touched when it comes to a step of the composition.
TouchedAt(pc) ==
  CASE pc = "identity" -> {"notifications", "policy", "runtime"}
    [] pc = "source" -> {"notifications", "policy", "runtime", "identity"}
    [] pc \in {"runtime", "server", "artifacts"} -> Composition!Category \ {"artifacts"}
    [] OTHER -> Composition!Category

Composing == {"identity", "source", "runtime", "server", "artifacts", "policy", "services", "composed"}
Holding == {"server", "artifacts", "policy", "services", "composed"}

PublicIsGood == \A c \in Composition!Category : binding[c] \in {"shape", None}

\* What holds of one call, whether it holds a connection or has lost one.
CallIsSound(c, held, lost) ==
  /\ c.inventory = Composition!ProviderInventory
  /\ c.pc = "shape" \/ c.touched # {} => PublicIsGood
  /\ c.pc \in Composing =>
       /\ \A d \in Composition!Category : binding[d] = None
       /\ c.touched = TouchedAt(c.pc)
       /\ policy = Published \/ c.moved
  /\ c.pc \in {"services", "composed"} => c.policy = Published \/ c.moved
  /\ held <=> c.pc \in Holding
  /\ lost => c.pc = "done" /\ c.reason # "CONTRACT_PASS"

CompositionInv ==
  /\ binding \in [Composition!Category -> Composition!Faults \cup {None}]
  /\ policy \in Versions
  /\ call \in [Callers -> ProviderCalls \cup {None}]
  /\ \A who \in Callers :
       IF call[who] = None THEN who \notin opened /\ who \notin stuck
       ELSE CallIsSound(call[who], who \in opened, who \in stuck)

\* The public contracts are good when no public reason is given, and all are
\* good when no reason is.
LEMMA PublicReasons ==
  ASSUME CompositionAssumption, binding \in [Composition!Category -> Composition!Faults \cup {None}],
         \A c \in Composition!Category : binding[c] = "schema" => c = "policy"
  PROVE  /\ Composition!PublicReason \in CallReasons \cup {None} /\ Composition!PublicReason # "CONTRACT_PASS"
         /\ Composition!PublicReason = None => PublicIsGood
BY DEF CompositionAssumption, Composition!PublicReason, PublicIsGood, CallReasons, Composition!Faults, Composition!Category

LEMMA ShapeReasons ==
  ASSUME CompositionAssumption, PublicIsGood
  PROVE  /\ Composition!ShapeReason \in CallReasons \cup {None} /\ Composition!ShapeReason # "CONTRACT_PASS"
         /\ Composition!ShapeReason = None => policy = Published /\ \A c \in Composition!Category : binding[c] = None
BY DEF CompositionAssumption, Composition!ShapeReason, PublicIsGood, CallReasons

\* A sound call has not touched a provider of a bundle that is not compatible.
LEMMA ComposedIsSound ==
  ASSUME CompositionAssumption, CompositionInv
  PROVE  Composition!ComposedIsValid
<1> SUFFICES ASSUME NEW who \in Callers, call[who] # None
             PROVE  LET c == call[who] IN
                      /\ c.touched # {} => \A d \in Composition!Category : c.inventory[d] = "COMPATIBLE"
                      /\ c.pc = "composed" =>
                           /\ \A d \in Composition!Category : binding[d] = None
                           /\ c.touched = Composition!Category
                           /\ who \in opened
                           /\ c.policy = Published \/ c.moved
                      /\ c.pc = "done" =>
                           /\ who \notin opened
                           /\ c.reason = "CONTRACT_PASS" => who \notin stuck
  BY DEF Composition!ComposedIsValid
<1>1. CallIsSound(call[who], who \in opened, who \in stuck)
  BY DEF CompositionInv
<1>2. PublicIsGood => \A d \in Composition!Category : Composition!ProviderInventory[d] = "COMPATIBLE"
  BY DEF CompositionAssumption, PublicIsGood, Composition!ProviderInventory, Composition!Faults
<1> QED  BY <1>1, <1>2 DEF CallIsSound, Composing, Holding, TouchedAt

\* One caller moves; what the others do, hold and have lost stays.
LEMMA OneCallMoves ==
  ASSUME CompositionAssumption, CompositionInv, NEW who \in Callers, NEW c \in ProviderCalls,
         UNCHANGED <<binding, policy>>, call' = [call EXCEPT ![who] = c],
         \A other \in Callers \ {who} :
           (other \in opened' <=> other \in opened) /\ (other \in stuck' <=> other \in stuck),
         CallIsSound(c, who \in opened', who \in stuck')
  PROVE  CompositionInv'
<1>1. \A d, held, lost : CallIsSound(d, held, lost)' <=> CallIsSound(d, held, lost)
  BY DEF CallIsSound, PublicIsGood, Composition!ProviderInventory
<1>2. /\ call' \in [Callers -> ProviderCalls \cup {None}] /\ call'[who] = c /\ c # None
      /\ \A other \in Callers \ {who} : call'[other] = call[other]
  BY DEF CompositionInv, CompositionAssumption
<1> QED  BY <1>1, <1>2 DEF CompositionInv

LEMMA CompositionInit == ASSUME CompositionAssumption PROVE Composition!Init => CompositionInv
BY DEF CompositionAssumption, Composition!Init, CompositionInv

\* A call that leaves with a failure, having closed what it held.
LEMMA CallLeaves ==
  ASSUME CompositionAssumption, CompositionInv, NEW who \in Callers,
         call[who] # None, NEW reason \in CallReasons, reason # "CONTRACT_PASS",
         UNCHANGED <<binding, policy>>, Composition!Abandon(who, reason)
  PROVE  CompositionInv'
<1> DEFINE c == [call[who] EXCEPT !.pc = "done", !.reason = reason]
<1>1. call[who] \in ProviderCalls /\ CallIsSound(call[who], who \in opened, who \in stuck)
  BY DEF CompositionInv
<1>2. /\ c \in ProviderCalls /\ c.pc = "done" /\ c.reason = reason
      /\ c.inventory = call[who].inventory /\ c.touched = call[who].touched
  BY <1>1 DEF ProviderCalls, CallPcs
<1>3. call' = [call EXCEPT ![who] = c]
  BY <1>1 DEF Composition!Abandon, Composition!Leave, CompositionInv
<1>4. /\ who \notin opened'
      /\ \A other \in Callers \ {who} :
           (other \in opened' <=> other \in opened) /\ (other \in stuck' <=> other \in stuck)
  BY DEF Composition!Abandon
<1> HIDE DEF c
<1>5. CallIsSound(c, who \in opened', who \in stuck')
  <2>1. call[who].touched # {} => PublicIsGood
    BY <1>1 DEF CallIsSound
  <2>2. c.inventory = Composition!ProviderInventory
    BY <1>1, <1>2 DEF CallIsSound
  <2> QED  BY <1>2, <1>4, <2>1, <2>2 DEF CallIsSound, Composing, Holding
<1> QED  BY <1>2, <1>3, <1>4, <1>5, OneCallMoves

\* A call that goes on, and may touch one more provider.
LEMMA CallGoesOn ==
  ASSUME CompositionAssumption, CompositionInv, NEW who \in Callers,
         NEW pc \in CallPcs, NEW next \in CallPcs, Composition!At(who, pc),
         pc \in Composing, next \in Composing,
         TouchedAt(next) = TouchedAt(pc) \cup ({pc} \cap Composition!Category),
         pc # "policy" /\ (next \in {"services", "composed"} => pc = "services"),
         next \in Holding <=> pc \in Holding,
         call' = [call EXCEPT ![who].pc = next, ![who].touched = @ \cup ({pc} \cap Composition!Category)],
         UNCHANGED <<binding, policy, opened, stuck>>
  PROVE  CompositionInv'
<1> DEFINE c == [call[who] EXCEPT !.pc = next, !.touched = call[who].touched \cup ({pc} \cap Composition!Category)]
<1>1. call[who] \in ProviderCalls /\ CallIsSound(call[who], who \in opened, who \in stuck) /\ call[who].pc = pc
  BY DEF CompositionInv, Composition!At
<1>2. /\ c \in ProviderCalls /\ c.pc = next /\ c.touched = call[who].touched \cup ({pc} \cap Composition!Category)
      /\ c.inventory = call[who].inventory /\ c.policy = call[who].policy
      /\ c.moved = call[who].moved
  BY <1>1 DEF ProviderCalls
<1>3. call' = [call EXCEPT ![who] = c]
  BY <1>1 DEF CompositionInv
<1> HIDE DEF c
<1>4. c.touched = TouchedAt(next)
  BY <1>1, <1>2 DEF CallIsSound
<1>5. CallIsSound(c, who \in opened', who \in stuck')
  <2>1. /\ \A d \in Composition!Category : binding[d] = None
        /\ policy = Published \/ call[who].moved
    BY <1>1 DEF CallIsSound
  <2>2. PublicIsGood
    BY <2>1 DEF PublicIsGood
  <2>3. next \in {"services", "composed"} => call[who].policy = Published \/ call[who].moved
    BY <1>1 DEF CallIsSound
  <2>4. who \in opened' <=> next \in Holding
    BY <1>1 DEF CallIsSound
  <2>5. who \notin stuck'
    BY <1>1 DEF CallIsSound, Composing
  <2>6. next # "shape" /\ next # "done"
    BY DEF Composing
  <2>7. c.inventory = Composition!ProviderInventory
    BY <1>1, <1>2 DEF CallIsSound
  <2> QED  BY <1>2, <1>4, <2>1, <2>2, <2>3, <2>4, <2>5, <2>6, <2>7 DEF CallIsSound
<1> QED  BY <1>2, <1>3, <1>5, OneCallMoves

\* The steps before the composition.
LEMMA BeginKeeps ==
  ASSUME CompositionAssumption, CompositionInv, NEW who \in Callers,
         NEW purpose \in {"contract", "preflight", "start"}, Composition!Begin(who, purpose)
  PROVE  CompositionInv'
<1> DEFINE c == [pc |-> "public", purpose |-> purpose, touched |-> {}, policy |-> None,
                 moved |-> FALSE, inventory |-> Composition!ProviderInventory, reason |-> None]
<1>1. Composition!ProviderInventory \in [Composition!Category -> {"MISSING", "INCOMPATIBLE", "COMPATIBLE"}]
  BY DEF Composition!ProviderInventory
<1>2. c \in ProviderCalls
  BY <1>1 DEF ProviderCalls, CallPcs
<1>3. call' = [call EXCEPT ![who] = c] /\ UNCHANGED <<binding, policy, opened, stuck>>
  BY DEF Composition!Begin
<1>4. who \notin opened' /\ who \notin stuck'
  BY <1>3 DEF Composition!Begin, CompositionInv
<1>5. CallIsSound(c, who \in opened', who \in stuck')
  BY <1>4 DEF CallIsSound, Composing, Holding
<1> QED  BY <1>2, <1>3, <1>5, OneCallMoves

LEMMA PublicKeeps ==
  ASSUME CompositionAssumption, CompositionInv, NEW who \in Callers, Composition!ValidatePublic(who),
         \A c \in Composition!Category : binding[c] = "schema" => c = "policy"
  PROVE  CompositionInv'
<1>1. /\ call[who] \in ProviderCalls /\ CallIsSound(call[who], who \in opened, who \in stuck)
      /\ call[who].pc = "public"
  BY DEF CompositionInv, Composition!ValidatePublic, Composition!At
<1>2. who \notin opened /\ who \notin stuck /\ call[who].inventory = Composition!ProviderInventory
  BY <1>1 DEF CallIsSound, Holding
<1>3. /\ Composition!PublicReason \in CallReasons \cup {None} /\ Composition!PublicReason # "CONTRACT_PASS"
      /\ Composition!PublicReason = None => PublicIsGood
  BY PublicReasons DEF CompositionInv
<1>4. CASE Composition!PublicReason # None
  <2>1. Composition!Abandon(who, Composition!PublicReason) /\ UNCHANGED <<binding, policy>>
    BY <1>2, <1>4 DEF Composition!ValidatePublic, Composition!Abandon
  <2>2. call[who] # None
    BY DEF Composition!ValidatePublic, Composition!At
  <2> QED  BY <1>3, <1>4, <2>1, <2>2, CallLeaves
<1>5. CASE Composition!PublicReason = None
  <2> DEFINE c == [call[who] EXCEPT !.pc = "shape"]
  <2>1. c \in ProviderCalls /\ c.pc = "shape" /\ c.inventory = call[who].inventory
    BY <1>1 DEF ProviderCalls, CallPcs
  <2>2. call' = [call EXCEPT ![who] = c] /\ UNCHANGED <<binding, policy, opened, stuck>>
    BY <1>1, <1>5 DEF Composition!ValidatePublic, CompositionInv
  <2> HIDE DEF c
  <2>3. CallIsSound(c, who \in opened', who \in stuck')
    BY <1>2, <1>3, <1>5, <2>1, <2>2 DEF CallIsSound, Composing, Holding
  <2> QED  BY <2>1, <2>2, <2>3, OneCallMoves
<1> QED  BY <1>4, <1>5

LEMMA ShapeKeeps ==
  ASSUME CompositionAssumption, CompositionInv, NEW who \in Callers, Composition!ValidateShape(who)
  PROVE  CompositionInv'
<1> DEFINE old == call[who]
           asked == {"notifications", "policy", "runtime"}
           bad == [old EXCEPT !.pc = "done", !.reason = Composition!ShapeReason, !.touched = asked]
           pc == CASE old.purpose = "contract" -> "done"
                   [] old.purpose = "preflight" -> "public"
                   [] OTHER -> "identity"
           purpose == IF old.purpose = "preflight" THEN "composition" ELSE old.purpose
           reason == IF old.purpose = "contract" THEN "CONTRACT_PASS" ELSE None
           good == [old EXCEPT !.pc = pc, !.purpose = purpose, !.reason = reason, !.moved = FALSE,
                              !.touched = asked]
<1>1. old \in ProviderCalls /\ CallIsSound(old, who \in opened, who \in stuck) /\ old.pc = "shape"
  BY DEF CompositionInv, Composition!ValidateShape, Composition!At
<1>2. /\ who \notin opened /\ who \notin stuck /\ PublicIsGood
      /\ old.inventory = Composition!ProviderInventory
  BY <1>1 DEF CallIsSound, Holding
<1>3. /\ Composition!ShapeReason \in CallReasons \cup {None} /\ Composition!ShapeReason # "CONTRACT_PASS"
      /\ Composition!ShapeReason = None => policy = Published /\ \A c \in Composition!Category : binding[c] = None
  BY <1>2, ShapeReasons
<1>4. UNCHANGED <<binding, policy, opened, stuck>>
  BY DEF Composition!ValidateShape
<1>5. asked \in SUBSET Composition!Category
  BY DEF Composition!Category
<1>6. CASE Composition!ShapeReason # None
  <2>1. bad \in ProviderCalls /\ bad.pc = "done" /\ bad.inventory = old.inventory
    BY <1>1, <1>3, <1>5, <1>6 DEF ProviderCalls, CallPcs
  <2>2. call' = [call EXCEPT ![who] = bad]
    BY <1>1, <1>6 DEF Composition!ValidateShape, CompositionInv
  <2> HIDE DEF bad
  <2>3. CallIsSound(bad, who \in opened', who \in stuck')
    BY <1>2, <1>4, <2>1 DEF CallIsSound, Composing, Holding
  <2> QED  BY <1>4, <2>1, <2>2, <2>3, OneCallMoves
<1>7. CASE Composition!ShapeReason = None
  <2>1. /\ pc \in {"done", "public", "identity"}
        /\ purpose \in {"contract", "preflight", "composition", "start"}
        /\ reason \in CallReasons \cup {None}
    <3>1. old.purpose \in {"contract", "preflight", "composition", "start"}
      BY <1>1 DEF ProviderCalls
    <3> QED  BY <3>1 DEF CallReasons
  <2>2. call' = [call EXCEPT ![who] = good]
    BY <1>1, <1>7 DEF Composition!ValidateShape, CompositionInv
  <2> HIDE DEF pc, purpose, reason
  <2>3. /\ good \in ProviderCalls /\ good.pc = pc /\ good.inventory = old.inventory
        /\ good.touched = asked /\ good.moved = FALSE
    BY <1>1, <1>5, <2>1 DEF ProviderCalls, CallPcs
  <2> HIDE DEF good
  <2>4. CallIsSound(good, who \in opened', who \in stuck')
    <3>1. TouchedAt("identity") = asked
      BY DEF TouchedAt
    <3> QED  BY <1>2, <1>3, <1>4, <1>7, <2>1, <2>3, <3>1 DEF CallIsSound, Composing, Holding
  <2> QED  BY <1>4, <2>2, <2>3, <2>4, OneCallMoves
<1> QED  BY <1>6, <1>7

\* The steps of the composition.
LEMMA TryKeeps ==
  ASSUME CompositionAssumption, CompositionInv, NEW who \in Callers,
         NEW pc \in CallPcs, NEW next \in CallPcs, NEW reason \in CallReasons, reason # "CONTRACT_PASS",
         pc \in Composing, next \in Composing,
         TouchedAt(next) = TouchedAt(pc) \cup ({pc} \cap Composition!Category),
         pc # "policy" /\ (next \in {"services", "composed"} => pc = "services"),
         next \in Holding <=> pc \in Holding,
         Composition!Try(who, pc, next, reason)
  PROVE  CompositionInv'
<1>1. /\ Composition!At(who, pc) /\ UNCHANGED <<binding, policy>>
      /\ \/ /\ call' = [call EXCEPT ![who].pc = next, ![who].touched = @ \cup ({pc} \cap Composition!Category)]
            /\ UNCHANGED <<opened, stuck>>
         \/ Composition!Abandon(who, reason)
  BY DEF Composition!Try
<1>2. call[who] # None
  BY <1>1 DEF Composition!At
<1>3. CASE Composition!Abandon(who, reason)
  BY <1>1, <1>2, <1>3, CallLeaves
<1>4. CASE /\ call' = [call EXCEPT ![who].pc = next, ![who].touched = @ \cup ({pc} \cap Composition!Category)]
           /\ UNCHANGED <<opened, stuck>>
  BY <1>1, <1>4, CallGoesOn
<1> QED  BY <1>1, <1>3, <1>4

LEMMA CallsKeep ==
  ASSUME CompositionAssumption, CompositionInv, NEW who \in Callers,
         \/ Composition!ResolveIdentity(who) \/ Composition!DescribeSource(who) \/ Composition!CheckServer(who)
         \/ Composition!OpenArtifacts(who) \/ Composition!ComposeServices(who)
  PROVE  CompositionInv'
<1>0. {"COMPOSITION_FAIL_CLOSED", "SOURCE_BINDING_MISMATCH"} \subseteq CallReasons
  BY DEF CallReasons
<1>1. CASE Composition!ResolveIdentity(who)
  <2>1. TouchedAt("source") = TouchedAt("identity") \cup ({"identity"} \cap Composition!Category)
    BY DEF TouchedAt, Composition!Category
  <2> QED  BY <1>0, <1>1, <2>1, TryKeeps DEF Composition!ResolveIdentity, CallPcs, Composing, Holding
<1>2. CASE Composition!DescribeSource(who)
  <2>1. TouchedAt("runtime") = TouchedAt("source") \cup ({"source"} \cap Composition!Category)
    BY DEF TouchedAt, Composition!Category
  <2> QED  BY <1>0, <1>2, <2>1, TryKeeps DEF Composition!DescribeSource, CallPcs, Composing, Holding
<1>3. CASE Composition!CheckServer(who)
  <2>1. TouchedAt("artifacts") = TouchedAt("server") \cup ({"server"} \cap Composition!Category)
    BY DEF TouchedAt, Composition!Category
  <2> QED  BY <1>0, <1>3, <2>1, TryKeeps DEF Composition!CheckServer, CallPcs, Composing, Holding
<1>4. CASE Composition!OpenArtifacts(who)
  <2>1. TouchedAt("policy") = TouchedAt("artifacts") \cup ({"artifacts"} \cap Composition!Category)
    BY DEF TouchedAt, Composition!Category
  <2> QED  BY <1>0, <1>4, <2>1, TryKeeps DEF Composition!OpenArtifacts, CallPcs, Composing, Holding
<1>5. CASE Composition!ComposeServices(who)
  <2>1. TouchedAt("composed") = TouchedAt("services") \cup ({"services"} \cap Composition!Category)
    BY DEF TouchedAt, Composition!Category
  <2> QED  BY <1>0, <1>5, <2>1, TryKeeps DEF Composition!ComposeServices, CallPcs, Composing, Holding
<1> QED  BY <1>1, <1>2, <1>3, <1>4, <1>5

LEMMA OpenKeeps ==
  ASSUME CompositionAssumption, CompositionInv, NEW who \in Callers, Composition!OpenPostgresql(who)
  PROVE  CompositionInv'
<1> DEFINE old == call[who]
           c == [old EXCEPT !.pc = "server", !.touched = old.touched \cup {"runtime"}]
<1>1. old \in ProviderCalls /\ CallIsSound(old, who \in opened, who \in stuck) /\ old.pc = "runtime" /\ old # None
  BY DEF CompositionInv, Composition!OpenPostgresql, Composition!At
<1>2. CASE Composition!Abandon(who, "COMPOSITION_FAIL_CLOSED")
  BY <1>1, <1>2, CallLeaves DEF Composition!OpenPostgresql, CallReasons
<1>3. CASE /\ call' = [call EXCEPT ![who].pc = "server", ![who].touched = @ \cup {"runtime"}]
           /\ opened' = opened \cup {who} /\ UNCHANGED stuck
  <2>1. /\ c \in ProviderCalls /\ c.pc = "server" /\ c.touched = old.touched \cup {"runtime"}
        /\ c.inventory = old.inventory /\ c.moved = old.moved
    BY <1>1 DEF ProviderCalls, CallPcs, Composition!Category
  <2>2. call' = [call EXCEPT ![who] = c] /\ UNCHANGED <<binding, policy>>
    BY <1>1, <1>3 DEF Composition!OpenPostgresql, CompositionInv
  <2> HIDE DEF c
  <2>3. c.touched = TouchedAt("server")
    <3>1. old.touched = TouchedAt("runtime")
      BY <1>1 DEF CallIsSound, Composing
    <3>2. TouchedAt("runtime") = Composition!Category \ {"artifacts"} /\ TouchedAt("server") = Composition!Category \ {"artifacts"}
      BY DEF TouchedAt
    <3>3. "runtime" \in Composition!Category \ {"artifacts"}
      BY DEF Composition!Category
    <3> QED  BY <2>1, <3>1, <3>2, <3>3
  <2>4. CallIsSound(c, who \in opened', who \in stuck')
    <3>1. /\ \A d \in Composition!Category : binding[d] = None
          /\ policy = Published \/ old.moved
          /\ who \notin stuck /\ old.inventory = Composition!ProviderInventory
      BY <1>1 DEF CallIsSound, Composing
    <3>2. PublicIsGood
      BY <3>1 DEF PublicIsGood
    <3> QED  BY <1>3, <2>1, <2>3, <3>1, <3>2 DEF CallIsSound, Composing, Holding
  <2> QED  BY <1>3, <2>1, <2>2, <2>4, OneCallMoves
<1> QED  BY <1>2, <1>3 DEF Composition!OpenPostgresql

LEMMA PolicyKeeps ==
  ASSUME CompositionAssumption, CompositionInv, NEW who \in Callers, Composition!ReadPolicy(who)
  PROVE  CompositionInv'
<1> DEFINE old == call[who]
           c == [old EXCEPT !.pc = "services", !.policy = policy]
<1>1. old \in ProviderCalls /\ CallIsSound(old, who \in opened, who \in stuck) /\ old.pc = "policy" /\ old # None
  BY DEF CompositionInv, Composition!ReadPolicy, Composition!At
<1>2. CASE Composition!Abandon(who, "COMPOSITION_FAIL_CLOSED")
  BY <1>1, <1>2, CallLeaves DEF Composition!ReadPolicy, CallReasons
<1>3. CASE /\ call' = [call EXCEPT ![who].pc = "services", ![who].policy = policy]
           /\ UNCHANGED <<opened, stuck>>
  <2>1. /\ c \in ProviderCalls /\ c.pc = "services" /\ c.touched = old.touched
        /\ c.inventory = old.inventory /\ c.moved = old.moved /\ c.policy = policy
    BY <1>1 DEF ProviderCalls, CallPcs, CompositionInv
  <2>2. call' = [call EXCEPT ![who] = c] /\ UNCHANGED <<binding, policy>>
    BY <1>1, <1>3 DEF Composition!ReadPolicy, CompositionInv
  <2> HIDE DEF c
  <2>3. CallIsSound(c, who \in opened', who \in stuck')
    <3>1. /\ \A d \in Composition!Category : binding[d] = None
          /\ policy = Published \/ old.moved
          /\ who \notin stuck /\ who \in opened
          /\ old.inventory = Composition!ProviderInventory /\ old.touched = TouchedAt("policy")
      BY <1>1 DEF CallIsSound, Composing, Holding
    <3>2. PublicIsGood
      BY <3>1 DEF PublicIsGood
    <3>3. TouchedAt("policy") = TouchedAt("services")
      BY DEF TouchedAt
    <3> QED  BY <1>3, <2>1, <3>1, <3>2, <3>3 DEF CallIsSound, Composing, Holding
  <2> QED  BY <1>3, <2>1, <2>2, <2>3, OneCallMoves
<1> QED  BY <1>2, <1>3 DEF Composition!ReadPolicy

LEMMA CloseKeeps ==
  ASSUME CompositionAssumption, CompositionInv, NEW who \in Callers, Composition!Close(who)
  PROVE  CompositionInv'
<1> DEFINE old == call[who]
           c(reason) == [old EXCEPT !.pc = "done", !.reason = reason]
<1>1. old \in ProviderCalls /\ CallIsSound(old, who \in opened, who \in stuck) /\ old.pc = "composed"
  BY DEF CompositionInv, Composition!Close, Composition!At
<1>2. /\ PublicIsGood /\ who \notin stuck /\ old.inventory = Composition!ProviderInventory
  BY <1>1 DEF CallIsSound, Composing, PublicIsGood
<1>3. PICK reason \in CallReasons :
        /\ Composition!Leave(who, reason)
        /\ \/ reason = "CONTRACT_PASS" /\ UNCHANGED stuck
           \/ reason = "COMPOSITION_FAIL_CLOSED" /\ stuck' = stuck \cup {who}
  BY DEF Composition!Close, CallReasons
<1>4. opened' = opened \ {who} /\ UNCHANGED <<binding, policy>>
  BY DEF Composition!Close
<1>5. /\ c(reason) \in ProviderCalls /\ c(reason).pc = "done" /\ c(reason).reason = reason
      /\ c(reason).inventory = old.inventory
  BY <1>1 DEF ProviderCalls, CallPcs
<1>6. call' = [call EXCEPT ![who] = c(reason)]
  BY <1>1, <1>3 DEF Composition!Leave, CompositionInv
<1> HIDE DEF c
<1>7. CallIsSound(c(reason), who \in opened', who \in stuck')
  BY <1>2, <1>3, <1>4, <1>5 DEF CallIsSound, Composing, Holding
<1> QED  BY <1>3, <1>4, <1>5, <1>6, <1>7, OneCallMoves

\* The deployment changes its policy under everybody.
LEMMA ChangeKeeps ==
  ASSUME CompositionAssumption, CompositionInv, NEW v \in Versions, Composition!ChangePolicy(v)
  PROVE  CompositionInv'
<1>1. UNCHANGED <<binding, opened, stuck>> /\ policy' = v /\ DOMAIN call' = Callers
  BY DEF Composition!ChangePolicy
<1>2. ASSUME NEW who \in Callers, call[who] # None
      PROVE  /\ call'[who] \in ProviderCalls
             /\ CallIsSound(call[who], who \in opened, who \in stuck)'
  <2> DEFINE old == call[who]
             c == [old EXCEPT !.moved = TRUE]
  <2>1. old \in ProviderCalls /\ CallIsSound(old, who \in opened, who \in stuck)
    BY <1>2 DEF CompositionInv
  <2>2. call'[who] = c
    BY <1>2 DEF Composition!ChangePolicy
  <2>3. /\ c \in ProviderCalls /\ c.moved = TRUE /\ c.pc = old.pc /\ c.touched = old.touched
        /\ c.inventory = old.inventory /\ c.reason = old.reason
    BY <2>1 DEF ProviderCalls
  <2>4. Composition!ProviderInventory' = Composition!ProviderInventory /\ (PublicIsGood' <=> PublicIsGood)
    BY <1>1 DEF Composition!ProviderInventory, PublicIsGood
  <2> HIDE DEF c
  <2>5. /\ old.inventory = Composition!ProviderInventory
        /\ old.pc = "shape" \/ old.touched # {} => PublicIsGood
        /\ old.pc \in Composing => (\A d \in Composition!Category : binding[d] = None) /\ old.touched = TouchedAt(old.pc)
        /\ who \in opened <=> old.pc \in Holding
        /\ who \in stuck => old.pc = "done" /\ old.reason # "CONTRACT_PASS"
    BY <2>1 DEF CallIsSound
  <2>6. binding' = binding /\ (who \in opened' <=> who \in opened) /\ (who \in stuck' <=> who \in stuck)
    BY <1>1
  <2>7. PICK d : d = c
    OBVIOUS
  <2>8. CallIsSound(d, who \in opened, who \in stuck)'
    BY <2>3, <2>4, <2>5, <2>6, <2>7 DEF CallIsSound
  <2>9. d = call'[who] /\ d \in ProviderCalls
    BY <2>2, <2>3, <2>7
  <2>10. CallIsSound(call[who], who \in opened, who \in stuck)'
    BY <2>8, <2>9
  <2> QED  BY <2>9, <2>10
<1>3. ASSUME NEW who \in Callers, call[who] = None
      PROVE  call'[who] = None
  BY <1>3 DEF Composition!ChangePolicy
<1>4. call' = [who \in Callers |-> call'[who]]
  BY DEF Composition!ChangePolicy
<1>5. call' \in [Callers -> ProviderCalls \cup {None}]
  BY <1>2, <1>3, <1>4
<1>6. \A who \in Callers : (call[who] = None <=> call'[who] = None)
  BY <1>2, <1>3 DEF CompositionAssumption
<1>7. ASSUME NEW who \in Callers
      PROVE  (IF call[who] = None THEN who \notin opened /\ who \notin stuck
              ELSE CallIsSound(call[who], who \in opened, who \in stuck))'
  <2>1. CASE call[who] = None
    BY <1>1, <1>3, <2>1 DEF CompositionInv
  <2>2. CASE call[who] # None
    BY <1>2, <1>6, <2>2
  <2> QED  BY <2>1, <2>2
<1> QED  BY <1>1, <1>5, <1>7 DEF CompositionInv

\* Only the provider of policies has a schema that can be unsupported, for the
\* bundle does not change.
Schemas == \A c \in Composition!Category : binding[c] = "schema" => c = "policy"

LEMMA CompositionKeep ==
  ASSUME CompositionAssumption
  PROVE  CompositionInv /\ Schemas /\ [Composition!Next]_compositionVars => (CompositionInv /\ Schemas)'
<1> SUFFICES ASSUME CompositionInv, Schemas, [Composition!Next]_compositionVars PROVE (CompositionInv /\ Schemas)'
  OBVIOUS
<1>1. ASSUME NEW who \in Callers, NEW purpose \in {"contract", "preflight", "start"},
             Composition!Begin(who, purpose)
      PROVE  CompositionInv' /\ Schemas'
  <2>1. UNCHANGED binding
    BY <1>1 DEF Composition!Begin
  <2> QED  BY <1>1, <2>1, BeginKeeps DEF Schemas
<1>2. ASSUME NEW who \in Callers, Composition!ValidatePublic(who) PROVE CompositionInv' /\ Schemas'
  <2>1. UNCHANGED binding
    BY <1>2 DEF Composition!ValidatePublic
  <2> QED  BY <1>2, <2>1, PublicKeeps DEF Schemas
<1>3. ASSUME NEW who \in Callers, Composition!ValidateShape(who) PROVE CompositionInv' /\ Schemas'
  <2>1. UNCHANGED binding
    BY <1>3 DEF Composition!ValidateShape
  <2> QED  BY <1>3, <2>1, ShapeKeeps DEF Schemas
<1>4. ASSUME NEW who \in Callers,
             \/ Composition!ResolveIdentity(who) \/ Composition!DescribeSource(who) \/ Composition!CheckServer(who)
             \/ Composition!OpenArtifacts(who) \/ Composition!ComposeServices(who)
      PROVE  CompositionInv' /\ Schemas'
  <2>1. UNCHANGED binding
    BY <1>4 DEF Composition!ResolveIdentity, Composition!DescribeSource, Composition!CheckServer, Composition!OpenArtifacts, Composition!ComposeServices, Composition!Try
  <2> QED  BY <1>4, <2>1, CallsKeep DEF Schemas
<1>5. ASSUME NEW who \in Callers, Composition!OpenPostgresql(who) PROVE CompositionInv' /\ Schemas'
  <2>1. UNCHANGED binding
    BY <1>5 DEF Composition!OpenPostgresql
  <2> QED  BY <1>5, <2>1, OpenKeeps DEF Schemas
<1>6. ASSUME NEW who \in Callers, Composition!ReadPolicy(who) PROVE CompositionInv' /\ Schemas'
  <2>1. UNCHANGED binding
    BY <1>6 DEF Composition!ReadPolicy
  <2> QED  BY <1>6, <2>1, PolicyKeeps DEF Schemas
<1>7. ASSUME NEW who \in Callers, Composition!Close(who) PROVE CompositionInv' /\ Schemas'
  <2>1. UNCHANGED binding
    BY <1>7 DEF Composition!Close
  <2> QED  BY <1>7, <2>1, CloseKeeps DEF Schemas
<1>8. ASSUME NEW v \in Versions, Composition!ChangePolicy(v) PROVE CompositionInv' /\ Schemas'
  <2>1. UNCHANGED binding
    BY <1>8 DEF Composition!ChangePolicy
  <2> QED  BY <1>8, <2>1, ChangeKeeps DEF Schemas
<1>9. CASE UNCHANGED compositionVars
  <2>1. UNCHANGED <<binding, policy, call, opened, stuck>>
    BY <1>9 DEF compositionVars
  <2>2. \A c, held, lost : CallIsSound(c, held, lost)' <=> CallIsSound(c, held, lost)
    BY <2>1 DEF CallIsSound, PublicIsGood, Composition!ProviderInventory
  <2> QED  BY <2>1, <2>2 DEF CompositionInv, Schemas
<1> QED
  BY <1>1, <1>2, <1>3, <1>4, <1>5, <1>6, <1>7, <1>8, <1>9 DEF Composition!Next

-----------------------------------------------------------------------------
(* Starting (StartUp): what runs was found good by the start, and what a   *)
(* preflight passed is judged no worse by it.                              *)

StartGood(s) ==
  /\ Starting!SettingsReasons(s) = {} /\ Starting!SecurityPreflight(s) = {}
  /\ Starting!SecurityContract(s) = {}
  /\ Starting!EntrypointReasons(s) = {} /\ Starting!DirectReasons(s) = {}

LEMMA NoReasons == \A s : Starting!StartReasons(s) = {} <=> StartGood(s)
BY DEF Starting!StartReasons, StartGood

SettingsAreTyped(s) ==
  /\ DOMAIN s = DOMAIN Starting!First
  /\ \A name \in DOMAIN Starting!First : s[name] \in Starting!Choices[name]

StartInv ==
  /\ SettingsAreTyped(settings)
  /\ report = "PASS" => Starting!ConfigurationPreflight(settings) = {}
  /\ server \in {None, "runs", "refused", "failed"}
  /\ server = "runs" => StartGood(settings)
  /\ server = "refused" => ~StartGood(settings)
  /\ admitted # None =>
       server = "runs" /\ admitted \in Starting!Requests /\ Starting!Allows(settings, admitted)

LEMMA ReasonsOf ==
  ASSUME NEW condition, NEW reason
  PROVE  Starting!If(condition, reason) = {} <=> ~condition
BY DEF Starting!If

\* What the configuration preflight passes, the start finds good.
LEMMA PassedIsGood ==
  ASSUME NEW s, Starting!ConfigurationPreflight(s) = {}
  PROVE  StartGood(s)
<1>1. Starting!SettingsReasons(s) = {} /\ Starting!EntrypointReasons(s) = {} /\ Starting!DirectReasons(s) = {}
  BY DEF Starting!ConfigurationPreflight
<1>2. Starting!If(Starting!SecurityPreflight(s) # {}, "RUNTIME_SECURITY_CONFIGURATION_INVALID") = {}
  BY DEF Starting!ConfigurationPreflight
<1>3. Starting!SecurityPreflight(s) = {}
  BY <1>2, ReasonsOf
<1>4. Starting!PolicyReasons(s) = {} /\ Starting!InputReasons(s) = {}
  BY <1>1, <1>3 DEF Starting!SecurityPreflight
<1>5. Starting!EnvironmentIssues(s) = {} /\ Starting!CookieReasons(s) = {}
  BY <1>1, <1>3, <1>4 DEF Starting!SecurityPreflight
<1>6. Starting!SecurityContract(s) = {}
  BY <1>4, <1>5 DEF Starting!SecurityContract
<1> QED BY <1>1, <1>3, <1>6 DEF StartGood

LEMMA StartInit ==
  ASSUME StartAssumption, Starting!Init
  PROVE  StartInv
<1>1. settings = Starting!First /\ report = None /\ server = None /\ admitted = None
  BY DEF Starting!Init
<1>2. SettingsAreTyped(Starting!First)
  <2>1. /\ Starting!First["profile"] \in Starting!Choices["profile"] /\ Starting!First["port"] \in Starting!Choices["port"]
        /\ Starting!First["host"] \in Starting!Choices["host"] /\ Starting!First["origins"] \in Starting!Choices["origins"]
        /\ Starting!First["secret"] \in Starting!Choices["secret"] /\ Starting!First["secure"] \in Starting!Choices["secure"]
        /\ Starting!First["same_site"] \in Starting!Choices["same_site"] /\ Starting!First["replicas"] \in Starting!Choices["replicas"]
        /\ Starting!First["redis"] \in Starting!Choices["redis"]
    BY DEF Starting!First, Starting!Choices
  <2>2. /\ Starting!First["affinity"] \in Starting!Choices["affinity"] /\ Starting!First["proxy"] \in Starting!Choices["proxy"]
        /\ Starting!First["trusted"] \in Starting!Choices["trusted"] /\ Starting!First["root"] \in Starting!Choices["root"]
        /\ Starting!First["debug"] \in Starting!Choices["debug"] /\ Starting!First["entrypoint"] \in Starting!Choices["entrypoint"]
        /\ Starting!First["direct"] \in Starting!Choices["direct"] /\ Starting!First["contract"] \in Starting!Choices["contract"]
    BY DEF Starting!First, Starting!Choices
  <2>3. DOMAIN Starting!First =
          {"profile", "port", "host", "origins", "secret", "secure", "same_site", "replicas", "redis"}
            \cup {"affinity", "proxy", "trusted", "root", "debug", "entrypoint", "direct", "contract"}
    BY DEF Starting!First
  <2> QED BY <2>1, <2>2, <2>3 DEF SettingsAreTyped
<1> QED BY <1>1, <1>2 DEF StartInv, StartAssumption

LEMMA StartKeep ==
  ASSUME StartAssumption, StartInv, [Starting!Next]_startVars
  PROVE  StartInv'
<1> USE DEF StartInv
<1>1. ASSUME NEW name \in DOMAIN Starting!First, NEW value \in Starting!Choices[name],
             Starting!Configure(name, value)
      PROVE  StartInv'
  <2>1. server = None /\ server' = server /\ report' = None /\ admitted' = admitted
        /\ settings' = [settings EXCEPT ![name] = value]
    BY <1>1 DEF Starting!Configure
  <2>2. SettingsAreTyped(settings)'
    BY <2>1, <1>1 DEF SettingsAreTyped
  <2>3. admitted = None
    BY <2>1 DEF StartAssumption
  <2> QED BY <2>1, <2>2, <2>3 DEF StartAssumption
<1>2. ASSUME Starting!Preflight PROVE StartInv'
  <2>1. settings' = settings /\ server' = server /\ admitted' = admitted
    BY <1>2 DEF Starting!Preflight
  <2>2. report' = "PASS" => Starting!ConfigurationPreflight(settings) = {}
    BY <1>2 DEF Starting!Preflight
  <2> QED BY <2>1, <2>2, Zenon
<1>3. ASSUME Starting!RunEphi PROVE StartInv'
  <2>1. settings' = settings /\ report' = report /\ admitted' = admitted /\ server = None
    BY <1>3 DEF Starting!RunEphi
  <2>2. IF StartGood(settings) THEN server' \in {"runs", "failed"} ELSE server' = "refused"
    BY <1>3, NoReasons DEF Starting!RunEphi
  <2>3. admitted = None
    BY <2>1 DEF StartAssumption
  <2>4. /\ server' \in {None, "runs", "refused", "failed"}
        /\ server' = "runs" => StartGood(settings)
        /\ server' = "refused" => ~StartGood(settings)
    BY <2>2
  <2> QED BY <2>1, <2>3, <2>4
<1>4. ASSUME NEW request \in Starting!Requests, Starting!Request(request) PROVE StartInv'
  <2>1. server = "runs" /\ Starting!Allows(settings, request) /\ admitted' = request
        /\ settings' = settings /\ report' = report /\ server' = server
    BY <1>4 DEF Starting!Request
  <2> QED BY <2>1, <1>4
<1>5. ASSUME UNCHANGED startVars PROVE StartInv'
  BY <1>5 DEF startVars
<1> QED BY <1>1, <1>2, <1>3, <1>4, <1>5, Zenon DEF Starting!Next

\* What the start finds good is what it says.
LEMMA GoodIsAsConfigured ==
  ASSUME NEW s, SettingsAreTyped(s), StartGood(s)
  PROVE  /\ s.secret /\ s.origins \in {"loopback", "http", "https"}
         /\ s.profile = "development" => s.origins = "loopback"
         /\ s.profile # "development" => s.entrypoint = "valid"
         /\ s.profile = "production" => Starting!EffectiveSecureCookie(s) /\ ~s.debug
         /\ s.same_site = "none" => Starting!EffectiveSecureCookie(s)
         /\ s.profile = "qa" /\ s.origins = "https" => Starting!EffectiveSecureCookie(s)
         /\ s.replicas > 1 => s.redis /\ s.affinity = "true"
         /\ s.proxy = "on" => s.trusted = "default" /\ s.host = "any"
<1>1. /\ s.profile \in {"development", "qa", "production", "other"}
      /\ s.origins \in {"loopback", "http", "https", "none", "malformed", "twice"}
      /\ s.secure \in {"unset", "on", "off", "bad"}
      /\ s.trusted \in {"default", "empty", "wildcard"}
      /\ s.entrypoint \in {"none", "valid", "malformed"}
      /\ s.host \in {"loopback", "any"}
      /\ s.replicas \in {0, 1, 2}
  BY DEF SettingsAreTyped, Starting!First, Starting!Choices
<1>2. /\ Starting!PolicyReasons(s) = {} /\ Starting!InputReasons(s) = {}
      /\ Starting!EnvironmentIssues(s) = {} /\ Starting!CookieReasons(s) = {}
      /\ Starting!EntrypointReasons(s) = {}
  BY DEF StartGood, Starting!SecurityContract
<1>3. /\ s.profile # "other" /\ s.origins \notin {"malformed", "twice", "none"}
      /\ ~(s.profile = "development" /\ s.origins \in {"http", "https"})
  BY <1>2, ReasonsOf DEF Starting!PolicyReasons
<1>4. /\ s.trusted # "wildcard" /\ s.secure # "bad"
      /\ ~(s.proxy = "on" /\ s.trusted = "empty")
      /\ ~(s.same_site = "none" /\ (s.secure = "off" \/ (s.secure = "unset" /\ s.profile # "production")))
      /\ ~(s.profile = "production" /\ s.debug)
  BY <1>2 DEF Starting!InputReasons
<1>5. /\ Starting!If(~s.secret, "MISSING_STORAGE_SECRET") = {}
      /\ Starting!If(s.profile = "production" /\ ~Starting!EffectiveSecureCookie(s), "PRODUCTION_COOKIE_NOT_SECURE") = {}
      /\ Starting!If(s.replicas > 1 /\ ~s.redis, "MULTI_REPLICA_WITHOUT_SHARED_STORAGE") = {}
      /\ Starting!If(s.replicas > 1 /\ s.affinity # "true",
            "MULTI_REPLICA_WITHOUT_SESSION_AFFINITY_CONFIRMATION") = {}
      /\ Starting!If(s.proxy = "on" /\ s.host = "loopback", "PROXY_MODE_BOUND_TO_LOOPBACK") = {}
  BY <1>2 DEF Starting!EnvironmentIssues
<1>6. /\ s.secret /\ ~(s.profile = "production" /\ ~Starting!EffectiveSecureCookie(s))
      /\ ~(s.replicas > 1 /\ ~s.redis) /\ ~(s.replicas > 1 /\ s.affinity # "true")
      /\ ~(s.proxy = "on" /\ s.host = "loopback")
  BY <1>5, ReasonsOf
<1>7. ~(s.profile \in {"qa", "production"} /\ s.origins = "https" /\ ~Starting!EffectiveSecureCookie(s))
  BY <1>2, ReasonsOf DEF Starting!CookieReasons
<1>8. s.entrypoint # "malformed" /\ ~(s.entrypoint = "none" /\ s.profile # "development")
  <2>1. Starting!If(s.entrypoint = "malformed", "INVALID_DOWNSTREAM_ENTRYPOINT") = {}
        /\ Starting!If(s.entrypoint = "none" /\ s.profile # "development", "MISSING_DOWNSTREAM_ENTRYPOINT") = {}
    BY <1>2 DEF Starting!EntrypointReasons
  <2> QED BY <2>1, ReasonsOf
<1>9. s.same_site = "none" => Starting!EffectiveSecureCookie(s)
  BY <1>1, <1>4 DEF Starting!EffectiveSecureCookie
<1> QED BY <1>1, <1>3, <1>4, <1>6, <1>7, <1>8, <1>9

\* A list of origins with one place is the list of its origin.
LEMMA OneOrigin ==
  ASSUME NEW request \in Starting!Requests, Starting!Cardinality(DOMAIN request.origins) = 1
  PROVE  request.origins = <<request.origins[1]>>
<1>1. request.origins \in {<<>>, <<"loopback">>, <<"https">>, <<"http">>, <<"https", "https">>}
  BY DEF Starting!Requests
<1>2. Cardinality(DOMAIN request.origins) = 1
  BY DEF Starting!Cardinality, Cardinality
<1>3. request.origins # <<>>
  BY <1>2, FS_EmptySet
<1>4. request.origins # <<"https", "https">>
  <2>1. DOMAIN <<"https", "https">> = 1 .. 2
    OBVIOUS
  <2>2. Cardinality(1 .. 2) = 2
    <3>1. 1 \in Int /\ 2 \in Int /\ ~(1 > 2) /\ 2 - 1 + 1 = 2
      OBVIOUS
    <3> QED BY <3>1, FS_Interval
  <2> QED BY <1>2, <2>1, <2>2
<1> QED BY <1>1, <1>3, <1>4

LEMMA StartImply ==
  ASSUME StartAssumption, StartInv
  PROVE  Starting!RunsAsConfigured
<1>1. report = "PASS" => server # "refused"
  BY PassedIsGood DEF StartInv
<1>2. admitted # None /\ admitted.kind # "get" => admitted.origins = <<settings.origins>>
  <2> SUFFICES ASSUME admitted # None, admitted.kind # "get" PROVE admitted.origins = <<settings.origins>>
    OBVIOUS
  <2>1. admitted \in Starting!Requests /\ Starting!Allows(settings, admitted)
    BY DEF StartInv
  <2>2. admitted.kind \in {"websocket", "post"}
    BY <2>1 DEF Starting!Requests
  <2>3. Starting!Cardinality(DOMAIN admitted.origins) = 1 /\ admitted.origins[1] = settings.origins
    BY <2>1, <2>2 DEF Starting!Allows
  <2> QED BY <2>1, <2>3, OneOrigin
<1>3. server = "runs" => SettingsAreTyped(settings) /\ StartGood(settings)
  BY DEF StartInv
<1> QED BY <1>1, <1>2, <1>3, GoodIsAsConfigured DEF Starting!RunsAsConfigured

-----------------------------------------------------------------------------
(* The composition: each step is a step of one component at most.          *)

LEMMA ComponentSteps ==
  ASSUME [Next]_vars
  PROVE  /\ [Artifacts!Next]_artifactVars /\ [Selections!Next]_slotVars
         /\ [Values!Next]_valueVars /\ [Family!Next]_familyVars
         /\ [Decisions!Next]_decisionVars /\ [Recovery!Next]_backupVars
         /\ [Identity!Next]_identityVars /\ [Composition!Next]_compositionVars
         /\ [Starting!Next]_startVars
BY DEF vars, keptVars, deploymentVars, Next, ArtifactStep, SelectionStep, ValueStep, FamilyStep,
       DecisionStep, RecoveryStep, IdentityStep, CompositionStep, StartStep

\* Through races of writers, crashes and loss of power a scope has one account of
\* an artifact, and a writer who was answered finds it again (artifacts/filesystem.py).
THEOREM StoredForGood == Spec => []ArtifactsStand
<1>1. Init => ArtifactsInv
  BY ArtifactsInit, RecordsAssumption DEF Init, RecordsAssumption
<1>2. ArtifactsInv /\ [Next]_vars => ArtifactsInv'
  BY ArtifactsKeep, ComponentSteps, RecordsAssumption DEF RecordsAssumption
<1>3. ArtifactsInv => ArtifactsStand
  BY ArtifactsImply, RecordsAssumption DEF RecordsAssumption
<1> QED BY <1>1, <1>2, <1>3, PTL DEF Spec

\* However operators race and whatever crashes between the file and its sync, the
\* transitions that were answered are the history of the selection, and selected
\* slots had one release (release_slots.py).
THEOREM SelectedForGood == Spec => []SelectionStands
<1>1. Init => SlotsInv
  BY SlotsInit DEF Init
<1>2. SlotsInv /\ [Next]_vars => SlotsInv'
  BY SlotsKeep, ComponentSteps, RecordsAssumption DEF RecordsAssumption
<1>3. SlotsInv => SelectionStands
  BY SlotsImply
<1> QED BY <1>1, <1>2, <1>3, PTL DEF Spec

\* Whatever is corrected, reviewed and superseded in any order, and however far the
\* clocks of hosts are apart, as many values of a category count at a cutoff as
\* first values of it are known, a second of which only a host can enter whose
\* clock was behind the first; and validated benefit was approved by somebody else
\* (value/service.py).
THEOREM CountedForGood == Spec => []ValueIsSound
<1>1. Init => ValuesInv
  BY ValuesInit, RecordsAssumption DEF Init, RecordsAssumption
<1>2. ValuesInv /\ [Next]_vars => ValuesInv'
  BY ValuesKeep, ComponentSteps, RecordsAssumption DEF RecordsAssumption
<1>3. ValuesInv => ValueIsSound
  BY ValuesImply, RecordsAssumption DEF RecordsAssumption
<1> QED BY <1>1, <1>2, <1>3, PTL DEF Spec

\* A decision snapshot shows the Episode as it was at its version, and several
\* callers who project one command make one intent (application/handoff.py).
THEOREM DecidedForGood == Spec => []DecisionsAreTrue
<1>1. Init => DecisionsInv
  BY DecisionsInit, RecordsAssumption DEF Init, RecordsAssumption
<1>2. DecisionsInv /\ [Next]_vars => DecisionsInv'
  BY DecisionsKeep, ComponentSteps, RecordsAssumption DEF RecordsAssumption
<1>3. DecisionsInv => DecisionsAreTrue
  BY DecisionsImply DEF DecisionsAreTrue
<1> QED BY <1>1, <1>2, <1>3, PTL DEF Spec

\* While the database moves on, a rehearsal that is VERIFIED has the database of
\* one instant and its artifacts, and a review of a delta tells of all that moved
\* (o9_operations.py).
THEOREM BackedUpForGood == Spec => []BackupsAreTrue
<1>1. Init => RecoveryInv
  BY RecoveryInit, RecordsAssumption DEF Init, RecordsAssumption
<1>2. RecoveryInv /\ [Next]_vars => RecoveryInv'
  BY RecoveryKeep, ComponentSteps, RecordsAssumption DEF RecordsAssumption
<1>3. RecoveryInv => BackupsAreTrue
  BY RecoveryImply, RecordsAssumption DEF RecordsAssumption
<1> QED BY <1>1, <1>2, <1>3, PTL DEF Spec

DeploymentInv == FamilyInv /\ IdentityInv /\ CompositionInv /\ Schemas /\ StartInv

\* What is reported as qualified has passed on what the source has now and was
\* judged by others (family_center.py); what a preflight passes is the release that
\* its inputs name (release_identity.py); no provider is touched before the public
\* contracts are good, and who is done holds no connection
\* (downstream/composition.py); what runs is what the preflight passed (ui/app.py).
THEOREM Earned == Spec => []QualifiedIsEarned
<1>1. Init => DeploymentInv
  BY FamilyInit, IdentityInit, CompositionInit, StartInit, RecordsAssumption
     DEF Init, RecordsAssumption, DeploymentInv, Schemas, Composition!Init
<1>2. DeploymentInv /\ [Next]_vars => DeploymentInv'
  <2> SUFFICES ASSUME DeploymentInv, [Next]_vars PROVE DeploymentInv'
    OBVIOUS
  <2>1. FamilyInv'
    BY FamilyKeep, ComponentSteps, RecordsAssumption DEF RecordsAssumption, DeploymentInv
  <2>2. IdentityInv'
    BY IdentityKeep, ComponentSteps, RecordsAssumption DEF RecordsAssumption, DeploymentInv
  <2>3. CompositionInv' /\ Schemas'
    BY CompositionKeep, ComponentSteps, RecordsAssumption DEF RecordsAssumption, DeploymentInv
  <2>4. StartInv'
    BY StartKeep, ComponentSteps, RecordsAssumption DEF RecordsAssumption, DeploymentInv
  <2> QED BY <2>1, <2>2, <2>3, <2>4 DEF DeploymentInv
<1>3. DeploymentInv => QualifiedIsEarned
  BY FamilyImply, IdentityImply, ComposedIsSound, StartImply, RecordsAssumption
     DEF RecordsAssumption, DeploymentInv, QualifiedIsEarned
<1> QED BY <1>1, <1>2, <1>3, PTL DEF Spec

\* What a report of the value ledger says as of a cutoff is not changed any more
\* when all clocks are past it, however far apart they are, and who read one before
\* has ended (value/service.py); and only the Episode as it is becomes a new
\* snapshot (application/handoff.py).
THEOREM KeptForGood == Spec => RecordsStand
<1>1. Init => ValuesInv /\ DecisionsInv
  BY ValuesInit, DecisionsInit, RecordsAssumption DEF Init, RecordsAssumption
<1>2. ValuesInv /\ DecisionsInv /\ [Next]_vars => (ValuesInv /\ DecisionsInv)'
  BY ValuesKeep, DecisionsKeep, ComponentSteps, RecordsAssumption DEF RecordsAssumption
<1>3. ValuesInv /\ [Next]_vars =>
        [\A cutoff \in 0 .. Values!Horizon - 1 : Values!Report(cutoff)' = Values!Report(cutoff)]_valueVars
  BY ValuesStand, ComponentSteps, RecordsAssumption DEF RecordsAssumption
<1>4. DecisionsInv /\ [Next]_vars =>
        [/\ snapshots \subseteq snapshots' /\ intents \subseteq intents'
         /\ \A s \in snapshots' \ snapshots : s.version = Len(episode')]_decisionVars
  BY DecisionsFresh, ComponentSteps
<1> QED BY <1>1, <1>2, <1>3, <1>4, PTL
        DEF Spec, RecordsStand, Values!AsKnownStands, Decisions!SnapshotsAreFresh, Values!vars, Decisions!vars,
            valueVars, decisionVars

=============================================================================
